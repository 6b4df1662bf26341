---------------------------- MODULE TcpServer_proofs ----------------------------
(***************************************************************************)
(* The server's accept requests are counted, never lost and never freed    *)
(* while in use, its connections are announced once and owned until they   *)
(* are closed, and a closed server comes to its end: for any number of     *)
(* clients, requests and connections.                                      *)
(*                                                                         *)
(* The count is proved from what it counts, the requests that are not      *)
(* idle: one step changes one request, so the count changes by one.        *)
(***************************************************************************)
EXTENDS TcpServer, FiniteSetTheorems, TLAPS

-----------------------------------------------------------------------------
(* The inductive invariant.                                                *)

\* The requests that reqs_pending counts.
Busy == {r \in Requests : accept[r].place # "idle"}

\* A server listens with all its requests at work, and until it begins to,
\* and once it is freed, none is; only a closing server has its endgame queued.
ServerInv ==
  /\ server.reqs = Cardinality(Busy)
  /\ server.listening => server.life = "open" /\ Busy = Requests
  /\ server.life \in {"fresh", "freed"} => Busy = {}
  /\ server.endgame => server.life = "closing"

\* A connection's own close callback holds it until the handle is closed,
\* unless the program has replaced it; only what is at work is held.
Connection == [tcp: {"unborn", "open", "closing", "closed", "freed"},
               peer: Clients \union {None},
               held: SUBSET {"self", "program"}, replaced: BOOLEAN]

Owned(c) ==
  /\ c.tcp \in {"open", "closing"} => "self" \in c.held \/ c.replaced
  /\ c.tcp = "closed" => c.held = {"program"}
  /\ c.tcp \in {"unborn", "freed"} => c.held = {}

ConnInv ==
  /\ conn \in [Conns -> Connection]
  /\ \A n \in Conns : Owned(conn[n])

IInv ==
  /\ TypeOK
  /\ ServerInv
  /\ ConnInv

LEMMA InitIInv == Init => IInv
<1> SUFFICES ASSUME Init PROVE IInv
  OBVIOUS
<1>1. Busy = {}
  BY DEF Init, Busy, Idle
<1>2. TypeOK
  BY ServerAssumption DEF Init, TypeOK, Idle, Unborn
<1>3. ServerInv
  BY <1>1, FS_EmptySet DEF Init, ServerInv
<1>4. QED
  BY <1>2, <1>3 DEF Init, IInv, ConnInv, Connection, Owned, Unborn

-----------------------------------------------------------------------------
(* The count.                                                              *)

LEMMA BusyFinite == IsFiniteSet(Busy) /\ Cardinality(Busy) \in Nat
  BY ServerAssumption, FS_Subset, FS_CardinalityType DEF Busy

\* A request that is put somewhere else, but not to rest, leaves Busy as it is.
LEMMA BusyMoves ==
  ASSUME NEW r \in Requests, NEW to, accept[r].place # "idle", to.place # "idle",
         DOMAIN accept = Requests, accept' = [accept EXCEPT ![r] = to]
  PROVE  Busy' = Busy
  BY DEF Busy

\* A request that is put to rest counts no longer.
LEMMA BusyRests ==
  ASSUME NEW r \in Requests, accept[r].place # "idle",
         DOMAIN accept = Requests, accept' = [accept EXCEPT ![r] = Idle]
  PROVE  Cardinality(Busy') = Cardinality(Busy) - 1 /\ Cardinality(Busy') \in Nat
<1>1. Busy' = Busy \ {r} /\ r \in Busy
  BY DEF Busy, Idle
<1>2. QED
  BY <1>1, BusyFinite, FS_RemoveElement, FS_CardinalityType

-----------------------------------------------------------------------------
(* The connections.                                                        *)

\* One connection changes, into one that is owned.
LEMMA OneConn ==
  ASSUME ConnInv, NEW n, NEW c \in Connection, Owned(c),
         conn' = [conn EXCEPT ![n] = c]
  PROVE  ConnInv'
<1>1. conn' \in [Conns -> Connection]
  BY DEF ConnInv
<1>2. ASSUME NEW m \in Conns PROVE Owned(conn'[m])
  BY Zenon DEF ConnInv
<1>3. QED
  BY <1>1, <1>2 DEF ConnInv, Owned

\* What loses a pointer is closed, or deleted, if that was the last one.
LEMMA ReleasedOwned ==
  ASSUME NEW c \in Connection, NEW holder \in {"self", "program"},
         c.tcp \in {"open", "closing"} =>
           (holder = "program" /\ "self" \in c.held) \/ c.replaced,
         c.tcp = "closed" => holder = "self" \/ "self" \notin c.held,
         c.tcp \notin {"unborn", "freed"}
  PROVE  Released(c, holder) \in Connection /\ Owned(Released(c, holder))
<1> DEFINE left == c.held \ {holder}
<1>1. CASE left # {}
  <2>1. Released(c, holder) = [c EXCEPT !.held = left]
    BY <1>1 DEF Released
  <2>2. ASSUME c.tcp = "closed" PROVE left = {"program"}
    <3>1. left \subseteq {"program"}
      BY <2>2 DEF Connection
    <3>2. QED
      BY <1>1, <3>1
  <2>3. c.tcp \in {"open", "closing"} => "self" \in left \/ c.replaced
    BY DEF Connection
  <2>4. QED
    BY <2>1, <2>2, <2>3 DEF Connection, Owned
<1>2. CASE left = {} /\ c.tcp = "closed"
  BY <1>2, ServerAssumption DEF Released, Connection, Owned, Freed, Unborn
<1>3. CASE left = {} /\ c.tcp # "closed"
  <2>1. Released(c, holder) = [c EXCEPT !.held = {}, !.tcp = "closing"]
    BY <1>3 DEF Released
  <2>2. c.replaced
    BY <1>3 DEF Connection
  <2>3. QED
    BY <2>1, <2>2 DEF Connection, Owned
<1>4. QED
  BY <1>1, <1>2, <1>3

\* A new connection is held by its own close callback.
LEMMA NewConnStep ==
  ASSUME ConnInv, NEW peer \in Clients \union {None}, HandleNewConnection(peer)
  PROVE  ConnInv'
<1> DEFINE new == CHOOSE n \in Conns : conn[n].tcp = "unborn"
<1>0. CASE UNCHANGED conn
  BY <1>0 DEF ConnInv
<1> SUFFICES ASSUME ~ UNCHANGED conn PROVE ConnInv'
  BY <1>0
<1>1. PICK keepers \in SUBSET {"program"}, tcp \in {"open", "closing"} :
        conn' = [conn EXCEPT ![new] = [tcp |-> tcp, peer |-> peer,
                             held |-> keepers \union {"self"}, replaced |-> FALSE]]
  BY DEF HandleNewConnection
<1> HIDE DEF new
<1> DEFINE c == [tcp |-> tcp, peer |-> peer,
                 held |-> keepers \union {"self"}, replaced |-> FALSE]
<1>2. c \in Connection /\ Owned(c)
  BY DEF Connection, Owned
<1>3. QED
  BY <1>1, <1>2, OneConn

LEMMA ConnStep ==
  ASSUME ConnInv, NEW n \in Conns,
         ConnClosed(n) \/ ConnEnds(n) \/ CloseConn(n) \/ SetOnClose(n) \/ Forget(n)
  PROVE  ConnInv'
<1>1. conn[n] \in Connection /\ Owned(conn[n])
  BY DEF ConnInv
<1>2. CASE ConnClosed(n)
  <2> DEFINE c == [conn[n] EXCEPT !.tcp = "closed"]
  <2>1. c \in Connection /\ c.tcp = "closed"
    BY <1>1 DEF Connection
  <2>2. conn' = [conn EXCEPT ![n] = Released(c, "self")]
    BY <1>2 DEF ConnClosed
  <2>3. QED
    BY <2>1, <2>2, ReleasedOwned, OneConn
<1>3. CASE ConnEnds(n) \/ CloseConn(n)
  <2> DEFINE c == [conn[n] EXCEPT !.tcp = "closing"]
  <2>1. conn[n].tcp = "open" /\ conn' = [conn EXCEPT ![n] = c]
    BY <1>3 DEF ConnEnds, CloseConn
  <2>2. c \in Connection /\ Owned(c)
    BY <1>1, <2>1 DEF Connection, Owned
  <2>3. QED
    BY <2>1, <2>2, OneConn
<1>4. CASE SetOnClose(n)
  <2> DEFINE c == [conn[n] EXCEPT !.replaced = TRUE]
  <2>1. "self" \in conn[n].held /\ conn' = [conn EXCEPT ![n] = Released(c, "self")]
    BY <1>4 DEF SetOnClose
  <2>2. conn[n].tcp \in {"open", "closing"}
    BY <1>1, <2>1 DEF Connection, Owned
  <2>3. c \in Connection /\ c.tcp = conn[n].tcp /\ c.replaced
    BY <1>1 DEF Connection
  <2>4. QED
    BY <2>1, <2>2, <2>3, ReleasedOwned, OneConn
<1>5. CASE Forget(n)
  <2>1. /\ "program" \in conn[n].held
        /\ conn' = [conn EXCEPT ![n] = Released(conn[n], "program")]
    BY <1>5 DEF Forget
  <2>2. conn[n].tcp \notin {"unborn", "freed"}
    BY <1>1, <2>1 DEF Owned
  <2>3. QED
    BY <1>1, <2>1, <2>2, ReleasedOwned, OneConn DEF Owned
<1>6. QED
  BY <1>2, <1>3, <1>4, <1>5

-----------------------------------------------------------------------------
(* The server and its requests.                                            *)

NetTypeOK ==
  /\ server \in [life: {"fresh", "open", "closing", "freed"},
                 listening: BOOLEAN, reqs: Nat, endgame: BOOLEAN]
  /\ accept \in [Requests -> [place: {"idle", "kernel", "done"},
                              socket: {"invalid", "new"} \union Clients]]
  /\ backlog \in Seq(Clients)
  /\ faults \in 0..MaxFaults

NetInv == NetTypeOK /\ ServerInv

\* A request that is given to the kernel, or linked with its error, is at work.
LEMMA QueueStep ==
  ASSUME NetInv, NEW r \in Requests, accept[r].place # "idle", QueueAccept(r)
  PROVE  Busy' = Busy /\ NetTypeOK!2' /\ NetTypeOK!4'
<1>1. PICK to \in {Queued, Refused} : accept' = [accept EXCEPT ![r] = to]
  BY DEF QueueAccept
<1>2. to \in [place: {"kernel", "done"}, socket: {"invalid", "new"}]
  BY DEF Queued, Refused
<1>3. Busy' = Busy
  BY <1>1, <1>2, BusyMoves DEF NetInv, NetTypeOK
<1>4. NetTypeOK!2'
  BY <1>1, <1>2 DEF NetInv, NetTypeOK
<1>5. faults' \in 0..MaxFaults
  BY ServerAssumption DEF QueueAccept, NetInv, NetTypeOK
<1>6. QED
  BY <1>3, <1>4, <1>5

LEMMA ListenStep == ASSUME NetInv, Listen PROVE NetInv'
<1>1. PICK failing \in SUBSET Requests :
        /\ Cardinality(failing) <= MaxFaults - faults
        /\ accept' = [r \in Requests |-> IF r \in failing THEN Refused ELSE Queued]
        /\ faults' = faults + Cardinality(failing)
  BY DEF Listen
<1>2. Cardinality(failing) \in Nat /\ Cardinality(Requests) \in Nat
  BY ServerAssumption, FS_Subset, FS_CardinalityType
<1>3. Busy' = Requests
  BY <1>1 DEF Busy, Refused, Queued
<1>4. NetTypeOK!2'
  BY <1>1 DEF Refused, Queued
<1>5. faults' \in 0..MaxFaults
  BY <1>1, <1>2, ServerAssumption DEF NetInv, NetTypeOK
<1>6. NetTypeOK'
  BY <1>2, <1>4, <1>5 DEF Listen, NetInv, NetTypeOK
<1>7. ServerInv'
  BY <1>3 DEF Listen, NetInv, NetTypeOK, ServerInv
<1>8. QED
  BY <1>6, <1>7 DEF NetInv

\* The kernel only completes requests.
LEMMA KernelStep ==
  ASSUME NetInv, NEW r \in Requests, KernelAccept(r) \/ KernelAbort(r)
  PROVE  NetInv'
<1>1. PICK to \in [place: {"done"}, socket: {"invalid", "new"} \union Clients] :
        accept' = [accept EXCEPT ![r] = to]
  <2>1. CASE KernelAccept(r)
    BY <2>1 DEF KernelAccept, NetInv, NetTypeOK
  <2>2. CASE KernelAbort(r)
    BY <2>2 DEF KernelAbort, NetInv, NetTypeOK
  <2>3. QED
    BY <2>1, <2>2
<1>2. server' = server /\ accept[r].place # "idle"
  BY DEF KernelAccept, KernelAbort
<1>3. Busy' = Busy
  BY <1>1, <1>2, BusyMoves DEF NetInv, NetTypeOK
<1>4. backlog' \in Seq(Clients)
  <2>1. CASE backlog' = Tail(backlog) /\ backlog # <<>>
    BY <2>1, backlog \in Seq(Clients) DEF NetInv, NetTypeOK
  <2>2. CASE backlog' = backlog
    BY <2>2 DEF NetInv, NetTypeOK
  <2>3. QED
    BY <2>1, <2>2 DEF KernelAccept, KernelAbort
<1>5. faults' \in 0..MaxFaults
  BY ServerAssumption DEF KernelAccept, KernelAbort, NetInv, NetTypeOK
<1>6. NetTypeOK'
  BY <1>1, <1>2, <1>4, <1>5 DEF NetInv, NetTypeOK
<1>7. QED
  BY <1>2, <1>3, <1>6 DEF NetInv, ServerInv

\* A request that is put to rest is counted off, and the server listens no more.
LEMMA RestStep ==
  ASSUME NetInv, NEW r \in Requests, accept[r].place # "idle",
         accept' = [accept EXCEPT ![r] = Idle], UNCHANGED <<backlog, faults>>,
         NEW e \in BOOLEAN, e => server.life = "closing",
         server' = [server EXCEPT !.listening = FALSE, !.reqs = server.reqs - 1,
                                  !.endgame = e]
  PROVE  NetInv'
<1>1. Cardinality(Busy') = Cardinality(Busy) - 1 /\ Cardinality(Busy') \in Nat
  BY BusyRests DEF NetInv, NetTypeOK
<1>2. server.reqs = Cardinality(Busy) /\ server.life \notin {"fresh", "freed"}
  BY DEF NetInv, ServerInv, Busy
<1>3. accept' \in [Requests -> [place: {"idle", "kernel", "done"},
                                socket: {"invalid", "new"} \union Clients]]
  BY DEF Idle, NetInv, NetTypeOK
<1>4. NetTypeOK'
  BY <1>1, <1>2, <1>3 DEF NetInv, NetTypeOK
<1>5. ServerInv'
  BY <1>1, <1>2 DEF NetInv, NetTypeOK, ServerInv
<1>6. QED
  BY <1>4, <1>5 DEF NetInv

\* The loop's side of a request: it is queued again, or put to rest and counted
\* off; the last one of a closing server queues its endgame.
LEMMA ProcessStep ==
  ASSUME NetInv, NEW r \in Requests,
         ProcessConnection(r) \/ ProcessBroken(r) \/ ProcessRefused(r)
  PROVE  NetInv'
<1>1. accept[r].place # "idle" /\ backlog' = backlog
  BY DEF ProcessConnection, ProcessBroken, ProcessRefused
<1>2. r \in Busy /\ server.life \notin {"fresh", "freed"}
  BY <1>1 DEF Busy, NetInv, ServerInv
<1>3. CASE server' = server /\ QueueAccept(r)
  BY <1>1, <1>3, QueueStep DEF NetInv, NetTypeOK, ServerInv
<1>4. CASE /\ server' = server /\ faults < MaxFaults /\ faults' = faults + 1
           /\ accept' = [accept EXCEPT ![r] = Queued]
  <2>1. Busy' = Busy
    BY <1>1, <1>4, BusyMoves DEF Queued, NetInv, NetTypeOK
  <2>2. NetTypeOK'
    BY <1>1, <1>4, ServerAssumption DEF Queued, NetInv, NetTypeOK
  <2>3. QED
    BY <1>4, <2>1, <2>2 DEF NetInv, ServerInv
<1>5. ASSUME accept' = [accept EXCEPT ![r] = Idle], faults' = faults,
             DecreaseReqs, ~ server.listening
      PROVE  NetInv'
  <2> DEFINE e == server.endgame \/ (server.life = "closing" /\ server.reqs = 1)
  <2>1. e \in BOOLEAN
    OBVIOUS
  <2>2. server' = [server EXCEPT !.reqs = server.reqs - 1, !.endgame = e]
    BY <1>5 DEF DecreaseReqs
  <2>3. e => server.life = "closing"
    BY DEF NetInv, ServerInv
  <2>4. server = [server EXCEPT !.listening = FALSE]
    BY <1>5 DEF NetInv, NetTypeOK
  <2> HIDE DEF e
  <2>5. server' = [server EXCEPT !.listening = FALSE, !.reqs = server.reqs - 1,
                                 !.endgame = e]
    BY <2>2, <2>4 DEF NetInv, NetTypeOK
  <2>6. QED
    BY <1>1, <1>5, <2>1, <2>3, <2>5, RestStep
<1>6. ASSUME accept' = [accept EXCEPT ![r] = Idle], faults' = faults,
             server.listening,
             server' = [server EXCEPT !.listening = FALSE, !.reqs = @ - 1]
      PROVE  NetInv'
  <2>1. server.endgame = FALSE
    BY <1>6 DEF NetInv, NetTypeOK, ServerInv
  <2>2. server' = [server EXCEPT !.listening = FALSE, !.reqs = server.reqs - 1,
                                 !.endgame = FALSE]
    BY <1>6, <2>1 DEF NetInv, NetTypeOK
  <2>3. QED
    BY <1>1, <1>6, <2>2, RestStep
<1>7. CASE ProcessConnection(r)
  BY <1>7, <1>3, <1>4 DEF ProcessConnection
<1>8. CASE ProcessBroken(r)
  BY <1>8, <1>3, <1>5 DEF ProcessBroken
<1>9. CASE ProcessRefused(r)
  BY <1>9, <1>5, <1>6 DEF ProcessRefused
<1>10. QED
  BY <1>7, <1>8, <1>9

\* A server that is destroyed stays until its endgame finds no request at work.
LEMMA CloseStep == ASSUME NetInv, Destroy \/ Endgame PROVE NetInv'
<1>1. Busy' = Busy
  BY DEF Destroy, Endgame, Busy
<1>2. server.reqs = 0 => Busy = {}
  BY BusyFinite, FS_EmptySet DEF NetInv, ServerInv
<1>3. CASE Destroy
  <2> DEFINE e == (server.reqs = 0)
  <2>1. e \in BOOLEAN
    OBVIOUS
  <2>2. server' = [server EXCEPT !.life = "closing", !.listening = FALSE, !.endgame = e]
    BY <1>3 DEF Destroy
  <2> HIDE DEF e
  <2>3. backlog' \in Seq(Clients) /\ accept' = accept /\ faults' = faults
    BY <1>3 DEF Destroy
  <2>4. NetTypeOK'
    BY <2>1, <2>2, <2>3 DEF NetInv, NetTypeOK
  <2>5. QED
    BY <1>1, <2>2, <2>4 DEF NetInv, NetTypeOK, ServerInv
<1>4. CASE Endgame
  <2>1. NetTypeOK'
    BY <1>4 DEF Endgame, NetInv, NetTypeOK
  <2>2. QED
    BY <1>1, <1>2, <1>4, <2>1 DEF Endgame, NetInv, NetTypeOK, ServerInv
<1>5. QED
  BY <1>3, <1>4

\* A connection the kernel establishes goes to the end of the backlog.
LEMMA BacklogStep ==
  ASSUME NetInv, NEW c \in Clients, KernelConnect(c)
  PROVE  NetInv'
<1>1. backlog' \in Seq(Clients)
  <2>1. backlog \in Seq(Clients)
    BY DEF NetInv, NetTypeOK
  <2>2. backlog' = Append(backlog, c) \/ backlog' = backlog
    BY DEF KernelConnect
  <2>3. QED
    BY <2>1, <2>2
<1>2. Busy' = Busy
  BY DEF KernelConnect, Busy
<1>3. QED
  BY <1>1, <1>2 DEF KernelConnect, NetInv, NetTypeOK, ServerInv

-----------------------------------------------------------------------------
(* The clients.                                                            *)

ClientTypeOK ==
  client \in [Clients -> [request: {"none", "sent", "done", "told"},
                          ok: BOOLEAN, life: {"open", "closing", "closed"}]]

LEMMA ClientStep ==
  ASSUME ClientTypeOK, NEW c \in Clients,
         \/ Connect(c) \/ KernelConnect(c) \/ ProcessConnect(c)
         \/ CloseClient(c) \/ ClientClosed(c)
  PROVE  ClientTypeOK'
<1> USE DEF ClientTypeOK, Client
<1>1. CASE Connect(c)
  BY <1>1 DEF Connect
<1>2. CASE KernelConnect(c)
  BY <1>2 DEF KernelConnect
<1>3. CASE ProcessConnect(c)
  BY <1>3 DEF ProcessConnect, ConnectStatus
<1>4. CASE CloseClient(c)
  BY <1>4 DEF CloseClient
<1>5. CASE ClientClosed(c)
  BY <1>5 DEF ClientClosed
<1>6. QED
  BY <1>1, <1>2, <1>3, <1>4, <1>5

-----------------------------------------------------------------------------
(* The theorems.                                                           *)

LEMMA NextIInv == IInv /\ [Next]_vars => IInv'
<1> SUFFICES ASSUME IInv, [Next]_vars PROVE IInv'
  OBVIOUS
<1>1. NetInv /\ ClientTypeOK /\ ConnInv
  BY DEF IInv, TypeOK, NetInv, NetTypeOK, ClientTypeOK
<1>2. ASSUME NetInv', ClientTypeOK', ConnInv' PROVE IInv'
  BY <1>2 DEF IInv, TypeOK, NetInv, NetTypeOK, ClientTypeOK, ConnInv, Connection
<1>3. ASSUME UNCHANGED <<server, accept, backlog, faults>> PROVE NetInv'
  BY <1>1, <1>3 DEF NetInv, NetTypeOK, ServerInv, Busy
<1>4. ASSUME UNCHANGED client PROVE ClientTypeOK'
  BY <1>1, <1>4 DEF ClientTypeOK
<1>5. ASSUME UNCHANGED conn PROVE ConnInv'
  BY <1>1, <1>5 DEF ConnInv
<1>6. ASSUME NEW r \in Requests, KernelAccept(r) \/ KernelAbort(r) PROVE IInv'
  <2>1. UNCHANGED <<client, conn>>
    BY <1>6 DEF KernelAccept, KernelAbort
  <2>2. QED
    BY <1>1, <1>2, <1>4, <1>5, <1>6, <2>1, KernelStep
<1>7. ASSUME NEW r \in Requests,
             ProcessConnection(r) \/ ProcessBroken(r) \/ ProcessRefused(r)
      PROVE  IInv'
  <2>1. UNCHANGED client
    BY <1>7 DEF ProcessConnection, ProcessBroken, ProcessRefused
  <2>2. \/ UNCHANGED conn
        \/ \E peer \in Clients \union {None} : HandleNewConnection(peer)
    BY <1>7 DEF ProcessConnection, ProcessBroken, ProcessRefused, Accepted
  <2>3. ConnInv'
    BY <1>1, <1>5, <2>2, NewConnStep
  <2>4. QED
    BY <1>1, <1>2, <1>4, <1>7, <2>1, <2>3, ProcessStep
<1>8. ASSUME NEW n \in Conns,
             \/ ConnClosed(n) \/ ConnEnds(n) \/ CloseConn(n)
             \/ SetOnClose(n) \/ Forget(n)
      PROVE  IInv'
  <2>1. OnlyConn
    BY <1>8 DEF ConnClosed, ConnEnds, CloseConn, SetOnClose, Forget
  <2>2. QED
    BY <1>1, <1>2, <1>3, <1>4, <1>8, <2>1, ConnStep DEF OnlyConn
<1>9. ASSUME NEW c \in Clients,
             Connect(c) \/ ProcessConnect(c) \/ CloseClient(c) \/ ClientClosed(c)
      PROVE  IInv'
  <2>1. OnlyClient
    BY <1>9 DEF Connect, ProcessConnect, CloseClient, ClientClosed
  <2>2. QED
    BY <1>1, <1>2, <1>3, <1>5, <1>9, <2>1, ClientStep DEF OnlyClient
<1>10. ASSUME NEW c \in Clients, KernelConnect(c) PROVE IInv'
  <2>1. UNCHANGED conn
    BY <1>10 DEF KernelConnect
  <2>2. QED
    BY <1>1, <1>2, <1>5, <1>10, <2>1, BacklogStep, ClientStep
<1>11. CASE Listen
  <2>1. UNCHANGED <<client, conn>>
    BY <1>11 DEF Listen
  <2>2. QED
    BY <1>1, <1>2, <1>4, <1>5, <1>11, <2>1, ListenStep
<1>12. CASE Destroy \/ Endgame
  <2>1. UNCHANGED <<client, conn>>
    BY <1>12 DEF Destroy, Endgame
  <2>2. QED
    BY <1>1, <1>2, <1>4, <1>5, <1>12, <2>1, CloseStep
<1>13. CASE UNCHANGED vars
  BY <1>2, <1>3, <1>4, <1>5, <1>13 DEF vars
<1>14. QED
  BY <1>6, <1>7, <1>8, <1>9, <1>10, <1>11, <1>12, <1>13
     DEF Next, Process, Kernel, Program, Finished

\* The requests are counted, the connections owned, whatever the order of events.
THEOREM Invariant == Spec => []IInv
  BY InitIInv, NextIInv, PTL DEF Spec

\* The count of accept requests never frees one that is in use.
THEOREM RequestsSafe == Spec => []AcceptReqsSafe
<1>1. IInv => AcceptReqsSafe
  BY DEF IInv, ServerInv, Busy, AcceptReqsSafe
<1>2. QED
  BY <1>1, Invariant, PTL

\* A server that listens has all its accept requests at work.
THEOREM Listening == Spec => []NoRequestLost
<1>1. IInv => NoRequestLost
  BY DEF IInv, ServerInv, Busy, NoRequestLost
<1>2. QED
  BY <1>1, Invariant, PTL

\* A connection is held until it is closed, and then by the program only.
THEOREM Ownership == Spec => []OwnedUntilClosed
<1>1. IInv => OwnedUntilClosed
  BY DEF IInv, ConnInv, Owned, OwnedUntilClosed
<1>2. QED
  BY <1>1, Invariant, PTL

-----------------------------------------------------------------------------
(* A closing server comes to its end.                                      *)

\* A closing server has its endgame queued exactly when none of its accept
\* requests is at work: until then the last of them is to queue it, and the
\* endgame, when it comes, finds the count at zero and frees the handle.  So a
\* destroyed server is freed once the kernel has completed its requests and the
\* loop processed them.
EndgameOwed ==
  server.life = "closing" =>
    /\ server.endgame <=> \A r \in Requests : accept[r].place = "idle"
    /\ server.endgame => server.reqs = 0

LEMMA NextEndgameOwed == IInv /\ EndgameOwed /\ [Next]_vars => EndgameOwed'
<1> SUFFICES ASSUME IInv, EndgameOwed, [Next]_vars, server'.life = "closing"
             PROVE  /\ server'.endgame <=> \A r \in Requests : accept'[r].place = "idle"
                    /\ server'.endgame => server'.reqs = 0
  BY DEF EndgameOwed
<1>0. TypeOK /\ ServerInv /\ NetInv
  BY DEF IInv, TypeOK, NetInv, NetTypeOK
<1>1. server.reqs = Cardinality(Busy) /\ (server.reqs = 0 <=> Busy = {})
  BY <1>0, BusyFinite, FS_EmptySet DEF ServerInv
\* The server and which of its requests are idle stay as they are.
<1>2. ASSUME server' = server, Busy' = Busy
      PROVE  /\ server'.endgame <=> \A r \in Requests : accept'[r].place = "idle"
             /\ server'.endgame => server'.reqs = 0
  BY <1>2 DEF EndgameOwed, Busy
<1>3. ASSUME NEW r \in Requests, KernelAccept(r) \/ KernelAbort(r)
      PROVE  server' = server /\ Busy' = Busy
  <2>1. accept \in [Requests -> [place: {"idle", "kernel", "done"},
                                socket: {"invalid", "new"} \union Clients]]
    BY <1>0 DEF TypeOK
  <2>2. accept[r].place = "kernel" /\ server' = server
    BY <1>3 DEF KernelAccept, KernelAbort
  <2>3. PICK to : accept' = [accept EXCEPT ![r] = to] /\ to.place = "done"
    <3>1. CASE accept' = [accept EXCEPT ![r].place = "done"]
      <4>1. accept' = [accept EXCEPT ![r] = [accept[r] EXCEPT !.place = "done"]]
        BY <3>1
      <4>2. [accept[r] EXCEPT !.place = "done"].place = "done"
        BY <2>1
      <4> QED BY <4>1, <4>2
    <3>2. CASE accept' = [accept EXCEPT ![r] = [place |-> "done", socket |-> Head(backlog)]]
      <4> DEFINE done == [place |-> "done", socket |-> Head(backlog)]
      <4>1. done.place = "done"
        OBVIOUS
      <4>2. accept' = [accept EXCEPT ![r] = done]
        BY <3>2
      <4> HIDE DEF done
      <4> QED BY <4>1, <4>2
    <3> QED BY <1>3, <3>1, <3>2 DEF KernelAccept, KernelAbort
  <2>4. Busy' = Busy
    BY <2>1, <2>2, <2>3, BusyMoves
  <2> QED BY <2>2, <2>4
<1>4. ASSUME NEW r \in Requests, ProcessBroken(r) \/ ProcessRefused(r)
      PROVE  /\ server'.endgame <=> \A q \in Requests : accept'[q].place = "idle"
             /\ server'.endgame => server'.reqs = 0
  <2>1. server.life = "closing" /\ ~ server.listening
    BY <1>0, <1>4 DEF ProcessBroken, ProcessRefused, DecreaseReqs, TypeOK, ServerInv
  <2>2. DecreaseReqs /\ accept[r].place # "idle" /\ accept' = [accept EXCEPT ![r] = Idle]
    BY <1>4, <2>1 DEF ProcessBroken, ProcessRefused
  <2>3. Cardinality(Busy') = Cardinality(Busy) - 1 /\ Cardinality(Busy') \in Nat
    BY <1>0, <2>2, BusyRests DEF TypeOK
  <2>4. IsFiniteSet(Busy')
    BY ServerAssumption, FS_Subset DEF Busy
  <2>5. Cardinality(Busy') = 0 <=> Busy' = {}
    BY <2>4, FS_EmptySet
  <2>6. ~ server.endgame
    BY <2>1, <2>2 DEF EndgameOwed
  <2>7. /\ server'.endgame <=> server.reqs = 1
        /\ server'.reqs = server.reqs - 1
    BY <1>0, <2>1, <2>2, <2>6 DEF DecreaseReqs, TypeOK
  <2>8. server'.endgame <=> Busy' = {}
    BY <1>1, <2>3, <2>5, <2>7
  <2> QED BY <1>1, <2>3, <2>7, <2>8 DEF Busy
<1>5. CASE Destroy
  <2>1. accept' = accept /\ (server'.endgame <=> server.reqs = 0) /\ server'.reqs = server.reqs
    BY <1>0, <1>5 DEF Destroy, TypeOK
  <2> QED BY <1>1, <2>1 DEF Busy
<1>6. CASE Endgame
  <2>1. server.life = "closing" /\ server.reqs = 0
    BY <1>0, <1>6 DEF Endgame, ServerInv, EndgameOwed
  <2>2. server'.life = "freed"
    BY <1>0, <1>6, <2>1 DEF Endgame, TypeOK
  <2> QED BY <2>2
<1>7. ASSUME NEW r \in Requests PROVE ~ ProcessConnection(r)
  BY DEF ProcessConnection, Accepted
<1>8. ~ Listen
  BY <1>0 DEF Listen, TypeOK
<1>9. ASSUME UNCHANGED <<server, accept>> PROVE server' = server /\ Busy' = Busy
  BY <1>9 DEF Busy
<1> QED
  BY <1>2, <1>3, <1>4, <1>5, <1>6, <1>7, <1>8, <1>9
     DEF Next, Process, Kernel, Program, Finished, vars, ConnClosed, ConnEnds, ProcessConnect,
         ClientClosed, KernelConnect, CloseConn, SetOnClose, Forget, Connect, CloseClient,
         OnlyConn, OnlyClient

\* A closing server's endgame is never forgotten and never comes too early.
THEOREM EndgameComes == Spec => []EndgameOwed
<1>1. Init => EndgameOwed
  BY DEF Init, EndgameOwed
<1> QED BY <1>1, NextEndgameOwed, Invariant, PTL DEF Spec

\* The values of the variables.
THEOREM TypeCorrect == Spec => []TypeOK
<1>1. IInv => TypeOK
  BY DEF IInv
<1> QED BY <1>1, Invariant, PTL

-----------------------------------------------------------------------------
(* A connection belongs to one.                                            *)

\* A connection is in one of its places only once the kernel has answered the
\* client's connect.
Answered ==
  \A c \in Clients : client[c].request \in {"none", "sent"} =>
    /\ ~ Waits(c)
    /\ \A r \in Requests : ~ Given(c, r)
    /\ \A n \in Conns : ~ Announced(c, n)

OnceInv == EstablishedOnce /\ Answered

\* A sequence without repetition keeps so without its first element, and with
\* another that is not in it.
LEMMA NoRepeatTail ==
  ASSUME NEW S, NEW s \in Seq(S), s # <<>>,
         \A i, j \in 1..Len(s) : s[i] = s[j] => i = j
  PROVE  /\ Head(s) \in S /\ \E i \in 1..Len(s) : s[i] = Head(s)
         /\ \A i, j \in 1..Len(Tail(s)) : Tail(s)[i] = Tail(s)[j] => i = j
         /\ \A i \in 1..Len(Tail(s)) :
              Tail(s)[i] # Head(s) /\ \E j \in 1..Len(s) : s[j] = Tail(s)[i]
<1>1. /\ Len(s) \in Nat /\ Len(s) > 0 /\ Head(s) = s[1] /\ Head(s) \in S
      /\ Len(Tail(s)) = Len(s) - 1
      /\ \A i \in 1..(Len(s) - 1) : Tail(s)[i] = s[i + 1]
  OBVIOUS
<1>2. 1 \in 1..Len(s) /\ \A i \in 1..(Len(s) - 1) : i \in Nat /\ i + 1 \in 1..Len(s) /\ i + 1 # 1
  BY <1>1
<1>3. ASSUME NEW i \in 1..(Len(s) - 1), NEW j \in 1..(Len(s) - 1), s[i + 1] = s[j + 1] PROVE i = j
  <2>1. i + 1 = j + 1
    BY <1>2, <1>3
  <2> QED BY <1>2, <2>1
<1> QED BY <1>1, <1>2, <1>3

LEMMA NoRepeatAppend ==
  ASSUME NEW S, NEW s \in Seq(S), NEW e,
         \A i, j \in 1..Len(s) : s[i] = s[j] => i = j,
         \A i \in 1..Len(s) : s[i] # e
  PROVE  /\ \A i, j \in 1..Len(Append(s, e)) : Append(s, e)[i] = Append(s, e)[j] => i = j
         /\ \A i \in 1..Len(Append(s, e)) :
              Append(s, e)[i] = e \/ \E j \in 1..Len(s) : s[j] = Append(s, e)[i]
<1>1. /\ Len(s) \in Nat /\ Len(Append(s, e)) = Len(s) + 1
      /\ Append(s, e)[Len(s) + 1] = e
      /\ \A i \in 1..Len(s) : Append(s, e)[i] = s[i]
  OBVIOUS
<1>2. \A i \in 1..(Len(s) + 1) : i \in 1..Len(s) \/ i = Len(s) + 1
  BY <1>1
<1> QED BY <1>1, <1>2

\* A step that takes connections away from where they are, and no answer back.
LEMMA OnceFewer ==
  ASSUME OnceInv,
         \A i, j \in 1..Len(backlog') : backlog'[i] = backlog'[j] => i = j,
         \A c \in Clients : Waits(c)' => Waits(c),
         \A c \in Clients, r \in Requests : Given(c, r)' => Given(c, r),
         \A c \in Clients, n \in Conns : Announced(c, n)' => Announced(c, n),
         \A c \in Clients : client'[c].request \in {"none", "sent"}
                              => client[c].request \in {"none", "sent"}
  PROVE  OnceInv'
  BY DEF OnceInv, EstablishedOnce, Answered

\* What a pointer that goes leaves of a connection's peer.
LEMMA ReleasedPeer ==
  ASSUME NEW c, NEW holder PROVE Released(c, holder).peer \in {c.peer, None}
  BY DEF Released, Freed, Unborn

LEMMA AnnouncedFewer ==
  ASSUME IInv, NEW n \in Conns,
         ConnClosed(n) \/ ConnEnds(n) \/ CloseConn(n) \/ SetOnClose(n) \/ Forget(n)
  PROVE  \A c \in Clients, m \in Conns : Announced(c, m)' => Announced(c, m)
<1>1. conn \in [Conns -> Connection]
  BY DEF IInv, ConnInv
<1>2. PICK new : conn' = [conn EXCEPT ![n] = new] /\ new.peer \in {conn[n].peer, None}
  <2>1. CASE ConnClosed(n)
    <3>1. [conn[n] EXCEPT !.tcp = "closed"].peer = conn[n].peer
      BY <1>1 DEF Connection
    <3>2. conn' = [conn EXCEPT ![n] = Released([conn[n] EXCEPT !.tcp = "closed"], "self")]
      BY <2>1 DEF ConnClosed
    <3>3. Released([conn[n] EXCEPT !.tcp = "closed"], "self").peer \in {conn[n].peer, None}
      BY <3>1, ReleasedPeer
    <3> QED BY <3>2, <3>3
  <2>2. CASE SetOnClose(n)
    <3>1. [conn[n] EXCEPT !.replaced = TRUE].peer = conn[n].peer
      BY <1>1 DEF Connection
    <3>2. conn' = [conn EXCEPT ![n] = Released([conn[n] EXCEPT !.replaced = TRUE], "self")]
      BY <2>2 DEF SetOnClose
    <3>3. Released([conn[n] EXCEPT !.replaced = TRUE], "self").peer \in {conn[n].peer, None}
      BY <3>1, ReleasedPeer
    <3> QED BY <3>2, <3>3
  <2>3. CASE Forget(n)
    BY <2>3, ReleasedPeer DEF Forget
  <2>4. CASE ConnEnds(n) \/ CloseConn(n)
    <3>1. conn' = [conn EXCEPT ![n] = [conn[n] EXCEPT !.tcp = "closing"]]
      BY <2>4 DEF ConnEnds, CloseConn
    <3>2. [conn[n] EXCEPT !.tcp = "closing"].peer = conn[n].peer
      BY <1>1 DEF Connection
    <3> QED BY <3>1, <3>2
  <2> QED BY <2>1, <2>2, <2>3, <2>4
<1> QED BY <1>1, <1>2, ServerAssumption DEF Announced

\* The connection goes to the end of the backlog ...
LEMMA ConnectOnce ==
  ASSUME IInv, OnceInv, NEW c \in Clients, KernelConnect(c)
  PROVE  OnceInv'
<1>1. /\ UNCHANGED <<accept, conn>> /\ client[c].request = "sent"
      /\ \A d \in Clients : client'[d].request = IF d = c THEN "done" ELSE client[d].request
  <2>1. PICK new : client' = [client EXCEPT ![c] = new] /\ new.request = "done"
    <3>1. /\ [client[c] EXCEPT !.request = "done", !.ok = TRUE].request = "done"
          /\ [client[c] EXCEPT !.request = "done"].request = "done"
      BY DEF IInv, TypeOK
    <3> QED BY <3>1 DEF KernelConnect, Client
  <2> QED BY <2>1 DEF KernelConnect, IInv, TypeOK
<1>2. CASE backlog' = backlog
  BY <1>1, <1>2, OnceFewer DEF OnceInv, EstablishedOnce, Waits, Given, Announced
<1>3. CASE backlog' = Append(backlog, c)
  <2>1. ~ Waits(c) /\ (\A r \in Requests : ~ Given(c, r)) /\ (\A n \in Conns : ~ Announced(c, n))
    BY <1>1 DEF OnceInv, Answered
  <2>2. backlog \in Seq(Clients) /\ \A i, j \in 1..Len(backlog) : backlog[i] = backlog[j] => i = j
    BY DEF IInv, TypeOK, OnceInv, EstablishedOnce
  <2>3. /\ \A i, j \in 1..Len(backlog') : backlog'[i] = backlog'[j] => i = j
        /\ \A d \in Clients : Waits(d)' => Waits(d) \/ d = c
    BY <1>3, <2>1, <2>2, NoRepeatAppend DEF Waits
  <2>4. ASSUME NEW d \in Clients
        PROVE  /\ \A r \in Requests : Given(d, r)' <=> Given(d, r)
               /\ \A n \in Conns : Announced(d, n)' <=> Announced(d, n)
    BY <1>1 DEF Given, Announced
  <2> QED BY <1>1, <2>1, <2>3, <2>4 DEF OnceInv, EstablishedOnce, Answered
<1> QED BY <1>2, <1>3 DEF KernelConnect

\* ... from there to an accept request ...
LEMMA AcceptOnce ==
  ASSUME IInv, OnceInv, NEW r \in Requests, KernelAccept(r)
  PROVE  OnceInv'
<1>1. backlog \in Seq(Clients) /\ backlog # <<>> /\ backlog' = Tail(backlog)
  BY DEF KernelAccept, IInv, TypeOK
<1> DEFINE c == Head(backlog)
<1>2. /\ c \in Clients /\ Waits(c)
      /\ \A i, j \in 1..Len(backlog') : backlog'[i] = backlog'[j] => i = j
      /\ \A d \in Clients : Waits(d)' => Waits(d) /\ d # c
  BY <1>1, NoRepeatTail DEF OnceInv, EstablishedOnce, Waits
<1>3. UNCHANGED <<client, conn>>
  BY DEF KernelAccept
<1>4. accept \in [Requests -> [place: {"idle", "kernel", "done"},
                              socket: {"invalid", "new"} \union Clients]]
  BY DEF IInv, TypeOK
<1>5. CASE accept' = [accept EXCEPT ![r] = [place |-> "done", socket |-> c]]
  <2>1. \A d \in Clients, q \in Requests : Given(d, q)' => Given(d, q) \/ (d = c /\ q = r)
    BY <1>4, <1>5 DEF Given
  <2>2. \A d \in Clients, n \in Conns : Announced(d, n)' <=> Announced(d, n)
    BY <1>3 DEF Announced
  <2>3. (\A q \in Requests : ~ Given(c, q)) /\ (\A n \in Conns : ~ Announced(c, n))
           /\ client[c].request \notin {"none", "sent"}
    BY <1>2 DEF OnceInv, EstablishedOnce, Answered
  <2> HIDE DEF c
  <2> QED BY <1>2, <1>3, <2>1, <2>2, <2>3 DEF OnceInv, EstablishedOnce, Answered
<1>6. CASE accept' = [accept EXCEPT ![r].place = "done"]
  <2>1. \A d \in Clients, q \in Requests : Given(d, q)' => Given(d, q)
    BY <1>4, <1>6 DEF Given
  <2> QED BY <1>2, <1>3, <2>1, OnceFewer DEF Announced
<1> QED BY <1>5, <1>6 DEF KernelAccept

\* ... and from the request to one TcpConnection.
LEMMA AnnounceOnce ==
  ASSUME IInv, OnceInv, NEW r \in Requests, NEW peer \in Clients \union {None},
         NEW to \in {Queued, Refused, Idle}, accept' = [accept EXCEPT ![r] = to],
         peer # None => peer = accept[r].socket, HandleNewConnection(peer),
         UNCHANGED <<backlog, client>>
  PROVE  OnceInv'
<1>0. CASE UNCHANGED conn
  <2>1. \A c \in Clients, q \in Requests : Given(c, q)' => Given(c, q)
    BY ServerAssumption DEF IInv, TypeOK, Given, Queued, Refused, Idle
  <2> QED BY <1>0, <2>1, OnceFewer DEF OnceInv, EstablishedOnce, Waits, Announced
<1> SUFFICES ASSUME ~ UNCHANGED conn PROVE OnceInv'
  BY <1>0
<1>1. PICK n, new : conn' = [conn EXCEPT ![n] = new] /\ new.peer = peer
  <2>1. PICK keepers \in SUBSET {"program"}, tcp \in {"open", "closing"} :
          conn' = [conn EXCEPT ![CHOOSE new \in Conns : conn[new].tcp = "unborn"] =
                     [tcp |-> tcp, peer |-> peer, held |-> keepers \union {"self"},
                      replaced |-> FALSE]]
    BY DEF HandleNewConnection
  <2> DEFINE slot == CHOOSE new \in Conns : conn[new].tcp = "unborn"
             fresh == [tcp |-> tcp, peer |-> peer, held |-> keepers \union {"self"},
                       replaced |-> FALSE]
  <2>2. conn' = [conn EXCEPT ![slot] = fresh] /\ fresh.peer = peer
    BY <2>1
  <2> HIDE DEF slot, fresh
  <2> QED BY <2>2
<1>2. conn \in [Conns -> Connection] /\ accept \in [Requests -> [place: {"idle", "kernel", "done"},
                              socket: {"invalid", "new"} \union Clients]]
  BY DEF IInv, ConnInv, TypeOK
<1>3. \A c \in Clients, m \in Conns : Announced(c, m)' => Announced(c, m) \/ (c = peer /\ m = n)
  BY <1>1, <1>2 DEF Announced
<1>4. \A c \in Clients, q \in Requests : Given(c, q)' => Given(c, q) /\ q # r
  BY <1>2, ServerAssumption DEF Given, Queued, Refused, Idle
<1>5. \A c \in Clients : Waits(c)' <=> Waits(c)
  BY DEF Waits
<1>6. peer \in Clients => Given(peer, r)
  BY ServerAssumption DEF Given
<1>7. CASE peer \in Clients
  <2>1. /\ ~ Waits(peer) /\ (\A m \in Conns : ~ Announced(peer, m))
        /\ client[peer].request \notin {"none", "sent"}
        /\ \A q \in Requests : Given(peer, q) => q = r
    BY <1>6, <1>7 DEF OnceInv, EstablishedOnce, Answered
  <2> QED BY <1>3, <1>4, <1>5, <1>7, <2>1 DEF OnceInv, EstablishedOnce, Answered
<1>8. CASE peer \notin Clients
  BY <1>3, <1>4, <1>5, <1>8, OnceFewer DEF OnceInv, EstablishedOnce
<1> QED BY <1>7, <1>8

LEMMA NextOnce == IInv /\ OnceInv /\ [Next]_vars => OnceInv'
<1> SUFFICES ASSUME IInv, OnceInv, [Next]_vars PROVE OnceInv'
  OBVIOUS
<1>0. /\ accept \in [Requests -> [place: {"idle", "kernel", "done"},
                                  socket: {"invalid", "new"} \union Clients]]
      /\ client \in [Clients -> [request: {"none", "sent", "done", "told"},
                                 ok: BOOLEAN, life: {"open", "closing", "closed"}]]
  BY DEF IInv, TypeOK
<1>1. ASSUME backlog' = backlog \/ backlog' = <<>>,
             \A c \in Clients, r \in Requests : Given(c, r)' => Given(c, r),
             \A c \in Clients, n \in Conns : Announced(c, n)' => Announced(c, n),
             \A c \in Clients : client'[c].request \in {"none", "sent"}
                                  => client[c].request \in {"none", "sent"}
      PROVE  OnceInv'
  <2>1. /\ \A i, j \in 1..Len(backlog') : backlog'[i] = backlog'[j] => i = j
        /\ \A c \in Clients : Waits(c)' => Waits(c)
    BY <1>1 DEF OnceInv, EstablishedOnce, Waits
  <2> QED BY <1>1, <2>1, OnceFewer
<1>2. ASSUME NEW r \in Requests, NEW to \in {Queued, Refused, Idle}, accept' = [accept EXCEPT ![r] = to]
      PROVE  \A c \in Clients, q \in Requests : Given(c, q)' => Given(c, q)
  BY <1>0, <1>2, ServerAssumption DEF Given, Queued, Refused, Idle
<1>3. ASSUME NEW r \in Requests, ProcessConnection(r) \/ ProcessBroken(r) \/ ProcessRefused(r)
      PROVE  OnceInv'
  <2>1. PICK to \in {Queued, Refused, Idle} : accept' = [accept EXCEPT ![r] = to]
    BY <1>3 DEF ProcessConnection, ProcessBroken, ProcessRefused, QueueAccept
  <2>2. UNCHANGED <<backlog, client>>
    BY <1>3 DEF ProcessConnection, ProcessBroken, ProcessRefused
  <2>3. CASE conn' = conn
    BY <1>1, <1>2, <2>1, <2>2, <2>3 DEF Announced
  <2>4. CASE HandleNewConnection(None)
    BY <2>1, <2>2, <2>4, AnnounceOnce
  <2>5. CASE ProcessConnection(r) /\ HandleNewConnection(accept[r].socket)
    <3>1. accept[r].socket \in Clients
      BY <2>5 DEF ProcessConnection, Accepted
    <3> QED BY <2>1, <2>2, <2>5, <3>1, AnnounceOnce
  <2> QED BY <1>3, <2>3, <2>4, <2>5 DEF ProcessConnection, ProcessBroken, ProcessRefused
<1>4. ASSUME NEW n \in Conns,
             ConnClosed(n) \/ ConnEnds(n) \/ CloseConn(n) \/ SetOnClose(n) \/ Forget(n)
      PROVE  OnceInv'
  <2>1. OnlyConn
    BY <1>4 DEF ConnClosed, ConnEnds, CloseConn, SetOnClose, Forget
  <2> QED BY <1>1, <1>4, <2>1, AnnouncedFewer DEF OnlyConn, Given
<1>5. ASSUME NEW c \in Clients, Connect(c) \/ ProcessConnect(c) \/ CloseClient(c) \/ ClientClosed(c)
      PROVE  OnceInv'
  <2>1. OnlyClient
    BY <1>5 DEF Connect, ProcessConnect, CloseClient, ClientClosed
  <2>2. \A d \in Clients : client'[d].request \in {"none", "sent"}
                             => client[d].request \in {"none", "sent"}
    <3>1. PICK new : /\ client' = [client EXCEPT ![c] = new]
                     /\ new.request \in {"none", "sent"} => client[c].request \in {"none", "sent"}
      <4>1. CASE Connect(c)
        BY <4>1 DEF Connect, Client
      <4>2. CASE ProcessConnect(c)
        <5>1. [client[c] EXCEPT !.request = "told", !.ok = ConnectStatus(c)].request = "told"
          BY <1>0
        <5> QED BY <4>2, <5>1 DEF ProcessConnect, Client
      <4>3. CASE CloseClient(c) \/ ClientClosed(c)
        <5>1. PICK life : client' = [client EXCEPT ![c] = [client[c] EXCEPT !.life = life]]
          BY <4>3 DEF CloseClient, ClientClosed, Client
        <5>2. [client[c] EXCEPT !.life = life].request = client[c].request
          BY <1>0
        <5> QED BY <5>1, <5>2
      <4> QED BY <1>5, <4>1, <4>2, <4>3
    <3>2. ASSUME NEW d \in Clients, client'[d].request \in {"none", "sent"}
          PROVE  client[d].request \in {"none", "sent"}
      <4>1. CASE d = c
        <5>1. client'[d] = new
          BY <1>0, <3>1, <4>1
        <5> QED BY <3>1, <3>2, <4>1, <5>1
      <4>2. CASE d # c
        <5>1. client'[d] = client[d]
          BY <1>0, <3>1, <4>2
        <5> QED BY <3>2, <5>1
      <4> QED BY <4>1, <4>2
    <3> QED BY <3>2
  <2> QED BY <1>1, <2>1, <2>2 DEF OnlyClient, Given, Announced
<1>6. ASSUME NEW r \in Requests, KernelAbort(r) PROVE OnceInv'
  <2>1. \A c \in Clients, q \in Requests : Given(c, q)' => Given(c, q)
    BY <1>0, <1>6 DEF KernelAbort, Given
  <2> QED BY <1>1, <1>6, <2>1 DEF KernelAbort, Announced
<1>7. CASE Listen
  <2>1. \A c \in Clients, q \in Requests : ~ Given(c, q)'
    BY <1>7, ServerAssumption DEF Listen, Given, Refused, Queued
  <2> QED BY <1>1, <1>7, <2>1 DEF Listen, Announced
<1>8. CASE Destroy \/ Endgame \/ UNCHANGED vars
  BY <1>1, <1>8 DEF Destroy, Endgame, vars, Given, Announced
<1> QED
  BY <1>3, <1>4, <1>5, <1>6, <1>7, <1>8, ConnectOnce, AcceptOnce
     DEF Next, Process, Kernel, Program, Finished

\* No connection is announced twice, or given to two TcpConnection objects,
\* through the requests that are queued again and again.
THEOREM AnnouncedOnce == Spec => []EstablishedOnce
<1>1. Init => OnceInv
  BY ServerAssumption DEF Init, OnceInv, EstablishedOnce, Answered, Waits, Given, Announced, Idle, Unborn
<1>2. OnceInv => EstablishedOnce
  BY DEF OnceInv
<1> QED BY <1>1, <1>2, NextOnce, Invariant, PTL DEF Spec
=============================================================================
