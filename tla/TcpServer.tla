------------------------------- MODULE TcpServer -------------------------------
(***************************************************************************)
(* How connections begin, and who owns them: uv::TcpServer                 *)
(* (uvpp/net/tcpserver.h) with the accept requests of its listening socket *)
(* (win/tcp.c), and uv::Tcp::connect (uvpp/uvpp_tcp.h) at the other end,   *)
(* on one loop.                                                            *)
(*                                                                         *)
(* A TcpConnection that the server makes is held by the close callback of  *)
(* its own Tcp, and by the program if it keeps the pointer.  What happens  *)
(* on an established connection is Stream's; here it ends and is closed.   *)
(*                                                                         *)
(* A handler of the loop is one step, with what the program's callback     *)
(* does to the connection it is about; the program does everything else in *)
(* steps of its own.  The requests are processed in any order.  The server *)
(* listens once and is not destroyed by its own onConnection.              *)
(***************************************************************************)
EXTENDS Naturals, Sequences, FiniteSets

CONSTANTS
  Clients,    \* uv::Tcp objects that connect to the server
  Requests,   \* the accept requests, uv_simultaneous_server_accepts of them
  Conns,      \* the TcpConnection objects the server may allocate
  MaxFaults,  \* bound: the failures of uv_tcp_queue_accept, of uv_tcp_set_socket
              \* and of accepted sockets
  None

ASSUME ServerAssumption ==
  /\ IsFiniteSet(Clients) /\ IsFiniteSet(Requests) /\ IsFiniteSet(Conns)
  /\ MaxFaults \in Nat
  /\ Cardinality(Conns) >= Cardinality(Clients) + MaxFaults
  /\ {None, "invalid", "new"} \cap Clients = {}

VARIABLES
  server,   \* m_server: its state, LISTENING, reqs_pending, ENDGAME_QUEUED
  accept,   \* the uv_tcp_accept_t
  backlog,  \* connections the kernel has established and not given to a request
  client,   \* the uv::Tcp of each client and its connect request
  conn,     \* the TcpConnection objects
  faults    \* failures so far

vars == <<server, accept, backlog, client, conn, faults>>

\* An accept request is "idle", in the "kernel", or "done": in the completion
\* port or linked pending.  socket is INVALID_SOCKET, a "new" one, or that of
\* an established connection.
Idle == [place |-> "idle", socket |-> "invalid"]
Queued == [place |-> "kernel", socket |-> "new"]
Refused == [place |-> "done", socket |-> "invalid"]

\* A TcpConnection: its uv_tcp_t, the client it is connected to, the shared_ptrs
\* to it (m_closeCallback's and the program's), and whether m_closeCallback is
\* the program's.
Unborn == [tcp |-> "unborn", peer |-> None, held |-> {}, replaced |-> FALSE]
Freed == [Unborn EXCEPT !.tcp = "freed"]

Init ==
  /\ server = [life |-> "fresh", listening |-> FALSE, reqs |-> 0, endgame |-> FALSE]
  /\ accept = [r \in Requests |-> Idle]
  /\ backlog = <<>>
  /\ client = [c \in Clients |-> [request |-> "none", ok |-> FALSE, life |-> "open"]]
  /\ conn = [n \in Conns |-> Unborn]
  /\ faults = 0

-----------------------------------------------------------------------------
(* The accept requests.                                                    *)

\* uv_tcp_queue_accept: AcceptEx takes the request with a new socket, or it is
\* linked pending with its error.  Either way it counts in reqs_pending.
QueueAccept(r) ==
  \/ accept' = [accept EXCEPT ![r] = Queued] /\ UNCHANGED faults
  \/ /\ faults < MaxFaults /\ faults' = faults + 1
     /\ accept' = [accept EXCEPT ![r] = Refused]

\* uv_tcp_listen, which queues all the requests.
Listen ==
  /\ server.life = "fresh"
  /\ \E failing \in {R \in SUBSET Requests : Cardinality(R) <= MaxFaults - faults} :
       /\ accept' = [r \in Requests |-> IF r \in failing THEN Refused ELSE Queued]
       /\ faults' = faults + Cardinality(failing)
  /\ server' = [server EXCEPT !.life = "open", !.listening = TRUE,
                              !.reqs = Cardinality(Requests)]
  /\ UNCHANGED <<backlog, client, conn>>

\* The kernel gives a request the first connection of the backlog, or one that
\* has broken; a closed listening socket completes what it holds.
KernelAccept(r) ==
  /\ accept[r].place = "kernel" /\ server.life = "open" /\ backlog # <<>>
  /\ \/ /\ accept' = [accept EXCEPT ![r] = [place |-> "done", socket |-> Head(backlog)]]
        /\ UNCHANGED faults
     \/ /\ faults < MaxFaults /\ faults' = faults + 1
        /\ accept' = [accept EXCEPT ![r].place = "done"]
  /\ backlog' = Tail(backlog)
  /\ UNCHANGED <<server, client, conn>>

KernelAbort(r) ==
  /\ accept[r].place = "kernel" /\ server.life = "closing"
  /\ accept' = [accept EXCEPT ![r].place = "done"]
  /\ UNCHANGED <<server, backlog, client, conn, faults>>

ForgetEndgame == server' = [server EXCEPT !.reqs = @ - 1] \* mutant of DecreaseReqs

\* DECREASE_PENDING_REQ_COUNT: the last request of a closing handle queues its
\* endgame.
DecreaseReqs ==
  server' = [server EXCEPT
    !.reqs = @ - 1,
    !.endgame = @ \/ (server.life = "closing" /\ server.reqs = 1)]

-----------------------------------------------------------------------------
(* TcpServer::handleNewConnection, called by stream_connection_cb, which   *)
(* does nothing for a server that has gone.                                *)

\* A new TcpConnection goes to onConnection, which may keep the pointer and may
\* close the connection; then conn->tcp()->onClose([conn]...) replaces whatever
\* close callback it has set.  peer is None when accept and read_start have
\* failed, which handleNewConnection does not see.
HandleNewConnection(peer) ==
  LET n == CHOOSE new \in Conns : conn[new].tcp = "unborn" IN
  \/ /\ server.life = "open"
     /\ \E keepers \in SUBSET {"program"}, tcp \in {"open", "closing"} :
          conn' = [conn EXCEPT ![n] = [tcp |-> tcp, peer |-> peer, replaced |-> FALSE,
                                       held |-> keepers \union {"self"}]]
  \/ server.life # "open" /\ UNCHANGED conn

\* uv_process_tcp_accept_req calls the connection callback for a request whose
\* AcceptEx has succeeded, if setsockopt does: not when the listening socket
\* has been closed meanwhile.
Accepted(r) == accept[r].socket \in Clients /\ server.life = "open"

KeepSocket(r) ==                                 \* mutant of ProcessConnection
  /\ accept[r].place = "done" /\ Accepted(r)
  /\ \/ accept' = [accept EXCEPT ![r] = Queued] /\ UNCHANGED faults
     \/ faults < MaxFaults /\ faults' = faults + 1 /\ UNCHANGED accept
  /\ HandleNewConnection(accept[r].socket)
  /\ UNCHANGED <<server, backlog, client>>

\* The callback's uv_tcp_accept takes the socket and queues the request again;
\* reqs_pending goes up and then down.  If uv_tcp_set_socket fails, the
\* accepted socket is closed; one failure a step is enough.
ProcessConnection(r) ==
  /\ accept[r].place = "done" /\ Accepted(r)
  /\ \/ QueueAccept(r) /\ HandleNewConnection(accept[r].socket)
     \/ /\ faults < MaxFaults /\ faults' = faults + 1
        /\ accept' = [accept EXCEPT ![r] = Queued]
        /\ HandleNewConnection(None)
  /\ UNCHANGED <<server, backlog, client>>

GiveUpBroken(r) ==                                      \* mutant of ProcessBroken
  /\ accept[r].place = "done" /\ accept[r].socket # "invalid" /\ ~ Accepted(r)
  /\ DecreaseReqs /\ accept' = [accept EXCEPT ![r] = Idle]
  /\ UNCHANGED <<backlog, client, conn, faults>>

DecreaseAlways(r) ==                                    \* mutant of ProcessBroken
  /\ accept[r].place = "done" /\ accept[r].socket # "invalid" /\ ~ Accepted(r)
  /\ \/ server.listening /\ QueueAccept(r)
     \/ /\ ~ server.listening /\ UNCHANGED faults
        /\ accept' = [accept EXCEPT ![r] = Idle]
  /\ DecreaseReqs
  /\ UNCHANGED <<backlog, client, conn>>

\* The accepted connection is no good: its socket is closed, and the request
\* queued again unless the server no longer listens.
ProcessBroken(r) ==
  /\ accept[r].place = "done" /\ accept[r].socket # "invalid" /\ ~ Accepted(r)
  /\ \/ server.listening /\ QueueAccept(r) /\ UNCHANGED server
     \/ /\ ~ server.listening /\ DecreaseReqs /\ UNCHANGED faults
        /\ accept' = [accept EXCEPT ![r] = Idle]
  /\ UNCHANGED <<backlog, client, conn>>

\* The request could not be queued: the server stops listening and tells its
\* connection callback, which takes no notice of the status.
ProcessRefused(r) ==
  /\ accept[r].place = "done" /\ accept[r].socket = "invalid"
  /\ accept' = [accept EXCEPT ![r] = Idle]
  /\ \/ /\ server.listening /\ HandleNewConnection(None)
        /\ server' = [server EXCEPT !.listening = FALSE, !.reqs = @ - 1]
     \/ ~ server.listening /\ DecreaseReqs /\ UNCHANGED conn
  /\ UNCHANGED <<backlog, client, faults>>

\* ~TcpServer, with ~Handle and uv_tcp_close: the kernel resets the backlog.
Destroy ==
  /\ server.life \in {"fresh", "open"}
  /\ server' = [server EXCEPT !.life = "closing", !.listening = FALSE,
                              !.endgame = (server.reqs = 0)]
  /\ backlog' = <<>>
  /\ UNCHANGED <<accept, client, conn, faults>>

\* uv_tcp_endgame frees the accept requests, and handle_close_cb the handle.
Endgame ==
  /\ server.endgame
  /\ server' = [server EXCEPT !.endgame = FALSE,
                              !.life = IF server.reqs = 0 THEN "freed" ELSE @]
  /\ UNCHANGED <<accept, backlog, client, conn, faults>>

-----------------------------------------------------------------------------
(* The life of a TcpConnection.                                            *)

\* A shared_ptr goes, the program's or the close callback's.  With the last one
\* ~TcpConnection, with ~Handle, closes the handle, or deletes it if it is closed.
Released(c, holder) ==
  LET left == c.held \ {holder} IN
  IF left # {} THEN [c EXCEPT !.held = left]
  ELSE IF c.tcp = "closed" THEN Freed
  ELSE [c EXCEPT !.held = {}, !.tcp = "closing"]

OnlyConn == UNCHANGED <<server, accept, backlog, client, faults>>

KeepCallback(n) ==                                      \* mutant of ConnClosed
  /\ conn[n].tcp = "closing"
  /\ conn' = [conn EXCEPT ![n] = Released([conn[n] EXCEPT !.tcp = "closed"], "nobody")]
  /\ OnlyConn

\* uv_tcp_endgame and handle_close_cb, which takes the close callback out of
\* the wrapper and calls it; or deletes the handle if the wrapper has gone.
ConnClosed(n) ==
  /\ conn[n].tcp = "closing"
  /\ conn' = [conn EXCEPT ![n] = Released([conn[n] EXCEPT !.tcp = "closed"], "self")]
  /\ OnlyConn

\* The end of the connection: stream_read_cb closes it.
ConnEnds(n) ==
  /\ conn[n].tcp = "open" /\ conn[n].peer # None
  /\ client[conn[n].peer].life # "open"
  /\ conn' = [conn EXCEPT ![n].tcp = "closing"]
  /\ OnlyConn

\* The program, with a pointer to the connection or in one of its callbacks:
\* conn->tcp()->close(), conn->tcp()->onClose(...); and lets its pointer go.
CloseConn(n) ==
  /\ conn[n].tcp = "open"
  /\ conn' = [conn EXCEPT ![n].tcp = "closing"]
  /\ OnlyConn

SetOnClose(n) ==
  /\ "self" \in conn[n].held
  /\ conn' = [conn EXCEPT ![n] = Released([conn[n] EXCEPT !.replaced = TRUE], "self")]
  /\ OnlyConn

Forget(n) ==
  /\ "program" \in conn[n].held
  /\ conn' = [conn EXCEPT ![n] = Released(conn[n], "program")]
  /\ OnlyConn

-----------------------------------------------------------------------------
(* Tcp::connect: its request is "sent", "done" when the kernel has answered *)
(* and "told" from its callback on, which deletes the context.              *)

Client(c, fields) == client' = [client EXCEPT ![c] = fields]
OnlyClient == UNCHANGED <<server, accept, backlog, conn, faults>>

Connect(c) ==
  /\ client[c].life = "open" /\ client[c].request = "none"
  /\ Client(c, [client[c] EXCEPT !.request = "sent"])
  /\ OnlyClient

\* The kernel answers for the listening socket, even one whose server has
\* stopped listening after a failure; the backlog is long enough.
KernelConnect(c) ==
  /\ client[c].request = "sent"
  /\ \/ /\ client[c].life = "open" /\ server.life = "open"
        /\ Client(c, [client[c] EXCEPT !.request = "done", !.ok = TRUE])
        /\ backlog' = Append(backlog, c)
     \/ /\ ~ (client[c].life = "open" /\ server.life = "open")
        /\ Client(c, [client[c] EXCEPT !.request = "done"])
        /\ UNCHANGED backlog
  /\ UNCHANGED <<server, accept, conn, faults>>

\* uv_process_tcp_connect_req: setsockopt fails on a socket that has been
\* closed meanwhile.  The callback does not need the wrapper.
ConnectStatus(c) == client[c].ok /\ client[c].life = "open"

ProcessConnect(c) ==
  /\ client[c].request = "done"
  /\ Client(c, [client[c] EXCEPT !.request = "told", !.ok = ConnectStatus(c)])
  /\ OnlyClient

\* Handle::close or ~Handle of the client, and uv_tcp_endgame once its request
\* is over.
CloseClient(c) ==
  /\ client[c].life = "open"
  /\ Client(c, [client[c] EXCEPT !.life = "closing"])
  /\ OnlyClient

ClosedAtOnce(c) ==                                      \* mutant of ClientClosed
  /\ client[c].life = "closing"
  /\ Client(c, [client[c] EXCEPT !.life = "closed", !.request = "none"])
  /\ OnlyClient

ClientClosed(c) ==
  /\ client[c].life = "closing" /\ client[c].request \in {"none", "told"}
  /\ Client(c, [client[c] EXCEPT !.life = "closed"])
  /\ OnlyClient

-----------------------------------------------------------------------------
Process ==
  \/ \E r \in Requests : ProcessConnection(r) \/ ProcessBroken(r) \/ ProcessRefused(r)
  \/ \E n \in Conns : ConnClosed(n) \/ ConnEnds(n)
  \/ \E c \in Clients : ProcessConnect(c) \/ ClientClosed(c)
  \/ Endgame

Kernel ==
  \/ \E r \in Requests : KernelAccept(r) \/ KernelAbort(r)
  \/ \E c \in Clients : KernelConnect(c)

Program ==
  \/ \E n \in Conns : CloseConn(n) \/ SetOnClose(n) \/ Forget(n)
  \/ \E c \in Clients : Connect(c) \/ CloseClient(c)
  \/ Listen \/ Destroy

\* The program has closed the server and its clients.
Finished ==
  /\ server.life = "freed"
  /\ \A c \in Clients : client[c].life = "closed"
  /\ UNCHANGED vars

Next == Process \/ Kernel \/ Program \/ Finished

Spec == Init /\ [][Next]_vars

\* The program keeps the loop running, which takes what there is to process,
\* and the kernel answers.
FairSpec == Spec /\ WF_vars(Kernel) /\ WF_vars(Process)

-----------------------------------------------------------------------------
(* Properties.                                                             *)

TypeOK ==
  /\ server \in [life: {"fresh", "open", "closing", "freed"},
                 listening: BOOLEAN, reqs: Nat, endgame: BOOLEAN]
  /\ accept \in [Requests -> [place: {"idle", "kernel", "done"},
                              socket: {"invalid", "new"} \union Clients]]
  /\ backlog \in Seq(Clients)
  /\ client \in [Clients -> [request: {"none", "sent", "done", "told"},
                             ok: BOOLEAN, life: {"open", "closing", "closed"}]]
  /\ conn \in [Conns -> [tcp: {"unborn", "open", "closing", "closed", "freed"},
                         peer: Clients \union {None},
                         held: SUBSET {"self", "program"}, replaced: BOOLEAN]]
  /\ faults \in 0..MaxFaults

\* The accept requests are freed when the count of pending ones, which a failed
\* and a repeated queueing and two kinds of completion change, comes to zero;
\* then neither the kernel nor the loop has one of them.
AcceptReqsSafe ==
  server.life = "freed" => \A r \in Requests : accept[r].place = "idle"

\* While it listens, no accept request is lost: every one is with the kernel or
\* on its way to be processed, or the server would in time go deaf.
NoRequestLost ==
  server.listening => \A r \in Requests : accept[r].place # "idle"

\* A connection that the kernel has established is in one place: once in the
\* backlog, or in one accept request, or with one TcpConnection, although the
\* request that gives it to handleNewConnection is queued again, or fails to be,
\* before the callback returns.  So none is announced twice, or closed with the
\* request after a TcpConnection has it.
Waits(c) == \E i \in 1..Len(backlog) : backlog[i] = c
Given(c, r) == accept[r].socket = c
Announced(c, n) == conn[n].peer = c

EstablishedOnce ==
  /\ \A i, j \in 1..Len(backlog) : backlog[i] = backlog[j] => i = j
  /\ \A c \in Clients :
       /\ Waits(c) => (\A r \in Requests : ~ Given(c, r)) /\ (\A n \in Conns : ~ Announced(c, n))
       /\ \A r \in Requests, n \in Conns : ~ (Given(c, r) /\ Announced(c, n))
       /\ \A r, q \in Requests : Given(c, r) /\ Given(c, q) => r = q
       /\ \A n, m \in Conns : Announced(c, n) /\ Announced(c, m) => n = m

\* A connection lives until it is closed, though nobody but its own close
\* callback need hold it, unless the program replaces that callback; and when
\* it is closed only the program holds it, or it is freed: the circle is broken.
OwnedUntilClosed ==
  \A n \in Conns :
    /\ conn[n].tcp \in {"open", "closing"} => conn[n].held # {} \/ conn[n].replaced
    /\ conn[n].tcp = "closed" => conn[n].held = {"program"}

\* A destroyed server is freed, whatever its requests are doing.
ServerFreed == server.life = "closing" ~> server.life = "freed"

\* Every connect that uv_tcp_connect has taken is called back, whatever is
\* closed or destroyed meanwhile.  One that fails at once returns false from
\* Tcp::connect and is never called back (uvpp_tcp.h:74); nothing here changes
\* with it.
ConnectAnswered ==
  \A c \in Clients : client[c].request = "sent" ~> client[c].request = "told"
=============================================================================
