---------------------------- MODULE Stream_proofs ----------------------------
(***************************************************************************)
(* uv::Stream over any finite set of connections: the counts that          *)
(* uv_tcp_close and the endgame rely on are exact, the read request is in  *)
(* one place, the end callback tells of the peer, and every connection     *)
(* lives as StreamContract has it.                                         *)
(*                                                                         *)
(* Streams meet only in the slab and in the loop thread, so the invariant  *)
(* has a part for each stream, about its record of handle and where the    *)
(* thread is as far as that stream is concerned, and one for the slab.     *)
(***************************************************************************)
EXTENDS Stream, TLAPS

HandleType ==
  [flags: SUBSET Flag, alive: BOOLEAN, reqs: Nat, active: Nat, reads: Nat,
   readReady: Nat, failed: BOOLEAN, writes: Nat, sending: Nat, sent: Nat,
   shutdown: {"none", "owed", "done"}]
SocketType == [peer: {"open", "eof", "reset"}, inbox: Nat, coming: Nat]

\* Where the loop thread is, as far as s is concerned.
PlaceOf(s) == IF at.stream = s THEN at.place ELSE "loop"

Bit(test) == IF test THEN 1 ELSE 0

\* CountsExact, of one stream.
Counts(h, p) ==
  /\ h.writes = h.sending + h.sent + Bit(p = "write")
  /\ h.reqs = h.reads + h.readReady + h.writes + Bit(h.shutdown = "owed")
                + Bit(p \in {"recv", "done", "data", "full", "end"})
  /\ h.active = Bit("READING" \in h.flags) + h.sending + h.sent
                  + Bit(h.shutdown = "owed" /\ p # "shutdown")

\* A closing stream neither reads nor writes; a shutdown is begun once, and
\* answered when the writes are over.
Shape(h, p) ==
  /\ "CLOSING" \in h.flags => {"READING", "READABLE", "WRITABLE"} \cap h.flags = {}
  /\ ~ h.alive \/ "CLOSED" \in h.flags => "CLOSING" \in h.flags
  /\ "WRITABLE" \in h.flags => h.shutdown = "none"
  /\ p = "shutdown" => h.shutdown = "owed" /\ h.writes = 0

\* The read request is out once, and when it is out without READ_PENDING,
\* nothing that would queue it again can come before it is processed: the
\* stream reads, and goes on reading until it closes.
ReadInv(s, h, p) ==
  s \notin Stops \cap Refused =>
    /\ h.reads + h.readReady <= 1
    /\ h.reads + h.readReady = 1 /\ "READ_PENDING" \notin h.flags =>
         \/ "READING" \in h.flags /\ s \in Refused
         \/ "READABLE" \notin h.flags
    /\ p \in {"recv", "done", "data", "full"} /\ "READING" \in h.flags
         /\ "READ_PENDING" \notin h.flags => h.reads + h.readReady = 0
    /\ p \in {"data", "full"} /\ s \notin Stops /\ "CLOSING" \notin h.flags =>
         "READING" \in h.flags

Good(s, h, p) == h \in HandleType /\ Counts(h, p) /\ Shape(h, p) /\ ReadInv(s, h, p)

\* The slab is out only in a callback that reads from it.
SlabInv ==
  /\ at = Loop \/ (at.place # "loop" /\ at.stream \in Streams)
  /\ inUse => at.place \in {"data", "full", "end"}

\* A read request fails on a connection that is broken or closed here.
FailInv ==
  \A s \in Streams :
    handle[s].readReady > 0 /\ handle[s].failed /\ "CLOSING" \notin handle[s].flags =>
      socket[s].peer = "reset"

IInv ==
  /\ TypeOK /\ SlabInv /\ FailInv
  /\ \A s \in Streams : Good(s, handle[s], PlaceOf(s))

LEMMA InitIInv == Init => IInv
<1> SUFFICES ASSUME Init PROVE IInv
  OBVIOUS
<1>1. TypeOK
  BY StreamsAssumption, BoundsAssumption DEF Init, Loop, TypeOK, Flag, Place, Callback
<1>2. SlabInv /\ FailInv
  BY DEF Init, Loop, SlabInv, FailInv
<1>3. ASSUME NEW s \in Streams PROVE Good(s, handle[s], PlaceOf(s))
  <2>1. handle[s] \in HandleType
    BY <1>1 DEF TypeOK, HandleType
  <2>2. PlaceOf(s) = "loop"
    BY DEF Init, Loop, PlaceOf
  <2>3. /\ handle[s].flags = {"READABLE", "WRITABLE"} /\ handle[s].alive
        /\ handle[s].reads = 0 /\ handle[s].readReady = 0 /\ handle[s].shutdown = "none"
    BY DEF Init
  <2>4. Counts(handle[s], "loop")
    BY DEF Init, Counts, Bit
  <2>5. Shape(handle[s], "loop")
    BY <2>3 DEF Shape
  <2>6. ReadInv(s, handle[s], "loop")
    BY <2>3 DEF ReadInv
  <2> QED BY <2>1, <2>2, <2>4, <2>5, <2>6 DEF Good
<1> QED BY <1>1, <1>2, <1>3 DEF IInv

-----------------------------------------------------------------------------
(* What the operators on one handle do, field by field.                    *)

SameReads(g, h) == g.reads = h.reads /\ g.readReady = h.readReady /\ g.failed = h.failed
SameWrites(g, h) ==
  g.writes = h.writes /\ g.sending = h.sending /\ g.sent = h.sent /\ g.shutdown = h.shutdown

\* Updates of several fields at once keep the type.
LEMMA Retyped ==
  ASSUME NEW h \in HandleType
  PROVE  /\ \A f \in SUBSET Flag, i \in Nat :
              [h EXCEPT !.flags = f, !.active = i] \in HandleType
         /\ \A f \in SUBSET Flag, i \in Nat :
              [h EXCEPT !.flags = f, !.reqs = i] \in HandleType
         /\ \A f \in SUBSET Flag, i \in Nat :
              [h EXCEPT !.flags = f, !.readReady = i] \in HandleType
         /\ \A f \in SUBSET Flag, d \in {"none", "owed", "done"}, i, j \in Nat :
              [h EXCEPT !.flags = f, !.shutdown = d, !.reqs = i, !.active = j] \in HandleType
         /\ \A b \in BOOLEAN, i \in Nat :
              [h EXCEPT !.readReady = i, !.failed = b] \in HandleType
         /\ \A b \in BOOLEAN, i, j \in Nat :
              [h EXCEPT !.reqs = i, !.readReady = j, !.failed = b] \in HandleType
         /\ \A b \in BOOLEAN, i, j \in Nat :
              [h EXCEPT !.reads = i, !.readReady = j, !.failed = b] \in HandleType
         /\ \A i, j, k \in Nat :
              [h EXCEPT !.reqs = i, !.writes = j, !.active = k] \in HandleType
         /\ \A i, j \in Nat :
              [h EXCEPT !.sending = i, !.sent = j] \in HandleType
         /\ \A i, j \in Nat :
              [h EXCEPT !.sent = i, !.active = j] \in HandleType
  BY DEF HandleType

LEMMA ReadStopIs ==
  ASSUME NEW h \in HandleType, "READING" \in h.flags => h.active > 0
  PROVE  LET g == ReadStop(h) IN
         /\ g \in HandleType /\ g.flags = h.flags \ {"READING"}
         /\ g.active = h.active - Bit("READING" \in h.flags)
         /\ g.alive = h.alive /\ g.reqs = h.reqs /\ SameReads(g, h) /\ SameWrites(g, h)
<1>1. CASE "READING" \in h.flags
  <2>1. ReadStop(h) = [h EXCEPT !.flags = h.flags \ {"READING"}, !.active = h.active - 1]
    BY <1>1 DEF ReadStop, Has
  <2>2. h.flags \ {"READING"} \in SUBSET Flag /\ h.active - 1 \in Nat
    BY <1>1 DEF HandleType
  <2>3. \A f \in SUBSET Flag, i \in Nat : [h EXCEPT !.flags = f, !.active = i] \in HandleType
    BY Retyped
  <2>4. ReadStop(h) \in HandleType
    BY <2>1, <2>2, <2>3
  <2> QED BY <1>1, <2>1, <2>4 DEF HandleType, Bit, SameReads, SameWrites
<1>2. CASE "READING" \notin h.flags
  <2>1. h.flags \ {"READING"} = h.flags
    BY <1>2
  <2> QED BY <1>2, <2>1 DEF ReadStop, Has, HandleType, Bit, SameReads, SameWrites
<1> QED BY <1>1, <1>2

LEMMA UvCloseIs ==
  ASSUME NEW h \in HandleType, "READING" \in h.flags => h.active > 0,
         "CLOSING" \in h.flags => {"READING", "READABLE", "WRITABLE"} \cap h.flags = {}
  PROVE  LET g == UvClose(h) IN
         /\ g \in HandleType /\ "CLOSING" \in g.flags
         /\ {"READING", "READABLE", "WRITABLE"} \cap g.flags = {}
         /\ \A f \in {"CLOSED", "READ_PENDING"} : f \in g.flags <=> f \in h.flags
         /\ g.active = h.active - Bit("READING" \in h.flags)
         /\ g.alive = h.alive /\ g.reqs = h.reqs /\ SameReads(g, h) /\ SameWrites(g, h)
<1>1. CASE "CLOSING" \in h.flags
  BY <1>1 DEF UvClose, Has, HandleType, Bit, SameReads, SameWrites
<1>2. CASE "CLOSING" \notin h.flags
  <2>1. PICK r \in HandleType :
          /\ r = ReadStop(h) /\ r.flags = h.flags \ {"READING"}
          /\ r.active = h.active - Bit("READING" \in h.flags)
          /\ r.alive = h.alive /\ r.reqs = h.reqs /\ SameReads(r, h) /\ SameWrites(r, h)
    BY ReadStopIs
  <2>2. UvClose(h) = Closing(r)
    BY <1>2, <2>1 DEF UvClose, Has
  <2>3. /\ Closing(r) \in HandleType
        /\ \/ Closing(r).flags = (r.flags \ {"READABLE", "WRITABLE"}) \union {"CLOSING"}
           \/ Closing(r).flags = (r.flags \ {"READABLE", "WRITABLE"})
                                   \union {"CLOSING", "ENDGAME_QUEUED"}
        /\ Closing(r).active = r.active /\ Closing(r).alive = r.alive
        /\ Closing(r).reqs = r.reqs /\ SameReads(Closing(r), r) /\ SameWrites(Closing(r), r)
    <3>1. CASE r.reqs = 0
      BY <3>1 DEF Closing, WantEndgame, HandleType, Flag, SameReads, SameWrites
    <3>2. CASE r.reqs # 0
      BY <3>2 DEF Closing, HandleType, Flag, SameReads, SameWrites
    <3> QED BY <3>1, <3>2
  <2> QED BY <2>1, <2>2, <2>3 DEF SameReads, SameWrites
<1> QED BY <1>1, <1>2

LEMMA DecreaseReqsIs ==
  ASSUME NEW h \in HandleType, h.reqs > 0
  PROVE  LET g == DecreaseReqs(h) IN
         /\ g \in HandleType /\ g.reqs = h.reqs - 1
         /\ g.flags = h.flags \/ g.flags = h.flags \union {"ENDGAME_QUEUED"}
         /\ g.active = h.active /\ g.alive = h.alive /\ SameReads(g, h) /\ SameWrites(g, h)
<1> DEFINE less == [h EXCEPT !.reqs = @ - 1]
<1>1. /\ less \in HandleType /\ less.reqs = h.reqs - 1 /\ less.flags = h.flags
      /\ less.active = h.active /\ less.alive = h.alive
      /\ SameReads(less, h) /\ SameWrites(less, h)
  BY DEF HandleType, SameReads, SameWrites
<1>2. DecreaseReqs(h) = IF Has(h, "CLOSING") /\ less.reqs = 0 THEN WantEndgame(less) ELSE less
  BY DEF DecreaseReqs
<1> HIDE DEF less
<1> QED BY <1>1, <1>2 DEF WantEndgame, HandleType, Flag, SameReads, SameWrites

LEMMA QueueReadIs ==
  ASSUME NEW s, NEW h \in HandleType, NEW g \in QueueRead(s, h)
  PROVE  /\ g \in HandleType /\ g.reqs = h.reqs + 1
         /\ g.reads + g.readReady = h.reads + h.readReady + 1
         /\ \/ g.flags = h.flags \union {"READ_PENDING"}
            \/ g.flags = h.flags /\ s \in Refused
         /\ g.readReady > 0 /\ g.failed => Broken(s) \/ (h.readReady > 0 /\ h.failed)
         /\ g.active = h.active /\ g.alive = h.alive /\ SameWrites(g, h)
<1> DEFINE armed == [h EXCEPT !.flags = @ \union {"READ_PENDING"}, !.reqs = @ + 1]
<1>1. /\ armed \in HandleType /\ armed.reqs = h.reqs + 1
      /\ armed.flags = h.flags \union {"READ_PENDING"}
      /\ armed.active = h.active /\ armed.alive = h.alive
      /\ SameReads(armed, h) /\ SameWrites(armed, h)
  <2>1. h.flags \union {"READ_PENDING"} \in SUBSET Flag /\ h.reqs + 1 \in Nat
    BY DEF HandleType, Flag
  <2>2. armed \in HandleType
    BY <2>1, Retyped
  <2> QED BY <2>2 DEF HandleType, SameReads, SameWrites
<1>2. \/ g = [armed EXCEPT !.reads = @ + 1]
      \/ g = [armed EXCEPT !.readReady = @ + 1, !.failed = FALSE]
      \/ /\ g = [h EXCEPT !.reqs = @ + 1, !.readReady = @ + 1, !.failed = TRUE]
         /\ Broken(s) /\ s \in Refused
  BY DEF QueueRead
<1> HIDE DEF armed
<1>3. CASE g = [armed EXCEPT !.reads = @ + 1]
  BY <1>1, <1>3 DEF HandleType, SameReads, SameWrites
<1>4. CASE g = [armed EXCEPT !.readReady = @ + 1, !.failed = FALSE]
  <2>1. armed.readReady + 1 \in Nat
    BY <1>1 DEF HandleType
  <2>2. g \in HandleType
    BY <1>1, <1>4, <2>1, Retyped
  <2> QED BY <1>1, <1>4, <2>2 DEF HandleType, SameReads, SameWrites
<1>5. CASE /\ g = [h EXCEPT !.reqs = @ + 1, !.readReady = @ + 1, !.failed = TRUE]
           /\ Broken(s) /\ s \in Refused
  <2>1. h.reqs + 1 \in Nat /\ h.readReady + 1 \in Nat
    BY DEF HandleType
  <2>2. g \in HandleType
    BY <1>5, <2>1, Retyped
  <2> QED BY <1>5, <2>2 DEF HandleType, SameReads, SameWrites
<1> QED BY <1>2, <1>3, <1>4, <1>5

-----------------------------------------------------------------------------
(* A step changes one stream, and takes the thread to it or from it.       *)

LEMMA Frame ==
  ASSUME IInv, NEW s \in Streams, NEW g, NEW q \in Place, Good(s, g, q),
         handle' = [handle EXCEPT ![s] = g],
         \/ at' = at /\ q = PlaceOf(s)
         \/ (at = Loop \/ at.stream = s) /\ at' = IF q = "loop" THEN Loop ELSE In(q, s),
         inUse' \in BOOLEAN, inUse' => at'.place \in {"data", "full", "end"},
         socket' \in [Streams -> SocketType],
         \A v \in Streams : socket[v].peer = "reset" => socket'[v].peer = "reset",
         g.readReady > 0 /\ g.failed /\ "CLOSING" \notin g.flags => socket'[s].peer = "reset"
  PROVE  IInv'
<1>1. handle \in [Streams -> HandleType] /\ g \in HandleType
  BY DEF IInv, TypeOK, HandleType, Good
<1>2. handle' \in [Streams -> HandleType] /\ handle'[s] = g
  BY <1>1
<1>3. \A v \in Streams : v # s => handle'[v] = handle[v]
  BY <1>1
<1>4. /\ at' \in [place: Place, stream: Streams \union {NoStream}]
      /\ at' = Loop \/ (at'.place # "loop" /\ at'.stream \in Streams)
      /\ PlaceOf(s)' = q
      /\ \A v \in Streams : v # s => PlaceOf(v)' = PlaceOf(v)
  <2>1. CASE at' = at /\ q = PlaceOf(s)
    BY <2>1 DEF IInv, TypeOK, SlabInv, PlaceOf
  <2>2. CASE (at = Loop \/ at.stream = s) /\ at' = IF q = "loop" THEN Loop ELSE In(q, s)
    <3>1. CASE q = "loop"
      BY <2>2, <3>1, StreamsAssumption DEF PlaceOf, Loop, Place, IInv, TypeOK, SlabInv
    <3>2. CASE q # "loop"
      BY <2>2, <3>2, StreamsAssumption DEF PlaceOf, Loop, In, IInv, TypeOK, SlabInv
    <3> QED BY <3>1, <3>2
  <2> QED BY <2>1, <2>2
<1>5. TypeOK' /\ SlabInv'
  BY <1>2, <1>4 DEF TypeOK, HandleType, SocketType, SlabInv
<1>6. FailInv'
  BY <1>2, <1>3 DEF FailInv, IInv
<1>7. ASSUME NEW v \in Streams PROVE Good(v, handle[v], PlaceOf(v))'
  <2>1. CASE v = s
    BY <1>2, <1>4, <2>1 DEF Good, Counts, Shape, ReadInv
  <2>2. CASE v # s
    <3>1. Good(v, handle[v], PlaceOf(v))
      BY DEF IInv
    <3> QED BY <1>3, <1>4, <2>2, <3>1 DEF Good, Counts, Shape, ReadInv
  <2> QED BY <2>1, <2>2
<1> QED BY <1>5, <1>6, <1>7 DEF IInv

\* A step of the program: the thread stays where it is.
LEMMA Stay ==
  ASSUME IInv, NEW s \in Streams, NEW g, Good(s, g, PlaceOf(s)),
         handle' = [handle EXCEPT ![s] = g], UNCHANGED <<socket, inUse, at>>,
         g.readReady > 0 /\ g.failed /\ "CLOSING" \notin g.flags => socket[s].peer = "reset"
  PROVE  IInv'
<1>1. PlaceOf(s) \in Place
  BY DEF IInv, TypeOK, PlaceOf, Place
<1>2. /\ inUse' \in BOOLEAN
      /\ inUse' => at'.place \in {"data", "full", "end"}
      /\ socket' \in [Streams -> SocketType]
  BY DEF IInv, TypeOK, SlabInv, SocketType
<1>3. PICK q \in Place : q = PlaceOf(s)
  BY <1>1
<1>4. /\ at' = at /\ q = PlaceOf(s) /\ Good(s, g, q)
      /\ \A v \in Streams : socket[v].peer = "reset" => socket'[v].peer = "reset"
      /\ g.readReady > 0 /\ g.failed /\ "CLOSING" \notin g.flags => socket'[s].peer = "reset"
  BY <1>3
<1> QED BY <1>2, <1>4, Frame

\* What there is of a stream before a step.
LEMMA Before ==
  ASSUME IInv, NEW s \in Streams
  PROVE  /\ handle[s] \in HandleType /\ PlaceOf(s) \in Place
         /\ Good(s, handle[s], PlaceOf(s))
         /\ "READING" \in handle[s].flags => handle[s].active > 0
         /\ PlaceOf(s) \in {"recv", "done", "data", "full", "end", "write"} => handle[s].reqs > 0
         /\ handle[s].readReady > 0 /\ handle[s].failed /\ "CLOSING" \notin handle[s].flags =>
              socket[s].peer = "reset"
         /\ UserTurn(s) => PlaceOf(s) \in {"loop"} \union Callback
<1>1. PlaceOf(s) \in Place
  BY DEF IInv, TypeOK, PlaceOf, Place
<1>2. Good(s, handle[s], PlaceOf(s)) /\ handle[s] \in HandleType
  BY DEF IInv, Good
<1>3. /\ "READING" \in handle[s].flags => handle[s].active > 0
      /\ PlaceOf(s) \in {"recv", "done", "data", "full", "end", "write"} => handle[s].reqs > 0
  BY <1>2 DEF Good, Counts, HandleType, Bit
<1>4. UserTurn(s) => PlaceOf(s) \in {"loop"} \union Callback
  BY DEF UserTurn, PlaceOf
<1> QED BY <1>1, <1>2, <1>3, <1>4 DEF IInv, FailInv

-----------------------------------------------------------------------------
(* The program.                                                            *)

LEMMA StartStep ==
  ASSUME IInv, NEW s \in Streams, StartRead(s)
  PROVE  IInv'
<1>1. PICK h \in HandleType : h = handle[s]
  BY Before
<1>2. PICK p \in Place : p = PlaceOf(s)
  BY Before
<1>3. Good(s, h, p) /\ p \in {"loop"} \union Callback
  BY <1>1, <1>2, Before DEF StartRead
<1>4. "READABLE" \in h.flags /\ "READING" \notin h.flags /\ UNCHANGED <<socket, inUse, at>>
  BY <1>1 DEF StartRead, Has
<1>5. PICK k : k = [h EXCEPT !.flags = @ \union {"READING"}, !.active = @ + 1]
  OBVIOUS
<1>6. /\ k \in HandleType /\ k.flags = h.flags \union {"READING"} /\ k.active = h.active + 1
      /\ k.alive = h.alive /\ k.reqs = h.reqs /\ SameReads(k, h) /\ SameWrites(k, h)
  <2>1. h.flags \union {"READING"} \in SUBSET Flag /\ h.active + 1 \in Nat
    BY DEF HandleType, Flag
  <2>2. \A f \in SUBSET Flag, i \in Nat : [h EXCEPT !.flags = f, !.active = i] \in HandleType
    BY Retyped
  <2>3. k \in HandleType
    BY <1>5, <2>1, <2>2
  <2> QED BY <1>5, <2>3 DEF HandleType, SameReads, SameWrites
<1>7. CASE "READ_PENDING" \in h.flags
  <2>1. handle' = [handle EXCEPT ![s] = k]
    BY <1>1, <1>5, <1>6, <1>7 DEF StartRead, Set, Has
  <2>2. Good(s, k, p)
    BY <1>3, <1>4, <1>6, <1>7 DEF Good, Counts, Shape, ReadInv, HandleType, Bit, SameReads, SameWrites
  <2>3. k.readReady > 0 /\ k.failed /\ "CLOSING" \notin k.flags => socket[s].peer = "reset"
    BY <1>1, <1>6, Before DEF SameReads
  <2> QED BY <1>2, <1>4, <2>1, <2>2, <2>3, Stay
<1>8. CASE "READ_PENDING" \notin h.flags
  <2>1. PICK g \in QueueRead(s, k) : handle' = [handle EXCEPT ![s] = g]
    BY <1>1, <1>5, <1>6, <1>8 DEF StartRead, Set, Has
  <2>2. /\ g \in HandleType /\ g.reqs = k.reqs + 1
        /\ g.reads + g.readReady = k.reads + k.readReady + 1
        /\ \/ g.flags = k.flags \union {"READ_PENDING"}
           \/ g.flags = k.flags /\ s \in Refused
        /\ g.readReady > 0 /\ g.failed => Broken(s) \/ (k.readReady > 0 /\ k.failed)
        /\ g.active = k.active /\ g.alive = k.alive /\ SameWrites(g, k)
    BY <1>6, <2>1, QueueReadIs
  <2>3. Counts(g, p)
    BY <1>3, <1>4, <1>6, <2>2 DEF Good, Counts, HandleType, Bit, SameReads, SameWrites
  <2>4. Shape(g, p)
    BY <1>3, <1>4, <1>6, <2>2 DEF Good, Shape, SameWrites
  <2>5. ReadInv(s, g, p)
    <3> SUFFICES ASSUME s \notin Stops \cap Refused PROVE ReadInv(s, g, p)
      BY DEF ReadInv
    <3>1. h.reads + h.readReady = 0 /\ "CLOSING" \notin h.flags
      BY <1>3, <1>4, <1>8 DEF Good, ReadInv, Shape, HandleType
    <3>2. g.reads + g.readReady = 1 /\ "READING" \in g.flags
      BY <1>6, <2>2, <3>1 DEF SameReads, HandleType
    <3>3. CASE "READ_PENDING" \in g.flags
      BY <3>2, <3>3 DEF ReadInv
    <3>4. CASE "READ_PENDING" \notin g.flags
      <4>1. s \in Refused /\ s \notin Stops
        BY <2>2, <3>4
      <4>2. p \notin {"data", "full", "recv", "done"}
        BY <1>3, <1>4, <3>1, <4>1 DEF Good, ReadInv, Callback
      <4> QED BY <3>2, <4>1, <4>2 DEF ReadInv
    <3> QED BY <3>3, <3>4
  <2>6. g.readReady > 0 /\ g.failed /\ "CLOSING" \notin g.flags => socket[s].peer = "reset"
    BY <1>1, <1>6, <2>2, Before DEF SameReads, Broken, Has
  <2> QED BY <1>2, <1>4, <2>1, <2>2, <2>3, <2>4, <2>5, <2>6, Stay DEF Good
<1> QED BY <1>7, <1>8

LEMMA StopStep ==
  ASSUME IInv, NEW s \in Streams, StopRead(s)
  PROVE  IInv'
<1>1. PICK h \in HandleType : h = handle[s]
  BY Before
<1>2. PICK p \in Place : p = PlaceOf(s)
  BY Before
<1>3. Good(s, h, p) /\ h.active > 0 /\ s \in Stops
  BY <1>1, <1>2, Before DEF StopRead, Has
<1>4. PICK g \in HandleType :
        /\ g = ReadStop(h) /\ g.flags = h.flags \ {"READING"}
        /\ g.active = h.active - Bit("READING" \in h.flags)
        /\ g.alive = h.alive /\ g.reqs = h.reqs /\ SameReads(g, h) /\ SameWrites(g, h)
  BY <1>3, ReadStopIs
<1>5. Good(s, g, p)
  <2>1. Counts(g, p)
    BY <1>3, <1>4 DEF Good, Counts, HandleType, Bit, SameReads, SameWrites
  <2>2. Shape(g, p)
    BY <1>3, <1>4 DEF Good, Shape, SameWrites
  <2>3. ReadInv(s, g, p)
    BY <1>3, <1>4 DEF Good, ReadInv, SameReads
  <2> QED BY <2>1, <2>2, <2>3 DEF Good
<1>6. handle' = [handle EXCEPT ![s] = g] /\ UNCHANGED <<socket, inUse, at>>
  BY <1>1, <1>4 DEF StopRead, Set
<1>7. g.readReady > 0 /\ g.failed /\ "CLOSING" \notin g.flags => socket[s].peer = "reset"
  BY <1>1, <1>4, Before DEF SameReads
<1> QED BY <1>2, <1>5, <1>6, <1>7, Stay

LEMMA WriteStep ==
  ASSUME IInv, NEW s \in Streams, Write(s)
  PROVE  IInv'
<1>1. PICK h \in HandleType : h = handle[s]
  BY Before
<1>2. PICK p \in Place : p = PlaceOf(s)
  BY Before
<1>3. Good(s, h, p) /\ "WRITABLE" \in h.flags /\ UNCHANGED <<socket, inUse, at>>
  BY <1>1, <1>2, Before DEF Write, Has
<1>4. PICK k : k = [h EXCEPT !.reqs = @ + 1, !.writes = @ + 1, !.active = @ + 1]
  OBVIOUS
<1>5. /\ k \in HandleType /\ k.flags = h.flags /\ k.alive = h.alive /\ k.reqs = h.reqs + 1
      /\ k.active = h.active + 1 /\ k.writes = h.writes + 1 /\ SameReads(k, h)
      /\ k.sending = h.sending /\ k.sent = h.sent /\ k.shutdown = h.shutdown
  <2>1. h.reqs + 1 \in Nat /\ h.writes + 1 \in Nat /\ h.active + 1 \in Nat
    BY DEF HandleType
  <2>2. \A i, j, m \in Nat : [h EXCEPT !.reqs = i, !.writes = j, !.active = m] \in HandleType
    BY Retyped
  <2>3. k \in HandleType
    BY <1>4, <2>1, <2>2
  <2> QED BY <1>4, <2>3 DEF HandleType, SameReads
<1>6. PICK g : /\ handle' = [handle EXCEPT ![s] = g]
               /\ g \in {[k EXCEPT !.sending = @ + 1], [k EXCEPT !.sent = @ + 1]}
  BY <1>1, <1>4 DEF Write, Set
<1>7. /\ g \in HandleType /\ g.flags = k.flags /\ g.alive = k.alive /\ g.reqs = k.reqs
      /\ g.active = k.active /\ g.writes = k.writes /\ SameReads(g, k) /\ g.shutdown = k.shutdown
      /\ g.sending + g.sent = k.sending + k.sent + 1
  BY <1>5, <1>6 DEF HandleType, SameReads
<1>8. Good(s, g, p)
  <2>1. Counts(g, p)
    BY <1>3, <1>5, <1>7 DEF Good, Counts, HandleType, Bit, SameReads
  <2>2. Shape(g, p)
    BY <1>3, <1>5, <1>7 DEF Good, Shape
  <2>3. ReadInv(s, g, p)
    BY <1>3, <1>5, <1>7 DEF Good, ReadInv, SameReads
  <2> QED BY <1>7, <2>1, <2>2, <2>3 DEF Good
<1>9. g.readReady > 0 /\ g.failed /\ "CLOSING" \notin g.flags => socket[s].peer = "reset"
  BY <1>1, <1>5, <1>7, Before DEF SameReads
<1> QED BY <1>2, <1>3, <1>6, <1>8, <1>9, Stay

LEMMA ShutdownStep ==
  ASSUME IInv, NEW s \in Streams, Shutdown(s)
  PROVE  IInv'
<1>1. PICK h \in HandleType : h = handle[s]
  BY Before
<1>2. PICK p \in Place : p = PlaceOf(s)
  BY Before
<1>3. Good(s, h, p) /\ "WRITABLE" \in h.flags /\ UNCHANGED <<socket, inUse, at>>
  BY <1>1, <1>2, Before DEF Shutdown, Has
<1>4. PICK k : k = [h EXCEPT !.flags = @ \ {"WRITABLE"}, !.shutdown = "owed",
                            !.reqs = @ + 1, !.active = @ + 1]
  OBVIOUS
<1>5. /\ k \in HandleType /\ k.flags = h.flags \ {"WRITABLE"} /\ k.alive = h.alive
      /\ k.reqs = h.reqs + 1 /\ k.active = h.active + 1 /\ k.shutdown = "owed"
      /\ k.writes = h.writes /\ k.sending = h.sending /\ k.sent = h.sent /\ SameReads(k, h)
  <2>1. h.flags \ {"WRITABLE"} \in SUBSET Flag /\ h.reqs + 1 \in Nat /\ h.active + 1 \in Nat
    BY DEF HandleType
  <2>2. \A f \in SUBSET Flag, d \in {"none", "owed", "done"}, i, j \in Nat :
          [h EXCEPT !.flags = f, !.shutdown = d, !.reqs = i, !.active = j] \in HandleType
    BY Retyped
  <2>3. k \in HandleType
    BY <1>4, <2>1, <2>2
  <2> QED BY <1>4, <2>3 DEF HandleType, SameReads
<1>6. PICK g : g = WantEndgame(k)
  OBVIOUS
<1>7. /\ g \in HandleType /\ g.flags = k.flags \union {"ENDGAME_QUEUED"} /\ g.alive = k.alive
      /\ g.reqs = k.reqs /\ g.active = k.active /\ SameReads(g, k) /\ SameWrites(g, k)
  BY <1>5, <1>6 DEF WantEndgame, HandleType, Flag, SameReads, SameWrites
<1>8. handle' = [handle EXCEPT ![s] = g]
  BY <1>1, <1>4, <1>6 DEF Shutdown, Set
<1>9. Good(s, g, p)
  <2>1. h.shutdown = "none" /\ p # "shutdown"
    BY <1>3 DEF Good, Shape
  <2>2. Counts(g, p)
    BY <1>3, <1>5, <1>7, <2>1 DEF Good, Counts, HandleType, Bit, SameReads, SameWrites
  <2>3. Shape(g, p)
    BY <1>3, <1>5, <1>7, <2>1 DEF Good, Shape
  <2>4. ReadInv(s, g, p)
    BY <1>3, <1>5, <1>7 DEF Good, ReadInv, SameReads
  <2> QED BY <1>7, <2>2, <2>3, <2>4 DEF Good
<1>10. g.readReady > 0 /\ g.failed /\ "CLOSING" \notin g.flags => socket[s].peer = "reset"
  BY <1>1, <1>5, <1>7, Before DEF SameReads
<1> QED BY <1>2, <1>3, <1>8, <1>9, <1>10, Stay

\* A close puts everything in order, whatever the reading was.
LEMMA CloseGood ==
  ASSUME NEW s, NEW h \in HandleType, NEW p \in Place, Counts(h, p), Shape(h, p),
         s \notin Stops \cap Refused => h.reads + h.readReady <= 1
  PROVE  LET g == UvClose(h) IN
         Good(s, g, p) /\ "CLOSING" \in g.flags /\ "READING" \notin g.flags /\ SameWrites(g, h)
<1>1. "READING" \in h.flags => h.active > 0
  BY DEF Counts, HandleType, Bit
<1>2. "CLOSING" \in h.flags => {"READING", "READABLE", "WRITABLE"} \cap h.flags = {}
  BY DEF Shape
<1>3. PICK g \in HandleType :
        /\ g = UvClose(h) /\ "CLOSING" \in g.flags
        /\ {"READING", "READABLE", "WRITABLE"} \cap g.flags = {}
        /\ \A f \in {"CLOSED", "READ_PENDING"} : f \in g.flags <=> f \in h.flags
        /\ g.active = h.active - Bit("READING" \in h.flags)
        /\ g.alive = h.alive /\ g.reqs = h.reqs /\ SameReads(g, h) /\ SameWrites(g, h)
  BY <1>1, <1>2, UvCloseIs
<1>4. Counts(g, p)
  BY <1>3 DEF Counts, HandleType, Bit, SameReads, SameWrites
<1>5. Shape(g, p)
  BY <1>3 DEF Shape, SameWrites
<1>6. ReadInv(s, g, p)
  BY <1>3 DEF ReadInv, SameReads
<1> QED BY <1>3, <1>4, <1>5, <1>6 DEF Good

LEMMA CloseStep ==
  ASSUME IInv, NEW s \in Streams, Close(s) \/ Destroy(s)
  PROVE  IInv'
<1>1. PICK h \in HandleType : h = handle[s]
  BY Before
<1>2. PICK p \in Place : p = PlaceOf(s)
  BY Before
<1>3. Good(s, h, p) /\ UNCHANGED <<socket, inUse, at>>
  BY <1>1, <1>2, Before DEF Close, Destroy
<1>4. PICK c : c = UvClose(h) /\ Good(s, c, p) /\ "CLOSING" \in c.flags
  BY <1>3, CloseGood DEF Good, ReadInv
<1>5. PICK g : /\ handle' = [handle EXCEPT ![s] = g]
               /\ g \in {c, [c EXCEPT !.alive = FALSE]}
  BY <1>1, <1>4 DEF Close, Destroy, Set
<1>6. /\ g \in HandleType /\ g.flags = c.flags /\ g.reqs = c.reqs /\ g.active = c.active
      /\ SameReads(g, c) /\ SameWrites(g, c)
  BY <1>4, <1>5 DEF Good, HandleType, SameReads, SameWrites
<1>7. Good(s, g, p)
  <2>1. Counts(g, p)
    BY <1>4, <1>6 DEF Good, Counts, SameReads, SameWrites
  <2>2. Shape(g, p)
    BY <1>4, <1>6 DEF Good, Shape, SameWrites
  <2>3. ReadInv(s, g, p)
    BY <1>4, <1>6 DEF Good, ReadInv, SameReads
  <2> QED BY <1>6, <2>1, <2>2, <2>3 DEF Good
<1> QED BY <1>2, <1>3, <1>4, <1>5, <1>6, <1>7, Stay

-----------------------------------------------------------------------------
(* The peer and the kernel.                                                *)

LEMMA SocketStep ==
  ASSUME IInv, NEW s \in Streams, Arrive(s) \/ PeerLeaves(s)
  PROVE  IInv'
<1>1. /\ socket' \in [Streams -> SocketType] /\ UNCHANGED <<handle, inUse, at>>
      /\ \A v \in Streams : socket[v].peer = "reset" => socket'[v].peer = "reset"
  <2>1. CASE Arrive(s)
    BY <2>1 DEF Arrive, IInv, TypeOK, SocketType
  <2>2. CASE PeerLeaves(s)
    BY <2>2 DEF PeerLeaves, IInv, TypeOK, SocketType
  <2> QED BY <2>1, <2>2
<1>2. TypeOK' /\ SlabInv' /\ FailInv'
  BY <1>1 DEF IInv, TypeOK, SocketType, SlabInv, FailInv
<1>3. ASSUME NEW v \in Streams PROVE Good(v, handle[v], PlaceOf(v))'
  BY <1>1 DEF IInv, Good, Counts, Shape, ReadInv, PlaceOf
<1> QED BY <1>2, <1>3 DEF IInv

LEMMA CompleteStep ==
  ASSUME IInv, NEW s \in Streams, CompleteRead(s) \/ CompleteWrite(s)
  PROVE  IInv'
<1>1. PICK h \in HandleType : h = handle[s]
  BY Before
<1>2. PICK p \in Place : p = PlaceOf(s)
  BY Before
<1>3. Good(s, h, p) /\ UNCHANGED <<socket, inUse, at>>
  BY <1>1, <1>2, Before DEF CompleteRead, CompleteWrite
<1>4. CASE CompleteRead(s)
  <2>1. PICK b \in BOOLEAN : b = Broken(s)
    BY DEF Broken, Has
  <2>2. PICK g : g = [h EXCEPT !.reads = @ - 1, !.readReady = @ + 1, !.failed = b]
    OBVIOUS
  <2>3. h.reads > 0 /\ handle' = [handle EXCEPT ![s] = g]
    BY <1>1, <1>4, <2>1, <2>2 DEF CompleteRead, Set
  <2>4. /\ g \in HandleType /\ g.flags = h.flags /\ g.alive = h.alive /\ g.reqs = h.reqs
        /\ g.active = h.active /\ g.reads = h.reads - 1 /\ g.readReady = h.readReady + 1
        /\ g.failed = b /\ SameWrites(g, h)
    <3>1. h.reads - 1 \in Nat /\ h.readReady + 1 \in Nat
      BY <2>3 DEF HandleType
    <3>2. \A i, j \in Nat, c \in BOOLEAN :
            [h EXCEPT !.reads = i, !.readReady = j, !.failed = c] \in HandleType
      BY Retyped
    <3>3. g \in HandleType
      BY <2>2, <3>1, <3>2
    <3> QED BY <2>2, <3>3 DEF HandleType, SameWrites
  <2>5. Counts(g, p)
    BY <1>3, <2>4 DEF Good, Counts, HandleType, SameWrites
  <2>6. Shape(g, p)
    BY <1>3, <2>4 DEF Good, Shape, SameWrites
  <2>7. ReadInv(s, g, p)
    <3>1. g.reads + g.readReady = h.reads + h.readReady
      BY <2>4 DEF HandleType
    <3> QED BY <1>3, <2>4, <3>1 DEF Good, ReadInv
  <2>8. g.readReady > 0 /\ g.failed /\ "CLOSING" \notin g.flags => socket[s].peer = "reset"
    BY <1>1, <2>1, <2>4 DEF Broken, Has
  <2> QED BY <1>2, <1>3, <2>3, <2>4, <2>5, <2>6, <2>7, <2>8, Stay DEF Good
<1>5. CASE CompleteWrite(s)
  <2>1. PICK g : g = [h EXCEPT !.sending = @ - 1, !.sent = @ + 1]
    OBVIOUS
  <2>2. h.sending > 0 /\ handle' = [handle EXCEPT ![s] = g]
    BY <1>1, <1>5, <2>1 DEF CompleteWrite, Set
  <2>3. /\ g \in HandleType /\ g.flags = h.flags /\ g.alive = h.alive /\ g.reqs = h.reqs
        /\ g.active = h.active /\ g.sending = h.sending - 1 /\ g.sent = h.sent + 1
        /\ g.writes = h.writes /\ g.shutdown = h.shutdown /\ SameReads(g, h)
    <3>1. h.sending - 1 \in Nat /\ h.sent + 1 \in Nat
      BY <2>2 DEF HandleType
    <3>2. \A i, j \in Nat : [h EXCEPT !.sending = i, !.sent = j] \in HandleType
      BY Retyped
    <3>3. g \in HandleType
      BY <2>1, <3>1, <3>2
    <3> QED BY <2>1, <3>3 DEF HandleType, SameReads
  <2>4. Counts(g, p)
    BY <1>3, <2>2, <2>3 DEF Good, Counts, HandleType, Bit, SameReads
  <2>5. Shape(g, p) /\ ReadInv(s, g, p)
    BY <1>3, <2>3 DEF Good, Shape, ReadInv, SameReads
  <2>6. g.readReady > 0 /\ g.failed /\ "CLOSING" \notin g.flags => socket[s].peer = "reset"
    BY <1>1, <2>3, Before DEF SameReads
  <2> QED BY <1>2, <1>3, <2>2, <2>3, <2>4, <2>5, <2>6, Stay DEF Good
<1> QED BY <1>4, <1>5

-----------------------------------------------------------------------------
(* The read request on the loop thread.                                    *)

\* A broken connection is processed, or the request ends in the receive loop:
\* the reading ends, and the program hears of it, as a stream that reads has
\* its wrapper.
LEMMA EndGood ==
  ASSUME NEW s, NEW h \in HandleType, Counts(h, "recv"), Shape(h, "recv"), "READING" \in h.flags,
         s \notin Stops \cap Refused =>
           /\ h.reads + h.readReady <= 1
           /\ h.reads + h.readReady = 1 => "READ_PENDING" \in h.flags
  PROVE  LET g == ReadStop(h) IN
         /\ Data(h) /\ Data(g) /\ Good(s, g, "end") /\ "CLOSING" \notin g.flags
         /\ SameReads(g, h) /\ SameWrites(g, h)
<1>1. h.active > 0
  BY DEF Counts, HandleType, Bit
<1>2. PICK g \in HandleType :
        /\ g = ReadStop(h) /\ g.flags = h.flags \ {"READING"}
        /\ g.active = h.active - Bit("READING" \in h.flags)
        /\ g.alive = h.alive /\ g.reqs = h.reqs /\ SameReads(g, h) /\ SameWrites(g, h)
  BY <1>1, ReadStopIs
<1>3. "CLOSING" \notin h.flags /\ h.alive /\ "CLOSED" \notin h.flags
  BY DEF Shape, HandleType
<1>4. Data(h) /\ Data(g)
  BY <1>2, <1>3 DEF Data, Has
<1>5. Counts(g, "end")
  BY <1>2 DEF Counts, HandleType, Bit, SameReads, SameWrites
<1>6. Shape(g, "end")
  BY <1>2, <1>3 DEF Shape, SameWrites
<1>7. ReadInv(s, g, "end")
  BY <1>2 DEF ReadInv, SameReads
<1> QED BY <1>2, <1>3, <1>4, <1>5, <1>6, <1>7 DEF Good

LEMMA ProcessReadStep ==
  ASSUME IInv, NEW s \in Streams, ProcessRead(s)
  PROVE  /\ IInv'
         /\ at' = In("end", s) => socket[s].peer = "reset"
<1>1. PICK h \in HandleType : h = handle[s]
  BY Before
<1>2. at = Loop /\ PlaceOf(s) = "loop" /\ UNCHANGED <<socket, inUse>> /\ ~ inUse
  BY StreamsAssumption DEF ProcessRead, PlaceOf, Loop, IInv, SlabInv
<1>3. Good(s, h, "loop") /\ h.readReady > 0
  BY <1>1, <1>2, Before DEF ProcessRead
<1>4. PICK k : k = [h EXCEPT !.flags = @ \ {"READ_PENDING"}, !.readReady = @ - 1]
  OBVIOUS
<1>5. /\ k \in HandleType /\ k.flags = h.flags \ {"READ_PENDING"} /\ k.alive = h.alive
      /\ k.reqs = h.reqs /\ k.active = h.active /\ k.readReady = h.readReady - 1
      /\ k.reads = h.reads /\ k.failed = h.failed /\ SameWrites(k, h)
  <2>1. h.flags \ {"READ_PENDING"} \in SUBSET Flag /\ h.readReady - 1 \in Nat
    BY <1>3 DEF HandleType
  <2>2. \A f \in SUBSET Flag, i \in Nat : [h EXCEPT !.flags = f, !.readReady = i] \in HandleType
    BY Retyped
  <2>3. k \in HandleType
    BY <1>4, <2>1, <2>2
  <2> QED BY <1>4, <2>3 DEF HandleType, SameWrites
<1>6. Counts(k, "recv") /\ Counts(k, "done")
  BY <1>3, <1>5 DEF Good, Counts, HandleType, Bit, SameWrites
<1>7. Shape(k, "recv") /\ Shape(k, "done")
  BY <1>3, <1>5 DEF Good, Shape, SameWrites
<1>8. s \notin Stops \cap Refused => k.reads + k.readReady = 0
  BY <1>3, <1>5 DEF Good, ReadInv, HandleType
<1>9. Good(s, k, "recv") /\ Good(s, k, "done")
  BY <1>5, <1>6, <1>7, <1>8 DEF Good, ReadInv
<1>10. h.failed /\ "CLOSING" \notin h.flags => socket[s].peer = "reset"
  BY <1>1, <1>3, Before
<1>11. /\ inUse' \in BOOLEAN
       /\ inUse' => at'.place \in {"data", "full", "end"}
       /\ socket' \in [Streams -> SocketType]
       /\ \A v \in Streams : socket[v].peer = "reset" => socket'[v].peer = "reset"
  BY <1>2 DEF IInv, TypeOK, SocketType
<1>12. CASE ~ k.failed
  <2>1. handle' = [handle EXCEPT ![s] = k] /\ at' = In("recv", s)
    BY <1>1, <1>4, <1>12 DEF ProcessRead, Set
  <2>2. k.readReady > 0 /\ k.failed /\ "CLOSING" \notin k.flags => socket'[s].peer = "reset"
    BY <1>12
  <2>3. at' = IF "recv" = "loop" THEN Loop ELSE In("recv", s)
    BY <2>1
  <2>4. IInv'
    BY <1>2, <1>9, <1>11, <2>1, <2>2, <2>3, Frame DEF Place
  <2> QED BY <2>1, <2>4 DEF In
<1>13. CASE k.failed /\ "READING" \notin k.flags
  <2>1. handle' = [handle EXCEPT ![s] = k] /\ at' = In("done", s)
    BY <1>1, <1>4, <1>5, <1>13 DEF ProcessRead, Set, Has
  <2>2. k.readReady > 0 /\ k.failed /\ "CLOSING" \notin k.flags => socket'[s].peer = "reset"
    BY <1>2, <1>5, <1>10
  <2>3. at' = IF "done" = "loop" THEN Loop ELSE In("done", s)
    BY <2>1
  <2>4. IInv'
    BY <1>2, <1>9, <1>11, <2>1, <2>2, <2>3, Frame DEF Place
  <2> QED BY <2>1, <2>4 DEF In
<1>14. CASE k.failed /\ "READING" \in k.flags
  <2>1. PICK g : g = ReadStop(k)
    OBVIOUS
  <2>2. /\ Data(k) /\ Data(g) /\ Good(s, g, "end") /\ "CLOSING" \notin g.flags
        /\ SameReads(g, k) /\ SameWrites(g, k)
    BY <1>5, <1>6, <1>7, <1>8, <1>14, <2>1, EndGood
  <2>3. handle' = [handle EXCEPT ![s] = g] /\ at' = In("end", s)
    BY <1>1, <1>4, <1>5, <1>14, <2>1, <2>2 DEF ProcessRead, ToEnd, ToEndReading, Set, Has
  <2>4. socket[s].peer = "reset"
    BY <1>5, <1>7, <1>10, <1>14 DEF Shape
  <2>5. at' = IF "end" = "loop" THEN Loop ELSE In("end", s)
    BY <2>3
  <2>6. IInv'
    BY <1>2, <1>11, <2>2, <2>3, <2>4, <2>5, Frame DEF Place, Callback
  <2> QED BY <2>4, <2>6
<1> QED BY <1>12, <1>13, <1>14

\* The thread goes on with the stream, or has done with it.
LEMMA Turn ==
  ASSUME IInv, NEW s \in Streams, NEW g, NEW q \in Place, Good(s, g, q),
         handle' = [handle EXCEPT ![s] = g], at.stream = s,
         at' = IF q = "loop" THEN Loop ELSE In(q, s),
         inUse' \in BOOLEAN, inUse' => q \in {"data", "full", "end"},
         socket' \in [Streams -> SocketType],
         \A v \in Streams : socket[v].peer = "reset" => socket'[v].peer = "reset",
         g.readReady > 0 /\ g.failed /\ "CLOSING" \notin g.flags => socket'[s].peer = "reset"
  PROVE  IInv'
<1>1. inUse' => at'.place \in {"data", "full", "end"}
  BY DEF In
<1> QED BY <1>1, Frame

LEMMA RecvStep ==
  ASSUME IInv, NEW s \in Streams, RecvStopped(s) \/ RecvData(s) \/ RecvNothing(s) \/ RecvFails(s)
  PROVE  /\ IInv'
         /\ at' = In("end", s) => socket[s].peer # "open"
<1>1. PICK h \in HandleType : h = handle[s]
  BY Before
<1>2. at = In("recv", s) /\ at.stream = s /\ PlaceOf(s) = "recv" /\ ~ inUse
  BY DEF RecvStopped, RecvData, RecvNothing, RecvFails, In, PlaceOf, IInv, SlabInv
<1>3. Good(s, h, "recv")
  BY <1>1, <1>2, Before
<1>4. handle = [handle EXCEPT ![s] = h] /\ handle \in [Streams -> HandleType]
  BY <1>1 DEF IInv, TypeOK, HandleType
<1>5. socket \in [Streams -> SocketType]
  BY DEF IInv, TypeOK, SocketType
<1>6. h.readReady > 0 /\ h.failed /\ "CLOSING" \notin h.flags => socket[s].peer = "reset"
  BY <1>1, Before
<1>7. "READING" \in h.flags => Data(h)
  BY <1>3 DEF Good, Shape, Data, Has, HandleType
<1>8. Good(s, h, "done")
  BY <1>3 DEF Good, Counts, Shape, ReadInv
<1>9. CASE RecvStopped(s)
  <2>1. UNCHANGED <<handle, socket, inUse>> /\ at' = In("done", s)
    BY <1>9 DEF RecvStopped
  <2>2. /\ handle' = [handle EXCEPT ![s] = h] /\ "done" \in Place
        /\ inUse' \in BOOLEAN /\ ~ inUse'
        /\ socket' \in [Streams -> SocketType]
        /\ \A v \in Streams : socket[v].peer = "reset" => socket'[v].peer = "reset"
        /\ h.readReady > 0 /\ h.failed /\ "CLOSING" \notin h.flags => socket'[s].peer = "reset"
    BY <1>2, <1>4, <1>5, <1>6, <2>1 DEF Place, IInv, TypeOK
  <2> QED BY <1>2, <1>8, <2>1, <2>2, Turn DEF In
<1>10. CASE RecvNothing(s)
  <2>1. UNCHANGED <<handle, socket>> /\ at' = In("done", s) /\ inUse' = FALSE
    BY <1>1, <1>7, <1>10 DEF RecvNothing, Has
  <2>2. /\ handle' = [handle EXCEPT ![s] = h] /\ "done" \in Place
        /\ inUse' \in BOOLEAN /\ ~ inUse'
        /\ socket' \in [Streams -> SocketType]
        /\ \A v \in Streams : socket[v].peer = "reset" => socket'[v].peer = "reset"
        /\ h.readReady > 0 /\ h.failed /\ "CLOSING" \notin h.flags => socket'[s].peer = "reset"
    BY <1>4, <1>5, <1>6, <2>1 DEF Place
  <2> QED BY <1>2, <1>8, <2>1, <2>2, Turn DEF In
<1>11. CASE RecvData(s)
  <2>1. PICK q \in {"data", "full"} : at' = In(q, s) /\ UNCHANGED handle /\ inUse' = TRUE
    BY <1>1, <1>7, <1>11 DEF RecvData, Has
  <2>2. /\ socket' \in [Streams -> SocketType]
        /\ \A v \in Streams : socket'[v].peer = socket[v].peer
    <3>1. PICK size : socket' = [socket EXCEPT ![s].inbox = @ - size] /\ socket[s].inbox - size \in Nat
      <4>1. socket[s].inbox \in Nat /\ Slab \in Nat
        BY <1>5, BoundsAssumption DEF SocketType
      <4>2. PICK size : /\ size = IF socket[s].inbox < Slab THEN socket[s].inbox ELSE Slab
                        /\ socket' = [socket EXCEPT ![s].inbox = @ - size]
        BY <1>11 DEF RecvData
      <4>3. socket[s].inbox - size \in Nat
        BY <4>1, <4>2
      <4> QED BY <4>2, <4>3
    <3> QED BY <1>5, <3>1 DEF SocketType
  <2>3. Good(s, h, q)
    <3>1. "READING" \in h.flags
      BY <1>1, <1>11 DEF RecvData, Has
    <3> QED BY <1>3, <3>1 DEF Good, Counts, Shape, ReadInv
  <2>4. IInv'
    <3>1. handle' = [handle EXCEPT ![s] = h] /\ q \in Place /\ q # "loop" /\ inUse' \in BOOLEAN
      BY <1>4, <2>1 DEF Place, Callback
    <3>2. \A v \in Streams : socket[v].peer = "reset" => socket'[v].peer = "reset"
      BY <2>2
    <3>3. h.readReady > 0 /\ h.failed /\ "CLOSING" \notin h.flags => socket'[s].peer = "reset"
      BY <1>6, <2>2
    <3> QED BY <1>2, <2>1, <2>2, <2>3, <3>1, <3>2, <3>3, Turn
  <2> QED BY <2>1, <2>4 DEF In
<1>12. CASE RecvFails(s)
  <2>1. "READING" \in h.flags /\ socket[s].peer # "open" /\ UNCHANGED socket /\ inUse' = TRUE
    BY <1>1, <1>2, <1>12 DEF RecvFails, Has
  <2>2. PICK k : /\ k \in {h, [h EXCEPT !.flags = @ \ {"READABLE"}]}
                 /\ ToEnd(s, k)
    BY <1>1, <1>2, <1>12 DEF RecvFails
  <2>3. /\ k \in HandleType /\ k.flags \in {h.flags, h.flags \ {"READABLE"}} /\ k.alive = h.alive
        /\ k.reqs = h.reqs /\ k.active = h.active /\ SameReads(k, h) /\ SameWrites(k, h)
    BY <2>2 DEF HandleType, Flag, SameReads, SameWrites
  <2>4. Counts(k, "recv") /\ Shape(k, "recv") /\ "READING" \in k.flags
    BY <1>3, <2>1, <2>3 DEF Good, Counts, Shape, SameReads, SameWrites
  <2>5. s \notin Stops \cap Refused =>
          /\ k.reads + k.readReady <= 1
          /\ k.reads + k.readReady = 1 => "READ_PENDING" \in k.flags
    BY <1>3, <2>1, <2>3 DEF Good, ReadInv, SameReads
  <2>6. PICK g : g = ReadStop(k)
    OBVIOUS
  <2>7. /\ Data(k) /\ Data(g) /\ Good(s, g, "end") /\ "CLOSING" \notin g.flags
        /\ SameReads(g, k) /\ SameWrites(g, k)
    BY <2>3, <2>4, <2>5, <2>6, EndGood
  <2>8. handle' = [handle EXCEPT ![s] = g] /\ at' = In("end", s)
    BY <2>2, <2>6, <2>7 DEF ToEnd, ToEndReading, Set
  <2>9. g.readReady > 0 /\ g.failed /\ "CLOSING" \notin g.flags => socket'[s].peer = "reset"
    <3>1. "CLOSING" \notin h.flags
      BY <1>3, <2>1 DEF Good, Shape
    <3> QED BY <1>6, <2>1, <2>3, <2>7, <3>1 DEF SameReads
  <2>10. "end" \in Place /\ inUse' \in BOOLEAN /\ socket' \in [Streams -> SocketType]
         /\ \A v \in Streams : socket[v].peer = "reset" => socket'[v].peer = "reset"
    BY <1>5, <2>1 DEF Place, Callback
  <2>11. IInv'
    BY <1>2, <2>7, <2>8, <2>9, <2>10, Turn
  <2> QED BY <2>1, <2>11
<1> QED BY <1>9, <1>10, <1>11, <1>12

LEMMA DataReturnStep ==
  ASSUME IInv, NEW s \in Streams, DataReturn(s)
  PROVE  IInv'
<1>1. PICK h \in HandleType : h = handle[s]
  BY Before
<1>2. PICK p \in {"data", "full"} : at = In(p, s) /\ at.stream = s /\ PlaceOf(s) = p
  BY DEF DataReturn, In, PlaceOf
<1>3. PICK q \in {"recv", "done"} : at' = In(q, s)
  BY DEF DataReturn
<1>4. UNCHANGED <<handle, socket>> /\ inUse' = FALSE
  BY DEF DataReturn
<1>5. Good(s, h, p)
  BY <1>1, <1>2, Before
<1>6. Good(s, h, q)
  BY <1>5 DEF Good, Counts, Shape, ReadInv
<1>7. /\ handle' = [handle EXCEPT ![s] = h] /\ q \in Place /\ q # "loop"
      /\ inUse' \in BOOLEAN /\ ~ inUse'
      /\ socket' \in [Streams -> SocketType]
      /\ \A v \in Streams : socket[v].peer = "reset" => socket'[v].peer = "reset"
  BY <1>1, <1>4 DEF Place, IInv, TypeOK, SocketType
<1>8. h.readReady > 0 /\ h.failed /\ "CLOSING" \notin h.flags => socket'[s].peer = "reset"
  BY <1>1, <1>4, Before
<1> QED BY <1>2, <1>3, <1>6, <1>7, <1>8, Turn

LEMMA EndReturnStep ==
  ASSUME IInv, NEW s \in Streams, EndReturn(s)
  PROVE  IInv'
<1>1. PICK h \in HandleType : h = handle[s]
  BY Before
<1>2. at = In("end", s) /\ at.stream = s /\ PlaceOf(s) = "end"
  BY DEF EndReturn, In, PlaceOf
<1>3. Good(s, h, "end") /\ ("READING" \in h.flags => h.active > 0)
  BY <1>1, <1>2, Before
<1>4. PICK r \in HandleType :
        /\ r = ReadStop(h) /\ r.flags = h.flags \ {"READING"}
        /\ r.active = h.active - Bit("READING" \in h.flags)
        /\ r.alive = h.alive /\ r.reqs = h.reqs /\ SameReads(r, h) /\ SameWrites(r, h)
  BY <1>3, ReadStopIs
<1>5. PICK g : g = UvClose(r)
  OBVIOUS
<1>6. Counts(r, "end")
  BY <1>3, <1>4 DEF Good, Counts, HandleType, Bit, SameReads, SameWrites
<1>7. /\ Shape(r, "end")
      /\ s \notin Stops \cap Refused => r.reads + r.readReady <= 1
  BY <1>3, <1>4 DEF Good, Shape, ReadInv, SameReads, SameWrites
<1>8. Good(s, g, "end") /\ "CLOSING" \in g.flags /\ "READING" \notin g.flags
  BY <1>5, <1>6, <1>7, CloseGood DEF Place, Callback
<1>9. Good(s, g, "done")
  BY <1>8 DEF Good, Counts, Shape, ReadInv
<1>10. /\ handle' = [handle EXCEPT ![s] = g] /\ at' = In("done", s) /\ UNCHANGED socket
       /\ "done" \in Place /\ inUse' \in BOOLEAN /\ ~ inUse'
       /\ socket' \in [Streams -> SocketType]
       /\ \A v \in Streams : socket[v].peer = "reset" => socket'[v].peer = "reset"
  BY <1>1, <1>4, <1>5 DEF EndReturn, Set, Place, IInv, TypeOK, SocketType
<1> QED BY <1>2, <1>8, <1>9, <1>10, Turn

LEMMA ReadDoneStep ==
  ASSUME IInv, NEW s \in Streams, ReadDone(s)
  PROVE  IInv'
<1>1. PICK h \in HandleType : h = handle[s]
  BY Before
<1>2. /\ at = In("done", s) /\ at.stream = s /\ PlaceOf(s) = "done" /\ ~ inUse
      /\ at' = Loop /\ UNCHANGED <<socket, inUse>>
  BY DEF ReadDone, In, PlaceOf, IInv, SlabInv
<1>3. Good(s, h, "done") /\ h.reqs > 0
  BY <1>1, <1>2, Before
<1>4. /\ "loop" \in Place /\ inUse' \in BOOLEAN /\ ~ inUse'
      /\ socket' \in [Streams -> SocketType]
      /\ \A v \in Streams : socket[v].peer = "reset" => socket'[v].peer = "reset"
  BY <1>2 DEF Place, IInv, TypeOK, SocketType
<1>5. h.readReady > 0 /\ h.failed /\ "CLOSING" \notin h.flags => socket[s].peer = "reset"
  BY <1>1, Before
<1>6. CASE "READING" \in h.flags /\ "READ_PENDING" \notin h.flags
  <2>1. PICK k \in QueueRead(s, h) : handle' = [handle EXCEPT ![s] = DecreaseReqs(k)]
    BY <1>1, <1>6 DEF ReadDone, Set, Has
  <2>2. /\ k \in HandleType /\ k.reqs = h.reqs + 1
        /\ k.reads + k.readReady = h.reads + h.readReady + 1
        /\ \/ k.flags = h.flags \union {"READ_PENDING"}
           \/ k.flags = h.flags /\ s \in Refused
        /\ k.readReady > 0 /\ k.failed => Broken(s) \/ (h.readReady > 0 /\ h.failed)
        /\ k.active = h.active /\ k.alive = h.alive /\ SameWrites(k, h)
    BY <2>1, QueueReadIs
  <2>3. k.reqs > 0
    BY <2>2 DEF HandleType
  <2>4. PICK g \in HandleType :
          /\ g = DecreaseReqs(k) /\ g.reqs = k.reqs - 1
          /\ g.flags = k.flags \/ g.flags = k.flags \union {"ENDGAME_QUEUED"}
          /\ g.active = k.active /\ g.alive = k.alive /\ SameReads(g, k) /\ SameWrites(g, k)
    BY <2>2, <2>3, DecreaseReqsIs
  <2>5. Counts(g, "loop")
    BY <1>3, <2>2, <2>4 DEF Good, Counts, HandleType, Bit, SameReads, SameWrites
  <2>6. Shape(g, "loop")
    BY <1>3, <2>2, <2>4 DEF Good, Shape, SameWrites
  <2>7. ReadInv(s, g, "loop")
    <3> SUFFICES ASSUME s \notin Stops \cap Refused PROVE ReadInv(s, g, "loop")
      BY DEF ReadInv
    <3>1. h.reads + h.readReady = 0
      BY <1>3, <1>6 DEF Good, ReadInv
    <3>2. g.reads + g.readReady = 1 /\ "READING" \in g.flags
      BY <1>6, <2>2, <2>4, <3>1 DEF SameReads, HandleType
    <3> QED BY <2>2, <2>4, <3>2 DEF ReadInv
  <2>8. g.readReady > 0 /\ g.failed /\ "CLOSING" \notin g.flags => socket'[s].peer = "reset"
    BY <1>1, <1>2, <1>5, <2>2, <2>4 DEF SameReads, Broken, Has
  <2>9. handle' = [handle EXCEPT ![s] = g] /\ Good(s, g, "loop")
    BY <2>1, <2>4, <2>5, <2>6, <2>7 DEF Good
  <2> QED BY <1>2, <1>4, <2>8, <2>9, Turn
<1>7. CASE ~ ("READING" \in h.flags /\ "READ_PENDING" \notin h.flags)
  <2>1. PICK g \in HandleType :
          /\ g = DecreaseReqs(h) /\ g.reqs = h.reqs - 1
          /\ g.flags = h.flags \/ g.flags = h.flags \union {"ENDGAME_QUEUED"}
          /\ g.active = h.active /\ g.alive = h.alive /\ SameReads(g, h) /\ SameWrites(g, h)
    BY <1>3, DecreaseReqsIs
  <2>2. handle' = [handle EXCEPT ![s] = g]
    BY <1>1, <1>7, <2>1 DEF ReadDone, Set, Has
  <2>3. Counts(g, "loop")
    BY <1>3, <2>1 DEF Good, Counts, HandleType, Bit, SameReads, SameWrites
  <2>4. Shape(g, "loop") /\ ReadInv(s, g, "loop")
    BY <1>3, <2>1 DEF Good, Shape, ReadInv, SameReads, SameWrites
  <2>5. g.readReady > 0 /\ g.failed /\ "CLOSING" \notin g.flags => socket'[s].peer = "reset"
    BY <1>2, <1>5, <2>1 DEF SameReads
  <2>6. Good(s, g, "loop")
    BY <2>1, <2>3, <2>4 DEF Good
  <2> QED BY <1>2, <1>4, <2>2, <2>5, <2>6, Turn
<1> QED BY <1>6, <1>7

-----------------------------------------------------------------------------
(* Writes, shutdown and close on the loop thread.                          *)

\* What these steps leave alone.
LEMMA Alone ==
  ASSUME IInv, NEW s \in Streams, UNCHANGED <<socket, inUse>>,
         at.place \notin {"data", "full", "end"}
  PROVE  /\ inUse' \in BOOLEAN /\ ~ inUse'
         /\ socket' \in [Streams -> SocketType]
         /\ \A v \in Streams : socket[v].peer = "reset" => socket'[v].peer = "reset"
  BY DEF IInv, TypeOK, SlabInv, SocketType

LEMMA ProcessWriteStep ==
  ASSUME IInv, NEW s \in Streams, ProcessWrite(s)
  PROVE  IInv'
<1>1. PICK h \in HandleType : h = handle[s]
  BY Before
<1>2. /\ at = Loop /\ PlaceOf(s) = "loop" /\ at' = In("write", s)
      /\ UNCHANGED <<socket, inUse>> /\ at.place \notin {"data", "full", "end"}
  BY StreamsAssumption DEF ProcessWrite, PlaceOf, Loop
<1>3. Good(s, h, "loop") /\ h.sent > 0
  BY <1>1, <1>2, Before DEF ProcessWrite
<1>4. h.sent - 1 \in Nat /\ h.active - 1 \in Nat
  BY <1>3 DEF Good, Counts, HandleType, Bit
<1>5. PICK g : g = [h EXCEPT !.sent = h.sent - 1, !.active = h.active - 1]
  OBVIOUS
<1>6. g \in HandleType
  BY <1>4, <1>5, Retyped
<1>7. /\ g.flags = h.flags /\ g.alive = h.alive /\ g.reqs = h.reqs
      /\ g.active = h.active - 1 /\ g.sent = h.sent - 1 /\ g.sending = h.sending
      /\ g.writes = h.writes /\ g.shutdown = h.shutdown /\ SameReads(g, h)
  BY <1>5 DEF HandleType, SameReads
<1>8. Counts(g, "write")
  BY <1>3, <1>7 DEF Good, Counts, HandleType, Bit, SameReads
<1>9. Shape(g, "write") /\ ReadInv(s, g, "write")
  BY <1>3, <1>7 DEF Good, Shape, ReadInv, SameReads
<1>10. handle' = [handle EXCEPT ![s] = g] /\ Good(s, g, "write") /\ "write" \in Place
  BY <1>1, <1>5, <1>6, <1>8, <1>9 DEF ProcessWrite, Set, Good, Place, Callback
<1>11. g.readReady > 0 /\ g.failed /\ "CLOSING" \notin g.flags => socket'[s].peer = "reset"
  BY <1>1, <1>2, <1>7, Before DEF SameReads
<1>12. at' = IF "write" = "loop" THEN Loop ELSE In("write", s)
  BY <1>2
<1>13. /\ inUse' \in BOOLEAN /\ ~ inUse'
       /\ socket' \in [Streams -> SocketType]
       /\ \A v \in Streams : socket[v].peer = "reset" => socket'[v].peer = "reset"
  BY <1>2, Alone
<1> QED BY <1>2, <1>10, <1>11, <1>12, <1>13, Frame

LEMMA WriteReturnStep ==
  ASSUME IInv, NEW s \in Streams, WriteReturn(s)
  PROVE  IInv'
<1>1. PICK h \in HandleType : h = handle[s]
  BY Before
<1>2. /\ at = In("write", s) /\ at.stream = s /\ PlaceOf(s) = "write" /\ at' = Loop
      /\ UNCHANGED <<socket, inUse>> /\ at.place \notin {"data", "full", "end"}
  BY DEF WriteReturn, In, PlaceOf
<1>3. Good(s, h, "write") /\ h.reqs > 0
  BY <1>1, <1>2, Before
<1>4. h.writes - 1 \in Nat
  BY <1>3 DEF Good, Counts, HandleType, Bit
<1>5. PICK less : less = [h EXCEPT !.writes = h.writes - 1]
  OBVIOUS
<1>6. less \in HandleType
  BY <1>4, <1>5 DEF HandleType
<1>7. /\ less.flags = h.flags /\ less.alive = h.alive /\ less.reqs = h.reqs
      /\ less.active = h.active /\ less.sent = h.sent /\ less.sending = h.sending
      /\ less.writes = h.writes - 1 /\ less.shutdown = h.shutdown /\ SameReads(less, h)
  BY <1>5 DEF HandleType, SameReads
<1>8. PICK k : k = IF less.shutdown = "owed" /\ less.writes = 0
                     THEN WantEndgame(less) ELSE less
  OBVIOUS
<1>9. /\ k \in HandleType
      /\ k.flags = h.flags \/ k.flags = h.flags \union {"ENDGAME_QUEUED"}
      /\ k.alive = h.alive /\ k.reqs = h.reqs /\ k.active = h.active
      /\ SameReads(k, less) /\ SameWrites(k, less)
  BY <1>6, <1>7, <1>8 DEF WantEndgame, HandleType, Flag, SameReads, SameWrites
<1>10. k.reqs > 0
  BY <1>3, <1>9
<1>11. PICK g \in HandleType :
         /\ g = DecreaseReqs(k) /\ g.reqs = k.reqs - 1
         /\ g.flags = k.flags \/ g.flags = k.flags \union {"ENDGAME_QUEUED"}
         /\ g.active = k.active /\ g.alive = k.alive /\ SameReads(g, k) /\ SameWrites(g, k)
  BY <1>9, <1>10, DecreaseReqsIs
<1>12. handle' = [handle EXCEPT ![s] = g]
  BY <1>1, <1>5, <1>8, <1>11 DEF WriteReturn, Set
<1>13. /\ g.flags = h.flags \/ g.flags = h.flags \union {"ENDGAME_QUEUED"}
       /\ g.alive = h.alive /\ g.reqs = h.reqs - 1 /\ g.active = h.active
       /\ g.sent = h.sent /\ g.sending = h.sending /\ g.writes = h.writes - 1
       /\ g.shutdown = h.shutdown /\ SameReads(g, h)
  BY <1>7, <1>9, <1>11 DEF SameReads, SameWrites
<1>14. Counts(g, "loop")
  BY <1>3, <1>13 DEF Good, Counts, HandleType, Bit, SameReads
<1>15. Shape(g, "loop") /\ ReadInv(s, g, "loop")
  BY <1>3, <1>13 DEF Good, Shape, ReadInv, SameReads
<1>16. Good(s, g, "loop") /\ "loop" \in Place
  BY <1>14, <1>15 DEF Good, Place
<1>17. g.readReady > 0 /\ g.failed /\ "CLOSING" \notin g.flags => socket'[s].peer = "reset"
  BY <1>1, <1>2, <1>13, Before DEF SameReads
<1>18. /\ inUse' \in BOOLEAN /\ ~ inUse'
       /\ socket' \in [Streams -> SocketType]
       /\ \A v \in Streams : socket[v].peer = "reset" => socket'[v].peer = "reset"
  BY <1>2, Alone
<1> QED BY <1>2, <1>12, <1>16, <1>17, <1>18, Turn

LEMMA EndgameStep ==
  ASSUME IInv, NEW s \in Streams, Endgame(s)
  PROVE  IInv'
<1>1. PICK h \in HandleType : h = handle[s]
  BY Before
<1>2. /\ at = Loop /\ PlaceOf(s) = "loop" /\ UNCHANGED <<socket, inUse>>
      /\ at.place \notin {"data", "full", "end"}
  BY StreamsAssumption DEF Endgame, PlaceOf, Loop
<1>3. Good(s, h, "loop")
  BY <1>1, <1>2, Before
<1>4. PICK k : k = [h EXCEPT !.flags = @ \ {"ENDGAME_QUEUED"}]
  OBVIOUS
<1>5. /\ k \in HandleType /\ k.flags = h.flags \ {"ENDGAME_QUEUED"}
      /\ k.alive = h.alive /\ k.reqs = h.reqs /\ k.active = h.active
      /\ SameReads(k, h) /\ SameWrites(k, h)
  BY <1>4 DEF HandleType, SameReads, SameWrites
<1>6. Counts(k, "loop") /\ Counts(k, "close")
  BY <1>3, <1>5 DEF Good, Counts, HandleType, Bit, SameReads, SameWrites
<1>7. Shape(k, "loop") /\ ReadInv(s, k, "loop")
  BY <1>3, <1>5 DEF Good, Shape, ReadInv, SameReads, SameWrites
<1>8. /\ inUse' \in BOOLEAN /\ ~ inUse'
      /\ socket' \in [Streams -> SocketType]
      /\ \A v \in Streams : socket[v].peer = "reset" => socket'[v].peer = "reset"
  BY <1>2, Alone
<1>9. h.readReady > 0 /\ h.failed /\ "CLOSING" \notin h.flags => socket'[s].peer = "reset"
  BY <1>1, <1>2, Before
<1>10. "loop" \in Place /\ "close" \in Place /\ "shutdown" \in Place
  BY DEF Place, Callback
<1>11. CASE ShutdownDue(k)
  <2>1. k.shutdown = "owed" /\ k.writes = 0
    BY <1>11 DEF ShutdownDue
  <2>2. k.active - 1 \in Nat
    <3>1. k.active \in Nat /\ k.sending \in Nat /\ k.sent \in Nat
      BY <1>5 DEF HandleType
    <3>2. k.active = Bit("READING" \in k.flags) + k.sending + k.sent + 1
      BY <1>6, <2>1 DEF Counts, Bit
    <3>3. Bit("READING" \in k.flags) \in Nat
      BY DEF Bit
    <3> QED BY <3>1, <3>2, <3>3
  <2>3. PICK g : g = [k EXCEPT !.active = k.active - 1]
    OBVIOUS
  <2>4. g \in HandleType
    BY <1>5, <2>2, <2>3 DEF HandleType
  <2>5. /\ g.flags = k.flags /\ g.alive = k.alive /\ g.reqs = k.reqs
        /\ g.active = k.active - 1 /\ SameReads(g, k) /\ SameWrites(g, k)
    BY <1>5, <2>3 DEF HandleType, SameReads, SameWrites
  <2>6. handle' = [handle EXCEPT ![s] = g] /\ at' = In("shutdown", s)
    BY <1>1, <1>4, <1>11, <2>3 DEF Endgame, Set
  <2>7. Counts(g, "shutdown")
    <3>1. /\ k.active = Bit("READING" \in k.flags) + k.sending + k.sent + 1
          /\ k.writes = k.sending + k.sent + 0
          /\ k.reqs = k.reads + k.readReady + k.writes + 1 + 0
      BY <1>6, <2>1 DEF Counts, Bit
    <3>2. g.active = Bit("READING" \in g.flags) + g.sending + g.sent + 0
      <4>1. k.sending \in Nat /\ k.sent \in Nat /\ Bit("READING" \in k.flags) \in Nat
        BY <1>5 DEF HandleType, Bit
      <4>2. g.active = (Bit("READING" \in k.flags) + k.sending + k.sent + 1) - 1
        BY <2>5, <3>1
      <4>3. g.active = Bit("READING" \in k.flags) + k.sending + k.sent + 0
        BY <4>1, <4>2
      <4> QED BY <2>5, <4>3 DEF SameWrites
    <3>3. /\ g.writes = g.sending + g.sent + 0
          /\ g.reqs = g.reads + g.readReady + g.writes + 1 + 0
      BY <2>5, <3>1 DEF SameReads, SameWrites
    <3> QED BY <2>1, <2>5, <3>2, <3>3 DEF Counts, Bit, SameWrites
  <2>8. Shape(g, "shutdown") /\ ReadInv(s, g, "shutdown")
    BY <1>7, <2>1, <2>5 DEF Shape, ReadInv, SameReads, SameWrites
  <2>9. Good(s, g, "shutdown")
    BY <2>4, <2>7, <2>8 DEF Good
  <2>10. g.readReady > 0 /\ g.failed /\ "CLOSING" \notin g.flags => socket'[s].peer = "reset"
    BY <1>5, <1>9, <2>5 DEF SameReads
  <2>11. at' = IF "shutdown" = "loop" THEN Loop ELSE In("shutdown", s)
    BY <2>6
  <2> QED BY <1>2, <1>8, <1>10, <2>6, <2>9, <2>10, <2>11, Frame
<1>12. CASE ~ ShutdownDue(k) /\ "CLOSING" \in k.flags /\ k.reqs = 0
  <2>1. PICK g : g = [k EXCEPT !.flags = @ \union {"CLOSED"}]
    OBVIOUS
  <2>2. /\ g \in HandleType /\ g.flags = k.flags \union {"CLOSED"} /\ g.alive = k.alive
        /\ g.reqs = k.reqs /\ g.active = k.active /\ SameReads(g, k) /\ SameWrites(g, k)
    BY <1>5, <2>1 DEF HandleType, Flag, SameReads, SameWrites
  <2>3. PICK q \in {"loop", "close"} : at' = IF q = "loop" THEN Loop ELSE In(q, s)
    BY <1>1, <1>4, <1>12 DEF Endgame, Has
  <2>4. handle' = [handle EXCEPT ![s] = g]
    BY <1>1, <1>4, <1>12, <2>1 DEF Endgame, Set, Has
  <2>5. Counts(g, q)
    BY <1>6, <2>2, <2>3 DEF Counts, SameReads, SameWrites
  <2>6. Shape(g, q) /\ ReadInv(s, g, q)
    BY <1>7, <1>12, <2>2, <2>3 DEF Shape, ReadInv, SameReads, SameWrites
  <2>7. Good(s, g, q) /\ q \in Place
    BY <1>10, <2>2, <2>3, <2>5, <2>6 DEF Good
  <2>8. g.readReady > 0 /\ g.failed /\ "CLOSING" \notin g.flags => socket'[s].peer = "reset"
    BY <1>12, <2>2
  <2> QED BY <1>2, <1>8, <2>3, <2>4, <2>7, <2>8, Frame
<1>13. CASE ~ ShutdownDue(k) /\ ~ ("CLOSING" \in k.flags /\ k.reqs = 0)
  <2>1. handle' = [handle EXCEPT ![s] = k] /\ at' = at
    BY <1>1, <1>4, <1>13 DEF Endgame, Set, Has
  <2>2. Good(s, k, "loop") /\ "loop" = PlaceOf(s)
    BY <1>2, <1>5, <1>6, <1>7 DEF Good
  <2>3. k.readReady > 0 /\ k.failed /\ "CLOSING" \notin k.flags => socket'[s].peer = "reset"
    BY <1>5, <1>9 DEF SameReads
  <2> QED BY <1>8, <1>10, <2>1, <2>2, <2>3, Frame
<1> QED BY <1>11, <1>12, <1>13

LEMMA ShutdownReturnStep ==
  ASSUME IInv, NEW s \in Streams, ShutdownReturn(s)
  PROVE  IInv'
<1>1. PICK h \in HandleType : h = handle[s]
  BY Before
<1>2. /\ at = In("shutdown", s) /\ at.stream = s /\ PlaceOf(s) = "shutdown" /\ at' = Loop
      /\ UNCHANGED <<socket, inUse>> /\ at.place \notin {"data", "full", "end"}
  BY DEF ShutdownReturn, In, PlaceOf
<1>3. Good(s, h, "shutdown") /\ h.shutdown = "owed"
  BY <1>1, <1>2, Before DEF Good, Shape
<1>4. PICK k : k = [h EXCEPT !.shutdown = "done"]
  OBVIOUS
<1>5. /\ k \in HandleType /\ k.flags = h.flags /\ k.alive = h.alive /\ k.reqs = h.reqs
      /\ k.active = h.active /\ k.sent = h.sent /\ k.sending = h.sending
      /\ k.writes = h.writes /\ k.shutdown = "done" /\ SameReads(k, h)
  BY <1>4 DEF HandleType, SameReads
<1>6. k.reqs > 0
  BY <1>3, <1>5 DEF Good, Counts, HandleType, Bit
<1>7. PICK g \in HandleType :
        /\ g = DecreaseReqs(k) /\ g.reqs = k.reqs - 1
        /\ g.flags = k.flags \/ g.flags = k.flags \union {"ENDGAME_QUEUED"}
        /\ g.active = k.active /\ g.alive = k.alive /\ SameReads(g, k) /\ SameWrites(g, k)
  BY <1>5, <1>6, DecreaseReqsIs
<1>8. handle' = [handle EXCEPT ![s] = g]
  BY <1>1, <1>4, <1>7 DEF ShutdownReturn, Set
<1>9. Counts(g, "loop")
  BY <1>3, <1>5, <1>7 DEF Good, Counts, HandleType, Bit, SameReads, SameWrites
<1>10. Shape(g, "loop")
  BY <1>3, <1>5, <1>7 DEF Good, Shape, SameWrites
<1>11. ReadInv(s, g, "loop")
  BY <1>3, <1>5, <1>7 DEF Good, ReadInv, SameReads
<1>12. Good(s, g, "loop") /\ "loop" \in Place
  BY <1>9, <1>10, <1>11 DEF Good, Place
<1>13. g.readReady > 0 /\ g.failed /\ "CLOSING" \notin g.flags => socket'[s].peer = "reset"
  BY <1>1, <1>2, <1>5, <1>7, Before DEF SameReads
<1>14. /\ inUse' \in BOOLEAN /\ ~ inUse'
       /\ socket' \in [Streams -> SocketType]
       /\ \A v \in Streams : socket[v].peer = "reset" => socket'[v].peer = "reset"
  BY <1>2, Alone
<1> QED BY <1>2, <1>8, <1>12, <1>13, <1>14, Turn

LEMMA CloseReturnStep ==
  ASSUME IInv, NEW s \in Streams, CloseReturn(s)
  PROVE  IInv'
<1>1. PICK h \in HandleType : h = handle[s]
  BY Before
<1>2. /\ at = In("close", s) /\ at.stream = s /\ PlaceOf(s) = "close" /\ at' = Loop
      /\ UNCHANGED <<handle, socket, inUse>> /\ at.place \notin {"data", "full", "end"}
  BY DEF CloseReturn, In, PlaceOf
<1>3. Good(s, h, "close")
  BY <1>1, <1>2, Before
<1>4. Good(s, h, "loop") /\ "loop" \in Place
  BY <1>3 DEF Good, Counts, Shape, ReadInv, Place
<1>5. handle' = [handle EXCEPT ![s] = h]
  BY <1>1, <1>2 DEF IInv, TypeOK
<1>6. h.readReady > 0 /\ h.failed /\ "CLOSING" \notin h.flags => socket'[s].peer = "reset"
  BY <1>1, <1>2, Before
<1>7. /\ inUse' \in BOOLEAN /\ ~ inUse'
      /\ socket' \in [Streams -> SocketType]
      /\ \A v \in Streams : socket[v].peer = "reset" => socket'[v].peer = "reset"
  BY <1>2, Alone
<1> QED BY <1>2, <1>4, <1>5, <1>6, <1>7, Turn

LEMMA StutterIInv == ASSUME IInv, UNCHANGED vars PROVE IInv'
<1>1. TypeOK' /\ SlabInv' /\ FailInv'
  BY DEF IInv, TypeOK, SlabInv, FailInv, vars
<1>2. ASSUME NEW s \in Streams PROVE Good(s, handle[s], PlaceOf(s))'
  BY DEF IInv, Good, Counts, Shape, ReadInv, PlaceOf, vars
<1> QED BY <1>1, <1>2 DEF IInv

LEMMA NextIInv == IInv /\ [Next]_vars => IInv'
<1> SUFFICES ASSUME IInv, [Next]_vars PROVE IInv'
  OBVIOUS
<1>1. ASSUME NEW s \in Streams, User(s) PROVE IInv'
  BY <1>1, StartStep, StopStep, WriteStep, ShutdownStep, CloseStep DEF User
<1>2. ASSUME NEW s \in Streams, Environment(s) PROVE IInv'
  BY <1>2, SocketStep, CompleteStep DEF Environment
<1>3. ASSUME NEW s \in Streams, Running(s) PROVE IInv'
  BY <1>3, RecvStep, DataReturnStep, EndReturnStep, ReadDoneStep, WriteReturnStep,
     ShutdownReturnStep, CloseReturnStep DEF Running
<1>4. ASSUME NEW s \in Streams, ProcessRead(s) \/ ProcessWrite(s) \/ Endgame(s) PROVE IInv'
  BY <1>4, ProcessReadStep, ProcessWriteStep, EndgameStep
<1>5. CASE UNCHANGED vars
  BY <1>5, StutterIInv
<1> QED BY <1>1, <1>2, <1>3, <1>4, <1>5 DEF Next, Finished

\* The inductive invariant holds of every connection, whatever the program,
\* the peers and the kernel do.
THEOREM Invariant == Spec => []IInv
  BY InitIInv, NextIInv, PTL DEF Spec

-----------------------------------------------------------------------------
(* What follows from the invariant.                                        *)

\* No counter of libuv goes below zero.
THEOREM TypeCorrect == Spec => []TypeOK
<1>1. IInv => TypeOK
  BY DEF IInv
<1> QED BY <1>1, Invariant, PTL

\* reqs_pending and activecnt, which uv_tcp_close and the endgame read, count
\* what is under way.
THEOREM CountsRight == Spec => []CountsExact
<1>1. IInv => CountsExact
  <2> SUFFICES ASSUME IInv, NEW s \in Streams
               PROVE  LET h == handle[s]
                          one(test) == IF test THEN 1 ELSE 0 IN
                      /\ h.writes = h.sending + h.sent + one(at = In("write", s))
                      /\ h.reqs = h.reads + h.readReady + h.writes + one(h.shutdown = "owed")
                           + one(\E place \in {"recv", "done", "data", "full", "end"} :
                                   at = In(place, s))
                      /\ h.active = one(Has(h, "READING")) + h.sending + h.sent
                           + one(h.shutdown = "owed" /\ at # In("shutdown", s))
    BY DEF CountsExact
  <2>1. /\ at = In("write", s) <=> PlaceOf(s) = "write"
        /\ at = In("shutdown", s) <=> PlaceOf(s) = "shutdown"
        /\ (\E place \in {"recv", "done", "data", "full", "end"} : at = In(place, s))
             <=> PlaceOf(s) \in {"recv", "done", "data", "full", "end"}
    <3>1. at = [place |-> at.place, stream |-> at.stream]
      BY DEF IInv, TypeOK
    <3> QED BY <3>1 DEF In, PlaceOf
  <2>2. Counts(handle[s], PlaceOf(s))
    BY DEF IInv, Good
  <2> QED BY <2>1, <2>2 DEF Counts, Bit, Has
<1> QED BY <1>1, Invariant, PTL

\* The read request of a stream, which links pending_reqs_tail, is in the
\* kernel or in the queue once, on every stream whose program does not stop
\* reading on a connection WSARecv refuses at once.
THEOREM ReadReqInOnePlace ==
  ASSUME Stops \cap Refused = {}
  PROVE  Spec => []ReadReqOnce
<1>1. IInv => ReadReqOnce
  <2> SUFFICES ASSUME IInv, NEW s \in Streams
               PROVE  handle[s].reads + handle[s].readReady <= 1
    BY DEF ReadReqOnce
  <2>1. Good(s, handle[s], PlaceOf(s))
    BY DEF IInv
  <2> QED BY <2>1 DEF Good, ReadInv
<1> QED BY <1>1, Invariant, PTL

\* The end callback tells of the peer: the slab is never out while a stream
\* receives, so UV_ENOBUFS, which stream_read_cb would take for the end, does
\* not occur.
THEOREM EndFromPeer == Spec => EndOnlyByPeer
<1>1. ASSUME IInv, [Next]_vars
      PROVE  [\A s \in Streams :
                at' = In("end", s) /\ at # at' => socket[s].peer # "open"]_vars
  <2> SUFFICES ASSUME NEW s \in Streams, at' = In("end", s), at # at'
               PROVE  socket[s].peer # "open"
    OBVIOUS
  <2>1. at' # Loop
    BY StreamsAssumption DEF In, Loop
  <2>2. ~ UNCHANGED vars
    BY DEF vars
  <2>3. PICK v \in Streams :
          \/ User(v) \/ Environment(v) \/ Running(v)
          \/ ProcessRead(v) \/ ProcessWrite(v) \/ Endgame(v)
    BY <1>1, <2>2 DEF Next, Finished
  <2>4. CASE RecvStopped(v) \/ RecvData(v) \/ RecvNothing(v) \/ RecvFails(v)
    <3>1. v = s
      BY <2>4 DEF RecvStopped, RecvData, RecvNothing, RecvFails, ToEnd, ToEndReading, In
    <3> QED BY <1>1, <2>4, <3>1, RecvStep
  <2>5. CASE ProcessRead(v)
    <3>1. v = s
      BY <1>1, <2>5 DEF ProcessRead, ToEnd, ToEndReading, In
    <3>2. socket[s].peer = "reset"
      BY <1>1, <2>5, <3>1, ProcessReadStep
    <3> QED BY <3>2
  <2>6. CASE \/ User(v) \/ Environment(v) \/ DataReturn(v) \/ EndReturn(v) \/ ReadDone(v)
             \/ WriteReturn(v) \/ ShutdownReturn(v) \/ CloseReturn(v)
             \/ ProcessWrite(v) \/ Endgame(v)
    <3>1. CASE User(v) \/ Environment(v)
      BY <3>1 DEF User, StartRead, StopRead, Write, Shutdown, Close, Destroy,
                 Environment, Arrive, PeerLeaves, CompleteRead, CompleteWrite
    <3>2. CASE DataReturn(v) \/ EndReturn(v) \/ ProcessWrite(v)
      BY <3>2 DEF DataReturn, EndReturn, ProcessWrite, In
    <3>3. CASE ReadDone(v) \/ WriteReturn(v) \/ ShutdownReturn(v) \/ CloseReturn(v)
      BY <2>1, <3>3 DEF ReadDone, WriteReturn, ShutdownReturn, CloseReturn
    <3>4. CASE Endgame(v)
      BY <2>1, <3>4 DEF Endgame, In
    <3> QED BY <2>6, <3>1, <3>2, <3>3, <3>4
  <2> QED BY <2>3, <2>4, <2>5, <2>6 DEF Running
<1> QED BY <1>1, Invariant, PTL DEF Spec, EndOnlyByPeer

-----------------------------------------------------------------------------
(* The refinement of StreamContract.                                       *)

Owed(s) == handle[s].sending + handle[s].sent
Down(s) == IF at = In("shutdown", s) THEN "done" ELSE handle[s].shutdown

SameElsewhere(s) ==
  \A v \in Streams \ {s} :
    Owed(v)' = Owed(v) /\ Down(v)' = Down(v) /\ Life(v)' = Life(v)

\* The steps of the contract, on the view of one stream.
Change(s) ==
  \/ Owed(s)' = Owed(s) /\ Down(s)' = Down(s) /\ Life(s)' = Life(s)
  \/ /\ Down(s) = "none" /\ Life(s) \in {"open", "ending"} /\ Life(s)' = Life(s)
     /\ \/ Owed(s)' = Owed(s) + 1 /\ Down(s)' = Down(s)
        \/ Owed(s)' = Owed(s) /\ Down(s)' = "owed"
  \/ /\ Owed(s) > 0 /\ Owed(s)' = Owed(s) - 1
     /\ Down(s)' = Down(s) /\ Life(s)' = Life(s)
  \/ /\ Down(s) = "owed" /\ Owed(s) = 0 /\ Down(s)' = "done"
     /\ Owed(s)' = Owed(s) /\ Life(s)' = Life(s)
  \/ /\ Owed(s)' = Owed(s) /\ Down(s)' = Down(s)
     /\ \/ Life(s) = "open" /\ Life(s)' = "ending"
        \/ Life(s) \in {"open", "ending"} /\ Life(s)' = "closing"
        \/ /\ Life(s) = "closing" /\ Life(s)' = "closed"
           /\ Owed(s) = 0 /\ Down(s) # "owed"

LEMMA ChangeRefines ==
  ASSUME NEW s \in Streams, SameElsewhere(s), Change(s)
  PROVE  [Contract!Next]_(Contract!vars)
<1> DEFINE w == [v \in Streams |-> Owed(v)]
           d == [v \in Streams |-> Down(v)]
           l == [v \in Streams |-> Life(v)]
<1>1. /\ w' = [w EXCEPT ![s] = Owed(s)'] /\ w[s] = Owed(s)
      /\ d' = [d EXCEPT ![s] = Down(s)'] /\ d[s] = Down(s)
      /\ l' = [l EXCEPT ![s] = Life(s)'] /\ l[s] = Life(s)
  BY DEF SameElsewhere
<1>2. /\ Owed(s)' = Owed(s) => w' = w
      /\ Down(s)' = Down(s) => d' = d
      /\ Life(s)' = Life(s) => l' = l
  BY DEF SameElsewhere
<1>3. CASE Owed(s)' = Owed(s) /\ Down(s)' = Down(s) /\ Life(s)' = Life(s)
  <2>1. w' = w /\ d' = d /\ l' = l
    BY <1>2, <1>3
  <2> QED BY <2>1 DEF Contract!vars, Owed, Down
<1>4. CASE /\ Down(s) = "none" /\ Life(s) \in {"open", "ending"} /\ Life(s)' = Life(s)
           /\ \/ Owed(s)' = Owed(s) + 1 /\ Down(s)' = Down(s)
              \/ Owed(s)' = Owed(s) /\ Down(s)' = "owed"
  <2>1. \/ w' = [w EXCEPT ![s] = @ + 1] /\ d' = d /\ l' = l
        \/ w' = w /\ d' = [d EXCEPT ![s] = "owed"] /\ l' = l
    BY <1>1, <1>2, <1>4
  <2>2. Contract!Write(s) \/ Contract!Shutdown(s)
    BY <1>1, <1>4, <2>1 DEF Contract!Write, Contract!Shutdown, Owed, Down
  <2> QED BY <2>2 DEF Contract!Next
<1>5. CASE /\ Owed(s) > 0 /\ Owed(s)' = Owed(s) - 1
           /\ Down(s)' = Down(s) /\ Life(s)' = Life(s)
  <2>1. w' = [w EXCEPT ![s] = @ - 1] /\ d' = d /\ l' = l
    BY <1>1, <1>2, <1>5
  <2>2. Contract!Written(s)
    BY <1>1, <1>5, <2>1 DEF Contract!Written, Owed, Down
  <2> QED BY <2>2 DEF Contract!Next, Contract!Answer
<1>6. CASE /\ Down(s) = "owed" /\ Owed(s) = 0 /\ Down(s)' = "done"
           /\ Owed(s)' = Owed(s) /\ Life(s)' = Life(s)
  <2>1. w' = w /\ d' = [d EXCEPT ![s] = "done"] /\ l' = l
    BY <1>1, <1>2, <1>6
  <2>2. Contract!ShutDown(s)
    BY <1>1, <1>6, <2>1 DEF Contract!ShutDown, Owed, Down
  <2> QED BY <2>2 DEF Contract!Next, Contract!Answer
<1>7. CASE /\ Owed(s)' = Owed(s) /\ Down(s)' = Down(s)
           /\ \/ Life(s) = "open" /\ Life(s)' = "ending"
              \/ Life(s) \in {"open", "ending"} /\ Life(s)' = "closing"
              \/ /\ Life(s) = "closing" /\ Life(s)' = "closed"
                 /\ Owed(s) = 0 /\ Down(s) # "owed"
  <2>1. w' = w /\ d' = d /\ l' = [l EXCEPT ![s] = Life(s)']
    BY <1>1, <1>2, <1>7
  <2>2. Contract!End(s) \/ Contract!Close(s) \/ Contract!Closed(s)
    BY <1>1, <1>7, <2>1
       DEF Contract!End, Contract!Close, Contract!Closed, Contract!Move, Owed, Down
  <2> QED BY <2>2 DEF Contract!Next, Contract!Answer
<1> QED BY <1>3, <1>4, <1>5, <1>6, <1>7 DEF Change

\* The thread goes from the loop or s to the loop or s.
Stays(s) == at' = at \/ {at.stream, at'.stream} \subseteq {NoStream, s}

LEMMA Elsewhere ==
  ASSUME IInv, NEW s \in Streams, NEW g, handle' = [handle EXCEPT ![s] = g], Stays(s)
  PROVE  /\ SameElsewhere(s) /\ handle'[s] = g
         /\ Owed(s)' = g.sending + g.sent
         /\ Down(s)' = IF at' = In("shutdown", s) THEN "done" ELSE g.shutdown
         /\ Life(s)' = IF "CLOSED" \in g.flags THEN "closed"
                       ELSE IF "CLOSING" \in g.flags THEN "closing"
                       ELSE IF at' = In("end", s) THEN "ending" ELSE "open"
<1>1. handle'[s] = g
  BY DEF IInv, TypeOK
<1>2. ASSUME NEW v \in Streams \ {s}
      PROVE  Owed(v)' = Owed(v) /\ Down(v)' = Down(v) /\ Life(v)' = Life(v)
  <2>1. handle'[v] = handle[v]
    BY DEF IInv, TypeOK
  <2>2. \A q \in Place : at' = In(q, v) <=> at = In(q, v)
    BY StreamsAssumption DEF Stays, In
  <2>3. "shutdown" \in Place /\ "end" \in Place
    BY DEF Place, Callback
  <2> QED BY <2>1, <2>2, <2>3 DEF Owed, Down, Life, InOwnEnd, Has
<1> QED BY <1>1, <1>2 DEF SameElsewhere, Owed, Down, Life, InOwnEnd, Has

\* A step that the contract does not see.
LEMMA Unseen ==
  ASSUME IInv, NEW s \in Streams, NEW h, h = handle[s],
         NEW g, handle' = [handle EXCEPT ![s] = g], Stays(s),
         g.sending + g.sent = h.sending + h.sent, g.shutdown = h.shutdown,
         \A f \in {"CLOSING", "CLOSED"} : f \in g.flags <=> f \in h.flags,
         at' = In("shutdown", s) <=> at = In("shutdown", s),
         at' = In("end", s) <=> at = In("end", s)
  PROVE  [Contract!Next]_(Contract!vars)
<1>1. SameElsewhere(s)
  BY Elsewhere
<1>2. Owed(s)' = Owed(s) /\ Down(s)' = Down(s)
  BY Elsewhere DEF Owed, Down
<1>3. Life(s)' = Life(s)
  BY Elsewhere DEF Life, InOwnEnd, Has
<1> QED BY <1>1, <1>2, <1>3, ChangeRefines DEF Change

LEMMA ReadingRefines ==
  ASSUME IInv, NEW s \in Streams, StartRead(s) \/ StopRead(s)
  PROVE  [Contract!Next]_(Contract!vars)
<1>1. PICK h \in HandleType : h = handle[s]
  BY Before
<1>2. at' = at /\ Stays(s)
  BY DEF StartRead, StopRead, Stays
<1>3. CASE StartRead(s)
  <2>1. PICK k \in HandleType :
          /\ k = [h EXCEPT !.flags = @ \union {"READING"}, !.active = @ + 1]
          /\ k.flags = h.flags \union {"READING"} /\ SameWrites(k, h)
    <3>1. h.flags \union {"READING"} \in SUBSET Flag /\ h.active + 1 \in Nat
      BY DEF HandleType, Flag
    <3>2. \A f \in SUBSET Flag, i \in Nat : [h EXCEPT !.flags = f, !.active = i] \in HandleType
      BY Retyped
    <3>3. [h EXCEPT !.flags = @ \union {"READING"}, !.active = @ + 1] \in HandleType
      BY <3>1, <3>2
    <3> QED BY <3>3 DEF HandleType, SameWrites
  <2>2. PICK g : handle' = [handle EXCEPT ![s] = g] /\ (g = k \/ g \in QueueRead(s, k))
    BY <1>1, <1>3, <2>1 DEF StartRead, Set
  <2>3. /\ g.flags = k.flags \/ g.flags = k.flags \union {"READ_PENDING"}
        /\ SameWrites(g, k)
    BY <2>2, QueueReadIs DEF SameWrites
  <2>4. \A f \in {"CLOSING", "CLOSED"} : f \in g.flags <=> f \in h.flags
    BY <2>1, <2>3
  <2>5. g.sending + g.sent = h.sending + h.sent /\ g.shutdown = h.shutdown
    BY <2>1, <2>3 DEF SameWrites
  <2> QED BY <1>1, <1>2, <2>2, <2>4, <2>5, Unseen
<1>4. CASE StopRead(s)
  <2>1. PICK g : g = ReadStop(h)
    OBVIOUS
  <2>2. /\ \A f \in {"CLOSING", "CLOSED"} : f \in g.flags <=> f \in h.flags
        /\ g.sending + g.sent = h.sending + h.sent /\ g.shutdown = h.shutdown
    BY <1>1, <2>1, ReadStopIs, Before DEF SameWrites
  <2>3. handle' = [handle EXCEPT ![s] = g]
    BY <1>1, <1>4, <2>1 DEF StopRead, Set
  <2> QED BY <1>1, <1>2, <2>2, <2>3, Unseen
<1> QED BY <1>3, <1>4

LEMMA WritingRefines ==
  ASSUME IInv, NEW s \in Streams, Write(s) \/ Shutdown(s)
  PROVE  [Contract!Next]_(Contract!vars)
<1>1. PICK h \in HandleType : h = handle[s]
  BY Before
<1>2. /\ at' = at /\ Stays(s) /\ "WRITABLE" \in h.flags
      /\ Shape(h, PlaceOf(s))
  BY <1>1, Before DEF Write, Shutdown, Stays, Has, Good
<1>3. h.shutdown = "none" /\ "CLOSING" \notin h.flags /\ "CLOSED" \notin h.flags
  BY <1>2 DEF Shape
<1>4. at # In("shutdown", s)
  BY <1>2, <1>3 DEF Shape, PlaceOf, In
<1>5. /\ Down(s) = "none" /\ Life(s) \in {"open", "ending"}
      /\ Owed(s) = h.sending + h.sent
  BY <1>1, <1>3, <1>4 DEF Down, Life, Owed, Has
<1>6. CASE Write(s)
  <2>1. PICK g : /\ handle' = [handle EXCEPT ![s] = g]
                 /\ g.sending + g.sent = h.sending + h.sent + 1
                 /\ g.flags = h.flags /\ g.shutdown = h.shutdown
    <3>1. PICK k : k = [h EXCEPT !.reqs = @ + 1, !.writes = @ + 1, !.active = @ + 1]
      OBVIOUS
    <3>2. /\ k.sending = h.sending /\ k.sent = h.sent /\ h.sending \in Nat /\ h.sent \in Nat
          /\ k.flags = h.flags /\ k.shutdown = h.shutdown
          /\ {"flags", "shutdown", "sending", "sent"} \subseteq DOMAIN k
      BY <3>1 DEF HandleType
    <3>3. PICK g : /\ handle' = [handle EXCEPT ![s] = g]
                   /\ g \in {[k EXCEPT !.sending = @ + 1], [k EXCEPT !.sent = @ + 1]}
      BY <1>1, <1>6, <3>1 DEF Write, Set
    <3>4. g.sending + g.sent = h.sending + h.sent + 1
      <4>1. \/ g.sending = k.sending + 1 /\ g.sent = k.sent
            \/ g.sending = k.sending /\ g.sent = k.sent + 1
        BY <3>2, <3>3
      <4> QED BY <3>2, <4>1
    <3>5. g.flags = h.flags /\ g.shutdown = h.shutdown
      BY <3>2, <3>3
    <3> QED BY <3>3, <3>4, <3>5
  <2>2. /\ SameElsewhere(s) /\ Owed(s)' = Owed(s) + 1 /\ Down(s)' = Down(s)
        /\ Life(s)' = Life(s)
    BY <1>1, <1>2, <1>5, <2>1, Elsewhere DEF Down, Life, InOwnEnd, Has
  <2> QED BY <1>5, <2>2, ChangeRefines DEF Change
<1>7. CASE Shutdown(s)
  <2>1. PICK g : /\ handle' = [handle EXCEPT ![s] = g]
                 /\ g.sending + g.sent = h.sending + h.sent
                 /\ \A f \in {"CLOSING", "CLOSED"} : f \in g.flags <=> f \in h.flags
                 /\ g.shutdown = "owed"
    <3>1. PICK k : k = [h EXCEPT !.flags = @ \ {"WRITABLE"}, !.shutdown = "owed",
                                !.reqs = @ + 1, !.active = @ + 1]
      OBVIOUS
    <3>2. /\ k.sending = h.sending /\ k.sent = h.sent /\ k.shutdown = "owed"
          /\ k.flags = h.flags \ {"WRITABLE"} /\ "flags" \in DOMAIN k
      BY <3>1 DEF HandleType
    <3>3. PICK g : g = [k EXCEPT !.flags = @ \union {"ENDGAME_QUEUED"}]
      OBVIOUS
    <3>4. handle' = [handle EXCEPT ![s] = g]
      BY <1>1, <1>7, <3>1, <3>3 DEF Shutdown, WantEndgame, Set
    <3>5. /\ g.sending = k.sending /\ g.sent = k.sent /\ g.shutdown = k.shutdown
          /\ g.flags = k.flags \union {"ENDGAME_QUEUED"}
      BY <3>2, <3>3
    <3> QED BY <3>2, <3>4, <3>5
  <2>2. SameElsewhere(s) /\ Owed(s)' = Owed(s) /\ Down(s)' = "owed"
    BY <1>2, <1>4, <1>5, <2>1, Elsewhere
  <2>3. Life(s)' = Life(s)
    BY <1>1, <1>2, <2>1, Elsewhere DEF Life, InOwnEnd, Has
  <2> QED BY <1>5, <2>2, <2>3, ChangeRefines DEF Change
<1> QED BY <1>6, <1>7

\* A close, by the program or at the end of stream_read_cb.
LEMMA Closes ==
  ASSUME IInv, NEW s \in Streams, NEW h \in HandleType, h = handle[s],
         NEW g, handle' = [handle EXCEPT ![s] = g], Stays(s),
         g.sending + g.sent = h.sending + h.sent, g.shutdown = h.shutdown,
         "CLOSING" \in g.flags, "CLOSED" \in g.flags <=> "CLOSED" \in h.flags,
         at' = In("shutdown", s) <=> at = In("shutdown", s)
  PROVE  [Contract!Next]_(Contract!vars)
<1>1. SameElsewhere(s)
  BY Elsewhere
<1>2. Owed(s)' = Owed(s) /\ Down(s)' = Down(s)
  BY Elsewhere DEF Owed, Down
<1>3. Life(s)' = IF "CLOSED" \in h.flags THEN "closed" ELSE "closing"
  BY Elsewhere
<1>4. "CLOSED" \in h.flags => "CLOSING" \in h.flags
  BY Before DEF Good, Shape
<1>5. Life(s)' = Life(s) \/ (Life(s) \in {"open", "ending"} /\ Life(s)' = "closing")
  BY <1>3, <1>4 DEF Life, Has
<1> QED BY <1>1, <1>2, <1>5, ChangeRefines DEF Change

LEMMA ClosingRefines ==
  ASSUME IInv, NEW s \in Streams, Close(s) \/ Destroy(s)
  PROVE  [Contract!Next]_(Contract!vars)
<1>1. PICK h \in HandleType : h = handle[s]
  BY Before
<1>2. at' = at /\ Stays(s)
  BY DEF Close, Destroy, Stays
<1>3. /\ "READING" \in h.flags => h.active > 0
      /\ "CLOSING" \in h.flags => {"READING", "READABLE", "WRITABLE"} \cap h.flags = {}
  BY <1>1, Before DEF Good, Shape
<1>4. PICK c \in HandleType :
        /\ c = UvClose(h) /\ "CLOSING" \in c.flags
        /\ "CLOSED" \in c.flags <=> "CLOSED" \in h.flags
        /\ SameWrites(c, h)
  BY <1>3, UvCloseIs
<1>5. PICK g : /\ handle' = [handle EXCEPT ![s] = g]
               /\ g \in {c, [c EXCEPT !.alive = FALSE]}
  BY <1>1, <1>4 DEF Close, Destroy, Set
<1>6. g.flags = c.flags /\ SameWrites(g, c)
  BY <1>5 DEF HandleType, SameWrites
<1>7. /\ g.sending + g.sent = h.sending + h.sent /\ g.shutdown = h.shutdown
      /\ "CLOSING" \in g.flags /\ ("CLOSED" \in g.flags <=> "CLOSED" \in h.flags)
  BY <1>4, <1>6 DEF SameWrites
<1> QED BY <1>1, <1>2, <1>5, <1>7, Closes

LEMMA OutsideRefines ==
  ASSUME IInv, NEW s \in Streams, Environment(s)
  PROVE  [Contract!Next]_(Contract!vars)
<1>1. PICK h \in HandleType : h = handle[s]
  BY Before
<1>2. at' = at /\ Stays(s)
  BY DEF Environment, Arrive, PeerLeaves, CompleteRead, CompleteWrite, Stays
<1>3. PICK g : /\ handle' = [handle EXCEPT ![s] = g] /\ g.flags = h.flags
               /\ g.sending + g.sent = h.sending + h.sent /\ g.shutdown = h.shutdown
  <2>1. CASE Arrive(s) \/ PeerLeaves(s)
    <3>1. handle' = [handle EXCEPT ![s] = h]
      BY <1>1, <2>1 DEF Arrive, PeerLeaves, IInv, TypeOK
    <3> QED BY <3>1
  <2>2. CASE CompleteRead(s) \/ CompleteWrite(s)
    <3>1. PICK b \in BOOLEAN : b = Broken(s)
      BY DEF Broken, Has
    <3>2. PICK g : /\ handle' = [handle EXCEPT ![s] = g]
                   /\ g \in {[h EXCEPT !.reads = @ - 1, !.readReady = @ + 1, !.failed = b],
                             [h EXCEPT !.sending = @ - 1, !.sent = @ + 1]}
      BY <1>1, <2>2, <3>1 DEF CompleteRead, CompleteWrite, Set
    <3>3. g.flags = h.flags /\ g.shutdown = h.shutdown
      BY <3>2 DEF HandleType
    <3>4. CASE g = [h EXCEPT !.reads = @ - 1, !.readReady = @ + 1, !.failed = b]
      BY <3>2, <3>3, <3>4 DEF HandleType
    <3>5. CASE g = [h EXCEPT !.sending = @ - 1, !.sent = @ + 1]
      <4>1. g.sending = h.sending - 1 /\ g.sent = h.sent + 1
        BY <3>5 DEF HandleType
      <4>2. g.sending + g.sent = h.sending + h.sent
        BY <4>1 DEF HandleType
      <4> QED BY <3>2, <3>3, <4>2
    <3> QED BY <3>2, <3>4, <3>5
  <2> QED BY <2>1, <2>2 DEF Environment
<1> QED BY <1>1, <1>2, <1>3, Unseen

\* The read request is processed, or a receive ends; the end callback may begin.
LEMMA Ends ==
  ASSUME IInv, NEW s \in Streams, NEW h \in HandleType, h = handle[s], "READING" \in h.flags,
         NEW g, handle' = [handle EXCEPT ![s] = g], Stays(s),
         g.sending + g.sent = h.sending + h.sent, g.shutdown = h.shutdown,
         \A f \in {"CLOSING", "CLOSED"} : f \in g.flags <=> f \in h.flags,
         at # In("end", s), at # In("shutdown", s), at' # In("shutdown", s)
  PROVE  [Contract!Next]_(Contract!vars)
<1>1. SameElsewhere(s)
  BY Elsewhere
<1>2. Owed(s)' = Owed(s) /\ Down(s)' = Down(s)
  BY Elsewhere DEF Owed, Down
<1>3. "CLOSED" \notin h.flags /\ "CLOSING" \notin h.flags
  BY Before DEF Good, Shape
<1>4. Life(s) = "open"
  BY <1>3 DEF Life, InOwnEnd, Has
<1>5. Life(s)' \in {"open", "ending"}
  BY <1>3, Elsewhere
<1> QED BY <1>1, <1>2, <1>4, <1>5, ChangeRefines DEF Change

LEMMA ReceivingRefines ==
  ASSUME IInv, NEW s \in Streams,
         \/ ProcessRead(s) \/ RecvStopped(s) \/ RecvData(s) \/ RecvNothing(s)
         \/ RecvFails(s) \/ DataReturn(s)
  PROVE  [Contract!Next]_(Contract!vars)
<1>1. PICK h \in HandleType : h = handle[s]
  BY Before
<1>2. handle = [handle EXCEPT ![s] = h]
  BY <1>1 DEF IInv, TypeOK
<1>3. at # In("end", s) /\ at # In("shutdown", s)
  BY StreamsAssumption
     DEF ProcessRead, RecvStopped, RecvData, RecvNothing, RecvFails, DataReturn, Loop, In
<1>4. CASE ProcessRead(s)
  <2>1. PICK k \in HandleType :
          /\ k = [h EXCEPT !.flags = @ \ {"READ_PENDING"}, !.readReady = @ - 1]
          /\ k.flags = h.flags \ {"READ_PENDING"} /\ k.active = h.active /\ SameWrites(k, h)
    <3>1. h.flags \ {"READ_PENDING"} \in SUBSET Flag /\ h.readReady - 1 \in Nat
      BY <1>1, <1>4 DEF ProcessRead, HandleType
    <3>2. \A f \in SUBSET Flag, i \in Nat : [h EXCEPT !.flags = f, !.readReady = i] \in HandleType
      BY Retyped
    <3>3. [h EXCEPT !.flags = @ \ {"READ_PENDING"}, !.readReady = @ - 1] \in HandleType
      BY <3>1, <3>2
    <3> QED BY <3>3 DEF HandleType, SameWrites
  <2>2. Stays(s) /\ at' # In("shutdown", s)
    BY <1>4 DEF ProcessRead, ToEnd, ToEndReading, Stays, In, Loop
  <2>3. CASE k.failed /\ "READING" \in k.flags
    <3>1. PICK g : g = ReadStop(k)
      OBVIOUS
    <3>2. g.flags = k.flags \ {"READING"} /\ SameWrites(g, k)
      BY <1>1, <2>1, <3>1, ReadStopIs, Before
    <3>3. handle' = [handle EXCEPT ![s] = g]
      BY <1>1, <1>4, <2>1, <2>3, <3>1 DEF ProcessRead, ToEnd, ToEndReading, Set, Has
    <3>4. /\ \A f \in {"CLOSING", "CLOSED"} : f \in g.flags <=> f \in h.flags
          /\ g.sending + g.sent = h.sending + h.sent /\ g.shutdown = h.shutdown
      BY <2>1, <3>2 DEF SameWrites
    <3>5. "READING" \in h.flags
      BY <2>1, <2>3
    <3> QED BY <1>1, <1>3, <2>2, <3>3, <3>4, <3>5, Ends
  <2>4. CASE ~ (k.failed /\ "READING" \in k.flags)
    <3>1. handle' = [handle EXCEPT ![s] = k] /\ at' \in {In("recv", s), In("done", s)}
      BY <1>1, <1>4, <2>1, <2>4 DEF ProcessRead, Set, Has
    <3>2. /\ \A f \in {"CLOSING", "CLOSED"} : f \in k.flags <=> f \in h.flags
          /\ k.sending + k.sent = h.sending + h.sent /\ k.shutdown = h.shutdown
      BY <2>1 DEF SameWrites
    <3>3. at' # In("end", s)
      BY <3>1 DEF In
    <3> QED BY <1>1, <1>3, <2>2, <3>1, <3>2, <3>3, Unseen
  <2> QED BY <2>3, <2>4
<1>5. CASE RecvStopped(s) \/ RecvData(s) \/ RecvNothing(s) \/ DataReturn(s)
  <2>1. PICK q \in {"recv", "done", "data", "full"} : at' = In(q, s)
    BY <1>5 DEF RecvStopped, RecvData, RecvNothing, DataReturn
  <2>2. at.stream = s /\ UNCHANGED handle
    BY <1>5 DEF RecvStopped, RecvData, RecvNothing, DataReturn, In
  <2>3. handle' = [handle EXCEPT ![s] = h]
    BY <1>2, <2>2
  <2>4. Stays(s) /\ at' # In("end", s) /\ at' # In("shutdown", s)
    BY <2>1, <2>2 DEF Stays, In
  <2> QED BY <1>1, <1>3, <2>3, <2>4, Unseen
<1>6. CASE RecvFails(s)
  <2>1. "READING" \in h.flags /\ Stays(s) /\ at' # In("shutdown", s)
    BY <1>1, <1>6 DEF RecvFails, ToEnd, ToEndReading, Has, Stays, In
  <2>2. PICK k : k \in {h, [h EXCEPT !.flags = @ \ {"READABLE"}]}
                 /\ handle' \in {[handle EXCEPT ![s] = k], [handle EXCEPT ![s] = ReadStop(k)]}
    BY <1>1, <1>6 DEF RecvFails, ToEnd, ToEndReading, Set
  <2>3. /\ k \in HandleType /\ k.flags \in {h.flags, h.flags \ {"READABLE"}}
        /\ k.active = h.active /\ SameWrites(k, h)
    BY <2>2 DEF HandleType, Flag, SameWrites
  <2>4. PICK g : handle' = [handle EXCEPT ![s] = g] /\ g \in {k, ReadStop(k)}
    BY <2>2
  <2>5. g.flags \in {k.flags, k.flags \ {"READING"}} /\ SameWrites(g, k)
    BY <1>1, <2>1, <2>3, <2>4, ReadStopIs, Before DEF SameWrites
  <2>6. /\ \A f \in {"CLOSING", "CLOSED"} : f \in g.flags <=> f \in h.flags
        /\ g.sending + g.sent = h.sending + h.sent /\ g.shutdown = h.shutdown
    BY <2>3, <2>5 DEF SameWrites
  <2> QED BY <1>1, <1>3, <2>1, <2>4, <2>6, Ends
<1> QED BY <1>4, <1>5, <1>6

LEMMA ReturningRefines ==
  ASSUME IInv, NEW s \in Streams,
         \/ EndReturn(s) \/ ReadDone(s) \/ WriteReturn(s)
         \/ ShutdownReturn(s) \/ CloseReturn(s)
  PROVE  [Contract!Next]_(Contract!vars)
<1>1. PICK h \in HandleType : h = handle[s]
  BY Before
<1>2. Stays(s) /\ at' # In("end", s) /\ at' # In("shutdown", s)
  BY StreamsAssumption
     DEF EndReturn, ReadDone, WriteReturn, ShutdownReturn, CloseReturn, Stays, In, Loop
<1>3. CASE EndReturn(s)
  <2>1. at # In("shutdown", s)
    BY <1>3 DEF EndReturn, In
  <2>2. /\ "READING" \in h.flags => h.active > 0
        /\ "CLOSING" \in h.flags => {"READING", "READABLE", "WRITABLE"} \cap h.flags = {}
    BY <1>1, Before DEF Good, Shape
  <2>3. PICK r \in HandleType :
          /\ r = ReadStop(h) /\ r.flags = h.flags \ {"READING"} /\ SameWrites(r, h)
    BY <2>2, ReadStopIs
  <2>4. PICK g : g = UvClose(r) /\ handle' = [handle EXCEPT ![s] = g]
    BY <1>1, <1>3, <2>3 DEF EndReturn, Set
  <2>5. /\ "CLOSING" \in g.flags /\ ("CLOSED" \in g.flags <=> "CLOSED" \in r.flags)
        /\ SameWrites(g, r)
    <3>1. /\ "READING" \in r.flags => r.active > 0
          /\ "CLOSING" \in r.flags => {"READING", "READABLE", "WRITABLE"} \cap r.flags = {}
      BY <2>2, <2>3
    <3> QED BY <2>4, <3>1, UvCloseIs
  <2>6. /\ g.sending + g.sent = h.sending + h.sent /\ g.shutdown = h.shutdown
        /\ "CLOSED" \in g.flags <=> "CLOSED" \in h.flags
    BY <2>3, <2>5 DEF SameWrites
  <2> QED BY <1>1, <1>2, <2>1, <2>4, <2>5, <2>6, Closes
<1>4. CASE ReadDone(s)
  <2>1. PICK k \in HandleType : /\ handle' = [handle EXCEPT ![s] = DecreaseReqs(k)]
                                /\ k = h \/ k \in QueueRead(s, h)
    BY <1>1, <1>4, QueueReadIs DEF ReadDone, Set
  <2>2. /\ k.flags = h.flags \/ k.flags = h.flags \union {"READ_PENDING"}
        /\ SameWrites(k, h) /\ k.reqs > 0
    <3>1. h.reqs > 0
      BY <1>1, <1>4, Before DEF ReadDone, PlaceOf, In
    <3> QED BY <2>1, <3>1, QueueReadIs DEF SameWrites, HandleType
  <2>3. PICK g : /\ g = DecreaseReqs(k) /\ SameWrites(g, k)
                 /\ g.flags = k.flags \/ g.flags = k.flags \union {"ENDGAME_QUEUED"}
    BY <2>2, DecreaseReqsIs
  <2>4. \A f \in {"CLOSING", "CLOSED"} : f \in g.flags <=> f \in h.flags
    BY <2>2, <2>3
  <2>5. g.sending + g.sent = h.sending + h.sent /\ g.shutdown = h.shutdown
    BY <2>2, <2>3 DEF SameWrites
  <2>6. at # In("end", s) /\ at # In("shutdown", s)
    BY <1>4 DEF ReadDone, In
  <2> QED BY <1>1, <1>2, <2>1, <2>3, <2>4, <2>5, <2>6, Unseen
<1>5. CASE WriteReturn(s)
  <2>1. PlaceOf(s) = "write" /\ at # In("end", s) /\ at # In("shutdown", s)
    BY <1>5 DEF WriteReturn, PlaceOf, In
  <2>2. Counts(h, "write") /\ h.reqs > 0
    BY <1>1, <2>1, Before DEF Good
  <2>3. PICK less \in HandleType :
          /\ less = [h EXCEPT !.writes = @ - 1] /\ less.flags = h.flags /\ less.reqs = h.reqs
          /\ less.sending = h.sending /\ less.sent = h.sent /\ less.shutdown = h.shutdown
    <3>1. h.writes - 1 \in Nat
      BY <2>2 DEF Counts, HandleType, Bit
    <3>2. PICK less : less = [h EXCEPT !.writes = @ - 1]
      OBVIOUS
    <3>3. /\ less \in HandleType /\ less.flags = h.flags /\ less.reqs = h.reqs
          /\ less.sending = h.sending /\ less.sent = h.sent /\ less.shutdown = h.shutdown
      BY <3>1, <3>2 DEF HandleType
    <3> QED BY <3>2, <3>3
  <2>4. PICK k \in HandleType :
          /\ k = IF less.shutdown = "owed" /\ less.writes = 0 THEN WantEndgame(less) ELSE less
          /\ k.flags = less.flags \/ k.flags = less.flags \union {"ENDGAME_QUEUED"}
          /\ k.reqs = less.reqs /\ SameWrites(k, less)
    <3>1. PICK k : k = IF less.shutdown = "owed" /\ less.writes = 0
                         THEN WantEndgame(less) ELSE less
      OBVIOUS
    <3>2. /\ k \in HandleType
          /\ k.flags = less.flags \/ k.flags = less.flags \union {"ENDGAME_QUEUED"}
          /\ k.reqs = less.reqs /\ SameWrites(k, less)
      BY <3>1 DEF WantEndgame, HandleType, Flag, SameWrites
    <3> QED BY <3>1, <3>2
  <2>5. PICK g : /\ g = DecreaseReqs(k) /\ SameWrites(g, k)
                 /\ g.flags = k.flags \/ g.flags = k.flags \union {"ENDGAME_QUEUED"}
    <3>1. k \in HandleType /\ k.reqs > 0
      BY <2>2, <2>3, <2>4
    <3> QED BY <3>1, DecreaseReqsIs
  <2>6. handle' = [handle EXCEPT ![s] = g]
    BY <1>1, <1>5, <2>3, <2>4, <2>5 DEF WriteReturn, Set
  <2>7. \A f \in {"CLOSING", "CLOSED"} : f \in g.flags <=> f \in h.flags
    BY <2>3, <2>4, <2>5
  <2>8. g.sending + g.sent = h.sending + h.sent /\ g.shutdown = h.shutdown
    BY <2>3, <2>4, <2>5 DEF SameWrites
  <2> QED BY <1>1, <1>2, <2>1, <2>6, <2>7, <2>8, Unseen
<1>6. CASE ShutdownReturn(s)
  <2>1. at = In("shutdown", s) /\ PlaceOf(s) = "shutdown" /\ at # In("end", s)
    BY <1>6 DEF ShutdownReturn, PlaceOf, In
  <2>2. PICK k \in HandleType : /\ k = [h EXCEPT !.shutdown = "done"] /\ k.flags = h.flags
                                /\ k.sending = h.sending /\ k.sent = h.sent
                                /\ k.shutdown = "done" /\ k.reqs = h.reqs
    <3>1. PICK k : k = [h EXCEPT !.shutdown = "done"]
      OBVIOUS
    <3>2. /\ k \in HandleType /\ k.flags = h.flags /\ k.sending = h.sending
          /\ k.sent = h.sent /\ k.shutdown = "done" /\ k.reqs = h.reqs
      BY <3>1 DEF HandleType
    <3> QED BY <3>1, <3>2
  <2>3. k.reqs > 0
    <3>1. Counts(h, "shutdown") /\ h.shutdown = "owed"
      BY <1>1, <2>1, Before DEF Good, Shape
    <3> QED BY <2>2, <3>1 DEF Counts, Bit, HandleType
  <2>4. PICK g : /\ g = DecreaseReqs(k) /\ SameWrites(g, k)
                 /\ g.flags = k.flags \/ g.flags = k.flags \union {"ENDGAME_QUEUED"}
    BY <2>3, DecreaseReqsIs
  <2>5. handle' = [handle EXCEPT ![s] = g]
    BY <1>1, <1>6, <2>2, <2>4 DEF ShutdownReturn, Set
  <2>6. SameElsewhere(s) /\ Owed(s)' = Owed(s) /\ Down(s)' = Down(s)
    <3>1. SameElsewhere(s) /\ Owed(s)' = g.sending + g.sent /\ Down(s)' = g.shutdown
      BY <1>2, <2>5, Elsewhere
    <3>2. g.sending + g.sent = h.sending + h.sent /\ g.shutdown = "done"
      BY <2>2, <2>4 DEF SameWrites
    <3>3. Owed(s) = h.sending + h.sent /\ Down(s) = "done"
      BY <1>1, <2>1 DEF Owed, Down
    <3> QED BY <3>1, <3>2, <3>3
  <2>7. \A f \in {"CLOSING", "CLOSED"} : f \in g.flags <=> f \in h.flags
    BY <2>2, <2>4
  <2>8. Life(s)' = Life(s)
    BY <1>1, <1>2, <2>1, <2>5, <2>7, Elsewhere DEF Life, InOwnEnd, Has
  <2> QED BY <2>6, <2>8, ChangeRefines DEF Change
<1>7. CASE CloseReturn(s)
  <2>1. handle' = [handle EXCEPT ![s] = h] /\ at # In("end", s) /\ at # In("shutdown", s)
    BY <1>1, <1>7 DEF CloseReturn, In, IInv, TypeOK
  <2> QED BY <1>1, <1>2, <2>1, Unseen
<1> QED BY <1>3, <1>4, <1>5, <1>6, <1>7

LEMMA AnsweringRefines ==
  ASSUME IInv, NEW s \in Streams, ProcessWrite(s) \/ Endgame(s)
  PROVE  [Contract!Next]_(Contract!vars)
<1>1. PICK h \in HandleType : h = handle[s]
  BY Before
<1>2. /\ at = Loop /\ PlaceOf(s) = "loop" /\ Stays(s)
      /\ at # In("end", s) /\ at # In("shutdown", s)
  BY StreamsAssumption DEF ProcessWrite, Endgame, PlaceOf, Stays, In, Loop
<1>3. Counts(h, "loop")
  BY <1>1, <1>2, Before DEF Good
<1>4. /\ Owed(s) = h.sending + h.sent /\ Down(s) = h.shutdown
      /\ Life(s) = IF "CLOSED" \in h.flags THEN "closed"
                   ELSE IF "CLOSING" \in h.flags THEN "closing" ELSE "open"
  BY <1>1, <1>2 DEF Owed, Down, Life, InOwnEnd, Has
<1>5. CASE ProcessWrite(s)
  <2>1. PICK g : g = [h EXCEPT !.sent = @ - 1, !.active = @ - 1]
    OBVIOUS
  <2>2. handle' = [handle EXCEPT ![s] = g] /\ at' = In("write", s) /\ h.sent > 0
    BY <1>1, <1>5, <2>1 DEF ProcessWrite, Set
  <2>3. /\ g.flags = h.flags /\ g.sending = h.sending /\ g.sent = h.sent - 1
        /\ g.shutdown = h.shutdown /\ h.sending \in Nat /\ h.sent \in Nat
    BY <2>1 DEF HandleType
  <2>4. at' # In("shutdown", s) /\ at' # In("end", s)
    BY <2>2 DEF In
  <2>5. SameElsewhere(s) /\ Down(s)' = Down(s) /\ Life(s)' = Life(s)
    BY <1>2, <1>4, <2>2, <2>3, <2>4, Elsewhere
  <2>6. Owed(s)' = g.sending + g.sent
    BY <1>2, <2>2, Elsewhere
  <2>7. Owed(s) > 0 /\ Owed(s)' = Owed(s) - 1
    BY <1>4, <2>2, <2>3, <2>6
  <2> QED BY <2>5, <2>7, ChangeRefines DEF Change
<1>6. CASE Endgame(s)
  <2>1. PICK k : k = [h EXCEPT !.flags = @ \ {"ENDGAME_QUEUED"}]
    OBVIOUS
  <2>2. /\ k \in HandleType /\ k.flags = h.flags \ {"ENDGAME_QUEUED"} /\ k.writes = h.writes
        /\ k.reqs = h.reqs /\ k.sending = h.sending /\ k.sent = h.sent
        /\ k.shutdown = h.shutdown
    BY <2>1 DEF HandleType
  <2>3. CASE ShutdownDue(k)
    <3>1. PICK g : g = [k EXCEPT !.active = @ - 1]
      OBVIOUS
    <3>2. handle' = [handle EXCEPT ![s] = g] /\ at' = In("shutdown", s)
      BY <1>1, <1>6, <2>1, <2>3, <3>1 DEF Endgame, Set
    <3>3. /\ g.flags = k.flags /\ g.sending = k.sending /\ g.sent = k.sent
          /\ g.shutdown = k.shutdown
      BY <2>2, <3>1 DEF HandleType
    <3>4. h.shutdown = "owed" /\ h.sending + h.sent = 0
      BY <1>3, <2>2, <2>3 DEF ShutdownDue, Counts, HandleType, Bit
    <3>5. at' # In("end", s)
      BY <3>2 DEF In
    <3>6. SameElsewhere(s) /\ Owed(s)' = Owed(s) /\ Down(s)' = "done"
      <4>1. SameElsewhere(s) /\ Owed(s)' = g.sending + g.sent /\ Down(s)' = "done"
        BY <1>2, <3>2, Elsewhere
      <4> QED BY <1>4, <2>2, <3>3, <4>1
    <3>7. Life(s)' = Life(s)
      <4>1. Life(s)' = IF "CLOSED" \in g.flags THEN "closed"
                      ELSE IF "CLOSING" \in g.flags THEN "closing" ELSE "open"
        BY <1>2, <3>2, <3>5, Elsewhere
      <4> QED BY <1>4, <2>2, <3>3, <4>1
    <3> QED BY <1>4, <3>4, <3>6, <3>7, ChangeRefines DEF Change
  <2>4. CASE ~ ShutdownDue(k) /\ "CLOSING" \in k.flags /\ k.reqs = 0
    <3>1. PICK g : g = [k EXCEPT !.flags = @ \union {"CLOSED"}]
      OBVIOUS
    <3>2. handle' = [handle EXCEPT ![s] = g] /\ at' \in {In("close", s), Loop}
      BY <1>1, <1>6, <2>1, <2>4, <3>1 DEF Endgame, Set, Has
    <3>3. /\ g.flags = k.flags \union {"CLOSED"} /\ g.sending = k.sending /\ g.sent = k.sent
          /\ g.shutdown = k.shutdown
      BY <2>2, <3>1 DEF HandleType
    <3>4. h.shutdown # "owed" /\ h.sending + h.sent = 0 /\ "CLOSING" \in h.flags
      <4>1. /\ h.writes = h.sending + h.sent + 0 /\ h.reqs = 0
            /\ h.reqs = h.reads + h.readReady + h.writes + Bit(h.shutdown = "owed") + 0
        BY <1>3, <2>2, <2>4 DEF Counts, Bit
      <4>2. /\ h.reads \in Nat /\ h.readReady \in Nat /\ h.writes \in Nat
            /\ h.sending \in Nat /\ h.sent \in Nat
        BY DEF HandleType
      <4>3. PICK b \in Nat : b = Bit(h.shutdown = "owed")
        BY DEF Bit
      <4>4. \A i, j, m, n \in Nat : i + j + m + n + 0 = 0 => m = 0 /\ n = 0
        OBVIOUS
      <4>5. h.writes = 0 /\ b = 0
        BY <4>1, <4>2, <4>3, <4>4
      <4>6. h.sending + h.sent = 0
        BY <4>1, <4>2, <4>5
      <4> QED BY <2>2, <2>4, <4>3, <4>5, <4>6 DEF Bit
    <3>5. at' # In("shutdown", s)
      BY <3>2, StreamsAssumption DEF In, Loop
    <3>6. /\ SameElsewhere(s) /\ Owed(s)' = Owed(s) /\ Down(s)' = Down(s)
          /\ Life(s)' = "closed"
      <4>1. /\ SameElsewhere(s) /\ Owed(s)' = g.sending + g.sent /\ Down(s)' = g.shutdown
            /\ Life(s)' = IF "CLOSED" \in g.flags THEN "closed"
                          ELSE IF "CLOSING" \in g.flags THEN "closing"
                          ELSE IF at' = In("end", s) THEN "ending" ELSE "open"
        BY <1>2, <3>2, <3>5, Elsewhere
      <4> QED BY <1>4, <2>2, <3>3, <4>1
    <3>7. Life(s) \in {"closed", "closing"}
      BY <1>4, <3>4
    <3> QED BY <1>4, <3>4, <3>6, <3>7, ChangeRefines DEF Change
  <2>5. CASE ~ ShutdownDue(k) /\ ~ ("CLOSING" \in k.flags /\ k.reqs = 0)
    <3>1. handle' = [handle EXCEPT ![s] = k] /\ at' = at
      BY <1>1, <1>6, <2>1, <2>5 DEF Endgame, Set, Has
    <3>2. /\ \A f \in {"CLOSING", "CLOSED"} : f \in k.flags <=> f \in h.flags
          /\ k.sending + k.sent = h.sending + h.sent
      BY <2>2
    <3> QED BY <1>1, <1>2, <2>2, <3>1, <3>2, Unseen
  <2> QED BY <2>3, <2>4, <2>5
<1> QED BY <1>5, <1>6

\* Every connection lives as StreamContract has it, but for its fairness: the
\* shutdown's callback comes after those of the writes, the end of the data is
\* told once, and the close comes when nothing more is owed.
THEOREM Refinement == Spec => Contract!Spec
<1>1. Init => Contract!Init
  BY StreamsAssumption DEF Init, Contract!Init, Life, InOwnEnd, Has, In, Loop
<1>2. IInv /\ [Next]_vars => [Contract!Next]_(Contract!vars)
  <2> SUFFICES ASSUME IInv, [Next]_vars PROVE [Contract!Next]_(Contract!vars)
    OBVIOUS
  <2>1. ASSUME NEW s \in Streams, User(s) PROVE [Contract!Next]_(Contract!vars)
    BY <2>1, ReadingRefines, WritingRefines, ClosingRefines DEF User
  <2>2. ASSUME NEW s \in Streams, Environment(s) PROVE [Contract!Next]_(Contract!vars)
    BY <2>2, OutsideRefines
  <2>3. ASSUME NEW s \in Streams, Running(s) PROVE [Contract!Next]_(Contract!vars)
    BY <2>3, ReceivingRefines, ReturningRefines DEF Running
  <2>4. ASSUME NEW s \in Streams, ProcessRead(s) \/ ProcessWrite(s) \/ Endgame(s)
        PROVE  [Contract!Next]_(Contract!vars)
    BY <2>4, ReceivingRefines, AnsweringRefines
  <2>5. CASE UNCHANGED vars
    BY <2>5 DEF vars, Contract!vars, Life, InOwnEnd, Has
  <2> QED BY <2>1, <2>2, <2>3, <2>4, <2>5 DEF Next, Finished
<1> QED BY <1>1, <1>2, Invariant, PTL DEF Spec, Contract!Spec

-----------------------------------------------------------------------------
(* A stream that reads is never left without its read request.             *)

Held == {"recv", "done", "data", "full", "end"}
InHand(s) == at.stream = s /\ at.place \in Held

\* The read request is out, or the thread is at it and will see to it at done.
Armed(h, held) ==
  /\ "READ_PENDING" \in h.flags => h.reads + h.readReady > 0
  /\ "READING" \in h.flags => h.reads + h.readReady > 0 \/ held

\* Data that comes to a reading stream will be noticed: its read request is in
\* the kernel, completed, or being processed, and uv_read_start and the end of
\* uv_process_tcp_read_req leave it alone only when it is.
ReadingIsArmed == \A s \in Streams : Armed(handle[s], InHand(s))

\* A step changes one stream, and takes the thread to it or from it.
LEMMA ArmedFrame ==
  ASSUME IInv, ReadingIsArmed, NEW s \in Streams, NEW g,
         handle' = [handle EXCEPT ![s] = g],
         at' = at \/ at = Loop \/ at.stream = s,
         Armed(g, InHand(s)')
  PROVE  ReadingIsArmed'
<1>1. handle'[s] = g /\ \A v \in Streams : v # s => handle'[v] = handle[v]
  BY DEF IInv, TypeOK
<1>2. \A v \in Streams : v # s /\ InHand(v) => InHand(v)'
  BY DEF InHand, Held, Loop
<1>3. ASSUME NEW v \in Streams, v # s PROVE Armed(handle[v], InHand(v))'
  <2>1. Armed(handle[v], InHand(v))
    BY DEF ReadingIsArmed
  <2> QED BY <1>1, <1>2, <1>3, <2>1 DEF Armed
<1>4. Armed(handle[s], InHand(s))'
  BY <1>1
<1> QED BY <1>3, <1>4 DEF ReadingIsArmed

\* A step that leaves the reading of the stream as it is, or ends it.
LEMMA ArmedKept ==
  ASSUME IInv, ReadingIsArmed, NEW s \in Streams, NEW h, h = handle[s], NEW g,
         handle' = [handle EXCEPT ![s] = g],
         at' = at \/ at = Loop \/ at.stream = s,
         "READING" \in g.flags => "READING" \in h.flags,
         "READ_PENDING" \in g.flags => "READ_PENDING" \in h.flags,
         SameReads(g, h),
         "READING" \in g.flags /\ InHand(s) => InHand(s)'
  PROVE  ReadingIsArmed'
<1>1. Armed(h, InHand(s))
  BY DEF ReadingIsArmed
<1>2. Armed(g, InHand(s)')
  BY <1>1 DEF Armed, SameReads
<1> QED BY <1>2, ArmedFrame

LEMMA ArmedUser ==
  ASSUME IInv, ReadingIsArmed, NEW s \in Streams, User(s)
  PROVE  ReadingIsArmed'
<1>1. PICK h \in HandleType : h = handle[s]
  BY Before
<1>2. at' = at /\ (InHand(s)' <=> InHand(s))
  <2>1. at' = at
    BY DEF User, StartRead, StopRead, Write, Shutdown, Close, Destroy
  <2> QED BY <2>1 DEF InHand
<1>3. Armed(h, InHand(s))
  BY <1>1 DEF ReadingIsArmed
<1>4. "READING" \in h.flags => h.active > 0
  BY <1>1, Before
<1>5. CASE StartRead(s)
  <2>1. PICK k : k = [h EXCEPT !.flags = @ \union {"READING"}, !.active = @ + 1]
    OBVIOUS
  <2>2. h.flags \union {"READING"} \in SUBSET Flag /\ h.active + 1 \in Nat
    BY DEF HandleType, Flag
  <2>3. k \in HandleType
    BY <2>1, <2>2, Retyped
  <2>4. k.flags = h.flags \union {"READING"} /\ SameReads(k, h)
    BY <2>1 DEF HandleType, SameReads
  <2>5. PICK g : /\ handle' = [handle EXCEPT ![s] = g]
                 /\ IF "READ_PENDING" \in k.flags THEN g = k ELSE g \in QueueRead(s, k)
    BY <1>1, <1>5, <2>1 DEF StartRead, Has, Set
  <2>6. g.reads + g.readReady > 0
    <3>1. CASE "READ_PENDING" \in k.flags
      BY <1>3, <2>4, <2>5, <3>1 DEF Armed, SameReads
    <3>2. CASE "READ_PENDING" \notin k.flags
      <4>1. g.reads + g.readReady = k.reads + k.readReady + 1
        BY <2>3, <2>5, <3>2, QueueReadIs
      <4> QED BY <2>3, <4>1 DEF HandleType
    <3> QED BY <3>1, <3>2
  <2>7. Armed(g, InHand(s)')
    BY <2>6 DEF Armed
  <2> QED BY <1>2, <2>5, <2>7, ArmedFrame
<1>6. CASE StopRead(s)
  <2>1. PICK g : g = ReadStop(h) /\ g.flags = h.flags \ {"READING"} /\ SameReads(g, h)
    BY <1>4, ReadStopIs
  <2>2. handle' = [handle EXCEPT ![s] = g]
    BY <1>1, <1>6, <2>1 DEF StopRead, Set
  <2> QED BY <1>1, <1>2, <2>1, <2>2, ArmedKept
<1>7. CASE Write(s)
  <2>1. PICK g : /\ handle' = [handle EXCEPT ![s] = g]
                 /\ LET w == [h EXCEPT !.reqs = @ + 1, !.writes = @ + 1, !.active = @ + 1] IN
                    \/ g = [w EXCEPT !.sending = @ + 1]
                    \/ g = [w EXCEPT !.sent = @ + 1]
    BY <1>1, <1>7 DEF Write, Set
  <2>2. g.flags = h.flags /\ SameReads(g, h)
    BY <2>1 DEF HandleType, SameReads
  <2> QED BY <1>1, <1>2, <2>1, <2>2, ArmedKept
<1>8. CASE Shutdown(s)
  <2>1. PICK g : /\ handle' = [handle EXCEPT ![s] = g]
                 /\ g = WantEndgame([h EXCEPT !.flags = @ \ {"WRITABLE"}, !.shutdown = "owed",
                                              !.reqs = @ + 1, !.active = @ + 1])
    BY <1>1, <1>8 DEF Shutdown, Set
  <2>2. g.flags = (h.flags \ {"WRITABLE"}) \union {"ENDGAME_QUEUED"} /\ SameReads(g, h)
    BY <2>1 DEF HandleType, WantEndgame, SameReads
  <2> QED BY <1>1, <1>2, <2>1, <2>2, ArmedKept
<1>9. CASE Close(s) \/ Destroy(s)
  <2>1. "CLOSING" \in h.flags => {"READING", "READABLE", "WRITABLE"} \cap h.flags = {}
    BY <1>1, Before DEF Good, Shape
  <2>2. PICK c \in HandleType :
          /\ c = UvClose(h) /\ {"READING", "READABLE", "WRITABLE"} \cap c.flags = {}
          /\ "READ_PENDING" \in c.flags => "READ_PENDING" \in h.flags
          /\ SameReads(c, h)
    BY <1>4, <2>1, UvCloseIs
  <2>3. PICK g : /\ handle' = [handle EXCEPT ![s] = g]
                 /\ g \in {c, [c EXCEPT !.alive = FALSE]}
    BY <1>1, <1>9, <2>2 DEF Close, Destroy, Set
  <2>4. g.flags = c.flags /\ SameReads(g, h)
    BY <2>2, <2>3 DEF HandleType, SameReads
  <2> QED BY <1>1, <1>2, <2>2, <2>3, <2>4, ArmedKept
<1> QED BY <1>5, <1>6, <1>7, <1>8, <1>9 DEF User

LEMMA ArmedEnvironment ==
  ASSUME IInv, ReadingIsArmed, NEW s \in Streams, Environment(s)
  PROVE  ReadingIsArmed'
<1>1. PICK h \in HandleType : h = handle[s]
  BY Before
<1>2. at' = at /\ (InHand(s)' <=> InHand(s))
  <2>1. at' = at
    BY DEF Environment, Arrive, PeerLeaves, CompleteRead, CompleteWrite
  <2> QED BY <2>1 DEF InHand
<1>3. CASE Arrive(s) \/ PeerLeaves(s)
  <2>1. UNCHANGED <<handle, at>>
    BY <1>3 DEF Arrive, PeerLeaves
  <2> QED BY <2>1 DEF ReadingIsArmed, Armed, InHand
<1>4. CASE CompleteRead(s)
  <2>1. PICK g : /\ handle' = [handle EXCEPT ![s] = g]
                 /\ g = [h EXCEPT !.reads = @ - 1, !.readReady = @ + 1, !.failed = Broken(s)]
    BY <1>1, <1>4 DEF CompleteRead, Set
  <2>2. g.flags = h.flags /\ g.reads = h.reads - 1 /\ g.readReady = h.readReady + 1
    BY <2>1 DEF HandleType
  <2>3. g.reads + g.readReady = h.reads + h.readReady
    BY <2>2 DEF HandleType
  <2>4. Armed(g, InHand(s)')
    BY <1>1, <1>2, <2>2, <2>3 DEF ReadingIsArmed, Armed
  <2> QED BY <1>2, <2>1, <2>4, ArmedFrame
<1>5. CASE CompleteWrite(s)
  <2>1. PICK g : /\ handle' = [handle EXCEPT ![s] = g]
                 /\ g = [h EXCEPT !.sending = @ - 1, !.sent = @ + 1]
    BY <1>1, <1>5 DEF CompleteWrite, Set
  <2>2. g.flags = h.flags /\ SameReads(g, h)
    BY <2>1 DEF HandleType, SameReads
  <2> QED BY <1>1, <1>2, <2>1, <2>2, ArmedKept
<1> QED BY <1>3, <1>4, <1>5 DEF Environment

\* A read that fails to go on ends the reading, or hands the stream to the
\* program, which may start it again.
LEMMA ArmedRead ==
  ASSUME IInv, ReadingIsArmed, NEW s \in Streams,
         ProcessRead(s) \/ RecvStopped(s) \/ RecvData(s) \/ RecvNothing(s) \/ RecvFails(s)
           \/ DataReturn(s)
  PROVE  ReadingIsArmed'
<1>1. PICK h \in HandleType : h = handle[s]
  BY Before
<1>2. /\ at = Loop \/ at.stream = s
      /\ InHand(s)'
  BY DEF ProcessRead, RecvStopped, RecvData, RecvNothing, RecvFails, DataReturn, ToEnd,
         ToEndReading, In, InHand, Held
<1>3. "READING" \in h.flags => h.active > 0
  BY <1>1, Before
<1>4. CASE ProcessRead(s)
  <2>1. PICK k : k = [h EXCEPT !.flags = @ \ {"READ_PENDING"}, !.readReady = @ - 1]
    OBVIOUS
  <2>2. k.flags = h.flags \ {"READ_PENDING"}
    BY <2>1 DEF HandleType
  <2>3. h.flags \ {"READ_PENDING"} \in SUBSET Flag /\ h.readReady - 1 \in Nat
    BY <1>1, <1>4 DEF ProcessRead, HandleType
  <2>4. k \in HandleType /\ k.active = h.active
    <3>1. \A f \in SUBSET Flag, i \in Nat : [h EXCEPT !.flags = f, !.readReady = i] \in HandleType
      BY Retyped
    <3>2. k \in HandleType
      BY <2>1, <2>3, <3>1
    <3> QED BY <2>1, <3>2 DEF HandleType
  <2>5. PICK g : handle' = [handle EXCEPT ![s] = g] /\ g \in {k, ReadStop(k)}
    BY <1>1, <1>4, <2>1 DEF ProcessRead, ToEnd, ToEndReading, Set
  <2>6. ReadStop(k).flags = k.flags \ {"READING"}
    BY <1>3, <2>2, <2>4, ReadStopIs
  <2>7. "READ_PENDING" \notin g.flags
    BY <2>2, <2>5, <2>6
  <2>8. Armed(g, InHand(s)')
    BY <1>2, <2>7 DEF Armed
  <2> QED BY <1>2, <2>5, <2>8, ArmedFrame
<1>5. CASE RecvStopped(s) \/ RecvData(s) \/ RecvNothing(s) \/ DataReturn(s)
  <2>1. handle' = handle
    BY <1>5 DEF RecvStopped, RecvData, RecvNothing, DataReturn
  <2>2. handle' = [handle EXCEPT ![s] = h]
    BY <1>1, <2>1 DEF IInv, TypeOK
  <2> QED BY <1>1, <1>2, <2>2, ArmedKept DEF SameReads
<1>6. CASE RecvFails(s)
  <2>1. PICK k \in {h, [h EXCEPT !.flags = @ \ {"READABLE"}]} :
          \E g \in {k, ReadStop(k)} : handle' = [handle EXCEPT ![s] = g]
    BY <1>1, <1>6 DEF RecvFails, ToEnd, ToEndReading, Set
  <2>2. h.flags \ {"READABLE"} \in SUBSET Flag
    BY DEF HandleType
  <2>3. /\ k \in HandleType /\ k.flags \in {h.flags, h.flags \ {"READABLE"}}
        /\ SameReads(k, h) /\ k.active = h.active
    BY <2>1, <2>2 DEF HandleType, SameReads
  <2>4. ReadStop(k).flags = k.flags \ {"READING"} /\ SameReads(ReadStop(k), k)
    BY <1>3, <2>3, ReadStopIs
  <2>5. PICK g : /\ handle' = [handle EXCEPT ![s] = g]
                 /\ g.flags \subseteq h.flags /\ SameReads(g, h)
    BY <2>1, <2>3, <2>4 DEF SameReads
  <2> QED BY <1>1, <1>2, <2>5, ArmedKept
<1> QED BY <1>4, <1>5, <1>6

LEMMA ArmedEnd ==
  ASSUME IInv, ReadingIsArmed, NEW s \in Streams, EndReturn(s) \/ ReadDone(s)
  PROVE  ReadingIsArmed'
<1>1. PICK h \in HandleType : h = handle[s]
  BY Before
<1>2. at.stream = s /\ at' \in {In("done", s), Loop}
  BY DEF EndReturn, ReadDone, In
<1>3. /\ "READING" \in h.flags => h.active > 0
      /\ "CLOSING" \in h.flags => {"READING", "READABLE", "WRITABLE"} \cap h.flags = {}
      /\ Armed(h, InHand(s))
  BY <1>1, Before DEF Good, Shape, ReadingIsArmed
<1>4. CASE EndReturn(s)
  <2>1. PICK r \in HandleType :
          /\ r = ReadStop(h) /\ r.flags = h.flags \ {"READING"} /\ SameReads(r, h)
    BY <1>3, ReadStopIs
  <2>2. PICK g : /\ g = UvClose(r) /\ SameReads(g, r)
                 /\ {"READING", "READABLE", "WRITABLE"} \cap g.flags = {}
                 /\ "READ_PENDING" \in g.flags => "READ_PENDING" \in r.flags
    BY <1>3, <2>1, UvCloseIs
  <2>3. handle' = [handle EXCEPT ![s] = g]
    BY <1>1, <1>4, <2>1, <2>2 DEF EndReturn, Set
  <2>4. Armed(g, InHand(s)')
    BY <1>3, <2>1, <2>2 DEF Armed, SameReads
  <2> QED BY <1>2, <2>3, <2>4, ArmedFrame
<1>5. CASE ReadDone(s)
  <2>1. h.reqs > 0
    <3>1. PlaceOf(s) = "done"
      BY <1>5 DEF ReadDone, PlaceOf, In
    <3> QED BY <1>1, <3>1, Before
  <2>2. PICK k \in HandleType :
          /\ handle' = [handle EXCEPT ![s] = DecreaseReqs(k)]
          /\ IF "READING" \in h.flags /\ "READ_PENDING" \notin h.flags
               THEN k \in QueueRead(s, h) ELSE k = h
    <3>1. \A k \in QueueRead(s, h) : k \in HandleType
      BY QueueReadIs
    <3> QED BY <1>1, <1>5, <3>1 DEF ReadDone, Has, Set
  <2>3. /\ k.reqs > 0
        /\ "READING" \in k.flags \/ "READ_PENDING" \in k.flags => k.reads + k.readReady > 0
    <3>1. CASE "READING" \in h.flags /\ "READ_PENDING" \notin h.flags
      <4>1. k.reads + k.readReady = h.reads + h.readReady + 1 /\ k.reqs = h.reqs + 1
        BY <2>2, <3>1, QueueReadIs
      <4> QED BY <2>1, <4>1 DEF HandleType
    <3>2. CASE ~ ("READING" \in h.flags /\ "READ_PENDING" \notin h.flags)
      BY <1>3, <2>1, <2>2, <3>2 DEF Armed
    <3> QED BY <3>1, <3>2
  <2>4. PICK g : /\ g = DecreaseReqs(k) /\ SameReads(g, k)
                 /\ g.flags = k.flags \/ g.flags = k.flags \union {"ENDGAME_QUEUED"}
    BY <2>3, DecreaseReqsIs
  <2>5. Armed(g, InHand(s)')
    BY <2>3, <2>4 DEF Armed, SameReads
  <2> QED BY <1>2, <2>2, <2>4, <2>5, ArmedFrame
<1> QED BY <1>4, <1>5

LEMMA ArmedOther ==
  ASSUME IInv, ReadingIsArmed, NEW s \in Streams,
         ProcessWrite(s) \/ WriteReturn(s) \/ Endgame(s) \/ ShutdownReturn(s) \/ CloseReturn(s)
  PROVE  ReadingIsArmed'
<1>1. PICK h \in HandleType : h = handle[s]
  BY Before
<1>2. (at = Loop \/ at.stream = s) /\ ~ InHand(s)
  BY DEF ProcessWrite, WriteReturn, Endgame, ShutdownReturn, CloseReturn, In, InHand, Held, Loop
<1>3. ASSUME NEW k \in HandleType, SameReads(k, h), k.flags \subseteq h.flags \union
               {"ENDGAME_QUEUED", "CLOSED"}, NEW g, handle' = [handle EXCEPT ![s] = g],
             g = k \/ (g = DecreaseReqs(k) /\ k.reqs > 0)
      PROVE  ReadingIsArmed'
  <2>1. g = DecreaseReqs(k) => SameReads(g, k) /\ g.flags \subseteq k.flags \union {"ENDGAME_QUEUED"}
    BY <1>3, DecreaseReqsIs DEF SameReads
  <2>2. SameReads(g, h) /\ g.flags \subseteq h.flags \union {"ENDGAME_QUEUED", "CLOSED"}
    BY <1>3, <2>1 DEF SameReads
  <2> QED BY <1>1, <1>2, <1>3, <2>2, ArmedKept
<1>4. Good(s, h, PlaceOf(s))
  BY <1>1, Before
<1>5. CASE ProcessWrite(s)
  <2>1. PICK g : handle' = [handle EXCEPT ![s] = g] /\ g = [h EXCEPT !.sent = @ - 1, !.active = @ - 1]
    BY <1>1, <1>5 DEF ProcessWrite, Set
  <2>2. g.flags = h.flags /\ SameReads(g, h)
    BY <2>1 DEF HandleType, SameReads
  <2> QED BY <1>1, <1>2, <2>1, <2>2, ArmedKept
<1>6. CASE WriteReturn(s)
  <2>1. PICK less : less = [h EXCEPT !.writes = @ - 1]
    OBVIOUS
  <2>2. h.reqs > 0 /\ h.writes - 1 \in Nat
    <3>1. PlaceOf(s) = "write"
      BY <1>6 DEF WriteReturn, PlaceOf, In
    <3>2. h.reqs > 0
      BY <1>1, <3>1, Before
    <3> QED BY <1>4, <3>1, <3>2 DEF Good, Counts, HandleType, Bit
  <2>3. less \in HandleType /\ less.flags = h.flags /\ SameReads(less, h) /\ less.reqs = h.reqs
    BY <2>1, <2>2 DEF HandleType, SameReads
  <2>4. PICK k : /\ k = IF less.shutdown = "owed" /\ less.writes = 0
                         THEN WantEndgame(less) ELSE less
                 /\ handle' = [handle EXCEPT ![s] = DecreaseReqs(k)]
    BY <1>1, <1>6, <2>1 DEF WriteReturn, Set
  <2>5. /\ k \in HandleType /\ SameReads(k, h) /\ k.reqs > 0
        /\ k.flags \subseteq h.flags \union {"ENDGAME_QUEUED", "CLOSED"}
    BY <2>2, <2>3, <2>4 DEF WantEndgame, HandleType, Flag, SameReads
  <2> QED BY <1>3, <2>4, <2>5
<1>7. CASE Endgame(s)
  <2>1. PICK k : k = [h EXCEPT !.flags = @ \ {"ENDGAME_QUEUED"}]
    OBVIOUS
  <2>2. k \in HandleType /\ k.flags = h.flags \ {"ENDGAME_QUEUED"} /\ SameReads(k, h)
    BY <2>1 DEF HandleType, SameReads
  <2>3. PICK g : /\ handle' = [handle EXCEPT ![s] = g]
                 /\ g \in {k, [k EXCEPT !.active = @ - 1],
                           [k EXCEPT !.flags = @ \union {"CLOSED"}]}
    BY <1>1, <1>7, <2>1 DEF Endgame, Set
  <2>4. g.flags \subseteq h.flags \union {"CLOSED"} /\ SameReads(g, h)
    BY <2>2, <2>3 DEF HandleType, SameReads
  <2> QED BY <1>1, <1>2, <2>3, <2>4, ArmedKept
<1>8. CASE ShutdownReturn(s)
  <2>1. PICK k : /\ k = [h EXCEPT !.shutdown = "done"]
                 /\ handle' = [handle EXCEPT ![s] = DecreaseReqs(k)]
    BY <1>1, <1>8 DEF ShutdownReturn, Set
  <2>2. h.reqs > 0
    <3>1. PlaceOf(s) = "shutdown"
      BY <1>8 DEF ShutdownReturn, PlaceOf, In
    <3> QED BY <1>4, <3>1 DEF Good, Counts, Shape, HandleType, Bit
  <2>3. k \in HandleType /\ k.flags = h.flags /\ SameReads(k, h) /\ k.reqs > 0
    BY <2>1, <2>2 DEF HandleType, SameReads
  <2> QED BY <1>3, <2>1, <2>3
<1>9. CASE CloseReturn(s)
  <2>1. handle' = [handle EXCEPT ![s] = h]
    BY <1>1, <1>9 DEF CloseReturn, IInv, TypeOK
  <2> QED BY <1>1, <1>2, <2>1, ArmedKept DEF SameReads
<1> QED BY <1>5, <1>6, <1>7, <1>8, <1>9

\* No reading stream is deaf, whatever its program starts, stops and closes in
\* whose callback, and whatever WSARecv does: what DataIsRead needs.
THEOREM ReadsStayArmed == Spec => []ReadingIsArmed
<1>1. Init => ReadingIsArmed
  BY DEF Init, ReadingIsArmed, Armed
<1>2. ASSUME IInv, ReadingIsArmed, [Next]_vars PROVE ReadingIsArmed'
  <2>1. CASE UNCHANGED vars
    BY <1>2, <2>1 DEF ReadingIsArmed, Armed, InHand, vars
  <2> QED
    BY <1>2, <2>1, ArmedUser, ArmedEnvironment, ArmedRead, ArmedEnd, ArmedOther
       DEF Next, Running, Finished
<1> QED BY <1>1, <1>2, Invariant, PTL DEF Spec
=============================================================================
