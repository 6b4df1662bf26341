-------------------------------- MODULE Stream --------------------------------
(***************************************************************************)
(* uv::Stream (uvpp/uvpp_stream.h) over connected sockets: reading through *)
(* the one slab of the loop, writing, shutting down and closing, with the  *)
(* requests of libuv's win/tcp.c and win/stream.c beneath.                 *)
(*                                                                         *)
(* The wrapper offers libuv the slab in stream_alloc_cb and takes it back  *)
(* at the end of stream_read_cb; the flag in_use says who has it.  libuv   *)
(* keeps one read request per stream, always of zero bytes                 *)
(* (uv_active_tcp_streams_threshold is 0): its completion means that       *)
(* non-blocking receives will find something.  The program may start, stop *)
(* and close reading from any callback, so a receive loop goes on, after   *)
(* each callback, with whatever the callback left.                         *)
(*                                                                         *)
(* Everything but the kernel and the peer runs on the loop thread.         *)
(* Streams have the callbacks onData and onEnd set.  A stream is connected *)
(* from the start.  uv_run is here any order of processing completed       *)
(* requests and queued endgames: HandleLifecycle has its order.            *)
(***************************************************************************)
EXTENDS Integers, FiniteSets

CONSTANTS
  Streams,      \* the connections of one loop
  Incoming,     \* bound: the pieces of data the peer of each may send
  MaxWrites,    \* bound: write requests of each under way at a time
  Slab,         \* the pieces that fill the slab
  Stops,        \* the streams on which the program calls read_stop
  Refused,      \* those whose broken connection WSARecv reports at once
  ClosesInEnd,  \* those the program closes in their own end callback
  Steady,       \* those that neither the program nor the peer ends
  NoStream

ASSUME StreamsAssumption == IsFiniteSet(Streams) /\ NoStream \notin Streams
ASSUME BoundsAssumption ==
  /\ Incoming \in [Streams -> Nat] /\ MaxWrites \in [Streams -> Nat]
  /\ Slab \in Nat \ {0}
ASSUME UsersAssumption ==
  Stops \subseteq Streams /\ Refused \subseteq Streams
    /\ ClosesInEnd \subseteq Streams /\ Steady \subseteq Streams

VARIABLES
  handle,   \* the uv_tcp_t of each stream and its requests
  socket,   \* what its peer and the kernel hold
  inUse,    \* loop->buffer.in_use
  at        \* where the loop thread is

vars == <<handle, socket, inUse, at>>

Flag == {"READING", "READ_PENDING", "READABLE", "WRITABLE", "CLOSING",
         "CLOSED", "ENDGAME_QUEUED"}

\* "loop": choosing what to process.  "recv" and "done": the receive loop of
\* uv_process_tcp_read_req, and its label done.  The others are callbacks of
\* the program; "full" is the data callback of a receive that filled the slab.
Callback == {"data", "full", "end", "write", "shutdown", "close"}
Place == {"loop", "recv", "done"} \union Callback

Loop == [place |-> "loop", stream |-> NoStream]
In(place, s) == [place |-> place, stream |-> s]

Init ==
  /\ handle = [s \in Streams |->
       [flags |-> {"READABLE", "WRITABLE"},
        alive |-> TRUE,      \* the wrapper
        reqs |-> 0,          \* reqs_pending
        active |-> 0,        \* activecnt
        reads |-> 0,         \* times read_req is in the kernel
        readReady |-> 0,     \* times read_req is completed or linked pending
        failed |-> FALSE,    \* the status of read_req
        writes |-> 0,        \* write_reqs_pending
        sending |-> 0,       \* write requests in the kernel
        sent |-> 0,          \* write requests completed or linked pending
        shutdown |-> "none"]] \* shutdown_req: "none", "owed"; "done" is null
  /\ socket = [s \in Streams |->
       [peer |-> "open", inbox |-> 0, coming |-> Incoming[s]]]
  /\ inUse = FALSE
  /\ at = Loop

-----------------------------------------------------------------------------
(* What libuv does to one handle h, a record of handle.                    *)

Has(h, flag) == flag \in h.flags

\* uv_want_endgame
WantEndgame(h) == [h EXCEPT !.flags = @ \union {"ENDGAME_QUEUED"}]

\* DECREASE_PENDING_REQ_COUNT
DecreaseReqs(h) ==
  LET less == [h EXCEPT !.reqs = @ - 1] IN
  IF Has(h, "CLOSING") /\ less.reqs = 0 THEN WantEndgame(less) ELSE less

\* uv_read_stop, and what every end of reading does.
StopKeepingCount(h) ==                                  \* mutant of ReadStop
  [h EXCEPT !.flags = @ \ {"READING"}]

ReadStop(h) ==
  IF Has(h, "READING")
    THEN [h EXCEPT !.flags = @ \ {"READING"}, !.active = @ - 1]
    ELSE h

\* uv_close and uv_tcp_close, which closes the socket; on a closing handle
\* uv_close asserts, or returns at once when assertions are compiled out.
Closing(h) ==
  LET marked == [h EXCEPT !.flags = (@ \ {"READABLE", "WRITABLE"})
                                      \union {"CLOSING"}] IN
  IF h.reqs = 0 THEN WantEndgame(marked) ELSE marked

UvClose(h) ==
  IF Has(h, "CLOSING") THEN h ELSE Closing(ReadStop(h))

\* What a receive on the socket of s would find.
Broken(s) == socket[s].peer = "reset" \/ Has(handle[s], "CLOSING")
Readable(s) == socket[s].inbox > 0 \/ socket[s].peer # "open"

\* The outcomes of uv_tcp_queue_read: the kernel keeps the request; it is over
\* at once, without a completion packet; or it is refused, and linked pending
\* with its error but without UV_HANDLE_READ_PENDING.
QueueRead(s, h) ==
  LET armed == [h EXCEPT !.flags = @ \union {"READ_PENDING"}, !.reqs = @ + 1] IN
  {[armed EXCEPT !.reads = @ + 1]}
    \union (IF Readable(s) /\ ~ Broken(s)
              THEN {[armed EXCEPT !.readReady = @ + 1, !.failed = FALSE]}
              ELSE {})
    \union (IF Broken(s) /\ s \in Refused
              THEN {[h EXCEPT !.reqs = @ + 1, !.readReady = @ + 1,
                              !.failed = TRUE]}
              ELSE {})

\* handle->data still points at the wrapper.
Data(h) == h.alive /\ ~ Has(h, "CLOSED")

Set(s, h) == handle' = [handle EXCEPT ![s] = h]

-----------------------------------------------------------------------------
(* What the program does: outside uv_run, in a callback of the stream, of  *)
(* another one, or of any other handle of the loop.                        *)

UserTurn(s) == at.place \in {"loop"} \union Callback /\ handle[s].alive

InOwnEnd(s) == at = In("end", s)

\* Stream::read_start; elsewhere it returns false.
StartRead(s) ==
  /\ UserTurn(s)
  /\ Has(handle[s], "READABLE") /\ ~ Has(handle[s], "READING")
  /\ LET h == [handle[s] EXCEPT !.flags = @ \union {"READING"},
                                !.active = @ + 1] IN
     IF Has(h, "READ_PENDING") THEN Set(s, h)
     ELSE \E armed \in QueueRead(s, h) : Set(s, armed)
  /\ UNCHANGED <<socket, inUse, at>>

\* Stream::read_stop
StopRead(s) ==
  /\ UserTurn(s)
  /\ s \in Stops /\ Has(handle[s], "READING")
  /\ Set(s, ReadStop(handle[s]))
  /\ UNCHANGED <<socket, inUse, at>>

\* Stream::write; it returns false unless the stream is writable.
Write(s) ==
  /\ UserTurn(s)
  /\ Has(handle[s], "WRITABLE") /\ handle[s].writes < MaxWrites[s]
  /\ LET h == [handle[s] EXCEPT !.reqs = @ + 1, !.writes = @ + 1,
                                !.active = @ + 1] IN
     \/ Set(s, [h EXCEPT !.sending = @ + 1])
     \/ Set(s, [h EXCEPT !.sent = @ + 1])
  /\ UNCHANGED <<socket, inUse, at>>

\* Stream::shutdown; it returns false unless the stream is writable.
Shutdown(s) ==
  /\ UserTurn(s) /\ s \notin Steady
  /\ Has(handle[s], "WRITABLE")
  /\ Set(s, WantEndgame([handle[s] EXCEPT !.flags = @ \ {"WRITABLE"},
                                          !.shutdown = "owed",
                                          !.reqs = @ + 1, !.active = @ + 1]))
  /\ UNCHANGED <<socket, inUse, at>>

\* Handle::close, on a stream that is not closing.
Close(s) ==
  /\ UserTurn(s) /\ s \notin Steady
  /\ ~ Has(handle[s], "CLOSING")
  /\ InOwnEnd(s) => s \in ClosesInEnd
  /\ Set(s, UvClose(handle[s]))
  /\ UNCHANGED <<socket, inUse, at>>

\* Handle::~Handle.  In its own end callback the wrapper must live: after it
\* stream_read_cb goes on with the wrapper.
Destroy(s) ==
  /\ UserTurn(s) /\ s \notin Steady
  /\ ~ InOwnEnd(s)
  /\ Set(s, [UvClose(handle[s]) EXCEPT !.alive = FALSE])
  /\ UNCHANGED <<socket, inUse, at>>

-----------------------------------------------------------------------------
(* The peer and the kernel.                                                *)

Arrive(s) ==
  /\ socket[s].peer = "open" /\ socket[s].coming > 0
  /\ socket' = [socket EXCEPT ![s].inbox = @ + 1, ![s].coming = @ - 1]
  /\ UNCHANGED <<handle, inUse, at>>

\* The peer shuts down its side, or the connection breaks and what had come
\* and was not read is lost.
PeerLeaves(s) ==
  /\ socket[s].peer = "open" /\ s \notin Steady
  /\ \/ socket' = [socket EXCEPT ![s].peer = "eof"]
     \/ socket' = [socket EXCEPT ![s].peer = "reset", ![s].inbox = 0]
  /\ UNCHANGED <<handle, inUse, at>>

\* A closed socket completes its requests with an error.
CompleteRead(s) ==
  /\ handle[s].reads > 0
  /\ Readable(s) \/ Broken(s)
  /\ Set(s, [handle[s] EXCEPT !.reads = @ - 1, !.readReady = @ + 1,
                              !.failed = Broken(s)])
  /\ UNCHANGED <<socket, inUse, at>>

CompleteWrite(s) ==
  /\ handle[s].sending > 0
  /\ Set(s, [handle[s] EXCEPT !.sending = @ - 1, !.sent = @ + 1])
  /\ UNCHANGED <<socket, inUse, at>>

-----------------------------------------------------------------------------
(* The read request on the loop thread.                                    *)

\* stream_read_cb with nread < 0: onEnd, unless the wrapper is gone.  libuv
\* has stopped the reading, but for UV_ENOBUFS.
ToEndReading(s, h) ==
  /\ Set(s, h)
  /\ at' = IF Data(h) THEN In("end", s) ELSE In("done", s)

ToEnd(s, h) == ToEndReading(s, ReadStop(h))

\* uv_process_tcp_read_req: on an error the reading ends, unless it had been
\* stopped; on success the receive loop begins.
ProcessKeepingPending(s) ==                             \* mutant of ProcessRead
  /\ at = Loop /\ handle[s].readReady > 0
  /\ LET h == [handle[s] EXCEPT !.readReady = @ - 1] IN
     IF ~ h.failed THEN Set(s, h) /\ at' = In("recv", s)
     ELSE IF Has(h, "READING") THEN ToEnd(s, h)
     ELSE Set(s, h) /\ at' = In("done", s)
  /\ UNCHANGED <<socket, inUse>>

ProcessRead(s) ==
  /\ at = Loop /\ handle[s].readReady > 0
  /\ LET h == [handle[s] EXCEPT !.flags = @ \ {"READ_PENDING"},
                                !.readReady = @ - 1] IN
     IF ~ h.failed THEN Set(s, h) /\ at' = In("recv", s)
     ELSE IF Has(h, "READING") THEN ToEnd(s, h)
     ELSE Set(s, h) /\ at' = In("done", s)
  /\ UNCHANGED <<socket, inUse>>

\* One turn of the receive loop: stream_alloc_cb gives the slab if it is free,
\* and a non-blocking receive fills it.
RecvStopped(s) ==
  /\ at = In("recv", s) /\ ~ Has(handle[s], "READING")
  /\ at' = In("done", s)
  /\ UNCHANGED <<handle, socket, inUse>>

RecvData(s) ==
  /\ at = In("recv", s) /\ Has(handle[s], "READING") /\ ~ inUse
  /\ socket[s].inbox > 0
  /\ LET size == IF socket[s].inbox < Slab THEN socket[s].inbox ELSE Slab IN
     /\ socket' = [socket EXCEPT ![s].inbox = @ - size]
     /\ at' = IF ~ Data(handle[s]) THEN In("done", s)
              ELSE In(IF size = Slab THEN "full" ELSE "data", s)
  /\ inUse' = TRUE
  /\ UNCHANGED handle

\* Nothing there: a read callback of 0 bytes, which only gives the slab back.
RecvNothing(s) ==
  /\ at = In("recv", s) /\ Has(handle[s], "READING") /\ ~ inUse
  /\ socket[s].inbox = 0 /\ socket[s].peer = "open"
  /\ inUse' = ~ Data(handle[s])
  /\ at' = In("done", s)
  /\ UNCHANGED <<handle, socket>>

\* The end of the peer's data, a broken connection, or, when another stream
\* has the slab, UV_ENOBUFS: stream_read_cb takes each for the end.
RecvFails(s) ==
  /\ at = In("recv", s) /\ Has(handle[s], "READING")
  /\ inUse \/ (socket[s].inbox = 0 /\ socket[s].peer # "open")
  /\ inUse' = TRUE
  /\ IF inUse THEN ToEndReading(s, handle[s])
     ELSE IF socket[s].peer = "reset" THEN ToEnd(s, handle[s])
     ELSE ToEnd(s, [handle[s] EXCEPT !.flags = @ \ {"READABLE"}])
  /\ UNCHANGED socket

\* The end of stream_read_cb after onData; the loop goes on if the slab had
\* been filled.
KeepSlab(s) ==                                          \* mutant of DataReturn
  /\ at \in {In("data", s), In("full", s)}
  /\ at' = In(IF at.place = "full" THEN "recv" ELSE "done", s)
  /\ inUse' = (at.place = "data")
  /\ UNCHANGED <<handle, socket>>

DataReturn(s) ==
  /\ at \in {In("data", s), In("full", s)}
  /\ at' = In(IF at.place = "full" THEN "recv" ELSE "done", s)
  /\ inUse' = FALSE
  /\ UNCHANGED <<handle, socket>>

\* The end of stream_read_cb after onEnd: read_stop and close.
EndReturn(s) ==
  /\ at = In("end", s)
  /\ Set(s, UvClose(ReadStop(handle[s])))
  /\ inUse' = FALSE
  /\ at' = In("done", s)
  /\ UNCHANGED socket

\* The label done: another read if the stream still reads and has none.
ReadAlways(s) ==                                        \* mutant of ReadDone
  /\ at = In("done", s)
  /\ IF Has(handle[s], "READING")
       THEN \E h \in QueueRead(s, handle[s]) : Set(s, DecreaseReqs(h))
       ELSE Set(s, DecreaseReqs(handle[s]))
  /\ at' = Loop
  /\ UNCHANGED <<socket, inUse>>

ReadDone(s) ==
  /\ at = In("done", s)
  /\ IF Has(handle[s], "READING") /\ ~ Has(handle[s], "READ_PENDING")
       THEN \E h \in QueueRead(s, handle[s]) : Set(s, DecreaseReqs(h))
       ELSE Set(s, DecreaseReqs(handle[s]))
  /\ at' = Loop
  /\ UNCHANGED <<socket, inUse>>

-----------------------------------------------------------------------------
(* Write requests, and the endgame of shutdown and close.                  *)

\* uv_process_tcp_write_req, up to the callback and after it.
ProcessWrite(s) ==
  /\ at = Loop /\ handle[s].sent > 0
  /\ Set(s, [handle[s] EXCEPT !.sent = @ - 1, !.active = @ - 1])
  /\ at' = In("write", s)
  /\ UNCHANGED <<socket, inUse>>

ForgetShutdown(s) ==                                    \* mutant of WriteReturn
  /\ at = In("write", s)
  /\ Set(s, DecreaseReqs([handle[s] EXCEPT !.writes = @ - 1]))
  /\ at' = Loop
  /\ UNCHANGED <<socket, inUse>>

WriteReturn(s) ==
  /\ at = In("write", s)
  /\ LET h == [handle[s] EXCEPT !.writes = @ - 1] IN
     Set(s, DecreaseReqs(IF h.shutdown = "owed" /\ h.writes = 0
                           THEN WantEndgame(h) ELSE h))
  /\ at' = Loop
  /\ UNCHANGED <<socket, inUse>>

\* uv_tcp_endgame: the shutdown first, once the writes are over; else the end
\* of a close, once nothing is pending.
ShutdownDue(h) == h.shutdown = "owed" /\ h.writes = 0

Endgame(s) ==
  /\ at = Loop /\ Has(handle[s], "ENDGAME_QUEUED")
  /\ LET h == [handle[s] EXCEPT !.flags = @ \ {"ENDGAME_QUEUED"}] IN
     IF ShutdownDue(h)
       THEN Set(s, [h EXCEPT !.active = @ - 1]) /\ at' = In("shutdown", s)
     ELSE IF Has(h, "CLOSING") /\ h.reqs = 0
       THEN /\ Set(s, [h EXCEPT !.flags = @ \union {"CLOSED"}])
            /\ at' = IF h.alive THEN In("close", s) ELSE Loop
     ELSE Set(s, h) /\ UNCHANGED at
  /\ UNCHANGED <<socket, inUse>>

ShutdownReturn(s) ==
  /\ at = In("shutdown", s)
  /\ Set(s, DecreaseReqs([handle[s] EXCEPT !.shutdown = "done"]))
  /\ at' = Loop
  /\ UNCHANGED <<socket, inUse>>

CloseReturn(s) ==
  /\ at = In("close", s)
  /\ at' = Loop
  /\ UNCHANGED <<handle, socket, inUse>>

User(s) ==
  StartRead(s) \/ StopRead(s) \/ Write(s) \/ Shutdown(s) \/ Close(s) \/ Destroy(s)

Environment(s) ==
  Arrive(s) \/ PeerLeaves(s) \/ CompleteRead(s) \/ CompleteWrite(s)

Running(s) ==
  \/ RecvStopped(s) \/ RecvData(s) \/ RecvNothing(s) \/ RecvFails(s)
  \/ DataReturn(s) \/ EndReturn(s) \/ ReadDone(s) \/ WriteReturn(s)
  \/ ShutdownReturn(s) \/ CloseReturn(s)

\* Every stream that ever ends is closed; uv_run may go on waiting for others.
Finished ==
  /\ at = Loop
  /\ \A s \in Streams \ Steady : Has(handle[s], "CLOSED")
  /\ UNCHANGED vars

Next ==
  \/ \E s \in Streams :
       \/ User(s) \/ Environment(s) \/ Running(s)
       \/ ProcessRead(s) \/ ProcessWrite(s) \/ Endgame(s)
  \/ Finished

Spec == Init /\ [][Next]_vars

\* The loop thread goes on and callbacks return; the kernel completes what it
\* can; a completed request or a queued endgame is not overtaken for ever,
\* as uv_process_reqs and uv_process_endgames take all there is, in order.
Fairness ==
  \A s \in Streams :
    /\ WF_vars(Running(s))
    /\ WF_vars(CompleteRead(s)) /\ WF_vars(CompleteWrite(s))
    /\ SF_vars(ProcessRead(s)) /\ SF_vars(ProcessWrite(s)) /\ SF_vars(Endgame(s))

FairSpec == Spec /\ Fairness

-----------------------------------------------------------------------------
(* Properties.                                                             *)

\* Every field within its type: no counter of libuv goes below zero.
TypeOK ==
  /\ handle \in [Streams ->
       [flags: SUBSET Flag, alive: BOOLEAN, reqs: Nat, active: Nat, reads: Nat,
        readReady: Nat, failed: BOOLEAN, writes: Nat, sending: Nat, sent: Nat,
        shutdown: {"none", "owed", "done"}]]
  /\ socket \in [Streams ->
       [peer: {"open", "eof", "reset"}, inbox: Nat, coming: Nat]]
  /\ inUse \in BOOLEAN
  /\ at \in [place: Place, stream: Streams \union {NoStream}]

\* The end callback tells of the peer, never of a slab another stream has.
EndOnlyByPeer ==
  [][\A s \in Streams :
       at' = In("end", s) /\ at # at' => socket[s].peer # "open"]_vars

\* The one read request of a stream is in one place at most, or
\* pending_reqs_tail, linked through it, would be corrupted.
ReadReqOnce == \A s \in Streams : handle[s].reads + handle[s].readReady <= 1

\* What uv_tcp_close and the endgame rely on: reqs_pending counts the requests
\* of the stream, the one being processed among them, and activecnt what
\* keeps the stream active.
CountsExact ==
  \A s \in Streams :
    LET h == handle[s]
        one(test) == IF test THEN 1 ELSE 0 IN
    /\ h.writes = h.sending + h.sent + one(at = In("write", s))
    /\ h.reqs = h.reads + h.readReady + h.writes + one(h.shutdown = "owed")
                  + one(\E place \in {"recv", "done", "data", "full", "end"} :
                          at = In(place, s))
    /\ h.active = one(Has(h, "READING")) + h.sending + h.sent
                    + one(h.shutdown = "owed" /\ at # In("shutdown", s))

\* StreamContract's view: a callback that has begun is no longer owed.
Life(s) ==
  IF Has(handle[s], "CLOSED") THEN "closed"
  ELSE IF Has(handle[s], "CLOSING") THEN "closing"
  ELSE IF InOwnEnd(s) THEN "ending" ELSE "open"

Contract ==
  INSTANCE StreamContract WITH
    writes <- [s \in Streams |-> handle[s].sending + handle[s].sent],
    shutdown <- [s \in Streams |-> IF at = In("shutdown", s) THEN "done"
                                   ELSE handle[s].shutdown],
    life <- [s \in Streams |-> Life(s)]

\* Every write and shutdown is answered, in order, before the stream closes.
RefinesFairContract == Contract!FairSpec

\* What a reading stream has received reaches the program, or it stops reading.
DataIsRead ==
  \A s \in Streams :
    socket[s].inbox > 0 /\ Has(handle[s], "READING")
      ~> socket[s].inbox = 0 \/ ~ Has(handle[s], "READING")

\* uv_close is never called on a closing handle: "assert(0)" in uv_close.
ClosesOnce ==
  [][\A s \in Streams : EndReturn(s) => ~ Has(handle[s], "CLOSING")]_vars
=============================================================================
