--------------------------- MODULE HandleLifecycle ---------------------------
(***************************************************************************)
(* The life of uv::Handle<HANDLE_T> (uvpp/uvpp_handle.h) on one event      *)
(* loop: the C++ wrapper, the HANDLE_T block it allocates, the flags       *)
(* libuv keeps in that block, the loop's endgame list and active_handles   *)
(* counter, and the requests that still point at the block.                *)
(*                                                                         *)
(* The wrapper and the block die at different times.  ~Handle may run      *)
(* before, during or after the close it starts, from any callback of the   *)
(* loop thread, and either ~Handle or handle_close_cb deletes the block,   *)
(* whichever comes second.                                                 *)
(*                                                                         *)
(* Every element of Handles is one allocation, used once: an address the   *)
(* allocator hands out again is another element.  The code below runs on   *)
(* the loop thread, but for Send and Complete.                             *)
(***************************************************************************)
EXTENDS Integers, Sequences, FiniteSets

CONSTANTS
  Handles,    \* the handles the program allocates
  Kind,       \* the kind of each: "idle", "async" or "tcp"
  Listeners,  \* the handles whose program calls onClose
  MaxReqs,    \* bound: requests of a tcp handle under way at a time
  NoHandle    \* no callback is running

ASSUME HandlesAssumption == IsFiniteSet(Handles) /\ NoHandle \notin Handles
ASSUME KindAssumption == Kind \in [Handles -> {"idle", "async", "tcp"}]
ASSUME ListenersAssumption == Listeners \subseteq Handles
ASSUME MaxReqsAssumption == MaxReqs \in Nat \ {0}

VARIABLES
  wrapper,       \* the C++ object
  mem,           \* the HANDLE_T block
  data,          \* handle->data points at the wrapper
  onclose,       \* m_closeCallback holds a function
  flags,         \* handle->flags
  reqs,          \* reqs_pending of a tcp handle, async_sent of an async one
  activecnt,     \* handle->activecnt of a tcp handle
  os,            \* tcp requests the kernel has not completed
  port,          \* completions waiting in the completion port
  pending,       \* loop->pending_reqs_tail
  batch,         \* the requests uv_process_reqs has taken off it
  endgame,       \* loop->endgame_handles
  activeHandles, \* loop->active_handles
  phase,         \* where uv_run is
  visit,         \* idle handles uv_idle_invoke has still to call
  frame,         \* the handle whose callback is running
  mode,          \* "default" or "once" for Loop::run and run_once under way,
                 \* "onceRan" for a run_once that has found requests to
                 \* process and has not polled yet
  stop           \* loop->stop_flag

block == <<mem, data, flags, reqs, activecnt>>
queues == <<os, port, pending, batch, endgame, activeHandles>>
ways == <<mode, stop>>
control == <<phase, visit, frame, ways>>
vars == <<wrapper, onclose, block, queues, control>>

Flag == {"ACTIVE", "REF", "CLOSING", "CLOSED", "ENDGAME_QUEUED"}
Phase == {"outside", "reqs", "idle", "poll", "endgame"}
Mode == {"none", "default", "once", "onceRan"}

-----------------------------------------------------------------------------
(* Initially nothing is allocated and uv_run has not been called. *)
Init ==
  /\ wrapper = [h \in Handles |-> "unborn"]
  /\ mem = [h \in Handles |-> "unborn"]
  /\ data = [h \in Handles |-> FALSE]
  /\ onclose = [h \in Handles |-> FALSE]
  /\ flags = [h \in Handles |-> {}]
  /\ reqs = [h \in Handles |-> 0]
  /\ activecnt = [h \in Handles |-> 0]
  /\ os = [h \in Handles |-> 0]
  /\ port = [h \in Handles |-> 0]
  /\ pending = [h \in Handles |-> 0]
  /\ batch = [h \in Handles |-> 0]
  /\ endgame = <<>>
  /\ activeHandles = 0
  /\ phase = "outside"
  /\ visit = {}
  /\ frame = NoHandle
  /\ mode = "none" /\ stop = FALSE

-----------------------------------------------------------------------------
(* Flag macros of uv-common.h and handle-inl.h. *)

Closed(h) == "CLOSED" \in flags[h]
ClosingTestsClosed(h) == Closed(h)                    \* mutant of Closing
Closing(h) == "CLOSING" \in flags[h]

\* A handle before uv_close holds the loop when it is active and referenced.
CountedWithoutRef(h) == "ACTIVE" \in flags[h]         \* mutant of Counted
Counted(h) == {"ACTIVE", "REF"} \subseteq flags[h]

\* Handle::is_closed
ClosedWhenClosing(h) == Closing(h)                    \* mutant of IsClosed
IsClosed(h) == ~ data[h]

\* The condition of the endgame functions, and of uv_close for queueing the
\* handle: no request points at it.  An idle handle has none.
EndgameReady(h) == Kind[h] = "idle" \/ reqs[h] = 0

UserTurn == phase = "outside" \/ frame # NoHandle

\* What adding or removing one flag does to loop->active_handles.
CountOnlyUp(h, new) ==                                \* mutant of CountChange
  activeHandles' = activeHandles
                     + (IF {"ACTIVE", "REF"} \subseteq new /\ ~ Counted(h)
                          THEN 1 ELSE 0)

CountChange(h, new) ==
  activeHandles' = activeHandles
                     + (IF {"ACTIVE", "REF"} \subseteq new THEN 1 ELSE 0)
                     - (IF Counted(h) THEN 1 ELSE 0)

\* uv__handle_start, uv__handle_stop, and uv_ref/uv_unref before closing.
SetFlags(h, new) ==
  /\ flags' = [flags EXCEPT ![h] = new]
  /\ CountChange(h, new)

\* INCREASE_ACTIVE_COUNT and DECREASE_ACTIVE_COUNT
IncreaseFlagOnly(h) ==                                \* mutant of IncreaseActive
  SetFlags(h, flags[h] \union {"ACTIVE"}) /\ UNCHANGED activecnt

IncreaseActive(h) ==
  /\ activecnt' = [activecnt EXCEPT ![h] = @ + 1]
  /\ SetFlags(h, IF activecnt[h] = 0 THEN flags[h] \union {"ACTIVE"}
                 ELSE flags[h])

DecreaseActive(h) ==
  /\ activecnt' = [activecnt EXCEPT ![h] = @ - 1]
  /\ IF activecnt[h] = 1 /\ ~ Closing(h)
       THEN SetFlags(h, flags[h] \ {"ACTIVE"})
       ELSE UNCHANGED <<flags, activeHandles>>

\* uv_want_endgame, h's flags being new but for ENDGAME_QUEUED.
DropEndgame(h, new) ==                                \* mutant of WantEndgame
  flags' = [flags EXCEPT ![h] = new] /\ UNCHANGED endgame

WantEndgame(h, new) ==
  /\ flags' = [flags EXCEPT ![h] = new \union {"ENDGAME_QUEUED"}]
  /\ endgame' = IF "ENDGAME_QUEUED" \in flags[h] THEN endgame
                ELSE <<h>> \o endgame

\* uv_close: the handle leaves its queues and is marked closing; the endgame
\* waits until no request points at it.
UvClose(h) ==
  LET new == (flags[h] \ {"ACTIVE"}) \union {"CLOSING"} IN
  /\ IF EndgameReady(h)
       THEN WantEndgame(h, new)
       ELSE flags' = [flags EXCEPT ![h] = new] /\ UNCHANGED endgame
  /\ activeHandles' = activeHandles + (IF Counted(h) THEN 0 ELSE 1)
  /\ visit' = visit \ {h}

\* delete handle()
ForgetFree(h) ==                                      \* mutant of Free
  flags' = [flags EXCEPT ![h] = {}] /\ UNCHANGED mem

Free(h) ==
  /\ mem' = [mem EXCEPT ![h] = "freed"]
  /\ flags' = [flags EXCEPT ![h] = {}]

-----------------------------------------------------------------------------
(* What the program does on the loop thread, before uv_run, between two    *)
(* runs, or inside a callback of the loop.                                 *)

\* The constructor of Idle, Async or Tcp.
Create(h) ==
  /\ UserTurn
  /\ mem[h] = "unborn"
  /\ wrapper' = [wrapper EXCEPT ![h] = "alive"]
  /\ mem' = [mem EXCEPT ![h] = "live"]
  /\ data' = [data EXCEPT ![h] = TRUE]
  /\ SetFlags(h, IF Kind[h] = "async" THEN {"REF", "ACTIVE"} ELSE {"REF"})
  /\ UNCHANGED <<onclose, reqs, activecnt, os, port, pending, batch, endgame,
                 control>>

\* Handle::onClose
OnClose(h) ==
  /\ UserTurn
  /\ wrapper[h] = "alive" /\ h \in Listeners
  /\ onclose' = [onclose EXCEPT ![h] = TRUE]
  /\ UNCHANGED <<wrapper, block, queues, control>>

\* Handle::close on a handle that is not closing; on another uv_close asserts,
\* or returns at once when assertions are compiled out.
Close(h) ==
  /\ UserTurn
  /\ wrapper[h] = "alive"
  /\ ~ Closing(h)
  /\ UvClose(h)
  /\ UNCHANGED <<wrapper, onclose, mem, data, reqs, activecnt, os, port,
                 pending, batch, phase, frame, ways>>

\* Handle::~Handle
Destroy(h) ==
  /\ UserTurn
  /\ wrapper[h] = "alive"
  /\ wrapper' = [wrapper EXCEPT ![h] = "destroyed"]
  /\ onclose' = [onclose EXCEPT ![h] = FALSE]
  /\ data' = [data EXCEPT ![h] = FALSE]
  /\ \/ IsClosed(h) /\ Free(h) /\ UNCHANGED <<endgame, activeHandles, visit>>
     \/ ~ IsClosed(h) /\ ~ Closing(h) /\ UvClose(h) /\ UNCHANGED mem
     \/ ~ IsClosed(h) /\ Closing(h)
        /\ UNCHANGED <<mem, flags, endgame, activeHandles, visit>>
  /\ UNCHANGED <<reqs, activecnt, os, port, pending, batch, phase, frame,
                 ways>>

\* Handle::ref and Handle::unref; a closing handle stays counted.
Reref(h) ==
  /\ UserTurn
  /\ wrapper[h] = "alive"
  /\ \E new \in {flags[h] \union {"REF"}, flags[h] \ {"REF"}} :
       IF Closing(h)
         THEN flags' = [flags EXCEPT ![h] = new] /\ UNCHANGED activeHandles
         ELSE SetFlags(h, new)
  /\ UNCHANGED <<wrapper, onclose, mem, data, reqs, activecnt, os, port,
                 pending, batch, endgame, control>>

\* Idle::start; the loop prepends it, so a running uv_idle_invoke misses it.
IdleStart(h) ==
  /\ UserTurn
  /\ wrapper[h] = "alive" /\ Kind[h] = "idle" /\ ~ Closing(h)
  /\ SetFlags(h, flags[h] \union {"ACTIVE"})
  /\ UNCHANGED <<wrapper, onclose, mem, data, reqs, activecnt, os, port,
                 pending, batch, endgame, control>>

\* Idle::stop; it also leaves the iteration under way.
IdleStop(h) ==
  /\ UserTurn
  /\ wrapper[h] = "alive" /\ Kind[h] = "idle" /\ ~ Closing(h)
  /\ SetFlags(h, flags[h] \ {"ACTIVE"})
  /\ visit' = visit \ {h}
  /\ UNCHANGED <<wrapper, onclose, mem, data, reqs, activecnt, os, port,
                 pending, batch, endgame, phase, frame, ways>>

\* Stream::write or Tcp::connect: REGISTER_HANDLE_REQ and reqs_pending++.  The
\* kernel keeps the request, or it is over at once, sent without a completion
\* packet or refused, and joins the pending requests.
Request(h) ==
  /\ UserTurn
  /\ wrapper[h] = "alive" /\ Kind[h] = "tcp" /\ ~ Closing(h)
  /\ reqs[h] < MaxReqs
  /\ IncreaseActive(h)
  /\ reqs' = [reqs EXCEPT ![h] = @ + 1]
  /\ \/ os' = [os EXCEPT ![h] = @ + 1] /\ UNCHANGED pending
     \/ pending' = [pending EXCEPT ![h] = @ + 1] /\ UNCHANGED os
  /\ UNCHANGED <<wrapper, onclose, mem, data, port, batch, endgame, control>>

\* Loop::stop
StopLoop ==
  /\ UserTurn
  /\ stop' = TRUE
  /\ UNCHANGED <<wrapper, onclose, block, queues, phase, visit, frame, mode>>

\* Async::send, from any thread.  The handle must be neither closing nor
\* closed (async.c:75-77); AsyncFunctor models the race with the loop thread.
Send(h) ==
  /\ wrapper[h] = "alive" /\ Kind[h] = "async" /\ ~ Closing(h)
  /\ reqs[h] = 0
  /\ reqs' = [reqs EXCEPT ![h] = 1]
  /\ port' = [port EXCEPT ![h] = @ + 1]
  /\ UNCHANGED <<wrapper, onclose, mem, data, flags, activecnt, os, pending,
                 batch, endgame, activeHandles, control>>

\* The kernel completes a request of a socket, closed or not.
Complete(h) ==
  /\ os[h] > 0
  /\ os' = [os EXCEPT ![h] = @ - 1]
  /\ port' = [port EXCEPT ![h] = @ + 1]
  /\ UNCHANGED <<wrapper, onclose, block, pending, batch, endgame,
                 activeHandles, control>>

-----------------------------------------------------------------------------
(* uv_run and the callbacks it makes. *)

\* uv__loop_alive; the registered requests are those activecnt counts.
AliveByQueues ==                                      \* mutant of LoopAlive
  endgame # <<>> \/ \E h \in Handles : activecnt[h] > 0

LoopAlive ==
  activeHandles > 0 \/ endgame # <<>> \/ \E h \in Handles : activecnt[h] > 0

\* uv_process_reqs detaches the pending requests before it processes one; those
\* its callbacks add wait for the next iteration.
BeginIteration ==
  /\ phase' = "reqs"
  /\ batch' = pending
  /\ pending' = [h \in Handles |-> 0]

\* Loop::run and Loop::run_once; uv_process_reqs tells run_once whether there
\* is anything to process.
Run(kind) ==
  /\ phase = "outside" /\ LoopAlive /\ ~ stop
  /\ mode' = IF kind = "once" /\ \E h \in Handles : pending[h] > 0 THEN "onceRan"
             ELSE kind
  /\ BeginIteration
  /\ UNCHANGED <<wrapper, onclose, block, os, port, endgame, activeHandles,
                 visit, frame, stop>>

\* The same after Loop::stop: uv_run returns at once, and forgets the stop.
RunInVain ==
  /\ phase = "outside" /\ stop
  /\ stop' = FALSE
  /\ UNCHANGED <<wrapper, onclose, block, queues, phase, visit, frame, mode>>

\* uv_process_tcp_write_req and uv_process_tcp_connect_req up to req->cb; the
\* request is unregistered but still counted in reqs_pending.
TcpReqBegin(h) ==
  /\ phase = "reqs" /\ frame = NoHandle
  /\ Kind[h] = "tcp" /\ batch[h] > 0
  /\ batch' = [batch EXCEPT ![h] = @ - 1]
  /\ DecreaseActive(h)
  /\ frame' = h
  /\ UNCHANGED <<wrapper, onclose, mem, data, reqs, os, port, pending, endgame,
                 phase, visit, ways>>

\* The same functions after req->cb: DECREASE_PENDING_REQ_COUNT.
TcpReqEnd(h) ==
  /\ phase = "reqs" /\ frame = h /\ Kind[h] = "tcp"
  /\ reqs' = [reqs EXCEPT ![h] = @ - 1]
  /\ IF Closing(h) /\ reqs[h] = 1
       THEN WantEndgame(h, flags[h])
       ELSE UNCHANGED <<flags, endgame>>
  /\ frame' = NoHandle
  /\ UNCHANGED <<wrapper, onclose, mem, data, activecnt, os, port, pending,
                 batch, activeHandles, phase, visit, ways>>

\* uv_process_async_wakeup_req; async_cb calls through handle->data.
AsyncWakeup(h) ==
  /\ phase = "reqs" /\ frame = NoHandle
  /\ Kind[h] = "async" /\ batch[h] > 0
  /\ batch' = [batch EXCEPT ![h] = @ - 1]
  /\ reqs' = [reqs EXCEPT ![h] = 0]
  /\ IF Closing(h)
       THEN WantEndgame(h, flags[h]) /\ UNCHANGED frame
       ELSE frame' = h /\ UNCHANGED <<flags, endgame>>
  /\ UNCHANGED <<wrapper, onclose, mem, data, activecnt, os, port, pending,
                 activeHandles, phase, visit, ways>>

ReqsDone ==
  /\ phase = "reqs" /\ frame = NoHandle
  /\ \A h \in Handles : batch[h] = 0
  /\ phase' = "idle"
  /\ visit' = {h \in Handles : Kind[h] = "idle" /\ "ACTIVE" \in flags[h]}
  /\ UNCHANGED <<wrapper, onclose, block, queues, frame, ways>>

\* uv_idle_invoke; idle_cb calls through handle->data.
IdleCall(h) ==
  /\ phase = "idle" /\ frame = NoHandle /\ h \in visit
  /\ visit' = visit \ {h}
  /\ frame' = h
  /\ UNCHANGED <<wrapper, onclose, block, queues, phase, ways>>

IdleDone ==
  /\ phase = "idle" /\ frame = NoHandle /\ visit = {}
  /\ phase' = "poll"
  /\ UNCHANGED <<wrapper, onclose, block, queues, visit, frame, ways>>

\* uv_run polls with 0 after run_once has processed requests; otherwise
\* uv_backend_timeout returns 0, or else INFINITE: no timer runs here.
PollReturnsAtOnce ==
  \/ mode = "onceRan" \/ stop
  \/ activeHandles = 0 /\ \A h \in Handles : activecnt[h] = 0
  \/ \E h \in Handles : pending[h] > 0
  \/ endgame # <<>>
  \/ \E h \in Handles : Kind[h] = "idle" /\ "ACTIVE" \in flags[h]

\* uv_poll_ex dequeues all that has completed (up to 128 packets).
Poll ==
  /\ phase = "poll"
  /\ PollReturnsAtOnce \/ \E h \in Handles : port[h] > 0
  /\ pending' = [h \in Handles |-> pending[h] + port[h]]
  /\ port' = [h \in Handles |-> 0]
  /\ phase' = "endgame"
  /\ mode' = IF mode = "onceRan" THEN "once" ELSE mode
  /\ UNCHANGED <<wrapper, onclose, block, os, batch, endgame, activeHandles,
                 visit, frame, stop>>

\* One turn of uv_process_endgames.  A handle with a request under way is only
\* taken off the list; another goes through uv__handle_close and
\* handle_close_cb, up to the program's close callback.
Endgame ==
  /\ phase = "endgame" /\ frame = NoHandle /\ endgame # <<>>
  /\ endgame' = Tail(endgame)
  /\ LET h == Head(endgame)
         new == flags[h] \ {"ENDGAME_QUEUED"}
     IN IF Closing(h) /\ EndgameReady(h)
          THEN /\ activeHandles' = activeHandles - 1
               /\ data' = [data EXCEPT ![h] = FALSE]
               /\ IF data[h]
                    THEN /\ flags' = [flags EXCEPT ![h] =
                                        new \union {"CLOSED"}]
                         /\ onclose' = [onclose EXCEPT ![h] = FALSE]
                         /\ frame' = IF onclose[h] THEN h ELSE NoHandle
                         /\ UNCHANGED mem
                    ELSE Free(h) /\ UNCHANGED <<onclose, frame>>
          ELSE /\ flags' = [flags EXCEPT ![h] = new]
               /\ UNCHANGED <<activeHandles, data, onclose, mem, frame>>
  /\ UNCHANGED <<wrapper, reqs, activecnt, os, port, pending, batch, phase,
                 visit, ways>>

\* The end of an iteration: Loop::run goes round again while the loop is alive
\* and not stopped, run_once returns.
EndgamesDone ==
  /\ phase = "endgame" /\ frame = NoHandle /\ endgame = <<>>
  /\ \/ mode = "default" /\ LoopAlive /\ ~ stop
        /\ BeginIteration /\ UNCHANGED ways
     \/ ~ (mode = "default" /\ LoopAlive /\ ~ stop)
        /\ phase' = "outside" /\ mode' = "none" /\ stop' = FALSE
        /\ UNCHANGED <<pending, batch>>
  /\ UNCHANGED <<wrapper, onclose, block, os, port, endgame, activeHandles,
                 visit, frame>>

\* The callback of an async, an idle or a closed handle returns.
Return ==
  /\ frame # NoHandle
  /\ ~ (phase = "reqs" /\ Kind[frame] = "tcp")
  /\ frame' = NoHandle
  /\ UNCHANGED <<wrapper, onclose, block, queues, phase, visit, ways>>

-----------------------------------------------------------------------------
UserNext(h) ==
  \/ Create(h) \/ OnClose(h) \/ Close(h) \/ Destroy(h) \/ Reref(h)
  \/ IdleStart(h) \/ IdleStop(h) \/ Request(h) \/ Send(h)

LoopNext ==
  \/ ReqsDone \/ IdleDone \/ Poll \/ Endgame \/ EndgamesDone \/ Return
  \/ \E h \in Handles :
       TcpReqBegin(h) \/ TcpReqEnd(h) \/ AsyncWakeup(h) \/ IdleCall(h)

Enter == \E kind \in {"default", "once"} : Run(kind)

\* The program has ended and every block has been given back.
Finished ==
  /\ phase = "outside" /\ ~ stop
  /\ \A h \in Handles : mem[h] = "freed"
  /\ UNCHANGED vars

Next ==
  \/ LoopNext \/ Enter \/ RunInVain \/ StopLoop \/ Finished
  \/ \E h \in Handles : UserNext(h) \/ Complete(h)

Spec == Init /\ [][Next]_vars

\* The program runs the loop again and again while it is alive, in either way,
\* and does not stop it each time before; its callbacks return; the kernel
\* completes every request.
Fairness ==
  /\ WF_vars(LoopNext) /\ WF_vars(RunInVain) /\ SF_vars(Enter)
  /\ \A h \in Handles : WF_vars(Complete(h))

FairSpec == Spec /\ Fairness
-----------------------------------------------------------------------------
(* Properties. *)

TypeOK ==
  /\ wrapper \in [Handles -> {"unborn", "alive", "destroyed"}]
  /\ mem \in [Handles -> {"unborn", "live", "freed"}]
  /\ data \in [Handles -> BOOLEAN]
  /\ onclose \in [Handles -> BOOLEAN]
  /\ flags \in [Handles -> SUBSET Flag]
  /\ reqs \in [Handles -> Nat]
  /\ activecnt \in [Handles -> Nat]
  /\ os \in [Handles -> Nat]
  /\ port \in [Handles -> Nat]
  /\ pending \in [Handles -> Nat]
  /\ batch \in [Handles -> Nat]
  /\ endgame \in Seq(Handles)
  /\ activeHandles \in Int
  /\ phase \in Phase
  /\ visit \in SUBSET Handles
  /\ frame \in Handles \union {NoHandle}
  /\ mode \in Mode /\ stop \in BOOLEAN

\* The packets and requests that point at h's block, but for the one whose
\* callback is running.
Underway(h) == os[h] + port[h] + pending[h] + batch[h]

\* The request of h whose callback is running.
InCallback(h) == phase = "reqs" /\ frame = h /\ Kind[h] = "tcp"

\* No dangling pointer: the block outlives the wrapper that points at it
\* (~Handle and every method dereference m_handle), its place on the endgame
\* list, every request of it and the iteration of uv_idle_invoke; and the
\* wrapper outlives the data pointer a callback will follow.
NoDanglingPointer ==
  \A h \in Handles :
    /\ wrapper[h] = "alive" => mem[h] = "live"
    /\ \/ \E i \in DOMAIN endgame : endgame[i] = h
       \/ Underway(h) > 0
       \/ InCallback(h)
       \/ h \in visit
       => mem[h] = "live"
    /\ data[h] => wrapper[h] = "alive"

\* Nothing leaks: a block whose wrapper is gone is closing and its close is
\* not over, so handle_close_cb will find data null and delete it.
NoLeak ==
  \A h \in Handles :
    mem[h] = "live" /\ wrapper[h] = "destroyed"
      => Closing(h) /\ ~ Closed(h) /\ ~ data[h]

\* A close in progress is never forgotten: the handle is on the endgame list
\* or a request is under way whose completion will put it there.
CloseIsOwed ==
  \A h \in Handles :
    Closing(h) /\ ~ Closed(h)
      => \/ \E i \in DOMAIN endgame : endgame[i] = h
         \/ Kind[h] # "idle" /\ Underway(h) > 0
         \/ InCallback(h)

\* loop->active_handles counts the handles that hold the loop: the active and
\* referenced ones, and the closing ones until their close callback.
HoldsLoop(h) ==
  IF "CLOSING" \in flags[h] THEN "CLOSED" \notin flags[h]
  ELSE {"ACTIVE", "REF"} \subseteq flags[h]

ActiveCountExact ==
  activeHandles = Cardinality({h \in Handles : HoldsLoop(h)})

\* async_cb and idle_cb follow handle->data with no null test: the loop enters
\* one only for a wrapper that has been neither closed nor destroyed.
EntersCallback(h) == frame # h /\ frame' = h /\ phase # "endgame"

CallbackTarget ==
  \A h \in Handles :
    EntersCallback(h) /\ Kind[h] # "tcp"
      => data[h] /\ wrapper[h] = "alive" /\ ~ Closing(h)

CallbackFindsWrapper == [][CallbackTarget]_vars

\* The program's close callback comes only from the endgame phase, once, on a
\* wrapper that still exists, and with no request of the handle left.
LastCallback ==
  \A h \in Handles :
    phase = "endgame" /\ frame # h /\ frame' = h
      => /\ data[h] /\ ~ data'[h] /\ wrapper[h] = "alive"
         /\ Underway(h) = 0
         /\ Closing(h) /\ ~ Closed(h)

CloseCallbackIsLast == [][LastCallback]_vars

\* Loop::run does not return with a close unfinished that the loop has accepted,
\* unless stop() has been called; and when it does return so, or run_once does,
\* uv_run says that the loop is alive, so that the program knows to run it again.
NoCloseLeft ==
  phase = "endgame" /\ phase' = "outside"
    => \/ \A h \in Handles : Closing(h) => Closed(h)
       \/ LoopAlive /\ (stop \/ mode # "default")

RunFinishesCloses == [][NoCloseLeft]_vars

\* uv_run returns once nothing holds the loop any more: no handle is counted
\* that is not active and referenced or closing, and no wait outlives them.
LoopDrains ==
  <>[](\A h \in Handles : ~ HoldsLoop(h) /\ activecnt[h] = 0)
    => <>[](phase = "outside")

-----------------------------------------------------------------------------
(* The handle as its program sees it. *)

ContractState(h) ==
  IF mem[h] = "unborn" THEN "absent"
  ELSE IF mem[h] = "freed" THEN "gone"
  ELSE IF wrapper[h] = "destroyed" THEN "orphan"
  ELSE IF Closed(h) THEN "closed"
  ELSE IF Closing(h) THEN "closing"
  ELSE "open"

Contract == INSTANCE HandleContract
              WITH state <- [h \in Handles |-> ContractState(h)]

\* Wrapper, block and flags together never leave the life HandleContract
\* gives a handle.
RefinesContract == Contract!Spec

\* And, the loop being run, every close it owes is finished.
RefinesFairContract == Contract!FairSpec
=============================================================================
