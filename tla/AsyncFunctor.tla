----------------------------- MODULE AsyncFunctor -----------------------------
(***************************************************************************)
(* uv::AsyncFunctor (uvpp/uvpp_asyncfunctor.h) over uv::Async and libuv's  *)
(* Windows uv_async_t (win/async.c): threads queue functors under a mutex  *)
(* and wake the loop thread, which drains the queue.                       *)
(*                                                                         *)
(* uv_async_send coalesces: it posts a completion packet only if           *)
(* async_sent was 0, and uv_process_async_wakeup_req clears async_sent     *)
(* before the callback.  A send that finds async_sent at 1 does nothing,   *)
(* so a functor may run only because of a packet posted for another.       *)
(*                                                                         *)
(* The loop thread may queue too, from inside a functor.  The AsyncFunctor *)
(* is not destroyed here: HandleLifecycle has the life of its handle.      *)
(***************************************************************************)
EXTENDS Naturals, Sequences, FiniteSets

CONSTANTS
  Threads,   \* the threads that call queue(), the loop thread among them
  Loop,      \* the loop thread
  Jobs,      \* the functors, each queued once
  Empty,     \* those that are null std::functions
  Free,      \* nobody holds the mutex
  None       \* no functor

ASSUME ThreadsAssumption == Loop \in Threads /\ Free \notin Threads
ASSUME JobsAssumption == Empty \subseteq Jobs /\ None \notin Jobs

VARIABLES
  functors,   \* m_functors
  mutex,      \* the thread in m_mutex, or Free
  sent,       \* handle->async_sent
  packets,    \* completion packets of the async_req in the port
  pc,         \* where each thread is in queue()
  arg,        \* the functor each thread queues
  loopPc,     \* where the loop thread is, outside queue()
  fun,        \* onFunctor's local variable
  finished    \* the functors that have returned

vars == <<functors, mutex, sent, packets, pc, arg, loopPc, fun, finished>>

-----------------------------------------------------------------------------
Init ==
  /\ functors = <<>>
  /\ mutex = Free
  /\ sent = FALSE
  /\ packets = 0
  /\ pc = [t \in Threads |-> "idle"]
  /\ arg = [t \in Threads |-> None]
  /\ loopPc = "poll"
  /\ fun = None
  /\ finished = {}

Queued == {functors[i] : i \in DOMAIN functors}
Begun == Queued \union finished \union {fun} \union {arg[t] : t \in Threads}

Goto(t, from, to) == pc[t] = from /\ pc' = [pc EXCEPT ![t] = to]

-----------------------------------------------------------------------------
(* AsyncFunctor::queue *)

\* MutexLocker lock(&m_mutex).  The loop thread calls queue() from a functor.
Lock(t, j) ==
  /\ j \notin Begun
  /\ t = Loop => loopPc = "run"
  /\ mutex = Free
  /\ mutex' = t
  /\ Goto(t, "idle", "push")
  /\ arg' = [arg EXCEPT ![t] = j]
  /\ UNCHANGED <<functors, sent, packets, loopPc, fun, finished>>

Push(t) ==
  /\ Goto(t, "push", "send")
  /\ functors' = Append(functors, arg[t])
  /\ arg' = [arg EXCEPT ![t] = None]
  /\ UNCHANGED <<mutex, sent, packets, loopPc, fun, finished>>

\* uv__atomic_exchange_set(&handle->async_sent)
Send(t) ==
  /\ Goto(t, "send", IF sent THEN "unlock" ELSE "post")
  /\ sent' = TRUE
  /\ UNCHANGED <<functors, mutex, packets, arg, loopPc, fun, finished>>

\* POST_COMPLETION_FOR_REQ
Post(t) ==
  /\ Goto(t, "post", "unlock")
  /\ packets' = packets + 1
  /\ UNCHANGED <<functors, mutex, sent, arg, loopPc, fun, finished>>

\* ~MutexLocker
Unlock(t) ==
  /\ Goto(t, "unlock", "idle")
  /\ mutex' = Free
  /\ UNCHANGED <<functors, sent, packets, arg, loopPc, fun, finished>>

-----------------------------------------------------------------------------
(* The loop thread: uv_poll_ex, uv_process_async_wakeup_req, onFunctor. *)

\* The packet leaves the port and becomes a pending request.
Poll ==
  /\ loopPc = "poll" /\ packets > 0
  /\ packets' = packets - 1
  /\ loopPc' = "wakeup"
  /\ UNCHANGED <<functors, mutex, sent, pc, arg, fun, finished>>

WakeupKeepingFlag ==                                   \* mutant of Wakeup
  /\ loopPc = "wakeup"
  /\ loopPc' = "drain"
  /\ UNCHANGED <<functors, mutex, sent, packets, pc, arg, fun, finished>>

\* handle->async_sent = 0, then async_cb.
Wakeup ==
  /\ loopPc = "wakeup"
  /\ sent' = FALSE
  /\ loopPc' = "drain"
  /\ UNCHANGED <<functors, mutex, packets, pc, arg, fun, finished>>

\* The locked block of onFunctor: it touches nothing the senders touch outside
\* the mutex, so it is one step.
TakeLast ==                                            \* mutant of Take
  /\ loopPc = "drain" /\ mutex = Free
  /\ fun' = IF functors = <<>> THEN None ELSE functors[Len(functors)]
  /\ functors' = IF functors = <<>> THEN <<>>
                 ELSE SubSeq(functors, 1, Len(functors) - 1)
  /\ loopPc' = "test"
  /\ UNCHANGED <<mutex, sent, packets, pc, arg, finished>>

Take ==
  /\ loopPc = "drain" /\ mutex = Free
  /\ fun' = IF functors = <<>> THEN None ELSE Head(functors)
  /\ functors' = IF functors = <<>> THEN <<>> ELSE Tail(functors)
  /\ loopPc' = "test"
  /\ UNCHANGED <<mutex, sent, packets, pc, arg, finished>>

\* if (fun) fun(); else break;
RunUntested ==                                         \* mutant of Run
  /\ loopPc = "test"
  /\ loopPc' = "run"
  /\ UNCHANGED <<functors, mutex, sent, packets, pc, arg, fun, finished>>

Run ==
  /\ loopPc = "test" /\ fun \in Jobs \ Empty
  /\ loopPc' = "run"
  /\ UNCHANGED <<functors, mutex, sent, packets, pc, arg, fun, finished>>

ReturnToPoll ==                                        \* mutant of Return
  /\ loopPc = "run" /\ pc[Loop] = "idle"
  /\ finished' = finished \union {fun}
  /\ fun' = None
  /\ loopPc' = "poll"
  /\ UNCHANGED <<functors, mutex, sent, packets, pc, arg>>

Return ==
  /\ loopPc = "run" /\ pc[Loop] = "idle"
  /\ finished' = finished \union {fun}
  /\ fun' = None
  /\ loopPc' = "drain"
  /\ UNCHANGED <<functors, mutex, sent, packets, pc, arg>>

\* Here fun still says why the drain stopped: None, or a null functor.
Break ==
  /\ loopPc = "test" /\ fun \notin Jobs \ Empty
  /\ loopPc' = "poll"
  /\ finished' = finished \union ({fun} \ {None})
  /\ UNCHANGED <<functors, mutex, sent, packets, pc, arg, fun>>

-----------------------------------------------------------------------------
QueueStep(t) == Push(t) \/ Send(t) \/ Post(t) \/ Unlock(t)

LoopStep == Poll \/ Wakeup \/ Take \/ Run \/ Return \/ Break

\* Every functor has been queued and run, and the loop sleeps.
Quiet ==
  /\ Jobs \subseteq finished \union Queued /\ mutex = Free
  /\ loopPc = "poll" /\ packets = 0
  /\ UNCHANGED vars

Next ==
  \/ LoopStep \/ Quiet
  \/ \E t \in Threads : QueueStep(t) \/ \E j \in Jobs : Lock(t, j)

Spec == Init /\ [][Next]_vars

\* The loop thread runs and functors return; a thread in queue() goes on.
\* CRITICAL_SECTION is not fair, but a thread holds it for a few steps only:
\* the loop thread gets it when it is free again and again.
Fairness ==
  /\ WF_vars(LoopStep) /\ SF_vars(Take)
  /\ \A t \in Threads : WF_vars(QueueStep(t))

FairSpec == Spec /\ Fairness

-----------------------------------------------------------------------------
(* Properties. *)

TypeOK ==
  /\ functors \in Seq(Jobs)
  /\ mutex \in Threads \union {Free}
  /\ sent \in BOOLEAN
  /\ packets \in Nat
  /\ pc \in [Threads -> {"idle", "push", "send", "post", "unlock"}]
  /\ arg \in [Threads -> Jobs \union {None}]
  /\ loopPc \in {"poll", "wakeup", "drain", "test", "run"}
  /\ fun \in Jobs \union {None}
  /\ finished \in SUBSET Jobs

\* A wakeup that will lead to a drain: a thread about to send, a packet posted
\* or about to be, or the drain itself, still to look at the queue.
WakeupUnderway ==
  \/ \E t \in Threads : pc[t] \in {"send", "post"}
  \/ packets > 0
  \/ loopPc \in {"wakeup", "drain", "run"}
  \/ loopPc = "test" /\ fun \in Jobs \ Empty

\* No lost wakeup: functors never sit in the queue with nothing on its way to
\* drain it, although most sends post no packet.  The exception is the code's:
\* a drain that meets a null functor stops with functors behind it.
NoLostWakeup ==
  functors # <<>> => WakeupUnderway \/ fun \in Empty

\* The embedded async_req is in the port or pending at most once, or the
\* pending request list, linked through it, would be corrupted; and it is so
\* exactly when async_sent says so.
OnePacket ==
  packets + Cardinality({t \in Threads : pc[t] = "post"})
    + (IF loopPc = "wakeup" THEN 1 ELSE 0)
      = (IF sent THEN 1 ELSE 0)

\* AsyncFunctor runs functors in order, each once, one at a time.
Executor == INSTANCE FunctorExecutor
              WITH waiting <- functors,
                   running <- IF loopPc \in {"test", "run"} THEN fun ELSE None

RefinesExecutor == Executor!Spec

\* Every functor queued runs, unless a null one has stopped a drain: what was
\* behind it may then wait for ever, as nothing more need be sent.
EveryFunctorRuns ==
  \A j \in Jobs :
    j \in Queued ~> j \in finished \/ Empty \intersect finished # {}
=============================================================================
