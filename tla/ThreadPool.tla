------------------------------ MODULE ThreadPool ------------------------------
(***************************************************************************)
(* libuv's thread pool (threadpool.c) under uv::Loop::queue_work           *)
(* (uvpp/uvpp_loop.h): event loops, each on its own thread, queue works; a *)
(* fixed set of workers runs them; each comes back to its loop through the *)
(* loop's own queue and its wq_async, and its after callback runs there.   *)
(*                                                                         *)
(* One mutex guards the pool's queue and one per loop the loop's queue.    *)
(* uv__work_cancel holds both, so the workers must not.                    *)
(*                                                                         *)
(* async_sent and its packet are one Boolean here (AsyncFunctor has the    *)
(* protocol).  exit_message is never posted on Windows (threadpool.c:114). *)
(***************************************************************************)
EXTENDS Integers, SequencesExt

CONSTANTS
  Works,     \* the works the program queues, each a fresh loop_work_ctx
  Workers,   \* the threads of the pool
  Loops,     \* the event loops, each run by a thread of its own
  LoopOf,    \* the loop each work is queued on
  Free,      \* nobody holds the mutex
  None       \* no work

\* init_once starts one worker at least.
ASSUME WorkersAssumption == Workers # {}
ASSUME FreeAssumption == Free \notin Workers \union Loops
ASSUME NoneAssumption == None \notin Works
ASSUME LoopOfAssumption == LoopOf \in [Works -> Loops]

VARIABLES
  mutex,     \* who holds the pool's mutex
  wq,        \* the pool's queue
  pc,        \* where each worker is in worker()
  job,       \* the work each worker has
  wqMutex,   \* who holds loop->wq_mutex
  lwq,       \* loop->wq
  awake,     \* loop->wq_async has been sent and not yet handled
  lpc,       \* where each loop's thread is
  arg,       \* the work it submits or cancels
  local,     \* the queue wq on the stack of uv__work_done
  current,   \* the work whose after callback runs
  work,      \* w->work
  after      \* the status each work's after callback got, or "none" yet

pool == <<mutex, wq>>
worker == <<pc, job>>
inbox == <<wqMutex, lwq, awake>>
loop == <<lpc, arg, local, current>>
vars == <<pool, worker, inbox, loop, work, after>>

-----------------------------------------------------------------------------
Init ==
  /\ mutex = Free
  /\ wq = <<>>
  /\ pc = [t \in Workers |-> "lock"]
  /\ job = [t \in Workers |-> None]
  /\ wqMutex = [l \in Loops |-> Free]
  /\ lwq = [l \in Loops |-> <<>>]
  /\ awake = [l \in Loops |-> FALSE]
  /\ lpc = [l \in Loops |-> "user"]
  /\ arg = [l \in Loops |-> None]
  /\ local = [l \in Loops |-> <<>>]
  /\ current = [l \in Loops |-> None]
  /\ work = [w \in Works |-> "unset"]
  /\ after = [w \in Works |-> "none"]

GotoW(t, from, to) == pc[t] = from /\ pc' = [pc EXCEPT ![t] = to]
GotoL(l, from, to) == lpc[l] = from /\ lpc' = [lpc EXCEPT ![l] = to]

\* loop_after_work_cb has deleted the context of w.
Freed(w) == after[w] # "none" /\ current[LoopOf[w]] # w

\* !QUEUE_EMPTY(&w->wq): w is linked in the pool's queue, in its loop's or in
\* that of uv__work_done.
Linked(w) ==
  \/ Contains(wq, w)
  \/ Contains(lwq[LoopOf[w]], w)
  \/ Contains(local[LoopOf[w]], w)

-----------------------------------------------------------------------------
(* worker() *)

\* uv_mutex_lock(&mutex), at the top of the loop or inside uv_cond_wait.
WorkerLock(t) ==
  /\ pc[t] \in {"lock", "woken"}
  /\ mutex = Free
  /\ mutex' = t
  /\ pc' = [pc EXCEPT ![t] = "test"]
  /\ UNCHANGED <<wq, job, inbox, loop, work, after>>

\* while (QUEUE_EMPTY(&wq)) uv_cond_wait(&cond, &mutex);
WorkerWait(t) ==
  /\ wq = <<>>
  /\ GotoW(t, "test", "wait")
  /\ mutex' = Free
  /\ UNCHANGED <<wq, job, inbox, loop, work, after>>

\* WakeConditionVariable allows a thread to wake up unasked.
Spurious(t) ==
  /\ GotoW(t, "wait", "woken")
  /\ UNCHANGED <<pool, job, inbox, loop, work, after>>

TakeWithoutRemove(t) ==                                \* mutant of WorkerTake
  /\ wq # <<>>
  /\ GotoW(t, "test", "run")
  /\ job' = [job EXCEPT ![t] = Head(wq)]
  /\ mutex' = Free
  /\ UNCHANGED <<wq, inbox, loop, work, after>>

\* QUEUE_REMOVE, QUEUE_INIT and uv_mutex_unlock(&mutex)
WorkerTake(t) ==
  /\ wq # <<>>
  /\ GotoW(t, "test", "run")
  /\ job' = [job EXCEPT ![t] = Head(wq)]
  /\ wq' = Tail(wq)
  /\ mutex' = Free
  /\ UNCHANGED <<inbox, loop, work, after>>

\* w->work(w) returns; uv__cancelled would abort.
WorkerRun(t) ==
  /\ GotoW(t, "run", "finish")
  /\ work[job[t]] = "fn"
  /\ UNCHANGED <<pool, job, inbox, loop, work, after>>

\* uv_mutex_lock(&w->loop->wq_mutex)
FinishUnlocked(t) ==                                   \* mutant of FinishLock
  /\ GotoW(t, "finish", "insert")
  /\ UNCHANGED <<pool, job, inbox, loop, work, after>>

FinishLock(t) ==
  /\ GotoW(t, "finish", "insert")
  /\ wqMutex[LoopOf[job[t]]] = Free
  /\ wqMutex' = [wqMutex EXCEPT ![LoopOf[job[t]]] = t]
  /\ UNCHANGED <<pool, job, lwq, awake, loop, work, after>>

\* w->work = NULL; QUEUE_INSERT_TAIL(&w->loop->wq, &w->wq)
FinishInsert(t) ==
  /\ GotoW(t, "insert", "send")
  /\ work' = [work EXCEPT ![job[t]] = "null"]
  /\ lwq' = [lwq EXCEPT ![LoopOf[job[t]]] = Append(@, job[t])]
  /\ UNCHANGED <<pool, job, wqMutex, awake, loop, after>>

\* uv_async_send(&w->loop->wq_async)
FinishSend(t) ==
  /\ GotoW(t, "send", "unlock")
  /\ awake' = [awake EXCEPT ![LoopOf[job[t]]] = TRUE]
  /\ UNCHANGED <<pool, job, wqMutex, lwq, loop, work, after>>

\* uv_mutex_unlock(&w->loop->wq_mutex)
FinishUnlock(t) ==
  /\ GotoW(t, "unlock", "lock")
  /\ wqMutex' = [wqMutex EXCEPT ![LoopOf[job[t]]] = Free]
  /\ job' = [job EXCEPT ![t] = None]
  /\ UNCHANGED <<pool, lwq, awake, loop, work, after>>

-----------------------------------------------------------------------------
(* A loop's thread queues and cancels works, in callbacks or outside.      *)

UserTurn(l) == lpc[l] \in {"user", "call"}
Back(l) == IF current[l] = None THEN "user" ELSE "call"

\* Loop::queue_work up to post(); uv_queue_work fills the new loop_work_ctx.
QueueWork(l, w) ==
  /\ UserTurn(l) /\ LoopOf[w] = l /\ work[w] = "unset"
  /\ work' = [work EXCEPT ![w] = "fn"]
  /\ arg' = [arg EXCEPT ![l] = w]
  /\ lpc' = [lpc EXCEPT ![l] = "post"]
  /\ UNCHANGED <<pool, worker, inbox, local, current, after>>

\* uv_cond_signal wakes one of the workers asleep, if there is one.
Signal ==
  LET asleep == {t \in Workers : pc[t] = "wait"} IN
  IF asleep = {} THEN UNCHANGED pc
  ELSE \E t \in asleep : pc' = [pc EXCEPT ![t] = "woken"]

\* post(): one critical section.
PostWithoutSignal(l) ==                                \* mutant of Post
  /\ mutex = Free
  /\ wq' = Append(wq, arg[l])
  /\ GotoL(l, "post", Back(l))
  /\ arg' = [arg EXCEPT ![l] = None]
  /\ UNCHANGED <<mutex, worker, inbox, local, current, work, after>>

Post(l) ==
  /\ mutex = Free
  /\ wq' = Append(wq, arg[l])
  /\ IF wq = <<>> THEN Signal ELSE UNCHANGED pc
  /\ GotoL(l, "post", Back(l))
  /\ arg' = [arg EXCEPT ![l] = None]
  /\ UNCHANGED <<mutex, job, inbox, local, current, work, after>>

\* uv_cancel on a work whose after callback has not begun, up to locking mutex.
Cancel(l, w) ==
  /\ UserTurn(l) /\ LoopOf[w] = l
  /\ work[w] # "unset" /\ after[w] = "none"
  /\ mutex = Free
  /\ mutex' = l
  /\ arg' = [arg EXCEPT ![l] = w]
  /\ lpc' = [lpc EXCEPT ![l] = "decide"]
  /\ UNCHANGED <<wq, worker, inbox, local, current, work, after>>

\* The rest of the section under both mutexes.
Cancellable(w) == Linked(w) /\ work[w] # "null"

CancelDecide(l) ==
  LET w == arg[l] IN
  /\ lpc[l] = "decide" /\ wqMutex[l] = Free
  /\ mutex' = Free
  /\ IF Cancellable(w)
       THEN /\ wq' = RemoveFirst(wq, w)
            /\ lwq' = [lwq EXCEPT ![l] = RemoveFirst(@, w)]
            /\ local' = [local EXCEPT ![l] = RemoveFirst(@, w)]
            /\ lpc' = [lpc EXCEPT ![l] = "requeue"]
            /\ UNCHANGED arg
       ELSE /\ lpc' = [lpc EXCEPT ![l] = Back(l)]
            /\ arg' = [arg EXCEPT ![l] = None]
            /\ UNCHANGED <<wq, lwq, local>>
  /\ UNCHANGED <<worker, wqMutex, awake, current, work, after>>

\* w->work = uv__cancelled, then the work goes to the loop's queue.
RequeueSilently(l) ==                                  \* mutant of CancelRequeue
  /\ GotoL(l, "requeue", Back(l))
  /\ wqMutex[l] = Free
  /\ work' = [work EXCEPT ![arg[l]] = "cancelled"]
  /\ lwq' = [lwq EXCEPT ![l] = Append(@, arg[l])]
  /\ arg' = [arg EXCEPT ![l] = None]
  /\ UNCHANGED <<pool, worker, wqMutex, awake, local, current, after>>

CancelRequeue(l) ==
  /\ GotoL(l, "requeue", Back(l))
  /\ wqMutex[l] = Free
  /\ work' = [work EXCEPT ![arg[l]] = "cancelled"]
  /\ lwq' = [lwq EXCEPT ![l] = Append(@, arg[l])]
  /\ awake' = [awake EXCEPT ![l] = TRUE]
  /\ arg' = [arg EXCEPT ![l] = None]
  /\ UNCHANGED <<pool, worker, wqMutex, local, current, after>>

-----------------------------------------------------------------------------
(* uv__work_done, called by uv_process_async_wakeup_req. *)

WakeLoop(l) ==
  /\ awake[l]
  /\ awake' = [awake EXCEPT ![l] = FALSE]
  /\ GotoL(l, "user", "split")
  /\ UNCHANGED <<pool, worker, wqMutex, lwq, arg, local, current, work, after>>

\* QUEUE_SPLIT moves the whole queue, under wq_mutex.
SplitOne(l) ==                                         \* mutant of Split
  /\ wqMutex[l] = Free
  /\ local' = [local EXCEPT ![l] = IF lwq[l] = <<>> THEN <<>>
                                  ELSE <<Head(lwq[l])>>]
  /\ lwq' = [lwq EXCEPT ![l] = IF @ = <<>> THEN @ ELSE Tail(@)]
  /\ GotoL(l, "split", "drain")
  /\ UNCHANGED <<pool, worker, wqMutex, awake, arg, current, work, after>>

Split(l) ==
  /\ wqMutex[l] = Free
  /\ local' = [local EXCEPT ![l] = lwq[l]]
  /\ lwq' = [lwq EXCEPT ![l] = <<>>]
  /\ GotoL(l, "split", "drain")
  /\ UNCHANGED <<pool, worker, wqMutex, awake, arg, current, work, after>>

\* w->done(w, err), up to the program's after callback.
Call(l) ==
  /\ local[l] # <<>>
  /\ LET w == Head(local[l]) IN
       /\ current' = [current EXCEPT ![l] = w]
       /\ after' = [after EXCEPT ![w] =
                      IF work[w] = "cancelled" THEN "ecanceled" ELSE "ok"]
  /\ local' = [local EXCEPT ![l] = Tail(@)]
  /\ GotoL(l, "drain", "call")
  /\ UNCHANGED <<pool, worker, inbox, arg, work>>

\* The after callback returns, and loop_after_work_cb deletes the context.
Return(l) ==
  /\ GotoL(l, "call", "drain")
  /\ current' = [current EXCEPT ![l] = None]
  /\ UNCHANGED <<pool, worker, inbox, arg, local, work, after>>

Drained(l) ==
  /\ local[l] = <<>>
  /\ GotoL(l, "drain", "user")
  /\ UNCHANGED <<pool, worker, inbox, arg, local, current, work, after>>

-----------------------------------------------------------------------------
WorkerNext(t) ==
  \/ WorkerLock(t) \/ WorkerWait(t) \/ WorkerTake(t) \/ WorkerRun(t)
  \/ FinishLock(t) \/ FinishInsert(t) \/ FinishSend(t) \/ FinishUnlock(t)

LoopNext(l) ==
  \/ Post(l) \/ CancelDecide(l) \/ CancelRequeue(l)
  \/ WakeLoop(l) \/ Split(l) \/ Call(l) \/ Return(l) \/ Drained(l)

\* Every work is over and the workers sleep, as they do until the process ends.
Quiet ==
  /\ \A t \in Workers : pc[t] = "wait"
  /\ \A w \in Works : Freed(w)
  /\ \A l \in Loops : lpc[l] = "user" /\ ~ awake[l]
  /\ UNCHANGED vars

Next ==
  \/ \E t \in Workers : WorkerNext(t) \/ Spurious(t)
  \/ \E l \in Loops :
       LoopNext(l) \/ \E w \in Works : QueueWork(l, w) \/ Cancel(l, w)
  \/ Quiet

Spec == Init /\ [][Next]_vars

\* Work callbacks return; after callbacks return and the loops are run, however
\* often the program calls uv_cancel meanwhile.  A mutex that is free again and
\* again is got in the end; of the workers it is enough that one of them gets it.
Fairness ==
  /\ \A t \in Workers : WF_vars(WorkerNext(t))
  /\ SF_vars(\E t \in Workers : WorkerLock(t))
  /\ \A l \in Loops :
       /\ WF_vars(LoopNext(l))
       /\ SF_vars(Post(l) \/ CancelDecide(l) \/ CancelRequeue(l))
       /\ SF_vars(WakeLoop(l) \/ Return(l))

FairSpec == Spec /\ Fairness

-----------------------------------------------------------------------------
(* Properties. *)

Busy == {"run", "finish", "insert", "send", "unlock"}

TypeOK ==
  /\ mutex \in Workers \union Loops \union {Free}
  /\ wq \in Seq(Works)
  /\ pc \in [Workers -> {"lock", "test", "wait", "woken"} \union Busy]
  /\ job \in [Workers -> Works \union {None}]
  /\ \A t \in Workers : job[t] # None <=> pc[t] \in Busy
  /\ wqMutex \in [Loops -> Workers \union {Free}]
  /\ lwq \in [Loops -> Seq(Works)]
  /\ awake \in [Loops -> BOOLEAN]
  /\ lpc \in [Loops -> {"user", "post", "decide", "requeue", "split", "drain",
                        "call"}]
  /\ arg \in [Loops -> Works \union {None}]
  /\ local \in [Loops -> Seq(Works)]
  /\ current \in [Loops -> Works \union {None}]
  /\ work \in [Works -> {"unset", "fn", "null", "cancelled"}]
  /\ after \in [Works -> {"none", "ok", "ecanceled"}]

\* The context of a work, deleted when its after callback returns, is in no
\* queue and in no thread's hands: a worker still reads w->loop after it has
\* put w in the loop's queue, and only wq_mutex keeps the loop from taking it.
NoUseAfterFree ==
  \A w \in Works : Freed(w) =>
    /\ ~ Linked(w)
    /\ \A t \in Workers : job[t] # w
    /\ \A l \in Loops : arg[l] # w

\* A work on its way to its after callback is in one queue only, once, or in
\* the hands of one thread: the links are in the work itself.
Occurrences(s, w) == Cardinality({i \in DOMAIN s : s[i] = w})

Places(w) ==
  LET l == LoopOf[w] IN
  Occurrences(wq, w) + Occurrences(lwq[l], w) + Occurrences(local[l], w)
    + Cardinality({t \in Workers :
                     job[t] = w /\ pc[t] \in {"run", "finish", "insert"}})
    + (IF arg[l] = w /\ lpc[l] \in {"post", "requeue"} THEN 1 ELSE 0)

InOnePlace ==
  \A w \in Works :
    Places(w) = IF work[w] # "unset" /\ after[w] = "none" THEN 1 ELSE 0

\* No lost signal: post() signals only if the queue was empty, and yet the
\* workers never all sleep while there is work.
SomeWorkerAwake == wq # <<>> => \E t \in Workers : pc[t] # "wait"

\* No lost wakeup: what is in a loop's queue has an uv_async_send made or
\* about to be made for it, or uv__work_done about to take it.
LoopIsCalled ==
  \A l \in Loops : lwq[l] # <<>> =>
    \/ awake[l] \/ lpc[l] = "split"
    \/ \E t \in Workers : wqMutex[l] = t /\ pc[t] = "send"

\* The work as its program sees it.
WorkState(w) ==
  IF after[w] = "ok" THEN "done"
  ELSE IF after[w] = "ecanceled" THEN "doneCancelled"
  ELSE IF work[w] = "unset" THEN "new"
  ELSE IF \E t \in Workers : job[t] = w /\ pc[t] = "run" THEN "running"
  ELSE IF \/ work[w] = "cancelled"
          \/ arg[LoopOf[w]] = w /\ lpc[LoopOf[w]] = "requeue" THEN "cancelled"
  ELSE IF \/ work[w] = "null"
          \/ \E t \in Workers : job[t] = w /\ pc[t] # "run" THEN "ran"
  ELSE "queued"

Contract == INSTANCE WorkContract WITH state <- [w \in Works |-> WorkState(w)]

\* And each is called back, however the threads are scheduled.
RefinesFairContract == Contract!FairSpec
=============================================================================
