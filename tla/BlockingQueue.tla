---------------------------- MODULE BlockingQueue ----------------------------
(***************************************************************************)
(* BlockingQueue<T> (uvpp/base/blockingqueue.h) on the uv_mutex_t and      *)
(* uv_cond_t of CondVar: threads put elements, others take them and sleep  *)
(* while there are none.  front() on an empty deque is undefined: None.    *)
(***************************************************************************)
EXTENDS CondVar, Sequences

CONSTANTS
  Takers,    \* the threads that take; the others put
  Elements,  \* what they put, each once
  Takes,     \* bound: the elements each taker takes
  None       \* no element

ASSUME TakersAssumption == Takers \subseteq Threads
ASSUME ElementsAssumption == None \notin Elements
ASSUME TakesAssumption == Takes \in Nat

VARIABLES
  pc,        \* where each thread is in put() or take()
  queue,     \* m_queue
  taken,     \* history: the elements taken, in order
  left       \* the elements each taker has still to take

vars == <<cond, pc, queue, taken, left>>

Init ==
  /\ CondInit
  /\ pc = [t \in Threads |-> "idle"]
  /\ queue = <<>>
  /\ taken = <<>>
  /\ left = [t \in Takers |-> Takes]

Step(t, from, to) == pc[t] = from /\ pc' = [pc EXCEPT ![t] = to]
IsIn(x, s) == \E i \in DOMAIN s : s[i] = x

-----------------------------------------------------------------------------
(* put() *)

\* uv_mutex_lock, m_queue.push_back
Put(t, x) ==
  /\ t \notin Takers
  /\ ~ IsIn(x, queue) /\ ~ IsIn(x, taken)
  /\ Step(t, "idle", "signal") /\ Lock(t)
  /\ queue' = Append(queue, x)
  /\ UNCHANGED <<taken, left>>

\* uv_cond_signal
SignalWhenEmpty(t) ==                                  \* mutant of PutSignal
  /\ Step(t, "signal", "unlock")
  /\ IF Len(queue) = 1 THEN Signal(t) ELSE UNCHANGED cond
  /\ UNCHANGED <<queue, taken, left>>

PutSignal(t) ==
  /\ Step(t, "signal", "unlock") /\ Signal(t)
  /\ UNCHANGED <<queue, taken, left>>

-----------------------------------------------------------------------------
(* take() *)

TakeLock(t) ==
  /\ t \in Takers /\ left[t] > 0
  /\ Step(t, "idle", "test") /\ Lock(t)
  /\ UNCHANGED <<queue, taken, left>>

\* while (m_queue.empty()) uv_cond_wait(&m_cond, &m_mutex);
TakeWait(t) ==
  /\ queue = <<>>
  /\ pc[t] = "test" /\ Wait(t)
  /\ UNCHANGED <<pc, queue, taken, left>>

TakeFound(t) ==
  /\ queue # <<>> /\ mutex = t /\ at[t] = "out"
  /\ Step(t, "test", "pop")
  /\ UNCHANGED <<cond, queue, taken, left>>

\* m_queue.front(), m_queue.pop_front()
PopBack(t) ==                                          \* mutant of Pop
  /\ mutex = t /\ at[t] = "out"
  /\ Step(t, "pop", "unlock")
  /\ taken' = Append(taken, IF queue = <<>> THEN None ELSE queue[Len(queue)])
  /\ queue' = IF queue = <<>> THEN queue ELSE SubSeq(queue, 1, Len(queue) - 1)
  /\ left' = [left EXCEPT ![t] = @ - 1]
  /\ UNCHANGED cond

Pop(t) ==
  /\ mutex = t /\ at[t] = "out"
  /\ Step(t, "pop", "unlock")
  /\ taken' = Append(taken, IF queue = <<>> THEN None ELSE Head(queue))
  /\ queue' = IF queue = <<>> THEN queue ELSE Tail(queue)
  /\ left' = [left EXCEPT ![t] = @ - 1]
  /\ UNCHANGED cond

\* uv_mutex_unlock, at the end of both
Leaving(t) ==
  /\ Step(t, "unlock", "idle") /\ Unlock(t)
  /\ UNCHANGED <<queue, taken, left>>

-----------------------------------------------------------------------------
Inside(t) ==
  /\ WaitStep(t) \/ CallStep(t)
  /\ UNCHANGED <<pc, queue, taken, left>>

\* A CONDITION_VARIABLE may wake a thread unasked; take() has no time limit.
Unasked(t) == NativeWake(t) /\ UNCHANGED <<pc, queue, taken, left>>

ThreadNext(t) ==
  \/ PutSignal(t) \/ TakeWait(t) \/ TakeFound(t) \/ Pop(t) \/ Leaving(t)
  \/ Inside(t)

\* Nothing is left to put, and the takers are done or find nothing to take.
Quiet ==
  /\ \A x \in Elements : IsIn(x, queue) \/ IsIn(x, taken)
  /\ \A t \in Threads \ Takers : pc[t] = "idle"
  /\ \A t \in Takers : at[t] # "asleep" => pc[t] = "idle" /\ left[t] = 0
  /\ UNCHANGED vars

Next ==
  \/ \E t \in Threads :
       ThreadNext(t) \/ Unasked(t) \/ TakeLock(t) \/ \E x \in Elements : Put(t, x)
  \/ Quiet

Spec == Init /\ [][Next]_vars

\* A thread goes on with what it has begun; a taker takes what it wants; every
\* element is put; a mutex that is free again and again is got in the end.
Fairness ==
  /\ \A t \in Threads :
       WF_vars(ThreadNext(t)) /\ SF_vars(Inside(t) /\ Relock(t)) /\ SF_vars(TakeLock(t))
  /\ \A x \in Elements : SF_vars(\E t \in Threads : Put(t, x))

FairSpec == Spec /\ Fairness

-----------------------------------------------------------------------------
(* Properties. *)

TypeOK ==
  /\ CondTypeOK
  /\ pc \in [Threads -> {"idle", "signal", "test", "pop", "unlock"}]
  /\ queue \in Seq(Elements)
  /\ taken \in Seq(Elements)
  /\ left \in [Takers -> 0..Takes]

\* No lost wakeup: while a taker sleeps, every element in the queue has a
\* taker awake that will come for it, or a signal to wake one.
Coming ==
  {t \in Takers : pc[t] \in {"test", "pop"} /\ at[t] # "asleep"}

Signalling ==
  {t \in Threads \ Takers : pc[t] = "signal" \/ at[t] = "signal"}

NoLostWakeup ==
  Asleep # {} =>
    Len(queue) <= Cardinality(Coming) + Cardinality(Signalling)
                    + (IF signalEvent THEN 1 ELSE 0)

Fifo == INSTANCE FifoContract

\* Elements are taken once, in order, whichever threads put and take them.
RefinesFifo == Fifo!Spec

\* When there is an element for every take, every take returns.
EveryTakeReturns == <>(\A t \in Takers : left[t] = 0)
=============================================================================
