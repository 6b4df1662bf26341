------------------------- MODULE BlockingQueue_proofs -------------------------
(***************************************************************************)
(* BlockingQueue for any number of threads and elements: it is a FIFO, on  *)
(* either kind of condition variable, and it loses no wakeup, either on    *)
(* CONDITION_VARIABLE or, on the fallback, with a single taker.            *)
(*                                                                         *)
(* Who holds the mutex follows from where each thread is; so a taker that  *)
(* has found the queue not empty finds it so when it pops.                 *)
(***************************************************************************)
EXTENDS BlockingQueue, FiniteSetTheorems, TLAPS

-----------------------------------------------------------------------------
(* The inductive invariant.                                                *)

\* The thread is between a lock or a relock and an unlock or a release.
Holds(t) ==
  \/ pc[t] \in {"signal", "pop", "unlock"}
  \/ pc[t] = "test" /\ at[t] \in {"out", "release"}

\* Where a thread may be in uv_cond_wait or uv_cond_signal.
Sleeping == {"release", "enter", "asleep", "leave", "reset", "relock"}

PlaceInv(t) ==
  /\ pc[t] \in {"idle", "signal", "pop"} => at[t] = "out"
  /\ pc[t] = "unlock" => at[t] \in {"out", "signal"}
  /\ pc[t] = "test" => at[t] \in {"out"} \union Sleeping
  /\ pc[t] \in {"test", "pop"} => t \in Takers
  /\ pc[t] = "signal" \/ at[t] = "signal" => t \notin Takers
  /\ mutex = t <=> Holds(t)
  /\ pc[t] = "pop" => queue # <<>>
  /\ Native => at[t] \in {"out", "asleep", "relock"}

\* TypeOK but for the counters, which nothing here depends on.
Types ==
  /\ mutex \in Threads \union {Free}
  /\ pc \in [Threads -> {"idle", "signal", "test", "pop", "unlock"}]
  /\ at \in [Threads -> {"out", "signal"} \union Sleeping]
  /\ queue \in Seq(Elements) /\ taken \in Seq(Elements)

IInv == Types /\ \A t \in Threads : PlaceInv(t)

LEMMA InitIInv == Init => IInv
  BY FreeAssumption DEF Init, CondInit, IInv, Types, PlaceInv, Holds

-----------------------------------------------------------------------------
(* The steps.                                                              *)

\* A thread in put() or take().
LEMMA OwnStep ==
  ASSUME IInv, NEW t \in Threads,
         \/ \E x \in Elements : Put(t, x)
         \/ TakeLock(t) \/ TakeFound(t) \/ Pop(t) \/ Leaving(t)
  PROVE  IInv'
<1> USE FreeAssumption DEF IInv, Types, PlaceInv, Holds, Step, Sleeping
<1>1. CASE \E x \in Elements : Put(t, x)
  BY <1>1 DEF Put, Lock
<1>2. CASE TakeLock(t)
  BY <1>2 DEF TakeLock, Lock
<1>3. CASE TakeFound(t)
  BY <1>3 DEF TakeFound, cond
<1>4. CASE Pop(t)
  BY <1>4 DEF Pop, cond
<1>5. CASE Leaving(t)
  BY <1>5 DEF Leaving, Unlock
<1>6. QED
  BY <1>1, <1>2, <1>3, <1>4, <1>5

\* A thread that waits: its own steps.
LEMMA WaitingStep ==
  ASSUME IInv, NEW t \in Threads,
         TakeWait(t) \/ Unasked(t) \/ (WaitStep(t) /\ UNCHANGED <<pc, queue, taken, left>>)
  PROVE  IInv'
<1> USE FreeAssumption DEF IInv, Types, PlaceInv, Holds, Goto, Sleeping
<1>1. CASE TakeWait(t)
  BY <1>1 DEF TakeWait, Wait, NativeWait, FallbackWait
<1>2. CASE Unasked(t)
  BY <1>2 DEF Unasked, NativeWake
<1>3. CASE UNCHANGED <<pc, queue, taken>> /\ Release(t)
  BY <1>3 DEF Release
<1>4. CASE UNCHANGED <<pc, queue, taken>> /\ Block(t)
  BY <1>4 DEF Block
<1>5. CASE UNCHANGED <<pc, queue, taken>> /\ (Leave(t) \/ Reset(t))
  BY <1>5 DEF Leave, Reset
<1>6. CASE UNCHANGED <<pc, queue, taken>> /\ Relock(t)
  BY <1>6 DEF Relock
<1>7. QED
  BY <1>1, <1>2, <1>3, <1>4, <1>5, <1>6 DEF WaitStep

\* A thread that signals moves itself and, it may be, one that sleeps.
LEMMA SignalStep ==
  ASSUME IInv, NEW t \in Threads,
         PutSignal(t) \/ (CallStep(t) /\ UNCHANGED <<pc, queue, taken, left>>)
  PROVE  IInv'
<1> USE FreeAssumption DEF IInv, Types, PlaceInv, Holds, Goto, Step, Sleeping, Asleep
<1>1. CASE PutSignal(t) /\ NativeSignal(t)
  BY <1>1 DEF PutSignal, NativeSignal
<1>2. CASE PutSignal(t) /\ FallbackSignal(t)
  BY <1>2 DEF PutSignal, FallbackSignal
<1>3. CASE SetSignal(t) /\ UNCHANGED <<pc, queue, taken>>
  BY <1>3 DEF SetSignal
<1>4. CASE SetBroadcast(t)
  BY <1>4 DEF SetBroadcast
<1>5. QED
  BY <1>1, <1>2, <1>3, <1>4 DEF PutSignal, Signal, CallStep

LEMMA NextIInv == IInv /\ [Next]_vars => IInv'
<1> SUFFICES ASSUME IInv, [Next]_vars PROVE IInv'
  OBVIOUS
<1>1. CASE UNCHANGED vars
  BY <1>1 DEF vars, cond, IInv, Types, PlaceInv, Holds
<1>2. ASSUME NEW t \in Threads,
             ThreadNext(t) \/ Unasked(t) \/ TakeLock(t) \/ \E x \in Elements : Put(t, x)
      PROVE  IInv'
  BY <1>2, OwnStep, WaitingStep, SignalStep DEF ThreadNext, Inside
<1>3. QED
  BY <1>1, <1>2 DEF Next, Quiet

\* Who holds the mutex, and that the queue is not empty at a pop.
THEOREM Invariant == Spec => []IInv
  BY InitIInv, NextIInv, PTL DEF Spec

-----------------------------------------------------------------------------
(* The refinement.                                                         *)

\* Every step puts an element not seen before, takes the first one, or leaves
\* the queue and what was taken alone.
LEMMA StepRefines == IInv /\ [Next]_vars => [Fifo!Next]_<<queue, taken>>
<1> SUFFICES ASSUME IInv, [Next]_vars
             PROVE  Fifo!Next \/ UNCHANGED <<queue, taken>>
  OBVIOUS
<1>1. CASE UNCHANGED vars
  BY <1>1 DEF vars
<1>2. ASSUME NEW t \in Threads, NEW x \in Elements, Put(t, x) PROVE Fifo!Next
  BY <1>2 DEF Put, IsIn, Fifo!Next, Fifo!Put, Fifo!Fresh
<1>3. ASSUME NEW t \in Threads, Pop(t) PROVE Fifo!Next
  <2>1. pc[t] = "pop" BY <1>3 DEF Pop, Step
  <2>2. queue # <<>> BY <2>1 DEF IInv, PlaceInv
  <2> QED BY <1>3, <2>2 DEF Pop, Fifo!Next, Fifo!Take
<1>4. ASSUME NEW t \in Threads,
             PutSignal(t) \/ TakeWait(t) \/ TakeFound(t) \/ Leaving(t)
               \/ Inside(t) \/ Unasked(t) \/ TakeLock(t)
      PROVE  UNCHANGED <<queue, taken>>
  BY <1>4 DEF PutSignal, TakeWait, TakeFound, Leaving, Inside, Unasked, TakeLock
<1>5. QED
  BY <1>1, <1>2, <1>3, <1>4 DEF Next, Quiet, ThreadNext

\* The queue is a FIFO: elements are taken once, in the order they were put.
THEOREM Refinement == Spec => RefinesFifo
<1>1. Init => Fifo!Init
  BY DEF Init, Fifo!Init
<1>2. QED
  BY <1>1, Invariant, StepRefines, PTL DEF Spec, RefinesFifo, Fifo!Spec

-----------------------------------------------------------------------------
(* No lost wakeup on CONDITION_VARIABLE.                                   *)

\* The takers that will come and the threads that will signal are enough.
Enough ==
  /\ ~ signalEvent
  /\ Asleep # {} => Len(queue) <= Cardinality(Coming) + Cardinality(Signalling)

\* How the size of a set of threads follows its members.
LEMMA Counted ==
  ASSUME NEW S \in SUBSET Threads, NEW T \in SUBSET Threads
  PROVE  /\ Cardinality(S) \in Nat
         /\ S \subseteq T => Cardinality(S) <= Cardinality(T)
         /\ \A t \in T \ S : S \subseteq T => Cardinality(S) + 1 <= Cardinality(T)
         /\ \A t \in S : S \ {t} \subseteq T => Cardinality(S) <= Cardinality(T) + 1
<1>1. IsFiniteSet(S) /\ IsFiniteSet(T)
  BY ThreadsAssumption, FS_Subset
<1>2. Cardinality(S) \in Nat /\ Cardinality(T) \in Nat
  BY <1>1, FS_CardinalityType
<1>3. ASSUME S \subseteq T PROVE Cardinality(S) <= Cardinality(T)
  BY <1>1, <1>3, FS_Subset
<1>4. ASSUME NEW t \in T \ S, S \subseteq T PROVE Cardinality(S) + 1 <= Cardinality(T)
  <2>1. Cardinality(S \union {t}) = Cardinality(S) + 1
    BY <1>1, FS_AddElement
  <2>2. S \union {t} \in SUBSET T
    BY <1>4
  <2>3. Cardinality(S \union {t}) <= Cardinality(T)
    BY <1>1, <2>2, FS_Subset
  <2> QED BY <2>1, <2>3
<1>5. ASSUME NEW t \in S, S \ {t} \subseteq T PROVE Cardinality(S) <= Cardinality(T) + 1
  <2>1. Cardinality(S \ {t}) = Cardinality(S) - 1
    BY <1>1, FS_RemoveElement
  <2>2. S \ {t} \in SUBSET T
    BY <1>5
  <2>3. Cardinality(S \ {t}) <= Cardinality(T)
    BY <1>1, <2>2, FS_Subset
  <2> QED BY <1>2, <2>1, <2>3
<1>6. QED
  BY <1>2, <1>3, <1>4, <1>5

LEMMA Sets ==
  ASSUME IInv
  PROVE  /\ Coming \in SUBSET Threads /\ Signalling \in SUBSET Threads
         /\ Asleep \subseteq Takers /\ \A t \in Asleep : pc[t] = "test"
  BY TakersAssumption DEF Coming, Signalling, Asleep, IInv, Types, PlaceInv, Holds, Sleeping

\* A step that puts nothing, and takes no taker or signal away.
LEMMA StaysEnough ==
  ASSUME IInv, IInv', Enough, ~ signalEvent', queue' = queue,
         Asleep' \subseteq Asleep, Coming \subseteq Coming', Signalling \subseteq Signalling'
  PROVE  Enough'
<1>1. queue \in Seq(Elements)
  BY DEF IInv, Types
<1>2. Coming' \in SUBSET Threads /\ Signalling' \in SUBSET Threads
  BY TakersAssumption DEF Coming, Signalling
<1>3. /\ Cardinality(Coming) <= Cardinality(Coming')
      /\ Cardinality(Signalling) <= Cardinality(Signalling')
      /\ Cardinality(Coming) \in Nat /\ Cardinality(Coming') \in Nat
      /\ Cardinality(Signalling) \in Nat /\ Cardinality(Signalling') \in Nat
  BY <1>2, Sets, Counted
<1> QED BY <1>1, <1>3 DEF Enough

LEMMA PutEnough ==
  ASSUME Native, IInv, IInv', Enough, NEW t \in Threads, NEW x \in Elements, Put(t, x)
  PROVE  Enough'
<1>1. queue \in Seq(Elements) /\ Len(queue') = Len(queue) + 1
  BY DEF IInv, Types, Put
<1>2. Asleep' = Asleep /\ Coming' = Coming /\ ~ signalEvent'
  BY TakersAssumption DEF IInv, Types, Put, Step, Lock, Asleep, Coming, Enough, events
<1>3. t \in Signalling' \ Signalling /\ Signalling \subseteq Signalling'
  BY DEF IInv, Types, PlaceInv, Put, Step, Lock, Signalling
<1>4. Signalling' \in SUBSET Threads
  BY DEF Signalling
<1>5. /\ Cardinality(Signalling) + 1 <= Cardinality(Signalling')
      /\ Cardinality(Coming) \in Nat
      /\ Cardinality(Signalling) \in Nat /\ Cardinality(Signalling') \in Nat
  BY <1>3, <1>4, Sets, Counted
<1> QED BY <1>1, <1>2, <1>5 DEF Enough

LEMMA SignalEnough ==
  ASSUME Native, IInv, IInv', Enough, NEW s \in Threads, PutSignal(s)
  PROVE  Enough'
<1> USE DEF IInv, Types, PlaceInv
<1>1. NativeSignal(s) /\ queue' = queue /\ ~ signalEvent'
  BY DEF PutSignal, Signal, FallbackSignal, NativeSignal, Enough, events
<1>2. CASE Asleep = {}
  BY <1>1, <1>2 DEF NativeSignal, Asleep, Enough
<1>3. CASE Asleep # {}
  <2>1. PICK u \in Asleep : at' = [at EXCEPT ![u] = "relock"]
    BY <1>1, <1>3 DEF NativeSignal
  <2>2. u \in Takers /\ u \in Threads /\ u # s /\ pc[u] = "test" /\ at[u] = "asleep"
    BY <2>1, Sets DEF Asleep, PutSignal, Step
  <2>3. u \in Coming' \ Coming /\ Coming \subseteq Coming'
    BY <2>1, <2>2, TakersAssumption DEF PutSignal, Step, Coming
  <2>4. Signalling \ {s} \subseteq Signalling' /\ s \in Signalling
    BY <2>1, <2>2 DEF PutSignal, Step, Signalling
  <2>5. Coming' \in SUBSET Threads /\ Signalling' \in SUBSET Threads
    BY TakersAssumption DEF Coming, Signalling
  <2>6. /\ Cardinality(Coming) + 1 <= Cardinality(Coming')
        /\ Cardinality(Coming) \in Nat /\ Cardinality(Coming') \in Nat
    BY <2>3, <2>5, Sets, Counted
  <2>7. /\ Cardinality(Signalling) <= Cardinality(Signalling') + 1
        /\ Cardinality(Signalling) \in Nat /\ Cardinality(Signalling') \in Nat
    BY <2>4, <2>5, Sets, Counted
  <2>8. queue \in Seq(Elements)
    OBVIOUS
  <2> HIDE DEF IInv
  <2> QED BY <1>1, <1>3, <2>6, <2>7, <2>8 DEF Enough
<1> QED BY <1>2, <1>3

LEMMA PopEnough ==
  ASSUME Native, IInv, IInv', Enough, NEW t \in Threads, Pop(t)
  PROVE  Enough'
<1>1. queue \in Seq(Elements) /\ queue # <<>> /\ Len(queue') = Len(queue) - 1
  BY DEF IInv, Types, PlaceInv, Pop, Step
<1>2. Asleep' = Asleep /\ ~ signalEvent' /\ Signalling' = Signalling
  BY DEF IInv, Types, Pop, Step, cond, Asleep, Signalling, Enough, events
<1>3. Coming \ {t} \subseteq Coming' /\ t \in Coming
  BY DEF IInv, Types, PlaceInv, Pop, Step, cond, Coming
<1>4. Coming' \in SUBSET Threads
  BY TakersAssumption DEF Coming
<1>5. /\ Cardinality(Coming) <= Cardinality(Coming') + 1
      /\ Cardinality(Coming) \in Nat /\ Cardinality(Coming') \in Nat
      /\ Cardinality(Signalling) \in Nat
  BY <1>3, <1>4, Sets, Counted
<1> QED BY <1>1, <1>2, <1>5 DEF Enough

LEMMA NextEnough ==
  ASSUME Native
  PROVE  IInv /\ IInv' /\ Enough /\ [Next]_vars => Enough'
<1> SUFFICES ASSUME IInv, IInv', Enough, [Next]_vars PROVE Enough'
  OBVIOUS
<1>1. CASE UNCHANGED vars
  BY <1>1 DEF vars, cond, events, Enough, Asleep, Coming, Signalling
<1>2. ASSUME NEW t \in Threads, TakeWait(t) PROVE Enough'
  <2>1. Len(queue') = 0 /\ ~ signalEvent'
    BY <1>2 DEF TakeWait, Wait, NativeWait, FallbackWait, Enough, events
  <2>2. Coming' \in SUBSET Threads /\ Signalling' \in SUBSET Threads
    BY TakersAssumption DEF Coming, Signalling
  <2>3. Cardinality(Coming') \in Nat /\ Cardinality(Signalling') \in Nat
    BY <2>2, Counted
  <2> QED BY <2>1, <2>3 DEF Enough
<1>3. ASSUME NEW t \in Threads, TakeLock(t) \/ TakeFound(t) \/ Leaving(t) PROVE Enough'
  <2>1. queue' = queue /\ at' = at /\ signalEvent' = signalEvent
    BY <1>3 DEF TakeLock, TakeFound, Leaving, Lock, Unlock, cond, events
  <2>2. pc[t] \in {"idle", "test", "unlock"} /\ (pc[t] = "test" => pc'[t] = "pop")
           /\ at[t] # "signal" /\ \A u \in Threads : u # t => pc'[u] = pc[u]
    BY <1>3 DEF TakeLock, TakeFound, Leaving, Unlock, Step, IInv, Types, PlaceInv
  <2>3. Coming \subseteq Coming' /\ Signalling \subseteq Signalling'
    BY <2>1, <2>2, TakersAssumption DEF Coming, Signalling
  <2> QED BY <2>1, <2>3, StaysEnough DEF Asleep, Enough
<1>4. ASSUME NEW t \in Threads, Unasked(t) \/ Inside(t) PROVE Enough'
  <2>1. queue' = queue /\ pc' = pc /\ signalEvent' = signalEvent
           /\ \E to \in {"relock", "out"} : at' = [at EXCEPT ![t] = to]
           /\ at[t] \in {"asleep", "relock"}
    BY <1>4 DEF Unasked, NativeWake, Inside, WaitStep, Release, Block, Leave, Reset, Relock,
                CallStep, SetSignal, SetBroadcast, Goto, events, IInv, Types, PlaceInv
  <2>2. /\ Coming \subseteq Coming' /\ Signalling \subseteq Signalling'
        /\ Asleep' \subseteq Asleep
    BY <2>1 DEF Coming, Signalling, Asleep, IInv, Types, PlaceInv
  <2> QED BY <2>1, <2>2, StaysEnough DEF Enough
<1>5. QED
  BY <1>1, <1>2, <1>3, <1>4, PutEnough, SignalEnough, PopEnough DEF Next, Quiet, ThreadNext

\* On CONDITION_VARIABLE no taker sleeps on while an element is there for it.
THEOREM NoLost ==
  ASSUME Native
  PROVE  Spec => []NoLostWakeup
<1>1. Init => Enough
  BY DEF Init, CondInit, Enough, Asleep
<1>2. Enough => NoLostWakeup
  <2> SUFFICES ASSUME Enough, Asleep # {} PROVE NoLostWakeup
    BY DEF NoLostWakeup
  <2> DEFINE n == Cardinality(Coming) + Cardinality(Signalling)
  <2>1. Coming \in SUBSET Threads /\ Signalling \in SUBSET Threads
    BY TakersAssumption DEF Coming, Signalling
  <2>2. n + 0 = n
    BY <2>1, Counted
  <2> HIDE DEF n
  <2>3. Len(queue) <= n + 0
    BY <2>2 DEF Enough, n
  <2> QED BY <2>3 DEF Enough, NoLostWakeup, n
<1>3. QED
  BY <1>1, <1>2, NextEnough, Invariant, PTL DEF Spec

-----------------------------------------------------------------------------
(* The type invariant.                                                     *)

\* The threads that uv_cond_wait of the fallback counts.
InWait == {t \in Threads : ~ Native /\ at[t] \in {"release", "enter", "asleep", "leave"}}

\* waiters_count is their number, so that it is never decremented below zero; a
\* taker inside take() has an element still to take.
CountInv ==
  /\ waiters \in Nat /\ waiters = Cardinality(InWait)
  /\ signalEvent \in BOOLEAN /\ broadcastEvent = FALSE
  /\ result \in [Threads -> {"none", "signal", "broadcast", "timeout"}]
  /\ left \in [Takers -> 0..Takes]
  /\ \A t \in Takers : pc[t] \in {"test", "pop"} => left[t] > 0

LEMMA CountStep ==
  ASSUME CountInv, NEW t \in Threads,
         \/ waiters' = waiters + 1 /\ t \notin InWait /\ InWait' = InWait \union {t}
         \/ waiters' = waiters - 1 /\ t \in InWait /\ InWait' = InWait \ {t}
         \/ waiters' = waiters /\ InWait' = InWait
  PROVE  waiters' \in Nat /\ waiters' = Cardinality(InWait')
<1>0. IsFiniteSet(InWait)
  BY ThreadsAssumption, FS_Subset DEF InWait
<1>1. CASE waiters' = waiters + 1 /\ t \notin InWait /\ InWait' = InWait \union {t}
  BY <1>0, <1>1, FS_AddElement DEF CountInv
<1>2. CASE waiters' = waiters - 1 /\ t \in InWait /\ InWait' = InWait \ {t}
  <2>1. Cardinality(InWait \ {t}) = Cardinality(InWait) - 1
    BY <1>0, <1>2, FS_RemoveElement
  <2>2. Cardinality(InWait \ {t}) \in Nat
    BY <1>0, FS_RemoveElement, FS_CardinalityType
  <2> QED BY <1>2, <2>1, <2>2 DEF CountInv
<1>3. CASE waiters' = waiters /\ InWait' = InWait
  BY <1>3 DEF CountInv
<1> QED BY <1>1, <1>2, <1>3

LEMMA InitCountInv == Init => CountInv
<1> SUFFICES ASSUME Init PROVE CountInv
  OBVIOUS
<1>1. InWait = {}
  BY DEF Init, CondInit, InWait
<1>2. waiters = Cardinality(InWait)
  BY <1>1, FS_EmptySet DEF Init, CondInit
<1>3. left \in [Takers -> 0..Takes] /\ \A t \in Threads : pc[t] = "idle"
  BY TakesAssumption DEF Init
<1>4. /\ waiters \in Nat /\ signalEvent \in BOOLEAN /\ broadcastEvent = FALSE
      /\ result \in [Threads -> {"none", "signal", "broadcast", "timeout"}]
  BY DEF Init, CondInit
<1> QED BY <1>2, <1>3, <1>4, TakersAssumption DEF CountInv

\* The steps of put() and take() that leave the condition variable alone.
LEMMA OwnCount ==
  ASSUME IInv, CountInv, NEW t \in Threads,
         \/ \E x \in Elements : Put(t, x)
         \/ TakeLock(t) \/ TakeFound(t) \/ Pop(t) \/ Leaving(t)
  PROVE  CountInv'
<1>1. UNCHANGED <<at, waiters, signalEvent, broadcastEvent, result>>
  BY DEF Put, TakeLock, TakeFound, Pop, Leaving, Lock, Unlock, cond, events
<1>2. InWait' = InWait
  BY <1>1 DEF InWait
<1>3. \A u \in Threads : u # t => pc'[u] = pc[u]
  BY DEF IInv, Types, Put, TakeLock, TakeFound, Pop, Leaving, Step
<1>4. /\ left' \in [Takers -> 0..Takes]
      /\ \A u \in Takers : pc'[u] \in {"test", "pop"} => left'[u] > 0
  <2>1. CASE Pop(t)
    <3>1. t \in Takers /\ left[t] > 0 /\ left' = [left EXCEPT ![t] = @ - 1]
      BY <2>1 DEF Pop, Step, IInv, PlaceInv, CountInv
    <3>2. left[t] \in 0..Takes /\ left[t] - 1 \in 0..Takes
      BY <3>1, TakesAssumption DEF CountInv
    <3>3. left' \in [Takers -> 0..Takes] /\ \A u \in Takers : u # t => left'[u] = left[u]
      BY <3>1, <3>2 DEF CountInv
    <3>4. pc'[t] = "unlock"
      BY <2>1 DEF Pop, Step, IInv, Types
    <3> QED BY <1>3, <3>3, <3>4, TakersAssumption DEF CountInv
  <2>2. CASE ~ Pop(t)
    <3>1. left' = left /\ (t \in Takers /\ pc'[t] \in {"test", "pop"} => left[t] > 0)
      BY <2>2 DEF Put, TakeLock, TakeFound, Leaving, Step, IInv, Types, CountInv
    <3> QED BY <1>3, <3>1, TakersAssumption DEF CountInv
  <2> QED BY <2>1, <2>2
<1> QED BY <1>1, <1>2, <1>4 DEF CountInv

\* The steps in uv_cond_wait and uv_cond_signal.
LEMMA CondCount ==
  ASSUME IInv, CountInv, NEW t \in Threads,
         PutSignal(t) \/ TakeWait(t) \/ Inside(t) \/ Unasked(t)
  PROVE  CountInv'
<1> USE DEF IInv, Types, PlaceInv, Goto, events
<1>1. /\ left' = left
      /\ \A u \in Takers : pc'[u] \in {"test", "pop"} => pc'[u] = pc[u]
  BY TakersAssumption DEF PutSignal, TakeWait, Inside, Unasked, Step
<1>2. ASSUME NEW u \in Threads, NEW from, NEW to, at[u] = from, at' = [at EXCEPT ![u] = to],
             waiters' = waiters,
             Native \/ from \in {"release", "enter", "asleep", "leave"}
                         <=> Native \/ to \in {"release", "enter", "asleep", "leave"}
      PROVE  InWait' = InWait
  BY <1>2 DEF InWait
<1>3. \A u \in Threads : at[u] # "broadcast"
  BY DEF Sleeping
<1>4. /\ waiters' \in Nat /\ waiters' = Cardinality(InWait')
      /\ signalEvent' \in BOOLEAN /\ broadcastEvent' = FALSE
      /\ result' \in [Threads -> {"none", "signal", "broadcast", "timeout"}]
  <2>1. CASE TakeWait(t) /\ FallbackWait(t)
    <3>1. /\ at[t] = "out" /\ at' = [at EXCEPT ![t] = "release"] /\ waiters' = waiters + 1
          /\ ~ Native /\ UNCHANGED <<signalEvent, broadcastEvent, result>>
      BY <2>1 DEF FallbackWait
    <3>2. t \notin InWait /\ InWait' = InWait \union {t}
      BY <3>1 DEF InWait
    <3> QED BY <3>1, <3>2, CountStep DEF CountInv
  <2>2. CASE Inside(t) /\ Leave(t)
    <3>1. PICK to \in {"reset", "relock"} : at[t] = "leave" /\ at' = [at EXCEPT ![t] = to]
      BY <2>2 DEF Leave
    <3>2. waiters' = waiters - 1 /\ ~ Native /\ UNCHANGED <<signalEvent, broadcastEvent, result>>
      BY <2>2 DEF Leave
    <3>3. t \in InWait /\ InWait' = InWait \ {t}
      BY <3>1, <3>2 DEF InWait
    <3> QED BY <3>2, <3>3, CountStep DEF CountInv
  <2>3. CASE Inside(t) /\ SetSignal(t)
    <3>1. at[t] = "signal" /\ waiters' = waiters /\ broadcastEvent' = broadcastEvent
      BY <2>3 DEF SetSignal
    <3>2. InWait' = InWait
      <4>1. CASE at' = [at EXCEPT ![t] = "out"]
        BY <3>1, <4>1 DEF InWait
      <4>2. CASE \E u \in Asleep : at' = [at EXCEPT ![t] = "out", ![u] = "leave"]
        BY <3>1, <4>2 DEF InWait, Asleep
      <4> QED BY <2>3, <4>1, <4>2 DEF SetSignal
    <3>3. /\ signalEvent' \in BOOLEAN
          /\ result' \in [Threads -> {"none", "signal", "broadcast", "timeout"}]
      BY <2>3 DEF SetSignal, CountInv
    <3> QED BY <3>1, <3>2, <3>3 DEF CountInv
  <2>4. CASE PutSignal(t) \/ (TakeWait(t) /\ NativeWait(t)) \/ Unasked(t)
    <3>1. UNCHANGED <<waiters, signalEvent, broadcastEvent, result>>
      BY <2>4 DEF PutSignal, Signal, NativeSignal, FallbackSignal, NativeWait, Unasked, NativeWake
    <3>2. InWait' = InWait
      <4>1. CASE Native
        BY <4>1 DEF InWait
      <4>2. CASE ~ Native
        BY <2>4, <4>2 DEF PutSignal, Signal, NativeSignal, FallbackSignal, NativeWait, Unasked,
                          NativeWake, InWait, Step
      <4> QED BY <4>1, <4>2
    <3> QED BY <3>1, <3>2 DEF CountInv
  <2>5. CASE Inside(t) /\ (Release(t) \/ Block(t) \/ Reset(t) \/ Relock(t))
    <3>1. waiters' = waiters /\ broadcastEvent' = FALSE /\ signalEvent' \in BOOLEAN
      BY <2>5 DEF Release, Block, Reset, Relock, CountInv
    <3>2. result' \in [Threads -> {"none", "signal", "broadcast", "timeout"}]
      <4>1. CASE Block(t)
        <5>1. PICK r \in {"none", "signal", "broadcast"} : result' = [result EXCEPT ![t] = r]
          BY <4>1 DEF Block
        <5> QED BY <5>1 DEF CountInv
      <4>2. CASE Release(t) \/ Reset(t) \/ Relock(t)
        BY <4>2 DEF Release, Reset, Relock, CountInv
      <4> QED BY <2>5, <4>1, <4>2
    <3>3. InWait' = InWait
      <4>1. CASE Release(t)
        BY <4>1 DEF Release, InWait
      <4>2. CASE Block(t)
        BY <4>2 DEF Block, InWait
      <4>3. CASE Reset(t) \/ Relock(t)
        BY <4>3 DEF Reset, Relock, InWait
      <4> QED BY <2>5, <4>1, <4>2, <4>3
    <3> QED BY <3>1, <3>2, <3>3 DEF CountInv
  <2> QED
    BY <1>3, <2>1, <2>2, <2>3, <2>4, <2>5 DEF TakeWait, Wait, Inside, WaitStep, CallStep, SetBroadcast
<1> HIDE DEF IInv
<1> QED BY <1>1, <1>4 DEF CountInv

LEMMA NextCountInv == IInv /\ CountInv /\ [Next]_vars => CountInv'
<1> SUFFICES ASSUME IInv, CountInv, [Next]_vars PROVE CountInv'
  OBVIOUS
<1>1. CASE UNCHANGED vars
  BY <1>1 DEF vars, cond, events, CountInv, InWait
<1>2. ASSUME NEW t \in Threads,
             ThreadNext(t) \/ Unasked(t) \/ TakeLock(t) \/ \E x \in Elements : Put(t, x)
      PROVE  CountInv'
  BY <1>2, OwnCount, CondCount DEF ThreadNext
<1> QED BY <1>1, <1>2 DEF Next, Quiet

\* The values of the condition variable's and the queue's state, on either kind.
THEOREM TypeCorrect == Spec => []TypeOK
<1>1. IInv /\ CountInv => TypeOK
  <2> SUFFICES ASSUME IInv, CountInv PROVE TypeOK
    OBVIOUS
  <2>1. at \in [Threads -> {"out", "release", "enter", "asleep", "leave", "reset", "relock",
                          "signal", "broadcast"}]
    BY DEF IInv, Types, Sleeping
  <2>2. broadcastEvent \in BOOLEAN
    BY DEF CountInv
  <2> QED BY <2>1, <2>2 DEF IInv, CountInv, Types, TypeOK, CondTypeOK
<1> QED BY <1>1, InitCountInv, NextCountInv, Invariant, PTL DEF Spec

-----------------------------------------------------------------------------
(* No lost wakeup of a single taker on the fallback.                       *)

\* While the taker is on its way to sleep, the signal event is set or each
\* element in the queue has a thread that will signal; while it sleeps, each
\* has.  With two takers on their way to sleep it is not so: the event, set
\* twice, is still for one.
Awaits ==
  \A t \in Takers :
    /\ at[t] \in {"release", "enter"} => signalEvent \/ Len(queue) <= Cardinality(Signalling)
    /\ at[t] = "asleep" => Len(queue) <= Cardinality(Signalling)

LEMMA NextAwaits ==
  ASSUME ~ Native, \A t, u \in Takers : t = u,
         IInv, IInv', CountInv, Awaits, [Next]_vars
  PROVE  Awaits'
<1> USE DEF events
<1>1. /\ Signalling \in SUBSET Threads /\ Signalling' \in SUBSET Threads
      /\ Cardinality(Signalling) \in Nat /\ Cardinality(Signalling') \in Nat
  BY Counted DEF Signalling
<1>2. queue \in Seq(Elements) /\ Len(queue) \in Nat
  BY DEF IInv, Types
\* A step after which nobody waits.
<1>3. ASSUME \A u \in Takers : at'[u] \notin {"release", "enter", "asleep"} PROVE Awaits'
  BY <1>3 DEF Awaits
\* A step that puts nothing, leaves the event and those who sleep alone, and
\* takes no signal away.
<1>4. ASSUME queue' = queue, signalEvent' = signalEvent, Signalling \subseteq Signalling',
             \A u \in Takers : \/ at'[u] \notin {"release", "enter", "asleep"}
                               \/ at'[u] = at[u] \/ (at[u] = "release" /\ at'[u] = "enter")
      PROVE  Awaits'
  <2>1. Cardinality(Signalling) <= Cardinality(Signalling')
    BY <1>1, <1>4, Counted
  <2> QED BY <1>1, <1>2, <1>4, <2>1 DEF Awaits
<1>5. ASSUME NEW t \in Threads, NEW x \in Elements, Put(t, x) PROVE Awaits'
  <2>1. /\ Len(queue') = Len(queue) + 1 /\ UNCHANGED <<at, signalEvent>>
        /\ t \notin Takers /\ pc[t] = "idle" /\ pc' = [pc EXCEPT ![t] = "signal"]
    BY <1>5, <1>2 DEF Put, Lock, Step
  <2>2. t \in Signalling' \ Signalling /\ Signalling \subseteq Signalling'
    BY <2>1 DEF Signalling, IInv, Types, PlaceInv
  <2>3. Cardinality(Signalling) + 1 <= Cardinality(Signalling')
    BY <1>1, <2>2, Counted
  <2> QED BY <1>1, <1>2, <2>1, <2>3 DEF Awaits
<1>6. ASSUME NEW t \in Threads, PutSignal(t) PROVE Awaits'
  <2>1. /\ queue' = queue /\ signalEvent' = signalEvent /\ pc[t] = "signal" /\ at[t] = "out"
        /\ pc' = [pc EXCEPT ![t] = "unlock"] /\ t \notin Takers
        /\ at' = [at EXCEPT ![t] = IF waiters > 0 THEN "signal" ELSE "out"]
    BY <1>6 DEF PutSignal, Step, Signal, NativeSignal, FallbackSignal, Goto, IInv, PlaceInv
  <2>2. CASE waiters > 0
    <3>1. Signalling \subseteq Signalling'
      BY <2>1, <2>2 DEF Signalling, IInv, Types
    <3>2. \A u \in Takers : at'[u] = at[u]
      BY <2>1, TakersAssumption DEF IInv, Types
    <3> QED BY <1>4, <2>1, <3>1, <3>2
  <2>3. CASE ~ (waiters > 0)
    <3>1. Cardinality(InWait) = 0 /\ IsFiniteSet(InWait)
      BY <2>3, ThreadsAssumption, FS_Subset DEF CountInv, InWait
    <3>2. InWait = {}
      BY <3>1, FS_EmptySet
    <3>3. \A u \in Takers : at'[u] \notin {"release", "enter", "asleep"}
      BY <2>1, <3>2, TakersAssumption DEF InWait, IInv, Types
    <3> QED BY <1>3, <3>3
  <2> QED BY <2>2, <2>3
<1>7. ASSUME NEW t \in Threads, Inside(t), SetSignal(t) PROVE Awaits'
  <2>1. at[t] = "signal" /\ queue' = queue /\ t \notin Takers /\ pc' = pc
    BY <1>7 DEF Inside, SetSignal, IInv, PlaceInv
  <2>2. CASE Asleep = {} /\ signalEvent' = TRUE /\ at' = [at EXCEPT ![t] = "out"]
    <3>1. \A u \in Takers : at'[u] # "asleep"
      BY <2>1, <2>2, TakersAssumption DEF Asleep, IInv, Types
    <3> QED BY <2>2, <3>1 DEF Awaits
  <2>3. ASSUME NEW v \in Asleep, at' = [at EXCEPT ![t] = "out", ![v] = "leave"] PROVE Awaits'
    <3>1. v \in Takers /\ v \in Threads
      BY Sets DEF Asleep
    <3>2. at'[v] = "leave"
      BY <2>3, <3>1 DEF IInv, Types
    <3> QED BY <1>3, <3>1, <3>2
  <2> QED BY <1>7, <2>2, <2>3 DEF SetSignal
<1>8. ASSUME NEW t \in Threads, TakeWait(t) PROVE Awaits'
  <2>1. queue' = <<>>
    BY <1>8 DEF TakeWait
  <2> QED BY <1>1, <2>1 DEF Awaits
<1>9. ASSUME NEW t \in Threads, Inside(t), Block(t) PROVE Awaits'
  <2>1. at[t] = "enter" /\ queue' = queue /\ pc' = pc
    BY <1>9 DEF Inside, Block, Goto
  <2>2. t \in Takers
    BY <2>1 DEF IInv, PlaceInv, Types
  <2>3. CASE signalEvent
    <3>1. at'[t] = "leave"
      BY <1>9, <2>1, <2>3 DEF Block, Goto, IInv, Types
    <3> QED BY <1>3, <2>2, <3>1
  <2>4. CASE ~ signalEvent
    <3>1. Len(queue) <= Cardinality(Signalling)
      BY <2>1, <2>2, <2>4 DEF Awaits
    <3>2. \A to : at' = [at EXCEPT ![t] = to] /\ to # "signal" => Signalling' = Signalling
      BY <2>1 DEF Signalling, IInv, Types
    <3>3. Signalling' = Signalling
      BY <1>9, <3>2 DEF Block, Goto
    <3> QED BY <2>1, <3>1, <3>3 DEF Awaits
  <2> QED BY <2>3, <2>4
<1>10. ASSUME NEW t \in Threads, Inside(t), Release(t) \/ Leave(t) \/ Reset(t) \/ Relock(t)
       PROVE  Awaits'
  <2>1. PICK to \in {"enter", "reset", "relock", "out"} :
          /\ at[t] \notin {"signal"} /\ at' = [at EXCEPT ![t] = to]
          /\ to = "enter" => at[t] = "release"
    BY <1>10 DEF Release, Leave, Reset, Relock, Goto
  <2>2. queue' = queue /\ pc' = pc /\ signalEvent' = signalEvent
    BY <1>10 DEF Inside, Release, Leave, Reset, Relock
  <2>3. Signalling \subseteq Signalling'
    BY <2>1, <2>2 DEF Signalling, IInv, Types
  <2>4. \A u \in Takers : \/ at'[u] \notin {"release", "enter", "asleep"}
                          \/ at'[u] = at[u] \/ (at[u] = "release" /\ at'[u] = "enter")
    BY <2>1, TakersAssumption DEF IInv, Types
  <2> QED BY <1>4, <2>2, <2>3, <2>4
<1>11. ASSUME NEW t \in Threads, TakeLock(t) \/ TakeFound(t) \/ Leaving(t) PROVE Awaits'
  <2>1. queue' = queue /\ at' = at /\ signalEvent' = signalEvent
    BY <1>11 DEF TakeLock, TakeFound, Leaving, Lock, Unlock, cond
  <2>2. pc[t] # "signal" /\ \A u \in Threads : u # t => pc'[u] = pc[u]
    BY <1>11 DEF TakeLock, TakeFound, Leaving, Step, IInv, Types
  <2>3. Signalling \subseteq Signalling'
    BY <2>1, <2>2 DEF Signalling
  <2> QED BY <1>4, <2>1, <2>3
<1>12. ASSUME NEW t \in Threads, Pop(t) PROVE Awaits'
  <2>1. /\ pc[t] = "pop" /\ pc' = [pc EXCEPT ![t] = "unlock"]
        /\ UNCHANGED <<at, signalEvent>> /\ Len(queue') <= Len(queue) /\ Len(queue') \in Nat
    BY <1>12, <1>2 DEF Pop, Step, cond
  <2>2. Signalling' = Signalling
    BY <2>1 DEF Signalling, IInv, Types
  <2> QED BY <1>1, <1>2, <2>1, <2>2 DEF Awaits
<1>13. CASE UNCHANGED vars
  BY <1>13 DEF vars, cond, Awaits, Signalling
<1>14. ASSUME NEW t \in Threads PROVE ~ Unasked(t) /\ ~ SetBroadcast(t)
  BY DEF Unasked, NativeWake, SetBroadcast, IInv, Types, Sleeping
<1> QED
  BY <1>5, <1>6, <1>7, <1>8, <1>9, <1>10, <1>11, <1>12, <1>13, <1>14
     DEF Next, Quiet, ThreadNext, Inside, WaitStep, CallStep

\* On the fallback a single taker does not sleep on while an element is there
\* for it.
THEOREM NoLostAlone ==
  ASSUME ~ Native, \A t, u \in Takers : t = u
  PROVE  Spec => []NoLostWakeup
<1>1. Init => Awaits
  BY TakersAssumption DEF Init, CondInit, Awaits
<1>2. IInv /\ Awaits => NoLostWakeup
  <2> SUFFICES ASSUME IInv, Awaits, NEW t \in Asleep PROVE NoLostWakeup
    BY DEF NoLostWakeup
  <2>1. t \in Takers /\ at[t] = "asleep"
    BY Sets DEF Asleep
  <2>2. Len(queue) <= Cardinality(Signalling)
    BY <2>1 DEF Awaits
  <2>3. Cardinality(Signalling) \in Nat /\ Cardinality(Coming) \in Nat
    BY Sets, Counted
  <2>4. Len(queue) \in Nat
    BY DEF IInv, Types
  <2> DEFINE n == IF signalEvent THEN 1 ELSE 0
  <2>5. n \in {0, 1}
    OBVIOUS
  <2> HIDE DEF n
  <2>6. Len(queue) <= Cardinality(Coming) + Cardinality(Signalling) + n
    BY <2>2, <2>3, <2>4, <2>5
  <2> QED BY <2>6 DEF NoLostWakeup, n
<1>3. IInv /\ IInv' /\ CountInv /\ Awaits /\ [Next]_vars => Awaits'
  BY NextAwaits
<1> QED BY <1>1, <1>2, <1>3, InitCountInv, NextCountInv, Invariant, PTL DEF Spec
=============================================================================
