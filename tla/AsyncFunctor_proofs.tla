------------------------ MODULE AsyncFunctor_proofs -------------------------
(***************************************************************************)
(* AsyncFunctor for any number of threads and functors, null or not: no    *)
(* wakeup is lost, the packet is queued once, and the drain implements a   *)
(* FIFO executor.                                                          *)
(***************************************************************************)
EXTENDS AsyncFunctor, FiniteSetTheorems, TLAPS

USE ThreadsAssumption, JobsAssumption

\* The mutex holder is the one thread inside queue(), and only it has a
\* functor in hand.
MutexInv ==
  \A t \in Threads :
    /\ pc[t] # "idle" => mutex = t
    /\ arg[t] # None <=> pc[t] = "push"

\* The functor in hand is a new one, and one that runs has not finished.
Running == IF loopPc \in {"test", "run"} THEN fun ELSE None

FreshInv ==
  /\ \A t \in Threads :
       arg[t] # None =>
         arg[t] \notin Queued /\ arg[t] \notin finished /\ arg[t] # Running
  /\ loopPc = "run" => fun \in Jobs

\* OnePacket, counting the one thread that may be about to post.
PacketInv ==
  /\ sent => packets + (IF \E t \in Threads : pc[t] = "post" THEN 1 ELSE 0)
                     + (IF loopPc = "wakeup" THEN 1 ELSE 0) = 1
  /\ ~ sent => /\ packets = 0 /\ loopPc # "wakeup"
               /\ \A t \in Threads : pc[t] # "post"

IInv == TypeOK /\ MutexInv /\ FreshInv /\ PacketInv /\ NoLostWakeup

-----------------------------------------------------------------------------
\* Initially nobody queues and nothing is queued.
LEMMA InitInv == Init => IInv
<1> SUFFICES ASSUME Init PROVE IInv
  OBVIOUS
<1>1. TypeOK
  <2>1. functors \in Seq(Jobs)
    BY DEF Init
  <2>2. pc \in [Threads -> {"idle"}] /\ arg \in [Threads -> {None}]
    BY DEF Init
  <2>3. finished \in SUBSET Jobs /\ packets \in Nat
    BY DEF Init
  <2> QED BY <2>1, <2>2, <2>3 DEF Init, TypeOK
<1>2. MutexInv /\ FreshInv /\ PacketInv
  BY DEF Init, MutexInv, FreshInv, PacketInv, Queued, Running
<1>3. NoLostWakeup
  BY DEF Init, NoLostWakeup
<1> QED BY <1>1, <1>2, <1>3 DEF IInv

\* A thread enters queue() with a functor nobody has seen.
LEMMA LockStep ==
  ASSUME IInv, NEW t \in Threads, NEW j \in Jobs, Lock(t, j)
  PROVE  IInv'
<1>1. TypeOK'
  BY DEF IInv, TypeOK, Lock, Goto
<1>2. MutexInv'
  BY DEF IInv, TypeOK, MutexInv, Lock, Goto
<1>3. FreshInv'
  BY DEF IInv, TypeOK, FreshInv, Running, Lock, Goto, Begun, Queued
<1>4. PacketInv'
  BY DEF IInv, TypeOK, PacketInv, MutexInv, Lock, Goto
<1>5. NoLostWakeup'
  BY DEF IInv, TypeOK, NoLostWakeup, WakeupUnderway, Lock, Goto
<1> QED BY <1>1, <1>2, <1>3, <1>4, <1>5 DEF IInv

\* What appending a functor does to the set of queued ones.
LEMMA QueuedAppend ==
  ASSUME functors \in Seq(Jobs), NEW j \in Jobs, functors' = Append(functors, j)
  PROVE  Queued' = Queued \union {j} /\ functors' \in Seq(Jobs)
<1>1. /\ DOMAIN functors = 1..Len(functors)
      /\ DOMAIN functors' = 1..(Len(functors) + 1)
      /\ functors'[Len(functors) + 1] = j
      /\ \A i \in 1..Len(functors) : functors'[i] = functors[i]
      /\ Len(functors) \in Nat
  OBVIOUS
<1> QED BY <1>1 DEF Queued

\* Taking the head leaves a subset of the queued ones.
LEMMA QueuedTail ==
  ASSUME functors \in Seq(Jobs), functors # <<>>, functors' = Tail(functors)
  PROVE  /\ Queued' \subseteq Queued /\ functors' \in Seq(Jobs)
         /\ Head(functors) \in Queued /\ Head(functors) \in Jobs
<1>1. /\ DOMAIN functors = 1..Len(functors)
      /\ DOMAIN functors' = 1..(Len(functors) - 1)
      /\ \A i \in 1..(Len(functors) - 1) : functors'[i] = functors[i + 1]
      /\ Len(functors) \in Nat /\ Len(functors) > 0
      /\ functors' \in Seq(Jobs) /\ Head(functors) = functors[1]
      /\ Head(functors) \in Jobs
  OBVIOUS
<1> QED BY <1>1 DEF Queued

\* queue() puts the functor in the list; an empty list means it will post.
LEMMA PushStep ==
  ASSUME IInv, NEW t \in Threads, Push(t)
  PROVE  IInv'
<1>1. arg[t] \in Jobs
  BY DEF IInv, TypeOK, MutexInv, Push, Goto
<1>2. Queued' = Queued \union {arg[t]} /\ functors' \in Seq(Jobs)
  BY <1>1, QueuedAppend DEF IInv, TypeOK, Push
<1>3. TypeOK'
  BY <1>2 DEF IInv, TypeOK, Push, Goto
<1>4. MutexInv'
  BY DEF IInv, TypeOK, MutexInv, Push, Goto
<1>5. FreshInv'
  <2>1. \A u \in Threads : arg'[u] = None
    BY DEF IInv, TypeOK, MutexInv, Push, Goto
  <2> QED BY <2>1 DEF IInv, FreshInv, Push
<1>6. PacketInv'
  BY DEF IInv, TypeOK, PacketInv, MutexInv, Push, Goto
<1>7. NoLostWakeup'
  BY DEF IInv, TypeOK, NoLostWakeup, WakeupUnderway, Push, Goto
<1> QED BY <1>3, <1>4, <1>5, <1>6, <1>7 DEF IInv

\* The send that finds async_sent set relies on the packet that set it: the
\* one thread in queue() is this one, so the packet is already posted.
LEMMA SendStep ==
  ASSUME IInv, NEW t \in Threads, Send(t)
  PROVE  IInv'
<1>1. TypeOK'
  BY DEF IInv, TypeOK, Send, Goto
<1>2. MutexInv'
  BY DEF IInv, TypeOK, MutexInv, Send, Goto
<1>3. FreshInv'
  BY DEF IInv, FreshInv, Running, Queued, Send
<1>0. \A u \in Threads : pc[u] # "post"
  BY DEF IInv, TypeOK, MutexInv, Send, Goto
<1>4. PacketInv'
  BY <1>0 DEF IInv, TypeOK, PacketInv, Send, Goto
<1>5. NoLostWakeup'
  <2>1. CASE sent
    <3>1. packets > 0 \/ loopPc = "wakeup"
      BY <1>0, <2>1 DEF IInv, TypeOK, PacketInv
    <3> QED BY <3>1 DEF NoLostWakeup, WakeupUnderway, Send
  <2>2. CASE ~ sent
    BY <2>2 DEF IInv, TypeOK, NoLostWakeup, WakeupUnderway, Send, Goto
  <2> QED BY <2>1, <2>2
<1> QED BY <1>1, <1>2, <1>3, <1>4, <1>5 DEF IInv

\* queue() calls uv_async_send, and the mutex is released.
LEMMA PostStep ==
  ASSUME IInv, NEW t \in Threads, Post(t)
  PROVE  IInv'
<1>1. TypeOK'
  BY DEF IInv, TypeOK, Post, Goto
<1>2. MutexInv'
  BY DEF IInv, TypeOK, MutexInv, Post, Goto
<1>3. FreshInv'
  BY DEF IInv, FreshInv, Running, Queued, Post
<1>4. PacketInv'
  <2>1. \A u \in Threads : pc'[u] # "post"
    BY DEF IInv, TypeOK, MutexInv, Post, Goto
  <2>2. sent /\ packets = 0 /\ loopPc # "wakeup"
    BY DEF IInv, TypeOK, PacketInv, Post, Goto
  <2> QED BY <2>1, <2>2 DEF PacketInv, Post
<1>5. NoLostWakeup'
  BY DEF IInv, TypeOK, NoLostWakeup, WakeupUnderway, Post, Goto
<1> QED BY <1>1, <1>2, <1>3, <1>4, <1>5 DEF IInv

\* The holder leaves: a functor it left behind has a packet, by PacketInv.
LEMMA UnlockStep ==
  ASSUME IInv, NEW t \in Threads, Unlock(t)
  PROVE  IInv'
<1>1. TypeOK'
  BY DEF IInv, TypeOK, Unlock, Goto
<1>2. MutexInv'
  BY DEF IInv, TypeOK, MutexInv, Unlock, Goto
<1>3. FreshInv'
  BY DEF IInv, FreshInv, Running, Queued, Unlock
<1>4. PacketInv'
  BY DEF IInv, TypeOK, PacketInv, MutexInv, Unlock, Goto
<1>5. NoLostWakeup'
  BY DEF IInv, TypeOK, NoLostWakeup, WakeupUnderway, Unlock, Goto
<1> QED BY <1>1, <1>2, <1>3, <1>4, <1>5 DEF IInv

-----------------------------------------------------------------------------
\* The loop takes the packet off the port; the flag stays set.
LEMMA PollStep == ASSUME IInv, Poll PROVE IInv'
<1>1. TypeOK'
  BY DEF IInv, TypeOK, Poll
<1>2. MutexInv' /\ FreshInv'
  BY DEF IInv, MutexInv, FreshInv, Running, Queued, Poll
<1>3. PacketInv'
  BY DEF IInv, TypeOK, PacketInv, Poll
<1>4. NoLostWakeup'
  BY DEF IInv, NoLostWakeup, WakeupUnderway, Poll
<1> QED BY <1>1, <1>2, <1>3, <1>4 DEF IInv

\* uv_process_async_wakeup_req clears the flag before the callback runs.
LEMMA WakeupStep == ASSUME IInv, Wakeup PROVE IInv'
<1>1. TypeOK'
  BY DEF IInv, TypeOK, Wakeup
<1>2. MutexInv' /\ FreshInv'
  BY DEF IInv, MutexInv, FreshInv, Running, Queued, Wakeup
<1>3. PacketInv'
  BY DEF IInv, TypeOK, PacketInv, Wakeup
<1>4. NoLostWakeup'
  BY DEF IInv, NoLostWakeup, WakeupUnderway, Wakeup
<1> QED BY <1>1, <1>2, <1>3, <1>4 DEF IInv

\* The mutex is free, so no thread has a functor in hand.
LEMMA TakeStep == ASSUME IInv, Take PROVE IInv'
<1>1. \A t \in Threads : pc[t] = "idle" /\ arg[t] = None
  BY DEF IInv, TypeOK, MutexInv, Take
<1>2. CASE functors = <<>>
  <2>1. functors' = <<>> /\ fun' = None
    BY <1>2 DEF Take
  <2>2. TypeOK'
    BY <2>1 DEF IInv, TypeOK, Take
  <2>3. MutexInv' /\ FreshInv' /\ NoLostWakeup'
    BY <1>1, <2>1 DEF IInv, MutexInv, FreshInv, NoLostWakeup, Take
  <2>4. PacketInv'
    BY DEF IInv, PacketInv, Take
  <2> QED BY <2>2, <2>3, <2>4 DEF IInv
<1>3. CASE functors # <<>>
  <2>1. fun' \in Jobs /\ functors' \in Seq(Jobs)
    BY <1>3, QueuedTail DEF IInv, TypeOK, Take
  <2>2. TypeOK'
    BY <2>1 DEF IInv, TypeOK, Take
  <2>3. MutexInv' /\ FreshInv' /\ NoLostWakeup'
    BY <1>1, <2>1
    DEF IInv, MutexInv, FreshInv, NoLostWakeup, WakeupUnderway, Take
  <2>4. PacketInv'
    BY DEF IInv, PacketInv, Take
  <2> QED BY <2>2, <2>3, <2>4 DEF IInv
<1> QED BY <1>2, <1>3

\* onFunctor calls the functor it has taken.
LEMMA RunStep == ASSUME IInv, Run PROVE IInv'
<1>1. TypeOK' /\ MutexInv' /\ PacketInv'
  BY DEF IInv, TypeOK, MutexInv, PacketInv, Run
<1>2. FreshInv'
  BY DEF IInv, FreshInv, Running, Queued, Run
<1>3. NoLostWakeup'
  BY DEF NoLostWakeup, WakeupUnderway, Run
<1> QED BY <1>1, <1>2, <1>3 DEF IInv

\* The functor is over and onFunctor looks for the next.
LEMMA ReturnStep == ASSUME IInv, Return PROVE IInv'
<1>1. TypeOK'
  BY DEF IInv, TypeOK, FreshInv, Return
<1>2. MutexInv' /\ PacketInv'
  BY DEF IInv, MutexInv, PacketInv, Return
<1>3. FreshInv'
  BY DEF IInv, FreshInv, Running, Queued, Return
<1>4. NoLostWakeup'
  BY DEF NoLostWakeup, WakeupUnderway, Return
<1> QED BY <1>1, <1>2, <1>3, <1>4 DEF IInv

\* A null functor ends the loop of onFunctor.
LEMMA BreakStep == ASSUME IInv, Break PROVE IInv'
<1>1. TypeOK'
  BY DEF IInv, TypeOK, Break
<1>2. MutexInv' /\ PacketInv'
  BY DEF IInv, MutexInv, PacketInv, Break
<1>3. FreshInv'
  BY DEF IInv, FreshInv, Running, Queued, Break
<1>4. NoLostWakeup'
  BY DEF IInv, NoLostWakeup, WakeupUnderway, Break
<1> QED BY <1>1, <1>2, <1>3, <1>4 DEF IInv

\* The invariant is about the variables of vars alone.
LEMMA StutterStep == ASSUME IInv, UNCHANGED vars PROVE IInv'
BY DEF IInv, TypeOK, MutexInv, FreshInv, Running, PacketInv, NoLostWakeup,
       WakeupUnderway, Queued, vars

-----------------------------------------------------------------------------
\* The invariant holds whatever the threads and the loop thread do.
THEOREM Invariant == Spec => []IInv
<1>1. IInv /\ [Next]_vars => IInv'
  <2> SUFFICES ASSUME IInv, [Next]_vars PROVE IInv'
    OBVIOUS
  <2>1. CASE UNCHANGED vars \/ Quiet
    BY <2>1, StutterStep DEF Quiet
  <2>2. CASE LoopStep
    BY <2>2, PollStep, WakeupStep, TakeStep, RunStep, ReturnStep, BreakStep
    DEF LoopStep
  <2>3. CASE \E t \in Threads : QueueStep(t)
    BY <2>3, PushStep, SendStep, PostStep, UnlockStep DEF QueueStep
  <2>4. CASE \E t \in Threads : \E j \in Jobs : Lock(t, j)
    BY <2>4, LockStep
  <2> QED BY <2>1, <2>2, <2>3, <2>4 DEF Next
<1> QED BY InitInv, <1>1, PTL DEF Spec

\* Every variable keeps its type; in particular onFunctor never calls an empty
\* std::function, or None would be among the finished functors.
THEOREM TypeCorrect == Spec => []TypeOK
BY Invariant, PTL DEF IInv

\* Coalesced sends lose no functor: whatever is queued will be looked at, but
\* behind a null functor.
THEOREM WakeupNotLost == Spec => []NoLostWakeup
BY Invariant, PTL DEF IInv

\* The async_req is in the completion port or pending at most once.
THEOREM PacketOnce == Spec => []OnePacket
<1>1. IInv => OnePacket
  <2> SUFFICES ASSUME IInv PROVE OnePacket
    OBVIOUS
  <2> DEFINE Posting == {t \in Threads : pc[t] = "post"}
  <2>1. CASE \E t \in Threads : pc[t] = "post"
    <3>1. PICK t \in Threads : pc[t] = "post"
      BY <2>1
    <3>2. Posting = {t}
      BY <3>1 DEF IInv, MutexInv
    <3>3. Cardinality(Posting) = 1
      BY <3>2, FS_Singleton
    <3> QED BY <2>1, <3>3 DEF IInv, TypeOK, PacketInv, OnePacket
  <2>2. CASE ~ \E t \in Threads : pc[t] = "post"
    <3>1. Posting = {}
      BY <2>2
    <3>2. Cardinality(Posting) = 0
      BY <3>1, FS_EmptySet
    <3> QED BY <2>2, <3>2 DEF IInv, TypeOK, PacketInv, OnePacket
  <2> QED BY <2>1, <2>2
<1> QED BY <1>1, Invariant, PTL

-----------------------------------------------------------------------------
\* One step of the threads is one step of the executor, or none.
LEMMA StepRefines ==
  ASSUME IInv, [Next]_vars
  PROVE  [Executor!Next]_<<functors, Running, finished>>
<1> USE DEF Running
<1>1. CASE UNCHANGED vars \/ Quiet
  BY <1>1 DEF Quiet, vars
<1>2. ASSUME NEW t \in Threads, NEW j \in Jobs, Lock(t, j)
      PROVE  UNCHANGED <<functors, Running, finished>>
  BY <1>2 DEF Lock
<1>3. ASSUME NEW t \in Threads, Push(t)
      PROVE  \E j \in Jobs : Executor!Submit(j)
  <2>1. arg[t] \in Jobs
    BY <1>3 DEF IInv, TypeOK, MutexInv, Push, Goto
  <2>2. Executor!Fresh(arg[t])
    BY <2>1 DEF Executor!Fresh, IInv, FreshInv, Queued
  <2>3. Executor!Submit(arg[t])
    BY <1>3, <2>2 DEF Executor!Submit, Push
  <2> QED BY <2>1, <2>3
<1>4. ASSUME NEW t \in Threads, Send(t) \/ Post(t) \/ Unlock(t)
      PROVE  UNCHANGED <<functors, Running, finished>>
  BY <1>4 DEF Send, Post, Unlock
<1>5. CASE Poll \/ Wakeup \/ Run
  BY <1>5 DEF Poll, Wakeup, Run
<1>6. CASE Take
  <2>1. CASE functors = <<>>
    BY <1>6, <2>1 DEF Take
  <2>2. CASE functors # <<>>
    BY <1>6, <2>2 DEF Take, Executor!Take, Executor!Next
  <2> QED BY <2>1, <2>2
<1>7. CASE Return
  BY <1>7 DEF Return, IInv, FreshInv, Executor!Complete, Executor!Next
<1>8. CASE Break
  <2>1. CASE fun = None
    BY <1>8, <2>1 DEF Break
  <2>2. CASE fun # None
    BY <1>8, <2>2 DEF Break, Executor!Complete, Executor!Next
  <2> QED BY <2>1, <2>2
<1> QED BY <1>1, <1>2, <1>3, <1>4, <1>5, <1>6, <1>7, <1>8
        DEF Next, LoopStep, QueueStep, Executor!Next

\* AsyncFunctor implements the FIFO executor of FunctorExecutor.
THEOREM Refinement == Spec => RefinesExecutor
<1>1. Init => Executor!Init
  BY DEF Init, Executor!Init
<1>2. IInv /\ [Next]_vars => [Executor!Next]_<<functors, Running, finished>>
  BY StepRefines
<1> QED BY <1>1, <1>2, Invariant, PTL
        DEF Spec, RefinesExecutor, Executor!Spec, Running
=============================================================================
