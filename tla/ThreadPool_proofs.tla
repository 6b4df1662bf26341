-------------------------- MODULE ThreadPool_proofs --------------------------
(***************************************************************************)
(* The thread pool for any number of workers, loops and works: a work is   *)
(* in one place, its context is not used after it is deleted, no signal    *)
(* and no wakeup is lost, every work lives as WorkContract has it, and no  *)
(* threads wait for each other's mutexes in a circle.                      *)
(*                                                                         *)
(* The argument follows each work through the three queues and the hands   *)
(* of the threads.  Of the mutexes only the loops' matter to it: a worker  *)
(* that has put its work in the loop's queue keeps the loop from taking it *)
(* until it has done with it.                                              *)
(***************************************************************************)
EXTENDS ThreadPool, FiniteSetTheorems, TLAPS

-----------------------------------------------------------------------------
(* Sequences without repetition.                                           *)

NoRepeat(s) == \A i, j \in 1..Len(s) : s[i] = s[j] => i = j

LEMMA NothingIn ==
  ASSUME NEW s, s = <<>>
  PROVE  /\ NoRepeat(s)
         /\ \A x : ~ Contains(s, x)
<1>1. Len(s) = 0
  OBVIOUS
<1>2. \A i : i \notin 1..Len(s)
  BY <1>1
<1>3. QED
  BY <1>2 DEF NoRepeat, Contains

LEMMA AppendSeq ==
  ASSUME NEW S, NEW s \in Seq(S), NEW e \in S
  PROVE  /\ Append(s, e) \in Seq(S) /\ Append(s, e) # <<>>
         /\ \A x : Contains(Append(s, e), x) <=> Contains(s, x) \/ x = e
         /\ NoRepeat(s) /\ ~ Contains(s, e) => NoRepeat(Append(s, e))
<1>1. /\ Append(s, e) \in Seq(S) /\ Len(Append(s, e)) = Len(s) + 1
      /\ Append(s, e)[Len(s) + 1] = e /\ Len(s) \in Nat
      /\ \A i \in 1..Len(s) : Append(s, e)[i] = s[i]
  OBVIOUS
<1>2. ASSUME NEW x PROVE Contains(Append(s, e), x) <=> Contains(s, x) \/ x = e
  <2>1. CASE x = e
    BY <1>1, <2>1 DEF Contains
  <2>2. CASE x # e
    BY <1>1, <2>2 DEF Contains
  <2> QED BY <2>1, <2>2
<1>3. NoRepeat(s) /\ ~ Contains(s, e) => NoRepeat(Append(s, e))
  BY <1>1 DEF NoRepeat, Contains
<1>4. Append(s, e) # <<>>
  BY <1>1
<1> QED BY <1>1, <1>2, <1>3, <1>4

LEMMA TailSeq ==
  ASSUME NEW S, NEW s \in Seq(S), s # <<>>
  PROVE  /\ Head(s) \in S /\ Tail(s) \in Seq(S) /\ Contains(s, Head(s))
         /\ NoRepeat(s) =>
              /\ NoRepeat(Tail(s))
              /\ \A x : Contains(Tail(s), x) <=> Contains(s, x) /\ x # Head(s)
<1>1. /\ Head(s) \in S /\ Tail(s) \in Seq(S) /\ Head(s) = s[1]
      /\ Len(s) \in Nat /\ Len(s) > 0 /\ Len(Tail(s)) = Len(s) - 1
      /\ \A i \in 1..(Len(s) - 1) : Tail(s)[i] = s[i + 1]
  OBVIOUS
<1>2. Contains(s, Head(s))
  BY <1>1 DEF Contains
<1>3. ASSUME NoRepeat(s) PROVE NoRepeat(Tail(s))
  BY <1>1, <1>3 DEF NoRepeat
<1>4. ASSUME NoRepeat(s), NEW x
      PROVE  Contains(Tail(s), x) <=> Contains(s, x) /\ x # Head(s)
  <2>1. ASSUME Contains(Tail(s), x) PROVE Contains(s, x) /\ x # Head(s)
    <3>1. PICK i \in 1..(Len(s) - 1) : s[i + 1] = x
      BY <1>1, <2>1 DEF Contains
    <3>2. i + 1 \in 1..Len(s) /\ i + 1 # 1 /\ 1 \in 1..Len(s)
      BY <1>1
    <3> QED BY <1>1, <1>4, <3>1, <3>2 DEF Contains, NoRepeat
  <2>2. ASSUME Contains(s, x), x # Head(s) PROVE Contains(Tail(s), x)
    <3>1. PICK i \in 1..Len(s) : s[i] = x
      BY <2>2 DEF Contains
    <3>2. i - 1 \in 1..(Len(s) - 1) /\ Tail(s)[i - 1] = x
      BY <1>1, <2>2, <3>1
    <3> QED BY <1>1, <3>2 DEF Contains
  <2> QED BY <2>1, <2>2
<1> QED BY <1>1, <1>2, <1>3, <1>4

LEMMA ConcatSeq ==
  ASSUME NEW S, NEW a \in Seq(S), NEW b \in Seq(S)
  PROVE  /\ a \o b \in Seq(S) /\ Len(a \o b) = Len(a) + Len(b)
         /\ \A i \in 1..Len(a) : (a \o b)[i] = a[i]
         /\ \A i \in 1..Len(b) : (a \o b)[Len(a) + i] = b[i]
  OBVIOUS

LEMMA CutSeq ==
  ASSUME NEW S, NEW s \in Seq(S), NEW k \in 1..Len(s)
  PROVE  LET r == RemoveAt(s, k) IN
         /\ r \in Seq(S) /\ Len(s) \in Nat /\ Len(r) = Len(s) - 1
         /\ \A i \in 1..Len(r) : r[i] = IF i < k THEN s[i] ELSE s[i + 1]
<1> DEFINE a == SubSeq(s, 1, k - 1)
           b == SubSeq(s, k + 1, Len(s))
           r == a \o b
<1>1. Len(s) \in Nat /\ k \in Nat /\ 1 <= k /\ k <= Len(s)
  OBVIOUS
<1>2. a \in Seq(S) /\ Len(a) = k - 1 /\ \A i \in 1..(k - 1) : a[i] = s[i]
  OBVIOUS
<1>3. b \in Seq(S) /\ Len(b) = Len(s) - k /\ \A i \in 1..(Len(s) - k) : b[i] = s[i + k]
  OBVIOUS
<1>0. a \in Seq(S) /\ b \in Seq(S)
  BY <1>2, <1>3
<1> HIDE DEF a, b
<1>4. /\ r \in Seq(S) /\ Len(r) = Len(a) + Len(b)
      /\ \A i \in 1..Len(a) : r[i] = a[i]
      /\ \A i \in 1..Len(b) : r[Len(a) + i] = b[i]
  BY <1>0, ConcatSeq
<1> HIDE DEF r
<1>5. Len(r) = Len(s) - 1
  <2>1. Len(r) = (k - 1) + (Len(s) - k)
    BY <1>2, <1>3, <1>4
  <2> QED BY <1>1, <2>1
<1>6. ASSUME NEW i \in 1..Len(r), i < k PROVE r[i] = s[i]
  <2>1. i \in 1..(k - 1)
    BY <1>1, <1>5, <1>6
  <2> QED BY <1>2, <1>4, <2>1
<1>7. ASSUME NEW i \in 1..Len(r), ~ (i < k) PROVE r[i] = s[i + 1]
  <2>1. PICK m \in 1..(Len(s) - k) : i = (k - 1) + m /\ m + k = i + 1
    <3>1. i - (k - 1) \in 1..(Len(s) - k)
      BY <1>1, <1>5, <1>7
    <3> QED BY <1>1, <3>1
  <2>2. r[i] = b[m]
    BY <1>2, <1>3, <1>4, <2>1
  <2> QED BY <1>3, <2>1, <2>2
<1>8. r \in Seq(S) /\ Len(s) \in Nat /\ Len(r) = Len(s) - 1
        /\ \A i \in 1..Len(r) : r[i] = IF i < k THEN s[i] ELSE s[i + 1]
  BY <1>1, <1>4, <1>5, <1>6, <1>7
<1> QED BY <1>8 DEF RemoveAt, r, a, b

\* RemoveFirst of an element that occurs once takes it out.
LEMMA RemoveSeq ==
  ASSUME NEW S, NEW s \in Seq(S), NoRepeat(s), NEW e
  PROVE  /\ RemoveFirst(s, e) \in Seq(S) /\ NoRepeat(RemoveFirst(s, e))
         /\ \A x : Contains(RemoveFirst(s, e), x) <=> Contains(s, x) /\ x # e
<1>1. CASE ~ Contains(s, e)
  <2>1. RemoveFirst(s, e) = s
    BY <1>1 DEF RemoveFirst, Contains
  <2> QED BY <1>1, <2>1
<1>2. CASE Contains(s, e)
  <2>1. PICK k \in 1..Len(s) : s[k] = e
    BY <1>2 DEF Contains
  <2>2. {i \in 1..Len(s) : s[i] = e} = {k}
    BY <2>1 DEF NoRepeat
  <2>3. Min({k}) = k
    BY <2>1 DEF Min
  <2>4. SelectInSeq(s, LAMBDA v : v = e) = k
    BY <2>2, <2>3 DEF SelectInSeq
  <2> DEFINE r == RemoveFirst(s, e)
  <2>5. r = RemoveAt(s, k)
    BY <1>2, <2>4 DEF RemoveFirst, Contains
  <2>6. /\ r \in Seq(S) /\ Len(s) \in Nat /\ Len(r) = Len(s) - 1
        /\ \A i \in 1..Len(r) : r[i] = IF i < k THEN s[i] ELSE s[i + 1]
    BY <2>5, CutSeq
  <2> HIDE DEF r
  <2>7. NoRepeat(r)
    <3> SUFFICES ASSUME NEW i \in 1..Len(r), NEW j \in 1..Len(r), r[i] = r[j] PROVE i = j
      BY DEF NoRepeat
    <3>1. /\ i \in 1..Len(s) /\ i + 1 \in 1..Len(s) /\ j \in 1..Len(s) /\ j + 1 \in 1..Len(s)
          /\ k \in Nat
      BY <2>1, <2>6
    <3> QED BY <2>6, <3>1 DEF NoRepeat
  <2>8. ASSUME NEW x PROVE Contains(r, x) <=> Contains(s, x) /\ x # e
    <3>1. ASSUME Contains(r, x) PROVE Contains(s, x) /\ x # e
      <4>1. PICK i \in 1..Len(r) : r[i] = x
        BY <3>1 DEF Contains
      <4>2. i \in 1..Len(s) /\ i + 1 \in 1..Len(s) /\ k \in Nat
        BY <2>1, <2>6
      <4>3. PICK j \in 1..Len(s) : j # k /\ s[j] = x
        BY <2>6, <4>1, <4>2
      <4> QED BY <2>1, <4>3 DEF Contains, NoRepeat
    <3>2. ASSUME Contains(s, x), x # e PROVE Contains(r, x)
      <4>1. PICK i \in 1..Len(s) : s[i] = x
        BY <3>2 DEF Contains
      <4>2. i # k /\ k \in Nat
        BY <2>1, <3>2, <4>1
      <4>3. CASE i < k
        BY <2>1, <2>6, <4>1, <4>2, <4>3 DEF Contains
      <4>4. CASE i > k
        <5>1. i - 1 \in 1..Len(r) /\ r[i - 1] = x
          BY <2>1, <2>6, <4>1, <4>2, <4>4
        <5> QED BY <5>1 DEF Contains
      <4> QED BY <4>2, <4>3, <4>4
    <3> QED BY <3>1, <3>2
  <2> QED BY <2>6, <2>7, <2>8 DEF r
<1> QED BY <1>1, <1>2

-----------------------------------------------------------------------------
(* Where a work is.                                                        *)

InWq(w) == Contains(wq, w)
InLwq(w) == Contains(lwq[LoopOf[w]], w)
InLocal(w) == Contains(local[LoopOf[w]], w)

\* A worker has taken the work and not yet put it in the loop's queue.
Hands == {"run", "finish", "insert"}
Carries(t, w) == pc[t] \in Hands /\ job[t] = w
Carried(w) == \E t \in Workers : Carries(t, w)

\* Its loop's thread is about to put it in the pool's queue, or back in its own.
Kept(w) == arg[LoopOf[w]] = w /\ lpc[LoopOf[w]] \in {"post", "requeue"}

Nowhere(w) == ~ InWq(w) /\ ~ InLwq(w) /\ ~ InLocal(w) /\ ~ Carried(w) /\ ~ Kept(w)

\* The work is in one place at most, and in one exactly from the time it is
\* queued to its after callback; its function is as that place has it.
PlaceInv(w) ==
  /\ InWq(w) => ~ InLwq(w) /\ ~ InLocal(w) /\ ~ Carried(w) /\ ~ Kept(w)
  /\ Carried(w) => ~ InLwq(w) /\ ~ InLocal(w) /\ ~ Kept(w)
  /\ InLwq(w) => ~ InLocal(w) /\ ~ Kept(w)
  /\ InLocal(w) => ~ Kept(w)
  /\ work[w] # "unset" /\ after[w] = "none" <=> ~ Nowhere(w)
  /\ work[w] = "unset" => after[w] = "none"
  /\ InWq(w) \/ Carried(w) => work[w] = "fn"
  /\ InLwq(w) \/ InLocal(w) => work[w] \in {"null", "cancelled"}
  /\ Kept(w) /\ lpc[LoopOf[w]] = "post" => work[w] = "fn"
  /\ Kept(w) => work[w] # "null"

\* No queue has a work twice, and each loop's queues have its own works only.
QueueInv ==
  /\ NoRepeat(wq)
  /\ \A l \in Loops :
       /\ NoRepeat(lwq[l]) /\ NoRepeat(local[l])
       /\ \A w \in Works : Contains(lwq[l], w) \/ Contains(local[l], w) => LoopOf[w] = l

\* No two workers carry one work; one that has handed its work over holds the
\* mutex of the loop, in whose queue the work still is.
WorkerInv ==
  /\ \A t, u \in Workers : \A w \in Works : Carries(t, w) /\ Carries(u, w) => t = u
  /\ \A t \in Workers :
       /\ pc[t] \in {"insert", "send", "unlock"} => wqMutex[LoopOf[job[t]]] = t
       /\ pc[t] \in {"send", "unlock"} => InLwq(job[t]) /\ work[job[t]] = "null"

\* What a loop's thread submits or cancels is a work of its loop that has not
\* been called back.
ArgInv ==
  \A l \in Loops :
    /\ arg[l] # None <=> lpc[l] \in {"post", "decide", "requeue"}
    /\ arg[l] # None =>
         LoopOf[arg[l]] = l /\ work[arg[l]] # "unset" /\ after[arg[l]] = "none"

\* uv__work_done has works left to call only while it runs.
CallInv ==
  \A l \in Loops :
    /\ lpc[l] \in {"user", "split", "drain"} => current[l] = None
    /\ lpc[l] = "call" => current[l] # None
    /\ local[l] # <<>> => lpc[l] = "drain" \/ current[l] # None

IInv ==
  /\ TypeOK /\ QueueInv /\ WorkerInv /\ ArgInv /\ CallInv
  /\ \A w \in Works : PlaceInv(w)

LEMMA InitIInv == Init => IInv
<1> SUFFICES ASSUME Init PROVE IInv
  OBVIOUS
<1> USE NoneAssumption, FreeAssumption, LoopOfAssumption DEF Init
<1>1. TypeOK
  BY DEF TypeOK, Busy
<1>2. QueueInv
  BY NothingIn DEF QueueInv
<1>3. WorkerInv /\ ArgInv /\ CallInv
  BY DEF WorkerInv, ArgInv, CallInv, Carries, Hands
<1>4. ASSUME NEW w \in Works PROVE PlaceInv(w)
  BY <1>4, NothingIn DEF PlaceInv, Nowhere, InWq, InLwq, InLocal, Carried, Carries, Kept, Hands
<1>5. QED
  BY <1>1, <1>2, <1>3, <1>4 DEF IInv

-----------------------------------------------------------------------------
(* The steps of the workers.                                               *)

\* A step that moves no work and changes none.
LEMMA Still ==
  ASSUME IInv, TypeOK', UNCHANGED <<wq, lwq, local, work, after, arg>>,
         \A t \in Workers, w \in Works : Carries(t, w)' <=> Carries(t, w),
         \A l \in Loops : lpc'[l] = lpc[l] \/ {lpc[l], lpc'[l]} \cap {"post", "decide", "requeue"} = {}
  PROVE  QueueInv' /\ ArgInv' /\ \A w \in Works : PlaceInv(w)'
<1>1. QueueInv'
  BY DEF IInv, QueueInv
<1>2. ArgInv'
  BY DEF IInv, ArgInv
<1>3. ASSUME NEW w \in Works PROVE PlaceInv(w)'
  <2>1. LoopOf[w] \in Loops
    BY LoopOfAssumption
  <2>2. InWq(w)' = InWq(w) /\ InLwq(w)' = InLwq(w) /\ InLocal(w)' = InLocal(w)
    BY DEF InWq, InLwq, InLocal
  <2>3. Carried(w)' <=> Carried(w)
    BY DEF Carried
  <2>4. /\ Kept(w)' <=> Kept(w)
        /\ Kept(w) => lpc'[LoopOf[w]] = lpc[LoopOf[w]]
    BY <2>1 DEF Kept
  <2>5. PlaceInv(w)
    BY DEF IInv
  <2> QED BY <2>2, <2>3, <2>4, <2>5 DEF PlaceInv, Nowhere
<1> QED BY <1>1, <1>2, <1>3

\* The steps of a worker that has no work, or goes on with the one it has.
LEMMA WorkerStill ==
  ASSUME IInv, NEW t \in Workers,
         WorkerLock(t) \/ WorkerWait(t) \/ Spurious(t) \/ WorkerRun(t)
           \/ FinishLock(t) \/ FinishSend(t) \/ FinishUnlock(t)
  PROVE  IInv'
<1> USE DEF GotoW, pool, worker, inbox, loop
<1>0. CallInv'
  BY DEF IInv, CallInv, WorkerLock, WorkerWait, Spurious, WorkerRun, FinishLock, FinishSend,
         FinishUnlock
<1>1. CASE WorkerLock(t) \/ WorkerWait(t) \/ Spurious(t)
  <2>1. TypeOK'
    <3>1. CASE WorkerLock(t)
      BY <3>1 DEF IInv, TypeOK, Busy, WorkerLock
    <3>2. CASE WorkerWait(t)
      BY <3>2 DEF IInv, TypeOK, Busy, WorkerWait
    <3>3. CASE Spurious(t)
      BY <3>3 DEF IInv, TypeOK, Busy, Spurious
    <3> QED BY <1>1, <3>1, <3>2, <3>3
  <2>2. ASSUME NEW u \in Workers, NEW w \in Works PROVE Carries(u, w)' <=> Carries(u, w)
    BY <1>1 DEF IInv, TypeOK, Busy, Carries, Hands, WorkerLock, WorkerWait, Spurious
  <2>3. UNCHANGED <<wq, lwq, local, work, after, arg, lpc, job, wqMutex>>
    BY <1>1 DEF WorkerLock, WorkerWait, Spurious
  <2>4. WorkerInv'
    <3>1. \A u \in Workers : pc'[u] \in {"insert", "send", "unlock"} => pc'[u] = pc[u]
      BY <1>1 DEF IInv, TypeOK, Busy, WorkerLock, WorkerWait, Spurious
    <3>2. ASSUME NEW w PROVE InLwq(w)' = InLwq(w)
      BY <2>3 DEF InLwq
    <3> QED BY <2>2, <2>3, <3>1, <3>2 DEF IInv, WorkerInv
  <2>5. QueueInv' /\ ArgInv' /\ \A w \in Works : PlaceInv(w)'
    BY <2>1, <2>2, <2>3, Still
  <2> QED BY <1>0, <2>1, <2>4, <2>5 DEF IInv
<1>2. CASE WorkerRun(t)
  <2>1. TypeOK'
    BY <1>2 DEF IInv, TypeOK, Busy, WorkerRun
  <2>2. ASSUME NEW u \in Workers, NEW w \in Works PROVE Carries(u, w)' <=> Carries(u, w)
    BY <1>2 DEF IInv, TypeOK, Busy, Carries, Hands, WorkerRun
  <2>3. UNCHANGED <<wq, lwq, local, work, after, arg, lpc, job, wqMutex>>
    BY <1>2 DEF WorkerRun
  <2>4. WorkerInv'
    <3>1. \A u \in Workers : pc'[u] \in {"insert", "send", "unlock"} => pc'[u] = pc[u]
      BY <1>2 DEF IInv, TypeOK, Busy, WorkerRun
    <3>2. ASSUME NEW w PROVE InLwq(w)' = InLwq(w)
      BY <2>3 DEF InLwq
    <3> QED BY <2>2, <2>3, <3>1, <3>2 DEF IInv, WorkerInv
  <2>5. QueueInv' /\ ArgInv' /\ \A w \in Works : PlaceInv(w)'
    BY <2>1, <2>2, <2>3, Still
  <2> QED BY <1>0, <2>1, <2>4, <2>5 DEF IInv
<1>3. CASE FinishLock(t)
  <2>0. job[t] \in Works /\ LoopOf[job[t]] \in Loops
    BY <1>3, LoopOfAssumption DEF IInv, TypeOK, Busy, FinishLock
  <2>1. TypeOK'
    BY <1>3, <2>0 DEF IInv, TypeOK, Busy, FinishLock
  <2>2. ASSUME NEW u \in Workers, NEW w \in Works PROVE Carries(u, w)' <=> Carries(u, w)
    BY <1>3 DEF IInv, TypeOK, Busy, Carries, Hands, FinishLock
  <2>3. UNCHANGED <<wq, lwq, local, work, after, arg, lpc, job>>
    BY <1>3 DEF FinishLock
  <2>4. WorkerInv'
    <3>1. ASSUME NEW u \in Workers, pc'[u] \in {"insert", "send", "unlock"}, u # t
          PROVE  pc'[u] = pc[u] /\ wqMutex'[LoopOf[job[u]]] = u
      <4>1. pc'[u] = pc[u]
        BY <1>3, <3>1 DEF FinishLock
      <4>2. wqMutex[LoopOf[job[u]]] = u
        BY <3>1, <4>1 DEF IInv, WorkerInv
      <4>3. LoopOf[job[u]] # LoopOf[job[t]]
        BY <1>3, <4>2, FreeAssumption DEF FinishLock
      <4> QED BY <1>3, <4>1, <4>2, <4>3 DEF IInv, TypeOK, FinishLock
    <3>2. pc'[t] = "insert" /\ wqMutex'[LoopOf[job[t]]] = t
      BY <1>3, <2>0 DEF IInv, TypeOK, FinishLock
    <3>3. ASSUME NEW w PROVE InLwq(w)' = InLwq(w)
      BY <2>3 DEF InLwq
    <3>4. \A u \in Workers : pc'[u] \in {"insert", "send", "unlock"} =>
            wqMutex'[LoopOf[job'[u]]] = u
      BY <2>3, <3>1, <3>2
    <3>5. \A u \in Workers : pc'[u] \in {"send", "unlock"} =>
            InLwq(job[u]) /\ work[job[u]] = "null"
      BY <3>1, <3>2 DEF IInv, WorkerInv
    <3> QED BY <2>2, <2>3, <3>3, <3>4, <3>5 DEF IInv, WorkerInv
  <2>5. QueueInv' /\ ArgInv' /\ \A w \in Works : PlaceInv(w)'
    BY <2>1, <2>2, <2>3, Still
  <2> QED BY <1>0, <2>1, <2>4, <2>5 DEF IInv
<1>4. CASE FinishSend(t)
  <2>0. job[t] \in Works /\ LoopOf[job[t]] \in Loops
    BY <1>4, LoopOfAssumption DEF IInv, TypeOK, Busy, FinishSend
  <2>1. TypeOK'
    BY <1>4, <2>0 DEF IInv, TypeOK, Busy, FinishSend
  <2>2. ASSUME NEW u \in Workers, NEW w \in Works PROVE Carries(u, w)' <=> Carries(u, w)
    BY <1>4 DEF IInv, TypeOK, Busy, Carries, Hands, FinishSend
  <2>3. UNCHANGED <<wq, lwq, local, work, after, arg, lpc, job, wqMutex>>
    BY <1>4 DEF FinishSend
  <2>4. WorkerInv'
    <3>1. ASSUME NEW u \in Workers
          PROVE  pc'[u] = pc[u] \/ (pc[u] = "send" /\ pc'[u] = "unlock")
      <4>1. CASE u = t
        BY <1>4, <4>1 DEF IInv, TypeOK, FinishSend
      <4>2. CASE u # t
        BY <1>4, <4>2 DEF IInv, TypeOK, FinishSend
      <4> QED BY <4>1, <4>2
    <3>2. ASSUME NEW w PROVE InLwq(w)' = InLwq(w)
      BY <2>3 DEF InLwq
    <3> QED BY <2>2, <2>3, <3>1, <3>2 DEF IInv, WorkerInv
  <2>5. QueueInv' /\ ArgInv' /\ \A w \in Works : PlaceInv(w)'
    BY <2>1, <2>2, <2>3, Still
  <2> QED BY <1>0, <2>1, <2>4, <2>5 DEF IInv
<1>5. CASE FinishUnlock(t)
  <2>0. job[t] \in Works /\ LoopOf[job[t]] \in Loops
    BY <1>5, LoopOfAssumption DEF IInv, TypeOK, Busy, FinishUnlock
  <2>1. TypeOK'
    BY <1>5, <2>0, NoneAssumption DEF IInv, TypeOK, Busy, FinishUnlock
  <2>2. ASSUME NEW u \in Workers, NEW w \in Works PROVE Carries(u, w)' <=> Carries(u, w)
    BY <1>5 DEF IInv, TypeOK, Busy, Carries, Hands, FinishUnlock
  <2>3. UNCHANGED <<wq, lwq, local, work, after, arg, lpc>>
    BY <1>5 DEF FinishUnlock
  <2>4. WorkerInv'
    <3>1. ASSUME NEW u \in Workers, pc'[u] \in {"insert", "send", "unlock"}
          PROVE  pc'[u] = pc[u] /\ job'[u] = job[u] /\ wqMutex'[LoopOf[job[u]]] = u
      <4>1. pc'[u] = pc[u] /\ job'[u] = job[u] /\ u # t
        BY <1>5, <3>1 DEF IInv, TypeOK, FinishUnlock
      <4>2. wqMutex[LoopOf[job[u]]] = u /\ wqMutex[LoopOf[job[t]]] = t
        BY <1>5, <3>1, <4>1 DEF IInv, WorkerInv, FinishUnlock
      <4> QED BY <1>5, <4>1, <4>2 DEF IInv, TypeOK, FinishUnlock
    <3>2. ASSUME NEW w PROVE InLwq(w)' = InLwq(w)
      BY <2>3 DEF InLwq
    <3> QED BY <2>2, <2>3, <3>1, <3>2 DEF IInv, WorkerInv
  <2>5. QueueInv' /\ ArgInv' /\ \A w \in Works : PlaceInv(w)'
    BY <2>1, <2>2, <2>3, Still
  <2> QED BY <1>0, <2>1, <2>4, <2>5 DEF IInv
<1> QED BY <1>1, <1>2, <1>3, <1>4, <1>5

\* The first work of the pool's queue goes to a worker's hands.
LEMMA TakeStep ==
  ASSUME IInv, NEW t \in Workers, WorkerTake(t)
  PROVE  IInv'
<1> DEFINE x == Head(wq)
<1> USE DEF GotoW, inbox, loop
<1>0. wq \in Seq(Works) /\ wq # <<>> /\ NoRepeat(wq)
  BY DEF IInv, TypeOK, QueueInv, WorkerTake
<1>1. /\ x \in Works /\ Tail(wq) \in Seq(Works) /\ NoRepeat(Tail(wq)) /\ Contains(wq, x)
      /\ \A w : Contains(Tail(wq), w) <=> Contains(wq, w) /\ w # x
  BY <1>0, TailSeq
<1> HIDE DEF x
<1>2. /\ wq' = Tail(wq) /\ pc[t] = "test" /\ mutex' = Free
      /\ pc' = [pc EXCEPT ![t] = "run"] /\ job' = [job EXCEPT ![t] = x]
      /\ UNCHANGED <<lwq, local, work, after, arg, lpc, wqMutex, awake, current>>
  BY DEF WorkerTake, x
<1>3. TypeOK'
  BY <1>1, <1>2, NoneAssumption DEF IInv, TypeOK, Busy
<1>4. QueueInv' /\ ArgInv' /\ CallInv'
  BY <1>1, <1>2 DEF IInv, QueueInv, ArgInv, CallInv
<1>5. ASSUME NEW u \in Workers, NEW w \in Works
      PROVE  Carries(u, w)' <=> Carries(u, w) \/ (u = t /\ w = x)
  BY <1>2 DEF IInv, TypeOK, Carries, Hands
<1>6. PlaceInv(x) /\ InWq(x)
  BY <1>1 DEF IInv, InWq
<1>7. WorkerInv'
  <2>1. \A u \in Workers : pc'[u] \in {"insert", "send", "unlock"} =>
          pc'[u] = pc[u] /\ job'[u] = job[u]
    BY <1>2 DEF IInv, TypeOK
  <2>2. ASSUME NEW w PROVE InLwq(w)' = InLwq(w)
    BY <1>2 DEF InLwq
  <2>3. \A u \in Workers : ~ Carries(u, x)
    BY <1>6 DEF PlaceInv, Carried
  <2> QED BY <1>2, <1>5, <2>1, <2>2, <2>3 DEF IInv, WorkerInv
<1>8. ASSUME NEW w \in Works PROVE PlaceInv(w)'
  <2>1. /\ InWq(w)' <=> InWq(w) /\ w # x
        /\ InLwq(w)' = InLwq(w) /\ InLocal(w)' = InLocal(w) /\ Kept(w)' = Kept(w)
    BY <1>1, <1>2 DEF InWq, InLwq, InLocal, Kept
  <2>2. Carried(w)' <=> Carried(w) \/ w = x
    BY <1>5 DEF Carried
  <2>3. PlaceInv(w)
    BY DEF IInv
  <2> QED BY <1>2, <1>6, <2>1, <2>2, <2>3 DEF PlaceInv, Nowhere
<1> QED BY <1>3, <1>4, <1>7, <1>8 DEF IInv

\* A worker's work goes to the queue of its loop.
LEMMA InsertStep ==
  ASSUME IInv, NEW t \in Workers, FinishInsert(t)
  PROVE  IInv'
<1> DEFINE x == job[t]
           l == LoopOf[x]
<1> USE DEF GotoW, pool
<1>0. x \in Works /\ l \in Loops /\ pc[t] = "insert"
  BY LoopOfAssumption DEF IInv, TypeOK, Busy, FinishInsert
<1>1. Carries(t, x) /\ Carried(x) /\ PlaceInv(x)
  BY <1>0 DEF Carries, Carried, Hands, IInv
<1>2. lwq[l] \in Seq(Works) /\ NoRepeat(lwq[l]) /\ ~ Contains(lwq[l], x)
  BY <1>0, <1>1 DEF IInv, TypeOK, QueueInv, PlaceInv, InLwq
<1>3. /\ Append(lwq[l], x) \in Seq(Works) /\ NoRepeat(Append(lwq[l], x))
      /\ \A w : Contains(Append(lwq[l], x), w) <=> Contains(lwq[l], w) \/ w = x
  BY <1>0, <1>2, AppendSeq
<1>4. /\ lwq' = [lwq EXCEPT ![l] = Append(lwq[l], x)]
      /\ work' = [work EXCEPT ![x] = "null"] /\ pc' = [pc EXCEPT ![t] = "send"]
      /\ UNCHANGED <<mutex, wq, job, local, after, arg, lpc, wqMutex, awake, current>>
  BY <1>0 DEF FinishInsert, loop, IInv, TypeOK
<1> HIDE DEF x, l
<1>5. TypeOK'
  BY <1>0, <1>3, <1>4 DEF IInv, TypeOK, Busy
<1>6. QueueInv'
  BY <1>0, <1>3, <1>4 DEF IInv, TypeOK, QueueInv, l
<1>7. ArgInv' /\ CallInv'
  BY <1>0, <1>4 DEF IInv, TypeOK, ArgInv, CallInv
<1>8. ASSUME NEW u \in Workers, NEW w \in Works
      PROVE  Carries(u, w)' <=> Carries(u, w) /\ u # t
  BY <1>0, <1>4 DEF IInv, TypeOK, Carries, Hands
<1>9. ASSUME NEW w \in Works PROVE InLwq(w)' <=> InLwq(w) \/ w = x
  BY <1>0, <1>3, <1>4, <1>9, LoopOfAssumption DEF InLwq, IInv, TypeOK, l
<1>10. WorkerInv'
  <2>1. ASSUME NEW u \in Workers, pc'[u] \in {"send", "unlock"}
        PROVE  InLwq(job[u])' /\ work'[job[u]] = "null"
    <3>1. CASE u = t
      BY <1>0, <1>4, <1>9, <3>1 DEF IInv, TypeOK, x
    <3>2. CASE u # t
      <4>1. pc[u] \in {"send", "unlock"} /\ job[u] \in Works
        BY <1>4, <2>1, <3>2 DEF IInv, TypeOK, Busy
      <4>2. InLwq(job[u]) /\ work[job[u]] = "null"
        BY <4>1 DEF IInv, WorkerInv
      <4> QED BY <1>4, <1>9, <4>1, <4>2 DEF IInv, TypeOK
    <3> QED BY <3>1, <3>2
  <2>2. ASSUME NEW u \in Workers, pc'[u] \in {"insert", "send", "unlock"}
        PROVE  wqMutex[LoopOf[job[u]]] = u
    <3>1. pc[u] \in {"insert", "send", "unlock"}
      BY <1>0, <1>4, <2>2 DEF IInv, TypeOK
    <3> QED BY <3>1 DEF IInv, WorkerInv
  <2> QED BY <1>4, <1>8, <2>1, <2>2 DEF IInv, WorkerInv
<1>11. ASSUME NEW w \in Works PROVE PlaceInv(w)'
  <2>1. InWq(w)' = InWq(w) /\ InLocal(w)' = InLocal(w) /\ Kept(w)' = Kept(w)
    BY <1>4 DEF InWq, InLocal, Kept
  <2>2. Carried(w)' <=> Carried(w) /\ w # x
    <3>1. \A u \in Workers : Carries(u, x) => u = t
      BY <1>0, <1>1 DEF IInv, WorkerInv
    <3>2. \A u \in Workers : Carries(u, w) /\ w # x => u # t
      BY <1>1 DEF Carries
    <3> QED BY <1>0, <1>8, <3>1, <3>2 DEF Carried
  <2>3. PlaceInv(w)
    BY DEF IInv
  <2>4. work'[w] = IF w = x THEN "null" ELSE work[w]
    BY <1>4 DEF IInv, TypeOK
  <2> QED BY <1>1, <1>4, <1>9, <2>1, <2>2, <2>3, <2>4 DEF PlaceInv, Nowhere
<1> QED BY <1>5, <1>6, <1>7, <1>10, <1>11 DEF IInv

-----------------------------------------------------------------------------
(* The steps of the loops' threads.                                        *)

\* A step of a loop's thread leaves the workers and their mutexes alone: it has
\* to leave the works they have just handed over where they are.
LEMMA LoopStep ==
  ASSUME IInv, UNCHANGED <<pc, job, wqMutex>>,
         \A t \in Workers : pc[t] \in {"send", "unlock"} =>
           InLwq(job[t])' /\ work'[job[t]] = "null"
  PROVE  /\ WorkerInv'
         /\ \A w \in Works : Carried(w)' <=> Carried(w)
<1>1. ASSUME NEW u \in Workers, NEW w \in Works PROVE Carries(u, w)' <=> Carries(u, w)
  BY DEF Carries
<1>2. \A w \in Works : Carried(w)' <=> Carried(w)
  BY <1>1 DEF Carried
<1>3. WorkerInv'
  BY <1>1 DEF IInv, WorkerInv
<1> QED BY <1>2, <1>3

\* The steps of uv__work_done that move no work.
LEMMA LoopStill ==
  ASSUME IInv, NEW l \in Loops, WakeLoop(l) \/ Return(l) \/ Drained(l)
  PROVE  IInv'
<1> USE DEF GotoL, pool, worker, inbox
<1>1. TypeOK' /\ CallInv'
  <2>1. CASE WakeLoop(l)
    BY <2>1 DEF IInv, TypeOK, CallInv, WakeLoop
  <2>2. CASE Return(l)
    BY <2>2, NoneAssumption DEF IInv, TypeOK, CallInv, Return
  <2>3. CASE Drained(l)
    BY <2>3 DEF IInv, TypeOK, CallInv, Drained
  <2> QED BY <2>1, <2>2, <2>3
<1>2. UNCHANGED <<wq, lwq, local, work, after, arg, pc, job, wqMutex>>
  BY DEF WakeLoop, Return, Drained
<1>3. \A k \in Loops :
        lpc'[k] = lpc[k] \/ {lpc[k], lpc'[k]} \cap {"post", "decide", "requeue"} = {}
  BY DEF IInv, TypeOK, WakeLoop, Return, Drained
<1>4. \A t \in Workers : pc[t] \in {"send", "unlock"} =>
        InLwq(job[t])' /\ work'[job[t]] = "null"
  BY <1>2 DEF IInv, WorkerInv, InLwq
<1>5. WorkerInv'
  BY <1>2, <1>4, LoopStep
<1>6. \A t \in Workers, w \in Works : Carries(t, w)' <=> Carries(t, w)
  BY <1>2 DEF Carries
<1>7. QueueInv' /\ ArgInv' /\ \A w \in Works : PlaceInv(w)'
  BY <1>1, <1>2, <1>3, <1>6, Still
<1> QED BY <1>1, <1>5, <1>7 DEF IInv

\* A new work is in the hands of the thread that submits it.
LEMMA QueueStep ==
  ASSUME IInv, NEW l \in Loops, NEW x \in Works, QueueWork(l, x)
  PROVE  IInv'
<1>1. /\ lpc[l] \in {"user", "call"} /\ LoopOf[x] = l /\ work[x] = "unset"
      /\ work' = [work EXCEPT ![x] = "fn"] /\ arg' = [arg EXCEPT ![l] = x]
      /\ lpc' = [lpc EXCEPT ![l] = "post"]
      /\ UNCHANGED <<mutex, wq, pc, job, wqMutex, lwq, awake, local, current, after>>
  BY DEF QueueWork, UserTurn, pool, worker, inbox
<1>2. PlaceInv(x) /\ after[x] = "none" /\ Nowhere(x)
  BY <1>1 DEF IInv, PlaceInv
<1>3. TypeOK'
  BY <1>1, NoneAssumption DEF IInv, TypeOK
<1>4. QueueInv' /\ CallInv'
  BY <1>1 DEF IInv, TypeOK, QueueInv, CallInv
<1>5. ArgInv'
  <2>1. arg[l] = None
    BY <1>1 DEF IInv, ArgInv
  <2> QED BY <1>1, <1>2, NoneAssumption DEF IInv, TypeOK, ArgInv
<1>6. \A t \in Workers : pc[t] \in {"send", "unlock"} =>
        InLwq(job[t])' /\ work'[job[t]] = "null"
  BY <1>1 DEF IInv, TypeOK, WorkerInv, InLwq
<1>7. WorkerInv' /\ \A w \in Works : Carried(w)' <=> Carried(w)
  BY <1>1, <1>6, LoopStep
<1>8. ASSUME NEW w \in Works PROVE PlaceInv(w)'
  <2>1. InWq(w)' = InWq(w) /\ InLwq(w)' = InLwq(w) /\ InLocal(w)' = InLocal(w)
    BY <1>1 DEF InWq, InLwq, InLocal
  <2>2. CASE w = x
    <3>1. Kept(x)' /\ lpc'[LoopOf[x]] = "post" /\ work'[x] = "fn"
      BY <1>1 DEF Kept, IInv, TypeOK
    <3> QED BY <1>1, <1>2, <1>7, <2>1, <2>2, <3>1 DEF PlaceInv, Nowhere
  <2>3. CASE w # x
    <3>1. Kept(w)' <=> Kept(w)
      BY <1>1, <2>3 DEF Kept, IInv, TypeOK
    <3>2. Kept(w) => lpc'[LoopOf[w]] = lpc[LoopOf[w]]
      BY <1>1 DEF Kept, IInv, TypeOK
    <3>3. work'[w] = work[w] /\ PlaceInv(w)
      BY <1>1, <2>3 DEF IInv, TypeOK
    <3> QED BY <1>1, <1>7, <2>1, <3>1, <3>2, <3>3 DEF PlaceInv, Nowhere
  <2> QED BY <2>2, <2>3
<1> QED BY <1>3, <1>4, <1>5, <1>7, <1>8 DEF IInv

\* What uv_cond_signal does to the workers.
LEMMA SignalStep ==
  ASSUME IInv, Signal \/ UNCHANGED pc
  PROVE  /\ pc' \in [Workers -> {"lock", "test", "wait", "woken"} \union Busy]
         /\ \A t \in Workers : pc'[t] = pc[t] \/ (pc[t] = "wait" /\ pc'[t] = "woken")
  BY DEF Signal, IInv, TypeOK

\* The work goes from the thread that submits it to the pool's queue.
LEMMA PostStep ==
  ASSUME IInv, NEW l \in Loops, Post(l)
  PROVE  IInv'
<1> DEFINE x == arg[l]
<1>1. /\ lpc[l] = "post" /\ wq' = Append(wq, x) /\ (Signal \/ UNCHANGED pc)
      /\ arg' = [arg EXCEPT ![l] = None] /\ lpc' = [lpc EXCEPT ![l] = Back(l)]
      /\ UNCHANGED <<mutex, job, wqMutex, lwq, awake, local, current, work, after>>
  BY DEF Post, GotoL, inbox
<1>2. x \in Works /\ LoopOf[x] = l /\ Kept(x) /\ PlaceInv(x)
  BY <1>1 DEF IInv, TypeOK, ArgInv, Kept
<1>3. wq \in Seq(Works) /\ NoRepeat(wq) /\ ~ Contains(wq, x)
  BY <1>2 DEF IInv, TypeOK, QueueInv, PlaceInv, InWq
<1>4. /\ wq' \in Seq(Works) /\ NoRepeat(wq')
      /\ \A w : Contains(wq', w) <=> Contains(wq, w) \/ w = x
  BY <1>1, <1>2, <1>3, AppendSeq
<1> HIDE DEF x
<1>5. /\ pc' \in [Workers -> {"lock", "test", "wait", "woken"} \union Busy]
      /\ \A t \in Workers : pc'[t] = pc[t] \/ (pc[t] = "wait" /\ pc'[t] = "woken")
  BY <1>1, SignalStep
<1>6. Back(l) \in {"user", "call"} /\ (Back(l) = "user" <=> current[l] = None)
  BY DEF Back
<1>7. TypeOK'
  BY <1>1, <1>4, <1>5, <1>6 DEF IInv, TypeOK, Busy
<1>8. QueueInv' /\ CallInv'
  BY <1>1, <1>4, <1>6 DEF IInv, TypeOK, QueueInv, CallInv
<1>9. ArgInv'
  BY <1>1, <1>6 DEF IInv, TypeOK, ArgInv
<1>10. ASSUME NEW u \in Workers, NEW w \in Works PROVE Carries(u, w)' <=> Carries(u, w)
  BY <1>1, <1>5 DEF Carries, Hands
<1>11. WorkerInv'
  <2>1. \A u \in Workers : pc'[u] \in {"insert", "send", "unlock"} => pc'[u] = pc[u]
    BY <1>5
  <2>2. ASSUME NEW w PROVE InLwq(w)' = InLwq(w)
    BY <1>1 DEF InLwq
  <2> QED BY <1>1, <1>10, <2>1, <2>2 DEF IInv, WorkerInv
<1>12. ASSUME NEW w \in Works PROVE PlaceInv(w)'
  <2>1. /\ InWq(w)' <=> InWq(w) \/ w = x
        /\ InLwq(w)' = InLwq(w) /\ InLocal(w)' = InLocal(w)
    BY <1>1, <1>4 DEF InWq, InLwq, InLocal
  <2>2. Carried(w)' <=> Carried(w)
    BY <1>10 DEF Carried
  <2>3. Kept(w)' <=> Kept(w) /\ w # x
    <3>1. CASE LoopOf[w] = l
      BY <1>1, <1>2, <1>6, <3>1 DEF Kept, IInv, TypeOK, x
    <3>2. CASE LoopOf[w] # l
      BY <1>1, <1>2, <3>2 DEF Kept, IInv, TypeOK
    <3> QED BY <3>1, <3>2
  <2>4. Kept(w)' => lpc'[LoopOf[w]] = lpc[LoopOf[w]]
    BY <1>1, <1>6 DEF Kept, IInv, TypeOK
  <2>5. PlaceInv(w) /\ (w = x => lpc[LoopOf[w]] = "post")
    BY <1>1, <1>2 DEF IInv
  <2> QED BY <1>1, <1>2, <2>1, <2>2, <2>3, <2>4, <2>5 DEF PlaceInv, Nowhere
<1> QED BY <1>7, <1>8, <1>9, <1>11, <1>12 DEF IInv

\* uv_cancel takes hold of the pool's mutex.
LEMMA CancelStep ==
  ASSUME IInv, NEW l \in Loops, NEW x \in Works, Cancel(l, x)
  PROVE  IInv'
<1>1. /\ lpc[l] \in {"user", "call"} /\ LoopOf[x] = l
      /\ work[x] # "unset" /\ after[x] = "none"
      /\ mutex' = l /\ arg' = [arg EXCEPT ![l] = x] /\ lpc' = [lpc EXCEPT ![l] = "decide"]
      /\ UNCHANGED <<wq, pc, job, wqMutex, lwq, awake, local, current, work, after>>
  BY DEF Cancel, UserTurn, worker, inbox
<1>2. TypeOK'
  BY <1>1, NoneAssumption DEF IInv, TypeOK
<1>3. QueueInv' /\ CallInv'
  BY <1>1 DEF IInv, TypeOK, QueueInv, CallInv
<1>4. ArgInv'
  BY <1>1, NoneAssumption DEF IInv, TypeOK, ArgInv
<1>5. \A t \in Workers : pc[t] \in {"send", "unlock"} =>
        InLwq(job[t])' /\ work'[job[t]] = "null"
  BY <1>1 DEF IInv, WorkerInv, InLwq
<1>6. WorkerInv' /\ \A w \in Works : Carried(w)' <=> Carried(w)
  BY <1>1, <1>5, LoopStep
<1>7. ASSUME NEW w \in Works PROVE PlaceInv(w)'
  <2>1. InWq(w)' = InWq(w) /\ InLwq(w)' = InLwq(w) /\ InLocal(w)' = InLocal(w)
    BY <1>1 DEF InWq, InLwq, InLocal
  <2>2. /\ Kept(w)' <=> Kept(w)
        /\ Kept(w) => lpc'[LoopOf[w]] = lpc[LoopOf[w]]
    BY <1>1 DEF Kept, IInv, TypeOK
  <2>3. PlaceInv(w)
    BY DEF IInv
  <2> QED BY <1>1, <1>6, <2>1, <2>2, <2>3 DEF PlaceInv, Nowhere
<1> QED BY <1>2, <1>3, <1>4, <1>6, <1>7 DEF IInv

\* uv_cancel finds that it is too late.
LEMMA RefuseStep ==
  ASSUME IInv, NEW l \in Loops, lpc[l] = "decide", mutex' = Free,
         lpc' = [lpc EXCEPT ![l] = Back(l)], arg' = [arg EXCEPT ![l] = None],
         UNCHANGED <<wq, pc, job, wqMutex, lwq, awake, local, current, work, after>>
  PROVE  IInv'
<1>1. Back(l) \in {"user", "call"} /\ (Back(l) = "user" <=> current[l] = None)
  BY DEF Back
<1>2. TypeOK'
  BY <1>1 DEF IInv, TypeOK
<1>3. QueueInv' /\ CallInv'
  BY <1>1 DEF IInv, TypeOK, QueueInv, CallInv
<1>4. ArgInv'
  BY <1>1 DEF IInv, TypeOK, ArgInv
<1>5. \A t \in Workers : pc[t] \in {"send", "unlock"} =>
        InLwq(job[t])' /\ work'[job[t]] = "null"
  BY DEF IInv, WorkerInv, InLwq
<1>6. WorkerInv' /\ \A w \in Works : Carried(w)' <=> Carried(w)
  BY <1>5, LoopStep
<1>7. ASSUME NEW w \in Works PROVE PlaceInv(w)'
  <2>1. InWq(w)' = InWq(w) /\ InLwq(w)' = InLwq(w) /\ InLocal(w)' = InLocal(w)
    BY DEF InWq, InLwq, InLocal
  <2>2. /\ Kept(w)' <=> Kept(w)
        /\ Kept(w) => lpc'[LoopOf[w]] = lpc[LoopOf[w]]
    BY <1>1 DEF Kept, IInv, TypeOK
  <2>3. PlaceInv(w)
    BY DEF IInv
  <2> QED BY <1>6, <2>1, <2>2, <2>3 DEF PlaceInv, Nowhere
<1> QED BY <1>2, <1>3, <1>4, <1>6, <1>7 DEF IInv

\* uv_cancel takes the work out of whichever queue it is in.
LEMMA UnlinkStep ==
  ASSUME IInv, NEW l \in Loops, CancelDecide(l), Cancellable(arg[l])
  PROVE  IInv'
<1> DEFINE x == arg[l]
<1>1. /\ lpc[l] = "decide" /\ mutex' = Free /\ lpc' = [lpc EXCEPT ![l] = "requeue"]
      /\ wq' = RemoveFirst(wq, x)
      /\ lwq' = [lwq EXCEPT ![l] = RemoveFirst(lwq[l], x)]
      /\ local' = [local EXCEPT ![l] = RemoveFirst(local[l], x)]
      /\ UNCHANGED <<pc, job, wqMutex, awake, arg, current, work, after>>
  BY DEF CancelDecide, IInv, TypeOK, worker
<1>2. /\ x \in Works /\ LoopOf[x] = l /\ PlaceInv(x)
      /\ work[x] \notin {"unset", "null"} /\ after[x] = "none"
      /\ InWq(x) \/ InLwq(x) \/ InLocal(x)
  BY <1>1 DEF IInv, TypeOK, ArgInv, Cancellable, Linked, InWq, InLwq, InLocal
<1> HIDE DEF x
<1>3. /\ wq' \in Seq(Works) /\ NoRepeat(wq')
      /\ \A w : Contains(wq', w) <=> Contains(wq, w) /\ w # x
  BY <1>1, RemoveSeq DEF IInv, TypeOK, QueueInv
<1>4. /\ lwq'[l] \in Seq(Works) /\ NoRepeat(lwq'[l])
      /\ \A w : Contains(lwq'[l], w) <=> Contains(lwq[l], w) /\ w # x
  BY <1>1, RemoveSeq DEF IInv, TypeOK, QueueInv
<1>5. /\ local'[l] \in Seq(Works) /\ NoRepeat(local'[l])
      /\ \A w : Contains(local'[l], w) <=> Contains(local[l], w) /\ w # x
  BY <1>1, RemoveSeq DEF IInv, TypeOK, QueueInv
<1>6. TypeOK'
  BY <1>1, <1>3, <1>4, <1>5 DEF IInv, TypeOK
<1>7. QueueInv'
  <2>1. ASSUME NEW k \in Loops, k # l PROVE lwq'[k] = lwq[k] /\ local'[k] = local[k]
    BY <1>1, <2>1 DEF IInv, TypeOK
  <2> QED BY <1>3, <1>4, <1>5, <2>1 DEF IInv, QueueInv
<1>8. ArgInv'
  BY <1>1 DEF IInv, TypeOK, ArgInv
<1>9. CallInv'
  <2>1. local'[l] # <<>> => local[l] # <<>>
    <3>1. CASE local[l] = <<>>
      <4>1. \A w : ~ Contains(local'[l], w)
        BY <1>5, <3>1, NothingIn
      <4>2. local'[l] = <<>>
        <5>1. local'[l] # <<>> => Contains(local'[l], Head(local'[l]))
          BY <1>5, TailSeq
        <5> QED BY <4>1, <5>1
      <4> QED BY <4>2
    <3> QED BY <3>1
  <2> QED BY <1>1, <2>1 DEF IInv, TypeOK, CallInv
<1>10. ASSUME NEW w \in Works
       PROVE  /\ InWq(w)' <=> InWq(w) /\ w # x
              /\ InLwq(w)' <=> InLwq(w) /\ w # x
              /\ InLocal(w)' <=> InLocal(w) /\ w # x
  <2>1. InWq(w)' <=> InWq(w) /\ w # x
    BY <1>3 DEF InWq
  <2>2. CASE LoopOf[w] = l
    BY <1>1, <1>4, <1>5, <2>1, <2>2 DEF InLwq, InLocal
  <2>3. CASE LoopOf[w] # l
    BY <1>1, <1>2, <2>1, <2>3, LoopOfAssumption DEF InLwq, InLocal, IInv, TypeOK
  <2> QED BY <2>2, <2>3
<1>11. \A t \in Workers : pc[t] \in {"send", "unlock"} =>
         InLwq(job[t])' /\ work'[job[t]] = "null"
  BY <1>1, <1>2, <1>10 DEF IInv, TypeOK, WorkerInv, Busy
<1>12. WorkerInv' /\ \A w \in Works : Carried(w)' <=> Carried(w)
  BY <1>1, <1>11, LoopStep
<1>13. ASSUME NEW w \in Works PROVE PlaceInv(w)'
  <2>1. Kept(w)' <=> Kept(w) \/ w = x
    <3>1. CASE LoopOf[w] = l
      BY <1>1, <1>2, <3>1 DEF Kept, IInv, TypeOK, x
    <3>2. CASE LoopOf[w] # l
      BY <1>1, <1>2, <3>2 DEF Kept, IInv, TypeOK
    <3> QED BY <3>1, <3>2
  <2>2. Kept(w)' => lpc'[LoopOf[w]] = IF w = x THEN "requeue" ELSE lpc[LoopOf[w]]
    BY <1>1, <1>2 DEF Kept, IInv, TypeOK, x
  <2>3. PlaceInv(w)
    BY DEF IInv
  <2>4. CASE w = x
    BY <1>1, <1>2, <1>10, <1>12, <2>1, <2>2, <2>4 DEF PlaceInv, Nowhere
  <2>5. CASE w # x
    BY <1>1, <1>10, <1>12, <2>1, <2>2, <2>3, <2>5 DEF PlaceInv, Nowhere
  <2> QED BY <2>4, <2>5
<1> QED BY <1>6, <1>7, <1>8, <1>9, <1>12, <1>13 DEF IInv

LEMMA DecideStep ==
  ASSUME IInv, NEW l \in Loops, CancelDecide(l)
  PROVE  IInv'
<1>1. CASE Cancellable(arg[l])
  BY <1>1, UnlinkStep
<1>2. CASE ~ Cancellable(arg[l])
  BY <1>2, RefuseStep DEF CancelDecide, worker
<1> QED BY <1>1, <1>2

\* The cancelled work goes to the queue of its loop.
LEMMA RequeueStep ==
  ASSUME IInv, NEW l \in Loops, CancelRequeue(l)
  PROVE  IInv'
<1> DEFINE x == arg[l]
<1>1. /\ lpc[l] = "requeue" /\ work' = [work EXCEPT ![x] = "cancelled"]
      /\ lwq' = [lwq EXCEPT ![l] = Append(lwq[l], x)] /\ awake' = [awake EXCEPT ![l] = TRUE]
      /\ arg' = [arg EXCEPT ![l] = None] /\ lpc' = [lpc EXCEPT ![l] = Back(l)]
      /\ UNCHANGED <<mutex, wq, pc, job, wqMutex, local, current, after>>
  BY DEF CancelRequeue, GotoL, pool, worker, IInv, TypeOK
<1>2. x \in Works /\ LoopOf[x] = l /\ Kept(x) /\ PlaceInv(x)
  BY <1>1 DEF IInv, TypeOK, ArgInv, Kept
<1>3. lwq[l] \in Seq(Works) /\ NoRepeat(lwq[l]) /\ ~ Contains(lwq[l], x)
  BY <1>2 DEF IInv, TypeOK, QueueInv, PlaceInv, InLwq
<1>4. /\ Append(lwq[l], x) \in Seq(Works) /\ NoRepeat(Append(lwq[l], x))
      /\ \A w : Contains(Append(lwq[l], x), w) <=> Contains(lwq[l], w) \/ w = x
  BY <1>2, <1>3, AppendSeq
<1> HIDE DEF x
<1>5. Back(l) \in {"user", "call"} /\ (Back(l) = "user" <=> current[l] = None)
  BY DEF Back
<1>6. TypeOK'
  BY <1>1, <1>2, <1>4, <1>5 DEF IInv, TypeOK
<1>7. QueueInv'
  BY <1>1, <1>2, <1>4 DEF IInv, TypeOK, QueueInv
<1>8. ArgInv' /\ CallInv'
  BY <1>1, <1>2, <1>5 DEF IInv, TypeOK, ArgInv, CallInv
<1>9. ASSUME NEW w \in Works PROVE InLwq(w)' <=> InLwq(w) \/ w = x
  BY <1>1, <1>2, <1>4, LoopOfAssumption DEF InLwq, IInv, TypeOK
<1>10. ASSUME NEW w \in Works
       PROVE  work'[w] = IF w = x THEN "cancelled" ELSE work[w]
  BY <1>1 DEF IInv, TypeOK
<1>11. \A t \in Workers : pc[t] \in {"send", "unlock"} =>
         InLwq(job[t])' /\ work'[job[t]] = "null"
  <2> SUFFICES ASSUME NEW t \in Workers, pc[t] \in {"send", "unlock"}
               PROVE  InLwq(job[t])' /\ work'[job[t]] = "null"
    OBVIOUS
  <2>1. job[t] \in Works /\ InLwq(job[t]) /\ work[job[t]] = "null"
    BY DEF IInv, TypeOK, WorkerInv, Busy
  <2>2. job[t] # x
    BY <1>2, <2>1 DEF PlaceInv
  <2> QED BY <1>1, <1>9, <1>10, <2>1, <2>2
<1>12. WorkerInv' /\ \A w \in Works : Carried(w)' <=> Carried(w)
  BY <1>1, <1>11, LoopStep
<1>13. ASSUME NEW w \in Works PROVE PlaceInv(w)'
  <2>1. InWq(w)' = InWq(w) /\ InLocal(w)' = InLocal(w)
    BY <1>1 DEF InWq, InLocal
  <2>2. Kept(w)' <=> Kept(w) /\ w # x
    <3>1. CASE LoopOf[w] = l
      BY <1>1, <1>2, <1>5, <3>1 DEF Kept, IInv, TypeOK, x
    <3>2. CASE LoopOf[w] # l
      BY <1>1, <1>2, <3>2 DEF Kept, IInv, TypeOK
    <3> QED BY <3>1, <3>2
  <2>3. Kept(w)' => lpc'[LoopOf[w]] = lpc[LoopOf[w]]
    BY <1>1, <1>5 DEF Kept, IInv, TypeOK
  <2>4. PlaceInv(w)
    BY DEF IInv
  <2> QED BY <1>1, <1>2, <1>9, <1>10, <1>12, <2>1, <2>2, <2>3, <2>4 DEF PlaceInv, Nowhere
<1> QED BY <1>6, <1>7, <1>8, <1>12, <1>13 DEF IInv

\* The works of the loop's queue go to the one on the stack of uv__work_done.
LEMMA SplitStep ==
  ASSUME IInv, NEW l \in Loops, Split(l)
  PROVE  IInv'
<1>1. /\ lpc[l] = "split" /\ wqMutex[l] = Free /\ lpc' = [lpc EXCEPT ![l] = "drain"]
      /\ local' = [local EXCEPT ![l] = lwq[l]] /\ lwq' = [lwq EXCEPT ![l] = <<>>]
      /\ UNCHANGED <<mutex, wq, pc, job, wqMutex, awake, arg, current, work, after>>
  BY DEF Split, GotoL, pool, worker
<1>2. local[l] = <<>>
  BY <1>1 DEF IInv, CallInv
<1>3. TypeOK'
  BY <1>1 DEF IInv, TypeOK
<1>4. QueueInv'
  <2>1. lwq'[l] = <<>> /\ local'[l] = lwq[l]
    BY <1>1 DEF IInv, TypeOK
  <2>2. \A k \in Loops : k # l => lwq'[k] = lwq[k] /\ local'[k] = local[k]
    BY <1>1 DEF IInv, TypeOK
  <2>3. NoRepeat(lwq'[l]) /\ \A w : ~ Contains(lwq'[l], w)
    BY <2>1, NothingIn
  <2> QED BY <1>1, <2>1, <2>2, <2>3 DEF IInv, QueueInv
<1>5. ArgInv' /\ CallInv'
  BY <1>1 DEF IInv, TypeOK, ArgInv, CallInv
<1>6. ASSUME NEW w \in Works
      PROVE  IF LoopOf[w] = l
               THEN ~ InLwq(w)' /\ (InLocal(w)' <=> InLwq(w)) /\ ~ InLocal(w)
               ELSE InLwq(w)' = InLwq(w) /\ InLocal(w)' = InLocal(w)
  <2>1. CASE LoopOf[w] = l
    <3>1. lwq'[l] = <<>> /\ local'[l] = lwq[l]
      BY <1>1 DEF IInv, TypeOK
    <3>2. ~ Contains(lwq'[l], w) /\ ~ Contains(local[l], w)
      BY <1>2, <3>1, NothingIn
    <3> QED BY <2>1, <3>1, <3>2 DEF InLwq, InLocal
  <2>2. CASE LoopOf[w] # l
    BY <1>1, <2>2, LoopOfAssumption DEF InLwq, InLocal, IInv, TypeOK
  <2> QED BY <2>1, <2>2
<1>7. \A t \in Workers : pc[t] \in {"send", "unlock"} =>
        InLwq(job[t])' /\ work'[job[t]] = "null"
  <2> SUFFICES ASSUME NEW t \in Workers, pc[t] \in {"send", "unlock"}
               PROVE  InLwq(job[t])' /\ work'[job[t]] = "null"
    OBVIOUS
  <2>1. /\ job[t] \in Works /\ InLwq(job[t]) /\ work[job[t]] = "null"
        /\ wqMutex[LoopOf[job[t]]] = t
    BY DEF IInv, TypeOK, WorkerInv, Busy
  <2>2. LoopOf[job[t]] # l
    BY <1>1, <2>1, FreeAssumption
  <2> QED BY <1>1, <1>6, <2>1, <2>2
<1>8. WorkerInv' /\ \A w \in Works : Carried(w)' <=> Carried(w)
  BY <1>1, <1>7, LoopStep
<1>9. ASSUME NEW w \in Works PROVE PlaceInv(w)'
  <2>1. InWq(w)' = InWq(w)
    BY <1>1 DEF InWq
  <2>2. /\ Kept(w)' <=> Kept(w)
        /\ Kept(w) => LoopOf[w] # l /\ lpc'[LoopOf[w]] = lpc[LoopOf[w]]
    BY <1>1 DEF Kept, IInv, TypeOK
  <2>3. PlaceInv(w)
    BY DEF IInv
  <2> QED BY <1>1, <1>6, <1>8, <2>1, <2>2, <2>3 DEF PlaceInv, Nowhere
<1> QED BY <1>3, <1>4, <1>5, <1>8, <1>9 DEF IInv

\* A work is called back, and is nowhere.
LEMMA CallStep ==
  ASSUME IInv, NEW l \in Loops, Call(l)
  PROVE  IInv'
<1> DEFINE x == Head(local[l])
           status == IF work[x] = "cancelled" THEN "ecanceled" ELSE "ok"
<1>0. local[l] \in Seq(Works) /\ local[l] # <<>> /\ NoRepeat(local[l])
  BY DEF IInv, TypeOK, QueueInv, Call
<1>1. /\ x \in Works /\ Tail(local[l]) \in Seq(Works) /\ NoRepeat(Tail(local[l]))
      /\ Contains(local[l], x)
      /\ \A w : Contains(Tail(local[l]), w) <=> Contains(local[l], w) /\ w # x
  BY <1>0, TailSeq
<1>2. /\ lpc[l] = "drain" /\ lpc' = [lpc EXCEPT ![l] = "call"]
      /\ current' = [current EXCEPT ![l] = x] /\ after' = [after EXCEPT ![x] = status]
      /\ local' = [local EXCEPT ![l] = Tail(local[l])]
      /\ UNCHANGED <<mutex, wq, pc, job, wqMutex, lwq, awake, arg, work>>
  BY DEF Call, GotoL, pool, worker, inbox, IInv, TypeOK
<1>3. status \in {"ok", "ecanceled"}
  OBVIOUS
<1> HIDE DEF x, status
<1>4. LoopOf[x] = l /\ InLocal(x) /\ PlaceInv(x)
  BY <1>1 DEF IInv, QueueInv, InLocal
<1>5. TypeOK'
  BY <1>1, <1>2, <1>3 DEF IInv, TypeOK
<1>6. QueueInv'
  BY <1>1, <1>2 DEF IInv, TypeOK, QueueInv
<1>7. ArgInv'
  <2>1. \A k \in Loops : arg[k] # x
    BY <1>1, <1>2, <1>4, NoneAssumption DEF IInv, ArgInv
  <2> QED BY <1>2, <2>1 DEF IInv, TypeOK, ArgInv
<1>8. CallInv'
  BY <1>1, <1>2, NoneAssumption DEF IInv, TypeOK, CallInv
<1>9. \A t \in Workers : pc[t] \in {"send", "unlock"} =>
        InLwq(job[t])' /\ work'[job[t]] = "null"
  BY <1>2 DEF IInv, WorkerInv, InLwq
<1>10. WorkerInv' /\ \A w \in Works : Carried(w)' <=> Carried(w)
  BY <1>2, <1>9, LoopStep
<1>11. ASSUME NEW w \in Works PROVE PlaceInv(w)'
  <2>1. InWq(w)' = InWq(w) /\ InLwq(w)' = InLwq(w)
    BY <1>2 DEF InWq, InLwq
  <2>2. InLocal(w)' <=> InLocal(w) /\ w # x
    BY <1>1, <1>2, <1>4, LoopOfAssumption DEF InLocal, IInv, TypeOK
  <2>3. /\ Kept(w)' <=> Kept(w)
        /\ Kept(w) => lpc'[LoopOf[w]] = lpc[LoopOf[w]]
    BY <1>2 DEF Kept, IInv, TypeOK
  <2>4. PlaceInv(w) /\ after'[w] = IF w = x THEN status ELSE after[w]
    BY <1>2 DEF IInv, TypeOK
  <2> QED BY <1>2, <1>3, <1>4, <1>10, <2>1, <2>2, <2>3, <2>4 DEF PlaceInv, Nowhere
<1> QED BY <1>5, <1>6, <1>7, <1>8, <1>10, <1>11 DEF IInv

-----------------------------------------------------------------------------
LEMMA StutterIInv == IInv /\ UNCHANGED vars => IInv'
<1> SUFFICES ASSUME IInv, UNCHANGED vars PROVE IInv'
  OBVIOUS
<1> USE DEF IInv, vars, pool, worker, inbox, loop
<1>1. TypeOK' /\ QueueInv' /\ ArgInv' /\ CallInv'
  BY DEF TypeOK, QueueInv, ArgInv, CallInv
<1>2. \A t \in Workers : pc[t] \in {"send", "unlock"} =>
        InLwq(job[t])' /\ work'[job[t]] = "null"
  BY DEF WorkerInv, InLwq
<1>3. WorkerInv' /\ \A w \in Works : Carried(w)' <=> Carried(w)
  BY <1>2, LoopStep
<1>4. \A w \in Works : PlaceInv(w)'
  BY <1>3 DEF PlaceInv, Nowhere, InWq, InLwq, InLocal, Kept
<1> QED BY <1>1, <1>3, <1>4

LEMMA NextIInv == IInv /\ [Next]_vars => IInv'
<1> SUFFICES ASSUME IInv, [Next]_vars PROVE IInv'
  OBVIOUS
<1>1. ASSUME NEW t \in Workers, WorkerNext(t) \/ Spurious(t) PROVE IInv'
  BY <1>1, WorkerStill, TakeStep, InsertStep DEF WorkerNext
<1>2. ASSUME NEW l \in Loops, LoopNext(l) PROVE IInv'
  BY <1>2, LoopStill, PostStep, DecideStep, RequeueStep, SplitStep, CallStep DEF LoopNext
<1>3. ASSUME NEW l \in Loops, NEW w \in Works, QueueWork(l, w) \/ Cancel(l, w) PROVE IInv'
  BY <1>3, QueueStep, CancelStep
<1>4. CASE UNCHANGED vars
  BY <1>4, StutterIInv
<1> QED BY <1>1, <1>2, <1>3, <1>4 DEF Next, Quiet

\* Each work is where its function and its status say, in one place, and the
\* workers and loops hold what their program counters say.
THEOREM Invariant == Spec => []IInv
  BY InitIInv, NextIInv, PTL DEF Spec

\* The variables only ever hold what they are meant to.
THEOREM TypeCorrect == Spec => []TypeOK
<1>1. IInv => TypeOK
  BY DEF IInv
<1> QED BY <1>1, Invariant, PTL

\* What IInv says of a work whose after callback has begun.
LEMMA CalledBack ==
  ASSUME IInv, NEW w \in Works, after[w] # "none"
  PROVE  /\ ~ Linked(w)
         /\ \A t \in Workers : job[t] # w
         /\ \A l \in Loops : arg[l] # w
<1>1. Nowhere(w)
  BY DEF IInv, PlaceInv
<1>2. ~ Linked(w)
  BY <1>1 DEF Nowhere, Linked, InWq, InLwq, InLocal
<1>3. ASSUME NEW t \in Workers, job[t] = w PROVE FALSE
  <2>1. pc[t] \in Busy
    BY <1>3, NoneAssumption DEF IInv, TypeOK
  <2>2. CASE pc[t] \in Hands
    BY <1>1, <1>3, <2>2 DEF Nowhere, Carried, Carries
  <2>3. CASE pc[t] \in {"send", "unlock"}
    BY <1>1, <1>3, <2>3 DEF IInv, WorkerInv, Nowhere
  <2> QED BY <2>1, <2>2, <2>3 DEF Busy, Hands
<1>4. \A l \in Loops : arg[l] # w
  BY NoneAssumption DEF IInv, ArgInv
<1> QED BY <1>2, <1>3, <1>4

\* A context that loop_after_work_cb has deleted is linked in no queue, and no
\* worker and no uv_cancel still holds it.
THEOREM NeverUsedAfterFree == Spec => []NoUseAfterFree
<1>1. IInv => NoUseAfterFree
  BY CalledBack DEF NoUseAfterFree, Freed
<1> QED BY <1>1, Invariant, PTL

LEMMA OccursOnce ==
  ASSUME NEW S, NEW s \in Seq(S), NoRepeat(s), NEW w
  PROVE  Occurrences(s, w) = IF Contains(s, w) THEN 1 ELSE 0
<1> DEFINE at == {i \in DOMAIN s : s[i] = w}
<1>1. DOMAIN s = 1..Len(s)
  OBVIOUS
<1>2. CASE Contains(s, w)
  <2>1. PICK i \in 1..Len(s) : s[i] = w
    BY <1>2 DEF Contains
  <2>2. at = {i}
    BY <1>1, <2>1 DEF NoRepeat
  <2> QED BY <1>2, <2>2, FS_Singleton DEF Occurrences
<1>3. CASE ~ Contains(s, w)
  <2>1. at = {}
    BY <1>1, <1>3 DEF Contains
  <2> QED BY <1>3, <2>1, FS_EmptySet DEF Occurrences
<1> QED BY <1>2, <1>3

\* A work that has been queued and not called back is in one queue, once, or in
\* the hands of one thread; any other is nowhere.
THEOREM AlwaysInOnePlace == Spec => []InOnePlace
<1>1. ASSUME IInv, NEW w \in Works
      PROVE  Places(w) = IF work[w] # "unset" /\ after[w] = "none" THEN 1 ELSE 0
  <2> DEFINE hands == {t \in Workers : job[t] = w /\ pc[t] \in {"run", "finish", "insert"}}
             kept == IF arg[LoopOf[w]] = w /\ lpc[LoopOf[w]] \in {"post", "requeue"} THEN 1 ELSE 0
             l == LoopOf[w]
  <2>1. l \in Loops
    BY LoopOfAssumption
  <2>2. /\ wq \in Seq(Works) /\ NoRepeat(wq) /\ lwq[l] \in Seq(Works) /\ NoRepeat(lwq[l])
        /\ local[l] \in Seq(Works) /\ NoRepeat(local[l])
    BY <1>1, <2>1 DEF IInv, TypeOK, QueueInv
  <2>3. /\ Occurrences(wq, w) = IF InWq(w) THEN 1 ELSE 0
        /\ Occurrences(lwq[l], w) = IF InLwq(w) THEN 1 ELSE 0
        /\ Occurrences(local[l], w) = IF InLocal(w) THEN 1 ELSE 0
    BY <2>2, OccursOnce DEF InWq, InLwq, InLocal
  <2>4. Cardinality(hands) = IF Carried(w) THEN 1 ELSE 0
    <3>1. CASE Carried(w)
      <4>1. PICK t \in Workers : Carries(t, w)
        BY <3>1 DEF Carried
      <4>2. \A u \in Workers : Carries(u, w) => u = t
        BY <1>1, <4>1 DEF IInv, WorkerInv
      <4>3. hands = {t}
        BY <4>1, <4>2 DEF Carries, Hands
      <4> QED BY <3>1, <4>3, FS_Singleton
    <3>2. CASE ~ Carried(w)
      <4>1. hands = {}
        BY <3>2 DEF Carried, Carries, Hands
      <4> QED BY <3>2, <4>1, FS_EmptySet
    <3> QED BY <3>1, <3>2
  <2>5. kept = IF Kept(w) THEN 1 ELSE 0
    BY DEF Kept
  <2>6. Places(w) = Occurrences(wq, w) + Occurrences(lwq[l], w) + Occurrences(local[l], w)
                      + Cardinality(hands) + kept
    BY DEF Places
  <2>7. PlaceInv(w)
    BY <1>1 DEF IInv
  <2> HIDE DEF hands, kept, l
  <2> QED BY <2>3, <2>4, <2>5, <2>6, <2>7 DEF PlaceInv, Nowhere
<1>2. IInv => InOnePlace
  BY <1>1 DEF InOnePlace
<1> QED BY <1>2, Invariant, PTL

-----------------------------------------------------------------------------
(* No lost signal and no lost wakeup.                                      *)

LEMMA RemoveFromEmpty ==
  ASSUME NEW S, NEW s \in Seq(S), NoRepeat(s), NEW e, RemoveFirst(s, e) # <<>>
  PROVE  s # <<>>
<1>1. RemoveFirst(s, e) \in Seq(S)
  BY RemoveSeq
<1>2. Contains(RemoveFirst(s, e), Head(RemoveFirst(s, e)))
  BY <1>1, TailSeq
<1>3. Contains(s, Head(RemoveFirst(s, e)))
  BY <1>2, RemoveSeq
<1> QED BY <1>3, NothingIn

LEMMA WqLeft ==
  ASSUME IInv, NEW l \in Loops, CancelDecide(l)
  PROVE  /\ wq' # <<>> => wq # <<>>
         /\ \A k \in Loops : lwq'[k] # <<>> => lwq[k] # <<>>
<1>1. CASE ~ Cancellable(arg[l])
  BY <1>1 DEF CancelDecide
<1>2. CASE Cancellable(arg[l])
  <2>1. /\ wq' = RemoveFirst(wq, arg[l])
        /\ lwq' = [lwq EXCEPT ![l] = RemoveFirst(lwq[l], arg[l])]
    BY <1>2 DEF CancelDecide, IInv, TypeOK
  <2>2. wq' # <<>> => wq # <<>>
    BY <2>1, RemoveFromEmpty DEF IInv, TypeOK, QueueInv
  <2>3. RemoveFirst(lwq[l], arg[l]) # <<>> => lwq[l] # <<>>
    BY RemoveFromEmpty DEF IInv, TypeOK, QueueInv
  <2> QED BY <2>1, <2>2, <2>3 DEF IInv, TypeOK
<1> QED BY <1>1, <1>2

\* post() signals only when it finds the queue empty, and yet while there is a
\* work in the pool's queue there is a worker that does not sleep.
THEOREM NoLostSignal == Spec => []SomeWorkerAwake
<1>1. Init => SomeWorkerAwake
  BY DEF Init, SomeWorkerAwake
<1>2. IInv /\ SomeWorkerAwake /\ [Next]_vars => SomeWorkerAwake'
  <2> SUFFICES ASSUME IInv, SomeWorkerAwake, [Next]_vars, wq' # <<>>
               PROVE  \E t \in Workers : pc'[t] # "wait"
    BY DEF SomeWorkerAwake
  <2> USE DEF GotoW, GotoL, vars, pool, worker, inbox, loop
  <2>1. ASSUME NEW t \in Workers, WorkerNext(t) \/ Spurious(t)
        PROVE  \E u \in Workers : pc'[u] # "wait"
    <3>1. CASE WorkerWait(t)
      BY <3>1 DEF WorkerWait
    <3>2. CASE ~ WorkerWait(t)
      <4>1. pc'[t] # "wait"
        BY <2>1, <3>2 DEF IInv, TypeOK, WorkerNext, WorkerLock, WorkerTake, WorkerRun, FinishLock,
           FinishInsert, FinishSend, FinishUnlock, Spurious
      <4> QED BY <4>1
    <3> QED BY <3>1, <3>2
  <2>2. ASSUME NEW l \in Loops, Post(l) PROVE \E u \in Workers : pc'[u] # "wait"
    <3>1. CASE wq # <<>>
      BY <2>2, <3>1 DEF Post, SomeWorkerAwake
    <3>2. CASE wq = <<>>
      <4>1. Signal
        BY <2>2, <3>2 DEF Post
      <4>2. CASE {t \in Workers : pc[t] = "wait"} = {}
        BY <4>1, <4>2, WorkersAssumption DEF Signal
      <4>3. CASE {t \in Workers : pc[t] = "wait"} # {}
        BY <4>1, <4>3 DEF Signal, IInv, TypeOK
      <4> QED BY <4>2, <4>3
    <3> QED BY <3>1, <3>2
  <2>3. ASSUME NEW l \in Loops, CancelDecide(l) PROVE \E u \in Workers : pc'[u] # "wait"
    <3>1. wq # <<>>
      BY <2>3, WqLeft
    <3> QED BY <2>3, <3>1 DEF CancelDecide, SomeWorkerAwake
  <2>4. ASSUME UNCHANGED <<wq, pc>> PROVE \E u \in Workers : pc'[u] # "wait"
    BY <2>4 DEF SomeWorkerAwake
  <2>5. ASSUME NEW l \in Loops, LoopNext(l), ~ Post(l), ~ CancelDecide(l) PROVE UNCHANGED <<wq, pc>>
    BY <2>5 DEF LoopNext, CancelRequeue, WakeLoop, Split, Call, Return, Drained
  <2>6. ASSUME NEW l \in Loops, NEW w \in Works, QueueWork(l, w) \/ Cancel(l, w)
        PROVE  UNCHANGED <<wq, pc>>
    BY <2>6 DEF QueueWork, Cancel
  <2>7. CASE UNCHANGED vars
    BY <2>4, <2>7
  <2> QED BY <2>1, <2>2, <2>3, <2>4, <2>5, <2>6, <2>7 DEF Next, Quiet
<1> QED BY <1>1, <1>2, Invariant, PTL DEF Spec

\* LoopIsCalled, with the worker that is about to call uv_async_send known to
\* call it on this loop.
CalledInv ==
  \A l \in Loops : lwq[l] # <<>> =>
    \/ awake[l] \/ lpc[l] = "split"
    \/ \E t \in Workers : wqMutex[l] = t /\ pc[t] = "send" /\ LoopOf[job[t]] = l

\* uv_async_send coalesces and Split takes the whole queue, and yet a work in a
\* loop's queue always has a call of uv__work_done to come.
THEOREM NoLostLoopWakeup == Spec => []LoopIsCalled
<1>1. Init => CalledInv
  BY DEF Init, CalledInv
<1>2. IInv /\ CalledInv /\ [Next]_vars => CalledInv'
  <2> SUFFICES ASSUME IInv, CalledInv, [Next]_vars, NEW k \in Loops, lwq'[k] # <<>>
               PROVE  \/ awake'[k] \/ lpc'[k] = "split"
                      \/ \E t \in Workers :
                           wqMutex'[k] = t /\ pc'[t] = "send" /\ LoopOf[job'[t]] = k
    BY DEF CalledInv
  <2> USE DEF GotoW, GotoL, pool, worker, inbox, loop
  <2>1. ASSUME NEW t \in Workers, FinishInsert(t), k = LoopOf[job[t]]
        PROVE  wqMutex'[k] = t /\ pc'[t] = "send" /\ LoopOf[job'[t]] = k
    <3>1. wqMutex[k] = t
      BY <2>1 DEF IInv, WorkerInv, FinishInsert
    <3> QED BY <2>1, <3>1 DEF FinishInsert, IInv, TypeOK
  <2>2. ASSUME NEW t \in Workers, FinishSend(t), k = LoopOf[job[t]]
        PROVE  awake'[k]
    BY <2>2 DEF FinishSend, IInv, TypeOK
  <2>3. ASSUME NEW l \in Loops, WakeLoop(l), k = l PROVE lpc'[k] = "split"
    BY <2>3 DEF WakeLoop, IInv, TypeOK
  <2>4. ASSUME NEW l \in Loops, Split(l), k = l PROVE FALSE
    BY <2>4 DEF Split, IInv, TypeOK
  <2>5. ASSUME NEW l \in Loops, CancelRequeue(l), k = l PROVE awake'[k]
    BY <2>5 DEF CancelRequeue, IInv, TypeOK
  \* The others leave what calls this loop as it is.
  <2>6. ASSUME lwq[k] # <<>>, awake[k] => awake'[k], lpc[k] = "split" => lpc'[k] = "split",
               \A t \in Workers : wqMutex[k] = t /\ pc[t] = "send" /\ LoopOf[job[t]] = k =>
                 wqMutex'[k] = t /\ pc'[t] = "send" /\ LoopOf[job'[t]] = k
        PROVE  \/ awake'[k] \/ lpc'[k] = "split"
               \/ \E t \in Workers : wqMutex'[k] = t /\ pc'[t] = "send" /\ LoopOf[job'[t]] = k
    BY <2>6 DEF CalledInv
  <2>7. ASSUME NEW t \in Workers, WorkerNext(t) \/ Spurious(t),
               ~ (FinishInsert(t) /\ k = LoopOf[job[t]]), ~ (FinishSend(t) /\ k = LoopOf[job[t]])
        PROVE  /\ lwq[k] # <<>> /\ (awake[k] => awake'[k]) /\ lpc'[k] = lpc[k]
               /\ \A u \in Workers : wqMutex[k] = u /\ pc[u] = "send" /\ LoopOf[job[u]] = k =>
                    wqMutex'[k] = u /\ pc'[u] = "send" /\ LoopOf[job'[u]] = k
    <3>1. lwq[k] # <<>> /\ (awake[k] => awake'[k]) /\ lpc'[k] = lpc[k]
      BY <2>7 DEF IInv, TypeOK, WorkerNext, WorkerLock, WorkerWait, WorkerTake, WorkerRun, FinishLock,
         FinishInsert, FinishSend, FinishUnlock, Spurious
    <3>2. ASSUME NEW u \in Workers, wqMutex[k] = u, pc[u] = "send", LoopOf[job[u]] = k
          PROVE  wqMutex'[k] = u /\ pc'[u] = "send" /\ LoopOf[job'[u]] = k
      <4>1. u # t
        BY <2>7, <3>2 DEF WorkerNext, WorkerLock, WorkerWait, WorkerTake, WorkerRun, FinishLock,
           FinishInsert, FinishSend, FinishUnlock, Spurious
      <4>2. pc'[u] = "send" /\ job'[u] = job[u]
        BY <2>7, <3>2, <4>1 DEF IInv, TypeOK, WorkerNext, WorkerLock, WorkerWait, WorkerTake,
           WorkerRun, FinishLock, FinishInsert, FinishSend, FinishUnlock, Spurious
      <4>3. wqMutex'[k] = wqMutex[k]
        <5>1. CASE FinishLock(t)
          BY <3>2, <5>1, FreeAssumption DEF FinishLock, IInv, TypeOK
        <5>2. CASE FinishUnlock(t)
          <6>1. wqMutex[LoopOf[job[t]]] = t
            BY <5>2 DEF IInv, WorkerInv, FinishUnlock
          <6> QED BY <3>2, <4>1, <5>2, <6>1 DEF FinishUnlock, IInv, TypeOK
        <5>3. CASE ~ FinishLock(t) /\ ~ FinishUnlock(t)
          BY <2>7, <5>3 DEF WorkerNext, WorkerLock, WorkerWait, WorkerTake, WorkerRun, FinishInsert,
             FinishSend, Spurious
        <5> QED BY <5>1, <5>2, <5>3
      <4> QED BY <3>2, <4>2, <4>3
    <3> QED BY <3>1, <3>2
  <2>8. ASSUME NEW l \in Loops, LoopNext(l),
               ~ (WakeLoop(l) /\ k = l), ~ (Split(l) /\ k = l), ~ (CancelRequeue(l) /\ k = l)
        PROVE  /\ lwq[k] # <<>> /\ (awake[k] => awake'[k])
               /\ lpc[k] = "split" => lpc'[k] = "split"
               /\ wqMutex'[k] = wqMutex[k] /\ job' = job
               /\ \A u \in Workers : pc[u] = "send" => pc'[u] = "send"
    <3>1. CASE Post(l)
      <4>1. \A u \in Workers : pc[u] = "send" => pc'[u] = "send"
        BY <3>1, SignalStep DEF Post
      <4> QED BY <3>1, <4>1 DEF Post, IInv, TypeOK
    <3>2. CASE CancelDecide(l)
      BY <3>2, WqLeft DEF CancelDecide, IInv, TypeOK
    <3>3. CASE CancelRequeue(l)
      BY <2>8, <3>3 DEF CancelRequeue, IInv, TypeOK
    <3>4. CASE WakeLoop(l)
      BY <2>8, <3>4 DEF WakeLoop, IInv, TypeOK
    <3>5. CASE Split(l)
      BY <2>8, <3>5 DEF Split, IInv, TypeOK
    <3>6. CASE Call(l) \/ Return(l) \/ Drained(l)
      BY <3>6 DEF Call, Return, Drained, IInv, TypeOK
    <3> QED BY <2>8, <3>1, <3>2, <3>3, <3>4, <3>5, <3>6 DEF LoopNext
  <2>9. ASSUME NEW l \in Loops, NEW w \in Works, QueueWork(l, w) \/ Cancel(l, w)
        PROVE  /\ UNCHANGED <<lwq, awake, wqMutex, job, pc>>
               /\ lpc[k] = "split" => lpc'[k] = "split"
    BY <2>9 DEF QueueWork, Cancel, UserTurn, IInv, TypeOK
  <2>10. CASE UNCHANGED vars
    BY <2>6, <2>10 DEF vars
  <2>11. ASSUME NEW t \in Workers, WorkerNext(t) \/ Spurious(t)
         PROVE  \/ awake'[k] \/ lpc'[k] = "split"
                \/ \E u \in Workers : wqMutex'[k] = u /\ pc'[u] = "send" /\ LoopOf[job'[u]] = k
    BY <2>1, <2>2, <2>6, <2>7, <2>11
  <2>12. ASSUME NEW l \in Loops, LoopNext(l)
         PROVE  \/ awake'[k] \/ lpc'[k] = "split"
                \/ \E u \in Workers : wqMutex'[k] = u /\ pc'[u] = "send" /\ LoopOf[job'[u]] = k
    BY <2>3, <2>4, <2>5, <2>6, <2>8, <2>12
  <2>13. ASSUME NEW l \in Loops, NEW w \in Works, QueueWork(l, w) \/ Cancel(l, w)
         PROVE  \/ awake'[k] \/ lpc'[k] = "split"
                \/ \E u \in Workers : wqMutex'[k] = u /\ pc'[u] = "send" /\ LoopOf[job'[u]] = k
    BY <2>6, <2>9, <2>13
  <2> QED BY <2>10, <2>11, <2>12, <2>13 DEF Next, Quiet
<1>3. CalledInv => LoopIsCalled
  BY DEF CalledInv, LoopIsCalled
<1> QED BY <1>1, <1>2, <1>3, Invariant, PTL DEF Spec

-----------------------------------------------------------------------------
(* The life of each work is the one of WorkContract.                       *)

Runs(w) == \E t \in Workers : job[t] = w /\ pc[t] = "run"
Past(w) == \E t \in Workers : job[t] = w /\ pc[t] # "run"
Requeued(w) == arg[LoopOf[w]] = w /\ lpc[LoopOf[w]] = "requeue"

LEMMA StateIs ==
  ASSUME NEW w
  PROVE  WorkState(w) =
           IF after[w] = "ok" THEN "done"
           ELSE IF after[w] = "ecanceled" THEN "doneCancelled"
           ELSE IF work[w] = "unset" THEN "new"
           ELSE IF Runs(w) THEN "running"
           ELSE IF work[w] = "cancelled" \/ Requeued(w) THEN "cancelled"
           ELSE IF work[w] = "null" \/ Past(w) THEN "ran"
           ELSE "queued"
  BY DEF WorkState, Runs, Past, Requeued

\* What a work is not doing, from where it is.
LEMMA NotDoing ==
  ASSUME IInv, NEW w \in Works
  PROVE  /\ ~ Carried(w) => ~ Runs(w)
         /\ ~ Carried(w) /\ work[w] # "null" => ~ Past(w)
         /\ Runs(w) => ~ Past(w)
         /\ ~ Kept(w) => ~ Requeued(w)
<1>1. ~ Carried(w) => ~ Runs(w)
  BY DEF Runs, Carried, Carries, Hands
<1>2. ASSUME Past(w), ~ Carried(w) PROVE work[w] = "null"
  <2>1. PICK t \in Workers : job[t] = w /\ pc[t] # "run"
    BY <1>2 DEF Past
  <2>2. pc[t] \in Busy
    BY <2>1, NoneAssumption DEF IInv, TypeOK
  <2>3. pc[t] \in {"send", "unlock"}
    BY <1>2, <2>1, <2>2 DEF Busy, Carried, Carries, Hands
  <2> QED BY <2>1, <2>3 DEF IInv, WorkerInv
<1>3. ASSUME Runs(w), Past(w) PROVE FALSE
  <2>1. PICK u \in Workers : job[u] = w /\ pc[u] = "run"
    BY <1>3 DEF Runs
  <2>2. PICK t \in Workers : job[t] = w /\ pc[t] # "run"
    BY <1>3 DEF Past
  <2>3. Carries(u, w) /\ work[w] = "fn"
    BY <2>1 DEF Carries, Hands, IInv, PlaceInv, Carried
  <2>4. pc[t] \in Busy
    BY <2>2, NoneAssumption DEF IInv, TypeOK
  <2>5. CASE pc[t] \in Hands
    BY <2>1, <2>2, <2>3, <2>5 DEF Carries, IInv, WorkerInv
  <2>6. CASE pc[t] \in {"send", "unlock"}
    BY <2>2, <2>3, <2>6 DEF IInv, WorkerInv
  <2> QED BY <2>4, <2>5, <2>6 DEF Busy, Hands
<1>4. ~ Kept(w) => ~ Requeued(w)
  BY DEF Kept, Requeued
<1> QED BY <1>1, <1>2, <1>3, <1>4

LEMMA SameState ==
  ASSUME NEW w, after'[w] = after[w], work'[w] = work[w], Runs(w)' <=> Runs(w),
         Past(w)' <=> Past(w), Requeued(w)' <=> Requeued(w)
  PROVE  WorkState(w)' = WorkState(w)
  BY DEF WorkState, Runs, Past, Requeued

LEMMA MoveOf ==
  ASSUME NEW x \in Works, NEW from, NEW to, WorkState(x) = from, WorkState(x)' = to,
         \A w \in Works : w # x => WorkState(w)' = WorkState(w)
  PROVE  Contract!Move(x, from, to)
  BY DEF Contract!Move

LEMMA StutterOf ==
  ASSUME \A w \in Works : WorkState(w)' = WorkState(w)
  PROVE  UNCHANGED [w \in Works |-> WorkState(w)]
  OBVIOUS

\* The steps of a worker.
LEMMA WorkerRefines ==
  ASSUME IInv, IInv', NEW t \in Workers, WorkerNext(t) \/ Spurious(t)
  PROVE  [Contract!Next]_([w \in Works |-> WorkState(w)])
<1> USE DEF GotoW, pool, inbox, loop
<1>1. UNCHANGED <<arg, lpc, after>>
  BY DEF WorkerNext, WorkerLock, WorkerWait, WorkerTake, WorkerRun, FinishLock, FinishInsert, FinishSend,
         FinishUnlock, Spurious
<1>2. \A w : Requeued(w)' <=> Requeued(w)
  BY <1>1 DEF Requeued
<1>3. CASE WorkerLock(t) \/ WorkerWait(t) \/ Spurious(t) \/ FinishLock(t) \/ FinishSend(t)
  <2>1. UNCHANGED <<work, job>>
    BY <1>3 DEF WorkerLock, WorkerWait, Spurious, FinishLock, FinishSend
  <2>2. \A u \in Workers : pc'[u] = "run" <=> pc[u] = "run"
    BY <1>3 DEF WorkerLock, WorkerWait, Spurious, FinishLock, FinishSend, IInv, TypeOK
  <2>3. ASSUME NEW w \in Works PROVE WorkState(w)' = WorkState(w)
    <3>1. (Runs(w)' <=> Runs(w)) /\ (Past(w)' <=> Past(w))
      BY <2>1, <2>2 DEF Runs, Past
    <3> QED BY <1>1, <1>2, <2>1, <3>1, SameState
  <2> QED BY <2>3, StutterOf
<1>4. CASE WorkerTake(t)
  <2>1. PICK x \in Works : x = Head(wq) /\ InWq(x)
    BY <1>4, TailSeq DEF IInv, TypeOK, WorkerTake, InWq
  <2>2. job' = [job EXCEPT ![t] = x] /\ pc' = [pc EXCEPT ![t] = "run"] /\ work' = work
    BY <1>4, <2>1 DEF WorkerTake
  <2>3. job[t] = None /\ pc[t] # "run"
    BY <1>4 DEF WorkerTake, IInv, TypeOK, Busy
  <2>4. WorkState(x) = "queued"
    <3>1. PlaceInv(x) /\ ~ Nowhere(x)
      BY <2>1 DEF IInv, Nowhere
    <3>2. ~ Carried(x) /\ ~ Kept(x) /\ work[x] = "fn" /\ after[x] = "none"
      BY <2>1, <3>1 DEF PlaceInv
    <3> QED BY <2>1, <3>2, NotDoing, StateIs
  <2>5. WorkState(x)' = "running"
    <3>1. Runs(x)'
      BY <2>2 DEF Runs, IInv, TypeOK
    <3>2. work[x] = "fn" /\ after[x] = "none"
      BY <2>1 DEF IInv, PlaceInv, Nowhere
    <3> QED BY <1>1, <2>2, <3>1, <3>2 DEF WorkState, Runs
  <2>6. ASSUME NEW w \in Works, w # x PROVE WorkState(w)' = WorkState(w)
    <3>1. \A u \in Workers : job'[u] = w <=> job[u] = w
      BY <2>2, <2>3, <2>6, NoneAssumption DEF IInv, TypeOK
    <3>2. \A u \in Workers : job[u] = w => pc'[u] = pc[u]
      BY <2>2, <2>3, NoneAssumption DEF IInv, TypeOK
    <3>3. (Runs(w)' <=> Runs(w)) /\ (Past(w)' <=> Past(w))
      BY <3>1, <3>2 DEF Runs, Past
    <3> QED BY <1>1, <1>2, <2>2, <3>3, SameState
  <2>7. Contract!Move(x, "queued", "running")
    BY <2>1, <2>4, <2>5, <2>6, MoveOf
  <2> QED BY <2>1, <2>7 DEF Contract!Next, Contract!Begin
<1>5. CASE WorkerRun(t)
  <2>1. PICK x \in Works : x = job[t] /\ pc[t] = "run"
    BY <1>5 DEF IInv, TypeOK, Busy, WorkerRun
  <2>2. job' = job /\ pc' = [pc EXCEPT ![t] = "finish"] /\ work' = work
    BY <1>5 DEF WorkerRun
  <2>3. Runs(x) /\ Carries(t, x) /\ Carried(x)
    BY <2>1 DEF Runs, Carries, Carried, Hands
  <2>4. work[x] = "fn" /\ after[x] = "none" /\ ~ Kept(x) /\ ~ Requeued(x)
    BY <2>1, <2>3, NotDoing DEF IInv, PlaceInv, Nowhere
  <2>5. WorkState(x) = "running"
    BY <2>1, <2>3, <2>4, StateIs
  <2>6. WorkState(x)' = "ran"
    <3>1. Past(x)'
      BY <2>1, <2>2 DEF Past, IInv, TypeOK
    <3>2. ~ Runs(x)'
      <4>1. \A u \in Workers : job[u] = x /\ pc[u] = "run" => u = t
        BY <2>1, <2>3 DEF IInv, WorkerInv, Carries, Hands
      <4> QED BY <2>2, <4>1 DEF Runs, IInv, TypeOK
    <3>3. ~ Requeued(x)'
      BY <1>2, <2>4
    <3> QED BY <1>1, <2>2, <2>4, <3>1, <3>2, <3>3 DEF WorkState, Runs, Past, Requeued
  <2>7. ASSUME NEW w \in Works, w # x PROVE WorkState(w)' = WorkState(w)
    <3>1. \A u \in Workers : job[u] = w => pc'[u] = pc[u]
      BY <2>1, <2>2, <2>7 DEF IInv, TypeOK
    <3>2. (Runs(w)' <=> Runs(w)) /\ (Past(w)' <=> Past(w))
      BY <2>2, <3>1 DEF Runs, Past
    <3> QED BY <1>1, <1>2, <2>2, <3>2, SameState
  <2>8. Contract!Move(x, "running", "ran")
    BY <2>1, <2>5, <2>6, <2>7, MoveOf
  <2> QED BY <2>1, <2>8 DEF Contract!Next, Contract!End
<1>6. CASE FinishInsert(t)
  <2>1. PICK x \in Works : x = job[t] /\ pc[t] = "insert"
    BY <1>6 DEF IInv, TypeOK, Busy, FinishInsert
  <2>2. job' = job /\ pc' = [pc EXCEPT ![t] = "send"] /\ work' = [work EXCEPT ![x] = "null"]
    BY <1>6, <2>1 DEF FinishInsert
  <2>3. Carried(x) /\ Past(x)
    BY <2>1 DEF Past, Carries, Carried, Hands
  <2>4. work[x] = "fn" /\ ~ Kept(x) /\ ~ Requeued(x) /\ ~ Runs(x)
    BY <2>1, <2>3, NotDoing DEF IInv, PlaceInv, Nowhere
  <2>5. \A w : (Runs(w)' <=> Runs(w)) /\ (Past(w)' <=> Past(w))
    BY <2>1, <2>2 DEF Runs, Past, IInv, TypeOK
  <2>6. WorkState(x)' = WorkState(x)
    <3>1. work'[x] = "null"
      BY <2>1, <2>2 DEF IInv, TypeOK
    <3> QED BY <1>1, <1>2, <2>3, <2>4, <2>5, <3>1 DEF WorkState, Runs, Past, Requeued
  <2>7. ASSUME NEW w \in Works, w # x PROVE WorkState(w)' = WorkState(w)
    <3>1. work'[w] = work[w]
      BY <2>2, <2>7 DEF IInv, TypeOK
    <3> QED BY <1>1, <1>2, <2>5, <3>1, SameState
  <2> QED BY <2>6, <2>7, StutterOf
<1>7. CASE FinishUnlock(t)
  <2>1. PICK x \in Works : x = job[t] /\ pc[t] = "unlock" /\ work[x] = "null"
    BY <1>7 DEF IInv, TypeOK, Busy, FinishUnlock, WorkerInv
  <2>2. job' = [job EXCEPT ![t] = None] /\ pc' = [pc EXCEPT ![t] = "lock"] /\ work' = work
    BY <1>7 DEF FinishUnlock
  <2>3. ASSUME NEW w \in Works PROVE Runs(w)' <=> Runs(w)
    BY <2>1, <2>2, NoneAssumption DEF Runs, IInv, TypeOK
  <2>4. WorkState(x)' = WorkState(x)
    BY <1>1, <1>2, <2>1, <2>2, <2>3 DEF WorkState, Runs, Requeued
  <2>5. ASSUME NEW w \in Works, w # x PROVE WorkState(w)' = WorkState(w)
    <3>1. Past(w)' <=> Past(w)
      BY <2>1, <2>2, <2>5, NoneAssumption DEF Past, IInv, TypeOK
    <3> QED BY <1>1, <1>2, <2>2, <2>3, <3>1, SameState
  <2> QED BY <2>4, <2>5, StutterOf
<1> QED BY <1>3, <1>4, <1>5, <1>6, <1>7 DEF WorkerNext

\* The steps of a loop's thread that begin, end or go on without a work.
LEMMA LoopIdleRefines ==
  ASSUME IInv, NEW l \in Loops,
         \/ Post(l) \/ WakeLoop(l) \/ Split(l) \/ Return(l) \/ Drained(l)
         \/ \E w \in Works : Cancel(l, w)
         \/ (CancelDecide(l) /\ ~ Cancellable(arg[l]))
  PROVE  \A w \in Works : WorkState(w)' = WorkState(w)
<1> USE DEF GotoL, pool, worker, inbox
<1>1. UNCHANGED <<job, work, after>>
  BY DEF Post, WakeLoop, Split, Return, Drained, Cancel, CancelDecide
<1>2. \A t \in Workers : pc'[t] = "run" <=> pc[t] = "run"
  <2>1. CASE Post(l)
    BY <2>1, SignalStep DEF Post
  <2>2. CASE ~ Post(l)
    BY <2>2 DEF WakeLoop, Split, Return, Drained, Cancel, CancelDecide
  <2> QED BY <2>1, <2>2
<1>3. ASSUME NEW w \in Works PROVE Requeued(w)' <=> Requeued(w)
  <2>1. CASE Post(l) \/ CancelDecide(l)
    <3>1. Back(l) # "requeue"
      BY DEF Back
    <3>2. /\ lpc[l] # "requeue" /\ lpc' = [lpc EXCEPT ![l] = Back(l)]
          /\ arg' = [arg EXCEPT ![l] = None]
      BY <2>1 DEF Post, WakeLoop, Split, Return, Drained, Cancel, UserTurn, CancelDecide
    <3> QED BY <3>1, <3>2 DEF Requeued, IInv, TypeOK
  <2>2. CASE WakeLoop(l) \/ Split(l) \/ Return(l) \/ Drained(l)
    <3>1. PICK to \in {"split", "drain", "user"} : lpc' = [lpc EXCEPT ![l] = to]
      BY <2>2 DEF WakeLoop, Split, Return, Drained
    <3>2. lpc[l] # "requeue" /\ arg' = arg
      BY <2>2 DEF WakeLoop, Split, Return, Drained
    <3> QED BY <3>1, <3>2 DEF Requeued, IInv, TypeOK
  <2>3. CASE \E x \in Works : Cancel(l, x)
    BY <2>3 DEF Requeued, IInv, TypeOK, Cancel, UserTurn
  <2> QED BY <2>1, <2>2, <2>3
<1>4. ASSUME NEW w \in Works PROVE WorkState(w)' = WorkState(w)
  <2>1. (Runs(w)' <=> Runs(w)) /\ (Past(w)' <=> Past(w))
    BY <1>1, <1>2 DEF Runs, Past
  <2> QED BY <1>1, <1>3, <2>1, SameState
<1> QED BY <1>4

\* The steps of a loop's thread that change what becomes of a work.
LEMMA LoopRefines ==
  ASSUME IInv, NEW l \in Loops, NEW x \in Works,
         \/ QueueWork(l, x)
         \/ (CancelDecide(l) /\ Cancellable(x) /\ x = arg[l])
         \/ (CancelRequeue(l) /\ x = arg[l])
         \/ (Call(l) /\ x = Head(local[l]))
  PROVE  [Contract!Next]_([w \in Works |-> WorkState(w)])
<1> USE DEF GotoL, pool, worker, inbox
<1>1. UNCHANGED <<pc, job>>
  BY DEF QueueWork, CancelDecide, CancelRequeue, Call
<1>2. ASSUME NEW w PROVE (Runs(w)' <=> Runs(w)) /\ (Past(w)' <=> Past(w))
  BY <1>1 DEF Runs, Past
<1>3. ASSUME NEW w \in Works, w # x, after'[w] = after[w], work'[w] = work[w],
             Requeued(w)' <=> Requeued(w)
      PROVE  WorkState(w)' = WorkState(w)
  BY <1>2, <1>3, SameState
<1>4. CASE QueueWork(l, x)
  <2>1. /\ work' = [work EXCEPT ![x] = "fn"] /\ after' = after /\ work[x] = "unset"
        /\ arg' = [arg EXCEPT ![l] = x] /\ lpc' = [lpc EXCEPT ![l] = "post"]
        /\ lpc[l] # "requeue"
    BY <1>4 DEF QueueWork, UserTurn
  <2>2. after[x] = "none" /\ ~ Runs(x) /\ ~ Past(x)
    BY <2>1, NotDoing DEF IInv, PlaceInv, Nowhere
  <2>3. \A w \in Works : Requeued(w)' <=> Requeued(w)
    BY <2>1 DEF Requeued, IInv, TypeOK
  <2>4. ~ Requeued(x)' /\ work'[x] = "fn"
    BY <1>4, <2>1 DEF Requeued, QueueWork, IInv, TypeOK
  <2>5. WorkState(x) = "new"
    BY <2>1, <2>2, StateIs
  <2>6. WorkState(x)' = "queued"
    BY <1>2, <2>1, <2>2, <2>4 DEF WorkState, Runs, Past, Requeued
  <2>7. \A w \in Works : w # x => WorkState(w)' = WorkState(w)
    BY <1>3, <2>1, <2>3 DEF IInv, TypeOK
  <2>8. Contract!Move(x, "new", "queued")
    BY <2>5, <2>6, <2>7, MoveOf
  <2> QED BY <2>8 DEF Contract!Next, Contract!Queue
<1>5. CASE CancelDecide(l) /\ Cancellable(x) /\ x = arg[l]
  <2>1. lpc[l] = "decide" /\ lpc' = [lpc EXCEPT ![l] = "requeue"] /\ UNCHANGED <<arg, work, after>>
    BY <1>5 DEF CancelDecide
  <2>2. /\ LoopOf[x] = l /\ PlaceInv(x) /\ after[x] = "none" /\ work[x] \notin {"unset", "null"}
        /\ InWq(x) \/ InLwq(x) \/ InLocal(x)
    BY <1>5, <2>1, NoneAssumption DEF IInv, TypeOK, ArgInv, Cancellable, Linked, InWq, InLwq, InLocal
  <2>3. work[x] \in {"fn", "cancelled"}
    BY <2>2 DEF IInv, TypeOK
  <2>4. ~ Carried(x) /\ ~ Kept(x) /\ ~ Runs(x) /\ ~ Past(x) /\ ~ Requeued(x)
    BY <2>2, NotDoing DEF PlaceInv
  <2>5. Requeued(x)'
    BY <1>5, <2>1, <2>2 DEF Requeued, IInv, TypeOK
  <2>6. WorkState(x) = IF work[x] = "fn" THEN "queued" ELSE "cancelled"
    BY <2>2, <2>3, <2>4, StateIs
  <2>7. WorkState(x)' = "cancelled"
    BY <1>2, <2>1, <2>2, <2>4, <2>5 DEF WorkState, Runs, Requeued
  <2>8. \A w \in Works : w # x => WorkState(w)' = WorkState(w)
    <3>1. \A w \in Works : w # x => (Requeued(w)' <=> Requeued(w))
      BY <1>5, <2>1 DEF Requeued, IInv, TypeOK
    <3> QED BY <1>3, <2>1, <3>1
  <2>9. CASE work[x] = "fn"
    <3>1. Contract!Move(x, "queued", "cancelled")
      BY <2>6, <2>7, <2>8, <2>9, MoveOf
    <3> QED BY <3>1 DEF Contract!Next, Contract!Cancel
  <2>10. CASE work[x] = "cancelled"
    BY <2>6, <2>7, <2>8, <2>10, StutterOf
  <2> QED BY <2>3, <2>9, <2>10
<1>6. CASE CancelRequeue(l) /\ x = arg[l]
  <2>1. /\ lpc[l] = "requeue" /\ lpc' = [lpc EXCEPT ![l] = Back(l)] /\ after' = after
        /\ arg' = [arg EXCEPT ![l] = None] /\ work' = [work EXCEPT ![x] = "cancelled"]
        /\ Back(l) # "requeue"
    BY <1>6 DEF CancelRequeue, Back
  <2>2. LoopOf[x] = l /\ Kept(x) /\ Requeued(x) /\ PlaceInv(x) /\ after[x] = "none" /\ work[x] # "unset"
    BY <1>6, <2>1, NoneAssumption DEF IInv, ArgInv, Kept, Requeued
  <2>3. ~ Carried(x) /\ ~ Runs(x) /\ work'[x] = "cancelled"
    BY <2>1, <2>2, NotDoing DEF PlaceInv, IInv, TypeOK
  <2>4. WorkState(x)' = WorkState(x)
    BY <1>2, <2>1, <2>2, <2>3 DEF WorkState, Runs, Requeued
  <2>5. \A w \in Works : w # x => WorkState(w)' = WorkState(w)
    <3>1. \A w \in Works : w # x => (Requeued(w)' <=> Requeued(w))
      BY <1>6, <2>1, NoneAssumption DEF Requeued, IInv, TypeOK
    <3> QED BY <1>3, <2>1, <3>1 DEF IInv, TypeOK
  <2> QED BY <2>4, <2>5, StutterOf
<1>7. CASE Call(l) /\ x = Head(local[l])
  <2> DEFINE status == IF work[x] = "cancelled" THEN "ecanceled" ELSE "ok"
  <2>1. /\ lpc[l] = "drain" /\ lpc' = [lpc EXCEPT ![l] = "call"] /\ UNCHANGED <<arg, work>>
        /\ after' = [after EXCEPT ![x] = status] /\ local[l] # <<>>
    BY <1>7 DEF Call
  <2>2. Contains(local[l], x)
    BY <1>7, <2>1, TailSeq DEF IInv, TypeOK
  <2>3. InLocal(x) /\ PlaceInv(x)
    BY <2>2 DEF IInv, QueueInv, InLocal
  <2>4. /\ work[x] \in {"null", "cancelled"} /\ after[x] = "none" /\ ~ Runs(x)
        /\ ~ Requeued(x)
    BY <2>3, NotDoing DEF PlaceInv, Nowhere
  <2>5. \A w \in Works : Requeued(w)' <=> Requeued(w)
    BY <2>1 DEF Requeued, IInv, TypeOK
  <2>6. WorkState(x) = IF work[x] = "cancelled" THEN "cancelled" ELSE "ran"
    BY <2>4, StateIs
  <2>7. WorkState(x)' = IF work[x] = "cancelled" THEN "doneCancelled" ELSE "done"
    BY <2>1 DEF WorkState, IInv, TypeOK
  <2>8. \A w \in Works : w # x => WorkState(w)' = WorkState(w)
    BY <1>3, <2>1, <2>5 DEF IInv, TypeOK
  <2>9. Contract!After(x)
    BY <2>6, <2>7, <2>8, MoveOf DEF Contract!After
  <2> QED BY <2>9 DEF Contract!Next
<1> QED BY <1>4, <1>5, <1>6, <1>7

\* The pool implements WorkContract, but for its fairness: a work callback runs
\* once or is cancelled, never both, and the after callback says which.
THEOREM Refinement == Spec => Contract!Spec
<1>1. Init => Contract!Init
  BY DEF Init, Contract!Init, WorkState
<1>2. IInv /\ IInv' /\ [Next]_vars => [Contract!Next]_([w \in Works |-> WorkState(w)])
  <2> SUFFICES ASSUME IInv, IInv', [Next]_vars
               PROVE  [Contract!Next]_([w \in Works |-> WorkState(w)])
    OBVIOUS
  <2>1. ASSUME NEW l \in Loops, LoopNext(l)
        PROVE  [Contract!Next]_([w \in Works |-> WorkState(w)])
    <3>1. CASE CancelDecide(l) /\ Cancellable(arg[l])
      <4>1. arg[l] \in Works
        BY <3>1 DEF CancelDecide, IInv, TypeOK, ArgInv
      <4> QED BY <3>1, <4>1, LoopRefines
    <3>2. CASE CancelRequeue(l)
      <4>1. arg[l] \in Works
        BY <3>2 DEF CancelRequeue, GotoL, IInv, TypeOK, ArgInv
      <4> QED BY <3>2, <4>1, LoopRefines
    <3>3. CASE Call(l)
      <4>1. Head(local[l]) \in Works
        BY <3>3, TailSeq DEF Call, IInv, TypeOK
      <4> QED BY <3>3, <4>1, LoopRefines
    <3>4. CASE \/ Post(l) \/ WakeLoop(l) \/ Split(l) \/ Return(l) \/ Drained(l)
               \/ (CancelDecide(l) /\ ~ Cancellable(arg[l]))
      BY <3>4, LoopIdleRefines, StutterOf
    <3> QED BY <2>1, <3>1, <3>2, <3>3, <3>4 DEF LoopNext
  <2>2. ASSUME NEW l \in Loops, NEW w \in Works, QueueWork(l, w) \/ Cancel(l, w)
        PROVE  [Contract!Next]_([v \in Works |-> WorkState(v)])
    BY <2>2, LoopRefines, LoopIdleRefines, StutterOf
  <2>3. CASE UNCHANGED vars
    BY <2>3, StutterOf DEF vars, pool, worker, inbox, loop, WorkState
  <2> QED BY <2>1, <2>2, <2>3, WorkerRefines DEF Next, Quiet
<1>3. Spec => [](IInv)
  BY Invariant
<1> QED BY <1>1, <1>2, <1>3, PTL DEF Spec, Contract!Spec

-----------------------------------------------------------------------------
(* The mutexes.                                                            *)

\* A worker has the pool's mutex exactly while it tests the queue, a loop's
\* thread while it decides on a cancellation.
PoolLocked ==
  /\ \A t \in Workers : pc[t] = "test" => mutex = t
  /\ \A l \in Loops : lpc[l] = "decide" => mutex = l
  /\ \A t \in Workers, l \in Loops : ~ (pc[t] = "test" /\ lpc[l] = "decide")
  /\ mutex # Free =>
       \/ \E t \in Workers : mutex = t /\ pc[t] = "test"
       \/ \E l \in Loops : mutex = l /\ lpc[l] = "decide"

\* A loop's mutex is held by a worker that puts a work of that loop in its queue.
Inserts(t, l) == pc[t] \in {"insert", "send", "unlock"} /\ LoopOf[job[t]] = l
LoopLocked == \A l \in Loops : wqMutex[l] # Free => \E t \in Workers : wqMutex[l] = t /\ Inserts(t, l)

\* No mutex is forgotten and no circle of threads wait for each other, in
\* uv__work_cancel, which locks both mutexes, too: who holds a loop's mutex is a
\* worker that waits for nothing until it unlocks it, and who holds the pool's
\* waits, if at all, for a loop's mutex.
LockOrder == PoolLocked /\ LoopLocked

LEMMA PoolLockedStep == IInv /\ PoolLocked /\ [Next]_vars => PoolLocked'
<1> SUFFICES ASSUME IInv, PoolLocked, [Next]_vars PROVE PoolLocked'
  OBVIOUS
<1> USE FreeAssumption DEF GotoW, GotoL, pool, worker, inbox, loop
\* Steps that leave the mutex alone.
<1>1. ASSUME mutex' = mutex,
             \A t \in Workers : pc'[t] = "test" <=> pc[t] = "test",
             \A l \in Loops : lpc'[l] = "decide" <=> lpc[l] = "decide"
      PROVE  PoolLocked'
  BY <1>1 DEF PoolLocked
\* Steps by which a thread lets go of it.
<1>2. ASSUME mutex' = Free,
             \A t \in Workers : pc'[t] # "test", \A l \in Loops : lpc'[l] # "decide"
      PROVE  PoolLocked'
  BY <1>2 DEF PoolLocked
<1>3. ASSUME mutex = Free
      PROVE  (\A t \in Workers : pc[t] # "test") /\ (\A l \in Loops : lpc[l] # "decide")
  BY <1>3 DEF PoolLocked
<1>4. ASSUME NEW t \in Workers, WorkerNext(t) \/ Spurious(t) PROVE PoolLocked'
  <2>1. CASE WorkerLock(t)
    <3>1. mutex = Free /\ mutex' = t /\ lpc' = lpc /\ pc' = [pc EXCEPT ![t] = "test"]
      BY <2>1 DEF WorkerLock
    <3>2. /\ \A u \in Workers : pc'[u] = "test" => u = t
          /\ pc'[t] = "test" /\ \A l \in Loops : lpc'[l] # "decide"
      BY <1>3, <3>1 DEF IInv, TypeOK
    <3> QED BY <3>1, <3>2 DEF PoolLocked
  <2>2. CASE WorkerWait(t) \/ WorkerTake(t)
    <3>1. /\ pc[t] = "test" /\ mutex' = Free /\ lpc' = lpc
          /\ pc' = [pc EXCEPT ![t] = "wait"] \/ pc' = [pc EXCEPT ![t] = "run"]
      BY <2>2 DEF WorkerWait, WorkerTake
    <3>2. /\ \A u \in Workers : pc[u] = "test" => u = t
          /\ \A l \in Loops : lpc[l] # "decide"
      BY <3>1 DEF PoolLocked
    <3>3. \A u \in Workers : pc'[u] # "test"
      BY <3>1, <3>2 DEF IInv, TypeOK
    <3> QED BY <1>2, <3>1, <3>2, <3>3
  <2>3. CASE WorkerRun(t) \/ FinishLock(t) \/ FinishInsert(t) \/ FinishSend(t) \/ FinishUnlock(t)
               \/ Spurious(t)
    <3>1. /\ mutex' = mutex /\ lpc' = lpc /\ pc[t] # "test"
          /\ \E to \in {"finish", "insert", "send", "unlock", "lock", "woken"} :
               pc' = [pc EXCEPT ![t] = to]
      BY <2>3 DEF WorkerRun, FinishLock, FinishInsert, FinishSend, FinishUnlock, Spurious
    <3>2. \A u \in Workers : pc'[u] = "test" <=> pc[u] = "test"
      BY <3>1 DEF IInv, TypeOK
    <3> QED BY <1>1, <3>1, <3>2
  <2> QED BY <1>4, <2>1, <2>2, <2>3 DEF WorkerNext
<1>5. ASSUME NEW l \in Loops, NEW w \in Works, Cancel(l, w) PROVE PoolLocked'
  <2>1. mutex = Free /\ mutex' = l /\ pc' = pc /\ lpc' = [lpc EXCEPT ![l] = "decide"]
    BY <1>5 DEF Cancel
  <2>2. /\ \A k \in Loops : lpc'[k] = "decide" => k = l
        /\ lpc'[l] = "decide" /\ \A t \in Workers : pc'[t] # "test"
    BY <1>3, <2>1 DEF IInv, TypeOK
  <2> QED BY <2>1, <2>2 DEF PoolLocked
<1>6. ASSUME NEW l \in Loops, CancelDecide(l) PROVE PoolLocked'
  <2>1. /\ lpc[l] = "decide" /\ mutex' = Free /\ pc' = pc
        /\ lpc' = [lpc EXCEPT ![l] = "requeue"] \/ lpc' = [lpc EXCEPT ![l] = Back(l)]
    BY <1>6 DEF CancelDecide
  <2>2. /\ \A k \in Loops : lpc[k] = "decide" => k = l
        /\ \A t \in Workers : pc[t] # "test"
    BY <2>1 DEF PoolLocked
  <2>3. \A k \in Loops : lpc'[k] # "decide"
    BY <2>1, <2>2 DEF IInv, TypeOK, Back
  <2> QED BY <1>2, <2>1, <2>2, <2>3
<1>7. ASSUME NEW l \in Loops,
             \/ Post(l) \/ CancelRequeue(l) \/ WakeLoop(l) \/ Split(l) \/ Call(l) \/ Return(l)
             \/ Drained(l) \/ \E w \in Works : QueueWork(l, w)
      PROVE  PoolLocked'
  <2>1. /\ mutex' = mutex /\ lpc[l] # "decide"
        /\ \E to \in {"user", "call", "split", "drain", "post"} : lpc' = [lpc EXCEPT ![l] = to]
    BY <1>7 DEF Post, CancelRequeue, Back, WakeLoop, Split, Call, Return, Drained, QueueWork, UserTurn
  <2>2. \A t \in Workers : pc'[t] = "test" <=> pc[t] = "test"
    <3>1. CASE Post(l)
      BY <3>1, SignalStep DEF Post
    <3>2. CASE ~ Post(l)
      BY <1>7, <3>2 DEF CancelRequeue, WakeLoop, Split, Call, Return, Drained, QueueWork
    <3> QED BY <3>1, <3>2
  <2>3. \A k \in Loops : lpc'[k] = "decide" <=> lpc[k] = "decide"
    BY <2>1 DEF IInv, TypeOK
  <2> QED BY <1>1, <2>1, <2>2, <2>3
<1>8. CASE UNCHANGED vars
  BY <1>1, <1>8 DEF vars
<1> QED BY <1>4, <1>5, <1>6, <1>7, <1>8 DEF Next, LoopNext, Quiet

LEMMA LoopLockedStep == IInv /\ LoopLocked /\ [Next]_vars => LoopLocked'
<1> SUFFICES ASSUME IInv, LoopLocked, [Next]_vars, NEW l \in Loops, wqMutex'[l] # Free
             PROVE  \E t \in Workers : wqMutex'[l] = t /\ Inserts(t, l)'
  BY DEF LoopLocked
<1> USE FreeAssumption DEF GotoW, GotoL, pool, worker, inbox, loop
\* Steps that do not touch the mutex of l, and let those that insert go on.
<1>1. ASSUME wqMutex'[l] = wqMutex[l],
             \A t \in Workers : Inserts(t, l) => Inserts(t, l)'
      PROVE  \E t \in Workers : wqMutex'[l] = t /\ Inserts(t, l)'
  BY <1>1 DEF LoopLocked
<1>2. ASSUME NEW t \in Workers, WorkerNext(t) \/ Spurious(t)
      PROVE  \E u \in Workers : wqMutex'[l] = u /\ Inserts(u, l)'
  <2>1. CASE FinishLock(t)
    <3>1. /\ pc[t] = "finish" /\ pc' = [pc EXCEPT ![t] = "insert"] /\ job' = job
          /\ wqMutex' = [wqMutex EXCEPT ![LoopOf[job[t]]] = t]
      BY <2>1 DEF FinishLock
    <3>2. CASE LoopOf[job[t]] = l
      <4>1. wqMutex'[l] = t /\ Inserts(t, l)'
        BY <3>1, <3>2 DEF Inserts, IInv, TypeOK
      <4> QED BY <4>1
    <3>3. CASE LoopOf[job[t]] # l
      <4>1. wqMutex'[l] = wqMutex[l]
        BY <3>1, <3>3 DEF IInv, TypeOK
      <4>2. \A u \in Workers : Inserts(u, l) => Inserts(u, l)'
        BY <3>1, <3>3 DEF Inserts, IInv, TypeOK
      <4> QED BY <1>1, <4>1, <4>2
    <3> QED BY <3>2, <3>3
  <2>2. CASE FinishUnlock(t)
    <3>1. /\ pc[t] = "unlock" /\ pc' = [pc EXCEPT ![t] = "lock"] /\ job' = [job EXCEPT ![t] = None]
          /\ wqMutex' = [wqMutex EXCEPT ![LoopOf[job[t]]] = Free]
      BY <2>2 DEF FinishUnlock
    <3>2. LoopOf[job[t]] # l
      BY <3>1 DEF IInv, TypeOK
    <3>3. wqMutex'[l] = wqMutex[l]
      BY <3>1, <3>2 DEF IInv, TypeOK
    <3>4. \A u \in Workers : Inserts(u, l) => Inserts(u, l)'
      BY <3>1, <3>2 DEF Inserts, IInv, TypeOK
    <3> QED BY <1>1, <3>3, <3>4
  <2>3. CASE FinishInsert(t) \/ FinishSend(t)
    <3>1. /\ wqMutex' = wqMutex /\ job' = job
          /\ pc' = [pc EXCEPT ![t] = "send"] \/ pc' = [pc EXCEPT ![t] = "unlock"]
      BY <2>3 DEF FinishInsert, FinishSend
    <3>2. \A u \in Workers : Inserts(u, l) => Inserts(u, l)'
      BY <3>1 DEF Inserts, IInv, TypeOK
    <3> QED BY <1>1, <3>1, <3>2
  <2>4. CASE WorkerLock(t) \/ WorkerWait(t) \/ WorkerTake(t) \/ WorkerRun(t) \/ Spurious(t)
    <3>1. /\ wqMutex' = wqMutex /\ pc[t] \notin {"insert", "send", "unlock"}
          /\ \A u \in Workers : u # t => job'[u] = job[u] /\ pc'[u] = pc[u]
      BY <2>4 DEF WorkerLock, WorkerWait, WorkerTake, WorkerRun, Spurious, IInv, TypeOK
    <3>2. \A u \in Workers : Inserts(u, l) => Inserts(u, l)'
      BY <3>1 DEF Inserts
    <3> QED BY <1>1, <3>1, <3>2
  <2> QED BY <1>2, <2>1, <2>2, <2>3, <2>4 DEF WorkerNext
<1>3. ASSUME NEW k \in Loops, LoopNext(k) \/ \E w \in Works : QueueWork(k, w) \/ Cancel(k, w)
      PROVE  \E t \in Workers : wqMutex'[l] = t /\ Inserts(t, l)'
  <2>1. wqMutex' = wqMutex /\ job' = job
    BY <1>3 DEF LoopNext, Post, CancelDecide, CancelRequeue, WakeLoop, Split, Call, Return, Drained,
       QueueWork, Cancel
  <2>2. \A t \in Workers : pc'[t] = pc[t] \/ pc[t] = "wait"
    <3>1. CASE Post(k)
      BY <3>1, SignalStep DEF Post
    <3>2. CASE ~ Post(k)
      BY <1>3, <3>2 DEF LoopNext, CancelDecide, CancelRequeue, WakeLoop, Split, Call, Return, Drained,
         QueueWork, Cancel
    <3> QED BY <3>1, <3>2
  <2>3. \A t \in Workers : Inserts(t, l) => Inserts(t, l)'
    BY <2>1, <2>2 DEF Inserts
  <2> QED BY <1>1, <2>1, <2>3
<1>4. CASE UNCHANGED vars
  BY <1>1, <1>4 DEF vars, Inserts
<1> QED BY <1>2, <1>3, <1>4 DEF Next, Quiet

\* Only a thread that can go on without the pool's mutex holds it, and only a
\* worker that needs no mutex holds a loop's.
THEOREM LocksInOrder == Spec => []LockOrder
<1>1. Init => LockOrder
  BY DEF Init, LockOrder, PoolLocked, LoopLocked
<1>2. IInv /\ LockOrder /\ [Next]_vars => LockOrder'
  BY PoolLockedStep, LoopLockedStep DEF LockOrder
<1> QED BY <1>1, <1>2, Invariant, PTL DEF Spec

\* A worker calls the function it took: uv__cancelled, which aborts the process,
\* is never called, since uv__work_cancel takes the work out of the queue first.
NoAbort == \A t \in Workers : pc[t] = "run" => work[job[t]] = "fn"

THEOREM NeverAborts == Spec => []NoAbort
<1>1. IInv => NoAbort
  <2> SUFFICES ASSUME IInv, NEW t \in Workers, pc[t] = "run" PROVE work[job[t]] = "fn"
    BY DEF NoAbort
  <2>1. job[t] \in Works
    BY DEF IInv, TypeOK, Busy
  <2>2. Carried(job[t])
    BY DEF Carried, Carries, Hands
  <2> QED BY <2>1, <2>2 DEF IInv, PlaceInv
<1> QED BY <1>1, Invariant, PTL
=============================================================================
