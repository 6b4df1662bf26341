--------------------------- MODULE Condition_proofs ---------------------------
(***************************************************************************)
(* uv_once and uv_thread_create, for any number of threads: what uv_once   *)
(* guards is made once and before it is used, and a ThreadPrivate is there *)
(* as long as uv_thread_create writes to it.                               *)
(*                                                                         *)
(* The steps inside the condition variable leave both alone; an invariant  *)
(* of each guard, and one of each thread, is enough.                       *)
(***************************************************************************)
EXTENDS Condition, FiniteSetTheorems, TLAPS

-----------------------------------------------------------------------------
(* The inductive invariant.                                                *)

\* The thread that won the race for g is still in uv_once.
Making(t, g) == stage[t] \in {In(p, g) : p \in {"callback", "set", "ran"}}

\* One thread at most makes what g guards; it is made when the callback has
\* returned, once; the event is set and ran is written only then.
GuardInv(g) ==
  /\ built[g] <= 1
  /\ \A t, u \in Threads : Making(t, g) /\ Making(u, g) => t = u
  /\ \A t \in Threads :
       /\ stage[t] = In("callback", g) => built[g] = 0
       /\ stage[t] \in {In("set", g), In("ran", g)} => built[g] = 1
       /\ Making(t, g) => once[g].event # "none"
  /\ once[g].event = "none" => built[g] = 0
  /\ once[g].event = "set" \/ once[g].ran => built[g] = 1

\* A thread is past a guard only when the callback has returned; the handle of
\* a begun thread is written while it is suspended; only a thread that is up
\* is at work.
ThreadInv(t) ==
  /\ stage[t] \in {Up, Out("ended")} => built["instance"] = 1
  /\ private[t] # "none" /\ (stage[t][2] = "instance" \/ stage[t] = Up)
       => built["key"] = 1
  /\ private[t] # "none" /\ ~ handle[t]
       => private[t] = "live" /\ stage[t] = Out("suspended")
  /\ pc[t] # "idle" => stage[t] = Up

IInv ==
  /\ ThreadTypeOK(Threads)
  /\ pc \in [Threads -> {"idle", "locked", "leaving"}]
  /\ \A g \in Guard : GuardInv(g)
  /\ \A t \in Threads : ThreadInv(t)

-----------------------------------------------------------------------------
(* The steps of a thread's beginning and end.                              *)

LEMMA InitIInv == Init => IInv
  BY EarlyAssumption DEF Init, ThreadInit, IInv, ThreadTypeOK, GuardInv, ThreadInv,
     Making, In, Out, Up, Guard, Stage, OncePlace

\* uv_thread_create moves no thread into or out of uv_once but to its start.
LEMMA CreateStep ==
  ASSUME IInv, NEW t \in Threads, Create(t) \/ WriteHandle(t) \/ Resume(t), pc' = pc
  PROVE  IInv'
<1> USE DEF IInv, ThreadTypeOK, Guard, In, Out, Up, Stage, OncePlace, Advance
<1>1. CASE Create(t)
  <2>1. ThreadTypeOK(Threads)' BY <1>1 DEF Create
  <2>2. ASSUME NEW g \in Guard PROVE GuardInv(g)'
    BY <1>1, <2>2 DEF Create, GuardInv, Making
  <2>3. ASSUME NEW u \in Threads PROVE ThreadInv(u)'
    BY <1>1, <2>3 DEF Create, ThreadInv
  <2> QED BY <2>1, <2>2, <2>3
<1>2. CASE WriteHandle(t)
  <2>1. ThreadTypeOK(Threads)' BY <1>2 DEF WriteHandle
  <2>2. ASSUME NEW g \in Guard PROVE GuardInv(g)'
    BY <1>2, <2>2 DEF WriteHandle, GuardInv, Making
  <2>3. ASSUME NEW u \in Threads PROVE ThreadInv(u)'
    BY <1>2, <2>3 DEF WriteHandle, ThreadInv
  <2> QED BY <2>1, <2>2, <2>3
<1>3. CASE Resume(t)
  <2>1. ThreadTypeOK(Threads)' BY <1>3 DEF Resume
  <2>2. ASSUME NEW g \in Guard PROVE GuardInv(g)'
    BY <1>3, <2>2 DEF Resume, GuardInv, Making
  <2>3. ASSUME NEW u \in Threads PROVE ThreadInv(u)'
    BY <1>3, <2>3 DEF Resume, ThreadInv
  <2> QED BY <2>1, <2>2, <2>3
<1> QED BY <1>1, <1>2, <1>3
\* A thread gets past uv_once, or comes to make what it guards, only as
\* GuardInv has it.
LEMMA OnceStep ==
  ASSUME IInv, NEW t \in Threads, NEW g \in Guard, Once(t, g), pc' = pc
  PROVE  IInv'
<1> USE DEF IInv, ThreadTypeOK, Guard, In, Out, Up, Stage, OncePlace, Advance
<1>1. CASE OnceRan(t, g)
  <2>1. ThreadTypeOK(Threads)' BY <1>1 DEF OnceRan, After
  <2>2. ASSUME NEW k \in Guard PROVE GuardInv(k)'
    BY <1>1, <2>2 DEF OnceRan, After, GuardInv, Making
  <2>3. ASSUME NEW u \in Threads PROVE ThreadInv(u)'
    BY <1>1, <2>3 DEF OnceRan, After, GuardInv, ThreadInv, Making
  <2> QED BY <2>1, <2>2, <2>3
<1>2. CASE LoseRace(t, g)
  <2>1. ThreadTypeOK(Threads)' BY <1>2 DEF LoseRace, After
  <2>2. ASSUME NEW k \in Guard PROVE GuardInv(k)'
    BY <1>2, <2>2 DEF LoseRace, After, GuardInv, Making
  <2>3. ASSUME NEW u \in Threads PROVE ThreadInv(u)'
    BY <1>2, <2>3 DEF LoseRace, After, GuardInv, ThreadInv, Making
  <2> QED BY <2>1, <2>2, <2>3
<1>3. CASE WinRace(t, g)
  <2>1. ThreadTypeOK(Threads)' BY <1>3 DEF WinRace, After
  <2>2. ASSUME NEW k \in Guard PROVE GuardInv(k)'
    BY <1>3, <2>2 DEF WinRace, After, GuardInv, Making
  <2>3. ASSUME NEW u \in Threads PROVE ThreadInv(u)'
    BY <1>3, <2>3 DEF WinRace, After, GuardInv, ThreadInv, Making
  <2> QED BY <2>1, <2>2, <2>3
<1>4. CASE Callback(t, g)
  <2>1. ThreadTypeOK(Threads)' BY <1>4 DEF Callback, After
  <2>2. ASSUME NEW k \in Guard PROVE GuardInv(k)'
    BY <1>4, <2>2 DEF Callback, After, GuardInv, Making
  <2>3. ASSUME NEW u \in Threads PROVE ThreadInv(u)'
    BY <1>4, <2>3 DEF Callback, After, GuardInv, ThreadInv, Making
  <2> QED BY <2>1, <2>2, <2>3
<1>5. CASE Set(t, g)
  <2>1. ThreadTypeOK(Threads)' BY <1>5 DEF Set, After
  <2>2. ASSUME NEW k \in Guard PROVE GuardInv(k)'
    BY <1>5, <2>2 DEF Set, After, GuardInv, Making
  <2>3. ASSUME NEW u \in Threads PROVE ThreadInv(u)'
    BY <1>5, <2>3 DEF Set, After, GuardInv, ThreadInv, Making
  <2> QED BY <2>1, <2>2, <2>3
<1>6. CASE Ran(t, g)
  <2>1. ThreadTypeOK(Threads)'
    <3>1. After(g) \in Stage BY DEF After
    <3>2. stage' \in [Threads -> Stage] BY <1>6, <3>1 DEF Ran
    <3>3. once' \in [Guard -> [event: {"none", "unset", "set"}, ran: BOOLEAN]]
      BY <1>6 DEF Ran
    <3> QED BY <1>6, <3>2, <3>3 DEF Ran
  <2>2. ASSUME NEW k \in Guard PROVE GuardInv(k)'
    BY <1>6, <2>2 DEF Ran, After, GuardInv, Making
  <2>3. ASSUME NEW u \in Threads PROVE ThreadInv(u)'
    BY <1>6, <2>3 DEF Ran, After, GuardInv, ThreadInv, Making
  <2> QED BY <2>1, <2>2, <2>3
<1>7. CASE Waited(t, g)
  <2>1. ThreadTypeOK(Threads)' BY <1>7 DEF Waited, After
  <2>2. ASSUME NEW k \in Guard PROVE GuardInv(k)'
    BY <1>7, <2>2 DEF Waited, After, GuardInv, Making
  <2>3. ASSUME NEW u \in Threads PROVE ThreadInv(u)'
    BY <1>7, <2>3 DEF Waited, After, GuardInv, ThreadInv, Making
  <2> QED BY <2>1, <2>2, <2>3
<1> QED BY <1>1, <1>2, <1>3, <1>4, <1>5, <1>6, <1>7 DEF Once

LEMMA EndStep ==
  ASSUME IInv, NEW t \in Threads, End(t), pc[t] = "idle", pc' = pc
  PROVE  IInv'
<1> USE DEF IInv, ThreadTypeOK, Guard, In, Out, Up, Stage, OncePlace, Advance, End
<1>1. ThreadTypeOK(Threads)' OBVIOUS
<1>2. ASSUME NEW g \in Guard PROVE GuardInv(g)' BY <1>2 DEF GuardInv, Making
<1>3. ASSUME NEW u \in Threads PROVE ThreadInv(u)' BY <1>3 DEF ThreadInv
<1> QED BY <1>1, <1>2, <1>3

\* What the threads do with the condition changes only pc, and only of a thread
\* that is up.
LEMMA WorkStep ==
  ASSUME IInv, UNCHANGED thread,
         \/ pc' = pc
         \/ \E t \in Threads : stage[t] = Up /\ \E to \in {"idle", "locked", "leaving"} :
              pc' = [pc EXCEPT ![t] = to]
  PROVE  IInv'
  BY DEF IInv, ThreadTypeOK, GuardInv, ThreadInv, Making, thread

LEMMA NextIInv == IInv /\ [Next]_vars => IInv'
<1> SUFFICES ASSUME IInv, [Next]_vars PROVE IInv'
  OBVIOUS
<1>1. CASE UNCHANGED vars \/ Quiet
  BY <1>1, WorkStep DEF vars, Quiet
<1>2. ASSUME NEW t \in Threads, Enter(t) \/ Sleep(t) \/ Exit(t) PROVE IInv'
  BY <1>2, WorkStep DEF Enter, Sleep, Exit, Step
<1>3. ASSUME NEW t \in Threads, Call(t) PROVE IInv'
  BY <1>3, WorkStep DEF Call
<1>4. ASSUME NEW t \in Threads, Inside(t) \/ TimedOut(t) PROVE IInv'
  BY <1>4, WorkStep DEF Inside, TimedOut
<1>5. ASSUME NEW t \in Threads, Rise(t) PROVE IInv'
  BY <1>5, CreateStep, OnceStep DEF Rise, Rest, Begin
<1>6. ASSUME NEW t \in Threads, Finish(t) PROVE IInv'
  BY <1>6, EndStep DEF Finish, Rest
<1> QED BY <1>1, <1>2, <1>3, <1>4, <1>5, <1>6 DEF Next

-----------------------------------------------------------------------------
(* The theorems.                                                           *)

\* The invariant of uv_once and of the beginning of threads.
THEOREM Invariant == Spec => []IInv
  BY InitIInv, NextIInv, PTL DEF Spec

\* What uv_once guards is made once, and before any thread goes on to use it.
THEOREM Built == Spec => []BuiltBeforeUse
<1>1. IInv => BuiltBeforeUse
  <2> SUFFICES ASSUME IInv PROVE BuiltBeforeUse
    OBVIOUS
  <2>1. \A g \in Guard : built[g] <= 1 BY DEF IInv, GuardInv
  <2>2. ASSUME NEW t \in Threads, stage[t] = Up \/ pc[t] # "idle"
        PROVE  built["instance"] = 1
    BY <2>2 DEF IInv, ThreadInv
  <2>3. ASSUME NEW t \in Threads, private[t] # "none", stage[t] = In("once", "instance")
        PROVE  built["key"] = 1
    <3>1. stage[t][2] = "instance" BY <2>3 DEF In
    <3> QED BY <2>3, <3>1 DEF IInv, ThreadInv
  <2> QED BY <2>1, <2>2, <2>3 DEF BuiltBeforeUse
<1> QED BY Invariant, <1>1, PTL

\* uv_thread_create writes the handle into a ThreadPrivate that is there.
THEOREM HandleWritten == Spec => HandleInTime
<1> DEFINE Writes == \A t \in Threads : handle'[t] /\ ~ handle[t] => private[t] = "live"
<1>1. IInv /\ [Next]_vars => [Writes]_vars
  <2> SUFFICES ASSUME IInv, Next PROVE Writes
    OBVIOUS
  <2>1. ASSUME NEW t \in Threads, Rise(t) PROVE Writes
    <3>1. CASE WriteHandle(t)
      BY <3>1 DEF WriteHandle, IInv, ThreadInv, ThreadTypeOK
    <3>2. CASE ~ WriteHandle(t)
      BY <2>1, <3>2 DEF Rise, Begin, Create, Resume, Once, OnceRan, LoseRace, WinRace,
         Callback, Set, Ran, Waited
    <3> QED BY <3>1, <3>2
  <2>2. ASSUME NEW t \in Threads, Enter(t) \/ Sleep(t) \/ Call(t) \/ Exit(t) PROVE Writes
    BY <2>2 DEF Enter, Sleep, Call, Exit, Step, thread
  <2>3. ASSUME NEW t \in Threads, Inside(t) \/ TimedOut(t) \/ Finish(t) PROVE Writes
    BY <2>3 DEF Inside, TimedOut, Finish, End, thread
  <2> QED BY <2>1, <2>2, <2>3 DEF Next, Quiet, vars, thread
<1> QED BY Invariant, <1>1, PTL DEF Spec, HandleInTime

-----------------------------------------------------------------------------
(* The mutex and the count of the waiters.                                 *)

\* Where a thread that waits has let go of the mutex.
Apart == {"enter", "asleep", "leave", "reset", "relock"}

\* A thread has the mutex from MutexLocker to ~MutexLocker but while it waits:
\* uv_cond_wait lets go of it and returns with it, however the wait ends, and
\* a signal or broadcast between the two leaves it alone.
MutexHeld == \A t \in Threads : mutex = t <=> pc[t] # "idle" /\ at[t] \notin Apart

\* waiters_count counts the threads between its increment and its decrement,
\* and so is never below what signal and broadcast find waiting.
Counted == {t \in Threads : at[t] \in {"release", "enter", "asleep", "leave"}}
WaitersExact == waiters = Cardinality(Counted)

Working ==
  /\ CondTypeOK
  /\ pc \in [Threads -> {"idle", "locked", "leaving"}]
  /\ left \in [Threads -> 0..Waits]
  /\ call \in [Callers -> {"none", "signal", "broadcast"}]
  /\ due \in [Callers -> SUBSET Threads]

\* Callers call and the others wait, and none waits in the idle or before.
Roles(t) ==
  /\ t \in Callers =>
       /\ at[t] \in {"out", "signal", "broadcast"}
       /\ at[t] # "out" => call[t] = at[t] /\ pc[t] # "locked"
  /\ t \notin Callers =>
       /\ at[t] \notin {"signal", "broadcast"}
       /\ pc[t] \in {"idle", "locked"} => at[t] = "out"
       /\ pc[t] = "locked" => left[t] > 0

\* Who is owed a call is still blocked.
DueWaits == \A s \in Callers : due[s] \subseteq Waiting

WaitInv ==
  /\ Working /\ MutexHeld /\ WaitersExact /\ DueWaits
  /\ \A t \in Threads : Roles(t)

LEMMA InitWaitInv == Init => WaitInv
<1> SUFFICES ASSUME Init PROVE WaitInv
  OBVIOUS
<1>1. Working
  <2>1. CondTypeOK
    BY DEF Init, CondInit, CondTypeOK
  <2>2. left \in [Threads -> 0..Waits]
    BY WaitsAssumption DEF Init
  <2> QED BY <2>1, <2>2 DEF Init, Working
<1>2. MutexHeld /\ DueWaits /\ \A t \in Threads : Roles(t)
  BY FreeAssumption DEF Init, CondInit, MutexHeld, DueWaits, Roles
<1>3. Counted = {}
  BY DEF Init, CondInit, Counted
<1> QED BY <1>1, <1>2, <1>3, FS_EmptySet DEF WaitInv, WaitersExact, Init, CondInit

LEMMA CountedFinite == IsFiniteSet(Counted)
  BY ThreadsAssumption, FS_Subset DEF Counted

\* One thread more is counted, one less, or the same.
LEMMA CountStep ==
  ASSUME WaitersExact, waiters \in Nat, NEW t \in Threads,
         \/ waiters' = waiters + 1 /\ t \notin Counted /\ Counted' = Counted \union {t}
         \/ waiters' = waiters - 1 /\ t \in Counted /\ Counted' = Counted \ {t}
         \/ waiters' = waiters /\ Counted' = Counted
  PROVE  WaitersExact' /\ waiters' \in Nat
<1>1. CASE waiters' = waiters + 1 /\ t \notin Counted /\ Counted' = Counted \union {t}
  BY <1>1, CountedFinite, FS_AddElement DEF WaitersExact
<1>2. CASE waiters' = waiters - 1 /\ t \in Counted /\ Counted' = Counted \ {t}
  <2>1. Cardinality(Counted \ {t}) = Cardinality(Counted) - 1
    BY <1>2, CountedFinite, FS_RemoveElement
  <2>2. Cardinality(Counted \ {t}) \in Nat
    BY CountedFinite, FS_RemoveElement, FS_CardinalityType
  <2> QED BY <1>2, <2>1, <2>2 DEF WaitersExact
<1>3. CASE waiters' = waiters /\ Counted' = Counted
  BY <1>3 DEF WaitersExact
<1> QED BY <1>1, <1>2, <1>3

\* Serve keeps DueWaits, and so does a step that unblocks nobody.
LEMMA DueStep ==
  ASSUME WaitInv, \/ Serve
                  \/ UNCHANGED due /\ Waiting \subseteq Waiting'
  PROVE  DueWaits' /\ due' \in [Callers -> SUBSET Threads]
<1>1. CASE Serve
  <2>1. Waiting \subseteq Threads
    BY DEF Waiting
  <2>2. due' = [s \in Callers |-> (IF call'[s] # call[s] THEN Waiting ELSE due[s])
                                    \ (Waiting \ Waiting')]
    BY <1>1 DEF Serve, Unblocked
  <2> QED BY <2>1, <2>2 DEF WaitInv, Working, DueWaits
<1>2. CASE UNCHANGED due /\ Waiting \subseteq Waiting'
  BY <1>2 DEF WaitInv, Working, DueWaits
<1> QED BY <1>1, <1>2

\* MutexLocker and ~MutexLocker.
LEMMA LockStep ==
  ASSUME WaitInv, NEW t \in Threads, Enter(t) \/ Exit(t) PROVE WaitInv'
<1>1. /\ at[t] = "out" /\ UNCHANGED <<at, waiters, events, result, left, call, due>>
      /\ pc[t] = "idle" /\ t \notin Callers => left[t] > 0
      /\ \/ pc[t] = "idle" /\ pc' = [pc EXCEPT ![t] = "locked"] /\ mutex = Free /\ mutex' = t
         \/ pc[t] = "leaving" /\ pc' = [pc EXCEPT ![t] = "idle"] /\ mutex = t /\ mutex' = Free
  BY DEF Enter, Exit, Step, Lock, Unlock
<1>2. Working'
  BY <1>1 DEF WaitInv, Working, CondTypeOK, events
<1>3. MutexHeld'
  BY <1>1, FreeAssumption DEF WaitInv, Working, MutexHeld, Apart
<1>4. WaitersExact' /\ DueWaits'
  BY <1>1 DEF WaitInv, WaitersExact, Counted, DueWaits, Waiting
<1>5. ASSUME NEW u \in Threads PROVE Roles(u)'
  BY <1>1 DEF WaitInv, Working, Roles
<1> QED BY <1>2, <1>3, <1>4, <1>5 DEF WaitInv

\* A wait begins.
LEMMA SleepStep ==
  ASSUME WaitInv, NEW t \in Threads, Sleep(t) PROVE WaitInv'
<1>1. /\ t \notin Callers /\ pc[t] = "locked" /\ pc' = [pc EXCEPT ![t] = "leaving"]
      /\ at[t] = "out" /\ at' = [at EXCEPT ![t] = "release"]
      /\ waiters' = waiters + 1 /\ UNCHANGED <<mutex, events, result, call, due>>
      /\ left' = [left EXCEPT ![t] = @ - 1]
  BY FallbackAssumption DEF Sleep, Step, Wait, NativeWait, FallbackWait, Goto
<1>2. Working'
  <2>1. left[t] \in 0..Waits /\ left[t] > 0 /\ waiters \in Nat
    BY <1>1 DEF WaitInv, Working, CondTypeOK, Roles
  <2>2. left[t] - 1 \in 0..Waits
    BY <2>1, WaitsAssumption
  <2> QED BY <1>1, <2>1, <2>2 DEF WaitInv, Working, CondTypeOK, events
<1>3. MutexHeld'
  BY <1>1 DEF WaitInv, Working, CondTypeOK, MutexHeld, Apart
<1>4. Counted' = Counted \union {t} /\ t \notin Counted /\ Waiting' = Waiting
  BY <1>1 DEF WaitInv, Working, CondTypeOK, Counted, Waiting
<1>5. WaitersExact' /\ DueWaits'
  BY <1>1, <1>4, CountStep DEF WaitInv, Working, CondTypeOK, DueWaits
<1>6. ASSUME NEW u \in Threads PROVE Roles(u)'
  BY <1>1 DEF WaitInv, Working, CondTypeOK, Roles
<1> QED BY <1>2, <1>3, <1>5, <1>6 DEF WaitInv

\* A signal or broadcast begins: have_waiters.
LEMMA CallBegins ==
  ASSUME WaitInv, NEW s \in Threads, Call(s) PROVE WaitInv'
<1>1. PICK kind \in CallKinds :
        /\ call' = [call EXCEPT ![s] = kind]
        /\ at[s] = "out" /\ at' = [at EXCEPT ![s] = IF waiters > 0 THEN kind ELSE "out"]
  BY FallbackAssumption, CallKindsAssumption
     DEF Call, Signal, NativeSignal, FallbackSignal, Broadcast, Goto
<1>2. /\ s \in Callers /\ call[s] = "none" /\ pc[s] \in {"idle", "locked"}
      /\ UNCHANGED <<mutex, waiters, events, result, left>> /\ Serve
      /\ pc' = [pc EXCEPT ![s] = IF @ = "locked" THEN "leaving" ELSE "idle"]
  BY FallbackAssumption DEF Call, Signal, NativeSignal, FallbackSignal, Broadcast
<1>3. kind \in {"signal", "broadcast"}
  BY CallKindsAssumption
<1>4. due' \in [Callers -> SUBSET Threads] /\ DueWaits'
  BY <1>2, DueStep
<1>5. Working'
  BY <1>1, <1>2, <1>3, <1>4 DEF WaitInv, Working, CondTypeOK, events
<1>6. MutexHeld'
  BY <1>1, <1>2, <1>3 DEF WaitInv, Working, CondTypeOK, MutexHeld, Apart
<1>7. Counted' = Counted
  BY <1>1, <1>3 DEF WaitInv, Working, CondTypeOK, Counted
<1>8. WaitersExact'
  BY <1>2, <1>7 DEF WaitInv, WaitersExact
<1>9. ASSUME NEW u \in Threads PROVE Roles(u)'
  BY <1>1, <1>2, <1>3 DEF WaitInv, Working, CondTypeOK, Roles
<1> QED BY <1>4, <1>5, <1>6, <1>8, <1>9 DEF WaitInv

\* What one thread does within uv_cond_wait or uv_cond_timedwait.
LEMMA WithinWait ==
  ASSUME WaitInv, NEW t \in Threads, WaitStep(t) \/ FallbackTimeout(t), Serve,
         UNCHANGED <<pc, left, call>>
  PROVE  WaitInv'
<1>1. due' \in [Callers -> SUBSET Threads] /\ DueWaits'
  BY DueStep
<1>2. t \notin Callers /\ pc[t] = "leaving"
  BY DEF WaitInv, Working, Roles, WaitStep, Release, Block, Leave, Reset, Relock,
         FallbackTimeout, Goto
<1>3. CASE Release(t) \/ Block(t) \/ Reset(t) \/ Relock(t) \/ FallbackTimeout(t)
  <2>1. PICK to \in {"enter", "leave", "asleep", "relock", "out"} : at' = [at EXCEPT ![t] = to]
    BY <1>3 DEF Release, Block, Reset, Relock, FallbackTimeout, Goto
  <2>2. /\ waiters' = waiters /\ signalEvent' \in BOOLEAN /\ broadcastEvent' \in BOOLEAN
        /\ \E r \in {"none", "signal", "broadcast", "timeout"} :
             result' = result \/ result' = [result EXCEPT ![t] = r]
        /\ mutex' \in {mutex, Free, t}
    BY <1>3 DEF Release, Block, Reset, Relock, FallbackTimeout, events, WaitInv, Working,
                CondTypeOK
  <2>3. Working'
    <3>1. CondTypeOK'
      BY <2>1, <2>2 DEF WaitInv, Working, CondTypeOK
    <3> QED BY <1>1, <3>1 DEF WaitInv, Working
  <2>4. MutexHeld'
    BY <1>2, <1>3, FreeAssumption
       DEF Release, Block, Reset, Relock, FallbackTimeout, Goto, WaitInv, Working,
           CondTypeOK, MutexHeld, Apart
  <2>5. Counted' = Counted
    BY <1>3 DEF Release, Block, Reset, Relock, FallbackTimeout, Goto, WaitInv, Working,
                CondTypeOK, Counted
  <2>6. WaitersExact'
    BY <2>2, <2>5 DEF WaitInv, WaitersExact
  <2>7. ASSUME NEW u \in Threads PROVE Roles(u)'
    BY <1>2, <2>1 DEF WaitInv, Working, CondTypeOK, Roles
  <2> QED BY <1>1, <2>3, <2>4, <2>6, <2>7 DEF WaitInv
<1>4. CASE Leave(t)
  <2>1. PICK to \in {"reset", "relock"} : at[t] = "leave" /\ at' = [at EXCEPT ![t] = to]
    BY <1>4 DEF Leave, Goto
  <2>2. waiters' = waiters - 1 /\ UNCHANGED <<mutex, events, result>>
    BY <1>4 DEF Leave
  <2>3. t \in Counted /\ Counted' = Counted \ {t}
    BY <2>1 DEF WaitInv, Working, CondTypeOK, Counted
  <2>4. WaitersExact' /\ waiters' \in Nat
    BY <2>2, <2>3, CountStep DEF WaitInv, Working, CondTypeOK
  <2>5. Working'
    <3>1. CondTypeOK'
      BY <2>1, <2>2, <2>4 DEF WaitInv, Working, CondTypeOK, events
    <3> QED BY <1>1, <3>1 DEF WaitInv, Working
  <2>6. MutexHeld'
    BY <2>1, <2>2 DEF WaitInv, Working, CondTypeOK, MutexHeld, Apart
  <2>7. ASSUME NEW u \in Threads PROVE Roles(u)'
    BY <1>2, <2>1 DEF WaitInv, Working, CondTypeOK, Roles
  <2> QED BY <1>1, <2>4, <2>5, <2>6, <2>7 DEF WaitInv
<1> QED BY <1>3, <1>4 DEF WaitStep

\* An event is set: the caller goes on, and those asleep leave, which are
\* counted still.
LEMMA EventSet ==
  ASSUME WaitInv, NEW s \in Threads, CallStep(s), Serve, UNCHANGED <<pc, left, call>>
  PROVE  WaitInv'
<1>1. due' \in [Callers -> SUBSET Threads] /\ DueWaits'
  BY DueStep
<1>2. /\ at[s] \in {"signal", "broadcast"} /\ UNCHANGED <<mutex, waiters>>
      /\ signalEvent' \in BOOLEAN /\ broadcastEvent' \in BOOLEAN
      /\ at' \in [Threads -> {"out", "release", "enter", "asleep", "leave",
                              "reset", "relock", "signal", "broadcast"}]
      /\ result' \in [Threads -> {"none", "signal", "broadcast", "timeout"}]
      /\ at'[s] = "out"
      /\ \A u \in Threads : u # s =>
           at'[u] = at[u] \/ (at[u] = "asleep" /\ at'[u] = "leave")
  <2>1. CASE SetSignal(s)
    <3>1. at \in [Threads -> {"out", "release", "enter", "asleep", "leave",
                              "reset", "relock", "signal", "broadcast"}]
      BY DEF WaitInv, Working, CondTypeOK
    <3>2. at[s] = "signal" /\ UNCHANGED <<mutex, waiters>>
      BY <2>1 DEF SetSignal
    <3>3. /\ signalEvent' \in BOOLEAN /\ broadcastEvent' \in BOOLEAN
          /\ result' \in [Threads -> {"none", "signal", "broadcast", "timeout"}]
      BY <2>1 DEF SetSignal, WaitInv, Working, CondTypeOK
    <3>4. \/ at' = [at EXCEPT ![s] = "out"]
          \/ \E t \in Threads :
               at[t] = "asleep" /\ at' = [at EXCEPT ![s] = "out", ![t] = "leave"]
      BY <2>1 DEF SetSignal, Asleep
    <3> QED BY <3>1, <3>2, <3>3, <3>4
  <2>2. CASE SetBroadcast(s)
    BY <2>2 DEF SetBroadcast, Asleep, WaitInv, Working, CondTypeOK
  <2> QED BY <2>1, <2>2 DEF CallStep
<1>3. Working'
  <2>1. CondTypeOK'
    BY <1>2 DEF WaitInv, Working, CondTypeOK
  <2> QED BY <1>1, <2>1 DEF WaitInv, Working
<1>4. MutexHeld'
  BY <1>2 DEF WaitInv, MutexHeld, Apart
<1>5. Counted' = Counted
  BY <1>2 DEF Counted
<1>6. WaitersExact'
  BY <1>2, <1>5 DEF WaitInv, WaitersExact
<1>7. ASSUME NEW u \in Threads PROVE Roles(u)'
  BY <1>2 DEF WaitInv, Roles
<1> QED BY <1>1, <1>3, <1>4, <1>6, <1>7 DEF WaitInv

\* Nothing else touches the condition.
LEMMA ElsewhereStep ==
  ASSUME WaitInv, UNCHANGED <<cond, pc, left, call, due>> PROVE WaitInv'
<1>1. Working' /\ MutexHeld' /\ WaitersExact' /\ DueWaits'
  BY DEF WaitInv, Working, CondTypeOK, MutexHeld, WaitersExact, Counted, DueWaits, Waiting,
         cond, events
<1>2. ASSUME NEW t \in Threads PROVE Roles(t)'
  BY DEF WaitInv, Roles, cond
<1> QED BY <1>1, <1>2 DEF WaitInv

LEMMA NextWaitInv == WaitInv /\ [Next]_vars => WaitInv'
<1> SUFFICES ASSUME WaitInv, [Next]_vars PROVE WaitInv'
  OBVIOUS
<1>1. CASE Quiet \/ UNCHANGED vars
  BY <1>1, ElsewhereStep DEF Quiet, vars
<1>2. ASSUME NEW t \in Threads, Rise(t) \/ Finish(t) PROVE WaitInv'
  BY <1>2, ElsewhereStep DEF Rise, Finish, Rest
<1>3. ASSUME NEW t \in Threads, Inside(t) \/ TimedOut(t) PROVE WaitInv'
  <2>1. Serve /\ UNCHANGED <<pc, left, call>>
    BY <1>3 DEF Inside, TimedOut
  <2> QED BY <1>3, <2>1, WithinWait, EventSet DEF Inside, TimedOut
<1> QED BY <1>1, <1>2, <1>3, LockStep, SleepStep, CallBegins DEF Next

\* The mutex is held by one thread, and by which; the count of the waiters is
\* the number of the waiters.
THEOREM MutexIsHeld == Spec => []MutexHeld
<1>1. WaitInv => MutexHeld
  BY DEF WaitInv
<1> QED BY <1>1, InitWaitInv, NextWaitInv, PTL DEF Spec

THEOREM WaitersAreCounted == Spec => []WaitersExact
<1>1. WaitInv => WaitersExact
  BY DEF WaitInv
<1> QED BY <1>1, InitWaitInv, NextWaitInv, PTL DEF Spec

\* The types of all variables.
THEOREM TypeCorrect == Spec => []TypeOK
<1>1. IInv /\ WaitInv => TypeOK
  BY DEF IInv, WaitInv, Working, TypeOK
<1> QED BY <1>1, Invariant, InitWaitInv, NextWaitInv, PTL DEF Spec

-----------------------------------------------------------------------------
(* What a broadcast that no other joins promises.                          *)

\* Before any broadcast has set its event, nobody knows of one.
NotYet ==
  (\A s \in Callers : call[s] = "broadcast" => at[s] = "broadcast") =>
    ~ broadcastEvent /\ \A t \in Threads : at[t] # "reset" /\ result[t] # "broadcast"

\* What any step does to the event and to one thread.
LEMMA Moves ==
  ASSUME WaitInv, [Next]_vars, NEW u \in Threads
  PROVE  /\ at'[u] = "reset" /\ at[u] # "reset" =>
              at[u] = "leave" /\ result[u] = "broadcast" /\ waiters = 1
         /\ at[u] = "enter" /\ broadcastEvent => at'[u] \in {"enter", "leave"}
         /\ at'[u] = "broadcast" /\ at[u] # "broadcast" => u \in Callers /\ call[u] = "none"
         /\ at[u] = "broadcast" /\ at'[u] # "broadcast" => SetBroadcast(u)
         /\ result'[u] = "broadcast" /\ result[u] # "broadcast" =>
              broadcastEvent \/ \E t \in Threads : SetBroadcast(t)
         /\ broadcastEvent' # broadcastEvent =>
              \E t \in Threads : Reset(t) \/ SetBroadcast(t)
         /\ u \in Callers /\ call[u] # "none" => call'[u] = call[u] /\ due'[u] \subseteq due[u]
<1> USE DEF WaitInv, Working, CondTypeOK, events
<1>1. ASSUME UNCHANGED <<cond, pc, left, call, due>>
      PROVE  UNCHANGED <<at, result, broadcastEvent, call, due>>
  BY <1>1 DEF cond
<1>2. CASE Quiet \/ UNCHANGED vars
  BY <1>1, <1>2 DEF Quiet, vars
<1>3. ASSUME NEW t \in Threads, Rise(t) \/ Finish(t) PROVE UNCHANGED <<at, result, broadcastEvent, call, due>>
  BY <1>1, <1>3 DEF Rise, Finish, Rest
<1>4. ASSUME NEW t \in Threads, Enter(t) \/ Exit(t) PROVE UNCHANGED <<at, result, broadcastEvent, call, due>>
  BY <1>4 DEF Enter, Exit, Step, Lock, Unlock
<1>5. ASSUME NEW t \in Threads, Sleep(t)
      PROVE  /\ at[t] = "out" /\ at' = [at EXCEPT ![t] = "release"]
             /\ UNCHANGED <<result, broadcastEvent, call, due>>
  BY <1>5, FallbackAssumption DEF Sleep, Wait, NativeWait, FallbackWait, Goto
<1>6. ASSUME Serve, UNCHANGED call, NEW s \in Callers PROVE due'[s] \subseteq due[s]
  BY <1>6 DEF Serve
<1>7. ASSUME NEW t \in Threads, Call(t)
      PROVE  /\ t \in Callers /\ call[t] = "none" /\ Serve
             /\ UNCHANGED <<result, broadcastEvent>>
             /\ at[t] = "out" /\ \E to \in {"out", "signal", "broadcast"} : at' = [at EXCEPT ![t] = to]
             /\ \E kind \in CallKinds : call' = [call EXCEPT ![t] = kind]
  BY <1>7, FallbackAssumption DEF Call, Signal, NativeSignal, FallbackSignal, Broadcast, Goto
<1>8. ASSUME NEW t \in Threads, Call(t), u \in Callers, call[u] # "none"
      PROVE  call'[u] = call[u] /\ due'[u] \subseteq due[u]
  BY <1>7, <1>8 DEF Serve
<1>9. ASSUME NEW t \in Threads, Inside(t) \/ TimedOut(t)
      PROVE  Serve /\ UNCHANGED call
  BY <1>9 DEF Inside, TimedOut
<1>10. ASSUME NEW t \in Threads, WaitStep(t) \/ FallbackTimeout(t)
       PROVE  /\ at'[u] = "reset" /\ at[u] # "reset" =>
                   at[u] = "leave" /\ result[u] = "broadcast" /\ waiters = 1
              /\ at[u] = "enter" /\ broadcastEvent => at'[u] \in {"enter", "leave"}
              /\ at'[u] = "broadcast" <=> at[u] = "broadcast"
              /\ result'[u] = "broadcast" /\ result[u] # "broadcast" => broadcastEvent
              /\ broadcastEvent' # broadcastEvent => Reset(t)
  BY <1>10 DEF WaitStep, Release, Block, Leave, Reset, Relock, FallbackTimeout, Goto
<1>11. ASSUME NEW t \in Threads, SetSignal(t)
       PROVE  /\ at[t] = "signal" /\ UNCHANGED broadcastEvent
              /\ at'[u] = at[u] \/ (u = t /\ at'[u] = "out") \/ (at[u] = "asleep" /\ at'[u] = "leave")
              /\ result'[u] \in {result[u], "signal"}
  BY <1>11 DEF SetSignal, Asleep
<1>12. ASSUME NEW t \in Threads, SetBroadcast(t)
       PROVE  /\ at[t] = "broadcast"
              /\ at'[u] = at[u] \/ (u = t /\ at'[u] = "out") \/ (at[u] = "asleep" /\ at'[u] = "leave")
  BY <1>12 DEF SetBroadcast, Asleep
<1>13. CASE \E t \in Threads : Inside(t) \/ TimedOut(t)
  <2>1. PICK t \in Threads : Inside(t) \/ TimedOut(t)
    BY <1>13
  <2>2. u \in Callers => call'[u] = call[u] /\ due'[u] \subseteq due[u]
    BY <1>6, <1>9, <2>1
  <2>3. WaitStep(t) \/ FallbackTimeout(t) \/ SetSignal(t) \/ SetBroadcast(t)
    BY <2>1 DEF Inside, TimedOut, CallStep
  <2>4. CASE WaitStep(t) \/ FallbackTimeout(t)
    BY <1>10, <2>2, <2>4
  <2>5. CASE SetSignal(t)
    BY <1>11, <2>2, <2>5
  <2>6. CASE SetBroadcast(t)
    BY <1>12, <2>2, <2>6
  <2> QED BY <2>3, <2>4, <2>5, <2>6
<1>14. CASE \E t \in Threads : Call(t)
  <2>1. PICK t \in Threads : Call(t)
    BY <1>14
  <2>2. u \in Callers /\ call[u] # "none" => call'[u] = call[u] /\ due'[u] \subseteq due[u]
    BY <1>8, <2>1
  <2> QED BY <1>7, <2>1, <2>2
<1> QED BY <1>2, <1>3, <1>4, <1>5, <1>13, <1>14 DEF Next

\* A thread that is counted besides another keeps the last from being one.
LEMMA NotTheLast ==
  ASSUME WaitInv, NEW t \in Counted, NEW u \in Counted, t # u PROVE waiters # 1
<1>1. ASSUME Cardinality(Counted) = 1 PROVE FALSE
  <2>1. \E x : Counted = {x}
    BY <1>1, CountedFinite, FS_Singleton
  <2> QED BY <2>1
<1> QED BY <1>1 DEF WaitInv, WaitersExact

LEMMA NobodyWaits == ASSUME WaitInv, ~ (waiters > 0) PROVE Waiting = {}
<1>1. Cardinality(Counted) = 0
  BY DEF WaitInv, WaitersExact, Working, CondTypeOK
<1>2. Counted = {}
  BY <1>1, CountedFinite, FS_EmptySet
<1> QED BY <1>2 DEF Counted, Waiting

LEMMA NotYetStep == ASSUME WaitInv, NotYet, [Next]_vars PROVE NotYet'
<1> SUFFICES ASSUME \A s \in Callers : call'[s] = "broadcast" => at'[s] = "broadcast"
             PROVE  /\ ~ broadcastEvent'
                    /\ \A t \in Threads : at'[t] # "reset" /\ result'[t] # "broadcast"
  BY DEF NotYet
<1>1. ASSUME NEW s \in Callers, call[s] = "broadcast" PROVE at[s] = "broadcast"
  BY <1>1, Moves, CallersAssumption, EarlyAssumption
<1>2. ~ broadcastEvent /\ \A t \in Threads : at[t] # "reset" /\ result[t] # "broadcast"
  BY <1>1 DEF NotYet
<1>3. ASSUME NEW t \in Threads PROVE ~ SetBroadcast(t) /\ ~ Reset(t)
  <2>1. ~ Reset(t)
    BY <1>2 DEF Reset, Goto
  <2>2. ASSUME SetBroadcast(t) PROVE FALSE
    <3>1. at[t] = "broadcast" /\ at'[t] = "out"
      BY <2>2 DEF SetBroadcast
    <3>2. t \in Callers /\ call[t] = "broadcast"
      BY <3>1 DEF WaitInv, Roles
    <3>3. call'[t] = "broadcast"
      BY <3>2, Moves
    <3> QED BY <3>1, <3>2, <3>3
  <2> QED BY <2>1, <2>2
<1>4. ~ broadcastEvent'
  <2>1. CASE Threads = {}
    BY <1>2, <2>1 DEF Next, Quiet, vars, cond, events
  <2>2. CASE \E u \in Threads : TRUE
    BY <1>2, <1>3, <2>2, Moves DEF WaitInv, Working, CondTypeOK
  <2> QED BY <2>1, <2>2
<1>5. ASSUME NEW t \in Threads PROVE at'[t] # "reset" /\ result'[t] # "broadcast"
  BY <1>2, <1>3, Moves
<1> QED BY <1>4, <1>5

LEMMA BroadcastStep ==
  ASSUME WaitInv, NotYet, LoneBroadcastReaches, [Next]_vars PROVE LoneBroadcastReaches'
<1> SUFFICES ASSUME NEW s \in Callers, Sole(s)', at'[s] # "broadcast", due'[s] # {}
             PROVE  /\ broadcastEvent'
                    /\ \A t \in due'[s] : at'[t] = "enter"
                    /\ \A t \in Threads : at'[t] # "reset"
  BY DEF LoneBroadcastReaches
<1>1. s \in Threads
  BY CallersAssumption, EarlyAssumption
<1>2. WaitInv'
  BY NextWaitInv
<1>3. call[s] = "broadcast"
  <2>1. SUFFICES ASSUME call[s] # "broadcast" PROVE FALSE
    OBVIOUS
  <2>2. call[s] = "none" /\ call'[s] = "broadcast"
    BY <1>1, <2>1, Moves DEF Sole
  <2>3. Call(s)
    BY <2>2, FallbackAssumption
       DEF Next, Enter, Sleep, Call, Exit, Inside, TimedOut, Rise, Finish, Rest, Quiet, vars,
           WaitInv, Working
  <2>4. ~ (waiters > 0)
    BY <1>1, <2>2, <2>3, FallbackAssumption
       DEF Call, Signal, FallbackSignal, NativeSignal, Broadcast, Goto, WaitInv, Working,
           CondTypeOK
  <2>5. due'[s] = Waiting \ (Waiting \ Waiting')
    BY <2>2, <2>3 DEF Call, Serve, Unblocked
  <2> QED BY <2>4, <2>5, NobodyWaits
<1>4. due'[s] \subseteq due[s] /\ Sole(s)
  <2>1. due'[s] \subseteq due[s]
    BY <1>1, <1>3, Moves
  <2>2. ASSUME NEW u \in Callers, call[u] = "broadcast" PROVE u = s
    <3>1. u \in Threads
      BY CallersAssumption, EarlyAssumption
    <3>2. call'[u] = "broadcast"
      BY <2>2, <3>1, Moves
    <3> QED BY <3>2 DEF Sole
  <2> QED BY <1>3, <2>1, <2>2 DEF Sole
<1>5. \A t \in due'[s] : t \in Threads /\ at'[t] \in {"enter", "asleep"}
  BY <1>2 DEF WaitInv, DueWaits, Waiting
<1>6. CASE at[s] = "broadcast"
  <2>1. SetBroadcast(s)
    BY <1>1, <1>6, Moves
  <2>2. broadcastEvent' /\ \A t \in Threads : at'[t] # "asleep"
    BY <2>1 DEF SetBroadcast, Asleep
  <2>3. \A t \in Threads : at[t] # "reset"
    BY <1>4, <1>6 DEF NotYet, Sole
  <2>4. \A t \in Threads : at'[t] # "reset"
    BY <2>1, <2>3 DEF SetBroadcast
  <2> QED BY <1>5, <2>2, <2>4
<1>7. CASE at[s] # "broadcast"
  <2>1. /\ broadcastEvent /\ \A t \in due[s] : at[t] = "enter"
        /\ \A t \in Threads : at[t] # "reset"
    BY <1>4, <1>7 DEF LoneBroadcastReaches
  <2>2. broadcastEvent'
    <3>1. \A t \in Threads : ~ Reset(t)
      BY <2>1 DEF Reset, Goto
    <3>2. ASSUME NEW t \in Threads, SetBroadcast(t) PROVE broadcastEvent'
      BY <3>2 DEF SetBroadcast
    <3> QED BY <1>1, <2>1, <3>1, <3>2, Moves
  <2>3. \A t \in due'[s] : at'[t] = "enter"
    BY <1>4, <1>5, <2>1, Moves
  <2>4. PICK u \in due[s] : u \in Threads /\ at[u] = "enter"
    BY <1>4, <1>5, <2>1
  <2>5. ASSUME NEW t \in Threads, at'[t] = "reset" PROVE FALSE
    <3>1. at[t] = "leave" /\ waiters = 1
      BY <2>1, <2>5, Moves
    <3>2. t \in Counted /\ u \in Counted /\ t # u
      BY <2>4, <3>1 DEF Counted
    <3> QED BY <3>1, <3>2, NotTheLast
  <2> QED BY <2>2, <2>3, <2>5
<1> QED BY <1>6, <1>7

\* A broadcast that no other has joined reaches all that were blocked when it
\* was called.
THEOREM BroadcastReaches == Spec => []LoneBroadcastReaches
<1>1. Init => NotYet /\ LoneBroadcastReaches
  BY DEF Init, CondInit, NotYet, LoneBroadcastReaches, Sole
<1>2. WaitInv /\ NotYet /\ LoneBroadcastReaches /\ [Next]_vars => NotYet' /\ LoneBroadcastReaches'
  BY NotYetStep, BroadcastStep
<1> QED BY <1>1, <1>2, InitWaitInv, NextWaitInv, PTL DEF Spec
=============================================================================
