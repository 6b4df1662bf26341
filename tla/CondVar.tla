------------------------------- MODULE CondVar -------------------------------
(***************************************************************************)
(* uv_cond_t on Windows (win/thread.c) and the uv_mutex_t used with it, as *)
(* the actions of one thread: the modules that EXTEND this one say which   *)
(* thread calls what.  uv_cond_init, _wait, _signal and _broadcast choose  *)
(* at run time: the system's CONDITION_VARIABLE where kernel32 exports it, *)
(* or else the fallback built on two events.                               *)
(*                                                                         *)
(* The sections under waiters_count_lock are one step each; what the       *)
(* fallback does outside them is a step of its own.                        *)
(***************************************************************************)
EXTENDS Naturals, FiniteSets

CONSTANTS
  Threads,
  Native,    \* HAVE_CONDVAR_API()
  Free       \* nobody holds the mutex

ASSUME ThreadsAssumption == IsFiniteSet(Threads)
ASSUME NativeAssumption == Native \in BOOLEAN
ASSUME FreeAssumption == Free \notin Threads

VARIABLES
  mutex,           \* the thread in the mutex, or Free
  at,              \* where each thread is in a uv_cond_ function, or "out"
  waiters,         \* fallback.waiters_count
  signalEvent,     \* fallback.signal_event, an auto-reset event
  broadcastEvent,  \* fallback.broadcast_event, a manual-reset event
  result           \* what WaitForMultipleObjects returned to each thread

events == <<signalEvent, broadcastEvent>>
cond == <<mutex, at, waiters, events, result>>

CondInit ==
  /\ mutex = Free
  /\ at = [t \in Threads |-> "out"]
  /\ waiters = 0
  /\ signalEvent = FALSE /\ broadcastEvent = FALSE
  /\ result = [t \in Threads |-> "none"]

Asleep == {t \in Threads : at[t] = "asleep"}

\* The threads blocked on the condition: they have let go of the mutex.
Waiting == {t \in Threads : at[t] \in {"enter", "asleep"}}

Goto(t, from, to) == at[t] = from /\ at' = [at EXCEPT ![t] = to]

-----------------------------------------------------------------------------
(* uv_mutex_lock and uv_mutex_unlock *)

Lock(t) ==
  /\ at[t] = "out" /\ mutex = Free
  /\ mutex' = t
  /\ UNCHANGED <<at, waiters, events, result>>

Unlock(t) ==
  /\ at[t] = "out" /\ mutex = t
  /\ mutex' = Free
  /\ UNCHANGED <<at, waiters, events, result>>

-----------------------------------------------------------------------------
(* uv_cond_wait and uv_cond_timedwait *)

\* SleepConditionVariableCS lets go of the mutex and sleeps in one step.
NativeWait(t) ==
  /\ Native /\ mutex = t
  /\ Goto(t, "out", "asleep")
  /\ mutex' = Free
  /\ UNCHANGED <<waiters, events, result>>

\* It may return unasked.
NativeWake(t) ==
  /\ Native
  /\ Goto(t, "asleep", "relock")
  /\ UNCHANGED <<mutex, waiters, events, result>>

\* uv_cond_wait_helper: waiters_count++ ...
FallbackWait(t) ==
  /\ ~ Native /\ mutex = t
  /\ Goto(t, "out", "release")
  /\ waiters' = waiters + 1
  /\ UNCHANGED <<mutex, events, result>>

\* ... uv_mutex_unlock(mutex) ...
Release(t) ==
  /\ Goto(t, "release", "enter")
  /\ mutex' = Free
  /\ UNCHANGED <<waiters, events, result>>

\* ... WaitForMultipleObjects, which takes the first event that is set, or else
\* sleeps until an event is set for it ...
Block(t) ==
  /\ Goto(t, "enter", IF signalEvent \/ broadcastEvent THEN "leave" ELSE "asleep")
  /\ signalEvent' = FALSE
  /\ result' = [result EXCEPT ![t] = IF signalEvent THEN "signal"
                                     ELSE IF broadcastEvent THEN "broadcast"
                                     ELSE "none"]
  /\ UNCHANGED <<mutex, waiters, broadcastEvent>>

\* ... or the time of uv_cond_timedwait is over ...
FallbackTimeout(t) ==
  /\ ~ Native
  /\ Goto(t, "asleep", "leave")
  /\ result' = [result EXCEPT ![t] = "timeout"]
  /\ UNCHANGED <<mutex, waiters, events>>

LeaveResetting(t) ==                                   \* mutant of Leave
  /\ Goto(t, "leave", IF result[t] = "broadcast" THEN "reset" ELSE "relock")
  /\ waiters' = waiters - 1
  /\ UNCHANGED <<mutex, events, result>>

\* ... waiters_count--, and the last thread a broadcast woke ...
Leave(t) ==
  /\ Goto(t, "leave",
          IF result[t] = "broadcast" /\ waiters = 1 THEN "reset" ELSE "relock")
  /\ waiters' = waiters - 1
  /\ UNCHANGED <<mutex, events, result>>

\* ... resets the event, outside the lock ...
Reset(t) ==
  /\ Goto(t, "reset", "relock")
  /\ broadcastEvent' = FALSE
  /\ UNCHANGED <<mutex, waiters, signalEvent, result>>

\* ... and takes the mutex again.
Relock(t) ==
  /\ mutex = Free
  /\ Goto(t, "relock", "out")
  /\ mutex' = t
  /\ UNCHANGED <<waiters, events, result>>

Wait(t) == NativeWait(t) \/ FallbackWait(t)

\* The rest of a wait.
WaitStep(t) == Release(t) \/ Block(t) \/ Leave(t) \/ Reset(t) \/ Relock(t)

-----------------------------------------------------------------------------
(* uv_cond_signal and uv_cond_broadcast *)

\* WakeConditionVariable, or the fallback's have_waiters.
NativeSignal(s) ==
  /\ Native /\ at[s] = "out"
  /\ IF Asleep = {} THEN UNCHANGED at
     ELSE \E t \in Asleep : at' = [at EXCEPT ![t] = "relock"]
  /\ UNCHANGED <<mutex, waiters, events, result>>

FallbackSignal(s) ==
  /\ ~ Native
  /\ Goto(s, "out", IF waiters > 0 THEN "signal" ELSE "out")
  /\ UNCHANGED <<mutex, waiters, events, result>>

Signal(s) == NativeSignal(s) \/ FallbackSignal(s)

\* SetEvent on an auto-reset event: it releases one sleeping thread, or stays
\* set for the next to come; set twice, it is still for one.
SetSignal(s) ==
  /\ at[s] = "signal"
  /\ \/ /\ Asleep = {}
        /\ at' = [at EXCEPT ![s] = "out"]
        /\ signalEvent' = TRUE
        /\ UNCHANGED result
     \/ \E t \in Asleep :
          /\ at' = [at EXCEPT ![s] = "out", ![t] = "leave"]
          /\ result' = [result EXCEPT ![t] = "signal"]
          /\ UNCHANGED signalEvent
  /\ UNCHANGED <<mutex, waiters, broadcastEvent>>

\* uv_cond_fallback_broadcast up to its have_waiters; the native broadcast is
\* WakeAllConditionVariable and nothing else.
Broadcast(s) ==
  /\ ~ Native
  /\ Goto(s, "out", IF waiters > 0 THEN "broadcast" ELSE "out")
  /\ UNCHANGED <<mutex, waiters, events, result>>

\* SetEvent on a manual-reset event: it releases all and stays set.
SetBroadcast(s) ==
  /\ at[s] = "broadcast"
  /\ at' = [t \in Threads |-> IF t = s THEN "out"
                             ELSE IF t \in Asleep THEN "leave" ELSE at[t]]
  /\ result' = [t \in Threads |-> IF t \in Asleep THEN "broadcast"
                                 ELSE result[t]]
  /\ broadcastEvent' = TRUE
  /\ UNCHANGED <<mutex, waiters, signalEvent>>

CallStep(s) == SetSignal(s) \/ SetBroadcast(s)

-----------------------------------------------------------------------------
CondTypeOK ==
  /\ mutex \in Threads \union {Free}
  /\ at \in [Threads -> {"out", "release", "enter", "asleep", "leave",
                         "reset", "relock", "signal", "broadcast"}]
  /\ waiters \in Nat
  /\ signalEvent \in BOOLEAN /\ broadcastEvent \in BOOLEAN
  /\ result \in [Threads -> {"none", "signal", "broadcast", "timeout"}]

=============================================================================
