------------------------------ MODULE Condition ------------------------------
(***************************************************************************)
(* Threads that use one uv::Condition with its uv::Mutex                   *)
(* (uvpp/uvpp_thread.h) where kernel32 has no condition variables: waiters *)
(* call wait or timedwait, callers signal or broadcast, with the mutex     *)
(* held or not.  Both are members of a Singleton, which the threads, begun *)
(* by uv::Thread::run, all ask for first: one of them builds it.           *)
(***************************************************************************)
EXTENDS CondVar, Thread

CONSTANTS
  Early,     \* the threads that run from the start, as the one of main() does
  Callers,   \* the threads that signal or broadcast once; the others wait
  CallKinds, \* the calls they make
  Waits      \* bound: the waits each of the others makes

ASSUME FallbackAssumption == ~ Native
ASSUME EarlyAssumption == Early \subseteq Threads
ASSUME CallersAssumption == Callers \subseteq Early
ASSUME CallKindsAssumption == CallKinds \subseteq {"signal", "broadcast"}
ASSUME WaitsAssumption == Waits \in Nat

VARIABLES
  pc,        \* where each thread is in its own code
  left,      \* the waits it may still make
  call,      \* history: the call each caller has made
  due        \* history: the threads blocked on the condition when it made it
             \* and not unblocked since

vars == <<cond, thread, pc, left, call, due>>

Init ==
  /\ CondInit /\ ThreadInit(Threads, Early)
  /\ pc = [t \in Threads |-> "idle"]
  /\ left = [t \in Threads |-> Waits]
  /\ call = [s \in Callers |-> "none"]
  /\ due = [s \in Callers |-> {}]

\* A step of a thread that has the instance.
Step(t, from, to) ==
  /\ stage[t] = Up /\ UNCHANGED thread
  /\ pc[t] = from /\ pc' = [pc EXCEPT ![t] = to]

Unblocked == Waiting \ Waiting'

Serve ==
  due' = [s \in Callers |->
            (IF call'[s] # call[s] THEN Waiting ELSE due[s]) \ Unblocked]

-----------------------------------------------------------------------------
\* MutexLocker, for a wait or around a call.
Enter(t) ==
  /\ IF t \in Callers THEN call[t] = "none" ELSE left[t] > 0
  /\ Step(t, "idle", "locked") /\ Lock(t)
  /\ UNCHANGED <<left, call, due>>

\* Condition::wait or Condition::timedwait
Sleep(t) ==
  /\ t \notin Callers
  /\ Step(t, "locked", "leaving") /\ Wait(t)
  /\ left' = [left EXCEPT ![t] = @ - 1]
  /\ UNCHANGED <<call, due>>

\* Condition::signal or Condition::broadcast
Call(s) ==
  /\ s \in Callers /\ call[s] = "none"
  /\ pc[s] \in {"idle", "locked"} /\ stage[s] = Up
  /\ \E kind \in CallKinds :
       /\ call' = [call EXCEPT ![s] = kind]
       /\ IF kind = "signal" THEN Signal(s) ELSE Broadcast(s)
  /\ Serve
  /\ pc' = [pc EXCEPT ![s] = IF @ = "locked" THEN "leaving" ELSE "idle"]
  /\ UNCHANGED <<left, thread>>

\* ~MutexLocker
Exit(t) ==
  /\ Step(t, "leaving", "idle") /\ Unlock(t)
  /\ UNCHANGED <<left, call, due>>

\* What happens inside wait, timedwait, signal and broadcast.
Inside(t) ==
  /\ WaitStep(t) \/ CallStep(t)
  /\ UNCHANGED <<pc, left, call, thread>>
  /\ Serve

TimedOut(t) ==
  /\ FallbackTimeout(t)
  /\ UNCHANGED <<pc, left, call, thread>>
  /\ Serve

\* Thread::run and Singleton::instance, and the end of a thread's functor.
Rest == UNCHANGED <<cond, pc, left, call, due>>
Rise(t) == Begin(t) /\ Rest
Finish(t) == pc[t] = "idle" /\ at[t] = "out" /\ End(t) /\ Rest

-----------------------------------------------------------------------------
\* The calls and waits have been made, and who still waits waits for ever.
Quiet ==
  /\ \A s \in Callers : call[s] # "none" /\ at[s] = "out"
  /\ \A t \in Threads \ Callers :
       at[t] # "asleep" => at[t] = "out" /\ (left[t] = 0 \/ stage[t] = Out("ended"))
  /\ mutex = Free
  /\ UNCHANGED vars

Next ==
  \/ \E t \in Threads :
       Enter(t) \/ Sleep(t) \/ Call(t) \/ Exit(t) \/ Inside(t) \/ TimedOut(t)
         \/ Rise(t) \/ Finish(t)
  \/ Quiet

Spec == Init /\ [][Next]_vars

\* A thread goes on with what it has begun, and gets a mutex that is free
\* again and again.  No wait must time out.
Fairness ==
  \A t \in Threads :
    /\ WF_vars(Rise(t)) /\ WF_vars(Inside(t)) /\ WF_vars(Exit(t))
    /\ WF_vars(pc[t] = "locked" /\ (Sleep(t) \/ Call(t)))
    /\ SF_vars(Inside(t) /\ Relock(t))

FairSpec == Spec /\ Fairness

-----------------------------------------------------------------------------
(* Properties. *)

TypeOK ==
  /\ CondTypeOK /\ ThreadTypeOK(Threads)
  /\ pc \in [Threads -> {"idle", "locked", "leaving"}]
  /\ left \in [Threads -> 0..Waits]
  /\ call \in [Callers -> {"none", "signal", "broadcast"}]
  /\ due \in [Callers -> SUBSET Threads]

\* A thread's ThreadPrivate, which the thread deletes when it ends, is there
\* when uv_thread_create writes the handle into it.
HandleInTime ==
  [][\A t \in Threads : handle'[t] /\ ~ handle[t] => private[t] = "live"]_vars

\* The Condition and, for a begun thread, the TLS key are made once, and before
\* the thread goes on to use them, whoever makes them.
BuiltBeforeUse ==
  /\ \A g \in Guard : built[g] <= 1
  /\ \A t \in Threads :
       /\ stage[t] = Up \/ pc[t] # "idle" => built["instance"] = 1
       /\ private[t] # "none" /\ stage[t] = In("once", "instance") => built["key"] = 1

\* s has called broadcast and no other caller has.
Sole(s) == call[s] = "broadcast" /\ \A u \in Callers : call[u] = "broadcast" => u = s

\* A broadcast that no other has joined reaches all: once uv_cond_broadcast has
\* set its event, who was blocked when it was called and is not awake yet has
\* still to come to WaitForMultipleObjects, and will find the event set; no
\* thread is about to reset it (thread.c:644-649), whatever others signal and
\* however late the waiters are.
LoneBroadcastReaches ==
  \A s \in Callers :
    Sole(s) /\ at[s] # "broadcast" /\ due[s] # {} =>
      /\ broadcastEvent
      /\ \A t \in due[s] : at[t] = "enter"
      /\ \A t \in Threads : at[t] # "reset"

\* "Unblock all threads currently blocked on this condition"
\* (uvpp_thread.h:87).
BroadcastUnblocksAll ==
  \A s \in Callers : call[s] = "broadcast" ~> due[s] = {}
=============================================================================
