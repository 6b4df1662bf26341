-------------------------------- MODULE Thread --------------------------------
(***************************************************************************)
(* How a thread begins and ends: uv::Thread::run (uvpp/uvpp_thread.h) with *)
(* uv_thread_create and uv_once (win/thread.c), and how threads meet in    *)
(* Singleton::instance (uvpp/base/singleton.h).  These are the actions of  *)
(* one thread: a module that EXTENDS this one says what the threads do     *)
(* once they have the instance.                                            *)
(*                                                                         *)
(* Memory is sequentially consistent, as uv_once takes it to be.           *)
(***************************************************************************)
EXTENDS Naturals

VARIABLES
  stage,    \* where each thread is in its life, but for what it does once "up"
  private,  \* its ThreadPrivate: "none", "live" or "deleted"
  handle,   \* whether m_handle has been written
  once,     \* the uv_once_t of the TLS key and of the Singleton
  built     \* which of the two callbacks of uv_once have done their work, and
            \* how often

thread == <<stage, private, handle, once, built>>

Guard == {"key", "instance"}

\* A thread's stage: in uv_once on a guard, or elsewhere.
In(place, guard) == <<place, guard>>
Out(place) == <<place, "none">>
OncePlace == {"once", "callback", "set", "ran", "wait"}

Stage ==
  ({"none", "suspended", "up", "ended"} \X {"none"}) \union (OncePlace \X Guard)

Up == Out("up")

\* Those of early run already; the others are yet to be created.
ThreadInit(threads, early) ==
  /\ stage = [t \in threads |-> IF t \in early THEN In("once", "instance")
                                 ELSE Out("none")]
  /\ private = [t \in threads |-> "none"]
  /\ handle = [t \in threads |-> FALSE]
  /\ once = [g \in Guard |-> [event |-> "none", ran |-> FALSE]]
  /\ built = [g \in Guard |-> 0]

Advance(t, from, to) == stage[t] = from /\ stage' = [stage EXCEPT ![t] = to]

-----------------------------------------------------------------------------
(* uv_thread_create, on the thread that makes the ThreadPrivate.           *)

NotSuspended(t) ==                                      \* mutant of Create
  /\ Advance(t, Out("none"), In("once", "key"))
  /\ private' = [private EXCEPT ![t] = "live"]
  /\ UNCHANGED <<handle, once, built>>

\* new ThreadPrivate, and _beginthreadex with CREATE_SUSPENDED ...
Create(t) ==
  /\ Advance(t, Out("none"), Out("suspended"))
  /\ private' = [private EXCEPT ![t] = "live"]
  /\ UNCHANGED <<handle, once, built>>

\* ... *tid = thread; ctx->self = thread ...
WriteHandle(t) ==
  /\ private[t] # "none" /\ ~ handle[t]
  /\ handle' = [handle EXCEPT ![t] = TRUE]
  /\ UNCHANGED <<stage, private, once, built>>

\* ... ResumeThread: uv__thread_start is on its way to its uv_once.
Resume(t) ==
  /\ handle[t] /\ Advance(t, Out("suspended"), In("once", "key"))
  /\ UNCHANGED <<private, handle, once, built>>

-----------------------------------------------------------------------------
(* uv_once, on thread t.  What follows it is up to the guard.              *)

After(guard) == IF guard = "key" THEN In("once", "instance") ELSE Up

\* The fast case.
OnceRan(t, g) ==
  /\ once[g].ran /\ Advance(t, In("once", g), After(g))
  /\ UNCHANGED <<private, handle, once, built>>

LoseAtOnce(t, g) ==                                     \* mutant of LoseRace
  /\ ~ once[g].ran /\ once[g].event # "none"
  /\ Advance(t, In("once", g), After(g))
  /\ UNCHANGED <<private, handle, once, built>>

\* InterlockedCompareExchangePointer finds an event, or puts one in place.
LoseRace(t, g) ==
  /\ ~ once[g].ran /\ once[g].event # "none"
  /\ Advance(t, In("once", g), In("wait", g))
  /\ UNCHANGED <<private, handle, once, built>>

WinRace(t, g) ==
  /\ ~ once[g].ran /\ once[g].event = "none"
  /\ Advance(t, In("once", g), In("callback", g))
  /\ once' = [once EXCEPT ![g].event = "unset"]
  /\ UNCHANGED <<private, handle, built>>

\* uv__init_current_thread_key, or Singleton::init.
Callback(t, g) ==
  /\ Advance(t, In("callback", g), In("set", g))
  /\ built' = [built EXCEPT ![g] = @ + 1]
  /\ UNCHANGED <<private, handle, once>>

\* SetEvent on the manual-reset event, which releases all that wait ...
Set(t, g) ==
  /\ Advance(t, In("set", g), In("ran", g))
  /\ once' = [once EXCEPT ![g].event = "set"]
  /\ UNCHANGED <<private, handle, built>>

\* ... and guard->ran = 1.
Ran(t, g) ==
  /\ Advance(t, In("ran", g), After(g))
  /\ once' = [once EXCEPT ![g].ran = TRUE]
  /\ UNCHANGED <<private, handle, built>>

Waited(t, g) ==
  /\ once[g].event = "set" /\ Advance(t, In("wait", g), After(g))
  /\ UNCHANGED <<private, handle, once, built>>

Once(t, g) ==
  \/ OnceRan(t, g) \/ LoseRace(t, g) \/ WinRace(t, g) \/ Callback(t, g)
  \/ Set(t, g) \/ Ran(t, g) \/ Waited(t, g)

-----------------------------------------------------------------------------
\* The functor has returned: ThreadPrivate::entry deletes its object.
End(t) ==
  /\ private[t] = "live" /\ Advance(t, Up, Out("ended"))
  /\ private' = [private EXCEPT ![t] = "deleted"]
  /\ UNCHANGED <<handle, once, built>>

\* What thread t does before the instance is there, and what is done to make it.
Begin(t) ==
  \/ Create(t) \/ WriteHandle(t) \/ Resume(t)
  \/ \E g \in Guard : Once(t, g)

-----------------------------------------------------------------------------
ThreadTypeOK(threads) ==
  /\ stage \in [threads -> Stage]
  /\ private \in [threads -> {"none", "live", "deleted"}]
  /\ handle \in [threads -> BOOLEAN]
  /\ once \in [Guard -> [event: {"none", "unset", "set"}, ran: BOOLEAN]]
  /\ built \in [Guard -> Nat]
=============================================================================
