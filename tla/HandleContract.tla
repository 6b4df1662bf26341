---------------------------- MODULE HandleContract ----------------------------
(***************************************************************************)
(* What uv::Handle<HANDLE_T> promises a program, one handle at a time: a   *)
(* close the program asked for, or that ~Handle asked for, ends once; the  *)
(* block is deleted after both the close and the wrapper are over, once,   *)
(* and never while the wrapper is alive.                                   *)
(***************************************************************************)
CONSTANT Handles

VARIABLE state

\* "open": usable.  "closing": close() called, wrapper alive.  "closed": close
\* callback called, wrapper alive.  "orphan": wrapper destroyed, libuv still
\* closing.  "gone": block deleted.
State == {"absent", "open", "closing", "closed", "orphan", "gone"}

Init == state = [h \in Handles |-> "absent"]

Move(h, from, to) ==
  /\ state[h] \in from
  /\ state' = [state EXCEPT ![h] = to]

Create(h) == Move(h, {"absent"}, "open")
Close(h) == Move(h, {"open"}, "closing")
Destroy(h) ==
  \/ Move(h, {"open", "closing"}, "orphan")
  \/ Move(h, {"closed"}, "gone")

\* The loop ends the close.
Finish(h) ==
  \/ Move(h, {"closing"}, "closed")
  \/ Move(h, {"orphan"}, "gone")

Next == \E h \in Handles : Create(h) \/ Close(h) \/ Destroy(h) \/ Finish(h)

Spec == Init /\ [][Next]_state

FairSpec == Spec /\ \A h \in Handles : WF_state(Finish(h))
=============================================================================
