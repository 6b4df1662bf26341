------------------------------- MODULE MCTimers -------------------------------
(* One timer that the program starts to be due at once or to repeat, and one *)
(* with a short timeout or with one too long for the width of the time.      *)
EXTENDS Timers

CONSTANTS now, far

Set(timeout, repeat) == [timeout |-> timeout, repeat |-> repeat]
NowAndFar ==
  (now :> {Set(0, 0), Set(1, 1)}) @@ (far :> {Set(2, 0), Set(14, 0)})
=============================================================================
