---------------------------- MODULE StreamContract ----------------------------
(***************************************************************************)
(* What uv::Stream promises about one connection: every write and the one  *)
(* shutdown are answered by their callback; the shutdown's comes after the *)
(* callbacks of all the writes before it; the end of the peer's data is    *)
(* told at most once, and closes the stream; the close callback comes      *)
(* last, once.                                                             *)
(***************************************************************************)
EXTENDS Naturals

CONSTANT Streams

VARIABLES
  writes,     \* write callbacks owed
  shutdown,   \* "none", "owed" or "done"
  life        \* "open", "ending" (in the end callback), "closing", "closed"

vars == <<writes, shutdown, life>>

Init ==
  /\ writes = [s \in Streams |-> 0]
  /\ shutdown = [s \in Streams |-> "none"]
  /\ life = [s \in Streams |-> "open"]

Write(s) ==
  /\ life[s] \in {"open", "ending"} /\ shutdown[s] = "none"
  /\ writes' = [writes EXCEPT ![s] = @ + 1]
  /\ UNCHANGED <<shutdown, life>>

Written(s) ==
  /\ writes[s] > 0
  /\ writes' = [writes EXCEPT ![s] = @ - 1]
  /\ UNCHANGED <<shutdown, life>>

Shutdown(s) ==
  /\ life[s] \in {"open", "ending"} /\ shutdown[s] = "none"
  /\ shutdown' = [shutdown EXCEPT ![s] = "owed"]
  /\ UNCHANGED <<writes, life>>

ShutDown(s) ==
  /\ shutdown[s] = "owed" /\ writes[s] = 0
  /\ shutdown' = [shutdown EXCEPT ![s] = "done"]
  /\ UNCHANGED <<writes, life>>

Move(s, from, to) ==
  /\ life[s] \in from
  /\ life' = [life EXCEPT ![s] = to]
  /\ UNCHANGED <<writes, shutdown>>

End(s) == Move(s, {"open"}, "ending")
Close(s) == Move(s, {"open", "ending"}, "closing")
Closed(s) ==
  /\ writes[s] = 0 /\ shutdown[s] # "owed"
  /\ Move(s, {"closing"}, "closed")

Answer(s) == Written(s) \/ ShutDown(s) \/ Closed(s)

Next ==
  \E s \in Streams :
    Write(s) \/ Shutdown(s) \/ End(s) \/ Close(s) \/ Answer(s)

Spec == Init /\ [][Next]_vars

\* What is owed comes, and a stream that has ended is closed.
FairSpec ==
  /\ Spec
  /\ \A s \in Streams : WF_vars(Answer(s)) /\ WF_vars(life[s] = "ending" /\ Close(s))
=============================================================================
