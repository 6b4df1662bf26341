---------------------------- MODULE WorkContract ----------------------------
(***************************************************************************)
(* What uv::Loop::queue_work promises of one piece of work: its work       *)
(* callback runs at most once, on some worker; its after callback runs     *)
(* exactly once, with 0 if the work callback ran to its end and            *)
(* UV_ECANCELED if uv_cancel came first, and never both.                   *)
(***************************************************************************)
CONSTANTS Works

VARIABLE state

States == {"new", "queued", "running", "ran", "cancelled", "done",
           "doneCancelled"}

Init == state = [w \in Works |-> "new"]

Move(w, from, to) == state[w] = from /\ state' = [state EXCEPT ![w] = to]

Queue(w) == Move(w, "new", "queued")
Begin(w) == Move(w, "queued", "running")
End(w) == Move(w, "running", "ran")
Cancel(w) == Move(w, "queued", "cancelled")
After(w) == Move(w, "ran", "done") \/ Move(w, "cancelled", "doneCancelled")

Next ==
  \E w \in Works : Queue(w) \/ Begin(w) \/ End(w) \/ Cancel(w) \/ After(w)

Spec == Init /\ [][Next]_state

\* Work that was queued does not wait for ever.
Progress(w) == Begin(w) \/ End(w) \/ After(w)

FairSpec == Spec /\ \A w \in Works : WF_state(Progress(w))
=============================================================================
