--------------------------- MODULE FunctorExecutor ---------------------------
(***************************************************************************)
(* What uv::AsyncFunctor promises: functors queued by any thread run on    *)
(* the loop thread, one at a time, each once, in the order they were       *)
(* queued.  A null functor is taken in its turn and does nothing.          *)
(***************************************************************************)
EXTENDS Sequences

CONSTANTS Jobs, None

VARIABLES
  waiting,   \* the functors queued and not yet taken, in order
  running,   \* the functor the loop thread runs, or None
  finished   \* the functors that have run

Init == waiting = <<>> /\ running = None /\ finished = {}

Fresh(j) ==
  /\ j # running /\ j \notin finished
  /\ \A i \in DOMAIN waiting : waiting[i] # j

Submit(j) ==
  /\ Fresh(j)
  /\ waiting' = Append(waiting, j)
  /\ UNCHANGED <<running, finished>>

Take ==
  /\ running = None /\ waiting # <<>>
  /\ running' = Head(waiting)
  /\ waiting' = Tail(waiting)
  /\ UNCHANGED finished

Complete ==
  /\ running # None
  /\ finished' = finished \union {running}
  /\ running' = None
  /\ UNCHANGED waiting

Next == Take \/ Complete \/ \E j \in Jobs : Submit(j)

Spec == Init /\ [][Next]_<<waiting, running, finished>>
=============================================================================
