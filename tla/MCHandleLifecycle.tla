-------------------------- MODULE MCHandleLifecycle --------------------------
(* An instance of HandleLifecycle small enough for TLC: one handle of each   *)
(* kind.                                                                     *)
EXTENDS HandleLifecycle, TLC

CONSTANTS i1, a1, t1

OneEach == {i1, a1, t1}
KindOfEach == (i1 :> "idle") @@ (a1 :> "async") @@ (t1 :> "tcp")

\* Only of these does the instance ask to be told of the close.
NetworkHandles == {a1, t1}
=============================================================================
