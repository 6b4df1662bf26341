---------------------------- MODULE MCAsyncFunctor ----------------------------
(* Two threads and the loop thread queue a few functors, some of them null. *)
EXTENDS AsyncFunctor

CONSTANTS loop, p, q

MCThreads == {loop, p, q}
=============================================================================
