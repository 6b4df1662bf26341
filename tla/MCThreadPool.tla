----------------------------- MODULE MCThreadPool -----------------------------
(* Two workers, and two loops of which one has most of the works. *)
EXTENDS ThreadPool

CONSTANTS loopA, loopB, w1, w2, w3

TwoLoops == {loopA, loopB}
LastElsewhere == [w \in Works |-> IF w = w3 THEN loopB ELSE loopA]
=============================================================================
