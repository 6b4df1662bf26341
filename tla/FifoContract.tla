---------------------------- MODULE FifoContract ----------------------------
(***************************************************************************)
(* What BlockingQueue promises: every element put is taken by one thread,  *)
(* once, and elements are taken in the order they were put.                *)
(***************************************************************************)
EXTENDS Sequences

CONSTANTS Elements

VARIABLES
  queue,   \* put and not yet taken
  taken    \* taken, in order

Init == queue = <<>> /\ taken = <<>>

Fresh(x) ==
  /\ \A i \in DOMAIN queue : queue[i] # x
  /\ \A i \in DOMAIN taken : taken[i] # x

Put(x) == Fresh(x) /\ queue' = Append(queue, x) /\ UNCHANGED taken

Take ==
  /\ queue # <<>>
  /\ taken' = Append(taken, Head(queue))
  /\ queue' = Tail(queue)

Next == Take \/ \E x \in Elements : Put(x)

Spec == Init /\ [][Next]_<<queue, taken>>
=============================================================================
