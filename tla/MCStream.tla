------------------------------- MODULE MCStream -------------------------------
(* One or two connections of a loop.  Where there are two, everything        *)
(* happens to b, while nobody ends a: the program only reads on it, and its  *)
(* peer sends and stays.  Two pieces fill the slab.                          *)
EXTENDS Stream

CONSTANTS a, b

MostForB == [s \in Streams |-> IF s = b THEN 2 ELSE 1]
OnlyOnB == [s \in Streams |-> IF s = b THEN 2 ELSE 0]
One == [s \in Streams |-> 1]
NoWrites == [s \in Streams |-> 0]
=============================================================================
