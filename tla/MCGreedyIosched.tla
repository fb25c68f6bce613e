--------------------------- MODULE MCGreedyIosched ---------------------------
(* GreedyIosched for TLC: interchangeable requests on a disk of a few      *)
(* sectors, with an `int' so narrow that distances wrap.                   *)
EXTENDS GreedyIosched, TLC

RequestSymmetry == Permutations(Requests)
=============================================================================
