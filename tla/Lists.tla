-------------------------------- MODULE Lists --------------------------------
(* The vocabulary of properties of linked lists, which are sequences here.  *)
EXTENDS Integers, Sequences, SequencesExt

(* No entry is linked twice; a precedes b.                                  *)
NoDuplicates(L) == \A i, j \in 1..Len(L) : L[i] = L[j] => i = j
Before(L, a, b) == \E i, j \in 1..Len(L) : i < j /\ L[i] = a /\ L[j] = b
==============================================================================
