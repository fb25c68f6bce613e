------------------------------ MODULE MCElevator ------------------------------
(* Elevator for TLC: a few bios whose sectors touch, so that back, front,  *)
(* request and plug merges all happen, and fewer requests than bios.       *)
EXTENDS Elevator, TLC

CONSTANTS b1, b2, b3, b4

RequestSymmetry == Permutations(Requests)

(* Four bios in a row, five sectors: with a limit of four sectors the      *)
(* longest merges are refused.                                             *)
Positions == b1 :> 0 @@ b2 :> 1 @@ b3 :> 3 @@ b4 :> 4
Lengths   == b1 :> 1 @@ b2 :> 2 @@ b3 :> 1 @@ b4 :> 1

(* The last three of them.                                                 *)
Positions3 == [b \in {b2, b3, b4} |-> Positions[b]]
Lengths3   == [b \in {b2, b3, b4} |-> Lengths[b]]
=============================================================================
