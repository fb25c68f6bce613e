---------------------------- MODULE MCRequestList ----------------------------
(* RequestList for TLC: three tasks of one direction, or two of one and one *)
(* of the other; limits so small that they are full, overrun and starved.   *)
EXTENDS RequestList, TLC

CONSTANTS t1, t2, t3

AllSync == t1 :> "sync" @@ t2 :> "sync" @@ t3 :> "sync"
TwoSync == t1 :> "sync" @@ t2 :> "sync" @@ t3 :> "async"

(* t1 and t2 are interchangeable.                                          *)
SameDir == {t1 :> t1 @@ t2 :> t2 @@ t3 :> t3, t1 :> t2 @@ t2 :> t1 @@ t3 :> t3}
==============================================================================
