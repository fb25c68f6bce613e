----------------------------- MODULE GreedyLists -----------------------------
(***************************************************************************)
(* The two request lists of the greedy I/O scheduler and its dispatch      *)
(* decision (scheduler/kernel/greedy-iosched.c), as operators on values.   *)
(* `higher' and `lower' are sequences of requests, first entry first;      *)
(* `sector' maps a request to blk_rq_pos(rq).  The scheduler specification *)
(* (GreedyIosched) and the elevator core (Elevator) are built from them.   *)
(***************************************************************************)
EXTENDS Lists

CONSTANTS
  IntHalf,   \* 2^31 in the code: a C int holds -IntHalf .. IntHalf - 1
  NULL       \* the C null pointer

ASSUME IntHalfAssumption == IntHalf \in Nat \ {0}

-----------------------------------------------------------------------------
(* A sector_t difference stored into an `int': two's complement wrap.      *)
ToInt(x) == ((x + IntHalf) % (2 * IntHalf)) - IntHalf

(***************************************************************************)
(* list_for_each leaves `pos' on the first entry that satisfies the break  *)
(* condition, or on the list head (index 0 here) when none does, and       *)
(* list_add links the new entry right AFTER `pos'.                         *)
(***************************************************************************)
HigherSlot(L, rq, sector) == SelectInSeq(L, LAMBDA x : sector[x] > sector[rq])
LowerSlot(L, rq, sector)  == SelectInSeq(L, LAMBDA x : sector[x] < sector[rq])

AddToHigherDroppingRest(L, rq, sector) ==      \* mutant: the tail is not relinked
  SubSeq(L, 1, HigherSlot(L, rq, sector)) \o <<rq>>

add_to_higher(L, rq, sector) == InsertAt(L, HigherSlot(L, rq, sector) + 1, rq)
add_to_lower(L, rq, sector)  == InsertAt(L, LowerSlot(L, rq, sector) + 1, rq)

(***************************************************************************)
(* greedy_dispatch, the choice of `target': the first entry of `higher'    *)
(* unless only `lower' has entries or the (int) distance up to it exceeds  *)
(* the (int) distance down to the first entry of `lower'.                  *)
(***************************************************************************)
TakesLower(hi, lo, prev_pos, sector) ==
  /\ lo # <<>>
  /\ hi # <<>> => ToInt(sector[Head(hi)] - prev_pos) > ToInt(prev_pos - sector[Head(lo)])

DispatchTarget(hi, lo, prev_pos, sector) ==
  IF TakesLower(hi, lo, prev_pos, sector) THEN Head(lo) ELSE Head(hi)

(* list_del_init of an entry that may be on either list.                   *)
Unlink(L, rq) == RemoveFirst(L, rq)

(* The neighbours the elevator core tries to merge with: NULL at the list  *)
(* heads.  (A request is on one list, so exactly one of hi, lo holds it.)  *)
ListOf(hi, lo, rq) == IF rq \in ToSet(hi) THEN hi ELSE lo

greedy_former_request(hi, lo, rq) ==
  LET L == ListOf(hi, lo, rq)
      i == SelectInSeq(L, LAMBDA x : x = rq)
  IN  IF i <= 1 THEN NULL ELSE L[i - 1]

greedy_latter_request(hi, lo, rq) ==
  LET L == ListOf(hi, lo, rq)
      i == SelectInSeq(L, LAMBDA x : x = rq)
  IN  IF i = Len(L) THEN NULL ELSE L[i + 1]
=============================================================================
