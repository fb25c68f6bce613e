---------------------------- MODULE GreedyIosched ----------------------------
(***************************************************************************)
(* The greedy I/O scheduler of scheduler/kernel/greedy-iosched.c as the    *)
(* elevator core drives it.  Every operation runs under q->queue_lock, so  *)
(* each is one step.  The environment (elevator.c, blk-core.c) adds        *)
(* requests that are on no list, grows a queued request by merging a bio   *)
(* into it, merges list neighbours that have become contiguous, asks for   *)
(* dispatches, and tears the scheduler down after a dispatch that reported *)
(* "nothing" (elv_drain_elevator).                                         *)
(***************************************************************************)
EXTENDS GreedyLists, FiniteSets

CONSTANTS
  Requests,    \* struct request objects
  MaxSector,   \* bound: the last sector of the disk
  MaxNr        \* bound: the most sectors of one request (queue limits)

ASSUME GeometryAssumption == MaxSector \in Nat /\ MaxNr \in Nat \ {0}

VARIABLES
  higher, lower,   \* gd->higher, gd->lower
  prev_pos,        \* gd->prev_pos
  gd,              \* the private data: "absent", "live", or "oops" (a BUG_ON fired)
  sector, nr,      \* blk_rq_pos, blk_rq_sectors of the requests held; 0 for the others
  drained          \* the last dispatch returned 0 and nothing was added since

vars == <<higher, lower, prev_pos, gd, sector, nr, drained>>

Held == ToSet(higher) \union ToSet(lower)

EndInInt(rq) == ToInt(sector[rq] + nr[rq])     \* mutant: the end goes through an int
rq_end_sector(rq) == sector[rq] + nr[rq]

Init ==
  /\ higher = <<>> /\ lower = <<>> /\ prev_pos = 0
  /\ gd = "absent" /\ drained = FALSE
  /\ sector = [rq \in Requests |-> 0] /\ nr = [rq \in Requests |-> 0]

-----------------------------------------------------------------------------
greedy_init_queue ==
  /\ gd = "absent"
  /\ gd' = "live"
  /\ higher' = <<>> /\ lower' = <<>> /\ prev_pos' = 0
  /\ drained' = FALSE
  /\ UNCHANGED <<sector, nr>>

AddToBothLists(rq, s, n) ==             \* mutant: the else is lost
  /\ gd = "live" /\ rq \notin Held
  /\ sector' = [sector EXCEPT ![rq] = s]
  /\ nr' = [nr EXCEPT ![rq] = n]
  /\ lower' = IF prev_pos > s THEN add_to_lower(lower, rq, sector') ELSE lower
  /\ higher' = add_to_higher(higher, rq, sector')
  /\ drained' = FALSE
  /\ UNCHANGED <<prev_pos, gd>>

greedy_add_request(rq, s, n) ==
  /\ gd = "live" /\ rq \notin Held
  /\ sector' = [sector EXCEPT ![rq] = s]
  /\ nr' = [nr EXCEPT ![rq] = n]
  /\ \/ /\ prev_pos > s
        /\ lower' = add_to_lower(lower, rq, sector')
        /\ higher' = higher
     \/ /\ prev_pos <= s
        /\ higher' = add_to_higher(higher, rq, sector')
        /\ lower' = lower
  /\ drained' = FALSE
  /\ UNCHANGED <<prev_pos, gd>>

(* The request leaves the scheduler: its geometry is no longer scheduler state. *)
Forget(rq) ==
  /\ sector' = [sector EXCEPT ![rq] = 0]
  /\ nr' = [nr EXCEPT ![rq] = 0]

(* greedy_dispatch when a list has an entry; returns 1.                    *)
greedy_dispatch ==
  /\ gd = "live" /\ Held # {}
  /\ LET target == DispatchTarget(higher, lower, prev_pos, sector)
     IN  /\ higher' = Unlink(higher, target)
         /\ lower' = Unlink(lower, target)
         /\ prev_pos' = rq_end_sector(target)
         /\ Forget(target)
  /\ UNCHANGED <<gd, drained>>

NothingWhenHigherIsEmpty ==             \* mutant: the else-if on gd->lower is lost
  /\ gd = "live" /\ higher = <<>>
  /\ drained' = TRUE
  /\ UNCHANGED <<higher, lower, prev_pos, gd, sector, nr>>

(* greedy_dispatch when both lists are empty; returns 0.                   *)
greedy_dispatch_nothing ==
  /\ gd = "live" /\ higher = <<>> /\ lower = <<>>
  /\ drained' = TRUE
  /\ UNCHANGED <<higher, lower, prev_pos, gd, sector, nr>>

(***************************************************************************)
(* elv_merge_requests(q, rq, next): the callers pass a request and its     *)
(* greedy_latter_request, or its greedy_former_request and itself, once    *)
(* the one ends where the other begins.  rq takes over next's sectors and  *)
(* greedy_merged_requests unlinks next.                                    *)
(***************************************************************************)
greedy_merged_requests(rq, next) ==
  /\ gd = "live" /\ rq \in Held /\ next \in Held
  /\ \/ next = greedy_latter_request(higher, lower, rq)
     \/ rq = greedy_former_request(higher, lower, next)
  /\ rq_end_sector(rq) = sector[next]
  /\ nr[rq] + nr[next] <= MaxNr
  /\ higher' = Unlink(higher, next)
  /\ lower' = Unlink(lower, next)
  /\ nr' = [nr EXCEPT ![rq] = @ + nr[next], ![next] = 0]
  /\ sector' = [sector EXCEPT ![next] = 0]
  /\ UNCHANGED <<prev_pos, gd, drained>>

(* A bio of n sectors is merged at the back or the front of a held request *)
(* (bio_attempt_back_merge, bio_attempt_front_merge).  The scheduler has   *)
(* no elevator_merged_fn: the request keeps its place in its list.         *)
bio_back_merge(rq, n) ==
  /\ gd = "live" /\ rq \in Held
  /\ nr[rq] + n <= MaxNr
  /\ nr' = [nr EXCEPT ![rq] = @ + n]
  /\ UNCHANGED <<higher, lower, prev_pos, gd, sector, drained>>

bio_front_merge(rq, n) ==
  /\ gd = "live" /\ rq \in Held
  /\ nr[rq] + n <= MaxNr /\ sector[rq] >= n
  /\ nr' = [nr EXCEPT ![rq] = @ + n]
  /\ sector' = [sector EXCEPT ![rq] = @ - n]
  /\ UNCHANGED <<higher, lower, prev_pos, gd, drained>>

(* Reached only after a drain; each BUG_ON stops the machine.              *)
greedy_exit_queue ==
  /\ gd = "live" /\ drained
  /\ gd' = IF higher # <<>> \/ lower # <<>> THEN "oops" ELSE "absent"
  /\ drained' = FALSE
  /\ UNCHANGED <<higher, lower, prev_pos, sector, nr>>

Next ==
  \/ greedy_init_queue
  \/ \E rq \in Requests, s \in 0..MaxSector, n \in 1..MaxNr :
       s + n <= MaxSector + 1 /\ greedy_add_request(rq, s, n)
  \/ greedy_dispatch
  \/ greedy_dispatch_nothing
  \/ \E rq, next \in Requests : greedy_merged_requests(rq, next)
  \/ \E rq \in Requests, n \in 1..MaxNr :
       rq_end_sector(rq) + n <= MaxSector + 1 /\ bio_back_merge(rq, n)
  \/ \E rq \in Requests, n \in 1..MaxNr : bio_front_merge(rq, n)
  \/ greedy_exit_queue

Spec == Init /\ [][Next]_vars

-----------------------------------------------------------------------------
(* Type invariant of the scheduler's private data.                         *)
TypeOK ==
  /\ higher \in Seq(Requests) /\ lower \in Seq(Requests)
  /\ prev_pos \in Nat
  /\ gd \in {"absent", "live", "oops"}
  /\ sector \in [Requests -> Nat] /\ nr \in [Requests -> Nat]
  /\ drained \in BOOLEAN

(***************************************************************************)
(* A request is linked at one place only: its queuelist node is on at most *)
(* one of the two lists, once, whatever sequence of insertions in the      *)
(* middle, dispatches and merges led here (a second list_add of a linked   *)
(* node, or a missing list_del_init, would corrupt both lists).            *)
(***************************************************************************)
LinkedOnce ==
  /\ NoDuplicates(higher) /\ NoDuplicates(lower)
  /\ ToSet(higher) \intersect ToSet(lower) = {}

(* Neither BUG_ON of greedy_exit_queue can fire: a dispatch that returned  *)
(* 0, with nothing added since, left both lists empty.                     *)
NoBugOn ==
  /\ gd # "oops"
  /\ drained \/ gd = "absent" => higher = <<>> /\ lower = <<>>

(* The inductive invariant the proofs use: a held request is also never    *)
(* empty, so a request and the one that follows it on disk are two.        *)
SchedulerInv ==
  /\ TypeOK /\ LinkedOnce /\ NoBugOn
  /\ \A rq \in Held : nr[rq] > 0

(* The scheduler implements the pool the elevator core relies on.          *)
Pool == INSTANCE IoschedPool WITH pool <- Held, live <- gd = "live"

PoolSpec == Pool!PoolSpec

(***************************************************************************)
(* What the comments of add_to_higher ("smaller now, so take this guy's    *)
(* spot") and add_to_lower ("we are now bigger than the thing below us, so *)
(* fit here") claim: `higher' ascends and `lower' descends, so that the    *)
(* first entry of each list is the nearest one.  list_add links the entry  *)
(* AFTER the one whose spot it should take.                                *)
(***************************************************************************)
ListsSorted ==
  /\ \A i \in 1..Len(higher) - 1 : sector[higher[i]] <= sector[higher[i + 1]]
  /\ \A i \in 1..Len(lower) - 1 : sector[lower[i]] >= sector[lower[i + 1]]
=============================================================================
