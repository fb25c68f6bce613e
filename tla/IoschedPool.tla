----------------------------- MODULE IoschedPool -----------------------------
(***************************************************************************)
(* What the elevator core (scheduler/kernel/elevator.c) relies on in any   *)
(* I/O scheduler, whatever its order of service: the scheduler is a pool   *)
(* of requests.  A request stays in the pool from the moment it is added   *)
(* until it is dispatched or merged into another one, a dispatch reports   *)
(* "nothing" only when the pool is empty (elv_drain_elevator loops on that *)
(* answer), and the scheduler is torn down only when it holds nothing.     *)
(***************************************************************************)
CONSTANT Requests

VARIABLES
  pool,      \* the requests the scheduler holds
  live,      \* the scheduler's private data exists
  drained    \* the last dispatch reported "nothing" and nothing was added since

poolVars == <<pool, live, drained>>

PoolInit == pool = {} /\ live = FALSE /\ drained = FALSE

Start ==
  /\ ~live
  /\ live' = TRUE /\ pool' = {} /\ drained' = FALSE

Add(rq) ==
  /\ live /\ rq \notin pool
  /\ pool' = pool \union {rq} /\ drained' = FALSE /\ live' = live

Dispatch(rq) ==
  /\ live /\ rq \in pool
  /\ pool' = pool \ {rq} /\ UNCHANGED <<live, drained>>

DispatchNothing ==
  /\ live /\ pool = {}
  /\ drained' = TRUE /\ UNCHANGED <<pool, live>>

Merge(rq, next) ==
  /\ live /\ rq \in pool /\ next \in pool /\ rq # next
  /\ pool' = pool \ {next} /\ UNCHANGED <<live, drained>>

Stop ==
  /\ live /\ drained /\ pool = {}
  /\ live' = FALSE /\ drained' = FALSE /\ pool' = pool

PoolNext ==
  \/ Start
  \/ \E rq \in Requests : Add(rq) \/ Dispatch(rq)
  \/ \E rq, next \in Requests : Merge(rq, next)
  \/ DispatchNothing
  \/ Stop

PoolSpec == PoolInit /\ [][PoolNext]_poolVars
=============================================================================
