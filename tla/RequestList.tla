---------------------------- MODULE RequestList ----------------------------
(***************************************************************************)
(* The request_list of a queue (blk-core.c): tasks allocate requests in    *)
(* two directions, sleep when a direction is full, are woken one by one as *)
(* requests are freed, and as "batchers" may exceed the limit by half; the *)
(* limit may be changed, and the queue may die under the sleepers.         *)
(*                                                                         *)
(* A step is a critical section of q->queue_lock, but for: get_request     *)
(* between its last look at the dying flag and the wait queue (pc          *)
(* "queueing", the lock is held), blk_set_queue_dying (no lock), and the   *)
(* parts of get_request that touch the task's own io_context only.         *)
(***************************************************************************)
EXTENDS Integers, Sequences, FiniteSets, SequencesExt

CONSTANTS
  Tasks,
  TaskDir,       \* the direction each task allocates in
  Sizes,         \* values q->nr_requests may take
  NrBatching,    \* q->nr_batching, BLK_BATCH_REQ
  ElvPriv,       \* may a request be scheduled (TRUE), bypass the scheduler (FALSE)?
  MaxResize      \* bound: changes of nr_requests in a behaviour

Dirs == {"sync", "async"}

ASSUME RequestListAssumption ==
  /\ IsFiniteSet(Tasks) /\ TaskDir \in [Tasks -> Dirs]
  /\ Sizes \subseteq Nat \ {0} /\ Sizes # {} /\ ElvPriv \subseteq BOOLEAN
  /\ NrBatching \in Nat \ {0} /\ MaxResize \in Nat

VARIABLES
  nr_requests, count, nr_rqs_elvpriv,   \* the limit; rl->count (= q->nr_rqs); elvpriv's
  starved, full, congested,             \* per direction
  wait,                                 \* rl->wait: the sleepers, first one first
  live,                                 \* requests in use, by direction and REQ_ELVPRIV
  pc,                                   \* where each task is in get_request
  can_wait, elv,                        \* of the attempt: __GFP_WAIT, REQ_ELVPRIV
  nr_batch_requests, in_time,           \* of its io_context; BLK_BATCH_TIME not yet over
  dying, dead, resized

limits == <<nr_requests, resized>>
rl     == <<count, nr_rqs_elvpriv, starved, full, congested>>
ioc    == <<nr_batch_requests, in_time>>
call   == <<can_wait, elv>>
fate   == <<dying, dead>>
vars   == <<limits, rl, wait, live, pc, call, ioc, fate>>

Other(d) == IF d = "sync" THEN "async" ELSE "sync"
(* A task sleeps in get_request or leaves it: its attempt is over.         *)
AttemptOver(t) == can_wait' = [can_wait EXCEPT ![t] = TRUE] /\ elv' = [elv EXCEPT ![t] = FALSE]

LockFree == \A t \in Tasks : pc[t] # "queueing"

AtLeast(n, low) == IF n < low THEN low ELSE n
AtMost(n, high) == IF n > high THEN high ELSE n

(* blk_queue_congestion_threshold.                                         *)
nr_congestion_on(n)  == AtMost(n - (n \div 8) + 1, n)
nr_congestion_off(n) == AtLeast(n - (n \div 8) - (n \div 16) - 1, 1)

Init ==
  /\ nr_requests \in Sizes /\ resized = 0
  /\ count = [d \in Dirs |-> 0] /\ nr_rqs_elvpriv = 0
  /\ starved = [d \in Dirs |-> FALSE] /\ full = [d \in Dirs |-> FALSE]
  /\ congested = [d \in Dirs |-> FALSE]
  /\ wait = [d \in Dirs |-> <<>>]
  /\ live = [d \in Dirs |-> [e \in BOOLEAN |-> 0]]
  /\ pc = [t \in Tasks |-> "out"]
  /\ can_wait = [t \in Tasks |-> TRUE] /\ elv = [t \in Tasks |-> FALSE]
  /\ nr_batch_requests = [t \in Tasks |-> 0] /\ in_time = [t \in Tasks |-> FALSE]
  /\ dying = FALSE /\ dead = FALSE

-----------------------------------------------------------------------------
(* The io_context of a task.                                               *)
ioc_batching(t) ==
  \/ nr_batch_requests[t] = NrBatching
  \/ nr_batch_requests[t] > 0 /\ in_time[t]

ioc_set_batching(t) ==
  IF ioc_batching(t) THEN UNCHANGED ioc
  ELSE /\ nr_batch_requests' = [nr_batch_requests EXCEPT ![t] = NrBatching]
       /\ in_time' = [in_time EXCEPT ![t] = TRUE]

BatchTimeOver(t) ==
  /\ in_time[t]
  /\ in_time' = [in_time EXCEPT ![t] = FALSE]
  /\ UNCHANGED <<limits, rl, wait, live, pc, call, nr_batch_requests, fate>>

(* wake_up of the wait queues of the directions ds: the first sleeper of   *)
(* each (the waits are exclusive), which leaves the queue as it wakes.     *)
(* The others are where `at' says.                                         *)
wake_up(ds, at) ==
  LET first == {Head(wait[d]) : d \in {x \in ds : wait[x] # <<>>}}
  IN  /\ wait' = [d \in Dirs |-> IF d \in ds /\ wait[d] # <<>> THEN Tail(wait[d]) ELSE wait[d]]
      /\ pc' = [t \in Tasks |-> IF t \in first THEN "woken" ELSE at[t]]

WakeNobody == UNCHANGED <<wait, pc>>                 \* mutant: waiters left to the chain
wake_up_all ==
  /\ wait' = [d \in Dirs |-> <<>>]
  /\ pc' = [t \in Tasks |-> IF t \in ToSet(wait["sync"]) \union ToSet(wait["async"])
                            THEN "woken" ELSE pc[t]]

(***************************************************************************)
(* freed_request(rl, flags): one request less in direction d; then         *)
(* __freed_request for d, and for the other direction if that is starved:  *)
(* clear the congestion, and below the limit wake a sleeper and clear full.*)
(***************************************************************************)
RoomIfFull(d, c) == full[d] /\ c + 1 <= nr_requests       \* mutant: only a full one wakes
MakesRoom(d, c) == c + 1 <= nr_requests

freed_request(d, e, at) ==
  LET c    == [count EXCEPT ![d] = @ - 1]
      seen == {d} \union (IF starved[Other(d)] THEN {Other(d)} ELSE {})
      room == {x \in seen : MakesRoom(x, c[x])}
  IN  /\ count' = c
      /\ nr_rqs_elvpriv' = nr_rqs_elvpriv - (IF e THEN 1 ELSE 0)
      /\ congested' = [x \in Dirs |->
                         congested[x] /\ ~ (x \in seen /\ c[x] < nr_congestion_off(nr_requests))]
      /\ full' = [x \in Dirs |-> full[x] /\ x \notin room]
      /\ wake_up(room, at)

-----------------------------------------------------------------------------
(***************************************************************************)
(* __get_request up to the allocation, under the lock, for a task that     *)
(* calls get_request or calls it again after its sleep.  The scheduler has *)
(* no may_queue_fn.  Near the limit the direction is marked full and the   *)
(* task a batcher; a full direction refuses all but batchers, and three    *)
(* halves of the limit refuse everyone.                                    *)
(***************************************************************************)
PastLimit(d) == count[d] + 1 > nr_requests       \* mutant
NearLimit(d) == count[d] + 1 >= nr_requests
Refused(t)   == LET d == TaskDir[t] IN NearLimit(d) /\ full[d] /\ ~ ioc_batching(t)
OverLimit(d) == count[d] >= (3 * nr_requests) \div 2

(* What a task that is not Refused does before it looks at OverLimit.      *)
MarkLevel(t) ==
  LET d == TaskDir[t]
  IN  /\ IF NearLimit(d) /\ ~ full[d] THEN ioc_set_batching(t) ELSE UNCHANGED ioc
      /\ full' = [full EXCEPT ![d] = @ \/ NearLimit(d)]
      /\ congested' = [congested EXCEPT ![d] =
                         @ \/ count[d] + 1 >= nr_congestion_on(nr_requests)]

get_request_dying(t) ==
  /\ LockFree /\ dying /\ pc[t] = "retry"
  /\ pc' = [pc EXCEPT ![t] = "out"] /\ AttemptOver(t)
  /\ UNCHANGED <<limits, rl, wait, live, ioc, fate>>

get_request_granted(t, wait_ok, e) ==
  LET d == TaskDir[t]
  IN  /\ LockFree /\ ~ dying
      /\ ~ Refused(t) /\ ~ OverLimit(d)
      /\ MarkLevel(t)
      /\ count' = [count EXCEPT ![d] = @ + 1]
      /\ starved' = [starved EXCEPT ![d] = FALSE]
      /\ nr_rqs_elvpriv' = nr_rqs_elvpriv + (IF e THEN 1 ELSE 0)
      /\ can_wait' = [can_wait EXCEPT ![t] = wait_ok] /\ elv' = [elv EXCEPT ![t] = e]
      /\ pc' = [pc EXCEPT ![t] = "allocating"]
      /\ UNCHANGED <<limits, wait, live, fate>>

get_request_refused(t, wait_ok) ==
  /\ LockFree /\ ~ dying
  /\ \/ /\ Refused(t)
        /\ UNCHANGED <<full, congested, ioc>>
     \/ /\ ~ Refused(t) /\ OverLimit(TaskDir[t])
        /\ MarkLevel(t)
  /\ pc' = [pc EXCEPT ![t] = IF wait_ok THEN "queueing" ELSE "out"] /\ AttemptOver(t)
  /\ UNCHANGED <<limits, count, nr_rqs_elvpriv, starved, wait, live, fate>>

(* prepare_to_wait_exclusive, the unlock, io_schedule.                     *)
get_request_sleep(t) ==
  /\ pc[t] = "queueing"
  /\ wait' = [wait EXCEPT ![TaskDir[t]] = Append(@, t)]
  /\ pc' = [pc EXCEPT ![t] = "asleep"]
  /\ UNCHANGED <<limits, rl, live, call, ioc, fate>>

get_request_wake(t) ==
  /\ pc[t] = "woken"
  /\ ioc_set_batching(t)
  /\ pc' = [pc EXCEPT ![t] = "retry"]
  /\ UNCHANGED <<limits, rl, wait, live, call, fate>>

KeepsElvPriv(t, e) ==                            \* mutant: fail_elvpriv keeps the count
  /\ pc[t] = "allocating"
  /\ \/ e = elv[t] /\ UNCHANGED nr_rqs_elvpriv
     \/ LockFree /\ elv[t] /\ ~ e /\ UNCHANGED nr_rqs_elvpriv
  /\ live' = [live EXCEPT ![TaskDir[t]][e] = @ + 1]
  /\ nr_batch_requests' = [nr_batch_requests EXCEPT ![t] =
                             IF ioc_batching(t) THEN @ - 1 ELSE @]
  /\ pc' = [pc EXCEPT ![t] = "out"] /\ AttemptOver(t)
  /\ UNCHANGED <<limits, count, starved, full, congested, wait, in_time, fate>>

(* The rest of __get_request, without the lock: a batcher uses up a        *)
(* request of its batch.  If the scheduler's data cannot be set up, the    *)
(* request goes on without REQ_ELVPRIV.                                    *)
allocate(t, e) ==
  /\ pc[t] = "allocating"
  /\ \/ e = elv[t] /\ UNCHANGED nr_rqs_elvpriv
     \/ LockFree /\ elv[t] /\ ~ e /\ nr_rqs_elvpriv' = nr_rqs_elvpriv - 1
  /\ live' = [live EXCEPT ![TaskDir[t]][e] = @ + 1]
  /\ nr_batch_requests' = [nr_batch_requests EXCEPT ![t] =
                             IF ioc_batching(t) THEN @ - 1 ELSE @]
  /\ pc' = [pc EXCEPT ![t] = "out"] /\ AttemptOver(t)
  /\ UNCHANGED <<limits, count, starved, full, congested, wait, in_time, fate>>

(* fail_alloc: mempool_alloc may fail only without __GFP_WAIT.             *)
allocate_fails(t) ==
  LET d == TaskDir[t]
  IN  /\ LockFree /\ pc[t] = "allocating" /\ ~ can_wait[t]
      /\ freed_request(d, elv[t], [pc EXCEPT ![t] = "out"])
      /\ starved' = [starved EXCEPT ![d] = @ \/ count'[d] = 0]
      /\ AttemptOver(t)
      /\ UNCHANGED <<limits, live, ioc, fate>>

-----------------------------------------------------------------------------
(* __blk_put_request of a completed request.                               *)
blk_put_request(d, e) ==
  /\ LockFree /\ live[d][e] > 0
  /\ live' = [live EXCEPT ![d][e] = @ - 1]
  /\ freed_request(d, e, pc)
  /\ UNCHANGED <<limits, starved, call, ioc, fate>>

CongestedUntilFreed(d, n) ==                     \* mutant: the else-if is lost
  count[d] >= nr_congestion_on(n) \/ congested[d]
CongestedUnder(d, n) ==
  \/ count[d] >= nr_congestion_on(n)
  \/ congested[d] /\ count[d] >= nr_congestion_off(n)

blk_update_nr_requests(n) ==
  LET room == {d \in Dirs : count[d] < n}
  IN  /\ LockFree /\ resized < MaxResize /\ n # nr_requests
      /\ nr_requests' = n /\ resized' = resized + 1
      /\ congested' = [d \in Dirs |-> CongestedUnder(d, n)]
      /\ full' = [d \in Dirs |-> d \notin room]
      /\ wake_up(room, pc)
      /\ UNCHANGED <<count, nr_rqs_elvpriv, starved, live, call, ioc, fate>>

(* Called by blk_cleanup_queue without the lock.                           *)
blk_set_queue_dying ==
  /\ ~ dying
  /\ dying' = TRUE
  /\ wake_up(Dirs, pc)
  /\ UNCHANGED <<limits, rl, live, call, ioc, dead>>

(* The end of __blk_drain_queue, called by blk_cleanup_queue: no request   *)
(* is left.                                                                *)
blk_drain_queue ==
  /\ LockFree /\ dying /\ ~ dead
  /\ nr_rqs_elvpriv = 0 /\ \A d \in Dirs : count[d] = 0
  /\ dead' = TRUE
  /\ wake_up_all
  /\ UNCHANGED <<limits, rl, live, call, ioc, dying>>

(* A call of get_request; on a dying queue it fails at once.               *)
Call(t) ==
  /\ pc[t] = "out"
  /\ \E w \in BOOLEAN : \/ get_request_refused(t, w)
                        \/ \E e \in ElvPriv : get_request_granted(t, w, e)

Proceed(t) ==
  \/ get_request_sleep(t) \/ get_request_wake(t) \/ get_request_dying(t)
  \/ \E e \in BOOLEAN : allocate(t, e)
  \/ pc[t] = "retry" /\ \/ get_request_refused(t, TRUE)
                        \/ \E e \in ElvPriv : get_request_granted(t, TRUE, e)

Next ==
  \/ \E t \in Tasks : Call(t) \/ Proceed(t) \/ allocate_fails(t) \/ BatchTimeOver(t)
  \/ \E d \in Dirs, e \in BOOLEAN : blk_put_request(d, e)
  \/ \E n \in Sizes : blk_update_nr_requests(n)
  \/ blk_set_queue_dying \/ blk_drain_queue

Spec == Init /\ [][Next]_vars

(* A task inside get_request runs on, a request in use ends, the cleanup   *)
(* finishes its drain.                                                     *)
FairSpec ==
  /\ Spec
  /\ \A t \in Tasks : WF_vars(Proceed(t))
  /\ \A d \in Dirs, e \in BOOLEAN : WF_vars(blk_put_request(d, e))
  /\ WF_vars(blk_drain_queue)

-----------------------------------------------------------------------------
(* Type invariant; the lock has at most one holder.                        *)
TypeOK ==
  /\ nr_requests \in Sizes /\ resized \in 0..MaxResize
  /\ count \in [Dirs -> Nat] /\ nr_rqs_elvpriv \in Nat
  /\ starved \in [Dirs -> BOOLEAN] /\ full \in [Dirs -> BOOLEAN]
  /\ congested \in [Dirs -> BOOLEAN]
  /\ wait \in [Dirs -> Seq(Tasks)]
  /\ live \in [Dirs -> [BOOLEAN -> Nat]]
  /\ pc \in [Tasks -> {"out", "allocating", "queueing", "asleep", "woken", "retry"}]
  /\ can_wait \in [Tasks -> BOOLEAN] /\ elv \in [Tasks -> BOOLEAN]
  /\ nr_batch_requests \in [Tasks -> 0..NrBatching] /\ in_time \in [Tasks -> BOOLEAN]
  /\ dying \in BOOLEAN /\ dead \in BOOLEAN

Allocating(d, e) == {t \in Tasks : pc[t] = "allocating" /\ TaskDir[t] = d /\ elv[t] = e}

(***************************************************************************)
(* rl->count and nr_rqs_elvpriv are the requests in use and those being    *)
(* allocated, through failed allocations and lost scheduler data too: the  *)
(* drains of bypass, elevator_switch and cleanup wait for them to be 0.    *)
(***************************************************************************)
CountsExact ==
  LET used(d, e) == live[d][e] + Cardinality(Allocating(d, e))
  IN  /\ \A d \in Dirs : count[d] = used(d, TRUE) + used(d, FALSE)
      /\ nr_rqs_elvpriv = used("sync", TRUE) + used("async", TRUE)

(* A direction is marked full exactly while it is at or above its limit,   *)
(* whatever overruns, failures and changes of the limit happened.          *)
FullExact == \A d \in Dirs : full[d] <=> count[d] >= nr_requests

(* The congestion flag has its hysteresis: set from the upper threshold    *)
(* on, clear below the lower one, also after the limit was changed.        *)
CongestionHysteresis ==
  \A d \in Dirs : /\ count[d] >= nr_congestion_on(nr_requests) => congested[d]
                  /\ count[d] < nr_congestion_off(nr_requests) => ~ congested[d]

(***************************************************************************)
(* No lost wake-up: while a task sleeps for a request of a direction, a    *)
(* request of that direction is in use, or a woken task has yet to try;    *)
(* each will wake the next sleeper.  ("otherwise we could theoretically    *)
(* lose wakeups", ioc_batching.)                                           *)
(***************************************************************************)
NoLostWakeup ==
  \A d \in Dirs : wait[d] # <<>> /\ ~ dying =>
    \/ count[d] > 0
    \/ \E t \in Tasks : TaskDir[t] = d /\ pc[t] \in {"woken", "retry"}

(***************************************************************************)
(* When the queue dies, every task leaves get_request: also one that went  *)
(* to sleep after blk_set_queue_dying had looked for sleepers, and those   *)
(* behind the one it woke ("the wakeup chaining is lost and we're left     *)
(* with hung waiters", __blk_drain_queue).                                 *)
(***************************************************************************)
DyingFreesSleepers == \A t \in Tasks : (dying /\ pc[t] # "out") ~> pc[t] = "out"
=============================================================================
