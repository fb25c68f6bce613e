------------------------------ MODULE Elevator ------------------------------
(***************************************************************************)
(* One request queue of the block layer running the greedy scheduler: a    *)
(* bio is merged into a queued request or given a request of its own       *)
(* (blk_queue_bio), the request waits on the scheduler's lists, is moved   *)
(* to the dispatch queue q->queue_head, handed to the driver, and ends     *)
(* (elevator.c, blk-core.c, blk.h, greedy-iosched.c).                      *)
(*                                                                         *)
(* Every operation runs under q->queue_lock and is one step, except the    *)
(* loops that run a scheduler callback or a merge per iteration: they take *)
(* one step per iteration and `pc' says who holds the lock meanwhile.      *)
(* blk_queue_bio drops the lock between its merge attempt, get_request and *)
(* the insertion, and blk_update_request runs without the lock: each part  *)
(* is a step, anything may happen in between.  The queue may be marked     *)
(* dying at any time; what its clean-up does then is in QueueLifecycle.    *)
(***************************************************************************)
EXTENDS GreedyLists, FiniteSets

CONSTANTS
  Requests,    \* struct request objects of the queue's request_list
  Bios,        \* bios that will be submitted, each once
  PlugBios,    \* those submitted by a task that holds a plug
  BypassBios,  \* those whose request may be allocated while the queue is bypassed
  BioPos,      \* bi_sector of each bio
  BioLen,      \* bio_sectors of each bio
  MaxNr,       \* the queue's limit on the sectors of a request
  MaxPlug,     \* BLK_MAX_REQUEST_COUNT
  Depth,       \* how many started requests the device takes
  MaxPC        \* bound: BLOCK_PC requests issued in one behaviour

ASSUME ElevatorAssumption ==
  /\ NULL \notin Requests /\ NULL \notin Nat       \* neither a request nor a hash key
  /\ PlugBios \subseteq Bios /\ BypassBios \subseteq Bios
  /\ BioPos \in [Bios -> Nat] /\ BioLen \in [Bios -> Nat \ {0}]
  /\ MaxNr \in Nat /\ MaxPlug \in Nat \ {0} /\ Depth \in Nat \ {0} /\ MaxPC \in Nat

VARIABLES
  higher, lower, prev_pos,   \* the greedy scheduler
  queue_head,                \* q->queue_head, the dispatch queue
  nr_sorted,                 \* q->nr_sorted
  last_merge, boundary_rq,   \* q->last_merge, q->boundary_rq: a request or NULL
  in_flight,                 \* q->in_flight (sync and async together)
  sector, nr, bios,          \* rq->__sector, rq->__data_len, the chain from rq->bio
  flags,                     \* rq->cmd_flags, and "PC" when cmd_type is BLOCK_PC
  hkey,                      \* the key the request is hashed under; NULL: not REQ_HASHED
  free,                      \* requests not allocated
  owned,                     \* allocated, lock dropped, not yet inserted or plugged
  plug,                      \* plug->list of the plugging task
  driver,                    \* dequeued and not yet freed: with the driver
  bstate,                    \* how far each bio has come, see TypeOK
  pc,                        \* the holder of queue_lock inside a loop
  run, delayed,              \* request_fn is due; the driver's delayed work is armed
  dying,                     \* QUEUE_FLAG_DYING
  npc                        \* BLOCK_PC requests issued so far

sched    == <<higher, lower, prev_pos>>
geometry == <<sector, nr, bios>>
places   == <<free, owned, plug, driver>>
driving  == <<boundary_rq, in_flight, run, delayed>>
vars == <<sched, queue_head, nr_sorted, last_merge, hkey, geometry, flags, places, driving,
          bstate, pc, dying, npc>>

At(op, rq, flag) == [op |-> op, rq |-> rq, flag |-> flag]
Idle == At("idle", NULL, FALSE)
Held == ToSet(higher) \union ToSet(lower)

rq_end_sector(rq) == sector[rq] + nr[rq]
rq_mergeable(rq)  == flags[rq] \intersect {"PC", "NOMERGE", "STARTED", "SOFTBARRIER"} = {}
IsFs(rq) == "PC" \notin flags[rq]
One(condition) == IF condition THEN 1 ELSE 0

(* Does q->in_flight count a request with flags f?                         *)
CountsPC(f) == "STARTED" \in f                  \* mutant: cmd_type is not looked at
blk_account_rq(f) == "STARTED" \in f /\ "PC" \notin f

(* The dispatch queue's list_add_tail, and a bio chain's two ends.         *)
AddHead(L, rq) == <<rq>> \o L                   \* mutant: list_add
list_add_tail(L, rq) == Append(L, rq)
bio_attempt_back_merge(bs, b) == Append(bs, b)
LinkedLast(bs, b) == Append(bs, b)              \* mutant: the front bio goes to biotail
bio_attempt_front_merge(bs, b) == <<b>> \o bs

Init ==
  /\ higher = <<>> /\ lower = <<>> /\ prev_pos = 0
  /\ queue_head = <<>> /\ nr_sorted = 0 /\ in_flight = 0
  /\ last_merge = NULL /\ boundary_rq = NULL
  /\ sector = [rq \in Requests |-> 0] /\ nr = [rq \in Requests |-> 0]
  /\ bios = [rq \in Requests |-> <<>>] /\ flags = [rq \in Requests |-> {}]
  /\ hkey = [rq \in Requests |-> NULL]
  /\ free = Requests /\ owned = {} /\ plug = <<>> /\ driver = {}
  /\ bstate = [b \in Bios |-> "fresh"]
  /\ pc = Idle /\ run = FALSE /\ delayed = FALSE /\ dying = FALSE /\ npc = 0

-----------------------------------------------------------------------------
(* The merge hash.                                                         *)
elv_rqhash_add(h, rq, end) == [h EXCEPT ![rq] = end]
NoRehash(h, rq, end) == h                       \* mutant: the old key stays
elv_rqhash_reposition(h, rq, end) == [h EXCEPT ![rq] = end]
elv_rqhash_del(h, rq) == [h EXCEPT ![rq] = NULL]

(***************************************************************************)
(* elv_rqhash_find(offset): some mergeable request that is hashed under    *)
(* `offset' and ends there, or NULL.  The walk also unhashes requests that *)
(* are no longer mergeable: some before the hit, all when there is none.   *)
(***************************************************************************)
elv_rqhash_find(offset, hit, unhashed) ==
  LET bucket == {rq \in Requests : hkey[rq] = offset}
      stale  == {rq \in bucket : ~ rq_mergeable(rq)}
      hits   == {rq \in bucket \ stale : rq_end_sector(rq) = offset}
  IN  \/ hit \in hits /\ unhashed \in SUBSET stale
      \/ hits = {} /\ hit = NULL /\ unhashed = stale

Unhash(S) == [rq \in Requests |-> IF rq \in S THEN NULL ELSE hkey[rq]]

(* elv_dispatch_add_tail and the merges forget a request that leaves.      *)
KeepLastMerge(rq) == last_merge                 \* mutant
ForgetLastMerge(rq) == IF last_merge = rq THEN NULL ELSE last_merge

-----------------------------------------------------------------------------
(***************************************************************************)
(* attempt_merge(q, req, next) (external): both mergeable, req ends where  *)
(* next starts, together within the queue's limits.  Start, end and total  *)
(* are arguments because the caller has just grown one of the two.         *)
(***************************************************************************)
MayJoin(req, next, end, start, total) ==
  /\ rq_mergeable(req) /\ rq_mergeable(next)
  /\ end = start /\ total <= MaxNr

SortedUnlessNoMerge(next) == {"SORTED", "NOMERGE"} \subseteq flags[next]   \* mutant
NextSorted(next) == "SORTED" \in flags[next]

(***************************************************************************)
(* The rest of attempt_merge: req takes over next's bios (s, n, bs is the  *)
(* united geometry), elv_merge_requests tells the scheduler, rehashes req  *)
(* and unhashes next, and next, whose bio chain is gone, is freed.         *)
(***************************************************************************)
elv_merge_requests(h, req, next, s, n, bs) ==
  LET rehashed == elv_rqhash_reposition(h, req, s + n)
  IN  /\ \/ /\ NextSorted(next)
            /\ higher' = Unlink(higher, next) /\ lower' = Unlink(lower, next)
            /\ hkey' = elv_rqhash_del(rehashed, next)
            /\ nr_sorted' = nr_sorted - 1
         \/ /\ ~ NextSorted(next)
            /\ hkey' = rehashed
            /\ UNCHANGED <<higher, lower, nr_sorted>>
      /\ last_merge' = req
      /\ sector' = [sector EXCEPT ![req] = s, ![next] = 0]
      /\ nr' = [nr EXCEPT ![req] = n, ![next] = 0]
      /\ bios' = [bios EXCEPT ![req] = bs, ![next] = <<>>]
      /\ flags' = [flags EXCEPT ![next] = {}]
      /\ free' = free \union {next}
      /\ UNCHANGED prev_pos

(* A bio joined rq and no request did: a back merge moves its hash key.    *)
elv_merged_request(h, rq, type, end) ==
  /\ hkey' = IF type = "back" THEN elv_rqhash_reposition(h, rq, end) ELSE h
  /\ last_merge' = rq

(* bio_attempt_back_merge, then attempt_back_merge or elv_merged_request.  *)
BackMerge(h, rq, b) ==
  LET n    == nr[rq] + BioLen[b]
      bs   == bio_attempt_back_merge(bios[rq], b)
      next == greedy_latter_request(higher, lower, rq)
      join == next # NULL /\ MayJoin(rq, next, sector[rq] + n, sector[next], n + nr[next])
  IN  \/ /\ join
         /\ elv_merge_requests(h, rq, next, sector[rq], n + nr[next], bs \o bios[next])
      \/ /\ ~ join
         /\ nr' = [nr EXCEPT ![rq] = n] /\ bios' = [bios EXCEPT ![rq] = bs]
         /\ elv_merged_request(h, rq, "back", sector[rq] + n)
         /\ UNCHANGED <<sched, nr_sorted, sector, flags, free>>

(* bio_attempt_front_merge, then attempt_front_merge or elv_merged_request:*)
(* the end of the request, its hash key, does not move.                    *)
FrontMerge(h, rq, b) ==
  LET n    == nr[rq] + BioLen[b]
      bs   == bio_attempt_front_merge(bios[rq], b)
      prev == greedy_former_request(higher, lower, rq)
      join == prev # NULL /\ MayJoin(prev, rq, rq_end_sector(prev), BioPos[b], nr[prev] + n)
  IN  \/ /\ join
         /\ elv_merge_requests(h, prev, rq, sector[prev], nr[prev] + n, bios[prev] \o bs)
      \/ /\ ~ join
         /\ sector' = [sector EXCEPT ![rq] = BioPos[b]]
         /\ nr' = [nr EXCEPT ![rq] = n] /\ bios' = [bios EXCEPT ![rq] = bs]
         /\ elv_merged_request(h, rq, "front", sector[rq] + nr[rq])
         /\ UNCHANGED <<sched, nr_sorted, flags, free>>

(* blk_try_merge (external).                                               *)
blk_try_merge(rq, b) ==
  IF ~ rq_mergeable(rq) THEN "none"
  ELSE IF rq_end_sector(rq) = BioPos[b] THEN "back"
  ELSE IF BioPos[b] + BioLen[b] = sector[rq] THEN "front" ELSE "none"

Fits(rq, b) == nr[rq] + BioLen[b] <= MaxNr

(* elv_merge: the one-hit cache q->last_merge first, then the hash.        *)
elv_merge(b, rq, type, unhashed) ==
  LET cached == IF last_merge = NULL THEN "none" ELSE blk_try_merge(last_merge, b)
  IN  \/ /\ cached # "none"
         /\ rq = last_merge /\ type = cached /\ unhashed = {}
      \/ /\ cached = "none"
         /\ elv_rqhash_find(BioPos[b], rq, unhashed)
         /\ type = IF rq = NULL THEN "none" ELSE "back"

-----------------------------------------------------------------------------
(* The plugging task runs one blk_queue_bio at a time.                     *)
PlugTaskFree ==
  /\ \A b \in PlugBios : bstate[b] \in {"fresh", "queued", "done"}
  /\ \A rq \in owned : Head(bios[rq]) \notin PlugBios

(***************************************************************************)
(* blk_attempt_plug_merge: without any lock, the plugging task tries the   *)
(* requests of its own plug, last first.  One that would grow too large is *)
(* marked NOMERGE (ll_back_merge_fn, external) and the walk goes on.       *)
(***************************************************************************)
blk_attempt_plug_merge(b) ==
  LET tried == {i \in 1..Len(plug) : blk_try_merge(plug[i], b) # "none"}
      hits  == {i \in tried : Fits(plug[i], b)}
      last  == IF hits = {} THEN 0 ELSE CHOOSE i \in hits : \A j \in hits : j <= i
      refused == {plug[i] : i \in {j \in tried : j > last}}
  IN  /\ b \in PlugBios /\ bstate[b] = "fresh" /\ pc.op = "idle" /\ PlugTaskFree
      /\ flags' = [rq \in Requests |->
                     IF rq \in refused THEN flags[rq] \union {"NOMERGE"} ELSE flags[rq]]
      /\ \/ /\ last = 0
            /\ bstate' = [bstate EXCEPT ![b] = "locking"]
            /\ UNCHANGED geometry
         \/ /\ last > 0
            /\ LET rq == plug[last]
                   back == blk_try_merge(rq, b) = "back"
               IN  /\ sector' = [sector EXCEPT ![rq] = IF back THEN @ ELSE BioPos[b]]
                   /\ nr' = [nr EXCEPT ![rq] = @ + BioLen[b]]
                   /\ bios' = [bios EXCEPT ![rq] =
                                 IF back THEN bio_attempt_back_merge(@, b)
                                 ELSE bio_attempt_front_merge(@, b)]
            /\ bstate' = [bstate EXCEPT ![b] = "queued"]
      /\ UNCHANGED <<sched, queue_head, nr_sorted, last_merge, hkey, places, driving, pc,
                     dying, npc>>

(***************************************************************************)
(* blk_queue_bio under the lock, up to get_request: the bio is merged, or  *)
(* its task goes on to get_request.  A request that would grow too large   *)
(* is marked NOMERGE and dropped from last_merge (ll_back_merge_fn).       *)
(***************************************************************************)
blk_queue_bio_merge(b) ==
  /\ pc.op = "idle"
  /\ bstate[b] = IF b \in PlugBios THEN "locking" ELSE "fresh"
  /\ \E rq \in Requests \union {NULL}, type \in {"back", "front", "none"},
        unhashed \in SUBSET Requests :
       /\ elv_merge(b, rq, type, unhashed)
       /\ \/ /\ type = "none"
             /\ hkey' = Unhash(unhashed)
             /\ bstate' = [bstate EXCEPT ![b] = "waiting"]
             /\ UNCHANGED <<sched, nr_sorted, last_merge, geometry, flags, free>>
          \/ /\ type # "none" /\ ~ Fits(rq, b)
             /\ hkey' = Unhash(unhashed)
             /\ flags' = [flags EXCEPT ![rq] = @ \union {"NOMERGE"}]
             /\ last_merge' = ForgetLastMerge(rq)
             /\ bstate' = [bstate EXCEPT ![b] = "waiting"]
             /\ UNCHANGED <<sched, nr_sorted, geometry, free>>
          \/ /\ type = "back" /\ Fits(rq, b)
             /\ BackMerge(Unhash(unhashed), rq, b)
             /\ bstate' = [bstate EXCEPT ![b] = "queued"]
          \/ /\ type = "front" /\ Fits(rq, b)
             /\ FrontMerge(Unhash(unhashed), rq, b)
             /\ bstate' = [bstate EXCEPT ![b] = "queued"]
  /\ UNCHANGED <<queue_head, owned, plug, driver, driving, pc, dying, npc>>

(* The request takes its place on the disk and its one bio from b.         *)
blk_rq_bio_prep(rq, b) == nr' = [nr EXCEPT ![rq] = BioLen[b]] /\ bios' = [bios EXCEPT ![rq] = <<b>>]
init_request_from_bio(rq, b) ==
  sector' = [sector EXCEPT ![rq] = BioPos[b]] /\ blk_rq_bio_prep(rq, b)

(* get_request and init_request_from_bio; sleeps while no request is free. *)
get_request(b, rq) ==
  /\ pc.op = "idle" /\ ~ dying /\ bstate[b] = "waiting" /\ rq \in free
  /\ free' = free \ {rq} /\ owned' = owned \union {rq}
  /\ \/ flags' = [flags EXCEPT ![rq] = {"ELVPRIV"}]
     \/ b \in BypassBios /\ flags' = [flags EXCEPT ![rq] = {}]
  /\ init_request_from_bio(rq, b)
  /\ bstate' = [bstate EXCEPT ![b] = "queued"]
  /\ UNCHANGED <<sched, queue_head, nr_sorted, last_merge, hkey, plug, driver, driving, pc,
                 dying, npc>>

(* get_request on a dying queue answers -ENODEV, and the bio ends with it. *)
get_request_fails(b) ==
  /\ pc.op = "idle" /\ dying /\ bstate[b] = "waiting"
  /\ bstate' = [bstate EXCEPT ![b] = "done"]
  /\ UNCHANGED <<sched, queue_head, nr_sorted, last_merge, hkey, geometry, flags, places,
                 driving, pc, dying, npc>>

(* blk_queue_bio with a plug: a full plug list is flushed first.           *)
add_to_plug(rq) ==
  /\ rq \in owned /\ Head(bios[rq]) \in PlugBios
  /\ Len(plug) < MaxPlug /\ pc.op = "idle"
  /\ owned' = owned \ {rq} /\ plug' = Append(plug, rq)
  /\ UNCHANGED <<sched, queue_head, nr_sorted, last_merge, hkey, geometry, flags, free, driver,
                 driving, bstate, pc, dying, npc>>

-----------------------------------------------------------------------------
(* __elv_add_request, case ELEVATOR_INSERT_SORT.                           *)
InsertSort(rq) ==
  /\ flags' = [flags EXCEPT ![rq] = @ \union {"SORTED"}]
  /\ nr_sorted' = nr_sorted + 1
  /\ hkey' = IF rq_mergeable(rq) THEN elv_rqhash_add(hkey, rq, rq_end_sector(rq)) ELSE hkey
  /\ last_merge' = IF rq_mergeable(rq) /\ last_merge = NULL THEN rq ELSE last_merge
  /\ \/ /\ prev_pos > sector[rq]
        /\ lower' = add_to_lower(lower, rq, sector) /\ higher' = higher
     \/ /\ prev_pos <= sector[rq]
        /\ higher' = add_to_higher(higher, rq, sector) /\ lower' = lower
  /\ UNCHANGED prev_pos

(* blk_queue_bio without a plug, under the lock again: add_acct_request    *)
(* and __blk_run_queue.  A request without REQ_ELVPRIV goes to the back of *)
(* the dispatch queue, behind a drained scheduler.                         *)
blk_queue_bio_insert(rq) ==
  /\ pc.op = "idle" /\ rq \in owned /\ Head(bios[rq]) \notin PlugBios
  /\ owned' = owned \ {rq}
  /\ \/ /\ "ELVPRIV" \in flags[rq]
        /\ InsertSort(rq)
        /\ run' = TRUE /\ pc' = pc
     \/ /\ "ELVPRIV" \notin flags[rq]
        /\ pc' = At("back", rq, FALSE)
        /\ UNCHANGED <<sched, nr_sorted, last_merge, hkey, flags, run>>
  /\ UNCHANGED <<queue_head, geometry, free, plug, driver, boundary_rq, in_flight, delayed,
                 bstate, dying, npc>>

(* A BLOCK_PC request has no sectors, and is not merged.                   *)
blk_rq_set_block_pc(f) == f \union {"PC"}

(* A BLOCK_PC request (blk_execute_rq_nowait, external) inserted at the    *)
(* front or at the back.                                                   *)
insert_pc(rq, where) ==
  /\ pc.op = "idle" /\ ~ dying /\ npc < MaxPC /\ rq \in free
  /\ free' = free \ {rq} /\ npc' = npc + 1
  /\ \/ /\ where = "FRONT"
        /\ flags' = [flags EXCEPT ![rq] = blk_rq_set_block_pc({"ELVPRIV", "SOFTBARRIER"})]
        /\ queue_head' = <<rq>> \o queue_head
        /\ run' = TRUE /\ pc' = pc
     \/ /\ where = "BACK"
        /\ flags' = [flags EXCEPT ![rq] = blk_rq_set_block_pc({"ELVPRIV"})]
        /\ pc' = At("back", rq, FALSE)
        /\ UNCHANGED <<queue_head, run>>
  /\ UNCHANGED <<sched, nr_sorted, last_merge, hkey, geometry, owned, plug, driver,
                 boundary_rq, in_flight, delayed, bstate, dying>>

Target == DispatchTarget(higher, lower, prev_pos, sector)

DispatchUncounted(rq) ==                        \* mutant: nr_sorted-- is lost
  /\ Held # {} /\ rq = Target
  /\ higher' = Unlink(higher, rq) /\ lower' = Unlink(lower, rq)
  /\ prev_pos' = rq_end_sector(rq)
  /\ last_merge' = ForgetLastMerge(rq)
  /\ hkey' = elv_rqhash_del(hkey, rq)
  /\ UNCHANGED nr_sorted

(* greedy_dispatch with elv_dispatch_add_tail, but for queue_head and      *)
(* boundary_rq.                                                            *)
Dispatch(rq) ==
  /\ Held # {} /\ rq = Target
  /\ higher' = Unlink(higher, rq) /\ lower' = Unlink(lower, rq)
  /\ prev_pos' = rq_end_sector(rq)
  /\ last_merge' = ForgetLastMerge(rq)
  /\ hkey' = elv_rqhash_del(hkey, rq)
  /\ nr_sorted' = nr_sorted - 1

(* __elv_add_request, case ELEVATOR_INSERT_BACK: one round of              *)
(* elv_drain_elevator, then, with nothing left, the insertion and the kick *)
(* of the queue.  flag: the caller is blk_flush_plug_list.                 *)
elv_drain_elevator ==
  /\ pc.op = "back"
  /\ \E rq \in Requests :
       /\ Dispatch(rq)
       /\ boundary_rq' = rq
       /\ queue_head' = list_add_tail(queue_head, rq)
  /\ UNCHANGED <<geometry, flags, places, in_flight, run, delayed, bstate, pc, dying, npc>>

insert_back ==
  /\ pc.op = "back" /\ Held = {}
  /\ flags' = [flags EXCEPT ![pc.rq] = @ \union {"SOFTBARRIER"}]
  /\ queue_head' = list_add_tail(queue_head, pc.rq)
  /\ run' = TRUE
  /\ pc' = IF pc.flag THEN At("flush", NULL, TRUE) ELSE Idle
  /\ UNCHANGED <<sched, nr_sorted, last_merge, hkey, geometry, places, boundary_rq, in_flight,
                 delayed, bstate, dying, npc>>

-----------------------------------------------------------------------------
(***************************************************************************)
(* blk_flush_plug_list: when the task finishes its plug, sleeps, or its    *)
(* list is full.  The lock is held until the list is empty; the requests   *)
(* go in by ascending sector (list_sort), each with INSERT_SORT_MERGE.     *)
(***************************************************************************)
blk_flush_plug_list ==
  /\ pc.op = "idle" /\ plug # <<>>
  /\ \A b \in PlugBios : bstate[b] # "locking"
  /\ pc' = At("flush", NULL, FALSE)
  /\ UNCHANGED <<sched, queue_head, nr_sorted, last_merge, hkey, geometry, flags, places,
                 driving, bstate, dying, npc>>

plug_rq_cmp(a, b) == sector[a] <= sector[b]     \* one queue: by sector

(* The next request of the list, up to the one-hit try of                  *)
(* elv_attempt_insert_merge.                                               *)
IsNext(i) == \A j \in 1..Len(plug) : plug_rq_cmp(plug[i], plug[j])
flush_next(i) ==
  LET rq   == plug[i]
      join == /\ last_merge # NULL
              /\ MayJoin(last_merge, rq, rq_end_sector(last_merge), sector[rq],
                         nr[last_merge] + nr[rq])
  IN  /\ pc.op = "flush" /\ ~ dying /\ IsNext(i)
      /\ plug' = RemoveAt(plug, i)
      /\ \/ /\ "ELVPRIV" \notin flags[rq]
            /\ pc' = At("back", rq, TRUE)
            /\ UNCHANGED <<sched, nr_sorted, last_merge, hkey, geometry, flags, free>>
         \/ /\ "ELVPRIV" \in flags[rq] /\ join
            /\ elv_merge_requests(hkey, last_merge, rq, sector[last_merge],
                                  nr[last_merge] + nr[rq], bios[last_merge] \o bios[rq])
            /\ pc' = At("flush", NULL, FALSE)
         \/ /\ "ELVPRIV" \in flags[rq] /\ ~ join
            /\ pc' = At("merge", rq, FALSE)
            /\ UNCHANGED <<sched, nr_sorted, last_merge, hkey, geometry, flags, free>>
      /\ UNCHANGED <<queue_head, owned, driver, driving, bstate, dying, npc>>

(* The queue is dying: the next request is ended with -ENODEV and freed.   *)
flush_ends_next(i) ==
  LET rq == plug[i]
  IN  /\ pc.op = "flush" /\ dying /\ IsNext(i)
      /\ plug' = RemoveAt(plug, i)
      /\ pc' = At("flush", NULL, FALSE)
      /\ flags' = [flags EXCEPT ![rq] = {}]
      /\ sector' = [sector EXCEPT ![rq] = 0] /\ nr' = [nr EXCEPT ![rq] = 0]
      /\ bios' = [bios EXCEPT ![rq] = <<>>]
      /\ bstate' = [b \in Bios |-> IF b \in ToSet(bios[rq]) THEN "done" ELSE bstate[b]]
      /\ free' = free \union {rq}
      /\ UNCHANGED <<sched, queue_head, nr_sorted, last_merge, hkey, owned, driver, driving,
                     dying, npc>>

(* A round of elv_attempt_insert_merge: pc.rq is joined to the request the *)
(* hash finds, which is then tried in turn; or the loop ends, and pc.rq is *)
(* inserted unless a round merged (flag).                                  *)
elv_attempt_insert_merge ==
  /\ pc.op = "merge"
  /\ \E hit \in Requests \union {NULL}, unhashed \in SUBSET Requests :
       LET rq   == pc.rq
           join == /\ hit # NULL
                   /\ MayJoin(hit, rq, rq_end_sector(hit), sector[rq], nr[hit] + nr[rq])
       IN  /\ elv_rqhash_find(sector[rq], hit, unhashed)
           /\ \/ /\ join
                 /\ elv_merge_requests(Unhash(unhashed), hit, rq, sector[hit],
                                       nr[hit] + nr[rq], bios[hit] \o bios[rq])
                 /\ pc' = At("merge", hit, TRUE)
              \/ /\ ~ join /\ pc.flag
                 /\ hkey' = Unhash(unhashed)
                 /\ pc' = At("flush", NULL, FALSE)
                 /\ UNCHANGED <<sched, nr_sorted, last_merge, geometry, flags, free>>
              \/ /\ ~ join /\ ~ pc.flag
                 /\ hkey' = Unhash(unhashed)
                 /\ pc' = At("insert", rq, FALSE)
                 /\ UNCHANGED <<sched, nr_sorted, last_merge, geometry, flags, free>>
  /\ UNCHANGED <<queue_head, owned, plug, driver, driving, bstate, dying, npc>>

flush_insert ==
  /\ pc.op = "insert"
  /\ InsertSort(pc.rq)
  /\ pc' = At("flush", NULL, FALSE)
  /\ UNCHANGED <<queue_head, geometry, places, driving, bstate, dying, npc>>

FlushWithoutRun ==                              \* mutant: queue_unplugged is not called
  /\ pc.op = "flush" /\ plug = <<>>
  /\ pc' = Idle
  /\ UNCHANGED <<sched, queue_head, nr_sorted, last_merge, hkey, geometry, flags, places,
                 driving, bstate, dying, npc>>

(* queue_unplugged.                                                        *)
flush_end ==
  /\ pc.op = "flush" /\ plug = <<>>
  /\ pc' = Idle /\ run' = TRUE
  /\ UNCHANGED <<sched, queue_head, nr_sorted, last_merge, hkey, geometry, flags, places,
                 boundary_rq, in_flight, delayed, bstate, dying, npc>>

-----------------------------------------------------------------------------
(***************************************************************************)
(* The driver's request_fn (external) calls blk_peek_request and           *)
(* blk_start_request in a loop: __blk_run_queue has called it (run), and   *)
(* the lock is free, or the flush has just kicked the queue.               *)
(***************************************************************************)
CanRun == run /\ (pc.op = "idle" \/ (pc.op = "flush" /\ pc.flag))

(* blk_peek_request: __elv_next_request returns the head of the dispatch   *)
(* queue, refilled by one dispatch when it is empty; the request is marked *)
(* REQ_STARTED (in the callers' flags') and the boundary is passed.        *)
blk_peek_request(rq) ==
  \/ /\ queue_head # <<>> /\ rq = Head(queue_head)
     /\ boundary_rq' = IF boundary_rq = rq THEN NULL ELSE boundary_rq
     /\ UNCHANGED <<sched, nr_sorted, last_merge, hkey>>
  \/ /\ queue_head = <<>>
     /\ Dispatch(rq)
     /\ boundary_rq' = NULL

RestOfQueue == IF queue_head = <<>> THEN <<>> ELSE Tail(queue_head)

(* blk_fetch_request: peek, blk_start_request.                             *)
blk_fetch_request(rq) ==
  /\ CanRun /\ Cardinality(driver) < Depth
  /\ blk_peek_request(rq)
  /\ flags' = [flags EXCEPT ![rq] = @ \union {"STARTED"}]
  /\ queue_head' = RestOfQueue
  /\ driver' = driver \union {rq}
  /\ in_flight' = in_flight + One(blk_account_rq(flags'[rq]))
  /\ UNCHANGED <<geometry, free, owned, plug, run, delayed, bstate, pc, dying, npc>>

(* The device is full, or prep_rq_fn says BLKPREP_DEFER and the driver     *)
(* arms blk_delay_queue: the request stays first, marked started.          *)
peek_and_leave(rq) ==
  /\ CanRun
  /\ blk_peek_request(rq)
  /\ flags' = [flags EXCEPT ![rq] = @ \union {"STARTED"}]
  /\ queue_head' = <<rq>> \o RestOfQueue
  /\ run' = FALSE
  /\ delayed' = (delayed \/ Cardinality(driver) < Depth)
  /\ UNCHANGED <<geometry, places, in_flight, bstate, pc, dying, npc>>

(* prep_rq_fn says BLKPREP_KILL: started, ended with -EIO and freed.       *)
peek_and_kill(rq) ==
  /\ CanRun
  /\ blk_peek_request(rq)
  /\ queue_head' = RestOfQueue
  /\ flags' = [flags EXCEPT ![rq] = {}]
  /\ sector' = [sector EXCEPT ![rq] = 0] /\ nr' = [nr EXCEPT ![rq] = 0]
  /\ bios' = [bios EXCEPT ![rq] = <<>>]
  /\ bstate' = [b \in Bios |-> IF b \in ToSet(bios[rq]) THEN "done" ELSE bstate[b]]
  /\ free' = free \union {rq}
  /\ UNCHANGED <<owned, plug, driver, in_flight, run, delayed, pc, dying, npc>>

peek_nothing ==
  /\ CanRun /\ queue_head = <<>> /\ Held = {}
  /\ run' = FALSE
  /\ UNCHANGED <<sched, queue_head, nr_sorted, last_merge, hkey, geometry, flags, places,
                 boundary_rq, in_flight, delayed, bstate, pc, dying, npc>>

blk_delay_work ==
  /\ delayed /\ pc.op = "idle"
  /\ delayed' = FALSE /\ run' = TRUE
  /\ UNCHANGED <<sched, queue_head, nr_sorted, last_merge, hkey, geometry, flags, places,
                 boundary_rq, in_flight, bstate, pc, dying, npc>>

(* elv_requeue_request: no longer started, in front of the others.         *)
elv_requeue_request(rq) ==
  /\ in_flight' = in_flight - One(blk_account_rq(flags[rq]))
  /\ boundary_rq' = IF "SOFTBARRIER" \in flags[rq] /\ IsFs(rq) THEN rq ELSE boundary_rq
  /\ flags' = [flags EXCEPT ![rq] = (@ \ {"STARTED"}) \union {"SOFTBARRIER"}]
  /\ queue_head' = <<rq>> \o queue_head

(* blk_requeue_request by the driver, which then arms its delayed work.    *)
blk_requeue_request(rq) ==
  /\ pc.op = "idle" /\ rq \in driver /\ (IsFs(rq) => bios[rq] # <<>>)
  /\ driver' = driver \ {rq}
  /\ elv_requeue_request(rq)
  /\ delayed' = TRUE
  /\ UNCHANGED <<sched, nr_sorted, last_merge, hkey, geometry, free, owned, plug, run, bstate,
                 pc, dying, npc>>

(* An iteration of the loop of blk_update_request, without the lock: the   *)
(* first bio of the request has ended.                                     *)
blk_update_request(rq) ==
  LET b == Head(bios[rq])
  IN  /\ rq \in driver /\ bios[rq] # <<>>
      /\ bstate' = [bstate EXCEPT ![b] = "done"]
      /\ bios' = [bios EXCEPT ![rq] = Tail(@)]
      /\ nr' = [nr EXCEPT ![rq] = @ - BioLen[b]]
      /\ sector' = [sector EXCEPT ![rq] = IF Len(bios[rq]) = 1 THEN @ ELSE @ + BioLen[b]]
      /\ UNCHANGED <<sched, queue_head, nr_sorted, last_merge, hkey, flags, places, driving,
                     pc, dying, npc>>

(* The request leaves in_flight as it is released.                         *)
elv_completed_request(rq) == in_flight' = in_flight - One(blk_account_rq(flags[rq]))
__blk_put_request(rq) ==
  /\ elv_completed_request(rq)
  /\ free' = free \union {rq} /\ flags' = [flags EXCEPT ![rq] = {}]

(* blk_finish_request and __blk_put_request; the driver runs the queue on. *)
blk_finish_request(rq) ==
  /\ pc.op = "idle" /\ rq \in driver /\ bios[rq] = <<>>
  /\ driver' = driver \ {rq} /\ __blk_put_request(rq)
  /\ sector' = [sector EXCEPT ![rq] = 0]
  /\ run' = TRUE
  /\ UNCHANGED <<sched, queue_head, nr_sorted, last_merge, hkey, nr, bios, owned, plug,
                 boundary_rq, delayed, bstate, pc, dying, npc>>

(* blk_end_bidi_request: the bios first, without the lock; once none is    *)
(* left, the request under it.                                             *)
blk_end_bidi_request(rq) == blk_update_request(rq) \/ blk_finish_request(rq)

(* A driver whose device is gone marks the queue, without the lock.        *)
blk_set_queue_dying ==
  /\ ~ dying /\ dying' = TRUE
  /\ UNCHANGED <<sched, queue_head, nr_sorted, last_merge, hkey, geometry, flags, places,
                 driving, bstate, pc, npc>>

-----------------------------------------------------------------------------
Submission ==
  \E b \in Bios : \/ blk_attempt_plug_merge(b)
                  \/ blk_queue_bio_merge(b)

LockHolder ==
  \/ elv_drain_elevator \/ insert_back
  \/ \E i \in 1..Len(plug) : flush_next(i) \/ flush_ends_next(i)
  \/ elv_attempt_insert_merge \/ flush_insert \/ flush_end

Next ==
  \/ Submission
  \/ \E b \in Bios, rq \in Requests : get_request(b, rq)
  \/ \E b \in Bios : get_request_fails(b)
  \/ \E rq \in Requests : add_to_plug(rq) \/ blk_queue_bio_insert(rq)
  \/ \E rq \in Requests, where \in {"FRONT", "BACK"} : insert_pc(rq, where)
  \/ blk_flush_plug_list
  \/ LockHolder
  \/ \E rq \in Requests : \/ blk_fetch_request(rq) \/ peek_and_leave(rq)
                          \/ peek_and_kill(rq)
  \/ peek_nothing
  \/ blk_delay_work
  \/ \E rq \in Requests : blk_requeue_request(rq) \/ blk_end_bidi_request(rq)
  \/ blk_set_queue_dying

Spec == Init /\ [][Next]_vars

(***************************************************************************)
(* Fairness.  A task that has begun to submit goes on (also in get_request,*)
(* once a request is free or the queue is dying: DyingFreesSleepers of     *)
(* RequestList), a plug is flushed when its task sleeps or finishes it, a  *)
(* lock holder leaves its loop, armed work runs.  The device is assumed    *)
(* not to defer, requeue or sit on a request for ever.                     *)
(***************************************************************************)
Fairness ==
  /\ \A b \in Bios : /\ WF_vars(bstate[b] = "locking" /\ blk_queue_bio_merge(b))
                     /\ WF_vars(\/ get_request_fails(b)
                                \/ \E rq \in Requests : get_request(b, rq))
  /\ \A rq \in Requests : WF_vars(add_to_plug(rq) \/ blk_queue_bio_insert(rq))
  /\ WF_vars(blk_flush_plug_list) /\ WF_vars(LockHolder) /\ WF_vars(blk_delay_work)
  /\ SF_vars(\E rq \in Requests : blk_fetch_request(rq))
  /\ \A rq \in Requests : SF_vars(blk_update_request(rq)) /\ SF_vars(blk_finish_request(rq))

FairSpec == Spec /\ Fairness

-----------------------------------------------------------------------------
(* Type invariant.  A bio is not submitted, past its plug, in get_request, *)
(* part of a request, or ended.                                            *)
TypeOK ==
  /\ higher \in Seq(Requests) /\ lower \in Seq(Requests) /\ prev_pos \in Nat
  /\ queue_head \in Seq(Requests) /\ plug \in Seq(Requests)
  /\ nr_sorted \in Nat /\ in_flight \in Nat /\ npc \in 0..MaxPC
  /\ last_merge \in Requests \union {NULL} /\ boundary_rq \in Requests \union {NULL}
  /\ sector \in [Requests -> Nat] /\ nr \in [Requests -> Nat]
  /\ bios \in [Requests -> Seq(Bios)]
  /\ flags \in [Requests -> SUBSET {"PC", "ELVPRIV", "SORTED", "STARTED", "SOFTBARRIER",
                                    "NOMERGE"}]
  /\ hkey \in [Requests -> Nat \union {NULL}]
  /\ free \subseteq Requests /\ owned \subseteq Requests /\ driver \subseteq Requests
  /\ bstate \in [Bios -> {"fresh", "locking", "waiting", "queued", "done"}]
  /\ pc \in [op : {"idle", "back", "flush", "merge", "insert"},
             rq : Requests \union {NULL}, flag : BOOLEAN]
  /\ run \in BOOLEAN /\ delayed \in BOOLEAN /\ dying \in BOOLEAN

(* The request a loop under the lock carries, if it is on no list.         *)
InHand == IF pc.op \in {"back", "insert"} \/ (pc.op = "merge" /\ ~ pc.flag)
          THEN {pc.rq} ELSE {}

Homes == <<free, owned, driver, InHand, ToSet(higher), ToSet(lower), ToSet(queue_head),
           ToSet(plug)>>

(***************************************************************************)
(* Every struct request is in exactly one place at any time: free, in the  *)
(* hands of one task, on one list (once), or with the driver.  None leaks, *)
(* none is freed or started while linked (the BUG_ONs of                   *)
(* __blk_put_request, blk_dequeue_request and blk_finish_request).         *)
(***************************************************************************)
OneHome ==
  /\ UNION {Homes[i] : i \in 1..8} = Requests
  /\ \A i, j \in 1..8 : i # j => Homes[i] \intersect Homes[j] = {}
  /\ \A L \in {higher, lower, queue_head, plug} : NoDuplicates(L)

(* q->nr_sorted is the number of requests the scheduler holds:             *)
(* elv_drain_elevator's "forced dispatching is broken" never shows.        *)
SortedCount == nr_sorted = Len(higher) + Len(lower)

(***************************************************************************)
(* The merge hash holds only requests the scheduler holds, each under its  *)
(* present end sector, whatever merges moved that end; and every request   *)
(* the scheduler holds that may still be merged is in it.  (A dispatched,  *)
(* started or freed request in the hash is a BUG_ON or a merge into I/O    *)
(* already with the device; a stale key is a lost merge.)                  *)
(***************************************************************************)
HashExact ==
  /\ \A rq \in Requests : hkey[rq] # NULL => rq \in Held /\ hkey[rq] = rq_end_sector(rq)
  /\ \A rq \in Held : rq_mergeable(rq) => hkey[rq] # NULL

(* The two cached pointers of the queue never point to a request that was  *)
(* freed or started: last_merge is with the scheduler, the boundary is     *)
(* still in the dispatch queue.                                            *)
CachedPointersLive ==
  /\ last_merge # NULL => last_merge \in Held
  /\ boundary_rq # NULL => boundary_rq \in ToSet(queue_head)

(* q->in_flight counts the fs requests the driver has; requeue, kill and   *)
(* completion each take back exactly what the start added.                 *)
InFlightExact == in_flight = Cardinality({rq \in driver : IsFs(rq)})

(***************************************************************************)
(* Every bio that was given to a request and has not ended is in exactly   *)
(* one request, once, and the bios of a request cover its sectors in       *)
(* order, without gap or overlap, from blk_rq_pos to rq_end_sector: any    *)
(* series of front, back, request and plug merges, partial completions and *)
(* requeues keeps the chain and the geometry together.                     *)
(***************************************************************************)
BiosTile ==
  /\ \A rq \in Requests : LET bs == bios[rq] IN
       /\ NoDuplicates(bs)
       /\ bs # <<>> => /\ BioPos[Head(bs)] = sector[rq]
                       /\ BioPos[Last(bs)] + BioLen[Last(bs)] = rq_end_sector(rq)
       /\ \A i \in 1..Len(bs) - 1 : BioPos[bs[i]] + BioLen[bs[i]] = BioPos[bs[i + 1]]
  /\ \A b \in Bios : bstate[b] = "queued" <=>
       \E rq \in Requests : /\ b \in ToSet(bios[rq])
                            /\ \A other \in Requests \ {rq} : b \notin ToSet(bios[other])

(***************************************************************************)
(* "a request that has been delayed should not be passed by new incoming   *)
(* requests" (blk_peek_request): once the driver has peeked at a request,  *)
(* no fs request gets in front of it in the dispatch queue, except one the *)
(* driver itself puts back.                                                *)
(***************************************************************************)
StartedNotPassed ==
  [][ \A rq, new \in ToSet(queue_head') :
        (/\ rq \in ToSet(queue_head) /\ "STARTED" \in flags[rq]
         /\ Before(queue_head', new, rq) /\ ~ Before(queue_head, new, rq))
        => "PC" \in flags'[new] \/ new \in driver ]_vars

(***************************************************************************)
(* Every bio that is submitted ends: no request is left behind on a list   *)
(* with no run of the queue due (the hang the comment in                   *)
(* __elv_add_request warns of), no task waits for ever in get_request      *)
(* while its own plug holds the requests.                                  *)
(***************************************************************************)
EveryBioEnds == \A b \in Bios : bstate[b] # "fresh" ~> bstate[b] = "done"
=============================================================================
