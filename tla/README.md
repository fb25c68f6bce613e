# A verification project for 8220-pub

The repository holds the course work of a kernel-programming class: a modified
Linux 4.x block layer with an I/O scheduler of its own (`scheduler/`), a
driver for the Kyouko3 graphics card (`lab3`, `lab4`) and a system call that
posts signals and reaps zombies (`lab5` to `lab8`). This directory holds TLA+
specifications of its core, TLC configurations that check them on small
instances, and TLAPS proofs. The block layer with the greedy scheduler has most
of it: it is the largest part, the one where most parts of the code meet, and
the one in which a mistake corrupts data or hangs the machine. The driver and
the system call have a model each.

## 1. Inventory

### The block layer (`scheduler/kernel`)

| Part | State | Operations | What makes it correct |
|---|---|---|---|
| Greedy scheduler (`greedy-iosched.c`) | lists `higher`, `lower`; `prev_pos`, the end of the last request dispatched | init, add, dispatch, merged, former/latter, exit | a request is linked once; "nothing to dispatch" is only said when both lists are empty (or a `BUG_ON` fires at exit); nothing that is queued is lost |
| Elevator core (`elevator.c`, `blk.h`) | dispatch queue, merge hash, `last_merge`, `boundary_rq`, `nr_sorted`, `in_flight` | merge, insert (sort, sort-merge, back, front, requeue), drain, dispatch, requeue, complete; switch | hash and caches name only live, mergeable requests under their present geometry; the counters are exact; a started request is not passed |
| Submission (`blk-core.c`) | the plug of a task; bios on the way | `blk_queue_bio`, plug merge, plug flush, get_request | a bio is in exactly one request, in order; a submitted bio ends |
| Driving and completion (`blk-core.c`) | requests with the driver; delayed work | peek, start, requeue, update, finish | each start is taken back once; a request is freed once, unlinked and unhashed |
| Request lists (`blk-core.c`, `blkdev.h`) | `count`, `starved`, full and congested flags, wait queues, batching | `__get_request`, `get_request`, `freed_request`, resizing | no lost wake-up; the limit and its 50% overrun are kept; flags match counts |
| Queue life cycle (`blk-core.c`, `elevator.c`) | bypass depth, dying, dead, the scheduler in use | bypass start/end, drain, cleanup, `elevator_switch` | no scheduler is freed under a request; the drain ends; nothing enters a dead queue |
| Recorder (`blk-core.c`, `req_track.c`, `tester.c`) | `requests_seen`, `stored_reqs`, `serv_recording`, per-request times | recording at completion, three system calls | at most `REQS_RECORDED` records, each complete when it is read |
| Runtime power management | `rpm_status`, `nr_pending` | suspend, resume, peek filter | no request is started on a suspended device |

The parts meet in the request queue. A task calls `blk_queue_bio`, which calls
the elevator core, which calls the scheduler, all under `queue_lock`; the
driver's `request_fn` is called under the same lock and pulls requests out;
completions come from the driver, partly without the lock. `blk_queue_bio`
drops the lock (and may sleep) between the merge attempt, the allocation and
the insertion. A plug is private to its task and is filled without any lock.

### The other parts

* **Kyouko3 driver** (`lab4/mymod.c`): a command FIFO (`head`, `tail_cache`,
  1024 entries), eight DMA buffers in a ring (`dma_fill`, `dma_drain`,
  `isFull`), ioctls and an interrupt handler that share them.
* **smunch** (`lab8/kernel_smunch_3_*.c`): three versions of a system call that
  sets the pending signals of a single-threaded process, wakes it, and releases
  it when it is a zombie; it races with the exiting process and its parent.
* **Workloads, testers, recorded data**: no state worth a model.

`PROJECT.json` lists the hazards, each at its line, with the property that
covers it or the reason why none does.

## 2. Modules

| Module | Models | Role |
|---|---|---|
| `GreedyLists` | list insertion, dispatch choice, neighbours of `greedy-iosched.c` | operators, shared |
| `GreedyIosched` | the scheduler as the elevator core drives it | specification |
| `IoschedPool` | what `elevator.c` relies on in any scheduler | abstract specification |
| `Elevator` | one request queue: submission, plug, hash, scheduler, dispatch queue, driver, completion | specification, built on `GreedyLists` |
| `RequestList` | the request list of a queue: limits, sleepers, wake-ups, dying | specification |
| `QueueLifecycle` | a queue from allocation to clean-up: bypass, drain, schedulers as modules, `elevator_switch` | specification, checked as it stands |
| `RuntimePm` | suspend and resume of a device against the requests of its queue | specification, checked as it stands |
| `ReqTrack` | the recorder, its system calls and the tester | specification, checked as it stands |
| `CommandQueue` | what the command FIFO of the graphics card promises | abstract specification |
| `KyoukoFifo` | the command ring and the ioctls that use it (`lab3`, and the same code in `lab4`) | actions, extended by `KyoukoDma` |
| `KyoukoDma` | the driver with DMA buffers, the interrupt handler and the card (`lab4`) | specification; implements `CommandQueue` |
| `Smunch` | the three versions of the system call, the task, its parent | specification, checked as it stands |
| `Lists` | no entry twice, one entry before another | vocabulary of the properties |
| `ListLemmas` | what inserting, removing, appending and searching do to the entries of a list and their order | lemmas |
| `GreedyIosched_proofs`, `Elevator_proofs`, `RequestList_proofs`, `QueueLifecycle_proofs`, `RuntimePm_proofs`, `KyoukoDma_proofs` | theorems about the specification each is named after | proofs |
| `SystemCalls_proofs` | theorems about `ReqTrack` and `Smunch` | proofs |
| `MCGreedyIosched`, `MCElevator`, `MCRequestList`, `MCKyouko` | instances for TLC | model checking |

### GreedyLists and GreedyIosched

The two `list_head`s are sequences of requests. `list_for_each` with a `break`
leaves the cursor on the first entry that satisfies the condition, or on the
head; `list_add` links after the cursor. `HigherSlot`/`LowerSlot` are that
cursor (0 is the head) and `add_to_higher`/`add_to_lower` insert after it. The
distances of `greedy_dispatch` are `sector_t` differences stored in `int`:
`ToInt` wraps them to `-IntHalf .. IntHalf-1`, with `IntHalf` a constant
(2^31 in the code, 2 in the model, so that wrapping happens on a small disk).

`GreedyIosched` has one action per entry of the scheduler's operation table, and
`bio_back_merge`/`bio_front_merge` for the growth of a queued request by the
block layer, which the scheduler is not told about. `greedy_dispatch` is split
by its return value. `greedy_merged_requests` may merge only list neighbours
that touch, which is all `attempt_back_merge` and `attempt_front_merge` ask for;
the merges of whole plugged requests reach the scheduler only in `Elevator`,
where they do not unlink anything. `drained` is a history variable: it records
that the last dispatch answered 0, which is when `elevator_exit` is called.

### IoschedPool

A set of requests with Start, Add, Dispatch, DispatchNothing, Merge, Stop.
`GreedyIosched` implements it under `pool <- Held, live <- gd = "live"`. The
content is that nothing is lost or duplicated by list surgery, that a dispatch
reports "nothing" only when the pool is empty, and that teardown happens only
then.

### Elevator

Each step is one critical section of `queue_lock`, or one iteration of a loop
that does a scheduler call or a merge per iteration; `pc` then says who is
inside the loop and keeps other lock holders out. Correspondence:

| Code | Action |
|---|---|
| `blk_attempt_plug_merge` | `blk_attempt_plug_merge` (no lock) |
| `blk_queue_bio` up to the merge | `blk_queue_bio_merge` (`elv_merge`, `bio_attempt_*_merge`, `attempt_*_merge`, `elv_merged_request`) |
| `get_request`, `init_request_from_bio` | `get_request`, or `get_request_fails` on a dying queue: the bio ends at once |
| `blk_queue_bio`, the end | `add_to_plug` or `blk_queue_bio_insert` |
| `__elv_add_request` | `InsertSort`, `insert_back` after `elv_drain_elevator`, `insert_pc`, `blk_requeue_request` |
| `blk_flush_plug_list` | `blk_flush_plug_list`, `flush_next`, `elv_attempt_insert_merge`, `flush_insert`, `flush_end`; `flush_ends_next` ends a request of a dying queue with an error |
| `blk_set_queue_dying` | the same; it takes no lock, so it may come at any point |
| `blk_peek_request` and its outcomes | `blk_fetch_request` (OK and started), `peek_and_leave` (DEFER, or the device is full), `peek_and_kill` (KILL), `peek_nothing` |
| `blk_delay_work`, `blk_requeue_request`, `blk_update_request`, `blk_finish_request` | actions of the same names |

Data kept: sectors, lengths, bio chains, the flags `ELVPRIV`, `SORTED`,
`STARTED`, `SOFTBARRIER`, `NOMERGE` and the type BLOCK_PC (`"PC"`), the hash key
of every request. Data left out: time, priorities, segments (only the sector
limit `MaxNr`), read against write, statistics, tracing. `blk_update_request`
completes whole bios, one per step. External, modelled from their use:
`attempt_merge`, `blk_try_merge`, the size limits of `ll_*_merge_fn`
(blk-merge.c), the driver's `request_fn`.

A bio of `BypassBios` may get a request without `REQ_ELVPRIV`, as when the queue
is bypassed at that moment or the scheduler's data could not be allocated; such
a request goes to the back of the dispatch queue after the scheduler is drained.

A dying queue gives out no request and takes none from a plug, but what is on its
lists is still served. The bypass mode and the NOMERGES flag that
`blk_cleanup_queue` adds, and its drain, are in `QueueLifecycle`; here the flag is
set as a driver sets it when its device is gone.

### RequestList

Tasks call `get_request` in one of two directions (`"sync"`, `"async"`). A step
is one critical section of `queue_lock`, with three exceptions that matter:
between its last look at the dying flag and the wait queue a task still holds
the lock (`pc` is `"queueing"`) while `blk_set_queue_dying`, which takes no lock,
may run; the allocation itself runs unlocked (`"allocating"`); and a woken task
makes itself a batcher before it takes the lock (`"woken"`, then `"retry"`).

| Code | Action |
|---|---|
| `__get_request` up to the unlock | `get_request_granted`, or `get_request_refused` by the full flag or by the 3/2 limit |
| `get_request`, the wait | `get_request_sleep`, `get_request_wake`, then granted, refused or `get_request_dying` |
| `__get_request` after the unlock | `allocate` (with or without the scheduler's data), `allocate_fails` |
| `__blk_put_request`, `freed_request`, `__freed_request` | `blk_put_request` |
| `blk_update_nr_requests`, `blk_set_queue_dying`, the end of `__blk_drain_queue` | actions of the same names |

`BatchTimeOver` is the passing of `BLK_BATCH_TIME`: the time itself is left
out, a batch is in time or not. `wake_up` of an exclusive wait queue is external:
it takes the first sleeper off the queue. `live` counts the requests handed out;
it is the reference the counters are compared with. The thresholds are computed
as `blk_queue_congestion_threshold` does.

### ReqTrack

Here the step is a single load or store of a global, because nothing orders them:
`blk_finish_request` tests (`finish_check`), stores (`finish_store`) and counts
(`finish_count`) under the lock of its own queue, and the system calls take no
lock. The increment may add to the index loaded for the store or to a fresh load;
the compiler may do either. A record is modelled by the number of the
`start_req_track` after which it was stored. The tester's `reqs` is a `long` that
nobody initialises and of which the system call writes the lower half; what the
upper half holds is any member of the constant `HighWords`. Outside the model:
the order in which the processor makes the stores visible, records that are
copied while they are half written, and the sums, which nothing reads.

### QueueLifecycle

Three threads beside the submitters and the driver: the owner of the queue
(`blk_init_queue_node`, later `blk_cleanup_queue`; `owner` says where it is), a
user who switches the scheduler (`switch`), and the worker of `delay_work`.
Steps under `queue_lock` are atomic. A `request_fn` may drop the lock, so an
invocation lasts from `RunEnter` to `RunExit`; `fnrun` is the set of those inside
and `request_fn_active` its size. A request is `"free"`, `"owned"` (between
`get_request` and insertion), on a scheduler's lists (`"sched"`), on the dispatch
queue (`"head"`) or with the driver; `priv` names the scheduler whose data it
carries. Schedulers are instances of types, and types are modules with a
reference count that may be loaded and unloaded. `work` is `delay_work`: armed,
or begun by a worker that has not got the lock yet, or both; `blk_stop_queue`
takes back only what is armed, `blk_sync_queue` also waits for what has begun.
Requests are allocated as soon as the scheduler is there (`"inited"`), before
`blk_register_queue` ends the initial bypass. `__elv_add_request` inserts any
request through the scheduler, at the front or at the back of the dispatch
queue, as BLOCK_PC requests with scheduler data are. When the queue is dying the
flush of a plug ends a request that was not inserted yet, which is the second
case of `__blk_put_request`.

| Code | Action |
|---|---|
| `blk_alloc_queue_node`, `blk_init_allocated_queue` | `blk_alloc_queue_node`, `InitQueue`, `elevator_init`, each with its failures |
| `__get_request`, `__elv_add_request`, `__elv_next_request`, requeue, put | `get_request`, `__elv_add_request`, `blk_fetch_request`, `blk_requeue_request`, `__blk_put_request` |
| `__blk_drain_queue` | a round of it, as `CleanupDrain` (everything) or `SwitchDrain` (requests with scheduler data) |
| `blk_cleanup_queue` | `blk_set_queue_dying`, `EnterBypass`, `CleanupDrain`, `blk_sync_queue`, `blk_put_queue` |
| `__elevator_change`, `elevator_switch` | `__elevator_change`, `SwitchBypass`, `SwitchDrain`, `Swap`, `elv_register_queue`, `SwitchEnds` with both failure paths |
| `blk_stop_queue`, `blk_start_queue`, `blk_delay_queue`, `blk_delay_work` | actions of the same names; `process_one_work` is the worker that begins the work |

External: the workqueue, `blk_register_queue`, which ends the initial bypass, and
`blk_release_queue`, which exits the scheduler with the last reference
(blk-sysfs.c). Requests have neither sectors nor bios here; `Elevator` has those.

### RuntimePm

`rpm_status` and `nr_pending` are the queue's; `core` is where the (external) PM
core and the driver's callbacks are. A callback calls `blk_pre_runtime_*`, may
send one PM request to the front of the queue and wait for it, and calls
`blk_post_runtime_*` with or without an error. `nr_pending` is an unsigned int of
width `Wrap`: the put of a request that was never inserted
(`blk_make_request_fails`) can take it below zero. `run` says that `request_fn`
is about to look at the queue or is doing so; `RunEnds` may stop early only while
the driver holds a request, whose completion runs the queue again. A normal
request is inserted at the back or at the front (`at_head`, as `blk_execute_rq`
may ask for); `overtaken` records that one went in front of a callback's own
request.

### CommandQueue, KyoukoFifo and KyoukoDma

One program uses the device through the ioctls; the card executes the entries of
the ring between `FifoTail` and `FifoHead`. `KyoukoFifo` has the operations that
`lab3/mymod.c` and `lab4/mymod.c` share; `FIFO_QUEUE` is two steps, because the
driver stores and advances the head without a lock (`QueueCommand`,
`QueueValue`). A register write is two steps: `K_WRITE_REG` gets a value that was
loaded from `fifo.head` and stores it after a `udelay` with interrupts on, so
`LoadHead` and `StoreHead` are apart and the handler may publish its own head in
between. `FIFO_FLUSH` is such a write (`FlushLoad`, `FlushKick`), polls and a
return. `KyoukoDma` adds the ring of buffers. `initiate_transfer` is `START_DMA`,
then `TransferDirect` and `Kick` when the ring was empty, or `TransferLater`,
`TestFull` and `WaitEnds` (woken, or by a signal). `rkintr` is one step; on one
processor it cannot run while the lock is held (`Locked`), on two it can (`SMP`).
`card` is the transfer the card does and its pending interrupt; `started` is the
history the transfers are compared with: buffer, length and content in the order
of the START_DMA calls. The program is `lab4/user.c`: it binds, fills and starts
each buffer once, queues and flushes only while the card has nothing to do, and
sleeps before it unbinds and closes (`Quiet`). What it queues (`UserEntries`) are
drawing commands; the two commands that start a transfer come from the driver
only. It leaves room in the ring (`Room`), since nothing in the driver looks
whether the ring is full.

The refinement maps the abstract queue to the slots from `FifoTail` to `head`,
also those that are written but not yet published, and to the empty queue while
the device is closed or being opened. Only closing empties the abstract queue: a
head that runs into the tail, after which a full ring looks empty, is no step of
it.

### Smunch

`Callers` call one version of the system call on the same task; those of
`KillCallers` with SIGKILL among the signals. A step is one statement that reads
or writes what others write: the lookup, a test, the claim of `EXIT_DEAD`, the
release, the store of the pending set, the wake-up, and each of the four returns
with the unlocks in front of it (3_5 has four `rcu_read_unlock`, 3_3 one). `p` is
the task: `released` counts the calls of `release_task`, `freed` says that a
grace period has passed since, and `stray` and `orphan` record a store after the
release and a release of a leader with live threads. The task and its parent's
wait are external: it clones (under the sighand lock), exits, takes signals; the
wait claims and releases it as `wait_task_zombie` does.

## 3. Runs

| Run | Instance | Checks | Result |
|---|---|---|---|
| `greedy_scheduler` | 3 requests, sectors 0..4, sizes 1..2, `int` of 2 bits | `TypeOK`, `LinkedOnce`, `NoBugOn`, `PoolSpec` | holds, 11 226 states |
| `greedy_sorted` | the same, an `int` that does not wrap | `ListsSorted` | violated: see below |
| `elevator` | 2 requests, 4 touching bios, 2 of them plugged and apart, limit 4 sectors, 1 BLOCK_PC, 1 bypass bio, device depth 1, a queue that may die | `OneHome`, `SortedCount`, `HashExact`, `CachedPointersLive`, `InFlightExact`, `BiosTile`, `StartedNotPassed` | holds, about 363 000 states |
| `elevator_live` | 2 requests, 3 bios, 2 plugged, plug of 1, no BLOCK_PC, a queue that may die | `EveryBioEnds` | holds, about 36 500 states |
| `request_list_wait` | 3 tasks, 2 of one direction, limit 2 or 3 changed once, batches of 1 | `FullExact`, `NoLostWakeup`, `CongestionHysteresis` | holds, about 672 000 states |
| `request_list_dying` | 3 tasks of one direction, limit 1 or 2, batches of 1, every request scheduled at first | `CountsExact`, `DyingFreesSleepers` | holds, about 141 000 states |
| `queue_lifecycle` | 1 request allocated twice, 2 types of schedulers, 2 instances | `RequestsHaveScheduler`, `BypassExact`, `QuietAfterCleanup`, `SchedulerInUse`, `CleanupEnds` | holds, about 229 000 states |
| `runtime_pm` | 3 requests and a PM request, 3-bit counter, 2 unsent puts | `PendingExact`, `DeviceUp`, `PendingServed`, `CallbacksEnd` | holds, 16 308 states |
| `kyouko` | ring of 12 entries, 3 buffers, 6 calls that write to the ring | `TransfersAsStarted`, `CommandQueueSpec`, `FlushDrains`, `EveryStartTransferred`, `CallsReturn` | holds, about 137 000 states |
| `smunch` | 3 callers, 2 with SIGKILL, each version | `ReleasedOnce`, `NoUseAfterFree`, `NoStrayStore`, `LeaderKept`, `ReleasedIsFreed` | holds, about 20 000 states |
| `recorder_one_queue` | 1 queue, 4 slots, warm-up 1, any upper half of `reqs` | `InBounds`, `NoHoles`, `TesterEnds` | holds, 591 states |
| `recorder_two_queues` | the same, 2 queues | `InBounds` | violated |

The `TypeOK` of `Elevator`, `RequestList`, `QueueLifecycle`, `RuntimePm` and
`KyoukoDma` documents the variables and is what a proof starts from. It holds on
the same instances and is not among the properties of the runs, which are about
behaviour.

Why these bounds. The scheduler needs three requests to insert between, before and
after entries and to have both lists non-empty with a choice; two would make every
order trivially right. For the queue around it, four touching bios of five sectors
under a limit of four give back, front and request merges, merges after merges,
and merges refused for size (which set NOMERGE). The plugged bios do not touch in
the first run, so that a plug holds two requests and is sorted and flushed one by
one; in the liveness run they do, and merge in the plug. There are fewer requests
than bios, so `get_request` has to wait. Device depth 1 makes "the device is full"
happen. The requests are interchangeable and used as a symmetry set, except in the
liveness run. With three requests the first run has about 1 049 000 states, and
the second, with a BLOCK_PC request, about 120 000; both hold. Deadlock is not
checked in the elevator runs: once all bios have ended the queue is at rest.

For the request list, a limit of 2 makes the overrun (3 requests) and the refusal
above it happen with few tasks; two tasks of one direction and one of the other
make queues of sleepers, a woken task that meets a stranger, and the help of one
direction for a starved other one. The change of the limit goes either way, so
that a direction becomes full, and ceases to be, without an allocation, and so
that a congested direction falls below the lower threshold of the new limit. With
batches of 2 in place of 1 the same run has 4.2 million states and holds as well.
With limit 1 and three sleepers the frees and the dying flag wake two, so the
last one depends on the drain. The recorder's 4 slots stand for 19 500 and its
warm-up of 1 for 500: what matters is that the warm-up can end below, at and far
above its mark, and that the array can fill before the first poll. The counters
of the recorder are bounded by the code itself; `MaxResize` bounds the changes of
the limit. Both systems may stop (a dead queue, a tester that has printed), so
deadlock is not checked there.

For the life cycle, two instances of schedulers make one switch, successful or
failed, before, during or after the other events, and the request is allocated
twice, so that it meets the queue with and without scheduler data. That the
clean-up ends is the slow part of this run and sets its size: with two requests,
one between allocation and insertion while the other is queued, in flight or
requeued, and two switches in a row (`MaxInstances = 3`) the four invariants hold
in about 2 080 000 states, and they are proved for every number of both. Every
allocation of the set-up and of the switch may fail. `MaxRefs` bounds the
references that failed switches leak. For power management three requests with a
counter modulo 8 keep the wrapped values apart from real counts when up to two
unsent puts take it below zero. The ring of 12 entries wraps within the 6 calls
(GRAPHICS_ON writes 6 entries, a START_DMA 2); three buffers give an empty ring,
one that is partly filled and a full one, and both a wait that ends before the
sleep begins and one that is woken.

**The recorder** is where the code does not do what it says. *Two queues*
(`recorder_two_queues`): test, store and increment are not one step for
completions of different queues, so the last slot can be passed and the counter
overshoots; with one queue neither happens, and that is proved. Three more
disagreements are in the model without a run of their own. *Restart*: a completion
that has stored but not counted survives the reset, so a recording that is meant
to be fresh counts records of the warm-up (their number in `stored_reqs` is below
`starts`). *Uninitialised*: with a positive upper half `reqs` passes the
bound at the first poll, so the tester ends and takes what is there; with a
negative one it never reaches the bound and the tester polls for ever, so
`TesterEnds` is stated for the other two. *Stale
poll*: when the first poll above the warm-up mark already sees a full array, the
tester restarts the recorder and leaves its loop in the same round, on the old
value.

**`greedy_sorted`** records a disagreement of the code with its own comments.
`add_to_higher` stops at the first entry beyond the new one ("so take this
guy's spot") but `list_add` links behind that entry; `add_to_lower` likewise.
After two insertions `higher` may run 1, 0 and the scheduler, which looks at
first entries only, does not serve the nearest request. Nothing is lost by it:
the other properties do not depend on the order.

**What the passing runs exclude.** Some properties are stated for the part of the
behaviour in which the code keeps them; the rest are defects that lifting the
condition shows.

* Life cycle. When `elevator_init` fails, `blk_init_allocated_queue` frees the
  flush queue and leaves `q->fq` set, and the drain of the clean-up that follows
  reads its lists. When the registration of a new scheduler fails,
  `elevator_switch` tears it down before it puts the old one back; until then
  `q->elevator` names a scheduler that is gone (`switch.at = "restore"`), and an
  insertion at the back, which is what a queue in bypass mode does, drains
  `q->elevator`. The comment there says the block layer does not call into a
  quiesced elevator. A failed switch loses or drops once more a reference to the
  new module, and registers the old scheduler also when it was not registered.
  Without an end of submissions a switch's drain may wait for ever, so only the
  clean-up is shown to end.
* Power management. `blk_make_request` puts a request it never inserted when a
  bio cannot be appended; `nr_pending` is then too small, the device may suspend
  under a request in flight, and `DeviceUp` fails without `unsent = 0`. A suspend
  that fails makes the queue active without running it and a resume that fails
  is not asked for again; `PendingServed` fails without `failed`. A normal request
  that is inserted at the front while a callback waits for its own request blocks
  the queue: `blk_pm_peek_request` refuses the head and never looks behind it, so
  the callback does not end and nothing is served any more. `PendingServed` and
  `CallbacksEnd` fail without `overtaken`. Front insertions without end would
  starve a request, so `PendingServed` assumes that they cease.
* Driver. With the handler on another processor (`SMP = TRUE`)
  `EveryStartTransferred` fails: `initiate_transfer` sees a transfer under way
  while the handler has looked at the ring for the last time. With
  `CallsWhileBusy = TRUE` all five properties fail. The handler's writes come
  between the two halves of a FIFO_QUEUE; and a FIFO_FLUSH that has loaded the
  head before the handler publishes a later one stores the old value over it,
  after which either the card stops short and the flush polls for ever, or its
  tail is past its head and it goes round the ring over old entries. With
  `Restart = TRUE` and `MaxStarts = 5` `TransfersAsStarted` fails: neither the
  end of a transfer nor a new session clears `cmdCount`, and the handler submits
  the next buffer whether it was started or not. `Room` keeps the program from
  filling the ring, as the repository's programs never write FIFO_ENTRIES entries
  without a flush. If one entry more may be written, `CommandQueueSpec` and
  `FlushDrains` fail (a full ring looks empty); if the room is measured from the
  card's tail and not from the cached one, `FlushDrains` fails (the head has come
  round to a cached tail of the lap before).
* smunch. Each version fails what it is not named for: 3_1 has no lock and no RCU
  (use after free, stores into a released task), 3_1 and 3_3 test the group
  without the lock (a leader released before its thread), 3_3 returns with the
  read-side critical section open (nothing is freed any more) on every way out but
  the last, 3_5 does not claim the zombie (released twice). `ReleasedIsFreed` is
  stated for 3_5. As it stands 3_5 does not compile (a semicolon is
  missing in line 37); it is modelled as if it did.

## 4. Fairness

`FairSpec` of `Elevator` assumes: a task that has begun to submit a bio goes on,
and `get_request` is retried when a request is free (WF; which waiter is woken is
left open, and the module has no batching); the plug of a task is flushed,
because it sleeps, finishes, or its list is full (WF: `schedule` and
`blk_finish_plug` call the flush); a lock holder leaves its loop and armed work
runs (WF). A refusal by a dying queue is taken like a request (WF); nothing makes
a queue die. For the device it assumes that it does not defer or requeue the same
work for ever: starting a request, ending its bios and finishing it are strongly
fair. That is an assumption about the hardware and its driver, which the
repository does not contain; without it no bio needs to end. A bio need not be
submitted at all. `EveryBioEnds` then says that the code itself leaves nothing
behind: no request on a list with no run of the queue due, no cycle of tasks that
wait for requests held in their own plugs. It says nothing on starvation by an
endless stream of nearer requests: the greedy policy has no bound for that.

`FairSpec` of `RequestList` assumes that a task inside `get_request` runs on
(WF, the scheduler of the kernel; a sleeper can do nothing until it is woken),
that requests in use end (WF, the assumption on the device again), and that
`blk_cleanup_queue`, once begun, finishes its drain, which polls every 10 ms
(WF). No task needs to call `get_request`, no batch needs to time out, and
nothing is assumed of the order in which tasks get the lock: a woken task may
find its request taken and sleep again, which is why `NoLostWakeup` is stated
as an invariant and liveness only for the dying queue.

`TrackFairSpec` of `ReqTrack` assumes that the tester and each completion run on,
and that the tester's workload keeps each queue completing requests (WF). Without
the last the tester waits for ever, as it should.

`Spec` of `QueueLifecycle` assumes that the threads inside the code above run on
(WF), that the worker begins armed work and runs it, that a `request_fn` that is
called returns and a queue that was stopped is started again (WF), and, as for
the device before, that requests that can be fetched or ended are (SF). Nothing
makes anybody submit, switch or clean up. `Spec` of `RuntimePm`: callbacks and
the core's worker are scheduled (WF), a run of the queue takes what it is given,
and a request with the driver ends after some requeues (SF). The autosuspend
timer need not expire. `Spec` of `KyoukoDma`: the card executes and transfers,
its interrupt is taken, a program inside the driver is scheduled (WF); a signal
need not come, and the program need not call again. `Fairness` of `Smunch`:
callers run on and grace periods end once nobody is inside (WF).

## 5. Proofs

Every invariant the passing runs check is a theorem for all values of the
constants; so are the safety action properties of the scheduler, the request
queue and the graphics driver, and the two refinements, of `IoschedPool` and of
`CommandQueue`. Every proof has the same frame: an inductive invariant as a
conjunction of named parts, one lemma per action (or per kind of action) that it
preserves the invariant, `Spec => []Inv`, and a theorem per property. The
invariants were checked with TLC on the runs' instances before they were proved.

### The greedy scheduler (`GreedyIosched_proofs`)

For every set of requests, every `MaxSector`, `MaxNr` and `IntHalf` that satisfy
`GeometryAssumption` and `IntHalfAssumption`:

* `TypeCorrect`, `LinkedAtMostOnce`, `ExitWithoutBug`: `[]TypeOK`,
  `[]LinkedOnce`, `[]NoBugOn`;
* `ImplementsPool`: `Spec => PoolSpec`, the refinement of `IoschedPool`.

`LinkedOnce` is not inductive without the type of the lists; and a merge step
needs that a request and the one that begins where it ends are two requests,
which holds because no held request is empty, so `\A rq \in Held : nr[rq] > 0`
is a conjunct of `SchedulerInv`. `AddEntries` says that a list walk of
`add_to_higher` or `add_to_lower` keeps all old entries and their order,
`UnlinkEntries` the same of `list_del_init`. `TargetHeld` says that the choice
of `greedy_dispatch` is an entry of one of the lists whatever the wrapped
distances are, so the `int` overflow cannot break the structure.

### The request queue (`Elevator_proofs`)

For every set of requests, every set of bios wherever they lie on the disk,
every request size limit, plug length and device depth:

* `ElevatorTypeCorrect` (`TypeOK`), `RequestsHaveOneHome` (`OneHome`),
  `SortedCountExact` (`SortedCount`), `MergeHashExact` (`HashExact`),
  `CachedPointersSafe` (`CachedPointersLive`), `InFlightCounted`
  (`InFlightExact`), `BiosTileRequests` (`BiosTile`);
* `StartedKeepsPlace`: `Spec => StartedNotPassed`.

None of the invariants is inductive alone: the merge of two requests lowers
`nr_sorted` by the flag `SORTED`, so the count needs that the flag is set exactly
while the scheduler holds the request, which needs that a request is in one
place, and so on. `ElevatorInv` is the conjunction of

* `ListTypes`, `DataTypes`, `ControlTypes`: the types, without the two counters,
  which are naturals because of what they count;
* `Apart(Homes)`: every request is in one of the eight places and in no other;
* `LoopOK`: the request a loop under the lock works on exists, has bios, and is
  with the scheduler once a round of `elv_attempt_insert_merge` has merged;
* `RequestOK(rq)` for each request: `SORTED` and `STARTED` by its place, when it
  has bios, its hash key, and that its bios tile its sectors. The tiling
  includes that any earlier bio ends before any later one starts, from which two
  requests that touch have different bios;
* `SortedCount`, `CachedPointersLive`, `ChainsOK` (a bio is in one request only)
  and `DriverOK` (`InFlightExact`, and that the driver's requests are finitely
  many, which holds because it takes them one by one).

The lemmas follow the code's helpers. `AddHeld`, `UnlinkHeld`, `OutsideMove` and
`DispatchMove` say what a move of one request between two places does to the
invariant; `MergeRequests` and `BioJoins` say it of the two kinds of merge;
`TilesJoin` and `TilesTail` are their geometry; `HashFinds` and `MergeFinds` say
which requests `elv_rqhash_find` and `elv_merge` can return. Each action is then
a few of these and a check of what it leaves alone. `NoOvertaking` shows more
than `StartedNotPassed` needs: no fs request gets in front of any request of the
dispatch queue, started or not, unless the driver puts it back.

### The request list (`RequestList_proofs`)

For every finite set of tasks, every set of limits, every batch size and every
number of changes of the limit: `FullFlagExact` (`FullExact`), `CongestionExact`
(`CongestionHysteresis`), `RequestCountsExact` (`CountsExact`), `WakeUpsKept`
(`NoLostWakeup`).

The invariant is in four parts. `LevelInv` (the flags against the count) needs no
fact about tasks; `Thresholds` says that the lower congestion threshold is at
most the upper one and that one at most the limit, for every positive limit,
which is where the clipping of `blk_queue_congestion_threshold` matters.
`WaitInv` says that a task is in one wait queue once, exactly while it sleeps;
`CountInv` that each count is the number of tasks that hold such a request;
`WakeInv` that a direction with sleepers has somebody to wake them. For the last
one a task that was refused and does not sleep yet counts as a sleeper: a free
that comes between the refusal and `prepare_to_wait_exclusive` is the race the
property is about.

### The life cycle (`QueueLifecycle_proofs`)

For every finite set of requests, every set of schedulers, number of elevator
queues, submissions and references: `BypassCounted` (`BypassExact`),
`RequestsKeepScheduler` (`RequestsHaveScheduler`), `CleanupLeavesQuiet`
(`QuietAfterCleanup`), `SchedulersInUse` (`SchedulerInUse`).

`LifeInv`: `StageInv` relates the owner's stage, the switch and the flags
(`sysfs_lock` keeps a switch and the start of the clean-up apart, but the clean-up
may drain while a switch goes on); `SchedInv` says which elevator queues are live
in each phase of a switch and that each has a reference to its module; `ReqInv`
that scheduler data belongs to the present scheduler, and that there is none from
the swap on nor before the queue is registered, which is why a switch of a new
queue need not drain it; `DepthInv` is the counter. `QuietInv` has two parts: once
the drain has ended there is no request and nobody in `request_fn`, and the dead
flag keeps work that begins later out of it; once `blk_sync_queue` has returned
there is no work either, armed or begun.

### Runtime power management (`RuntimePm_proofs`)

For every finite set of normal requests smaller than the range of `nr_pending`:
`PmTypeCorrect` (`TypeOK`), `CountExact` (`PendingExact`),
`NoRequestToSleepingDevice` (`DeviceUp`). `PmInv`: `QueueInv` (the queue holds the
waiting requests once each), `CountInv`, `StatusInv` (the status the queue knows
follows the step the core is at; the callback's own request is out only while
that callback waits) and `DeviceInv` (while none was released unsent, only an
active device has normal requests with its driver). `CountInv` is arithmetic
modulo `Wrap`: the counter goes below zero when a request that was never counted
is released.

### The graphics driver (`KyoukoDma_proofs`)

For every length of the command ring, every number of buffers, every set of
drawing commands and any number of calls, if the driver is used as the programs
use it: `RingIsQueue` (`Spec => CommandQueueSpec`, the refinement),
`FlushesDrain` (`Spec => FlushDrains`), `TransfersInOrder`
(`TransfersAsStarted`). The hypothesis `AsPrograms` is one processor, no second
start of a buffer and no FIFO_QUEUE or FIFO_FLUSH during a transfer; section 3
says which property fails without each part.

None of the three is inductive, and they need each other: that the ring is never
overrun depends on how many transfers are still to come, and that a transfer is
the right one depends on which commands are in the ring. `KyoukoInv` is the
conjunction of

* `FifoTypes`, `DmaTypes`: the types;
* `RingInv`: from the tail the driver remembers, the card's tail, the card's head
  and the driver's head follow in this order, so no distance is taken the wrong
  way round the ring;
* `RoomInv`: what is written plus two entries for each transfer that an interrupt
  still has to submit, plus what the present call has left, is shorter than the
  ring;
* `QueueInv`: between the two stores of FIFO_QUEUE, and between the load and the
  store of a flush, the card is at rest; between those of `Kick` it has no
  transfer and no interrupt pending, and the one that starts a transfer is the
  last entry written, so that it has not been seen. In all three the value that
  was loaded is still the head;
* `BindInv`: the program's k-th mapping is buffer k - 1, which the static `index`
  of `kyouko3_mmap` gives only because it has come back to 0 at every BIND_DMA;
* `CountInv`: `dma_fill` and `dma_drain` are the number of buffers put into the
  ring and of those the handler is done with, `started` is exactly the buffers
  after those, and `cmdCount` is set for the waiting ones only;
* `TransferInv`: if buffers wait, exactly one of three things holds: the interrupt
  is pending, the card moves the buffer at the head of `started`, or the address
  and the count of that buffer are in the ring and the card has been told of them
  or is about to be (`Kick`); if none waits there is no transfer anywhere;
* `UnboundInv`: without bound buffers there is none either.

TLC checked `KyoukoInv` on one, two and three buffers before it was proved. The
lemmas are about the ring: `Wrapped` (a remainder of a number at most one length
out of range), `DistanceIs`, `EndMoves`, `StartMoves` (what a store and an
execution do to a distance), and the sequence of pending entries after each.
`rkintr` has a lemma for its two outcomes in one: a handler that finds nothing
started submits a transfer of no words, which the card ignores. In the refinement
a call or a handler that writes to the ring appends its entries, an execution
takes the first, the end of `init_fifo`'s pause opens an empty queue and
`kyouko3_release` closes it; all else, the loads and stores of `FifoHead` among
it, is a stutter.

### The recorder (`SystemCalls_proofs`)

For every array size and `WarmUp`, if all queues are one: `OneQueueRecords`
(`InBounds`), `OneQueueCountsStored` (`NoHoles`). The hypothesis is what
the code relies on; with two queues the run `recorder_two_queues` refutes the
bound. `InBounds` is not inductive: the counter stays below the bound
only because between a completion's test and its increment nobody else counts,
and because a reset may only lower it. `FinisherInv` says so: after the test the
counter is below the bound, after the store it is at most the stored index, and
every slot up to that index is written. So both ways to compile the increment
count written slots only.

### smunch (`SystemCalls_proofs`)

For every set of callers: `ClaimReleasesOnce` (`ReleasedOnce`), `RcuKeepsTask`
(`NoUseAfterFree`), `StoreReachesTask` (`NoStrayStore`), `NoOrphans`
(`LeaderKept`). `SmunchInv` has a part per mechanism, each for the versions that
have it: `ClaimInv` (who is at `release_task` set EXIT_DEAD, and is alone there),
`RcuInv` (who holds the task is in a read-side section it entered before the task
was freed), `LockInv` (under the sighand lock the task is not released),
`LeaderInv` (the test for threads stays true until the release).

### Assumptions

The constants' assumptions are in the modules that declare them, and TLC
evaluates them on every run. Finite sets of tasks and requests: they are objects
in memory, and a count of an infinite set means nothing. `Cardinality(Normal) <
Wrap`: an `unsigned int` counts more requests than memory holds. The values that
stand for "nobody", "none" or NULL are not among the real ones.

### Only model-checked

All liveness, since no backend reasons about fairness here: `EveryBioEnds`,
`DyingFreesSleepers`, `TesterEnds`, `CleanupEnds`, `PendingServed`,
`CallbacksEnd`, `ReleasedIsFreed`, `EveryStartTransferred`, `CallsReturn`.

## 6. Plan

Every component that has state of its own is modelled, and every safety property
of a passing run is proved. Worth modelling next: completions that end inside a
bio, and the two processes of `smp.c` on one driver.

## 7. Not modelled

The multi-queue path, FLUSH/FUA sequencing and the splitting and bouncing of
bios (their code is not in the repository); `elv_dispatch_sort` and the rb-tree
helpers (the greedy scheduler uses neither); the front end of bio submission
(`submit_bio`, `generic_make_request`: checks and statistics around one call);
bidi requests, request timers and tags; statistics and tracing. Of the driver:
PCI probing, vertex data, and the two-process program `smp.c`, whose `flag` is
private to each process after the fork and whose concurrent BIND_DMA calls share
the static index of `kyouko3_mmap`. User-space workloads and recorded traces have
no state worth a model.
