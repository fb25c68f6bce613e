--------------------------- MODULE QueueLifecycle ---------------------------
(***************************************************************************)
(* The life of a request queue (blk-core.c, elevator.c): it is allocated   *)
(* in bypass mode and given a scheduler, changes schedulers while requests *)
(* come and go, and is cleaned up.  Three threads meet here, beside the    *)
(* submitters and the driver: the owner (blk_init_queue_node, then         *)
(* blk_cleanup_queue), a user who switches the scheduler                   *)
(* (elevator_change), and the worker that runs q->delay_work.              *)
(*                                                                         *)
(* Steps under q->queue_lock are atomic; a request_fn may drop the lock    *)
(* (the comment of __blk_run_queue_uncond), so an invocation lasts from    *)
(* RunEnter to RunExit and anything may happen in between.                 *)
(***************************************************************************)
EXTENDS Integers, FiniteSets

CONSTANTS Requests,       \* struct request objects
          Types,          \* names of schedulers
          Builtin,        \* the one that is always registered (noop)
          MaxInstances,   \* bound: elevator_queues created in one behaviour
          MaxSubmits,     \* bound: requests allocated in one behaviour
          MaxRefs         \* bound: references to a module, which failed switches may leak

ASSUME LifecycleAssumption ==
  /\ Builtin \in Types /\ "none" \notin Types /\ IsFiniteSet(Requests)
  /\ MaxInstances \in Nat /\ MaxSubmits \in Nat /\ MaxRefs \in Nat

Instances == 1 .. MaxInstances          \* elevator_queues; 0 is NULL

VARIABLES
  owner,                  \* where blk_init_queue_node / blk_cleanup_queue is
  switch,                 \* where elevator_change is: at, old, new, registered
  sysfs_lock,             \* who holds q->sysfs_lock
  dying, dead, stopped,   \* queue flags
  bypass, bypass_depth,   \* QUEUE_FLAG_BYPASS and the counter behind it
  init_done,              \* QUEUE_FLAG_INIT_DONE
  elevator,               \* q->elevator
  etype,                  \* the type of each elevator_queue created so far; "none" before
  exited,                 \* elevator_queues that elevator_exit has torn down
  registered,             \* those visible in sysfs
  elv_list, refs,         \* registered types, and references to their modules
  rq,                     \* where each request is: see TypeOK
  priv,                   \* the scheduler a request with REQ_ELVPRIV belongs to; 0: none
  home,                   \* the scheduler whose lists hold it; 0: none
  fnrun,                  \* who is inside q->request_fn: request_fn_active is its size
  due,                    \* somebody is about to call __blk_run_queue
  work,                   \* q->delay_work: "armed", and "begun" before it has the lock
  submits

flags  == <<dying, dead, stopped, init_done>>
byp    == <<bypass, bypass_depth>>
sched  == <<elevator, etype, exited, registered, elv_list, refs>>
reqs   == <<rq, priv, home, submits>>
run    == <<fnrun, due, work>>
vars   == <<owner, switch, sysfs_lock, flags, byp, sched, reqs, run>>

In(place) == {r \in Requests : rq[r] = place}
nr_rqs == Cardinality(Requests \ In("free"))
nr_rqs_elvpriv == Cardinality({r \in Requests : priv[r] # 0})
Created == {e \in Instances : etype[e] # "none"}
Live == Created \ exited
Idle == [at |-> "idle", old |-> 0, new |-> Builtin, registered |-> FALSE]

Init ==
  /\ owner = "none" /\ switch = Idle /\ sysfs_lock = "free"
  /\ dying = FALSE /\ dead = FALSE /\ stopped = FALSE /\ init_done = FALSE
  /\ bypass = FALSE /\ bypass_depth = 0
  /\ elevator = 0 /\ etype = [e \in Instances |-> "none"] /\ exited = {} /\ registered = {}
  /\ elv_list = Types /\ refs = [t \in Types |-> 0]
  /\ rq = [r \in Requests |-> "free"]
  /\ priv = [r \in Requests |-> 0] /\ home = [r \in Requests |-> 0]
  /\ fnrun = {} /\ due = FALSE /\ work = {} /\ submits = 0

-----------------------------------------------------------------------------
(* Schedulers as modules: elv_list and the references to them.             *)
elevator_get(f, t) == [f EXCEPT ![t] = @ + 1]
elevator_put(f, t) == [f EXCEPT ![t] = @ - 1]

Unloadable(t) == t # Builtin /\ t \in elv_list /\ refs[t] = 0

(* rmmod and modprobe of a scheduler: elv_unregister, elv_register.        *)
elv_unregister(t) ==
  /\ Unloadable(t)
  /\ elv_list' = elv_list \ {t}
  /\ UNCHANGED <<owner, switch, sysfs_lock, flags, byp, elevator, etype, exited, registered,
                 refs, reqs, run>>

elv_register(t) ==
  /\ t \notin elv_list
  /\ elv_list' = elv_list \union {t}
  /\ UNCHANGED <<owner, switch, sysfs_lock, flags, byp, elevator, etype, exited, registered,
                 refs, reqs, run>>

(* elevator_alloc inside elevator_init_fn: the next elevator_queue.        *)
Fresh == CHOOSE e \in Instances \ Created : \A f \in Instances \ Created : e <= f
CanCreate == Created # Instances

(***************************************************************************)
(* elevator_exit: the scheduler's exit function, then the last reference   *)
(* to the elevator_queue and with it the one to the module goes away.      *)
(***************************************************************************)
elevator_exit(e, f) == exited' = exited \union {e} /\ refs' = elevator_put(f, etype[e])

(* __elv_next_request's forced and ordinary dispatch: all or one of the    *)
(* scheduler's requests go to the dispatch queue.                          *)
Dispatched(S) == [r \in Requests |-> IF r \in S THEN "head" ELSE rq[r]]
Left(S) == [r \in Requests |-> IF r \in S THEN 0 ELSE home[r]]
HeldBy(e) == {r \in In("sched") : home[r] = e}
NotForced == UNCHANGED <<rq, home>>             \* mutant: a drain waits for request_fn only
elv_drain_elevator ==
  LET S == IF elevator = 0 THEN {} ELSE HeldBy(elevator)
  IN  rq' = Dispatched(S) /\ home' = Left(S)

-----------------------------------------------------------------------------
(* Running the queue.                                                      *)
__blk_run_queue(who) == fnrun' = IF stopped \/ dead THEN fnrun ELSE fnrun \union {who}

(* A submitter, a completion or blk_start_queue calls it under the lock.   *)
RunEnter ==
  /\ due /\ "irq" \notin fnrun
  /\ due' = FALSE /\ __blk_run_queue("irq")
  /\ UNCHANGED <<owner, switch, sysfs_lock, flags, byp, sched, reqs, work>>

RunExit ==
  /\ \E who \in fnrun \intersect {"irq", "work"} : fnrun' = fnrun \ {who}
  /\ UNCHANGED <<owner, switch, sysfs_lock, flags, byp, sched, reqs, due, work>>

(* request_fn fetches a request; __elv_next_request asks the scheduler     *)
(* only when the dispatch queue is empty and the queue is not bypassed.    *)
Askable(e) == IF bypass THEN {} ELSE HeldBy(e)

blk_fetch_request ==
  /\ fnrun # {}
  /\ \/ \E r \in In("head") : rq' = [rq EXCEPT ![r] = "driver"] /\ UNCHANGED home
     \/ In("head") = {} /\ \E r \in Askable(elevator) :
          rq' = [rq EXCEPT ![r] = "driver"] /\ home' = Left({r})
  /\ UNCHANGED <<owner, switch, sysfs_lock, flags, byp, sched, priv, submits, run>>

(* The timer expired and a worker (external) begins the work, which may    *)
(* be armed again meanwhile but never runs twice at once.                  *)
process_one_work ==
  /\ "armed" \in work /\ "begun" \notin work /\ "work" \notin fnrun
  /\ work' = {"begun"}
  /\ UNCHANGED <<owner, switch, sysfs_lock, flags, byp, sched, reqs, fnrun, due>>

(* blk_delay_work gets the lock.                                           *)
blk_delay_work ==
  /\ "begun" \in work
  /\ work' = work \ {"begun"} /\ __blk_run_queue("work")
  /\ UNCHANGED <<owner, switch, sysfs_lock, flags, byp, sched, reqs, due>>

(* The driver calls these with the lock held, for a request it has or that *)
(* its request_fn leaves on the queue.                                     *)
DriverActive == In("driver") # {} \/ (fnrun # {} /\ In("head") # {})

blk_delay_queue ==
  /\ DriverActive /\ ~ dead /\ work' = work \union {"armed"}
  /\ UNCHANGED <<owner, switch, sysfs_lock, flags, byp, sched, reqs, fnrun, due>>

(* cancel_delayed_work does not wait for a work that has begun.            *)
blk_stop_queue ==
  /\ DriverActive /\ ~ stopped
  /\ stopped' = TRUE /\ work' = work \ {"armed"}
  /\ UNCHANGED <<owner, switch, sysfs_lock, dying, dead, init_done, byp, sched, reqs, fnrun, due>>

blk_start_queue ==
  /\ stopped /\ stopped' = FALSE /\ due' = TRUE
  /\ UNCHANGED <<owner, switch, sysfs_lock, dying, dead, init_done, byp, sched, reqs, fnrun, work>>

-----------------------------------------------------------------------------
(* Requests: allocation decides under the lock whether the scheduler will  *)
(* manage the request; the lock is dropped before it is inserted.  The     *)
(* driver may use the queue before blk_register_queue ends its bypass.     *)
Manager == IF bypass THEN 0 ELSE elevator

Spare == CHOOSE r \in Requests : rq[r] = "free"   \* mempool_alloc: one is like another

get_request ==
  /\ owner \in {"inited", "live"} /\ ~ dying
  /\ In("free") # {} /\ submits < MaxSubmits
  /\ rq' = [rq EXCEPT ![Spare] = "owned"] /\ priv' = [priv EXCEPT ![Spare] = Manager]
  /\ submits' = submits + 1
  /\ UNCHANGED <<owner, switch, sysfs_lock, flags, byp, sched, home, run>>

(* The insertion: the scheduler is asked to sort requests with REQ_ELVPRIV *)
(* only; the back of the dispatch queue, the place of the others, lies     *)
(* behind what the scheduler still holds, the front does not.              *)
Where == {"sort", "front", "back"}

__elv_add_request(r, where) ==
  /\ rq[r] = "owned"
  /\ \/ /\ where = "sort" /\ priv[r] # 0
        /\ rq' = [rq EXCEPT ![r] = "sched"] /\ home' = [home EXCEPT ![r] = elevator]
     \/ /\ where = "front"
        /\ rq' = [rq EXCEPT ![r] = "head"] /\ UNCHANGED home
     \/ /\ where = "back" \/ (where = "sort" /\ priv[r] = 0)
        /\ rq' = [Dispatched(HeldBy(elevator)) EXCEPT ![r] = "head"]
        /\ home' = Left(HeldBy(elevator))
  /\ due' = TRUE
  /\ UNCHANGED <<owner, switch, sysfs_lock, flags, byp, sched, priv, submits, fnrun, work>>

blk_requeue_request(r) ==
  /\ rq[r] = "driver" /\ rq' = [rq EXCEPT ![r] = "head"] /\ due' = TRUE
  /\ UNCHANGED <<owner, switch, sysfs_lock, flags, byp, sched, priv, home, submits, fnrun, work>>

(* The completion frees the request; elv_put_request is part of it.  The   *)
(* flush of a plug ends the requests of a dying queue itself.              *)
__blk_put_request(r) ==
  /\ rq[r] = "driver" \/ (rq[r] = "owned" /\ dying)
  /\ rq' = [rq EXCEPT ![r] = "free"] /\ priv' = [priv EXCEPT ![r] = 0]
  /\ due' = TRUE
  /\ UNCHANGED <<owner, switch, sysfs_lock, flags, byp, sched, home, submits, fnrun, work>>

-----------------------------------------------------------------------------
(* Bypass mode and draining.                                               *)
blk_queue_bypass_start == bypass' = TRUE /\ bypass_depth' = bypass_depth + 1
ClearsAlways == bypass' = FALSE /\ bypass_depth' = bypass_depth - 1   \* mutant
blk_queue_bypass_end == bypass_depth' = bypass_depth - 1 /\ bypass' = (bypass_depth' # 0)

(* What __blk_drain_queue waits for: all the counters it adds up.  Every   *)
(* request it counts in a list or in flight is one of nr_rqs.              *)
InsertedOnly(all, active) == In("sched") # {} \/ active # {}   \* mutant: nr_rqs_elvpriv is forgotten
Undrained(all, active) ==
  \/ nr_rqs_elvpriv # 0 \/ active # {}
  \/ all /\ nr_rqs # 0

(***************************************************************************)
(* A round of __blk_drain_queue by `who': forced dispatch, request_fn if   *)
(* the dispatch queue is not empty, then the counters.  The test belongs   *)
(* to the same critical section, unless request_fn was called and dropped  *)
(* the lock.  Without success the round is repeated 10 ms later.           *)
(***************************************************************************)
__blk_drain_queue(who, all, Done, Again) ==
  /\ \/ /\ who \notin fnrun
        /\ elv_drain_elevator
        /\ IF \E r \in Requests : rq'[r] = "head" THEN __blk_run_queue(who) ELSE UNCHANGED fnrun
     \/ /\ who \in fnrun
        /\ fnrun' = fnrun \ {who} /\ UNCHANGED <<rq, home>>
  /\ IF who \in fnrun' \/ Undrained(all, fnrun') THEN Again ELSE Done
  /\ UNCHANGED <<priv, submits, due, work>>

-----------------------------------------------------------------------------
(* The owner: blk_alloc_queue_node fails and leaves nothing, or the queue  *)
(* begins its life in bypass mode.                                         *)
blk_alloc_queue_node ==
  /\ owner = "none"
  /\ \/ owner' = "gone" /\ UNCHANGED byp
     \/ owner' = "alloc" /\ bypass' = TRUE /\ bypass_depth' = 1
  /\ UNCHANGED <<switch, sysfs_lock, flags, sched, reqs, run>>

(* blk_init_allocated_queue up to elevator_init: the flush queue and the   *)
(* request list may fail; after the failure blk_init_queue_node cleans up. *)
InitQueue ==
  /\ owner = "alloc"
  /\ owner' \in {"clean", "elevator"}
  /\ UNCHANGED <<switch, sysfs_lock, flags, byp, sched, reqs, run>>

(***************************************************************************)
(* elevator_init, under sysfs_lock: the default scheduler if it is         *)
(* registered, else noop.  When its init function fails after              *)
(* elevator_alloc it has dropped the reference that elevator_put drops     *)
(* once more.                                                              *)
(***************************************************************************)
Default == IF elv_list # {Builtin} THEN CHOOSE t \in elv_list : t # Builtin ELSE Builtin

elevator_init ==
  /\ owner = "elevator" /\ sysfs_lock = "free" /\ CanCreate
  /\ \/ /\ etype' = [etype EXCEPT ![Fresh] = Default] /\ elevator' = Fresh
        /\ refs' = elevator_get(refs, Default)
        /\ owner' = "inited"
     \/ /\ refs' \in {refs, elevator_put(refs, Default)}
        /\ owner' = "clean"
        /\ UNCHANGED <<etype, elevator>>
  /\ UNCHANGED <<switch, sysfs_lock, flags, byp, exited, registered, elv_list, reqs, run>>

(* blk_register_queue (external): the initial bypass ends, and the         *)
(* scheduler appears in sysfs.                                             *)
blk_register_queue ==
  /\ owner = "inited" /\ sysfs_lock = "free"
  /\ init_done' = TRUE /\ registered' = {elevator}
  /\ blk_queue_bypass_end
  /\ owner' = "live"
  /\ UNCHANGED <<switch, sysfs_lock, dying, dead, stopped, elevator, etype, exited, elv_list,
                 refs, reqs, run>>

(* blk_cleanup_queue.                                                      *)
blk_set_queue_dying ==
  /\ owner \in {"inited", "live", "clean"} /\ sysfs_lock = "free"
  /\ sysfs_lock' = "owner" /\ dying' = TRUE /\ owner' = "dying"
  /\ UNCHANGED <<switch, dead, stopped, init_done, byp, sched, reqs, run>>

EnterBypass ==
  /\ owner = "dying" /\ owner' = "drain"
  /\ blk_queue_bypass_start /\ sysfs_lock' = "free"
  /\ UNCHANGED <<switch, flags, sched, reqs, run>>

CleanupDrain ==
  /\ owner = "drain"
  /\ __blk_drain_queue("owner", TRUE, owner' = "sync" /\ dead' = TRUE, UNCHANGED <<owner, dead>>)
  /\ UNCHANGED <<switch, sysfs_lock, dying, stopped, init_done, byp, sched>>

(* blk_sync_queue: cancel_delayed_work_sync also waits for a work that has *)
(* begun, or is inside request_fn.                                         *)
CancelsOnly ==                          \* mutant: cancel_delayed_work
  /\ owner = "sync"
  /\ work' = work \ {"armed"} /\ owner' = "put"
  /\ UNCHANGED <<switch, sysfs_lock, flags, byp, sched, reqs, fnrun, due>>
blk_sync_queue ==
  /\ owner = "sync" /\ "begun" \notin work /\ "work" \notin fnrun
  /\ work' = {} /\ owner' = "put"
  /\ UNCHANGED <<switch, sysfs_lock, flags, byp, sched, reqs, fnrun, due>>

(* blk_put_queue: the last reference (the switching user may hold one)     *)
(* calls blk_release_queue (external), which exits the scheduler.          *)
blk_put_queue ==
  /\ owner = "put" /\ switch.at = "idle"
  /\ owner' = "gone"
  /\ IF elevator # 0 THEN elevator_exit(elevator, refs) ELSE UNCHANGED <<exited, refs>>
  /\ elevator' = 0 /\ registered' = {}
  /\ UNCHANGED <<switch, sysfs_lock, flags, byp, etype, elv_list, reqs, run>>

-----------------------------------------------------------------------------
(* The user who switches the scheduler.                                    *)
blk_get_queue ==
  /\ owner \in {"elevator", "inited", "live"} /\ ~ dying
  /\ switch.at = "idle"
  /\ switch' = [Idle EXCEPT !.at = "change"]
  /\ UNCHANGED <<owner, sysfs_lock, flags, byp, sched, reqs, run>>

(* __elevator_change: no scheduler yet, an unknown type or the present     *)
(* one end it; elevator_get took a reference.                              *)
__elevator_change ==
  /\ switch.at = "change" /\ sysfs_lock = "free"
  /\ \/ switch' = Idle /\ UNCHANGED <<sysfs_lock, refs>>
     \/ \E t \in elv_list :
          /\ elevator # 0 /\ t # etype[elevator] /\ CanCreate /\ refs[t] < MaxRefs
          /\ switch' = [at |-> "bypass", old |-> elevator, new |-> t,
                        registered |-> elevator \in registered]
          /\ sysfs_lock' = "switch" /\ refs' = elevator_get(refs, t)
  /\ UNCHANGED <<owner, flags, byp, elevator, etype, exited, registered, elv_list, reqs, run>>

(* elevator_switch: bypass, and drain unless the queue is still new.       *)
SwitchBypass ==
  /\ switch.at = "bypass"
  /\ blk_queue_bypass_start
  /\ switch' = [switch EXCEPT !.at = IF init_done THEN "drain" ELSE "swap"]
  /\ UNCHANGED <<owner, sysfs_lock, flags, sched, reqs, run>>

SwitchDrain ==
  /\ switch.at = "drain"
  /\ __blk_drain_queue("switch", FALSE, switch' = [switch EXCEPT !.at = "swap"], UNCHANGED switch)
  /\ UNCHANGED <<owner, sysfs_lock, flags, byp, sched>>

elv_unregister_queue(e) == registered \ {e}

(* The old one leaves sysfs; elevator_init_fn makes the new one            *)
(* q->elevator or fails, with or without dropping the module's reference.  *)
Swap ==
  /\ switch.at = "swap"
  /\ registered' = elv_unregister_queue(switch.old)
  /\ \/ /\ etype' = [etype EXCEPT ![Fresh] = switch.new] /\ elevator' = Fresh
        /\ switch' = [switch EXCEPT !.at = "register"] /\ UNCHANGED refs
     \/ /\ switch' = [switch EXCEPT !.at = "restore"]
        /\ refs' \in {refs, elevator_put(refs, switch.new)}
        /\ UNCHANGED <<etype, elevator>>
  /\ UNCHANGED <<owner, sysfs_lock, flags, byp, exited, elv_list, reqs, run>>

(* elv_register_queue shows the new one in sysfs, if the old one was; when *)
(* that fails it is exited at once.                                        *)
elv_register_queue ==
  /\ switch.at = "register"
  /\ \/ /\ registered' = IF switch.registered THEN {elevator} ELSE {}
        /\ switch' = [switch EXCEPT !.at = "finish"] /\ UNCHANGED <<exited, refs>>
     \/ /\ switch.registered
        /\ elevator_exit(elevator, refs) /\ UNCHANGED registered
        /\ switch' = [switch EXCEPT !.at = "restore"]
  /\ UNCHANGED <<owner, sysfs_lock, flags, byp, elevator, etype, elv_list, reqs, run>>

KeepNew == elevator                             \* mutant: q->elevator = old is lost
Restored == switch.old

(* Success: the old scheduler is exited.  Failure: it is put back, and     *)
(* registered again whether it was or not; an error of that is ignored.    *)
SwitchEnds ==
  /\ \/ /\ switch.at = "finish"
        /\ elevator_exit(switch.old, refs) /\ UNCHANGED <<elevator, registered>>
     \/ /\ switch.at = "restore"
        /\ elevator' = Restored
        /\ registered' \in {{}, {Restored}}
        /\ UNCHANGED <<exited, refs>>
  /\ blk_queue_bypass_end
  /\ sysfs_lock' = "free" /\ switch' = Idle
  /\ UNCHANGED <<owner, flags, etype, elv_list, reqs, run>>

-----------------------------------------------------------------------------
Driver == RunEnter \/ RunExit \/ blk_fetch_request \/ process_one_work \/ blk_delay_work
          \/ blk_delay_queue \/ blk_stop_queue \/ blk_start_queue
Insertion == \E r \in Requests, where \in Where : __elv_add_request(r, where)
Submitter == get_request \/ Insertion
             \/ \E r \in Requests : blk_requeue_request(r) \/ __blk_put_request(r)
Owner == blk_alloc_queue_node \/ InitQueue \/ elevator_init \/ blk_register_queue
         \/ blk_set_queue_dying \/ EnterBypass \/ CleanupDrain \/ blk_sync_queue \/ blk_put_queue
Switcher == blk_get_queue \/ __elevator_change \/ SwitchBypass \/ SwitchDrain \/ Swap
            \/ elv_register_queue \/ SwitchEnds
Modules == \E t \in Types : elv_register(t) \/ elv_unregister(t)

Next == Driver \/ Submitter \/ Owner \/ Switcher \/ Modules

(* What the kernel schedules: the threads inside the code above, the       *)
(* worker, and a driver whose request_fn fetches and ends, which restarts  *)
(* a queue it stopped and does not requeue a request for ever.  Nothing    *)
(* makes anybody submit, switch or clean up.                               *)
Fairness ==
  /\ WF_vars(RunEnter) /\ WF_vars(RunExit) /\ SF_vars(blk_fetch_request)
  /\ WF_vars(process_one_work) /\ WF_vars(blk_delay_work) /\ WF_vars(blk_start_queue)
  /\ WF_vars(Insertion)
  /\ SF_vars(\E r \in Requests : __blk_put_request(r))
  /\ WF_vars(EnterBypass \/ CleanupDrain \/ blk_sync_queue \/ blk_put_queue)
  /\ WF_vars(__elevator_change \/ SwitchBypass \/ SwitchDrain \/ Swap \/ elv_register_queue
             \/ SwitchEnds)

Spec == Init /\ [][Next]_vars /\ Fairness

-----------------------------------------------------------------------------
(* Every variable has its type; the counters stay in their bounds.         *)
TypeOK ==
  /\ rq \in [Requests -> {"free", "owned", "sched", "head", "driver"}]
  /\ priv \in [Requests -> 0 .. MaxInstances] /\ home \in [Requests -> 0 .. MaxInstances]
  /\ elevator \in 0 .. MaxInstances /\ exited \subseteq Created /\ elv_list \subseteq Types
  /\ fnrun \subseteq {"irq", "work", "switch", "owner"} /\ work \subseteq {"armed", "begun"}
  /\ bypass_depth \in 0 .. 3 /\ sysfs_lock \in {"free", "owner", "switch"}

(* A request that carries a scheduler's data, or waits on its lists, does  *)
(* so in the queue's present scheduler, which is not torn down: no switch  *)
(* and no clean-up overtakes a request between allocation and insertion.   *)
RequestsHaveScheduler ==
  \A r \in Requests :
    /\ priv[r] # 0 => priv[r] = elevator /\ priv[r] \in Live
    /\ rq[r] = "sched" => home[r] = elevator

(* bypass_depth counts who has the queue in bypass mode (a new queue, a    *)
(* switch, a clean-up) and the flag says whether anybody has: a dying      *)
(* queue never leaves bypass mode when a concurrent switch ends.           *)
BypassExact ==
  /\ bypass = (bypass_depth > 0)
  /\ bypass_depth = (IF owner \notin {"none", "gone"} /\ ~ init_done THEN 1 ELSE 0)
                  + (IF switch.at \notin {"idle", "change", "bypass"} THEN 1 ELSE 0)
                  + (IF owner \in {"drain", "sync", "put"} THEN 1 ELSE 0)
     \/ owner = "gone"

(* Once blk_cleanup_queue is past blk_sync_queue no request is left, no    *)
(* delayed work is armed or has begun (it would lock a queue that is gone),*)
(* and request_fn does not run.                                            *)
QuietAfterCleanup == owner \in {"put", "gone"} => nr_rqs = 0 /\ work = {} /\ fnrun = {}

(* The module of a scheduler in use is not unloaded, and sysfs never shows *)
(* a scheduler that was torn down.                                         *)
SchedulerInUse ==
  /\ \A e \in Live : etype[e] \in elv_list
  /\ registered \subseteq Live

(* blk_cleanup_queue ends: the drain reaches zero also with a switch under *)
(* way, a stopped queue and requests that are still being submitted.       *)
CleanupEnds == dying ~> owner = "gone"
=============================================================================
