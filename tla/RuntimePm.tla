----------------------------- MODULE RuntimePm -----------------------------
(***************************************************************************)
(* Runtime power management of a queue's device (the CONFIG_PM parts of    *)
(* blk-core.c and elevator.c).  Normal requests are counted in             *)
(* q->nr_pending from their insertion to their release and held back       *)
(* unless the device is active; requests with REQ_PM, which the driver's   *)
(* suspend and resume callbacks send and wait for, are neither.            *)
(*                                                                         *)
(* External: the PM core, which calls the callbacks one at a time, and the *)
(* driver.  What the core knows (core) and what the queue knows            *)
(* (rpm_status) change at different moments.  Every action but the core's  *)
(* own is a critical section of q->queue_lock.                             *)
(***************************************************************************)
EXTENDS Integers, Sequences, FiniteSets, SequencesExt

CONSTANTS Normal,      \* requests without REQ_PM
          PmRequest,   \* the request a callback sends
          Wrap,        \* one more than the largest unsigned int
          MaxUnsent    \* bound: requests put back without having been sent

ASSUME RuntimePmAssumption ==
  /\ Wrap \in Nat \ {0, 1} /\ MaxUnsent \in Nat /\ PmRequest \notin Normal
  /\ IsFiniteSet(Normal) /\ Cardinality(Normal) < Wrap    \* an unsigned int counts them all

Requests == Normal \union {PmRequest}

VARIABLES
  rpm_status, nr_pending,
  queue_head,      \* requests waiting, first one first (the scheduler's included)
  rq,              \* where each request is
  run,             \* the queue is being run, or is about to be
  core,            \* the PM core: "active", "suspended", or where a callback is
  sent,            \* the present callback has sent its request
  resume_asked,    \* the core has a resume to do, or to do after the suspend
  failed, unsent,  \* a callback has failed; requests put without having been sent
  overtaken        \* a normal request went in front of a callback's

status == <<rpm_status, core, sent>>
vars   == <<status, nr_pending, queue_head, rq, run, resume_asked, failed, unsent,
            overtaken>>

(* blk_pm_runtime_init.                                                    *)
Init ==
  /\ rpm_status = "ACTIVE" /\ nr_pending = 0
  /\ queue_head = <<>> /\ rq = [r \in Requests |-> "free"] /\ run = FALSE
  /\ core = "active" /\ sent = FALSE /\ resume_asked = FALSE
  /\ failed = FALSE /\ unsent = 0 /\ overtaken = FALSE

-----------------------------------------------------------------------------
(* The count, an unsigned int.                                             *)
Inc(n) == (n + 1) % Wrap
Dec(n) == (n - 1) % Wrap

(* pm_request_resume: nothing if a resume is already under way.            *)
pm_request_resume == resume_asked' = (core # "resume")

ResumesSuspended(n) ==                           \* mutant: SUSPENDING is forgotten
  /\ nr_pending' = Inc(n)
  /\ IF n = 0 /\ rpm_status = "SUSPENDED" THEN pm_request_resume ELSE UNCHANGED resume_asked
blk_pm_add_request(n) ==
  /\ nr_pending' = Inc(n)
  /\ IF n = 0 /\ rpm_status \in {"SUSPENDED", "SUSPENDING"}
     THEN pm_request_resume ELSE UNCHANGED resume_asked

StaysPending(n) == n                             \* mutant: a requeue counts once more
blk_pm_requeue_request(n) == Dec(n)
blk_pm_put_request(r) == nr_pending' = IF r \in Normal THEN Dec(nr_pending) ELSE nr_pending

OnlySuspended(r) == rpm_status # "SUSPENDED"     \* mutant: held back when all the way down
blk_pm_peek_request(r) ==
  ~ (rpm_status = "SUSPENDED" \/ (rpm_status # "ACTIVE" /\ r \in Normal))

-----------------------------------------------------------------------------
(* Submission: allocation, then insertion or, when blk_make_request cannot *)
(* map the bio, the release of a request that was never inserted.          *)
blk_get_request(r) ==
  /\ rq[r] = "free" /\ rq' = [rq EXCEPT ![r] = "owned"]
  /\ UNCHANGED <<status, nr_pending, queue_head, run, resume_asked, failed, unsent, overtaken>>

(* At the back of the queue, or at its front (blk_execute_rq at_head).     *)
__elv_add_request(r, at_head) ==
  /\ rq[r] = "owned" /\ rq' = [rq EXCEPT ![r] = "queued"]
  /\ queue_head' = IF at_head THEN Cons(r, queue_head) ELSE Append(queue_head, r)
  /\ overtaken' = (overtaken \/ (at_head /\ rq[PmRequest] = "queued"))
  /\ run' = TRUE /\ blk_pm_add_request(nr_pending)
  /\ UNCHANGED <<status, failed, unsent>>

blk_make_request_fails(r) ==
  /\ rq[r] = "owned" /\ unsent < MaxUnsent
  /\ rq' = [rq EXCEPT ![r] = "free"] /\ unsent' = unsent + 1
  /\ blk_pm_put_request(r)
  /\ UNCHANGED <<status, queue_head, run, resume_asked, failed, overtaken>>

(* request_fn: a request that may not run is not returned, nor is any      *)
(* behind it; the driver also stops when it has enough.                    *)
blk_peek_request ==
  /\ run /\ queue_head # <<>> /\ blk_pm_peek_request(Head(queue_head))
  /\ rq' = [rq EXCEPT ![Head(queue_head)] = "driver"] /\ queue_head' = Tail(queue_head)
  /\ UNCHANGED <<status, nr_pending, run, resume_asked, failed, unsent, overtaken>>

RunEnds ==
  /\ run /\ run' = FALSE
  /\ queue_head # <<>> /\ blk_pm_peek_request(Head(queue_head)) =>
       \E r \in Requests : rq[r] = "driver"
  /\ UNCHANGED <<status, nr_pending, queue_head, rq, resume_asked, failed, unsent, overtaken>>

(* elv_requeue_request takes the request out of the count and inserts it   *)
(* again, at the front.                                                    *)
blk_requeue_request(r) ==
  /\ rq[r] = "driver" /\ rq' = [rq EXCEPT ![r] = "queued"]
  /\ queue_head' = Cons(r, queue_head) /\ run' = TRUE
  /\ IF r \in Normal THEN blk_pm_add_request(blk_pm_requeue_request(nr_pending))
     ELSE UNCHANGED <<nr_pending, resume_asked>>
  /\ UNCHANGED <<status, failed, unsent, overtaken>>

__blk_put_request(r) ==
  /\ rq[r] = "driver" /\ rq' = [rq EXCEPT ![r] = "free"] /\ run' = TRUE
  /\ blk_pm_put_request(r)
  /\ UNCHANGED <<status, queue_head, resume_asked, failed, unsent, overtaken>>

-----------------------------------------------------------------------------
(* The PM core: the autosuspend timer; a resume for the queue or for       *)
(* somebody else.                                                          *)
Autosuspend ==
  /\ core = "active" /\ core' = "suspend"
  /\ UNCHANGED <<rpm_status, sent, nr_pending, queue_head, rq, run, resume_asked, failed, unsent,
                 overtaken>>

Resume ==
  /\ core = "suspended" /\ resume_asked
  /\ core' = "resume" /\ resume_asked' = FALSE
  /\ UNCHANGED <<rpm_status, sent, nr_pending, queue_head, rq, run, failed, unsent, overtaken>>

pm_runtime_get ==
  /\ core = "suspended" /\ resume_asked' = TRUE
  /\ UNCHANGED <<status, nr_pending, queue_head, rq, run, failed, unsent, overtaken>>

(* The callbacks.  They end with the driver's own work, which may send one *)
(* request at the front of the queue (blk_execute_rq) and waits for it.    *)
blk_pre_runtime_suspend ==
  /\ core = "suspend"
  /\ IF nr_pending # 0
     THEN core' = "active" /\ UNCHANGED rpm_status
     ELSE core' = "quiesce" /\ rpm_status' = "SUSPENDING"
  /\ sent' = FALSE
  /\ UNCHANGED <<nr_pending, queue_head, rq, run, resume_asked, failed, unsent, overtaken>>

blk_pre_runtime_resume ==
  /\ core = "resume" /\ core' = "spinup" /\ rpm_status' = "RESUMING" /\ sent' = FALSE
  /\ UNCHANGED <<nr_pending, queue_head, rq, run, resume_asked, failed, unsent, overtaken>>

InsertBack(r) == Append(queue_head, r)           \* mutant: the PM request waits in line
InsertFront(r) == Cons(r, queue_head)

SendPm ==
  /\ core \in {"quiesce", "spinup"} /\ ~ sent /\ sent' = TRUE
  /\ rq' = [rq EXCEPT ![PmRequest] = "queued"]
  /\ queue_head' = InsertFront(PmRequest) /\ run' = TRUE
  /\ UNCHANGED <<rpm_status, core, nr_pending, resume_asked, failed, unsent, overtaken>>

WorkDone == rq[PmRequest] = "free"

(* After a failure the core forgets a resume asked for in the meantime.    *)
blk_post_runtime_suspend(err) ==
  /\ core = "quiesce" /\ WorkDone
  /\ IF err
     THEN rpm_status' = "ACTIVE" /\ core' = "active" /\ failed' = TRUE /\ resume_asked' = FALSE
     ELSE rpm_status' = "SUSPENDED" /\ core' = "suspended" /\ UNCHANGED <<failed, resume_asked>>
  /\ UNCHANGED <<sent, nr_pending, queue_head, rq, run, unsent, overtaken>>

blk_post_runtime_resume(err) ==
  /\ core = "spinup" /\ WorkDone
  /\ IF err
     THEN rpm_status' = "SUSPENDED" /\ core' = "suspended" /\ failed' = TRUE /\ UNCHANGED run
     ELSE rpm_status' = "ACTIVE" /\ core' = "active" /\ run' = TRUE /\ UNCHANGED failed
  /\ UNCHANGED <<sent, nr_pending, queue_head, rq, resume_asked, unsent, overtaken>>

-----------------------------------------------------------------------------
Submitter == \E r \in Normal : blk_get_request(r) \/ blk_make_request_fails(r)
                               \/ \E at_head \in BOOLEAN : __elv_add_request(r, at_head)
Driver == blk_peek_request \/ RunEnds
          \/ \E r \in Requests : blk_requeue_request(r) \/ __blk_put_request(r)
Callback == blk_pre_runtime_suspend \/ blk_pre_runtime_resume \/ SendPm
            \/ \E err \in BOOLEAN : blk_post_runtime_suspend(err) \/ blk_post_runtime_resume(err)
Next == Submitter \/ Driver \/ Callback \/ Autosuspend \/ Resume \/ pm_runtime_get

(* Callbacks and the core's worker are scheduled; a driver that runs the   *)
(* queue takes what it gets and completes it, if after some requeues.      *)
Spec ==
  /\ Init /\ [][Next]_vars
  /\ WF_vars(Callback) /\ WF_vars(Resume) /\ SF_vars(blk_peek_request) /\ WF_vars(RunEnds)
  /\ \A r \in Requests : SF_vars(__blk_put_request(r))

-----------------------------------------------------------------------------
(* Every variable has its type; the count stays an unsigned int.           *)
TypeOK ==
  /\ rpm_status \in {"ACTIVE", "SUSPENDING", "SUSPENDED", "RESUMING"}
  /\ core \in {"active", "suspend", "quiesce", "suspended", "resume", "spinup"}
  /\ nr_pending \in 0 .. Wrap - 1 /\ unsent \in 0 .. MaxUnsent
  /\ rq \in [Requests -> {"free", "owned", "queued", "driver"}]
  /\ ToSet(queue_head) = {r \in Requests : rq[r] = "queued"}
  /\ run \in BOOLEAN /\ sent \in BOOLEAN /\ resume_asked \in BOOLEAN
  /\ failed \in BOOLEAN /\ overtaken \in BOOLEAN

(* nr_pending is the number of normal requests from insertion to release,  *)
(* through requeues and completions in any order, less one for every       *)
(* request that was released without having been inserted.                 *)
PendingExact ==
  nr_pending = (Cardinality({r \in Normal : rq[r] \in {"queued", "driver"}}) - unsent) % Wrap

(* A device that is suspended, or on its way down or up, is given no       *)
(* normal request and keeps none; one that is suspended is given nothing.  *)
(* (Once an unsent request was put the count is too small and this ends.)  *)
DeviceUp ==
  unsent = 0 => \A r \in Requests :
    rq[r] = "driver" => rpm_status = "ACTIVE" \/ (r = PmRequest /\ rpm_status # "SUSPENDED")

(* A request that waits is started: one that arrives in the middle of a    *)
(* suspend or resume gets the device resumed and the queue run.  (Requests *)
(* inserted at the front for ever would starve it.)  A failed callback     *)
(* ends this: nobody runs the queue, or asks for a resume, again.  So does *)
(* a request that overtakes the callback's: the queue stays stuck.         *)
FrontInsertion == \E r \in Normal : __elv_add_request(r, TRUE)
PendingServed ==
  <>[][~ FrontInsertion]_vars =>
    \A r \in Normal : rq[r] = "queued" ~> (rq[r] # "queued" \/ failed \/ unsent > 0 \/ overtaken)

(* A callback ends, also with requests waiting that wait for it: its own   *)
(* request is not stuck behind them.  Only a normal request inserted at    *)
(* the front while it waits stops it: blk_peek_request never returns that  *)
(* one, nor what is behind it, and the callback waits for ever.            *)
CallbacksEnd ==
  core \in {"spinup", "quiesce"} ~> (core \in {"active", "suspended"} \/ unsent > 0 \/ overtaken)
=============================================================================
