--------------------------- MODULE RuntimePm_proofs ---------------------------
(***************************************************************************)
(* The count of pending requests is exact, and no normal request is with   *)
(* the driver of a device that is not active, for every number of requests *)
(* and every width of the count that can hold it.                          *)
(***************************************************************************)
EXTENDS RuntimePm, ListLemmas, FiniteSetTheorems

(* Each request that waits is in the queue once.                           *)
QueueInv ==
  /\ rq \in [Requests -> {"free", "owned", "queued", "driver"}]
  /\ queue_head \in Seq(Requests) /\ NoDuplicates(queue_head)
  /\ ToSet(queue_head) = {r \in Requests : rq[r] = "queued"}

Pending == {r \in Normal : rq[r] \in {"queued", "driver"}}

CountInv ==
  /\ nr_pending \in 0 .. Wrap - 1 /\ unsent \in 0 .. MaxUnsent
  /\ nr_pending = (Cardinality(Pending) - unsent) % Wrap

(* What the queue knows follows what the core does, and the callback's own *)
(* request is out only while the callback that sent it waits for it.       *)
StatusInv ==
  /\ <<core, rpm_status>> \in {<<"active", "ACTIVE">>, <<"suspend", "ACTIVE">>,
                               <<"quiesce", "SUSPENDING">>, <<"suspended", "SUSPENDED">>,
                               <<"resume", "SUSPENDED">>, <<"spinup", "RESUMING">>}
  /\ run \in BOOLEAN /\ sent \in BOOLEAN /\ resume_asked \in BOOLEAN /\ failed \in BOOLEAN
  /\ overtaken \in BOOLEAN
  /\ rq[PmRequest] # "free" =>
       rq[PmRequest] # "owned" /\ sent /\ core \in {"quiesce", "spinup"}

(* A suspend began with nothing pending, and what arrived since waits.     *)
DeviceInv == unsent = 0 => \A r \in Normal : rq[r] = "driver" => rpm_status = "ACTIVE"

PmInv == QueueInv /\ CountInv /\ StatusInv /\ DeviceInv

-----------------------------------------------------------------------------
(* An unsigned int counts modulo Wrap: division with remainder is unique.  *)
LEMMA Remainder ==
  ASSUME NEW x \in Int, NEW n \in Int, n = x + 1 \/ n = x - 1
  PROVE  ((x % Wrap) + (n - x)) % Wrap = n % Wrap
<1> DEFINE q == x \div Wrap
           m == x % Wrap
<1>1. Wrap \in Nat \ {0, 1}
  BY RuntimePmAssumption
<1>2. q \in Int /\ m \in 0 .. Wrap - 1 /\ x = Wrap * q + m
  BY <1>1
<1>3. ASSUME NEW a \in Int, NEW b \in 0 .. Wrap - 1 PROVE (Wrap * a + b) % Wrap = b
  BY <1>1
<1> HIDE DEF q, m
<1>4. Wrap * (q + 1) = Wrap * q + Wrap /\ Wrap * (q - 1) = Wrap * q - Wrap /\ Wrap * q \in Int
  BY <1>1, <1>2
<1>5. CASE m + (n - x) \in 0 .. Wrap - 1
  <2>1. n = Wrap * q + (m + (n - x))
    BY <1>2, <1>4
  <2>2. n % Wrap = m + (n - x)
    BY <1>2, <1>3, <1>5, <2>1
  <2>3. (m + (n - x)) % Wrap = m + (n - x)
    BY <1>1, <1>5
  <2> QED
    BY <2>2, <2>3 DEF m
<1>6. CASE m + (n - x) = Wrap
  <2>1. n = Wrap * (q + 1) + 0 /\ q + 1 \in Int /\ 0 \in 0 .. Wrap - 1
    BY <1>1, <1>2, <1>4, <1>6
  <2>2. n % Wrap = 0
    BY <1>3, <2>1
  <2>3. Wrap % Wrap = 0
    BY <1>1
  <2> QED
    BY <1>6, <2>2, <2>3 DEF m
<1>7. CASE m + (n - x) = -1
  <2>1. n = Wrap * (q - 1) + (Wrap - 1) /\ q - 1 \in Int /\ Wrap - 1 \in 0 .. Wrap - 1
    BY <1>1, <1>2, <1>4, <1>7
  <2>2. n % Wrap = Wrap - 1
    BY <1>3, <2>1
  <2>3. (-1) % Wrap = Wrap - 1
    BY <1>1
  <2> QED
    BY <1>7, <2>2, <2>3 DEF m
<1> QED
  BY <1>1, <1>2, <1>5, <1>6, <1>7

(* Inc and Dec follow the number they stand for, and undo each other.      *)
LEMMA Counting ==
  /\ \A x \in Int : Inc(x % Wrap) = (x + 1) % Wrap /\ Dec(x % Wrap) = (x - 1) % Wrap
  /\ \A x \in Int : Inc(x) \in 0 .. Wrap - 1 /\ Dec(x) \in 0 .. Wrap - 1
  /\ \A x \in 0 .. Wrap - 1 : Inc(Dec(x)) = x /\ x % Wrap = x
<1>1. Wrap \in Nat \ {0, 1}
  BY RuntimePmAssumption
<1>2. ASSUME NEW x \in Int
      PROVE  Inc(x % Wrap) = (x + 1) % Wrap /\ Dec(x % Wrap) = (x - 1) % Wrap
  <2>1. ((x % Wrap) + ((x + 1) - x)) % Wrap = (x + 1) % Wrap
    BY Remainder
  <2>2. ((x % Wrap) + ((x - 1) - x)) % Wrap = (x - 1) % Wrap
    BY Remainder
  <2>3. x % Wrap \in Int
    BY <1>1
  <2>4. (x % Wrap) + ((x + 1) - x) = (x % Wrap) + 1 /\ (x % Wrap) + ((x - 1) - x) = (x % Wrap) - 1
    BY <2>3
  <2> QED
    BY <2>1, <2>2, <2>4 DEF Inc, Dec
<1>3. \A x \in Int : Inc(x) \in 0 .. Wrap - 1 /\ Dec(x) \in 0 .. Wrap - 1
  BY <1>1 DEF Inc, Dec
<1>4. \A x \in 0 .. Wrap - 1 : Inc(Dec(x)) = x /\ x % Wrap = x
  BY <1>1 DEF Inc, Dec
<1> QED
  BY <1>2, <1>3, <1>4

(* The pending requests are finitely many.                                 *)
LEMMA PendingFinite ==
  /\ IsFiniteSet(Pending) /\ Cardinality(Pending) \in Nat
  /\ Cardinality(Pending) < Wrap /\ Wrap \in Nat \ {0, 1}
<1>1. Pending \in SUBSET Normal /\ IsFiniteSet(Normal) /\ Cardinality(Normal) < Wrap
      /\ Wrap \in Nat \ {0, 1}
  BY RuntimePmAssumption DEF Pending
<1>2. IsFiniteSet(Pending) /\ Cardinality(Pending) <= Cardinality(Normal)
  BY <1>1, FS_Subset
<1>3. Cardinality(Pending) \in Nat /\ Cardinality(Normal) \in Nat
  BY <1>1, <1>2, FS_CardinalityType
<1> QED
  BY <1>1, <1>2, <1>3

(* Initially nothing is pending and the device is active.                  *)
LEMMA PmInit == Init => PmInv
<1> SUFFICES ASSUME Init PROVE PmInv
  OBVIOUS
<1>1. PmRequest \in Requests /\ Normal \subseteq Requests
  BY DEF Requests
<1>2. QueueInv
  <2>1. queue_head = <<>> /\ queue_head \in Seq(Requests) /\ Len(queue_head) = 0
    BY DEF Init
  <2>2. ToSet(queue_head) = {} /\ NoDuplicates(queue_head)
    BY <2>1, Entries DEF NoDuplicates
  <2> QED
    BY <2>1, <2>2 DEF QueueInv, Init
<1>3. Pending = {}
  BY <1>1 DEF Init, Pending
<1>4. Cardinality(Pending) = 0 /\ Wrap \in Nat \ {0, 1} /\ MaxUnsent \in Nat
  BY <1>3, FS_EmptySet, RuntimePmAssumption
<1>5. CountInv
  BY <1>4 DEF CountInv, Init
<1>6. StatusInv /\ DeviceInv
  BY <1>1 DEF Init, StatusInv, DeviceInv
<1> QED
  BY <1>2, <1>5, <1>6 DEF PmInv

-----------------------------------------------------------------------------
(* How a request moves: it alone, to a place.                              *)
Moves(r, place) == rq' = [rq EXCEPT ![r] = place]

(* A request joins the queue at either end.                                *)
LEMMA EnqueueKeeps ==
  ASSUME QueueInv, NEW r \in Requests, rq[r] # "queued", Moves(r, "queued"),
         queue_head' = Append(queue_head, r) \/ queue_head' = Cons(r, queue_head)
  PROVE  QueueInv'
<1>1. r \notin ToSet(queue_head) /\ queue_head \in Seq(Requests) /\ NoDuplicates(queue_head)
  BY DEF QueueInv
<1>2. /\ queue_head' \in Seq(Requests) /\ NoDuplicates(queue_head')
      /\ ToSet(queue_head') = ToSet(queue_head) \union {r}
  <2>1. CASE queue_head' = Append(queue_head, r)
    BY <1>1, <2>1, AppendEntries
  <2>2. CASE queue_head' = Cons(r, queue_head)
    BY <1>1, <2>2, ConsEntries
  <2> QED
    BY <2>1, <2>2
<1> QED
  BY <1>2 DEF QueueInv, Moves

(* The first request leaves the queue.                                     *)
LEMMA DequeueKeeps ==
  ASSUME QueueInv, queue_head # <<>>, Moves(Head(queue_head), "driver"),
         queue_head' = Tail(queue_head)
  PROVE  QueueInv' /\ Head(queue_head) \in Requests /\ rq[Head(queue_head)] = "queued"
<1>1. queue_head \in Seq(Requests) /\ NoDuplicates(queue_head)
  BY DEF QueueInv
<1> DEFINE h == Head(queue_head)
<1>2. /\ queue_head' \in Seq(Requests) /\ NoDuplicates(queue_head')
      /\ ToSet(queue_head') = ToSet(queue_head) \ {h}
      /\ h \in ToSet(queue_head) /\ h \in Requests
  BY <1>1, TailEntries
<1>3. Moves(h, "driver")
  OBVIOUS
<1> HIDE DEF h
<1>4. QueueInv' /\ h \in Requests /\ rq[h] = "queued"
  BY <1>2, <1>3 DEF QueueInv, Moves
<1> QED
  BY <1>4 DEF h

(* A request moves between places outside the queue.                       *)
LEMMA OutsideKeeps ==
  ASSUME QueueInv, NEW r \in Requests, rq[r] # "queued",
         NEW place \in {"free", "owned", "driver"}, Moves(r, place), queue_head' = queue_head
  PROVE  QueueInv'
  BY DEF QueueInv, Moves

(* A request that becomes pending is counted.                              *)
LEMMA CountAdded ==
  ASSUME QueueInv, CountInv, NEW r \in Normal, rq[r] \notin {"queued", "driver"},
         Moves(r, "queued"), nr_pending' = Inc(nr_pending), unsent' = unsent
  PROVE  CountInv'
<1> DEFINE k == Cardinality(Pending)
<1>1. Pending' = Pending \union {r} /\ r \notin Pending
  BY DEF QueueInv, Pending, Moves, Requests
<1>2. Cardinality(Pending') = k + 1 /\ k \in Nat
  BY <1>1, PendingFinite, FS_AddElement
<1>3. unsent \in 0 .. MaxUnsent /\ MaxUnsent \in Nat /\ nr_pending = (k - unsent) % Wrap
  BY RuntimePmAssumption DEF CountInv
<1> HIDE DEF k
<1>4. nr_pending' = ((k - unsent) + 1) % Wrap /\ nr_pending' \in 0 .. Wrap - 1
  <2>1. k - unsent \in Int
    BY <1>2, <1>3
  <2>2. (k - unsent) % Wrap \in Int
    BY <2>1, PendingFinite
  <2> QED
    BY <1>3, <2>1, <2>2, Counting
<1>5. (k - unsent) + 1 = (k + 1) - unsent
  BY <1>2, <1>3
<1> QED
  BY <1>2, <1>3, <1>4, <1>5 DEF CountInv

(* One that is released is counted off.                                    *)
LEMMA CountRemoved ==
  ASSUME QueueInv, CountInv, NEW r \in Normal, rq[r] = "driver",
         Moves(r, "free"), nr_pending' = Dec(nr_pending), unsent' = unsent
  PROVE  CountInv'
<1> DEFINE k == Cardinality(Pending)
<1>1. Pending' = Pending \ {r} /\ r \in Pending
  BY DEF QueueInv, Pending, Moves, Requests
<1>2. Cardinality(Pending') = k - 1 /\ k \in Nat
  BY <1>1, PendingFinite, FS_RemoveElement
<1>3. unsent \in 0 .. MaxUnsent /\ MaxUnsent \in Nat /\ nr_pending = (k - unsent) % Wrap
  BY RuntimePmAssumption DEF CountInv
<1> HIDE DEF k
<1>4. nr_pending' = ((k - unsent) - 1) % Wrap /\ nr_pending' \in 0 .. Wrap - 1
  <2>1. k - unsent \in Int
    BY <1>2, <1>3
  <2>2. (k - unsent) % Wrap \in Int
    BY <2>1, PendingFinite
  <2> QED
    BY <1>3, <2>1, <2>2, Counting
<1>5. (k - unsent) - 1 = (k - 1) - unsent
  BY <1>2, <1>3
<1> QED
  BY <1>2, <1>3, <1>4, <1>5 DEF CountInv

(* One that is released without having been inserted is counted off too.   *)
LEMMA CountUnsent ==
  ASSUME QueueInv, CountInv, Pending' = Pending, unsent < MaxUnsent,
         nr_pending' = Dec(nr_pending), unsent' = unsent + 1
  PROVE  CountInv'
<1> DEFINE k == Cardinality(Pending)
<1>1. Cardinality(Pending') = k /\ k \in Nat
  BY PendingFinite
<1>2. unsent \in 0 .. MaxUnsent /\ MaxUnsent \in Nat /\ nr_pending = (k - unsent) % Wrap
  BY RuntimePmAssumption DEF CountInv
<1> HIDE DEF k
<1>3. nr_pending' = ((k - unsent) - 1) % Wrap /\ nr_pending' \in 0 .. Wrap - 1
  <2>1. k - unsent \in Int
    BY <1>1, <1>2
  <2>2. (k - unsent) % Wrap \in Int
    BY <2>1, PendingFinite
  <2> QED
    BY <1>2, <2>1, <2>2, Counting
<1>4. (k - unsent) - 1 = k - (unsent + 1) /\ unsent + 1 \in 0 .. MaxUnsent
  BY <1>1, <1>2
<1> QED
  BY <1>1, <1>2, <1>3, <1>4 DEF CountInv

(* Without unsent requests a count of zero means that nothing is pending.  *)
LEMMA ZeroMeansNone ==
  ASSUME CountInv, unsent = 0, nr_pending = 0
  PROVE  Pending = {}
<1> DEFINE k == Cardinality(Pending)
<1>1. k \in 0 .. Wrap - 1 /\ k - 0 = k
  BY PendingFinite
<1>2. k % Wrap = k
  BY <1>1, Counting
<1>3. k % Wrap = 0
  BY <1>1 DEF CountInv
<1> QED
  BY <1>2, <1>3, PendingFinite, FS_EmptySet

-----------------------------------------------------------------------------
(* The submitter's steps.  A request it inserts waits, whatever the        *)
(* device's state.                                                         *)
LEMMA SubmitterKeeps ==
  ASSUME PmInv, Submitter
  PROVE  PmInv'
<1>0. /\ QueueInv /\ CountInv /\ StatusInv /\ DeviceInv /\ Normal \subseteq Requests
      /\ PmRequest \in Requests
      /\ rq \in [Requests -> {"free", "owned", "queued", "driver"}]
  BY DEF PmInv, Requests, QueueInv
<1>1. PICK r \in Normal : \/ blk_get_request(r) \/ blk_make_request_fails(r)
                          \/ \E at_head \in BOOLEAN : __elv_add_request(r, at_head)
  BY DEF Submitter
<1>2. r \in Requests /\ r # PmRequest
  BY <1>0, RuntimePmAssumption
<1>3. ASSUME NEW place \in {"owned", "queued", "free"}, Moves(r, place), UNCHANGED status,
             run' \in {run, TRUE}, resume_asked' \in BOOLEAN, overtaken' \in BOOLEAN, failed' = failed,
             unsent' \in {unsent, unsent + 1}
      PROVE  StatusInv' /\ DeviceInv'
  <2>1. rq'[PmRequest] = rq[PmRequest] /\ \A x \in Normal : rq'[x] = "driver" => rq[x] = "driver"
    BY <1>0, <1>2, <1>3 DEF Moves
  <2>2. unsent' = 0 => unsent = 0
    BY <1>0, <1>3, RuntimePmAssumption DEF CountInv
  <2> QED
    BY <1>0, <1>3, <2>1, <2>2 DEF StatusInv, DeviceInv, status
<1>4. resume_asked \in BOOLEAN /\ overtaken \in BOOLEAN
  BY <1>0 DEF StatusInv
<1>5. CASE blk_get_request(r)
  <2>1. /\ Moves(r, "owned") /\ rq[r] = "free"
        /\ UNCHANGED <<status, nr_pending, queue_head, run, resume_asked, failed, unsent, overtaken>>
    BY <1>5 DEF blk_get_request, Moves
  <2>2. QueueInv'
    BY <1>0, <1>2, <2>1, OutsideKeeps
  <2>3. Pending' = Pending
    BY <1>0, <1>2, <2>1 DEF Pending, Moves
  <2>4. CountInv'
    BY <1>0, <2>1, <2>3 DEF CountInv
  <2> QED
    BY <1>3, <1>4, <2>1, <2>2, <2>4 DEF PmInv
<1>6. ASSUME NEW at_head \in BOOLEAN, __elv_add_request(r, at_head)
      PROVE  PmInv'
  <2>1. /\ Moves(r, "queued") /\ rq[r] = "owned"
        /\ queue_head' = Append(queue_head, r) \/ queue_head' = Cons(r, queue_head)
        /\ run' = TRUE /\ UNCHANGED <<status, failed, unsent>> /\ nr_pending' = Inc(nr_pending)
        /\ overtaken' \in BOOLEAN
    BY <1>4, <1>6 DEF __elv_add_request, blk_pm_add_request, Moves
  <2>2. resume_asked' \in BOOLEAN
    BY <1>4, <1>6 DEF __elv_add_request, blk_pm_add_request, pm_request_resume
  <2>3. QueueInv'
    BY <1>0, <1>2, <2>1, EnqueueKeeps
  <2>4. CountInv'
    BY <1>0, <2>1, CountAdded
  <2> QED
    BY <1>3, <2>1, <2>2, <2>3, <2>4 DEF PmInv
<1>7. CASE blk_make_request_fails(r)
  <2>1. /\ Moves(r, "free") /\ rq[r] = "owned" /\ unsent < MaxUnsent /\ unsent' = unsent + 1
        /\ nr_pending' = Dec(nr_pending)
        /\ UNCHANGED <<status, queue_head, run, resume_asked, failed, overtaken>>
    BY <1>7 DEF blk_make_request_fails, blk_pm_put_request, Moves
  <2>2. QueueInv'
    BY <1>0, <1>2, <2>1, OutsideKeeps
  <2>3. Pending' = Pending
    BY <1>0, <1>2, <2>1 DEF Pending, Moves
  <2>4. CountInv'
    BY <1>0, <2>1, <2>3, CountUnsent
  <2> QED
    BY <1>3, <1>4, <2>1, <2>2, <2>4 DEF PmInv
<1> QED
  BY <1>1, <1>5, <1>6, <1>7

(* The driver's steps.  blk_pm_peek_request lets only a request through    *)
(* that the device's state allows; a requeue counts off and on again.      *)
LEMMA DriverKeeps ==
  ASSUME PmInv, Driver
  PROVE  PmInv'
<1>0. /\ QueueInv /\ CountInv /\ StatusInv /\ DeviceInv /\ Normal \subseteq Requests
      /\ PmRequest \in Requests /\ PmRequest \notin Normal
      /\ rq \in [Requests -> {"free", "owned", "queued", "driver"}]
  BY RuntimePmAssumption DEF PmInv, Requests, QueueInv
<1>1. CASE blk_peek_request
  <2> DEFINE h == Head(queue_head)
  <2>1. /\ queue_head # <<>> /\ Moves(h, "driver") /\ queue_head' = Tail(queue_head)
        /\ UNCHANGED <<status, nr_pending, run, resume_asked, failed, unsent, overtaken>>
        /\ h \in Normal => rpm_status = "ACTIVE"
    BY <1>1 DEF blk_peek_request, blk_pm_peek_request, Moves
  <2>2. QueueInv' /\ h \in Requests /\ rq[h] = "queued"
    BY <1>0, <2>1, DequeueKeeps
  <2> HIDE DEF h
  <2>3. Pending' = Pending
    BY <1>0, <2>1, <2>2 DEF Pending, Moves
  <2>4. CountInv'
    BY <1>0, <2>1, <2>3 DEF CountInv
  <2>5. StatusInv'
    <3>1. rq'[PmRequest] \in {rq[PmRequest], "driver"} /\ (rq'[PmRequest] = "driver" => rq[PmRequest] # "free")
      BY <1>0, <2>1, <2>2 DEF Moves
    <3> QED
      BY <1>0, <2>1, <3>1 DEF StatusInv, status
  <2>6. DeviceInv'
    BY <1>0, <2>1, <2>2 DEF DeviceInv, Moves, status
  <2> QED
    BY <2>2, <2>4, <2>5, <2>6 DEF PmInv
<1>2. CASE RunEnds
  <2>1. run' = FALSE
        /\ UNCHANGED <<status, nr_pending, queue_head, rq, resume_asked, failed, unsent, overtaken>>
    BY <1>2 DEF RunEnds
  <2> QED
    BY <1>0, <2>1 DEF PmInv, QueueInv, CountInv, Pending, StatusInv, DeviceInv, status
<1>3. ASSUME NEW r \in Requests, blk_requeue_request(r)
      PROVE  PmInv'
  <2>1. /\ Moves(r, "queued") /\ rq[r] = "driver" /\ queue_head' = Cons(r, queue_head)
        /\ run' = TRUE /\ UNCHANGED <<status, failed, unsent, overtaken>>
    BY <1>3 DEF blk_requeue_request, Moves
  <2>2. QueueInv'
    BY <1>0, <2>1, EnqueueKeeps
  <2>3. Pending' = Pending
    BY <1>0, <2>1 DEF Pending, Moves
  <2>4. nr_pending' = nr_pending /\ resume_asked' \in BOOLEAN
    <3>1. nr_pending \in 0 .. Wrap - 1 /\ resume_asked \in BOOLEAN
      BY <1>0 DEF CountInv, StatusInv
    <3>2. CASE r \in Normal
      <4>1. nr_pending' = Inc(Dec(nr_pending))
        BY <1>3, <3>2 DEF blk_requeue_request, blk_pm_add_request, blk_pm_requeue_request
      <4>2. resume_asked' \in BOOLEAN
        BY <1>3, <3>1, <3>2 DEF blk_requeue_request, blk_pm_add_request, pm_request_resume
      <4> QED
        BY <3>1, <4>1, <4>2, Counting
    <3>3. CASE r \notin Normal
      BY <1>3, <3>1, <3>3 DEF blk_requeue_request
    <3> QED
      BY <3>2, <3>3
  <2>5. CountInv'
    BY <1>0, <2>1, <2>3, <2>4 DEF CountInv
  <2>6. StatusInv'
    <3>1. /\ rq'[PmRequest] \in {rq[PmRequest], "queued"}
          /\ rq'[PmRequest] # rq[PmRequest] => rq[PmRequest] # "free"
      BY <1>0, <2>1 DEF Moves
    <3> QED
      BY <1>0, <2>1, <2>4, <3>1 DEF StatusInv, status
  <2>7. DeviceInv'
    BY <1>0, <2>1 DEF DeviceInv, Moves, status
  <2> QED
    BY <2>2, <2>5, <2>6, <2>7 DEF PmInv
<1>4. ASSUME NEW r \in Requests, __blk_put_request(r)
      PROVE  PmInv'
  <2>1. /\ Moves(r, "free") /\ rq[r] = "driver" /\ run' = TRUE
        /\ nr_pending' = IF r \in Normal THEN Dec(nr_pending) ELSE nr_pending
        /\ UNCHANGED <<status, queue_head, resume_asked, failed, unsent, overtaken>>
    BY <1>4 DEF __blk_put_request, blk_pm_put_request, Moves
  <2>2. QueueInv'
    BY <1>0, <2>1, OutsideKeeps
  <2>3. CountInv'
    <3>1. CASE r \in Normal
      BY <1>0, <2>1, <3>1, CountRemoved
    <3>2. CASE r \notin Normal
      <4>1. Pending' = Pending
        BY <1>0, <2>1, <3>2 DEF Pending, Moves
      <4> QED
        BY <1>0, <2>1, <3>2, <4>1 DEF CountInv
    <3> QED
      BY <3>1, <3>2
  <2>4. StatusInv'
    <3>1. rq'[PmRequest] \in {rq[PmRequest], "free"}
      BY <1>0, <2>1 DEF Moves
    <3> QED
      BY <1>0, <2>1, <3>1 DEF StatusInv, status
  <2>5. DeviceInv'
    BY <1>0, <2>1 DEF DeviceInv, Moves, status
  <2> QED
    BY <2>2, <2>3, <2>4, <2>5 DEF PmInv
<1> QED
  BY <1>1, <1>2, <1>3, <1>4 DEF Driver

(* The callbacks and the core.  A suspend goes on only with a count of     *)
(* zero, and so with nothing in the driver.                                *)
LEMMA CoreKeeps ==
  ASSUME PmInv, Callback \/ Autosuspend \/ Resume \/ pm_runtime_get
  PROVE  PmInv'
<1>0. /\ QueueInv /\ CountInv /\ StatusInv /\ DeviceInv /\ Normal \subseteq Requests
      /\ PmRequest \in Requests /\ PmRequest \notin Normal
      /\ rq \in [Requests -> {"free", "owned", "queued", "driver"}]
  BY RuntimePmAssumption DEF PmInv, Requests, QueueInv
<1>1. ASSUME UNCHANGED <<nr_pending, queue_head, rq, unsent>>, StatusInv', DeviceInv'
      PROVE  PmInv'
  BY <1>0, <1>1 DEF PmInv, QueueInv, CountInv, Pending
<1>2. CASE blk_pre_runtime_suspend
  <2>1. UNCHANGED <<nr_pending, queue_head, rq, unsent>>
    BY <1>2 DEF blk_pre_runtime_suspend
  <2>2. StatusInv'
    BY <1>0, <1>2 DEF blk_pre_runtime_suspend, StatusInv
  <2>3. DeviceInv'
    <3>1. CASE nr_pending # 0
      BY <1>0, <1>2, <3>1 DEF blk_pre_runtime_suspend, DeviceInv
    <3>2. CASE nr_pending = 0
      <4>1. unsent = 0 => Pending = {}
        BY <1>0, <3>2, ZeroMeansNone
      <4> QED
        BY <2>1, <4>1 DEF DeviceInv, Pending
    <3> QED
      BY <3>1, <3>2
  <2> QED
    BY <1>1, <2>1, <2>2, <2>3
<1>3. CASE blk_pre_runtime_resume
  BY <1>0, <1>1, <1>3 DEF blk_pre_runtime_resume, StatusInv, DeviceInv
<1>4. CASE SendPm
  <2>1. /\ Moves(PmRequest, "queued") /\ queue_head' = Cons(PmRequest, queue_head)
        /\ core \in {"quiesce", "spinup"} /\ ~ sent /\ sent' = TRUE /\ run' = TRUE
        /\ UNCHANGED <<rpm_status, core, nr_pending, resume_asked, failed, unsent, overtaken>>
    BY <1>4 DEF SendPm, InsertFront, Moves
  <2>2. rq[PmRequest] = "free"
    BY <1>0, <2>1 DEF StatusInv
  <2>3. QueueInv'
    BY <1>0, <2>1, <2>2, EnqueueKeeps
  <2>4. Pending' = Pending /\ rq'[PmRequest] = "queued" /\ \A r \in Normal : rq'[r] = rq[r]
    BY <1>0, <2>1 DEF Pending, Moves
  <2>5. CountInv'
    BY <1>0, <2>1, <2>4 DEF CountInv
  <2>6. StatusInv' /\ DeviceInv'
    BY <1>0, <2>1, <2>4 DEF StatusInv, DeviceInv
  <2> QED
    BY <2>3, <2>5, <2>6 DEF PmInv
<1>5. ASSUME NEW err \in BOOLEAN, blk_post_runtime_suspend(err)
      PROVE  PmInv'
  <2>1. UNCHANGED <<sent, nr_pending, queue_head, rq, run, unsent>> /\ rq[PmRequest] = "free"
        /\ core = "quiesce"
    BY <1>5 DEF blk_post_runtime_suspend, WorkDone
  <2>2. StatusInv' /\ DeviceInv'
    BY <1>0, <1>5, <2>1 DEF blk_post_runtime_suspend, StatusInv, DeviceInv
  <2> QED
    BY <1>1, <2>1, <2>2
<1>6. ASSUME NEW err \in BOOLEAN, blk_post_runtime_resume(err)
      PROVE  PmInv'
  <2>1. UNCHANGED <<sent, nr_pending, queue_head, rq, resume_asked, unsent>>
        /\ rq[PmRequest] = "free" /\ core = "spinup"
    BY <1>6 DEF blk_post_runtime_resume, WorkDone
  <2>2. StatusInv' /\ DeviceInv'
    BY <1>0, <1>6, <2>1 DEF blk_post_runtime_resume, StatusInv, DeviceInv
  <2> QED
    BY <1>1, <2>1, <2>2
<1>7. CASE Autosuspend
  BY <1>0, <1>1, <1>7 DEF Autosuspend, StatusInv, DeviceInv
<1>8. CASE Resume
  BY <1>0, <1>1, <1>8 DEF Resume, StatusInv, DeviceInv
<1>9. CASE pm_runtime_get
  BY <1>0, <1>1, <1>9 DEF pm_runtime_get, StatusInv, DeviceInv, status
<1> QED
  BY <1>2, <1>3, <1>4, <1>5, <1>6, <1>7, <1>8, <1>9 DEF Callback

(* The invariant holds throughout.                                         *)
LEMMA PmInvHolds == Spec => []PmInv
<1>1. PmInv /\ [Next]_vars => PmInv'
  <2> SUFFICES ASSUME PmInv, [Next]_vars PROVE PmInv'
    OBVIOUS
  <2>1. CASE Next
    BY <2>1, SubmitterKeeps, DriverKeeps, CoreKeeps DEF Next
  <2>2. CASE UNCHANGED vars
    BY <2>2 DEF vars, status, PmInv, QueueInv, CountInv, Pending, StatusInv, DeviceInv
  <2> QED
    BY <2>1, <2>2
<1> QED
  BY <1>1, PmInit, PTL DEF Spec

-----------------------------------------------------------------------------
(* Every variable keeps its type; a waiting request is in the queue, and   *)
(* nothing else is.                                                        *)
THEOREM PmTypeCorrect == Spec => []TypeOK
<1>1. PmInv => TypeOK
  BY DEF PmInv, QueueInv, CountInv, StatusInv, TypeOK
<1> QED
  BY <1>1, PmInvHolds, PTL

(***************************************************************************)
(* nr_pending is exact, modulo the width of an unsigned int, through every *)
(* order of insertions, requeues, completions and suspends, less the       *)
(* requests that were put without having been inserted.                    *)
(***************************************************************************)
THEOREM CountExact == Spec => []PendingExact
<1>1. PmInv => PendingExact
  BY DEF PmInv, CountInv, Pending, PendingExact
<1> QED
  BY <1>1, PmInvHolds, PTL

(***************************************************************************)
(* A device that is not active is given no normal request and keeps none,  *)
(* as long as the count is not spoilt by a request put without having been *)
(* inserted.                                                               *)
(***************************************************************************)
THEOREM NoRequestToSleepingDevice == Spec => []DeviceUp
<1>1. PmInv => DeviceUp
  <2> SUFFICES ASSUME PmInv, unsent = 0, NEW r \in Requests, rq[r] = "driver"
               PROVE  rpm_status = "ACTIVE" \/ (r = PmRequest /\ rpm_status # "SUSPENDED")
    BY DEF DeviceUp
  <2>1. CASE r \in Normal
    BY <2>1 DEF PmInv, DeviceInv
  <2>2. CASE r = PmRequest
    BY <2>2 DEF PmInv, StatusInv
  <2> QED
    BY <2>1, <2>2 DEF Requests
<1> QED
  BY <1>1, PmInvHolds, PTL
=============================================================================
