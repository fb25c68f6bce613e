------------------------------ MODULE ReqTrack ------------------------------
(***************************************************************************)
(* The request recorder: blk_finish_request stores the times of completed  *)
(* requests in one global array (blk-core.c), three system calls reset,    *)
(* poll and fetch it (req_track.c), and tester.c drives them.              *)
(*                                                                         *)
(* blk_finish_request holds the lock of ITS queue, so completions of       *)
(* different queues run in parallel, and the system calls take no lock:    *)
(* every load and store of a global is a step of its own.  requests_seen   *)
(* is loaded again after the call of task_tgid_vnr, hence for the index;   *)
(* whether the increment adds to that value or to a fresh one is left to   *)
(* the compiler.                                                           *)
(***************************************************************************)
EXTENDS Integers

CONSTANTS
  Queues,      \* request queues whose completions are recorded
  Recorded,    \* REQS_RECORDED, and REQS_REQUESTED of tester.c (19500 both)
  WarmUp,      \* 500: tester.c starts afresh after that many records
  HighWords    \* what the upper half of tester.c's `long reqs', which nobody
               \* writes, may hold: "zero", "positive", "negative"

ASSUME ReqTrackAssumption ==
  /\ Recorded \in Nat /\ WarmUp \in Nat /\ WarmUp < Recorded
  /\ HighWords \subseteq {"zero", "positive", "negative"} /\ HighWords # {}

VARIABLES
  requests_seen, serv_recording,
  stored_reqs,     \* for each slot the start_req_track its record was stored after; 0: none
  finisher,        \* each queue's blk_finish_request: where it is, the index it loaded
  tester, high,    \* where the tester is, the upper half of its `reqs'
  started,         \* tester.c's `started'
  starts,          \* how often start_req_track has reset the counter
  fetched          \* how many records end_req_track copied out

trackvars == <<requests_seen, serv_recording, stored_reqs, finisher, tester, high, started,
               starts, fetched>>

Slots == 0 .. Recorded - 1

TrackInit ==
  /\ requests_seen = 0 /\ serv_recording = FALSE
  /\ stored_reqs = [i \in Slots |-> 0]
  /\ finisher = [q \in Queues |-> [at |-> "out", index |-> 0]]
  /\ tester = "start" /\ high \in HighWords /\ started = FALSE
  /\ starts = 0 /\ fetched = 0

-----------------------------------------------------------------------------
(* The recording part of blk_finish_request; a request that is not         *)
(* recorded changes nothing.                                               *)
RoomForOneMore == requests_seen <= Recorded          \* mutant: one past the end
StopsOneShort == requests_seen + 1 < Recorded        \* mutant
HasRoom == requests_seen < Recorded

finish_check(q) ==
  /\ finisher[q].at = "out" /\ serv_recording /\ HasRoom
  /\ finisher' = [finisher EXCEPT ![q].at = "store"]
  /\ UNCHANGED <<requests_seen, serv_recording, stored_reqs, tester, high, started, starts,
                 fetched>>

StoresOneFurther(q) ==                               \* mutant
  /\ finisher[q].at = "store"
  /\ finisher' = [finisher EXCEPT ![q] = [at |-> "count", index |-> requests_seen]]
  /\ stored_reqs' = [i \in Slots |-> IF i = requests_seen + 1 THEN starts ELSE stored_reqs[i]]
  /\ UNCHANGED <<requests_seen, serv_recording, tester, high, started, starts, fetched>>

finish_store(q) ==
  /\ finisher[q].at = "store"
  /\ finisher' = [finisher EXCEPT ![q] = [at |-> "count", index |-> requests_seen]]
  /\ stored_reqs' = [i \in Slots |-> IF i = requests_seen THEN starts ELSE stored_reqs[i]]
  /\ UNCHANGED <<requests_seen, serv_recording, tester, high, started, starts, fetched>>

finish_count(q) ==
  /\ finisher[q].at = "count"
  /\ requests_seen' \in {finisher[q].index + 1, requests_seen + 1}
  /\ finisher' = [finisher EXCEPT ![q].at = "out"]
  /\ UNCHANGED <<serv_recording, stored_reqs, tester, high, started, starts, fetched>>

-----------------------------------------------------------------------------
(* SYSCALL_DEFINE0(start_req_track), two stores.                           *)
start_req_track ==
  /\ tester \in {"start", "last start"}
  /\ requests_seen' = 0 /\ starts' = starts + 1
  /\ tester' = IF tester = "start" THEN "starting" ELSE "last starting"
  /\ UNCHANGED <<serv_recording, stored_reqs, finisher, high, started, fetched>>

start_recording ==
  /\ tester \in {"starting", "last starting"}
  /\ serv_recording' = TRUE
  /\ tester' = IF tester = "starting" THEN "poll" ELSE "end"
  /\ UNCHANGED <<requests_seen, stored_reqs, finisher, high, started, starts, fetched>>

(* `reqs', of which get_requests_seen writes the lower half, exceeds n.    *)
Exceeds(n) ==
  \/ high = "positive"
  \/ high = "zero" /\ requests_seen > n

(* One round of the tester's loop: a poll, once a restart, and the loop    *)
(* condition on the value polled BEFORE the restart.                       *)
get_requests_seen ==
  LET restart == ~ started /\ Exceeds(WarmUp)
      over    == Exceeds(Recorded - 1)
  IN  /\ tester = "poll"
      /\ started' = (started \/ restart)
      /\ tester' = IF restart THEN (IF over THEN "last start" ELSE "start")
                   ELSE (IF over THEN "end" ELSE "poll")
      /\ UNCHANGED <<requests_seen, serv_recording, stored_reqs, finisher, high, starts,
                     fetched>>

(* SYSCALL_DEFINE1(end_req_track); the tester then prints Recorded records.*)
end_req_track ==
  /\ tester = "end"
  /\ serv_recording' = FALSE
  /\ tester' = "copy"
  /\ UNCHANGED <<requests_seen, stored_reqs, finisher, high, started, starts, fetched>>

copy_to_user ==
  /\ tester = "copy"
  /\ fetched' = requests_seen
  /\ tester' = "print"
  /\ UNCHANGED <<requests_seen, serv_recording, stored_reqs, finisher, high, started, starts>>

Finish(q) == finish_check(q) \/ finish_store(q) \/ finish_count(q)
Tester == \/ start_req_track \/ start_recording \/ get_requests_seen
          \/ end_req_track \/ copy_to_user

TrackNext == Tester \/ \E q \in Queues : Finish(q)

TrackSpec == TrackInit /\ [][TrackNext]_trackvars

(* The tester runs on, and its workload keeps every queue completing       *)
(* requests; a completion that has begun ends.                             *)
TrackFairSpec == TrackSpec /\ WF_trackvars(Tester) /\ \A q \in Queues : WF_trackvars(Finish(q))

-----------------------------------------------------------------------------
(***************************************************************************)
(* stored_reqs is never written past its end, and neither requests_seen    *)
(* nor the length of the copy of end_req_track exceeds it: the test of the *)
(* bound, the use of the index and the increment are three steps.          *)
(***************************************************************************)
InBounds ==
  /\ requests_seen \in 0..Recorded /\ fetched \in 0..Recorded
  /\ \A q \in Queues : finisher[q].at = "count" => finisher[q].index \in Slots

(* Every record below requests_seen was stored: get_requests_seen never    *)
(* promises, and end_req_track never copies, a slot nobody wrote.          *)
NoHoles == \A i \in Slots : i < requests_seen => stored_reqs[i] # 0

(* The tester's loop ends: the counter reaches the bound it waits for, and *)
(* no reset or racing increment keeps it below for ever.  Whether the      *)
(* unwritten half of `reqs' is zero or makes every value look large, it    *)
(* does; a negative one would keep the loop going for ever.                *)
TesterEnds == high # "negative" => <>(tester = "print")
=============================================================================
