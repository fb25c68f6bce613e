------------------------- MODULE SystemCalls_proofs -------------------------
(***************************************************************************)
(* The two sets of system calls the repository adds to the kernel.         *)
(*                                                                         *)
(* Recorder (ReqTrack): with the completions of one queue only, whose lock *)
(* orders them, it stays inside its array and counts only what it stored,  *)
(* for every array size, although the system calls reset and read it       *)
(* without a lock.                                                         *)
(*                                                                         *)
(* smunch (Smunch): what the locks of each version achieve, for every      *)
(* number of callers, with SIGKILL in their sets or not.                   *)
(***************************************************************************)
EXTENDS ReqTrack, Smunch, TLAPS

-----------------------------------------------------------------------------
(* The recorder.                                                           *)
Stored(n) == \A i \in Slots : i < n => stored_reqs[i] # 0

(* Between the test of the bound and the increment, the counter can only   *)
(* be reset: it stays below the bound, and at or below the loaded index.   *)
FinisherInv(q) ==
  /\ finisher[q] \in [at : {"out", "store", "count"}, index : Nat]
  /\ finisher[q].at = "store" => requests_seen < Recorded /\ starts > 0
  /\ finisher[q].at = "count" => /\ finisher[q].index \in Slots
                                 /\ requests_seen <= finisher[q].index
                                 /\ Stored(finisher[q].index + 1)

RecorderInv ==
  /\ requests_seen \in 0..Recorded
  /\ fetched \in 0..Recorded
  /\ starts \in Nat
  /\ stored_reqs \in [Slots -> Nat]
  /\ serv_recording => starts > 0
  /\ tester \in {"starting", "last starting"} => starts > 0
  /\ finisher \in [Queues -> [at : {"out", "store", "count"}, index : Nat]]
  /\ NoHoles
  /\ \A q \in Queues : FinisherInv(q)

(* Initially nothing is stored or counted.                                 *)
LEMMA RecorderInit == TrackInit => RecorderInv
  BY ReqTrackAssumption DEF TrackInit, RecorderInv, FinisherInv, NoHoles, Stored, Slots

(* A completion of the only queue keeps the invariant.                     *)
LEMMA FinishKeeps ==
  ASSUME \A q1, q2 \in Queues : q1 = q2, RecorderInv, NEW q \in Queues, Finish(q)
  PROVE  RecorderInv'
<1>1. \A q1 \in Queues : q1 = q
  OBVIOUS
<1>2. /\ FinisherInv(q) /\ Recorded \in Nat
      /\ finisher \in [Queues -> [at : {"out", "store", "count"}, index : Nat]]
  BY ReqTrackAssumption DEF RecorderInv
<1>t. /\ requests_seen \in Nat /\ requests_seen <= Recorded /\ starts \in Nat
      /\ stored_reqs \in [Slots -> Nat]
  <2>1. /\ requests_seen \in 0..Recorded /\ starts \in Nat
        /\ stored_reqs \in [Slots -> Nat]
    BY DEF RecorderInv
  <2> QED
    BY <1>2, <2>1
<1>n. NoHoles
  BY DEF RecorderInv
<1>3. CASE finish_check(q)
  <2>1. /\ requests_seen < Recorded /\ starts > 0
        /\ finisher' = [finisher EXCEPT ![q].at = "store"]
        /\ UNCHANGED <<requests_seen, serv_recording, stored_reqs, tester, starts, fetched>>
    BY <1>3 DEF finish_check, HasRoom, RecorderInv
  <2>2. finisher'[q] \in [at : {"out", "store", "count"}, index : Nat] /\ finisher'[q].at = "store"
    BY <1>2, <2>1
  <2>3. FinisherInv(q)'
    BY <2>1, <2>2 DEF FinisherInv
  <2> QED
    BY <1>1, <1>2, <2>1, <2>2, <2>3 DEF RecorderInv, NoHoles
<1>4. CASE finish_store(q)
  <2>1. /\ requests_seen \in Slots /\ starts > 0 /\ starts \in Nat
        /\ finisher' = [finisher EXCEPT ![q] = [at |-> "count", index |-> requests_seen]]
        /\ stored_reqs' = [i \in Slots |-> IF i = requests_seen THEN starts ELSE stored_reqs[i]]
        /\ UNCHANGED <<requests_seen, serv_recording, tester, starts, fetched>>
    <3>1. requests_seen < Recorded /\ starts > 0
      BY <1>2, <1>4 DEF finish_store, FinisherInv
    <3> QED
      BY <1>2, <1>t, <1>4, <3>1 DEF finish_store, Slots
  <2>2. finisher'[q] = [at |-> "count", index |-> requests_seen]
    BY <1>2, <2>1
  <2>3. requests_seen \in Nat /\ stored_reqs' \in [Slots -> Nat]
    BY <1>t, <2>1
  <2>4. Stored(requests_seen + 1)' /\ NoHoles'
    <3>1. \A i \in Slots : i \in Int /\ (i < requests_seen + 1 => stored_reqs'[i] # 0)
      BY <1>2, <1>t, <1>n, <2>1 DEF NoHoles, Slots
    <3> QED
      BY <1>t, <2>1, <3>1 DEF Stored, NoHoles
  <2>5. FinisherInv(q)'
    BY <2>1, <2>2, <2>3, <2>4 DEF FinisherInv, Stored
  <2> QED
    BY <1>1, <1>2, <2>1, <2>2, <2>3, <2>4, <2>5 DEF RecorderInv
<1>5. CASE finish_count(q)
  <2> DEFINE k == finisher[q].index
  <2>1. /\ k \in Slots /\ requests_seen <= k /\ Stored(k + 1)
        /\ requests_seen' \in {k + 1, requests_seen + 1}
        /\ finisher' = [finisher EXCEPT ![q].at = "out"]
        /\ UNCHANGED <<serv_recording, stored_reqs, tester, starts, fetched>>
    BY <1>2, <1>5 DEF finish_count, FinisherInv
  <2> HIDE DEF k
  <2>2. finisher'[q] \in [at : {"out", "store", "count"}, index : Nat] /\ finisher'[q].at = "out"
    BY <1>2, <2>1
  <2>3. requests_seen' \in 0..Recorded /\ requests_seen' <= k + 1
    BY <1>2, <1>t, <2>1 DEF Slots
  <2>4. NoHoles'
    BY <2>1, <2>3 DEF Stored, NoHoles, Slots
  <2>5. FinisherInv(q)'
    BY <2>2 DEF FinisherInv
  <2> QED
    BY <1>1, <1>2, <2>1, <2>2, <2>3, <2>4, <2>5 DEF RecorderInv
<1> QED
  BY <1>3, <1>4, <1>5 DEF Finish

(* A step of the tester: the counter stays or becomes 0.                   *)
LEMMA TesterKeeps ==
  ASSUME RecorderInv, Tester
  PROVE  RecorderInv'
<1>1. /\ requests_seen' \in {0, requests_seen}
      /\ starts' \in {starts, starts + 1}
      /\ UNCHANGED <<stored_reqs, finisher>>
      /\ Recorded \in Nat
  BY ReqTrackAssumption
     DEF Tester, start_req_track, start_recording, get_requests_seen, end_req_track, copy_to_user
<1>2. /\ requests_seen' \in 0..Recorded /\ requests_seen' <= requests_seen
      /\ starts' \in Nat /\ starts' >= starts
      /\ requests_seen \in Int /\ starts \in Nat
  <2>1. requests_seen \in 0..Recorded /\ starts \in Nat
    BY DEF RecorderInv
  <2> QED
    BY <1>1, <2>1
<1>3. /\ serv_recording' => starts' > 0
      /\ tester' \in {"starting", "last starting"} => starts' > 0
  <2>1. /\ serv_recording => starts > 0
        /\ tester \in {"starting", "last starting"} => starts > 0
    BY DEF RecorderInv
  <2>2. CASE start_req_track
    <3>1. starts' = starts + 1
      BY <2>2 DEF start_req_track
    <3>2. starts' > 0
      BY <1>2, <3>1
    <3> QED
      BY <3>2
  <2>3. CASE start_recording
    BY <2>1, <2>3 DEF start_recording
  <2>4. CASE get_requests_seen
    <3>1. starts' = starts /\ serv_recording' = serv_recording
      BY <2>4 DEF get_requests_seen
    <3>2. tester' \in {"last start", "start", "end", "poll"}
      BY <2>4, Zenon DEF get_requests_seen
    <3> QED
      BY <2>1, <3>1, <3>2
  <2>5. CASE end_req_track
    BY <2>1, <2>5 DEF end_req_track
  <2>6. CASE copy_to_user
    <3>1. starts' = starts /\ serv_recording' = serv_recording /\ tester' = "print"
      BY <2>6 DEF copy_to_user
    <3> QED
      BY <2>1, <3>1
  <2> QED
    BY <2>2, <2>3, <2>4, <2>5, <2>6 DEF Tester
<1>f. fetched' \in 0..Recorded
  <2>1. fetched' \in {fetched, requests_seen}
    BY DEF Tester, start_req_track, start_recording, get_requests_seen, end_req_track,
           copy_to_user
  <2> QED
    BY <2>1 DEF RecorderInv
<1>4. NoHoles'
  <2>1. NoHoles
    BY DEF RecorderInv
  <2> QED
    BY <1>1, <1>2, <2>1 DEF NoHoles, Slots
<1>5. ASSUME NEW q \in Queues
      PROVE  FinisherInv(q)'
  <2>1. FinisherInv(q)
    BY DEF RecorderInv
  <2> QED
    BY <1>1, <1>2, <2>1 DEF FinisherInv, Stored, Slots
<1> QED
  BY <1>1, <1>2, <1>3, <1>f, <1>4, <1>5 DEF RecorderInv

(* The invariant holds throughout, with one queue.                         *)
LEMMA RecorderInvHolds ==
  ASSUME \A q1, q2 \in Queues : q1 = q2
  PROVE  TrackSpec => []RecorderInv
<1>1. RecorderInv /\ [TrackNext]_trackvars => RecorderInv'
  <2> SUFFICES ASSUME RecorderInv, [TrackNext]_trackvars PROVE RecorderInv'
    OBVIOUS
  <2>1. CASE Tester
    BY <2>1, TesterKeeps
  <2>2. CASE \E q \in Queues : Finish(q)
    BY <2>2, FinishKeeps
  <2>3. CASE UNCHANGED trackvars
    BY <2>3 DEF trackvars, RecorderInv, FinisherInv, NoHoles, Stored
  <2> QED
    BY <2>1, <2>2, <2>3 DEF TrackNext
<1> QED
  BY <1>1, RecorderInit, PTL DEF TrackSpec

(***************************************************************************)
(* One queue: the array is never overrun, for every REQS_RECORDED.  (With  *)
(* two queues TLC finds the overrun.)                                      *)
(***************************************************************************)
THEOREM OneQueueRecords ==
  ASSUME \A q1, q2 \in Queues : q1 = q2
  PROVE  TrackSpec => []InBounds
<1>1. RecorderInv => InBounds
  BY DEF RecorderInv, FinisherInv, InBounds
<1> QED
  BY <1>1, RecorderInvHolds, PTL

(* One queue: no slot below requests_seen is unwritten, although the       *)
(* counter may be reset between the store and the increment.               *)
THEOREM OneQueueCountsStored ==
  ASSUME \A q1, q2 \in Queues : q1 = q2
  PROVE  TrackSpec => []NoHoles
<1>1. RecorderInv => NoHoles
  BY DEF RecorderInv
<1> QED
  BY <1>1, RecorderInvHolds, PTL

-----------------------------------------------------------------------------
(* smunch: the processes and the places they can be at.                    *)
Procs == Callers \union {"wait"}
Labels == {"call", "lock", "check", "zombie", "claim", "release", "store", "wake", "refused",
           "reaped", "woken", "missed", "done"}

TaskStruct ==
  [exit_state : {"none", "ZOMBIE", "DEAD"}, threads : BOOLEAN, asleep : BOOLEAN,
   pending : SUBSET {"KILL", "USR1"}, released : Nat, freed : BOOLEAN,
   stray : BOOLEAN, orphan : BOOLEAN]

(* The types of the state.                                                 *)
Types ==
  /\ version \in {"3_1", "3_3", "3_5"} /\ traced \in BOOLEAN
  /\ p \in TaskStruct
  /\ siglock \in Callers \union {NoOne} /\ rcu \subseteq Callers
  /\ pc \in [Procs -> Labels] /\ pc["wait"] \in {"call", "release", "done"}

(* 3_1 and 3_3: the one at release_task is the one that set EXIT_DEAD, and *)
(* nobody has come back from release_task before.                          *)
ClaimInv ==
  version \in {"3_1", "3_3"} =>
    /\ p.released <= 1
    /\ \A c \in Procs : pc[c] = "release" => p.exit_state = "DEAD" /\ p.released = 0
    /\ p.released > 0 => p.exit_state = "DEAD"
    /\ \A c, d \in Procs : pc[c] = "release" /\ pc[d] = "release" => c = d

(* 3_3 and 3_5: whoever holds p is in a read-side critical section, which  *)
(* it entered before the task was freed; the others found no task.         *)
RcuInv ==
  version \in {"3_3", "3_5"} =>
    /\ \A c \in Callers : Holding(c) => c \in rcu
    /\ p.freed => p.released > 0 /\ \A c \in Callers : Holding(c) => At(c, "missed")

(* The places where a caller of each version holds the sighand lock.       *)
Locked(c) == \/ version = "3_3" /\ At(c, "store")
             \/ version = "3_5" /\ pc[c] \in {"check", "zombie", "store"}

(* 3_3 and 3_5: under the sighand lock the task is not released.           *)
LockInv ==
  version \in {"3_3", "3_5"} =>
    ~ p.stray /\ \A c \in Callers : Locked(c) => siglock = c /\ p.released = 0

(* 3_5: the test for threads stays true while the lock is held, since a    *)
(* thread joins the group under it, and then because a zombie starts none. *)
LeaderInv ==
  version = "3_5" =>
    /\ ~ p.orphan
    /\ \A c \in Callers : pc[c] \in {"zombie", "store"} => ~ p.threads
    /\ \A c \in Procs : At(c, "release") => ~ p.threads /\ p.exit_state # "none"

SmunchInv == Types /\ ClaimInv /\ RcuInv /\ LockInv /\ LeaderInv

(* Initially nobody has called and the task runs.                          *)
LEMMA SmunchInit == Init => SmunchInv
  BY SmunchAssumption
     DEF Init, SmunchInv, Types, TaskStruct, ClaimInv, RcuInv, LockInv, LeaderInv, Procs, Labels,
         Holding,
         At, Locked

-----------------------------------------------------------------------------
(* The effects of the operations on the task and on a program counter.     *)
Moves(c, label) == /\ pc'[c] = label /\ pc' \in [Procs -> Labels]
                   /\ \A x \in Procs : x # c => pc'[x] = pc[x]
(* Nothing that the invariant speaks of but exit_state changes.            *)
Kept == /\ p' \in TaskStruct
        /\ p'.threads = p.threads /\ p'.released = p.released /\ p'.freed = p.freed
        /\ p'.orphan = p.orphan

(* An assignment to a program counter moves that caller only.              *)
LEMMA GotoMoves ==
  ASSUME Types, NEW c \in Procs, NEW label \in Labels, Goto(c, label)
  PROVE  Moves(c, label)
  BY DEF Goto, Moves, Types

(* The cmpxchg succeeds on a zombie and does nothing otherwise.            *)
LEMMA ClaimEffect ==
  ASSUME Types, NEW c \in Procs, Claim(c)
  PROVE  /\ Kept /\ p'.stray = p.stray
         /\ \/ p.exit_state = "ZOMBIE" /\ p'.exit_state = "DEAD" /\ Moves(c, "release")
            \/ p.exit_state # "ZOMBIE" /\ p' = p /\ Moves(c, "done")
<1>1. p \in TaskStruct /\ "release" \in Labels /\ "done" \in Labels
  BY DEF Types, Labels
<1>2. CASE p.exit_state = "ZOMBIE"
  <2>1. p' = [p EXCEPT !.exit_state = "DEAD"] /\ Goto(c, "release")
    BY <1>2 DEF Claim, Set
  <2>2. Kept /\ p'.stray = p.stray /\ p'.exit_state = "DEAD"
    BY <1>1, <2>1 DEF TaskStruct, Kept
  <2> QED
    BY <1>1, <1>2, <2>1, <2>2, GotoMoves
<1>3. CASE p.exit_state # "ZOMBIE"
  <2>1. p' = p /\ Goto(c, "done")
    BY <1>3 DEF Claim
  <2> QED
    BY <1>1, <1>3, <2>1, GotoMoves DEF Kept
<1> QED
  BY <1>2, <1>3

(* release_task counts, and notes whether a thread was alive.              *)
LEMMA ReleaseEffect ==
  ASSUME Types, release_task
  PROVE  /\ p' \in TaskStruct /\ siglock = NoOne
         /\ p'.released = p.released + 1 /\ (p'.orphan <=> p.orphan \/ p.threads)
         /\ p'.exit_state = p.exit_state /\ p'.threads = p.threads
         /\ p'.freed = p.freed /\ p'.stray = p.stray
<1> DEFINE gone == p.orphan \/ p.threads
           n == p.released + 1
<1>1. p \in TaskStruct /\ gone \in BOOLEAN /\ n \in Nat
  BY DEF Types, TaskStruct
<1>2. siglock = NoOne /\ p' = [p EXCEPT !.released = n, !.orphan = gone]
  BY DEF release_task
<1> HIDE DEF gone, n
<1>3. /\ p' \in TaskStruct /\ p'.released = n /\ p'.orphan = gone
      /\ p'.exit_state = p.exit_state /\ p'.threads = p.threads
      /\ p'.freed = p.freed /\ p'.stray = p.stray
  BY <1>1, <1>2 DEF TaskStruct
<1> QED
  BY <1>2, <1>3 DEF gone, n

(* The store is stray exactly when the task was released before.           *)
LEMMA StoreEffect ==
  ASSUME Types, NEW c, StorePending(c)
  PROVE  Kept /\ p'.exit_state = p.exit_state /\ (p'.stray <=> p.stray \/ p.released > 0)
  BY DEF Types, StorePending, TaskStruct, Kept

(* wake_up_process touches nothing the invariant speaks of.                *)
LEMMA WakeEffect ==
  ASSUME Types, wake_up_process
  PROVE  Kept /\ p'.exit_state = p.exit_state /\ p'.stray = p.stray
  BY DEF Types, wake_up_process, Set, TaskStruct, Kept

(* Neither does a step that leaves the task alone.                         *)
LEMMA SameTask ==
  ASSUME Types, UNCHANGED p
  PROVE  Kept /\ p'.exit_state = p.exit_state /\ p'.stray = p.stray
  BY DEF Types, Kept

-----------------------------------------------------------------------------
(* A step of version 3_1: it has no lock, and only claims EXIT_DEAD.       *)
LEMMA Step31 ==
  ASSUME SmunchInv, NEW c \in Callers, version = "3_1", smunch_3_1(c), UNCHANGED <<version, traced>>
  PROVE  SmunchInv'
<1> USE DEF At, Moves
<1>0. /\ Types /\ c \in Procs /\ c # "wait" /\ UNCHANGED <<version, traced, siglock, rcu>>
      /\ p \in TaskStruct /\ pc \in [Procs -> Labels] /\ p.released \in Nat
      /\ "wait" \in Procs
  BY SmunchAssumption DEF SmunchInv, Types, TaskStruct, Procs, smunch_3_1
<1>1. ASSUME p' \in TaskStruct, NEW label \in Labels, Moves(c, label)
      PROVE  Types'
  BY <1>0, <1>1 DEF Types
<1>2. ASSUME Types', ClaimInv' PROVE SmunchInv'
  BY <1>0, <1>2 DEF SmunchInv, RcuInv, LockInv, LeaderInv
<1>3. ASSUME Kept, p'.exit_state = p.exit_state, NEW label \in Labels \ {"release"}, Moves(c, label)
      PROVE  SmunchInv'
  BY <1>0, <1>1, <1>2, <1>3 DEF SmunchInv, ClaimInv, Kept
<1>4. CASE At(c, "call") \/ At(c, "check") \/ At(c, "zombie")
  BY <1>0, <1>3, <1>4, GotoMoves, SameTask DEF smunch_3_1, Labels
<1>5. CASE At(c, "claim")
  <2>1. Claim(c)
    BY <1>5 DEF smunch_3_1
  <2>2. ClaimInv'
    BY <1>0, <2>1, ClaimEffect DEF SmunchInv, ClaimInv, Kept
  <2>3. Types'
    BY <1>0, <1>1, <2>1, ClaimEffect DEF Kept, Labels
  <2> QED
    BY <1>2, <2>2, <2>3
<1>6. CASE At(c, "release")
  <2>1. release_task /\ Goto(c, "done") /\ "done" \in Labels
    BY <1>6 DEF smunch_3_1, Labels
  <2>2. ClaimInv'
    BY <1>0, <1>6, <2>1, ReleaseEffect, GotoMoves DEF SmunchInv, ClaimInv
  <2>3. Types'
    BY <1>0, <1>1, <2>1, ReleaseEffect, GotoMoves
  <2> QED
    BY <1>2, <2>2, <2>3
<1>7. CASE At(c, "store")
  BY <1>0, <1>3, <1>7, GotoMoves, StoreEffect DEF smunch_3_1, Labels
<1>8. CASE At(c, "wake")
  BY <1>0, <1>3, <1>8, GotoMoves, WakeEffect DEF smunch_3_1, Labels
<1> QED
  BY <1>4, <1>5, <1>6, <1>7, <1>8 DEF smunch_3_1

(* A step of version 3_3: the claim as in 3_1, the store under the lock.   *)
LEMMA Step33 ==
  ASSUME SmunchInv, NEW c \in Callers, version = "3_3", smunch_3_3(c), UNCHANGED <<version, traced>>
  PROVE  SmunchInv'
<1> USE DEF At, Moves
<1>0. /\ Types /\ c \in Procs /\ c # "wait" /\ c # NoOne /\ UNCHANGED <<version, traced>>
      /\ p \in TaskStruct /\ pc \in [Procs -> Labels] /\ p.released \in Nat
      /\ "wait" \in Procs /\ Callers \subseteq Procs
      /\ ClaimInv /\ RcuInv /\ LockInv
  BY SmunchAssumption DEF SmunchInv, Types, TaskStruct, Procs
<1>1. ASSUME p' \in TaskStruct, NEW label \in Labels, Moves(c, label),
             siglock' \in {siglock, NoOne, c}, rcu' \in {rcu, rcu \union {c}, rcu \ {c}}
      PROVE  Types'
  BY <1>0, <1>1 DEF Types
<1>2. ASSUME Types', ClaimInv', RcuInv', LockInv' PROVE SmunchInv'
  BY <1>0, <1>2 DEF SmunchInv, LeaderInv
<1>3. ASSUME Kept, p'.exit_state = p.exit_state, NEW label \in Labels \ {"release"}, Moves(c, label)
      PROVE  ClaimInv'
  BY <1>0, <1>3 DEF ClaimInv, Kept
<1>4. CASE At(c, "call")
  <2> DEFINE label == IF found THEN "check" ELSE "done"
  <2>1. /\ Kept /\ p'.exit_state = p.exit_state /\ p'.stray = p.stray
        /\ label \in Labels \ {"release"} /\ Moves(c, label) /\ UNCHANGED siglock
        /\ rcu' = rcu \union {c}
    BY <1>0, <1>4, SameTask, GotoMoves DEF smunch_3_3, Labels, rcu_read_lock
  <2>2. RcuInv'
    BY <1>0, <2>1 DEF RcuInv, Kept, Holding, found
  <2>3. LockInv'
    BY <1>0, <2>1 DEF LockInv, Kept, Locked
  <2> QED
    BY <1>1, <1>2, <1>3, <2>1, <2>2, <2>3 DEF Kept
<1>5. CASE At(c, "check") \/ At(c, "zombie")
  <2>1. /\ Kept /\ p'.exit_state = p.exit_state /\ p'.stray = p.stray
        /\ UNCHANGED <<siglock, rcu>>
    BY <1>0, <1>5, SameTask DEF smunch_3_3
  <2>2. PICK label \in {"done", "zombie", "claim", "lock"} : Moves(c, label)
    BY <1>0, <1>5, GotoMoves DEF smunch_3_3, Labels
  <2>3. label \in Labels \ {"release"}
    BY DEF Labels
  <2>4. RcuInv'
    BY <1>0, <1>5, <2>1, <2>2 DEF RcuInv, Kept, Holding
  <2>5. LockInv'
    BY <1>0, <2>1, <2>2 DEF LockInv, Kept, Locked
  <2> QED
    BY <1>1, <1>2, <1>3, <2>1, <2>2, <2>3, <2>4, <2>5 DEF Kept
<1>6. CASE At(c, "claim")
  <2>1. Claim(c) /\ UNCHANGED <<siglock, rcu>>
    BY <1>6 DEF smunch_3_3
  <2>2. ClaimInv'
    BY <1>0, <2>1, ClaimEffect DEF ClaimInv, Kept
  <2>3. Types'
    BY <1>0, <1>1, <2>1, ClaimEffect DEF Kept, Labels
  <2>4. RcuInv'
    BY <1>0, <1>6, <2>1, ClaimEffect DEF RcuInv, Kept, Holding
  <2>5. LockInv'
    BY <1>0, <2>1, ClaimEffect DEF LockInv, Kept, Locked
  <2> QED
    BY <1>2, <2>2, <2>3, <2>4, <2>5
<1>7. CASE At(c, "release")
  <2>1. release_task /\ Goto(c, "done") /\ "done" \in Labels /\ UNCHANGED <<siglock, rcu>>
    BY <1>7 DEF smunch_3_3, Labels
  <2>2. ClaimInv'
    BY <1>0, <1>7, <2>1, ReleaseEffect, GotoMoves DEF ClaimInv
  <2>3. Types'
    BY <1>0, <1>1, <2>1, ReleaseEffect, GotoMoves
  <2>4. RcuInv'
    BY <1>0, <1>7, <2>1, ReleaseEffect, GotoMoves DEF RcuInv, Holding
  <2>5. LockInv'
    BY <1>0, <2>1, ReleaseEffect, GotoMoves, SmunchAssumption DEF LockInv, Locked
  <2> QED
    BY <1>2, <2>2, <2>3, <2>4, <2>5
<1>8. CASE At(c, "lock")
  <2>1. /\ Kept /\ p'.exit_state = p.exit_state /\ p'.stray = p.stray /\ UNCHANGED rcu
        /\ siglock = NoOne
    BY <1>0, <1>8, SameTask DEF smunch_3_3, lock_task_sighand, sighand_gone
  <2>2. PICK label \in {"store", "wake"} :
          Moves(c, label) /\ \/ label = "store" /\ p.released = 0 /\ siglock' = c
                             \/ label = "wake" /\ UNCHANGED siglock
    BY <1>0, <1>8, GotoMoves DEF smunch_3_3, Labels, lock_task_sighand, sighand_gone, found
  <2>3. label \in Labels \ {"release"}
    BY DEF Labels
  <2>4. RcuInv'
    BY <1>0, <1>8, <2>1, <2>2 DEF RcuInv, Kept, Holding
  <2>5. LockInv'
    BY <1>0, <2>1, <2>2, SmunchAssumption DEF LockInv, Kept, Locked
  <2> QED
    BY <1>1, <1>2, <1>3, <2>1, <2>2, <2>3, <2>4, <2>5 DEF Kept
<1>9. CASE At(c, "store")
  <2>1. StorePending(c) /\ siglock' = NoOne /\ Goto(c, "wake") /\ UNCHANGED rcu
        /\ "wake" \in Labels \ {"release"}
    BY <1>9 DEF smunch_3_3, Labels
  <2>2. Kept /\ p'.exit_state = p.exit_state /\ ~ p'.stray /\ Moves(c, "wake")
    BY <1>0, <1>9, <2>1, StoreEffect, GotoMoves DEF LockInv, Locked
  <2>3. RcuInv'
    BY <1>0, <1>9, <2>1, <2>2 DEF RcuInv, Kept, Holding
  <2>4. LockInv'
    BY <1>0, <1>9, <2>1, <2>2 DEF LockInv, Kept, Locked
  <2> QED
    BY <1>1, <1>2, <1>3, <2>1, <2>2, <2>3, <2>4 DEF Kept
<1>10. CASE At(c, "wake")
  <2>1. wake_up_process /\ rcu' = rcu \ {c} /\ Goto(c, "done") /\ UNCHANGED siglock
        /\ "done" \in Labels \ {"release"}
    BY <1>10 DEF smunch_3_3, Labels, rcu_read_unlock
  <2>2. Kept /\ p'.exit_state = p.exit_state /\ p'.stray = p.stray /\ Moves(c, "done")
    BY <1>0, <2>1, WakeEffect, GotoMoves
  <2>3. RcuInv'
    BY <1>0, <2>1, <2>2 DEF RcuInv, Kept, Holding
  <2>4. LockInv'
    BY <1>0, <2>1, <2>2 DEF LockInv, Kept, Locked
  <2> QED
    BY <1>1, <1>2, <1>3, <2>1, <2>2, <2>3, <2>4 DEF Kept
<1> QED
  BY <1>4, <1>5, <1>6, <1>7, <1>8, <1>9, <1>10 DEF smunch_3_3

(* A step of version 3_5: the tests and the store under the lock.          *)
LEMMA Step35 ==
  ASSUME SmunchInv, NEW c \in Callers, version = "3_5", smunch_3_5(c), UNCHANGED <<version, traced>>
  PROVE  SmunchInv'
<1> USE DEF At, Moves, Return
<1>0. /\ Types /\ c \in Procs /\ c # "wait" /\ c # NoOne /\ UNCHANGED <<version, traced>>
      /\ p \in TaskStruct /\ pc \in [Procs -> Labels] /\ p.released \in Nat
      /\ "wait" \in Procs /\ Callers \subseteq Procs
      /\ RcuInv /\ LockInv /\ LeaderInv
  BY SmunchAssumption DEF SmunchInv, Types, TaskStruct, Procs
<1>1. ASSUME p' \in TaskStruct, NEW label \in Labels, Moves(c, label),
             siglock' \in {siglock, NoOne, c}, rcu' \in {rcu, rcu \union {c}, rcu \ {c}}
      PROVE  Types'
  BY <1>0, <1>1 DEF Types
<1>2. ASSUME Types', RcuInv', LockInv', LeaderInv' PROVE SmunchInv'
  BY <1>0, <1>2 DEF SmunchInv, ClaimInv
<1>3. ASSUME Kept, p'.exit_state = p.exit_state,
             NEW label \in Labels \ {"zombie", "store", "release"}, Moves(c, label)
      PROVE  LeaderInv'
  BY <1>0, <1>3 DEF LeaderInv, Kept
<1>4. CASE At(c, "call")
  <2> DEFINE label == IF found THEN "lock" ELSE "missed"
  <2>1. /\ Kept /\ p'.exit_state = p.exit_state /\ p'.stray = p.stray
        /\ label \in Labels \ {"zombie", "store", "release"} /\ Moves(c, label)
        /\ UNCHANGED siglock /\ rcu' = rcu \union {c}
    BY <1>0, <1>4, SameTask, GotoMoves DEF smunch_3_5, Labels, rcu_read_lock
  <2>2. RcuInv'
    BY <1>0, <2>1 DEF RcuInv, Kept, Holding, found
  <2>3. LockInv'
    BY <1>0, <2>1 DEF LockInv, Kept, Locked
  <2> QED
    BY <1>1, <1>2, <1>3, <2>1, <2>2, <2>3 DEF Kept
<1>5. CASE At(c, "lock")
  <2>1. /\ Kept /\ p'.exit_state = p.exit_state /\ p'.stray = p.stray /\ UNCHANGED rcu
        /\ siglock = NoOne
    BY <1>0, <1>5, SameTask DEF smunch_3_5, sighand_gone
  <2>2. PICK label \in {"check", "missed"} :
          Moves(c, label) /\ \/ label = "check" /\ p.released = 0 /\ siglock' = c
                             \/ label = "missed" /\ UNCHANGED siglock
    BY <1>0, <1>5, GotoMoves DEF smunch_3_5, Labels, LockForTests, sighand_gone, found
  <2>3. label \in Labels \ {"zombie", "store", "release"}
    BY DEF Labels
  <2>4. RcuInv'
    BY <1>0, <1>5, <2>1, <2>2 DEF RcuInv, Kept, Holding
  <2>5. LockInv'
    BY <1>0, <2>1, <2>2, SmunchAssumption DEF LockInv, Kept, Locked
  <2> QED
    BY <1>1, <1>2, <1>3, <2>1, <2>2, <2>3, <2>4, <2>5 DEF Kept
<1>6. CASE At(c, "check")
  <2>1. /\ Kept /\ p'.exit_state = p.exit_state /\ p'.stray = p.stray /\ UNCHANGED rcu
        /\ siglock = c
    BY <1>0, <1>6, SameTask DEF smunch_3_5, LockInv, Locked
  <2>2. PICK label \in {"zombie", "refused"} :
          Moves(c, label) /\ \/ label = "zombie" /\ ~ p.threads /\ UNCHANGED siglock
                             \/ label = "refused" /\ siglock' = NoOne
    BY <1>0, <1>6, GotoMoves DEF smunch_3_5, Labels, Refused
  <2>3. label \in Labels
    BY DEF Labels
  <2>4. RcuInv'
    BY <1>0, <1>6, <2>1, <2>2 DEF RcuInv, Kept, Holding
  <2>5. LockInv'
    BY <1>0, <1>6, <2>1, <2>2, SmunchAssumption DEF LockInv, Kept, Locked
  <2>6. LeaderInv'
    BY <1>0, <2>1, <2>2 DEF LeaderInv, Kept
  <2> QED
    BY <1>1, <1>2, <2>1, <2>2, <2>3, <2>4, <2>5, <2>6 DEF Kept
<1>7. CASE At(c, "zombie")
  <2>1. /\ Kept /\ p'.exit_state = p.exit_state /\ p'.stray = p.stray /\ UNCHANGED rcu
        /\ siglock = c /\ ~ p.threads
    BY <1>0, <1>7, SameTask DEF smunch_3_5, LockInv, Locked, LeaderInv
  <2>2. PICK label \in {"release", "store"} :
          Moves(c, label) /\ \/ label = "release" /\ p.exit_state = "ZOMBIE" /\ siglock' = NoOne
                             \/ label = "store" /\ UNCHANGED siglock
    BY <1>0, <1>7, GotoMoves DEF smunch_3_5, Labels, KillsZombie, UnlockToRelease
  <2>3. label \in Labels
    BY DEF Labels
  <2>4. RcuInv'
    BY <1>0, <1>7, <2>1, <2>2 DEF RcuInv, Kept, Holding
  <2>5. LockInv'
    BY <1>0, <1>7, <2>1, <2>2, SmunchAssumption DEF LockInv, Kept, Locked
  <2>6. LeaderInv'
    BY <1>0, <2>1, <2>2 DEF LeaderInv, Kept
  <2> QED
    BY <1>1, <1>2, <2>1, <2>2, <2>3, <2>4, <2>5, <2>6 DEF Kept
<1>8. CASE At(c, "release")
  <2>1. release_task /\ Goto(c, "reaped") /\ "reaped" \in Labels /\ UNCHANGED <<siglock, rcu>>
    BY <1>8 DEF smunch_3_5, Labels
  <2>2. Types'
    BY <1>0, <1>1, <2>1, ReleaseEffect, GotoMoves
  <2>3. RcuInv'
    BY <1>0, <1>8, <2>1, ReleaseEffect, GotoMoves DEF RcuInv, Holding
  <2>4. LockInv'
    BY <1>0, <2>1, ReleaseEffect, GotoMoves, SmunchAssumption DEF LockInv, Locked
  <2>5. LeaderInv'
    BY <1>0, <1>8, <2>1, ReleaseEffect, GotoMoves DEF LeaderInv
  <2> QED
    BY <1>2, <2>2, <2>3, <2>4, <2>5
<1>9. CASE At(c, "store")
  <2>1. StorePending(c) /\ siglock' = NoOne /\ Goto(c, "wake") /\ UNCHANGED rcu
        /\ "wake" \in Labels \ {"zombie", "store", "release"}
    BY <1>9 DEF smunch_3_5, Labels
  <2>2. Kept /\ p'.exit_state = p.exit_state /\ ~ p'.stray /\ Moves(c, "wake")
    BY <1>0, <1>9, <2>1, StoreEffect, GotoMoves DEF LockInv, Locked
  <2>3. RcuInv'
    BY <1>0, <1>9, <2>1, <2>2 DEF RcuInv, Kept, Holding
  <2>4. LockInv'
    BY <1>0, <1>9, <2>1, <2>2 DEF LockInv, Kept, Locked
  <2> QED
    BY <1>1, <1>2, <1>3, <2>1, <2>2, <2>3, <2>4 DEF Kept
<1>10. CASE At(c, "wake") \/ pc[c] \in Leaving
  <2>1. PICK label \in {"woken", "done"} :
          /\ Moves(c, label) /\ (wake_up_process \/ UNCHANGED p) /\ UNCHANGED siglock
          /\ \/ label = "woken" /\ At(c, "wake") /\ UNCHANGED rcu
             \/ label = "done" /\ rcu' = rcu \ {c}
    BY <1>0, <1>10, GotoMoves DEF smunch_3_5, Labels, Leaving, rcu_read_unlock
  <2>2. Kept /\ p'.exit_state = p.exit_state /\ p'.stray = p.stray
        /\ label \in Labels \ {"zombie", "store", "release"}
    BY <1>0, <2>1, WakeEffect, SameTask DEF Labels
  <2>3. RcuInv'
    BY <1>0, <2>1, <2>2 DEF RcuInv, Kept, Holding
  <2>4. LockInv'
    BY <1>0, <2>1, <2>2 DEF LockInv, Kept, Locked
  <2> QED
    BY <1>1, <1>2, <1>3, <2>1, <2>2, <2>3, <2>4 DEF Kept
<1> QED
  BY <1>4, <1>5, <1>6, <1>7, <1>8, <1>9, <1>10 DEF smunch_3_5, Leaving

-----------------------------------------------------------------------------
(* The task's own steps: threads come only under the lock and before the   *)
(* exit, and a claimed zombie does not become one again.                   *)
LEMMA TaskKeeps ==
  ASSUME SmunchInv, Task
  PROVE  SmunchInv'
<1> USE DEF At
<1>0. /\ Types /\ UNCHANGED <<version, traced, siglock, rcu, pc>>
      /\ p \in TaskStruct /\ ClaimInv /\ RcuInv /\ LockInv /\ LeaderInv
  BY DEF SmunchInv, Types, Task
<1>1. /\ p' \in TaskStruct /\ p'.released = p.released /\ p'.freed = p.freed
      /\ p'.stray = p.stray /\ p'.orphan = p.orphan
      /\ \/ p'.exit_state = p.exit_state
         \/ p.exit_state = "none" /\ p'.exit_state = "ZOMBIE"
      /\ p'.threads => \/ p.threads
                       \/ siglock = NoOne /\ p.exit_state = "none" /\ p'.exit_state = "none"
  <2>1. CASE Clone
    BY <1>0, <2>1 DEF Clone, Set, TaskStruct
  <2>2. CASE ThreadExits
    BY <1>0, <2>2 DEF ThreadExits, Set, TaskStruct
  <2>3. CASE Exit
    BY <1>0, <2>3 DEF Exit, Set, TaskStruct
  <2>4. CASE TakeSignal
    BY <1>0, <2>4 DEF TakeSignal, TaskStruct
  <2> QED
    BY <2>1, <2>2, <2>3, <2>4 DEF Task
<1>2. Types'
  BY <1>0, <1>1 DEF Types
<1>3. ClaimInv'
  BY <1>0, <1>1 DEF ClaimInv
<1>4. RcuInv'
  BY <1>0, <1>1 DEF RcuInv, Holding
<1>5. LockInv'
  BY <1>0, <1>1 DEF LockInv, Locked
<1>6. LeaderInv'
  BY <1>0, <1>1, SmunchAssumption DEF LockInv, Locked, LeaderInv
<1> QED
  BY <1>2, <1>3, <1>4, <1>5, <1>6 DEF SmunchInv

(* The parent's wait claims EXIT_DEAD like 3_1 and 3_3, and tests for      *)
(* threads in the same step.                                               *)
LEMMA WaitKeeps ==
  ASSUME SmunchInv, Wait
  PROVE  SmunchInv'
<1> USE DEF At, Moves
<1>0. /\ Types /\ UNCHANGED <<version, traced, siglock, rcu>>
      /\ p \in TaskStruct /\ pc \in [Procs -> Labels] /\ p.released \in Nat
      /\ "wait" \in Procs /\ Callers \subseteq Procs /\ "wait" \notin Callers
      /\ ClaimInv /\ RcuInv /\ LockInv /\ LeaderInv
  BY SmunchAssumption DEF SmunchInv, Types, TaskStruct, Procs, Wait
<1>1. ASSUME p' \in TaskStruct, NEW label \in {"release", "done"}, Moves("wait", label)
      PROVE  Types'
  BY <1>0, <1>1 DEF Types
<1>2. CASE At("wait", "call")
  <2>1. p.exit_state = "ZOMBIE" /\ ~ p.threads /\ Claim("wait")
    BY <1>2 DEF Wait
  <2>2. Kept /\ p'.stray = p.stray /\ p'.exit_state = "DEAD" /\ Moves("wait", "release")
    BY <1>0, <2>1, ClaimEffect
  <2>3. Types'
    BY <1>1, <2>2 DEF Kept
  <2>4. ClaimInv'
    BY <1>0, <2>1, <2>2 DEF ClaimInv, Kept
  <2>5. RcuInv'
    BY <1>0, <2>2 DEF RcuInv, Kept, Holding
  <2>6. LockInv'
    BY <1>0, <2>2 DEF LockInv, Kept, Locked
  <2>7. LeaderInv'
    BY <1>0, <2>1, <2>2 DEF LeaderInv, Kept
  <2> QED
    BY <2>3, <2>4, <2>5, <2>6, <2>7 DEF SmunchInv
<1>3. CASE At("wait", "release")
  <2>1. release_task /\ Moves("wait", "done")
    BY <1>0, <1>3, GotoMoves DEF Wait, Labels
  <2>2. /\ p' \in TaskStruct /\ siglock = NoOne
        /\ p'.released = p.released + 1 /\ (p'.orphan <=> p.orphan \/ p.threads)
        /\ p'.exit_state = p.exit_state /\ p'.threads = p.threads
        /\ p'.freed = p.freed /\ p'.stray = p.stray
    BY <1>0, <2>1, ReleaseEffect
  <2>3. Types'
    BY <1>1, <2>1, <2>2
  <2>4. ClaimInv'
    BY <1>0, <1>3, <2>1, <2>2 DEF ClaimInv
  <2>5. RcuInv'
    BY <1>0, <2>1, <2>2 DEF RcuInv, Holding
  <2>6. LockInv'
    BY <1>0, <2>1, <2>2, SmunchAssumption DEF LockInv, Locked
  <2>7. LeaderInv'
    BY <1>0, <1>3, <2>1, <2>2 DEF LeaderInv
  <2> QED
    BY <2>3, <2>4, <2>5, <2>6, <2>7 DEF SmunchInv
<1> QED
  BY <1>2, <1>3 DEF Wait

(* The end of the grace period: nobody is in a read-side section.          *)
LEMMA GracePeriodKeeps ==
  ASSUME SmunchInv, GracePeriod
  PROVE  SmunchInv'
<1> USE DEF At
<1>0. /\ UNCHANGED <<version, traced, siglock, rcu, pc>> /\ rcu = {} /\ p.released > 0
      /\ p \in TaskStruct /\ p' = [p EXCEPT !.freed = TRUE]
  BY DEF SmunchInv, Types, GracePeriod, Set
<1>1. /\ p' \in TaskStruct /\ p'.released = p.released /\ p'.threads = p.threads
      /\ p'.stray = p.stray /\ p'.orphan = p.orphan /\ p'.exit_state = p.exit_state
  BY <1>0 DEF TaskStruct
<1>2. RcuInv'
  BY <1>0, <1>1 DEF SmunchInv, RcuInv, Holding
<1> QED
  BY <1>0, <1>1, <1>2 DEF SmunchInv, Types, ClaimInv, LockInv, Locked, LeaderInv

(* Every step keeps the invariant.                                         *)
LEMMA SmunchStep == SmunchInv /\ [Next]_vars => SmunchInv'
<1> SUFFICES ASSUME SmunchInv, [Next]_vars PROVE SmunchInv'
  OBVIOUS
<1>1. CASE \E c \in Callers : smunch(c)
  BY <1>1, Step31, Step33, Step35 DEF smunch
<1>2. CASE Task \/ Wait \/ GracePeriod
  BY <1>2, TaskKeeps, WaitKeeps, GracePeriodKeeps
<1>3. CASE UNCHANGED vars
  BY <1>3 DEF vars, SmunchInv, Types, ClaimInv, RcuInv, LockInv, LeaderInv, Holding, At, Locked
<1> QED
  BY <1>1, <1>2, <1>3 DEF Next

(* The invariant holds throughout.                                         *)
LEMMA SmunchInvHolds == Spec => []SmunchInv
  BY SmunchInit, SmunchStep, PTL DEF Spec

-----------------------------------------------------------------------------
(***************************************************************************)
(* Versions 3_1 and 3_3 release the task at most once, whatever calls and  *)
(* waits race for it: the cmpxchg decides.                                 *)
(***************************************************************************)
THEOREM ClaimReleasesOnce == Spec => []ReleasedOnce
<1>1. SmunchInv => ReleasedOnce
  BY DEF SmunchInv, ClaimInv, ReleasedOnce
<1> QED
  BY <1>1, SmunchInvHolds, PTL

(* Versions 3_3 and 3_5 never touch a task that was freed.                 *)
THEOREM RcuKeepsTask == Spec => []NoUseAfterFree
<1>1. SmunchInv => NoUseAfterFree
  BY DEF SmunchInv, RcuInv, NoUseAfterFree
<1> QED
  BY <1>1, SmunchInvHolds, PTL

(* Versions 3_3 and 3_5 never store signals in a released task.            *)
THEOREM StoreReachesTask == Spec => []NoStrayStore
<1>1. SmunchInv => NoStrayStore
  BY DEF SmunchInv, LockInv, NoStrayStore
<1> QED
  BY <1>1, SmunchInvHolds, PTL

(* Version 3_5 never releases a leader whose group has a live thread.      *)
THEOREM NoOrphans == Spec => []LeaderKept
<1>1. SmunchInv => LeaderKept
  BY DEF SmunchInv, LeaderInv, LeaderKept
<1> QED
  BY <1>1, SmunchInvHolds, PTL
=============================================================================
