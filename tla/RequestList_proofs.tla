------------------------- MODULE RequestList_proofs -------------------------
(***************************************************************************)
(* The counts of a request list are exact, its full and congested flags    *)
(* match them, and no wake-up is lost, for every number of tasks, every    *)
(* limit and every batch size.                                             *)
(***************************************************************************)
EXTENDS RequestList, ListLemmas, FiniteSetTheorems

(* What the flags depend on, and their types; count may be any integer:    *)
(* that it is never negative is not needed.                                *)
LevelTypes ==
  /\ nr_requests \in Nat \ {0}
  /\ count \in [Dirs -> Int]
  /\ full \in [Dirs -> BOOLEAN] /\ congested \in [Dirs -> BOOLEAN]

LevelInv == LevelTypes /\ FullExact /\ CongestionHysteresis

level == <<nr_requests, count, full, congested>>

(***************************************************************************)
(* blk_queue_congestion_threshold puts the lower threshold at or below the *)
(* upper one, and both between 1 and the limit.                            *)
(***************************************************************************)
LEMMA Thresholds ==
  ASSUME NEW n \in Nat \ {0}
  PROVE  /\ nr_congestion_on(n) \in Int /\ nr_congestion_off(n) \in Int
         /\ nr_congestion_off(n) <= nr_congestion_on(n)
         /\ nr_congestion_on(n) <= n
         /\ 1 <= nr_congestion_off(n)
<1> DEFINE a == n \div 8
           b == n \div 16
<1>1. a \in Int /\ b \in Int /\ 0 <= b /\ b <= a /\ a <= n
  BY SMT
<1> HIDE DEF a, b
<1>2. /\ nr_congestion_on(n) = IF n - a + 1 > n THEN n ELSE n - a + 1
      /\ nr_congestion_off(n) = IF n - a - b - 1 < 1 THEN 1 ELSE n - a - b - 1
  BY DEF a, b, nr_congestion_on, nr_congestion_off, AtMost, AtLeast
<1> QED
  BY <1>1, <1>2

(* A new request list is empty, neither full nor congested.                *)
LEMMA LevelInit == Init => LevelInv
<1> SUFFICES ASSUME Init PROVE LevelInv
  OBVIOUS
<1>1. nr_requests \in Nat \ {0}
  BY RequestListAssumption DEF Init
<1>2. LevelTypes
  BY <1>1 DEF Init, LevelTypes
<1>3. FullExact
  BY <1>1 DEF Init, FullExact, Dirs
<1>4. CongestionHysteresis
  BY <1>1, Thresholds DEF Init, CongestionHysteresis, Dirs
<1> QED
  BY <1>2, <1>3, <1>4 DEF LevelInv

(* MarkLevel, followed by the count of the new request or by a refusal.    *)
LEMMA MarkKeepsLevel ==
  ASSUME LevelInv, NEW t \in Tasks, MarkLevel(t), nr_requests' = nr_requests,
         \/ count' = [count EXCEPT ![TaskDir[t]] = @ + 1]
         \/ OverLimit(TaskDir[t]) /\ count' = count
  PROVE  LevelInv'
<1> DEFINE d == TaskDir[t]
<1>1. d \in Dirs
  BY RequestListAssumption
<1> HIDE DEF d
<1>2. /\ full' = [full EXCEPT ![d] = @ \/ NearLimit(d)]
      /\ congested' = [congested EXCEPT ![d] =
                         @ \/ count[d] + 1 >= nr_congestion_on(nr_requests)]
      /\ \/ count' = [count EXCEPT ![d] = @ + 1]
         \/ OverLimit(d) /\ count' = count
  BY DEF MarkLevel, d
<1>3. LevelTypes'
  BY <1>1, <1>2 DEF LevelInv, LevelTypes, NearLimit
<1>4. ASSUME NEW x \in Dirs
      PROVE  /\ full'[x] <=> count'[x] >= nr_requests
             /\ count'[x] >= nr_congestion_on(nr_requests) => congested'[x]
             /\ count'[x] < nr_congestion_off(nr_requests) => ~ congested'[x]
  <2>1. /\ full[x] <=> count[x] >= nr_requests
        /\ count[x] >= nr_congestion_on(nr_requests) => congested[x]
        /\ count[x] < nr_congestion_off(nr_requests) => ~ congested[x]
        /\ count[x] \in Int /\ nr_requests \in Nat \ {0}
    BY DEF LevelInv, LevelTypes, FullExact, CongestionHysteresis
  <2>2. CASE x # d
    BY <1>1, <1>2, <2>1, <2>2 DEF LevelInv, LevelTypes
  <2>3. CASE x = d
    <3>1. /\ full'[x] <=> full[x] \/ count[x] + 1 >= nr_requests
          /\ congested'[x] <=> congested[x] \/ count[x] + 1 >= nr_congestion_on(nr_requests)
      BY <1>1, <1>2, <2>3 DEF LevelInv, LevelTypes, NearLimit
    <3>2. \/ count'[x] = count[x] + 1
          \/ count[x] >= (3 * nr_requests) \div 2 /\ count'[x] = count[x]
      BY <1>1, <1>2, <2>3 DEF LevelInv, LevelTypes, OverLimit
    <3>3. (3 * nr_requests) \div 2 \in Int /\ (3 * nr_requests) \div 2 >= nr_requests
      BY <2>1, SMT
    <3> QED
      BY <2>1, <3>1, <3>2, <3>3, Thresholds
  <2> QED
    BY <2>2, <2>3
<1> QED
  BY <1>3, <1>4 DEF LevelInv, FullExact, CongestionHysteresis

(* freed_request, whichever directions it looks at.                        *)
LEMMA FreeKeepsLevel ==
  ASSUME LevelInv, NEW d \in Dirs, NEW e, NEW at, freed_request(d, e, at),
         nr_requests' = nr_requests
  PROVE  LevelInv'
<1> DEFINE c == [count EXCEPT ![d] = @ - 1]
           seen == {d} \union (IF starved[Other(d)] THEN {Other(d)} ELSE {})
           room == {x \in seen : MakesRoom(x, c[x])}
<1>1. /\ count' = c
      /\ congested' = [x \in Dirs |->
                         congested[x] /\ ~ (x \in seen /\ c[x] < nr_congestion_off(nr_requests))]
      /\ full' = [x \in Dirs |-> full[x] /\ x \notin room]
  BY DEF freed_request
<1>2. /\ d \in seen
      /\ \A x \in Dirs : x \in room <=> x \in seen /\ c[x] + 1 <= nr_requests
      /\ c \in [Dirs -> Int]
      /\ \A x \in Dirs : c[x] = IF x = d THEN count[x] - 1 ELSE count[x]
  BY DEF LevelInv, LevelTypes, MakesRoom
<1> HIDE DEF c, seen, room
<1>3. LevelTypes'
  BY <1>1, <1>2 DEF LevelInv, LevelTypes
<1>4. ASSUME NEW x \in Dirs
      PROVE  /\ full'[x] <=> count'[x] >= nr_requests
             /\ count'[x] >= nr_congestion_on(nr_requests) => congested'[x]
             /\ count'[x] < nr_congestion_off(nr_requests) => ~ congested'[x]
  <2>1. /\ full[x] <=> count[x] >= nr_requests
        /\ count[x] >= nr_congestion_on(nr_requests) => congested[x]
        /\ count[x] < nr_congestion_off(nr_requests) => ~ congested[x]
        /\ count[x] \in Int /\ nr_requests \in Nat \ {0}
    BY DEF LevelInv, LevelTypes, FullExact, CongestionHysteresis
  <2>2. /\ full'[x] <=> full[x] /\ ~ (x \in seen /\ c[x] + 1 <= nr_requests)
        /\ congested'[x] <=> congested[x] /\ ~ (x \in seen /\ c[x] < nr_congestion_off(nr_requests))
        /\ count'[x] = c[x]
    BY <1>1, <1>2
  <2>3. CASE x = d
    BY <1>2, <2>1, <2>2, <2>3, Thresholds
  <2>4. CASE x # d
    BY <1>2, <2>1, <2>2, <2>4, Thresholds
  <2> QED
    BY <2>3, <2>4
<1> QED
  BY <1>3, <1>4 DEF LevelInv, FullExact, CongestionHysteresis

(* A new limit: both flags are computed afresh.                            *)
LEMMA ResizeKeepsLevel ==
  ASSUME LevelInv, NEW n \in Sizes, blk_update_nr_requests(n)
  PROVE  LevelInv'
<1>1. n \in Nat \ {0}
  BY RequestListAssumption
<1>2. /\ nr_requests' = n /\ count' = count
      /\ congested' = [d \in Dirs |-> CongestedUnder(d, n)]
      /\ full' = [d \in Dirs |-> d \notin {x \in Dirs : count[x] < n}]
  BY DEF blk_update_nr_requests
<1>3. \A d \in Dirs : CongestedUnder(d, n) \in BOOLEAN
  BY DEF CongestedUnder, LevelInv, LevelTypes
<1>4. LevelTypes'
  BY <1>1, <1>2, <1>3 DEF LevelInv, LevelTypes
<1>5. ASSUME NEW x \in Dirs
      PROVE  /\ full'[x] <=> count'[x] >= n
             /\ count'[x] >= nr_congestion_on(n) => congested'[x]
             /\ count'[x] < nr_congestion_off(n) => ~ congested'[x]
  <2>1. /\ full'[x] <=> ~ (count[x] < n)
        /\ congested'[x] <=> \/ count[x] >= nr_congestion_on(n)
                             \/ congested[x] /\ count[x] >= nr_congestion_off(n)
        /\ count[x] \in Int /\ count'[x] = count[x]
    BY <1>2, <1>3 DEF CongestedUnder, LevelInv, LevelTypes
  <2> QED
    BY <1>1, <2>1, Thresholds
<1> QED
  BY <1>2, <1>4, <1>5 DEF LevelInv, FullExact, CongestionHysteresis

(* Every other step leaves the limit, the counts and the flags alone.      *)
LEMMA SameLevel == LevelInv /\ UNCHANGED level => LevelInv'
  BY DEF LevelInv, LevelTypes, FullExact, CongestionHysteresis, level

(* Every step preserves the invariant.                                     *)
LEMMA LevelStep == LevelInv /\ [Next]_vars => LevelInv'
<1> SUFFICES ASSUME LevelInv, [Next]_vars PROVE LevelInv'
  OBVIOUS
<1>1. ASSUME NEW t \in Tasks, NEW w, NEW e, get_request_granted(t, w, e)
      PROVE  LevelInv'
  BY <1>1, MarkKeepsLevel DEF get_request_granted, limits
<1>2. ASSUME NEW t \in Tasks, NEW w, get_request_refused(t, w)
      PROVE  LevelInv'
  <2>1. UNCHANGED <<nr_requests, count>>
    BY <1>2 DEF get_request_refused, limits
  <2>2. CASE UNCHANGED <<full, congested>>
    BY <2>1, <2>2, SameLevel DEF level
  <2>3. CASE OverLimit(TaskDir[t]) /\ MarkLevel(t)
    BY <2>1, <2>3, MarkKeepsLevel
  <2> QED
    BY <1>2, <2>2, <2>3 DEF get_request_refused
<1>3. CASE \E t \in Tasks : Call(t)
  BY <1>1, <1>2, <1>3 DEF Call
<1>4. CASE \E t \in Tasks : Proceed(t)
  <2> PICK t \in Tasks : Proceed(t)
    BY <1>4
  <2>1. CASE get_request_sleep(t) \/ get_request_wake(t) \/ get_request_dying(t)
    BY <2>1, SameLevel
       DEF get_request_sleep, get_request_wake, get_request_dying, limits, rl, level
  <2>2. CASE \E e \in BOOLEAN : allocate(t, e)
    BY <2>2, SameLevel DEF allocate, limits, level
  <2> QED
    BY <1>1, <1>2, <2>1, <2>2 DEF Proceed
<1>5. CASE \E t \in Tasks : allocate_fails(t)
  <2> PICK t \in Tasks : allocate_fails(t)
    BY <1>5
  <2>1. TaskDir[t] \in Dirs
    BY RequestListAssumption
  <2> QED
    BY <2>1, FreeKeepsLevel DEF allocate_fails, limits
<1>6. CASE \E t \in Tasks : BatchTimeOver(t)
  BY <1>6, SameLevel DEF BatchTimeOver, limits, rl, level
<1>7. CASE \E d \in Dirs, e \in BOOLEAN : blk_put_request(d, e)
  BY <1>7, FreeKeepsLevel DEF blk_put_request, limits
<1>8. CASE \E n \in Sizes : blk_update_nr_requests(n)
  BY <1>8, ResizeKeepsLevel
<1>9. CASE blk_set_queue_dying \/ blk_drain_queue
  BY <1>9, SameLevel DEF blk_set_queue_dying, blk_drain_queue, limits, rl, level
<1>10. CASE UNCHANGED vars
  BY <1>10, SameLevel DEF vars, limits, rl, level
<1> QED
  BY <1>3, <1>4, <1>5, <1>6, <1>7, <1>8, <1>9, <1>10 DEF Next

(***************************************************************************)
(* The full flag of a direction is set exactly while its count is at or    *)
(* above the limit, for every limit, task set and batch size: no sequence  *)
(* of overruns, failed allocations, frees of a starved direction and       *)
(* resizings leaves it behind.                                             *)
(***************************************************************************)
THEOREM FullFlagExact == Spec => []FullExact
<1>1. LevelInv => FullExact
  BY DEF LevelInv
<1> QED
  BY <1>1, LevelInit, LevelStep, PTL DEF Spec

(* The congestion flag keeps its hysteresis, for every limit.              *)
THEOREM CongestionExact == Spec => []CongestionHysteresis
<1>1. LevelInv => CongestionHysteresis
  BY DEF LevelInv
<1> QED
  BY <1>1, LevelInit, LevelStep, PTL DEF Spec

-----------------------------------------------------------------------------
(* The sleepers: a task is in the wait queue of its direction, once, while *)
(* it is asleep and only then.                                             *)
Places == {"out", "allocating", "queueing", "asleep", "woken", "retry"}
Sleepers(d) == {t \in Tasks : pc[t] = "asleep" /\ TaskDir[t] = d}

WaitInv ==
  /\ wait \in [Dirs -> Seq(Tasks)] /\ pc \in [Tasks -> Places]
  /\ \A d \in Dirs : NoDuplicates(wait[d]) /\ ToSet(wait[d]) = Sleepers(d)

(* A task between out and asleep moves: the wait queues stay as they are.  *)
LEMMA MoveKeepsWait ==
  ASSUME WaitInv, NEW t \in Tasks, NEW place \in Places, place # "asleep", pc[t] # "asleep",
         pc' = [pc EXCEPT ![t] = place], wait' = wait
  PROVE  WaitInv'
<1>1. \A d \in Dirs : Sleepers(d)' = Sleepers(d)
  BY DEF Sleepers, WaitInv
<1> QED
  BY <1>1 DEF WaitInv

(* prepare_to_wait_exclusive at the tail.                                  *)
LEMMA SleepKeepsWait ==
  ASSUME WaitInv, NEW t \in Tasks, get_request_sleep(t)
  PROVE  WaitInv'
<1> DEFINE x == TaskDir[t]
<1>1. x \in Dirs
  BY RequestListAssumption
<1>2. /\ wait' = [wait EXCEPT ![x] = Append(@, t)] /\ pc[t] = "queueing"
      /\ pc' = [pc EXCEPT ![t] = "asleep"]
  BY DEF get_request_sleep
<1>3. Sleepers(x)' = Sleepers(x) \union {t} /\ t \notin Sleepers(x)
  BY <1>2 DEF Sleepers, WaitInv
<1>4. \A d \in Dirs : d # x => Sleepers(d)' = Sleepers(d)
  BY <1>2 DEF Sleepers, WaitInv
<1> HIDE DEF x
<1>5. /\ wait[x] \in Seq(Tasks) /\ NoDuplicates(wait[x]) /\ ToSet(wait[x]) = Sleepers(x)
  BY <1>1 DEF WaitInv
<1>6. /\ Append(wait[x], t) \in Seq(Tasks) /\ NoDuplicates(Append(wait[x], t))
      /\ ToSet(Append(wait[x], t)) = Sleepers(x)'
  BY <1>3, <1>5, AppendEntries
<1>7. wait'[x] = Append(wait[x], t) /\ \A d \in Dirs : d # x => wait'[d] = wait[d]
  BY <1>1, <1>2 DEF WaitInv
<1>8. wait' \in [Dirs -> Seq(Tasks)] /\ pc' \in [Tasks -> Places]
  BY <1>1, <1>2, <1>6 DEF WaitInv, Places
<1>9. ASSUME NEW d \in Dirs PROVE NoDuplicates(wait'[d]) /\ ToSet(wait'[d]) = Sleepers(d)'
  <2>1. CASE d = x
    BY <1>6, <1>7, <2>1
  <2>2. CASE d # x
    BY <1>4, <1>7, <2>2 DEF WaitInv
  <2> QED
    BY <2>1, <2>2
<1> QED
  BY <1>8, <1>9 DEF WaitInv

(***************************************************************************)
(* wake_up takes the first sleeper of each of the directions, if there is  *)
(* one, and touches no other task than `at' does.                          *)
(***************************************************************************)
LEMMA WakeUpEffect ==
  ASSUME WaitInv, NEW ds, ds \subseteq Dirs, NEW at \in [Tasks -> Places],
         \A t \in Tasks : at[t] = pc[t] \/ (pc[t] # "asleep" /\ at[t] # "asleep"),
         wake_up(ds, at)
  PROVE  /\ WaitInv'
         /\ \A t \in Tasks : pc'[t] = at[t] \/ (pc[t] = "asleep" /\ pc'[t] = "woken")
         /\ \A d \in ds : wait[d] # <<>> => \E t \in Tasks : TaskDir[t] = d /\ pc'[t] = "woken"
         /\ \A d \in Dirs : wait[d] = <<>> => wait'[d] = <<>>
<1> DEFINE woken == {x \in ds : wait[x] # <<>>}
           first == {Head(wait[d]) : d \in woken}
<1>1. /\ wait' = [d \in Dirs |-> IF d \in ds /\ wait[d] # <<>> THEN Tail(wait[d]) ELSE wait[d]]
      /\ pc' = [t \in Tasks |-> IF t \in first THEN "woken" ELSE at[t]]
  BY DEF wake_up
<1>2. ASSUME NEW d \in woken
      PROVE  /\ Head(wait[d]) \in Tasks /\ pc[Head(wait[d])] = "asleep"
             /\ TaskDir[Head(wait[d])] = d /\ Tail(wait[d]) \in Seq(Tasks)
             /\ NoDuplicates(Tail(wait[d]))
             /\ ToSet(Tail(wait[d])) = Sleepers(d) \ {Head(wait[d])}
  <2>1. /\ d \in Dirs /\ wait[d] \in Seq(Tasks) /\ wait[d] # <<>> /\ NoDuplicates(wait[d])
        /\ ToSet(wait[d]) = Sleepers(d)
    BY <1>2 DEF WaitInv
  <2>2. /\ Head(wait[d]) \in ToSet(wait[d]) /\ Tail(wait[d]) \in Seq(Tasks)
        /\ NoDuplicates(Tail(wait[d]))
        /\ ToSet(Tail(wait[d])) = ToSet(wait[d]) \ {Head(wait[d])}
    BY <2>1, TailEntries
  <2> QED
    BY <2>1, <2>2 DEF Sleepers
<1>3. \A t \in first : t \in Tasks /\ pc[t] = "asleep" /\ TaskDir[t] \in woken
                       /\ t = Head(wait[TaskDir[t]])
  BY <1>2
<1>4. \A d \in woken : Head(wait[d]) \in first
  OBVIOUS
<1>5. woken \subseteq Dirs /\ \A d \in Dirs : d \in woken <=> d \in ds /\ wait[d] # <<>>
  OBVIOUS
<1> HIDE DEF woken, first
<1>6. pc' \in [Tasks -> Places] /\ wait' \in [Dirs -> Seq(Tasks)]
  BY <1>1, <1>2, <1>5 DEF Places, WaitInv
<1>7. \A t \in Tasks : pc'[t] = "asleep" <=> pc[t] = "asleep" /\ t \notin first
  BY <1>1, <1>3
<1>8. ASSUME NEW d \in Dirs
      PROVE  NoDuplicates(wait'[d]) /\ ToSet(wait'[d]) = Sleepers(d)'
  <2>1. CASE d \in woken
    <3>1. Sleepers(d)' = Sleepers(d) \ {Head(wait[d])}
      BY <1>2, <1>3, <1>4, <1>7, <2>1 DEF Sleepers
    <3> QED
      BY <1>1, <1>2, <1>5, <2>1, <3>1
  <2>2. CASE d \notin woken
    <3>1. Sleepers(d)' = Sleepers(d)
      BY <1>3, <1>7, <2>2 DEF Sleepers
    <3> QED
      BY <1>1, <1>5, <2>2, <3>1 DEF WaitInv
  <2> QED
    BY <2>1, <2>2
<1>9. WaitInv'
  BY <1>6, <1>8 DEF WaitInv
<1>10. \A t \in Tasks : pc'[t] = at[t] \/ (pc[t] = "asleep" /\ pc'[t] = "woken")
  BY <1>1, <1>3
<1>11. ASSUME NEW d \in ds, wait[d] # <<>>
       PROVE  \E t \in Tasks : TaskDir[t] = d /\ pc'[t] = "woken"
  <2>1. d \in woken
    BY <1>5, <1>11
  <2>2. /\ Head(wait[d]) \in Tasks /\ TaskDir[Head(wait[d])] = d
        /\ pc'[Head(wait[d])] = "woken"
    BY <1>1, <1>2, <1>4, <2>1
  <2> QED
    BY <2>2
<1>12. \A d \in Dirs : wait[d] = <<>> => wait'[d] = <<>>
  BY <1>1
<1> QED
  BY <1>9, <1>10, <1>11, <1>12

(* The end of the drain wakes every sleeper.                               *)
LEMMA WakeAllEffect ==
  ASSUME WaitInv, wake_up_all
  PROVE  /\ WaitInv' /\ \A d \in Dirs : wait'[d] = <<>>
         /\ \A t \in Tasks : pc'[t] = pc[t] \/ (pc[t] = "asleep" /\ pc'[t] = "woken")
<1>1. /\ wait' = [d \in Dirs |-> <<>>]
      /\ pc' = [t \in Tasks |-> IF t \in ToSet(wait["sync"]) \union ToSet(wait["async"])
                                THEN "woken" ELSE pc[t]]
  BY DEF wake_up_all
<1>2. \A t \in Tasks : t \in ToSet(wait["sync"]) \union ToSet(wait["async"]) <=> pc[t] = "asleep"
  BY RequestListAssumption DEF WaitInv, Sleepers, Dirs
<1>3. \A t \in Tasks : pc'[t] = IF pc[t] = "asleep" THEN "woken" ELSE pc[t]
  BY <1>1, <1>2
<1>4. <<>> \in Seq(Tasks) /\ NoDuplicates(<<>>) /\ ToSet(<<>>) = {}
  <2>1. <<>> \in Seq(Tasks) /\ Len(<<>>) = 0
    OBVIOUS
  <2> QED
    BY <2>1, Entries DEF NoDuplicates
<1>5. \A d \in Dirs : Sleepers(d)' = {}
  BY <1>3 DEF Sleepers
<1>6. pc' \in [Tasks -> Places] /\ wait' \in [Dirs -> Seq(Tasks)]
  BY <1>1, <1>3, <1>4 DEF WaitInv, Places
<1>7. \A d \in Dirs : NoDuplicates(wait'[d]) /\ ToSet(wait'[d]) = Sleepers(d)'
  BY <1>1, <1>4, <1>5
<1> QED
  BY <1>1, <1>3, <1>6, <1>7 DEF WaitInv

-----------------------------------------------------------------------------
(* The counts.  The requests in use and being allocated, by direction and  *)
(* kind: with the scheduler's data (REQ_ELVPRIV) or without.               *)
Kinds == {"elvpriv", "plain"}
Kind(e) == IF e THEN "elvpriv" ELSE "plain"
Live(d, k) == IF k = "elvpriv" THEN live[d][TRUE] ELSE live[d][FALSE]
Busy(d, k) == {t \in Tasks : pc[t] = "allocating" /\ TaskDir[t] = d /\ Kind(elv[t]) = k}
Used(d, k) == Live(d, k) + Cardinality(Busy(d, k))

CountInv ==
  /\ count \in [Dirs -> Int] /\ nr_rqs_elvpriv \in Int
  /\ live \in [Dirs -> [BOOLEAN -> Nat]]
  /\ elv \in [Tasks -> BOOLEAN]
  /\ \A d \in Dirs : count[d] = Used(d, "elvpriv") + Used(d, "plain")
  /\ nr_rqs_elvpriv = Used("sync", "elvpriv") + Used("async", "elvpriv")

(* Whether task t is allocating such a request: 1 or 0.                    *)
Is(t, d, k) == IF pc[t] = "allocating" /\ TaskDir[t] = d /\ Kind(elv[t]) = k THEN 1 ELSE 0

(* The numbers are naturals.                                               *)
LEMMA BusyFinite ==
  ASSUME NEW d, NEW k
  PROVE  IsFiniteSet(Busy(d, k)) /\ Cardinality(Busy(d, k)) \in Nat
<1>1. Busy(d, k) \in SUBSET Tasks /\ IsFiniteSet(Tasks)
  BY RequestListAssumption DEF Busy
<1>2. IsFiniteSet(Busy(d, k))
  BY <1>1, FS_Subset
<1> QED
  BY <1>2, FS_CardinalityType

(* So is what is used, and it is at least what is in use.                  *)
LEMMA UsedNat ==
  ASSUME CountInv, NEW d \in Dirs, NEW k \in Kinds
  PROVE  Live(d, k) \in Nat /\ Used(d, k) \in Nat /\ Used(d, k) >= Live(d, k)
<1>1. live[d][TRUE] \in Nat /\ live[d][FALSE] \in Nat
  BY DEF CountInv
<1>2. Live(d, k) \in Nat
  BY <1>1 DEF Live
<1>3. Cardinality(Busy(d, k)) \in Nat
  BY BusyFinite
<1> QED
  BY <1>2, <1>3 DEF Used

(* A step of task t changes each number by what becomes of t.              *)
LEMMA BusyChange ==
  ASSUME NEW t \in Tasks, NEW d, NEW k,
         \A y \in Tasks : y # t => /\ pc'[y] = "allocating" <=> pc[y] = "allocating"
                                   /\ elv'[y] = elv[y]
  PROVE  Cardinality(Busy(d, k))' = Cardinality(Busy(d, k)) - Is(t, d, k) + Is(t, d, k)'
<1> DEFINE A == Busy(d, k)
           B == Busy(d, k)'
           R == A \ {t}
<1>1. IsFiniteSet(A) /\ Cardinality(A) \in Nat
  BY BusyFinite
<1>2. t \in A <=> Is(t, d, k) = 1
  BY DEF Busy, Is
<1>3. t \in B <=> Is(t, d, k)' = 1
  BY DEF Busy, Is
<1>4. B = IF t \in B THEN R \union {t} ELSE R
  BY DEF Busy, Kind
<1>5. Is(t, d, k) \in {0, 1} /\ Is(t, d, k)' \in {0, 1}
  BY DEF Is
<1>6. Cardinality(Busy(d, k))' = Cardinality(B)
  OBVIOUS
<1> HIDE DEF A, B
<1>7. IsFiniteSet(R) /\ Cardinality(R) = IF t \in A THEN Cardinality(A) - 1 ELSE Cardinality(A)
  BY <1>1, FS_RemoveElement
<1>8. Cardinality(R \union {t}) = Cardinality(R) + 1
  BY <1>7, FS_AddElement
<1> HIDE DEF R
<1>9. Cardinality(R) = Cardinality(A) - Is(t, d, k)
  BY <1>1, <1>2, <1>5, <1>7
<1>10. Cardinality(B) = Cardinality(R) + Is(t, d, k)'
  <2>1. CASE t \in B
    BY <1>3, <1>4, <1>8, <2>1
  <2>2. CASE t \notin B
    <3>1. B = R /\ Is(t, d, k)' = 0 /\ Cardinality(R) \in Nat
      BY <1>3, <1>4, <1>5, <1>7, <2>2, FS_CardinalityType
    <3> QED
      BY <3>1
  <2> QED
    BY <2>1, <2>2
<1> QED
  BY <1>6, <1>9, <1>10 DEF A

(* The counts when nothing is taken or given.                              *)
LEMMA CountsSame ==
  ASSUME CountInv, UNCHANGED <<count, nr_rqs_elvpriv, live>>, elv' \in [Tasks -> BOOLEAN],
         \A y \in Tasks : /\ pc'[y] = "allocating" <=> pc[y] = "allocating"
                          /\ pc[y] = "allocating" => elv'[y] = elv[y]
  PROVE  CountInv'
<1>1. \A d, k : Busy(d, k)' = Busy(d, k)
  BY DEF Busy, Kind
<1>2. \A d, k : Used(d, k)' = Used(d, k)
  BY <1>1 DEF Used, Live
<1> QED
  BY <1>2 DEF CountInv

(* The requests of direction x change by a with the scheduler's data and   *)
(* by b without, and the counts follow.                                    *)
LEMMA CountsFollow ==
  ASSUME CountInv, NEW x \in Dirs, NEW a \in Int, NEW b \in Int,
         \A d \in Dirs : /\ Used(d, "elvpriv")' = Used(d, "elvpriv") + (IF d = x THEN a ELSE 0)
                         /\ Used(d, "plain")' = Used(d, "plain") + (IF d = x THEN b ELSE 0),
         count' = [count EXCEPT ![x] = @ + (a + b)], nr_rqs_elvpriv' = nr_rqs_elvpriv + a,
         live' \in [Dirs -> [BOOLEAN -> Nat]], elv' \in [Tasks -> BOOLEAN]
  PROVE  CountInv'
<1>1. ASSUME NEW d \in Dirs PROVE Used(d, "elvpriv") \in Int /\ Used(d, "plain") \in Int
  BY UsedNat DEF Kinds
<1>2. ASSUME NEW d \in Dirs PROVE count'[d] = Used(d, "elvpriv")' + Used(d, "plain")'
  <2>1. count[d] = Used(d, "elvpriv") + Used(d, "plain") /\ count[d] \in Int
    BY DEF CountInv
  <2>2. count'[d] = count[d] + (IF d = x THEN a + b ELSE 0)
    BY <2>1 DEF CountInv
  <2> QED
    BY <1>1, <2>1, <2>2
<1>3. nr_rqs_elvpriv' = Used("sync", "elvpriv")' + Used("async", "elvpriv")'
  <2>1. nr_rqs_elvpriv = Used("sync", "elvpriv") + Used("async", "elvpriv")
    BY DEF CountInv
  <2>2. "sync" \in Dirs /\ "async" \in Dirs /\ x \in {"sync", "async"}
    BY DEF Dirs
  <2> QED
    BY <1>1, <2>1, <2>2
<1>4. count' \in [Dirs -> Int] /\ nr_rqs_elvpriv' \in Int
  BY DEF CountInv
<1> QED
  BY <1>2, <1>3, <1>4 DEF CountInv

(* The requests used when task t moves and requests in use come or go.     *)
LEMMA UsedChange ==
  ASSUME CountInv, NEW t \in Tasks, NEW d \in Dirs, NEW k \in Kinds, Live(d, k)' \in Int,
         \A y \in Tasks : y # t => /\ pc'[y] = "allocating" <=> pc[y] = "allocating"
                                   /\ elv'[y] = elv[y]
  PROVE  Used(d, k)' = Used(d, k) + ((Live(d, k)' - Live(d, k)) + (Is(t, d, k)' - Is(t, d, k)))
<1>1. Cardinality(Busy(d, k))' = Cardinality(Busy(d, k)) - Is(t, d, k) + Is(t, d, k)'
  BY BusyChange
<1>2. Cardinality(Busy(d, k)) \in Nat /\ Live(d, k) \in Nat
  BY BusyFinite, UsedNat
<1>3. Is(t, d, k) \in {0, 1} /\ Is(t, d, k)' \in {0, 1}
  BY DEF Is
<1> QED
  BY <1>1, <1>2, <1>3 DEF Used

(* A table of two keys with one entry changed.                             *)
LEMMA EntryChanged ==
  ASSUME NEW S, NEW T, NEW f \in [S -> [T -> Nat]], NEW x \in S, NEW e \in T, NEW v \in Nat,
         NEW g, g = [f EXCEPT ![x][e] = v]
  PROVE  /\ g \in [S -> [T -> Nat]]
         /\ \A d \in S, k \in T : g[d][k] = IF d = x /\ k = e THEN v ELSE f[d][k]
  OBVIOUS

(* The requests of a kind are found under its REQ_ELVPRIV.                 *)
LEMMA LiveAt ==
  ASSUME NEW d, NEW e \in BOOLEAN
  PROVE  Live(d, Kind(e)) = live[d][e] /\ Kind(e) \in Kinds
<1>1. CASE e = TRUE
  BY <1>1 DEF Live, Kind, Kinds
<1>2. CASE e = FALSE
  BY <1>2 DEF Live, Kind, Kinds
<1> QED
  BY <1>1, <1>2

(* The requests in use when one of direction x comes or goes.              *)
LEMMA LiveChange ==
  ASSUME CountInv, NEW x \in Dirs, NEW e \in BOOLEAN, NEW v \in Nat,
         live' \in [Dirs -> [BOOLEAN -> Nat]],
         \A d \in Dirs, f \in BOOLEAN : live'[d][f] = IF d = x /\ f = e THEN v ELSE live[d][f],
         NEW d \in Dirs, NEW k \in Kinds
  PROVE  /\ Live(d, k)' = IF d = x /\ k = Kind(e) THEN v ELSE Live(d, k)
         /\ Live(d, k)' \in Int /\ Live(d, k) \in Int
<1>1. live \in [Dirs -> [BOOLEAN -> Nat]]
  BY DEF CountInv
<1> PICK f \in BOOLEAN : f <=> k = "elvpriv"
  OBVIOUS
<1>2. Kind(f) = k /\ (f = e <=> k = Kind(e))
  BY DEF Kind, Kinds
<1>3. Live(d, k) = live[d][f] /\ Live(d, k)' = live'[d][f]
  BY DEF Live, Kinds
<1>4. live[d][f] \in Nat /\ live'[d][f] \in Nat
  BY <1>1
<1> QED
  BY <1>2, <1>3, <1>4

(* __get_request counts the request that task t begins to allocate.        *)
LEMMA GrantKeepsCounts ==
  ASSUME CountInv, WaitInv, NEW t \in Tasks, NEW w, NEW e \in BOOLEAN,
         pc[t] # "allocating", get_request_granted(t, w, e)
  PROVE  CountInv'
<1> DEFINE x == TaskDir[t]
           a == IF e THEN 1 ELSE 0
           b == IF e THEN 0 ELSE 1
<1>1. x \in Dirs /\ a \in Int /\ b \in Int /\ a + b = 1
  BY RequestListAssumption
<1>2. /\ count' = [count EXCEPT ![x] = @ + 1] /\ live' = live
      /\ nr_rqs_elvpriv' = nr_rqs_elvpriv + a
      /\ elv' = [elv EXCEPT ![t] = e] /\ pc' = [pc EXCEPT ![t] = "allocating"]
  BY DEF get_request_granted
<1>3. /\ elv' \in [Tasks -> BOOLEAN] /\ elv'[t] = e /\ pc'[t] = "allocating"
      /\ \A y \in Tasks : y # t => pc'[y] = pc[y] /\ elv'[y] = elv[y]
      /\ live \in [Dirs -> [BOOLEAN -> Nat]]
  BY <1>2 DEF CountInv, WaitInv
<1>4. \A d, k : Is(t, d, k) = 0 /\ Is(t, d, k)' = (IF d = x /\ k = Kind(e) THEN 1 ELSE 0)
  BY <1>3 DEF Is
<1>5. /\ a = IF Kind(e) = "elvpriv" THEN 1 ELSE 0
      /\ b = IF Kind(e) = "plain" THEN 1 ELSE 0
  BY DEF Kind
<1> HIDE DEF x, a, b
<1>6. ASSUME NEW d \in Dirs, NEW k \in Kinds
      PROVE  Used(d, k)' = Used(d, k) + (IF d = x /\ k = Kind(e) THEN 1 ELSE 0)
  <2> Live(d, k) \in Int
    BY UsedNat
  <2>1. Live(d, k)' = Live(d, k) /\ Live(d, k)' \in Int
    BY <1>2 DEF Live
  <2>2. Used(d, k)' = Used(d, k) + ((Live(d, k)' - Live(d, k)) + (Is(t, d, k)' - Is(t, d, k)))
    BY <1>3, <2>1, UsedChange
  <2> QED
    BY <1>4, <2>1, <2>2
<1>7. \A d \in Dirs : /\ Used(d, "elvpriv")' = Used(d, "elvpriv") + (IF d = x THEN a ELSE 0)
                      /\ Used(d, "plain")' = Used(d, "plain") + (IF d = x THEN b ELSE 0)
  BY <1>5, <1>6 DEF Kinds
<1> QED
  BY <1>1, <1>2, <1>3, <1>7, CountsFollow

(* The rest of __get_request: the request becomes one in use, with the     *)
(* scheduler's data or, when these cannot be had, without.                 *)
LEMMA AllocateKeepsCounts ==
  ASSUME CountInv, WaitInv, NEW t \in Tasks, NEW e \in BOOLEAN, allocate(t, e)
  PROVE  CountInv'
<1> DEFINE x == TaskDir[t]
           lost == IF elv[t] /\ ~ e THEN 1 ELSE 0
<1>1. x \in Dirs /\ lost \in Int /\ 0 - lost \in Int
  BY RequestListAssumption
<1>2. /\ pc[t] = "allocating" /\ pc' = [pc EXCEPT ![t] = "out"] /\ count' = count
      /\ live' = [live EXCEPT ![x][e] = live[x][e] + 1] /\ elv' = [elv EXCEPT ![t] = FALSE]
  BY DEF allocate, AttemptOver
<1>3. nr_rqs_elvpriv' = nr_rqs_elvpriv - lost /\ (e => elv[t]) /\ elv[t] \in BOOLEAN
      /\ nr_rqs_elvpriv \in Int
  <2>1. \/ e = elv[t] /\ nr_rqs_elvpriv' = nr_rqs_elvpriv
        \/ elv[t] /\ ~ e /\ nr_rqs_elvpriv' = nr_rqs_elvpriv - 1
    BY DEF allocate
  <2>2. nr_rqs_elvpriv \in Int /\ elv[t] \in BOOLEAN
    BY DEF CountInv
  <2> QED
    BY <2>1, <2>2
<1>4. /\ elv' \in [Tasks -> BOOLEAN] /\ pc'[t] = "out"
      /\ \A y \in Tasks : y # t => pc'[y] = pc[y] /\ elv'[y] = elv[y]
  BY <1>2 DEF CountInv, WaitInv
<1>5. \A d, k : Is(t, d, k)' = 0 /\ Is(t, d, k) = (IF d = x /\ k = Kind(elv[t]) THEN 1 ELSE 0)
  BY <1>2, <1>4 DEF Is
<1>6. /\ Kind(e) \in Kinds /\ Kind(elv[t]) \in Kinds
      /\ lost = IF Kind(elv[t]) = "elvpriv" /\ Kind(e) = "plain" THEN 1 ELSE 0
      /\ Kind(e) = "elvpriv" => Kind(elv[t]) = "elvpriv"
  BY <1>3 DEF Kind, Kinds
<1> HIDE DEF x, lost
<1>13. live[x][e] \in Nat
  BY <1>1 DEF CountInv
<1>11. PICK v \in Nat : v = live[x][e] + 1
  BY <1>13
<1>12. Live(x, Kind(e)) = v - 1
  BY <1>11, <1>13, LiveAt
<1>7. /\ live' \in [Dirs -> [BOOLEAN -> Nat]]
      /\ \A d \in Dirs, k \in Kinds :
           /\ Live(d, k)' = Live(d, k) + (IF d = x /\ k = Kind(e) THEN 1 ELSE 0)
           /\ Live(d, k)' \in Int /\ Live(d, k) \in Int
  <2>1. /\ live' \in [Dirs -> [BOOLEAN -> Nat]]
        /\ \A d \in Dirs, k \in Kinds :
             /\ Live(d, k)' = IF d = x /\ k = Kind(e) THEN v ELSE Live(d, k)
             /\ Live(d, k)' \in Int /\ Live(d, k) \in Int
    <3> live' = [live EXCEPT ![x][e] = v]
      BY <1>2, <1>11, Zenon
    <3>1. /\ live' \in [Dirs -> [BOOLEAN -> Nat]]
          /\ \A d \in Dirs, f \in BOOLEAN :
               live'[d][f] = IF d = x /\ f = e THEN v ELSE live[d][f]
      BY <1>1, EntryChanged DEF CountInv
    <3> QED
      BY <1>1, <3>1, LiveChange
  <2> QED
    BY <1>11, <1>12, <2>1
<1>8. ASSUME NEW d \in Dirs, NEW k \in Kinds
      PROVE  Used(d, k)' = Used(d, k) + ((IF d = x /\ k = Kind(e) THEN 1 ELSE 0)
                                         - (IF d = x /\ k = Kind(elv[t]) THEN 1 ELSE 0))
  <2>1. Used(d, k)' = Used(d, k) + ((Live(d, k)' - Live(d, k)) + (Is(t, d, k)' - Is(t, d, k)))
    BY <1>4, <1>7, UsedChange
  <2>2. (Live(d, k)' - Live(d, k)) + (Is(t, d, k)' - Is(t, d, k))
          = (IF d = x /\ k = Kind(e) THEN 1 ELSE 0) - (IF d = x /\ k = Kind(elv[t]) THEN 1 ELSE 0)
    BY <1>5, <1>7
  <2> QED
    BY <2>1, <2>2
<1>9. \A d \in Dirs : /\ Used(d, "elvpriv")' = Used(d, "elvpriv") + (IF d = x THEN 0 - lost ELSE 0)
                      /\ Used(d, "plain")' = Used(d, "plain") + (IF d = x THEN lost ELSE 0)
  BY <1>6, <1>8 DEF Kinds
<1>10. count' = [count EXCEPT ![x] = @ + ((0 - lost) + lost)]
       /\ nr_rqs_elvpriv' = nr_rqs_elvpriv + (0 - lost)
  BY <1>1, <1>2, <1>3 DEF CountInv
<1> QED
  BY <1>1, <1>4, <1>7, <1>9, <1>10, CountsFollow

(* What freed_request does to the counts, as changes.                      *)
LEMMA FreedCounts ==
  ASSUME CountInv, NEW x \in Dirs, NEW e \in BOOLEAN, NEW at, freed_request(x, e, at),
         NEW a, NEW b, a = (IF Kind(e) = "elvpriv" THEN -1 ELSE 0),
         b = (IF Kind(e) = "plain" THEN -1 ELSE 0)
  PROVE  /\ a \in Int /\ b \in Int
         /\ count' = [count EXCEPT ![x] = @ + (a + b)] /\ nr_rqs_elvpriv' = nr_rqs_elvpriv + a
<1> DEFINE n == IF e THEN 1 ELSE 0
           c == count[x]
<1>1. count' = [count EXCEPT ![x] = c - 1] /\ nr_rqs_elvpriv' = nr_rqs_elvpriv - n
  BY DEF freed_request
<1>2. c \in Int /\ nr_rqs_elvpriv \in Int
  BY DEF CountInv
<1>3. n \in Int /\ a = 0 - n /\ b = n - 1
  BY DEF Kind
<1> HIDE DEF n
<1>4. a \in Int /\ b \in Int /\ c - 1 = c + (a + b) /\ nr_rqs_elvpriv' = nr_rqs_elvpriv + a
  BY <1>1, <1>2, <1>3
<1> QED
  BY <1>1, <1>4

(* fail_alloc: task t gives up its request, and sleepers may be woken.     *)
LEMMA FailKeepsCounts ==
  ASSUME CountInv, WaitInv, NEW t \in Tasks, allocate_fails(t),
         \A y \in Tasks : y # t => (pc'[y] = "allocating" <=> pc[y] = "allocating"),
         pc'[t] # "allocating"
  PROVE  CountInv'
<1> DEFINE x == TaskDir[t]
           e == elv[t]
<1>1. x \in Dirs /\ e \in BOOLEAN
  BY RequestListAssumption DEF CountInv
<1>2. /\ pc[t] = "allocating" /\ live' = live /\ elv' = [elv EXCEPT ![t] = FALSE]
      /\ freed_request(x, e, [pc EXCEPT ![t] = "out"])
  BY DEF allocate_fails, AttemptOver
<1>3. /\ elv' \in [Tasks -> BOOLEAN] /\ \A y \in Tasks : y # t => elv'[y] = elv[y]
      /\ live' \in [Dirs -> [BOOLEAN -> Nat]]
  BY <1>2 DEF CountInv
<1>4. \A d, k : Is(t, d, k)' = 0 /\ Is(t, d, k) = (IF d = x /\ k = Kind(e) THEN 1 ELSE 0)
  BY <1>2 DEF Is
<1> HIDE DEF x, e
<1> DEFINE a == IF Kind(e) = "elvpriv" THEN -1 ELSE 0
           b == IF Kind(e) = "plain" THEN -1 ELSE 0
<1>5. /\ a \in Int /\ b \in Int
      /\ count' = [count EXCEPT ![x] = @ + (a + b)] /\ nr_rqs_elvpriv' = nr_rqs_elvpriv + a
  BY <1>1, <1>2, FreedCounts
<1>6. ASSUME NEW d \in Dirs, NEW k \in Kinds
      PROVE  Used(d, k)' = Used(d, k) + (IF d = x /\ k = Kind(e) THEN -1 ELSE 0)
  <2> Live(d, k) \in Int
    BY UsedNat
  <2>1. Live(d, k)' = Live(d, k) /\ Live(d, k)' \in Int
    BY <1>2 DEF Live
  <2>2. Used(d, k)' = Used(d, k) + ((Live(d, k)' - Live(d, k)) + (Is(t, d, k)' - Is(t, d, k)))
    BY <1>3, <2>1, UsedChange
  <2> QED
    BY <1>4, <2>1, <2>2
<1>7. \A d \in Dirs : /\ Used(d, "elvpriv")' = Used(d, "elvpriv") + (IF d = x THEN a ELSE 0)
                      /\ Used(d, "plain")' = Used(d, "plain") + (IF d = x THEN b ELSE 0)
  BY <1>5, <1>6 DEF Kinds
<1> HIDE DEF a, b
<1> QED
  BY <1>1, <1>3, <1>5, <1>7, CountsFollow

(* __blk_put_request.                                                      *)
LEMMA PutKeepsCounts ==
  ASSUME CountInv, NEW x \in Dirs, NEW e \in BOOLEAN, blk_put_request(x, e),
         \A y \in Tasks : pc'[y] = "allocating" <=> pc[y] = "allocating"
  PROVE  CountInv'
<1>1. /\ live[x][e] > 0 /\ live' = [live EXCEPT ![x][e] = live[x][e] - 1] /\ elv' = elv
      /\ freed_request(x, e, pc)
  BY DEF blk_put_request, call
<1>2. elv' \in [Tasks -> BOOLEAN] /\ live[x][e] \in Nat
  BY <1>1 DEF CountInv
<1>8. PICK v \in Nat : v = live[x][e] - 1
  BY <1>1, <1>2
<1>7. Live(x, Kind(e)) = v + 1
  BY <1>2, <1>8, LiveAt
<1>3. /\ live' \in [Dirs -> [BOOLEAN -> Nat]]
      /\ \A d \in Dirs, k \in Kinds :
           /\ Live(d, k)' = Live(d, k) + (IF d = x /\ k = Kind(e) THEN -1 ELSE 0)
           /\ Live(d, k)' \in Int /\ Live(d, k) \in Int
  <2>1. /\ live' \in [Dirs -> [BOOLEAN -> Nat]]
        /\ \A d \in Dirs, k \in Kinds :
             /\ Live(d, k)' = IF d = x /\ k = Kind(e) THEN v ELSE Live(d, k)
             /\ Live(d, k)' \in Int /\ Live(d, k) \in Int
    <3> live' = [live EXCEPT ![x][e] = v]
      BY <1>1, <1>8, Zenon
    <3>1. /\ live' \in [Dirs -> [BOOLEAN -> Nat]]
          /\ \A d \in Dirs, f \in BOOLEAN :
               live'[d][f] = IF d = x /\ f = e THEN v ELSE live[d][f]
      BY EntryChanged DEF CountInv
    <3> QED
      BY <3>1, LiveChange
  <2>2. ASSUME NEW d \in Dirs, NEW k \in Kinds
        PROVE  Live(d, k)' = Live(d, k) + (IF d = x /\ k = Kind(e) THEN -1 ELSE 0)
    <3>1. CASE d = x /\ k = Kind(e)
      BY <1>7, <2>1, <3>1
    <3>2. CASE ~ (d = x /\ k = Kind(e))
      BY <2>1, <3>2
    <3> QED
      BY <3>1, <3>2
  <2> QED
    BY <2>1, <2>2
<1> DEFINE a == IF Kind(e) = "elvpriv" THEN -1 ELSE 0
           b == IF Kind(e) = "plain" THEN -1 ELSE 0
<1>4. /\ a \in Int /\ b \in Int
      /\ count' = [count EXCEPT ![x] = @ + (a + b)] /\ nr_rqs_elvpriv' = nr_rqs_elvpriv + a
  BY <1>1, FreedCounts
<1>5. ASSUME NEW d \in Dirs, NEW k \in Kinds
      PROVE  Used(d, k)' = Used(d, k) + (IF d = x /\ k = Kind(e) THEN -1 ELSE 0)
  <2>1. Busy(d, k)' = Busy(d, k)
    BY <1>1 DEF Busy
  <2>2. Cardinality(Busy(d, k)) \in Nat
    BY BusyFinite
  <2> QED
    BY <1>3, <2>1, <2>2 DEF Used
<1>6. \A d \in Dirs : /\ Used(d, "elvpriv")' = Used(d, "elvpriv") + (IF d = x THEN a ELSE 0)
                      /\ Used(d, "plain")' = Used(d, "plain") + (IF d = x THEN b ELSE 0)
  BY <1>4, <1>5 DEF Kinds
<1> HIDE DEF a, b
<1> QED
  BY <1>2, <1>3, <1>4, <1>6, CountsFollow

-----------------------------------------------------------------------------
(***************************************************************************)
(* No lost wake-up, made inductive: a task that was refused and is about   *)
(* to sleep (it holds the lock) counts as a sleeper already.               *)
(***************************************************************************)
Waiting(d) == wait[d] # <<>> \/ \E t \in Tasks : TaskDir[t] = d /\ pc[t] = "queueing"
Waker(d)   == \E t \in Tasks : TaskDir[t] = d /\ pc[t] \in {"woken", "retry"}
Hopeful(d) == Waiting(d) => count[d] > 0 \/ Waker(d)

WakeInv == ~ dying => \A d \in Dirs : Hopeful(d)

(* The request list's invariant; the flags of LevelInv look after          *)
(* themselves.                                                             *)
ListInv == LevelInv /\ WaitInv /\ CountInv /\ WakeInv

(* The counts are never negative.                                          *)
LEMMA CountNat == ASSUME CountInv, NEW d \in Dirs PROVE count[d] \in Nat
<1>1. Used(d, "elvpriv") \in Nat /\ Used(d, "plain") \in Nat
  BY UsedNat DEF Kinds
<1> QED
  BY <1>1 DEF CountInv

(***************************************************************************)
(* A step of one task t that loses no hope: its own direction has a        *)
(* request in use after it, or t neither begins to wait nor was the one to *)
(* wake the others.                                                        *)
(***************************************************************************)
LEMMA TaskKeepsHope ==
  ASSUME WakeInv, WaitInv, NEW t \in Tasks, NEW place, pc' = [pc EXCEPT ![t] = place],
         dying' = dying,
         \A d \in Dirs : count[d] > 0 => count'[d] > 0,
         \A d \in Dirs : d # TaskDir[t] => wait'[d] = wait[d],
         \/ count'[TaskDir[t]] > 0
         \/ /\ Waiting(TaskDir[t])' => Waiting(TaskDir[t])
            /\ pc[t] \in {"woken", "retry"} => place \in {"woken", "retry"}
  PROVE  WakeInv'
<1>1. pc'[t] = place /\ \A y \in Tasks : y # t => pc'[y] = pc[y]
  BY DEF WaitInv
<1>2. ASSUME ~ dying', NEW d \in Dirs PROVE Hopeful(d)'
  <2>1. Hopeful(d)
    BY <1>2 DEF WakeInv
  <2>2. CASE d # TaskDir[t]
    <3>1. (Waiting(d)' <=> Waiting(d)) /\ (Waker(d)' <=> Waker(d))
      BY <1>1, <2>2 DEF Waiting, Waker
    <3> QED
      BY <2>1, <3>1 DEF Hopeful
  <2>3. CASE d = TaskDir[t] /\ count'[d] > 0
    BY <2>3 DEF Hopeful
  <2>4. CASE /\ d = TaskDir[t] /\ (Waiting(d)' => Waiting(d))
             /\ pc[t] \in {"woken", "retry"} => place \in {"woken", "retry"}
    <3>1. Waker(d) => Waker(d)'
      BY <1>1, <2>4 DEF Waker
    <3> QED
      BY <2>1, <2>4, <3>1 DEF Hopeful
  <2> QED
    BY <2>2, <2>3, <2>4
<1> QED
  BY <1>2 DEF WakeInv

(* freed_request: where the last request goes, a sleeper is woken.         *)
LEMMA FreedWakes ==
  ASSUME LevelInv, WaitInv, NEW x \in Dirs, NEW e, NEW at \in [Tasks -> Places],
         \A t \in Tasks : at[t] = pc[t] \/ (pc[t] = "allocating" /\ at[t] = "out"),
         freed_request(x, e, at)
  PROVE  /\ WaitInv'
         /\ \A t \in Tasks : pc'[t] = at[t] \/ (pc[t] = "asleep" /\ pc'[t] = "woken")
         /\ \A d \in Dirs : /\ wait[d] = <<>> => wait'[d] = <<>>
                            /\ d # x => count'[d] = count[d]
         /\ wait[x] # <<>> => count'[x] > 0 \/ \E t \in Tasks : TaskDir[t] = x /\ pc'[t] = "woken"
<1> DEFINE c == [count EXCEPT ![x] = @ - 1]
           seen == {x} \union (IF starved[Other(x)] THEN {Other(x)} ELSE {})
           room == {y \in seen : MakesRoom(y, c[y])}
<1>1. count' = c /\ wake_up(room, at)
  BY DEF freed_request
<1>2. c \in [Dirs -> Int] /\ \A d \in Dirs : d # x => c[d] = count[d]
  BY DEF LevelInv, LevelTypes
<1>3. room \subseteq Dirs
  BY DEF Other, Dirs
<1>4. c[x] <= 0 => x \in room
  BY <1>2 DEF MakesRoom, LevelInv, LevelTypes
<1> HIDE DEF c, seen, room
<1>5. \A t \in Tasks : at[t] = pc[t] \/ (pc[t] # "asleep" /\ at[t] # "asleep")
  OBVIOUS
<1>6. /\ WaitInv'
      /\ \A t \in Tasks : pc'[t] = at[t] \/ (pc[t] = "asleep" /\ pc'[t] = "woken")
      /\ \A d \in room : wait[d] # <<>> => \E t \in Tasks : TaskDir[t] = d /\ pc'[t] = "woken"
      /\ \A d \in Dirs : wait[d] = <<>> => wait'[d] = <<>>
  BY <1>1, <1>3, <1>5, WakeUpEffect
<1>7. wait[x] # <<>> => count'[x] > 0 \/ \E t \in Tasks : TaskDir[t] = x /\ pc'[t] = "woken"
  BY <1>1, <1>2, <1>4, <1>6
<1> QED
  BY <1>1, <1>2, <1>6, <1>7

(***************************************************************************)
(* A step that wakes sleepers under the lock: the wakers stay, nobody      *)
(* begins to wait, and direction d is left without requests only if a      *)
(* sleeper of it was woken.                                                *)
(***************************************************************************)
LEMMA WakingKeepsHope ==
  ASSUME WakeInv, LockFree, dying' = dying,
         \A t \in Tasks : \/ pc'[t] = pc[t]
                          \/ pc[t] = "allocating" /\ pc'[t] = "out"
                          \/ pc[t] = "asleep" /\ pc'[t] = "woken",
         \A d \in Dirs : wait[d] = <<>> => wait'[d] = <<>>,
         \A d \in Dirs : wait[d] # <<>> /\ count'[d] # count[d] =>
                           count'[d] > 0 \/ \E t \in Tasks : TaskDir[t] = d /\ pc'[t] = "woken"
  PROVE  WakeInv'
<1>1. ASSUME ~ dying', NEW d \in Dirs, Waiting(d)' PROVE count'[d] > 0 \/ Waker(d)'
  <2>1. \A t \in Tasks : pc'[t] # "queueing"
    BY DEF LockFree
  <2>2. wait[d] # <<>>
    BY <1>1, <2>1 DEF Waiting
  <2>3. count[d] > 0 \/ Waker(d)
    BY <1>1, <2>2 DEF WakeInv, Hopeful, Waiting
  <2>4. Waker(d) => Waker(d)'
    BY DEF Waker
  <2>5. CASE count'[d] = count[d]
    BY <2>3, <2>4, <2>5
  <2>6. CASE count'[d] > 0 \/ \E t \in Tasks : TaskDir[t] = d /\ pc'[t] = "woken"
    BY <2>6 DEF Waker
  <2> QED
    BY <2>2, <2>5, <2>6
<1> QED
  BY <1>1 DEF WakeInv, Hopeful

(* __get_request up to the allocation.                                     *)
LEMMA GrantStep ==
  ASSUME ListInv, NEW t \in Tasks, NEW w, NEW e \in BOOLEAN, pc[t] \in {"out", "retry"},
         get_request_granted(t, w, e)
  PROVE  WaitInv' /\ CountInv' /\ WakeInv'
<1> DEFINE x == TaskDir[t]
<1>1. x \in Dirs
  BY RequestListAssumption
<1>2. /\ pc' = [pc EXCEPT ![t] = "allocating"] /\ wait' = wait /\ dying' = dying
      /\ count' = [count EXCEPT ![x] = @ + 1]
  BY DEF get_request_granted, fate
<1>3. WaitInv'
  BY <1>2, MoveKeepsWait DEF ListInv, Places
<1>4. CountInv'
  BY GrantKeepsCounts DEF ListInv
<1> HIDE DEF x
<1>5. count'[x] > 0 /\ \A d \in Dirs : count[d] > 0 => count'[d] > 0
  <2>1. count \in [Dirs -> Int] /\ count[x] \in Nat
    BY <1>1, CountNat DEF ListInv, CountInv
  <2> QED
    BY <1>1, <1>2, <2>1
<1>6. WakeInv'
  BY <1>2, <1>5, TaskKeepsHope DEF ListInv, x
<1> QED
  BY <1>3, <1>4, <1>6

(* __get_request refuses: there are requests in that direction.            *)
LEMMA RefuseStep ==
  ASSUME ListInv, NEW t \in Tasks, NEW w, pc[t] \in {"out", "retry"}, get_request_refused(t, w)
  PROVE  WaitInv' /\ CountInv' /\ WakeInv'
<1> DEFINE x == TaskDir[t]
           place == IF w THEN "queueing" ELSE "out"
<1>1. x \in Dirs /\ place \in Places /\ place \notin {"asleep", "allocating"}
  BY RequestListAssumption DEF Places
<1>2. /\ pc' = [pc EXCEPT ![t] = place] /\ wait' = wait /\ dying' = dying /\ live' = live
      /\ count' = count /\ nr_rqs_elvpriv' = nr_rqs_elvpriv /\ elv' = [elv EXCEPT ![t] = FALSE]
  BY DEF get_request_refused, fate, AttemptOver
<1>3. full[x] \/ OverLimit(x)
  BY DEF get_request_refused, Refused
<1> HIDE DEF x, place
<1>4. WaitInv'
  BY <1>1, <1>2, MoveKeepsWait DEF ListInv
<1>5. CountInv'
  <2>1. /\ elv' \in [Tasks -> BOOLEAN]
        /\ \A y \in Tasks : /\ pc'[y] = "allocating" <=> pc[y] = "allocating"
                            /\ pc[y] = "allocating" => elv'[y] = elv[y]
    BY <1>1, <1>2 DEF ListInv, CountInv, WaitInv
  <2> QED
    BY <1>2, <2>1, CountsSame DEF ListInv
<1>6. count[x] > 0
  <2>1. /\ nr_requests \in Nat \ {0} /\ count[x] \in Int
        /\ full[x] => count[x] >= nr_requests
        /\ OverLimit(x) => count[x] >= (3 * nr_requests) \div 2
    BY <1>1 DEF ListInv, LevelInv, LevelTypes, FullExact, OverLimit
  <2>2. (3 * nr_requests) \div 2 \in Int /\ (3 * nr_requests) \div 2 >= nr_requests
    BY <2>1, SMT
  <2> QED
    BY <1>3, <2>1, <2>2
<1>7. WakeInv'
  BY <1>2, <1>6, TaskKeepsHope DEF ListInv, x
<1> QED
  BY <1>4, <1>5, <1>7

(* The sleep: who waits in rl->wait was waiting already.                   *)
LEMMA SleepStep ==
  ASSUME ListInv, NEW t \in Tasks, get_request_sleep(t)
  PROVE  WaitInv' /\ CountInv' /\ WakeInv'
<1>1. /\ pc[t] = "queueing" /\ pc' = [pc EXCEPT ![t] = "asleep"] /\ dying' = dying
      /\ UNCHANGED <<count, nr_rqs_elvpriv, live, elv>>
      /\ wait' = [wait EXCEPT ![TaskDir[t]] = Append(@, t)]
  BY DEF get_request_sleep, fate, rl, call
<1>2. WaitInv'
  BY SleepKeepsWait DEF ListInv
<1>3. CountInv'
  BY <1>1, CountsSame DEF ListInv, CountInv, WaitInv
<1>4. Waiting(TaskDir[t])
  BY <1>1 DEF Waiting
<1>5. \A d \in Dirs : d # TaskDir[t] => wait'[d] = wait[d]
  BY <1>1 DEF ListInv, WaitInv
<1>6. WakeInv'
  BY <1>1, <1>4, <1>5, TaskKeepsHope DEF ListInv
<1> QED
  BY <1>2, <1>3, <1>6

(* After the sleep the task looks at the dying flag and tries again.       *)
LEMMA WakeStep ==
  ASSUME ListInv, NEW t \in Tasks, get_request_wake(t) \/ get_request_dying(t)
  PROVE  WaitInv' /\ CountInv' /\ WakeInv'
<1>1. /\ pc[t] \in {"woken", "retry"} /\ dying' = dying /\ wait' = wait
      /\ UNCHANGED <<count, nr_rqs_elvpriv, live>>
      /\ elv' = elv \/ elv' = [elv EXCEPT ![t] = FALSE]
      /\ \/ pc' = [pc EXCEPT ![t] = "retry"]
         \/ pc' = [pc EXCEPT ![t] = "out"] /\ dying
  BY DEF get_request_wake, get_request_dying, fate, rl, call, AttemptOver
<1>2. WaitInv'
  BY <1>1, MoveKeepsWait DEF ListInv, Places
<1>3. CountInv'
  <2>1. /\ elv' \in [Tasks -> BOOLEAN]
        /\ \A y \in Tasks : /\ pc'[y] = "allocating" <=> pc[y] = "allocating"
                            /\ pc[y] = "allocating" => elv'[y] = elv[y]
    BY <1>1 DEF ListInv, CountInv, WaitInv
  <2> QED
    BY <1>1, <2>1, CountsSame DEF ListInv
<1>4. WakeInv'
  <2>1. CASE dying
    BY <1>1, <2>1 DEF WakeInv
  <2>2. CASE pc' = [pc EXCEPT ![t] = "retry"]
    <3>1. Waiting(TaskDir[t])' => Waiting(TaskDir[t])
      BY <1>1, <2>2 DEF Waiting, ListInv, WaitInv
    <3> QED
      BY <1>1, <2>2, <3>1, TaskKeepsHope DEF ListInv
  <2> QED
    BY <1>1, <2>1, <2>2
<1> QED
  BY <1>2, <1>3, <1>4

(* The rest of __get_request.                                              *)
LEMMA AllocateStep ==
  ASSUME ListInv, NEW t \in Tasks, NEW e \in BOOLEAN, allocate(t, e)
  PROVE  WaitInv' /\ CountInv' /\ WakeInv'
<1>1. /\ pc[t] = "allocating" /\ pc' = [pc EXCEPT ![t] = "out"] /\ wait' = wait
      /\ count' = count /\ dying' = dying
  BY DEF allocate, fate
<1>2. WaitInv'
  BY <1>1, MoveKeepsWait DEF ListInv, Places
<1>3. CountInv'
  BY AllocateKeepsCounts DEF ListInv
<1>4. Waiting(TaskDir[t])' => Waiting(TaskDir[t])
  BY <1>1 DEF Waiting, ListInv, WaitInv
<1>5. WakeInv'
  BY <1>1, <1>4, TaskKeepsHope DEF ListInv
<1> QED
  BY <1>2, <1>3, <1>5

(* fail_alloc.                                                             *)
LEMMA FailStep ==
  ASSUME ListInv, NEW t \in Tasks, allocate_fails(t)
  PROVE  WaitInv' /\ CountInv' /\ WakeInv'
<1> DEFINE x == TaskDir[t]
           at == [pc EXCEPT ![t] = "out"]
<1>1. x \in Dirs
  BY RequestListAssumption
<1>2. /\ LockFree /\ pc[t] = "allocating" /\ freed_request(x, elv[t], at) /\ dying' = dying
  BY DEF allocate_fails, fate
<1>3. /\ at \in [Tasks -> Places] /\ at[t] = "out"
      /\ \A y \in Tasks : y # t => at[y] = pc[y]
  BY DEF ListInv, WaitInv, Places
<1> HIDE DEF at, x
<1>4. \A y \in Tasks : at[y] = pc[y] \/ (pc[y] = "allocating" /\ at[y] = "out")
  BY <1>2, <1>3
<1>5. /\ WaitInv'
      /\ \A y \in Tasks : pc'[y] = at[y] \/ (pc[y] = "asleep" /\ pc'[y] = "woken")
      /\ \A d \in Dirs : /\ wait[d] = <<>> => wait'[d] = <<>>
                         /\ d # x => count'[d] = count[d]
      /\ wait[x] # <<>> => count'[x] > 0 \/ \E y \in Tasks : TaskDir[y] = x /\ pc'[y] = "woken"
  BY <1>1, <1>2, <1>3, <1>4, FreedWakes DEF ListInv
<1>6. CountInv'
  <2>1. /\ \A y \in Tasks : y # t => (pc'[y] = "allocating" <=> pc[y] = "allocating")
        /\ pc'[t] # "allocating"
    BY <1>2, <1>3, <1>5
  <2> QED
    BY <2>1, FailKeepsCounts DEF ListInv
<1>7. WakeInv'
  <2>1. \A y \in Tasks : \/ pc'[y] = pc[y]
                         \/ pc[y] = "allocating" /\ pc'[y] = "out"
                         \/ pc[y] = "asleep" /\ pc'[y] = "woken"
    BY <1>4, <1>5
  <2>2. \A d \in Dirs : wait[d] # <<>> /\ count'[d] # count[d] =>
                          count'[d] > 0 \/ \E y \in Tasks : TaskDir[y] = d /\ pc'[y] = "woken"
    BY <1>5
  <2> QED
    BY <1>2, <1>5, <2>1, <2>2, WakingKeepsHope DEF ListInv
<1> QED
  BY <1>5, <1>6, <1>7

(* __blk_put_request.                                                      *)
LEMMA PutStep ==
  ASSUME ListInv, NEW x \in Dirs, NEW e \in BOOLEAN, blk_put_request(x, e)
  PROVE  WaitInv' /\ CountInv' /\ WakeInv'
<1>1. LockFree /\ freed_request(x, e, pc) /\ dying' = dying
  BY DEF blk_put_request, fate
<1>2. pc \in [Tasks -> Places]
  BY DEF ListInv, WaitInv
<1>3. /\ WaitInv'
      /\ \A y \in Tasks : pc'[y] = pc[y] \/ (pc[y] = "asleep" /\ pc'[y] = "woken")
      /\ \A d \in Dirs : /\ wait[d] = <<>> => wait'[d] = <<>>
                         /\ d # x => count'[d] = count[d]
      /\ wait[x] # <<>> => count'[x] > 0 \/ \E y \in Tasks : TaskDir[y] = x /\ pc'[y] = "woken"
  BY <1>1, <1>2, FreedWakes DEF ListInv
<1>4. CountInv'
  <2>1. \A y \in Tasks : pc'[y] = "allocating" <=> pc[y] = "allocating"
    BY <1>3
  <2> QED
    BY <2>1, PutKeepsCounts DEF ListInv
<1>5. WakeInv'
  <2>1. \A y \in Tasks : \/ pc'[y] = pc[y]
                         \/ pc[y] = "allocating" /\ pc'[y] = "out"
                         \/ pc[y] = "asleep" /\ pc'[y] = "woken"
    BY <1>3
  <2>2. \A d \in Dirs : wait[d] # <<>> /\ count'[d] # count[d] =>
                          count'[d] > 0 \/ \E y \in Tasks : TaskDir[y] = d /\ pc'[y] = "woken"
    BY <1>3
  <2> QED
    BY <1>1, <1>3, <2>1, <2>2, WakingKeepsHope DEF ListInv
<1> QED
  BY <1>3, <1>4, <1>5

(* A new limit, the dying mark and the end of the drain wake sleepers; the *)
(* counts stay.                                                            *)
LEMMA WakeUpStep ==
  ASSUME ListInv,
         (\E n \in Sizes : blk_update_nr_requests(n)) \/ blk_set_queue_dying \/ blk_drain_queue
  PROVE  WaitInv' /\ CountInv' /\ WakeInv'
<1>1. UNCHANGED <<count, nr_rqs_elvpriv, live, elv>>
  BY DEF blk_update_nr_requests, blk_set_queue_dying, blk_drain_queue, rl, call
<1>2. pc \in [Tasks -> Places]
  BY DEF ListInv, WaitInv
<1>3. /\ WaitInv'
      /\ \A y \in Tasks : pc'[y] = pc[y] \/ (pc[y] = "asleep" /\ pc'[y] = "woken")
      /\ \A d \in Dirs : wait[d] = <<>> => wait'[d] = <<>>
  <2>1. CASE blk_drain_queue
    BY <2>1, WakeAllEffect DEF blk_drain_queue, ListInv
  <2>2. ASSUME NEW ds, ds \subseteq Dirs, wake_up(ds, pc) PROVE <1>3!:
    BY <1>2, <2>2, WakeUpEffect DEF ListInv
  <2>3. CASE \E n \in Sizes : blk_update_nr_requests(n)
    <3> PICK n \in Sizes : blk_update_nr_requests(n)
      BY <2>3
    <3>1. wake_up({d \in Dirs : count[d] < n}, pc)
      BY DEF blk_update_nr_requests
    <3> QED
      BY <2>2, <3>1
  <2>4. CASE blk_set_queue_dying
    BY <2>2, <2>4 DEF blk_set_queue_dying
  <2> QED
    BY <2>1, <2>3, <2>4
<1>4. CountInv'
  <2>1. \A y \in Tasks : pc'[y] = "allocating" <=> pc[y] = "allocating"
    BY <1>3
  <2> QED
    BY <1>1, <2>1, CountsSame DEF ListInv, CountInv
<1>5. WakeInv'
  <2>1. CASE \E n \in Sizes : blk_update_nr_requests(n)
    <3>1. LockFree /\ dying' = dying
      BY <2>1 DEF blk_update_nr_requests, fate
    <3>2. \A y \in Tasks : \/ pc'[y] = pc[y]
                           \/ pc[y] = "allocating" /\ pc'[y] = "out"
                           \/ pc[y] = "asleep" /\ pc'[y] = "woken"
      BY <1>3
    <3> QED
      BY <1>1, <1>3, <3>1, <3>2, WakingKeepsHope DEF ListInv
  <2>2. CASE blk_set_queue_dying \/ blk_drain_queue
    <3>1. dying'
      BY <2>2 DEF blk_set_queue_dying, blk_drain_queue
    <3> QED
      BY <3>1 DEF WakeInv
  <2> QED
    BY <2>1, <2>2
<1> QED
  BY <1>3, <1>4, <1>5

(* A new request list has no request, no sleeper and no task inside.       *)
LEMMA ListInit == Init => ListInv
<1> SUFFICES ASSUME Init PROVE ListInv
  OBVIOUS
<1>1. /\ pc = [t \in Tasks |-> "out"] /\ wait = [d \in Dirs |-> <<>>] /\ nr_rqs_elvpriv = 0
      /\ live = [d \in Dirs |-> [e \in BOOLEAN |-> 0]] /\ count = [d \in Dirs |-> 0]
      /\ elv = [t \in Tasks |-> FALSE]
  BY DEF Init
<1>2. WaitInv
  <2>1. <<>> \in Seq(Tasks) /\ NoDuplicates(<<>>) /\ ToSet(<<>>) = {}
    <3>1. <<>> \in Seq(Tasks) /\ Len(<<>>) = 0
      OBVIOUS
    <3> QED
      BY <3>1, Entries DEF NoDuplicates
  <2> QED
    BY <1>1, <2>1 DEF WaitInv, Sleepers, Places
<1>3. ASSUME NEW d \in Dirs, NEW k \in Kinds PROVE Used(d, k) = 0
  <2>1. Busy(d, k) = {}
    BY <1>1 DEF Busy
  <2>2. Live(d, k) = 0
    BY <1>1 DEF Live
  <2>3. Cardinality(Busy(d, k)) = 0
    BY <2>1, FS_EmptySet
  <2> QED
    BY <2>2, <2>3 DEF Used
<1>4. CountInv
  BY <1>1, <1>3 DEF CountInv, Dirs, Kinds
<1>5. WakeInv
  BY <1>1 DEF WakeInv, Hopeful, Waiting
<1> QED
  BY <1>2, <1>4, <1>5, LevelInit DEF ListInv

(* Every step preserves the request list's invariant.                      *)
LEMMA ListStep == ListInv /\ [Next]_vars => ListInv'
<1> SUFFICES ASSUME ListInv, [Next]_vars PROVE ListInv'
  OBVIOUS
<1>1. LevelInv'
  BY LevelStep DEF ListInv
<1>2. WaitInv' /\ CountInv' /\ WakeInv'
  <2>1. CASE \E t \in Tasks : Call(t)
    <3> PICK t \in Tasks : Call(t)
      BY <2>1
    <3> pc[t] = "out"
      BY DEF Call
    <3>1. CASE \E w \in BOOLEAN : get_request_refused(t, w)
      BY <3>1, RefuseStep
    <3>2. CASE \E w \in BOOLEAN, e \in ElvPriv : get_request_granted(t, w, e)
      BY <3>2, GrantStep, RequestListAssumption
    <3> QED
      BY <3>1, <3>2 DEF Call
  <2>2. CASE \E t \in Tasks : Proceed(t)
    <3> PICK t \in Tasks : Proceed(t)
      BY <2>2
    <3>1. CASE get_request_sleep(t)
      BY <3>1, SleepStep
    <3>2. CASE get_request_wake(t) \/ get_request_dying(t)
      BY <3>2, WakeStep
    <3>3. CASE \E e \in BOOLEAN : allocate(t, e)
      BY <3>3, AllocateStep
    <3>4. CASE pc[t] = "retry" /\ get_request_refused(t, TRUE)
      <4> PICK w \in BOOLEAN : get_request_refused(t, w)
        BY <3>4, Zenon
      <4> QED
        BY <3>4, RefuseStep
    <3>5. CASE pc[t] = "retry" /\ \E e \in ElvPriv : get_request_granted(t, TRUE, e)
      <4> PICK e \in ElvPriv : get_request_granted(t, TRUE, e)
        BY <3>5
      <4> e \in BOOLEAN
        BY RequestListAssumption
      <4> QED
        BY <3>5, GrantStep
    <3> QED
      BY <3>1, <3>2, <3>3, <3>4, <3>5 DEF Proceed
  <2>3. CASE \E t \in Tasks : allocate_fails(t)
    BY <2>3, FailStep
  <2>4. CASE (\E t \in Tasks : BatchTimeOver(t)) \/ UNCHANGED vars
    <3>1. UNCHANGED <<wait, pc, live, count, nr_rqs_elvpriv, elv, dying>>
      BY <2>4 DEF BatchTimeOver, vars, rl, call, fate
    <3>2. WaitInv'
      BY <3>1 DEF ListInv, WaitInv, Sleepers
    <3>3. CountInv'
      BY <3>1, CountsSame DEF ListInv, CountInv
    <3>4. WakeInv'
      BY <3>1 DEF ListInv, WakeInv, Hopeful, Waiting, Waker
    <3> QED
      BY <3>2, <3>3, <3>4
  <2>5. CASE \E d \in Dirs, e \in BOOLEAN : blk_put_request(d, e)
    BY <2>5, PutStep
  <2>6. CASE (\E n \in Sizes : blk_update_nr_requests(n)) \/ blk_set_queue_dying \/ blk_drain_queue
    BY <2>6, WakeUpStep
  <2> QED
    BY <2>1, <2>2, <2>3, <2>4, <2>5, <2>6 DEF Next
<1> QED
  BY <1>1, <1>2 DEF ListInv

(***************************************************************************)
(* rl->count and nr_rqs_elvpriv are the requests in use and being          *)
(* allocated, for every number of tasks: freed_request undoes on every     *)
(* error path exactly what __get_request counted, so the drains that wait  *)
(* for 0 wait neither too short nor for ever.                              *)
(***************************************************************************)
THEOREM RequestCountsExact == Spec => []CountsExact
<1>1. ASSUME CountInv PROVE CountsExact
  <2>1. ASSUME NEW d \in Dirs
        PROVE  /\ Used(d, "elvpriv") = live[d][TRUE] + Cardinality(Allocating(d, TRUE))
               /\ Used(d, "plain") = live[d][FALSE] + Cardinality(Allocating(d, FALSE))
    <3>1. Busy(d, "elvpriv") = Allocating(d, TRUE) /\ Busy(d, "plain") = Allocating(d, FALSE)
      BY <1>1 DEF CountInv, Busy, Allocating, Kind
    <3> QED
      BY <3>1 DEF Used, Live
  <2> QED
    BY <1>1, <2>1 DEF CountInv, CountsExact, Dirs
<1>2. ListInv => CountsExact
  BY <1>1 DEF ListInv
<1> QED
  BY <1>2, ListInit, ListStep, PTL DEF Spec

(***************************************************************************)
(* No wake-up is lost, whatever the tasks, limits and batch sizes: who     *)
(* sleeps for a request has a request in use or a woken task ahead, also   *)
(* over failed allocations, resizings and refusals after a wake-up.        *)
(***************************************************************************)
THEOREM WakeUpsKept == Spec => []NoLostWakeup
<1>1. ListInv => NoLostWakeup
  BY DEF ListInv, WakeInv, Hopeful, Waiting, Waker, NoLostWakeup
<1> QED
  BY <1>1, ListInit, ListStep, PTL DEF Spec
=============================================================================
