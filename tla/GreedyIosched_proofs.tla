------------------------ MODULE GreedyIosched_proofs ------------------------
(***************************************************************************)
(* Proofs about the greedy scheduler, for any set of requests, any disk,   *)
(* any request size limit and any width of `int': its inductive invariant  *)
(* and that it implements IoschedPool.                                     *)
(***************************************************************************)
EXTENDS GreedyIosched, ListLemmas

(* The entry a walk of add_to_higher or add_to_lower stops at, or the list *)
(* head (index 0).                                                         *)
LEMMA SlotRange ==
  ASSUME NEW S, NEW L \in Seq(S), NEW rq, NEW pos
  PROVE  /\ HigherSlot(L, rq, pos) \in 0..Len(L)
         /\ LowerSlot(L, rq, pos) \in 0..Len(L)
<1> DEFINE H == {i \in 1..Len(L) : pos[L[i]] > pos[rq]}
           W == {i \in 1..Len(L) : pos[L[i]] < pos[rq]}
<1>1. Len(L) \in Nat /\ H \subseteq 1..Len(L) /\ W \subseteq 1..Len(L)
  OBVIOUS
<1>2. /\ HigherSlot(L, rq, pos) = IF H # {} THEN Min(H) ELSE 0
      /\ LowerSlot(L, rq, pos) = IF W # {} THEN Min(W) ELSE 0
  BY DEF HigherSlot, LowerSlot, SelectInSeq
<1> HIDE DEF H, W
<1> QED
  BY <1>1, <1>2, FirstIndex

(* greedy_add_request links an unlinked request into one list.             *)
LEMMA AddEntries ==
  ASSUME NEW S, NEW L \in Seq(S), NEW rq \in S, NEW pos,
         NoDuplicates(L), rq \notin ToSet(L),
         NEW M, M = add_to_higher(L, rq, pos) \/ M = add_to_lower(L, rq, pos)
  PROVE  /\ M \in Seq(S)
         /\ NoDuplicates(M)
         /\ ToSet(M) = ToSet(L) \union {rq}
<1>1. PICK i \in 0..Len(L) : M = InsertAt(L, i + 1, rq)
  BY SlotRange DEF add_to_higher, add_to_lower
<1>2. i + 1 \in 1..Len(L) + 1
  BY <1>1
<1> QED
  BY <1>1, <1>2, InsertAtEntries

(* greedy_dispatch picks a request the scheduler holds.                    *)
LEMMA TargetHeld ==
  ASSUME SchedulerInv, Held # {}
  PROVE  DispatchTarget(higher, lower, prev_pos, sector) \in Held
<1>1. higher \in Seq(Requests) /\ lower \in Seq(Requests)
  BY DEF SchedulerInv, TypeOK
<1>2. ASSUME NEW L \in Seq(Requests), L # <<>> PROVE Head(L) \in ToSet(L)
  <2>1. Len(L) \in Nat \ {0}
    BY <1>2, EmptySeq
  <2>2. 1 \in 1..Len(L) /\ L[1] = Head(L)
    BY <1>2, <2>1
  <2> QED
    BY <2>2, Entries
<1>3. higher # <<>> \/ lower # <<>>
  BY <1>1, Entries DEF Held
<1> QED
  BY <1>1, <1>2, <1>3 DEF DispatchTarget, TakesLower, Held

(* Unlinking a held request, from whichever list it is on.                 *)
LEMMA UnlinkHeld ==
  ASSUME SchedulerInv, NEW rq \in Requests,
         higher' = Unlink(higher, rq), lower' = Unlink(lower, rq)
  PROVE  /\ higher' \in Seq(Requests) /\ lower' \in Seq(Requests)
         /\ LinkedOnce'
         /\ ToSet(higher') = ToSet(higher) \ {rq}
         /\ ToSet(lower') = ToSet(lower) \ {rq}
         /\ Held' = Held \ {rq}
<1>1. /\ higher \in Seq(Requests) /\ lower \in Seq(Requests)
      /\ NoDuplicates(higher) /\ NoDuplicates(lower)
      /\ ToSet(higher) \intersect ToSet(lower) = {}
  BY DEF SchedulerInv, TypeOK, LinkedOnce
<1>2. /\ higher' \in Seq(Requests) /\ NoDuplicates(higher')
      /\ ToSet(higher') = ToSet(higher) \ {rq}
  BY <1>1, RemoveEntries DEF Unlink
<1>3. /\ lower' \in Seq(Requests) /\ NoDuplicates(lower')
      /\ ToSet(lower') = ToSet(lower) \ {rq}
  BY <1>1, RemoveEntries DEF Unlink
<1>4. LinkedOnce'
  BY <1>1, <1>2, <1>3 DEF LinkedOnce
<1>5. Held' = Held \ {rq}
  BY <1>2, <1>3 DEF Held
<1> QED
  BY <1>2, <1>3, <1>4, <1>5

(* greedy_add_request links the request into exactly one of the lists.     *)
LEMMA AddHeld ==
  ASSUME SchedulerInv, NEW rq \in Requests, NEW s \in 0..MaxSector, NEW n \in 1..MaxNr,
         greedy_add_request(rq, s, n)
  PROVE  /\ higher' \in Seq(Requests) /\ lower' \in Seq(Requests)
         /\ LinkedOnce'
         /\ Held' = Held \union {rq}
         /\ ToSet(higher) \subseteq ToSet(higher')
         /\ ToSet(lower) \subseteq ToSet(lower')
<1>1. /\ higher \in Seq(Requests) /\ lower \in Seq(Requests)
      /\ NoDuplicates(higher) /\ NoDuplicates(lower)
      /\ ToSet(higher) \intersect ToSet(lower) = {}
      /\ rq \notin ToSet(higher) /\ rq \notin ToSet(lower)
  BY DEF SchedulerInv, TypeOK, LinkedOnce, greedy_add_request, Held
<1>2. CASE lower' = add_to_lower(lower, rq, sector') /\ higher' = higher
  <2>1. /\ lower' \in Seq(Requests) /\ NoDuplicates(lower')
        /\ ToSet(lower') = ToSet(lower) \union {rq}
    BY <1>1, <1>2, AddEntries
  <2> QED
    BY <1>1, <1>2, <2>1 DEF LinkedOnce, Held
<1>3. CASE higher' = add_to_higher(higher, rq, sector') /\ lower' = lower
  <2>1. /\ higher' \in Seq(Requests) /\ NoDuplicates(higher')
        /\ ToSet(higher') = ToSet(higher) \union {rq}
    BY <1>1, <1>3, AddEntries
  <2> QED
    BY <1>1, <1>3, <2>1 DEF LinkedOnce, Held
<1> QED
  BY <1>2, <1>3 DEF greedy_add_request

-----------------------------------------------------------------------------
(* The initial state satisfies the inductive invariant.                    *)
LEMMA InitEstablishes == Init => SchedulerInv
<1> SUFFICES ASSUME Init PROVE SchedulerInv
  OBVIOUS
<1>1. higher = <<>> /\ lower = <<>>
  BY DEF Init
<1>2. Held = {} /\ LinkedOnce
  BY <1>1 DEF Held, LinkedOnce, NoDuplicates, ToSet
<1>3. TypeOK
  <2>1. sector \in [Requests -> Nat] /\ nr \in [Requests -> Nat]
    BY DEF Init
  <2>2. prev_pos = 0 /\ gd = "absent" /\ drained \in BOOLEAN
    BY DEF Init
  <2>3. higher \in Seq(Requests) /\ lower \in Seq(Requests)
    BY <1>1, EmptySeq
  <2> QED
    BY <2>1, <2>2, <2>3 DEF TypeOK
<1>4. NoBugOn
  BY <1>1 DEF Init, NoBugOn
<1> QED
  BY <1>2, <1>3, <1>4 DEF SchedulerInv

(* Every step of the scheduler keeps its inductive invariant.              *)
LEMMA StepPreserves == SchedulerInv /\ [Next]_vars => SchedulerInv'
<1> SUFFICES ASSUME SchedulerInv, [Next]_vars PROVE SchedulerInv'
  OBVIOUS
<1> USE DEF SchedulerInv
<1>0. Held \subseteq Requests
  BY Entries DEF Held, TypeOK
<1>1. CASE greedy_init_queue
  <2>1. higher' = <<>> /\ lower' = <<>>
    BY <1>1 DEF greedy_init_queue
  <2>2. Held' = {} /\ LinkedOnce'
    BY <2>1 DEF Held, LinkedOnce, NoDuplicates, ToSet
  <2>3. TypeOK' /\ NoBugOn'
    BY <1>1, <2>1 DEF greedy_init_queue, TypeOK, NoBugOn
  <2> QED
    BY <2>2, <2>3
<1>2. ASSUME NEW rq \in Requests, NEW s \in 0..MaxSector, NEW n \in 1..MaxNr,
             greedy_add_request(rq, s, n)
      PROVE  SchedulerInv'
  <2>1. /\ higher' \in Seq(Requests) /\ lower' \in Seq(Requests)
        /\ LinkedOnce' /\ Held' = Held \union {rq}
    BY <1>2, AddHeld
  <2>2. /\ sector' = [sector EXCEPT ![rq] = s] /\ nr' = [nr EXCEPT ![rq] = n]
        /\ gd = "live" /\ gd' = gd /\ prev_pos' = prev_pos /\ drained' = FALSE
    BY <1>2 DEF greedy_add_request
  <2>3. s \in Nat /\ n \in Nat /\ n > 0
    BY GeometryAssumption
  <2>4. TypeOK' /\ NoBugOn'
    BY <2>1, <2>2, <2>3 DEF TypeOK, NoBugOn
  <2>5. \A x \in Held' : nr'[x] > 0
    BY <1>0, <2>1, <2>2, <2>3 DEF TypeOK
  <2> QED
    BY <2>1, <2>4, <2>5
<1>3. CASE greedy_dispatch
  <2> DEFINE target == DispatchTarget(higher, lower, prev_pos, sector)
  <2>1. target \in Requests
    BY <1>0, <1>3, TargetHeld DEF greedy_dispatch
  <2>2. /\ higher' = Unlink(higher, target) /\ lower' = Unlink(lower, target)
        /\ prev_pos' = sector[target] + nr[target]
        /\ sector' = [sector EXCEPT ![target] = 0] /\ nr' = [nr EXCEPT ![target] = 0]
        /\ gd' = gd /\ drained' = drained /\ gd = "live" /\ Held # {}
    BY <1>3 DEF greedy_dispatch, rq_end_sector, Forget
  <2> HIDE DEF target
  <2>3. /\ higher' \in Seq(Requests) /\ lower' \in Seq(Requests)
        /\ LinkedOnce' /\ Held' = Held \ {target}
    BY <2>1, <2>2, UnlinkHeld
  <2>4. ~ drained
    BY <2>2, Entries DEF NoBugOn, Held, TypeOK
  <2>5. TypeOK' /\ NoBugOn'
    BY <2>1, <2>2, <2>3, <2>4 DEF TypeOK, NoBugOn
  <2>6. \A x \in Held' : nr'[x] > 0
    BY <1>0, <2>1, <2>2, <2>3 DEF TypeOK
  <2> QED
    BY <2>3, <2>5, <2>6
<1>4. CASE greedy_dispatch_nothing
  <2>1. UNCHANGED <<higher, lower, prev_pos, gd, sector, nr>> /\ drained' = TRUE
    BY <1>4 DEF greedy_dispatch_nothing
  <2>2. Held' = Held /\ LinkedOnce'
    BY <2>1 DEF Held, LinkedOnce
  <2>3. TypeOK' /\ NoBugOn'
    BY <1>4, <2>1 DEF greedy_dispatch_nothing, TypeOK, NoBugOn
  <2> QED
    BY <2>1, <2>2, <2>3
<1>5. ASSUME NEW rq \in Requests, NEW next \in Requests, greedy_merged_requests(rq, next)
      PROVE  SchedulerInv'
  <2>1. /\ higher' = Unlink(higher, next) /\ lower' = Unlink(lower, next)
        /\ nr' = [nr EXCEPT ![rq] = @ + nr[next], ![next] = 0]
        /\ sector' = [sector EXCEPT ![next] = 0]
        /\ gd = "live" /\ UNCHANGED <<prev_pos, gd, drained>>
        /\ rq \in Held /\ next \in Held
    BY <1>5 DEF greedy_merged_requests
  <2>2. /\ higher' \in Seq(Requests) /\ lower' \in Seq(Requests)
        /\ LinkedOnce' /\ Held' = Held \ {next}
    BY <2>1, UnlinkHeld
  <2>3. ~ drained
    BY <2>1, Entries DEF NoBugOn, Held, TypeOK
  <2>4. /\ nr \in [Requests -> Nat] /\ sector \in [Requests -> Nat]
        /\ \A x \in Held : nr[x] > 0
    BY DEF TypeOK
  <2>5. /\ nr' \in [Requests -> Nat]
        /\ \A x \in Requests \ {next} : nr'[x] = IF x = rq THEN nr[rq] + nr[next] ELSE nr[x]
    BY <2>1, <2>4
  <2>6. sector' \in [Requests -> Nat]
    BY <2>1, <2>4
  <2>7. TypeOK' /\ NoBugOn'
    BY <2>1, <2>2, <2>3, <2>5, <2>6 DEF TypeOK, NoBugOn
  <2>8. ASSUME NEW x \in Held' PROVE nr'[x] > 0
    <3>1. x \in Held /\ x \in Requests /\ x # next
      BY <1>0, <2>2
    <3>2. nr'[x] = nr[rq] + nr[next] \/ nr'[x] = nr[x]
      BY <2>5, <3>1
    <3>3. nr[rq] \in Nat /\ nr[next] \in Nat /\ nr[rq] > 0 /\ nr[x] > 0
      BY <2>1, <2>4, <3>1
    <3> QED
      BY <3>2, <3>3
  <2> QED
    BY <2>2, <2>7, <2>8
<1>6. ASSUME NEW rq \in Requests, NEW n \in 1..MaxNr,
             bio_back_merge(rq, n) \/ bio_front_merge(rq, n)
      PROVE  SchedulerInv'
  <2>1. /\ UNCHANGED <<higher, lower, prev_pos, gd, drained>> /\ gd = "live"
        /\ nr' = [nr EXCEPT ![rq] = nr[rq] + n] /\ rq \in Held
        /\ \/ sector' = sector
           \/ sector[rq] >= n /\ sector' = [sector EXCEPT ![rq] = sector[rq] - n]
    BY <1>6 DEF bio_back_merge, bio_front_merge
  <2>2. Held' = Held /\ LinkedOnce'
    BY <2>1 DEF Held, LinkedOnce
  <2>3. n \in Nat /\ n > 0
    BY GeometryAssumption
  <2>4. TypeOK' /\ NoBugOn'
    <3> DEFINE front == sector[rq] - n
    <3>0. nr \in [Requests -> Nat] /\ sector \in [Requests -> Nat]
      BY DEF TypeOK
    <3>1. nr' \in [Requests -> Nat]
      BY <2>1, <2>3, <3>0
    <3>2. sector[rq] >= n => front \in Nat
      BY <2>3, <3>0
    <3> HIDE DEF front
    <3>3. sector' \in [Requests -> Nat]
      BY <2>1, <3>0, <3>2 DEF front
    <3> QED
      BY <2>1, <3>1, <3>3 DEF TypeOK, NoBugOn
  <2>5. \A x \in Held' : nr'[x] > 0
    BY <1>0, <2>1, <2>2, <2>3 DEF TypeOK
  <2> QED
    BY <2>2, <2>4, <2>5
<1>7. CASE greedy_exit_queue
  <2>1. UNCHANGED <<higher, lower, prev_pos, sector, nr>>
    BY <1>7 DEF greedy_exit_queue
  <2>2. Held' = Held /\ LinkedOnce'
    BY <2>1 DEF Held, LinkedOnce
  <2>3. TypeOK' /\ NoBugOn'
    BY <1>7, <2>1 DEF greedy_exit_queue, TypeOK, NoBugOn
  <2> QED
    BY <2>1, <2>2, <2>3
<1>8. CASE UNCHANGED vars
  BY <1>8 DEF vars, TypeOK, LinkedOnce, NoBugOn, Held
<1> QED
  BY <1>1, <1>2, <1>3, <1>4, <1>5, <1>6, <1>7, <1>8 DEF Next

(* What the invariant contains holds throughout.                           *)
LEMMA SchedulerInvHolds == Spec => []SchedulerInv
  BY InitEstablishes, StepPreserves, PTL DEF Spec

(* The scheduler's data stays well typed, for every set of requests and    *)
(* every number of sectors.                                                *)
THEOREM TypeCorrect == Spec => []TypeOK
<1>1. SchedulerInv => TypeOK
  BY DEF SchedulerInv
<1> QED
  BY <1>1, SchedulerInvHolds, PTL

(* Every request is linked at most once: no list_head is on two lists, or  *)
(* on one list twice, whatever is added, merged and dispatched.            *)
THEOREM LinkedAtMostOnce == Spec => []LinkedOnce
<1>1. SchedulerInv => LinkedOnce
  BY DEF SchedulerInv
<1> QED
  BY <1>1, SchedulerInvHolds, PTL

(* Neither BUG_ON of greedy_exit_queue can fire.                           *)
THEOREM ExitWithoutBug == Spec => []NoBugOn
<1>1. SchedulerInv => NoBugOn
  BY DEF SchedulerInv
<1> QED
  BY <1>1, SchedulerInvHolds, PTL

-----------------------------------------------------------------------------
(* Every step of the scheduler is a step of the pool, or changes nothing   *)
(* the pool sees.                                                          *)
LEMMA StepImplementsPool ==
  SchedulerInv /\ [Next]_vars => [Pool!PoolNext]_(Pool!poolVars)
<1> SUFFICES ASSUME SchedulerInv, [Next]_vars
             PROVE  Pool!PoolNext \/ UNCHANGED <<Held, gd = "live", drained>>
  BY DEF Pool!poolVars
<1>0. /\ Held \subseteq Requests
      /\ higher \in Seq(Requests) /\ lower \in Seq(Requests)
      /\ Held = {} <=> higher = <<>> /\ lower = <<>>
  BY Entries DEF SchedulerInv, Held, TypeOK
<1>1. CASE greedy_init_queue
  <2>1. Held' = {}
    BY <1>1, EmptySeq DEF greedy_init_queue, Held, ToSet
  <2>2. Pool!Start
    BY <1>1, <2>1 DEF greedy_init_queue, Pool!Start
  <2> QED
    BY <2>2 DEF Pool!PoolNext
<1>2. ASSUME NEW rq \in Requests, NEW s \in 0..MaxSector, NEW n \in 1..MaxNr,
             greedy_add_request(rq, s, n)
      PROVE  Pool!PoolNext
  <2>1. Held' = Held \union {rq}
    BY <1>2, AddHeld
  <2>2. Pool!Add(rq)
    BY <1>2, <2>1 DEF greedy_add_request, Pool!Add
  <2> QED
    BY <2>2 DEF Pool!PoolNext
<1>3. CASE greedy_dispatch
  <2> DEFINE target == DispatchTarget(higher, lower, prev_pos, sector)
  <2>1. target \in Held /\ target \in Requests
    BY <1>0, <1>3, TargetHeld DEF greedy_dispatch
  <2>2. /\ higher' = Unlink(higher, target) /\ lower' = Unlink(lower, target)
        /\ gd = "live" /\ gd' = gd /\ drained' = drained
    BY <1>3 DEF greedy_dispatch
  <2> HIDE DEF target
  <2>3. Held' = Held \ {target}
    BY <2>1, <2>2, UnlinkHeld
  <2>4. Pool!Dispatch(target)
    BY <2>1, <2>2, <2>3 DEF Pool!Dispatch
  <2> QED
    BY <2>1, <2>4 DEF Pool!PoolNext
<1>4. CASE greedy_dispatch_nothing
  <2>1. Held = {} /\ Held' = Held
    BY <1>0, <1>4 DEF greedy_dispatch_nothing, Held
  <2>2. Pool!DispatchNothing
    BY <1>4, <2>1 DEF greedy_dispatch_nothing, Pool!DispatchNothing
  <2> QED
    BY <2>2 DEF Pool!PoolNext
<1>5. ASSUME NEW rq \in Requests, NEW next \in Requests, greedy_merged_requests(rq, next)
      PROVE  Pool!PoolNext
  <2>1. /\ higher' = Unlink(higher, next) /\ lower' = Unlink(lower, next)
        /\ gd = "live" /\ gd' = gd /\ drained' = drained
        /\ rq \in Held /\ next \in Held /\ sector[rq] + nr[rq] = sector[next]
    BY <1>5 DEF greedy_merged_requests, rq_end_sector
  <2>2. Held' = Held \ {next}
    BY <2>1, UnlinkHeld
  <2>3. rq # next
    <3>1. sector[rq] \in Nat /\ nr[rq] \in Nat /\ nr[rq] > 0
      BY <2>1 DEF SchedulerInv, TypeOK
    <3> QED
      BY <2>1, <3>1
  <2>4. Pool!Merge(rq, next)
    BY <2>1, <2>2, <2>3 DEF Pool!Merge
  <2> QED
    BY <2>4 DEF Pool!PoolNext
<1>6. ASSUME UNCHANGED <<higher, lower, gd, drained>>
      PROVE  UNCHANGED <<Held, gd = "live", drained>>
  BY <1>6 DEF Held
<1>7. ASSUME NEW rq, NEW n, bio_back_merge(rq, n) \/ bio_front_merge(rq, n)
      PROVE  UNCHANGED <<Held, gd = "live", drained>>
  BY <1>6, <1>7 DEF bio_back_merge, bio_front_merge
<1>8. CASE greedy_exit_queue
  <2>1. Held = {} /\ Held' = Held /\ gd = "live" /\ drained
    BY <1>0, <1>8 DEF greedy_exit_queue, Held, SchedulerInv, NoBugOn
  <2>2. gd' = "absent" /\ drained' = FALSE
    BY <1>0, <1>8, <2>1 DEF greedy_exit_queue
  <2>3. Pool!Stop
    BY <2>1, <2>2 DEF Pool!Stop
  <2> QED
    BY <2>3 DEF Pool!PoolNext
<1>9. CASE UNCHANGED vars
  BY <1>6, <1>9 DEF vars
<1> QED
  BY <1>1, <1>2, <1>3, <1>4, <1>5, <1>7, <1>8, <1>9 DEF Next

(***************************************************************************)
(* The greedy scheduler implements the pool the elevator core relies on:   *)
(* no request is lost or served twice, "nothing to dispatch" is said only  *)
(* of an empty scheduler, and only an empty scheduler is torn down.        *)
(***************************************************************************)
THEOREM ImplementsPool == Spec => PoolSpec
<1>1. Init => Pool!PoolInit
  <2>1. Init => Held = {}
    BY EmptySeq DEF Init, Held, ToSet
  <2> QED
    BY <2>1 DEF Init, Pool!PoolInit
<1> QED
  BY <1>1, InitEstablishes, StepPreserves, StepImplementsPool, PTL
     DEF Spec, PoolSpec, Pool!PoolSpec
=============================================================================
