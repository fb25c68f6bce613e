----------------------- MODULE QueueLifecycle_proofs -----------------------
(***************************************************************************)
(* The life of a request queue is safe for every number of requests,       *)
(* schedulers and switches: bypass_depth is exact, requests meet only the  *)
(* scheduler they were allocated for, a scheduler in use keeps its module, *)
(* and a cleaned-up queue is quiet.                                        *)
(***************************************************************************)
EXTENDS QueueLifecycle, ListLemmas, FiniteSetTheorems

Stages == {"none", "alloc", "elevator", "inited", "live", "clean", "dying", "drain", "sync",
           "put", "gone"}
Phases == {"idle", "change", "bypass", "drain", "swap", "register", "finish", "restore"}

(***************************************************************************)
(* The threads and the flags they set.  q->sysfs_lock keeps a switch and   *)
(* the start of the clean-up apart, but a switch may begin or go on while  *)
(* the clean-up drains.                                                    *)
(***************************************************************************)
StageInv ==
  /\ owner \in Stages
  /\ switch \in [at : Phases, old : 0 .. MaxInstances, new : Types, registered : BOOLEAN]
  /\ dying \in BOOLEAN /\ dead \in BOOLEAN /\ init_done \in BOOLEAN
  /\ init_done => owner \in {"live", "dying", "drain", "sync", "put", "gone"}
  /\ owner = "live" => init_done
  /\ dying => owner \in {"dying", "drain", "sync", "put", "gone"}
  /\ owner \in {"dying", "drain", "sync", "put"} => dying
  /\ owner = "gone" => dying \/ ~ init_done
  /\ switch.at \notin {"idle", "change"} <=> sysfs_lock = "switch"
  /\ owner = "dying" <=> sysfs_lock = "owner"
  /\ switch.at # "idle" => owner \notin {"none", "alloc", "gone"}
  /\ switch.at \notin {"idle", "change"} => owner \notin {"elevator", "clean"}
  /\ switch.at = "drain" => init_done

(* Everything that is live, by the phase of the switch; who is live has a  *)
(* reference to its module.                                                *)
Holds(t) == t \in Types /\ t \in elv_list /\ refs[t] >= 1

SchedTypes ==
  /\ elevator \in 0 .. MaxInstances /\ etype \in [Instances -> Types \union {"none"}]
  /\ exited \subseteq Created
  /\ elv_list \subseteq Types /\ Builtin \in elv_list /\ refs \in [Types -> Int]

SchedInv ==
  /\ SchedTypes
  /\ owner \in {"none", "alloc", "elevator", "clean", "gone"} => elevator = 0
  /\ elevator # 0 \/ owner \in {"none", "alloc", "elevator"} => \A t \in Types : refs[t] >= 0
  /\ owner \in {"inited", "live"} => elevator # 0
  /\ \A e \in Live : Holds(etype[e])
  /\ registered \subseteq Live
  /\ switch.at \in {"idle", "change", "bypass", "drain", "swap"} =>
       Live = {elevator} \ {0}
  /\ switch.at \in {"bypass", "drain", "swap"} =>
       /\ elevator # 0 /\ switch.old = elevator
       /\ Created # Instances /\ Holds(switch.new) /\ switch.new # etype[switch.old]
  /\ switch.at \in {"register", "finish"} =>
       /\ Live = {elevator, switch.old} /\ elevator # switch.old
       /\ etype[elevator] # etype[switch.old]
  /\ switch.at = "restore" => Live = {switch.old}
  /\ switch.at \in {"register", "restore"} => registered = {} /\ elevator # 0 /\ switch.old # 0
  /\ switch.at = "finish" => registered \subseteq {elevator}

(* Requests, and the scheduler whose data they carry: none before the      *)
(* queue is registered.                                                    *)
Places == {"free", "owned", "sched", "head", "driver"}

ReqInv ==
  /\ rq \in [Requests -> Places]
  /\ priv \in [Requests -> 0 .. MaxInstances] /\ home \in [Requests -> 0 .. MaxInstances]
  /\ \A r \in Requests :
       /\ priv[r] # 0 => priv[r] = elevator /\ rq[r] # "free"
       /\ rq[r] = "sched" => priv[r] # 0 /\ home[r] = elevator
  /\ switch.at \in {"swap", "register", "finish", "restore"} => \A r \in Requests : priv[r] = 0
  /\ ~ init_done => \A r \in Requests : priv[r] = 0

(* bypass_depth is exact, and the flag says whether it is 0.               *)
DepthInv == bypass_depth \in Nat /\ bypass \in BOOLEAN /\ BypassExact

(* Nothing runs before the queue is initialised, and nothing after the     *)
(* drain of the clean-up.                                                  *)
Empty == \A r \in Requests : rq[r] = "free"
Idling == ~ due /\ work = {} /\ ~ stopped

QuietInv ==
  /\ owner \in {"none", "alloc", "elevator", "clean", "sync", "put", "gone"} =>
       Empty /\ fnrun = {} /\ (dead \/ Idling)
  /\ owner \in {"none", "alloc", "elevator", "clean"} => Idling
  /\ owner \in {"sync", "put"} => dead
  /\ owner \in {"put", "gone"} => work = {}

LifeInv == StageInv /\ SchedInv /\ ReqInv /\ DepthInv /\ QuietInv

-----------------------------------------------------------------------------
control == <<owner, switch, sysfs_lock, dying, dead, init_done, bypass, bypass_depth>>

(* The drivers, submitters and modules leave the control state alone.      *)
LEMMA TrafficControl ==
  ASSUME Driver \/ Submitter \/ Modules
  PROVE  UNCHANGED control /\ UNCHANGED <<elevator, etype, exited, registered, refs>>
<1>1. CASE Driver
  BY <1>1 DEF Driver, RunEnter, RunExit, blk_fetch_request, process_one_work, blk_delay_work,
              blk_delay_queue, blk_stop_queue, blk_start_queue, control, flags, byp, sched
<1>2. CASE Submitter
  BY <1>2 DEF Submitter, Insertion, get_request, __elv_add_request, blk_requeue_request,
              __blk_put_request, control, flags, byp, sched
<1>3. CASE Modules
  BY <1>3 DEF Modules, elv_register, elv_unregister, control, flags, byp
<1> QED
  BY <1>1, <1>2, <1>3

(* A round of the clean-up's drain ends it only when no request, no        *)
(* scheduler's data and no request_fn is left.                             *)
LEMMA CleanupDrainEffect ==
  ASSUME CleanupDrain
  PROVE  /\ owner = "drain"
         /\ UNCHANGED <<switch, sysfs_lock, dying, init_done, bypass, bypass_depth, stopped>>
         /\ UNCHANGED sched /\ UNCHANGED <<priv, submits, due, work>>
         /\ \/ owner' = "drain" /\ dead' = dead
            \/ owner' = "sync" /\ dead' = TRUE /\ fnrun' = {} /\ ~ Undrained(TRUE, fnrun')
         /\ \/ /\ "owner" \notin fnrun /\ elv_drain_elevator
               /\ IF \E r \in Requests : rq'[r] = "head" THEN __blk_run_queue("owner")
                  ELSE UNCHANGED fnrun
            \/ "owner" \in fnrun /\ fnrun' = fnrun \ {"owner"} /\ UNCHANGED <<rq, home>>
  BY DEF CleanupDrain, __blk_drain_queue, byp, Undrained

(* The same for the switch, which waits for the scheduler's data only.     *)
LEMMA SwitchDrainEffect ==
  ASSUME SwitchDrain
  PROVE  /\ switch.at = "drain"
         /\ UNCHANGED <<owner, sysfs_lock, dying, dead, init_done, bypass, bypass_depth, stopped>>
         /\ UNCHANGED sched /\ UNCHANGED <<priv, submits, due, work>>
         /\ \/ switch' = switch
            \/ switch' = [switch EXCEPT !.at = "swap"] /\ nr_rqs_elvpriv = 0
         /\ \/ /\ "switch" \notin fnrun /\ elv_drain_elevator
               /\ IF \E r \in Requests : rq'[r] = "head" THEN __blk_run_queue("switch")
                  ELSE UNCHANGED fnrun
            \/ "switch" \in fnrun /\ fnrun' = fnrun \ {"switch"} /\ UNCHANGED <<rq, home>>
  BY DEF SwitchDrain, __blk_drain_queue, byp, flags, Undrained

(* No switch is under way, or one is about to begin.                       *)
LEMMA IdleIs ==
  LET Change == [Idle EXCEPT !.at = "change"]
      Switches == [at : Phases, old : 0 .. MaxInstances, new : Types, registered : BOOLEAN]
  IN  /\ Idle \in Switches /\ Idle.at = "idle" /\ Idle.old = 0
      /\ Change \in Switches /\ Change.at = "change" /\ Change.old = 0
<1>1. 0 \in 0 .. MaxInstances /\ Builtin \in Types
  BY LifecycleAssumption
<1>2. PICK f \in BOOLEAN : Idle = [at |-> "idle", old |-> 0, new |-> Builtin, registered |-> f]
  BY Zenon DEF Idle
<1>3. Idle \in [at : Phases, old : 0 .. MaxInstances, new : Types, registered : BOOLEAN]
      /\ Idle.at = "idle" /\ Idle.old = 0
  BY <1>1, <1>2 DEF Phases
<1> QED
  BY <1>3 DEF Phases

(* The control state of the threads.                                       *)
LEMMA StageStep ==
  ASSUME LifeInv, [Next]_vars
  PROVE  StageInv'
<1> USE DEF Stages, Phases
<1>1. CASE UNCHANGED <<owner, switch, sysfs_lock, dying, dead, init_done>>
  BY <1>1 DEF LifeInv, StageInv
<1>2. CASE Driver \/ Submitter \/ Modules \/ UNCHANGED vars
  BY <1>1, <1>2, TrafficControl DEF control, vars, flags
<1>3. CASE blk_alloc_queue_node \/ InitQueue \/ elevator_init
  BY <1>3 DEF LifeInv, StageInv, blk_alloc_queue_node, InitQueue, elevator_init, flags
<1>4. CASE blk_register_queue
  BY <1>4 DEF LifeInv, StageInv, blk_register_queue
<1>5. CASE blk_set_queue_dying
  BY <1>5 DEF LifeInv, StageInv, blk_set_queue_dying
<1>6. CASE EnterBypass \/ blk_sync_queue \/ blk_put_queue
  BY <1>6 DEF LifeInv, StageInv, EnterBypass, blk_sync_queue, blk_put_queue, flags
<1>7. CASE CleanupDrain
  BY <1>7, CleanupDrainEffect DEF LifeInv, StageInv
<1>8. CASE blk_get_queue
  BY <1>8, IdleIs DEF LifeInv, StageInv, blk_get_queue, flags
<1>9. CASE __elevator_change
  <2>1. /\ switch.at = "change" /\ sysfs_lock = "free"
        /\ UNCHANGED <<owner, dying, dead, init_done>>
    BY <1>9 DEF __elevator_change, flags
  <2>2. CASE switch' = Idle /\ UNCHANGED sysfs_lock
    BY <2>1, <2>2, IdleIs DEF LifeInv, StageInv
  <2>3. CASE \E t \in elv_list :
               /\ elevator # 0 /\ sysfs_lock' = "switch"
               /\ switch' = [at |-> "bypass", old |-> elevator, new |-> t,
                             registered |-> elevator \in registered]
    <3> PICK t \in elv_list :
               /\ elevator # 0 /\ sysfs_lock' = "switch"
               /\ switch' = [at |-> "bypass", old |-> elevator, new |-> t,
                             registered |-> elevator \in registered]
      BY <2>3
    <3>1. t \in Types /\ elevator \in 0 .. MaxInstances
          /\ owner \notin {"none", "alloc", "elevator", "clean", "gone"}
      BY DEF LifeInv, SchedInv, SchedTypes
    <3>2. switch' \in [at : Phases, old : 0 .. MaxInstances, new : Types, registered : BOOLEAN]
          /\ switch'.at = "bypass"
      BY <3>1
    <3> QED
      BY <2>1, <3>1, <3>2 DEF LifeInv, StageInv
  <2> QED
    BY <1>9, <2>2, <2>3 DEF __elevator_change
<1>10. CASE SwitchBypass
  BY <1>10 DEF LifeInv, StageInv, SwitchBypass, flags
<1>11. CASE SwitchDrain
  BY <1>11, SwitchDrainEffect DEF LifeInv, StageInv
<1>12. CASE Swap \/ elv_register_queue
  BY <1>12 DEF LifeInv, StageInv, Swap, elv_register_queue, flags
<1>13. CASE SwitchEnds
  BY <1>13, IdleIs DEF LifeInv, StageInv, SwitchEnds, flags
<1> QED
  BY <1>2, <1>3, <1>4, <1>5, <1>6, <1>7, <1>8, <1>9, <1>10, <1>11, <1>12, <1>13
     DEF Next, Owner, Switcher

(***************************************************************************)
(* bypass_depth: blk_queue_bypass_start and _end are paired by the threads *)
(* that call them.                                                         *)
(***************************************************************************)
LEMMA DepthStep ==
  ASSUME LifeInv, [Next]_vars
  PROVE  DepthInv'
<1> DEFINE sum == (IF owner \notin {"none", "gone"} /\ ~ init_done THEN 1 ELSE 0)
                + (IF switch.at \notin {"idle", "change", "bypass"} THEN 1 ELSE 0)
                + (IF owner \in {"drain", "sync", "put"} THEN 1 ELSE 0)
<1>0. /\ bypass_depth \in Nat /\ bypass \in BOOLEAN /\ (bypass <=> bypass_depth > 0)
      /\ bypass_depth = sum \/ owner = "gone"
  BY DEF LifeInv, DepthInv, BypassExact
<1>1. ASSUME \/ bypass_depth' = bypass_depth /\ bypass' = bypass
             \/ bypass_depth' = bypass_depth + 1 /\ bypass' = TRUE
             \/ bypass_depth' = bypass_depth - 1 /\ bypass' = (bypass_depth' # 0),
             bypass_depth' = sum' \/ (owner' = "gone" /\ bypass_depth' = bypass_depth)
      PROVE  DepthInv'
  <2>1. sum' \in Nat
    OBVIOUS
  <2>2. bypass_depth' = sum' \/ owner' = "gone"
    BY <1>1
  <2> HIDE DEF sum
  <2>3. bypass_depth' \in Nat
    BY <1>0, <1>1, <2>1
  <2>4. bypass' = (bypass_depth' > 0)
    <3>1. CASE bypass_depth' = bypass_depth /\ bypass' = bypass
      BY <1>0, <3>1
    <3>2. CASE bypass_depth' = bypass_depth + 1 /\ bypass' = TRUE
      <4>1. (bypass_depth' > 0) = TRUE
        BY <1>0, <3>2
      <4> QED
        BY <3>2, <4>1, Zenon
    <3>3. CASE bypass' = (bypass_depth' # 0)
      <4>1. (bypass_depth' # 0) = (bypass_depth' > 0)
        BY <2>3
      <4> QED
        BY <3>3, <4>1, Zenon
    <3> QED
      BY <1>1, <3>1, <3>2, <3>3
  <2>5. BypassExact'
    BY <2>2, <2>4 DEF BypassExact, sum
  <2>6. bypass' \in BOOLEAN
    <3>1. (bypass_depth' > 0) \in BOOLEAN
      BY <2>3
    <3> QED
      BY <2>4, <3>1, Zenon
  <2> QED
    BY <2>3, <2>5, <2>6 DEF DepthInv
<1>2. CASE Driver \/ Submitter \/ Modules \/ UNCHANGED vars
  <2>1. UNCHANGED control
    BY <1>2, TrafficControl DEF control, vars, flags, byp
  <2> QED
    BY <1>0, <1>1, <2>1 DEF control
<1>3. CASE blk_alloc_queue_node
  <2>1. owner = "none" /\ bypass_depth = 0 /\ ~ init_done /\ switch.at = "idle"
    BY <1>3, <1>0 DEF blk_alloc_queue_node, LifeInv, StageInv
  <2>2. /\ UNCHANGED <<switch, init_done>>
        /\ \/ owner' = "gone" /\ UNCHANGED <<bypass, bypass_depth>>
           \/ owner' = "alloc" /\ bypass' = TRUE /\ bypass_depth' = 1
    BY <1>3 DEF blk_alloc_queue_node, flags, byp
  <2>3. CASE owner' = "gone" /\ UNCHANGED <<bypass, bypass_depth>>
    BY <1>1, <2>3
  <2>4. CASE owner' = "alloc" /\ bypass' = TRUE /\ bypass_depth' = 1
    <3>1. sum' = 1 /\ bypass_depth' = bypass_depth + 1
      BY <2>1, <2>2, <2>4
    <3> QED
      BY <1>1, <2>4, <3>1
  <2> QED
    BY <2>2, <2>3, <2>4
<1>4. CASE InitQueue \/ elevator_init \/ blk_set_queue_dying \/ blk_sync_queue
  <2>1. UNCHANGED <<switch, init_done, bypass, bypass_depth>>
        /\ \/ owner \in {"alloc", "elevator"} /\ owner' \in {"clean", "elevator", "inited"}
           \/ owner \in {"inited", "live", "clean"} /\ owner' = "dying"
           \/ owner = "sync" /\ owner' = "put"
    BY <1>4 DEF InitQueue, elevator_init, blk_set_queue_dying, blk_sync_queue, flags, byp
  <2> QED
    BY <1>0, <1>1, <2>1
<1>5. CASE blk_register_queue
  <2>1. /\ owner = "inited" /\ owner' = "live" /\ ~ init_done /\ init_done' = TRUE
        /\ switch' = switch
    BY <1>5 DEF blk_register_queue, LifeInv, StageInv
  <2>2. bypass_depth' = bypass_depth - 1 /\ bypass' = (bypass_depth' # 0)
    BY <1>5 DEF blk_register_queue, blk_queue_bypass_end
  <2>3. sum' = sum - 1
    BY <2>1
  <2> QED
    BY <1>0, <1>1, <2>1, <2>2, <2>3
<1>6. CASE EnterBypass
  <2>1. owner = "dying" /\ owner' = "drain" /\ UNCHANGED <<switch, init_done>>
        /\ bypass_depth' = bypass_depth + 1 /\ bypass' = TRUE
    BY <1>6 DEF EnterBypass, blk_queue_bypass_start, flags
  <2>2. sum' = sum + 1
    BY <2>1
  <2> QED
    BY <1>0, <1>1, <2>1, <2>2
<1>7. CASE CleanupDrain
  <2>1. /\ owner = "drain" /\ owner' \in {"drain", "sync"}
        /\ UNCHANGED <<switch, init_done, bypass, bypass_depth>>
    BY <1>7, CleanupDrainEffect
  <2> QED
    BY <1>0, <1>1, <2>1
<1>8. CASE blk_put_queue
  BY <1>1, <1>8 DEF blk_put_queue, byp
<1>9. CASE blk_get_queue \/ __elevator_change
  <2>1. /\ UNCHANGED <<owner, init_done, bypass, bypass_depth>>
        /\ switch.at \in {"idle", "change"} /\ switch'.at \in {"idle", "change", "bypass"}
        /\ owner # "gone"
    BY <1>9, IdleIs DEF blk_get_queue, __elevator_change, flags, byp, LifeInv, StageInv
  <2> QED
    BY <1>0, <1>1, <2>1
<1>10. CASE SwitchBypass
  <2>1. /\ UNCHANGED <<owner, init_done>> /\ bypass_depth' = bypass_depth + 1 /\ bypass' = TRUE
        /\ switch.at = "bypass" /\ switch'.at \in {"drain", "swap"} /\ owner # "gone"
    BY <1>10 DEF SwitchBypass, blk_queue_bypass_start, flags, LifeInv, StageInv
  <2>2. sum' = sum + 1
    BY <2>1
  <2> QED
    BY <1>0, <1>1, <2>1, <2>2
<1>11. CASE SwitchDrain \/ Swap \/ elv_register_queue
  <2>1. /\ UNCHANGED <<owner, init_done, bypass, bypass_depth>> /\ owner # "gone"
        /\ switch.at \in {"drain", "swap", "register"}
        /\ switch'.at \in {"drain", "swap", "register", "finish", "restore"}
    BY <1>11, SwitchDrainEffect DEF Swap, elv_register_queue, flags, byp, LifeInv, StageInv
  <2> QED
    BY <1>0, <1>1, <2>1
<1>12. CASE SwitchEnds
  <2>1. /\ UNCHANGED <<owner, init_done>> /\ owner # "gone"
        /\ switch.at \in {"finish", "restore"} /\ switch'.at = "idle"
    BY <1>12, IdleIs DEF SwitchEnds, flags, LifeInv, StageInv
  <2>2. bypass_depth' = bypass_depth - 1 /\ bypass' = (bypass_depth' # 0)
    BY <1>12 DEF SwitchEnds, blk_queue_bypass_end
  <2>3. sum' = sum - 1
    BY <2>1
  <2> QED
    BY <1>0, <1>1, <2>1, <2>2, <2>3
<1> QED
  BY <1>2, <1>3, <1>4, <1>5, <1>6, <1>7, <1>8, <1>9, <1>10, <1>11, <1>12
     DEF Next, Owner, Switcher

-----------------------------------------------------------------------------
(* The next elevator_queue is one that was not created before.             *)
LEMMA FreshIs ==
  ASSUME Created # Instances
  PROVE  Fresh \in Instances /\ Fresh \notin Created
<1> DEFINE S == Instances \ Created
<1>1. S \subseteq Nat /\ S # {}
  BY LifecycleAssumption DEF Created, Instances
<1>2. Min(S) \in S /\ \A f \in S : Min(S) <= f
  BY <1>1, MinInSet
<1>3. Fresh \in S
  BY <1>2 DEF Fresh
<1> QED
  BY <1>3

(* elevator_init_fn: one more is live, the others keep their types.        *)
LEMMA Creates ==
  ASSUME SchedTypes, Created # Instances, NEW t \in Types, exited' = exited,
         etype' = [etype EXCEPT ![Fresh] = t]
  PROVE  /\ Live' = Live \union {Fresh} /\ Fresh \notin Live /\ Fresh # 0
         /\ Fresh \in 0 .. MaxInstances
         /\ etype' \in [Instances -> Types \union {"none"}] /\ exited' \subseteq Created'
         /\ etype'[Fresh] = t /\ \A e \in Live : etype'[e] = etype[e]
<1>1. Fresh \in Instances /\ Fresh \notin Created
  BY FreshIs
<1>2. t # "none" /\ Fresh # 0 /\ Fresh \in 0 .. MaxInstances
  BY <1>1, LifecycleAssumption DEF Instances
<1>3. /\ etype' \in [Instances -> Types \union {"none"}] /\ etype'[Fresh] = t
      /\ \A e \in Instances : e # Fresh => etype'[e] = etype[e]
  BY <1>1 DEF SchedTypes
<1>4. Created' = Created \union {Fresh}
  BY <1>1, <1>2, <1>3 DEF Created
<1> QED
  BY <1>1, <1>2, <1>3, <1>4 DEF Live, SchedTypes, Created

(* elevator_exit: one less is live, and one reference to its module goes.  *)
LEMMA Exits ==
  ASSUME SchedTypes, NEW e \in Live, elevator_exit(e, refs), etype' = etype
  PROVE  /\ Live' = Live \ {e} /\ exited' \subseteq Created'
         /\ refs' \in [Types -> Int]
         /\ \A t \in Types : refs'[t] = IF t = etype[e] THEN refs[t] - 1 ELSE refs[t]
<1>1. e \in Created /\ etype[e] \in Types
  BY DEF Live, Created, SchedTypes
<1>2. exited' = exited \union {e} /\ refs' = [refs EXCEPT ![etype[e]] = @ - 1]
  BY DEF elevator_exit, elevator_put
<1>3. Created' = Created
  BY DEF Created
<1> QED
  BY <1>1, <1>2, <1>3 DEF Live, SchedTypes

(* What is live was created and has a type.                                *)
LEMMA LiveIs ==
  ASSUME SchedTypes, NEW e \in Live
  PROVE  e \in Instances /\ e # 0 /\ etype[e] \in Types
  BY LifecycleAssumption DEF Live, Created, SchedTypes, Instances

(* elv_register and elv_unregister: a referenced module stays.             *)
LEMMA ModulesKeepSched ==
  ASSUME LifeInv, Modules
  PROVE  SchedInv'
<1>1. /\ UNCHANGED control /\ UNCHANGED <<elevator, etype, exited, registered, refs>>
  BY TrafficControl
<1>2. elv_list' \subseteq Types /\ \A t \in elv_list : refs[t] # 0 \/ t = Builtin => t \in elv_list'
  BY DEF Modules, elv_register, elv_unregister, Unloadable, LifeInv, SchedInv, SchedTypes
<1>3. \A t \in Types : Holds(t) => Holds(t)'
  BY <1>1, <1>2 DEF Holds, LifeInv, SchedInv, SchedTypes
<1>4. Live' = Live /\ Created' = Created
  BY <1>1 DEF Live, Created
<1>5. SchedTypes'
  BY <1>1, <1>2, <1>4 DEF LifeInv, SchedInv, SchedTypes
<1>6. \A e \in Live : etype[e] \in Types
  BY LiveIs DEF LifeInv, SchedInv
<1>7. switch.new \in Types
  BY DEF LifeInv, StageInv
<1>8. UNCHANGED <<owner, switch>>
  BY <1>1 DEF control
<1> QED
  BY <1>1, <1>3, <1>4, <1>5, <1>6, <1>7, <1>8 DEF LifeInv, SchedInv

(* A step of the owner that leaves the schedulers alone.                   *)
LEMMA OwnerKeepsSched ==
  ASSUME LifeInv, UNCHANGED <<sched, switch>>,
         owner' \in {"none", "alloc", "elevator", "clean", "gone"} => elevator = 0,
         owner' \in {"none", "alloc", "elevator"} => owner \in {"none", "alloc", "elevator"},
         owner' \in {"inited", "live"} => elevator # 0
  PROVE  SchedInv'
<1>1. UNCHANGED <<elevator, etype, exited, registered, elv_list, refs, switch>>
  BY DEF sched
<1>2. Live' = Live /\ Created' = Created
  BY <1>1 DEF Live, Created
<1>3. SchedTypes' /\ \A t : Holds(t)' <=> Holds(t)
  BY <1>1, <1>2 DEF LifeInv, SchedInv, SchedTypes, Holds
<1> QED
  BY <1>1, <1>2, <1>3 DEF LifeInv, SchedInv

(* elevator_init.                                                          *)
LEMMA InitKeepsSched ==
  ASSUME LifeInv, elevator_init
  PROVE  SchedInv'
<1>1. /\ owner = "elevator" /\ Created # Instances /\ sysfs_lock = "free"
      /\ UNCHANGED <<switch, exited, registered, elv_list>>
  BY DEF elevator_init, CanCreate
<1>2. /\ elevator = 0 /\ Live = {} /\ registered = {} /\ switch.at \in {"idle", "change"}
      /\ SchedTypes
  BY <1>1 DEF LifeInv, SchedInv, StageInv
<1>3. Default \in elv_list /\ Default \in Types
  BY DEF Default, LifeInv, SchedInv, SchedTypes
<1>4. CASE /\ etype' = [etype EXCEPT ![Fresh] = Default] /\ elevator' = Fresh
           /\ refs' = elevator_get(refs, Default) /\ owner' = "inited"
  <2>1. /\ Live' = {Fresh} /\ Fresh # 0 /\ Fresh \in 0 .. MaxInstances
        /\ etype' \in [Instances -> Types \union {"none"}] /\ exited' \subseteq Created'
        /\ etype'[Fresh] = Default
    BY <1>1, <1>2, <1>3, <1>4, Creates
  <2>2. /\ refs' \in [Types -> Int] /\ refs'[Default] >= 1 /\ \A u \in Types : refs'[u] >= 0
    BY <1>1, <1>3, <1>4 DEF elevator_get, LifeInv, SchedInv, SchedTypes
  <2>3. PICK t, f : t = Default /\ f = Fresh
    OBVIOUS
  <2>4. Holds(t)' /\ SchedTypes'
    BY <1>1, <1>2, <1>3, <1>4, <2>1, <2>2, <2>3 DEF Holds, SchedTypes
  <2>5. Live' = {f} /\ elevator' = f /\ f # 0 /\ etype'[f] = t
    BY <1>4, <2>1, <2>3
  <2> QED
    BY <1>1, <1>2, <1>4, <2>2, <2>4, <2>5 DEF SchedInv
<1>5. CASE /\ refs' \in {refs, elevator_put(refs, Default)} /\ owner' = "clean"
           /\ UNCHANGED <<etype, elevator>>
  <2>1. refs' \in [Types -> Int]
    BY <1>2, <1>3, <1>5 DEF elevator_put, SchedTypes
  <2>2. Live' = {} /\ Created' = Created
    BY <1>1, <1>2, <1>5 DEF Live, Created
  <2>3. SchedTypes'
    BY <1>1, <1>2, <1>5, <2>1, <2>2 DEF SchedTypes
  <2> QED
    BY <1>1, <1>2, <1>5, <2>2, <2>3 DEF SchedInv
<1> QED
  BY <1>4, <1>5 DEF elevator_init

(* blk_register_queue and the last blk_put_queue.                          *)
LEMMA EndsKeepSched ==
  ASSUME LifeInv, blk_register_queue \/ blk_put_queue
  PROVE  SchedInv'
<1>1. /\ switch' = switch /\ switch.at \in {"idle", "change"} /\ SchedTypes
      /\ Live = {elevator} \ {0} /\ UNCHANGED <<etype, elv_list>>
  BY DEF blk_register_queue, blk_put_queue, LifeInv, StageInv, SchedInv
<1>2. CASE blk_register_queue
  <2>1. /\ owner = "inited" /\ owner' = "live" /\ registered' = {elevator}
        /\ UNCHANGED <<elevator, etype, exited, elv_list, refs>>
    BY <1>2 DEF blk_register_queue
  <2>2. Live' = Live /\ Created' = Created
    BY <2>1 DEF Live, Created
  <2>3. SchedTypes' /\ \A t : Holds(t)' <=> Holds(t)
    BY <1>1, <2>1, <2>2 DEF SchedTypes, Holds
  <2> QED
    BY <1>1, <2>1, <2>2, <2>3 DEF LifeInv, SchedInv
<1>3. CASE blk_put_queue
  <2>1. /\ owner = "put" /\ owner' = "gone" /\ elevator' = 0 /\ registered' = {}
        /\ IF elevator # 0 THEN elevator_exit(elevator, refs) ELSE UNCHANGED <<exited, refs>>
    BY <1>3 DEF blk_put_queue
  <2>2. Live' = {} /\ exited' \subseteq Created' /\ refs' \in [Types -> Int]
    <3>1. CASE elevator # 0
      <4>1. elevator \in Live
        BY <1>1, <3>1
      <4> QED
        BY <1>1, <2>1, <3>1, <4>1, Exits
    <3>2. CASE elevator = 0
      BY <1>1, <2>1, <3>2 DEF Live, Created, SchedTypes
    <3> QED
      BY <3>1, <3>2
  <2>3. SchedTypes'
    BY <1>1, <2>1, <2>2, LifecycleAssumption DEF SchedTypes
  <2> QED
    BY <1>1, <2>1, <2>2, <2>3 DEF SchedInv
<1> QED
  BY <1>2, <1>3

(* A switch begins: elevator_get takes a reference to the new module.      *)
LEMMA ChangeKeepsSched ==
  ASSUME LifeInv, __elevator_change
  PROVE  SchedInv'
<1>1. /\ switch.at = "change" /\ SchedTypes /\ Live = {elevator} \ {0} /\ registered \subseteq Live
      /\ UNCHANGED <<owner, elevator, etype, exited, registered, elv_list>>
      /\ \A e \in Live : Holds(etype[e])
  BY DEF __elevator_change, LifeInv, SchedInv
<1>2. Live' = Live /\ Created' = Created
  BY <1>1 DEF Live, Created
<1>3. CASE switch' = Idle /\ UNCHANGED refs
  <2>1. switch'.at = "idle"
    BY <1>3, IdleIs
  <2>2. SchedTypes' /\ \A t : Holds(t)' <=> Holds(t)
    BY <1>1, <1>2, <1>3 DEF SchedTypes, Holds
  <2> QED
    BY <1>1, <1>2, <1>3, <2>1, <2>2 DEF LifeInv, SchedInv
<1>4. ASSUME NEW t \in elv_list, elevator # 0, t # etype[elevator], Created # Instances,
             refs' = elevator_get(refs, t),
             switch' = [at |-> "bypass", old |-> elevator, new |-> t,
                        registered |-> elevator \in registered]
      PROVE  SchedInv'
  <2>1. t \in Types
    BY <1>1 DEF SchedTypes
  <2>2. switch'.at = "bypass" /\ switch'.old = elevator /\ switch'.new = t
    BY <1>4
  <2>3. /\ refs' \in [Types -> Int] /\ refs'[t] = refs[t] + 1 /\ refs[t] \in Int
        /\ \A u \in Types : u # t => refs'[u] = refs[u]
    BY <1>1, <1>4, <2>1 DEF elevator_get, SchedTypes
  <2>4. \A u \in Types : Holds(u) => Holds(u)'
    BY <1>1, <2>3 DEF Holds
  <2>5. \A u \in Types : refs'[u] >= 0 /\ refs'[t] >= 1
    <3>1. \A u \in Types : refs[u] >= 0 /\ refs[u] \in Int
      BY <1>1, <1>4 DEF LifeInv, SchedInv, SchedTypes
    <3> QED
      BY <2>1, <2>3, <3>1
  <2>6. Holds(t)' /\ SchedTypes'
    BY <1>1, <1>2, <2>1, <2>3, <2>5 DEF Holds, SchedTypes
  <2>7. \A e \in Live : etype'[e] = etype[e] /\ Holds(etype[e])'
    BY <1>1, <2>4, LiveIs
  <2>8. /\ owner' \in {"none", "alloc", "elevator", "clean", "gone"} => elevator' = 0
        /\ owner' \in {"inited", "live"} => elevator' # 0
    BY <1>1 DEF LifeInv, SchedInv
  <2>9. /\ elevator' # 0 /\ switch'.old = elevator' /\ Created' # Instances /\ Holds(switch.new)'
        /\ switch'.new # etype'[switch'.old]
    BY <1>1, <1>2, <1>4, <2>2, <2>6
  <2> QED
    BY <1>1, <1>2, <2>2, <2>5, <2>6, <2>7, <2>8, <2>9 DEF SchedInv
<1> QED
  BY <1>3, <1>4 DEF __elevator_change, CanCreate

(* A step of the switch that leaves the schedulers alone.                  *)
LEMMA WaitingKeepsSched ==
  ASSUME LifeInv, UNCHANGED <<sched, owner>>,
         \/ switch.at \in {"idle", "change"} /\ switch'.at \in {"idle", "change"}
         \/ /\ switch.at \in {"bypass", "drain"} /\ switch'.at \in {"bypass", "drain", "swap"}
            /\ switch'.old = switch.old /\ switch'.new = switch.new
  PROVE  SchedInv'
<1>1. UNCHANGED <<elevator, etype, exited, registered, elv_list, refs, owner>>
  BY DEF sched
<1>2. Live' = Live /\ Created' = Created
  BY <1>1 DEF Live, Created
<1>3. SchedTypes' /\ \A t : Holds(t)' <=> Holds(t)
  BY <1>1, <1>2 DEF LifeInv, SchedInv, SchedTypes, Holds
<1>4. switch'.new = switch.new => (Holds(switch.new)' <=> Holds(switch.new))
  BY <1>1 DEF Holds
<1> QED
  BY <1>1, <1>2, <1>3, <1>4 DEF LifeInv, SchedInv

(* The swap: the new scheduler becomes q->elevator, or its init fails.     *)
LEMMA SwapKeepsSched ==
  ASSUME LifeInv, Swap
  PROVE  SchedInv'
<1>1. /\ switch.at = "swap" /\ registered' = registered \ {switch.old}
      /\ UNCHANGED <<owner, exited, elv_list>>
  BY DEF Swap, elv_unregister_queue
<1>2. /\ SchedTypes /\ Live = {elevator} /\ elevator # 0 /\ switch.old = elevator
      /\ Created # Instances /\ Holds(switch.new) /\ switch.new # etype[elevator]
      /\ Holds(etype[elevator]) /\ registered \subseteq Live
      /\ owner \notin {"none", "alloc", "elevator", "clean", "gone"}
      /\ \A t \in Types : refs[t] >= 0 /\ refs[t] \in Int
  BY <1>1 DEF LifeInv, SchedInv, SchedTypes, StageInv
<1>3. registered' = {}
  BY <1>1, <1>2
<1>4. PICK n, o : n = switch.new /\ o = elevator
  OBVIOUS
<1>5. n \in Types /\ etype[o] \in Types /\ n # etype[o] /\ o \in Live
  BY <1>2, <1>4 DEF Holds
<1>6. CASE /\ etype' = [etype EXCEPT ![Fresh] = switch.new] /\ elevator' = Fresh
           /\ switch' = [switch EXCEPT !.at = "register"] /\ UNCHANGED refs
  <2>1. PICK f : f = Fresh
    OBVIOUS
  <2>2. /\ Live' = Live \union {f} /\ f \notin Live /\ f # 0 /\ f \in 0 .. MaxInstances
        /\ etype' \in [Instances -> Types \union {"none"}] /\ exited' \subseteq Created'
        /\ etype'[f] = n /\ \A e \in Live : etype'[e] = etype[e]
    BY <1>1, <1>2, <1>4, <1>5, <1>6, <2>1, Creates
  <2>3. switch'.at = "register" /\ switch'.old = o /\ elevator' = f
    BY <1>2, <1>4, <1>6, <2>1 DEF LifeInv, StageInv
  <2>4. SchedTypes' /\ \A t : Holds(t)' <=> Holds(t)
    BY <1>1, <1>2, <1>6, <2>1, <2>2 DEF SchedTypes, Holds
  <2>5. Live' = {f, o} /\ f # o /\ etype'[f] # etype'[o]
    BY <1>2, <1>4, <1>5, <2>2
  <2>6. \A e \in Live' : Holds(etype[e])'
    BY <1>2, <1>4, <1>5, <2>2, <2>4, <2>5
  <2> QED
    BY <1>1, <1>2, <1>3, <1>4, <1>6, <2>2, <2>3, <2>4, <2>5, <2>6 DEF SchedInv
<1>7. CASE /\ switch' = [switch EXCEPT !.at = "restore"]
           /\ refs' \in {refs, elevator_put(refs, switch.new)} /\ UNCHANGED <<etype, elevator>>
  <2>1. switch'.at = "restore" /\ switch'.old = o
    BY <1>2, <1>4, <1>7 DEF LifeInv, StageInv
  <2>2. /\ refs' \in [Types -> Int] /\ \A t \in Types : refs'[t] >= 0
        /\ refs'[etype[o]] = refs[etype[o]]
    BY <1>2, <1>4, <1>5, <1>7 DEF elevator_put, SchedTypes, Holds
  <2>3. Live' = {o} /\ Created' = Created
    BY <1>1, <1>2, <1>4, <1>7 DEF Live, Created
  <2>4. SchedTypes'
    BY <1>1, <1>2, <1>7, <2>2, <2>3 DEF SchedTypes
  <2>5. Holds(etype[o])'
    BY <1>1, <1>2, <1>4, <1>7, <2>2 DEF Holds
  <2> QED
    BY <1>1, <1>2, <1>3, <1>4, <1>7, <2>1, <2>2, <2>3, <2>4, <2>5 DEF SchedInv
<1> QED
  BY <1>6, <1>7 DEF Swap

(* elv_register_queue: when it fails the new scheduler is exited.          *)
LEMMA RegisterKeepsSched ==
  ASSUME LifeInv, elv_register_queue
  PROVE  SchedInv'
<1>1. /\ switch.at = "register" /\ UNCHANGED <<owner, elevator, etype, elv_list>>
  BY DEF elv_register_queue
<1>2. PICK n, o : n = elevator /\ o = switch.old
  OBVIOUS
<1>3. /\ SchedTypes /\ Live = {n, o} /\ n # o /\ etype[n] # etype[o] /\ registered = {}
      /\ n # 0 /\ o # 0 /\ \A e \in Live : Holds(etype[e])
      /\ owner \notin {"none", "alloc", "elevator", "clean", "gone"}
      /\ \A t \in Types : refs[t] >= 0 /\ refs[t] \in Int
  BY <1>1, <1>2 DEF LifeInv, SchedInv, SchedTypes, StageInv
<1>4. CASE /\ registered' = (IF switch.registered THEN {elevator} ELSE {})
           /\ switch' = [switch EXCEPT !.at = "finish"] /\ UNCHANGED <<exited, refs>>
  <2>1. switch'.at = "finish" /\ switch'.old = o
    BY <1>2, <1>4 DEF LifeInv, StageInv
  <2>2. Live' = {n, o} /\ Created' = Created
    BY <1>1, <1>3, <1>4 DEF Live, Created
  <2>3. SchedTypes' /\ \A t : Holds(t)' <=> Holds(t)
    BY <1>1, <1>3, <1>4, <2>2 DEF SchedTypes, Holds
  <2>4. registered' \subseteq {n}
    BY <1>2, <1>4
  <2> QED
    BY <1>1, <1>2, <1>3, <1>4, <2>1, <2>2, <2>3, <2>4 DEF SchedInv
<1>5. CASE /\ elevator_exit(elevator, refs) /\ UNCHANGED registered
           /\ switch' = [switch EXCEPT !.at = "restore"]
  <2>1. switch'.at = "restore" /\ switch'.old = o
    BY <1>2, <1>5 DEF LifeInv, StageInv
  <2>2. /\ Live' = Live \ {n} /\ exited' \subseteq Created' /\ refs' \in [Types -> Int]
        /\ \A t \in Types : refs'[t] = IF t = etype[n] THEN refs[t] - 1 ELSE refs[t]
    BY <1>1, <1>2, <1>3, <1>5, Exits
  <2>3. \A t \in Types : refs'[t] >= 0
    BY <1>3, <2>2 DEF Holds
  <2>4. Holds(etype[o])' /\ etype'[o] = etype[o]
    BY <1>1, <1>3, <2>2 DEF Holds
  <2>5. SchedTypes' /\ Live' = {o}
    BY <1>1, <1>3, <2>2 DEF SchedTypes
  <2> QED
    BY <1>1, <1>2, <1>3, <1>5, <2>1, <2>3, <2>4, <2>5 DEF SchedInv
<1> QED
  BY <1>4, <1>5 DEF elv_register_queue

(* The end of the switch: exit the old scheduler, or put it back.          *)
LEMMA SwitchEndKeepsSched ==
  ASSUME LifeInv, SwitchEnds
  PROVE  SchedInv'
<1>1. UNCHANGED <<owner, etype, elv_list>> /\ switch'.at = "idle"
  BY IdleIs DEF SwitchEnds
<1>2. PICK n, o : n = elevator /\ o = switch.old
  OBVIOUS
<1>3. CASE /\ switch.at = "finish" /\ elevator_exit(switch.old, refs)
           /\ UNCHANGED <<elevator, registered>>
  <2>1. /\ SchedTypes /\ Live = {n, o} /\ n # o /\ etype[n] # etype[o] /\ registered \subseteq {n}
        /\ \A e \in Live : Holds(etype[e])
        /\ owner \notin {"none", "alloc", "elevator", "clean", "gone"}
    BY <1>2, <1>3 DEF LifeInv, SchedInv, StageInv
  <2>2. /\ n # 0 /\ etype[n] \in Types /\ o \in Live
    BY <2>1, LiveIs
  <2>3. /\ Live' = Live \ {o} /\ exited' \subseteq Created' /\ refs' \in [Types -> Int]
        /\ \A t \in Types : refs'[t] = IF t = etype[o] THEN refs[t] - 1 ELSE refs[t]
    BY <1>1, <1>2, <1>3, <2>1, <2>2, Exits
  <2>4. \A t \in Types : refs'[t] >= 0
    <3>1. \A t \in Types : refs[t] >= 0 /\ refs[t] \in Int
      BY <1>2, <2>1, <2>2 DEF LifeInv, SchedInv, SchedTypes
    <3> QED
      BY <2>1, <2>2, <2>3, <3>1 DEF Holds
  <2>5. Holds(etype[n])' /\ etype'[n] = etype[n]
    BY <1>1, <2>1, <2>2, <2>3 DEF Holds
  <2>6. SchedTypes' /\ Live' = {n} /\ elevator' = n
    BY <1>1, <1>2, <1>3, <2>1, <2>3 DEF SchedTypes
  <2> QED
    BY <1>1, <1>3, <2>1, <2>2, <2>4, <2>5, <2>6 DEF SchedInv
<1>4. CASE /\ switch.at = "restore" /\ elevator' = Restored
           /\ registered' \in {{}, {Restored}} /\ UNCHANGED <<exited, refs>>
  <2>1. /\ SchedTypes /\ Live = {o} /\ o # 0 /\ elevator # 0 /\ Holds(etype[o])
        /\ owner \notin {"none", "alloc", "elevator", "clean", "gone"}
        /\ \A t \in Types : refs[t] >= 0
    BY <1>2, <1>4 DEF LifeInv, SchedInv, StageInv
  <2>2. o \in 0 .. MaxInstances /\ elevator' = o /\ registered' \subseteq {o}
    BY <1>2, <1>4 DEF Restored, LifeInv, StageInv
  <2>3. Live' = {o} /\ Created' = Created
    BY <1>1, <1>4, <2>1 DEF Live, Created
  <2>4. SchedTypes' /\ \A t : Holds(t)' <=> Holds(t)
    BY <1>1, <1>4, <2>1, <2>2, <2>3 DEF SchedTypes, Holds
  <2> QED
    BY <1>1, <1>4, <2>1, <2>2, <2>3, <2>4 DEF SchedInv
<1> QED
  BY <1>3, <1>4 DEF SwitchEnds

(* Every step keeps the schedulers in order.                               *)
LEMMA SchedStep ==
  ASSUME LifeInv, [Next]_vars
  PROVE  SchedInv'
<1>1. CASE Driver \/ Submitter \/ UNCHANGED vars
  <2>1. UNCHANGED <<sched, switch, owner>>
    <3>1. CASE Driver
      BY <3>1 DEF Driver, RunEnter, RunExit, blk_fetch_request, process_one_work,
                  blk_delay_work, blk_delay_queue, blk_stop_queue, blk_start_queue
    <3>2. CASE Submitter
      BY <3>2 DEF Submitter, Insertion, get_request, __elv_add_request, blk_requeue_request,
                  __blk_put_request
    <3> QED
      BY <1>1, <3>1, <3>2 DEF vars
  <2> QED
    BY <2>1, OwnerKeepsSched DEF LifeInv, SchedInv
<1>2. CASE blk_alloc_queue_node \/ InitQueue \/ blk_set_queue_dying \/ EnterBypass \/ blk_sync_queue
  <2>1. /\ UNCHANGED <<sched, switch>>
        /\ \/ owner \in {"none", "alloc"} /\ owner' \in {"gone", "alloc", "clean", "elevator"}
           \/ owner' \in {"dying", "drain", "put"}
    BY <1>2 DEF blk_alloc_queue_node, InitQueue, blk_set_queue_dying, EnterBypass, blk_sync_queue
  <2> QED
    BY <2>1, OwnerKeepsSched DEF LifeInv, SchedInv
<1>3. CASE CleanupDrain
  <2>1. UNCHANGED <<sched, switch>> /\ owner' \in {"drain", "sync"}
    BY <1>3, CleanupDrainEffect
  <2> QED
    BY <2>1, OwnerKeepsSched
<1>4. CASE blk_get_queue \/ SwitchBypass
  <2>1. /\ UNCHANGED <<sched, owner>>
        /\ \/ switch.at = "idle" /\ switch'.at = "change"
           \/ /\ switch.at = "bypass" /\ switch'.at \in {"drain", "swap"}
              /\ switch'.old = switch.old /\ switch'.new = switch.new
    BY <1>4, IdleIs DEF blk_get_queue, SwitchBypass, LifeInv, StageInv
  <2> QED
    BY <2>1, WaitingKeepsSched
<1>5. CASE SwitchDrain
  <2>1. /\ UNCHANGED <<sched, owner>> /\ switch.at = "drain" /\ switch'.at \in {"drain", "swap"}
        /\ switch'.old = switch.old /\ switch'.new = switch.new
    BY <1>5, SwitchDrainEffect DEF LifeInv, StageInv
  <2> QED
    BY <2>1, WaitingKeepsSched
<1> QED
  BY <1>1, <1>2, <1>3, <1>4, <1>5, ModulesKeepSched, InitKeepsSched, EndsKeepSched,
     ChangeKeepsSched, SwapKeepsSched, RegisterKeepsSched, SwitchEndKeepsSched
     DEF Next, Owner, Switcher

-----------------------------------------------------------------------------
Unmanaged == \A r \in Requests : priv[r] = 0

(* The counters of the drain count: they are 0 when there is none.         *)
LEMMA CountersZero ==
  /\ nr_rqs = 0 <=> Empty
  /\ nr_rqs_elvpriv = 0 <=> Unmanaged
<1>1. \A S \in SUBSET Requests : Cardinality(S) = 0 <=> S = {}
  <2>1. ASSUME NEW S \in SUBSET Requests PROVE Cardinality(S) = 0 <=> S = {}
    BY LifecycleAssumption, FS_Subset, FS_EmptySet
  <2> QED
    BY <2>1
<1>2. Requests \ In("free") \in SUBSET Requests /\ {r \in Requests : priv[r] # 0} \in SUBSET Requests
  OBVIOUS
<1>3. Requests \ In("free") = {} <=> Empty
  BY DEF In, Empty
<1>4. {r \in Requests : priv[r] # 0} = {} <=> Unmanaged
  BY DEF Unmanaged
<1>5. nr_rqs = 0 <=> Requests \ In("free") = {}
  BY <1>1, <1>2 DEF nr_rqs
<1>6. nr_rqs_elvpriv = 0 <=> {r \in Requests : priv[r] # 0} = {}
  BY <1>1, <1>2 DEF nr_rqs_elvpriv
<1> QED
  BY <1>3, <1>4, <1>5, <1>6

(* No request, no scheduler's data.                                        *)
LEMMA EmptyUnmanaged == ReqInv /\ Empty => Unmanaged
  BY DEF ReqInv, Empty, Unmanaged

(* Requests move about, but none enters the scheduler, is allocated or     *)
(* freed.                                                                  *)
LEMMA MovesKeepReq ==
  ASSUME ReqInv, elevator' = elevator, priv' = priv,
         rq' \in [Requests -> Places], home' \in [Requests -> 0 .. MaxInstances],
         \A r \in Requests : /\ rq[r] # "free" => rq'[r] # "free"
                             /\ rq'[r] = "sched" => rq[r] = "sched" /\ home'[r] = home[r],
         \/ switch'.at \in {"swap", "register", "finish", "restore"} =>
              switch.at \in {"swap", "register", "finish", "restore"}
         \/ Unmanaged,
         init_done => init_done'
  PROVE  ReqInv'
<1>1. /\ priv \in [Requests -> 0 .. MaxInstances]
      /\ \A r \in Requests : /\ priv[r] # 0 => priv[r] = elevator /\ rq[r] # "free"
                             /\ rq[r] = "sched" => priv[r] # 0 /\ home[r] = elevator
      /\ switch.at \in {"swap", "register", "finish", "restore"} => \A r \in Requests : priv[r] = 0
      /\ ~ init_done => \A r \in Requests : priv[r] = 0
  BY DEF ReqInv
<1>2. /\ switch'.at \in {"swap", "register", "finish", "restore"} => \A r \in Requests : priv'[r] = 0
      /\ ~ init_done' => \A r \in Requests : priv'[r] = 0
  BY <1>1 DEF Unmanaged
<1> QED
  BY <1>1, <1>2 DEF ReqInv

(* Nobody carries a scheduler's data: the scheduler may change.            *)
LEMMA UnmanagedKeepsReq == ReqInv /\ Unmanaged /\ UNCHANGED <<rq, priv, home>> => ReqInv'
<1> SUFFICES ASSUME ReqInv, Unmanaged, UNCHANGED <<rq, priv, home>> PROVE ReqInv'
  OBVIOUS
<1> QED
  BY DEF ReqInv, Unmanaged

(* The forced dispatch, and the requests it leaves.                        *)
LEMMA DispatchMoves ==
  ASSUME ReqInv, NEW S, S \subseteq In("sched"), rq' = Dispatched(S), home' = Left(S)
  PROVE  /\ rq' \in [Requests -> Places] /\ home' \in [Requests -> 0 .. MaxInstances]
         /\ \A r \in Requests : /\ rq[r] # "free" => rq'[r] # "free"
                                /\ rq'[r] = "sched" => rq[r] = "sched" /\ home'[r] = home[r]
                                /\ rq[r] = "free" => rq'[r] = "free"
<1>1. 0 \in 0 .. MaxInstances
  BY LifecycleAssumption
<1> QED
  BY <1>1 DEF ReqInv, Dispatched, Left, In, Places

(* A round of a drain.                                                     *)
LEMMA RoundMoves ==
  ASSUME ReqInv, elv_drain_elevator \/ UNCHANGED <<rq, home>>
  PROVE  /\ rq' \in [Requests -> Places] /\ home' \in [Requests -> 0 .. MaxInstances]
         /\ \A r \in Requests : /\ rq[r] # "free" => rq'[r] # "free"
                                /\ rq'[r] = "sched" => rq[r] = "sched" /\ home'[r] = home[r]
                                /\ rq[r] = "free" => rq'[r] = "free"
<1>1. CASE UNCHANGED <<rq, home>>
  BY <1>1 DEF ReqInv
<1>2. CASE elv_drain_elevator
  <2> DEFINE S == IF elevator = 0 THEN {} ELSE HeldBy(elevator)
  <2>1. S \subseteq In("sched") /\ rq' = Dispatched(S) /\ home' = Left(S)
    BY <1>2 DEF elv_drain_elevator, HeldBy
  <2> HIDE DEF S
  <2> QED
    BY <2>1, DispatchMoves
<1> QED
  BY <1>1, <1>2

(* request_fn fetches a request.                                           *)
LEMMA FetchMoves ==
  ASSUME ReqInv, blk_fetch_request
  PROVE  /\ rq' \in [Requests -> Places] /\ home' \in [Requests -> 0 .. MaxInstances]
         /\ \A r \in Requests : /\ rq[r] # "free" => rq'[r] # "free"
                                /\ rq'[r] = "sched" => rq[r] = "sched" /\ home'[r] = home[r]
<1>1. 0 \in 0 .. MaxInstances
  BY LifecycleAssumption
<1>2. PICK q \in Requests : /\ rq[q] # "free" /\ rq' = [rq EXCEPT ![q] = "driver"]
                            /\ home' = home \/ home' = Left({q})
  BY DEF blk_fetch_request, In, Askable, HeldBy
<1> QED
  BY <1>1, <1>2 DEF ReqInv, Left, Places

(* Allocation: REQ_ELVPRIV only outside bypass mode.                       *)
LEMMA AllocKeepsReq ==
  ASSUME LifeInv, get_request
  PROVE  ReqInv'
<1>1. PICK q \in Requests : rq[q] = "free" /\ q = Spare
  BY DEF get_request, Spare, In
<1>2. /\ rq' = [rq EXCEPT ![q] = "owned"] /\ priv' = [priv EXCEPT ![q] = Manager]
      /\ home' = home /\ UNCHANGED <<elevator, switch, init_done>>
      /\ owner \notin {"none", "gone"}
  BY <1>1 DEF get_request, sched, flags
<1>3. Manager \in 0 .. MaxInstances /\ (Manager # 0 => Manager = elevator)
  BY LifecycleAssumption DEF Manager, LifeInv, SchedInv, SchedTypes
<1>4. switch.at \in {"swap", "register", "finish", "restore"} \/ ~ init_done => Manager = 0
  <2>1. ASSUME switch.at \in {"swap", "register", "finish", "restore"} \/ ~ init_done
        PROVE  bypass
    <3>1. bypass_depth > 0
      BY <1>2, <2>1 DEF LifeInv, DepthInv, BypassExact
    <3> QED
      BY <3>1 DEF LifeInv, DepthInv, BypassExact
  <2> QED
    BY <2>1 DEF Manager
<1> QED
  BY <1>1, <1>2, <1>3, <1>4 DEF LifeInv, ReqInv, Places

(* The insertion into the present scheduler, behind a forced dispatch, or  *)
(* at the front of the dispatch queue.                                     *)
LEMMA InsertKeepsReq ==
  ASSUME LifeInv, NEW q \in Requests, NEW where \in Where, __elv_add_request(q, where)
  PROVE  ReqInv'
<1>1. rq[q] = "owned" /\ UNCHANGED <<priv, elevator, switch, init_done>>
  BY DEF __elv_add_request, sched, flags
<1>2. CASE priv[q] # 0 /\ rq' = [rq EXCEPT ![q] = "sched"] /\ home' = [home EXCEPT ![q] = elevator]
  BY <1>1, <1>2 DEF LifeInv, ReqInv, SchedInv, SchedTypes, Places
<1>3. CASE /\ rq' = [Dispatched(HeldBy(elevator)) EXCEPT ![q] = "head"]
           /\ home' = Left(HeldBy(elevator))
  <2>1. 0 \in 0 .. MaxInstances
    BY LifecycleAssumption
  <2>2. /\ rq' \in [Requests -> Places] /\ home' \in [Requests -> 0 .. MaxInstances]
        /\ \A r \in Requests : /\ rq[r] # "free" => rq'[r] # "free"
                               /\ rq'[r] = "sched" => rq[r] = "sched" /\ home'[r] = home[r]
    BY <1>1, <1>3, <2>1 DEF LifeInv, ReqInv, Dispatched, Left, HeldBy, In, Places
  <2> QED
    BY <1>1, <2>2, MovesKeepReq DEF LifeInv
<1>4. CASE rq' = [rq EXCEPT ![q] = "head"] /\ home' = home
  BY <1>1, <1>4 DEF LifeInv, ReqInv, Places
<1> QED
  BY <1>2, <1>3, <1>4 DEF __elv_add_request

(* The requeue and the completion.                                         *)
LEMMA ReturnKeepsReq ==
  ASSUME LifeInv, NEW q \in Requests, blk_requeue_request(q) \/ __blk_put_request(q)
  PROVE  ReqInv'
<1>1. /\ rq[q] \in {"driver", "owned"} /\ UNCHANGED <<home, elevator, switch, init_done>>
      /\ \/ rq' = [rq EXCEPT ![q] = "head"] /\ priv' = priv
         \/ rq' = [rq EXCEPT ![q] = "free"] /\ priv' = [priv EXCEPT ![q] = 0]
  BY DEF blk_requeue_request, __blk_put_request, sched, flags
<1>2. 0 \in 0 .. MaxInstances
  BY LifecycleAssumption
<1>3. CASE rq' = [rq EXCEPT ![q] = "head"] /\ priv' = priv
  BY <1>1, <1>3 DEF LifeInv, ReqInv, Places
<1>4. CASE rq' = [rq EXCEPT ![q] = "free"] /\ priv' = [priv EXCEPT ![q] = 0]
  BY <1>1, <1>2, <1>4 DEF LifeInv, ReqInv, Places
<1> QED
  BY <1>1, <1>3, <1>4

(* Every step leaves each request with the scheduler it belongs to.        *)
LEMMA ReqStep ==
  ASSUME LifeInv, [Next]_vars
  PROVE  ReqInv'
<1> ReqInv /\ StageInv
  BY DEF LifeInv
<1> DEFINE Late == {"swap", "register", "finish", "restore"}
<1>1. ASSUME UNCHANGED <<rq, priv, home, elevator>>, init_done => init_done',
             (switch'.at \in Late => switch.at \in Late) \/ Unmanaged
      PROVE  ReqInv'
  <2>1. /\ rq \in [Requests -> Places] /\ home \in [Requests -> 0 .. MaxInstances]
    BY DEF ReqInv
  <2> QED
    BY <1>1, <2>1, MovesKeepReq
<1>2. CASE blk_fetch_request
  BY <1>2, FetchMoves, MovesKeepReq DEF blk_fetch_request, sched, flags
<1>3. CASE RunEnter \/ RunExit \/ process_one_work \/ blk_delay_work \/ blk_delay_queue
           \/ blk_stop_queue \/ blk_start_queue
  BY <1>1, <1>3 DEF RunEnter, RunExit, process_one_work, blk_delay_work, blk_delay_queue,
                    blk_stop_queue, blk_start_queue, sched, reqs, flags
<1>4. CASE Submitter
  BY <1>4, AllocKeepsReq, InsertKeepsReq, ReturnKeepsReq DEF Submitter, Insertion
<1>5. CASE Modules \/ UNCHANGED vars
  BY <1>1, <1>5 DEF Modules, elv_register, elv_unregister, vars, sched, reqs, flags
<1>6. CASE blk_alloc_queue_node \/ InitQueue \/ blk_register_queue \/ blk_set_queue_dying
           \/ EnterBypass \/ blk_sync_queue
  BY <1>1, <1>6 DEF blk_alloc_queue_node, InitQueue, blk_register_queue, blk_set_queue_dying,
                    EnterBypass, blk_sync_queue, sched, reqs, flags
<1>7. CASE elevator_init \/ blk_put_queue
  <2>1. owner = "elevator" \/ owner = "put"
    BY <1>7 DEF elevator_init, blk_put_queue
  <2>2. Empty
    BY <2>1 DEF LifeInv, QuietInv, StageInv
  <2>3. UNCHANGED <<rq, priv, home>>
    BY <1>7 DEF elevator_init, blk_put_queue, reqs
  <2> QED
    BY <2>2, <2>3, EmptyUnmanaged, UnmanagedKeepsReq
<1>8. CASE CleanupDrain
  <2>1. /\ UNCHANGED <<elevator, priv, switch, init_done>> /\ (elv_drain_elevator \/ UNCHANGED <<rq, home>>)
    BY <1>8, CleanupDrainEffect DEF sched
  <2> QED
    BY <2>1, RoundMoves, MovesKeepReq
<1>9. CASE blk_get_queue \/ __elevator_change
  <2>1. UNCHANGED <<rq, priv, home, elevator, init_done>> /\ switch'.at \notin Late
    BY <1>9, IdleIs DEF blk_get_queue, __elevator_change, sched, reqs, flags
  <2> QED
    BY <1>1, <2>1
<1>10. CASE SwitchBypass
  <2>1. /\ UNCHANGED <<rq, priv, home, elevator, init_done>>
        /\ switch'.at = IF init_done THEN "drain" ELSE "swap"
    BY <1>10 DEF SwitchBypass, sched, reqs, flags, StageInv
  <2>2. ~ init_done => Unmanaged
    BY DEF ReqInv, Unmanaged
  <2> QED
    BY <1>1, <2>1, <2>2
<1>11. CASE SwitchDrain
  <2>1. /\ UNCHANGED <<elevator, priv, init_done>> /\ (elv_drain_elevator \/ UNCHANGED <<rq, home>>)
        /\ switch' = switch \/ nr_rqs_elvpriv = 0
    BY <1>11, SwitchDrainEffect DEF sched
  <2>2. (switch'.at \in Late => switch.at \in Late) \/ Unmanaged
    BY <2>1, CountersZero
  <2> QED
    BY <2>1, <2>2, RoundMoves, MovesKeepReq
<1>12. CASE Swap \/ elv_register_queue \/ SwitchEnds
  <2>1. Unmanaged /\ UNCHANGED <<rq, priv, home>>
    BY <1>12 DEF Swap, elv_register_queue, SwitchEnds, reqs, ReqInv, Unmanaged
  <2> QED
    BY <2>1, UnmanagedKeepsReq
<1> QED
  BY <1>2, <1>3, <1>4, <1>5, <1>6, <1>7, <1>8, <1>9, <1>10, <1>11, <1>12
     DEF Next, Driver, Owner, Switcher

(***************************************************************************)
(* An empty queue on which request_fn does not run, and will not: nothing  *)
(* that drivers and submitters do starts it again.                         *)
(***************************************************************************)
LEMMA QuietTraffic ==
  ASSUME Driver \/ Submitter, Empty, fnrun = {}, dead \/ Idling,
         owner \notin {"inited", "live"}
  PROVE  /\ Empty' /\ fnrun' = {} /\ (work = {} => work' = {}) /\ (Idling => Idling')
<1>1. In("driver") = {} /\ In("head") = {} /\ ~ DriverActive
  BY DEF In, Empty, DriverActive
<1>2. CASE RunEnter
  BY <1>2 DEF RunEnter, __blk_run_queue, reqs, flags, Empty, Idling
<1>3. CASE process_one_work \/ blk_delay_work
  BY <1>3 DEF process_one_work, blk_delay_work, __blk_run_queue, reqs, flags, Empty, Idling
<1>4. CASE RunExit \/ blk_fetch_request \/ blk_delay_queue \/ blk_stop_queue
  BY <1>1, <1>4 DEF RunExit, blk_fetch_request, blk_delay_queue, blk_stop_queue
<1>5. CASE blk_start_queue
  BY <1>5 DEF blk_start_queue, reqs, Empty, Idling
<1>6. CASE Submitter
  BY <1>6 DEF Submitter, Insertion, get_request, __elv_add_request, blk_requeue_request,
              __blk_put_request, Empty
<1> QED
  BY <1>2, <1>3, <1>4, <1>5, <1>6 DEF Driver

(* Nor does a drain.                                                       *)
LEMMA QuietRound ==
  ASSUME ReqInv, Empty, NEW who, fnrun = {},
         \/ /\ who \notin fnrun /\ elv_drain_elevator
            /\ IF \E r \in Requests : rq'[r] = "head" THEN __blk_run_queue(who) ELSE UNCHANGED fnrun
         \/ who \in fnrun /\ fnrun' = fnrun \ {who} /\ UNCHANGED <<rq, home>>
  PROVE  Empty' /\ fnrun' = {}
<1>1. Empty'
  BY RoundMoves DEF Empty
<1> QED
  BY <1>1 DEF Empty

(* Every step keeps a new queue and a cleaned-up one quiet.                *)
LEMMA QuietStep ==
  ASSUME LifeInv, [Next]_vars
  PROVE  QuietInv'
<1> QuietInv /\ StageInv /\ ReqInv
  BY DEF LifeInv
<1> DEFINE New == {"none", "alloc", "elevator", "clean"}
<1>1. ASSUME UNCHANGED <<rq, fnrun, due, work, stopped, dead>>,
             owner' \in {"sync", "put", "gone"} => owner' = owner,
             owner' \in New => owner \in New
      PROVE  QuietInv'
  BY <1>1 DEF QuietInv, Empty, Idling
<1>2. CASE Driver \/ Submitter
  <2>1. UNCHANGED <<owner, dead>>
    BY <1>2, TrafficControl DEF control
  <2>2. ASSUME owner \in New \union {"sync", "put", "gone"}
        PROVE  Empty' /\ fnrun' = {} /\ (work = {} => work' = {}) /\ (Idling => Idling')
    <3>1. Empty /\ fnrun = {} /\ (dead \/ Idling) /\ owner \notin {"inited", "live"}
      BY <2>2 DEF QuietInv
    <3> QED
      BY <1>2, <3>1, QuietTraffic
  <2> QED
    BY <2>1, <2>2 DEF QuietInv
<1>3. CASE Modules \/ UNCHANGED vars
  BY <1>1, <1>3 DEF Modules, elv_register, elv_unregister, vars, flags, reqs, run
<1>4. CASE blk_alloc_queue_node
  <2>1. /\ owner = "none" /\ UNCHANGED <<rq, fnrun, due, work, stopped, dead>>
        /\ owner' \in {"gone", "alloc"}
    BY <1>4 DEF blk_alloc_queue_node, flags, reqs, run
  <2> QED
    BY <2>1 DEF QuietInv, Empty, Idling
<1>5. CASE InitQueue \/ elevator_init \/ blk_set_queue_dying \/ EnterBypass \/ blk_register_queue
  BY <1>1, <1>5 DEF InitQueue, elevator_init, blk_set_queue_dying, EnterBypass,
                    blk_register_queue, flags, reqs, run
<1>6. CASE CleanupDrain
  <2>1. /\ owner = "drain" /\ UNCHANGED <<stopped, due, work>>
        /\ \/ owner' = "drain" /\ dead' = dead
           \/ owner' = "sync" /\ dead' = TRUE /\ fnrun' = {} /\ ~ Undrained(TRUE, fnrun')
        /\ elv_drain_elevator \/ UNCHANGED <<rq, home>>
    BY <1>6, CleanupDrainEffect
  <2>2. CASE owner' = "drain" /\ dead' = dead
    BY <2>2 DEF QuietInv
  <2>3. CASE owner' = "sync" /\ dead' = TRUE /\ fnrun' = {} /\ ~ Undrained(TRUE, fnrun')
    <3>1. Empty
      BY <2>3, CountersZero DEF Undrained
    <3>2. Empty'
      BY <2>1, <3>1, RoundMoves DEF Empty
    <3> QED
      BY <2>3, <3>2 DEF QuietInv
  <2> QED
    BY <2>1, <2>2, <2>3
<1>7. CASE blk_sync_queue
  BY <1>7 DEF blk_sync_queue, QuietInv, Empty, Idling, flags, reqs
<1>8. CASE blk_put_queue
  BY <1>8 DEF blk_put_queue, QuietInv, Empty, Idling, flags, reqs, run
<1>9. CASE blk_get_queue \/ __elevator_change \/ SwitchBypass \/ Swap \/ elv_register_queue
            \/ SwitchEnds
  BY <1>1, <1>9 DEF blk_get_queue, __elevator_change, SwitchBypass, Swap, elv_register_queue,
                     SwitchEnds, flags, reqs, run
<1>10. CASE SwitchDrain
  <2>1. UNCHANGED <<owner, dead, stopped, due, work>>
    BY <1>10, SwitchDrainEffect
  <2>2. ASSUME owner \in New \union {"sync", "put", "gone"} PROVE Empty' /\ fnrun' = {}
    <3>1. Empty /\ fnrun = {}
      BY <2>2 DEF QuietInv
    <3> QED
      BY <1>10, <3>1, SwitchDrainEffect, QuietRound
  <2> QED
    BY <2>1, <2>2 DEF QuietInv, Idling
<1> QED
  BY <1>2, <1>3, <1>4, <1>5, <1>6, <1>7, <1>8, <1>9, <1>10 DEF Next, Owner, Switcher

-----------------------------------------------------------------------------
(* Before its allocation the queue satisfies the invariant.                *)
LEMMA LifeInit == Init => LifeInv
<1> SUFFICES ASSUME Init PROVE LifeInv
  OBVIOUS
<1>1. 0 \in 0 .. MaxInstances /\ Builtin \in Types
  BY LifecycleAssumption
<1>2. StageInv
  BY IdleIs DEF Init, StageInv, Stages
<1>3. Created = {} /\ Live = {}
  BY DEF Init, Created, Live
<1>4. SchedTypes
  BY <1>1, <1>3 DEF Init, SchedTypes
<1>5. SchedInv
  BY <1>3, <1>4, IdleIs DEF Init, SchedInv
<1>6. ReqInv
  BY <1>1, IdleIs DEF Init, ReqInv, Places
<1>7. DepthInv
  <2>1. bypass_depth = 0 /\ bypass = FALSE /\ owner = "none" /\ switch.at = "idle"
    BY IdleIs DEF Init
  <2>2. bypass = (bypass_depth > 0)
    <3>1. (bypass_depth > 0) = FALSE
      BY <2>1
    <3> QED
      BY <2>1, <3>1, Zenon
  <2> QED
    BY <2>1, <2>2 DEF DepthInv, BypassExact
<1>8. QuietInv
  BY DEF Init, QuietInv, Empty, Idling
<1> QED
  BY <1>2, <1>5, <1>6, <1>7, <1>8 DEF LifeInv

(* Every step preserves the invariant.                                     *)
LEMMA LifeStep == LifeInv /\ [Next]_vars => LifeInv'
  BY StageStep, SchedStep, ReqStep, DepthStep, QuietStep DEF LifeInv

(* The invariant holds for ever; fairness is not needed.                   *)
LEMMA LifeInvHolds == Spec => []LifeInv
  BY LifeInit, LifeStep, PTL DEF Spec

(***************************************************************************)
(* bypass_depth counts exactly the new queue, the switch and the clean-up, *)
(* for any number of switches: a dying queue never leaves bypass mode when *)
(* a concurrent elevator_switch calls blk_queue_bypass_end.                *)
(***************************************************************************)
THEOREM BypassCounted == Spec => []BypassExact
<1>1. LifeInv => BypassExact
  BY DEF LifeInv, DepthInv
<1> QED
  BY <1>1, LifeInvHolds, PTL

(***************************************************************************)
(* A request with REQ_ELVPRIV meets the scheduler that gave it its data,   *)
(* and that one is alive, for any number of requests and schedulers: the   *)
(* drain of elevator_switch and of blk_cleanup_queue waits also for those  *)
(* that are allocated and not yet inserted.                                *)
(***************************************************************************)
THEOREM RequestsKeepScheduler == Spec => []RequestsHaveScheduler
<1>1. ASSUME LifeInv PROVE RequestsHaveScheduler
  <2>1. ASSUME NEW r \in Requests, priv[r] # 0 PROVE priv[r] = elevator /\ priv[r] \in Live
    <3>1. priv[r] = elevator /\ switch.at \notin {"swap", "register", "finish", "restore"}
      BY <1>1, <2>1 DEF LifeInv, ReqInv
    <3>2. switch.at \in {"idle", "change", "bypass", "drain"}
      BY <1>1, <3>1 DEF LifeInv, StageInv, Phases
    <3> QED
      BY <1>1, <2>1, <3>1, <3>2 DEF LifeInv, SchedInv
  <2> QED
    BY <1>1, <2>1 DEF LifeInv, ReqInv, RequestsHaveScheduler
<1>2. LifeInv => RequestsHaveScheduler
  BY <1>1
<1> QED
  BY <1>2, LifeInvHolds, PTL

(***************************************************************************)
(* After blk_cleanup_queue there is no request, no work armed or begun and *)
(* no running request_fn, also with a switch still draining and with a     *)
(* queue whose initialisation failed.                                      *)
(***************************************************************************)
THEOREM CleanupLeavesQuiet == Spec => []QuietAfterCleanup
<1>1. LifeInv => QuietAfterCleanup
  BY CountersZero DEF LifeInv, QuietInv, QuietAfterCleanup
<1> QED
  BY <1>1, LifeInvHolds, PTL

(***************************************************************************)
(* The module of a scheduler that is not torn down stays registered, and   *)
(* sysfs shows only such schedulers, over failed initialisations, failed   *)
(* registrations and rmmod at any time.                                    *)
(***************************************************************************)
THEOREM SchedulersInUse == Spec => []SchedulerInUse
<1>1. LifeInv => SchedulerInUse
  BY DEF LifeInv, SchedInv, Holds, SchedulerInUse
<1> QED
  BY <1>1, LifeInvHolds, PTL
=============================================================================
