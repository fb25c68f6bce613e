------------------------------- MODULE Smunch -------------------------------
(***************************************************************************)
(* The smunch system call (lab8), which stores a set of pending signals in *)
(* a task and wakes it, or releases it when it is a zombie and SIGKILL is  *)
(* in the set.  The repository has three versions: 3_1 without any lock,   *)
(* 3_3 under RCU and with the sighand lock for the store, 3_5 with the     *)
(* sighand lock around its tests.  Init chooses the one that runs; several *)
(* callers aim at one task p, which may start a thread and exit at any     *)
(* time and whose parent may wait for it.  What the versions call          *)
(* (release_task, the exit of a task, RCU) is modelled from their use.     *)
(***************************************************************************)
EXTENDS Integers

CONSTANTS Callers, KillCallers,   \* the calls of smunch, and those with SIGKILL in the set
          NoOne

ASSUME SmunchAssumption ==
  KillCallers \subseteq Callers /\ "wait" \notin Callers /\ NoOne \notin Callers \union {"wait"}

VARIABLES version,    \* which of the three files is built
          traced,     \* p->ptrace & PT_SEIZED
          p,          \* the task; `stray', `orphan': a store came after
                      \* the release, a thread was alive at the release
          siglock,    \* who holds p->sighand->siglock
          rcu,        \* callers inside an RCU read-side critical section
          pc          \* where each caller, and the parent's wait ("wait"), is

vars == <<version, traced, p, siglock, rcu, pc>>

Goto(c, label) == pc' = [pc EXCEPT ![c] = label]
At(c, label) == pc[c] = label
Set(field, v) == p' = [p EXCEPT ![field] = v]
Holding(c) == ~ At(c, "call") /\ ~ At(c, "done")

Init ==
  /\ version \in {"3_1", "3_3", "3_5"} /\ traced \in BOOLEAN
  /\ p = [exit_state |-> "none", threads |-> FALSE, asleep |-> TRUE, pending |-> {},
          released |-> 0, freed |-> FALSE, stray |-> FALSE, orphan |-> FALSE]
  /\ siglock = NoOne /\ rcu = {}
  /\ pc = [c \in Callers \union {"wait"} |-> "call"]

-----------------------------------------------------------------------------
(* What the system call uses (external).                                   *)
found == p.released = 0                 \* find_task_by_vpid, lock_task_sighand succeed
Refused == p.threads \/ traced          \* ! thread_group_empty(p) || p->ptrace & PT_SEIZED
KillsZombie(c) == c \in KillCallers /\ p.exit_state = "ZOMBIE"

(* release_task takes p out of the pid hash and drops its sighand, under   *)
(* the lock; the memory is freed after an RCU grace period.                *)
release_task ==
  /\ siglock = NoOne
  /\ p' = [p EXCEPT !.released = @ + 1, !.orphan = @ \/ p.threads]

(* A store into a task that was released reaches nobody.                   *)
StorePending(c) ==
  p' = [p EXCEPT !.pending = IF c \in KillCallers THEN {"KILL"} ELSE {"USR1"},
                 !.stray = @ \/ p.released > 0]
wake_up_process == Set("asleep", FALSE)

NoSighandTest(c) == siglock = NoOne /\ siglock' = c     \* mutant: locked whoever is left
lock_task_sighand(c) == siglock = NoOne /\ found /\ siglock' = c
sighand_gone == siglock = NoOne /\ ~ found

(* cmpxchg(&p->exit_state, EXIT_ZOMBIE, EXIT_DEAD).                        *)
ReadThenWrite(c) == Set("exit_state", "DEAD") /\ Goto(c, "release")   \* mutant: no cmpxchg
Claim(c) ==
  IF p.exit_state = "ZOMBIE" THEN Set("exit_state", "DEAD") /\ Goto(c, "release")
                             ELSE UNCHANGED p /\ Goto(c, "done")

-----------------------------------------------------------------------------
smunch_3_1(c) ==
  /\ \/ At(c, "call")    /\ Goto(c, IF found THEN "check" ELSE "done") /\ UNCHANGED p
     \/ At(c, "check")   /\ Goto(c, IF Refused THEN "done" ELSE "zombie") /\ UNCHANGED p
     \/ At(c, "zombie")  /\ Goto(c, IF KillsZombie(c) THEN "claim" ELSE "store") /\ UNCHANGED p
     \/ At(c, "claim")   /\ Claim(c)
     \/ At(c, "release") /\ release_task /\ Goto(c, "done")
     \/ At(c, "store")   /\ StorePending(c) /\ Goto(c, "wake")
     \/ At(c, "wake")    /\ wake_up_process /\ Goto(c, "done")
  /\ UNCHANGED <<siglock, rcu>>

(* All returns but the last leave the read-side critical section open.     *)
NoRcu(c) == UNCHANGED rcu                       \* mutant
rcu_read_lock(c) == rcu' = rcu \union {c}
ForgottenOnRefusal(c) ==                        \* mutant: one return lacks it
  rcu' = IF At(c, "refused") THEN rcu ELSE rcu \ {c}
rcu_read_unlock(c) == rcu' = rcu \ {c}

smunch_3_3(c) ==
  \/ /\ At(c, "call") /\ rcu_read_lock(c)
     /\ Goto(c, IF found THEN "check" ELSE "done")
     /\ UNCHANGED <<p, siglock>>
  \/ /\ \/ At(c, "check")   /\ Goto(c, IF Refused THEN "done" ELSE "zombie") /\ UNCHANGED p
        \/ At(c, "zombie")  /\ Goto(c, IF KillsZombie(c) THEN "claim" ELSE "lock") /\ UNCHANGED p
        \/ At(c, "claim")   /\ Claim(c)
        \/ At(c, "release") /\ release_task /\ Goto(c, "done")
     /\ UNCHANGED <<siglock, rcu>>
  \/ /\ At(c, "lock")
     /\ \/ lock_task_sighand(c) /\ Goto(c, "store")
        \/ sighand_gone /\ Goto(c, "wake") /\ UNCHANGED siglock
     /\ UNCHANGED <<p, rcu>>
  \/ /\ At(c, "store") /\ StorePending(c)
     /\ siglock' = NoOne /\ Goto(c, "wake") /\ UNCHANGED rcu
  \/ /\ At(c, "wake") /\ wake_up_process /\ rcu_read_unlock(c)
     /\ Goto(c, "done") /\ UNCHANGED siglock

(* The tests are made under the lock; it is dropped before release_task.   *)
UnlockToRelease(c) == siglock' = NoOne /\ Goto(c, "release")

LateLock(c) == siglock' = NoOne                 \* mutant: the tests run without the lock
LockForTests(c) == siglock' = c

(* Each of its four ways out ends the read-side critical section itself.   *)
Leaving == {"refused", "reaped", "woken", "missed"}
Return(c, way) ==
  At(c, way) /\ rcu_read_unlock(c) /\ Goto(c, "done") /\ UNCHANGED <<p, siglock>>

smunch_3_5(c) ==
  \/ /\ At(c, "call") /\ rcu_read_lock(c)
     /\ Goto(c, IF found THEN "lock" ELSE "missed")
     /\ UNCHANGED <<p, siglock>>
  \/ /\ At(c, "lock")
     /\ \/ siglock = NoOne /\ found /\ LockForTests(c) /\ Goto(c, "check")
        \/ sighand_gone /\ Goto(c, "missed") /\ UNCHANGED siglock
     /\ UNCHANGED <<p, rcu>>
  \/ /\ At(c, "check")
     /\ IF Refused THEN siglock' = NoOne /\ Goto(c, "refused")
                   ELSE Goto(c, "zombie") /\ UNCHANGED siglock
     /\ UNCHANGED <<p, rcu>>
  \/ /\ At(c, "zombie")
     /\ IF KillsZombie(c) THEN UnlockToRelease(c) ELSE Goto(c, "store") /\ UNCHANGED siglock
     /\ UNCHANGED <<p, rcu>>
  \/ At(c, "release") /\ release_task /\ Goto(c, "reaped") /\ UNCHANGED <<siglock, rcu>>
  \/ At(c, "store") /\ StorePending(c) /\ siglock' = NoOne /\ Goto(c, "wake") /\ UNCHANGED rcu
  \/ At(c, "wake") /\ wake_up_process /\ Goto(c, "woken") /\ UNCHANGED <<siglock, rcu>>
  \/ Return(c, "refused") \/ Return(c, "reaped") \/ Return(c, "woken") \/ Return(c, "missed")

smunch(c) ==
  /\ \/ version = "3_1" /\ smunch_3_1(c)
     \/ version = "3_3" /\ smunch_3_3(c)
     \/ version = "3_5" /\ smunch_3_5(c)
  /\ UNCHANGED <<version, traced>>

-----------------------------------------------------------------------------
(* The task and its parent (external).  A thread joins the group under the *)
(* sighand lock; the exit of the leader makes it a zombie at once.         *)
Clone == siglock = NoOne /\ p.exit_state = "none" /\ ~ p.threads /\ Set("threads", TRUE)
ThreadExits == p.threads /\ Set("threads", FALSE)
Exit == p.exit_state = "none" /\ Set("exit_state", "ZOMBIE")
TakeSignal == p.exit_state = "none" /\ ~ p.asleep /\ p.pending # {} /\ siglock = NoOne
              /\ p' = [p EXCEPT !.pending = {}, !.asleep = TRUE,
                                !.exit_state = IF "KILL" \in p.pending THEN "ZOMBIE" ELSE @]
Task == (Clone \/ ThreadExits \/ Exit \/ TakeSignal) /\ UNCHANGED <<version, traced, siglock, rcu, pc>>

Wait ==
  /\ \/ At("wait", "call") /\ p.exit_state = "ZOMBIE" /\ ~ p.threads /\ Claim("wait")
     \/ At("wait", "release") /\ release_task /\ Goto("wait", "done")
  /\ UNCHANGED <<version, traced, siglock, rcu>>

GracePeriod ==
  /\ p.released > 0 /\ rcu = {} /\ ~ p.freed
  /\ Set("freed", TRUE)
  /\ UNCHANGED <<version, traced, siglock, rcu, pc>>

Next == (\E c \in Callers : smunch(c)) \/ Task \/ Wait \/ GracePeriod

Fairness == WF_vars(GracePeriod) /\ \A c \in Callers : WF_vars(smunch(c))
Spec == Init /\ [][Next]_vars /\ Fairness

-----------------------------------------------------------------------------
(* Versions 3_1 and 3_3 claim EXIT_DEAD before they release: neither two   *)
(* calls nor a call and the parent's wait release the task twice.          *)
ReleasedOnce == version \in {"3_1", "3_3"} => p.released <= 1

(* Versions 3_3 and 3_5 hold p inside an RCU read-side critical section:   *)
(* it is not freed under them, whoever releases it.                        *)
NoUseAfterFree ==
  version \in {"3_3", "3_5"} => \A c \in Callers : Holding(c) /\ ~ At(c, "missed") => ~ p.freed

(* Versions 3_3 and 3_5 store the signals only in a task that still has    *)
(* its sighand, however the release races with the call.                   *)
NoStrayStore == version \in {"3_3", "3_5"} => ~ p.stray

(* Version 3_5 never releases a thread group's leader while a thread of    *)
(* the group is alive, also when it is started during the call.            *)
LeaderKept == version = "3_5" => ~ p.orphan

(* With version 3_5 a released task's memory is freed: none of its return  *)
(* paths, each with an unlock of its own, leaves a read-side critical      *)
(* section open, whichever way every caller takes.                         *)
ReleasedIsFreed == [](version = "3_5" /\ p.released > 0 => <>p.freed)
=============================================================================
