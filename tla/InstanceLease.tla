---------------------------- MODULE InstanceLease ----------------------------
(***************************************************************************)
(* The operation lock of one instance in cluster mode: the controllers'     *)
(* lock, watch, unlock and reap code (instance.rs) over the lease the       *)
(* replicated state machine keeps (ha/state.rs), reached through the        *)
(* runtime's lease calls (ha/runtime.rs).                                   *)
(*                                                                          *)
(* A lease command commits in one step, in log order, and its answer comes  *)
(* back in a later one or is lost.  The log position of a grant or renewal  *)
(* is its fence.  An operation is a lifecycle request: lock_instance, a DAG *)
(* task, and the watcher that renews the lease until the task ends.         *)
(*                                                                          *)
(* Time is counted in polls of the watcher.  The leader that stamps a       *)
(* command may be up to Drift ahead of the slowest clock, which is now.     *)
(***************************************************************************)
EXTENDS Integers

CONSTANTS
  Controllers,
  Slots,       \* operations a controller may have at once
  Nil,
  Serialized,      \* bound: a controller's lock, unlock and reap calls do not overlap
  Settings     \* bound: the settings a behaviour may have

Ops == Controllers \X (1..Slots)
Of(c) == {o \in Ops : o[1] = c}

SettingsAssumption ==
  \A s \in Settings :
    /\ s \in [ttl : Nat, skew : Nat, drift : Nat, wait : Nat, grace : Nat,
              ticks : Nat, grants : Nat, crashes : Nat]
    /\ s.drift <= s.skew

NilAssumption ==
  Nil \notin Nat \cup [holder : Controllers, fence : Nat, expire : Nat]

\* LEASE_BRIDGE_TIMEOUT_MS is less than RDSCTL_LOCK_LEASE (12 s and 30 s).
WaitAssumption == \A s \in Settings : s.wait < s.ttl

\* Two polls from the last grant to the first failed renewal, one until the next.
MarginAssumption == \A s \in Settings : s.wait = 0 => s.drift + 3 <= s.skew

VARIABLES
  setting,
  now,
  lease,      \* Nil, or the holder, fence and expiry the log has granted
  index,      \* the last fence granted
  opLock,     \* controllers with an op_locks entry
  fence,      \* the controller's fences entry
  lost,       \* the controller's lease_lost entry
  failSince,  \* the controller's lease_fail_since entry
  op,         \* each operation: where it is, since when, until when it holds
  task,       \* operations whose DAG task still executes
  reaping,    \* controllers between the reaper's scan and its release
  crashes

consensus == <<lease, index>>
local == <<opLock, fence, lost, failSince>>
lockVars == <<setting, now, consensus, local, op, task, reaping, crashes>>

TTL == setting.ttl             \* lock_lease
Skew == setting.skew           \* max_skew_ms
Drift == setting.drift         \* bound: how far clocks really differ
Wait == setting.wait           \* bound: ticks a lease call may take
Grace == setting.grace         \* RDSCTL_LEASE_REAP_GRACE_MS
MaxNow == setting.ticks        \* bound: ticks
MaxIndex == setting.grants     \* bound: committed grants and renewals
MaxCrashes == setting.crashes  \* bound: controller crashes

IdleOp == [pc |-> "idle", since |-> 0, until |-> 0]

LockInit ==
  /\ setting \in Settings
  /\ now = 0 /\ lease = Nil /\ index = 0
  /\ opLock = {}
  /\ fence = [c \in Controllers |-> Nil]
  /\ lost = [c \in Controllers |-> "no"]
  /\ failSince = [c \in Controllers |-> Nil]
  /\ op = [o \in Ops |-> IdleOp]
  /\ task = {} /\ reaping = {} /\ crashes = 0

OpAt(o, pc) == op[o].pc = pc
OpGoto(o, pc) == op' = [op EXCEPT ![o].pc = pc]
Enter(o, pc) == op' = [op EXCEPT ![o].pc = pc, ![o].since = now]
EnterRelease(o) == op' = [op EXCEPT ![o] = [pc |-> "releasing", since |-> now, until |-> 0]]

Clock == now..(now + Drift)
HeldBy(c) == lease # Nil /\ lease.holder = c

\* Nothing of c's is inside lock, unlock or reap.
Quiet(c) ==
  /\ c \notin reaping
  /\ \A o \in Of(c) : op[o].pc \notin {"asking", "granted", "releasing", "released"}

-----------------------------------------------------------------------------
(* The state machine's lease commands. *)

\* Mutant: the holder of the lease is not compared.
GrantAllowedToAll(c, at) == TTL >= 10 * Skew

GrantAllowed(c, at) ==
  /\ TTL >= 10 * Skew
  /\ lease # Nil /\ ~HeldBy(c) => at >= lease.expire + Skew

\* Mutant: a grant keeps the fence of the lease it replaces.
ExtendKeepingFence(c, at) ==
  /\ index < MaxIndex
  /\ index' = index + 1
  /\ lease' = [holder |-> c, expire |-> at + TTL,
               fence |-> IF lease = Nil THEN index + 1 ELSE lease.fence]

Extend(c, at) ==
  /\ index < MaxIndex
  /\ index' = index + 1
  /\ lease' = [holder |-> c, fence |-> index + 1, expire |-> at + TTL]

ReleaseHeld(c) == lease' = IF HeldBy(c) THEN Nil ELSE lease

-----------------------------------------------------------------------------
(* lock_instance *)

Lock(o) ==
  /\ OpAt(o, "idle")
  /\ o \notin task
  /\ o[1] \notin opLock
  /\ Serialized => Quiet(o[1])
  /\ Enter(o, "asking")
  /\ UNCHANGED <<now, consensus, local, task, reaping, crashes>>

Grant(o) ==
  /\ OpAt(o, "asking")
  /\ \E at \in Clock : GrantAllowed(o[1], at) /\ Extend(o[1], at)
  /\ OpGoto(o, "granted")
  /\ UNCHANGED <<now, local, task, reaping, crashes>>

\* Refused by the state machine or by the clock check, or the call failed.
LockFails(o) ==
  /\ op[o].pc \in {"asking", "granted"}
  /\ op' = [op EXCEPT ![o] = IdleOp]
  /\ UNCHANGED <<now, consensus, local, task, reaping, crashes>>

\* The fence is read from the local replica once it has applied the grant.
\* lease_fail_since keeps what an earlier operation left in it.
Locked(o) ==
  /\ OpAt(o, "granted")
  /\ lease # Nil
  /\ fence' = [fence EXCEPT ![o[1]] = lease.fence]
  /\ lost' = [lost EXCEPT ![o[1]] = "no"]
  /\ opLock' = opLock \cup {o[1]}
  /\ op' = [op EXCEPT ![o] = [pc |-> "running", since |-> now, until |-> lease.expire]]
  /\ task' = task \cup {o}
  /\ UNCHANGED <<now, consensus, failSince, reaping, crashes>>

-----------------------------------------------------------------------------
(* watch_task and renew_instance_lease *)

TaskEnds(o) ==
  /\ o \in task
  /\ task' = task \ {o}
  /\ UNCHANGED <<now, consensus, local, op, reaping, crashes>>

StartRenew(o) ==
  /\ OpAt(o, "running") /\ o \in task
  /\ Enter(o, "renewing")
  /\ UNCHANGED <<now, consensus, local, task, reaping, crashes>>

RenewCommits(o) ==
  /\ OpAt(o, "renewing")
  /\ HeldBy(o[1])
  /\ \E at \in Clock : Extend(o[1], at)
  /\ OpGoto(o, "renewed")
  /\ UNCHANGED <<now, local, task, reaping, crashes>>

\* After a renewal the watcher looks at lease_lost and goes on, or gives up:
\* it removes the op_locks entry and starts to release.  It leaves the task.
GoOnOrGiveUp(o, until) ==
  IF lost'[o[1]] = "no"
  THEN /\ op' = [op EXCEPT ![o].pc = "running", ![o].until = until]
       /\ UNCHANGED opLock
  ELSE /\ EnterRelease(o)
       /\ opLock' = opLock \ {o[1]}

RenewReturns(o) ==
  /\ OpAt(o, "renewed")
  /\ lease # Nil
  /\ fence' = [fence EXCEPT ![o[1]] = lease.fence]
  /\ failSince' = [failSince EXCEPT ![o[1]] = Nil]
  /\ UNCHANGED lost
  /\ GoOnOrGiveUp(o, lease.expire)
  /\ UNCHANGED <<now, consensus, task, reaping, crashes>>

\* Refused: the lease is not the holder's, or a clock was measured too far off.
RenewRefused(o) ==
  /\ OpAt(o, "renewing")
  /\ lost' = [lost EXCEPT ![o[1]] = "refused"]
  /\ GoOnOrGiveUp(o, op[o].until)
  /\ UNCHANGED <<now, consensus, fence, failSince, task, reaping, crashes>>

FailedTooLong(since) == now - since > TTL

RenewFails(o) ==
  /\ op[o].pc \in {"renewing", "renewed"}
  /\ LET since == IF failSince[o[1]] = Nil THEN now ELSE failSince[o[1]] IN
       /\ failSince' = [failSince EXCEPT ![o[1]] = since]
       /\ lost' = IF FailedTooLong(since)
                  THEN [lost EXCEPT ![o[1]] = "failing"] ELSE lost
  /\ GoOnOrGiveUp(o, op[o].until)
  /\ UNCHANGED <<now, consensus, fence, task, reaping, crashes>>

-----------------------------------------------------------------------------
(* unlock_instance, the reaper, the leader's purge *)

Unlock(o) ==
  /\ OpAt(o, "running") /\ o \notin task
  /\ opLock' = opLock \ {o[1]}
  /\ EnterRelease(o)
  /\ UNCHANGED <<now, consensus, fence, lost, failSince, task, reaping, crashes>>

Release(o) ==
  /\ OpAt(o, "releasing")
  /\ ReleaseHeld(o[1])
  /\ OpGoto(o, "released")
  /\ UNCHANGED <<now, index, local, task, reaping, crashes>>

ReleaseFails(o) ==
  /\ OpAt(o, "releasing")
  /\ OpGoto(o, "released")
  /\ UNCHANGED <<now, consensus, local, task, reaping, crashes>>

Unlocked(o) ==
  /\ OpAt(o, "released")
  /\ fence' = [fence EXCEPT ![o[1]] = Nil]
  /\ op' = [op EXCEPT ![o] = IdleOp]
  /\ UNCHANGED <<now, consensus, opLock, lost, failSince, task, reaping, crashes>>

ReapScan(c) ==
  /\ c \notin reaping
  /\ HeldBy(c)
  /\ \E clock \in Clock : lease.expire <= clock
  /\ c \notin opLock
  /\ Serialized => Quiet(c)
  /\ reaping' = reaping \cup {c}
  /\ UNCHANGED <<now, consensus, local, op, task, crashes>>

ReapReleases(c) ==
  /\ c \in reaping
  /\ ReleaseHeld(c)
  /\ fence' = IF HeldBy(c) THEN [fence EXCEPT ![c] = Nil] ELSE fence
  /\ reaping' = reaping \ {c}
  /\ UNCHANGED <<now, index, opLock, lost, failSince, op, task, crashes>>

ReapFails(c) ==
  /\ c \in reaping
  /\ reaping' = reaping \ {c}
  /\ UNCHANGED <<now, consensus, local, op, task, crashes>>

Purgeable(at) == lease.expire <= at - (Skew + Grace)

Purge ==
  /\ lease # Nil
  /\ \E at \in Clock : Purgeable(at)
  /\ lease' = Nil
  /\ UNCHANGED <<now, index, local, op, task, reaping, crashes>>

-----------------------------------------------------------------------------
Crash(c) ==
  /\ crashes < MaxCrashes
  /\ crashes' = crashes + 1
  /\ opLock' = opLock \ {c}
  /\ fence' = [fence EXCEPT ![c] = Nil]
  /\ lost' = [lost EXCEPT ![c] = "no"]
  /\ failSince' = [failSince EXCEPT ![c] = Nil]
  /\ op' = [o \in Ops |-> IF o \in Of(c) THEN IdleOp ELSE op[o]]
  /\ task' = task \ Of(c)
  /\ reaping' = reaping \ {c}
  /\ UNCHANGED <<now, consensus>>

\* A watcher polls in every tick; a lease call takes at most Wait of them.
\* Time before the first grant changes nothing and is left out.
OnTime(o) ==
  CASE op[o].pc = "idle" -> TRUE
    [] op[o].pc = "running" -> op[o].since = now
    [] OTHER -> now - op[o].since < Wait

Tick ==
  /\ now < MaxNow /\ index > 0
  /\ \A o \in Ops : OnTime(o)
  /\ now' = now + 1
  /\ UNCHANGED <<consensus, local, op, task, reaping, crashes>>

Step ==
  \/ \E o \in Ops :
       \/ Lock(o) \/ Grant(o) \/ LockFails(o) \/ Locked(o)
       \/ TaskEnds(o) \/ StartRenew(o) \/ RenewCommits(o)
       \/ RenewReturns(o) \/ RenewRefused(o) \/ RenewFails(o)
       \/ Unlock(o) \/ Release(o) \/ ReleaseFails(o) \/ Unlocked(o)
  \/ \E c \in Controllers :
       ReapScan(c) \/ ReapReleases(c) \/ ReapFails(c) \/ Crash(c)
  \/ Purge
  \/ Tick

LockNext == Step /\ UNCHANGED setting

LockSpec == LockInit /\ [][LockNext]_lockVars
-----------------------------------------------------------------------------
Pcs == {"idle", "asking", "granted", "running", "renewing", "renewed",
        "releasing", "released"}

\* The values of the log's lease and of the controllers' tables.
LockTypeOK ==
  /\ setting \in Settings
  /\ now \in Nat /\ index \in Nat /\ crashes \in Nat
  /\ lease = Nil \/ lease \in [holder : Controllers, fence : 1..index, expire : Nat]
  /\ opLock \subseteq Controllers
  /\ fence \in [Controllers -> Nat \cup {Nil}]
  /\ lost \in [Controllers -> {"no", "refused", "failing"}]
  /\ failSince \in [Controllers -> Nat \cup {Nil}]
  /\ op \in [Ops -> [pc : Pcs, since : Nat, until : Nat]]
  /\ task \subseteq Ops
  /\ reaping \subseteq Controllers

\* The watcher of o has not given up: its task is meant to act.
Believes(o) == op[o].pc \in {"running", "renewing", "renewed"}

(***************************************************************************)
(* C1: of two controllers at most one acts on an instance, though the one   *)
(* that lost the lease learns it only by failing to renew.                  *)
(***************************************************************************)
OneHolder ==
  \A o, p \in Ops : Believes(o) /\ Believes(p) => o[1] = p[1]

(***************************************************************************)
(* C1 as the code keeps it: while every lease call is answered in the tick  *)
(* it is made.                                                              *)
(***************************************************************************)
OneHolderIfPrompt == Wait = 0 => OneHolder

(***************************************************************************)
(* On one controller, op_locks admits one operation on an instance.         *)
(***************************************************************************)
OneOpPerInstance ==
  \A c \in Controllers : \A o, p \in Of(c) : Believes(o) /\ Believes(p) => o = p

(***************************************************************************)
(* A task left running by a controller that lost the lease carries a fence  *)
(* below the holder's, or none: the executors can tell the two apart.       *)
(***************************************************************************)
FenceOutranks ==
  \A o, p \in Ops :
    Believes(o) /\ HeldBy(o[1]) /\ p \in task /\ p[1] # o[1] /\ fence[p[1]] # Nil
      => fence[o[1]] > fence[p[1]]

(***************************************************************************)
(* Until the expiry its watcher last learnt, an operation's lease is in the *)
(* log: no unlock, reap or purge gives it away.                             *)
(***************************************************************************)
RunningHoldsLease ==
  \A o \in Ops : Believes(o) /\ now < op[o].until => HeldBy(o[1])

(***************************************************************************)
(* A task acts with its own operation's lease: two tasks of a controller    *)
(* never both run while the controller has a fence to send.                 *)
(***************************************************************************)
OneTaskPerFence ==
  \A c \in Controllers : fence[c] # Nil =>
    \A o, p \in task \cap Of(c) : o = p

(***************************************************************************)
(* Failed renewals end an operation only when they have outlasted its       *)
(* lease: a disturbance shorter than the TTL does not.                      *)
(***************************************************************************)
GivesUpLate ==
  [][\A c \in Controllers : lost[c] # "failing" /\ lost'[c] = "failing" =>
       \A o \in Of(c) : Believes(o) => now >= op[o].until]_lockVars
=============================================================================
