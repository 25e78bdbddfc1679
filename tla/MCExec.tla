------------------------------- MODULE MCExec -------------------------------
(***************************************************************************)
(* The two guards of an operation's commands: the instance lock of the       *)
(* controllers (InstanceLease) and the fence of the agents (FenceGuard).     *)
(* A behaviour is one of one guard; the variables of the other are idle.     *)
(***************************************************************************)
EXTENDS FenceGuard, InstanceLease, TLC

VARIABLE part

execVars == <<part, vars, lockVars>>

-----------------------------------------------------------------------------
(* Calls of two successive holders of one shard and of another shard, some   *)
(* sent with a retry key; two connections, a failing disk, a killed agent    *)
(* and a power loss.                                                         *)
Call(shard, rank, idem) == [fence |-> [shard |-> shard, rank |-> rank], idem |-> idem]
SerialCalls == {Call(0, 1, None), Call(0, 2, "k1"), Call(1, 2, None),
                [fence |-> None, idem |-> "k1"]}
AgentLimits == [arrivals |-> 4, faults |-> 1, kills |-> 1, losses |-> 1]

With(ttl, skew, drift, wait, ticks, grants, crashed) ==
  [ttl |-> ttl, skew |-> skew, drift |-> drift, wait |-> wait, grace |-> 0,
   ticks |-> ticks, grants |-> grants, crashes |-> crashed]

\* Clocks one tick apart and a crash, every lease call answered at once; and lease calls
\* slow enough for two holders to overlap.
Contended == {With(40, 4, 1, 0, 45, 2, 1), With(10, 1, 0, 1, 12, 3, 0)}
Unused == With(10, 3, 0, 0, 0, 0, 0)
LeaseSettings == Contended \cup {Unused}

ASSUME BoundsAssumption ==
  SettingsAssumption /\ NilAssumption /\ WaitAssumption /\ MarginAssumption

Symmetry == Permutations(Controllers)

-----------------------------------------------------------------------------
ExecInit ==
  /\ part \in {"guard", "lock"}
  /\ Init
  /\ LockInit /\ (part = "lock" <=> setting # Unused)

ExecNext ==
  \/ part = "guard" /\ Next /\ UNCHANGED <<part, lockVars>>
  \/ part = "lock" /\ LockNext /\ UNCHANGED <<part, vars>>

ExecSpec == ExecInit /\ [][ExecNext]_execVars
=============================================================================
