------------------------- MODULE MCRaftReplication -------------------------
(***************************************************************************)
(* RaftClient for TLC, from two states n1 leads term 1 in: one in which it  *)
(* holds its no-op alone, and one in which its log may be compacted.        *)
(***************************************************************************)
EXTENDS RaftClient, MCRaft

\* A behaviour asks about client writes or about snapshots: while clients
\* write, no log reaches the threshold; while logs are compacted, none write
\* and no other term begins.
VARIABLE question

ReplicationBudget == EventBudget(1, 2, 1, 1, 0, 1)

ReplicationInit ==
  /\ \/ /\ question = "writes"
        /\ LedByN1Having(At3(1, 1, 1), At3(1, 0, 0),
                         EventBudget(0, 2, 0, 0, 0, 1))
     \/ /\ question = "snapshots"
        /\ LedByN1Having(At3(3, 3, 1), At3(2, 2, 0),
                         EventBudget(1, 0, 0, 0, 0, 0))
  /\ ClientInit

ReplicationNext ==
  /\ ClientNext
  /\ question = "writes" =>
       UNCHANGED snap /\ \A n \in Voters : LastIndex(log'[n]) <= 2
  /\ question = "snapshots" =>
       waiting' = {} /\ \A n \in Voters : hard'[n].term = 1
  /\ UNCHANGED question

ReplicationSpec ==
  ReplicationInit /\ [][ReplicationNext]_<<vars, clientVars, question>>

-----------------------------------------------------------------------------
\* A writer whose leader is deposed before its entry is replicated.
TakeoverBudget == EventBudget(1, 1, 0, 0, 0, 0)

TakeoverInit ==
  LedByN1(At3(1, 1, 1), At3(1, 0, 0)) /\ ClientInit /\ question = "writes"

TakeoverSpec ==
  TakeoverInit /\ [][ClientNext /\ UNCHANGED question]_<<vars, clientVars, question>>
=============================================================================
