------------------------------- MODULE MCRaft -------------------------------
(***************************************************************************)
(* Instances of Raft for TLC: three voters, and a budget of events for each *)
(* question.  ElectionMessages leaves replication messages undelivered (as  *)
(* if lost), which makes room for more crashes, step-downs and elections.   *)
(***************************************************************************)
EXTENDS Raft, TLC

Symmetry == Permutations(Voters)

ElectionMessages == {"RequestVote", "RequestVoteResp", "TimeoutNow"}

LogMessages == ElectionMessages \cup {"AppendEntries", "AppendEntriesResp"}

AllMessages == LogMessages \cup {"InstallSnapshot", "InstallSnapshotResp"}

EventBudget(t, h, d, r, f, a) ==
  [timeout |-> t, heartbeat |-> h, stepDown |-> d, restart |-> r,
   hardFail |-> f, appendFail |-> a]

ElectionBudget == EventBudget(2, 1, 0, 1, 1, 1)

UnrecordedTermBudget == EventBudget(2, 0, 0, 0, 1, 0)

-----------------------------------------------------------------------------
(***************************************************************************)
(* The replication questions start later: n1 won term 1, its followers hold *)
(* a prefix of its log and it knows so; earlier messages are gone.          *)
(***************************************************************************)
CONSTANTS n1, n2, n3, a

\* l won the term of the last entry of full with u's vote: len[v] entries of full
\* are in v's log, done[v] of them committed and applied there.
LedBy(l, u, full, len, done, used) ==
  LET t == LastTerm(full)
      Held(k) == SubSeq(full, 1, k)
  IN /\ hard = [v \in Voters |-> [term |-> t, vote |-> l]]
     /\ disk = hard
     /\ soft = [v \in Voters |->
          IF v = l THEN [role |-> "Leader", campaign |-> "Vote",
                         votes |-> {l, u}, pre |-> {}, leader |-> l]
          ELSE FollowerOf(l)]
     /\ log = [v \in Voters |-> Held(len[v])]
     /\ snap = [v \in Voters |-> [index |-> 0, term |-> 0, sm |-> <<>>]]
     /\ commit = done
     /\ sm = [v \in Voters |-> Held(done[v])]
     /\ next = [v \in Voters |->
          [w \in Voters |-> IF v = l THEN Greatest(len[w], 1) + 1 ELSE 0]]
     /\ match = [v \in Voters |->
          [w \in Voters |-> IF v = l THEN len[w] ELSE 0]]
     /\ msgs = {}
     /\ ballots = {[voter |-> v, term |-> t, cand |-> l] : v \in Voters}
     /\ elected = {[term |-> t, leader |-> l]}
     /\ spent = used

LedByN1Having(len, done, used) ==
  LedBy(n1, n2, [i \in 1..3 |-> Entry(i, 1, IF i = 1 THEN Noop ELSE a)],
        len, done, used)

LedByN1(len, done) == LedByN1Having(len, done, [e \in Events |-> 0])

At3(x, y, z) == (n1 :> x) @@ (n2 :> y) @@ (n3 :> z)

FollowerSymmetry == Permutations({n2, n3})

\* Elections from the first start, and those a leader of term 2 may disturb once
\* every replica has applied the no-ops of both terms and may compact its log.
ElectionInit ==
  \/ Init
  \/ \E l, u \in Voters :
       /\ l # u
       /\ LedBy(l, u, [i \in 1..2 |-> Entry(i, i, Noop)],
                [v \in Voters |-> 2], [v \in Voters |-> 2],
                EventBudget(1, 0, 0, 0, 0, 0))

ElectionSpec == ElectionInit /\ [][Next]_vars

\* A state constraint: heartbeats, whose answers are not delivered here, are of
\* interest from the second start only.
HeartbeatsWhenSettled ==
  spent["heartbeat"] > 0 => \E v \in Voters : commit[v] > 0

DivergenceBudget == EventBudget(2, 0, 0, 0, 0, 0)

DivergenceInit == LedByN1(At3(3, 1, 1), At3(1, 0, 0))

DivergenceSpec == DivergenceInit /\ [][Next]_vars
=============================================================================
