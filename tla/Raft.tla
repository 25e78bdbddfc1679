-------------------------------- MODULE Raft --------------------------------
(***************************************************************************)
(* One shard's consensus group: src/src/ha/raft.rs over the entry list of   *)
(* src/src/ha/log.rs.                                                       *)
(*                                                                          *)
(* Every action is one call made under the node's mutex: a tick, an inbound *)
(* message, a proposal followed by its flush, a step-down, a snapshot, or a *)
(* crash followed by Node::open.  Time is abstracted: an election deadline  *)
(* may pass at any moment and "a heartbeat was heard recently" is a free    *)
(* choice.  The network keeps every message ever sent, so a message may be  *)
(* lost, delayed, reordered or delivered more than once.                    *)
(***************************************************************************)
EXTENDS Integers, Sequences, FiniteSets

CONSTANTS
  Voters,          \* RaftConfig.voters
  Ops,             \* client operations
  Noop,            \* Op::Noop
  None,            \* Option::None
  SnapThreshold,   \* RaftConfig.snapshot_entry_threshold (0 = never)
  MaxBatch,        \* RaftConfig.max_entries_per_append
  MaxTerm,         \* bound: highest term an election may start
  MaxIndex,        \* bound: highest index a leader may append
  Delivered,       \* bound: the kinds of message the network delivers
  Budget           \* bound: how often each of Events happens in a behaviour

\* Deadlines that pass, heartbeat rounds, step-downs, crashes, failed writes of
\* hard_state.json and failed appends to the log.
Events == {"timeout", "heartbeat", "stepDown", "restart", "hardFail",
           "appendFail"}

ASSUME VotersAssumption == IsFiniteSet(Voters) /\ Cardinality(Voters) \in Nat
ASSUME NoneAssumption == None \notin Voters
ASSUME BoundsAssumption ==
  /\ {SnapThreshold, MaxBatch, MaxTerm, MaxIndex} \subseteq Nat
  /\ Budget \in [Events -> Nat]

VARIABLES
  hard,       \* [term, vote] in memory
  disk,       \* [term, vote] in hard_state.json
  soft,       \* [role, campaign, votes, pre, leader]
  log,        \* Log.entries: [index, term, op], contiguous
  snap,       \* the snapshot file: [index, term, sm]; index 0 = no file
  commit,     \* commit_index
  sm,         \* the entries the state machine has applied, in order
  next,       \* next_index
  match,      \* match_index
  msgs,       \* every message ever sent
  ballots,    \* history: [voter, term, cand] for every vote on disk
  elected,    \* history: [term, leader] for every become_leader
  spent       \* how much of Budget is used

hardVars == <<hard, disk, ballots>>
logVars == <<log, snap, commit, sm>>
leaderVars == <<next, match>>
vars == <<hardVars, soft, logVars, leaderVars, msgs, elected, spent>>

-----------------------------------------------------------------------------
(* The entry list of log.rs. *)

\* Mutant: an empty list is given a sentinel below zero.
LastIndexSentinel(l) == IF l = <<>> THEN -1 ELSE l[Len(l)].index

LastIndex(l) == IF l = <<>> THEN 0 ELSE l[Len(l)].index

LastTerm(l) == IF l = <<>> THEN 0 ELSE l[Len(l)].term

FirstIndex(l) == IF l = <<>> THEN 1 ELSE l[1].index

Has(l, i) == l # <<>> /\ i >= l[1].index /\ i - l[1].index < Len(l)

At(l, i) == l[i - l[1].index + 1]

TermAt(l, i) == IF Has(l, i) THEN At(l, i).term ELSE 0

EntriesFrom(l, i) ==
  IF i < FirstIndex(l) THEN l ELSE SubSeq(l, i - FirstIndex(l) + 1, Len(l))

TruncateSuffix(l, i) ==
  IF i > LastIndex(l) THEN l ELSE SubSeq(l, 1, i - FirstIndex(l))

CompactUpto(l, i) == EntriesFrom(l, i + 1)

\* Mutant: the batch is appended wherever it starts.
ContinuesAlways(l, batch) == TRUE

\* append_batch refuses a batch that does not continue the list.
Continues(l, batch) == batch # <<>> => batch[1].index = LastIndex(l) + 1

-----------------------------------------------------------------------------
(* Configuration and messages. *)

Majority == Cardinality(Voters) \div 2 + 1

Others(n) == Voters \ {n}

Least(a, b) == IF a <= b THEN a ELSE b

Greatest(a, b) == IF a >= b THEN a ELSE b

RequestVote(n, to, t, l, pre) ==
  [type |-> "RequestVote", from |-> n, to |-> to, term |-> t,
   lastIndex |-> LastIndex(l), lastTerm |-> LastTerm(l), pre |-> pre]

\* The answer to a probe and the answer to a vote are the same message.
RequestVoteResp(n, to, t, granted) ==
  [type |-> "RequestVoteResp", from |-> n, to |-> to, term |-> t,
   granted |-> granted]

AppendResp(n, to, t, success, matched, conflict) ==
  [type |-> "AppendEntriesResp", from |-> n, to |-> to, term |-> t,
   success |-> success, match |-> matched, conflict |-> conflict]

SnapshotResp(n, to, t, index) ==
  [type |-> "InstallSnapshotResp", from |-> n, to |-> to, term |-> t,
   index |-> index]

TimeoutNow(n, to, t) ==
  [type |-> "TimeoutNow", from |-> n, to |-> to, term |-> t]

\* append_for: what leader n, in term t with log l, sends a peer whose next
\* index is i.
AppendFor(n, to, t, l, i) ==
  IF i <= snap[n].index /\ snap[n].index > 0
  THEN [type |-> "InstallSnapshot", from |-> n, to |-> to, term |-> t,
        snap |-> snap[n]]
  ELSE LET prev == IF i = 0 THEN 0 ELSE i - 1
           tail == EntriesFrom(l, i)
       IN [type |-> "AppendEntries", from |-> n, to |-> to, term |-> t,
           prevIndex |-> prev,
           prevTerm |-> IF prev = 0 THEN 0
                        ELSE IF prev = snap[n].index THEN snap[n].term
                        ELSE TermAt(l, prev),
           entries |-> SubSeq(tail, 1, Least(Len(tail), MaxBatch)),
           commit |-> commit[n]]

Broadcast(n, t, l, nx) ==
  {AppendFor(n, p, t, l, nx[p]) : p \in Others(n)}

AskVotes(n, t, pre) ==
  {RequestVote(n, p, t, log[n], pre) : p \in Others(n)}

Spend(e) ==
  spent[e] < Budget[e] /\ spent' = [spent EXCEPT ![e] = @ + 1]

Send(ms) == msgs' = msgs \cup ms

\* The answer to a candidate that asked in term t.  The candidate drops an
\* answer that is neither granted in term t nor of a higher term, and its term
\* only grows, so such an answer need not travel.
Answer(r, t) ==
  Send(IF r.term > t \/ (r.granted /\ r.term = t) THEN {r} ELSE {})

\* Mutant: the lengths of the logs are not compared.
UpToDateByTerm(m, l) == m.lastTerm >= LastTerm(l)

UpToDate(m, l) ==
  IF m.lastTerm # LastTerm(l) THEN m.lastTerm > LastTerm(l)
  ELSE m.lastIndex >= LastIndex(l)

-----------------------------------------------------------------------------
(* State changes shared by the handlers. *)

FollowerOf(leader) ==
  [role |-> "Follower", campaign |-> "None", votes |-> {}, pre |-> {},
   leader |-> leader]

\* Mutant: the vote is dropped on a message of the same term too.
SeenAgain(n, t) ==
  IF t >= hard[n].term THEN [term |-> t, vote |-> None] ELSE hard[n]

\* The rule every handler but a probe's starts with: a higher term makes the
\* node a follower of nobody in that term, with no vote.
Seen(n, t) ==
  IF t > hard[n].term THEN [term |-> t, vote |-> None] ELSE hard[n]

SoftSeen(n, t) ==
  IF t > hard[n].term THEN FollowerOf(None) ELSE soft[n]

Ballot(n, h) == [voter |-> n, term |-> h.term, cand |-> h.vote]

\* Mutant: the file is never rewritten.
PersistInMemory(n, h, written) ==
  /\ hard' = [hard EXCEPT ![n] = h]
  /\ disk' = disk
  /\ ballots' = IF written /\ h.vote # None
                THEN ballots \cup {Ballot(n, h)} ELSE ballots

\* hard_state.json is rewritten only when persist_hard_state is called.
Persist(n, h, written) ==
  /\ hard' = [hard EXCEPT ![n] = h]
  /\ disk' = IF written THEN [disk EXCEPT ![n] = h] ELSE disk
  /\ ballots' = IF written /\ h.vote # None
                THEN ballots \cup {Ballot(n, h)} ELSE ballots

Observe(n, t) == Persist(n, Seen(n, t), t > hard[n].term)

\* start_election, from whatever term t the node is in.
StartElection(n, t) ==
  /\ t < MaxTerm
  /\ Persist(n, [term |-> t + 1, vote |-> n], TRUE)
  /\ soft' = [soft EXCEPT ![n] =
       [role |-> "Candidate", campaign |-> "Vote", votes |-> {n},
        pre |-> {}, leader |-> None]]
  /\ Send(AskVotes(n, t + 1, FALSE))

\* apply_committed: apply, in order, what the log holds up to index c.
ApplyCommitted(s, l, c) ==
  IF c > Len(s) /\ Has(l, Len(s) + 1)
  THEN s \o SubSeq(EntriesFrom(l, Len(s) + 1), 1,
                   Least(c, LastIndex(l)) - Len(s))
  ELSE s

Entry(i, t, op) == [index |-> i, term |-> t, op |-> op]

\* Mutant: the new entry is stamped with the term of the last one.
WithOpStamped(n, op) ==
  Append(log[n], Entry(LastIndex(log[n]) + 1, Greatest(LastTerm(log[n]), 1), op))

\* append_local's new list.
WithOp(n, op) ==
  Append(log[n], Entry(LastIndex(log[n]) + 1, hard[n].term, op))

\* become_leader: fresh progress tables, then an empty op.
BecomeLeader(n, votes) ==
  LET last == LastIndex(log[n])
      nx == [v \in Voters |-> last + 1]
  IN /\ last < MaxIndex
     /\ soft' = [soft EXCEPT ![n] =
                    [@ EXCEPT !.role = "Leader", !.leader = n, !.votes = votes]]
     /\ elected' = elected \cup {[term |-> hard[n].term, leader |-> n]}
     /\ next' = [next EXCEPT ![n] = nx]
     /\ \/ /\ log' = [log EXCEPT ![n] = WithOp(n, Noop)]
           /\ match' = [match EXCEPT ![n] =
                          [v \in Voters |-> IF v = n THEN last + 1 ELSE 0]]
           /\ Send(Broadcast(n, hard[n].term, WithOp(n, Noop), nx))
           /\ UNCHANGED spent
        \/ \* the append fails: a leader without its empty op, nothing sent
           /\ Spend("appendFail")
           /\ match' = [match EXCEPT ![n] = [v \in Voters |-> 0]]
           /\ UNCHANGED <<log, msgs>>

-----------------------------------------------------------------------------
Init ==
  /\ hard = [n \in Voters |-> [term |-> 0, vote |-> None]]
  /\ disk = hard
  /\ soft = [n \in Voters |-> FollowerOf(None)]
  /\ log = [n \in Voters |-> <<>>]
  /\ snap = [n \in Voters |-> [index |-> 0, term |-> 0, sm |-> <<>>]]
  /\ commit = [n \in Voters |-> 0]
  /\ sm = [n \in Voters |-> <<>>]
  /\ next = [n \in Voters |-> [v \in Voters |-> 0]]
  /\ match = [n \in Voters |-> [v \in Voters |-> 0]]
  /\ msgs = {} /\ ballots = {} /\ elected = {}
  /\ spent = [e \in Events |-> 0]

(* tick *)

\* The election deadline passed: probe for a majority, term unchanged.
Timeout(n) ==
  /\ soft[n].role # "Leader"
  /\ hard[n].term < MaxTerm
  /\ Spend("timeout")
  /\ soft' = [soft EXCEPT ![n] =
       [role |-> "Candidate", campaign |-> "PreVote", votes |-> {},
        pre |-> {n}, leader |-> None]]
  /\ Send(AskVotes(n, hard[n].term + 1, TRUE))
  /\ UNCHANGED <<hardVars, logVars, leaderVars, elected>>

Heartbeat(n) ==
  /\ soft[n].role = "Leader"
  /\ Spend("heartbeat")
  /\ Send(Broadcast(n, hard[n].term, log[n], next[n]))
  /\ UNCHANGED <<hardVars, soft, logVars, leaderVars, elected>>

(* Elections *)

\* alive: leader_id is set and a heartbeat was heard within the window.
HandlePreVote(n, m) ==
  /\ m.type = "RequestVote" /\ m.pre
  /\ \E alive \in BOOLEAN :
       /\ alive => soft[n].leader # None
       /\ Answer(RequestVoteResp(n, m.from, hard[n].term,
                   m.term > hard[n].term /\ UpToDate(m, log[n]) /\ ~alive),
                 m.term - 1)
  /\ UNCHANGED <<hardVars, soft, logVars, leaderVars, elected, spent>>

HandleRequestVote(n, m) ==
  LET h == Seen(n, m.term)
      granted == m.term = h.term /\ h.vote \in {None, m.from}
                   /\ UpToDate(m, log[n])
  IN /\ m.type = "RequestVote" /\ ~m.pre
     /\ Persist(n, IF granted THEN [h EXCEPT !.vote = m.from] ELSE h,
                granted \/ m.term > hard[n].term)
     /\ soft' = [soft EXCEPT ![n] = SoftSeen(n, m.term)]
     /\ Answer(RequestVoteResp(n, m.from, h.term, granted), m.term)
     /\ UNCHANGED <<logVars, leaderVars, elected, spent>>

\* Mutant: the answer's term is not compared.
CountsAnyTerm(n, m) ==
  /\ m.type = "RequestVoteResp" /\ m.granted
  /\ soft[n].role = "Candidate"

\* A granted answer of this term, to a node still campaigning.
Counts(n, m) ==
  /\ m.type = "RequestVoteResp" /\ m.granted
  /\ m.term = hard[n].term
  /\ soft[n].role = "Candidate"

HandleProbeGranted(n, m) ==
  LET pre == soft[n].pre \cup {m.from}
  IN /\ Counts(n, m) /\ soft[n].campaign = "PreVote"
     /\ IF Cardinality(pre) >= Majority
        THEN StartElection(n, hard[n].term)
        ELSE /\ soft' = [soft EXCEPT ![n].pre = pre]
             /\ UNCHANGED <<hardVars, msgs>>
     /\ UNCHANGED <<logVars, leaderVars, elected, spent>>

HandleVoteGranted(n, m) ==
  LET votes == soft[n].votes \cup {m.from}
  IN /\ Counts(n, m) /\ soft[n].campaign = "Vote"
     /\ Cardinality(votes) < Majority
     /\ soft' = [soft EXCEPT ![n].votes = votes]
     /\ UNCHANGED <<hardVars, logVars, leaderVars, msgs, elected, spent>>

HandleLastVote(n, m) ==
  LET votes == soft[n].votes \cup {m.from}
  IN /\ Counts(n, m) /\ soft[n].campaign = "Vote"
     /\ Cardinality(votes) >= Majority
     /\ BecomeLeader(n, votes)
     /\ UNCHANGED <<hardVars, snap, commit, sm>>

\* Any other answer is dropped, after its term was noticed.
HandleVoteIgnored(n, m) ==
  /\ m.type = "RequestVoteResp"
  /\ m.term > hard[n].term
  /\ Observe(n, m.term)
  /\ soft' = [soft EXCEPT ![n] = FollowerOf(None)]
  /\ UNCHANGED <<logVars, leaderVars, msgs, elected, spent>>

HandleTimeoutNow(n, m) ==
  /\ m.type = "TimeoutNow"
  /\ m.term >= hard[n].term
  /\ StartElection(n, m.term)
  /\ UNCHANGED <<logVars, leaderVars, elected, spent>>

(* Replication *)

\* propose_with_flush on the leader: append the op, then broadcast.
Propose(n, op) ==
  /\ soft[n].role = "Leader"
  /\ LastIndex(log[n]) < MaxIndex
  /\ log' = [log EXCEPT ![n] = WithOp(n, op)]
  /\ match' = [match EXCEPT ![n][n] = LastIndex(log[n]) + 1]
  /\ Send(Broadcast(n, hard[n].term, WithOp(n, op), next[n]))
  /\ UNCHANGED <<hardVars, soft, snap, commit, sm, next, elected, spent>>

\* prev must agree with the local list, or with the snapshot it follows.
PrevAgrees(n, m) ==
  m.prevIndex > 0 =>
     IF m.prevIndex = snap[n].index THEN m.prevTerm = snap[n].term
     ELSE Has(log[n], m.prevIndex) /\ TermAt(log[n], m.prevIndex) = m.prevTerm

\* Only the first entry is compared with the local list ...
Kept(n, m) ==
  LET i == m.entries[1].index
  IN IF m.entries # <<>> /\ Has(log[n], i)
          /\ TermAt(log[n], i) # m.entries[1].term
     THEN TruncateSuffix(log[n], i) ELSE log[n]

\* ... and every entry whose index is already held is skipped.  (A batch that
\* starts before a compacted list is refused by Continues as a whole.)
Pending(n, m) ==
  IF FirstIndex(m.entries) < FirstIndex(Kept(n, m)) THEN m.entries
  ELSE EntriesFrom(m.entries, LastIndex(Kept(n, m)) + 1)

HandleAppendStale(n, m) ==
  /\ m.type = "AppendEntries" /\ m.term < hard[n].term
  /\ Send({AppendResp(n, m.from, hard[n].term, FALSE, 0, LastIndex(log[n]))})
  /\ UNCHANGED <<hardVars, soft, logVars, leaderVars, elected, spent>>

HandleAppendMismatch(n, m) ==
  /\ m.type = "AppendEntries" /\ m.term >= hard[n].term
  /\ ~PrevAgrees(n, m)
  /\ Observe(n, m.term)
  /\ soft' = [soft EXCEPT ![n] = FollowerOf(m.from)]
  /\ Send({AppendResp(n, m.from, m.term, FALSE, 0,
              Least(Greatest(FirstIndex(log[n]) - 1, 1),
                    Greatest(m.prevIndex, 1)))})
  /\ UNCHANGED <<logVars, leaderVars, elected, spent>>

HandleAppend(n, m) ==
  LET l == Kept(n, m) \o Pending(n, m)
      c == Least(m.commit, LastIndex(l))
  IN /\ m.type = "AppendEntries" /\ m.term >= hard[n].term
     /\ PrevAgrees(n, m) /\ Continues(Kept(n, m), Pending(n, m))
     /\ Observe(n, m.term)
     /\ soft' = [soft EXCEPT ![n] = FollowerOf(m.from)]
     /\ log' = [log EXCEPT ![n] = l]
     /\ commit' = [commit EXCEPT ![n] = Greatest(@, c)]
     /\ sm' = [sm EXCEPT ![n] =
                 IF c > commit[n] THEN ApplyCommitted(@, l, c) ELSE @]
     /\ Send({AppendResp(n, m.from, m.term, TRUE, LastIndex(l), 0)})
     /\ UNCHANGED <<snap, leaderVars, elected, spent>>

\* append_batch failed, because the entries do not continue the list or
\* because the disk refused them: the handler gives up without an answer.
HandleAppendRefused(n, m) ==
  /\ m.type = "AppendEntries" /\ m.term >= hard[n].term
  /\ PrevAgrees(n, m) /\ Pending(n, m) # <<>>
  /\ \/ ~Continues(Kept(n, m), Pending(n, m)) /\ UNCHANGED spent
     \/ Spend("appendFail")
  /\ Observe(n, m.term)
  /\ soft' = [soft EXCEPT ![n] = FollowerOf(m.from)]
  /\ log' = [log EXCEPT ![n] = Kept(n, m)]
  /\ UNCHANGED <<snap, commit, sm, leaderVars, msgs, elected>>

\* advance_commit: the highest index of this term that a majority holds.
AdvanceCommit(n, mt) ==
  LET held(i) == Cardinality({v \in Voters : mt[v] >= i}) >= Majority
      S == {i \in (commit[n] + 1)..LastIndex(log[n]) :
              TermAt(log[n], i) = hard[n].term /\ held(i)}
  IN IF S = {} THEN commit[n] ELSE CHOOSE i \in S : \A j \in S : j <= i

HandleAppendAccepted(n, m) ==
  LET mt == [match[n] EXCEPT ![m.from] = m.match]
      c == AdvanceCommit(n, mt)
  IN /\ m.type = "AppendEntriesResp" /\ m.success
     /\ soft[n].role = "Leader" /\ m.term = hard[n].term
     /\ match' = [match EXCEPT ![n] = mt]
     /\ next' = [next EXCEPT ![n][m.from] = m.match + 1]
     /\ commit' = [commit EXCEPT ![n] = c]
     /\ sm' = [sm EXCEPT ![n] = ApplyCommitted(@, log[n], c)]
     /\ UNCHANGED <<hardVars, soft, log, snap, msgs, elected, spent>>

HandleAppendRejected(n, m) ==
  LET i == Greatest(Least(next[n][m.from], m.conflict), snap[n].index + 1)
  IN /\ m.type = "AppendEntriesResp" /\ ~m.success
     /\ soft[n].role = "Leader" /\ m.term = hard[n].term
     /\ next' = [next EXCEPT ![n][m.from] = i]
     /\ Send({AppendFor(n, m.from, hard[n].term, log[n], i)})
     /\ UNCHANGED <<hardVars, soft, logVars, match, elected, spent>>

\* An answer of a higher term deposes its receiver, whatever else it says.
HandleHigherAnswer(n, m) ==
  /\ m.type \in {"AppendEntriesResp", "InstallSnapshotResp"}
  /\ m.term > hard[n].term
  /\ Observe(n, m.term)
  /\ soft' = [soft EXCEPT ![n] = FollowerOf(None)]
  /\ UNCHANGED <<logVars, leaderVars, msgs, elected, spent>>

(* Snapshots *)

MaybeSnapshot(n) ==
  LET upto == Len(sm[n])
  IN /\ SnapThreshold > 0 /\ Len(log[n]) > SnapThreshold
     /\ upto > snap[n].index
     /\ snap' = [snap EXCEPT ![n] =
          [index |-> upto,
           term |-> IF Has(log[n], upto) THEN TermAt(log[n], upto)
                    ELSE sm[n][upto].term,
           sm |-> sm[n]]]
     /\ log' = [log EXCEPT ![n] = CompactUpto(@, upto)]
     /\ UNCHANGED <<hardVars, soft, commit, sm, leaderVars, msgs, elected,
                    spent>>

Newer(n, s) == s.index > snap[n].index

HandleInstallSnapshot(n, m) ==
  /\ m.type = "InstallSnapshot" /\ m.term >= hard[n].term
  /\ Observe(n, m.term)
  /\ soft' = [soft EXCEPT ![n] = FollowerOf(m.from)]
  /\ IF Newer(n, m.snap)
     THEN /\ snap' = [snap EXCEPT ![n] = m.snap]
          /\ sm' = [sm EXCEPT ![n] = m.snap.sm]
          /\ log' = [log EXCEPT ![n] = CompactUpto(@, m.snap.index)]
          /\ commit' = [commit EXCEPT ![n] = Greatest(@, m.snap.index)]
          /\ Send({SnapshotResp(n, m.from, m.term, m.snap.index)})
     ELSE /\ Send({SnapshotResp(n, m.from, m.term, snap[n].index)})
          /\ UNCHANGED logVars
  /\ UNCHANGED <<leaderVars, elected, spent>>

\* The answer's own term is not compared with the leader's.
HandleSnapshotInstalled(n, m) ==
  /\ m.type = "InstallSnapshotResp" /\ m.term <= hard[n].term
  /\ soft[n].role = "Leader"
  /\ match' = [match EXCEPT ![n][m.from] = m.index]
  /\ next' = [next EXCEPT ![n][m.from] = m.index + 1]
  /\ UNCHANGED <<hardVars, soft, logVars, msgs, elected, spent>>

(* Step-down, crash and failed writes *)

\* step_down: append an empty op (its failure is ignored), broadcast, then
\* hand over to a most advanced peer only if that peer holds the whole log.
StepDown(n) ==
  \E appended \in BOOLEAN, p \in Others(n) :
    LET l == IF appended THEN WithOp(n, Noop) ELSE log[n]
    IN /\ soft[n].role = "Leader"
       /\ \A v \in Others(n) : match[n][v] <= match[n][p]
       /\ appended => LastIndex(log[n]) < MaxIndex
       /\ Spend(IF appended THEN "stepDown" ELSE "appendFail")
       /\ log' = [log EXCEPT ![n] = l]
       /\ match' = [match EXCEPT ![n][n] = IF appended THEN LastIndex(l) ELSE @]
       /\ Send(Broadcast(n, hard[n].term, l, next[n]) \cup
               {TimeoutNow(n, v, hard[n].term) :
                  v \in {u \in {p} : match[n][u] >= LastIndex(l)}})
       /\ soft' = [soft EXCEPT ![n] = FollowerOf(None)]
       /\ UNCHANGED <<hardVars, snap, commit, sm, next, elected>>

\* Crash and Node::open: memory is rebuilt from the three files.
Restart(n) ==
  /\ Spend("restart")
  /\ hard' = [hard EXCEPT ![n] = disk[n]]
  /\ soft' = [soft EXCEPT ![n] = FollowerOf(None)]
  /\ commit' = [commit EXCEPT ![n] = snap[n].index]
  /\ sm' = [sm EXCEPT ![n] = snap[n].sm]
  /\ next' = [next EXCEPT ![n] = [v \in Voters |-> 0]]
  /\ match' = [match EXCEPT ![n] = [v \in Voters |-> 0]]
  /\ UNCHANGED <<disk, ballots, log, snap, msgs, elected>>

\* persist_hard_state returned an error: memory keeps the new value h, the
\* file keeps f or has h, and handle() drops what the handler would have sent.
PersistFails(n, f, h) ==
  /\ Spend("hardFail")
  /\ hard' = [hard EXCEPT ![n] = h]
  /\ \E d \in {f, h} :
       /\ disk' = [disk EXCEPT ![n] = d]
       /\ ballots' = IF d = h /\ h.vote # None
                     THEN ballots \cup {Ballot(n, h)} ELSE ballots
  /\ UNCHANGED <<logVars, leaderVars, msgs, elected>>

\* The file a handler's second write finds, its first having succeeded.
FileSeen(n, t) == IF t > hard[n].term THEN Seen(n, t) ELSE disk[n]

\* become_follower fails to record a higher term: nothing else happened yet.
ObserveFails(n, m) ==
  /\ m.term > hard[n].term
  /\ ~(m.type = "RequestVote" /\ m.pre)
  /\ PersistFails(n, disk[n], Seen(n, m.term))
  /\ UNCHANGED soft

\* The vote itself cannot be recorded.
GrantFails(n, m) ==
  LET h == Seen(n, m.term)
  IN /\ m.type = "RequestVote" /\ ~m.pre
     /\ m.term = h.term /\ h.vote \in {None, m.from}
     /\ UpToDate(m, log[n])
     /\ PersistFails(n, FileSeen(n, m.term), [h EXCEPT !.vote = m.from])
     /\ soft' = [soft EXCEPT ![n] = SoftSeen(n, m.term)]

\* start_election cannot record its term and self-vote.
ElectionFails(n, m) ==
  /\ Greatest(hard[n].term, m.term) < MaxTerm
  /\ \/ /\ Counts(n, m) /\ soft[n].campaign = "PreVote"
        /\ Cardinality(soft[n].pre \cup {m.from}) >= Majority
        /\ soft' = [soft EXCEPT ![n].pre = @ \cup {m.from}]
     \/ /\ m.type = "TimeoutNow" /\ m.term >= hard[n].term
        /\ soft' = [soft EXCEPT ![n] = SoftSeen(n, m.term)]
  /\ PersistFails(n, FileSeen(n, m.term),
                  [term |-> Seen(n, m.term).term + 1, vote |-> n])

-----------------------------------------------------------------------------
Tick(n) == Timeout(n) \/ Heartbeat(n)

Handle(n, m) ==
  \/ HandlePreVote(n, m) \/ HandleRequestVote(n, m)
  \/ HandleProbeGranted(n, m) \/ HandleVoteGranted(n, m)
  \/ HandleLastVote(n, m) \/ HandleVoteIgnored(n, m)
  \/ HandleTimeoutNow(n, m)
  \/ HandleAppendStale(n, m) \/ HandleAppendMismatch(n, m)
  \/ HandleAppend(n, m) \/ HandleAppendRefused(n, m)
  \/ HandleAppendAccepted(n, m) \/ HandleAppendRejected(n, m)
  \/ HandleHigherAnswer(n, m)
  \/ HandleInstallSnapshot(n, m) \/ HandleSnapshotInstalled(n, m)

HandleFails(n, m) == ObserveFails(n, m) \/ GrantFails(n, m) \/ ElectionFails(n, m)

\* What a node does besides serving its clients and crashing.
NodeStep(n) ==
  \/ Tick(n) \/ StepDown(n) \/ MaybeSnapshot(n)
  \/ \E m \in {x \in msgs : x.to = n /\ x.type \in Delivered} :
       Handle(n, m) \/ HandleFails(n, m)

Next ==
  \E n \in Voters :
    NodeStep(n) \/ Restart(n) \/ \E op \in Ops : Propose(n, op)

Spec == Init /\ [][Next]_vars

-----------------------------------------------------------------------------
(* Types *)

HardState == [term : Nat, vote : Voters \cup {None}]

SoftState ==
  [role : {"Follower", "Candidate", "Leader"},
   campaign : {"None", "PreVote", "Vote"},
   votes : SUBSET Voters, pre : SUBSET Voters, leader : Voters \cup {None}]

Entries == [index : Nat, term : Nat, op : Ops \cup {Noop}]

Snapshots == [index : Nat, term : Nat, sm : Seq(Entries)]

VoteRequests ==
  [type : {"RequestVote"}, from : Voters, to : Voters, term : Nat,
   lastIndex : Nat, lastTerm : Nat, pre : BOOLEAN]

VoteAnswers ==
  [type : {"RequestVoteResp"}, from : Voters, to : Voters, term : Nat,
   granted : BOOLEAN]

Appends ==
  [type : {"AppendEntries"}, from : Voters, to : Voters, term : Nat,
   prevIndex : Nat, prevTerm : Nat, entries : Seq(Entries), commit : Nat]

AppendAnswers ==
  [type : {"AppendEntriesResp"}, from : Voters, to : Voters, term : Nat,
   success : BOOLEAN, match : Nat, conflict : Nat]

SnapshotSends ==
  [type : {"InstallSnapshot"}, from : Voters, to : Voters, term : Nat,
   snap : Snapshots]

SnapshotAnswers ==
  [type : {"InstallSnapshotResp"}, from : Voters, to : Voters, term : Nat,
   index : Nat]

Handovers ==
  [type : {"TimeoutNow"}, from : Voters, to : Voters, term : Nat]

Messages ==
  VoteRequests \cup VoteAnswers \cup Appends \cup AppendAnswers
    \cup SnapshotSends \cup SnapshotAnswers \cup Handovers

\* Every variable stays in the domain the Rust types give it.
TypeOK ==
  /\ hard \in [Voters -> HardState]
  /\ disk \in [Voters -> HardState]
  /\ soft \in [Voters -> SoftState]
  /\ log \in [Voters -> Seq(Entries)]
  /\ snap \in [Voters -> Snapshots]
  /\ commit \in [Voters -> Nat]
  /\ sm \in [Voters -> Seq(Entries)]
  /\ next \in [Voters -> [Voters -> Nat]]
  /\ match \in [Voters -> [Voters -> Nat]]
  /\ msgs \in SUBSET Messages
  /\ ballots \in SUBSET [voter : Voters, term : Nat, cand : Voters]
  /\ elected \in SUBSET [term : Nat, leader : Voters]
  /\ spent \in [Events -> Nat]

-----------------------------------------------------------------------------
(* Properties *)

Contiguous(l) == \A i \in DOMAIN l : l[i].index = l[1].index + i - 1

\* log.rs finds an entry by its offset from the first one (get, entries_from,
\* truncate_suffix): that is sound only while every list, and every batch on
\* the wire, counts up by one, through truncation, compaction and snapshots.
LogContiguous ==
  /\ \A n \in Voters : Contiguous(log[n])
  /\ \A m \in msgs : m.type = "AppendEntries" => Contiguous(m.entries)

IsLeader(n) == soft[n].role = "Leader"

\* No write of hard_state.json has failed so far.
NothingUnrecorded == spent["hardFail"] = 0

\* INV-1 of the safety sweep in raft.rs: no two nodes lead the same term at the
\* same time, whatever is lost, duplicated, reordered, restarted or not written.
OneLeaderPerTerm ==
  \A a, b \in Voters :
    IsLeader(a) /\ IsLeader(b) /\ hard[a].term = hard[b].term => a = b

\* INV-1 while hard_state.json is written whenever it should be.  Probe and vote
\* answers share one message type, so this needs more than vote counting.
ElectionSafety == NothingUnrecorded => OneLeaderPerTerm

\* The same over time: a term that was won is never won again by another node,
\* not even after its first leader stepped down or crashed.
OneWinnerPerTerm ==
  NothingUnrecorded =>
    \A a, b \in elected : a.term = b.term => a.leader = b.leader

\* persist_hard_state: a voter records at most one vote in a term, across
\* crashes and across failed writes of hard_state.json.
OneBallotPerTerm ==
  \A a, b \in ballots :
    a.voter = b.voter /\ a.term = b.term => a.cand = b.cand

\* A term and an index name one operation: two replicas that hold an entry of
\* the same term at the same index hold the same op there.
EntryIdentity ==
  \A a, b \in Voters :
    \A i \in DOMAIN log[a], j \in DOMAIN log[b] :
      log[a][i].index = log[b][j].index /\ log[a][i].term = log[b][j].term
        => log[a][i].op = log[b][j].op

\* raft.rs, test leader_overwrites_divergent_follower_suffix: no replica keeps
\* an entry of a term above its own.
NoEntryAboveTerm ==
  \A n \in Voters : \A i \in DOMAIN log[n] : log[n][i].term <= hard[n].term

\* A delayed or duplicated InstallSnapshot never replaces a newer snapshot
\* file, and what a snapshot covers stays committed through a restart.
SnapshotNeverRegresses ==
  [][\A n \in Voters :
       /\ snap'[n].index >= snap[n].index
       /\ commit'[n] >= snap'[n].index]_vars

\* INV-2 of the safety sweep (raft.rs): replicas that applied an index applied
\* the same entry there.
StateMachineSafety ==
  \A a, b \in Voters : \A i \in DOMAIN sm[a] \cap DOMAIN sm[b] :
    sm[a][i] = sm[b][i]
=============================================================================
