----------------------------- MODULE RaftProofs -----------------------------
(***************************************************************************)
(* What holds of Raft for any set of voters and any bounds: types and        *)
(* contiguous logs; one ballot per voter, one winner and one leader per      *)
(* term; one entry per term and index.  Each part rests on the one before.   *)
(***************************************************************************)
EXTENDS Raft, SequenceTheorems, WellFoundedInduction, FiniteSetTheorems, TLAPS

-----------------------------------------------------------------------------
(***************************************************************************)
(* Raft keeps its types and its logs stay contiguous, for any set of voters *)
(* and any bounds.  The two are proved together: SubSeq returns a sequence  *)
(* of entries only for positions that exist, and positions are computed     *)
(* from indices.                                                            *)
(***************************************************************************)

IsLog(l) == l \in Seq(Entries) /\ Contiguous(l)

-----------------------------------------------------------------------------
(* The operators of log.rs. *)

\* The ends of a list are naturals and enclose it.
LEMMA EndsLemma ==
  ASSUME NEW l, IsLog(l)
  PROVE  /\ LastIndex(l) \in Nat /\ LastTerm(l) \in Nat /\ FirstIndex(l) \in Nat
         /\ l # <<>> => /\ Len(l) \in Nat \ {0}
                        /\ l[1].index = FirstIndex(l)
                        /\ LastIndex(l) = FirstIndex(l) + Len(l) - 1
<1> USE DEF IsLog, Contiguous, LastIndex, LastTerm, FirstIndex
<1>1. CASE l = <<>>
  BY <1>1
<1>2. CASE l # <<>>
  <2>1. Len(l) \in Nat \ {0} /\ DOMAIN l = 1..Len(l)
    BY <1>2, EmptySeq, LenProperties
  <2>2. l[1] \in Entries /\ l[Len(l)] \in Entries
    BY <2>1, ElementOfSeq
  <2>3. /\ l[1].index \in Nat /\ l[Len(l)].index \in Nat
        /\ l[Len(l)].term \in Nat
    BY <2>2 DEF Entries
  <2> QED  BY <1>2, <2>1, <2>3
<1> QED  BY <1>1, <1>2

\* Any run of positions of a list is a list.
LEMMA SubSeqLemma ==
  ASSUME NEW l, IsLog(l), NEW i \in Nat \ {0}, NEW j \in Int, j <= Len(l)
  PROVE  IsLog(SubSeq(l, i, j))
<1> USE DEF IsLog, Contiguous
<1>1. Len(l) \in Nat /\ DOMAIN l = 1..Len(l)
  BY LenProperties
<1>2. \A k \in i..j : l[k] \in Entries
  BY <1>1, ElementOfSeq
<1>3. /\ SubSeq(l, i, j) \in Seq(Entries)
      /\ Len(SubSeq(l, i, j)) = IF i <= j THEN j - i + 1 ELSE 0
      /\ \A k \in 1..(j - i + 1) : SubSeq(l, i, j)[k] = l[i + k - 1]
  BY <1>2, SubSeqProperties
<1>4. DOMAIN SubSeq(l, i, j) = 1..Len(SubSeq(l, i, j))
  BY <1>3, LenProperties
<1>5. SUFFICES ASSUME NEW k \in 1..(j - i + 1), i <= j
               PROVE  l[i + k - 1].index = l[i].index + k - 1
  BY SMTT(30), <1>3, <1>4
<1>6. i + k - 1 \in DOMAIN l /\ i \in DOMAIN l /\ 1 \in DOMAIN l
  BY <1>1, <1>5
<1>7. l[1].index \in Nat
  <2>1. l[1] \in Entries
    BY <1>6, <1>1, ElementOfSeq
  <2> QED  BY <2>1 DEF Entries
<1>8. /\ l[i + k - 1].index = l[1].index + (i + k - 1) - 1
      /\ l[i].index = l[1].index + i - 1
  BY <1>6
<1>9. k \in Int
  OBVIOUS
<1>10. l[1].index + (i + k - 1) - 1 = (l[1].index + i - 1) + k - 1
  <2> HIDE DEF IsLog, Contiguous
  <2> QED  BY <1>7, <1>9
<1> HIDE DEF IsLog, Contiguous
<1> QED  BY <1>8, <1>10, Zenon

LEMMA EntriesFromLemma ==
  ASSUME NEW l, IsLog(l), NEW i \in Nat
  PROVE  IsLog(EntriesFrom(l, i))
<1>1. FirstIndex(l) \in Nat
  BY EndsLemma
<1>2. Len(l) \in Nat
  BY LenProperties DEF IsLog
<1> QED  BY <1>1, <1>2, SubSeqLemma DEF EntriesFrom

LEMMA TruncateLemma ==
  ASSUME NEW l, IsLog(l), NEW i \in Nat, Has(l, i)
  PROVE  IsLog(TruncateSuffix(l, i))
<1>1. l # <<>>
  BY DEF Has
<1>2. /\ FirstIndex(l) \in Nat /\ Len(l) \in Nat
      /\ l[1].index = FirstIndex(l)
  BY <1>1, EndsLemma
<1>3. i - FirstIndex(l) \in Int /\ i - FirstIndex(l) <= Len(l)
  BY <1>2 DEF Has
<1> QED  BY <1>3, SubSeqLemma DEF TruncateSuffix

\* A batch that Continues a list may be put behind it.
LEMMA ConcatLemma ==
  ASSUME NEW l, IsLog(l), NEW b, IsLog(b), Continues(l, b)
  PROVE  IsLog(l \o b)
<1> USE DEF IsLog, Contiguous
<1>1. /\ Len(l) \in Nat /\ DOMAIN l = 1..Len(l)
      /\ Len(b) \in Nat /\ DOMAIN b = 1..Len(b)
  BY LenProperties
<1>2. /\ l \o b \in Seq(Entries)
      /\ Len(l \o b) = Len(l) + Len(b)
      /\ \A i \in 1..Len(l) + Len(b) : (l \o b)[i] =
            IF i <= Len(l) THEN l[i] ELSE b[i - Len(l)]
  BY ConcatProperties
<1>3. DOMAIN (l \o b) = 1..Len(l) + Len(b)
  BY <1>2, LenProperties
<1>4. SUFFICES ASSUME NEW i \in 1..Len(l) + Len(b)
               PROVE  (l \o b)[i].index = (l \o b)[1].index + i - 1
  BY <1>2, <1>3
<1>5. CASE l = <<>>
  BY <1>1, <1>2, <1>4, <1>5
<1>6. CASE l # <<>>
  <2>1. /\ Len(l) \in Nat \ {0} /\ FirstIndex(l) \in Nat
        /\ l[1].index = FirstIndex(l)
        /\ LastIndex(l) = FirstIndex(l) + Len(l) - 1
    BY <1>6, EndsLemma
  <2>2. CASE i <= Len(l)
    BY SMTT(30), <1>1, <1>2, <1>4, <2>1, <2>2
  <2>3. CASE i > Len(l)
    <3>1. i - Len(l) \in DOMAIN b /\ 1 \in DOMAIN b /\ b # <<>>
      BY <1>1, <1>4, <2>3
    <3>2. b[i - Len(l)].index = b[1].index + (i - Len(l)) - 1
      BY <3>1
    <3>3. b[1].index = FirstIndex(l) + Len(l)
      BY <3>1, <2>1 DEF Continues
    <3> QED  BY <1>1, <1>2, <1>4, <2>1, <2>3, <3>2, <3>3
  <2> QED  BY <1>1, <2>2, <2>3
<1> QED  BY <1>5, <1>6

LEMMA AppendLemma ==
  ASSUME NEW l, IsLog(l), NEW t \in Nat, NEW op \in Ops \cup {Noop}
  PROVE  IsLog(Append(l, Entry(LastIndex(l) + 1, t, op)))
<1> DEFINE e == Entry(LastIndex(l) + 1, t, op)
<1>1. LastIndex(l) \in Nat
  BY EndsLemma
<1>2. e \in Entries
  BY <1>1 DEF Entry, Entries
<1>3. /\ Append(l, e) \in Seq(Entries) /\ Len(Append(l, e)) = Len(l) + 1
      /\ \A i \in 1..Len(l) : Append(l, e)[i] = l[i]
      /\ Append(l, e)[Len(l) + 1] = e
  BY <1>2, AppendProperties DEF IsLog
<1>4. Len(l) \in Nat /\ DOMAIN l = 1..Len(l) /\ DOMAIN Append(l, e) = 1..Len(l) + 1
  BY <1>3, LenProperties DEF IsLog
<1>5. SUFFICES ASSUME NEW i \in 1..Len(l) + 1
               PROVE  Append(l, e)[i].index = Append(l, e)[1].index + i - 1
  BY <1>3, <1>4 DEF IsLog, Contiguous
<1>6. CASE l = <<>>
  BY <1>3, <1>4, <1>6, <1>2 DEF Entries
<1>7. CASE l # <<>>
  <2>1. /\ Len(l) \in Nat \ {0} /\ FirstIndex(l) \in Nat
        /\ l[1].index = FirstIndex(l)
        /\ LastIndex(l) = FirstIndex(l) + Len(l) - 1
    BY <1>7, EndsLemma
  <2>2. CASE i <= Len(l)
    BY <1>3, <1>4, <1>5, <2>1, <2>2 DEF IsLog, Contiguous
  <2>3. CASE i = Len(l) + 1
    BY <1>3, <1>4, <2>1, <2>3 DEF Entry
  <2> QED  BY <1>4, <1>5, <2>2, <2>3
<1> QED  BY <1>6, <1>7

LEMMA TermAtLemma ==
  ASSUME NEW l, IsLog(l), NEW i \in Nat
  PROVE  TermAt(l, i) \in Nat
<1>1. CASE ~Has(l, i)
  BY <1>1 DEF TermAt
<1>2. CASE Has(l, i)
  <2>1. l # <<>>
    BY <1>2 DEF Has
  <2>2. l[1].index \in Nat /\ Len(l) \in Nat
    BY <2>1, EndsLemma
  <2>3. i - l[1].index + 1 \in 1..Len(l)
    BY <1>2, <2>2 DEF Has
  <2>4. l[i - l[1].index + 1] \in Entries
    BY <2>3, ElementOfSeq DEF IsLog
  <2> QED  BY <1>2, <2>4 DEF TermAt, At, Entries
<1> QED  BY <1>1, <1>2

-----------------------------------------------------------------------------
(* The invariant, by the groups of variables an action leaves alone. *)

GoodMessages ==
  {m \in Messages : m.type = "AppendEntries" => Contiguous(m.entries)}

HardOK ==
  /\ hard \in [Voters -> HardState] /\ disk \in [Voters -> HardState]
  /\ ballots \in SUBSET [voter : Voters, term : Nat, cand : Voters]

SoftOK == soft \in [Voters -> SoftState]

LogOK ==
  /\ log \in [Voters -> Seq(Entries)]
  /\ \A n \in Voters : Contiguous(log[n])
  /\ snap \in [Voters -> Snapshots]
  /\ commit \in [Voters -> Nat]
  /\ sm \in [Voters -> Seq(Entries)]

LeaderOK ==
  /\ next \in [Voters -> [Voters -> Nat]]
  /\ match \in [Voters -> [Voters -> Nat]]

MsgsOK == msgs \subseteq GoodMessages

ElectedOK == elected \in SUBSET [term : Nat, leader : Voters]

SpentOK == spent \in [Events -> Nat]

TypeInv ==
  HardOK /\ SoftOK /\ LogOK /\ LeaderOK /\ MsgsOK /\ ElectedOK /\ SpentOK

LEMMA TypeInvLemma == TypeInv <=> TypeOK /\ LogContiguous
BY DEF TypeInv, TypeOK, LogContiguous, HardOK, SoftOK, LogOK, LeaderOK, MsgsOK,
       ElectedOK, SpentOK, GoodMessages

-----------------------------------------------------------------------------
(* What the shared operators return and preserve. *)

\* Inside an action the voters' logs are lists.
LEMMA LogLemma ==
  ASSUME LogOK, NEW n \in Voters
  PROVE  IsLog(log[n])
BY DEF LogOK, IsLog

LEMMA PersistLemma ==
  ASSUME HardOK, NEW n \in Voters, NEW h \in HardState,
         NEW written \in BOOLEAN, Persist(n, h, written)
  PROVE  HardOK'
<1>1. hard' \in [Voters -> HardState] /\ disk' \in [Voters -> HardState]
  BY DEF HardOK, Persist
<1>2. h.vote # None => Ballot(n, h) \in [voter : Voters, term : Nat, cand : Voters]
  BY DEF Ballot, HardState
<1> QED  BY <1>1, <1>2 DEF HardOK, Persist

LEMMA SeenLemma ==
  ASSUME HardOK, NEW n \in Voters, NEW t \in Nat
  PROVE  Seen(n, t) \in HardState
BY DEF HardOK, Seen, HardState

LEMMA ObserveLemma ==
  ASSUME HardOK, NEW n \in Voters, NEW t \in Nat, Observe(n, t)
  PROVE  HardOK'
<1>1. (t > hard[n].term) \in BOOLEAN
  OBVIOUS
<1> QED  BY <1>1, SeenLemma, PersistLemma DEF Observe

LEMMA FollowerLemma ==
  ASSUME NEW l \in Voters \cup {None}
  PROVE  FollowerOf(l) \in SoftState
BY DEF FollowerOf, SoftState

LEMMA SendLemma ==
  ASSUME MsgsOK, NEW ms, ms \subseteq GoodMessages, Send(ms)
  PROVE  MsgsOK'
BY DEF MsgsOK, Send

LEMMA SpendLemma ==
  ASSUME SpentOK, NEW e \in Events, Spend(e)
  PROVE  SpentOK'
BY DEF SpentOK, Spend

LEMMA AskVotesLemma ==
  ASSUME LogOK, NEW n \in Voters, NEW t \in Nat, NEW pre \in BOOLEAN
  PROVE  AskVotes(n, t, pre) \subseteq GoodMessages
<1>1. LastIndex(log[n]) \in Nat /\ LastTerm(log[n]) \in Nat
  BY LogLemma, EndsLemma
<1> QED  BY <1>1 DEF AskVotes, RequestVote, Others, GoodMessages, Messages, VoteRequests

LEMMA AppendForLemma ==
  ASSUME LogOK, NEW n \in Voters, NEW to \in Voters, NEW t \in Nat,
         NEW l, IsLog(l), NEW i \in Nat
  PROVE  AppendFor(n, to, t, l, i) \in GoodMessages
<1>1. snap[n] \in Snapshots /\ snap[n].index \in Nat /\ snap[n].term \in Nat
        /\ commit[n] \in Nat
  BY DEF LogOK, Snapshots
<1>2. CASE i <= snap[n].index /\ snap[n].index > 0
  BY <1>1, <1>2 DEF AppendFor, GoodMessages, Messages, SnapshotSends
<1>3. CASE ~(i <= snap[n].index /\ snap[n].index > 0)
  <2> DEFINE prev == IF i = 0 THEN 0 ELSE i - 1
             tail == EntriesFrom(l, i)
             batch == SubSeq(tail, 1, Least(Len(tail), MaxBatch))
             pterm == IF prev = 0 THEN 0
                      ELSE IF prev = snap[n].index THEN snap[n].term
                      ELSE TermAt(l, prev)
  <2>1. IsLog(tail) /\ Len(tail) \in Nat
    BY EntriesFromLemma, LenProperties DEF IsLog
  <2>2. Least(Len(tail), MaxBatch) \in Int /\ Least(Len(tail), MaxBatch) <= Len(tail)
    BY <2>1, BoundsAssumption DEF Least
  <2>3. batch \in Seq(Entries) /\ Contiguous(batch)
    BY <2>1, <2>2, SubSeqLemma DEF IsLog
  <2>4. prev \in Nat
    OBVIOUS
  <2>5. pterm \in Nat
    BY <1>1, <2>4, TermAtLemma
  <2> DEFINE r == [type |-> "AppendEntries", from |-> n, to |-> to, term |-> t,
                   prevIndex |-> prev, prevTerm |-> pterm, entries |-> batch,
                   commit |-> commit[n]]
  <2>6. AppendFor(n, to, t, l, i) = r
    BY <1>3 DEF AppendFor
  <2> HIDE DEF prev, pterm, batch
  <2>7. r \in Appends /\ Contiguous(r.entries)
    BY <1>1, <2>3, <2>4, <2>5 DEF Appends
  <2> QED  BY <2>6, <2>7 DEF GoodMessages, Messages
<1> QED  BY <1>2, <1>3

LEMMA BroadcastLemma ==
  ASSUME LogOK, NEW n \in Voters, NEW t \in Nat, NEW l, IsLog(l),
         NEW nx \in [Voters -> Nat]
  PROVE  Broadcast(n, t, l, nx) \subseteq GoodMessages
BY AppendForLemma DEF Broadcast, Others

LEMMA WithOpLemma ==
  ASSUME LogOK, HardOK, NEW n \in Voters, NEW op \in Ops \cup {Noop}
  PROVE  IsLog(WithOp(n, op))
<1>1. hard[n].term \in Nat
  BY DEF HardOK, HardState
<1> QED  BY <1>1, LogLemma, AppendLemma DEF WithOp

\* A list is replaced by a list.
LEMMA LogUpdateLemma ==
  ASSUME LogOK, NEW n \in Voters, NEW l, IsLog(l),
         log' = [log EXCEPT ![n] = l]
  PROVE  /\ log' \in [Voters -> Seq(Entries)]
         /\ \A v \in Voters : Contiguous(log'[v])
BY DEF LogOK, IsLog

LEMMA ApplyLemma ==
  ASSUME NEW s \in Seq(Entries), NEW l, IsLog(l), NEW c \in Nat
  PROVE  ApplyCommitted(s, l, c) \in Seq(Entries)
<1>1. Len(s) \in Nat
  BY LenProperties
<1>2. CASE ~(c > Len(s) /\ Has(l, Len(s) + 1))
  BY <1>2 DEF ApplyCommitted
<1>3. CASE c > Len(s) /\ Has(l, Len(s) + 1)
  <2> DEFINE i == Len(s) + 1
             tail == EntriesFrom(l, i)
             k == Least(c, LastIndex(l)) - Len(s)
  <2>1. l # <<>> /\ i >= l[1].index /\ i - l[1].index < Len(l)
    BY <1>3 DEF Has
  <2>2. /\ FirstIndex(l) \in Nat /\ Len(l) \in Nat /\ l[1].index = FirstIndex(l)
        /\ LastIndex(l) = FirstIndex(l) + Len(l) - 1
    BY <2>1, EndsLemma
  <2>3. tail = SubSeq(l, i - FirstIndex(l) + 1, Len(l))
    <3>1. i \in Nat /\ i >= FirstIndex(l)
      BY <1>1, <2>1, <2>2
    <3> HIDE DEF i
    <3>2. ~(i < FirstIndex(l))
      BY <2>2, <3>1
    <3> QED
      BY <3>2 DEF EntriesFrom
  <2>4. \A j \in (i - FirstIndex(l) + 1)..Len(l) : l[j] \in Entries
    BY <1>1, <2>1, <2>2, ElementOfSeq DEF IsLog
  <2>5. Len(tail) = Len(l) - (i - FirstIndex(l))
    BY <1>1, <2>1, <2>2, <2>3, <2>4, SubSeqProperties
  <2>6. IsLog(tail)
    BY <1>1, EntriesFromLemma
  <2>7. k \in Int /\ k <= Len(tail)
    BY <1>1, <2>2, <2>5 DEF Least
  <2>8. SubSeq(tail, 1, k) \in Seq(Entries)
    BY <2>6, <2>7, SubSeqLemma DEF IsLog
  <2> QED  BY <1>3, <2>8, ConcatProperties DEF ApplyCommitted
<1> QED  BY <1>2, <1>3

\* What a handler may rely on in the message it was given.
LEMMA MessageLemma ==
  ASSUME NEW m \in GoodMessages
  PROVE  /\ m.from \in Voters /\ m.to \in Voters /\ m.term \in Nat
         /\ m.type = "AppendEntries" =>
              /\ m.prevIndex \in Nat /\ m.prevTerm \in Nat /\ m.commit \in Nat
              /\ IsLog(m.entries)
         /\ m.type = "AppendEntriesResp" => m.match \in Nat /\ m.conflict \in Nat
         /\ m.type = "InstallSnapshot" => m.snap \in Snapshots
         /\ m.type = "InstallSnapshotResp" => m.index \in Nat
BY DEF GoodMessages, Messages, VoteRequests, VoteAnswers, Appends, AppendAnswers,
       SnapshotSends, SnapshotAnswers, Handovers, IsLog

LEMMA ResponseLemma ==
  ASSUME NEW n \in Voters, NEW to \in Voters, NEW t \in Nat
  PROVE  /\ \A g \in BOOLEAN : RequestVoteResp(n, to, t, g) \in GoodMessages
         /\ \A b \in BOOLEAN, i, j \in Nat :
              AppendResp(n, to, t, b, i, j) \in GoodMessages
         /\ \A i \in Nat : SnapshotResp(n, to, t, i) \in GoodMessages
         /\ TimeoutNow(n, to, t) \in GoodMessages
BY DEF GoodMessages, Messages, VoteAnswers, AppendAnswers, SnapshotAnswers,
       Handovers, RequestVoteResp, AppendResp, SnapshotResp, TimeoutNow

LEMMA StartElectionLemma ==
  ASSUME HardOK, SoftOK, LogOK, MsgsOK, NEW n \in Voters, NEW t \in Nat,
         StartElection(n, t)
  PROVE  HardOK' /\ SoftOK' /\ MsgsOK'
<1>1. [term |-> t + 1, vote |-> n] \in HardState
  BY DEF HardState
<1>2. HardOK'
  BY <1>1, PersistLemma DEF StartElection
<1>3. SoftOK'
  BY DEF StartElection, SoftOK, SoftState
<1>4. AskVotes(n, t + 1, FALSE) \subseteq GoodMessages
  <2>1. t + 1 \in Nat /\ FALSE \in BOOLEAN
    OBVIOUS
  <2> QED  BY <2>1, AskVotesLemma, Zenon
<1>5. MsgsOK'
  BY <1>4, SendLemma DEF StartElection
<1> QED  BY <1>2, <1>3, <1>5

-----------------------------------------------------------------------------
(* One lemma per action. *)

LEMMA TimeoutLemma ==
  ASSUME TypeInv, NEW n \in Voters, Timeout(n)
  PROVE  TypeInv'
<1> USE DEF TypeInv
<1>1. SoftOK'
  BY DEF Timeout, SoftOK, SoftState
<1>2. hard[n].term \in Nat
  BY DEF HardOK, HardState
<1>3. MsgsOK'
  <2>1. AskVotes(n, hard[n].term + 1, TRUE) \subseteq GoodMessages
    <3>1. hard[n].term + 1 \in Nat /\ TRUE \in BOOLEAN
      BY <1>2
    <3> QED  BY <3>1, AskVotesLemma, Zenon DEF TypeInv
  <2> QED  BY <2>1, SendLemma DEF Timeout
<1>4. SpentOK'
  BY SpendLemma DEF Timeout, Events
<1> QED  BY <1>1, <1>3, <1>4
         DEF Timeout, hardVars, logVars, leaderVars, HardOK, LogOK, LeaderOK, ElectedOK

LEMMA HeartbeatLemma ==
  ASSUME TypeInv, NEW n \in Voters, Heartbeat(n)
  PROVE  TypeInv'
<1> USE DEF TypeInv
<1>1. hard[n].term \in Nat /\ next[n] \in [Voters -> Nat]
  BY DEF HardOK, HardState, LeaderOK
<1>2. MsgsOK'
  <2>1. Broadcast(n, hard[n].term, log[n], next[n]) \subseteq GoodMessages
    BY <1>1, LogLemma, BroadcastLemma
  <2> QED  BY <2>1, SendLemma DEF Heartbeat
<1>3. SpentOK'
  BY SpendLemma DEF Heartbeat, Events
<1> QED  BY <1>2, <1>3
         DEF Heartbeat, hardVars, logVars, leaderVars, HardOK, SoftOK, LogOK, LeaderOK, ElectedOK

LEMMA AnswerLemma ==
  ASSUME MsgsOK, NEW n \in Voters, NEW to \in Voters, NEW t \in Nat,
         NEW g \in BOOLEAN, NEW u, Answer(RequestVoteResp(n, to, t, g), u)
  PROVE  MsgsOK'
<1>1. RequestVoteResp(n, to, t, g) \in GoodMessages
  BY ResponseLemma
<1> QED  BY <1>1, SendLemma DEF Answer

LEMMA HandlePreVoteLemma ==
  ASSUME TypeInv, NEW n \in Voters, NEW m \in msgs, HandlePreVote(n, m)
  PROVE  TypeInv'
<1> USE DEF TypeInv
<1>1. m.from \in Voters /\ hard[n].term \in Nat
  BY MessageLemma DEF MsgsOK, HardOK, HardState
<1>2. PICK alive \in BOOLEAN :
        Answer(RequestVoteResp(n, m.from, hard[n].term,
                 m.term > hard[n].term /\ UpToDate(m, log[n]) /\ ~alive),
               m.term - 1)
  BY DEF HandlePreVote
<1>3. MsgsOK'
  BY <1>1, <1>2, AnswerLemma
<1> QED  BY <1>3 DEF HandlePreVote, hardVars, logVars, leaderVars, HardOK, SoftOK,
                     LogOK, LeaderOK, ElectedOK, SpentOK

LEMMA HandleRequestVoteLemma ==
  ASSUME TypeInv, NEW n \in Voters, NEW m \in msgs, HandleRequestVote(n, m)
  PROVE  TypeInv'
<1> USE DEF TypeInv
<1> DEFINE h == Seen(n, m.term)
           granted == m.term = h.term /\ h.vote \in {None, m.from}
                        /\ UpToDate(m, log[n])
           h2 == IF granted THEN [h EXCEPT !.vote = m.from] ELSE h
           written == granted \/ m.term > hard[n].term
<1>1. m.from \in Voters /\ m.term \in Nat
  BY MessageLemma DEF MsgsOK
<1>2. h \in HardState
  BY <1>1, SeenLemma
<1>3. /\ Persist(n, h2, written)
      /\ Answer(RequestVoteResp(n, m.from, h.term, granted), m.term)
      /\ soft' = [soft EXCEPT ![n] = SoftSeen(n, m.term)]
      /\ UNCHANGED <<logVars, leaderVars, elected, spent>>
  BY DEF HandleRequestVote
<1>4. granted \in BOOLEAN /\ written \in BOOLEAN
  OBVIOUS
<1> HIDE DEF h, granted, written
<1>5. h2 \in HardState
  BY <1>1, <1>2 DEF HardState
<1>6. HardOK'
  BY <1>3, <1>4, <1>5, PersistLemma
<1>7. h.term \in Nat
  BY <1>2 DEF HardState
<1>8. MsgsOK'
  BY <1>1, <1>3, <1>4, <1>7, AnswerLemma
<1>9. SoftOK'
  BY <1>3, FollowerLemma DEF SoftSeen, SoftOK
<1> QED  BY <1>3, <1>6, <1>8, <1>9 DEF logVars, leaderVars, LogOK, LeaderOK, ElectedOK, SpentOK

LEMMA HandleProbeGrantedLemma ==
  ASSUME TypeInv, NEW n \in Voters, NEW m \in msgs, HandleProbeGranted(n, m)
  PROVE  TypeInv'
<1> USE DEF TypeInv
<1>1. m.from \in Voters /\ hard[n].term \in Nat
  BY MessageLemma DEF MsgsOK, HardOK, HardState
<1>2. UNCHANGED <<logVars, leaderVars, elected, spent>>
  BY DEF HandleProbeGranted
<1>3. HardOK' /\ SoftOK' /\ MsgsOK'
  <2>1. CASE StartElection(n, hard[n].term)
    BY <1>1, <2>1, StartElectionLemma
  <2>2. CASE /\ soft' = [soft EXCEPT ![n].pre = soft[n].pre \cup {m.from}]
             /\ UNCHANGED <<hardVars, msgs>>
    BY <1>1, <2>2 DEF hardVars, HardOK, MsgsOK, SoftOK, SoftState
  <2> QED  BY <2>1, <2>2 DEF HandleProbeGranted
<1> QED  BY <1>2, <1>3 DEF logVars, leaderVars, LogOK, LeaderOK, ElectedOK, SpentOK

LEMMA HandleVoteGrantedLemma ==
  ASSUME TypeInv, NEW n \in Voters, NEW m \in msgs, HandleVoteGranted(n, m)
  PROVE  TypeInv'
<1> USE DEF TypeInv
<1>1. m.from \in Voters
  BY MessageLemma DEF MsgsOK
<1>2. SoftOK'
  BY <1>1 DEF HandleVoteGranted, SoftOK, SoftState
<1> QED  BY <1>2 DEF HandleVoteGranted, hardVars, logVars, leaderVars, HardOK, LogOK,
                     LeaderOK, MsgsOK, ElectedOK, SpentOK

LEMMA HandleLastVoteLemma ==
  ASSUME TypeInv, NEW n \in Voters, NEW m \in msgs, HandleLastVote(n, m)
  PROVE  TypeInv'
<1> USE DEF TypeInv
<1> DEFINE last == LastIndex(log[n])
           nx == [v \in Voters |-> last + 1]
           votes == soft[n].votes \cup {m.from}
<1>1. m.from \in Voters /\ hard[n].term \in Nat /\ last \in Nat
  BY MessageLemma, LogLemma, EndsLemma DEF MsgsOK, HardOK, HardState
<1>2. BecomeLeader(n, votes) /\ UNCHANGED <<hardVars, snap, commit, sm>>
  BY DEF HandleLastVote
<1>3. SoftOK'
  <2> DEFINE s == [soft[n] EXCEPT !.role = "Leader", !.leader = n, !.votes = votes]
  <2>1. soft[n] \in SoftState /\ soft' = [soft EXCEPT ![n] = s]
    BY <1>2 DEF BecomeLeader, SoftOK
  <2>2. s \in SoftState
    BY <1>1, <2>1 DEF SoftState
  <2> HIDE DEF s
  <2> QED  BY <2>1, <2>2 DEF SoftOK
<1>4. ElectedOK'
  BY <1>1, <1>2 DEF BecomeLeader, ElectedOK
<1>5. nx \in [Voters -> Nat] /\ next' = [next EXCEPT ![n] = nx]
  BY <1>1, <1>2 DEF BecomeLeader
<1>6. LogOK' /\ LeaderOK' /\ MsgsOK' /\ SpentOK'
  <2>1. CASE /\ log' = [log EXCEPT ![n] = WithOp(n, Noop)]
             /\ match' = [match EXCEPT ![n] =
                            [v \in Voters |-> IF v = n THEN last + 1 ELSE 0]]
             /\ Send(Broadcast(n, hard[n].term, WithOp(n, Noop), nx))
             /\ UNCHANGED spent
    <3>1. IsLog(WithOp(n, Noop))
      BY WithOpLemma
    <3>2. LogOK'
      BY <1>2, <2>1, <3>1, LogUpdateLemma DEF LogOK
    <3>3. Broadcast(n, hard[n].term, WithOp(n, Noop), nx) \subseteq GoodMessages
      BY <1>1, <1>5, <3>1, BroadcastLemma
    <3>4. MsgsOK'
      BY <2>1, <3>3, SendLemma
    <3>5. [v \in Voters |-> IF v = n THEN last + 1 ELSE 0] \in [Voters -> Nat]
      BY <1>1
    <3>6. LeaderOK'
      BY <1>5, <2>1, <3>5 DEF LeaderOK
    <3> QED  BY <2>1, <3>2, <3>4, <3>6 DEF SpentOK
  <2>2. CASE /\ Spend("appendFail")
             /\ match' = [match EXCEPT ![n] = [v \in Voters |-> 0]]
             /\ UNCHANGED <<log, msgs>>
    <3>1. SpentOK'
      BY <2>2, SpendLemma DEF Events
    <3> QED  BY <1>2, <1>5, <2>2, <3>1 DEF LogOK, LeaderOK, MsgsOK
  <2> QED  BY <1>2, <2>1, <2>2 DEF BecomeLeader
<1> QED  BY <1>2, <1>3, <1>4, <1>6 DEF hardVars, HardOK

LEMMA HandleVoteIgnoredLemma ==
  ASSUME TypeInv, NEW n \in Voters, NEW m \in msgs, HandleVoteIgnored(n, m)
  PROVE  TypeInv'
<1> USE DEF TypeInv
<1>1. m.term \in Nat
  BY MessageLemma DEF MsgsOK
<1>2. HardOK'
  BY <1>1, ObserveLemma DEF HandleVoteIgnored
<1>3. SoftOK'
  BY FollowerLemma DEF HandleVoteIgnored, SoftOK
<1> QED  BY <1>2, <1>3 DEF HandleVoteIgnored, logVars, leaderVars, LogOK, LeaderOK,
                           MsgsOK, ElectedOK, SpentOK

LEMMA HandleTimeoutNowLemma ==
  ASSUME TypeInv, NEW n \in Voters, NEW m \in msgs, HandleTimeoutNow(n, m)
  PROVE  TypeInv'
<1> USE DEF TypeInv
<1>1. m.term \in Nat
  BY MessageLemma DEF MsgsOK
<1>2. HardOK' /\ SoftOK' /\ MsgsOK'
  BY <1>1, StartElectionLemma DEF HandleTimeoutNow
<1> QED  BY <1>2 DEF HandleTimeoutNow, logVars, leaderVars, LogOK, LeaderOK,
                     ElectedOK, SpentOK

LEMMA ProposeLemma ==
  ASSUME TypeInv, NEW n \in Voters, NEW op \in Ops, Propose(n, op)
  PROVE  TypeInv'
<1> USE DEF TypeInv
<1>1. /\ hard[n].term \in Nat /\ next[n] \in [Voters -> Nat]
      /\ LastIndex(log[n]) \in Nat
  BY LogLemma, EndsLemma DEF HardOK, HardState, LeaderOK
<1>2. IsLog(WithOp(n, op))
  BY WithOpLemma
<1>3. LogOK'
  BY <1>2, LogUpdateLemma DEF Propose, LogOK
<1>4. LeaderOK'
  BY <1>1 DEF Propose, LeaderOK
<1>5. MsgsOK'
  <2>1. Broadcast(n, hard[n].term, WithOp(n, op), next[n]) \subseteq GoodMessages
    BY <1>1, <1>2, BroadcastLemma
  <2> QED  BY <2>1, SendLemma DEF Propose
<1> QED  BY <1>3, <1>4, <1>5 DEF Propose, hardVars, HardOK, SoftOK, ElectedOK, SpentOK

LEMMA HandleAppendStaleLemma ==
  ASSUME TypeInv, NEW n \in Voters, NEW m \in msgs, HandleAppendStale(n, m)
  PROVE  TypeInv'
<1> USE DEF TypeInv
<1>1. m.from \in Voters /\ hard[n].term \in Nat /\ LastIndex(log[n]) \in Nat
  BY MessageLemma, LogLemma, EndsLemma DEF MsgsOK, HardOK, HardState
<1>2. AppendResp(n, m.from, hard[n].term, FALSE, 0, LastIndex(log[n])) \in GoodMessages
  BY <1>1, ResponseLemma
<1>3. MsgsOK'
  BY <1>2, SendLemma DEF HandleAppendStale
<1> QED  BY <1>3 DEF HandleAppendStale, hardVars, logVars, leaderVars, HardOK, SoftOK,
                     LogOK, LeaderOK, ElectedOK, SpentOK

LEMMA HandleAppendMismatchLemma ==
  ASSUME TypeInv, NEW n \in Voters, NEW m \in msgs, HandleAppendMismatch(n, m)
  PROVE  TypeInv'
<1> USE DEF TypeInv
<1> DEFINE hint == Least(Greatest(FirstIndex(log[n]) - 1, 1), Greatest(m.prevIndex, 1))
<1>1. m.type = "AppendEntries"
  BY DEF HandleAppendMismatch
<1>2. /\ m.from \in Voters /\ m.term \in Nat /\ m.prevIndex \in Nat
      /\ FirstIndex(log[n]) \in Nat
  BY <1>1, MessageLemma, LogLemma, EndsLemma DEF MsgsOK
<1>3. hint \in Nat
  BY <1>2 DEF Least, Greatest
<1> HIDE DEF hint
<1>4. AppendResp(n, m.from, m.term, FALSE, 0, hint) \in GoodMessages
  BY <1>2, <1>3, ResponseLemma
<1>5. MsgsOK'
  BY <1>4, SendLemma DEF HandleAppendMismatch, hint
<1>6. HardOK'
  BY <1>2, ObserveLemma DEF HandleAppendMismatch
<1>7. SoftOK'
  BY <1>2, FollowerLemma DEF HandleAppendMismatch, SoftOK
<1> QED  BY <1>5, <1>6, <1>7 DEF HandleAppendMismatch, logVars, leaderVars, LogOK,
                                 LeaderOK, ElectedOK, SpentOK

\* The list a follower keeps and the entries it adds are lists, and where the
\* second continues the first so is the result.
LEMMA KeptLemma ==
  ASSUME LogOK, MsgsOK, NEW n \in Voters, NEW m \in msgs, m.type = "AppendEntries"
  PROVE  IsLog(Kept(n, m)) /\ IsLog(Pending(n, m))
<1>1. IsLog(m.entries) /\ IsLog(log[n])
  BY MessageLemma, LogLemma DEF MsgsOK
<1>2. IsLog(Kept(n, m))
  <2>1. CASE /\ m.entries # <<>> /\ Has(log[n], m.entries[1].index)
             /\ TermAt(log[n], m.entries[1].index) # m.entries[1].term
    <3>1. m.entries[1].index \in Nat
      BY <1>1, <2>1, EndsLemma
    <3> QED  BY <1>1, <2>1, <3>1, TruncateLemma DEF Kept
  <2>2. CASE ~(/\ m.entries # <<>> /\ Has(log[n], m.entries[1].index)
               /\ TermAt(log[n], m.entries[1].index) # m.entries[1].term)
    BY <1>1, <2>2 DEF Kept
  <2> QED  BY <2>1, <2>2
<1>3. LastIndex(Kept(n, m)) \in Nat
  BY <1>2, EndsLemma
<1>4. LastIndex(Kept(n, m)) + 1 \in Nat
  BY <1>3
<1> QED  BY <1>1, <1>2, <1>4, EntriesFromLemma DEF Pending

LEMMA HandleAppendLemma ==
  ASSUME TypeInv, NEW n \in Voters, NEW m \in msgs, HandleAppend(n, m)
  PROVE  TypeInv'
<1> USE DEF TypeInv
<1> DEFINE l == Kept(n, m) \o Pending(n, m)
           c == Least(m.commit, LastIndex(l))
<1>1. /\ m.type = "AppendEntries" /\ Continues(Kept(n, m), Pending(n, m))
      /\ Observe(n, m.term)
      /\ soft' = [soft EXCEPT ![n] = FollowerOf(m.from)]
      /\ log' = [log EXCEPT ![n] = l]
      /\ commit' = [commit EXCEPT ![n] = Greatest(@, c)]
      /\ sm' = [sm EXCEPT ![n] =
                  IF c > commit[n] THEN ApplyCommitted(@, l, c) ELSE @]
      /\ Send({AppendResp(n, m.from, m.term, TRUE, LastIndex(l), 0)})
      /\ UNCHANGED <<snap, leaderVars, elected, spent>>
  BY DEF HandleAppend
<1>2. m.from \in Voters /\ m.term \in Nat /\ m.commit \in Nat
  BY <1>1, MessageLemma DEF MsgsOK
<1>3. IsLog(l)
  BY <1>1, KeptLemma, ConcatLemma
<1> HIDE DEF l
<1>4. LastIndex(l) \in Nat /\ c \in Nat
  BY <1>2, <1>3, EndsLemma DEF Least
<1> HIDE DEF c
<1>5. LogOK'
  <2>1. commit' \in [Voters -> Nat]
    BY <1>1, <1>4 DEF LogOK, Greatest
  <2>2. ApplyCommitted(sm[n], l, c) \in Seq(Entries)
    BY <1>3, <1>4, ApplyLemma DEF LogOK
  <2>3. sm' \in [Voters -> Seq(Entries)]
    BY <1>1, <2>2 DEF LogOK
  <2> QED  BY <1>1, <1>3, <2>1, <2>3, LogUpdateLemma DEF LogOK
<1>6. AppendResp(n, m.from, m.term, TRUE, LastIndex(l), 0) \in GoodMessages
  BY <1>2, <1>4, ResponseLemma
<1>7. MsgsOK'
  BY <1>1, <1>6, SendLemma
<1>8. HardOK' /\ SoftOK'
  BY <1>1, <1>2, ObserveLemma, FollowerLemma DEF SoftOK
<1> QED  BY <1>1, <1>5, <1>7, <1>8 DEF leaderVars, LeaderOK, ElectedOK, SpentOK

LEMMA HandleAppendRefusedLemma ==
  ASSUME TypeInv, NEW n \in Voters, NEW m \in msgs, HandleAppendRefused(n, m)
  PROVE  TypeInv'
<1> USE DEF TypeInv
<1>1. m.type = "AppendEntries" /\ m.from \in Voters /\ m.term \in Nat
  BY MessageLemma DEF HandleAppendRefused, MsgsOK
<1>2. LogOK'
  BY <1>1, KeptLemma, LogUpdateLemma DEF HandleAppendRefused, LogOK
<1>3. HardOK' /\ SoftOK'
  BY <1>1, ObserveLemma, FollowerLemma DEF HandleAppendRefused, SoftOK
<1>4. SpentOK'
  BY SpendLemma DEF HandleAppendRefused, SpentOK, Events
<1> QED  BY <1>2, <1>3, <1>4 DEF HandleAppendRefused, leaderVars, LeaderOK, MsgsOK,
                                 ElectedOK

\* A bounded nonempty set of naturals has a greatest element.
LEMMA GreatestLemma ==
  ASSUME NEW S, S # {}, NEW b \in Nat, S \subseteq 0..b
  PROVE  \E x \in S : \A y \in S : y <= x
<1> DEFINE T == {k \in Nat : b - k \in S}
           R == OpToRel(<, Nat)
<1>1. T # {}
  <2>1. PICK x \in S : TRUE
    OBVIOUS
  <2>2. b - x \in Nat /\ b - (b - x) = x
    BY <2>1
  <2> QED  BY <2>1, <2>2
<1>2. PICK k \in T : \A j \in T : ~(<<j, k>> \in R)
  BY <1>1, WFMin, NatLessThanWellFounded
<1>3. ASSUME NEW y \in S
      PROVE  y <= b - k
  <2>1. b - y \in T
    OBVIOUS
  <2>2. ~(b - y < k)
    BY <1>2, <2>1 DEF OpToRel
  <2> QED  BY <2>2
<1> QED  BY <1>2, <1>3

LEMMA AdvanceCommitLemma ==
  ASSUME LogOK, NEW n \in Voters, NEW mt
  PROVE  AdvanceCommit(n, mt) \in Nat /\ AdvanceCommit(n, mt) >= commit[n]
<1> DEFINE held(i) == Cardinality({v \in Voters : mt[v] >= i}) >= Majority
           S == {i \in (commit[n] + 1)..LastIndex(log[n]) :
                   TermAt(log[n], i) = hard[n].term /\ held(i)}
<1>1. commit[n] \in Nat /\ LastIndex(log[n]) \in Nat
  BY LogLemma, EndsLemma DEF LogOK
<1>2. S \subseteq 0..LastIndex(log[n]) /\ \A i \in S : i \in Nat /\ i >= commit[n]
  BY <1>1
<1>3. AdvanceCommit(n, mt) =
        IF S = {} THEN commit[n] ELSE CHOOSE i \in S : \A j \in S : j <= i
  BY DEF AdvanceCommit
<1> HIDE DEF S
<1>4. S # {} => (CHOOSE i \in S : \A j \in S : j <= i) \in S
  BY <1>1, <1>2, GreatestLemma
<1>5. CASE S = {}
  BY <1>1, <1>3, <1>5
<1>6. CASE S # {}
  <2>1. AdvanceCommit(n, mt) \in S
    BY <1>3, <1>4, <1>6, Zenon
  <2> QED  BY <1>2, <2>1
<1> QED  BY <1>5, <1>6

LEMMA HandleAppendAcceptedLemma ==
  ASSUME TypeInv, NEW n \in Voters, NEW m \in msgs, HandleAppendAccepted(n, m)
  PROVE  TypeInv'
<1> USE DEF TypeInv
<1> DEFINE mt == [match[n] EXCEPT ![m.from] = m.match]
           c == AdvanceCommit(n, mt)
<1>1. /\ m.type = "AppendEntriesResp"
      /\ match' = [match EXCEPT ![n] = mt]
      /\ next' = [next EXCEPT ![n][m.from] = m.match + 1]
      /\ commit' = [commit EXCEPT ![n] = c]
      /\ sm' = [sm EXCEPT ![n] = ApplyCommitted(@, log[n], c)]
      /\ UNCHANGED <<hardVars, soft, log, snap, msgs, elected, spent>>
  BY DEF HandleAppendAccepted
<1>2. m.from \in Voters /\ m.match \in Nat
  BY <1>1, MessageLemma DEF MsgsOK
<1>3. LeaderOK'
  BY <1>1, <1>2 DEF LeaderOK
<1> HIDE DEF mt
<1>4. c \in Nat
  BY AdvanceCommitLemma
<1> HIDE DEF c
<1>5. LogOK'
  <2>1. ApplyCommitted(sm[n], log[n], c) \in Seq(Entries)
    BY <1>4, LogLemma, ApplyLemma DEF LogOK
  <2> QED  BY <1>1, <1>4, <2>1 DEF LogOK
<1> QED  BY <1>1, <1>3, <1>5 DEF hardVars, HardOK, SoftOK, MsgsOK, ElectedOK, SpentOK

LEMMA HandleAppendRejectedLemma ==
  ASSUME TypeInv, NEW n \in Voters, NEW m \in msgs, HandleAppendRejected(n, m)
  PROVE  TypeInv'
<1> USE DEF TypeInv
<1> DEFINE i == Greatest(Least(next[n][m.from], m.conflict), snap[n].index + 1)
<1>1. /\ m.type = "AppendEntriesResp"
      /\ next' = [next EXCEPT ![n][m.from] = i]
      /\ Send({AppendFor(n, m.from, hard[n].term, log[n], i)})
      /\ UNCHANGED <<hardVars, soft, logVars, match, elected, spent>>
  BY DEF HandleAppendRejected
<1>2. m.from \in Voters /\ m.conflict \in Nat /\ hard[n].term \in Nat
  BY <1>1, MessageLemma DEF MsgsOK, HardOK, HardState
<1>3. snap[n].index \in Nat /\ next[n][m.from] \in Nat
  BY <1>2 DEF LogOK, LeaderOK, Snapshots
<1>4. i \in Nat
  BY <1>2, <1>3 DEF Greatest, Least
<1> HIDE DEF i
<1>5. AppendFor(n, m.from, hard[n].term, log[n], i) \in GoodMessages
  BY <1>2, <1>4, LogLemma, AppendForLemma
<1>6. MsgsOK'
  BY <1>1, <1>5, SendLemma
<1>7. LeaderOK'
  BY <1>1, <1>2, <1>4 DEF LeaderOK
<1> QED  BY <1>1, <1>6, <1>7 DEF hardVars, logVars, HardOK, SoftOK, LogOK, ElectedOK, SpentOK

LEMMA HandleHigherAnswerLemma ==
  ASSUME TypeInv, NEW n \in Voters, NEW m \in msgs, HandleHigherAnswer(n, m)
  PROVE  TypeInv'
<1> USE DEF TypeInv
<1>1. m.term \in Nat
  BY MessageLemma DEF MsgsOK
<1>2. HardOK' /\ SoftOK'
  BY <1>1, ObserveLemma, FollowerLemma DEF HandleHigherAnswer, SoftOK
<1> QED  BY <1>2 DEF HandleHigherAnswer, logVars, leaderVars, LogOK, LeaderOK,
                     MsgsOK, ElectedOK, SpentOK

LEMMA MaybeSnapshotLemma ==
  ASSUME TypeInv, NEW n \in Voters, MaybeSnapshot(n)
  PROVE  TypeInv'
<1> USE DEF TypeInv
<1> DEFINE upto == Len(sm[n])
           t == IF Has(log[n], upto) THEN TermAt(log[n], upto) ELSE sm[n][upto].term
           s == [index |-> upto, term |-> t, sm |-> sm[n]]
<1>1. /\ upto > snap[n].index
      /\ snap' = [snap EXCEPT ![n] = s]
      /\ log' = [log EXCEPT ![n] = CompactUpto(@, upto)]
      /\ UNCHANGED <<hardVars, soft, commit, sm, leaderVars, msgs, elected, spent>>
  BY DEF MaybeSnapshot
<1>2. sm[n] \in Seq(Entries) /\ snap[n].index \in Nat
  BY DEF LogOK, Snapshots
<1>3. upto \in Nat
  BY <1>2, LenProperties
<1>4. t \in Nat
  <2>1. upto \in 1..Len(sm[n])
    BY <1>1, <1>2, <1>3
  <2>2. sm[n][upto] \in Entries
    BY <1>2, <2>1, ElementOfSeq
  <2>3. sm[n][upto].term \in Nat
    BY <2>2 DEF Entries
  <2> QED  BY <1>3, <2>3, LogLemma, TermAtLemma
<1> HIDE DEF upto, t
<1>5. s \in Snapshots
  BY <1>2, <1>3, <1>4 DEF Snapshots
<1> HIDE DEF s
<1>6. upto + 1 \in Nat
  BY <1>3
<1>7. IsLog(CompactUpto(log[n], upto))
  BY <1>6, LogLemma, EntriesFromLemma DEF CompactUpto
<1>8. LogOK'
  BY <1>1, <1>5, <1>7, LogUpdateLemma DEF LogOK
<1> QED  BY <1>1, <1>8 DEF hardVars, leaderVars, HardOK, SoftOK, LeaderOK, MsgsOK,
                           ElectedOK, SpentOK

LEMMA HandleInstallSnapshotLemma ==
  ASSUME TypeInv, NEW n \in Voters, NEW m \in msgs, HandleInstallSnapshot(n, m)
  PROVE  TypeInv'
<1> USE DEF TypeInv
<1>1. m.type = "InstallSnapshot" /\ m.from \in Voters /\ m.term \in Nat
        /\ m.snap \in Snapshots
  BY MessageLemma DEF HandleInstallSnapshot, MsgsOK
<1>2. m.snap.index \in Nat /\ m.snap.sm \in Seq(Entries) /\ snap[n].index \in Nat
  BY <1>1 DEF LogOK, Snapshots
<1>3. HardOK' /\ SoftOK'
  BY <1>1, ObserveLemma, FollowerLemma DEF HandleInstallSnapshot, SoftOK
<1>4. /\ SnapshotResp(n, m.from, m.term, m.snap.index) \in GoodMessages
      /\ SnapshotResp(n, m.from, m.term, snap[n].index) \in GoodMessages
  BY <1>1, <1>2, ResponseLemma
<1>5. MsgsOK'
  BY <1>4, SendLemma DEF HandleInstallSnapshot
<1>6. LogOK'
  <2>1. CASE /\ snap' = [snap EXCEPT ![n] = m.snap]
             /\ sm' = [sm EXCEPT ![n] = m.snap.sm]
             /\ log' = [log EXCEPT ![n] = CompactUpto(@, m.snap.index)]
             /\ commit' = [commit EXCEPT ![n] = Greatest(@, m.snap.index)]
    <3>1. m.snap.index + 1 \in Nat
      BY <1>2
    <3>2. IsLog(CompactUpto(log[n], m.snap.index))
      BY <3>1, LogLemma, EntriesFromLemma DEF CompactUpto
    <3>3. /\ log' \in [Voters -> Seq(Entries)]
          /\ \A v \in Voters : Contiguous(log'[v])
      BY <2>1, <3>2, LogUpdateLemma
    <3>4. commit' \in [Voters -> Nat]
      BY <1>2, <2>1 DEF LogOK, Greatest
    <3> QED  BY <1>1, <1>2, <2>1, <3>3, <3>4 DEF LogOK
  <2>2. CASE UNCHANGED logVars
    BY <2>2 DEF logVars, LogOK
  <2> QED  BY <2>1, <2>2 DEF HandleInstallSnapshot
<1> QED  BY <1>3, <1>5, <1>6 DEF HandleInstallSnapshot, leaderVars, LeaderOK,
                                 ElectedOK, SpentOK

LEMMA HandleSnapshotInstalledLemma ==
  ASSUME TypeInv, NEW n \in Voters, NEW m \in msgs, HandleSnapshotInstalled(n, m)
  PROVE  TypeInv'
<1> USE DEF TypeInv
<1>1. m.from \in Voters /\ m.index \in Nat
  BY MessageLemma DEF HandleSnapshotInstalled, MsgsOK
<1>2. LeaderOK'
  BY <1>1 DEF HandleSnapshotInstalled, LeaderOK
<1> QED  BY <1>2 DEF HandleSnapshotInstalled, hardVars, logVars, HardOK, SoftOK, LogOK,
                     MsgsOK, ElectedOK, SpentOK

LEMMA StepDownLemma ==
  ASSUME TypeInv, NEW n \in Voters, StepDown(n)
  PROVE  TypeInv'
<1> USE DEF TypeInv
<1>1. PICK appended \in BOOLEAN, p \in Others(n) :
        LET l == IF appended THEN WithOp(n, Noop) ELSE log[n]
        IN /\ Spend(IF appended THEN "stepDown" ELSE "appendFail")
           /\ log' = [log EXCEPT ![n] = l]
           /\ match' = [match EXCEPT ![n][n] = IF appended THEN LastIndex(l) ELSE @]
           /\ Send(Broadcast(n, hard[n].term, l, next[n]) \cup
                   {TimeoutNow(n, v, hard[n].term) :
                      v \in {u \in {p} : match[n][u] >= LastIndex(l)}})
           /\ soft' = [soft EXCEPT ![n] = FollowerOf(None)]
           /\ UNCHANGED <<hardVars, snap, commit, sm, next, elected>>
  BY DEF StepDown
<1> DEFINE l == IF appended THEN WithOp(n, Noop) ELSE log[n]
           e == IF appended THEN "stepDown" ELSE "appendFail"
           handover == {TimeoutNow(n, v, hard[n].term) :
                          v \in {u \in {p} : match[n][u] >= LastIndex(l)}}
<1>2. hard[n].term \in Nat /\ next[n] \in [Voters -> Nat] /\ p \in Voters
  BY DEF HardOK, HardState, LeaderOK, Others
<1>3. IsLog(l)
  BY WithOpLemma, LogLemma
<1> HIDE DEF l
<1>4. LastIndex(l) \in Nat
  BY <1>3, EndsLemma
<1>5. LogOK'
  BY <1>1, <1>3, LogUpdateLemma DEF LogOK, l
<1>6. LeaderOK'
  BY <1>1, <1>4 DEF LeaderOK, l
<1>7. MsgsOK'
  <2>1. Broadcast(n, hard[n].term, l, next[n]) \subseteq GoodMessages
    BY <1>2, <1>3, BroadcastLemma
  <2>2. handover \subseteq GoodMessages
    BY <1>2, ResponseLemma
  <2>3. Send(Broadcast(n, hard[n].term, l, next[n]) \cup handover)
    BY <1>1 DEF l
  <2> HIDE DEF handover
  <2>4. Broadcast(n, hard[n].term, l, next[n]) \cup handover \subseteq GoodMessages
    BY <2>1, <2>2
  <2> QED  BY <2>3, <2>4, SendLemma
<1>8. SpentOK'
  <2>1. e \in Events /\ Spend(e)
    BY <1>1 DEF Events
  <2> QED  BY <2>1, SpendLemma
<1>9. SoftOK'
  BY <1>1, FollowerLemma DEF SoftOK
<1> QED  BY <1>1, <1>5, <1>6, <1>7, <1>8, <1>9 DEF hardVars, HardOK, ElectedOK

LEMMA RestartLemma ==
  ASSUME TypeInv, NEW n \in Voters, Restart(n)
  PROVE  TypeInv'
<1> USE DEF TypeInv
<1>1. HardOK' /\ SoftOK'
  BY FollowerLemma DEF Restart, HardOK, SoftOK
<1>2. snap[n].index \in Nat /\ snap[n].sm \in Seq(Entries)
  BY DEF LogOK, Snapshots
<1>3. LogOK'
  BY <1>2 DEF Restart, LogOK
<1>4. LeaderOK'
  BY DEF Restart, LeaderOK
<1>5. SpentOK'
  BY SpendLemma DEF Restart, Events
<1> QED  BY <1>1, <1>3, <1>4, <1>5 DEF Restart, MsgsOK, ElectedOK

LEMMA PersistFailsLemma ==
  ASSUME TypeInv, NEW n \in Voters, NEW f \in HardState, NEW h \in HardState,
         PersistFails(n, f, h)
  PROVE  /\ HardOK' /\ LogOK' /\ LeaderOK' /\ MsgsOK' /\ ElectedOK' /\ SpentOK'
<1> USE DEF TypeInv
<1>1. PICK d \in {f, h} :
        /\ disk' = [disk EXCEPT ![n] = d]
        /\ ballots' = IF d = h /\ h.vote # None
                      THEN ballots \cup {Ballot(n, h)} ELSE ballots
  BY DEF PersistFails
<1>2. h.vote # None => Ballot(n, h) \in [voter : Voters, term : Nat, cand : Voters]
  BY DEF Ballot, HardState
<1>3. hard' \in [Voters -> HardState] /\ disk' \in [Voters -> HardState]
  BY <1>1 DEF PersistFails, HardOK
<1>4. HardOK'
  BY <1>1, <1>2, <1>3 DEF HardOK
<1>5. SpentOK'
  BY SpendLemma DEF PersistFails, Events
<1> QED  BY <1>4, <1>5 DEF PersistFails, logVars, leaderVars, LogOK, LeaderOK, MsgsOK,
                           ElectedOK

LEMMA HandleFailsLemma ==
  ASSUME TypeInv, NEW n \in Voters, NEW m \in msgs, HandleFails(n, m)
  PROVE  TypeInv'
<1> USE DEF TypeInv
<1> DEFINE h == Seen(n, m.term)
           f == FileSeen(n, m.term)
<1>1. m.from \in Voters /\ m.term \in Nat
  BY MessageLemma DEF MsgsOK
<1>2. h \in HardState /\ f \in HardState /\ disk[n] \in HardState /\ soft[n] \in SoftState
  BY <1>1, SeenLemma DEF FileSeen, HardOK, SoftOK
<1>3. SoftSeen(n, m.term) \in SoftState
  BY <1>2, FollowerLemma DEF SoftSeen
<1>4. CASE ObserveFails(n, m)
  <2>1. PersistFails(n, disk[n], h) /\ UNCHANGED soft
    BY <1>4 DEF ObserveFails
  <2> HIDE DEF h
  <2> QED  BY <1>2, <2>1, PersistFailsLemma DEF SoftOK
<1>5. CASE GrantFails(n, m)
  <2>1. /\ PersistFails(n, f, [h EXCEPT !.vote = m.from])
        /\ soft' = [soft EXCEPT ![n] = SoftSeen(n, m.term)]
    BY <1>5 DEF GrantFails
  <2> HIDE DEF h, f
  <2>2. [h EXCEPT !.vote = m.from] \in HardState
    BY <1>1, <1>2 DEF HardState
  <2> QED  BY <1>2, <1>3, <2>1, <2>2, PersistFailsLemma DEF SoftOK
<1>6. CASE ElectionFails(n, m)
  <2>1. PersistFails(n, f, [term |-> h.term + 1, vote |-> n])
    BY <1>6 DEF ElectionFails
  <2>2. SoftOK'
    <3>1. CASE soft' = [soft EXCEPT ![n].pre = @ \cup {m.from}]
      BY <1>1, <3>1 DEF SoftOK, SoftState
    <3>2. CASE soft' = [soft EXCEPT ![n] = SoftSeen(n, m.term)]
      BY <1>3, <3>2 DEF SoftOK
    <3> QED  BY <1>6, <3>1, <3>2 DEF ElectionFails
  <2> HIDE DEF h, f
  <2>3. [term |-> h.term + 1, vote |-> n] \in HardState
    BY <1>2 DEF HardState
  <2> QED  BY <1>2, <2>1, <2>2, <2>3, PersistFailsLemma
<1> QED  BY <1>4, <1>5, <1>6 DEF HandleFails

-----------------------------------------------------------------------------
LEMMA TypeInit == Init => TypeInv
<1> SUFFICES ASSUME Init PROVE TypeInv
  OBVIOUS
<1>1. HardOK
  BY DEF Init, HardOK, HardState
<1>2. SoftOK
  BY FollowerLemma DEF Init, SoftOK
<1>3. <<>> \in Seq(Entries) /\ Contiguous(<<>>)
  BY EmptySeq DEF Contiguous
<1>4. LogOK
  BY <1>3 DEF Init, LogOK, Snapshots
<1> QED  BY <1>1, <1>2, <1>4 DEF Init, TypeInv, LeaderOK, MsgsOK, ElectedOK, SpentOK

LEMMA HandleLemma ==
  ASSUME TypeInv, NEW n \in Voters, NEW m \in msgs, Handle(n, m)
  PROVE  TypeInv'
BY HandlePreVoteLemma, HandleRequestVoteLemma, HandleProbeGrantedLemma,
   HandleVoteGrantedLemma, HandleLastVoteLemma, HandleVoteIgnoredLemma,
   HandleTimeoutNowLemma, HandleAppendStaleLemma, HandleAppendMismatchLemma,
   HandleAppendLemma, HandleAppendRefusedLemma, HandleAppendAcceptedLemma,
   HandleAppendRejectedLemma, HandleHigherAnswerLemma,
   HandleInstallSnapshotLemma, HandleSnapshotInstalledLemma DEF Handle

LEMMA TypeStep == TypeInv /\ [Next]_vars => TypeInv'
<1> SUFFICES ASSUME TypeInv, [Next]_vars PROVE TypeInv'
  OBVIOUS
<1>1. CASE UNCHANGED vars
  BY <1>1 DEF vars, hardVars, logVars, leaderVars, TypeInv, HardOK, SoftOK, LogOK,
              LeaderOK, MsgsOK, ElectedOK, SpentOK
<1>2. ASSUME NEW n \in Voters, NodeStep(n)
      PROVE  TypeInv'
  <2>1. CASE Tick(n)
    BY <2>1, TimeoutLemma, HeartbeatLemma DEF Tick
  <2>2. ASSUME NEW m \in msgs, Handle(n, m) \/ HandleFails(n, m)
        PROVE  TypeInv'
    BY <2>2, HandleLemma, HandleFailsLemma
  <2> QED  BY <1>2, <2>1, <2>2, StepDownLemma, MaybeSnapshotLemma DEF NodeStep
<1>3. ASSUME NEW n \in Voters, NEW op \in Ops, Propose(n, op)
      PROVE  TypeInv'
  BY <1>3, ProposeLemma
<1>4. ASSUME NEW n \in Voters, Restart(n)
      PROVE  TypeInv'
  BY <1>4, RestartLemma
<1> QED  BY <1>1, <1>2, <1>3, <1>4 DEF Next

LEMMA TypeInvariant == Spec => []TypeInv
BY TypeInit, TypeStep, PTL DEF Spec

\* Every variable of raft.rs keeps its type under any interleaving of ticks,
\* messages, crashes and failed writes, for any number of voters.
THEOREM TypeCorrect == Spec => []TypeOK
BY TypeInvariant, TypeInvLemma, PTL

\* Every entry list and every batch on the wire counts up by one, so the offsets
\* log.rs computes find the entries they are meant to.
THEOREM LogsStayContiguous == Spec => []LogContiguous
BY TypeInvariant, TypeInvLemma, PTL
-----------------------------------------------------------------------------
(***************************************************************************)
(* One ballot per voter and term and one winner per term, for any number of *)
(* voters, up to the first write of hard_state.json that fails.  (After one *)
(* failed write, OneLeaderPerTerm does not hold: MCRaft_unrecorded.cfg.)    *)
(*                                                                          *)
(* The difficulty is that a probe's answer and a vote's answer are the same *)
(* message and carry the same term.  What separates them is Past: by the    *)
(* time a probe for term t+1 is on the wire, its sender will never again    *)
(* collect votes of term t.                                                 *)
(***************************************************************************)

Collecting(n) == soft[n].role = "Candidate" /\ soft[n].campaign = "Vote"

\* n does not count an answer of term t, now or later.
Past(n, t) == hard[n].term > t \/ (hard[n].term = t /\ ~Collecting(n))

BallotFor(v, t, c) == [voter |-> v, term |-> t, cand |-> c]

\* hard_state.json is never behind memory.
Recorded == disk = hard

\* A recorded ballot is the one the voter's hard state still shows, or older.
BallotsShown ==
  \A b \in ballots :
    /\ b.term <= hard[b.voter].term
    /\ b.term = hard[b.voter].term => hard[b.voter].vote = b.cand

\* Whoever a candidate counts has recorded a ballot for it.
VotesBacked ==
  \A n \in Voters : Collecting(n) =>
    \A v \in soft[n].votes : BallotFor(v, hard[n].term, n) \in ballots

\* A probe was sent by a node past the term before the one it probes for.
ProbesPast ==
  \A m \in msgs : m.type = "RequestVote" /\ m.pre =>
    m.term >= 1 /\ Past(m.from, m.term - 1)

\* A granted answer is backed by a ballot, or comes too late to be counted.
GrantsBacked ==
  \A m \in msgs : m.type = "RequestVoteResp" /\ m.granted =>
    BallotFor(m.from, m.term, m.to) \in ballots \/ Past(m.to, m.term)

LeadersElected ==
  \A n \in Voters : IsLeader(n) => [term |-> hard[n].term, leader |-> n] \in elected

Backed(e) ==
  \E Q \in SUBSET Voters :
    /\ Cardinality(Q) >= Majority
    /\ \A v \in Q : BallotFor(v, e.term, e.leader) \in ballots

WinnersBacked == \A e \in elected : Backed(e)

ElectionInv ==
  /\ Recorded /\ BallotsShown /\ OneBallotPerTerm
  /\ VotesBacked /\ ProbesPast /\ GrantsBacked
  /\ LeadersElected /\ WinnersBacked

\* Inductive: it speaks of behaviours up to the first failed write.
RecordedInv == NothingUnrecorded => ElectionInv

-----------------------------------------------------------------------------
(* What a step may do to one node's hard and soft state. *)

\* The hard state of n moves to h: a later term, or a vote where there was none.
Grows(n, h) ==
  \/ h.term > hard[n].term
  \/ h.term = hard[n].term /\ hard[n].vote \in {None, h.vote}

\* n collects votes of a term only if it did before, or starts that term now.
SoftStep(n) ==
  /\ \A v \in Voters : v # n => soft'[v] = soft[v]
  /\ Collecting(n)' => \/ hard'[n].term > hard[n].term
                       \/ Collecting(n) /\ hard'[n].term = hard[n].term

LEMMA PersistGrows ==
  ASSUME TypeInv, Recorded, BallotsShown, OneBallotPerTerm,
         NEW n \in Voters, NEW h \in HardState, NEW written \in BOOLEAN,
         Persist(n, h, written), Grows(n, h), ~written => h = hard[n]
  PROVE  /\ Recorded' /\ BallotsShown' /\ OneBallotPerTerm'
         /\ ballots \subseteq ballots'
         /\ hard'[n] = h
         /\ \A v \in Voters : v # n => hard'[v] = hard[v]
         /\ hard'[n].term >= hard[n].term
         /\ written /\ h.vote # None => Ballot(n, h) \in ballots'
<1>1. /\ hard \in [Voters -> HardState] /\ disk \in [Voters -> HardState]
      /\ ballots \in SUBSET [voter : Voters, term : Nat, cand : Voters]
  BY DEF TypeInv, HardOK
<1>2. /\ hard' = [hard EXCEPT ![n] = h]
      /\ disk' = IF written THEN [disk EXCEPT ![n] = h] ELSE disk
      /\ ballots' = IF written /\ h.vote # None
                    THEN ballots \cup {Ballot(n, h)} ELSE ballots
  BY DEF Persist
<1>3. h.term \in Nat /\ hard[n].term \in Nat
  BY <1>1 DEF HardState
<1>4. /\ hard'[n] = h /\ \A v \in Voters : v # n => hard'[v] = hard[v]
      /\ hard'[n].term >= hard[n].term
      /\ ballots \subseteq ballots'
      /\ written /\ h.vote # None => Ballot(n, h) \in ballots'
  BY <1>1, <1>2, <1>3 DEF Grows
<1>5. Recorded'
  BY <1>1, <1>2 DEF Recorded
<1>6. ASSUME NEW b \in ballots
      PROVE  /\ b.term <= hard'[b.voter].term
             /\ b.term = hard'[b.voter].term => hard'[b.voter].vote = b.cand
  <2>1. b.voter \in Voters /\ b.term \in Nat /\ b.cand \in Voters
    BY <1>1
  <2>2. /\ b.term <= hard[b.voter].term
        /\ b.term = hard[b.voter].term => hard[b.voter].vote = b.cand
    BY DEF BallotsShown
  <2>3. CASE b.voter = n
    BY <1>3, <1>4, <2>1, <2>2, <2>3, NoneAssumption DEF Grows
  <2>4. CASE b.voter # n
    BY <1>4, <2>1, <2>2, <2>4
  <2> QED  BY <2>3, <2>4
<1>7. BallotsShown'
  BY <1>2, <1>3, <1>4, <1>6 DEF BallotsShown, Ballot
<1>8. OneBallotPerTerm'
  <2>1. CASE written /\ h.vote # None
    <3>1. ASSUME NEW b \in ballots, b.voter = n, b.term = h.term
          PROVE  b.cand = h.vote
      BY <1>4, <1>6, <3>1
    <3>2. ballots' = ballots \cup {Ballot(n, h)}
      BY <1>2, <2>1
    <3> QED  BY <3>1, <3>2 DEF OneBallotPerTerm, Ballot
  <2>2. CASE ~(written /\ h.vote # None)
    BY <1>2, <2>2 DEF OneBallotPerTerm
  <2> QED  BY <2>1, <2>2
<1> QED  BY <1>4, <1>5, <1>7, <1>8

\* Past is forever, and ballots are never taken back.
LEMMA PastLemma ==
  ASSUME TypeInv, TypeInv', NEW n \in Voters, SoftStep(n),
         \A v \in Voters : v # n => hard'[v] = hard[v],
         hard'[n].term >= hard[n].term,
         NEW c \in Voters, NEW t \in Nat, Past(c, t)
  PROVE  Past(c, t)'
<1>1. /\ hard[c].term \in Nat /\ hard'[c].term \in Nat
      /\ hard[n].term \in Nat /\ hard'[n].term \in Nat
  BY DEF TypeInv, HardOK, HardState
<1>2. CASE c = n
  BY <1>1, <1>2 DEF Past, SoftStep
<1>3. CASE c # n
  BY <1>1, <1>3 DEF Past, SoftStep, Collecting
<1> QED  BY <1>2, <1>3

\* What remains to be shown of a step of n: its own votes, its own leadership,
\* and the messages and winners it adds.
LEMMA CarryLemma ==
  ASSUME TypeInv, TypeInv', ElectionInv, NEW n \in Voters, SoftStep(n),
         \A v \in Voters : v # n => hard'[v] = hard[v],
         hard'[n].term >= hard[n].term,
         ballots \subseteq ballots', elected \subseteq elected',
         Collecting(n)' =>
           \A v \in soft'[n].votes : BallotFor(v, hard'[n].term, n) \in ballots',
         IsLeader(n)' => [term |-> hard'[n].term, leader |-> n] \in elected',
         \A m \in msgs' \ msgs :
           /\ m.type = "RequestVote" /\ m.pre =>
                m.term >= 1 /\ Past(m.from, m.term - 1)'
           /\ m.type = "RequestVoteResp" /\ m.granted =>
                BallotFor(m.from, m.term, m.to) \in ballots' \/ Past(m.to, m.term)',
         \A e \in elected' \ elected : Backed(e)'
  PROVE  /\ VotesBacked' /\ ProbesPast' /\ GrantsBacked'
         /\ LeadersElected' /\ WinnersBacked'
<1>1. VotesBacked'
  <2> SUFFICES ASSUME NEW c \in Voters, Collecting(c)', NEW v \in soft'[c].votes
               PROVE  BallotFor(v, hard'[c].term, c) \in ballots'
    BY DEF VotesBacked, BallotFor
  <2>1. CASE c = n
    BY <2>1
  <2>2. CASE c # n
    BY <2>2 DEF SoftStep, Collecting, ElectionInv, VotesBacked
  <2> QED  BY <2>1, <2>2
<1>2. ProbesPast'
  <2> SUFFICES ASSUME NEW m \in msgs', m.type = "RequestVote", m.pre
               PROVE  m.term >= 1 /\ Past(m.from, m.term - 1)'
    BY DEF ProbesPast, Past, Collecting
  <2>1. CASE m \notin msgs
    BY <2>1
  <2>2. CASE m \in msgs
    <3>1. m.term >= 1 /\ Past(m.from, m.term - 1)
      BY <2>2 DEF ElectionInv, ProbesPast
    <3>2. m.from \in Voters /\ m.term \in Nat
      BY <2>2, MessageLemma DEF TypeInv, MsgsOK
    <3>3. m.term - 1 \in Nat
      BY <3>1, <3>2
    <3> QED  BY <3>1, <3>2, <3>3, PastLemma
  <2> QED  BY <2>1, <2>2
<1>3. GrantsBacked'
  <2> SUFFICES ASSUME NEW m \in msgs', m.type = "RequestVoteResp", m.granted
               PROVE  \/ BallotFor(m.from, m.term, m.to) \in ballots'
                      \/ Past(m.to, m.term)'
    BY DEF GrantsBacked, Past, Collecting, BallotFor
  <2>1. CASE m \notin msgs
    BY <2>1
  <2>2. CASE m \in msgs
    <3>1. BallotFor(m.from, m.term, m.to) \in ballots \/ Past(m.to, m.term)
      BY <2>2 DEF ElectionInv, GrantsBacked
    <3>2. m.to \in Voters /\ m.term \in Nat
      BY <2>2, MessageLemma DEF TypeInv, MsgsOK
    <3> QED  BY <3>1, <3>2, PastLemma
  <2> QED  BY <2>1, <2>2
<1>4. LeadersElected'
  <2> SUFFICES ASSUME NEW c \in Voters, IsLeader(c)'
               PROVE  [term |-> hard'[c].term, leader |-> c] \in elected'
    BY DEF LeadersElected
  <2>1. CASE c = n
    BY <2>1
  <2>2. CASE c # n
    BY <2>2 DEF SoftStep, IsLeader, ElectionInv, LeadersElected
  <2> QED  BY <2>1, <2>2
<1>5. WinnersBacked'
  <2> SUFFICES ASSUME NEW e \in elected'
               PROVE  Backed(e)'
    BY DEF WinnersBacked, Backed, BallotFor, Majority
  <2>1. CASE e \notin elected
    BY <2>1
  <2>2. CASE e \in elected
    <3>1. PICK Q \in SUBSET Voters :
            /\ Cardinality(Q) >= Majority
            /\ \A v \in Q : BallotFor(v, e.term, e.leader) \in ballots
      BY <2>2 DEF ElectionInv, WinnersBacked, Backed
    <3> QED  BY <3>1 DEF Backed
  <2> QED  BY <2>1, <2>2
<1> QED  BY <1>1, <1>2, <1>3, <1>4, <1>5

-----------------------------------------------------------------------------
(* Steps that take no part in an election. *)

\* n keeps its role or becomes a follower, and follows any term it moves to.
QuietSoft(n) ==
  /\ \A v \in Voters : v # n => soft'[v] = soft[v]
  /\ soft'[n] = soft[n] \/ soft'[n].role = "Follower"

QuietHard(n) ==
  \/ UNCHANGED hardVars
  \/ \E t \in Nat : Observe(n, t) /\ (t > hard[n].term => soft'[n].role = "Follower")

QuietMsgs ==
  \A m \in msgs' \ msgs : m.type \notin {"RequestVote", "RequestVoteResp"}

LEMMA QuietLemma ==
  ASSUME TypeInv, TypeInv', ElectionInv, NEW n \in Voters,
         QuietSoft(n), QuietHard(n), QuietMsgs, UNCHANGED elected
  PROVE  ElectionInv'
<1>1. hard \in [Voters -> HardState] /\ soft \in [Voters -> SoftState]
        /\ hard[n].term \in Nat
  BY DEF TypeInv, HardOK, SoftOK, HardState
<1> DEFINE HardStep ==
      /\ Recorded' /\ BallotsShown' /\ OneBallotPerTerm'
      /\ ballots \subseteq ballots'
      /\ \A v \in Voters : v # n => hard'[v] = hard[v]
      /\ hard'[n].term >= hard[n].term
      /\ \/ hard'[n].term = hard[n].term
         \/ hard'[n].term > hard[n].term /\ soft'[n].role = "Follower"
<1>2. HardStep
  <2>1. CASE UNCHANGED hardVars
    BY <1>1, <2>1 DEF hardVars, ElectionInv, Recorded, BallotsShown, OneBallotPerTerm
  <2>2. ASSUME NEW t \in Nat, Observe(n, t), t > hard[n].term => soft'[n].role = "Follower"
        PROVE  HardStep
    <3>1. Seen(n, t) \in HardState /\ Grows(n, Seen(n, t)) /\ (t > hard[n].term) \in BOOLEAN
            /\ (~(t > hard[n].term) => Seen(n, t) = hard[n])
      BY <1>1, SeenLemma DEF TypeInv, Seen, Grows
    <3>2. Persist(n, Seen(n, t), t > hard[n].term)
      BY <2>2 DEF Observe
    <3>3. /\ Recorded' /\ BallotsShown' /\ OneBallotPerTerm'
          /\ ballots \subseteq ballots'
          /\ hard'[n] = Seen(n, t)
          /\ \A v \in Voters : v # n => hard'[v] = hard[v]
          /\ hard'[n].term >= hard[n].term
      BY <3>1, <3>2, PersistGrows DEF ElectionInv
    <3> QED  BY <1>1, <2>2, <3>3 DEF Seen
  <2> QED  BY <2>1, <2>2 DEF QuietHard
<1>3. SoftStep(n)
  BY <1>2 DEF QuietSoft, SoftStep, Collecting
<1>4. Collecting(n)' =>
        \A v \in soft'[n].votes : BallotFor(v, hard'[n].term, n) \in ballots'
  BY <1>2 DEF QuietSoft, Collecting, ElectionInv, VotesBacked
<1>5. IsLeader(n)' => [term |-> hard'[n].term, leader |-> n] \in elected'
  BY <1>2 DEF QuietSoft, IsLeader, ElectionInv, LeadersElected
<1>6. /\ VotesBacked' /\ ProbesPast' /\ GrantsBacked'
      /\ LeadersElected' /\ WinnersBacked'
  <2>1. \A m \in msgs' \ msgs :
           /\ m.type = "RequestVote" /\ m.pre =>
                m.term >= 1 /\ Past(m.from, m.term - 1)'
           /\ m.type = "RequestVoteResp" /\ m.granted =>
                BallotFor(m.from, m.term, m.to) \in ballots' \/ Past(m.to, m.term)'
    BY DEF QuietMsgs
  <2>2. elected \subseteq elected' /\ \A e \in elected' \ elected : Backed(e)'
    OBVIOUS
  <2> QED  BY <1>2, <1>3, <1>4, <1>5, <2>1, <2>2, CarryLemma
<1> QED  BY <1>2, <1>6 DEF ElectionInv

\* Replication sends no probe, no vote request and no answer to one.
LEMMA KindsLemma ==
  /\ \A n, to, t, l, i : AppendFor(n, to, t, l, i).type
                           \in {"AppendEntries", "InstallSnapshot"}
  /\ \A n, to, t, s, i, j : AppendResp(n, to, t, s, i, j).type = "AppendEntriesResp"
  /\ \A n, to, t, i : SnapshotResp(n, to, t, i).type = "InstallSnapshotResp"
  /\ \A n, to, t : TimeoutNow(n, to, t).type = "TimeoutNow"
BY DEF AppendFor, AppendResp, SnapshotResp, TimeoutNow

LEMMA QuietSend ==
  ASSUME NEW ms, Send(ms),
         \A m \in ms : m.type \notin {"RequestVote", "RequestVoteResp"}
  PROVE  QuietMsgs
BY DEF Send, QuietMsgs

LEMMA BroadcastQuiet ==
  ASSUME NEW n, NEW t, NEW l, NEW nx, NEW m \in Broadcast(n, t, l, nx)
  PROVE  m.type \notin {"RequestVote", "RequestVoteResp"}
BY KindsLemma DEF Broadcast

LEMMA FollowsLemma ==
  ASSUME SoftOK, NEW n \in Voters, NEW l, soft' = [soft EXCEPT ![n] = FollowerOf(l)]
  PROVE  QuietSoft(n) /\ soft'[n].role = "Follower"
BY DEF SoftOK, QuietSoft, FollowerOf

\* Handlers of replication messages.
LEMMA HandleQuiet ==
  ASSUME TypeInv, TypeInv', ElectionInv, NEW n \in Voters, NEW m \in msgs,
         \/ HandleVoteIgnored(n, m) \/ HandleHigherAnswer(n, m)
         \/ HandleAppendStale(n, m) \/ HandleAppendMismatch(n, m)
         \/ HandleAppend(n, m) \/ HandleAppendRefused(n, m)
         \/ HandleAppendAccepted(n, m) \/ HandleAppendRejected(n, m)
         \/ HandleInstallSnapshot(n, m) \/ HandleSnapshotInstalled(n, m)
  PROVE  ElectionInv'
<1>1. m.term \in Nat /\ SoftOK
  BY MessageLemma DEF TypeInv, MsgsOK
<1>2. CASE \/ HandleVoteIgnored(n, m) \/ HandleHigherAnswer(n, m)
           \/ HandleAppendRefused(n, m)
  <2>1. /\ Observe(n, m.term) /\ UNCHANGED <<msgs, elected>>
        /\ \E l : soft' = [soft EXCEPT ![n] = FollowerOf(l)]
    BY <1>2 DEF HandleVoteIgnored, HandleHigherAnswer, HandleAppendRefused
  <2>2. QuietSoft(n) /\ QuietHard(n) /\ QuietMsgs
    BY <1>1, <2>1, FollowsLemma DEF QuietHard, QuietMsgs
  <2> QED  BY <2>1, <2>2, QuietLemma
<1>3. CASE \/ HandleAppendMismatch(n, m) \/ HandleAppend(n, m)
  <2>1. /\ Observe(n, m.term) /\ UNCHANGED elected
        /\ soft' = [soft EXCEPT ![n] = FollowerOf(m.from)]
    BY <1>3 DEF HandleAppendMismatch, HandleAppend
  <2>2. QuietMsgs
    <3>1. \E s, i, j : Send({AppendResp(n, m.from, m.term, s, i, j)})
      BY <1>3 DEF HandleAppendMismatch, HandleAppend
    <3> QED  BY <3>1, KindsLemma, QuietSend
  <2>3. QuietSoft(n) /\ QuietHard(n)
    BY <1>1, <2>1, FollowsLemma DEF QuietHard
  <2> QED  BY <2>1, <2>2, <2>3, QuietLemma
<1>4. CASE HandleInstallSnapshot(n, m)
  <2>1. /\ Observe(n, m.term) /\ UNCHANGED elected
        /\ soft' = [soft EXCEPT ![n] = FollowerOf(m.from)]
    BY <1>4 DEF HandleInstallSnapshot
  <2>2. QuietMsgs
    <3>1. \E i : Send({SnapshotResp(n, m.from, m.term, i)})
      BY <1>4 DEF HandleInstallSnapshot
    <3> QED  BY <3>1, KindsLemma, QuietSend
  <2>3. QuietSoft(n) /\ QuietHard(n)
    BY <1>1, <2>1, FollowsLemma DEF QuietHard
  <2> QED  BY <2>1, <2>2, <2>3, QuietLemma
<1>5. CASE HandleAppendStale(n, m)
  <2>1. UNCHANGED <<hardVars, soft, elected>>
    BY <1>5 DEF HandleAppendStale
  <2>2. QuietMsgs
    <3>1. \E t, s, i, j : Send({AppendResp(n, m.from, t, s, i, j)})
      BY <1>5 DEF HandleAppendStale
    <3> QED  BY <3>1, KindsLemma, QuietSend
  <2> QED  BY <2>1, <2>2, QuietLemma DEF QuietSoft, QuietHard
<1>6. CASE HandleAppendRejected(n, m)
  <2>1. UNCHANGED <<hardVars, soft, elected>>
    BY <1>6 DEF HandleAppendRejected
  <2>2. QuietMsgs
    <3>1. \E i : Send({AppendFor(n, m.from, hard[n].term, log[n], i)})
      BY <1>6 DEF HandleAppendRejected
    <3> QED  BY <3>1, KindsLemma, QuietSend
  <2> QED  BY <2>1, <2>2, QuietLemma DEF QuietSoft, QuietHard
<1>7. CASE HandleAppendAccepted(n, m) \/ HandleSnapshotInstalled(n, m)
  <2>1. UNCHANGED <<hardVars, soft, msgs, elected>>
    BY <1>7 DEF HandleAppendAccepted, HandleSnapshotInstalled
  <2> QED  BY <2>1, QuietLemma DEF QuietSoft, QuietHard, QuietMsgs
<1> QED  BY <1>2, <1>3, <1>4, <1>5, <1>6, <1>7

\* Heartbeats, proposals, snapshots, step-downs and crashes.
LEMMA NodeQuiet ==
  ASSUME TypeInv, TypeInv', ElectionInv, NEW n \in Voters,
         \/ Heartbeat(n) \/ StepDown(n) \/ MaybeSnapshot(n) \/ Restart(n)
         \/ \E op \in Ops : Propose(n, op)
  PROVE  ElectionInv'
<1>1. SoftOK
  BY DEF TypeInv
<1>2. CASE Heartbeat(n) \/ \E op \in Ops : Propose(n, op)
  <2>1. UNCHANGED <<hardVars, soft, elected>>
    BY <1>2 DEF Heartbeat, Propose
  <2>2. PICK l : Send(Broadcast(n, hard[n].term, l, next[n]))
    BY <1>2 DEF Heartbeat, Propose
  <2>3. QuietMsgs
    BY <2>2, BroadcastQuiet, QuietSend
  <2> QED  BY <2>1, <2>3, QuietLemma DEF QuietSoft, QuietHard
<1>3. CASE StepDown(n)
  <2>1. /\ UNCHANGED <<hardVars, elected>>
        /\ soft' = [soft EXCEPT ![n] = FollowerOf(None)]
    BY <1>3 DEF StepDown
  <2>2. PICK l, S : Send(Broadcast(n, hard[n].term, l, next[n]) \cup
                         {TimeoutNow(n, v, hard[n].term) : v \in S})
    BY <1>3 DEF StepDown
  <2>3. QuietMsgs
    BY <2>2, BroadcastQuiet, KindsLemma, QuietSend
  <2> QED  BY <1>1, <2>1, <2>3, FollowsLemma, QuietLemma DEF QuietHard
<1>4. CASE MaybeSnapshot(n)
  <2>1. UNCHANGED <<hardVars, soft, msgs, elected>>
    BY <1>4 DEF MaybeSnapshot
  <2> QED  BY <2>1, QuietLemma DEF QuietSoft, QuietHard, QuietMsgs
<1>5. CASE Restart(n)
  <2>1. /\ hard' = [hard EXCEPT ![n] = disk[n]] /\ UNCHANGED <<disk, ballots, msgs, elected>>
        /\ soft' = [soft EXCEPT ![n] = FollowerOf(None)]
    BY <1>5 DEF Restart
  <2>2. hard' = hard
    BY <2>1 DEF ElectionInv, Recorded, TypeInv, HardOK
  <2>3. UNCHANGED hardVars
    BY <2>1, <2>2 DEF hardVars
  <2> QED  BY <1>1, <2>1, <2>3, FollowsLemma, QuietLemma DEF QuietHard, QuietMsgs
<1> QED  BY <1>2, <1>3, <1>4, <1>5

-----------------------------------------------------------------------------
(* Steps of an election. *)

LEMMA TimeoutElects ==
  ASSUME TypeInv, TypeInv', ElectionInv, NEW n \in Voters, Timeout(n)
  PROVE  ElectionInv'
<1>1. /\ UNCHANGED <<hard, disk, ballots, elected>>
      /\ soft' = [soft EXCEPT ![n] =
           [role |-> "Candidate", campaign |-> "PreVote", votes |-> {},
            pre |-> {n}, leader |-> None]]
      /\ msgs' = msgs \cup AskVotes(n, hard[n].term + 1, TRUE)
  BY DEF Timeout, hardVars, Send
<1>2. hard[n].term \in Nat /\ soft \in [Voters -> SoftState]
  BY DEF TypeInv, HardOK, HardState, SoftOK
<1>3. ~Collecting(n)' /\ ~IsLeader(n)' /\ SoftStep(n)
  BY <1>1, <1>2 DEF Collecting, IsLeader, SoftStep
<1>4. \A m \in msgs' \ msgs :
        m.type = "RequestVote" /\ m.from = n /\ m.term = hard[n].term + 1
  BY <1>1 DEF AskVotes, RequestVote
<1>5. Past(n, hard[n].term)'
  BY <1>1, <1>3 DEF Past
<1>6. hard[n].term + 1 - 1 = hard[n].term /\ hard[n].term + 1 >= 1
  BY <1>2
<1>7. \A m \in msgs' \ msgs :
        /\ m.type = "RequestVote" /\ m.pre => m.term >= 1 /\ Past(m.from, m.term - 1)'
        /\ m.type = "RequestVoteResp" /\ m.granted =>
             BallotFor(m.from, m.term, m.to) \in ballots' \/ Past(m.to, m.term)'
  <2> SUFFICES ASSUME NEW m \in msgs' \ msgs
               PROVE  m.term >= 1 /\ Past(m.from, m.term - 1)'
    BY <1>4
  <2>1. m.from = n /\ m.term - 1 = hard[n].term /\ m.term >= 1
    BY <1>2, <1>4, <1>6
  <2> QED  BY <1>1, <1>2, <1>5, <2>1 DEF Past, Collecting
<1>8. /\ \A v \in Voters : v # n => hard'[v] = hard[v]
      /\ hard'[n].term >= hard[n].term
      /\ ballots \subseteq ballots' /\ elected \subseteq elected'
      /\ \A e \in elected' \ elected : Backed(e)'
  BY <1>1, <1>2
<1>9. VotesBacked' /\ ProbesPast' /\ GrantsBacked' /\ LeadersElected' /\ WinnersBacked'
  BY <1>3, <1>7, <1>8, CarryLemma
<1> QED  BY <1>1, <1>9 DEF ElectionInv, Recorded, BallotsShown, OneBallotPerTerm

\* A granted probe's answer names a term its receiver is past.
LEMMA PreVoteElects ==
  ASSUME TypeInv, TypeInv', ElectionInv, NEW n \in Voters, NEW m \in msgs,
         HandlePreVote(n, m)
  PROVE  ElectionInv'
<1>1. /\ m.type = "RequestVote" /\ m.pre
      /\ UNCHANGED <<hard, disk, ballots, soft, elected>>
  BY DEF HandlePreVote, hardVars
<1>2. m.from \in Voters /\ m.term \in Nat /\ hard[n].term \in Nat
  BY MessageLemma DEF TypeInv, MsgsOK, HardOK, HardState
<1>3. m.term >= 1 /\ Past(m.from, m.term - 1)
  BY <1>1 DEF ElectionInv, ProbesPast
<1>4. PICK g \in BOOLEAN :
        /\ g => m.term > hard[n].term
        /\ Answer(RequestVoteResp(n, m.from, hard[n].term, g), m.term - 1)
  <2>1. PICK alive \in BOOLEAN :
          Answer(RequestVoteResp(n, m.from, hard[n].term,
                   m.term > hard[n].term /\ UpToDate(m, log[n]) /\ ~alive),
                 m.term - 1)
    BY DEF HandlePreVote
  <2>2. (m.term > hard[n].term /\ UpToDate(m, log[n]) /\ ~alive) \in BOOLEAN
    OBVIOUS
  <2> QED  BY <2>1, <2>2
<1>5. ASSUME NEW r \in msgs' \ msgs, r.granted
      PROVE  r.type = "RequestVoteResp" /\ r.to = m.from /\ r.term = m.term - 1
  <2>1. /\ r = RequestVoteResp(n, m.from, hard[n].term, g)
        /\ r.term > m.term - 1 \/ (r.granted /\ r.term = m.term - 1)
    BY <1>4 DEF Answer, Send
  <2> QED  BY <1>2, <1>4, <1>5, <2>1 DEF RequestVoteResp
<1>6. \A r \in msgs' \ msgs : r.type = "RequestVoteResp"
  BY <1>4 DEF Answer, Send, RequestVoteResp
<1>7. Past(m.from, m.term - 1)'
  BY <1>1, <1>3 DEF Past, Collecting
<1>8. \A r \in msgs' \ msgs :
        /\ r.type = "RequestVote" /\ r.pre => r.term >= 1 /\ Past(r.from, r.term - 1)'
        /\ r.type = "RequestVoteResp" /\ r.granted =>
             BallotFor(r.from, r.term, r.to) \in ballots' \/ Past(r.to, r.term)'
  BY <1>5, <1>6, <1>7
<1>9. SoftStep(n)
  BY <1>1 DEF SoftStep, Collecting
<1>10. /\ Collecting(n)' =>
            \A v \in soft'[n].votes : BallotFor(v, hard'[n].term, n) \in ballots'
       /\ IsLeader(n)' => [term |-> hard'[n].term, leader |-> n] \in elected'
  BY <1>1 DEF Collecting, IsLeader, ElectionInv, VotesBacked, LeadersElected
<1>11. VotesBacked' /\ ProbesPast' /\ GrantsBacked' /\ LeadersElected' /\ WinnersBacked'
  BY <1>1, <1>2, <1>8, <1>9, <1>10, CarryLemma
<1> QED  BY <1>1, <1>11 DEF ElectionInv, Recorded, BallotsShown, OneBallotPerTerm

LEMMA RequestVoteElects ==
  ASSUME TypeInv, TypeInv', ElectionInv, NEW n \in Voters, NEW m \in msgs,
         HandleRequestVote(n, m)
  PROVE  ElectionInv'
<1> DEFINE h == Seen(n, m.term)
           granted == m.term = h.term /\ h.vote \in {None, m.from}
                        /\ UpToDate(m, log[n])
           h2 == IF granted THEN [h EXCEPT !.vote = m.from] ELSE h
           written == granted \/ m.term > hard[n].term
<1>1. /\ Persist(n, h2, written)
      /\ soft' = [soft EXCEPT ![n] = SoftSeen(n, m.term)]
      /\ Answer(RequestVoteResp(n, m.from, h.term, granted), m.term)
      /\ UNCHANGED elected
  BY DEF HandleRequestVote
<1>2. /\ m.from \in Voters /\ m.term \in Nat
      /\ hard[n] \in HardState /\ hard[n].term \in Nat /\ soft \in [Voters -> SoftState]
  BY MessageLemma DEF TypeInv, MsgsOK, HardOK, HardState, SoftOK
<1>3. h \in HardState /\ h.term \in Nat
  BY <1>2, SeenLemma DEF TypeInv, HardState
<1>4. /\ m.term > hard[n].term => h = [term |-> m.term, vote |-> None]
      /\ ~(m.term > hard[n].term) => h = hard[n]
  BY DEF Seen
<1>5. granted \in BOOLEAN /\ written \in BOOLEAN
  OBVIOUS
<1>6. granted => h.vote \in {None, m.from}
  OBVIOUS
<1> HIDE DEF h, granted
<1>7. /\ h2 \in HardState /\ h2.term = h.term
      /\ granted => h2.vote = m.from
      /\ ~granted => h2.vote = h.vote
  BY <1>2, <1>3 DEF HardState
<1>8. Grows(n, h2) /\ (~written => h2 = hard[n])
  BY <1>2, <1>3, <1>4, <1>5, <1>6, <1>7 DEF Grows
<1>9. /\ Recorded' /\ BallotsShown' /\ OneBallotPerTerm'
      /\ ballots \subseteq ballots'
      /\ hard'[n] = h2
      /\ \A v \in Voters : v # n => hard'[v] = hard[v]
      /\ hard'[n].term >= hard[n].term
      /\ written /\ h2.vote # None => Ballot(n, h2) \in ballots'
  <2> HIDE DEF h2, written
  <2> QED  BY <1>1, <1>5, <1>7, <1>8, PersistGrows DEF ElectionInv
<1>10. granted => BallotFor(n, h.term, m.from) \in ballots'
  BY <1>2, <1>7, <1>9, NoneAssumption DEF Ballot, BallotFor
<1>11. \A r \in msgs' \ msgs : r = RequestVoteResp(n, m.from, h.term, granted)
  BY <1>1 DEF Answer, Send
<1>12. \A r \in msgs' \ msgs :
         /\ r.type = "RequestVote" /\ r.pre => r.term >= 1 /\ Past(r.from, r.term - 1)'
         /\ r.type = "RequestVoteResp" /\ r.granted =>
              BallotFor(r.from, r.term, r.to) \in ballots' \/ Past(r.to, r.term)'
  BY <1>10, <1>11 DEF RequestVoteResp
<1>13. /\ soft'[n] = SoftSeen(n, m.term)
       /\ \A v \in Voters : v # n => soft'[v] = soft[v]
  BY <1>1, <1>2
<1>14. \/ hard'[n].term = hard[n].term /\ soft'[n] = soft[n]
       \/ hard'[n].term > hard[n].term /\ soft'[n].role = "Follower"
  BY <1>2, <1>4, <1>7, <1>9, <1>13 DEF SoftSeen, FollowerOf
<1>15. SoftStep(n)
  BY <1>13, <1>14 DEF SoftStep, Collecting
<1>16. /\ Collecting(n)' =>
            \A v \in soft'[n].votes : BallotFor(v, hard'[n].term, n) \in ballots'
       /\ IsLeader(n)' => [term |-> hard'[n].term, leader |-> n] \in elected'
  BY <1>1, <1>9, <1>14 DEF Collecting, IsLeader, ElectionInv, VotesBacked, LeadersElected
<1>17. VotesBacked' /\ ProbesPast' /\ GrantsBacked' /\ LeadersElected' /\ WinnersBacked'
  BY <1>1, <1>9, <1>12, <1>15, <1>16, CarryLemma
<1> QED  BY <1>9, <1>17 DEF ElectionInv

LEMMA StartElectionElects ==
  ASSUME TypeInv, TypeInv', ElectionInv, NEW n \in Voters, NEW t \in Nat,
         t >= hard[n].term, StartElection(n, t), UNCHANGED elected
  PROVE  ElectionInv'
<1> DEFINE h == [term |-> t + 1, vote |-> n]
<1>1. /\ Persist(n, h, TRUE)
      /\ soft' = [soft EXCEPT ![n] =
           [role |-> "Candidate", campaign |-> "Vote", votes |-> {n},
            pre |-> {}, leader |-> None]]
      /\ msgs' = msgs \cup AskVotes(n, t + 1, FALSE)
  BY DEF StartElection, Send
<1>2. hard[n].term \in Nat /\ soft \in [Voters -> SoftState]
  BY DEF TypeInv, HardOK, HardState, SoftOK
<1>3. h \in HardState /\ Grows(n, h) /\ TRUE \in BOOLEAN /\ h.term > hard[n].term
  BY <1>2 DEF HardState, Grows
<1>4. /\ Recorded' /\ BallotsShown' /\ OneBallotPerTerm'
      /\ ballots \subseteq ballots'
      /\ hard'[n] = h
      /\ \A v \in Voters : v # n => hard'[v] = hard[v]
      /\ hard'[n].term >= hard[n].term
      /\ h.vote # None => Ballot(n, h) \in ballots'
  <2> HIDE DEF h
  <2>1. TypeInv /\ Recorded /\ BallotsShown /\ OneBallotPerTerm
    BY DEF ElectionInv
  <2> QED  BY <1>1, <1>3, <2>1, PersistGrows, Zenon
<1>5. BallotFor(n, hard'[n].term, n) \in ballots'
  BY <1>4, NoneAssumption DEF Ballot, BallotFor
<1>6. \A m \in msgs' \ msgs : m.type = "RequestVote" /\ ~m.pre
  BY <1>1 DEF AskVotes, RequestVote
<1>7. /\ SoftStep(n) /\ ~IsLeader(n)'
      /\ \A v \in soft'[n].votes : BallotFor(v, hard'[n].term, n) \in ballots'
  BY <1>1, <1>2, <1>3, <1>4, <1>5 DEF SoftStep, IsLeader
<1>8. VotesBacked' /\ ProbesPast' /\ GrantsBacked' /\ LeadersElected' /\ WinnersBacked'
  BY <1>4, <1>6, <1>7, CarryLemma
<1> QED  BY <1>4, <1>8 DEF ElectionInv

\* A node that collects votes counts only answers backed by ballots.
LEMMA CountedLemma ==
  ASSUME TypeInv, ElectionInv, NEW n \in Voters, NEW m \in msgs, m.to = n,
         Counts(n, m), soft[n].campaign = "Vote"
  PROVE  \A v \in soft[n].votes \cup {m.from} :
           BallotFor(v, hard[n].term, n) \in ballots
<1>1. /\ Collecting(n) /\ m.type = "RequestVoteResp" /\ m.granted
      /\ m.term = hard[n].term
  BY DEF Counts, Collecting
<1>2. hard[n].term \in Nat
  BY DEF TypeInv, HardOK, HardState
<1>3. ~Past(m.to, m.term)
  BY <1>1, <1>2 DEF Past
<1>4. BallotFor(m.from, hard[n].term, n) \in ballots
  BY <1>1, <1>3 DEF ElectionInv, GrantsBacked
<1> QED  BY <1>1, <1>4 DEF ElectionInv, VotesBacked

LEMMA ProbeGrantedElects ==
  ASSUME TypeInv, TypeInv', ElectionInv, NEW n \in Voters, NEW m \in msgs,
         HandleProbeGranted(n, m)
  PROVE  ElectionInv'
<1>1. hard[n].term \in Nat /\ soft \in [Voters -> SoftState]
  BY DEF TypeInv, HardOK, HardState, SoftOK
<1>2. CASE StartElection(n, hard[n].term)
  <2>1. UNCHANGED elected /\ hard[n].term >= hard[n].term
    BY <1>1 DEF HandleProbeGranted
  <2> QED  BY <1>1, <1>2, <2>1, StartElectionElects
<1>3. CASE /\ soft' = [soft EXCEPT ![n].pre = soft[n].pre \cup {m.from}]
           /\ UNCHANGED <<hardVars, msgs>>
  <2>1. /\ soft'[n].role = soft[n].role /\ soft'[n].campaign = soft[n].campaign
        /\ soft'[n].votes = soft[n].votes
        /\ \A v \in Voters : v # n => soft'[v] = soft[v]
    BY <1>1, <1>3 DEF SoftState
  <2>2. UNCHANGED <<hard, disk, ballots, msgs, elected>>
    BY <1>3 DEF HandleProbeGranted, hardVars
  <2>3. SoftStep(n)
    BY <2>1, <2>2 DEF SoftStep, Collecting
  <2>4. /\ Collecting(n)' =>
             \A v \in soft'[n].votes : BallotFor(v, hard'[n].term, n) \in ballots'
        /\ IsLeader(n)' => [term |-> hard'[n].term, leader |-> n] \in elected'
    BY <2>1, <2>2 DEF Collecting, IsLeader, ElectionInv, VotesBacked, LeadersElected
  <2>5. /\ \A v \in Voters : v # n => hard'[v] = hard[v]
        /\ hard'[n].term >= hard[n].term
        /\ ballots \subseteq ballots' /\ elected \subseteq elected'
    BY <1>1, <2>2
  <2>6. VotesBacked' /\ ProbesPast' /\ GrantsBacked' /\ LeadersElected' /\ WinnersBacked'
    BY <2>2, <2>3, <2>4, <2>5, CarryLemma
  <2> QED  BY <2>2, <2>6 DEF ElectionInv, Recorded, BallotsShown, OneBallotPerTerm
<1> QED  BY <1>2, <1>3 DEF HandleProbeGranted

LEMMA VoteGrantedElects ==
  ASSUME TypeInv, TypeInv', ElectionInv, NEW n \in Voters, NEW m \in msgs, m.to = n,
         HandleVoteGranted(n, m)
  PROVE  ElectionInv'
<1>1. /\ Counts(n, m) /\ soft[n].campaign = "Vote"
      /\ soft' = [soft EXCEPT ![n].votes = soft[n].votes \cup {m.from}]
      /\ UNCHANGED <<hard, disk, ballots, msgs, elected>>
  BY DEF HandleVoteGranted, hardVars
<1>2. hard[n].term \in Nat /\ soft \in [Voters -> SoftState]
  BY DEF TypeInv, HardOK, HardState, SoftOK
<1>3. /\ soft'[n].role = soft[n].role /\ soft'[n].campaign = soft[n].campaign
      /\ soft'[n].votes = soft[n].votes \cup {m.from}
      /\ \A v \in Voters : v # n => soft'[v] = soft[v]
  BY <1>1, <1>2 DEF SoftState
<1>4. SoftStep(n) /\ ~IsLeader(n)'
  BY <1>1, <1>3 DEF SoftStep, Collecting, IsLeader, Counts
<1>5. \A v \in soft'[n].votes : BallotFor(v, hard'[n].term, n) \in ballots'
  BY <1>1, <1>3, CountedLemma
<1>6. /\ \A v \in Voters : v # n => hard'[v] = hard[v]
      /\ hard'[n].term >= hard[n].term
      /\ ballots \subseteq ballots' /\ elected \subseteq elected'
  BY <1>1, <1>2
<1>7. VotesBacked' /\ ProbesPast' /\ GrantsBacked' /\ LeadersElected' /\ WinnersBacked'
  BY <1>1, <1>4, <1>5, <1>6, CarryLemma
<1> QED  BY <1>1, <1>7 DEF ElectionInv, Recorded, BallotsShown, OneBallotPerTerm

LEMMA LastVoteElects ==
  ASSUME TypeInv, TypeInv', ElectionInv, NEW n \in Voters, NEW m \in msgs, m.to = n,
         HandleLastVote(n, m)
  PROVE  ElectionInv'
<1> DEFINE votes == soft[n].votes \cup {m.from}
           e == [term |-> hard[n].term, leader |-> n]
<1>1. /\ Counts(n, m) /\ soft[n].campaign = "Vote"
      /\ Cardinality(votes) >= Majority
      /\ BecomeLeader(n, votes)
      /\ UNCHANGED <<hard, disk, ballots>>
  BY DEF HandleLastVote, hardVars
<1>2. /\ soft' = [soft EXCEPT ![n] =
                    [@ EXCEPT !.role = "Leader", !.leader = n, !.votes = votes]]
      /\ elected' = elected \cup {e}
      /\ msgs' = msgs \/ \E l, nx : Send(Broadcast(n, hard[n].term, l, nx))
  BY <1>1 DEF BecomeLeader
<1>3. hard[n].term \in Nat /\ soft \in [Voters -> SoftState]
  BY DEF TypeInv, HardOK, HardState, SoftOK
<1>4. /\ soft'[n].role = "Leader"
      /\ \A v \in Voters : v # n => soft'[v] = soft[v]
  BY <1>2, <1>3 DEF SoftState
<1>5. SoftStep(n) /\ ~Collecting(n)'
  BY <1>4 DEF SoftStep, Collecting
<1>6. \A x \in msgs' \ msgs : x.type \notin {"RequestVote", "RequestVoteResp"}
  BY <1>2, BroadcastQuiet DEF Send
<1>7. votes \in SUBSET Voters
  BY <1>3, MessageLemma DEF SoftState, TypeInv, MsgsOK
<1>8. \A v \in votes : BallotFor(v, hard[n].term, n) \in ballots
  BY <1>1, CountedLemma
<1>9. Backed(e)'
  <2> HIDE DEF votes
  <2> QED  BY <1>1, <1>7, <1>8 DEF Backed
<1>10. e \in elected' /\ hard'[n].term = hard[n].term
  BY <1>1, <1>2
<1>11. /\ \A v \in Voters : v # n => hard'[v] = hard[v]
       /\ hard'[n].term >= hard[n].term
       /\ ballots \subseteq ballots' /\ elected \subseteq elected'
       /\ \A x \in elected' \ elected : Backed(x)'
       /\ [term |-> hard'[n].term, leader |-> n] \in elected'
  BY <1>1, <1>2, <1>3, <1>9, <1>10
<1>12. VotesBacked' /\ ProbesPast' /\ GrantsBacked' /\ LeadersElected' /\ WinnersBacked'
  <2> HIDE DEF e, votes
  <2> QED  BY <1>5, <1>6, <1>11, CarryLemma
<1> QED  BY <1>1, <1>12 DEF ElectionInv, Recorded, BallotsShown, OneBallotPerTerm

LEMMA TimeoutNowElects ==
  ASSUME TypeInv, TypeInv', ElectionInv, NEW n \in Voters, NEW m \in msgs,
         HandleTimeoutNow(n, m)
  PROVE  ElectionInv'
<1>1. m.term \in Nat /\ m.term >= hard[n].term /\ StartElection(n, m.term)
        /\ UNCHANGED elected
  BY MessageLemma DEF HandleTimeoutNow, TypeInv, MsgsOK
<1> QED  BY <1>1, StartElectionElects

-----------------------------------------------------------------------------

\* Every step counts an event of the budget or none.
Counting == UNCHANGED spent \/ \E e \in Events : Spend(e)

LEMMA HandlersCount ==
  ASSUME NEW n \in Voters, NEW m \in msgs, Handle(n, m) \/ HandleFails(n, m)
  PROVE  Counting
<1>1. CASE \/ HandlePreVote(n, m) \/ HandleRequestVote(n, m)
           \/ HandleProbeGranted(n, m) \/ HandleVoteGranted(n, m)
           \/ HandleVoteIgnored(n, m) \/ HandleTimeoutNow(n, m)
  BY <1>1 DEF Counting, HandlePreVote, HandleRequestVote, HandleProbeGranted,
              HandleVoteGranted, HandleVoteIgnored, HandleTimeoutNow
<1>2. CASE HandleLastVote(n, m)
  BY <1>2 DEF Counting, HandleLastVote, BecomeLeader, Events
<1>3. CASE \/ HandleAppendStale(n, m) \/ HandleAppendMismatch(n, m)
           \/ HandleAppend(n, m) \/ HandleAppendAccepted(n, m)
           \/ HandleAppendRejected(n, m) \/ HandleHigherAnswer(n, m)
  BY <1>3 DEF Counting, HandleAppendStale, HandleAppendMismatch, HandleAppend,
              HandleAppendAccepted, HandleAppendRejected, HandleHigherAnswer
<1>4. CASE HandleAppendRefused(n, m)
  BY <1>4 DEF Counting, HandleAppendRefused, Events
<1>5. CASE HandleInstallSnapshot(n, m) \/ HandleSnapshotInstalled(n, m)
  BY <1>5 DEF Counting, HandleInstallSnapshot, HandleSnapshotInstalled
<1>6. CASE HandleFails(n, m)
  BY <1>6 DEF Counting, HandleFails, ObserveFails, GrantFails, ElectionFails,
              PersistFails, Events
<1> QED  BY <1>1, <1>2, <1>3, <1>4, <1>5, <1>6 DEF Handle

LEMMA StepsCount == [Next]_vars => Counting
<1>1. UNCHANGED vars => Counting
  BY DEF vars, Counting
<1>2. ASSUME NEW n \in Voters, Timeout(n) \/ Heartbeat(n) \/ Restart(n)
      PROVE  Counting
  BY <1>2 DEF Counting, Timeout, Heartbeat, Restart, Events
<1>3. ASSUME NEW n \in Voters, StepDown(n)
      PROVE  Counting
  BY <1>3 DEF Counting, StepDown, Events
<1>4. ASSUME NEW n \in Voters, MaybeSnapshot(n)
      PROVE  Counting
  BY <1>4 DEF Counting, MaybeSnapshot
<1>5. ASSUME NEW n \in Voters, NEW op \in Ops, Propose(n, op)
      PROVE  Counting
  BY <1>5 DEF Counting, Propose
<1> QED  BY <1>1, <1>2, <1>3, <1>4, <1>5, HandlersCount DEF Next, NodeStep, Tick

\* A failed write is counted, and the count never falls.
LEMMA FailuresCount ==
  ASSUME TypeInv, [Next]_vars, NothingUnrecorded'
  PROVE  /\ NothingUnrecorded
         /\ \A n \in Voters, m \in msgs : ~HandleFails(n, m)
<1>1. spent \in [Events -> Nat] /\ spent["hardFail"] \in Nat
  BY DEF TypeInv, SpentOK, Events
<1>2. \A e \in Events : Spend(e) => spent'["hardFail"] >= spent["hardFail"]
  BY <1>1 DEF Spend, Events
<1>3. Spend("hardFail") => spent'["hardFail"] > 0
  BY <1>1 DEF Spend, Events
<1>4. spent'["hardFail"] >= spent["hardFail"]
  BY <1>1, <1>2, StepsCount DEF Counting
<1>5. ASSUME NEW n \in Voters, NEW m \in msgs, HandleFails(n, m) PROVE FALSE
  BY <1>3, <1>5 DEF HandleFails, ObserveFails, GrantFails, ElectionFails,
              PersistFails, NothingUnrecorded
<1> QED  BY <1>1, <1>4, <1>5 DEF NothingUnrecorded

LEMMA ElectionInit == Init => ElectionInv
<1> SUFFICES ASSUME Init PROVE ElectionInv
  OBVIOUS
<1>1. \A n \in Voters : soft[n].role = "Follower"
  BY DEF Init, FollowerOf
<1> QED  BY <1>1 DEF Init, ElectionInv, Recorded, BallotsShown, OneBallotPerTerm,
                     VotesBacked, ProbesPast, GrantsBacked, LeadersElected,
                     WinnersBacked, Collecting, IsLeader

LEMMA ElectionStep ==
  TypeInv /\ TypeInv' /\ RecordedInv /\ [Next]_vars => RecordedInv'
<1> SUFFICES ASSUME TypeInv, TypeInv', RecordedInv, [Next]_vars, NothingUnrecorded'
             PROVE  ElectionInv'
  BY DEF RecordedInv
<1>0. ElectionInv /\ \A n \in Voters, m \in msgs : ~HandleFails(n, m)
  BY FailuresCount DEF RecordedInv
<1>1. CASE UNCHANGED vars
  <2>1. UNCHANGED <<hard, disk, ballots, soft, msgs, elected>>
    BY <1>1 DEF vars, hardVars
  <2> QED  BY <1>0, <2>1 DEF ElectionInv, Recorded, BallotsShown, OneBallotPerTerm,
                     VotesBacked, ProbesPast, GrantsBacked, LeadersElected,
                     WinnersBacked, Collecting, IsLeader, Past, BallotFor, Backed
<1>2. ASSUME NEW n \in Voters, NEW m \in msgs, m.to = n, Handle(n, m)
      PROVE  ElectionInv'
  BY <1>0, <1>2, HandleQuiet, PreVoteElects, RequestVoteElects, ProbeGrantedElects,
     VoteGrantedElects, LastVoteElects, TimeoutNowElects DEF Handle
<1>3. ASSUME NEW n \in Voters, NEW m \in msgs, HandleFails(n, m)
      PROVE  ElectionInv'
  BY <1>0, <1>3
<1>4. ASSUME NEW n \in Voters,
             NodeStep(n) \/ Restart(n) \/ \E op \in Ops : Propose(n, op)
      PROVE  ElectionInv'
  <2>1. CASE Timeout(n)
    BY <1>0, <2>1, TimeoutElects
  <2>2. CASE \/ Heartbeat(n) \/ StepDown(n) \/ MaybeSnapshot(n) \/ Restart(n)
             \/ \E op \in Ops : Propose(n, op)
    BY <1>0, <2>2, NodeQuiet
  <2> QED  BY <1>2, <1>3, <1>4, <2>1, <2>2 DEF NodeStep, Tick
<1> QED  BY <1>1, <1>4 DEF Next

LEMMA ElectionInvariant == Spec => []RecordedInv
<1>1. Init => RecordedInv
  BY ElectionInit DEF RecordedInv
<1>2. TypeInv /\ TypeInv' /\ RecordedInv /\ [Next]_vars => RecordedInv'
  BY ElectionStep
<1> QED  BY <1>1, <1>2, TypeInvariant, PTL DEF Spec

-----------------------------------------------------------------------------
LEMMA BackersMeet ==
  ASSUME TypeInv, ElectionInv, NEW a \in elected, NEW b \in elected,
         a.term = b.term
  PROVE  a.leader = b.leader
<1>1. PICK Q \in SUBSET Voters :
        /\ Cardinality(Q) >= Majority
        /\ \A v \in Q : BallotFor(v, a.term, a.leader) \in ballots
  BY DEF ElectionInv, WinnersBacked, Backed
<1>2. PICK R \in SUBSET Voters :
        /\ Cardinality(R) >= Majority
        /\ \A v \in R : BallotFor(v, b.term, b.leader) \in ballots
  BY DEF ElectionInv, WinnersBacked, Backed
<1>3. Cardinality(Q) \in Nat /\ Cardinality(R) \in Nat
  BY VotersAssumption, FS_Subset, FS_CardinalityType
<1>4. Cardinality(Q) + Cardinality(R) > Cardinality(Voters)
  BY <1>1, <1>2, <1>3, VotersAssumption DEF Majority
<1>5. PICK v \in Q \cap R : TRUE
  BY <1>4, VotersAssumption, FS_MajoritiesIntersect
<1>6. /\ BallotFor(v, a.term, a.leader) \in ballots
      /\ BallotFor(v, b.term, b.leader) \in ballots
  BY <1>1, <1>2, <1>5
<1> QED  BY <1>6 DEF ElectionInv, OneBallotPerTerm, BallotFor

LEMMA LeadersAgree ==
  ASSUME TypeInv, ElectionInv
  PROVE  OneLeaderPerTerm
<1> SUFFICES ASSUME NEW a \in Voters, NEW b \in Voters,
                    IsLeader(a), IsLeader(b), hard[a].term = hard[b].term
             PROVE  a = b
  BY DEF OneLeaderPerTerm
<1>1. /\ [term |-> hard[a].term, leader |-> a] \in elected
      /\ [term |-> hard[b].term, leader |-> b] \in elected
  BY DEF ElectionInv, LeadersElected
<1> QED  BY <1>1, BackersMeet

\* raft.rs never has two leaders of one term while every write of
\* hard_state.json succeeds, for any number of voters, whatever the network
\* loses, repeats or delays and whenever nodes crash.
THEOREM ElectionsAreSafe == Spec => []ElectionSafety
<1>1. TypeInv /\ RecordedInv => ElectionSafety
  BY LeadersAgree DEF ElectionSafety, RecordedInv
<1> QED  BY <1>1, TypeInvariant, ElectionInvariant, PTL

\* Under the same condition a term is won by at most one node, ever: the
\* fence numbers and leases handed out in a term have one origin.
THEOREM WinnersAreUnique == Spec => []OneWinnerPerTerm
<1>1. TypeInv /\ RecordedInv => OneWinnerPerTerm
  BY BackersMeet DEF OneWinnerPerTerm, RecordedInv
<1> QED  BY <1>1, TypeInvariant, ElectionInvariant, PTL

-----------------------------------------------------------------------------
(***************************************************************************)
(* Beyond the first failed write: a voter never records two votes in one    *)
(* term, whatever writes of hard_state.json fail and whenever it crashes.   *)
(* Memory may run ahead of the file (a failed write leaves the new value in *)
(* memory), so the invariant orders the three: ballots, file, memory.       *)
(***************************************************************************)

\* The file is memory, or an earlier state of it.
FileBehind ==
  \A n \in Voters :
    \/ disk[n].term < hard[n].term
    \/ disk[n].term = hard[n].term /\ disk[n].vote \in {None, hard[n].vote}

\* The file shows the last ballot it recorded.
BallotsOnFile ==
  \A b \in ballots :
    /\ b.term <= disk[b.voter].term
    /\ b.term = disk[b.voter].term => disk[b.voter].vote = b.cand

BallotInv == FileBehind /\ BallotsOnFile /\ OneBallotPerTerm

\* What a step of n may do to its hard state: nothing, record h, record d on a
\* failure while memory moves to h, or forget memory.
Writes(n, h, d) ==
  /\ hard' = [hard EXCEPT ![n] = h]
  /\ disk' = [disk EXCEPT ![n] = d]
  /\ ballots' = IF d = h /\ h.vote # None
                THEN ballots \cup {Ballot(n, h)} ELSE ballots

HardMove(n) ==
  \/ UNCHANGED hardVars
  \/ hard' = [hard EXCEPT ![n] = disk[n]] /\ UNCHANGED <<disk, ballots>>
  \/ \E h, d \in HardState :
       /\ Writes(n, h, d) /\ Grows(n, h)
       /\ \/ d = h
          \/ UNCHANGED <<disk, ballots>>
          \/ d.term > hard[n].term /\ d.vote = None /\ d.term <= h.term

LEMMA WritesLemma ==
  ASSUME TypeInv, BallotInv, NEW n \in Voters, NEW h \in HardState, NEW d \in HardState,
         Writes(n, h, d), Grows(n, h),
         \/ d = h
         \/ UNCHANGED <<disk, ballots>>
         \/ d.term > hard[n].term /\ d.vote = None /\ d.term <= h.term
  PROVE  BallotInv'
<1>1. /\ hard \in [Voters -> HardState] /\ disk \in [Voters -> HardState]
      /\ ballots \in SUBSET [voter : Voters, term : Nat, cand : Voters]
      /\ h.term \in Nat /\ d.term \in Nat
      /\ hard[n].term \in Nat /\ disk[n].term \in Nat
  BY DEF TypeInv, HardOK, HardState
<1>2. /\ hard'[n] = h /\ disk'[n] = d
      /\ \A v \in Voters : v # n => hard'[v] = hard[v] /\ disk'[v] = disk[v]
      /\ ballots' = IF d = h /\ h.vote # None
                    THEN ballots \cup {Ballot(n, h)} ELSE ballots
  BY <1>1 DEF Writes
<1>3. \/ disk[n].term < hard[n].term
      \/ disk[n].term = hard[n].term /\ disk[n].vote \in {None, hard[n].vote}
  BY DEF BallotInv, FileBehind
<1>4. FileBehind'
  <2> SUFFICES ASSUME NEW v \in Voters
               PROVE  \/ disk'[v].term < hard'[v].term
                      \/ /\ disk'[v].term = hard'[v].term
                         /\ disk'[v].vote \in {None, hard'[v].vote}
    BY DEF FileBehind
  <2>1. CASE v = n /\ d = h
    BY <1>2, <2>1
  <2>2. CASE v = n /\ UNCHANGED <<disk, ballots>>
    BY <1>1, <1>2, <1>3, <2>2 DEF Grows
  <2>3. CASE v = n /\ d.vote = None /\ d.term <= h.term
    BY <1>1, <1>2, <2>3
  <2>4. CASE v # n
    BY <1>2, <2>4 DEF BallotInv, FileBehind
  <2> QED  BY <2>1, <2>2, <2>3, <2>4
<1>5. ASSUME NEW b \in ballots
      PROVE  /\ b.term <= disk'[b.voter].term
             /\ b.term = disk'[b.voter].term => disk'[b.voter].vote = b.cand
  <2>1. b.voter \in Voters /\ b.term \in Nat /\ b.cand \in Voters
    BY <1>1
  <2>2. /\ b.term <= disk[b.voter].term
        /\ b.term = disk[b.voter].term => disk[b.voter].vote = b.cand
    BY DEF BallotInv, BallotsOnFile
  <2>3. CASE b.voter = n /\ d = h
    BY <1>1, <1>2, <1>3, <2>1, <2>2, <2>3, NoneAssumption DEF Grows
  <2>4. CASE b.voter = n /\ UNCHANGED <<disk, ballots>>
    BY <2>2, <2>4
  <2>5. CASE b.voter = n /\ d.term > hard[n].term
    BY <1>1, <1>2, <1>3, <2>1, <2>2, <2>5
  <2>6. CASE b.voter # n
    BY <1>2, <2>1, <2>2, <2>6
  <2> QED  BY <2>3, <2>4, <2>5, <2>6
<1>6. BallotsOnFile' /\ OneBallotPerTerm'
  <2>1. CASE d = h /\ h.vote # None
    <3>1. ballots' = ballots \cup {Ballot(n, h)}
      BY <1>2, <2>1
    <3>2. BallotsOnFile'
      BY <1>1, <1>2, <1>5, <2>1, <3>1 DEF BallotsOnFile, Ballot
    <3>3. ASSUME NEW b \in ballots, b.voter = n, b.term = h.term
          PROVE  b.cand = h.vote
      BY <1>2, <1>5, <2>1, <3>3
    <3> QED  BY <3>1, <3>2, <3>3 DEF BallotInv, OneBallotPerTerm, Ballot
  <2>2. CASE ~(d = h /\ h.vote # None)
    <3>1. ballots' = ballots
      BY <1>2, <2>2
    <3> QED  BY <1>5, <3>1 DEF BallotInv, BallotsOnFile, OneBallotPerTerm
  <2> QED  BY <2>1, <2>2
<1> QED  BY <1>4, <1>6 DEF BallotInv

LEMMA HardMoveLemma ==
  ASSUME TypeInv, BallotInv, NEW n \in Voters, HardMove(n)
  PROVE  BallotInv'
<1>1. CASE UNCHANGED hardVars
  BY <1>1 DEF hardVars, BallotInv, FileBehind, BallotsOnFile, OneBallotPerTerm
<1>2. CASE hard' = [hard EXCEPT ![n] = disk[n]] /\ UNCHANGED <<disk, ballots>>
  BY <1>2 DEF BallotInv, FileBehind, BallotsOnFile, OneBallotPerTerm, TypeInv, HardOK
<1> QED  BY <1>1, <1>2, WritesLemma DEF HardMove

-----------------------------------------------------------------------------
(* Every step moves the hard state of one node so. *)

LEMMA PersistMoves ==
  ASSUME TypeInv, NEW n \in Voters, NEW h \in HardState, NEW written \in BOOLEAN,
         Persist(n, h, written), Grows(n, h), ~written => h = hard[n]
  PROVE  HardMove(n)
<1>1. CASE written
  <2>1. Writes(n, h, h)
    BY <1>1 DEF Persist, Writes
  <2> QED  BY <2>1 DEF HardMove
<1>2. CASE ~written
  <2>1. UNCHANGED <<hard, disk, ballots>>
    BY <1>2 DEF Persist, TypeInv, HardOK
  <2> QED  BY <2>1 DEF HardMove, hardVars
<1> QED  BY <1>1, <1>2

LEMMA FailMoves ==
  ASSUME TypeInv, NEW n \in Voters, NEW h \in HardState, NEW f \in HardState,
         PersistFails(n, f, h), Grows(n, h),
         f = disk[n] \/ (f.term > hard[n].term /\ f.vote = None /\ f.term <= h.term)
  PROVE  HardMove(n)
<1>1. PICK d \in {f, h} :
        /\ disk' = [disk EXCEPT ![n] = d]
        /\ ballots' = IF d = h /\ h.vote # None
                      THEN ballots \cup {Ballot(n, h)} ELSE ballots
  BY DEF PersistFails
<1>2. Writes(n, h, d) /\ d \in HardState
  BY <1>1 DEF Writes, PersistFails
<1>3. CASE d = h
  BY <1>2, <1>3 DEF HardMove
<1>4. CASE d # h /\ f = disk[n]
  <2>1. UNCHANGED <<disk, ballots>>
    BY <1>1, <1>4 DEF TypeInv, HardOK
  <2> QED  BY <1>2, <2>1 DEF HardMove
<1>5. CASE d # h /\ f.term > hard[n].term /\ f.vote = None /\ f.term <= h.term
  BY <1>1, <1>2, <1>5 DEF HardMove
<1> QED  BY <1>3, <1>4, <1>5

LEMMA ObserveMoves ==
  ASSUME TypeInv, NEW n \in Voters, NEW t \in Nat, Observe(n, t)
  PROVE  HardMove(n)
<1>1. /\ Seen(n, t) \in HardState /\ Grows(n, Seen(n, t))
      /\ (t > hard[n].term) \in BOOLEAN
      /\ ~(t > hard[n].term) => Seen(n, t) = hard[n]
  BY SeenLemma DEF TypeInv, HardOK, HardState, Seen, Grows
<1> QED  BY <1>1, PersistMoves DEF Observe

LEMMA StartMoves ==
  ASSUME TypeInv, NEW n \in Voters, NEW t \in Nat, t >= hard[n].term,
         StartElection(n, t)
  PROVE  HardMove(n)
<1> DEFINE h == [term |-> t + 1, vote |-> n]
<1>1. h \in HardState /\ Grows(n, h) /\ TRUE \in BOOLEAN
  BY DEF HardState, Grows, TypeInv, HardOK
<1>2. Persist(n, h, TRUE)
  BY DEF StartElection
<1> QED  BY <1>1, <1>2, PersistMoves, Zenon

LEMMA RequestVoteMoves ==
  ASSUME TypeInv, NEW n \in Voters, NEW m \in msgs, HandleRequestVote(n, m)
  PROVE  HardMove(n)
<1> DEFINE h == Seen(n, m.term)
           granted == m.term = h.term /\ h.vote \in {None, m.from}
                        /\ UpToDate(m, log[n])
           h2 == IF granted THEN [h EXCEPT !.vote = m.from] ELSE h
           written == granted \/ m.term > hard[n].term
<1>1. Persist(n, h2, written)
  BY DEF HandleRequestVote
<1>2. m.from \in Voters /\ m.term \in Nat /\ hard[n] \in HardState
  BY MessageLemma DEF TypeInv, MsgsOK, HardOK
<1>3. h \in HardState
  BY <1>2, SeenLemma DEF TypeInv
<1>4. /\ m.term > hard[n].term => h = [term |-> m.term, vote |-> None]
      /\ ~(m.term > hard[n].term) => h = hard[n]
  BY DEF Seen
<1>5. written \in BOOLEAN /\ (granted => h.vote \in {None, m.from})
  OBVIOUS
<1> HIDE DEF h, granted
<1>6. /\ h2 \in HardState /\ h2.term = h.term
      /\ granted => h2.vote = m.from
      /\ ~granted => h2 = h
  BY <1>2, <1>3 DEF HardState
<1>7. Grows(n, h2) /\ (~written => h2 = hard[n])
  BY <1>2, <1>4, <1>5, <1>6 DEF Grows, HardState
<1> HIDE DEF h2, written
<1> QED  BY <1>1, <1>5, <1>6, <1>7, PersistMoves

LEMMA FailsMove ==
  ASSUME TypeInv, NEW n \in Voters, NEW m \in msgs, HandleFails(n, m)
  PROVE  HardMove(n)
<1> DEFINE h == Seen(n, m.term)
           f == FileSeen(n, m.term)
<1>1. /\ m.from \in Voters /\ m.term \in Nat
      /\ hard[n] \in HardState /\ disk[n] \in HardState /\ hard[n].term \in Nat
  BY MessageLemma DEF TypeInv, MsgsOK, HardOK, HardState
<1>2. h \in HardState /\ f \in HardState /\ h.term \in Nat
  BY <1>1, SeenLemma DEF FileSeen, TypeInv, HardState
<1>3. /\ m.term > hard[n].term => h = [term |-> m.term, vote |-> None] /\ f = h
      /\ ~(m.term > hard[n].term) => h = hard[n] /\ f = disk[n]
  BY DEF Seen, FileSeen
<1> HIDE DEF h, f
<1>4. CASE ObserveFails(n, m)
  <2>1. PersistFails(n, disk[n], h) /\ m.term > hard[n].term
    BY <1>4 DEF ObserveFails, h
  <2>2. Grows(n, h)
    BY <1>3, <2>1 DEF Grows
  <2> QED  BY <1>1, <1>2, <2>1, <2>2, FailMoves
<1>5. CASE GrantFails(n, m)
  <2> DEFINE g == [h EXCEPT !.vote = m.from]
  <2>1. PersistFails(n, f, g) /\ h.vote \in {None, m.from}
    BY <1>5 DEF GrantFails, h, f
  <2>2. g \in HardState /\ g.term = h.term /\ g.vote = m.from
    BY <1>1, <1>2 DEF HardState
  <2> HIDE DEF g
  <2>3. Grows(n, g)
    BY <1>1, <1>3, <2>1, <2>2 DEF Grows
  <2>4. f = disk[n] \/ (f.term > hard[n].term /\ f.vote = None /\ f.term <= g.term)
    BY <1>1, <1>2, <1>3, <2>2
  <2> QED  BY <1>2, <2>1, <2>2, <2>3, <2>4, FailMoves
<1>6. CASE ElectionFails(n, m)
  <2> DEFINE g == [term |-> h.term + 1, vote |-> n]
  <2>1. PersistFails(n, f, g)
    BY <1>6 DEF ElectionFails, h, f
  <2>2. g \in HardState /\ g.term = h.term + 1
    BY <1>2 DEF HardState
  <2> HIDE DEF g
  <2>3. Grows(n, g)
    BY <1>1, <1>2, <1>3, <2>2 DEF Grows
  <2>4. f = disk[n] \/ (f.term > hard[n].term /\ f.vote = None /\ f.term <= g.term)
    BY <1>1, <1>2, <1>3, <2>2
  <2> QED  BY <1>2, <2>1, <2>2, <2>3, <2>4, FailMoves
<1> QED  BY <1>4, <1>5, <1>6 DEF HandleFails

LEMMA HandleMoves ==
  ASSUME TypeInv, NEW n \in Voters, NEW m \in msgs, Handle(n, m)
  PROVE  HardMove(n)
<1>1. m.term \in Nat /\ hard[n].term \in Nat
  BY MessageLemma DEF TypeInv, MsgsOK, HardOK, HardState
<1>2. CASE Observe(n, m.term)
  BY <1>1, <1>2, ObserveMoves
<1>3. CASE UNCHANGED hardVars
  BY <1>3 DEF HardMove
<1>4. CASE HandleRequestVote(n, m)
  BY <1>4, RequestVoteMoves
<1>5. CASE HandleTimeoutNow(n, m)
  BY <1>1, <1>5, StartMoves DEF HandleTimeoutNow
<1>6. CASE HandleProbeGranted(n, m)
  <2>1. StartElection(n, hard[n].term) \/ UNCHANGED hardVars
    BY <1>6 DEF HandleProbeGranted
  <2>2. hard[n].term >= hard[n].term
    BY <1>1
  <2> QED  BY <1>1, <1>3, <2>1, <2>2, StartMoves
<1>7. \/ Observe(n, m.term) \/ UNCHANGED hardVars \/ HandleRequestVote(n, m)
      \/ HandleTimeoutNow(n, m) \/ HandleProbeGranted(n, m)
  BY DEF Handle, HandlePreVote, HandleVoteGranted, HandleLastVote,
         HandleVoteIgnored, HandleAppendStale, HandleAppendMismatch, HandleAppend,
         HandleAppendRefused, HandleAppendAccepted, HandleAppendRejected,
         HandleHigherAnswer, HandleInstallSnapshot, HandleSnapshotInstalled
<1> QED  BY <1>2, <1>3, <1>4, <1>5, <1>6, <1>7

-----------------------------------------------------------------------------
LEMMA BallotInit == Init => BallotInv
BY DEF Init, BallotInv, FileBehind, BallotsOnFile, OneBallotPerTerm

LEMMA BallotStep == TypeInv /\ BallotInv /\ [Next]_vars => BallotInv'
<1> SUFFICES ASSUME TypeInv, BallotInv, [Next]_vars
             PROVE  BallotInv'
  OBVIOUS
<1>1. CASE UNCHANGED vars
  <2>1. UNCHANGED <<hard, disk, ballots>>
    BY <1>1 DEF vars, hardVars
  <2> QED  BY <2>1 DEF BallotInv, FileBehind, BallotsOnFile, OneBallotPerTerm
<1>2. ASSUME NEW n \in Voters,
             NodeStep(n) \/ Restart(n) \/ \E op \in Ops : Propose(n, op)
      PROVE  HardMove(n)
  <2>1. CASE UNCHANGED hardVars
    BY <2>1 DEF HardMove
  <2>2. CASE Restart(n)
    BY <2>2 DEF Restart, HardMove
  <2>3. ASSUME NEW m \in msgs, Handle(n, m) \/ HandleFails(n, m)
        PROVE  HardMove(n)
    BY <2>3, HandleMoves, FailsMove
  <2>4. \/ UNCHANGED hardVars \/ Restart(n)
        \/ \E m \in msgs : Handle(n, m) \/ HandleFails(n, m)
    BY <1>2 DEF NodeStep, Tick, Timeout, Heartbeat, StepDown, MaybeSnapshot, Propose
  <2> QED  BY <2>1, <2>2, <2>3, <2>4
<1> QED  BY <1>1, <1>2, HardMoveLemma DEF Next

\* A voter's ballots are unique per term through every crash and every failed
\* write of hard_state.json: what persist_hard_state is there for.
THEOREM BallotsAreUnique == Spec => []OneBallotPerTerm
<1>1. BallotInv => OneBallotPerTerm
  BY DEF BallotInv
<1> QED  BY <1>1, BallotInit, BallotStep, TypeInvariant, PTL DEF Spec
-----------------------------------------------------------------------------
(***************************************************************************)
(* A term and an index name one entry, for any number of voters and any     *)
(* bounds, up to the first failed write of hard_state.json and as long as   *)
(* no compaction empties the list of a leader (an empty list's last index   *)
(* reads 0, src/src/ha/log.rs, and the leader would number from 1 again).   *)
(*                                                                          *)
(* What counts is not the logs alone: an entry that no log holds any more   *)
(* may come back in a late AppendEntries.  So the invariant speaks of every *)
(* entry that is in a log or on the wire.                                   *)
(***************************************************************************)

Items(l) == {l[i] : i \in DOMAIN l}

\* Every entry a replica holds or may yet be sent.
Pool ==
  {e \in Entries :
     \/ \E n \in Voters : e \in Items(log[n])
     \/ \E m \in msgs : m.type = "AppendEntries" /\ e \in Items(m.entries)}

OneEach ==
  \A e, f \in Pool : e.index = f.index /\ e.term = f.term => e = f

\* Only who has won a term makes entries of it.
TermsWon == \A e \in Pool : \E w \in elected : w.term = e.term

\* A leader's list reaches as far as any entry of its term.
LeaderIsAhead ==
  \A n \in Voters, e \in Pool :
    IsLeader(n) /\ e.term = hard[n].term => e.index <= LastIndex(log[n])

\* A node stands for a term once: a term it has won is behind it.
WonBefore == \A w \in elected : w.term <= hard[w.leader].term

StandsOnce ==
  \A n \in Voters :
    Collecting(n) => [term |-> hard[n].term, leader |-> n] \notin elected

EntryInv == OneEach /\ TermsWon /\ LeaderIsAhead /\ WonBefore /\ StandsOnce

\* Inductive, with ElectionInv, while no write of the hard state has failed.
RecordedEntries == NothingUnrecorded => EntryInv

\* The condition on compaction.
LeadersKeepTail ==
  \A n \in Voters : IsLeader(n) /\ MaybeSnapshot(n) => log'[n] # <<>>

-----------------------------------------------------------------------------
(* Where the entries of a list come from. *)

LEMMA SubSeqItems ==
  ASSUME NEW l, IsLog(l), NEW i \in Nat \ {0}, NEW j \in Int, j <= Len(l)
  PROVE  Items(SubSeq(l, i, j)) \subseteq Items(l)
<1>1. l \in Seq(Entries) /\ Len(l) \in Nat /\ DOMAIN l = 1..Len(l)
  BY LenProperties DEF IsLog
<1>2. \A k \in i..j : l[k] \in Entries
  BY <1>1, ElementOfSeq
<1>3. /\ SubSeq(l, i, j) \in Seq(Entries)
      /\ Len(SubSeq(l, i, j)) = IF i <= j THEN j - i + 1 ELSE 0
      /\ \A k \in 1..(j - i + 1) : SubSeq(l, i, j)[k] = l[i + k - 1]
  BY <1>2, SubSeqProperties
<1>4. DOMAIN SubSeq(l, i, j) = 1..Len(SubSeq(l, i, j))
  BY <1>3, LenProperties
<1>5. ASSUME NEW k \in DOMAIN SubSeq(l, i, j)
      PROVE  SubSeq(l, i, j)[k] \in Items(l)
  <2>1. k \in 1..(j - i + 1) /\ i + k - 1 \in DOMAIN l
    BY <1>1, <1>3, <1>4
  <2> QED  BY <1>3, <2>1 DEF Items
<1> QED  BY <1>5 DEF Items

LEMMA EntriesFromItems ==
  ASSUME NEW l, IsLog(l), NEW i \in Nat
  PROVE  Items(EntriesFrom(l, i)) \subseteq Items(l)
<1>1. FirstIndex(l) \in Nat /\ Len(l) \in Nat
  BY EndsLemma, LenProperties DEF IsLog
<1>2. CASE i < FirstIndex(l)
  BY <1>2 DEF EntriesFrom
<1>3. CASE ~(i < FirstIndex(l))
  <2>1. i - FirstIndex(l) + 1 \in Nat \ {0} /\ Len(l) \in Int /\ Len(l) <= Len(l)
    BY <1>1, <1>3
  <2>2. Items(SubSeq(l, i - FirstIndex(l) + 1, Len(l))) \subseteq Items(l)
    BY <2>1, SubSeqItems
  <2> QED  BY <1>3, <2>2 DEF EntriesFrom
<1> QED  BY <1>2, <1>3

LEMMA KeptItems ==
  ASSUME LogOK, MsgsOK, NEW n \in Voters, NEW m \in msgs, m.type = "AppendEntries"
  PROVE  Items(Kept(n, m)) \subseteq Items(log[n])
<1> DEFINE i == m.entries[1].index
<1>1. IsLog(m.entries) /\ IsLog(log[n])
  BY MessageLemma, LogLemma DEF MsgsOK
<1>2. CASE /\ m.entries # <<>> /\ Has(log[n], i)
           /\ TermAt(log[n], i) # m.entries[1].term
  <2>1. i \in Nat
    BY <1>1, <1>2, EndsLemma
  <2> HIDE DEF i
  <2>2. log[n] # <<>>
    BY <1>2 DEF Has
  <2>3. /\ FirstIndex(log[n]) \in Nat /\ Len(log[n]) \in Nat
        /\ log[n][1].index = FirstIndex(log[n])
    BY <1>1, <2>2, EndsLemma
  <2>4. i - FirstIndex(log[n]) \in Int /\ i - FirstIndex(log[n]) <= Len(log[n])
    BY <1>2, <2>1, <2>3 DEF Has
  <2>5. Items(SubSeq(log[n], 1, i - FirstIndex(log[n]))) \subseteq Items(log[n])
    BY <1>1, <2>4, SubSeqItems
  <2> QED  BY <2>5 DEF Kept, TruncateSuffix, i
<1>3. CASE ~(/\ m.entries # <<>> /\ Has(log[n], i)
             /\ TermAt(log[n], i) # m.entries[1].term)
  BY <1>3 DEF Kept
<1> QED  BY <1>2, <1>3

LEMMA PendingItems ==
  ASSUME LogOK, MsgsOK, NEW n \in Voters, NEW m \in msgs, m.type = "AppendEntries"
  PROVE  Items(Pending(n, m)) \subseteq Items(m.entries)
<1>1. IsLog(m.entries)
  BY MessageLemma DEF MsgsOK
<1>2. LastIndex(Kept(n, m)) \in Nat
  BY KeptLemma, EndsLemma
<1>3. LastIndex(Kept(n, m)) + 1 \in Nat
  BY <1>2
<1> QED  BY <1>1, <1>3, EntriesFromItems DEF Pending

LEMMA ConcatItems ==
  ASSUME NEW l, IsLog(l), NEW b, IsLog(b)
  PROVE  Items(l \o b) \subseteq Items(l) \cup Items(b)
<1>1. /\ Len(l) \in Nat /\ DOMAIN l = 1..Len(l)
      /\ Len(b) \in Nat /\ DOMAIN b = 1..Len(b)
  BY LenProperties DEF IsLog
<1>2. /\ l \o b \in Seq(Entries)
      /\ Len(l \o b) = Len(l) + Len(b)
      /\ \A i \in 1..Len(l) + Len(b) : (l \o b)[i] =
            IF i <= Len(l) THEN l[i] ELSE b[i - Len(l)]
  BY ConcatProperties DEF IsLog
<1>3. DOMAIN (l \o b) = 1..Len(l) + Len(b)
  BY <1>2, LenProperties
<1>4. ASSUME NEW i \in DOMAIN (l \o b)
      PROVE  (l \o b)[i] \in Items(l) \cup Items(b)
  <2>1. CASE i <= Len(l)
    BY <1>1, <1>2, <1>3, <2>1 DEF Items
  <2>2. CASE i > Len(l)
    <3>1. i - Len(l) \in DOMAIN b /\ (l \o b)[i] = b[i - Len(l)]
      BY <1>1, <1>2, <1>3, <2>2
    <3> QED  BY <3>1 DEF Items
  <2> QED  BY <1>1, <1>3, <2>1, <2>2
<1> QED  BY <1>4 DEF Items

\* A list with one more entry holds that entry besides, and ends with it.
LEMMA AppendItems ==
  ASSUME NEW l, IsLog(l), NEW e \in Entries
  PROVE  /\ Items(Append(l, e)) \subseteq Items(l) \cup {e}
         /\ LastIndex(Append(l, e)) = e.index
<1>1. /\ Append(l, e) \in Seq(Entries) /\ Len(Append(l, e)) = Len(l) + 1
      /\ \A i \in 1..Len(l) : Append(l, e)[i] = l[i]
      /\ Append(l, e)[Len(l) + 1] = e
  BY AppendProperties DEF IsLog
<1>2. /\ Len(l) \in Nat /\ DOMAIN l = 1..Len(l)
      /\ DOMAIN Append(l, e) = 1..Len(l) + 1
  BY <1>1, LenProperties DEF IsLog
<1>3. Append(l, e) # <<>>
  BY <1>1, <1>2, EmptySeq
<1>4. LastIndex(Append(l, e)) = e.index
  BY <1>1, <1>3 DEF LastIndex
<1>5. ASSUME NEW i \in DOMAIN Append(l, e)
      PROVE  Append(l, e)[i] \in Items(l) \cup {e}
  BY <1>1, <1>2 DEF Items
<1> QED  BY <1>4, <1>5 DEF Items

\* A list cut at the front ends where it did, if anything is left.
LEMMA TailEnd ==
  ASSUME NEW l, IsLog(l), NEW i \in Nat, EntriesFrom(l, i) # <<>>
  PROVE  LastIndex(EntriesFrom(l, i)) = LastIndex(l)
<1> DEFINE k == i - FirstIndex(l) + 1
<1>1. FirstIndex(l) \in Nat /\ Len(l) \in Nat
  BY EndsLemma, LenProperties DEF IsLog
<1>2. CASE i < FirstIndex(l)
  BY <1>2 DEF EntriesFrom
<1>3. CASE ~(i < FirstIndex(l))
  <2>1. k \in Nat \ {0}
    BY <1>1, <1>3
  <2>2. EntriesFrom(l, i) = SubSeq(l, k, Len(l))
    BY <1>3 DEF EntriesFrom
  <2> HIDE DEF k
  <2>3. \A j \in k..Len(l) : l[j] \in Entries
    BY <1>1, <2>1, ElementOfSeq DEF IsLog
  <2>4. /\ SubSeq(l, k, Len(l)) \in Seq(Entries)
        /\ Len(SubSeq(l, k, Len(l))) = IF k <= Len(l) THEN Len(l) - k + 1 ELSE 0
        /\ \A j \in 1..(Len(l) - k + 1) : SubSeq(l, k, Len(l))[j] = l[k + j - 1]
    BY <1>1, <2>1, <2>3, SubSeqProperties
  <2>5. k <= Len(l)
    BY <1>1, <2>1, <2>2, <2>4, EmptySeq
  <2>6. SubSeq(l, k, Len(l))[Len(l) - k + 1] = l[Len(l)]
    <3>1. Len(l) - k + 1 \in 1..(Len(l) - k + 1) /\ k + (Len(l) - k + 1) - 1 = Len(l)
      BY <1>1, <2>1, <2>5
    <3> QED  BY <2>4, <3>1
  <2>7. l # <<>>
    BY <1>1, <2>1, <2>5, EmptySeq
  <2> QED  BY <2>2, <2>4, <2>5, <2>6, <2>7 DEF LastIndex
<1> QED  BY <1>2, <1>3

-----------------------------------------------------------------------------
(* What a step may add to the pool. *)

LEMMA PoolLemma ==
  ASSUME TypeInv', NEW n \in Voters, NEW X \in SUBSET Entries,
         \A v \in Voters : v # n => log'[v] = log[v],
         Items(log'[n]) \subseteq Items(log[n]) \cup Pool \cup X,
         \A m \in msgs' \ msgs : m.type = "AppendEntries" =>
           Items(m.entries) \subseteq Items(log[n]) \cup Pool \cup X
  PROVE  Pool' \subseteq Pool \cup X
<1> SUFFICES ASSUME NEW e \in Pool'
             PROVE  e \in Pool \cup X
  OBVIOUS
<1>1. e \in Entries
  BY DEF Pool
<1>2. ASSUME NEW v \in Voters, e \in Items(log[v])
      PROVE  e \in Pool
  BY <1>1, <1>2 DEF Pool
<1>3. ASSUME NEW v \in Voters, e \in Items(log'[v])
      PROVE  e \in Pool \cup X
  BY <1>2, <1>3
<1>4. ASSUME NEW m \in msgs', m.type = "AppendEntries", e \in Items(m.entries)
      PROVE  e \in Pool \cup X
  <2>1. CASE m \in msgs
    BY <1>1, <1>4, <2>1 DEF Pool
  <2>2. CASE m \notin msgs
    BY <1>2, <1>4, <2>2
  <2> QED  BY <2>1, <2>2
<1> QED  BY <1>3, <1>4 DEF Pool, Items

\* What append_for takes off a list.
LEMMA AppendForItems ==
  ASSUME NEW n, NEW to, NEW t, NEW l, IsLog(l), NEW i \in Nat,
         AppendFor(n, to, t, l, i).type = "AppendEntries"
  PROVE  Items(AppendFor(n, to, t, l, i).entries) \subseteq Items(l)
<1> DEFINE tail == EntriesFrom(l, i)
           k == Least(Len(tail), MaxBatch)
<1>1. AppendFor(n, to, t, l, i).entries = SubSeq(tail, 1, k)
  BY DEF AppendFor
<1>2. IsLog(tail) /\ Len(tail) \in Nat /\ Items(tail) \subseteq Items(l)
  BY EntriesFromLemma, EntriesFromItems, LenProperties DEF IsLog
<1>3. k \in Int /\ k <= Len(tail)
  BY <1>2, BoundsAssumption DEF Least
<1> HIDE DEF tail, k
<1>4. Items(SubSeq(tail, 1, k)) \subseteq Items(tail)
  BY <1>2, <1>3, SubSeqItems
<1> QED  BY <1>1, <1>2, <1>4

LEMMA BroadcastItems ==
  ASSUME NEW n, NEW t, NEW l, IsLog(l), NEW nx \in [Voters -> Nat],
         NEW m \in Broadcast(n, t, l, nx), m.type = "AppendEntries"
  PROVE  Items(m.entries) \subseteq Items(l)
<1>1. PICK p \in Others(n) : m = AppendFor(n, p, t, l, nx[p])
  BY DEF Broadcast
<1>2. nx[p] \in Nat
  BY DEF Others
<1> QED  BY <1>1, <1>2, AppendForItems

\* Answers, vote requests and snapshots carry no entry.
LEMMA EmptyKinds ==
  /\ \A n, to, t, l, pre : RequestVote(n, to, t, l, pre).type = "RequestVote"
  /\ \A n, to, t, g : RequestVoteResp(n, to, t, g).type = "RequestVoteResp"
BY DEF RequestVote, RequestVoteResp

-----------------------------------------------------------------------------
(* What a step may do to the invariant. *)

\* Only n moves, to no lower term; it leads after the step only if it led before,
\* and stands for a term only if it did before or starts that term now.
Moves(n) ==
  /\ \A v \in Voters : v # n =>
       hard'[v] = hard[v] /\ soft'[v] = soft[v] /\ log'[v] = log[v]
  /\ hard'[n].term >= hard[n].term
  /\ Collecting(n)' => \/ hard'[n].term > hard[n].term
                       \/ Collecting(n) /\ hard'[n].term = hard[n].term
  /\ IsLeader(n)' => IsLeader(n) /\ hard'[n].term = hard[n].term

\* A step that makes no entry.
LEMMA KeepsEntries ==
  ASSUME TypeInv, TypeInv', EntryInv, NEW n \in Voters, Moves(n),
         UNCHANGED elected, Pool' \subseteq Pool,
         IsLeader(n)' => LastIndex(log'[n]) >= LastIndex(log[n])
  PROVE  EntryInv'
<1>1. /\ \A v \in Voters : hard[v].term \in Nat /\ hard'[v].term \in Nat
      /\ LastIndex(log[n]) \in Nat /\ LastIndex(log'[n]) \in Nat
      /\ \A e \in Pool : e.index \in Nat
      /\ \A w \in elected : w.term \in Nat /\ w.leader \in Voters
  <2>1. IsLog(log[n]) /\ IsLog(log'[n])
    BY DEF TypeInv, LogOK, IsLog
  <2> QED  BY <2>1, EndsLemma DEF TypeInv, HardOK, HardState, ElectedOK, Pool, Entries
<1>2. OneEach'
  <2>1. \A e, f \in Pool' : e.index = f.index /\ e.term = f.term => e = f
    BY DEF EntryInv, OneEach
  <2> QED  BY <2>1 DEF OneEach
<1>3. TermsWon'
  <2>1. \A e \in Pool' : \E w \in elected' : w.term = e.term
    BY DEF EntryInv, TermsWon
  <2> QED  BY <2>1 DEF TermsWon
<1>4. ASSUME NEW v \in Voters, NEW e \in Pool', IsLeader(v)', e.term = hard'[v].term
      PROVE  e.index <= LastIndex(log'[v])
  <2>1. CASE v = n
    <3>1. IsLeader(n) /\ e \in Pool /\ e.term = hard[n].term
      BY <1>4, <2>1 DEF Moves
    <3>2. e.index <= LastIndex(log[n])
      BY <3>1 DEF EntryInv, LeaderIsAhead
    <3> QED  BY <1>1, <1>4, <2>1, <3>1, <3>2
  <2>2. CASE v # n
    BY <1>4, <2>2 DEF Moves, IsLeader, EntryInv, LeaderIsAhead
  <2> QED  BY <2>1, <2>2
<1>5. LeaderIsAhead'
  BY <1>4 DEF LeaderIsAhead
<1>6. WonBefore'
  <2>1. \A w \in elected' : w.term <= hard'[w.leader].term
    BY <1>1 DEF Moves, EntryInv, WonBefore
  <2> QED  BY <2>1 DEF WonBefore
<1>7. ASSUME NEW v \in Voters, Collecting(v)'
      PROVE  [term |-> hard'[v].term, leader |-> v] \notin elected'
  <2>1. CASE v = n /\ hard'[n].term > hard[n].term
    <3>1. ASSUME [term |-> hard'[n].term, leader |-> n] \in elected
          PROVE  hard'[n].term <= hard[n].term
      BY <3>1 DEF EntryInv, WonBefore
    <3> QED  BY <1>1, <2>1, <3>1
  <2>2. CASE v = n /\ Collecting(n) /\ hard'[n].term = hard[n].term
    BY <2>2 DEF EntryInv, StandsOnce
  <2>3. CASE v # n
    BY <1>7, <2>3 DEF Moves, Collecting, EntryInv, StandsOnce
  <2> QED  BY <1>7, <2>1, <2>2, <2>3 DEF Moves
<1>8. StandsOnce'
  BY <1>7 DEF StandsOnce
<1> QED  BY <1>2, <1>3, <1>5, <1>6, <1>8 DEF EntryInv

\* A leader makes an entry: no other of its term reaches that far.
LEMMA MakesEntry ==
  ASSUME TypeInv, TypeInv', ElectionInv, EntryInv, NEW n \in Voters,
         NEW e \in Entries, IsLeader(n), Moves(n), ~Collecting(n)',
         UNCHANGED <<hard, elected>>,
         e.index = LastIndex(log[n]) + 1, e.term = hard[n].term,
         LastIndex(log'[n]) = e.index, Pool' \subseteq Pool \cup {e}
  PROVE  EntryInv'
<1>1. /\ LastIndex(log[n]) \in Nat
      /\ \A f \in Pool : f.index \in Nat
  <2>1. IsLog(log[n])
    BY DEF TypeInv, LogOK, IsLog
  <2> QED  BY <2>1, EndsLemma DEF Pool, Entries
<1>2. \A f \in Pool : f.term = e.term => f.index < e.index
  BY <1>1 DEF EntryInv, LeaderIsAhead
<1>3. OneEach'
  <2>1. \A f \in Pool : ~(f.index = e.index /\ f.term = e.term)
    BY <1>1, <1>2
  <2>2. \A f, g \in Pool \cup {e} : f.index = g.index /\ f.term = g.term => f = g
    BY <2>1 DEF EntryInv, OneEach
  <2>3. \A f, g \in Pool' : f.index = g.index /\ f.term = g.term => f = g
    BY <2>2
  <2> QED  BY <2>3 DEF OneEach
<1>4. TermsWon'
  <2>1. [term |-> hard[n].term, leader |-> n] \in elected
    BY DEF ElectionInv, LeadersElected
  <2>2. \A f \in Pool' : \E w \in elected' : w.term = f.term
    BY <2>1 DEF EntryInv, TermsWon
  <2> QED  BY <2>2 DEF TermsWon
<1>5. ASSUME NEW v \in Voters, NEW f \in Pool', IsLeader(v)', f.term = hard'[v].term
      PROVE  f.index <= LastIndex(log'[v])
  <2>1. CASE v = n
    BY <1>1, <1>2, <1>5, <2>1
  <2>2. CASE v # n
    <3>1. IsLeader(v) /\ log'[v] = log[v] /\ hard'[v] = hard[v]
      BY <1>5, <2>2 DEF Moves, IsLeader
    <3>2. hard[v].term # hard[n].term
      BY <2>2, <3>1, LeadersAgree DEF OneLeaderPerTerm
    <3>3. f \in Pool
      BY <1>5, <3>1, <3>2
    <3> QED  BY <1>5, <3>1, <3>3 DEF EntryInv, LeaderIsAhead
  <2> QED  BY <2>1, <2>2
<1>6. LeaderIsAhead'
  BY <1>5 DEF LeaderIsAhead
<1>7. WonBefore'
  <2>1. \A w \in elected' : w.term <= hard'[w.leader].term
    BY DEF EntryInv, WonBefore
  <2> QED  BY <2>1 DEF WonBefore
<1>8. ASSUME NEW v \in Voters, Collecting(v)'
      PROVE  [term |-> hard'[v].term, leader |-> v] \notin elected'
  BY <1>8 DEF Moves, Collecting, EntryInv, StandsOnce
<1>9. StandsOnce'
  BY <1>8 DEF StandsOnce
<1> QED  BY <1>3, <1>4, <1>6, <1>7, <1>9 DEF EntryInv

\* BackersMeet, of the state a step leads to.
Met == \A a, b \in elected : a.term = b.term => a.leader = b.leader

LEMMA WinnersMeetNext == (TypeInv /\ ElectionInv => Met)'
<1>1. TypeInv /\ ElectionInv => Met
  BY BackersMeet DEF Met
<1> QED  BY <1>1, PTL

\* A node becomes leader: nobody made an entry of its term before.
LEMMA WinsTerm ==
  ASSUME TypeInv, TypeInv', ElectionInv, ElectionInv', EntryInv, NEW n \in Voters,
         NEW X \in SUBSET Entries, Collecting(n), ~Collecting(n)',
         UNCHANGED hard,
         \A v \in Voters : v # n => soft'[v] = soft[v] /\ log'[v] = log[v],
         elected' = elected \cup {[term |-> hard[n].term, leader |-> n]},
         Pool' \subseteq Pool \cup X,
         \A e, f \in X : e = f,
         \A e \in X : e.term = hard[n].term /\ e.index = LastIndex(log'[n])
  PROVE  EntryInv'
<1> DEFINE me == [term |-> hard[n].term, leader |-> n]
<1>1. ASSUME NEW w \in elected, w.term = hard[n].term
      PROVE  FALSE
  <2>1. w \in elected' /\ me \in elected' /\ w.term = me.term
    BY <1>1
  <2>2. w.leader = n
    BY <2>1, WinnersMeetNext DEF Met
  <2>3. w = me
    BY <1>1, <2>2 DEF TypeInv, ElectedOK
  <2> QED  BY <2>3 DEF EntryInv, StandsOnce
<1>2. \A f \in Pool : f.term # hard[n].term
  BY <1>1 DEF EntryInv, TermsWon
<1>3. OneEach'
  <2>1. \A f, g \in Pool \cup X : f.index = g.index /\ f.term = g.term => f = g
    BY <1>2 DEF EntryInv, OneEach
  <2>2. \A f, g \in Pool' : f.index = g.index /\ f.term = g.term => f = g
    BY <2>1
  <2> QED  BY <2>2 DEF OneEach
<1>4. TermsWon'
  <2>1. me \in elected' /\ me.term = hard[n].term
    OBVIOUS
  <2> HIDE DEF me
  <2>2. \A f \in Pool : \E w \in elected' : w.term = f.term
    BY DEF EntryInv, TermsWon
  <2>3. \A f \in X : me.term = f.term
    BY <2>1
  <2>4. \A f \in Pool' : \E w \in elected' : w.term = f.term
    BY <2>1, <2>2, <2>3
  <2> QED  BY <2>4 DEF TermsWon
<1>5. ASSUME NEW v \in Voters, NEW f \in Pool', IsLeader(v)', f.term = hard'[v].term
      PROVE  f.index <= LastIndex(log'[v])
  <2>1. CASE v = n
    <3>1. f \in X /\ f.index \in Nat
      BY <1>2, <1>5, <2>1 DEF Pool, Entries
    <3> QED  BY <2>1, <3>1
  <2>2. CASE v # n
    <3>1. IsLeader(v) /\ log'[v] = log[v]
      BY <1>5, <2>2 DEF IsLeader
    <3>2. hard[v].term # hard[n].term
      <4>1. [term |-> hard[v].term, leader |-> v] \in elected
        BY <3>1 DEF ElectionInv, LeadersElected
      <4> QED  BY <1>1, <4>1
    <3>3. f \in Pool
      BY <1>5, <3>1, <3>2
    <3> QED  BY <1>5, <3>1, <3>3 DEF EntryInv, LeaderIsAhead
  <2> QED  BY <2>1, <2>2
<1>6. LeaderIsAhead'
  BY <1>5 DEF LeaderIsAhead
<1>7. WonBefore'
  <2>1. \A w \in elected' : w.term <= hard'[w.leader].term
    <3>1. hard[n].term \in Nat
      BY DEF TypeInv, HardOK, HardState
    <3> QED  BY <3>1 DEF EntryInv, WonBefore
  <2> QED  BY <2>1 DEF WonBefore
<1>8. ASSUME NEW v \in Voters, Collecting(v)'
      PROVE  [term |-> hard'[v].term, leader |-> v] \notin elected'
  <2>1. v # n /\ Collecting(v)
    BY <1>8 DEF Collecting
  <2> QED  BY <2>1 DEF EntryInv, StandsOnce
<1>9. StandsOnce'
  BY <1>8 DEF StandsOnce
<1> QED  BY <1>3, <1>4, <1>6, <1>7, <1>9 DEF EntryInv

-----------------------------------------------------------------------------
(* One step for each way of moving. *)

LEMMA FollowMoves ==
  ASSUME TypeInv, NEW n \in Voters, NEW l,
         soft' = [soft EXCEPT ![n] = FollowerOf(l)],
         UNCHANGED hardVars \/ \E t \in Nat : Observe(n, t),
         \A v \in Voters : v # n => log'[v] = log[v]
  PROVE  Moves(n) /\ ~IsLeader(n)' /\ ~Collecting(n)'
<1>1. hard \in [Voters -> HardState] /\ hard[n].term \in Nat
        /\ soft \in [Voters -> SoftState]
  BY DEF TypeInv, HardOK, HardState, SoftOK
<1>2. /\ hard'[n].term >= hard[n].term
      /\ \A v \in Voters : v # n => hard'[v] = hard[v]
  <2>1. CASE UNCHANGED hardVars
    BY <1>1, <2>1 DEF hardVars
  <2>2. ASSUME NEW t \in Nat, Observe(n, t)
        PROVE  hard' = [hard EXCEPT ![n] = Seen(n, t)] /\ Seen(n, t).term >= hard[n].term
    BY <1>1, <2>2 DEF Observe, Persist, Seen
  <2> QED  BY <1>1, <2>1, <2>2
<1>3. /\ soft'[n].role = "Follower"
      /\ \A v \in Voters : v # n => soft'[v] = soft[v]
  BY <1>1 DEF FollowerOf
<1> QED  BY <1>2, <1>3 DEF Moves, IsLeader, Collecting

LEMMA StayMoves ==
  ASSUME TypeInv, NEW n \in Voters, UNCHANGED <<hard, soft>>,
         \A v \in Voters : v # n => log'[v] = log[v]
  PROVE  Moves(n)
<1>1. hard[n].term \in Nat
  BY DEF TypeInv, HardOK, HardState
<1> QED  BY <1>1 DEF Moves, IsLeader, Collecting

\* Nothing is added where no log changes and no batch is sent.
LEMMA QuietPool ==
  ASSUME TypeInv', NEW n \in Voters, UNCHANGED log,
         \A m \in msgs' \ msgs : m.type # "AppendEntries"
  PROVE  Pool' \subseteq Pool
<1>1. Pool' \subseteq Pool \cup {}
  BY PoolLemma, {} \in SUBSET Entries
<1> QED  BY <1>1

\* Handlers that change no log.
LEMMA AnswersKeep ==
  ASSUME TypeInv, TypeInv', EntryInv, NEW n \in Voters, NEW m \in msgs,
         \/ HandleVoteIgnored(n, m) \/ HandleHigherAnswer(n, m)
         \/ HandleAppendStale(n, m) \/ HandleAppendMismatch(n, m)
         \/ HandleAppendAccepted(n, m) \/ HandleSnapshotInstalled(n, m)
         \/ HandlePreVote(n, m)
  PROVE  EntryInv'
<1>1. m.term \in Nat
  BY MessageLemma DEF TypeInv, MsgsOK
<1>2. UNCHANGED log /\ UNCHANGED elected
  BY DEF HandleVoteIgnored, HandleHigherAnswer, HandleAppendStale,
         HandleAppendMismatch, HandleAppendAccepted, HandleSnapshotInstalled,
         HandlePreVote, logVars
<1>3. Moves(n)
  <2>1. CASE \/ HandleVoteIgnored(n, m) \/ HandleHigherAnswer(n, m)
             \/ HandleAppendMismatch(n, m)
    <3>1. Observe(n, m.term) /\ \E l : soft' = [soft EXCEPT ![n] = FollowerOf(l)]
      BY <2>1 DEF HandleVoteIgnored, HandleHigherAnswer, HandleAppendMismatch
    <3> QED  BY <1>1, <1>2, <3>1, FollowMoves
  <2>2. CASE \/ HandleAppendStale(n, m) \/ HandleAppendAccepted(n, m)
             \/ HandleSnapshotInstalled(n, m) \/ HandlePreVote(n, m)
    <3>1. UNCHANGED <<hard, soft>>
      BY <2>2 DEF HandleAppendStale, HandleAppendAccepted, HandleSnapshotInstalled,
                  HandlePreVote, hardVars
    <3> QED  BY <1>2, <3>1, StayMoves
  <2> QED  BY <2>1, <2>2
<1>4. \A x \in msgs' \ msgs : x.type # "AppendEntries"
  <2>1. CASE \/ HandleVoteIgnored(n, m) \/ HandleHigherAnswer(n, m)
             \/ HandleAppendAccepted(n, m) \/ HandleSnapshotInstalled(n, m)
    BY <2>1 DEF HandleVoteIgnored, HandleHigherAnswer, HandleAppendAccepted,
                HandleSnapshotInstalled
  <2>2. CASE HandleAppendStale(n, m) \/ HandleAppendMismatch(n, m)
    <3>1. \E t, b, i, j : Send({AppendResp(n, m.from, t, b, i, j)})
      BY <2>2 DEF HandleAppendStale, HandleAppendMismatch
    <3> QED  BY <3>1, KindsLemma DEF Send
  <2>3. CASE HandlePreVote(n, m)
    <3>1. \E t, g : Answer(RequestVoteResp(n, m.from, hard[n].term, g), t)
      BY <2>3 DEF HandlePreVote
    <3> QED  BY <3>1, EmptyKinds DEF Answer, Send
  <2> QED  BY <2>1, <2>2, <2>3
<1>5. Pool' \subseteq Pool
  BY <1>2, <1>4, QuietPool
<1>6. LastIndex(log'[n]) >= LastIndex(log[n])
  <2>1. LastIndex(log[n]) \in Nat
    BY LogLemma, EndsLemma DEF TypeInv
  <2> QED  BY <1>2, <2>1
<1> QED  BY <1>2, <1>3, <1>5, <1>6, KeepsEntries

\* What a follower takes over from a leader was in the pool before.
LEMMA AppendsKeep ==
  ASSUME TypeInv, TypeInv', EntryInv, NEW n \in Voters, NEW m \in msgs,
         \/ HandleAppend(n, m) \/ HandleAppendRefused(n, m)
         \/ HandleInstallSnapshot(n, m)
  PROVE  EntryInv'
<1>1. m.term \in Nat /\ LogOK /\ MsgsOK
  BY MessageLemma DEF TypeInv, MsgsOK
<1>2. Observe(n, m.term) /\ \E l : soft' = [soft EXCEPT ![n] = FollowerOf(l)]
  BY DEF HandleAppend, HandleAppendRefused, HandleInstallSnapshot
<1>3. UNCHANGED elected /\ \A v \in Voters : v # n => log'[v] = log[v]
  BY <1>1 DEF HandleAppend, HandleAppendRefused, HandleInstallSnapshot, LogOK, logVars
<1>4. Moves(n) /\ ~IsLeader(n)'
  BY <1>1, <1>2, <1>3, FollowMoves
<1>5. \A x \in msgs' \ msgs : x.type # "AppendEntries"
  <2>1. CASE HandleAppend(n, m)
    <3>1. \E b, i, j : Send({AppendResp(n, m.from, m.term, b, i, j)})
      BY <2>1 DEF HandleAppend
    <3> QED  BY <3>1, KindsLemma DEF Send
  <2>2. CASE HandleAppendRefused(n, m)
    BY <2>2 DEF HandleAppendRefused
  <2>3. CASE HandleInstallSnapshot(n, m)
    <3>1. \E i : Send({SnapshotResp(n, m.from, m.term, i)})
      BY <2>3 DEF HandleInstallSnapshot
    <3> QED  BY <3>1, KindsLemma DEF Send
  <2> QED  BY <2>1, <2>2, <2>3
<1>6. Items(log'[n]) \subseteq Items(log[n]) \cup Pool
  <2>1. CASE HandleAppend(n, m)
    <3>1. m.type = "AppendEntries" /\ log'[n] = Kept(n, m) \o Pending(n, m)
      BY <1>1, <2>1 DEF HandleAppend, LogOK
    <3>2. Items(m.entries) \subseteq Pool
      <4>1. m.entries \in Seq(Entries)
        BY <3>1, MessageLemma DEF TypeInv, MsgsOK, IsLog
      <4>2. DOMAIN m.entries = 1..Len(m.entries)
        BY <4>1, LenProperties
      <4>3. Items(m.entries) \subseteq Entries
        BY <4>1, <4>2, ElementOfSeq DEF Items
      <4> QED  BY <3>1, <4>3 DEF Pool
    <3>3. /\ Items(Kept(n, m)) \subseteq Items(log[n])
          /\ Items(Pending(n, m)) \subseteq Items(m.entries)
          /\ Items(Kept(n, m) \o Pending(n, m))
               \subseteq Items(Kept(n, m)) \cup Items(Pending(n, m))
      BY <1>1, <3>1, KeptLemma, KeptItems, PendingItems, ConcatItems
    <3> QED  BY <3>1, <3>2, <3>3
  <2>2. CASE HandleAppendRefused(n, m)
    <3>1. m.type = "AppendEntries" /\ log'[n] = Kept(n, m)
      BY <1>1, <2>2 DEF HandleAppendRefused, LogOK
    <3> QED  BY <1>1, <3>1, KeptItems
  <2>3. CASE HandleInstallSnapshot(n, m)
    <3>1. \/ log'[n] = log[n]
          \/ log'[n] = EntriesFrom(log[n], m.snap.index + 1)
      BY <1>1, <2>3 DEF HandleInstallSnapshot, LogOK, logVars, CompactUpto
    <3>2. m.snap.index + 1 \in Nat
      <4>1. m.snap \in Snapshots
        BY <2>3, MessageLemma DEF TypeInv, MsgsOK, HandleInstallSnapshot
      <4> QED  BY <4>1 DEF Snapshots
    <3> QED  BY <1>1, <3>1, <3>2, LogLemma, EntriesFromItems
  <2> QED  BY <2>1, <2>2, <2>3
<1>7. Pool' \subseteq Pool \cup {}
  BY <1>3, <1>5, <1>6, PoolLemma, {} \in SUBSET Entries
<1> QED  BY <1>3, <1>4, <1>7, KeepsEntries

\* Batches cut from a log that does not change.
LEMMA BatchesKeep ==
  ASSUME TypeInv, TypeInv', EntryInv, NEW n \in Voters,
         Heartbeat(n) \/ \E m \in msgs : HandleAppendRejected(n, m)
  PROVE  EntryInv'
<1>1. UNCHANGED <<hard, soft, log, elected>>
  BY DEF Heartbeat, HandleAppendRejected, hardVars, logVars
<1>2. IsLog(log[n]) /\ next[n] \in [Voters -> Nat]
  BY LogLemma DEF TypeInv, LeaderOK
<1>3. ASSUME NEW x \in msgs' \ msgs, x.type = "AppendEntries"
      PROVE  Items(x.entries) \subseteq Items(log[n])
  <2>1. CASE Heartbeat(n)
    BY <1>2, <1>3, <2>1, BroadcastItems DEF Heartbeat, Send
  <2>2. ASSUME NEW m \in msgs, HandleAppendRejected(n, m)
        PROVE  Items(x.entries) \subseteq Items(log[n])
    <3> DEFINE i == Greatest(Least(next[n][m.from], m.conflict), snap[n].index + 1)
    <3>1. Send({AppendFor(n, m.from, hard[n].term, log[n], i)})
      BY <2>2 DEF HandleAppendRejected
    <3>2. i \in Nat
      <4>1. m.from \in Voters /\ m.conflict \in Nat /\ snap[n].index \in Nat
        BY <2>2, MessageLemma DEF HandleAppendRejected, TypeInv, MsgsOK, LogOK, Snapshots
      <4> QED  BY <1>2, <4>1 DEF Greatest, Least
    <3> HIDE DEF i
    <3> QED  BY <1>2, <1>3, <3>1, <3>2, AppendForItems DEF Send
  <2> QED  BY <2>1, <2>2
<1>4. Pool' \subseteq Pool \cup {}
  BY <1>1, <1>3, PoolLemma, {} \in SUBSET Entries
<1>5. LastIndex(log'[n]) >= LastIndex(log[n])
  <2>1. LastIndex(log[n]) \in Nat
    BY <1>2, EndsLemma
  <2> QED  BY <1>1, <2>1
<1> QED  BY <1>1, <1>4, <1>5, StayMoves, KeepsEntries

\* Steps of an election before it is won.
LEMMA VotesKeep ==
  ASSUME TypeInv, TypeInv', EntryInv, NEW n \in Voters, Moves(n),
         UNCHANGED <<log, elected>>,
         \A x \in msgs' \ msgs : x.type # "AppendEntries"
  PROVE  EntryInv'
<1>1. Pool' \subseteq Pool
  BY QuietPool
<1>2. LastIndex(log'[n]) >= LastIndex(log[n])
  <2>1. LastIndex(log[n]) \in Nat
    BY LogLemma, EndsLemma DEF TypeInv
  <2> QED  BY <2>1
<1> QED  BY <1>1, <1>2, KeepsEntries

LEMMA StartElectionKeeps ==
  ASSUME TypeInv, TypeInv', EntryInv, NEW n \in Voters, NEW t \in Nat,
         t >= hard[n].term, StartElection(n, t), UNCHANGED <<log, elected>>
  PROVE  EntryInv'
<1>1. /\ hard' = [hard EXCEPT ![n] = [term |-> t + 1, vote |-> n]]
      /\ soft' = [soft EXCEPT ![n] =
           [role |-> "Candidate", campaign |-> "Vote", votes |-> {n},
            pre |-> {}, leader |-> None]]
      /\ msgs' = msgs \cup AskVotes(n, t + 1, FALSE)
  BY DEF StartElection, Persist, Send
<1>2. hard \in [Voters -> HardState] /\ hard[n].term \in Nat
        /\ soft \in [Voters -> SoftState]
  BY DEF TypeInv, HardOK, HardState, SoftOK
<1>3. Moves(n)
  BY <1>1, <1>2 DEF Moves, IsLeader
<1>4. \A x \in msgs' \ msgs : x.type # "AppendEntries"
  BY <1>1, EmptyKinds DEF AskVotes
<1> QED  BY <1>3, <1>4, VotesKeep

LEMMA CampaignKeeps ==
  ASSUME TypeInv, TypeInv', EntryInv, NEW n \in Voters,
         \/ Timeout(n)
         \/ \E m \in msgs :
              \/ HandleRequestVote(n, m) \/ HandleProbeGranted(n, m)
              \/ HandleVoteGranted(n, m) \/ HandleTimeoutNow(n, m)
  PROVE  EntryInv'
<1>1. hard \in [Voters -> HardState] /\ hard[n].term \in Nat
        /\ soft \in [Voters -> SoftState]
  BY DEF TypeInv, HardOK, HardState, SoftOK
<1>2. UNCHANGED <<log, elected>>
  BY DEF Timeout, HandleRequestVote, HandleProbeGranted, HandleVoteGranted,
         HandleTimeoutNow, logVars
<1>3. CASE Timeout(n)
  <2>1. /\ UNCHANGED hard /\ Send(AskVotes(n, hard[n].term + 1, TRUE))
        /\ soft' = [soft EXCEPT ![n] =
             [role |-> "Candidate", campaign |-> "PreVote", votes |-> {},
              pre |-> {n}, leader |-> None]]
    BY <1>3 DEF Timeout, hardVars
  <2>2. Moves(n)
    BY <1>1, <1>2, <2>1 DEF Moves, IsLeader, Collecting
  <2>3. \A x \in msgs' \ msgs : x.type # "AppendEntries"
    BY <2>1, EmptyKinds DEF AskVotes, Send
  <2> QED  BY <1>2, <2>2, <2>3, VotesKeep
<1>4. ASSUME NEW m \in msgs, HandleRequestVote(n, m)
      PROVE  EntryInv'
  <2> DEFINE h == Seen(n, m.term)
  <2>1. m.term \in Nat
    BY MessageLemma DEF TypeInv, MsgsOK
  <2>2. /\ \E w : Persist(n, h, w) \/ Persist(n, [h EXCEPT !.vote = m.from], w)
        /\ soft' = [soft EXCEPT ![n] = SoftSeen(n, m.term)]
        /\ \E g : Answer(RequestVoteResp(n, m.from, h.term, g), m.term)
    BY <1>4 DEF HandleRequestVote
  <2>3. h \in HardState /\ h.term >= hard[n].term
    BY <1>1, <2>1 DEF Seen, HardState
  <2>4. h.term = hard[n].term => soft'[n] = soft[n]
    BY <1>1, <2>1, <2>2 DEF Seen, SoftSeen
  <2>5. h.term # hard[n].term => soft'[n].role = "Follower"
    BY <1>1, <2>1, <2>2 DEF Seen, SoftSeen, FollowerOf
  <2> HIDE DEF h
  <2>6. /\ \A v \in Voters : v # n => hard'[v] = hard[v] /\ soft'[v] = soft[v]
        /\ hard'[n].term = h.term
    BY <1>1, <2>2, <2>3 DEF Persist, HardState
  <2>7. Moves(n)
    BY <1>2, <2>3, <2>4, <2>5, <2>6 DEF Moves, IsLeader, Collecting
  <2>8. \A x \in msgs' \ msgs : x.type # "AppendEntries"
    BY <2>2, EmptyKinds DEF Answer, Send
  <2> QED  BY <1>2, <2>7, <2>8, VotesKeep
<1>5. ASSUME NEW m \in msgs, HandleProbeGranted(n, m)
      PROVE  EntryInv'
  <2>1. CASE StartElection(n, hard[n].term)
    BY <1>1, <1>2, <2>1, StartElectionKeeps
  <2>2. CASE /\ soft' = [soft EXCEPT ![n].pre = soft[n].pre \cup {m.from}]
             /\ UNCHANGED <<hardVars, msgs>>
    <3>1. /\ soft'[n].role = soft[n].role /\ soft'[n].campaign = soft[n].campaign
          /\ \A v \in Voters : v # n => soft'[v] = soft[v]
          /\ UNCHANGED <<hard, msgs>>
      BY <1>1, <2>2 DEF SoftState, hardVars
    <3>2. Moves(n)
      BY <1>1, <1>2, <3>1 DEF Moves, IsLeader, Collecting
    <3> QED  BY <1>2, <3>1, <3>2, VotesKeep
  <2> QED  BY <1>5, <2>1, <2>2 DEF HandleProbeGranted
<1>6. ASSUME NEW m \in msgs, HandleVoteGranted(n, m)
      PROVE  EntryInv'
  <2>1. /\ soft' = [soft EXCEPT ![n].votes = soft[n].votes \cup {m.from}]
        /\ UNCHANGED <<hard, msgs>>
    BY <1>6 DEF HandleVoteGranted, hardVars
  <2>2. /\ soft'[n].role = soft[n].role /\ soft'[n].campaign = soft[n].campaign
        /\ \A v \in Voters : v # n => soft'[v] = soft[v]
    BY <1>1, <2>1 DEF SoftState
  <2>3. Moves(n)
    BY <1>1, <1>2, <2>1, <2>2 DEF Moves, IsLeader, Collecting
  <2> QED  BY <1>2, <2>1, <2>3, VotesKeep
<1>7. ASSUME NEW m \in msgs, HandleTimeoutNow(n, m)
      PROVE  EntryInv'
  <2>1. m.term \in Nat /\ m.term >= hard[n].term /\ StartElection(n, m.term)
    BY <1>7, MessageLemma DEF HandleTimeoutNow, TypeInv, MsgsOK
  <2> QED  BY <1>2, <2>1, StartElectionKeeps
<1> QED  BY <1>3, <1>4, <1>5, <1>6, <1>7

-----------------------------------------------------------------------------
(* Steps of a leader. *)

\* The list a new entry is put on.
LEMMA WithOpItems ==
  ASSUME TypeInv, NEW n \in Voters, NEW op \in Ops \cup {Noop}
  PROVE  LET e == Entry(LastIndex(log[n]) + 1, hard[n].term, op)
         IN /\ e \in Entries /\ e.index = LastIndex(log[n]) + 1
            /\ e.term = hard[n].term
            /\ IsLog(WithOp(n, op)) /\ LastIndex(WithOp(n, op)) = e.index
            /\ Items(WithOp(n, op)) \subseteq Items(log[n]) \cup {e}
<1> DEFINE e == Entry(LastIndex(log[n]) + 1, hard[n].term, op)
<1>1. IsLog(log[n]) /\ LastIndex(log[n]) \in Nat /\ hard[n].term \in Nat
  BY LogLemma, EndsLemma DEF TypeInv, HardOK, HardState
<1>2. e \in Entries /\ e.index = LastIndex(log[n]) + 1 /\ e.term = hard[n].term
  BY <1>1 DEF Entry, Entries
<1>3. IsLog(WithOp(n, op))
  BY WithOpLemma DEF TypeInv
<1>4. WithOp(n, op) = Append(log[n], e)
  BY DEF WithOp
<1> HIDE DEF e
<1>5. /\ Items(Append(log[n], e)) \subseteq Items(log[n]) \cup {e}
      /\ LastIndex(Append(log[n], e)) = e.index
  BY <1>1, <1>2, AppendItems
<1>6. /\ LastIndex(WithOp(n, op)) = e.index
      /\ Items(WithOp(n, op)) \subseteq Items(log[n]) \cup {e}
  BY <1>4, <1>5
<1> QED  BY <1>2, <1>3, <1>6 DEF e

\* n puts an entry on its list and sends what it likes of the list.
LEMMA LeaderAppends ==
  ASSUME TypeInv, TypeInv', ElectionInv, EntryInv, NEW n \in Voters,
         NEW op \in Ops \cup {Noop}, IsLeader(n), Moves(n), ~Collecting(n)',
         UNCHANGED <<hard, elected>>, log'[n] = WithOp(n, op),
         \A x \in msgs' \ msgs : x.type = "AppendEntries" =>
           Items(x.entries) \subseteq Items(WithOp(n, op))
  PROVE  EntryInv'
<1> DEFINE e == Entry(LastIndex(log[n]) + 1, hard[n].term, op)
<1>1. /\ e \in Entries /\ e.index = LastIndex(log[n]) + 1
      /\ e.term = hard[n].term
      /\ LastIndex(WithOp(n, op)) = e.index
      /\ Items(WithOp(n, op)) \subseteq Items(log[n]) \cup {e}
  BY WithOpItems
<1> HIDE DEF e
<1>2. /\ Items(log'[n]) \subseteq Items(log[n]) \cup Pool \cup {e}
      /\ \A x \in msgs' \ msgs : x.type = "AppendEntries" =>
           Items(x.entries) \subseteq Items(log[n]) \cup Pool \cup {e}
      /\ {e} \in SUBSET Entries
      /\ \A v \in Voters : v # n => log'[v] = log[v]
  BY <1>1 DEF Moves
<1>3. Pool' \subseteq Pool \cup {e}
  BY <1>2, PoolLemma
<1> QED  BY <1>1, <1>3, MakesEntry

LEMMA ProposeKeeps ==
  ASSUME TypeInv, TypeInv', ElectionInv, EntryInv, NEW n \in Voters,
         NEW op \in Ops, Propose(n, op)
  PROVE  EntryInv'
<1>1. /\ IsLeader(n) /\ log' = [log EXCEPT ![n] = WithOp(n, op)]
      /\ Send(Broadcast(n, hard[n].term, WithOp(n, op), next[n]))
      /\ UNCHANGED <<hard, soft, elected>>
  BY DEF Propose, IsLeader, hardVars
<1>2. IsLog(WithOp(n, op)) /\ next[n] \in [Voters -> Nat]
  BY WithOpLemma DEF TypeInv, LeaderOK
<1>3. log'[n] = WithOp(n, op) /\ \A v \in Voters : v # n => log'[v] = log[v]
  BY <1>1 DEF TypeInv, LogOK
<1>4. \A x \in msgs' \ msgs : x.type = "AppendEntries" =>
        Items(x.entries) \subseteq Items(WithOp(n, op))
  BY <1>1, <1>2, BroadcastItems DEF Send
<1>5. Moves(n) /\ ~Collecting(n)'
  BY <1>1, <1>3, StayMoves DEF IsLeader, Collecting
<1> QED  BY <1>1, <1>3, <1>4, <1>5, LeaderAppends

LEMMA StepDownKeeps ==
  ASSUME TypeInv, TypeInv', ElectionInv, EntryInv, NEW n \in Voters, StepDown(n)
  PROVE  EntryInv'
<1>1. PICK appended \in BOOLEAN, S \in SUBSET Voters :
        LET l == IF appended THEN WithOp(n, Noop) ELSE log[n]
        IN /\ IsLeader(n) /\ UNCHANGED <<hardVars, elected>>
           /\ log' = [log EXCEPT ![n] = l]
           /\ soft' = [soft EXCEPT ![n] = FollowerOf(None)]
           /\ Send(Broadcast(n, hard[n].term, l, next[n]) \cup
                   {TimeoutNow(n, v, hard[n].term) : v \in S})
  BY DEF StepDown, IsLeader, Others
<1> DEFINE l == IF appended THEN WithOp(n, Noop) ELSE log[n]
<1>2. IsLog(l) /\ next[n] \in [Voters -> Nat]
  BY WithOpLemma, LogLemma DEF TypeInv, LeaderOK
<1>3. log'[n] = l /\ \A v \in Voters : v # n => log'[v] = log[v]
  BY <1>1 DEF TypeInv, LogOK
<1>4. \A x \in msgs' \ msgs : x.type = "AppendEntries" =>
        Items(x.entries) \subseteq Items(l)
  <2> HIDE DEF l
  <2>1. Send(Broadcast(n, hard[n].term, l, next[n]) \cup
             {TimeoutNow(n, v, hard[n].term) : v \in S})
    BY <1>1 DEF l
  <2> QED  BY <1>2, <2>1, BroadcastItems, KindsLemma DEF Send
<1>5. Moves(n) /\ ~IsLeader(n)' /\ ~Collecting(n)'
  BY <1>1, <1>3, FollowMoves
<1>6. UNCHANGED <<hard, elected>>
  BY <1>1 DEF hardVars
<1>7. CASE appended
  BY <1>1, <1>3, <1>4, <1>5, <1>6, <1>7, LeaderAppends
<1>8. CASE ~appended
  <2>1. \A x \in msgs' \ msgs : x.type = "AppendEntries" =>
          Items(x.entries) \subseteq Items(log[n])
    BY <1>4, <1>8
  <2>2. log'[n] = log[n]
    BY <1>3, <1>8
  <2>3. Pool' \subseteq Pool \cup {}
    BY <1>3, <2>1, <2>2, PoolLemma, {} \in SUBSET Entries
  <2> QED  BY <1>5, <1>6, <2>3, KeepsEntries
<1> QED  BY <1>7, <1>8

\* The first entry of a term is its leader's empty op, if it can be written.
LEMMA LastVoteKeeps ==
  ASSUME TypeInv, TypeInv', ElectionInv, ElectionInv', EntryInv,
         NEW n \in Voters, NEW m \in msgs, HandleLastVote(n, m)
  PROVE  EntryInv'
<1> DEFINE votes == soft[n].votes \cup {m.from}
           me == [term |-> hard[n].term, leader |-> n]
           e == Entry(LastIndex(log[n]) + 1, hard[n].term, Noop)
<1>1. /\ Counts(n, m) /\ soft[n].campaign = "Vote" /\ UNCHANGED hard
      /\ BecomeLeader(n, votes)
  BY DEF HandleLastVote, hardVars
<1>2. /\ soft \in [Voters -> SoftState] /\ log \in [Voters -> Seq(Entries)]
      /\ LastIndex(log[n]) \in Nat
  BY LogLemma, EndsLemma DEF TypeInv, SoftOK, LogOK
<1>3. Collecting(n)
  BY <1>1 DEF Counts, Collecting
<1>4. /\ \A v \in Voters : v # n => soft'[v] = soft[v] /\ log'[v] = log[v]
      /\ ~Collecting(n)' /\ elected' = elected \cup {me}
  BY <1>1, <1>2 DEF BecomeLeader, Collecting, SoftState
<1>5. CASE /\ log' = [log EXCEPT ![n] = WithOp(n, Noop)]
           /\ \E nx \in [Voters -> Nat] :
                Send(Broadcast(n, hard[n].term, WithOp(n, Noop), nx))
  <2>1. /\ e \in Entries /\ e.term = hard[n].term
        /\ IsLog(WithOp(n, Noop)) /\ LastIndex(WithOp(n, Noop)) = e.index
        /\ Items(WithOp(n, Noop)) \subseteq Items(log[n]) \cup {e}
    BY WithOpItems
  <2> HIDE DEF e, me
  <2>2. log'[n] = WithOp(n, Noop)
    BY <1>2, <1>5
  <2>3. \A x \in msgs' \ msgs : x.type = "AppendEntries" =>
          Items(x.entries) \subseteq Items(WithOp(n, Noop))
    BY <1>5, <2>1, BroadcastItems DEF Send
  <2>4. /\ {e} \in SUBSET Entries
        /\ Items(log'[n]) \subseteq Items(log[n]) \cup Pool \cup {e}
        /\ \A x \in msgs' \ msgs : x.type = "AppendEntries" =>
             Items(x.entries) \subseteq Items(log[n]) \cup Pool \cup {e}
    BY <2>1, <2>2, <2>3
  <2>5. Pool' \subseteq Pool \cup {e}
    BY <1>4, <2>4, PoolLemma
  <2>6. /\ \A x, y \in {e} : x = y
        /\ \A x \in {e} : x.term = hard[n].term /\ x.index = LastIndex(log'[n])
    BY <2>1, <2>2
  <2> QED  BY <1>1, <1>3, <1>4, <2>4, <2>5, <2>6, WinsTerm DEF me
<1>6. CASE UNCHANGED <<log, msgs>>
  <2>1. Pool' \subseteq Pool \cup {}
    BY <1>6, QuietPool
  <2>2. /\ {} \in SUBSET Entries /\ \A x, y \in {} : x = y
        /\ \A x \in {} : x.term = hard[n].term /\ x.index = LastIndex(log'[n])
    OBVIOUS
  <2> HIDE DEF me
  <2> QED  BY <1>1, <1>3, <1>4, <2>1, <2>2, WinsTerm DEF me
<1>7. [v \in Voters |-> LastIndex(log[n]) + 1] \in [Voters -> Nat]
  BY <1>2
<1> QED  BY <1>1, <1>5, <1>6, <1>7 DEF BecomeLeader

\* A snapshot of a leader that leaves something in the list moves no end.
LEMMA SnapshotKeeps ==
  ASSUME TypeInv, TypeInv', EntryInv, NEW n \in Voters, MaybeSnapshot(n),
         IsLeader(n) => log'[n] # <<>>
  PROVE  EntryInv'
<1>1. /\ UNCHANGED <<hard, soft, msgs, elected>>
      /\ log' = [log EXCEPT ![n] = EntriesFrom(log[n], Len(sm[n]) + 1)]
  BY DEF MaybeSnapshot, CompactUpto, hardVars
<1>2. IsLog(log[n]) /\ Len(sm[n]) + 1 \in Nat /\ LastIndex(log[n]) \in Nat
  BY LogLemma, EndsLemma, LenProperties DEF TypeInv, LogOK
<1>3. /\ log'[n] = EntriesFrom(log[n], Len(sm[n]) + 1)
      /\ \A v \in Voters : v # n => log'[v] = log[v]
  BY <1>1 DEF TypeInv, LogOK
<1>4. Items(log'[n]) \subseteq Items(log[n]) \cup Pool \cup {}
  BY <1>2, <1>3, EntriesFromItems
<1>5. Pool' \subseteq Pool \cup {}
  BY <1>1, <1>3, <1>4, PoolLemma, {} \in SUBSET Entries
<1>6. Moves(n)
  BY <1>1, <1>3, StayMoves
<1>7. IsLeader(n)' => LastIndex(log'[n]) >= LastIndex(log[n])
  BY <1>1, <1>2, <1>3, TailEnd DEF IsLeader
<1> QED  BY <1>1, <1>5, <1>6, <1>7, KeepsEntries

LEMMA RestartKeeps ==
  ASSUME TypeInv, TypeInv', ElectionInv, EntryInv, NEW n \in Voters, Restart(n)
  PROVE  EntryInv'
<1>1. /\ UNCHANGED <<disk, ballots, log, msgs, elected>>
      /\ hard' = [hard EXCEPT ![n] = disk[n]]
      /\ soft' = [soft EXCEPT ![n] = FollowerOf(None)]
  BY DEF Restart
<1>2. UNCHANGED hardVars
  BY <1>1 DEF hardVars, ElectionInv, Recorded, TypeInv, HardOK
<1>3. Moves(n)
  BY <1>1, <1>2, FollowMoves
<1> QED  BY <1>1, <1>3, VotesKeep

-----------------------------------------------------------------------------
LEMMA EntriesInit == Init => EntryInv
<1> SUFFICES ASSUME Init PROVE EntryInv
  OBVIOUS
<1>1. /\ msgs = {} /\ elected = {} /\ \A n \in Voters : log[n] = <<>>
      /\ \A n \in Voters : soft[n].role = "Follower"
  BY DEF Init, FollowerOf
<1>2. Items(<<>>) = {}
  BY DEF Items
<1>3. Pool = {}
  BY <1>1, <1>2 DEF Pool
<1> QED  BY <1>1, <1>3 DEF EntryInv, OneEach, TermsWon, LeaderIsAhead, WonBefore,
                           StandsOnce, Collecting

LEMMA EntriesStep ==
  ASSUME TypeInv, TypeInv', RecordedInv, RecordedInv', RecordedEntries,
         [Next]_vars, [LeadersKeepTail]_vars
  PROVE  RecordedEntries'
<1> SUFFICES ASSUME NothingUnrecorded'
             PROVE  EntryInv'
  BY DEF RecordedEntries
<1>1. /\ ElectionInv /\ EntryInv /\ ElectionInv'
      /\ \A n \in Voters, m \in msgs : ~HandleFails(n, m)
  BY FailuresCount DEF RecordedInv, RecordedEntries
<1>2. CASE UNCHANGED vars
  <2>1. UNCHANGED <<hard, soft, log, msgs, elected>>
    BY <1>2 DEF vars, hardVars, logVars
  <2>2. Pool' = Pool
    BY <2>1 DEF Pool, Items
  <2> QED  BY <1>1, <2>1, <2>2 DEF EntryInv, OneEach, TermsWon, LeaderIsAhead,
             WonBefore, StandsOnce, Collecting, IsLeader, LastIndex
<1>3. ASSUME NEW n \in Voters, NEW m \in msgs, Handle(n, m)
      PROVE  EntryInv'
  BY <1>1, <1>3, AnswersKeep, AppendsKeep, BatchesKeep, CampaignKeeps, LastVoteKeeps
     DEF Handle
<1>4. ASSUME LeadersKeepTail, NEW n \in Voters,
             NodeStep(n) \/ Restart(n) \/ \E op \in Ops : Propose(n, op)
      PROVE  EntryInv'
  <2>1. CASE Tick(n)
    BY <1>1, <2>1, BatchesKeep, CampaignKeeps DEF Tick
  <2>2. CASE StepDown(n) \/ Restart(n) \/ \E op \in Ops : Propose(n, op)
    BY <1>1, <2>2, StepDownKeeps, RestartKeeps, ProposeKeeps
  <2>3. CASE MaybeSnapshot(n)
    BY <1>1, <1>4, <2>3, SnapshotKeeps DEF LeadersKeepTail
  <2> QED  BY <1>1, <1>3, <1>4, <2>1, <2>2, <2>3 DEF NodeStep
<1> QED  BY <1>2, <1>4 DEF Next

\* In raft.rs a term and an index name one operation on every replica, for any
\* number of voters, while the hard state is written and no compaction empties
\* a leader's list (which it does once everything in it is applied: the last
\* index then reads 0 and the leader numbers from 1 again, section 4 of the
\* README).  It needs no agreement between leaders of different terms.
THEOREM EntriesAreUnique ==
  Spec /\ [][LeadersKeepTail]_vars => [](NothingUnrecorded => EntryIdentity)
<1>1. Init => RecordedEntries
  BY EntriesInit DEF RecordedEntries
<1>2. TypeInv /\ TypeInv' /\ RecordedInv /\ RecordedInv' /\ RecordedEntries
        /\ [Next]_vars /\ [LeadersKeepTail]_vars => RecordedEntries'
  BY EntriesStep
<1>3. TypeInv /\ RecordedEntries => (NothingUnrecorded => EntryIdentity)
  <2> SUFFICES ASSUME TypeInv, EntryInv, NEW a \in Voters, NEW b \in Voters,
                      NEW i \in DOMAIN log[a], NEW j \in DOMAIN log[b],
                      log[a][i].index = log[b][j].index,
                      log[a][i].term = log[b][j].term
               PROVE  log[a][i].op = log[b][j].op
    BY DEF RecordedEntries, EntryIdentity
  <2>1. \A n \in Voters : \A k \in DOMAIN log[n] : log[n][k] \in Pool
    <3> SUFFICES ASSUME NEW n \in Voters, NEW k \in DOMAIN log[n]
                 PROVE  log[n][k] \in Pool
      OBVIOUS
    <3>1. log[n] \in Seq(Entries) /\ DOMAIN log[n] = 1..Len(log[n])
      BY LenProperties DEF TypeInv, LogOK
    <3>2. log[n][k] \in Entries
      BY <3>1, ElementOfSeq
    <3> QED  BY <3>2 DEF Pool, Items
  <2> QED  BY <2>1 DEF EntryInv, OneEach
<1> QED  BY <1>1, <1>2, <1>3, TypeInvariant, ElectionInvariant, PTL DEF Spec
=============================================================================
