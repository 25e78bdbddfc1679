------------------------------ MODULE LogStorage ------------------------------
(***************************************************************************)
(* The files of one Raft node: shard-N/log (src/src/ha/log.rs) and          *)
(* shard-N/snapshot.json with its predecessor (src/src/ha/snapshot.rs), as  *)
(* Node::open, append_batch, truncate_suffix, maybe_snapshot and the        *)
(* InstallSnapshot handler of src/src/ha/raft.rs use them.                  *)
(*                                                                         *)
(* The node's mutex makes the calls sequential; a kill or a power loss may  *)
(* fall between any two of their system calls, and system calls fail.       *)
(* Nothing is said from a power loss on that meets a process which started  *)
(* on bytes or names its killed predecessor had not synced, nor from a log  *)
(* on that could not be rewritten (risk).                                   *)
(***************************************************************************)
EXTENDS Naturals, Sequences

CONSTANTS
  Ops,        \* operations
  Threshold,  \* RaftConfig.snapshot_entry_threshold
  MaxIndex,   \* bound on the index of an operation
  Budget      \* bound on each kind of event

Events == {"fault", "kill", "power", "truncate", "snapshot", "install"}

ASSUME StorageAssumption ==
  /\ Threshold \in Nat /\ MaxIndex \in Nat /\ Budget \in [Events -> Nat]

VARIABLES
  dir,       \* what the directory names: [log, cur, prev]
  undone,    \* earlier states of it that a power loss may bring back
  entries,   \* Log.entries
  seed,      \* Log.seed_hash
  base,      \* Node.snapshot_index
  state,     \* the operations in the state machine, applied_index of them
  commit,    \* Node.commit_index
  call,      \* the call under way
  phase,     \* "up", "down" or "refused"
  promised,  \* history: the contents of the last call that succeeded
  maybe,     \* history: contents an unfinished or failed call may leave
  named,     \* the file the process writes is the one the directory names
  risk,      \* history: "none", "open" (started on what was not synced) or "met"
  spent      \* events so far, to bound the model

memory == <<entries, seed, base, state, commit>>
vars == <<dir, undone, memory, call, phase, promised, maybe, named, risk, spent>>

-----------------------------------------------------------------------------
(* Records, files and hashes *)

\* A hash stands for what it is the hash of: the snapshot the chain starts from and
\* the operations of the records since, one of which it is.
SeedOf(s) == [snap |-> s, past |-> <<>>]

ZeroSeed == SeedOf(<<>>)

Record(i, o, h) == [index |-> i, op |-> o, prev |-> h, whole |-> TRUE]

HashOf(r) == [snap |-> r.prev.snap, past |-> Append(r.prev.past, r.op)]

OpsOf(rs) == [i \in DOMAIN rs |-> rs[i].op]

\* The same records one behind the other from hash h on.
Chained(rs, h) ==
  [i \in DOMAIN rs |->
     Record(rs[i].index, rs[i].op,
            [snap |-> h.snap, past |-> h.past \o OpsOf(SubSeq(rs, 1, i - 1))])]

Torn(r) == [r EXCEPT !.whole = FALSE]

NoFile == [ops |-> <<>>, exists |-> FALSE]

Snapshot(s) == [ops |-> s, exists |-> TRUE]

\* synced: how many of the records a power loss spares.
LogFile(rs, n) == [recs |-> rs, synced |-> n]

LastIndex == IF entries = <<>> THEN 0 ELSE entries[Len(entries)].index

\* The records above index k and those up to it; the indices of a list are consecutive.
Beyond(rs, k) ==
  IF rs = <<>> \/ k < rs[1].index THEN rs
  ELSE SubSeq(rs, k - rs[1].index + 2, Len(rs))
UpTo(rs, k) ==
  IF rs = <<>> \/ k < rs[1].index THEN <<>>
  ELSE SubSeq(rs, 1, k - rs[1].index + 1)

\* What the node holds: the snapshot's operations and the entries after them.
Content(s, rs) == s \o OpsOf(Beyond(rs, Len(s)))

Held == Content(state, entries)

-----------------------------------------------------------------------------
(* Recovery *)

\* snapshot::load: the present snapshot, or else its predecessor.
Loaded(d) == IF d.cur.exists THEN d.cur.ops ELSE d.prev.ops

\* The records before the first torn one.
WholePart(rs) ==
  LET torn == {i \in DOMAIN rs : ~rs[i].whole}
  IN SubSeq(rs, 1, IF torn = {} THEN Len(rs)
                   ELSE (CHOOSE i \in torn : \A j \in torn : i <= j) - 1)

\* replay and drop_tail: a torn record is dropped only at the end, every other
\* disagreement is corruption.
Corrupt(rs, h) ==
  LET ok == WholePart(rs)
  IN \/ Len(ok) + 1 < Len(rs)
     \/ \E i \in DOMAIN ok : ok[i].prev # IF i = 1 THEN h ELSE HashOf(ok[i - 1])
     \/ \E i \in DOMAIN ok : i > 1 /\ ok[i].index # ok[i - 1].index + 1
     \/ ok # <<>> /\ h = ZeroSeed /\ ok[1].index # 1

Idle == [pc |-> "idle"]

Calling == phase = "up" /\ call = Idle

Spend(e) == spent[e] < Budget[e] /\ spent' = [spent EXCEPT ![e] = @ + 1]

\* The log file is one file under its old and its new directory entry, or under none.
SetLog(f) ==
  IF named
    THEN /\ dir' = [dir EXCEPT !.log = f]
         /\ undone' = {IF d.log = dir.log THEN [d EXCEPT !.log = f] ELSE d : d \in undone}
    ELSE UNCHANGED <<dir, undone>>

\* A directory entry changes; until the directory is synced the old may return.
SetDir(d) == dir' = d /\ undone' = undone \cup {dir}

NextHash == IF entries = <<>> THEN seed ELSE HashOf(entries[Len(entries)])

\* Entries as the leader numbers them; append_batch takes them only if they
\* go on where the list ends, which one emptied by compaction says is index 0.
Numbered(b, n) == [i \in 1..n |-> [index |-> Len(Held) + i, op |-> b[i]]]

Batches ==
  {rs \in {Chained(Numbered(b, n), NextHash) : n \in 1..2, b \in [1..2 -> Ops]} :
     rs[1].index = LastIndex + 1 /\ LastIndex + Len(rs) <= MaxIndex}

Written(rs) == LogFile(dir.log.recs \o rs, dir.log.synced)

Prefixes(rs) == {Held \o OpsOf(SubSeq(rs, 1, n)) : n \in 1..Len(rs)}

\* append_batch: write_all.
WriteBatch ==
  /\ Calling
  /\ \E rs \in Batches :
       /\ SetLog(Written(rs))
       /\ call' = [pc |-> "written", recs |-> rs]
       /\ maybe' = maybe \cup Prefixes(rs)
  /\ UNCHANGED <<memory, phase, promised, named, risk, spent>>

\* write_all fails after some of the bytes.
WriteFails ==
  /\ Calling /\ Spend("fault")
  /\ \E rs \in Batches, n \in 0..1 :
       /\ n < Len(rs)
       /\ SetLog(Written(Append(SubSeq(rs, 1, n), Torn(rs[n + 1]))))
       /\ maybe' = maybe \cup Prefixes(SubSeq(rs, 1, n))
  /\ UNCHANGED <<memory, call, phase, promised, named, risk>>

\* Mutant: the list grows, the file is synced by a later call.
SyncBatchLater ==
  /\ phase = "up" /\ call.pc = "written"
  /\ entries' = entries \o call.recs
  /\ promised' = Held \o OpsOf(call.recs) /\ maybe' = {} /\ call' = Idle
  /\ UNCHANGED <<dir, undone, seed, base, state, commit, phase, named, risk, spent>>

\* sync_all, and only then the list in memory.  What failed calls had left is behind the
\* records that are now certain, or in front of them and the log is damaged.
SyncBatch ==
  /\ phase = "up" /\ call.pc = "written"
  /\ SetLog(LogFile(dir.log.recs, Len(dir.log.recs)))
  /\ entries' = entries \o call.recs
  /\ promised' = Held \o OpsOf(call.recs) /\ maybe' = {} /\ call' = Idle
  /\ risk' = IF risk = "open" /\ undone = {} THEN "none" ELSE risk
  /\ UNCHANGED <<seed, base, state, commit, phase, named, spent>>

\* The bytes stay, the list does not grow, the node goes on.
SyncFails ==
  /\ phase = "up" /\ call.pc = "written" /\ Spend("fault")
  /\ call' = Idle
  /\ UNCHANGED <<dir, undone, memory, phase, promised, maybe, named, risk>>

\* rewrite puts its records into log.tmp and syncs it; it chains what it keeps
\* anew from hash h.  goal is what the caller will find.
Rewriting(rs, h, k, goal) ==
  [pc |-> "rewrite", recs |-> Chained(rs, h), seed |-> h, base |-> k, goal |-> goal]

\* What the next recovery may meet; without risk the crash may be a power loss.
Shown == {dir} \cup (IF risk = "none" THEN undone ELSE {})

\* The snapshots it may find with an empty log, other than s.
Strays(rs, s) == IF rs = <<>> THEN {Loaded(d) : d \in Shown} \ {s} ELSE {}

\* truncate_suffix, of entries that are not committed.
Truncate ==
  /\ Calling /\ Spend("truncate")
  /\ \E from \in (commit + 1)..LastIndex :
       LET keep == UpTo(entries, from - 1)
           goal == SubSeq(Held, 1, from - 1)
       IN /\ call' = Rewriting(keep, seed, base, goal)
          /\ maybe' = maybe \cup {goal} \cup Strays(keep, seed.snap)
  /\ UNCHANGED <<dir, undone, memory, phase, promised, named, risk>>

\* snapshot::save has written snapshot.tmp; the log is rewritten afterwards.
Saving(s) == [pc |-> "save", ops |-> s, goal |-> s \o SubSeq(Held, Len(s) + 1, Len(Held))]

\* maybe_snapshot of what is applied, after log.sync.
MaybeSnapshot ==
  /\ Calling /\ Spend("snapshot")
  /\ Threshold > 0 /\ Len(entries) > Threshold /\ Len(state) > base
  /\ SetLog(LogFile(dir.log.recs, Len(dir.log.recs)))
  /\ call' = Saving(state)
  /\ UNCHANGED <<memory, phase, promised, maybe, named, risk>>

\* InstallSnapshot: the leader's state is one we committed, or one that goes on
\* where our committed operations end.
InstallSnapshot ==
  /\ Calling /\ Spend("install")
  /\ \E s \in {SubSeq(Held, 1, k) : k \in 1..commit} \cup
             {SubSeq(Held, 1, commit) \o q : q \in {<<o>> : o \in Ops} \cup (Ops \X Ops)} :
       /\ Len(s) > base /\ Len(s) <= MaxIndex
       /\ call' = Saving(s)
       /\ maybe' = maybe \cup {Saving(s).goal}
  /\ UNCHANGED <<dir, undone, memory, phase, promised, named, risk>>

KeepPrevious ==
  /\ phase = "up" /\ call.pc = "save"
  /\ IF dir.cur.exists THEN SetDir([dir EXCEPT !.prev = dir.cur, !.cur = NoFile])
     ELSE UNCHANGED <<dir, undone>>
  /\ call' = [call EXCEPT !.pc = "place"]
  /\ UNCHANGED <<memory, phase, promised, maybe, named, risk, spent>>

PlaceSnapshot ==
  /\ phase = "up" /\ call.pc = "place"
  /\ SetDir([dir EXCEPT !.cur = Snapshot(call.ops)])
  /\ call' = [call EXCEPT !.pc = "saved"]
  /\ UNCHANGED <<memory, phase, promised, maybe, named, risk, spent>>

\* fsync_dir; then the state machine is the snapshot's and compact_upto follows.
SnapshotSaved ==
  /\ phase = "up" /\ call.pc = "saved"
  /\ undone' = {}
  /\ state' = call.ops
  /\ call' = Rewriting(Beyond(entries, Len(call.ops)), SeedOf(call.ops), Len(call.ops), call.goal)
  /\ UNCHANGED <<dir, entries, seed, base, commit, phase, promised, maybe, named, risk, spent>>

\* A rename or a sync of save fails: the call ends and the node goes on.
SaveFails ==
  /\ phase = "up" /\ call.pc \in {"save", "place", "saved"} /\ Spend("fault")
  /\ call' = Idle
  /\ UNCHANGED <<dir, undone, memory, phase, promised, maybe, named, risk>>

ReplaceLog ==
  /\ phase = "up" /\ call.pc = "rewrite"
  /\ SetDir([dir EXCEPT !.log = LogFile(call.recs, Len(call.recs))])
  /\ call' = [call EXCEPT !.pc = "replaced"]
  /\ UNCHANGED <<memory, phase, promised, maybe, named, risk, spent>>

LogReplaced ==
  /\ phase = "up" /\ call.pc = "replaced"
  /\ undone' = {} /\ call' = Idle
  /\ entries' = call.recs /\ seed' = call.seed /\ base' = call.base
  /\ commit' = IF call.base > commit THEN call.base ELSE commit
  /\ promised' = call.goal
  /\ maybe' = IF call.recs = <<>> THEN {Loaded(dir)} \ {call.seed.snap} ELSE {}
  /\ named' = TRUE /\ risk' = IF risk = "open" THEN "none" ELSE risk
  /\ UNCHANGED <<dir, state, phase, spent>>

\* log.tmp, its rename or the sync of the directory fails.  After the rename the process
\* goes on writing the old file, which has no name any more; after a snapshot its state
\* is that of the snapshot and its list is not.
RewriteFails ==
  /\ phase = "up" /\ call.pc \in {"rewrite", "replaced"} /\ Spend("fault")
  /\ call' = Idle
  /\ named' = (named /\ call.pc = "rewrite")
  /\ risk' = IF call.pc = "rewrite" /\ call.seed = seed THEN risk ELSE "met"
  /\ UNCHANGED <<dir, undone, memory, phase, promised, maybe>>

\* advance_commit and apply_committed: as far as the list has the entries.
Advance ==
  /\ Calling
  /\ \E k \in (commit + 1)..LastIndex :
       /\ commit' = k
       /\ state' = LET c == Content(state, entries)
                   IN SubSeq(c, 1, IF k < Len(c) THEN k ELSE Len(c))
       /\ maybe' = {c \in maybe : Len(c) >= k /\ SubSeq(c, 1, k) = SubSeq(Held, 1, k)}
  /\ UNCHANGED <<dir, undone, entries, seed, base, call, phase, promised, named, risk, spent>>

-----------------------------------------------------------------------------
(* Crashes and starts *)

Stop == phase' = "down" /\ call' = Idle

Kill ==
  /\ phase = "up" /\ Spend("kill") /\ Stop
  /\ UNCHANGED <<dir, undone, memory, promised, maybe, named, risk>>

\* Records that were not synced survive up to any byte.
Survivors(f) ==
  {SubSeq(f.recs, 1, n) : n \in f.synced..Len(f.recs)} \cup
  {Append(SubSeq(f.recs, 1, n), Torn(f.recs[n + 1])) : n \in f.synced..(Len(f.recs) - 1)}

PowerLoss ==
  /\ phase = "up" /\ Spend("power") /\ Stop
  /\ \E d \in {dir} \cup undone : \E rs \in Survivors(d.log) :
       dir' = [d EXCEPT !.log = LogFile(rs, Len(rs))]
  /\ undone' = {}
  /\ risk' = IF risk = "none" THEN "none" ELSE "met"
  /\ UNCHANGED <<memory, promised, maybe, named>>

\* Node::open reads the names and the bytes that are there and syncs none of them, but
\* for a log whose tail it drops.
Open ==
  LET s  == Loaded(dir)
      rs == WholePart(dir.log.recs)
      f  == LogFile(rs, Len(rs))
  IN /\ phase = "down"
     /\ IF Corrupt(dir.log.recs, SeedOf(s))
        THEN /\ phase' = "refused"
             /\ UNCHANGED <<dir, undone, memory, promised, maybe, named, risk>>
        ELSE /\ phase' = "up"
             /\ IF rs = dir.log.recs THEN UNCHANGED <<dir, undone>>
                ELSE /\ dir' = [dir EXCEPT !.log = f]
                     /\ undone' = {IF d.log = dir.log THEN [d EXCEPT !.log = f] ELSE d :
                                     d \in undone}
             /\ entries' = rs /\ seed' = SeedOf(s) /\ base' = Len(s)
             /\ state' = s /\ commit' = Len(s)
             /\ promised' = Content(s, rs) /\ maybe' = {}
             /\ named' = TRUE
             /\ risk' = IF risk = "met" THEN "met"
                        ELSE IF undone = {} /\ dir'.log.synced = Len(rs) THEN "none"
                        ELSE "open"
     /\ UNCHANGED <<call, spent>>

Start ==
  /\ dir = [log |-> LogFile(<<>>, 0), cur |-> NoFile, prev |-> NoFile]
  /\ undone = {} /\ entries = <<>> /\ seed = ZeroSeed /\ base = 0
  /\ state = <<>> /\ commit = 0 /\ call = Idle /\ phase = "up"
  /\ promised = <<>> /\ maybe = {} /\ named = TRUE /\ risk = "none"

Init == Start /\ spent = [e \in Events |-> 0]

Next ==
  \/ WriteBatch \/ WriteFails \/ SyncBatch \/ SyncFails
  \/ Truncate \/ MaybeSnapshot \/ InstallSnapshot
  \/ KeepPrevious \/ PlaceSnapshot \/ SnapshotSaved \/ SaveFails
  \/ ReplaceLog \/ LogReplaced \/ RewriteFails \/ Advance
  \/ Kill \/ PowerLoss \/ Open

Spec == Init /\ [][Next]_vars

-----------------------------------------------------------------------------
(* What the storage promises *)

Durable == INSTANCE DurableLog WITH
  content <- IF phase = "up" /\ call = Idle THEN Held ELSE promised,
  stable <- commit

\* log.rs: at start an incomplete tail is dropped, damage in the middle refused;
\* with no failed call there is no damage.
OpensAgain == phase # "refused"

TypeOK ==
  /\ \A i \in DOMAIN entries : entries[i].index \in 1..MaxIndex /\ entries[i].whole
  /\ commit \in 0..MaxIndex /\ base \in 0..commit
  /\ Len(state) <= MaxIndex
  /\ dir.log.synced \in 0..Len(dir.log.recs)
  /\ phase \in {"up", "down", "refused"}

\* A call that succeeded is never lost, one that failed never half done, and what is
\* committed stays, until risk is met.
ImplementsDurableLog ==
  Durable!AbstractInit /\ [][Durable!AbstractNext \/ risk' = "met"]_(Durable!abstractVars)
=============================================================================
