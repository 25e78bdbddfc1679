---------------------------- MODULE SinkProjection ----------------------------
(***************************************************************************)
(* The projection of committed decisions into the audit table of the sink   *)
(* (ha/projection.rs; the reconciliation loop of main.rs).  The loop of the *)
(* node that leads takes the decisions above its cursor from its own log,   *)
(* writes each one whose marker the table does not have, and moves the      *)
(* cursor.  The cursor is held in memory and in a file of the node.         *)
(*                                                                          *)
(* What is committed, and who leads, is the consensus module's matter: here *)
(* entries get committed and leaders come and go, and an old one may not    *)
(* know.  Indices in Decided are operations that are projected.             *)
(***************************************************************************)
EXTENDS FiniteSetsExt, Integers

CONSTANTS
  Nodes,
  ShardOf,     \* the shard of each node
  MaxIndex,    \* bound: entries of a shard's log
  Decided,     \* indices that hold a decision (project_op is not None)
  BatchLimit,  \* rows taken in a round (500 in the source)
  Budgets      \* bound: how many elections, compactions, crashes, failing calls, resyncs
               \* and losses of the table there are; a behaviour has one of these

IndexAssumption == Decided \subseteq Nat \ {0} /\ BatchLimit \in Nat

\* Markers are numbered as those of shard 0: two shards would take each other's for theirs.
OneShardAssumption == \A m, n \in Nodes : ShardOf[m] = ShardOf[n]

Shards == {ShardOf[n] : n \in Nodes}
Keys == Shards \X Decided

VARIABLES
  committed,   \* the last index each shard has committed
  applied,     \* the last index each node has applied
  snapshot,    \* the index each node's log begins after
  leads,       \* nodes that take themselves for the leader
  cursor,      \* each loop's cursor
  file,        \* projection.cursor
  round,       \* each loop: [pc, batch], the batch being worked off from its least index
  rows,        \* audit rows of each <<shard, index>>
  exempt,      \* decisions a node passed over for a reason that is named below
  unsure,      \* two nodes of a shard were in a round at once, or a marker was not looked up
  asked,       \* history: what a node, between two rounds, said it would project again
  left         \* what is left of the budget

vars ==
  <<committed, applied, snapshot, leads, cursor, file, round, rows, exempt, unsure, asked, left>>

Idle == [pc |-> "idle", batch |-> {}]

Init ==
  /\ committed = [s \in Shards |-> 0]
  /\ applied = [n \in Nodes |-> 0] /\ snapshot = applied
  /\ leads = {}
  /\ cursor = applied /\ file = applied
  /\ round = [n \in Nodes |-> Idle]
  /\ rows = [k \in Keys |-> 0]
  /\ exempt = [n \in Nodes |-> {}]
  /\ unsure = FALSE /\ asked = exempt
  /\ left \in Budgets

Spend(e) == left[e] > 0 /\ left' = [left EXCEPT ![e] = @ - 1]

-----------------------------------------------------------------------------
(* The log. *)

Commit(s) ==
  /\ committed[s] < MaxIndex
  /\ committed' = [committed EXCEPT ![s] = @ + 1]
  /\ UNCHANGED <<applied, snapshot, leads, cursor, file, round, rows, exempt, unsure, asked, left>>

Apply(n) ==
  /\ applied[n] < committed[ShardOf[n]]
  /\ applied' = [applied EXCEPT ![n] = @ + 1]
  /\ UNCHANGED <<committed, snapshot, leads, cursor, file, round, rows, exempt, unsure, asked, left>>

Compact(n) ==
  /\ snapshot[n] < applied[n] /\ Spend("compactions")
  /\ snapshot' = [snapshot EXCEPT ![n] = applied[n]]
  /\ UNCHANGED <<committed, applied, leads, cursor, file, round, rows, exempt, unsure, asked>>

\* An old leader may take itself for one a little longer.
Elect(n) ==
  /\ n \notin leads /\ Spend("elections")
  /\ leads' \in {leads \cup {n}, {m \in leads : ShardOf[m] # ShardOf[n]} \cup {n}}
  /\ UNCHANGED <<committed, applied, snapshot, cursor, file, round, rows, exempt, unsure, asked>>

Learn(n) ==
  /\ n \in leads /\ \E m \in leads \ {n} : ShardOf[m] = ShardOf[n]
  /\ leads' = leads \ {n}
  /\ UNCHANGED <<committed, applied, snapshot, cursor, file, round, rows, exempt, unsure, asked, left>>

-----------------------------------------------------------------------------
(* One round of the loop. *)

Above(n) == {i \in Decided : cursor[n] < i /\ i <= applied[n]}

\* The first decisions of the log above the cursor; those before the snapshot are gone.
Pending(n) ==
  LET there == {i \in Above(n) : i > snapshot[n]} IN
  {i \in there : Cardinality({j \in there : j < i}) < BatchLimit}

Collect(n) ==
  /\ n \in leads /\ round[n].pc = "idle" /\ Pending(n) # {}
  /\ round' = [round EXCEPT ![n] = [pc |-> "check", batch |-> Pending(n)]]
  /\ exempt' = [exempt EXCEPT ![n] = @ \cup {i \in Above(n) : i <= snapshot[n]}]
  /\ unsure' = (unsure \/ \E m \in Nodes \ {n} : ShardOf[m] = ShardOf[n] /\ round[m].pc # "idle")
  /\ UNCHANGED <<committed, applied, snapshot, leads, cursor, file, rows, asked, left>>

\* The row at hand.
Row(n) == Min(round[n].batch)
Key(n) == <<ShardOf[n], Row(n)>>

\* pending numbers every marker as one of shard 0: the table is asked for the index.
MarkerExists(n) == \E s \in Shards : rows[<<s, Row(n)>>] > 0

\* The last row of a batch is followed by commit, which moves the cursor there.
Passed(n) ==
  round' = [round EXCEPT ![n] =
    IF @.batch = {Row(n)} THEN [pc |-> "commit", batch |-> @.batch]
                          ELSE [pc |-> "check", batch |-> @.batch \ {Row(n)}]]

\* Mutant: rows are written whether they are there or not.
CheckNothing(n) ==
  /\ round[n].pc = "check"
  /\ round' = [round EXCEPT ![n].pc = "write"]
  /\ UNCHANGED <<committed, applied, snapshot, leads, cursor, file, rows, exempt, unsure, asked, left>>

\* audit_marker_exists; a query that fails says no.
Check(n) ==
  /\ round[n].pc = "check"
  /\ \/ /\ IF MarkerExists(n) THEN Passed(n) ELSE round' = [round EXCEPT ![n].pc = "write"]
        /\ UNCHANGED <<unsure, left>>
     \/ /\ Spend("failures")
        /\ round' = [round EXCEPT ![n].pc = "write"]
        /\ unsure' = TRUE
  /\ UNCHANGED <<committed, applied, snapshot, leads, cursor, file, rows, exempt, asked>>

\* audit does not tell whether it failed.
Write(n) ==
  /\ round[n].pc = "write"
  /\ \/ /\ rows' = [rows EXCEPT ![Key(n)] = @ + 1]
        /\ UNCHANGED <<exempt, asked, left>>
     \/ /\ Spend("failures")
        /\ exempt' = [exempt EXCEPT ![n] = @ \cup {Row(n)}]
        /\ asked' = [asked EXCEPT ![n] = @ \ {Row(n)}]
        /\ UNCHANGED rows
  /\ Passed(n)
  /\ UNCHANGED <<committed, applied, snapshot, leads, cursor, file, unsure>>

\* The file may not be written; the cursor in memory has moved already.
CommitCursor(n) ==
  /\ round[n].pc = "commit"
  /\ round' = [round EXCEPT ![n] = Idle]
  /\ cursor' = [cursor EXCEPT ![n] = IF @ < Row(n) THEN Row(n) ELSE @]
  /\ \/ file' = [file EXCEPT ![n] = cursor'[n]] /\ UNCHANGED left
     \/ Spend("failures") /\ UNCHANGED file
  /\ UNCHANGED <<committed, applied, snapshot, leads, rows, exempt, unsure, asked>>

-----------------------------------------------------------------------------
(* What disturbs it. *)

\* What is above the file is projected again.
Crash(n) ==
  /\ Spend("crashes")
  /\ leads' = leads \ {n}
  /\ applied' = [applied EXCEPT ![n] = snapshot[n]]
  /\ cursor' = [cursor EXCEPT ![n] = file[n]]
  /\ round' = [round EXCEPT ![n] = Idle]
  /\ exempt' = [exempt EXCEPT ![n] = {i \in @ : i <= file[n]}]
  /\ UNCHANGED <<committed, snapshot, file, rows, unsure, asked>>

\* An operator asks the leader to project again from the start: a projector of its own
\* sets the file back, not the cursor of the loop.
ResyncSink(n) ==
  /\ n \in leads /\ Spend("resyncs")
  /\ file' = [file EXCEPT ![n] = 0]
  /\ asked' = [asked EXCEPT ![n] =
       {i \in Decided : round[n].pc = "idle" /\ snapshot[n] < i /\ i <= applied[n]}]
  /\ UNCHANGED <<committed, applied, snapshot, leads, cursor, round, rows, exempt, unsure>>

\* The sink's table is lost, or restored from before.
SinkLost ==
  /\ Spend("losses")
  /\ exempt' = [n \in Nodes |-> exempt[n] \cup {i \in Decided : rows[<<ShardOf[n], i>>] > 0}]
  /\ rows' = [k \in Keys |-> 0]
  /\ asked' = [n \in Nodes |-> {}]
  /\ UNCHANGED <<committed, applied, snapshot, leads, cursor, file, round, unsure>>

Loop(n) == Collect(n) \/ Check(n) \/ Write(n) \/ CommitCursor(n)

Next ==
  \/ \E s \in Shards : Commit(s)
  \/ \E n \in Nodes :
       \/ Apply(n) \/ Compact(n) \/ Elect(n) \/ Learn(n) \/ Loop(n)
       \/ Crash(n) \/ ResyncSink(n)
  \/ SinkLost

Spec == Init /\ [][Next]_vars

-----------------------------------------------------------------------------
\* A decision has one audit row at most (projection.rs: idempotent by its marker),
\* through crashes between the row and the cursor, cursors that were not saved or were
\* set back, and changes of leader, unless two nodes of a
\* shard were in a round at once or a marker was not looked up.
ProjectedOnce == ~unsure => \A k \in Keys : rows[k] <= 1

\* No cursor passes a decision that is not in the sink (control-plane-ha-design.md C10),
\* but for those whose row the sink did not take, which nobody is told; that the log had
\* been compacted over; or that were in the table when it was lost.  A node passes over
\* them until it starts again with a cursor file from before.
CursorCovers ==
  \A n \in Nodes : \A i \in Decided \ exempt[n] :
    i <= file[n] => rows[<<ShardOf[n], i>>] > 0

ProjectionTrue == ProjectedOnce /\ CursorCovers

\* resync_sink: the next rounds of the running leader project again from the start, so that
\* no cursor passes what was asked for before it is in the sink.
ResyncReplays ==
  \A n \in Nodes : \A i \in asked[n] :
    i <= file[n] => rows[<<ShardOf[n], i>>] > 0
=============================================================================
