---------------------------- MODULE SlowCollector ----------------------------
(***************************************************************************)
(* The collection of slow-query digests from one database node (slow.rs:    *)
(* collect_once; the slow_ tables of store.rs).  The server's counters only *)
(* grow until it restarts; a collector keeps the counts it saw last, the    *)
(* baselines, records the differences, and opens a governance row for a     *)
(* digest with enough of them.  Every controller process has a collector,   *)
(* and an operator may start one more at any time.                          *)
(*                                                                          *)
(* The server counts per schema and digest, the baselines are per digest.   *)
(* Only the number of executions is modelled, not their times.              *)
(***************************************************************************)
EXTENDS FiniteSetsExt, Functions, SequencesExt

CONSTANTS
  Collectors,
  Rows,         \* pairs <<schema, digest>>
  TopRows,      \* how many rows the query returns (500 in the source)
  MinCount,     \* executions that make a digest worth governing
  MaxCount,     \* bound: executions in all
  MaxCases,     \* bound: governance rows of a digest
  MaxStops,     \* bound: restarts of the server and of collectors
  None

Digests == {row[2] : row \in Rows}
MostRecorded == MaxCount + 1   \* bound: no property tells more apart

VARIABLES
  stat,       \* the server's counters, of rows executed since it started
  executed,   \* history: executions of each row
  base,       \* slow_baselines: digests to counts
  recorded,   \* what slow_digest_snapshots adds up to for each digest
  gov,        \* slow_governance: the rows of each digest, oldest first
  job,        \* each collector: [pc, base, seen]
  slipped,    \* history: digests whose baseline was lost, refused, of another schema's row, or
              \* used when another round had already recorded from it
  stops

vars == <<stat, executed, base, recorded, gov, job, slipped, stops>>

Idle == [pc |-> "idle", base |-> <<>>, seen |-> <<>>]

Init ==
  /\ stat = [row \in Rows |-> 0] /\ executed = stat
  /\ base = <<>>
  /\ recorded = [d \in Digests |-> 0]
  /\ gov = [d \in Digests |-> <<>>]
  /\ job = [c \in Collectors |-> Idle]
  /\ slipped = {} /\ stops = 0

-----------------------------------------------------------------------------
(* The server. *)

Execute(row) ==
  /\ MapThenSumSet(LAMBDA r : executed[r], Rows) < MaxCount
  /\ stat' = [stat EXCEPT ![row] = @ + 1]
  /\ executed' = [executed EXCEPT ![row] = @ + 1]
  /\ UNCHANGED <<base, recorded, gov, job, slipped, stops>>

ServerRestart ==
  /\ stops < MaxStops /\ stops' = stops + 1
  /\ stat' = [row \in Rows |-> 0]
  /\ UNCHANGED <<executed, base, recorded, gov, job, slipped>>

-----------------------------------------------------------------------------
(* One collection. *)

Load(c) ==
  /\ job[c].pc = "idle"
  /\ job' = [job EXCEPT ![c].pc = "query", ![c].base = base]
  /\ UNCHANGED <<stat, executed, base, recorded, gov, slipped, stops>>

\* The rows with executions that took longest in all, at most TopRows of them.
Query(c) ==
  LET used == {row \in Rows : stat[row] > 0} IN
  /\ job[c].pc = "query"
  /\ \E top \in SUBSET used :
       /\ Cardinality(top) = Min({TopRows, Cardinality(used)})
       /\ job' = [job EXCEPT ![c].pc = "record", ![c].seen = [row \in top |-> stat[row]]]
       /\ slipped' = slipped \cup ({row[2] : row \in top} \cap {row[2] : row \in used \ top})
  /\ UNCHANGED <<stat, executed, base, recorded, gov, stops>>

Base(c, d) == IF d \in DOMAIN job[c].base THEN job[c].base[d] ELSE 0
\* A count below its baseline is one of a server that has restarted.
Delta(c, row) ==
  LET cur == job[c].seen[row] IN
  IF cur < Base(c, row[2]) THEN 0 ELSE cur - Base(c, row[2])
RowsOf(c, d) == {row \in DOMAIN job[c].seen : row[2] = d}

\* What another round has recorded since this one loaded the baselines.
Overtaken(c) ==
  {d \in Digests : RowsOf(c, d) # {} /\
     \/ d \in DOMAIN base /\ base[d] # Base(c, d)
     \/ \E x \in Collectors \ {c} : job[x].pc \in {"forget", "rebase"} /\ RowsOf(x, d) # {}}

\* slow_snapshots_insert
Record(c) ==
  /\ job[c].pc = "record"
  /\ slipped' = slipped \cup Overtaken(c)
  /\ recorded' = [d \in Digests |-> Min({MostRecorded,
       recorded[d] + MapThenSumSet(LAMBDA row : Delta(c, row), RowsOf(c, d))})]
  /\ job' = [job EXCEPT ![c].pc = "forget"]
  /\ UNCHANGED <<stat, executed, base, gov, stops>>

\* slow_baselines_set: the old ones are deleted, then the new ones inserted in one
\* statement, which fails as a whole when a digest is there twice.
DeleteBaselines(c) ==
  /\ job[c].pc = "forget"
  /\ slipped' = slipped \cup (DOMAIN base \ {row[2] : row \in DOMAIN job[c].seen})
  /\ base' = <<>>
  /\ job' = [job EXCEPT ![c].pc = "rebase"]
  /\ UNCHANGED <<stat, executed, recorded, gov, stops>>


Seen(c) == {row[2] : row \in DOMAIN job[c].seen}

NewBase(c) == [d \in Seen(c) |-> job[c].seen[CHOOSE row \in RowsOf(c, d) : TRUE]]

\* A digest is there twice if two schemas have it, or if another round has inserted it.
Refused(c) == \E d \in Seen(c) : d \in DOMAIN base \/ Cardinality(RowsOf(c, d)) > 1

InsertBaselines(c) ==
  /\ job[c].pc = "rebase"
  /\ base' = IF Refused(c) THEN base ELSE NewBase(c) @@ base
  /\ slipped' = IF Refused(c) THEN slipped \cup Seen(c) ELSE slipped
  /\ job' = [job EXCEPT ![c] = [Idle EXCEPT !.pc = "govern"]]
  /\ UNCHANGED <<stat, executed, recorded, gov, stops>>

Active(d) == \E i \in DOMAIN gov[d] : gov[d][i] \in {"open", "ack"}

\* What aggregate_window and rule_hit pick of the snapshots.
Frequent(d) == recorded[d] >= MinCount

\* slow_gov_ensure for every digest recorded often enough: look, then insert.
Govern(c) ==
  /\ job[c].pc = "govern"
  /\ job' = [job EXCEPT ![c].pc = "open",
                        ![c].seen = {d \in Digests : Frequent(d) /\ ~Active(d)}]
  /\ UNCHANGED <<stat, executed, base, recorded, gov, slipped, stops>>

OpenRows(c) ==
  /\ job[c].pc = "open"
  /\ gov' = [d \in Digests |->
       IF d \in job[c].seen THEN Append(gov[d], "open") ELSE gov[d]]
  /\ \A d \in Digests : Len(gov'[d]) <= MaxCases
  /\ job' = [job EXCEPT ![c] = Idle]
  /\ UNCHANGED <<stat, executed, base, recorded, slipped, stops>>

\* A process stops; the baselines of what it was about to set may be gone or old.
Stop(c) ==
  /\ job[c].pc # "idle"
  /\ stops < MaxStops /\ stops' = stops + 1
  /\ slipped' = IF job[c].pc \in {"forget", "rebase"} THEN Digests ELSE slipped
  /\ job' = [job EXCEPT ![c] = Idle]
  /\ UNCHANGED <<stat, executed, base, recorded, gov>>

-----------------------------------------------------------------------------
(* Governance by people, and pruning. *)

Act(d, i, to) ==
  /\ gov[d][i] \in {"open", "ack"} /\ gov[d][i] # to
  /\ gov' = [gov EXCEPT ![d][i] = to]
  /\ UNCHANGED <<stat, executed, base, recorded, job, slipped, stops>>

\* The snapshots of a digest and its resolved rows become old enough.
Prune(d) ==
  /\ \A i \in DOMAIN gov[d] : gov[d][i] = "resolved"
  /\ recorded[d] > 0
  /\ recorded' = [recorded EXCEPT ![d] = 0]
  /\ gov' = [gov EXCEPT ![d] = <<>>]
  /\ UNCHANGED <<stat, executed, base, job, slipped, stops>>

Collect(c) ==
  \/ Load(c) \/ Query(c) \/ Record(c) \/ DeleteBaselines(c) \/ InsertBaselines(c)
  \/ Govern(c) \/ OpenRows(c)

Next ==
  \/ ServerRestart
  \/ \E row \in Rows : Execute(row)
  \/ \E c \in Collectors : Collect(c) \/ Stop(c)
  \/ \E d \in Digests :
       \/ Prune(d)
       \/ \E i \in DOMAIN gov[d], to \in {"ack", "resolved"} : Act(d, i, to)

Spec == Init /\ [][Next]_vars

-----------------------------------------------------------------------------
ExecutedOf(d) == MapThenSumSet(LAMBDA row : executed[row], {row \in Rows : row[2] = d})


\* What D4 says without exception. It does not hold: two rounds over the same baselines,
\* or one digest in two schemas, are enough.
NeverTwice == \A d \in Digests : recorded[d] <= ExecutedOf(d)

\* A digest is in one open case at a time. It does not hold: two collectors look before
\* either inserts.
OneOpenCase ==
  \A d \in Digests : Cardinality({i \in DOMAIN gov[d] : gov[d][i] # "resolved"}) <= 1
=============================================================================
