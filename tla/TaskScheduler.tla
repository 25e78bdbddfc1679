---------------------------- MODULE TaskScheduler ----------------------------
(***************************************************************************)
(* The DAG scheduler (dag.rs) of several controllers, for one lifecycle     *)
(* task: submission, execution in waves, cancellation, a node's manual      *)
(* retry, and the takeover scan the leader runs on the shared database.     *)
(* Each node has one step, run under the replicated step ledger of          *)
(* instance.rs and ha/state.rs.                                             *)
(*                                                                          *)
(* A controller keeps its view of the task in memory and writes the task's  *)
(* and the nodes' rows to the database one statement at a time; a node's    *)
(* row is written when it is created and when the node ends.                *)
(***************************************************************************)
EXTENDS Integers, FiniteSets

CONSTANTS
  Controllers,
  Nodes,
  None,
  Settings    \* bound: the settings a behaviour may have

TaskStatus == {"pending", "running", "success", "failed", "skipped"}

ASSUME NoneAssumption == None \notin TaskStatus

\* A refused call had no effect; a lost one took effect and its answer is gone.
Events == {"cancels", "reruns", "refused", "lost", "crashes", "elections"}

\* The controllers that run, the graphs submitted, the retries of a node, and
\* how often each event may happen.
ASSUME SettingsAssumption ==
  \A s \in Settings :
    s \in [procs : SUBSET Controllers, graphs : SUBSET [Nodes -> SUBSET Nodes],
          retries : Nat, limits : [Events -> Nat]]

VARIABLES
  setting,
  deps,      \* the submitted graph
  taskRow, nodeRow,  \* the database; None: no row
  ledger,    \* the step ledger of each node
  acts,      \* how often each node's side effect has happened
  leader,
  mem,       \* each controller's view of the task, None if it has none
  run,       \* its execute() of the task, None if there is none
  late,      \* task status finish_task has still to write
  rerun,     \* node being retried by hand
  work,      \* run_node of each node
  canceled,  \* controllers with a cancel mark for the task
  spent

database == <<taskRow, nodeRow>>
local == <<mem, run, late, rerun, work, canceled>>
input == <<setting, deps>>
vars == <<input, database, ledger, acts, leader, local, spent>>

Procs == setting.procs      \* bound
Graphs == setting.graphs    \* bound
Retries == setting.retries
Limits == setting.limits    \* bound

NoWork == [pc |-> "off", tries |-> 0]
NewWork == [pc |-> "begin", tries |-> 1]

Init ==
  /\ setting \in Settings /\ deps \in Graphs
  /\ taskRow = None /\ nodeRow = [n \in Nodes |-> None]
  /\ ledger = [n \in Nodes |-> "none"]
  /\ acts = [n \in Nodes |-> 0]
  /\ leader \in Procs
  /\ mem = [p \in Controllers |-> None] /\ run = [p \in Controllers |-> None]
  /\ late = [p \in Controllers |-> None] /\ rerun = [p \in Controllers |-> None]
  /\ work = [p \in Controllers |-> [n \in Nodes |-> NoWork]]
  /\ canceled = {}
  /\ spent = [e \in Events |-> 0]

Spend(e) ==
  /\ spent[e] < Limits[e]
  /\ spent' = [spent EXCEPT ![e] = @ + 1]

\* The database's view of the task, as hydrate_task reads it.
Stored == [status |-> taskRow, results |-> nodeRow]

Running(p, pc) == run[p] # None /\ run[p].pc = pc
Report(p, n, status) == mem' = [mem EXCEPT ![p].results[n] = status]
Save(n, status) == nodeRow' = [nodeRow EXCEPT ![n] = status]

NewRun(pc, todo, left) ==
  [pc |-> pc, todo |-> todo, left |-> left,
   ready |-> {n \in todo : left[n] = {}}, active |-> {}, failed |-> FALSE]

\* Some of the nodes wait for one another.
Cyclic(todo) ==
  \E S \in SUBSET todo \ {{}} : \A n \in S : deps[n] \cap S # {}

-----------------------------------------------------------------------------
(* submit: the task's row, its nodes' rows, then execute. *)

Submit(p) ==
  /\ taskRow = None
  /\ taskRow' = "pending"
  /\ mem' = [mem EXCEPT ![p] =
       [status |-> "pending", results |-> [n \in Nodes |-> "pending"]]]
  /\ run' = [run EXCEPT ![p] = NewRun("rows", Nodes, deps)]
  /\ UNCHANGED <<input, nodeRow, ledger, acts, leader, late, rerun, work, canceled, spent>>

SubmitNode(p, n) ==
  /\ Running(p, "rows")
  /\ nodeRow[n] = None
  /\ Save(n, "pending")
  /\ UNCHANGED <<input, taskRow, ledger, acts, leader, local, spent>>

Launch(p) ==
  /\ Running(p, "rows")
  /\ \A n \in Nodes : nodeRow[n] # None
  /\ run' = [run EXCEPT ![p].pc = "start"]
  /\ canceled' = canceled \ {p}
  /\ UNCHANGED <<input, database, ledger, acts, leader, mem, late, rerun, work, spent>>

-----------------------------------------------------------------------------
(* execute *)

\* In a graph with a cycle one node fails and the others are skipped.
Start(p) ==
  /\ Running(p, "start")
  /\ taskRow' = "running"
  /\ \/ /\ ~Cyclic(run[p].todo)
        /\ mem' = [mem EXCEPT ![p].status = "running"]
        /\ run' = [run EXCEPT ![p].pc = "loop"]
        /\ UNCHANGED nodeRow
     \/ /\ Cyclic(run[p].todo)
        /\ \E bad \in run[p].todo :
             LET ends == [n \in run[p].todo |-> IF n = bad THEN "failed" ELSE "skipped"] IN
             /\ nodeRow' = [n \in Nodes |-> IF n \in run[p].todo THEN ends[n] ELSE nodeRow[n]]
             /\ mem' = [mem EXCEPT ![p] = [status |-> "running",
                  results |-> [n \in Nodes |->
                    IF n \in run[p].todo THEN ends[n] ELSE mem[p].results[n]]]]
        /\ run' = [run EXCEPT ![p].pc = "skip", ![p].todo = {}, ![p].failed = TRUE]
  /\ UNCHANGED <<input, ledger, acts, leader, late, rerun, work, canceled, spent>>

\* The ready nodes start together.
Wave(p) ==
  /\ Running(p, "loop")
  /\ run[p].ready # {} /\ p \notin canceled
  /\ run' = [run EXCEPT ![p].pc = "join", ![p].active = run[p].ready,
                        ![p].todo = @ \ run[p].ready, ![p].ready = {}]
  /\ mem' = [mem EXCEPT ![p].results =
       [n \in Nodes |-> IF n \in run[p].ready THEN "running" ELSE @[n]]]
  /\ work' = [work EXCEPT ![p] =
       [n \in Nodes |-> IF n \in run[p].ready THEN NewWork ELSE @[n]]]
  /\ UNCHANGED <<input, database, ledger, acts, leader, late, rerun, canceled, spent>>

Unblocked(left, n) == {d \in Nodes : left[d] = {n}}

\* A node has returned; the nodes it was the last to hold up become ready.
Join(p, n) ==
  /\ Running(p, "join") /\ n \in run[p].active
  /\ work[p][n].pc \in {"ok", "err"}
  /\ LET status == IF work[p][n].pc = "ok" THEN "success" ELSE "failed" IN
       /\ Report(p, n, status)
       /\ Save(n, status)
       /\ run' = [run EXCEPT
            ![p].active = @ \ {n},
            ![p].failed = @ \/ status = "failed",
            ![p].left = [d \in Nodes |-> @[d] \ {n}],
            ![p].ready = @ \cup (Unblocked(run[p].left, n) \cap run[p].todo)]
  /\ work' = [work EXCEPT ![p][n] = NoWork]
  /\ UNCHANGED <<input, taskRow, ledger, acts, leader, late, rerun, canceled, spent>>

AfterWave(r) == IF r.failed THEN "skip" ELSE "loop"

WaveEnds(p) ==
  /\ Running(p, "join") /\ run[p].active = {}
  /\ run' = [run EXCEPT ![p].pc = AfterWave(run[p])]
  /\ UNCHANGED <<input, database, ledger, acts, leader, mem, late, rerun, work, canceled, spent>>

\* Failure: every node that has not started is skipped.
Skip(p, n) ==
  /\ Running(p, "skip") /\ n \in run[p].todo
  /\ Report(p, n, "skipped")
  /\ Save(n, "skipped")
  /\ run' = [run EXCEPT ![p].todo = @ \ {n}]
  /\ UNCHANGED <<input, taskRow, ledger, acts, leader, late, rerun, work, canceled, spent>>

Final(p) == IF run[p].failed \/ p \in canceled THEN "failed" ELSE "success"

\* Mutant: the row is not written.
FinishViewOnly(p) ==
  /\ \/ Running(p, "loop") /\ (run[p].ready = {} \/ p \in canceled)
     \/ Running(p, "skip") /\ run[p].todo = {}
  /\ mem' = [mem EXCEPT ![p].status = Final(p)]
  /\ run' = [run EXCEPT ![p] = None]
  /\ UNCHANGED <<input, database, ledger, acts, leader, late, rerun, work, canceled, spent>>

\* finish_task sets the view, and then the row.
FinishView(p) ==
  /\ \/ Running(p, "loop") /\ (run[p].ready = {} \/ p \in canceled)
     \/ Running(p, "skip") /\ run[p].todo = {}
  /\ mem' = [mem EXCEPT ![p].status = Final(p)]
  /\ late' = [late EXCEPT ![p] = Final(p)]
  /\ run' = [run EXCEPT ![p] = None]
  /\ UNCHANGED <<input, database, ledger, acts, leader, rerun, work, canceled, spent>>

FinishRow(p) ==
  /\ late[p] # None
  /\ taskRow' = late[p]
  /\ late' = [late EXCEPT ![p] = None]
  /\ UNCHANGED <<input, nodeRow, ledger, acts, leader, mem, run, rerun, work, canceled, spent>>

-----------------------------------------------------------------------------
(* run_node, its step and the step ledger *)

FailAttempt(p, n) ==
  work' = [work EXCEPT ![p][n] =
    IF @.tries <= Retries THEN [pc |-> "begin", tries |-> @.tries + 1]
    ELSE [@ EXCEPT !.pc = "err"]]

Working(p, n, pc) == work[p][n].pc = pc
Proceed(p, n, pc) == work' = [work EXCEPT ![p][n].pc = pc]

KnownDone(n) == ledger[n] = "done"

\* StepBegin: a recorded step is not repeated; without a record nothing runs.
Begin(p, n) ==
  /\ Working(p, n, "begin")
  /\ \/ KnownDone(n) /\ Proceed(p, n, "ok") /\ UNCHANGED <<ledger, spent>>
     \/ /\ ~KnownDone(n)
        /\ ledger' = [ledger EXCEPT ![n] = "started"]
        /\ Proceed(p, n, "act")
        /\ UNCHANGED spent
     \/ Spend("refused") /\ FailAttempt(p, n) /\ UNCHANGED ledger
  /\ UNCHANGED <<input, database, acts, leader, mem, run, late, rerun, canceled>>

Act(p, n) ==
  /\ Working(p, n, "act")
  /\ \/ Proceed(p, n, "record") /\ UNCHANGED spent /\ acts' = [acts EXCEPT ![n] = @ + 1]
     \/ Spend("lost") /\ FailAttempt(p, n) /\ acts' = [acts EXCEPT ![n] = @ + 1]
     \/ Spend("refused") /\ FailAttempt(p, n) /\ UNCHANGED acts
  /\ UNCHANGED <<input, database, ledger, leader, mem, run, late, rerun, canceled>>

\* StepDone
Record(p, n) ==
  /\ Working(p, n, "record")
  /\ \/ /\ ledger' = [ledger EXCEPT ![n] = "done"]
        /\ Proceed(p, n, "ok")
        /\ UNCHANGED spent
     \/ Spend("lost") /\ FailAttempt(p, n) /\ UNCHANGED ledger
  /\ UNCHANGED <<input, database, acts, leader, mem, run, late, rerun, canceled>>

-----------------------------------------------------------------------------
(* cancel, rerun_node, resume_pending *)

Cancel(p) ==
  /\ mem[p] # None
  /\ Spend("cancels")
  /\ canceled' = canceled \cup {p}
  /\ UNCHANGED <<input, database, ledger, acts, leader, mem, run, late, rerun, work>>

View(p) == IF mem[p] = None THEN Stored ELSE mem[p]

\* Mutant: the nodes upstream are not looked at.
MayRerunAny(view, n) == view.results[n] \in {"failed", "skipped"}

MayRerun(view, n) ==
  /\ view.results[n] \in {"failed", "skipped"}
  /\ \A d \in deps[n] : view.results[d] = "success"

Rerun(p, n) ==
  /\ View(p).status = "failed"
  /\ MayRerun(View(p), n)
  /\ Spend("reruns")
  /\ mem' = [mem EXCEPT ![p] = [View(p) EXCEPT !.status = "running"]]
  /\ taskRow' = "running"
  /\ rerun' = [rerun EXCEPT ![p] = n]
  /\ work' = [work EXCEPT ![p][n] = NewWork]
  /\ UNCHANGED <<input, nodeRow, ledger, acts, leader, run, late, canceled>>

\* The task succeeds if every node has now succeeded or is skipped.
RerunEnds(p) ==
  /\ rerun[p] # None
  /\ LET n == rerun[p]
         status == IF work[p][n].pc = "ok" THEN "success" ELSE "failed"
         results == [mem[p].results EXCEPT ![n] = status]
         all == \A m \in Nodes : results[m] \in {"success", "skipped"}
         final == IF all THEN "success" ELSE "failed"
     IN
       /\ work[p][n].pc \in {"ok", "err"}
       /\ mem' = [mem EXCEPT ![p] = [status |-> final, results |-> results]]
       /\ Save(n, status)
       /\ late' = [late EXCEPT ![p] = final]
       /\ work' = [work EXCEPT ![p][n] = NoWork]
  /\ rerun' = [rerun EXCEPT ![p] = None]
  /\ UNCHANGED <<input, taskRow, ledger, acts, leader, run, canceled, spent>>

Satisfied == {n \in Nodes : nodeRow[n] = "success"}

ToRun == {n \in Nodes : nodeRow[n] = "pending"}

\* The leader takes over an unfinished task that it is not itself executing.
Resume(p) ==
  /\ p = leader
  /\ taskRow \in {"pending", "running"}
  /\ mem[p] # None => mem[p].status \in {"success", "failed"}
  /\ ToRun # {}
  /\ mem' = [mem EXCEPT ![p] = [status |-> "running",
       results |-> [n \in Nodes |-> IF n \in ToRun THEN "running" ELSE nodeRow[n]]]]
  /\ run' = [run EXCEPT ![p] = NewRun("start", ToRun, [n \in Nodes |-> deps[n] \ Satisfied])]
  /\ canceled' = canceled \ {p}
  /\ UNCHANGED <<input, database, ledger, acts, leader, late, rerun, work, spent>>

-----------------------------------------------------------------------------
Crash(p) ==
  /\ Spend("crashes")
  /\ mem' = [mem EXCEPT ![p] = None] /\ run' = [run EXCEPT ![p] = None]
  /\ late' = [late EXCEPT ![p] = None] /\ rerun' = [rerun EXCEPT ![p] = None]
  /\ work' = [work EXCEPT ![p] = [n \in Nodes |-> NoWork]]
  /\ canceled' = canceled \ {p}
  /\ UNCHANGED <<input, database, ledger, acts, leader>>

NewLeader(p) ==
  /\ p # leader
  /\ Spend("elections")
  /\ leader' = p
  /\ UNCHANGED <<input, database, ledger, acts, local>>

\* What a controller's runtime does on its own.
Execute(p) ==
  \/ Launch(p) \/ Start(p) \/ Wave(p) \/ WaveEnds(p) \/ FinishView(p) \/ FinishRow(p)
  \/ RerunEnds(p)
  \/ \E n \in Nodes :
       \/ SubmitNode(p, n) \/ Join(p, n) \/ Skip(p, n)
       \/ Begin(p, n) \/ Act(p, n) \/ Record(p, n)

Next ==
  \E p \in Procs :
    \/ Submit(p) \/ Execute(p) \/ Cancel(p) \/ Resume(p) \/ Crash(p) \/ NewLeader(p)
    \/ \E n \in Nodes : Rerun(p, n)

Spec == Init /\ [][Next]_vars

\* tokio polls every task that can go on; the leader's scan repeats for ever.
FairSpec ==
  Spec /\ \A p \in Controllers : WF_vars(Execute(p)) /\ WF_vars(Resume(p))
-----------------------------------------------------------------------------
\* The rows, the views and the coroutines' places.
TypeOK ==
  /\ setting \in Settings /\ deps \in Graphs /\ leader \in Procs /\ canceled \subseteq Procs
  /\ taskRow \in TaskStatus \cup {None}
  /\ nodeRow \in [Nodes -> TaskStatus \cup {None}]
  /\ ledger \in [Nodes -> {"none", "started", "done"}]
  /\ acts \in [Nodes -> Nat]
  /\ \A p \in Procs :
       /\ mem[p] = None \/ mem[p] \in
            [status : TaskStatus, results : [Nodes -> TaskStatus \cup {None}]]
       /\ run[p] = None \/ run[p] \in
            [pc : {"rows", "start", "loop", "join", "skip"}, todo : SUBSET Nodes,
             left : [Nodes -> SUBSET Nodes], ready : SUBSET Nodes,
             active : SUBSET Nodes, failed : BOOLEAN]
       /\ late[p] \in TaskStatus \cup {None}
       /\ rerun[p] \in Nodes \cup {None}
       /\ work[p] \in [Nodes -> [pc : {"off", "begin", "act", "record", "ok", "err"},
                                 tries : 0..(Retries + 1)]]
  /\ spent \in [Events -> Nat]

(***************************************************************************)
(* A node's side effect happens only when the ledger holds a result of      *)
(* every node it depends on, on whichever controller and after whatever     *)
(* crash, takeover, cancellation or manual retry.                           *)
(***************************************************************************)
DepsFirst ==
  [][\A n \in Nodes : acts'[n] # acts[n] =>
       \A d \in deps[n] : ledger[d] = "done"]_vars

Alone == Cardinality(Procs) = 1

(***************************************************************************)
(* A recorded success is final: neither a retry nor the scan after a crash  *)
(* of the one controller runs the node again and replaces its result.  (Two *)
(* controllers that execute one task do write over each other's rows.)      *)
(***************************************************************************)
SuccessIsFinal ==
  [][Alone => \A n \in Nodes :
        nodeRow[n] = "success" => nodeRow'[n] = "success"]_vars

Uncrashed == spent["crashes"] = 0

(***************************************************************************)
(* A task that one controller executes and reports successful has no failed *)
(* and no unfinished node, as long as that controller does not crash.       *)
(***************************************************************************)
SuccessMeansAll ==
  taskRow = "success" /\ Alone /\ Uncrashed =>
    \A n \in Nodes : nodeRow[n] \in {"success", "skipped"}

(***************************************************************************)
(* A node's failure is the task's: it is never reported successful beside   *)
(* a node whose row says that it failed.                                    *)
(***************************************************************************)
FailedNodeFailsTask ==
  taskRow = "success" => \A n \in Nodes : nodeRow[n] # "failed"

(***************************************************************************)
(* C4: however often a task is retried, resumed or taken over, a step's     *)
(* side effect happens at most once.                                        *)
(***************************************************************************)
EffectOnce == \A n \in Nodes : acts[n] <= 1

(***************************************************************************)
(* A submitted task ends, as a success or as a failure.                     *)
(***************************************************************************)
TasksEnd == taskRow \in {"pending", "running"} ~> taskRow \in {"success", "failed"}

(***************************************************************************)
(* The same while no controller crashes: whatever fails, is retried or is   *)
(* canceled, execute and rerun_node write the task's end.                   *)
(***************************************************************************)
UncrashedTasksEnd ==
  taskRow \in {"pending", "running"} ~>
    taskRow \in {"success", "failed"} \/ ~Uncrashed
=============================================================================
