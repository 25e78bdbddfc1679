------------------------------ MODULE TaskDrafts ------------------------------
(***************************************************************************)
(* The life of a task that a user drafts (dag.rs: submit_draft, start_draft, *)
(* edit_draft, delete_task; api.rs).  A draft is an object in the memory of  *)
(* one process; editing puts another in its place.  Only its execution       *)
(* writes rows, node by node, and only an ended task may be deleted.  The    *)
(* tests of a request and what it then does are not one step, and an         *)
(* execution begins some time after the request that asked for it.           *)
(***************************************************************************)
EXTENDS Integers, FiniteSets

CONSTANTS
  Versions,     \* bound: the draft and what edits make of it
  Executions,   \* bound: executions
  MaxRestarts,  \* bound
  None

Nodes == {"first", "second"}   \* second depends on first
Ended == {"success", "failed"}

ExecutionRecords ==
  [of : Versions, pc : {"spawned", "row", "wave", "failed", "end", "over"},
   pending : SUBSET Nodes]

\* None is no verdict and no execution.
NoneAssumption == None \notin Ended /\ None \notin ExecutionRecords

VARIABLES
  current,    \* tasks[id]: the version in memory, or None
  status,     \* meta.status of each version; "unused" before it is made
  canceled,   \* the flag of the task's id
  editing,    \* a version that an edit tested and now replaces, or None
  exec,       \* each execution: [of, pc, pending] or None
  taskRow,    \* status in tasks, or None
  nodeRows,   \* the nodes with a row in task_nodes
  deleting,   \* a delete that has removed it from memory and the node rows
  gone,       \* history: delete_task has succeeded
  starts,     \* history: executions ever begun
  restarts

vars == <<current, status, canceled, editing, exec, taskRow, nodeRows, deleting, gone, starts,
          restarts>>

Init ==
  /\ \E v \in Versions :
       /\ current = v
       /\ status = [u \in Versions |-> IF u = v THEN "pending" ELSE "unused"]
  /\ canceled = FALSE /\ editing = None /\ exec = [e \in Executions |-> None]
  /\ taskRow = None /\ nodeRows = {}
  /\ deleting = FALSE /\ gone = FALSE /\ starts = 0 /\ restarts = 0

-----------------------------------------------------------------------------
(* Requests. *)

\* Only a pending draft may be started; its execution begins later.
StartDraft(e) ==
  /\ exec[e] = None
  /\ current # None /\ status[current] = "pending"
  /\ exec' = [exec EXCEPT ![e] = [of |-> current, pc |-> "spawned", pending |-> Nodes]]
  /\ canceled' = FALSE
  /\ starts' = starts + 1
  /\ UNCHANGED <<current, status, editing, taskRow, nodeRows, deleting, gone, restarts>>

TestEdit ==
  /\ editing = None
  /\ current # None /\ status[current] = "pending"
  /\ editing' = current
  /\ UNCHANGED <<current, status, canceled, exec, taskRow, nodeRows, deleting, gone, starts,
                 restarts>>

EditDraft(v) ==
  /\ editing # None /\ editing' = None
  /\ status[v] = "unused"
  /\ current' = v /\ status' = [status EXCEPT ![v] = "pending"]
  /\ canceled' = FALSE
  /\ UNCHANGED <<exec, taskRow, nodeRows, deleting, gone, starts, restarts>>

Cancel ==
  /\ current # None /\ canceled' = TRUE
  /\ UNCHANGED <<current, status, editing, exec, taskRow, nodeRows, deleting, gone, starts,
                 restarts>>

\* An ended task, or one of an earlier process whose row has ended, leaves the memory and
\* then the database, its nodes first.
DeleteTask ==
  /\ ~deleting
  /\ IF current # None THEN status[current] \in Ended ELSE taskRow \in Ended
  /\ current' = None
  /\ canceled' = (current = None /\ canceled)
  /\ nodeRows' = {} /\ deleting' = TRUE
  /\ UNCHANGED <<status, editing, exec, taskRow, gone, starts, restarts>>

\* The second statement may fail: the request does, too.
DeleteRow ==
  /\ deleting /\ deleting' = FALSE
  /\ \/ taskRow' = None /\ gone' = TRUE
     \/ UNCHANGED <<taskRow, gone>>
  /\ UNCHANGED <<current, status, canceled, editing, exec, nodeRows, starts, restarts>>

-----------------------------------------------------------------------------
(* An execution. *)

Go(e, pc) == exec' = [exec EXCEPT ![e].pc = pc]
At(e, pc) == exec[e] # None /\ exec[e].pc = pc

Begin(e) ==
  /\ At(e, "spawned")
  /\ status' = [status EXCEPT ![exec[e].of] = "running"]
  /\ Go(e, "row")
  /\ UNCHANGED <<current, canceled, editing, taskRow, nodeRows, deleting, gone, starts, restarts>>

\* upsert_task
RunningRow(e) ==
  /\ At(e, "row")
  /\ taskRow' = "running"
  /\ Go(e, "wave")
  /\ UNCHANGED <<current, status, canceled, editing, nodeRows, deleting, gone, starts, restarts>>

\* A node ends, and its row is written; after a failure the others are skipped, with a
\* row each.
RunNode(e, n) ==
  /\ At(e, "wave") /\ ~canceled
  /\ n \in exec[e].pending
  /\ n = "second" => "first" \notin exec[e].pending
  /\ \/ /\ nodeRows' = nodeRows \cup {n}
        /\ exec' = [exec EXCEPT ![e].pending = @ \ {n}]
     \/ /\ nodeRows' = nodeRows \cup exec[e].pending
        /\ exec' = [exec EXCEPT ![e].pending = {}, ![e].pc = "failed"]
  /\ UNCHANGED <<current, status, canceled, editing, taskRow, deleting, gone, starts, restarts>>

\* finish_task: first what memory says...
Finish(e) ==
  LET verdict == IF canceled \/ At(e, "failed") THEN "failed" ELSE "success" IN
  /\ \/ At(e, "failed")
     \/ At(e, "wave") /\ (canceled \/ exec[e].pending = {})
  /\ status' = [status EXCEPT ![exec[e].of] = verdict]
  /\ Go(e, "end")
  /\ UNCHANGED <<current, canceled, editing, taskRow, nodeRows, deleting, gone, starts, restarts>>

\* Mutant: the row is written again when there is none.
FinishRowUpsert(e) ==
  /\ At(e, "end")
  /\ taskRow' = status[exec[e].of]
  /\ Go(e, "over")
  /\ UNCHANGED <<current, status, canceled, editing, nodeRows, deleting, gone, starts, restarts>>

\* ... then the row, if there is one.
FinishRow(e) ==
  /\ At(e, "end")
  /\ taskRow' = IF taskRow = None THEN None ELSE status[exec[e].of]
  /\ Go(e, "over")
  /\ UNCHANGED <<current, status, canceled, editing, nodeRows, deleting, gone, starts, restarts>>

\* Drafts and executions are lost.  What is resumed are nodes with a row that has not
\* ended: a draft has none.
Restart ==
  /\ restarts < MaxRestarts /\ restarts' = restarts + 1
  /\ current' = None /\ canceled' = FALSE /\ editing' = None /\ deleting' = FALSE
  /\ exec' = [e \in Executions |-> IF exec[e] = None THEN None ELSE [exec[e] EXCEPT !.pc = "over"]]
  /\ UNCHANGED <<status, taskRow, nodeRows, gone, starts>>

Execute(e) ==
  \/ Begin(e) \/ RunningRow(e)
  \/ \E n \in Nodes : RunNode(e, n)
  \/ Finish(e) \/ FinishRow(e)

Next ==
  \/ \E e \in Executions : StartDraft(e) \/ Execute(e)
  \/ TestEdit \/ \E v \in Versions : EditDraft(v)
  \/ Cancel \/ DeleteTask \/ DeleteRow
  \/ Restart

Spec == Init /\ [][Next]_vars

-----------------------------------------------------------------------------
\* What is deleted stays deleted: nothing an execution writes after it has shown the task
\* as ended brings rows back (two executions at once, which start_draft lets happen, do).
GoneStaysGone == gone /\ starts <= 1 => taskRow = None /\ nodeRows = {}

\* resume_pending: an execution that a restart interrupts is taken up or given up, so that
\* its rows end or can be deleted.
RowsEnd == taskRow = "running" => \E e \in Executions : exec[e] # None /\ exec[e].pc # "over"

\* edit_draft: what is edited has not been started.
EditsBeforeStart ==
  \A e \in Executions : exec[e] # None /\ exec[e].pc \notin {"over", "end"} => exec[e].of = current

\* start_draft: a draft is started once.
StartedOnce == \A e, f \in Executions :
  e # f /\ exec[e] # None /\ exec[f] # None => exec[e].of # exec[f].of
=============================================================================
