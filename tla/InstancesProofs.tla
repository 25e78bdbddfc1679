--------------------------- MODULE InstancesProofs ---------------------------
(***************************************************************************)
(* What holds of the parts of MCInstances, whatever their constants.  A part *)
(* has an invariant of its own module, under the assumptions that module     *)
(* names, and keeps it while the other parts hold nothing.                   *)
(***************************************************************************)
EXTENDS MCInstances, FiniteSetTheorems, SequenceTheorems, TLAPS

\* A behaviour stays in its part, and makes the steps of that part's module.
LEMMA PartStep ==
  ASSUME [Next]_vars
  PROVE  /\ part' = part
         /\ part = "pool" => [Pool!Next]_(Pool!vars)
         /\ part = "health" => [Health!Next]_(Health!vars)
         /\ part = "query" => [Query!Next]_(Query!vars)
         /\ part = "drafts" => [Drafts!Next]_(Drafts!vars)
  <1>1. CASE UNCHANGED vars
    BY <1>1 DEF vars, Pool!vars, Health!vars, Query!vars, Drafts!vars
  <1>2. CASE Next
    BY <1>2 DEF Next
  <1> QED
    BY <1>1, <1>2

-----------------------------------------------------------------------------
(* TaskDrafts: an execution that has shown its task as ended writes no rows  *)
(* any more, except to update the one that is there.                         *)

version == v2
execution == v5
taskRow == v6
nodeRows == v7
deleting == v8
gone == v9
starts == v10

USE DEF version, execution, taskRow, nodeRows, deleting, gone, starts

\* The execution of which a task row or a version shows the end.
Quiet(e) == execution[e] # None /\ execution[e].pc \in {"end", "over"}
SomeQuiet == \E e \in That : Quiet(e)

DraftTypes ==
  /\ version \in [This -> {"unused", "pending", "running", "success", "failed"}]
  /\ DOMAIN execution = That
  /\ \A e \in That : execution[e] # None => execution[e] \in Drafts!ExecutionRecords
  /\ v1 \in This \cup {None}
  /\ starts \in Nat

\* Before the first start nothing is written.
NoneStarted ==
  starts = 0 =>
    /\ \A e \in That : execution[e] = None
    /\ \A v \in This : version[v] \notin Drafts!Ended
    /\ taskRow = None /\ nodeRows = {} /\ ~deleting /\ ~gone

\* With one start there is one execution, and an end is shown only when it has ended.
EndsAreShownLate ==
  starts = 1 =>
    /\ \A e, f \in That : execution[e] # None /\ execution[f] # None => e = f
    /\ \A v \in This : version[v] \in Drafts!Ended => SomeQuiet
    /\ taskRow \in Drafts!Ended => SomeQuiet
    /\ deleting \/ gone => SomeQuiet /\ nodeRows = {}
    /\ gone => taskRow = None

DraftInv == DraftTypes /\ NoneStarted /\ EndsAreShownLate

LEMMA DraftInit == part = "drafts" /\ Init => DraftInv
  <1> SUFFICES ASSUME Drafts!Init PROVE DraftInv
    BY DEF Init
  <1> QED
    BY DEF Drafts!Init, DraftInv, DraftTypes, NoneStarted, EndsAreShownLate, Drafts!Ended

LEMMA StartDraftStep ==
  ASSUME DraftInv, NEW e \in That, Drafts!StartDraft(e)
  PROVE  DraftInv'
  <1> DEFINE x == [of |-> v1, pc |-> "spawned", pending |-> Drafts!Nodes]
  <1>1. /\ v1 \in This /\ execution' = [execution EXCEPT ![e] = x] /\ starts' = starts + 1
        /\ UNCHANGED <<v1, version, taskRow, nodeRows, deleting, gone>>
    BY DEF Drafts!StartDraft, DraftInv, DraftTypes
  <1>2. x \in Drafts!ExecutionRecords
    BY <1>1 DEF Drafts!ExecutionRecords
  <1> HIDE DEF x
  <1>3. DraftTypes'
    BY <1>1, <1>2 DEF DraftInv, DraftTypes, Drafts!ExecutionRecords
  <1>4. NoneStarted'
    BY <1>1 DEF DraftInv, DraftTypes, NoneStarted
  <1>5. ASSUME starts' = 1 PROVE EndsAreShownLate'
    <2>1. starts = 0
      BY <1>1, <1>5 DEF DraftInv, DraftTypes
    <2>2. \A f \in That : f # e => execution'[f] = None
      BY <1>1, <2>1 DEF DraftInv, DraftTypes, NoneStarted
    <2>3. None \notin Drafts!Ended
      BY PartsAssumption DEF Drafts!NoneAssumption
    <2> QED
      BY <1>1, <2>1, <2>2, <2>3 DEF DraftInv, NoneStarted, EndsAreShownLate
  <1> QED
    BY <1>3, <1>4, <1>5 DEF DraftInv, EndsAreShownLate

\* A step that neither begins nor ends an execution, and shows no end.
LEMMA NothingShown ==
  ASSUME DraftInv, DraftTypes', UNCHANGED <<execution, taskRow, nodeRows, starts>>,
         \A v \in This : version'[v] \in Drafts!Ended => version[v] \in Drafts!Ended,
         deleting' => deleting, UNCHANGED gone
  PROVE  DraftInv'
  BY DEF DraftInv, NoneStarted, EndsAreShownLate, SomeQuiet, Quiet

LEMMA EditStep ==
  ASSUME DraftInv, Drafts!TestEdit \/ Drafts!Cancel \/ \E v \in This : Drafts!EditDraft(v)
  PROVE  DraftInv'
  <1>1. CASE Drafts!TestEdit \/ Drafts!Cancel
    <2>1. UNCHANGED <<v1, version, execution, taskRow, nodeRows, deleting, gone, starts>>
      BY <1>1 DEF Drafts!TestEdit, Drafts!Cancel
    <2>2. DraftTypes'
      BY <2>1 DEF DraftInv, DraftTypes
    <2> QED
      BY <2>1, <2>2, NothingShown
  <1>2. ASSUME NEW v \in This, Drafts!EditDraft(v) PROVE DraftInv'
    <2>1. /\ UNCHANGED <<execution, taskRow, nodeRows, deleting, gone, starts>> /\ v1' = v
          /\ version' = [version EXCEPT ![v] = "pending"]
      BY <1>2 DEF Drafts!EditDraft
    <2>2. DraftTypes'
      BY <2>1 DEF DraftInv, DraftTypes
    <2>3. \A u \in This : version'[u] \in Drafts!Ended => version[u] \in Drafts!Ended
      BY <2>1 DEF DraftInv, DraftTypes, Drafts!Ended
    <2> QED
      BY <2>1, <2>2, <2>3, NothingShown
  <1> QED
    BY <1>1, <1>2

\* Only an ended task is deleted, and with one start its execution has ended.
LEMMA DeleteTaskStep ==
  ASSUME DraftInv, Drafts!DeleteTask
  PROVE  DraftInv'
  <1>1. /\ UNCHANGED <<version, execution, taskRow, gone, starts>> /\ v1' = None
        /\ nodeRows' = {} /\ deleting'
        /\ (v1 # None /\ version[v1] \in Drafts!Ended) \/ taskRow \in Drafts!Ended
    BY DEF Drafts!DeleteTask
  <1>2. DraftTypes'
    BY <1>1 DEF DraftInv, DraftTypes
  <1>3. (\E v \in This : version[v] \in Drafts!Ended) \/ taskRow \in Drafts!Ended
    BY <1>1 DEF DraftInv, DraftTypes
  <1>4. None \notin Drafts!Ended
    BY PartsAssumption DEF Drafts!NoneAssumption
  <1> QED
    BY <1>1, <1>2, <1>3, <1>4 DEF DraftInv, NoneStarted, EndsAreShownLate, SomeQuiet, Quiet

LEMMA DeleteRowStep ==
  ASSUME DraftInv, Drafts!DeleteRow
  PROVE  DraftInv'
  <1>1. /\ UNCHANGED <<v1, version, execution, nodeRows, starts>> /\ deleting /\ ~deleting'
        /\ (taskRow' = None /\ gone' = TRUE) \/ UNCHANGED <<taskRow, gone>>
    BY DEF Drafts!DeleteRow
  <1>2. DraftTypes'
    BY <1>1 DEF DraftInv, DraftTypes
  <1>3. None \notin Drafts!Ended
    BY PartsAssumption DEF Drafts!NoneAssumption
  <1> QED
    BY <1>1, <1>2, <1>3 DEF DraftInv, NoneStarted, EndsAreShownLate, SomeQuiet, Quiet

\* An execution that is not quiet: with one start there is no quiet one, so that nothing
\* is deleted or being deleted.
LEMMA NotQuiet ==
  ASSUME DraftInv, starts <= 1, NEW e \in That, execution[e] # None, ~Quiet(e)
  PROVE  /\ starts = 1 /\ ~SomeQuiet /\ ~deleting /\ ~gone /\ taskRow \notin Drafts!Ended
         /\ \A v \in This : version[v] \notin Drafts!Ended
  <1>1. starts = 1
    BY DEF DraftInv, DraftTypes, NoneStarted
  <1>2. ~SomeQuiet
    BY <1>1 DEF DraftInv, EndsAreShownLate, SomeQuiet, Quiet
  <1> QED
    BY <1>1, <1>2 DEF DraftInv, EndsAreShownLate

\* An execution goes on; the types stay.
LEMMA ExecutionMoves ==
  ASSUME DraftInv, UNCHANGED <<v1, starts>>, NEW e \in That, NEW x,
         execution[e] # None,
         execution[e] \in Drafts!ExecutionRecords => x \in Drafts!ExecutionRecords,
         execution' = [execution EXCEPT ![e] = x],
         version' = version \/ \E st \in {"running", "success", "failed"} :
                                 version' = [version EXCEPT ![execution[e].of] = st]
  PROVE  DraftTypes'
  BY DEF DraftInv, DraftTypes, Drafts!ExecutionRecords

LEMMA PcChanges ==
  ASSUME NEW x \in Drafts!ExecutionRecords,
         NEW pc \in {"spawned", "row", "wave", "failed", "end", "over"}
  PROVE  [x EXCEPT !.pc = pc] \in Drafts!ExecutionRecords /\ [x EXCEPT !.pc = pc].pc = pc
  BY DEF Drafts!ExecutionRecords

LEMMA PendingChanges ==
  ASSUME NEW x \in Drafts!ExecutionRecords, NEW pending \in SUBSET Drafts!Nodes
  PROVE  /\ [x EXCEPT !.pending = pending] \in Drafts!ExecutionRecords
         /\ [x EXCEPT !.pending = pending].pc = x.pc
         /\ [x EXCEPT !.pending = pending, !.pc = "failed"] \in Drafts!ExecutionRecords
         /\ [x EXCEPT !.pending = pending, !.pc = "failed"].pc = "failed"
  BY DEF Drafts!ExecutionRecords

\* The steps before the end: whatever they write, nothing has been deleted.
LEMMA RunStep ==
  ASSUME DraftInv, NEW e \in That,
         Drafts!Begin(e) \/ Drafts!RunningRow(e) \/ \E n \in Drafts!Nodes : Drafts!RunNode(e, n)
  PROVE  DraftInv'
  <1>1. /\ UNCHANGED <<v1, starts, deleting, gone>> /\ execution[e] # None
        /\ execution[e].pc \in {"spawned", "row", "wave"}
    BY DEF Drafts!Begin, Drafts!RunningRow, Drafts!RunNode, Drafts!At
  <1>2. execution[e] \in Drafts!ExecutionRecords
    BY <1>1 DEF DraftInv, DraftTypes
  <1>3. PICK x \in Drafts!ExecutionRecords :
          /\ execution' = [execution EXCEPT ![e] = x]
          /\ x.pc \in {"row", "wave", "failed"}
    <2>1. CASE Drafts!Begin(e)
      <3>1. execution' = [execution EXCEPT ![e] = [execution[e] EXCEPT !.pc = "row"]]
        BY <2>1 DEF Drafts!Begin, Drafts!Go
      <3> QED
        BY <1>2, <3>1, PcChanges
    <2>2. CASE Drafts!RunningRow(e)
      <3>1. execution' = [execution EXCEPT ![e] = [execution[e] EXCEPT !.pc = "wave"]]
        BY <2>2 DEF Drafts!RunningRow, Drafts!Go
      <3> QED
        BY <1>2, <3>1, PcChanges
    <2>3. ASSUME NEW n \in Drafts!Nodes, Drafts!RunNode(e, n)
          PROVE  \E x \in Drafts!ExecutionRecords :
                   /\ execution' = [execution EXCEPT ![e] = x]
                   /\ x.pc \in {"row", "wave", "failed"}
      <3>1. \/ execution' = [execution EXCEPT ![e] =
                  [execution[e] EXCEPT !.pending = execution[e].pending \ {n}]]
            \/ execution' = [execution EXCEPT ![e] =
                  [execution[e] EXCEPT !.pending = {}, !.pc = "failed"]]
        BY <2>3 DEF Drafts!RunNode
      <3>2. execution[e].pending \ {n} \in SUBSET Drafts!Nodes /\ {} \in SUBSET Drafts!Nodes
        BY <1>2 DEF Drafts!ExecutionRecords
      <3>3. execution[e].pc = "wave"
        BY <2>3 DEF Drafts!RunNode, Drafts!At
      <3> DEFINE less == [execution[e] EXCEPT !.pending = execution[e].pending \ {n}]
                 none == [execution[e] EXCEPT !.pending = {}, !.pc = "failed"]
      <3>4. less \in Drafts!ExecutionRecords /\ less.pc = "wave"
        BY <1>2, <3>2, <3>3, PendingChanges
      <3>5. none \in Drafts!ExecutionRecords /\ none.pc = "failed"
        BY <1>2, <3>2, PendingChanges
      <3>6. execution' = [execution EXCEPT ![e] = less] \/ execution' = [execution EXCEPT ![e] = none]
        BY <3>1
      <3> HIDE DEF less, none
      <3> QED
        BY <3>4, <3>5, <3>6
    <2> QED
      BY <2>1, <2>2, <2>3
  <1>4. version' = version \/ version' = [version EXCEPT ![execution[e].of] = "running"]
    BY DEF Drafts!Begin, Drafts!RunningRow, Drafts!RunNode
  <1>5. taskRow' \in {taskRow, "running"}
    BY DEF Drafts!Begin, Drafts!RunningRow, Drafts!RunNode
  <1>6. DraftTypes'
    BY <1>1, <1>2, <1>3, <1>4, ExecutionMoves
  <1>7. ~Quiet(e)
    BY <1>1 DEF Quiet
  <1>8. ASSUME starts <= 1 PROVE NoneStarted' /\ EndsAreShownLate'
    <2>1. /\ starts = 1 /\ ~deleting /\ ~gone /\ taskRow \notin Drafts!Ended
          /\ \A v \in This : version[v] \notin Drafts!Ended
      BY <1>1, <1>7, <1>8, NotQuiet
    <2>2. \A v \in This : version'[v] \notin Drafts!Ended
      BY <1>4, <2>1 DEF DraftInv, DraftTypes, Drafts!Ended
    <2>3. taskRow' \notin Drafts!Ended
      BY <1>5, <2>1 DEF Drafts!Ended
    <2>4. \A f, g \in That : execution'[f] # None /\ execution'[g] # None => f = g
      BY <1>1, <1>3, <2>1 DEF DraftInv, DraftTypes, EndsAreShownLate
    <2> QED
      BY <1>1, <2>1, <2>2, <2>3, <2>4 DEF NoneStarted, EndsAreShownLate
  <1>9. ~(starts <= 1) => NoneStarted' /\ EndsAreShownLate'
    BY <1>1 DEF NoneStarted, EndsAreShownLate
  <1> QED
    BY <1>6, <1>8, <1>9 DEF DraftInv

\* finish_task: memory first, then the row.
LEMMA FinishStep ==
  ASSUME DraftInv, NEW e \in That, Drafts!Finish(e) \/ Drafts!FinishRow(e)
  PROVE  DraftInv'
  <1>1. /\ UNCHANGED <<v1, starts, deleting, gone, nodeRows>> /\ execution[e] # None
        /\ execution[e].pc \in {"wave", "failed", "end"}
    BY DEF Drafts!Finish, Drafts!FinishRow, Drafts!At
  <1>2. execution[e] \in Drafts!ExecutionRecords
    BY <1>1 DEF DraftInv, DraftTypes
  <1>3. PICK pc \in {"end", "over"} :
          execution' = [execution EXCEPT ![e] = [execution[e] EXCEPT !.pc = pc]]
    <2>1. CASE Drafts!Finish(e)
      BY <2>1 DEF Drafts!Finish, Drafts!Go
    <2>2. CASE Drafts!FinishRow(e)
      BY <2>2 DEF Drafts!FinishRow, Drafts!Go
    <2> QED
      BY <2>1, <2>2
  <1> DEFINE x == [execution[e] EXCEPT !.pc = pc]
  <1>4. x \in Drafts!ExecutionRecords /\ x.pc = pc
    <2>1. pc \in {"spawned", "row", "wave", "failed", "end", "over"}
      OBVIOUS
    <2> QED
      BY <1>2, <2>1 DEF Drafts!ExecutionRecords
  <1>5. version' = version \/ \E st \in {"running", "success", "failed"} :
                               version' = [version EXCEPT ![execution[e].of] = st]
    BY DEF Drafts!Finish, Drafts!FinishRow
  <1>6. execution' = [execution EXCEPT ![e] = x]
    BY <1>3
  <1> HIDE DEF x
  <1>7. DraftTypes'
    BY <1>1, <1>4, <1>5, <1>6, ExecutionMoves
  <1>8. starts = 1 => SomeQuiet'
    <2>1. ASSUME starts = 1 PROVE execution'[e] # None
      BY <1>6, <1>4, PartsAssumption DEF DraftInv, DraftTypes, Drafts!NoneAssumption
    <2>2. execution'[e].pc = pc
      BY <1>4, <1>6 DEF DraftInv, DraftTypes
    <2> QED
      BY <2>1, <2>2 DEF SomeQuiet, Quiet
  <1>9. gone => taskRow' = taskRow \/ taskRow # None
    BY DEF Drafts!Finish, Drafts!FinishRow
  <1>10. starts = 1 => \A f, g \in That : execution'[f] # None /\ execution'[g] # None => f = g
    BY <1>1, <1>6 DEF DraftInv, DraftTypes, EndsAreShownLate
  <1>11. NoneStarted'
    BY <1>1 DEF DraftInv, NoneStarted
  <1>12. EndsAreShownLate'
    BY <1>1, <1>8, <1>9, <1>10 DEF DraftInv, EndsAreShownLate
  <1> QED
    BY <1>7, <1>11, <1>12 DEF DraftInv

\* A restart ends every execution.
LEMMA DraftRestartStep ==
  ASSUME DraftInv, Drafts!Restart
  PROVE  DraftInv'
  <1>1. /\ UNCHANGED <<version, taskRow, nodeRows, gone, starts>> /\ v1' = None /\ ~deleting'
        /\ DOMAIN execution' = That
        /\ \A e \in That : execution[e] = None => execution'[e] = None
        /\ \A e \in That : execution[e] # None =>
             execution'[e] = [execution[e] EXCEPT !.pc = "over"]
    BY DEF Drafts!Restart
  <1>2. \A e \in That : execution[e] # None =>
          execution'[e] \in Drafts!ExecutionRecords /\ execution'[e].pc = "over"
    <2> SUFFICES ASSUME NEW e \in That, execution[e] # None
                 PROVE  execution'[e] \in Drafts!ExecutionRecords /\ execution'[e].pc = "over"
      OBVIOUS
    <2>1. execution[e] \in Drafts!ExecutionRecords
      BY DEF DraftInv, DraftTypes
    <2> DEFINE x == [execution[e] EXCEPT !.pc = "over"]
    <2>2. x \in Drafts!ExecutionRecords /\ x.pc = "over"
      BY <2>1, PcChanges
    <2>3. execution'[e] = x
      BY <1>1
    <2> HIDE DEF x
    <2> QED
      BY <2>2, <2>3
  <1>3. DraftTypes'
    BY <1>1, <1>2 DEF DraftInv, DraftTypes
  <1>4. NoneStarted'
    BY <1>1 DEF DraftInv, NoneStarted
  <1>5. EndsAreShownLate'
    BY <1>1, <1>2, PartsAssumption DEF Drafts!NoneAssumption, DraftInv, EndsAreShownLate, SomeQuiet, Quiet
  <1> QED
    BY <1>3, <1>4, <1>5 DEF DraftInv

LEMMA DraftKept ==
  ASSUME DraftInv, [Drafts!Next]_(Drafts!vars)
  PROVE  DraftInv'
  <1>1. CASE UNCHANGED Drafts!vars
    <2>1. UNCHANGED <<v1, version, execution, taskRow, nodeRows, deleting, gone, starts>>
      BY <1>1 DEF Drafts!vars
    <2>2. DraftTypes'
      BY <2>1 DEF DraftInv, DraftTypes
    <2> QED
      BY <2>1, <2>2, NothingShown
  <1> QED
    BY <1>1, StartDraftStep, EditStep, DeleteTaskStep, DeleteRowStep, RunStep, FinishStep,
       DraftRestartStep DEF Drafts!Next, Drafts!Execute

\* A task that was started once and deleted has no rows again, however often it was edited
\* and whenever the process stops: who deletes it has seen its end in memory or in its row,
\* and after that its execution updates a row only where there is one (delete_task,
\* finish_task).
THEOREM DeletedTasksStayGone == Spec => []GoneStaysGone
  <1> DEFINE Inv == part = "drafts" => DraftInv
  <1>1. Init => Inv
    BY DraftInit
  <1>2. Inv /\ [Next]_vars => Inv'
    BY DraftKept, PartStep
  <1>3. Inv => GoneStaysGone
    <2>1. ASSUME DraftInv, gone, starts <= 1 PROVE taskRow = None /\ nodeRows = {}
      BY <2>1 DEF DraftInv, DraftTypes, NoneStarted, EndsAreShownLate
    <2> QED
      BY <2>1 DEF GoneStaysGone, Drafts!GoneStaysGone
  <1> QED
    BY <1>1, <1>2, <1>3, PTL DEF Spec

-----------------------------------------------------------------------------
(* QueryConsole: who is alone with the accounts finds them as it left them.  *)

account == v3
job == v4
denied == v6
met == v7

USE DEF account, job, denied, met

Has(s) == job[s] # None
Prepared == {"rw", "grant rw", "permit", "run", "browse"}

\* What a statement has prepared so far, if no other prepared the accounts since.
Kept(s) ==
  LET ro == account["ro"]
      rw == account["rw"]
      pc == job[s].pc
      pass == job[s].pass IN
  /\ pc = "grant ro" => ro.pass = pass
  /\ pc \in Prepared => ro.pass = pass /\ "SELECT" \in ro.grants
  /\ pc = "grant rw" => rw.pass = pass
  /\ pc \in {"permit", "run", "browse"} =>
       /\ rw.pass = pass
       /\ job[s].kind = "write" => "DML" \in rw.grants

JobFields == {"pc", "at", "kind", "pass"}

QueryInv ==
  /\ DOMAIN job = That
  /\ DOMAIN account = Query!Accounts
  /\ \A a \in Query!Accounts : DOMAIN account[a] = {"pass", "grants"}
  /\ \A s \in That : Has(s) => DOMAIN job[s] = JobFields /\ (s \notin met => Kept(s))
  /\ denied \subseteq met

LEMMA QueryInit == part = "query" /\ Init => QueryInv
  <1> SUFFICES ASSUME Query!Init PROVE QueryInv
    BY DEF Init
  <1> QED
    BY DEF Query!Init, QueryInv, Query!Accounts, Has

\* A statement whose accounts are as it left them is admitted.
LEMMA KeptIsAdmitted ==
  ASSUME NEW s \in That, Has(s), Kept(s), job[s].pc \in {"run", "browse"}
  PROVE  Query!Admitted(s)
  BY DEF Kept, Query!Admitted, Prepared

\* One statement moves while the accounts stay.
LEMMA JobMoves ==
  ASSUME QueryInv, UNCHANGED <<account, met>>, denied' \subseteq met,
         NEW s \in That, NEW x, job' = [job EXCEPT ![s] = x],
         x # None => DOMAIN x = JobFields /\ (s \notin met => Kept(s)')
  PROVE  QueryInv'
  <1>1. \A t \in That : t # s => job'[t] = job[t]
    BY DEF QueryInv
  <1>2. \A t \in That : t # s /\ Kept(t) => Kept(t)'
    BY <1>1 DEF Kept
  <1> QED
    BY <1>1, <1>2 DEF QueryInv, Has

LEMMA SubmitStep ==
  ASSUME QueryInv, NEW s \in That, NEW p \in This,
         \/ \E kind \in Query!Kinds, running, mayWrite \in BOOLEAN :
              Query!Submit(s, p, kind, running, mayWrite)
         \/ \E running \in BOOLEAN : Query!SubmitBrowse(s, p, running)
  PROVE  QueryInv'
  <1>1. UNCHANGED <<account, met, denied>>
    BY DEF Query!Submit, Query!SubmitBrowse
  <1>2. \/ UNCHANGED job
        \/ \E kind : job' = [job EXCEPT ![s] =
             [pc |-> "secret", at |-> p, kind |-> kind, pass |-> None]]
    BY DEF Query!Submit, Query!SubmitBrowse
  <1>3. CASE UNCHANGED job
    BY <1>1, <1>3 DEF QueryInv, Has, Kept
  <1>4. ASSUME NEW kind, job' = [job EXCEPT ![s] =
                 [pc |-> "secret", at |-> p, kind |-> kind, pass |-> None]]
        PROVE  QueryInv'
    <2> DEFINE x == [pc |-> "secret", at |-> p, kind |-> kind, pass |-> None]
    <2>1. job'[s] = x
      BY <1>4 DEF QueryInv
    <2>2. DOMAIN x = JobFields /\ Kept(s)'
      BY <2>1 DEF JobFields, Kept, Prepared
    <2>3. job' = [job EXCEPT ![s] = x] /\ denied' \subseteq met
      BY <1>1, <1>4 DEF QueryInv
    <2> HIDE DEF x
    <2> QED
      BY <1>1, <2>2, <2>3, JobMoves
  <1> QED
    BY <1>2, <1>3, <1>4

LEMMA AtIs ==
  ASSUME QueryInv, NEW s \in That, NEW pc, Query!At(s, pc)
  PROVE  Has(s) /\ job[s].pc = pc /\ DOMAIN job[s] = JobFields /\ (s \notin met => Kept(s))
  BY DEF Query!At, QueryInv, Has

\* What Go leaves of a statement.
LEMMA GoIs ==
  ASSUME QueryInv, NEW s \in That, Has(s), NEW pc, Query!Go(s, pc)
  PROVE  \E x : /\ job' = [job EXCEPT ![s] = x] /\ job'[s] = x /\ DOMAIN x = JobFields
                /\ x.pc = pc /\ x.pass = job[s].pass /\ x.kind = job[s].kind
  <1> DEFINE x == [job[s] EXCEPT !.pc = pc]
  <1>1. /\ DOMAIN x = JobFields /\ x.pc = pc /\ x.pass = job[s].pass /\ x.kind = job[s].kind
    BY DEF QueryInv, JobFields
  <1>2. job' = [job EXCEPT ![s] = x]
    BY DEF Query!Go
  <1> HIDE DEF x
  <1>3. job'[s] = x
    BY <1>2 DEF QueryInv
  <1> QED
    BY <1>1, <1>2, <1>3

\* The secret, before an account is touched.
LEMMA SecretStep ==
  ASSUME QueryInv, NEW s \in That, Query!LookUpSecret(s) \/ Query!KeepSecret(s)
  PROVE  QueryInv'
  <1>1. UNCHANGED <<account, met, denied>> /\ Has(s)
    BY DEF Query!LookUpSecret, Query!KeepSecret, Query!At, Has
  <1>2. PICK x : /\ job' = [job EXCEPT ![s] = x] /\ job'[s] = x /\ DOMAIN x = JobFields
                 /\ x.pc \in {"generate", "ro"}
    <2>1. CASE Query!LookUpSecret(s)
      <3> DEFINE known == v1[job[s].at]
                 pc == IF known = None THEN "generate" ELSE "ro"
                 pass == IF known = None THEN s ELSE known
                 x == [job[s] EXCEPT !.pc = pc, !.pass = pass]
      <3>1. job' = [job EXCEPT ![s] = x]
        BY <2>1 DEF Query!LookUpSecret
      <3>2. pc \in {"generate", "ro"}
        OBVIOUS
      <3> HIDE DEF known, pc, pass
      <3>3. DOMAIN x = JobFields /\ x.pc = pc
        BY <1>1 DEF QueryInv, JobFields
      <3> HIDE DEF x
      <3> QED
        BY <3>1, <3>2, <3>3 DEF QueryInv
    <2>2. CASE Query!KeepSecret(s)
      BY <1>1, <2>2, GoIs DEF Query!KeepSecret
    <2> QED
      BY <2>1, <2>2
  <1>5. Kept(s)'
    BY <1>2 DEF Kept, Prepared
  <1>6. denied' \subseteq met
    BY <1>1 DEF QueryInv
  <1> QED
    BY <1>1, <1>2, <1>5, <1>6, JobMoves

\* Preparing an account makes all who are under way meet, and leaves what a statement
\* alone has prepared before.
LEMMA ProvisionStep ==
  ASSUME QueryInv, NEW s \in That, NEW a \in Query!Accounts, Query!Provision(s, a)
  PROVE  QueryInv'
  <1> DEFINE grant == IF a = "ro" THEN "grant ro" ELSE "grant rw"
             next == CASE a = "ro" -> "rw"
                       [] a = "rw" /\ job[s].kind = "browse" -> "browse"
                       [] OTHER -> "permit"
  <1>1. /\ UNCHANGED denied /\ Has(s) /\ a \in {"ro", "rw"}
        /\ met' = met \cup (Query!UnderWay \ {s})
                  \cup (IF Query!UnderWay \ {s} = {} THEN {} ELSE {s})
    BY DEF Query!Provision, Query!At, Has, Query!Accounts
  <1>2. \/ /\ Query!At(s, a) /\ Query!Go(s, grant)
           /\ account' = [account EXCEPT ![a] = [pass |-> job[s].pass, grants |-> {}]]
        \/ /\ Query!At(s, grant) /\ Query!Go(s, next)
           /\ account' = [account EXCEPT ![a].grants = Query!Grants(s, a)]
    BY DEF Query!Provision, Query!GrantOf
  <1>3. PICK x : /\ job' = [job EXCEPT ![s] = x] /\ job'[s] = x /\ DOMAIN x = JobFields
                 /\ x.pc \in {grant, next} /\ x.pass = job[s].pass /\ x.kind = job[s].kind
                 /\ Query!At(s, a) => x.pc = grant
                 /\ Query!At(s, grant) => x.pc = next
    <2>1. ~(Query!At(s, a) /\ Query!At(s, grant))
      BY <1>1 DEF Query!At
    <2> HIDE DEF grant, next
    <2> QED
      BY <1>1, <1>2, <2>1, GoIs
  <1>4. /\ DOMAIN account' = Query!Accounts
        /\ \A b \in Query!Accounts : DOMAIN account'[b] = {"pass", "grants"}
    BY <1>2 DEF QueryInv
  <1>5. \A t \in That : t # s => job'[t] = job[t]
    BY <1>3 DEF QueryInv
  <1>6. ASSUME NEW t \in That, t # s, Has(t), t \notin met' PROVE Kept(t)'
    <2>1. job[t].pc \in {"secret", "generate"}
      BY <1>1, <1>6 DEF Query!UnderWay, Has
    <2> QED
      BY <1>5, <1>6, <2>1 DEF Kept, Prepared
  <1>7. ASSUME s \notin met' PROVE Kept(s)'
    <2>1. Kept(s)
      BY <1>1, <1>7 DEF QueryInv
    <2>2. CASE Query!At(s, a)
      <3>1. /\ account' = [account EXCEPT ![a] = [pass |-> job[s].pass, grants |-> {}]]
            /\ job'[s].pc = grant /\ job[s].pc = a
        BY <1>1, <1>2, <1>3, <2>2 DEF Query!At
      <3>2. CASE a = "ro"
        <4>1. account'["ro"].pass = job'[s].pass /\ job'[s].pc = "grant ro"
          BY <1>3, <3>1, <3>2 DEF QueryInv, Query!Accounts
        <4> QED
          BY <4>1 DEF Kept, Prepared
      <3>3. CASE a = "rw"
        <4>1. /\ account'["rw"].pass = job'[s].pass /\ job'[s].pc = "grant rw"
              /\ account'["ro"] = account["ro"]
          BY <1>3, <3>1, <3>3 DEF QueryInv, Query!Accounts
        <4>2. account["ro"].pass = job[s].pass /\ "SELECT" \in account["ro"].grants
          BY <2>1, <3>1, <3>3 DEF Kept, Prepared
        <4> QED
          BY <1>3, <4>1, <4>2 DEF Kept, Prepared
      <3> QED
        BY <1>1, <3>2, <3>3
    <2>3. CASE Query!At(s, grant)
      <3>1. /\ account' = [account EXCEPT ![a].grants = Query!Grants(s, a)]
            /\ job'[s].pc = next /\ job[s].pc = grant
        BY <1>1, <1>2, <1>3, <2>3 DEF Query!At
      <3>2. /\ account'[a].pass = account[a].pass /\ account'[a].grants = Query!Grants(s, a)
            /\ \A b \in Query!Accounts : b # a => account'[b] = account[b]
        BY <3>1 DEF QueryInv
      <3>3. /\ "SELECT" \in Query!Grants(s, a)
            /\ a = "rw" /\ job[s].kind = "write" => "DML" \in Query!Grants(s, a)
        BY DEF Query!Grants
      <3>4. CASE a = "ro"
        <4>0. job'[s].pc = next
          BY <3>1
        <4>1. job'[s].pc = "rw"
          <5>1. next = "rw"
            BY <3>4
          <5> HIDE DEF next
          <5> QED
            BY <4>0, <5>1
        <4>2. account[a].pass = job[s].pass
          BY <2>1, <3>1, <3>4 DEF Kept
        <4> QED
          BY <1>3, <3>2, <3>3, <3>4, <4>1, <4>2 DEF Kept, Prepared
      <3>5. CASE a = "rw"
        <4>1. /\ job'[s].pc \in {"browse", "permit"} /\ account[a].pass = job[s].pass
              /\ account["ro"].pass = job[s].pass /\ "SELECT" \in account["ro"].grants
          BY <2>1, <3>1, <3>5 DEF Kept, Prepared
        <4>2. account'["ro"] = account["ro"]
          BY <3>2, <3>5 DEF Query!Accounts
        <4> QED
          BY <1>3, <3>2, <3>3, <3>5, <4>1, <4>2 DEF Kept, Prepared
      <3> QED
        BY <1>1, <3>4, <3>5
    <2> QED
      BY <1>2, <2>2, <2>3
  <1>8. DOMAIN job' = That
    BY <1>3 DEF QueryInv
  <1>9. denied' \subseteq met'
    BY <1>1 DEF QueryInv
  <1>10. \A t \in That : Has(t)' => DOMAIN job'[t] = JobFields /\ (t \notin met' => Kept(t)')
    BY <1>3, <1>5, <1>6, <1>7 DEF QueryInv, Has
  <1> QED
    BY <1>4, <1>8, <1>9, <1>10 DEF QueryInv

LEMMA AcquireStep ==
  ASSUME QueryInv, NEW s \in That, Query!Acquire(s)
  PROVE  QueryInv'
  <1>1. UNCHANGED <<account, met, denied>> /\ Query!At(s, "permit")
    BY DEF Query!Acquire
  <1>2. CASE Query!Go(s, "run")
    <2>1. PICK x : /\ job' = [job EXCEPT ![s] = x] /\ job'[s] = x /\ DOMAIN x = JobFields
                   /\ x.pc = "run" /\ x.pass = job[s].pass /\ x.kind = job[s].kind
      BY <1>1, <1>2, AtIs, GoIs
    <2>2. s \notin met => Kept(s)'
      BY <1>1, <2>1, AtIs DEF Kept, Prepared
    <2> QED
      BY <1>1, <2>1, <2>2, JobMoves DEF QueryInv
  <1>3. CASE job' = [job EXCEPT ![s] = None]
    BY <1>1, <1>3, JobMoves DEF QueryInv
  <1> QED
    BY <1>2, <1>3 DEF Query!Acquire, Query!Answer

\* Whoever is not admitted has met another.
LEMMA RunsStep ==
  ASSUME QueryInv, NEW s \in That, Query!Run(s) \/ Query!Browse(s)
  PROVE  QueryInv'
  <1>1. PICK pc \in {"run", "browse"} : Query!At(s, pc)
    BY DEF Query!Run, Query!Browse
  <1>2. Has(s) /\ job[s].pc = pc /\ (s \notin met => Kept(s))
    BY <1>1, AtIs
  <1>3. UNCHANGED <<account, met>>
        /\ denied' = IF Query!Admitted(s) THEN denied ELSE denied \cup {s}
    BY DEF Query!Run, Query!Browse
  <1>4. denied' \subseteq met
    BY <1>2, <1>3, KeptIsAdmitted DEF QueryInv
  <1>5. CASE Query!Go(s, "audit")
    <2>1. PICK x : /\ job' = [job EXCEPT ![s] = x] /\ job'[s] = x /\ DOMAIN x = JobFields
                   /\ x.pc = "audit"
      BY <1>2, <1>5, GoIs
    <2>2. Kept(s)'
      BY <2>1 DEF Kept, Prepared
    <2> QED
      BY <1>3, <1>4, <2>1, <2>2, JobMoves
  <1>6. CASE job' = [job EXCEPT ![s] = None]
    BY <1>3, <1>4, <1>6, JobMoves
  <1> QED
    BY <1>5, <1>6 DEF Query!Run, Query!Browse, Query!Answer

LEMMA AuditStep ==
  ASSUME QueryInv, NEW s \in That, Query!Audit(s) \/ Query!AuditBrowse(s)
  PROVE  QueryInv'
  <1>1. UNCHANGED <<account, met, denied>> /\ job' = [job EXCEPT ![s] = None]
    BY DEF Query!Audit, Query!AuditBrowse
  <1> QED
    BY <1>1, JobMoves DEF QueryInv

LEMMA QueryCrashStep ==
  ASSUME QueryInv, NEW p \in This, Query!Crash(p)
  PROVE  QueryInv'
  <1>1. /\ UNCHANGED <<account, met, denied>> /\ DOMAIN job' = That
        /\ \A s \in That : job'[s] \in {None, job[s]}
    BY DEF Query!Crash
  <1>2. \A s \in That : job'[s] = job[s] /\ Kept(s) => Kept(s)'
    BY <1>1 DEF Kept
  <1> QED
    BY <1>1, <1>2 DEF QueryInv, Has

LEMMA QueryKept ==
  ASSUME QueryInv, [Query!Next]_(Query!vars)
  PROVE  QueryInv'
  <1>1. CASE UNCHANGED Query!vars
    BY <1>1 DEF Query!vars, QueryInv, Has, Kept
  <1> QED
    BY <1>1, SubmitStep, SecretStep, ProvisionStep, AcquireStep, RunsStep, AuditStep,
       QueryCrashStep DEF Query!Next, Query!Proceed

\* A node refuses a statement's account only when another statement prepared the same
\* accounts meanwhile, for any number of processes, statements and crashes: what one has
\* prepared stays as it is until another touches it (provision, run_query).
THEOREM OnlyMeetingsDeny == Spec => []AloneIsAdmitted
  <1> DEFINE Inv == part = "query" => QueryInv
  <1>1. Init => Inv
    BY QueryInit
  <1>2. Inv /\ [Next]_vars => Inv'
    BY QueryKept, PartStep
  <1>3. Inv => AloneIsAdmitted
    BY DEF QueryInv, AloneIsAdmitted, Query!AloneIsAdmitted
  <1> QED
    BY <1>1, <1>2, <1>3, PTL DEF Spec
-----------------------------------------------------------------------------
(* HostPool: a request that no other has overtaken writes on what it tested.  *)

hosts == v1
bound == v2
asks == v4
overlapped == v5

USE DEF hosts, bound, asks, overlapped

NodesOn(h) == {n \in Pool!Nodes : bound[n] = h}
Count(h) == Cardinality(NodesOn(h))

PoolTypes ==
  /\ hosts \in [Machines -> {None} \cup Pool!HostRows]
  /\ DOMAIN bound = Pool!Nodes
  /\ DOMAIN asks = That
  /\ \A q \in That : asks[q] # None =>
       /\ DOMAIN asks[q] = {"op", "node", "host", "row", "fresh"}
       /\ asks[q].host \in Machines /\ asks[q].fresh \in BOOLEAN
       /\ asks[q].op \in {"assign", "replace"} => asks[q].node \in Pool!Nodes
       /\ asks[q].op = "status" => asks[q].row \in Pool!HostRows

\* A host carries what it has slots for.
Sound(h) == h \notin overlapped /\ Count(h) > 0 => hosts[h] # None /\ Count(h) <= hosts[h].slots

\* A test that nobody has overtaken still holds.
TestHolds(q) ==
  LET h == asks[q].host
      n == asks[q].node
  IN asks[q] # None /\ asks[q].fresh /\ h \notin overlapped =>
       /\ asks[q].op \in {"assign", "replace"} =>
            hosts[h] # None /\ (bound[n] # h => Count(h) + 1 <= hosts[h].slots)
       /\ asks[q].op = "delete" => Count(h) = 0
       /\ asks[q].op = "status" => hosts[h] # None /\ asks[q].row.slots = hosts[h].slots

PoolInv ==
  /\ PoolTypes
  /\ \A h \in Machines : Sound(h)
  /\ \A q \in That : TestHolds(q)

LEMMA NodesAreFinite == IsFiniteSet(Pool!Nodes)
  <1>1. IsFiniteSet(This)
    BY PartsAssumption DEF Pool!RegistryAssumption, Pool!IsFiniteSet, IsFiniteSet
  <1> DEFINE S == 1..2
  <1>2. IsFiniteSet(S)
    <2>1. 1 \in Int /\ 2 \in Int
      OBVIOUS
    <2> QED
      BY <2>1, FS_Interval, Zenon
  <1>3. Pool!Nodes = This \X S
    BY DEF Pool!Nodes
  <1> HIDE DEF S
  <1>4. IsFiniteSet(This \X S)
    BY <1>1, <1>2, FS_Product
  <1> QED
    BY <1>3, <1>4

LEMMA SameCardinality == \A S : Pool!Cardinality(S) = Cardinality(S)
  BY DEF Pool!Cardinality, Cardinality

LEMMA CountIs == \A h : Pool!BindingCount(h) = Count(h)
  <1> SUFFICES ASSUME NEW h PROVE Pool!BindingCount(h) = Count(h)
    OBVIOUS
  <1>1. Pool!BindingCount(h) = Pool!Cardinality(NodesOn(h))
    BY DEF Pool!BindingCount, NodesOn
  <1> QED
    BY <1>1, SameCardinality DEF Count

LEMMA CountIsNat ==
  ASSUME NEW h
  PROVE  IsFiniteSet(NodesOn(h)) /\ Count(h) \in Nat
  <1>1. NodesOn(h) \subseteq Pool!Nodes
    BY DEF NodesOn
  <1> QED
    BY <1>1, NodesAreFinite, FS_Subset, FS_CardinalityType DEF Count

\* A part of a finite set is no larger, and smaller by one at least where an element is missing.
LEMMA PartIsSmaller ==
  ASSUME NEW T, IsFiniteSet(T), NEW S \in SUBSET T
  PROVE  /\ Cardinality(S) <= Cardinality(T)
         /\ \A x \in T \ S : Cardinality(S) + 1 <= Cardinality(T)
  <1>1. IsFiniteSet(S) /\ Cardinality(S) <= Cardinality(T)
    BY FS_Subset
  <1>2. ASSUME NEW x \in T \ S PROVE Cardinality(S) + 1 <= Cardinality(T)
    <2>1. Cardinality(S \cup {x}) = Cardinality(S) + 1
      BY <1>1, FS_AddElement
    <2>2. S \cup {x} \subseteq T
      OBVIOUS
    <2>3. Cardinality(S \cup {x}) <= Cardinality(T)
      BY <2>2, FS_Subset
    <2> QED
      BY <2>1, <2>3
  <1> QED
    BY <1>1, <1>2

\* Where nodes only leave, a host stays sound and a test of it holds.
LEMMA LeavingKeeps ==
  ASSUME PoolInv, NEW h \in Machines, DOMAIN bound' = Pool!Nodes, NodesOn(h)' \subseteq NodesOn(h),
         hosts'[h] = hosts[h], h \notin overlapped' => h \notin overlapped
  PROVE  /\ Sound(h)'
         /\ \A q \in That : asks'[q] = asks[q] /\ asks[q].host = h => TestHolds(q)'
  <1>1. Count(h) \in Nat /\ Count(h)' \in Nat /\ Count(h)' <= Count(h)
    <2>1. NodesOn(h)' \in SUBSET NodesOn(h) /\ IsFiniteSet(NodesOn(h))
      BY CountIsNat
    <2>2. IsFiniteSet(NodesOn(h)') /\ Cardinality(NodesOn(h)') <= Cardinality(NodesOn(h))
      BY <2>1, FS_Subset
    <2> QED
      BY <2>1, <2>2, FS_CardinalityType DEF Count
  <1>2. \A n \in Pool!Nodes : bound[n] = h /\ bound'[n] # h => Count(h)' + 1 <= Count(h)
    <2>1. NodesOn(h)' \in SUBSET NodesOn(h) /\ IsFiniteSet(NodesOn(h))
      BY CountIsNat
    <2>2. ASSUME NEW n \in Pool!Nodes, bound[n] = h, bound'[n] # h
          PROVE  n \in NodesOn(h) \ NodesOn(h)'
      BY <2>2 DEF NodesOn
    <2> QED
      BY <2>1, <2>2, PartIsSmaller DEF Count
  <1>3. hosts[h] # None => hosts[h].slots \in Nat
    BY PartsAssumption DEF PoolInv, PoolTypes, Pool!HostRows, Pool!RegistryAssumption
  <1>4. Sound(h)'
    BY <1>1, <1>3 DEF PoolInv, Sound
  <1>5. ASSUME NEW q \in That, asks'[q] = asks[q], asks[q].host = h PROVE TestHolds(q)'
    <2> SUFFICES ASSUME asks[q] # None, asks[q].fresh, h \notin overlapped'
                 PROVE  TestHolds(q)'
      BY <1>5 DEF TestHolds
    <2>1. TestHolds(q) /\ Sound(h) /\ h \notin overlapped
      BY DEF PoolInv
    <2>2. CASE asks[q].op \in {"assign", "replace"}
      <3> DEFINE n == asks[q].node
      <3>1. n \in Pool!Nodes
        BY <2>2 DEF PoolInv, PoolTypes
      <3>2. hosts[h] # None /\ (bound[n] # h => Count(h) + 1 <= hosts[h].slots)
        BY <1>5, <2>1, <2>2 DEF TestHolds
      <3>3. ASSUME bound'[n] # h PROVE Count(h)' + 1 <= hosts[h].slots
        <4>1. CASE bound[n] # h
          BY <1>1, <1>3, <3>2, <4>1
        <4>2. CASE bound[n] = h
          <5>1. Count(h)' + 1 <= Count(h)
            BY <1>2, <3>1, <3>3, <4>2
          <5>2. Count(h) <= hosts[h].slots
            BY <1>1, <2>1, <5>1 DEF Sound
          <5> QED
            BY <1>1, <1>3, <3>2, <5>1, <5>2
        <4> QED
          BY <4>1, <4>2
      <3> QED
        BY <1>5, <2>2, <3>2, <3>3 DEF TestHolds
    <2>3. CASE asks[q].op = "delete"
      BY <1>1, <1>5, <2>1, <2>3 DEF TestHolds
    <2>4. CASE asks[q].op \notin {"assign", "replace", "delete"}
      BY <1>5, <2>1, <2>4 DEF TestHolds
    <2> QED
      BY <2>2, <2>3, <2>4
  <1> QED
    BY <1>4, <1>5

\* One request is put or withdrawn.
LEMMA AskKeeps ==
  ASSUME PoolInv, UNCHANGED <<hosts, bound, overlapped>>,
         NEW q \in That, NEW r, asks' = [asks EXCEPT ![q] = r],
         r # None =>
           /\ DOMAIN r = {"op", "node", "host", "row", "fresh"}
           /\ r.host \in Machines /\ r.fresh \in BOOLEAN
           /\ r.op \in {"assign", "replace"} => r.node \in Pool!Nodes
           /\ r.op = "status" => r.row \in Pool!HostRows
           /\ TestHolds(q)'
  PROVE  PoolInv'
  <1>1. DOMAIN asks' = That /\ asks'[q] = r /\ \A p \in That : p # q => asks'[p] = asks[p]
    BY DEF PoolInv, PoolTypes
  <1>2. PoolTypes'
    BY <1>1 DEF PoolInv, PoolTypes
  <1>3. \A h \in Machines : Sound(h)'
    BY DEF PoolInv, Sound, Count, NodesOn
  <1>4. ASSUME NEW p \in That PROVE TestHolds(p)'
    <2>1. CASE p = q
      BY <1>1, <2>1 DEF TestHolds
    <2>2. CASE p # q
      <3>1. TestHolds(p) /\ asks'[p] = asks[p]
        BY <1>1, <2>2 DEF PoolInv
      <3>2. \A h : Count(h)' = Count(h)
        BY DEF Count, NodesOn
      <3> QED
        BY <3>1, <3>2 DEF TestHolds
    <2> QED
      BY <2>1, <2>2
  <1> QED
    BY <1>2, <1>3, <1>4 DEF PoolInv

AskFields(q, op, n, h, row) ==
  /\ asks'[q].op = op /\ asks'[q].node = n /\ asks'[q].host = h /\ asks'[q].row = row
  /\ asks'[q].fresh = TRUE /\ DOMAIN asks'[q] = {"op", "node", "host", "row", "fresh"}

LEMMA AskIs ==
  ASSUME PoolInv, NEW q \in That, NEW op, NEW n, NEW h, NEW row, Pool!Ask(q, op, n, h, row)
  PROVE  AskFields(q, op, n, h, row) /\ asks' = [asks EXCEPT ![q] = asks'[q]]
  <1> DEFINE r == [op |-> op, node |-> n, host |-> h, row |-> row, fresh |-> TRUE]
  <1>1. asks' = [asks EXCEPT ![q] = r] /\ q \in DOMAIN asks
    BY DEF Pool!Ask, PoolInv, PoolTypes
  <1>2. /\ r.op = op /\ r.node = n /\ r.host = h /\ r.row = row /\ r.fresh = TRUE
        /\ DOMAIN r = {"op", "node", "host", "row", "fresh"}
    OBVIOUS
  <1> HIDE DEF r
  <1>3. asks'[q] = r
    BY <1>1
  <1> QED
    BY <1>1, <1>2, <1>3 DEF AskFields

LEMMA TakeStep ==
  ASSUME PoolInv, NEW q \in That, NEW n \in Pool!Nodes, NEW h \in Machines,
         Pool!Assign(q, n, h) \/ Pool!Replace(q, n, h)
  PROVE  PoolInv'
  <1>1. PICK op \in {"assign", "replace"} : Pool!Ask(q, op, n, h, None)
    BY DEF Pool!Assign, Pool!Replace
  <1>2. /\ UNCHANGED <<hosts, bound, overlapped>> /\ hosts[h] # None
        /\ bound[n] # h => Pool!ScheduleCheck(h)
    BY DEF Pool!Assign, Pool!Replace
  <1>3. bound[n] # h => Count(h) + 1 <= hosts[h].slots
    BY <1>2, CountIs DEF Pool!ScheduleCheck
  <1>4. AskFields(q, op, n, h, None) /\ asks' = [asks EXCEPT ![q] = asks'[q]]
    BY <1>1, AskIs
  <1>5. Count(h)' = Count(h)
    BY <1>2 DEF Count, NodesOn
  <1>6. TestHolds(q)'
    BY <1>2, <1>3, <1>4, <1>5 DEF TestHolds, AskFields
  <1> QED
    BY <1>2, <1>4, <1>6, AskKeeps DEF AskFields

LEMMA DeleteAsked ==
  ASSUME PoolInv, NEW q \in That, NEW h \in Machines, Pool!HostDelete(q, h)
  PROVE  PoolInv'
  <1>1. /\ Pool!Ask(q, "delete", None, h, None) /\ UNCHANGED <<hosts, bound, overlapped>>
        /\ ~Pool!InUse(h)
    BY DEF Pool!HostDelete
  <1>2. AskFields(q, "delete", None, h, None) /\ asks' = [asks EXCEPT ![q] = asks'[q]]
    BY <1>1, AskIs
  <1>3. NodesOn(h)' = {}
    BY <1>1 DEF Pool!InUse, NodesOn
  <1>4. Count(h)' = 0
    BY <1>3, FS_EmptySet DEF Count
  <1>5. TestHolds(q)'
    BY <1>2, <1>4 DEF TestHolds, AskFields
  <1> QED
    BY <1>1, <1>2, <1>5, AskKeeps DEF AskFields

LEMMA StatusAsked ==
  ASSUME PoolInv, NEW q \in That, NEW h \in Machines, NEW status \in {"running", "retiring"},
         Pool!HostSetStatus(q, h, status)
  PROVE  PoolInv'
  <1> DEFINE row == [hosts[h] EXCEPT !.status = status]
  <1>1. /\ Pool!Ask(q, "status", None, h, row) /\ UNCHANGED <<hosts, bound, overlapped>>
        /\ hosts[h] # None
    BY DEF Pool!HostSetStatus
  <1>2. hosts[h] \in Pool!HostRows
    BY <1>1 DEF PoolInv, PoolTypes
  <1>3. row \in Pool!HostRows /\ row.slots = hosts[h].slots
    BY <1>2 DEF Pool!HostRows
  <1> HIDE DEF row
  <1>4. AskFields(q, "status", None, h, row) /\ asks' = [asks EXCEPT ![q] = asks'[q]]
    BY <1>1, AskIs
  <1>5. TestHolds(q)'
    BY <1>1, <1>3, <1>4 DEF TestHolds, AskFields
  <1> QED
    BY <1>1, <1>3, <1>4, <1>5, AskKeeps DEF AskFields

LEMMA ReplaceFailsStep ==
  ASSUME PoolInv, NEW q \in That, Pool!ReplaceFails(q)
  PROVE  PoolInv'
  BY AskKeeps DEF Pool!ReplaceFails

LEMMA LeaveStep ==
  ASSUME PoolInv, UNCHANGED <<hosts, asks, overlapped>>, DOMAIN bound' = Pool!Nodes,
         \A n \in Pool!Nodes : bound'[n] \in {None, bound[n]}
  PROVE  PoolInv'
  <1>1. ASSUME NEW h \in Machines PROVE NodesOn(h)' \subseteq NodesOn(h)
    BY PartsAssumption DEF NodesOn, Pool!RegistryAssumption
  <1>2. \A h \in Machines : Sound(h)' /\ \A q \in That : asks[q].host = h => TestHolds(q)'
    BY <1>1, LeavingKeeps
  <1>3. \A q \in That : TestHolds(q)'
    <2> SUFFICES ASSUME NEW q \in That, asks[q] # None PROVE TestHolds(q)'
      BY DEF TestHolds
    <2> QED
      BY <1>2 DEF PoolInv, PoolTypes
  <1> QED
    BY <1>2, <1>3 DEF PoolInv, PoolTypes

\* What a step at a host leaves of the requests.
Overtaken(h) ==
  /\ DOMAIN asks' = That
  /\ \A q \in That :
       \/ asks'[q] = None
       \/ asks'[q] = asks[q] /\ asks[q].host # h
       \/ /\ asks[q] # None /\ DOMAIN asks'[q] = DOMAIN asks[q]
          /\ asks'[q].host = asks[q].host /\ asks'[q].op = asks[q].op
          /\ asks'[q].node = asks[q].node /\ asks'[q].row = asks[q].row
          /\ asks'[q].fresh = FALSE

LEMMA StaleIs ==
  ASSUME PoolInv, NEW h,
         \/ asks' = Pool!Stale(h, None)
         \/ \E q \in That : asks' = [Pool!Stale(h, q) EXCEPT ![q] = None]
  PROVE  Overtaken(h)
  <1>1. ASSUME NEW q \in That, asks[q] # None
        PROVE  LET r == [asks[q] EXCEPT !.fresh = FALSE] IN
               /\ DOMAIN r = DOMAIN asks[q] /\ r.host = asks[q].host /\ r.op = asks[q].op
               /\ r.node = asks[q].node /\ r.row = asks[q].row /\ r.fresh = FALSE
    BY <1>1 DEF PoolInv, PoolTypes
  <1>2. DOMAIN asks' = That
    BY DEF Pool!Stale
  <1>3. \A q \in That : \/ asks'[q] = None
                        \/ asks[q] # None /\ asks'[q] = [asks[q] EXCEPT !.fresh = FALSE]
                        \/ asks[q] # None /\ asks'[q] = asks[q] /\ asks[q].host # h
    BY PartsAssumption DEF Pool!Stale, Pool!RegistryAssumption
  <1>4. ASSUME NEW q \in That, asks'[q] # None
        PROVE  \/ asks'[q] = asks[q] /\ asks[q].host # h
               \/ /\ asks[q] # None /\ DOMAIN asks'[q] = DOMAIN asks[q]
                  /\ asks'[q].host = asks[q].host /\ asks'[q].op = asks[q].op
                  /\ asks'[q].node = asks[q].node /\ asks'[q].row = asks[q].row
                  /\ asks'[q].fresh = FALSE
    <2>1. CASE asks'[q] = asks[q] /\ asks[q].host # h
      BY <2>1
    <2>2. CASE asks[q] # None /\ asks'[q] = [asks[q] EXCEPT !.fresh = FALSE]
      BY <1>1, <2>2
    <2> QED
      BY <1>3, <1>4, <2>1, <2>2
  <1> QED
    BY <1>2, <1>4 DEF Overtaken

\* A step that changes one host, keeps it sound and overtakes whoever tested it.
LEMMA ChangeKeeps ==
  ASSUME PoolInv, NEW h \in Machines, Overtaken(h),
         hosts' \in [Machines -> {None} \cup Pool!HostRows], DOMAIN bound' = Pool!Nodes,
         \A g \in Machines \ {h} : /\ NodesOn(g)' \subseteq NodesOn(g) /\ hosts'[g] = hosts[g]
                                   /\ g \notin overlapped' => g \notin overlapped,
         Sound(h)'
  PROVE  PoolInv'
  <1>1. PoolTypes'
    BY DEF PoolInv, PoolTypes, Overtaken
  <1>2. \A g \in Machines \ {h} :
          Sound(g)' /\ \A q \in That : asks'[q] = asks[q] /\ asks[q].host = g => TestHolds(q)'
    BY LeavingKeeps
  <1>3. ASSUME NEW q \in That PROVE TestHolds(q)'
    <2>1. CASE asks'[q] = None \/ ~asks'[q].fresh
      BY <2>1 DEF TestHolds
    <2>2. CASE asks'[q] # None /\ asks'[q] = asks[q] /\ asks[q].host # h
      <3>1. asks[q].host \in Machines \ {h}
        BY <2>2 DEF PoolInv, PoolTypes
      <3> QED
        BY <1>2, <2>2, <3>1
    <2> QED
      BY <2>1, <2>2 DEF Overtaken
  <1> QED
    BY <1>1, <1>2, <1>3 DEF PoolInv

\* A slot is taken on a test that held, or the host counts as overlapped.
LEMMA BindStep ==
  ASSUME PoolInv, NEW q \in That, Pool!Bind(q)
  PROVE  PoolInv'
  <1>0. PICK h, n : h = asks[q].host /\ n = asks[q].node
    OBVIOUS
  <1>1. /\ asks[q] # None /\ asks[q].op \in {"assign", "replace"} /\ UNCHANGED hosts
        /\ h \in Machines /\ n \in Pool!Nodes
    BY <1>0 DEF Pool!Bind, PoolInv, PoolTypes
  <1>2. CASE UNCHANGED <<bound, overlapped>> /\ asks' = [asks EXCEPT ![q] = None]
    BY <1>1, <1>2, AskKeeps
  <1>3. CASE /\ bound' = [bound EXCEPT ![n] = h] /\ asks' = Pool!Answered(q)
             /\ overlapped' = Pool!Overlap(q)
    <2>1. DOMAIN bound' = Pool!Nodes /\ bound'[n] = h
          /\ \A m \in Pool!Nodes : m # n => bound'[m] = bound[m]
      BY <1>1, <1>3 DEF PoolInv, PoolTypes
    <2>2. Overtaken(h)
      BY <1>0, <1>3, StaleIs DEF Pool!Answered
    <2>3. overlapped \subseteq overlapped' /\ (h \notin overlapped' => asks[q].fresh)
      BY <1>0, <1>3 DEF Pool!Overlap
    <2>4. \A g \in Machines \ {h} : NodesOn(g)' \subseteq NodesOn(g)
      BY <1>1, <2>1 DEF NodesOn
    <2>5. Sound(h)'
      <3> SUFFICES ASSUME h \notin overlapped'
                   PROVE  hosts[h] # None /\ Count(h)' <= hosts[h].slots
        BY <1>1 DEF Sound
      <3>1. hosts[h] # None /\ (bound[n] # h => Count(h) + 1 <= hosts[h].slots)
        BY <1>0, <1>1, <2>3 DEF PoolInv, TestHolds
      <3>2. CASE bound[n] = h
        <4>1. NodesOn(h)' = NodesOn(h) /\ n \in NodesOn(h)
          BY <1>1, <2>1, <3>2 DEF NodesOn
        <4>2. Count(h) # 0
          BY <4>1, CountIsNat, FS_EmptySet DEF Count
        <4>3. Sound(h) /\ Count(h)' = Count(h) /\ Count(h) \in Nat
          BY <1>1, <4>1, CountIsNat DEF PoolInv, Count
        <4> QED
          BY <2>3, <4>2, <4>3 DEF Sound
      <3>3. CASE bound[n] # h
        <4>1. NodesOn(h)' = NodesOn(h) \cup {n} /\ n \notin NodesOn(h)
          BY <1>1, <2>1, <3>3 DEF NodesOn
        <4>2. Count(h)' = Count(h) + 1
          BY <4>1, CountIsNat, FS_AddElement DEF Count
        <4> QED
          BY <3>1, <3>3, <4>2
      <3> QED
        BY <3>2, <3>3
    <2> QED
      BY <1>1, <2>1, <2>2, <2>3, <2>4, <2>5, ChangeKeeps DEF PoolInv, PoolTypes
  <1> QED
    BY <1>0, <1>2, <1>3 DEF Pool!Bind

LEMMA RowStep ==
  ASSUME PoolInv, NEW q \in That, Pool!DeleteRow(q) \/ Pool!WriteRow(q)
  PROVE  PoolInv'
  <1>0. PICK h : h = asks[q].host
    OBVIOUS
  <1>1. /\ asks[q] # None /\ UNCHANGED bound /\ h \in Machines /\ asks' = Pool!Answered(q)
        /\ overlapped' = Pool!Overlap(q)
    BY <1>0 DEF Pool!DeleteRow, Pool!WriteRow, PoolInv, PoolTypes
  <1>2. Overtaken(h)
    BY <1>0, <1>1, StaleIs DEF Pool!Answered
  <1>3. overlapped \subseteq overlapped' /\ (h \notin overlapped' => asks[q].fresh)
    BY <1>0, <1>1 DEF Pool!Overlap
  <1>4. \A g : NodesOn(g)' = NodesOn(g) /\ Count(g)' = Count(g)
    BY <1>1 DEF NodesOn, Count
  <1>5. PICK row \in {None} \cup Pool!HostRows :
          /\ hosts' = [hosts EXCEPT ![h] = row]
          /\ \/ asks[q].op = "delete" /\ row = None
             \/ asks[q].op = "status" /\ row = asks[q].row /\ row \in Pool!HostRows
    BY <1>0, <1>1 DEF Pool!DeleteRow, Pool!WriteRow, PoolInv, PoolTypes
  <1>6. /\ hosts' \in [Machines -> {None} \cup Pool!HostRows] /\ hosts'[h] = row
        /\ \A g \in Machines \ {h} : hosts'[g] = hosts[g]
    BY <1>1, <1>5 DEF PoolInv, PoolTypes
  <1>7. Sound(h)'
    <2> SUFFICES ASSUME h \notin overlapped', Count(h) > 0
                 PROVE  row # None /\ Count(h) <= row.slots
      BY <1>4, <1>6 DEF Sound
    <2>1. TestHolds(q) /\ Sound(h) /\ asks[q].fresh /\ h \notin overlapped
      BY <1>1, <1>3 DEF PoolInv
    <2>2. asks[q].op # "delete"
      BY <1>0, <1>1, <2>1 DEF TestHolds
    <2>3. /\ row = asks[q].row /\ row \in Pool!HostRows
          /\ hosts[h] # None /\ row.slots = hosts[h].slots
      BY <1>0, <1>1, <1>5, <2>1, <2>2 DEF TestHolds
    <2> QED
      BY <2>1, <2>3, PartsAssumption DEF Sound, Pool!RegistryAssumption
  <1> QED
    BY <1>1, <1>2, <1>3, <1>4, <1>6, <1>7, ChangeKeeps DEF PoolInv, PoolTypes

LEMMA CreateStep ==
  ASSUME PoolInv, NEW h \in Machines, NEW slots \in 1..MaxSlots, Pool!HostCreate(h, slots)
  PROVE  PoolInv'
  <1> DEFINE row == [slots |-> slots, status |-> "running"]
  <1>1. /\ hosts' = [hosts EXCEPT ![h] = row] /\ UNCHANGED bound
        /\ asks' = Pool!Stale(h, None)
        /\ overlapped' = overlapped \cup (IF Pool!BindingCount(h) > slots THEN {h} ELSE {})
    BY DEF Pool!HostCreate
  <1>2. row \in Pool!HostRows /\ row # None /\ row.slots = slots
    BY PartsAssumption DEF Pool!HostRows, Pool!RegistryAssumption
  <1> HIDE DEF row
  <1>3. Overtaken(h)
    BY <1>1, StaleIs
  <1>4. \A g : NodesOn(g)' = NodesOn(g) /\ Count(g)' = Count(g)
    BY <1>1 DEF NodesOn, Count
  <1>5. /\ hosts' \in [Machines -> {None} \cup Pool!HostRows] /\ hosts'[h] = row
        /\ \A g \in Machines \ {h} : hosts'[g] = hosts[g]
    BY <1>1, <1>2 DEF PoolInv, PoolTypes
  <1>6. h \notin overlapped' => Count(h) <= slots
    <2>1. Pool!BindingCount(h) = Count(h) /\ Count(h) \in Nat /\ slots \in Nat
      BY CountIs, CountIsNat, PartsAssumption DEF Pool!RegistryAssumption
    <2> QED
      BY <1>1, <2>1
  <1>7. Sound(h)'
    BY <1>2, <1>4, <1>5, <1>6 DEF Sound
  <1> QED
    BY <1>1, <1>3, <1>4, <1>5, <1>7, ChangeKeeps DEF PoolInv, PoolTypes

LEMMA PoolInit == part = "pool" /\ Init => PoolInv
  <1> SUFFICES ASSUME Pool!Init PROVE PoolInv
    BY DEF Init
  <1>1. PoolTypes
    BY DEF Pool!Init, PoolTypes, Pool!HostRows
  <1>2. ASSUME NEW h \in Machines PROVE Sound(h)
    <2>1. NodesOn(h) = {}
      BY PartsAssumption DEF Pool!Init, NodesOn, Pool!RegistryAssumption
    <2>2. Count(h) = 0
      BY <2>1, FS_EmptySet DEF Count
    <2> QED
      BY <2>2 DEF Sound
  <1>3. ASSUME NEW q \in That PROVE TestHolds(q)
    BY DEF Pool!Init, TestHolds
  <1> QED
    BY <1>1, <1>2, <1>3 DEF PoolInv

LEMMA PoolKept ==
  ASSUME PoolInv, [Pool!Next]_(Pool!vars)
  PROVE  PoolInv'
  <1>1. CASE UNCHANGED <<hosts, bound, asks, overlapped>>
    BY <1>1, LeaveStep DEF PoolInv, PoolTypes
  <1>2. ASSUME NEW n \in Pool!Nodes, Pool!HostClearNode(n) PROVE PoolInv'
    BY <1>2, LeaveStep DEF Pool!HostClearNode, PoolInv, PoolTypes
  <1>3. ASSUME NEW i \in This, Pool!DeleteRecord(i) PROVE PoolInv'
    BY <1>3, LeaveStep DEF Pool!DeleteRecord
  <1>4. ASSUME NEW i \in This, Pool!Destroy(i) PROVE PoolInv'
    BY <1>1, <1>4 DEF Pool!Destroy
  <1> QED
    BY <1>1, <1>2, <1>3, <1>4, TakeStep, DeleteAsked, StatusAsked, BindStep, ReplaceFailsStep,
       RowStep, CreateStep DEF Pool!Next, Pool!vars

\* A bound host is registered and has a slot for each of its nodes, for any hosts, slots,
\* instances and requests at a time, unless a request wrote on a test that another had
\* overtaken or a host was declared smaller than what it carries (host_assign_node,
\* host_delete, host_set_status).
THEOREM BoundHostsAreSound == Spec => []BindingsAreSound
  <1> DEFINE Inv == part = "pool" => PoolInv
  <1>1. Init => Inv
    BY PoolInit
  <1>2. Inv /\ [Next]_vars => Inv'
    BY PoolKept, PartStep
  <1>3. Inv => BindingsAreSound
    BY CountIs DEF PoolInv, Sound, BindingsAreSound, Pool!BindingsAreSound
  <1> QED
    BY <1>1, <1>2, <1>3, PTL DEF Spec
-----------------------------------------------------------------------------
(* Alerts: a degradation is told, once by each controller, and its cause has *)
(* evidence.  For that a sweeper that is about to insert an alert has none,  *)
(* and a captured cause stays in evidence until it is on record.             *)

status == v1
lastError == v2
sweep == v5
pending == v6
alerts == v7
evidence == v8
unraised == v9

USE DEF status, lastError, sweep, pending, alerts, evidence, unraised

Rows == [kind : {"degraded", "task_failed"}, by : Health!Writers, state : {"open", "ack"}]
Copies == {"pc", "was", "knew", "found"}

\* The live alerts of a degradation.
Standing == {i \in DOMAIN alerts : alerts[i].kind = "degraded"}

CopyTypes(c) ==
  /\ DOMAIN c = Copies
  /\ c.pc # "idle" => c.was \in {"running", "degraded"}
  /\ c.pc = "probed" => c.found \in Causes \cup {None}
  /\ c.pc \in {"captured", "raising"} => c.found \in Causes

AlertTypes ==
  /\ alerts \in Seq(Rows)
  /\ DOMAIN pending = Health!Writers
  /\ \A w \in Health!Writers : pending[w] # None => pending[w] \in Health!Reports
  /\ DOMAIN sweep = This /\ \A s \in This : CopyTypes(sweep[s])
  /\ unraised \in BOOLEAN

\* Only sweepers raise a degradation, when they found none raised; a sweeper that is
\* about to insert has no alert that stands.
OnceEach ==
  /\ \A i, j \in Standing : alerts[i].by = alerts[j].by => i = j
  /\ \A w \in Health!Writers : pending[w] # None =>
       (pending[w].kind = "degraded" <=> w \in This)
  /\ \A s \in This : pending[s] # None => \A i \in Standing : alerts[i].by # s
  /\ \A s \in This : sweep[s].pc # "idle" => pending[s] = None

Told ==
  status = "degraded" /\ ~unraised =>
    Standing # {} \/ \E s \in This : pending[s] # None \/ sweep[s].pc = "raising"

Recorded == status = "degraded" /\ lastError \in Causes /\ Health!Accepted(lastError)
              => lastError \in evidence

Captured(s) ==
  sweep[s].pc = "captured" /\ Health!SnapshotNeeded(s) /\ Health!Accepted(sweep[s].found)
    => sweep[s].found \in evidence

Evident == Recorded /\ \A s \in This : Captured(s)

AlertInv == AlertTypes /\ OnceEach /\ Told /\ Evident

LEMMA RaisedIs == Health!Raised("degraded") <=> Standing # {}
  BY DEF Health!Raised, Standing

LEMMA SweepersWrite == \A s \in This : s \in Health!Writers
  BY DEF Health!Writers

\* What changes neither an alert nor what is about to be one.
LEMMA AlertsRest ==
  ASSUME AlertInv, UNCHANGED <<alerts, pending>>
  PROVE  /\ Standing' = Standing
         /\ \A i, j \in Standing' : alerts'[i].by = alerts'[j].by => i = j
         /\ \A w \in Health!Writers : pending'[w] # None =>
              (pending'[w].kind = "degraded" <=> w \in This)
         /\ \A s \in This : pending'[s] # None => \A i \in Standing' : alerts'[i].by # s
  BY DEF AlertInv, OnceEach, Standing

\* One sweeper, and no other, moves on.
LEMMA TurnIs ==
  ASSUME AlertInv, NEW s \in This, NEW to, Health!Turns(s, to)
  PROVE  /\ DOMAIN sweep' = This /\ sweep'[s] = to
         /\ \A x \in This : x # s => sweep'[x] = sweep[x]
  BY DEF AlertInv, AlertTypes, Health!Turns

LEMMA CopyMoves ==
  ASSUME AlertInv, NEW s \in This, NEW pc, NEW found
  PROVE  LET c == [sweep[s] EXCEPT !.pc = pc, !.found = found]
             d == [sweep[s] EXCEPT !.pc = pc] IN
         /\ DOMAIN c = Copies /\ c.pc = pc /\ c.was = sweep[s].was /\ c.found = found
         /\ c.knew = sweep[s].knew
         /\ DOMAIN d = Copies /\ d.pc = pc /\ d.was = sweep[s].was /\ d.found = sweep[s].found
         /\ d.knew = sweep[s].knew
  BY DEF AlertInv, AlertTypes, CopyTypes, Copies

LEMMA IdleIs == CopyTypes(Health!Idle) /\ Health!Idle.pc = "idle"
  BY DEF Health!Idle, CopyTypes, Copies

\* A step of one sweeper that leaves the alerts alone.
LEMMA SweeperMoves ==
  ASSUME AlertInv, NEW s \in This, NEW to, Health!Turns(s, to), UNCHANGED <<alerts, pending>>,
         CopyTypes(to), to.pc # "idle" => sweep[s].pc # "idle" \/ pending[s] = None,
         unraised' \in BOOLEAN, Told', Recorded',
         \A x \in This : x # s /\ Captured(x) => Captured(x)',
         Captured(s)'
  PROVE  AlertInv'
  <1>1. /\ DOMAIN sweep' = This /\ sweep'[s] = to
        /\ \A x \in This : x # s => sweep'[x] = sweep[x]
    BY TurnIs
  <1>2. AlertTypes'
    BY <1>1 DEF AlertInv, AlertTypes
  <1>3. OnceEach'
    BY <1>1, AlertsRest DEF AlertInv, OnceEach
  <1>4. Evident'
    BY <1>1 DEF AlertInv, Evident
  <1> QED
    BY <1>2, <1>3, <1>4 DEF AlertInv

\* What another sweeper has captured stays so while the evidence does.
LEMMA CapturedStays ==
  ASSUME AlertInv, NEW s \in This, NEW to, Health!Turns(s, to), evidence \subseteq evidence'
  PROVE  /\ \A x \in This : x # s /\ Captured(x) => Captured(x)'
         /\ to.pc # "captured" => Captured(s)'
  <1>1. sweep'[s] = to /\ \A x \in This : x # s => sweep'[x] = sweep[x]
    BY TurnIs
  <1> QED
    BY <1>1 DEF Captured, Health!SnapshotNeeded, Health!Accepted

\* A sweeper that does not raise leaves a degradation as told as it was.
LEMMA ToldStays ==
  ASSUME AlertInv, NEW s \in This, NEW to, Health!Turns(s, to), UNCHANGED <<alerts, pending>>,
         sweep[s].pc # "raising",
         status' = "degraded" /\ ~unraised' => status = "degraded" /\ ~unraised
  PROVE  Told'
  <1>1. \A x \in This : x # s => sweep'[x] = sweep[x]
    BY TurnIs
  <1>2. Standing' = Standing
    BY AlertsRest
  <1> QED
    BY <1>1, <1>2 DEF AlertInv, Told

LEMMA ScanStep ==
  ASSUME AlertInv, NEW s \in This, Health!Scan(s)
  PROVE  AlertInv'
  <1> DEFINE to == [pc |-> "scanned", was |-> status, knew |-> lastError, found |-> None]
  <1>1. /\ UNCHANGED <<alerts, pending, status, lastError, evidence, unraised>>
        /\ sweep[s].pc = "idle" /\ pending[s] = None /\ Health!Turns(s, to)
        /\ status \in {"running", "degraded"}
    BY DEF Health!Scan
  <1>2. CopyTypes(to) /\ to.pc = "scanned"
    BY <1>1 DEF CopyTypes, Copies
  <1> HIDE DEF to
  <1>3. Told'
    BY <1>1, ToldStays
  <1>4. Recorded' /\ unraised' \in BOOLEAN
    BY <1>1 DEF AlertInv, AlertTypes, Evident, Recorded, Health!Accepted
  <1> QED
    BY <1>1, <1>2, <1>3, <1>4, CapturedStays, SweeperMoves

LEMMA ProbeStep ==
  ASSUME AlertInv, NEW s \in This, NEW found \in Causes \cup {None}, Health!Probe(s, found)
  PROVE  AlertInv'
  <1> DEFINE probed == [sweep[s] EXCEPT !.pc = "probed", !.found = found]
  <1>1. /\ UNCHANGED <<alerts, pending, status, lastError, evidence, unraised>>
        /\ sweep[s].pc = "scanned"
        /\ \E to \in {Health!Idle, probed} : Health!Turns(s, to)
    BY DEF Health!Probe
  <1>2. CopyTypes(probed) /\ probed.pc = "probed"
    <2>1. sweep[s].was \in {"running", "degraded"}
      BY <1>1 DEF AlertInv, AlertTypes, CopyTypes
    <2> QED
      BY <2>1, CopyMoves DEF CopyTypes
  <1> HIDE DEF probed
  <1>3. PICK to \in {Health!Idle, probed} : Health!Turns(s, to)
    BY <1>1
  <1>4. CopyTypes(to) /\ to.pc \in {"idle", "probed"}
    BY <1>2, <1>3, IdleIs
  <1>5. Told'
    BY <1>1, <1>3, ToldStays
  <1>6. Recorded' /\ unraised' \in BOOLEAN
    BY <1>1 DEF AlertInv, AlertTypes, Evident, Recorded, Health!Accepted
  <1> QED
    BY <1>1, <1>3, <1>4, <1>5, <1>6, CapturedStays, SweeperMoves

LEMMA CaptureStep ==
  ASSUME AlertInv, NEW s \in This, Health!Capture(s)
  PROVE  AlertInv'
  <1> DEFINE to == [sweep[s] EXCEPT !.pc = "captured"]
  <1>1. /\ UNCHANGED <<alerts, pending, status, lastError, unraised>>
        /\ sweep[s].pc = "probed" /\ sweep[s].found # None /\ Health!Turns(s, to)
        /\ evidence \subseteq evidence'
        /\ Health!SnapshotNeeded(s) /\ Health!Accepted(sweep[s].found)
             => sweep[s].found \in evidence'
    BY DEF Health!Capture
  <1>2. /\ DOMAIN to = Copies /\ to.pc = "captured" /\ to.was = sweep[s].was
        /\ to.found = sweep[s].found /\ to.knew = sweep[s].knew
    BY CopyMoves
  <1>3. CopyTypes(to)
    BY <1>1, <1>2 DEF AlertInv, AlertTypes, CopyTypes
  <1> HIDE DEF to
  <1>4. Told'
    BY <1>1, ToldStays
  <1>5. Recorded' /\ unraised' \in BOOLEAN
    BY <1>1 DEF AlertInv, AlertTypes, Evident, Recorded, Health!Accepted
  <1>6. Captured(s)'
    <2>1. sweep'[s] = to
      BY <1>1, TurnIs
    <2> QED
      BY <1>1, <1>2, <2>1 DEF Captured, Health!SnapshotNeeded, Health!Accepted
  <1> QED
    BY <1>1, <1>3, <1>4, <1>5, <1>6, CapturedStays, SweeperMoves

LEMMA DegradeStep ==
  ASSUME AlertInv, NEW s \in This, Health!Degrade(s)
  PROVE  AlertInv'
  <1> DEFINE raising == [sweep[s] EXCEPT !.pc = "raising"]
  <1> DEFINE to == IF sweep[s].was = "running" THEN raising ELSE Health!Idle
  <1>1. /\ UNCHANGED <<alerts, pending, evidence>> /\ sweep[s].pc = "captured"
        /\ \/ /\ Health!SnapshotNeeded(s) /\ status' = "degraded"
              /\ lastError' = sweep[s].found
           \/ sweep[s].was # "running" /\ UNCHANGED <<status, lastError>>
        /\ Health!Turns(s, to)
        /\ unraised' = (unraised \/ (sweep[s].was = "degraded" /\ status # "degraded"
                                     /\ ~Health!Raised("degraded")))
    BY DEF Health!Degrade, Health!SnapshotNeeded
  <1>2. sweep[s].was \in {"running", "degraded"} /\ sweep[s].found \in Causes
    BY <1>1 DEF AlertInv, AlertTypes, CopyTypes
  <1>3. /\ CopyTypes(raising) /\ raising.pc = "raising"
    BY <1>2, CopyMoves DEF CopyTypes
  <1>4. /\ CopyTypes(to) /\ to.pc \in {"idle", "raising"}
        /\ sweep[s].was = "running" => to.pc = "raising"
    BY <1>3, IdleIs
  <1> HIDE DEF to, raising
  <1>5. Told'
    <2>1. CASE sweep[s].was = "running"
      <3>1. sweep'[s].pc = "raising"
        BY <1>1, <1>4, <2>1, TurnIs
      <3> QED
        BY <3>1 DEF Told
    <2>2. CASE sweep[s].was = "degraded" /\ status = "degraded"
      BY <1>1, <2>2, ToldStays
    <2>3. CASE sweep[s].was = "degraded" /\ status # "degraded"
      <3>1. unraised' \/ Standing' # {}
        BY <1>1, <2>3, RaisedIs, AlertsRest
      <3> QED
        BY <3>1 DEF Told
    <2> QED
      BY <1>2, <2>1, <2>2, <2>3
  <1>6. unraised' \in BOOLEAN
    BY <1>1 DEF AlertInv, AlertTypes
  <1>7. Recorded'
    BY <1>1 DEF AlertInv, Evident, Captured, Recorded, Health!Accepted
  <1> QED
    BY <1>1, <1>4, <1>5, <1>6, <1>7, CapturedStays, SweeperMoves

LEMMA RecoverStep ==
  ASSUME AlertInv, NEW s \in This, Health!Recover(s)
  PROVE  AlertInv'
  <1> DEFINE resolving == [sweep[s] EXCEPT !.pc = "resolving"]
  <1>1. /\ UNCHANGED <<alerts, pending, lastError, unraised>> /\ sweep[s].pc = "probed"
        /\ \/ /\ status' = "running" /\ Health!Turns(s, resolving)
              /\ evidence' = {sweep[x].found : x \in {y \in This : sweep[y].pc = "captured"}}
                               \cap evidence
           \/ UNCHANGED <<status, evidence>> /\ Health!Turns(s, Health!Idle)
    BY DEF Health!Recover
  <1>2. CopyTypes(resolving) /\ resolving.pc = "resolving"
    <2>1. sweep[s].was \in {"running", "degraded"}
      BY <1>1 DEF AlertInv, AlertTypes, CopyTypes
    <2> QED
      BY <2>1, CopyMoves DEF CopyTypes
  <1> HIDE DEF resolving
  <1>3. unraised' \in BOOLEAN
    BY <1>1 DEF AlertInv, AlertTypes
  <1>4. ASSUME UNCHANGED <<status, evidence>>, Health!Turns(s, Health!Idle) PROVE AlertInv'
    <2>1. Told'
      BY <1>1, <1>4, ToldStays
    <2>2. Recorded'
      BY <1>1, <1>4 DEF AlertInv, Evident, Recorded, Health!Accepted
    <2> QED
      BY <1>1, <1>3, <1>4, <2>1, <2>2, IdleIs, CapturedStays, SweeperMoves
  <1>5. ASSUME status' = "running", Health!Turns(s, resolving),
               evidence' = {sweep[x].found : x \in {y \in This : sweep[y].pc = "captured"}}
                               \cap evidence
        PROVE  AlertInv'
    <2>1. Told' /\ Recorded'
      BY <1>5 DEF Told, Recorded
    <2>2. sweep'[s] = resolving /\ \A x \in This : x # s => sweep'[x] = sweep[x]
      BY <1>5, TurnIs
    <2>3. \A x \in This : x # s /\ Captured(x) => Captured(x)'
      BY <1>5, <2>2 DEF Captured, Health!SnapshotNeeded, Health!Accepted
    <2>4. Captured(s)'
      BY <1>2, <2>2 DEF Captured
    <2> QED
      BY <1>1, <1>2, <1>3, <1>5, <2>1, <2>3, <2>4, SweeperMoves
  <1> QED
    BY <1>1, <1>4, <1>5

\* The first half of alert_open: what is about to be inserted.
LEMMA OpenIs ==
  ASSUME AlertInv, NEW w \in Health!Writers, NEW kind \in {"degraded", "task_failed"},
         NEW cause \in Causes \cup {"task"}, Health!AlertOpen(w, kind, cause)
  PROVE  /\ DOMAIN pending' = Health!Writers
         /\ \A u \in Health!Writers : u # w => pending'[u] = pending[u]
         /\ Health!Raised(kind) => pending'[w] = None
         /\ ~Health!Raised(kind) =>
              pending'[w] # None /\ pending'[w] \in Health!Reports /\ pending'[w].kind = kind
  <1> DEFINE r == [kind |-> kind, cause |-> cause]
  <1>1. r \in Health!Reports /\ r # None /\ r.kind = kind
    BY PartsAssumption DEF Health!Reports, Health!CausesAssumption
  <1>2. pending' = [pending EXCEPT ![w] = IF Health!Raised(kind) THEN None ELSE r]
    BY DEF Health!AlertOpen
  <1> HIDE DEF r
  <1> QED
    BY <1>1, <1>2 DEF AlertInv, AlertTypes

LEMMA RaiseStep ==
  ASSUME AlertInv, NEW s \in This, Health!Raise(s)
  PROVE  AlertInv'
  <1>1. /\ UNCHANGED <<alerts, status, evidence, lastError, unraised>>
        /\ sweep[s].pc = "raising" /\ Health!Turns(s, Health!Idle)
        /\ Health!AlertOpen(s, "degraded", sweep[s].found)
        /\ sweep[s].found \in Causes
    BY DEF Health!Raise, AlertInv, AlertTypes, CopyTypes
  <1>2. /\ DOMAIN sweep' = This /\ sweep'[s].pc = "idle" /\ CopyTypes(sweep'[s])
        /\ \A x \in This : x # s => sweep'[x] = sweep[x]
    BY <1>1, TurnIs, IdleIs
  <1>3. /\ DOMAIN pending' = Health!Writers
        /\ \A u \in Health!Writers : u # s => pending'[u] = pending[u]
        /\ Standing # {} => pending'[s] = None
        /\ Standing = {} =>
             /\ pending'[s] # None /\ pending'[s] \in Health!Reports
             /\ pending'[s].kind = "degraded"
    BY <1>1, OpenIs, RaisedIs, SweepersWrite
  <1>4. Standing' = Standing
    BY <1>1 DEF Standing
  <1>5. AlertTypes'
    BY <1>1, <1>2, <1>3 DEF AlertInv, AlertTypes
  <1>6. OnceEach'
    <2>1. \A i, j \in Standing' : alerts'[i].by = alerts'[j].by => i = j
      BY <1>1, <1>4 DEF AlertInv, OnceEach
    <2>2. \A w \in Health!Writers : pending'[w] # None =>
            (pending'[w].kind = "degraded" <=> w \in This)
      BY <1>3 DEF AlertInv, OnceEach
    <2>3. \A x \in This : pending'[x] # None => \A i \in Standing' : alerts'[i].by # x
      BY <1>1, <1>3, <1>4, SweepersWrite DEF AlertInv, OnceEach
    <2>4. \A x \in This : sweep'[x].pc # "idle" => pending'[x] = None
      BY <1>2, <1>3, SweepersWrite DEF AlertInv, OnceEach
    <2> QED
      BY <2>1, <2>2, <2>3, <2>4 DEF OnceEach
  <1>7. Told'
    <2>1. Standing' # {} \/ pending'[s] # None
      BY <1>3, <1>4
    <2> QED
      BY <2>1 DEF Told
  <1>8. Evident'
    <2>1. Recorded'
      BY <1>1 DEF AlertInv, Evident, Recorded, Health!Accepted
    <2>2. \A x \in This : Captured(x)'
      BY <1>1, IdleIs, CapturedStays DEF AlertInv, Evident
    <2> QED
      BY <2>1, <2>2 DEF Evident
  <1> QED
    BY <1>5, <1>6, <1>7, <1>8 DEF AlertInv

LEMMA RowsAre == alerts \in Seq(Rows) =>
                   alerts \in [1..Len(alerts) -> Rows] /\ DOMAIN alerts = 1..Len(alerts)
                   /\ Len(alerts) \in Nat
  OBVIOUS

\* What leaves the sweepers and what they are about to insert alone, and takes alerts away
\* or changes their state.
LEMMA RowsChange ==
  ASSUME AlertInv, UNCHANGED <<sweep, pending, evidence, status, lastError>>,
         alerts' \in Seq(Rows), unraised' \in BOOLEAN, unraised => unraised',
         NEW f, \A i \in Standing' : f[i] \in Standing /\ alerts'[i].by = alerts[f[i]].by,
         \A i, j \in Standing' : f[i] = f[j] => i = j,
         Standing # {} => Standing' # {} \/ unraised'
  PROVE  AlertInv'
  <1>1. AlertTypes'
    BY DEF AlertInv, AlertTypes
  <1>2. OnceEach'
    BY DEF AlertInv, OnceEach
  <1>3. Told'
    BY DEF AlertInv, AlertTypes, Told
  <1>4. Recorded'
    BY DEF AlertInv, Evident, Recorded, Health!Accepted
  <1>5. \A s \in This : Captured(s)'
    BY DEF AlertInv, Evident, Captured, Health!SnapshotNeeded, Health!Accepted
  <1> QED
    BY <1>1, <1>2, <1>3, <1>4, <1>5 DEF AlertInv, Evident

LEMMA AcknowledgeStep ==
  ASSUME AlertInv, NEW i \in DOMAIN alerts, Health!Acknowledge(i)
  PROVE  AlertInv'
  <1> DEFINE q == [alerts[i] EXCEPT !.state = "ack"]
  <1>1. /\ UNCHANGED <<sweep, pending, evidence, status, lastError, unraised>>
        /\ alerts' = [alerts EXCEPT ![i] = q]
    BY DEF Health!Acknowledge
  <1>2. alerts[i] \in Rows
    BY RowsAre DEF AlertInv, AlertTypes
  <1>3. q \in Rows /\ q.kind = alerts[i].kind /\ q.by = alerts[i].by
    BY <1>2 DEF Rows
  <1> HIDE DEF q
  <1>4. alerts' \in Seq(Rows) /\ DOMAIN alerts' = DOMAIN alerts
    BY <1>1, <1>3 DEF AlertInv, AlertTypes
  <1>5. \A j \in DOMAIN alerts :
          alerts'[j].kind = alerts[j].kind /\ alerts'[j].by = alerts[j].by
    BY <1>1, <1>3
  <1>6. Standing' = Standing
    BY <1>4, <1>5 DEF Standing
  <1> DEFINE f == [j \in Standing |-> j]
  <1>7. \A j \in Standing' : f[j] = j /\ f[j] \in Standing /\ alerts'[j].by = alerts[f[j]].by
    BY <1>5, <1>6 DEF Standing
  <1>8. unraised' \in BOOLEAN
    BY <1>1 DEF AlertInv, AlertTypes
  <1> HIDE DEF f
  <1> QED
    BY <1>1, <1>4, <1>6, <1>7, <1>8, RowsChange

\* A sequence without its i-th element.
LEMMA Removed ==
  ASSUME NEW S, NEW q \in Seq(S), NEW i \in 1 .. Len(q)
  PROVE  LET p == Health!RemoveAt(q, i) IN
         /\ p \in Seq(S) /\ Len(p) = Len(q) - 1
         /\ \A k \in 1 .. Len(p) : p[k] = IF k < i THEN q[k] ELSE q[k + 1]
  <1> DEFINE a == SubSeq(q, 1, i - 1)
  <1> DEFINE b == SubSeq(q, i + 1, Len(q))
  <1> DEFINE p == Health!RemoveAt(q, i)
  <1>1. /\ a \in Seq(S) /\ Len(a) = i - 1
        /\ \A k \in 1 .. i - 1 : a[k] = q[k]
    BY SubSeqProperties
  <1>2. /\ b \in Seq(S) /\ Len(b) = Len(q) - i
        /\ \A k \in 1 .. Len(q) - i : b[k] = q[k + i]
    BY SubSeqProperties
  <1>3. p = a \o b
    BY DEF Health!RemoveAt
  <1>n. Len(q) \in Nat /\ i \in Nat /\ 1 <= i /\ i <= Len(q)
    OBVIOUS
  <1> HIDE DEF a, b, p
  <1>4. /\ p \in Seq(S) /\ Len(p) = Len(a) + Len(b)
        /\ \A k \in 1 .. Len(a) + Len(b) :
             p[k] = IF k <= Len(a) THEN a[k] ELSE b[k - Len(a)]
    BY <1>1, <1>2, <1>3, ConcatProperties
  <1>5. Len(p) = Len(q) - 1
    BY <1>1, <1>2, <1>4, <1>n
  <1>6. \A k \in 1 .. Len(p) : p[k] = IF k < i THEN q[k] ELSE q[k + 1]
    <2> SUFFICES ASSUME NEW k \in 1 .. Len(p) PROVE p[k] = IF k < i THEN q[k] ELSE q[k + 1]
      OBVIOUS
    <2>1. k \in Nat /\ 1 <= k /\ k <= Len(q) - 1 /\ k \in 1 .. Len(a) + Len(b)
      BY <1>1, <1>2, <1>5, <1>n
    <2>2. p[k] = IF k <= i - 1 THEN a[k] ELSE b[k - (i - 1)]
      BY <1>1, <1>4, <2>1
    <2>3. CASE k < i
      <3>1. k \in 1 .. i - 1 /\ k <= i - 1
        BY <1>n, <2>1, <2>3
      <3> QED
        BY <1>1, <2>2, <2>3, <3>1
    <2>4. CASE ~(k < i)
      <3>1. /\ ~(k <= i - 1) /\ k - (i - 1) \in 1 .. Len(q) - i
            /\ k - (i - 1) + i = k + 1
        BY <1>n, <2>1, <2>4
      <3>2. p[k] = b[k - (i - 1)]
        BY <2>2, <3>1
      <3>3. b[k - (i - 1)] = q[k - (i - 1) + i]
        BY <1>2, <3>1
      <3> QED
        BY <2>4, <3>1, <3>2, <3>3
    <2> QED
      BY <2>3, <2>4
  <1> QED
    BY <1>4, <1>5, <1>6 DEF p

LEMMA CloseStep ==
  ASSUME AlertInv, NEW i \in DOMAIN alerts, Health!Close(i)
  PROVE  AlertInv'
  <1>1. /\ UNCHANGED <<sweep, pending, evidence, status, lastError>>
        /\ alerts' = Health!RemoveAt(alerts, i)
        /\ unraised' = (unraised \/ alerts[i].kind = "degraded")
    BY DEF Health!Close
  <1>2. alerts \in Seq(Rows) /\ unraised \in BOOLEAN
    BY DEF AlertInv, AlertTypes
  <1>3. DOMAIN alerts = 1 .. Len(alerts) /\ Len(alerts) \in Nat /\ i \in 1 .. Len(alerts)
    BY <1>2, RowsAre
  <1>4. /\ alerts' \in Seq(Rows) /\ Len(alerts') = Len(alerts) - 1
        /\ \A k \in 1 .. Len(alerts') :
             alerts'[k] = IF k < i THEN alerts[k] ELSE alerts[k + 1]
    BY <1>1, <1>2, <1>3, Removed
  <1>5. DOMAIN alerts' = 1 .. Len(alerts) - 1
    BY <1>4
  <1> DEFINE f == [k \in 1 .. Len(alerts) - 1 |-> IF k < i THEN k ELSE k + 1]
  <1>6. \A k \in DOMAIN alerts' : f[k] \in DOMAIN alerts /\ alerts'[k] = alerts[f[k]]
    BY <1>3, <1>4, <1>5
  <1>7. \A j, k \in DOMAIN alerts' : f[j] = f[k] => j = k
    BY <1>3, <1>5
  <1>8. \A k \in DOMAIN alerts : k # i => \E j \in DOMAIN alerts' : f[j] = k
    <2> SUFFICES ASSUME NEW k \in DOMAIN alerts, k # i PROVE \E j \in DOMAIN alerts' : f[j] = k
      OBVIOUS
    <2> DEFINE j == IF k < i THEN k ELSE k - 1
    <2>1. j \in 1 .. Len(alerts) - 1 /\ f[j] = k
      BY <1>3
    <2> QED
      BY <1>5, <2>1
  <1> HIDE DEF f
  <1>9. \A k \in Standing' : f[k] \in Standing /\ alerts'[k].by = alerts[f[k]].by
    BY <1>6 DEF Standing
  <1>10. Standing # {} => Standing' # {} \/ unraised'
    <2> SUFFICES ASSUME NEW k \in Standing, ~unraised' PROVE Standing' # {}
      OBVIOUS
    <2>1. k # i /\ k \in DOMAIN alerts
      BY <1>1 DEF Standing
    <2>2. PICK j \in DOMAIN alerts' : f[j] = k
      BY <1>8, <2>1
    <2>3. j \in Standing'
      BY <1>6, <2>2 DEF Standing
    <2> QED
      BY <2>3
  <1>11. \A j, k \in Standing' : f[j] = f[k] => j = k
    BY <1>7 DEF Standing
  <1>12. unraised' \in BOOLEAN /\ (unraised => unraised')
    BY <1>1, <1>2
  <1> QED
    BY <1>1, <1>4, <1>9, <1>10, <1>11, <1>12, RowsChange

LEMMA ResolveStep ==
  ASSUME AlertInv, NEW s \in This, Health!Resolve(s)
  PROVE  AlertInv'
  <1>1. /\ UNCHANGED <<pending, status, evidence, lastError>> /\ alerts' = <<>>
        /\ Health!Turns(s, Health!Idle) /\ unraised' = (unraised \/ status = "degraded")
    BY DEF Health!Resolve
  <1>2. /\ DOMAIN sweep' = This /\ sweep'[s].pc = "idle" /\ CopyTypes(sweep'[s])
        /\ \A x \in This : x # s => sweep'[x] = sweep[x]
    BY <1>1, TurnIs, IdleIs
  <1>3. alerts' \in Seq(Rows) /\ Standing' = {}
    BY <1>1 DEF Standing
  <1>4. AlertTypes'
    BY <1>1, <1>2, <1>3 DEF AlertInv, AlertTypes
  <1>5. OnceEach'
    BY <1>1, <1>2, <1>3 DEF AlertInv, OnceEach
  <1>6. Told'
    BY <1>1 DEF AlertInv, AlertTypes, Told
  <1>7. Recorded'
    BY <1>1 DEF AlertInv, Evident, Recorded, Health!Accepted
  <1>8. \A x \in This : Captured(x)'
    BY <1>1, IdleIs, CapturedStays DEF AlertInv, Evident
  <1> QED
    BY <1>4, <1>5, <1>6, <1>7, <1>8 DEF AlertInv, Evident

LEMMA InsertStep ==
  ASSUME AlertInv, NEW w \in Health!Writers, Health!Insert(w)
  PROVE  AlertInv'
  <1> DEFINE r == [kind |-> pending[w].kind, by |-> w, state |-> "open"]
  <1> DEFINE lands == Health!Accepted(pending[w].cause)
  <1>1. /\ UNCHANGED <<status, evidence, lastError, sweep>> /\ pending[w] # None
        /\ alerts' = (IF lands THEN Append(alerts, r) ELSE alerts)
        /\ unraised' = (IF pending[w].kind = "degraded" THEN ~lands ELSE unraised)
        /\ pending' = [pending EXCEPT ![w] = None]
    BY DEF Health!Insert
  <1>2. pending[w] \in Health!Reports
    BY <1>1 DEF AlertInv, AlertTypes
  <1>3. /\ r \in Rows /\ r.kind = pending[w].kind /\ r.by = w
        /\ pending[w].kind = "degraded" <=> w \in This
    BY <1>1, <1>2 DEF Rows, Health!Reports, AlertInv, OnceEach
  <1> HIDE DEF r
  <1>4. /\ DOMAIN pending' = Health!Writers /\ pending'[w] = None
        /\ \A u \in Health!Writers : u # w => pending'[u] = pending[u]
    BY <1>1 DEF AlertInv, AlertTypes
  <1>5. Recorded'
    BY <1>1 DEF AlertInv, Evident, Recorded, Health!Accepted
  <1>6. \A s \in This : Captured(s)'
    BY <1>1 DEF AlertInv, Evident, Captured, Health!SnapshotNeeded, Health!Accepted
  <1>7. CASE ~lands
    <2>1. alerts' = alerts /\ Standing' = Standing
      BY <1>1, <1>7 DEF Standing
    <2>2. AlertTypes'
      BY <1>1, <1>4, <2>1 DEF AlertInv, AlertTypes
    <2>3. OnceEach'
      BY <1>1, <1>4, <2>1, SweepersWrite DEF AlertInv, OnceEach
    <2>4. Told'
      <3>1. CASE w \in This
        BY <1>1, <1>3, <1>7, <3>1 DEF Told
      <3>2. CASE w \notin This
        <4>1. unraised' = unraised /\ \A s \in This : pending'[s] = pending[s]
          BY <1>1, <1>3, <1>4, <3>2, SweepersWrite
        <4> QED
          BY <1>1, <2>1, <4>1 DEF AlertInv, Told
      <3> QED
        BY <3>1, <3>2
    <2> QED
      BY <1>5, <1>6, <2>2, <2>3, <2>4 DEF AlertInv, Evident
  <1>8. CASE lands
    <2> DEFINE n == Len(alerts) + 1
    <2>1. /\ alerts' \in Seq(Rows) /\ DOMAIN alerts' = DOMAIN alerts \cup {n}
          /\ n \notin DOMAIN alerts
          /\ alerts'[n] = r /\ \A i \in DOMAIN alerts : alerts'[i] = alerts[i]
      BY <1>1, <1>3, <1>8 DEF AlertInv, AlertTypes
    <2> HIDE DEF n, lands
    <2>2. Standing' = Standing \cup (IF w \in This THEN {n} ELSE {})
      BY <1>3, <2>1 DEF Standing
    <2>3. AlertTypes'
      BY <1>1, <1>4, <2>1 DEF AlertInv, AlertTypes, lands
    <2>4. /\ \A i \in Standing : i # n /\ alerts'[i] = alerts[i]
          /\ w \in This => \A i \in Standing : alerts[i].by # w
      BY <1>1, <2>1 DEF Standing, AlertInv, OnceEach
    <2>5. \A i, j \in Standing' : alerts'[i].by = alerts'[j].by => i = j
      BY <1>3, <2>1, <2>2, <2>4 DEF AlertInv, OnceEach
    <2>6. \A s \in This : pending'[s] # None => \A i \in Standing' : alerts'[i].by # s
      BY <1>3, <1>4, <2>1, <2>2, <2>4, SweepersWrite DEF AlertInv, OnceEach
    <2>7. OnceEach'
      BY <1>1, <1>4, <2>5, <2>6, SweepersWrite DEF AlertInv, OnceEach
    <2>8. Told'
      <3>1. CASE w \in This
        BY <2>2, <3>1 DEF Told
      <3>2. CASE w \notin This
        <4>1. unraised' = unraised /\ \A s \in This : pending'[s] = pending[s]
          BY <1>1, <1>3, <1>4, <3>2, SweepersWrite
        <4> QED
          BY <1>1, <2>2, <3>2, <4>1 DEF AlertInv, Told
      <3> QED
        BY <3>1, <3>2
    <2> QED
      BY <1>5, <1>6, <2>3, <2>7, <2>8 DEF AlertInv, Evident
  <1> QED
    BY <1>7, <1>8

\* The steps of operations that raise and close no alert, and leave the sweepers alone.
LEMMA WorkStep ==
  ASSUME AlertInv, UNCHANGED <<sweep, pending, alerts, evidence>>, unraised' \in BOOLEAN,
         status' = "degraded" => lastError' \notin Causes \/ UNCHANGED <<status, lastError>>,
         status' = "degraded" /\ ~unraised' => status = "degraded" /\ ~unraised
  PROVE  AlertInv'
  <1>1. Standing' = Standing
    BY AlertsRest
  <1>2. AlertTypes'
    BY DEF AlertInv, AlertTypes
  <1>3. OnceEach'
    BY <1>1, AlertsRest DEF AlertInv, OnceEach
  <1>4. Told'
    BY <1>1 DEF AlertInv, Told
  <1>5. Recorded'
    BY DEF AlertInv, Evident, Recorded, Health!Accepted
  <1>6. \A s \in This : Captured(s)'
    BY DEF AlertInv, Evident, Captured, Health!SnapshotNeeded, Health!Accepted
  <1> QED
    BY <1>2, <1>3, <1>4, <1>5, <1>6 DEF AlertInv, Evident

LEMMA OperationStep ==
  ASSUME AlertInv, NEW w \in Watchers, Health!Operation(w)
  PROVE  AlertInv'
  <1>0. unraised \in BOOLEAN
    BY DEF AlertInv, AlertTypes
  <1>1. ASSUME NEW kind \in Health!Kinds, NEW p \in This, Health!Submit(w, kind, p)
        PROVE  AlertInv'
    BY <1>0, <1>1, WorkStep DEF Health!Submit
  <1>2. ASSUME NEW outcome \in {"running", "destroyed"}, Health!Succeed(w, outcome)
        PROVE  AlertInv'
    BY <1>0, <1>2, WorkStep DEF Health!Succeed
  <1>3. ASSUME Health!Watched(w) PROVE AlertInv'
    <2>1. UNCHANGED <<status, lastError, sweep, pending, evidence, unraised>>
      BY <1>3 DEF Health!Watched
    <2>2. CASE UNCHANGED alerts
      BY <1>0, <2>1, <2>2, WorkStep
    <2>3. CASE alerts' = <<>> /\ status = "destroyed"
      <3>1. alerts' \in Seq(Rows) /\ Standing' = {}
        BY <2>3 DEF Standing
      <3>2. AlertTypes' /\ OnceEach'
        BY <2>1, <3>1 DEF AlertInv, AlertTypes, OnceEach
      <3>3. Told' /\ Recorded'
        BY <2>1, <2>3 DEF Told, Recorded
      <3>4. \A s \in This : Captured(s)'
        BY <2>1 DEF AlertInv, Evident, Captured, Health!SnapshotNeeded, Health!Accepted
      <3> QED
        BY <3>2, <3>3, <3>4 DEF AlertInv, Evident
    <2> QED
      BY <1>3, <2>2, <2>3 DEF Health!Watched
  <1>4. ASSUME Health!Fail(w) \/ Health!WatchedLost(w) PROVE AlertInv'
    BY <1>0, <1>4, WorkStep DEF Health!Fail, Health!WatchedLost
  <1>5. ASSUME Health!MarkFailed(w) PROVE AlertInv'
    BY <1>0, <1>5, WorkStep DEF Health!MarkFailed
  <1>6. ASSUME Health!RaiseFailure(w) PROVE AlertInv'
    <2>1. /\ UNCHANGED <<status, lastError, sweep, alerts, evidence, unraised>>
          /\ Health!AlertOpen(w, "task_failed", "task")
      BY <1>6 DEF Health!RaiseFailure
    <2>2. w \in Health!Writers /\ w \notin This
      BY PartsAssumption DEF Health!Writers, Health!CausesAssumption
    <2>3. /\ DOMAIN pending' = Health!Writers
          /\ \A u \in Health!Writers : u # w => pending'[u] = pending[u]
          /\ pending'[w] # None =>
               pending'[w] \in Health!Reports /\ pending'[w].kind = "task_failed"
      BY <2>1, <2>2, OpenIs
    <2>4. Standing' = Standing /\ \A s \in This : pending'[s] = pending[s]
      BY <2>1, <2>2, <2>3, SweepersWrite DEF Standing
    <2>5. AlertTypes'
      BY <2>1, <2>3 DEF AlertInv, AlertTypes
    <2>6. OnceEach'
      BY <2>1, <2>2, <2>3, <2>4 DEF AlertInv, OnceEach
    <2>7. Told'
      BY <2>1, <2>4 DEF AlertInv, Told
    <2>8. Recorded'
      BY <2>1 DEF AlertInv, Evident, Recorded, Health!Accepted
    <2>9. \A s \in This : Captured(s)'
      BY <2>1 DEF AlertInv, Evident, Captured, Health!SnapshotNeeded, Health!Accepted
    <2> QED
      BY <2>5, <2>6, <2>7, <2>8, <2>9 DEF AlertInv, Evident
  <1>7. ASSUME Health!SwitchDegrades(w) PROVE AlertInv'
    <2>1. "switch" \notin Causes
      BY PartsAssumption DEF Health!CausesAssumption
    <2> QED
      BY <1>0, <1>7, <2>1, WorkStep DEF Health!SwitchDegrades
  <1> QED
    BY <1>1, <1>2, <1>3, <1>4, <1>5, <1>6, <1>7 DEF Health!Operation

LEMMA HealthCrashStep ==
  ASSUME AlertInv, NEW p \in This, Health!Crash(p)
  PROVE  AlertInv'
  <1>1. /\ UNCHANGED <<lastError, alerts, evidence>> /\ sweep' = [sweep EXCEPT ![p] = Health!Idle]
        /\ DOMAIN pending' = Health!Writers
        /\ \A w \in Health!Writers : pending'[w] \in {None, pending[w]}
        /\ status' \in {status, "failed"}
        /\ unraised' = (unraised \/ sweep[p].pc = "raising" \/ pending[p] # None)
    BY DEF Health!Crash
  <1>2. \A x \in This : x # p => pending'[x] = pending[x]
    <2>1. \A x \in This : x \notin Watchers
      BY PartsAssumption DEF Health!CausesAssumption
    <2> QED
      BY <2>1 DEF Health!Crash, Health!Writers
  <1>3. /\ DOMAIN sweep' = This /\ sweep'[p].pc = "idle" /\ CopyTypes(sweep'[p])
        /\ \A x \in This : x # p => sweep'[x] = sweep[x]
    BY <1>1, IdleIs DEF AlertInv, AlertTypes
  <1>4. Standing' = Standing
    BY <1>1 DEF Standing
  <1>5. AlertTypes'
    BY <1>1, <1>3 DEF AlertInv, AlertTypes
  <1>6. OnceEach'
    BY <1>1, <1>2, <1>3, <1>4, SweepersWrite DEF AlertInv, OnceEach
  <1>7. Told'
    BY <1>1, <1>2, <1>3, <1>4 DEF AlertInv, AlertTypes, Told
  <1>8. Recorded'
    BY <1>1 DEF AlertInv, Evident, Recorded, Health!Accepted
  <1>9. \A s \in This : Captured(s)'
    BY <1>1, <1>3 DEF AlertInv, Evident, Captured, Health!SnapshotNeeded, Health!Accepted
  <1> QED
    BY <1>5, <1>6, <1>7, <1>8, <1>9 DEF AlertInv, Evident

LEMMA HealthInit == part = "health" /\ Init => AlertInv
  <1> SUFFICES ASSUME Health!Init PROVE AlertInv
    BY DEF Init
  <1>1. alerts = <<>> /\ Standing = {} /\ alerts \in Seq(Rows)
    BY DEF Health!Init, Standing
  <1>2. DOMAIN sweep = This /\ \A s \in This : sweep[s].pc = "idle" /\ CopyTypes(sweep[s])
    BY IdleIs DEF Health!Init
  <1>3. /\ DOMAIN pending = Health!Writers /\ \A w \in Health!Writers : pending[w] = None
        /\ status = "running" /\ unraised = FALSE
    BY DEF Health!Init
  <1>4. AlertTypes /\ OnceEach
    BY <1>1, <1>2, <1>3, SweepersWrite DEF AlertTypes, OnceEach
  <1>5. Told /\ Evident
    BY <1>2, <1>3 DEF Told, Evident, Recorded, Captured
  <1> QED
    BY <1>4, <1>5 DEF AlertInv

LEMMA HealthKept ==
  ASSUME AlertInv, [Health!Next]_(Health!vars)
  PROVE  AlertInv'
  <1>0. unraised \in BOOLEAN
    BY DEF AlertInv, AlertTypes
  <1>1. CASE UNCHANGED Health!vars
    BY <1>0, <1>1, WorkStep DEF Health!vars
  <1>2. ASSUME NEW s \in This, Health!Sweeper(s) PROVE AlertInv'
    BY <1>2, ScanStep, ProbeStep, CaptureStep, DegradeStep, RaiseStep, RecoverStep, ResolveStep
       DEF Health!Sweeper
  <1> QED
    BY <1>1, <1>2, InsertStep, AcknowledgeStep, CloseStep, OperationStep, HealthCrashStep
       DEF Health!Next

\* Once the sweepers rest a degradation they found has a live alert, at any time its cause
\* has evidence, and no controller ever has two live alerts of an instance's health, for
\* any number of controllers, operations, causes, alerts and crashes, whichever causes the
\* database refuses and whatever people do with the alerts (sweep_once, alert_open,
\* alert_action).
THEOREM AlertsAreTrue == Spec => []AlertsTellHealth
  <1> DEFINE Inv == part = "health" => AlertInv
  <1>1. Init => Inv
    BY HealthInit
  <1>2. Inv /\ [Next]_vars => Inv'
    BY HealthKept, PartStep
  <1>3. Inv => AlertsTellHealth
    <2>1. ASSUME AlertInv PROVE Health!DegradedIsOnRecord
      BY <2>1, RaisedIs DEF AlertInv, Told, Evident, Recorded, Health!AtRest,
                            Health!DegradedIsOnRecord
    <2>2. ASSUME AlertInv PROVE Health!OneAlertEach
      BY <2>2 DEF AlertInv, OnceEach, Standing, Health!LiveHealth, Health!OneAlertEach
    <2> QED
      BY <2>1, <2>2 DEF AlertsTellHealth
  <1> QED
    BY <1>1, <1>2, <1>3, PTL DEF Spec
=============================================================================
