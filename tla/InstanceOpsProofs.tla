-------------------------- MODULE InstanceOpsProofs --------------------------
(***************************************************************************)
(* For any controllers, requests and settings: a controller that works alone *)
(* never shows an instance as creating, scaling, switching or destroying     *)
(* with nobody at work on it.                                                *)
(*                                                                          *)
(* The operation lock is no part of the argument, and could not be: the      *)
(* controller that holds the lease is granted it again, so that two requests *)
(* which both looked before either acquired work side by side.  What counts  *)
(* is that whoever writes a passing status has a task, that a task's last    *)
(* write is a settled status, that a failed one is watched until then, and   *)
(* that what is loaded after a restart is settled.                           *)
(***************************************************************************)
EXTENDS InstanceOps, SequenceTheorems, TLAPS

NodeRecords == [box : Nat, offline : BOOLEAN]

Positions ==
  Steps \cup {"free", "lock", "acquire", "write", "last", "won", "lost", "mark"}
Jobs == [pc : Positions, at : Up \cup {None}, op : Ops, seen : Records, watched : BOOLEAN]
Looks == [pc : {"visit", "probe", "judge"}, seen : OpRecord, bad : BOOLEAN]

\* A request that is under way has a controller and, once it needs one, the record
\* it checked; in a controller alone it is watched.
SoundJob(j) ==
  /\ j \in Jobs
  /\ j.pc # "free" =>
       /\ j.at \in Up
       /\ j.op # "create" \/ j.pc \notin {"lock", "acquire", "write"} => j.seen # None
       /\ ~Cluster => j.watched

RecordsInv ==
  /\ setting \in Settings
  /\ view \in [Replicas -> Records] /\ sink \in Records

JobsInv == DOMAIN req = Requests /\ \A q \in Requests : SoundJob(req[q])

SweepInv ==
  /\ DOMAIN sweep = Replicas
  /\ \A r \in Replicas : sweep[r] # None => sweep[r] \in Looks /\ r \in Up

RestInv ==
  /\ locked \subseteq Up /\ lease \in Up \cup {None}
  /\ boxes \subseteq Nat /\ ill \in {"well", "slave", "master"}


-----------------------------------------------------------------------------
(* The records. *)

LEMMA RecordsAre ==
  /\ Records = OpRecord \cup {None}
  /\ OpRecord = [status : Busy \cup Settled, on : BOOLEAN, states : {"none", "ok", "bad"},
                 nodes : Seq(NodeRecords)]
  BY DEF Records, OpRecord, NodeRecords

LEMMA SettingIs ==
  ASSUME setting \in Settings
  PROVE  Up \subseteq Replicas /\ Cluster \in BOOLEAN /\ setting.slaves \in Nat
  BY SettingsAssumption DEF Up, Cluster

\* What an operation changes in a record leaves it one.
LEMMA StatusWritten ==
  ASSUME NEW rec \in OpRecord, NEW status \in Busy \cup Settled
  PROVE  /\ [rec EXCEPT !.status = status] \in OpRecord
         /\ [rec EXCEPT !.status = status].status = status
  BY DEF OpRecord

LEMMA StatesWritten ==
  ASSUME NEW rec \in OpRecord, NEW states \in {"none", "ok", "bad"}
  PROVE  /\ [rec EXCEPT !.states = states] \in OpRecord
         /\ [rec EXCEPT !.states = states].status = rec.status
  BY DEF OpRecord

LEMMA SwitchedOnOff ==
  ASSUME NEW rec \in OpRecord
  PROVE  /\ [rec EXCEPT !.on = ~@] \in OpRecord
         /\ [rec EXCEPT !.on = ~@].status = rec.status
  BY DEF OpRecord

LEMMA NodeAdded ==
  ASSUME NEW rec \in OpRecord, NEW node \in NodeRecords
  PROVE  /\ [rec EXCEPT !.nodes = Append(@, node)] \in OpRecord
         /\ [rec EXCEPT !.nodes = Append(@, node)].status = rec.status
  <1>1. Append(rec.nodes, node) \in Seq(NodeRecords)
    BY AppendProperties DEF OpRecord, NodeRecords
  <1> QED
    BY <1>1 DEF OpRecord, NodeRecords

LEMMA NewRecordIs ==
  ASSUME setting \in Settings
  PROVE  NewRecord \in OpRecord /\ NewRecord.status = "creating"
  <1>1. setting.slaves + 1 \in Nat
    BY SettingIs
  <1>2. \A i \in 1 .. setting.slaves + 1 : [box |-> i - 1, offline |-> FALSE] \in NodeRecords
    BY <1>1, SMT DEF NodeRecords
  <1>3. [i \in 1 .. setting.slaves + 1 |-> [box |-> i - 1, offline |-> FALSE]]
          \in [1 .. setting.slaves + 1 -> NodeRecords]
    BY <1>2
  <1>4. [1 .. setting.slaves + 1 -> NodeRecords] \subseteq Seq(NodeRecords)
    BY <1>1, SeqDef
  <1> QED
    BY <1>3, <1>4 DEF NewRecord, OpRecord, NodeRecords, Busy

\* The containers of a record and the next one are numbers.
LEMMA BoxesAreNumbers ==
  ASSUME NEW rec \in OpRecord
  PROVE  BoxesOf(rec) \subseteq Nat /\ NextBox(rec) \in Nat
  <1>1. rec.nodes \in Seq(NodeRecords)
    BY DEF OpRecord, NodeRecords
  <1>2. \A i \in DOMAIN rec.nodes : rec.nodes[i] \in NodeRecords
    BY <1>1, ElementOfSeq, LenProperties
  <1> QED
    BY <1>1, <1>2, LenProperties DEF BoxesOf, NextBox, Range, NodeRecords

\* What write puts in a controller's record, and in the sink.
LEMMA WriteStep ==
  ASSUME RecordsInv, UNCHANGED setting,
         NEW r \in Replicas, NEW rec \in Records, Write(r, rec)
  PROVE  RecordsInv' /\ view' = [view EXCEPT ![r] = rec]
  BY DEF RecordsInv, Write, Persist

\* A status is written where there is a record.
LEMMA SetStatusStep ==
  ASSUME RecordsInv, UNCHANGED setting,
         NEW r \in Replicas, NEW status \in Busy \cup Settled, SetStatus(r, status)
  PROVE  /\ RecordsInv'
         /\ \E rec \in Records :
              /\ view' = [view EXCEPT ![r] = rec]
              /\ rec # None => rec.status = status
  <1>1. CASE view[r] = None
    <2>1. Write(r, None) /\ None \in Records
      BY <1>1, RecordsAre DEF SetStatus
    <2> QED
      BY <2>1, WriteStep
  <1>2. CASE view[r] # None
    <2> DEFINE rec == [view[r] EXCEPT !.status = status]
    <2>1. view[r] \in OpRecord
      BY <1>2, RecordsAre DEF RecordsInv
    <2>2. rec \in Records /\ rec.status = status
      BY <2>1, StatusWritten, RecordsAre
    <2>3. Write(r, rec)
      BY <1>2 DEF SetStatus
    <2> HIDE DEF rec
    <2> QED
      BY <2>2, <2>3, WriteStep
  <1> QED
    BY <1>1, <1>2

-----------------------------------------------------------------------------
(* What a step leaves of the invariants. *)

IsBusy(rec) == rec # None /\ rec.status \in Busy

LEMMA BusyAgain ==
  BusyHasWorker <=>
    \A r \in Up : ~Cluster /\ IsBusy(view[r]) => \E q \in Requests : WorksOn(q, r)
  BY DEF BusyHasWorker, IsBusy

\* A passing status that a step leaves keeps its worker, unless the step brings one.
LEMMA BusyStep ==
  ASSUME BusyHasWorker, UNCHANGED setting,
         \A r \in Up : ~Cluster /\ IsBusy(view'[r]) =>
           \/ \E q \in Requests : WorksOn(q, r)'
           \/ /\ IsBusy(view[r])
              /\ \A q \in Requests : WorksOn(q, r) => WorksOn(q, r)'
  PROVE  BusyHasWorker'
  BY DEF BusyHasWorker, IsBusy, Up, Cluster

LEMMA SoundStays ==
  ASSUME UNCHANGED setting, NEW j, SoundJob(j)
  PROVE  SoundJob(j)'
  BY DEF SoundJob, Jobs, Up, Cluster

LEMMA JobsStay ==
  ASSUME JobsInv, UNCHANGED setting, NEW q \in Requests, NEW j, SoundJob(j),
         req' = [req EXCEPT ![q] = j]
  PROVE  JobsInv'
  <1>1. SoundJob(j)'
    BY SoundStays
  <1>2. \A p \in Requests : p # q => req'[p] = req[p] /\ SoundJob(req[p])'
    BY SoundStays DEF JobsInv
  <1> QED
    BY <1>1, <1>2 DEF JobsInv

Working == Steps \cup {"last", "lost", "mark"}

\* A request goes on, and the records stay: who worked goes on working.
LEMMA JobStep ==
  ASSUME RecordsInv, JobsInv, BusyHasWorker, UNCHANGED <<setting, record>>,
         NEW q \in Requests, NEW j, SoundJob(j), req' = [req EXCEPT ![q] = j],
         ~Cluster /\ req[q].op \in Lifecycle /\ req[q].pc \in Working =>
           j.at = req[q].at /\ j.op = req[q].op /\ j.pc \in Working
  PROVE  RecordsInv' /\ JobsInv' /\ BusyHasWorker'
  <1>1. RecordsInv'
    BY DEF RecordsInv, record
  <1>2. JobsInv'
    BY JobsStay
  <1>3. ASSUME NEW r \in Up, ~Cluster, NEW p \in Requests, WorksOn(p, r)
        PROVE  WorksOn(p, r)'
    BY <1>3 DEF WorksOn, Working, JobsInv
  <1>4. BusyHasWorker'
    BY <1>3, BusyStep DEF record
  <1> QED
    BY <1>1, <1>2, <1>4

\* A record is written and the requests stay: the status is settled or as it was.
LEMMA WritingStep ==
  ASSUME RecordsInv, JobsInv, BusyHasWorker, UNCHANGED <<setting, req>>,
         NEW r \in Replicas, NEW rec \in Records, view' = [view EXCEPT ![r] = rec],
         IsBusy(rec) => IsBusy(view[r])
  PROVE  JobsInv' /\ BusyHasWorker'
  <1>1. JobsInv'
    BY SoundStays DEF JobsInv
  <1>2. \A o \in Up : IsBusy(view'[o]) => IsBusy(view[o])
    BY SettingIs DEF RecordsInv
  <1>3. \A o \in Up, q \in Requests : WorksOn(q, o) => WorksOn(q, o)'
    BY DEF WorksOn
  <1> QED
    BY <1>1, <1>2, <1>3, BusyStep

\* A request goes on and its controller's record is settled.
LEMMA SettlingStep ==
  ASSUME RecordsInv, JobsInv, BusyHasWorker, UNCHANGED setting,
         NEW q \in Requests, NEW j, SoundJob(j), req' = [req EXCEPT ![q] = j],
         req[q].pc # "free",
         NEW rec \in Records, view' = [view EXCEPT ![req[q].at] = rec], ~IsBusy(rec)
  PROVE  JobsInv' /\ BusyHasWorker'
  <1>1. JobsInv'
    BY JobsStay
  <1>2. req[q].at \in Up /\ Up \subseteq Replicas
    BY SettingIs DEF JobsInv, SoundJob, RecordsInv
  <1>3. ASSUME NEW o \in Up, IsBusy(view'[o])
        PROVE  /\ o # req[q].at /\ IsBusy(view[o])
               /\ \A p \in Requests : WorksOn(p, o) => WorksOn(p, o)'
    <2>1. o # req[q].at /\ view'[o] = view[o]
      BY <1>2, <1>3 DEF RecordsInv
    <2>2. \A p \in Requests : WorksOn(p, o) => p # q
      BY <2>1 DEF WorksOn
    <2>3. \A p \in Requests : p # q => req'[p] = req[p]
      BY DEF JobsInv
    <2> QED
      BY <1>3, <2>1, <2>2, <2>3 DEF WorksOn
  <1>4. BusyHasWorker'
    BY <1>3, BusyStep
  <1> QED
    BY <1>1, <1>4

-----------------------------------------------------------------------------
(* Jobs. *)

Early == {"lock", "acquire", "write"}

LEMMA FreeIsSound == SoundJob(Free)
  BY DEF SoundJob, Free, Jobs, Positions, Ops, Records

LEMMA JobIs ==
  ASSUME RecordsInv, JobsInv, NEW q \in Requests
  PROVE  /\ req[q] \in Jobs
         /\ req[q].pc # "free" => req[q].at \in Up /\ req[q].at \in Replicas
         /\ req[q].pc \notin Early \cup {"free"} => req[q].seen \in OpRecord
         /\ req[q].pc # "free" /\ req[q].op # "create" => req[q].seen \in OpRecord
         /\ ~Cluster /\ req[q].pc # "free" => req[q].watched
  <1>1. req[q] \in Jobs /\ SoundJob(req[q])
    BY DEF JobsInv, SoundJob
  <1>2. req[q].seen \in Records
    BY <1>1 DEF Jobs
  <1>3. Up \subseteq Replicas
    BY SettingIs DEF RecordsInv
  <1> QED
    BY <1>1, <1>2, <1>3, RecordsAre DEF SoundJob, Early

\* A request that goes on to its next position.
LEMMA PcMoves ==
  ASSUME JobsInv, NEW q \in Requests, NEW pc \in Positions,
         req[q].pc # "free", pc \in Early \/ req[q].pc \notin Early, Go(q, pc)
  PROVE  \E j : /\ SoundJob(j) /\ req' = [req EXCEPT ![q] = j]
                /\ j.at = req[q].at /\ j.op = req[q].op /\ j.pc = pc
  <1> DEFINE j == [req[q] EXCEPT !.pc = pc]
  <1>1. SoundJob(req[q])
    BY DEF JobsInv
  <1>2. /\ j \in Jobs /\ j.at = req[q].at /\ j.op = req[q].op /\ j.pc = pc
        /\ j.seen = req[q].seen /\ j.watched = req[q].watched
    BY <1>1 DEF SoundJob, Jobs
  <1>3. SoundJob(j)
    BY <1>1, <1>2 DEF SoundJob, Early
  <1>4. req' = [req EXCEPT ![q] = j]
    BY DEF Go
  <1> QED
    BY <1>2, <1>3, <1>4

\* A step of a job which moves on to where it still works, and writes no record.
LEMMA WorkGoesOn ==
  ASSUME RecordsInv, JobsInv, BusyHasWorker, UNCHANGED <<setting, record>>,
         NEW q \in Requests, NEW pc \in Positions,
         req[q].pc # "free", pc \in Early \/ req[q].pc \notin Early, Go(q, pc),
         req[q].op \in Lifecycle /\ req[q].pc \in Working => pc \in Working
  PROVE  RecordsInv' /\ JobsInv' /\ BusyHasWorker'
  <1>1. PICK j : /\ SoundJob(j) /\ req' = [req EXCEPT ![q] = j]
                 /\ j.at = req[q].at /\ j.op = req[q].op /\ j.pc = pc
    BY PcMoves
  <1> QED
    BY <1>1, JobStep

\* A job which is over, or never got to work.
LEMMA JobEnds ==
  ASSUME RecordsInv, JobsInv, BusyHasWorker, UNCHANGED <<setting, record>>,
         NEW q \in Requests, req' = [req EXCEPT ![q] = Free],
         ~Cluster => ~(req[q].op \in Lifecycle /\ req[q].pc \in Working)
  PROVE  RecordsInv' /\ JobsInv' /\ BusyHasWorker'
  BY FreeIsSound, JobStep

-----------------------------------------------------------------------------
(* One lemma for each action that moves a request. *)

Core == RecordsInv /\ JobsInv /\ BusyHasWorker

LEMMA AskStep ==
  ASSUME Core, NEW q \in Requests, NEW r \in Replicas, NEW op \in Ops, Ask(q, r, op)
  PROVE  Core'
  <1> DEFINE j == [pc |-> "lock", at |-> r, op |-> op, seen |-> view[r], watched |-> TRUE]
  <1>1. r \in Up /\ view[r] \in Records /\ (op # "create" => view[r] # None)
    BY DEF Core, RecordsInv, Ask, Allowed, Ops, Lifecycle
  <1>2. SoundJob(j)
    BY <1>1 DEF SoundJob, Jobs, Positions
  <1>3. req' = [req EXCEPT ![q] = j] /\ UNCHANGED <<setting, record>> /\ req[q].pc = "free"
    BY DEF Ask
  <1> HIDE DEF j
  <1> QED
    BY <1>2, <1>3, JobStep DEF Core, Working, Steps

LEMMA LookStep ==
  ASSUME Core, NEW q \in Requests, Look(q)
  PROVE  Core'
  <1>1. UNCHANGED <<setting, record>> /\ req[q].pc = "lock"
    BY DEF Look
  <1>2. CASE req' = [req EXCEPT ![q] = Free]
    BY <1>1, <1>2, JobEnds DEF Core, Working, Steps
  <1>3. CASE Go(q, "acquire")
    BY <1>1, <1>3, WorkGoesOn DEF Core, Working, Steps, Early, Positions
  <1> QED
    BY <1>2, <1>3 DEF Look

LEMMA AcquireStep ==
  ASSUME Core, NEW q \in Requests, Acquire(q)
  PROVE  Core'
  <1>1. UNCHANGED <<setting, record>> /\ req[q].pc = "acquire"
    BY DEF Acquire
  <1>2. CASE req' = [req EXCEPT ![q] = Free]
    BY <1>1, <1>2, JobEnds DEF Core, Working, Steps
  <1>3. CASE Go(q, "write")
    BY <1>1, <1>3, WorkGoesOn DEF Core, Working, Steps, Early, Positions
  <1> QED
    BY <1>2, <1>3 DEF Acquire

LEMMA RejectStep ==
  ASSUME Core, NEW q \in Requests, Reject(q)
  PROVE  Core'
  BY JobEnds DEF Core, Reject, Working, Steps

LEMMA MakeStep ==
  ASSUME Core, NEW q \in Requests, Make(q)
  PROVE  Core'
  <1>1. UNCHANGED <<setting, record>> /\ req[q].pc = "make"
    BY DEF Make
  <1>2. Go(q, "lost") \/ Go(q, "verify")
    BY DEF Make
  <1> QED
    BY <1>1, <1>2, WorkGoesOn DEF Core, Working, Steps, Early, Positions

LEMMA RemoveStep ==
  ASSUME Core, NEW q \in Requests, Remove(q) \/ RemoveNetwork(q)
  PROVE  Core'
  <1>1. UNCHANGED <<setting, record>> /\ req[q].pc \in {"remove", "network"}
    BY DEF Remove, RemoveNetwork
  <1>2. \E pc \in {"network", "last", "lost"} : Go(q, pc)
    BY DEF Remove, RemoveNetwork
  <1> QED
    BY <1>1, <1>2, WorkGoesOn DEF Core, Working, Steps, Early, Positions

LEMMA WorkStep ==
  ASSUME Core, NEW q \in Requests, Work(q)
  PROVE  Core'
  <1>1. UNCHANGED <<setting, record>> /\ req[q].pc = "work"
    BY DEF Work
  <1>2. CASE req[q].op = "switch"
    <2>1. Go(q, "last")
      BY <1>2 DEF Work
    <2> QED
      BY <1>1, <2>1, WorkGoesOn DEF Core, Working, Steps, Early, Positions
  <1>3. CASE req[q].op = "backup"
    <2>1. Go(q, "won") /\ req[q].op \notin Lifecycle
      BY <1>3 DEF Work, Lifecycle
    <2> QED
      BY <1>1, <2>1, WorkGoesOn DEF Core, Working, Steps, Early, Positions
  <1> QED
    BY <1>2, <1>3 DEF Work

LEMMA FailStep ==
  ASSUME Core, NEW q \in Requests, Fail(q)
  PROVE  Core'
  <1>1. UNCHANGED <<setting, record>> /\ req[q].pc \in Steps /\ Go(q, "lost")
    BY DEF Fail
  <1> QED
    BY <1>1, WorkGoesOn DEF Core, Working, Steps, Early, Positions

LEMMA WatchWonStep ==
  ASSUME Core, NEW q \in Requests, WatchWon(q)
  PROVE  Core'
  BY JobEnds DEF Core, WatchWon, Working, Steps

\* Only a task that a restart in a cluster took over is not watched.
LEMMA WatchLostStep ==
  ASSUME Core, NEW q \in Requests, WatchLost(q)
  PROVE  Core'
  <1>1. UNCHANGED <<setting, record>> /\ req[q].pc = "lost"
    BY DEF WatchLost
  <1>2. ~Cluster => req[q].watched
    BY <1>1, JobIs DEF Core
  <1>3. CASE req[q].watched /\ req[q].op \in Lifecycle
    <2>1. Go(q, "mark")
      BY <1>3 DEF WatchLost
    <2> QED
      BY <1>1, <2>1, WorkGoesOn DEF Core, Working, Steps, Early, Positions
  <1>4. CASE ~(req[q].watched /\ req[q].op \in Lifecycle)
    <2>1. req' = [req EXCEPT ![q] = Free]
      BY <1>4 DEF WatchLost
    <2> QED
      BY <1>1, <1>2, <1>4, <2>1, JobEnds DEF Core
  <1> QED
    BY <1>3, <1>4

-----------------------------------------------------------------------------
(* Actions of a request that write a record. *)

\* The job goes on, and the status of the record is as it was or settled.
LEMMA CarryingStep ==
  ASSUME RecordsInv, JobsInv, BusyHasWorker, UNCHANGED setting,
         NEW q \in Requests, NEW j, SoundJob(j), req' = [req EXCEPT ![q] = j],
         req[q].op \in Lifecycle /\ req[q].pc \in Working =>
           j.at = req[q].at /\ j.op = req[q].op /\ j.pc \in Working,
         NEW r \in Replicas, NEW rec \in Records, view' = [view EXCEPT ![r] = rec],
         IsBusy(rec) => IsBusy(view[r])
  PROVE  JobsInv' /\ BusyHasWorker'
  <1>1. JobsInv'
    BY JobsStay
  <1>2. \A o \in Up : IsBusy(view'[o]) => IsBusy(view[o])
    BY SettingIs DEF RecordsInv
  <1>3. ASSUME NEW o \in Up, NEW p \in Requests, WorksOn(p, o)
        PROVE  WorksOn(p, o)'
    BY <1>3 DEF WorksOn, Working, JobsInv
  <1> QED
    BY <1>1, <1>2, <1>3, BusyStep

\* Whoever writes a passing status has a task.
LEMMA StartingStep ==
  ASSUME RecordsInv, JobsInv, BusyHasWorker, UNCHANGED setting,
         NEW q \in Requests, NEW j, SoundJob(j), req' = [req EXCEPT ![q] = j],
         req[q].pc \notin Working, j.op \in Lifecycle, j.pc \in Working,
         NEW rec \in Records, view' = [view EXCEPT ![j.at] = rec]
  PROVE  JobsInv' /\ BusyHasWorker'
  <1>1. JobsInv'
    BY JobsStay
  <1>2. WorksOn(q, j.at)'
    BY DEF WorksOn, Working, JobsInv
  <1>3. \A o \in Up : o # j.at => view'[o] = view[o]
    BY SettingIs DEF RecordsInv
  <1>4. ASSUME NEW o \in Up, NEW p \in Requests, WorksOn(p, o)
        PROVE  WorksOn(p, o)'
    BY <1>4 DEF WorksOn, Working, JobsInv
  <1> QED
    BY <1>1, <1>2, <1>3, <1>4, BusyStep

LEMMA RecordStep ==
  ASSUME Core, NEW q \in Requests, Record(q)
  PROVE  Core'
  <1> DEFINE op == req[q].op
             r == req[q].at
             seen == req[q].seen
             kept == IF op = "create" THEN NewRecord ELSE seen
             j == [req[q] EXCEPT !.pc = FirstStep[op], !.seen = kept]
  <1>1. /\ UNCHANGED setting /\ req[q].pc = "write"
        /\ req' = [req EXCEPT ![q] = j]
    BY DEF Record
  <1>2. op \in Ops /\ r \in Replicas /\ r \in Up /\ (op # "create" => seen \in OpRecord)
    BY <1>1, JobIs DEF Core, Jobs
  <1>3. kept \in OpRecord
    BY <1>2, NewRecordIs DEF Core, RecordsInv
  <1>4. FirstStep[op] \in Steps
    BY <1>2, Zenon DEF FirstStep, Ops, Lifecycle, Steps
  <1>5. /\ j \in Jobs /\ j.pc = FirstStep[op] /\ j.at = r /\ j.op = op /\ j.seen = kept
        /\ j.watched = req[q].watched
    BY <1>1, <1>3, <1>4, JobIs, RecordsAre DEF Core, Jobs, Positions
  <1>6. SoundJob(j)
    <2>1. kept # None
      <3> HIDE DEF kept
      <3> QED
        BY <1>3, NoneAssumption
    <2> QED
      BY <1>1, <1>2, <1>5, <2>1, JobIs DEF Core, SoundJob
  <1>7. ASSUME op \in Lifecycle, NEW rec \in Records, Write(r, rec)
        PROVE  Core'
    <2>1. RecordsInv' /\ view' = [view EXCEPT ![r] = rec]
      BY <1>1, <1>2, <1>7, WriteStep DEF Core
    <2> HIDE DEF j, op, r
    <2>2. JobsInv' /\ BusyHasWorker'
      BY <1>1, <1>4, <1>5, <1>6, <1>7, <2>1, StartingStep DEF Core, Working, Steps
    <2> QED
      BY <2>1, <2>2 DEF Core
  <1>8. CASE op = "create"
    <2>1. Write(r, NewRecord) /\ NewRecord \in Records /\ op \in Lifecycle
      BY <1>8, NewRecordIs, RecordsAre DEF Record, Lifecycle, Core, RecordsInv
    <2> QED
      BY <2>1, <1>7
  <1>9. CASE op \in {"destroy", "read", "offline"}
    <2>1. \E status \in Busy : Write(r, [seen EXCEPT !.status = status])
      BY <1>9 DEF Record, Busy
    <2>2. op \in Lifecycle
      BY <1>9 DEF Lifecycle
    <2>3. \A status \in Busy : [seen EXCEPT !.status = status] \in Records
      BY <1>2, <1>9, StatusWritten, RecordsAre
    <2> QED
      BY <1>7, <2>1, <2>2, <2>3
  <1>10. CASE op = "switch"
    <2>1. SetStatus(r, "switching") /\ op \in Lifecycle /\ "switching" \in Busy
      BY <1>10 DEF Record, Lifecycle, Busy
    <2>2. PICK rec \in Records : view' = [view EXCEPT ![r] = rec]
      BY <1>1, <1>2, <2>1, SetStatusStep DEF Core
    <2>3. RecordsInv'
      BY <1>1, <1>2, <2>1, SetStatusStep DEF Core
    <2> HIDE DEF j, op, r
    <2>4. JobsInv' /\ BusyHasWorker'
      BY <1>1, <1>4, <1>5, <1>6, <2>1, <2>2, StartingStep DEF Core, Working, Steps
    <2> QED
      BY <2>3, <2>4 DEF Core
  <1>11. CASE op \in {"backup", "reparent", "rollback"}
    <2>1. UNCHANGED record
      BY <1>11 DEF Record
    <2> HIDE DEF j
    <2> QED
      BY <1>1, <1>6, <2>1, JobStep DEF Core, Working, Steps
  <1> QED
    BY <1>2, <1>8, <1>9, <1>10, <1>11 DEF Ops, Lifecycle

LEMMA VerifyStep ==
  ASSUME Core, NEW q \in Requests, Verify(q)
  PROVE  Core'
  <1> DEFINE r == req[q].at
             node == [box |-> NextBox(req[q].seen), offline |-> req[q].op = "offline"]
             rec == [view[r] EXCEPT !.nodes = Append(@, node)]
  <1>1. UNCHANGED setting /\ req[q].pc = "verify" /\ Go(q, "last")
    BY DEF Verify
  <1>2. r \in Replicas /\ req[q].seen \in OpRecord
    BY <1>1, JobIs DEF Core, Early
  <1>3. CASE UNCHANGED record
    BY <1>1, <1>3, WorkGoesOn DEF Core, Working, Steps, Early, Positions
  <1>4. CASE view[r] # None /\ Write(r, rec)
    <2>1. node \in NodeRecords
      BY <1>2, BoxesAreNumbers DEF NodeRecords
    <2>2. view[r] \in OpRecord
      BY <1>2, <1>4, RecordsAre DEF Core, RecordsInv
    <2> HIDE DEF node
    <2>3. rec \in OpRecord /\ rec.status = view[r].status
      BY <2>1, <2>2, NodeAdded
    <2>4. rec \in Records /\ (IsBusy(rec) => IsBusy(view[r]))
      BY <1>4, <2>3, RecordsAre DEF IsBusy
    <2> HIDE DEF rec
    <2>5. RecordsInv' /\ view' = [view EXCEPT ![r] = rec]
      BY <1>1, <1>2, <1>4, <2>4, WriteStep DEF Core
    <2>6. PICK j : /\ SoundJob(j) /\ req' = [req EXCEPT ![q] = j]
                   /\ j.at = req[q].at /\ j.op = req[q].op /\ j.pc = "last"
      BY <1>1, PcMoves DEF Core, Early, Positions
    <2> HIDE DEF r
    <2>7. JobsInv' /\ BusyHasWorker'
      BY <1>1, <1>2, <2>4, <2>5, <2>6, CarryingStep DEF Core, Working
    <2> QED
      BY <2>5, <2>7 DEF Core
  <1> QED
    BY <1>3, <1>4 DEF Verify

\* The controller's record is settled, by the last step of a task, by its watcher or by a
\* reparent that failed.
LEMMA Settles ==
  ASSUME Core, UNCHANGED setting, NEW q \in Requests, NEW status \in Settled,
         req[q].pc # "free", SetStatus(req[q].at, status),
         NEW j, SoundJob(j), req' = [req EXCEPT ![q] = j]
  PROVE  Core'
  <1>1. req[q].at \in Replicas
    BY JobIs DEF Core
  <1>2. RecordsInv'
    BY <1>1, SetStatusStep DEF Core
  <1>3. PICK rec \in Records : /\ view' = [view EXCEPT ![req[q].at] = rec]
                               /\ rec # None => rec.status = status
    BY <1>1, SetStatusStep DEF Core
  <1>4. ~IsBusy(rec)
    BY <1>3 DEF IsBusy, Busy, Settled
  <1>5. JobsInv' /\ BusyHasWorker'
    BY <1>3, <1>4, SettlingStep DEF Core
  <1> QED
    BY <1>2, <1>5 DEF Core

LEMMA FinishStep ==
  ASSUME Core, NEW q \in Requests, Finish(q)
  PROVE  Core'
  <1>1. UNCHANGED setting /\ req[q].pc = "last" /\ Go(q, "won")
    BY DEF Finish
  <1>2. PICK status \in Settled : SetStatus(req[q].at, status)
    BY DEF Finish, Settled
  <1>3. PICK j : SoundJob(j) /\ req' = [req EXCEPT ![q] = j]
    BY <1>1, PcMoves DEF Core, Early, Positions
  <1> QED
    BY <1>1, <1>2, <1>3, Settles

LEMMA ReparentFailsStep ==
  ASSUME Core, NEW q \in Requests, ReparentFails(q)
  PROVE  Core'
  <1>1. UNCHANGED setting /\ req[q].pc = "work" /\ Go(q, "won")
    BY DEF ReparentFails
  <1>2. SetStatus(req[q].at, "degraded") /\ "degraded" \in Settled
    BY DEF ReparentFails, Settled
  <1>3. PICK j : SoundJob(j) /\ req' = [req EXCEPT ![q] = j]
    BY <1>1, PcMoves DEF Core, Early, Positions
  <1> QED
    BY <1>1, <1>2, <1>3, Settles

LEMMA ReparentStep ==
  ASSUME Core, NEW q \in Requests, Reparent(q)
  PROVE  Core'
  <1> DEFINE r == req[q].at
  <1>1. /\ UNCHANGED setting /\ req[q].pc = "work" /\ Go(q, "won") /\ Write(r, view[r])
        /\ req[q].op \notin Lifecycle
    BY DEF Reparent, Lifecycle
  <1>2. r \in Replicas /\ view[r] \in Records
    BY <1>1, JobIs DEF Core, RecordsInv
  <1>3. RecordsInv' /\ view' = [view EXCEPT ![r] = view[r]]
    BY <1>1, <1>2, WriteStep DEF Core
  <1>4. PICK j : SoundJob(j) /\ req' = [req EXCEPT ![q] = j]
    BY <1>1, PcMoves DEF Core, Early, Positions
  <1> HIDE DEF r
  <1>5. JobsInv' /\ BusyHasWorker'
    BY <1>1, <1>2, <1>3, <1>4, CarryingStep DEF Core
  <1> QED
    BY <1>3, <1>5 DEF Core

\* A record that is gone or destroyed stays; any other one has failed.
LEMMA MarkFailedStep ==
  ASSUME Core, NEW q \in Requests, MarkFailed(q)
  PROVE  Core'
  <1> DEFINE r == req[q].at
  <1>1. UNCHANGED setting /\ req[q].pc = "mark" /\ req' = [req EXCEPT ![q] = Free]
    BY DEF MarkFailed
  <1>2. CASE view[r] # None /\ view[r].status # "destroyed"
    <2>1. SetStatus(r, "failed") /\ "failed" \in Settled
      BY <1>2 DEF MarkFailed, Settled
    <2> QED
      BY <1>1, <2>1, Settles, FreeIsSound
  <1>3. CASE view[r] = None \/ view[r].status = "destroyed"
    <2>1. Write(r, view[r]) /\ ~IsBusy(view[r])
      BY <1>3 DEF MarkFailed, IsBusy, Busy
    <2>2. r \in Replicas /\ view[r] \in Records
      BY <1>1, JobIs DEF Core, RecordsInv
    <2>3. RecordsInv' /\ view' = [view EXCEPT ![r] = view[r]]
      BY <1>1, <2>1, <2>2, WriteStep DEF Core
    <2>4. JobsInv' /\ BusyHasWorker'
      BY <1>1, <2>1, <2>2, <2>3, FreeIsSound, SettlingStep DEF Core
    <2> QED
      BY <2>3, <2>4 DEF Core
  <1> QED
    BY <1>2, <1>3

-----------------------------------------------------------------------------
(* The sweep, the operator, other controllers and restarts. *)

\* A step that neither touches the records nor the requests.
LEMMA CoreStays ==
  ASSUME Core, UNCHANGED <<setting, record, req>>
  PROVE  Core'
  <1>1. RecordsInv'
    BY DEF Core, RecordsInv, record
  <1>2. JobsInv'
    BY SoundStays DEF Core, JobsInv
  <1>3. \A o \in Up, q \in Requests : WorksOn(q, o) => WorksOn(q, o)'
    BY DEF WorksOn
  <1>4. BusyHasWorker'
    BY <1>3, BusyStep DEF Core, record
  <1> QED
    BY <1>1, <1>2, <1>4 DEF Core

\* What the sweep notes of the nodes leaves the status.
LEMMA NodeStatesStep ==
  ASSUME RecordsInv, UNCHANGED setting, NEW r \in Replicas, NEW states \in {"ok", "bad"},
         ApplyNodeStates(r, states)
  PROVE  /\ RecordsInv'
         /\ \/ UNCHANGED view
            \/ \E rec \in Records : /\ view' = [view EXCEPT ![r] = rec]
                                    /\ IsBusy(rec) => IsBusy(view[r])
  <1>1. CASE UNCHANGED record
    BY <1>1 DEF RecordsInv, record
  <1>2. CASE view[r] # None /\ Write(r, [view[r] EXCEPT !.states = states])
    <2> DEFINE rec == [view[r] EXCEPT !.states = states]
    <2>1. view[r] \in OpRecord
      BY <1>2, RecordsAre DEF RecordsInv
    <2>2. rec \in OpRecord /\ rec.status = view[r].status
      BY <2>1, StatesWritten
    <2>3. rec \in Records /\ (IsBusy(rec) => IsBusy(view[r]))
      BY <1>2, <2>2, RecordsAre DEF IsBusy
    <2> HIDE DEF rec
    <2>4. RecordsInv' /\ view' = [view EXCEPT ![r] = rec]
      BY <1>2, <2>3, WriteStep DEF rec
    <2> QED
      BY <2>3, <2>4
  <1> QED
    BY <1>1, <1>2 DEF ApplyNodeStates

LEMMA SweepProbeStep ==
  ASSUME Core, SweepInv, NEW r \in Replicas, SweepProbe(r)
  PROVE  Core'
  <1>1. /\ UNCHANGED setting
        /\ \E states \in {"ok", "bad"} : ApplyNodeStates(r, states)
    BY DEF SweepProbe
  <1>2. RecordsInv'
    BY <1>1, NodeStatesStep DEF Core
  <1>3. \/ UNCHANGED view
        \/ \E rec \in Records : /\ view' = [view EXCEPT ![r] = rec]
                                /\ IsBusy(rec) => IsBusy(view[r])
    BY <1>1, NodeStatesStep DEF Core
  <1>4. PICK rec \in Records : /\ view' = [view EXCEPT ![r] = rec]
                               /\ IsBusy(rec) => IsBusy(view[r])
    <2>1. view[r] \in Records /\ view = [view EXCEPT ![r] = view[r]]
      BY DEF Core, RecordsInv
    <2> QED
      BY <1>3, <2>1
  <1>5. CASE UNCHANGED req
    <2>1. JobsInv' /\ BusyHasWorker'
      BY <1>1, <1>4, <1>5, WritingStep DEF Core
    <2> QED
      BY <1>2, <2>1 DEF Core
  <1>6. CASE WantsFailover(r, sweep[r].seen) /\ ~UNCHANGED req
    <2> DEFINE j == [pc |-> "lock", at |-> r, op |-> "reparent", seen |-> view[r],
                     watched |-> TRUE]
    <2>1. PICK q \in Requests : req[q].pc = "free" /\ req' = [req EXCEPT ![q] = j]
      BY <1>6 DEF SweepProbe
    <2>2. view[r] # None /\ view[r] \in Records
      BY <1>6 DEF WantsFailover, Allowed, Core, RecordsInv
    <2>3. r \in Up
      BY DEF SweepProbe, SweepInv
    <2>4. SoundJob(j)
      BY <2>2, <2>3 DEF SoundJob, Jobs, Positions, Ops
    <2> HIDE DEF j
    <2>5. JobsInv' /\ BusyHasWorker'
      BY <1>1, <1>4, <2>1, <2>4, CarryingStep DEF Core, Working, Steps
    <2> QED
      BY <1>2, <2>5 DEF Core
  <1> QED
    BY <1>5, <1>6 DEF SweepProbe

LEMMA SweepJudgeStep ==
  ASSUME Core, NEW r \in Replicas, SweepJudge(r)
  PROVE  Core'
  <1>1. UNCHANGED <<setting, req>>
    BY DEF SweepJudge
  <1>2. CASE UNCHANGED record
    BY <1>1, <1>2, CoreStays
  <1>3. ASSUME NEW status \in {"running", "degraded"}, SetStatus(r, status)
        PROVE  Core'
    <2>1. status \in Settled
      BY DEF Settled
    <2>2. RecordsInv'
      BY <1>1, <1>3, <2>1, SetStatusStep DEF Core
    <2>3. PICK rec \in Records : /\ view' = [view EXCEPT ![r] = rec]
                                 /\ rec # None => rec.status = status
      BY <1>1, <1>3, <2>1, SetStatusStep DEF Core
    <2>4. ~IsBusy(rec)
      BY <2>3 DEF IsBusy, Busy
    <2>5. JobsInv' /\ BusyHasWorker'
      BY <1>1, <2>3, <2>4, WritingStep DEF Core
    <2> QED
      BY <2>2, <2>5 DEF Core
  <1> QED
    BY <1>2, <1>3 DEF SweepJudge

LEMMA DeleteStep ==
  ASSUME Core, NEW r \in Replicas, Delete(r)
  PROVE  Core'
  <1>1. /\ UNCHANGED <<setting, req>> /\ view' = [view EXCEPT ![r] = None] /\ sink' = None
    BY DEF Delete
  <1>2. None \in Records /\ ~IsBusy(None)
    BY RecordsAre DEF IsBusy
  <1>3. RecordsInv'
    BY <1>1, <1>2 DEF Core, RecordsInv
  <1>4. JobsInv' /\ BusyHasWorker'
    BY <1>1, <1>2, WritingStep DEF Core
  <1> QED
    BY <1>3, <1>4 DEF Core

LEMMA ToggleStep ==
  ASSUME Core, NEW r \in Replicas, Toggle(r)
  PROVE  Core'
  <1> DEFINE rec == [view[r] EXCEPT !.on = ~@]
  <1>1. UNCHANGED <<setting, req>> /\ view[r] # None /\ Write(r, rec)
    BY DEF Toggle
  <1>2. view[r] \in OpRecord
    BY <1>1, RecordsAre DEF Core, RecordsInv
  <1>3. rec \in OpRecord /\ rec.status = view[r].status
    BY <1>2, SwitchedOnOff
  <1>4. rec \in Records /\ (IsBusy(rec) => IsBusy(view[r]))
    BY <1>1, <1>3, RecordsAre DEF IsBusy
  <1> HIDE DEF rec
  <1>5. RecordsInv' /\ view' = [view EXCEPT ![r] = rec]
    BY <1>1, <1>4, WriteStep DEF Core
  <1>6. JobsInv' /\ BusyHasWorker'
    BY <1>1, <1>4, <1>5, WritingStep DEF Core
  <1> QED
    BY <1>5, <1>6 DEF Core

\* Only controllers of a cluster read what others wrote, or persist each other's.
LEMMA RefreshStep ==
  ASSUME Core, NEW r \in Replicas, Refresh(r)
  PROVE  Core'
  <1> DEFINE rec == [view[r] EXCEPT !.status = sink.status, !.states = sink.states]
             new == IF view[r] = None THEN sink ELSE rec
  <1>1. /\ UNCHANGED <<setting, req, sink>> /\ Cluster /\ sink # None
        /\ view' = [view EXCEPT ![r] = new]
    BY DEF Refresh
  <1>2. sink \in OpRecord
    BY <1>1, RecordsAre DEF Core, RecordsInv
  <1>3. view[r] # None => rec \in OpRecord
    <2>1. ASSUME view[r] \in OpRecord PROVE rec \in OpRecord
      BY <1>2, <2>1 DEF OpRecord
    <2> QED
      BY <2>1, RecordsAre DEF Core, RecordsInv
  <1>4. new \in Records
    BY <1>2, <1>3, RecordsAre
  <1> HIDE DEF new
  <1>5. RecordsInv'
    BY <1>1, <1>4 DEF Core, RecordsInv
  <1>6. JobsInv'
    BY <1>1, SoundStays DEF Core, JobsInv
  <1>7. BusyHasWorker'
    BY <1>1 DEF BusyHasWorker, Cluster
  <1> QED
    BY <1>5, <1>6, <1>7 DEF Core

LEMMA StrayStep ==
  ASSUME Core, NEW r \in Replicas, Stray(r)
  PROVE  Core'
  <1>1. UNCHANGED <<setting, view, req>> /\ Cluster
    BY DEF Stray
  <1>2. RecordsInv'
    BY <1>1 DEF Core, RecordsInv, Stray, Persist
  <1>3. JobsInv'
    BY <1>1, SoundStays DEF Core, JobsInv
  <1>4. BusyHasWorker'
    BY <1>1 DEF BusyHasWorker, Cluster
  <1> QED
    BY <1>2, <1>3, <1>4 DEF Core

\* What a controller loads is a record, and settled if it is alone.
LEMMA LoadedIs ==
  ASSUME RecordsInv
  PROVE  Loaded \in Records /\ (~Cluster => ~IsBusy(Loaded))
  <1>1. CASE sink # None /\ sink.status \in Busy /\ ~Cluster
    <2>1. sink \in OpRecord /\ "failed" \in Settled /\ "failed" \notin Busy
      BY <1>1, RecordsAre DEF RecordsInv, Settled, Busy
    <2>2. [sink EXCEPT !.status = "failed"] \in OpRecord
          /\ [sink EXCEPT !.status = "failed"].status = "failed"
      BY <2>1, StatusWritten
    <2> QED
      BY <1>1, <2>1, <2>2, RecordsAre DEF Loaded, IsBusy
  <1>2. CASE ~(sink # None /\ sink.status \in Busy /\ ~Cluster)
    BY <1>2 DEF Loaded, RecordsInv, IsBusy
  <1> QED
    BY <1>1, <1>2

\* A task that the leader of a cluster takes up is another's now, and nobody watches it.
LEMMA TakenUp ==
  ASSUME Core, Cluster, NEW q \in Requests, NEW leader \in Up,
         req[q].pc \in Steps \cup {"last"}
  PROVE  SoundJob([req[q] EXCEPT !.at = leader, !.watched = FALSE,
                     !.pc = IF @ = "last" /\ req[q].op \in {"read", "offline"}
                            THEN "verify" ELSE @])
  <1>1. req[q] \in Jobs /\ SoundJob(req[q]) /\ req[q].pc \notin Early \cup {"free"}
    BY DEF Core, JobsInv, SoundJob, Steps, Early
  <1>2. req[q].seen # None
    BY <1>1 DEF SoundJob, Early
  <1> DEFINE pc == IF req[q].pc = "last" /\ req[q].op \in {"read", "offline"}
                   THEN "verify" ELSE req[q].pc
             j == [req[q] EXCEPT !.at = leader, !.watched = FALSE, !.pc = pc]
  <1>3. pc \in Positions
    BY DEF Positions, Steps
  <1> HIDE DEF pc
  <1>4. j \in Jobs /\ j.at = leader /\ j.seen = req[q].seen
    BY <1>1, <1>3 DEF Jobs
  <1>5. SoundJob(j)
    BY <1>2, <1>4 DEF SoundJob
  <1> QED
    BY <1>5 DEF pc

LEMMA RestartStep ==
  ASSUME Core, NEW r \in Replicas, NEW leader \in Replicas, Restart(r, leader)
  PROVE  Core'
  <1>1. /\ UNCHANGED <<setting, sink>> /\ view' = [view EXCEPT ![r] = Loaded]
        /\ r \in Up /\ leader \in Up
    BY DEF Restart
  <1>2. Loaded \in Records /\ (~Cluster => ~IsBusy(Loaded))
    BY LoadedIs DEF Core
  <1>3. RecordsInv'
    BY <1>1, <1>2 DEF Core, RecordsInv
  <1>4. DOMAIN req' = Requests
    BY DEF Restart
  <1>5. \A q \in Requests : SoundJob(req'[q])
    BY <1>1, FreeIsSound, TakenUp DEF Restart, Core, JobsInv
  <1>6. JobsInv'
    BY <1>1, <1>4, <1>5, SoundStays DEF JobsInv
  <1>7. ASSUME ~Cluster, NEW o \in Up, IsBusy(view'[o])
        PROVE  IsBusy(view[o]) /\ \A q \in Requests : WorksOn(q, o) => WorksOn(q, o)'
    <2>1. o \in Replicas
      BY SettingIs DEF Core, RecordsInv
    <2>2. o # r /\ view'[o] = view[o]
      BY <1>1, <1>2, <1>7, <2>1 DEF Core, RecordsInv
    <2>3. \A q \in Requests : req[q].at = o => req'[q] = req[q]
      BY <2>2 DEF Restart
    <2> QED
      BY <1>7, <2>2, <2>3 DEF WorksOn
  <1>8. BusyHasWorker'
    BY <1>1, <1>7, BusyStep DEF Core
  <1> QED
    BY <1>3, <1>6, <1>8 DEF Core

-----------------------------------------------------------------------------
(* The sweeps, the lock and the world. *)

LEMMA SweepScanStep ==
  ASSUME Core, SweepInv, NEW r \in Replicas, SweepScan(r)
  PROVE  SweepInv'
  <1> DEFINE s == [pc |-> "visit", seen |-> view[r], bad |-> FALSE]
  <1>1. UNCHANGED setting /\ r \in Up /\ sweep' = [sweep EXCEPT ![r] = s] /\ view[r] # None
    BY DEF SweepScan
  <1>2. s \in Looks
    BY <1>1, RecordsAre DEF Looks, Core, RecordsInv
  <1> HIDE DEF s
  <1> QED
    BY <1>1, <1>2 DEF SweepInv, Up

\* A sweep goes on, or is over.
LEMMA SweepMoves ==
  ASSUME SweepInv, NEW r \in Replicas, SweepVisit(r) \/ SweepProbe(r) \/ SweepJudge(r)
  PROVE  SweepInv'
  <1>1. sweep[r] # None /\ sweep[r] \in Looks /\ r \in Up
    BY DEF SweepInv, SweepVisit, SweepProbe, SweepJudge
  <1>2. UNCHANGED setting
    BY DEF SweepVisit, SweepProbe, SweepJudge
  <1>3. CASE sweep' = [sweep EXCEPT ![r] = None]
    BY <1>2, <1>3 DEF SweepInv, Up
  <1>4. CASE \E pc \in {"probe", "judge"}, bad \in BOOLEAN :
               sweep' = [sweep EXCEPT ![r].pc = pc, ![r].bad = bad]
    <2>1. PICK pc \in {"probe", "judge"}, bad \in BOOLEAN :
            sweep' = [sweep EXCEPT ![r].pc = pc, ![r].bad = bad]
      BY <1>4
    <2>2. sweep'[r] \in Looks /\ \A o \in Replicas : o # r => sweep'[o] = sweep[o]
      BY <1>1, <2>1 DEF Looks, SweepInv
    <2>3. DOMAIN sweep' = Replicas
      BY <2>1 DEF SweepInv
    <2> QED
      BY <1>1, <1>2, <2>2, <2>3 DEF SweepInv, Up
  <1>5. CASE SweepVisit(r) /\ sweep' = [sweep EXCEPT ![r].pc = "probe"]
    <2>1. sweep'[r] \in Looks /\ \A o \in Replicas : o # r => sweep'[o] = sweep[o]
      BY <1>1, <1>5 DEF Looks, SweepInv
    <2>2. DOMAIN sweep' = Replicas
      BY <1>5 DEF SweepInv
    <2> QED
      BY <1>1, <1>2, <2>1, <2>2 DEF SweepInv, Up
  <1>6. CASE SweepProbe(r)
    <2>1. Problems(sweep[r].seen) \in BOOLEAN
      BY DEF Problems
    <2> QED
      BY <1>4, <1>6, <2>1 DEF SweepProbe
  <1> QED
    BY <1>3, <1>5, <1>6 DEF SweepVisit, SweepJudge

LEMMA SweepsStay ==
  ASSUME SweepInv, UNCHANGED <<setting, sweep>>
  PROVE  SweepInv'
  BY DEF SweepInv, Up

LEMMA RestStays ==
  ASSUME RestInv, UNCHANGED <<setting, lock, world>>
  PROVE  RestInv'
  BY DEF RestInv, lock, world, Up

\* The lock is taken for a controller that runs, and freed.
LEMMA LockMoves ==
  ASSUME RestInv, Core, UNCHANGED <<setting, world>>, NEW q \in Requests,
         Acquire(q) \/ WatchWon(q) \/ WatchLost(q)
  PROVE  RestInv'
  <1>1. req[q].at \in Up
    BY JobIs DEF Core, Acquire, WatchWon, WatchLost
  <1>2. \/ UNCHANGED lock
        \/ lease' = req[q].at /\ locked' = locked \cup {req[q].at}
        \/ Unlock(req[q].at)
    BY DEF Acquire, WatchWon, WatchLost
  <1> QED
    BY <1>1, <1>2 DEF RestInv, lock, world, Up, Unlock

\* Containers are numbered.
LEMMA BoxesMove ==
  ASSUME RestInv, Core, NEW q \in Requests, Make(q) \/ Remove(q)
  PROVE  RestInv'
  <1>1. UNCHANGED <<setting, lock, ill>> /\ req[q].pc \in {"make", "remove"}
    BY DEF Make, Remove
  <1>2. req[q].seen \in OpRecord
    BY <1>1, JobIs DEF Core, Early
  <1>3. BoxesOf(req[q].seen) \subseteq Nat /\ NextBox(req[q].seen) \in Nat
    BY <1>2, BoxesAreNumbers
  <1>4. boxes' \subseteq boxes \cup BoxesOf(req[q].seen) \cup {NextBox(req[q].seen)}
    BY DEF Make, Remove
  <1> QED
    BY <1>1, <1>3, <1>4 DEF RestInv, lock, Up

-----------------------------------------------------------------------------
OpsInv == Core /\ SweepInv /\ RestInv

LEMMA InitOps == Init => OpsInv
  <1> SUFFICES ASSUME Init PROVE OpsInv
    OBVIOUS
  <1>1. RecordsInv
    BY RecordsAre DEF Init, RecordsInv
  <1>2. JobsInv
    BY FreeIsSound DEF Init, JobsInv
  <1>3. BusyHasWorker
    BY SettingIs DEF Init, BusyHasWorker
  <1>4. SweepInv /\ RestInv
    BY DEF Init, SweepInv, RestInv
  <1> QED
    BY <1>1, <1>2, <1>3, <1>4 DEF OpsInv, Core

\* A request's own steps.
LEMMA HandleKeeps ==
  ASSUME OpsInv, NEW q \in Requests, Handle(q) \/ Reject(q) \/ Fail(q)
  PROVE  OpsInv'
  <1> USE DEF OpsInv
  <1>1. Core'
    BY LookStep, AcquireStep, RecordStep, MakeStep, VerifyStep, FinishStep, RemoveStep,
       WorkStep, ReparentStep, ReparentFailsStep, WatchWonStep, WatchLostStep,
       MarkFailedStep, RejectStep, FailStep DEF Handle
  <1>2. SweepInv'
    <2>1. UNCHANGED <<setting, sweep>>
      BY DEF Handle, Look, Acquire, Record, Make, Verify, Finish, Remove, RemoveNetwork, Work,
             Reparent, ReparentFails, WatchWon, WatchLost, MarkFailed, Reject, Fail
    <2> QED
      BY <2>1, SweepsStay
  <1>3. CASE Acquire(q) \/ WatchWon(q) \/ WatchLost(q)
    <2>1. UNCHANGED <<setting, world>>
      BY <1>3 DEF Acquire, WatchWon, WatchLost
    <2> QED
      BY <1>1, <1>2, <1>3, <2>1, LockMoves
  <1>4. CASE Make(q) \/ Remove(q)
    BY <1>1, <1>2, <1>4, BoxesMove
  <1>5. CASE Reparent(q)
    <2>1. UNCHANGED <<setting, lock, boxes>> /\ ill' \in {"slave", ill}
      BY <1>5 DEF Reparent
    <2> QED
      BY <1>1, <1>2, <2>1 DEF RestInv, lock, Up
  <1>6. CASE \/ Look(q) \/ Record(q) \/ Verify(q) \/ Finish(q) \/ RemoveNetwork(q) \/ Work(q)
            \/ ReparentFails(q) \/ MarkFailed(q) \/ Reject(q) \/ Fail(q)
    <2>1. UNCHANGED <<setting, lock, world>>
      BY <1>6 DEF Look, Record, Verify, Finish, RemoveNetwork, Work, ReparentFails,
                  MarkFailed, Reject, Fail
    <2> QED
      BY <1>1, <1>2, <2>1, RestStays
  <1> QED
    BY <1>3, <1>4, <1>5, <1>6 DEF Handle

LEMMA OthersKeep ==
  ASSUME OpsInv, NEW r \in Replicas,
         \/ Sweep(r) \/ Delete(r) \/ Toggle(r) \/ Refresh(r) \/ Stray(r)
         \/ \E q \in Requests, op \in Ops : Ask(q, r, op)
  PROVE  OpsInv'
  <1> USE DEF OpsInv
  <1>1. RestInv'
    <2>1. UNCHANGED <<setting, lock, world>>
      BY DEF Sweep, SweepScan, SweepVisit, SweepProbe, SweepJudge, Delete, Toggle, Refresh,
             Stray, Ask
    <2> QED
      BY <2>1, RestStays
  <1>2. CASE Sweep(r)
    <2>1. SweepInv'
      BY <1>2, SweepScanStep, SweepMoves DEF Sweep
    <2>2. CASE SweepScan(r) \/ SweepVisit(r)
      <3>1. UNCHANGED <<setting, record, req>>
        BY <2>2 DEF SweepScan, SweepVisit
      <3> QED
        BY <1>1, <2>1, <3>1, CoreStays
    <2>3. CASE SweepProbe(r) \/ SweepJudge(r)
      BY <1>1, <2>1, <2>3, SweepProbeStep, SweepJudgeStep
    <2> QED
      BY <1>2, <2>2, <2>3 DEF Sweep
  <1>3. CASE \/ Delete(r) \/ Toggle(r) \/ Refresh(r) \/ Stray(r)
            \/ \E q \in Requests, op \in Ops : Ask(q, r, op)
    <2>1. Core'
      BY <1>3, DeleteStep, ToggleStep, RefreshStep, StrayStep, AskStep
    <2>2. UNCHANGED <<setting, sweep>>
      BY <1>3 DEF Delete, Toggle, Refresh, Stray, Ask
    <2> QED
      BY <1>1, <2>1, <2>2, SweepsStay
  <1> QED
    BY <1>2, <1>3

LEMMA RestartKeeps ==
  ASSUME OpsInv, NEW r \in Replicas, NEW leader \in Replicas, Restart(r, leader)
  PROVE  OpsInv'
  <1>1. Core'
    BY RestartStep DEF OpsInv
  <1>2. SweepInv'
    BY DEF OpsInv, SweepInv, Restart, Up
  <1>3. RestInv'
    BY DEF OpsInv, RestInv, Restart, world, Up
  <1> QED
    BY <1>1, <1>2, <1>3 DEF OpsInv

LEMMA WorldKeeps ==
  ASSUME OpsInv, Ail \/ Expire
  PROVE  OpsInv'
  <1>1. UNCHANGED <<setting, record, req, sweep>>
    BY DEF Ail, Expire
  <1>2. Core' /\ SweepInv'
    BY <1>1, CoreStays, SweepsStay DEF OpsInv
  <1>3. RestInv'
    BY DEF OpsInv, RestInv, Ail, Expire, lock, world, Up
  <1> QED
    BY <1>2, <1>3 DEF OpsInv

LEMMA NextKeepsOps ==
  ASSUME OpsInv, [Next]_vars
  PROVE  OpsInv'
  <1>1. CASE Next
    BY <1>1, HandleKeeps, OthersKeep, RestartKeeps, WorldKeeps DEF Next
  <1>2. CASE UNCHANGED vars
    BY <1>2, CoreStays, SweepsStay, RestStays DEF OpsInv, vars
  <1> QED
    BY <1>1, <1>2

LEMMA OpsInvHolds == Spec => []OpsInv
  <1>1. Init => OpsInv
    BY InitOps
  <1>2. OpsInv /\ [Next]_vars => OpsInv'
    BY NextKeepsOps
  <1> QED
    BY <1>1, <1>2, PTL DEF Spec

-----------------------------------------------------------------------------
\* The records, locks and tasks have the shape of the code's, a task taken up after a
\* restart included.
THEOREM TypesAreKept == Spec => []TypeOK
  <1>1. ASSUME OpsInv PROVE TypeOK
    <2>1. /\ view \in [Replicas -> Records] /\ sink \in Records
          /\ locked \subseteq Up /\ lease \in Up \cup {None}
          /\ boxes \subseteq Nat /\ ill \in {"well", "slave", "master"}
      BY <1>1 DEF OpsInv, Core, RecordsInv, RestInv
    <2>2. \A q \in Requests : req[q] \in Jobs
      BY <1>1 DEF OpsInv, Core, JobsInv, SoundJob
    <2>3. \A r \in Replicas : sweep[r] # None => sweep[r] \in Looks
      BY <1>1 DEF OpsInv, SweepInv
    <2> QED
      BY <2>1, <2>2, <2>3, RecordsAre DEF TypeOK, Jobs, Looks, Positions
  <1>2. OpsInv => TypeOK
    BY <1>1
  <1> QED
    BY <1>2, OpsInvHolds, PTL

\* In a controller that works alone an instance that is being created, scaled, switched or
\* destroyed has a task at work on it, or a watcher that will mark it failed, whatever
\* fails and whenever the process stops (set_status, watch_task, load_persisted).
THEOREM BusyIsWorkedOn == Spec => []BusyHasWorker
  <1>1. OpsInv => BusyHasWorker
    BY DEF OpsInv, Core
  <1> QED
    BY <1>1, OpsInvHolds, PTL
=============================================================================
