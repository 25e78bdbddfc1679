------------------------ MODULE TaskSchedulerProofs ------------------------
(***************************************************************************)
(* For any graph, any controllers and any number of crashes, takeovers and  *)
(* retries: no node acts before the ledger holds a result of every node it  *)
(* depends on.                                                              *)
(*                                                                          *)
(* A success is known in four places: the ledger, the rows, a controller's  *)
(* view and a returned step.  TaskInv says that the last three never show   *)
(* one the ledger does not hold, whatever was lost in between, and that a   *)
(* run counts a dependency as met only if it was: a failed node is removed  *)
(* from the others' open dependencies too, and what keeps those from being  *)
(* started is that no further wave begins after a failure.                  *)
(***************************************************************************)
EXTENDS TaskScheduler, TLAPS

Statuses == TaskStatus \cup {None}

Views == [status : Statuses, results : [Nodes -> Statuses]]

Runs ==
  [pc : {"rows", "start", "loop", "join", "skip"}, todo : SUBSET Nodes,
   left : [Nodes -> SUBSET Nodes], ready : SUBSET Nodes,
   active : SUBSET Nodes, failed : BOOLEAN]

Works == [pc : {"off", "begin", "act", "record", "ok", "err"}, tries : Nat]

Done(n) == ledger[n] = "done"
DepsDone(n) == \A d \in deps[n] : Done(d)

\* A run that has not failed has struck off only what is done, and what it
\* calls ready has nothing open.
SoundRun(r) ==
  /\ r.pc \in {"rows", "start", "loop"} => ~r.failed
  /\ ~r.failed => \A n \in Nodes : \A d \in deps[n] : d \notin r.left[n] => Done(d)
  /\ \A n \in r.ready : r.left[n] = {}

SoundView(v) == \A n \in Nodes : v.results[n] = "success" => Done(n)

SoundWork(w) ==
  \A n \in Nodes :
    /\ w[n].pc = "ok" => Done(n)
    /\ w[n].pc # "off" => DepsDone(n)

\* Of one controller: whatever it executes, it has a view of.
CtlInv(p) ==
  /\ mem[p] # None \/ run[p] # None \/ rerun[p] # None =>
       mem[p] \in Views /\ SoundView(mem[p])
  /\ run[p] # None => run[p] \in Runs /\ SoundRun(run[p])
  /\ rerun[p] # None => rerun[p] \in Nodes
  /\ work[p] \in [Nodes -> Works] /\ SoundWork(work[p])

\* Of what they share.
SharedInv ==
  /\ setting \in Settings /\ deps \in [Nodes -> SUBSET Nodes]
  /\ nodeRow \in [Nodes -> Statuses]
  /\ ledger \in [Nodes -> {"none", "started", "done"}]
  /\ acts \in [Nodes -> Nat]
  /\ \A n \in Nodes : nodeRow[n] = "success" => Done(n)
  /\ DOMAIN mem = Controllers /\ DOMAIN run = Controllers
  /\ DOMAIN rerun = Controllers /\ DOMAIN work = Controllers

TaskInv == SharedInv /\ \A p \in Controllers : CtlInv(p)

-----------------------------------------------------------------------------
LEMMA InitTask == Init => TaskInv
  <1> SUFFICES ASSUME Init PROVE TaskInv
    OBVIOUS
  <1>1. setting.graphs \in SUBSET [Nodes -> SUBSET Nodes]
    BY SettingsAssumption DEF Init
  <1>2. SharedInv
    BY <1>1, NoneAssumption DEF Init, SharedInv, Graphs, Statuses, TaskStatus, Done
  <1>3. ASSUME NEW p \in Controllers PROVE CtlInv(p)
    BY DEF Init, CtlInv, SoundWork, NoWork, Works
  <1> QED
    BY <1>2, <1>3 DEF TaskInv

\* The controllers that run are controllers.
LEMMA ProcsAreControllers ==
  ASSUME SharedInv, NEW p \in Procs
  PROVE  p \in Controllers
  BY SettingsAssumption DEF SharedInv, Procs

\* StepDone is final: StepBegin leaves a recorded step alone.
LEMMA DoneStays ==
  ASSUME SharedInv, [Next]_vars
  PROVE  /\ deps' = deps /\ setting' = setting
         /\ ledger' \in [Nodes -> {"none", "started", "done"}]
         /\ \A n \in Nodes : Done(n) => Done(n)'
         /\ \A n \in Nodes : DepsDone(n) => DepsDone(n)'
  <1>1. deps' = deps /\ setting' = setting
    <2>1. CASE Next
      <3>1. PICK p \in Procs :
              \/ Submit(p) \/ Execute(p) \/ Cancel(p) \/ Resume(p) \/ Crash(p)
              \/ NewLeader(p) \/ \E n \in Nodes : Rerun(p, n)
        BY <2>1 DEF Next
      <3>2. CASE Execute(p)
        BY <3>2 DEF Execute, Launch, Start, Wave, WaveEnds, FinishView, FinishRow,
                    RerunEnds, SubmitNode, Join, Skip, Begin, Act, Record, input
      <3> QED
        BY <3>1, <3>2 DEF Submit, Cancel, Resume, Crash, NewLeader, Rerun, input
    <2> QED
      BY <2>1 DEF vars, input
  <1>2. \/ ledger' = ledger
        \/ \E n \in Nodes : ~KnownDone(n) /\ ledger' = [ledger EXCEPT ![n] = "started"]
        \/ \E n \in Nodes : ledger' = [ledger EXCEPT ![n] = "done"]
    <2>1. CASE Next
      <3>1. PICK p \in Procs :
              \/ Submit(p) \/ Execute(p) \/ Cancel(p) \/ Resume(p) \/ Crash(p)
              \/ NewLeader(p) \/ \E n \in Nodes : Rerun(p, n)
        BY <2>1 DEF Next
      <3>2. CASE Execute(p)
        BY <3>2 DEF Execute, Launch, Start, Wave, WaveEnds, FinishView, FinishRow,
                    RerunEnds, SubmitNode, Join, Skip, Begin, Act, Record
      <3> QED
        BY <3>1, <3>2 DEF Submit, Cancel, Resume, Crash, NewLeader, Rerun
    <2> QED
      BY <2>1 DEF vars
  <1>3. ledger' \in [Nodes -> {"none", "started", "done"}]
    BY <1>2 DEF SharedInv
  <1>4. \A n \in Nodes : Done(n) => Done(n)'
    BY <1>2 DEF SharedInv, Done, KnownDone
  <1> QED
    BY <1>1, <1>3, <1>4 DEF DepsDone, SharedInv

\* Values sound for the ledger stay so, since the ledger only grows.
LEMMA CtlBecomes ==
  ASSUME SharedInv, [Next]_vars, NEW p \in Controllers,
         mem'[p] # None \/ run'[p] # None \/ rerun'[p] # None =>
           mem'[p] \in Views /\ SoundView(mem'[p]),
         run'[p] # None => run'[p] \in Runs /\ SoundRun(run'[p]),
         rerun'[p] # None => rerun'[p] \in Nodes,
         work'[p] \in [Nodes -> Works] /\ SoundWork(work'[p])
  PROVE  CtlInv(p)'
  <1>1. SoundView(mem'[p]) => SoundView(mem[p])'
    BY DoneStays DEF SoundView
  <1>2. run'[p] # None => SoundRun(run[p])'
    BY DoneStays DEF SoundRun, SharedInv
  <1>3. SoundWork(work[p])'
    BY DoneStays DEF SoundWork
  <1> QED
    BY <1>1, <1>2, <1>3 DEF CtlInv

LEMMA SharedBecomes ==
  ASSUME SharedInv, [Next]_vars,
         nodeRow' \in [Nodes -> Statuses],
         acts' \in [Nodes -> Nat],
         \A n \in Nodes : nodeRow'[n] = "success" => Done(n),
         DOMAIN mem' = Controllers, DOMAIN run' = Controllers,
         DOMAIN rerun' = Controllers, DOMAIN work' = Controllers
  PROVE  SharedInv'
  BY DoneStays DEF SharedInv

\* A step of p leaves what the others know.
LEMMA OthersKeep ==
  ASSUME SharedInv, NEW p \in Procs, NEW q \in Controllers, q # p, CtlInv(q), Next,
         \/ Submit(p) \/ Execute(p) \/ Cancel(p) \/ Resume(p) \/ Crash(p)
         \/ NewLeader(p) \/ \E n \in Nodes : Rerun(p, n)
  PROVE  CtlInv(q)'
  <1>1. mem'[q] = mem[q] /\ run'[q] = run[q] /\ rerun'[q] = rerun[q] /\ work'[q] = work[q]
    <2>1. CASE \/ Launch(p) \/ Start(p) \/ Wave(p) \/ WaveEnds(p) \/ FinishView(p)
               \/ FinishRow(p)
      BY <2>1 DEF Launch, Start, Wave, WaveEnds, FinishView, FinishRow, SharedInv
    <2>2. CASE RerunEnds(p)
      BY <2>2 DEF RerunEnds, SharedInv
    <2>3. ASSUME NEW n \in Nodes, SubmitNode(p, n) \/ Join(p, n) \/ Skip(p, n)
          PROVE  /\ mem'[q] = mem[q] /\ run'[q] = run[q] /\ rerun'[q] = rerun[q]
                 /\ work'[q] = work[q]
      BY <2>3 DEF SubmitNode, Join, Skip, Report, local, SharedInv
    <2>4. ASSUME NEW n \in Nodes, Begin(p, n) \/ Act(p, n) \/ Record(p, n)
          PROVE  /\ mem'[q] = mem[q] /\ run'[q] = run[q] /\ rerun'[q] = rerun[q]
                 /\ work'[q] = work[q]
      BY <2>4 DEF Begin, Act, Record, Proceed, FailAttempt, SharedInv
    <2>5. CASE \/ Submit(p) \/ Cancel(p) \/ Resume(p) \/ Crash(p)
               \/ NewLeader(p) \/ \E n \in Nodes : Rerun(p, n)
      BY <2>5 DEF Submit, Cancel, Resume, Crash, NewLeader, Rerun, local, SharedInv
    <2> QED
      BY <2>1, <2>2, <2>3, <2>4, <2>5 DEF Execute
  <1> QED
    BY <1>1, CtlBecomes DEF CtlInv

-----------------------------------------------------------------------------
(* What each action makes of p's own knowledge. *)

LEMMA SubmitStep ==
  ASSUME TaskInv, Next, NEW p \in Controllers, Submit(p)
  PROVE  SharedInv' /\ CtlInv(p)'
  <1> DEFINE v == [status |-> "pending", results |-> [n \in Nodes |-> "pending"]]
             r == NewRun("rows", Nodes, deps)
  <1>1. SharedInv /\ CtlInv(p)
    BY DEF TaskInv
  <1>2. /\ mem'[p] = v /\ run'[p] = r /\ rerun'[p] = rerun[p] /\ work'[p] = work[p]
        /\ nodeRow' = nodeRow /\ acts' = acts
        /\ DOMAIN mem' = Controllers /\ DOMAIN run' = Controllers
        /\ rerun' = rerun /\ work' = work
    BY <1>1 DEF Submit, SharedInv
  <1>3. v \in Views /\ SoundView(v)
    BY DEF Views, Statuses, TaskStatus, SoundView
  <1>4. r \in Runs /\ SoundRun(r)
    BY <1>1 DEF NewRun, Runs, SoundRun, SharedInv
  <1>5. CtlInv(p)'
    BY <1>1, <1>2, <1>3, <1>4, CtlBecomes DEF CtlInv
  <1>6. SharedInv'
    BY <1>1, <1>2, SharedBecomes DEF SharedInv, Statuses, TaskStatus
  <1> QED
    BY <1>5, <1>6

\* The database's rows become p's view, of a task p did not know or had ended.
LEMMA ResumeStep ==
  ASSUME TaskInv, Next, NEW p \in Controllers, Resume(p)
  PROVE  SharedInv' /\ CtlInv(p)'
  <1> DEFINE v == [status |-> "running",
                   results |-> [n \in Nodes |->
                                  IF n \in ToRun THEN "running" ELSE nodeRow[n]]]
             l == [n \in Nodes |-> deps[n] \ Satisfied]
             r == NewRun("start", ToRun, l)
  <1>1. SharedInv /\ CtlInv(p)
    BY DEF TaskInv
  <1>2. /\ mem'[p] = v /\ run'[p] = r /\ rerun' = rerun /\ work' = work
        /\ UNCHANGED <<nodeRow, acts>>
        /\ DOMAIN mem' = Controllers /\ DOMAIN run' = Controllers
    BY <1>1 DEF Resume, SharedInv, database
  <1>3. v \in Views /\ SoundView(v)
    BY <1>1 DEF Views, Statuses, TaskStatus, SoundView, SharedInv
  <1>4. r \in Runs /\ SoundRun(r)
    <2>1. l \in [Nodes -> SUBSET Nodes]
      BY <1>1 DEF SharedInv
    <2>2. \A n \in Nodes : \A d \in deps[n] : d \notin l[n] => Done(d)
      BY <1>1 DEF SharedInv, Satisfied
    <2> QED
      BY <2>1, <2>2 DEF NewRun, Runs, SoundRun, ToRun
  <1>5. CtlInv(p)'
    BY <1>1, <1>2, <1>3, <1>4, CtlBecomes DEF CtlInv
  <1>6. SharedInv'
    BY <1>1, <1>2, SharedBecomes DEF SharedInv
  <1> QED
    BY <1>5, <1>6

\* A node retried by hand has its dependencies done, for p's view says so.
LEMMA RerunStep ==
  ASSUME TaskInv, Next, NEW p \in Controllers, NEW n \in Nodes, Rerun(p, n)
  PROVE  SharedInv' /\ CtlInv(p)'
  <1>1. SharedInv /\ CtlInv(p)
    BY DEF TaskInv
  <1>2. SoundView(View(p))
    BY <1>1 DEF CtlInv, SharedInv, View, Stored, SoundView
  <1>3. DepsDone(n)
    BY <1>1, <1>2 DEF Rerun, MayRerun, SoundView, DepsDone, SharedInv
  <1> DEFINE v == [View(p) EXCEPT !.status = "running"]
  <1>4. v \in Views /\ SoundView(v)
    <2>1. CASE mem[p] = None
      BY <1>1, <1>2, <2>1
      DEF View, Stored, Views, SoundView, Statuses, TaskStatus, SharedInv
    <2>2. CASE mem[p] # None
      BY <1>1, <1>2, <2>2 DEF View, Views, SoundView, Statuses, TaskStatus, CtlInv
    <2> QED
      BY <2>1, <2>2
  <1>5. /\ mem'[p] = v /\ rerun'[p] = n /\ run' = run
        /\ work'[p] = [work[p] EXCEPT ![n] = NewWork]
        /\ UNCHANGED <<nodeRow, acts>>
        /\ DOMAIN mem' = Controllers /\ DOMAIN rerun' = Controllers
        /\ DOMAIN work' = Controllers
    BY <1>1 DEF Rerun, SharedInv
  <1>6. work'[p] \in [Nodes -> Works] /\ SoundWork(work'[p])
    BY <1>1, <1>3, <1>5 DEF CtlInv, SoundWork, NewWork, Works
  <1>7. CtlInv(p)'
    BY <1>1, <1>4, <1>5, <1>6, CtlBecomes DEF CtlInv
  <1>8. SharedInv'
    BY <1>1, <1>5, SharedBecomes DEF SharedInv, Statuses, TaskStatus
  <1> QED
    BY <1>7, <1>8

\* A crash forgets all; a cancellation and an election touch nothing the
\* invariant is about.
LEMMA OutsideStep ==
  ASSUME TaskInv, Next, NEW p \in Controllers,
         Crash(p) \/ Cancel(p) \/ NewLeader(p)
  PROVE  SharedInv' /\ CtlInv(p)'
  <1>1. SharedInv /\ CtlInv(p)
    BY DEF TaskInv
  <1>2. CASE Crash(p)
    <2>1. /\ mem'[p] = None /\ run'[p] = None /\ rerun'[p] = None
          /\ work'[p] = [n \in Nodes |-> NoWork]
          /\ UNCHANGED <<nodeRow, acts>>
          /\ DOMAIN mem' = Controllers /\ DOMAIN run' = Controllers
          /\ DOMAIN rerun' = Controllers /\ DOMAIN work' = Controllers
      BY <1>1, <1>2 DEF Crash, SharedInv, database
    <2>2. work'[p] \in [Nodes -> Works] /\ SoundWork(work'[p])
      BY <2>1 DEF NoWork, Works, SoundWork
    <2> QED
      BY <1>1, <2>1, <2>2, CtlBecomes, SharedBecomes DEF SharedInv
  <1>3. CASE Cancel(p) \/ NewLeader(p)
    <2>1. UNCHANGED <<mem, run, rerun, work, nodeRow, acts>>
      BY <1>3 DEF Cancel, NewLeader, database, local
    <2> QED
      BY <1>1, <2>1, CtlBecomes, SharedBecomes DEF SharedInv, CtlInv
  <1> QED
    BY <1>2, <1>3

-----------------------------------------------------------------------------
(* The same of what a controller executes. *)

LEMMA StartStep ==
  ASSUME TaskInv, Next, NEW p \in Controllers, Start(p)
  PROVE  SharedInv' /\ CtlInv(p)'
  <1>1. /\ SharedInv /\ CtlInv(p) /\ run[p] # None /\ run[p].pc = "start"
        /\ run[p] \in Runs /\ SoundRun(run[p])
        /\ mem[p] \in Views /\ SoundView(mem[p])
    BY DEF TaskInv, Start, Running, CtlInv
  <1>2. /\ UNCHANGED <<rerun, work, acts>>
        /\ DOMAIN mem' = Controllers /\ DOMAIN run' = Controllers
    BY <1>1 DEF Start, SharedInv
  <1>3. CASE ~Cyclic(run[p].todo)
    <2>1. /\ mem'[p] = [mem[p] EXCEPT !.status = "running"]
          /\ run'[p] = [run[p] EXCEPT !.pc = "loop"] /\ nodeRow' = nodeRow
      BY <1>1, <1>3 DEF Start, SharedInv
    <2>2. mem'[p] \in Views /\ SoundView(mem'[p])
      BY <1>1, <2>1 DEF Views, SoundView, Statuses, TaskStatus
    <2>3. run'[p] \in Runs /\ SoundRun(run'[p])
      BY <1>1, <2>1 DEF Runs, SoundRun
    <2> QED
      BY <1>1, <1>2, <2>1, <2>2, <2>3, CtlBecomes, SharedBecomes DEF SharedInv, CtlInv
  <1>4. CASE Cyclic(run[p].todo)
    <2>1. PICK bad \in run[p].todo :
            LET ends == [n \in run[p].todo |-> IF n = bad THEN "failed" ELSE "skipped"] IN
            /\ nodeRow' = [n \in Nodes |-> IF n \in run[p].todo THEN ends[n] ELSE nodeRow[n]]
            /\ mem' = [mem EXCEPT ![p] = [status |-> "running",
                 results |-> [n \in Nodes |->
                   IF n \in run[p].todo THEN ends[n] ELSE mem[p].results[n]]]]
      BY <1>1, <1>4 DEF Start
    <2>2. run'[p] = [run[p] EXCEPT !.pc = "skip", !.todo = {}, !.failed = TRUE]
      BY <1>1, <1>4 DEF Start, SharedInv
    <2>3. mem'[p] \in Views /\ SoundView(mem'[p])
      BY <1>1, <2>1 DEF Views, SoundView, Statuses, TaskStatus, SharedInv
    <2>4. run'[p] \in Runs /\ SoundRun(run'[p])
      BY <1>1, <2>2 DEF Runs, SoundRun
    <2>5. /\ nodeRow' \in [Nodes -> Statuses]
          /\ \A n \in Nodes : nodeRow'[n] = "success" => Done(n)
      BY <1>1, <2>1 DEF SharedInv, Statuses, TaskStatus
    <2> QED
      BY <1>1, <1>2, <2>3, <2>4, <2>5, CtlBecomes, SharedBecomes DEF SharedInv, CtlInv
  <1> QED
    BY <1>3, <1>4

\* What a wave starts was ready in a run that had not failed.
LEMMA WaveStep ==
  ASSUME TaskInv, Next, NEW p \in Controllers, Wave(p)
  PROVE  SharedInv' /\ CtlInv(p)'
  <1>1. /\ SharedInv /\ CtlInv(p) /\ run[p] # None /\ run[p].pc = "loop"
        /\ run[p] \in Runs /\ SoundRun(run[p])
        /\ mem[p] \in Views /\ SoundView(mem[p])
    BY DEF TaskInv, Wave, Running, CtlInv
  <1>2. /\ UNCHANGED <<rerun, nodeRow, acts>>
        /\ DOMAIN mem' = Controllers /\ DOMAIN run' = Controllers
        /\ DOMAIN work' = Controllers
    BY <1>1 DEF Wave, SharedInv, database
  <1>3. /\ run'[p] = [run[p] EXCEPT !.pc = "join", !.active = run[p].ready,
                                    !.todo = @ \ run[p].ready, !.ready = {}]
        /\ mem'[p] = [mem[p] EXCEPT !.results =
             [n \in Nodes |-> IF n \in run[p].ready THEN "running" ELSE @[n]]]
        /\ work'[p] =
             [n \in Nodes |-> IF n \in run[p].ready THEN NewWork ELSE work[p][n]]
    BY <1>1 DEF Wave, SharedInv
  <1>4. \A n \in run[p].ready : DepsDone(n)
    BY <1>1 DEF SoundRun, Runs, DepsDone
  <1>5. mem'[p] \in Views /\ SoundView(mem'[p])
    BY <1>1, <1>3 DEF Views, SoundView, Statuses, TaskStatus
  <1>6. run'[p] \in Runs /\ SoundRun(run'[p])
    <2>1. run[p].ready \subseteq Nodes /\ run[p].todo \ run[p].ready \subseteq Nodes
      BY <1>1 DEF Runs
    <2>2. run'[p] \in Runs
      BY <1>1, <1>3, <2>1 DEF Runs
    <2>3. SoundRun(run'[p])
      BY <1>1, <1>3 DEF Runs, SoundRun
    <2> QED
      BY <2>2, <2>3
  <1>7. work'[p] \in [Nodes -> Works] /\ SoundWork(work'[p])
    BY <1>1, <1>3, <1>4 DEF CtlInv, Works, SoundWork, NewWork
  <1> QED
    BY <1>1, <1>2, <1>5, <1>6, <1>7, CtlBecomes, SharedBecomes DEF SharedInv, CtlInv

\* A node that succeeded is done; one that failed ends the waves.
LEMMA JoinStep ==
  ASSUME TaskInv, Next, NEW p \in Controllers, NEW n \in Nodes, Join(p, n)
  PROVE  SharedInv' /\ CtlInv(p)'
  <1> DEFINE status == IF work[p][n].pc = "ok" THEN "success" ELSE "failed"
  <1>1. /\ SharedInv /\ CtlInv(p) /\ run[p] # None /\ run[p].pc = "join"
        /\ run[p] \in Runs /\ SoundRun(run[p])
        /\ mem[p] \in Views /\ SoundView(mem[p])
        /\ status = "success" => Done(n)
    BY DEF TaskInv, Join, Running, CtlInv, SoundWork
  <1>2. /\ UNCHANGED <<rerun, acts>>
        /\ DOMAIN mem' = Controllers /\ DOMAIN run' = Controllers
        /\ DOMAIN work' = Controllers
    BY <1>1 DEF Join, Report, SharedInv
  <1>3. /\ mem'[p] = [mem[p] EXCEPT !.results = [@ EXCEPT ![n] = status]]
        /\ nodeRow' = [nodeRow EXCEPT ![n] = status]
        /\ work'[p] = [work[p] EXCEPT ![n] = NoWork]
    BY <1>1 DEF Join, Report, Save, SharedInv
  <1>4. run'[p] = [run[p] EXCEPT
          !.active = @ \ {n},
          !.failed = @ \/ status = "failed",
          !.left = [d \in Nodes |-> @[d] \ {n}],
          !.ready = @ \cup (Unblocked(run[p].left, n) \cap run[p].todo)]
    BY <1>1 DEF Join, SharedInv
  <1>5. status \in Statuses /\ (status # "failed" => Done(n))
    BY <1>1 DEF Statuses, TaskStatus
  <1>6. mem'[p] \in Views /\ SoundView(mem'[p])
    BY <1>1, <1>3, <1>5 DEF Views, SoundView
  <1>7. work'[p] \in [Nodes -> Works] /\ SoundWork(work'[p])
    BY <1>1, <1>3 DEF CtlInv, Works, SoundWork, NoWork
  <1>8. run'[p] \in Runs
    <2> DEFINE active == run[p].active \ {n}
               failed == run[p].failed \/ status = "failed"
               left == [d \in Nodes |-> run[p].left[d] \ {n}]
               ready == run[p].ready \cup (Unblocked(run[p].left, n) \cap run[p].todo)
    <2>1. active \in SUBSET Nodes /\ ready \in SUBSET Nodes
      BY <1>1 DEF Runs, Unblocked
    <2>2. left \in [Nodes -> SUBSET Nodes] /\ failed \in BOOLEAN
      BY <1>1 DEF Runs
    <2>3. run'[p] = [run[p] EXCEPT !.active = active, !.failed = failed,
                                   !.left = left, !.ready = ready]
      BY <1>4
    <2> HIDE DEF active, failed, left, ready
    <2> QED
      BY <1>1, <2>1, <2>2, <2>3 DEF Runs
  <1>9. SoundRun(run'[p])
    <2>1. /\ run'[p].pc = "join" /\ (~run'[p].failed => ~run[p].failed /\ Done(n))
          /\ run'[p].left = [d \in Nodes |-> run[p].left[d] \ {n}]
          /\ run'[p].ready =
               run[p].ready \cup (Unblocked(run[p].left, n) \cap run[p].todo)
      BY <1>1, <1>4, <1>5 DEF Runs
    <2>2. \A d \in run'[p].ready : d \in Nodes /\ run'[p].left[d] = {}
      BY <1>1, <2>1 DEF SoundRun, Unblocked, Runs
    <2>3. ASSUME ~run'[p].failed, NEW m \in Nodes, NEW d \in deps[m],
                 d \notin run'[p].left[m]
          PROVE  Done(d)
      BY <1>1, <2>1, <2>3 DEF SoundRun
    <2> QED
      BY <2>1, <2>2, <2>3 DEF SoundRun
  <1>10. /\ nodeRow' \in [Nodes -> Statuses]
         /\ \A m \in Nodes : nodeRow'[m] = "success" => Done(m)
    BY <1>1, <1>3, <1>5 DEF SharedInv
  <1> QED
    BY <1>1, <1>2, <1>6, <1>7, <1>8, <1>9, <1>10, CtlBecomes, SharedBecomes
    DEF SharedInv, CtlInv

LEMMA SkipStep ==
  ASSUME TaskInv, Next, NEW p \in Controllers, NEW n \in Nodes, Skip(p, n)
  PROVE  SharedInv' /\ CtlInv(p)'
  <1>1. /\ SharedInv /\ CtlInv(p) /\ run[p] # None /\ run[p].pc = "skip"
        /\ run[p] \in Runs /\ SoundRun(run[p])
        /\ mem[p] \in Views /\ SoundView(mem[p])
    BY DEF TaskInv, Skip, Running, CtlInv
  <1>2. /\ UNCHANGED <<rerun, work, acts>>
        /\ DOMAIN mem' = Controllers /\ DOMAIN run' = Controllers
    BY <1>1 DEF Skip, Report, SharedInv
  <1>3. /\ mem'[p] = [mem[p] EXCEPT !.results = [@ EXCEPT ![n] = "skipped"]]
        /\ nodeRow' = [nodeRow EXCEPT ![n] = "skipped"]
        /\ run'[p] = [run[p] EXCEPT !.todo = @ \ {n}]
    BY <1>1 DEF Skip, Report, Save, SharedInv
  <1>4. mem'[p] \in Views /\ SoundView(mem'[p])
    BY <1>1, <1>3 DEF Views, SoundView, Statuses, TaskStatus
  <1>5. run'[p] \in Runs /\ SoundRun(run'[p])
    BY <1>1, <1>3 DEF Runs, SoundRun
  <1>6. /\ nodeRow' \in [Nodes -> Statuses]
        /\ \A m \in Nodes : nodeRow'[m] = "success" => Done(m)
    BY <1>1, <1>3 DEF SharedInv, Statuses, TaskStatus
  <1> QED
    BY <1>1, <1>2, <1>4, <1>5, <1>6, CtlBecomes, SharedBecomes DEF SharedInv, CtlInv

\* A run goes on or ends, and its task's status is set.
LEMMA PassStep ==
  ASSUME TaskInv, Next, NEW p \in Controllers,
         Launch(p) \/ WaveEnds(p) \/ FinishView(p) \/ FinishRow(p)
  PROVE  SharedInv' /\ CtlInv(p)'
  <1>1. SharedInv /\ CtlInv(p)
    BY DEF TaskInv
  <1>2. /\ UNCHANGED <<nodeRow, rerun, work, acts>>
        /\ DOMAIN mem' = Controllers /\ DOMAIN run' = Controllers
    BY <1>1 DEF Launch, WaveEnds, FinishView, FinishRow, database, SharedInv
  <1>3. CASE Launch(p) \/ WaveEnds(p)
    <2>1. /\ run[p] # None /\ run[p] \in Runs /\ SoundRun(run[p]) /\ mem' = mem
          /\ mem[p] \in Views /\ SoundView(mem[p])
      BY <1>1, <1>3 DEF Launch, WaveEnds, Running, CtlInv
    <2>2. \/ run'[p] = [run[p] EXCEPT !.pc = "start"] /\ ~run[p].failed
          \/ run'[p] = [run[p] EXCEPT !.pc = AfterWave(run[p])]
      BY <1>1, <1>3, <2>1 DEF Launch, WaveEnds, Running, SharedInv, SoundRun
    <2>3. AfterWave(run[p]) \in {"skip", "loop"} /\
            (AfterWave(run[p]) = "loop" => ~run[p].failed)
      BY DEF AfterWave
    <2>4. run'[p] \in Runs /\ SoundRun(run'[p])
      BY <2>1, <2>2, <2>3 DEF Runs, SoundRun
    <2> QED
      BY <1>1, <1>2, <2>1, <2>4, CtlBecomes, SharedBecomes DEF SharedInv, CtlInv
  <1>4. CASE FinishView(p)
    <2>1. mem[p] \in Views /\ SoundView(mem[p])
      BY <1>1, <1>4 DEF FinishView, Running, CtlInv
    <2>2. mem'[p] = [mem[p] EXCEPT !.status = Final(p)] /\ run'[p] = None
      BY <1>1, <1>4 DEF FinishView, SharedInv
    <2>3. Final(p) \in Statuses
      BY DEF Final, Statuses, TaskStatus
    <2>4. mem'[p] \in Views /\ SoundView(mem'[p])
      BY <2>1, <2>2, <2>3 DEF Views, SoundView
    <2> QED
      BY <1>1, <1>2, <2>2, <2>4, CtlBecomes, SharedBecomes DEF SharedInv, CtlInv
  <1>5. CASE FinishRow(p)
    BY <1>1, <1>2, <1>5, CtlBecomes, SharedBecomes DEF FinishRow, SharedInv, CtlInv
  <1> QED
    BY <1>3, <1>4, <1>5

LEMMA SubmitNodeStep ==
  ASSUME TaskInv, Next, NEW p \in Controllers, NEW n \in Nodes, SubmitNode(p, n)
  PROVE  SharedInv' /\ CtlInv(p)'
  <1>1. SharedInv /\ CtlInv(p)
    BY DEF TaskInv
  <1>2. UNCHANGED <<mem, run, rerun, work, acts>>
    BY DEF SubmitNode, local
  <1>3. /\ nodeRow' \in [Nodes -> Statuses]
        /\ \A m \in Nodes : nodeRow'[m] = "success" => Done(m)
    BY <1>1 DEF SubmitNode, Save, SharedInv, Statuses, TaskStatus
  <1> QED
    BY <1>1, <1>2, <1>3, CtlBecomes, SharedBecomes DEF SharedInv, CtlInv

LEMMA RerunEndsStep ==
  ASSUME TaskInv, Next, NEW p \in Controllers, RerunEnds(p)
  PROVE  SharedInv' /\ CtlInv(p)'
  <1> DEFINE n == rerun[p]
             status == IF work[p][n].pc = "ok" THEN "success" ELSE "failed"
             results == [mem[p].results EXCEPT ![n] = status]
             all == \A m \in Nodes : results[m] \in {"success", "skipped"}
             final == IF all THEN "success" ELSE "failed"
  <1>1. /\ SharedInv /\ CtlInv(p) /\ n \in Nodes
        /\ mem[p] \in Views /\ SoundView(mem[p])
    BY DEF TaskInv, RerunEnds, CtlInv
  <1>2. status \in Statuses /\ final \in Statuses /\ (status = "success" => Done(n))
    BY <1>1 DEF Statuses, TaskStatus, CtlInv, SoundWork
  <1>3. /\ mem' = [mem EXCEPT ![p] = [status |-> final, results |-> results]]
        /\ nodeRow' = [nodeRow EXCEPT ![n] = status]
        /\ work' = [work EXCEPT ![p][n] = NoWork]
        /\ rerun' = [rerun EXCEPT ![p] = None]
        /\ UNCHANGED <<run, acts>>
    BY DEF RerunEnds, Save
  <1> HIDE DEF final, status
  <1>4. results \in [Nodes -> Statuses]
    BY <1>1, <1>2 DEF Views
  <1>5. mem'[p] \in Views /\ SoundView(mem'[p])
    BY <1>1, <1>2, <1>3, <1>4 DEF Views, SoundView, SharedInv
  <1>6. work'[p] \in [Nodes -> Works] /\ SoundWork(work'[p])
    BY <1>1, <1>3 DEF CtlInv, Works, SoundWork, NoWork, SharedInv
  <1>7. /\ nodeRow' \in [Nodes -> Statuses]
        /\ \A m \in Nodes : nodeRow'[m] = "success" => Done(m)
    BY <1>1, <1>2, <1>3 DEF SharedInv
  <1> QED
    BY <1>1, <1>3, <1>5, <1>6, <1>7, CtlBecomes, SharedBecomes DEF SharedInv, CtlInv

-----------------------------------------------------------------------------
(* run_node and its step *)

\* An attempt that fails is repeated or given up: no result is made of it.
LEMMA FailedAttempt ==
  ASSUME SharedInv, NEW p \in Controllers, CtlInv(p), NEW n \in Nodes,
         work[p][n].pc # "off", FailAttempt(p, n)
  PROVE  /\ work'[p] \in [Nodes -> Works] /\ SoundWork(work'[p])
         /\ DOMAIN work' = Controllers
  <1> DEFINE w == IF work[p][n].tries <= Retries
                  THEN [pc |-> "begin", tries |-> work[p][n].tries + 1]
                  ELSE [work[p][n] EXCEPT !.pc = "err"]
  <1>1. /\ work'[p] = [work[p] EXCEPT ![n] = w] /\ DOMAIN work' = Controllers
    BY DEF FailAttempt, SharedInv
  <1>2. w \in Works /\ w.pc \in {"begin", "err"}
    BY DEF CtlInv, Works
  <1> HIDE DEF w
  <1> QED
    BY <1>1, <1>2 DEF CtlInv, SoundWork

LEMMA Proceeds ==
  ASSUME SharedInv, NEW p \in Controllers, CtlInv(p), NEW n \in Nodes,
         work[p][n].pc # "off",
         NEW pc \in {"act", "record", "ok"}, pc = "ok" => Done(n),
         Proceed(p, n, pc)
  PROVE  /\ work'[p] \in [Nodes -> Works] /\ SoundWork(work'[p])
         /\ DOMAIN work' = Controllers
  <1>1. /\ work'[p] = [work[p] EXCEPT ![n] = [@ EXCEPT !.pc = pc]]
        /\ DOMAIN work' = Controllers
    BY DEF Proceed, SharedInv
  <1>2. [work[p][n] EXCEPT !.pc = pc] \in Works /\ [work[p][n] EXCEPT !.pc = pc].pc = pc
    BY DEF CtlInv, Works
  <1> QED
    BY <1>1, <1>2 DEF CtlInv, SoundWork

LEMMA BeginActStep ==
  ASSUME TaskInv, Next, NEW p \in Controllers, NEW n \in Nodes,
         Begin(p, n) \/ Act(p, n)
  PROVE  SharedInv' /\ CtlInv(p)'
  <1>1. SharedInv /\ CtlInv(p) /\ work[p][n].pc # "off"
    BY DEF TaskInv, Begin, Act, Working
  <1>2. UNCHANGED <<nodeRow, mem, run, rerun>> /\ acts' \in [Nodes -> Nat]
    BY <1>1 DEF Begin, Act, database, SharedInv
  <1>3. \/ FailAttempt(p, n) \/ Proceed(p, n, "act") \/ Proceed(p, n, "record")
        \/ Proceed(p, n, "ok") /\ Done(n)
    BY DEF Begin, Act, KnownDone, Done
  <1>4. /\ work'[p] \in [Nodes -> Works] /\ SoundWork(work'[p])
        /\ DOMAIN work' = Controllers
    <2>1. CASE FailAttempt(p, n)
      BY <1>1, <2>1, FailedAttempt
    <2>2. CASE Proceed(p, n, "act") \/ Proceed(p, n, "record")
      BY <1>1, <2>2, Proceeds
    <2>3. CASE Proceed(p, n, "ok") /\ Done(n)
      BY <1>1, <2>3, Proceeds
    <2> QED
      BY <1>3, <2>1, <2>2, <2>3
  <1> QED
    BY <1>1, <1>2, <1>4, CtlBecomes, SharedBecomes DEF SharedInv, CtlInv

\* The result enters the ledger as the step returns.
LEMMA RecordStep ==
  ASSUME TaskInv, Next, NEW p \in Controllers, NEW n \in Nodes, Record(p, n)
  PROVE  SharedInv' /\ CtlInv(p)'
  <1>1. SharedInv /\ CtlInv(p) /\ work[p][n].pc # "off"
    BY DEF TaskInv, Record, Working
  <1>2. UNCHANGED <<nodeRow, acts, mem, run, rerun>>
    BY DEF Record, database
  <1>3. CASE FailAttempt(p, n)
    BY <1>1, <1>2, <1>3, FailedAttempt, CtlBecomes, SharedBecomes
    DEF SharedInv, CtlInv
  <1>4. CASE ledger' = [ledger EXCEPT ![n] = "done"] /\ Proceed(p, n, "ok")
    <2>1. /\ work'[p] = [work[p] EXCEPT ![n] = [@ EXCEPT !.pc = "ok"]]
          /\ DOMAIN work' = Controllers
      BY <1>1, <1>4 DEF Proceed, SharedInv
    <2>2. work'[p] \in [Nodes -> Works] /\ Done(n)'
      BY <1>1, <1>4, <2>1 DEF CtlInv, Works, Done, SharedInv
    <2>3. SoundWork(work[p])'
      BY <1>1, <2>1, <2>2, DoneStays DEF CtlInv, SoundWork, Works
    <2>4. SoundView(mem[p]) => SoundView(mem[p])'
      BY <1>2, DoneStays, <1>1 DEF SoundView
    <2>5. SoundRun(run[p]) => SoundRun(run[p])'
      BY <1>1, <1>2, DoneStays DEF SoundRun, SharedInv
    <2>6. CtlInv(p)'
      BY <1>1, <1>2, <2>2, <2>3, <2>4, <2>5 DEF CtlInv
    <2>7. SharedInv'
      BY <1>1, <1>2, <2>1, SharedBecomes DEF SharedInv
    <2> QED
      BY <2>6, <2>7
  <1> QED
    BY <1>3, <1>4 DEF Record

-----------------------------------------------------------------------------
LEMMA TaskStep == TaskInv /\ [Next]_vars => TaskInv'
  <1> SUFFICES ASSUME TaskInv, [Next]_vars PROVE TaskInv'
    OBVIOUS
  <1>1. CASE Next
    <2>1. PICK p \in Procs :
            \/ Submit(p) \/ Execute(p) \/ Cancel(p) \/ Resume(p) \/ Crash(p)
            \/ NewLeader(p) \/ \E n \in Nodes : Rerun(p, n)
      BY <1>1 DEF Next
    <2>2. p \in Controllers
      BY ProcsAreControllers DEF TaskInv
    <2>3. SharedInv' /\ CtlInv(p)'
      <3>1. CASE Execute(p)
        BY <1>1, <2>2, <3>1, StartStep, WaveStep, JoinStep, SkipStep, PassStep,
           SubmitNodeStep, RerunEndsStep, BeginActStep, RecordStep DEF Execute
      <3> QED
        BY <1>1, <2>1, <2>2, <3>1, SubmitStep, ResumeStep, RerunStep, OutsideStep
    <2>4. ASSUME NEW q \in Controllers, q # p PROVE CtlInv(q)'
      BY <1>1, <2>1, <2>4, OthersKeep DEF TaskInv
    <2> QED
      BY <2>3, <2>4 DEF TaskInv
  <1>2. CASE UNCHANGED vars
    <2>1. UNCHANGED <<setting, deps, nodeRow, ledger, acts, mem, run, rerun, work>>
      BY <1>2 DEF vars, input, database, local
    <2> QED
      BY <2>1, CtlBecomes, SharedBecomes DEF TaskInv, SharedInv, CtlInv
  <1> QED
    BY <1>1, <1>2

(***************************************************************************)
(* dag.rs, execute, rerun_node and resume_pending, over the step ledger of  *)
(* instance.rs: a node's side effect happens only when the ledger holds a   *)
(* result of every node it depends on.                                      *)
(***************************************************************************)
THEOREM DependenciesComeFirst == Spec => DepsFirst
  <1>1. TaskInv /\ [Next]_vars =>
          [\A n \in Nodes : acts'[n] # acts[n] =>
             \A d \in deps[n] : ledger[d] = "done"]_vars
    <2> SUFFICES ASSUME TaskInv, Next, NEW n \in Nodes, acts'[n] # acts[n]
                 PROVE  \A d \in deps[n] : ledger[d] = "done"
      OBVIOUS
    <2>1. PICK p \in Procs :
            \/ Submit(p) \/ Execute(p) \/ Cancel(p) \/ Resume(p) \/ Crash(p)
            \/ NewLeader(p) \/ \E m \in Nodes : Rerun(p, m)
      BY DEF Next
    <2>2. CASE Execute(p)
      <3>1. PICK m \in Nodes : Act(p, m)
        BY <2>2 DEF Execute, Launch, Start, Wave, WaveEnds, FinishView, FinishRow,
                    RerunEnds, SubmitNode, Join, Skip, Begin, Record
      <3>2. m = n
        BY <3>1 DEF Act, TaskInv, SharedInv
      <3> QED
        BY <3>1, <3>2, ProcsAreControllers
        DEF Act, Working, TaskInv, CtlInv, SoundWork, DepsDone, Done
    <2> QED
      BY <2>1, <2>2 DEF Submit, Cancel, Resume, Crash, NewLeader, Rerun
  <1> QED
    BY <1>1, InitTask, TaskStep, PTL DEF Spec, DepsFirst
=============================================================================
