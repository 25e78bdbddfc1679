----------------------------- MODULE InstanceOps -----------------------------
(***************************************************************************)
(* The lifecycle of one instance on the control plane (instance.rs): the    *)
(* requests that change it, the tasks and workers they start and the        *)
(* watchers that end them, the health sweep and its automatic failover, the *)
(* record each controller keeps in memory and in the sink, and restarts.    *)
(*                                                                          *)
(* A request checks a copy of the record, takes the operation lock and only *)
(* then writes; the lock is op_locks of its controller and the shared lease *)
(* (InstanceLease models the lease itself: here it is held or free).        *)
(* Containers are the world's; a task may fail before any of its steps.     *)
(***************************************************************************)
EXTENDS Integers, Sequences, FiniteSets, Functions

CONSTANTS
  Replicas,   \* controllers
  Requests,   \* bound: requests and failovers under way at a time
  None,
  Settings    \* bound: the settings a behaviour may have

Events == {"asks", "failures", "rejects", "faults", "crashes", "toggles", "deletes", "strays"}

\* Which controllers run, whether they are a cluster, the operations that may be
\* asked, the slaves an instance is created with, and how often each event occurs.
ASSUME SettingsAssumption ==
  \A s \in Settings :
    s \in [up : SUBSET Replicas, cluster : BOOLEAN, ops : SUBSET STRING,
           slaves : Nat, limits : [Events -> Nat]]

VARIABLES
  setting,
  view,     \* each controller's record of the instance, None if it has none
  sink,     \* the record in the metadata database
  locked,   \* controllers whose op_locks holds the instance
  lease,    \* the controller that holds the shared lock, or None
  req,      \* requests with the task, worker and watcher they start
  sweep,    \* each controller's sweep of the instance
  boxes,    \* database containers that exist, by number; the first is 0
  ill,      \* what ails the data plane: "well", "slave" or "master"
  spent

record == <<view, sink>>
lock == <<locked, lease>>
world == <<boxes, ill>>
vars == <<setting, record, lock, req, sweep, world, spent>>

Up == setting.up         \* bound
Cluster == setting.cluster
Limits == setting.limits \* bound

Busy == {"creating", "scaling", "switching", "destroying"}
Settled == {"running", "degraded", "failed", "destroyed"}
Lifecycle == {"create", "destroy", "read", "offline", "switch"}
Ops == Lifecycle \cup {"backup", "reparent", "rollback"}

\* states: what the last sweep wrote about the nodes (node_states).
NewRecord ==
  [status |-> "creating", on |-> TRUE, states |-> "none",
   nodes |-> [i \in 1 .. setting.slaves + 1 |-> [box |-> i - 1, offline |-> FALSE]]]
BoxesOf(r) == {n.box : n \in Range(r.nodes)}
NextBox(r) == Len(r.nodes)   \* slave-{n}: one more than the slaves there are
HasOffline(r) == \E n \in Range(r.nodes) : n.offline

Free == [pc |-> "free", at |-> None, op |-> "backup", seen |-> None, watched |-> FALSE]

Init ==
  /\ setting \in Settings
  /\ view = [r \in Replicas |-> None] /\ sink = None
  /\ locked = {} /\ lease = None
  /\ req = [q \in Requests |-> Free]
  /\ sweep = [r \in Replicas |-> None]
  /\ boxes = {} /\ ill = "well"
  /\ spent = [e \in Events |-> 0]

Spend(e) ==
  /\ spent[e] < Limits[e]
  /\ spent' = [spent EXCEPT ![e] = @ + 1]
Go(q, pc) == req' = [req EXCEPT ![q].pc = pc]

\* persist: every record this controller has goes to the sink.
Persist(r, rec) == sink' = IF rec = None THEN sink ELSE rec
Write(r, rec) == view' = [view EXCEPT ![r] = rec] /\ Persist(r, rec)
SetStatus(r, status) ==
  IF view[r] = None THEN Write(r, None) ELSE Write(r, [view[r] EXCEPT !.status = status])

-----------------------------------------------------------------------------
(* Requests: the check on a copy, the lock, the write. *)

\* assert_state and the other refusals of each operation.
Allowed(op, rec) ==
  CASE op = "create"   -> rec = None
    [] op = "destroy"  -> rec # None /\ rec.status \in {"running", "degraded", "failed"}
    [] op = "offline"  -> rec # None /\ rec.status = "running" /\ rec.on /\ ~HasOffline(rec)
    [] op = "rollback" -> rec # None /\ rec.status = "running"
    [] OTHER           -> rec # None /\ rec.status = "running" /\ rec.on

Ask(q, r, op) ==
  /\ req[q].pc = "free" /\ r \in Up /\ op \in setting.ops
  /\ Allowed(op, view[r])
  /\ Spend("asks")
  /\ req' = [req EXCEPT ![q] =
       [pc |-> "lock", at |-> r, op |-> op, seen |-> view[r], watched |-> TRUE]]
  /\ UNCHANGED <<setting, record, lock, sweep, world>>

\* lock_instance looks into op_locks, then asks the shared authority.
Look(q) ==
  LET r == req[q].at IN
  /\ req[q].pc = "lock"
  /\ IF r \in locked THEN req' = [req EXCEPT ![q] = Free] ELSE Go(q, "acquire")
  /\ UNCHANGED <<setting, record, lock, sweep, world, spent>>

\* The first step of what each operation does once it has the lock.
FirstStep ==
  [op \in Ops |-> CASE op = "create" -> "make" [] op \in {"read", "offline"} -> "make"
                    [] op = "destroy" -> "remove" [] OTHER -> "work"]

Acquire(q) ==
  LET r == req[q].at
      op == req[q].op IN
  /\ req[q].pc = "acquire"
  /\ IF lease \notin {None, r}
       THEN req' = [req EXCEPT ![q] = Free] /\ UNCHANGED lock
       ELSE /\ lease' = r /\ locked' = locked \cup {r}
            /\ Go(q, "write")
  /\ UNCHANGED <<setting, record, sweep, world, spent>>

\* destroy and the scale-outs put back the copy they checked; switch writes the
\* record as it is now; backup, module and reparent write nothing.
Record(q) ==
  LET r == req[q].at
      op == req[q].op
      seen == req[q].seen IN
  /\ req[q].pc = "write"
  /\ CASE op = "create"  -> Write(r, NewRecord)
       [] op = "destroy" -> Write(r, [seen EXCEPT !.status = "destroying"])
       [] op \in {"read", "offline"} -> Write(r, [seen EXCEPT !.status = "scaling"])
       [] op = "switch"  -> SetStatus(r, "switching")
       [] OTHER -> UNCHANGED record
  /\ req' = [req EXCEPT ![q].pc = FirstStep[op],
       ![q].seen = IF op = "create" THEN NewRecord ELSE seen]
  /\ UNCHANGED <<setting, lock, sweep, world, spent>>

\* create of a xenon instance is refused after it has locked (too many nodes).
Reject(q) ==
  /\ req[q].pc = "write" /\ req[q].op = "create"
  /\ Spend("rejects")
  /\ req' = [req EXCEPT ![q] = Free]
  /\ UNCHANGED <<setting, record, lock, sweep, world>>

\* delete_instance takes no lock; instance_delete removes the row of the sink.
Delete(r) ==
  /\ view[r] # None /\ view[r].status = "destroyed"
  /\ Spend("deletes")
  /\ view' = [view EXCEPT ![r] = None] /\ sink' = None
  /\ UNCHANGED <<setting, lock, req, sweep, world>>

\* set_instance_enabled, without a lock.
Toggle(r) ==
  /\ view[r] # None /\ view[r].status # "destroyed"
  /\ Spend("toggles")
  /\ Write(r, [view[r] EXCEPT !.on = ~@])
  /\ UNCHANGED <<setting, lock, req, sweep, world>>

-----------------------------------------------------------------------------
(* Tasks. Several steps of the code are one step here; `world' is external. *)

\* DockerRun and replication; a name that is taken is refused.
Make(q) ==
  LET new == IF req[q].op = "create" THEN BoxesOf(req[q].seen) ELSE {NextBox(req[q].seen)} IN
  /\ req[q].pc = "make"
  /\ IF new \cap boxes # {}
       THEN Go(q, "lost") /\ UNCHANGED boxes
       ELSE boxes' = boxes \cup new /\ Go(q, "verify")
  /\ UNCHANGED <<setting, record, lock, sweep, ill, spent>>

\* VerifyReplication or VerifyScaleout; then UpdateInstanceTopology.
Verify(q) ==
  LET r == req[q].at
      op == req[q].op
      node == [box |-> NextBox(req[q].seen), offline |-> op = "offline"] IN
  /\ req[q].pc = "verify"
  /\ IF op = "create" \/ view[r] = None
       THEN UNCHANGED record
       ELSE Write(r, [view[r] EXCEPT !.nodes = Append(@, node)])
  /\ Go(q, "last")
  /\ UNCHANGED <<setting, lock, sweep, world, spent>>

\* UpdateInstanceStatus, the last step of a lifecycle task.
Finish(q) ==
  /\ req[q].pc = "last"
  /\ SetStatus(req[q].at, IF req[q].op = "destroy" THEN "destroyed" ELSE "running")
  /\ Go(q, "won")
  /\ UNCHANGED <<setting, lock, sweep, world, spent>>

\* destroy_nodes: the containers of the copy, then the network, which docker
\* keeps while a container uses it.
Remove(q) ==
  /\ req[q].pc = "remove"
  /\ boxes' = boxes \ BoxesOf(req[q].seen)
  /\ Go(q, "network")
  /\ UNCHANGED <<setting, record, lock, sweep, ill, spent>>

RemoveNetwork(q) ==
  /\ req[q].pc = "network"
  /\ Go(q, IF boxes = {} THEN "last" ELSE "lost")
  /\ UNCHANGED <<setting, record, lock, sweep, world, spent>>

\* The data-plane work of a switch, a backup or a module.
Work(q) ==
  /\ req[q].pc = "work" /\ req[q].op \in {"switch", "backup"}
  /\ Go(q, IF req[q].op = "switch" THEN "last" ELSE "won")
  /\ UNCHANGED <<setting, record, lock, sweep, world, spent>>

Steps == {"make", "verify", "remove", "network", "work"}

Fail(q) ==
  /\ req[q].pc \in Steps /\ req[q].op \notin {"reparent", "rollback"}
  /\ Spend("failures")
  /\ Go(q, "lost")
  /\ UNCHANGED <<setting, record, lock, sweep, world>>

\* A node besides the master to promote.
LiveSlave(rec) == rec # None /\ Cardinality(BoxesOf(rec) \cap boxes) > 1

\* run_reparent and the unlock after it. A dead master that was replaced is an
\* ailing slave.
Reparent(q) ==
  LET r == req[q].at IN
  /\ req[q].pc = "work" /\ req[q].op \in {"reparent", "rollback"}
  /\ LiveSlave(view[r])
  /\ ill' = IF ill = "master" THEN "slave" ELSE ill
  /\ Write(r, view[r])
  /\ Go(q, "won")
  /\ UNCHANGED <<setting, lock, sweep, boxes, spent>>

ReparentFails(q) ==
  LET r == req[q].at IN
  /\ req[q].pc = "work" /\ req[q].op \in {"reparent", "rollback"}
  /\ IF LiveSlave(view[r]) THEN Spend("failures") ELSE UNCHANGED spent
  /\ SetStatus(r, "degraded")
  /\ Go(q, "won")
  /\ UNCHANGED <<setting, lock, sweep, world>>

-----------------------------------------------------------------------------
(* watch_task and watch_backup_task: the lock first, then the verdict. *)

\* unlock_instance frees op_locks, and the lease this controller holds.
Unlock(r) ==
  /\ locked' = locked \ {r}
  /\ lease' = IF lease = r THEN None ELSE lease

WatchWon(q) ==
  /\ req[q].pc = "won"
  /\ IF req[q].watched THEN Unlock(req[q].at) ELSE UNCHANGED lock
  /\ req' = [req EXCEPT ![q] = Free]
  /\ UNCHANGED <<setting, record, sweep, world, spent>>

\* Mutant: the watcher that keeps the lock of an operation that failed.
WatchLostKeeping(q) ==
  /\ req[q].pc = "lost"
  /\ IF req[q].watched /\ req[q].op \in Lifecycle
       THEN Go(q, "mark")
       ELSE req' = [req EXCEPT ![q] = Free]
  /\ UNCHANGED <<setting, record, lock, sweep, world, spent>>

WatchLost(q) ==
  /\ req[q].pc = "lost"
  /\ IF req[q].watched THEN Unlock(req[q].at) ELSE UNCHANGED lock
  /\ IF req[q].watched /\ req[q].op \in Lifecycle
       THEN Go(q, "mark")
       ELSE req' = [req EXCEPT ![q] = Free]
  /\ UNCHANGED <<setting, record, sweep, world, spent>>

MarkFailed(q) ==
  LET r == req[q].at IN
  /\ req[q].pc = "mark"
  /\ IF view[r] # None /\ view[r].status # "destroyed"
       THEN SetStatus(r, "failed")
       ELSE Write(r, view[r])
  /\ req' = [req EXCEPT ![q] = Free]
  /\ UNCHANGED <<setting, lock, sweep, world, spent>>

-----------------------------------------------------------------------------
(* The sweep: a copy of the record, a look at op_locks, the probes, the verdict. *)

SweepScan(r) ==
  /\ r \in Up /\ sweep[r] = None
  /\ view[r] # None /\ view[r].status \in {"running", "degraded"}
  /\ sweep' = [sweep EXCEPT ![r] = [pc |-> "visit", seen |-> view[r], bad |-> FALSE]]
  /\ UNCHANGED <<setting, record, lock, req, world, spent>>

SweepVisit(r) ==
  /\ sweep[r] # None /\ sweep[r].pc = "visit"
  /\ sweep' = IF r \in locked THEN [sweep EXCEPT ![r] = None]
                              ELSE [sweep EXCEPT ![r].pc = "probe"]
  /\ UNCHANGED <<setting, record, lock, req, world, spent>>

Problems(rec) == ill # "well" \/ ~(BoxesOf(rec) \subseteq boxes)
MasterDown == ill = "master" \/ boxes = {}

\* apply_node_states persists what changed.
ApplyNodeStates(r, states) ==
  IF view[r] = None \/ view[r].states = states
    THEN UNCHANGED record
    ELSE Write(r, [view[r] EXCEPT !.states = states])

\* auto_failover_if_needed asks for a reparent like any other request.
WantsFailover(r, seen) ==
  /\ MasterDown /\ LiveSlave(seen) /\ seen.on
  /\ r \notin locked
  /\ Allowed("reparent", view[r])

SweepProbe(r) ==
  LET seen == sweep[r].seen IN
  /\ sweep[r] # None /\ sweep[r].pc = "probe"
  /\ sweep' = [sweep EXCEPT ![r].pc = "judge", ![r].bad = Problems(seen)]
  /\ ApplyNodeStates(r, IF Problems(seen) THEN "bad" ELSE "ok")
  /\ IF WantsFailover(r, seen)
       THEN \E q \in Requests :
              /\ req[q].pc = "free"
              /\ req' = [req EXCEPT ![q] = [pc |-> "lock", at |-> r, op |-> "reparent",
                                            seen |-> view[r], watched |-> TRUE]]
       ELSE UNCHANGED req
  /\ UNCHANGED <<setting, lock, world, spent>>

\* set_status, whatever the record says by now; nothing for a well instance that
\* ran, or when an ailing one ails as before.
SweepJudge(r) ==
  LET s == sweep[r] IN
  /\ s # None /\ s.pc = "judge"
  /\ sweep' = [sweep EXCEPT ![r] = None]
  /\ \/ s.bad /\ SetStatus(r, "degraded")
     \/ ~s.bad /\ s.seen.status = "degraded" /\ SetStatus(r, "running")
     \/ s.bad = (s.seen.status = "degraded") /\ UNCHANGED record
  /\ UNCHANGED <<setting, lock, req, world, spent>>

\* The database servers: something breaks, or is repaired.
Ail ==
  /\ boxes # {}
  /\ Spend("faults")
  /\ ill' \in {"well", "slave", "master"} \ {ill}
  /\ UNCHANGED <<setting, record, lock, req, sweep, boxes>>

-----------------------------------------------------------------------------
(* Several controllers, and restarts. *)

\* refresh_from_sink, of an instance with no operation under way here. A record
\* this controller already has gets the status and the node states only.
Refresh(r) ==
  /\ Cluster /\ r \in Up /\ r \notin locked
  /\ sink # None
  /\ view' = [view EXCEPT ![r] =
       IF @ = None THEN sink ELSE [@ EXCEPT !.status = sink.status, !.states = sink.states]]
  /\ view' # view
  /\ UNCHANGED <<setting, sink, lock, req, sweep, world, spent>>

\* An operation on another instance persists this one's record too.
Stray(r) ==
  /\ Cluster /\ view[r] # None
  /\ sink # view[r]
  /\ Spend("strays")
  /\ Persist(r, view[r])
  /\ UNCHANGED <<setting, view, lock, req, sweep, world>>

\* Mutant: the loader that takes every status as it stands.
LoadedAsIs == sink

\* load_persisted: alone, an operation that was under way has failed.
Loaded ==
  IF sink # None /\ sink.status \in Busy /\ ~Cluster
    THEN [sink EXCEPT !.status = "failed"] ELSE sink

\* A crash and restart. Alone, the tasks are marked interrupted and the locks
\* cleared; in a cluster the leader takes up the tasks, which nobody watches, and
\* the lease stays until it expires.
Restart(r, leader) ==
  /\ r \in Up /\ leader \in Up
  /\ Spend("crashes")
  /\ view' = [view EXCEPT ![r] = Loaded]
  /\ locked' = locked \ {r}
  /\ lease' = IF Cluster THEN lease ELSE None
  /\ sweep' = [sweep EXCEPT ![r] = None]
  /\ req' = [q \in Requests |->
       IF req[q].at # r THEN req[q]
       ELSE IF Cluster /\ req[q].pc \in Steps \cup {"last"}
                       /\ req[q].op \notin {"reparent", "rollback"}
         THEN [req[q] EXCEPT !.at = leader, !.watched = FALSE,
                 !.pc = IF @ = "last" /\ req[q].op \in {"read", "offline"} THEN "verify" ELSE @]
         ELSE Free]
  /\ UNCHANGED <<setting, sink, world>>

\* The lease of a controller that works on nothing here runs out.
Expire ==
  /\ Cluster /\ lease # None /\ lease \notin locked
  /\ lease' = None
  /\ UNCHANGED <<setting, record, locked, req, sweep, world, spent>>
-----------------------------------------------------------------------------
Handle(q) ==
  \/ Look(q) \/ Acquire(q) \/ Record(q)
  \/ Make(q) \/ Verify(q) \/ Finish(q) \/ Remove(q) \/ RemoveNetwork(q) \/ Work(q)
  \/ Reparent(q) \/ ReparentFails(q)
  \/ WatchWon(q) \/ WatchLost(q) \/ MarkFailed(q)

Sweep(r) == SweepScan(r) \/ SweepVisit(r) \/ SweepProbe(r) \/ SweepJudge(r)

Next ==
  \/ \E q \in Requests : Handle(q) \/ Reject(q) \/ Fail(q)
  \/ \E q \in Requests, r \in Replicas, op \in Ops : Ask(q, r, op)
  \/ \E r \in Replicas : Sweep(r) \/ Delete(r) \/ Toggle(r) \/ Refresh(r) \/ Stray(r)
  \/ \E r, leader \in Replicas : Restart(r, leader)
  \/ Ail \/ Expire

\* Requests, tasks and watchers are scheduled, and the sweep and the refresh run
\* at their intervals; nobody has to ask for anything.
Fairness ==
  /\ \A q \in Requests : WF_vars(Handle(q))
  /\ \A r \in Replicas : WF_vars(Sweep(r)) /\ WF_vars(Refresh(r))

Spec == Init /\ [][Next]_vars
FairSpec == Spec /\ Fairness
-----------------------------------------------------------------------------
(* Properties *)

OpRecord ==
  [status : Busy \cup Settled, on : BOOLEAN, states : {"none", "ok", "bad"},
   nodes : Seq([box : Nat, offline : BOOLEAN])]
Records == OpRecord \cup {None}

\* None is no record and no controller.
ASSUME NoneAssumption == None \notin OpRecord /\ None \notin Replicas

\* The state has the shape of the code's records, locks and task states.
TypeOK ==
  /\ view \in [Replicas -> Records] /\ sink \in Records
  /\ locked \subseteq Up /\ lease \in Up \cup {None}
  /\ \A q \in Requests :
       /\ req[q].pc \in Steps \cup {"free", "lock", "acquire", "write", "last",
                                   "won", "lost", "mark"}
       /\ req[q].at \in Up \cup {None} /\ req[q].op \in Ops
       /\ req[q].seen \in Records /\ req[q].watched \in BOOLEAN
  /\ \A r \in Replicas :
       sweep[r] # None => sweep[r].pc \in {"visit", "probe", "judge"} /\ sweep[r].seen \in Records
  /\ boxes \subseteq Nat /\ ill \in {"well", "slave", "master"}

\* A lifecycle operation whose verdict is still to come.
WorksOn(q, r) ==
  /\ req[q].at = r /\ req[q].op \in Lifecycle
  /\ req[q].pc \in Steps \cup {"last", "lost", "mark"}

\* Creating, scaling, switching and destroying are passing states: somebody is
\* at work who will replace the status, after a restart as well, since no operation
\* accepts an instance in such a state. (A controller alone; see README.)
BusyHasWorker ==
  \A r \in Up :
    ~Cluster /\ view[r] # None /\ view[r].status \in Busy => \E q \in Requests : WorksOn(q, r)

\* A create refused after it locked keeps its lock (see README).
Leaked == spent["rejects"] > 0

\* The watcher or the worker of an operation frees its instance in the end.
LockFreed == \A r \in Replicas : (r \in locked) ~> (r \notin locked \/ Leaked)

Ailing(r) == view[r] # None /\ Problems(view[r])
Well(r) == view[r] # None /\ ~Problems(view[r])
Says(r, status) == view[r] # None /\ view[r].status = status

\* The sweep brings the status in line with the containers: what keeps ailing
\* does not stay running, what is well does not stay degraded.
HealthShown ==
  \A r \in Replicas :
    /\ <>[]Ailing(r) => <>[](Leaked \/ ~Says(r, "running"))
    /\ <>[]Well(r) => <>[](Leaked \/ ~Says(r, "degraded"))

\* A node once registered stays in the sink's record until the instance is
\* destroyed, whichever controller writes the record (refresh_from_sink is there
\* to make the controllers' views converge).
NodesKept ==
  [][sink # None /\ sink' # None /\ sink'.status \notin {"creating", "destroying", "destroyed"}
       => BoxesOf(sink) \subseteq BoxesOf(sink')]_vars

\* A destroy that has removed its containers has removed every container of the
\* instance, those an operation that failed has left as well (destroy accepts
\* failed instances to clear what is left of them).
DestroyRemovesAll == \A q \in Requests : req[q].pc = "network" => boxes = {}

\* The sweep leaves alone an instance whose lifecycle operation is under way.
SweepDisturbsNone ==
  [][\A r \in Replicas : SweepJudge(r) /\ view' # view => r \notin locked]_vars

\* A dead master with a live slave does not stay so: the sweep promotes a slave.
FailoverHappens ==
  \A r \in Replicas : ~<>[](ill = "master" /\ LiveSlave(view[r]) /\ view[r].on)
=============================================================================
