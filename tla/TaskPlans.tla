------------------------------ MODULE TaskPlans ------------------------------
(***************************************************************************)
(* The plans the control plane makes for one instance (instance.rs): the    *)
(* tasks that create it in each architecture, scale it out, back it up and  *)
(* destroy it, as nodes with dependencies and steps, and what their steps   *)
(* find and change on the hosts when the scheduler runs independent nodes   *)
(* in any order.  TaskScheduler models the scheduler, InstanceOps the       *)
(* requests around the tasks; here one task runs at a time and the plans    *)
(* and the steps are what is modelled.                                      *)
(*                                                                          *)
(* A container is <<"master", shard>>, <<"slave", shard, k>>,               *)
(* <<"xenon", k>>, <<"proxy", k>> or <<"dts", container>>, the placeholder  *)
(* of a DTS link; a node that starts one bears its name.                    *)
(***************************************************************************)
EXTENDS Integers, SequencesExt

CONSTANTS
  Shapes,    \* bound: the instances that may be asked for
  Limits,    \* bound: how many requests, failing steps and deaths there are
  None

VARIABLES
  shape,     \* [itype, shards, proxies, members, dts] as create was given them
  clustered, \* the controller runs in a cluster: steps are kept in a ledger
  rec,       \* containers in the record of the instance: [nodes, proxies]
  status,
  task,      \* the task that runs, with what its nodes have done, or None
  boxes,     \* containers that exist
  alive,     \* those that run
  ready,     \* those whose MySQL answers
  net,       \* the instance's network exists
  fwd,       \* its access forwarder listens
  links,     \* rds_dts: the status of each DTS link, by its node
  lost,      \* containers of scale-outs that failed
  spent

world == <<boxes, alive, ready, net, fwd>>
vars == <<shape, clustered, rec, status, task, world, links, lost, spent>>

Do(op, on) == [op |-> op, on |-> on]
Node(deps, retries, steps) == [deps |-> deps, retries |-> retries, steps |-> steps]

-----------------------------------------------------------------------------
(* Creating. *)

Master(g) == <<"master", g>>
SlaveKinds(itype) ==
  CASE itype = "single" -> <<>> [] itype = "sync" -> <<"read">> [] OTHER -> <<"read", "offline">>
Slaves(s, g) == [k \in 1 .. Len(SlaveKinds(s.itype)) |-> <<"slave", g, k>>]
Group(s, g) == <<Master(g)>> \o Slaves(s, g)
Members(s) == [k \in 1 .. s.members |-> <<"xenon", k>>]
Proxies(s) == [k \in 1 .. s.proxies |-> <<"proxy", k>>]

\* The record build_single_inst, build_multi_inst and build_xenon_inst make.
NewRecord(s) ==
  [proxies |-> Proxies(s),
   nodes |-> IF s.itype = "xenon" THEN Members(s)
             ELSE FlattenSeq([g \in 1 .. s.shards |-> Group(s, g)])]

NetNode == <<"net">> :> Node({}, 1, <<Do("network", {})>>)
Started(c) == <<Do("run", {c}), Do("wait", {c}), Do("sql", {c})>>
Starts(cs, deps) == [c \in Range(cs) |-> Node(deps, 1, Started(c))]
Done(deps) == <<"done">> :> Node(deps, 0, <<Do("running", {})>>)

\* The configuration, the proxies and the forwarder, which waits for the last proxy.
AccessNodes(s, deps) ==
  (<<"conf">> :> Node(deps, 0, <<Do("conf", {})>>))
  @@ [p \in Range(Proxies(s)) |-> Node({<<"conf">>}, 1, <<Do("run", {p})>>)]
  @@ (<<"lvs">> :> Node({<<"proxy", s.proxies>>}, 2, <<Do("forward", {})>>))

CreateNodes(s) ==
  LET slaves == Slaves(s, 1)
      verify == IF slaves = <<>> THEN <<>> ELSE <<Do("replicated", Range(Group(s, 1)))>> IN
  NetNode @@ Starts(<<Master(1)>>, {<<"net">>}) @@ Starts(slaves, {Master(1)})
  @@ AccessNodes(s, Range(Group(s, 1)))
  @@ (<<"verify">> :> Node({<<"lvs">>}, 2, Append(verify, Do("running", {}))))

CreateNodesMulti(s) ==
  LET groups == 1 .. s.shards
      masters == [g \in groups |-> Master(g)] IN
  NetNode @@ Starts(masters, {<<"net">>})
  @@ [c \in UNION {Range(Slaves(s, g)) : g \in groups} |-> Node({Master(c[2])}, 1, Started(c))]
  @@ AccessNodes(s, {Master(1), <<"slave", 1, 1>>})
  @@ [v \in {<<"verify", g>> : g \in groups} |->
        Node(Range(Slaves(s, v[2])) \cup {<<"lvs">>}, 2,
             <<Do("replicated", Range(Group(s, v[2])))>>)]
  @@ Done({<<"verify", g>> : g \in groups})

XenonStarted(c) == <<Do("run", {c}), Do("wait", {c})>>

CreateNodesXenon(s) ==
  NetNode
  @@ [c \in Range(Members(s)) |-> Node({<<"net">>}, 1, XenonStarted(c))]
  @@ (<<"verify">> :> Node(Range(Members(s)), 2, <<Do("joined", Range(Members(s)))>>))
  @@ (IF s.proxies = 0 THEN Done({<<"verify">>})
      ELSE AccessNodes(s, {<<"verify">>}) @@ Done({<<"lvs">>}))

ArchitecturePlan(s) ==
  CASE s.itype = "xenon" -> CreateNodesXenon(s)
    [] s.itype # "xenon" /\ s.shards > 1 -> CreateNodesMulti(s)
    [] OTHER -> CreateNodes(s)

\* The nodes that get a DTS link with the instance: its offline slaves, or else the first
\* read slave of each shard.
DtsBox(c) == <<"dts", c>>
DtsTargets(s) ==
  CASE s.itype = "single" -> {}
    [] s.itype = "xenon"  -> {<<"xenon", 2>>} \cap Range(Members(s))
    [] s.itype = "sync"   -> {<<"slave", g, 1>> : g \in 1 .. s.shards}
    [] OTHER              -> {<<"slave", g, 2>> : g \in 1 .. s.shards}

LastNode(s) == IF s.itype # "xenon" /\ s.shards = 1 THEN <<"verify">> ELSE <<"done">>

CreatePlan(s) ==
  ArchitecturePlan(s)
  @@ [b \in {DtsBox(c) : c \in IF s.dts THEN DtsTargets(s) ELSE {}} |->
        Node({LastNode(s)}, 0, <<Do("dts", {b})>>)]

-----------------------------------------------------------------------------
(* The other tasks. *)

Removals(cs) == [i \in DOMAIN cs |-> Do("rm", {cs[i]})]
Cleanup(dep) ==
  (<<"net_rm">> :> Node({dep}, 1, <<Do("unnet", {})>>))
  @@ (<<"cleanup">> :> Node({<<"net_rm">>}, 0, <<Do("destroyed", {})>>))
AccessStops ==
  (<<"lvs_stop">> :> Node({}, 1, <<Do("unforward", {})>>))
  @@ (<<"proxy_stop">> :> Node({<<"lvs_stop">>}, 1, Removals(rec.proxies)))

\* A xenon cluster is told to stop through its first node before the nodes go.
DestroyXenon ==
  LET fronted == rec.proxies # <<>> IN
  (IF fronted THEN AccessStops ELSE <<>>)
  @@ (<<"raft_stop">> :> Node(IF fronted THEN {<<"proxy_stop">>} ELSE {}, 0,
                              <<Do("exec", {rec.nodes[1]})>>))
  @@ (<<"nodes_stop">> :> Node({<<"raft_stop">>}, 1, Removals(rec.nodes)))
  @@ Cleanup(<<"nodes_stop">>)

DestroyPlan ==
  IF shape.itype = "xenon" THEN DestroyXenon
  ELSE AccessStops
       @@ (<<"slaves_stop">> :> Node({<<"proxy_stop">>}, 1, Removals(rec.nodes)))
       @@ (<<"master_stop">> :> Node({<<"slaves_stop">>}, 1, Removals(<<rec.nodes[1]>>)))
       @@ Cleanup(<<"master_stop">>)

\* The next slave of a shard: one more than the shard has.
NextSlave(g) ==
  <<"slave", g, 1 + Cardinality({c \in Range(rec.nodes) : c[1] = "slave" /\ c[2] = g})>>

ScaleoutPlan(c) ==
  (<<"new_slave">> :> Node({}, 1, XenonStarted(c)))
  @@ (<<"repl">> :> Node({<<"new_slave">>}, 2, <<Do("sql", {c})>>))
  @@ (<<"verify">> :> Node({<<"repl">>}, 2,
        <<Do("replicated", {Master(c[2]), c}), Do("topology", {c}), Do("running", {})>>))

BackupPlan ==
  <<"backup">> :> Node({}, 2, <<Do("exec", {rec.nodes[1]}), Do("conf", {})>>)

DtsPlan(c) == <<"dts">> :> Node({}, 1, <<Do("dts", {DtsBox(c)})>>)
DtsRmPlan(c) == <<"dts_rm">> :> Node({}, 1, <<Do("rm", {DtsBox(c)})>>)

-----------------------------------------------------------------------------
(* Steps: what each needs and what it does. *)

Init ==
  /\ shape \in Shapes /\ clustered \in BOOLEAN
  /\ rec = None /\ status = "none" /\ task = None
  /\ boxes = {} /\ alive = {} /\ ready = {} /\ net = FALSE /\ fwd = FALSE
  /\ links = <<>> /\ lost = {}
  /\ spent = [e \in DOMAIN Limits |-> 0]

Spend(e) == spent[e] < Limits[e] /\ spent' = [spent EXCEPT ![e] = @ + 1]

Reachable == fwd /\ Range(rec.proxies) \cap alive # {}

Works(step) ==
  CASE step.op = "run"        -> net
    [] step.op \in {"wait", "exec"} -> step.on \subseteq alive
    [] step.op \in {"sql", "joined"} -> step.on \subseteq ready
    [] step.op = "replicated" -> step.on \subseteq ready /\ (task.kind = "create" => Reachable)
    [] step.op = "unnet"      -> \A c \in alive : c[1] = "dts"
    [] OTHER -> TRUE

\* A container that is run again replaces the one of its name.
OnHosts(step) ==
  /\ boxes' = CASE step.op \in {"run", "dts"} -> boxes \cup step.on
                [] step.op = "rm"  -> boxes \ step.on
                [] OTHER -> boxes
  /\ alive' = CASE step.op \in {"run", "dts"} -> alive \cup step.on
                [] step.op = "rm"  -> alive \ step.on
                [] OTHER -> alive
  /\ ready' = CASE step.op = "wait" -> ready \cup step.on
                [] step.op \in {"run", "rm"} -> ready \ step.on
                [] OTHER -> ready
  /\ net' = CASE step.op = "network" -> TRUE [] step.op = "unnet" -> FALSE [] OTHER -> net
  /\ fwd' = CASE step.op = "forward" -> TRUE [] step.op = "unforward" -> FALSE [] OTHER -> fwd

OnRecord(step) ==
  /\ status' = IF step.op \in {"running", "destroyed"} THEN step.op ELSE status
  /\ rec' = IF step.op = "topology"
              THEN [rec EXCEPT !.nodes = @ \o SetToSeq(step.on)] ELSE rec

-----------------------------------------------------------------------------
(* Tasks: submitted, run node by node, ended by the watcher. *)

Submit(kind, plan, arg) ==
  /\ task = None
  /\ Spend("requests")
  /\ task' = [kind |-> kind, arg |-> arg, plan |-> plan,
              st |-> [id \in DOMAIN plan |-> "pending"],
              pos |-> [id \in DOMAIN plan |-> 1],
              tries |-> [id \in DOMAIN plan |-> 0],
              ledger |-> {}]
  /\ UNCHANGED <<shape, clustered, world, lost>>

\* The link of a DTS placeholder.
Link(b, to) == (b[2] :> to) @@ links

Create ==
  /\ rec = None
  /\ Submit("create", CreatePlan(shape), None)
  /\ rec' = NewRecord(shape) /\ status' = "creating" /\ UNCHANGED links

Destroy ==
  /\ status \in {"running", "failed"}
  /\ Submit("destroy", DestroyPlan, None)
  /\ status' = "destroying" /\ UNCHANGED <<rec, links>>

Scaleout(g) ==
  /\ status = "running" /\ shape.itype # "xenon"
  /\ Submit("scaleout", ScaleoutPlan(NextSlave(g)), NextSlave(g))
  /\ status' = "scaling" /\ UNCHANGED <<rec, links>>

Backup ==
  /\ status = "running" /\ shape.itype # "xenon"
  /\ Submit("backup", BackupPlan, None)
  /\ UNCHANGED <<rec, status, links>>

\* One link per slave; what is there must be removed first, failed or not.
DtsCreate(c) ==
  /\ status = "running" /\ shape.itype # "xenon"
  /\ c \in Range(rec.nodes) /\ c[1] = "slave" /\ c \notin DOMAIN links
  /\ Submit("dts", DtsPlan(c), c)
  /\ UNCHANGED <<rec, status, links>>

DtsRemove(c) ==
  /\ status = "running" /\ c \in DOMAIN links
  /\ Submit("dts_rm", DtsRmPlan(c), c)
  /\ links' = [links EXCEPT ![c] = "removing"]
  /\ UNCHANGED <<rec, status>>

\* Mutant: a dependency that failed is enough.
ReadyEnded(id) ==
  \A d \in task.plan[id].deps : task.st[d] \notin {"pending", "running"}
Ready(id) == \A d \in task.plan[id].deps : task.st[d] = "success"
Blocked(id) == \E d \in task.plan[id].deps : task.st[d] \in {"failed", "skipped"}

StartNode(id) ==
  /\ task.st[id] = "pending" /\ Ready(id)
  /\ task' = [task EXCEPT !.st[id] = "running"]
  /\ UNCHANGED <<shape, clustered, rec, status, world, links, lost, spent>>

SkipNode(id) ==
  /\ task.st[id] = "pending" /\ Blocked(id)
  /\ task' = [task EXCEPT !.st[id] = "skipped"]
  /\ UNCHANGED <<shape, clustered, rec, status, world, links, lost, spent>>

StepOf(id) == task.plan[id].steps[task.pos[id]]

\* In a cluster a container or SQL step that succeeded once in its task is in the step
\* ledger and is not carried out again, whatever became of what it did.
Ledgered == {"run", "rm", "sql"}
\* Mutant: the step of another node counts.
AlreadyDoneElsewhere(id) ==
  clustered /\ \E e \in task.ledger : e[2] = task.pos[id]
AlreadyDone(id) == clustered /\ <<id, task.pos[id]>> \in task.ledger
Book(id) ==
  IF StepOf(id).op \in Ledgered THEN task.ledger \cup {<<id, task.pos[id]>>} ELSE task.ledger

\* The DTS step succeeds even when its container could not be created.
LinkStep(step) ==
  \E b \in step.on :
    /\ links' = Link(b, "failed")
    /\ Spend("failures")
    /\ \/ UNCHANGED world
       \/ OnHosts(step)
    /\ UNCHANGED <<rec, status>>

CarryOut(id) ==
  LET step == StepOf(id) IN
  \/ AlreadyDone(id) /\ UNCHANGED <<world, rec, status, links, spent>>
  \/ /\ ~AlreadyDone(id) /\ Works(step)
     /\ OnHosts(step) /\ OnRecord(step)
     /\ links' = IF step.op = "dts" THEN Link(CHOOSE b \in step.on : TRUE, "running") ELSE links
     /\ UNCHANGED spent
  \/ step.op = "dts" /\ LinkStep(step)

StepDone(id) ==
  /\ task.st[id] = "running"
  /\ CarryOut(id)
  /\ task' = IF task.pos[id] = Len(task.plan[id].steps)
               THEN [task EXCEPT !.st[id] = "success", !.ledger = Book(id)]
               ELSE [task EXCEPT !.pos[id] = @ + 1, !.ledger = Book(id)]
  /\ UNCHANGED <<shape, clustered, lost>>

\* A step that finds nothing to work on fails; so may any other, before or after it did
\* its work.  The attempt ends, and the next one starts again at the first step.
StepFails(id) ==
  /\ task.st[id] = "running"
  /\ \/ ~AlreadyDone(id) /\ ~Works(StepOf(id)) /\ UNCHANGED <<spent, world>>
     \/ Spend("failures") /\ UNCHANGED world
     \/ /\ ~AlreadyDone(id) /\ Works(StepOf(id)) /\ StepOf(id).op # "dts"
        /\ Spend("failures") /\ OnHosts(StepOf(id))
  /\ links' = IF StepOf(id).op = "dts" THEN Link(CHOOSE b \in StepOf(id).on : TRUE, "creating") ELSE links
  /\ task' = IF task.tries[id] = task.plan[id].retries
               THEN [task EXCEPT !.st[id] = "failed"]
               ELSE [task EXCEPT !.tries[id] = @ + 1, !.pos[id] = 1]
  /\ UNCHANGED <<shape, clustered, rec, status, lost>>

LinksAfter(failed) ==
  CASE task.kind # "dts_rm" -> links
    [] task.kind = "dts_rm" /\ failed -> [links EXCEPT ![task.arg] = "failed"]
    [] OTHER -> [c \in DOMAIN links \ {task.arg} |-> links[c]]

\* watch_task writes Failed; watch_backup_task and watch_dts_lifecycle leave the status
\* alone, and the latter deletes the link or says that removing it failed.
EndTask ==
  /\ \A id \in DOMAIN task.plan : task.st[id] \notin {"pending", "running"}
  /\ LET failed == \E id \in DOMAIN task.plan : task.st[id] = "failed" IN
     /\ status' = IF failed /\ task.kind \notin {"backup", "dts", "dts_rm"} THEN "failed" ELSE status
     /\ links' = LinksAfter(failed)
     /\ lost' = IF failed /\ task.kind = "scaleout" THEN lost \cup {task.arg} ELSE lost
  /\ task' = None
  /\ UNCHANGED <<shape, clustered, rec, world, spent>>

\* A container stops by itself; it keeps its name and its volume.
Dies(c) ==
  /\ Spend("deaths")
  /\ alive' = alive \ {c} /\ ready' = ready \ {c}
  /\ UNCHANGED <<shape, clustered, rec, status, task, boxes, net, fwd, links, lost>>

RunTask ==
  /\ task # None
  /\ \/ EndTask
     \/ \E id \in DOMAIN task.plan : StartNode(id) \/ SkipNode(id) \/ StepDone(id) \/ StepFails(id)

Next ==
  \/ Create \/ Destroy \/ Backup \/ RunTask
  \/ \E g \in 1 .. shape.shards : Scaleout(g)
  \/ \E c \in alive : Dies(c)
  \/ rec # None /\ \E c \in Range(rec.nodes) : DtsCreate(c) \/ DtsRemove(c)

Spec == Init /\ [][Next]_vars

-----------------------------------------------------------------------------
Unhurt == spent["failures"] = 0 /\ spent["deaths"] = 0

\* As long as nothing goes wrong on the hosts, no schedule of a plan's nodes makes
\* a step run before what it works on is there: a container before its network,
\* SQL before MySQL answers, the network's removal while a container is attached.
StepsFindTheirTargets ==
  Unhurt /\ task # None =>
    \A id \in DOMAIN task.plan : task.st[id] = "running" => Works(StepOf(id))

\* When the create task says "running", every database container of the record
\* answers, whatever failed and was retried before.
RunningHasDatabase ==
  task # None /\ status = "running" /\ spent["deaths"] = 0 =>
    (task.kind = "create" => Range(rec.nodes) \subseteq ready)

\* What destroy leaves behind of an instance, wherever its creation stopped and
\* whatever was added since, is at most the dead container of a scale-out that failed and
\* the placeholders of DTS links, which no destroy task removes.
NothingLeft ==
  status = "destroyed" =>
    /\ \A c \in boxes : c[1] = "dts" \/ (c \in lost /\ c \notin alive)
    /\ ~net /\ ~fwd

\* Whatever fails in between, every DTS placeholder there is can be found through its
\* link and removed (watch_dts_lifecycle: deregistered only after the task succeeded), and
\* a link that says "running" has one.
LinksMatch ==
  /\ \A b \in boxes : b[1] = "dts" => b[2] \in DOMAIN links
  /\ \A c \in DOMAIN links : links[c] = "running" => DtsBox(c) \in boxes

\* "Running" means the whole access layer is up as well (create_nodes2 names its
\* step "LVS (VIP -> all proxies)").
RunningHasAll ==
  task # None /\ status = "running" /\ spent["deaths"] = 0 =>
    (task.kind = "create" => Range(rec.nodes) \cup Range(rec.proxies) \subseteq alive)

\* A destroy fails only when a step of it is made to fail (instance.rs: the failure of
\* "xenoncli raft stop" is ignored, nodes may be down already).
DestroyGoesOn ==
  task # None /\ task.kind = "destroy" /\ spent["failures"] = 0 =>
    \A id \in DOMAIN task.plan : task.st[id] # "failed"
=============================================================================
