---------------------------- MODULE ReplicaMoves ----------------------------
(***************************************************************************)
(* The operations that move the database servers of one instance            *)
(* (instance.rs): replace_node and migrate_instance, which bring up a        *)
(* server under a temporary name, let it catch up, remove the old one and    *)
(* take its name; and the managed switch of the master (reparent_core). Each *)
(* call of the code is a step that may fail; a call to an agent may fail      *)
(* after it took effect; servers die and come back. Clients write and        *)
(* replication copies meanwhile.                                             *)
(*                                                                           *)
(* The instance's operation lock lets one operation run at a time            *)
(* (InstanceOps). Servers, clients and replication are external.             *)
(***************************************************************************)
EXTENDS Integers, FiniteSets, Functions

CONSTANTS
  Here,      \* the controller's own machine
  Away,      \* machines with an agent
  Writes,    \* bound: what the clients write
  None,
  Settings   \* bound: the settings a behaviour may have

Hosts == {Here} \cup Away
Events == {"asks", "failures", "crashes", "reruns", "deaths", "returns"}

\* The first and the second node of the instance; each may have a temporary twin.
Nodes == {"m", "s"}
Other(n) == IF n = "m" THEN "s" ELSE "m"
Plain(n) == <<n, "">>
Names == Nodes \X {"", "rnx", "mgn"}

\* The operations that may be asked, the nodes there are, the highest server id so
\* far, and how often each event occurs.
SettingsAssumption ==
  \A s \in Settings :
    s \in [ops : SUBSET {"replace", "migrate", "planned", "auto"}, nodes : SUBSET Nodes,
           sid : Nat, limits : [Events -> Nat]]

VARIABLES
  setting,
  box,      \* the server of that name on that machine, None if there is none
  bound,    \* node_hosts: the machine of each node
  master,   \* the node registered as master
  job,      \* the operation under way, or the last one
  maxSid,   \* the highest server id of a node
  acked,    \* what clients have been told is written
  strays,   \* history: what of it the registry's master was never given
  marks,    \* history: what the properties make an exception of, as it occurs
  spent

registry == <<bound, master, maxSid>>
history == <<strays, marks>>
vars == <<setting, box, registry, job, acked, history, spent>>

Places == Hosts \X Names

Rest == [pc |-> "rest", op |-> "none", node |-> "m", to |-> Here, sid |-> 0,
         retried |-> FALSE, cut |-> FALSE, oldAlive |-> FALSE, left |-> {}]

\* An id that ends in 1 is taken for a master's; the others start read only (born),
\* and so does a server that comes back.
ReadOnly(sid) == sid % 10 # 1
NewServer(sid) ==
  [data |-> {}, from |-> None, on |-> FALSE, ro |-> ReadOnly(sid), born |-> ReadOnly(sid),
   up |-> TRUE]
Follower == [NewServer(2) EXCEPT !.from = "m", !.on = TRUE]

Init ==
  /\ setting \in Settings
  /\ box = [p \in Places |->
       IF p = <<Here, Plain("m")>> THEN NewServer(1)
       ELSE IF p = <<Here, Plain("s")>> /\ "s" \in setting.nodes THEN Follower ELSE None]
  /\ bound = [n \in Nodes |-> Here] /\ master = "m"
  /\ job = Rest
  /\ maxSid = setting.sid
  /\ acked = {} /\ strays = {} /\ marks = {}
  /\ spent = [e \in Events |-> 0]

Spend(e) ==
  /\ spent[e] < setting.limits[e]
  /\ spent' = [spent EXCEPT ![e] = @ + 1]

Node == job.node
Suffix == IF Node = master THEN "mgn" ELSE "rnx"
Temp == <<job.to, <<Node, Suffix>>>>     \* on the target machine
Old == <<bound[Node], Plain(Node)>>      \* by the route of the node
New == <<job.to, Plain(Node)>>
Master == <<bound[master], Plain(master)>>
\* Calls to the own machine do as they say; an agent's answer may be lost.
ByAgent(p) == p[1] # Here

Set(p, f, v) == box' = [box EXCEPT ![p] = [@ EXCEPT ![f] = v]]
Erase(p) == box' = [box EXCEPT ![p] = None]
Rename(p, q) == box' = [box EXCEPT ![q] = box[p], ![p] = None]
At(pc) == job.pc = pc
Go(pc) == job' = [job EXCEPT !.pc = pc]
Fails == Go("error")
Alive(p) == box[p] # None /\ box[p].up
\* A call to a server that is down fails by itself.
Blame(p) == IF Alive(p) THEN Spend("failures") ELSE UNCHANGED spent
Mark(m, occurs) == marks' = IF occurs THEN marks \cup {m} ELSE marks
Calm == UNCHANGED <<setting, registry, acked, strays>>
Quiet == Calm /\ UNCHANGED marks

-----------------------------------------------------------------------------
(* Submission; the checks of replace_node, migrate_instance and orch_reparent. *)

\* A switch that fails degrades an instance, one that stops leaves it as it is: both
\* may be followed by another operation.
Idle == job.pc \in {"rest", "done", "undone"}

\* A server an earlier operation failed to remove has the name of a node.
LeftAt(n, h) == bound[n] # h /\ box[<<h, Plain(n)>>] # None

Replace(n, h) ==
  /\ Idle /\ "replace" \in setting.ops
  /\ n \in setting.nodes \ {master} /\ h \in Away /\ bound[n] # h
  /\ Spend("asks")
  /\ job' = [Rest EXCEPT !.pc = "start", !.op = "replace", !.node = n, !.to = h,
               !.sid = maxSid + 1]
  /\ Mark("leftover", LeftAt(n, h))
  /\ UNCHANGED box /\ Calm

\* The slaves first, the master last.
NextNode(left) == CHOOSE n \in left : n # master \/ left = {master}

Migrate(h) ==
  /\ Idle /\ "migrate" \in setting.ops /\ h \in Away
  /\ Spend("asks")
  /\ job' = [Rest EXCEPT !.pc = "start", !.op = "migrate", !.node = NextNode(setting.nodes),
               !.to = h, !.sid = maxSid + 1, !.left = setting.nodes]
  /\ Mark("leftover", \E n \in setting.nodes : LeftAt(n, h))
  /\ UNCHANGED box /\ Calm

Switch(mode) ==
  /\ Idle /\ mode \in setting.ops \cap {"planned", "auto"} /\ setting.nodes = Nodes
  /\ Spend("asks")
  /\ job' = [Rest EXCEPT !.pc = "probe", !.op = mode, !.node = Other(master)]
  /\ Mark("leftover", \E n \in Nodes : LeftAt(n, Here))
  /\ UNCHANGED box /\ Calm

-----------------------------------------------------------------------------
(* exec_replace_node_core and migrate_move_master *)

\* A node already on the target machine is left alone; a temporary server that is
\* there from an earlier attempt is used as it is.
Start ==
  /\ At("start")
  /\ IF bound[Node] = job.to THEN Go("moved") /\ UNCHANGED <<box, marks>>
     ELSE IF box[Temp] # None THEN Go("catch") /\ UNCHANGED <<box, marks>>
     ELSE /\ box' = [box EXCEPT ![Temp] = NewServer(job.sid)]
          /\ Go("follow")
          /\ Mark("writable", ~ReadOnly(job.sid))
  /\ Calm /\ UNCHANGED spent

\* CHANGE REPLICATION SOURCE and START REPLICA.
Follow ==
  /\ At("follow") /\ Alive(Temp)
  /\ box' = [box EXCEPT ![Temp].from = master, ![Temp].on = TRUE]
  /\ Go("catch")
  /\ Quiet /\ UNCHANGED spent

\* Mutant: the check that is content with running replication.
CaughtRunning == box[Temp].on

\* wait_slave_caught: replication runs and has everything the master has.
Caught ==
  /\ Alive(Temp) /\ box[Temp].on /\ Alive(Master)
  /\ box[Master].data \subseteq box[Temp].data

Catch ==
  /\ At("catch")
  /\ Caught
  /\ Go(IF Node = master THEN "freeze" ELSE "remove")
  /\ UNCHANGED box /\ Quiet /\ UNCHANGED spent

\* The time is up: the temporary server is removed, if that succeeds.
CatchTimesOut ==
  /\ At("catch")
  /\ ~Caught
  /\ Fails
  /\ \/ Erase(Temp) /\ UNCHANGED spent
     \/ UNCHANGED box /\ Blame(Temp)
  /\ Quiet

\* Mutant: the old master that goes on taking writes.
FreezeNothing ==
  /\ At("freeze") /\ Alive(Old)
  /\ Go("catchAgain")
  /\ UNCHANGED box /\ Quiet /\ UNCHANGED spent

\* The old master is set read only, then the temporary one must catch up again; a
\* time-out here leaves both as they are.
Freeze ==
  /\ At("freeze") /\ Alive(Old)
  /\ Set(Old, "ro", TRUE)
  /\ Go("catchAgain")
  /\ Quiet /\ UNCHANGED spent

CatchAgain ==
  /\ At("catchAgain")
  /\ IF Caught THEN Go("stop") ELSE job' = [job EXCEPT !.pc = "error", !.cut = TRUE]
  /\ UNCHANGED box /\ Quiet /\ UNCHANGED spent

\* STOP REPLICA and the removal of the old server: failures are ignored.
Stop ==
  /\ At("stop")
  /\ Go("remove")
  /\ \/ Alive(Temp) /\ Set(Temp, "on", FALSE) /\ UNCHANGED spent
     \/ UNCHANGED box /\ Blame(Temp)
  /\ Quiet

Remove ==
  /\ At("remove")
  /\ Go("rename")
  /\ \/ Erase(Old) /\ UNCHANGED spent
     \/ UNCHANGED box /\ Spend("failures")
  /\ Quiet

\* With the name already taken on the target the temporary server is dropped.
TakeName ==
  /\ At("rename")
  /\ Go(IF Node = master THEN "thaw" ELSE "commit")
  /\ IF box[New] = None
       THEN Rename(Temp, New) /\ UNCHANGED spent
       ELSE \/ Erase(Temp) /\ UNCHANGED spent
            \/ UNCHANGED box /\ Spend("failures")
  /\ Quiet

Thaw ==
  /\ At("thaw") /\ Alive(New)
  /\ Set(New, "ro", FALSE)
  /\ Go("commit")
  /\ Quiet /\ UNCHANGED spent

\* commit_replace_node
Commit ==
  /\ At("commit")
  /\ bound' = [bound EXCEPT ![Node] = job.to]
  /\ maxSid' = IF job.sid > maxSid THEN job.sid ELSE maxSid
  /\ Go(IF Node = master THEN "repoint" ELSE "moved")
  /\ UNCHANGED <<setting, box, master, acked, history, spent>>

\* The other nodes follow the new master; a failure is not even logged.
Repoint ==
  LET p == <<bound[Other(Node)], Plain(Other(Node))>> IN
  /\ At("repoint")
  /\ Go("moved")
  /\ \/ Alive(p) /\ box' = [box EXCEPT ![p].from = master, ![p].on = TRUE] /\ UNCHANGED spent
     \/ UNCHANGED box /\ Blame(p)
  /\ Quiet

\* migrate goes on with the node that is next, under a fresh server id.
Moved ==
  LET left == job.left \ {Node} IN
  /\ At("moved")
  /\ job' = IF left = {} THEN [job EXCEPT !.pc = "done"]
            ELSE [job EXCEPT !.pc = "start", !.node = NextNode(left), !.left = left,
                    !.sid = maxSid + 1]
  /\ UNCHANGED box /\ Quiet /\ UNCHANGED spent

\* The server a call of the attempt is made to.
Callee ==
  CASE At("freeze") -> Old [] At("thaw") -> New [] OTHER -> Temp

\* Between these steps and the commit an attempt that ends leaves neither the old
\* state nor the new one.
Window == {"rename", "commit"} \cup
          (IF Node = master THEN {"freeze", "catchAgain", "stop", "remove", "thaw"} ELSE {})

\* A call whose failure ends the attempt. An agent's may have taken effect.
CallFails ==
  /\ job.pc \in {"start", "follow", "freeze", "rename", "thaw"}
  /\ At("start") => bound[Node] # job.to
  /\ IF At("start") \/ At("rename") THEN Spend("failures") ELSE Blame(Callee)
  /\ job' = [job EXCEPT !.pc = "error", !.cut = @ \/ job.pc \in Window]
  /\ Calm
  /\ \/ UNCHANGED <<box, marks>>
     \/ /\ At("start") /\ ByAgent(Temp) /\ box[Temp] = None
        /\ box' = [box EXCEPT ![Temp] = NewServer(job.sid)]
        /\ Mark("writable", ~ReadOnly(job.sid))
     \/ /\ ByAgent(Callee) /\ UNCHANGED marks
        /\ \/ At("follow") /\ Alive(Temp)
                /\ box' = [box EXCEPT ![Temp].from = master, ![Temp].on = TRUE]
           \/ At("freeze") /\ Alive(Old) /\ Set(Old, "ro", TRUE)
           \/ At("rename") /\ box[New] = None /\ Rename(Temp, New)
           \/ At("thaw") /\ Alive(New) /\ Set(New, "ro", FALSE)

\* A replacement is tried once more by the scheduler, a migration is not.
Error ==
  /\ At("error")
  /\ job' = IF job.op = "replace" /\ ~job.retried
              THEN [job EXCEPT !.pc = "start", !.retried = TRUE]
              ELSE [job EXCEPT !.pc = "failed"]
  /\ UNCHANGED box /\ Quiet /\ UNCHANGED spent

ASwitch == job.op \in {"planned", "auto"}

\* The process stops. A task is found failed, or resumed, by the next one; a switch
\* is forgotten, whatever it had done.
Crash ==
  /\ job.pc \notin {"rest", "done", "undone", "failed"}
  /\ Spend("crashes")
  /\ job' = IF ASwitch THEN [job EXCEPT !.pc = "undone"]
            ELSE [job EXCEPT !.pc = "failed", !.cut = @ \/ job.pc \in Window]
  /\ Mark("interrupted", ASwitch /\ ~At("probe"))
  /\ UNCHANGED box /\ Calm

\* What a migration leaves that ends before the temporary server takes the name of the
\* master it has removed.
Orphaned == job.op = "migrate" /\ box[Master] = None /\ \E h \in Hosts : box[<<h, <<master, "mgn">>>>] # None

\* rerun_node of a failed task, or its resumption, from the beginning.
Rerun ==
  /\ At("failed")
  /\ Spend("reruns")
  /\ job' = IF job.op = "migrate"
              THEN [job EXCEPT !.pc = "start", !.node = NextNode(setting.nodes),
                      !.left = setting.nodes, !.sid = maxSid + 1]
              ELSE [job EXCEPT !.pc = "start", !.retried = FALSE]
  /\ Mark("relapse", Orphaned)
  /\ UNCHANGED box /\ Calm

-----------------------------------------------------------------------------
(* reparent_core: it runs on the controller's own machine, whatever the routes. *)

OldHere == <<Here, Plain(master)>>
Candidate == <<Here, Plain(Node)>>

\* SELECT 1 on the old master: an old master that cannot be asked counts as dead.
Probe ==
  /\ At("probe")
  /\ \E alive \in BOOLEAN :
       /\ alive => Alive(OldHere)
       /\ IF alive THEN UNCHANGED spent ELSE Blame(OldHere)
       /\ job' = [job EXCEPT !.oldAlive = alive,
            !.pc = IF alive THEN "silence" ELSE IF job.op = "planned" THEN "undone" ELSE "detach"]
       /\ Mark("split", ~alive /\ job.op = "auto" /\ Alive(Master))
  /\ UNCHANGED box /\ Calm

Silence ==
  /\ At("silence")
  /\ \/ Alive(OldHere) /\ Set(OldHere, "ro", TRUE) /\ Go("detach") /\ UNCHANGED spent
     \/ Blame(OldHere) /\ UNCHANGED box /\ Go("undone")
  /\ Quiet

\* STOP SLAVE and RESET SLAVE ALL on the candidate, which may not have caught up.
Detach ==
  /\ At("detach")
  /\ Alive(Candidate)
  /\ box' = [box EXCEPT ![Candidate].from = None, ![Candidate].on = FALSE]
  /\ Go("open")
  /\ Quiet /\ UNCHANGED spent

Promote ==
  /\ At("open")
  /\ Alive(Candidate)
  /\ Set(Candidate, "ro", FALSE)
  /\ Go("hang")
  /\ Quiet /\ UNCHANGED spent

\* Mutant: a promotion that fails leaves the old master read only.
PromotionFailsOnly ==
  /\ job.pc \in {"detach", "open"}
  /\ Blame(Candidate)
  /\ Go("undone")
  /\ UNCHANGED box /\ Quiet

\* A promotion that fails: the old master is made writable again, if it was asked.
PromotionFails ==
  /\ job.pc \in {"detach", "open"}
  /\ Blame(Candidate)
  /\ Go(IF job.oldAlive THEN "undo" ELSE "undone")
  /\ UNCHANGED box /\ Quiet

Undo ==
  /\ At("undo")
  /\ Go("undone")
  /\ \/ Alive(OldHere) /\ Set(OldHere, "ro", FALSE) /\ UNCHANGED <<marks, spent>>
     \/ UNCHANGED box /\ Blame(OldHere) /\ Mark("interrupted", TRUE)
  /\ Calm

\* The old master becomes a slave of the new one, if that succeeds.
Hang ==
  /\ At("hang")
  /\ Go("swap")
  /\ \/ job.oldAlive /\ Alive(OldHere)
          /\ box' = [box EXCEPT ![OldHere].from = Node, ![OldHere].on = TRUE] /\ UNCHANGED spent
     \/ ~job.oldAlive /\ UNCHANGED <<box, spent>>
     \/ job.oldAlive /\ UNCHANGED box /\ Blame(OldHere)
  /\ Quiet

\* The registry's new master has what it had copied when it was detached; a switch
\* that comes to its end makes good for one that did not.
Swap ==
  /\ At("swap")
  /\ master' = Node
  /\ Go("done")
  /\ strays' = acked \ box[Candidate].data
  /\ marks' = marks \ {"interrupted"}
  /\ UNCHANGED <<setting, box, bound, maxSid, acked, spent>>

-----------------------------------------------------------------------------
(* External: clients write where they are let, replication copies, servers die. *)

\* Clients know a server by the name of its node.
Writable == {p \in Places : p[2][2] = "" /\ Alive(p) /\ ~box[p].ro}

\* The servers of the node the registry has as master.
OfMaster(p) == p[2][1] = master

Write ==
  \E p \in Writable, w \in Writes \ acked :
    /\ box' = [box EXCEPT ![p].data = @ \cup {w}]
    /\ acked' = acked \cup {w}
    /\ strays' = IF OfMaster(p) THEN strays ELSE strays \cup {w}
    /\ UNCHANGED <<setting, registry, job, marks, spent>>

\* A source is found by its name, wherever it runs.
Copy ==
  \E p, q \in Places :
    /\ Alive(p) /\ box[p].on /\ Alive(q) /\ q[2] = Plain(box[p].from) /\ p # q
    /\ \E w \in box[q].data \ box[p].data : box' = [box EXCEPT ![p].data = @ \cup {w}]
    /\ Quiet /\ UNCHANGED <<job, spent>>

Die ==
  /\ Spend("deaths")
  /\ \E p \in Places : Alive(p) /\ Set(p, "up", FALSE)
  /\ Quiet /\ UNCHANGED job

\* What SET GLOBAL had set is lost.
Return ==
  /\ Spend("returns")
  /\ \E p \in Places :
       /\ box[p] # None /\ ~box[p].up
       /\ box' = [box EXCEPT ![p].up = TRUE, ![p].ro = box[p].born]
  /\ Mark("returned", TRUE)
  /\ Calm /\ UNCHANGED job
-----------------------------------------------------------------------------
Move ==
  \/ Start \/ Follow \/ Catch \/ CatchTimesOut \/ Freeze \/ CatchAgain \/ Stop \/ Remove
  \/ TakeName \/ Thaw \/ Commit \/ Repoint \/ Moved \/ Error

Reparent == Probe \/ Silence \/ Detach \/ Promote \/ PromotionFails \/ Undo \/ Hang \/ Swap

Next ==
  \/ \E n \in Nodes, h \in Away : Replace(n, h)
  \/ \E h \in Away : Migrate(h)
  \/ \E mode \in {"planned", "auto"} : Switch(mode)
  \/ Move \/ Reparent \/ CallFails \/ Crash \/ Rerun
  \/ Write \/ Copy \/ Die \/ Return

Spec == Init /\ [][Next]_vars
-----------------------------------------------------------------------------
(* Properties *)

Servers == [data : SUBSET Writes, from : Nodes \cup {None}, on : BOOLEAN, ro : BOOLEAN,
            born : BOOLEAN, up : BOOLEAN]

\* The servers, the registry and the operation have the shape of the code's.
TypeOK ==
  /\ box \in [Places -> Servers \cup {None}]
  /\ bound \in [Nodes -> Hosts] /\ master \in Nodes /\ maxSid \in Nat
  /\ job.op \in {"none", "replace", "migrate", "planned", "auto"} /\ job.node \in Nodes
  /\ job.to \in Hosts /\ job.left \subseteq Nodes /\ strays \subseteq acked /\ acked \subseteq Writes
  /\ marks \subseteq {"split", "returned", "writable", "leftover", "interrupted", "relapse"}

Never(these) == marks \cap these = {}

\* What the registry's master was given is on a server of its node: a move removes a
\* server only for one that has caught up. Not so when a server left over from an
\* earlier move is taken for this one's, a frozen master is restarted, or a migration
\* is run again that had removed the master. What a switch leaves behind is a stray.
AckedSurvive ==
  Never({"relapse", "leftover", "returned"}) =>
    \A w \in acked \ strays : \E p \in Places : OfMaster(p) /\ box[p] # None /\ w \in box[p].data

\* Never two servers that take writes: the one that gives way is read only first. Not
\* so when a live master fails its probe, a server returns as it was started or is left
\* over, a follower is started under a master's id, or a switch stopped half way.
OneWriter ==
  Never({"split", "returned", "writable", "leftover", "interrupted"}) => Cardinality(Writable) <= 1

\* What has come to an end has come to a true one: each node has a server where the
\* registry says, and its master is the one set to take writes; after a success, and
\* after a failure or a stop that did not fall between the first step that cannot be
\* undone and the commit.
OutcomeTrue ==
  /\ Idle \/ (At("failed") /\ ~job.cut)
  /\ Never({"split", "returned", "writable", "leftover", "interrupted"})
  => /\ \A n \in setting.nodes : box[<<bound[n], Plain(n)>>] # None
     /\ Writable \subseteq {Master} /\ ~box[Master].ro

\* A switch leaves nothing behind (see README).
SwitchKeepsAll == strays = {}

\* What a client was told is written is on some server (see README).
AckedSomewhere == \A w \in acked : \E p \in Places : box[p] # None /\ w \in box[p].data

\* A node that is replaced keeps a server, under its name or its temporary one: what
\* fails fails before the old server is touched (see README).
EachNodeServed ==
  \A n \in setting.nodes : \E h \in Hosts, x \in {"", "rnx", "mgn"} : box[<<h, <<n, x>>>>] # None
=============================================================================
