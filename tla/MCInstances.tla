----------------------------- MODULE MCInstances -----------------------------
(***************************************************************************)
(* What the controllers do with instances: the operations that move their    *)
(* servers (ReplicaMoves), the plans of their tasks (TaskPlans) and how      *)
(* drafts of them are kept (TaskDrafts), the machines they run on            *)
(* (HostPool), the sweep that watches them (Alerts), the statements run on   *)
(* them (QueryConsole) and collected from them (SlowCollector), their disks  *)
(* (CapacityForecast).  A behaviour is one of one part, whose variables are  *)
(* the first of those below; the rest hold nothing.                          *)
(***************************************************************************)
EXTENDS Integers, Sequences, TLC

CONSTANTS
  This, That,        \* what a part has of each of two kinds; nothing tells them apart
  Machines, MaxSlots,    \* HostPool
  Causes, Quoted, Watchers, MaxAlerts,   \* Alerts
  MaxRunning,        \* QueryConsole
  MaxEvents,         \* bound: crashes, restarts or role changes
  None

VARIABLES part, v1, v2, v3, v4, v5, v6, v7, v8, v9, v10, v11, v12, v13

vars == <<part, v1, v2, v3, v4, v5, v6, v7, v8, v9, v10, v11, v12, v13>>

Symmetry == Permutations(This) \cup Permutations(That)

-----------------------------------------------------------------------------
(* Every pair of operations, one after the other and with what may go wrong: *)
(* a step that fails, a stop of the controller, a server that dies and comes *)
(* back; an operation run again; and server ids that end in 0, 9 and 1.      *)

AtMost(n, events) ==
  [e \in {"asks", "failures", "crashes", "reruns", "deaths", "returns"} |->
     IF e \in events THEN n ELSE 0]
Moves(ops, asks, failures, others) ==
  [ops |-> ops, nodes |-> {"m", "s"}, sid |-> 2,
   limits |-> [AtMost(1, others) EXCEPT !["asks"] = asks, !["failures"] = failures]]
From(sid, op) == [Moves({op}, 1, 0, {}) EXCEPT !.sid = sid]

MoveSettings ==
  {Moves({"planned", "replace"}, 2, 1, {"crashes"}),
   Moves({"planned", "migrate"}, 2, 2, {}),
   Moves({"planned", "auto"}, 2, 1, {"crashes", "deaths", "returns"}),
   Moves({"auto", "replace"}, 2, 1, {"deaths", "returns"}),
   Moves({"replace"}, 2, 2, {"crashes", "reruns"}),
   Moves({"migrate"}, 2, 1, {"crashes", "reruns"}),
   Moves({"replace", "migrate"}, 2, 2, {"crashes"}),
   Moves({"migrate"}, 3, 1, {}),
   Moves({"migrate"}, 1, 0, {"deaths", "returns"}),
   From(10, "replace"), From(9, "migrate")}

Replicas == INSTANCE ReplicaMoves WITH
  setting <- v1, box <- v2, bound <- v3, master <- v4, maxSid <- v5, job <- v6,
  acked <- v7, strays <- v8, marks <- v9, spent <- v10,
  Here <- "here", Away <- {"a1", "a2"}, Writes <- {"w1", "w2"},
  Settings <- MoveSettings

(* Every architecture, with a slave added and a backup taken, and a failure   *)
(* and a death at any step.                                                  *)

Shape(itype, shards, proxies, members, dts) ==
  [itype |-> itype, shards |-> shards, proxies |-> proxies, members |-> members, dts |-> dts]

PlanShapes ==
  {Shape("single", 1, 1, 0, FALSE), Shape("sync", 1, 2, 0, FALSE),
   Shape("async", 1, 1, 0, TRUE), Shape("async", 2, 1, 0, FALSE),
   Shape("xenon", 1, 0, 3, TRUE), Shape("xenon", 1, 1, 2, FALSE)}

Plans == INSTANCE TaskPlans WITH
  shape <- v1, clustered <- v2, rec <- v3, status <- v4, task <- v5, boxes <- v6,
  alive <- v7, ready <- v8, net <- v9, fwd <- v10, links <- v11, lost <- v12, spent <- v13,
  Shapes <- PlanShapes, Limits <- [requests |-> 3, failures |-> 1, deaths |-> 1]

(* A registry of hosts and the requests for them. *)
Pool == INSTANCE HostPool WITH
  hosts <- v1, bound <- v2, life <- v3, req <- v4, overlapped <- v5,
  Hosts <- Machines, Instances <- This, Requests <- That

(* Two controllers that sweep, an operation and a person who handles the     *)
(* alerts; a cause that holds a quote, and one that does not.                *)
Health == INSTANCE Alerts WITH
  status <- v1, lastError <- v2, locked <- v3, watch <- v4, sweep <- v5, pending <- v6,
  alerts <- v7, evidence <- v8, unraised <- v9, crashes <- v10,
  Sweepers <- This, MaxCrashes <- MaxEvents

(* One digest in two schemas, for two collectors; and two digests, one of them *)
(* in two schemas, for one collector whose query returns two rows.           *)
Slow == INSTANCE SlowCollector WITH
  stat <- v1, executed <- v2, base <- v3, recorded <- v4, gov <- v5, job <- v6,
  slipped <- v7, stops <- v8,
  Collectors <- This, Rows <- {<<"s1", "d1">>, <<"s2", "d1">>}, TopRows <- 2,
  MinCount <- 2, MaxCount <- 3, MaxCases <- 1, MaxStops <- 1

Top == INSTANCE SlowCollector WITH
  stat <- v1, executed <- v2, base <- v3, recorded <- v4, gov <- v5, job <- v6,
  slipped <- v7, stops <- v8,
  Collectors <- {"c1"}, Rows <- {<<"s1", "d1">>, <<"s2", "d1">>, <<"s1", "d2">>}, TopRows <- 2,
  MinCount <- 2, MaxCount <- 3, MaxCases <- 1, MaxStops <- 1

Query == INSTANCE QueryConsole WITH
  secret <- v1, saved <- v2, account <- v3, job <- v4, result <- v5, denied <- v6,
  met <- v7, audited <- v8, crashes <- v9,
  Processes <- This, Statements <- That, MaxCrashes <- MaxEvents

Drafts == INSTANCE TaskDrafts WITH
  current <- v1, status <- v2, canceled <- v3, editing <- v4, exec <- v5, taskRow <- v6,
  nodeRows <- v7, deleting <- v8, gone <- v9, starts <- v10, restarts <- v11,
  Versions <- This, Executions <- That, MaxRestarts <- MaxEvents

(* A disk of 20 that grows by 0, 2 or 3 a day. *)
Disk == INSTANCE CapacityForecast WITH
  now <- v1, used <- v2, rate <- v3, running <- v4, disk <- v5, samples <- v6,
  Total <- 20, Rates <- {0, 2, 3}, MinSamples <- 3, MinSpan <- 3, Window <- 5,
  Retention <- 4, WarnDays <- 2, MaxTime <- 8, MaxDisks <- 2

\* What the parts assume of their constants.
ASSUME PartsAssumption ==
  /\ Replicas!SettingsAssumption
  /\ Pool!RegistryAssumption
  /\ Health!CausesAssumption
  /\ Drafts!NoneAssumption

-----------------------------------------------------------------------------
Init ==
  \/ /\ part = "moves" /\ Replicas!Init
     /\ v11 = None /\ v12 = None /\ v13 = None
  \/ /\ part = "plans" /\ Plans!Init
  \/ /\ part = "pool" /\ Pool!Init
     /\ v6 = None /\ v7 = None /\ v8 = None /\ v9 = None /\ v10 = None /\ v11 = None
     /\ v12 = None /\ v13 = None
  \/ /\ part = "health" /\ Health!Init
     /\ v11 = None /\ v12 = None /\ v13 = None
  \/ /\ part \in {"slow", "top"} /\ (IF part = "slow" THEN Slow!Init ELSE Top!Init)
     /\ v9 = None /\ v10 = None /\ v11 = None /\ v12 = None /\ v13 = None
  \/ /\ part = "query" /\ Query!Init
     /\ v10 = None /\ v11 = None /\ v12 = None /\ v13 = None
  \/ /\ part = "drafts" /\ Drafts!Init
     /\ v12 = None /\ v13 = None
  \/ /\ part = "disk" /\ Disk!Init
     /\ v7 = None /\ v8 = None /\ v9 = None /\ v10 = None /\ v11 = None /\ v12 = None
     /\ v13 = None

Next ==
  \/ part = "moves" /\ Replicas!Next /\ UNCHANGED <<part, v11, v12, v13>>
  \/ part = "plans" /\ Plans!Next /\ UNCHANGED <<part>>
  \/ part = "pool" /\ Pool!Next /\ UNCHANGED <<part, v6, v7, v8, v9, v10, v11, v12, v13>>
  \/ part = "health" /\ Health!Next /\ UNCHANGED <<part, v11, v12, v13>>
  \/ part = "slow" /\ Slow!Next /\ UNCHANGED <<part, v9, v10, v11, v12, v13>>
  \/ part = "top" /\ Top!Next /\ UNCHANGED <<part, v9, v10, v11, v12, v13>>
  \/ part = "query" /\ Query!Next /\ UNCHANGED <<part, v10, v11, v12, v13>>
  \/ part = "drafts" /\ Drafts!Next /\ UNCHANGED <<part, v12, v13>>
  \/ part = "disk" /\ Disk!Next /\ UNCHANGED <<part, v7, v8, v9, v10, v11, v12, v13>>

Spec == Init /\ [][Next]_vars

-----------------------------------------------------------------------------
\* ReplicaMoves: what a client was told is written, and the registered master had, is on a
\* server of its node.
AckedSurvive == part = "moves" => Replicas!AckedSurvive

\* ReplicaMoves: never two servers take writes, but for what is named there.
OneWriter == part = "moves" => Replicas!OneWriter

\* ReplicaMoves: between operations the registry tells the truth about the servers.
OutcomeTrue == part = "moves" => Replicas!OutcomeTrue

\* TaskPlans: as long as nothing fails, no order of a plan's nodes makes a step run before
\* what it works on is there.
StepsFindTheirTargets == part = "plans" => Plans!StepsFindTheirTargets

\* TaskPlans: at its end a create task has made every database it says it has, and a
\* destroy task has left nothing of the instance but what is named there.
EndsAreTrue == part = "plans" => Plans!RunningHasDatabase /\ Plans!NothingLeft

\* HostPool: a bound host is registered and has a slot for each of its nodes.
BindingsAreSound == part = "pool" => Pool!BindingsAreSound

\* Alerts: a degradation has a live alert and evidence of its cause, but for what is named
\* there, and never two alerts by one controller (sweep_once, alert_open).
AlertsTellHealth == part = "health" => Health!DegradedIsOnRecord /\ Health!OneAlertEach


\* QueryConsole: a statement that is alone with its accounts is let in by the node.
AloneIsAdmitted == part = "query" => Query!AloneIsAdmitted

\* TaskDrafts: what delete_task deleted stays deleted.
GoneStaysGone == part = "drafts" => Drafts!GoneStaysGone

\* CapacityForecast: of a disk that grows at one pace the forecast is the truth.
ForecastIsTrue == part = "disk" => Disk!ForecastIsTrue
=============================================================================
