------------------------------- MODULE Alerts -------------------------------
(***************************************************************************)
(* The alerts of one instance (instance.rs: sweep_once, sweep_xenon,         *)
(* watch_task, watch_backup_task, run_reparent; store.rs alert_*; api.rs     *)
(* alert_action, alert_group_action).  Every controller sweeps: it works on  *)
(* a copy of the instance and records what it found in several steps, a       *)
(* snapshot of the evidence, the status, the alert.  alert_open looks for a  *)
(* live alert of the same kind and inserts one afterwards.  Operations,      *)
(* people and other controllers close or overtake these steps.               *)
(*                                                                           *)
(* The controllers share the tables and the record; the copies of the record *)
(* they keep between sweeps are InstanceOps's.                               *)
(***************************************************************************)
EXTENDS Integers, SequencesExt, FiniteSets

CONSTANTS
  Sweepers,    \* controllers
  Causes,      \* what the probes of a sweep can report
  Quoted,      \* those that hold a quote, as a client's error does
  Watchers,    \* bound: operations
  MaxCrashes,  \* bound
  MaxAlerts,   \* bound: live rows of alerts
  None

Kinds == {"lifecycle", "backup", "switch"}
Writers == Watchers \cup Sweepers
Reports == [kind : {"degraded", "task_failed"}, cause : Causes \cup {"task"}]
Idle == [pc |-> "idle", was |-> None, knew |-> None, found |-> None]
Fresh == [kind |-> None, pc |-> "fresh", at |-> None]
Over == [kind |-> None, pc |-> "over", at |-> None]

\* What a probe reports is a text of its own, and a sweeper is no operation.
CausesAssumption ==
  /\ {None, "task", "switch"} \cap Causes = {} /\ None \notin Reports
  /\ Sweepers \cap Watchers = {} /\ None \notin Sweepers

VARIABLES
  status,    \* "running", "degraded", "failed", "busy" or "destroyed"
  lastError, \* the cause on record, or None
  locked,    \* the controller whose op_locks holds the instance, or None
  watch,     \* each operation: what it is, where it runs and how far it is
  sweep,     \* each sweeper: pc, and its copy of status and last_error
  pending,   \* each writer of alerts: the row alert_open found missing, or None
  alerts,    \* the rows of alerts that are live: open or acknowledged, and by whom
  evidence,  \* the causes of which there is a snapshot since a sweep last saw it recover
  unraised,  \* history: the degradation was not a sweeper's, or its alert was closed, cut
             \* or refused
  crashes

vars == <<status, lastError, locked, watch, sweep, pending, alerts, evidence, unraised,
          crashes>>

Init ==
  /\ status = "running" /\ lastError = None /\ locked = None
  /\ watch = [w \in Watchers |-> Fresh] /\ sweep = [s \in Sweepers |-> Idle]
  /\ pending = [w \in Writers |-> None] /\ alerts = <<>>
  /\ evidence = {} /\ unraised = FALSE /\ crashes = 0

\* A live alert of the kind is there already: open or acknowledged.
\* Mutant: only open ones count.
RaisedOpenOnly(kind) == \E i \in DOMAIN alerts : alerts[i].kind = kind /\ alerts[i].state = "open"
Raised(kind) == \E i \in DOMAIN alerts : alerts[i].kind = kind

\* The first half of alert_open: look; the second inserts.
AlertOpen(w, kind, cause) ==
  pending' = [pending EXCEPT ![w] = IF Raised(kind) THEN None ELSE [kind |-> kind, cause |-> cause]]

\* The text goes into the statement as it is: a quote in it ends the statement early,
\* and that it failed is only logged.
Accepted(cause) == cause \notin Quoted

Insert(w) ==
  /\ pending[w] # None
  /\ Len(alerts) < MaxAlerts
  /\ LET lands == Accepted(pending[w].cause) IN
     /\ alerts' = IF lands THEN Append(alerts, [kind |-> pending[w].kind, by |-> w, state |-> "open"])
                  ELSE alerts
     /\ unraised' = IF pending[w].kind = "degraded" THEN ~lands ELSE unraised
  /\ pending' = [pending EXCEPT ![w] = None]
  /\ UNCHANGED <<status, lastError, locked, watch, sweep, evidence, crashes>>

-----------------------------------------------------------------------------
(* A sweeper. *)

Turns(s, to) == sweep' = [sweep EXCEPT ![s] = to]

Scan(s) ==
  /\ sweep[s].pc = "idle" /\ pending[s] = None
  /\ status \in {"running", "degraded"}
  /\ Turns(s, [pc |-> "scanned", was |-> status, knew |-> lastError, found |-> None])
  /\ UNCHANGED <<status, lastError, locked, watch, pending, alerts, evidence,
                 unraised, crashes>>

\* An operation of its own is not disturbed, another's is not seen; then the probes run,
\* and anything may be wrong by now, or nothing.
Probe(s, found) ==
  /\ sweep[s].pc = "scanned"
  /\ Turns(s, IF locked = s THEN Idle ELSE [sweep[s] EXCEPT !.pc = "probed", !.found = found])
  /\ UNCHANGED <<status, lastError, locked, watch, pending, alerts, evidence,
                 unraised, crashes>>

\* A snapshot is written for a first cause and for a changed one.
SnapshotNeeded(s) == sweep[s].was = "running" \/ sweep[s].knew # sweep[s].found

Capture(s) ==
  /\ sweep[s].pc = "probed" /\ sweep[s].found # None
  /\ Turns(s, [sweep[s] EXCEPT !.pc = "captured"])
  /\ evidence' = IF SnapshotNeeded(s) /\ Accepted(sweep[s].found)
                   THEN evidence \cup {sweep[s].found} ELSE evidence
  /\ UNCHANGED <<status, lastError, locked, watch, pending, alerts, unraised,
                 crashes>>

\* set_status overwrites whatever the status has become since the copy was made.
Degrade(s) ==
  /\ sweep[s].pc = "captured"
  /\ IF SnapshotNeeded(s) THEN status' = "degraded" /\ lastError' = sweep[s].found
     ELSE UNCHANGED <<status, lastError>>
  /\ Turns(s, IF sweep[s].was = "running" THEN [sweep[s] EXCEPT !.pc = "raising"] ELSE Idle)
  /\ unraised' = (unraised \/ (sweep[s].was = "degraded" /\ status # "degraded"
                               /\ ~Raised("degraded")))
  /\ UNCHANGED <<locked, watch, pending, alerts, evidence, crashes>>

Raise(s) ==
  /\ sweep[s].pc = "raising"
  /\ AlertOpen(s, "degraded", sweep[s].found)
  /\ Turns(s, Idle)
  /\ UNCHANGED <<status, lastError, locked, watch, alerts, evidence, unraised,
                 crashes>>

\* What another sweeper has just captured is of the degradation it is about to record.
Recover(s) ==
  /\ sweep[s].pc = "probed" /\ sweep[s].found = None
  /\ IF sweep[s].was = "degraded"
     THEN /\ status' = "running" /\ Turns(s, [sweep[s] EXCEPT !.pc = "resolving"])
          /\ evidence' = {sweep[x].found : x \in {y \in Sweepers : sweep[y].pc = "captured"}}
                           \cap evidence
     ELSE UNCHANGED <<status, evidence>> /\ Turns(s, Idle)
  /\ UNCHANGED <<lastError, locked, watch, pending, alerts, unraised, crashes>>

Resolve(s) ==
  /\ sweep[s].pc = "resolving"
  /\ alerts' = <<>>
  /\ Turns(s, Idle)
  /\ unraised' = (unraised \/ status = "degraded")
  /\ UNCHANGED <<status, lastError, locked, watch, pending, evidence, crashes>>

-----------------------------------------------------------------------------
(* Operations: a task with its watcher, a backup, a managed switch. *)

Submit(w, kind, p) ==
  /\ watch[w].pc = "fresh" /\ locked = None
  /\ status \in (IF kind = "lifecycle" THEN {"running", "degraded", "failed"} ELSE {"running"})
  /\ locked' = p
  /\ status' = IF kind = "lifecycle" THEN "busy" ELSE status
  /\ watch' = [watch EXCEPT ![w] = [kind |-> kind, pc |-> "run", at |-> p]]
  /\ UNCHANGED <<lastError, sweep, pending, alerts, evidence, unraised, crashes>>

\* The last step of a task leaves the instance running, or gone. No alert is closed.
Succeed(w, outcome) ==
  /\ watch[w].pc = "run"
  /\ status' = IF watch[w].kind = "lifecycle" THEN outcome ELSE status
  /\ watch' = [watch EXCEPT ![w].pc = "won"]
  /\ UNCHANGED <<lastError, locked, sweep, pending, alerts, evidence, unraised,
                 crashes>>

\* The watcher frees the lock; what an instance that is gone left open is closed.
Watched(w) ==
  /\ watch[w].pc = "won"
  /\ locked' = None
  /\ watch' = [watch EXCEPT ![w] = Over]
  /\ alerts' = IF watch[w].kind = "lifecycle" /\ status = "destroyed" THEN <<>> ELSE alerts
  /\ UNCHANGED <<status, lastError, sweep, pending, evidence, unraised, crashes>>

Fail(w) ==
  /\ watch[w].pc = "run"
  /\ watch' = [watch EXCEPT ![w].pc = IF watch[w].kind = "switch" THEN "alert" ELSE "lost"]
  /\ UNCHANGED <<status, lastError, locked, sweep, pending, alerts, evidence,
                 unraised, crashes>>

\* The lock is freed first; then the status and the alert are written.
WatchedLost(w) ==
  /\ watch[w].pc = "lost"
  /\ locked' = None
  /\ watch' = [watch EXCEPT ![w].pc = IF watch[w].kind = "lifecycle" THEN "mark" ELSE "alert"]
  /\ UNCHANGED <<status, lastError, sweep, pending, alerts, evidence, unraised,
                 crashes>>

MarkFailed(w) ==
  /\ watch[w].pc = "mark"
  /\ IF status = "destroyed" THEN UNCHANGED <<status, lastError>>
     ELSE status' = "failed" /\ lastError' = "task"
  /\ watch' = [watch EXCEPT ![w].pc = "alert"]
  /\ UNCHANGED <<locked, sweep, pending, alerts, evidence, unraised, crashes>>

RaiseFailure(w) ==
  /\ watch[w].pc = "alert"
  /\ AlertOpen(w, "task_failed", "task")
  /\ watch' = [watch EXCEPT ![w] =
                 IF watch[w].kind = "switch" THEN [@ EXCEPT !.pc = "degrade"] ELSE Over]
  /\ UNCHANGED <<status, lastError, locked, sweep, alerts, evidence, unraised,
                 crashes>>

\* A failed switch: its alert is in, the instance counts as degraded.
SwitchDegrades(w) ==
  /\ watch[w].pc = "degrade" /\ pending[w] = None
  /\ status' = "degraded" /\ lastError' = "switch"
  /\ locked' = None
  /\ watch' = [watch EXCEPT ![w] = Over]
  /\ unraised' = TRUE
  /\ UNCHANGED <<sweep, pending, alerts, evidence, crashes>>

-----------------------------------------------------------------------------
(* People and crashes. *)

\* alert_action, on one alert or on each of a group: acknowledged, or closed. What is no
\* longer live does not change.
Acknowledge(i) ==
  /\ alerts' = [alerts EXCEPT ![i].state = "ack"]
  /\ UNCHANGED <<status, lastError, locked, watch, sweep, pending, evidence, unraised, crashes>>

Close(i) ==
  /\ alerts' = RemoveAt(alerts, i)
  /\ unraised' = (unraised \/ alerts[i].kind = "degraded")
  /\ UNCHANGED <<status, lastError, locked, watch, sweep, pending, evidence, crashes>>

\* A controller stops: its sweep, its operations and what they were about to insert are
\* gone, the rows and the status are not.
Crash(p) ==
  LET own == {w \in Watchers : watch[w].at = p} IN
  /\ crashes < MaxCrashes
  /\ crashes' = crashes + 1
  /\ sweep' = [sweep EXCEPT ![p] = Idle]
  /\ pending' = [w \in Writers |-> IF w \in own \cup {p} THEN None ELSE pending[w]]
  /\ watch' = [w \in Watchers |-> IF w \in own THEN Over ELSE watch[w]]
  /\ locked' = IF locked = p THEN None ELSE locked
  /\ status' = IF locked = p /\ status = "busy" THEN "failed" ELSE status
  /\ unraised' = (unraised \/ sweep[p].pc = "raising" \/ pending[p] # None)
  /\ UNCHANGED <<lastError, alerts, evidence>>

-----------------------------------------------------------------------------
Sweeper(s) ==
  Scan(s) \/ (\E c \in Causes \cup {None} : Probe(s, c)) \/ Capture(s) \/ Degrade(s) \/ Raise(s) \/ Recover(s) \/ Resolve(s)
Operation(w) ==
  \/ \E kind \in Kinds, p \in Sweepers : Submit(w, kind, p)
  \/ \E outcome \in {"running", "destroyed"} : Succeed(w, outcome)
  \/ Watched(w) \/ Fail(w) \/ WatchedLost(w) \/ MarkFailed(w) \/ RaiseFailure(w)
  \/ SwitchDegrades(w)

Next ==
  \/ \E s \in Sweepers : Sweeper(s) \/ Crash(s)
  \/ \E w \in Watchers : Operation(w)
  \/ \E w \in Writers : Insert(w)
  \/ \E i \in DOMAIN alerts : Acknowledge(i) \/ Close(i)

Spec == Init /\ [][Next]_vars
-----------------------------------------------------------------------------
(* Properties *)

AtRest(s) == sweep[s].pc = "idle" /\ pending[s] = None

\* Of a cause a degraded instance shows there is a snapshot of the evidence, unless the
\* database refuses its text. Once the sweepers rest there is a live alert too; except
\* where a person closed it, it was refused, a crash cut the sweep short, another sweep
\* took the instance for recovered meanwhile, or a failed switch set the status
\* (sweep_once).
DegradedIsOnRecord ==
  status = "degraded" =>
    /\ lastError \in Causes /\ Accepted(lastError) => lastError \in evidence
    /\ (\A s \in Sweepers : AtRest(s)) /\ ~unraised => Raised("degraded")

LiveHealth == {i \in DOMAIN alerts : alerts[i].kind = "degraded"}

\* However often the instance fails, is worked on, recovers or is acknowledged, no
\* controller has two live alerts of its health: there are at most as many as there
\* are controllers (alert_open, docs/control-plane-ha-acceptance.md I14).
OneAlertEach == \A i, j \in LiveHealth : alerts[i].by = alerts[j].by => i = j

\* One trouble, one alert, whoever sweeps. It does not hold: two controllers look before
\* either inserts, and no key of the table refuses the second.
OneHealthAlert == \A i, j \in LiveHealth : i = j

\* Of a degradation a sweeper found there is an alert or a snapshot of the evidence. It
\* does not hold: a quote in the client's error makes both insertions fail.
DegradedIsTold ==
  status = "degraded" /\ (\A s \in Sweepers : AtRest(s)) /\ lastError \in Causes
    => Raised("degraded") \/ lastError \in evidence

\* An instance that runs and has nothing wrong has no live alert of its health
\* once a sweeper has looked (the comment on sweep_once). It does not hold: an
\* operation that ends "running" closes none, and the sweep then sees no recovery.
HealthyIsQuiet ==
  \A s \in Sweepers :
    sweep[s].pc = "probed" /\ sweep[s].found = None /\ sweep[s].was = "running"
      /\ status = "running" /\ (\A w \in Watchers : watch[w].pc \in {"fresh", "over"}) => ~Raised("degraded")
=============================================================================
