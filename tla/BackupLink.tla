------------------------------ MODULE BackupLink ------------------------------
(***************************************************************************)
(* The outbox that tells an external backup platform about instances and    *)
(* backups (backuplink.rs; the outbox of store.rs).  The watchers of      *)
(* tasks put events in it; the worker of every controller process polls it, *)
(* calls the platform, marks the row with the outcome, reconciles and       *)
(* prunes.  The call and the mark are two steps, and a row that is being    *)
(* delivered may be polled again.                                           *)
(*                                                                          *)
(* One instance with its master and one slave; an event is its idempotency  *)
(* key, and the outbox has at most one row of a key.  Times are abstract: a *)
(* row is due or not (next_at), old enough to be pruned or not (seven days, *)
(* during which a worker always gets from a poll to its marks).             *)
(***************************************************************************)
EXTENDS Integers, SequencesExt

CONSTANTS
  Processes,     \* controller processes, each with a worker
  MaxAttempts,
  Budgets,       \* bound: how many requests, failing calls, requeues and crashes there
                 \* are; a behaviour has one of these budgets
  None

\* The containers of the instance; its own events name the node "master".
Containers == {"c-master", "c-slave"}
Register == <<"register_instance", "master">>
Deregister == <<"deregister_instance", "master">>
RegisterNode == <<"register_node", "c-slave">>
BackupResult(n) == <<"backup_result", "", n>>

VARIABLES
  enabled,   \* the link is configured (RDSCTL_BACKUP_REG_ENABLED)
  status,    \* of the instance: "none", "running" or "destroyed"
  hook,      \* the end of a task its watcher has still to report, or None
  outbox,    \* rows in the order of their ids
  worker,    \* each process's worker: [pc, batch, outcome]
  platform,  \* what the platform was last told of the instance
  calls,     \* history: calls made for each row since it was put in (up to MaxAttempts)
  left       \* what is left of the budget

vars == <<enabled, status, hook, outbox, worker, platform, calls, left>>

Idle == [pc |-> "idle", batch |-> <<>>, outcome |-> None]

Init ==
  /\ enabled \in BOOLEAN
  /\ status = "none" /\ hook = None
  /\ outbox = <<>> /\ calls = <<>>
  /\ worker = [p \in Processes |-> Idle]
  /\ platform = "none"
  /\ left \in Budgets

Spend(e) == left[e] > 0 /\ left' = [left EXCEPT ![e] = @ - 1]

-----------------------------------------------------------------------------
(* The outbox. *)

Keys == {r.key : r \in Range(outbox)}

\* INSERT IGNORE: a key that is there already is left as it is.
Enqueue(key) ==
  IF key \in Keys THEN UNCHANGED <<outbox, calls>>
  ELSE /\ outbox' = Append(outbox, [key |-> key, state |-> "pending", attempts |-> 0,
                                    due |-> TRUE, old |-> FALSE, refused |-> FALSE])
       /\ calls' = (key :> 0) @@ calls

Open == {"pending", "delivering"}
\* Mutant: rows a stopped worker left "delivering" are not polled.
PolledPending(row) == row.state = "pending" /\ row.due
Polled(row) == row.state \in Open /\ row.due

\* The latest row done for a node says whether it is registered.
Registered(node) ==
  LET done == SelectSeq(outbox, LAMBDA r : r.state = "done" /\ r.key[2] = node) IN
  done # <<>> /\ Last(done).key[1] \in {"register_instance", "register_node"}

Mark(key, change) ==
  outbox' = [i \in DOMAIN outbox |-> IF outbox[i].key = key THEN change @@ outbox[i] ELSE outbox[i]]

-----------------------------------------------------------------------------
(* Instances and the ends of their tasks. *)

TaskEnds(kind, from, to) ==
  /\ status \in from /\ hook = None
  /\ Spend("requests")
  /\ status' = to /\ hook' = kind
  /\ UNCHANGED <<enabled, outbox, worker, platform, calls>>

Create == TaskEnds("create", {"none"}, "running")
Scaleout == TaskEnds("scaleout", {"running"}, "running")
Backup == TaskEnds("backup", {"running"}, "running")
Destroy == TaskEnds("destroy", {"running"}, "destroyed")

Delete ==
  /\ status = "destroyed"
  /\ status' = "none"
  /\ UNCHANGED <<enabled, hook, outbox, worker, platform, calls, left>>

EventOf(kind) ==
  CASE kind = "create"   -> Register
    [] kind = "scaleout" -> RegisterNode
    [] kind = "destroy"  -> Deregister
    [] kind = "backup"   -> BackupResult(left["requests"])

\* on_task_success finds no instance that was deleted meanwhile.
Notify ==
  /\ hook # None
  /\ IF ~enabled \/ (status = "none" /\ hook # "backup") THEN UNCHANGED <<outbox, calls>>
     ELSE Enqueue(EventOf(hook))
  /\ hook' = None
  /\ UNCHANGED <<enabled, status, worker, platform, left>>

-----------------------------------------------------------------------------
(* The worker of process p. *)

Poll(p) ==
  /\ enabled /\ worker[p].pc = "idle"
  /\ worker' = [worker EXCEPT ![p] =
       [pc |-> "call", outcome |-> None,
        batch |-> [i \in DOMAIN SelectSeq(outbox, Polled) |->
                     LET row == SelectSeq(outbox, Polled)[i] IN
                     [key |-> row.key, attempts |-> row.attempts]]]]
  /\ outbox' = [i \in DOMAIN outbox |->
       IF Polled(outbox[i]) THEN [outbox[i] EXCEPT !.state = "delivering"] ELSE outbox[i]]
  /\ UNCHANGED <<enabled, status, hook, platform, calls, left>>

\* What an accepted event tells the platform.
Heard(key) ==
  CASE key = Register   -> "registered"
    [] key = Deregister -> "deregistered"
    [] OTHER -> platform

\* deliver: accepted, refused for good, or neither (the platform may have heard it).
Call(p) ==
  LET key == Head(worker[p].batch).key IN
  /\ worker[p].pc = "call" /\ worker[p].batch # <<>>
  /\ \E outcome \in {"ok", "retry", "permanent"} :
       /\ IF outcome = "ok" THEN UNCHANGED left ELSE Spend("failures")
       /\ worker' = [worker EXCEPT ![p].pc = "mark", ![p].outcome = outcome]
       /\ platform' \in IF outcome = "ok" THEN {Heard(key)}
                        ELSE IF outcome = "retry" THEN {platform, Heard(key)} ELSE {platform}
  /\ calls' = [calls EXCEPT ![key] = IF @ = MaxAttempts THEN @ ELSE @ + 1]
  /\ UNCHANGED <<enabled, status, hook, outbox>>

\* The attempts are those of the polled row and this one.
Outcome(p) ==
  LET attempts == Head(worker[p].batch).attempts + 1 IN
  CASE worker[p].outcome = "ok"        -> [state |-> "done", attempts |-> attempts]
    [] worker[p].outcome = "permanent" ->
         [state |-> "dead", attempts |-> attempts, refused |-> TRUE]
    [] worker[p].outcome = "retry" /\ attempts >= MaxAttempts ->
         [state |-> "dead", attempts |-> attempts]
    [] OTHER -> [state |-> "pending", attempts |-> attempts, due |-> FALSE]

MarkOutcome(p) ==
  /\ worker[p].pc = "mark"
  /\ Mark(Head(worker[p].batch).key, Outcome(p))
  /\ worker' = [worker EXCEPT ![p] =
       [pc |-> "call", batch |-> Tail(worker[p].batch), outcome |-> None]]
  /\ UNCHANGED <<enabled, status, hook, platform, calls, left>>

\* A running instance is reported again unless all its nodes are registered.
Reconcile(p) ==
  /\ worker[p].pc = "call" /\ worker[p].batch = <<>>
  /\ worker' = [worker EXCEPT ![p].pc = "prune"]
  /\ IF status = "running" /\ \E c \in Containers : ~Registered(c)
       THEN Enqueue(Register) ELSE UNCHANGED <<outbox, calls>>
  /\ UNCHANGED <<enabled, status, hook, platform, left>>

\* Mutant: rows that were given up stay for good.
PruneDone(p) ==
  /\ worker[p].pc = "prune"
  /\ worker' = [worker EXCEPT ![p] = Idle]
  /\ outbox' = SelectSeq(outbox, LAMBDA r : r.state # "done" \/ ~r.old)
  /\ calls' = [k \in {r.key : r \in Range(outbox')} |-> calls[k]]
  /\ UNCHANGED <<enabled, status, hook, platform, left>>

Prune(p) ==
  /\ worker[p].pc = "prune"
  /\ worker' = [worker EXCEPT ![p] = Idle]
  /\ outbox' = SelectSeq(outbox, LAMBDA r : r.state \in Open \/ ~r.old)
  /\ calls' = [k \in {r.key : r \in Range(outbox')} |-> calls[k]]
  /\ UNCHANGED <<enabled, status, hook, platform, left>>

\* An operator tries a dead row again.
Requeue(key) ==
  /\ \E r \in Range(outbox) : r.key = key /\ r.state = "dead"
  /\ Spend("requeues")
  /\ Mark(key, [state |-> "pending", attempts |-> 0, due |-> TRUE, old |-> FALSE])
  /\ UNCHANGED <<enabled, status, hook, worker, platform, calls>>

\* Time: the backoff of a row ends; a row becomes old when no worker still has it.
Elapse(key) ==
  /\ \E r \in Range(outbox) : r.key = key /\ ~r.due /\ r.state \in Open
  /\ Mark(key, [due |-> TRUE])
  /\ UNCHANGED <<enabled, status, hook, worker, platform, calls, left>>

Age(key) ==
  /\ \E r \in Range(outbox) : r.key = key /\ r.state \notin Open /\ ~r.old
  /\ \A p \in Processes : \A r \in Range(worker[p].batch) : r.key # key
  /\ Mark(key, [old |-> TRUE])
  /\ UNCHANGED <<enabled, status, hook, worker, platform, calls, left>>

\* A process stops: its worker begins anew, the ends of tasks it watched go unreported.
Crash(p) ==
  /\ Spend("crashes")
  /\ worker' = [worker EXCEPT ![p] = Idle]
  /\ hook' \in {None, hook}
  /\ UNCHANGED <<enabled, status, outbox, platform, calls>>

Work(p) == Poll(p) \/ Call(p) \/ MarkOutcome(p) \/ Reconcile(p) \/ Prune(p)
Time == \E key \in Keys : Elapse(key) \/ Age(key)

Next ==
  \/ Create \/ Scaleout \/ Backup \/ Destroy \/ Delete \/ Notify \/ Time
  \/ \E key \in Keys : Requeue(key)
  \/ \E p \in Processes : Work(p) \/ Crash(p)

\* Workers and watchers run on; time passes; the platform answers in the end, which the
\* bound on failing calls says.
Fairness ==
  /\ WF_vars(Notify) /\ WF_vars(Time)
  /\ \A p \in Processes : WF_vars(Work(p))

Spec == Init /\ [][Next]_vars /\ Fairness

-----------------------------------------------------------------------------
\* Two workers that have the same row lose each other's count of attempts, and an
\* operator resets it; still no row is given up before it was called as often as
\* MAX_ATTEMPTS says, or refused.
DeadWasTried ==
  \A r \in Range(outbox) :
    r.state = "dead" => r.refused \/ calls[r.key] = MaxAttempts

\* An event put in the outbox is delivered or given up in the end, whichever processes
\* stop while they deliver it (a row left "delivering" is polled again).
EventsEnd ==
  \A key \in {Register, Deregister} :
    (key \in Keys) ~> (\A r \in Range(outbox) : r.key = key => r.state \notin Open)

\* Reconciling makes up for what a crash or the platform dropped: an instance that stays
\* running is registered in the end, even one made again under the name of a destroyed one.
RunningIsRegistered == (enabled /\ status = "running") ~> (status # "running" \/ platform = "registered")
=============================================================================
