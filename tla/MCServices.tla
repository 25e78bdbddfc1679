----------------------------- MODULE MCServices -----------------------------
(***************************************************************************)
(* What has to come back or to end around an instance: its port forwarders   *)
(* (AccessGates) and the outbox of the backup platform (BackupLink).  A      *)
(* behaviour is one of one part; the other has nothing to do.                *)
(***************************************************************************)
EXTENDS Integers, Sequences, TLC

CONSTANTS
  Controllers,       \* processes of one host, workers of the outbox
  Names, TopPort,    \* AccessGates
  None

VARIABLES
  part,
  view, sink, runs, next, gates, bound, owner, job, told, mixed, gateLeft,
  enabled, status, hook, outbox, worker, platform, calls, linkLeft

gateVars == <<view, sink, runs, next, gates, bound, owner, job, told, mixed, gateLeft>>
linkVars == <<enabled, status, hook, outbox, worker, platform, calls, linkLeft>>
vars == <<part, gateVars, linkVars>>

-----------------------------------------------------------------------------
(* Bounds on the events of a behaviour; the others do not happen.            *)

GateBudget(c, d, x) == [creates |-> c, destroys |-> d, crashes |-> x]
GateBudgets == {GateBudget(2, 0, 1), GateBudget(2, 1, 0), GateBudget(1, 1, 1), GateBudget(3, 1, 0)}
NoGates == GateBudget(0, 0, 0)

LinkBudget(q, f, u, c) == [requests |-> q, failures |-> f, requeues |-> u, crashes |-> c]
LinkBudgets ==
  {LinkBudget(3, 0, 0, 0), LinkBudget(1, 2, 0, 1), LinkBudget(1, 1, 1, 0), LinkBudget(2, 0, 0, 1)}
NoLink == LinkBudget(0, 0, 0, 0)

-----------------------------------------------------------------------------
Gates == INSTANCE AccessGates WITH
  left <- gateLeft, Replicas <- Controllers, Instances <- Names, LastPort <- TopPort,
  Budgets <- GateBudgets \cup {NoGates}

Link == INSTANCE BackupLink WITH
  left <- linkLeft, Processes <- Controllers, MaxAttempts <- 2,
  Budgets <- LinkBudgets \cup {NoLink}

\* What the part proved about assumes of its constants.
ASSUME PartAssumption == Gates!GatesAssumption

Init ==
  /\ part \in {"gates", "link"}
  /\ Gates!Init /\ (part = "gates" <=> gateLeft # NoGates)
  /\ Link!Init /\ (part = "link" <=> linkLeft # NoLink) /\ (part # "link" => ~enabled)

Next ==
  \/ part = "gates" /\ Gates!Next /\ UNCHANGED <<part, linkVars>>
  \/ part = "link" /\ Link!Next /\ UNCHANGED <<part, gateVars>>

Spec == Init /\ [][Next]_vars /\ Gates!Fairness /\ Link!Fairness

\* A port may be taken over from the instance that has it (see README): what follows is
\* not said of the access from then on.
Unmixed == ~mixed

-----------------------------------------------------------------------------
\* AccessGates: no client of an instance is connected to another one (lvs.rs).
AccessIsOwnUnlessMixed == Gates!AccessIsOwnUnlessMixed

\* AccessGates: after any crash the access of a live instance comes back.
AccessComesBack == Gates!AccessComesBack

\* BackupLink: an event of the outbox is delivered or given up in the end.
EventsEnd == Link!EventsEnd

\* BackupLink: an instance that stays running is registered in the end.
RunningIsRegistered == Link!RunningIsRegistered
=============================================================================
