------------------------------- MODULE Cluster -------------------------------
(***************************************************************************)
(* The parts of the cluster around consensus: sessions and users             *)
(* (AuthSessions), the projection into the sink (SinkProjection), the        *)
(* measured clocks (ClockSkew), the delivery of messages (Delivery) and the  *)
(* self-check (Preflight).  A behaviour is one of one part; the variables of  *)
(* the others hold nothing.                                                  *)
(***************************************************************************)
EXTENDS Integers, Sequences

CONSTANTS
  Nodes, None,
  Clients, Tokens, Passwords, SinkPassword, MaxTries, AuthBudget,
  AuthPlans,    \* bound: the events that are spent before a behaviour of AuthSessions begins
  ShardOf, MaxIndex, Decided, BatchLimit, SinkBudgets,
  Offsets, Delays, MaxSkew, Window, Ttl, MinSamples, CorrectionCap,
  Peers, Tasks, SendBudget, MaxFaults

VARIABLES
  part,
  log, known, kvApplied, client, flying, loggedOut, spent,
  committed, applied, snapshot, leads, cursor, file, round, rows, exempt, unsure, asked, left,
  offset, samples,
  inflight, task, faults,
  holds, network, waived, phase, check, measured, works, heldOnce

authVars == <<log, known, kvApplied, client, flying, loggedOut, spent>>
sinkVars ==
  <<committed, applied, snapshot, leads, cursor, file, round, rows, exempt, unsure, asked,
    left>>
clockVars == <<offset, samples>>
sendVars == <<inflight, task, faults>>
checkVars == <<holds, network, waived, phase, check, measured, works, heldOnce>>
vars == <<part, authVars, sinkVars, clockVars, sendVars, checkVars>>

-----------------------------------------------------------------------------
Auth == INSTANCE AuthSessions WITH applied <- kvApplied, Budget <- AuthBudget
Projection == INSTANCE SinkProjection WITH Budgets <- SinkBudgets
Clock == INSTANCE ClockSkew
Send == INSTANCE Delivery
SelfCheck == INSTANCE Preflight

-----------------------------------------------------------------------------
NoAuth ==
  /\ log = <<>> /\ known = None /\ kvApplied = None /\ client = None
  /\ flying = None /\ loggedOut = None /\ spent = None

NoProjection ==
  /\ committed = None /\ applied = None /\ snapshot = None /\ leads = None
  /\ cursor = None /\ file = None /\ round = None /\ rows = None
  /\ exempt = None /\ unsure = None /\ asked = None /\ left = None

NoClock == offset = None /\ samples = None
NoSend == inflight = None /\ task = None /\ faults = None

NoCheck ==
  /\ holds = None /\ network = None /\ waived = None /\ phase = None
  /\ check = None /\ measured = None /\ works = None /\ heldOnce = None

Init ==
  /\ part \in {"auth", "projection", "clock", "send", "check"}
  /\ IF part = "auth" THEN Auth!Start /\ spent \in AuthPlans ELSE NoAuth
  /\ IF part = "projection" THEN Projection!Init ELSE NoProjection
  /\ IF part = "clock" THEN Clock!Init ELSE NoClock
  /\ IF part = "send" THEN Send!Init ELSE NoSend
  /\ IF part = "check" THEN SelfCheck!Init ELSE NoCheck

Next ==
  \/ /\ part = "auth" /\ Auth!Next
     /\ UNCHANGED <<part, sinkVars, clockVars, sendVars, checkVars>>
  \/ /\ part = "projection" /\ Projection!Next
     /\ UNCHANGED <<part, authVars, clockVars, sendVars, checkVars>>
  \/ /\ part = "clock" /\ Clock!Next
     /\ UNCHANGED <<part, authVars, sinkVars, sendVars, checkVars>>
  \/ /\ part = "send" /\ Send!Next
     /\ UNCHANGED <<part, authVars, sinkVars, clockVars, checkVars>>
  \/ /\ part = "check" /\ SelfCheck!Next
     /\ UNCHANGED <<part, authVars, sinkVars, clockVars, sendVars>>

Spec == Init /\ [][Next]_vars

-----------------------------------------------------------------------------
\* AuthSessions: a session is worthless wherever the password it was opened with is no
\* longer the user's, and wherever a logout was answered (runtime.rs, session checks).
SessionsEnd == part = "auth" => Auth!SessionsEnd

\* AuthSessions: the second of two administrators builds on what the first wrote
\* (mutate_user).
ChangesBuildOn == part = "auth" => Auth!ChangesBuildOn

\* SinkProjection: a decision has one audit row at most, and no cursor has passed one that
\* has none (projection.rs), but for what is named there.
ProjectionTrue ==
  part = "projection" => Projection!ProjectionTrue

\* ClockSkew: a clock is taken to be out of bounds when it is, and only then, as far as
\* the samples can tell (raft.rs, clock_skew_ms).
SkewVerdict == part = "clock" => Clock!SkewVerdict

\* Delivery: a peer misses heartbeats only while one is on the way to it (runtime.rs,
\* deliver).
LeftOutWhileSending == part = "send" => Send!LeftOutWhileSending

\* Preflight: what a running node lacks it lists, and was allowed to lack (runtime.rs,
\* self_check).
LacksAreListed == part = "check" => SelfCheck!LacksAreListed
=============================================================================
