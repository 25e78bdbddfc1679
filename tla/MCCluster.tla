------------------------------ MODULE MCCluster ------------------------------
(***************************************************************************)
(* An instance of Cluster for TLC.                                           *)
(***************************************************************************)
EXTENDS Cluster, FiniteSets, TLC

(* Sessions and users.  A run may contain many events of one kind or of      *)
(* another, not of all: it begins with the part of Budget spent that its     *)
(* plan does not allow.                                                      *)

AuthEvents ==
  {"login", "logout", "resend", "restart", "snapshot", "create", "change", "hydrate"}

MCAuthBudget == [e \in AuthEvents |-> IF e \in {"change", "hydrate"} THEN 2 ELSE 1]

Plans == {
  {"login", "change1", "snapshot"},
  {"login", "logout", "resend"},
  {"login", "logout", "snapshot"},
  {"login", "logout", "restart"},
  {"change1", "change2"},
  {"create", "change1", "hydrate1"}}

SpentBefore(plan) ==
  [e \in AuthEvents |->
     CASE e = "change" -> 2 - Cardinality({"change1", "change2"} \cap plan)
       [] e = "hydrate" -> 2 - Cardinality({"hydrate1", "hydrate2"} \cap plan)
       [] OTHER -> IF e \in plan THEN 0 ELSE 1]

MCAuthPlans == {SpentBefore(plan) : plan \in Plans}

-----------------------------------------------------------------------------
(* The projection: two nodes of a shard, a log of three entries of which two  *)
(* are decisions, rounds of one row.                                         *)

OneShard == [n \in Nodes |-> 0]

Times(e, c, x, f, r, l) ==
  [elections |-> e, compactions |-> c, crashes |-> x, failures |-> f, resyncs |-> r,
   losses |-> l]

MCSinkBudgets ==
  {Times(2, 1, 1, 1, 0, 0), Times(1, 1, 1, 1, 1, 0), Times(2, 0, 0, 1, 0, 1),
   Times(1, 0, 1, 0, 1, 1)}

(* Two clocks, in and out of bounds either way, and messages in time and late. *)
MCOffsets == {-4, -1, 2, 3}

ASSUME BoundsAssumption ==
  /\ Auth!PasswordAssumption /\ Auth!TokenAssumption /\ Auth!BudgetAssumption
  /\ Projection!IndexAssumption /\ Projection!OneShardAssumption
  /\ Clock!ClockAssumption /\ Send!NoneAssumption

Symmetry == Permutations(Nodes) \cup Permutations(Clients)
=============================================================================
