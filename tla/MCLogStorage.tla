----------------------------- MODULE MCLogStorage -----------------------------
(* Bounds for LogStorage: what may happen, and how often, in one behaviour.   *)
EXTENDS LogStorage, TLC

MCBudget == [e \in Events |-> 2]

Plan(f, k, p, t, s, i) ==
  [e \in Events |->
     2 - (CASE e = "fault" -> f [] e = "kill" -> k [] e = "power" -> p
            [] e = "truncate" -> t [] e = "snapshot" -> s [] e = "install" -> i)]

\* The last two mix a kill and a power loss.
Plans == {
  Plan(0, 2, 0, 1, 2, 1), Plan(0, 0, 2, 1, 2, 1),
  Plan(2, 1, 0, 1, 1, 0), Plan(2, 0, 1, 1, 1, 0),
  Plan(1, 1, 0, 0, 2, 1), Plan(1, 0, 1, 0, 2, 1),
  Plan(1, 1, 1, 1, 0, 0), Plan(0, 1, 1, 0, 1, 1)}

MCInit == Start /\ spent \in Plans

Renamed == Permutations(Ops)

MCSpec == MCInit /\ [][Next]_vars

\* One snapshot and one kill, nothing fails.
KillInit == Start /\ spent = Plan(0, 1, 0, 0, 1, 0)

KillSpec == KillInit /\ [][Next]_vars
=============================================================================
