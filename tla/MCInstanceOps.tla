---------------------------- MODULE MCInstanceOps ----------------------------
(* Small settings of InstanceOps. *)
EXTENDS InstanceOps

\* Bounds on the events; the others do not happen.
Having(some) == [e \in Events |-> IF e \in DOMAIN some THEN some[e] ELSE 0]

Alone(ops, slaves, limits) ==
  [up |-> {"c1"}, cluster |-> FALSE, ops |-> ops, slaves |-> slaves, limits |-> limits]
Together(ops, slaves, limits) ==
  [up |-> {"c1", "c2"}, cluster |-> TRUE, ops |-> ops, slaves |-> slaves, limits |-> limits]

\* One controller: growth and destruction with failures, faults and a restart;
\* the operations that leave the nodes alone; deletion and switching off. Two
\* controllers: growth, and a restart with a task under way.
OpsSettings ==
  {Alone({"create", "destroy", "read", "reparent"}, 1,
     Having([asks |-> 2, failures |-> 1, faults |-> 1, crashes |-> 1])),
   Alone({"create", "destroy", "switch", "rollback"}, 1,
     Having([asks |-> 3, failures |-> 1, rejects |-> 1])),
   Alone({"create", "destroy", "backup", "rollback"}, 1,
     Having([asks |-> 2, toggles |-> 1, deletes |-> 1])),
   Together({"create", "offline"}, 0, Having([asks |-> 2, strays |-> 1])),
   Together({"create"}, 0, Having([asks |-> 1, failures |-> 1, crashes |-> 1, strays |-> 1]))}
=============================================================================
