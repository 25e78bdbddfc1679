--------------------------- MODULE MCTaskScheduler ---------------------------
(***************************************************************************)
(* Instances of TaskScheduler for TLC: a chain beside a lone node, a join   *)
(* of two nodes, and a cycle.                                               *)
(***************************************************************************)
EXTENDS TaskScheduler, TLC

CONSTANTS a, b, c, p1, p2

Chain == (a :> {}) @@ (b :> {a}) @@ (c :> {})
Line == (a :> {}) @@ (b :> {a}) @@ (c :> {b})
Fork == (a :> {}) @@ (b :> {}) @@ (c :> {a, b})
Cycle == (a :> {}) @@ (b :> {c}) @@ (c :> {b})

Bounds(can, rer, ref, lost, cr, el) ==
  [cancels |-> can, reruns |-> rer, refused |-> ref, lost |-> lost,
   crashes |-> cr, elections |-> el]

With(procs, graphs, retries, limits) ==
  [procs |-> procs, graphs |-> graphs, retries |-> retries, limits |-> limits]

\* What one controller lives through, and two that change places.
One == With({p1}, {Chain, Fork, Cycle}, 1, Bounds(1, 1, 2, 1, 1, 0))
Two == With({p1, p2}, {Line}, 0, Bounds(0, 0, 1, 0, 1, 1))
OneOrTwo == {One, Two}
=============================================================================
