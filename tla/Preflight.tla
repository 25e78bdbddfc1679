------------------------------- MODULE Preflight -------------------------------
(***************************************************************************)
(* How a node enters cluster mode and says whether it is ready (main.rs:    *)
(* serve_cluster; ha/runtime.rs: self_check, start, ready).  Its premises    *)
(* are checked twice before it runs, by main and again by start, and the    *)
(* world may change in between and afterwards; what a running node says of  *)
(* them comes from the second check, but for its clock, which it measures.  *)
(***************************************************************************)
EXTENDS FiniteSets

CONSTANT None

Structural == {"voters", "data_dir", "fsync"}   \* never waived
Waivable == {"clock", "agent", "network"}
Premises == Structural \cup Waivable

VARIABLES
  holds,     \* the premises that hold, but for the network
  network,   \* the round trips to the peers: "good", "slow", or "silent" when no peer
             \* answers
  waived,    \* RDSCTL_..._ALLOW_...: set for the process
  phase,     \* "off", "checked", "running" or "refused"
  check,     \* selfcheck: the premises found to hold, or None
  measured,  \* the skew measured from peers: None, "in" or "out" of bounds
  works,     \* its log is writable, its fsync works and it hears from a majority
  heldOnce   \* history: premises that held at a check of this process

vars == <<holds, network, waived, phase, check, measured, works, heldOnce>>

Init ==
  /\ holds \in SUBSET (Premises \ {"network"})
  /\ network \in {"good", "slow", "silent"}
  /\ waived \in SUBSET Waivable
  /\ phase = "off" /\ check = None /\ measured = None /\ works = FALSE /\ heldOnce = {}

\* A network nobody answers on is not slow.
MeasurePeerNetwork == network # "slow"

SelfCheck == holds \cup (IF MeasurePeerNetwork THEN {"network"} ELSE {})

\* Mutant: the switch for the network is not looked at.
LabOverrideAllowsAny(c) == Structural \subseteq c /\ (Premises \ c) \subseteq waived \cup {"network"}

\* blocking_failures of main, lab_override_allows of start: the same verdict.
LabOverrideAllows(c) == Structural \subseteq c /\ (Premises \ c) \subseteq waived

Held == holds \cup (IF network = "good" THEN {"network"} ELSE {})

-----------------------------------------------------------------------------
(* Starting. *)

\* main: exit code 2 when something is missing that is not waived.
ServeCluster ==
  /\ phase = "off"
  /\ phase' = IF LabOverrideAllows(SelfCheck) THEN "checked" ELSE "refused"
  /\ heldOnce' = Held
  /\ UNCHANGED <<holds, network, waived, check, measured, works>>

Start ==
  /\ phase = "checked"
  /\ IF LabOverrideAllows(SelfCheck)
       THEN phase' = "running" /\ check' = SelfCheck
       ELSE phase' = "refused" /\ check' = None
  /\ heldOnce' = heldOnce \cup Held
  /\ UNCHANGED <<holds, network, waived, measured, works>>

\* The supervisor starts it again, perhaps with other switches.
Restart ==
  /\ phase \in {"running", "refused"}
  /\ phase' = "off" /\ check' = None /\ measured' = None /\ heldOnce' = {}
  /\ waived' \in SUBSET Waivable
  /\ UNCHANGED <<holds, network, works>>

-----------------------------------------------------------------------------
(* What a running node says. *)

PremisesUnverified ==
  ((Premises \ {"data_dir", "clock"}) \ check) \cup (IF measured = "in" THEN {} ELSE {"clock"})

PremisesOk == PremisesUnverified = {}

Ready == works /\ measured # "out"

Measure ==
  /\ phase = "running"
  /\ measured' \in {None, "in", "out"}
  /\ UNCHANGED <<holds, network, waived, phase, check, works, heldOnce>>

\* The membership is the process's configuration; anything else may change any time.
Change ==
  /\ \/ /\ \E p \in {"data_dir", "fsync", "clock", "agent"} :
              holds' = IF p \in holds THEN holds \ {p} ELSE holds \cup {p}
        /\ UNCHANGED <<network, works>>
     \/ network' \in {"good", "slow", "silent"} /\ UNCHANGED <<holds, works>>
     \/ works' = ~works /\ UNCHANGED <<holds, network>>
  /\ UNCHANGED <<waived, phase, check, measured, heldOnce>>

Next == ServeCluster \/ Start \/ Restart \/ Measure \/ Change

Spec == Init /\ [][Next]_vars

-----------------------------------------------------------------------------
\* However the world changes between the two checks, a node that runs had at one of them
\* every premise it does not now list as unverified, except that a network nobody
\* answered on passes, and a structural one always; what it lacks was waived.
LacksAreListed ==
  phase = "running" =>
    /\ Structural \subseteq heldOnce
    /\ \A p \in Premises \ heldOnce :
         \/ p \in PremisesUnverified
         \/ p = "clock" /\ measured = "in"
         \/ p = "network" /\ "network" \in check
    /\ (Premises \ check) \subseteq waived

\* main.rs and lab_override_allows: a node let in by a switch stays unready.
LabStaysUnready == phase = "running" /\ (Premises \ check) # {} => ~Ready

\* ready: a network that could not be measured is not passed off as verified.
NetworkIsMeasured == phase = "running" /\ PremisesOk => "network" \in heldOnce
=============================================================================
