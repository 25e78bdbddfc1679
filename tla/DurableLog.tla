------------------------------ MODULE DurableLog ------------------------------
(***************************************************************************)
(* What the Raft node expects of its storage (ha/log.rs, ha/snapshot.rs):   *)
(* a sequence of operations, of which a crash keeps everything that an      *)
(* answered call left there.                                                *)
(*                                                                         *)
(* A call first makes some contents possible (its bytes reach a file) and   *)
(* then, if it succeeds, one of them actual.  Recovery finds the contents   *)
(* of the last success or one that was possible, nothing else; or the node  *)
(* refuses to start.  Whatever is possible keeps what is committed.         *)
(***************************************************************************)
EXTENDS Naturals, Sequences

VARIABLES
  content,   \* operations by index, those inside the snapshot included
  stable,    \* how many of them are committed, as far as the node knows
  maybe,     \* contents an unfinished or failed call may leave behind
  phase      \* "up", "down" or "refused"

abstractVars == <<content, stable, maybe, phase>>

KeepsStable(c) ==
  Len(c) >= stable /\ SubSeq(c, 1, stable) = SubSeq(content, 1, stable)

CommittedIsKept == \A c \in maybe : KeepsStable(c)

Begin ==
  /\ phase = "up" /\ UNCHANGED <<content, stable, phase>>
  /\ maybe \subseteq maybe'

Finish ==
  /\ phase = "up" /\ content' \in {content} \cup maybe /\ maybe' \subseteq maybe
  /\ stable' >= stable /\ stable' <= Len(content') /\ UNCHANGED phase

Advance ==
  /\ phase = "up" /\ stable' > stable /\ stable' <= Len(content)
  /\ maybe' \subseteq maybe /\ UNCHANGED <<content, phase>>

Crash ==
  phase = "up" /\ phase' = "down" /\ UNCHANGED <<content, stable, maybe>>

\* The node knows again of what its snapshot holds that it is committed.
Recover ==
  /\ phase = "down" /\ phase' = "up"
  /\ content' \in {content} \cup maybe /\ KeepsStable(content')
  /\ stable' <= Len(content') /\ maybe' = {}

Refuse ==
  phase = "down" /\ phase' = "refused" /\ UNCHANGED <<content, stable, maybe>>

AbstractInit == content = <<>> /\ stable = 0 /\ maybe = {} /\ phase = "up"

AbstractNext ==
  /\ Begin \/ Finish \/ Advance \/ Crash \/ Recover \/ Refuse
  /\ CommittedIsKept'

AbstractSpec == AbstractInit /\ [][AbstractNext]_abstractVars
=============================================================================
