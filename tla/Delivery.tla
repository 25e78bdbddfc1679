------------------------------- MODULE Delivery -------------------------------
(***************************************************************************)
(* How the runtime of one node sends what its consensus core wants sent     *)
(* (ha/runtime.rs: spawn_background, claim_outbound, deliver).  Every tick  *)
(* hands its messages to a task of its own, so that a slow peer does not     *)
(* hold up the next heartbeat; a peer that an append_entries of a tick is   *)
(* still on the way to is left out of later ticks.  Answers to peers and     *)
(* step-downs go through the same tasks without asking, and what a proposal *)
(* flushes is sent past them.                                               *)
(***************************************************************************)
EXTENDS Integers, FiniteSets

CONSTANTS
  Peers,
  Tasks,        \* bound: tasks that deliver at one time
  SendBudget,   \* messages a task sends before it drops the rest (4096 in the source)
  MaxFaults,    \* bound: sends that die, and restarts
  None

Append == "append_entries"
Messages == Peers \X {Append, "request_vote"}

VARIABLES
  inflight,   \* peers left out of ticks
  task,       \* each task: a Batch or None
  faults

Batch ==
  [claimed : SUBSET Peers, sending : SUBSET Messages, lost : SUBSET Peers, tick : BOOLEAN]

NoneAssumption == None \notin Batch

vars == <<inflight, task, faults>>

Init == inflight = {} /\ task = [t \in Tasks |-> None] /\ faults = 0

Running == {t \in Tasks : task[t] # None}
Appended(outs) == {o[1] : o \in {m \in outs : m[2] = Append}}

-----------------------------------------------------------------------------
\* Only append_entries is held back: it is sent again with the next heartbeat.
ClaimOutbound(outs) == {o \in outs : o[2] = Append => o[1] \notin inflight}

\* deliver_inner sends at most SendBudget messages, in any order; the others are lost.
Deliver(t, outs, tick) ==
  \E sent \in SUBSET outs :
    /\ Cardinality(sent) = (IF Cardinality(outs) < SendBudget THEN Cardinality(outs) ELSE SendBudget)
    /\ task' = [task EXCEPT ![t] = [claimed |-> Appended(outs), sending |-> sent,
                                    lost |-> Appended(outs \ sent), tick |-> tick]]

\* One message to every peer: a heartbeat or a ballot.  Nothing is left, nothing is sent.
Tick(t, kind) ==
  LET send == ClaimOutbound({m \in Messages : m[2] = kind}) IN
  /\ task[t] = None
  /\ send # {}
  /\ inflight' = inflight \cup Appended(send)
  /\ Deliver(t, send, TRUE)
  /\ UNCHANGED faults

\* handle_conn and step_down_leader: an answer or a retry to one peer.
Answer(t, o) ==
  /\ task[t] = None
  /\ Deliver(t, {o}, FALSE)
  /\ UNCHANGED <<inflight, faults>>

\* Mutant: a peer stays left out until the whole batch has ended.
SentKept(t, o) ==
  /\ task[t] # None /\ o \in task[t].sending
  /\ task' = [task EXCEPT ![t].sending = @ \ {o}]
  /\ UNCHANGED <<inflight, faults>>

\* The peer answers, refuses, or does not answer within the time.
Sent(t, o) ==
  /\ task[t] # None /\ o \in task[t].sending
  /\ task' = [task EXCEPT ![t].sending = @ \ {o}]
  /\ inflight' = inflight \ Appended({o})
  /\ UNCHANGED faults

\* A send dies without telling which it was (JoinError).
SendDies(t, o) ==
  /\ task[t] # None /\ o \in task[t].sending
  /\ faults < MaxFaults /\ faults' = faults + 1
  /\ task' = [task EXCEPT ![t].sending = @ \ {o}, ![t].lost = @ \cup Appended({o})]
  /\ UNCHANGED inflight

BatchEnds(t) ==
  /\ task[t] # None /\ task[t].sending = {}
  /\ task' = [task EXCEPT ![t] = None]
  /\ inflight' = inflight \ task[t].claimed
  /\ UNCHANGED faults

Next ==
  \E t \in Tasks :
    \/ \E kind \in {Append, "request_vote"} : Tick(t, kind)
    \/ \E o \in Messages : Answer(t, o) \/ Sent(t, o) \/ SendDies(t, o)
    \/ BatchEnds(t)

Spec == Init /\ [][Next]_vars

-----------------------------------------------------------------------------
\* A peer misses heartbeats only while one is on the way to it, however slow the peers
\* are that its batch also goes to; after a send that died or was dropped, until that
\* batch has ended.
LeftOutWhileSending ==
  \A p \in inflight :
    \E t \in Running : <<p, Append>> \in task[t].sending \/ p \in task[t].lost

\* spawn_background: a heartbeat is not sent to a peer the last one is still on its way to.
OneHeartbeat ==
  \A s, t \in Running : \A p \in Peers :
    s # t /\ task[s].tick /\ task[t].tick
      => ~(<<p, Append>> \in task[s].sending /\ <<p, Append>> \in task[t].sending)
=============================================================================
