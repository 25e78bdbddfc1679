----------------------------- MODULE RaftClient -----------------------------
(***************************************************************************)
(* The write path of src/src/ha/runtime.rs over Raft: propose_with_flush    *)
(* appends an op on the leader, waits until the node has applied that index *)
(* (wait_applied_async) and answers with what Node.results holds for it.    *)
(***************************************************************************)
EXTENDS Raft

VARIABLES
  waiting,  \* callers inside propose_with_flush: [node, index, op]
  results,  \* Node.results: index -> the entry applied there by this process
  acked     \* history: successful answers, [op, index, entry]

clientVars == <<waiting, results, acked>>

ClientInit ==
  /\ waiting = {} /\ acked = {}
  /\ results = [n \in Voters |-> <<>>]

\* apply_committed stores a result per index it applies; installing a snapshot
\* stores none.
RecordResults ==
  results' = [n \in Voters |->
    IF Len(sm'[n]) > Len(sm[n]) /\ snap'[n] = snap[n]
    THEN [i \in DOMAIN results[n] \cup (Len(sm[n]) + 1)..Len(sm'[n]) |->
            IF i > Len(sm[n]) THEN sm'[n][i] ELSE results[n][i]]
    ELSE results[n]]

ClientPropose(n, op) ==
  /\ Propose(n, op)
  /\ waiting' = waiting \cup
       {[node |-> n, index |-> LastIndex(log[n]) + 1, op |-> op]}
  /\ UNCHANGED <<results, acked>>

\* The wait ends on the index alone.
Applied(w) == Len(sm[w.node]) >= w.index

\* Applied, and the result is there: the caller is told its op was applied.
Ack(w) ==
  /\ Applied(w) /\ w.index \in DOMAIN results[w.node]
  /\ waiting' = waiting \ {w}
  /\ acked' = acked \cup {[op |-> w.op, index |-> w.index,
                           entry |-> results[w.node][w.index]]}
  /\ UNCHANGED <<vars, results>>

\* Five seconds passed, or the result is gone: quorum_unavailable.
GiveUp(w) ==
  /\ waiting' = waiting \ {w}
  /\ UNCHANGED <<vars, results, acked>>

ClientRestart(n) ==
  /\ Restart(n)
  /\ waiting' = {w \in waiting : w.node # n}
  /\ results' = [results EXCEPT ![n] = <<>>]
  /\ UNCHANGED acked

ClientNext ==
  \/ \E n \in Voters :
       \/ NodeStep(n) /\ RecordResults /\ UNCHANGED <<waiting, acked>>
       \/ ClientRestart(n)
       \/ \E op \in Ops : ClientPropose(n, op)
  \/ \E w \in waiting : Ack(w) \/ GiveUp(w)

-----------------------------------------------------------------------------
\* C2 of the design: no minority accepts a write.  The entry a successful
\* answer was based on is, from then on, in the logs of a majority.
AckedOnMajority ==
  \A k \in acked :
    Cardinality({v \in Voters : Has(log[v], k.index)
                                  /\ At(log[v], k.index) = k.entry}) >= Majority

\* What a caller takes a success to mean: the applied entry is its own op.
AckedOpIsOwn == \A k \in acked : k.entry.op = k.op
=============================================================================
