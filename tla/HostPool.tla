------------------------------ MODULE HostPool ------------------------------
(***************************************************************************)
(* The registry of hosts and the nodes bound to them (instance.rs:          *)
(* host_create to host_clear_node, schedule_check, replace_node and its     *)
(* commit; store.rs host_upsert, host_delete).  A host has one slot for     *)
(* each 8 GiB.  A request tests registry and slots, and takes the slot      *)
(* later: an assignment at once, a replacement when its task commits.       *)
(* Registry rows live in the store, the bindings in the records of the      *)
(* instances, and no lock covers both.                                      *)
(***************************************************************************)
EXTENDS Integers, FiniteSets

CONSTANTS
  Hosts, Instances,
  Requests,   \* bound: requests at a time
  MaxSlots,   \* the largest host
  None

Nodes == Instances \X (1..2)
HostRows == [slots : 1..MaxSlots, status : {"running", "retiring"}]

RegistryAssumption ==
  IsFiniteSet(Instances) /\ MaxSlots \in Nat /\ None \notin Hosts \cup Requests \cup HostRows

VARIABLES
  hosts,      \* rds_hosts: [slots, status], or None
  bound,      \* node_hosts of every node, or None
  life,       \* each instance: "live", "destroyed" or "purged"
  req,        \* each request between its test and its write, or None
  overlapped  \* history: hosts taken, deleted or changed on a test that no longer held

vars == <<hosts, bound, life, req, overlapped>>

Init ==
  /\ hosts \in [Hosts -> {None} \cup [slots : 1..MaxSlots, status : {"running"}]]
  /\ bound = [n \in Nodes |-> None]
  /\ life = [i \in Instances |-> "live"]
  /\ req = [q \in Requests |-> None]
  /\ overlapped = {}

\* Every node bound to h, of destroyed instances as well.
BindingCount(h) == Cardinality({n \in Nodes : bound[n] = h})

\* schedule_check for one more node.
ScheduleCheck(h) == hosts[h] # None /\ BindingCount(h) + 1 <= hosts[h].slots

\* Whatever changes at h, the tests that others made of h may no longer hold.
Stale(h, but) ==
  [q \in Requests |-> IF q # but /\ req[q] # None /\ req[q].host = h
                      THEN [req[q] EXCEPT !.fresh = FALSE] ELSE req[q]]

Answered(q) == [Stale(req[q].host, q) EXCEPT ![q] = None]

\* A write on an old test is an overlap.
Overlap(q) == overlapped \cup (IF req[q].fresh THEN {} ELSE {req[q].host})

Ask(q, op, n, h, row) ==
  req' = [req EXCEPT ![q] = [op |-> op, node |-> n, host |-> h, row |-> row, fresh |-> TRUE]]

-----------------------------------------------------------------------------
(* Taking and leaving slots. *)

\* host_assign_node: a node already there takes no further slot.
Assign(q, n, h) ==
  /\ req[q] = None /\ life[n[1]] = "live"
  /\ hosts[h] # None /\ hosts[h].status # "retiring"
  /\ bound[n] # h => ScheduleCheck(h)
  /\ Ask(q, "assign", n, h, None)
  /\ UNCHANGED <<hosts, bound, life, overlapped>>

\* replace_node: one operation per instance; the node must come from elsewhere.
Replace(q, n, h) ==
  /\ req[q] = None /\ life[n[1]] = "live"
  /\ \A p \in Requests : req[p] # None /\ req[p].op = "replace" => req[p].node[1] # n[1]
  /\ hosts[h] # None /\ hosts[h].status # "retiring"
  /\ ScheduleCheck(h) /\ bound[n] # h
  /\ Ask(q, "replace", n, h, None)
  /\ UNCHANGED <<hosts, bound, life, overlapped>>

Bind(q) ==
  /\ req[q] # None /\ req[q].op \in {"assign", "replace"}
  /\ IF life[req[q].node[1]] = "purged"
     THEN UNCHANGED <<bound, overlapped>> /\ req' = [req EXCEPT ![q] = None]
     ELSE /\ bound' = [bound EXCEPT ![req[q].node] = req[q].host]
          /\ req' = Answered(q)
          /\ overlapped' = Overlap(q)
  /\ UNCHANGED <<hosts, life>>

ReplaceFails(q) ==
  /\ req[q] # None /\ req[q].op = "replace"
  /\ req' = [req EXCEPT ![q] = None]
  /\ UNCHANGED <<hosts, bound, life, overlapped>>

HostClearNode(n) ==
  /\ bound[n] # None /\ life[n[1]] # "purged"
  /\ bound' = [bound EXCEPT ![n] = None]
  /\ UNCHANGED <<hosts, life, req, overlapped>>

\* An operation holds the instance alone. Destroying keeps the bindings of the record; deleting the record drops them.
Destroy(i) ==
  /\ life[i] = "live"
  /\ \A q \in Requests : req[q] # None /\ req[q].op = "replace" => req[q].node[1] # i
  /\ life' = [life EXCEPT ![i] = "destroyed"]
  /\ UNCHANGED <<hosts, bound, req, overlapped>>

DeleteRecord(i) ==
  /\ life[i] = "destroyed"
  /\ life' = [life EXCEPT ![i] = "purged"]
  /\ bound' = [n \in Nodes |-> IF n[1] = i THEN None ELSE bound[n]]
  /\ UNCHANGED <<hosts, req, overlapped>>

-----------------------------------------------------------------------------
(* The registry. *)

\* host_create inserts or overwrites, whatever the host carries.
HostCreate(h, slots) ==
  /\ hosts' = [hosts EXCEPT ![h] = [slots |-> slots, status |-> "running"]]
  /\ req' = Stale(h, None)
  /\ overlapped' = overlapped \cup (IF BindingCount(h) > slots THEN {h} ELSE {})
  /\ UNCHANGED <<bound, life>>

\* No node of any instance may be bound to the host.
\* Mutant: those of destroyed instances do not count.
InUseByLive(h) == \E n \in Nodes : bound[n] = h /\ life[n[1]] = "live"
InUse(h) == \E n \in Nodes : bound[n] = h

HostDelete(q, h) ==
  /\ req[q] = None
  /\ ~InUse(h)
  /\ Ask(q, "delete", None, h, None)
  /\ UNCHANGED <<hosts, bound, life, overlapped>>

DeleteRow(q) ==
  /\ req[q] # None /\ req[q].op = "delete"
  /\ hosts' = [hosts EXCEPT ![req[q].host] = None]
  /\ req' = Answered(q)
  /\ overlapped' = Overlap(q)
  /\ UNCHANGED <<bound, life>>

\* host_set_status reads the row and writes it back whole.
HostSetStatus(q, h, status) ==
  /\ req[q] = None /\ hosts[h] # None
  /\ Ask(q, "status", None, h, [hosts[h] EXCEPT !.status = status])
  /\ UNCHANGED <<hosts, bound, life, overlapped>>

WriteRow(q) ==
  /\ req[q] # None /\ req[q].op = "status"
  /\ hosts' = [hosts EXCEPT ![req[q].host] = req[q].row]
  /\ req' = Answered(q)
  /\ overlapped' = Overlap(q)
  /\ UNCHANGED <<bound, life>>

-----------------------------------------------------------------------------
Next ==
  \/ \E q \in Requests, h \in Hosts :
       \/ \E n \in Nodes : Assign(q, n, h) \/ Replace(q, n, h)
       \/ HostDelete(q, h)
       \/ \E status \in {"running", "retiring"} : HostSetStatus(q, h, status)
  \/ \E q \in Requests : Bind(q) \/ ReplaceFails(q) \/ DeleteRow(q) \/ WriteRow(q)
  \/ \E n \in Nodes : HostClearNode(n)
  \/ \E i \in Instances : Destroy(i) \/ DeleteRecord(i)
  \/ \E h \in Hosts, slots \in 1..MaxSlots : HostCreate(h, slots)

Spec == Init /\ [][Next]_vars
-----------------------------------------------------------------------------
(* Properties *)

\* A bound host is registered and carries no more nodes than it has slots, except
\* where a request wrote on a test that another had overtaken (host_delete's
\* protection from dangling references, docs/physical-multi-site-ops.md section 5).
BindingsAreSound ==
  \A h \in Hosts \ overlapped :
    BindingCount(h) > 0 => hosts[h] # None /\ BindingCount(h) <= hosts[h].slots

\* The same without exception, as the documentation has it. It does not hold.
NoneDangles == \A n \in Nodes : bound[n] # None => hosts[bound[n]] # None
SlotsAreHard ==
  \A h \in Hosts : hosts[h] # None => BindingCount(h) <= hosts[h].slots
=============================================================================
