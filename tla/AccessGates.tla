----------------------------- MODULE AccessGates -----------------------------
(***************************************************************************)
(* The access layer of instances on one host (lvs.rs) and the host ports it *)
(* listens on (instance.rs: alloc_host_port).  Every controller process of  *)
(* the host keeps its own forwarders, its own view of the instance records  *)
(* and its own port counter; the ports and the files that say which         *)
(* instance a port belongs to are the host's.                               *)
(*                                                                          *)
(* ensure runs in the create task and in every sweep.  It is one function,  *)
(* but bind, the owner file and the probe of a port are separate calls      *)
(* other processes interleave with.  Of the ports of an instance only the   *)
(* access port is modelled; they are all allocated the same way.            *)
(***************************************************************************)
EXTENDS Integers, FiniteSets

CONSTANTS
  Replicas,    \* controller processes on the host
  Instances,
  LastPort,    \* bound: host ports are 1 .. LastPort
  Budgets,     \* bound: how many creations, destructions and crashes there are
  None

Ports == 1 .. LastPort

\* A record, who is behind a port, an ensure under way.
Statuses == {"creating", "running", "failed", "destroyed"}
Records == [port : Ports, life : Nat, status : Statuses]
Holders == [by : Replicas, inst : Instances, life : Nat]
Jobs == [inst : Instances, rec : Records, pc : {"try", "register", "readOwner", "probe"},
         seen : Instances \cup {None}, task : BOOLEAN]

GatesAssumption ==
  /\ None \notin Nat /\ None \notin Instances
  /\ None \notin Records /\ None \notin Holders /\ None \notin Jobs
  /\ Budgets \subseteq [{"creates", "destroys", "crashes"} -> Nat]

VARIABLES
  view,     \* each process's records: [port, life, status] or None; "running" is degraded too
  sink,     \* the records in the metadata database
  runs,     \* the life of each instance whose containers run, or None
  next,     \* next_port of each process
  gates,    \* registry: the port each process forwards an instance from
  bound,    \* the process, instance and life behind each port, or None
  owner,    \* <port>.owner: an instance or None
  job,      \* the ensure each process is in: [inst, rec, pc, seen, task] or None
  told,     \* accesses a create task was told are up: [inst, life, port]
  mixed,    \* history: an owner file was read that was not the holder's, a port bound for a
            \* record that had ended or in place of an instance that was given the same, or
            \* the forwarder of an earlier life, on its port, taken for the instance's
  left      \* what is left of the budget

vars == <<view, sink, runs, next, gates, bound, owner, job, told, mixed, left>>

Init ==
  /\ view = [r \in Replicas |-> [i \in Instances |-> None]]
  /\ sink = [i \in Instances |-> None] /\ runs = sink
  /\ next = [r \in Replicas |-> 1]
  /\ gates = [r \in Replicas |-> [i \in Instances |-> None]]
  /\ bound = [p \in Ports |-> None] /\ owner = [p \in Ports |-> None]
  /\ job = [r \in Replicas |-> None]
  /\ told = {} /\ mixed = FALSE
  /\ left \in Budgets

Spend(e) == left[e] > 0 /\ left' = [left EXCEPT ![e] = @ - 1]

\* The containers of a life answer until the instance is destroyed or created again.
Lives(i, life) == runs[i] = life

\* persist writes every record the process has.
Persist(r) == sink' = [i \in Instances |-> IF view'[r][i] # None THEN view'[r][i] ELSE sink[i]]

\* The lease of an instance, which a task holds to its end.
Leased(i) == \E q \in Replicas : job[q] # None /\ job[q].inst = i /\ job[q].task

-----------------------------------------------------------------------------
(* Ports and records. *)

DeclaredPorts(r) == {view[r][i].port : i \in {j \in Instances : view[r][j] # None}}

\* The counter passes over declared and listening ports; at the top it starts again.
AllocHostPort(r, p) ==
  LET free == Ports \ (DeclaredPorts(r) \cup {q \in Ports : bound[q] # None})
      ahead == {q \in free : q >= next[r]}
      from == IF ahead # {} THEN ahead ELSE free IN
  /\ p \in from /\ \A q \in from : p <= q
  /\ next' = [next EXCEPT ![r] = p + 1]

\* A name another process has created meanwhile is not seen: the containers are the
\* new record's then.
Create(r, i) ==
  /\ job[r] = None /\ view[r][i] = None /\ ~Leased(i)
  /\ Spend("creates")
  /\ \E p \in Ports :
       /\ AllocHostPort(r, p)
       /\ view' = [view EXCEPT ![r][i] = [port |-> p, life |-> left["creates"], status |-> "creating"]]
  /\ Persist(r)
  /\ runs' = [runs EXCEPT ![i] = left["creates"]]
  /\ job' = [job EXCEPT ![r] = [inst |-> i, rec |-> view'[r][i], pc |-> "try", seen |-> None,
                                task |-> TRUE]]
  /\ UNCHANGED <<gates, bound, owner, told, mixed>>

\* refresh_from_sink: a record another process made is taken over; of a known one only
\* the status is; one that is worked on is left alone.
Refresh(r, i) ==
  /\ sink[i] # None
  /\ ~(job[r] # None /\ job[r].inst = i /\ job[r].task)
  /\ view' = [view EXCEPT ![r][i] =
                IF @ = None THEN sink[i] ELSE [@ EXCEPT !.status = sink[i].status]]
  /\ view' # view
  /\ UNCHANGED <<sink, runs, next, gates, bound, owner, job, told, mixed, left>>

\* delete_instance: what is destroyed in this process's view goes, whatever the sink has.
Delete(r, i) ==
  /\ view[r][i] # None /\ view[r][i].status = "destroyed"
  /\ view' = [view EXCEPT ![r][i] = None]
  /\ sink' = [sink EXCEPT ![i] = None]
  /\ UNCHANGED <<runs, next, gates, bound, owner, job, told, mixed, left>>

-----------------------------------------------------------------------------
(* ensure and stop. *)

\* The last step of a task that goes well sets the status; its watcher does of one in
\* which this or another step failed.
Ends(r, statuses) ==
  /\ \E status \in statuses :
       view' = [view EXCEPT ![r][job[r].inst] =
                  IF @ = None THEN None ELSE [@ EXCEPT !.status = status]]
  /\ Persist(r)

Finish(r, ok) ==
  LET i == job[r].inst IN
  /\ job' = [job EXCEPT ![r] = None]
  /\ told' = IF ok /\ job[r].task
               THEN told \cup {[inst |-> i, life |-> job[r].rec.life, port |-> job[r].rec.port]}
               ELSE told
  /\ IF job[r].task THEN Ends(r, IF ok THEN {"running", "failed"} ELSE {"failed"})
     ELSE UNCHANGED <<view, sink>>
Go(r, pc, seen) == job' = [job EXCEPT ![r].pc = pc, ![r].seen = seen]

\* sweep_once: only what runs or is degraded, and is not worked on here.
\* Mutant: a sweep leaves a port alone that has an owner file.
SweepOwnerless(r, i) ==
  /\ job[r] = None /\ view[r][i] # None /\ view[r][i].status = "running"
  /\ gates[r][i] = None /\ owner[view[r][i].port] = None
  /\ job' = [job EXCEPT ![r] = [inst |-> i, rec |-> view[r][i], pc |-> "try", seen |-> None,
                                task |-> FALSE]]
  /\ UNCHANGED <<view, sink, runs, next, gates, bound, owner, told, mixed, left>>

Sweep(r, i) ==
  /\ job[r] = None /\ view[r][i] # None /\ view[r][i].status = "running"
  /\ gates[r][i] = None
  /\ job' = [job EXCEPT ![r] = [inst |-> i, rec |-> view[r][i], pc |-> "try", seen |-> None,
                                task |-> FALSE]]
  /\ UNCHANGED <<view, sink, runs, next, gates, bound, owner, told, mixed, left>>

\* A port of one instance that another, which was given the same, was told is its own, or
\* has just read is its own.
Displaced(i, p) ==
  \/ \E t \in told : t.port = p /\ t.inst # i /\ Lives(t.inst, t.life)
  \/ \E q \in Replicas :
       /\ job[q] # None /\ job[q].pc = "probe" /\ job[q].seen = job[q].inst
       /\ job[q].rec.port = p /\ job[q].inst # i

Bind(r) ==
  LET i == job[r].inst
      p == job[r].rec.port IN
  /\ job[r] # None /\ job[r].pc = "try"
  /\ IF gates[r][i] # None
       THEN Finish(r, TRUE) /\ mixed' = (mixed \/ gates[r][i] # p) /\ UNCHANGED bound
     ELSE IF bound[p] = None
       THEN /\ bound' = [bound EXCEPT ![p] = [by |-> r, inst |-> i, life |-> job[r].rec.life]]
            /\ Go(r, "register", None)
            /\ mixed' = (mixed \/ ~Lives(i, job[r].rec.life) \/ Displaced(i, p))
            /\ UNCHANGED <<view, sink, told>>
       ELSE Go(r, "readOwner", None) /\ UNCHANGED <<view, sink, bound, told, mixed>>
  /\ UNCHANGED <<runs, next, gates, owner, left>>

\* owner_write, then the accept loop and the registry.
Register(r) ==
  LET i == job[r].inst
      p == job[r].rec.port IN
  /\ job[r] # None /\ job[r].pc = "register"
  /\ owner' = [owner EXCEPT ![p] = i]
  /\ gates' = [gates EXCEPT ![r][i] = p]
  /\ Finish(r, TRUE)
  /\ UNCHANGED <<runs, next, bound, mixed, left>>

ReadOwner(r) ==
  LET p == job[r].rec.port IN
  /\ job[r] # None /\ job[r].pc = "readOwner"
  /\ Go(r, "probe", owner[p])
  /\ mixed' = (mixed \/ bound[p] = None \/ owner[p] # bound[p].inst)
  /\ UNCHANGED <<view, sink, runs, next, gates, bound, owner, told, left>>

\* vip_serving: the forwarder accepts and one of its backends answers.
Serving(p) ==
  /\ bound[p] # None
  /\ gates[bound[p].by][bound[p].inst] = p
  /\ Lives(bound[p].inst, bound[p].life)

\* Mutant: any port that serves is taken for the instance's own.
DecideServing(r) ==
  /\ job[r] # None /\ job[r].pc = "probe"
  /\ Finish(r, Serving(job[r].rec.port))
  /\ UNCHANGED <<runs, next, gates, bound, owner, mixed, left>>

Decide(r) ==
  LET i == job[r].inst IN
  /\ job[r] # None /\ job[r].pc = "probe"
  /\ Finish(r, job[r].seen = i \/ (job[r].seen = None /\ Serving(job[r].rec.port)))
  /\ UNCHANGED <<runs, next, gates, bound, owner, mixed, left>>

\* The destroy task removes the containers by name and stops the forwarder of the process
\* it runs in.
Destroy(r, i) ==
  LET p == gates[r][i] IN
  /\ view[r][i] # None /\ view[r][i].status \in {"running", "failed"} /\ ~Leased(i)
  /\ Spend("destroys")
  /\ gates' = [gates EXCEPT ![r][i] = None]
  /\ owner' = IF p # None /\ owner[p] = i THEN [owner EXCEPT ![p] = None] ELSE owner
  /\ bound' = IF p # None THEN [bound EXCEPT ![p] = None] ELSE bound
  /\ view' = [view EXCEPT ![r][i].status = "destroyed"]
  /\ Persist(r)
  /\ runs' = [runs EXCEPT ![i] = None]
  /\ UNCHANGED <<next, job, told, mixed>>

\* load_persisted takes an instance that was worked on for failed, unless the controller
\* is one of a cluster, and sets the counter above every port of the records.
Loaded(rec, clustered) ==
  IF rec # None /\ ~clustered /\ rec.status = "creating" THEN [rec EXCEPT !.status = "failed"]
  ELSE rec

Restart(r, clustered) ==
  LET declared == {sink[i].port : i \in {j \in Instances : sink[j] # None}} IN
  /\ Spend("crashes")
  /\ view' = [view EXCEPT ![r] = [i \in Instances |-> Loaded(sink[i], clustered)]]
  /\ next' = [next EXCEPT ![r] = CHOOSE n \in 1 .. LastPort + 1 :
                /\ \A p \in declared : p < n
                /\ n = 1 \/ n - 1 \in declared]
  /\ gates' = [gates EXCEPT ![r] = [i \in Instances |-> None]]
  /\ bound' = [p \in Ports |-> IF bound[p] # None /\ bound[p].by = r THEN None ELSE bound[p]]
  /\ job' = [job EXCEPT ![r] = None]
  /\ UNCHANGED <<sink, runs, owner, told, mixed>>

Ensure(r) == Bind(r) \/ Register(r) \/ ReadOwner(r) \/ Decide(r)

Next ==
  \E r \in Replicas :
    \/ Ensure(r)
    \/ \E clustered \in BOOLEAN : Restart(r, clustered)
    \/ \E i \in Instances :
         Create(r, i) \/ Refresh(r, i) \/ Delete(r, i) \/ Sweep(r, i) \/ Destroy(r, i)

\* The sweep and the refresh of a process that runs come round again and again; an
\* ensure never blocks.
Fairness ==
  \A r \in Replicas :
    /\ WF_vars(Ensure(r))
    /\ \A i \in Instances : WF_vars(Sweep(r, i)) /\ WF_vars(Refresh(r, i))

Spec == Init /\ [][Next]_vars /\ Fairness

-----------------------------------------------------------------------------
\* Whoever listens on a port that a create task was told serves its instance.
AccessIsOwn ==
  \A t \in told :
    Lives(t.inst, t.life) /\ bound[t.port] # None => bound[t.port].inst = t.inst

\* No client of an instance is connected to another one, though two processes may give two
\* instances one port (lvs.rs: a port another instance holds is refused by name), unless
\* the owner file was read before the port's holder had written it or after it was gone,
\* the port was bound for a record another process had ended or after a crash of the
\* forwarder that held it, or the process that creates the instance still has a forwarder
\* of that name, on the port of an earlier life.
AccessIsOwnUnlessMixed == ~mixed => AccessIsOwn

\* After any crash the access of an instance that runs or is degraded comes back, because
\* some process sweeps it, unless a forwarder of another one, or one it had under the same
\* name in an earlier life, is in its place.
AccessComesBack ==
  \A i \in Instances :
    (sink[i] # None /\ sink[i].status = "running")
      ~> (\/ mixed \/ sink[i] = None \/ sink[i].status # "running"
          \/ bound[sink[i].port] # None
          \/ \E r \in Replicas : gates[r][i] \notin {None, sink[i].port})

\* The access of any instance whose containers run comes back. It does not hold: a failed
\* one is not swept (sweep_once), though all it has may work.
FailedComesBack ==
  \A i \in Instances :
    (sink[i] # None /\ runs[i] = sink[i].life)
      ~> (mixed \/ sink[i] = None \/ runs[i] # sink[i].life \/ bound[sink[i].port] # None)
=============================================================================
