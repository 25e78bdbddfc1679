----------------------------- MODULE QueryConsole -----------------------------
(***************************************************************************)
(* Statements people run on the master of an instance through the console   *)
(* (query.rs: run_query; api.rs: query; instance.rs: ensure_query_secret),  *)
(* and the lists of databases, tables, indexes and routines they browse     *)
(* (query.rs: schema, index, routines).                                     *)
(* Each statement prepares two accounts anew, one that reads and one that   *)
(* also writes, then runs under one of them.  Statements of one process and  *)
(* of others prepare the same accounts.  Those run on a replica, which      *)
(* replication prepares as well, are left out.                              *)
(*                                                                          *)
(* A statement is what its classification says: it reads, it writes, or it   *)
(* is refused (of another kind, more than one, a table of the deny list).   *)
(* Browsing reads as well, without a permit, and is audited only when it    *)
(* succeeds.                                                                 *)
(***************************************************************************)
EXTENDS Integers, FiniteSets

CONSTANTS
  Processes,    \* controller processes
  Statements,   \* bound: one statement each
  MaxRunning,   \* permits of a process (RDSCTL_QUERY_CONCURRENCY)
  MaxCrashes,   \* bound
  None

Kinds == {"read", "write", "browse", "refused"}
Accounts == {"ro", "rw"}

VARIABLES
  secret,    \* each process's query_secret of the instance, or None
  saved,     \* the one in the metadata database
  account,   \* [pass, grants] of each account on the master
  job,       \* each statement: [pc, at, kind, pass] or None
  result,    \* "ok", "failed", "refused", "busy" or None
  denied,    \* history: statements the node refused for their account
  met,       \* history: statements that shared the accounts with another
  audited,   \* rows of query_audit for each statement
  crashes

vars == <<secret, saved, account, job, result, denied, met, audited, crashes>>

Init ==
  /\ secret = [p \in Processes |-> None] /\ saved = None
  /\ account = [a \in Accounts |-> [pass |-> None, grants |-> {}]]
  /\ job = [s \in Statements |-> None]
  /\ result = [s \in Statements |-> None]
  /\ denied = {} /\ met = {}
  /\ audited = [s \in Statements |-> 0]
  /\ crashes = 0

At(s, pc) == job[s] # None /\ job[s].pc = pc
Go(s, pc) == job' = [job EXCEPT ![s].pc = pc]
Answer(s, r) == job' = [job EXCEPT ![s] = None] /\ result' = [result EXCEPT ![s] = r]

-----------------------------------------------------------------------------
(* Before the statement runs. *)

\* Whether the instance runs is what the record says at this moment; it may change
\* later.  A write is for those who may.
Submit(s, p, kind, running, mayWrite) ==
  /\ job[s] = None /\ result[s] = None /\ kind # "browse"
  /\ IF running /\ (kind = "read" \/ (kind = "write" /\ mayWrite))
       THEN /\ job' = [job EXCEPT ![s] = [pc |-> "secret", at |-> p, kind |-> kind, pass |-> None]]
            /\ UNCHANGED result
       ELSE result' = [result EXCEPT ![s] = "refused"] /\ UNCHANGED job
  /\ UNCHANGED <<secret, saved, account, denied, met, audited, crashes>>

\* One list of databases, tables and columns (schema), indexes, or routines: the same
\* steps in the same order.
SubmitBrowse(s, p, running) ==
  /\ job[s] = None /\ result[s] = None
  /\ IF running
       THEN /\ job' = [job EXCEPT ![s] = [pc |-> "secret", at |-> p, kind |-> "browse", pass |-> None]]
            /\ UNCHANGED result
       ELSE result' = [result EXCEPT ![s] = "refused"] /\ UNCHANGED job
  /\ UNCHANGED <<secret, saved, account, denied, met, audited, crashes>>

\* A new secret is nobody else's: it is named for the statement that made it.
LookUpSecret(s) ==
  LET known == secret[job[s].at] IN
  /\ At(s, "secret")
  /\ job' = [job EXCEPT ![s].pc = IF known = None THEN "generate" ELSE "ro",
                        ![s].pass = IF known = None THEN s ELSE known]
  /\ UNCHANGED <<secret, saved, account, result, denied, met, audited, crashes>>

KeepSecret(s) ==
  /\ At(s, "generate")
  /\ secret' = [secret EXCEPT ![job[s].at] = s] /\ saved' = s
  /\ Go(s, "ro")
  /\ UNCHANGED <<account, result, denied, met, audited, crashes>>

UnderWay == {t \in Statements : job[t] # None /\ job[t].pc \notin {"secret", "generate"}}

\* Mutant: the writing account is granted no more than the other.
GrantsSelect(s, a) == {"SELECT"}

\* The account that writes may write only while a write was the last to prepare it.
Grants(s, a) == IF a = "rw" /\ job[s].kind = "write" THEN {"SELECT", "DML"} ELSE {"SELECT"}

GrantOf(a) == IF a = "ro" THEN "grant ro" ELSE "grant rw"

\* provision: the statements of root run one after the other; an account that is
\* altered has no rights until it is granted some.
Provision(s, a) ==
  /\ \/ /\ At(s, a)
        /\ account' = [account EXCEPT ![a] = [pass |-> job[s].pass, grants |-> {}]]
        /\ Go(s, GrantOf(a))
     \/ /\ At(s, GrantOf(a))
        /\ account' = [account EXCEPT ![a].grants = Grants(s, a)]
        /\ Go(s, CASE a = "ro" -> "rw"
                   [] a = "rw" /\ job[s].kind = "browse" -> "browse"
                   [] OTHER -> "permit")
  /\ met' = LET others == UnderWay \ {s} IN
            met \cup others \cup (IF others = {} THEN {} ELSE {s})
  /\ UNCHANGED <<secret, saved, result, denied, audited, crashes>>

-----------------------------------------------------------------------------
(* The statement. *)

Holding(p) == {t \in Statements : /\ job[t] # None /\ job[t].at = p
                                  /\ job[t].kind # "browse" /\ job[t].pc \in {"run", "audit"}}

Acquire(s) ==
  /\ At(s, "permit")
  /\ IF Cardinality(Holding(job[s].at)) < MaxRunning THEN Go(s, "run") /\ UNCHANGED result
     ELSE Answer(s, "busy")
  /\ UNCHANGED <<secret, saved, account, denied, met, audited, crashes>>

Admitted(s) ==
  LET acc == account[IF job[s].kind = "write" THEN "rw" ELSE "ro"] IN
  /\ acc.pass = job[s].pass
  /\ (IF job[s].kind = "write" THEN "DML" ELSE "SELECT") \in acc.grants

\* It may fail, or not end in time, for reasons of its own.
Run(s) ==
  /\ At(s, "run")
  /\ Go(s, "audit")
  /\ \E r \in {"failed"} \cup (IF Admitted(s) THEN {"ok"} ELSE {}) :
       result' = [result EXCEPT ![s] = r]
  /\ denied' = IF Admitted(s) THEN denied ELSE denied \cup {s}
  /\ UNCHANGED <<secret, saved, account, met, audited, crashes>>

\* A list is asked for without a permit; a failure answers at once and leaves no row.
Browse(s) ==
  /\ At(s, "browse")
  /\ \/ Answer(s, "failed")
     \/ Admitted(s) /\ result' = [result EXCEPT ![s] = "ok"] /\ Go(s, "audit")
  /\ denied' = IF Admitted(s) THEN denied ELSE denied \cup {s}
  /\ UNCHANGED <<secret, saved, account, met, audited, crashes>>

AuditBrowse(s) ==
  /\ At(s, "audit") /\ job[s].kind = "browse"
  /\ audited' = [audited EXCEPT ![s] = @ + 1]
  /\ job' = [job EXCEPT ![s] = None]
  /\ UNCHANGED <<secret, saved, account, result, denied, met, crashes>>

Audit(s) ==
  /\ At(s, "audit") /\ job[s].kind # "browse"
  /\ audited' = [audited EXCEPT ![s] = @ + 1]
  /\ job' = [job EXCEPT ![s] = None]
  /\ UNCHANGED <<secret, saved, account, result, denied, met, crashes>>

-----------------------------------------------------------------------------
\* What statements of a process were under way is lost with it; the secret is that of
\* the metadata database.
Crash(p) ==
  /\ crashes < MaxCrashes /\ crashes' = crashes + 1
  /\ secret' = [secret EXCEPT ![p] = saved]
  /\ job' = [s \in Statements |-> IF job[s] # None /\ job[s].at = p THEN None ELSE job[s]]
  /\ result' = [s \in Statements |-> IF job[s] # None /\ job[s].at = p THEN "lost" ELSE result[s]]
  /\ UNCHANGED <<saved, account, denied, met, audited>>

Proceed(s) ==
  \/ LookUpSecret(s) \/ KeepSecret(s)
  \/ \E a \in Accounts : Provision(s, a)
  \/ Acquire(s) \/ Run(s) \/ Audit(s) \/ Browse(s) \/ AuditBrowse(s)

Next ==
  \/ \E s \in Statements :
       \/ \E p \in Processes, kind \in Kinds, running, mayWrite \in BOOLEAN :
            Submit(s, p, kind, running, mayWrite)
       \/ \E p \in Processes, running \in BOOLEAN : SubmitBrowse(s, p, running)
       \/ Proceed(s)
  \/ \E p \in Processes : Crash(p)

Spec == Init /\ [][Next]_vars

-----------------------------------------------------------------------------
\* The node refuses a statement's account only when another statement prepared the same
\* accounts between its preparation and its end; whatever secrets processes made before,
\* and whatever they stopped in the middle of, alone it is let in.
AloneIsAdmitted == denied \subseteq met
=============================================================================
