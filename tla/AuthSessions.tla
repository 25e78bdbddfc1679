---------------------------- MODULE AuthSessions ----------------------------
(***************************************************************************)
(* Users, roles and sessions in the replicated key-value store: the callers *)
(* in src/src/ha/runtime.rs and http.rs over src/src/ha/auth.rs and the     *)
(* Put/Delete ops of src/src/ha/state.rs.                                   *)
(*                                                                         *)
(* Consensus is the sequence of committed ops (Raft is checked in its own   *)
(* module).  A replica knows a prefix of it and has applied a shorter one;  *)
(* a proposal may commit late, twice (propose_op tries another node when    *)
(* the answer is lost), or never.                                           *)
(***************************************************************************)
EXTENDS Naturals, Sequences

CONSTANTS
  Nodes,      \* replicas, each serving HTTP requests
  Clients,    \* requests in progress at the same time
  Tokens,     \* session ids
  Passwords,  \* passwords; SinkPassword is the one the metadata sink holds
  SinkPassword,
  MaxTries,   \* attempts of mutate_user (8 in the code)
  Budget      \* bound on each kind of event

PasswordAssumption == SinkPassword \in Passwords

\* session_key: sessions have a prefix of their own.
TokenAssumption == Tokens \cap {"user", "role", "marker"} = {}

Events == {"login", "logout", "change", "create", "hydrate", "resend", "restart", "snapshot"}

BudgetAssumption == Budget \in [Events -> Nat]

Keys == {"user", "role", "marker"} \cup Tokens

VARIABLES
  log,        \* committed ops in order: [op, ok, kv after it]
  known,      \* Node.commit_index of each replica
  applied,    \* the replica's applied index
  client,     \* where each request is
  flying,     \* proposals on their way to the leader: [by, try, op]
  loggedOut,  \* history: [token, node, idx], logouts answered as seen there
  spent       \* events so far, to bound the model

vars == <<log, known, applied, client, flying, loggedOut, spent>>

-----------------------------------------------------------------------------
(* The key-value part of the state machine *)

\* expect_ver: None is the empty set.
AnyVer == {}

Absent == [ver |-> 0]

EmptyKv == [k \in Keys |-> Absent]

KvIn(l, i) == IF i = 0 THEN EmptyKv ELSE l[i].kv

KvAt(i) == KvIn(log, i)

Local(n) == KvAt(applied[n])

Present(kv, k) == kv[k].ver > 0

\* Mutant: expect_ver is not compared.
AcceptsAny(kv, op) == op.type = "put" \/ Present(kv, op.key)

\* Op::Put compares the version when asked to, Op::Delete needs the key.
Accepts(kv, op) ==
  IF op.type = "put" THEN op.expect \subseteq {kv[op.key].ver}
  ELSE Present(kv, op.key)

\* A put counts the version up, a delete forgets it.
After(kv, op) ==
  IF ~Accepts(kv, op) THEN kv
  ELSE [k \in Keys |->
          IF k # op.key THEN kv[k]
          ELSE IF op.type = "put" THEN [ver |-> kv[k].ver + 1, val |-> op.val] ELSE Absent]

\* The log once op is applied behind l.
Committed(l, op) ==
  LET kv == KvIn(l, Len(l))
  IN Append(l, [op |-> op, ok |-> Accepts(kv, op), kv |-> After(kv, op)])

\* touches names the fields the writer means to change (a history label).
PutFields(k, v, e, fields) ==
  [type |-> "put", key |-> k, val |-> v, expect |-> e, touches |-> fields]

Put(k, v) == PutFields(k, v, AnyVer, DOMAIN v)

Delete(k) == [type |-> "delete", key |-> k]

-----------------------------------------------------------------------------
(* Records *)

NewUser == [pass |-> "none", enabled |-> "yes", roles |-> "none", epoch |-> 0]

NewRole == [desc |-> "none", perms |-> "none"]

\* user_action_cluster sets a password together with the enabled flag.
Touched(field) ==
  CASE field = "pass" -> {"pass", "enabled", "epoch"}
    [] field = "enabled" -> {"enabled", "epoch"}
    [] OTHER -> {field}

\* Mutant: a change of password keeps the epoch.
UserChangedSameEpoch(old, field, v) == [old EXCEPT ![field] = v]

\* auth_user_upsert: a change of password or of the enabled flag counts the
\* epoch up, which ends the user's sessions; a change of roles does not.
UserChanged(old, field, v) ==
  LET new == IF field = "pass" THEN [old EXCEPT !.pass = v, !.enabled = "yes"]
             ELSE [old EXCEPT ![field] = v]
  IN [new EXCEPT !.epoch =
        IF field = "pass" \/ new.enabled # old.enabled THEN @ + 1 ELSE @]

Changed(kv, key, field, v) ==
  CASE key = "user" ->
         UserChanged(IF Present(kv, key) THEN kv[key].val ELSE NewUser, field, v)
    [] key = "role" ->
         [IF Present(kv, key) THEN kv[key].val ELSE NewRole EXCEPT ![field] = v]

\* mutate_user and mutate_role compare versions only if the record exists.
ChangeOp(kv, key, field, v) ==
  PutFields(key, Changed(kv, key, field, v),
            IF Present(kv, key) THEN {kv[key].ver} ELSE AnyVer, Touched(field))

\* session_usable with the enabled flag and the epoch of the user at hand.
Usable(kv, t) ==
  /\ Present(kv, t) /\ Present(kv, "user")
  /\ kv["user"].val.enabled = "yes"
  /\ kv[t].val.epoch = kv["user"].val.epoch

\* auth_barrier and auth_session_lookup on replica n.
Admits(n, t) == applied[n] >= known[n] /\ Usable(Local(n), t)

-----------------------------------------------------------------------------
(* Requests *)

Idle == [pc |-> "idle"]

Spend(e) == spent[e] < Budget[e] /\ spent' = [spent EXCEPT ![e] = @ + 1]

Step(c, r) == client' = [client EXCEPT ![c] = r]

Fly(c, r) == flying' = flying \cup {[by |-> c, try |-> r.try, op |-> r.op]}

\* propose_op: the request waits for the answer to its op.
Proposed(r, op) == [r EXCEPT !.pc = "wait", !.op = op, !.try = @ + 1]

Request(n, kind, what) ==
  [pc |-> "start", kind |-> kind, node |-> n, what |-> what, op |-> Delete("user"),
   try |-> 0, cas |-> 0, idx |-> 0, seen |-> {}]

\* random_token: an id that no op and no request carries.
Fresh(t) ==
  /\ \A i \in DOMAIN log : log[i].op.key # t
  /\ \A f \in flying : f.op.key # t
  /\ \A c \in Clients : client[c].pc # "idle" /\ client[c].kind = "login"
                         => client[c].what.token # t

StartLogin(c, n, p) ==
  /\ client[c].pc = "idle" /\ Spend("login") /\ \E t \in Tokens : Fresh(t)
  /\ \E l \in Nodes :
       Step(c, [Request(n, "login",
                        [token |-> CHOOSE t \in Tokens : Fresh(t), pass |-> p])
                  EXCEPT !.idx = known[l]])
  /\ UNCHANGED <<log, known, applied, flying, loggedOut>>

\* auth_login once the replica has applied the index the supposed leader gave:
\* check the password and propose a session that carries the user's epoch.
CheckPassword(c) ==
  LET r == client[c]
      u == Local(r.node)["user"]
      s == Proposed(r, Put(r.what.token,
             [epoch |-> u.val.epoch, pass |-> r.what.pass]))
  IN /\ r.pc = "start" /\ r.kind = "login" /\ applied[r.node] >= r.idx
     /\ IF u.ver > 0 /\ u.val.pass = r.what.pass /\ u.val.enabled = "yes"
        THEN Step(c, s) /\ Fly(c, s)
        ELSE Step(c, Idle) /\ UNCHANGED flying
     /\ UNCHANGED <<log, known, applied, loggedOut, spent>>

\* The logout route: the session is admitted, then auth_session_revoke.
StartLogout(c, n, t) ==
  LET s == Proposed(Request(n, "logout", [token |-> t]), Delete(t))
  IN /\ client[c].pc = "idle" /\ Spend("logout") /\ Admits(n, t)
     /\ \A d \in Clients : client[d].pc # "idle" /\ client[d].kind = "login"
                             => client[d].what.token # t
     /\ Step(c, s) /\ Fly(c, s)
     /\ UNCHANGED <<log, known, applied, loggedOut>>

\* auth_user_upsert, auth_role_upsert, auth_role_perms_set.
StartChange(c, n, key, field, v) ==
  /\ client[c].pc = "idle"
  /\ Spend(IF Present(Local(n), key) THEN "change" ELSE "create")
  /\ Step(c, Request(n, "change", [key |-> key, field |-> field, v |-> v]))
  /\ UNCHANGED <<log, known, applied, flying, loggedOut>>

\* One turn of the compare-and-set loop: read the record here, propose.
ReadRecord(c) ==
  LET r == client[c]
      s == [Proposed(r, ChangeOp(Local(r.node), r.what.key, r.what.field, r.what.v))
              EXCEPT !.cas = @ + 1]
  IN /\ r.pc = "start" /\ r.kind = "change"
     /\ Step(c, s) /\ Fly(c, s)
     /\ UNCHANGED <<log, known, applied, loggedOut, spent>>

\* auth_hydrate_from writes the roles, the users (at epoch 1) and then the
\* marker, none of them conditional.
SinkRecord(k) ==
  CASE k = "role" -> [desc |-> "sink", perms |-> "sink"]
    [] k = "user" -> [pass |-> SinkPassword, enabled |-> "yes", roles |-> "sink",
                      epoch |-> 1]
    [] k = "marker" -> [done |-> TRUE]

NextRecord(k) == IF k = "role" THEN "user" ELSE "marker"

HydrateWrite(r, k) ==
  [Proposed(r, Put(k, SinkRecord(k))) EXCEPT !.what = [key |-> k]]

\* main.rs: a replica that leads and sees no marker copies the sink.
StartHydrate(c, n) ==
  LET s == HydrateWrite(Request(n, "hydrate", [key |-> "role"]), "role")
  IN /\ client[c].pc = "idle" /\ Spend("hydrate")
     /\ ~Present(Local(n), "marker")
     /\ \A d \in Clients : client[d].pc # "idle" /\ client[d].kind = "hydrate"
                             => client[d].node # n
     /\ Step(c, s) /\ Fly(c, s)
     /\ UNCHANGED <<log, known, applied, loggedOut>>

-----------------------------------------------------------------------------
(* Proposals and answers *)

\* What the caller does with an answer: a rejected compare-and-set is read and
\* tried again, any other rejection ends the request.
Answered(r, ok, i) ==
  CASE ok -> [r EXCEPT !.pc = "local", !.idx = i]
    [] ~ok /\ r.kind = "change" /\ r.cas < MaxTries -> [r EXCEPT !.pc = "start"]
    [] OTHER -> Idle

\* The op commits; the answer reaches the caller if it still waits for it.
Commit(f) ==
  LET ok == Accepts(KvAt(Len(log)), f.op)
      r  == client[f.by]
  IN /\ log' = Committed(log, f.op)
     /\ flying' = flying \ {f}
     /\ \/ /\ r.pc = "wait" /\ r.try = f.try /\ r.op = f.op
           /\ Step(f.by, Answered(r, ok, Len(log) + 1))
        \/ UNCHANGED client
     /\ UNCHANGED <<known, applied, loggedOut, spent>>

\* The answer is late: propose_op sends the same op to another replica.
Resend(c) ==
  LET s == Proposed(client[c], client[c].op)
  IN /\ client[c].pc = "wait" /\ Spend("resend")
     /\ Step(c, s) /\ Fly(c, s)
     /\ UNCHANGED <<log, known, applied, loggedOut>>

\* put_key and delete_key return once this replica has applied the op.
AppliedHere(c) ==
  LET r == client[c]
  IN /\ r.pc = "local" /\ applied[r.node] >= r.idx
     /\ CASE r.kind = "change" \/ (r.kind = "hydrate" /\ r.what.key = "marker") ->
               Step(c, Idle) /\ UNCHANGED flying
          [] r.kind = "hydrate" /\ r.what.key # "marker" ->
               LET s == HydrateWrite(r, NextRecord(r.what.key))
               IN Step(c, s) /\ Fly(c, s)
          [] OTHER ->
               Step(c, [r EXCEPT !.pc = "visible", !.seen = {r.node}])
                 /\ UNCHANGED flying
     /\ UNCHANGED <<log, known, applied, loggedOut, spent>>

\* wait_visible_on_all polls the others' applied index.
SeesApplied(c, n) ==
  LET r == client[c]
  IN /\ r.pc = "visible" /\ n \notin r.seen /\ applied[n] >= r.idx
     /\ Step(c, [r EXCEPT !.seen = @ \cup {n}])
     /\ UNCHANGED <<log, known, applied, flying, loggedOut, spent>>

\* Login and logout answer when all confirmed or the deadline passed.
Answer(c) ==
  LET r == client[c]
  IN /\ r.pc = "visible" /\ Step(c, Idle)
     /\ loggedOut' = loggedOut \cup
          {[token |-> r.what.token, node |-> n, idx |-> r.idx] :
             n \in IF r.kind = "logout" THEN r.seen ELSE {}}
     /\ UNCHANGED <<log, known, applied, flying, spent>>

\* A deadline anywhere ends the request with an error; its op may yet commit.
GiveUp(c) ==
  /\ client[c].pc # "idle" /\ Step(c, Idle)
  /\ UNCHANGED <<log, known, applied, flying, loggedOut, spent>>

-----------------------------------------------------------------------------
(* Replicas *)

\* The replica learns a commit index and applies up to it under one lock.
Learn(n) ==
  /\ \E k \in (known[n] + 1)..Len(log) :
       known' = [known EXCEPT ![n] = k] /\ applied' = [applied EXCEPT ![n] = k]
  /\ UNCHANGED <<log, client, flying, loggedOut, spent>>

\* A late InstallSnapshot replaces the state by an older one; the commit index
\* stays, and the replica applies again when it next moves.
InstallOldSnapshot(n) ==
  /\ Spend("snapshot")
  /\ \E k \in 1..(applied[n] - 1) : applied' = [applied EXCEPT ![n] = k]
  /\ UNCHANGED <<log, known, client, flying, loggedOut>>

\* Node::open: back to the snapshot, with the commit index there too; requests
\* served by the replica are gone.
RestartReplica(n) ==
  /\ Spend("restart")
  /\ \E k \in 0..applied[n] :
       /\ known' = [known EXCEPT ![n] = k]
       /\ applied' = [applied EXCEPT ![n] = k]
  /\ client' = [c \in Clients |->
       IF client[c].pc # "idle" /\ client[c].node = n THEN Idle ELSE client[c]]
  /\ UNCHANGED <<log, flying, loggedOut>>

\* The ops of one undisturbed copy of the sink.
HydratedLog ==
  LET copied(l, k) == Committed(l, Put(k, SinkRecord(k)))
  IN copied(copied(copied(<<>>, "role"), "user"), "marker")

\* A new cluster, or one that copied the sink before the first request.
Start ==
  /\ log \in {<<>>, HydratedLog} /\ flying = {} /\ loggedOut = {}
  /\ known = [n \in Nodes |-> Len(log)] /\ applied = known
  /\ client = [c \in Clients |-> Idle]

Init == Start /\ spent = [e \in Events |-> 0]

Change(c, n) ==
  \/ \E p \in Passwords : StartChange(c, n, "user", "pass", p)
  \/ \E b \in {"yes", "no"} : StartChange(c, n, "user", "enabled", b)
  \/ StartChange(c, n, "user", "roles", "admin")
  \/ StartChange(c, n, "role", "desc", "admin")
  \/ StartChange(c, n, "role", "perms", "admin")

Next ==
  \/ \E c \in Clients, n \in Nodes :
       \/ \E p \in Passwords : StartLogin(c, n, p)
       \/ \E t \in Tokens : StartLogout(c, n, t)
       \/ Change(c, n)
       \/ StartHydrate(c, n)
       \/ SeesApplied(c, n)
  \/ \E c \in Clients :
       CheckPassword(c) \/ ReadRecord(c) \/ Resend(c) \/ AppliedHere(c)
         \/ Answer(c) \/ GiveUp(c)
  \/ \E f \in flying : Commit(f)
  \/ \E n \in Nodes : Learn(n) \/ InstallOldSnapshot(n) \/ RestartReplica(n)

Spec == Init /\ [][Next]_vars

-----------------------------------------------------------------------------
\* No record was overwritten by a put that compares nothing: the creation of a
\* user and the copy from the sink met no record of another writer.
NoBlindWrite ==
  \A i \in DOMAIN log :
    LET op == log[i].op
    IN op.key \in {"user", "role"} /\ op.type = "put" /\ op.expect = AnyVer
         => ~Present(KvAt(i - 1), op.key)

\* Risk 13 of the design (runtime.rs read_index): the index a login waits for
\* may come from a deposed leader, so an old password may pass the check; the
\* epoch kept in the session must make that session worthless wherever the new
\* password is known.
SessionsMatchPassword ==
  NoBlindWrite =>
    \A n \in Nodes, t \in Tokens :
      Usable(Local(n), t) => Local(n)[t].val.pass = Local(n)["user"].val.pass

\* mutate_user: the second of two administrators builds on what the first wrote;
\* an accepted change touches its own field and never lowers the epoch.
ChangesBuildOn ==
  NoBlindWrite =>
    \A i \in DOMAIN log :
      LET op  == log[i].op
          old == KvAt(i - 1)
      IN op.type = "put" /\ log[i].ok /\ op.key \in {"user", "role"}
           /\ Present(old, op.key)
         => \A g \in DOMAIN op.val \ op.touches :
              op.val[g] = old[op.key].val[g]

\* The epoch of a user only grows, or sessions that a change of password ended
\* become usable again.
EpochsGrow ==
  \A i \in DOMAIN log :
    log[i].ok /\ log[i].op.key = "user" /\ Present(KvAt(i - 1), "user")
      => log[i].op.val.epoch >= KvAt(i - 1)["user"].val.epoch

\* http.rs, logout: what it says was logged out on a replica is not admitted
\* there again, unless the session is written a second time (a login sent
\* twice) or a restart made the replica forget the commit index.
LogoutHolds ==
  \A l \in loggedOut :
    /\ known[l.node] >= l.idx
    /\ \A j \in (l.idx + 1)..Len(log) : log[j].op.key # l.token
    => ~Admits(l.node, l.token)

\* A session is worthless where its password is no longer the user's, and where its logout
\* was answered.
SessionsEnd == SessionsMatchPassword /\ LogoutHolds

TypeOK ==
  /\ \A i \in DOMAIN log : log[i].op.key \in Keys /\ log[i].ok \in BOOLEAN
  /\ \A n \in Nodes : applied[n] \in 0..known[n] /\ known[n] \in 0..Len(log)
  /\ \A c \in Clients :
       client[c].pc \in {"idle", "start", "wait", "local", "visible"}
  /\ spent \in [Events -> Nat]
=============================================================================
