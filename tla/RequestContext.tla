--------------------------- MODULE RequestContext ---------------------------
(***************************************************************************)
(* A request of a user, from its session to its audit row (http.rs handle,  *)
(* auth.rs, api.rs query, query.rs run_query), and the accounts behind it   *)
(* when the controller runs alone (store.rs auth_effective, user_roles_set, *)
(* user_set_enabled).  Who asks is noted in a variable of the worker        *)
(* thread.  Between two awaits a request has its thread to itself; at an    *)
(* await the thread takes up another request, and the first may continue on *)
(* another thread.                                                          *)
(***************************************************************************)
EXTENDS Integers, FiniteSets

CONSTANTS
  Users,
  Threads,   \* the workers of the runtime
  Requests,  \* bound: requests in all
  MaxGrants, \* bound: role changes
  None

Rights == {"instances.query", "instances.query.write"}

VARIABLES
  enabled,  \* users.enabled
  grants,   \* user_roles: the rights of each user's roles
  setting,  \* a role change between its delete and its inserts: [user, rights], or None
  session,  \* the rights a user's session was given at login, or None
  actor,    \* ACTOR of each thread: [user, perms], or None
  req,      \* each request: [user, write, pc, perms]
  audit,    \* rows of query_audit: [asked, named]
  granted,  \* history: every set of rights a user has been given
  changes

vars == <<enabled, grants, setting, session, actor, req, audit, granted, changes>>

Nobody == [user |-> None, perms |-> {}]
Unused == [user |-> None, write |-> FALSE, pc |-> "unused", perms |-> {}]

Init ==
  /\ enabled = [u \in Users |-> TRUE]
  /\ grants \in [Users -> {Rights, {"instances.query"}}]
  /\ granted = [u \in Users |-> {grants[u]}]
  /\ setting = None
  /\ session = [u \in Users |-> None]
  /\ actor = [t \in Threads |-> Nobody]
  /\ req = [r \in Requests |-> Unused]
  /\ audit = {} /\ changes = 0

HasPerm(t, perm) == perm \in actor'[t].perms

-----------------------------------------------------------------------------
(* Accounts. *)

\* auth_effective: the account's state and the rights its roles have now.
Effective(u) == [enabled |-> enabled[u], perms |-> grants[u]]

Login(u) ==
  /\ Effective(u).enabled
  /\ session' = [session EXCEPT ![u] = Effective(u).perms]
  /\ UNCHANGED <<enabled, grants, setting, actor, req, audit, granted, changes>>

Logout(u) ==
  /\ session[u] # None
  /\ session' = [session EXCEPT ![u] = None]
  /\ UNCHANGED <<enabled, grants, setting, actor, req, audit, granted, changes>>

\* user_roles_set deletes the rows, and inserts the new ones one by one.
RolesDelete(u, rights) ==
  /\ setting = None /\ changes < MaxGrants
  /\ setting' = [user |-> u, rights |-> rights]
  /\ grants' = [grants EXCEPT ![u] = {}]
  /\ granted' = [granted EXCEPT ![u] = @ \cup {rights}]
  /\ changes' = changes + 1
  /\ UNCHANGED <<enabled, session, actor, req, audit>>

RolesInsert ==
  /\ setting # None
  /\ IF setting.rights \subseteq grants[setting.user]
     THEN setting' = None /\ UNCHANGED grants
     ELSE /\ \E p \in setting.rights \ grants[setting.user] :
               grants' = [grants EXCEPT ![setting.user] = @ \cup {p}]
          /\ UNCHANGED setting
  /\ UNCHANGED <<enabled, session, actor, req, audit, granted, changes>>

UserSetEnabled(u) ==
  /\ changes < MaxGrants
  /\ changes' = changes + 1
  /\ enabled' = [enabled EXCEPT ![u] = ~@]
  /\ UNCHANGED <<grants, setting, session, actor, req, audit, granted>>

-----------------------------------------------------------------------------
(* A query, one step for each stretch between two awaits. *)

Arrive(r, u, write) ==
  /\ req[r].pc = "unused" /\ session[u] # None
  /\ req' = [req EXCEPT ![r] = [user |-> u, write |-> write, pc |-> "arrived", perms |-> session[u]]]
  /\ UNCHANGED <<enabled, grants, setting, session, actor, audit, granted, changes>>

\* The thread notes who asks, and both gates follow before the first await.
Gate(r, t) ==
  /\ req[r].pc = "arrived" /\ enabled[req[r].user]
  /\ actor' = [actor EXCEPT ![t] = [user |-> req[r].user, perms |-> req[r].perms]]
  /\ req' = [req EXCEPT ![r].pc =
               IF /\ HasPerm(t, "instances.query")
                  /\ req[r].write => HasPerm(t, "instances.query.write")
               THEN "asking" ELSE "replying"]
  /\ UNCHANGED <<enabled, grants, setting, session, audit, granted, changes>>

\* A frozen account loses its session.
Frozen(r) ==
  /\ req[r].pc = "arrived" /\ ~enabled[req[r].user]
  /\ session' = [session EXCEPT ![req[r].user] = None]
  /\ req' = [req EXCEPT ![r].pc = "done"]
  /\ UNCHANGED <<enabled, grants, setting, actor, audit, granted, changes>>

\* The statement has run. The row names the user that this thread knows now.
Record(r, t) ==
  /\ req[r].pc = "asking"
  /\ audit' = audit \cup {[asked |-> req[r].user, named |-> actor[t].user]}
  /\ req' = [req EXCEPT ![r].pc = "replying"]
  /\ UNCHANGED <<enabled, grants, setting, session, actor, granted, changes>>

\* The reply is written; the guard forgets whom this thread knows.
Leave(r, t) ==
  /\ req[r].pc = "replying"
  /\ actor' = [actor EXCEPT ![t] = Nobody]
  /\ req' = [req EXCEPT ![r].pc = "done"]
  /\ UNCHANGED <<enabled, grants, setting, session, audit, granted, changes>>

-----------------------------------------------------------------------------
Next ==
  \/ \E u \in Users : Login(u) \/ Logout(u) \/ UserSetEnabled(u)
  \/ \E u \in Users, rights \in {{"instances.query"}, Rights} : RolesDelete(u, rights)
  \/ RolesInsert
  \/ \E r \in Requests, u \in Users, write \in BOOLEAN : Arrive(r, u, write)
  \/ \E r \in Requests : Frozen(r)
  \/ \E r \in Requests, t \in Threads : Gate(r, t) \/ Record(r, t) \/ Leave(r, t)

Spec == Init /\ [][Next]_vars
-----------------------------------------------------------------------------
(* Properties *)

\* The audit names the user who asked (auth.rs:4, http.rs:6). It does not hold:
\* run_query asks the thread after an await.
AuditNamesRequester == \A row \in audit : row.named = row.asked

\* A login sees the rights of one assignment of roles. It does not hold: it may
\* fall between the delete and the inserts.
LoginSeesWholeRoles == \A u \in Users : session[u] # None => session[u] \in granted[u]
=============================================================================
