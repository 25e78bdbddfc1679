SPECIFICATION Spec
CONSTANTS
 None = None
 Users = {u1, u2}
 Threads = {t1, t2}
 Requests = {r1, r2}
 MaxGrants = 1
CHECK_DEADLOCK FALSE
INVARIANTS AuditNamesRequester
