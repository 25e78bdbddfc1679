----------------------------- MODULE FenceGuard -----------------------------
(***************************************************************************)
(* The executor guard of one host agent (ha/fence.rs) and the order in      *)
(* which the agent's connection handler uses it (agent.rs), for the files   *)
(* of one resource key.                                                     *)
(*                                                                          *)
(* A mutating call carries a fence, an idempotency key, both or neither.    *)
(* Every connection is a task of its own: it looks the key up in the cache, *)
(* reads fence_seen, raises it (create the temporary file, write and sync,  *)
(* rename, sync the directory), runs the command and caches a success.      *)
(* Nothing serialises two connections, so each of these is a step.          *)
(*                                                                          *)
(* A fence is a record of its shard and of its rank in that shard's order   *)
(* of (term, index).  A file is an inode: create truncates the inode the    *)
(* temporary name already has, and a rename moves whichever inode it has.   *)
(***************************************************************************)
EXTENDS Integers, Sequences

CONSTANTS
  Conns,          \* connections the agent may be serving at once
  Calls,          \* mutating calls: records of fence and idem
  Files,          \* inodes
  None,
  FenceRequired,  \* RDSCTL_AGENT_FENCE_REQUIRED
  Limits          \* bounds: arrivals, disk faults, kills, power losses

Events == {"arrivals", "faults", "kills", "losses"}

ASSUME LimitsAssumption == Limits \in [Events -> Nat]

\* The rank of a fence is the pair of u64 it carries, as one number.
ASSUME CallsAssumption ==
  /\ \A k \in Calls : k.fence # None => k.fence.rank \in Int
  /\ None \notin Calls

VARIABLES
  seen,     \* inode named fence_seen/<key>
  synced,   \* the inode that name has after a power loss
  tmp,      \* inode named fence_seen/<key>.tmp
  data,     \* fence in each inode; None: truncated and not written yet
  cached,   \* idempotency keys with a cached answer
  conn,     \* what each connection is doing
  ran,      \* history: the commands run, in order
  crossed,  \* history: two calls have been in the guard at once
  spent     \* events spent

files == <<seen, synced, tmp, data>>
history == <<ran, crossed>>
vars == <<files, cached, conn, history, spent>>

Idle == [pc |-> "idle", call |-> None, file |-> None]

Init ==
  /\ seen = None /\ synced = None /\ tmp = None
  /\ data = [f \in Files |-> None]
  /\ cached = {}
  /\ conn = [c \in Conns |-> Idle]
  /\ ran = <<>>
  /\ crossed = FALSE
  /\ spent = [e \in Events |-> 0]

Spend(e) ==
  /\ spent[e] < Limits[e]
  /\ spent' = [spent EXCEPT ![e] = @ + 1]

At(c, pc) == conn[c].pc = pc
Fence(c) == conn[c].call.fence
Goto(c, pc) == conn' = [conn EXCEPT ![c].pc = pc]
Refuse(c) == conn' = [conn EXCEPT ![c] = Idle]

\* An empty file does not parse, which reads as a fence never seen.
Content(file) == IF file = None THEN None ELSE data[file]

\* f may follow old: same shard, and not behind it.
NotBehind(f, old) == f.shard = old.shard /\ f.rank >= old.rank

-----------------------------------------------------------------------------
Meet(c) == crossed' = (crossed \/ \E d \in Conns \ {c} : ~At(d, "idle"))

\* Mutant: no look-up of the retry key.
ArriveUncached(c, k) ==
  /\ At(c, "idle")
  /\ Spend("arrivals")
  /\ conn' = [conn EXCEPT ![c] =
       [Idle EXCEPT !.pc = IF k.fence = None THEN "run" ELSE "check", !.call = k]]
  /\ Meet(c)
  /\ UNCHANGED <<files, cached, ran>>

\* The cached answer is returned before the fence is looked at; a call
\* without a fence runs unless fences are required.
Arrive(c, k) ==
  /\ At(c, "idle")
  /\ Spend("arrivals")
  /\ \/ /\ k.idem \in cached
        /\ UNCHANGED conn
     \/ /\ k.idem \notin cached
        /\ k.fence = None
        /\ IF FenceRequired THEN UNCHANGED conn
           ELSE conn' = [conn EXCEPT ![c] = [Idle EXCEPT !.pc = "run", !.call = k]]
     \/ /\ k.idem \notin cached
        /\ k.fence # None
        /\ conn' = [conn EXCEPT ![c] = [Idle EXCEPT !.pc = "check", !.call = k]]
  /\ Meet(c)
  /\ UNCHANGED <<files, cached, ran>>

\* Mutant: fences of different shards compared by rank.
StaleByRank(f, old) == old # None /\ f.rank < old.rank

Stale(f, old) == old # None /\ ~NotBehind(f, old)
Repeated(f, old) == f = old

Check(c) ==
  /\ At(c, "check")
  /\ LET old == Content(seen) IN
       \/ Stale(Fence(c), old) /\ Refuse(c)
       \/ Repeated(Fence(c), old) /\ Goto(c, "run")
       \/ /\ ~Stale(Fence(c), old) /\ ~Repeated(Fence(c), old)
          /\ Goto(c, "create")
  /\ UNCHANGED <<files, cached, history, spent>>

InUse == {seen, synced, tmp} \cup {conn[c].file : c \in Conns}

\* An inode nobody uses: which one makes no difference.
Fresh ==
  LET free == Files \ InUse
  IN IF free = {} THEN {} ELSE {CHOOSE f \in free : TRUE}

CreateTmp(c) ==
  /\ At(c, "create")
  /\ \E file \in IF tmp # None THEN {tmp} ELSE Fresh :
       /\ tmp' = file
       /\ data' = [data EXCEPT ![file] = None]
       /\ conn' = [conn EXCEPT ![c].pc = "write", ![c].file = file]
  /\ UNCHANGED <<seen, synced, cached, history, spent>>

WriteTmp(c) ==
  /\ At(c, "write")
  /\ data' = [data EXCEPT ![conn[c].file] = Fence(c)]
  /\ Goto(c, "rename")
  /\ UNCHANGED <<seen, synced, tmp, cached, history, spent>>

\* Another connection may have renamed the temporary file already.
Rename(c) ==
  /\ At(c, "rename")
  /\ \/ tmp = None /\ Refuse(c) /\ UNCHANGED files
     \/ /\ tmp # None
        /\ seen' = tmp
        /\ tmp' = None
        /\ Goto(c, "sync")
        /\ UNCHANGED <<synced, data>>
  /\ UNCHANGED <<cached, history, spent>>

\* Mutant: no sync of the directory.
SyncNothing(c) ==
  /\ At(c, "sync")
  /\ Goto(c, "run")
  /\ UNCHANGED <<files, cached, history, spent>>

SyncDir(c) ==
  /\ At(c, "sync")
  /\ synced' = seen
  /\ Goto(c, "run")
  /\ UNCHANGED <<seen, tmp, data, cached, history, spent>>

\* Any step of write_seen can fail; the call is refused and what is done stays.
DiskFails(c) ==
  /\ conn[c].pc \in {"create", "write", "rename", "sync"}
  /\ Spend("faults")
  /\ Refuse(c)
  /\ UNCHANGED <<files, cached, history>>

\* The command; only a success is cached.
Run(c) ==
  /\ At(c, "run")
  /\ ran' = Append(ran, conn[c].call)
  /\ \/ conn[c].call.idem # None /\ Goto(c, "cache")
     \/ Refuse(c)
  /\ UNCHANGED <<files, cached, crossed, spent>>

Cache(c) ==
  /\ At(c, "cache")
  /\ cached' = cached \cup {conn[c].call.idem}
  /\ Refuse(c)
  /\ UNCHANGED <<files, history, spent>>

Kill ==
  /\ Spend("kills")
  /\ conn' = [c \in Conns |-> Idle]
  /\ UNCHANGED <<files, cached, history>>

\* A power loss may lose the names that no directory sync has covered; the
\* cache's directory is never synced.
PowerLoss ==
  /\ Spend("losses")
  /\ conn' = [c \in Conns |-> Idle]
  /\ seen' \in {seen, synced}
  /\ synced' = seen'
  /\ tmp' \in {tmp, None}
  /\ cached' \in SUBSET cached
  /\ UNCHANGED <<data, history>>

Next ==
  \/ \E c \in Conns :
       \/ \E k \in Calls : Arrive(c, k)
       \/ Check(c) \/ CreateTmp(c) \/ WriteTmp(c) \/ Rename(c) \/ SyncDir(c)
       \/ DiskFails(c) \/ Run(c) \/ Cache(c)
  \/ Kill
  \/ PowerLoss

Spec == Init /\ [][Next]_vars
-----------------------------------------------------------------------------
Connections ==
  [pc : {"idle", "check", "create", "write", "rename", "sync", "run", "cache"},
   call : Calls \cup {None}, file : Files \cup {None}]

\* The values the agent's files and tasks hold.
TypeOK ==
  /\ seen \in Files \cup {None} /\ synced \in Files \cup {None}
  /\ tmp \in Files \cup {None}
  /\ data \in [Files -> {k.fence : k \in Calls} \cup {None}]
  /\ cached \subseteq {k.idem : k \in Calls} \ {None}
  /\ conn \in [Conns -> Connections]
  /\ ran \in Seq(Calls) /\ crossed \in BOOLEAN
  /\ spent \in [Events -> Nat]

Fenced == {i \in DOMAIN ran : ran[i].fence # None}

Covers(file, f) == Content(file) # None /\ NotBehind(Content(file), f)

\* No call was cut off inside write_seen.
Uncut == spent["faults"] = 0 /\ spent["kills"] = 0

\* Calls came one after the other, and no power loss followed a cut-off one.
Serial == ~crossed /\ (Uncut \/ spent["losses"] = 0)

(***************************************************************************)
(* fence_seen never falls behind a command that ran: whatever crashed or    *)
(* was sent twice in between, a call with a lower fence will be refused.    *)
(***************************************************************************)
SeenCoversRuns == \A i \in Fenced : Covers(seen, ran[i].fence)

(***************************************************************************)
(* The same as long as a resource's calls come one after the other, through *)
(* failing disks, killed agents and retries.                                *)
(***************************************************************************)
SeenCoversSerialRuns == Serial => SeenCoversRuns

(***************************************************************************)
(* Commands on one resource run in the order of their fences: once a new    *)
(* holder's command has run, no command of an earlier holder does.          *)
(***************************************************************************)
SerialRunsFollowFences ==
  Serial =>
    \A i, j \in Fenced : i < j => NotBehind(ran[j].fence, ran[i].fence)

(***************************************************************************)
(* "Sync first, then execute": when a command runs its fence already        *)
(* survives a power loss, so no restart of the host readmits an old holder. *)
(***************************************************************************)
RunsAreDurable == \A i \in Fenced : Covers(synced, ran[i].fence)

(***************************************************************************)
(* The same until a call is cut off by a failing disk or a killed agent,    *)
(* which may leave a new name in a directory that was not synced.           *)
(***************************************************************************)
UncutRunsAreDurable == ~crossed /\ Uncut => RunsAreDurable

(***************************************************************************)
(* A call whose key has a cached answer is answered from the cache: calls   *)
(* that come one after the other never run twice while the answer is there. *)
(***************************************************************************)
CachedNeverRunsAgain ==
  [][~crossed' /\ ran' # ran => ran'[Len(ran')].idem \notin cached]_vars
=============================================================================
