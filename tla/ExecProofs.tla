------------------------------ MODULE ExecProofs ------------------------------
(***************************************************************************)
(* The two guards of an operation's commands, each for itself: the fence of  *)
(* the agents, and the instance lock of the controllers.                     *)
(***************************************************************************)
EXTENDS FenceGuard, InstanceLease, TLAPS

(***************************************************************************)
(* For any connections, calls and number of failures: the fence on disk     *)
(* covers every command that ran as long as the calls of a resource come    *)
(* one after the other, and commands follow their fences.                   *)
(*                                                                          *)
(* What was run says nothing of what is about to run.  GuardInv adds where  *)
(* the fence of the call under way is: not behind fence_seen from the check *)
(* on, in the temporary inode before the rename, in fence_seen after it,    *)
(* under a synced name before the command.  That a call's file is still the *)
(* temporary one, and that creating it empties neither of the two others,   *)
(* is about inodes and holds of crossing calls as well.                     *)
(***************************************************************************)
\* Calls under way were accepted, those in the guard carry a fence and those
\* being cached a key.
InGuard == {"check", "create", "write", "rename", "sync"}

CallsUnderWay ==
  \A c \in Conns :
    /\ ~At(c, "idle") => conn[c].call \in Calls
    /\ conn[c].pc \in InGuard => Fence(c) # None
    /\ At(c, "cache") => conn[c].call.idem # None

\* The temporary file is never the file another name has.
TmpApart == tmp # None => tmp # seen /\ tmp # synced

OneAtATime == \A c, d \in Conns : c # d => At(c, "idle") \/ At(d, "idle")

\* Where the fence of c's call is.
OnItsWay(c) ==
  /\ conn[c].pc \in {"create", "write", "rename"} => ~Stale(Fence(c), Content(seen))
  /\ conn[c].pc \in {"write", "rename"} => tmp # None /\ conn[c].file = tmp
  /\ At(c, "rename") => data[tmp] = Fence(c)
  /\ (At(c, "sync") \/ At(c, "run")) /\ Fence(c) # None => Content(seen) = Fence(c)

RunsInOrder ==
  \A i, j \in Fenced : i < j => NotBehind(ran[j].fence, ran[i].fence)

\* Until a call is cut off, only one that has renamed the file and not yet
\* synced the directory leaves the two names apart.
SyncedUnlessRenaming == (\A c \in Conns : ~At(c, "sync")) => synced = seen

SerialPart == (\A c \in Conns : OnItsWay(c)) /\ SeenCoversRuns /\ RunsInOrder

UncutPart == SyncedUnlessRenaming /\ RunsAreDurable

GuardInv ==
  /\ TypeOK
  /\ CallsUnderWay
  /\ TmpApart
  /\ ~crossed => OneAtATime
  /\ Serial => SerialPart
  /\ ~crossed /\ Uncut => UncutPart

-----------------------------------------------------------------------------
\* Fences are records whose ranks compare as integers do.
LEMMA FenceOrder ==
  ASSUME NEW k \in Calls, NEW l \in Calls, NEW m \in Calls,
         k.fence # None, l.fence # None, m.fence # None
  PROVE  /\ NotBehind(k.fence, k.fence)
         /\ NotBehind(k.fence, l.fence) /\ NotBehind(l.fence, m.fence) =>
              NotBehind(k.fence, m.fence)
  BY CallsAssumption DEF NotBehind

\* The history grows by the call that runs.
LEMMA RunAppends ==
  ASSUME ran \in Seq(Calls), NEW k \in Calls, ran' = Append(ran, k)
  PROVE  /\ ran' \in Seq(Calls)
         /\ Len(ran') = Len(ran) + 1
         /\ DOMAIN ran = 1 .. Len(ran)
         /\ DOMAIN ran' = 1 .. Len(ran) + 1
         /\ \A i \in DOMAIN ran : ran'[i] = ran[i]
         /\ ran'[Len(ran) + 1] = k
  OBVIOUS

LEMMA InitGuard == Init => GuardInv
  <1> SUFFICES ASSUME Init PROVE GuardInv
    OBVIOUS
  <1> USE DEF Init, Idle
  <1>1. TypeOK
    <2>1. conn \in [Conns -> Connections]
      BY DEF Connections
    <2>2. ran \in Seq(Calls) /\ spent \in [Events -> Nat]
      OBVIOUS
    <2> QED
      BY <2>1, <2>2 DEF TypeOK
  <1>2. CallsUnderWay /\ TmpApart /\ OneAtATime
    BY DEF CallsUnderWay, TmpApart, OneAtATime, At, InGuard
  <1>3. Fenced = {}
    BY DEF Fenced
  <1>4. \A c \in Conns : OnItsWay(c)
    BY DEF OnItsWay, At
  <1>5. SyncedUnlessRenaming
    BY DEF SyncedUnlessRenaming
  <1> QED
    BY <1>1, <1>2, <1>3, <1>4, <1>5 
    DEF GuardInv, SerialPart, UncutPart, SeenCoversRuns, RunsInOrder, RunsAreDurable

-----------------------------------------------------------------------------
Places == {"idle", "check", "create", "write", "rename", "sync", "run", "cache"}

\* A connection stays well typed wherever its task goes.
LEMMA ConnTypes ==
  ASSUME conn \in [Conns -> Connections], NEW c \in Conns
  PROVE  /\ \A k \in Calls, pc \in {"run", "check"} :
              conn' = [conn EXCEPT ![c] = [Idle EXCEPT !.pc = pc, !.call = k]]
                => conn' \in [Conns -> Connections]
         /\ \A pc \in Places : Goto(c, pc) => conn' \in [Conns -> Connections]
         /\ Refuse(c) => conn' \in [Conns -> Connections]
  <1>1. ASSUME NEW k \in Calls, NEW pc \in {"run", "check"},
               conn' = [conn EXCEPT ![c] = [Idle EXCEPT !.pc = pc, !.call = k]]
        PROVE  conn' \in [Conns -> Connections]
    BY <1>1 DEF Connections, Idle
  <1>2. ASSUME NEW pc \in Places, Goto(c, pc) PROVE conn' \in [Conns -> Connections]
    BY <1>2 DEF Connections, Goto, Places
  <1>3. ASSUME Refuse(c) PROVE conn' \in [Conns -> Connections]
    BY <1>3 DEF Connections, Refuse, Idle
  <1> QED
    BY <1>1, <1>2, <1>3

\* Only the connection that moves changes.
LEMMA Moves ==
  ASSUME conn \in [Conns -> Connections], NEW c \in Conns, NEW d \in Conns
  PROVE  /\ \A pc \in Places :
              Goto(c, pc) =>
                /\ conn'[c].pc = pc
                /\ conn'[c].call = conn[c].call /\ conn'[c].file = conn[c].file
                /\ d # c => conn'[d] = conn[d]
         /\ Refuse(c) => conn'[c] = Idle /\ (d # c => conn'[d] = conn[d])
  <1>1. ASSUME NEW pc \in Places, Goto(c, pc)
        PROVE  /\ conn'[c].pc = pc
               /\ conn'[c].call = conn[c].call /\ conn'[c].file = conn[c].file
               /\ d # c => conn'[d] = conn[d]
    BY <1>1 DEF Connections, Goto
  <1> QED
    BY <1>1 DEF Refuse

LEMMA FileSet ==
  ASSUME NEW k \in Connections, NEW f \in Files
  PROVE  [k EXCEPT !.file = f] \in Connections
  BY DEF Connections

LEMMA TypeStep == TypeOK /\ CallsUnderWay /\ [Next]_vars => TypeOK'
  <1> SUFFICES ASSUME TypeOK, CallsUnderWay, [Next]_vars PROVE TypeOK'
    OBVIOUS
  <1> USE DEF TypeOK, Events
  <1>1. ASSUME NEW c \in Conns, NEW k \in Calls, Arrive(c, k) PROVE TypeOK'
    <2>1. conn' \in [Conns -> Connections]
      BY <1>1, ConnTypes DEF Arrive
    <2>2. spent' \in [Events -> Nat] /\ crossed' \in BOOLEAN
      BY <1>1 DEF Arrive, Spend, Meet
    <2> QED
      BY <1>1, <2>1, <2>2 DEF Arrive, files
  <1>2. ASSUME NEW c \in Conns, Check(c) PROVE TypeOK'
    BY <1>2, ConnTypes DEF Check, Places, files, history
  <1>3. ASSUME NEW c \in Conns, CreateTmp(c) PROVE TypeOK'
    <2>1. PICK file \in IF tmp # None THEN {tmp} ELSE Fresh :
            /\ tmp' = file
            /\ data' = [data EXCEPT ![file] = None]
            /\ conn' = [conn EXCEPT ![c].pc = "write", ![c].file = file]
      BY <1>3 DEF CreateTmp
    <2>2. file \in Files
      BY <2>1 DEF Fresh
    <2>3. conn' \in [Conns -> Connections]
      <3> DEFINE half == [conn EXCEPT ![c].pc = "write"]
      <3>1. half \in [Conns -> Connections] /\ conn' = [half EXCEPT ![c].file = file]
        BY <2>1 DEF Connections
      <3> HIDE DEF half
      <3>2. [half[c] EXCEPT !.file = file] \in Connections
        BY <2>2, <3>1, FileSet
      <3> HIDE DEF Connections
      <3>3. QED
        BY <3>1, <3>2
    <2> QED
      BY <1>3, <2>1, <2>2, <2>3 DEF CreateTmp, history
  <1>4. ASSUME NEW c \in Conns, WriteTmp(c) PROVE TypeOK'
    <2>1. Fence(c) \in {k.fence : k \in Calls}
      BY <1>4 DEF WriteTmp, CallsUnderWay, At, Fence
    <2> QED
      BY <1>4, <2>1, ConnTypes DEF WriteTmp, Places, history
  <1>5. ASSUME NEW c \in Conns, Rename(c) PROVE TypeOK'
    BY <1>5, ConnTypes DEF Rename, Places, files, history
  <1>6. ASSUME NEW c \in Conns, SyncDir(c) PROVE TypeOK'
    BY <1>6, ConnTypes DEF SyncDir, Places, history
  <1>7. ASSUME NEW c \in Conns, DiskFails(c) PROVE TypeOK'
    <2>1. conn' \in [Conns -> Connections]
      BY <1>7, ConnTypes DEF DiskFails
    <2> QED
      BY <1>7, <2>1 DEF DiskFails, Spend, files, history
  <1>8. ASSUME NEW c \in Conns, Run(c) PROVE TypeOK'
    <2>1. conn[c].call \in Calls
      BY <1>8 DEF Run, CallsUnderWay, At
    <2>2. conn' \in [Conns -> Connections]
      BY <1>8, ConnTypes DEF Run, Places
    <2>3. ran' \in Seq(Calls)
      BY <1>8, <2>1, RunAppends DEF Run
    <2> QED
      BY <1>8, <2>2, <2>3 DEF Run, files
  <1>9. ASSUME NEW c \in Conns, Cache(c) PROVE TypeOK'
    BY <1>9, ConnTypes DEF Cache, At, CallsUnderWay, files, history
  <1>10. ASSUME Kill PROVE TypeOK'
    BY <1>10 DEF Kill, Spend, Connections, Idle, files, history
  <1>11. ASSUME PowerLoss PROVE TypeOK'
    BY <1>11 DEF PowerLoss, Spend, Connections, Idle, history
  <1> QED
    BY <1>1, <1>2, <1>3, <1>4, <1>5, <1>6, <1>7, <1>8, <1>9, <1>10, <1>11
    DEF Next, vars, files, history

-----------------------------------------------------------------------------
LEMMA UnderWayStep == TypeOK /\ CallsUnderWay /\ [Next]_vars => CallsUnderWay'
  <1> SUFFICES ASSUME TypeOK, CallsUnderWay, [Next]_vars, NEW d \in Conns
               PROVE  /\ conn'[d].pc # "idle" => conn'[d].call \in Calls
                      /\ conn'[d].pc \in InGuard => conn'[d].call.fence # None
                      /\ conn'[d].pc = "cache" => conn'[d].call.idem # None
    BY DEF CallsUnderWay, At, Fence
  <1> DEFINE Good == /\ conn'[d].pc # "idle" => conn'[d].call \in Calls
                     /\ conn'[d].pc \in InGuard => conn'[d].call.fence # None
                     /\ conn'[d].pc = "cache" => conn'[d].call.idem # None
  <1>0. /\ conn[d].pc # "idle" => conn[d].call \in Calls
        /\ conn[d].pc \in InGuard => conn[d].call.fence # None
        /\ conn[d].pc = "cache" => conn[d].call.idem # None
        /\ conn \in [Conns -> Connections]
    BY DEF CallsUnderWay, At, Fence, TypeOK
  <1>1. ASSUME NEW c \in Conns, NEW k \in Calls, Arrive(c, k) PROVE Good
    BY <1>0, <1>1 DEF Arrive, At, Idle, InGuard
  <1>2. ASSUME NEW c \in Conns, Check(c) PROVE Good
    BY <1>0, <1>2, Moves DEF Check, Places, Idle, InGuard, At
  <1>3. ASSUME NEW c \in Conns, CreateTmp(c) PROVE Good
    BY <1>0, <1>3 DEF CreateTmp, At, Connections, InGuard
  <1>4. ASSUME NEW c \in Conns, WriteTmp(c) PROVE Good
    BY <1>0, <1>4, Moves DEF WriteTmp, Places, InGuard, At
  <1>5. ASSUME NEW c \in Conns, Rename(c) PROVE Good
    BY <1>0, <1>5, Moves DEF Rename, Places, Idle, InGuard, At
  <1>6. ASSUME NEW c \in Conns, SyncDir(c) PROVE Good
    BY <1>0, <1>6, Moves DEF SyncDir, Places, InGuard, At
  <1>7. ASSUME NEW c \in Conns, DiskFails(c) PROVE Good
    BY <1>0, <1>7, Moves DEF DiskFails, Idle, InGuard
  <1>8. ASSUME NEW c \in Conns, Run(c) PROVE Good
    BY <1>0, <1>8, Moves DEF Run, Places, Idle, InGuard, At
  <1>9. ASSUME NEW c \in Conns, Cache(c) PROVE Good
    BY <1>0, <1>9, Moves DEF Cache, Idle, InGuard
  <1>10. ASSUME Kill \/ PowerLoss PROVE Good
    BY <1>10 DEF Kill, PowerLoss, Idle, InGuard
  <1> QED
    BY <1>0, <1>1, <1>2, <1>3, <1>4, <1>5, <1>6, <1>7, <1>8, <1>9, <1>10
    DEF Next, vars

LEMMA ApartStep == TypeOK /\ TmpApart /\ [Next]_vars => TmpApart'
  <1> SUFFICES ASSUME TypeOK, TmpApart, [Next]_vars PROVE TmpApart'
    OBVIOUS
  <1> USE DEF TmpApart
  <1>1. ASSUME NEW c \in Conns, CreateTmp(c) PROVE TmpApart'
    BY <1>1 DEF CreateTmp, Fresh, InUse
  <1>2. ASSUME NEW c \in Conns, Rename(c) \/ SyncDir(c) PROVE TmpApart'
    BY <1>2 DEF Rename, SyncDir, files
  <1>3. CASE PowerLoss
    BY <1>3 DEF PowerLoss
  <1>4. CASE UNCHANGED <<seen, synced, tmp>>
    BY <1>4
  <1> QED
    BY <1>1, <1>2, <1>3, <1>4
    DEF Next, Arrive, Check, WriteTmp, DiskFails, Run, Cache, Kill, vars, files

-----------------------------------------------------------------------------
\* What happened before a serial, uncut history was serial and uncut.
LEMMA SerialBefore ==
  ASSUME TypeOK, Next
  PROVE  /\ ~crossed' => ~crossed
         /\ Uncut' => Uncut
         /\ Serial' => Serial
  <1>1. ~crossed' => ~crossed
    BY DEF Next, Arrive, Meet, Check, CreateTmp, WriteTmp, Rename, SyncDir,
           DiskFails, Run, Cache, Kill, PowerLoss, history, TypeOK
  <1>2. \/ spent' = spent
        \/ \E e \in Events : spent' = [spent EXCEPT ![e] = @ + 1]
    BY DEF Next, Arrive, Spend, Check, CreateTmp, WriteTmp, Rename, SyncDir,
           DiskFails, Run, Cache, Kill, PowerLoss, history, Events
  <1>3. \A e \in Events :
          spent[e] \in Nat /\ spent'[e] \in Nat /\ spent'[e] >= spent[e]
    BY <1>2 DEF TypeOK
  <1>4. /\ Uncut' => Uncut
        /\ spent'["losses"] = 0 => spent["losses"] = 0
    BY <1>3 DEF Uncut, Events
  <1> QED
    BY <1>1, <1>4 DEF Serial

StepOf(c) ==
  \/ \E k \in Calls : Arrive(c, k)
  \/ Check(c) \/ CreateTmp(c) \/ WriteTmp(c) \/ Rename(c) \/ SyncDir(c)
  \/ DiskFails(c) \/ Run(c) \/ Cache(c)

\* A step of c, as the others see it.
LEMMA StepOfOne ==
  ASSUME conn \in [Conns -> Connections], NEW c \in Conns, NEW d \in Conns,
         d # c,
         StepOf(c)
  PROVE  conn'[d] = conn[d]
  BY Moves DEF StepOf, Arrive, Check, CreateTmp, WriteTmp, Rename, SyncDir, DiskFails,
               Run, Cache, Places

\* In a serial history nobody is in the guard but the connection that moves.
LEMMA Alone ==
  ASSUME TypeOK, ~crossed => OneAtATime, ~crossed', ~crossed,
         NEW c \in Conns, NEW d \in Conns, d # c,
         StepOf(c)
  PROVE  conn[d].pc = "idle" /\ conn'[d].pc = "idle"
  <1>1. conn'[d] = conn[d]
    BY StepOfOne DEF TypeOK
  <1>2. CASE \E k \in Calls : Arrive(c, k)
    BY <1>1, <1>2 DEF Arrive, Meet, At
  <1>3. CASE ~At(c, "idle")
    BY <1>1, <1>3 DEF OneAtATime, At
  <1> QED
    BY <1>2, <1>3 DEF StepOf, Check, CreateTmp, WriteTmp, Rename, SyncDir, DiskFails, Run,
                      Cache, At

LEMMA OneStep ==
  ASSUME TypeOK, ~crossed => OneAtATime, [Next]_vars
  PROVE  ~crossed' => OneAtATime'
  <1> SUFFICES ASSUME ~crossed' PROVE OneAtATime'
    OBVIOUS
  <1>1. CASE Next
    <2>1. ~crossed
      BY <1>1, SerialBefore
    <2>2. CASE Kill \/ PowerLoss
      BY <2>2 DEF Kill, PowerLoss, OneAtATime, At, Idle
    <2>3. ASSUME NEW c \in Conns,
                 StepOf(c)
          PROVE  OneAtATime'
      BY <2>1, <2>3, Alone DEF OneAtATime, At
    <2> QED
      BY <1>1, <2>2, <2>3 DEF Next, StepOf
  <1>2. CASE UNCHANGED vars
    BY <1>2 DEF vars, history, OneAtATime, At
  <1> QED
    BY <1>1, <1>2

-----------------------------------------------------------------------------
\* A serial step of c preserves the serial part when it keeps c on its way and
\* what ran covered and in order.
LEMMA OthersIdle ==
  ASSUME GuardInv, Next, Serial', NEW c \in Conns, StepOf(c), OnItsWay(c)'
  PROVE  \A d \in Conns : OnItsWay(d)'
  <1>1. ~crossed' /\ ~crossed
    BY SerialBefore DEF GuardInv, Serial
  <1>2. \A d \in Conns : d # c => conn'[d].pc = "idle"
    BY <1>1, Alone DEF GuardInv
  <1> QED
    BY <1>2 DEF OnItsWay, At

\* Nothing runs and fence_seen keeps its content.
LEMMA NothingRuns ==
  ASSUME SeenCoversRuns, RunsInOrder, ran' = ran,
         Content(seen)' = Content(seen)
  PROVE  SeenCoversRuns' /\ RunsInOrder'
  BY DEF SeenCoversRuns, RunsInOrder, Fenced, Covers

\* The fence of a call under way may replace the one on disk.
LEMMA Raises ==
  ASSUME GuardInv, SeenCoversRuns, NEW c \in Conns, ~At(c, "idle"),
         Fence(c) # None, ~Stale(Fence(c), Content(seen))
  PROVE  \A i \in Fenced : NotBehind(Fence(c), ran[i].fence)
  <1> SUFFICES ASSUME NEW i \in Fenced PROVE NotBehind(Fence(c), ran[i].fence)
    OBVIOUS
  <1>1. conn[c].call \in Calls /\ ran[i] \in Calls /\ ran[i].fence # None
    BY DEF GuardInv, CallsUnderWay, TypeOK, Fenced
  <1>2. Content(seen) # None /\ NotBehind(Content(seen), ran[i].fence)
    BY DEF SeenCoversRuns, Covers
  <1>3. PICK k \in Calls : Content(seen) = k.fence
    BY <1>2 DEF Content, GuardInv, TypeOK
  <1>4. NotBehind(Fence(c), Content(seen))
    BY <1>2 DEF Stale
  <1> QED
    BY <1>1, <1>2, <1>3, <1>4, FenceOrder DEF Fence

\* The command runs: fence_seen has its fence.
LEMMA RunStep ==
  ASSUME GuardInv, SerialPart, NEW c \in Conns, Run(c)
  PROVE  SeenCoversRuns' /\ RunsInOrder'
  <1> DEFINE k == conn[c].call
  <1>1. k \in Calls /\ ran \in Seq(Calls) /\ ran' = Append(ran, k)
    BY DEF GuardInv, TypeOK, CallsUnderWay, Run, At
  <1>2. Content(seen)' = Content(seen)
    BY DEF Run, files, Content
  <1>3. k.fence # None => Content(seen) = k.fence
    BY DEF SerialPart, OnItsWay, Run, Fence, At
  <1>4. ASSUME k.fence # None
        PROVE  \A i \in Fenced : NotBehind(k.fence, ran[i].fence)
    BY <1>3, <1>4 DEF SerialPart, SeenCoversRuns, Covers
  <1>5. Fenced' = Fenced \cup (IF k.fence # None THEN {Len(ran) + 1} ELSE {})
    BY <1>1, RunAppends DEF Fenced
  <1>6. SeenCoversRuns'
    BY <1>1, <1>2, <1>3, <1>4, <1>5, RunAppends, FenceOrder
    DEF SeenCoversRuns, SerialPart, Covers, Fenced
  <1>7. RunsInOrder'
    <2> SUFFICES ASSUME NEW i \in Fenced', NEW j \in Fenced', i < j
                 PROVE  NotBehind(ran'[j].fence, ran'[i].fence)
      BY DEF RunsInOrder
    <2>1. i \in Fenced /\ ran'[i] = ran[i]
      BY <1>1, <1>5, RunAppends DEF Fenced
    <2>2. CASE j \in Fenced
      BY <1>1, <2>1, <2>2, RunAppends DEF SerialPart, RunsInOrder, Fenced
    <2>3. CASE j \notin Fenced
      BY <1>1, <1>4, <1>5, <2>1, <2>3, RunAppends
    <2> QED
      BY <2>2, <2>3
  <1> QED
    BY <1>6, <1>7

-----------------------------------------------------------------------------
LEMMA SerialStep ==
  ASSUME GuardInv, Next, Serial'
  PROVE  SerialPart'
  <1>1. Serial /\ SerialPart /\ ~crossed /\ ~crossed' /\ OneAtATime
    BY SerialBefore DEF GuardInv, Serial
  <1>2. /\ TypeOK /\ conn \in [Conns -> Connections]
        /\ \A c \in Conns : OnItsWay(c)
        /\ \A c \in Conns : conn[c].pc \in InGuard => Fence(c) # None
    BY <1>1 DEF GuardInv, TypeOK, SerialPart, CallsUnderWay
  <1>3. SeenCoversRuns /\ RunsInOrder
    BY <1>1 DEF SerialPart
  <1>4. ASSUME NEW c \in Conns, StepOf(c), OnItsWay(c)',
               SeenCoversRuns' /\ RunsInOrder'
        PROVE  SerialPart'
    BY <1>4, OthersIdle DEF SerialPart
  <1>5. ASSUME NEW c \in Conns, NEW k \in Calls, Arrive(c, k) PROVE SerialPart'
    <2>1. OnItsWay(c)'
      BY <1>2, <1>5 DEF Arrive, OnItsWay, At, Fence, Idle
    <2>2. SeenCoversRuns' /\ RunsInOrder'
      BY <1>3, <1>5, NothingRuns DEF Arrive, files, Content
    <2> QED
      BY <1>4, <1>5, <2>1, <2>2 DEF StepOf
  <1>6. ASSUME NEW c \in Conns, Check(c) PROVE SerialPart'
    <2>1. OnItsWay(c)'
      BY <1>2, <1>6, Moves
      DEF Check, OnItsWay, At, Fence, Idle, files, Content, Stale, Repeated, Places
    <2>2. SeenCoversRuns' /\ RunsInOrder'
      BY <1>3, <1>6, NothingRuns DEF Check, files, history, Content
    <2> QED
      BY <1>4, <1>6, <2>1, <2>2 DEF StepOf
  <1>7. ASSUME NEW c \in Conns, CreateTmp(c) PROVE SerialPart'
    <2>1. PICK file \in IF tmp # None THEN {tmp} ELSE Fresh :
            /\ tmp' = file
            /\ data' = [data EXCEPT ![file] = None]
            /\ conn' = [conn EXCEPT ![c].pc = "write", ![c].file = file]
      BY <1>7 DEF CreateTmp
    <2>2. file # None /\ file # seen
      BY <2>1 DEF GuardInv, TmpApart, Fresh, InUse
    <2>3. Content(seen)' = Content(seen)
      BY <1>2, <1>7, <2>1, <2>2 DEF CreateTmp, Content, TypeOK
    <2>4. /\ conn'[c].pc = "write" /\ conn'[c].file = file
          /\ conn'[c].call = conn[c].call
      BY <1>2, <2>1 DEF Connections
    <2>5. OnItsWay(c)'
      BY <1>2, <1>7, <2>1, <2>2, <2>3, <2>4
      DEF CreateTmp, OnItsWay, At, Fence, Stale
    <2>6. SeenCoversRuns' /\ RunsInOrder'
      BY <1>3, <1>7, <2>3, NothingRuns DEF CreateTmp, history
    <2> QED
      BY <1>4, <1>7, <2>5, <2>6 DEF StepOf
  <1>8. ASSUME NEW c \in Conns, WriteTmp(c) PROVE SerialPart'
    <2>1. conn[c].file = tmp /\ tmp # None /\ tmp # seen /\ tmp \in Files
      BY <1>2, <1>8 DEF WriteTmp, OnItsWay, At, GuardInv, TmpApart, TypeOK
    <2>2. Content(seen)' = Content(seen)
      BY <1>2, <1>8, <2>1 DEF WriteTmp, Content, TypeOK
    <2>3. data'[tmp] = Fence(c)
      BY <1>2, <1>8, <2>1 DEF WriteTmp, TypeOK
    <2>4. OnItsWay(c)'
      BY <1>2, <1>8, <2>1, <2>2, <2>3, Moves
      DEF WriteTmp, OnItsWay, At, Fence, Stale, Places
    <2>5. SeenCoversRuns' /\ RunsInOrder'
      BY <1>3, <1>8, <2>2, NothingRuns DEF WriteTmp, history
    <2> QED
      BY <1>4, <1>8, <2>4, <2>5 DEF StepOf
  <1>9. ASSUME NEW c \in Conns, Rename(c) PROVE SerialPart'
    <2>1. /\ At(c, "rename") /\ tmp # None /\ data[tmp] = Fence(c)
          /\ Fence(c) # None /\ ~Stale(Fence(c), Content(seen))
      BY <1>2, <1>9 DEF Rename, OnItsWay, At, InGuard
    <2>2. seen' = tmp /\ data' = data /\ ran' = ran /\ Goto(c, "sync")
      BY <1>9, <2>1 DEF Rename, history
    <2>3. Content(seen)' = Fence(c)
      BY <2>1, <2>2 DEF Content
    <2>4. OnItsWay(c)'
      BY <1>2, <2>2, <2>3, Moves DEF OnItsWay, At, Fence, Places
    <2>5. SeenCoversRuns'
      BY <1>3, <2>1, <2>2, <2>3, Raises DEF SeenCoversRuns, Covers, Fenced, At
    <2>6. RunsInOrder'
      BY <1>3, <2>2 DEF RunsInOrder, Fenced
    <2> QED
      BY <1>4, <1>9, <2>4, <2>5, <2>6 DEF StepOf
  <1>10. ASSUME NEW c \in Conns, SyncDir(c) PROVE SerialPart'
    <2>1. OnItsWay(c)'
      BY <1>2, <1>10, Moves
      DEF SyncDir, OnItsWay, At, Fence, Content, Places
    <2>2. SeenCoversRuns' /\ RunsInOrder'
      BY <1>3, <1>10, NothingRuns DEF SyncDir, history, Content
    <2> QED
      BY <1>4, <1>10, <2>1, <2>2 DEF StepOf
  <1>11. ASSUME NEW c \in Conns, DiskFails(c) \/ Cache(c) PROVE SerialPart'
    <2>1. OnItsWay(c)'
      BY <1>2, <1>11, Moves DEF DiskFails, Cache, OnItsWay, At, Idle
    <2>2. SeenCoversRuns' /\ RunsInOrder'
      BY <1>3, <1>11, NothingRuns DEF DiskFails, Cache, files, history, Content
    <2> QED
      BY <1>4, <1>11, <2>1, <2>2 DEF StepOf
  <1>12. ASSUME NEW c \in Conns, Run(c) PROVE SerialPart'
    <2>1. OnItsWay(c)'
      BY <1>2, <1>12, Moves DEF Run, OnItsWay, At, Idle, Places
    <2> QED
      BY <1>1, <1>4, <1>12, <2>1, RunStep DEF StepOf
  <1>13. CASE Kill
    <2>1. SeenCoversRuns' /\ RunsInOrder'
      BY <1>3, <1>13, NothingRuns DEF Kill, files, history, Content
    <2> QED
      BY <1>13, <2>1 DEF Kill, SerialPart, OnItsWay, At, Idle
  <1>14. CASE PowerLoss
    <2>1. Uncut
      BY <1>2, <1>14, SerialBefore DEF PowerLoss, Spend, Serial, TypeOK, Events
    <2>2. RunsAreDurable
      BY <1>1, <2>1 DEF GuardInv, UncutPart
    <2>3. SeenCoversRuns'
      BY <1>3, <1>14, <2>2
      DEF PowerLoss, SeenCoversRuns, RunsAreDurable, Covers, Content, history, Fenced
    <2>4. RunsInOrder'
      BY <1>3, <1>14 DEF PowerLoss, history, RunsInOrder, Fenced
    <2> QED
      BY <1>14, <2>3, <2>4 DEF PowerLoss, SerialPart, OnItsWay, At, Idle
  <1> QED
    BY <1>5, <1>6, <1>7, <1>8, <1>9, <1>10, <1>11, <1>12, <1>13, <1>14 DEF Next

-----------------------------------------------------------------------------
LEMMA UncutStep ==
  ASSUME GuardInv, Next, ~crossed', Uncut'
  PROVE  UncutPart'
  <1>1. /\ Serial /\ SerialPart /\ ~crossed /\ OneAtATime
        /\ UncutPart /\ SyncedUnlessRenaming /\ RunsAreDurable
    BY SerialBefore DEF GuardInv, Serial, UncutPart
  <1>2. /\ TypeOK /\ conn \in [Conns -> Connections]
        /\ \A c \in Conns : OnItsWay(c)
    BY <1>1 DEF GuardInv, TypeOK, SerialPart
  <1>3. \A c, d \in Conns : c # d /\ StepOf(c) =>
          conn[d].pc = "idle" /\ conn'[d].pc = "idle"
    BY <1>1, <1>2, Alone
  \* The names stay, and so does what they hold.
  <1>4. ASSUME UNCHANGED <<seen, synced, ran>>,
               \A c \in Conns : conn'[c].pc # "sync" => conn[c].pc # "sync",
               synced = None \/ data'[synced] = data[synced]
        PROVE  UncutPart'
    BY <1>1, <1>4
    DEF UncutPart, SyncedUnlessRenaming, RunsAreDurable, Fenced, Covers, Content, At
  <1>5. ASSUME NEW c \in Conns, NEW k \in Calls, Arrive(c, k) PROVE UncutPart'
    <2>1. \A d \in Conns : conn[d].pc # "sync"
      BY <1>3, <1>5 DEF StepOf, Arrive, At
    <2> QED
      BY <1>4, <1>5, <2>1 DEF Arrive, files
  <1>6. ASSUME NEW c \in Conns, Check(c) PROVE UncutPart'
    <2>1. \A d \in Conns : conn[d].pc # "sync"
      BY <1>3, <1>6 DEF StepOf, Check, At
    <2> QED
      BY <1>4, <1>6, <2>1 DEF Check, files, history
  <1>7. ASSUME NEW c \in Conns, CreateTmp(c) PROVE UncutPart'
    <2>1. \A d \in Conns : conn[d].pc # "sync"
      BY <1>3, <1>7 DEF StepOf, CreateTmp, At
    <2>2. PICK file \in IF tmp # None THEN {tmp} ELSE Fresh :
            data' = [data EXCEPT ![file] = None]
      BY <1>7 DEF CreateTmp
    <2>3. file # synced
      BY <2>2 DEF GuardInv, TmpApart, Fresh, InUse
    <2>4. synced = None \/ data'[synced] = data[synced]
      BY <1>2, <2>2, <2>3 DEF TypeOK
    <2> QED
      BY <1>4, <1>7, <2>1, <2>4 DEF CreateTmp, history
  <1>8. ASSUME NEW c \in Conns, WriteTmp(c) PROVE UncutPart'
    <2>1. \A d \in Conns : conn[d].pc # "sync"
      BY <1>3, <1>8 DEF StepOf, WriteTmp, At
    <2>2. conn[c].file # synced
      BY <1>2, <1>8 DEF WriteTmp, OnItsWay, At, GuardInv, TmpApart
    <2>3. synced = None \/ data'[synced] = data[synced]
      BY <1>2, <1>8, <2>2 DEF WriteTmp, TypeOK
    <2> QED
      BY <1>4, <1>8, <2>1, <2>3 DEF WriteTmp, history
  <1>9. ASSUME NEW c \in Conns, Rename(c) PROVE UncutPart'
    <2>1. tmp # None
      BY <1>2, <1>9 DEF Rename, OnItsWay, At
    <2>2. /\ synced' = synced /\ data' = data /\ ran' = ran
          /\ conn'[c].pc = "sync"
      BY <1>2, <1>9, <2>1, Moves DEF Rename, history, Places
    <2> QED
      BY <1>1, <2>2
      DEF UncutPart, SyncedUnlessRenaming, RunsAreDurable, Fenced, Covers, Content, At
  <1>10. ASSUME NEW c \in Conns, SyncDir(c) PROVE UncutPart'
    BY <1>1, <1>10
    DEF SyncDir, UncutPart, SyncedUnlessRenaming, SerialPart, SeenCoversRuns,
        RunsAreDurable, Fenced, Covers, Content, history
  <1>11. ASSUME NEW c \in Conns, DiskFails(c) PROVE UncutPart'
    BY <1>2, <1>11 DEF DiskFails, Spend, Uncut, TypeOK, Events
  <1>12. ASSUME NEW c \in Conns, Run(c) PROVE UncutPart'
    <2>1. \A d \in Conns : conn[d].pc # "sync"
      BY <1>3, <1>12 DEF StepOf, Run, At
    <2>2. synced = seen
      BY <1>1, <2>1 DEF SyncedUnlessRenaming, At
    <2>3. SeenCoversRuns'
      BY <1>1, <1>12, RunStep
    <2>4. UNCHANGED files
      BY <1>12 DEF Run
    <2> QED
      BY <2>2, <2>3, <2>4
      DEF files, UncutPart, SyncedUnlessRenaming, SeenCoversRuns, RunsAreDurable,
          Covers, Content, Fenced
  <1>13. ASSUME NEW c \in Conns, Cache(c) PROVE UncutPart'
    <2>1. \A d \in Conns : conn[d].pc # "sync"
      BY <1>3, <1>13 DEF StepOf, Cache, At
    <2> QED
      BY <1>4, <1>13, <2>1 DEF Cache, files, history
  <1>14. CASE PowerLoss
    BY <1>1, <1>14
    DEF PowerLoss, UncutPart, SyncedUnlessRenaming, SerialPart, SeenCoversRuns,
        RunsAreDurable, Fenced, Covers, Content, history
  <1>15. CASE Kill
    BY <1>2, <1>15 DEF Kill, Spend, Uncut, TypeOK, Events
  <1> QED
    BY <1>5, <1>6, <1>7, <1>8, <1>9, <1>10, <1>11, <1>12, <1>13, <1>14, <1>15
    DEF Next

LEMMA GuardStep == GuardInv /\ [Next]_vars => GuardInv'
  <1> SUFFICES ASSUME GuardInv, [Next]_vars PROVE GuardInv'
    OBVIOUS
  <1>1. TypeOK' /\ CallsUnderWay' /\ TmpApart' /\ (~crossed' => OneAtATime')
    BY TypeStep, UnderWayStep, ApartStep, OneStep DEF GuardInv
  <1>2. CASE Next
    BY <1>1, <1>2, SerialStep, UncutStep DEF GuardInv
  <1>3. CASE UNCHANGED vars
    <2>1. (Serial <=> Serial') /\ (Uncut <=> Uncut') /\ crossed' = crossed
      BY <1>3 DEF vars, history, Serial, Uncut
    <2>2. SerialPart => SerialPart'
      BY <1>3
      DEF vars, files, history, SerialPart, OnItsWay, At, Fence, Content,
          SeenCoversRuns, RunsInOrder, Fenced, Covers
    <2>3. UncutPart => UncutPart'
      BY <1>3
      DEF vars, files, history, UncutPart, SyncedUnlessRenaming, At,
          RunsAreDurable, Fenced, Covers, Content
    <2> QED
      BY <1>1, <2>1, <2>2, <2>3 DEF GuardInv
  <1> QED
    BY <1>2, <1>3

-----------------------------------------------------------------------------
LEMMA GuardHolds == Spec => []GuardInv
  BY InitGuard, GuardStep, PTL DEF Spec

\* The answer a call may still be given is not cached while it is under way.
Uncached(c) == conn[c].pc \in InGuard \cup {"run"} => conn[c].call.idem \notin cached

KeyInv == GuardInv /\ (~crossed => \A c \in Conns : Uncached(c))

LEMMA KeyStep == KeyInv /\ [Next]_vars => KeyInv'
  <1> SUFFICES ASSUME KeyInv, [Next]_vars, ~crossed', NEW d \in Conns
               PROVE  Uncached(d)'
    BY GuardStep DEF KeyInv
  <1> USE DEF Uncached
  <1>1. GuardInv /\ TypeOK /\ conn \in [Conns -> Connections]
    BY DEF KeyInv, GuardInv, TypeOK
  <1>2. CASE Next
    <2>1. Uncached(d) /\ ~crossed
      BY <1>2, SerialBefore DEF KeyInv, GuardInv
    <2>2. ASSUME NEW c \in Conns, StepOf(c), c # d PROVE Uncached(d)'
      BY <1>1, <2>1, <2>2, Alone DEF GuardInv, InGuard
    <2>3. ASSUME NEW k \in Calls, Arrive(d, k) PROVE Uncached(d)'
      BY <1>1, <2>3 DEF Arrive, At, Idle, InGuard
    <2>4. CASE Check(d) \/ WriteTmp(d) \/ Rename(d) \/ SyncDir(d)
      BY <1>1, <2>1, <2>4, Moves
      DEF Check, WriteTmp, Rename, SyncDir, At, Places, Idle, InGuard
    <2>5. CASE CreateTmp(d)
      BY <1>1, <2>1, <2>5 DEF CreateTmp, At, Connections, InGuard
    <2>6. CASE DiskFails(d) \/ Run(d) \/ Cache(d)
      BY <1>1, <2>6, Moves DEF DiskFails, Run, Cache, Places, Idle, InGuard
    <2>7. CASE Kill \/ PowerLoss
      BY <2>7 DEF Kill, PowerLoss, Idle, InGuard
    <2> QED
      BY <1>2, <2>2, <2>3, <2>4, <2>5, <2>6, <2>7 DEF Next, StepOf
  <1>3. CASE UNCHANGED vars
    BY <1>3 DEF vars, history, KeyInv
  <1> QED
    BY <1>2, <1>3

(***************************************************************************)
(* fence.rs, check and write_seen: through failing disks, killed agents and *)
(* retries, fence_seen is never behind a command that ran, as long as the   *)
(* calls of a resource come one after the other.                            *)
(***************************************************************************)
THEOREM SeenIsNeverBehind == Spec => []SeenCoversSerialRuns
  <1>1. GuardInv => SeenCoversSerialRuns
    BY DEF GuardInv, SerialPart, SeenCoversSerialRuns
  <1> QED
    BY <1>1, GuardHolds, PTL

(***************************************************************************)
(* Of the same histories: once the command of a new holder has run, no      *)
(* command of an earlier holder runs.                                       *)
(***************************************************************************)
THEOREM RunsFollowFences == Spec => []SerialRunsFollowFences
  <1>1. GuardInv => SerialRunsFollowFences
    BY DEF GuardInv, SerialPart, RunsInOrder, SerialRunsFollowFences
  <1> QED
    BY <1>1, GuardHolds, PTL

(***************************************************************************)
(* fence.rs, "sync first, then execute": until a call is cut off, the fence *)
(* of every command that ran survives a power loss.                         *)
(***************************************************************************)
THEOREM RunsSurviveLosses == Spec => []UncutRunsAreDurable
  <1>1. GuardInv => UncutRunsAreDurable
    BY DEF GuardInv, UncutPart, UncutRunsAreDurable
  <1> QED
    BY <1>1, GuardHolds, PTL

(***************************************************************************)
(* agent.rs looks the retry key up before anything else: a call that comes  *)
(* alone never runs while an answer for its key is cached.                  *)
(***************************************************************************)
THEOREM CachedCallsDoNotRun == Spec => CachedNeverRunsAgain
  <1>1. Init => KeyInv
    BY InitGuard DEF KeyInv, Init, Idle, Uncached
  <1>2. KeyInv /\ [Next]_vars =>
          [~crossed' /\ ran' # ran => ran'[Len(ran')].idem \notin cached]_vars
    <2> SUFFICES ASSUME KeyInv, Next, ~crossed', ran' # ran
                 PROVE  ran'[Len(ran')].idem \notin cached
      BY DEF vars, history
    <2>1. PICK c \in Conns : Run(c)
      BY DEF Next, Arrive, Check, CreateTmp, WriteTmp, Rename, SyncDir,
             DiskFails, Cache, Kill, PowerLoss, history
    <2>2. /\ ran \in Seq(Calls) /\ conn[c].call \in Calls
          /\ ran' = Append(ran, conn[c].call)
      BY <2>1 DEF KeyInv, GuardInv, TypeOK, CallsUnderWay, Run, At
    <2>3. ran'[Len(ran')] = conn[c].call
      BY <2>2, RunAppends
    <2> QED
      BY <2>1, <2>3, SerialBefore DEF KeyInv, GuardInv, Uncached, Run, At
  <1> QED
    BY <1>1, <1>2, KeyStep, PTL DEF Spec, CachedNeverRunsAgain

-----------------------------------------------------------------------------
(***************************************************************************)
(* The operation lock keeps two controllers from acting on one instance     *)
(* (C1) as long as the skew it waits after an expiry covers what the holder *)
(* takes to notice, and a task that outlived its lease has the lower fence  *)
(* in any case.  For any controllers, slots and settings, with crashes,     *)
(* failing and slow lease calls, the reaper and the purge.                  *)
(*                                                                         *)
(* Proved where a controller's lock, unlock and reap calls do not overlap   *)
(* (Serialized) and a lease call ends before the TTL (WaitAssumption).      *)
(***************************************************************************)
\* A controller has one operation at a time, in op_locks while its watcher lives.
OneOp ==
  \A o, p \in Ops : o[1] = p[1] /\ ~OpAt(o, "idle") /\ ~OpAt(p, "idle") => o = p

Registered == \A o \in Ops : Believes(o) => o[1] \in opLock

ReapsIdle == \A o \in Ops : o[1] \in reaping => OpAt(o, "idle")

Calling(o) == op[o].pc \in {"asking", "granted", "renewing", "renewed"}

InTime ==
  /\ \A o \in Ops : op[o].since <= now
  /\ \A o \in Ops : Calling(o) => now <= op[o].since + Wait
  /\ \A c \in Controllers : failSince[c] # Nil => failSince[c] <= now

\* A commit whose answer is on its way is still the log's lease: no call takes
\* as long as the lease lasts.
FreshGrant ==
  \A o \in Ops :
    op[o].pc \in {"granted", "renewed"} =>
      HeldBy(o[1]) /\ lease.expire >= op[o].since + TTL

\* A controller that does not hold the lease has a fence below the lease's.
FencesInOrder ==
  \A c \in Controllers :
    fence[c] # Nil =>
      /\ fence[c] <= index
      /\ lease # Nil /\ ~HeldBy(c) => fence[c] < lease.fence

\* Nobody else was granted the lease since the holder read its fence.
Outranks ==
  \A o \in Ops :
    Believes(o) /\ HeldBy(o[1]) =>
      /\ fence[o[1]] # Nil
      /\ \A c \in Controllers :
           c # o[1] /\ fence[c] # Nil => fence[c] < fence[o[1]]

LockInv ==
  /\ LockTypeOK /\ OneOp /\ Registered /\ ReapsIdle
  /\ InTime /\ FreshGrant /\ FencesInOrder /\ Outranks

-----------------------------------------------------------------------------
(* How long a holder may take to notice *)

\* Failed renewals have gone on for less than the TTL at time t.
FailingSince(c, t) == failSince[c] # Nil /\ t <= failSince[c] + TTL

\* The watcher's present round: the one under way, or the next.
Round(o) == IF OpAt(o, "running") THEN now ELSE op[o].since

\* The lease was granted or renewed at most Wait before the round before this
\* one, or renewals fail; the first failure came at most a call later.
Noticing(o) ==
  /\ HeldBy(o[1])
  /\ failSince[o[1]] # Nil =>
       lease.expire + 2 * Wait + 1 >= failSince[o[1]] + TTL
  /\ \/ lease.expire + Wait + 1 >= Round(o) + TTL
     \/ FailingSince(o[1], Round(o) - 1)
  /\ OpAt(o, "running") /\ op[o].since = now =>
       lease.expire + Wait >= now + TTL \/ FailingSince(o[1], now)

\* max_skew_ms covers three calls, three polls and the distance of the clocks.
SkewCoversNotice == Skew >= Drift + 3 * Wait + 3

NoticeInv == SkewCoversNotice => \A o \in Ops : Believes(o) => Noticing(o)

-----------------------------------------------------------------------------
Rec == [pc : Pcs, since : Nat, until : Nat]
Lease == [holder : Controllers, fence : Nat, expire : Nat]

Assumptions == SettingsAssumption /\ NilAssumption /\ Serialized /\ WaitAssumption

\* What the settings are worth to the proofs.
LEMMA SettingFacts ==
  ASSUME Assumptions, setting \in Settings
  PROVE  /\ TTL \in Nat /\ Skew \in Nat /\ Drift \in Nat /\ Wait \in Nat /\ Grace \in Nat
         /\ Drift <= Skew /\ Wait < TTL
         /\ Nil \notin Nat /\ Nil \notin Lease
         /\ Serialized
  BY DEF Assumptions, SettingsAssumption, NilAssumption, WaitAssumption, Lease,
         TTL, Skew, Drift, Wait, Grace

LEMMA InitLock == ASSUME Assumptions, LockInit PROVE LockInv /\ NoticeInv
  <1>1. LockTypeOK
    BY SettingFacts DEF LockInit, LockTypeOK, IdleOp, Pcs
  <1>2. \A o \in Ops : op[o].pc = "idle" /\ op[o].since = 0
    BY DEF LockInit, IdleOp
  <1>3. QED
    BY <1>1, <1>2, SettingFacts
       DEF LockInit, LockInv, OneOp, Registered, ReapsIdle, InTime, FreshGrant, FencesInOrder,
           Outranks, NoticeInv, OpAt, Believes, Calling, Ops

\* A grant or a renewal is the log's newest fence.
LEMMA ExtendFacts ==
  ASSUME Assumptions, LockTypeOK, NEW c \in Controllers, NEW at \in Clock, Extend(c, at)
  PROVE  /\ at \in Nat /\ now <= at /\ at <= now + Drift
         /\ index' \in Nat /\ index' = index + 1
         /\ lease' \in [holder : Controllers, fence : 1..index', expire : Nat]
         /\ lease' # Nil
         /\ lease'.holder = c /\ lease'.fence = index + 1 /\ lease'.expire = at + TTL
  <1>1. /\ now \in Nat /\ index \in Nat /\ at \in Nat /\ now <= at /\ at <= now + Drift
        /\ TTL \in Nat
    BY SettingFacts DEF LockTypeOK, Clock
  <1>2. lease' = [holder |-> c, fence |-> index + 1, expire |-> at + TTL]
        /\ index' = index + 1
    BY DEF Extend
  <1>3. lease' \in [holder : Controllers, fence : 1..index', expire : Nat]
    BY <1>1, <1>2
  <1>4. lease' \in Lease
    BY <1>1, <1>2 DEF Lease
  <1>5. lease' # Nil
    BY <1>4, SettingFacts DEF LockTypeOK
  <1>6. QED
    BY <1>1, <1>2, <1>3, <1>5

\* After a renewal the operation runs on, or is out of op_locks and releases.
LEMMA GoOnOrGiveUpFacts ==
  ASSUME LockTypeOK, NEW o \in Ops, NEW until \in Nat, GoOnOrGiveUp(o, until)
  PROVE  /\ op' \in [Ops -> Rec]
         /\ \A p \in Ops : p # o => op'[p] = op[p]
         /\ \/ /\ op'[o].pc = "running" /\ op'[o].since = op[o].since
               /\ lost'[o[1]] = "no" /\ opLock' = opLock
            \/ /\ op'[o].pc = "releasing" /\ op'[o].since = now
               /\ opLock' = opLock \ {o[1]}
  <1>1. op \in [Ops -> Rec] /\ now \in Nat
    BY DEF LockTypeOK, Rec
  <1>2. CASE lost'[o[1]] = "no"
    BY <1>1, <1>2 DEF GoOnOrGiveUp, Rec, Pcs
  <1>3. CASE lost'[o[1]] # "no"
    BY <1>1, <1>3 DEF GoOnOrGiveUp, EnterRelease, Rec, Pcs
  <1>4. QED
    BY <1>2, <1>3

\* Whether it goes on or gives up, it stays its controller's one operation, and
\* it is in op_locks as long as it goes on.
LEMMA GoOnOrGiveUpKeeps ==
  ASSUME LockInv, NEW o \in Ops, op[o].pc \in {"renewing", "renewed"},
         op' \in [Ops -> Rec], \A p \in Ops : p # o => op'[p] = op[p],
         \/ op'[o].pc = "running" /\ opLock' = opLock
         \/ op'[o].pc = "releasing" /\ opLock' = opLock \ {o[1]},
         reaping' = reaping
  PROVE  OneOp' /\ Registered' /\ ReapsIdle'
  <1>1. \A p \in Ops : OpAt(p, "idle")' <=> OpAt(p, "idle")
    BY DEF OpAt
  <1>2. OneOp'
    BY <1>1 DEF LockInv, OneOp
  <1>3. ReapsIdle'
    BY <1>1 DEF LockInv, ReapsIdle
  <1>4. Believes(o) /\ o[1] \in opLock
    BY DEF LockInv, Registered, Believes
  <1>5. ASSUME NEW p \in Ops, Believes(p)' PROVE p[1] \in opLock'
    <2>1. CASE p = o
      BY <1>4, <1>5, <2>1 DEF Believes
    <2>2. CASE p # o
      <3>1. Believes(p) /\ ~OpAt(p, "idle") /\ ~OpAt(o, "idle")
        BY <1>5, <2>2 DEF Believes, OpAt
      <3>2. p[1] # o[1] /\ p[1] \in opLock
        BY <2>2, <3>1 DEF LockInv, OneOp, Registered
      <3>3. QED
        BY <3>2
    <2>3. QED
      BY <2>1, <2>2
  <1>6. QED
    BY <1>2, <1>3, <1>5 DEF Registered

LEMMA EnterTypes ==
  ASSUME op \in [Ops -> Rec], now \in Nat, NEW o \in Ops, NEW pc \in Pcs, Enter(o, pc)
  PROVE  op' \in [Ops -> Rec]
  <1> DEFINE half == [op EXCEPT ![o].pc = pc]
  <1>1. half \in [Ops -> Rec]
    BY DEF Rec
  <1>2. op' = [half EXCEPT ![o].since = now]
    BY DEF Enter
  <1> HIDE DEF half
  <1>3. QED
    BY <1>1, <1>2 DEF Rec

LEMMA LockStep ==
  ASSUME Assumptions, LockInv, NEW o \in Ops, Lock(o), UNCHANGED setting
  PROVE  LockInv'
  <1> USE SettingFacts DEF LockInv, LockTypeOK, OpAt, HeldBy
  <1>1. LockTypeOK'
    <2>1. op' \in [Ops -> [pc : Pcs, since : Nat, until : Nat]]
      BY EnterTypes DEF Lock, Pcs, Rec
    <2>2. QED
      BY <2>1 DEF Lock, consensus, local
  <1>2. OneOp' /\ Registered' /\ ReapsIdle'
    BY DEF consensus, local, Lock, Quiet, Of, Enter, OneOp, Registered, ReapsIdle, Believes,
           Ops, Pcs
  <1>3. InTime'
    BY DEF consensus, local, Lock, Quiet, Of, Enter, InTime, Calling, Wait
  <1>4. FreshGrant'
    BY DEF consensus, local, Lock, Quiet, Of, Enter, FreshGrant, OneOp, ReapsIdle, InTime,
           Calling, Ops, TTL, Skew, Drift, Wait, Grace
  <1>5. FencesInOrder'
    BY DEF consensus, local, Lock, Quiet, Of, Enter, FencesInOrder, FreshGrant, Ops, Lease
  <1>6. Outranks'
    BY DEF consensus, local, Lock, Quiet, Of, Enter, Outranks, FencesInOrder, FreshGrant,
           OneOp, ReapsIdle, Believes, Ops
  <1>7. QED
    BY <1>1, <1>2, <1>3, <1>4, <1>5, <1>6

LEMMA GrantStep ==
  ASSUME Assumptions, LockInv, NEW o \in Ops, Grant(o), UNCHANGED setting
  PROVE  LockInv'
  <1> USE SettingFacts DEF LockInv, OpAt, HeldBy
  <1> o[1] \in Controllers
    BY DEF Ops
  <1>10. PICK at \in Clock : Extend(o[1], at) /\ GrantAllowed(o[1], at)
    BY DEF Grant
  <1>11. /\ at \in Nat /\ now <= at /\ at <= now + Drift
        /\ index' \in Nat /\ index' = index + 1
        /\ lease' \in [holder : Controllers, fence : 1..index', expire : Nat]
        /\ lease' # Nil
        /\ lease'.holder = o[1] /\ lease'.fence = index + 1 /\ lease'.expire = at + TTL
    BY <1>10, ExtendFacts
  <1> USE <1>10, <1>11 DEF LockTypeOK
  <1>1. LockTypeOK'
    BY DEF consensus, local, Grant, OpGoto, GrantAllowed, Pcs
  <1>2. OneOp' /\ Registered' /\ ReapsIdle'
    BY DEF consensus, local, Grant, OpGoto, GrantAllowed, OneOp, Registered, ReapsIdle,
           Believes, Ops, Pcs
  <1>3. InTime'
    BY DEF consensus, local, Grant, OpGoto, GrantAllowed, InTime, Calling, Wait
  <1>4. FreshGrant'
    BY DEF consensus, local, Grant, OpGoto, GrantAllowed, FreshGrant, OneOp, ReapsIdle,
           InTime, Calling, Ops, TTL, Skew, Drift, Wait, Grace
  <1>5. FencesInOrder'
    BY DEF consensus, local, Grant, OpGoto, GrantAllowed, FencesInOrder, FreshGrant, Ops,
           Lease
  <1>6. Outranks'
    <2>1. \A p \in Ops : p[1] = o[1] /\ p # o => OpAt(p, "idle")
      BY DEF Grant, OneOp
    <2>2. \A p \in Ops : Believes(p)' => p # o /\ Believes(p)
      BY DEF Grant, OpGoto, Believes
    <2>3. \A p \in Ops : Believes(p)' => ~HeldBy(p[1])'
      BY <2>1, <2>2 DEF Believes
    <2>4. QED
      BY <2>3 DEF Outranks
  <1>7. QED
    BY <1>1, <1>2, <1>3, <1>4, <1>5, <1>6

LEMMA LockFailsStep ==
  ASSUME Assumptions, LockInv, NEW o \in Ops, LockFails(o), UNCHANGED setting
  PROVE  LockInv'
  <1> USE SettingFacts DEF LockInv, LockTypeOK, OpAt, HeldBy
  <1>1. LockTypeOK'
    BY DEF consensus, local, LockFails, IdleOp, Pcs
  <1>2. OneOp' /\ Registered' /\ ReapsIdle'
    BY DEF consensus, local, LockFails, IdleOp, OneOp, Registered, ReapsIdle, Believes, Ops,
           Pcs
  <1>3. InTime'
    BY DEF consensus, local, LockFails, IdleOp, InTime, Calling, Wait
  <1>4. FreshGrant'
    BY DEF consensus, local, LockFails, IdleOp, FreshGrant, OneOp, ReapsIdle, InTime, Calling,
           Ops, TTL, Skew, Drift, Wait, Grace
  <1>5. FencesInOrder'
    BY DEF consensus, local, LockFails, IdleOp, FencesInOrder, FreshGrant, Ops, Lease
  <1>6. Outranks'
    BY DEF consensus, local, LockFails, IdleOp, Outranks, FencesInOrder, FreshGrant, OneOp,
           ReapsIdle, Believes, Ops
  <1>7. QED
    BY <1>1, <1>2, <1>3, <1>4, <1>5, <1>6

LEMMA LockedStep ==
  ASSUME Assumptions, LockInv, NEW o \in Ops, Locked(o), UNCHANGED setting
  PROVE  LockInv'
  <1> USE SettingFacts DEF LockInv, LockTypeOK, OpAt, HeldBy
  <1>1. LockTypeOK'
    <2>1. lease.fence \in Nat /\ lease.expire \in Nat
      BY DEF Locked
    <2>2. op' \in [Ops -> [pc : Pcs, since : Nat, until : Nat]]
      BY <2>1 DEF Locked, Pcs
    <2>3. /\ fence' \in [Controllers -> Nat \cup {Nil}]
          /\ lost' \in [Controllers -> {"no", "refused", "failing"}]
      BY <2>1 DEF Locked
    <2>4. opLock' \subseteq Controllers /\ task' \subseteq Ops
      BY DEF Locked, Ops
    <2>5. QED
      BY <2>2, <2>3, <2>4 DEF Locked, consensus
  <1>2. OneOp' /\ Registered' /\ ReapsIdle'
    BY DEF consensus, local, Locked, OneOp, Registered, ReapsIdle, Believes, Ops, Pcs
  <1>3. InTime'
    BY DEF consensus, local, Locked, InTime, Calling, Wait
  <1>4. FreshGrant'
    BY DEF consensus, local, Locked, FreshGrant, OneOp, ReapsIdle, InTime, Calling, Ops,
           TTL, Skew, Drift, Wait, Grace
  <1>5. FencesInOrder'
    BY DEF consensus, local, Locked, FencesInOrder, FreshGrant, Ops, Lease
  <1>6. Outranks'
    BY DEF consensus, local, Locked, Outranks, FencesInOrder, FreshGrant, OneOp, ReapsIdle,
           Believes, Ops
  <1>7. QED
    BY <1>1, <1>2, <1>3, <1>4, <1>5, <1>6

LEMMA TaskEndsStep ==
  ASSUME Assumptions, LockInv, NEW o \in Ops, TaskEnds(o), UNCHANGED setting
  PROVE  LockInv'
  <1> USE SettingFacts DEF LockInv, LockTypeOK, OpAt, HeldBy
  <1>1. LockTypeOK'
    BY DEF consensus, local, TaskEnds, Pcs
  <1>2. OneOp' /\ Registered' /\ ReapsIdle'
    BY DEF consensus, local, TaskEnds, OneOp, Registered, ReapsIdle, Believes, Ops, Pcs
  <1>3. InTime'
    BY DEF consensus, local, TaskEnds, InTime, Calling, Wait
  <1>4. FreshGrant'
    BY DEF consensus, local, TaskEnds, FreshGrant, OneOp, ReapsIdle, InTime, Calling, Ops,
           TTL, Skew, Drift, Wait, Grace
  <1>5. FencesInOrder'
    BY DEF consensus, local, TaskEnds, FencesInOrder, FreshGrant, Ops, Lease
  <1>6. Outranks'
    BY DEF consensus, local, TaskEnds, Outranks, FencesInOrder, FreshGrant, OneOp,
           ReapsIdle, Believes, Ops
  <1>7. QED
    BY <1>1, <1>2, <1>3, <1>4, <1>5, <1>6

LEMMA StartRenewStep ==
  ASSUME Assumptions, LockInv, NEW o \in Ops, StartRenew(o), UNCHANGED setting
  PROVE  LockInv'
  <1> USE SettingFacts DEF LockInv, LockTypeOK, OpAt, HeldBy
  <1>1. LockTypeOK'
    <2>1. op' \in [Ops -> [pc : Pcs, since : Nat, until : Nat]]
      BY EnterTypes DEF StartRenew, Pcs, Rec
    <2>2. QED
      BY <2>1 DEF StartRenew, consensus, local
  <1>2. OneOp' /\ Registered' /\ ReapsIdle'
    BY DEF consensus, local, StartRenew, Enter, OneOp, Registered, ReapsIdle, Believes, Ops,
           Pcs
  <1>3. InTime'
    BY DEF consensus, local, StartRenew, Enter, InTime, Calling, Wait
  <1>4. FreshGrant'
    BY DEF consensus, local, StartRenew, Enter, FreshGrant, OneOp, ReapsIdle, InTime,
           Calling, Ops, TTL, Skew, Drift, Wait, Grace
  <1>5. FencesInOrder'
    BY DEF consensus, local, StartRenew, Enter, FencesInOrder, FreshGrant, Ops, Lease
  <1>6. Outranks'
    BY DEF consensus, local, StartRenew, Enter, Outranks, FencesInOrder, FreshGrant, OneOp,
           ReapsIdle, Believes, Ops
  <1>7. QED
    BY <1>1, <1>2, <1>3, <1>4, <1>5, <1>6

LEMMA RenewCommitsStep ==
  ASSUME Assumptions, LockInv, NEW o \in Ops, RenewCommits(o), UNCHANGED setting
  PROVE  LockInv'
  <1> USE SettingFacts DEF LockInv, OpAt, HeldBy
  <1> o[1] \in Controllers
    BY DEF Ops
  <1>10. PICK at \in Clock : Extend(o[1], at)
    BY DEF RenewCommits
  <1>11. /\ at \in Nat /\ now <= at /\ at <= now + Drift
        /\ index' \in Nat /\ index' = index + 1
        /\ lease' \in [holder : Controllers, fence : 1..index', expire : Nat]
        /\ lease' # Nil
        /\ lease'.holder = o[1] /\ lease'.fence = index + 1 /\ lease'.expire = at + TTL
    BY <1>10, ExtendFacts
  <1> USE <1>10, <1>11 DEF LockTypeOK
  <1>1. LockTypeOK'
    BY DEF consensus, local, RenewCommits, OpGoto, Pcs
  <1>2. OneOp' /\ Registered' /\ ReapsIdle'
    BY DEF consensus, local, RenewCommits, OpGoto, OneOp, Registered, ReapsIdle, Believes,
           Ops, Pcs
  <1>3. InTime'
    BY DEF consensus, local, RenewCommits, OpGoto, InTime, Calling, Wait
  <1>4. FreshGrant'
    BY DEF consensus, local, RenewCommits, OpGoto, FreshGrant, OneOp, ReapsIdle, InTime,
           Calling, Ops, TTL, Skew, Drift, Wait, Grace
  <1>5. FencesInOrder'
    BY DEF consensus, local, RenewCommits, OpGoto, FencesInOrder, FreshGrant, Ops, Lease
  <1>6. Outranks'
    BY DEF consensus, local, RenewCommits, OpGoto, Outranks, FencesInOrder, FreshGrant, OneOp,
           ReapsIdle, Believes, Ops
  <1>7. QED
    BY <1>1, <1>2, <1>3, <1>4, <1>5, <1>6

LEMMA RenewReturnsStep ==
  ASSUME Assumptions, LockInv, NEW o \in Ops, RenewReturns(o), UNCHANGED setting
  PROVE  LockInv'
  <1> USE SettingFacts DEF LockInv, OpAt, HeldBy
  <1> o[1] \in Controllers
    BY DEF Ops
  <1>0. lease.expire \in Nat /\ GoOnOrGiveUp(o, lease.expire)
    BY DEF RenewReturns, LockTypeOK
  <1>10. op' \in [Ops -> Rec] /\ (\A p \in Ops : p # o => op'[p] = op[p])
    BY LockInv, <1>0, GoOnOrGiveUpFacts
  <1>11. \/ /\ op'[o].pc = "running" /\ op'[o].since = op[o].since
           /\ lost'[o[1]] = "no" /\ opLock' = opLock
        \/ /\ op'[o].pc = "releasing" /\ op'[o].since = now
           /\ opLock' = opLock \ {o[1]}
    BY LockInv, <1>0, GoOnOrGiveUpFacts
  <1> USE <1>10, <1>11 DEF LockTypeOK
  <1>1. LockTypeOK'
    BY DEF consensus, local, RenewReturns, Rec
  <1>2. OneOp' /\ Registered' /\ ReapsIdle'
    BY LockInv, <1>10, <1>11, GoOnOrGiveUpKeeps DEF RenewReturns
  <1>3. InTime'
    BY DEF consensus, local, RenewReturns, InTime, Calling, Wait
  <1>4. FreshGrant'
    BY DEF consensus, local, RenewReturns, FreshGrant, OneOp, ReapsIdle, InTime, Calling,
           Ops, TTL, Skew, Drift, Wait, Grace
  <1>5. FencesInOrder'
    BY DEF consensus, local, RenewReturns, FencesInOrder, FreshGrant, Ops, Lease
  <1>6. Outranks'
    BY DEF consensus, local, RenewReturns, Outranks, FencesInOrder, FreshGrant, OneOp,
           ReapsIdle, Believes, Ops
  <1>7. QED
    BY <1>1, <1>2, <1>3, <1>4, <1>5, <1>6

LEMMA RenewRefusedStep ==
  ASSUME Assumptions, LockInv, NEW o \in Ops, RenewRefused(o), UNCHANGED setting
  PROVE  LockInv'
  <1> USE SettingFacts DEF LockInv, OpAt, HeldBy
  <1> o[1] \in Controllers
    BY DEF Ops
  <1>0. op[o].until \in Nat /\ GoOnOrGiveUp(o, op[o].until)
    BY DEF RenewRefused, LockTypeOK
  <1>10. op' \in [Ops -> Rec] /\ (\A p \in Ops : p # o => op'[p] = op[p])
    BY LockInv, <1>0, GoOnOrGiveUpFacts
  <1>11. \/ /\ op'[o].pc = "running" /\ op'[o].since = op[o].since
           /\ lost'[o[1]] = "no" /\ opLock' = opLock
        \/ /\ op'[o].pc = "releasing" /\ op'[o].since = now
           /\ opLock' = opLock \ {o[1]}
    BY LockInv, <1>0, GoOnOrGiveUpFacts
  <1> USE <1>10, <1>11 DEF LockTypeOK
  <1>1. LockTypeOK'
    BY DEF consensus, local, RenewRefused, Rec
  <1>2. OneOp' /\ Registered' /\ ReapsIdle'
    BY LockInv, <1>10, <1>11, GoOnOrGiveUpKeeps DEF RenewRefused
  <1>3. InTime'
    BY DEF consensus, local, RenewRefused, InTime, Calling, Wait
  <1>4. FreshGrant'
    BY DEF consensus, local, RenewRefused, FreshGrant, OneOp, ReapsIdle, InTime, Calling,
           Ops, TTL, Skew, Drift, Wait, Grace
  <1>5. FencesInOrder'
    BY DEF consensus, local, RenewRefused, FencesInOrder, FreshGrant, Ops, Lease
  <1>6. Outranks'
    BY DEF consensus, local, RenewRefused, Outranks, FencesInOrder, FreshGrant, OneOp,
           ReapsIdle, Believes, Ops
  <1>7. QED
    BY <1>1, <1>2, <1>3, <1>4, <1>5, <1>6

LEMMA RenewFailsStep ==
  ASSUME Assumptions, LockInv, NEW o \in Ops, RenewFails(o), UNCHANGED setting
  PROVE  LockInv'
  <1> USE SettingFacts DEF LockInv, OpAt, HeldBy
  <1> o[1] \in Controllers
    BY DEF Ops
  <1>0. op[o].until \in Nat /\ GoOnOrGiveUp(o, op[o].until)
    BY DEF RenewFails, LockTypeOK
  <1>10. op' \in [Ops -> Rec] /\ (\A p \in Ops : p # o => op'[p] = op[p])
    BY LockInv, <1>0, GoOnOrGiveUpFacts
  <1>11. \/ /\ op'[o].pc = "running" /\ op'[o].since = op[o].since
           /\ lost'[o[1]] = "no" /\ opLock' = opLock
        \/ /\ op'[o].pc = "releasing" /\ op'[o].since = now
           /\ opLock' = opLock \ {o[1]}
    BY LockInv, <1>0, GoOnOrGiveUpFacts
  <1> USE <1>10, <1>11 DEF LockTypeOK
  <1>1. LockTypeOK'
    BY DEF consensus, local, RenewFails, FailedTooLong, Rec
  <1>2. OneOp' /\ Registered' /\ ReapsIdle'
    BY LockInv, <1>10, <1>11, GoOnOrGiveUpKeeps DEF RenewFails
  <1>3. InTime'
    BY DEF consensus, local, RenewFails, FailedTooLong, InTime, Calling, Wait
  <1>4. FreshGrant'
    BY DEF consensus, local, RenewFails, FailedTooLong, FreshGrant, OneOp, ReapsIdle,
           InTime, Calling, Ops, TTL, Skew, Drift, Wait, Grace
  <1>5. FencesInOrder'
    BY DEF consensus, local, RenewFails, FailedTooLong, FencesInOrder, FreshGrant, Ops,
           Lease
  <1>6. Outranks'
    BY DEF consensus, local, RenewFails, FailedTooLong, Outranks, FencesInOrder, FreshGrant,
           OneOp, ReapsIdle, Believes, Ops
  <1>7. QED
    BY <1>1, <1>2, <1>3, <1>4, <1>5, <1>6

LEMMA UnlockStep ==
  ASSUME Assumptions, LockInv, NEW o \in Ops, Unlock(o), UNCHANGED setting
  PROVE  LockInv'
  <1> USE SettingFacts DEF LockInv, LockTypeOK, OpAt, HeldBy
  <1>1. LockTypeOK'
    BY DEF consensus, local, Unlock, EnterRelease, Pcs
  <1>2. OneOp' /\ Registered' /\ ReapsIdle'
    BY DEF consensus, local, Unlock, EnterRelease, OneOp, Registered, ReapsIdle, Believes,
           Ops, Pcs
  <1>3. InTime'
    BY DEF consensus, local, Unlock, EnterRelease, InTime, Calling, Wait
  <1>4. FreshGrant'
    BY DEF consensus, local, Unlock, EnterRelease, FreshGrant, OneOp, ReapsIdle, InTime,
           Calling, Ops, TTL, Skew, Drift, Wait, Grace
  <1>5. FencesInOrder'
    BY DEF consensus, local, Unlock, EnterRelease, FencesInOrder, FreshGrant, Ops, Lease
  <1>6. Outranks'
    BY DEF consensus, local, Unlock, EnterRelease, Outranks, FencesInOrder, FreshGrant,
           OneOp, ReapsIdle, Believes, Ops
  <1>7. QED
    BY <1>1, <1>2, <1>3, <1>4, <1>5, <1>6

LEMMA ReleaseStep ==
  ASSUME Assumptions, LockInv, NEW o \in Ops, Release(o), UNCHANGED setting
  PROVE  LockInv'
  <1> USE SettingFacts DEF LockInv, LockTypeOK, OpAt, HeldBy
  <1>1. LockTypeOK'
    BY DEF consensus, local, Release, OpGoto, ReleaseHeld, Pcs
  <1>2. OneOp' /\ Registered' /\ ReapsIdle'
    BY DEF consensus, local, Release, OpGoto, ReleaseHeld, OneOp, Registered, ReapsIdle,
           Believes, Ops, Pcs
  <1>3. InTime'
    BY DEF consensus, local, Release, OpGoto, ReleaseHeld, InTime, Calling, Wait
  <1>4. FreshGrant'
    BY DEF consensus, local, Release, OpGoto, ReleaseHeld, FreshGrant, OneOp, ReapsIdle,
           InTime, Calling, Ops, TTL, Skew, Drift, Wait, Grace
  <1>5. FencesInOrder'
    BY DEF consensus, local, Release, OpGoto, ReleaseHeld, FencesInOrder, FreshGrant, Ops,
           Lease
  <1>6. Outranks'
    BY DEF consensus, local, Release, OpGoto, ReleaseHeld, Outranks, FencesInOrder,
           FreshGrant, OneOp, ReapsIdle, Believes, Ops
  <1>7. QED
    BY <1>1, <1>2, <1>3, <1>4, <1>5, <1>6

LEMMA ReleaseFailsStep ==
  ASSUME Assumptions, LockInv, NEW o \in Ops, ReleaseFails(o), UNCHANGED setting
  PROVE  LockInv'
  <1> USE SettingFacts DEF LockInv, LockTypeOK, OpAt, HeldBy
  <1>1. LockTypeOK'
    BY DEF consensus, local, ReleaseFails, OpGoto, Pcs
  <1>2. OneOp' /\ Registered' /\ ReapsIdle'
    BY DEF consensus, local, ReleaseFails, OpGoto, OneOp, Registered, ReapsIdle, Believes,
           Ops, Pcs
  <1>3. InTime'
    BY DEF consensus, local, ReleaseFails, OpGoto, InTime, Calling, Wait
  <1>4. FreshGrant'
    BY DEF consensus, local, ReleaseFails, OpGoto, FreshGrant, OneOp, ReapsIdle, InTime,
           Calling, Ops, TTL, Skew, Drift, Wait, Grace
  <1>5. FencesInOrder'
    BY DEF consensus, local, ReleaseFails, OpGoto, FencesInOrder, FreshGrant, Ops, Lease
  <1>6. Outranks'
    BY DEF consensus, local, ReleaseFails, OpGoto, Outranks, FencesInOrder, FreshGrant, OneOp,
           ReapsIdle, Believes, Ops
  <1>7. QED
    BY <1>1, <1>2, <1>3, <1>4, <1>5, <1>6

LEMMA UnlockedStep ==
  ASSUME Assumptions, LockInv, NEW o \in Ops, Unlocked(o), UNCHANGED setting
  PROVE  LockInv'
  <1> USE SettingFacts DEF LockInv, LockTypeOK, OpAt, HeldBy
  <1>1. LockTypeOK'
    BY DEF consensus, local, Unlocked, IdleOp, Pcs
  <1>2. OneOp' /\ Registered' /\ ReapsIdle'
    BY DEF consensus, local, Unlocked, IdleOp, OneOp, Registered, ReapsIdle, Believes, Ops,
           Pcs
  <1>3. InTime'
    BY DEF consensus, local, Unlocked, IdleOp, InTime, Calling, Wait
  <1>4. FreshGrant'
    BY DEF consensus, local, Unlocked, IdleOp, FreshGrant, OneOp, ReapsIdle, InTime, Calling,
           Ops, TTL, Skew, Drift, Wait, Grace
  <1>5. FencesInOrder'
    BY DEF consensus, local, Unlocked, IdleOp, FencesInOrder, FreshGrant, Ops, Lease
  <1>6. Outranks'
    BY DEF consensus, local, Unlocked, IdleOp, Outranks, FencesInOrder, FreshGrant, OneOp,
           ReapsIdle, Believes, Ops
  <1>7. QED
    BY <1>1, <1>2, <1>3, <1>4, <1>5, <1>6

LEMMA ReapScanStep ==
  ASSUME Assumptions, LockInv, NEW c \in Controllers, ReapScan(c), UNCHANGED setting
  PROVE  LockInv'
  <1> USE SettingFacts DEF LockInv, LockTypeOK, OpAt, HeldBy
  <1>1. LockTypeOK'
    BY DEF consensus, local, ReapScan, Quiet, Of, Clock, Pcs
  <1>2. OneOp' /\ Registered' /\ ReapsIdle'
    BY DEF consensus, local, ReapScan, Quiet, Of, Clock, OneOp, Registered, ReapsIdle,
           Believes, Ops, Pcs
  <1>3. InTime'
    BY DEF consensus, local, ReapScan, Quiet, Of, Clock, InTime, Calling, Wait
  <1>4. FreshGrant'
    BY DEF consensus, local, ReapScan, Quiet, Of, Clock, FreshGrant, OneOp, ReapsIdle,
           InTime, Calling, Ops, TTL, Skew, Drift, Wait, Grace
  <1>5. FencesInOrder'
    BY DEF consensus, local, ReapScan, Quiet, Of, Clock, FencesInOrder, FreshGrant, Ops,
           Lease
  <1>6. Outranks'
    BY DEF consensus, local, ReapScan, Quiet, Of, Clock, Outranks, FencesInOrder,
           FreshGrant, OneOp, ReapsIdle, Believes, Ops
  <1>7. QED
    BY <1>1, <1>2, <1>3, <1>4, <1>5, <1>6

LEMMA ReapReleasesStep ==
  ASSUME Assumptions, LockInv, NEW c \in Controllers, ReapReleases(c), UNCHANGED setting
  PROVE  LockInv'
  <1> USE SettingFacts DEF LockInv, LockTypeOK, OpAt, HeldBy
  <1>1. LockTypeOK'
    BY DEF consensus, local, ReapReleases, ReleaseHeld, Pcs
  <1>2. OneOp' /\ Registered' /\ ReapsIdle'
    BY DEF consensus, local, ReapReleases, ReleaseHeld, OneOp, Registered, ReapsIdle,
           Believes, Ops, Pcs
  <1>3. InTime'
    BY DEF consensus, local, ReapReleases, ReleaseHeld, InTime, Calling, Wait
  <1>4. FreshGrant'
    BY DEF consensus, local, ReapReleases, ReleaseHeld, FreshGrant, OneOp, ReapsIdle,
           InTime, Calling, Ops, TTL, Skew, Drift, Wait, Grace
  <1>5. FencesInOrder'
    BY DEF consensus, local, ReapReleases, ReleaseHeld, FencesInOrder, FreshGrant, Ops,
           Lease
  <1>6. Outranks'
    BY DEF consensus, local, ReapReleases, ReleaseHeld, Outranks, FencesInOrder, FreshGrant,
           OneOp, ReapsIdle, Believes, Ops
  <1>7. QED
    BY <1>1, <1>2, <1>3, <1>4, <1>5, <1>6

LEMMA ReapFailsStep ==
  ASSUME Assumptions, LockInv, NEW c \in Controllers, ReapFails(c), UNCHANGED setting
  PROVE  LockInv'
  <1> USE SettingFacts DEF LockInv, LockTypeOK, OpAt, HeldBy
  <1>1. LockTypeOK'
    BY DEF consensus, local, ReapFails, Pcs
  <1>2. OneOp' /\ Registered' /\ ReapsIdle'
    BY DEF consensus, local, ReapFails, OneOp, Registered, ReapsIdle, Believes, Ops, Pcs
  <1>3. InTime'
    BY DEF consensus, local, ReapFails, InTime, Calling, Wait
  <1>4. FreshGrant'
    BY DEF consensus, local, ReapFails, FreshGrant, OneOp, ReapsIdle, InTime, Calling, Ops,
           TTL, Skew, Drift, Wait, Grace
  <1>5. FencesInOrder'
    BY DEF consensus, local, ReapFails, FencesInOrder, FreshGrant, Ops, Lease
  <1>6. Outranks'
    BY DEF consensus, local, ReapFails, Outranks, FencesInOrder, FreshGrant, OneOp,
           ReapsIdle, Believes, Ops
  <1>7. QED
    BY <1>1, <1>2, <1>3, <1>4, <1>5, <1>6

LEMMA CrashStep ==
  ASSUME Assumptions, LockInv, NEW c \in Controllers, Crash(c), UNCHANGED setting
  PROVE  LockInv'
  <1> USE SettingFacts DEF LockInv, LockTypeOK, OpAt, HeldBy
  <1>1. LockTypeOK'
    BY DEF consensus, local, Crash, Of, IdleOp, Pcs
  <1>2. OneOp' /\ Registered' /\ ReapsIdle'
    BY DEF consensus, local, Crash, Of, IdleOp, OneOp, Registered, ReapsIdle, Believes, Ops,
           Pcs
  <1>3. InTime'
    BY DEF consensus, local, Crash, Of, IdleOp, InTime, Calling, Wait
  <1>4. FreshGrant'
    BY DEF consensus, local, Crash, Of, IdleOp, FreshGrant, OneOp, ReapsIdle, InTime, Calling,
           Ops, TTL, Skew, Drift, Wait, Grace
  <1>5. FencesInOrder'
    BY DEF consensus, local, Crash, Of, IdleOp, FencesInOrder, FreshGrant, Ops, Lease
  <1>6. Outranks'
    BY DEF consensus, local, Crash, Of, IdleOp, Outranks, FencesInOrder, FreshGrant, OneOp,
           ReapsIdle, Believes, Ops
  <1>7. QED
    BY <1>1, <1>2, <1>3, <1>4, <1>5, <1>6

LEMMA PurgeStep ==
  ASSUME Assumptions, LockInv, Purge, UNCHANGED setting
  PROVE  LockInv'
  <1> USE SettingFacts DEF LockInv, LockTypeOK, OpAt, HeldBy
  <1>1. LockTypeOK'
    BY DEF consensus, local, Purge, Purgeable, Clock, Pcs
  <1>2. OneOp' /\ Registered' /\ ReapsIdle'
    BY DEF consensus, local, Purge, Purgeable, Clock, OneOp, Registered, ReapsIdle,
           Believes, Ops, Pcs
  <1>3. InTime'
    BY DEF consensus, local, Purge, Purgeable, Clock, InTime, Calling, Wait
  <1>4. FreshGrant'
    BY DEF consensus, local, Purge, Purgeable, Clock, FreshGrant, OneOp, ReapsIdle, InTime,
           Calling, Ops, TTL, Skew, Drift, Wait, Grace
  <1>5. FencesInOrder'
    BY DEF consensus, local, Purge, Purgeable, Clock, FencesInOrder, FreshGrant, Ops, Lease
  <1>6. Outranks'
    BY DEF consensus, local, Purge, Purgeable, Clock, Outranks, FencesInOrder, FreshGrant,
           OneOp, ReapsIdle, Believes, Ops
  <1>7. QED
    BY <1>1, <1>2, <1>3, <1>4, <1>5, <1>6

LEMMA TickStep ==
  ASSUME Assumptions, LockInv, Tick, UNCHANGED setting
  PROVE  LockInv'
  <1> USE SettingFacts DEF LockInv, LockTypeOK, OpAt, HeldBy
  <1>1. LockTypeOK'
    BY DEF consensus, local, Tick, OnTime, Pcs
  <1>2. OneOp' /\ Registered' /\ ReapsIdle'
    BY DEF consensus, local, Tick, OnTime, OneOp, Registered, ReapsIdle, Believes, Ops, Pcs
  <1>3. InTime'
    BY DEF consensus, local, Tick, OnTime, InTime, Calling, Wait
  <1>4. FreshGrant'
    BY DEF consensus, local, Tick, OnTime, FreshGrant, OneOp, ReapsIdle, InTime, Calling,
           Ops, TTL, Skew, Drift, Wait, Grace
  <1>5. FencesInOrder'
    BY DEF consensus, local, Tick, OnTime, FencesInOrder, FreshGrant, Ops, Lease
  <1>6. Outranks'
    BY DEF consensus, local, Tick, OnTime, Outranks, FencesInOrder, FreshGrant, OneOp,
           ReapsIdle, Believes, Ops
  <1>7. QED
    BY <1>1, <1>2, <1>3, <1>4, <1>5, <1>6

LEMMA LockInvStep ==
  ASSUME Assumptions, LockInv, [LockNext]_lockVars
  PROVE  LockInv'
  <1>1. CASE UNCHANGED lockVars
    BY <1>1
       DEF lockVars, consensus, local, LockInv, LockTypeOK, OneOp, Registered, ReapsIdle, InTime,
         Calling, FreshGrant, FencesInOrder, Outranks, OpAt, Believes, HeldBy, Wait, TTL
  <1>2. ASSUME NEW o \in Ops, UNCHANGED setting,
               \/ Lock(o) \/ Grant(o) \/ LockFails(o) \/ Locked(o)
               \/ TaskEnds(o) \/ StartRenew(o) \/ RenewCommits(o)
               \/ RenewReturns(o) \/ RenewRefused(o) \/ RenewFails(o)
               \/ Unlock(o) \/ Release(o) \/ ReleaseFails(o) \/ Unlocked(o)
        PROVE  LockInv'
    BY <1>2, LockStep, GrantStep, LockFailsStep, LockedStep, TaskEndsStep, StartRenewStep,
         RenewCommitsStep, RenewReturnsStep, RenewRefusedStep, RenewFailsStep, UnlockStep,
         ReleaseStep, ReleaseFailsStep, UnlockedStep
  <1>3. ASSUME NEW c \in Controllers, UNCHANGED setting,
               ReapScan(c) \/ ReapReleases(c) \/ ReapFails(c) \/ Crash(c)
        PROVE  LockInv'
    BY <1>3, ReapScanStep, ReapReleasesStep, ReapFailsStep, CrashStep
  <1>4. CASE Purge /\ UNCHANGED setting
    BY <1>4, PurgeStep
  <1>5. CASE Tick /\ UNCHANGED setting
    BY <1>5, TickStep
  <1>6. QED
    BY <1>1, <1>2, <1>3, <1>4, <1>5 DEF LockNext, Step

-----------------------------------------------------------------------------
\* By the time the lease can be granted to another or purged, its holder knows.
LEMMA HolderNoticesFirst ==
  ASSUME Assumptions, LockInv, NoticeInv, SkewCoversNotice, NEW o \in Ops, Believes(o)
  PROVE  /\ Noticing(o) /\ HeldBy(o[1])
         /\ lease.expire \in Nat
         /\ now + Drift < lease.expire + Skew
  <1>1. Noticing(o)
    BY DEF NoticeInv
  <1>2. /\ now \in Nat /\ op[o].since \in Nat /\ lease.expire \in Nat
        /\ HeldBy(o[1]) /\ failSince[o[1]] \in Nat \cup {Nil}
    BY <1>1 DEF LockInv, LockTypeOK, Noticing, HeldBy, Ops
  <1>3. now <= Round(o) + Wait
    BY <1>2, SettingFacts DEF LockInv, LockTypeOK, InTime, Calling, Round, Believes, OpAt
  <1>4. Round(o) <= lease.expire + 2 * Wait + 2
    BY <1>1, <1>2, SettingFacts DEF Noticing, FailingSince, Round, LockInv, LockTypeOK
  <1>5. QED
    BY <1>1, <1>2, <1>3, <1>4, SettingFacts DEF SkewCoversNotice, Round, LockInv, LockTypeOK

LEMMA NoticeStep ==
  ASSUME Assumptions, LockInv, LockInv', NoticeInv, [LockNext]_lockVars
  PROVE  NoticeInv'
  <1> SUFFICES ASSUME SkewCoversNotice', NEW o \in Ops, Believes(o)'
               PROVE  Noticing(o)'
    BY DEF NoticeInv
  <1>0. /\ SkewCoversNotice
        /\ setting' = setting
        /\ o[1] \in Controllers
    BY DEF SkewCoversNotice, Skew, Drift, Wait, LockNext, lockVars, Ops
  <1>1. Believes(o) => Noticing(o) /\ HeldBy(o[1]) /\ now + Drift < lease.expire + Skew
    BY <1>0, HolderNoticesFirst
  <1> USE SettingFacts DEF LockInv, LockTypeOK, OpAt, HeldBy, Noticing, FailingSince, Round
  <1>2. ASSUME NEW p \in Ops, Lock(p)
        PROVE  Noticing(o)'
    BY <1>0, <1>1, <1>2 DEF Lock, Enter, Believes, consensus, local, TTL, Wait
  <1>3. ASSUME NEW p \in Ops, Grant(p)
        PROVE  Noticing(o)'
    BY <1>0, <1>1, <1>3
       DEF Grant, GrantAllowed, OpGoto, Clock, Believes, OneOp, local, TTL, Wait, Skew, Drift
  <1>4. ASSUME NEW p \in Ops, LockFails(p)
        PROVE  Noticing(o)'
    BY <1>0, <1>1, <1>4 DEF LockFails, IdleOp, Believes, consensus, local, TTL, Wait
  <1>5. ASSUME NEW p \in Ops, Locked(p)
        PROVE  Noticing(o)'
    BY <1>0, <1>1, <1>5
       DEF Locked, Believes, FreshGrant, InTime, Calling, consensus, local, TTL, Wait
  <1>6. ASSUME NEW p \in Ops, TaskEnds(p)
        PROVE  Noticing(o)'
    BY <1>0, <1>1, <1>6 DEF TaskEnds, Believes, consensus, local, TTL, Wait
  <1>7. ASSUME NEW p \in Ops, StartRenew(p)
        PROVE  Noticing(o)'
    BY <1>0, <1>1, <1>7 DEF StartRenew, Enter, Believes, consensus, local, TTL, Wait
  <1>8. ASSUME NEW p \in Ops, RenewCommits(p)
        PROVE  Noticing(o)'
    BY <1>0, <1>1, <1>8, ExtendFacts
       DEF RenewCommits, OpGoto, Believes, OneOp, InTime, local, TTL, Wait
  <1>9. ASSUME NEW p \in Ops, RenewReturns(p)
        PROVE  Noticing(o)'
    <2>1. GoOnOrGiveUp(p, lease.expire) /\ lease.expire \in Nat
      BY <1>9 DEF RenewReturns
    <2>2. /\ \A q \in Ops : q # p => op'[q] = op[q]
          /\ Believes(p)' => op'[p].pc = "running" /\ op'[p].since = op[p].since
      BY <2>1, GoOnOrGiveUpFacts DEF Believes
    <2>3. p[1] = o[1] /\ Believes(o)' => p = o
      BY <1>9, <2>2 DEF RenewReturns, OneOp, Believes
    <2>4. QED
      BY <1>0, <1>1, <1>9, <2>2, <2>3
        
            DEF RenewReturns, FreshGrant, InTime, Calling, Believes, consensus, local, TTL,
                Wait
  <1>10. ASSUME NEW p \in Ops, RenewRefused(p)
         PROVE  Noticing(o)'
    <2>1. GoOnOrGiveUp(p, op[p].until) /\ op[p].until \in Nat
      BY <1>10 DEF RenewRefused
    <2>2. /\ \A q \in Ops : q # p => op'[q] = op[q]
          /\ ~Believes(p)'
      BY <1>10, <2>1, GoOnOrGiveUpFacts DEF RenewRefused, Believes, Ops
    <2>3. QED
      BY <1>0, <1>1, <1>10, <2>2 DEF RenewRefused, Believes, consensus, local, TTL, Wait
  <1>11. ASSUME NEW p \in Ops, RenewFails(p)
         PROVE  Noticing(o)'
    <2>1. GoOnOrGiveUp(p, op[p].until) /\ op[p].until \in Nat
      BY <1>11 DEF RenewFails
    <2>2. /\ \A q \in Ops : q # p => op'[q] = op[q]
          /\ Believes(p)' => /\ op'[p].pc = "running" /\ op'[p].since = op[p].since
                             /\ lost'[p[1]] = "no"
      BY <2>1, GoOnOrGiveUpFacts DEF Believes
    <2>3. p[1] = o[1] /\ Believes(o)' => p = o
      BY <1>11, <2>2 DEF RenewFails, OneOp, Believes
    <2>4. CASE p = o
      <3>1. Believes(o) /\ failSince[o[1]] \in Nat \cup {Nil} /\ o[1] \in Controllers
        BY <1>11, <2>4 DEF RenewFails, Believes, Ops
      <3>2. /\ failSince'[o[1]] = IF failSince[o[1]] = Nil THEN now ELSE failSince[o[1]]
            /\ failSince'[o[1]] \in Nat
            /\ now <= failSince'[o[1]] + TTL
        BY <1>11, <2>2, <2>4, <3>1 DEF RenewFails, FailedTooLong
      <3>3. now <= op[o].since + Wait /\ Round(o) = op[o].since
        BY <1>11, <2>4 DEF RenewFails, InTime, Calling
      <3>4. lease.expire + 2 * Wait + 1 >= failSince'[o[1]] + TTL
        BY <1>1, <3>1, <3>2, <3>3
      <3>5. QED
        BY <1>0, <1>1, <1>11, <2>2, <2>4, <3>1, <3>2, <3>4
           DEF RenewFails, consensus, TTL, Wait
    <2>5. CASE p # o
      BY <1>0, <1>1, <1>11, <2>2, <2>3, <2>5
         DEF RenewFails, Believes, consensus, local, TTL, Wait
    <2>6. QED
      BY <2>4, <2>5
  <1>12. ASSUME NEW p \in Ops, Unlock(p)
         PROVE  Noticing(o)'
    BY <1>0, <1>1, <1>12 DEF Unlock, EnterRelease, Believes, consensus, local, TTL, Wait
  <1>13. ASSUME NEW p \in Ops, Release(p)
         PROVE  Noticing(o)'
    BY <1>0, <1>1, <1>13
       DEF Release, ReleaseHeld, OpGoto, Believes, OneOp, local, TTL, Wait
  <1>14. ASSUME NEW p \in Ops, ReleaseFails(p)
         PROVE  Noticing(o)'
    BY <1>0, <1>1, <1>14 DEF ReleaseFails, OpGoto, Believes, consensus, local, TTL, Wait
  <1>15. ASSUME NEW p \in Ops, Unlocked(p)
         PROVE  Noticing(o)'
    BY <1>0, <1>1, <1>15 DEF Unlocked, IdleOp, Believes, consensus, local, TTL, Wait
  <1>16. ASSUME NEW c \in Controllers, ReapScan(c) \/ ReapFails(c)
         PROVE  Noticing(o)'
    BY <1>0, <1>1, <1>16 DEF ReapScan, ReapFails, Believes, consensus, local, TTL, Wait
  <1>17. ASSUME NEW c \in Controllers, ReapReleases(c)
         PROVE  Noticing(o)'
    BY <1>0, <1>1, <1>17
       DEF ReapReleases, ReleaseHeld, ReapsIdle, Believes, local, TTL, Wait
  <1>18. ASSUME NEW c \in Controllers, Crash(c)
         PROVE  Noticing(o)'
    BY <1>0, <1>1, <1>18 DEF Crash, Of, IdleOp, Believes, consensus, TTL, Wait
  <1>19. CASE Purge
    BY <1>0, <1>1, <1>19 DEF Purge, Purgeable, Clock, Believes, local
  <1>20. CASE Tick
    BY <1>0, <1>1, <1>20 DEF Tick, OnTime, Believes, consensus, local, TTL, Wait
  <1>21. CASE UNCHANGED lockVars
    BY <1>0, <1>1, <1>21 DEF lockVars, Believes, consensus, local, TTL, Wait
  <1>22. QED
    BY <1>2, <1>3, <1>4, <1>5, <1>6, <1>7, <1>8, <1>9, <1>10, <1>11, <1>12, <1>13, <1>14,
       <1>15, <1>16, <1>17, <1>18, <1>19, <1>20, <1>21 DEF LockNext, Step

-----------------------------------------------------------------------------
LEMMA LockIsKept ==
  ASSUME Assumptions
  PROVE  LockSpec => [](LockInv /\ NoticeInv)
  <1>1. LockInit => LockInv /\ NoticeInv
    BY InitLock
  <1>2. LockInv /\ NoticeInv /\ [LockNext]_lockVars => (LockInv /\ NoticeInv)'
    BY LockInvStep, NoticeStep
  <1>3. QED
    BY <1>1, <1>2, PTL DEF LockSpec

\* OpAt most one controller takes itself for the holder (C1), however long the
\* lease calls take, if the skew waited after an expiry covers three of them,
\* three polls and the distance of the clocks (GrantAllowed, RenewFails).
THEOREM HolderIsAlone ==
  ASSUME Assumptions
  PROVE  LockSpec => [](SkewCoversNotice => OneHolder)
  <1>1. LockInv /\ NoticeInv => (SkewCoversNotice => OneHolder)
    <2> SUFFICES ASSUME LockInv, NoticeInv, SkewCoversNotice, NEW o \in Ops, NEW p \in Ops,
                        Believes(o), Believes(p)
                 PROVE  o[1] = p[1]
      BY DEF OneHolder
    <2>1. HeldBy(o[1]) /\ HeldBy(p[1])
      BY HolderNoticesFirst
    <2>2. QED
      BY <2>1 DEF HeldBy
  <1>2. QED
    BY <1>1, LockIsKept, PTL

\* The same of prompt lease calls, as the runs check it: the skew must cover
\* the polls until a failure is noticed (MarginAssumption).
THEOREM PromptHolderIsAlone ==
  ASSUME Assumptions, MarginAssumption
  PROVE  LockSpec => []OneHolderIfPrompt
  <1>1. LockInv /\ (SkewCoversNotice => OneHolder) => OneHolderIfPrompt
    BY SettingFacts
      
          DEF LockInv, LockTypeOK, MarginAssumption, OneHolderIfPrompt, SkewCoversNotice, Skew,
              Drift, Wait
  <1>2. QED
    BY <1>1, LockIsKept, HolderIsAlone, PTL

\* A watcher that has not given up holds the lease in the log: no unlock, reap
\* or purge gives it away (unlock_instance, reap_own_expired_leases).
THEOREM BelieverHolds ==
  ASSUME Assumptions
  PROVE  LockSpec => [](SkewCoversNotice => RunningHoldsLease)
  <1>1. LockInv /\ NoticeInv => (SkewCoversNotice => RunningHoldsLease)
    BY HolderNoticesFirst DEF RunningHoldsLease
  <1>2. QED
    BY <1>1, LockIsKept, PTL

\* However slow the calls are, the holder's fence is above that of every task a
\* former holder left running, so that the executors can tell them apart.
THEOREM HolderOutranks ==
  ASSUME Assumptions
  PROVE  LockSpec => []FenceOutranks
  <1>1. LockInv => FenceOutranks
    <2> SUFFICES ASSUME LockInv, NEW o \in Ops, NEW p \in Ops, Believes(o), HeldBy(o[1]),
                        p[1] # o[1], fence[p[1]] # Nil
                 PROVE  fence[o[1]] > fence[p[1]]
      BY DEF FenceOutranks
    <2>1. /\ o[1] \in Controllers /\ p[1] \in Controllers
          /\ fence[o[1]] \in Nat /\ fence[p[1]] \in Nat
          /\ fence[p[1]] < fence[o[1]]
      BY DEF LockInv, LockTypeOK, Outranks, Ops
    <2>2. QED
      BY <2>1
  <1>2. QED
    BY <1>1, LockIsKept, PTL
=============================================================================
