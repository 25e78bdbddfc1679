---------------------------- MODULE ClusterProofs ----------------------------
(***************************************************************************)
(* What holds of the parts of the cluster around consensus, whatever their  *)
(* constants: the projection into the sink, the measured clocks, the        *)
(* delivery of messages and the self-check, and last the sessions.  A part  *)
(* has an invariant of its own module, under the assumptions that module    *)
(* names, and keeps it while the other parts hold nothing.                  *)
(***************************************************************************)
EXTENDS Cluster, FiniteSetTheorems, SequenceTheorems, WellFoundedInduction, TLAPS

\* A behaviour stays in its part, and makes the steps of that part's module.
LEMMA PartStep ==
  ASSUME [Next]_vars
  PROVE  /\ part' = part
         /\ part = "auth" => [Auth!Next]_(Auth!vars)
         /\ part = "projection" => [Projection!Next]_(Projection!vars)
         /\ part = "clock" => [Clock!Next]_(Clock!vars)
         /\ part = "send" => [Send!Next]_(Send!vars)
         /\ part = "check" => [SelfCheck!Next]_(SelfCheck!vars)
  <1>1. CASE UNCHANGED vars
    BY <1>1 DEF vars, authVars, sinkVars, clockVars, sendVars, checkVars, Auth!vars,
                Projection!vars, Clock!vars, Send!vars, SelfCheck!vars
  <1>2. CASE Next
    BY <1>2 DEF Next
  <1>3. QED
    BY <1>1, <1>2

\* A set of natural numbers has a least.
LEMMA LeastNat ==
  ASSUME NEW T \in SUBSET Nat, T # {}
  PROVE  \E x \in T : \A y \in T : x <= y
  <1> DEFINE R == OpToRel(<, Nat)
  <1>1. IsWellFoundedOn(R, Nat)
    BY NatLessThanWellFounded
  <1>2. \E x \in T : \A y \in T : ~(<<y, x>> \in R)
    <2> HIDE DEF R
    <2>1. QED
      BY <1>1, WFMin
  <1>3. \A y \in T, x \in T : ~(<<y, x>> \in R) => x <= y
    BY DEF OpToRel
  <1>4. QED
    BY <1>2, <1>3

-----------------------------------------------------------------------------
(* The projection. *)

Round == [pc : {"idle", "check", "write", "commit"}, batch : SUBSET Decided]

ProjectionTypes ==
  /\ committed \in [Projection!Shards -> Nat]
  /\ applied \in [Nodes -> Nat] /\ snapshot \in [Nodes -> Nat]
  /\ cursor \in [Nodes -> Nat] /\ file \in [Nodes -> Nat]
  /\ round \in [Nodes -> Round]
  /\ \A n \in Nodes : round[n].pc # "idle" => round[n].batch # {}
  /\ \A n \in Nodes : round[n].pc = "commit" => round[n].batch = {Projection!Row(n)}
  /\ rows \in [Projection!Keys -> Nat]
  /\ exempt \in [Nodes -> SUBSET Decided]

\* Of two nodes of a shard one at most is in a round, and what it found missing still is.
Unsettled(n) == round[n].pc = "write"

OnceInv ==
  ~unsure =>
    /\ \A m, n \in Nodes :
         m # n /\ ShardOf[m] = ShardOf[n] => round[m].pc = "idle" \/ round[n].pc = "idle"
    /\ \A n \in Nodes : Unsettled(n) => rows[Projection!Key(n)] = 0
    /\ Projection!ProjectedOnce

\* i needs no row of n any more.
Settled(n, i) == i \in exempt[n] \/ rows[<<ShardOf[n], i>>] > 0

CoverAt(n) ==
  /\ file[n] <= cursor[n]
  /\ \A i \in Decided : i <= cursor[n] => Settled(n, i)
  /\ round[n].pc # "idle" =>
       \A j \in round[n].batch : \A i \in Decided :
         i < j => i \in round[n].batch \/ Settled(n, i)
  /\ round[n].pc = "commit" => Settled(n, Projection!Row(n))

CoverInv == \A n \in Nodes : CoverAt(n)

LEMMA LeastOfSet ==
  ASSUME NEW S \in SUBSET Nat, S # {}
  PROVE  Projection!Min(S) \in S /\ \A x \in S : Projection!Min(S) <= x
  BY LeastNat DEF Projection!Min

LEMMA RowFacts ==
  ASSUME Projection!IndexAssumption, ProjectionTypes, NEW n \in Nodes, round[n].pc # "idle"
  PROVE  /\ Projection!Row(n) \in round[n].batch /\ Projection!Row(n) \in Decided
         /\ Projection!Row(n) \in Nat
         /\ \A i \in round[n].batch : Projection!Row(n) <= i
         /\ Projection!Key(n) = <<ShardOf[n], Projection!Row(n)>>
         /\ Projection!Key(n) \in Projection!Keys
  <1>1. round[n].batch \in SUBSET Nat /\ round[n].batch \subseteq Decided /\ round[n].batch # {}
    BY DEF ProjectionTypes, Round, Projection!IndexAssumption
  <1>2. /\ Projection!Row(n) \in round[n].batch
        /\ \A i \in round[n].batch : Projection!Row(n) <= i
    BY <1>1, LeastOfSet DEF Projection!Row
  <1>3. QED
    BY <1>1, <1>2 DEF Projection!Key, Projection!Keys, Projection!Shards

\* What is pending is a first part of what there is.
LEMMA PendingIsFirst ==
  ASSUME Projection!IndexAssumption, ProjectionTypes, NEW n \in Nodes
  PROVE  /\ Projection!Pending(n) \subseteq Decided
         /\ \A j \in Projection!Pending(n) : \A i \in Decided :
              i < j /\ cursor[n] < i /\ snapshot[n] < i => i \in Projection!Pending(n)
  <1> DEFINE there == {i \in Projection!Above(n) : i > snapshot[n]}
             before(i) == {j \in there : j < i}
  <1>7. Decided \subseteq Nat \ {0} /\ applied[n] \in Nat /\ cursor[n] \in Nat
        /\ snapshot[n] \in Nat /\ BatchLimit \in Nat
    BY DEF Projection!IndexAssumption, ProjectionTypes
  <1>8. \A i : i \in there <=>
          i \in Decided /\ cursor[n] < i /\ i <= applied[n] /\ i > snapshot[n]
    BY DEF Projection!Above
  <1> HIDE DEF there
  <1>1. there \subseteq Decided /\ there \subseteq Nat /\ \A i \in there : i <= applied[n]
    BY <1>7, <1>8
  <1>2. IsFiniteSet(there)
    BY <1>1, <1>7, FS_BoundedSetOfNaturals
  <1>3. \A S : Projection!Cardinality(S) = Cardinality(S)
    BY Zenon DEF Projection!Cardinality, Cardinality
  <1>4. \A i : i \in Projection!Pending(n) <=> i \in there /\ Cardinality(before(i)) < BatchLimit
    BY <1>3 DEF Projection!Pending, there
  <1>5. ASSUME NEW j \in Projection!Pending(n), NEW i \in Decided,
               i < j, cursor[n] < i, snapshot[n] < i
        PROVE  i \in Projection!Pending(n)
    <2>1. j \in there /\ i \in there
      <3>1. j \in there /\ j \in Nat /\ i \in Nat
        BY <1>1, <1>4, <1>7
      <3>2. i <= applied[n]
        BY <1>5, <1>7, <1>8, <3>1
      <3>3. QED
        BY <1>5, <1>7, <1>8, <3>1, <3>2
    <2>2. before(i) \subseteq before(j)
      <3>1. ASSUME NEW k \in there, k < i
            PROVE  k < j
        <4>1. k \in Nat /\ i \in Nat /\ j \in Nat
          BY <1>1, <2>1, <3>1
        <4>2. QED
          BY <1>5, <3>1, <4>1
      <3>2. QED
        BY <3>1
    <2>3. IsFiniteSet(before(j))
      BY <1>2, FS_Subset
    <2>4. Cardinality(before(i)) <= Cardinality(before(j))
          /\ Cardinality(before(i)) \in Nat /\ Cardinality(before(j)) \in Nat
      BY <2>2, <2>3, FS_Subset, FS_CardinalityType
    <2>5. Cardinality(before(j)) < BatchLimit
      BY <1>4
    <2>6. QED
      BY <1>4, <1>7, <2>1, <2>4, <2>5
  <1>6. QED
    BY <1>1, <1>4, <1>5

LEMMA PassedFacts ==
  ASSUME Projection!IndexAssumption, ProjectionTypes, NEW n \in Nodes, round[n].pc # "idle",
         Projection!Passed(n)
  PROVE  /\ round' \in [Nodes -> Round]
         /\ round'[n].pc \in {"check", "commit"}
         /\ \A m \in Nodes : m # n => round'[m] = round[m]
         /\ \/ round'[n] = [pc |-> "commit", batch |-> round[n].batch]
               /\ round[n].batch = {Projection!Row(n)}
            \/ round'[n] = [pc |-> "check", batch |-> round[n].batch \ {Projection!Row(n)}]
               /\ round[n].batch \ {Projection!Row(n)} # {}
  <1> DEFINE r == IF round[n].batch = {Projection!Row(n)}
                    THEN [pc |-> "commit", batch |-> round[n].batch]
                    ELSE [pc |-> "check", batch |-> round[n].batch \ {Projection!Row(n)}]
  <1>1. Projection!Row(n) \in round[n].batch
    BY RowFacts
  <1>2. round[n].batch \subseteq Decided /\ round \in [Nodes -> Round]
    BY DEF ProjectionTypes, Round
  <1>3. round' = [round EXCEPT ![n] = r]
    BY DEF Projection!Passed
  <1>4. r \in Round
    BY <1>2 DEF Round
  <1>5. CASE round[n].batch = {Projection!Row(n)}
    BY <1>2, <1>3, <1>4, <1>5
  <1>6. CASE round[n].batch # {Projection!Row(n)}
    BY <1>1, <1>2, <1>3, <1>4, <1>6
  <1>7. QED
    BY <1>5, <1>6

\* What the round of n may become: nothing, another of its steps, or what is next.
LEMMA RoundTypes ==
  ASSUME ProjectionTypes, NEW n \in Nodes, round' \in [Nodes -> Round],
         \A m \in Nodes : m # n => round'[m] = round[m],
         round'[n].pc # "idle" => round'[n].batch # {},
         round'[n].pc = "commit" => round'[n].batch = {Projection!Min(round'[n].batch)}
  PROVE  /\ \A m \in Nodes : round'[m].pc # "idle" => round'[m].batch # {}
         /\ \A m \in Nodes : round'[m].pc = "commit" => round'[m].batch = {Projection!Row(m)'}
  BY DEF ProjectionTypes, Projection!Row

LEMMA ProjectionTypesStep ==
  ASSUME Projection!IndexAssumption, ProjectionTypes, [Projection!Next]_(Projection!vars)
  PROVE  ProjectionTypes'
  <1> USE DEF Projection!Shards, Projection!Keys
  <1>1. ASSUME UNCHANGED <<cursor, file, round, rows, exempt>>,
               committed' \in [Projection!Shards -> Nat],
               applied' \in [Nodes -> Nat], snapshot' \in [Nodes -> Nat]
        PROVE  ProjectionTypes'
    BY <1>1 DEF ProjectionTypes, Projection!Row
  <1>2. ASSUME NEW s \in Projection!Shards, Projection!Commit(s)
        PROVE  ProjectionTypes'
    BY <1>1, <1>2 DEF Projection!Commit, ProjectionTypes
  <1>3. ASSUME NEW n \in Nodes,
               \/ Projection!Apply(n) \/ Projection!Compact(n)
               \/ Projection!Elect(n) \/ Projection!Learn(n)
        PROVE  ProjectionTypes'
    BY <1>1, <1>3 DEF Projection!Apply, Projection!Compact, Projection!Elect,
                      Projection!Learn, ProjectionTypes
  <1>4. ASSUME NEW n \in Nodes, UNCHANGED <<committed, applied, snapshot>>,
               cursor' \in [Nodes -> Nat], file' \in [Nodes -> Nat],
               rows' \in [Projection!Keys -> Nat], exempt' \in [Nodes -> SUBSET Decided],
               round' \in [Nodes -> Round],
               \A m \in Nodes : m # n => round'[m] = round[m],
               round'[n].pc # "idle" => round'[n].batch # {},
               round'[n].pc = "commit" => round'[n].batch = {Projection!Min(round'[n].batch)}
        PROVE  ProjectionTypes'
    BY <1>4, RoundTypes DEF ProjectionTypes
  <1>5. ASSUME NEW n \in Nodes, Projection!Collect(n)
        PROVE  ProjectionTypes'
    <2>1. Projection!Pending(n) \subseteq Decided /\ Projection!Pending(n) # {}
      BY <1>5, PendingIsFirst DEF Projection!Collect
    <2>2. round'[n] = [pc |-> "check", batch |-> Projection!Pending(n)]
          /\ round' \in [Nodes -> Round] /\ \A m \in Nodes : m # n => round'[m] = round[m]
      BY <1>5, <2>1 DEF Projection!Collect, ProjectionTypes, Round
    <2>3. exempt' \in [Nodes -> SUBSET Decided]
      BY <1>5 DEF Projection!Collect, ProjectionTypes, Projection!Above
    <2>4. QED
      BY <1>4, <1>5, <2>1, <2>2, <2>3 DEF Projection!Collect, ProjectionTypes
  <1>6. ASSUME NEW n \in Nodes, round[n].pc # "idle", Projection!Passed(n)
        PROVE  /\ round' \in [Nodes -> Round]
               /\ \A m \in Nodes : m # n => round'[m] = round[m]
               /\ round'[n].pc # "idle" => round'[n].batch # {}
               /\ round'[n].pc = "commit" =>
                    round'[n].batch = {Projection!Min(round'[n].batch)}
    <2>1. /\ round' \in [Nodes -> Round]
          /\ \A m \in Nodes : m # n => round'[m] = round[m]
          /\ \/ round'[n] = [pc |-> "commit", batch |-> round[n].batch]
                /\ round[n].batch = {Projection!Row(n)}
             \/ round'[n] = [pc |-> "check", batch |-> round[n].batch \ {Projection!Row(n)}]
                /\ round[n].batch \ {Projection!Row(n)} # {}
      BY <1>6, PassedFacts
    <2>2. CASE round'[n] = [pc |-> "commit", batch |-> round[n].batch]
               /\ round[n].batch = {Projection!Row(n)}
      <3>1. Projection!Row(n) = Projection!Min(round[n].batch)
        BY DEF Projection!Row
      <3>2. round'[n].batch = round[n].batch
        BY <2>2
      <3>3. QED
        BY <2>1, <2>2, <3>1, <3>2
    <2>3. QED
      BY <2>1, <2>2
  <1>7. ASSUME NEW n \in Nodes, Projection!Check(n)
        PROVE  ProjectionTypes'
    <2>1. UNCHANGED <<committed, applied, snapshot, cursor, file, rows, exempt>>
          /\ round[n].pc = "check"
      BY <1>7 DEF Projection!Check
    <2>2. CASE Projection!Passed(n)
      BY <1>4, <1>6, <2>1, <2>2 DEF ProjectionTypes
    <2>3. CASE round' = [round EXCEPT ![n].pc = "write"]
      <3>1. round'[n] = [pc |-> "write", batch |-> round[n].batch]
            /\ round' \in [Nodes -> Round] /\ \A m \in Nodes : m # n => round'[m] = round[m]
        BY <2>3 DEF ProjectionTypes, Round
      <3>2. /\ round'[n].pc # "idle" => round'[n].batch # {}
            /\ round'[n].pc # "commit"
        BY <2>1, <3>1 DEF ProjectionTypes
      <3>3. /\ cursor' \in [Nodes -> Nat] /\ file' \in [Nodes -> Nat]
            /\ rows' \in [Projection!Keys -> Nat] /\ exempt' \in [Nodes -> SUBSET Decided]
            /\ UNCHANGED <<committed, applied, snapshot>>
        BY <2>1 DEF ProjectionTypes
      <3> QED
        BY <1>4, <3>1, <3>2, <3>3
    <2>4. QED
      BY <1>7, <2>2, <2>3 DEF Projection!Check
  <1>8. ASSUME NEW n \in Nodes, Projection!Write(n)
        PROVE  ProjectionTypes'
    <2>1. /\ UNCHANGED <<committed, applied, snapshot, cursor, file>>
          /\ round[n].pc = "write" /\ Projection!Passed(n)
      BY <1>8 DEF Projection!Write
    <2>2. Projection!Key(n) \in Projection!Keys /\ Projection!Row(n) \in Decided
      BY <2>1, RowFacts
    <2>3. rows' \in [Projection!Keys -> Nat] /\ exempt' \in [Nodes -> SUBSET Decided]
      <3>1. /\ rows \in [Projection!Keys -> Nat] /\ exempt \in [Nodes -> SUBSET Decided]
            /\ rows' = rows \/ rows' = [rows EXCEPT ![Projection!Key(n)] = @ + 1]
            /\ exempt' = exempt \/ exempt' = [exempt EXCEPT ![n] = @ \cup {Projection!Row(n)}]
        BY <1>8 DEF Projection!Write, ProjectionTypes
      <3> HIDE DEF Projection!Keys
      <3>2. rows' \in [Projection!Keys -> Nat]
        BY <2>2, <3>1
      <3>3. exempt' \in [Nodes -> SUBSET Decided]
        BY <2>2, <3>1
      <3> QED
        BY <3>2, <3>3
    <2>4. QED
      BY <1>4, <1>6, <2>1, <2>3 DEF ProjectionTypes
  <1>9. ASSUME NEW n \in Nodes, Projection!CommitCursor(n)
        PROVE  ProjectionTypes'
    <2>1. Projection!Row(n) \in Nat
      BY <1>9, RowFacts DEF Projection!CommitCursor
    <2>2. cursor' \in [Nodes -> Nat]
      BY <1>9, <2>1 DEF Projection!CommitCursor, ProjectionTypes
    <2>3. file' \in [Nodes -> Nat]
      BY <1>9, <2>2 DEF Projection!CommitCursor, ProjectionTypes
    <2>4. round'[n] = [pc |-> "idle", batch |-> {}]
          /\ round' \in [Nodes -> Round] /\ \A m \in Nodes : m # n => round'[m] = round[m]
      BY <1>9 DEF Projection!CommitCursor, Projection!Idle, ProjectionTypes, Round
    <2>5. QED
      BY <1>4, <1>9, <2>2, <2>3, <2>4 DEF Projection!CommitCursor, ProjectionTypes
  <1>10. ASSUME NEW n \in Nodes, Projection!Crash(n)
         PROVE  ProjectionTypes'
    <2>1. round'[n] = [pc |-> "idle", batch |-> {}]
          /\ round' \in [Nodes -> Round] /\ \A m \in Nodes : m # n => round'[m] = round[m]
      BY <1>10 DEF Projection!Crash, Projection!Idle, ProjectionTypes, Round
    <2>2. /\ applied' \in [Nodes -> Nat] /\ cursor' \in [Nodes -> Nat]
          /\ exempt' \in [Nodes -> SUBSET Decided]
          /\ UNCHANGED <<committed, snapshot, file, rows>>
      BY <1>10 DEF Projection!Crash, ProjectionTypes
    <2>3. round'[n].pc = "idle" /\ round'[n].pc # "commit"
      BY <2>1
    <2>4. /\ \A m \in Nodes : round'[m].pc # "idle" => round'[m].batch # {}
          /\ \A m \in Nodes : round'[m].pc = "commit" => round'[m].batch = {Projection!Row(m)'}
      BY <2>1, <2>3, RoundTypes
    <2>5. QED
      BY <2>1, <2>2, <2>4 DEF ProjectionTypes
  <1>11. ASSUME NEW n \in Nodes, Projection!ResyncSink(n)
         PROVE  ProjectionTypes'
    BY <1>11 DEF Projection!ResyncSink, ProjectionTypes, Projection!Row
  <1>12. CASE Projection!SinkLost
    BY <1>12 DEF Projection!SinkLost, ProjectionTypes, Projection!Row
  <1>13. CASE UNCHANGED Projection!vars
    BY <1>13 DEF Projection!vars, ProjectionTypes, Projection!Row
  <1>14. QED
    BY <1>2, <1>3, <1>5, <1>7, <1>8, <1>9, <1>10, <1>11, <1>12, <1>13
       DEF Projection!Next, Projection!Loop

LEMMA OnceStep ==
  ASSUME Projection!IndexAssumption, ProjectionTypes, OnceInv,
         [Projection!Next]_(Projection!vars)
  PROVE  OnceInv'
  <1> USE DEF OnceInv, Unsettled, Projection!ProjectedOnce
  <1>1. ASSUME UNCHANGED <<round, rows, unsure>>
        PROVE  OnceInv'
    BY <1>1 DEF Projection!Key, Projection!Row
  \* A loop that leaves its row, or goes idle, leaves the rows alone.
  <1>2. ASSUME NEW n \in Nodes, UNCHANGED <<rows, unsure>>,
               round' \in [Nodes -> Round], \A m \in Nodes : m # n => round'[m] = round[m],
               round[n].pc = "idle" => round'[n].pc = "idle", round'[n].pc # "write"
        PROVE  OnceInv'
    BY <1>2 DEF Projection!Key, Projection!Row
  <1>3. ASSUME NEW n \in Nodes, Projection!Collect(n)
        PROVE  OnceInv'
    <2>1. round'[n].pc = "check" /\ rows' = rows
          /\ \A m \in Nodes : m # n => round'[m] = round[m]
      BY <1>3 DEF Projection!Collect, ProjectionTypes
    <2>2. ~unsure' => ~unsure /\ \A m \in Nodes : m # n /\ ShardOf[m] = ShardOf[n]
                                    => round[m].pc = "idle"
      BY <1>3 DEF Projection!Collect
    <2>3. QED
      BY <2>1, <2>2 DEF Projection!Key, Projection!Row
  <1>4. ASSUME NEW n \in Nodes, Projection!Check(n)
        PROVE  OnceInv'
    <2>1. round[n].pc = "check" /\ rows' = rows
      BY <1>4 DEF Projection!Check
    <2>2. CASE Projection!Passed(n) /\ UNCHANGED unsure
      <3>1. /\ round' \in [Nodes -> Round] /\ \A m \in Nodes : m # n => round'[m] = round[m]
            /\ round'[n].pc # "write" /\ round[n].pc # "idle"
        BY <2>1, <2>2, PassedFacts
      <3>2. QED
        BY <1>2, <2>1, <2>2, <3>1
    <2>3. CASE ~Projection!MarkerExists(n) /\ UNCHANGED unsure
               /\ round' = [round EXCEPT ![n].pc = "write"]
      <3>1. /\ round'[n].batch = round[n].batch
            /\ \A m \in Nodes : m # n => round'[m] = round[m]
        BY <2>3 DEF ProjectionTypes, Round
      <3>2. rows[Projection!Key(n)] = 0
        <4>1. ~(rows[<<ShardOf[n], Projection!Row(n)>>] > 0)
          BY <2>3 DEF Projection!MarkerExists, Projection!Shards
        <4>2. rows[Projection!Key(n)] \in Nat
              /\ Projection!Key(n) = <<ShardOf[n], Projection!Row(n)>>
          BY <2>1, RowFacts DEF ProjectionTypes
        <4>3. QED
          BY <4>1, <4>2
      <3>3. QED
        BY <2>1, <2>3, <3>1, <3>2 DEF Projection!Key, Projection!Row
    <2>4. CASE unsure'
      BY <2>4
    <2>5. QED
      BY <1>4, <2>2, <2>3, <2>4 DEF Projection!Check
  <1>5. ASSUME NEW n \in Nodes, Projection!Write(n)
        PROVE  OnceInv'
    <2>1. round[n].pc = "write" /\ Projection!Passed(n) /\ unsure' = unsure
      BY <1>5 DEF Projection!Write
    <2>2. CASE UNCHANGED rows
      <3>1. /\ round' \in [Nodes -> Round] /\ \A m \in Nodes : m # n => round'[m] = round[m]
            /\ round'[n].pc # "write" /\ round[n].pc # "idle"
        BY <2>1, PassedFacts
      <3>2. QED
        BY <1>2, <2>1, <2>2, <3>1
    <2>3. CASE rows' = [rows EXCEPT ![Projection!Key(n)] = @ + 1]
      <3> SUFFICES ASSUME ~unsure
                   PROVE  OnceInv'
        BY <2>1
      <3>1. /\ \A m \in Nodes : m # n => round'[m] = round[m]
            /\ round'[n].pc \in {"check", "commit"}
        BY <2>1, PassedFacts
      <3>2. /\ Projection!Key(n) \in Projection!Keys /\ rows[Projection!Key(n)] = 0
            /\ Projection!Key(n)[1] = ShardOf[n]
        BY <2>1, RowFacts
      <3>3. /\ \A k \in Projection!Keys : k # Projection!Key(n) => rows'[k] = rows[k]
            /\ rows'[Projection!Key(n)] = 1
        BY <2>3, <3>2 DEF ProjectionTypes
      <3>4. ASSUME NEW m \in Nodes, Unsettled(m)'
            PROVE  rows'[Projection!Key(m)'] = 0
        <4>1. m # n /\ round'[m] = round[m]
          BY <3>1, <3>4
        <4>2. Projection!Key(m)' = Projection!Key(m) /\ rows[Projection!Key(m)] = 0
          BY <3>4, <4>1 DEF Projection!Key, Projection!Row
        <4>3. ShardOf[m] # ShardOf[n]
          BY <2>1, <3>4, <4>1
        <4>4. Projection!Key(m) \in Projection!Keys /\ Projection!Key(m)[1] = ShardOf[m]
          BY <3>4, <4>1, RowFacts
        <4>5. QED
          BY <3>2, <3>3, <4>2, <4>3, <4>4
      <3>5. QED
        BY <2>1, <3>1, <3>3, <3>4 DEF ProjectionTypes
    <2>4. QED
      BY <1>5, <2>2, <2>3 DEF Projection!Write
  <1>6. ASSUME NEW n \in Nodes, Projection!CommitCursor(n) \/ Projection!Crash(n)
        PROVE  OnceInv'
    <2>1. round' = [round EXCEPT ![n] = [pc |-> "idle", batch |-> {}]]
          /\ UNCHANGED <<rows, unsure>>
      BY <1>6 DEF Projection!CommitCursor, Projection!Crash, Projection!Idle
    <2>2. QED
      BY <1>2, <2>1 DEF ProjectionTypes, Round
  <1>7. CASE Projection!SinkLost
    <2>1. /\ round' = round /\ unsure' = unsure
          /\ \A k \in Projection!Keys : rows'[k] = 0
      BY <1>7 DEF Projection!SinkLost
    <2>2. \A n \in Nodes : Unsettled(n) => Projection!Key(n) \in Projection!Keys
      BY RowFacts
    <2>3. QED
      BY <2>1, <2>2 DEF Projection!Key, Projection!Row
  <1>8. ASSUME NEW n \in Nodes,
               \/ Projection!Apply(n) \/ Projection!Compact(n) \/ Projection!Elect(n)
               \/ Projection!Learn(n) \/ Projection!ResyncSink(n)
        PROVE  OnceInv'
    BY <1>1, <1>8 DEF Projection!Apply, Projection!Compact, Projection!Elect,
                      Projection!Learn, Projection!ResyncSink
  <1>9. ASSUME NEW s \in Projection!Shards, Projection!Commit(s)
        PROVE  OnceInv'
    BY <1>1, <1>9 DEF Projection!Commit
  <1>10. CASE UNCHANGED Projection!vars
    BY <1>1, <1>10 DEF Projection!vars
  <1>11. QED
    BY <1>3, <1>4, <1>5, <1>6, <1>7, <1>8, <1>9, <1>10 DEF Projection!Next, Projection!Loop

\* What was settled stays settled, while nothing makes the loops of other nodes go on.
LEMMA CoverKept ==
  ASSUME CoverInv, UNCHANGED <<cursor, round>>,
         file' = file \/ \E n \in Nodes : file' = [file EXCEPT ![n] = 0],
         ProjectionTypes,
         \A n \in Nodes : \A i \in Decided : Settled(n, i) => Settled(n, i)'
  PROVE  CoverInv'
  <1>1. \A n \in Nodes : file'[n] <= cursor'[n]
    BY DEF CoverInv, CoverAt, ProjectionTypes
  <1>2. \A n \in Nodes : Projection!Row(n)' = Projection!Row(n)
    BY DEF Projection!Row
  <1>3. \A n \in Nodes : round[n].pc = "commit" => Projection!Row(n) \in Decided
    BY DEF ProjectionTypes, Round
  <1>4. \A n \in Nodes : round[n].batch \subseteq Decided
    BY DEF ProjectionTypes, Round
  <1>5. QED
    BY <1>1, <1>2, <1>3, <1>4 DEF CoverInv, CoverAt

\* The loops of other nodes stay where they are.
LEMMA CoverOfOther ==
  ASSUME ProjectionTypes, CoverInv, NEW m \in Nodes,
         round'[m] = round[m], cursor'[m] = cursor[m], file'[m] = file[m],
         \A i \in Decided : Settled(m, i) => Settled(m, i)'
  PROVE  CoverAt(m)'
  <1>1. Projection!Row(m)' = Projection!Row(m)
    BY DEF Projection!Row
  <1>2. round[m].batch \subseteq Decided
        /\ (round[m].pc = "commit" => Projection!Row(m) \in Decided)
    BY DEF ProjectionTypes, Round
  <1>3. QED
    BY <1>1, <1>2 DEF CoverInv, CoverAt

\* n has settled its row and takes the next, or commits.
LEMMA CoverPassed ==
  ASSUME Projection!IndexAssumption, ProjectionTypes, CoverInv, UNCHANGED <<cursor, file>>,
         NEW n \in Nodes, round[n].pc # "idle", Projection!Passed(n),
         \A m \in Nodes : \A i \in Decided : Settled(m, i) => Settled(m, i)',
         \/ Projection!Row(n) \in exempt'[n]
         \/ rows'[<<ShardOf[n], Projection!Row(n)>>] > 0
  PROVE  CoverInv'
  <1>1. /\ \A m \in Nodes : m # n => round'[m] = round[m]
        /\ \/ round'[n] = [pc |-> "commit", batch |-> round[n].batch]
              /\ round[n].batch = {Projection!Row(n)}
           \/ round'[n] = [pc |-> "check", batch |-> round[n].batch \ {Projection!Row(n)}]
              /\ round[n].batch \ {Projection!Row(n)} # {}
    BY PassedFacts
  <1>2. ASSUME NEW m \in Nodes, m # n
        PROVE  CoverAt(m)'
    BY <1>1, <1>2, CoverOfOther
  <1>3. /\ file'[n] <= cursor'[n]
        /\ \A i \in Decided : i <= cursor'[n] => Settled(n, i)'
    BY DEF CoverInv, CoverAt
  <1>4. /\ round'[n].pc # "idle" =>
             \A j \in round'[n].batch : \A i \in Decided :
               i < j => i \in round'[n].batch \/ Settled(n, i)'
        /\ round'[n].pc = "commit" => Settled(n, Projection!Row(n))'
    <2>1. CASE round'[n] = [pc |-> "commit", batch |-> round[n].batch]
               /\ round[n].batch = {Projection!Row(n)}
      <3>1. round'[n].batch = round[n].batch /\ Projection!Row(n)' = Projection!Row(n)
        BY <2>1 DEF Projection!Row
      <3>2. round[n].batch \subseteq Decided /\ Projection!Row(n) \in Decided
        BY RowFacts DEF ProjectionTypes, Round
      <3>3. \A j \in round[n].batch : \A i \in Decided :
              i < j => i \in round[n].batch \/ Settled(n, i)
        BY DEF CoverInv, CoverAt
      <3>4. \A j \in round'[n].batch : \A i \in Decided :
              i < j => i \in round'[n].batch \/ Settled(n, i)'
        BY <3>1, <3>2, <3>3
      <3>5. Settled(n, Projection!Row(n))'
        BY <3>1 DEF Settled
      <3>6. QED
        BY <3>4, <3>5
    <2>2. CASE round'[n] = [pc |-> "check", batch |-> round[n].batch \ {Projection!Row(n)}]
      <3>1. round'[n].batch = round[n].batch \ {Projection!Row(n)} /\ round'[n].pc = "check"
        BY <2>2
      <3>2. ASSUME NEW j \in round[n].batch, NEW i \in Decided, i < j
            PROVE  i \in round'[n].batch \/ Settled(n, i)'
        <4>1. CASE i = Projection!Row(n)
          BY <4>1 DEF Settled
        <4>2. CASE i # Projection!Row(n)
          BY <3>1, <3>2, <4>2 DEF CoverInv, CoverAt
        <4>3. QED
          BY <4>1, <4>2
      <3>3. QED
        BY <3>1, <3>2
    <2>3. QED
      BY <1>1, <2>1, <2>2
  <1>5. QED
    BY <1>2, <1>3, <1>4 DEF CoverInv, CoverAt

LEMMA CoverStep ==
  ASSUME Projection!IndexAssumption, Projection!OneShardAssumption, ProjectionTypes, CoverInv,
         [Projection!Next]_(Projection!vars)
  PROVE  CoverInv'
  <1>1. ASSUME UNCHANGED <<cursor, file, round, rows, exempt>>
        PROVE  CoverInv'
    BY <1>1, CoverKept DEF Settled
  <1>2. ASSUME NEW n \in Nodes, Projection!Collect(n)
        PROVE  CoverInv'
    <2>1. /\ round'[n] = [pc |-> "check", batch |-> Projection!Pending(n)]
          /\ \A m \in Nodes : m # n => round'[m] = round[m]
          /\ exempt'[n] = exempt[n] \cup {i \in Projection!Above(n) : i <= snapshot[n]}
          /\ \A m \in Nodes : exempt[m] \subseteq exempt'[m]
          /\ UNCHANGED <<cursor, file, rows, applied, snapshot>>
      BY <1>2 DEF Projection!Collect, ProjectionTypes
    <2>2. \A m \in Nodes : \A i \in Decided : Settled(m, i) => Settled(m, i)'
      BY <2>1 DEF Settled
    <2>3. ASSUME NEW m \in Nodes, m # n
          PROVE  CoverAt(m)'
      BY <2>1, <2>2, <2>3, CoverOfOther
    <2>4. ASSUME NEW j \in Projection!Pending(n), NEW i \in Decided, i < j
          PROVE  i \in Projection!Pending(n) \/ Settled(n, i)'
      <3>1. i \in Nat /\ j \in Nat /\ cursor[n] \in Nat /\ snapshot[n] \in Nat
            /\ applied[n] \in Nat /\ j <= applied[n]
        BY PendingIsFirst DEF Projection!Pending, Projection!Above, ProjectionTypes,
                              Projection!IndexAssumption
      <3>2. CASE i <= cursor[n]
        BY <2>2, <3>2 DEF CoverInv, CoverAt
      <3>3. CASE cursor[n] < i /\ i <= snapshot[n]
        BY <2>1, <2>4, <3>1, <3>3 DEF Settled, Projection!Above
      <3>4. CASE cursor[n] < i /\ snapshot[n] < i
        BY <2>4, <3>4, PendingIsFirst
      <3>5. QED
        BY <3>1, <3>2, <3>3, <3>4
    <2>5. CoverAt(n)'
      BY <2>1, <2>2, <2>4 DEF CoverInv, CoverAt
    <2>6. QED
      BY <2>3, <2>5 DEF CoverInv
  <1>3. ASSUME NEW n \in Nodes, Projection!Check(n)
        PROVE  CoverInv'
    <2>1. UNCHANGED <<cursor, file, rows, exempt>> /\ round[n].pc = "check"
      BY <1>3 DEF Projection!Check
    <2>2. \A m \in Nodes : \A i \in Decided : Settled(m, i) => Settled(m, i)'
      BY <2>1 DEF Settled
    <2>3. CASE Projection!MarkerExists(n) /\ Projection!Passed(n)
      <3>1. rows'[<<ShardOf[n], Projection!Row(n)>>] > 0
        BY <2>1, <2>3 DEF Projection!MarkerExists, Projection!Shards,
                          Projection!OneShardAssumption
      <3>2. QED
        BY <2>1, <2>2, <2>3, <3>1, CoverPassed
    <2>4. CASE round' = [round EXCEPT ![n].pc = "write"]
      <3>1. round'[n].batch = round[n].batch /\ round'[n].pc = "write"
            /\ \A m \in Nodes : m # n => round'[m] = round[m]
        BY <2>4 DEF ProjectionTypes, Round
      <3>2. ASSUME NEW m \in Nodes, m # n
            PROVE  CoverAt(m)'
        BY <2>1, <2>2, <3>1, <3>2, CoverOfOther
      <3>3. CoverAt(n)'
        <4>1. round[n].batch \subseteq Decided
          BY DEF ProjectionTypes, Round
        <4>2. QED
          BY <2>1, <2>2, <3>1, <4>1 DEF CoverInv, CoverAt
      <3>4. QED
        BY <3>2, <3>3 DEF CoverInv
    <2>5. QED
      BY <1>3, <2>3, <2>4 DEF Projection!Check
  <1>4. ASSUME NEW n \in Nodes, Projection!Write(n)
        PROVE  CoverInv'
    <2>1. /\ UNCHANGED <<cursor, file>> /\ round[n].pc = "write" /\ Projection!Passed(n)
          /\ \/ rows' = [rows EXCEPT ![Projection!Key(n)] = @ + 1] /\ UNCHANGED exempt
             \/ exempt' = [exempt EXCEPT ![n] = @ \cup {Projection!Row(n)}] /\ UNCHANGED rows
      BY <1>4 DEF Projection!Write
    <2>2. Projection!Key(n) \in Projection!Keys
          /\ Projection!Key(n) = <<ShardOf[n], Projection!Row(n)>>
      BY <2>1, RowFacts
    <2>3. /\ \A m \in Nodes : \A i \in Decided : Settled(m, i) => Settled(m, i)'
          /\ \/ Projection!Row(n) \in exempt'[n]
             \/ rows'[<<ShardOf[n], Projection!Row(n)>>] > 0
      <3>1. CASE rows' = [rows EXCEPT ![Projection!Key(n)] = @ + 1] /\ UNCHANGED exempt
        <4>1. /\ \A k \in Projection!Keys : rows[k] > 0 => rows'[k] > 0
              /\ rows'[Projection!Key(n)] > 0
          BY <2>2, <3>1 DEF ProjectionTypes
        <4>2. \A m \in Nodes : \A i \in Decided : <<ShardOf[m], i>> \in Projection!Keys
          BY DEF Projection!Keys, Projection!Shards
        <4>3. QED
          BY <2>2, <3>1, <4>1, <4>2 DEF Settled
      <3>2. CASE exempt' = [exempt EXCEPT ![n] = @ \cup {Projection!Row(n)}] /\ UNCHANGED rows
        BY <3>2 DEF Settled, ProjectionTypes
      <3>3. QED
        BY <2>1, <3>1, <3>2
    <2>4. QED
      BY <2>1, <2>3, CoverPassed
  <1>5. ASSUME NEW n \in Nodes, Projection!CommitCursor(n)
        PROVE  CoverInv'
    <2>1. /\ round[n].pc = "commit" /\ round[n].batch = {Projection!Row(n)}
          /\ Projection!Row(n) \in Decided /\ Projection!Row(n) \in Nat
      BY <1>5, RowFacts DEF Projection!CommitCursor, ProjectionTypes
    <2>2. /\ round'[n] = [pc |-> "idle", batch |-> {}]
          /\ cursor'[n] = IF cursor[n] < Projection!Row(n) THEN Projection!Row(n) ELSE cursor[n]
          /\ \A m \in Nodes : m # n =>
               round'[m] = round[m] /\ cursor'[m] = cursor[m] /\ file'[m] = file[m]
          /\ file'[n] \in {cursor'[n], file[n]}
          /\ UNCHANGED <<rows, exempt>>
      BY <1>5 DEF Projection!CommitCursor, Projection!Idle, ProjectionTypes
    <2>3. \A m \in Nodes : \A i \in Decided : Settled(m, i) => Settled(m, i)'
      BY <2>2 DEF Settled
    <2>4. ASSUME NEW m \in Nodes, m # n
          PROVE  CoverAt(m)'
      BY <2>2, <2>3, <2>4, CoverOfOther
    <2>5. cursor[n] \in Nat /\ file[n] \in Nat /\ Decided \subseteq Nat
      BY DEF ProjectionTypes, Projection!IndexAssumption
    <2>6. file'[n] <= cursor'[n]
      BY <2>1, <2>2, <2>5 DEF CoverInv, CoverAt
    <2>7. ASSUME NEW i \in Decided, i <= cursor'[n]
          PROVE  Settled(n, i)'
      <3>1. CASE i <= cursor[n]
        BY <2>3, <3>1 DEF CoverInv, CoverAt
      <3>2. CASE i = Projection!Row(n)
        BY <2>1, <2>3, <3>2 DEF CoverInv, CoverAt
      <3>3. CASE i < Projection!Row(n) /\ i # Projection!Row(n)
        <4>1. i \notin round[n].batch
          BY <2>1, <3>3
        <4>2. Settled(n, i)
          BY <2>1, <3>3, <4>1 DEF CoverInv, CoverAt
        <4>3. QED
          BY <2>3, <4>2
      <3>4. i \in Nat
        BY <2>5
      <3>5. QED
        BY <2>1, <2>2, <2>5, <2>7, <3>1, <3>2, <3>3, <3>4
    <2>8. CoverAt(n)'
      BY <2>2, <2>6, <2>7 DEF CoverAt
    <2>9. QED
      BY <2>4, <2>8 DEF CoverInv
  <1>6. ASSUME NEW n \in Nodes, Projection!Crash(n)
        PROVE  CoverInv'
    <2>1. /\ round'[n] = [pc |-> "idle", batch |-> {}] /\ cursor'[n] = file[n]
          /\ exempt'[n] = {i \in exempt[n] : i <= file[n]}
          /\ UNCHANGED <<file, rows>>
          /\ \A m \in Nodes : m # n =>
               round'[m] = round[m] /\ cursor'[m] = cursor[m] /\ exempt'[m] = exempt[m]
      BY <1>6 DEF Projection!Crash, Projection!Idle, ProjectionTypes
    <2>2. ASSUME NEW m \in Nodes, m # n
          PROVE  CoverAt(m)'
      BY <2>1, <2>2, CoverOfOther DEF Settled
    <2>3. ASSUME NEW i \in Decided, i <= file[n]
          PROVE  Settled(n, i)'
      <3>1. i \in Nat /\ file[n] \in Nat /\ cursor[n] \in Nat /\ file[n] <= cursor[n]
        BY DEF ProjectionTypes, Projection!IndexAssumption, CoverInv, CoverAt
      <3>2. Settled(n, i)
        BY <2>3, <3>1 DEF CoverInv, CoverAt
      <3>3. QED
        BY <2>1, <2>3, <3>2 DEF Settled
    <2>4. CoverAt(n)'
      BY <2>1, <2>3 DEF CoverAt, ProjectionTypes
    <2>5. QED
      BY <2>2, <2>4 DEF CoverInv
  <1>7. ASSUME NEW n \in Nodes, Projection!ResyncSink(n)
        PROVE  CoverInv'
    BY <1>7, CoverKept DEF Projection!ResyncSink, Settled
  <1>8. CASE Projection!SinkLost
    <2>1. \A m \in Nodes : \A i \in Decided : Settled(m, i) => Settled(m, i)'
      BY <1>8 DEF Projection!SinkLost, Settled
    <2>2. QED
      BY <1>8, <2>1, CoverKept DEF Projection!SinkLost
  <1>9. ASSUME NEW n \in Nodes,
               \/ Projection!Apply(n) \/ Projection!Compact(n)
               \/ Projection!Elect(n) \/ Projection!Learn(n)
        PROVE  CoverInv'
    BY <1>1, <1>9 DEF Projection!Apply, Projection!Compact, Projection!Elect, Projection!Learn
  <1>10. ASSUME NEW s \in Projection!Shards, Projection!Commit(s)
         PROVE  CoverInv'
    BY <1>1, <1>10 DEF Projection!Commit
  <1>11. CASE UNCHANGED Projection!vars
    BY <1>1, <1>11 DEF Projection!vars
  <1>12. QED
    BY <1>2, <1>3, <1>4, <1>5, <1>6, <1>7, <1>8, <1>9, <1>10, <1>11
       DEF Projection!Next, Projection!Loop

LEMMA ProjectionInit ==
  ASSUME Projection!IndexAssumption, Projection!Init
  PROVE  ProjectionTypes /\ OnceInv /\ CoverInv
  <1>1. /\ round = [n \in Nodes |-> [pc |-> "idle", batch |-> {}]]
        /\ committed = [s \in Projection!Shards |-> 0]
        /\ applied = [n \in Nodes |-> 0] /\ snapshot = [n \in Nodes |-> 0]
        /\ cursor = [n \in Nodes |-> 0] /\ file = [n \in Nodes |-> 0]
        /\ rows = [k \in Projection!Keys |-> 0]
        /\ exempt = [n \in Nodes |-> {}]
    BY DEF Projection!Init, Projection!Idle
  <1>2. ProjectionTypes
    BY <1>1 DEF ProjectionTypes, Round
  <1>3. OnceInv
    BY <1>1 DEF OnceInv, Unsettled, Projection!ProjectedOnce
  <1>4. CoverInv
    <2>1. ASSUME NEW n \in Nodes
          PROVE  file[n] = 0 /\ cursor[n] = 0 /\ round[n].pc = "idle"
      BY <1>1
    <2>2. \A i \in Decided : ~(i <= 0)
      BY DEF Projection!IndexAssumption
    <2>3. ASSUME NEW n \in Nodes
          PROVE  CoverAt(n)
      BY <2>1, <2>2 DEF CoverAt
    <2>4. QED
      BY <2>3 DEF CoverInv
  <1>5. QED
    BY <1>2, <1>3, <1>4

\* An audit row is written once at most while no two nodes of a shard are in a round at once
\* and every marker is looked up (projection.rs), whatever is compacted, restarted, set back
\* or lost in between, and however the markers of shards are numbered.
THEOREM RowsAreProjectedOnce ==
  ASSUME Projection!IndexAssumption
  PROVE  Projection!Spec => []Projection!ProjectedOnce
  <1>1. Projection!Init => ProjectionTypes /\ OnceInv
    BY ProjectionInit
  <1>2. ProjectionTypes /\ OnceInv /\ [Projection!Next]_(Projection!vars)
        => (ProjectionTypes /\ OnceInv)'
    BY ProjectionTypesStep, OnceStep
  <1>3. OnceInv => Projection!ProjectedOnce
    BY DEF OnceInv, Projection!ProjectedOnce
  <1>4. QED
    BY <1>1, <1>2, <1>3, PTL DEF Projection!Spec

\* And no cursor passes a decision that has no row (projection.rs; main.rs, the loop), but for
\* those the module names.  Of several shards one would take another's marker for its own.
THEOREM DecisionsReachTheSink ==
  ASSUME Projection!IndexAssumption, Projection!OneShardAssumption
  PROVE  Spec => []ProjectionTrue
  <1> DEFINE Inv == part = "projection" => ProjectionTypes /\ OnceInv /\ CoverInv
  <1>1. Init => Inv
    BY ProjectionInit DEF Init
  <1>2. Inv /\ [Next]_vars => Inv'
    BY PartStep, ProjectionTypesStep, OnceStep, CoverStep
  <1>3. Inv => ProjectionTrue
    <2> SUFFICES ASSUME Inv, part = "projection",
                        NEW n \in Nodes, NEW i \in Decided \ exempt[n], i <= file[n]
                 PROVE  rows[<<ShardOf[n], i>>] > 0
      BY DEF OnceInv, ProjectionTrue, Projection!ProjectionTrue, Projection!ProjectedOnce,
             Projection!CursorCovers
    <2>1. i \in Nat /\ file[n] \in Nat /\ cursor[n] \in Nat /\ file[n] <= cursor[n]
      BY DEF ProjectionTypes, Projection!IndexAssumption, CoverInv, CoverAt
    <2>2. i <= cursor[n]
      BY <2>1
    <2>3. QED
      BY <2>2 DEF CoverInv, CoverAt, Settled
  <1>4. QED
    BY <1>1, <1>2, <1>3, PTL DEF Spec

-----------------------------------------------------------------------------
(* The clocks. *)

ErrOf(r) == IF (r + 1) \div 2 >= r - CorrectionCap THEN (r + 1) \div 2 ELSE r - CorrectionCap

Sample == [offset : Int, rtt : Nat, age : Nat, err : Nat]

\* A sample is off by err at most, and of two round trips the shorter is the better.
Sound(s) ==
  /\ s \in Sample
  /\ Clock!Abs(s.offset) - Clock!Abs(offset) <= s.err
  /\ Clock!Abs(offset) - Clock!Abs(s.offset) <= s.err
  /\ s.rtt > 0 => s.err = ErrOf(s.rtt)

ClockInv ==
  /\ offset \in Int
  /\ samples \in [Clock!Sides -> Seq(Sample)]
  /\ \A n \in Clock!Sides : \A i \in 1 .. Len(samples[n]) : Sound(samples[n][i])

LEMMA TwoNumbers ==
  ASSUME NEW a \in Int, NEW b \in Int
  PROVE  /\ Clock!Max({a, b}) = IF a >= b THEN a ELSE b
         /\ Clock!Min({a, b}) = IF a <= b THEN a ELSE b
  BY DEF Clock!Max, Clock!Min

LEMMA ErrGrows ==
  ASSUME Clock!ClockAssumption, NEW q \in Nat, NEW r \in Nat, q <= r
  PROVE  ErrOf(q) <= ErrOf(r) /\ ErrOf(q) \in Nat
  BY DEF ErrOf, Clock!ClockAssumption

LEMMA RoundTripSound ==
  ASSUME Clock!ClockAssumption, offset \in Int, NEW n \in Clock!Sides,
         NEW out \in Delays, NEW back \in Delays
  PROVE  Sound(Clock!RoundTrip(n, out, back))
  <1>1. out \in Nat /\ back \in Nat /\ CorrectionCap \in Nat
    BY DEF Clock!ClockAssumption
  <1> DEFINE rtt == out + back
             half == rtt \div 2
             err == ErrOf(rtt)
             cut == IF half <= CorrectionCap THEN half ELSE CorrectionCap
  <1>2. rtt \in Nat /\ half \in Nat /\ half + half <= rtt /\ err \in Nat
        /\ cut \in Nat /\ cut <= err /\ err = rtt - cut
    BY <1>1 DEF ErrOf
  <1>3. Clock!RoundTrip(n, out, back) =
          [offset |-> Clock!Ahead(n) - back + cut, rtt |-> rtt, age |-> 0, err |-> err]
    <2>1. Clock!Min({half, CorrectionCap}) = cut
      <3>1. half \in Int /\ CorrectionCap \in Int
        BY <1>1, <1>2
      <3> HIDE DEF half
      <3>2. QED
        BY <3>1, TwoNumbers
    <2>2. Clock!Max({(rtt + 1) \div 2, rtt - CorrectionCap}) = err
      BY <1>1, <1>2, TwoNumbers DEF ErrOf
    <2>3. QED
      BY <2>1, <2>2 DEF Clock!RoundTrip
  <1>4. Clock!Ahead(n) \in Int /\ Clock!Abs(Clock!Ahead(n)) = Clock!Abs(offset)
    BY DEF Clock!Ahead, Clock!Abs
  <1>5. back \in Nat /\ back <= rtt /\ cut + err = rtt
    BY <1>1, <1>2
  <1>7. rtt > 0 => err = ErrOf(rtt)
    OBVIOUS
  <1> HIDE DEF rtt, half, err, cut
  <1>6. QED
    BY <1>2, <1>3, <1>4, <1>5, <1>7 DEF Sound, Sample, Clock!Abs

LEMMA OneWaySound ==
  ASSUME Clock!ClockAssumption, offset \in Int, NEW n \in Clock!Sides, NEW d \in Delays
  PROVE  Sound(Clock!OneWay(n, d))
  <1>1. d \in Nat
    BY DEF Clock!ClockAssumption
  <1>2. QED
    BY <1>1 DEF Sound, Sample, Clock!OneWay, Clock!Abs, Clock!Ahead

\* What the filter takes is a sample of the window, and the best of its kind.
LEMMA FilteredIsBest ==
  ASSUME ClockInv, NEW n \in Clock!Sides, samples[n] # <<>>
  PROVE  LET f == Clock!Filtered(n) IN
         /\ f \in Range(samples[n])
         /\ Clock!RoundTrips(n) # {} =>
              f \in Clock!RoundTrips(n) /\ \A s \in Clock!RoundTrips(n) : f.rtt <= s.rtt
         /\ Clock!RoundTrips(n) = {} =>
              \A s \in Range(samples[n]) : Clock!Abs(f.offset) <= Clock!Abs(s.offset)
  <1> DEFINE w == samples[n]
             all == Range(w)
  <1>1. /\ w \in Seq(Sample) /\ Len(w) \in Nat \ {0} /\ DOMAIN w = 1 .. Len(w)
        /\ all # {} /\ all \subseteq Sample /\ \A i \in 1 .. Len(w) : w[i] \in all
        /\ \A s \in all : \E i \in 1 .. Len(w) : w[i] = s
    BY DEF ClockInv, Range
  <1>2. Clock!RoundTrips(n) \subseteq all
    BY DEF Clock!RoundTrips, Clock!Range, Range
  <1>3. Clock!Used(n) # {} /\ Clock!Used(n) \subseteq all
    <2>1. CASE Clock!RoundTrips(n) # {}
      <3> DEFINE T == {s.rtt : s \in Clock!RoundTrips(n)}
      <3>1. T \subseteq Nat
        BY <1>1, <1>2 DEF Sample
      <3>4. T # {}
        BY <2>1
      <3>2. PICK x \in T : \A y \in T : x <= y
        BY <3>1, <3>4, LeastNat
      <3>3. PICK s \in Clock!RoundTrips(n) : s.rtt = x
        OBVIOUS
      <3>5. s \in Clock!Used(n)
        BY <2>1, <3>2, <3>3 DEF Clock!Used
      <3>6. QED
        BY <1>2, <2>1, <3>5 DEF Clock!Used
    <2>2. CASE Clock!RoundTrips(n) = {}
      <3> DEFINE T == {Clock!Abs(s.offset) : s \in all}
      <3>1. T \subseteq Nat
        <4>1. ASSUME NEW s \in all
              PROVE  Clock!Abs(s.offset) \in Nat
          <5>1. s \in Sample
            BY <1>1
          <5>2. QED
            BY <5>1 DEF Sample, Clock!Abs
        <4>2. QED
          BY <4>1
      <3>4. T # {}
        BY <1>1
      <3>2. PICK x \in T : \A y \in T : x <= y
        BY <3>1, <3>4, LeastNat
      <3>3. QED
        BY <1>1, <2>2, <3>2 DEF Clock!Used, Clock!Range, Range
    <2>3. QED
      BY <2>1, <2>2
  <1>4. \E i \in DOMAIN w :
          w[i] \in Clock!Used(n) /\ \A j \in 1 .. i - 1 : w[j] \notin Clock!Used(n)
    <2> DEFINE T == {i \in 1 .. Len(w) : w[i] \in Clock!Used(n)}
    <2>1. T \subseteq Nat
      OBVIOUS
    <2>4. T # {}
      <3>1. PICK u \in Clock!Used(n) : u \in all
        BY <1>3
      <3>2. PICK i \in 1 .. Len(w) : w[i] = u
        BY <1>1, <3>1
      <3> QED
        BY <3>1, <3>2
    <2>2. PICK x \in T : \A y \in T : x <= y
      BY <2>1, <2>4, LeastNat
    <2>3. x \in DOMAIN w /\ w[x] \in Clock!Used(n)
      BY <1>1
    <2>5. ASSUME NEW j \in 1 .. x - 1, w[j] \in Clock!Used(n)
          PROVE  FALSE
      <3>1. j \in 1 .. Len(w) /\ j < x
        BY <1>1, <2>3
      <3>2. j \in T
        BY <3>1, <2>5
      <3>3. QED
        BY <2>2, <3>1, <3>2
    <2>6. QED
      BY <2>3, <2>5
  <1>5. Clock!Filtered(n) \in Clock!Used(n)
    <2> DEFINE P(i) == w[i] \in Clock!Used(n) /\ \A j \in 1 .. i - 1 : w[j] \notin Clock!Used(n)
               i0 == CHOOSE i \in DOMAIN w : P(i)
    <2>1. \E i \in DOMAIN w : P(i)
      BY <1>4
    <2>2. P(i0)
      <3> HIDE DEF P
      <3> QED  BY <2>1
    <2>3. Clock!Filtered(n) = w[i0]
      BY DEF Clock!Filtered
    <2>4. QED
      BY <2>2, <2>3
  <1>6. QED
    BY <1>1, <1>2, <1>3, <1>5 DEF Clock!Used, Clock!Range, Range

LEMMA PushSound ==
  ASSUME Clock!ClockAssumption, NEW w \in Seq(Sample), NEW s, Sound(s),
         \A i \in 1 .. Len(w) : Sound(w[i])
  PROVE  /\ Clock!Push(w, s) \in Seq(Sample)
         /\ \A i \in 1 .. Len(Clock!Push(w, s)) : Sound(Clock!Push(w, s)[i])
  <1> DEFINE v == IF Len(w) >= Window THEN Tail(w) ELSE w
  <1>1. v \in Seq(Sample) /\ \A i \in 1 .. Len(v) : Sound(v[i])
    <2>1. CASE Len(w) >= Window
      <3>1. w # <<>>
        BY <2>1 DEF Clock!ClockAssumption
      <3>2. Tail(w) \in Seq(Sample) /\ Len(Tail(w)) = Len(w) - 1
            /\ \A i \in 1 .. Len(Tail(w)) : Tail(w)[i] = w[i + 1]
        BY <3>1, HeadTailProperties
      <3>3. Len(w) \in Nat
        OBVIOUS
      <3>4. ASSUME NEW i \in 1 .. Len(Tail(w))
            PROVE  i + 1 \in 1 .. Len(w)
        BY <3>2, <3>3
      <3>5. QED
        BY <2>1, <3>2, <3>4
    <2>2. CASE ~(Len(w) >= Window)
      BY <2>2
    <2>3. QED
      BY <2>1, <2>2
  <1>2. Clock!Push(w, s) = Append(v, s)
    BY DEF Clock!Push
  <1> HIDE DEF v
  <1>3. s \in Sample
    BY DEF Sound
  <1>4. /\ Append(v, s) \in Seq(Sample) /\ Len(Append(v, s)) = Len(v) + 1
        /\ \A i \in 1 .. Len(v) : Append(v, s)[i] = v[i]
        /\ Append(v, s)[Len(v) + 1] = s
    BY <1>1, <1>3, AppendProperties
  <1>5. QED
    BY <1>1, <1>2, <1>4

LEMMA OlderSample ==
  ASSUME NEW e \in Sample
  PROVE  LET o == [e EXCEPT !.age = @ + 1] IN
         o \in Sample /\ o.offset = e.offset /\ o.rtt = e.rtt /\ o.err = e.err
  <1>1. [e EXCEPT !.age = @ + 1] \in Sample
    BY DEF Sample
  <1>2. QED
    BY <1>1 DEF Sample

LEMMA AgedSound ==
  ASSUME NEW w \in Seq(Sample), \A i \in 1 .. Len(w) : Sound(w[i])
  PROVE  /\ Clock!Aged(w) \in Seq(Sample)
         /\ \A i \in 1 .. Len(Clock!Aged(w)) : Sound(Clock!Aged(w)[i])
  <1> DEFINE gone == {i \in DOMAIN w : w[i].age >= Ttl}
             k == Cardinality(gone)
             aged == [i \in 1 .. Len(w) - k |-> [w[i + k] EXCEPT !.age = @ + 1]]
  <1>1. DOMAIN w = 1 .. Len(w) /\ Len(w) \in Nat
    OBVIOUS
  <1>2. IsFiniteSet(1 .. Len(w)) /\ Cardinality(1 .. Len(w)) = Len(w)
    BY <1>1, FS_Interval
  <1>3. k \in Nat /\ k <= Len(w)
    <2>1. gone \subseteq 1 .. Len(w)
      BY <1>1
    <2>2. QED
      BY <1>2, <2>1, FS_Subset, FS_CardinalityType
  <1>4. Clock!Aged(w) = aged
    <2>1. k = Clock!Cardinality(gone)
      BY Zenon DEF Clock!Cardinality, Cardinality
    <2> HIDE DEF k
    <2>2. QED
      BY <2>1 DEF Clock!Aged
  <1> HIDE DEF gone, k
  <1>5. ASSUME NEW i \in 1 .. Len(w) - k
        PROVE  Sound([w[i + k] EXCEPT !.age = @ + 1])
    <2>1. i + k \in 1 .. Len(w)
      BY <1>1, <1>3
    <2>2. Sound(w[i + k])
      BY <2>1
    <2>3. QED
      BY <2>2, OlderSample DEF Sound
  <1>6. aged \in [1 .. Len(w) - k -> Sample] /\ Len(w) - k \in Nat
    BY <1>1, <1>3, <1>5 DEF Sound
  <1>7. aged \in Seq(Sample) /\ Len(aged) = Len(w) - k
    BY <1>6
  <1>8. QED
    BY <1>4, <1>5, <1>7

LEMMA ToldSound ==
  ASSUME Clock!ClockAssumption, ClockInv, NEW d \in Delays
  PROVE  Sound(Clock!Told(d))
  <1> DEFINE est == Clock!Filtered("leader")
  <1>1. CASE est # None /\ est.offset # 0
    <2>1. CASE samples["leader"] = <<>>
      BY <1>1, <2>1 DEF Clock!Filtered
    <2>2. CASE samples["leader"] # <<>>
      <3>1. est \in Range(samples["leader"])
        BY <2>2, FilteredIsBest DEF Clock!Sides
      <3>2. Sound(est)
        BY <3>1 DEF ClockInv, Clock!Sides, Range
      <3>3. Clock!Told(d) =
              [offset |-> Clock!Abs(est.offset), rtt |-> 0, age |-> 0, err |-> est.err]
        BY <1>1 DEF Clock!Told
      <3> HIDE DEF est
      <3>4. QED
        BY <3>2, <3>3 DEF Sound, Sample, Clock!Abs, ClockInv
    <2>3. QED
      BY <2>1, <2>2
  <1>2. CASE ~(est # None /\ est.offset # 0)
    <2>1. Clock!Told(d) = Clock!OneWay("follower", d)
      BY <1>2 DEF Clock!Told
    <2>2. QED
      BY <2>1, OneWaySound DEF ClockInv, Clock!Sides
  <1>3. QED
    BY <1>1, <1>2

LEMMA ClockStep ==
  ASSUME Clock!ClockAssumption, ClockInv, [Clock!Next]_(Clock!vars)
  PROVE  ClockInv'
  <1>1. ASSUME NEW f \in [Clock!Sides -> Seq(Sample)], samples' = f, offset' = offset,
               \A n \in Clock!Sides : \A i \in 1 .. Len(f[n]) : Sound(f[n][i])
        PROVE  ClockInv'
    BY <1>1 DEF ClockInv, Sound
  <1>2. ASSUME NEW n \in Clock!Sides, NEW d \in Delays, Clock!Vote(n, d)
        PROVE  ClockInv'
    <2> DEFINE f == [samples EXCEPT ![n] = Clock!Push(@, Clock!OneWay(n, d))]
    <2>1. Sound(Clock!OneWay(n, d))
      BY OneWaySound DEF ClockInv
    <2>2. /\ f[n] \in Seq(Sample) /\ \A i \in 1 .. Len(f[n]) : Sound(f[n][i])
          /\ \A m \in Clock!Sides : m # n => f[m] = samples[m]
      BY <2>1, PushSound DEF ClockInv
    <2>3. samples' = f /\ offset' = offset /\ f \in [Clock!Sides -> Seq(Sample)]
      BY <1>2, <2>2 DEF Clock!Vote, ClockInv
    <2> HIDE DEF f
    <2>4. QED
      BY <1>1, <2>2, <2>3 DEF ClockInv
  <1>3. ASSUME NEW out \in Delays, NEW back \in Delays, Clock!Heartbeat(out, back)
        PROVE  ClockInv'
    <2> DEFINE f == Clock!Push(samples["follower"], Clock!Told(out))
               l == Clock!Push(samples["leader"], Clock!RoundTrip("leader", out, back))
    <2>1. Sound(Clock!Told(out)) /\ Sound(Clock!RoundTrip("leader", out, back))
      BY ToldSound, RoundTripSound DEF ClockInv, Clock!Sides
    <2>2. /\ f \in Seq(Sample) /\ \A i \in 1 .. Len(f) : Sound(f[i])
          /\ l \in Seq(Sample) /\ \A i \in 1 .. Len(l) : Sound(l[i])
      BY <2>1, PushSound DEF ClockInv, Clock!Sides
    <2>3. offset' = offset /\ samples' \in [Clock!Sides -> Seq(Sample)]
          /\ samples'["follower"] = f /\ samples'["leader"] \in {l, samples["leader"]}
      BY <1>3, <2>2 DEF Clock!Heartbeat, ClockInv, Clock!Sides
    <2> HIDE DEF f, l
    <2>4. QED
      BY <1>1, <2>2, <2>3 DEF ClockInv, Clock!Sides
  <1>4. ASSUME Clock!Elapse
        PROVE  ClockInv'
    <2>1. \A n \in Clock!Sides :
            /\ Clock!Aged(samples[n]) \in Seq(Sample)
            /\ \A i \in 1 .. Len(Clock!Aged(samples[n])) : Sound(Clock!Aged(samples[n])[i])
      BY AgedSound DEF ClockInv
    <2>2. QED
      BY <1>1, <1>4, <2>1 DEF Clock!Elapse
  <1>5. CASE UNCHANGED Clock!vars
    BY <1>1, <1>5 DEF Clock!vars, ClockInv
  <1>6. QED
    BY <1>2, <1>3, <1>4, <1>5 DEF Clock!Next

\* The two halves of the verdict: what the filter takes is as good as any sample.
LEMMA VerdictIsSound ==
  ASSUME Clock!ClockAssumption, ClockInv
  PROVE  Clock!SkewVerdict
  <1> DEFINE off == Clock!Abs(offset)
  <1>1. off \in Nat /\ MaxSkew \in Nat /\ MinSamples \in Nat \ {0}
    BY DEF ClockInv, Clock!Abs, Clock!ClockAssumption
  <1>2. ASSUME NEW n \in Clock!Sides, Len(samples[n]) >= MinSamples
        PROVE  /\ Clock!Filtered(n) \in Range(samples[n])
               /\ \A s \in Range(samples[n]) : Sound(s) /\ Clock!Abs(s.offset) \in Nat
               /\ Clock!RoundTrips(n) \subseteq Range(samples[n])
               /\ \A s \in Clock!RoundTrips(n) :
                    /\ Clock!Filtered(n) \in Clock!RoundTrips(n)
                    /\ Clock!Filtered(n).err <= s.err
    <2>1. samples[n] # <<>>
      BY <1>1, <1>2
    <2>2. Clock!RoundTrips(n) = {s \in Range(samples[n]) : s.rtt > 0}
      BY DEF Clock!RoundTrips, Clock!Range, Range
    <2>3. \A s \in Range(samples[n]) : Sound(s)
      BY DEF ClockInv, Range
    <2>4. \A s \in Range(samples[n]) : Clock!Abs(s.offset) \in Nat
      BY <2>3 DEF Sound, Sample, Clock!Abs
    <2>5. ASSUME NEW s \in Clock!RoundTrips(n)
          PROVE  /\ Clock!Filtered(n) \in Clock!RoundTrips(n)
                 /\ Clock!Filtered(n).err <= s.err
      <3>1. Clock!Filtered(n) \in Clock!RoundTrips(n) /\ Clock!Filtered(n).rtt <= s.rtt
        BY <2>1, FilteredIsBest
      <3>2. /\ s.rtt \in Nat /\ Clock!Filtered(n).rtt \in Nat
            /\ s.err = ErrOf(s.rtt) /\ Clock!Filtered(n).err = ErrOf(Clock!Filtered(n).rtt)
        BY <2>2, <2>3, <3>1 DEF Sound, Sample
      <3>3. QED
        BY <3>1, <3>2, ErrGrows
    <2>6. QED
      BY <2>1, <2>2, <2>3, <2>4, <2>5, FilteredIsBest
  <1>3. Clock!NoFalseAlarm
    <2>1. SUFFICES ASSUME NEW n \in Clock!Sides, Clock!SkewExceeded(n), ~(off > MaxSkew),
                          NEW s \in IF Clock!RoundTrips(n) # {} THEN Clock!RoundTrips(n)
                                     ELSE Clock!Range(samples[n])
                   PROVE  s.err > MaxSkew - off
      BY DEF Clock!NoFalseAlarm
    <2>2. Len(samples[n]) >= MinSamples /\ Clock!Abs(Clock!Filtered(n).offset) > MaxSkew
      BY <2>1 DEF Clock!SkewExceeded
    <2>3. s \in Range(samples[n]) /\ Clock!Range(samples[n]) = Range(samples[n])
      BY <1>2, <2>1, <2>2 DEF Clock!Range, Range
    <2>4. samples[n] # <<>>
      BY <1>1, <2>2
    <2>5. /\ Sound(s) /\ Sound(Clock!Filtered(n))
          /\ Clock!Abs(s.offset) \in Nat /\ Clock!Abs(Clock!Filtered(n).offset) \in Nat
      BY <1>2, <2>2, <2>3
    <2>6. s.err \in Nat /\ Clock!Filtered(n).err \in Nat
      BY <2>5 DEF Sound, Sample
    <2>7. CASE Clock!RoundTrips(n) # {}
      <3>1. Clock!Filtered(n).err <= s.err
        BY <1>2, <2>1, <2>2, <2>7
      <3>2. Clock!Abs(Clock!Filtered(n).offset) - off <= Clock!Filtered(n).err
        BY <2>5 DEF Sound
      <3>3. QED
        BY <1>1, <2>2, <2>5, <2>6, <3>1, <3>2
    <2>8. CASE Clock!RoundTrips(n) = {}
      <3>1. Clock!Abs(Clock!Filtered(n).offset) <= Clock!Abs(s.offset)
        BY <2>3, <2>4, <2>8, FilteredIsBest
      <3>2. Clock!Abs(s.offset) - off <= s.err
        BY <2>5 DEF Sound
      <3>3. QED
        BY <1>1, <2>2, <2>5, <2>6, <3>1, <3>2
    <2>9. QED
      BY <2>7, <2>8
  <1>4. Clock!SkewIsFound
    <2>1. SUFFICES ASSUME NEW n \in Clock!Sides, Len(samples[n]) >= MinSamples,
                          NEW s \in Clock!RoundTrips(n), s.err < off - MaxSkew
                   PROVE  Clock!Abs(Clock!Filtered(n).offset) > MaxSkew
      BY DEF Clock!SkewIsFound, Clock!SkewExceeded
    <2>2. /\ Clock!Filtered(n).err <= s.err
          /\ Sound(Clock!Filtered(n)) /\ Sound(s)
          /\ Clock!Abs(Clock!Filtered(n).offset) \in Nat
      BY <1>2, <2>1
    <2>3. off - Clock!Abs(Clock!Filtered(n).offset) <= Clock!Filtered(n).err
          /\ s.err \in Nat /\ Clock!Filtered(n).err \in Nat
      BY <2>2 DEF Sound, Sample
    <2>4. QED
      BY <1>1, <2>1, <2>2, <2>3
  <1>5. QED
    BY <1>3, <1>4 DEF Clock!SkewVerdict

\* The verdict on a peer's clock (ha/clock.rs) is no worse than the best round trip it had:
\* within half of it and the cap the clock is not taken to be out of bounds when it is not,
\* nor in bounds when it is not.
THEOREM SkewIsJudgedByTheSamples ==
  ASSUME Clock!ClockAssumption
  PROVE  Spec => []SkewVerdict
  <1> DEFINE Inv == part = "clock" => ClockInv
  <1>1. Init => Inv
    <2> SUFFICES ASSUME Init, part = "clock"
                 PROVE  ClockInv
      OBVIOUS
    <2>1. offset \in Offsets /\ samples = [n \in Clock!Sides |-> <<>>]
      BY DEF Init, Clock!Init
    <2>2. QED
      BY <2>1 DEF ClockInv, Clock!ClockAssumption
  <1>2. Inv /\ [Next]_vars => Inv'
    BY PartStep, ClockStep
  <1>3. Inv => SkewVerdict
    BY VerdictIsSound DEF SkewVerdict
  <1>4. QED
    BY <1>1, <1>2, <1>3, PTL DEF Spec

-----------------------------------------------------------------------------
(* The delivery of messages. *)

\* The answer to p is on its way, or was lost, in a batch of t.
Holds(t, p) == <<p, Send!Append>> \in task[t].sending \/ p \in task[t].lost

\* What a batch sends, or has lost, it claimed: its end lets it go.
SendInv ==
  /\ task \in [Tasks -> Send!Batch \cup {None}]
  /\ inflight \subseteq Peers
  /\ \A t \in Send!Running : \A p \in Peers : Holds(t, p) => p \in task[t].claimed
  /\ Send!LeftOutWhileSending

LEMMA AppendedFacts ==
  ASSUME NEW outs \in SUBSET Send!Messages
  PROVE  /\ Send!Appended(outs) \subseteq Peers
         /\ \A p : p \in Send!Appended(outs) <=> <<p, Send!Append>> \in outs
  BY DEF Send!Appended, Send!Messages

LEMMA DeliverFacts ==
  ASSUME Send!NoneAssumption, SendInv, NEW t \in Tasks, task[t] = None,
         NEW outs \in SUBSET Send!Messages, NEW tick \in BOOLEAN,
         Send!Deliver(t, outs, tick)
  PROVE /\ task' \in [Tasks -> Send!Batch \cup {None}]
        /\ \A s \in Tasks : s # t => task'[s] = task[s]
        /\ task'[t] # None
        /\ \A p \in Peers :
             /\ p \in task'[t].claimed <=> <<p, Send!Append>> \in outs
             /\ Holds(t, p)' <=> <<p, Send!Append>> \in outs
  <1> USE DEF Send!NoneAssumption
  <1>1. PICK sent \in SUBSET outs :
          task' = [task EXCEPT ![t] =
                     [claimed |-> Send!Appended(outs), sending |-> sent,
                      lost |-> Send!Appended(outs \ sent), tick |-> tick]]
    BY DEF Send!Deliver
  <1>2. /\ Send!Appended(outs) \subseteq Peers /\ Send!Appended(outs \ sent) \subseteq Peers
        /\ \A p : p \in Send!Appended(outs) <=> <<p, Send!Append>> \in outs
        /\ \A p : p \in Send!Appended(outs \ sent) <=> <<p, Send!Append>> \in outs \ sent
    BY <1>1, AppendedFacts
  <1>3. task'[t] = [claimed |-> Send!Appended(outs), sending |-> sent,
                    lost |-> Send!Appended(outs \ sent), tick |-> tick]
    BY <1>1 DEF SendInv
  <1>4. task'[t] \in Send!Batch
    BY <1>1, <1>2, <1>3 DEF Send!Batch
  <1>5. QED
    BY <1>1, <1>2, <1>3, <1>4 DEF SendInv, Holds

\* One batch loses a message it was sending, or nothing; what is left out of a
\* heartbeat is still in a batch.
LEMMA OneSentKeepsSendInv ==
  ASSUME SendInv, NEW t \in Tasks, task[t] # None, task'[t] # None,
         task' \in [Tasks -> Send!Batch \cup {None}],
         \A s \in Tasks : s # t => task'[s] = task[s],
         task'[t].claimed = task[t].claimed,
         \A p \in Peers : Holds(t, p)' => Holds(t, p),
         \A p \in inflight' : p \in inflight /\ (Holds(t, p) => Holds(t, p)')
  PROVE  SendInv'
  <1>1. inflight' \subseteq Peers
    BY DEF SendInv
  <1>2. ASSUME NEW s \in Tasks, NEW p \in Peers, task'[s] # None, Holds(s, p)'
        PROVE  p \in task'[s].claimed
    <2>1. CASE s = t
      BY <1>2, <2>1 DEF SendInv, Send!Running
    <2>2. CASE s # t
      <3>1. Holds(s, p) /\ s \in Send!Running
        BY <1>2, <2>2 DEF Holds, Send!Running
      <3> QED
        BY <2>2, <3>1 DEF SendInv
    <2> QED
      BY <2>1, <2>2
  <1>3. ASSUME NEW p \in inflight'
        PROVE  \E s \in Send!Running' : Holds(s, p)'
    <2>1. PICK s \in Send!Running : Holds(s, p)
      BY <1>3 DEF SendInv, Send!LeftOutWhileSending, Holds
    <2>2. CASE s = t
      BY <1>3, <2>1, <2>2 DEF Send!Running
    <2>3. CASE s # t
      BY <2>1, <2>3 DEF Send!Running, Holds
    <2> QED
      BY <2>2, <2>3
  <1>4. QED
    BY <1>1, <1>2, <1>3 DEF SendInv, Send!Running, Send!LeftOutWhileSending, Holds

LEMMA SendStep ==
  ASSUME Send!NoneAssumption, SendInv, [Send!Next]_(Send!vars)
  PROVE  SendInv'
  <1> USE DEF SendInv, Send!Running, Send!NoneAssumption
  <1>1. ASSUME NEW t \in Tasks, NEW kind \in {Send!Append, "request_vote"}, Send!Tick(t, kind)
        PROVE  SendInv'
    <2> DEFINE outs == Send!ClaimOutbound({m \in Send!Messages : m[2] = kind})
    <2>1. outs \in SUBSET Send!Messages
      BY DEF Send!ClaimOutbound
    <2> HIDE DEF outs
    <2>2. task[t] = None /\ Send!Deliver(t, outs, TRUE)
          /\ inflight' = inflight \cup Send!Appended(outs)
      BY <1>1 DEF Send!Tick, outs
    <2>3. /\ task' \in [Tasks -> Send!Batch \cup {None}]
          /\ \A s \in Tasks : s # t => task'[s] = task[s]
          /\ task'[t] # None
          /\ \A p \in Peers :
               /\ p \in task'[t].claimed <=> <<p, Send!Append>> \in outs
               /\ Holds(t, p)' <=> <<p, Send!Append>> \in outs
      BY <2>1, <2>2, DeliverFacts
    <2>4. inflight' \subseteq Peers
          /\ \A p \in inflight' : p \in inflight \/ <<p, Send!Append>> \in outs
      BY <2>1, <2>2, AppendedFacts
    <2>5. QED
      BY <2>2, <2>3, <2>4 DEF Holds, Send!LeftOutWhileSending
  <1>2. ASSUME NEW t \in Tasks, NEW o \in Send!Messages, Send!Answer(t, o)
        PROVE  SendInv'
    <2>1. task[t] = None /\ Send!Deliver(t, {o}, FALSE) /\ inflight' = inflight
      BY <1>2 DEF Send!Answer
    <2>2. /\ task' \in [Tasks -> Send!Batch \cup {None}]
          /\ \A s \in Tasks : s # t => task'[s] = task[s]
          /\ task'[t] # None
          /\ \A p \in Peers :
               /\ p \in task'[t].claimed <=> <<p, Send!Append>> \in {o}
               /\ Holds(t, p)' <=> <<p, Send!Append>> \in {o}
      BY <2>1, DeliverFacts, {o} \in SUBSET Send!Messages, FALSE \in BOOLEAN
    <2>3. QED
      BY <2>1, <2>2 DEF Holds, Send!LeftOutWhileSending
  <1>3. ASSUME NEW t \in Tasks, NEW o \in Send!Messages, Send!Sent(t, o)
        PROVE  SendInv'
    <2>7. {o} \in SUBSET Send!Messages
      OBVIOUS
    <2>8. \A p : p \in Send!Appended({o}) <=> <<p, Send!Append>> = o
      BY <2>7, AppendedFacts
    <2>1. inflight' = inflight \ Send!Appended({o}) /\ task[t] \in Send!Batch
          /\ \A p : p \in Send!Appended({o}) <=> <<p, Send!Append>> = o
      BY <1>3, <2>8 DEF Send!Sent
    <2>2. /\ task' \in [Tasks -> Send!Batch \cup {None}]
          /\ \A s \in Tasks : s # t => task'[s] = task[s]
          /\ task'[t] = [task[t] EXCEPT !.sending = @ \ {o}] /\ task'[t] \in Send!Batch
      BY <1>3, <2>1 DEF Send!Sent, Send!Batch
    <2>3. /\ task'[t].claimed = task[t].claimed /\ task'[t].lost = task[t].lost
          /\ task'[t].sending = task[t].sending \ {o}
      BY <2>1, <2>2 DEF Send!Batch
    <2>4. /\ \A p \in Peers : Holds(t, p)' => Holds(t, p)
          /\ \A p \in inflight' : p \in inflight /\ (Holds(t, p) => Holds(t, p)')
      BY <2>1, <2>3 DEF Holds
    <2>5. task[t] # None /\ task'[t] # None
      BY <1>3, <2>2 DEF Send!Sent
    <2>6. QED
      BY <2>2, <2>3, <2>4, <2>5, OneSentKeepsSendInv
  <1>4. ASSUME NEW t \in Tasks, NEW o \in Send!Messages, Send!SendDies(t, o)
        PROVE  SendInv'
    <2>7. {o} \in SUBSET Send!Messages
      OBVIOUS
    <2>8. /\ Send!Appended({o}) \subseteq Peers
          /\ \A p : p \in Send!Appended({o}) <=> <<p, Send!Append>> = o
      BY <2>7, AppendedFacts
    <2>1. inflight' = inflight /\ task[t] \in Send!Batch /\ o \in task[t].sending
          /\ Send!Appended({o}) \subseteq Peers
          /\ \A p : p \in Send!Appended({o}) <=> <<p, Send!Append>> = o
      BY <1>4, <2>8 DEF Send!SendDies
    <2>2. task' = [task EXCEPT ![t] =
                    [task[t] EXCEPT !.sending = @ \ {o}, !.lost = @ \cup Send!Appended({o})]]
      BY <1>4, <2>1 DEF Send!SendDies
    <2>9. [task[t] EXCEPT !.sending = @ \ {o}, !.lost = @ \cup Send!Appended({o})] \in Send!Batch
      BY <2>1 DEF Send!Batch
    <2>4. /\ task' \in [Tasks -> Send!Batch \cup {None}]
          /\ \A s \in Tasks : s # t => task'[s] = task[s]
          /\ task'[t].claimed = task[t].claimed /\ task'[t] # None
          /\ task'[t].sending = task[t].sending \ {o}
          /\ task'[t].lost = task[t].lost \cup Send!Appended({o})
      BY <2>1, <2>2, <2>9 DEF Send!Batch
    <2>3. /\ \A p \in Peers : Holds(t, p)' => Holds(t, p)
          /\ \A p \in inflight' : p \in inflight /\ (Holds(t, p) => Holds(t, p)')
      BY <2>1, <2>4 DEF Holds
    <2>5. task[t] # None
      BY <1>4 DEF Send!SendDies
    <2>6. QED
      BY <2>3, <2>4, <2>5, OneSentKeepsSendInv
  <1>5. ASSUME NEW t \in Tasks, Send!BatchEnds(t)
        PROVE  SendInv'
    BY <1>5 DEF Send!BatchEnds, Holds, Send!LeftOutWhileSending
  <1>6. CASE UNCHANGED Send!vars
    BY <1>6 DEF Send!vars, Holds, Send!LeftOutWhileSending
  <1>7. QED
    BY <1>1, <1>2, <1>3, <1>4, <1>5, <1>6 DEF Send!Next

\* A peer is left out of the heartbeats (claim_outbound) only while a batch that claimed it
\* is under way: its end lets the peer go, whatever call was lost and whoever died.
THEOREM PeersAreLeftOutBriefly ==
  ASSUME Send!NoneAssumption
  PROVE  Spec => []LeftOutWhileSending
  <1> DEFINE Inv == part = "send" => SendInv
  <1>1. Init => Inv
    BY DEF Init, Send!Init, SendInv, Send!Running, Send!LeftOutWhileSending
  <1>2. Inv /\ [Next]_vars => Inv'
    BY PartStep, SendStep
  <1>3. Inv => LeftOutWhileSending
    BY DEF SendInv, LeftOutWhileSending
  <1>4. QED
    BY <1>1, <1>2, <1>3, PTL DEF Spec

-----------------------------------------------------------------------------
(* The self-check. *)

\* Between the two checks a node has the structural premises of the first.
CheckInv ==
  /\ holds \subseteq SelfCheck!Premises \ {"network"}
  /\ phase = "checked" => SelfCheck!Structural \subseteq heldOnce
  /\ SelfCheck!LacksAreListed

LEMMA CheckStep ==
  ASSUME CheckInv, [SelfCheck!Next]_(SelfCheck!vars)
  PROVE  CheckInv'
  <1> USE DEF CheckInv, SelfCheck!LacksAreListed, SelfCheck!Premises, SelfCheck!Waivable,
              SelfCheck!Structural, SelfCheck!PremisesUnverified
  <1>1. CASE SelfCheck!ServeCluster
    BY <1>1 DEF SelfCheck!ServeCluster, SelfCheck!SelfCheck, SelfCheck!Held,
                SelfCheck!LabOverrideAllows
  <1>2. CASE SelfCheck!Start
    BY <1>2 DEF SelfCheck!Start, SelfCheck!SelfCheck, SelfCheck!Held,
                SelfCheck!LabOverrideAllows, SelfCheck!MeasurePeerNetwork
  <1>3. CASE SelfCheck!Restart
    BY <1>3 DEF SelfCheck!Restart
  <1>4. CASE SelfCheck!Measure
    BY <1>4 DEF SelfCheck!Measure
  <1>5. CASE SelfCheck!Change
    BY <1>5 DEF SelfCheck!Change
  <1>6. CASE UNCHANGED SelfCheck!vars
    BY <1>6 DEF SelfCheck!vars
  <1> QED  BY <1>1, <1>2, <1>3, <1>4, <1>5, <1>6 DEF SelfCheck!Next

\* A node that works without a premise has it in premises_unverified (preflight.rs), whichever
\* of the two checks found it missing and whatever was measured or changed in between.
THEOREM LacksAreAlwaysListed ==
  Spec => []LacksAreListed
  <1> DEFINE Inv == part = "check" => CheckInv
  <1>1. Init => Inv
    BY DEF Init, SelfCheck!Init, CheckInv, SelfCheck!LacksAreListed
  <1>2. Inv /\ [Next]_vars => Inv'
    BY PartStep, CheckStep
  <1>3. Inv => LacksAreListed
    BY DEF CheckInv, LacksAreListed
  <1>4. QED
    BY <1>1, <1>2, <1>3, PTL DEF Spec

-----------------------------------------------------------------------------
(* Users, roles and sessions: SessionsEnd and ChangesBuildOn.  The invariant *)
(* is about the log (LogInv): which states the key-value store has gone      *)
(* through, and that each op was good when it was proposed (Good).           *)
(* Everything else, requests, proposals under way and answered logouts, is   *)
(* judged by the log as it is and stays right as the log grows (...Stays).   *)

(* Records, ops and logs. *)

\* The fields of AuthSessions' values; "none" is what NewUser and NewRole begin with.
UserRecords ==
  [pass : Passwords \cup {"none"}, enabled : {"yes", "no"},
   roles : {"none", "admin", "sink"}, epoch : Nat]
RoleRecords == [desc : {"none", "admin", "sink"}, perms : {"none", "admin", "sink"}]
MarkerRecords == [done : BOOLEAN]
SessionRecords == [epoch : Nat, pass : Passwords]

\* What the record of a key is.
RecordsOf(k) ==
  IF k = "user" THEN UserRecords ELSE IF k = "role" THEN RoleRecords
  ELSE IF k = "marker" THEN MarkerRecords ELSE SessionRecords

AnyRecord == UserRecords \cup RoleRecords \cup MarkerRecords \cup SessionRecords

Cells(k) == {Auth!Absent} \cup [ver : Nat \ {0}, val : RecordsOf(k)]

Kvs ==
  {kv \in [Auth!Keys -> UNION {Cells(k) : k \in Auth!Keys}] :
     \A k \in Auth!Keys : kv[k] \in Cells(k)}

Fields == {"pass", "enabled", "roles", "epoch", "desc", "perms", "done"}

Puts ==
  [type : {"put"}, key : Auth!Keys, val : AnyRecord, expect : SUBSET Nat, touches : SUBSET Fields]

Ops == Puts \cup [type : {"delete"}, key : Auth!Keys]

\* A log holds each op with the state it left.
Logs == Seq([op : Ops, ok : BOOLEAN, kv : Kvs])

(* What an op in a log, on its way or with a request may be, judged by log l. *)

\* A session carries an epoch and the password the user had with it.
Born(l, v) ==
  \E j \in 0..Len(l) :
    /\ Auth!Present(Auth!KvIn(l, j), "user")
    /\ Auth!KvIn(l, j)["user"].val.epoch = v.epoch /\ Auth!KvIn(l, j)["user"].val.pass = v.pass

\* old to new: what was not touched is as it was, and no epoch is used for two passwords.
Follows(k, old, new, touched) ==
  /\ \A g \in DOMAIN new \ touched : new[g] = old[g]
  /\ k = "user" => /\ new.epoch >= old.epoch
                   /\ new.epoch = old.epoch => new.pass = old.pass

\* A compared put was made from the record whose version it names.
MadeFrom(l, o, j) ==
  /\ Auth!Present(Auth!KvIn(l, j), o.key)
  /\ o.expect = {Auth!KvIn(l, j)[o.key].ver}
  /\ Follows(o.key, Auth!KvIn(l, j)[o.key].val, o.val, o.touches)

\* An op that may be proposed: only sessions are deleted, a session is born of a state
\* of the user, and a put that compares was made from a state of its record.
Good(l, o) ==
  /\ o \in Ops
  /\ o.type = "delete" => o.key \in Tokens
  /\ o.type = "put" => o.val \in RecordsOf(o.key)
  /\ o.type = "put" /\ o.key \in Tokens => Born(l, o.val)
  /\ o.type = "put" /\ o.key \in {"user", "role"} /\ o.expect # {} =>
       \E j \in 0..Len(l) : MadeFrom(l, o, j)

-----------------------------------------------------------------------------
(* What is true of a log. *)

\* The record of a key at two points of the log: its version says which it is.
VersionsGrow(l) ==
  \A i, j \in 0..Len(l), k \in {"user", "role"} : i <= j =>
    /\ Auth!KvIn(l, i)[k].ver <= Auth!KvIn(l, j)[k].ver
    /\ Auth!KvIn(l, i)[k].ver = Auth!KvIn(l, j)[k].ver => Auth!KvIn(l, i)[k] = Auth!KvIn(l, j)[k]

\* Every session began with a state of the user.
SessionsBorn(l) ==
  \A i \in 0..Len(l), t \in Tokens :
    Auth!Present(Auth!KvIn(l, i), t) => Born(l, Auth!KvIn(l, i)[t].val)

\* Entry i deletes the session t.
Deletes(l, i, t) == i \in 1..Len(l) /\ l[i].op.type = "delete" /\ l[i].op.key = t

\* A deleted session is gone until it is written again.
DeletedStay(l) ==
  \A i \in 1..Len(l), j \in 1..Len(l), t \in Tokens :
    i <= j /\ Deletes(l, i, t) /\ (\A m \in (i + 1)..j : l[m].op.key # t)
      => ~Auth!Present(Auth!KvIn(l, j), t)

\* NoBlindWrite of AuthSessions, of any log.
NoBlind(l) ==
  \A i \in 1..Len(l) :
    l[i].op.key \in {"user", "role"} /\ l[i].op.type = "put" /\ l[i].op.expect = {}
      => ~Auth!Present(Auth!KvIn(l, i - 1), l[i].op.key)

\* The user's epoch only grows, and one epoch has one password.
OnePassword(l) ==
  \A i, j \in 0..Len(l) :
    i <= j /\ Auth!Present(Auth!KvIn(l, i), "user") =>
      /\ Auth!Present(Auth!KvIn(l, j), "user")
      /\ Auth!KvIn(l, i)["user"].val.epoch <= Auth!KvIn(l, j)["user"].val.epoch
      /\ Auth!KvIn(l, i)["user"].val.epoch = Auth!KvIn(l, j)["user"].val.epoch =>
           Auth!KvIn(l, i)["user"].val.pass = Auth!KvIn(l, j)["user"].val.pass

\* ChangesBuildOn of AuthSessions, of one entry.
BuiltOn(l, i) ==
  l[i].op.type = "put" /\ l[i].ok /\ l[i].op.key \in {"user", "role"}
    /\ Auth!Present(Auth!KvIn(l, i - 1), l[i].op.key)
  => \A g \in DOMAIN l[i].op.val \ l[i].op.touches :
       l[i].op.val[g] = Auth!KvIn(l, i - 1)[l[i].op.key].val[g]

\* Together, and what follows while nothing was written blindly.
LogInv(l) ==
  /\ l \in Logs
  /\ VersionsGrow(l) /\ SessionsBorn(l) /\ DeletedStay(l)
  /\ NoBlind(l) => OnePassword(l) /\ \A i \in 1..Len(l) : BuiltOn(l, i)

-----------------------------------------------------------------------------
(* The key-value store. *)

LEMMA KeysLemma ==
  ASSUME Auth!TokenAssumption
  PROVE  /\ {"user", "role", "marker"} \subseteq Auth!Keys /\ Tokens \subseteq Auth!Keys
         /\ \A t \in Tokens : t \notin {"user", "role", "marker"} /\ RecordsOf(t) = SessionRecords
BY DEF Auth!TokenAssumption, Auth!Keys, RecordsOf

LEMMA CellLemma ==
  ASSUME NEW kv \in Kvs, NEW k \in Auth!Keys
  PROVE  /\ kv[k].ver \in Nat
         /\ Auth!Present(kv, k) => kv[k] = [ver |-> kv[k].ver, val |-> kv[k].val]
                                /\ kv[k].val \in RecordsOf(k)
         /\ ~Auth!Present(kv, k) => kv[k] = Auth!Absent
BY DEF Kvs, Cells, Auth!Present, Auth!Absent

LEMMA EmptyLemma == Auth!EmptyKv \in Kvs /\ \A k \in Auth!Keys : ~Auth!Present(Auth!EmptyKv, k)
BY DEF Auth!EmptyKv, Kvs, Cells, Auth!Present, Auth!Absent

LEMMA KvInLemma ==
  ASSUME NEW l \in Logs, NEW i \in 0..Len(l)
  PROVE  Auth!KvIn(l, i) \in Kvs
<1>1. CASE i = 0
  BY <1>1, EmptyLemma DEF Auth!KvIn
<1>2. CASE i # 0
  <2>1. i \in 1..Len(l)
    BY <1>2
  <2>2. l[i] \in [op : Ops, ok : BOOLEAN, kv : Kvs]
    BY <2>1, ElementOfSeq DEF Logs
  <2> QED  BY <1>2, <2>2 DEF Auth!KvIn
<1> QED  BY <1>1, <1>2

\* The effect of an op on the keys.
LEMMA AfterLemma ==
  ASSUME NEW kv \in Kvs, NEW o \in Ops, o.type = "put" => o.val \in RecordsOf(o.key)
  PROVE  /\ Auth!After(kv, o) \in Kvs /\ Auth!Accepts(kv, o) \in BOOLEAN
         /\ \A k \in Auth!Keys : k # o.key => Auth!After(kv, o)[k] = kv[k]
         /\ o.type = "put" /\ Auth!Accepts(kv, o) =>
              Auth!After(kv, o)[o.key] = [ver |-> kv[o.key].ver + 1, val |-> o.val]
         /\ ~Auth!Accepts(kv, o) => Auth!After(kv, o) = kv
         /\ o.type = "delete" => ~Auth!Present(Auth!After(kv, o), o.key)
<1>1. o.key \in Auth!Keys /\ o.type \in {"put", "delete"}
  BY DEF Ops, Puts
<1>2. kv[o.key].ver \in Nat /\ kv[o.key] \in Cells(o.key)
  BY <1>1, CellLemma DEF Kvs
<1>3. Auth!Accepts(kv, o) \in BOOLEAN
  <2>1. (o.expect \subseteq {kv[o.key].ver}) \in BOOLEAN
    OBVIOUS
  <2>2. (kv[o.key].ver > 0) \in BOOLEAN
    OBVIOUS
  <2> QED  BY <2>1, <2>2, Zenon DEF Auth!Accepts, Auth!Present
<1>4. CASE ~Auth!Accepts(kv, o)
  BY <1>1, <1>3, <1>4 DEF Auth!After, Auth!Accepts
<1>5. CASE Auth!Accepts(kv, o)
  <2> DEFINE c == IF o.type = "put" THEN [ver |-> kv[o.key].ver + 1, val |-> o.val]
                  ELSE Auth!Absent
  <2>1. c \in Cells(o.key)
    BY <1>1, <1>2 DEF Cells
  <2>2. Auth!After(kv, o) = [k \in Auth!Keys |-> IF k # o.key THEN kv[k] ELSE c]
    BY <1>5 DEF Auth!After
  <2>3. o.type = "delete" => c.ver = 0
    BY DEF Auth!Absent
  <2>4. o.type = "put" => c = [ver |-> kv[o.key].ver + 1, val |-> o.val]
    OBVIOUS
  <2> HIDE DEF c
  <2>5. /\ Auth!After(kv, o)[o.key] = c
        /\ \A k \in Auth!Keys : k # o.key => Auth!After(kv, o)[k] = kv[k]
        /\ Auth!After(kv, o) \in Kvs
    BY <1>1, <2>1, <2>2 DEF Kvs
  <2> QED  BY <1>3, <1>5, <2>3, <2>4, <2>5 DEF Auth!Present
<1> QED  BY <1>4, <1>5

LEMMA CommittedLemma ==
  ASSUME NEW l \in Logs, NEW o \in Ops, o.type = "put" => o.val \in RecordsOf(o.key)
  PROVE  /\ Auth!Committed(l, o) \in Logs
         /\ Len(l) \in Nat /\ Len(Auth!Committed(l, o)) = Len(l) + 1
         /\ \A i \in 1..Len(l) : Auth!Committed(l, o)[i] = l[i]
         /\ Auth!Committed(l, o)[Len(l) + 1].op = o
         /\ Auth!Committed(l, o)[Len(l) + 1].ok = Auth!Accepts(Auth!KvIn(l, Len(l)), o)
         /\ \A i \in 0..Len(l) : Auth!KvIn(Auth!Committed(l, o), i) = Auth!KvIn(l, i)
         /\ Auth!KvIn(Auth!Committed(l, o), Len(l) + 1) = Auth!After(Auth!KvIn(l, Len(l)), o)
<1> DEFINE kv == Auth!KvIn(l, Len(l))
           e == [op |-> o, ok |-> Auth!Accepts(kv, o), kv |-> Auth!After(kv, o)]
           l2 == Auth!Committed(l, o)
<1>1. Len(l) \in Nat
  BY LenProperties DEF Logs
<1>2. kv \in Kvs
  BY <1>1, KvInLemma
<1>3. e \in [op : Ops, ok : BOOLEAN, kv : Kvs]
  BY <1>2, AfterLemma
<1>4. l2 = Append(l, e)
  BY DEF Auth!Committed
<1> HIDE DEF e, l2
<1>5. /\ l2 \in Logs /\ Len(l2) = Len(l) + 1
      /\ \A i \in 1..Len(l) : l2[i] = l[i]
      /\ l2[Len(l) + 1] = e
  BY <1>3, <1>4, AppendProperties DEF Logs
<1>6. \A i \in 0..Len(l) : Auth!KvIn(l2, i) = Auth!KvIn(l, i)
  BY <1>1, <1>5 DEF Auth!KvIn
<1>7. Auth!KvIn(l2, Len(l) + 1) = Auth!After(kv, o)
  BY <1>1, <1>5 DEF Auth!KvIn, e
<1>8. e.op = o /\ e.ok = Auth!Accepts(Auth!KvIn(l, Len(l)), o)
  BY DEF e
<1> QED  BY <1>1, <1>5, <1>6, <1>7, <1>8 DEF l2

-----------------------------------------------------------------------------
(* One more op. *)

\* l2 is l with o applied behind it.
Longer(l, o, l2) ==
  /\ l \in Logs /\ l2 \in Logs /\ Len(l) \in Nat /\ Len(l2) = Len(l) + 1
  /\ \A i \in 1..Len(l) : l2[i] = l[i]
  /\ l2[Len(l) + 1].op = o
  /\ l2[Len(l) + 1].ok = Auth!Accepts(Auth!KvIn(l, Len(l)), o)
  /\ \A i \in 0..Len(l) : Auth!KvIn(l2, i) = Auth!KvIn(l, i)
  /\ Auth!KvIn(l2, Len(l) + 1) = Auth!After(Auth!KvIn(l, Len(l)), o)
  /\ Auth!KvIn(l, Len(l)) \in Kvs

LEMMA LongerLemma ==
  ASSUME NEW l \in Logs, NEW o, Good(l, o)
  PROVE  Longer(l, o, Auth!Committed(l, o))
<1>1. o \in Ops /\ (o.type = "put" => o.val \in RecordsOf(o.key))
  BY DEF Good
<1>2. Len(l) \in Nat
  BY LenProperties DEF Logs
<1>3. Auth!KvIn(l, Len(l)) \in Kvs
  BY <1>2, KvInLemma
<1> QED  BY <1>1, <1>2, <1>3, CommittedLemma DEF Longer

LEMMA BornStays ==
  ASSUME NEW l, NEW o, NEW l2, Longer(l, o, l2), NEW v, Born(l, v)
  PROVE  Born(l2, v)
<1>1. PICK j \in 0..Len(l) :
        /\ Auth!Present(Auth!KvIn(l, j), "user")
        /\ Auth!KvIn(l, j)["user"].val.epoch = v.epoch /\ Auth!KvIn(l, j)["user"].val.pass = v.pass
  BY DEF Born
<1>2. j \in 0..Len(l2) /\ Auth!KvIn(l2, j) = Auth!KvIn(l, j)
  BY DEF Longer
<1> QED  BY <1>1, <1>2 DEF Born

LEMMA GoodStays ==
  ASSUME NEW l, NEW o, NEW l2, Longer(l, o, l2), NEW p, Good(l, p)
  PROVE  Good(l2, p)
<1>1. p.type = "put" /\ p.key \in Tokens => Born(l2, p.val)
  BY BornStays DEF Good
<1>2. ASSUME NEW j \in 0..Len(l), MadeFrom(l, p, j)
      PROVE  j \in 0..Len(l2) /\ MadeFrom(l2, p, j)
  <2>1. j \in 0..Len(l2) /\ Auth!KvIn(l2, j) = Auth!KvIn(l, j)
    BY DEF Longer
  <2> QED  BY <1>2, <2>1 DEF MadeFrom
<1> QED  BY <1>1, <1>2 DEF Good

LEMMA DeletesStay ==
  ASSUME NEW l, NEW o, NEW l2, Longer(l, o, l2), NEW i, NEW t, Deletes(l, i, t)
  PROVE  Deletes(l2, i, t)
BY DEF Longer, Deletes

\* What the op leaves, by key.
LEMMA NewKv ==
  ASSUME Auth!TokenAssumption, NEW l, NEW o, NEW l2, Longer(l, o, l2), Good(l, o)
  PROVE  /\ o.type = "put" /\ Auth!Accepts(Auth!KvIn(l, Len(l)), o) =>
              Auth!KvIn(l2, Len(l) + 1)[o.key] =
                [ver |-> Auth!KvIn(l, Len(l))[o.key].ver + 1, val |-> o.val]
         /\ o.type = "delete" => ~Auth!Present(Auth!KvIn(l2, Len(l) + 1), o.key)
         /\ Auth!KvIn(l, Len(l)) \in Kvs /\ Auth!KvIn(l2, Len(l) + 1) \in Kvs
         /\ o.type \in {"put", "delete"} /\ o.key \in Auth!Keys
<1>1. o \in Ops /\ (o.type = "put" => o.val \in RecordsOf(o.key))
        /\ o.type \in {"put", "delete"} /\ o.key \in Auth!Keys
  BY DEF Good, Ops, Puts
<1> QED  BY <1>1, AfterLemma DEF Longer

LEMMA NewKvAt ==
  ASSUME Auth!TokenAssumption, NEW l, NEW o, NEW l2, Longer(l, o, l2), Good(l, o),
         NEW k \in Auth!Keys
  PROVE  /\ k # o.key => Auth!KvIn(l2, Len(l) + 1)[k] = Auth!KvIn(l, Len(l))[k]
         /\ ~Auth!Accepts(Auth!KvIn(l, Len(l)), o) =>
              Auth!KvIn(l2, Len(l) + 1)[k] = Auth!KvIn(l, Len(l))[k]
<1> DEFINE kv == Auth!KvIn(l, Len(l))
<1>1. o \in Ops /\ (o.type = "put" => o.val \in RecordsOf(o.key))
  BY DEF Good
<1>2. Auth!KvIn(l2, Len(l) + 1) = Auth!After(kv, o) /\ kv \in Kvs
  BY DEF Longer
<1>3. /\ k # o.key => Auth!After(kv, o)[k] = kv[k]
      /\ ~Auth!Accepts(kv, o) => Auth!After(kv, o) = kv
  BY <1>1, <1>2, AfterLemma
<1> QED  BY <1>2, <1>3

LEMMA VersionsStep ==
  ASSUME Auth!TokenAssumption, NEW l, NEW o, NEW l2, Longer(l, o, l2), Good(l, o), VersionsGrow(l)
  PROVE  VersionsGrow(l2)
<1> DEFINE N == Len(l)
           kv == Auth!KvIn(l, N)
           new == Auth!KvIn(l2, N + 1)
<1>1. N \in Nat /\ Len(l2) = N + 1 /\ \A i \in 0..N : Auth!KvIn(l2, i) = Auth!KvIn(l, i)
  BY DEF Longer
<1>2. ASSUME NEW k \in {"user", "role"}
      PROVE  /\ kv[k].ver <= new[k].ver
             /\ kv[k].ver = new[k].ver => kv[k] = new[k]
             /\ kv[k].ver \in Nat /\ new[k].ver \in Nat
  <2>1. k \in Auth!Keys /\ k \notin Tokens
    BY KeysLemma
  <2>2. kv[k].ver \in Nat /\ new[k].ver \in Nat
    BY <2>1, NewKv, CellLemma
  <2>5. /\ k # o.key => new[k] = kv[k]
        /\ ~Auth!Accepts(kv, o) => new[k] = kv[k]
    BY <2>1, NewKvAt
  <2>7. /\ o.type = "put" /\ Auth!Accepts(kv, o) =>
             new[o.key] = [ver |-> kv[o.key].ver + 1, val |-> o.val]
        /\ o.type \in {"put", "delete"}
    BY NewKv
  <2>6. o.type = "delete" => o.key # k
    BY <2>1 DEF Good
  <2>3. CASE new[k] = kv[k]
    BY <2>2, <2>3
  <2>4. CASE o.type = "put" /\ o.key = k /\ new[k] = [ver |-> kv[k].ver + 1, val |-> o.val]
    <3>1. new[k].ver = kv[k].ver + 1
      BY <2>4
    <3> QED  BY <2>2, <3>1
  <2> QED  BY <2>3, <2>4, <2>5, <2>6, <2>7
<1>3. ASSUME NEW i \in 0..Len(l2), NEW j \in 0..Len(l2), NEW k \in {"user", "role"}, i <= j
      PROVE  /\ Auth!KvIn(l2, i)[k].ver <= Auth!KvIn(l2, j)[k].ver
             /\ Auth!KvIn(l2, i)[k].ver = Auth!KvIn(l2, j)[k].ver =>
                  Auth!KvIn(l2, i)[k] = Auth!KvIn(l2, j)[k]
  <2>1. CASE j <= N
    <3>1. i \in 0..N /\ j \in 0..N
      BY <1>1, <1>3, <2>1
    <3> QED  BY <1>1, <1>3, <3>1 DEF VersionsGrow
  <2>2. CASE i = N + 1 /\ j = N + 1
    BY <1>2, <2>2
  <2>3. CASE i <= N /\ j = N + 1
    <3>1. i \in 0..N /\ N \in 0..N /\ i <= N
      BY <1>1, <1>3, <2>3
    <3>2. /\ Auth!KvIn(l, i)[k].ver <= kv[k].ver
          /\ Auth!KvIn(l, i)[k].ver = kv[k].ver => Auth!KvIn(l, i)[k] = kv[k]
      BY <3>1 DEF VersionsGrow
    <3>3. Auth!KvIn(l, i)[k].ver \in Nat
      <4>1. Auth!KvIn(l, i) \in Kvs /\ k \in Auth!Keys
        BY <3>1, KvInLemma, KeysLemma DEF Longer
      <4> QED  BY <4>1, CellLemma
    <3>4. Auth!KvIn(l2, i) = Auth!KvIn(l, i) /\ Auth!KvIn(l2, j) = new
      BY <1>1, <2>3, <3>1
    <3> HIDE DEF N, kv, new
    <3> QED  BY <1>2, <3>2, <3>3, <3>4
  <2> QED  BY <1>1, <1>3, <2>1, <2>2, <2>3
<1> QED  BY <1>3 DEF VersionsGrow

LEMMA SessionsStep ==
  ASSUME Auth!TokenAssumption, NEW l, NEW o, NEW l2, Longer(l, o, l2), Good(l, o), SessionsBorn(l)
  PROVE  SessionsBorn(l2)
<1> DEFINE N == Len(l)
           kv == Auth!KvIn(l, N)
           new == Auth!KvIn(l2, N + 1)
<1>1. N \in Nat /\ Len(l2) = N + 1 /\ \A i \in 0..N : Auth!KvIn(l2, i) = Auth!KvIn(l, i)
  BY DEF Longer
<1>2. ASSUME NEW i \in 0..Len(l2), NEW t \in Tokens, Auth!Present(Auth!KvIn(l2, i), t)
      PROVE  Born(l2, Auth!KvIn(l2, i)[t].val)
  <2>1. CASE i <= N
    BY <1>1, <1>2, <2>1, BornStays DEF SessionsBorn
  <2>2. CASE i = N + 1
    <3>1. t \in Auth!Keys
      BY KeysLemma
    <3>2. CASE new[t] = kv[t]
      <4>1. Auth!Present(kv, t) /\ N \in 0..N
        BY <1>1, <1>2, <2>2, <3>2 DEF Auth!Present
      <4> QED  BY <2>2, <3>2, <4>1, BornStays DEF SessionsBorn
    <3>3. CASE o.type = "put" /\ o.key = t /\ new[t] = [ver |-> kv[t].ver + 1, val |-> o.val]
      <4>1. Born(l2, o.val)
        BY <3>3, BornStays DEF Good
      <4> QED  BY <2>2, <3>3, <4>1
    <3>4. /\ t # o.key => new[t] = kv[t]
          /\ ~Auth!Accepts(kv, o) => new[t] = kv[t]
      BY <3>1, NewKvAt
    <3>6. /\ o.type = "put" /\ Auth!Accepts(kv, o) =>
               new[o.key] = [ver |-> kv[o.key].ver + 1, val |-> o.val]
          /\ o.type = "delete" => ~Auth!Present(new, o.key)
          /\ o.type \in {"put", "delete"}
      BY NewKv
    <3>5. Auth!Present(new, t)
      BY <1>2, <2>2
    <3> QED  BY <3>2, <3>3, <3>4, <3>5, <3>6
  <2> QED  BY <1>1, <2>1, <2>2
<1> QED  BY <1>2 DEF SessionsBorn

LEMMA DeletedStep ==
  ASSUME Auth!TokenAssumption, NEW l, NEW o, NEW l2, Longer(l, o, l2), Good(l, o), DeletedStay(l)
  PROVE  DeletedStay(l2)
<1> DEFINE N == Len(l)
<1>1. N \in Nat /\ Len(l2) = N + 1 /\ \A i \in 0..N : Auth!KvIn(l2, i) = Auth!KvIn(l, i)
  BY DEF Longer
<1>2. /\ \A i \in 1..N : l2[i] = l[i]
      /\ l2[N + 1].op = o
  BY DEF Longer
<1>3. ASSUME NEW i \in 1..Len(l2), NEW j \in 1..Len(l2), NEW t \in Tokens,
             i <= j, Deletes(l2, i, t), \A m \in (i + 1)..j : l2[m].op.key # t
      PROVE  ~Auth!Present(Auth!KvIn(l2, j), t)
  <2>0. t \in Auth!Keys
    BY KeysLemma
  <2>1. ASSUME i <= N
        PROVE  Deletes(l, i, t)
    BY <1>1, <1>2, <1>3, <2>1 DEF Deletes
  <2>2. CASE j <= N
    <3>1. i \in 1..N /\ j \in 1..N /\ j \in 0..N
      BY <1>1, <1>3, <2>2
    <3>2. \A m \in (i + 1)..j : l[m].op.key # t
      BY <1>1, <1>2, <1>3, <3>1
    <3>3. ~Auth!Present(Auth!KvIn(l, j), t)
      BY <1>1, <1>3, <2>1, <3>1, <3>2 DEF DeletedStay
    <3> QED  BY <1>1, <3>1, <3>3
  <2>3. CASE i <= N /\ j = N + 1
    <3>1. i \in 1..N /\ N \in 1..N
      BY <1>1, <1>3, <2>3
    <3>2. \A m \in (i + 1)..N : l[m].op.key # t
      BY <1>1, <1>2, <1>3, <2>3, <3>1
    <3>3. ~Auth!Present(Auth!KvIn(l, N), t)
      BY <1>1, <2>1, <3>1, <3>2 DEF DeletedStay
    <3>4. o.key # t
      <4>1. N + 1 \in (i + 1)..j
        BY <1>1, <2>3, <3>1
      <4> QED  BY <1>2, <1>3, <4>1
    <3>5. Auth!KvIn(l2, j)[t] = Auth!KvIn(l, N)[t]
      <4>1. Auth!KvIn(l2, Len(l) + 1)[t] = Auth!KvIn(l, Len(l))[t]
        BY <2>0, <3>4, NewKvAt
      <4> QED  BY <2>3, <4>1
    <3> QED  BY <3>3, <3>5 DEF Auth!Present
  <2>4. CASE i = N + 1 /\ j = N + 1
    BY <1>2, <1>3, <2>4, NewKv DEF Deletes
  <2> QED  BY <1>1, <1>3, <2>2, <2>3, <2>4
<1> QED  BY <1>3 DEF DeletedStay

\* An accepted put that compares was made from what it replaces.
LEMMA MadeOfLast ==
  ASSUME NEW l \in Logs, NEW o, Good(l, o), VersionsGrow(l), o.type = "put",
         o.key \in {"user", "role"}, o.expect # {}, Auth!Accepts(Auth!KvIn(l, Len(l)), o)
  PROVE  /\ Auth!Present(Auth!KvIn(l, Len(l)), o.key)
         /\ Follows(o.key, Auth!KvIn(l, Len(l))[o.key].val, o.val, o.touches)
<1>1. PICK j \in 0..Len(l) : MadeFrom(l, o, j)
  BY DEF Good
<1>2. Len(l) \in 0..Len(l) /\ j <= Len(l)
  BY LenProperties DEF Logs
<1>3. Auth!KvIn(l, j)[o.key].ver = Auth!KvIn(l, Len(l))[o.key].ver
  BY <1>1 DEF MadeFrom, Auth!Accepts
<1>4. Auth!KvIn(l, j)[o.key] = Auth!KvIn(l, Len(l))[o.key]
  BY <1>2, <1>3 DEF VersionsGrow
<1> QED  BY <1>1, <1>4 DEF MadeFrom, Auth!Present

LEMMA UserKey ==
  ASSUME Auth!TokenAssumption
  PROVE  "user" \in Auth!Keys /\ "role" \in Auth!Keys /\ RecordsOf("user") = UserRecords
           /\ "user" \notin Tokens /\ "role" \notin Tokens
BY DEF Auth!Keys, RecordsOf, Auth!TokenAssumption

LEMMA EpochLemma ==
  ASSUME Auth!TokenAssumption, NEW kv \in Kvs, Auth!Present(kv, "user")
  PROVE  kv["user"].val.epoch \in Nat /\ kv["user"].val \in UserRecords
<1>1. kv["user"].val \in UserRecords
  BY UserKey, CellLemma
<1> QED  BY <1>1 DEF UserRecords

\* Nothing was written blindly up to here, so the put compares what it finds.
LEMMA NotBlind ==
  ASSUME NEW l, NEW o, NEW l2, Longer(l, o, l2), NoBlind(l2)
  PROVE  /\ NoBlind(l)
         /\ o.type = "put" /\ o.key \in {"user", "role"} /\ Auth!Present(Auth!KvIn(l, Len(l)), o.key)
              => o.expect # {}
<1>1. ASSUME NEW i \in 1..Len(l)
      PROVE  /\ i \in 1..Len(l2) /\ l2[i] = l[i]
             /\ Auth!KvIn(l2, i - 1) = Auth!KvIn(l, i - 1)
  BY DEF Longer
<1>2. NoBlind(l)
  BY <1>1 DEF NoBlind
<1>3. /\ Len(l) + 1 \in 1..Len(l2) /\ (Len(l) + 1) - 1 = Len(l)
      /\ l2[Len(l) + 1].op = o /\ Auth!KvIn(l2, Len(l)) = Auth!KvIn(l, Len(l))
  BY DEF Longer
<1>4. o.type = "put" /\ o.key \in {"user", "role"} /\ Auth!Present(Auth!KvIn(l, Len(l)), o.key)
        => o.expect # {}
  BY <1>3 DEF NoBlind
<1> QED  BY <1>2, <1>4

\* What one more op does to the user's epoch and password.
LEMMA UserStep ==
  ASSUME Auth!TokenAssumption, NEW l, NEW o, NEW l2, Longer(l, o, l2), Good(l, o),
         VersionsGrow(l), NoBlind(l2), Auth!Present(Auth!KvIn(l, Len(l)), "user")
  PROVE  /\ Auth!Present(Auth!KvIn(l2, Len(l) + 1), "user")
         /\ Auth!KvIn(l, Len(l))["user"].val.epoch <= Auth!KvIn(l2, Len(l) + 1)["user"].val.epoch
         /\ Auth!KvIn(l, Len(l))["user"].val.epoch = Auth!KvIn(l2, Len(l) + 1)["user"].val.epoch =>
              Auth!KvIn(l, Len(l))["user"].val.pass = Auth!KvIn(l2, Len(l) + 1)["user"].val.pass
<1> DEFINE kv == Auth!KvIn(l, Len(l))
           new == Auth!KvIn(l2, Len(l) + 1)
<1>1. kv \in Kvs /\ l \in Logs
  BY DEF Longer
<1>2. kv["user"].val.epoch \in Nat
  BY <1>1, EpochLemma
<1>3. CASE new["user"] = kv["user"]
  <2>1. Auth!Present(new, "user")
    BY <1>3 DEF Auth!Present
  <2> QED  BY <1>2, <1>3, <2>1
<1>4. CASE o.type = "put" /\ o.key = "user" /\ Auth!Accepts(kv, o)
  <2>1. new["user"] = [ver |-> kv["user"].ver + 1, val |-> o.val]
    BY <1>4, NewKv
  <2>2. kv["user"].ver \in Nat
    BY <1>1, CellLemma, UserKey
  <2>3. Auth!Present(new, "user") /\ new["user"].val = o.val
    <3> HIDE DEF kv, new
    <3> QED  BY <2>1, <2>2 DEF Auth!Present
  <2>4. o.expect # {}
    BY <1>4, NotBlind
  <2>5. Follows("user", kv["user"].val, o.val, o.touches)
    BY <1>1, <1>4, <2>4, MadeOfLast
  <2>6. /\ o.val.epoch >= kv["user"].val.epoch
        /\ o.val.epoch = kv["user"].val.epoch => o.val.pass = kv["user"].val.pass
    BY <2>5 DEF Follows
  <2>7. o.val.epoch \in Nat
    <3>1. o.val \in UserRecords
      BY <1>4, UserKey DEF Good
    <3> QED  BY <3>1 DEF UserRecords
  <2>8. /\ kv["user"].val.epoch <= new["user"].val.epoch
        /\ kv["user"].val.epoch = new["user"].val.epoch => kv["user"].val.pass = new["user"].val.pass
    <3> HIDE DEF kv, new
    <3> QED  BY <1>2, <2>3, <2>6, <2>7
  <2> QED  BY <2>3, <2>8
<1>5. o.type = "delete" => o.key # "user"
  BY UserKey DEF Good
<1>7. o.type \in {"put", "delete"}
  BY NewKv
<1>6. /\ "user" # o.key => new["user"] = kv["user"]
      /\ ~Auth!Accepts(kv, o) => new["user"] = kv["user"]
  BY UserKey, NewKvAt
<1> QED  BY <1>3, <1>4, <1>5, <1>6, <1>7

LEMMA OnePasswordStep ==
  ASSUME Auth!TokenAssumption, NEW l, NEW o, NEW l2, Longer(l, o, l2), Good(l, o),
         VersionsGrow(l), NoBlind(l2), OnePassword(l)
  PROVE  OnePassword(l2)
<1> DEFINE N == Len(l)
<1>1. /\ N \in Nat /\ Len(l2) = N + 1 /\ l \in Logs
      /\ \A i \in 0..N : Auth!KvIn(l2, i) = Auth!KvIn(l, i)
  BY DEF Longer
<1>2. ASSUME NEW i \in 0..Len(l2), NEW j \in 0..Len(l2), i <= j, Auth!Present(Auth!KvIn(l2, i), "user")
      PROVE  /\ Auth!Present(Auth!KvIn(l2, j), "user")
             /\ Auth!KvIn(l2, i)["user"].val.epoch <= Auth!KvIn(l2, j)["user"].val.epoch
             /\ Auth!KvIn(l2, i)["user"].val.epoch = Auth!KvIn(l2, j)["user"].val.epoch =>
                  Auth!KvIn(l2, i)["user"].val.pass = Auth!KvIn(l2, j)["user"].val.pass
  <2>1. CASE j <= N
    <3>1. i \in 0..N /\ j \in 0..N
      BY <1>1, <1>2, <2>1
    <3>2. Auth!KvIn(l2, i) = Auth!KvIn(l, i) /\ Auth!KvIn(l2, j) = Auth!KvIn(l, j)
      BY <1>1, <3>1
    <3> QED  BY <1>2, <3>1, <3>2 DEF OnePassword
  <2>2. CASE i = N + 1 /\ j = N + 1
    <3>1. Auth!KvIn(l2, i) \in Kvs
      BY KvInLemma DEF Longer
    <3>2. Auth!KvIn(l2, i)["user"].val.epoch \in Nat
      BY <1>2, <3>1, EpochLemma
    <3> QED  BY <1>2, <2>2, <3>2
  <2>3. CASE i <= N /\ j = N + 1
    <3>1. i \in 0..N /\ N \in 0..N /\ i <= N
      BY <1>1, <1>2, <2>3
    <3>2. Auth!KvIn(l2, i) = Auth!KvIn(l, i) /\ Auth!Present(Auth!KvIn(l, i), "user")
      BY <1>1, <1>2, <3>1
    <3>3. /\ Auth!Present(Auth!KvIn(l, N), "user")
          /\ Auth!KvIn(l, i)["user"].val.epoch <= Auth!KvIn(l, N)["user"].val.epoch
          /\ Auth!KvIn(l, i)["user"].val.epoch = Auth!KvIn(l, N)["user"].val.epoch =>
               Auth!KvIn(l, i)["user"].val.pass = Auth!KvIn(l, N)["user"].val.pass
      BY <3>1, <3>2 DEF OnePassword
    <3>4. /\ Auth!Present(Auth!KvIn(l2, N + 1), "user")
          /\ Auth!KvIn(l, N)["user"].val.epoch <= Auth!KvIn(l2, N + 1)["user"].val.epoch
          /\ Auth!KvIn(l, N)["user"].val.epoch = Auth!KvIn(l2, N + 1)["user"].val.epoch =>
               Auth!KvIn(l, N)["user"].val.pass = Auth!KvIn(l2, N + 1)["user"].val.pass
      BY <3>3, UserStep
    <3>5. Auth!KvIn(l, i) \in Kvs /\ Auth!KvIn(l, N) \in Kvs /\ Auth!KvIn(l2, N + 1) \in Kvs
      BY <1>1, <3>1, KvInLemma DEF Longer
    <3>6. /\ Auth!KvIn(l, i)["user"].val.epoch \in Nat /\ Auth!KvIn(l, N)["user"].val.epoch \in Nat
          /\ Auth!KvIn(l2, N + 1)["user"].val.epoch \in Nat
      BY <3>2, <3>3, <3>4, <3>5, EpochLemma
    <3> HIDE DEF N
    <3> QED  BY <2>3, <3>2, <3>3, <3>4, <3>6
  <2> QED  BY <1>1, <1>2, <2>1, <2>2, <2>3
<1> QED  BY <1>2 DEF OnePassword

LEMMA BuiltOnStep ==
  ASSUME NEW l, NEW o, NEW l2, Longer(l, o, l2), Good(l, o),
         VersionsGrow(l), NoBlind(l2), \A i \in 1..Len(l) : BuiltOn(l, i),
         NEW n \in 1..Len(l2)
  PROVE  BuiltOn(l2, n)
<1>1. CASE n \in 1..Len(l)
  <2>1. BuiltOn(l, n) /\ l2[n] = l[n]
    BY <1>1 DEF Longer
  <2>2. Auth!KvIn(l2, n - 1) = Auth!KvIn(l, n - 1)
    BY <1>1 DEF Longer
  <2> QED  BY <2>1, <2>2 DEF BuiltOn
<1>2. CASE n = Len(l) + 1
  <2>1. /\ l2[n].op = o /\ l2[n].ok = Auth!Accepts(Auth!KvIn(l, Len(l)), o)
        /\ Auth!KvIn(l2, n - 1) = Auth!KvIn(l, Len(l)) /\ l \in Logs
    BY <1>2 DEF Longer
  <2>2. ASSUME o.type = "put", Auth!Accepts(Auth!KvIn(l, Len(l)), o), o.key \in {"user", "role"},
               Auth!Present(Auth!KvIn(l, Len(l)), o.key)
        PROVE  Follows(o.key, Auth!KvIn(l, Len(l))[o.key].val, o.val, o.touches)
    <3>1. o.expect # {}
      BY <2>2, NotBlind
    <3> QED  BY <2>1, <2>2, <3>1, MadeOfLast
  <2> QED  BY <2>1, <2>2 DEF BuiltOn, Follows
<1>3. n \in 1..Len(l) \/ n = Len(l) + 1
  BY DEF Longer
<1> QED  BY <1>1, <1>2, <1>3

LEMMA LogStep ==
  ASSUME Auth!TokenAssumption, NEW l, NEW o, LogInv(l), Good(l, o)
  PROVE  Longer(l, o, Auth!Committed(l, o)) /\ LogInv(Auth!Committed(l, o))
<1> DEFINE l2 == Auth!Committed(l, o)
<1>1. l \in Logs /\ Longer(l, o, l2)
  BY LongerLemma DEF LogInv
<1> HIDE DEF l2
<1>2. l2 \in Logs /\ VersionsGrow(l2) /\ SessionsBorn(l2) /\ DeletedStay(l2)
  <2>1. l2 \in Logs
    BY <1>1 DEF Longer
  <2> QED  BY <1>1, <2>1, VersionsStep, SessionsStep, DeletedStep DEF LogInv
<1>3. ASSUME NoBlind(l2)
      PROVE  OnePassword(l2) /\ \A i \in 1..Len(l2) : BuiltOn(l2, i)
  <2>1. NoBlind(l)
    BY <1>1, <1>3, NotBlind
  <2>2. OnePassword(l) /\ VersionsGrow(l) /\ \A i \in 1..Len(l) : BuiltOn(l, i)
    BY <2>1 DEF LogInv
  <2>3. OnePassword(l2)
    BY <1>1, <1>3, <2>2, OnePasswordStep
  <2>4. \A i \in 1..Len(l2) : BuiltOn(l2, i)
    BY <1>1, <1>3, <2>2, BuiltOnStep
  <2> QED  BY <2>3, <2>4
<1>4. LogInv(l2)
  BY <1>2, <1>3 DEF LogInv
<1> QED  BY <1>1, <1>4 DEF l2

-----------------------------------------------------------------------------
(* The logs a behaviour begins with. *)

LEMMA EmptyLog == LogInv(<<>>)
<1>1. Len(<<>>) = 0 /\ <<>> \in Logs
  BY EmptySeq DEF Logs
<1>2. Auth!KvIn(<<>>, 0) = Auth!EmptyKv
  BY DEF Auth!KvIn
<1>3. \A k \in Auth!Keys : ~Auth!Present(Auth!EmptyKv, k) /\ Auth!EmptyKv[k].ver = 0
  BY EmptyLemma DEF Auth!EmptyKv, Auth!Absent
<1>4. VersionsGrow(<<>>)
  <2>1. ASSUME NEW i \in 0..0, NEW j \in 0..0, NEW k \in {"user", "role"}
        PROVE  /\ Auth!KvIn(<<>>, i)[k].ver <= Auth!KvIn(<<>>, j)[k].ver
               /\ Auth!KvIn(<<>>, i)[k] = Auth!KvIn(<<>>, j)[k]
    <3>1. i = 0 /\ j = 0 /\ k \in Auth!Keys
      BY DEF Auth!Keys
    <3>2. Auth!EmptyKv[k].ver = 0
      BY <1>3, <3>1
    <3> QED  BY <1>2, <3>1, <3>2
  <2> QED  BY <1>1, <2>1 DEF VersionsGrow
<1>5. SessionsBorn(<<>>)
  <2>1. ASSUME NEW i \in 0..0, NEW t \in Tokens
        PROVE  ~Auth!Present(Auth!KvIn(<<>>, i), t)
    <3>1. i = 0 /\ t \in Auth!Keys
      BY DEF Auth!Keys
    <3> QED  BY <1>2, <1>3, <3>1
  <2> QED  BY <1>1, <2>1 DEF SessionsBorn
<1>6. DeletedStay(<<>>) /\ \A i \in 1..Len(<<>>) : BuiltOn(<<>>, i)
  BY <1>1 DEF DeletedStay
<1>7. OnePassword(<<>>)
  <2>1. ASSUME NEW i \in 0..0
        PROVE  ~Auth!Present(Auth!KvIn(<<>>, i), "user")
    BY <1>2, <1>3 DEF Auth!Keys
  <2> QED  BY <1>1, <2>1 DEF OnePassword
<1> QED  BY <1>1, <1>4, <1>5, <1>6, <1>7 DEF LogInv

\* What auth_hydrate_from writes may be written at any time.
LEMMA SinkGood ==
  ASSUME Auth!TokenAssumption, Auth!PasswordAssumption, NEW l, NEW k \in {"role", "user", "marker"}
  PROVE  Good(l, Auth!Put(k, Auth!SinkRecord(k)))
<1> DEFINE v == Auth!SinkRecord(k)
           o == Auth!Put(k, v)
<1>1. k \in Auth!Keys /\ k \notin Tokens
  BY KeysLemma
<1>2. v \in RecordsOf(k) /\ v \in AnyRecord /\ DOMAIN v \in SUBSET Fields
  <2>1. CASE k = "role"
    BY <2>1 DEF Auth!SinkRecord, RecordsOf, AnyRecord, RoleRecords, Fields
  <2>2. CASE k = "user"
    BY <2>2 DEF Auth!SinkRecord, RecordsOf, AnyRecord, UserRecords, Fields, Auth!PasswordAssumption
  <2>3. CASE k = "marker"
    BY <2>3 DEF Auth!SinkRecord, RecordsOf, AnyRecord, MarkerRecords, Fields
  <2> QED  BY <2>1, <2>2, <2>3
<1> HIDE DEF v
<1>3. o = [type |-> "put", key |-> k, val |-> v, expect |-> {}, touches |-> DOMAIN v]
  BY DEF Auth!Put, Auth!PutFields, Auth!AnyVer
<1>4. o \in Ops
  BY <1>1, <1>2, <1>3 DEF Ops, Puts
<1>5. Good(l, o)
  BY <1>1, <1>2, <1>3, <1>4 DEF Good
<1> QED  BY <1>5 DEF v

LEMMA HydratedLogOK ==
  ASSUME Auth!TokenAssumption, Auth!PasswordAssumption
  PROVE  LogInv(Auth!HydratedLog)
<1> DEFINE copied(l, k) == Auth!Committed(l, Auth!Put(k, Auth!SinkRecord(k)))
<1>1. ASSUME NEW l, NEW k \in {"role", "user", "marker"}, LogInv(l)
      PROVE  LogInv(copied(l, k))
  BY <1>1, SinkGood, LogStep
<1>2. Auth!HydratedLog = copied(copied(copied(<<>>, "role"), "user"), "marker")
  BY DEF Auth!HydratedLog
<1> HIDE DEF copied
<1>3. LogInv(copied(<<>>, "role"))
  BY <1>1, EmptyLog
<1>4. LogInv(copied(copied(<<>>, "role"), "user"))
  BY <1>1, <1>3
<1> QED  BY <1>1, <1>2, <1>4

-----------------------------------------------------------------------------
(* Requests and the ops they propose. *)

ChangeWhats ==
  [key : {"user"}, field : {"pass"}, v : Passwords]
    \cup [key : {"user"}, field : {"enabled"}, v : {"yes", "no"}]
    \cup [key : {"user"}, field : {"roles"}, v : {"admin"}]
    \cup [key : {"role"}, field : {"desc", "perms"}, v : {"admin"}]

WhatOf(kind) ==
  IF kind = "login" THEN [token : Tokens, pass : Passwords]
  ELSE IF kind = "logout" THEN [token : Tokens]
  ELSE IF kind = "change" THEN ChangeWhats
  ELSE [key : {"role", "user", "marker"}]

Kinds == {"login", "logout", "change", "hydrate"}

Whats == UNION {WhatOf(k) : k \in Kinds}

Requests ==
  [pc : {"start", "wait", "local", "visible"}, kind : Kinds, node : Nodes,
   what : Whats, op : Ops,
   try : Nat, cas : Nat, idx : Nat, seen : SUBSET Nodes]

\* A request waits for an op of its own, and a logout that was told so deleted its session.
RequestOK(l, r) ==
  \/ r = Auth!Idle
  \/ /\ r \in Requests /\ r.what \in WhatOf(r.kind)
     /\ r.pc = "wait" => Good(l, r.op)
     /\ r.kind = "logout" => r.pc # "start" /\ r.op = Auth!Delete(r.what.token)
     /\ r.kind = "logout" /\ r.pc # "wait" => Deletes(l, r.idx, r.what.token)

FlightOK(l, f) == f.by \in Clients /\ Good(l, f.op)

LogoutOK(l, x) == x.node \in Nodes /\ x.token \in Tokens /\ Deletes(l, x.idx, x.token)

FlightsOK == \A f \in flying : FlightOK(log, f)

AuthInv ==
  /\ LogInv(log)
  /\ known \in [Nodes -> Nat] /\ kvApplied \in [Nodes -> Nat]
  /\ \A n \in Nodes : kvApplied[n] <= Len(log)
  /\ client \in [Clients -> Requests \cup {Auth!Idle}]
  /\ \A c \in Clients : RequestOK(log, client[c])
  /\ FlightsOK
  /\ \A x \in loggedOut : LogoutOK(log, x)

AuthAssumptions == Auth!TokenAssumption /\ Auth!PasswordAssumption

LEMMA RequestStays ==
  ASSUME NEW l, NEW o, NEW l2, Longer(l, o, l2), NEW r, RequestOK(l, r)
  PROVE  RequestOK(l2, r)
<1>1. CASE r = Auth!Idle
  BY <1>1 DEF RequestOK
<1>2. CASE r # Auth!Idle
  <2>1. r.pc = "wait" => Good(l2, r.op)
    BY <1>2, GoodStays DEF RequestOK
  <2>2. r.kind = "logout" /\ r.pc # "wait" => Deletes(l2, r.idx, r.what.token)
    BY <1>2, DeletesStay DEF RequestOK
  <2> QED  BY <1>2, <2>1, <2>2 DEF RequestOK
<1> QED  BY <1>1, <1>2

\* A request that proposes a good op.
LEMMA ProposedOK ==
  ASSUME NEW l, NEW r \in Requests, r.what \in WhatOf(r.kind), NEW o, Good(l, o),
         r.kind = "logout" => o = Auth!Delete(r.what.token)
  PROVE  /\ Auth!Proposed(r, o) \in Requests /\ RequestOK(l, Auth!Proposed(r, o))
         /\ Auth!Proposed(r, o).op = o /\ Auth!Proposed(r, o).kind = r.kind
         /\ Auth!Proposed(r, o).what = r.what
<1> DEFINE s == Auth!Proposed(r, o)
<1>1. o \in Ops
  BY DEF Good
<1>2. s = [r EXCEPT !.pc = "wait", !.op = o, !.try = @ + 1]
  BY DEF Auth!Proposed
<1>4. s.pc = "wait" /\ s.op = o /\ s.kind = r.kind /\ s.what = r.what
  BY <1>2 DEF Requests
<1>5. s \in Requests
  <2> DEFINE q == [r EXCEPT !.pc = "wait", !.op = o]
  <2>1. q \in Requests /\ q.try \in Nat
    BY <1>1 DEF Requests
  <2>2. s = [q EXCEPT !.try = q.try + 1]
    BY <1>2 DEF Requests
  <2> HIDE DEF q
  <2>3. q.try + 1 \in Nat
    BY <2>1
  <2> QED  BY <2>1, <2>2, <2>3 DEF Requests
<1> HIDE DEF s
<1>3. RequestOK(l, s)
  BY <1>4, <1>5 DEF RequestOK
<1> QED  BY <1>3, <1>4, <1>5 DEF s

\* One request moves on, and sends a good op at most.
LEMMA ClientStep ==
  ASSUME AuthInv, NEW c \in Clients, NEW r, RequestOK(log, r), Auth!Step(c, r),
         log' = log, known' = known, kvApplied' = kvApplied, loggedOut' = loggedOut,
         FlightsOK'
  PROVE  AuthInv'
<1>1. r \in Requests \cup {Auth!Idle}
  BY DEF RequestOK
<1>2. /\ client' \in [Clients -> Requests \cup {Auth!Idle}]
      /\ \A d \in Clients : client'[d] = client[d] \/ client'[d] = r
  BY <1>1 DEF AuthInv, Auth!Step
<1>3. \A d \in Clients : RequestOK(log, client'[d])
  BY <1>2 DEF AuthInv
<1> QED  BY <1>2, <1>3 DEF AuthInv

\* One request proposes its op.
LEMMA ProposeStep ==
  ASSUME AuthInv, NEW c \in Clients, NEW r, RequestOK(log, r), Auth!Step(c, r), Auth!Fly(c, r),
         log' = log, known' = known, kvApplied' = kvApplied, loggedOut' = loggedOut,
         r.pc = "wait"
  PROVE  AuthInv'
<1>1. r # Auth!Idle
  BY DEF Auth!Idle
<1>2. Good(log, r.op)
  BY <1>1 DEF RequestOK
<1>3. \A f \in flying' : f \in flying \/ (f.by = c /\ f.op = r.op)
  BY DEF Auth!Fly
<1>4. FlightsOK'
  BY <1>2, <1>3 DEF FlightsOK, FlightOK, AuthInv
<1> QED  BY <1>4, ClientStep

LEMMA StillStep ==
  ASSUME AuthInv, NEW c \in Clients, NEW r, RequestOK(log, r), Auth!Step(c, r),
         log' = log, known' = known, kvApplied' = kvApplied, loggedOut' = loggedOut,
         flying' = flying
  PROVE  AuthInv'
<1>1. FlightsOK'
  BY DEF AuthInv, FlightsOK
<1> QED  BY <1>1, ClientStep

LEMMA IdleOK == \A l : RequestOK(l, Auth!Idle)
BY DEF RequestOK

LEMMA NewRequest ==
  ASSUME NEW n \in Nodes, NEW kind \in Kinds, NEW what \in WhatOf(kind)
  PROVE  /\ Auth!Request(n, kind, what) \in Requests
         /\ Auth!Request(n, kind, what).kind = kind
         /\ Auth!Request(n, kind, what).what = what
         /\ Auth!Request(n, kind, what).pc = "start"
<1>1. Auth!Delete("user") \in Ops
  BY DEF Auth!Delete, Ops, Auth!Keys
<1>2. what \in Whats
  BY DEF Whats
<1> QED  BY <1>1, <1>2 DEF Auth!Request, Requests

\* What a replica has applied is a state of the log.
LEMMA LocalLemma ==
  ASSUME AuthInv, NEW n \in Nodes
  PROVE  /\ kvApplied[n] \in 0..Len(log) /\ Auth!Local(n) \in Kvs
         /\ Auth!Local(n) = Auth!KvIn(log, kvApplied[n])
<1>1. log \in Logs
  BY DEF AuthInv, LogInv
<1>2. Len(log) \in Nat
  BY <1>1, LenProperties DEF Logs
<1>3. kvApplied[n] \in Nat /\ kvApplied[n] <= Len(log)
  BY DEF AuthInv
<1>4. kvApplied[n] \in 0..Len(log)
  BY <1>2, <1>3
<1>5. Auth!Local(n) = Auth!KvIn(log, kvApplied[n])
  BY DEF Auth!Local, Auth!KvAt
<1> QED  BY <1>1, <1>4, <1>5, KvInLemma

LEMMA StartLoginKeeps ==
  ASSUME AuthAssumptions, AuthInv, NEW c \in Clients, NEW n \in Nodes, NEW p \in Passwords,
         Auth!StartLogin(c, n, p)
  PROVE  AuthInv'
<1>1. PICK l \in Nodes :
        Auth!Step(c, [Auth!Request(n, "login",
                        [token |-> CHOOSE t \in Tokens : Auth!Fresh(t), pass |-> p])
                  EXCEPT !.idx = known[l]])
  BY DEF Auth!StartLogin
<1> DEFINE t == CHOOSE t \in Tokens : Auth!Fresh(t)
           q == Auth!Request(n, "login", [token |-> t, pass |-> p])
           r == [q EXCEPT !.idx = known[l]]
<1>2. t \in Tokens
  BY DEF Auth!StartLogin
<1> HIDE DEF t
<1>3. [token |-> t, pass |-> p] \in WhatOf("login")
  BY <1>2 DEF WhatOf
<1>4. q \in Requests /\ q.kind = "login" /\ q.what = [token |-> t, pass |-> p] /\ q.pc = "start"
  BY <1>3, NewRequest DEF Kinds
<1>5. known[l] \in Nat
  BY DEF AuthInv
<1> HIDE DEF q
<1>6. r \in Requests /\ r.kind = "login" /\ r.what = [token |-> t, pass |-> p] /\ r.pc = "start"
  BY <1>4, <1>5 DEF Requests
<1> HIDE DEF r
<1>7. RequestOK(log, r)
  BY <1>3, <1>6 DEF RequestOK
<1>8. Auth!Step(c, r)
  BY <1>1 DEF r, q, t
<1> QED  BY <1>7, <1>8, StillStep DEF Auth!StartLogin

\* A session carries the password and the epoch of one state of the user.
LEMMA CheckPasswordKeeps ==
  ASSUME AuthAssumptions, AuthInv, NEW c \in Clients, Auth!CheckPassword(c)
  PROVE  AuthInv'
<1> DEFINE r == client[c]
           u == Auth!Local(r.node)["user"]
           v == [epoch |-> u.val.epoch, pass |-> r.what.pass]
           o == Auth!Put(r.what.token, v)
           s == Auth!Proposed(r, o)
<1>1. r.pc = "start" /\ r.kind = "login" /\ UNCHANGED <<log, known, kvApplied, loggedOut>>
  BY DEF Auth!CheckPassword
<1>2. RequestOK(log, r) /\ r # Auth!Idle
  BY <1>1 DEF AuthInv, Auth!Idle
<1>3. r \in Requests /\ r.what \in [token : Tokens, pass : Passwords] /\ r.what \in WhatOf(r.kind)
  BY <1>1, <1>2 DEF RequestOK, WhatOf
<1>4. CASE Auth!Step(c, Auth!Idle) /\ UNCHANGED flying
  BY <1>1, <1>4, IdleOK, StillStep
<1>5. CASE u.ver > 0 /\ u.val.pass = r.what.pass /\ Auth!Step(c, s) /\ Auth!Fly(c, s)
  <2>1. r.node \in Nodes /\ r.what.token \in Tokens /\ r.what.pass \in Passwords
    BY <1>3 DEF Requests
  <2>2. /\ kvApplied[r.node] \in 0..Len(log) /\ Auth!Local(r.node) \in Kvs
        /\ Auth!Local(r.node) = Auth!KvIn(log, kvApplied[r.node])
    BY <2>1, LocalLemma
  <2>3. Auth!Present(Auth!Local(r.node), "user")
    BY <1>5 DEF Auth!Present
  <2>4. u.val.epoch \in Nat
    BY <2>2, <2>3, EpochLemma DEF AuthAssumptions
  <2>5. v.epoch = u.val.epoch /\ v.pass = u.val.pass
    BY <1>5
  <2>6. Born(log, v)
    BY <2>2, <2>3, <2>5 DEF Born
  <2>7. v \in SessionRecords /\ DOMAIN v \in SUBSET Fields
    BY <2>1, <2>4 DEF SessionRecords, Fields
  <2> HIDE DEF v
  <2>8. o = [type |-> "put", key |-> r.what.token, val |-> v, expect |-> {}, touches |-> DOMAIN v]
    BY DEF Auth!Put, Auth!PutFields, Auth!AnyVer
  <2>9. r.what.token \in Auth!Keys /\ RecordsOf(r.what.token) = SessionRecords
    BY <2>1, KeysLemma DEF AuthAssumptions
  <2>10. o \in Ops
    BY <2>7, <2>8, <2>9 DEF Ops, Puts, AnyRecord
  <2>11. Good(log, o)
    BY <2>6, <2>7, <2>8, <2>9, <2>10 DEF Good
  <2> HIDE DEF o
  <2>12. RequestOK(log, s) /\ s.pc = "wait"
    BY <1>1, <1>3, <2>11, ProposedOK DEF Auth!Proposed, Requests
  <2> HIDE DEF s
  <2> QED  BY <1>1, <1>5, <2>12, ProposeStep
<1> QED  BY <1>4, <1>5 DEF Auth!CheckPassword

LEMMA StartLogoutKeeps ==
  ASSUME AuthAssumptions, AuthInv, NEW c \in Clients, NEW n \in Nodes, NEW t \in Tokens,
         Auth!StartLogout(c, n, t)
  PROVE  AuthInv'
<1> DEFINE q == Auth!Request(n, "logout", [token |-> t])
           s == Auth!Proposed(q, Auth!Delete(t))
<1>1. Good(log, Auth!Delete(t))
  BY KeysLemma DEF Good, Auth!Delete, Ops, AuthAssumptions
<1>5. [token |-> t] \in WhatOf("logout") /\ "logout" \in Kinds
  BY DEF WhatOf, Kinds
<1>2. q \in Requests /\ q.kind = "logout" /\ q.what = [token |-> t]
  BY <1>5, NewRequest
<1>3. Auth!Step(c, s) /\ Auth!Fly(c, s) /\ UNCHANGED <<log, known, kvApplied, loggedOut>>
  BY DEF Auth!StartLogout
<1> HIDE DEF q
<1>4. RequestOK(log, s) /\ s.pc = "wait"
  <2>1. q.what \in WhatOf(q.kind) /\ Auth!Delete(t) = Auth!Delete(q.what.token)
    BY <1>2, <1>5
  <2>2. s.pc = "wait"
    BY <1>2 DEF Auth!Proposed, Requests
  <2> QED  BY <1>1, <1>2, <2>1, <2>2, ProposedOK
<1> HIDE DEF s
<1> QED  BY <1>3, <1>4, ProposeStep

LEMMA StartChangeKeeps ==
  ASSUME AuthAssumptions, AuthInv, NEW c \in Clients, NEW n \in Nodes, NEW w \in ChangeWhats,
         Auth!StartChange(c, n, w.key, w.field, w.v)
  PROVE  AuthInv'
<1> DEFINE q == Auth!Request(n, "change", [key |-> w.key, field |-> w.field, v |-> w.v])
<1>1. [key |-> w.key, field |-> w.field, v |-> w.v] = w
  BY DEF ChangeWhats
<1>2. w \in WhatOf("change")
  BY DEF WhatOf
<1>3. q \in Requests /\ q.kind = "change" /\ q.what = w /\ q.pc = "start"
  BY <1>1, <1>2, NewRequest DEF Kinds
<1>4. Auth!Step(c, q) /\ UNCHANGED <<log, known, kvApplied, flying, loggedOut>>
  BY DEF Auth!StartChange
<1> HIDE DEF q
<1>5. RequestOK(log, q)
  BY <1>2, <1>3 DEF RequestOK
<1> QED  BY <1>4, <1>5, StillStep

LEMMA UserChangedLemma ==
  ASSUME NEW old \in UserRecords, NEW w \in ChangeWhats, w.key = "user"
  PROVE  /\ Auth!UserChanged(old, w.field, w.v) \in UserRecords
         /\ Follows("user", old, Auth!UserChanged(old, w.field, w.v), Auth!Touched(w.field))
<1> DEFINE new == Auth!UserChanged(old, w.field, w.v)
      mid == IF w.field = "pass" THEN [old EXCEPT !.pass = w.v, !.enabled = "yes"]
             ELSE [old EXCEPT ![w.field] = w.v]
      counted == IF w.field = "pass" \/ mid.enabled # old.enabled
                 THEN mid.epoch + 1 ELSE mid.epoch
<1>0. old.epoch \in Nat /\ old.epoch + 1 \in Nat /\ old.epoch + 1 > old.epoch
  BY DEF UserRecords
<1>4. new = [mid EXCEPT !.epoch = counted]
  BY DEF Auth!UserChanged
<1>5. old = [pass |-> old.pass, enabled |-> old.enabled, roles |-> old.roles, epoch |-> old.epoch]
  BY DEF UserRecords
<1> HIDE DEF new
<1>1. CASE w.field = "pass"
  <2>1. w.v \in Passwords
    BY <1>1 DEF ChangeWhats
  <2>2. new = [pass |-> w.v, enabled |-> "yes", roles |-> old.roles, epoch |-> old.epoch + 1]
    <3>1. mid = [pass |-> w.v, enabled |-> "yes", roles |-> old.roles, epoch |-> old.epoch]
      BY <1>1, <1>5
    <3>2. counted = old.epoch + 1
      BY <1>1, <3>1
    <3> HIDE DEF mid, counted
    <3> QED  BY <1>4, <3>1, <3>2
  <2>3. new \in UserRecords
    BY <1>0, <2>1, <2>2 DEF UserRecords
  <2>4. \A g \in DOMAIN new \ Auth!Touched(w.field) : new[g] = old[g]
    BY <1>1, <2>2 DEF Auth!Touched
  <2>5. new.epoch = old.epoch + 1
    BY <2>2
  <2>6. new.epoch >= old.epoch /\ new.epoch # old.epoch
    BY <1>0, <2>5
  <2>7. Follows("user", old, new, Auth!Touched(w.field))
    BY <2>4, <2>6 DEF Follows
  <2> QED  BY <2>3, <2>7 DEF new
<1>2. CASE w.field = "enabled"
  <2>1. w.v \in {"yes", "no"}
    BY <1>2 DEF ChangeWhats
  <2> DEFINE e == IF w.v # old.enabled THEN old.epoch + 1 ELSE old.epoch
  <2>2. new = [pass |-> old.pass, enabled |-> w.v, roles |-> old.roles, epoch |-> e]
    <3>1. mid = [pass |-> old.pass, enabled |-> w.v, roles |-> old.roles, epoch |-> old.epoch]
      BY <1>2, <1>5
    <3>2. counted = e
      BY <1>2, <3>1
    <3> HIDE DEF mid, counted, e
    <3> QED  BY <1>4, <3>1, <3>2
  <2>3. e \in Nat /\ e >= old.epoch
    BY <1>0
  <2> HIDE DEF e
  <2>4. new \in UserRecords
    BY <2>1, <2>2, <2>3 DEF UserRecords
  <2>5. \A g \in DOMAIN new \ Auth!Touched(w.field) : new[g] = old[g]
    BY <1>2, <2>2 DEF Auth!Touched
  <2>6. Follows("user", old, new, Auth!Touched(w.field))
    BY <2>2, <2>3, <2>5 DEF Follows
  <2> QED  BY <2>4, <2>6 DEF new
<1>3. CASE w.field = "roles"
  <2>1. w.v = "admin"
    BY <1>3 DEF ChangeWhats
  <2>2. new = [pass |-> old.pass, enabled |-> old.enabled, roles |-> w.v, epoch |-> old.epoch]
    <3>1. mid = [pass |-> old.pass, enabled |-> old.enabled, roles |-> w.v, epoch |-> old.epoch]
      BY <1>3, <1>5
    <3>2. counted = old.epoch
      BY <1>3, <3>1
    <3> HIDE DEF mid, counted
    <3> QED  BY <1>4, <3>1, <3>2
  <2>3. new \in UserRecords
    BY <1>0, <2>1, <2>2 DEF UserRecords
  <2>4. \A g \in DOMAIN new \ Auth!Touched(w.field) : new[g] = old[g]
    BY <1>3, <2>2 DEF Auth!Touched
  <2>5. Follows("user", old, new, Auth!Touched(w.field))
    BY <1>0, <2>2, <2>4 DEF Follows
  <2> QED  BY <2>3, <2>5 DEF new
<1> QED  BY <1>1, <1>2, <1>3 DEF ChangeWhats

LEMMA RoleChangedLemma ==
  ASSUME NEW old \in RoleRecords, NEW w \in ChangeWhats, w.key = "role"
  PROVE  /\ [old EXCEPT ![w.field] = w.v] \in RoleRecords
         /\ Follows("role", old, [old EXCEPT ![w.field] = w.v], Auth!Touched(w.field))
<1>1. w.field \in {"desc", "perms"} /\ w.v = "admin" /\ Auth!Touched(w.field) = {w.field}
  BY DEF ChangeWhats, Auth!Touched
<1> QED  BY <1>1 DEF RoleRecords, Follows

\* mutate_user and mutate_role: the change is made from the record at hand.
LEMMA ChangeGood ==
  ASSUME AuthAssumptions, AuthInv, NEW n \in Nodes, NEW w \in ChangeWhats
  PROVE  Good(log, Auth!ChangeOp(Auth!Local(n), w.key, w.field, w.v))
<1> DEFINE kv == Auth!Local(n)
           new == Auth!Changed(kv, w.key, w.field, w.v)
           e == IF Auth!Present(kv, w.key) THEN {kv[w.key].ver} ELSE {}
           o == Auth!ChangeOp(kv, w.key, w.field, w.v)
<1>1. kvApplied[n] \in 0..Len(log) /\ kv \in Kvs /\ kv = Auth!KvIn(log, kvApplied[n])
  BY LocalLemma
<1> HIDE DEF kv
<1>2. w.key \in {"user", "role"} /\ w.key \in Auth!Keys /\ w.key \notin Tokens
  BY KeysLemma DEF ChangeWhats, AuthAssumptions
<1>3. /\ new \in RecordsOf(w.key)
      /\ Auth!Present(kv, w.key) =>
           Follows(w.key, kv[w.key].val, new, Auth!Touched(w.field))
  <2>1. CASE w.key = "user"
    <3> DEFINE old == IF Auth!Present(kv, "user") THEN kv["user"].val ELSE Auth!NewUser
    <3>1. old \in UserRecords
      <4>1. Auth!NewUser \in UserRecords
        BY DEF Auth!NewUser, UserRecords
      <4> QED  BY <1>1, <4>1, EpochLemma DEF AuthAssumptions
    <3>2. new = Auth!UserChanged(old, w.field, w.v)
      BY <2>1 DEF Auth!Changed
    <3>3. Auth!Present(kv, w.key) => old = kv[w.key].val
      BY <2>1
    <3> HIDE DEF old, new
    <3>4. new \in UserRecords /\ Follows("user", old, new, Auth!Touched(w.field))
      BY <2>1, <3>1, <3>2, UserChangedLemma
    <3> QED  BY <2>1, <3>3, <3>4 DEF RecordsOf
  <2>2. CASE w.key = "role"
    <3> DEFINE old == IF Auth!Present(kv, "role") THEN kv["role"].val ELSE Auth!NewRole
    <3>1. old \in RoleRecords
      <4>1. Auth!NewRole \in RoleRecords
        BY DEF Auth!NewRole, RoleRecords
      <4>2. "role" \in Auth!Keys /\ RecordsOf("role") = RoleRecords
        BY DEF Auth!Keys, RecordsOf
      <4>3. Auth!Present(kv, "role") => kv["role"].val \in RoleRecords
        BY <1>1, <4>2, CellLemma
      <4> QED  BY <4>1, <4>3
    <3>2. new = [old EXCEPT ![w.field] = w.v]
      BY <2>2 DEF Auth!Changed
    <3>3. Auth!Present(kv, w.key) => old = kv[w.key].val
      BY <2>2
    <3> HIDE DEF old, new
    <3>4. new \in RoleRecords /\ Follows("role", old, new, Auth!Touched(w.field))
      BY <2>2, <3>1, <3>2, RoleChangedLemma
    <3> QED  BY <2>2, <3>3, <3>4 DEF RecordsOf
  <2> QED  BY <1>2, <2>1, <2>2
<1> HIDE DEF new
<1>4. o = [type |-> "put", key |-> w.key, val |-> new, expect |-> e,
           touches |-> Auth!Touched(w.field)]
  BY DEF Auth!ChangeOp, Auth!PutFields, Auth!AnyVer, new, e
<1>5. kv[w.key].ver \in Nat
  BY <1>1, <1>2, CellLemma
<1>6. e \in SUBSET Nat
  BY <1>5
<1>7. Auth!Touched(w.field) \in SUBSET Fields
  BY DEF Auth!Touched, ChangeWhats, Fields
<1>8. new \in AnyRecord
  BY <1>2, <1>3 DEF AnyRecord, RecordsOf
<1> HIDE DEF o
<1>9. o \in Ops
  <2> HIDE DEF e
  <2> QED  BY <1>2, <1>4, <1>6, <1>7, <1>8 DEF Ops, Puts
<1>10. ASSUME o.expect # {}
       PROVE  MadeFrom(log, o, kvApplied[n])
  <2>1. o.expect = e /\ o.key = w.key /\ o.val = new /\ o.touches = Auth!Touched(w.field)
    BY <1>4
  <2>2. Auth!Present(kv, w.key) /\ e = {kv[w.key].ver}
    BY <1>10, <2>1
  <2> HIDE DEF e
  <2> QED  BY <1>1, <1>3, <2>1, <2>2 DEF MadeFrom
<1>11. o.type = "put" /\ o.key = w.key /\ o.val = new
  BY <1>4
<1>12. Good(log, o)
  BY <1>1, <1>2, <1>3, <1>9, <1>10, <1>11 DEF Good
<1> QED  BY <1>12 DEF o, kv

LEMMA ReadRecordKeeps ==
  ASSUME AuthAssumptions, AuthInv, NEW c \in Clients, Auth!ReadRecord(c)
  PROVE  AuthInv'
<1> DEFINE r == client[c]
           o == Auth!ChangeOp(Auth!Local(r.node), r.what.key, r.what.field, r.what.v)
           q == Auth!Proposed(r, o)
           s == [q EXCEPT !.cas = @ + 1]
<1>1. r.pc = "start" /\ r.kind = "change" /\ log' = log /\ known' = known
        /\ kvApplied' = kvApplied /\ loggedOut' = loggedOut
        /\ Auth!Step(c, s) /\ Auth!Fly(c, s)
  BY DEF Auth!ReadRecord
<1>2. RequestOK(log, r) /\ r # Auth!Idle
  BY <1>1 DEF AuthInv, Auth!Idle
<1>3. r \in Requests /\ r.what \in ChangeWhats /\ r.what \in WhatOf(r.kind) /\ r.node \in Nodes
  BY <1>1, <1>2 DEF RequestOK, WhatOf, Requests
<1>4. Good(log, o)
  BY <1>3, ChangeGood
<1> HIDE DEF o
<1>5. q \in Requests /\ q.op = o /\ q.kind = r.kind /\ q.what = r.what
  BY <1>1, <1>3, <1>4, ProposedOK
<1>6. q.pc = "wait"
  BY <1>3 DEF Auth!Proposed, Requests
<1> HIDE DEF q
<1>7. /\ s.pc = "wait" /\ s.op = o /\ s.kind = "change" /\ s.what = r.what
  BY <1>1, <1>5, <1>6 DEF Requests
<1>8. s \in Requests
  <2>1. q.cas + 1 \in Nat /\ s = [q EXCEPT !.cas = q.cas + 1]
    BY <1>5 DEF Requests
  <2> QED  BY <1>5, <2>1 DEF Requests
<1> HIDE DEF s, r
<1>9. RequestOK(log, s)
  BY <1>1, <1>3, <1>4, <1>7, <1>8 DEF RequestOK
<1> QED  BY <1>1, <1>7, <1>9, ProposeStep

\* The copy writes its next record.
LEMMA HydrateWriteOK ==
  ASSUME AuthAssumptions, NEW l, NEW r \in Requests, r.kind = "hydrate",
         r.what \in WhatOf("hydrate"),
         NEW k \in {"role", "user", "marker"}
  PROVE  RequestOK(l, Auth!HydrateWrite(r, k)) /\ Auth!HydrateWrite(r, k).pc = "wait"
<1> DEFINE o == Auth!Put(k, Auth!SinkRecord(k))
           q == Auth!Proposed(r, o)
           s == [q EXCEPT !.what = [key |-> k]]
<1>1. Good(l, o)
  BY SinkGood DEF AuthAssumptions
<1> HIDE DEF o
<1>2. q \in Requests /\ q.op = o /\ q.kind = "hydrate"
  BY <1>1, ProposedOK
<1>3. q.pc = "wait"
  BY DEF Auth!Proposed, Requests
<1>4. [key |-> k] \in WhatOf("hydrate") /\ [key |-> k] \in Whats
  BY DEF WhatOf, Whats, Kinds
<1> HIDE DEF q
<1>5. s.pc = "wait" /\ s.op = o /\ s.kind = "hydrate" /\ s.what \in WhatOf("hydrate") /\ s \in Requests
  BY <1>2, <1>3, <1>4 DEF Requests
<1>6. Auth!HydrateWrite(r, k) = s
  BY DEF Auth!HydrateWrite, q, o
<1> HIDE DEF s
<1> QED  BY <1>1, <1>5, <1>6 DEF RequestOK

LEMMA StartHydrateKeeps ==
  ASSUME AuthAssumptions, AuthInv, NEW c \in Clients, NEW n \in Nodes, Auth!StartHydrate(c, n)
  PROVE  AuthInv'
<1> DEFINE q == Auth!Request(n, "hydrate", [key |-> "role"])
           s == Auth!HydrateWrite(q, "role")
<1>1. Auth!Step(c, s) /\ Auth!Fly(c, s) /\ log' = log /\ known' = known
        /\ kvApplied' = kvApplied /\ loggedOut' = loggedOut
  BY DEF Auth!StartHydrate
<1>2. [key |-> "role"] \in WhatOf("hydrate") /\ "hydrate" \in Kinds
  BY DEF WhatOf, Kinds
<1>3. q \in Requests /\ q.kind = "hydrate" /\ q.what = [key |-> "role"]
  BY <1>2, NewRequest
<1> HIDE DEF q
<1>4. RequestOK(log, s) /\ s.pc = "wait"
  BY <1>2, <1>3, HydrateWriteOK
<1> HIDE DEF s
<1> QED  BY <1>1, <1>4, ProposeStep

\* The same op again.
LEMMA ResendKeeps ==
  ASSUME AuthAssumptions, AuthInv, NEW c \in Clients, Auth!Resend(c)
  PROVE  AuthInv'
<1> DEFINE r == client[c]
           s == Auth!Proposed(r, r.op)
<1>1. r.pc = "wait" /\ Auth!Step(c, s) /\ Auth!Fly(c, s) /\ log' = log /\ known' = known
        /\ kvApplied' = kvApplied /\ loggedOut' = loggedOut
  BY DEF Auth!Resend
<1>2. RequestOK(log, r) /\ r # Auth!Idle
  BY <1>1 DEF AuthInv, Auth!Idle
<1>3. r \in Requests /\ r.what \in WhatOf(r.kind) /\ Good(log, r.op)
        /\ (r.kind = "logout" => r.op = Auth!Delete(r.what.token))
  BY <1>1, <1>2 DEF RequestOK
<1>4. RequestOK(log, s)
  BY <1>3, ProposedOK
<1>5. s.pc = "wait"
  BY <1>3 DEF Auth!Proposed, Requests
<1> HIDE DEF s
<1> QED  BY <1>1, <1>4, <1>5, ProposeStep

LEMMA AppliedHereKeeps ==
  ASSUME AuthAssumptions, AuthInv, NEW c \in Clients, Auth!AppliedHere(c)
  PROVE  AuthInv'
<1> DEFINE r == client[c]
<1>1. r.pc = "local" /\ log' = log /\ known' = known /\ kvApplied' = kvApplied
        /\ loggedOut' = loggedOut
  BY DEF Auth!AppliedHere
<1>2. RequestOK(log, r) /\ r # Auth!Idle
  BY <1>1 DEF AuthInv, Auth!Idle
<1>3. r \in Requests /\ r.what \in WhatOf(r.kind)
  BY <1>2 DEF RequestOK
<1>4. CASE Auth!Step(c, Auth!Idle) /\ flying' = flying
  BY <1>1, <1>4, IdleOK, StillStep
<1>5. CASE /\ r.kind = "hydrate" /\ r.what.key # "marker"
           /\ Auth!Step(c, Auth!HydrateWrite(r, Auth!NextRecord(r.what.key)))
           /\ Auth!Fly(c, Auth!HydrateWrite(r, Auth!NextRecord(r.what.key)))
  <2> DEFINE s == Auth!HydrateWrite(r, Auth!NextRecord(r.what.key))
  <2>1. Auth!NextRecord(r.what.key) \in {"role", "user", "marker"}
    BY DEF Auth!NextRecord
  <2>2. RequestOK(log, s) /\ s.pc = "wait"
    BY <1>3, <1>5, <2>1, HydrateWriteOK
  <2> HIDE DEF s
  <2>3. Auth!Step(c, s) /\ Auth!Fly(c, s)
    BY <1>5 DEF s
  <2> QED  BY <1>1, <2>2, <2>3, ProposeStep
<1>6. CASE Auth!Step(c, [r EXCEPT !.pc = "visible", !.seen = {r.node}]) /\ flying' = flying
  <2> DEFINE s == [r EXCEPT !.pc = "visible", !.seen = {r.node}]
  <2>1. /\ s \in Requests /\ s.pc = "visible" /\ s.kind = r.kind /\ s.what = r.what
        /\ s.op = r.op /\ s.idx = r.idx
    BY <1>3 DEF Requests
  <2>2. Auth!Step(c, s)
    BY <1>6
  <2> HIDE DEF s
  <2>3. RequestOK(log, s)
    BY <1>1, <1>2, <2>1 DEF RequestOK
  <2> QED  BY <1>1, <1>6, <2>2, <2>3, StillStep
<1>7. \/ Auth!Step(c, Auth!Idle) /\ flying' = flying
      \/ /\ r.kind = "hydrate" /\ r.what.key # "marker"
         /\ Auth!Step(c, Auth!HydrateWrite(r, Auth!NextRecord(r.what.key)))
         /\ Auth!Fly(c, Auth!HydrateWrite(r, Auth!NextRecord(r.what.key)))
      \/ Auth!Step(c, [r EXCEPT !.pc = "visible", !.seen = {r.node}]) /\ flying' = flying
  BY DEF Auth!AppliedHere
<1> QED  BY <1>4, <1>5, <1>6, <1>7

LEMMA SeesAppliedKeeps ==
  ASSUME AuthAssumptions, AuthInv, NEW c \in Clients, NEW n \in Nodes, Auth!SeesApplied(c, n)
  PROVE  AuthInv'
<1> DEFINE r == client[c]
           s == [r EXCEPT !.seen = @ \cup {n}]
<1>1. r.pc = "visible" /\ log' = log /\ known' = known /\ kvApplied' = kvApplied
        /\ loggedOut' = loggedOut /\ flying' = flying /\ Auth!Step(c, s)
  BY DEF Auth!SeesApplied
<1>2. RequestOK(log, r) /\ r # Auth!Idle
  BY <1>1 DEF AuthInv, Auth!Idle
<1>3. /\ s \in Requests /\ s.pc = "visible" /\ s.kind = r.kind /\ s.what = r.what
      /\ s.op = r.op /\ s.idx = r.idx
  <2>1. r \in Requests
    BY <1>2 DEF RequestOK
  <2>2. r.seen \cup {n} \in SUBSET Nodes /\ s = [r EXCEPT !.seen = r.seen \cup {n}]
    BY <2>1 DEF Requests
  <2> QED  BY <1>1, <2>1, <2>2 DEF Requests
<1> HIDE DEF s
<1>4. RequestOK(log, s)
  BY <1>1, <1>2, <1>3 DEF RequestOK
<1> QED  BY <1>1, <1>4, StillStep

\* The session of an answered logout was deleted.
LEMMA AnswerKeeps ==
  ASSUME AuthAssumptions, AuthInv, NEW c \in Clients, Auth!Answer(c)
  PROVE  AuthInv'
<1> DEFINE r == client[c]
<1>1. r.pc = "visible" /\ log' = log /\ known' = known /\ kvApplied' = kvApplied
        /\ flying' = flying /\ client' = [client EXCEPT ![c] = Auth!Idle]
  BY DEF Auth!Answer, Auth!Step
<1>2. RequestOK(log, r) /\ r # Auth!Idle
  BY <1>1 DEF AuthInv, Auth!Idle
<1>3. /\ client' \in [Clients -> Requests \cup {Auth!Idle}]
      /\ \A d \in Clients : RequestOK(log', client'[d])
  BY <1>1, IdleOK DEF AuthInv
<1>4. ASSUME NEW x \in loggedOut', x \notin loggedOut
      PROVE  LogoutOK(log', x)
  <2>1. /\ r.kind = "logout"
        /\ \E n \in r.seen : x = [token |-> r.what.token, node |-> n, idx |-> r.idx]
    BY <1>4 DEF Auth!Answer
  <2>2. r \in Requests /\ r.what \in [token : Tokens] /\ Deletes(log, r.idx, r.what.token)
    BY <1>1, <1>2, <2>1 DEF RequestOK, WhatOf
  <2>3. r.seen \subseteq Nodes
    BY <2>2 DEF Requests
  <2> QED  BY <1>1, <2>1, <2>2, <2>3 DEF LogoutOK
<1>5. \A x \in loggedOut' : LogoutOK(log', x)
  BY <1>1, <1>4 DEF AuthInv
<1>6. FlightsOK'
  BY <1>1 DEF AuthInv, FlightsOK
<1> QED  BY <1>1, <1>3, <1>5, <1>6 DEF AuthInv

LEMMA GiveUpKeeps ==
  ASSUME AuthInv, NEW c \in Clients, Auth!GiveUp(c)
  PROVE  AuthInv'
<1>1. log' = log /\ known' = known /\ kvApplied' = kvApplied /\ flying' = flying
        /\ loggedOut' = loggedOut /\ Auth!Step(c, Auth!Idle)
  BY DEF Auth!GiveUp
<1> QED  BY <1>1, IdleOK, StillStep

\* A proposal is committed, and answered if its request still waits for it.
LEMMA CommitKeeps ==
  ASSUME AuthAssumptions, AuthInv, NEW f \in flying, Auth!Commit(f)
  PROVE  AuthInv'
<1> DEFINE r == client[f.by]
           ok == Auth!Accepts(Auth!KvAt(Len(log)), f.op)
           s == Auth!Answered(r, ok, Len(log) + 1)
<1>1. /\ log' = Auth!Committed(log, f.op) /\ flying' = flying \ {f}
      /\ known' = known /\ kvApplied' = kvApplied /\ loggedOut' = loggedOut
  BY DEF Auth!Commit
<1>2. f.by \in Clients /\ Good(log, f.op)
  BY DEF AuthInv, FlightsOK, FlightOK
<1>3. LogInv(log) /\ Longer(log, f.op, log') /\ LogInv(log')
  BY <1>1, <1>2, LogStep DEF AuthInv, AuthAssumptions
<1>4. Len(log) \in Nat /\ Len(log') = Len(log) + 1 /\ log'[Len(log) + 1].op = f.op
  BY <1>3 DEF Longer
<1>5. \A d \in Clients : RequestOK(log', client[d])
  BY <1>3, RequestStays DEF AuthInv
<1>6. \A g \in flying' : FlightOK(log', g)
  <2>1. ASSUME NEW g \in flying'
        PROVE  FlightOK(log', g)
    <3>1. FlightOK(log, g)
      BY <1>1 DEF AuthInv, FlightsOK
    <3> QED  BY <1>3, <3>1, GoodStays DEF FlightOK
  <2> QED  BY <2>1
<1>7. \A x \in loggedOut' : LogoutOK(log', x)
  <2>1. ASSUME NEW x \in loggedOut'
        PROVE  LogoutOK(log', x)
    <3>1. LogoutOK(log, x)
      BY <1>1 DEF AuthInv
    <3> QED  BY <1>3, <3>1, DeletesStay DEF LogoutOK
  <2> QED  BY <2>1
<1>8. \A n \in Nodes : kvApplied'[n] <= Len(log')
  BY <1>1, <1>4 DEF AuthInv
<1>9. /\ client' \in [Clients -> Requests \cup {Auth!Idle}]
      /\ \A d \in Clients : RequestOK(log', client'[d])
  <2>1. CASE client' = client
    BY <1>5, <2>1 DEF AuthInv
  <2>2. CASE /\ r.pc = "wait" /\ r.try = f.try /\ r.op = f.op
             /\ client' = [client EXCEPT ![f.by] = s]
    <3>1. RequestOK(log, r) /\ r # Auth!Idle
      BY <1>2, <2>2 DEF AuthInv, Auth!Idle
    <3>2. ok \in BOOLEAN
      <4>1. f.op \in Ops /\ (f.op.type = "put" => f.op.val \in RecordsOf(f.op.key))
        BY <1>2 DEF Good
      <4>2. Auth!KvAt(Len(log)) \in Kvs
        BY <1>3 DEF Auth!KvAt, Longer
      <4> QED  BY <4>1, <4>2, AfterLemma
    <3>3. s \in Requests \cup {Auth!Idle} /\ RequestOK(log', s)
      <4>1. CASE ok
        <5>1. s = [r EXCEPT !.pc = "local", !.idx = Len(log) + 1]
          BY <4>1 DEF Auth!Answered
        <5>2. r \in Requests /\ Len(log) + 1 \in Nat
          BY <1>4, <3>1 DEF RequestOK
        <5> HIDE DEF s
        <5>3. /\ s \in Requests /\ s.pc = "local" /\ s.kind = r.kind /\ s.what = r.what
              /\ s.op = r.op /\ s.idx = Len(log) + 1
          BY <5>1, <5>2 DEF Requests
        <5>4. ASSUME s.kind = "logout"
              PROVE  Deletes(log', s.idx, s.what.token)
          <6>1. f.op = Auth!Delete(s.what.token)
            BY <2>2, <3>1, <5>3, <5>4 DEF RequestOK
          <6>2. f.op.type = "delete" /\ f.op.key = s.what.token
            BY <6>1 DEF Auth!Delete
          <6>3. Len(log) + 1 \in 1..Len(log')
            BY <1>4
          <6> QED  BY <1>4, <5>3, <6>2, <6>3 DEF Deletes
        <5> QED  BY <3>1, <5>3, <5>4 DEF RequestOK
      <4>2. CASE ~ok /\ r.kind = "change" /\ s = [r EXCEPT !.pc = "start"]
        <5>1. r \in Requests
          BY <3>1 DEF RequestOK
        <5>2. s \in Requests /\ s.pc = "start" /\ s.kind = r.kind /\ s.what = r.what
          BY <4>2, <5>1 DEF Requests
        <5> HIDE DEF s
        <5> QED  BY <3>1, <4>2, <5>2 DEF RequestOK
      <4>3. CASE s = Auth!Idle
        BY <4>3, IdleOK
      <4>4. \/ ok \/ s = Auth!Idle
            \/ ~ok /\ r.kind = "change" /\ s = [r EXCEPT !.pc = "start"]
        BY <3>2 DEF Auth!Answered
      <4> QED  BY <4>1, <4>2, <4>3, <4>4
    <3> HIDE DEF s
    <3>4. \A d \in Clients : client'[d] = client[d] \/ client'[d] = s
      BY <2>2 DEF AuthInv
    <3>5. client' \in [Clients -> Requests \cup {Auth!Idle}]
      BY <2>2, <3>3 DEF AuthInv
    <3> QED  BY <1>5, <3>3, <3>4, <3>5
  <2> QED  BY <2>1, <2>2 DEF Auth!Commit, Auth!Step
<1>10. FlightsOK'
  BY <1>6 DEF FlightsOK
<1> QED  BY <1>1, <1>3, <1>7, <1>8, <1>9, <1>10 DEF AuthInv

\* A replica applies more, or less: what it applied is a part of the log.
LEMMA ReplicaStep ==
  ASSUME AuthInv, log' = log, flying' = flying, loggedOut' = loggedOut,
         known' \in [Nodes -> Nat], kvApplied' \in [Nodes -> Nat],
         \A n \in Nodes : kvApplied'[n] <= Len(log),
         client' \in [Clients -> Requests \cup {Auth!Idle}],
         \A c \in Clients : client'[c] = client[c] \/ client'[c] = Auth!Idle
  PROVE  AuthInv'
<1>1. \A c \in Clients : RequestOK(log, client'[c])
  BY IdleOK DEF AuthInv
<1>2. FlightsOK'
  BY DEF AuthInv, FlightsOK
<1> QED  BY <1>1, <1>2 DEF AuthInv

LEMMA LearnKeeps ==
  ASSUME AuthInv, NEW n \in Nodes,
         Auth!Learn(n) \/ Auth!InstallOldSnapshot(n) \/ Auth!RestartReplica(n)
  PROVE  AuthInv'
<1>1. log \in Logs /\ known \in [Nodes -> Nat] /\ kvApplied \in [Nodes -> Nat]
        /\ client \in [Clients -> Requests \cup {Auth!Idle}]
        /\ \A m \in Nodes : kvApplied[m] <= Len(log)
  BY DEF AuthInv, LogInv
<1>2. Len(log) \in Nat
  BY <1>1, LenProperties DEF Logs
<1>3. ASSUME NEW k \in Nat, k <= Len(log)
      PROVE  /\ [known EXCEPT ![n] = k] \in [Nodes -> Nat]
             /\ [kvApplied EXCEPT ![n] = k] \in [Nodes -> Nat]
             /\ \A m \in Nodes : [kvApplied EXCEPT ![n] = k][m] <= Len(log)
  BY <1>1, <1>3
<1>4. CASE Auth!Learn(n)
  <2>1. PICK k \in (known[n] + 1)..Len(log) :
          known' = [known EXCEPT ![n] = k] /\ kvApplied' = [kvApplied EXCEPT ![n] = k]
    BY <1>4 DEF Auth!Learn
  <2>2. k \in Nat /\ k <= Len(log)
    BY <1>1, <1>2, <2>1
  <2>3. log' = log /\ flying' = flying /\ loggedOut' = loggedOut /\ client' = client
    BY <1>4 DEF Auth!Learn
  <2> QED  BY <1>1, <1>3, <2>1, <2>2, <2>3, ReplicaStep
<1>5. CASE Auth!InstallOldSnapshot(n)
  <2>1. PICK k \in 1..(kvApplied[n] - 1) : kvApplied' = [kvApplied EXCEPT ![n] = k]
    BY <1>5 DEF Auth!InstallOldSnapshot
  <2>2. kvApplied[n] \in Nat /\ kvApplied[n] <= Len(log)
    BY <1>1
  <2>3. k \in Nat /\ k <= Len(log)
    BY <1>2, <2>1, <2>2
  <2>4. log' = log /\ flying' = flying /\ loggedOut' = loggedOut /\ client' = client /\ known' = known
    BY <1>5 DEF Auth!InstallOldSnapshot
  <2> QED  BY <1>1, <1>3, <2>1, <2>3, <2>4, ReplicaStep
<1>6. CASE Auth!RestartReplica(n)
  <2>1. PICK k \in 0..kvApplied[n] :
          known' = [known EXCEPT ![n] = k] /\ kvApplied' = [kvApplied EXCEPT ![n] = k]
    BY <1>6 DEF Auth!RestartReplica
  <2>2. kvApplied[n] \in Nat /\ kvApplied[n] <= Len(log)
    BY <1>1
  <2>3. k \in Nat /\ k <= Len(log)
    BY <1>2, <2>1, <2>2
  <2>4. log' = log /\ flying' = flying /\ loggedOut' = loggedOut
    BY <1>6 DEF Auth!RestartReplica
  <2>5. client' = [c \in Clients |->
          IF client[c].pc # "idle" /\ client[c].node = n THEN Auth!Idle ELSE client[c]]
    BY <1>6 DEF Auth!RestartReplica
  <2>6. \A c \in Clients : client'[c] = client[c] \/ client'[c] = Auth!Idle
    BY <2>5
  <2>7. client' \in [Clients -> Requests \cup {Auth!Idle}]
    BY <1>1, <2>5
  <2> QED  BY <1>3, <2>1, <2>3, <2>4, <2>6, <2>7, ReplicaStep
<1> QED  BY <1>4, <1>5, <1>6

LEMMA ChangeKeeps ==
  ASSUME AuthAssumptions, AuthInv, NEW c \in Clients, NEW n \in Nodes, Auth!Change(c, n)
  PROVE  AuthInv'
<1>1. PICK w \in ChangeWhats : Auth!StartChange(c, n, w.key, w.field, w.v)
  <2>1. CASE \E p \in Passwords : Auth!StartChange(c, n, "user", "pass", p)
    <3>1. PICK p \in Passwords : Auth!StartChange(c, n, "user", "pass", p)
      BY <2>1
    <3>2. [key |-> "user", field |-> "pass", v |-> p] \in ChangeWhats
      BY DEF ChangeWhats
    <3> QED  BY <3>1, <3>2
  <2>2. CASE \E b \in {"yes", "no"} : Auth!StartChange(c, n, "user", "enabled", b)
    <3>1. PICK b \in {"yes", "no"} : Auth!StartChange(c, n, "user", "enabled", b)
      BY <2>2
    <3>2. [key |-> "user", field |-> "enabled", v |-> b] \in ChangeWhats
      BY DEF ChangeWhats
    <3> QED  BY <3>1, <3>2
  <2>3. /\ [key |-> "user", field |-> "roles", v |-> "admin"] \in ChangeWhats
        /\ [key |-> "role", field |-> "desc", v |-> "admin"] \in ChangeWhats
        /\ [key |-> "role", field |-> "perms", v |-> "admin"] \in ChangeWhats
    BY DEF ChangeWhats
  <2>4. CASE Auth!StartChange(c, n, "user", "roles", "admin")
    BY <2>3, <2>4
  <2>5. CASE Auth!StartChange(c, n, "role", "desc", "admin")
    BY <2>3, <2>5
  <2>6. CASE Auth!StartChange(c, n, "role", "perms", "admin")
    BY <2>3, <2>6
  <2> QED  BY <2>1, <2>2, <2>4, <2>5, <2>6 DEF Auth!Change
<1> QED  BY <1>1, StartChangeKeeps

LEMMA AuthStart ==
  ASSUME AuthAssumptions, Auth!Start
  PROVE  AuthInv
<1>1. /\ log \in {<<>>, Auth!HydratedLog} /\ flying = {} /\ loggedOut = {}
      /\ known = [n \in Nodes |-> Len(log)] /\ kvApplied = known
      /\ client = [c \in Clients |-> Auth!Idle]
  BY DEF Auth!Start
<1>2. LogInv(log)
  BY <1>1, EmptyLog, HydratedLogOK DEF AuthAssumptions
<1>3. Len(log) \in Nat
  BY <1>2, LenProperties DEF LogInv, Logs
<1>4. /\ known \in [Nodes -> Nat] /\ kvApplied \in [Nodes -> Nat]
      /\ \A n \in Nodes : kvApplied[n] <= Len(log)
  BY <1>1, <1>3
<1>5. FlightsOK
  BY <1>1 DEF FlightsOK
<1> QED  BY <1>1, <1>2, <1>4, <1>5, IdleOK DEF AuthInv

LEMMA AuthStep ==
  ASSUME AuthAssumptions, AuthInv, [Auth!Next]_(Auth!vars)
  PROVE  AuthInv'
<1>1. CASE UNCHANGED Auth!vars
  BY <1>1 DEF AuthInv, FlightsOK, Auth!vars
<1>2. ASSUME NEW c \in Clients, NEW n \in Nodes,
             \/ \E p \in Passwords : Auth!StartLogin(c, n, p)
             \/ \E t \in Tokens : Auth!StartLogout(c, n, t)
             \/ Auth!Change(c, n)
             \/ Auth!StartHydrate(c, n)
             \/ Auth!SeesApplied(c, n)
      PROVE  AuthInv'
  BY <1>2, StartLoginKeeps, StartLogoutKeeps, ChangeKeeps, StartHydrateKeeps, SeesAppliedKeeps
<1>3. ASSUME NEW c \in Clients,
             Auth!CheckPassword(c) \/ Auth!ReadRecord(c) \/ Auth!Resend(c)
               \/ Auth!AppliedHere(c) \/ Auth!Answer(c) \/ Auth!GiveUp(c)
      PROVE  AuthInv'
  BY <1>3, CheckPasswordKeeps, ReadRecordKeeps, ResendKeeps, AppliedHereKeeps, AnswerKeeps,
     GiveUpKeeps
<1>4. ASSUME NEW f \in flying, Auth!Commit(f)
      PROVE  AuthInv'
  BY <1>4, CommitKeeps
<1>5. ASSUME NEW n \in Nodes,
             Auth!Learn(n) \/ Auth!InstallOldSnapshot(n) \/ Auth!RestartReplica(n)
      PROVE  AuthInv'
  BY <1>5, LearnKeeps
<1> QED  BY <1>1, <1>2, <1>3, <1>4, <1>5 DEF Auth!Next

-----------------------------------------------------------------------------
(* The properties follow. *)

LEMMA NoBlindIs == Auth!NoBlindWrite /\ log \in Logs => NoBlind(log)
<1> SUFFICES ASSUME Auth!NoBlindWrite, log \in Logs, NEW i \in 1..Len(log),
                    log[i].op.key \in {"user", "role"}, log[i].op.type = "put",
                    log[i].op.expect = {}
             PROVE  ~Auth!Present(Auth!KvIn(log, i - 1), log[i].op.key)
  BY DEF NoBlind
<1>1. DOMAIN log = 1..Len(log)
  BY LenProperties DEF Logs
<1> QED  BY <1>1 DEF Auth!NoBlindWrite, Auth!KvAt, Auth!AnyVer

LEMMA SessionsMatch ==
  ASSUME AuthAssumptions, AuthInv
  PROVE  Auth!SessionsMatchPassword
<1> SUFFICES ASSUME Auth!NoBlindWrite, NEW n \in Nodes, NEW t \in Tokens,
                    Auth!Usable(Auth!Local(n), t)
             PROVE  Auth!Local(n)[t].val.pass = Auth!Local(n)["user"].val.pass
  BY DEF Auth!SessionsMatchPassword
<1> DEFINE a == kvApplied[n]
           kv == Auth!Local(n)
<1>1. a \in 0..Len(log) /\ kv = Auth!KvIn(log, a)
  BY LocalLemma
<1>2. log \in Logs /\ SessionsBorn(log) /\ OnePassword(log)
  BY NoBlindIs DEF AuthInv, LogInv
<1>3. /\ Auth!Present(kv, t) /\ Auth!Present(kv, "user")
      /\ kv[t].val.epoch = kv["user"].val.epoch
  BY DEF Auth!Usable
<1> HIDE DEF a, kv
<1>4. PICK j \in 0..Len(log) :
        /\ Auth!Present(Auth!KvIn(log, j), "user")
        /\ Auth!KvIn(log, j)["user"].val.epoch = kv[t].val.epoch
        /\ Auth!KvIn(log, j)["user"].val.pass = kv[t].val.pass
  BY <1>1, <1>2, <1>3 DEF SessionsBorn, Born
<1>5. j <= a \/ a <= j
  BY <1>1
<1>6. Auth!KvIn(log, j)["user"].val.pass = kv["user"].val.pass
  BY <1>1, <1>2, <1>3, <1>4, <1>5 DEF OnePassword
<1> QED  BY <1>4, <1>6 DEF kv

LEMMA LogoutsHold ==
  ASSUME AuthAssumptions, AuthInv
  PROVE  Auth!LogoutHolds
<1> SUFFICES ASSUME NEW x \in loggedOut, known[x.node] >= x.idx,
                    \A j \in (x.idx + 1)..Len(log) : log[j].op.key # x.token,
                    Auth!Admits(x.node, x.token)
             PROVE  FALSE
  BY DEF Auth!LogoutHolds
<1> DEFINE a == kvApplied[x.node]
<1>1. x.node \in Nodes /\ x.token \in Tokens /\ Deletes(log, x.idx, x.token)
  BY DEF AuthInv, LogoutOK
<1>2. a \in 0..Len(log) /\ Auth!Local(x.node) = Auth!KvIn(log, a)
  BY <1>1, LocalLemma
<1>3. a >= known[x.node] /\ Auth!Present(Auth!KvIn(log, a), x.token)
  BY <1>2 DEF Auth!Admits, Auth!Usable
<1>4. known[x.node] \in Nat /\ log \in Logs /\ DeletedStay(log)
  BY <1>1 DEF AuthInv, LogInv
<1>5. Len(log) \in Nat
  BY <1>4, LenProperties DEF Logs
<1>6. x.idx \in 1..Len(log)
  BY <1>1 DEF Deletes
<1>7. a \in 1..Len(log) /\ x.idx <= a
  BY <1>2, <1>3, <1>4, <1>5, <1>6
<1> HIDE DEF a
<1>8. \A m \in (x.idx + 1)..a : log[m].op.key # x.token
  BY <1>5, <1>6, <1>7
<1>9. ~Auth!Present(Auth!KvIn(log, a), x.token)
  BY <1>1, <1>4, <1>6, <1>7, <1>8 DEF DeletedStay
<1> QED  BY <1>3, <1>9 DEF a

LEMMA ChangesBuild ==
  ASSUME AuthAssumptions, AuthInv
  PROVE  Auth!ChangesBuildOn
<1>1. log \in Logs
  BY DEF AuthInv, LogInv
<1>2. DOMAIN log = 1..Len(log)
  BY <1>1, LenProperties DEF Logs
<1>3. Auth!NoBlindWrite => \A i \in 1..Len(log) : BuiltOn(log, i)
  BY <1>1, NoBlindIs DEF AuthInv, LogInv
<1> QED  BY <1>2, <1>3 DEF Auth!ChangesBuildOn, BuiltOn, Auth!KvAt

PartAuthInv == part = "auth" => AuthInv

LEMMA PartAuth ==
  ASSUME AuthAssumptions
  PROVE  Spec => []PartAuthInv
<1>1. Init => PartAuthInv
  BY AuthStart DEF Init, PartAuthInv
<1>2. PartAuthInv /\ [Next]_vars => PartAuthInv'
  BY PartStep, AuthStep DEF PartAuthInv
<1> QED  BY <1>1, <1>2, PTL DEF Spec

\* Sessions end: one that was opened with a password that is no longer the user's is not
\* usable on any replica, and one whose logout was answered is not admitted again where it
\* was seen applied (runtime.rs, session checks; http.rs, logout).
THEOREM SessionsEndHere ==
  ASSUME AuthAssumptions
  PROVE  Spec => []SessionsEnd
<1>1. PartAuthInv => SessionsEnd
  BY SessionsMatch, LogoutsHold DEF PartAuthInv, SessionsEnd, Auth!SessionsEnd
<1> QED  BY <1>1, PartAuth, PTL

\* The second of two administrators builds on what the first wrote (mutate_user).
THEOREM ChangesBuildOnLast ==
  ASSUME AuthAssumptions
  PROVE  Spec => []ChangesBuildOn
<1>1. PartAuthInv => ChangesBuildOn
  BY ChangesBuild DEF PartAuthInv, ChangesBuildOn
<1> QED  BY <1>1, PartAuth, PTL
=============================================================================
