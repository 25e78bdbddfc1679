--------------------------- MODULE LogStorageProofs ---------------------------
(***************************************************************************)
(* That the files of a node keep what its storage promises (LogStorage      *)
(* implements DurableLog), whatever the constants.                          *)
(***************************************************************************)
EXTENDS LogStorage, SequenceTheorems, WellFoundedInduction, TLAPS

-----------------------------------------------------------------------------
(* What there is to find: records, files and directories. *)

Hashes == [snap : Seq(Ops), past : Seq(Ops)]

\* A record counts from the snapshot of the chain it was written for.
Recs ==
  {r \in [index : Nat, op : Ops, prev : Hashes, whole : BOOLEAN] :
     r.index = Len(r.prev.snap) + Len(r.prev.past) + 1}

Files == {f \in [recs : Seq(Recs), synced : Nat] : f.synced <= Len(f.recs)}

Snaps == [ops : Seq(Ops), exists : BOOLEAN]

Dirs == [log : Files, cur : Snaps, prev : Snaps]

\* The records of operations o on top of snapshot s.
Run(o, s) ==
  [i \in 1..Len(o) |->
     [index |-> Len(s) + i, op |-> o[i],
      prev |-> [snap |-> s, past |-> SubSeq(o, 1, i - 1)], whole |-> TRUE]]

\* c and d both have n operations, the same ones.
Agree(c, d, n) == n <= Len(c) /\ n <= Len(d) /\ \A i \in 1..n : c[i] = d[i]

Extends(d, c) == Agree(c, d, Len(c))

LEMMA CutFacts ==
  ASSUME NEW T, NEW s \in Seq(T), NEW m \in Nat \ {0}, NEW n \in Nat, n <= Len(s), m <= n + 1
  PROVE  /\ SubSeq(s, m, n) \in Seq(T) /\ Len(SubSeq(s, m, n)) = n - m + 1
         /\ \A i \in 1..(n - m + 1) : SubSeq(s, m, n)[i] = s[m + i - 1]
  <1>1. Len(s) \in Nat /\ \A i \in m..n : s[i] \in T
    BY LenProperties, ElementOfSeq
  <1>2. QED
    BY <1>1, SubSeqProperties

LEMMA OpsOfFacts ==
  ASSUME NEW rs \in Seq(Recs)
  PROVE  /\ OpsOf(rs) \in Seq(Ops) /\ Len(OpsOf(rs)) = Len(rs)
         /\ \A i \in 1..Len(rs) : OpsOf(rs)[i] = rs[i].op
  <1>1. Len(rs) \in Nat /\ DOMAIN rs = 1..Len(rs) /\ \A i \in 1..Len(rs) : rs[i] \in Recs
    BY LenProperties, ElementOfSeq
  <1>2. \A i \in 1..Len(rs) : rs[i].op \in Ops
    BY <1>1 DEF Recs
  <1>3. QED
    BY <1>1, <1>2, SeqDef DEF OpsOf

LEMMA OpsOfCut ==
  ASSUME NEW rs \in Seq(Recs), NEW m \in Nat \ {0}, NEW n \in Nat, n <= Len(rs), m <= n + 1
  PROVE  OpsOf(SubSeq(rs, m, n)) = SubSeq(OpsOf(rs), m, n)
  <1> DEFINE a == OpsOf(SubSeq(rs, m, n))
             b == SubSeq(OpsOf(rs), m, n)
  <1>1. Len(rs) \in Nat
    BY LenProperties
  <1>2. /\ SubSeq(rs, m, n) \in Seq(Recs) /\ Len(SubSeq(rs, m, n)) = n - m + 1
        /\ \A i \in 1..(n - m + 1) : SubSeq(rs, m, n)[i] = rs[m + i - 1]
    BY CutFacts
  <1>3. /\ OpsOf(rs) \in Seq(Ops) /\ Len(OpsOf(rs)) = Len(rs)
        /\ \A i \in 1..Len(rs) : OpsOf(rs)[i] = rs[i].op
    BY OpsOfFacts
  <1>4. /\ b \in Seq(Ops) /\ Len(b) = n - m + 1
        /\ \A i \in 1..(n - m + 1) : b[i] = OpsOf(rs)[m + i - 1]
    <2> DEFINE x == OpsOf(rs)
    <2>1. x \in Seq(Ops) /\ n <= Len(x) /\ b = SubSeq(x, m, n)
      BY <1>3
    <2> HIDE DEF x, b
    <2>2. QED
      BY <2>1, CutFacts DEF x
  <1>5. a \in Seq(Ops) /\ Len(a) = n - m + 1 /\ \A i \in 1..(n - m + 1) : a[i] = rs[m + i - 1].op
    BY <1>2, OpsOfFacts
  <1>6. \A i \in 1..Len(a) : a[i] = b[i]
    BY <1>1, <1>3, <1>4, <1>5
  <1> HIDE DEF a, b
  <1>7. QED
    BY <1>4, <1>5, <1>6, SeqEqual DEF a, b

LEMMA OpsOfJoin ==
  ASSUME NEW rs \in Seq(Recs), NEW qs \in Seq(Recs)
  PROVE  OpsOf(rs \o qs) = OpsOf(rs) \o OpsOf(qs)
  <1> DEFINE a == OpsOf(rs \o qs)
             b == OpsOf(rs) \o OpsOf(qs)
  <1>1. Len(rs) \in Nat /\ Len(qs) \in Nat
    BY LenProperties
  <1>2. /\ rs \o qs \in Seq(Recs) /\ Len(rs \o qs) = Len(rs) + Len(qs)
        /\ \A i \in 1..(Len(rs) + Len(qs)) :
             (rs \o qs)[i] = IF i <= Len(rs) THEN rs[i] ELSE qs[i - Len(rs)]
    BY ConcatProperties
  <1>3. /\ OpsOf(rs) \in Seq(Ops) /\ Len(OpsOf(rs)) = Len(rs)
        /\ \A i \in 1..Len(rs) : OpsOf(rs)[i] = rs[i].op
        /\ OpsOf(qs) \in Seq(Ops) /\ Len(OpsOf(qs)) = Len(qs)
        /\ \A i \in 1..Len(qs) : OpsOf(qs)[i] = qs[i].op
    BY OpsOfFacts
  <1>4. /\ b \in Seq(Ops) /\ Len(b) = Len(rs) + Len(qs)
        /\ \A i \in 1..(Len(rs) + Len(qs)) :
             b[i] = IF i <= Len(rs) THEN OpsOf(rs)[i] ELSE OpsOf(qs)[i - Len(rs)]
    <2>1. /\ b \in Seq(Ops) /\ Len(b) = Len(OpsOf(rs)) + Len(OpsOf(qs))
          /\ \A i \in 1..(Len(OpsOf(rs)) + Len(OpsOf(qs))) :
               b[i] = IF i <= Len(OpsOf(rs)) THEN OpsOf(rs)[i] ELSE OpsOf(qs)[i - Len(OpsOf(rs))]
      <3> DEFINE x == OpsOf(rs)
                 y == OpsOf(qs)
      <3>1. x \in Seq(Ops) /\ y \in Seq(Ops) /\ b = x \o y
        BY <1>3
      <3> HIDE DEF x, y, b
      <3>2. /\ b \in Seq(Ops) /\ Len(b) = Len(x) + Len(y)
            /\ \A i \in 1..(Len(x) + Len(y)) : b[i] = IF i <= Len(x) THEN x[i] ELSE y[i - Len(x)]
        BY <3>1, ConcatProperties
      <3>3. QED
        BY <3>2 DEF x, y
    <2> HIDE DEF b
    <2>2. QED
      BY <2>1, <1>3
  <1>5. /\ a \in Seq(Ops) /\ Len(a) = Len(rs) + Len(qs)
        /\ \A i \in 1..(Len(rs) + Len(qs)) : a[i] = (rs \o qs)[i].op
    BY <1>2, OpsOfFacts
  <1>6. \A i \in 1..Len(a) : a[i] = b[i]
    <2>1. TAKE i \in 1..Len(a)
    <2>2. CASE i <= Len(rs)
      BY <2>2, <1>1, <1>2, <1>3, <1>4, <1>5
    <2>3. CASE ~(i <= Len(rs))
      <3>1. i - Len(rs) \in 1..Len(qs)
        BY <2>3, <1>1, <1>5
      <3>2. QED
        BY <3>1, <2>3, <1>1, <1>2, <1>3, <1>4, <1>5
    <2>4. QED
      BY <2>2, <2>3
  <1> HIDE DEF a, b
  <1>7. QED
    BY <1>4, <1>5, <1>6, SeqEqual DEF a, b

LEMMA RecordFacts ==
  \A n \in Nat, o \in Ops, h \in Hashes, w \in BOOLEAN :
    n = Len(h.snap) + Len(h.past) + 1 =>
      [index |-> n, op |-> o, prev |-> h, whole |-> w] \in Recs
  BY DEF Recs

LEMMA HashFacts ==
  \A s, p \in Seq(Ops) : [snap |-> s, past |-> p] \in Hashes
  BY DEF Hashes

LEMMA RunFacts ==
  ASSUME NEW o \in Seq(Ops), NEW s \in Seq(Ops)
  PROVE  /\ Run(o, s) \in Seq(Recs) /\ Len(Run(o, s)) = Len(o) /\ OpsOf(Run(o, s)) = o
         /\ \A i \in 1..Len(o) :
              /\ Run(o, s)[i].index = Len(s) + i /\ Run(o, s)[i].op = o[i]
              /\ Run(o, s)[i].prev = [snap |-> s, past |-> SubSeq(o, 1, i - 1)]
              /\ Run(o, s)[i].whole
  <1>1. Len(o) \in Nat /\ Len(s) \in Nat /\ o \in [1..Len(o) -> Ops]
    BY LenProperties
  <1>2. ASSUME NEW i \in 1..Len(o)
        PROVE  /\ Run(o, s)[i] \in Recs
               /\ Run(o, s)[i].index = Len(s) + i /\ Run(o, s)[i].op = o[i]
               /\ Run(o, s)[i].prev = [snap |-> s, past |-> SubSeq(o, 1, i - 1)]
               /\ Run(o, s)[i].whole
    <2>1. Run(o, s)[i] =
            [index |-> Len(s) + i, op |-> o[i],
             prev |-> [snap |-> s, past |-> SubSeq(o, 1, i - 1)], whole |-> TRUE]
      BY DEF Run
    <2>2. SubSeq(o, 1, i - 1) \in Seq(Ops) /\ Len(SubSeq(o, 1, i - 1)) = i - 1
      BY <1>1, CutFacts
    <2>3. o[i] \in Ops /\ Len(s) + i \in Nat
      BY <1>1
    <2>4. QED
      <3> DEFINE h == [snap |-> s, past |-> SubSeq(o, 1, i - 1)]
      <3>1. h \in Hashes /\ h.snap = s /\ h.past = SubSeq(o, 1, i - 1)
        BY <2>2, HashFacts, Zenon
      <3>2. Run(o, s)[i] = [index |-> Len(s) + i, op |-> o[i], prev |-> h, whole |-> TRUE]
        BY <2>1
      <3> HIDE DEF h
      <3>3. Len(s) + i = Len(h.snap) + Len(h.past) + 1
        BY <3>1, <2>2, <1>1
      <3>4. [index |-> Len(s) + i, op |-> o[i], prev |-> h, whole |-> TRUE] \in Recs
        BY <3>1, <3>3, <2>3, RecordFacts, Zenon
      <3>5. Run(o, s)[i] \in Recs
        BY <3>2, <3>4, Zenon
      <3>6. /\ Run(o, s)[i].index = Len(s) + i /\ Run(o, s)[i].op = o[i]
            /\ Run(o, s)[i].prev = h /\ Run(o, s)[i].whole
        BY <3>2
      <3>7. QED
        BY <3>5, <3>6 DEF h
  <1>3. Run(o, s) \in [1..Len(o) -> Recs]
    BY <1>2 DEF Run
  <1>4. Run(o, s) \in Seq(Recs) /\ Len(Run(o, s)) = Len(o)
    BY <1>1, <1>3, SeqDef
  <1>5. OpsOf(Run(o, s)) = o
    <2>1. /\ OpsOf(Run(o, s)) \in Seq(Ops) /\ Len(OpsOf(Run(o, s))) = Len(o)
          /\ \A i \in 1..Len(o) : OpsOf(Run(o, s))[i] = Run(o, s)[i].op
      BY <1>4, OpsOfFacts
    <2>2. \A i \in 1..Len(o) : OpsOf(Run(o, s))[i] = o[i]
      BY <1>2, <2>1
    <2>3. QED
      BY <2>1, <2>2, SeqEqual
  <1>6. QED
    BY <1>2, <1>4, <1>5

LEMMA RunPrev ==
  \A o, s \in Seq(Ops) : \A i \in 1..Len(o) :
    Run(o, s)[i].prev = [snap |-> s, past |-> SubSeq(o, 1, i - 1)]
  BY RunFacts

\* What is a run is known by its operations and its snapshot.
LEMMA RunIs ==
  ASSUME NEW rs \in Seq(Recs), NEW s \in Seq(Ops),
         \A i \in 1..Len(rs) :
           rs[i].whole /\ rs[i].prev = [snap |-> s, past |-> SubSeq(OpsOf(rs), 1, i - 1)]
  PROVE  rs = Run(OpsOf(rs), s)
  <1>1. /\ OpsOf(rs) \in Seq(Ops) /\ Len(OpsOf(rs)) = Len(rs)
        /\ \A i \in 1..Len(rs) : OpsOf(rs)[i] = rs[i].op
    BY OpsOfFacts
  <1>2. Len(rs) \in Nat /\ Len(s) \in Nat
    BY LenProperties
  <1>3. ASSUME NEW i \in 1..Len(rs)
        PROVE  rs[i] = Run(OpsOf(rs), s)[i]
    <2>1. rs[i] \in Recs
      BY ElementOfSeq
    <2>2. SubSeq(OpsOf(rs), 1, i - 1) \in Seq(Ops) /\ Len(SubSeq(OpsOf(rs), 1, i - 1)) = i - 1
      BY <1>1, <1>2, CutFacts
    <2>3. /\ rs[i].index = Len(s) + i /\ rs[i].op = OpsOf(rs)[i] /\ rs[i].whole = TRUE
          /\ rs[i].prev = [snap |-> s, past |-> SubSeq(OpsOf(rs), 1, i - 1)]
      <3>1. rs[i].index = Len(rs[i].prev.snap) + Len(rs[i].prev.past) + 1 /\ rs[i].whole \in BOOLEAN
        BY <2>1 DEF Recs
      <3>2. rs[i].prev.snap = s /\ rs[i].prev.past = SubSeq(OpsOf(rs), 1, i - 1)
        <4>1. rs[i].prev = [snap |-> s, past |-> SubSeq(OpsOf(rs), 1, i - 1)]
          OBVIOUS
        <4>2. QED
          BY <4>1, <2>2, HashFacts
      <3>3. QED
        BY <3>1, <3>2, <2>2, <1>1, <1>2
    <2>4. rs[i] = [index |-> rs[i].index, op |-> rs[i].op, prev |-> rs[i].prev, whole |-> rs[i].whole]
      BY <2>1 DEF Recs
    <2>5. Run(OpsOf(rs), s)[i] =
            [index |-> Len(s) + i, op |-> OpsOf(rs)[i],
             prev |-> [snap |-> s, past |-> SubSeq(OpsOf(rs), 1, i - 1)], whole |-> TRUE]
      BY <1>1 DEF Run
    <2>6. QED
      BY <2>3, <2>4, <2>5
  <1>4. Run(OpsOf(rs), s) \in Seq(Recs) /\ Len(Run(OpsOf(rs), s)) = Len(rs)
    BY <1>1, RunFacts
  <1>5. QED
    BY <1>3, <1>4, SeqEqual
LEMMA CutOfCut ==
  ASSUME NEW T, NEW o \in Seq(T), NEW n \in 0..Len(o), NEW m \in 0..n
  PROVE  SubSeq(SubSeq(o, 1, n), 1, m) = SubSeq(o, 1, m)
  <1>1. Len(o) \in Nat /\ n \in Nat /\ m \in Nat /\ n <= Len(o) /\ m <= n
    BY LenProperties
  <1>2. /\ SubSeq(o, 1, n) \in Seq(T) /\ Len(SubSeq(o, 1, n)) = n
        /\ \A i \in 1..n : SubSeq(o, 1, n)[i] = o[i]
    <2>1. /\ SubSeq(o, 1, n) \in Seq(T) /\ Len(SubSeq(o, 1, n)) = n - 1 + 1
          /\ \A i \in 1..(n - 1 + 1) : SubSeq(o, 1, n)[i] = o[1 + i - 1]
      BY <1>1, CutFacts
    <2>2. QED
      BY <2>1, <1>1
  <1>3. /\ SubSeq(o, 1, m) \in Seq(T) /\ Len(SubSeq(o, 1, m)) = m
        /\ \A i \in 1..m : SubSeq(o, 1, m)[i] = o[i]
    <2>1. /\ SubSeq(o, 1, m) \in Seq(T) /\ Len(SubSeq(o, 1, m)) = m - 1 + 1
          /\ \A i \in 1..(m - 1 + 1) : SubSeq(o, 1, m)[i] = o[1 + i - 1]
      BY <1>1, CutFacts
    <2>2. QED
      BY <2>1, <1>1
  <1>4. /\ SubSeq(SubSeq(o, 1, n), 1, m) \in Seq(T) /\ Len(SubSeq(SubSeq(o, 1, n), 1, m)) = m
        /\ \A i \in 1..m : SubSeq(SubSeq(o, 1, n), 1, m)[i] = SubSeq(o, 1, n)[i]
    <2>1. /\ SubSeq(SubSeq(o, 1, n), 1, m) \in Seq(T)
          /\ Len(SubSeq(SubSeq(o, 1, n), 1, m)) = m - 1 + 1
          /\ \A i \in 1..(m - 1 + 1) :
               SubSeq(SubSeq(o, 1, n), 1, m)[i] = SubSeq(o, 1, n)[1 + i - 1]
      BY <1>1, <1>2, CutFacts
    <2>2. QED
      BY <2>1, <1>1
  <1>5. \A i \in 1..m : SubSeq(SubSeq(o, 1, n), 1, m)[i] = SubSeq(o, 1, m)[i]
    BY <1>1, <1>2, <1>3, <1>4
  <1>6. QED
    BY <1>3, <1>4, <1>5, SeqEqual

\* The first operations of a sequence.
LEMMA FirstFacts ==
  ASSUME NEW T, NEW o \in Seq(T), NEW n \in 0..Len(o)
  PROVE  /\ SubSeq(o, 1, n) \in Seq(T) /\ Len(SubSeq(o, 1, n)) = n
         /\ \A i \in 1..n : SubSeq(o, 1, n)[i] = o[i]
  <1>1. Len(o) \in Nat /\ n \in Nat /\ n <= Len(o)
    BY LenProperties
  <1>2. /\ SubSeq(o, 1, n) \in Seq(T) /\ Len(SubSeq(o, 1, n)) = n - 1 + 1
        /\ \A i \in 1..(n - 1 + 1) : SubSeq(o, 1, n)[i] = o[1 + i - 1]
    BY <1>1, CutFacts
  <1>3. QED
    BY <1>1, <1>2

LEMMA FirstGrows ==
  ASSUME NEW T, NEW o \in Seq(T), NEW i \in 1..Len(o)
  PROVE  Append(SubSeq(o, 1, i - 1), o[i]) = SubSeq(o, 1, i)
  <1> DEFINE a == SubSeq(o, 1, i - 1)
             b == SubSeq(o, 1, i)
  <1>1. Len(o) \in Nat /\ i \in Nat /\ i - 1 \in 0..Len(o) /\ i \in 0..Len(o) /\ o[i] \in T
    BY LenProperties, ElementOfSeq
  <1>2. /\ a \in Seq(T) /\ Len(a) = i - 1 /\ \A j \in 1..(i - 1) : a[j] = o[j]
        /\ b \in Seq(T) /\ Len(b) = i /\ \A j \in 1..i : b[j] = o[j]
    BY <1>1, FirstFacts
  <1> HIDE DEF a, b
  <1>3. /\ Append(a, o[i]) \in Seq(T) /\ Len(Append(a, o[i])) = i
        /\ \A j \in 1..i : Append(a, o[i])[j] = IF j = i THEN o[i] ELSE a[j]
    BY <1>1, <1>2, AppendProperties
  <1>4. \A j \in 1..i : Append(a, o[i])[j] = b[j]
    BY <1>1, <1>2, <1>3
  <1>5. Append(a, o[i]) = b
    BY <1>2, <1>3, <1>4, SeqEqual
  <1>6. QED
    BY <1>5 DEF a, b

LEMMA RunCut ==
  ASSUME NEW o \in Seq(Ops), NEW s \in Seq(Ops), NEW n \in 0..Len(o)
  PROVE  SubSeq(Run(o, s), 1, n) = Run(SubSeq(o, 1, n), s)
  <1> DEFINE r == Run(o, s)
             a == SubSeq(r, 1, n)
  <1>1. Len(o) \in Nat
    BY LenProperties
  <1>2. /\ r \in Seq(Recs) /\ Len(r) = Len(o) /\ OpsOf(r) = o
        /\ \A i \in 1..Len(o) :
             r[i].prev = [snap |-> s, past |-> SubSeq(o, 1, i - 1)] /\ r[i].whole
    BY RunFacts
  <1> HIDE DEF r
  <1>3. a \in Seq(Recs) /\ Len(a) = n /\ \A i \in 1..n : a[i] = r[i]
    BY <1>2, FirstFacts
  <1>4. OpsOf(a) = SubSeq(o, 1, n)
    <2>1. 1 \in Nat \ {0} /\ n \in Nat /\ n <= Len(r) /\ 1 <= n + 1
      BY <1>1, <1>2
    <2>2. OpsOf(SubSeq(r, 1, n)) = SubSeq(OpsOf(r), 1, n)
      BY <2>1, <1>2, OpsOfCut
    <2>3. QED
      BY <2>2, <1>2
  <1> HIDE DEF a
  <1>5. ASSUME NEW i \in 1..Len(a)
        PROVE  a[i].whole /\ a[i].prev = [snap |-> s, past |-> SubSeq(OpsOf(a), 1, i - 1)]
    <2>1. i - 1 \in 0..n /\ i \in 1..Len(o) /\ i \in 1..n
      BY <1>1, <1>3
    <2>2. SubSeq(OpsOf(a), 1, i - 1) = SubSeq(o, 1, i - 1)
      BY <2>1, <1>4, CutOfCut
    <2>3. QED
      BY <2>1, <2>2, <1>2, <1>3
  <1>6. a = Run(OpsOf(a), s)
    BY <1>3, <1>5, RunIs
  <1>7. QED
    BY <1>4, <1>6 DEF a, r

LEMMA RunHash ==
  ASSUME NEW o \in Seq(Ops), NEW s \in Seq(Ops), NEW i \in 1..Len(o)
  PROVE  HashOf(Run(o, s)[i]) = [snap |-> s, past |-> SubSeq(o, 1, i)]
  <1>1. /\ Run(o, s)[i].op = o[i]
        /\ Run(o, s)[i].prev = [snap |-> s, past |-> SubSeq(o, 1, i - 1)]
    BY RunFacts
  <1>2. Append(SubSeq(o, 1, i - 1), o[i]) = SubSeq(o, 1, i)
    BY FirstGrows
  <1>3. HashOf(Run(o, s)[i]) = [snap |-> Run(o, s)[i].prev.snap,
                                past |-> Append(Run(o, s)[i].prev.past, Run(o, s)[i].op)]
    BY DEF HashOf
  <1>4. Run(o, s)[i].prev.snap = s /\ Run(o, s)[i].prev.past = SubSeq(o, 1, i - 1)
    BY <1>1
  <1>5. QED
    BY <1>1, <1>2, <1>3, <1>4

-----------------------------------------------------------------------------
(* Recovery. *)

LEMMA LeastIndex ==
  ASSUME NEW T \in SUBSET Nat, T # {}
  PROVE  \E x \in T : \A y \in T : x <= y
  <1> DEFINE R == OpToRel(<, Nat)
  <1>1. IsWellFoundedOn(R, Nat)
    BY NatLessThanWellFounded
  <1>2. \E x \in T : \A y \in T : ~(<<y, x>> \in R)
    <2> HIDE DEF R
    <2>1. QED
      BY <1>1, WFMin
  <1>3. \A y \in T, x \in T : ~(<<y, x>> \in R) => x <= y
    BY DEF OpToRel
  <1>4. QED
    BY <1>2, <1>3

\* The whole part ends at the end or before a torn record, and holds none.
LEMMA WholeFacts ==
  ASSUME NEW rs \in Seq(Recs)
  PROVE  \E n \in 0..Len(rs) :
           /\ WholePart(rs) = SubSeq(rs, 1, n) /\ Len(WholePart(rs)) = n
           /\ WholePart(rs) \in Seq(Recs)
           /\ \A i \in 1..n : WholePart(rs)[i] = rs[i] /\ rs[i].whole
           /\ n < Len(rs) => ~rs[n + 1].whole
  <1> DEFINE torn == {i \in DOMAIN rs : ~rs[i].whole}
             least == CHOOSE i \in torn : \A j \in torn : i <= j
             n == IF torn = {} THEN Len(rs) ELSE least - 1
  <1>1. Len(rs) \in Nat /\ DOMAIN rs = 1..Len(rs)
    BY LenProperties
  <1>2. torn # {} => least \in torn /\ \A j \in torn : least <= j
    <2>1. torn \in SUBSET Nat
      BY <1>1
    <2>2. torn # {} => \E i \in torn : \A j \in torn : i <= j
      BY <2>1, LeastIndex
    <2>3. QED
      BY <2>2
  <1>3. n \in 0..Len(rs) /\ (\A i \in 1..n : rs[i].whole) /\ (n < Len(rs) => ~rs[n + 1].whole)
    <2>1. CASE torn = {}
      BY <2>1, <1>1
    <2>2. CASE torn # {}
      <3>1. least \in 1..Len(rs) /\ ~rs[least].whole /\ \A j \in torn : least <= j
        BY <2>2, <1>1, <1>2
      <3>2. n = least - 1
        BY <2>2
      <3> HIDE DEF least, n
      <3>3. n \in 0..Len(rs) /\ n + 1 = least
        BY <3>1, <3>2, <1>1
      <3>4. \A i \in 1..n : rs[i].whole
        BY <3>1, <3>3, <1>1
      <3>5. QED
        BY <3>1, <3>3, <3>4
    <2>3. QED
      BY <2>1, <2>2
  <1>4. WholePart(rs) = SubSeq(rs, 1, n)
    BY DEF WholePart
  <1> HIDE DEF n
  <1>5. /\ SubSeq(rs, 1, n) \in Seq(Recs) /\ Len(SubSeq(rs, 1, n)) = n
        /\ \A i \in 1..n : SubSeq(rs, 1, n)[i] = rs[i]
    BY <1>3, FirstFacts
  <1>6. QED
    BY <1>3, <1>4, <1>5

\* What recovery accepts is a run on top of the snapshot, but for a torn end.
LEMMA RecoverFacts ==
  ASSUME NEW rs \in Seq(Recs), NEW s \in Seq(Ops), ~Corrupt(rs, SeedOf(s))
  PROVE  /\ WholePart(rs) = Run(OpsOf(WholePart(rs)), s)
         /\ Len(rs) <= Len(WholePart(rs)) + 1
  <1> DEFINE ok == WholePart(rs)
             o == OpsOf(ok)
             wrong == {i \in 1..Len(ok) : ok[i].prev # [snap |-> s, past |-> SubSeq(o, 1, i - 1)]}
  <1>1. ok \in Seq(Recs) /\ Len(ok) \in Nat /\ Len(rs) \in Nat /\ DOMAIN ok = 1..Len(ok)
    BY WholeFacts, LenProperties
  <1>2. \A i \in 1..Len(ok) : ok[i].whole
    BY WholeFacts
  <1>3. ~(Len(ok) + 1 < Len(rs))
    BY DEF Corrupt
  <1>4. \A i \in 1..Len(ok) : ok[i].prev = IF i = 1 THEN SeedOf(s) ELSE HashOf(ok[i - 1])
    BY <1>1 DEF Corrupt
  <1> HIDE DEF ok
  <1>5. o \in Seq(Ops) /\ Len(o) = Len(ok) /\ \A i \in 1..Len(ok) : o[i] = ok[i].op
    BY <1>1, OpsOfFacts
  <1> HIDE DEF o
  <1>6. wrong = {}
    <2>1. SUFFICES ASSUME wrong # {}
                   PROVE  FALSE
      OBVIOUS
    <2>2. PICK i \in wrong : \A j \in wrong : i <= j
      <3>1. wrong \in SUBSET Nat
        BY <1>1
      <3> HIDE DEF wrong
      <3>2. QED
        BY <3>1, <2>1, LeastIndex
    <2>3. i \in 1..Len(ok)
      OBVIOUS
    <2>4. CASE i = 1
      <3>1. ok[1].prev = [snap |-> s, past |-> <<>>]
        BY <2>3, <2>4, <1>4 DEF SeedOf
      <3>2. SubSeq(o, 1, 1 - 1) = <<>>
        BY SubSeqEmpty
      <3>3. QED
        BY <3>1, <3>2, <2>2, <2>4
    <2>5. CASE i # 1
      <3>1. i - 1 \in 1..Len(ok) /\ i - 1 < i /\ i \in Nat
        BY <2>3, <2>5, <1>1
      <3>2. ok[i - 1].prev = [snap |-> s, past |-> SubSeq(o, 1, (i - 1) - 1)]
        BY <3>1, <2>2
      <3>3. ok[i].prev = [snap |-> ok[i - 1].prev.snap,
                          past |-> Append(ok[i - 1].prev.past, ok[i - 1].op)]
        BY <2>3, <2>5, <1>4 DEF HashOf
      <3>4. ok[i - 1].prev.snap = s /\ ok[i - 1].prev.past = SubSeq(o, 1, (i - 1) - 1)
        BY <3>2
      <3>5. Append(SubSeq(o, 1, (i - 1) - 1), o[i - 1]) = SubSeq(o, 1, i - 1)
        BY <3>1, <1>5, FirstGrows
      <3>6. ok[i].prev = [snap |-> s, past |-> SubSeq(o, 1, i - 1)]
        BY <3>1, <3>3, <3>4, <3>5, <1>5
      <3>7. QED
        BY <3>6, <2>2
    <2>6. QED
      BY <2>4, <2>5
  <1>7. ok = Run(o, s)
    <2>1. \A i \in 1..Len(ok) :
            ok[i].whole /\ ok[i].prev = [snap |-> s, past |-> SubSeq(OpsOf(ok), 1, i - 1)]
      BY <1>2, <1>6 DEF o
    <2>2. QED
      BY <2>1, <1>1, RunIs DEF o
  <1>8. QED
    BY <1>1, <1>3, <1>7 DEF ok, o

-----------------------------------------------------------------------------
(* Joining and chaining. *)

LEMMA JoinFirst ==
  ASSUME NEW T, NEW a \in Seq(T), NEW b \in Seq(T), NEW n \in 0..Len(a)
  PROVE  SubSeq(a \o b, 1, n) = SubSeq(a, 1, n)
  <1> DEFINE c == a \o b
  <1>1. Len(a) \in Nat /\ Len(b) \in Nat /\ n \in Nat
    BY LenProperties
  <1>2. /\ c \in Seq(T) /\ Len(c) = Len(a) + Len(b)
        /\ \A i \in 1..(Len(a) + Len(b)) : c[i] = IF i <= Len(a) THEN a[i] ELSE b[i - Len(a)]
    BY ConcatProperties
  <1> HIDE DEF c
  <1>3. n \in 0..Len(c)
    BY <1>1, <1>2
  <1>4. /\ SubSeq(c, 1, n) \in Seq(T) /\ Len(SubSeq(c, 1, n)) = n
        /\ \A i \in 1..n : SubSeq(c, 1, n)[i] = c[i]
    BY <1>2, <1>3, FirstFacts
  <1>5. /\ SubSeq(a, 1, n) \in Seq(T) /\ Len(SubSeq(a, 1, n)) = n
        /\ \A i \in 1..n : SubSeq(a, 1, n)[i] = a[i]
    BY FirstFacts
  <1>6. \A i \in 1..n : SubSeq(c, 1, n)[i] = SubSeq(a, 1, n)[i]
    BY <1>1, <1>2, <1>4, <1>5
  <1>7. QED
    BY <1>4, <1>5, <1>6, SeqEqual DEF c

LEMMA JoinMore ==
  ASSUME NEW T, NEW a \in Seq(T), NEW b \in Seq(T), NEW n \in 0..Len(b)
  PROVE  SubSeq(a \o b, 1, Len(a) + n) = a \o SubSeq(b, 1, n)
  <1> DEFINE c == a \o b
             d == SubSeq(b, 1, n)
             l == SubSeq(c, 1, Len(a) + n)
             r == a \o d
  <1>1. Len(a) \in Nat /\ Len(b) \in Nat /\ n \in Nat /\ n <= Len(b)
    BY LenProperties
  <1>2. /\ c \in Seq(T) /\ Len(c) = Len(a) + Len(b)
        /\ \A i \in 1..(Len(a) + Len(b)) : c[i] = IF i <= Len(a) THEN a[i] ELSE b[i - Len(a)]
    BY ConcatProperties
  <1>3. d \in Seq(T) /\ Len(d) = n /\ \A i \in 1..n : d[i] = b[i]
    BY FirstFacts
  <1> HIDE DEF c, d
  <1>4. l \in Seq(T) /\ Len(l) = Len(a) + n /\ \A i \in 1..(Len(a) + n) : l[i] = c[i]
    <2>1. Len(a) + n \in 0..Len(c)
      BY <1>1, <1>2
    <2>2. QED
      BY <2>1, <1>2, FirstFacts
  <1>5. /\ r \in Seq(T) /\ Len(r) = Len(a) + n
        /\ \A i \in 1..(Len(a) + n) : r[i] = IF i <= Len(a) THEN a[i] ELSE d[i - Len(a)]
    <2>1. /\ r \in Seq(T) /\ Len(r) = Len(a) + Len(d)
          /\ \A i \in 1..(Len(a) + Len(d)) : r[i] = IF i <= Len(a) THEN a[i] ELSE d[i - Len(a)]
      BY <1>3, ConcatProperties
    <2> HIDE DEF r
    <2>2. QED
      BY <2>1, <1>3
  <1> HIDE DEF l, r
  <1>6. ASSUME NEW i \in 1..(Len(a) + n)
        PROVE  l[i] = r[i]
    <2>1. i \in 1..(Len(a) + Len(b)) /\ l[i] = c[i]
      BY <1>1, <1>4
    <2>2. CASE i <= Len(a)
      BY <2>1, <2>2, <1>2, <1>5
    <2>3. CASE ~(i <= Len(a))
      <3>1. i - Len(a) \in 1..n
        BY <2>3, <1>1
      <3>2. QED
        BY <3>1, <2>1, <2>3, <1>2, <1>3, <1>5
    <2>4. QED
      BY <2>2, <2>3
  <1>7. l = r
    BY <1>4, <1>5, <1>6, SeqEqual
  <1>8. QED
    BY <1>7 DEF l, r, c, d

LEMMA JoinAssoc ==
  \A a, b, c \in Seq(Ops) : (a \o b) \o c = a \o (b \o c)
  BY ConcatAssociative

\* The operations of anything that has operations.
LEMMA OpsOfAny ==
  ASSUME NEW R, \A r \in R : r.op \in Ops, NEW rs \in Seq(R)
  PROVE  /\ OpsOf(rs) \in Seq(Ops) /\ Len(OpsOf(rs)) = Len(rs)
         /\ \A i \in 1..Len(rs) : OpsOf(rs)[i] = rs[i].op
         /\ \A n \in 0..Len(rs) : OpsOf(SubSeq(rs, 1, n)) = SubSeq(OpsOf(rs), 1, n)
  <1>1. ASSUME NEW qs \in Seq(R)
        PROVE  /\ OpsOf(qs) \in Seq(Ops) /\ Len(OpsOf(qs)) = Len(qs)
               /\ \A i \in 1..Len(qs) : OpsOf(qs)[i] = qs[i].op
    <2>1. Len(qs) \in Nat /\ DOMAIN qs = 1..Len(qs) /\ \A i \in 1..Len(qs) : qs[i] \in R
      BY LenProperties, ElementOfSeq
    <2>2. QED
      BY <2>1, SeqDef DEF OpsOf
  <1>2. ASSUME NEW n \in 0..Len(rs)
        PROVE  OpsOf(SubSeq(rs, 1, n)) = SubSeq(OpsOf(rs), 1, n)
    <2> DEFINE q == SubSeq(rs, 1, n)
               a == OpsOf(q)
               o == OpsOf(rs)
               b == SubSeq(o, 1, n)
    <2>1. q \in Seq(R) /\ Len(q) = n /\ \A i \in 1..n : q[i] = rs[i]
      BY FirstFacts
    <2>2. Len(rs) \in Nat
      BY LenProperties
    <2>3. o \in Seq(Ops) /\ Len(o) = Len(rs) /\ \A i \in 1..Len(rs) : o[i] = rs[i].op
      BY <1>1
    <2> HIDE DEF q, o
    <2>4. a \in Seq(Ops) /\ Len(a) = n /\ \A i \in 1..n : a[i] = q[i].op
      BY <2>1, <1>1
    <2>5. b \in Seq(Ops) /\ Len(b) = n /\ \A i \in 1..n : b[i] = o[i]
      BY <2>3, FirstFacts
    <2> HIDE DEF a, b
    <2>6. \A i \in 1..n : a[i] = b[i]
      BY <2>1, <2>2, <2>3, <2>4, <2>5
    <2>7. a = b
      BY <2>4, <2>5, <2>6, SeqEqual
    <2>8. QED
      BY <2>7 DEF a, b, q, o
  <1>3. QED
    BY <1>1, <1>2

LEMMA SameRange ==
  ASSUME NEW a \in Nat, NEW b \in Nat, 1..a = 1..b
  PROVE  a = b
  <1>1. a > 0 => a \in 1..b
    OBVIOUS
  <1>2. b > 0 => b \in 1..a
    OBVIOUS
  <1>3. QED
    BY <1>1, <1>2

\* Chained puts records behind operations q on top of snapshot p.
LEMMA ChainedFacts ==
  ASSUME NEW R, \A r \in R : r.op \in Ops /\ r.index \in Nat, NEW rs \in Seq(R),
         NEW p \in Seq(Ops), NEW q \in Seq(Ops),
         \A i \in 1..Len(rs) : rs[i].index = Len(p) + Len(q) + i
  PROVE  LET c == Chained(rs, [snap |-> p, past |-> q])
         IN /\ c \in Seq(Recs) /\ Len(c) = Len(rs) /\ OpsOf(c) = OpsOf(rs)
            /\ \A i \in 1..Len(rs) :
                 /\ c[i].whole
                 /\ c[i].prev = [snap |-> p, past |-> q \o SubSeq(OpsOf(rs), 1, i - 1)]
  <1> DEFINE h == [snap |-> p, past |-> q]
             c == Chained(rs, h)
             o == OpsOf(rs)
  <1>1. Len(rs) \in Nat /\ DOMAIN rs = 1..Len(rs) /\ \A i \in 1..Len(rs) : rs[i] \in R
    BY LenProperties, ElementOfSeq
  <1>2. /\ o \in Seq(Ops) /\ Len(o) = Len(rs) /\ \A i \in 1..Len(rs) : o[i] = rs[i].op
        /\ \A n \in 0..Len(rs) : OpsOf(SubSeq(rs, 1, n)) = SubSeq(o, 1, n)
    BY OpsOfAny
  <1>3. Len(p) \in Nat /\ Len(q) \in Nat
    BY LenProperties
  <1>4. h.snap = p /\ h.past = q
    OBVIOUS
  <1>5. ASSUME NEW i \in 1..Len(rs)
        PROVE  /\ c[i] \in Recs /\ c[i].whole /\ c[i].op = o[i]
               /\ c[i].prev = [snap |-> p, past |-> q \o SubSeq(o, 1, i - 1)]
    <2> DEFINE g == [snap |-> p, past |-> q \o SubSeq(o, 1, i - 1)]
    <2>1. i - 1 \in 0..Len(rs) /\ i \in Nat
      BY <1>1
    <2>2. c[i] = Record(rs[i].index, rs[i].op,
                        [snap |-> h.snap, past |-> h.past \o OpsOf(SubSeq(rs, 1, i - 1))])
      BY <1>1 DEF Chained
    <2>3. [snap |-> h.snap, past |-> h.past \o OpsOf(SubSeq(rs, 1, i - 1))] = g
      <3>1. OpsOf(SubSeq(rs, 1, i - 1)) = SubSeq(o, 1, i - 1)
        BY <2>1, <1>2
      <3>2. QED
        BY <3>1, <1>4
    <2>4. SubSeq(o, 1, i - 1) \in Seq(Ops) /\ Len(SubSeq(o, 1, i - 1)) = i - 1
      BY <2>1, <1>2, FirstFacts
    <2>5. /\ q \o SubSeq(o, 1, i - 1) \in Seq(Ops)
          /\ Len(q \o SubSeq(o, 1, i - 1)) = Len(q) + (i - 1)
      BY <2>4, ConcatProperties
    <2>6. g \in Hashes
      BY <2>5, HashFacts, Zenon
    <2>7. g.snap = p /\ g.past = q \o SubSeq(o, 1, i - 1)
      OBVIOUS
    <2>8. Len(p) + Len(q) + i = Len(g.snap) + Len(g.past) + 1
      BY <2>1, <2>5, <2>7, <1>3
    <2>9. c[i] = [index |-> Len(p) + Len(q) + i, op |-> o[i], prev |-> g, whole |-> TRUE]
      BY <2>2, <2>3, <1>2 DEF Record
    <2>10. Len(p) + Len(q) + i \in Nat /\ o[i] \in Ops
      BY <2>1, <1>1, <1>2, <1>3
    <2> HIDE DEF g, c
    <2>11. [index |-> Len(p) + Len(q) + i, op |-> o[i], prev |-> g, whole |-> TRUE] \in Recs
      BY <2>6, <2>8, <2>10, RecordFacts
    <2>12. c[i] \in Recs
      BY <2>9, <2>11, Zenon
    <2>13. c[i].whole /\ c[i].op = o[i] /\ c[i].prev = g
      BY <2>9
    <2>14. QED
      BY <2>12, <2>13 DEF g
  <1>6. c \in Seq(Recs) /\ Len(c) = Len(rs)
    <2>1. DOMAIN c = 1..Len(rs) /\ c = [i \in 1..Len(rs) |-> c[i]]
      BY <1>1 DEF Chained
    <2> HIDE DEF c
    <2>2. c \in [1..Len(rs) -> Recs]
      BY <2>1, <1>5
    <2>3. c \in Seq(Recs)
      BY <2>2, <1>1, SeqDef
    <2>4. Len(c) \in Nat /\ DOMAIN c = 1..Len(c)
      BY <2>3, LenProperties
    <2>5. 1..Len(c) = 1..Len(rs)
      BY <2>1, <2>4
    <2>6. QED
      BY <2>3, <2>4, <2>5, <1>1, SameRange
  <1> HIDE DEF c
  <1>7. OpsOf(c) = o
    <2>1. /\ OpsOf(c) \in Seq(Ops) /\ Len(OpsOf(c)) = Len(rs)
          /\ \A i \in 1..Len(rs) : OpsOf(c)[i] = c[i].op
      BY <1>6, OpsOfFacts
    <2>2. \A i \in 1..Len(rs) : OpsOf(c)[i] = o[i]
      BY <2>1, <1>5
    <2>3. QED
      BY <2>1, <2>2, <1>2, SeqEqual
  <1>8. QED
    BY <1>5, <1>6, <1>7 DEF c, h, o

LEMMA ChainedIsRun ==
  ASSUME NEW rs \in Seq(Recs), NEW p \in Seq(Ops),
         \A i \in 1..Len(rs) : rs[i].index = Len(p) + i
  PROVE  Chained(rs, SeedOf(p)) = Run(OpsOf(rs), p)
  <1> DEFINE c == Chained(rs, [snap |-> p, past |-> <<>>])
  <1>1. Chained(rs, SeedOf(p)) = c
    BY DEF SeedOf
  <1>2. <<>> \in Seq(Ops) /\ Len(<<>>) = 0 /\ Len(p) \in Nat /\ Len(rs) \in Nat
    BY EmptySeq, LenProperties
  <1>3. \A i \in 1..Len(rs) : rs[i].index = Len(p) + Len(<<>>) + i
    BY <1>2
  <1>4. \A r \in Recs : r.op \in Ops /\ r.index \in Nat
    BY DEF Recs
  <1>5. /\ c \in Seq(Recs) /\ Len(c) = Len(rs) /\ OpsOf(c) = OpsOf(rs)
        /\ \A i \in 1..Len(rs) :
             /\ c[i].whole
             /\ c[i].prev = [snap |-> p, past |-> <<>> \o SubSeq(OpsOf(rs), 1, i - 1)]
    BY <1>2, <1>3, <1>4, ChainedFacts
  <1> HIDE DEF c
  <1>6. ASSUME NEW i \in 1..Len(c)
        PROVE  c[i].whole /\ c[i].prev = [snap |-> p, past |-> SubSeq(OpsOf(c), 1, i - 1)]
    <2>1. OpsOf(rs) \in Seq(Ops) /\ Len(OpsOf(rs)) = Len(rs)
      BY OpsOfFacts
    <2>2. i \in 1..Len(rs) /\ i - 1 \in 0..Len(rs)
      BY <1>2, <1>5
    <2>3. SubSeq(OpsOf(rs), 1, i - 1) \in Seq(Ops)
      BY <2>1, <2>2, FirstFacts
    <2>4. <<>> \o SubSeq(OpsOf(rs), 1, i - 1) = SubSeq(OpsOf(rs), 1, i - 1)
      BY <2>3, ConcatEmptySeq
    <2>5. QED
      BY <2>2, <2>4, <1>5
  <1>7. c = Run(OpsOf(c), p)
    BY <1>5, <1>6, RunIs
  <1>8. QED
    BY <1>1, <1>5, <1>7

LEMMA EmptyRun ==
  ASSUME NEW s \in Seq(Ops)
  PROVE  Run(<<>>, s) = <<>> /\ OpsOf(<<>>) = <<>> /\ <<>> \in Seq(Recs) /\ <<>> \in Seq(Ops)
  <1>1. <<>> \in Seq(Recs) /\ <<>> \in Seq(Ops) /\ Len(<<>>) = 0
    BY EmptySeq
  <1>2. Run(<<>>, s) \in Seq(Recs) /\ Len(Run(<<>>, s)) = 0
    BY <1>1, RunFacts
  <1>3. OpsOf(<<>>) \in Seq(Ops) /\ Len(OpsOf(<<>>)) = 0
    BY <1>1, OpsOfFacts
  <1>4. QED
    BY <1>1, <1>2, <1>3, EmptySeq

LEMMA NotEmpty ==
  ASSUME NEW T, NEW s \in Seq(T)
  PROVE  s # <<>> <=> Len(s) > 0
  BY EmptySeq, LenProperties

LEMMA BeyondOfRun ==
  ASSUME NEW o \in Seq(Ops), NEW t \in Seq(Ops), NEW k \in Nat, k >= Len(t)
  PROVE  Beyond(Run(o, t), k) = SubSeq(Run(o, t), k - Len(t) + 1, Len(o))
  <1> DEFINE r == Run(o, t)
  <1>1. Len(o) \in Nat /\ Len(t) \in Nat
    BY LenProperties
  <1>2. /\ r \in Seq(Recs) /\ Len(r) = Len(o)
        /\ \A i \in 1..Len(o) : r[i].index = Len(t) + i
    BY RunFacts
  <1> HIDE DEF r
  <1>3. CASE r = <<>>
    <2>1. Len(o) = 0
      BY <1>2, <1>3, EmptySeq
    <2>2. SubSeq(r, k - Len(t) + 1, 0) = <<>>
      BY <1>1, SubSeqEmpty
    <2>3. QED
      BY <1>3, <2>1, <2>2 DEF Beyond, r
  <1>4. CASE r # <<>>
    <2>1. r[1].index = Len(t) + 1
      BY <1>1, <1>2, <1>4, NotEmpty
    <2>2. CASE k < Len(t) + 1
      <3>1. k - Len(t) + 1 = 1
        BY <1>1, <2>2
      <3>2. SubSeq(r, 1, Len(r)) = r
        BY <1>2, SubSeqFull
      <3>3. Beyond(r, k) = r
        BY <2>1, <2>2 DEF Beyond
      <3>4. QED
        BY <3>1, <3>2, <3>3, <1>2 DEF r
    <2>3. CASE ~(k < Len(t) + 1)
      <3>1. Beyond(r, k) = SubSeq(r, k - (Len(t) + 1) + 2, Len(r))
        BY <1>4, <2>1, <2>3 DEF Beyond
      <3>2. k - (Len(t) + 1) + 2 = k - Len(t) + 1
        BY <1>1
      <3>3. QED
        BY <3>1, <3>2, <1>2 DEF r
    <2>4. QED
      BY <2>2, <2>3
  <1>5. QED
    BY <1>3, <1>4

LEMMA UpToOfRun ==
  ASSUME NEW o \in Seq(Ops), NEW t \in Seq(Ops), NEW k \in Nat,
         k >= Len(t), k <= Len(t) + Len(o)
  PROVE  UpTo(Run(o, t), k) = Run(SubSeq(o, 1, k - Len(t)), t)
  <1> DEFINE r == Run(o, t)
  <1>1. Len(o) \in Nat /\ Len(t) \in Nat
    BY LenProperties
  <1>2. /\ r \in Seq(Recs) /\ Len(r) = Len(o)
        /\ \A i \in 1..Len(o) : r[i].index = Len(t) + i
    BY RunFacts
  <1>3. \A n \in 0..Len(o) : SubSeq(r, 1, n) = Run(SubSeq(o, 1, n), t)
    BY RunCut
  <1> HIDE DEF r
  <1>4. CASE k = Len(t)
    <2>1. k - Len(t) = 0
      BY <1>1, <1>4
    <2>2. SubSeq(o, 1, 0) = <<>>
      BY SubSeqEmpty
    <2>3. UpTo(r, k) = <<>>
      <3>1. r # <<>> => r[1].index = Len(t) + 1
        BY <1>1, <1>2, NotEmpty
      <3>2. QED
        BY <3>1, <1>1, <1>4 DEF UpTo
    <2>4. QED
      BY <2>1, <2>2, <2>3, EmptyRun DEF r
  <1>5. CASE k # Len(t)
    <2>1. r # <<>> /\ r[1].index = Len(t) + 1
      BY <1>1, <1>2, <1>5, NotEmpty
    <2>2. UpTo(r, k) = SubSeq(r, 1, k - (Len(t) + 1) + 1)
      BY <1>1, <1>5, <2>1 DEF UpTo
    <2>3. k - (Len(t) + 1) + 1 = k - Len(t) /\ k - Len(t) \in 0..Len(o)
      BY <1>1
    <2>4. QED
      BY <2>2, <2>3, <1>3 DEF r
  <1>6. QED
    BY <1>4, <1>5

\* What lies beyond a snapshot that is a first part of everything completes it.
LEMMA ContentOfRun ==
  ASSUME NEW o \in Seq(Ops), NEW t \in Seq(Ops), NEW s \in Seq(Ops),
         Len(s) >= Len(t), Extends(t \o o, s)
  PROVE  Content(s, Run(o, t)) = t \o o
  <1> DEFINE m == Len(s) - Len(t) + 1
             w == t \o o
             d == SubSeq(o, m, Len(o))
             l == s \o d
  <1>1. Len(o) \in Nat /\ Len(t) \in Nat /\ Len(s) \in Nat
    BY LenProperties
  <1>2. /\ w \in Seq(Ops) /\ Len(w) = Len(t) + Len(o)
        /\ \A i \in 1..(Len(t) + Len(o)) : w[i] = IF i <= Len(t) THEN t[i] ELSE o[i - Len(t)]
    BY ConcatProperties
  <1>3. Len(s) <= Len(w) /\ \A i \in 1..Len(s) : s[i] = w[i]
    BY DEF Extends, Agree
  <1>4. /\ Run(o, t) \in Seq(Recs) /\ Len(Run(o, t)) = Len(o) /\ OpsOf(Run(o, t)) = o
    BY RunFacts
  <1> HIDE DEF w
  <1>5. m \in Nat \ {0} /\ m <= Len(o) + 1 /\ Len(o) - m + 1 = Len(w) - Len(s)
    BY <1>1, <1>2, <1>3
  <1>6. OpsOf(SubSeq(Run(o, t), m, Len(o))) = d
    <2>1. Len(o) <= Len(Run(o, t))
      BY <1>1, <1>4
    <2> HIDE DEF m
    <2>2. OpsOf(SubSeq(Run(o, t), m, Len(o))) = SubSeq(OpsOf(Run(o, t)), m, Len(o))
      BY <2>1, <1>1, <1>4, <1>5, OpsOfCut
    <2>3. QED
      BY <2>2, <1>4
  <1>7. Content(s, Run(o, t)) = l
    BY <1>1, <1>6, BeyondOfRun DEF Content
  <1>8. /\ d \in Seq(Ops) /\ Len(d) = Len(w) - Len(s)
        /\ \A i \in 1..(Len(w) - Len(s)) : d[i] = o[m + i - 1]
    <2> HIDE DEF m
    <2>1. /\ d \in Seq(Ops) /\ Len(d) = Len(o) - m + 1
          /\ \A i \in 1..(Len(o) - m + 1) : d[i] = o[m + i - 1]
      BY <1>1, <1>5, CutFacts
    <2>2. QED
      BY <2>1, <1>5
  <1> HIDE DEF d
  <1>9. /\ l \in Seq(Ops) /\ Len(l) = Len(w)
        /\ \A i \in 1..Len(w) : l[i] = IF i <= Len(s) THEN s[i] ELSE d[i - Len(s)]
    <2>1. /\ l \in Seq(Ops) /\ Len(l) = Len(s) + Len(d)
          /\ \A i \in 1..(Len(s) + Len(d)) : l[i] = IF i <= Len(s) THEN s[i] ELSE d[i - Len(s)]
      BY <1>8, ConcatProperties
    <2>2. Len(s) + Len(d) = Len(w)
      BY <1>1, <1>2, <1>8
    <2> HIDE DEF l
    <2>3. QED
      BY <2>1, <2>2
  <1> HIDE DEF l
  <1>10. ASSUME NEW i \in 1..Len(w)
         PROVE  l[i] = w[i]
    <2>1. CASE i <= Len(s)
      BY <2>1, <1>3, <1>9
    <2>2. CASE ~(i <= Len(s))
      <3>1. i - Len(s) \in 1..(Len(w) - Len(s)) /\ m + (i - Len(s)) - 1 = i - Len(t)
        BY <2>2, <1>1, <1>2
      <3>2. l[i] = o[i - Len(t)]
        BY <2>2, <3>1, <1>8, <1>9
      <3>3. ~(i <= Len(t)) /\ i \in 1..(Len(t) + Len(o))
        BY <2>2, <1>1, <1>2
      <3>4. QED
        BY <3>2, <3>3, <1>2
    <2>3. QED
      BY <2>1, <2>2
  <1>11. l = w
    BY <1>2, <1>9, <1>10, SeqEqual
  <1>12. QED
    BY <1>7, <1>11 DEF w

\* compact_upto: what is beyond a longer snapshot, chained anew from it.
LEMMA RebaseFacts ==
  ASSUME NEW o \in Seq(Ops), NEW t \in Seq(Ops), NEW p \in Seq(Ops), Len(p) >= Len(t)
  PROVE  LET w == t \o o
         IN Chained(Beyond(Run(o, t), Len(p)), SeedOf(p)) =
              Run(SubSeq(w, Len(p) + 1, Len(w)), p)
  <1> DEFINE w == t \o o
             m == Len(p) - Len(t) + 1
             b == SubSeq(Run(o, t), m, Len(o))
             d == SubSeq(w, Len(p) + 1, Len(w))
  <1>1. Len(o) \in Nat /\ Len(t) \in Nat /\ Len(p) \in Nat
    BY LenProperties
  <1>2. /\ w \in Seq(Ops) /\ Len(w) = Len(t) + Len(o)
        /\ \A i \in 1..(Len(t) + Len(o)) : w[i] = IF i <= Len(t) THEN t[i] ELSE o[i - Len(t)]
    BY ConcatProperties
  <1>3. Beyond(Run(o, t), Len(p)) = b
    BY <1>1, BeyondOfRun
  <1>4. /\ Run(o, t) \in Seq(Recs) /\ Len(Run(o, t)) = Len(o) /\ OpsOf(Run(o, t)) = o
        /\ \A i \in 1..Len(o) : Run(o, t)[i].index = Len(t) + i
    BY RunFacts
  <1> HIDE DEF w
  <1>5. CASE Len(p) >= Len(w)
    <2>1. m > Len(o) /\ Len(p) + 1 > Len(w)
      BY <1>1, <1>2, <1>5
    <2>2. m \in Int /\ Len(p) + 1 \in Int /\ Len(w) \in Int
      BY <1>1, <1>2
    <2> HIDE DEF m
    <2>3. b = <<>> /\ d = <<>>
      BY <2>1, <2>2, <1>1, SubSeqEmpty
    <2>4. <<>> \in Seq(Recs) /\ Len(<<>>) = 0
      BY EmptySeq
    <2>5. Chained(<<>>, SeedOf(p)) = Run(OpsOf(<<>>), p)
      <3>1. \A i \in 1..Len(<<>>) : <<>>[i].index = Len(p) + i
        BY <2>4
      <3>2. QED
        BY <2>4, <3>1, ChainedIsRun
    <2>6. Chained(b, SeedOf(p)) = Run(d, p)
      BY <2>3, <2>5, EmptyRun
    <2>7. QED
      BY <2>6, <1>3 DEF w
  <1>6. CASE ~(Len(p) >= Len(w))
    <2>1. /\ m \in Nat \ {0} /\ m <= Len(o) + 1 /\ Len(o) <= Len(Run(o, t))
          /\ Len(p) + 1 \in Nat \ {0} /\ Len(p) + 1 <= Len(w) + 1
          /\ Len(o) - m + 1 = Len(w) - Len(p)
      BY <1>1, <1>2, <1>4, <1>6
    <2>2. /\ d \in Seq(Ops) /\ Len(d) = Len(w) - Len(p)
          /\ \A i \in 1..(Len(w) - Len(p)) : d[i] = w[Len(p) + i]
      <3>1. /\ d \in Seq(Ops) /\ Len(d) = Len(w) - (Len(p) + 1) + 1
            /\ \A i \in 1..(Len(w) - (Len(p) + 1) + 1) : d[i] = w[Len(p) + 1 + i - 1]
        BY <2>1, <1>2, <1>1, CutFacts
      <3> HIDE DEF d
      <3>2. Len(w) - (Len(p) + 1) + 1 = Len(w) - Len(p)
        BY <1>1, <1>2
      <3>3. \A i \in 1..(Len(w) - Len(p)) : Len(p) + 1 + i - 1 = Len(p) + i
        BY <1>1, <1>2
      <3>4. QED
        BY <3>1, <3>2, <3>3
    <2>3. /\ b \in Seq(Recs) /\ Len(b) = Len(w) - Len(p)
          /\ \A i \in 1..(Len(w) - Len(p)) : b[i] = Run(o, t)[m + i - 1]
      <3> HIDE DEF m
      <3>1. /\ b \in Seq(Recs) /\ Len(b) = Len(o) - m + 1
            /\ \A i \in 1..(Len(o) - m + 1) : b[i] = Run(o, t)[m + i - 1]
        BY <2>1, <1>1, <1>4, CutFacts
      <3>2. QED
        BY <3>1, <2>1
    <2>4. OpsOf(b) = SubSeq(o, m, Len(o))
      <3> HIDE DEF m
      <3>1. OpsOf(b) = SubSeq(OpsOf(Run(o, t)), m, Len(o))
        BY <2>1, <1>1, <1>4, OpsOfCut
      <3>2. QED
        BY <3>1, <1>4
    <2>5. /\ SubSeq(o, m, Len(o)) \in Seq(Ops) /\ Len(SubSeq(o, m, Len(o))) = Len(w) - Len(p)
          /\ \A i \in 1..(Len(w) - Len(p)) : SubSeq(o, m, Len(o))[i] = o[m + i - 1]
      <3> HIDE DEF m
      <3>1. /\ SubSeq(o, m, Len(o)) \in Seq(Ops) /\ Len(SubSeq(o, m, Len(o))) = Len(o) - m + 1
            /\ \A i \in 1..(Len(o) - m + 1) : SubSeq(o, m, Len(o))[i] = o[m + i - 1]
        BY <2>1, <1>1, CutFacts
      <3>2. QED
        BY <3>1, <2>1
    <2>6. \A i \in 1..(Len(w) - Len(p)) :
            /\ m + i - 1 = Len(p) + i - Len(t) /\ m + i - 1 \in 1..Len(o)
            /\ ~(Len(p) + i <= Len(t)) /\ Len(p) + i \in 1..(Len(t) + Len(o))
      BY <1>1, <1>2, <1>6
    <2> HIDE DEF m, b, d
    <2>7. \A i \in 1..(Len(w) - Len(p)) : SubSeq(o, m, Len(o))[i] = d[i]
      <3>1. TAKE i \in 1..(Len(w) - Len(p))
      <3>2. d[i] = w[Len(p) + i]
        BY <2>2
      <3>3. w[Len(p) + i] = o[Len(p) + i - Len(t)]
        BY <2>6, <1>2
      <3>4. SubSeq(o, m, Len(o))[i] = o[m + i - 1]
        BY <2>5
      <3>5. QED
        BY <3>2, <3>3, <3>4, <2>6
    <2>8. OpsOf(b) = d
      BY <2>2, <2>4, <2>5, <2>7, SeqEqual
    <2>9. \A i \in 1..Len(b) : b[i].index = Len(p) + i
      <3>1. \A i \in 1..(Len(w) - Len(p)) : Len(t) + (m + i - 1) = Len(p) + i
        BY <1>1, <2>6
      <3>2. QED
        BY <3>1, <2>3, <2>6, <1>4
    <2>10. Chained(b, SeedOf(p)) = Run(OpsOf(b), p)
      BY <2>3, <2>9, ChainedIsRun
    <2>11. QED
      BY <2>8, <2>10, <1>3 DEF w, d
  <1>7. QED
    BY <1>5, <1>6

-----------------------------------------------------------------------------
(* What a recovery finds in one image of the disk, a snapshot and the records *)
(* of a log, when the node holds operations o on top of its snapshot t.       *)

\* The snapshot is the node's or a newer one, and the log goes on from the node's and
\* holds what the node holds, or is damaged.
Fits(s, rs, t, o) ==
  /\ s = t \/ (Len(s) > Len(t) /\ Extends(s, t))
  /\ rs # <<>> => rs[1].prev = SeedOf(t)
  /\ ~Corrupt(rs, SeedOf(t)) => Extends(OpsOf(WholePart(rs)), o)
  /\ o # <<>> => rs # <<>> /\ (rs[1].whole \/ Len(rs) > 1)

\* Nothing is found that is not in C.
Finds(s, rs, C) == ~Corrupt(rs, SeedOf(s)) => s \o OpsOf(WholePart(rs)) \in C

\* The records follow operations o on top of snapshot t.
Follows(b, o, t) ==
  \A i \in 1..Len(b) :
    b[i].whole /\ b[i].prev = [snap |-> t, past |-> o \o SubSeq(OpsOf(b), 1, i - 1)]

\* The first n records, or these and a part of the next.
Piece(b, n, p) ==
  \/ p = SubSeq(b, 1, n)
  \/ n < Len(b) /\ p = Append(SubSeq(b, 1, n), Torn(b[n + 1]))

LEMMA TornFacts ==
  ASSUME NEW r \in Recs
  PROVE  /\ Torn(r) \in Recs /\ Torn(r).prev = r.prev /\ ~Torn(r).whole
         /\ Torn(Torn(r)) = Torn(r)
  <1> DEFINE R == [index : Nat, op : Ops, prev : Hashes, whole : BOOLEAN]
  <1>1. r \in R /\ r.index = Len(r.prev.snap) + Len(r.prev.past) + 1
    BY DEF Recs
  <1>2. \A x \in R : /\ Torn(x) \in R /\ Torn(x).index = x.index /\ Torn(x).op = x.op
                     /\ Torn(x).prev = x.prev /\ Torn(x).whole = FALSE
    <2> HIDE DEF Hashes
    <2>1. QED
      BY DEF Torn
  <1>3. \A x \in R : x = [index |-> x.index, op |-> x.op, prev |-> x.prev, whole |-> x.whole]
    <2> HIDE DEF Hashes
    <2>1. QED
      OBVIOUS
  <1> HIDE DEF R
  <1>4. Torn(Torn(r)) = Torn(r)
    <2>1. Torn(r) \in R /\ Torn(Torn(r)) \in R
      BY <1>1, <1>2
    <2>2. /\ Torn(Torn(r)).index = Torn(r).index /\ Torn(Torn(r)).op = Torn(r).op
          /\ Torn(Torn(r)).prev = Torn(r).prev /\ Torn(Torn(r)).whole = Torn(r).whole
      BY <2>1, <1>1, <1>2
    <2>3. Torn(r) = [index |-> Torn(r).index, op |-> Torn(r).op, prev |-> Torn(r).prev,
                     whole |-> Torn(r).whole]
      BY <2>1, <1>3, Zenon
    <2>4. Torn(Torn(r)) = [index |-> Torn(Torn(r)).index, op |-> Torn(Torn(r)).op,
                           prev |-> Torn(Torn(r)).prev, whole |-> Torn(Torn(r)).whole]
      BY <2>1, <1>3, Zenon
    <2>5. QED
      BY <2>2, <2>3, <2>4, Zenon
  <1>5. Torn(r) \in Recs
    BY <1>1, <1>2 DEF Recs, R
  <1>6. QED
    BY <1>1, <1>2, <1>4, <1>5

LEMMA RunWhole ==
  ASSUME NEW o \in Seq(Ops), NEW s \in Seq(Ops)
  PROVE  WholePart(Run(o, s)) = Run(o, s)
  <1> DEFINE r == Run(o, s)
  <1>1. r \in Seq(Recs) /\ Len(r) = Len(o) /\ \A i \in 1..Len(o) : r[i].whole
    BY RunFacts
  <1> HIDE DEF r
  <1>2. PICK n \in 0..Len(r) :
          WholePart(r) = SubSeq(r, 1, n) /\ (n < Len(r) => ~r[n + 1].whole)
    BY <1>1, WholeFacts
  <1>3. Len(r) \in Nat
    BY <1>1, LenProperties
  <1>4. n = Len(r)
    <2>1. n < Len(r) => n + 1 \in 1..Len(r)
      BY <1>3
    <2>2. QED
      BY <2>1, <1>1, <1>2, <1>3
  <1>5. SubSeq(r, 1, Len(r)) = r
    BY <1>1, SubSeqFull
  <1>6. QED
    BY <1>2, <1>4, <1>5 DEF r

\* A newer snapshot is found only with no more of a log than a torn record.
LEMMA StrayFits ==
  ASSUME NEW s \in Seq(Ops), NEW t \in Seq(Ops), NEW o \in Seq(Ops), NEW rs \in Seq(Recs),
         Fits(s, rs, t, o), s # t, ~Corrupt(rs, SeedOf(s))
  PROVE  o = <<>> /\ WholePart(rs) = <<>> /\ s \o OpsOf(WholePart(rs)) = s
  <1>1. PICK n \in 0..Len(rs) :
          /\ Len(WholePart(rs)) = n /\ WholePart(rs) \in Seq(Recs)
          /\ \A i \in 1..n : WholePart(rs)[i] = rs[i] /\ rs[i].whole
    BY WholeFacts
  <1>2. Len(rs) \in Nat
    BY LenProperties
  <1>3. n = 0
    <2>1. SUFFICES ASSUME n # 0
                   PROVE  FALSE
      OBVIOUS
    <2>2. 1 \in 1..n /\ rs # <<>> /\ DOMAIN WholePart(rs) = 1..n
      BY <2>1, <1>1, <1>2, NotEmpty, LenProperties
    <2>3. WholePart(rs)[1].prev = SeedOf(s)
      BY <2>2 DEF Corrupt
    <2>4. rs[1].prev = SeedOf(t)
      BY <2>2 DEF Fits
    <2>5. SeedOf(s) = SeedOf(t)
      BY <2>2, <2>3, <2>4, <1>1
    <2>6. QED
      BY <2>5 DEF SeedOf
  <1>4. WholePart(rs) = <<>>
    BY <1>1, <1>3, NotEmpty
  <1>5. Len(rs) <= 1
    BY <1>1, <1>2, <1>3, RecoverFacts
  <1>6. o = <<>>
    <2>1. SUFFICES ASSUME o # <<>>
                   PROVE  FALSE
      OBVIOUS
    <2>2. rs # <<>> /\ rs[1].whole
      BY <2>1, <1>2, <1>5 DEF Fits
    <2>3. 0 < Len(rs)
      BY <2>2, NotEmpty
    <2>4. PICK m \in 0..Len(rs) :
            Len(WholePart(rs)) = m /\ (m < Len(rs) => ~rs[m + 1].whole)
      BY WholeFacts
    <2>5. m = 0
      BY <2>4, <1>1, <1>3
    <2>6. QED
      BY <2>2, <2>3, <2>4, <2>5
  <1>7. s \o OpsOf(WholePart(rs)) = s
    BY <1>4, EmptyRun, ConcatEmptySeq
  <1>8. QED
    BY <1>4, <1>6, <1>7

\* More records at the end mend nothing: what is accepted with them was without them.
LEMMA DamageStays ==
  ASSUME NEW r \in Seq(Recs), NEW p \in Seq(Recs), NEW b \in Seq(Recs), NEW h \in Hashes,
         WholePart(r) = r, WholePart(r \o p) = r \o b, ~Corrupt(r \o p, h)
  PROVE  ~Corrupt(r, h)
  <1> DEFINE ok == r \o b
  <1>1. Len(r) \in Nat /\ Len(b) \in Nat
    BY LenProperties
  <1>2. /\ ok \in Seq(Recs) /\ Len(ok) = Len(r) + Len(b)
        /\ \A i \in 1..(Len(r) + Len(b)) : ok[i] = IF i <= Len(r) THEN r[i] ELSE b[i - Len(r)]
    BY ConcatProperties
  <1> HIDE DEF ok
  <1>3. /\ \A i \in DOMAIN ok : ok[i].prev = IF i = 1 THEN h ELSE HashOf(ok[i - 1])
        /\ \A i \in DOMAIN ok : i > 1 => ok[i].index = ok[i - 1].index + 1
        /\ ~(ok # <<>> /\ h = ZeroSeed /\ ok[1].index # 1)
    BY DEF Corrupt, ok
  <1>4. DOMAIN ok = 1..Len(ok) /\ DOMAIN r = 1..Len(r)
    BY <1>2, LenProperties
  <1>5. \A i \in DOMAIN r :
          /\ i \in DOMAIN ok /\ ok[i] = r[i]
          /\ i # 1 => i - 1 \in 1..Len(r) /\ ok[i - 1] = r[i - 1]
    BY <1>1, <1>2, <1>4
  <1>6. \A i \in DOMAIN r : r[i].prev = IF i = 1 THEN h ELSE HashOf(r[i - 1])
    <2>1. TAKE i \in DOMAIN r
    <2>2. ok[i].prev = IF i = 1 THEN h ELSE HashOf(ok[i - 1])
      BY <1>3, <1>5
    <2>3. ok[i] = r[i] /\ (i # 1 => ok[i - 1] = r[i - 1])
      BY <1>5
    <2>4. QED
      BY <2>2, <2>3
  <1>7. \A i \in DOMAIN r : i > 1 => r[i].index = r[i - 1].index + 1
    <2>1. TAKE i \in DOMAIN r
    <2>2. i > 1 => ok[i].index = ok[i - 1].index + 1
      BY <1>3, <1>5
    <2>3. ok[i] = r[i] /\ (i > 1 => ok[i - 1] = r[i - 1])
      BY <1>4, <1>5
    <2>4. QED
      BY <2>2, <2>3
  <1>8. ~(r # <<>> /\ h = ZeroSeed /\ r[1].index # 1)
    <2>1. r # <<>> => ok # <<>> /\ ok[1] = r[1]
      BY <1>1, <1>2, NotEmpty
    <2>2. QED
      BY <2>1, <1>3
  <1>9. ~(Len(r) + 1 < Len(r))
    BY <1>1
  <1>10. QED
    BY <1>6, <1>7, <1>8, <1>9 DEF Corrupt

LEMMA FollowsRun ==
  ASSUME NEW o \in Seq(Ops), NEW t \in Seq(Ops), NEW b \in Seq(Recs), Follows(b, o, t)
  PROVE  Run(o, t) \o b = Run(o \o OpsOf(b), t)
  <1> DEFINE q == OpsOf(b)
             r == Run(o, t)
             c == r \o b
  <1>1. Len(o) \in Nat /\ Len(b) \in Nat
    BY LenProperties
  <1>2. q \in Seq(Ops) /\ Len(q) = Len(b)
    BY OpsOfFacts
  <1>3. /\ r \in Seq(Recs) /\ Len(r) = Len(o) /\ OpsOf(r) = o
        /\ \A i \in 1..Len(o) :
             r[i].prev = [snap |-> t, past |-> SubSeq(o, 1, i - 1)] /\ r[i].whole
    BY RunFacts
  <1> HIDE DEF r
  <1>4. /\ c \in Seq(Recs) /\ Len(c) = Len(o) + Len(b) /\ OpsOf(c) = o \o q
        /\ \A i \in 1..(Len(o) + Len(b)) : c[i] = IF i <= Len(o) THEN r[i] ELSE b[i - Len(o)]
    <2>1. /\ c \in Seq(Recs) /\ Len(c) = Len(r) + Len(b)
          /\ \A i \in 1..(Len(r) + Len(b)) : c[i] = IF i <= Len(r) THEN r[i] ELSE b[i - Len(r)]
      BY <1>3, ConcatProperties
    <2>2. OpsOf(c) = OpsOf(r) \o q
      BY <1>3, OpsOfJoin
    <2> HIDE DEF c, q
    <2>3. QED
      BY <2>1, <2>2, <1>3
  <1> HIDE DEF c
  <1>5. ASSUME NEW i \in 1..Len(c)
        PROVE  c[i].whole /\ c[i].prev = [snap |-> t, past |-> SubSeq(OpsOf(c), 1, i - 1)]
    <2>1. CASE i <= Len(o)
      <3>1. i \in 1..Len(o) /\ i - 1 \in 0..Len(o) /\ c[i] = r[i]
        BY <2>1, <1>1, <1>4
      <3>2. SubSeq(o \o q, 1, i - 1) = SubSeq(o, 1, i - 1)
        BY <3>1, <1>2, JoinFirst
      <3>3. QED
        BY <3>1, <3>2, <1>3, <1>4
    <2>2. CASE ~(i <= Len(o))
      <3> DEFINE j == i - Len(o)
      <3>1. j \in 1..Len(b) /\ j - 1 \in 0..Len(q) /\ Len(o) + (j - 1) = i - 1 /\ c[i] = b[j]
        BY <2>2, <1>1, <1>2, <1>4
      <3> HIDE DEF j
      <3>2. SubSeq(o \o q, 1, Len(o) + (j - 1)) = o \o SubSeq(q, 1, j - 1)
        BY <3>1, <1>2, JoinMore
      <3>3. b[j].whole /\ b[j].prev = [snap |-> t, past |-> o \o SubSeq(q, 1, j - 1)]
        BY <3>1 DEF Follows
      <3>4. QED
        BY <3>1, <3>2, <3>3, <1>4
    <2>3. QED
      BY <2>1, <2>2
  <1>6. c = Run(OpsOf(c), t)
    BY <1>4, <1>5, RunIs
  <1>7. QED
    BY <1>4, <1>6 DEF c, r

LEMMA AllWhole ==
  ASSUME NEW r \in Seq(Recs), \A i \in 1..Len(r) : r[i].whole
  PROVE  WholePart(r) = r
  <1>1. PICK n \in 0..Len(r) :
          WholePart(r) = SubSeq(r, 1, n) /\ (n < Len(r) => ~r[n + 1].whole)
    BY WholeFacts
  <1>2. Len(r) \in Nat
    BY LenProperties
  <1>3. n = Len(r)
    <2>1. n < Len(r) => n + 1 \in 1..Len(r)
      BY <1>2
    <2>2. QED
      BY <2>1, <1>1, <1>2
  <1>4. SubSeq(r, 1, Len(r)) = r
    BY SubSeqFull
  <1>5. QED
    BY <1>1, <1>3, <1>4

LEMMA TornEnd ==
  ASSUME NEW c \in Seq(Recs), \A i \in 1..Len(c) : c[i].whole, NEW x \in Recs, ~x.whole
  PROVE  WholePart(Append(c, x)) = c
  <1> DEFINE d == Append(c, x)
  <1>1. Len(c) \in Nat
    BY LenProperties
  <1>2. /\ d \in Seq(Recs) /\ Len(d) = Len(c) + 1
        /\ \A i \in 1..Len(c) : d[i] = c[i]
        /\ d[Len(c) + 1] = x
    BY <1>1, AppendProperties
  <1> HIDE DEF d
  <1>3. PICK n \in 0..Len(d) :
          /\ WholePart(d) = SubSeq(d, 1, n) /\ (n < Len(d) => ~d[n + 1].whole)
          /\ \A i \in 1..n : d[i].whole
    BY <1>2, WholeFacts
  <1>4. n = Len(c)
    <2>1. n < Len(c) => n + 1 \in 1..Len(c) /\ n < Len(d)
      BY <1>1, <1>2
    <2>2. n = Len(c) + 1 => Len(c) + 1 \in 1..n
      BY <1>1
    <2>3. ~(n < Len(c))
      BY <2>1, <1>2, <1>3
    <2>4. n # Len(c) + 1
      BY <2>2, <1>2, <1>3
    <2>5. QED
      BY <2>3, <2>4, <1>1, <1>2
  <1>5. /\ SubSeq(d, 1, n) \in Seq(Recs) /\ Len(SubSeq(d, 1, n)) = n
        /\ \A i \in 1..n : SubSeq(d, 1, n)[i] = d[i]
    BY <1>2, FirstFacts
  <1>6. SubSeq(d, 1, n) = c
    BY <1>2, <1>4, <1>5, SeqEqual
  <1>7. QED
    BY <1>3, <1>6 DEF d

LEMMA JoinAppend ==
  ASSUME NEW T, NEW a \in Seq(T), NEW b \in Seq(T), NEW x \in T
  PROVE  a \o Append(b, x) = Append(a \o b, x)
  <1> DEFINE c == a \o b
             d == Append(b, x)
             l == a \o d
             r == Append(c, x)
  <1>1. Len(a) \in Nat /\ Len(b) \in Nat
    BY LenProperties
  <1>2. /\ c \in Seq(T) /\ Len(c) = Len(a) + Len(b)
        /\ \A i \in 1..(Len(a) + Len(b)) : c[i] = IF i <= Len(a) THEN a[i] ELSE b[i - Len(a)]
    BY ConcatProperties
  <1>3. /\ d \in Seq(T) /\ Len(d) = Len(b) + 1
        /\ \A i \in 1..Len(b) : d[i] = b[i]
        /\ d[Len(b) + 1] = x
    BY <1>1, AppendProperties
  <1> HIDE DEF c, d
  <1>4. /\ l \in Seq(T) /\ Len(l) = Len(a) + Len(d)
        /\ \A i \in 1..(Len(a) + Len(d)) : l[i] = IF i <= Len(a) THEN a[i] ELSE d[i - Len(a)]
    BY <1>3, ConcatProperties
  <1>5. /\ r \in Seq(T) /\ Len(r) = Len(c) + 1
        /\ \A i \in 1..Len(c) : r[i] = c[i]
        /\ r[Len(c) + 1] = x
    BY <1>1, <1>2, AppendProperties
  <1> HIDE DEF l, r
  <1>6. ASSUME NEW i \in 1..Len(l)
        PROVE  l[i] = r[i]
    <2>1. CASE i <= Len(a)
      <3>1. i \in 1..(Len(a) + Len(b)) /\ i \in 1..Len(c) /\ i \in 1..(Len(a) + Len(d))
        BY <2>1, <1>1, <1>2, <1>3
      <3>2. QED
        BY <2>1, <3>1, <1>2, <1>4, <1>5
    <2>2. CASE ~(i <= Len(a)) /\ i <= Len(a) + Len(b)
      <3>1. /\ i \in 1..(Len(a) + Len(b)) /\ i \in 1..Len(c) /\ i \in 1..(Len(a) + Len(d))
            /\ i - Len(a) \in 1..Len(b)
        BY <2>2, <1>1, <1>2, <1>3
      <3>2. QED
        BY <2>2, <3>1, <1>2, <1>3, <1>4, <1>5
    <2>3. CASE ~(i <= Len(a) + Len(b))
      <3>1. i = Len(c) + 1 /\ i - Len(a) = Len(b) + 1 /\ ~(i <= Len(a)) /\ i \in 1..(Len(a) + Len(d))
        BY <2>3, <1>1, <1>2, <1>3, <1>4
      <3>2. QED
        BY <3>1, <1>3, <1>4, <1>5
    <2>4. QED
      BY <2>1, <2>2, <2>3
  <1>7. l = r
    <2>1. Len(l) = Len(r)
      BY <1>1, <1>2, <1>3, <1>4, <1>5
    <2>2. QED
      BY <2>1, <1>4, <1>5, <1>6, SeqEqual
  <1>8. QED
    BY <1>7 DEF l, r, c, d

LEMMA PieceFacts ==
  ASSUME NEW b \in Seq(Recs), NEW n \in 0..Len(b), NEW p, Piece(b, n, p),
         \A i \in 1..Len(b) : b[i].whole
  PROVE  /\ p \in Seq(Recs)
         /\ p # <<>> => b # <<>> /\ p[1].prev = b[1].prev
         /\ p = <<>> => n = 0
         /\ \A r \in Seq(Recs) :
              WholePart(r) = r => WholePart(r \o p) = r \o SubSeq(b, 1, n)
  <1> DEFINE d == SubSeq(b, 1, n)
  <1>1. Len(b) \in Nat /\ \A i \in 1..Len(b) : b[i] \in Recs
    BY LenProperties, ElementOfSeq
  <1>2. d \in Seq(Recs) /\ Len(d) = n /\ \A i \in 1..n : d[i] = b[i]
    BY FirstFacts
  <1>3. \A i \in 1..n : d[i].whole
    BY <1>1, <1>2
  <1>4. ASSUME NEW r \in Seq(Recs), WholePart(r) = r
        PROVE  r \o d \in Seq(Recs) /\ \A i \in 1..Len(r \o d) : (r \o d)[i].whole
    <2> HIDE DEF d
    <2>1. Len(r) \in Nat
      BY LenProperties
    <2>2. \A i \in 1..Len(r) : r[i].whole
      BY <1>4, WholeFacts
    <2>3. /\ r \o d \in Seq(Recs) /\ Len(r \o d) = Len(r) + Len(d)
          /\ \A i \in 1..(Len(r) + Len(d)) :
               (r \o d)[i] = IF i <= Len(r) THEN r[i] ELSE d[i - Len(r)]
      BY <1>2, ConcatProperties
    <2>4. ASSUME NEW i \in 1..(Len(r) + n)
          PROVE  (r \o d)[i].whole
      <3>1. CASE i <= Len(r)
        BY <3>1, <2>1, <2>2, <2>3, <1>2
      <3>2. CASE ~(i <= Len(r))
        <4>1. i - Len(r) \in 1..n
          BY <3>2, <2>1
        <4>2. QED
          BY <3>2, <4>1, <2>3, <1>2, <1>3
      <3>3. QED
        BY <3>1, <3>2
    <2>5. QED
      BY <2>3, <2>4, <1>2
  <1>5. CASE p = d
    <2>1. p \in Seq(Recs) /\ (p = <<>> => n = 0)
      BY <1>2, <1>5, EmptySeq
    <2>2. p # <<>> => b # <<>> /\ p[1].prev = b[1].prev
      <3>1. p # <<>> => n > 0 /\ Len(b) > 0 /\ 1 \in 1..n
        BY <1>1, <1>2, <1>5, NotEmpty
      <3>2. QED
        BY <3>1, <1>2, <1>5, NotEmpty
    <2>3. \A r \in Seq(Recs) : WholePart(r) = r => WholePart(r \o p) = r \o d
      BY <1>4, <1>5, AllWhole
    <2>4. QED
      BY <2>1, <2>2, <2>3
  <1>6. CASE n < Len(b) /\ p = Append(d, Torn(b[n + 1]))
    <2> DEFINE x == Torn(b[n + 1])
    <2>1. n + 1 \in 1..Len(b) /\ b[n + 1] \in Recs
      BY <1>1, <1>6
    <2>2. x \in Recs /\ x.prev = b[n + 1].prev /\ ~x.whole
      BY <2>1, TornFacts
    <2> HIDE DEF x, d
    <2>3. /\ p \in Seq(Recs) /\ Len(p) = n + 1
          /\ \A i \in 1..n : p[i] = d[i]
          /\ p[n + 1] = x
      <3>1. p = Append(d, x)
        BY <1>6 DEF x
      <3>2. QED
        BY <3>1, <2>2, <1>2, AppendProperties
    <2>4. p # <<>> /\ b # <<>>
      BY <2>1, <2>3, <1>1, NotEmpty
    <2>5. p[1].prev = b[1].prev
      <3>1. CASE n = 0
        BY <3>1, <2>2, <2>3
      <3>2. CASE n # 0
        <4>1. 1 \in 1..n
          BY <3>2
        <4>2. QED
          BY <4>1, <2>3, <1>2
      <3>3. QED
        BY <3>1, <3>2
    <2>6. ASSUME NEW r \in Seq(Recs), WholePart(r) = r
          PROVE  WholePart(r \o p) = r \o d
      <3>1. r \o p = Append(r \o d, x)
        BY <1>2, <1>6, <2>2, JoinAppend DEF x
      <3>2. QED
        BY <3>1, <2>2, <2>6, <1>4, TornEnd
    <2>7. QED
      BY <2>3, <2>4, <2>5, <2>6 DEF d
  <1>7. QED
    BY <1>5, <1>6 DEF Piece

\* Bytes of a batch behind a log that fits: the log fits still, and no more is found than
\* before or the records of the batch that are whole.
LEMMA PieceFits ==
  ASSUME NEW o \in Seq(Ops), NEW t \in Seq(Ops), NEW s \in Seq(Ops), NEW r \in Seq(Recs),
         NEW b \in Seq(Recs), NEW n \in 0..Len(b), NEW p, NEW C,
         Fits(s, r, t, o), Finds(s, r, C), Follows(b, o, t), Piece(b, n, p),
         n > 0 => (t \o o) \o SubSeq(OpsOf(b), 1, n) \in C
  PROVE  r \o p \in Seq(Recs) /\ Fits(s, r \o p, t, o) /\ Finds(s, r \o p, C)
  <1> DEFINE rs == r \o p
             d == SubSeq(b, 1, n)
             q == OpsOf(b)
  <1>1. Len(r) \in Nat /\ Len(b) \in Nat /\ Len(o) \in Nat
    BY LenProperties
  <1>2. \A i \in 1..Len(b) : b[i].whole
    BY DEF Follows
  <1>3. /\ p \in Seq(Recs)
        /\ p # <<>> => b # <<>> /\ p[1].prev = b[1].prev
        /\ p = <<>> => n = 0
        /\ WholePart(r) = r => WholePart(rs) = r \o d
    BY <1>2, PieceFacts
  <1>4. Len(p) \in Nat
    BY <1>3, LenProperties
  <1>5. /\ rs \in Seq(Recs) /\ Len(rs) = Len(r) + Len(p)
        /\ \A i \in 1..(Len(r) + Len(p)) : rs[i] = IF i <= Len(r) THEN r[i] ELSE p[i - Len(r)]
    BY <1>3, ConcatProperties
  <1>6. q \in Seq(Ops) /\ Len(q) = Len(b)
    BY OpsOfFacts
  <1>7. d \in Seq(Recs) /\ Len(d) = n /\ \A i \in 1..n : d[i] = b[i]
    BY FirstFacts
  <1>8. OpsOf(d) = SubSeq(q, 1, n)
    <2>1. 1 \in Nat \ {0} /\ n \in Nat /\ n <= Len(b) /\ 1 <= n + 1
      BY <1>1
    <2>2. QED
      BY <2>1, OpsOfCut
  <1> HIDE DEF rs, d
  <1>9. CASE p = <<>>
    <2>1. rs = r
      BY <1>9, ConcatEmptySeq DEF rs
    <2>2. QED
      BY <2>1 DEF rs
  <1>10. ASSUME p # <<>>
         PROVE  Fits(s, rs, t, o) /\ Finds(s, rs, C)
    <2>1. Len(p) > 0 /\ rs # <<>> /\ Len(rs) > Len(r)
      BY <1>10, <1>1, <1>3, <1>4, <1>5, NotEmpty
    <2>2. rs[1].prev = SeedOf(t)
      <3>1. CASE r # <<>>
        <4>1. 1 \in 1..(Len(r) + Len(p)) /\ 1 <= Len(r)
          BY <3>1, <1>1, <1>4, NotEmpty
        <4>2. rs[1] = r[1]
          BY <4>1, <1>5
        <4>3. QED
          BY <4>2, <3>1 DEF Fits
      <3>2. CASE r = <<>>
        <4>1. Len(r) = 0 /\ 1 \in 1..Len(b)
          BY <3>2, <1>1, <1>3, <1>10, EmptySeq, NotEmpty
        <4>2. rs[1] = p[1]
          BY <4>1, <2>1, <1>4, <1>5
        <4>3. b[1].prev = [snap |-> t, past |-> o \o SubSeq(q, 1, 1 - 1)]
          BY <4>1 DEF Follows
        <4>4. SubSeq(q, 1, 1 - 1) = <<>>
          BY SubSeqEmpty
        <4>5. o = <<>>
          BY <3>2 DEF Fits
        <4>6. o \o <<>> = <<>>
          BY <4>5, ConcatEmptySeq
        <4>7. QED
          BY <4>2, <4>3, <4>4, <4>6, <1>3, <1>10 DEF SeedOf
      <3>3. QED
        BY <3>1, <3>2
    <2>3. o # <<>> => rs[1].whole \/ Len(rs) > 1
      <3>1. SUFFICES ASSUME o # <<>>
                     PROVE  Len(rs) > 1
        OBVIOUS
      <3>2. Len(r) > 0
        BY <3>1, NotEmpty DEF Fits
      <3>3. QED
        BY <3>2, <2>1, <1>1, <1>4, <1>5
    <2>4. CASE WholePart(r) # r
      <3>1. Len(WholePart(rs)) + 1 < Len(rs)
        <4>1. PICK m \in 0..Len(r) :
                WholePart(r) = SubSeq(r, 1, m) /\ (m < Len(r) => ~r[m + 1].whole)
          BY WholeFacts
        <4>2. m < Len(r)
          <5>1. SubSeq(r, 1, Len(r)) = r
            BY SubSeqFull
          <5>2. m # Len(r)
            BY <5>1, <4>1, <2>4
          <5>3. QED
            BY <5>2, <1>1
        <4>3. PICK k \in 0..Len(rs) :
                Len(WholePart(rs)) = k /\ \A i \in 1..k : rs[i].whole
          BY <1>5, WholeFacts
        <4>4. k <= m
          <5>1. SUFFICES ASSUME k > m
                         PROVE  FALSE
            BY <1>1, <1>4, <1>5
          <5>2. m + 1 \in 1..k /\ m + 1 \in 1..(Len(r) + Len(p)) /\ m + 1 <= Len(r)
            BY <5>1, <4>2, <1>1, <1>4, <1>5
          <5>3. rs[m + 1] = r[m + 1]
            BY <5>2, <1>5
          <5>4. QED
            BY <5>2, <5>3, <4>1, <4>2, <4>3
        <4>5. QED
          BY <4>2, <4>3, <4>4, <2>1, <1>1, <1>4, <1>5
      <3>2. \A h : Corrupt(rs, h)
        BY <3>1 DEF Corrupt
      <3>3. QED
        BY <3>2, <2>1, <2>2, <2>3 DEF Fits, Finds
    <2>5. CASE WholePart(r) = r
      <3>1. WholePart(rs) = r \o d
        BY <2>5, <1>3
      <3>2. \A h \in Hashes : ~Corrupt(rs, h) => ~Corrupt(r, h)
        BY <3>1, <2>5, <1>3, <1>7, DamageStays DEF rs
      <3>3. SeedOf(t) \in Hashes /\ SeedOf(s) \in Hashes
        BY HashFacts, EmptySeq, Zenon DEF SeedOf
      <3>4. OpsOf(r \o d) = OpsOf(r) \o SubSeq(q, 1, n)
        BY <1>7, <1>8, OpsOfJoin
      <3>5. SubSeq(q, 1, n) \in Seq(Ops) /\ OpsOf(r) \in Seq(Ops) /\ Len(OpsOf(r)) = Len(r)
        BY <1>6, FirstFacts, OpsOfFacts
      <3>6. ~Corrupt(rs, SeedOf(t)) => Extends(OpsOf(WholePart(rs)), o)
        <4>1. SUFFICES ASSUME ~Corrupt(rs, SeedOf(t))
                       PROVE  Extends(OpsOf(r) \o SubSeq(q, 1, n), o)
          BY <3>1, <3>4
        <4>2. Extends(OpsOf(r), o)
          BY <4>1, <3>2, <3>3, <2>5 DEF Fits
        <4> DEFINE a == OpsOf(r)
                   z == SubSeq(q, 1, n)
        <4>3. a \in Seq(Ops) /\ z \in Seq(Ops) /\ Extends(a, o)
          BY <4>2, <3>5
        <4> HIDE DEF a, z
        <4>4. /\ Len(a \o z) = Len(a) + Len(z) /\ Len(a) \in Nat /\ Len(z) \in Nat
              /\ \A i \in 1..(Len(a) + Len(z)) :
                   (a \o z)[i] = IF i <= Len(a) THEN a[i] ELSE z[i - Len(a)]
          BY <4>3, ConcatProperties, LenProperties
        <4>5. Extends(a \o z, o)
          BY <4>3, <4>4, <1>1 DEF Extends, Agree
        <4>6. QED
          BY <4>5 DEF a, z
      <3>7. Fits(s, rs, t, o)
        BY <3>6, <2>1, <2>2, <2>3 DEF Fits
      <3>8. Finds(s, rs, C)
        <4>1. SUFFICES ASSUME ~Corrupt(rs, SeedOf(s))
                       PROVE  s \o OpsOf(WholePart(rs)) \in C
          BY DEF Finds
        <4>2. CASE n = 0
          <5>1. d = <<>>
            BY <4>2, SubSeqEmpty DEF d
          <5>2. WholePart(rs) = r
            BY <5>1, <3>1, ConcatEmptySeq
          <5>3. QED
            BY <5>2, <4>1, <3>2, <3>3, <2>5 DEF Finds
        <4>3. CASE n > 0
          <5>1. Len(r \o d) = Len(r) + n /\ r \o d \in Seq(Recs)
            BY <1>7, ConcatProperties
          <5>2. s = t
            <6>1. SUFFICES ASSUME s # t
                           PROVE  FALSE
              OBVIOUS
            <6>2. WholePart(rs) = <<>>
              BY <6>1, <4>1, <3>7, <1>5, StrayFits
            <6>3. Len(r \o d) = 0
              BY <6>2, <3>1, EmptySeq
            <6>4. QED
              BY <6>3, <5>1, <4>3, <1>1
          <5> DEFINE ok == r \o d
                     e == OpsOf(ok)
          <5>3. ok = Run(e, t)
            BY <5>2, <4>1, <3>1, <1>5, RecoverFacts
          <5>4. e \in Seq(Ops) /\ Len(e) = Len(r) + n
            BY <5>1, OpsOfFacts
          <5>5. ok[Len(r) + 1] = b[1] /\ Len(r) + 1 \in 1..Len(e) /\ 1 \in 1..Len(b)
            <6>1. \A i \in 1..(Len(r) + Len(d)) :
                    (r \o d)[i] = IF i <= Len(r) THEN r[i] ELSE d[i - Len(r)]
              BY <1>7, ConcatProperties
            <6>2. /\ Len(r) + 1 \in 1..(Len(r) + Len(d)) /\ ~(Len(r) + 1 <= Len(r))
                  /\ Len(r) + 1 - Len(r) = 1 /\ 1 \in 1..n /\ 1 \in 1..Len(b)
              BY <4>3, <1>1, <1>7
            <6>3. (r \o d)[Len(r) + 1] = d[Len(r) + 1 - Len(r)]
              BY <6>1, <6>2
            <6>4. d[1] = b[1]
              BY <6>2, <1>7
            <6>5. Len(r) + 1 \in 1..Len(e)
              <7> HIDE DEF e
              <7>1. QED
                BY <5>4, <4>3, <1>1
            <6>6. QED
              BY <6>2, <6>3, <6>4, <6>5
          <5>6. Run(e, t)[Len(r) + 1].prev = [snap |-> t, past |-> SubSeq(e, 1, Len(r) + 1 - 1)]
            <6> HIDE DEF e, ok
            <6> DEFINE k == Len(r) + 1
            <6>1. e \in Seq(Ops) /\ k \in 1..Len(e)
              BY <5>4, <5>5
            <6> HIDE DEF k
            <6>2. Run(e, t)[k].prev = [snap |-> t, past |-> SubSeq(e, 1, k - 1)]
              BY <6>1, RunPrev, Zenon
            <6>3. QED
              BY <6>2 DEF k
          <5>7. b[1].prev = [snap |-> t, past |-> o \o SubSeq(q, 1, 1 - 1)]
            BY <5>5 DEF Follows
          <5>8. o \o SubSeq(q, 1, 1 - 1) = o
            BY SubSeqEmpty, ConcatEmptySeq
          <5>9. SubSeq(e, 1, Len(r) + 1 - 1) = OpsOf(r)
            <6>1. e = OpsOf(r) \o SubSeq(q, 1, n)
              BY <3>4
            <6>2. Len(r) + 1 - 1 = Len(r) /\ Len(r) \in 0..Len(OpsOf(r))
              BY <3>5, <1>1
            <6> HIDE DEF e
            <6>3. SubSeq(e, 1, Len(r)) = SubSeq(OpsOf(r), 1, Len(r))
              BY <6>1, <6>2, <3>5, JoinFirst
            <6>4. SubSeq(OpsOf(r), 1, Len(OpsOf(r))) = OpsOf(r)
              BY <3>5, SubSeqFull
            <6>5. QED
              BY <6>2, <6>3, <6>4, <3>5
          <5> HIDE DEF ok, e
          <5>10. OpsOf(r) = o
            <6>1. [snap |-> t, past |-> SubSeq(e, 1, Len(r) + 1 - 1)] = [snap |-> t, past |-> o]
              BY <5>3, <5>5, <5>6, <5>7, <5>8
            <6>2. SubSeq(e, 1, Len(r) + 1 - 1) = o
              BY <6>1
            <6>3. QED
              BY <6>2, <5>9
          <5>11. t \o (o \o SubSeq(q, 1, n)) = (t \o o) \o SubSeq(q, 1, n)
            <6> DEFINE z == SubSeq(q, 1, n)
            <6>1. z \in Seq(Ops)
              BY <3>5
            <6> HIDE DEF z
            <6>2. t \o (o \o z) = (t \o o) \o z
              BY <6>1, JoinAssoc, Zenon
            <6>3. QED
              BY <6>2 DEF z
          <5>12. QED
            BY <5>2, <5>10, <5>11, <4>3, <3>1, <3>4
        <4>4. QED
          BY <4>2, <4>3
      <3>9. QED
        BY <3>7, <3>8
    <2>6. QED
      BY <2>4, <2>5
  <1>11. QED
    BY <1>5, <1>9, <1>10 DEF rs

\* A log that ends with the end of a batch holds that batch, or is damaged.
LEMMA BatchFits ==
  ASSUME NEW o \in Seq(Ops), NEW t \in Seq(Ops), NEW s \in Seq(Ops), NEW rs \in Seq(Recs),
         NEW b \in Seq(Recs), b # <<>>, rs # <<>>,
         Fits(s, rs, t, o), Follows(b, o, t), rs[Len(rs)] = b[Len(b)]
  PROVE  Fits(s, rs, t, o \o OpsOf(b)) /\ Finds(s, rs, {(t \o o) \o OpsOf(b)})
  <1> DEFINE q == OpsOf(b)
             w == o \o q
             e == OpsOf(rs)
  <1>1. Len(rs) \in Nat /\ Len(b) \in Nat /\ Len(o) \in Nat /\ Len(rs) > 0 /\ Len(b) > 0
    BY LenProperties, NotEmpty
  <1>2. q \in Seq(Ops) /\ Len(q) = Len(b)
    BY OpsOfFacts
  <1>3. w \in Seq(Ops) /\ Len(w) = Len(o) + Len(b)
    <2> HIDE DEF q
    <2>1. o \o q \in Seq(Ops) /\ Len(o \o q) = Len(o) + Len(q)
      BY <1>2, ConcatProperties
    <2>2. QED
      BY <2>1, <1>2
  <1>4. e \in Seq(Ops) /\ Len(e) = Len(rs)
    BY OpsOfFacts
  <1>5. rs[Len(rs)].whole /\ Len(b) \in 1..Len(b) /\ Len(rs) \in 1..Len(rs)
    <2>1. Len(b) \in 1..Len(b) /\ Len(rs) \in 1..Len(rs)
      BY <1>1
    <2>2. b[Len(b)].whole
      BY <2>1 DEF Follows
    <2>3. QED
      BY <2>1, <2>2
  <1>6. ASSUME NEW h \in Seq(Ops), ~Corrupt(rs, SeedOf(h))
        PROVE  WholePart(rs) = rs /\ rs = Run(e, h)
    <2>1. Len(rs) <= Len(WholePart(rs)) + 1 /\ WholePart(rs) = Run(OpsOf(WholePart(rs)), h)
      BY <1>6, RecoverFacts
    <2>2. PICK n \in 0..Len(rs) :
            /\ WholePart(rs) = SubSeq(rs, 1, n) /\ Len(WholePart(rs)) = n
            /\ (n < Len(rs) => ~rs[n + 1].whole)
      BY WholeFacts
    <2>3. n = Len(rs)
      <3>1. n < Len(rs) => n + 1 = Len(rs)
        BY <2>1, <2>2, <1>1
      <3>2. QED
        BY <3>1, <2>2, <1>1, <1>5
    <2>4. SubSeq(rs, 1, Len(rs)) = rs
      BY SubSeqFull
    <2>5. QED
      BY <2>1, <2>2, <2>3, <2>4
  <1>7. ASSUME ~Corrupt(rs, SeedOf(t))
        PROVE  e = w
    <2>1. rs = Run(e, t)
      BY <1>6, <1>7
    <2>2. /\ Run(e, t)[Len(rs)].prev = [snap |-> t, past |-> SubSeq(e, 1, Len(rs) - 1)]
          /\ Run(e, t)[Len(rs)].op = e[Len(rs)]
      <3> HIDE DEF e
      <3>1. Len(rs) \in 1..Len(e)
        BY <1>4, <1>5
      <3>2. e \in Seq(Ops) /\ t \in Seq(Ops)
        BY <1>4
      <3>3. \A i \in 1..Len(e) :
              Run(e, t)[i].prev = [snap |-> t, past |-> SubSeq(e, 1, i - 1)] /\ Run(e, t)[i].op = e[i]
        BY <3>2, RunFacts
      <3>4. QED
        BY <3>1, <3>3
    <2>3. b[Len(b)].prev = [snap |-> t, past |-> o \o SubSeq(q, 1, Len(b) - 1)]
      BY <1>5 DEF Follows
    <2>4. b[Len(b)].op = q[Len(b)]
      BY <1>5, OpsOfFacts
    <2>5. o \o SubSeq(q, 1, Len(b) - 1) = SubSeq(w, 1, Len(o) + (Len(b) - 1))
      <3>1. Len(b) - 1 \in 0..Len(q)
        BY <1>1, <1>2
      <3>2. QED
        BY <3>1, <1>2, JoinMore
    <2>6. q[Len(b)] = w[Len(o) + Len(b)] /\ Len(o) + Len(b) \in 1..Len(w)
      <3>1. \A i \in 1..(Len(o) + Len(q)) : w[i] = IF i <= Len(o) THEN o[i] ELSE q[i - Len(o)]
        BY <1>2, ConcatProperties
      <3>2. /\ Len(o) + Len(b) \in 1..(Len(o) + Len(q)) /\ ~(Len(o) + Len(b) <= Len(o))
            /\ Len(o) + Len(b) - Len(o) = Len(b) /\ Len(o) + Len(b) \in 1..Len(w)
        BY <1>1, <1>2, <1>3
      <3>3. QED
        BY <3>1, <3>2
    <2> DEFINE x == SubSeq(e, 1, Len(rs) - 1)
               y == SubSeq(w, 1, Len(o) + Len(b) - 1)
    <2>7. x = y /\ e[Len(rs)] = w[Len(o) + Len(b)]
      <3>1. Len(o) + (Len(b) - 1) = Len(o) + Len(b) - 1
        BY <1>1
      <3> HIDE DEF e, w, q
      <3>2. y = SubSeq(w, 1, Len(o) + (Len(b) - 1))
        BY <3>1
      <3>3. [snap |-> t, past |-> x] = [snap |-> t, past |-> y]
        BY <3>2, <2>1, <2>2, <2>3, <2>5
      <3>4. x = y
        BY <3>3
      <3>5. e[Len(rs)] = q[Len(b)]
        BY <2>1, <2>2, <2>4
      <3>6. QED
        BY <3>4, <3>5, <2>6
    <2>8. Append(x, e[Len(rs)]) = e
      <3>1. Append(x, e[Len(rs)]) = SubSeq(e, 1, Len(rs))
        BY <1>4, <1>5, FirstGrows
      <3>2. SubSeq(e, 1, Len(e)) = e
        BY <1>4, SubSeqFull
      <3>3. QED
        BY <3>1, <3>2, <1>4
    <2>9. Append(y, w[Len(o) + Len(b)]) = w
      <3>1. Append(y, w[Len(o) + Len(b)]) = SubSeq(w, 1, Len(o) + Len(b))
        BY <1>3, <2>6, FirstGrows
      <3>2. SubSeq(w, 1, Len(w)) = w
        BY <1>3, SubSeqFull
      <3>3. QED
        BY <3>1, <3>2, <1>3
    <2>10. QED
      BY <2>7, <2>8, <2>9
  <1>8. Extends(w, w)
    BY <1>1, <1>3 DEF Extends, Agree
  <1>9. Fits(s, rs, t, w)
    <2>1. rs[1].whole \/ Len(rs) > 1
      BY <1>1, <1>5
    <2>2. ~Corrupt(rs, SeedOf(t)) => Extends(OpsOf(WholePart(rs)), w)
      BY <1>6, <1>7, <1>8
    <2> HIDE DEF w
    <2>3. QED
      BY <2>1, <2>2 DEF Fits
  <1>10. Finds(s, rs, {(t \o o) \o q})
    <2>1. SUFFICES ASSUME ~Corrupt(rs, SeedOf(s))
                   PROVE  s \o OpsOf(WholePart(rs)) = (t \o o) \o q
      BY DEF Finds
    <2>2. WholePart(rs) = rs
      BY <2>1, <1>6
    <2>3. s = t
      BY <2>1, <2>2, StrayFits
    <2>4. s \o OpsOf(WholePart(rs)) = t \o w
      BY <2>1, <2>2, <2>3, <1>7
    <2>5. t \o (o \o q) = (t \o o) \o q
      <3> HIDE DEF q
      <3>1. QED
        BY <1>2, JoinAssoc, Zenon
    <2>6. QED
      BY <2>4, <2>5
  <1>11. QED
    BY <1>9, <1>10

\* What survives of a file with more at its end is what survived before, or the file and a
\* piece of it.
LEMMA JoinSurvivors ==
  ASSUME NEW r \in Seq(Recs), NEW b \in Seq(Recs), NEW k \in 0..Len(r),
         NEW rs \in Survivors(LogFile(r \o b, k))
  PROVE  \/ rs \in Survivors(LogFile(r, k))
         \/ \E n \in 0..Len(b) : \E p \in Seq(Recs) : Piece(b, n, p) /\ rs = r \o p
  <1> DEFINE c == r \o b
  <1>1. Len(r) \in Nat /\ Len(b) \in Nat
    BY LenProperties
  <1>2. /\ c \in Seq(Recs) /\ Len(c) = Len(r) + Len(b)
        /\ \A i \in 1..(Len(r) + Len(b)) : c[i] = IF i <= Len(r) THEN r[i] ELSE b[i - Len(r)]
    BY ConcatProperties
  <1>3. \A n \in 0..Len(r) : SubSeq(c, 1, n) = SubSeq(r, 1, n)
    BY JoinFirst
  <1>4. \A n \in 0..Len(b) : SubSeq(c, 1, Len(r) + n) = r \o SubSeq(b, 1, n)
    BY JoinMore
  <1>5. \A n \in 0..Len(b) : SubSeq(b, 1, n) \in Seq(Recs)
    BY FirstFacts
  <1> HIDE DEF c
  <1>6. \/ \E n \in k..Len(c) : rs = SubSeq(c, 1, n)
        \/ \E n \in k..(Len(c) - 1) : rs = Append(SubSeq(c, 1, n), Torn(c[n + 1]))
    BY DEF Survivors, LogFile, c
  <1>7. ASSUME NEW n \in k..Len(c), rs = SubSeq(c, 1, n)
        PROVE  \/ rs \in Survivors(LogFile(r, k))
               \/ \E m \in 0..Len(b) : \E p \in Seq(Recs) : Piece(b, m, p) /\ rs = r \o p
    <2>1. CASE n <= Len(r)
      <3>1. n \in k..Len(r) /\ n \in 0..Len(r)
        BY <2>1, <1>1, <1>2
      <3>2. QED
        BY <3>1, <1>3, <1>7 DEF Survivors, LogFile
    <2>2. CASE ~(n <= Len(r))
      <3>1. n - Len(r) \in 0..Len(b) /\ Len(r) + (n - Len(r)) = n
        BY <2>2, <1>1, <1>2
      <3>2. rs = r \o SubSeq(b, 1, n - Len(r))
        BY <3>1, <1>4, <1>7
      <3>3. QED
        BY <3>1, <3>2, <1>5 DEF Piece
    <2>3. QED
      BY <2>1, <2>2
  <1>8. ASSUME NEW n \in k..(Len(c) - 1), rs = Append(SubSeq(c, 1, n), Torn(c[n + 1]))
        PROVE  \/ rs \in Survivors(LogFile(r, k))
               \/ \E m \in 0..Len(b) : \E p \in Seq(Recs) : Piece(b, m, p) /\ rs = r \o p
    <2>1. CASE n < Len(r)
      <3>1. n \in k..(Len(r) - 1) /\ n \in 0..Len(r) /\ c[n + 1] = r[n + 1]
        BY <2>1, <1>1, <1>2
      <3>2. rs = Append(SubSeq(r, 1, n), Torn(r[n + 1]))
        BY <3>1, <1>3, <1>8
      <3>3. QED
        BY <3>1, <3>2 DEF Survivors, LogFile
    <2>2. CASE ~(n < Len(r))
      <3> DEFINE m == n - Len(r)
      <3>1. m \in 0..Len(b) /\ m < Len(b) /\ Len(r) + m = n /\ c[n + 1] = b[m + 1]
        <4>1. /\ m \in 0..Len(b) /\ m < Len(b) /\ Len(r) + m = n
              /\ n + 1 \in 1..(Len(r) + Len(b)) /\ ~(n + 1 <= Len(r)) /\ n + 1 - Len(r) = m + 1
          BY <2>2, <1>1, <1>2
        <4>2. QED
          BY <4>1, <1>2
      <3> HIDE DEF m
      <3>2. b[m + 1] \in Recs
        BY <3>1, <1>1, ElementOfSeq
      <3>3. Torn(b[m + 1]) \in Recs
        BY <3>2, TornFacts
      <3>4. SubSeq(c, 1, n) = r \o SubSeq(b, 1, m) /\ SubSeq(b, 1, m) \in Seq(Recs)
        BY <3>1, <1>4, <1>5
      <3>5. rs = r \o Append(SubSeq(b, 1, m), Torn(b[m + 1]))
        <4> DEFINE x == Torn(b[m + 1])
                   d == SubSeq(b, 1, m)
        <4>1. rs = Append(r \o d, x)
          BY <3>1, <3>4, <1>8
        <4>2. x \in Recs /\ d \in Seq(Recs)
          BY <3>3, <3>4
        <4> HIDE DEF x, d
        <4>3. r \o Append(d, x) = Append(r \o d, x)
          BY <4>2, JoinAppend
        <4>4. QED
          BY <4>1, <4>3 DEF x, d
      <3>6. Append(SubSeq(b, 1, m), Torn(b[m + 1])) \in Seq(Recs)
        BY <3>3, <3>4, AppendProperties
      <3>7. QED
        BY <3>1, <3>5, <3>6 DEF Piece
    <2>3. QED
      BY <2>1, <2>2
  <1>9. QED
    BY <1>6, <1>7, <1>8

\* A piece of a piece with a torn end is a piece of the whole.
LEMMA TornPiece ==
  ASSUME NEW b \in Seq(Recs), NEW n \in 0..(Len(b) - 1), NEW c,
         c = Append(SubSeq(b, 1, n), Torn(b[n + 1]))
  PROVE  /\ c \in Seq(Recs) /\ Len(c) = n + 1
         /\ \A m \in 0..Len(c) : \A p : Piece(c, m, p) => \E k \in 0..n : Piece(b, k, p)
  <1> DEFINE d == SubSeq(b, 1, n)
             x == Torn(b[n + 1])
  <1>1. Len(b) \in Nat /\ n \in 0..Len(b) /\ n + 1 \in 1..Len(b) /\ n < Len(b)
    BY LenProperties
  <1>2. d \in Seq(Recs) /\ Len(d) = n /\ \A i \in 1..n : d[i] = b[i]
    BY <1>1, FirstFacts
  <1>3. x \in Recs /\ Torn(x) = x
    BY <1>1, ElementOfSeq, TornFacts
  <1>4. c = Append(d, x)
    OBVIOUS
  <1> HIDE DEF d, x
  <1>5. /\ c \in Seq(Recs) /\ Len(c) = n + 1
        /\ \A i \in 1..n : c[i] = d[i]
        /\ c[n + 1] = x
    BY <1>2, <1>3, <1>4, AppendProperties
  <1>6. \A m \in 0..n : SubSeq(c, 1, m) = SubSeq(b, 1, m)
    <2>1. TAKE m \in 0..n
    <2>2. /\ SubSeq(c, 1, m) \in Seq(Recs) /\ Len(SubSeq(c, 1, m)) = m
          /\ \A i \in 1..m : SubSeq(c, 1, m)[i] = c[i]
      <3>1. m \in 0..Len(c)
        BY <1>5
      <3>2. QED
        BY <3>1, <1>5, FirstFacts
    <2>3. /\ SubSeq(b, 1, m) \in Seq(Recs) /\ Len(SubSeq(b, 1, m)) = m
          /\ \A i \in 1..m : SubSeq(b, 1, m)[i] = b[i]
      <3>1. m \in 0..Len(b)
        BY <1>1
      <3>2. QED
        BY <3>1, FirstFacts
    <2>4. \A i \in 1..m : c[i] = b[i]
      BY <1>2, <1>5
    <2>5. QED
      BY <2>2, <2>3, <2>4, SeqEqual
  <1>7. ASSUME NEW m \in 0..Len(c), NEW p, Piece(c, m, p)
        PROVE  \E k \in 0..n : Piece(b, k, p)
    <2>1. CASE p = SubSeq(c, 1, m) /\ m <= n
      <3>1. m \in 0..n
        BY <2>1, <1>1
      <3>2. QED
        BY <2>1, <3>1, <1>6 DEF Piece
    <2>2. CASE p = SubSeq(c, 1, m) /\ ~(m <= n)
      <3>1. m = Len(c)
        BY <2>2, <1>1, <1>5
      <3>2. p = c
        BY <2>2, <3>1, <1>5, SubSeqFull
      <3>3. n \in 0..n
        BY <1>1
      <3>4. QED
        BY <3>2, <3>3, <1>1 DEF Piece
    <2>3. CASE m < Len(c) /\ p = Append(SubSeq(c, 1, m), Torn(c[m + 1]))
      <3>1. m \in 0..n /\ SubSeq(c, 1, m) = SubSeq(b, 1, m) /\ m < Len(b)
        BY <2>3, <1>1, <1>5, <1>6
      <3>2. Torn(c[m + 1]) = Torn(b[m + 1])
        <4>1. CASE m < n
          <5>1. m + 1 \in 1..n
            BY <4>1, <3>1
          <5>2. QED
            BY <5>1, <1>2, <1>5
        <4>2. CASE ~(m < n)
          <5>1. m = n
            BY <4>2, <3>1, <1>1
          <5>2. QED
            BY <5>1, <1>3, <1>5 DEF x
        <4>3. QED
          BY <4>1, <4>2
      <3>3. QED
        BY <2>3, <3>1, <3>2 DEF Piece
    <2>4. QED
      BY <1>7, <2>1, <2>2, <2>3 DEF Piece
  <1>8. QED
    BY <1>5, <1>7

LEMMA SurvivorFacts ==
  ASSUME NEW f \in Files
  PROVE  /\ Survivors(f) \subseteq Seq(Recs) /\ f.recs \in Survivors(f)
         /\ f.synced = Len(f.recs) => Survivors(f) = {f.recs}
  <1>1. f.recs \in Seq(Recs) /\ f.synced \in Nat /\ f.synced <= Len(f.recs) /\ Len(f.recs) \in Nat
    BY LenProperties DEF Files
  <1> DEFINE r == f.recs
             k == f.synced
  <1>2. Survivors(f) = {SubSeq(r, 1, n) : n \in k..Len(r)} \cup
                       {Append(SubSeq(r, 1, n), Torn(r[n + 1])) : n \in k..(Len(r) - 1)}
    BY DEF Survivors
  <1>3. r \in Seq(Recs) /\ k \in Nat /\ k <= Len(r) /\ Len(r) \in Nat
    BY <1>1
  <1> HIDE DEF r, k
  <1>4. SubSeq(r, 1, Len(r)) = r
    BY <1>3, SubSeqFull
  <1>5. ASSUME NEW n \in k..Len(r)
        PROVE  SubSeq(r, 1, n) \in Seq(Recs)
    <2>1. n \in 0..Len(r)
      BY <1>3
    <2>2. QED
      BY <2>1, <1>3, FirstFacts
  <1>6. ASSUME NEW n \in k..(Len(r) - 1)
        PROVE  Append(SubSeq(r, 1, n), Torn(r[n + 1])) \in Seq(Recs)
    <2>1. n + 1 \in 1..Len(r) /\ n \in k..Len(r)
      BY <1>3
    <2>2. Torn(r[n + 1]) \in Recs
      BY <2>1, <1>3, ElementOfSeq, TornFacts
    <2>3. QED
      BY <2>1, <2>2, <1>5, AppendProperties
  <1>7. Survivors(f) \subseteq Seq(Recs)
    BY <1>2, <1>5, <1>6
  <1>8. r \in Survivors(f)
    <2>1. Len(r) \in k..Len(r)
      BY <1>3
    <2>2. QED
      BY <2>1, <1>2, <1>4
  <1>9. ASSUME k = Len(r)
        PROVE  Survivors(f) = {r}
    <2>1. k..(Len(r) - 1) = {} /\ k..Len(r) = {Len(r)}
      BY <1>9, <1>3
    <2>2. QED
      BY <2>1, <1>2, <1>4
  <1>10. QED
    BY <1>7, <1>8, <1>9 DEF r, k

-----------------------------------------------------------------------------
(* The invariant, of behaviours in which risk is not met. *)

Under == seed.snap
Listed == OpsOf(entries)
Possible == {promised} \cup maybe

\* The images a recovery may find: the disk as it is, for a kill, and without risk what a
\* power loss may leave.
LeftOf(d) == {<<Loaded(d), rs>> : rs \in Survivors(d.log)}

ImagesOf(d, u, k) ==
  {<<Loaded(d), d.log.recs>>} \cup
  UNION {LeftOf(e) : e \in IF k = "none" THEN {d} \cup u ELSE {}}

Images == ImagesOf(dir, undone, risk)

StorageTypes ==
  /\ dir \in Dirs /\ undone \in SUBSET Dirs
  /\ entries \in Seq(Recs) /\ seed \in Hashes /\ base \in Nat
  /\ state \in Seq(Ops) /\ commit \in Nat
  /\ phase \in {"up", "down", "refused"}
  /\ promised \in Seq(Ops) /\ maybe \in SUBSET Seq(Ops)
  /\ named = TRUE /\ risk \in {"none", "open"}

\* The list and its snapshot are what the last call that succeeded left.
ListInv ==
  phase = "up" =>
    /\ entries = Run(Listed, Under) /\ seed = SeedOf(Under) /\ base = Len(Under)
    /\ promised = Under \o Listed /\ base <= commit

\* The state machine has a first part of it, between calls and until a snapshot is taken.
StateInv ==
  phase = "up" /\ call.pc # "replaced" /\ (call.pc = "rewrite" => call.seed = seed) =>
    base <= Len(state) /\ Len(state) <= commit /\ Extends(promised, state)

\* Every image fits the node, as long as its log is the node's.
DiskInv ==
  phase = "up" /\ call.pc # "replaced" =>
    /\ risk = "none" => \A d \in undone : d.log = dir.log
    /\ \A im \in Images : Fits(im[1], im[2], Under, Listed)

\* A recovery finds what was promised or is possible.
FoundInv ==
  phase # "refused" => \A im \in Images : Finds(im[1], im[2], Possible)

\* What is possible has what is committed.
KeepInv ==
  /\ commit <= Len(promised)
  /\ \A c \in maybe : Agree(c, promised, commit)

Writing ==
  /\ call \in [pc : {"written"}, recs : Seq(Recs)]
  /\ call.recs # <<>> /\ Follows(call.recs, Listed, Under)
  /\ promised \o OpsOf(call.recs) \in maybe
  /\ dir.log.recs # <<>> /\ dir.log.recs[Len(dir.log.recs)] = call.recs[Len(call.recs)]

Snapshotting ==
  /\ call \in [pc : {"save", "place", "saved"}, ops : Seq(Ops), goal : Seq(Ops)]
  /\ Len(call.ops) > base /\ Extends(call.ops, Under)
  /\ call.goal = call.ops \o SubSeq(promised, Len(call.ops) + 1, Len(promised))
  /\ call.goal \in Possible
  /\ call.pc = "saved" => Loaded(dir) = call.ops

\* The snapshot that goes with the new log is there, or a newer one that is possible
\* should the log be empty.
Replaces(d, t, rs) ==
  \/ Loaded(d) = t
  \/ Len(Loaded(d)) > Len(t) /\ Extends(Loaded(d), t) /\ (rs = <<>> => Loaded(d) \in maybe)

Replacing ==
  /\ call \in [pc : {"rewrite", "replaced"}, recs : Seq(Recs), seed : Hashes, base : Nat,
               goal : Seq(Ops)]
  /\ call.seed = SeedOf(call.seed.snap) /\ call.base = Len(call.seed.snap)
  /\ call.recs = Run(OpsOf(call.recs), call.seed.snap)
  /\ call.goal = call.seed.snap \o OpsOf(call.recs) /\ call.goal \in Possible
  /\ call.base <= Len(state) /\ (Len(state) <= commit \/ Len(state) <= call.base)
  /\ Extends(call.goal, state)
  /\ \A d \in Shown : Replaces(d, call.seed.snap, call.recs)
  /\ call.pc = "replaced" => dir.log = LogFile(call.recs, Len(call.recs))

CallInv ==
  IF phase = "up" THEN call = Idle \/ Writing \/ Snapshotting \/ Replacing ELSE call = Idle

StorageInv ==
  StorageTypes /\ ListInv /\ StateInv /\ DiskInv /\ FoundInv /\ KeepInv /\ CallInv

\* A step of DurableLog, with what is promised as the content.
AbstractStep ==
  \/ /\ phase = "up" /\ UNCHANGED <<promised, commit, phase>> /\ maybe \subseteq maybe'
  \/ /\ phase = "up" /\ promised' \in Possible /\ maybe' \subseteq maybe
     /\ commit' >= commit /\ commit' <= Len(promised') /\ UNCHANGED phase
  \/ /\ phase = "up" /\ commit' > commit /\ commit' <= Len(promised)
     /\ maybe' \subseteq maybe /\ UNCHANGED <<promised, phase>>
  \/ phase = "up" /\ phase' = "down" /\ UNCHANGED <<promised, commit, maybe>>
  \/ /\ phase = "down" /\ phase' = "up" /\ promised' \in Possible
     /\ Agree(promised', promised, commit) /\ commit' <= Len(promised') /\ maybe' = {}
  \/ phase = "down" /\ phase' = "refused" /\ UNCHANGED <<promised, commit, maybe>>

LEMMA ImagesAre ==
  ASSUME NEW d, NEW u, NEW k, NEW im
  PROVE  im \in ImagesOf(d, u, k) <=>
           \/ im = <<Loaded(d), d.log.recs>>
           \/ k = "none" /\ \E e \in {d} \cup u : \E rs \in Survivors(e.log) : im = <<Loaded(e), rs>>
  BY DEF ImagesOf, LeftOf

LEMMA LoadedFacts ==
  ASSUME NEW d \in Dirs
  PROVE  /\ Loaded(d) \in Seq(Ops) /\ d.log \in Files /\ d.log.recs \in Seq(Recs)
         /\ d.log.synced \in Nat /\ d.log.synced <= Len(d.log.recs)
         /\ d.cur \in Snaps /\ d.prev \in Snaps
  <1>1. d.log \in Files /\ d.cur \in Snaps /\ d.prev \in Snaps
    BY DEF Dirs
  <1>2. d.cur.ops \in Seq(Ops) /\ d.prev.ops \in Seq(Ops)
    BY <1>1 DEF Snaps
  <1>3. QED
    BY <1>1, <1>2 DEF Loaded, Files

LEMMA ImageTypes ==
  ASSUME NEW d \in Dirs, NEW u \in SUBSET Dirs, NEW k, NEW im \in ImagesOf(d, u, k)
  PROVE  im[1] \in Seq(Ops) /\ im[2] \in Seq(Recs) /\ im = <<im[1], im[2]>>
  <1>1. CASE im = <<Loaded(d), d.log.recs>>
    BY <1>1, LoadedFacts
  <1>2. CASE \E e \in {d} \cup u : \E rs \in Survivors(e.log) : im = <<Loaded(e), rs>>
    <2>1. PICK e \in {d} \cup u : \E rs \in Survivors(e.log) : im = <<Loaded(e), rs>>
      BY <1>2
    <2>2. e \in Dirs /\ \A rs \in Survivors(e.log) : rs \in Seq(Recs)
      BY LoadedFacts, SurvivorFacts
    <2>3. QED
      BY <2>1, <2>2, LoadedFacts
  <1>3. QED
    BY <1>1, <1>2, ImagesAre

\* A log that is written, under every name it has.
LEMMA SetLogFacts ==
  ASSUME StorageTypes, NEW f \in Files, SetLog(f)
  PROVE  /\ dir' \in Dirs /\ undone' \in SUBSET Dirs /\ dir'.log = f /\ Loaded(dir') = Loaded(dir)
         /\ \A d \in undone' : \E e \in undone :
              /\ Loaded(d) = Loaded(e)
              /\ d.log = IF e.log = dir.log THEN f ELSE e.log
  <1>1. /\ dir' = [dir EXCEPT !.log = f]
        /\ undone' = {IF d.log = dir.log THEN [d EXCEPT !.log = f] ELSE d : d \in undone}
    BY DEF SetLog, StorageTypes
  <1>2. ASSUME NEW d \in Dirs
        PROVE  /\ [d EXCEPT !.log = f] \in Dirs /\ [d EXCEPT !.log = f].log = f
               /\ Loaded([d EXCEPT !.log = f]) = Loaded(d)
    <2> HIDE DEF Files, Snaps
    <2>1. /\ [d EXCEPT !.log = f] \in Dirs /\ [d EXCEPT !.log = f].log = f
          /\ [d EXCEPT !.log = f].cur = d.cur /\ [d EXCEPT !.log = f].prev = d.prev
      BY DEF Dirs
    <2>2. QED
      BY <2>1 DEF Loaded
  <1>3. dir \in Dirs /\ undone \in SUBSET Dirs
    BY DEF StorageTypes
  <1>4. QED
    BY <1>1, <1>2, <1>3

LEMMA AgreeFacts ==
  /\ \A c, d, e \in Seq(Ops), n \in Nat : Agree(c, d, n) /\ Agree(d, e, n) => Agree(c, e, n)
  /\ \A c, d \in Seq(Ops), n \in Nat : Agree(c, d, n) => Agree(d, c, n)
  /\ \A c, d \in Seq(Ops), n, m \in Nat : Agree(c, d, n) /\ m <= n => Agree(c, d, m)
  /\ \A c \in Seq(Ops), n \in Nat : n <= Len(c) => Agree(c, c, n)
  <1>1. \A c \in Seq(Ops) : Len(c) \in Nat
    BY LenProperties
  <1>2. QED
    BY <1>1 DEF Agree

LEMMA AgreeJoin ==
  ASSUME NEW a \in Seq(Ops), NEW b \in Seq(Ops), NEW n \in Nat, n <= Len(a)
  PROVE  Agree(a \o b, a, n) /\ Agree(a, a \o b, n) /\ a \o b \in Seq(Ops)
         /\ Len(a \o b) = Len(a) + Len(b)
  <1> DEFINE c == a \o b
  <1>1. Len(a) \in Nat /\ Len(b) \in Nat
    BY LenProperties
  <1>2. /\ c \in Seq(Ops) /\ Len(c) = Len(a) + Len(b)
        /\ \A i \in 1..(Len(a) + Len(b)) : c[i] = IF i <= Len(a) THEN a[i] ELSE b[i - Len(a)]
    BY ConcatProperties
  <1> HIDE DEF c
  <1>3. Agree(c, a, n) /\ Agree(a, c, n)
    BY <1>1, <1>2 DEF Agree
  <1>4. QED
    BY <1>2, <1>3 DEF c

LEMMA AgreeCut ==
  ASSUME NEW a \in Seq(Ops), NEW k \in 0..Len(a), NEW n \in Nat, n <= k
  PROVE  Agree(SubSeq(a, 1, k), a, n) /\ Agree(a, SubSeq(a, 1, k), n)
  <1>1. Len(a) \in Nat
    BY LenProperties
  <1>2. /\ Len(SubSeq(a, 1, k)) = k /\ \A i \in 1..k : SubSeq(a, 1, k)[i] = a[i]
    BY FirstFacts
  <1>3. QED
    BY <1>1, <1>2 DEF Agree

LEMMA LogFileFacts ==
  ASSUME NEW rs \in Seq(Recs), NEW n \in Nat, n <= Len(rs)
  PROVE  LogFile(rs, n) \in Files /\ LogFile(rs, n).recs = rs /\ LogFile(rs, n).synced = n
  <1> HIDE DEF Recs
  <1>1. QED
    BY DEF LogFile, Files

\* What holds of the node while it is up.
LEMMA UpFacts ==
  ASSUME StorageInv, phase = "up"
  PROVE  /\ Under \in Seq(Ops) /\ Listed \in Seq(Ops) /\ Len(Under) \in Nat /\ Len(Listed) \in Nat
         /\ Len(Listed) = Len(entries) /\ entries = Run(Listed, Under)
         /\ seed = SeedOf(Under) /\ base = Len(Under)
         /\ promised = Under \o Listed /\ Len(promised) = Len(Under) + Len(Listed)
         /\ base <= commit /\ commit <= Len(promised) /\ commit \in Nat /\ base \in Nat
         /\ Len(state) \in Nat
  <1>1. Under \in Seq(Ops)
    BY DEF StorageInv, StorageTypes, Hashes, Under
  <1>2. Listed \in Seq(Ops) /\ Len(Listed) = Len(entries)
    BY OpsOfFacts DEF StorageInv, StorageTypes, Listed
  <1>3. /\ entries = Run(Listed, Under) /\ seed = SeedOf(Under) /\ base = Len(Under)
        /\ promised = Under \o Listed /\ base <= commit /\ commit <= Len(promised)
    BY DEF StorageInv, ListInv, KeepInv
  <1>4. Len(Under \o Listed) = Len(Under) + Len(Listed)
    BY <1>1, <1>2, ConcatProperties
  <1>5. commit \in Nat /\ base \in Nat /\ Len(state) \in Nat /\ Len(Under) \in Nat /\ Len(Listed) \in Nat
    BY <1>1, <1>2, LenProperties DEF StorageInv, StorageTypes
  <1>6. QED
    BY <1>1, <1>2, <1>3, <1>4, <1>5

\* Between calls the node holds what was promised.
LEMMA HeldIsPromised ==
  ASSUME StorageInv, phase = "up", call.pc # "replaced", call.pc = "rewrite" => call.seed = seed
  PROVE  Held = promised
  <1>1. /\ base <= Len(state) /\ Extends(promised, state)
    BY DEF StorageInv, StateInv
  <1>2. state \in Seq(Ops)
    BY DEF StorageInv, StorageTypes
  <1>3. Content(state, Run(Listed, Under)) = Under \o Listed
    BY <1>1, <1>2, UpFacts, ContentOfRun
  <1>4. QED
    BY <1>3, UpFacts DEF Held

LEMMA IdleFacts ==
  /\ Idle.pc = "idle"
  /\ call = Idle => call.pc = "idle"
  BY DEF Idle

\* Which call is under way.
LEMMA CallIs ==
  ASSUME StorageInv, phase = "up"
  PROVE  /\ call.pc = "written" => Writing
         /\ call.pc \in {"save", "place", "saved"} => Snapshotting
         /\ call.pc \in {"rewrite", "replaced"} => Replacing
  <1>1. call = Idle \/ Writing \/ Snapshotting \/ Replacing
    BY DEF StorageInv, CallInv
  <1>2. Writing => call.pc = "written"
    BY DEF Writing
  <1>3. Snapshotting => call.pc \in {"save", "place", "saved"}
    BY DEF Snapshotting
  <1>4. Replacing => call.pc \in {"rewrite", "replaced"}
    BY DEF Replacing
  <1>5. QED
    BY <1>1, <1>2, <1>3, <1>4, IdleFacts

\* While the disk and the list are as they were.
LEMMA DiskFrame ==
  ASSUME StorageInv, UNCHANGED <<dir, undone, risk, entries, seed, phase, promised>>,
         maybe \subseteq maybe', call'.pc # "replaced" => call.pc # "replaced"
  PROVE  DiskInv' /\ FoundInv'
  <1>1. Images' = Images
    BY DEF Images
  <1>2. Under' = Under /\ Listed' = Listed /\ Possible \subseteq Possible'
    BY DEF Under, Listed, Possible
  <1>3. DiskInv'
    BY <1>1, <1>2 DEF StorageInv, DiskInv
  <1>4. FoundInv'
    BY <1>1, <1>2 DEF StorageInv, FoundInv, Finds
  <1>5. QED
    BY <1>3, <1>4

LEMMA ListFrame ==
  ASSUME StorageInv, UNCHANGED <<entries, seed, base, promised, commit, phase>>
  PROVE  ListInv'
  BY DEF StorageInv, ListInv, Under, Listed

\* The records append_batch takes follow the list.
LEMMA BatchFacts ==
  ASSUME StorageInv, phase = "up", call = Idle, NEW rs \in Batches
  PROVE  /\ rs \in Seq(Recs) /\ rs # <<>> /\ Follows(rs, Listed, Under)
         /\ \A n \in 0..Len(rs) :
              Prefixes(SubSeq(rs, 1, n)) = {promised \o SubSeq(OpsOf(rs), 1, m) : m \in 1..n}
  <1>1. Held = promised
    BY IdleFacts, HeldIsPromised
  <1>2. PICK n \in 1..2, b \in [1..2 -> Ops] :
          rs = Chained(Numbered(b, n), NextHash)
    BY DEF Batches
  <1> DEFINE R == [index : Nat, op : Ops]
             x == [i \in 1..n |-> [index |-> Len(promised) + i, op |-> b[i]]]
  <1>3. /\ x \in Seq(R) /\ Len(x) = n
        /\ \A i \in 1..n : x[i].index = Len(promised) + i
    <2>1. Len(promised) \in Nat
      BY UpFacts
    <2>2. x \in [1..n -> R]
      BY <2>1
    <2>3. \A i \in 1..n : x[i].index = Len(promised) + i
      OBVIOUS
    <2> HIDE DEF x, R
    <2>4. x \in Seq(R) /\ DOMAIN x = 1..n
      BY <2>2, SeqDef
    <2>5. Len(x) \in Nat /\ DOMAIN x = 1..Len(x)
      BY <2>4, LenProperties
    <2>6. Len(x) = n
      BY <2>4, <2>5, SameRange
    <2>7. QED
      BY <2>3, <2>4, <2>6
  <1>4. \A r \in R : r.op \in Ops /\ r.index \in Nat
    OBVIOUS
  <1>5. NextHash = [snap |-> Under, past |-> Listed]
    <2>1. CASE entries = <<>>
      <3>1. Listed = <<>>
        BY <2>1, UpFacts, EmptyRun DEF Listed
      <3>2. QED
        BY <2>1, <3>1, UpFacts DEF NextHash, SeedOf
    <2>2. CASE entries # <<>>
      <3>1. Len(Listed) \in 1..Len(Listed) /\ Len(entries) = Len(Listed)
        <4>1. Len(entries) > 0
          BY <2>2, NotEmpty DEF StorageInv, StorageTypes
        <4>2. QED
          BY <4>1, UpFacts
      <3>2. HashOf(Run(Listed, Under)[Len(Listed)]) =
              [snap |-> Under, past |-> SubSeq(Listed, 1, Len(Listed))]
        BY <3>1, UpFacts, RunHash
      <3>3. SubSeq(Listed, 1, Len(Listed)) = Listed
        BY UpFacts, SubSeqFull
      <3>4. QED
        BY <2>2, <3>1, <3>2, <3>3, UpFacts DEF NextHash
    <2>3. QED
      BY <2>1, <2>2
  <1>6. rs = Chained(x, [snap |-> Under, past |-> Listed])
    BY <1>1, <1>2, <1>5 DEF Numbered
  <1>7. \A i \in 1..Len(x) : x[i].index = Len(Under) + Len(Listed) + i
    BY <1>3, UpFacts
  <1> HIDE DEF x, R
  <1>8. /\ rs \in Seq(Recs) /\ Len(rs) = n /\ OpsOf(rs) = OpsOf(x)
        /\ \A i \in 1..n :
             rs[i].whole /\ rs[i].prev = [snap |-> Under, past |-> Listed \o SubSeq(OpsOf(x), 1, i - 1)]
    <2>1. LET c == Chained(x, [snap |-> Under, past |-> Listed])
          IN /\ c \in Seq(Recs) /\ Len(c) = Len(x) /\ OpsOf(c) = OpsOf(x)
             /\ \A i \in 1..Len(x) :
                  c[i].whole /\ c[i].prev = [snap |-> Under, past |-> Listed \o SubSeq(OpsOf(x), 1, i - 1)]
      BY <1>3, <1>4, <1>7, UpFacts, ChainedFacts
    <2>2. QED
      BY <2>1, <1>3, <1>6
  <1>9. rs # <<>>
    BY <1>8, NotEmpty
  <1>10. Follows(rs, Listed, Under)
    BY <1>8 DEF Follows
  <1>11. ASSUME NEW k \in 0..Len(rs)
         PROVE  Prefixes(SubSeq(rs, 1, k)) = {promised \o SubSeq(OpsOf(rs), 1, m) : m \in 1..k}
    <2> DEFINE y == SubSeq(rs, 1, k)
    <2>1. y \in Seq(Recs) /\ Len(y) = k
      BY <1>8, FirstFacts
    <2>2. \A m \in 1..k : OpsOf(SubSeq(y, 1, m)) = SubSeq(OpsOf(rs), 1, m)
      <3>1. TAKE m \in 1..k
      <3>2. m \in 0..k /\ m \in Nat /\ m <= Len(rs) /\ 1 <= m + 1 /\ 1 \in Nat \ {0}
        BY <1>8
      <3>3. SubSeq(y, 1, m) = SubSeq(rs, 1, m)
        BY <3>2, <1>8, CutOfCut
      <3>4. OpsOf(SubSeq(rs, 1, m)) = SubSeq(OpsOf(rs), 1, m)
        BY <3>2, <1>8, OpsOfCut
      <3>5. QED
        BY <3>3, <3>4
    <2> HIDE DEF y
    <2>3. Prefixes(y) = {promised \o SubSeq(OpsOf(rs), 1, m) : m \in 1..k}
      BY <2>1, <2>2, <1>1 DEF Prefixes
    <2>4. QED
      BY <2>3 DEF y
  <1>12. QED
    BY <1>8, <1>9, <1>10, <1>11
LEMMA RestFacts ==
  ASSUME NEW w \in Seq(Ops), NEW s \in Seq(Ops)
  PROVE  /\ SubSeq(w, Len(s) + 1, Len(w)) \in Seq(Ops)
         /\ Len(s) >= Len(w) => SubSeq(w, Len(s) + 1, Len(w)) = <<>>
         /\ Extends(w, s) => s \o SubSeq(w, Len(s) + 1, Len(w)) = w
  <1>1. Len(w) \in Nat /\ Len(s) \in Nat
    BY LenProperties
  <1> DEFINE d == SubSeq(w, Len(s) + 1, Len(w))
  <1>2. CASE Len(s) >= Len(w)
    <2>1. d = <<>> /\ <<>> \in Seq(Ops)
      BY <1>1, <1>2, SubSeqEmpty, EmptySeq
    <2>2. ASSUME Extends(w, s)
          PROVE  s = w
      <3>1. Len(s) = Len(w)
        BY <2>2, <1>1, <1>2 DEF Extends, Agree
      <3>2. QED
        BY <2>2, <3>1, <1>1, SeqEqual DEF Extends, Agree
    <2> HIDE DEF d
    <2>3. s \o <<>> = s
      BY ConcatEmptySeq
    <2>4. QED
      BY <2>1, <2>2, <2>3 DEF d
  <1>3. CASE ~(Len(s) >= Len(w))
    <2>1. /\ d \in Seq(Ops) /\ Len(d) = Len(w) - (Len(s) + 1) + 1
          /\ \A i \in 1..(Len(w) - (Len(s) + 1) + 1) : d[i] = w[Len(s) + 1 + i - 1]
      <3>1. Len(s) + 1 \in Nat \ {0} /\ Len(s) + 1 <= Len(w) + 1
        BY <1>1, <1>3
      <3>2. QED
        BY <3>1, <1>1, CutFacts
    <2> HIDE DEF d
    <2>2. Len(d) = Len(w) - Len(s)
      BY <2>1, <1>1
    <2>3. ASSUME Extends(w, s)
          PROVE  s \o d = w
      <3> DEFINE l == s \o d
      <3>1. /\ l \in Seq(Ops) /\ Len(l) = Len(s) + Len(d)
            /\ \A i \in 1..(Len(s) + Len(d)) : l[i] = IF i <= Len(s) THEN s[i] ELSE d[i - Len(s)]
        BY <2>1, ConcatProperties
      <3> HIDE DEF l
      <3>2. Len(l) = Len(w)
        BY <3>1, <2>2, <1>1
      <3>3. ASSUME NEW i \in 1..Len(w)
            PROVE  l[i] = w[i]
        <4>1. i \in 1..(Len(s) + Len(d))
          BY <2>2, <1>1
        <4>2. CASE i <= Len(s)
          BY <4>1, <4>2, <3>1, <2>3, <1>1 DEF Extends, Agree
        <4>3. CASE ~(i <= Len(s))
          <5>1. i - Len(s) \in 1..(Len(w) - (Len(s) + 1) + 1) /\ Len(s) + 1 + (i - Len(s)) - 1 = i
            BY <4>3, <1>1
          <5>2. d[i - Len(s)] = w[Len(s) + 1 + (i - Len(s)) - 1]
            BY <5>1, <2>1
          <5>3. QED
            BY <5>1, <5>2, <4>1, <4>3, <3>1
        <4>4. QED
          BY <4>2, <4>3
      <3>4. l = w
        BY <3>1, <3>2, <3>3, SeqEqual
      <3>5. QED
        BY <3>4 DEF l
    <2>4. QED
      BY <2>1, <2>3, <1>3 DEF d
  <1>4. QED
    BY <1>2, <1>3

\* Two sequences agree when their first parts are the same.
LEMMA AgreeIsCut ==
  ASSUME NEW c \in Seq(Ops), NEW d \in Seq(Ops), NEW n \in Nat, n <= Len(d)
  PROVE  Agree(c, d, n) <=> n <= Len(c) /\ SubSeq(c, 1, n) = SubSeq(d, 1, n)
  <1>1. Len(c) \in Nat /\ Len(d) \in Nat
    BY LenProperties
  <1>2. n \in 0..Len(d) /\ (n <= Len(c) => n \in 0..Len(c))
    BY <1>1
  <1>3. SubSeq(d, 1, n) \in Seq(Ops) /\ Len(SubSeq(d, 1, n)) = n /\ \A i \in 1..n : SubSeq(d, 1, n)[i] = d[i]
    BY <1>2, FirstFacts
  <1>4. n <= Len(c) =>
          SubSeq(c, 1, n) \in Seq(Ops) /\ Len(SubSeq(c, 1, n)) = n /\ \A i \in 1..n : SubSeq(c, 1, n)[i] = c[i]
    BY <1>2, FirstFacts
  <1>5. ASSUME Agree(c, d, n)
        PROVE  SubSeq(c, 1, n) = SubSeq(d, 1, n)
    <2>1. n <= Len(c) /\ \A i \in 1..n : c[i] = d[i]
      BY <1>5 DEF Agree
    <2>2. QED
      BY <2>1, <1>3, <1>4, SeqEqual
  <1>6. QED
    BY <1>1, <1>3, <1>4, <1>5 DEF Agree

\* The same operations in front keep an agreement.
LEMMA AgreeAfter ==
  ASSUME NEW t \in Seq(Ops), NEW a \in Seq(Ops), NEW o \in Seq(Ops), Extends(a, o)
  PROVE  Extends(t \o a, t \o o)
  <1>1. Len(t) \in Nat /\ Len(a) \in Nat /\ Len(o) \in Nat
    BY LenProperties
  <1> DEFINE x == t \o a
             y == t \o o
  <1>2. /\ Len(x) = Len(t) + Len(a)
        /\ \A i \in 1..(Len(t) + Len(a)) : x[i] = IF i <= Len(t) THEN t[i] ELSE a[i - Len(t)]
    BY ConcatProperties
  <1>3. /\ Len(y) = Len(t) + Len(o)
        /\ \A i \in 1..(Len(t) + Len(o)) : y[i] = IF i <= Len(t) THEN t[i] ELSE o[i - Len(t)]
    BY ConcatProperties
  <1> HIDE DEF x, y
  <1>4. Len(o) <= Len(a) /\ \A i \in 1..Len(o) : a[i] = o[i]
    BY DEF Extends, Agree
  <1>5. ASSUME NEW i \in 1..(Len(t) + Len(o))
        PROVE  x[i] = y[i]
    <2>1. i \in 1..(Len(t) + Len(a))
      BY <1>1, <1>4
    <2>2. CASE i <= Len(t)
      BY <2>1, <2>2, <1>2, <1>3
    <2>3. CASE ~(i <= Len(t))
      <3>1. i - Len(t) \in 1..Len(o)
        BY <2>3, <1>1
      <3>2. QED
        BY <3>1, <2>1, <2>3, <1>2, <1>3, <1>4
    <2>4. QED
      BY <2>2, <2>3
  <1>6. Extends(x, y)
    BY <1>1, <1>2, <1>3, <1>4, <1>5 DEF Extends, Agree
  <1>7. QED
    BY <1>6 DEF x, y

\* A log just written fits, whether its snapshot is there or a newer one.
LEMMA RunFits ==
  ASSUME NEW o \in Seq(Ops), NEW t \in Seq(Ops), NEW s \in Seq(Ops),
         s = t \/ (Len(s) > Len(t) /\ Extends(s, t))
  PROVE  /\ Fits(s, Run(o, t), t, o)
         /\ s = t => Finds(s, Run(o, t), {t \o o})
         /\ s # t => (~Corrupt(Run(o, t), SeedOf(s)) => o = <<>>) /\ Finds(s, Run(o, t), {s})
  <1>1. Len(o) \in Nat
    BY LenProperties
  <1>2. /\ Run(o, t) \in Seq(Recs) /\ Len(Run(o, t)) = Len(o) /\ OpsOf(Run(o, t)) = o
        /\ \A i \in 1..Len(o) :
             Run(o, t)[i].prev = [snap |-> t, past |-> SubSeq(o, 1, i - 1)] /\ Run(o, t)[i].whole
    BY RunFacts
  <1>3. WholePart(Run(o, t)) = Run(o, t)
    BY RunWhole
  <1>4. Run(o, t) # <<>> => Run(o, t)[1].prev = SeedOf(t) /\ Run(o, t)[1].whole
    <2>1. Run(o, t) # <<>> => 1 \in 1..Len(o)
      BY <1>1, <1>2, NotEmpty
    <2>2. SubSeq(o, 1, 1 - 1) = <<>>
      BY SubSeqEmpty
    <2>3. QED
      BY <2>1, <2>2, <1>2 DEF SeedOf
  <1>5. o # <<>> => Run(o, t) # <<>>
    BY <1>1, <1>2, NotEmpty
  <1>6. Extends(o, o)
    BY <1>1 DEF Extends, Agree
  <1>7. Fits(s, Run(o, t), t, o)
    BY <1>2, <1>3, <1>4, <1>5, <1>6 DEF Fits
  <1>8. s = t => Finds(s, Run(o, t), {t \o o})
    BY <1>2, <1>3 DEF Finds
  <1>9. ASSUME s # t, ~Corrupt(Run(o, t), SeedOf(s))
        PROVE  o = <<>> /\ s \o OpsOf(WholePart(Run(o, t))) = s
    BY <1>2, <1>7, <1>9, StrayFits
  <1>10. QED
    BY <1>7, <1>8, <1>9 DEF Finds
LEMMA LastIndexIs ==
  ASSUME StorageInv, phase = "up"
  PROVE  LastIndex = IF Listed = <<>> THEN 0 ELSE Len(promised)
  <1>1. Len(Listed) = Len(entries) /\ entries = Run(Listed, Under)
    BY UpFacts
  <1>2. CASE entries = <<>>
    <2>1. Listed = <<>>
      BY <1>2, UpFacts, EmptyRun DEF Listed
    <2>2. QED
      BY <2>1, <1>2 DEF LastIndex
  <1>3. CASE entries # <<>>
    <2>1. Len(entries) > 0
      BY <1>3, NotEmpty DEF StorageInv, StorageTypes
    <2>2. Listed # <<>> /\ Len(Listed) \in 1..Len(Listed)
      BY <2>1, UpFacts, NotEmpty
    <2>3. Run(Listed, Under)[Len(Listed)].index = Len(Under) + Len(Listed)
      BY <2>2, UpFacts, RunFacts
    <2>4. QED
      BY <1>1, <1>3, <2>2, <2>3, UpFacts DEF LastIndex
  <1>4. QED
    BY <1>2, <1>3

\* What the images are, while the node is up with its own log.
LEMMA ImageFacts ==
  ASSUME StorageInv, phase = "up", call.pc # "replaced", NEW im \in Images
  PROVE  /\ im[1] \in Seq(Ops) /\ im[2] \in Seq(Recs) /\ im = <<im[1], im[2]>>
         /\ Fits(im[1], im[2], Under, Listed) /\ Finds(im[1], im[2], Possible)
  <1>1. im[1] \in Seq(Ops) /\ im[2] \in Seq(Recs) /\ im = <<im[1], im[2]>>
    BY ImageTypes DEF Images, StorageInv, StorageTypes
  <1>2. Fits(im[1], im[2], Under, Listed)
    BY DEF StorageInv, DiskInv
  <1>3. Finds(im[1], im[2], Possible)
    BY DEF StorageInv, FoundInv
  <1>4. QED
    BY <1>1, <1>2, <1>3

\* What the next recovery may meet has an image.
LEMMA ShownImage ==
  ASSUME StorageTypes, NEW d \in Shown
  PROVE  d \in Dirs /\ <<Loaded(d), d.log.recs>> \in Images
  <1>1. d \in Dirs /\ d.log \in Files
    BY LoadedFacts DEF StorageTypes, Shown
  <1>2. d.log.recs \in Survivors(d.log)
    BY <1>1, SurvivorFacts
  <1>3. d = dir \/ (risk = "none" /\ d \in undone)
    BY DEF Shown
  <1>4. QED
    BY <1>1, <1>2, <1>3, ImagesAre DEF Images

LEMMA ShownFits ==
  ASSUME StorageInv, phase = "up", call.pc # "replaced", NEW d \in Shown
  PROVE  /\ Loaded(d) \in Seq(Ops)
         /\ Loaded(d) = Under \/ (Len(Loaded(d)) > Len(Under) /\ Extends(Loaded(d), Under))
  <1> DEFINE im == <<Loaded(d), d.log.recs>>
  <1>1. im \in Images
    BY ShownImage DEF StorageInv
  <1>2. im[1] = Loaded(d)
    OBVIOUS
  <1> HIDE DEF im
  <1>3. QED
    BY <1>1, <1>2, ImageFacts DEF Fits

\* A log that is written and synced: every image there is from then on was there before.
LEMMA SyncKeeps ==
  ASSUME StorageInv, phase = "up", call.pc # "replaced",
         SetLog(LogFile(dir.log.recs, Len(dir.log.recs))),
         risk' = "none" => risk = "none" \/ undone = {}
  PROVE  /\ dir' \in Dirs /\ undone' \in SUBSET Dirs /\ dir'.log.recs = dir.log.recs
         /\ Loaded(dir') = Loaded(dir)
         /\ risk' = "none" => \A d \in undone' : d.log = dir'.log
         /\ \A im \in Images' : im \in Images /\ im[2] = dir.log.recs
  <1> DEFINE r == dir.log.recs
             f == LogFile(r, Len(r))
  <1>1. dir \in Dirs /\ undone \in SUBSET Dirs /\ r \in Seq(Recs) /\ Len(r) \in Nat
    BY LoadedFacts, LenProperties DEF StorageInv, StorageTypes
  <1>2. f \in Files /\ f.recs = r /\ f.synced = Len(r)
    BY <1>1, LogFileFacts
  <1>3. /\ dir' \in Dirs /\ undone' \in SUBSET Dirs /\ dir'.log = f /\ Loaded(dir') = Loaded(dir)
        /\ \A d \in undone' : \E e \in undone :
             Loaded(d) = Loaded(e) /\ d.log = IF e.log = dir.log THEN f ELSE e.log
    BY <1>2, SetLogFacts DEF StorageInv
  <1>4. risk = "none" => \A e \in undone : e.log = dir.log
    BY DEF StorageInv, DiskInv
  <1>5. risk' = "none" => \A d \in undone' : d.log = f /\ risk = "none"
    BY <1>3, <1>4
  <1>6. Survivors(f) = {r}
    BY <1>2, SurvivorFacts
  <1>7. <<Loaded(dir), r>> \in Images
    BY ImagesAre DEF Images
  <1>8. dir'.log.recs = r
    BY <1>2, <1>3
  <1>9. ASSUME NEW im \in ImagesOf(dir', undone', risk')
        PROVE  im \in Images /\ im[2] = r
    <2>1. CASE im = <<Loaded(dir'), dir'.log.recs>>
      BY <2>1, <1>3, <1>7, <1>8
    <2>2. CASE risk' = "none" /\ \E e \in {dir'} \cup undone' : \E rs \in Survivors(e.log) : im = <<Loaded(e), rs>>
      <3>1. PICK e \in {dir'} \cup undone' : \E rs \in Survivors(e.log) : im = <<Loaded(e), rs>>
        BY <2>2
      <3>2. e.log = f
        BY <2>2, <3>1, <1>3, <1>5
      <3>3. im = <<Loaded(e), r>>
        BY <3>1, <3>2, <1>6
      <3>4. CASE e = dir'
        BY <3>3, <3>4, <1>3, <1>7
      <3>5. CASE e \in undone'
        <4>1. PICK g \in undone : Loaded(e) = Loaded(g)
          BY <3>5, <1>3
        <4>2. g.log = dir.log /\ g \in Shown
          BY <2>2, <3>5, <1>4, <1>5 DEF Shown
        <4>3. <<Loaded(g), g.log.recs>> \in Images
          BY <4>2, ShownImage DEF StorageInv
        <4>4. QED
          BY <3>3, <4>1, <4>2, <4>3
      <3>6. QED
        BY <3>4, <3>5
    <2>3. QED
      BY <2>1, <2>2, ImagesAre
  <1>10. Images' = ImagesOf(dir', undone', risk')
    BY DEF Images
  <1>11. QED
    BY <1>3, <1>5, <1>8, <1>9, <1>10

\* Bytes of records that follow the list, written behind the log.
LEMMA AppendKeeps ==
  ASSUME StorageInv, phase = "up", call.pc # "replaced",
         NEW c \in Seq(Recs), NEW rs \in Seq(Recs), NEW n \in 0..Len(rs),
         Follows(rs, Listed, Under),
         \A m \in 0..Len(c) : \A p : Piece(c, m, p) => \E k \in 0..n : Piece(rs, k, p),
         SetLog(Written(c)), UNCHANGED <<entries, seed, promised, phase, risk>>,
         maybe \subseteq maybe', \A k \in 1..n : promised \o SubSeq(OpsOf(rs), 1, k) \in maybe'
  PROVE  /\ dir' \in Dirs /\ undone' \in SUBSET Dirs /\ dir'.log.recs = dir.log.recs \o c
         /\ DiskInv' /\ FoundInv'
  <1> DEFINE r == dir.log.recs
             z == dir.log.synced
             f == LogFile(r \o c, z)
  <1>1. /\ dir \in Dirs /\ undone \in SUBSET Dirs /\ r \in Seq(Recs) /\ Len(r) \in Nat /\ z \in 0..Len(r)
        /\ dir.log = LogFile(r, z)
    BY LoadedFacts, LenProperties DEF StorageInv, StorageTypes, Files, LogFile
  <1>2. f \in Files /\ f.recs = r \o c /\ f.synced = z
    <2>1. r \o c \in Seq(Recs) /\ Len(r \o c) = Len(r) + Len(c) /\ Len(c) \in Nat
      BY <1>1, ConcatProperties, LenProperties
    <2>2. z \in Nat /\ z <= Len(r \o c)
      BY <2>1, <1>1
    <2>3. QED
      BY <2>1, <2>2, LogFileFacts
  <1>3. /\ dir' \in Dirs /\ undone' \in SUBSET Dirs /\ dir'.log = f /\ Loaded(dir') = Loaded(dir)
        /\ \A d \in undone' : \E e \in undone :
             Loaded(d) = Loaded(e) /\ d.log = IF e.log = dir.log THEN f ELSE e.log
    BY <1>2, SetLogFacts DEF StorageInv, Written
  <1>4. risk = "none" => \A e \in undone : e.log = dir.log
    BY DEF StorageInv, DiskInv
  <1>5. risk = "none" => \A d \in undone' : d.log = f
    BY <1>3, <1>4
  <1>6. \A s \in Seq(Ops), m \in 0..Len(c), p \in Seq(Recs) :
          <<s, r>> \in Images /\ Piece(c, m, p) =>
            Fits(s, r \o p, Under, Listed) /\ Finds(s, r \o p, Possible')
    <2>1. TAKE s \in Seq(Ops), m \in 0..Len(c), p \in Seq(Recs)
    <2>2. SUFFICES ASSUME <<s, r>> \in Images, Piece(c, m, p)
                   PROVE  Fits(s, r \o p, Under, Listed) /\ Finds(s, r \o p, Possible')
      OBVIOUS
    <2>3. PICK k \in 0..n : Piece(rs, k, p)
      BY <2>2
    <2>4. k \in 0..Len(rs)
      BY <2>3, LenProperties
    <2>5. Fits(s, r, Under, Listed) /\ Finds(s, r, Possible)
      <3> DEFINE im == <<s, r>>
      <3>1. im[1] = s /\ im[2] = r
        OBVIOUS
      <3>2. im \in Images
        BY <2>2
      <3> HIDE DEF im
      <3>3. QED
        BY <3>1, <3>2, ImageFacts
    <2>6. Finds(s, r, Possible')
      BY <2>5 DEF Finds, Possible
    <2>7. k > 0 => (Under \o Listed) \o SubSeq(OpsOf(rs), 1, k) \in Possible'
      <3>1. k > 0 => k \in 1..n
        BY <2>3
      <3>2. QED
        BY <3>1, UpFacts DEF Possible
    <2> HIDE DEF r, Possible
    <2>8. QED
      BY <2>3, <2>4, <2>5, <2>6, <2>7, <1>1, UpFacts, PieceFits
  <1>7. \A q \in Survivors(f) :
          \/ q \in Survivors(LogFile(r, z))
          \/ \E m \in 0..Len(c) : \E p \in Seq(Recs) : Piece(c, m, p) /\ q = r \o p
    <2>1. r \in Seq(Recs) /\ z \in 0..Len(r)
      BY <1>1
    <2> HIDE DEF r, z
    <2>2. QED
      BY <2>1, JoinSurvivors
  <1>8. ASSUME NEW im \in ImagesOf(dir', undone', risk)
        PROVE  Fits(im[1], im[2], Under, Listed) /\ Finds(im[1], im[2], Possible')
    <2>1. CASE im = <<Loaded(dir'), dir'.log.recs>>
      <3>1. im[1] = Loaded(dir) /\ im[2] = r \o c
        BY <2>1, <1>2, <1>3
      <3>2. <<Loaded(dir), r>> \in Images /\ Loaded(dir) \in Seq(Ops)
        BY <1>1, LoadedFacts, ImagesAre DEF Images
      <3>3. Piece(c, Len(c), c) /\ Len(c) \in 0..Len(c)
        BY SubSeqFull, LenProperties DEF Piece
      <3>4. QED
        BY <3>1, <3>2, <3>3, <1>6
    <2>2. CASE risk = "none" /\ \E e \in {dir'} \cup undone' : \E q \in Survivors(e.log) : im = <<Loaded(e), q>>
      <3>1. PICK e \in {dir'} \cup undone' : \E q \in Survivors(e.log) : im = <<Loaded(e), q>>
        BY <2>2
      <3>2. PICK g \in {dir} \cup undone : Loaded(e) = Loaded(g)
        BY <1>3, <3>1
      <3>3. g.log = dir.log /\ g \in Shown /\ e.log = f
        BY <2>2, <3>1, <3>2, <1>3, <1>4, <1>5 DEF Shown
      <3>4. PICK q \in Survivors(f) : im = <<Loaded(g), q>>
        BY <3>1, <3>2, <3>3
      <3>5. im[1] = Loaded(g) /\ im[2] = q
        BY <3>4
      <3>6. <<Loaded(g), r>> \in Images /\ Loaded(g) \in Seq(Ops)
        <4>1. g \in Dirs /\ <<Loaded(g), g.log.recs>> \in Images
          BY <3>3, ShownImage DEF StorageInv
        <4>2. g.log.recs = r
          BY <3>3
        <4>3. QED
          BY <4>1, <4>2, LoadedFacts
      <3>7. \/ q \in Survivors(LogFile(r, z))
            \/ \E m \in 0..Len(c) : \E p \in Seq(Recs) : Piece(c, m, p) /\ q = r \o p
        BY <3>4, <1>7
      <3>8. CASE q \in Survivors(LogFile(r, z))
        <4>1. im \in Images
          BY <2>2, <3>3, <3>4, <3>8, <1>1, ImagesAre DEF Images, Shown
        <4>2. Fits(im[1], im[2], Under, Listed) /\ Finds(im[1], im[2], Possible)
          BY <4>1, ImageFacts
        <4>3. QED
          BY <4>2 DEF Finds, Possible
      <3>9. CASE \E m \in 0..Len(c) : \E p \in Seq(Recs) : Piece(c, m, p) /\ q = r \o p
        BY <3>5, <3>6, <3>9, <1>6
      <3>10. QED
        BY <3>7, <3>8, <3>9
    <2>3. QED
      BY <2>1, <2>2, ImagesAre
  <1>9. Images' = ImagesOf(dir', undone', risk)
    BY DEF Images
  <1>10. Under' = Under /\ Listed' = Listed
    BY DEF Under, Listed
  <1>11. DiskInv'
    BY <1>3, <1>5, <1>8, <1>9, <1>10 DEF DiskInv
  <1>12. FoundInv'
    BY <1>8, <1>9 DEF FoundInv
  <1>13. QED
    BY <1>2, <1>3, <1>11, <1>12
-----------------------------------------------------------------------------
(* Each step keeps the invariant and is one of DurableLog. *)

\* append_batch may leave the first records of its batch.
LEMMA WriteBatchStep ==
  ASSUME StorageInv, WriteBatch
  PROVE  StorageInv' /\ AbstractStep
  <1>1. phase = "up" /\ call = Idle /\ call.pc = "idle"
    BY IdleFacts DEF WriteBatch, Calling
  <1>2. PICK rs \in Batches :
          /\ SetLog(Written(rs)) /\ call' = [pc |-> "written", recs |-> rs]
          /\ maybe' = maybe \cup Prefixes(rs)
    BY DEF WriteBatch
  <1>3. UNCHANGED <<entries, seed, base, state, commit, phase, promised, named, risk>>
    BY DEF WriteBatch, memory
  <1>4. /\ rs \in Seq(Recs) /\ rs # <<>> /\ Follows(rs, Listed, Under)
        /\ \A n \in 0..Len(rs) :
             Prefixes(SubSeq(rs, 1, n)) = {promised \o SubSeq(OpsOf(rs), 1, m) : m \in 1..n}
    BY <1>1, BatchFacts
  <1>5. /\ Len(rs) \in Nat /\ Len(rs) > 0 /\ SubSeq(rs, 1, Len(rs)) = rs
        /\ OpsOf(rs) \in Seq(Ops) /\ Len(OpsOf(rs)) = Len(rs)
    BY <1>4, NotEmpty, LenProperties, SubSeqFull, OpsOfFacts
  <1>6. maybe' = maybe \cup {promised \o SubSeq(OpsOf(rs), 1, m) : m \in 1..Len(rs)}
    <2>1. Len(rs) \in 0..Len(rs)
      BY <1>5
    <2>2. QED
      BY <2>1, <1>2, <1>4, <1>5
  <1>7. \A m \in 1..Len(rs) :
          /\ promised \o SubSeq(OpsOf(rs), 1, m) \in Seq(Ops)
          /\ Agree(promised \o SubSeq(OpsOf(rs), 1, m), promised, commit)
    <2>1. TAKE m \in 1..Len(rs)
    <2>2. m \in 0..Len(OpsOf(rs))
      BY <1>5
    <2>3. SubSeq(OpsOf(rs), 1, m) \in Seq(Ops)
      BY <2>2, <1>5, FirstFacts
    <2>4. promised \in Seq(Ops) /\ commit \in Nat /\ commit <= Len(promised)
      BY <1>1, UpFacts DEF StorageInv, StorageTypes
    <2>5. QED
      BY <2>3, <2>4, AgreeJoin
  <1>8. /\ dir' \in Dirs /\ undone' \in SUBSET Dirs /\ dir'.log.recs = dir.log.recs \o rs
        /\ DiskInv' /\ FoundInv'
    <2>1. \A m \in 0..Len(rs) : \A p : Piece(rs, m, p) => \E k \in 0..Len(rs) : Piece(rs, k, p)
      OBVIOUS
    <2>2. Len(rs) \in 0..Len(rs)
      BY <1>5
    <2>3. \A k \in 1..Len(rs) : promised \o SubSeq(OpsOf(rs), 1, k) \in maybe'
      BY <1>6
    <2>4. maybe \subseteq maybe' /\ UNCHANGED <<entries, seed, promised, phase, risk>>
      BY <1>3, <1>6
    <2>5. QED
      BY <2>1, <2>2, <2>3, <2>4, <1>1, <1>2, <1>4, AppendKeeps
  <1>9. StorageTypes'
    BY <1>3, <1>6, <1>7, <1>8 DEF StorageInv, StorageTypes
  <1>10. ListInv'
    BY <1>3, ListFrame
  <1>11. StateInv'
    BY <1>1, <1>2, <1>3 DEF StorageInv, StateInv
  <1>12. KeepInv'
    BY <1>3, <1>6, <1>7 DEF StorageInv, KeepInv
  <1>13. CallInv'
    <2>1. call' \in [pc : {"written"}, recs : Seq(Recs)] /\ call'.recs = rs
      BY <1>2, <1>4
    <2>2. Under' = Under /\ Listed' = Listed
      BY <1>3 DEF Under, Listed
    <2>3. promised \o OpsOf(rs) \in maybe'
      <3>1. SubSeq(OpsOf(rs), 1, Len(rs)) = OpsOf(rs) /\ Len(rs) \in 1..Len(rs)
        BY <1>5, SubSeqFull
      <3>2. QED
        BY <3>1, <1>6
    <2>4. dir'.log.recs # <<>> /\ dir'.log.recs[Len(dir'.log.recs)] = rs[Len(rs)]
      <3> DEFINE r == dir.log.recs
                 w == r \o rs
      <3>1. r \in Seq(Recs) /\ Len(r) \in Nat
        BY LoadedFacts, LenProperties DEF StorageInv, StorageTypes
      <3>2. /\ w \in Seq(Recs) /\ Len(w) = Len(r) + Len(rs)
            /\ \A i \in 1..(Len(r) + Len(rs)) : w[i] = IF i <= Len(r) THEN r[i] ELSE rs[i - Len(r)]
        BY <3>1, <1>4, ConcatProperties
      <3> HIDE DEF w, r
      <3>3. w # <<>> /\ w[Len(w)] = rs[Len(rs)]
        BY <3>1, <3>2, <1>5, NotEmpty
      <3>4. QED
        BY <3>3, <1>8 DEF w, r
    <2>5. Writing'
      BY <2>1, <2>2, <2>3, <2>4, <1>3, <1>4 DEF Writing
    <2>6. QED
      BY <2>5, <1>1, <1>3 DEF CallInv
  <1>14. AbstractStep
    BY <1>1, <1>3, <1>6 DEF AbstractStep
  <1>15. QED
    BY <1>8, <1>9, <1>10, <1>11, <1>12, <1>13, <1>14 DEF StorageInv

\* A failed write leaves less of it.
LEMMA WriteFailsStep ==
  ASSUME StorageInv, WriteFails
  PROVE  StorageInv' /\ AbstractStep
  <1>1. phase = "up" /\ call = Idle /\ call.pc = "idle"
    BY IdleFacts DEF WriteFails, Calling
  <1>2. PICK rs \in Batches, n \in 0..1 :
          /\ n < Len(rs)
          /\ SetLog(Written(Append(SubSeq(rs, 1, n), Torn(rs[n + 1]))))
          /\ maybe' = maybe \cup Prefixes(SubSeq(rs, 1, n))
    BY DEF WriteFails
  <1>3. UNCHANGED <<entries, seed, base, state, commit, call, phase, promised, named, risk>>
    BY DEF WriteFails, memory
  <1>4. /\ rs \in Seq(Recs) /\ rs # <<>> /\ Follows(rs, Listed, Under)
        /\ \A k \in 0..Len(rs) :
             Prefixes(SubSeq(rs, 1, k)) = {promised \o SubSeq(OpsOf(rs), 1, m) : m \in 1..k}
    BY <1>1, BatchFacts
  <1>5. Len(rs) \in Nat /\ OpsOf(rs) \in Seq(Ops) /\ Len(OpsOf(rs)) = Len(rs)
    BY <1>4, LenProperties, OpsOfFacts
  <1>6. n \in 0..(Len(rs) - 1) /\ n \in 0..Len(rs)
    BY <1>2, <1>5
  <1>7. maybe' = maybe \cup {promised \o SubSeq(OpsOf(rs), 1, m) : m \in 1..n}
    BY <1>2, <1>4, <1>6
  <1>8. \A m \in 1..n :
          /\ promised \o SubSeq(OpsOf(rs), 1, m) \in Seq(Ops)
          /\ Agree(promised \o SubSeq(OpsOf(rs), 1, m), promised, commit)
    <2>1. TAKE m \in 1..n
    <2>2. m \in 0..Len(OpsOf(rs))
      BY <1>5, <1>6
    <2>3. SubSeq(OpsOf(rs), 1, m) \in Seq(Ops)
      BY <2>2, <1>5, FirstFacts
    <2>4. promised \in Seq(Ops) /\ commit \in Nat /\ commit <= Len(promised)
      BY <1>1, UpFacts DEF StorageInv, StorageTypes
    <2>5. QED
      BY <2>3, <2>4, AgreeJoin
  <1>9. dir' \in Dirs /\ undone' \in SUBSET Dirs /\ DiskInv' /\ FoundInv'
    <2> DEFINE c == Append(SubSeq(rs, 1, n), Torn(rs[n + 1]))
    <2>1. /\ c \in Seq(Recs)
          /\ \A m \in 0..Len(c) : \A p : Piece(c, m, p) => \E k \in 0..n : Piece(rs, k, p)
      BY <1>4, <1>6, TornPiece
    <2>2. SetLog(Written(c))
      BY <1>2
    <2>3. \A k \in 1..n : promised \o SubSeq(OpsOf(rs), 1, k) \in maybe'
      BY <1>7
    <2>4. maybe \subseteq maybe' /\ UNCHANGED <<entries, seed, promised, phase, risk>>
      BY <1>3, <1>7
    <2> HIDE DEF c
    <2>5. QED
      BY <2>1, <2>2, <2>3, <2>4, <1>1, <1>4, <1>6, AppendKeeps
  <1>10. StorageTypes'
    BY <1>3, <1>7, <1>8, <1>9 DEF StorageInv, StorageTypes
  <1>11. ListInv'
    BY <1>3, ListFrame
  <1>12. StateInv'
    BY <1>3 DEF StorageInv, StateInv
  <1>13. KeepInv'
    BY <1>3, <1>7, <1>8 DEF StorageInv, KeepInv
  <1>14. CallInv'
    BY <1>1, <1>3 DEF CallInv
  <1>15. AbstractStep
    BY <1>1, <1>3, <1>7 DEF AbstractStep
  <1>16. QED
    BY <1>9, <1>10, <1>11, <1>12, <1>13, <1>14, <1>15 DEF StorageInv

\* The batch is promised once it is synced.
LEMMA SyncBatchStep ==
  ASSUME StorageInv, SyncBatch
  PROVE  StorageInv' /\ AbstractStep
  <1>1. phase = "up" /\ call.pc = "written" /\ Writing
    BY CallIs DEF SyncBatch
  <1> DEFINE b == call.recs
             q == OpsOf(b)
  <1>2. /\ SetLog(LogFile(dir.log.recs, Len(dir.log.recs)))
        /\ entries' = entries \o b /\ maybe' = {} /\ call' = Idle
        /\ promised' = Held \o q
        /\ UNCHANGED <<seed, base, state, commit, phase, named>>
        /\ risk' = IF risk = "open" /\ undone = {} THEN "none" ELSE risk
    BY DEF SyncBatch
  <1>3. Held = promised
    BY <1>1, HeldIsPromised
  <1>4. /\ b \in Seq(Recs) /\ b # <<>> /\ Follows(b, Listed, Under) /\ promised \o q \in maybe
        /\ dir.log.recs # <<>> /\ dir.log.recs[Len(dir.log.recs)] = b[Len(b)]
    BY <1>1 DEF Writing
  <1>5. q \in Seq(Ops) /\ Len(q) \in Nat
    BY <1>4, OpsOfFacts, LenProperties
  <1> HIDE DEF b, q
  <1>6. Under' = Under /\ Listed' = Listed \o q /\ entries' = Run(Listed \o q, Under)
    <2>1. entries \in Seq(Recs) /\ entries = Run(Listed, Under)
      BY <1>1, UpFacts DEF StorageInv, StorageTypes
    <2>2. OpsOf(entries \o b) = OpsOf(entries) \o OpsOf(b)
      BY <2>1, <1>4, OpsOfJoin
    <2>3. Run(Listed, Under) \o b = Run(Listed \o OpsOf(b), Under)
      BY <1>1, <1>4, UpFacts, FollowsRun
    <2>4. QED
      BY <2>1, <2>2, <2>3, <1>2 DEF Under, Listed, q
  <1>7. Listed \o q \in Seq(Ops) /\ promised' = Under \o (Listed \o q) /\ promised' = promised \o q
    <2>1. promised \o q = (Under \o Listed) \o q
      BY <1>1, UpFacts
    <2>2. (Under \o Listed) \o q = Under \o (Listed \o q)
      BY <1>1, <1>5, UpFacts, JoinAssoc, Zenon
    <2>3. QED
      BY <2>1, <2>2, <1>1, <1>2, <1>3, <1>5, UpFacts, ConcatProperties
  <1>8. /\ promised \in Seq(Ops) /\ promised' \in Seq(Ops)
        /\ \A k \in Nat : k <= Len(promised) => Agree(promised', promised, k)
        /\ Len(promised') = Len(promised) + Len(q)
    <2>1. promised \in Seq(Ops)
      BY DEF StorageInv, StorageTypes
    <2>2. QED
      BY <2>1, <1>5, <1>7, AgreeJoin
  <1>9. /\ dir' \in Dirs /\ undone' \in SUBSET Dirs
        /\ risk' = "none" => \A d \in undone' : d.log = dir'.log
        /\ \A im \in Images' : im \in Images /\ im[2] = dir.log.recs
    <2>1. risk' = "none" => risk = "none" \/ undone = {}
      BY <1>2
    <2>2. QED
      BY <2>1, <1>1, <1>2, SyncKeeps
  <1>10. ASSUME NEW im \in Images'
         PROVE  Fits(im[1], im[2], Under, Listed \o q) /\ Finds(im[1], im[2], {promised'})
    <2>1. im \in Images /\ im[2] = dir.log.recs
      BY <1>9
    <2>2. im[1] \in Seq(Ops) /\ im[2] \in Seq(Recs) /\ Fits(im[1], im[2], Under, Listed)
      BY <2>1, <1>1, ImageFacts
    <2>3. im[2] # <<>> /\ im[2][Len(im[2])] = b[Len(b)]
      BY <2>1, <1>4
    <2>4. /\ Fits(im[1], im[2], Under, Listed \o OpsOf(b))
          /\ Finds(im[1], im[2], {(Under \o Listed) \o OpsOf(b)})
      BY <2>2, <2>3, <1>1, <1>4, UpFacts, BatchFits
    <2>5. promised' = (Under \o Listed) \o OpsOf(b)
      BY <1>1, <1>7, UpFacts DEF q
    <2>6. QED
      BY <2>4, <2>5 DEF q
  <1>11. StorageTypes'
    <2>1. entries' \in Seq(Recs)
      BY <1>1, <1>6, <1>7, UpFacts, RunFacts
    <2>2. QED
      BY <2>1, <1>2, <1>8, <1>9 DEF StorageInv, StorageTypes
  <1>12. ListInv'
    BY <1>1, <1>2, <1>6, <1>7, UpFacts DEF ListInv
  <1>13. StateInv'
    <2>1. base <= Len(state) /\ Len(state) <= commit /\ Extends(promised, state)
      BY <1>1 DEF StorageInv, StateInv
    <2>2. state \in Seq(Ops) /\ Len(state) \in Nat /\ Len(state) <= Len(promised)
      BY <2>1, <1>1, UpFacts DEF StorageInv, StorageTypes, Extends, Agree
    <2>3. Extends(promised', state)
      BY <2>1, <2>2, <1>8, AgreeFacts DEF Extends
    <2>4. QED
      BY <2>1, <2>3, <1>2 DEF StateInv
  <1>14. DiskInv'
    BY <1>6, <1>9, <1>10 DEF DiskInv
  <1>15. FoundInv'
    BY <1>2, <1>10 DEF FoundInv, Possible
  <1>16. KeepInv'
    BY <1>1, <1>2, <1>5, <1>8, UpFacts DEF KeepInv
  <1>17. CallInv'
    BY <1>2 DEF CallInv
  <1>18. AbstractStep
    <2>1. promised' \in Possible
      BY <1>4, <1>7 DEF Possible, q
    <2>2. QED
      BY <2>1, <1>1, <1>2, <1>5, <1>8, UpFacts DEF AbstractStep
  <1>19. QED
    BY <1>11, <1>12, <1>13, <1>14, <1>15, <1>16, <1>17, <1>18 DEF StorageInv
\* A call that ends without an effect on the list.
LEMMA FailsStep ==
  ASSUME StorageInv, SyncFails \/ SaveFails \/ (RewriteFails /\ risk' # "met")
  PROVE  StorageInv' /\ AbstractStep
  <1>1. /\ phase = "up" /\ call.pc # "replaced" /\ (call.pc = "rewrite" => call.seed = seed)
        /\ call' = Idle /\ named' = named /\ risk' = risk
    <2>1. CASE SyncFails
      BY <2>1 DEF SyncFails
    <2>2. CASE SaveFails
      BY <2>2 DEF SaveFails
    <2>3. CASE RewriteFails /\ risk' # "met"
      <3>1. call.pc = "rewrite" /\ call.seed = seed
        BY <2>3 DEF RewriteFails
      <3>2. named = TRUE
        BY DEF StorageInv, StorageTypes
      <3>3. named' = (named /\ call.pc = "rewrite")
        BY <2>3 DEF RewriteFails
      <3>4. risk' = risk
        BY <2>3, <3>1 DEF RewriteFails
      <3>5. QED
        BY <2>3, <3>1, <3>2, <3>3, <3>4 DEF RewriteFails
    <2>4. QED
      BY <2>1, <2>2, <2>3
  <1>2. UNCHANGED <<dir, undone, entries, seed, base, state, commit, phase, promised, maybe>>
    BY DEF SyncFails, SaveFails, RewriteFails, memory
  <1>3. DiskInv' /\ FoundInv'
    BY <1>1, <1>2, DiskFrame
  <1>4. ListInv'
    BY <1>2, ListFrame
  <1>5. StorageTypes' /\ StateInv' /\ KeepInv'
    BY <1>1, <1>2 DEF StorageInv, StorageTypes, StateInv, KeepInv
  <1>6. CallInv'
    BY <1>1 DEF CallInv, Idle
  <1>7. AbstractStep
    BY <1>1, <1>2 DEF AbstractStep
  <1>8. QED
    BY <1>3, <1>4, <1>5, <1>6, <1>7 DEF StorageInv

\* What a rewrite will make of a list that was cut.
LEMMA TruncateStep ==
  ASSUME StorageInv, Truncate
  PROVE  StorageInv' /\ AbstractStep
  <1>1. phase = "up" /\ call = Idle /\ call.pc = "idle"
    BY IdleFacts DEF Truncate, Calling
  <1>2. Held = promised
    BY <1>1, HeldIsPromised
  <1>3. PICK from \in (commit + 1)..LastIndex :
          /\ call' = Rewriting(UpTo(entries, from - 1), seed, base, SubSeq(promised, 1, from - 1))
          /\ maybe' = maybe \cup {SubSeq(promised, 1, from - 1)}
                        \cup Strays(UpTo(entries, from - 1), seed.snap)
    BY <1>2 DEF Truncate
  <1>4. UNCHANGED <<dir, undone, entries, seed, base, state, commit, phase, promised, named, risk>>
    BY DEF Truncate, memory
  <1> DEFINE k == from - 1
             m == k - Len(Under)
             keep == Run(SubSeq(Listed, 1, m), Under)
             goal == SubSeq(promised, 1, k)
  <1>5. k \in commit..Len(promised) /\ k \in Nat /\ m \in 0..Len(Listed) /\ k = Len(Under) + m
    <2>1. LastIndex \in Nat /\ LastIndex <= Len(promised)
      BY <1>1, LastIndexIs, UpFacts
    <2>2. QED
      BY <2>1, <1>1, <1>3, UpFacts
  <1>6. UpTo(entries, k) = keep
    <2>1. k >= Len(Under) /\ k <= Len(Under) + Len(Listed)
      BY <1>1, <1>5, UpFacts
    <2>2. UpTo(Run(Listed, Under), k) = Run(SubSeq(Listed, 1, k - Len(Under)), Under)
      BY <2>1, <1>1, <1>5, UpFacts, UpToOfRun
    <2>3. QED
      BY <2>2, <1>1, UpFacts
  <1>7. /\ SubSeq(Listed, 1, m) \in Seq(Ops) /\ Len(SubSeq(Listed, 1, m)) = m
        /\ keep \in Seq(Recs) /\ OpsOf(keep) = SubSeq(Listed, 1, m) /\ Len(keep) = m
        /\ \A i \in 1..Len(keep) : keep[i].index = Len(Under) + i
    <2>1. SubSeq(Listed, 1, m) \in Seq(Ops) /\ Len(SubSeq(Listed, 1, m)) = m
      BY <1>1, <1>5, UpFacts, FirstFacts
    <2> DEFINE o == SubSeq(Listed, 1, m)
    <2>2. o \in Seq(Ops) /\ Len(o) = m /\ Under \in Seq(Ops)
      BY <2>1, <1>1, UpFacts
    <2> HIDE DEF o, m
    <2>3. /\ Run(o, Under) \in Seq(Recs) /\ OpsOf(Run(o, Under)) = o /\ Len(Run(o, Under)) = Len(o)
          /\ \A i \in 1..Len(o) : Run(o, Under)[i].index = Len(Under) + i
      BY <2>2, RunFacts
    <2>4. QED
      BY <2>2, <2>3 DEF o
  <1>8. Chained(keep, seed) = keep
    BY <1>1, <1>7, UpFacts, ChainedIsRun
  <1>9. goal = Under \o SubSeq(Listed, 1, m) /\ goal \in Seq(Ops) /\ Len(goal) = k
    <2>1. SubSeq(Under \o Listed, 1, Len(Under) + m) = Under \o SubSeq(Listed, 1, m)
      BY <1>1, <1>5, UpFacts, JoinMore
    <2>2. promised \in Seq(Ops) /\ k \in 0..Len(promised)
      BY <1>5 DEF StorageInv, StorageTypes
    <2>3. QED
      BY <2>1, <2>2, <1>1, <1>5, UpFacts, FirstFacts
  <1>10. call' = [pc |-> "rewrite", recs |-> keep, seed |-> seed, base |-> base, goal |-> goal]
    BY <1>3, <1>6, <1>8 DEF Rewriting
  <1>11. seed.snap = Under
    BY DEF Under
  <1>12. maybe' = maybe \cup {goal} \cup Strays(keep, Under)
    BY <1>3, <1>6, <1>11
  <1> HIDE DEF k, m, keep, goal
  <1>13. \A n \in Nat : n <= k => Agree(goal, promised, n) /\ Agree(promised, goal, n)
    <2>1. promised \in Seq(Ops) /\ k \in 0..Len(promised)
      BY <1>5 DEF StorageInv, StorageTypes
    <2>2. QED
      BY <2>1, AgreeCut DEF goal
  <1>14. \A c \in Strays(keep, Under) : c \in Seq(Ops) /\ Agree(c, promised, commit)
    <2>1. TAKE c \in Strays(keep, Under)
    <2>2. keep = <<>> /\ \E d \in Shown : c = Loaded(d) /\ c # Under
      BY DEF Strays
    <2>3. m = 0
      BY <2>2, <1>5, <1>7, NotEmpty
    <2>4. commit = Len(Under)
      BY <2>3, <1>1, <1>5, UpFacts
    <2>5. c \in Seq(Ops) /\ Extends(c, Under)
      BY <2>2, <1>1, ShownFits
    <2>6. Agree(Under, promised, Len(Under))
      <3>1. Agree(Under, Under \o Listed, Len(Under))
        BY <1>1, UpFacts, AgreeJoin
      <3>2. QED
        BY <3>1, <1>1, UpFacts
    <2>7. promised \in Seq(Ops) /\ Under \in Seq(Ops) /\ Len(Under) \in Nat
      BY <1>1, UpFacts DEF StorageInv, StorageTypes
    <2>8. QED
      BY <2>4, <2>5, <2>6, <2>7, AgreeFacts DEF Extends
  <1>15. StorageTypes'
    BY <1>4, <1>9, <1>12, <1>14 DEF StorageInv, StorageTypes
  <1>16. ListInv'
    BY <1>4, ListFrame
  <1>17. base <= Len(state) /\ Len(state) <= commit /\ Extends(promised, state)
    BY <1>1 DEF StorageInv, StateInv
  <1>18. StateInv'
    BY <1>4, <1>17 DEF StateInv
  <1>19. DiskInv' /\ FoundInv'
    BY <1>1, <1>4, <1>12, DiskFrame
  <1>20. KeepInv'
    <2>1. Agree(goal, promised, commit)
      BY <1>1, <1>5, <1>13, UpFacts
    <2>2. QED
      BY <2>1, <1>4, <1>12, <1>14 DEF StorageInv, KeepInv
  <1>21. CallInv'
    <2>1. /\ call'.pc = "rewrite" /\ call'.recs = keep /\ call'.seed = seed /\ call'.base = base
          /\ call'.goal = goal
      BY <1>10
    <2>2. call' \in [pc : {"rewrite", "replaced"}, recs : Seq(Recs), seed : Hashes, base : Nat,
                     goal : Seq(Ops)]
      BY <1>7, <1>9, <1>10 DEF StorageInv, StorageTypes
    <2>3. seed = SeedOf(seed.snap) /\ base = Len(seed.snap)
      BY <1>1, <1>11, UpFacts
    <2>4. keep = Run(OpsOf(keep), seed.snap) /\ goal = seed.snap \o OpsOf(keep)
      BY <1>7, <1>9, <1>11 DEF keep
    <2>5. goal \in Possible'
      BY <1>12 DEF Possible
    <2>6. Extends(goal, state)
      <3>1. state \in Seq(Ops) /\ promised \in Seq(Ops) /\ Len(state) \in Nat /\ Len(state) <= k
        BY <1>1, <1>5, <1>17, UpFacts DEF StorageInv, StorageTypes
      <3>2. Agree(goal, promised, Len(state))
        BY <3>1, <1>13
      <3>3. QED
        BY <3>1, <3>2, <1>9, <1>17, AgreeFacts DEF Extends
    <2>7. \A d \in Shown' : Replaces(d, seed.snap, keep)'
      <3>1. Shown' = Shown
        BY <1>4 DEF Shown
      <3>2. ASSUME NEW d \in Shown
            PROVE  \/ Loaded(d) = Under
                   \/ /\ Len(Loaded(d)) > Len(Under) /\ Extends(Loaded(d), Under)
                      /\ keep = <<>> => Loaded(d) \in maybe'
        <4>1. Loaded(d) = Under \/ (Len(Loaded(d)) > Len(Under) /\ Extends(Loaded(d), Under))
          BY <1>1, ShownFits
        <4>2. keep = <<>> /\ Loaded(d) # Under => Loaded(d) \in Strays(keep, Under)
          BY DEF Strays
        <4>3. QED
          BY <4>1, <4>2, <1>12
      <3>3. keep' = keep /\ seed' = seed
        BY <1>4 DEF keep, m, k, Listed, Under
      <3>4. QED
        BY <3>1, <3>2, <3>3, <1>11 DEF Replaces
    <2>8. keep' = keep
      BY <1>4 DEF keep, m, k, Listed, Under
    <2>9. Replacing'
      BY <2>1, <2>2, <2>3, <2>4, <2>5, <2>6, <2>7, <2>8, <1>4, <1>17 DEF Replacing
    <2>10. QED
      BY <2>9, <1>1, <1>4 DEF CallInv
  <1>22. AbstractStep
    BY <1>1, <1>4, <1>12 DEF AbstractStep
  <1>23. QED
    BY <1>15, <1>16, <1>18, <1>19, <1>20, <1>21, <1>22 DEF StorageInv
\* maybe_snapshot is about to save what is applied.
LEMMA MaybeSnapshotStep ==
  ASSUME StorageInv, MaybeSnapshot
  PROVE  StorageInv' /\ AbstractStep
  <1>1. phase = "up" /\ call = Idle /\ call.pc = "idle"
    BY IdleFacts DEF MaybeSnapshot, Calling
  <1>2. /\ SetLog(LogFile(dir.log.recs, Len(dir.log.recs))) /\ Len(state) > base
        /\ call' = Saving(state)
        /\ UNCHANGED <<entries, seed, base, state, commit, phase, promised, maybe, named, risk>>
    BY DEF MaybeSnapshot, memory
  <1>3. Held = promised
    BY <1>1, HeldIsPromised
  <1>4. base <= Len(state) /\ Len(state) <= commit /\ Extends(promised, state)
    BY <1>1 DEF StorageInv, StateInv
  <1>5. state \in Seq(Ops) /\ promised \in Seq(Ops)
    BY DEF StorageInv, StorageTypes
  <1>6. state \o SubSeq(promised, Len(state) + 1, Len(promised)) = promised
    BY <1>4, <1>5, RestFacts
  <1>7. call' = [pc |-> "save", ops |-> state, goal |-> promised]
    BY <1>2, <1>3, <1>6 DEF Saving
  <1>8. /\ dir' \in Dirs /\ undone' \in SUBSET Dirs
        /\ risk' = "none" => \A d \in undone' : d.log = dir'.log
        /\ \A im \in Images' : im \in Images
    BY <1>1, <1>2, SyncKeeps
  <1>9. Under' = Under /\ Listed' = Listed /\ Possible' = Possible
    BY <1>2 DEF Under, Listed, Possible
  <1>10. \A im \in Images' : Fits(im[1], im[2], Under, Listed) /\ Finds(im[1], im[2], Possible)
    BY <1>1, <1>8, ImageFacts
  <1>11. StorageTypes'
    BY <1>2, <1>8 DEF StorageInv, StorageTypes
  <1>12. ListInv'
    BY <1>2, ListFrame
  <1>13. StateInv' /\ KeepInv'
    BY <1>2, <1>4 DEF StorageInv, StateInv, KeepInv
  <1>14. DiskInv' /\ FoundInv'
    BY <1>8, <1>9, <1>10 DEF DiskInv, FoundInv
  <1>15. CallInv'
    <2>1. call' \in [pc : {"save", "place", "saved"}, ops : Seq(Ops), goal : Seq(Ops)]
      BY <1>5, <1>7
    <2>2. Extends(state, Under)
      <3>1. Agree(promised, Under, Len(Under))
        <4>1. Agree(Under \o Listed, Under, Len(Under))
          BY <1>1, UpFacts, AgreeJoin
        <4>2. QED
          BY <4>1, <1>1, UpFacts
      <3>2. Agree(state, promised, Len(Under))
        BY <1>1, <1>4, <1>5, UpFacts, AgreeFacts DEF Extends, Agree
      <3>3. QED
        BY <3>1, <3>2, <1>1, <1>5, UpFacts, AgreeFacts DEF Extends
    <2>3. Snapshotting'
      BY <2>1, <2>2, <1>2, <1>6, <1>7, <1>9 DEF Snapshotting, Possible
    <2>4. QED
      BY <2>3, <1>1, <1>2 DEF CallInv
  <1>16. AbstractStep
    BY <1>1, <1>2 DEF AbstractStep
  <1>17. QED
    BY <1>11, <1>12, <1>13, <1>14, <1>15, <1>16 DEF StorageInv

\* The leader's state has what this node has committed.
LEMMA InstallSnapshotStep ==
  ASSUME StorageInv, InstallSnapshot
  PROVE  StorageInv' /\ AbstractStep
  <1>1. phase = "up" /\ call = Idle /\ call.pc = "idle"
    BY IdleFacts DEF InstallSnapshot, Calling
  <1>2. Held = promised
    BY <1>1, HeldIsPromised
  <1>3. PICK s \in {SubSeq(promised, 1, k) : k \in 1..commit} \cup
                   {SubSeq(promised, 1, commit) \o q : q \in {<<o>> : o \in Ops} \cup (Ops \X Ops)} :
          /\ Len(s) > base /\ call' = Saving(s) /\ maybe' = maybe \cup {Saving(s).goal}
    BY <1>2 DEF InstallSnapshot
  <1>4. UNCHANGED <<dir, undone, entries, seed, base, state, commit, phase, promised, named, risk>>
    BY DEF InstallSnapshot, memory
  <1>5. /\ promised \in Seq(Ops) /\ commit \in 0..Len(promised) /\ Under \in Seq(Ops)
        /\ base = Len(Under) /\ base <= commit /\ commit \in Nat /\ base \in Nat /\ Len(promised) \in Nat
    BY <1>1, UpFacts, LenProperties DEF StorageInv, StorageTypes
  <1> DEFINE d == SubSeq(promised, Len(s) + 1, Len(promised))
             goal == s \o d
  <1>6. \/ s \in Seq(Ops) /\ Extends(promised, s)
        \/ s \in Seq(Ops) /\ Agree(s, promised, commit)
    <2>1. CASE \E k \in 1..commit : s = SubSeq(promised, 1, k)
      <3>1. PICK k \in 1..commit : s = SubSeq(promised, 1, k)
        BY <2>1
      <3>2. k \in 0..Len(promised) /\ k \in Nat /\ k <= k
        BY <1>5
      <3>3. s \in Seq(Ops) /\ Len(s) = k
        BY <3>1, <3>2, <1>5, FirstFacts
      <3>4. Agree(s, promised, k)
        BY <3>1, <3>2, <1>5, AgreeCut
      <3>5. Agree(s, promised, Len(s))
        BY <3>3, <3>4
      <3>6. Extends(promised, s)
        BY <3>5 DEF Extends
      <3>7. QED
        BY <3>3, <3>6
    <2>2. CASE \E q \in {<<o>> : o \in Ops} \cup (Ops \X Ops) : s = SubSeq(promised, 1, commit) \o q
      <3>1. PICK q \in {<<o>> : o \in Ops} \cup (Ops \X Ops) : s = SubSeq(promised, 1, commit) \o q
        BY <2>2
      <3>2. q \in Seq(Ops)
        <4>1. \A a, b \in Ops : <<a>> \in Seq(Ops) /\ <<a, b>> \in Seq(Ops)
          OBVIOUS
        <4>2. (\E a \in Ops : q = <<a>>) \/ (\E a, b \in Ops : q = <<a, b>>)
          OBVIOUS
        <4>3. QED
          BY <4>1, <4>2
      <3> DEFINE c == SubSeq(promised, 1, commit)
      <3>3. c \in Seq(Ops) /\ Len(c) = commit
        BY <1>5, FirstFacts
      <3>4. Agree(c, promised, commit)
        BY <1>5, AgreeCut
      <3> HIDE DEF c
      <3>5. Agree(c \o q, c, commit) /\ c \o q \in Seq(Ops)
        BY <3>2, <3>3, <1>5, AgreeJoin
      <3>6. Agree(c \o q, promised, commit)
        BY <3>3, <3>4, <3>5, <1>5, AgreeFacts
      <3>7. QED
        BY <3>1, <3>5, <3>6 DEF c
    <2>3. QED
      BY <2>1, <2>2, <1>3
  <1>7. s \in Seq(Ops) /\ Len(s) \in Nat
    BY <1>6, LenProperties
  <1>8. d \in Seq(Ops) /\ (Extends(promised, s) => goal = promised)
    BY <1>5, <1>7, RestFacts
  <1>9. call' = [pc |-> "save", ops |-> s, goal |-> goal] /\ maybe' = maybe \cup {goal}
    BY <1>2, <1>3 DEF Saving
  <1> HIDE DEF d
  <1>10. goal \in Seq(Ops) /\ Agree(goal, promised, commit)
    <2>1. CASE Extends(promised, s)
      <3>1. goal = promised
        BY <2>1, <1>8
      <3>2. Agree(promised, promised, commit)
        BY <1>5, AgreeFacts
      <3> HIDE DEF goal
      <3>3. QED
        BY <3>1, <3>2, <1>5
    <2>2. CASE Agree(s, promised, commit)
      <3>1. commit <= Len(s)
        BY <2>2 DEF Agree
      <3>2. Agree(goal, s, commit) /\ goal \in Seq(Ops)
        BY <3>1, <1>5, <1>7, <1>8, AgreeJoin
      <3> HIDE DEF goal
      <3>3. QED
        BY <3>2, <2>2, <1>5, <1>7, AgreeFacts
    <2>3. QED
      BY <2>1, <2>2, <1>6
  <1> HIDE DEF goal
  <1>11. Extends(s, Under)
    <2>1. Agree(promised, Under, base)
      <3>1. Agree(Under \o Listed, Under, base)
        BY <1>1, <1>5, UpFacts, AgreeJoin
      <3>2. QED
        BY <3>1, <1>1, UpFacts
    <2>2. Agree(s, promised, base)
      <3>1. CASE Extends(promised, s)
        BY <3>1, <1>3, <1>5, <1>7 DEF Extends, Agree
      <3>2. CASE Agree(s, promised, commit)
        BY <3>2, <1>5, <1>7, AgreeFacts
      <3>3. QED
        BY <3>1, <3>2, <1>6
    <2>3. QED
      BY <2>1, <2>2, <1>5, <1>7, AgreeFacts DEF Extends
  <1>12. StorageTypes'
    BY <1>4, <1>9, <1>10 DEF StorageInv, StorageTypes
  <1>13. ListInv'
    BY <1>4, ListFrame
  <1>14. StateInv'
    BY <1>1, <1>4, <1>9 DEF StorageInv, StateInv
  <1>15. DiskInv' /\ FoundInv'
    BY <1>1, <1>4, <1>9, DiskFrame
  <1>16. KeepInv'
    BY <1>4, <1>9, <1>10 DEF StorageInv, KeepInv
  <1>17. CallInv'
    <2>1. call' \in [pc : {"save", "place", "saved"}, ops : Seq(Ops), goal : Seq(Ops)]
      BY <1>7, <1>9, <1>10
    <2>2. Under' = Under /\ goal \in Possible'
      BY <1>4, <1>9 DEF Under, Possible
    <2>3. /\ call'.pc = "save" /\ call'.ops = s
          /\ call'.goal = s \o SubSeq(promised, Len(s) + 1, Len(promised)) /\ call'.goal = goal
      BY <1>9 DEF goal, d
    <2>4. Snapshotting'
      BY <2>1, <2>2, <2>3, <1>3, <1>4, <1>11 DEF Snapshotting
    <2>5. QED
      BY <2>4, <1>1, <1>4 DEF CallInv
  <1>18. AbstractStep
    BY <1>1, <1>4, <1>9 DEF AbstractStep
  <1>19. QED
    BY <1>12, <1>13, <1>14, <1>15, <1>16, <1>17, <1>18 DEF StorageInv
\* A directory in which the log is as before shows what was to be found before.
LEMMA SameImages ==
  ASSUME StorageInv, phase = "up", call.pc # "replaced", dir' \in Dirs,
         risk' = risk, \A e \in {dir'} \cup undone' : \E g \in {dir} \cup undone :
           e.log = g.log /\ Loaded(e) = Loaded(g),
         dir'.log = dir.log, Loaded(dir') = Loaded(dir)
  PROVE  \A im \in Images' : im \in Images
  <1>1. ASSUME NEW im \in ImagesOf(dir', undone', risk)
        PROVE  im \in ImagesOf(dir, undone, risk)
    BY <1>1, ImagesAre
  <1>2. Images' = ImagesOf(dir', undone', risk)
    BY DEF Images
  <1>3. QED
    BY <1>1, <1>2 DEF Images

\* save keeps the present snapshot as the previous one.
LEMMA KeepPreviousStep ==
  ASSUME StorageInv, KeepPrevious
  PROVE  StorageInv' /\ AbstractStep
  <1>1. phase = "up" /\ call.pc = "save" /\ Snapshotting
    BY CallIs DEF KeepPrevious
  <1>2. /\ call' = [call EXCEPT !.pc = "place"]
        /\ UNCHANGED <<entries, seed, base, state, commit, phase, promised, maybe, named, risk>>
    BY DEF KeepPrevious, memory
  <1>3. /\ dir' \in Dirs /\ undone' \in SUBSET Dirs /\ dir'.log = dir.log /\ Loaded(dir') = Loaded(dir)
        /\ undone' \subseteq undone \cup {dir}
    <2>1. dir \in Dirs /\ undone \in SUBSET Dirs
      BY DEF StorageInv, StorageTypes
    <2>2. CASE dir.cur.exists
      <3> DEFINE e == [dir EXCEPT !.prev = dir.cur, !.cur = NoFile]
      <3>1. dir' = e /\ undone' = undone \cup {dir}
        BY <2>2 DEF KeepPrevious, SetDir
      <3>2. NoFile \in Snaps /\ ~NoFile.exists
        BY EmptySeq DEF NoFile, Snaps
      <3>3. e \in Dirs /\ e.log = dir.log /\ e.prev = dir.cur /\ e.cur = NoFile
        <4> HIDE DEF Files, Snaps
        <4>1. QED
          BY <2>1, <3>2 DEF Dirs
      <3> HIDE DEF e
      <3>4. Loaded(e) = dir.cur.ops
        BY <3>2, <3>3 DEF Loaded
      <3>5. Loaded(dir) = dir.cur.ops
        BY <2>2 DEF Loaded
      <3>6. QED
        BY <3>1, <3>3, <3>4, <3>5, <2>1
    <2>3. CASE ~dir.cur.exists
      BY <2>1, <2>3 DEF KeepPrevious
    <2>4. QED
      BY <2>2, <2>3
  <1>4. \A im \in Images' : im \in Images
    BY <1>1, <1>2, <1>3, SameImages
  <1>5. Under' = Under /\ Listed' = Listed /\ Possible' = Possible
    BY <1>2 DEF Under, Listed, Possible
  <1>6. \A im \in Images' : Fits(im[1], im[2], Under, Listed) /\ Finds(im[1], im[2], Possible)
    BY <1>1, <1>4, ImageFacts
  <1>7. StorageTypes'
    BY <1>2, <1>3 DEF StorageInv, StorageTypes
  <1>8. ListInv'
    BY <1>2, ListFrame
  <1>9. call'.pc = "place" /\ call'.ops = call.ops /\ call'.goal = call.goal
        /\ call' \in [pc : {"save", "place", "saved"}, ops : Seq(Ops), goal : Seq(Ops)]
    BY <1>1, <1>2 DEF Snapshotting
  <1>10. StateInv' /\ KeepInv'
    BY <1>1, <1>2, <1>9 DEF StorageInv, StateInv, KeepInv
  <1>11. DiskInv'
    <2>1. risk = "none" => \A d \in undone : d.log = dir.log
      BY <1>1 DEF StorageInv, DiskInv
    <2>2. risk' = "none" => \A d \in undone' : d.log = dir'.log
      BY <2>1, <1>2, <1>3
    <2>3. QED
      BY <2>2, <1>5, <1>6 DEF DiskInv
  <1>12. FoundInv'
    BY <1>5, <1>6 DEF FoundInv
  <1>13. CallInv'
    <2>1. Snapshotting'
      BY <1>1, <1>2, <1>5, <1>9 DEF Snapshotting
    <2>2. QED
      BY <2>1, <1>1, <1>2 DEF CallInv
  <1>14. AbstractStep
    BY <1>1, <1>2 DEF AbstractStep
  <1>15. QED
    BY <1>7, <1>8, <1>10, <1>11, <1>12, <1>13, <1>14 DEF StorageInv

\* The new snapshot is there, the log is not yet rewritten.
LEMMA PlaceSnapshotStep ==
  ASSUME StorageInv, PlaceSnapshot
  PROVE  StorageInv' /\ AbstractStep
  <1>1. phase = "up" /\ call.pc = "place" /\ Snapshotting
    BY CallIs DEF PlaceSnapshot
  <1>2. /\ call' = [call EXCEPT !.pc = "saved"]
        /\ dir' = [dir EXCEPT !.cur = Snapshot(call.ops)] /\ undone' = undone \cup {dir}
        /\ UNCHANGED <<entries, seed, base, state, commit, phase, promised, maybe, named, risk>>
    BY DEF PlaceSnapshot, memory, SetDir
  <1> DEFINE s == call.ops
  <1>3. /\ s \in Seq(Ops) /\ Len(s) > base /\ Extends(s, Under) /\ Len(s) \in Nat
        /\ call.goal = s \o SubSeq(promised, Len(s) + 1, Len(promised)) /\ call.goal \in Possible
    BY <1>1, LenProperties DEF Snapshotting
  <1>4. /\ dir \in Dirs /\ undone \in SUBSET Dirs
        /\ dir' \in Dirs /\ undone' \in SUBSET Dirs /\ dir'.log = dir.log /\ Loaded(dir') = s
    <2>1. dir \in Dirs /\ undone \in SUBSET Dirs
      BY DEF StorageInv, StorageTypes
    <2>2. Snapshot(s) \in Snaps /\ Snapshot(s).exists /\ Snapshot(s).ops = s
      BY <1>3 DEF Snapshot, Snaps
    <2>3. dir' = [dir EXCEPT !.cur = Snapshot(s)]
      BY <1>2
    <2> HIDE DEF s
    <2>4. dir' \in Dirs /\ dir'.log = dir.log /\ dir'.cur = Snapshot(s)
      <3> HIDE DEF Files, Snaps
      <3>1. QED
        BY <2>1, <2>2, <2>3 DEF Dirs
    <2>5. Loaded(dir') = s
      BY <2>2, <2>4 DEF Loaded
    <2>6. QED
      BY <2>1, <2>4, <2>5, <1>2
  <1> HIDE DEF s
  <1>5. ASSUME NEW im \in ImagesOf(dir', undone', risk)
        PROVE  im \in Images \/ \E x : im = <<s, x>> /\ <<Loaded(dir), x>> \in Images
    <2>1. CASE im = <<Loaded(dir'), dir'.log.recs>>
      <3>1. im = <<s, dir.log.recs>>
        BY <2>1, <1>4
      <3>2. <<Loaded(dir), dir.log.recs>> \in Images
        BY ImagesAre DEF Images
      <3>3. QED
        BY <3>1, <3>2
    <2>2. CASE risk = "none" /\ \E e \in {dir'} \cup undone' : \E rs \in Survivors(e.log) : im = <<Loaded(e), rs>>
      <3>1. PICK e \in {dir'} \cup undone' : \E rs \in Survivors(e.log) : im = <<Loaded(e), rs>>
        BY <2>2
      <3>2. PICK rs \in Survivors(e.log) : im = <<Loaded(e), rs>>
        BY <3>1
      <3>3. CASE e = dir'
        <4>1. im = <<s, rs>> /\ rs \in Survivors(dir.log)
          BY <3>2, <3>3, <1>4
        <4>2. <<Loaded(dir), rs>> \in Images
          BY <4>1, <2>2, ImagesAre DEF Images
        <4>3. QED
          BY <4>1, <4>2
      <3>4. CASE e \in {dir} \cup undone
        <4>1. im \in Images
          BY <3>2, <3>4, <2>2, ImagesAre DEF Images
        <4>2. QED
          BY <4>1
      <3>5. QED
        BY <3>1, <3>3, <3>4, <1>2
    <2>3. \/ im = <<Loaded(dir'), dir'.log.recs>>
          \/ risk = "none" /\ \E e \in {dir'} \cup undone' : \E rs \in Survivors(e.log) : im = <<Loaded(e), rs>>
      BY <1>5, ImagesAre
    <2>4. QED
      BY <2>1, <2>2, <2>3
  <1>6. ASSUME NEW x, <<Loaded(dir), x>> \in Images
        PROVE  Fits(s, x, Under, Listed) /\ Finds(s, x, Possible)
    <2> DEFINE im == <<Loaded(dir), x>>
    <2>1. im[2] = x /\ im[2] \in Seq(Recs) /\ Fits(im[1], im[2], Under, Listed)
      BY <1>1, <1>6, ImageFacts
    <2> HIDE DEF im
    <2>2. x \in Seq(Recs)
      BY <2>1
    <2>3. Len(s) > Len(Under) /\ s # Under
      BY <1>1, <1>3, UpFacts
    <2>4. Fits(s, x, Under, Listed)
      BY <2>1, <2>3, <1>3 DEF Fits
    <2>5. ASSUME ~Corrupt(x, SeedOf(s))
          PROVE  s \o OpsOf(WholePart(x)) \in Possible
      <3>1. Listed = <<>> /\ s \o OpsOf(WholePart(x)) = s
        BY <2>2, <2>3, <2>4, <2>5, <1>1, <1>3, UpFacts, StrayFits
      <3>2. Len(promised) = Len(Under)
        <4>1. Len(<<>>) = 0
          BY EmptySeq
        <4>2. QED
          BY <4>1, <3>1, <1>1, UpFacts
      <3>3. SubSeq(promised, Len(s) + 1, Len(promised)) = <<>>
        BY <3>2, <2>3, <1>1, <1>3, UpFacts, RestFacts DEF StorageInv, StorageTypes
      <3>4. s \o <<>> = s
        BY <1>3, ConcatEmptySeq
      <3>5. QED
        BY <3>1, <3>3, <3>4, <1>3
    <2>6. QED
      BY <2>4, <2>5 DEF Finds
  <1>7. ASSUME NEW im \in Images'
        PROVE  Fits(im[1], im[2], Under, Listed) /\ Finds(im[1], im[2], Possible)
    <2>1. im \in ImagesOf(dir', undone', risk)
      BY <1>2 DEF Images
    <2>2. CASE im \in Images
      BY <2>2, <1>1, ImageFacts
    <2>3. CASE \E x : im = <<s, x>> /\ <<Loaded(dir), x>> \in Images
      BY <2>3, <1>6
    <2>4. QED
      BY <2>1, <2>2, <2>3, <1>5
  <1>8. Under' = Under /\ Listed' = Listed /\ Possible' = Possible
    BY <1>2 DEF Under, Listed, Possible
  <1>9. StorageTypes'
    BY <1>2, <1>4 DEF StorageInv, StorageTypes
  <1>10. ListInv'
    BY <1>2, ListFrame
  <1>11. call'.pc = "saved" /\ call'.ops = s /\ call'.goal = call.goal
         /\ call' \in [pc : {"save", "place", "saved"}, ops : Seq(Ops), goal : Seq(Ops)]
    BY <1>1, <1>2 DEF Snapshotting, s
  <1>12. StateInv' /\ KeepInv'
    BY <1>1, <1>2, <1>11 DEF StorageInv, StateInv, KeepInv
  <1>13. DiskInv'
    <2>1. risk = "none" => \A d \in undone : d.log = dir.log
      BY <1>1 DEF StorageInv, DiskInv
    <2>2. risk' = "none" => \A d \in undone' : d.log = dir'.log
      BY <2>1, <1>2, <1>4
    <2>3. QED
      BY <2>2, <1>7, <1>8 DEF DiskInv
  <1>14. FoundInv'
    BY <1>7, <1>8 DEF FoundInv
  <1>15. CallInv'
    <2>1. Snapshotting'
      BY <1>2, <1>3, <1>4, <1>8, <1>11 DEF Snapshotting
    <2>2. QED
      BY <2>1, <1>1, <1>2 DEF CallInv
  <1>16. AbstractStep
    BY <1>1, <1>2 DEF AbstractStep
  <1>17. QED
    BY <1>9, <1>10, <1>12, <1>13, <1>14, <1>15, <1>16 DEF StorageInv
\* The snapshot is certain; the log is to go on from it.
LEMMA SnapshotSavedStep ==
  ASSUME StorageInv, SnapshotSaved
  PROVE  StorageInv' /\ AbstractStep
  <1>1. phase = "up" /\ call.pc = "saved" /\ Snapshotting
    BY CallIs DEF SnapshotSaved
  <1> DEFINE s == call.ops
             d == SubSeq(promised, Len(s) + 1, Len(promised))
  <1>2. /\ undone' = {} /\ state' = s
        /\ call' = Rewriting(Beyond(entries, Len(s)), SeedOf(s), Len(s), call.goal)
        /\ UNCHANGED <<dir, entries, seed, base, commit, phase, promised, maybe, named, risk>>
    BY DEF SnapshotSaved
  <1>3. /\ s \in Seq(Ops) /\ Len(s) > base /\ Len(s) \in Nat
        /\ call.goal = s \o d /\ call.goal \in Possible /\ call.goal \in Seq(Ops)
        /\ Loaded(dir) = s
    BY <1>1, LenProperties DEF Snapshotting
  <1> HIDE DEF s
  <1>4. d \in Seq(Ops)
    BY <1>3, RestFacts DEF StorageInv, StorageTypes
  <1>5. Chained(Beyond(entries, Len(s)), SeedOf(s)) = Run(d, s)
    <2>1. Len(s) >= Len(Under)
      BY <1>1, <1>3, UpFacts
    <2>2. LET w == Under \o Listed
          IN Chained(Beyond(Run(Listed, Under), Len(s)), SeedOf(s)) =
               Run(SubSeq(w, Len(s) + 1, Len(w)), s)
      BY <2>1, <1>1, <1>3, UpFacts, RebaseFacts
    <2>3. QED
      BY <2>2, <1>1, UpFacts
  <1> HIDE DEF d
  <1>6. Run(d, s) \in Seq(Recs) /\ OpsOf(Run(d, s)) = d
    BY <1>3, <1>4, RunFacts
  <1>7. call' = [pc |-> "rewrite", recs |-> Run(d, s), seed |-> SeedOf(s), base |-> Len(s),
                 goal |-> call.goal]
    BY <1>2, <1>5 DEF Rewriting
  <1>8. SeedOf(s) \in Hashes /\ SeedOf(s).snap = s
    <2>1. <<>> \in Seq(Ops)
      BY EmptySeq
    <2>2. QED
      BY <2>1, <1>3, HashFacts DEF SeedOf
  <1>9. \A im \in Images' : im \in Images
    <2>1. ASSUME NEW im \in ImagesOf(dir, {}, risk)
          PROVE  im \in Images
      BY <2>1, ImagesAre DEF Images
    <2>2. Images' = ImagesOf(dir, {}, risk)
      BY <1>2 DEF Images
    <2>3. QED
      BY <2>1, <2>2
  <1>10. Under' = Under /\ Listed' = Listed /\ Possible' = Possible
    BY <1>2 DEF Under, Listed, Possible
  <1>11. \A im \in Images' : Fits(im[1], im[2], Under, Listed) /\ Finds(im[1], im[2], Possible)
    BY <1>1, <1>9, ImageFacts
  <1>12. StorageTypes'
    BY <1>2, <1>3 DEF StorageInv, StorageTypes
  <1>13. ListInv'
    BY <1>2, ListFrame
  <1>14. StateInv'
    <2>1. seed.snap # s
      BY <1>1, <1>3, UpFacts DEF Under
    <2>2. call'.pc = "rewrite" /\ call'.seed # seed'
      BY <2>1, <1>2, <1>7, <1>8
    <2>3. QED
      BY <2>2 DEF StateInv
  <1>15. KeepInv'
    BY <1>2 DEF StorageInv, KeepInv
  <1>16. DiskInv' /\ FoundInv'
    BY <1>2, <1>10, <1>11 DEF DiskInv, FoundInv
  <1>17. CallInv'
    <2>1. /\ call'.pc = "rewrite" /\ call'.recs = Run(d, s) /\ call'.seed = SeedOf(s)
          /\ call'.base = Len(s) /\ call'.goal = call.goal
      BY <1>7
    <2>2. call' \in [pc : {"rewrite", "replaced"}, recs : Seq(Recs), seed : Hashes, base : Nat,
                     goal : Seq(Ops)]
      <3> HIDE DEF Recs, Hashes
      <3>1. QED
        BY <1>3, <1>6, <1>7, <1>8
    <2>3. Extends(call.goal, s)
      <3>1. Agree(s, s \o d, Len(s))
        BY <1>3, <1>4, AgreeJoin
      <3>2. QED
        BY <3>1, <1>3 DEF Extends
    <2>4. \A e \in Shown' : Loaded(e) = s
      BY <1>2, <1>3 DEF Shown
    <2>5. (\A e \in Shown : Replaces(e, call.seed.snap, call.recs))'
      BY <2>1, <2>4, <1>8 DEF Replaces
    <2>6. call'.seed = SeedOf(call'.seed.snap) /\ call'.base = Len(call'.seed.snap)
      BY <2>1, <1>8
    <2>7. call'.recs = Run(OpsOf(call'.recs), call'.seed.snap)
      BY <2>1, <1>6, <1>8
    <2>8. call'.goal = call'.seed.snap \o OpsOf(call'.recs) /\ call'.goal \in Possible'
      BY <2>1, <1>3, <1>6, <1>8, <1>10
    <2>9. call'.base <= Len(state') /\ Len(state') <= call'.base /\ Extends(call'.goal, state')
      BY <2>1, <2>3, <1>2, <1>3
    <2>10. Replacing'
      BY <2>1, <2>2, <2>5, <2>6, <2>7, <2>8, <2>9 DEF Replacing
    <2>11. QED
      BY <2>10, <1>1, <1>2 DEF CallInv
  <1>18. AbstractStep
    BY <1>1, <1>2 DEF AbstractStep
  <1>19. QED
    BY <1>12, <1>13, <1>14, <1>15, <1>16, <1>17, <1>18 DEF StorageInv
\* What a recovery finds in a log that was just written.
LEMMA ReplacedFinds ==
  ASSUME NEW t \in Seq(Ops), NEW o \in Seq(Ops), NEW d \in Dirs, Replaces(d, t, Run(o, t)),
         NEW C, t \o o \in C, o = <<>> /\ Loaded(d) # t => Loaded(d) \in C
  PROVE  Fits(Loaded(d), Run(o, t), t, o) /\ Finds(Loaded(d), Run(o, t), C)
  <1> DEFINE s == Loaded(d)
  <1>1. s \in Seq(Ops) /\ (s = t \/ (Len(s) > Len(t) /\ Extends(s, t)))
    BY LoadedFacts DEF Replaces
  <1> HIDE DEF s
  <1>2. /\ Fits(s, Run(o, t), t, o)
        /\ s = t => Finds(s, Run(o, t), {t \o o})
        /\ s # t => (~Corrupt(Run(o, t), SeedOf(s)) => o = <<>>) /\ Finds(s, Run(o, t), {s})
    BY <1>1, RunFits
  <1>3. CASE s = t
    BY <1>2, <1>3 DEF Finds, s
  <1>4. CASE s # t
    BY <1>2, <1>4 DEF Finds, s
  <1>5. QED
    BY <1>3, <1>4

\* The new log is there, the old one may come back.
LEMMA ReplaceLogStep ==
  ASSUME StorageInv, ReplaceLog
  PROVE  StorageInv' /\ AbstractStep
  <1>1. phase = "up" /\ call.pc = "rewrite" /\ Replacing
    BY CallIs DEF ReplaceLog
  <1> DEFINE f == LogFile(call.recs, Len(call.recs))
             t == call.seed.snap
             o == OpsOf(call.recs)
  <1>2. /\ dir' = [dir EXCEPT !.log = f] /\ undone' = undone \cup {dir}
        /\ call' = [call EXCEPT !.pc = "replaced"]
        /\ UNCHANGED <<entries, seed, base, state, commit, phase, promised, maybe, named, risk>>
    BY DEF ReplaceLog, memory, SetDir
  <1>3. /\ call.recs \in Seq(Recs) /\ call.recs = Run(o, t) /\ call.goal = t \o o
        /\ call.goal \in Possible /\ Len(call.recs) \in Nat
    BY <1>1, LenProperties DEF Replacing
  <1>4. t \in Seq(Ops) /\ o \in Seq(Ops)
    BY <1>1, <1>3, OpsOfFacts DEF Replacing, Hashes
  <1>5. f \in Files /\ f.recs = call.recs /\ f.synced = Len(call.recs) /\ Survivors(f) = {call.recs}
    BY <1>3, LogFileFacts, SurvivorFacts
  <1> HIDE DEF f, t, o
  <1>6. /\ dir \in Dirs /\ undone \in SUBSET Dirs
        /\ dir' \in Dirs /\ undone' \in SUBSET Dirs /\ dir'.log = f /\ Loaded(dir') = Loaded(dir)
    <2>1. dir \in Dirs /\ undone \in SUBSET Dirs
      BY DEF StorageInv, StorageTypes
    <2>2. /\ [dir EXCEPT !.log = f] \in Dirs /\ [dir EXCEPT !.log = f].log = f
          /\ [dir EXCEPT !.log = f].cur = dir.cur /\ [dir EXCEPT !.log = f].prev = dir.prev
      <3> HIDE DEF Files, Snaps
      <3>1. QED
        BY <2>1, <1>5 DEF Dirs
    <2>3. QED
      BY <2>1, <2>2, <1>2 DEF Loaded
  <1>7. Finds(Loaded(dir), call.recs, Possible)
    <2>1. dir \in Shown
      BY DEF Shown
    <2>2. Replaces(dir, t, Run(o, t))
      BY <2>1, <1>1, <1>3 DEF Replacing, t
    <2>3. o = <<>> => Run(o, t) = <<>>
      BY <1>4, EmptyRun
    <2>4. o = <<>> /\ Loaded(dir) # t => Loaded(dir) \in Possible
      BY <2>2, <2>3 DEF Replaces, Possible
    <2>5. t \o o \in Possible
      BY <1>3
    <2> HIDE DEF Possible
    <2>6. QED
      BY <2>2, <2>4, <2>5, <1>3, <1>4, <1>6, ReplacedFinds
  <1>8. ASSUME NEW im \in ImagesOf(dir', undone', risk)
        PROVE  im \in Images \/ im = <<Loaded(dir), call.recs>>
    <2>1. CASE im = <<Loaded(dir'), dir'.log.recs>>
      BY <2>1, <1>5, <1>6
    <2>2. CASE risk = "none" /\ \E e \in {dir'} \cup undone' : \E rs \in Survivors(e.log) : im = <<Loaded(e), rs>>
      <3>1. PICK e \in {dir'} \cup undone' : \E rs \in Survivors(e.log) : im = <<Loaded(e), rs>>
        BY <2>2
      <3>2. PICK rs \in Survivors(e.log) : im = <<Loaded(e), rs>>
        BY <3>1
      <3>3. CASE e = dir'
        BY <3>2, <3>3, <1>5, <1>6
      <3>4. CASE e \in {dir} \cup undone
        <4>1. im \in Images
          BY <3>2, <3>4, <2>2, ImagesAre DEF Images
        <4>2. QED
          BY <4>1
      <3>5. QED
        BY <3>1, <3>3, <3>4, <1>2
    <2>3. \/ im = <<Loaded(dir'), dir'.log.recs>>
          \/ risk = "none" /\ \E e \in {dir'} \cup undone' : \E rs \in Survivors(e.log) : im = <<Loaded(e), rs>>
      BY <1>8, ImagesAre
    <2>4. QED
      BY <2>1, <2>2, <2>3
  <1>9. ASSUME NEW im \in Images'
        PROVE  Finds(im[1], im[2], Possible)
    <2>1. im \in ImagesOf(dir', undone', risk)
      BY <1>2 DEF Images
    <2>2. CASE im \in Images
      BY <2>2, <1>1, ImageFacts
    <2>3. CASE im = <<Loaded(dir), call.recs>>
      BY <2>3, <1>7
    <2>4. QED
      BY <2>1, <2>2, <2>3, <1>8
  <1>10. Under' = Under /\ Listed' = Listed /\ Possible' = Possible
    BY <1>2 DEF Under, Listed, Possible
  <1>11. StorageTypes'
    BY <1>2, <1>6 DEF StorageInv, StorageTypes
  <1>12. ListInv'
    BY <1>2, ListFrame
  <1>13. /\ call'.pc = "replaced" /\ call'.recs = call.recs /\ call'.seed = call.seed
         /\ call'.base = call.base /\ call'.goal = call.goal
         /\ call' \in [pc : {"rewrite", "replaced"}, recs : Seq(Recs), seed : Hashes, base : Nat,
                       goal : Seq(Ops)]
    <2> HIDE DEF Recs, Hashes
    <2>1. QED
      BY <1>1, <1>2 DEF Replacing
  <1>14. StateInv' /\ DiskInv' /\ KeepInv'
    BY <1>2, <1>13 DEF StorageInv, StateInv, DiskInv, KeepInv
  <1>15. FoundInv'
    BY <1>9, <1>10 DEF FoundInv
  <1>16. CallInv'
    <2>1. ASSUME NEW d \in Shown'
          PROVE  Replaces(d, call.seed.snap, call.recs)'
      <3>1. d \in {dir'} \cup (IF risk = "none" THEN undone \cup {dir} ELSE {})
        BY <1>2 DEF Shown
      <3>2. \E e \in Shown : Loaded(d) = Loaded(e)
        BY <3>1, <1>6 DEF Shown
      <3>3. PICK e \in Shown : Loaded(d) = Loaded(e)
        BY <3>2
      <3>4. Replaces(e, call.seed.snap, call.recs)
        BY <1>1 DEF Replacing
      <3>5. QED
        BY <3>3, <3>4, <1>2, <1>13 DEF Replaces
    <2>2. dir'.log = LogFile(call'.recs, Len(call'.recs))
      BY <1>6, <1>13 DEF f
    <2>3. /\ call.seed = SeedOf(call.seed.snap) /\ call.base = Len(call.seed.snap)
          /\ call.recs = Run(OpsOf(call.recs), call.seed.snap)
          /\ call.goal = call.seed.snap \o OpsOf(call.recs) /\ call.goal \in Possible
          /\ call.base <= Len(state) /\ (Len(state) <= commit \/ Len(state) <= call.base)
          /\ Extends(call.goal, state)
      BY <1>1 DEF Replacing
    <2>4. Replacing'
      BY <2>1, <2>2, <2>3, <1>2, <1>10, <1>13 DEF Replacing
    <2>5. QED
      BY <2>4, <1>1, <1>2 DEF CallInv
  <1>17. AbstractStep
    BY <1>1, <1>2 DEF AbstractStep
  <1>18. QED
    BY <1>11, <1>12, <1>14, <1>15, <1>16, <1>17 DEF StorageInv

\* A rewrite that succeeds: what the caller promised is what there is.
LEMMA LogReplacedStep ==
  ASSUME StorageInv, LogReplaced
  PROVE  StorageInv' /\ AbstractStep
  <1>1. phase = "up" /\ call.pc = "replaced" /\ Replacing
    BY CallIs DEF LogReplaced
  <1> DEFINE rs == call.recs
             t == call.seed.snap
             o == OpsOf(call.recs)
             g == call.goal
             s == Loaded(dir)
             k == IF call.base > commit THEN call.base ELSE commit
  <1>2. /\ undone' = {} /\ call' = Idle /\ entries' = rs /\ seed' = call.seed /\ base' = call.base
        /\ commit' = k /\ promised' = g /\ maybe' = (IF rs = <<>> THEN {s} \ {t} ELSE {})
        /\ named' = TRUE /\ risk' = "none" /\ UNCHANGED <<dir, state, phase>>
    BY DEF LogReplaced, StorageInv, StorageTypes
  <1>3. /\ rs \in Seq(Recs) /\ rs = Run(o, t) /\ g = t \o o /\ g \in Possible /\ g \in Seq(Ops)
        /\ call.seed = SeedOf(t) /\ call.seed \in Hashes /\ call.base = Len(t) /\ call.base \in Nat
        /\ Len(rs) \in Nat
        /\ call.base <= Len(state) /\ (Len(state) <= commit \/ Len(state) <= call.base)
        /\ Extends(g, state)
        /\ Replaces(dir, t, rs)
        /\ dir.log = LogFile(rs, Len(rs))
    <2>1. dir \in Shown
      BY DEF Shown
    <2>2. QED
      BY <2>1, <1>1, LenProperties DEF Replacing
  <1>4. t \in Seq(Ops) /\ o \in Seq(Ops) /\ Len(t) \in Nat
    BY <1>1, <1>3, OpsOfFacts, LenProperties DEF Replacing, Hashes
  <1>5. /\ dir \in Dirs /\ s \in Seq(Ops) /\ commit \in Nat /\ promised \in Seq(Ops)
        /\ maybe \in SUBSET Seq(Ops) /\ state \in Seq(Ops) /\ Len(state) \in Nat
    BY LoadedFacts, LenProperties DEF StorageInv, StorageTypes
  <1>6. k \in Nat /\ k >= commit /\ k >= Len(t) /\ (k = commit \/ k = Len(t))
    BY <1>3, <1>4, <1>5
  <1> HIDE DEF rs, t, o, g, s, k
  <1>7. o = <<>> => rs = <<>>
    BY <1>3, <1>4, EmptyRun
  <1>8. s # t => Len(s) > Len(t) /\ Extends(s, t) /\ (rs = <<>> => s \in maybe)
    BY <1>3 DEF Replaces, s
  <1>9. maybe' \subseteq maybe
    BY <1>2, <1>8
  <1>10. Under' = t /\ Listed' = o
    BY <1>2 DEF Under, Listed, t, o, rs
  <1>11. Len(t) <= Len(g) /\ commit <= Len(g) /\ k <= Len(g) /\ Len(g) \in Nat /\ Len(g) = Len(t) + Len(o)
    <2>1. Len(g) = Len(t) + Len(o) /\ Len(o) \in Nat
      BY <1>3, <1>4, ConcatProperties, LenProperties
    <2>2. commit <= Len(g)
      <3>1. g = promised \/ Agree(g, promised, commit)
        BY <1>3 DEF Possible, StorageInv, KeepInv
      <3>2. QED
        BY <3>1 DEF Agree, StorageInv, KeepInv
    <2>3. QED
      BY <2>1, <2>2, <1>4, <1>6
  <1>12. ASSUME NEW im \in Images'
         PROVE  im = <<s, rs>>
    <2>1. dir.log \in Files /\ dir.log.recs = rs /\ dir.log.synced = Len(rs)
      BY <1>3, LogFileFacts
    <2>2. Survivors(dir.log) = {rs}
      BY <2>1, SurvivorFacts
    <2>3. Images' = ImagesOf(dir, {}, "none")
      BY <1>2 DEF Images
    <2>4. im \in ImagesOf(dir, {}, "none")
      BY <2>3
    <2>5. \/ im = <<Loaded(dir), dir.log.recs>>
          \/ \E e \in {dir} \cup {} : \E q \in Survivors(e.log) : im = <<Loaded(e), q>>
      BY <2>4, ImagesAre
    <2>6. QED
      BY <2>1, <2>2, <2>5 DEF s
  <1>13. Fits(s, rs, t, o) /\ Finds(s, rs, Possible')
    <2>1. g \in Possible'
      BY <1>2 DEF Possible
    <2>2. o = <<>> /\ s # t => s \in Possible'
      BY <1>2, <1>7 DEF Possible
    <2>3. Replaces(dir, t, Run(o, t)) /\ t \o o \in Possible'
      BY <2>1, <1>3
    <2> HIDE DEF Possible
    <2>4. Fits(Loaded(dir), Run(o, t), t, o) /\ Finds(Loaded(dir), Run(o, t), Possible')
      BY <2>2, <2>3, <1>4, <1>5, ReplacedFinds DEF s
    <2>5. QED
      BY <2>4, <1>3 DEF s
  <1>14. StorageTypes'
    BY <1>2, <1>3, <1>5, <1>6, <1>9 DEF StorageInv, StorageTypes
  <1>15. ListInv'
    BY <1>2, <1>3, <1>6, <1>10 DEF ListInv
  <1>16. StateInv'
    <2>1. Len(state) <= k
      BY <1>3, <1>4, <1>5, <1>6
    <2>2. QED
      BY <2>1, <1>2, <1>3 DEF StateInv
  <1>17. DiskInv'
    BY <1>2, <1>10, <1>12, <1>13 DEF DiskInv
  <1>18. FoundInv'
    BY <1>12, <1>13 DEF FoundInv
  <1>19. KeepInv'
    <2>1. ASSUME rs = <<>>, s # t
          PROVE  Agree(s, g, k)
      <3>1. o = <<>> /\ g = t
        <4>1. o = <<>>
          <5>1. <<>> \in Seq(Recs) /\ OpsOf(<<>>) = <<>>
            BY <1>4, EmptyRun
          <5>2. QED
            BY <2>1, <5>1 DEF o, rs
        <4>2. t \o <<>> = t
          BY <1>4, ConcatEmptySeq
        <4>3. QED
          BY <4>1, <4>2, <1>3
      <3>2. k = Len(t)
        <4>1. k <= Len(t)
          BY <3>1, <1>11
        <4>2. QED
          BY <4>1, <1>4, <1>6
      <3>3. Agree(t, s, Len(t))
        BY <2>1, <1>8 DEF Extends
      <3>4. QED
        BY <3>1, <3>2, <3>3, <1>4, <1>5, AgreeFacts
    <2>2. QED
      BY <2>1, <1>2, <1>11 DEF KeepInv
  <1>20. CallInv'
    BY <1>2 DEF CallInv
  <1>21. AbstractStep
    BY <1>1, <1>2, <1>3, <1>6, <1>9, <1>11 DEF AbstractStep
  <1>22. QED
    BY <1>14, <1>15, <1>16, <1>17, <1>18, <1>19, <1>20, <1>21 DEF StorageInv
\* What is possible from then on has what is committed now.
LEMMA AdvanceStep ==
  ASSUME StorageInv, Advance
  PROVE  StorageInv' /\ AbstractStep
  <1>1. phase = "up" /\ call = Idle /\ call.pc = "idle"
    BY IdleFacts DEF Advance, Calling
  <1>2. Held = promised
    BY <1>1, HeldIsPromised
  <1>3. Content(state, entries) = promised
    BY <1>2 DEF Held
  <1>4. PICK k \in (commit + 1)..LastIndex :
          /\ commit' = k
          /\ state' = SubSeq(promised, 1, IF k < Len(promised) THEN k ELSE Len(promised))
          /\ maybe' = {c \in maybe : Len(c) >= k /\ SubSeq(c, 1, k) = SubSeq(promised, 1, k)}
    BY <1>2, <1>3 DEF Advance
  <1>5. UNCHANGED <<dir, undone, entries, seed, base, call, phase, promised, named, risk>>
    BY DEF Advance
  <1>6. /\ promised \in Seq(Ops) /\ commit \in Nat /\ base \in Nat /\ base <= commit
        /\ Len(promised) \in Nat /\ maybe \in SUBSET Seq(Ops)
        /\ Under \in Seq(Ops) /\ Listed \in Seq(Ops) /\ Len(Under) = base
        /\ promised = Under \o Listed
    BY <1>1, UpFacts, LenProperties DEF StorageInv, StorageTypes
  <1>7. k \in Nat /\ k > commit /\ k <= Len(promised) /\ Listed # <<>>
    <2>1. LastIndex \in Nat /\ LastIndex <= Len(promised) /\ (Listed = <<>> => LastIndex = 0)
      BY <1>1, <1>6, LastIndexIs
    <2>2. QED
      BY <2>1, <1>4, <1>6
  <1>8. state' = SubSeq(promised, 1, k)
    <2>1. (IF k < Len(promised) THEN k ELSE Len(promised)) = k
      BY <1>6, <1>7
    <2>2. QED
      BY <2>1, <1>4
  <1>9. /\ state' \in Seq(Ops) /\ Len(state') = k /\ Agree(SubSeq(promised, 1, k), promised, k)
    <2>1. k \in 0..Len(promised) /\ k <= k
      BY <1>6, <1>7
    <2>2. SubSeq(promised, 1, k) \in Seq(Ops) /\ Len(SubSeq(promised, 1, k)) = k
      BY <2>1, <1>6, FirstFacts
    <2>3. Agree(SubSeq(promised, 1, k), promised, k)
      BY <2>1, <1>6, <1>7, AgreeCut
    <2>4. QED
      BY <2>2, <2>3, <1>8
  <1>10. \A c \in maybe : c \in maybe' <=> Agree(c, promised, k)
    <2>1. TAKE c \in maybe
    <2>2. c \in Seq(Ops) /\ Len(c) \in Nat
      BY <1>6, LenProperties
    <2>3. Agree(c, promised, k) <=> k <= Len(c) /\ SubSeq(c, 1, k) = SubSeq(promised, 1, k)
      BY <2>2, <1>6, <1>7, AgreeIsCut
    <2>4. QED
      BY <2>2, <2>3, <1>4, <1>7
  <1>11. maybe' \subseteq maybe
    BY <1>4
  <1>12. Under' = Under /\ Listed' = Listed /\ Images' = Images
    BY <1>5 DEF Under, Listed, Images
  <1>13. ASSUME NEW im \in Images
         PROVE  Fits(im[1], im[2], Under, Listed) /\ Finds(im[1], im[2], Possible')
    <2> DEFINE s == im[1]
               rs == im[2]
    <2>1. /\ s \in Seq(Ops) /\ rs \in Seq(Recs)
          /\ Fits(s, rs, Under, Listed) /\ Finds(s, rs, Possible)
      BY <1>1, ImageFacts
    <2> HIDE DEF s, rs
    <2>2. ASSUME ~Corrupt(rs, SeedOf(s))
          PROVE  s \o OpsOf(WholePart(rs)) \in Possible'
      <3> DEFINE a == OpsOf(WholePart(rs))
                 c == s \o a
      <3>1. s = Under
        BY <2>1, <2>2, <1>6, <1>7, StrayFits
      <3>2. Extends(a, Listed)
        BY <2>1, <2>2, <3>1 DEF Fits
      <3>3. a \in Seq(Ops)
        BY <2>1, WholeFacts, OpsOfFacts
      <3>4. c \in Possible
        BY <2>1, <2>2 DEF Finds
      <3> HIDE DEF a
      <3>5. Extends(c, promised)
        BY <3>1, <3>2, <3>3, <1>6, AgreeAfter
      <3>6. c \in Seq(Ops)
        BY <3>4, <1>6 DEF Possible
      <3> HIDE DEF c
      <3>7. Agree(c, promised, k)
        BY <3>5, <3>6, <1>6, <1>7, AgreeFacts DEF Extends
      <3>8. c \in Possible'
        BY <3>4, <3>7, <1>5, <1>10 DEF Possible
      <3>9. QED
        BY <3>8 DEF a, c
    <2>3. QED
      BY <2>1, <2>2 DEF Finds, s, rs
  <1>14. StorageTypes'
    BY <1>4, <1>5, <1>7, <1>9, <1>11 DEF StorageInv, StorageTypes
  <1>15. ListInv'
    BY <1>1, <1>4, <1>5, <1>6, <1>7, <1>12, UpFacts DEF ListInv
  <1>16. StateInv'
    <2>1. Extends(promised, state')
      BY <1>8, <1>9 DEF Extends
    <2>2. base <= k /\ k <= k
      BY <1>6, <1>7
    <2>3. QED
      BY <2>1, <2>2, <1>4, <1>5, <1>9 DEF StateInv
  <1>17. DiskInv'
    BY <1>1, <1>5, <1>12, <1>13 DEF DiskInv, StorageInv
  <1>18. FoundInv'
    BY <1>12, <1>13 DEF FoundInv
  <1>19. KeepInv'
    BY <1>4, <1>5, <1>7, <1>10, <1>11 DEF KeepInv
  <1>20. CallInv'
    BY <1>1, <1>5 DEF CallInv
  <1>21. AbstractStep
    BY <1>1, <1>4, <1>5, <1>7, <1>11 DEF AbstractStep
  <1>22. QED
    BY <1>14, <1>15, <1>16, <1>17, <1>18, <1>19, <1>20, <1>21 DEF StorageInv

LEMMA KillStep ==
  ASSUME StorageInv, Kill
  PROVE  StorageInv' /\ AbstractStep
  <1>1. /\ phase = "up" /\ phase' = "down" /\ call' = Idle
        /\ UNCHANGED <<dir, undone, entries, seed, base, state, commit, promised, maybe, named, risk>>
    BY DEF Kill, Stop, memory
  <1>2. Images' = Images /\ Possible' = Possible
    BY <1>1 DEF Images, Possible
  <1>3. FoundInv'
    BY <1>1, <1>2 DEF StorageInv, FoundInv
  <1>4. StorageTypes' /\ KeepInv'
    BY <1>1 DEF StorageInv, StorageTypes, KeepInv
  <1>5. ListInv' /\ StateInv' /\ DiskInv' /\ CallInv'
    BY <1>1 DEF ListInv, StateInv, DiskInv, CallInv
  <1>6. AbstractStep
    BY <1>1 DEF AbstractStep
  <1>7. QED
    BY <1>3, <1>4, <1>5, <1>6 DEF StorageInv

\* A power loss leaves one of the images.
LEMMA PowerLossStep ==
  ASSUME StorageInv, PowerLoss, risk' # "met"
  PROVE  StorageInv' /\ AbstractStep
  <1>1. /\ phase = "up" /\ phase' = "down" /\ call' = Idle /\ undone' = {}
        /\ risk = "none" /\ risk' = "none"
        /\ UNCHANGED <<entries, seed, base, state, commit, promised, maybe, named>>
    BY DEF PowerLoss, Stop, memory
  <1>2. PICK d \in {dir} \cup undone : \E rs \in Survivors(d.log) :
          dir' = [d EXCEPT !.log = LogFile(rs, Len(rs))]
    BY DEF PowerLoss
  <1>3. PICK rs \in Survivors(d.log) : dir' = [d EXCEPT !.log = LogFile(rs, Len(rs))]
    BY <1>2
  <1>4. d \in Dirs /\ rs \in Seq(Recs) /\ Len(rs) \in Nat
    <2>1. d \in Dirs
      BY <1>2 DEF StorageInv, StorageTypes
    <2>2. QED
      BY <2>1, <1>3, LoadedFacts, SurvivorFacts, LenProperties
  <1>5. /\ LogFile(rs, Len(rs)) \in Files /\ LogFile(rs, Len(rs)).recs = rs
        /\ Survivors(LogFile(rs, Len(rs))) = {rs}
    BY <1>4, LogFileFacts, SurvivorFacts
  <1>6. dir' \in Dirs /\ dir'.log = LogFile(rs, Len(rs)) /\ Loaded(dir') = Loaded(d)
    <2> DEFINE f == LogFile(rs, Len(rs))
    <2>1. f \in Files /\ dir' = [d EXCEPT !.log = f]
      BY <1>3, <1>5
    <2> HIDE DEF f, Files, Snaps
    <2>2. /\ dir' \in Dirs /\ dir'.log = f /\ dir'.cur = d.cur /\ dir'.prev = d.prev
      BY <2>1, <1>4 DEF Dirs
    <2>3. QED
      BY <2>2 DEF Loaded, f
  <1>7. ASSUME NEW im \in Images'
        PROVE  im \in Images
    <2>1. im \in ImagesOf(dir', {}, "none")
      BY <1>1 DEF Images
    <2>2. \/ im = <<Loaded(dir'), dir'.log.recs>>
          \/ \E e \in {dir'} \cup {} : \E q \in Survivors(e.log) : im = <<Loaded(e), q>>
      BY <2>1, ImagesAre
    <2>3. im = <<Loaded(d), rs>>
      BY <2>2, <1>5, <1>6
    <2>4. QED
      BY <2>3, <1>1, <1>2, <1>3, ImagesAre DEF Images
  <1>8. Possible' = Possible
    BY <1>1 DEF Possible
  <1>9. FoundInv'
    BY <1>1, <1>7, <1>8 DEF StorageInv, FoundInv
  <1>10. StorageTypes' /\ KeepInv'
    BY <1>1, <1>6 DEF StorageInv, StorageTypes, KeepInv
  <1>11. ListInv' /\ StateInv' /\ DiskInv' /\ CallInv'
    BY <1>1 DEF ListInv, StateInv, DiskInv, CallInv
  <1>12. AbstractStep
    BY <1>1 DEF AbstractStep
  <1>13. QED
    BY <1>9, <1>10, <1>11, <1>12 DEF StorageInv
\* A start finds one of the images, and what it finds is what there is.
LEMMA OpenStep ==
  ASSUME StorageInv, Open, risk' # "met"
  PROVE  StorageInv' /\ AbstractStep
  <1> DEFINE r == dir.log.recs
             s == Loaded(dir)
             rs == WholePart(r)
             o == OpsOf(rs)
             f == LogFile(rs, Len(rs))
  <1>1. phase = "down" /\ call' = call /\ call = Idle
    BY DEF Open, StorageInv, CallInv
  <1>2. /\ dir \in Dirs /\ undone \in SUBSET Dirs /\ s \in Seq(Ops) /\ r \in Seq(Recs)
        /\ promised \in Seq(Ops) /\ commit \in Nat /\ commit <= Len(promised)
    BY LoadedFacts DEF StorageInv, StorageTypes, KeepInv
  <1>3. CASE Corrupt(r, SeedOf(s))
    <2>1. /\ phase' = "refused"
          /\ UNCHANGED <<dir, undone, entries, seed, base, state, commit, promised, maybe, named, risk>>
      BY <1>3 DEF Open, memory
    <2>2. StorageTypes' /\ KeepInv'
      BY <2>1 DEF StorageInv, StorageTypes, KeepInv
    <2>3. ListInv' /\ StateInv' /\ DiskInv' /\ FoundInv' /\ CallInv'
      BY <2>1, <1>1 DEF ListInv, StateInv, DiskInv, FoundInv, CallInv
    <2>4. AbstractStep
      BY <2>1, <1>1 DEF AbstractStep
    <2>5. QED
      BY <2>2, <2>3, <2>4 DEF StorageInv
  <1>4. CASE ~Corrupt(r, SeedOf(s))
    <2>1. /\ phase' = "up" /\ entries' = rs /\ seed' = SeedOf(s) /\ base' = Len(s) /\ state' = s
          /\ commit' = Len(s) /\ promised' = Content(s, rs) /\ maybe' = {} /\ named' = TRUE
          /\ risk' = "open" \/ (risk' = "none" /\ undone = {} /\ dir'.log.synced = Len(rs))
      BY <1>4 DEF Open
    <2>2. /\ rs = r => UNCHANGED <<dir, undone>>
          /\ rs # r => /\ dir' = [dir EXCEPT !.log = f]
                       /\ undone' = {IF d.log = dir.log THEN [d EXCEPT !.log = f] ELSE d : d \in undone}
      BY <1>4 DEF Open
    <2>3. rs \in Seq(Recs) /\ Len(rs) \in Nat /\ o \in Seq(Ops) /\ rs = Run(o, s)
      <3>1. rs \in Seq(Recs)
        BY <1>2, WholeFacts
      <3>2. QED
        BY <3>1, <1>2, <1>4, RecoverFacts, OpsOfFacts, LenProperties
    <2>4. f \in Files /\ f.recs = rs
      BY <2>3, LogFileFacts
    <2>5. promised' = s \o o
      <3>1. Extends(s \o o, s) /\ Len(s) >= Len(s)
        <4>1. Len(s) \in Nat
          BY <1>2, LenProperties
        <4>2. Agree(s, s \o o, Len(s))
          BY <4>1, <1>2, <2>3, AgreeJoin
        <4>3. QED
          BY <4>1, <4>2 DEF Extends
      <3> HIDE DEF o, s, rs
      <3>2. Content(s, Run(o, s)) = s \o o
        BY <3>1, <1>2, <2>3, ContentOfRun
      <3>3. QED
        BY <3>2, <2>1, <2>3
    <2>6. s \o o \in Possible
      <3> DEFINE im == <<s, r>>
      <3>1. im \in Images /\ im[1] = s /\ im[2] = r
        BY ImagesAre DEF Images
      <3> HIDE DEF im
      <3>2. Finds(s, r, Possible)
        BY <3>1, <1>1 DEF StorageInv, FoundInv
      <3>3. QED
        BY <3>2, <1>4 DEF Finds
    <2> HIDE DEF r, s, rs, o, f
    <2>7. /\ dir' \in Dirs /\ undone' \in SUBSET Dirs /\ dir'.log.recs = rs /\ Loaded(dir') = s
          /\ undone = {} => undone' = {}
      <3>1. CASE rs = r
        BY <3>1, <2>2, <1>2 DEF r, s
      <3>2. CASE rs # r
        <4>1. \A d \in Dirs : /\ [d EXCEPT !.log = f] \in Dirs /\ [d EXCEPT !.log = f].log = f
                              /\ [d EXCEPT !.log = f].cur = d.cur /\ [d EXCEPT !.log = f].prev = d.prev
          <5> HIDE DEF Files, Snaps
          <5>1. QED
            BY <2>4 DEF Dirs
        <4>2. dir' \in Dirs /\ dir'.log = f /\ dir'.cur = dir.cur /\ dir'.prev = dir.prev
          BY <4>1, <3>2, <2>2, <1>2
        <4>3. undone' \in SUBSET Dirs /\ (undone = {} => undone' = {})
          BY <4>1, <3>2, <2>2, <1>2
        <4>4. QED
          BY <4>2, <4>3, <2>4 DEF Loaded, s
      <3>3. QED
        BY <3>1, <3>2
    <2>8. ASSUME NEW im \in Images'
          PROVE  im = <<s, rs>>
      <3>1. im \in ImagesOf(dir', undone', risk')
        BY DEF Images
      <3>2. \/ im = <<Loaded(dir'), dir'.log.recs>>
            \/ /\ risk' = "none"
               /\ \E e \in {dir'} \cup undone' : \E q \in Survivors(e.log) : im = <<Loaded(e), q>>
        BY <3>1, ImagesAre
      <3>3. CASE im = <<Loaded(dir'), dir'.log.recs>>
        BY <3>3, <2>7
      <3>4. CASE /\ risk' = "none"
                 /\ \E e \in {dir'} \cup undone' : \E q \in Survivors(e.log) : im = <<Loaded(e), q>>
        <4>1. undone' = {} /\ dir'.log.synced = Len(dir'.log.recs) /\ dir'.log \in Files
          BY <3>4, <2>1, <2>7, LoadedFacts
        <4>2. Survivors(dir'.log) = {rs}
          BY <4>1, <2>7, SurvivorFacts
        <4>3. QED
          BY <4>1, <4>2, <3>4, <2>7
      <3>5. QED
        BY <3>2, <3>3, <3>4
    <2>9. Fits(s, rs, s, o) /\ Finds(s, rs, {s \o o})
      <3>1. Fits(s, Run(o, s), s, o) /\ Finds(s, Run(o, s), {s \o o})
        BY <1>2, <2>3, RunFits
      <3>2. QED
        BY <3>1, <2>3
    <2>10. Under' = s /\ Listed' = o
      BY <2>1 DEF Under, Listed, SeedOf, o
    <2>11. s \o o \in Seq(Ops) /\ Len(s) \in Nat /\ Len(s) <= Len(s \o o) /\ Extends(s \o o, s)
      <3>1. Len(s) \in Nat /\ Len(o) \in Nat
        BY <1>2, <2>3, LenProperties
      <3>2. Agree(s, s \o o, Len(s)) /\ s \o o \in Seq(Ops) /\ Len(s \o o) = Len(s) + Len(o)
        BY <3>1, <1>2, <2>3, AgreeJoin
      <3>3. QED
        BY <3>1, <3>2 DEF Extends
    <2>12. StorageTypes'
      <3>1. SeedOf(s) \in Hashes
        <4>1. <<>> \in Seq(Ops)
          BY EmptySeq
        <4>2. QED
          BY <4>1, <1>2, HashFacts DEF SeedOf
      <3>2. QED
        BY <3>1, <1>2, <2>1, <2>3, <2>5, <2>7, <2>11 DEF StorageTypes
    <2>13. ListInv'
      BY <2>1, <2>3, <2>5, <2>10, <2>11 DEF ListInv
    <2>14. StateInv'
      BY <2>1, <2>5, <2>11 DEF StateInv
    <2>15. DiskInv'
      <3>1. risk' = "none" => undone' = {}
        BY <2>1, <2>7
      <3>2. \A im \in Images' : Fits(im[1], im[2], s, o)
        BY <2>8, <2>9
      <3>3. QED
        BY <3>1, <3>2, <2>10 DEF DiskInv
    <2>16. FoundInv'
      <3>1. {s \o o} \subseteq Possible'
        BY <2>5 DEF Possible
      <3>2. \A im \in Images' : Finds(im[1], im[2], {s \o o})
        BY <2>8, <2>9
      <3>3. QED
        BY <3>1, <3>2 DEF FoundInv, Finds
    <2>17. KeepInv'
      BY <2>1, <2>5, <2>11 DEF KeepInv
    <2>18. CallInv'
      BY <1>1 DEF CallInv
    <2>19. AbstractStep
      <3>1. Agree(s \o o, promised, commit)
        <4>1. Agree(promised, promised, commit)
          BY <1>2, AgreeFacts
        <4>2. \A c \in maybe : Agree(c, promised, commit)
          BY DEF StorageInv, KeepInv
        <4>3. QED
          BY <4>1, <4>2, <2>6 DEF Possible
      <3>2. QED
        BY <3>1, <1>1, <2>1, <2>5, <2>6, <2>11 DEF AbstractStep
    <2>20. QED
      BY <2>12, <2>13, <2>14, <2>15, <2>16, <2>17, <2>18, <2>19 DEF StorageInv
  <1>5. QED
    BY <1>3, <1>4
-----------------------------------------------------------------------------
(* The refinement. *)

LEMMA InitStep ==
  ASSUME Init
  PROVE  StorageInv
  <1>1. /\ dir = [log |-> LogFile(<<>>, 0), cur |-> NoFile, prev |-> NoFile]
        /\ undone = {} /\ entries = <<>> /\ seed = ZeroSeed /\ base = 0
        /\ state = <<>> /\ commit = 0 /\ call = Idle /\ phase = "up"
        /\ promised = <<>> /\ maybe = {} /\ named = TRUE /\ risk = "none"
    BY DEF Init, Start
  <1>2. /\ <<>> \in Seq(Ops) /\ <<>> \in Seq(Recs) /\ Len(<<>>) = 0
        /\ Run(<<>>, <<>>) = <<>> /\ OpsOf(<<>>) = <<>>
    BY EmptyRun, EmptySeq
  <1>3. LogFile(<<>>, 0) \in Files /\ LogFile(<<>>, 0).recs = <<>> /\ LogFile(<<>>, 0).synced = 0
    <2>1. [recs |-> <<>>, synced |-> 0] \in Files
      <3> HIDE DEF Recs
      <3>1. 0 <= Len(<<>>) /\ 0 \in Nat
        BY <1>2
      <3>2. QED
        BY <3>1, <1>2 DEF Files
    <2>2. QED
      BY <2>1 DEF LogFile
  <1>4. NoFile \in Snaps /\ NoFile.ops = <<>>
    BY <1>2 DEF NoFile, Snaps
  <1>5. dir \in Dirs /\ dir.log = LogFile(<<>>, 0) /\ Loaded(dir) = <<>>
    <2>1. dir \in Dirs /\ dir.log = LogFile(<<>>, 0) /\ dir.cur = NoFile /\ dir.prev = NoFile
      <3> HIDE DEF Files, Snaps
      <3>1. QED
        BY <1>1, <1>3, <1>4 DEF Dirs
    <2>2. QED
      BY <2>1, <1>4 DEF Loaded
  <1>6. seed \in Hashes /\ Under = <<>> /\ Listed = <<>> /\ seed = SeedOf(Under)
    BY <1>1, <1>2, HashFacts DEF ZeroSeed, SeedOf, Under, Listed
  <1>7. <<>> \o <<>> = <<>>
    BY <1>2, ConcatEmptySeq
  <1>8. Extends(<<>>, <<>>)
    BY <1>2 DEF Extends, Agree
  <1>9. \A im \in Images : im = <<<<>>, <<>>>>
    <2>1. Survivors(dir.log) = {<<>>}
      BY <1>2, <1>3, <1>5, SurvivorFacts
    <2>2. TAKE im \in Images
    <2>3. im \in ImagesOf(dir, {}, "none")
      BY <1>1 DEF Images
    <2>4. \/ im = <<Loaded(dir), dir.log.recs>>
          \/ \E e \in {dir} \cup {} : \E q \in Survivors(e.log) : im = <<Loaded(e), q>>
      BY <2>3, ImagesAre
    <2>5. QED
      BY <2>1, <2>4, <1>3, <1>5
  <1>10. Fits(<<>>, <<>>, <<>>, <<>>) /\ Finds(<<>>, <<>>, {<<>>})
    <2>1. /\ Fits(<<>>, Run(<<>>, <<>>), <<>>, <<>>)
          /\ Finds(<<>>, Run(<<>>, <<>>), {<<>> \o <<>>})
      BY <1>2, RunFits
    <2>2. QED
      BY <2>1, <1>2, <1>7
  <1>11. StorageTypes
    BY <1>1, <1>2, <1>5, <1>6 DEF StorageTypes
  <1>12. ListInv
    BY <1>1, <1>2, <1>6, <1>7 DEF ListInv
  <1>13. StateInv
    BY <1>1, <1>2, <1>8 DEF StateInv
  <1>14. DiskInv /\ FoundInv
    BY <1>1, <1>6, <1>9, <1>10 DEF DiskInv, FoundInv, Possible
  <1>15. KeepInv /\ CallInv
    BY <1>1, <1>2 DEF KeepInv, CallInv
  <1>16. QED
    BY <1>11, <1>12, <1>13, <1>14, <1>15 DEF StorageInv

\* Every step keeps the invariant until risk is met.
LEMMA StorageStep ==
  ASSUME StorageInv, Next, risk' # "met"
  PROVE  StorageInv' /\ AbstractStep
  <1>1. CASE WriteBatch
    BY <1>1, WriteBatchStep
  <1>2. CASE WriteFails
    BY <1>2, WriteFailsStep
  <1>3. CASE SyncBatch
    BY <1>3, SyncBatchStep
  <1>4. CASE SyncFails \/ SaveFails \/ RewriteFails
    BY <1>4, FailsStep
  <1>5. CASE Truncate
    BY <1>5, TruncateStep
  <1>6. CASE MaybeSnapshot
    BY <1>6, MaybeSnapshotStep
  <1>7. CASE InstallSnapshot
    BY <1>7, InstallSnapshotStep
  <1>8. CASE KeepPrevious
    BY <1>8, KeepPreviousStep
  <1>9. CASE PlaceSnapshot
    BY <1>9, PlaceSnapshotStep
  <1>10. CASE SnapshotSaved
    BY <1>10, SnapshotSavedStep
  <1>11. CASE ReplaceLog
    BY <1>11, ReplaceLogStep
  <1>12. CASE LogReplaced
    BY <1>12, LogReplacedStep
  <1>13. CASE Advance
    BY <1>13, AdvanceStep
  <1>14. CASE Kill
    BY <1>14, KillStep
  <1>15. CASE PowerLoss
    BY <1>15, PowerLossStep
  <1>16. CASE Open
    BY <1>16, OpenStep
  <1>17. QED
    BY <1>1, <1>2, <1>3, <1>4, <1>5, <1>6, <1>7, <1>8, <1>9, <1>10, <1>11, <1>12, <1>13, <1>14,
       <1>15, <1>16 DEF Next

LEMMA RiskStays ==
  ASSUME Next, risk = "met"
  PROVE  risk' = "met"
  BY DEF Next, WriteBatch, WriteFails, SyncBatch, SyncFails, Truncate, MaybeSnapshot, InstallSnapshot,
         KeepPrevious, PlaceSnapshot, SnapshotSaved, SaveFails, ReplaceLog, LogReplaced, RewriteFails,
         Advance, Kill, PowerLoss, Open

\* What the node keeps, as DurableLog sees it, is what was promised.
Kept == IF phase = "up" /\ call = Idle THEN Held ELSE promised

LEMMA KeptIsPromised ==
  ASSUME StorageInv
  PROVE  Kept = promised
  BY IdleFacts, HeldIsPromised DEF Kept

StorageSafe == risk # "met" => StorageInv

KeptSafe == risk # "met" => Kept = promised

LEMMA SafeStep ==
  ASSUME StorageSafe, [Next]_vars
  PROVE  StorageSafe'
  <1>1. CASE Next
    BY <1>1, StorageStep, RiskStays DEF StorageSafe
  <1>2. CASE UNCHANGED vars
    <2>1. UNCHANGED <<dir, undone, entries, seed, base, state, commit, call, phase, promised, maybe, named, risk>>
      BY <1>2 DEF vars, memory
    <2>2. Images' = Images /\ Possible' = Possible /\ Under' = Under /\ Listed' = Listed /\ Shown' = Shown
      BY <2>1 DEF Images, Possible, Under, Listed, Shown
    <2>3. StorageTypes' = StorageTypes /\ ListInv' = ListInv /\ StateInv' = StateInv
          /\ KeepInv' = KeepInv
      BY <2>1, <2>2 DEF StorageTypes, ListInv, StateInv, KeepInv
    <2>4. DiskInv' = DiskInv /\ FoundInv' = FoundInv
      BY <2>1, <2>2 DEF DiskInv, FoundInv
    <2>5. CallInv' = CallInv
      BY <2>1, <2>2 DEF CallInv, Writing, Snapshotting, Replacing, Replaces
    <2>6. QED
      BY <2>1, <2>3, <2>4, <2>5 DEF StorageSafe, StorageInv
  <1>3. QED
    BY <1>1, <1>2

\* A step keeps the promise of DurableLog, or meets the risk.
LEMMA RefinementStep ==
  ASSUME StorageSafe, StorageSafe', KeptSafe, KeptSafe', [Next]_vars
  PROVE  [Durable!AbstractNext \/ risk' = "met"]_(Durable!abstractVars)
  <1>1. CASE risk' = "met"
    BY <1>1
  <1>2. CASE risk' # "met" /\ UNCHANGED vars
    <2>1. UNCHANGED <<entries, state, commit, call, phase, promised, maybe>>
      BY <1>2 DEF vars, memory
    <2>2. UNCHANGED (Durable!abstractVars)
      BY <2>1 DEF Durable!abstractVars, Held
    <2>3. QED
      BY <2>2
  <1>3. CASE risk' # "met" /\ Next
    <2>1. StorageInv /\ StorageInv' /\ AbstractStep
      BY <1>3, RiskStays, StorageStep DEF StorageSafe
    <2>2. Kept = promised /\ Kept' = promised'
      BY <1>3, RiskStays DEF KeptSafe
    <2>3. /\ promised \in Seq(Ops) /\ promised' \in Seq(Ops) /\ commit \in Nat /\ commit' \in Nat
          /\ maybe' \in SUBSET Seq(Ops) /\ commit <= Len(promised) /\ commit' <= Len(promised')
      BY <2>1 DEF StorageInv, StorageTypes, KeepInv
    <2>4. \A c \in Seq(Ops) : Len(c) \in Nat
      BY LenProperties
    <2>5. ASSUME NEW c \in maybe'
          PROVE  Len(c) >= commit' /\ SubSeq(c, 1, commit') = SubSeq(promised', 1, commit')
      <3>1. Agree(c, promised', commit') /\ c \in Seq(Ops)
        BY <2>1, <2>3 DEF StorageInv, KeepInv
      <3>2. commit' <= Len(c) /\ SubSeq(c, 1, commit') = SubSeq(promised', 1, commit')
        BY <3>1, <2>3, AgreeIsCut
      <3>3. QED
        BY <3>1, <3>2, <2>3, <2>4
    <2>6. Durable!CommittedIsKept'
      BY <2>2, <2>5 DEF Durable!CommittedIsKept, Durable!KeepsStable, Kept
    <2>7. \/ Durable!Begin \/ Durable!Finish \/ Durable!Advance
          \/ Durable!Crash \/ Durable!Recover \/ Durable!Refuse
      <3>1. CASE phase = "up" /\ UNCHANGED <<promised, commit, phase>> /\ maybe \subseteq maybe'
        BY <3>1, <2>2 DEF Durable!Begin, Kept
      <3>2. CASE /\ phase = "up" /\ promised' \in Possible /\ maybe' \subseteq maybe
                 /\ commit' >= commit /\ commit' <= Len(promised') /\ UNCHANGED phase
        BY <3>2, <2>2 DEF Durable!Finish, Kept, Possible
      <3>3. CASE /\ phase = "up" /\ commit' > commit /\ commit' <= Len(promised)
                 /\ maybe' \subseteq maybe /\ UNCHANGED <<promised, phase>>
        BY <3>3, <2>2 DEF Durable!Advance, Kept
      <3>4. CASE phase = "up" /\ phase' = "down" /\ UNCHANGED <<promised, commit, maybe>>
        BY <3>4, <2>2 DEF Durable!Crash, Kept
      <3>5. CASE /\ phase = "down" /\ phase' = "up" /\ promised' \in Possible
                 /\ Agree(promised', promised, commit) /\ commit' <= Len(promised') /\ maybe' = {}
        <4>1. commit <= Len(promised') /\ SubSeq(promised', 1, commit) = SubSeq(promised, 1, commit)
          BY <3>5, <2>3, AgreeIsCut
        <4>2. Len(promised') >= commit
          BY <4>1, <2>3, <2>4
        <4>3. QED
          BY <3>5, <4>1, <4>2, <2>2 DEF Durable!Recover, Durable!KeepsStable, Kept, Possible
      <3>6. CASE phase = "down" /\ phase' = "refused" /\ UNCHANGED <<promised, commit, maybe>>
        BY <3>6, <2>2 DEF Durable!Refuse, Kept
      <3>7. QED
        BY <3>1, <3>2, <3>3, <3>4, <3>5, <3>6, <2>1 DEF AbstractStep
    <2>8. QED
      BY <2>6, <2>7 DEF Durable!AbstractNext
  <1>4. QED
    BY <1>1, <1>2, <1>3

\* Until a power loss meets what a killed process left unsynced, or a log cannot be
\* rewritten, the files of a node keep what its calls promised: what append_batch, a
\* truncation or a snapshot answered is found after any kill or power loss, with what an
\* unfinished or failed call made possible at most, or the node refuses to start, and what
\* is committed is in all of it (ha/log.rs, ha/snapshot.rs, Node::open).
THEOREM StorageImplementsDurableLog == Spec => ImplementsDurableLog
  <1>1. Init => StorageSafe
    BY InitStep DEF StorageSafe
  <1>2. StorageSafe /\ [Next]_vars => StorageSafe'
    BY SafeStep
  <1>3. StorageSafe => KeptSafe
    BY KeptIsPromised DEF StorageSafe, KeptSafe
  <1>4. StorageSafe /\ StorageSafe' /\ KeptSafe /\ KeptSafe' /\ [Next]_vars =>
          [Durable!AbstractNext \/ risk' = "met"]_(Durable!abstractVars)
    BY RefinementStep
  <1>5. Init => Durable!AbstractInit
    <2>1. ASSUME Init
          PROVE  Durable!AbstractInit
      <3>1. Kept = promised
        BY <2>1, InitStep, KeptIsPromised
      <3>2. promised = <<>> /\ commit = 0 /\ maybe = {} /\ phase = "up"
        BY <2>1 DEF Init, Start
      <3>3. QED
        BY <3>1, <3>2 DEF Durable!AbstractInit, Kept
    <2>2. QED
      BY <2>1
  <1>6. QED
    BY <1>1, <1>2, <1>3, <1>4, <1>5, PTL DEF Spec, ImplementsDurableLog
=============================================================================
