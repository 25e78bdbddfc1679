---------------------------- MODULE ServicesProofs ----------------------------
(***************************************************************************)
(* No client of an instance is connected to another one, for any processes, *)
(* instances and ports: the one safety property of the services.            *)
(*                                                                          *)
(* What clients were told says nothing of an ensure under way, so GatesInv  *)
(* follows it: between bind and registration the port is its own, and an    *)
(* owner file read in time names the instance behind the port until that    *)
(* lets go of it.  A life that is given out is one nobody was told of.      *)
(***************************************************************************)
EXTENDS MCServices, TLAPS

Record == Gates!Records
Holder == Gates!Holders
Job == Gates!Jobs

GatesTypes ==
  /\ view \in [Controllers -> [Names -> Record \cup {None}]]
  /\ sink \in [Names -> Record \cup {None}]
  /\ runs \in [Names -> Nat \cup {None}]
  /\ gates \in [Controllers -> [Names -> Gates!Ports \cup {None}]]
  /\ bound \in [Gates!Ports -> Holder \cup {None}]
  /\ owner \in [Gates!Ports -> Names \cup {None}]
  /\ job \in [Controllers -> Job \cup {None}]
  /\ told \subseteq [inst : Names, life : Nat, port : Gates!Ports]
  /\ mixed \in BOOLEAN
  /\ gateLeft \in [{"creates", "destroys", "crashes"} -> Nat]

\* A forwarder in the registry listens on its port.
ForwardersListen ==
  \A r \in Controllers, i \in Names :
    gates[r][i] # None =>
      bound[gates[r][i]] # None /\ bound[gates[r][i]].by = r /\ bound[gates[r][i]].inst = i

\* An ensure that has bound the port is behind it before it registers.
BoundIsOwn ==
  \A r \in Controllers :
    job[r] # None /\ job[r].pc = "register" =>
      LET h == bound[job[r].rec.port] IN
      h # None /\ h.by = r /\ h.inst = job[r].inst /\ gates[r][job[r].inst] = None

\* Lives count down with the creations that are left.
LivesAreSpent ==
  /\ \A t \in told : t.life > gateLeft["creates"]
  /\ \A r \in Controllers : job[r] # None => job[r].rec.life > gateLeft["creates"]
  /\ \A r \in Controllers, i \in Names :
       view[r][i] # None => view[r][i].life > gateLeft["creates"]
  /\ \A i \in Names : sink[i] # None => sink[i].life > gateLeft["creates"]

\* What was read in the owner file is still so, or nobody listens.
Behind(p, i) == bound[p] # None => bound[p].inst = i

ReadIsTrue ==
  ~mixed =>
    \A r \in Controllers :
      job[r] # None /\ job[r].pc = "probe" =>
        /\ job[r].seen # None
        /\ job[r].seen = job[r].inst => Behind(job[r].rec.port, job[r].inst)

GatesInv ==
  /\ GatesTypes /\ ForwardersListen /\ BoundIsOwn /\ LivesAreSpent /\ ReadIsTrue
  /\ AccessIsOwnUnlessMixed

\* What is recorded is of lives that were given out.
Given(vw, sk, n) ==
  /\ vw \in [Controllers -> [Names -> Record \cup {None}]]
  /\ sk \in [Names -> Record \cup {None}]
  /\ \A r \in Controllers, i \in Names : vw[r][i] # None => vw[r][i].life > n
  /\ \A i \in Names : sk[i] # None => sk[i].life > n

-----------------------------------------------------------------------------
LEMMA GatesInit ==
  ASSUME Gates!GatesAssumption, Gates!Init
  PROVE  GatesInv
  <1> USE DEF Gates!Init, Gates!GatesAssumption
  <1>1. /\ \A r \in Controllers : job[r] = None
        /\ \A r \in Controllers, i \in Names : gates[r][i] = None /\ view[r][i] = None
        /\ \A i \in Names : sink[i] = None /\ runs[i] = None
        /\ runs \in [Names -> Nat \cup {None}]
        /\ told = {} /\ gateLeft \in [{"creates", "destroys", "crashes"} -> Nat]
    OBVIOUS
  <1>2. GatesTypes
    BY <1>1 DEF GatesTypes
  <1>3. QED
    BY <1>1, <1>2 DEF GatesInv, ForwardersListen, BoundIsOwn, LivesAreSpent, ReadIsTrue,
                      AccessIsOwnUnlessMixed, Gates!AccessIsOwnUnlessMixed, Gates!AccessIsOwn

LEMMA RecordsGiven ==
  ASSUME GatesInv
  PROVE  Given(view, sink, gateLeft["creates"])
  BY DEF GatesInv, GatesTypes, LivesAreSpent, Given

\* persist writes what the process has; what it has not stays.
LEMMA PersistFacts ==
  ASSUME NEW n, NEW r \in Controllers, Gates!Persist(r),
         sink \in [Names -> Record \cup {None}],
         \A i \in Names : sink[i] # None => sink[i].life > n,
         view' \in [Controllers -> [Names -> Record \cup {None}]],
         \A q \in Controllers, i \in Names : view'[q][i] # None => view'[q][i].life > n
  PROVE  Given(view', sink', n)
  <1>1. /\ sink' = [i \in Names |-> IF view'[r][i] # None THEN view'[r][i] ELSE sink[i]]
        /\ \A i \in Names : view'[r][i] \in Record \cup {None}
    BY DEF Gates!Persist
  <1>2. \A i \in Names : sink'[i] \in Record \cup {None}
    BY <1>1
  <1>3. \A i \in Names : sink'[i] # None => sink'[i].life > n
    BY <1>1
  <1>4. sink' \in [Names -> Record \cup {None}]
    BY <1>1, <1>2
  <1>5. QED
    BY <1>3, <1>4 DEF Given

\* The instance, the port and the life of an ensure.
LEMMA JobFacts ==
  ASSUME GatesInv, NEW r \in Controllers, job[r] # None
  PROVE  /\ job[r] \in Job /\ job[r].inst \in Names /\ job[r].rec \in Record
         /\ job[r].rec.port \in Gates!Ports /\ job[r].rec.life \in Nat
         /\ job[r].seen \in Names \cup {None} /\ job[r].task \in BOOLEAN
         /\ job[r].rec.life > gateLeft["creates"]
  <1>1. job[r] \in Job
    BY DEF GatesInv, GatesTypes
  <1>2. job[r].rec.life > gateLeft["creates"]
    BY DEF GatesInv, LivesAreSpent
  <1>3. QED
    BY <1>1, <1>2 DEF Job, Gates!Jobs, Record, Gates!Records

\* An ensure ends, told or not that its port is up.
LEMMA FinishStep ==
  ASSUME Gates!GatesAssumption, GatesInv, NEW r \in Controllers, job[r] # None,
         job' = [job EXCEPT ![r] = None],
         \/ told' = told
         \/ /\ told' = told \cup {[inst |-> job[r].inst, life |-> job[r].rec.life,
                                 port |-> job[r].rec.port]}
            /\ ~mixed' => Behind(job[r].rec.port, job[r].inst),
         UNCHANGED <<runs, bound, gateLeft>>, Given(view', sink', gateLeft["creates"]),
         mixed' \in BOOLEAN, mixed => mixed',
         gates' \in [Controllers -> [Names -> Gates!Ports \cup {None}]],
         \A q \in Controllers : q # r => gates'[q] = gates[q], ForwardersListen',
         owner' \in [Gates!Ports -> Names \cup {None}]
  PROVE  GatesInv'
  <1> DEFINE new == [inst |-> job[r].inst, life |-> job[r].rec.life, port |-> job[r].rec.port]
  <1>1. /\ new \in [inst : Names, life : Nat, port : Gates!Ports]
        /\ new.inst = job[r].inst /\ new.life = job[r].rec.life
        /\ new.port = job[r].rec.port /\ new.life > gateLeft["creates"]
    BY JobFacts
  <1>2. \A t \in told' : t \in told \/ t = new
    OBVIOUS
  <1>3. /\ \A q \in Controllers : q # r => job'[q] = job[q]
        /\ job'[r] = None
    BY DEF GatesInv, GatesTypes
  <1> HIDE DEF new
  <1>4. GatesTypes'
    BY <1>1, <1>2, <1>3 DEF GatesInv, GatesTypes, Given
  <1>5. BoundIsOwn'
    BY <1>3 DEF GatesInv, BoundIsOwn
  <1>6. LivesAreSpent'
    BY <1>1, <1>2, <1>3 DEF GatesInv, LivesAreSpent, Given
  <1>7. ReadIsTrue'
    BY <1>3 DEF GatesInv, ReadIsTrue, Behind
  <1>8. AccessIsOwnUnlessMixed'
    <2> SUFFICES ASSUME ~mixed', NEW t \in told', Gates!Lives(t.inst, t.life)',
                        bound'[t.port] # None
                 PROVE  bound'[t.port].inst = t.inst
      BY DEF AccessIsOwnUnlessMixed, Gates!AccessIsOwnUnlessMixed, Gates!AccessIsOwn
    <2>1. CASE t \in told
      BY <2>1 DEF GatesInv, AccessIsOwnUnlessMixed, Gates!AccessIsOwnUnlessMixed,
                  Gates!AccessIsOwn, Gates!Lives
    <2>2. CASE t \notin told
      BY <1>1, <1>2, <2>2 DEF Behind
    <2>3. QED
      BY <2>1, <2>2
  <1>9. QED
    BY <1>4, <1>5, <1>6, <1>7, <1>8 DEF GatesInv

\* The status a task ends with is recorded.
LEMMA EndsFacts ==
  ASSUME GatesInv, NEW r \in Controllers, job[r] # None,
         NEW statuses \in SUBSET Gates!Statuses, Gates!Ends(r, statuses)
  PROVE  Given(view', sink', gateLeft["creates"])
  <1>1. PICK to \in Gates!Statuses :
          view' = [view EXCEPT ![r][job[r].inst] =
                     IF @ = None THEN None ELSE [@ EXCEPT !.status = to]]
    BY DEF Gates!Ends
  <1>2. Gates!Persist(r)
    BY DEF Gates!Ends
  <1>3. job[r].inst \in Names
    BY JobFacts
  <1> DEFINE i == job[r].inst
             rec == IF view[r][i] = None THEN None ELSE [view[r][i] EXCEPT !.status = to]
             n == gateLeft["creates"]
  <1>4. Given(view, sink, n)
    BY RecordsGiven
  <1>5. rec \in Record \cup {None} /\ (rec # None => rec.life > n)
    <2>1. view[r][i] \in Record \cup {None} /\ (view[r][i] # None => view[r][i].life > n)
      BY <1>3, <1>4 DEF Given
    <2>2. QED
      BY <2>1 DEF Record, Gates!Records
  <1>6. view' = [view EXCEPT ![r][i] = rec]
    BY <1>1, <1>3, <1>4 DEF Given
  <1> HIDE DEF rec, i, n
  <1>7. /\ view' \in [Controllers -> [Names -> Record \cup {None}]]
        /\ \A q \in Controllers, j \in Names : view'[q][j] = view[q][j] \/ view'[q][j] = rec
    BY <1>4, <1>5, <1>6 DEF Given
  <1>8. \A q \in Controllers, j \in Names : view'[q][j] # None => view'[q][j].life > n
    BY <1>4, <1>5, <1>7 DEF Given
  <1>9. /\ sink \in [Names -> Record \cup {None}]
        /\ \A j \in Names : sink[j] # None => sink[j].life > n
    BY <1>4 DEF Given
  <1>10. Given(view', sink', n)
    BY <1>2, <1>7, <1>8, <1>9, PersistFacts
  <1>11. QED
    BY <1>10 DEF n

LEMMA FinishFacts ==
  ASSUME GatesInv, NEW r \in Controllers, job[r] # None, NEW ok \in BOOLEAN,
         Gates!Finish(r, ok)
  PROVE  /\ job' = [job EXCEPT ![r] = None]
         /\ \/ told' = told
            \/ ok /\ told' = told \cup {[inst |-> job[r].inst, life |-> job[r].rec.life,
                                        port |-> job[r].rec.port]}
         /\ Given(view', sink', gateLeft["creates"])
  <1>1. /\ job' = [job EXCEPT ![r] = None]
        /\ \/ told' = told
           \/ ok /\ told' = told \cup {[inst |-> job[r].inst, life |-> job[r].rec.life,
                                       port |-> job[r].rec.port]}
    BY DEF Gates!Finish
  <1>2. CASE job[r].task
    <2>1. Gates!Ends(r, IF ok THEN {"running", "failed"} ELSE {"failed"})
      BY <1>2 DEF Gates!Finish
    <2>2. (IF ok THEN {"running", "failed"} ELSE {"failed"}) \in SUBSET Gates!Statuses
      BY DEF Gates!Statuses
    <2>3. QED
      BY <1>1, <2>1, <2>2, EndsFacts
  <1>3. CASE ~job[r].task
    <2>1. UNCHANGED <<view, sink>>
      BY <1>3 DEF Gates!Finish
    <2>2. QED
      BY <1>1, <2>1, RecordsGiven
  <1>4. QED
    BY <1>2, <1>3

LEMMA GoFacts ==
  ASSUME GatesInv, NEW r \in Controllers, job[r] # None,
         NEW pc \in {"register", "readOwner", "probe"}, NEW seen \in Names \cup {None},
         Gates!Go(r, pc, seen)
  PROVE  \E k \in Job : /\ job' = [job EXCEPT ![r] = k]
                        /\ k.inst = job[r].inst /\ k.rec = job[r].rec
                        /\ k.pc = pc /\ k.seen = seen
  <1> DEFINE k == [job[r] EXCEPT !.pc = pc, !.seen = seen]
  <1>1. job[r] \in Job
    BY JobFacts
  <1>2. /\ k \in Job /\ k.inst = job[r].inst /\ k.rec = job[r].rec
        /\ k.pc = pc /\ k.seen = seen
    BY <1>1 DEF Job, Gates!Jobs
  <1>3. job' = [job EXCEPT ![r] = k]
    BY DEF Gates!Go, GatesInv, GatesTypes
  <1> HIDE DEF k
  <1>4. QED
    BY <1>2, <1>3

\* An ensure goes on to look at who has its port.
LEMMA GoStep ==
  ASSUME Gates!GatesAssumption, GatesInv, NEW r \in Controllers, job[r] # None,
         NEW pc \in {"readOwner", "probe"}, NEW seen \in Names \cup {None},
         Gates!Go(r, pc, seen),
         UNCHANGED <<view, sink, runs, gates, bound, owner, told, gateLeft>>,
         mixed' \in BOOLEAN, mixed => mixed',
         pc = "probe" /\ ~mixed' =>
           bound[job[r].rec.port] # None /\ seen = bound[job[r].rec.port].inst
  PROVE  GatesInv'
  <1>1. job[r] \in Job /\ job[r].rec.port \in Gates!Ports
    BY JobFacts
  <1>2. PICK k \in Job : /\ job' = [job EXCEPT ![r] = k]
                         /\ k.inst = job[r].inst /\ k.rec = job[r].rec
                         /\ k.pc = pc /\ k.seen = seen
    BY GoFacts
  <1>4. /\ job' \in [Controllers -> Job \cup {None}] /\ job'[r] = k
        /\ \A q \in Controllers : q # r => job'[q] = job[q]
    BY <1>2 DEF GatesInv, GatesTypes
  <1>5. GatesTypes'
    BY <1>4 DEF GatesInv, GatesTypes
  <1>6. ForwardersListen'
    BY DEF GatesInv, ForwardersListen
  <1>7. BoundIsOwn'
    BY <1>2, <1>4 DEF GatesInv, BoundIsOwn
  <1>8. LivesAreSpent'
    BY <1>2, <1>4 DEF GatesInv, LivesAreSpent
  <1>9. ReadIsTrue'
    <2>1. ~mixed' /\ pc = "probe" => seen # None /\ (seen = k.inst => Behind(k.rec.port, k.inst))
      <3>1. bound[job[r].rec.port] # None => bound[job[r].rec.port].inst \in Names
        BY <1>1 DEF GatesInv, GatesTypes, Holder, Gates!Holders
      <3>2. QED
        BY <1>2, <3>1 DEF Behind, Gates!GatesAssumption
    <2>2. QED
      BY <1>2, <1>4, <2>1 DEF GatesInv, ReadIsTrue, Behind
  <1>10. AccessIsOwnUnlessMixed'
    BY DEF GatesInv, AccessIsOwnUnlessMixed, Gates!AccessIsOwnUnlessMixed, Gates!AccessIsOwn,
           Gates!Lives
  <1>11. QED
    BY <1>5, <1>6, <1>7, <1>8, <1>9, <1>10 DEF GatesInv

\* A port somebody bound is nobody else's: those who were told otherwise, or have just
\* read otherwise, are displaced.
LEMMA BindStep ==
  ASSUME Gates!GatesAssumption, GatesInv, NEW r \in Controllers, Gates!Bind(r)
  PROVE  GatesInv'
  <1> DEFINE i == job[r].inst
             p == job[r].rec.port
             h == [by |-> r, inst |-> i, life |-> job[r].rec.life]
  <1>1. /\ job[r] # None /\ job[r].pc = "try"
        /\ UNCHANGED <<runs, gates, owner, gateLeft>>
    BY DEF Gates!Bind
  <1>2. /\ job[r] \in Job /\ i \in Names /\ p \in Gates!Ports /\ job[r].rec.life \in Nat
        /\ job[r].rec.life > gateLeft["creates"]
    BY <1>1, JobFacts
  <1>3. CASE gates[r][i] # None
    <2>1. Gates!Finish(r, TRUE) /\ mixed' = (mixed \/ gates[r][i] # p) /\ bound' = bound
      BY <1>1, <1>3 DEF Gates!Bind
    <2>2. ~mixed' => Behind(p, i)
      <3>1. ~mixed' => gates[r][i] = p
        BY <2>1
      <3>2. bound[gates[r][i]].inst = i
        BY <1>2, <1>3 DEF GatesInv, ForwardersListen
      <3>3. QED
        BY <3>1, <3>2 DEF Behind
    <2>3. job' = [job EXCEPT ![r] = None]
      BY <1>1, <2>1, FinishFacts
    <2>4. \/ told' = told
          \/ told' = told \cup {[inst |-> job[r].inst, life |-> job[r].rec.life,
                                  port |-> job[r].rec.port]}
      BY <1>1, <2>1, FinishFacts
    <2>g. Given(view', sink', gateLeft["creates"])
      BY <1>1, <2>1, FinishFacts
    <2>5. /\ mixed' \in BOOLEAN /\ mixed => mixed'
          /\ gates' \in [Controllers -> [Names -> Gates!Ports \cup {None}]]
          /\ owner' \in [Gates!Ports -> Names \cup {None}]
      BY <1>1, <2>1 DEF GatesInv, GatesTypes
    <2>6. ForwardersListen'
      BY <1>1, <2>1 DEF GatesInv, ForwardersListen
    <2>7. QED
      BY <1>1, <2>1, <2>2, <2>3, <2>4, <2>5, <2>6, <2>g, FinishStep
  <1>4. CASE gates[r][i] = None /\ bound[p] = None
    <2>1. /\ bound' = [bound EXCEPT ![p] = h] /\ Gates!Go(r, "register", None)
          /\ mixed' = (mixed \/ ~Gates!Lives(i, job[r].rec.life) \/ Gates!Displaced(i, p))
          /\ UNCHANGED <<view, sink, told>>
      BY <1>1, <1>4 DEF Gates!Bind
    <2>2. h \in Holder /\ h # None /\ h.by = r /\ h.inst = i
      BY <1>2 DEF Holder, Gates!Holders, Gates!GatesAssumption
    <2> HIDE DEF h
    <2>3. /\ bound' \in [Gates!Ports -> Holder \cup {None}] /\ bound'[p] = h
          /\ \A q \in Gates!Ports : q # p => bound'[q] = bound[q]
      BY <1>2, <2>1, <2>2 DEF GatesInv, GatesTypes
    <2>5. PICK k \in Job : /\ job' = [job EXCEPT ![r] = k] /\ k.inst = i
                           /\ k.rec = job[r].rec /\ k.pc = "register"
      <3>1. "register" \in {"register", "readOwner", "probe"} /\ None \in Names \cup {None}
        OBVIOUS
      <3>2. QED
        BY <1>1, <2>1, <3>1, GoFacts
    <2>6. /\ job' \in [Controllers -> Job \cup {None}]
          /\ \A q \in Controllers : q # r => job'[q] = job[q]
          /\ job'[r].inst = i /\ job'[r].rec = job[r].rec /\ job'[r].pc = "register"
      BY <2>5 DEF GatesInv, GatesTypes
    <2> HIDE DEF i, p
    <2>7. GatesTypes'
      BY <1>1, <2>1, <2>3, <2>6 DEF GatesInv, GatesTypes
    <2>8. ForwardersListen'
      <3>1. ASSUME NEW q \in Controllers, NEW j \in Names, gates[q][j] # None
            PROVE  /\ gates[q][j] \in Gates!Ports /\ gates[q][j] # p
                   /\ bound[gates[q][j]].by = q /\ bound[gates[q][j]].inst = j
                   /\ bound[gates[q][j]] # None
        BY <1>4, <3>1 DEF GatesInv, GatesTypes, ForwardersListen
      <3>2. QED
        BY <1>1, <2>3, <3>1 DEF ForwardersListen
    <2>9. ASSUME NEW q \in Controllers, job[q] # None, q # r
          PROVE  job[q].rec.port = p => bound[job[q].rec.port] = None
      BY <1>4
    <2>10. BoundIsOwn'
      <3> SUFFICES ASSUME NEW q \in Controllers, job'[q] # None, job'[q].pc = "register"
                   PROVE  LET g == bound'[job'[q].rec.port] IN
                          g # None /\ g.by = q /\ g.inst = job'[q].inst
                            /\ gates'[q][job'[q].inst] = None
        BY DEF BoundIsOwn
      <3>1. CASE q = r
        BY <1>1, <1>4, <2>2, <2>3, <2>6, <3>1 DEF i, p
      <3>2. CASE q # r
        <4>1. job'[q] = job[q] /\ bound[job[q].rec.port] # None /\ job[q].rec.port # p
          BY <1>4, <2>6, <3>2 DEF GatesInv, BoundIsOwn
        <4>2. job[q].rec.port \in Gates!Ports
          BY <4>1, JobFacts
        <4>3. QED
          BY <1>1, <2>3, <4>1, <4>2 DEF GatesInv, BoundIsOwn
      <3>3. QED
        BY <3>1, <3>2
    <2>11. LivesAreSpent'
      BY <1>1, <1>2, <2>1, <2>6 DEF GatesInv, LivesAreSpent
    <2>12. ReadIsTrue'
      <3> SUFFICES ASSUME ~mixed', NEW q \in Controllers, job'[q] # None, job'[q].pc = "probe"
                   PROVE  /\ job'[q].seen # None
                          /\ job'[q].seen = job'[q].inst =>
                               Behind(job[q].rec.port, job[q].inst)'
        BY DEF ReadIsTrue, Behind
      <3>1. q # r /\ job'[q] = job[q]
        BY <2>6
      <3>2. ~mixed /\ ~Gates!Displaced(i, p)
        BY <2>1
      <3>3. /\ job[q].seen # None
            /\ job[q].seen = job[q].inst => Behind(job[q].rec.port, job[q].inst)
        BY <3>1, <3>2 DEF GatesInv, ReadIsTrue
      <3>4. job[q].seen = job[q].inst /\ job[q].rec.port = p => job[q].inst = i
        BY <3>1, <3>2 DEF Gates!Displaced
      <3>5. job[q].rec.port \in Gates!Ports
        BY <3>1, JobFacts
      <3>6. QED
        BY <2>2, <2>3, <3>1, <3>3, <3>4, <3>5 DEF Behind
    <2>13. AccessIsOwnUnlessMixed'
      <3> SUFFICES ASSUME ~mixed', NEW t \in told, Gates!Lives(t.inst, t.life),
                          bound'[t.port] # None
                   PROVE  bound'[t.port].inst = t.inst
        BY <1>1, <2>1 DEF AccessIsOwnUnlessMixed, Gates!AccessIsOwnUnlessMixed,
                          Gates!AccessIsOwn, Gates!Lives
      <3>1. ~mixed /\ ~Gates!Displaced(i, p) /\ t.port \in Gates!Ports
        BY <2>1 DEF GatesInv, GatesTypes
      <3>2. CASE t.port = p
        BY <2>2, <2>3, <3>1, <3>2 DEF Gates!Displaced
      <3>3. CASE t.port # p
        BY <2>3, <3>1, <3>3 DEF GatesInv, AccessIsOwnUnlessMixed,
                                Gates!AccessIsOwnUnlessMixed, Gates!AccessIsOwn
      <3>4. QED
        BY <3>2, <3>3
    <2>14. QED
      BY <2>7, <2>8, <2>10, <2>11, <2>12, <2>13 DEF GatesInv
  <1>5. CASE gates[r][i] = None /\ bound[p] # None
    <2>1. Gates!Go(r, "readOwner", None) /\ UNCHANGED <<view, sink, bound, told, mixed>>
      BY <1>1, <1>5 DEF Gates!Bind
    <2>3. /\ "readOwner" \in {"readOwner", "probe"} /\ "readOwner" # "probe"
          /\ None \in Names \cup {None} /\ mixed' \in BOOLEAN /\ (mixed => mixed')
      BY <2>1 DEF GatesInv, GatesTypes
    <2>4. QED
      BY <1>1, <2>1, <2>3, GoStep
  <1>6. QED
    BY <1>3, <1>4, <1>5
LEMMA RegisterStep ==
  ASSUME Gates!GatesAssumption, GatesInv, NEW r \in Controllers, Gates!Register(r)
  PROVE  GatesInv'
  <1> DEFINE i == job[r].inst
             p == job[r].rec.port
  <1>1. /\ job[r] # None /\ job[r].pc = "register"
        /\ owner' = [owner EXCEPT ![p] = i]
        /\ gates' = [gates EXCEPT ![r][i] = p]
        /\ Gates!Finish(r, TRUE)
        /\ UNCHANGED <<runs, bound, mixed, gateLeft>>
    BY DEF Gates!Register
  <1>2. i \in Names /\ p \in Gates!Ports
    BY <1>1, JobFacts
  <1>3. bound[p] # None /\ bound[p].by = r /\ bound[p].inst = i
    BY <1>1 DEF GatesInv, BoundIsOwn
  <1> HIDE DEF i, p
  <1>4. /\ gates' \in [Controllers -> [Names -> Gates!Ports \cup {None}]]
        /\ \A q \in Controllers : q # r => gates'[q] = gates[q]
        /\ \A j \in Names : gates'[r][j] = IF j = i THEN p ELSE gates[r][j]
    BY <1>1, <1>2 DEF GatesInv, GatesTypes
  <1>5. ForwardersListen'
    <2> SUFFICES ASSUME NEW q \in Controllers, NEW j \in Names, gates'[q][j] # None
                 PROVE  LET h == bound[gates'[q][j]] IN h # None /\ h.by = q /\ h.inst = j
      BY <1>1 DEF ForwardersListen
    <2>1. CASE q = r /\ j = i
      BY <1>3, <1>4, <2>1
    <2>2. CASE ~(q = r /\ j = i)
      BY <1>4, <2>2 DEF GatesInv, ForwardersListen
    <2>3. QED
      BY <2>1, <2>2
  <1>6. /\ job' = [job EXCEPT ![r] = None]
        /\ \/ told' = told
           \/ told' = told \cup {[inst |-> job[r].inst, life |-> job[r].rec.life,
                                   port |-> job[r].rec.port]}
        /\ Given(view', sink', gateLeft["creates"])
    BY <1>1, FinishFacts
  <1>7. Behind(job[r].rec.port, job[r].inst)
    BY <1>3 DEF Behind, i, p
  <1>8. /\ mixed' \in BOOLEAN /\ (mixed => mixed')
        /\ owner' \in [Gates!Ports -> Names \cup {None}]
    BY <1>1, <1>2 DEF GatesInv, GatesTypes
  <1>9. QED
    BY <1>1, <1>4, <1>5, <1>6, <1>7, <1>8, FinishStep

LEMMA ReadOwnerStep ==
  ASSUME Gates!GatesAssumption, GatesInv, NEW r \in Controllers, Gates!ReadOwner(r)
  PROVE  GatesInv'
  <1>1. /\ job[r] # None
        /\ Gates!Go(r, "probe", owner[job[r].rec.port])
        /\ UNCHANGED <<view, sink, runs, gates, bound, owner, told, gateLeft>>
    BY DEF Gates!ReadOwner
  <1>2. mixed' = (\/ mixed \/ bound[job[r].rec.port] = None
                  \/ owner[job[r].rec.port] # bound[job[r].rec.port].inst)
    BY DEF Gates!ReadOwner
  <1>3. job[r].rec.port \in Gates!Ports
    BY <1>1, JobFacts
  <1>4. owner[job[r].rec.port] \in Names \cup {None}
    BY <1>3 DEF GatesInv, GatesTypes
  <1>5. ~mixed' => /\ bound[job[r].rec.port] # None
                   /\ owner[job[r].rec.port] = bound[job[r].rec.port].inst
    BY <1>2
  <1>6. mixed' \in BOOLEAN /\ (mixed => mixed')
    BY <1>2 DEF GatesInv, GatesTypes
  <1>7. "probe" \in {"readOwner", "probe"}
    OBVIOUS
  <1>8. QED
    BY <1>1, <1>4, <1>5, <1>6, <1>7, GoStep

LEMMA DecideStep ==
  ASSUME Gates!GatesAssumption, GatesInv, NEW r \in Controllers, Gates!Decide(r)
  PROVE  GatesInv'
  <1> DEFINE ok == \/ job[r].seen = job[r].inst
                   \/ job[r].seen = None /\ Gates!Serving(job[r].rec.port)
  <1>1. /\ job[r] # None /\ job[r].pc = "probe" /\ Gates!Finish(r, ok)
        /\ UNCHANGED <<runs, gates, bound, owner, mixed, gateLeft>>
    BY DEF Gates!Decide
  <1>2. ok \in BOOLEAN
    OBVIOUS
  <1>3. ~mixed /\ ok => Behind(job[r].rec.port, job[r].inst)
    BY <1>1 DEF GatesInv, ReadIsTrue
  <1> HIDE DEF ok
  <1>4. /\ job' = [job EXCEPT ![r] = None]
        /\ \/ told' = told
           \/ ok /\ told' = told \cup {[inst |-> job[r].inst, life |-> job[r].rec.life,
                                         port |-> job[r].rec.port]}
        /\ Given(view', sink', gateLeft["creates"])
    BY <1>1, <1>2, FinishFacts
  <1>5. /\ mixed' \in BOOLEAN /\ (mixed => mixed')
        /\ gates' \in [Controllers -> [Names -> Gates!Ports \cup {None}]]
        /\ \A q \in Controllers : q # r => gates'[q] = gates[q]
        /\ owner' \in [Gates!Ports -> Names \cup {None}]
    BY <1>1 DEF GatesInv, GatesTypes
  <1>6. ForwardersListen'
    BY <1>1 DEF GatesInv, ForwardersListen
  <1>7. QED
    BY <1>1, <1>3, <1>4, <1>5, <1>6, FinishStep
LEMMA SpendFacts ==
  ASSUME GatesInv, NEW e \in {"creates", "destroys", "crashes"}, Gates!Spend(e)
  PROVE  /\ gateLeft' \in [{"creates", "destroys", "crashes"} -> Nat]
         /\ gateLeft["creates"] \in Nat
         /\ gateLeft'["creates"] <= gateLeft["creates"]
         /\ e = "creates" => gateLeft'["creates"] < gateLeft["creates"]
  <1>1. gateLeft \in [{"creates", "destroys", "crashes"} -> Nat]
    BY DEF GatesInv, GatesTypes
  <1>2. gateLeft[e] > 0 /\ gateLeft' = [gateLeft EXCEPT ![e] = gateLeft[e] - 1]
    BY DEF Gates!Spend
  <1>3. QED
    BY <1>1, <1>2

\* A new ensure; nothing is bound or told by it.
LEMMA BeginStep ==
  ASSUME GatesInv, NEW r \in Controllers, NEW k \in Job, k.pc = "try",
         job[r] = None, job' = [job EXCEPT ![r] = k],
         UNCHANGED <<gates, bound, owner, told, mixed>>,
         gateLeft' \in [{"creates", "destroys", "crashes"} -> Nat],
         gateLeft'["creates"] <= gateLeft["creates"],
         k.rec.life > gateLeft'["creates"],
         Given(view', sink', gateLeft'["creates"]),
         runs' \in [Names -> Nat \cup {None}],
         \A t \in told : Gates!Lives(t.inst, t.life)' => Gates!Lives(t.inst, t.life)
  PROVE  GatesInv'
  <1>1. /\ job' \in [Controllers -> Job \cup {None}] /\ job'[r] = k
        /\ \A q \in Controllers : q # r => job'[q] = job[q]
    BY DEF GatesInv, GatesTypes
  <1>2. GatesTypes'
    BY <1>1 DEF GatesInv, GatesTypes, Given
  <1>3. ForwardersListen'
    BY DEF GatesInv, ForwardersListen
  <1>4. BoundIsOwn'
    BY <1>1 DEF GatesInv, BoundIsOwn
  <1>5. LivesAreSpent'
    <2>1. gateLeft["creates"] \in Nat /\ gateLeft'["creates"] \in Nat
      BY DEF GatesInv, GatesTypes
    <2>2. \A t \in told' : t.life > gateLeft'["creates"]
      <3>1. ASSUME NEW t \in told PROVE t.life \in Nat /\ t.life > gateLeft["creates"]
        BY DEF GatesInv, GatesTypes, LivesAreSpent
      <3>2. QED
        BY <2>1, <3>1
    <2>3. ASSUME NEW q \in Controllers, job'[q] # None
          PROVE  job'[q].rec.life > gateLeft'["creates"]
      <3>1. CASE q = r
        BY <1>1, <3>1
      <3>2. CASE q # r
        BY <1>1, <2>1, <2>3, <3>2, JobFacts
      <3>3. QED
        BY <3>1, <3>2
    <2>4. QED
      BY <2>2, <2>3 DEF LivesAreSpent, Given
  <1>6. ReadIsTrue'
    BY <1>1 DEF GatesInv, ReadIsTrue, Behind
  <1>7. AccessIsOwnUnlessMixed'
    BY DEF GatesInv, AccessIsOwnUnlessMixed, Gates!AccessIsOwnUnlessMixed, Gates!AccessIsOwn
  <1>8. QED
    BY <1>2, <1>3, <1>4, <1>5, <1>6, <1>7 DEF GatesInv

\* The life of a new instance is one nobody was told of.
LEMMA CreateStep ==
  ASSUME Gates!GatesAssumption, GatesInv, NEW r \in Controllers, NEW i \in Names,
         Gates!Create(r, i)
  PROVE  GatesInv'
  <1>1. PICK p \in Gates!Ports :
          view' = [view EXCEPT ![r][i] =
                     [port |-> p, life |-> gateLeft["creates"], status |-> "creating"]]
    BY DEF Gates!Create
  <1> DEFINE new == [port |-> p, life |-> gateLeft["creates"], status |-> "creating"]
             k == [inst |-> i, rec |-> view'[r][i], pc |-> "try", seen |-> None, task |-> TRUE]
             n == gateLeft'["creates"]
  <1>2. /\ job[r] = None /\ Gates!Spend("creates") /\ job' = [job EXCEPT ![r] = k]
        /\ runs' = [runs EXCEPT ![i] = gateLeft["creates"]]
        /\ Gates!Persist(r)
        /\ UNCHANGED <<gates, bound, owner, told, mixed>>
    BY DEF Gates!Create
  <1>3. /\ gateLeft' \in [{"creates", "destroys", "crashes"} -> Nat]
        /\ gateLeft["creates"] \in Nat /\ n \in Nat
        /\ n < gateLeft["creates"] /\ n <= gateLeft["creates"]
    BY <1>2, SpendFacts
  <1>4. new \in Record /\ new.life = gateLeft["creates"]
    BY <1>3 DEF Record, Gates!Records, Gates!Statuses
  <1> HIDE DEF new, n
  <1>5. Given(view, sink, gateLeft["creates"])
    BY RecordsGiven
  <1>6. /\ view' \in [Controllers -> [Names -> Record \cup {None}]] /\ view'[r][i] = new
        /\ \A q \in Controllers, j \in Names :
             view'[q][j] = view[q][j] \/ view'[q][j] = new
    BY <1>1, <1>4, <1>5 DEF new, Given
  <1>7. k \in Job /\ k.pc = "try" /\ k.rec = new
    BY <1>4, <1>6 DEF Job, Gates!Jobs, Record
  <1> HIDE DEF k
  <1>8. ASSUME NEW rec \in Record, rec.life > gateLeft["creates"]
        PROVE  rec.life > n
    BY <1>3, <1>8 DEF Record, Gates!Records
  <1>9. new.life > n
    BY <1>3, <1>4
  <1>10. \A q \in Controllers, j \in Names : view'[q][j] # None => view'[q][j].life > n
    BY <1>5, <1>6, <1>8, <1>9 DEF Given
  <1>11. /\ sink \in [Names -> Record \cup {None}]
         /\ \A j \in Names : sink[j] # None => sink[j].life > n
    BY <1>5, <1>8 DEF Given
  <1>12. Given(view', sink', n)
    BY <1>2, <1>6, <1>10, <1>11, PersistFacts
  <1>13. runs' \in [Names -> Nat \cup {None}] /\ runs'[i] = gateLeft["creates"]
    BY <1>2, <1>3 DEF GatesInv, GatesTypes
  <1>14. ASSUME NEW t \in told, Gates!Lives(t.inst, t.life)'
         PROVE  Gates!Lives(t.inst, t.life)
    <2>1. t.inst \in Names /\ t.life \in Nat /\ t.life > gateLeft["creates"]
      BY DEF GatesInv, GatesTypes, LivesAreSpent
    <2>2. runs'[t.inst] = t.life
      BY <1>14 DEF Gates!Lives
    <2>3. t.inst # i
      BY <1>3, <1>13, <2>1, <2>2
    <2>4. runs'[t.inst] = runs[t.inst]
      BY <1>2, <2>1, <2>3 DEF GatesInv, GatesTypes
    <2>5. QED
      BY <2>2, <2>4 DEF Gates!Lives
  <1>15. QED
    BY <1>2, <1>3, <1>7, <1>9, <1>12, <1>13, <1>14, BeginStep DEF n

LEMMA SweepStep ==
  ASSUME Gates!GatesAssumption, GatesInv, NEW r \in Controllers, NEW i \in Names,
         Gates!Sweep(r, i)
  PROVE  GatesInv'
  <1> DEFINE k == [inst |-> i, rec |-> view[r][i], pc |-> "try", seen |-> None, task |-> FALSE]
  <1>1. /\ job[r] = None /\ view[r][i] # None /\ job' = [job EXCEPT ![r] = k]
        /\ UNCHANGED <<view, sink, runs, gates, bound, owner, told, mixed, gateLeft>>
    BY DEF Gates!Sweep
  <1>2. /\ view[r][i] \in Record /\ view[r][i].life > gateLeft["creates"]
        /\ gateLeft["creates"] \in Nat
    BY <1>1 DEF GatesInv, GatesTypes, LivesAreSpent
  <1>3. k \in Job /\ k.pc = "try" /\ k.rec = view[r][i]
    BY <1>2 DEF Job, Gates!Jobs, Record
  <1> HIDE DEF k
  <1>4. /\ gateLeft' \in [{"creates", "destroys", "crashes"} -> Nat]
        /\ gateLeft'["creates"] <= gateLeft["creates"]
        /\ k.rec.life > gateLeft'["creates"]
        /\ runs' \in [Names -> Nat \cup {None}]
    BY <1>1, <1>2, <1>3 DEF GatesInv, GatesTypes
  <1>5. Given(view', sink', gateLeft'["creates"])
    BY <1>1, RecordsGiven
  <1>6. \A t \in told : Gates!Lives(t.inst, t.life)' => Gates!Lives(t.inst, t.life)
    BY <1>1 DEF Gates!Lives
  <1>7. QED
    BY <1>1, <1>3, <1>4, <1>5, <1>6, BeginStep

\* Records change, no new life is given out and none comes back.
LEMMA RecordsStep ==
  ASSUME GatesInv,
         UNCHANGED <<runs, gates, bound, owner, job, told, mixed, gateLeft>>,
         Given(view', sink', gateLeft["creates"])
  PROVE  GatesInv'
  <1>1. GatesTypes' /\ ForwardersListen' /\ BoundIsOwn' /\ ReadIsTrue'
    BY DEF GatesInv, GatesTypes, ForwardersListen, BoundIsOwn, ReadIsTrue, Behind, Given
  <1>2. LivesAreSpent'
    BY DEF GatesInv, LivesAreSpent, Given
  <1>4. AccessIsOwnUnlessMixed'
    BY DEF GatesInv, AccessIsOwnUnlessMixed, Gates!AccessIsOwnUnlessMixed,
           Gates!AccessIsOwn, Gates!Lives
  <1>5. QED
    BY <1>1, <1>2, <1>4 DEF GatesInv

LEMMA RefreshStep ==
  ASSUME Gates!GatesAssumption, GatesInv, NEW r \in Controllers, NEW i \in Names,
         Gates!Refresh(r, i)
  PROVE  GatesInv'
  <1> DEFINE rec == IF view[r][i] = None THEN sink[i]
                    ELSE [view[r][i] EXCEPT !.status = sink[i].status]
             n == gateLeft["creates"]
  <1>1. /\ sink[i] # None
        /\ UNCHANGED <<sink, runs, gates, bound, owner, job, told, mixed, gateLeft>>
    BY DEF Gates!Refresh
  <1>2. view' = [view EXCEPT ![r][i] = rec]
    BY DEF Gates!Refresh, GatesInv, GatesTypes
  <1>3. Given(view, sink, n)
    BY RecordsGiven
  <1>4. rec \in Record /\ rec.life > n
    <2>1. /\ sink[i] \in Record /\ sink[i].life > n
          /\ view[r][i] # None => view[r][i] \in Record /\ view[r][i].life > n
      BY <1>1, <1>3 DEF Given
    <2>2. QED
      BY <2>1 DEF Record, Gates!Records
  <1> HIDE DEF rec, n
  <1>5. /\ view' \in [Controllers -> [Names -> Record \cup {None}]]
        /\ \A q \in Controllers, j \in Names :
             view'[q][j] = view[q][j] \/ view'[q][j] = rec
    BY <1>2, <1>3, <1>4 DEF Given
  <1>6. Given(view', sink', n)
    BY <1>1, <1>3, <1>4, <1>5 DEF Given
  <1>7. QED
    BY <1>1, <1>6, RecordsStep DEF n

LEMMA DeleteStep ==
  ASSUME Gates!GatesAssumption, GatesInv, NEW r \in Controllers, NEW i \in Names,
         Gates!Delete(r, i)
  PROVE  GatesInv'
  <1>1. /\ view' = [view EXCEPT ![r][i] = None] /\ sink' = [sink EXCEPT ![i] = None]
        /\ UNCHANGED <<runs, gates, bound, owner, job, told, mixed, gateLeft>>
    BY DEF Gates!Delete
  <1>2. /\ view' \in [Controllers -> [Names -> Record \cup {None}]]
        /\ \A q \in Controllers, j \in Names :
             view'[q][j] = view[q][j] \/ view'[q][j] = None
    BY <1>1 DEF GatesInv, GatesTypes
  <1>3. /\ sink' \in [Names -> Record \cup {None}]
        /\ \A j \in Names : sink'[j] = sink[j] \/ sink'[j] = None
    BY <1>1 DEF GatesInv, GatesTypes
  <1>4. Given(view', sink', gateLeft["creates"])
    BY <1>2, <1>3, RecordsGiven DEF Given
  <1>5. QED
    BY <1>1, <1>4, RecordsStep

\* Forwarders and ensures end, and with them what is bound.
LEMMA LetGoStep ==
  ASSUME GatesInv, UNCHANGED <<told, mixed>>,
         gateLeft' \in [{"creates", "destroys", "crashes"} -> Nat],
         gateLeft["creates"] \in Nat, gateLeft'["creates"] <= gateLeft["creates"],
         Given(view', sink', gateLeft["creates"]),
         runs' \in [Names -> Nat \cup {None}],
         \A j \in Names, n \in Nat : Gates!Lives(j, n)' => Gates!Lives(j, n),
         gates' \in [Controllers -> [Names -> Gates!Ports \cup {None}]],
         bound' \in [Gates!Ports -> Holder \cup {None}],
         \A p \in Gates!Ports : bound'[p] = bound[p] \/ bound'[p] = None,
         owner' \in [Gates!Ports -> Names \cup {None}],
         job' \in [Controllers -> Job \cup {None}],
         \A q \in Controllers : job'[q] = job[q] \/ job'[q] = None,
         ForwardersListen', BoundIsOwn'
  PROVE  GatesInv'
  <1>1. GatesTypes'
    BY DEF GatesInv, GatesTypes, Given
  <1>2. ASSUME NEW q \in Controllers, job'[q] # None
        PROVE  job'[q] = job[q] /\ job[q].rec.port \in Gates!Ports /\ job[q].rec.life \in Nat
               /\ job[q].rec.life > gateLeft["creates"]
    BY <1>2, JobFacts
  <1>3. LivesAreSpent'
    <2>1. ASSUME NEW n \in Nat, n > gateLeft["creates"]
          PROVE  n > gateLeft'["creates"]
      BY <2>1
    <2>2. /\ \A t \in told : t.life \in Nat /\ t.life > gateLeft["creates"]
          /\ \A rec \in Record : rec.life \in Nat
      BY DEF GatesInv, GatesTypes, LivesAreSpent, Record, Gates!Records
    <2>3. /\ \A q \in Controllers, j \in Names :
               view'[q][j] # None => view'[q][j].life > gateLeft'["creates"]
          /\ \A j \in Names : sink'[j] # None => sink'[j].life > gateLeft'["creates"]
      BY <2>1, <2>2 DEF Given
    <2>4. QED
      BY <1>2, <2>1, <2>2, <2>3 DEF LivesAreSpent
  <1>4. ReadIsTrue'
    BY <1>2 DEF GatesInv, ReadIsTrue, Behind
  <1>5. AccessIsOwnUnlessMixed'
    <2>1. \A t \in told : t.inst \in Names /\ t.life \in Nat /\ t.port \in Gates!Ports
      BY DEF GatesInv, GatesTypes
    <2>2. QED
      BY <2>1 DEF GatesInv, AccessIsOwnUnlessMixed, Gates!AccessIsOwnUnlessMixed,
                  Gates!AccessIsOwn
  <1>6. QED
    BY <1>1, <1>3, <1>4, <1>5 DEF GatesInv

\* Nobody else has the port of the forwarder that is stopped.
LEMMA DestroyStep ==
  ASSUME Gates!GatesAssumption, GatesInv, NEW r \in Controllers, NEW i \in Names,
         Gates!Destroy(r, i)
  PROVE  GatesInv'
  <1> DEFINE p == gates[r][i]
             rec == [view[r][i] EXCEPT !.status = "destroyed"]
             n == gateLeft["creates"]
  <1>1. /\ view[r][i] # None /\ Gates!Spend("destroys")
        /\ gates' = [gates EXCEPT ![r][i] = None]
        /\ owner' = IF p # None /\ owner[p] = i THEN [owner EXCEPT ![p] = None] ELSE owner
        /\ bound' = IF p # None THEN [bound EXCEPT ![p] = None] ELSE bound
        /\ Gates!Persist(r) /\ runs' = [runs EXCEPT ![i] = None]
        /\ UNCHANGED <<job, told, mixed>>
    BY DEF Gates!Destroy
  <1>2. view' = [view EXCEPT ![r][i] = rec]
    BY DEF Gates!Destroy, GatesInv, GatesTypes
  <1>3. Given(view, sink, n)
    BY RecordsGiven
  <1>4. rec \in Record /\ rec.life > n
    <2>1. view[r][i] \in Record /\ view[r][i].life > n
      BY <1>1, <1>3 DEF Given
    <2>2. QED
      BY <2>1 DEF Record, Gates!Records, Gates!Statuses
  <1> HIDE DEF rec, n
  <1>5. /\ view' \in [Controllers -> [Names -> Record \cup {None}]]
        /\ \A q \in Controllers, j \in Names :
             view'[q][j] = view[q][j] \/ view'[q][j] = rec
    BY <1>2, <1>3, <1>4 DEF Given
  <1>6. Given(view', sink', n)
    <2>1. \A q \in Controllers, j \in Names : view'[q][j] # None => view'[q][j].life > n
      BY <1>3, <1>4, <1>5 DEF Given
    <2>2. /\ sink \in [Names -> Record \cup {None}]
          /\ \A j \in Names : sink[j] # None => sink[j].life > n
      BY <1>3 DEF Given
    <2>3. QED
      BY <1>1, <1>5, <2>1, <2>2, PersistFacts
  <1>7. /\ runs' \in [Names -> Nat \cup {None}]
        /\ \A j \in Names : runs'[j] = runs[j] \/ runs'[j] = None
    BY <1>1 DEF GatesInv, GatesTypes
  <1>8. \A j \in Names, m \in Nat : Gates!Lives(j, m)' => Gates!Lives(j, m)
    BY <1>7 DEF Gates!Lives, Gates!GatesAssumption
  <1>9. /\ gates' \in [Controllers -> [Names -> Gates!Ports \cup {None}]]
        /\ gates'[r][i] = None
        /\ \A q \in Controllers, j \in Names :
             ~(q = r /\ j = i) => gates'[q][j] = gates[q][j]
    BY <1>1 DEF GatesInv, GatesTypes
  <1>10. p \in Gates!Ports \cup {None}
    BY DEF GatesInv, GatesTypes
  <1>11. /\ bound' \in [Gates!Ports -> Holder \cup {None}]
         /\ \A q \in Gates!Ports : bound'[q] = bound[q] \/ bound'[q] = None
         /\ \A q \in Gates!Ports : q # p => bound'[q] = bound[q]
         /\ owner' \in [Gates!Ports -> Names \cup {None}]
    BY <1>1, <1>10 DEF GatesInv, GatesTypes
  <1>12. p # None => bound[p].by = r /\ bound[p].inst = i
    BY DEF GatesInv, ForwardersListen
  <1> HIDE DEF p
  <1>13. ForwardersListen'
    <2> SUFFICES ASSUME NEW q \in Controllers, NEW j \in Names, gates'[q][j] # None
                 PROVE  LET h == bound'[gates'[q][j]] IN h # None /\ h.by = q /\ h.inst = j
      BY DEF ForwardersListen
    <2>1. ~(q = r /\ j = i) /\ gates'[q][j] = gates[q][j]
      BY <1>9
    <2>2. LET h == bound[gates[q][j]] IN h # None /\ h.by = q /\ h.inst = j
      BY <2>1 DEF GatesInv, ForwardersListen
    <2>3. gates[q][j] \in Gates!Ports /\ gates[q][j] # p
      BY <1>12, <2>1, <2>2 DEF GatesInv, GatesTypes
    <2>4. QED
      BY <1>11, <2>1, <2>2, <2>3
  <1>14. BoundIsOwn'
    <2> SUFFICES ASSUME NEW q \in Controllers, job[q] # None, job[q].pc = "register"
                 PROVE  LET h == bound'[job[q].rec.port] IN
                        h # None /\ h.by = q /\ h.inst = job[q].inst
                          /\ gates'[q][job[q].inst] = None
      BY <1>1 DEF BoundIsOwn
    <2>1. LET h == bound[job[q].rec.port] IN
          h # None /\ h.by = q /\ h.inst = job[q].inst /\ gates[q][job[q].inst] = None
      BY DEF GatesInv, BoundIsOwn
    <2>2. job[q].rec.port \in Gates!Ports /\ job[q].inst \in Names
      BY JobFacts
    <2>3. p # None => job[q].rec.port # p
      BY <1>12, <2>1 DEF p
    <2>4. bound'[job[q].rec.port] = bound[job[q].rec.port]
      <3>1. CASE p = None
        BY <1>1, <3>1 DEF p
      <3>2. CASE p # None
        BY <1>11, <2>2, <2>3, <3>2
      <3>3. QED
        BY <3>1, <3>2
    <2>5. gates'[q][job[q].inst] = None
      BY <1>9, <2>1, <2>2
    <2>6. QED
      BY <2>1, <2>4, <2>5
  <1>15. /\ gateLeft' \in [{"creates", "destroys", "crashes"} -> Nat]
         /\ gateLeft["creates"] \in Nat /\ gateLeft'["creates"] <= gateLeft["creates"]
    BY <1>1, SpendFacts
  <1>16. /\ job' \in [Controllers -> Job \cup {None}]
         /\ \A q \in Controllers : job'[q] = job[q] \/ job'[q] = None
    BY <1>1 DEF GatesInv, GatesTypes
  <1>17. QED
    BY <1>1, <1>6, <1>7, <1>8, <1>9, <1>11, <1>13, <1>14, <1>15, <1>16, LetGoStep DEF n

\* A process that ends takes its own forwarders with it.
LEMMA RestartStep ==
  ASSUME Gates!GatesAssumption, GatesInv, NEW r \in Controllers,
         NEW clustered \in BOOLEAN, Gates!Restart(r, clustered)
  PROVE  GatesInv'
  <1> DEFINE loaded == [i \in Names |-> Gates!Loaded(sink[i], clustered)]
             n == gateLeft["creates"]
  <1>1. /\ Gates!Spend("crashes")
        /\ view' = [view EXCEPT ![r] = loaded]
        /\ gates' = [gates EXCEPT ![r] = [i \in Names |-> None]]
        /\ bound' = [p \in Gates!Ports |->
                       IF bound[p] # None /\ bound[p].by = r THEN None ELSE bound[p]]
        /\ job' = [job EXCEPT ![r] = None]
        /\ UNCHANGED <<sink, runs, owner, told, mixed>>
    BY DEF Gates!Restart
  <1>2. Given(view, sink, n)
    BY RecordsGiven
  <1>3. Given(view', sink', n)
    <2>1. ASSUME NEW j \in Names
          PROVE  /\ loaded[j] \in Record \cup {None}
                 /\ loaded[j] # None => loaded[j].life > n
      <3>1. sink[j] \in Record \cup {None} /\ (sink[j] # None => sink[j].life > n)
        BY <1>2 DEF Given
      <3>2. loaded[j] = Gates!Loaded(sink[j], clustered)
        OBVIOUS
      <3>3. QED
        BY <3>1, <3>2 DEF Gates!Loaded, Record, Gates!Records, Gates!Statuses
    <2>2. loaded \in [Names -> Record \cup {None}]
      BY <2>1
    <2> HIDE DEF loaded
    <2>3. /\ view' \in [Controllers -> [Names -> Record \cup {None}]]
          /\ \A q \in Controllers : view'[q] = view[q] \/ view'[q] = loaded
      BY <1>1, <1>2, <2>2 DEF Given
    <2>4. QED
      BY <1>1, <1>2, <2>1, <2>3 DEF Given
  <1> HIDE DEF loaded
  <1>4. /\ \A j \in Names, m \in Nat : Gates!Lives(j, m)' => Gates!Lives(j, m)
        /\ runs' \in [Names -> Nat \cup {None}]
    BY <1>1 DEF Gates!Lives, GatesInv, GatesTypes
  <1>5. /\ gates' \in [Controllers -> [Names -> Gates!Ports \cup {None}]]
        /\ \A j \in Names : gates'[r][j] = None
        /\ \A q \in Controllers : q # r => gates'[q] = gates[q]
    BY <1>1 DEF GatesInv, GatesTypes
  <1>6. /\ bound' \in [Gates!Ports -> Holder \cup {None}]
        /\ \A p \in Gates!Ports : bound'[p] = bound[p] \/ bound'[p] = None
        /\ \A p \in Gates!Ports : bound[p].by # r => bound'[p] = bound[p]
    BY <1>1 DEF GatesInv, GatesTypes
  <1>7. /\ job' \in [Controllers -> Job \cup {None}] /\ job'[r] = None
        /\ \A q \in Controllers : q # r => job'[q] = job[q]
    BY <1>1 DEF GatesInv, GatesTypes
  <1>8. ForwardersListen'
    <2> SUFFICES ASSUME NEW q \in Controllers, NEW j \in Names, gates'[q][j] # None
                 PROVE  LET h == bound'[gates'[q][j]] IN h # None /\ h.by = q /\ h.inst = j
      BY DEF ForwardersListen
    <2>1. q # r /\ gates'[q][j] = gates[q][j] /\ gates[q][j] \in Gates!Ports
      BY <1>5 DEF GatesInv, GatesTypes
    <2>2. LET h == bound[gates[q][j]] IN h # None /\ h.by = q /\ h.inst = j
      BY <2>1 DEF GatesInv, ForwardersListen
    <2>3. QED
      BY <1>6, <2>1, <2>2
  <1>9. BoundIsOwn'
    <2> SUFFICES ASSUME NEW q \in Controllers, job'[q] # None, job'[q].pc = "register"
                 PROVE  LET h == bound'[job'[q].rec.port] IN
                        h # None /\ h.by = q /\ h.inst = job'[q].inst
                          /\ gates'[q][job'[q].inst] = None
      BY DEF BoundIsOwn
    <2>1. q # r /\ job'[q] = job[q]
      BY <1>7
    <2>2. LET h == bound[job[q].rec.port] IN
          h # None /\ h.by = q /\ h.inst = job[q].inst /\ gates[q][job[q].inst] = None
      BY <2>1 DEF GatesInv, BoundIsOwn
    <2>3. job[q].rec.port \in Gates!Ports /\ job[q].inst \in Names
      BY <2>1, JobFacts
    <2>4. QED
      BY <1>5, <1>6, <2>1, <2>2, <2>3
  <1>10. /\ gateLeft' \in [{"creates", "destroys", "crashes"} -> Nat]
         /\ gateLeft["creates"] \in Nat /\ gateLeft'["creates"] <= gateLeft["creates"]
    BY <1>1, SpendFacts
  <1>11. owner' \in [Gates!Ports -> Names \cup {None}]
    BY <1>1 DEF GatesInv, GatesTypes
  <1>12. \A q \in Controllers : job'[q] = job[q] \/ job'[q] = None
    BY <1>7
  <1>13. QED
    BY <1>1, <1>3, <1>4, <1>5, <1>6, <1>7, <1>8, <1>9, <1>10, <1>11, <1>12, LetGoStep DEF n

-----------------------------------------------------------------------------
LEMMA GatesStep ==
  ASSUME Gates!GatesAssumption, GatesInv, Gates!Next
  PROVE  GatesInv'
  <1>1. PICK r \in Controllers :
          \/ Gates!Ensure(r)
          \/ \E clustered \in BOOLEAN : Gates!Restart(r, clustered)
          \/ \E i \in Names :
               \/ Gates!Create(r, i) \/ Gates!Refresh(r, i) \/ Gates!Delete(r, i)
               \/ Gates!Sweep(r, i) \/ Gates!Destroy(r, i)
    BY DEF Gates!Next
  <1>2. CASE Gates!Ensure(r)
    BY <1>2, BindStep, RegisterStep, ReadOwnerStep, DecideStep DEF Gates!Ensure
  <1>3. ASSUME NEW clustered \in BOOLEAN, Gates!Restart(r, clustered)
        PROVE  GatesInv'
    BY <1>3, RestartStep
  <1>4. ASSUME NEW i \in Names,
               \/ Gates!Create(r, i) \/ Gates!Refresh(r, i) \/ Gates!Delete(r, i)
               \/ Gates!Sweep(r, i) \/ Gates!Destroy(r, i)
        PROVE  GatesInv'
    BY <1>4, CreateStep, RefreshStep, DeleteStep, SweepStep, DestroyStep
  <1>5. QED
    BY <1>1, <1>2, <1>3, <1>4

LEMMA GatesIdle ==
  ASSUME GatesInv, UNCHANGED gateVars
  PROVE  GatesInv'
  BY DEF gateVars, GatesInv, GatesTypes, ForwardersListen, BoundIsOwn, LivesAreSpent,
         ReadIsTrue, Behind, AccessIsOwnUnlessMixed, Gates!AccessIsOwnUnlessMixed,
         Gates!AccessIsOwn, Gates!Lives

\* In every behaviour of the services, of any processes, instances and ports: a port that
\* a create task was told, and that somebody listens on, is its instance's own, unless one
\* of the cases that `mixed` names came first (ensure in lvs.rs).
THEOREM ServicesAccessIsOwn ==
  Spec => []AccessIsOwnUnlessMixed
  <1>1. Gates!GatesAssumption
    BY PartAssumption
  <1>2. Init => GatesInv
    BY <1>1, GatesInit DEF Init
  <1>3. GatesInv /\ [Next]_vars => GatesInv'
    <2>1. ASSUME GatesInv, Next PROVE GatesInv'
      BY <1>1, <2>1, GatesStep, GatesIdle DEF Next
    <2>2. ASSUME GatesInv, UNCHANGED vars PROVE GatesInv'
      BY <2>2, GatesIdle DEF vars
    <2>3. QED
      BY <2>1, <2>2
  <1>4. GatesInv => AccessIsOwnUnlessMixed
    BY DEF GatesInv
  <1>5. QED
    BY <1>2, <1>3, <1>4, PTL DEF Spec
=============================================================================
