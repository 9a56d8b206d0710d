------------------------------ MODULE EngineProofs ------------------------------
(***************************************************************************)
(* Theorems of EngineRuns, for any invocations, engines and questions.     *)
(***************************************************************************)
EXTENDS EngineRuns, FiniteSetTheorems, SequenceTheorems, TLAPS

Role(i) == <<i, "role">>

Phase == {"fresh", "submitted", "leasing", "rooting", "binding", "working", "awaiting",
          "deciding", "declining", "settling", "closing", "ending", "returned"}
\* Admitted and not yet returned; of these, what has the lease.
Active  == Phase \ {"fresh", "submitted", "returned"}
Holding == Active \ {"leasing", "ending"}
Early   == {"fresh", "submitted", "leasing", "rooting", "binding"}

\* Of an emission: past the gate, and before its append.
Within == {"inside", "appended"}
Before == {"queued", "inside"}

Emission == [at : {"idle", "queued", "inside", "appended"}, kind : Kind, pos : Nat]
Box == {<<>>} \cup {<<b>> : b \in [choice : Choice, n : 1..MaxAsked]}

\* TypeOK without the gate, whose relation to the emissions is apart.
Types ==
  /\ inv \in [Invocation -> InvocationType]
  /\ em \in [Goroutine -> Emission]
  /\ admitted \in [Engine -> Invocation \cup {None}]
  /\ lease \in Invocation \cup {None}
  /\ record \in Seq([by : Invocation, kind : Kind])
  /\ published \in Seq(DOMAIN record)
  /\ stops \subseteq {Run} /\ timedOut \subseteq Engine
  /\ hand \in {<<>>} \cup {<<q>> : q \in [of : Invocation, n : 1..MaxAsked]}

Gated ==
  /\ gate \in [Engine -> Goroutine \cup {None}]
  /\ \A x \in Goroutine, e \in Engine :
       gate[e] = x <=> inv[x[1]].home = e /\ em[x].at \in Within

\* What the run itself may be recording at each of its steps.
Records(y, k) ==
  \/ y.phase = "rooting" /\ k = "root"
  \/ y.phase = "working" /\ k = "status"
  \/ y.phase = "awaiting" /\ k = "question"
  \/ y.phase \in {"deciding", "declining"} /\ k = "answer"
  \/ y.phase = "settling" /\ k \in {"material", "status"}
  \/ y.phase = "closing" /\ k = y.word

\* Of an invocation i in the state y, with the emissions m of its run and r of
\* its provider: who it is in its engine, and what it has of the task.
Admitted(i, y) ==
  /\ y.phase = "fresh" <=> y.home = None
  /\ y.ended <=> y.phase = "returned"
  /\ y.phase \in Active => admitted[y.home] = i
  /\ y.phase \in Holding => lease = i
  /\ y.phase = "rooting" => i = Run
  /\ y.expired => y.phase # "fresh"
  /\ y.pending => y.asked # 0
  /\ y.box # <<>> => y.box[1].n = y.asked

\* What it is emitting, and how far that has come.
Emits(i, y, m, r) ==
  /\ m.at # "idle" => Records(y, m.kind)
  /\ r.at # "idle" => r.kind = "status" /\ y.phase \notin Early
  /\ m.at \in Within \/ r.at \in Within => y.phase \in Active /\ y.failure # "append"
  /\ \A z \in {m, r} : z.at = "appended" =>
       /\ lease = i
       /\ record # <<>> /\ z.pos = Len(record)
       /\ record[Len(record)] = [by |-> i, kind |-> z.kind]

\* Where it relies on a task that is not over.
Owing(y, m) ==
  \/ y.phase \in {"rooting", "working", "awaiting", "deciding", "declining"}
  \/ y.phase = "settling" /\ y.word = "completed"
  \/ m.at \in Before /\ m.kind = "completed"

\* Whether its ending is recorded.
Accounts(i, y, m) ==
  /\ \A n, k \in Endings(i) : n = k
  /\ y.phase \notin {"closing", "ending", "returned"} \/ m.at \in Before => Endings(i) = {}
  /\ y.phase \in {"closing", "ending", "returned"} /\ y.failure = "no" /\ m.at = "idle" =>
       \E k \in DOMAIN published : published[k] \in Endings(i)

Stands(i, y, m, r) ==
  /\ Admitted(i, y)
  /\ Emits(i, y, m, r)
  /\ Owing(y, m) => ~Over
  /\ Accounts(i, y, m)

\* Nothing of the task is recorded before its root, and nothing resumed.
First ==
  /\ (\/ inv[Run].phase \in {"fresh", "submitted", "leasing"}
      \/ inv[Run].phase = "rooting" /\ em[Main(Run)].at \in Before) => record = <<>>
  /\ record = <<>> => \A i \in Invocation \ {Run} : inv[i].phase = "fresh"

\* What is appended and not published is later than all that is.
InOrder ==
  /\ \A k, l \in DOMAIN published : k < l => published[k] < published[l]
  /\ \A x \in Goroutine :
       em[x].at = "appended" => \A k \in DOMAIN published : published[k] < Len(record)

Delivered == \A n \in DOMAIN record :
       \/ \E k \in DOMAIN published : published[k] = n
       \/ \E x \in Goroutine : em[x].at = "appended" /\ em[x].pos = n
       \/ inv[record[n].by].failure # "no"

EngineInv ==
  /\ Types /\ Gated
  /\ \A i \in Invocation : Stands(i, inv[i], em[Main(i)], em[Role(i)])
  /\ First /\ InOrder /\ Delivered /\ OverIsOver

----------------------------------------------------------------------------
LEMMA Goroutines ==
  /\ \A i \in Invocation : Main(i) \in Goroutine /\ Role(i) \in Goroutine
  /\ \A i, j \in Invocation : Main(i) # Role(j) /\ (Main(i) = Main(j) => i = j)
                                /\ (Role(i) = Role(j) => i = j)
  /\ \A i \in Invocation : Main(i)[1] = i /\ Role(i)[1] = i
  /\ \A x \in Goroutine : x[1] \in Invocation /\ (x = Main(x[1]) \/ x = Role(x[1]))
BY DEF Main, Role, Goroutine

LEMMA InvocationIs ==
  InvocationType =
    [phase : Phase, home : Engine \cup {None}, failure : {"no", "wait", "append", "refused"},
     done : BOOLEAN, ended : BOOLEAN, lane : {"work", "question"}, word : Ending,
     asked : 0..MaxAsked, pending : BOOLEAN, box : Box, expired : BOOLEAN]
BY DEF InvocationType, Phase, Box

LEMMA EngineInvInit == EngineAssumption /\ Init => EngineInv
<1> SUFFICES ASSUME EngineAssumption, Init PROVE EngineInv
  OBVIOUS
<1>0. \A i \in Invocation : inv[i] = Fresh /\ em[Main(i)] = Idle /\ em[Role(i)] = Idle
  BY Goroutines DEF Init
<1>f. Fresh \in InvocationType
  BY InvocationIs DEF Fresh, Phase, Ending, TaskTerminal, Box, EngineAssumption
<1>e. Idle \in Emission
  BY DEF Idle, Emission, Kind
<1>1. Types
  BY <1>f, <1>e DEF Init, Types, EngineAssumption
<1>2. Gated
  BY Goroutines DEF Init, Gated, Fresh, Idle, Within, EngineAssumption, Goroutine
<1>3. ASSUME NEW i \in Invocation PROVE Stands(i, Fresh, Idle, Idle)
  <2>1. Endings(i) = {}
    BY DEF Endings, Init
  <2> QED  BY <2>1 DEF Stands, Admitted, Emits, Owing, Accounts, Fresh, Idle, Active, Holding, Within,
                       Before, Phase
<1>4. First /\ InOrder /\ Delivered /\ OverIsOver
  BY <1>0 DEF Init, First, InOrder, Delivered, OverIsOver, Fresh, Idle
<1> QED  BY <1>0, <1>1, <1>2, <1>3, <1>4 DEF EngineInv

----------------------------------------------------------------------------
(* Steps of one invocation, and what can stop or answer it, that record and
   publish nothing; and of these, those that leave the gate, the lease and who
   is admitted as they are. *)

Handed == {<<>>} \cup {<<q>> : q \in [of : Invocation, n : 1..MaxAsked]}

Rests == /\ UNCHANGED <<admitted, gate, lease, record, published>>
         /\ stops' \subseteq {Run} /\ timedOut' \subseteq Engine /\ hand' \in Handed

LEMMA Recorded ==
  ASSUME EngineInv
  PROVE  /\ Len(record) \in Nat /\ DOMAIN record = 1..Len(record)
         /\ \A n \in DOMAIN record : record[n].by \in Invocation /\ record[n].kind \in Kind
         /\ Len(published) \in Nat /\ DOMAIN published = 1..Len(published)
         /\ \A k \in DOMAIN published : published[k] \in 1..Len(record)
<1> DEFINE Row == [by : Invocation, kind : Kind]
<1>1. record \in Seq(Row) /\ published \in Seq(DOMAIN record)
  BY DEF EngineInv, Types
<1>2. \A n \in DOMAIN record : record[n] \in Row
  <2> HIDE DEF Row
  <2> QED  BY <1>1
<1>3. \A k \in DOMAIN published : published[k] \in DOMAIN record
  <2> DEFINE D == DOMAIN record
  <2>1. published \in Seq(D)
    BY <1>1
  <2> HIDE DEF D
  <2>2. \A k \in DOMAIN published : published[k] \in D
    BY <2>1
  <2> QED  BY <2>2 DEF D
<1>4. Len(record) \in Nat /\ DOMAIN record = 1..Len(record)
  BY <1>1
<1>5. Len(published) \in Nat /\ DOMAIN published = 1..Len(published)
  BY <1>1
<1> QED  BY <1>2, <1>3, <1>4, <1>5

LEMMA KeptRests == ASSUME EngineInv, Kept PROVE Rests
BY DEF EngineInv, Types, Kept, Rests, Handed

Standings == \A i \in Invocation : Stands(i, inv[i], em[Main(i)], em[Role(i)])

LEMMA Moves ==
  ASSUME EngineAssumption, EngineInv, UNCHANGED <<record, published>>,
         admitted' \in [Engine -> Invocation \cup {None}], lease' \in Invocation \cup {None},
         stops' \subseteq {Run}, timedOut' \subseteq Engine, hand' \in Handed,
         NEW i \in Invocation, NEW y \in InvocationType, inv' = [inv EXCEPT ![i] = y],
         NEW x \in Goroutine, x[1] = i, NEW z \in Emission, em' = [em EXCEPT ![x] = z],
         em[x].at = "appended" \/ z.at = "appended" => z = em[x],
         inv[i].failure # "no" => y.failure # "no",
         Gated', Standings', First'
  PROVE  EngineInv'
<1>t. inv \in [Invocation -> InvocationType] /\ em \in [Goroutine -> Emission]
  BY DEF EngineInv, Types
<1>i. inv'[i] = y /\ \A j \in Invocation \ {i} : inv'[j] = inv[j]
  BY <1>t
<1>x. em'[x] = z /\ \A g \in Goroutine \ {x} : em'[g] = em[g]
  BY <1>t
<1>w. \A g \in Goroutine : em'[g].at = "appended" \/ em[g].at = "appended" => em'[g] = em[g]
  BY <1>x
<1>1. Types'
  BY <1>t DEF EngineInv, Types, Handed
<1>5. InOrder'
  BY <1>w DEF EngineInv, InOrder
<1>6. Delivered'
  <2>1. \A n \in DOMAIN record : record[n].by \in Invocation
    BY Recorded
  <2>2. \A j \in Invocation : inv[j].failure # "no" => inv'[j].failure # "no"
    BY <1>i
  <2> QED  BY <2>1, <2>2, <1>w DEF EngineInv, Delivered
<1>7. OverIsOver'
  BY DEF EngineInv, OverIsOver
<1> QED  BY <1>1, <1>5, <1>6, <1>7 DEF EngineInv, Standings

LEMMA RunMoves ==
  ASSUME EngineAssumption, EngineInv, Rests,
         NEW i \in Invocation, NEW y \in InvocationType, inv' = [inv EXCEPT ![i] = y],
         NEW x \in Goroutine, x[1] = i, NEW z \in Emission, em' = [em EXCEPT ![x] = z],
         z = em[x] \/ (em[x].at = "idle" /\ z.at \notin Within),
         y.home = inv[i].home \/ inv[i].phase = "fresh",
         inv[i].failure # "no" => y.failure # "no",
         Stands(i, y, em'[Main(i)], em'[Role(i)]),
         i = Run \/ inv[i].phase # "fresh" \/ record # <<>> \/ y.phase = "fresh",
         i = Run /\ (\/ y.phase \in {"fresh", "submitted", "leasing"}
                     \/ y.phase = "rooting" /\ em'[Main(Run)].at \in Before) => record = <<>>
  PROVE  EngineInv'
<1>t. inv \in [Invocation -> InvocationType] /\ em \in [Goroutine -> Emission]
  BY DEF EngineInv, Types
<1>i. inv'[i] = y /\ \A j \in Invocation \ {i} : inv'[j] = inv[j]
  BY <1>t
<1>x. em'[x] = z /\ \A g \in Goroutine \ {x} : em'[g] = em[g]
  BY <1>t
<1>w. \A g \in Goroutine : /\ em'[g].at \in Within <=> em[g].at \in Within
                           /\ em'[g].at = "appended" => em'[g] = em[g]
                           /\ em[g].at = "appended" => em'[g] = em[g]
  BY <1>x DEF Within
<1>2. Gated'
  <2>1. CASE y.home = inv[i].home
    <3>1. \A j \in Invocation : inv'[j].home = inv[j].home
      BY <1>i, <2>1
    <3> QED  BY <3>1, <1>w, Goroutines DEF EngineInv, Gated, Rests
  <2>2. CASE inv[i].phase = "fresh"
    <3>1. em[Main(i)].at \notin Within /\ em[Role(i)].at \notin Within /\ inv[i].home = None
      BY <2>2 DEF EngineInv, Stands, Emits, Admitted, Active
    <3>2. \A g \in Goroutine : g[1] = i => em[g].at \notin Within
      BY <3>1, Goroutines
    <3>3. \A g \in Goroutine : g[1] # i => inv'[g[1]].home = inv[g[1]].home
      BY <1>i, Goroutines
    <3> QED  BY <3>2, <3>3, <1>w DEF EngineInv, Gated, Rests
  <2> QED  BY <2>1, <2>2
<1>3. ASSUME NEW j \in Invocation PROVE Stands(j, inv[j], em[Main(j)], em[Role(j)])'
  <2>1. CASE j = i
    BY <2>1, <1>i DEF Rests, Stands, Admitted, Emits, Owing, Accounts, Over, Endings
  <2>2. CASE j # i
    <3>1. inv'[j] = inv[j] /\ em'[Main(j)] = em[Main(j)] /\ em'[Role(j)] = em[Role(j)]
      BY <2>2, <1>i, <1>x, Goroutines
    <3> QED  BY <3>1 DEF EngineInv, Rests, Stands, Admitted, Emits, Owing, Accounts, Over, Endings
  <2> QED  BY <2>1, <2>2
<1>4. First'
  <2>1. CASE i = Run
    BY <2>1, <1>i DEF EngineInv, First, Rests
  <2>2. CASE i # Run
    <3>1. inv'[Run] = inv[Run] /\ em'[Main(Run)] = em[Main(Run)]
      BY <2>2, <1>i, <1>x, Goroutines DEF EngineAssumption
    <3>2. record = <<>> => y.phase = "fresh"
      BY <2>2 DEF EngineInv, First
    <3> QED  BY <3>1, <3>2, <1>i DEF EngineInv, First, Rests
  <2> QED  BY <2>1, <2>2
<1>5. /\ admitted' \in [Engine -> Invocation \cup {None}] /\ lease' \in Invocation \cup {None}
      /\ em[x].at = "appended" \/ z.at = "appended" => z = em[x]
  BY <1>w, <1>x DEF EngineInv, Types, Rests
<1>6. Standings'
  BY <1>3 DEF Standings
<1> QED  BY <1>2, <1>4, <1>5, <1>6, Moves DEF Rests

----------------------------------------------------------------------------
(* A step of a run from one of its active phases to another. *)

LEMMA NoEmission ==
  ASSUME EngineInv, NEW x \in Goroutine, UNCHANGED em
  PROVE  em' = [em EXCEPT ![x] = em[x]] /\ em[x] \in Emission
BY DEF EngineInv, Types

LEMMA Emitted ==
  ASSUME EngineInv, NEW x \in Goroutine, NEW k \in Kind, Emitting(x, k)
  PROVE  \E z \in Emission :
           /\ em' = [em EXCEPT ![x] = z]
           /\ z.at \in {"idle", "queued"}
           /\ z.at = "queued" => z.kind = k
           /\ z.at = "idle" => ~Owns(x[1], k)
<1>1. CASE Owns(x[1], k)
  <2> DEFINE z == [Idle EXCEPT !.at = "queued", !.kind = k]
  <2>1. z \in Emission /\ z.at = "queued" /\ z.kind = k
    BY DEF Emission, Idle
  <2> QED  BY <1>1, <2>1 DEF Emitting
<1>2. CASE ~Owns(x[1], k)
  <2>1. Idle \in Emission /\ Idle.at = "idle"
    BY DEF Emission, Idle, Kind
  <2> QED  BY <1>2, <2>1 DEF Emitting
<1> QED  BY <1>1, <1>2

Pursues == {"rooting", "working", "awaiting", "deciding", "declining"}

Relies(y) == y.phase \in Pursues \/ (y.phase = "settling" /\ y.word = "completed")

\* The fields of y that a step of the run leaves as they are, or clears.
Carries(y, v) ==
  /\ y.home = v.home /\ y.ended = v.ended /\ y.failure = v.failure /\ y.expired = v.expired
  /\ \/ y.asked = v.asked /\ (y.pending => v.pending) /\ y.box \in {v.box, <<>>}
     \/ y.asked # 0 /\ y.box = <<>>

LEMMA MainMoves ==
  ASSUME EngineAssumption, EngineInv, Rests,
         NEW i \in Invocation, NEW y \in InvocationType, inv' = [inv EXCEPT ![i] = y],
         inv[i].phase \in Active, y.phase \in Active \ {"leasing", "rooting"},
         y.phase \in Holding => inv[i].phase \in Holding,
         y.phase \in Early => inv[i].phase \in Early,
         em[Main(i)].at = "idle",
         Carries(y, inv[i]),
         Relies(y) => ~Over,
         y.phase = "ending" => y.failure # "no" \/ inv[i].phase = "closing",
         inv[i].phase = "closing" => y.phase = "ending",
         \/ UNCHANGED em /\ y.phase # "closing"
         \/ \E k \in Kind : /\ Emitting(Main(i), k)
                            /\ Records(y, k)
                            /\ k = "completed" => ~Over
                            /\ y.phase = "closing" => inv[i].phase # "closing" /\ k \in Account
  PROVE  EngineInv'
<1> DEFINE m == em'[Main(i)]
           r == em[Role(i)]
<1>g. Main(i) \in Goroutine /\ Role(i) \in Goroutine /\ Main(i)[1] = i /\ Main(i) # Role(i)
  BY Goroutines
<1>0. Stands(i, inv[i], em[Main(i)], r)
  BY DEF EngineInv
<1>1. /\ \E z \in Emission : /\ em' = [em EXCEPT ![Main(i)] = z]
                             /\ z.at \in {"idle", "queued"}
      /\ m.at \in {"idle", "queued"}
      /\ m.at = "queued" => Records(y, m.kind) /\ (m.kind = "completed" => ~Over)
      /\ y.phase = "closing" => inv[i].phase # "closing" /\ (m.at = "idle" => y.failure # "no")
  <2>1. CASE UNCHANGED em /\ y.phase # "closing"
    BY <2>1, <1>g, NoEmission
  <2>2. CASE \E k \in Kind : /\ Emitting(Main(i), k)
                             /\ Records(y, k)
                             /\ k = "completed" => ~Over
                             /\ y.phase = "closing" => inv[i].phase # "closing" /\ k \in Account
    <3>k. PICK k \in Kind : /\ Emitting(Main(i), k)
                            /\ Records(y, k)
                            /\ k = "completed" => ~Over
                            /\ y.phase = "closing" => inv[i].phase # "closing" /\ k \in Account
      BY <2>2
    <3>1. PICK z \in Emission : /\ em' = [em EXCEPT ![Main(i)] = z]
                                /\ z.at \in {"idle", "queued"}
                                /\ z.at = "queued" => z.kind = k
                                /\ z.at = "idle" => ~Owns(i, k)
      BY <3>k, <1>g, Emitted
    <3>2. m = z
      BY <3>1, <1>g DEF EngineInv, Types
    <3>3. y.phase = "closing" /\ m.at = "idle" => y.failure # "no"
      BY <3>1, <3>2, <3>k, <1>0 DEF Owns, Carries, Stands, Admitted, Active
    <3> QED  BY <3>1, <3>2, <3>3, <3>k
  <2> QED  BY <2>1, <2>2
<1>r. em'[Role(i)] = r
  BY <1>1, <1>g DEF EngineInv, Types
<1>2. Admitted(i, y)
  BY <1>0 DEF Stands, Admitted, Carries, Active, Holding, Phase
<1>3. Emits(i, y, m, r)
  <2>1. \A k : k \in {m, r} => k = m \/ k = r
    OBVIOUS
  <2> HIDE DEF m, r
  <2> QED  BY <1>0, <1>1 DEF Stands, Emits, Carries, Within
<1>4. Owing(y, m) => ~Over
  BY <1>1 DEF Owing, Relies, Pursues, Before
<1>5. Accounts(i, y, m)
  <2> HIDE DEF m, r
  <2> QED  BY <1>0, <1>1 DEF Stands, Accounts, Carries, Before, Records, Active, Holding, Phase
<1>6. Stands(i, y, em'[Main(i)], em'[Role(i)])
  BY <1>2, <1>3, <1>4, <1>5, <1>r DEF Stands
<1>7. inv[i].phase # "fresh" /\ y.phase \notin {"fresh", "submitted", "leasing", "rooting"}
  BY DEF Active, Phase
<1> QED  BY <1>1, <1>6, <1>7, <1>g, RunMoves DEF Carries, Within

LEMMA InvocationState == ASSUME EngineInv, NEW i \in Invocation PROVE inv[i] \in InvocationType
BY DEF EngineInv, Types

LEMMA Concludes ==
  ASSUME EngineAssumption, EngineInv, Kept, NEW i \in Invocation,
         inv[i].phase \in Holding \ {"closing"}, em[Main(i)].at = "idle",
         NEW word \in Ending, word = "completed" => ~Over, Conclude(i, word)
  PROVE  EngineInv'
<1> DEFINE y == [inv[i] EXCEPT !.phase = IF word = "quarantined" THEN "closing" ELSE "settling",
                               !.word = word, !.pending = FALSE, !.box = <<>>]
           k == IF word = "quarantined" THEN word ELSE "material"
<1>1. inv[i] \in InvocationType
  BY InvocationState
<1>2. /\ y \in InvocationType
      /\ y.phase = IF word = "quarantined" THEN "closing" ELSE "settling"
      /\ y.word = word /\ Carries(y, inv[i])
  BY <1>1, InvocationIs DEF Carries, Phase, Box
<1>4. inv' = [inv EXCEPT ![i] = y] /\ k \in Kind
  BY DEF Conclude, Kind, Account, Ending
<1>3. Emitting(Main(i), k) /\ Records(y, k) /\ k # "completed" /\ k \in Account
  BY <1>2 DEF Conclude, Records, Account, Ending
<1> HIDE DEF y, k
<1> QED  BY <1>2, <1>3, <1>4, KeptRests, MainMoves DEF Relies, Pursues, Active, Holding, Early, Phase

LEMMA Terminates ==
  ASSUME EngineAssumption, EngineInv, Kept, NEW i \in Invocation,
         inv[i].phase \in Holding \ {"closing"}, em[Main(i)].at = "idle",
         NEW word \in Ending, word # "completed", Terminate(i, word)
  PROVE  EngineInv'
<1>1. CASE inv[i].failure = "no"
  <2>1. \E w \in Ending : w # "completed" /\ Conclude(i, w)
    BY <1>1 DEF Terminate, Withdrawal, Ending
  <2> QED  BY <2>1, Concludes
<1>2. CASE inv[i].failure # "no"
  <2> DEFINE y == [inv[i] EXCEPT !.phase = "ending", !.pending = FALSE, !.box = <<>>]
  <2>1. inv[i] \in InvocationType
    BY InvocationState
  <2>2. /\ y \in InvocationType /\ y.phase = "ending" /\ y.failure # "no"
        /\ Carries(y, inv[i]) /\ inv' = [inv EXCEPT ![i] = y] /\ UNCHANGED em
    BY <1>2, <2>1, InvocationIs DEF Terminate, Carries, Phase, Box
  <2> HIDE DEF y
  <2> QED  BY <2>2, KeptRests, MainMoves DEF Relies, Pursues, Active, Holding, Early, Phase
<1> QED  BY <1>1, <1>2

\* What is known of a run at one of its steps, silent.
LEMMA AtStep ==
  ASSUME EngineInv, NEW i \in Invocation, Silent(Main(i)) \/ inv[i].phase = "binding"
  PROVE  /\ em[Main(i)].at = "idle"
         /\ inv[i] \in InvocationType
         /\ inv[i].phase \in Pursues => ~Over
         /\ inv[i].phase = "rooting" => i = Run
<1>1. inv[i] \in InvocationType /\ Stands(i, inv[i], em[Main(i)], em[Role(i)])
  BY DEF EngineInv, Types
<1>2. em[Main(i)].at = "idle"
  <2>1. inv[i].phase = "binding" => \A k : ~Records(inv[i], k)
    BY DEF Records
  <2> QED  BY <1>1, <2>1 DEF Silent, Idle, Stands, Emits
<1>3. inv[i].phase \in Pursues => ~Over
  BY <1>1 DEF Pursues, Stands, Owing
<1>4. inv[i].phase = "rooting" => i = Run
  BY <1>1 DEF Stands, Admitted
<1> QED  BY <1>1, <1>2, <1>3, <1>4

\* Steps of a run that record nothing.
LEMMA QuietSteps ==
  ASSUME EngineAssumption, EngineInv, NEW i \in Invocation,
         \/ Rooted(i) \/ (inv[i].phase = "binding" /\ Bound(i)) \/ Closed(i) \/ Decided(i)
         \/ (Withdraw(i) /\ inv[i].lane = "work")
  PROVE  EngineInv'
<1> USE DEF Active, Holding, Early, Phase, Relies, Pursues
<1>1. CASE Rooted(i)
  <2> DEFINE y == [inv[i] EXCEPT !.phase = IF inv[i].failure = "no" THEN "working" ELSE "ending"]
  <2>1. /\ y \in InvocationType /\ Carries(y, inv[i])
        /\ y.phase = IF inv[i].failure = "no" THEN "working" ELSE "ending"
        /\ y.failure = inv[i].failure
    BY <1>1, AtStep, InvocationIs DEF Rooted, Carries
  <2>2. inv' = [inv EXCEPT ![i] = y] /\ UNCHANGED em /\ Kept
    BY <1>1 DEF Rooted
  <2>3. inv[i].phase = "rooting" /\ em[Main(i)].at = "idle" /\ ~Over
    BY <1>1, AtStep DEF Rooted
  <2> HIDE DEF y
  <2> QED  BY <2>1, <2>2, <2>3, KeptRests, MainMoves
<1>2. CASE Bound(i)
  <2>0. inv[i].phase = "binding" /\ em[Main(i)].at = "idle" /\ Kept
    BY <1>2, AtStep DEF Bound
  <2>1. CASE Terminate(i, "parked")
    BY <2>0, <2>1, Terminates DEF Ending
  <2>2. CASE ~Terminate(i, "parked")
    <3> DEFINE y == [inv[i] EXCEPT !.phase = "working", !.lane = IF Standing THEN "question" ELSE "work"]
    <3>1. y \in InvocationType /\ Carries(y, inv[i]) /\ y.phase = "working"
      BY <2>0, AtStep, InvocationIs DEF Carries
    <3>2. inv' = [inv EXCEPT ![i] = y] /\ UNCHANGED em /\ ~Over
      BY <1>2, <2>2 DEF Bound
    <3> HIDE DEF y
    <3> QED  BY <2>0, <3>1, <3>2, KeptRests, MainMoves
  <2> QED  BY <2>1, <2>2
<1>3. CASE Closed(i)
  <2> DEFINE y == [inv[i] EXCEPT !.phase = "ending", !.pending = FALSE]
  <2>1. y \in InvocationType /\ Carries(y, inv[i]) /\ y.phase = "ending"
    BY <1>3, AtStep, InvocationIs DEF Closed, Carries
  <2>2. inv' = [inv EXCEPT ![i] = y] /\ UNCHANGED em /\ Kept /\ inv[i].phase = "closing"
    BY <1>3 DEF Closed
  <2>3. em[Main(i)].at = "idle"
    BY <1>3, AtStep DEF Closed
  <2> HIDE DEF y
  <2> QED  BY <2>1, <2>2, <2>3, KeptRests, MainMoves
<1>4. CASE Decided(i)
  <2> DEFINE y == [inv[i] EXCEPT !.phase = "working", !.lane = "work", !.pending = FALSE]
  <2>1. y \in InvocationType /\ Carries(y, inv[i]) /\ y.phase = "working"
    BY <1>4, AtStep, InvocationIs DEF Decided, Carries
  <2>2. inv' = [inv EXCEPT ![i] = y] /\ UNCHANGED em /\ Kept /\ inv[i].phase = "deciding"
    BY <1>4 DEF Decided
  <2>3. em[Main(i)].at = "idle" /\ ~Over
    BY <1>4, AtStep DEF Decided
  <2> HIDE DEF y
  <2> QED  BY <2>1, <2>2, <2>3, KeptRests, MainMoves
<1>5. CASE Withdraw(i) /\ inv[i].lane = "work"
  <2> DEFINE y == [inv[i] EXCEPT !.phase = "working", !.pending = FALSE]
  <2>1. y \in InvocationType /\ Carries(y, inv[i]) /\ y.phase = "working"
    BY <1>5, AtStep, InvocationIs DEF Withdraw, Waiting, Carries
  <2>2. inv' = [inv EXCEPT ![i] = y] /\ UNCHANGED em /\ Kept /\ inv[i].phase = "awaiting"
    BY <1>5 DEF Withdraw, Waiting
  <2>3. em[Main(i)].at = "idle" /\ ~Over
    BY <1>5, AtStep DEF Withdraw, Waiting
  <2> HIDE DEF y
  <2> QED  BY <2>1, <2>2, <2>3, KeptRests, MainMoves
<1> QED  BY <1>1, <1>2, <1>3, <1>4, <1>5

\* Steps that record or publish something on the way.
LEMMA SpokenSteps ==
  ASSUME EngineAssumption, EngineInv, NEW i \in Invocation,
         Settled(i) \/ Report(i) \/ Ask(i) \/ Choose(i)
  PROVE  EngineInv'
<1> USE DEF Active, Holding, Early, Phase, Relies, Pursues
<1>1. CASE Settled(i)
  <2> DEFINE y == [inv[i] EXCEPT !.phase = "closing"]
  <2>0. inv[i].phase = "settling" /\ em[Main(i)].at = "idle" /\ Kept /\ inv[i] \in InvocationType
    BY <1>1, AtStep DEF Settled
  <2>1. y \in InvocationType /\ Carries(y, inv[i]) /\ y.phase = "closing" /\ y.word = inv[i].word
    BY <2>0, InvocationIs DEF Carries
  <2>2. inv' = [inv EXCEPT ![i] = y] /\ Emitting(Main(i), y.word) /\ Records(y, y.word)
    BY <1>1, <2>1 DEF Settled, Records
  <2>3. y.word \in Kind /\ y.word \in Account
    BY <2>1, <2>0, InvocationIs DEF Kind, Account
  <2>4. y.word = "completed" => ~Over
    BY <2>0, <2>1 DEF EngineInv, Stands, Owing
  <2> HIDE DEF y
  <2> QED  BY <2>0, <2>1, <2>2, <2>3, <2>4, KeptRests, MainMoves
<1>2. CASE Report(i)
  <2>0. inv[i].phase = "working" /\ em[Main(i)].at = "idle" /\ Kept /\ inv[i] \in InvocationType /\ ~Over
    BY <1>2, AtStep DEF Report, Working
  <2>1. Carries(inv[i], inv[i]) /\ inv' = [inv EXCEPT ![i] = inv[i]]
    BY <1>2, <2>0 DEF Carries, Report, EngineInv, Types, InvocationType
  <2>2. Emitting(Main(i), "status") /\ Records(inv[i], "status") /\ "status" \in Kind
    BY <1>2, <2>0 DEF Report, Records, Kind
  <2> QED  BY <2>0, <2>1, <2>2, KeptRests, MainMoves
<1>3. CASE Ask(i)
  <2> DEFINE y == [inv[i] EXCEPT !.phase = "awaiting", !.asked = @ + 1, !.pending = TRUE, !.box = <<>>]
  <2>0. inv[i].phase = "working" /\ em[Main(i)].at = "idle" /\ Kept /\ inv[i] \in InvocationType /\ ~Over
    BY <1>3, AtStep DEF Ask, Working
  <2>a. inv[i].asked + 1 \in 1..MaxAsked
    BY <1>3, <2>0, InvocationIs DEF Ask, EngineAssumption
  <2>b. inv[i].asked + 1 \in 0..MaxAsked /\ inv[i].asked + 1 # 0
    BY <2>a DEF EngineAssumption
  <2>1. y \in InvocationType /\ y.phase = "awaiting"
    BY <2>0, <2>b, InvocationIs DEF Box
  <2>c. Carries(y, inv[i])
    BY <2>0, <2>b, InvocationIs DEF Carries
  <2>2. inv' = [inv EXCEPT ![i] = y] /\ Emitting(Main(i), "question") /\ Records(y, "question") /\ "question" \in Kind
    BY <1>3, <2>1 DEF Ask, Records, Kind
  <2> HIDE DEF y
  <2> QED  BY <2>0, <2>1, <2>c, <2>2, KeptRests, MainMoves
<1>4. CASE Choose(i)
  <2>0. inv[i].phase = "awaiting" /\ em[Main(i)].at = "idle" /\ Kept /\ inv[i] \in InvocationType /\ ~Over
    BY <1>4, AtStep DEF Choose, Waiting
  <2>1. \/ inv' = [inv EXCEPT ![i].phase = "settling", ![i].word = "awaiting", ![i].box = <<>>]
           /\ Emitting(Main(i), "material")
        \/ \E p \in {"deciding", "declining"} :
             inv' = [inv EXCEPT ![i].phase = p, ![i].box = <<>>] /\ Emitting(Main(i), "answer")
    BY <1>4 DEF Choose
  <2>2. CASE /\ inv' = [inv EXCEPT ![i].phase = "settling", ![i].word = "awaiting", ![i].box = <<>>]
             /\ Emitting(Main(i), "material")
    <3> DEFINE y == [inv[i] EXCEPT !.phase = "settling", !.word = "awaiting", !.box = <<>>]
    <3>1. y \in InvocationType /\ Carries(y, inv[i]) /\ y.phase = "settling" /\ y.word = "awaiting"
      BY <2>0, InvocationIs DEF Carries, Box, Ending
    <3>2. inv' = [inv EXCEPT ![i] = y] /\ Records(y, "material") /\ "material" \in Kind
      BY <2>2, <3>1 DEF Records, Kind, Account
    <3> HIDE DEF y
    <3> QED  BY <2>0, <2>2, <3>1, <3>2, KeptRests, MainMoves
  <2>3. ASSUME NEW p \in {"deciding", "declining"},
               inv' = [inv EXCEPT ![i].phase = p, ![i].box = <<>>], Emitting(Main(i), "answer")
        PROVE  EngineInv'
    <3> DEFINE y == [inv[i] EXCEPT !.phase = p, !.box = <<>>]
    <3>1. y \in InvocationType /\ Carries(y, inv[i]) /\ y.phase = p
      BY <2>0, InvocationIs DEF Carries, Box
    <3>2. inv' = [inv EXCEPT ![i] = y] /\ Records(y, "answer") /\ "answer" \in Kind
      BY <2>3, <3>1 DEF Records, Kind
    <3> HIDE DEF y
    <3> QED  BY <2>0, <2>3, <3>1, <3>2, KeptRests, MainMoves
  <2> QED  BY <2>1, <2>2, <2>3
<1> QED  BY <1>1, <1>2, <1>3, <1>4

\* Steps that decide its ending.
LEMMA EndingSteps ==
  ASSUME EngineAssumption, EngineInv, NEW i \in Invocation,
         Fail(i) \/ Finish(i) \/ (Withdraw(i) /\ inv[i].lane = "question") \/ Declined(i)
  PROVE  EngineInv'
<1>1. /\ Kept /\ em[Main(i)].at = "idle" /\ ~Over
      /\ inv[i].phase \in Holding \ {"closing"}
  BY AtStep DEF Fail, Finish, Withdraw, Declined, Working, Waiting, Pursues, Holding, Active, Phase
<1>2. \E w \in Ending : Conclude(i, w) \/ (w # "completed" /\ Terminate(i, w))
  BY DEF Fail, Finish, Withdraw, Declined, Ending, TaskTerminal
<1> QED  BY <1>1, <1>2, Concludes, Terminates

----------------------------------------------------------------------------
(* What others do to an invocation, and the steps that leave it alone. *)

LEMMA StandsAlike ==
  ASSUME NEW i, NEW v, NEW y, NEW m, NEW r, Stands(i, v, m, r),
         y.phase = v.phase, y.home = v.home, y.failure = v.failure, y.ended = v.ended,
         y.asked = v.asked, y.pending = v.pending, y.word = v.word,
         y.box # <<>> => y.box[1].n = y.asked, y.expired => v.expired \/ v.phase # "fresh"
  PROVE  Stands(i, y, m, r)
BY DEF Stands, Admitted, Emits, Records, Owing, Accounts

LEMMA InvocationTouched ==
  ASSUME EngineAssumption, EngineInv, Rests, UNCHANGED em,
         NEW i \in Invocation, NEW y \in InvocationType, inv' = [inv EXCEPT ![i] = y],
         y.phase = inv[i].phase, y.home = inv[i].home, y.failure = inv[i].failure,
         y.ended = inv[i].ended, y.asked = inv[i].asked, y.pending = inv[i].pending,
         y.word = inv[i].word, y.box # <<>> => y.box[1].n = y.asked,
         y.expired => inv[i].expired \/ inv[i].phase # "fresh"
  PROVE  EngineInv'
<1>1. Stands(i, y, em[Main(i)], em[Role(i)])
  BY StandsAlike DEF EngineInv
<1>2. Main(i) \in Goroutine /\ Main(i)[1] = i /\ em' = [em EXCEPT ![Main(i)] = em[Main(i)]]
      /\ em[Main(i)] \in Emission
  BY Goroutines, NoEmission
<1>3. /\ i = Run \/ inv[i].phase # "fresh" \/ record # <<>> \/ y.phase = "fresh"
      /\ i = Run /\ (\/ y.phase \in {"fresh", "submitted", "leasing"}
                     \/ y.phase = "rooting" /\ em'[Main(Run)].at \in Before) => record = <<>>
  BY DEF EngineInv, First
<1> QED  BY <1>1, <1>2, <1>3, RunMoves

LEMMA OutsideSteps ==
  ASSUME EngineAssumption, EngineInv, NEW i \in Invocation, Stop(i) \/ Expire(i) \/ TimeOut(i)
  PROVE  EngineInv'
<1>1. inv[i] \in InvocationType /\ Admitted(i, inv[i])
  BY DEF EngineInv, Types, Stands
<1> DEFINE y == [inv[i] EXCEPT !.done = TRUE]
           z == [inv[i] EXCEPT !.done = TRUE, !.expired = TRUE]
<1>2. y \in InvocationType /\ z \in InvocationType
  <2>1. y \in InvocationType
    BY <1>1, InvocationIs
  <2>2. z \in InvocationType
    BY <1>1, InvocationIs
  <2> QED  BY <2>1, <2>2
<1>3. UNCHANGED em /\ \/ inv' = [inv EXCEPT ![i] = y]
                      \/ inv' = [inv EXCEPT ![i] = z] /\ inv[i].phase # "fresh"
  BY DEF Stop, Expire, TimeOut
<1>4. Rests
  <2>1. inv[i].home \in Engine \/ inv[i].phase = "fresh"
    BY <1>1, InvocationIs DEF Admitted
  <2>2. i \in stops => i = Run
    BY DEF EngineInv, Types
  <2>3. CASE Stop(i) \/ Expire(i)
    BY <2>3 DEF Stop, Expire, Kept, Rests, EngineInv, Types, Handed
  <2>4. CASE TimeOut(i)
    <3>1. inv[i].home \in Engine
      BY <1>1, <2>1, <2>4 DEF TimeOut, Admitted
    <3>2. /\ UNCHANGED <<admitted, gate, lease, record, published, hand>>
          /\ stops' = stops \ {i} /\ timedOut' = timedOut \cup {inv[i].home}
      BY <2>4 DEF TimeOut
    <3>3. stops \subseteq {Run} /\ timedOut \subseteq Engine /\ hand \in Handed
      BY DEF EngineInv, Types, Handed
    <3> QED  BY <3>1, <3>2, <3>3 DEF Rests
  <2> QED  BY <2>3, <2>4
<1>5. ASSUME NEW w \in {y, z}, w = y \/ inv[i].phase # "fresh"
      PROVE  /\ w.phase = inv[i].phase /\ w.home = inv[i].home /\ w.failure = inv[i].failure
             /\ w.ended = inv[i].ended /\ w.asked = inv[i].asked /\ w.pending = inv[i].pending
             /\ w.word = inv[i].word /\ (w.box # <<>> => w.box[1].n = w.asked)
             /\ (w.expired => inv[i].expired \/ inv[i].phase # "fresh")
  <2>1. CASE w = y
    BY <2>1, <1>1, InvocationIs DEF Admitted
  <2>2. CASE w = z
    BY <2>2, <1>1, <1>5, InvocationIs DEF Admitted
  <2> QED  BY <2>1, <2>2
<1> HIDE DEF y, z
<1> QED  BY <1>2, <1>3, <1>4, <1>5, InvocationTouched


\* Where the caller's stop function is cleared, a question looked up, and an
\* answer given to it.
LEMMA AnswerSteps ==
  ASSUME EngineAssumption, EngineInv,
         \/ \E i \in Invocation : ClearStop(i) \/ LookUp(i)
         \/ Answer
  PROVE  EngineInv'
<1>1. ASSUME NEW i \in Invocation, ClearStop(i) \/ LookUp(i) PROVE EngineInv'
  <2>1. inv[i] \in InvocationType /\ Admitted(i, inv[i])
    BY DEF EngineInv, Types, Stands
  <2>2. UNCHANGED em /\ inv' = [inv EXCEPT ![i] = inv[i]]
    BY <1>1 DEF ClearStop, LookUp, EngineInv, Types, InvocationType
  <2>3. stops \subseteq {Run} /\ timedOut \subseteq Engine /\ hand \in Handed
    BY DEF EngineInv, Types, Handed
  <2>4. Rests
    <3>1. CASE ClearStop(i)
      BY <3>1, <2>3 DEF ClearStop, Rests
    <3>2. CASE LookUp(i)
      <4>1. inv[i].asked \in 1..MaxAsked
        BY <3>2, <2>1, InvocationIs DEF LookUp, Admitted, EngineAssumption
      <4> QED  BY <3>2, <2>3, <4>1 DEF LookUp, Rests, Handed
    <3> QED  BY <1>1, <3>1, <3>2
  <2> QED  BY <2>1, <2>2, <2>4, InvocationTouched DEF Admitted
<1>2. ASSUME Answer PROVE EngineInv'
  <2> DEFINE q == hand[1]
  <2>1. q \in [of : Invocation, n : 1..MaxAsked] /\ <<>> \in Handed
    BY <1>2 DEF Answer, EngineInv, Types, Handed
  <2>2. Rests /\ UNCHANGED em
    BY <1>2, <2>1 DEF Answer, Rests, EngineInv, Types
  <2>3. inv[q.of] \in InvocationType /\ Admitted(q.of, inv[q.of])
    BY <2>1 DEF EngineInv, Types, Stands
  <2>4. CASE UNCHANGED inv
    <3>1. inv' = [inv EXCEPT ![q.of] = inv[q.of]]
      BY <2>4 DEF EngineInv, Types, InvocationType
    <3> HIDE DEF q
    <3> QED  BY <2>1, <2>2, <2>3, <3>1, InvocationTouched DEF Admitted
  <2>5. CASE /\ q.n = inv[q.of].asked
             /\ \E c \in Choice : inv' = [inv EXCEPT ![q.of].box = <<[choice |-> c, n |-> q.n]>>]
    <3>1. PICK c \in Choice : inv' = [inv EXCEPT ![q.of].box = <<[choice |-> c, n |-> q.n]>>]
      BY <2>5
    <3> DEFINE b == <<[choice |-> c, n |-> q.n]>>
               y == [inv[q.of] EXCEPT !.box = b]
    <3>2. b \in Box /\ b[1].n = q.n
      BY <2>1 DEF Box
    <3> HIDE DEF q, b
    <3>3. /\ y \in InvocationType /\ inv' = [inv EXCEPT ![q.of] = y]
          /\ y.box = b /\ y.phase = inv[q.of].phase /\ y.home = inv[q.of].home
          /\ y.failure = inv[q.of].failure /\ y.ended = inv[q.of].ended
          /\ y.asked = inv[q.of].asked /\ y.pending = inv[q.of].pending
          /\ y.word = inv[q.of].word /\ y.expired = inv[q.of].expired
      BY <2>3, <3>1, <3>2, InvocationIs DEF b
    <3> HIDE DEF y
    <3> QED  BY <2>1, <2>2, <2>5, <3>2, <3>3, InvocationTouched
  <2> QED  BY <1>2, <2>4, <2>5 DEF Answer
<1> QED  BY <1>1, <1>2

LEMMA ChatterStep ==
  ASSUME EngineAssumption, EngineInv, NEW i \in Invocation, Chatter(i)
  PROVE  EngineInv'
<1>1. /\ inv[i] \in InvocationType /\ Stands(i, inv[i], em[Main(i)], em[Role(i)])
      /\ UNCHANGED inv /\ inv' = [inv EXCEPT ![i] = inv[i]]
  BY DEF EngineInv, Types, Chatter, InvocationType
<1>2. /\ inv[i].phase \notin Early /\ em[Role(i)].at = "idle" /\ Kept
      /\ Emitting(Role(i), "status") /\ "status" \in Kind
  BY DEF Chatter, Early, Silent, Idle, Role, Kind
<1>3. Role(i) \in Goroutine /\ Role(i)[1] = i /\ Main(i) # Role(i) /\ Main(i) \in Goroutine
  BY Goroutines
<1>4. PICK z \in Emission : /\ em' = [em EXCEPT ![Role(i)] = z]
                            /\ z.at \in {"idle", "queued"}
                            /\ z.at = "queued" => z.kind = "status"
  BY <1>2, <1>3, Emitted
<1>5. em'[Role(i)] = z /\ em'[Main(i)] = em[Main(i)]
  BY <1>3, <1>4 DEF EngineInv, Types
<1>6. Stands(i, inv[i], em[Main(i)], z)
  <2>1. Emits(i, inv[i], em[Main(i)], z)
    BY <1>1, <1>2, <1>4 DEF Stands, Emits, Within
  <2> QED  BY <1>1, <2>1 DEF Stands
<1>7. /\ i = Run \/ inv[i].phase # "fresh" \/ record # <<>> \/ inv[i].phase = "fresh"
      /\ i = Run => inv[i].phase \notin {"fresh", "submitted", "leasing", "rooting"}
  BY <1>2 DEF Early
<1> QED  BY <1>1, <1>2, <1>3, <1>4, <1>5, <1>6, <1>7, KeptRests, RunMoves DEF Within

----------------------------------------------------------------------------
(* How an invocation begins and ends. *)

\* Before it has the lease, nothing of it is on its way.
LEMMA BeforeLease ==
  ASSUME EngineInv, NEW i \in Invocation,
         inv[i].phase \in {"fresh", "submitted", "leasing", "binding"}
  PROVE  em[Main(i)].at = "idle" /\ em[Role(i)].at = "idle"
<1>1. Stands(i, inv[i], em[Main(i)], em[Role(i)])
  BY DEF EngineInv
<1>2. \A k : ~Records(inv[i], k)
  BY DEF Records
<1>3. inv[i].phase \in Early
  BY DEF Early
<1> QED  BY <1>1, <1>2, <1>3 DEF Stands, Emits

LEMMA SubmitStep == ASSUME EngineAssumption, EngineInv, Submit PROVE EngineInv'
<1>1. PICK e \in Engine : inv' = [inv EXCEPT ![Run].phase = "submitted", ![Run].home = e]
  BY DEF Submit
<1> DEFINE y == [inv[Run] EXCEPT !.phase = "submitted", !.home = e]
<1>2. /\ Run \in Invocation /\ inv[Run].phase = "fresh" /\ inv[Run] \in InvocationType
      /\ Stands(Run, inv[Run], em[Main(Run)], em[Role(Run)])
  BY DEF EngineInv, Types, EngineAssumption, Submit
<1>3. em[Main(Run)].at = "idle" /\ em[Role(Run)].at = "idle" /\ record = <<>> /\ e # None
  BY <1>2, BeforeLease DEF EngineInv, First, EngineAssumption
<1>4. y \in InvocationType /\ inv' = [inv EXCEPT ![Run] = y] /\ y.phase = "submitted"
      /\ y.home = e /\ y.ended = inv[Run].ended /\ y.pending = inv[Run].pending
      /\ y.asked = inv[Run].asked /\ y.box = inv[Run].box /\ y.failure = inv[Run].failure
  BY <1>1, <1>2, InvocationIs DEF Phase
<1>5. Rests /\ UNCHANGED em
  BY DEF Submit, Rests, EngineInv, Types, Handed
<1>6. Main(Run) \in Goroutine /\ Main(Run)[1] = Run
      /\ em' = [em EXCEPT ![Main(Run)] = em[Main(Run)]] /\ em[Main(Run)] \in Emission
  BY <1>2, <1>5, Goroutines, NoEmission
<1> HIDE DEF y
<1>7. Stands(Run, y, em[Main(Run)], em[Role(Run)])
  BY <1>2, <1>3, <1>4 DEF Stands, Admitted, Emits, Owing, Accounts, Active, Holding, Phase, Within, Before
<1> QED  BY <1>2, <1>3, <1>4, <1>5, <1>6, <1>7, RunMoves

LEMMA RefuseStep ==
  ASSUME EngineAssumption, EngineInv, NEW i \in Invocation, Refuse(i)
  PROVE  EngineInv'
<1> DEFINE y == [Halted(i, "refused") EXCEPT !.phase = "ending"]
<1>1. /\ inv[i].phase \in {"leasing", "binding"} /\ inv[i] \in InvocationType
      /\ Stands(i, inv[i], em[Main(i)], em[Role(i)])
  BY DEF Refuse, EngineInv, Types
<1>2. em[Main(i)].at = "idle" /\ em[Role(i)].at = "idle"
  BY <1>1, BeforeLease
<1>3. y \in InvocationType /\ inv' = [inv EXCEPT ![i] = y] /\ y.phase = "ending"
      /\ y.home = inv[i].home /\ y.ended = inv[i].ended /\ y.pending = inv[i].pending
      /\ y.asked = inv[i].asked /\ y.box = inv[i].box /\ y.failure # "no"
  BY <1>1, InvocationIs DEF Phase, Refuse, Halted
<1>4. Rests /\ UNCHANGED em
  BY KeptRests DEF Refuse
<1>5. Main(i) \in Goroutine /\ Main(i)[1] = i
      /\ em' = [em EXCEPT ![Main(i)] = em[Main(i)]] /\ em[Main(i)] \in Emission
  BY <1>4, Goroutines, NoEmission
<1> HIDE DEF y
<1>6. Stands(i, y, em[Main(i)], em[Role(i)])
  BY <1>1, <1>2, <1>3 DEF Stands, Admitted, Emits, Owing, Accounts, Active, Holding, Phase, Within, Before, Early
<1> QED  BY <1>1, <1>3, <1>4, <1>5, <1>6, RunMoves

Apart == UNCHANGED <<em, gate, lease, record, published, stops, timedOut, hand>>

\* i becomes the one admitted in the engine e, where no other is.
LEMMA AdmitStep ==
  ASSUME EngineAssumption, EngineInv, NEW i \in Invocation, NEW e \in Engine, NEW y \in InvocationType,
         inv' = [inv EXCEPT ![i] = y], admitted' = [admitted EXCEPT ![e] = i],
         Apart,
         inv[i].phase \in {"fresh", "submitted"}, inv[i].home \in {e, None},
         y.phase = "leasing", y.home = e, y.failure = inv[i].failure, y.ended = inv[i].ended,
         y.asked = inv[i].asked, y.pending = inv[i].pending, y.box = inv[i].box,
         \A j \in Invocation \ {i} : inv[j].phase \in Active => inv[j].home # e,
         i = Run \/ record # <<>>
  PROVE  EngineInv'
<1>u. UNCHANGED em /\ UNCHANGED gate /\ UNCHANGED lease /\ UNCHANGED record /\ UNCHANGED published
      /\ UNCHANGED stops /\ UNCHANGED timedOut /\ UNCHANGED hand
  BY DEF Apart
<1>0. Stands(i, inv[i], em[Main(i)], em[Role(i)])
  BY DEF EngineInv
<1>1. em[Main(i)].at = "idle" /\ em[Role(i)].at = "idle"
  BY BeforeLease
<1>2. /\ inv'[i] = y /\ \A j \in Invocation \ {i} : inv'[j] = inv[j]
      /\ admitted'[e] = i /\ \A d \in Engine \ {e} : admitted'[d] = admitted[d]
      /\ admitted' \in [Engine -> Invocation \cup {None}]
  BY DEF EngineInv, Types
<1>3. Main(i) \in Goroutine /\ Main(i)[1] = i
      /\ em' = [em EXCEPT ![Main(i)] = em[Main(i)]] /\ em[Main(i)] \in Emission
  BY <1>u, Goroutines, NoEmission
<1>4. Gated'
  <2>1. \A g \in Goroutine : g[1] = i => em[g].at \notin Within
    BY <1>1, Goroutines DEF Within
  <2>2. \A g \in Goroutine : g[1] # i => inv'[g[1]].home = inv[g[1]].home
    BY <1>2, Goroutines
  <2> QED  BY <1>u, <2>1, <2>2 DEF EngineInv, Gated
<1>5. ASSUME NEW j \in Invocation PROVE Stands(j, inv[j], em[Main(j)], em[Role(j)])'
  <2>1. CASE j = i
    <3>1. Admitted(i, y)'
      BY <1>u, <1>0, <1>2 DEF Stands, Admitted, Active, Holding, Phase, EngineAssumption
    <3>2. Emits(i, y, em[Main(i)], em[Role(i)])'
      <4>1. em'[Main(i)].at = "idle" /\ em'[Role(i)].at = "idle"
        BY <1>u, <1>1
      <4> QED  BY <4>1 DEF Emits, Within
    <3>3. (Owing(y, em[Main(i)]) => ~Over)' /\ Accounts(i, y, em[Main(i)])'
      BY <1>u, <1>0, <1>1 DEF Stands, Owing, Accounts, Over, Endings, Before
    <3> QED  BY <2>1, <1>2, <3>1, <3>2, <3>3 DEF Stands
  <2>2. CASE j # i
    <3>1. Stands(j, inv[j], em[Main(j)], em[Role(j)]) /\ inv[j] \in InvocationType
      BY DEF EngineInv, Types
    <3>2. inv[j].phase \in Active => admitted'[inv[j].home] = j
      <4>1. inv[j].phase \in Active => inv[j].home \in Engine \ {e}
        BY <2>2, <3>1, InvocationIs DEF Stands, Admitted, Active
      <4> QED  BY <4>1, <1>2, <3>1 DEF Stands, Admitted
    <3>3. Admitted(j, inv[j])'
      BY <1>u, <2>2, <1>2, <3>1, <3>2 DEF Stands, Admitted
    <3> QED  BY <1>u, <2>2, <1>2, <3>1, <3>3 DEF Stands, Emits, Owing, Accounts, Over, Endings
  <2> QED  BY <2>1, <2>2
<1>6. /\ stops' \subseteq {Run} /\ timedOut' \subseteq Engine /\ hand' \in Handed
      /\ lease' \in Invocation \cup {None}
      /\ i = Run => record = <<>>
  BY <1>u DEF EngineInv, Types, First, Handed
<1>7. First'
  <2>1. CASE i = Run
    BY <1>u, <2>1, <1>2, <1>6 DEF EngineInv, First
  <2>2. CASE i # Run
    <3>1. inv'[Run] = inv[Run] /\ record' # <<>>
      BY <1>u, <2>2, <1>2 DEF EngineAssumption
    <3> QED  BY <1>u, <2>2, <3>1 DEF EngineInv, First
  <2> QED  BY <2>1, <2>2
<1>8. Standings'
  BY <1>5 DEF Standings
<1>9. /\ UNCHANGED <<record, published>> /\ stops' \subseteq {Run} /\ timedOut' \subseteq Engine
      /\ hand' \in Handed /\ lease' \in Invocation \cup {None}
      /\ admitted' \in [Engine -> Invocation \cup {None}]
  BY <1>u, <1>2, <1>6
<1> QED  BY <1>3, <1>4, <1>7, <1>8, <1>9, Moves

LEMMA OpenStep == ASSUME EngineAssumption, EngineInv, Open PROVE EngineInv'
<1> DEFINE y == [inv[Run] EXCEPT !.phase = "leasing"]
           e == inv[Run].home
<1>1. Run \in Invocation /\ inv[Run] \in InvocationType /\ inv[Run].phase = "submitted"
  BY DEF EngineInv, Types, EngineAssumption, Open
<1>2. e \in Engine
  BY <1>1, InvocationIs DEF EngineInv, Stands, Admitted
<1>3. y \in InvocationType /\ inv' = [inv EXCEPT ![Run] = y] /\ y.phase = "leasing" /\ y.home = e
      /\ y.failure = inv[Run].failure /\ y.ended = inv[Run].ended /\ y.asked = inv[Run].asked
      /\ y.pending = inv[Run].pending /\ y.box = inv[Run].box
  BY <1>1, InvocationIs DEF Phase, Open
<1>4. \A j \in Invocation \ {Run} : inv[j].phase = "fresh"
  BY <1>1 DEF EngineInv, First
<1>5. admitted' = [admitted EXCEPT ![e] = Run]
      /\ Apart
  BY DEF Open, Apart
<1> HIDE DEF y, e
<1> QED  BY <1>1, <1>2, <1>3, <1>4, <1>5, AdmitStep DEF Active, e

LEMMA ResumeStep ==
  ASSUME EngineAssumption, EngineInv, NEW i \in Invocation, Resume(i)
  PROVE  EngineInv'
<1>1. /\ i # Run /\ inv[i].phase = "fresh" /\ record # <<>> /\ inv[i] \in InvocationType
      /\ Stands(i, inv[i], em[Main(i)], em[Role(i)])
      /\ Apart
  BY DEF EngineInv, Types, Resume, Apart
<1>2. em[Main(i)].at = "idle" /\ em[Role(i)].at = "idle" /\ inv[i].home = None
  BY <1>1, BeforeLease DEF Stands, Admitted
<1>3. PICK e \in Engine :
        \/ /\ UNCHANGED admitted
           /\ inv' = [inv EXCEPT ![i] = [Fresh EXCEPT !.phase = "returned", !.home = e,
                                                      !.failure = "refused", !.ended = TRUE]]
        \/ /\ ~Live(e)
           /\ inv' = [inv EXCEPT ![i].phase = "leasing", ![i].home = e]
           /\ admitted' = [admitted EXCEPT ![e] = i]
  BY DEF Resume
<1>4. ASSUME UNCHANGED admitted,
             inv' = [inv EXCEPT ![i] = [Fresh EXCEPT !.phase = "returned", !.home = e,
                                                     !.failure = "refused", !.ended = TRUE]]
      PROVE  EngineInv'
  <2> DEFINE y == [Fresh EXCEPT !.phase = "returned", !.home = e, !.failure = "refused", !.ended = TRUE]
  <2>0. Fresh \in InvocationType /\ Fresh.box = <<>> /\ ~Fresh.pending
    BY InvocationIs DEF Fresh, Phase, Ending, TaskTerminal, Box, EngineAssumption
  <2>1. y \in InvocationType /\ y.phase = "returned" /\ y.home = e /\ y.failure = "refused" /\ y.ended
        /\ y.box = <<>> /\ ~y.pending /\ e # None
    BY <2>0, InvocationIs DEF Phase, EngineAssumption
  <2>2. Main(i) \in Goroutine /\ Main(i)[1] = i /\ UNCHANGED em
        /\ em' = [em EXCEPT ![Main(i)] = em[Main(i)]] /\ em[Main(i)] \in Emission
    BY <1>1, Goroutines, NoEmission DEF Apart
  <2>3. Rests
    BY <1>1, <1>4 DEF Apart, Rests, EngineInv, Types, Handed
  <2>4. inv' = [inv EXCEPT ![i] = y]
    BY <1>4
  <2> HIDE DEF y
  <2>5. Stands(i, y, em[Main(i)], em[Role(i)])
    BY <1>1, <1>2, <2>1 DEF Stands, Admitted, Emits, Owing, Accounts, Active, Holding, Phase, Within, Before
  <2> QED  BY <1>1, <2>1, <2>2, <2>3, <2>4, <2>5, RunMoves
<1>5. ASSUME ~Live(e), inv' = [inv EXCEPT ![i].phase = "leasing", ![i].home = e],
             admitted' = [admitted EXCEPT ![e] = i]
      PROVE  EngineInv'
  <2> DEFINE y == [inv[i] EXCEPT !.phase = "leasing", !.home = e]
  <2>1. y \in InvocationType /\ inv' = [inv EXCEPT ![i] = y] /\ y.phase = "leasing" /\ y.home = e
        /\ y.failure = inv[i].failure /\ y.ended = inv[i].ended /\ y.asked = inv[i].asked
        /\ y.pending = inv[i].pending /\ y.box = inv[i].box
    BY <1>1, <1>5, InvocationIs DEF Phase
  <2>2. \A j \in Invocation \ {i} : inv[j].phase \in Active => inv[j].home # e
    BY <1>5 DEF EngineInv, Stands, Admitted, Live, Active, EngineAssumption
  <2> HIDE DEF y
  <2> QED  BY <1>1, <1>2, <1>5, <2>1, <2>2, AdmitStep
<1> QED  BY <1>3, <1>4, <1>5

LEMMA GateStays ==
  ASSUME EngineInv, UNCHANGED gate,
         \A j \in Invocation : inv'[j].home = inv[j].home,
         \A g \in Goroutine : em'[g].at \in Within <=> em[g].at \in Within
  PROVE  Gated'
BY Goroutines DEF EngineInv, Gated

\* The lease is taken or released by i, and no other has it.
LEMMA LeaseStep ==
  ASSUME EngineAssumption, EngineInv, NEW i \in Invocation, NEW y \in InvocationType,
         inv' = [inv EXCEPT ![i] = y], y.home = inv[i].home, y.failure = inv[i].failure,
         NEW z \in Emission, em' = [em EXCEPT ![Main(i)] = z],
         z = em[Main(i)] \/ (em[Main(i)].at = "idle" /\ z.at \notin Within),
         UNCHANGED admitted, UNCHANGED gate, UNCHANGED record, UNCHANGED published,
         UNCHANGED stops, UNCHANGED timedOut, UNCHANGED hand,
         lease' \in Invocation \cup {None}, lease' = lease \/ lease \in {i, None},
         Stands(i, y, z, em[Role(i)])', inv[i].phase # "fresh",
         i = Run /\ (y.phase \in {"fresh", "submitted", "leasing"} \/ y.phase = "rooting") => record = <<>>
  PROVE  EngineInv'
<1>0. /\ Main(i) \in Goroutine /\ Role(i) \in Goroutine /\ Main(i)[1] = i /\ Main(i) # Role(i)
      /\ em'[Main(i)] = z /\ em'[Role(i)] = em[Role(i)]
      /\ \A g \in Goroutine \ {Main(i)} : em'[g] = em[g]
  BY Goroutines DEF EngineInv, Types
<1>1. inv'[i] = y /\ \A j \in Invocation \ {i} : inv'[j] = inv[j]
  BY DEF EngineInv, Types
<1>2. Gated'
  <2>1. \A j \in Invocation : inv'[j].home = inv[j].home
    BY <1>1
  <2>2. \A g \in Goroutine : em'[g].at \in Within <=> em[g].at \in Within
    BY <1>0 DEF Within
  <2> QED  BY <2>1, <2>2, GateStays
<1>3. ASSUME NEW j \in Invocation PROVE Stands(j, inv[j], em[Main(j)], em[Role(j)])'
  <2>1. CASE j = i
    BY <2>1, <1>0, <1>1
  <2>2. CASE j # i
    <3>1. inv'[j] = inv[j] /\ em'[Main(j)] = em[Main(j)] /\ em'[Role(j)] = em[Role(j)]
      BY <2>2, <1>0, <1>1, Goroutines
    <3>2. Stands(j, inv[j], em[Main(j)], em[Role(j)])
      BY DEF EngineInv
    <3>3. (inv[j].phase \in Holding \/ em[Main(j)].at = "appended" \/ em[Role(j)].at = "appended"
             => lease = j) /\ (lease = j => lease' = j)
      BY <2>2, <3>2 DEF Stands, Admitted, Emits, EngineAssumption
    <3>4. Admitted(j, inv[j])'
      BY <3>1, <3>2, <3>3 DEF Stands, Admitted
    <3>5. Emits(j, inv[j], em[Main(j)], em[Role(j)])'
      BY <3>1, <3>2, <3>3 DEF Stands, Emits
    <3> QED  BY <3>1, <3>2, <3>4, <3>5 DEF Stands, Owing, Accounts, Over, Endings
  <2> QED  BY <2>1, <2>2
<1>4. First'
  <2>1. CASE i = Run
    BY <2>1, <1>1, <1>0 DEF EngineInv, First
  <2>2. CASE i # Run
    <3>1. inv'[Run] = inv[Run] /\ em'[Main(Run)] = em[Main(Run)] /\ record # <<>>
      BY <2>2, <1>0, <1>1, Goroutines DEF EngineAssumption, EngineInv, First
    <3> QED  BY <2>2, <3>1 DEF EngineInv, First
  <2> QED  BY <2>1, <2>2
<1>5. Standings'
  BY <1>3 DEF Standings
<1>6. /\ UNCHANGED <<record, published>> /\ stops' \subseteq {Run} /\ timedOut' \subseteq Engine
      /\ hand' \in Handed /\ admitted' \in [Engine -> Invocation \cup {None}]
      /\ (em[Main(i)].at = "appended" \/ z.at = "appended" => z = em[Main(i)])
  BY DEF EngineInv, Types, Handed, Within
<1> QED  BY <1>0, <1>2, <1>4, <1>5, <1>6, Moves

LEMMA TakeLeaseStep ==
  ASSUME EngineAssumption, EngineInv, NEW i \in Invocation, TakeLease(i)
  PROVE  EngineInv'
<1>1. /\ inv[i] \in InvocationType /\ inv[i].phase = "leasing" /\ lease = None /\ lease' = i
      /\ Stands(i, inv[i], em[Main(i)], em[Role(i)])
  BY DEF EngineInv, Types, TakeLease
<1>2. em[Main(i)].at = "idle" /\ em[Role(i)].at = "idle"
  BY <1>1, BeforeLease
<1>3. PICK y \in InvocationType :
        /\ inv' = [inv EXCEPT ![i] = y]
        /\ y.phase = IF i = Run THEN "rooting" ELSE "binding"
        /\ y.home = inv[i].home /\ y.failure = inv[i].failure /\ y.ended = inv[i].ended
        /\ y.asked = inv[i].asked /\ y.pending = inv[i].pending /\ y.box = inv[i].box
  <2> DEFINE w == [inv[i] EXCEPT !.phase = IF i = Run THEN "rooting" ELSE "binding"]
  <2>1. /\ w \in InvocationType /\ inv' = [inv EXCEPT ![i] = w]
        /\ w.phase = IF i = Run THEN "rooting" ELSE "binding"
        /\ w.home = inv[i].home /\ w.failure = inv[i].failure /\ w.ended = inv[i].ended
        /\ w.asked = inv[i].asked /\ w.pending = inv[i].pending /\ w.box = inv[i].box
    BY <1>1, InvocationIs DEF TakeLease, Phase
  <2> HIDE DEF w
  <2> QED  BY <2>1
<1>4. Main(i) \in Goroutine /\ Role(i) \in Goroutine /\ Main(i)[1] = i /\ Main(i) # Role(i)
  BY Goroutines
<1>5. PICK z \in Emission :
        /\ em' = [em EXCEPT ![Main(i)] = z]
        /\ z.at \in {"idle", "queued"} /\ (z.at = "queued" => z.kind = "root" /\ i = Run)
  <2>1. CASE i = Run
    BY <2>1, <1>4, Emitted DEF TakeLease, Kind, Account
  <2>2. CASE i # Run
    BY <2>2, <1>2, <1>4, NoEmission DEF TakeLease
  <2> QED  BY <2>1, <2>2
<1>6. UNCHANGED admitted /\ UNCHANGED gate /\ UNCHANGED record /\ UNCHANGED published
      /\ UNCHANGED stops /\ UNCHANGED timedOut /\ UNCHANGED hand
  BY DEF TakeLease
<1>7. i = Run => record = <<>>
  BY <1>1 DEF EngineInv, First
<1>8. Stands(i, y, z, em[Role(i)])'
  <2>0. em'[Role(i)] = em[Role(i)] /\ Endings(i)' = Endings(i)
    BY <1>4, <1>5, <1>6 DEF EngineInv, Types, Endings
  <2>1. Admitted(i, y)'
    BY <1>1, <1>3, <1>6 DEF Stands, Admitted, Active, Holding, Phase
  <2>2. Emits(i, y, z, em[Role(i)])'
    <3>1. em'[Role(i)].at = "idle" /\ z.at \notin Within /\ z.at # "appended"
      BY <2>0, <1>2, <1>5 DEF Within
    <3>2. z.at # "idle" => Records(y, z.kind)
      BY <1>3, <1>5 DEF Records
    <3> QED  BY <3>1, <3>2 DEF Emits, Within
  <2>3. (Owing(y, z) => ~Over)'
    <3>1. i = Run => ~Over'
      BY <1>6, <1>7 DEF Over
    <3>2. i # Run => ~Owing(y, z)
      BY <1>3, <1>5 DEF Owing, Before
    <3> QED  BY <3>1, <3>2 DEF Owing
  <2>4. Accounts(i, y, z)'
    BY <2>0, <1>1, <1>3 DEF Stands, Accounts
  <2> QED  BY <2>1, <2>2, <2>3, <2>4 DEF Stands
<1> QED  BY <1>1, <1>2, <1>3, <1>5, <1>6, <1>7, <1>8, LeaseStep DEF Within

LEMMA EndStep ==
  ASSUME EngineAssumption, EngineInv, NEW i \in Invocation, End(i)
  PROVE  EngineInv'
<1>1. /\ inv[i] \in InvocationType /\ inv[i].phase = "ending" /\ inv[i].home \in Engine
      /\ gate[inv[i].home] = None
      /\ Stands(i, inv[i], em[Main(i)], em[Role(i)])
  BY InvocationIs DEF EngineInv, Types, End, Stands, Admitted
<1>2. Main(i) \in Goroutine /\ Role(i) \in Goroutine /\ Main(i)[1] = i /\ Role(i)[1] = i
  BY Goroutines
<1>3. em[Main(i)].at = "idle" /\ em[Role(i)].at \notin Within
  <2>1. \A k : ~Records(inv[i], k)
    BY <1>1 DEF Records
  <2>2. None \notin Goroutine
    BY DEF EngineAssumption, Goroutine
  <2> QED  BY <1>1, <1>2, <2>1, <2>2 DEF Stands, Emits, EngineInv, Gated
<1>4. PICK y \in InvocationType :
        /\ inv' = [inv EXCEPT ![i] = y] /\ y.phase = "returned" /\ y.home = inv[i].home
        /\ y.failure = inv[i].failure /\ y.ended /\ ~y.pending /\ y.box = <<>>
  <2> DEFINE w == Returned(i)
  <2>1. Fresh \in InvocationType /\ ~Fresh.pending /\ Fresh.box = <<>>
    BY InvocationIs DEF Fresh, Phase, Ending, TaskTerminal, Box, EngineAssumption
  <2>2. /\ w \in InvocationType /\ w.phase = "returned" /\ w.home = inv[i].home
        /\ w.failure = inv[i].failure /\ w.ended /\ ~w.pending /\ w.box = <<>>
    BY <1>1, <2>1, InvocationIs DEF Returned, Phase
  <2>3. inv' = [inv EXCEPT ![i] = w]
    BY DEF End
  <2> HIDE DEF w
  <2> QED  BY <2>2, <2>3
<1>5. /\ UNCHANGED em /\ UNCHANGED admitted /\ UNCHANGED gate /\ UNCHANGED record
      /\ UNCHANGED published /\ UNCHANGED stops /\ UNCHANGED timedOut /\ UNCHANGED hand
      /\ lease' = IF lease = i THEN None ELSE lease
  BY DEF End
<1>6. em' = [em EXCEPT ![Main(i)] = em[Main(i)]] /\ em[Main(i)] \in Emission
  BY <1>2, <1>5, NoEmission
<1>7. Stands(i, y, em[Main(i)], em[Role(i)])'
  <2>1. Admitted(i, y)'
    BY <1>1, <1>4 DEF Admitted, Stands, Active, Holding, Phase
  <2>2. Emits(i, y, em[Main(i)], em[Role(i)])'
    BY <1>1, <1>3, <1>4, <1>5 DEF Stands, Emits, Early, Within
  <2>3. (Owing(y, em[Main(i)]) => ~Over)'
    BY <1>3, <1>4, <1>5 DEF Owing, Before
  <2>4. Accounts(i, y, em[Main(i)])'
    BY <1>1, <1>3, <1>4, <1>5 DEF Stands, Accounts, Before, Endings
  <2> QED  BY <2>1, <2>2, <2>3, <2>4 DEF Stands
<1>8. lease' \in Invocation \cup {None} /\ (lease' = lease \/ lease \in {i, None})
  BY <1>5 DEF EngineInv, Types
<1> QED  BY <1>1, <1>4, <1>5, <1>6, <1>7, <1>8, LeaseStep

----------------------------------------------------------------------------
(* The emission path. *)

\* Whoever is on it.
LEMMA Sender ==
  ASSUME EngineInv, NEW x \in Goroutine, em[x].at # "idle"
  PROVE  /\ x[1] \in Invocation /\ inv[x[1]] \in InvocationType /\ em[x] \in Emission
         /\ Stands(x[1], inv[x[1]], em[Main(x[1])], em[Role(x[1])])
         /\ inv[x[1]].home \in Engine
         /\ inv[x[1]].phase \notin {"fresh", "submitted", "leasing", "binding"}
         /\ x = Main(x[1]) => Records(inv[x[1]], em[x].kind)
         /\ x = Role(x[1]) => em[x].kind = "status" /\ inv[x[1]].phase \notin Early
         /\ em[x].at \in Within => inv[x[1]].phase \in Active /\ inv[x[1]].failure # "append"
         /\ em[x].at = "appended" => /\ lease = x[1] /\ record # <<>> /\ em[x].pos = Len(record)
                                     /\ record[Len(record)] = [by |-> x[1], kind |-> em[x].kind]
<1>1. x[1] \in Invocation /\ (x = Main(x[1]) \/ x = Role(x[1]))
  BY Goroutines
<1>2. inv[x[1]] \in InvocationType /\ em[x] \in Emission
      /\ Stands(x[1], inv[x[1]], em[Main(x[1])], em[Role(x[1])])
  BY <1>1 DEF EngineInv, Types
<1>3. inv[x[1]].phase \notin {"fresh", "submitted", "leasing", "binding"}
  BY <1>1, BeforeLease
<1>4. inv[x[1]].home \in Engine
  BY <1>2, <1>3, InvocationIs DEF Stands, Admitted
<1>5. Emits(x[1], inv[x[1]], em[Main(x[1])], em[Role(x[1])])
  BY <1>2 DEF Stands
<1> QED  BY <1>1, <1>2, <1>3, <1>4, <1>5 DEF Emits

\* One goroutine of an engine at most is past its gate.
LEMMA OneWithin ==
  ASSUME EngineInv, NEW x \in Goroutine, NEW g \in Goroutine,
         em[x].at \in Within, em[g].at \in Within, inv[x[1]].home = inv[g[1]].home
  PROVE  x = g
<1>1. inv[x[1]].home \in Engine
  BY Sender DEF Within
<1> QED  BY <1>1 DEF EngineInv, Gated

\* One at most, of all, has recorded what it has not published; and no other
\* of its invocation is then past the gate.
LEMMA OneAppended ==
  ASSUME EngineInv, NEW x \in Goroutine, NEW g \in Goroutine, em[x].at \in Within,
         lease = x[1], em[g].at = "appended"
  PROVE  x = g
<1>1. g[1] = x[1]
  BY Sender
<1> QED  BY <1>1, OneWithin DEF Within

LEMMA LeavesGate ==
  ASSUME EngineAssumption, EngineInv, NEW x \in Goroutine, em[x].at \in Within, Leave(x),
         \A j \in Invocation : inv'[j].home = inv[j].home
  PROVE  Gated' /\ Idle \in Emission
<1>1. inv[x[1]].home \in Engine
  BY Sender DEF Within
<1>2. em'[x] = Idle /\ \A g \in Goroutine \ {x} : em'[g] = em[g]
  BY DEF EngineInv, Types, Leave
<1>3. None \notin Goroutine
  BY DEF EngineAssumption, Goroutine
<1>4. ASSUME NEW g \in Goroutine, NEW e \in Engine
      PROVE  gate'[e] = g <=> inv'[g[1]].home = e /\ em'[g].at \in Within
  <2>1. gate[e] = g <=> inv[g[1]].home = e /\ em[g].at \in Within
    BY DEF EngineInv, Gated
  <2>2. inv'[g[1]].home = inv[g[1]].home
    BY Goroutines
  <2>3. CASE e = inv[x[1]].home
    <3>1. gate'[e] = None /\ gate[e] = x
      BY <1>1, <2>3 DEF EngineInv, Gated, Leave
    <3>2. g # x => ~(inv[g[1]].home = e /\ em[g].at \in Within)
      BY <3>1, <2>1
    <3> QED  BY <1>2, <1>3, <2>2, <3>1, <3>2 DEF Idle, Within
  <2>4. CASE e # inv[x[1]].home
    <3>1. gate'[e] = gate[e]
      BY <2>4 DEF EngineInv, Gated, Leave
    <3>2. g = x => inv'[g[1]].home # e
      BY <2>2, <2>4
    <3> QED  BY <1>2, <2>1, <2>2, <2>4, <3>1, <3>2
  <2> QED  BY <2>3, <2>4
<1>5. gate' \in [Engine -> Goroutine \cup {None}]
  BY <1>1 DEF EngineInv, Gated, Leave
<1>6. Idle \in Emission
  BY DEF Idle, Emission, Kind
<1> QED  BY <1>4, <1>5, <1>6 DEF Gated

\* A step along it that records and publishes nothing.
LEMMA PathStep ==
  ASSUME EngineAssumption, EngineInv,
         UNCHANGED admitted, UNCHANGED lease, UNCHANGED record, UNCHANGED published,
         UNCHANGED stops, UNCHANGED timedOut, UNCHANGED hand, Gated',
         NEW x \in Goroutine, NEW i \in Invocation, i = x[1],
         NEW y \in InvocationType, inv' = [inv EXCEPT ![i] = y], y.phase = inv[i].phase,
         inv[i].failure # "no" => y.failure # "no",
         NEW z \in Emission, em' = [em EXCEPT ![x] = z],
         em[x].at # "appended", z.at # "appended", em[x].at \in Before,
         Stands(i, y, em'[Main(i)], em'[Role(i)])
  PROVE  EngineInv'
<1>1. inv'[i] = y /\ \A j \in Invocation \ {i} : inv'[j] = inv[j]
  BY DEF EngineInv, Types
<1>2. em'[x] = z /\ \A g \in Goroutine \ {x} : em'[g] = em[g]
  BY DEF EngineInv, Types
<1>3. ASSUME NEW j \in Invocation PROVE Stands(j, inv[j], em[Main(j)], em[Role(j)])'
  <2>1. CASE j = i
    BY <2>1, <1>1 DEF Stands, Admitted, Emits, Owing, Accounts, Over, Endings
  <2>2. CASE j # i
    <3>1. inv'[j] = inv[j] /\ em'[Main(j)] = em[Main(j)] /\ em'[Role(j)] = em[Role(j)]
      BY <2>2, <1>1, <1>2, Goroutines
    <3> QED  BY <3>1 DEF EngineInv, Stands, Admitted, Emits, Owing, Accounts, Over, Endings
  <2> QED  BY <2>1, <2>2
<1>4. First'
  <2>1. Main(Run) \in Goroutine
    BY Goroutines DEF EngineAssumption
  <2>2. em'[Main(Run)].at \in Before => em[Main(Run)].at \in Before
    BY <1>2, <2>1
  <2>3. \A j \in Invocation : inv'[j].phase = inv[j].phase
    BY <1>1
  <2> QED  BY <2>2, <2>3 DEF EngineInv, First, EngineAssumption
<1>5. Standings'
  BY <1>3 DEF Standings
<1>6. /\ UNCHANGED <<record, published>> /\ stops' \subseteq {Run} /\ timedOut' \subseteq Engine
      /\ hand' \in Handed /\ admitted' \in [Engine -> Invocation \cup {None}]
      /\ lease' \in Invocation \cup {None}
  BY DEF EngineInv, Types, Handed
<1>7. (em[x].at = "appended" \/ z.at = "appended" => z = em[x]) /\ x[1] = i
  OBVIOUS
<1> QED  BY <1>4, <1>5, <1>6, <1>7, Moves

\* The emission is over, or refused: of the run, where its ending is not in it
\* or it is halted; or of its provider.
LEMMA SilentStands ==
  ASSUME EngineAssumption, EngineInv, NEW x \in Goroutine, em[x].at # "idle",
         NEW i \in Invocation, i = x[1],
         NEW y, y.phase = inv[i].phase, y.home = inv[i].home, y.ended = inv[i].ended,
         y.asked = inv[i].asked, y.pending = inv[i].pending, y.box = inv[i].box,
         y.expired = inv[i].expired,
         y.failure = "no" => inv[i].failure = "no" /\ (x = Main(i) => inv[i].phase # "closing"),
         y.failure = "append" => \/ inv[i].failure = "append"
                                 \/ \A g \in Goroutine \ {x} : g[1] = i => em[g].at \notin Within,
         y.word = inv[i].word \/ (y.word = "failed" /\ inv[i].phase = "settling"),
         em' = [em EXCEPT ![x] = Idle]
  PROVE  Stands(i, y, em'[Main(i)], em'[Role(i)])
<1>1. Stands(i, inv[i], em[Main(i)], em[Role(i)])
  BY DEF EngineInv
<1>2. /\ Main(i) \in Goroutine /\ Role(i) \in Goroutine /\ Main(i) # Role(i)
      /\ Main(i)[1] = i /\ Role(i)[1] = i /\ (x = Main(i) \/ x = Role(i))
  BY Goroutines
<1>3. em'[x] = Idle /\ Idle.at = "idle" /\ \A g \in Goroutine \ {x} : em'[g] = em[g]
  BY DEF EngineInv, Types, Idle
<1>4. em'[Main(i)].at = "idle" \/ em'[Main(i)] = em[Main(i)]
  BY <1>2, <1>3
<1>5. em'[Role(i)].at = "idle" \/ em'[Role(i)] = em[Role(i)]
  BY <1>2, <1>3
<1>6. inv[i].phase \notin {"ending", "returned"} \/ x = Role(i)
  <2>1. x = Main(i) => Records(inv[i], em[x].kind)
    BY Sender
  <2> QED  BY <1>2, <2>1 DEF Records
<1>7. Admitted(i, y)
  BY <1>1 DEF Stands, Admitted
<1>8. Emits(i, y, em'[Main(i)], em'[Role(i)])
  <2>1. em'[Main(i)].at # "idle" => Records(y, em'[Main(i)].kind)
    BY <1>1, <1>4 DEF Stands, Emits, Records
  <2>2. em'[Role(i)].at # "idle" => em'[Role(i)].kind = "status" /\ y.phase \notin Early
    BY <1>1, <1>5 DEF Stands, Emits
  <2>3. em'[Main(i)].at \in Within \/ em'[Role(i)].at \in Within => y.phase \in Active /\ y.failure # "append"
    <3>1. em'[Main(i)].at \in Within \/ em'[Role(i)].at \in Within =>
            /\ inv[i].phase \in Active /\ inv[i].failure # "append"
            /\ \E g \in Goroutine \ {x} : g[1] = i /\ em[g].at \in Within
      BY <1>1, <1>2, <1>3, <1>4, <1>5 DEF Stands, Emits, Within
    <3> QED  BY <3>1
  <2>4. \A w \in {em'[Main(i)], em'[Role(i)]} : w.at = "appended" =>
           /\ lease = i
           /\ record # <<>> /\ w.pos = Len(record)
           /\ record[Len(record)] = [by |-> i, kind |-> w.kind]
    BY <1>1, <1>4, <1>5 DEF Stands, Emits
  <2> QED  BY <2>1, <2>2, <2>3, <2>4 DEF Emits
<1>9. Owing(y, em'[Main(i)]) => ~Over
  BY <1>1, <1>4 DEF Stands, Owing, Before
<1>10. Accounts(i, y, em'[Main(i)])
  <2>1. CASE x = Main(i)
    <3>1. /\ em'[Main(i)].at = "idle" /\ inv[i].phase \notin {"ending", "returned"}
          /\ y.phase = "closing" => y.failure # "no"
      BY <2>1, <1>2, <1>3, <1>6
    <3>2. Accounts(i, inv[i], em[Main(i)])
      BY <1>1 DEF Stands
    <3> QED  BY <3>1, <3>2 DEF Accounts, Before
  <2>2. CASE x = Role(i)
    <3>1. em'[Main(i)] = em[Main(i)]
      BY <2>2, <1>2, <1>3
    <3> QED  BY <3>1, <1>1 DEF Stands, Accounts
  <2> QED  BY <1>2, <2>1, <2>2
<1> QED  BY <1>7, <1>8, <1>9, <1>10 DEF Stands

LEMMA EnterStep ==
  ASSUME EngineAssumption, EngineInv, NEW x \in Goroutine, Enter(x)
  PROVE  EngineInv'
<1> DEFINE i == x[1]
           e == inv[x[1]].home
<1>1. /\ em[x].at = "queued" /\ gate[e] = None
      /\ UNCHANGED inv /\ UNCHANGED admitted /\ UNCHANGED lease /\ UNCHANGED record
      /\ UNCHANGED published /\ UNCHANGED stops /\ UNCHANGED timedOut /\ UNCHANGED hand
  BY DEF Enter, Gate
<1>2. /\ i \in Invocation /\ inv[i] \in InvocationType /\ em[x] \in Emission /\ e \in Engine
      /\ Stands(i, inv[i], em[Main(i)], em[Role(i)])
      /\ x = Main(i) => Records(inv[i], em[x].kind)
      /\ inv' = [inv EXCEPT ![i] = inv[i]]
  BY <1>1, Sender DEF EngineInv, Types, InvocationType
<1>3. CASE Owns(i, em[x].kind)
  <2> DEFINE z == [em[x] EXCEPT !.at = "inside"]
  <2>1. /\ z \in Emission /\ z.at = "inside" /\ z.kind = em[x].kind
        /\ em' = [em EXCEPT ![x] = z] /\ gate' = [gate EXCEPT ![e] = x]
    BY <1>1, <1>2, <1>3 DEF Enter, Emission
  <2> HIDE DEF z
  <2>2. em'[x] = z /\ \A g \in Goroutine \ {x} : em'[g] = em[g]
    BY <2>1 DEF EngineInv, Types
  <2>3. Gated'
    <3>1. None \notin Goroutine
      BY DEF EngineAssumption, Goroutine
    <3>2. gate'[e] = x /\ \A d \in Engine \ {e} : gate'[d] = gate[d]
      BY <1>2, <2>1 DEF EngineInv, Gated
    <3>3. ASSUME NEW g \in Goroutine, NEW d \in Engine
          PROVE  gate'[d] = g <=> inv'[g[1]].home = d /\ em'[g].at \in Within
      <4>1. gate[d] = g <=> inv[g[1]].home = d /\ em[g].at \in Within
        BY DEF EngineInv, Gated
      <4>2. CASE d = e
        <5>1. CASE g = x
          BY <4>2, <5>1, <1>1, <2>1, <2>2, <3>2 DEF Within
        <5>2. CASE g # x
          BY <4>1, <4>2, <5>2, <1>1, <2>2, <3>1, <3>2
        <5> QED  BY <5>1, <5>2
      <4>3. CASE d # e
        BY <4>1, <4>3, <1>1, <2>2, <3>2
      <4> QED  BY <4>2, <4>3
    <3>4. gate' \in [Engine -> Goroutine \cup {None}]
      BY <1>2, <2>1 DEF EngineInv, Gated
    <3> QED  BY <3>3, <3>4 DEF Gated
  <2>4. Stands(i, inv[i], em'[Main(i)], em'[Role(i)])
    <3>1. /\ Main(i) \in Goroutine /\ Role(i) \in Goroutine /\ Main(i) # Role(i)
          /\ (x = Main(i) \/ x = Role(i))
      BY Goroutines
    <3>2. ~inv[i].ended /\ inv[i].failure = "no" /\ inv[i].phase \in Active
      BY <1>1, <1>2, <1>3, Sender DEF Owns, Stands, Admitted, Active, Phase, InvocationType
    <3>3. \A m \in {em'[Main(i)], em'[Role(i)]} : m.at = "appended" => m # z
      BY <2>1
    <3>4. Emits(i, inv[i], em'[Main(i)], em'[Role(i)])
      <4>1. CASE x = Main(i)
        <5>1. em'[Main(i)] = z /\ em'[Role(i)] = em[Role(i)]
          BY <4>1, <2>2, <3>1
        <5> QED  BY <4>1, <5>1, <1>2, <2>1, <3>2 DEF Stands, Emits
      <4>2. CASE x = Role(i)
        <5>1. em'[Role(i)] = z /\ em'[Main(i)] = em[Main(i)]
          BY <4>2, <2>2, <3>1
        <5> QED  BY <4>2, <5>1, <1>1, <1>2, <2>1, <3>2 DEF Stands, Emits
      <4> QED  BY <3>1, <4>1, <4>2
    <3>5. /\ em'[Main(i)].at \in Before => em[Main(i)].at \in Before
          /\ em'[Main(i)].at = "idle" => em[Main(i)].at = "idle"
          /\ em'[Main(i)].kind = em[Main(i)].kind
      BY <1>1, <2>1, <2>2, <3>1 DEF Before
    <3>6. (Owing(inv[i], em'[Main(i)]) => ~Over) /\ Accounts(i, inv[i], em'[Main(i)])
      BY <1>2, <3>5 DEF Stands, Owing, Accounts
    <3> QED  BY <1>2, <3>4, <3>6 DEF Stands
  <2>5. z.at # "appended" /\ em[x].at # "appended" /\ em[x].at \in Before
    BY <1>1, <2>1 DEF Before
  <2> HIDE DEF i, e
  <2>6. i = x[1]
    BY DEF i
  <2> QED  BY <1>1, <1>2, <2>1, <2>3, <2>4, <2>5, <2>6, PathStep
<1>4. CASE ~Owns(i, em[x].kind)
  <2>1. em' = [em EXCEPT ![x] = Idle] /\ UNCHANGED gate
    BY <1>4 DEF Enter
  <2>2. Idle \in Emission /\ Idle.at = "idle"
    BY DEF Idle, Emission, Kind
  <2>3. Gated'
    <3>1. \A g \in Goroutine : em'[g].at \in Within <=> em[g].at \in Within
      BY <1>1, <2>1, <2>2 DEF EngineInv, Types, Within
    <3> QED  BY <1>1, <2>1, <3>1, GateStays
  <2>4. inv[i].failure = "no" => (x = Main(i) => inv[i].phase # "closing")
    <3>1. SUFFICES ASSUME inv[i].phase = "closing", inv[i].failure = "no", x = Main(i) PROVE FALSE
      OBVIOUS
    <3>2. ~inv[i].ended /\ admitted[e] = i
      BY <1>2, <3>1 DEF Stands, Admitted, Active, Phase
    <3>3. em[x].kind \in Account
      BY <1>2, <3>1, InvocationIs DEF Records, Account
    <3> QED  BY <1>4, <3>1, <3>2, <3>3 DEF Owns
  <2>5. Stands(i, inv[i], em'[Main(i)], em'[Role(i)])
    BY <1>1, <1>2, <2>1, <2>4, SilentStands
  <2>6. em[x].at # "appended" /\ em[x].at \in Before /\ Idle.at # "appended"
    BY <1>1, <2>2 DEF Before
  <2> HIDE DEF i, e
  <2>7. i = x[1]
    BY DEF i
  <2> QED  BY <1>1, <1>2, <2>1, <2>2, <2>3, <2>5, <2>6, <2>7, PathStep
<1> QED  BY <1>3, <1>4

\* An emission ends without its event: y is what has become of its owner.
LEMMA EndsUnrecorded ==
  ASSUME EngineAssumption, EngineInv,
         UNCHANGED admitted, UNCHANGED lease, UNCHANGED record, UNCHANGED published,
         UNCHANGED stops, UNCHANGED timedOut, UNCHANGED hand,
         NEW x \in Goroutine, NEW i \in Invocation, i = x[1], em[x].at \in Before,
         NEW y \in InvocationType, inv' = [inv EXCEPT ![i] = y],
         y.phase = inv[i].phase, y.home = inv[i].home, y.ended = inv[i].ended,
         y.asked = inv[i].asked, y.pending = inv[i].pending, y.box = inv[i].box,
         y.expired = inv[i].expired,
         y.failure = "no" => inv[i].failure = "no" /\ (x = Main(i) => inv[i].phase # "closing"),
         y.failure = "append" => inv[i].failure = "append" \/ em[x].at = "inside",
         y.word = inv[i].word \/ (y.word = "failed" /\ inv[i].phase = "settling"),
         \/ em[x].at = "queued" /\ UNCHANGED gate /\ em' = [em EXCEPT ![x] = Idle]
         \/ em[x].at = "inside" /\ Leave(x)
  PROVE  EngineInv'
<1>1. em' = [em EXCEPT ![x] = Idle] /\ Idle \in Emission /\ Idle.at = "idle"
  BY DEF Leave, Idle, Emission, Kind
<1>2. \A j \in Invocation : inv'[j].home = inv[j].home
  BY DEF EngineInv, Types
<1>3. Gated'
  <2>1. CASE em[x].at = "queued" /\ UNCHANGED gate
    <3>1. \A g \in Goroutine : em'[g].at \in Within <=> em[g].at \in Within
      BY <2>1, <1>1 DEF EngineInv, Types, Within
    <3> QED  BY <2>1, <1>2, <3>1, GateStays
  <2>2. CASE em[x].at = "inside" /\ Leave(x)
    BY <2>2, <1>2, LeavesGate DEF Within
  <2> QED  BY <2>1, <2>2
<1>4. y.failure = "append" => \/ inv[i].failure = "append"
                              \/ \A g \in Goroutine \ {x} : g[1] = i => em[g].at \notin Within
  BY OneWithin DEF Within
<1>5. em[x].at # "idle" /\ em[x].at # "appended" /\ Idle.at # "appended"
  BY <1>1 DEF Before
<1>6. Stands(i, y, em'[Main(i)], em'[Role(i)])
  BY <1>1, <1>4, <1>5, SilentStands
<1>7. inv[i].failure # "no" => y.failure # "no"
  OBVIOUS
<1> QED  BY <1>1, <1>3, <1>5, <1>6, <1>7, PathStep

LEMMA UnrecordedSteps ==
  ASSUME EngineAssumption, EngineInv, NEW x \in Goroutine,
         \/ GiveUp(x) \/ NoMaterial(x) \/ (Unsettled(x) /\ inv[x[1]].done)
         \/ (FailAppend(x) /\ record' = record)
  PROVE  EngineInv'
<1> DEFINE i == x[1]
<1>1. em[x].at \in Before
  BY DEF GiveUp, NoMaterial, Unsettled, FailAppend, Before
<1>2. /\ i \in Invocation /\ inv[i] \in InvocationType
      /\ x = Main(i) \/ x = Role(i)
      /\ x = Main(i) => Records(inv[i], em[x].kind)
      /\ x = Role(i) => em[x].kind = "status"
  BY <1>1, Sender, Goroutines DEF Before
<1>3. /\ UNCHANGED admitted /\ UNCHANGED lease /\ UNCHANGED record /\ UNCHANGED published
      /\ UNCHANGED stops /\ UNCHANGED timedOut /\ UNCHANGED hand
  BY DEF GiveUp, NoMaterial, Unsettled, FailAppend
<1>4. CASE GiveUp(x) \/ FailAppend(x)
  <2>1. PICK how \in {"wait", "append"} : /\ inv' = [inv EXCEPT ![i] = Halted(i, how)]
                                          /\ how = "append" => em[x].at = "inside"
    BY <1>4 DEF GiveUp, FailAppend
  <2> DEFINE y == Halted(i, how)
  <2>2. /\ y \in InvocationType /\ y.phase = inv[i].phase /\ y.home = inv[i].home
        /\ y.ended = inv[i].ended /\ y.asked = inv[i].asked /\ y.pending = inv[i].pending
        /\ y.box = inv[i].box /\ y.expired = inv[i].expired /\ y.word = inv[i].word
        /\ y.failure = IF inv[i].failure = "no" THEN how ELSE inv[i].failure
    BY <1>2, InvocationIs DEF Halted
  <2>3. \/ em[x].at = "queued" /\ UNCHANGED gate /\ em' = [em EXCEPT ![x] = Idle]
        \/ em[x].at = "inside" /\ Leave(x)
    BY <1>4 DEF GiveUp, FailAppend
  <2>4. inv' = [inv EXCEPT ![i] = y]
    BY <2>1
  <2> HIDE DEF y, i
  <2>5. i = x[1]
    BY DEF i
  <2>6. /\ y.failure # "no"
        /\ y.failure = "append" => inv[i].failure = "append" \/ em[x].at = "inside"
    BY <2>1, <2>2
  <2>7. /\ y \in InvocationType /\ y.phase = inv[i].phase /\ y.home = inv[i].home
        /\ y.ended = inv[i].ended /\ y.asked = inv[i].asked /\ y.pending = inv[i].pending
        /\ y.box = inv[i].box /\ y.expired = inv[i].expired /\ y.word = inv[i].word
    BY <2>2
  <2>8. i \in Invocation
    BY <1>2
  <2> QED  BY <1>1, <1>3, <2>3, <2>4, <2>5, <2>6, <2>7, <2>8, EndsUnrecorded
<1>5. CASE NoMaterial(x)
  <2>1. inv' = [inv EXCEPT ![i] = inv[i]] /\ em[x].at = "inside" /\ Leave(x)
    BY <1>5 DEF NoMaterial, EngineInv, Types, InvocationType
  <2>2. x = Main(i) /\ inv[i].phase # "closing"
    BY <1>2, <1>5, InvocationIs DEF NoMaterial, Records, Ending, TaskTerminal
  <2> HIDE DEF i
  <2>3. i = x[1]
    BY DEF i
  <2> QED  BY <1>1, <1>2, <1>3, <2>1, <2>2, <2>3, EndsUnrecorded
<1>6. CASE Unsettled(x) /\ inv[x[1]].done
  <2> DEFINE y == [inv[i] EXCEPT !.word = "failed"]
  <2>1. inv' = [inv EXCEPT ![i] = y] /\ em[x].at = "inside" /\ Leave(x)
    BY <1>6 DEF Unsettled
  <2>2. x = Main(i) /\ inv[i].phase = "settling"
    BY <1>2, <1>6, InvocationIs DEF Unsettled, Records, Ending, TaskTerminal
  <2>3. /\ y \in InvocationType /\ y.phase = inv[i].phase /\ y.home = inv[i].home
        /\ y.ended = inv[i].ended /\ y.asked = inv[i].asked /\ y.pending = inv[i].pending
        /\ y.box = inv[i].box /\ y.expired = inv[i].expired /\ y.word = "failed"
        /\ y.failure = inv[i].failure
    BY <1>2, InvocationIs DEF Ending, TaskTerminal
  <2> HIDE DEF y, i
  <2>4. i = x[1]
    BY DEF i
  <2> QED  BY <1>1, <1>2, <1>3, <2>1, <2>2, <2>3, <2>4, EndsUnrecorded
<1> QED  BY <1>4, <1>5, <1>6

LEMMA UnsettledStep ==
  ASSUME EngineAssumption, EngineInv, NEW x \in Goroutine, Unsettled(x), ~inv[x[1]].done
  PROVE  EngineInv'
<1> DEFINE i == x[1]
           y == [inv[i] EXCEPT !.word = "failed"]
           z == [em[x] EXCEPT !.kind = "status"]
<1>1. /\ em[x].at = "inside" /\ em[x].kind = "material"
      /\ inv' = [inv EXCEPT ![i] = y] /\ em' = [em EXCEPT ![x] = z]
      /\ UNCHANGED gate /\ UNCHANGED admitted /\ UNCHANGED lease /\ UNCHANGED record
      /\ UNCHANGED published /\ UNCHANGED stops /\ UNCHANGED timedOut /\ UNCHANGED hand
  BY DEF Unsettled
<1>2. /\ i \in Invocation /\ inv[i] \in InvocationType /\ em[x] \in Emission
      /\ Stands(i, inv[i], em[Main(i)], em[Role(i)])
      /\ x = Main(i) \/ x = Role(i)
      /\ x = Main(i) => Records(inv[i], em[x].kind)
      /\ x = Role(i) => em[x].kind = "status"
      /\ Main(i) \in Goroutine /\ Role(i) \in Goroutine /\ Main(i) # Role(i)
  BY <1>1, Sender, Goroutines
<1>3. x = Main(i) /\ inv[i].phase = "settling"
  BY <1>1, <1>2, InvocationIs DEF Records, Ending, TaskTerminal
<1>4. /\ y \in InvocationType /\ y.phase = inv[i].phase /\ y.home = inv[i].home
      /\ y.ended = inv[i].ended /\ y.asked = inv[i].asked /\ y.pending = inv[i].pending
      /\ y.box = inv[i].box /\ y.expired = inv[i].expired /\ y.word = "failed"
      /\ y.failure = inv[i].failure
  BY <1>2, InvocationIs DEF Ending, TaskTerminal
<1>5. z \in Emission /\ z.at = "inside" /\ z.kind = "status"
  BY <1>1, <1>2 DEF Emission, Kind
<1> HIDE DEF y, z
<1>6. em'[Main(i)] = z /\ em'[Role(i)] = em[Role(i)] /\ \A g \in Goroutine \ {x} : em'[g] = em[g]
  BY <1>1, <1>2, <1>3 DEF EngineInv, Types
<1>7. Gated'
  <2>1. \A j \in Invocation : inv'[j].home = inv[j].home
    BY <1>1, <1>2, <1>4 DEF EngineInv, Types
  <2>2. \A g \in Goroutine : em'[g].at \in Within <=> em[g].at \in Within
    BY <1>1, <1>3, <1>5, <1>6 DEF Within
  <2> QED  BY <1>1, <2>1, <2>2, GateStays
<1>8. Stands(i, y, em'[Main(i)], em'[Role(i)])
  <2>1. Admitted(i, y)
    BY <1>2, <1>3, <1>4 DEF Stands, Admitted
  <2>2. Emits(i, y, z, em[Role(i)])
    BY <1>1, <1>2, <1>3, <1>4, <1>5 DEF Stands, Emits, Records, Within
  <2>3. (Owing(y, z) => ~Over) /\ Accounts(i, y, z)
    BY <1>2, <1>3, <1>4, <1>5 DEF Stands, Owing, Accounts, Before
  <2> QED  BY <1>6, <2>1, <2>2, <2>3 DEF Stands
<1>9. z.at # "appended" /\ em[x].at # "appended" /\ em[x].at \in Before
      /\ (inv[i].failure # "no" => y.failure # "no")
  BY <1>1, <1>4, <1>5 DEF Before
<1> HIDE DEF i
<1>10. i = x[1]
  BY DEF i
<1> QED  BY <1>1, <1>2, <1>4, <1>5, <1>7, <1>8, <1>9, <1>10, PathStep

\* What an append to the record changes.
LEMMA Grows ==
  ASSUME EngineInv, NEW i \in Invocation, NEW k \in Kind,
         record' = Append(record, [by |-> i, kind |-> k])
  PROVE  /\ record' \in Seq([by : Invocation, kind : Kind]) /\ Len(record) \in Nat
         /\ Len(record') = Len(record) + 1 /\ DOMAIN record' = DOMAIN record \cup {Len(record')}
         /\ DOMAIN record = 1..Len(record)
         /\ record'[Len(record')] = [by |-> i, kind |-> k]
         /\ \A n \in DOMAIN record : record'[n] = record[n]
         /\ \A j \in Invocation : j # i \/ k \notin Ending => Endings(j)' = Endings(j)
         /\ k \in Ending => Endings(i)' = Endings(i) \cup {Len(record')}
         /\ Over' <=> Over \/ k \in TaskTerminal
<1> DEFINE Row == [by : Invocation, kind : Kind]
           row == [by |-> i, kind |-> k]
<1>1. record \in Seq(Row) /\ row \in Row
  BY DEF EngineInv, Types
<1>2. row.by = i /\ row.kind = k
  OBVIOUS
<1> HIDE DEF Row, row
<1>3. /\ record' \in Seq(Row) /\ Len(record) \in Nat /\ Len(record') = Len(record) + 1
      /\ DOMAIN record' = 1..Len(record') /\ DOMAIN record = 1..Len(record)
      /\ record'[Len(record')] = row
      /\ \A n \in DOMAIN record : record'[n] = record[n]
  BY <1>1 DEF row
<1>4. DOMAIN record' = DOMAIN record \cup {Len(record')} /\ Len(record') \notin DOMAIN record
  BY <1>3
<1>5. \A j \in Invocation : j # i \/ k \notin Ending => Endings(j)' = Endings(j)
  BY <1>2, <1>3, <1>4 DEF Endings
<1>6. k \in Ending => Endings(i)' = Endings(i) \cup {Len(record')}
  BY <1>2, <1>3, <1>4 DEF Endings
<1>7. Over' <=> Over \/ k \in TaskTerminal
  BY <1>2, <1>3, <1>4 DEF Over
<1> QED  BY <1>3, <1>4, <1>5, <1>6, <1>7 DEF Row, row

\* The event of x is recorded: y is what becomes of its owner, z of itself.
LEMMA RecordStep ==
  ASSUME EngineAssumption, EngineInv,
         UNCHANGED admitted, UNCHANGED lease, UNCHANGED published,
         UNCHANGED stops, UNCHANGED timedOut, UNCHANGED hand,
         NEW x \in Goroutine, NEW i \in Invocation, i = x[1], em[x].at = "inside", lease = i,
         NEW k \in Kind, k = em[x].kind, record' = Append(record, [by |-> i, kind |-> k]),
         NEW y \in InvocationType, inv' = [inv EXCEPT ![i] = y],
         y.phase = inv[i].phase, y.home = inv[i].home, y.ended = inv[i].ended,
         y.asked = inv[i].asked, y.pending = inv[i].pending, y.box = inv[i].box,
         y.expired = inv[i].expired, y.word = inv[i].word,
         NEW z \in Emission, em' = [em EXCEPT ![x] = z], Gated',
         \/ z.at = "appended" /\ z.kind = k /\ z.pos = Len(record) + 1 /\ y.failure = inv[i].failure
         \/ z.at = "idle" /\ y.failure # "no"
  PROVE  EngineInv'
<1>1. /\ record' \in Seq([by : Invocation, kind : Kind]) /\ Len(record) \in Nat
      /\ Len(record') = Len(record) + 1 /\ DOMAIN record' = DOMAIN record \cup {Len(record')}
      /\ DOMAIN record = 1..Len(record)
      /\ record'[Len(record')] = [by |-> i, kind |-> k]
      /\ \A n \in DOMAIN record : record'[n] = record[n]
      /\ \A j \in Invocation : j # i \/ k \notin Ending => Endings(j)' = Endings(j)
      /\ k \in Ending => Endings(i)' = Endings(i) \cup {Len(record')}
      /\ Over' <=> Over \/ k \in TaskTerminal
  BY Grows
<1>2. /\ inv[i] \in InvocationType /\ Stands(i, inv[i], em[Main(i)], em[Role(i)])
      /\ x = Main(i) \/ x = Role(i)
      /\ x = Main(i) => Records(inv[i], k)
      /\ x = Role(i) => k = "status" /\ inv[i].phase \notin Early
      /\ inv[i].phase \in Active /\ inv[i].failure # "append"
      /\ inv[i].phase \notin {"fresh", "submitted", "leasing", "binding"}
      /\ Main(i) \in Goroutine /\ Role(i) \in Goroutine /\ Main(i) # Role(i)
      /\ Main(i)[1] = i /\ Role(i)[1] = i
  BY Sender, Goroutines DEF Within
<1>3. inv'[i] = y /\ \A j \in Invocation \ {i} : inv'[j] = inv[j]
  BY DEF EngineInv, Types
<1>4. em'[x] = z /\ \A g \in Goroutine \ {x} : em'[g] = em[g]
  BY DEF EngineInv, Types
<1>5. \A g \in Goroutine : /\ g[1] = i /\ g # x => em[g].at \notin Within
                           /\ em[g].at # "appended"
  <2>1. ASSUME NEW g \in Goroutine, g[1] = i, g # x PROVE em[g].at \notin Within
    BY <2>1, OneWithin DEF Within
  <2>2. ASSUME NEW g \in Goroutine PROVE em[g].at # "appended"
    BY OneAppended DEF Within
  <2> QED  BY <2>1, <2>2
<1>6. k \in Ending => x = Main(i) /\ inv[i].phase = "closing" /\ Endings(i) = {}
  BY <1>2 DEF Records, Ending, TaskTerminal, Stands, Accounts, Before
<1>7. ASSUME NEW j \in Invocation \ {i} PROVE Stands(j, inv[j], em[Main(j)], em[Role(j)])'
  <2>1. inv'[j] = inv[j] /\ em'[Main(j)] = em[Main(j)] /\ em'[Role(j)] = em[Role(j)]
    BY <1>3, <1>4, Goroutines
  <2>2. Stands(j, inv[j], em[Main(j)], em[Role(j)]) /\ inv[j].phase \notin Holding
    BY DEF EngineInv, Stands, Admitted
  <2>3. em[Main(j)].at # "appended" /\ em[Role(j)].at # "appended"
    BY <1>5, Goroutines
  <2>4. Admitted(j, inv[j])'
    BY <2>1, <2>2 DEF Stands, Admitted
  <2>5. Emits(j, inv[j], em[Main(j)], em[Role(j)])'
    BY <2>1, <2>2, <2>3 DEF Stands, Emits
  <2>6. ~Owing(inv[j], em[Main(j)])
    BY <2>2 DEF Stands, Emits, Records, Owing, Holding, Active, Phase, Before
  <2>7. Accounts(j, inv[j], em[Main(j)])'
    BY <1>1, <2>1, <2>2 DEF Stands, Accounts
  <2> QED  BY <2>1, <2>4, <2>5, <2>6, <2>7 DEF Stands, Owing
<1>8. Stands(i, y, em[Main(i)], em[Role(i)])'
  <2>1. Admitted(i, y)'
    BY <1>2 DEF Stands, Admitted
  <2>2. /\ em'[Main(i)] = IF x = Main(i) THEN z ELSE em[Main(i)]
        /\ em'[Role(i)] = IF x = Role(i) THEN z ELSE em[Role(i)]
    BY <1>2, <1>4
  <2>3. Emits(i, y, em[Main(i)], em[Role(i)])'
    <3>1. \A m \in {em'[Main(i)], em'[Role(i)]} :
            \/ m = z
            \/ m.at \notin Within
      BY <2>2, <1>2, <1>5
    <3>2. em'[Main(i)].at # "idle" => Records(y, em'[Main(i)].kind)
      BY <2>2, <1>2 DEF Stands, Emits, Records
    <3>3. em'[Role(i)].at # "idle" => em'[Role(i)].kind = "status" /\ y.phase \notin Early
      BY <2>2, <1>2 DEF Stands, Emits
    <3>4. z.at = "appended" => y.phase \in Active /\ y.failure # "append" /\ record' # <<>>
                               /\ z.pos = Len(record')
                               /\ record'[Len(record')] = [by |-> i, kind |-> z.kind]
      BY <1>1, <1>2
    <3> QED  BY <3>1, <3>2, <3>3, <3>4 DEF Emits, Within
  <2>4. (Owing(y, em[Main(i)]) => ~Over)'
    <3>1. CASE k \in TaskTerminal
      <4>1. x = Main(i) /\ y.phase = "closing" /\ em'[Main(i)].at \notin Before
        BY <3>1, <1>6, <2>2 DEF Ending, Before
      <4> QED  BY <4>1 DEF Owing
    <3>2. CASE k \notin TaskTerminal
      <4>1. Over' <=> Over
        BY <3>2, <1>1
      <4>2. Owing(y, em'[Main(i)]) => Owing(inv[i], em[Main(i)])
        BY <2>2 DEF Owing, Before
      <4> QED  BY <4>1, <4>2, <1>2 DEF Stands, Owing
    <3> QED  BY <3>1, <3>2
  <2>5. Accounts(i, y, em[Main(i)])'
    <3>1. CASE k \in Ending
      <4>1. Endings(i)' = {Len(record')} /\ x = Main(i) /\ y.phase = "closing"
            /\ em'[Main(i)].at \notin Before
        BY <3>1, <1>1, <1>6, <2>2 DEF Before
      <4>2. em'[Main(i)].at = "idle" => y.failure # "no"
        BY <4>1, <2>2
      <4> QED  BY <4>1, <4>2 DEF Accounts
    <3>2. CASE k \notin Ending
      <4>1. Endings(i)' = Endings(i)
        BY <3>2, <1>1
      <4>2. em'[Main(i)].at \in Before => em[Main(i)].at \in Before
        BY <2>2 DEF Before
      <4>3. y.failure = "no" /\ em'[Main(i)].at = "idle" =>
              inv[i].failure = "no" /\ em[Main(i)].at = "idle"
        BY <2>2
      <4> QED  BY <4>1, <4>2, <4>3, <1>2 DEF Stands, Accounts
    <3> QED  BY <3>1, <3>2
  <2> QED  BY <2>1, <2>3, <2>4, <2>5 DEF Stands
<1>9. ASSUME NEW j \in Invocation PROVE Stands(j, inv[j], em[Main(j)], em[Role(j)])'
  BY <1>3, <1>7, <1>8
<1>10. First'
  <2>1. record' # <<>>
    BY <1>1
  <2>2. Run \in Invocation /\ Main(Run) \in Goroutine
    BY Goroutines DEF EngineAssumption
  <2>3. CASE i = Run
    <3>1. inv'[Run].phase \notin {"fresh", "submitted", "leasing"}
      BY <2>3, <1>2, <1>3
    <3>2. inv'[Run].phase = "rooting" => em'[Main(Run)].at \notin Before
      BY <2>3, <1>2, <1>3, <1>4 DEF Early, Before
    <3> QED  BY <2>1, <3>1, <3>2 DEF First
  <2>4. CASE i # Run
    <3>1. inv'[Run] = inv[Run] /\ em'[Main(Run)] = em[Main(Run)]
      BY <2>2, <2>4, <1>3, <1>4, Goroutines
    <3>2. record # <<>>
      BY <2>4, <1>2, Sender DEF EngineInv, First
    <3> QED  BY <2>1, <3>1, <3>2 DEF EngineInv, First
  <2> QED  BY <2>3, <2>4
<1>11. Len(published) \in Nat /\ DOMAIN published = 1..Len(published)
       /\ \A n \in DOMAIN published : published[n] \in 1..Len(record)
  BY Recorded
<1>12. InOrder'
  <2>1. \A g \in Goroutine : em'[g].at = "appended" => g = x
    BY <1>4, <1>5
  <2>2. \A n \in DOMAIN published : published[n] < Len(record')
    BY <1>1, <1>11
  <2> QED  BY <2>2 DEF EngineInv, InOrder
<1>13. Delivered'
  <2>1. ASSUME NEW n \in DOMAIN record
        PROVE  (\E l \in DOMAIN published : published[l] = n) \/ inv'[record[n].by].failure # "no"
    <3>1. record[n].by \in Invocation
      BY Recorded
    <3>2. inv[record[n].by].failure # "no" => inv'[record[n].by].failure # "no"
      BY <3>1, <1>3
    <3> QED  BY <3>2, <1>5 DEF EngineInv, Delivered
  <2>2. \/ em'[x].at = "appended" /\ em'[x].pos = Len(record')
        \/ inv'[record'[Len(record')].by].failure # "no"
    BY <1>1, <1>3, <1>4
  <2> QED  BY <2>1, <2>2, <1>1 DEF Delivered
<1>14. OverIsOver'
  <2>1. ASSUME NEW n \in DOMAIN record, record[n].kind \in TaskTerminal
        PROVE  k \notin {"root", "question", "answer", "completed"}
    <3>1. Over
      BY <2>1 DEF Over
    <3>2. ~Owing(inv[i], em[Main(i)])
      BY <3>1, <1>2 DEF Stands
    <3>3. CASE x = Main(i)
      <4>1. k # "completed"
        BY <3>2, <3>3 DEF Owing, Before
      <4>2. inv[i].phase \notin Pursues
        BY <3>2 DEF Owing, Pursues
      <4> QED  BY <3>3, <4>1, <4>2, <1>2, InvocationIs DEF Records, Pursues, Ending, TaskTerminal
    <3> QED  BY <3>3, <1>2
  <2>2. ASSUME NEW n \in DOMAIN record', NEW m \in DOMAIN record', n < m,
               record'[n].kind \in TaskTerminal
        PROVE  record'[m].kind \notin {"root", "question", "answer", "completed"}
    <3>1. n \in DOMAIN record
      BY <2>2, <1>1
    <3>2. CASE m \in DOMAIN record
      BY <2>2, <3>1, <3>2, <1>1 DEF EngineInv, OverIsOver
    <3>3. CASE m = Len(record')
      BY <2>1, <2>2, <3>1, <3>3, <1>1
    <3> QED  BY <3>2, <3>3, <1>1
  <2> QED  BY <2>2 DEF OverIsOver
<1>15. Types'
  <2>1. inv' \in [Invocation -> InvocationType] /\ em' \in [Goroutine -> Emission]
    BY DEF EngineInv, Types
  <2>2. published' \in Seq(DOMAIN record')
    BY <1>1, SeqMonotonic DEF EngineInv, Types
  <2> QED  BY <2>1, <2>2, <1>1 DEF EngineInv, Types
<1> QED  BY <1>9, <1>10, <1>12, <1>13, <1>14, <1>15 DEF EngineInv

LEMMA AppendStep ==
  ASSUME EngineAssumption, EngineInv, NEW x \in Goroutine, AppendEvent(x)
  PROVE  EngineInv'
<1> DEFINE i == x[1]
           z == [em[x] EXCEPT !.at = "appended", !.pos = Len(record) + 1]
           k == em[x].kind
<1>1. /\ em[x].at = "inside" /\ lease = i
      /\ record' = Append(record, [by |-> i, kind |-> k])
      /\ UNCHANGED inv /\ UNCHANGED admitted /\ UNCHANGED gate /\ UNCHANGED lease
      /\ UNCHANGED published /\ UNCHANGED stops /\ UNCHANGED timedOut /\ UNCHANGED hand
      /\ em' = [em EXCEPT ![x] = z]
  BY DEF AppendEvent, Entry
<1>2. /\ i \in Invocation /\ inv[i] \in InvocationType /\ em[x] \in Emission
      /\ inv' = [inv EXCEPT ![i] = inv[i]] /\ Len(record) \in Nat
  <2>1. i \in Invocation /\ inv[i] \in InvocationType /\ em[x] \in Emission
    BY <1>1, Sender
  <2>2. inv' = [inv EXCEPT ![i] = inv[i]]
    BY <1>1, <2>1 DEF EngineInv, Types, InvocationType
  <2> QED  BY <2>1, <2>2, Recorded
<1>3. z \in Emission /\ z.at = "appended" /\ z.kind = k /\ z.pos = Len(record) + 1 /\ k \in Kind
  <2>1. em[x] \in Emission /\ Len(record) + 1 \in Nat /\ k \in Kind
    BY <1>2 DEF Emission
  <2> HIDE DEF k
  <2>2. em[x].kind = k
    BY DEF k
  <2> QED  BY <2>1, <2>2 DEF Emission
<1> HIDE DEF z
<1>4. Gated'
  <2>1. \A g \in Goroutine : em'[g].at \in Within <=> em[g].at \in Within
    BY <1>1, <1>3 DEF EngineInv, Types, Within
  <2> QED  BY <1>1, <2>1, GateStays
<1> HIDE DEF i, k
<1>5. i = x[1] /\ k = em[x].kind
  BY DEF i, k
<1> QED  BY <1>1, <1>2, <1>3, <1>4, <1>5, RecordStep

LEMMA FailAppendStep ==
  ASSUME EngineAssumption, EngineInv, NEW x \in Goroutine, FailAppend(x)
  PROVE  EngineInv'
<1>1. CASE record' = record
  BY <1>1, UnrecordedSteps
<1>2. CASE record' # record
  <2> DEFINE i == x[1]
             k == em[x].kind
             y == Halted(i, "append")
  <2>1. /\ em[x].at = "inside" /\ lease = i
        /\ record' = Append(record, [by |-> i, kind |-> k])
        /\ UNCHANGED admitted /\ UNCHANGED lease /\ UNCHANGED published
        /\ UNCHANGED stops /\ UNCHANGED timedOut /\ UNCHANGED hand
        /\ inv' = [inv EXCEPT ![i] = y] /\ Leave(x)
    BY <1>2 DEF FailAppend, Entry
  <2>2. i \in Invocation /\ inv[i] \in InvocationType /\ em[x] \in Emission
    BY <2>1, Sender
  <2>3. /\ y \in InvocationType /\ y.phase = inv[i].phase /\ y.home = inv[i].home
        /\ y.ended = inv[i].ended /\ y.asked = inv[i].asked /\ y.pending = inv[i].pending
        /\ y.box = inv[i].box /\ y.expired = inv[i].expired /\ y.word = inv[i].word
        /\ y.failure # "no"
    BY <2>2, InvocationIs DEF Halted
  <2> HIDE DEF y
  <2>4. Gated' /\ Idle \in Emission
    <3>1. \A j \in Invocation : inv'[j].home = inv[j].home
      BY <2>1, <2>2, <2>3 DEF EngineInv, Types
    <3> QED  BY <2>1, <3>1, LeavesGate DEF Within
  <2>5. em' = [em EXCEPT ![x] = Idle] /\ Idle.at = "idle" /\ k \in Kind
    BY <2>1, <2>2 DEF Leave, Idle, Emission
  <2> HIDE DEF i, k
  <2>6. i = x[1] /\ k = em[x].kind
    BY DEF i, k
  <2> QED  BY <2>1, <2>2, <2>3, <2>4, <2>5, <2>6, RecordStep
<1> QED  BY <1>1, <1>2

LEMMA PublishStep ==
  ASSUME EngineAssumption, EngineInv, NEW x \in Goroutine, Publish(x)
  PROVE  EngineInv'
<1> DEFINE i == x[1]
           p == em[x].pos
<1>1. /\ em[x].at = "appended" /\ published' = Append(published, p) /\ Leave(x)
      /\ em' = [em EXCEPT ![x] = Idle] /\ Idle.at = "idle" /\ Idle \in Emission
      /\ UNCHANGED inv /\ UNCHANGED admitted /\ UNCHANGED lease
      /\ UNCHANGED record /\ UNCHANGED stops /\ UNCHANGED timedOut /\ UNCHANGED hand
  BY DEF Publish, Leave, Idle, Emission, Kind
<1>2. /\ i \in Invocation /\ inv[i] \in InvocationType
      /\ Stands(i, inv[i], em[Main(i)], em[Role(i)])
      /\ x = Main(i) => Records(inv[i], em[x].kind)
      /\ x = Role(i) => em[x].kind = "status"
      /\ x = Main(i) \/ x = Role(i)
      /\ Main(i) \in Goroutine /\ Role(i) \in Goroutine /\ Main(i) # Role(i)
      /\ inv[i].phase \in Active /\ inv[i].failure # "append"
      /\ lease = i /\ p = Len(record) /\ record # <<>>
      /\ record[p] = [by |-> i, kind |-> em[x].kind]
      /\ inv' = [inv EXCEPT ![i] = inv[i]]
  BY <1>1, Sender, Goroutines DEF Within, EngineInv, Types, InvocationType
<1>3. em'[x] = Idle /\ \A g \in Goroutine \ {x} : em'[g] = em[g]
  BY <1>1 DEF EngineInv, Types
<1>4. /\ Len(record) \in Nat /\ DOMAIN record = 1..Len(record)
      /\ Len(published) \in Nat /\ DOMAIN published = 1..Len(published)
      /\ \A n \in DOMAIN published : published[n] \in 1..Len(record)
      /\ p \in DOMAIN record
  <2>1. /\ Len(record) \in Nat /\ DOMAIN record = 1..Len(record)
        /\ Len(published) \in Nat /\ DOMAIN published = 1..Len(published)
        /\ \A n \in DOMAIN published : published[n] \in 1..Len(record)
    BY Recorded
  <2>2. Len(record) # 0
    BY <1>2, EmptySeq DEF EngineInv, Types
  <2> QED  BY <2>1, <2>2, <1>2
<1>5. /\ published' \in Seq(DOMAIN record')
      /\ DOMAIN published' = DOMAIN published \cup {Len(published) + 1}
      /\ published'[Len(published) + 1] = p
      /\ \A n \in DOMAIN published : published'[n] = published[n]
  <2> DEFINE D == DOMAIN record
  <2>1. published \in Seq(D) /\ p \in D
    BY <1>4 DEF EngineInv, Types
  <2> HIDE DEF D, p
  <2>2. /\ published' \in Seq(D)
        /\ DOMAIN published' = DOMAIN published \cup {Len(published) + 1}
        /\ published'[Len(published) + 1] = p
        /\ \A n \in DOMAIN published : published'[n] = published[n]
    BY <1>1, <1>4, <2>1
  <2> QED  BY <1>1, <2>2 DEF D
<1>6. \A g \in Goroutine \ {x} : em[g].at # "appended"
  BY <1>1, <1>2, OneAppended DEF Within
<1> HIDE DEF p
<1>7. Gated'
  BY <1>1, LeavesGate DEF Within
<1>8. \A j \in Invocation : Endings(j)' = Endings(j)
  BY <1>1 DEF Endings
<1>9. ASSUME NEW j \in Invocation PROVE Stands(j, inv[j], em[Main(j)], em[Role(j)])'
  <2>1. Stands(j, inv[j], em[Main(j)], em[Role(j)]) /\ Main(j) \in Goroutine /\ Role(j) \in Goroutine
        /\ Main(j) # Role(j) /\ (j # i => Main(j) # x /\ Role(j) # x)
    BY Goroutines DEF EngineInv
  <2>2. /\ em'[Main(j)] = IF x = Main(j) THEN Idle ELSE em[Main(j)]
        /\ em'[Role(j)] = IF x = Role(j) THEN Idle ELSE em[Role(j)]
    BY <1>3, <2>1
  <2>3. Admitted(j, inv[j])'
    BY <1>1, <2>1 DEF Stands, Admitted
  <2>4. Emits(j, inv[j], em[Main(j)], em[Role(j)])'
    <3>1. em'[Main(j)].at # "idle" => Records(inv[j], em'[Main(j)].kind)
      BY <1>1, <2>1, <2>2 DEF Stands, Emits
    <3>2. em'[Role(j)].at # "idle" => em'[Role(j)].kind = "status" /\ inv[j].phase \notin Early
      BY <1>1, <2>1, <2>2 DEF Stands, Emits
    <3>3. em'[Main(j)].at \in Within \/ em'[Role(j)].at \in Within
            => inv[j].phase \in Active /\ inv[j].failure # "append"
      BY <1>1, <2>1, <2>2 DEF Stands, Emits, Within
    <3>4. em'[Main(j)].at # "appended" /\ em'[Role(j)].at # "appended"
      BY <1>1, <1>6, <2>1, <2>2
    <3> QED  BY <1>1, <3>1, <3>2, <3>3, <3>4 DEF Emits
  <2>5. (Owing(inv[j], em[Main(j)]) => ~Over)'
    <3>1. Owing(inv[j], em'[Main(j)]) => Owing(inv[j], em[Main(j)])
      BY <1>1, <2>2 DEF Owing, Before
    <3> QED  BY <1>1, <2>1, <3>1 DEF Stands, Owing, Over
  <2>6. Accounts(j, inv[j], em[Main(j)])'
    <3>1. em'[Main(j)].at \in Before => em[Main(j)].at \in Before
      BY <1>1, <2>2 DEF Before
    <3>2. ASSUME inv[j].phase \in {"closing", "ending", "returned"}, inv[j].failure = "no",
                 em'[Main(j)].at = "idle"
          PROVE  \E n \in DOMAIN published' : published'[n] \in Endings(j)
      <4>1. CASE em[Main(j)].at = "idle"
        <5>1. PICK n \in DOMAIN published : published[n] \in Endings(j)
          BY <2>1, <3>2, <4>1 DEF Stands, Accounts
        <5> QED  BY <5>1, <1>5
      <4>2. CASE em[Main(j)].at # "idle"
        <5>1. x = Main(j) /\ j = i
          BY <2>1, <2>2, <3>2, <4>2
        <5>2. em[x].kind = inv[i].word
          BY <5>1, <3>2, <1>2 DEF Records
        <5>3. p \in Endings(i)
          BY <5>2, <1>2, <1>4, InvocationIs DEF Endings
        <5> QED  BY <5>1, <5>3, <1>5
      <4> QED  BY <4>1, <4>2
    <3> QED  BY <1>1, <1>8, <2>1, <3>1, <3>2 DEF Stands, Accounts
  <2> QED  BY <2>3, <2>4, <2>5, <2>6 DEF Stands
<1>10. First'
  <2>1. em'[Main(Run)].at \in Before => em[Main(Run)].at \in Before
    BY <1>1, <1>3, Goroutines DEF EngineAssumption, Before
  <2> QED  BY <1>1, <2>1 DEF EngineInv, First
<1>11. InOrder'
  <2>1. \A n \in DOMAIN published : published[n] < p
    BY <1>1, <1>2 DEF EngineInv, InOrder
  <2>2. \A n, l \in DOMAIN published' : n < l => published'[n] < published'[l]
    <3>1. SUFFICES ASSUME NEW n \in DOMAIN published', NEW l \in DOMAIN published', n < l
                   PROVE  published'[n] < published'[l]
      OBVIOUS
    <3>2. n \in DOMAIN published
      BY <3>1, <1>4, <1>5
    <3>3. CASE l \in DOMAIN published
      BY <3>1, <3>2, <3>3, <1>5 DEF EngineInv, InOrder
    <3>4. CASE l = Len(published) + 1
      BY <3>2, <3>4, <2>1, <1>5
    <3> QED  BY <3>3, <3>4, <1>5
  <2>3. \A g \in Goroutine : em'[g].at # "appended"
    BY <1>1, <1>3, <1>6
  <2> QED  BY <2>2, <2>3 DEF InOrder
<1>12. Delivered'
  <2>1. ASSUME NEW n \in DOMAIN record
        PROVE  (\E l \in DOMAIN published' : published'[l] = n) \/ inv[record[n].by].failure # "no"
    <3>1. CASE \E l \in DOMAIN published : published[l] = n
      BY <3>1, <1>5
    <3>2. CASE \E g \in Goroutine : em[g].at = "appended" /\ em[g].pos = n
      BY <3>2, <1>5, <1>6 DEF p
    <3> QED  BY <3>1, <3>2 DEF EngineInv, Delivered
  <2> QED  BY <1>1, <2>1 DEF Delivered
<1>13. OverIsOver'
  BY <1>1 DEF EngineInv, OverIsOver
<1>14. Types'
  BY <1>1, <1>5 DEF EngineInv, Types
<1> QED  BY <1>7, <1>9, <1>10, <1>11, <1>12, <1>13, <1>14 DEF EngineInv

----------------------------------------------------------------------------
LEMMA EngineInvKept == ASSUME EngineAssumption, EngineInv, [Next]_vars PROVE EngineInv'
<1>1. CASE Submit \/ Open \/ Answer
  BY <1>1, SubmitStep, OpenStep, AnswerSteps
<1>2. ASSUME NEW i \in Invocation,
             \/ Resume(i) \/ Proceed(i) \/ Fail(i) \/ Finish(i) \/ ClearStop(i)
             \/ Report(i) \/ Chatter(i) \/ Ask(i) \/ LookUp(i) \/ Stop(i) \/ Expire(i) \/ TimeOut(i)
      PROVE  EngineInv'
  <2>1. CASE Proceed(i)
    <3>1. CASE TakeLease(i)
      BY <3>1, TakeLeaseStep
    <3>2. CASE Refuse(i)
      BY <3>2, RefuseStep
    <3>3. CASE Rooted(i) \/ Bound(i) \/ Closed(i) \/ Decided(i)
      BY <3>3, QuietSteps DEF Bound
    <3>4. CASE Settled(i) \/ Choose(i)
      BY <3>4, SpokenSteps
    <3>5. CASE End(i)
      BY <3>5, EndStep
    <3>6. CASE Withdraw(i)
      <4>1. inv[i].lane \in {"work", "question"}
        BY InvocationIs DEF EngineInv, Types
      <4> QED  BY <3>6, <4>1, QuietSteps, EndingSteps
    <3>7. CASE Declined(i)
      BY <3>7, EndingSteps
    <3> QED  BY <2>1, <3>1, <3>2, <3>3, <3>4, <3>5, <3>6, <3>7 DEF Proceed
  <2>2. CASE Resume(i)
    BY <2>2, ResumeStep
  <2>3. CASE Fail(i) \/ Finish(i)
    BY <2>3, EndingSteps
  <2>4. CASE ClearStop(i) \/ LookUp(i)
    BY <2>4, AnswerSteps
  <2>5. CASE Report(i) \/ Ask(i)
    BY <2>5, SpokenSteps
  <2>6. CASE Chatter(i)
    BY <2>6, ChatterStep
  <2>7. CASE Stop(i) \/ Expire(i) \/ TimeOut(i)
    BY <2>7, OutsideSteps
  <2> QED  BY <1>2, <2>1, <2>2, <2>3, <2>4, <2>5, <2>6, <2>7
<1>3. ASSUME NEW x \in Goroutine, Emit(x) PROVE EngineInv'
  <2>1. CASE Enter(x)
    BY <2>1, EnterStep
  <2>2. CASE GiveUp(x) \/ NoMaterial(x)
    BY <2>2, UnrecordedSteps
  <2>3. CASE AppendEvent(x)
    BY <2>3, AppendStep
  <2>4. CASE FailAppend(x)
    BY <2>4, FailAppendStep
  <2>5. CASE Publish(x)
    BY <2>5, PublishStep
  <2>6. CASE Unsettled(x)
    BY <2>6, UnrecordedSteps, UnsettledStep
  <2> QED  BY <1>3, <2>1, <2>2, <2>3, <2>4, <2>5, <2>6 DEF Emit
<1>4. CASE UNCHANGED vars
  BY <1>4 DEF vars, EngineInv, Types, Gated, Stands, Admitted, Emits, Owing, Accounts, Endings, Over,
              First, InOrder, Delivered, OverIsOver
<1> QED  BY <1>1, <1>2, <1>3, <1>4 DEF Next

\* The safety part of the specification: none of what follows needs fairness.
Steps == Init /\ [][Next]_vars

LEMMA EngineInvHolds == ASSUME EngineAssumption PROVE Steps => []EngineInv
<1>1. Init => EngineInv
  BY EngineInvInit
<1>2. EngineInv /\ [Next]_vars => EngineInv'
  BY EngineInvKept
<1> QED  BY <1>1, <1>2, PTL DEF Steps

\* The types; and whoever is past the gate of its engine, and nobody else,
\* holds it: no two emissions of a task are between gate and bus at once.
THEOREM EngineTypeCorrect == ASSUME EngineAssumption PROVE Steps => []TypeOK
<1>1. EngineInv => TypeOK
  BY DEF EngineInv, Types, Gated, TypeOK, Emission, Within
<1> QED  BY <1>1, EngineInvHolds, PTL

\* The buses deliver the record in its order, each event once; and what is
\* recorded is delivered, but where its append was left unknown.
THEOREM PublicationIsInOrder == ASSUME EngineAssumption PROVE Steps => []PublishedInOrder
<1>1. EngineInv => PublishedInOrder
  <2> SUFFICES ASSUME EngineInv PROVE PublishedInOrder
    OBVIOUS
  <2>1. ASSUME NEW n \in 1..Len(published) - 1 PROVE published[n] < published[n + 1]
    <3>1. n \in DOMAIN published /\ n + 1 \in DOMAIN published /\ n < n + 1
      BY Recorded
    <3> QED  BY <3>1 DEF EngineInv, InOrder
  <2> QED  BY <2>1 DEF EngineInv, Delivered, PublishedInOrder
<1> QED  BY <1>1, EngineInvHolds, PTL

\* No invocation ends twice, and whichever returns unhalted has published its
\* ending.
THEOREM EveryEndingIsAccounted == ASSUME EngineAssumption PROVE Steps => []AccountedOnce
<1>1. EngineInv => AccountedOnce
  <2> SUFFICES ASSUME EngineInv, NEW i \in Invocation
               PROVE  /\ Cardinality(Endings(i)) <= 1
                      /\ inv[i].phase = "returned" /\ inv[i].failure = "no" =>
                           \E n \in Endings(i), k \in DOMAIN published : published[k] = n
    BY DEF AccountedOnce
  <2>1. Accounts(i, inv[i], em[Main(i)]) /\ Emits(i, inv[i], em[Main(i)], em[Role(i)])
    BY DEF EngineInv, Stands
  <2>2. Cardinality(Endings(i)) <= 1
    <3>1. CASE Endings(i) = {}
      BY <3>1, FS_EmptySet
    <3>2. ASSUME NEW n \in Endings(i) PROVE Cardinality(Endings(i)) <= 1
      <4>1. Endings(i) = {n}
        BY <2>1 DEF Accounts
      <4>2. Cardinality({n}) = 1
        BY FS_Singleton
      <4> QED  BY <4>1, <4>2
    <3> QED  BY <3>1, <3>2
  <2>3. inv[i].phase = "returned" => em[Main(i)].at = "idle"
    BY <2>1 DEF Emits, Records
  <2> QED  BY <2>1, <2>2, <2>3 DEF Accounts
<1> QED  BY <1>1, EngineInvHolds, PTL

\* Once the task's own terminal is recorded, no resume of it, however old the
\* view it started from, asks, answers or completes it again.
THEOREM TheTaskIsOverForGood == ASSUME EngineAssumption PROVE Steps => []OverIsOver
<1>1. EngineInv => OverIsOver
  BY DEF EngineInv
<1> QED  BY <1>1, EngineInvHolds, PTL

\* An answer is read by the question it was given to, and never by the next.
THEOREM AnswersReachTheirQuestion == ASSUME EngineAssumption PROVE Steps => []AnswersItsQuestion
<1>1. EngineInv => AnswersItsQuestion
  BY DEF EngineInv, Stands, Admitted, AnswersItsQuestion
<1> QED  BY <1>1, EngineInvHolds, PTL

\* Nothing is recorded for an invocation but while it is the one admitted and
\* holds the lease, and nothing is recorded or published once it ended or an
\* append of it failed.
THEOREM NothingIsLate == ASSUME EngineAssumption PROVE Steps => NothingPastTheEnd
<1>1. ASSUME EngineInv, [Next]_vars PROVE [StillItsOwn]_vars
  <2>1. Len(record) \in Nat /\ Len(published) \in Nat
    BY <1>1, Recorded
  <2>2. ASSUME NEW i \in Invocation, Recording(i)
        PROVE  lease = i /\ admitted[inv[i].home] = i /\ ~inv[i].ended /\ inv[i].failure # "append"
    <3>1. record' # record
      BY <2>1, <2>2 DEF Recording
    <3>2. \E x \in Goroutine : AppendEvent(x) \/ FailAppend(x)
      BY <1>1, <3>1 DEF Next, vars, Submit, Open, Answer, Resume, Proceed, TakeLease, Refuse, Rooted,
           Bound, Settled, Closed, End, Withdraw, Choose, Decided, Declined, Fail, Finish, ClearStop,
           Report, Chatter, Ask, LookUp, Stop, Expire, TimeOut, Kept, Emit, Enter, GiveUp, Publish,
           NoMaterial, Unsettled
    <3>3. PICK x \in Goroutine : AppendEvent(x) \/ FailAppend(x)
      BY <3>2
    <3>4. /\ em[x].at = "inside" /\ lease = x[1] /\ x[1] \in Invocation
          /\ record' = Append(record, [by |-> x[1], kind |-> em[x].kind])
      BY <3>1, <3>3, Goroutines DEF AppendEvent, FailAppend, Entry
    <3>5. /\ inv[x[1]].phase \in Active /\ inv[x[1]].failure # "append" /\ em[x].kind \in Kind
          /\ Stands(x[1], inv[x[1]], em[Main(x[1])], em[Role(x[1])])
      BY <1>1, <3>4, Sender DEF Within, Emission
    <3>6. record'[Len(record')] = [by |-> x[1], kind |-> em[x].kind]
      BY <1>1, <3>4, <3>5, Grows
    <3>7. i = x[1]
      BY <2>2, <3>6 DEF Recording
    <3> QED  BY <3>4, <3>5, <3>7 DEF Stands, Admitted, Active
  <2>3. ASSUME NEW i \in Invocation, Publishing(i)
        PROVE  ~inv[i].ended /\ inv[i].failure # "append"
    <3>1. published' # published
      BY <2>1, <2>3 DEF Publishing
    <3>2. \E x \in Goroutine : Publish(x)
      BY <1>1, <3>1 DEF Next, vars, Submit, Open, Answer, Resume, Proceed, TakeLease, Refuse, Rooted,
           Bound, Settled, Closed, End, Withdraw, Choose, Decided, Declined, Fail, Finish, ClearStop,
           Report, Chatter, Ask, LookUp, Stop, Expire, TimeOut, Kept, Emit, Enter, GiveUp, AppendEvent,
           FailAppend, NoMaterial, Unsettled
    <3>3. PICK x \in Goroutine : Publish(x)
      BY <3>2
    <3>4. em[x].at = "appended" /\ published' = Append(published, em[x].pos)
      BY <3>3 DEF Publish
    <3>5. /\ inv[x[1]].phase \in Active /\ inv[x[1]].failure # "append"
          /\ Stands(x[1], inv[x[1]], em[Main(x[1])], em[Role(x[1])])
          /\ em[x].pos = Len(record) /\ record[Len(record)] = [by |-> x[1], kind |-> em[x].kind]
      BY <1>1, <3>4, Sender DEF Within
    <3>6. published'[Len(published')] = em[x].pos
      BY <1>1, <2>1, <3>4 DEF EngineInv, Types
    <3>7. i = x[1]
      BY <2>3, <3>5, <3>6 DEF Publishing
    <3> QED  BY <3>5, <3>7 DEF Stands, Admitted, Active
  <2> QED  BY <2>2, <2>3 DEF StillItsOwn
<1> QED  BY <1>1, EngineInvHolds, PTL DEF Steps, NothingPastTheEnd
=============================================================================
