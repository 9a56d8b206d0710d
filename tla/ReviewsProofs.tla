----------------------------- MODULE ReviewsProofs -----------------------------
(***************************************************************************)
(* Theorems of a run's reviews, for any findings, implementors, cycles and *)
(* allowance: the rounds by themselves, then the composition that          *)
(* MCReviews checks, with the theorems of the exchange (ExchangeProofs).   *)
(***************************************************************************)
EXTENDS MCReviews, TLAPS

-----------------------------------------------------------------------------
(* The rounds of a run.                                                    *)

Place  == Rounds!Early \cup {"select", "failed", "review", "judge", "over"}
Route  == {"none", "ordinary_error", "error_handoff", "provider_rebound",
           "dispute_escalation", "incomplete_retry", "diagnosis", "progress"}
Status == {"none", "live", "blocked", "exhausted", "retired"}

Obligation == [bound : BOOLEAN, cycle : Nat, retained : SUBSET Rounds!Finding,
               operations : BOOLEAN, attempts : Nat, route : Route,
               continuing : BOOLEAN, committed : [status : Status, attempts : Nat]]

RoundsTyped == /\ at \in Place /\ position \in Nat /\ cycle \in Nat
               /\ tree \in SUBSET Code
               /\ DOMAIN proven = SUBSET Code
               /\ open.findings \in SUBSET Rounds!Finding
               /\ completion \in Obligation

\* An obligation that is served again has attempts left, and those it counts are
\* in its newest checkpoint.
Standing(c) ==
  Rounds!IsOpen(c) => /\ c.attempts < Allowance
                      /\ c.attempts > 0 => c.committed \in {Rounds!Committed(status, c.attempts) :
                                                               status \in {"live", "blocked"}}

\* The obligation is of the open review, and an invocation under a review serves
\* one that is open.
Obliged == /\ completion.bound => open.findings # {}
           /\ at = "ask" /\ open.findings # {} => Rounds!Served(completion) /\ Rounds!IsOpen(completion)
           /\ completion.bound /\ at # "over" => Standing(completion)

\* A candidate that was owed its review comes before any finding.
First == /\ awaiting => /\ open.findings = {} /\ at \in {"select", "cycle", "over"}
                        /\ at = "cycle" => cycle = 1
         /\ at = "captured" => open.findings = {}

\* A run reported incomplete has ended, its exhausted checkpoint committed.
Over == outcome = "incomplete" => /\ at = "over"
                                  /\ completion.committed = Rounds!Committed("exhausted", Allowance)

RoundsInv == RoundsTyped /\ Obliged /\ First /\ Over /\ Rounds!ReviewedIsAnswered

-----------------------------------------------------------------------------
\* What becomes of an obligation.

LEMMA FreshIs == ASSUME NEW n \in Nat
                 PROVE  /\ Rounds!Completion(n) \in Obligation /\ Rounds!Unbound \in Obligation
                        /\ Rounds!Completion(n).bound /\ Rounds!Completion(n).cycle = n
                        /\ Rounds!Completion(n).attempts = 0 /\ Rounds!IsOpen(Rounds!Completion(n))
                        /\ ~Rounds!Unbound.bound
<1>1. /\ \A k \in Nat : Rounds!Completion(k) \in Obligation
      /\ Rounds!Completion(n).bound /\ Rounds!Completion(n).cycle = n
      /\ Rounds!Completion(n).attempts = 0 /\ Rounds!IsOpen(Rounds!Completion(n))
  BY DEF Rounds!Completion, Obligation, Rounds!Committed, Route, Status, Rounds!IsOpen
<1>2. Rounds!Completion(0) \in Obligation
  BY <1>1
<1>3. Rounds!Unbound \in Obligation /\ ~Rounds!Unbound.bound
  BY <1>2 DEF Rounds!Unbound, Obligation
<1> QED  BY <1>1, <1>3

LEMMA CountIs ==
  ASSUME Rounds!RoundsAssumption, NEW c \in Obligation, NEW route \in Route \ {"none"}
  PROVE  /\ Rounds!Count(c, route) \in Obligation
         /\ Rounds!Count(c, route).bound = c.bound /\ Rounds!Count(c, route).cycle = c.cycle
         /\ Rounds!Count(c, route).attempts = c.attempts + 1
         /\ Rounds!Count(c, route).route = route
         /\ Rounds!Count(c, route).continuing = (c.attempts + 1 < Allowance)
<1> DEFINE more == c.attempts + 1 < Allowance
<1>1. more \in BOOLEAN /\ c.attempts + 1 \in Nat
  BY DEF Rounds!RoundsAssumption, Obligation
<1>2. Rounds!Count(c, route) = [c EXCEPT !.route = route, !.attempts = @ + 1, !.continuing = more]
  BY DEF Rounds!Count
<1> HIDE DEF more
<1>3. /\ Rounds!Count(c, route) \in Obligation
      /\ Rounds!Count(c, route).bound = c.bound /\ Rounds!Count(c, route).cycle = c.cycle
      /\ Rounds!Count(c, route).attempts = c.attempts + 1
      /\ Rounds!Count(c, route).route = route
      /\ Rounds!Count(c, route).continuing = more
  BY <1>1, <1>2 DEF Obligation
<1> QED  BY <1>3 DEF more

LEMMA KeepIs ==
  ASSUME NEW c \in Obligation, NEW route \in Route
  PROVE  /\ Rounds!Keep(c, route) \in Obligation
         /\ Rounds!Keep(c, route).bound = c.bound /\ Rounds!Keep(c, route).cycle = c.cycle
         /\ Rounds!Keep(c, route).attempts = c.attempts
         /\ Rounds!Keep(c, route).committed = c.committed
         /\ Rounds!IsOpen(Rounds!Keep(c, route))
BY DEF Rounds!Keep, Obligation, Rounds!IsOpen

LEMMA CloseIs ==
  ASSUME NEW c \in Obligation, NEW route \in Route \ {"none"}
  PROVE  /\ Rounds!Close(c, route) \in Obligation
         /\ Rounds!Close(c, route).bound = c.bound
         /\ Rounds!Close(c, route).committed = c.committed
         /\ ~Rounds!IsOpen(Rounds!Close(c, route))
BY DEF Rounds!Close, Obligation, Rounds!IsOpen

LEMMA CommittedIs ==
  ASSUME NEW c \in Obligation, NEW status \in Status
  PROVE  LET d == [c EXCEPT !.committed = Rounds!Committed(status, c.attempts)]
         IN /\ d \in Obligation
            /\ d.bound = c.bound /\ d.cycle = c.cycle /\ d.attempts = c.attempts
            /\ d.committed = Rounds!Committed(status, c.attempts)
            /\ Rounds!IsOpen(d) = Rounds!IsOpen(c)
BY DEF Obligation, Rounds!Committed, Rounds!IsOpen

\* What an invocation retains changes nothing that binds or counts.
Alike(c, d) == /\ c \in Obligation
               /\ c.bound = d.bound /\ c.cycle = d.cycle /\ c.attempts = d.attempts
               /\ c.committed = d.committed /\ Rounds!IsOpen(c) = Rounds!IsOpen(d)
               /\ c.route = d.route /\ c.continuing = d.continuing

LEMMA UnsettledIs ==
  ASSUME RoundsTyped, NEW r \in Rounds!Replies, NEW t
  PROVE  Alike(Rounds!Unsettled(r, t), completion)
<1> DEFINE kept == Rounds!Unsettled(r, t).retained
<1>1. r.operations \in BOOLEAN
  BY DEF Rounds!Replies
<1>2. kept \subseteq Rounds!Finding
  BY DEF Rounds!Unsettled, RoundsTyped, Obligation, Rounds!Finding
<1>3. Rounds!Unsettled(r, t) = [completion EXCEPT !.retained = kept, !.operations = r.operations]
  BY DEF Rounds!Unsettled, RoundsTyped, Obligation
<1> HIDE DEF kept
<1> QED  BY <1>1, <1>2, <1>3 DEF RoundsTyped, Obligation, Alike, Rounds!IsOpen

LEMMA AccountedIs ==
  ASSUME RoundsTyped, NEW r \in Rounds!Replies, NEW t, NEW proofs
  PROVE  Alike(Rounds!Accounted(r, t, proofs), completion)
<1> DEFINE kept == open.findings \ Rounds!Open(r, t, proofs)
<1>1. r.operations \in BOOLEAN
  BY DEF Rounds!Replies
<1>2. kept \subseteq Rounds!Finding
  BY DEF RoundsTyped
<1>3. Rounds!Accounted(r, t, proofs) =
        IF ~r.returned THEN completion
        ELSE [completion EXCEPT !.retained = kept, !.operations = r.operations]
  BY DEF Rounds!Accounted
<1> HIDE DEF kept
<1> QED  BY <1>1, <1>2, <1>3 DEF RoundsTyped, Obligation, Alike, Rounds!IsOpen

\* A retry has its attempt in the record, or the run is over.
LEMMA RetryOf ==
  ASSUME Rounds!RoundsAssumption, NEW n \in Obligation, n.attempts \in 1..Allowance,
         n.route # "none", n.continuing = (n.attempts < Allowance), Rounds!Retry(n)
  PROVE  /\ completion' \in Obligation
         /\ completion'.bound = n.bound /\ completion'.cycle = n.cycle
         /\ completion'.attempts = n.attempts
         /\ \/ /\ at' = "cycle" /\ outcome' = outcome
               /\ Rounds!IsOpen(completion') /\ Standing(completion')
            \/ /\ at' = "over" /\ outcome' = "incomplete"
               /\ completion'.committed = Rounds!Committed("exhausted", Allowance)
            \/ at' = "over" /\ outcome' = "unrecorded"
<1> USE DEF Rounds!RoundsAssumption
<1>1. CASE Rounds!Exhausted(n)
  <2>1. n.attempts = Allowance
    BY <1>1 DEF Rounds!Exhausted
  <2>2. Rounds!Checkpoint(n, "exhausted", Rounds!End("incomplete"))
    BY <1>1 DEF Rounds!Retry
  <2>3. CASE completion' = n /\ Rounds!End("unrecorded")
    BY <2>3 DEF Rounds!End
  <2>4. CASE completion' = [n EXCEPT !.committed = Rounds!Committed("exhausted", n.attempts)]
             /\ Rounds!End("incomplete")
    <3>1. /\ completion' \in Obligation
          /\ completion'.bound = n.bound /\ completion'.cycle = n.cycle
          /\ completion'.attempts = n.attempts
          /\ completion'.committed = Rounds!Committed("exhausted", n.attempts)
      BY <2>4, CommittedIs DEF Status
    <3> QED  BY <2>1, <2>4, <3>1 DEF Rounds!End
  <2> QED  BY <2>2, <2>3, <2>4 DEF Rounds!Checkpoint
<1>2. CASE ~Rounds!Exhausted(n)
  <2>1. Rounds!IsOpen(n) /\ n.attempts < Allowance
    <3>1. n.attempts \in Nat /\ Allowance \in Nat /\ ~(n.attempts >= Allowance)
      BY <1>2 DEF Rounds!Exhausted
    <3>2. n.attempts < Allowance
      BY <3>1
    <3> QED  BY <3>2 DEF Rounds!IsOpen
  <2>2. Rounds!Checkpoint(n, "live", Rounds!GoTo("cycle"))
    BY <1>2 DEF Rounds!Retry
  <2>3. CASE completion' = n /\ Rounds!End("unrecorded")
    BY <2>3 DEF Rounds!End
  <2>4. CASE completion' = [n EXCEPT !.committed = Rounds!Committed("live", n.attempts)]
             /\ Rounds!GoTo("cycle")
    BY <2>1, <2>4, CommittedIs DEF Rounds!GoTo, Status, Standing
  <2> QED  BY <2>2, <2>3, <2>4 DEF Rounds!Checkpoint
<1> QED  BY <1>1, <1>2

LEMMA RetryDoes ==
  ASSUME Rounds!RoundsAssumption, NEW c \in Obligation, Rounds!IsOpen(c), Standing(c),
         NEW route \in Route \ {"none"}, Rounds!Retry(Rounds!Count(c, route))
  PROVE  /\ completion' \in Obligation
         /\ completion'.bound = c.bound /\ completion'.cycle = c.cycle
         /\ completion'.attempts = c.attempts + 1
         /\ \/ /\ at' = "cycle" /\ outcome' = outcome
               /\ Rounds!IsOpen(completion') /\ Standing(completion')
            \/ /\ at' = "over" /\ outcome' = "incomplete"
               /\ completion'.committed = Rounds!Committed("exhausted", Allowance)
            \/ at' = "over" /\ outcome' = "unrecorded"
<1>1. c.attempts \in Nat /\ c.attempts < Allowance /\ Allowance \in Nat
  BY DEF Standing, Obligation, Rounds!RoundsAssumption
<1>2. /\ Rounds!Count(c, route) \in Obligation
      /\ Rounds!Count(c, route).bound = c.bound /\ Rounds!Count(c, route).cycle = c.cycle
      /\ Rounds!Count(c, route).attempts = c.attempts + 1
      /\ Rounds!Count(c, route).route = route
      /\ Rounds!Count(c, route).continuing = (c.attempts + 1 < Allowance)
  BY CountIs
<1>3. c.attempts + 1 \in 1..Allowance
  BY <1>1
<1> QED  BY <1>2, <1>3, RetryOf

-----------------------------------------------------------------------------
(* Every step of a run.                                                    *)

LEMMA RoundsInvInit == Rounds!RoundsAssumption /\ Rounds!Init => RoundsInv
<1> SUFFICES ASSUME Rounds!RoundsAssumption, Rounds!Init PROVE RoundsInv
  OBVIOUS
<1>1. completion \in Obligation /\ ~completion.bound
  BY FreshIs DEF Rounds!Init
<1>2. open.findings = {}
  BY DEF Rounds!Init, Rounds!NoReview
<1> QED  BY <1>1, <1>2 DEF Rounds!Init, RoundsInv, RoundsTyped, Obliged, First, Over,
                           Rounds!ReviewedIsAnswered, Place, Rounds!Early

\* A step that keeps the review, or forgets it with its obligation, and comes to
\* no invocation and no review.
LEMMA GoesOn ==
  ASSUME RoundsInv, at' \in Place \ {"ask", "captured", "review"}, position' \in Nat,
         cycle' \in Nat, tree' \in SUBSET Code, DOMAIN proven' = DOMAIN proven,
         open'.findings \in SUBSET Rounds!Finding, completion' \in Obligation,
         open' = open \/ ~completion'.bound,
         completion'.bound => completion.bound,
         completion'.bound /\ at' # "over" => Standing(completion'),
         awaiting' => awaiting /\ open' = open /\ at' \in {"select", "cycle", "over"},
         awaiting' /\ at' = "cycle" => cycle' = 1,
         outcome' = "incomplete" =>
           at' = "over" /\ completion'.committed = Rounds!Committed("exhausted", Allowance)
  PROVE  RoundsInv'
BY DEF RoundsInv, RoundsTyped, Obliged, First, Over, Rounds!ReviewedIsAnswered, Standing

\* Steps that touch neither the review nor its obligation.
LEMMA Passes ==
  ASSUME RoundsInv, at \notin {"over"}, outcome' # "incomplete",
         at' \in Place \ {"ask", "captured", "review"}, position' \in Nat,
         cycle' \in Nat, tree' \in SUBSET Code,
         UNCHANGED <<proven, open, completion>>,
         awaiting' => awaiting /\ at' \in {"select", "cycle", "over"},
         awaiting' /\ at' = "cycle" => cycle' = 1
  PROVE  RoundsInv'
BY GoesOn DEF RoundsInv, RoundsTyped, Obliged

LEMMA NotReported == ASSUME RoundsInv, at # "over" PROVE outcome # "incomplete"
BY DEF RoundsInv, Over

LEMMA SelectKeeps ==
  ASSUME RoundsInv, Rounds!Select \/ Rounds!Skip \/ Rounds!NoneRemains \/ Rounds!CyclesSpent PROVE RoundsInv'
<1>1. at # "over" /\ outcome # "incomplete" /\ position \in Nat /\ cycle \in Nat
      /\ tree \in SUBSET Code /\ completion.cycle \in Nat
  BY NotReported DEF Rounds!Select, Rounds!Skip, Rounds!NoneRemains, Rounds!CyclesSpent, RoundsInv, RoundsTyped, Obligation
<1>2. awaiting => ~completion.bound
  BY DEF RoundsInv, First, Obliged
<1>3. CASE Rounds!Select
  BY <1>1, <1>2, <1>3, Passes DEF Rounds!Select, Rounds!GoTo, Place, Rounds!Early
<1>4. CASE Rounds!Skip
  BY <1>1, <1>4, Passes DEF Rounds!Skip, Place, Rounds!Early
<1>5. CASE Rounds!NoneRemains
  BY <1>1, <1>5, Passes DEF Rounds!NoneRemains, Rounds!End, Place, Rounds!Early
<1>6. CASE Rounds!CyclesSpent
  BY <1>1, <1>6, Passes DEF Rounds!CyclesSpent, Rounds!GoTo, Place, Rounds!Early
<1> QED  BY <1>3, <1>4, <1>5, <1>6

LEMMA ServeKeepsRounds == ASSUME Rounds!RoundsAssumption, RoundsInv, Rounds!ReviewFirst \/ Rounds!Serve
                          PROVE  RoundsInv'
<1>1. CASE Rounds!ReviewFirst
  BY <1>1 DEF Rounds!ReviewFirst, Rounds!GoTo, RoundsInv, RoundsTyped, Obliged, First, Over,
              Rounds!ReviewedIsAnswered, Place, Rounds!Early, Standing
<1>2. CASE Rounds!Serve
  <2>1. /\ at = "cycle" /\ at' = "ask" /\ outcome # "incomplete" /\ outcome' = outcome
        /\ ~awaiting /\ completion \in Obligation /\ cycle \in Nat
        /\ UNCHANGED <<position, cycle, awaiting, tree, proven, open>>
    BY <1>2, NotReported DEF Rounds!Serve, Rounds!GoTo, RoundsInv, RoundsTyped, First
  <2>2. CASE open.findings = {}
    BY <1>2, <2>1, <2>2 DEF Rounds!Serve, RoundsInv, RoundsTyped, Obliged, First, Over,
                            Rounds!ReviewedIsAnswered, Place, Rounds!Early, Standing
  <2>3. CASE open.findings # {}
    <3>1. completion' = Rounds!Established
      BY <1>2, <2>3 DEF Rounds!Serve
    <3>2. /\ completion' \in Obligation /\ completion'.bound /\ completion'.cycle = cycle
          /\ Rounds!IsOpen(completion') /\ Standing(completion')
      <4>1. CASE completion.bound /\ completion.cycle = cycle /\ Rounds!IsOpen(completion)
        BY <2>1, <3>1, <4>1 DEF Rounds!Established, RoundsInv, Obliged
      <4>2. CASE ~(completion.bound /\ completion.cycle = cycle /\ Rounds!IsOpen(completion))
        BY <2>1, <3>1, <4>2, FreshIs DEF Rounds!Established, Standing, Rounds!RoundsAssumption
      <4> QED  BY <4>1, <4>2
    <3> QED  BY <2>1, <2>3, <3>2 DEF RoundsInv, RoundsTyped, Obliged, First, Over,
                                     Rounds!ReviewedIsAnswered, Place, Rounds!Early, Rounds!Served
  <2> QED  BY <2>2, <2>3
<1> QED  BY <1>1, <1>2

\* What is asked under no obligation binds none.
LEMMA AskedIs ==
  ASSUME RoundsInv, at = "ask"
  PROVE  /\ completion \in Obligation /\ ~awaiting /\ outcome # "incomplete"
         /\ completion.bound => Rounds!Served(completion) /\ Rounds!IsOpen(completion) /\ Standing(completion)
         /\ open.findings # {} => completion.bound
BY DEF RoundsInv, RoundsTyped, Obliged, First, Over, Rounds!Served

LEMMA RebindDoes ==
  ASSUME RoundsInv, at = "ask", NEW c, Alike(c, completion),
         NEW p \in {"failed", "select"}, Rounds!Rebind(c, Rounds!GoTo(p))
  PROVE  /\ completion' \in Obligation /\ completion'.bound = completion.bound
         /\ completion'.bound /\ at' # "over" => Standing(completion')
         /\ \/ at' = p /\ outcome' = outcome
            \/ at' = "over" /\ outcome' = "unrecorded"
<1> DEFINE k == Rounds!Keep(c, "provider_rebound")
<1>1. c \in Obligation /\ c.attempts = completion.attempts
  BY DEF Alike
<1>2. /\ k \in Obligation /\ k.bound = c.bound /\ k.attempts = c.attempts
      /\ Rounds!IsOpen(k)
  BY <1>1, KeepIs DEF Route
<1>3. completion.bound => c.attempts < Allowance
  BY <1>1, AskedIs DEF Standing
<1> HIDE DEF k
<1>4. CASE Rounds!Served(c)
  <2>1. Rounds!Checkpoint(k, "blocked", Rounds!GoTo(p))
    BY <1>4 DEF Rounds!Rebind, k
  <2>2. CASE completion' = k /\ Rounds!End("unrecorded")
    BY <1>2, <2>2 DEF Alike, Rounds!End
  <2>3. CASE completion' = [k EXCEPT !.committed = Rounds!Committed("blocked", k.attempts)] /\ Rounds!GoTo(p)
    <3>1. /\ completion' \in Obligation /\ completion'.bound = k.bound
          /\ completion'.attempts = k.attempts
          /\ completion'.committed = Rounds!Committed("blocked", k.attempts)
      BY <1>2, <2>3, CommittedIs DEF Status
    <3> QED  BY <1>2, <1>3, <1>4, <2>3, <3>1 DEF Alike, Rounds!GoTo, Standing, Rounds!Served
  <2> QED  BY <2>1, <2>2, <2>3 DEF Rounds!Checkpoint
<1>5. CASE ~Rounds!Served(c)
  <2>1. ~completion.bound
    BY <1>5, AskedIs DEF Alike, Rounds!Served
  <2> QED  BY <1>5, <2>1 DEF Rounds!Rebind, Alike, Rounds!GoTo
<1> QED  BY <1>4, <1>5

LEMMA NoRunnerKeeps == ASSUME RoundsInv, Rounds!NoRunner PROVE RoundsInv'
<1>1. at = "ask" /\ Alike(completion, completion)
  BY DEF Rounds!NoRunner, Alike, RoundsInv, RoundsTyped
<1>2. PICK p \in {"failed", "select"} : Rounds!Rebind(completion, Rounds!GoTo(p))
  BY DEF Rounds!NoRunner
<1> QED  BY <1>1, <1>2, RebindDoes, AskedIs, GoesOn
         DEF Rounds!NoRunner, RoundsInv, RoundsTyped, Place, Rounds!Early

LEMMA ErrsKeeps == ASSUME RoundsInv, Rounds!Errs PROVE RoundsInv'
<1>1. at = "ask" /\ UNCHANGED <<position, cycle, awaiting, proven, open>>
  BY DEF Rounds!Errs
<1>2. PICK r \in Rounds!Replies :
        /\ tree' \in SUBSET Code
        /\ LET c == IF r.returned THEN Rounds!Unsettled(r, tree') ELSE completion
           IN \/ Rounds!Rebind(c, Rounds!GoTo("select"))
              \/ /\ completion' = IF Rounds!Served(c) THEN Rounds!Keep(c, "ordinary_error") ELSE c
                 /\ Rounds!GoTo("failed")
  BY DEF Rounds!Errs
<1> DEFINE c == IF r.returned THEN Rounds!Unsettled(r, tree') ELSE completion
<1>3. Alike(c, completion)
  BY UnsettledIs DEF RoundsInv, RoundsTyped, Alike
<1>4. Rounds!Rebind(c, Rounds!GoTo("select"))
        \/ (completion' = (IF Rounds!Served(c) THEN Rounds!Keep(c, "ordinary_error") ELSE c) /\ Rounds!GoTo("failed"))
  BY <1>2
<1> HIDE DEF c
<1>5. CASE Rounds!Rebind(c, Rounds!GoTo("select"))
  BY <1>1, <1>2, <1>3, <1>5, RebindDoes, AskedIs, GoesOn DEF RoundsInv, RoundsTyped, Place, Rounds!Early
<1>6. CASE completion' = (IF Rounds!Served(c) THEN Rounds!Keep(c, "ordinary_error") ELSE c) /\ Rounds!GoTo("failed")
  <2>1. /\ completion' \in Obligation /\ completion'.bound = completion.bound
        /\ completion'.bound => Standing(completion')
    <3>1. CASE Rounds!Served(c)
      <4>1. c \in Obligation /\ completion' = Rounds!Keep(c, "ordinary_error")
        BY <1>3, <1>6, <3>1 DEF Alike
      <4>2. /\ completion' \in Obligation /\ completion'.bound = c.bound
            /\ completion'.attempts = c.attempts /\ completion'.committed = c.committed
        BY <4>1, KeepIs DEF Route
      <4>3. completion.bound => Standing(completion) /\ Rounds!IsOpen(completion)
        BY <1>1, AskedIs
      <4> QED  BY <1>3, <4>2, <4>3 DEF Alike, Standing
    <3>2. CASE ~Rounds!Served(c)
      BY <1>1, <1>3, <1>6, <3>2, AskedIs DEF Alike, Standing, Rounds!Served
    <3> QED  BY <3>1, <3>2
  <2> QED  BY <1>1, <1>2, <1>6, <2>1, AskedIs, GoesOn
           DEF Rounds!GoTo, RoundsInv, RoundsTyped, Place, Rounds!Early
<1> QED  BY <1>4, <1>5, <1>6

LEMMA HandOffKeeps == ASSUME Rounds!RoundsAssumption, RoundsInv, Rounds!HandOff PROVE RoundsInv'
<1>1. /\ at = "failed" /\ ~awaiting /\ outcome # "incomplete" /\ completion \in Obligation
      /\ UNCHANGED <<position, cycle, awaiting, tree, proven, open>>
  BY NotReported DEF Rounds!HandOff, RoundsInv, RoundsTyped, First
<1>2. CASE UNCHANGED completion /\ Rounds!GoTo("select")
  BY <1>1, <1>2, Passes DEF Rounds!GoTo, RoundsInv, RoundsTyped, Place, Rounds!Early
<1> DEFINE counted == Rounds!Count(completion, "error_handoff")
<1>3. CASE /\ completion.bound /\ Rounds!IsOpen(completion)
           /\ completion' = Rounds!Keep(completion, "error_handoff") /\ Rounds!GoTo("select")
  <2>1. /\ completion' \in Obligation /\ completion'.bound /\ Standing(completion')
    BY <1>1, <1>3, KeepIs DEF RoundsInv, Obliged, Standing, Route
  <2> QED  BY <1>1, <1>3, <2>1, GoesOn DEF Rounds!GoTo, RoundsInv, RoundsTyped, Place, Rounds!Early
<1>4. CASE /\ completion.bound /\ Rounds!IsOpen(completion)
           /\ IF Rounds!Exhausted(counted) THEN Rounds!Checkpoint(counted, "exhausted", Rounds!End("incomplete"))
              ELSE Rounds!Checkpoint(counted, "live", Rounds!GoTo("select"))
  <2>1. /\ counted \in Obligation /\ counted.bound
        /\ counted.attempts = completion.attempts + 1
        /\ counted.route # "none" /\ counted.continuing = (counted.attempts < Allowance)
    BY <1>1, <1>4, CountIs DEF Route
  <2>2. completion.attempts \in Nat /\ completion.attempts < Allowance /\ Allowance \in Nat
    BY <1>1, <1>4 DEF RoundsInv, Obliged, Standing, Obligation, Rounds!RoundsAssumption
  <2>3. CASE completion' = counted /\ Rounds!End("unrecorded")
    BY <1>1, <1>4, <2>1, <2>3, GoesOn DEF Rounds!End, RoundsInv, RoundsTyped, Place, Rounds!Early
  <2> HIDE DEF counted
  <2>4. CASE /\ Rounds!Exhausted(counted)
             /\ completion' = [counted EXCEPT !.committed = Rounds!Committed("exhausted", counted.attempts)]
             /\ Rounds!End("incomplete")
    <3>1. counted.attempts = Allowance
      BY <2>1, <2>2, <2>4 DEF Rounds!Exhausted
    <3>2. /\ completion' \in Obligation
          /\ completion'.committed = Rounds!Committed("exhausted", Allowance)
      BY <2>1, <2>4, <3>1, CommittedIs DEF Status
    <3>3. at' = "over" /\ outcome' = "incomplete" /\ completion.bound
      BY <1>4, <2>4 DEF Rounds!End
    <3> QED  BY <1>1, <3>2, <3>3, GoesOn DEF Rounds!End, RoundsInv, RoundsTyped, Place, Rounds!Early
  <2>5. CASE /\ ~Rounds!Exhausted(counted)
             /\ completion' = [counted EXCEPT !.committed = Rounds!Committed("live", counted.attempts)]
             /\ Rounds!GoTo("select")
    <3>1. counted.attempts < Allowance
      BY <2>1, <2>2, <2>5 DEF Rounds!Exhausted
    <3>2. /\ completion' \in Obligation /\ completion'.attempts = counted.attempts
          /\ completion'.committed = Rounds!Committed("live", counted.attempts)
      BY <2>1, <2>5, CommittedIs DEF Status
    <3>3. Standing(completion')
      BY <3>1, <3>2 DEF Standing
    <3> QED  BY <1>1, <1>4, <2>5, <3>2, <3>3, GoesOn DEF Rounds!GoTo, RoundsInv, RoundsTyped, Place, Rounds!Early
  <2> QED  BY <1>4, <2>3, <2>4, <2>5 DEF Rounds!Checkpoint
<1>5. \/ UNCHANGED completion /\ Rounds!GoTo("select")
      \/ /\ completion.bound /\ Rounds!IsOpen(completion)
         /\ \/ completion' = Rounds!Keep(completion, "error_handoff") /\ Rounds!GoTo("select")
            \/ IF Rounds!Exhausted(counted) THEN Rounds!Checkpoint(counted, "exhausted", Rounds!End("incomplete"))
               ELSE Rounds!Checkpoint(counted, "live", Rounds!GoTo("select"))
  BY DEF Rounds!HandOff, Rounds!IsOpen
<1> QED  BY <1>2, <1>3, <1>4, <1>5

\* The candidate of an invocation, or of a review that was owed, is past both.
LEMMA CapturedIs ==
  ASSUME RoundsInv, NEW t \in SUBSET Code, Rounds!Captured(t), tree' = t
  PROVE  /\ ~awaiting /\ outcome # "incomplete" /\ tree' \in SUBSET Code
         /\ position \in Nat /\ cycle \in Nat /\ at \in {"captured", "ask"}
         /\ open.findings # {} => at = "ask"
BY NotReported DEF Rounds!Captured, RoundsInv, RoundsTyped, First

LEMMA InvalidKeeps == ASSUME RoundsInv, Rounds!Invalid PROVE RoundsInv'
<1>1. /\ ~awaiting /\ outcome # "incomplete" /\ tree' \in SUBSET Code
      /\ position \in Nat /\ cycle \in Nat /\ at \in {"captured", "ask"}
  BY CapturedIs DEF Rounds!Invalid
<1>2. /\ UNCHANGED <<position, cycle, awaiting, proven, open, completion>>
      /\ Rounds!GoTo("failed") \/ Rounds!End("failed")
  BY DEF Rounds!Invalid
<1> QED  BY <1>1, <1>2, Passes DEF Rounds!GoTo, Rounds!End, Place, Rounds!Early

\* Steps after which nothing of the review stands.
LEMMA ForgetKeeps ==
  ASSUME RoundsInv, Rounds!Forget, ~awaiting', at' \in Place \ {"ask", "captured", "review"},
         position' \in Nat, cycle' \in Nat, tree' \in SUBSET Code, UNCHANGED proven,
         outcome' # "incomplete"
  PROVE  RoundsInv'
<1>1. completion' \in Obligation /\ ~completion'.bound /\ open'.findings = {}
  BY FreshIs DEF Rounds!Forget, Rounds!NoReview
<1> QED  BY <1>1, GoesOn

LEMMA RefuseScopeKeeps == ASSUME RoundsInv, Rounds!RefuseScope PROVE RoundsInv'
<1>1. /\ ~awaiting /\ outcome # "incomplete" /\ tree' \in SUBSET Code
      /\ position \in Nat /\ cycle \in Nat
  BY CapturedIs DEF Rounds!RefuseScope
<1>2. /\ Rounds!Forget /\ UNCHANGED <<position, awaiting, proven>>
      /\ \/ cycle' = 1 /\ Rounds!GoTo("cycle")
         \/ (\E how \in {"failed", "completed"} : Rounds!End(how)) /\ UNCHANGED cycle
  BY DEF Rounds!RefuseScope
<1> QED  BY <1>1, <1>2, ForgetKeeps DEF Rounds!GoTo, Rounds!End, Place, Rounds!Early

LEMMA AccountIs ==
  ASSUME RoundsInv, at = "ask", open.findings # {}, NEW r \in Rounds!Replies,
         NEW t \in SUBSET Code, NEW proofs \in SUBSET (open.findings \cap Proof),
         Rounds!Account(r, t, proofs)
  PROVE  /\ tree' = t /\ proven' = [proven EXCEPT ![t] = @ \cup proofs]
         /\ UNCHANGED <<position, awaiting, open>> /\ ~awaiting /\ outcome # "incomplete"
         /\ position \in Nat /\ cycle \in Nat /\ open.findings \in SUBSET Rounds!Finding
         /\ completion \in Obligation /\ completion.bound /\ completion.cycle = cycle
         /\ Rounds!IsOpen(completion) /\ Standing(completion)
BY AskedIs DEF Rounds!Account, RoundsInv, RoundsTyped, Rounds!Served

\* An attempt that is counted, and its cycle served again.
LEMMA RetryKeeps ==
  ASSUME Rounds!RoundsAssumption, RoundsInv, at = "ask", open.findings # {}, NEW r \in Rounds!Replies,
         NEW t \in SUBSET Code, NEW proofs \in SUBSET (open.findings \cap Proof),
         Rounds!Account(r, t, proofs), UNCHANGED cycle,
         Rounds!Retry(Rounds!Count(Rounds!Accounted(r, t, proofs), "incomplete_retry"))
  PROVE  RoundsInv'
<1>1. LET c == Rounds!Accounted(r, t, proofs) IN Alike(c, completion) /\ c \in Obligation
  BY AccountedIs DEF RoundsInv, Alike
<1>2. Rounds!IsOpen(Rounds!Accounted(r, t, proofs)) /\ Standing(Rounds!Accounted(r, t, proofs))
  BY <1>1, AccountIs DEF Alike, Standing
<1>3. /\ completion' \in Obligation
      /\ completion'.bound
      /\ \/ at' = "cycle" /\ outcome' = outcome /\ Standing(completion')
         \/ /\ at' = "over" /\ outcome' = "incomplete"
            /\ completion'.committed = Rounds!Committed("exhausted", Allowance)
         \/ at' = "over" /\ outcome' = "unrecorded"
  BY <1>1, <1>2, RetryDoes, AccountIs DEF Alike, Route
<1> QED  BY <1>3, AccountIs, GoesOn DEF Place, Rounds!Early

\* An attempt after which the obligation is served no more.
LEMMA ClosedKeeps ==
  ASSUME RoundsInv, at = "ask", open.findings # {}, NEW r \in Rounds!Replies,
         NEW t \in SUBSET Code, NEW proofs \in SUBSET (open.findings \cap Proof),
         Rounds!Account(r, t, proofs), NEW route \in Route \ {"none"}, UNCHANGED cycle,
         completion' = IF r.returned THEN Rounds!Close(Rounds!Accounted(r, t, proofs), route)
                       ELSE Rounds!Accounted(r, t, proofs),
         Rounds!GoTo("failed") \/ Rounds!End("blocked")
  PROVE  RoundsInv'
<1>1. LET c == Rounds!Accounted(r, t, proofs)
      IN /\ Alike(c, completion) /\ c \in Obligation
         /\ Rounds!Close(c, route) \in Obligation /\ ~Rounds!IsOpen(Rounds!Close(c, route))
  BY AccountedIs, CloseIs DEF RoundsInv, Alike
<1>2. completion' \in Obligation /\ Standing(completion')
  BY <1>1, AccountIs DEF Alike, Standing
<1>3. completion.bound
  BY AccountIs
<1> QED  BY <1>2, <1>3, AccountIs, GoesOn DEF Rounds!GoTo, Rounds!End, Place, Rounds!Early

LEMMA DisputeKeeps ==
  ASSUME Rounds!RoundsAssumption, RoundsInv, at = "ask", open.findings # {}, NEW r \in Rounds!Replies,
         NEW t \in SUBSET Code, NEW proofs \in SUBSET (open.findings \cap Proof),
         Rounds!Dispute(r, t, proofs)
  PROVE  RoundsInv'
<1>1. Rounds!Account(r, t, proofs)
  BY DEF Rounds!Dispute
<1>2. CASE /\ completion' = IF r.returned
                            THEN Rounds!Close(Rounds!Accounted(r, t, proofs), "dispute_escalation")
                            ELSE Rounds!Accounted(r, t, proofs)
           /\ Rounds!ArchitectFails /\ UNCHANGED cycle
  BY <1>1, <1>2, ClosedKeeps DEF Rounds!ArchitectFails, Route
<1>3. CASE Rounds!Retry(Rounds!Count(Rounds!Accounted(r, t, proofs), "incomplete_retry")) /\ UNCHANGED cycle
  BY <1>1, <1>3, RetryKeeps
<1>4. CASE completion' = Rounds!Unbound /\ Rounds!NextCycle
  <2>1. completion' \in Obligation /\ ~completion'.bound
    BY <1>4, FreshIs
  <2>2. at' = "cycle" /\ outcome' = outcome /\ cycle' = cycle + 1
    BY <1>4 DEF Rounds!NextCycle, Rounds!GoTo
  <2>3. /\ proven' = [proven EXCEPT ![t] = @ \cup proofs] /\ tree' = t
        /\ UNCHANGED <<position, awaiting, open>> /\ ~awaiting /\ outcome # "incomplete"
        /\ position \in Nat /\ cycle \in Nat /\ open.findings \in SUBSET Rounds!Finding
    BY <1>1, AccountIs
  <2>4. DOMAIN proven' = DOMAIN proven /\ cycle' \in Nat
    BY <2>2, <2>3
  <2> QED  BY <2>1, <2>2, <2>3, <2>4, GoesOn DEF Place, Rounds!Early
<1>5. \/ /\ completion' = IF r.returned
                            THEN Rounds!Close(Rounds!Accounted(r, t, proofs), "dispute_escalation")
                            ELSE Rounds!Accounted(r, t, proofs)
         /\ Rounds!ArchitectFails /\ UNCHANGED <<cycle, refusal>>
      \/ Rounds!Retry(Rounds!Count(Rounds!Accounted(r, t, proofs), "incomplete_retry")) /\ UNCHANGED cycle
      \/ completion' = Rounds!Unbound /\ Rounds!NextCycle
  BY Zenon DEF Rounds!Dispute
<1>6. UNCHANGED <<cycle, refusal>> => UNCHANGED cycle
  OBVIOUS
<1> QED  BY <1>2, <1>3, <1>4, <1>5, <1>6, Zenon

LEMMA IncompleteKeeps ==
  ASSUME Rounds!RoundsAssumption, RoundsInv, at = "ask", open.findings # {}, NEW r \in Rounds!Replies,
         NEW t \in SUBSET Code, NEW proofs \in SUBSET (open.findings \cap Proof),
         Rounds!Incomplete(r, t, proofs)
  PROVE  RoundsInv'
<1>1. Rounds!Account(r, t, proofs) /\ UNCHANGED cycle
  BY DEF Rounds!Incomplete
<1>2. CASE /\ completion' = IF r.returned THEN Rounds!Close(Rounds!Accounted(r, t, proofs), "diagnosis")
                            ELSE Rounds!Accounted(r, t, proofs)
           /\ Rounds!GoTo("failed")
  BY <1>1, <1>2, ClosedKeeps DEF Route
<1>3. CASE Rounds!Retry(Rounds!Count(Rounds!Accounted(r, t, proofs), "incomplete_retry"))
  BY <1>1, <1>3, RetryKeeps
<1>4. CASE UNCHANGED completion /\ Rounds!GoTo("failed")
  BY <1>1, <1>4, AccountIs, GoesOn DEF Rounds!GoTo, Place, Rounds!Early
<1> QED  BY <1>2, <1>3, <1>4 DEF Rounds!Incomplete

\* A candidate that answers every finding goes to its reviewer.
LEMMA ProgressKeeps ==
  ASSUME RoundsInv, at = "ask", open.findings # {}, NEW r \in Rounds!Replies,
         NEW t \in SUBSET Code, NEW proofs \in SUBSET (open.findings \cap Proof),
         Rounds!Progress(r, t, proofs)
  PROVE  RoundsInv'
<1> DEFINE c == Rounds!Close(Rounds!Accounted(r, t, proofs), "progress")
<1>1. Rounds!Account(r, t, proofs) /\ UNCHANGED cycle /\ Rounds!Open(r, t, proofs) = {}
  BY DEF Rounds!Progress
<1>2. c \in Obligation /\ ~Rounds!IsOpen(c)
  <2>1. Rounds!Accounted(r, t, proofs) \in Obligation
    BY AccountedIs DEF RoundsInv, Alike
  <2> QED  BY <2>1, CloseIs DEF Route
<1>3. /\ completion' \in Obligation /\ Standing(completion')
      /\ \/ at' = "review" /\ outcome' = outcome
         \/ at' = "over" /\ outcome' = "unrecorded"
  <2> DEFINE d == [c EXCEPT !.committed = Rounds!Committed("retired", c.attempts)]
  <2>1. d \in Obligation /\ ~Rounds!IsOpen(d)
    BY <1>2, CommittedIs DEF Status
  <2>2. \/ completion' = d /\ Rounds!GoTo("review")
        \/ completion' = c /\ Rounds!End("unrecorded")
        \/ completion' = c /\ Rounds!GoTo("review")
        \/ completion' = completion /\ Rounds!GoTo("review")
    BY DEF Rounds!Progress, Rounds!Checkpoint
  <2>3. completion \in Obligation /\ Standing(completion)
    BY <1>1, AccountIs
  <2> HIDE DEF c, d
  <2>4. /\ completion' \in {c, d, completion}
        /\ \/ at' = "review" /\ outcome' = outcome
           \/ at' = "over" /\ outcome' = "unrecorded"
    BY <2>2 DEF Rounds!GoTo, Rounds!End
  <2> QED  BY <1>2, <2>1, <2>3, <2>4 DEF Standing
<1>4. \A f \in open.findings : IF f \in Code THEN Rounds!Moved(f, t) ELSE f \in proofs
  BY <1>1 DEF Rounds!Open, Rounds!Discharged
<1>5. proven' = [proven EXCEPT ![t] = @ \cup proofs] /\ DOMAIN proven = SUBSET Code
  BY <1>1, AccountIs DEF RoundsInv, RoundsTyped
<1>6. DOMAIN proven' = SUBSET Code /\ proofs \subseteq proven'[t]
  BY <1>5
<1>7. Rounds!ReviewedIsAnswered'
  BY <1>1, <1>4, <1>6, AccountIs DEF Rounds!ReviewedIsAnswered, Rounds!Moved
<1>8. RoundsTyped' /\ Obliged'
  BY <1>1, <1>3, <1>6, AccountIs DEF RoundsTyped, Obliged, Place, Rounds!Early
<1>9. First' /\ Over'
  BY <1>1, <1>3, AccountIs DEF First, Over
<1> QED  BY <1>7, <1>8, <1>9 DEF RoundsInv

LEMMA AccountsKeep == ASSUME Rounds!RoundsAssumption, RoundsInv, Rounds!Accounts PROVE RoundsInv'
BY DisputeKeeps, IncompleteKeeps, ProgressKeeps DEF Rounds!Accounts

LEMMA UnowedKeeps == ASSUME RoundsInv, Rounds!Unowed PROVE RoundsInv'
<1>1. PICK t \in SUBSET Code : Rounds!Captured(t) /\ tree' = t
  BY DEF Rounds!Unowed
<1>2. /\ ~awaiting /\ outcome # "incomplete" /\ tree' \in SUBSET Code
      /\ position \in Nat /\ cycle \in Nat /\ at \in {"captured", "ask"}
      /\ open.findings # {} => at = "ask"
  BY <1>1, CapturedIs
<1>3. open.findings = {}
  BY <1>2 DEF Rounds!Unowed
<1>4. /\ UNCHANGED <<position, cycle, awaiting, proven, open, completion>>
      /\ Rounds!GoTo("failed") \/ Rounds!GoTo("review")
  BY DEF Rounds!Unowed
<1>5. CASE Rounds!GoTo("failed")
  BY <1>2, <1>4, <1>5, Passes DEF Rounds!GoTo, Place, Rounds!Early
<1>6. CASE Rounds!GoTo("review")
  BY <1>2, <1>3, <1>4, <1>6 DEF Rounds!GoTo, Place, Rounds!Early, RoundsInv, RoundsTyped, Obliged,
                               First, Over, Rounds!ReviewedIsAnswered, Standing
<1> QED  BY <1>4, <1>5, <1>6

\* What comes of a review, and of the audit after it.
LEMMA VerdictKeeps ==
  ASSUME RoundsInv, Rounds!Unreviewed \/ Rounds!Revise \/ Rounds!Escalate \/ Rounds!Accept \/ Rounds!Contradict \/ Rounds!Judge
  PROVE  RoundsInv'
<1>1. /\ at \in {"review", "judge"} /\ ~awaiting /\ outcome # "incomplete"
      /\ position \in Nat /\ cycle \in Nat /\ tree \in SUBSET Code
      /\ UNCHANGED <<position, awaiting, tree, proven>>
  BY NotReported DEF Rounds!Unreviewed, Rounds!Revise, Rounds!Escalate, Rounds!Accept, Rounds!Contradict, Rounds!Judge,
                     RoundsInv, RoundsTyped, First
<1>2. \/ Rounds!Forget
      \/ UNCHANGED <<open, completion>>
      \/ completion' = Rounds!Unbound /\ open'.findings \in SUBSET Rounds!Finding
  BY DEF Rounds!Unreviewed, Rounds!Revise, Rounds!Escalate, Rounds!Accept, Rounds!Contradict, Rounds!Judge
<1>3. /\ at' \in {"over", "failed", "cycle", "judge"} /\ cycle' \in Nat
      /\ outcome' # "incomplete"
  <2>1. \/ \E how \in {"awaiting_review", "failed", "blocked", "accepted"} :
             Rounds!End(how) /\ UNCHANGED cycle
        \/ (Rounds!GoTo("failed") \/ Rounds!GoTo("judge")) /\ UNCHANGED cycle
        \/ Rounds!NextCycle
    <3>1. CASE Rounds!Unreviewed
      BY <3>1 DEF Rounds!Unreviewed
    <3>2. CASE Rounds!Revise
      BY <3>2 DEF Rounds!Revise
    <3>3. CASE Rounds!Escalate
      BY <3>3 DEF Rounds!Escalate, Rounds!ArchitectFails
    <3>4. CASE Rounds!Accept
      BY <3>4 DEF Rounds!Accept
    <3>5. CASE Rounds!Contradict
      BY <3>5 DEF Rounds!Contradict, Rounds!ArchitectFails
    <3>6. CASE Rounds!Judge
      BY <3>6 DEF Rounds!Judge
    <3> QED  BY <3>1, <3>2, <3>3, <3>4, <3>5, <3>6
  <2> QED  BY <1>1, <2>1 DEF Rounds!End, Rounds!GoTo, Rounds!NextCycle
<1>4. CASE Rounds!Forget
  BY <1>1, <1>3, <1>4, ForgetKeeps DEF Place, Rounds!Early
<1>5. CASE UNCHANGED <<open, completion>>
  BY <1>1, <1>3, <1>5, Passes DEF Place, Rounds!Early
<1>6. CASE completion' = Rounds!Unbound /\ open'.findings \in SUBSET Rounds!Finding
  <2>1. completion' \in Obligation /\ ~completion'.bound
    BY <1>6, FreshIs
  <2> QED  BY <1>1, <1>3, <1>6, <2>1, GoesOn DEF Place, Rounds!Early
<1> QED  BY <1>2, <1>4, <1>5, <1>6

LEMMA RoundsInvKept == ASSUME Rounds!RoundsAssumption, RoundsInv, [Rounds!Next]_Rounds!vars PROVE RoundsInv'
<1>1. CASE UNCHANGED Rounds!vars
  BY <1>1 DEF Rounds!vars, RoundsInv, RoundsTyped, Obliged, First, Over, Rounds!ReviewedIsAnswered,
              Rounds!Moved, Rounds!Served, Standing
<1>2. CASE Rounds!Next
  BY <1>2, SelectKeeps, ServeKeepsRounds, NoRunnerKeeps, ErrsKeeps, HandOffKeeps,
     InvalidKeeps, RefuseScopeKeeps, AccountsKeep, UnowedKeeps, VerdictKeeps DEF Rounds!Next
<1> QED  BY <1>1, <1>2

LEMMA RoundsInvCommits == ASSUME RoundsInv PROVE Rounds!CountedIsCommitted
<1>1. /\ completion.bound /\ at = "ask"
           => open.findings # {} /\ Rounds!IsOpen(completion) /\ Standing(completion)
      /\ outcome = "incomplete" => completion.committed = Rounds!Committed("exhausted", Allowance)
  BY DEF RoundsInv, Obliged, Over
<1> QED  BY <1>1 DEF Rounds!CountedIsCommitted, Standing

-----------------------------------------------------------------------------
(* How far a run has come.                                                 *)

Replans == IF replanned THEN 1 ELSE 0
Late    == IF at \in Rounds!Early THEN 0 ELSE 1
Spent   == IF at \in Rounds!Early /\ Rounds!Served(completion) /\ Rounds!IsOpen(completion)
             THEN completion.attempts ELSE 0

LEMMA Further ==
  ASSUME \/ position < position'
         \/ /\ position' = position
            /\ \/ Replans < Replans'
               \/ /\ Replans' = Replans
                  /\ \/ cycle < cycle'
                     \/ /\ cycle' = cycle
                        /\ \/ Late < Late'
                           \/ /\ Late' = Late
                              /\ \/ Spent < Spent'
                                 \/ Spent' = Spent /\ Rounds!Stage[at] < Rounds!Stage[at']
  PROVE  Rounds!Before(Rounds!Advance, Rounds!Advance')
<1> DEFINE a == <<position, Replans, cycle, Late, Spent, Rounds!Stage[at]>>
           b == <<position', Replans', cycle', Late', Spent', Rounds!Stage[at']>>
<1>1. Rounds!Advance = a /\ Rounds!Advance' = b
  BY DEF Rounds!Advance, Replans, Late, Spent
<1>2. \E i \in 1..6 : a[i] < b[i] /\ \A j \in 1..(i - 1) : a[j] = b[j]
  <2>1. ASSUME NEW i \in 1..6, a[i] < b[i], \A j \in 1..(i - 1) : a[j] = b[j]
        PROVE  \E k \in 1..6 : a[k] < b[k] /\ \A j \in 1..(k - 1) : a[j] = b[j]
    BY <2>1
  <2>2. CASE position < position'
    BY <2>1, <2>2
  <2>3. CASE position' = position /\ Replans < Replans'
    BY <2>1, <2>3
  <2>4. CASE position' = position /\ Replans' = Replans /\ cycle < cycle'
    BY <2>1, <2>4
  <2>5. CASE position' = position /\ Replans' = Replans /\ cycle' = cycle /\ Late < Late'
    BY <2>1, <2>5
  <2>6. CASE /\ position' = position /\ Replans' = Replans /\ cycle' = cycle
             /\ Late' = Late /\ Spent < Spent'
    BY <2>1, <2>6
  <2>7. CASE /\ position' = position /\ Replans' = Replans /\ cycle' = cycle
             /\ Late' = Late /\ Spent' = Spent /\ Rounds!Stage[at] < Rounds!Stage[at']
    BY <2>1, <2>7
  <2> QED  BY <2>2, <2>3, <2>4, <2>5, <2>6, <2>7
<1> QED  BY <1>1, <1>2 DEF Rounds!Before

\* To the next cycle, past an invocation, or on after one.
LEMMA NextCycleFurther ==
  ASSUME cycle \in Nat, Rounds!NextCycle, UNCHANGED <<position, replanned>>
  PROVE  Rounds!Before(Rounds!Advance, Rounds!Advance')
BY Further DEF Rounds!NextCycle, Replans

LEMMA PastFurther ==
  ASSUME at \in Rounds!Early, at' \in Place \ Rounds!Early, UNCHANGED <<position, replanned, cycle>>
  PROVE  Rounds!Before(Rounds!Advance, Rounds!Advance')
<1>1. Late < Late' /\ Replans' = Replans
  BY DEF Late, Replans
<1> QED  BY <1>1, Further

LEMMA StageIs == /\ Rounds!Stage["cycle"] = 0 /\ Rounds!Stage["ask"] = 1 /\ Rounds!Stage["captured"] = 2
                 /\ Rounds!Stage["review"] = 0 /\ Rounds!Stage["judge"] = 1 /\ Rounds!Stage["failed"] = 2
                 /\ Rounds!Stage["select"] = 3 /\ Rounds!Stage["over"] = 4
BY DEF Rounds!Stage

LEMMA OnFurther ==
  ASSUME at \in Place \ Rounds!Early, at' \in Place \ Rounds!Early, Rounds!Stage[at] < Rounds!Stage[at'],
         UNCHANGED <<position, replanned, cycle>>
  PROVE  Rounds!Before(Rounds!Advance, Rounds!Advance')
<1>1. Late' = Late /\ Spent' = Spent /\ Replans' = Replans
  BY DEF Late, Spent, Replans
<1> QED  BY <1>1, Further

LEMMA ServeFurther == ASSUME RoundsInv, Rounds!ReviewFirst \/ Rounds!Serve PROVE Rounds!Before(Rounds!Advance, Rounds!Advance')
<1>1. /\ at = "cycle" /\ at' \in {"ask", "captured"}
      /\ UNCHANGED <<position, replanned, cycle>>
  BY DEF Rounds!ReviewFirst, Rounds!Serve, Rounds!GoTo
<1>2. Late' = Late /\ Replans' = Replans /\ Rounds!Stage[at] < Rounds!Stage[at']
  BY <1>1, StageIs DEF Late, Replans, Rounds!Early
<1>3. Spent' = Spent
  <2>1. CASE completion' = completion
    BY <1>1, <2>1 DEF Spent, Rounds!Early, Rounds!Served, Rounds!IsOpen
  <2>2. CASE /\ completion' = Rounds!Completion(cycle)
             /\ ~(completion.bound /\ completion.cycle = cycle /\ Rounds!IsOpen(completion))
    <3>1. completion'.attempts = 0
      BY <2>2 DEF Rounds!Completion
    <3> QED  BY <1>1, <2>2, <3>1 DEF Spent, Rounds!Served
  <2> QED  BY <2>1, <2>2 DEF Rounds!ReviewFirst, Rounds!Serve, Rounds!Established
<1> QED  BY <1>1, <1>2, <1>3, Further

\* A cycle is served again with one attempt more.
LEMMA RetryFurther ==
  ASSUME Rounds!RoundsAssumption, RoundsInv, at = "ask", open.findings # {}, NEW r \in Rounds!Replies,
         NEW t \in SUBSET Code, NEW proofs \in SUBSET (open.findings \cap Proof),
         Rounds!Account(r, t, proofs), UNCHANGED cycle,
         Rounds!Retry(Rounds!Count(Rounds!Accounted(r, t, proofs), "incomplete_retry"))
  PROVE  Rounds!Before(Rounds!Advance, Rounds!Advance')
<1>1. LET c == Rounds!Accounted(r, t, proofs) IN Alike(c, completion) /\ c \in Obligation
  BY AccountedIs DEF RoundsInv, Alike
<1>2. Rounds!IsOpen(Rounds!Accounted(r, t, proofs)) /\ Standing(Rounds!Accounted(r, t, proofs))
  BY <1>1, AccountIs DEF Alike, Standing
<1>3. /\ completion'.bound /\ completion'.cycle = cycle
      /\ completion'.attempts = completion.attempts + 1 /\ completion.attempts \in Nat
      /\ \/ at' = "cycle" /\ Rounds!IsOpen(completion')
         \/ at' = "over"
  BY <1>1, <1>2, RetryDoes, AccountIs DEF Alike, Route, Obligation
<1>4. UNCHANGED <<position, replanned>>
  BY DEF Rounds!Account
<1>5. CASE at' = "over"
  BY <1>4, <1>5, PastFurther DEF Place, Rounds!Early
<1>6. CASE at' = "cycle" /\ Rounds!IsOpen(completion')
  <2>1. Late' = Late /\ Replans' = Replans
    BY <1>4, <1>6 DEF Late, Replans, Rounds!Early
  <2>2. Spent = completion.attempts /\ Spent' = completion.attempts + 1
    BY <1>3, <1>6, AccountIs DEF Spent, Rounds!Early, Rounds!Served
  <2> QED  BY <1>3, <1>4, <2>1, <2>2, Further
<1> QED  BY <1>3, <1>5, <1>6

LEMMA AccountsFurther ==
  ASSUME Rounds!RoundsAssumption, RoundsInv, Rounds!Accounts PROVE Rounds!Before(Rounds!Advance, Rounds!Advance')
<1>1. at = "ask" /\ open.findings # {} /\ cycle \in Nat
  BY DEF Rounds!Accounts, RoundsInv, RoundsTyped
<1>2. PICK r \in Rounds!Replies, t \in SUBSET Code, proofs \in SUBSET (open.findings \cap Proof) :
        Rounds!Dispute(r, t, proofs) \/ Rounds!Incomplete(r, t, proofs) \/ Rounds!Progress(r, t, proofs)
  BY DEF Rounds!Accounts
<1>3. Rounds!Account(r, t, proofs) /\ UNCHANGED <<position, replanned>>
  BY <1>2 DEF Rounds!Dispute, Rounds!Incomplete, Rounds!Progress, Rounds!Account
<1>4. \/ Rounds!Retry(Rounds!Count(Rounds!Accounted(r, t, proofs), "incomplete_retry")) /\ UNCHANGED cycle
      \/ Rounds!NextCycle
      \/ at' \in {"failed", "over", "review"} /\ UNCHANGED cycle
  <2>1. CASE Rounds!Dispute(r, t, proofs)
    <3>1. \/ Rounds!ArchitectFails /\ UNCHANGED <<cycle, refusal>>
          \/ Rounds!Retry(Rounds!Count(Rounds!Accounted(r, t, proofs), "incomplete_retry")) /\ UNCHANGED cycle
          \/ Rounds!NextCycle
      BY <2>1, Zenon DEF Rounds!Dispute
    <3> QED  BY <3>1 DEF Rounds!ArchitectFails, Rounds!GoTo, Rounds!End
  <2>2. CASE Rounds!Incomplete(r, t, proofs)
    <3>1. /\ UNCHANGED <<cycle, last, refusal>>
          /\ \/ Rounds!GoTo("failed")
             \/ Rounds!Retry(Rounds!Count(Rounds!Accounted(r, t, proofs), "incomplete_retry"))
      BY <2>2, Zenon DEF Rounds!Incomplete
    <3> QED  BY <3>1 DEF Rounds!GoTo
  <2>3. CASE Rounds!Progress(r, t, proofs)
    <3>1. UNCHANGED <<cycle, refusal>> /\ (Rounds!GoTo("review") \/ Rounds!End("unrecorded"))
      BY <2>3, Zenon DEF Rounds!Progress, Rounds!Checkpoint
    <3> QED  BY <3>1 DEF Rounds!GoTo, Rounds!End
  <2> QED  BY <1>2, <2>1, <2>2, <2>3
<1>5. CASE Rounds!Retry(Rounds!Count(Rounds!Accounted(r, t, proofs), "incomplete_retry")) /\ UNCHANGED cycle
  BY <1>1, <1>3, <1>5, RetryFurther
<1>6. CASE Rounds!NextCycle
  BY <1>1, <1>3, <1>6, NextCycleFurther
<1>7. CASE at' \in {"failed", "over", "review"} /\ UNCHANGED cycle
  BY <1>1, <1>3, <1>7, PastFurther DEF Place, Rounds!Early
<1> QED  BY <1>4, <1>5, <1>6, <1>7

LEMMA AskFurther ==
  ASSUME RoundsInv, Rounds!NoRunner \/ Rounds!Errs \/ Rounds!Invalid \/ Rounds!Unowed \/ Rounds!CyclesSpent
  PROVE  Rounds!Before(Rounds!Advance, Rounds!Advance')
<1>1. at \in Rounds!Early /\ UNCHANGED <<position, replanned, cycle>>
  BY DEF Rounds!NoRunner, Rounds!Errs, Rounds!Invalid, Rounds!Unowed, Rounds!CyclesSpent, Rounds!Captured, Rounds!Early
<1>2. at' \in {"failed", "over", "review", "select"}
  <2>1. ASSUME NEW c, NEW p \in {"failed", "select"}, Rounds!Rebind(c, Rounds!GoTo(p))
        PROVE  at' \in {"over", p}
    BY <2>1 DEF Rounds!Rebind, Rounds!Checkpoint, Rounds!GoTo, Rounds!End
  <2>2. CASE Rounds!NoRunner
    BY <2>1, <2>2 DEF Rounds!NoRunner
  <2>3. CASE Rounds!Errs
    BY <2>1, <2>3 DEF Rounds!Errs, Rounds!GoTo
  <2>4. CASE Rounds!Invalid \/ Rounds!Unowed \/ Rounds!CyclesSpent
    BY <2>4 DEF Rounds!Invalid, Rounds!Unowed, Rounds!CyclesSpent, Rounds!GoTo, Rounds!End
  <2> QED  BY <2>2, <2>3, <2>4
<1> QED  BY <1>1, <1>2, PastFurther DEF Place, Rounds!Early

LEMMA RefuseScopeFurther == ASSUME RoundsInv, Rounds!RefuseScope PROVE Rounds!Before(Rounds!Advance, Rounds!Advance')
<1>1. at \in Rounds!Early /\ UNCHANGED position /\ replanned'
  BY DEF Rounds!RefuseScope, Rounds!Captured, Rounds!Early
<1>2. CASE ~replanned
  BY <1>1, <1>2, Further DEF Replans
<1>3. CASE replanned
  <2>1. UNCHANGED cycle /\ at' = "over"
    BY <1>3 DEF Rounds!RefuseScope, Rounds!End
  <2>2. Late < Late' /\ Replans' = Replans
    BY <1>1, <1>3, <2>1 DEF Late, Replans, Rounds!Early
  <2> QED  BY <1>1, <2>1, <2>2, Further
<1> QED  BY <1>2, <1>3

LEMMA HandOffFurther == ASSUME Rounds!HandOff PROVE Rounds!Before(Rounds!Advance, Rounds!Advance')
<1>1. at = "failed" /\ UNCHANGED <<position, replanned, cycle>>
  BY DEF Rounds!HandOff
<1>2. at' \in {"select", "over"}
  <2>1. \/ Rounds!GoTo("select") \/ Rounds!End("incomplete") \/ Rounds!End("unrecorded")
    BY Zenon DEF Rounds!HandOff, Rounds!Checkpoint
  <2> QED  BY <2>1 DEF Rounds!GoTo, Rounds!End
<1> QED  BY <1>1, <1>2, StageIs, OnFurther DEF Place, Rounds!Early

LEMMA VerdictFurther ==
  ASSUME RoundsInv, Rounds!Unreviewed \/ Rounds!Revise \/ Rounds!Escalate \/ Rounds!Accept \/ Rounds!Contradict \/ Rounds!Judge
  PROVE  Rounds!Before(Rounds!Advance, Rounds!Advance')
<1>1. at \in {"review", "judge"} /\ UNCHANGED <<position, replanned>> /\ cycle \in Nat
  BY DEF Rounds!Unreviewed, Rounds!Revise, Rounds!Escalate, Rounds!Accept, Rounds!Contradict, Rounds!Judge, RoundsInv, RoundsTyped
<1>2. CASE Rounds!NextCycle
  BY <1>1, <1>2, NextCycleFurther
<1>3. \/ Rounds!NextCycle
      \/ /\ UNCHANGED cycle
         /\ at' \in {"failed", "over"} \/ (at = "review" /\ at' = "judge")
  <2>1. CASE Rounds!Unreviewed
    BY <2>1 DEF Rounds!Unreviewed, Rounds!GoTo, Rounds!End
  <2>2. CASE Rounds!Revise
    BY <2>2 DEF Rounds!Revise
  <2>3. CASE Rounds!Escalate
    BY <2>3 DEF Rounds!Escalate, Rounds!ArchitectFails, Rounds!GoTo, Rounds!End
  <2>4. CASE Rounds!Accept
    BY <2>4 DEF Rounds!Accept, Rounds!GoTo
  <2>5. CASE Rounds!Contradict
    BY <2>5 DEF Rounds!Contradict, Rounds!ArchitectFails, Rounds!GoTo, Rounds!End
  <2>6. CASE Rounds!Judge
    BY <2>6 DEF Rounds!Judge, Rounds!GoTo, Rounds!End
  <2> QED  BY <2>1, <2>2, <2>3, <2>4, <2>5, <2>6
<1>4. CASE /\ UNCHANGED cycle
           /\ at' \in {"failed", "over"} \/ (at = "review" /\ at' = "judge")
  BY <1>1, <1>4, StageIs, OnFurther DEF Place, Rounds!Early
<1> QED  BY <1>2, <1>3, <1>4

LEMMA SelectFurther ==
  ASSUME RoundsInv, Rounds!Select \/ Rounds!Skip \/ Rounds!NoneRemains PROVE Rounds!Before(Rounds!Advance, Rounds!Advance')
<1>1. CASE Rounds!Select \/ Rounds!Skip
  BY <1>1, Further DEF Rounds!Select, Rounds!Skip, RoundsInv, RoundsTyped
<1>2. CASE Rounds!NoneRemains
  BY <1>2, StageIs, OnFurther DEF Rounds!NoneRemains, Rounds!End, Place, Rounds!Early
<1> QED  BY <1>1, <1>2

LEMMA RoundsAdvance ==
  ASSUME Rounds!RoundsAssumption, RoundsInv, [Rounds!Next]_Rounds!vars PROVE [Rounds!Before(Rounds!Advance, Rounds!Advance')]_Rounds!vars
BY SelectFurther, HandOffFurther, ServeFurther, AskFurther, RefuseScopeFurther,
   AccountsFurther, VerdictFurther DEF Rounds!Next

-----------------------------------------------------------------------------
(* The reviews together: a behaviour is of the component it began with, so *)
(* each theorem of a component is one of the composition.                  *)

In(r) == review = r

LEMMA InExchange ==
  /\ Init /\ In("exchange") => Exchange!Init
  /\ In("exchange") /\ [Next]_vars => In("exchange")' /\ [Exchange!Next]_Exchange!vars
  /\ ~In("exchange") /\ [Next]_vars => ~In("exchange")'
BY DEF Init, Next, vars, exchange, Exchange!vars, Exchange!owed, Exchange!mailbox, In

LEMMA InRounds ==
  /\ Init /\ In("rounds") => Rounds!Init
  /\ In("rounds") /\ [Next]_vars => In("rounds")' /\ [Rounds!Next]_Rounds!vars
  /\ ~In("rounds") /\ [Next]_vars => ~In("rounds")'
BY DEF Init, Next, vars, rounds, Rounds!vars, In

\* A relayed review has its receipt on the conversation, for any number of
\* submissions, retries, failures and deaths (relay.go:360).
THEOREM RelaysArePublished == ASSUME ReviewsAssumption PROVE Spec => []RelayedIsPublished
<1>1. Exchange!Spec => []Exchange!RelayedIsPublished
  BY Exchange!RelayedArePublished DEF ReviewsAssumption
<1>2. /\ ~In("exchange") => RelayedIsPublished
      /\ Exchange!RelayedIsPublished => RelayedIsPublished
  BY DEF RelayedIsPublished, In
<1> QED  BY <1>1, <1>2, InExchange, PTL DEF Spec, Exchange!Spec

\* However often a submission is retried, a review acquires one receipt, where
\* the control process serves one submission at a time (relay.go:242).
THEOREM ReviewsHaveOneReceipt ==
  ASSUME ReviewsAssumption, \A g, h \in Handler : g = h PROVE Spec => []OneReceipt
<1>1. Exchange!Spec => []Exchange!OneReceipt
  BY Exchange!OneServerPostsOnce DEF ReviewsAssumption
<1>2. /\ ~In("exchange") => OneReceipt
      /\ Exchange!OneReceipt => OneReceipt
  BY DEF OneReceipt, In
<1> QED  BY <1>1, <1>2, InExchange, PTL DEF Spec, Exchange!Spec

\* The exchange implements its promise: a request is owed until its one answer
\* is told or a later request is owed in its place (runner.go:188).
THEOREM ReviewsKeepThePromise ==
  ASSUME ReviewsAssumption PROVE Spec => ImplementsReviewPromise
<1> DEFINE kept == Exchange!Promise!Next \/ UNCHANGED Exchange!Promise!vars
<1>1. Exchange!Spec => Exchange!ImplementsReviewPromise
  BY Exchange!ExchangeImplementsPromise DEF ReviewsAssumption
<1>2. ~In("exchange") => (review = "exchange" => Exchange!Promise!Init)
  BY DEF In
<1>3. ~In("exchange") /\ [Next]_vars => [review = "exchange" => kept]_vars
  BY DEF In
<1>4. [Exchange!Promise!Next]_(Exchange!Promise!vars) => [review = "exchange" => kept]_vars
  OBVIOUS
<1> QED  BY <1>1, <1>2, <1>3, <1>4, InExchange, PTL
     DEF Spec, Exchange!Spec, ImplementsReviewPromise, Exchange!ImplementsReviewPromise,
         Exchange!Promise!Spec

LEMMA RoundsInvHolds == ASSUME ReviewsAssumption
                        PROVE  Spec => [](In("rounds") => RoundsInv)
<1>1. Rounds!Init => RoundsInv
  BY RoundsInvInit DEF ReviewsAssumption
<1>2. RoundsInv /\ [Rounds!Next]_Rounds!vars => RoundsInv'
  BY RoundsInvKept DEF ReviewsAssumption
<1> QED  BY <1>1, <1>2, InRounds, PTL DEF Spec

\* A reviewer is asked about a candidate only when it answers every finding that
\* is open, for any findings, implementors, cycles and allowance, and whatever
\* was retained on the way (engine.go, runCandidate).
THEOREM ReviewersSeeAnswers == ASSUME ReviewsAssumption PROVE Spec => []ReviewedIsAnswered
<1>1. (In("rounds") => RoundsInv) => ReviewedIsAnswered
  BY DEF RoundsInv, ReviewedIsAnswered, In
<1> QED  BY <1>1, RoundsInvHolds, PTL

\* An attempt that was counted is in the newest checkpoint before anybody else is
\* asked, and an exhausted allowance before it is reported, whichever handover or
\* retry counted it.
THEOREM CountedAreCommitted == ASSUME ReviewsAssumption PROVE Spec => []CountedIsCommitted
<1>1. (In("rounds") => RoundsInv) => CountedIsCommitted
  BY RoundsInvCommits DEF CountedIsCommitted, In
<1> QED  BY <1>1, RoundsInvHolds, PTL

\* Every step of a run takes it further: no retry of a cycle, handover or decision
\* of the architect runs in a circle, for any bounds of the configuration.
THEOREM RunsAdvance == ASSUME ReviewsAssumption PROVE Spec => RunAdvances
<1>1. ~In("rounds") /\ [Next]_vars
        => [review = "rounds" => Rounds!Before(Rounds!Advance, Rounds!Advance')]_vars
  BY DEF In
<1>2. In("rounds") /\ (In("rounds") => RoundsInv) /\ [Next]_vars
        => [review = "rounds" => Rounds!Before(Rounds!Advance, Rounds!Advance')]_vars
  <2> SUFFICES ASSUME In("rounds"), RoundsInv, [Next]_vars
               PROVE [Rounds!Before(Rounds!Advance, Rounds!Advance')]_vars
    OBVIOUS
  <2>1. [Rounds!Before(Rounds!Advance, Rounds!Advance')]_Rounds!vars
    BY InRounds, RoundsAdvance DEF ReviewsAssumption
  <2>2. vars' # vars => Rounds!vars' # Rounds!vars
    BY DEF In, Next, vars, rounds, Rounds!vars
  <2> QED  BY <2>1, <2>2
<1> QED  BY <1>1, <1>2, InRounds, RoundsInvHolds, PTL DEF Spec, RunAdvances
================================================================================
