---------------------------- MODULE ExchangeProofs ----------------------------
(***************************************************************************)
(* The review exchange implements its promise (ReviewPromise), for any     *)
(* candidates, reviewers, relay handlers and number of requests; a relayed *)
(* review has its receipt on the conversation; and no more than one, if it *)
(* is not submitted twice at once.                                         *)
(***************************************************************************)
EXTENDS ReviewExchange, FiniteSetTheorems, WellFoundedInduction, TLAPS

EnginePc == {"idle", "consult", "publish", "record", "retire", "withdraw", "wait",
             "accept", "rewrite", "discharge"}
EngineType == [pc : EnginePc, req : 0..MaxRequest, have : 0..MaxRequest,
               got : Digest \cup {0}, read : SUBSET Evidence,
               cand : Candidate, prov : Provider]
RelayPc == {"idle", "look", "stage", "restage", "reconcile", "post", "complete", "finish"}
RelayType == [pc : RelayPc, req : Request, dig : Digest \cup {0}, retry : BOOLEAN,
              read : SUBSET Evidence]
ReviewType == [digest : Digest \cup {0}, evidence : SUBSET Evidence]

Owing == /\ minted \in 0..MaxRequest
         /\ open \subseteq asked
         /\ asked \subseteq 1..minted

\* A file of the review store is absent, or holds a review with evidence.
Stored == /\ store \in [Request -> ReviewType]
          /\ \A r \in Request : store[r] # NoReview => store[r].digest \in Digest

\* Where the turn stands it knows exactly what the task owes: what it read when
\* it began, then also its own request, then only that.
Turning ==
  /\ engine \in EngineType
  /\ engine.pc \in {"consult", "publish", "record"}
       => open = IF engine.have = 0 THEN {} ELSE {engine.have}
  /\ engine.pc = "consult" => engine.have # 0
  /\ engine.pc = "record" => engine.req \in Request /\ asked \subseteq 1..(engine.req - 1)
                               /\ engine.req = minted
  /\ engine.pc = "retire" => open = {engine.have, engine.req} /\ engine.have < engine.req
                               /\ engine.req \in Request
  /\ engine.pc \in {"withdraw", "wait", "accept", "rewrite", "discharge"}
       => open = {engine.req} /\ engine.req \in Request
  /\ engine.pc \in {"accept", "rewrite", "discharge"} => engine.got \in Digest
  /\ engine.pc \in {"rewrite", "discharge"} => /\ store[engine.req] # NoReview
                                               /\ store[engine.req].digest = engine.got
  /\ engine.pc = "discharge" => Delivered(store[engine.req])

\* A submission is of a request that was owed; a row it is about to replace is
\* there, and what it replaces it by is delivered.
Relaying ==
  /\ relay \in [Handler -> RelayType]
  /\ \A h \in Handler :
       /\ relay[h].pc # "idle" => relay[h].req \in asked /\ relay[h].dig \in Digest
       /\ relay[h].pc \in {"restage", "finish"} => store[relay[h].req] # NoReview
       /\ relay[h].pc = "restage" => /\ "github" \in relay[h].read
                                     /\ Delivered(store[relay[h].req])

Inv == Owing /\ Stored /\ Turning /\ Relaying

\* What is stored is never lost, changed or taken back to undelivered.
Grows == \A r \in Request :
           store[r] # NoReview =>
             /\ store'[r] # NoReview
             /\ store'[r].digest = store[r].digest
             /\ Delivered(store[r]) => Delivered(store'[r])

LEMMA NoTurnFacts ==
  ASSUME ExchangeAssumption
  PROVE  /\ NoTurn \in EngineType
         /\ NoTurn.pc = "idle" /\ NoTurn.req = 0 /\ NoTurn.have = 0
         /\ NoHandler \in RelayType
         /\ NoHandler.pc = "idle" /\ NoHandler.req = 1
         /\ NoReview \in ReviewType /\ NoReview.evidence = {}
         /\ 0 \in 0..MaxRequest /\ 1 \in Request
<1>1. (CHOOSE c \in Candidate : TRUE) \in Candidate /\ (CHOOSE p \in Provider : TRUE) \in Provider
  BY DEF ExchangeAssumption
<1>2. 0 \in 0..MaxRequest /\ 1 \in Request
  BY DEF ExchangeAssumption, Request
<1>3. NoTurn \in EngineType /\ NoTurn.pc = "idle" /\ NoTurn.req = 0 /\ NoTurn.have = 0
  BY <1>1, <1>2 DEF NoTurn, EngineType, EnginePc
<1>4. NoHandler \in RelayType /\ NoHandler.pc = "idle" /\ NoHandler.req = 1
  BY <1>2 DEF NoHandler, RelayType, RelayPc
<1>5. NoReview \in ReviewType /\ NoReview.evidence = {}
  BY DEF NoReview, ReviewType
<1> QED  BY <1>2, <1>3, <1>4, <1>5

LEMMA InvInit == ExchangeAssumption /\ Init => Inv
<1> SUFFICES ASSUME ExchangeAssumption, Init PROVE Inv
  OBVIOUS
<1>1. Owing
  BY DEF Init, ExchangeAssumption, Owing
<1>2. Stored
  BY NoTurnFacts DEF Init, Stored
<1>3. Turning
  BY NoTurnFacts DEF Init, Turning
<1>4. Relaying
  BY NoTurnFacts DEF Init, Relaying
<1> QED  BY <1>1, <1>2, <1>3, <1>4 DEF Inv

\* The first, in bytes, of a poll's reviews is one of them.
LEMMA FirstIsOne ==
  ASSUME NEW S \in SUBSET Nat, S # {}
  PROVE  Min(S) \in S
<1>1. PICK x \in S : \A y \in S : ~ (<<y, x>> \in OpToRel(<, Nat))
  BY NatLessThanWellFounded, WFMin
<1>2. \A y \in S : x <= y
  <2>1. \A y \in S : ~ (y < x)
    BY <1>1 DEF OpToRel
  <2> QED  BY <2>1
<1> QED  BY <1>2 DEF Min

\* What the engine and the relay each leave to the other.
LEMMA RelayingKept ==
  ASSUME Inv, Grows, UNCHANGED relay, asked \subseteq asked'
  PROVE  Relaying'
BY DEF Inv, Relaying, Grows, RelayType

LEMMA TurningKept ==
  ASSUME Inv, Grows, UNCHANGED <<engine, owed>>
  PROVE  Turning'
BY DEF Inv, Turning, Grows, owed

LEMMA Ended ==
  ASSUME ExchangeAssumption, EndTurn
  PROVE  Turning'
BY NoTurnFacts DEF EndTurn, Turning

\* A set of at most one element.
LEMMA AtMostOne ==
  ASSUME NEW S, IsFiniteSet(S), Cardinality(S) <= 1, NEW a \in S
  PROVE  S = {a}
<1>1. SUFFICES ASSUME NEW b \in S, b # a PROVE FALSE
  OBVIOUS
<1>2. Cardinality({a}) = 1 /\ IsFiniteSet({a})
  BY FS_Singleton
<1>3. Cardinality({a} \cup {b}) = 2
  BY <1>1, <1>2, FS_AddElement
<1>4. Cardinality({a} \cup {b}) <= Cardinality(S)
  BY <1>1, FS_Subset
<1>5. Cardinality(S) \in Nat
  BY FS_CardinalityType
<1> QED  BY <1>3, <1>4, <1>5

LEMMA RequestsFinite == ASSUME MaxRequest \in Nat PROVE IsFiniteSet(1..MaxRequest)
<1>1. 1 \in Int /\ MaxRequest \in Int
  OBVIOUS
<1> QED  BY <1>1, FS_Interval, Zenon

----------------------------------------------------------------------------
\* The turn up to its wait.  Its store is only read.
LEMMA AskingKeeps ==
  ASSUME ExchangeAssumption, Inv, NEW c \in Candidate, NEW p \in Provider,
         Resolve(c, p) \/ Consult \/ Publish \/ Record \/ Retire \/ Withdraw
  PROVE  Inv'
<1> USE NoTurnFacts
<1>s. store \in [Request -> ReviewType] /\ UNCHANGED store /\ UNCHANGED relay
  BY DEF Inv, Stored, Resolve, Consult, Publish, Record, Retire, Withdraw
<1>e. engine \in EngineType /\ minted \in 0..MaxRequest
  BY DEF Inv, Turning, Owing
<1>g. Stored' /\ Grows
  BY <1>s DEF Inv, Stored, Grows
<1>1. CASE Resolve(c, p)
  <2> DEFINE have == IF open = {} THEN 0 ELSE CHOOSE r \in open : TRUE
  <2>1. /\ have \in 0..MaxRequest
        /\ open = IF have = 0 THEN {} ELSE {have}
    <3>a. MaxRequest \in Nat /\ minted \in Int /\ minted <= MaxRequest
      BY <1>e DEF ExchangeAssumption
    <3>b. open \subseteq 1..minted
      BY DEF Inv, Owing
    <3>1. open \subseteq 1..MaxRequest
      BY <3>a, <3>b
    <3>2. IsFiniteSet(open)
      <4>1. IsFiniteSet(1..MaxRequest)
        BY <3>a, RequestsFinite
      <4> QED  BY <3>1, <4>1, FS_Subset
    <3>3. CASE open = {}
      BY <3>3
    <3>4. CASE open # {}
      <4>1. have \in open
        BY <3>4
      <4>2. have \in 1..MaxRequest
        BY <3>1, <4>1
      <4>3. open = {have}
        BY <1>1, <3>2, <4>1, AtMostOne DEF Resolve
      <4>4. have # 0 /\ have \in 0..MaxRequest
        <5> HIDE DEF have
        <5> QED  BY <3>a, <4>2
      <4> QED  BY <4>3, <4>4
    <3> QED  BY <3>3, <3>4, NoTurnFacts
  <2> HIDE DEF have
  <2>2. engine' = [NoTurn EXCEPT !.cand = c, !.prov = p, !.have = have,
                     !.pc = IF have # 0 /\ about[have].cand = c
                              THEN "consult" ELSE "publish"]
    BY <1>1 DEF Resolve, have
  <2>3. /\ engine' \in EngineType
        /\ engine'.have = have
        /\ engine'.pc \in {"consult", "publish"}
        /\ engine'.pc = "consult" => have # 0
    <3> HIDE DEF NoTurn
    <3> QED  BY <2>1, <2>2 DEF EngineType, EnginePc
  <2>4. UNCHANGED owed
    BY <1>1 DEF Resolve
  <2>5. Turning'
    BY <2>1, <2>3, <2>4 DEF Turning, owed
  <2>6. Owing'
    BY <2>4 DEF Inv, Owing, owed
  <2>7. Relaying'
    BY <1>g, <1>s, <2>4, RelayingKept DEF owed
  <2> QED  BY <1>g, <2>5, <2>6, <2>7 DEF Inv
<1>2. CASE Consult
  <2>1. UNCHANGED owed /\ Owing' /\ Relaying'
    BY <1>2, <1>g, <1>s, RelayingKept DEF Consult, Inv, Owing, owed
  <2>2. engine.have # 0 /\ open = {engine.have} /\ engine.have \in Request
    <3>1. engine.have # 0 /\ open = {engine.have} /\ engine.have \in 0..MaxRequest
      BY <1>2, <1>e DEF Consult, Inv, Turning, EngineType
    <3> QED  BY <3>1 DEF Request, ExchangeAssumption
  <2>3. CASE /\ store[engine.have] # NoReview /\ Delivered(store[engine.have])
             /\ engine' = [NoTurn EXCEPT !.pc = "discharge", !.req = engine.have,
                                         !.got = store[engine.have].digest]
    <3>1. store[engine.have].digest \in Digest
      BY <2>2, <2>3 DEF Inv, Stored
    <3>2. /\ engine' \in EngineType /\ engine'.pc = "discharge"
          /\ engine'.req = engine.have /\ engine'.got = store[engine.have].digest
      <4> HIDE DEF NoTurn
      <4> QED  BY <1>e, <2>3, <3>1 DEF EngineType, EnginePc
    <3>3. Turning'
      BY <1>s, <2>1, <2>2, <2>3, <3>1, <3>2 DEF Turning, owed
    <3> QED  BY <1>g, <2>1, <3>3 DEF Inv
  <2>4. CASE EndTurn
    BY <1>g, <2>1, <2>4, Ended DEF Inv
  <2>5. CASE engine' = [NoTurn EXCEPT !.pc = "wait", !.req = engine.have]
    <3>1. engine' \in EngineType /\ engine'.pc = "wait" /\ engine'.req = engine.have
      <4> HIDE DEF NoTurn
      <4> QED  BY <1>e, <2>5 DEF EngineType, EnginePc
    <3>2. Turning'
      BY <2>1, <2>2, <3>1 DEF Turning, owed
    <3> QED  BY <1>g, <2>1, <3>2 DEF Inv
  <2>6. CASE engine' = [engine EXCEPT !.pc = "publish"]
    <3>1. engine' \in EngineType /\ engine'.pc = "publish" /\ engine'.have = engine.have
      BY <1>e, <2>6 DEF EngineType, EnginePc
    <3>2. Turning'
      BY <2>1, <2>2, <3>1 DEF Turning, owed
    <3> QED  BY <1>g, <2>1, <3>2 DEF Inv
  <2> QED  BY <1>2, <2>3, <2>4, <2>5, <2>6 DEF Consult
<1>3. CASE Publish
  <2>1. minted + 1 \in Request /\ minted' = minted + 1 /\ minted' \in 0..MaxRequest
    BY <1>3, <1>e DEF Publish, Request, ExchangeAssumption
  <2>2. UNCHANGED <<asked, open>> /\ asked \subseteq 1..minted
    BY <1>3 DEF Publish, Inv, Owing
  <2>3. Owing'
    BY <1>e, <2>1, <2>2 DEF Inv, Owing, ExchangeAssumption
  <2>4. Relaying'
    BY <1>g, <1>s, <2>2, RelayingKept
  <2>5. CASE EndTurn
    BY <1>g, <2>3, <2>4, <2>5, Ended DEF Inv
  <2>6. CASE engine' = [NoTurn EXCEPT !.pc = "record", !.have = engine.have,
                                      !.req = minted + 1]
    <3>1. /\ engine' \in EngineType /\ engine'.pc = "record"
          /\ engine'.have = engine.have /\ engine'.req = minted + 1
      <4> HIDE DEF NoTurn
      <4> QED  BY <1>e, <2>1, <2>6 DEF EngineType, EnginePc
    <3>2. open = IF engine.have = 0 THEN {} ELSE {engine.have}
      BY <1>3 DEF Publish, Inv, Turning
    <3>3. (minted + 1) - 1 = minted
      BY <1>e DEF ExchangeAssumption
    <3>4. Turning'
      BY <2>1, <2>2, <3>1, <3>2, <3>3 DEF Turning
    <3> QED  BY <1>g, <2>3, <2>4, <3>4 DEF Inv
  <2> QED  BY <1>3, <2>5, <2>6 DEF Publish
<1>4. CASE Record
  <2>1. /\ engine.req \in Request /\ engine.req = minted
        /\ open = IF engine.have = 0 THEN {} ELSE {engine.have}
        /\ asked \subseteq 1..(engine.req - 1)
    BY <1>4 DEF Record, Inv, Turning
  <2>2. UNCHANGED minted
    BY <1>4 DEF Record
  <2>3. CASE EndTurn /\ UNCHANGED <<asked, open>>
    <3>1. Owing' /\ Relaying'
      BY <1>g, <1>s, <2>2, <2>3, RelayingKept DEF Inv, Owing
    <3> QED  BY <1>g, <2>3, <3>1, Ended DEF Inv
  <2>4. CASE /\ asked' = asked \cup {engine.req}
             /\ open' = open \cup {engine.req}
             /\ engine' = [engine EXCEPT !.pc = IF engine.have = 0 THEN "wait"
                                                                  ELSE "retire"]
    <3>1. /\ engine' \in EngineType /\ engine'.req = engine.req
          /\ engine'.have = engine.have
          /\ engine'.pc = IF engine.have = 0 THEN "wait" ELSE "retire"
      BY <1>e, <2>4 DEF EngineType, EnginePc
    <3>2. Owing'
      BY <1>e, <2>1, <2>2, <2>4 DEF Inv, Owing, Request, ExchangeAssumption
    <3>3. Relaying'
      BY <1>g, <1>s, <2>4, RelayingKept
    <3>4. engine.have # 0 => engine.have < engine.req
      <4>1. engine.have # 0 => engine.have \in 1..(engine.req - 1)
        BY <2>1 DEF Inv, Owing
      <4> QED  BY <2>1, <4>1 DEF Request, ExchangeAssumption
    <3>5. Turning'
      BY <2>1, <2>4, <3>1, <3>4 DEF Turning
    <3> QED  BY <1>g, <3>2, <3>3, <3>5 DEF Inv
  <2> QED  BY <1>4, <2>3, <2>4 DEF Record
<1>5. CASE Retire
  <2>1. /\ open = {engine.have, engine.req} /\ engine.have < engine.req
        /\ engine.req \in Request /\ engine.have \in 0..MaxRequest
    BY <1>5 DEF Retire, Inv, Turning, EngineType
  <2>2. Owing' /\ Relaying'
    BY <1>5, <1>g, <1>s, RelayingKept DEF Retire, Inv, Owing
  <2>3. CASE EndTurn
    BY <1>g, <2>2, <2>3, Ended DEF Inv
  <2>4. CASE open' = open \ {engine.have} /\ engine' = [engine EXCEPT !.pc = "withdraw"]
    <3>1. engine' \in EngineType /\ engine'.pc = "withdraw" /\ engine'.req = engine.req
      BY <1>e, <2>4 DEF EngineType, EnginePc
    <3>2. engine.have # engine.req
      BY <2>1 DEF Request, ExchangeAssumption
    <3>3. Turning'
      BY <2>1, <2>4, <3>1, <3>2 DEF Turning
    <3> QED  BY <1>g, <2>2, <3>3 DEF Inv
  <2> QED  BY <1>5, <2>3, <2>4 DEF Retire
<1>6. CASE Withdraw
  <2>1. open = {engine.req} /\ engine.req \in Request
    BY <1>6 DEF Withdraw, Inv, Turning
  <2>2. UNCHANGED owed /\ Owing' /\ Relaying'
    BY <1>6, <1>g, <1>s, RelayingKept DEF Withdraw, Inv, Owing, owed
  <2>3. engine' \in EngineType /\ engine'.pc = "wait" /\ engine'.req = engine.req
    BY <1>6, <1>e DEF Withdraw, EngineType, EnginePc
  <2>4. Turning'
    BY <2>1, <2>2, <2>3 DEF Turning, owed
  <2> QED  BY <1>g, <2>2, <2>4 DEF Inv
<1> QED  BY <1>1, <1>2, <1>3, <1>4, <1>5, <1>6

\* The turn from its wait on.
LEMMA AnsweringKeeps ==
  ASSUME ExchangeAssumption, Inv,
         Poll \/ StopWaiting \/ Accept \/ Rewrite \/ Discharge \/ CrashEngine
  PROVE  Inv' /\ Grows
<1> USE NoTurnFacts
<1>e. engine \in EngineType /\ store \in [Request -> ReviewType]
  BY DEF Inv, Turning, Stored
<1>r. UNCHANGED <<minted, asked, relay>>
  BY DEF Poll, StopWaiting, Accept, Rewrite, Discharge, CrashEngine, owed
<1>s. CASE UNCHANGED store
  <2>1. Stored' /\ Grows
    BY <1>e, <1>s DEF Inv, Stored, Grows
  <2>2. Owing'
    BY <1>r DEF Inv, Owing, Poll, StopWaiting, Accept, Rewrite, Discharge, CrashEngine, owed
  <2>3. Relaying'
    BY <1>r, <2>1, RelayingKept
  <2>4. CASE EndTurn
    BY <2>1, <2>2, <2>3, <2>4, Ended DEF Inv
  <2>5. CASE Poll /\ ~EndTurn
    <3> DEFINE seen == {d \in Digest : <<engine.req, d>> \in answers}
    <3>1. engine' = [engine EXCEPT !.pc = "accept", !.got = Min(seen)] /\ seen # {}
      BY <2>5 DEF Poll
    <3>2. Min(seen) \in Digest
      <4>1. seen \subseteq Nat /\ seen \subseteq Digest
        BY DEF ExchangeAssumption
      <4>2. Min(seen) \in seen
        BY <3>1, <4>1, FirstIsOne
      <4> QED  BY <4>1, <4>2
    <3> HIDE DEF seen
    <3>3. /\ engine' \in EngineType /\ engine'.pc = "accept"
          /\ engine'.req = engine.req /\ engine'.got \in Digest
      BY <1>e, <3>1, <3>2 DEF EngineType, EnginePc
    <3>4. open = {engine.req} /\ engine.req \in Request /\ open' = open
      BY <2>5 DEF Poll, owed, Inv, Turning
    <3>5. Turning'
      BY <3>3, <3>4 DEF Turning
    <3> QED  BY <2>1, <2>2, <2>3, <3>5 DEF Inv
  <2>6. CASE Accept /\ ~EndTurn
    <3>1. /\ open = {engine.req} /\ engine.req \in Request /\ open' = open
          /\ engine.got \in Digest
      BY <2>6 DEF Accept, owed, Inv, Turning
    <3>2. store[engine.req] # NoReview /\ store[engine.req].digest = engine.got
      <4>1. store' # [store EXCEPT ![engine.req] =
                        [digest |-> engine.got, evidence |-> {"github"}]]
              \/ store[engine.req] # NoReview
        BY <1>e, <1>s, <3>1 DEF NoReview
      <4> QED  BY <2>6, <4>1 DEF Accept
    <3>3. CASE "github" \in store[engine.req].evidence
               /\ engine' = [engine EXCEPT !.pc = "discharge"]
      <4>1. /\ engine' \in EngineType /\ engine'.pc = "discharge"
            /\ engine'.req = engine.req /\ engine'.got = engine.got
        BY <1>e, <3>3 DEF EngineType, EnginePc
      <4>2. Delivered(store[engine.req])
        BY <3>3 DEF Delivered
      <4>3. Turning'
        BY <1>s, <3>1, <3>2, <4>1, <4>2 DEF Turning
      <4> QED  BY <2>1, <2>2, <2>3, <4>3 DEF Inv
    <3>4. CASE engine' = [engine EXCEPT !.pc = "rewrite", !.read = store[engine.req].evidence]
      <4>1. /\ engine' \in EngineType /\ engine'.pc = "rewrite"
            /\ engine'.req = engine.req /\ engine'.got = engine.got
        <5>1. store[engine.req].evidence \in SUBSET Evidence
          BY <1>e, <3>1 DEF ReviewType
        <5> QED  BY <1>e, <3>4, <5>1 DEF EngineType, EnginePc
      <4>2. Turning'
        BY <1>s, <3>1, <3>2, <4>1 DEF Turning
      <4> QED  BY <2>1, <2>2, <2>3, <4>2 DEF Inv
    <3> QED  BY <2>6, <3>2, <3>3, <3>4 DEF Accept
  <2>7. CASE Rewrite /\ ~EndTurn
    <3>1. /\ open = {engine.req} /\ engine.req \in Request /\ open' = open
          /\ engine.got \in Digest
          /\ store[engine.req] # NoReview /\ store[engine.req].digest = engine.got
      BY <2>7 DEF Rewrite, owed, Inv, Turning
    <3>2. /\ store' = [store EXCEPT ![engine.req].evidence = engine.read \cup {"github"}]
          /\ engine' = [engine EXCEPT !.pc = "discharge", !.read = {}]
      BY <2>7 DEF Rewrite
    <3>3. /\ engine' \in EngineType /\ engine'.pc = "discharge"
          /\ engine'.req = engine.req /\ engine'.got = engine.got
      BY <1>e, <3>2 DEF EngineType, EnginePc
    <3>4. "github" \in store'[engine.req].evidence
      BY <1>e, <3>1, <3>2 DEF ReviewType
    <3>5. Turning'
      BY <1>s, <3>1, <3>3, <3>4 DEF Turning, Delivered
    <3> QED  BY <2>1, <2>2, <2>3, <3>5 DEF Inv
  <2> QED  BY <2>1, <2>4, <2>5, <2>6, <2>7
           DEF Poll, StopWaiting, Discharge, CrashEngine
<1>t. CASE ~UNCHANGED store
  <2>1. /\ open = {engine.req} /\ engine.req \in Request /\ open' = open
        /\ engine.got \in Digest
    BY <1>t DEF Poll, StopWaiting, Accept, Rewrite, Discharge, CrashEngine, owed, Inv, Turning
  <2>2. /\ engine' \in EngineType /\ engine'.pc = "discharge"
        /\ engine'.req = engine.req /\ engine'.got = engine.got
    <3>1. \/ engine' = [engine EXCEPT !.pc = "discharge"]
          \/ engine' = [engine EXCEPT !.pc = "discharge", !.read = {}]
      BY <1>t DEF Poll, StopWaiting, Accept, Rewrite, Discharge, CrashEngine
    <3> QED  BY <1>e, <3>1 DEF EngineType, EnginePc
  <2>3. PICK rec \in ReviewType :
          /\ store' = [store EXCEPT ![engine.req] = rec]
          /\ rec.digest = engine.got /\ "github" \in rec.evidence
          /\ store[engine.req] # NoReview => store[engine.req].digest = engine.got
    <3>1. CASE /\ store[engine.req] = NoReview
               /\ store' = [store EXCEPT ![engine.req] =
                              [digest |-> engine.got, evidence |-> {"github"}]]
      <4>1. [digest |-> engine.got, evidence |-> {"github"}] \in ReviewType
        BY <2>1 DEF ReviewType, Evidence
      <4> QED  BY <3>1, <4>1
    <3>2. CASE Rewrite
      <4>1. store' = [store EXCEPT ![engine.req].evidence = engine.read \cup {"github"}]
        BY <1>t, <3>2 DEF Rewrite
      <4>2. store[engine.req].digest = engine.got /\ store[engine.req] \in ReviewType
        BY <1>e, <2>1, <3>2 DEF Rewrite, Inv, Turning
      <4>3. engine.read \cup {"github"} \in SUBSET Evidence
        BY <1>e DEF EngineType, Evidence
      <4>4. [store[engine.req] EXCEPT !.evidence = engine.read \cup {"github"}]
              = [digest |-> engine.got, evidence |-> engine.read \cup {"github"}]
        BY <4>2 DEF ReviewType
      <4>5. [digest |-> engine.got, evidence |-> engine.read \cup {"github"}] \in ReviewType
        BY <2>1, <4>3 DEF ReviewType
      <4> QED  BY <4>1, <4>2, <4>4, <4>5
    <3> QED  BY <1>t, <3>1, <3>2
             DEF Poll, StopWaiting, Accept, Discharge, CrashEngine
  <2>4. /\ store' \in [Request -> ReviewType]
        /\ store'[engine.req] = rec
        /\ \A r \in Request \ {engine.req} : store'[r] = store[r]
        /\ rec # NoReview /\ Delivered(rec)
    BY <1>e, <2>1, <2>3 DEF Delivered
  <2>5. Stored' /\ Grows
    BY <2>1, <2>3, <2>4 DEF Inv, Stored, Grows
  <2>6. Turning'
    BY <2>1, <2>2, <2>3, <2>4 DEF Turning
  <2>7. Owing' /\ Relaying'
    BY <1>r, <2>1, <2>5, RelayingKept DEF Inv, Owing
  <2> QED  BY <2>5, <2>6, <2>7 DEF Inv
<1> QED  BY <1>s, <1>t

----------------------------------------------------------------------------
\* A submission's step to s, or its end.
LEMMA RelayGoes ==
  ASSUME ExchangeAssumption, Inv, NEW h \in Handler, NEW s \in RelayPc,
         GoTo(h, s) \/ EndRelay(h)
  PROVE  /\ relay' \in [Handler -> RelayType]
         /\ \A g \in Handler \ {h} : relay'[g] = relay[g]
         /\ \/ relay'[h].pc = "idle"
            \/ /\ relay'[h].pc = s /\ relay'[h].req = relay[h].req
               /\ relay'[h].dig = relay[h].dig
<1>1. relay \in [Handler -> RelayType]
  BY DEF Inv, Relaying
<1>2. CASE GoTo(h, s)
  <2> DEFINE moved == [relay[h] EXCEPT !.pc = s]
  <2>1. moved \in RelayType /\ moved.pc = s /\ moved.req = relay[h].req
        /\ moved.dig = relay[h].dig
    BY <1>1 DEF RelayType
  <2>2. relay' = [relay EXCEPT ![h] = moved]
    BY <1>2 DEF GoTo
  <2> HIDE DEF moved
  <2> QED  BY <1>1, <2>1, <2>2
<1>3. CASE EndRelay(h)
  BY <1>1, <1>3, NoTurnFacts DEF EndRelay
<1> QED  BY <1>2, <1>3

\* A step of one submission that lets the store only grow.
LEMMA RelayStepKeeps ==
  ASSUME Inv, NEW h \in Handler, UNCHANGED <<owed, engine>>, Stored', Grows,
         relay' \in [Handler -> RelayType],
         \A g \in Handler \ {h} : relay'[g] = relay[g],
         relay'[h].pc # "idle" => relay'[h].req \in asked /\ relay'[h].dig \in Digest,
         relay'[h].pc \in {"restage", "finish"} => store'[relay'[h].req] # NoReview,
         relay'[h].pc = "restage" => /\ "github" \in relay'[h].read
                                     /\ Delivered(store'[relay'[h].req])
  PROVE  Inv'
<1>1. Owing'
  BY DEF Inv, Owing, owed
<1>2. Turning'
  BY TurningKept
<1>3. Relaying'
  <2>1. asked' = asked
    BY DEF owed
  <2>2. ASSUME NEW g \in Handler, g # h
        PROVE  /\ relay'[g].pc # "idle" => relay'[g].req \in asked /\ relay'[g].dig \in Digest
               /\ relay'[g].pc \in {"restage", "finish"} => store'[relay'[g].req] # NoReview
               /\ relay'[g].pc = "restage" => /\ "github" \in relay'[g].read
                                              /\ Delivered(store'[relay'[g].req])
    <3>1. relay'[g] = relay[g] /\ relay[g].req \in Request
      BY <2>2 DEF Inv, Relaying, RelayType
    <3> QED  BY <3>1 DEF Inv, Relaying, Grows
  <2> QED  BY <2>1, <2>2 DEF Relaying
<1> QED  BY <1>1, <1>2, <1>3 DEF Inv

\* A replaced row of the store: the same review, with what it needs to be
\* delivered.
LEMMA RowReplaced ==
  ASSUME Inv, NEW r \in Request, NEW E \in SUBSET Evidence, E # {},
         store' = [store EXCEPT ![r].evidence = E], store[r] # NoReview,
         Delivered(store[r]) => E \cap {"github", "relayed"} # {}
  PROVE  /\ Stored' /\ Grows
         /\ store'[r].evidence = E /\ store'[r].digest = store[r].digest
         /\ \A q \in Request \ {r} : store'[q] = store[q]
<1> DEFINE row == [store[r] EXCEPT !.evidence = E]
<1>1. store \in [Request -> ReviewType]
  BY DEF Inv, Stored
<1>2. row \in ReviewType /\ row.evidence = E /\ row.digest = store[r].digest
  BY <1>1 DEF ReviewType
<1>3. store' = [store EXCEPT ![r] = row]
  OBVIOUS
<1>4. row # NoReview
  BY <1>2 DEF NoReview
<1> HIDE DEF row
<1>5. /\ store' \in [Request -> ReviewType] /\ store'[r] = row
      /\ \A q \in Request \ {r} : store'[q] = store[q]
  BY <1>1, <1>2, <1>3
<1>6. Delivered(store[r]) => Delivered(row)
  BY <1>2 DEF Delivered
<1> QED  BY <1>2, <1>4, <1>5, <1>6 DEF Inv, Stored, Grows

LEMMA RelayKeeps ==
  ASSUME ExchangeAssumption, Inv, NEW h \in Handler,
         \/ \E r \in Request, d \in Digest : Submit(h, r, d)
         \/ Look(h) \/ Stage(h) \/ Restage(h) \/ Reconcile(h)
         \/ Post(h) \/ Complete(h) \/ Finish(h)
  PROVE  Inv' /\ Grows
<1> USE NoTurnFacts
<1>o. UNCHANGED <<owed, engine>>
  BY DEF Submit, Look, Stage, Restage, Reconcile, Post, Complete, Finish
<1>w. relay \in [Handler -> RelayType] /\ store \in [Request -> ReviewType]
  BY DEF Inv, Relaying, Stored
<1>q. relay[h].pc # "idle" => /\ relay[h].req \in asked /\ relay[h].req \in Request
                              /\ relay[h].dig \in Digest
  BY <1>w DEF Inv, Relaying, RelayType
<1>u. UNCHANGED store => Stored' /\ Grows
  BY <1>w DEF Inv, Stored, Grows
<1>1. ASSUME NEW r \in Request, NEW d \in Digest, Submit(h, r, d) PROVE Inv' /\ Grows
  <2> DEFINE new == [NoHandler EXCEPT !.pc = "look", !.req = r, !.dig = d]
  <2>1. new \in RelayType /\ new.pc = "look" /\ new.req = r /\ new.dig = d
    <3> HIDE DEF NoHandler
    <3> QED  BY DEF RelayType, RelayPc
  <2>2. relay' = [relay EXCEPT ![h] = new] /\ UNCHANGED store /\ r \in asked
    BY <1>1 DEF Submit, Inv, Owing
  <2> HIDE DEF new
  <2> QED  BY <1>o, <1>u, <1>w, <2>1, <2>2, RelayStepKeeps
<1>2. CASE Look(h)
  <2>1. PICK b \in BOOLEAN : relay' = [relay EXCEPT ![h].pc = "stage", ![h].retry = b]
    BY <1>2 DEF Look
  <2> DEFINE new == [[relay[h] EXCEPT !.pc = "stage"] EXCEPT !.retry = b]
  <2>2. new \in RelayType /\ new.pc = "stage" /\ new.req = relay[h].req
        /\ new.dig = relay[h].dig
    <3> DEFINE mid == [relay[h] EXCEPT !.pc = "stage"]
    <3>1. mid \in RelayType /\ mid.pc = "stage" /\ mid.req = relay[h].req
          /\ mid.dig = relay[h].dig
      BY <1>w DEF RelayType, RelayPc
    <3> HIDE DEF mid
    <3>2. /\ [mid EXCEPT !.retry = b] \in RelayType
          /\ [mid EXCEPT !.retry = b].pc = mid.pc
          /\ [mid EXCEPT !.retry = b].req = mid.req
          /\ [mid EXCEPT !.retry = b].dig = mid.dig
      BY <3>1 DEF RelayType
    <3> QED  BY <3>1, <3>2 DEF mid
  <2>3. relay' = [relay EXCEPT ![h] = new]
    BY <1>w, <2>1
  <2> HIDE DEF new
  <2>4. /\ relay' \in [Handler -> RelayType] /\ relay'[h] = new
        /\ \A g \in Handler \ {h} : relay'[g] = relay[g]
    BY <1>w, <2>2, <2>3
  <2>5. UNCHANGED store /\ relay[h].pc # "idle"
    BY <1>2 DEF Look
  <2> QED  BY <1>o, <1>q, <1>u, <2>2, <2>4, <2>5, RelayStepKeeps
<1>3. CASE Stage(h)
  <2>1. AfterStage(h) \in RelayPc \ {"idle", "restage", "finish"}
    BY DEF AfterStage, RelayPc
  <2>2. CASE /\ store[relay[h].req] = NoReview
             /\ store' = [store EXCEPT ![relay[h].req] =
                            [digest |-> relay[h].dig, evidence |-> {"staged"}]]
             /\ GoTo(h, AfterStage(h))
    <3> DEFINE row == [digest |-> relay[h].dig, evidence |-> {"staged"}]
    <3>1. row \in ReviewType /\ row.digest \in Digest /\ relay[h].req \in Request
      BY <1>3, <1>q DEF Stage, ReviewType, Evidence
    <3> HIDE DEF row
    <3>2. /\ store' \in [Request -> ReviewType]
          /\ \A r \in Request : store'[r] = IF r = relay[h].req THEN row ELSE store[r]
      BY <1>w, <2>2, <3>1 DEF row
    <3>3. Stored' /\ Grows
      BY <2>2, <3>1, <3>2 DEF Inv, Stored, Grows
    <3> QED  BY <1>3, <1>o, <1>q, <2>1, <2>2, <3>3, RelayGoes, RelayStepKeeps DEF Stage
  <2>3. CASE UNCHANGED store /\ (GoTo(h, AfterStage(h)) \/ EndRelay(h))
    BY <1>3, <1>o, <1>q, <1>u, <2>1, <2>3, RelayGoes, RelayStepKeeps DEF Stage
  <2>4. CASE /\ UNCHANGED store
             /\ store[relay[h].req] # NoReview
             /\ store[relay[h].req].evidence = {"github"}
             /\ relay' = [relay EXCEPT ![h].pc = "restage",
                                       ![h].read = store[relay[h].req].evidence]
    <3> DEFINE mid == [relay[h] EXCEPT !.pc = "restage"]
    <3>1. mid \in RelayType /\ mid.pc = "restage" /\ mid.req = relay[h].req
          /\ mid.dig = relay[h].dig
      BY <1>w DEF RelayType, RelayPc
    <3> HIDE DEF mid
    <3> DEFINE new == [mid EXCEPT !.read = {"github"}]
    <3>2. /\ new \in RelayType /\ new.pc = "restage" /\ new.req = relay[h].req
          /\ new.dig = relay[h].dig /\ new.read = {"github"}
      BY <3>1 DEF RelayType, Evidence
    <3>3. relay' = [relay EXCEPT ![h] = new]
      BY <1>w, <2>4 DEF mid
    <3> HIDE DEF new
    <3>4. Delivered(store'[relay[h].req])
      BY <2>4 DEF Delivered
    <3>5. /\ relay' \in [Handler -> RelayType] /\ relay'[h] = new
          /\ \A g \in Handler \ {h} : relay'[g] = relay[g]
      BY <1>w, <3>2, <3>3
    <3>6. UNCHANGED store /\ store[relay[h].req] # NoReview /\ relay[h].pc # "idle"
      BY <1>3, <2>4 DEF Stage
    <3> QED  BY <1>o, <1>q, <1>u, <3>2, <3>4, <3>5, <3>6, RelayStepKeeps
  <2> QED  BY <1>3, <2>2, <2>3, <2>4 DEF Stage
<1>4. CASE Restage(h)
  <2>1. /\ relay[h].req \in Request /\ store[relay[h].req] # NoReview
        /\ "github" \in relay[h].read /\ relay[h].read \subseteq Evidence
    BY <1>4, <1>q, <1>w DEF Restage, Inv, Relaying, RelayType
  <2>2. Stored' /\ Grows
    <3>1. CASE UNCHANGED store
      BY <1>u, <3>1
    <3>2. CASE store' = [store EXCEPT ![relay[h].req].evidence = relay[h].read \cup {"staged"}]
      <4>1. relay[h].read \cup {"staged"} \in SUBSET Evidence
        BY <2>1 DEF Evidence
      <4> QED  BY <2>1, <3>2, <4>1, RowReplaced
    <3> QED  BY <1>4, <3>1, <3>2 DEF Restage
  <2>3. "idle" \in RelayPc
    BY DEF RelayPc
  <2>4. /\ relay' \in [Handler -> RelayType] /\ relay'[h].pc = "idle"
        /\ \A g \in Handler \ {h} : relay'[g] = relay[g]
    BY <1>4, <2>3, RelayGoes DEF Restage
  <2> QED  BY <1>o, <2>2, <2>4, RelayStepKeeps
<1>5. CASE Reconcile(h) \/ Post(h)
  <2>1. PICK s \in {"complete", "post"} : GoTo(h, s) \/ EndRelay(h)
    BY <1>5 DEF Reconcile, Post
  <2>2. s \in RelayPc /\ relay[h].pc # "idle" /\ UNCHANGED store
    BY <1>5 DEF RelayPc, Reconcile, Post
  <2> QED  BY <1>o, <1>q, <1>u, <2>1, <2>2, RelayGoes, RelayStepKeeps
<1>6. CASE Complete(h)
  <2>1. UNCHANGED store /\ relay[h].pc # "idle"
    BY <1>6 DEF Complete
  <2>2. CASE EndRelay(h)
    <3>1. "idle" \in RelayPc
      BY DEF RelayPc
    <3> QED  BY <1>o, <1>u, <2>1, <2>2, <3>1, <1>w, RelayStepKeeps DEF EndRelay
  <2>3. CASE /\ "staged" \in store[relay[h].req].evidence
             /\ relay' = [relay EXCEPT ![h].pc = "finish",
                                       ![h].read = store[relay[h].req].evidence]
    <3> DEFINE mid == [relay[h] EXCEPT !.pc = "finish"]
    <3>1. mid \in RelayType /\ mid.pc = "finish" /\ mid.req = relay[h].req
          /\ mid.dig = relay[h].dig
      BY <1>w DEF RelayType, RelayPc
    <3> HIDE DEF mid
    <3> DEFINE new == [mid EXCEPT !.read = store[relay[h].req].evidence]
    <3>2. /\ new \in RelayType /\ new.pc = "finish" /\ new.req = relay[h].req
          /\ new.dig = relay[h].dig
      <4>1. store[relay[h].req].evidence \in SUBSET Evidence
        BY <1>q, <1>w, <2>1 DEF ReviewType
      <4> QED  BY <3>1, <4>1 DEF RelayType
    <3>3. relay' = [relay EXCEPT ![h] = new]
      BY <1>w, <2>3 DEF mid
    <3> HIDE DEF new
    <3>4. store'[relay[h].req] # NoReview
      BY <2>1, <2>3
    <3> QED  BY <1>o, <1>q, <1>u, <1>w, <2>1, <3>2, <3>3, <3>4, RelayStepKeeps
  <2> QED  BY <1>6, <2>2, <2>3 DEF Complete
<1>7. CASE Finish(h)
  <2>1. /\ relay[h].req \in Request /\ store[relay[h].req] # NoReview
        /\ relay[h].read \subseteq Evidence
    BY <1>7, <1>q, <1>w DEF Finish, Inv, Relaying, RelayType
  <2>2. Stored' /\ Grows
    <3>1. CASE UNCHANGED store
      BY <1>u, <3>1
    <3>2. CASE store' = [store EXCEPT ![relay[h].req].evidence =
                           (relay[h].read \ {"staged"}) \cup {"relayed"}]
      <4>1. (relay[h].read \ {"staged"}) \cup {"relayed"} \in SUBSET Evidence
        BY <2>1 DEF Evidence
      <4> QED  BY <2>1, <3>2, <4>1, RowReplaced
    <3> QED  BY <1>7, <3>1, <3>2 DEF Finish
  <2>4. /\ relay' \in [Handler -> RelayType] /\ relay'[h].pc = "idle"
        /\ \A g \in Handler \ {h} : relay'[g] = relay[g]
    BY <1>7, <1>w DEF Finish, EndRelay
  <2> QED  BY <1>o, <2>2, <2>4, RelayStepKeeps
<1> QED  BY <1>1, <1>2, <1>3, <1>4, <1>5, <1>6, <1>7

\* CrashControl and the conversation's own steps.
LEMMA OutsideKeeps ==
  ASSUME ExchangeAssumption, Inv,
         CrashControl \/ \E r \in Request, d \in Digest : Review(r, d)
  PROVE  Inv' /\ Grows
<1>1. UNCHANGED <<owed, engine, store>>
  BY DEF CrashControl, Review
<1>2. Stored' /\ Grows /\ Owing' /\ Turning'
  BY <1>1, TurningKept DEF Inv, Stored, Grows, Owing, owed
<1>3. Relaying'
  <2>1. CASE UNCHANGED relay
    BY <1>1, <1>2, <2>1, RelayingKept DEF owed
  <2>2. CASE relay' = [h \in Handler |-> NoHandler]
    BY <2>2, NoTurnFacts DEF Relaying
  <2> QED  BY <2>1, <2>2 DEF CrashControl, Review
<1> QED  BY <1>2, <1>3 DEF Inv

LEMMA NextKeeps ==
  ASSUME ExchangeAssumption, Inv, [Next]_vars
  PROVE  Inv' /\ Grows
<1>1. CASE UNCHANGED vars
  <2>1. UNCHANGED <<owed, store, engine, relay>>
    BY <1>1 DEF vars
  <2> QED  BY <2>1 DEF owed, Inv, Owing, Stored, Turning, Relaying, Grows
<1>2. CASE EngineNext
  <2>1. CASE \E c \in Candidate, p \in Provider :
               Resolve(c, p) \/ Consult \/ Publish \/ Record \/ Retire \/ Withdraw
    <3>1. Inv'
      BY <2>1, AskingKeeps
    <3>2. UNCHANGED store
      BY <2>1 DEF Resolve, Consult, Publish, Record, Retire, Withdraw
    <3> QED  BY <3>1, <3>2 DEF Inv, Stored, Grows
  <2>2. CASE Poll \/ StopWaiting \/ Accept \/ Rewrite \/ Discharge \/ CrashEngine
    BY <2>2, AnsweringKeeps
  <2>3. (\E c \in Candidate : TRUE) /\ (\E p \in Provider : TRUE)
    BY DEF ExchangeAssumption
  <2> QED  BY <1>2, <2>1, <2>2, <2>3 DEF EngineNext
<1>3. CASE RelayNext
  BY <1>3, RelayKeeps, OutsideKeeps DEF RelayNext
<1>4. CASE \E r \in Request, d \in Digest : Review(r, d)
  BY <1>4, OutsideKeeps
<1> QED  BY <1>1, <1>2, <1>3, <1>4 DEF Next

----------------------------------------------------------------------------
\* The requests with a delivered answer, and what a growing store does to them.
DeliveredIn == {r \in Request : Delivered(store[r])}

LEMMA InitPromises == ExchangeAssumption /\ Init => Promise!Init
<1> SUFFICES ASSUME ExchangeAssumption, Init PROVE Promise!Init
  OBVIOUS
<1>1. asked = {} \/ asked = {1}
  BY DEF Init
<1>2. \A r \in Request : ~Delivered(store[r])
  BY NoTurnFacts DEF Init, Delivered
<1>3. Delivery = << >>
  BY <1>2 DEF Delivery
<1> QED  BY <1>1, <1>3 DEF Promise!Init, Init

\* A store whose delivered reviews stay the same shows the promise nothing.
LEMMA SameDelivery ==
  ASSUME Inv, Grows, DeliveredIn' = DeliveredIn
  PROVE  UNCHANGED Delivery
<1>1. \A r \in DeliveredIn : store'[r].digest = store[r].digest
  BY DEF DeliveredIn, Grows, Delivered, NoReview
<1> QED  BY <1>1 DEF Delivery, DeliveredIn

\* One that delivers a review more answers its request.
LEMMA OneMoreDelivery ==
  ASSUME Inv, Grows, NEW r \in Request, r \in asked, r \notin DeliveredIn,
         store[r] # NoReview \/ store'[r].digest \in Digest,
         DeliveredIn' = DeliveredIn \cup {r},
         UNCHANGED <<asked, open, released>>
  PROVE  Promise!Answer(r, store'[r].digest)
<1>1. DOMAIN Delivery = DeliveredIn
  BY DEF Delivery, DeliveredIn
<1>2. \A q \in DeliveredIn : store'[q].digest = store[q].digest
  BY DEF DeliveredIn, Grows, Delivered, NoReview
<1>3. Delivery' = [q \in DeliveredIn \cup {r} |-> store'[q].digest]
  BY DEF Delivery, DeliveredIn
<1>4. Delivery' = [q \in DOMAIN Delivery \cup {r} |->
                     IF q = r THEN store'[r].digest ELSE Delivery[q]]
  BY <1>1, <1>2, <1>3 DEF Delivery, DeliveredIn
<1> QED  BY <1>1, <1>4 DEF Promise!Answer

\* A step that writes at most one review of the store, of a request asked for.
LEMMA WriteRefines ==
  ASSUME Inv, Grows, NEW r \in Request, r \in asked,
         \A q \in Request \ {r} : store'[q] = store[q],
         Delivered(store'[r]) => store'[r].digest \in Digest,
         UNCHANGED <<asked, open, released>>
  PROVE  [Promise!Next]_(Promise!vars)
<1>1. CASE DeliveredIn' = DeliveredIn
  BY <1>1, SameDelivery DEF Promise!vars
<1>2. CASE DeliveredIn' # DeliveredIn
  <2>1. \A q \in Request : Delivered(store[q]) => Delivered(store'[q])
    BY DEF Grows, Delivered, NoReview
  <2>2. r \notin DeliveredIn /\ DeliveredIn' = DeliveredIn \cup {r} /\ Delivered(store'[r])
    BY <1>2, <2>1 DEF DeliveredIn
  <2>3. Promise!Answer(r, store'[r].digest) /\ store'[r].digest \in Digest
    BY <2>2, OneMoreDelivery
  <2>4. r \in Promise!Request
    BY DEF Promise!Request, Request
  <2> QED  BY <2>3, <2>4 DEF Promise!Next
<1> QED  BY <1>1, <1>2

LEMMA StoreUntouched ==
  ASSUME Inv, Grows, UNCHANGED store PROVE UNCHANGED Delivery
BY SameDelivery DEF DeliveredIn

\* The three steps the promise sees of the turn itself.
LEMMA RecordRefines ==
  ASSUME ExchangeAssumption, Inv, Grows, Record
  PROVE  [Promise!Next]_(Promise!vars)
<1>1. UNCHANGED <<store, released>> /\ UNCHANGED Delivery
  BY StoreUntouched DEF Record
<1>2. CASE UNCHANGED <<asked, open>>
  BY <1>1, <1>2 DEF Promise!vars
<1>3. CASE asked' = asked \cup {engine.req} /\ open' = open \cup {engine.req}
  <2>1. /\ engine.req \in Request /\ asked \subseteq 1..(engine.req - 1)
        /\ open = IF engine.have = 0 THEN {} ELSE {engine.have}
    BY DEF Record, Inv, Turning
  <2>2. \A q \in asked : q < engine.req
    BY <2>1 DEF Request, ExchangeAssumption
  <2>3. \A p, q \in open : p = q
    BY <2>1
  <2>4. Promise!Ask(engine.req)
    BY <1>1, <1>3, <2>2, <2>3 DEF Promise!Ask
  <2> QED  BY <2>1, <2>4 DEF Promise!Next, Promise!Request, Request
<1> QED  BY <1>2, <1>3 DEF Record

LEMMA RetireRefines ==
  ASSUME ExchangeAssumption, Inv, Grows, Retire
  PROVE  [Promise!Next]_(Promise!vars)
<1>1. UNCHANGED <<asked, store, released>> /\ UNCHANGED Delivery
  BY StoreUntouched DEF Retire
<1>2. CASE UNCHANGED open
  BY <1>1, <1>2 DEF Promise!vars
<1>3. CASE open' = open \ {engine.have}
  <2>1. open = {engine.have, engine.req} /\ engine.have < engine.req
    BY DEF Retire, Inv, Turning
  <2>2. Promise!Replace(engine.have)
    BY <1>1, <1>3, <2>1 DEF Promise!Replace
  <2>3. engine.have \in Request
    <3>1. engine.have \in 1..minted /\ minted \in 0..MaxRequest
      BY <2>1 DEF Inv, Owing
    <3> QED  BY <3>1 DEF Request, ExchangeAssumption
  <2> QED  BY <2>2, <2>3 DEF Promise!Next, Promise!Request, Request
<1> QED  BY <1>2, <1>3 DEF Retire

LEMMA DischargeRefines ==
  ASSUME ExchangeAssumption, Inv, Grows, Discharge
  PROVE  [Promise!Next]_(Promise!vars)
<1>1. UNCHANGED <<asked, store>> /\ UNCHANGED Delivery
  BY StoreUntouched DEF Discharge
<1>2. CASE UNCHANGED <<open, released>>
  BY <1>1, <1>2 DEF Promise!vars
<1>3. CASE /\ open' = open \ {engine.req}
           /\ released' = released \cup {<<engine.req, engine.got>>}
  <2>1. /\ open = {engine.req} /\ engine.req \in Request
        /\ Delivered(store[engine.req]) /\ store[engine.req].digest = engine.got
    BY DEF Discharge, Inv, Turning
  <2>2. engine.req \in DOMAIN Delivery /\ Delivery[engine.req] = engine.got
    BY <2>1 DEF Delivery
  <2>3. Promise!Tell(engine.req)
    BY <1>1, <1>3, <2>1, <2>2 DEF Promise!Tell
  <2> QED  BY <2>1, <2>3 DEF Promise!Next, Promise!Request, Request
<1> QED  BY <1>2, <1>3 DEF Discharge

\* What answers a request is a write of one review; all else it does not see.
LEMMA EngineRefines ==
  ASSUME ExchangeAssumption, Inv, Grows, Inv', EngineNext
  PROVE  [Promise!Next]_(Promise!vars)
<1>1. CASE Record \/ Retire \/ Discharge
  BY <1>1, RecordRefines, RetireRefines, DischargeRefines
<1>2. CASE Accept \/ Rewrite
  <2>1. /\ engine.req \in Request /\ engine.req \in asked
        /\ UNCHANGED <<asked, open, released>>
    BY <1>2 DEF Accept, Rewrite, Inv, Owing, Turning, owed
  <2>2. store \in [Request -> ReviewType] /\ store' \in [Request -> ReviewType]
    BY DEF Inv, Stored
  <2>3. \A q \in Request \ {engine.req} : store'[q] = store[q]
    BY <1>2, <2>2 DEF Accept, Rewrite
  <2>4. Delivered(store'[engine.req]) => store'[engine.req].digest \in Digest
    <3>1. Delivered(store'[engine.req]) => store'[engine.req] # NoReview
      BY DEF Delivered, NoReview
    <3> QED  BY <2>1, <3>1 DEF Inv, Stored
  <2> QED  BY <2>1, <2>3, <2>4, WriteRefines
<1>3. CASE UNCHANGED <<asked, open, released, store>>
  BY <1>3, StoreUntouched DEF Promise!vars
<1>4. CASE \/ \E c \in Candidate, p \in Provider : Resolve(c, p)
           \/ Consult \/ Publish \/ Withdraw \/ Poll \/ StopWaiting \/ CrashEngine
  <2>1. UNCHANGED <<asked, open, released, store>>
    BY <1>4 DEF Resolve, Consult, Publish, Withdraw, Poll, StopWaiting, CrashEngine, owed
  <2> QED  BY <1>3, <2>1
<1> QED  BY <1>1, <1>2, <1>4 DEF EngineNext

LEMMA RelayRefines ==
  ASSUME ExchangeAssumption, Inv, Grows, Inv', RelayNext
  PROVE  [Promise!Next]_(Promise!vars)
<1>1. UNCHANGED <<asked, open, released>>
  BY DEF RelayNext, Submit, Look, Stage, Restage, Reconcile, Post, Complete, Finish,
         CrashControl, owed
<1>2. ASSUME NEW h \in Handler, Stage(h) \/ Restage(h) \/ Finish(h)
      PROVE  [Promise!Next]_(Promise!vars)
  <2>1. relay[h].req \in asked /\ relay[h].req \in Request
    BY <1>2 DEF Stage, Restage, Finish, Inv, Relaying, RelayType
  <2>2. store \in [Request -> ReviewType] /\ store' \in [Request -> ReviewType]
    BY DEF Inv, Stored
  <2>3. \A q \in Request \ {relay[h].req} : store'[q] = store[q]
    BY <1>2, <2>2 DEF Stage, Restage, Finish
  <2>4. Delivered(store'[relay[h].req]) => store'[relay[h].req].digest \in Digest
    <3>1. Delivered(store'[relay[h].req]) => store'[relay[h].req] # NoReview
      BY DEF Delivered, NoReview
    <3> QED  BY <2>1, <3>1 DEF Inv, Stored
  <2> QED  BY <1>1, <2>1, <2>3, <2>4, WriteRefines
<1>3. CASE UNCHANGED store
  BY <1>1, <1>3, StoreUntouched DEF Promise!vars
<1>4. \/ \E h \in Handler : Stage(h) \/ Restage(h) \/ Finish(h)
      \/ UNCHANGED store
  BY DEF RelayNext, Submit, Look, Reconcile, Post, Complete, CrashControl
<1> QED  BY <1>2, <1>3, <1>4

\* The exchange implements its promise: a request is owed until its one answer
\* is told or a later request is owed in its place, whatever call fails, whoever
\* submits at the same time and whichever process dies (runner.go:188).
THEOREM ExchangeImplementsPromise ==
  ASSUME ExchangeAssumption PROVE Spec => ImplementsReviewPromise
<1>1. Init => Inv
  BY InvInit
<1>2. Inv /\ [Next]_vars => Inv'
  BY NextKeeps
<1>3. Init => Promise!Init
  BY InitPromises
<1>4. Inv /\ [Next]_vars => [Promise!Next]_(Promise!vars)
  <2> SUFFICES ASSUME Inv, [Next]_vars PROVE [Promise!Next]_(Promise!vars)
    OBVIOUS
  <2>1. Inv' /\ Grows
    BY NextKeeps
  <2>2. CASE EngineNext
    BY <2>1, <2>2, EngineRefines
  <2>3. CASE RelayNext
    BY <2>1, <2>3, RelayRefines
  <2>4. CASE UNCHANGED vars \/ \E r \in Request, d \in Digest : Review(r, d)
    <3>1. UNCHANGED <<asked, open, released, store>>
      BY <2>4 DEF vars, Review, owed
    <3> QED  BY <2>1, <3>1, StoreUntouched DEF Promise!vars
  <2> QED  BY <2>2, <2>3, <2>4 DEF Next
<1> QED  BY <1>1, <1>2, <1>3, <1>4, PTL DEF Spec, ImplementsReviewPromise, Promise!Spec

----------------------------------------------------------------------------
\* What the store says of a relay's publication is true of the conversation, and
\* so is what a submission or the turn has read and may still write.
Proven(r) == receipts[<<r, store[r].digest>>] > 0

Published ==
  /\ receipts \in [Answer -> Nat]
  /\ \A r \in Request : "relayed" \in store[r].evidence => Proven(r)
  /\ engine.pc = "rewrite" /\ "relayed" \in engine.read => Proven(engine.req)
  /\ \A h \in Handler :
       /\ relay[h].pc \in {"reconcile", "post", "complete", "finish"}
            => /\ store[relay[h].req] # NoReview
               /\ store[relay[h].req].digest = relay[h].dig
       /\ relay[h].pc \in {"complete", "finish"}
            => receipts[<<relay[h].req, relay[h].dig>>] > 0
       /\ relay[h].pc = "restage" => "relayed" \notin relay[h].read

\* The conversation's receipts are only added to.
Posting == /\ receipts' \in [Answer -> Nat]
           /\ \A a \in Answer : receipts[a] > 0 => receipts'[a] > 0

LEMMA PostingNext ==
  ASSUME ExchangeAssumption, Published, [Next]_vars PROVE Posting
<1>1. CASE UNCHANGED receipts
  BY <1>1 DEF Published, Posting
<1>2. ASSUME NEW h \in Handler, Post(h) PROVE Posting
  <2>1. UNCHANGED receipts
          \/ receipts' = [receipts EXCEPT ![<<relay[h].req, relay[h].dig>>] = @ + 1]
    BY <1>2 DEF Post
  <2> QED  BY <1>1, <2>1 DEF Published, Posting
<1>3. (\E h \in Handler : Post(h)) \/ UNCHANGED receipts
  BY DEF Next, vars, mailbox, EngineNext, RelayNext, Resolve, Consult, Publish, Record, Retire,
         Withdraw, Poll, StopWaiting, Accept, Rewrite, Discharge, CrashEngine, Submit,
         Look, Stage, Restage, Reconcile, Complete, Finish, CrashControl, Review
<1> QED  BY <1>1, <1>2, <1>3

\* A submission that did not move keeps what it relies on.
LEMMA PublishedOfOthers ==
  ASSUME ExchangeAssumption, Inv, Grows, Published, Posting, NEW g \in Handler,
         relay'[g] = relay[g]
  PROVE  /\ relay'[g].pc \in {"reconcile", "post", "complete", "finish"}
              => /\ store'[relay'[g].req] # NoReview
                 /\ store'[relay'[g].req].digest = relay'[g].dig
         /\ relay'[g].pc \in {"complete", "finish"}
              => receipts'[<<relay'[g].req, relay'[g].dig>>] > 0
         /\ relay'[g].pc = "restage" => "relayed" \notin relay'[g].read
<1>1. relay[g].req \in Request
  BY DEF Inv, Relaying, RelayType
<1>2. relay[g].pc \in {"complete", "finish"} => <<relay[g].req, relay[g].dig>> \in Answer
  BY <1>1 DEF Inv, Relaying, Answer
<1> QED  BY <1>1, <1>2 DEF Published, Posting, Grows

\* A row of a review that was proven published stays so.
LEMMA ProvenStays ==
  ASSUME Inv, Grows, Posting, NEW r \in Request, store[r] # NoReview, Proven(r)
  PROVE  Proven(r)'
<1>1. store[r].digest \in Digest /\ store'[r].digest = store[r].digest
  BY DEF Inv, Stored, Grows
<1> QED  BY <1>1 DEF Proven, Posting, Answer

LEMMA EnginePublished ==
  ASSUME ExchangeAssumption, Inv, Inv', Grows, Published, Posting, EngineNext
  PROVE  Published'
<1>1. UNCHANGED relay
  BY DEF EngineNext, Resolve, Consult, Publish, Record, Retire, Withdraw, Poll,
         StopWaiting, Accept, Rewrite, Discharge, CrashEngine
<1>t. /\ engine \in EngineType /\ engine' \in EngineType
      /\ store \in [Request -> ReviewType] /\ store' \in [Request -> ReviewType]
  BY DEF Inv, Turning, Stored
<1>2. \A r \in Request : "relayed" \in store'[r].evidence => Proven(r)'
  <2>1. ASSUME NEW r \in Request, "relayed" \in store'[r].evidence
        PROVE  store[r] # NoReview /\ Proven(r)
    <3>1. CASE "relayed" \in store[r].evidence
      BY <3>1, NoTurnFacts DEF Published
    <3>2. CASE "relayed" \notin store[r].evidence
      <4>1. Rewrite /\ engine.req = r /\ store' # store
        <5>1. CASE UNCHANGED store
          BY <2>1, <3>2, <5>1
        <5>2. CASE Accept /\ ~UNCHANGED store
          <6>1. store' = [store EXCEPT ![engine.req] =
                            [digest |-> engine.got, evidence |-> {"github"}]]
            BY <5>2 DEF Accept
          <6>2. store'[r].evidence = {"github"} \/ store'[r] = store[r]
            BY <1>t, <6>1
          <6> QED  BY <2>1, <3>2, <6>2
        <5>3. CASE Rewrite /\ ~UNCHANGED store
          <6>1. store' = [store EXCEPT ![engine.req].evidence = engine.read \cup {"github"}]
            BY <5>3 DEF Rewrite
          <6>2. engine.req = r
            BY <1>t, <2>1, <3>2, <6>1
          <6> QED  BY <5>3, <6>2
        <5>4. Accept \/ Rewrite \/ UNCHANGED store
          BY DEF EngineNext, Resolve, Consult, Publish, Record, Retire, Withdraw, Poll,
                 StopWaiting, Discharge, CrashEngine
        <5> QED  BY <5>1, <5>2, <5>3, <5>4
      <4>2. store'[r].evidence = engine.read \cup {"github"}
        BY <1>t, <4>1 DEF Rewrite, ReviewType
      <4> QED  BY <2>1, <4>1, <4>2 DEF Rewrite, Published, Inv, Turning
    <3> QED  BY <3>1, <3>2
  <2> QED  BY <2>1, ProvenStays
<1>3. engine'.pc = "rewrite" /\ "relayed" \in engine'.read => Proven(engine.req)'
  <2>1. SUFFICES ASSUME engine'.pc = "rewrite", "relayed" \in engine'.read
                 PROVE  Proven(engine.req)'
    OBVIOUS
  <2>2. Accept /\ engine' = [engine EXCEPT !.pc = "rewrite",
                                           !.read = store[engine.req].evidence]
    BY <1>t, <2>1, NoTurnFacts
       DEF EngineType, EngineNext, Resolve, Consult, Publish, Record, Retire, Withdraw, Poll,
           StopWaiting, Accept, Rewrite, Discharge, CrashEngine, EndTurn
  <2>3. engine'.req = engine.req /\ engine'.read = store[engine.req].evidence
    BY <1>t, <2>2 DEF EngineType
  <2>4. engine.req \in Request /\ store[engine.req] # NoReview
    BY <2>1, <2>2, <2>3, NoTurnFacts DEF Accept, Inv, Turning
  <2> QED  BY <2>1, <2>3, <2>4, ProvenStays DEF Published
<1>4. ASSUME NEW h \in Handler
      PROVE  /\ relay'[h].pc \in {"reconcile", "post", "complete", "finish"}
                  => /\ store'[relay'[h].req] # NoReview
                     /\ store'[relay'[h].req].digest = relay'[h].dig
             /\ relay'[h].pc \in {"complete", "finish"}
                  => receipts'[<<relay'[h].req, relay'[h].dig>>] > 0
             /\ relay'[h].pc = "restage" => "relayed" \notin relay'[h].read
  <2>1. relay'[h] = relay[h]
    BY <1>1
  <2> QED  BY <2>1, PublishedOfOthers
<1>5. receipts' \in [Answer -> Nat]
  BY DEF Posting
<1> QED  BY <1>2, <1>3, <1>4, <1>5 DEF Published

\* What a submission relies on after its own step.
RelyOn(h) ==
  /\ relay[h].pc \in {"reconcile", "post", "complete", "finish"}
       => /\ store[relay[h].req] # NoReview
          /\ store[relay[h].req].digest = relay[h].dig
  /\ relay[h].pc \in {"complete", "finish"}
       => receipts[<<relay[h].req, relay[h].dig>>] > 0
  /\ relay[h].pc = "restage" => "relayed" \notin relay[h].read

LEMMA SubmissionRelies ==
  ASSUME ExchangeAssumption, Inv, Inv', Grows, Published, Posting, NEW h \in Handler,
         \/ \E r \in Request, d \in Digest : Submit(h, r, d)
         \/ Look(h) \/ Stage(h) \/ Restage(h) \/ Reconcile(h)
         \/ Post(h) \/ Complete(h) \/ Finish(h)
  PROVE  RelyOn(h)'
<1> USE NoTurnFacts
<1>w. /\ relay \in [Handler -> RelayType] /\ relay' \in [Handler -> RelayType]
      /\ store \in [Request -> ReviewType] /\ store' \in [Request -> ReviewType]
  BY DEF Inv, Relaying, Stored
<1>q. relay[h].pc # "idle" => /\ relay[h].req \in Request /\ relay[h].dig \in Digest
                              /\ <<relay[h].req, relay[h].dig>> \in Answer
  BY <1>w DEF Inv, Relaying, RelayType, Answer
<1>0. CASE relay'[h].pc \in {"idle", "look", "stage"}
  BY <1>0 DEF RelyOn
<1>1. CASE (\E r \in Request, d \in Digest : Submit(h, r, d)) \/ Look(h)
  <2>1. relay'[h].pc \in {"look", "stage"}
    <3>1. CASE \E r \in Request, d \in Digest : Submit(h, r, d)
      <4>1. PICK r \in Request, d \in Digest :
              relay' = [relay EXCEPT ![h] = [NoHandler EXCEPT !.pc = "look", !.req = r,
                                                              !.dig = d]]
        BY <3>1 DEF Submit
      <4>2. [NoHandler EXCEPT !.pc = "look", !.req = r, !.dig = d].pc = "look"
        <5> HIDE DEF NoHandler
        <5> QED  BY DEF RelayType
      <4> QED  BY <1>w, <4>1, <4>2
    <3>2. CASE Look(h)
      <4>1. PICK b : relay' = [relay EXCEPT ![h].pc = "stage", ![h].retry = b]
        BY <3>2 DEF Look
      <4> QED  BY <1>w, <4>1 DEF RelayType
    <3> QED  BY <1>1, <3>1, <3>2
  <2> QED  BY <1>0, <2>1
<1>2. CASE Stage(h)
  <2>1. AfterStage(h) \in {"reconcile", "post"} /\ AfterStage(h) \in RelayPc
    BY DEF AfterStage, RelayPc
  <2>2. CASE GoTo(h, AfterStage(h))
    <3>1. \/ /\ relay'[h].pc \in {"reconcile", "post"}
             /\ relay'[h].req = relay[h].req
             /\ relay'[h].dig = relay[h].dig
          \/ relay'[h].pc = "idle"
      BY <2>1, <2>2, RelayGoes
    <3>2. store'[relay[h].req] # NoReview /\ store'[relay[h].req].digest = relay[h].dig
      <4>1. CASE store' = [store EXCEPT ![relay[h].req] =
                              [digest |-> relay[h].dig, evidence |-> {"staged"}]]
        <5>1. store'[relay[h].req] = [digest |-> relay[h].dig, evidence |-> {"staged"}]
          BY <1>2, <1>q, <1>w, <4>1 DEF Stage
        <5> QED  BY <5>1
      <4>2. CASE UNCHANGED store /\ store[relay[h].req] # NoReview
                 /\ store[relay[h].req].digest = relay[h].dig
        BY <4>2
      <4>3. CASE UNCHANGED store /\ ~(store[relay[h].req] # NoReview
                                        /\ store[relay[h].req].digest = relay[h].dig)
        <5>1. EndRelay(h) \/ relay' = [relay EXCEPT ![h].pc = "restage",
                                         ![h].read = store[relay[h].req].evidence]
               \/ store' = [store EXCEPT ![relay[h].req] =
                              [digest |-> relay[h].dig, evidence |-> {"staged"}]]
          BY <1>2, <4>3 DEF Stage
        <5>2. relay'[h].pc \in {"reconcile", "post"}
          BY <1>w, <2>1, <2>2 DEF GoTo, RelayType
        <5>3. EndRelay(h) => relay'[h].pc = "idle"
          BY <1>w DEF EndRelay
        <5>4. relay' = [relay EXCEPT ![h].pc = "restage",
                          ![h].read = store[relay[h].req].evidence]
                => relay'[h].pc = "restage"
          BY <1>w DEF RelayType
        <5> QED  BY <4>1, <5>1, <5>2, <5>3, <5>4
      <4> QED  BY <1>2, <4>1, <4>2, <4>3 DEF Stage
    <3> QED  BY <3>1, <3>2 DEF RelyOn
  <2>3. CASE EndRelay(h)
    BY <1>w, <1>0, <2>3 DEF EndRelay
  <2>4. CASE /\ store[relay[h].req].evidence = {"github"}
             /\ relay' = [relay EXCEPT ![h].pc = "restage",
                                       ![h].read = store[relay[h].req].evidence]
    <3>1. relay'[h].pc = "restage" /\ relay'[h].read = {"github"}
      BY <1>w, <2>4 DEF RelayType
    <3> QED  BY <3>1 DEF RelyOn
  <2> QED  BY <1>2, <2>2, <2>3, <2>4 DEF Stage
<1>3. CASE Restage(h) \/ Finish(h)
  BY <1>w, <1>0, <1>3 DEF Restage, Finish, EndRelay
<1>4. CASE Reconcile(h) \/ Post(h)
  <2>1. relay[h].pc \in {"reconcile", "post"} /\ UNCHANGED store
    BY <1>4 DEF Reconcile, Post
  <2>2. CASE EndRelay(h)
    BY <1>w, <1>0, <2>2 DEF EndRelay
  <2>3. ASSUME NEW s \in {"post", "complete"}, GoTo(h, s),
               s = "complete" => receipts'[<<relay[h].req, relay[h].dig>>] > 0
        PROVE  RelyOn(h)'
    <3>1. relay'[h].pc = s /\ relay'[h].req = relay[h].req /\ relay'[h].dig = relay[h].dig
      BY <1>w, <2>3 DEF GoTo, RelayType
    <3> QED  BY <2>1, <2>3, <3>1 DEF RelyOn, Published
  <2>4. CASE Reconcile(h)
    <3>1. CASE GoTo(h, "post")
      BY <2>3, <3>1
    <3>2. CASE GoTo(h, "complete") /\ receipts[<<relay[h].req, relay[h].dig>>] > 0
      BY <1>q, <2>1, <2>3, <3>2 DEF Posting
    <3> QED  BY <2>2, <2>4, <3>1, <3>2 DEF Reconcile
  <2>5. CASE Post(h) /\ ~EndRelay(h)
    <3>1. /\ GoTo(h, "complete")
          /\ receipts' = [receipts EXCEPT ![<<relay[h].req, relay[h].dig>>] = @ + 1]
      BY <2>5 DEF Post
    <3>2. receipts'[<<relay[h].req, relay[h].dig>>] > 0
      BY <1>q, <2>1, <3>1 DEF Published
    <3> QED  BY <2>3, <3>1, <3>2
  <2> QED  BY <1>4, <2>2, <2>4, <2>5
<1>5. CASE Complete(h)
  <2>1. relay[h].pc = "complete" /\ UNCHANGED store
    BY <1>5 DEF Complete
  <2>2. CASE EndRelay(h)
    BY <1>w, <1>0, <2>2 DEF EndRelay
  <2>3. CASE relay' = [relay EXCEPT ![h].pc = "finish",
                                    ![h].read = store[relay[h].req].evidence]
    <3>1. relay'[h].pc = "finish" /\ relay'[h].req = relay[h].req
          /\ relay'[h].dig = relay[h].dig
      BY <1>w, <2>3 DEF RelayType
    <3> QED  BY <1>q, <2>1, <3>1 DEF RelyOn, Published, Posting
  <2> QED  BY <1>5, <2>2, <2>3 DEF Complete
<1> QED  BY <1>1, <1>2, <1>3, <1>4, <1>5

LEMMA RelayPublished ==
  ASSUME ExchangeAssumption, Inv, Inv', Grows, Published, Posting, NEW h \in Handler,
         \/ \E r \in Request, d \in Digest : Submit(h, r, d)
         \/ Look(h) \/ Stage(h) \/ Restage(h) \/ Reconcile(h)
         \/ Post(h) \/ Complete(h) \/ Finish(h)
  PROVE  Published'
<1>w. /\ relay \in [Handler -> RelayType]
      /\ store \in [Request -> ReviewType] /\ store' \in [Request -> ReviewType]
  BY DEF Inv, Relaying, Stored
<1>1. UNCHANGED engine /\ receipts' \in [Answer -> Nat]
  BY DEF Submit, Look, Stage, Restage, Reconcile, Post, Complete, Finish, Posting
<1>2. \A g \in Handler : RelyOn(g)'
  <2>1. RelyOn(h)'
    BY SubmissionRelies
  <2>2. ASSUME NEW g \in Handler, g # h PROVE RelyOn(g)'
    <3>1. relay'[g] = relay[g]
      BY <1>w, <2>2 DEF Submit, Look, Stage, Restage, Reconcile, Post, Complete, Finish,
                        GoTo, EndRelay
    <3> QED  BY <3>1, PublishedOfOthers DEF RelyOn
  <2> QED  BY <2>1, <2>2
<1>3. \A r \in Request : "relayed" \in store'[r].evidence => Proven(r)'
  <2>1. ASSUME NEW r \in Request, "relayed" \in store'[r].evidence
        PROVE  store[r] # NoReview /\ Proven(r)
    <3>1. CASE "relayed" \in store[r].evidence
      BY <3>1, NoTurnFacts DEF Published
    <3>2. CASE "relayed" \notin store[r].evidence
      <4> DEFINE q == relay[h].req
      <4>1. CASE UNCHANGED store
        BY <2>1, <3>2, <4>1
      <4>2. CASE store' = [store EXCEPT ![q] =
                             [digest |-> relay[h].dig, evidence |-> {"staged"}]]
        <5>1. store'[r].evidence = {"staged"} \/ store'[r] = store[r]
          BY <1>w, <4>2
        <5> QED  BY <2>1, <3>2, <5>1
      <4>3. CASE Restage(h) /\ ~UNCHANGED store
        <5>1. /\ store' = [store EXCEPT ![q].evidence = relay[h].read \cup {"staged"}]
              /\ "relayed" \notin relay[h].read
          BY <4>3 DEF Restage, Published
        <5>2. store'[r].evidence = relay[h].read \cup {"staged"} \/ store'[r] = store[r]
          BY <1>w, <5>1 DEF ReviewType
        <5> QED  BY <2>1, <3>2, <5>1, <5>2
      <4>4. CASE Finish(h) /\ ~UNCHANGED store
        <5>1. store' = [store EXCEPT ![q].evidence =
                          (relay[h].read \ {"staged"}) \cup {"relayed"}]
          BY <4>4 DEF Finish
        <5>2. q = r
          BY <1>w, <2>1, <3>2, <5>1
        <5> QED  BY <4>4, <5>2 DEF Finish, Published, Proven
      <4>5. \/ UNCHANGED store \/ Restage(h) \/ Finish(h)
            \/ store' = [store EXCEPT ![q] =
                           [digest |-> relay[h].dig, evidence |-> {"staged"}]]
        BY DEF Submit, Look, Stage, Reconcile, Post, Complete
      <4> QED  BY <4>1, <4>2, <4>3, <4>4, <4>5
    <3> QED  BY <3>1, <3>2
  <2> QED  BY <2>1, ProvenStays
<1>4. (engine.pc = "rewrite" /\ "relayed" \in engine.read => Proven(engine.req))'
  <2>1. engine.pc = "rewrite" => engine.req \in Request /\ store[engine.req] # NoReview
    BY DEF Inv, Turning
  <2> QED  BY <1>1, <2>1, ProvenStays DEF Published
<1> QED  BY <1>1, <1>2, <1>3, <1>4 DEF Published, RelyOn

LEMMA OutsidePublished ==
  ASSUME ExchangeAssumption, Inv, Inv', Grows, Published, Posting,
         \/ UNCHANGED vars \/ CrashControl \/ \E r \in Request, d \in Digest : Review(r, d)
  PROVE  Published'
<1>1. UNCHANGED <<store, engine>>
  BY DEF vars, CrashControl, Review
<1>2. \A r \in Request : "relayed" \in store'[r].evidence => Proven(r)'
  BY <1>1, ProvenStays, NoTurnFacts DEF Published
<1>3. (engine.pc = "rewrite" /\ "relayed" \in engine.read => Proven(engine.req))'
  <2>1. engine.pc = "rewrite" => engine.req \in Request /\ store[engine.req] # NoReview
    BY DEF Inv, Turning
  <2> QED  BY <1>1, <2>1, ProvenStays DEF Published
<1>4. ASSUME NEW g \in Handler PROVE RelyOn(g)'
  <2>1. relay'[g] = relay[g] \/ relay'[g].pc = "idle"
    BY NoTurnFacts DEF vars, CrashControl, Review
  <2> QED  BY <2>1, PublishedOfOthers DEF RelyOn
<1>5. receipts' \in [Answer -> Nat]
  BY DEF Posting
<1> QED  BY <1>2, <1>3, <1>4, <1>5 DEF Published, RelyOn

\* A review counts as delivered by the relay only when the publisher's receipt of
\* that very review stands on the conversation, for any number of submissions,
\* retries, failures and deaths (relay.go:360).
THEOREM RelayedArePublished ==
  ASSUME ExchangeAssumption PROVE Spec => []RelayedIsPublished
<1>1. Init => Inv /\ Published
  <2>1. ASSUME Init PROVE Published
    BY <2>1, NoTurnFacts DEF Init, Published
  <2> QED  BY <2>1, InvInit
<1>2. Inv /\ Published /\ [Next]_vars => Inv' /\ Published'
  <2> SUFFICES ASSUME Inv, Published, [Next]_vars PROVE Inv' /\ Published'
    OBVIOUS
  <2>1. Inv' /\ Grows /\ Posting
    BY NextKeeps, PostingNext
  <2> QED  BY <2>1, EnginePublished, RelayPublished, OutsidePublished DEF Next, RelayNext
<1>3. Published => RelayedIsPublished
  BY DEF Published, Proven, RelayedIsPublished
<1> QED  BY <1>1, <1>2, <1>3, PTL DEF Spec

----------------------------------------------------------------------------
\* No review is submitted twice at once.
SubmittedAlone ==
  \A g, h \in Handler :
    /\ relay[g].pc # "idle" /\ relay[h].pc # "idle"
    /\ relay[g].req = relay[h].req /\ relay[g].dig = relay[h].dig
    => g = h

\* A receipt is posted of the review that is stored, once; a submission that will
\* post one without looking for it finds none stored that was left undelivered,
\* and whoever is about to post finds none posted.
Fresh(h) ==
  /\ relay[h].pc = "stage" /\ ~relay[h].retry =>
       \/ store[relay[h].req] = NoReview
       \/ store[relay[h].req].digest # relay[h].dig
       \/ Delivered(store[relay[h].req])
  /\ relay[h].pc = "post" => receipts[<<relay[h].req, relay[h].dig>>] = 0

OnceInv ==
  /\ OneReceipt
  /\ \A r \in Request, d \in Digest : receipts[<<r, d>>] > 0 =>
       store[r] # NoReview /\ store[r].digest = d
  /\ \A h \in Handler : Fresh(h)

\* What is stored by others leaves a submission what it found.
LEMMA FreshKept ==
  ASSUME Inv, Grows, NEW h \in Handler, Fresh(h), relay'[h] = relay[h],
         store[relay[h].req] = NoReview /\ relay[h].pc = "stage" =>
           \/ store'[relay[h].req] = NoReview
           \/ store'[relay[h].req].digest # relay[h].dig
           \/ Delivered(store'[relay[h].req]),
         relay[h].pc = "post" =>
           receipts'[<<relay[h].req, relay[h].dig>>] = receipts[<<relay[h].req, relay[h].dig>>]
  PROVE  Fresh(h)'
<1>1. relay[h].req \in Request
  BY DEF Inv, Relaying, RelayType
<1>2. store[relay[h].req] # NoReview =>
        /\ store'[relay[h].req].digest = store[relay[h].req].digest
        /\ Delivered(store[relay[h].req]) => Delivered(store'[relay[h].req])
  BY <1>1 DEF Grows
<1> QED  BY <1>2 DEF Fresh

\* The turn, the conversation and the deaths post no receipt, and the turn stores
\* what is delivered.
LEMMA OthersOnce ==
  ASSUME ExchangeAssumption, Inv, Grows, OnceInv,
         \/ EngineNext \/ CrashControl \/ UNCHANGED vars
         \/ \E r \in Request, d \in Digest : Review(r, d)
  PROVE  OnceInv'
<1>1. receipts' = receipts
  BY DEF EngineNext, Resolve, Consult, Publish, Record, Retire, Withdraw, Poll, StopWaiting,
         Accept, Rewrite, Discharge, CrashEngine, CrashControl, Review, vars, mailbox
<1>2. \A r \in Request : store[r] = NoReview => store'[r] = NoReview \/ Delivered(store'[r])
  <2>1. \/ UNCHANGED store
        \/ store' = [store EXCEPT ![engine.req] =
                       [digest |-> engine.got, evidence |-> {"github"}]]
        \/ Rewrite /\ store' = [store EXCEPT ![engine.req].evidence =
                                  engine.read \cup {"github"}]
    BY DEF EngineNext, Resolve, Consult, Publish, Record, Retire, Withdraw, Poll, StopWaiting,
           Accept, Rewrite, Discharge, CrashEngine, CrashControl, Review, vars
  <2>2. store \in [Request -> ReviewType]
    BY DEF Inv, Stored
  <2>3. CASE store' = [store EXCEPT ![engine.req] =
                         [digest |-> engine.got, evidence |-> {"github"}]]
    BY <2>2, <2>3 DEF Delivered
  <2>4. CASE Rewrite /\ store' = [store EXCEPT ![engine.req].evidence =
                                    engine.read \cup {"github"}]
    <3>1. store[engine.req] # NoReview
      BY <2>4 DEF Rewrite, Inv, Turning
    <3> QED  BY <2>2, <2>4, <3>1
  <2> QED  BY <2>1, <2>3, <2>4
<1>3. ASSUME NEW h \in Handler PROVE Fresh(h)'
  <2>1. relay' = relay \/ CrashControl
    BY DEF EngineNext, Resolve, Consult, Publish, Record, Retire, Withdraw, Poll, StopWaiting,
           Accept, Rewrite, Discharge, CrashEngine, Review, vars
  <2>2. CASE relay' = relay
    <3>1. relay[h].req \in Request /\ Fresh(h)
      BY DEF Inv, Relaying, RelayType, OnceInv
    <3> QED  BY <1>1, <1>2, <2>2, <3>1, FreshKept
  <2>3. CASE CrashControl
    <3>1. relay'[h].pc = "idle"
      BY <2>3, NoTurnFacts DEF CrashControl
    <3> QED  BY <3>1 DEF Fresh
  <2> QED  BY <2>1, <2>2, <2>3
<1> QED  BY <1>1, <1>3 DEF OnceInv, OneReceipt, Grows

\* A submission's own step.
LEMMA SubmissionOnce ==
  ASSUME ExchangeAssumption, Inv, Inv', Grows, Published, Posting, OnceInv, SubmittedAlone,
         NEW h \in Handler,
         \/ \E r \in Request, d \in Digest : Submit(h, r, d)
         \/ Look(h) \/ Stage(h) \/ Restage(h) \/ Reconcile(h)
         \/ Post(h) \/ Complete(h) \/ Finish(h)
  PROVE  OnceInv'
<1> DEFINE r == relay[h].req
           d == relay[h].dig
<1>w. /\ relay \in [Handler -> RelayType] /\ store \in [Request -> ReviewType]
      /\ receipts \in [Answer -> Nat] /\ receipts' \in [Answer -> Nat]
  BY DEF Inv, Relaying, Stored, Published, Posting
<1>q. relay[h].pc # "idle" => r \in Request /\ d \in Digest /\ <<r, d>> \in Answer
  BY <1>w DEF Inv, Relaying, RelayType, Answer
<1>1. \A g \in Handler \ {h} : relay'[g] = relay[g]
  BY <1>w DEF Submit, Look, Stage, Restage, Reconcile, Post, Complete, Finish, GoTo, EndRelay
<1>2. \/ receipts' = receipts
      \/ Post(h) /\ receipts' = [receipts EXCEPT ![<<r, d>>] = @ + 1]
  BY DEF Submit, Look, Stage, Restage, Reconcile, Post, Complete, Finish, mailbox
<1>3. \A q \in Request : store[q] = NoReview /\ store'[q] # NoReview =>
        relay[h].pc = "stage" /\ q = r /\ store'[q].digest = d
  <2>1. \/ UNCHANGED store
        \/ Stage(h) /\ store' = [store EXCEPT ![r] = [digest |-> d, evidence |-> {"staged"}]]
        \/ /\ relay[h].pc \in {"restage", "finish"}
           /\ \E E : store' = [store EXCEPT ![r].evidence = E]
    BY DEF Submit, Look, Stage, Restage, Reconcile, Post, Complete, Finish
  <2>2. CASE Stage(h) /\ store' = [store EXCEPT ![r] = [digest |-> d, evidence |-> {"staged"}]]
    BY <1>w, <2>2 DEF Stage
  <2>3. CASE /\ relay[h].pc \in {"restage", "finish"}
             /\ \E E : store' = [store EXCEPT ![r].evidence = E]
    <3>1. store[r] # NoReview
      BY <2>3 DEF Inv, Relaying
    <3> QED  BY <1>w, <2>3, <3>1
  <2> QED  BY <2>1, <2>2, <2>3
<1>4. ASSUME NEW g \in Handler, g # h PROVE Fresh(g)'
  <2>1. /\ relay[g].pc # "idle" /\ relay[h].pc # "idle" /\ relay[g].req = r
        => relay[g].dig # d
    BY <1>4 DEF SubmittedAlone
  <2>2. relay[g].req \in Request /\ relay'[g] = relay[g] /\ Fresh(g)
    BY <1>1, <1>4, <1>w DEF RelayType, OnceInv
  <2>3. relay[g].pc = "post" =>
          receipts'[<<relay[g].req, relay[g].dig>>] = receipts[<<relay[g].req, relay[g].dig>>]
    <3>1. relay[g].pc = "post" => <<relay[g].req, relay[g].dig>> \in Answer
      BY <2>2 DEF Inv, Relaying, Answer
    <3> QED  BY <1>2, <1>w, <1>q, <2>1, <3>1 DEF Post
  <2>4. store[relay[g].req] = NoReview /\ relay[g].pc = "stage" =>
          \/ store'[relay[g].req] = NoReview
          \/ store'[relay[g].req].digest # relay[g].dig
    BY <1>3, <2>1, <2>2
  <2> QED  BY <2>2, <2>3, <2>4, FreshKept
<1>5. Fresh(h)'
  <2>0. CASE relay'[h].pc \notin {"stage", "post"}
    BY <2>0 DEF Fresh
  <2>1. CASE \E q \in Request, e \in Digest : Submit(h, q, e)
    <3>1. PICK q \in Request, e \in Digest :
            relay' = [relay EXCEPT ![h] = [NoHandler EXCEPT !.pc = "look", !.req = q,
                                                            !.dig = e]]
      BY <2>1 DEF Submit
    <3>2. [NoHandler EXCEPT !.pc = "look", !.req = q, !.dig = e].pc = "look"
      BY NoTurnFacts DEF RelayType
    <3> QED  BY <1>w, <2>0, <3>1, <3>2
  <2>2. CASE Look(h)
    <3> DEFINE again == store[r] # NoReview /\ ~Delivered(store[r])
    <3>1. relay' = [relay EXCEPT ![h].pc = "stage", ![h].retry = again] /\ UNCHANGED store
      BY <2>2 DEF Look
    <3>2. /\ relay'[h].pc = "stage" /\ relay'[h].retry = again
          /\ relay'[h].req = r /\ relay'[h].dig = d
      BY <1>w, <3>1 DEF RelayType
    <3> QED  BY <3>1, <3>2 DEF Fresh
  <2>3. CASE Stage(h)
    <3>1. AfterStage(h) \in {"reconcile", "post"} /\ AfterStage(h) \in RelayPc
      BY DEF AfterStage, RelayPc
    <3>2. CASE GoTo(h, AfterStage(h)) /\ relay'[h].pc = "post"
      <4>1. /\ relay'[h].pc = AfterStage(h) /\ relay'[h].req = r /\ relay'[h].dig = d
        BY <3>1, <3>2, RelayGoes
      <4>2. ~relay[h].retry
        BY <3>2, <4>1 DEF AfterStage
      <4>3. receipts' = receipts /\ relay[h].pc = "stage"
        BY <2>3 DEF Stage, mailbox
      <4>4. \/ store[r] = NoReview
            \/ store[r].digest # d
        <5>1. \/ store[r] = NoReview \/ store[r].digest # d \/ Delivered(store[r])
          BY <4>2, <4>3 DEF OnceInv, Fresh
        <5>2. \/ store[r] = NoReview
              \/ EndRelay(h) \/ relay' = [relay EXCEPT ![h].pc = "restage",
                                                       ![h].read = store[r].evidence]
              \/ ~Delivered(store[r])
          BY <2>3 DEF Stage
        <5>3. EndRelay(h) => relay'[h].pc = "idle"
          BY <1>w, NoTurnFacts DEF EndRelay
        <5>4. relay' = [relay EXCEPT ![h].pc = "restage", ![h].read = store[r].evidence]
                => relay'[h].pc = "restage"
          BY <1>w DEF RelayType
        <5> QED  BY <3>2, <5>1, <5>2, <5>3, <5>4
      <4>5. receipts[<<r, d>>] = 0
        BY <1>q, <1>w, <4>3, <4>4 DEF OnceInv
      <4> QED  BY <3>2, <4>1, <4>3, <4>5 DEF Fresh
    <3>3. CASE GoTo(h, AfterStage(h)) /\ relay'[h].pc # "post"
      BY <2>0, <3>1, <3>3, RelayGoes
    <3>4. EndRelay(h) => relay'[h].pc = "idle"
      BY <1>w, NoTurnFacts DEF EndRelay
    <3>5. relay' = [relay EXCEPT ![h].pc = "restage", ![h].read = store[r].evidence]
            => relay'[h].pc = "restage"
      BY <1>w DEF RelayType
    <3> QED  BY <2>0, <2>3, <3>2, <3>3, <3>4, <3>5 DEF Stage
  <2>4. CASE Reconcile(h)
    <3>1. /\ relay[h].pc = "reconcile" /\ receipts' = receipts
          /\ \/ GoTo(h, "post") /\ receipts[<<r, d>>] = 0
             \/ GoTo(h, "complete")
             \/ EndRelay(h)
      BY <1>q, <1>w, <2>4 DEF Reconcile, mailbox
    <3>2. CASE GoTo(h, "post") /\ receipts[<<r, d>>] = 0
      <4>1. \/ relay'[h].pc = "idle"
            \/ relay'[h].pc = "post" /\ relay'[h].req = r /\ relay'[h].dig = d
        BY <3>2, RelayGoes DEF RelayPc
      <4> QED  BY <2>0, <3>1, <3>2, <4>1 DEF Fresh
    <3>3. CASE GoTo(h, "complete") \/ EndRelay(h)
      BY <2>0, <3>3, RelayGoes DEF RelayPc
    <3> QED  BY <3>1, <3>2, <3>3
  <2>5. CASE Restage(h) \/ Post(h) \/ Complete(h) \/ Finish(h)
    <3>1. \/ EndRelay(h) \/ GoTo(h, "complete")
          \/ \E x : relay' = [relay EXCEPT ![h].pc = "finish", ![h].read = x]
      BY <2>5 DEF Restage, Post, Complete, Finish
    <3>2. EndRelay(h) \/ GoTo(h, "complete") => relay'[h].pc \notin {"stage", "post"}
      BY RelayGoes DEF RelayPc
    <3>3. (\E x : relay' = [relay EXCEPT ![h].pc = "finish", ![h].read = x])
            => relay'[h].pc = "finish"
      BY <1>w DEF RelayType
    <3> QED  BY <2>0, <3>1, <3>2, <3>3
  <2> QED  BY <2>1, <2>2, <2>3, <2>4, <2>5
<1>6. \A a \in Answer : receipts'[a] = receipts[a] \/ receipts'[a] = 1
  <2>1. CASE Post(h) /\ receipts' = [receipts EXCEPT ![<<r, d>>] = @ + 1]
    <3>1. receipts[<<r, d>>] = 0
      BY <2>1 DEF Post, OnceInv, Fresh
    <3> QED  BY <1>w, <2>1, <3>1
  <2> QED  BY <1>2, <2>1
<1>7. ASSUME NEW q \in Request, NEW e \in Digest, receipts'[<<q, e>>] > 0
      PROVE  store[q] # NoReview /\ store[q].digest = e
  <2>1. CASE receipts[<<q, e>>] > 0
    BY <2>1 DEF OnceInv
  <2>2. CASE ~(receipts[<<q, e>>] > 0)
    <3>1. <<q, e>> \in Answer
      BY DEF Answer
    <3>2. Post(h) /\ <<q, e>> = <<r, d>>
      BY <1>2, <1>7, <1>w, <2>2, <3>1
    <3> QED  BY <3>2 DEF Post, Published
  <2> QED  BY <2>1, <2>2
<1>8. OneReceipt'
  BY <1>6 DEF OnceInv, OneReceipt
<1> QED  BY <1>4, <1>5, <1>7, <1>8 DEF OnceInv, Grows

\* However often a review is submitted, through lost answers, failures, restarts
\* and other reviews of the same request submitted beside it, it acquires one
\* receipt, as long as it is not submitted twice at once (relay.go:242).
THEOREM RetriesPostOnce ==
  ASSUME ExchangeAssumption PROVE Spec /\ []SubmittedAlone => []OneReceipt
<1>1. Init => Inv /\ Published /\ OnceInv
  <2>1. ASSUME Init PROVE Published
    BY <2>1, NoTurnFacts DEF Init, Published
  <2>2. ASSUME Init PROVE OnceInv
    BY <2>2, NoTurnFacts DEF Init, OnceInv, OneReceipt, Fresh, Answer
  <2> QED  BY <2>1, <2>2, InvInit
<1>2. Inv /\ Published /\ OnceInv /\ SubmittedAlone /\ [Next]_vars
        => Inv' /\ Published' /\ OnceInv'
  <2> SUFFICES ASSUME Inv, Published, OnceInv, SubmittedAlone, [Next]_vars
               PROVE  Inv' /\ Published' /\ OnceInv'
    OBVIOUS
  <2>1. Inv' /\ Grows /\ Posting
    BY NextKeeps, PostingNext
  <2>2. Published'
    BY <2>1, EnginePublished, RelayPublished, OutsidePublished DEF Next, RelayNext
  <2>3. OnceInv'
    BY <2>1, OthersOnce, SubmissionOnce DEF Next, RelayNext
  <2> QED  BY <2>1, <2>2, <2>3
<1>3. OnceInv => OneReceipt
  BY DEF OnceInv
<1> QED  BY <1>1, <1>2, <1>3, PTL DEF Spec

\* Of a server that serves one submission at a time, without more ado.
THEOREM OneServerPostsOnce ==
  ASSUME ExchangeAssumption, \A g, h \in Handler : g = h PROVE Spec => []OneReceipt
<1>1. SubmittedAlone
  BY DEF SubmittedAlone
<1> QED  BY <1>1, RetriesPostOnce, PTL
===============================================================================
