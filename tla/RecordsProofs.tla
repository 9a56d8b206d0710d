----------------------------- MODULE RecordsProofs -----------------------------
(***************************************************************************)
(* Theorems of what one checkout keeps a record of, for any processes,     *)
(* comments, executions and invocations: each component by itself, then    *)
(* the composition that MCRecords checks.                                  *)
(***************************************************************************)
EXTENDS MCRecords, SequenceTheorems, WellFoundedInduction, TLAPS

\* What a turn has done by the time it stands at a step: it closes its record
\* either with a reply that ends it, or past a withdrawal that was posted.
TurnStanding == \A t \in Turn :
              /\ turn[t].pc = "settle" => turn[t].outcome \in Turns!Settled
              /\ turn[t].pc = "close" => t \in withdrawn
              /\ turn[t].pc \in {"none", "record", "wait"}
                   => turn[t].outcome = "none"

TurnsInv == Turns!TypeOK /\ TurnStanding /\ Turns!NoneForgotten

LEMMA TurnsInvInit == Turns!TurnsAssumption /\ Turns!Init => TurnsInv
BY DEF Turns!TurnsAssumption, Turns!Init, TurnsInv, Turns!TypeOK, Turns!Posting, TurnStanding, Turns!NoneForgotten

\* A step that moves one turn and leaves what it read alone.
LEMMA TurnGoes ==
  ASSUME TurnsInv, NEW t \in Turn,
         NEW s \in {"wait", "settle", "retract", "close", "over"}, Turns!Go(t, s),
         turn[t].pc # "none"
  PROVE  /\ turn' \in [Turn -> Turns!Posting]
         /\ turn'[t].pc = s
         /\ turn'[t].owner = turn[t].owner
         /\ turn'[t].outcome = turn[t].outcome
         /\ \A u \in Turn \ {t} : turn'[u] = turn[u]
         /\ \A u \in Turn : turn'[u].owner = NoProcess <=> turn'[u].pc = "none"
<1> DEFINE moved == [owner |-> turn[t].owner, pc |-> s, outcome |-> turn[t].outcome]
<1>1. turn[t] \in Turns!Posting /\ turn \in [Turn -> Turns!Posting]
  BY DEF TurnsInv, Turns!TypeOK
<1>2. [turn[t] EXCEPT !.pc = s] = moved /\ moved \in Turns!Posting
  BY <1>1 DEF Turns!Posting
<1>3. turn' = [turn EXCEPT ![t] = moved]
  BY <1>2 DEF Turns!Go
<1>4. turn[t].owner # NoProcess
  BY DEF TurnsInv, Turns!TypeOK
<1> QED  BY <1>1, <1>2, <1>3, <1>4 DEF TurnsInv, Turns!TypeOK

\* A poll, or the end of the wait: the outcome is written once.
LEMMA TurnEnds ==
  ASSUME TurnsInv, NEW t \in Turn, NEW o \in Turns!Reply \cup {"unanswered"},
         NEW s \in {"settle", "retract"}, s = "settle" => o \in Turns!Settled,
         turn[t].pc = "wait",
         turn' = [turn EXCEPT ![t].outcome = o, ![t].pc = s],
         UNCHANGED <<up, listed, open, recorded, withdrawn, reply>>
  PROVE  TurnsInv'
<1> DEFINE moved == [owner |-> turn[t].owner, pc |-> s, outcome |-> o]
<1>1. turn[t] \in Turns!Posting /\ turn \in [Turn -> Turns!Posting]
  BY DEF TurnsInv, Turns!TypeOK
<1>2. turn' = [turn EXCEPT ![t] = moved] /\ moved \in Turns!Posting
  BY <1>1 DEF Turns!Posting
<1>3. turn[t].owner # NoProcess
  BY DEF TurnsInv, Turns!TypeOK
<1>4. Turns!TypeOK'
  BY <1>1, <1>2, <1>3 DEF TurnsInv, Turns!TypeOK
<1>5. TurnStanding'
  BY <1>1, <1>2 DEF TurnsInv, TurnStanding
<1>6. turn[t].outcome = "none" /\ "none" \notin Turns!Settled
  BY DEF TurnsInv, TurnStanding, Turns!Settled
<1>7. Turns!NoneForgotten'
  BY <1>1, <1>2, <1>6 DEF TurnsInv, Turns!TypeOK, Turns!NoneForgotten
<1> QED  BY <1>4, <1>5, <1>7 DEF TurnsInv

LEMMA ProcessKeeps ==
  ASSUME Turns!TurnsAssumption, TurnsInv, NEW p \in Process, NEW t \in Turn,
         Turns!Start(p) \/ Turns!Crash(p) \/ Turns!Reconcile(p, t) \/ Turns!Publish(p, t)
  PROVE  TurnsInv'
<1>1. CASE Turns!Start(p)
  BY <1>1 DEF Turns!Start, TurnsInv, Turns!TypeOK, TurnStanding, Turns!NoneForgotten
<1>2. CASE Turns!Reconcile(p, t)
  BY <1>2 DEF Turns!Reconcile, TurnsInv, Turns!TypeOK, TurnStanding, Turns!NoneForgotten
<1>3. CASE Turns!Crash(p)
  <2>1. \A u \in Turn : /\ turn'[u] = turn[u] \/ turn'[u] = [turn[u] EXCEPT !.pc = "over"]
                        /\ turn'[u] # turn[u] => turn[u].pc # "none"
    BY <1>3 DEF Turns!Crash, Turns!Live
  <2>2. \A u \in Turn : turn[u] \in Turns!Posting
    BY DEF TurnsInv, Turns!TypeOK
  <2>a. \A u \in Turn : [turn[u] EXCEPT !.pc = "over"] =
          [owner |-> turn[u].owner, pc |-> "over", outcome |-> turn[u].outcome]
    BY <2>2 DEF Turns!Posting
  <2>b. \A u \in Turn :
          [owner |-> turn[u].owner, pc |-> "over", outcome |-> turn[u].outcome]
            \in Turns!Posting
    BY <2>2 DEF Turns!Posting
  <2>3. \A u \in Turn : /\ turn'[u] \in Turns!Posting
                        /\ turn'[u].owner = turn[u].owner
                        /\ turn'[u].outcome = turn[u].outcome
                        /\ \/ turn'[u].pc = turn[u].pc
                           \/ turn[u].pc # "none" /\ turn'[u].pc = "over"
    BY <2>1, <2>2, <2>a, <2>b
  <2>4. turn' \in [Turn -> Turns!Posting]
    BY <1>3, <2>3 DEF Turns!Crash
  <2>5. Turns!TypeOK'
    BY <1>3, <2>3, <2>4 DEF Turns!Crash, TurnsInv, Turns!TypeOK
  <2>6. TurnStanding' /\ Turns!NoneForgotten'
    BY <1>3, <2>3 DEF Turns!Crash, TurnsInv, Turns!TypeOK, TurnStanding, Turns!NoneForgotten
  <2> QED  BY <2>5, <2>6 DEF TurnsInv
<1>4. CASE Turns!Publish(p, t)
  <2> DEFINE posted == [owner |-> p, pc |-> "record", outcome |-> turn[t].outcome]
  <2>1. turn[t] \in Turns!Posting /\ turn \in [Turn -> Turns!Posting]
    BY DEF TurnsInv, Turns!TypeOK
  <2>a. p # NoProcess
    BY DEF Turns!TurnsAssumption
  <2>b. posted \in Turns!Posting
    BY <2>1 DEF Turns!Posting
  <2>c. turn' = [turn EXCEPT ![t] = posted]
    <3>1. turn' = [turn EXCEPT ![t] = [[turn[t] EXCEPT !.pc = "record"] EXCEPT !.owner = p]]
      BY <1>4, <2>1 DEF Turns!Publish
    <3>2. [[turn[t] EXCEPT !.pc = "record"] EXCEPT !.owner = p] = posted
      <4> DEFINE r == [turn[t] EXCEPT !.pc = "record"]
      <4>1. r \in Turns!Posting /\ r.pc = "record" /\ r.outcome = turn[t].outcome
        BY <2>1 DEF Turns!Posting
      <4> HIDE DEF r
      <4>2. [r EXCEPT !.owner = p] = [owner |-> p, pc |-> r.pc, outcome |-> r.outcome]
        BY <4>1 DEF Turns!Posting
      <4> QED  BY <4>1, <4>2 DEF r
    <3> QED  BY <3>1, <3>2
  <2>2. turn' = [turn EXCEPT ![t] = posted] /\ posted \in Turns!Posting /\ p # NoProcess
    BY <2>a, <2>b, <2>c
  <2>d. /\ turn' \in [Turn -> Turns!Posting]
        /\ turn'[t].owner = p /\ turn'[t].pc = "record"
        /\ turn'[t].outcome = turn[t].outcome
        /\ \A u \in Turn \ {t} : turn'[u] = turn[u]
    BY <2>1, <2>2
  <2>3. Turns!TypeOK'
    BY <1>4, <2>a, <2>d DEF Turns!Publish, TurnsInv, Turns!TypeOK
  <2>4. TurnStanding' /\ Turns!NoneForgotten'
    BY <1>4, <2>d DEF Turns!Publish, TurnsInv, Turns!TypeOK, TurnStanding, Turns!NoneForgotten
  <2> QED  BY <2>3, <2>4 DEF TurnsInv
<1> QED  BY <1>1, <1>2, <1>3, <1>4

LEMMA TurnKeeps ==
  ASSUME TurnsInv, NEW t \in Turn,
         \/ Turns!Record(t) \/ Turns!Poll(t) \/ Turns!GiveUp(t) \/ Turns!Settle(t) \/ Turns!Retract(t) \/ Turns!Close(t)
         \/ \E kind \in Turns!Reply : Turns!Respond(t, kind)
  PROVE  TurnsInv'
<1>1. CASE Turns!Record(t)
  <2>1. /\ turn' \in [Turn -> Turns!Posting]
        /\ turn'[t].pc = "wait" /\ turn'[t].outcome = turn[t].outcome
        /\ \A u \in Turn \ {t} : turn'[u] = turn[u]
        /\ \A u \in Turn : turn'[u].owner = NoProcess <=> turn'[u].pc = "none"
    BY <1>1, TurnGoes DEF Turns!Record
  <2> QED  BY <1>1, <2>1 DEF Turns!Record, TurnsInv, Turns!TypeOK, TurnStanding, Turns!NoneForgotten
<1>2. CASE Turns!Poll(t)
  <2>1. reply[t] \in Turns!Reply
    BY <1>2 DEF Turns!Poll, TurnsInv, Turns!TypeOK
  <2>2. CASE reply[t] = "conflict"
    BY <1>2, <2>1, <2>2, TurnEnds DEF Turns!Poll
  <2>3. CASE reply[t] # "conflict"
    BY <1>2, <2>1, <2>3, TurnEnds DEF Turns!Poll, Turns!Reply
  <2> QED  BY <2>2, <2>3
<1>3. CASE Turns!GiveUp(t)
  BY <1>3, TurnEnds DEF Turns!GiveUp
<1>4. CASE Turns!Settle(t)
  <2>1. /\ turn' \in [Turn -> Turns!Posting]
        /\ turn'[t].pc = "over" /\ turn'[t].outcome = turn[t].outcome
        /\ \A u \in Turn \ {t} : turn'[u] = turn[u]
        /\ \A u \in Turn : turn'[u].owner = NoProcess <=> turn'[u].pc = "none"
    BY <1>4, TurnGoes DEF Turns!Settle
  <2>2. turn[t].outcome \in Turns!Settled
    BY <1>4 DEF Turns!Settle, TurnsInv, TurnStanding
  <2> QED  BY <1>4, <2>1, <2>2 DEF Turns!Settle, TurnsInv, Turns!TypeOK, TurnStanding, Turns!NoneForgotten
<1>5. CASE Turns!Retract(t)
  <2>1. PICK s \in {"close", "over"} :
          Turns!Go(t, s) /\ (s = "close" => t \in withdrawn')
    BY <1>5 DEF Turns!Retract
  <2>2. /\ turn' \in [Turn -> Turns!Posting]
        /\ turn'[t].pc = s /\ turn'[t].outcome = turn[t].outcome
        /\ \A u \in Turn \ {t} : turn'[u] = turn[u]
        /\ \A u \in Turn : turn'[u].owner = NoProcess <=> turn'[u].pc = "none"
    BY <1>5, <2>1, TurnGoes DEF Turns!Retract
  <2> QED  BY <1>5, <2>1, <2>2 DEF Turns!Retract, TurnsInv, Turns!TypeOK, TurnStanding, Turns!NoneForgotten
<1>6. CASE Turns!Close(t)
  <2>1. /\ turn' \in [Turn -> Turns!Posting]
        /\ turn'[t].pc = "over" /\ turn'[t].outcome = turn[t].outcome
        /\ \A u \in Turn \ {t} : turn'[u] = turn[u]
        /\ \A u \in Turn : turn'[u].owner = NoProcess <=> turn'[u].pc = "none"
    BY <1>6, TurnGoes DEF Turns!Close
  <2>2. t \in withdrawn
    BY <1>6 DEF Turns!Close, TurnsInv, TurnStanding
  <2> QED  BY <1>6, <2>1, <2>2 DEF Turns!Close, TurnsInv, Turns!TypeOK, TurnStanding, Turns!NoneForgotten
<1>7. CASE \E kind \in Turns!Reply : Turns!Respond(t, kind)
  BY <1>7 DEF Turns!Respond, TurnsInv, Turns!TypeOK, TurnStanding, Turns!NoneForgotten
<1> QED  BY <1>1, <1>2, <1>3, <1>4, <1>5, <1>6, <1>7

LEMMA TurnsInvKept == Turns!TurnsAssumption /\ TurnsInv /\ [Turns!Next]_Turns!vars => TurnsInv'
<1> SUFFICES ASSUME Turns!TurnsAssumption, TurnsInv, [Turns!Next]_Turns!vars PROVE TurnsInv'
  OBVIOUS
<1>1. CASE UNCHANGED Turns!vars
  BY <1>1 DEF Turns!vars, TurnsInv, Turns!TypeOK, TurnStanding, Turns!NoneForgotten
<1>2. ASSUME NEW p \in Process, Turns!Start(p) \/ Turns!Crash(p) PROVE TurnsInv'
  <2>1. CASE Turn # {}
    BY <1>2, <2>1, ProcessKeeps
  <2>2. CASE Turn = {}
    BY <1>2, <2>2 DEF Turns!Start, Turns!Crash, TurnsInv, Turns!TypeOK, TurnStanding, Turns!NoneForgotten
  <2> QED  BY <2>1, <2>2
<1>3. ASSUME NEW p \in Process, NEW t \in Turn, Turns!Reconcile(p, t) \/ Turns!Publish(p, t)
      PROVE  TurnsInv'
  BY <1>3, ProcessKeeps
<1>4. ASSUME NEW t \in Turn,
             \/ Turns!Record(t) \/ Turns!Poll(t) \/ Turns!GiveUp(t) \/ Turns!Settle(t) \/ Turns!Retract(t)
             \/ Turns!Close(t) \/ \E kind \in Turns!Reply : Turns!Respond(t, kind)
      PROVE  TurnsInv'
  BY <1>4, TurnKeeps
<1> QED  BY <1>1, <1>2, <1>3, <1>4 DEF Turns!Next

\* A remote turn's request that was recorded keeps its record until it is
\* withdrawn or a reply that ends it was read, whatever call fails and whichever
\* process dies, for any processes and turns (architecture_runner.go:300).
THEOREM RequestsAreNotForgotten ==
  ASSUME Turns!TurnsAssumption PROVE Turns!Spec => [](Turns!TypeOK /\ Turns!NoneForgotten)
<1>1. Turns!Init => TurnsInv
  BY TurnsInvInit
<1>2. TurnsInv /\ [Turns!Next]_Turns!vars => TurnsInv'
  BY TurnsInvKept
<1>3. TurnsInv => Turns!TypeOK /\ Turns!NoneForgotten
  BY DEF TurnsInv
<1> QED  BY <1>1, <1>2, <1>3, PTL DEF Turns!Spec

-----------------------------------------------------------------------------
(* The types.  Proposals!TypeOK is inductive once an approver is known to have loaded *)
(* a proposal: a task is accepted for an objective, never for a missing one.*)

Examined == \A a \in Approver : approver[a] # Proposals!Idle => Proposals!Proposed(approver[a].c)
IntakeInv  == Proposals!TypeOK /\ Examined

\* Where an approver is says of which comment.
LEMMA BusyTyped ==
  ASSUME Proposals!TypeOK, NEW a \in Approver, approver[a].pc # "idle"
  PROVE  /\ approver[a] \in [pc : {"begin", "submit", "complete"}, c : Comment]
         /\ approver[a].c \in Comment
         /\ approver[a] # Proposals!Idle
BY DEF Proposals!TypeOK, Proposals!Idle

LEMMA IntakeTyped ==
  ASSUME Proposals!TypeOK, intake.pc # "idle"
  PROVE  /\ intake \in [pc : {"propose", "receipt"}, d : Delivery]
         /\ intake.d \in Delivery
         /\ carries[intake.d].comment \in Comment
         /\ carries[intake.d].objective \in Objective
BY DEF Proposals!TypeOK, Proposals!Idle, Proposals!Facts

LEMMA IntakeInvInit == Proposals!Init => IntakeInv
BY DEF Proposals!Init, IntakeInv, Proposals!TypeOK, Examined, Proposals!Idle

LEMMA IntakeInvKept ==
  ASSUME Proposals!ProposalsAssumption, IntakeInv, [Proposals!Next]_Proposals!vars
  PROVE  IntakeInv'
<1> USE DEF IntakeInv
<1>a. \A b \in Approver : approver[b] # Proposals!Idle =>
        /\ approver[b] \in [pc : {"begin", "submit", "complete"}, c : Comment]
        /\ approver[b].c \in Comment
  BY DEF Proposals!TypeOK
<1>1. ASSUME NEW d \in Delivery, Proposals!Deliver(d) PROVE IntakeInv'
  BY <1>1 DEF Proposals!Deliver, Proposals!TypeOK, Examined, Proposals!Proposed
<1>2. CASE Proposals!Propose
  <2>1. intake.pc # "idle"
    BY <1>2 DEF Proposals!Propose
  <2>2. /\ intake.d \in Delivery
        /\ carries[intake.d].comment \in Comment /\ carries[intake.d].objective \in Objective
        /\ intake \in [pc : {"propose", "receipt"}, d : Delivery]
    BY <2>1, IntakeTyped
  <2>3. Proposals!TypeOK'
    BY <1>2, <2>2 DEF Proposals!Propose, Proposals!TypeOK
  <2>4. carries[intake.d].objective # Proposals!Missing
    BY <2>2 DEF Proposals!ProposalsAssumption
  <2>5. \A c \in Comment : proposal[c] # Proposals!Missing => proposal'[c] # Proposals!Missing
    BY <1>2, <2>2, <2>4 DEF Proposals!Propose, Proposals!TypeOK
  <2> QED  BY <1>2, <1>a, <2>3, <2>5 DEF Proposals!Propose, Examined, Proposals!Proposed
<1>3. CASE Proposals!Acknowledge
  BY <1>3, IntakeTyped DEF Proposals!Acknowledge, Proposals!TypeOK, Examined, Proposals!Proposed
<1>4. CASE Proposals!CrashServer
  BY <1>4 DEF Proposals!CrashServer, Proposals!TypeOK, Examined, Proposals!Proposed
<1>5. ASSUME NEW a \in Approver, NEW c \in Comment, Proposals!Examine(a, c) PROVE IntakeInv'
  BY <1>5 DEF Proposals!Examine, Proposals!TypeOK, Examined, Proposals!Proposed
<1>6. ASSUME NEW a \in Approver, approver[a].pc # "idle",
             approver' = [approver EXCEPT ![a] = Proposals!Idle] \/
             \E s \in {"submit", "complete"} : approver' = [approver EXCEPT ![a].pc = s],
             UNCHANGED proposal
      PROVE  /\ approver' \in [Approver -> {Proposals!Idle} \cup
                                 [pc : {"begin", "submit", "complete"}, c : Comment]]
             /\ Examined'
  <2>1. /\ approver[a] \in [pc : {"begin", "submit", "complete"}, c : Comment]
        /\ approver[a] # Proposals!Idle
    BY <1>6, BusyTyped
  <2>2. \A b \in Approver \ {a} : approver'[b] = approver[b]
    BY <1>6 DEF Proposals!TypeOK
  <2>3. CASE approver' = [approver EXCEPT ![a] = Proposals!Idle]
    BY <2>2, <2>3, <1>6 DEF Proposals!TypeOK, Examined, Proposals!Proposed
  <2>4. ASSUME NEW s \in {"submit", "complete"}, approver' = [approver EXCEPT ![a].pc = s]
        PROVE  /\ approver' \in [Approver -> {Proposals!Idle} \cup
                                   [pc : {"begin", "submit", "complete"}, c : Comment]]
               /\ Examined'
    <3>1. /\ [approver[a] EXCEPT !.pc = s]
               \in [pc : {"begin", "submit", "complete"}, c : Comment]
          /\ [approver[a] EXCEPT !.pc = s].c = approver[a].c
      BY <2>1
    <3>2. approver' = [approver EXCEPT ![a] = [approver[a] EXCEPT !.pc = s]]
      BY <2>4
    <3>3. approver'[a] = [approver[a] EXCEPT !.pc = s]
      BY <3>2 DEF Proposals!TypeOK
    <3> QED  BY <2>1, <2>2, <3>1, <3>2, <3>3, <1>6 DEF Proposals!TypeOK, Examined, Proposals!Proposed
  <2> QED  BY <1>6, <2>3, <2>4
<1>7. ASSUME NEW a \in Approver, Proposals!BeginApproval(a) PROVE IntakeInv'
  <2>1. approver[a].pc # "idle"
    BY <1>7 DEF Proposals!BeginApproval
  <2>2. approver[a].c \in Comment
    BY <2>1, BusyTyped
  <2>3. Examined' /\ approver' \in [Approver -> {Proposals!Idle} \cup
                         [pc : {"begin", "submit", "complete"}, c : Comment]]
    BY <1>6, <1>7, <2>1 DEF Proposals!BeginApproval
  <2>4. approval' \in [Comment -> {Proposals!Missing, "attempting", "submitted"}]
    BY <1>7, <2>2 DEF Proposals!BeginApproval, Proposals!TypeOK
  <2> QED  BY <1>7, <2>3, <2>4 DEF Proposals!BeginApproval, Proposals!TypeOK
<1>8. ASSUME NEW a \in Approver, Proposals!Submit(a) PROVE IntakeInv'
  <2>1. approver[a].pc # "idle"
    BY <1>8 DEF Proposals!Submit
  <2>2. approver[a].c \in Comment /\ approver[a] # Proposals!Idle
    BY <2>1, BusyTyped
  <2>3. Examined' /\ approver' \in [Approver -> {Proposals!Idle} \cup
                         [pc : {"begin", "submit", "complete"}, c : Comment]]
    BY <1>6, <1>8, <2>1 DEF Proposals!Submit
  <2>4. proposal[approver[a].c] \in Objective
    BY <2>2 DEF Examined, Proposals!Proposed, Proposals!TypeOK
  <2>5. tasks' \subseteq Comment \X Objective
    BY <1>8, <2>2, <2>4 DEF Proposals!Submit, Proposals!TypeOK
  <2>6. submitted' \in [Comment -> Nat]
    BY <1>8, <2>2 DEF Proposals!Submit, Proposals!TypeOK
  <2> QED  BY <1>8, <2>3, <2>5, <2>6 DEF Proposals!Submit, Proposals!TypeOK
<1>9. ASSUME NEW a \in Approver, Proposals!CompleteApproval(a) PROVE IntakeInv'
  <2>1. approver[a].pc # "idle"
    BY <1>9 DEF Proposals!CompleteApproval
  <2>2. Examined' /\ approver' \in [Approver -> {Proposals!Idle} \cup
                         [pc : {"begin", "submit", "complete"}, c : Comment]]
    BY <1>6, <1>9, <2>1 DEF Proposals!CompleteApproval
  <2> QED  BY <1>9, <2>2, <2>1, BusyTyped DEF Proposals!CompleteApproval, Proposals!TypeOK
<1>10. ASSUME NEW a \in Approver, Proposals!CrashApprover(a) PROVE IntakeInv'
  BY <1>10 DEF Proposals!CrashApprover, Proposals!TypeOK, Examined, Proposals!Proposed
<1>11. CASE UNCHANGED Proposals!vars
  BY <1>11 DEF Proposals!vars, Proposals!TypeOK, Examined, Proposals!Proposed
<1> QED  BY <1>1, <1>2, <1>3, <1>4, <1>5, <1>7, <1>8, <1>9, <1>10, <1>11 DEF Proposals!Next

\* The types of the intake hold, whatever is delivered, repeated or lost
\* (internal/ghwebhook/proposal.go).
THEOREM IntakeTypeCorrect ==
  ASSUME Proposals!ProposalsAssumption
  PROVE  Proposals!Spec => []Proposals!TypeOK
<1>1. IntakeInv => Proposals!TypeOK
  BY DEF IntakeInv
<1> QED  BY <1>1, IntakeInvInit, IntakeInvKept, PTL DEF Proposals!Spec

-----------------------------------------------------------------------------
(* Deliveries.  A receipt follows its proposal because the one delivery    *)
(* being recorded knows, until it is done, what the proposal's file says.  *)

Recording ==
  /\ intake.pc = "propose" => ~Proposals!Proposed(carries[intake.d].comment)
  /\ intake.pc = "receipt" =>
       proposal[carries[intake.d].comment] = carries[intake.d].objective

ReceiptInv == Recording /\ Proposals!ReceiptedIsProposed

\* Whatever leaves the server's files alone keeps what it knows of them.
LEMMA ReceiptInvUnmoved ==
  ASSUME ReceiptInv, UNCHANGED <<carries, proposal, receipted, intake>>
  PROVE  ReceiptInv'
BY DEF ReceiptInv, Recording, Proposals!ReceiptedIsProposed, Proposals!Proposed

LEMMA ReceiptInvKept ==
  ASSUME Proposals!ProposalsAssumption, IntakeInv, ReceiptInv, [Proposals!Next]_Proposals!vars
  PROVE  ReceiptInv'
<1> USE DEF ReceiptInv, Recording, Proposals!ReceiptedIsProposed, Proposals!Proposed, IntakeInv
<1>1. ASSUME NEW d \in Delivery, Proposals!Deliver(d) PROVE ReceiptInv'
  BY <1>1 DEF Proposals!Deliver, Proposals!TypeOK
<1>2. CASE Proposals!Propose
  <2>1. intake.pc = "propose"
    BY <1>2 DEF Proposals!Propose
  <2>2. /\ intake \in [pc : {"propose", "receipt"}, d : Delivery]
        /\ intake.d \in Delivery
        /\ carries[intake.d].comment \in Comment
        /\ carries[intake.d].objective \in Objective
    BY <2>1, IntakeTyped
  <2>3. \A d \in receipted : carries[d].comment # carries[intake.d].comment
    BY <2>1, <2>2 DEF Proposals!ProposalsAssumption, Proposals!TypeOK, Proposals!Facts
  <2>4. CASE /\ proposal' = [proposal EXCEPT ![carries[intake.d].comment] =
                                              carries[intake.d].objective]
             /\ intake' = [intake EXCEPT !.pc = "receipt"]
    <3>1. \A d \in receipted : proposal'[carries[d].comment] = proposal[carries[d].comment]
      BY <2>3, <2>4 DEF Proposals!TypeOK
    <3>2. intake'.pc = "receipt" /\ intake'.d = intake.d
      BY <2>2, <2>4
    <3>3. proposal'[carries[intake.d].comment] = carries[intake.d].objective
      BY <2>2, <2>4 DEF Proposals!TypeOK
    <3> QED  BY <1>2, <3>1, <3>2, <3>3 DEF Proposals!Propose
  <2>5. CASE UNCHANGED proposal /\ intake' = Proposals!Idle
    BY <1>2, <2>5 DEF Proposals!Propose, Proposals!Idle
  <2> QED  BY <1>2, <2>4, <2>5 DEF Proposals!Propose
<1>3. CASE Proposals!Acknowledge
  BY <1>3 DEF Proposals!Acknowledge, Proposals!Idle
<1>4. CASE Proposals!CrashServer
  BY <1>4 DEF Proposals!CrashServer, Proposals!Idle
<1>5. ASSUME NEW a \in Approver,
             \/ \E c \in Comment : Proposals!Examine(a, c)
             \/ Proposals!BeginApproval(a) \/ Proposals!Submit(a) \/ Proposals!CompleteApproval(a) \/ Proposals!CrashApprover(a)
      PROVE  ReceiptInv'
  BY <1>5, ReceiptInvUnmoved
     DEF Proposals!Examine, Proposals!BeginApproval, Proposals!Submit, Proposals!CompleteApproval, Proposals!CrashApprover
<1>6. CASE UNCHANGED Proposals!vars
  BY <1>6, ReceiptInvUnmoved DEF Proposals!vars
<1> QED  BY <1>1, <1>2, <1>3, <1>4, <1>5, <1>6 DEF Proposals!Next

\* A receipted delivery has its proposal on disk as it was sent, however often
\* and in whatever order deliveries come and wherever the server dies
\* (proposal.go:207).
THEOREM ReceiptsFollowProposals ==
  ASSUME Proposals!ProposalsAssumption
  PROVE  Proposals!Spec => []Proposals!ReceiptedIsProposed
<1>1. Proposals!Init => ReceiptInv
  BY DEF Proposals!Init, ReceiptInv, Recording, Proposals!ReceiptedIsProposed, Proposals!Idle
<1>2. ReceiptInv => Proposals!ReceiptedIsProposed
  BY DEF ReceiptInv
<1> QED  BY <1>1, <1>2, IntakeInvInit, IntakeInvKept, ReceiptInvKept, PTL DEF Proposals!Spec

-----------------------------------------------------------------------------
(* Approvals.  One approver at most is past the creation of a comment's    *)
(* approval file, and until it submits nothing of the comment has been     *)
(* submitted.                                                              *)

Holds(a, c)   == approver[a].pc \in {"submit", "complete"} /\ approver[a].c = c
Submits(a, c) == approver[a].pc = "submit" /\ approver[a].c = c

AttemptInv ==
  /\ \A c \in Comment : approval[c] = Proposals!Missing => submitted[c] = 0
  /\ \A a \in Approver, c \in Comment : Holds(a, c) => approval[c] # Proposals!Missing
  /\ \A a \in Approver, c \in Comment : Submits(a, c) => submitted[c] = 0
  /\ \A a, b \in Approver, c \in Comment : Holds(a, c) /\ Holds(b, c) => a = b

ApprovalInv == AttemptInv /\ Proposals!SubmittedOnce

\* An approver that goes idle, or begins, takes nothing from this.
LEMMA AttemptInvRelaxed ==
  ASSUME AttemptInv, UNCHANGED <<submitted, approval>>,
         \A b \in Approver, c \in Comment : /\ Holds(b, c)' => Holds(b, c)
                                            /\ Submits(b, c)' => Submits(b, c)
  PROVE  AttemptInv'
<1>1. \A c \in Comment : approval'[c] = Proposals!Missing => submitted'[c] = 0
  BY DEF AttemptInv
<1>2. \A a \in Approver, c \in Comment : Holds(a, c)' => approval'[c] # Proposals!Missing
  BY DEF AttemptInv, Holds, Submits
<1>3. \A a \in Approver, c \in Comment : Submits(a, c)' => submitted'[c] = 0
  BY DEF AttemptInv, Holds, Submits
<1>4. \A a, b \in Approver, c \in Comment : Holds(a, c)' /\ Holds(b, c)' => a = b
  BY DEF AttemptInv, Holds, Submits
<1> QED  BY <1>1, <1>2, <1>3, <1>4 DEF AttemptInv, Holds, Submits

\* What one approver does leaves the others where they are.
LEMMA OnlyOneMoves ==
  ASSUME Proposals!TypeOK, NEW a \in Approver, NEW x, approver' = [approver EXCEPT ![a] = x]
  PROVE  /\ approver'[a] = x
         /\ \A b \in Approver \ {a}, c \in Comment :
              /\ Holds(b, c)' <=> Holds(b, c)
              /\ Submits(b, c)' <=> Submits(b, c)
<1>1. approver'[a] = x /\ \A b \in Approver \ {a} : approver'[b] = approver[b]
  BY DEF Proposals!TypeOK
<1> QED  BY <1>1 DEF Holds, Submits

\* An approver that gives up, is done or dies holds nothing.
LEMMA IdleHoldsNothing ==
  ASSUME Proposals!TypeOK, AttemptInv, UNCHANGED <<submitted, approval>>,
         NEW a \in Approver, approver' = [approver EXCEPT ![a] = Proposals!Idle]
  PROVE  AttemptInv'
<1>0. approver'[a] = Proposals!Idle
  BY OnlyOneMoves
<1>1. \A c \in Comment : ~Holds(a, c)' /\ ~Submits(a, c)'
  BY <1>0 DEF Holds, Submits, Proposals!Idle
<1>2. \A b \in Approver, c \in Comment : /\ Holds(b, c)' => Holds(b, c)
                                         /\ Submits(b, c)' => Submits(b, c)
  BY <1>1, OnlyOneMoves
<1> QED  BY <1>2, AttemptInvRelaxed

\* The step of a busy approver, as a step of the whole function.
LEMMA BusyStep ==
  ASSUME Proposals!TypeOK, NEW a \in Approver, approver[a].pc # "idle", NEW s,
         approver' = [approver EXCEPT ![a].pc = s]
  PROVE  /\ approver' = [approver EXCEPT ![a] = [pc |-> s, c |-> approver[a].c]]
         /\ approver'[a].pc = s /\ approver'[a].c = approver[a].c
<1>1. approver[a] \in [pc : {"begin", "submit", "complete"}, c : Comment]
  BY BusyTyped
<1>2. [approver[a] EXCEPT !.pc = s] = [pc |-> s, c |-> approver[a].c]
  BY <1>1
<1>3. approver' = [approver EXCEPT ![a] = [pc |-> s, c |-> approver[a].c]]
  BY <1>2
<1> QED  BY <1>3 DEF Proposals!TypeOK

LEMMA ApprovalInvKept ==
  ASSUME Proposals!ProposalsAssumption, IntakeInv, ReceiptInv, ApprovalInv, [Proposals!Next]_Proposals!vars
  PROVE  ApprovalInv'
<1> USE DEF ApprovalInv, IntakeInv
<1>s. \A t \in tasks : t[1] \in Comment
  BY DEF Proposals!TypeOK
<1>1. ASSUME UNCHANGED <<proposal, approval, approver, submitted, tasks>>
      PROVE  ApprovalInv'
  BY <1>1 DEF AttemptInv, Holds, Submits, Proposals!SubmittedOnce
<1>2. CASE Proposals!Propose
  <2>1. intake.pc = "propose"
    BY <1>2 DEF Proposals!Propose
  <2>2. carries[intake.d].comment \in Comment
    BY <2>1, IntakeTyped
  <2>3. proposal[carries[intake.d].comment] = Proposals!Missing
    BY <2>1 DEF ReceiptInv, Recording, Proposals!Proposed
  <2>4. \A t \in tasks : proposal[t[1]] # Proposals!Missing
    BY DEF Proposals!SubmittedOnce, Proposals!TypeOK, Proposals!ProposalsAssumption
  <2>5. \A t \in tasks : proposal'[t[1]] = proposal[t[1]]
    BY <1>2, <1>s, <2>2, <2>3, <2>4 DEF Proposals!Propose, Proposals!TypeOK
  <2>6. Proposals!SubmittedOnce'
    BY <1>2, <2>5 DEF Proposals!Propose, Proposals!SubmittedOnce
  <2> QED  BY <1>2, <2>6 DEF Proposals!Propose, AttemptInv, Holds, Submits
<1>3. ASSUME NEW a \in Approver, approver' = [approver EXCEPT ![a] = Proposals!Idle],
             UNCHANGED <<proposal, approval, submitted, tasks>>
      PROVE  ApprovalInv'
  BY <1>3, IdleHoldsNothing DEF Proposals!SubmittedOnce
<1>4. ASSUME NEW a \in Approver, NEW c \in Comment, Proposals!Examine(a, c) PROVE ApprovalInv'
  <2>1. approver' = [approver EXCEPT ![a] = [pc |-> "begin", c |-> c]]
    BY <1>4 DEF Proposals!Examine
  <2>2. \A e \in Comment : ~Holds(a, e)' /\ ~Submits(a, e)'
    <3>1. approver'[a] = [pc |-> "begin", c |-> c]
      BY <2>1, OnlyOneMoves
    <3> QED  BY <3>1 DEF Holds, Submits
  <2>3. \A b \in Approver, e \in Comment : /\ Holds(b, e)' => Holds(b, e)
                                           /\ Submits(b, e)' => Submits(b, e)
    BY <2>1, <2>2, OnlyOneMoves
  <2>4. AttemptInv'
    BY <1>4, <2>3, AttemptInvRelaxed DEF Proposals!Examine
  <2> QED  BY <1>4, <2>4 DEF Proposals!Examine, Proposals!SubmittedOnce
<1>5. ASSUME NEW a \in Approver, Proposals!BeginApproval(a) PROVE ApprovalInv'
  <2>1. approver[a].pc = "begin" /\ approver[a].c \in Comment
    BY <1>5, BusyTyped DEF Proposals!BeginApproval
  <2>2. CASE /\ approval[approver[a].c] = Proposals!Missing
             /\ approval' = [approval EXCEPT ![approver[a].c] = "attempting"]
             /\ approver' = [approver EXCEPT ![a].pc = "submit"]
    <3>1. /\ approver' = [approver EXCEPT ![a] = [pc |-> "submit", c |-> approver[a].c]]
          /\ approver'[a].pc = "submit" /\ approver'[a].c = approver[a].c
      BY <2>1, <2>2, BusyStep
    <3>2. \A b \in Approver \ {a}, c \in Comment : /\ Holds(b, c)' <=> Holds(b, c)
                                                   /\ Submits(b, c)' <=> Submits(b, c)
      BY <3>1, OnlyOneMoves
    <3>3. \A c \in Comment : Holds(a, c)' <=> c = approver[a].c
      BY <3>1 DEF Holds
    <3>4. \A b \in Approver : ~Holds(b, approver[a].c)
      BY <2>1, <2>2 DEF AttemptInv
    <3>5. submitted' = submitted /\ submitted[approver[a].c] = 0
      BY <1>5, <2>1, <2>2 DEF Proposals!BeginApproval, AttemptInv
    <3>6. \A c \in Comment : approval'[c] = Proposals!Missing => approval[c] = Proposals!Missing
      BY <2>1, <2>2 DEF Proposals!TypeOK, Proposals!Missing
    <3>7. \A b \in Approver, c \in Comment : Holds(b, c)' => approval'[c] # Proposals!Missing
      BY <2>1, <2>2, <3>2, <3>3 DEF AttemptInv, Proposals!TypeOK, Proposals!Missing
    <3>8. \A b \in Approver, c \in Comment : Submits(b, c)' => submitted'[c] = 0
      BY <3>1, <3>2, <3>5 DEF AttemptInv, Submits
    <3>9. \A b, d \in Approver, c \in Comment : Holds(b, c)' /\ Holds(d, c)' => b = d
      BY <2>1, <3>2, <3>3, <3>4 DEF AttemptInv
    <3>10. AttemptInv'
      BY <3>5, <3>6, <3>7, <3>8, <3>9 DEF AttemptInv, Holds, Submits
    <3> QED  BY <1>5, <3>10 DEF Proposals!BeginApproval, Proposals!SubmittedOnce
  <2>3. CASE approver' = [approver EXCEPT ![a] = Proposals!Idle] /\ UNCHANGED approval
    BY <1>3, <1>5, <2>3 DEF Proposals!BeginApproval
  <2> QED  BY <1>5, <2>2, <2>3 DEF Proposals!BeginApproval
<1>6. ASSUME NEW a \in Approver, Proposals!Submit(a) PROVE ApprovalInv'
  <2>1. approver[a].pc = "submit" /\ approver[a].c \in Comment
    BY <1>6, BusyTyped DEF Proposals!Submit
  <2>2. Holds(a, approver[a].c) /\ Submits(a, approver[a].c)
    BY <2>1 DEF Holds, Submits
  <2>3. submitted[approver[a].c] = 0 /\ approval[approver[a].c] # Proposals!Missing
    BY <2>1, <2>2 DEF AttemptInv
  <2>4. CASE approver' = [approver EXCEPT ![a] = Proposals!Idle] /\ UNCHANGED <<submitted, tasks>>
    BY <1>3, <1>6, <2>4 DEF Proposals!Submit
  <2>5. ASSUME submitted' = [submitted EXCEPT ![approver[a].c] = @ + 1],
               \/ approver' = [approver EXCEPT ![a] = Proposals!Idle]
               \/ approver' = [approver EXCEPT ![a].pc = "complete"]
        PROVE  AttemptInv' /\ \A c \in Comment : submitted'[c] <= 1
    <3>1. \A c \in Comment : submitted'[c] = IF c = approver[a].c THEN 1 ELSE submitted[c]
      BY <2>1, <2>3, <2>5 DEF Proposals!TypeOK
    <3>2. \E x : approver' = [approver EXCEPT ![a] = x]
      BY <2>1, <2>5, BusyStep
    <3>3. \A b \in Approver \ {a}, c \in Comment : /\ Holds(b, c)' <=> Holds(b, c)
                                                   /\ Submits(b, c)' <=> Submits(b, c)
      BY <3>2, OnlyOneMoves
    <3>4. \A c \in Comment : ~Submits(a, c)' /\ (Holds(a, c)' => Holds(a, c))
      <4>1. CASE approver' = [approver EXCEPT ![a] = Proposals!Idle]
        <5>1. approver'[a] = Proposals!Idle
          BY <4>1, OnlyOneMoves
        <5> QED  BY <5>1 DEF Holds, Submits, Proposals!Idle
      <4>2. CASE approver' = [approver EXCEPT ![a].pc = "complete"]
        <5>1. approver'[a].pc = "complete" /\ approver'[a].c = approver[a].c
          BY <2>1, <4>2, BusyStep
        <5> QED  BY <2>1, <5>1 DEF Holds, Submits
      <4> QED  BY <2>5, <4>1, <4>2
    <3>5. approval' = approval
      BY <1>6 DEF Proposals!Submit
    <3>6. \A c \in Comment : approval'[c] = Proposals!Missing => submitted'[c] = 0
      BY <2>3, <3>1, <3>5 DEF AttemptInv
    <3>7. \A b \in Approver, c \in Comment : Holds(b, c)' => Holds(b, c)
      BY <3>3, <3>4
    <3>8. \A b \in Approver, c \in Comment : Submits(b, c)' => submitted'[c] = 0
      <4> SUFFICES ASSUME NEW b \in Approver, NEW c \in Comment, Submits(b, c)'
                   PROVE  submitted'[c] = 0
        OBVIOUS
      <4>1. b # a /\ Submits(b, c)
        BY <3>3, <3>4
      <4>2. Holds(b, c)
        BY <4>1 DEF Holds, Submits
      <4>3. c # approver[a].c
        BY <2>1, <2>2, <4>1, <4>2 DEF AttemptInv
      <4> QED  BY <3>1, <4>1, <4>3 DEF AttemptInv
    <3>9. AttemptInv'
      BY <3>5, <3>6, <3>7, <3>8 DEF AttemptInv, Holds, Submits
    <3> QED  BY <3>1, <3>9 DEF Proposals!SubmittedOnce, Proposals!TypeOK
  <2>6. CASE submitted' = [submitted EXCEPT ![approver[a].c] = @ + 1]
    <3>1. \/ approver' = [approver EXCEPT ![a] = Proposals!Idle]
          \/ approver' = [approver EXCEPT ![a].pc = "complete"]
      BY <1>6 DEF Proposals!Submit
    <3>2. tasks' \subseteq tasks \cup {<<approver[a].c, proposal[approver[a].c]>>}
      BY <1>6 DEF Proposals!Submit
    <3>3. \A t \in tasks' : t[2] = proposal'[t[1]]
      BY <1>6, <3>2 DEF Proposals!Submit, Proposals!SubmittedOnce
    <3> QED  BY <2>5, <2>6, <3>1, <3>3 DEF Proposals!SubmittedOnce
  <2> QED  BY <1>6, <2>4, <2>6 DEF Proposals!Submit
<1>7. ASSUME NEW a \in Approver, Proposals!CompleteApproval(a) PROVE ApprovalInv'
  <2>1. approver[a].pc = "complete" /\ approver[a].c \in Comment
    BY <1>7, BusyTyped DEF Proposals!CompleteApproval
  <2>2. approver' = [approver EXCEPT ![a] = Proposals!Idle]
    BY <1>7 DEF Proposals!CompleteApproval
  <2>3. \A c \in Comment : approval'[c] = Proposals!Missing => approval[c] = Proposals!Missing
    BY <1>7, <2>1 DEF Proposals!CompleteApproval, Proposals!TypeOK, Proposals!Missing
  <2>4. \A c \in Comment : ~Holds(a, c)' /\ ~Submits(a, c)'
    <3>1. approver'[a] = Proposals!Idle
      BY <2>2, OnlyOneMoves
    <3> QED  BY <3>1 DEF Holds, Submits, Proposals!Idle
  <2>5. \A b \in Approver, c \in Comment : /\ Holds(b, c)' => Holds(b, c)
                                           /\ Submits(b, c)' => Submits(b, c)
    BY <2>2, <2>4, OnlyOneMoves
  <2>6. submitted' = submitted
    BY <1>7 DEF Proposals!CompleteApproval
  <2>7. \A b \in Approver, c \in Comment : Holds(b, c)' => approval'[c] # Proposals!Missing
    BY <2>3, <2>5 DEF AttemptInv
  <2>8. AttemptInv'
    BY <2>3, <2>5, <2>6, <2>7 DEF AttemptInv, Holds, Submits
  <2> QED  BY <1>7, <2>8 DEF Proposals!CompleteApproval, Proposals!SubmittedOnce
<1>8. ASSUME NEW a \in Approver, Proposals!CrashApprover(a) PROVE ApprovalInv'
  BY <1>3, <1>8 DEF Proposals!CrashApprover
<1>9. CASE Proposals!Acknowledge \/ Proposals!CrashServer \/ \E d \in Delivery : Proposals!Deliver(d)
  BY <1>1, <1>9 DEF Proposals!Acknowledge, Proposals!CrashServer, Proposals!Deliver
<1>10. CASE UNCHANGED Proposals!vars
  BY <1>1, <1>10 DEF Proposals!vars
<1> QED  BY <1>2, <1>4, <1>5, <1>6, <1>7, <1>8, <1>9, <1>10 DEF Proposals!Next

\* A comment's objective reaches control at most once, and a task was accepted
\* only for what its proposal says, whoever approves, dies or loses an answer
\* (proposal.go:316).
THEOREM SubmittedAtMostOnce ==
  ASSUME Proposals!ProposalsAssumption
  PROVE  Proposals!Spec => []Proposals!SubmittedOnce
<1>1. Proposals!Init => ApprovalInv
  BY DEF Proposals!Init, ApprovalInv, AttemptInv, Holds, Submits, Proposals!SubmittedOnce, Proposals!Idle
<1>2. Proposals!Init => ReceiptInv
  BY DEF Proposals!Init, ReceiptInv, Recording, Proposals!ReceiptedIsProposed, Proposals!Idle
<1>3. ApprovalInv => Proposals!SubmittedOnce
  BY DEF ApprovalInv
<1> QED  BY <1>1, <1>2, <1>3, IntakeInvInit, IntakeInvKept, ReceiptInvKept,
            ApprovalInvKept, PTL DEF Proposals!Spec

WorkRunType == [pc : Work!Step, inv : 0..MaxExecution, made : BOOLEAN, keep : BOOLEAN,
            bound : BOOLEAN, mine : Work!Record]

WorkTyped == /\ record \in Work!Record
             /\ alive \subseteq Work!Execution \X Work!Tree
             /\ begun \in 0..MaxExecution
             /\ run \in WorkRunType
             /\ copy \in [Bystander -> Work!Record]
             /\ settled \subseteq 1..begun
             /\ run.inv <= begun

\* The record names what may still write, whatever its disposition.
WorkNamed == \A x \in alive : /\ record.there
                              /\ record.inflight = x[1]
                              /\ x[2] = "baseline" => record.noted

\* The steps at which nothing the candidate launched can still be running.
Quiet == {"work", "notStarted", "ready", "capture", "cleanup", "observe", "remove"}

\* What the lease holder may rely on where it stands: there is a record; what it
\* began is the execution in flight; and nothing writes where it reads.
WorkStanding ==
  /\ run.pc \notin {"out", "establish"} => record.there
  /\ run.pc = "bind" => run.mine.there
  /\ run.pc \in {"ready", "running", "unsettled"} => /\ record.inflight = run.inv
                                                     /\ run.inv \in Work!Execution
  /\ run.pc \in Quiet => alive = {}
  /\ run.pc = "stopped" /\ ~run.keep => alive = {}

WorkInv == WorkTyped /\ WorkNamed /\ WorkStanding /\ Work!SettledStaysSettled

LEMMA WorkInvInit == Work!WorkspaceAssumption /\ Work!Init => WorkInv
BY DEF Work!WorkspaceAssumption, Work!Init, WorkInv, WorkTyped, WorkNamed, WorkStanding, Work!SettledStaysSettled,
       Work!Blank, Work!NoRun, WorkRunType, Work!Record, Work!Disposition, Work!Step, Quiet, Work!Execution

\* A write of the record that keeps what is in flight, by whoever writes it.
Preserves(rec) == /\ rec \in Work!Record
                  /\ record.there => rec.there
                  /\ rec.inflight = record.inflight
                  /\ rec.inflight # 0 => rec.noted = record.noted

LEMMA PreservedKeeps ==
  ASSUME Work!WorkspaceAssumption, WorkInv, NEW rec \in Work!Record, record' = rec, Preserves(rec),
         UNCHANGED <<alive, begun, settled>>,
         copy' \in [Bystander -> Work!Record],
         run' \in WorkRunType, run'.inv <= begun,
         run'.pc \in {"out"} \/ run' = run
           \/ /\ run'.pc \notin {"ready", "running", "unsettled"}
              /\ run'.pc = "stopped" => run'.keep
              /\ run'.pc \in Quiet => alive = {}
              /\ run'.pc # "establish" => rec.there
              /\ run'.pc = "bind" => run'.mine.there
  PROVE  WorkInv'
<1>1. WorkTyped'
  BY DEF WorkInv, WorkTyped
<1>2. WorkNamed'
  <2>1. \A x \in alive : x[1] # 0
    BY DEF WorkInv, WorkTyped, Work!Execution, Work!WorkspaceAssumption
  <2> QED  BY <2>1 DEF WorkInv, WorkNamed, Preserves
<1>3. WorkStanding'
  <2>1. CASE run' = run
    BY <2>1 DEF WorkInv, WorkStanding, Preserves, Quiet
  <2>2. CASE run' # run
    BY <2>2 DEF WorkInv, WorkStanding, Preserves, Quiet
  <2> QED  BY <2>1, <2>2
<1>4. Work!SettledStaysSettled'
  BY DEF WorkInv, Work!SettledStaysSettled, Preserves
<1> QED  BY <1>1, <1>2, <1>3, <1>4 DEF WorkInv

\* What a process may save, or resolve to, preserves what is in flight.
LEMMA SavePreserves ==
  ASSUME WorkInv, NEW rec \in Work!Record, rec.there, Work!MaySave(rec)
  PROVE  Preserves(rec)
<1>1. record \in Work!Record
  BY DEF WorkInv, WorkTyped
<1> QED  BY <1>1 DEF Work!MaySave, Work!DropsUnsettled, Work!MintsProtected, Preserves, Work!Record

LEMMA DispositionPreserves ==
  ASSUME WorkInv, NEW disp \in Work!Disposition
  PROVE  /\ [record EXCEPT !.disp = disp] \in Work!Record
         /\ Preserves([record EXCEPT !.disp = disp])
BY DEF WorkInv, WorkTyped, Work!Record, Preserves

----------------------------------------------------------------------------
\* The run's state after a step that writes some of its fields.
LEMMA RunGoes ==
  ASSUME run \in WorkRunType, NEW step \in Work!Step, Work!Goto(step)
  PROVE  /\ run' \in WorkRunType
         /\ run'.pc = step /\ run'.inv = run.inv /\ run'.keep = run.keep
         /\ run'.mine = run.mine /\ run'.made = run.made
BY DEF Work!Goto, WorkRunType

LEMMA RunLeaves ==
  ASSUME Work!WorkspaceAssumption, Work!Leave
  PROVE  run' \in WorkRunType /\ run'.pc = "out" /\ run'.inv = 0
BY DEF Work!WorkspaceAssumption, Work!Leave, Work!NoRun, WorkRunType, Work!Step, Work!Record, Work!Blank, Work!Disposition

\* A step that leaves the record as it is, and lets executions only end.
LEMMA WorkRecordUntouched ==
  ASSUME WorkInv, UNCHANGED <<record, begun, settled>>, alive' \subseteq alive,
         copy' \in [Bystander -> Work!Record],
         run' \in WorkRunType, run'.inv <= begun,
         run'.pc \notin {"out", "establish"} => record.there,
         run'.pc = "bind" => run'.mine.there,
         run'.pc \in {"ready", "running", "unsettled"}
           => run'.inv = run.inv /\ run.pc \in {"ready", "running", "unsettled"},
         run'.pc \in Quiet => alive' = {},
         run'.pc = "stopped" /\ ~run'.keep => alive' = {}
  PROVE  WorkInv'
<1>1. WorkTyped'
  BY DEF WorkInv, WorkTyped
<1>2. WorkNamed'
  BY DEF WorkInv, WorkNamed
<1>3. WorkStanding'
  BY DEF WorkInv, WorkStanding
<1>4. Work!SettledStaysSettled'
  BY DEF WorkInv, Work!SettledStaysSettled
<1> QED  BY <1>1, <1>2, <1>3, <1>4 DEF WorkInv

\* An unsettled record, or none: where the record is settled nothing is alive.
LEMMA SettledIsQuiet ==
  ASSUME Work!WorkspaceAssumption, WorkInv, ~Work!Unsettled(record)
  PROVE  alive = {}
BY DEF Work!WorkspaceAssumption, WorkInv, WorkTyped, WorkNamed, Work!Unsettled, Work!Execution

LEMMA RunTyped == ASSUME WorkInv PROVE run \in WorkRunType /\ run.inv <= begun /\ 0 <= begun
BY DEF WorkInv, WorkTyped

LEMMA EntryKeeps ==
  ASSUME Work!WorkspaceAssumption, WorkInv, Work!Enter \/ Work!Establish \/ Work!BindGraph \/ Work!Admit
  PROVE  WorkInv'
<1> USE RunTyped
<1>c. copy \in [Bystander -> Work!Record] /\ record \in Work!Record
  BY DEF WorkInv, WorkTyped
<1>1. CASE Work!Enter
  <2>1. run' \in WorkRunType /\ run'.pc = "establish" /\ run'.inv = run.inv
    BY <1>1, RunGoes DEF Work!Enter, Work!Step
  <2> QED  BY <1>1, <1>c, <2>1, WorkRecordUntouched DEF Work!Enter, Quiet
<1>2. CASE Work!Establish
  <2>b. Work!Bound \in Work!Record /\ Work!Bound.there
    <3>1. Work!Blank \in Work!Record
      BY DEF Work!WorkspaceAssumption, Work!Blank, Work!Record, Work!Disposition
    <3> QED  BY <3>1 DEF Work!Bound, Work!Record
  <2>1. CASE record.there /\ UNCHANGED record
    <3>1. \/ Work!Leave
          \/ run' = [run EXCEPT !.pc = "bind", !.mine = record]
      BY <1>2, <2>1 DEF Work!Establish
    <3>2. CASE Work!Leave
      BY <1>2, <1>c, <2>1, <3>2, RunLeaves, WorkRecordUntouched DEF Work!Establish, Quiet
    <3>3. CASE run' = [run EXCEPT !.pc = "bind", !.mine = record]
      <4>1. run' \in WorkRunType /\ run'.pc = "bind" /\ run'.inv = run.inv /\ run'.mine = record
        BY <1>c, <3>3 DEF WorkRunType, Work!Step
      <4> QED  BY <1>2, <1>c, <2>1, <4>1, WorkRecordUntouched DEF Work!Establish, Quiet
    <3> QED  BY <3>1, <3>2, <3>3
  <2>2. CASE ~record.there
    \* With no record nothing is alive; the first record names nothing.
    <3>1. alive = {}
      BY <2>2 DEF WorkInv, WorkNamed
    <3>2. record' \in {record, Work!Bound} /\ (run'.pc # "out" => record' = Work!Bound)
      BY <1>2, <2>2, RunLeaves DEF Work!Establish, Work!Written, Work!Failed
    <3>3. /\ run' \in WorkRunType /\ run'.inv <= begun
          /\ run'.pc = "out" \/ (run'.pc = "bind" /\ run'.mine = Work!Bound)
      <4>1. CASE Work!Leave
        BY <4>1, RunLeaves
      <4>2. CASE run' = [run EXCEPT !.pc = "bind", !.mine = Work!Bound]
        BY <2>b, <4>2 DEF WorkRunType, Work!Step
      <4> QED  BY <1>2, <2>2, <4>1, <4>2 DEF Work!Establish
    <3>4. record'.inflight \notin settled
      <4>1. Work!Bound.inflight = 0 /\ 0 \notin settled
        BY DEF Work!Bound, Work!Blank, WorkInv, WorkTyped
      <4> QED  BY <3>2, <4>1 DEF WorkInv, Work!SettledStaysSettled
    <3> QED  BY <1>2, <2>b, <3>1, <3>2, <3>3, <3>4
             DEF Work!Establish, WorkInv, WorkTyped, WorkNamed, WorkStanding, Work!SettledStaysSettled, Quiet
  <2>3. record.there => UNCHANGED record
    BY <1>2 DEF Work!Establish
  <2> QED  BY <2>1, <2>2, <2>3
<1>3. CASE Work!BindGraph
  <2>1. /\ run' \in WorkRunType /\ run'.pc = "admit" /\ run'.inv = run.inv
    BY <1>3, RunGoes DEF Work!BindGraph, Work!Step
  <2>2. run.mine \in Work!Record /\ run.mine.there /\ record.there
    BY <1>3 DEF Work!BindGraph, WorkInv, WorkStanding, WorkRunType
  <2>3. CASE UNCHANGED record
    BY <1>3, <1>c, <2>1, <2>2, <2>3, WorkRecordUntouched DEF Work!BindGraph, Quiet
  <2>4. CASE Work!MaySave(run.mine) /\ record' = run.mine
    BY <1>3, <1>c, <2>1, <2>2, <2>4, SavePreserves, PreservedKeeps DEF Work!BindGraph, Quiet
  <2> QED  BY <1>3, <2>3, <2>4 DEF Work!BindGraph, Work!Written
<1>4. CASE Work!Admit
  <2>1. CASE Work!Leave
    BY <1>4, <1>c, <2>1, RunLeaves, WorkRecordUntouched DEF Work!Admit, Quiet
  <2>2. CASE ~Work!Unsettled(record) /\ Work!Goto("work")
    <3>1. run' \in WorkRunType /\ run'.pc = "work" /\ run'.inv = run.inv
      BY <2>2, RunGoes DEF Work!Step
    <3>2. record.there /\ alive = {}
      BY <1>4, <2>2, SettledIsQuiet DEF Work!Admit, WorkInv, WorkStanding
    <3> QED  BY <1>4, <1>c, <3>1, <3>2, WorkRecordUntouched DEF Work!Admit
  <2> QED  BY <1>4, <2>1, <2>2 DEF Work!Admit
<1> QED  BY <1>1, <1>2, <1>3, <1>4

\* The record with an execution in flight, without one, and with its baseline.
LEMMA RecordForms ==
  ASSUME Work!WorkspaceAssumption, WorkInv, NEW i \in 0..MaxExecution
  PROVE  /\ [record EXCEPT !.inflight = i, !.noted = FALSE] \in Work!Record
         /\ [record EXCEPT !.inflight = i, !.noted = FALSE].there = record.there
         /\ [record EXCEPT !.inflight = i, !.noted = FALSE].inflight = i
         /\ [record EXCEPT !.noted = TRUE] \in Work!Record
         /\ [record EXCEPT !.noted = TRUE].there = record.there
         /\ [record EXCEPT !.noted = TRUE].inflight = record.inflight
         /\ [record EXCEPT !.noted = TRUE].noted
BY DEF WorkInv, WorkTyped, Work!Record

LEMMA BeginKeeps == ASSUME Work!WorkspaceAssumption, WorkInv, Work!BeginExecution PROVE WorkInv'
<1> USE RunTyped
<1> DEFINE next == [record EXCEPT !.inflight = begun + 1, !.noted = FALSE]
<1>1. begun + 1 \in Work!Execution /\ begun' = begun + 1 /\ begun' \in 0..MaxExecution
  BY DEF Work!WorkspaceAssumption, Work!BeginExecution, WorkInv, WorkTyped, Work!Execution
<1>2. next \in Work!Record /\ next.there = record.there /\ next.inflight = begun + 1
  BY <1>1, RecordForms DEF Work!WorkspaceAssumption, Work!Execution
<1>3. record.there /\ alive = {} /\ settled \subseteq 1..begun
  BY DEF Work!BeginExecution, WorkInv, WorkTyped, WorkStanding, Quiet
<1>4. begun + 1 \notin settled
  BY <1>1, <1>3, RunTyped DEF WorkInv, WorkTyped
<1> HIDE DEF next
<1>5. /\ run' \in WorkRunType
      /\ \/ record' = next /\ run'.pc = "ready" /\ run'.inv = begun + 1
         \/ record' \in {record, next} /\ run'.pc = "notStarted" /\ run'.inv = begun + 1
         \/ record' = record /\ run'.pc = "stopped" /\ run'.inv = run.inv
  <2>1. CASE record' = next /\ run' = [run EXCEPT !.pc = "ready", !.inv = begun + 1, !.bound = TRUE]
    BY <1>1, <2>1 DEF WorkRunType, Work!Step, Work!Execution
  <2>2. CASE record' \in {record, next}
             /\ run' = [run EXCEPT !.pc = "notStarted", !.inv = begun + 1]
    BY <1>1, <2>2 DEF WorkRunType, Work!Step, Work!Execution
  <2>3. CASE record' = record /\ run' = [run EXCEPT !.pc = "stopped", !.keep = TRUE]
    BY <2>3 DEF WorkRunType, Work!Step
  <2> QED  BY <2>1, <2>2, <2>3 DEF Work!BeginExecution, Work!Written, Work!Failed, next
<1>6. WorkTyped'
  <2>1. begun \in Nat /\ run.inv \in Nat
    BY DEF Work!WorkspaceAssumption, WorkInv, WorkTyped, WorkRunType
  <2>2. run'.inv <= begun' /\ settled \subseteq 1..begun'
    BY <1>1, <1>3, <1>5, <2>1, RunTyped
  <2>3. record' \in Work!Record
    BY <1>2, <1>5 DEF WorkInv, WorkTyped
  <2> QED  BY <1>1, <1>3, <1>5, <2>2, <2>3 DEF Work!BeginExecution, WorkInv, WorkTyped
<1>7. WorkNamed' /\ WorkStanding'
  BY <1>1, <1>2, <1>3, <1>5 DEF Work!BeginExecution, WorkNamed, WorkStanding
<1>8. Work!SettledStaysSettled'
  BY <1>2, <1>4, <1>5 DEF Work!BeginExecution, WorkInv, Work!SettledStaysSettled
<1> QED  BY <1>6, <1>7, <1>8 DEF WorkInv

\* A step of the lease holder that changes neither record nor executions.
LEMMA LaunchKeeps ==
  ASSUME Work!WorkspaceAssumption, WorkInv, Work!Launch \/ Work!Attribute \/ Work!Return
  PROVE  WorkInv'
<1> USE RunTyped
<1>1. CASE Work!Launch
  <2>1. run' \in WorkRunType /\ run'.pc = "running" /\ run'.inv = run.inv
    BY <1>1, RunGoes DEF Work!Launch, Work!Step
  <2>2. alive = {} /\ record.there /\ record.inflight = run.inv /\ run.inv \in Work!Execution
    BY <1>1 DEF Work!Launch, WorkInv, WorkStanding, Quiet
  <2>3. alive' = {<<run.inv, "work">>}
    BY <1>1, <2>2 DEF Work!Launch
  <2> QED  BY <1>1, <2>1, <2>2, <2>3
           DEF Work!Launch, WorkInv, WorkTyped, WorkNamed, WorkStanding, Work!SettledStaysSettled, Work!Tree, Quiet
<1>2. CASE Work!Attribute
  <2> DEFINE named == [record EXCEPT !.noted = TRUE]
  <2>1. /\ named \in Work!Record /\ named.there = record.there
        /\ named.inflight = record.inflight /\ named.noted
    <3>1. 0 \in 0..MaxExecution
      BY DEF Work!WorkspaceAssumption
    <3> QED  BY <3>1, RecordForms
  <2> HIDE DEF named
  <2>2. alive = {} /\ record.there /\ record.inflight = run.inv /\ run.inv \in Work!Execution
    BY <1>2 DEF Work!Attribute, WorkInv, WorkStanding, Quiet
  <2>3. /\ run' \in WorkRunType /\ run'.inv = run.inv
        /\ \/ /\ record' = named /\ alive' = {<<run.inv, "baseline">>}
              /\ run'.pc = "running"
           \/ /\ record' \in {record, named} /\ alive' = {} /\ run'.pc = "ready"
    <3>1. CASE record' = named /\ alive' = alive \cup {<<run.inv, "baseline">>}
               /\ run' = [run EXCEPT !.pc = "running", !.made = TRUE]
      BY <2>2, <3>1 DEF WorkRunType, Work!Step
    <3>2. CASE record' \in {record, named} /\ alive' = alive
               /\ run' = [run EXCEPT !.made = TRUE, !.bound = FALSE]
      BY <1>2, <2>2, <3>2 DEF Work!Attribute, WorkRunType, Work!Step
    <3> QED  BY <1>2, <3>1, <3>2 DEF Work!Attribute, Work!Written, Work!Failed, named
  <2>4. UNCHANGED <<begun, copy, settled>>
    BY <1>2 DEF Work!Attribute
  <2>5. WorkTyped'
    <3>1. alive' \subseteq Work!Execution \X Work!Tree
      BY <2>2, <2>3 DEF Work!Tree
    <3> QED  BY <2>1, <2>3, <2>4, <3>1 DEF WorkInv, WorkTyped
  <2>6. WorkNamed'
    <3>1. CASE alive' = {}
      BY <3>1 DEF WorkNamed
    <3>2. CASE record' = named /\ alive' = {<<run.inv, "baseline">>}
      <4>1. record'.there /\ record'.inflight = run.inv /\ record'.noted
        BY <2>1, <2>2, <3>2
      <4>2. \A x \in alive' : x[1] = run.inv
        BY <3>2
      <4> QED  BY <4>1, <4>2 DEF WorkNamed
    <3> QED  BY <2>3, <3>1, <3>2
  <2>7. WorkStanding'
    BY <2>1, <2>2, <2>3 DEF WorkStanding, Quiet
  <2>8. Work!SettledStaysSettled'
    BY <2>1, <2>3, <2>4 DEF WorkInv, Work!SettledStaysSettled
  <2> QED  BY <2>5, <2>6, <2>7, <2>8 DEF WorkInv
<1>3. CASE Work!Return
  <2>1. CASE alive' = alive \ Work!Mine /\ Work!Goto("ready")
    <3>1. run' \in WorkRunType /\ run'.pc = "ready" /\ run'.inv = run.inv
      BY <2>1, RunGoes DEF Work!Step
    <3>2. alive' = {}
      BY <1>3, <2>1 DEF Work!Return, WorkInv, WorkNamed, WorkStanding, Work!Mine
    <3> QED  BY <1>3, <3>1, <3>2, WorkRecordUntouched DEF Work!Return, WorkInv, WorkTyped, WorkStanding
  <2>2. CASE Work!Goto("unsettled") /\ UNCHANGED alive
    <3>1. run' \in WorkRunType /\ run'.pc = "unsettled" /\ run'.inv = run.inv
      BY <2>2, RunGoes DEF Work!Step
    <3> QED  BY <1>3, <2>2, <3>1, WorkRecordUntouched DEF Work!Return, WorkInv, WorkTyped, WorkStanding, Quiet
  <2> QED  BY <1>3, <2>1, <2>2 DEF Work!Return
<1> QED  BY <1>1, <1>2, <1>3

LEMMA SettleKeeps == ASSUME Work!WorkspaceAssumption, WorkInv, Work!SettleExecution PROVE WorkInv'
<1> USE RunTyped
<1> DEFINE clear == [record EXCEPT !.inflight = 0, !.noted = FALSE]
<1>1. clear \in Work!Record /\ clear.there = record.there /\ clear.inflight = 0
  <2>1. 0 \in 0..MaxExecution
    BY DEF Work!WorkspaceAssumption
  <2> QED  BY <2>1, RecordForms
<1>2. alive = {} /\ record.there /\ record.inflight = run.inv /\ run.inv \in Work!Execution
  BY DEF Work!SettleExecution, WorkInv, WorkStanding, Quiet
<1> HIDE DEF clear
<1>3. /\ run' \in WorkRunType /\ run'.inv = run.inv
      /\ run'.pc \in {"capture", "stopped"}
      /\ \/ record' = clear /\ settled' = settled \cup {run.inv}
         \/ record' = record /\ settled' = settled
  <2>1. clear # record
    BY <1>1, <1>2 DEF Work!WorkspaceAssumption, Work!Execution
  <2>2. CASE record' = clear /\ settled' = settled \cup {run.inv}
             /\ Work!Goto(IF run.bound THEN "capture" ELSE "stopped")
    BY <2>2, RunGoes DEF Work!Step
  <2>3. CASE /\ record' \in {record, clear}
             /\ settled' = IF record' = record THEN settled ELSE settled \cup {run.inv}
             /\ run' = [run EXCEPT !.pc = "stopped", !.keep = TRUE]
    <3>1. run' \in WorkRunType /\ run'.inv = run.inv /\ run'.pc = "stopped"
      BY <2>3 DEF WorkRunType, Work!Step
    <3> QED  BY <2>1, <2>3, <3>1
  <2> QED  BY <2>2, <2>3 DEF Work!SettleExecution, Work!Written, Work!Failed, clear
<1>4. WorkTyped'
  BY <1>1, <1>2, <1>3 DEF Work!SettleExecution, WorkInv, WorkTyped, Work!Execution
<1>5. WorkNamed' /\ WorkStanding'
  BY <1>1, <1>2, <1>3 DEF Work!SettleExecution, WorkNamed, WorkStanding
<1>6. Work!SettledStaysSettled'
  <2>1. 0 \notin settled \cup {run.inv}
    BY <1>2 DEF WorkInv, WorkTyped, Work!Execution
  <2> QED  BY <1>1, <1>3, <2>1 DEF WorkInv, Work!SettledStaysSettled
<1> QED  BY <1>4, <1>5, <1>6 DEF WorkInv

\* What ends the batch, the validation and the run.
LEMMA EndKeeps ==
  ASSUME Work!WorkspaceAssumption, WorkInv,
         \/ Work!JudgeBaseline \/ Work!QuarantineExecution \/ Work!Capture \/ Work!Validated \/ Work!Cleanup
         \/ Work!Crash
  PROVE  WorkInv'
<1> USE RunTyped
<1>c. copy \in [Bystander -> Work!Record] /\ record \in Work!Record
  BY DEF WorkInv, WorkTyped
<1>1. CASE Work!JudgeBaseline
  <2>1. run' \in WorkRunType /\ run'.pc = "stopped" /\ run'.inv = run.inv
    BY <1>1 DEF Work!JudgeBaseline, WorkRunType, Work!Step
  <2>2. record.there /\ alive = {}
    BY <1>1 DEF Work!JudgeBaseline, WorkInv, WorkStanding, Quiet
  <2> QED  BY <1>1, <1>c, <2>1, <2>2, WorkRecordUntouched DEF Work!JudgeBaseline
<1>2. CASE Work!QuarantineExecution
  <2> DEFINE kept == [record EXCEPT !.disp = "quarantined"]
  <2>1. kept \in Work!Record /\ Preserves(kept) /\ kept.there = record.there
    BY <1>c DEF Work!Record, Work!Disposition, Preserves
  <2>2. run' \in WorkRunType /\ run'.pc = "stopped" /\ run'.inv = run.inv /\ run'.keep
    BY <1>2 DEF Work!QuarantineExecution, WorkRunType, Work!Step
  <2>3. record.there /\ Preserves(record)
    BY <1>2, <1>c DEF Work!QuarantineExecution, WorkInv, WorkStanding, Preserves
  <2> HIDE DEF kept
  <2>4. record' = kept \/ record' = record
    BY <1>2 DEF Work!QuarantineExecution, Work!Written, Work!Failed, kept
  <2>5. UNCHANGED <<alive, begun, settled, copy>>
    BY <1>2 DEF Work!QuarantineExecution
  <2>6. CASE record' = kept
    BY <1>c, <2>1, <2>2, <2>3, <2>5, <2>6, PreservedKeeps DEF Quiet
  <2>7. CASE record' = record
    BY <1>c, <2>2, <2>3, <2>5, <2>7, PreservedKeeps DEF Quiet
  <2> QED  BY <2>4, <2>6, <2>7
<1>3. CASE Work!Capture \/ Work!Validated
  <2>1. /\ run' \in WorkRunType /\ run'.pc \in {"work", "cleanup"} /\ run'.inv = run.inv
    BY <1>3, RunGoes DEF Work!Capture, Work!Validated, Work!Step
  <2>2. record.there /\ alive = {}
    BY <1>3 DEF Work!Capture, Work!Validated, WorkInv, WorkStanding, Quiet
  <2> QED  BY <1>3, <1>c, <2>1, <2>2, WorkRecordUntouched DEF Work!Capture, Work!Validated
<1>4. CASE Work!Cleanup
  <2>1. CASE Work!Leave
    BY <1>4, <1>c, <2>1, RunLeaves, WorkRecordUntouched DEF Work!Cleanup, Quiet
  <2>2. CASE run.pc = "cleanup" /\ run' \in {[run EXCEPT !.pc = step, !.made = FALSE] :
                                                step \in {"work", "dispose", "resolve"}}
    <3>1. /\ run' \in WorkRunType /\ run'.pc \in {"work", "dispose", "resolve"}
          /\ run'.inv = run.inv
      BY <2>2 DEF WorkRunType, Work!Step
    <3>2. record.there /\ alive = {}
      BY <2>2 DEF WorkInv, WorkStanding, Quiet
    <3> QED  BY <1>4, <1>c, <3>1, <3>2, WorkRecordUntouched DEF Work!Cleanup
  <2> QED  BY <1>4, <2>1, <2>2 DEF Work!Cleanup
<1>5. CASE Work!Crash
  BY <1>5, <1>c, RunLeaves, WorkRecordUntouched DEF Work!Crash, Quiet
<1> QED  BY <1>1, <1>2, <1>3, <1>4, <1>5

\* Resolving, or failing to, preserves what is in flight; a resolution is of a
\* settled record.
LEMMA ResolveForms ==
  ASSUME WorkInv, NEW disp \in Work!Disposition, Work!Resolve(disp) \/ Work!NotResolved(disp)
  PROVE  /\ record' \in Work!Record /\ Preserves(record')
         /\ record'.there = record.there
         /\ Work!Resolve(disp) => ~Work!Unsettled(record)
BY DEF WorkInv, WorkTyped, Work!Resolve, Work!NotResolved, Work!Written, Work!Failed, Work!Record, Preserves

LEMMA DisposeKeeps ==
  ASSUME Work!WorkspaceAssumption, WorkInv,
         Work!Retain \/ Work!Dispose \/ Work!Observe \/ Work!Remove \/ Work!Removed
  PROVE  WorkInv'
<1> USE RunTyped
<1>c. copy \in [Bystander -> Work!Record] /\ record \in Work!Record
  BY DEF WorkInv, WorkTyped
<1>1. CASE Work!Retain
  <2>1. PICK disp \in Work!Disposition : Work!Resolve(disp) \/ Work!NotResolved(disp)
    BY <1>1 DEF Work!Retain, Work!Disposition
  <2>2. record' \in Work!Record /\ Preserves(record')
    BY <2>1, ResolveForms
  <2> QED  BY <1>1, <1>c, <2>2, RunLeaves, PreservedKeeps DEF Work!Retain
<1>2. CASE Work!Dispose
  <2>1. CASE Work!Leave
    BY <1>2, <1>c, <2>1, RunLeaves, WorkRecordUntouched DEF Work!Dispose, Quiet
  <2>2. CASE ~Work!Unsettled(record) /\ Work!Goto("observe")
    <3>1. run' \in WorkRunType /\ run'.pc = "observe" /\ run'.inv = run.inv
      BY <2>2, RunGoes DEF Work!Step
    <3>2. record.there /\ alive = {}
      BY <1>2, <2>2, SettledIsQuiet DEF Work!Dispose, WorkInv, WorkStanding
    <3> QED  BY <1>2, <1>c, <3>1, <3>2, WorkRecordUntouched DEF Work!Dispose
  <2> QED  BY <1>2, <2>1, <2>2 DEF Work!Dispose
<1>3. CASE Work!Observe
  <2>1. record.there /\ alive = {}
    BY <1>3 DEF Work!Observe, WorkInv, WorkStanding, Quiet
  <2>2. PICK disp \in Work!Disposition : Work!Resolve(disp) \/ Work!NotResolved(disp)
    BY <1>3 DEF Work!Observe, Work!Disposition
  <2>3. record' \in Work!Record /\ Preserves(record') /\ record'.there
    BY <2>1, <2>2, ResolveForms
  <2>4. CASE Work!Leave
    BY <1>3, <1>c, <2>3, <2>4, RunLeaves, PreservedKeeps DEF Work!Observe
  <2>5. CASE Work!Goto("remove")
    <3>1. run' \in WorkRunType /\ run'.pc = "remove" /\ run'.inv = run.inv
      BY <2>5, RunGoes DEF Work!Step
    <3> QED  BY <1>3, <1>c, <2>1, <2>3, <3>1, PreservedKeeps DEF Work!Observe
  <2> QED  BY <1>3, <2>4, <2>5 DEF Work!Observe
<1>4. CASE Work!Remove
  <2>1. run' \in WorkRunType /\ run'.pc = "removed" /\ run'.inv = run.inv
    BY <1>4, RunGoes DEF Work!Remove, Work!Step
  <2>2. record.there
    BY <1>4 DEF Work!Remove, WorkInv, WorkStanding
  <2> QED  BY <1>4, <1>c, <2>1, <2>2, WorkRecordUntouched DEF Work!Remove, Quiet
<1>5. CASE Work!Removed
  <2>1. record' \in Work!Record /\ Preserves(record')
    BY <1>5, ResolveForms DEF Work!Removed, Work!Disposition
  <2> QED  BY <1>5, <1>c, <2>1, RunLeaves, PreservedKeeps DEF Work!Removed
<1> QED  BY <1>1, <1>2, <1>3, <1>4, <1>5

LEMMA OthersKeep ==
  ASSUME Work!WorkspaceAssumption, WorkInv,
         \/ \E x \in alive : Work!End(x)
         \/ \E b \in Bystander : \/ Work!Load(b) \/ Work!SaveCopy(b)
                                 \/ \E disp \in Work!Disposition \ {"none", "quarantined"} :
                                      Work!ResolveCopy(b, disp)
  PROVE  WorkInv'
<1> USE RunTyped
<1>c. copy \in [Bystander -> Work!Record] /\ record \in Work!Record
  BY DEF WorkInv, WorkTyped
<1>1. CASE \E x \in alive : Work!End(x)
  <2>1. alive' \subseteq alive /\ UNCHANGED <<record, begun, run, copy, settled>>
    BY <1>1 DEF Work!End
  <2> QED  BY <1>c, <2>1 DEF WorkInv, WorkTyped, WorkNamed, WorkStanding, Work!SettledStaysSettled
<1>2. ASSUME NEW b \in Bystander, Work!Load(b) PROVE WorkInv'
  BY <1>2, <1>c DEF Work!Load, WorkInv, WorkTyped, WorkNamed, WorkStanding, Work!SettledStaysSettled
<1>3. ASSUME NEW b \in Bystander, Work!SaveCopy(b) PROVE WorkInv'
  <2>1. copy[b] \in Work!Record /\ copy[b].there /\ Work!MaySave(copy[b]) /\ record' = copy[b]
    BY <1>3, <1>c DEF Work!SaveCopy, Work!Written
  <2>2. Preserves(copy[b])
    BY <2>1, SavePreserves
  <2> QED  BY <1>3, <1>c, <2>1, <2>2, PreservedKeeps DEF Work!SaveCopy
<1>4. ASSUME NEW b \in Bystander, NEW disp \in Work!Disposition, Work!ResolveCopy(b, disp)
      PROVE  WorkInv'
  <2>1. record' \in Work!Record /\ Preserves(record')
    BY <1>4, ResolveForms DEF Work!ResolveCopy
  <2> QED  BY <1>4, <1>c, <2>1, PreservedKeeps DEF Work!ResolveCopy
<1> QED  BY <1>1, <1>2, <1>3, <1>4

LEMMA WorkInvKept == Work!WorkspaceAssumption /\ WorkInv /\ [Work!Next]_Work!vars => WorkInv'
<1> SUFFICES ASSUME Work!WorkspaceAssumption, WorkInv, [Work!Next]_Work!vars PROVE WorkInv'
  OBVIOUS
<1>1. CASE UNCHANGED Work!vars
  BY <1>1 DEF Work!vars, WorkInv, WorkTyped, WorkNamed, WorkStanding, Work!SettledStaysSettled
<1>2. CASE Work!RunNext
  BY <1>2, EntryKeeps, BeginKeeps, LaunchKeeps, SettleKeeps, EndKeeps, DisposeKeeps
     DEF Work!RunNext
<1>3. CASE Work!Next /\ ~Work!RunNext
  BY <1>3, OthersKeep DEF Work!Next
<1> QED  BY <1>1, <1>2, <1>3

\* Whatever crashes, fails, saves or resolves in between, an execution that may
\* still write is on the record, with the baseline it may write to; and one that
\* was settled never comes back (identity.go:288, disposition.go:193).
THEOREM RecordIsAlwaysTrue ==
  ASSUME Work!WorkspaceAssumption PROVE Work!Spec => []Work!RecordIsTrue
<1>1. Work!Init => WorkInv
  BY WorkInvInit
<1>2. WorkInv /\ [Work!Next]_Work!vars => WorkInv'
  BY WorkInvKept
<1>3. WorkInv => Work!RecordIsTrue
  BY DEF WorkInv, WorkNamed, Work!RecordIsTrue, Work!AliveIsRecorded
<1> QED  BY <1>1, <1>2, <1>3, PTL DEF Work!Spec

\* No worktree is captured, observed or removed while an execution may still
\* write to it (engine.go:13423, engine.go:12377).
THEOREM OnlyQuietIsTouched ==
  ASSUME Work!WorkspaceAssumption PROVE Work!Spec => []Work!TouchedIsQuiet
<1>1. Work!Init => WorkInv
  BY WorkInvInit
<1>2. WorkInv /\ [Work!Next]_Work!vars => WorkInv'
  BY WorkInvKept
<1>3. WorkInv => Work!TouchedIsQuiet
  BY DEF WorkInv, WorkStanding, Work!TouchedIsQuiet, Work!Removes, Quiet
<1> QED  BY <1>1, <1>2, <1>3, PTL DEF Work!Spec

-----------------------------------------------------------------------------
(* The transaction of a checkpoint.                                        *)

CallStep == {"idle", "load", "append", "written", "recorded", "payload", "read"}

\* The steps of an attempt that has drawn its identity, and of these, the ones
\* that have written a line that is not settled.
Attempting == CallStep \ {"idle", "load"}
Writing    == {"written", "recorded"}

Attempt == [at : CallStep, kind : {"prepared", "committed"},
            id : Checkpoints!Checkpoint \cup {Checkpoints!NoCheckpoint}, previous : Checkpoints!Checkpoint \cup {Checkpoints!NoCheckpoint},
            prior : {"unknown", "absent", "known"}, tried : Nat, ids : SUBSET Checkpoints!Checkpoint]

CheckpointTypes ==
  /\ held \in Seq(Checkpoints!Entry) /\ stable \in Seq(Checkpoints!Entry)
  /\ payload \in [Checkpoints!Checkpoint -> Checkpoints!Progress]
  /\ place \in {"none", "made", "kept"}
  /\ call \in Attempt
  /\ session \in 1..MaxSession
  /\ returned \subseteq Checkpoints!Checkpoint
  /\ refused.session \in Nat /\ refused.session <= session

\* The record without the line that is being written.
Firm == IF call.at \in Writing THEN SubSeq(held, 1, Len(held) - 1) ELSE held

StandsIn(h, c) == \E s \in 1..MaxSession : \E i \in Checkpoints!Proven(h, s) : h[i].id = c

PreparedLine == [kind |-> "prepared", id |-> call.id, previous |-> call.previous,
                 session |-> session]

\* What the call knows at each of its steps: the checkpoint it follows is the one
\* the record commits, and before it says COMMITTED its payload is in full and
\* PREPARED is a line before.
Attempted ==
  /\ call.at \in Attempting => /\ call.id \in Checkpoints!Checkpoint
                               /\ call.previous = Checkpoints!CommittedCheckpoint(Firm, session)
  /\ call.at \in Writing => /\ Firm \in Seq(Checkpoints!Entry)
                            /\ held = Append(Firm, Checkpoints!Append1)
  /\ call.at = "recorded" => stable = held
  /\ call.kind = "committed" => call.at \in {"append"} \cup Writing
  /\ call.at = "read" \/ call.kind = "committed" => payload[call.id] = "kept"
  /\ call.at \in {"payload", "read"} \/ call.kind = "committed"
       => \E j \in 1..Len(Firm) : Firm[j] = PreparedLine
  /\ call.at # "idle" => refused = Checkpoints!Nothing

\* A payload is in a directory; what was returned is kept, committed on disk and
\* committed before whatever line is being written.
Kept ==
  /\ \A c \in Checkpoints!Checkpoint : payload[c] # "none" => place # "none"
  /\ \A c \in returned : /\ payload[c] = "kept" /\ place = "kept"
                         /\ StandsIn(stable, c) /\ StandsIn(Firm, c)

CheckpointInv == CheckpointTypes /\ Attempted /\ Kept /\ Checkpoints!PriorIsTrue

\* A set of numbers up to n has a greatest.
LEMMA MaxHas ==
  ASSUME NEW n \in Nat, NEW S \in SUBSET (1..n), S # {}
  PROVE  \E x \in S : \A y \in S : x >= y
<1> DEFINE T == {n - x : x \in S}
<1>1. T \subseteq Nat /\ T # {}
  <2>1. \A x \in S : x \in Int /\ n - x \in Nat
    OBVIOUS
  <2> QED  BY <2>1
<1>2. PICK t \in T : \A y \in T : ~ (<<y, t>> \in OpToRel(<, Nat))
  BY <1>1, NatLessThanWellFounded, WFMin
<1>3. PICK x \in S : t = n - x
  BY <1>2
<1>4. ASSUME NEW y \in S PROVE x >= y
  <2>1. n - y \in T /\ n - y \in Nat /\ t \in Nat
    BY <1>1, <1>2
  <2>2. ~ (n - y < t)
    BY <2>1, <1>2 DEF OpToRel
  <2> QED  BY <2>1, <2>2, <1>3
<1> QED  BY <1>4

LEMMA MaxIn ==
  ASSUME NEW n \in Nat, NEW S \in SUBSET (1..n), S # {}
  PROVE  Checkpoints!Max(S) \in S
BY MaxHas DEF Checkpoints!Max

LEMMA CommittedIs ==
  ASSUME NEW h \in Seq(Checkpoints!Entry), NEW s
  PROVE  Checkpoints!CommittedCheckpoint(h, s) \in Checkpoints!Checkpoint \cup {Checkpoints!NoCheckpoint}
<1>1. CASE Checkpoints!Proven(h, s) = {}
  BY <1>1 DEF Checkpoints!CommittedCheckpoint
<1>2. CASE Checkpoints!Proven(h, s) # {}
  <2>0. Len(h) \in Nat /\ Checkpoints!Proven(h, s) \in SUBSET (1..Len(h))
    BY DEF Checkpoints!Proven
  <2>1. Checkpoints!Max(Checkpoints!Proven(h, s)) \in 1..Len(h)
    BY <2>0, <1>2, MaxIn
  <2>2. h[Checkpoints!Max(Checkpoints!Proven(h, s))] \in Checkpoints!Entry
    BY <2>1
  <2> QED  BY <2>2, <1>2 DEF Checkpoints!CommittedCheckpoint, Checkpoints!Entry
<1> QED  BY <1>1, <1>2

\* A line added leaves what was proven, and unless it says COMMITTED that is all.
LEMMA ProvenAppend ==
  ASSUME NEW h \in Seq(Checkpoints!Entry), NEW e \in Checkpoints!Entry, NEW s
  PROVE  /\ \A i \in 1..Len(h) : i \in Checkpoints!Proven(h, s) <=> i \in Checkpoints!Proven(Append(h, e), s)
         /\ \A i \in Checkpoints!Proven(h, s) : i \in 1..Len(h) /\ Append(h, e)[i] = h[i]
         /\ e.kind = "prepared" => Checkpoints!Proven(Append(h, e), s) = Checkpoints!Proven(h, s)
<1>1. /\ Append(h, e) \in Seq(Checkpoints!Entry) /\ Len(Append(h, e)) = Len(h) + 1
      /\ \A i \in 1..Len(h) : Append(h, e)[i] = h[i]
      /\ Append(h, e)[Len(h) + 1] = e
  BY AppendProperties
<1>2. \A i \in 1..Len(h) : Checkpoints!PreparedBefore(Append(h, e), i) <=> Checkpoints!PreparedBefore(h, i)
  BY <1>1 DEF Checkpoints!PreparedBefore
<1>3. \A i \in 1..Len(h) : i \in Checkpoints!Proven(h, s) <=> i \in Checkpoints!Proven(Append(h, e), s)
  BY <1>1, <1>2 DEF Checkpoints!Proven
<1>4. Checkpoints!Proven(h, s) \subseteq 1..Len(h) /\ Checkpoints!Proven(Append(h, e), s) \subseteq 1..(Len(h) + 1)
  BY <1>1 DEF Checkpoints!Proven
<1>5. e.kind = "prepared" => Len(h) + 1 \notin Checkpoints!Proven(Append(h, e), s)
  BY <1>1 DEF Checkpoints!Proven
<1>6. ASSUME e.kind = "prepared" PROVE Checkpoints!Proven(Append(h, e), s) = Checkpoints!Proven(h, s)
  <2>1. \A i \in 1..(Len(h) + 1) : i \in 1..Len(h) \/ i = Len(h) + 1
    OBVIOUS
  <2> QED  BY <2>1, <1>3, <1>4, <1>5, <1>6
<1> QED  BY <1>1, <1>3, <1>4, <1>6

LEMMA StandsAppend ==
  ASSUME NEW h \in Seq(Checkpoints!Entry), NEW e \in Checkpoints!Entry, NEW c, StandsIn(h, c)
  PROVE  StandsIn(Append(h, e), c)
<1>1. PICK s \in 1..MaxSession : \E i \in Checkpoints!Proven(h, s) : h[i].id = c
  BY DEF StandsIn
<1>2. PICK i \in Checkpoints!Proven(h, s) : h[i].id = c
  BY <1>1
<1>3. i \in Checkpoints!Proven(Append(h, e), s) /\ Append(h, e)[i].id = c
  BY <1>2, ProvenAppend
<1> QED  BY <1>3 DEF StandsIn

LEMMA CommittedAppend ==
  ASSUME NEW h \in Seq(Checkpoints!Entry), NEW e \in Checkpoints!Entry, NEW s, e.kind = "prepared"
  PROVE  Checkpoints!CommittedCheckpoint(Append(h, e), s) = Checkpoints!CommittedCheckpoint(h, s)
<1>1. Checkpoints!Proven(Append(h, e), s) = Checkpoints!Proven(h, s)
  BY ProvenAppend
<1>2. CASE Checkpoints!Proven(h, s) = {}
  BY <1>1, <1>2 DEF Checkpoints!CommittedCheckpoint
<1>3. CASE Checkpoints!Proven(h, s) # {}
  <2>1. Len(h) \in Nat /\ Checkpoints!Proven(h, s) \in SUBSET (1..Len(h))
    BY DEF Checkpoints!Proven
  <2>3. Checkpoints!Max(Checkpoints!Proven(h, s)) \in Checkpoints!Proven(h, s)
    BY <2>1, <1>3, MaxIn
  <2>2. Append(h, e)[Checkpoints!Max(Checkpoints!Proven(h, s))] = h[Checkpoints!Max(Checkpoints!Proven(h, s))]
    BY <2>3, ProvenAppend
  <2> QED  BY <2>2, <1>1 DEF Checkpoints!CommittedCheckpoint
<1> QED  BY <1>2, <1>3

LEMMA WithoutLast ==
  ASSUME NEW h \in Seq(Checkpoints!Entry), NEW e \in Checkpoints!Entry
  PROVE  /\ Append(h, e) \in Seq(Checkpoints!Entry)
         /\ SubSeq(Append(h, e), 1, Len(Append(h, e)) - 1) = h
<1>1. /\ Append(h, e) \in Seq(Checkpoints!Entry) /\ Len(Append(h, e)) - 1 = Len(h)
      /\ \A i \in 1..Len(h) : Append(h, e)[i] = h[i]
  BY AppendProperties
<1>2. /\ SubSeq(Append(h, e), 1, Len(h)) \in Seq(Checkpoints!Entry)
      /\ Len(SubSeq(Append(h, e), 1, Len(h))) = Len(h)
      /\ \A i \in 1..Len(h) : SubSeq(Append(h, e), 1, Len(h))[i] = h[i]
  BY <1>1, SubSeqProperties
<1> QED  BY <1>1, <1>2, SeqEqual

LEMMA CheckpointInvInit == Checkpoints!CheckpointAssumption /\ Checkpoints!Init => CheckpointInv
BY DEF Checkpoints!CheckpointAssumption, Checkpoints!Init, CheckpointInv, CheckpointTypes, Attempted, Kept, Checkpoints!PriorIsTrue,
       Checkpoints!Idle, Checkpoints!Nothing, Attempt, CallStep, Attempting, Writing, Firm, Checkpoints!Progress, Checkpoints!NoCheckpoint

\* An operation that leaves the record and the call alone, but for what it says.
LEMMA CallIs == ASSUME CheckpointTypes PROVE call \in Attempt /\ call.ids \subseteq Checkpoints!Checkpoint
BY DEF CheckpointTypes, Attempt

\* What fails is over; a retry begins with nothing drawn.
LEMMA EndsOrRetries ==
  ASSUME Checkpoints!CheckpointAssumption, CheckpointTypes, session' = session,
         NEW prior \in {"unknown", "absent", "known"},
         NEW previous \in Checkpoints!Checkpoint \cup {Checkpoints!NoCheckpoint}, NEW unsure \in BOOLEAN,
         Checkpoints!Fails(prior, previous, unsure) \/ Checkpoints!AttemptFails(prior, previous)
  PROVE  /\ call' \in Attempt /\ call'.at \in {"idle", "load"} /\ call'.kind = "prepared"
         /\ \/ call'.at = "idle" /\ refused'.session = session /\ refused'.prior = prior
               /\ refused'.previous = previous
            \/ call'.at = "load" /\ UNCHANGED refused
<1>1. call.ids \subseteq Checkpoints!Checkpoint /\ call.tried + 1 \in Nat
  BY DEF CheckpointTypes, Attempt
<1>2. ASSUME NEW sure \in BOOLEAN, Checkpoints!Fails(prior, previous, sure)
      PROVE  /\ call' \in Attempt /\ call'.at = "idle" /\ call'.kind = "prepared"
             /\ refused'.session = session /\ refused'.prior = prior
             /\ refused'.previous = previous
  <2>1. call' = Checkpoints!Idle
    BY <1>2 DEF Checkpoints!Fails
  <2>2. /\ refused'.session = session /\ refused'.prior = prior
        /\ refused'.previous = previous
    BY <1>2 DEF Checkpoints!Fails
  <2>3. Checkpoints!Idle \in Attempt /\ Checkpoints!Idle.at = "idle" /\ Checkpoints!Idle.kind = "prepared"
    BY DEF Checkpoints!Idle, Attempt, CallStep, Checkpoints!NoCheckpoint
  <2> QED  BY <2>1, <2>2, <2>3
<1>3. ASSUME call' = [Checkpoints!Idle EXCEPT !.at = "load", !.tried = call.tried + 1, !.ids = call.ids]
      PROVE  call' \in Attempt /\ call'.at = "load" /\ call'.kind = "prepared"
  <2>1. call' = [at |-> "load", kind |-> "prepared", id |-> Checkpoints!NoCheckpoint,
                 previous |-> Checkpoints!NoCheckpoint, prior |-> "unknown", tried |-> call.tried + 1,
                 ids |-> call.ids]
    BY <1>3 DEF Checkpoints!Idle
  <2> QED  BY <1>1, <2>1 DEF Attempt, CallStep, Checkpoints!NoCheckpoint
<1>4. \/ Checkpoints!Fails(prior, previous, unsure)
      \/ Checkpoints!Fails(prior, previous, FALSE)
      \/ /\ call' = [Checkpoints!Idle EXCEPT !.at = "load", !.tried = call.tried + 1, !.ids = call.ids]
         /\ UNCHANGED refused
  BY Zenon DEF Checkpoints!AttemptFails
<1> QED  BY <1>2, <1>3, <1>4

\* At rest, nothing is known that the record does not say.
LEMMA Rested ==
  ASSUME call'.at \in {"idle", "load"}, call'.kind = "prepared",
         call'.at = "idle" \/ refused' = Checkpoints!Nothing
  PROVE  Attempted' /\ Firm' = held'
BY DEF Attempted, Firm, Attempting, Writing, CallStep

LEMMA KeptAlike ==
  ASSUME Kept, Firm' = Firm, UNCHANGED stable, UNCHANGED payload, UNCHANGED place,
         UNCHANGED returned
  PROVE  Kept'
BY DEF Kept

LEMMA AskKeeps == ASSUME CheckpointInv, Checkpoints!Ask PROVE CheckpointInv'
<1>1. /\ call.at = "idle" /\ call' = [Checkpoints!Idle EXCEPT !.at = "load"] /\ refused' = Checkpoints!Nothing
      /\ held' = held /\ stable' = stable /\ payload' = payload /\ place' = place
      /\ session' = session /\ returned' = returned
  BY DEF Checkpoints!Ask
<1>2. call' = [at |-> "load", kind |-> "prepared", id |-> Checkpoints!NoCheckpoint,
               previous |-> Checkpoints!NoCheckpoint, prior |-> "unknown", tried |-> 0, ids |-> {}]
  BY <1>1 DEF Checkpoints!Idle
<1>3. call' \in Attempt /\ call'.at = "load" /\ call'.kind = "prepared"
  BY <1>2 DEF Attempt, CallStep, Checkpoints!NoCheckpoint
<1>4. CheckpointTypes'
  BY <1>1, <1>3 DEF CheckpointInv, CheckpointTypes, Checkpoints!Nothing
<1>5. Attempted' /\ Firm' = held' /\ Firm = held
  BY <1>1, <1>3, Rested DEF Firm, Writing
<1>6. Kept'
  BY <1>1, <1>5, KeptAlike DEF CheckpointInv
<1> QED  BY <1>3, <1>4, <1>5, <1>6 DEF CheckpointInv, Checkpoints!PriorIsTrue

LEMMA LoadFailsKeeps == ASSUME Checkpoints!CheckpointAssumption, CheckpointInv, Checkpoints!LoadFails PROVE CheckpointInv'
<1>1. /\ call.at = "load" /\ Checkpoints!AttemptFails("unknown", Checkpoints!NoCheckpoint)
      /\ held' = held /\ stable' = stable /\ payload' = payload /\ place' = place
      /\ session' = session /\ returned' = returned
  BY DEF Checkpoints!LoadFails
<1>2. /\ call' \in Attempt /\ call'.at \in {"idle", "load"} /\ call'.kind = "prepared"
      /\ \/ call'.at = "idle" /\ refused'.session = session /\ refused'.prior = "unknown"
         \/ call'.at = "load" /\ refused' = refused
  BY <1>1, EndsOrRetries DEF CheckpointInv
<1>3. CheckpointTypes'
  BY <1>1, <1>2 DEF CheckpointInv, CheckpointTypes
<1>4. refused = Checkpoints!Nothing
  BY <1>1 DEF CheckpointInv, Attempted
<1>5. Attempted' /\ Firm' = held' /\ Firm = held
  BY <1>1, <1>2, <1>4, Rested DEF Firm, Writing
<1>6. Kept'
  BY <1>1, <1>5, KeptAlike DEF CheckpointInv
<1> QED  BY <1>2, <1>3, <1>5, <1>6 DEF CheckpointInv, Checkpoints!PriorIsTrue

LEMMA LoadKeeps == ASSUME CheckpointInv, Checkpoints!Load PROVE CheckpointInv'
<1> DEFINE before == Checkpoints!CommittedCheckpoint(held, session)
           found == IF before = Checkpoints!NoCheckpoint THEN "absent" ELSE "known"
<1>1. /\ call.at = "load"
      /\ held' = held /\ stable' = stable /\ payload' = payload /\ place' = place
      /\ session' = session /\ returned' = returned /\ refused' = refused
  BY DEF Checkpoints!Load
<1>2. PICK c \in Checkpoints!Checkpoint :
        call' = [call EXCEPT !.at = "append", !.kind = "prepared", !.id = c,
                             !.previous = before, !.ids = @ \cup {c}, !.prior = found]
  BY DEF Checkpoints!Load
<1>3. before \in Checkpoints!Checkpoint \cup {Checkpoints!NoCheckpoint} /\ found \in {"unknown", "absent", "known"}
  BY CommittedIs DEF CheckpointInv, CheckpointTypes
<1> HIDE DEF before, found
<1>4. /\ call' \in Attempt /\ call'.at = "append" /\ call'.kind = "prepared"
      /\ call'.id = c /\ call'.previous = before
  BY <1>2, <1>3 DEF CheckpointInv, CheckpointTypes, Attempt, CallStep
<1>5. CheckpointTypes'
  BY <1>1, <1>4 DEF CheckpointInv, CheckpointTypes
<1>6. Firm' = held' /\ Firm = held
  BY <1>1, <1>4 DEF Firm, Writing
<1>7. before = Checkpoints!CommittedCheckpoint(Firm', session')
  BY <1>1, <1>6 DEF before
<1>8. Attempted'
  BY <1>1, <1>4, <1>7 DEF CheckpointInv, Attempted, Writing
<1>9. Kept'
  BY <1>1, <1>6, KeptAlike DEF CheckpointInv
<1> QED  BY <1>4, <1>5, <1>8, <1>9 DEF CheckpointInv, Checkpoints!PriorIsTrue

\* The line an append adds is an entry, and what it is added to is firm.
LEMMA LineIs ==
  ASSUME CheckpointInv, call.at \in Attempting
  PROVE  /\ Checkpoints!Append1 \in Checkpoints!Entry
         /\ Checkpoints!Append1.kind = call.kind /\ Checkpoints!Append1.id = call.id /\ Checkpoints!Append1.session = session
         /\ call.kind = "prepared" => Checkpoints!Append1 = PreparedLine
         /\ [Checkpoints!Append1 EXCEPT !.kind = "prepared"] = PreparedLine
         /\ Firm \in Seq(Checkpoints!Entry)
         /\ call.at \in Writing => held = Append(Firm, Checkpoints!Append1)
         /\ call.at \notin Writing => held = Firm
BY DEF CheckpointInv, CheckpointTypes, Attempted, Attempt, Checkpoints!Append1, Checkpoints!Entry, PreparedLine, Firm

LEMMA WriteEntryKeeps == ASSUME CheckpointInv, Checkpoints!WriteEntry PROVE CheckpointInv'
<1>1. /\ call.at = "append" /\ held' = Append(held, Checkpoints!Append1)
      /\ call' = [call EXCEPT !.at = "written"]
      /\ stable' = stable /\ payload' = payload /\ place' = place
      /\ session' = session /\ returned' = returned /\ refused' = refused
  BY DEF Checkpoints!WriteEntry
<1>2. /\ call' \in Attempt /\ call'.at = "written" /\ call'.kind = call.kind
      /\ call'.id = call.id /\ call'.previous = call.previous
  BY <1>1 DEF CheckpointInv, CheckpointTypes, Attempt, CallStep
<1>3. Checkpoints!Append1 \in Checkpoints!Entry /\ Checkpoints!Append1' = Checkpoints!Append1 /\ PreparedLine' = PreparedLine /\ Firm = held
      /\ held \in Seq(Checkpoints!Entry)
  BY <1>1, <1>2, LineIs DEF Attempting, CallStep, Writing, Checkpoints!Append1, PreparedLine
<1>4. /\ held' \in Seq(Checkpoints!Entry) /\ SubSeq(held', 1, Len(held') - 1) = held
  BY <1>1, <1>3, WithoutLast
<1>5. Firm' = held
  BY <1>2, <1>4 DEF Firm, Writing
<1>6. CheckpointTypes'
  BY <1>1, <1>2, <1>4 DEF CheckpointInv, CheckpointTypes
<1>7. Attempted'
  BY <1>1, <1>2, <1>3, <1>5 DEF CheckpointInv, Attempted, Attempting, Writing, CallStep
<1>8. Kept'
  BY <1>1, <1>3, <1>5, KeptAlike DEF CheckpointInv
<1> QED  BY <1>2, <1>6, <1>7, <1>8 DEF CheckpointInv, Checkpoints!PriorIsTrue

LEMMA SyncEntryKeeps == ASSUME CheckpointInv, Checkpoints!SyncEntry PROVE CheckpointInv'
<1>1. /\ call.at = "written" /\ held' = held /\ stable' = held
      /\ call' = [call EXCEPT !.at = "recorded"]
      /\ payload' = payload /\ place' = place
      /\ session' = session /\ returned' = returned /\ refused' = refused
  BY DEF Checkpoints!SyncEntry
<1>2. /\ call' \in Attempt /\ call'.at = "recorded" /\ call'.kind = call.kind
      /\ call'.id = call.id /\ call'.previous = call.previous
  BY <1>1 DEF CheckpointInv, CheckpointTypes, Attempt, CallStep
<1>3. /\ Checkpoints!Append1 \in Checkpoints!Entry /\ Checkpoints!Append1' = Checkpoints!Append1 /\ PreparedLine' = PreparedLine
      /\ Firm \in Seq(Checkpoints!Entry) /\ held = Append(Firm, Checkpoints!Append1)
  BY <1>1, <1>2, LineIs DEF Attempting, CallStep, Writing, Checkpoints!Append1, PreparedLine
<1>5. Firm' = Firm
  BY <1>1, <1>2 DEF Firm, Writing
<1>6. CheckpointTypes'
  BY <1>1, <1>2 DEF CheckpointInv, CheckpointTypes
<1>7. Attempted'
  BY <1>1, <1>2, <1>3, <1>5 DEF CheckpointInv, Attempted, Attempting, Writing, CallStep
<1>8. \A c \in returned : StandsIn(held, c)
  BY <1>3, StandsAppend DEF CheckpointInv, Kept
<1>9. Kept'
  BY <1>1, <1>5, <1>8 DEF CheckpointInv, Kept
<1> QED  BY <1>2, <1>6, <1>7, <1>9 DEF CheckpointInv, Checkpoints!PriorIsTrue

\* The directory is synced; PREPARED may be followed by its payload, COMMITTED
\* is returned.
LEMMA SyncRecordKeeps == ASSUME CheckpointInv, Checkpoints!SyncRecord PROVE CheckpointInv'
<1>1. /\ call.at = "recorded" /\ place' = (IF place = "made" THEN "kept" ELSE place)
      /\ held' = held /\ stable' = stable /\ payload' = payload
      /\ session' = session /\ refused' = refused
      /\ refused = Checkpoints!Nothing /\ stable = held
  BY DEF Checkpoints!SyncRecord, CheckpointInv, Attempted
<1>2. /\ Checkpoints!Append1 \in Checkpoints!Entry /\ Checkpoints!Append1.kind = call.kind /\ Checkpoints!Append1.id = call.id
      /\ Checkpoints!Append1.session = session /\ Firm \in Seq(Checkpoints!Entry) /\ held = Append(Firm, Checkpoints!Append1)
      /\ [Checkpoints!Append1 EXCEPT !.kind = "prepared"] = PreparedLine
      /\ call.kind = "prepared" => Checkpoints!Append1 = PreparedLine
      /\ call.id \in Checkpoints!Checkpoint /\ call.previous = Checkpoints!CommittedCheckpoint(Firm, session)
  BY <1>1, LineIs DEF Attempting, CallStep, Writing, CheckpointInv, Attempted
<1>3. /\ held \in Seq(Checkpoints!Entry) /\ Len(held) = Len(Firm) + 1 /\ held[Len(held)] = Checkpoints!Append1
      /\ \A i \in 1..Len(Firm) : held[i] = Firm[i]
  BY <1>2, AppendProperties
<1>4. \A c \in returned : StandsIn(held, c)
  BY <1>2, StandsAppend DEF CheckpointInv, Kept
<1>5. place' \in {"none", "made", "kept"} /\ (place = "kept" => place' = "kept")
      /\ (place # "none" => place' = "kept")
  BY <1>1 DEF CheckpointInv, CheckpointTypes
<1>6. CASE call.kind = "prepared"
  <2>1. call' = [call EXCEPT !.at = "payload"] /\ returned' = returned
    BY <1>6 DEF Checkpoints!SyncRecord
  <2>2. /\ call' \in Attempt /\ call'.at = "payload" /\ call'.kind = "prepared"
        /\ call'.id = call.id /\ call'.previous = call.previous
    BY <2>1, <1>6 DEF CheckpointInv, CheckpointTypes, Attempt, CallStep
  <2>3. Firm' = held /\ PreparedLine' = PreparedLine
    BY <1>1, <2>2 DEF Firm, Writing, PreparedLine
  <2>4. Checkpoints!CommittedCheckpoint(held, session) = Checkpoints!CommittedCheckpoint(Firm, session)
    BY <1>2, <1>6, CommittedAppend
  <2>5. Len(held) \in 1..Len(held) /\ held[Len(held)] = PreparedLine
    BY <1>2, <1>3, <1>6
  <2>6. CheckpointTypes'
    BY <1>1, <1>5, <2>1, <2>2 DEF CheckpointInv, CheckpointTypes
  <2>7. Attempted'
    BY <1>1, <1>2, <2>2, <2>3, <2>4, <2>5 DEF Attempted, Writing
  <2>8. Kept'
    BY <1>1, <1>4, <1>5, <2>1, <2>3 DEF CheckpointInv, Kept
  <2> QED  BY <2>2, <2>6, <2>7, <2>8 DEF CheckpointInv, Checkpoints!PriorIsTrue
<1>7. CASE call.kind = "committed"
  <2>1. call' = Checkpoints!Idle /\ returned' = returned \cup {call.id}
    BY <1>7 DEF Checkpoints!SyncRecord
  <2>2. /\ call' \in Attempt /\ call'.at = "idle" /\ call'.kind = "prepared"
    BY <2>1 DEF Checkpoints!Idle, Attempt, CallStep, Checkpoints!NoCheckpoint
  <2>3. Attempted' /\ Firm' = held
    BY <2>2, <1>1, Rested
  <2>4. CheckpointTypes'
    BY <1>1, <1>2, <1>5, <2>1, <2>2 DEF CheckpointInv, CheckpointTypes
  <2>5. payload[call.id] = "kept" /\ place # "none"
    BY <1>2, <1>7 DEF CheckpointInv, Attempted, Kept
  <2>6. StandsIn(held, call.id)
    <3>1. PICK j \in 1..Len(Firm) : Firm[j] = PreparedLine
      BY <1>7 DEF CheckpointInv, Attempted
    <3>2. j \in 1..(Len(held) - 1) /\ held[j] = [held[Len(held)] EXCEPT !.kind = "prepared"]
      BY <3>1, <1>2, <1>3
    <3>3. Checkpoints!PreparedBefore(held, Len(held))
      BY <3>2 DEF Checkpoints!PreparedBefore
    <3>4. Len(held) \in Checkpoints!Proven(held, session)
      BY <3>3, <1>2, <1>3, <1>7 DEF Checkpoints!Proven
    <3> QED  BY <3>4, <1>2, <1>3 DEF StandsIn, CheckpointInv, CheckpointTypes
  <2>7. Kept'
    BY <1>1, <1>4, <1>5, <2>1, <2>3, <2>5, <2>6 DEF CheckpointInv, Kept
  <2>8. refused'.session = 0 /\ session' # 0
    BY <1>1 DEF Checkpoints!Nothing, CheckpointInv, CheckpointTypes
  <2> QED  BY <2>3, <2>4, <2>7, <2>8 DEF CheckpointInv, Checkpoints!PriorIsTrue
<1> QED  BY <1>6, <1>7 DEF CheckpointInv, CheckpointTypes, Attempt

\* What is refused leaves the record firm, or leaves it to doubt; never less.
LEMMA AppendFailsKeeps ==
  ASSUME Checkpoints!CheckpointAssumption, CheckpointInv, Checkpoints!AppendFails
  PROVE  CheckpointInv'
<1>1. /\ call.at \in {"append", "written", "recorded"}
      /\ payload' = payload /\ place' = place /\ session' = session /\ returned' = returned
  BY DEF Checkpoints!AppendFails
<1>2. /\ Checkpoints!Append1 \in Checkpoints!Entry /\ Firm \in Seq(Checkpoints!Entry) /\ held \in Seq(Checkpoints!Entry) /\ stable \in Seq(Checkpoints!Entry)
      /\ held = Append(Firm, Checkpoints!Append1) \/ held = Firm
      /\ call.previous = Checkpoints!CommittedCheckpoint(Firm, session)
  BY <1>1, LineIs DEF Attempting, CallStep, Writing, CheckpointInv, CheckpointTypes, Attempted
<1>3. Checkpoints!Before = Firm
  BY <1>1 DEF Checkpoints!Before, Firm, Writing
<1>4. PICK unsure \in BOOLEAN :
        /\ Checkpoints!Fails(call.prior, call.previous, unsure)
        /\ unsure = FALSE => held' = Firm
        /\ held' \in {Firm, held} /\ stable' \in {stable, Firm, held'}
  <2>1. CASE held' = Checkpoints!Before /\ Checkpoints!Fails(call.prior, call.previous, FALSE)
    <3>1. stable' \in {stable, Checkpoints!Before, held'}
      BY <2>1 DEF Checkpoints!AppendFails
    <3> QED  BY <2>1, <3>1, <1>3
  <2>2. CASE /\ held' \in {Checkpoints!Before, held} /\ stable' \in {stable, Checkpoints!Before, held'}
             /\ Checkpoints!Fails(call.prior, call.previous, TRUE)
    BY <2>2, <1>3
  <2> QED  BY <2>1, <2>2 DEF Checkpoints!AppendFails
<1>5. /\ call.prior \in {"unknown", "absent", "known"}
      /\ call.previous \in Checkpoints!Checkpoint \cup {Checkpoints!NoCheckpoint}
  BY DEF CheckpointInv, CheckpointTypes, Attempt
<1>6. call' = Checkpoints!Idle /\ refused' = [session |-> session, prior |-> call.prior,
        previous |-> call.previous, ids |-> call.ids, indeterminate |-> unsure]
  BY <1>4 DEF Checkpoints!Fails
<1>7. /\ call' \in Attempt /\ call'.at = "idle" /\ call'.kind = "prepared"
      /\ refused'.session = session /\ refused'.previous = call.previous
      /\ refused'.indeterminate = unsure
  BY <1>6 DEF Checkpoints!Idle, Attempt, CallStep, Checkpoints!NoCheckpoint
<1>8. CheckpointTypes'
  BY <1>1, <1>2, <1>4, <1>7 DEF CheckpointInv, CheckpointTypes
<1>9. Attempted' /\ Firm' = held'
  BY <1>7, Rested
<1>10. \A c \in returned : StandsIn(held', c) /\ StandsIn(stable', c)
  <2> SUFFICES ASSUME NEW c \in returned PROVE StandsIn(held', c) /\ StandsIn(stable', c)
    OBVIOUS
  <2>1. StandsIn(Firm, c) /\ StandsIn(stable, c)
    BY DEF CheckpointInv, Kept
  <2>2. StandsIn(held, c)
    BY <2>1, <1>2, StandsAppend
  <2> QED  BY <2>1, <2>2, <1>4
<1>11. Kept'
  BY <1>1, <1>9, <1>10 DEF CheckpointInv, Kept
<1>12. Checkpoints!PriorIsTrue'
  <2>1. ~ unsure => call.previous = Checkpoints!CommittedCheckpoint(held', session')
    BY <1>1, <1>2, <1>4
  <2> QED  BY <2>1, <1>7 DEF Checkpoints!PriorIsTrue
<1> QED  BY <1>8, <1>9, <1>11, <1>12 DEF CheckpointInv

LEMMA WriteTempKeeps == ASSUME CheckpointInv, Checkpoints!WriteTemp PROVE CheckpointInv'
<1>1. /\ call.at = "payload" /\ payload[call.id] = "none"
      /\ place' = (IF place = "none" THEN "made" ELSE place)
      /\ payload' = [payload EXCEPT ![call.id] = "temp"]
      /\ held' = held /\ stable' = stable /\ call' = call
      /\ session' = session /\ returned' = returned /\ refused' = refused
  BY DEF Checkpoints!WriteTemp
<1>2. Firm' = Firm /\ PreparedLine' = PreparedLine /\ call.kind = "prepared"
  BY <1>1 DEF Firm, PreparedLine, CheckpointInv, CheckpointTypes, Attempted, Attempt, Writing
<1>3. CheckpointTypes'
  BY <1>1 DEF CheckpointInv, CheckpointTypes, Checkpoints!Progress
<1>4. Attempted'
  BY <1>1, <1>2 DEF CheckpointInv, Attempted, Writing
<1>5. Kept'
  BY <1>1, <1>2 DEF CheckpointInv, CheckpointTypes, Kept
<1> QED  BY <1>1, <1>3, <1>4, <1>5 DEF CheckpointInv, Checkpoints!PriorIsTrue

LEMMA PersistKeeps == ASSUME CheckpointInv, Checkpoints!Persist PROVE CheckpointInv'
<1>1. /\ call.at = "payload" /\ payload[call.id] \in DOMAIN Checkpoints!Step
      /\ payload' = [payload EXCEPT ![call.id] = Checkpoints!Step[@]]
      /\ call' = [call EXCEPT !.at = IF payload'[call.id] = "kept" THEN "read" ELSE @]
      /\ held' = held /\ stable' = stable /\ place' = place
      /\ session' = session /\ returned' = returned /\ refused' = refused
  BY DEF Checkpoints!Persist
<1>2. payload[call.id] \in {"temp", "synced", "named"}
  BY <1>1 DEF Checkpoints!Step
<1>3. Checkpoints!Step[payload[call.id]] \in {"synced", "named", "kept"}
  BY <1>2 DEF Checkpoints!Step
<1>4. call.id \in Checkpoints!Checkpoint /\ call.kind = "prepared" /\ payload \in [Checkpoints!Checkpoint -> Checkpoints!Progress]
  BY <1>1 DEF CheckpointInv, CheckpointTypes, Attempted, Attempt, Attempting, CallStep, Writing
<1>5. /\ payload' \in [Checkpoints!Checkpoint -> Checkpoints!Progress]
      /\ payload'[call.id] \in {"synced", "named", "kept"}
      /\ \A c \in Checkpoints!Checkpoint \ {call.id} : payload'[c] = payload[c]
  BY <1>1, <1>3, <1>4 DEF Checkpoints!Progress
<1>6. /\ call' \in Attempt /\ call'.at \in {"payload", "read"} /\ call'.kind = "prepared"
      /\ call'.id = call.id /\ call'.previous = call.previous
      /\ call'.at = "read" => payload'[call.id] = "kept"
  BY <1>1, <1>4 DEF CheckpointInv, CheckpointTypes, Attempt, CallStep
<1>7. Firm' = Firm /\ PreparedLine' = PreparedLine
  BY <1>1, <1>6 DEF Firm, PreparedLine, Writing
<1>8. CheckpointTypes'
  BY <1>1, <1>5, <1>6 DEF CheckpointInv, CheckpointTypes
<1>9. Attempted'
  BY <1>1, <1>4, <1>6, <1>7 DEF CheckpointInv, Attempted, Writing, Attempting, CallStep
<1>10. Kept'
  BY <1>1, <1>2, <1>4, <1>5, <1>7 DEF CheckpointInv, CheckpointTypes, Kept
<1> QED  BY <1>6, <1>8, <1>9, <1>10 DEF CheckpointInv, Checkpoints!PriorIsTrue

LEMMA PayloadFailsKeeps ==
  ASSUME Checkpoints!CheckpointAssumption, CheckpointInv, Checkpoints!PayloadFails
  PROVE  CheckpointInv'
<1>1. /\ call.at \in {"payload", "read"}
      /\ payload' = [payload EXCEPT ![call.id] = IF @ \in {"temp", "synced"} THEN "none" ELSE @]
      /\ place' \in {place, IF place = "none" THEN "made" ELSE place}
      /\ Checkpoints!AttemptFails(call.prior, call.previous)
      /\ held' = held /\ stable' = stable /\ session' = session /\ returned' = returned
  BY DEF Checkpoints!PayloadFails
<1>2. /\ call.id \in Checkpoints!Checkpoint /\ payload \in [Checkpoints!Checkpoint -> Checkpoints!Progress] /\ Firm = held
      /\ call.prior \in {"unknown", "absent", "known"}
      /\ call.previous \in Checkpoints!Checkpoint \cup {Checkpoints!NoCheckpoint}
      /\ call.previous = Checkpoints!CommittedCheckpoint(Firm, session) /\ refused = Checkpoints!Nothing
  BY <1>1 DEF CheckpointInv, CheckpointTypes, Attempted, Attempt, Attempting, CallStep, Writing,
              Firm
<1>3. /\ call' \in Attempt /\ call'.at \in {"idle", "load"} /\ call'.kind = "prepared"
      /\ \/ call'.at = "idle" /\ refused'.session = session /\ refused'.prior = call.prior
            /\ refused'.previous = call.previous
         \/ call'.at = "load" /\ refused' = refused
  BY <1>1, <1>2, EndsOrRetries DEF CheckpointInv
<1>4. /\ payload' \in [Checkpoints!Checkpoint -> Checkpoints!Progress]
      /\ \A c \in Checkpoints!Checkpoint : payload'[c] \in {payload[c], "none"}
      /\ \A c \in Checkpoints!Checkpoint : payload[c] = "kept" => payload'[c] = "kept"
  BY <1>1, <1>2 DEF Checkpoints!Progress
<1>5. place' \in {"none", "made", "kept"} /\ (place # "none" => place' = place)
  BY <1>1 DEF CheckpointInv, CheckpointTypes
<1>6. CheckpointTypes'
  BY <1>1, <1>3, <1>4, <1>5 DEF CheckpointInv, CheckpointTypes
<1>7. Attempted' /\ Firm' = held'
  BY <1>2, <1>3, Rested
<1>8. Kept'
  BY <1>1, <1>2, <1>4, <1>5, <1>7 DEF CheckpointInv, CheckpointTypes, Kept
<1>9. Checkpoints!PriorIsTrue'
  BY <1>1, <1>2, <1>3 DEF Checkpoints!PriorIsTrue
<1> QED  BY <1>6, <1>7, <1>8, <1>9 DEF CheckpointInv

LEMMA ReadBackKeeps == ASSUME CheckpointInv, Checkpoints!ReadBack PROVE CheckpointInv'
<1>1. /\ call.at = "read" /\ call' = [call EXCEPT !.at = "append", !.kind = "committed"]
      /\ held' = held /\ stable' = stable /\ payload' = payload /\ place' = place
      /\ session' = session /\ returned' = returned /\ refused' = refused
  BY DEF Checkpoints!ReadBack
<1>2. /\ call' \in Attempt /\ call'.at = "append" /\ call'.kind = "committed"
      /\ call'.id = call.id /\ call'.previous = call.previous
  BY <1>1 DEF CheckpointInv, CheckpointTypes, Attempt, CallStep
<1>3. Firm' = Firm /\ PreparedLine' = PreparedLine
  BY <1>1, <1>2 DEF Firm, PreparedLine, Writing
<1>4. CheckpointTypes'
  BY <1>1, <1>2 DEF CheckpointInv, CheckpointTypes
<1>5. Attempted'
  BY <1>1, <1>2, <1>3 DEF CheckpointInv, Attempted, Writing, Attempting, CallStep
<1>6. Kept'
  BY <1>1, <1>3, KeptAlike DEF CheckpointInv
<1> QED  BY <1>2, <1>4, <1>5, <1>6 DEF CheckpointInv, Checkpoints!PriorIsTrue

\* A death: what was returned had been synced with the directories it is in.
LEMMA DeathKeeps ==
  ASSUME Checkpoints!CheckpointAssumption, CheckpointInv, Checkpoints!Crash \/ Checkpoints!PowerLoss
  PROVE  CheckpointInv'
<1>1. /\ session < MaxSession /\ session' = session + 1 /\ call' = Checkpoints!Idle
      /\ returned' = returned /\ refused' = refused
  BY DEF Checkpoints!Crash, Checkpoints!PowerLoss, Checkpoints!Restart
<1>2. call' \in Attempt /\ call'.at = "idle" /\ call'.kind = "prepared"
  BY <1>1 DEF Checkpoints!Idle, Attempt, CallStep, Checkpoints!NoCheckpoint
<1>3. /\ held' \in {held, stable} /\ stable' \in {held', stable}
      /\ payload' \in [Checkpoints!Checkpoint -> Checkpoints!Progress] /\ place' \in {"none", "made", "kept"}
      /\ \A c \in Checkpoints!Checkpoint : payload'[c] # "none" => place' # "none"
      /\ \A c \in returned : payload'[c] = "kept" /\ place' = "kept"
  <2>1. CASE Checkpoints!Crash
    BY <2>1 DEF Checkpoints!Crash, CheckpointInv, CheckpointTypes, Kept
  <2>2. CASE Checkpoints!PowerLoss
    <3>1. held' \in {held, stable} /\ stable' = held'
      BY <2>2 DEF Checkpoints!PowerLoss
    <3>2. PICK lost \in SUBSET {c \in Checkpoints!Checkpoint : payload[c] \in {"temp", "synced", "named"}},
               gone \in BOOLEAN :
            /\ gone => place = "made"
            /\ place' = IF gone THEN "none" ELSE place
            /\ payload' = [c \in Checkpoints!Checkpoint |-> IF gone \/ c \in lost THEN "none" ELSE payload[c]]
      BY <2>2 DEF Checkpoints!PowerLoss
    <3>3. \A c \in returned : c \in Checkpoints!Checkpoint /\ payload[c] = "kept" /\ place = "kept" /\ c \notin lost
      BY DEF CheckpointInv, CheckpointTypes, Kept
    <3> QED  BY <3>1, <3>2, <3>3 DEF CheckpointInv, CheckpointTypes, Kept, Checkpoints!Progress
  <2> QED  BY <2>1, <2>2
<1>4. CheckpointTypes'
  BY <1>1, <1>2, <1>3 DEF CheckpointInv, CheckpointTypes, Checkpoints!CheckpointAssumption
<1>5. Attempted' /\ Firm' = held'
  BY <1>2, Rested
<1>6. held \in Seq(Checkpoints!Entry) /\ Firm \in Seq(Checkpoints!Entry) /\ (held = Firm \/ \E e \in Checkpoints!Entry : held = Append(Firm, e))
  BY LineIs DEF CheckpointInv, CheckpointTypes, Firm, Writing, Attempting, CallStep
<1>7. \A c \in returned : StandsIn(held, c) /\ StandsIn(stable, c)
  BY <1>6, StandsAppend DEF CheckpointInv, Kept
<1>8. Kept'
  BY <1>1, <1>3, <1>5, <1>7 DEF Kept
<1>9. Checkpoints!PriorIsTrue'
  BY <1>1 DEF Checkpoints!PriorIsTrue, CheckpointInv, CheckpointTypes
<1> QED  BY <1>4, <1>5, <1>8, <1>9 DEF CheckpointInv

LEMMA CheckpointStutters == ASSUME CheckpointInv, UNCHANGED Checkpoints!vars PROVE CheckpointInv'
<1>1. /\ held' = held /\ stable' = stable /\ payload' = payload /\ place' = place /\ call' = call
      /\ session' = session /\ returned' = returned /\ refused' = refused
  BY DEF Checkpoints!vars
<1> QED  BY <1>1 DEF CheckpointInv, CheckpointTypes, Attempted, Kept, Checkpoints!PriorIsTrue, Firm,
                     PreparedLine, Checkpoints!Append1

LEMMA CheckpointInvKept ==
  ASSUME Checkpoints!CheckpointAssumption, CheckpointInv, [Checkpoints!Next]_Checkpoints!vars
  PROVE  CheckpointInv'
<1>1. CASE Checkpoints!Next
  BY <1>1, AskKeeps, LoadKeeps, LoadFailsKeeps, WriteEntryKeeps, SyncEntryKeeps, SyncRecordKeeps,
     AppendFailsKeeps, WriteTempKeeps, PersistKeeps, PayloadFailsKeeps, ReadBackKeeps, DeathKeeps
     DEF Checkpoints!Next
<1>2. CASE UNCHANGED Checkpoints!vars
  BY <1>2, CheckpointStutters
<1> QED  BY <1>1, <1>2

\* What was returned is committed and readable for good; a failure that was undone
\* names the checkpoint that stands.
THEOREM CheckpointsHold ==
  ASSUME Checkpoints!CheckpointAssumption
  PROVE  Checkpoints!Spec => [](Checkpoints!ReturnedStands /\ Checkpoints!PriorIsTrue)
<1>1. ASSUME CheckpointInv PROVE Checkpoints!ReturnedStands /\ Checkpoints!PriorIsTrue
  <2>1. held = Firm \/ (Firm \in Seq(Checkpoints!Entry) /\ \E e \in Checkpoints!Entry : held = Append(Firm, e))
    BY <1>1, LineIs DEF Firm, Writing, Attempting, CallStep
  <2>2. Firm \in Seq(Checkpoints!Entry)
    BY <1>1, LineIs DEF CheckpointInv, CheckpointTypes, Firm, Writing, Attempting, CallStep
  <2>3. \A c \in returned : StandsIn(held, c) /\ StandsIn(stable, c)
    BY <1>1, <2>1, <2>2, StandsAppend DEF CheckpointInv, Kept
  <2>4. \A c \in returned : Checkpoints!Readable(c)
    BY <1>1 DEF CheckpointInv, Kept, Checkpoints!Readable
  <2> QED  BY <1>1, <2>3, <2>4 DEF Checkpoints!ReturnedStands, StandsIn, CheckpointInv
<1> QED  BY <1>1, CheckpointInvInit, CheckpointInvKept, PTL DEF Checkpoints!Spec

-----------------------------------------------------------------------------
(* The lineage: the code's pass over a record, and the positions of it.    *)

\* What the pass makes of the record at position i.
PassStep(h, t, l, i) ==
  IF l.refused # 0 \/ h[i].task # t THEN l ELSE Lineages!Step(l, h[i], i)

\* g folds the first n positions of h.
IsPass(g, h, t, n) ==
  g = [s \in SUBSET (1..n) |->
         IF s = {} THEN Lineages!NoLineage
         ELSE LET x == Lineages!Max(s) IN PassStep(h, t, g[s \ {x}], x)]

\* The greatest of a set of positions that has the last one is the last one.
LEMMA MaxIsLast ==
  ASSUME NEW n \in Nat, NEW S \in SUBSET (1..n), n \in S
  PROVE  Lineages!Max(S) = n
<1>1. \A y \in S : n >= y
  OBVIOUS
<1>2. Lineages!Max(S) \in S /\ \A y \in S : Lineages!Max(S) >= y
  BY <1>1 DEF Lineages!Max
<1>3. Lineages!Max(S) \in 1..n /\ Lineages!Max(S) >= n
  BY <1>2
<1> QED  BY <1>3

LEMMA MaxOf ==
  ASSUME NEW n \in Nat, NEW S \in SUBSET (1..n), S # {}
  PROVE  /\ Lineages!Max(S) \in S
         /\ \A y \in S : y <= Lineages!Max(S)
<1> DEFINE M == Lineages!Max(S)
<1>1. M \in S
  BY MaxIn DEF Checkpoints!Max, Lineages!Max
<1>2. \E x \in S : \A y \in S : x >= y
  BY MaxHas
<1>3. \A y \in S : M >= y
  BY <1>2 DEF Lineages!Max
<1>4. \A y \in S : y \in Int
  OBVIOUS
<1> HIDE DEF M
<1>5. \A y \in S : y <= M
  BY <1>1, <1>3, <1>4
<1> QED  BY <1>1, <1>5 DEF M

\* A fold of n positions is one of n + 1, once the last is read.
LEMMA PassGoesOn ==
  ASSUME NEW h, NEW t, NEW n \in Nat, NEW f, IsPass(f, h, t, n)
  PROVE  \E g : IsPass(g, h, t, n + 1)
<1> DEFINE m == n + 1
           g == [s \in SUBSET (1..m) |->
                   IF m \in s THEN PassStep(h, t, f[s \ {m}], m) ELSE f[s]]
<1>1. ASSUME NEW s \in SUBSET (1..m), s # {}
      PROVE  g[s] = LET x == Lineages!Max(s) IN PassStep(h, t, g[s \ {x}], x)
  <2>1. CASE m \in s
    <3>1. Lineages!Max(s) = m
      BY <2>1, MaxIsLast
    <3>2. s \ {m} \in SUBSET (1..m) /\ m \notin s \ {m}
      OBVIOUS
    <3>3. g[s \ {m}] = f[s \ {m}]
      BY <3>2
    <3>4. g[s] = PassStep(h, t, f[s \ {m}], m)
      BY <2>1
    <3> QED  BY <3>1, <3>3, <3>4
  <2>2. CASE m \notin s
    <3>1. s \in SUBSET (1..n)
      BY <2>2
    <3>2. Lineages!Max(s) \in s
      BY <1>1, MaxOf, m \in Nat
    <3> DEFINE x == Lineages!Max(s)
    <3>3. s \ {x} \in SUBSET (1..m) /\ m \notin s \ {x}
      BY <2>2
    <3>4. g[s \ {x}] = f[s \ {x}] /\ g[s] = f[s]
      BY <3>3, <2>2
    <3>5. f[s] = PassStep(h, t, f[s \ {x}], x)
      BY <1>1, <3>1 DEF IsPass
    <3> QED  BY <3>4, <3>5
  <2> QED  BY <2>1, <2>2
<1>2. g[{}] = Lineages!NoLineage
  BY DEF IsPass
<1>3. IsPass(g, h, t, m)
  <2> DEFINE k == [s \in SUBSET (1..m) |->
                     IF s = {} THEN Lineages!NoLineage
                     ELSE LET x == Lineages!Max(s) IN PassStep(h, t, g[s \ {x}], x)]
  <2>1. \A s \in SUBSET (1..m) : g[s] = k[s]
    BY <1>1, <1>2
  <2>2. g = k
    BY <2>1
  <2> QED  BY <2>2 DEF IsPass
<1> QED  BY <1>3

LEMMA PassExists ==
  ASSUME NEW h, NEW t
  PROVE  \A n \in Nat : \E g : IsPass(g, h, t, n)
<1> DEFINE T == {y \in Nat : ~ \E g : IsPass(g, h, t, y)}
<1>1. SUFFICES ASSUME T # {} PROVE FALSE
  OBVIOUS
<1>2. PICK n \in T : \A y \in T : ~ (<<y, n>> \in OpToRel(<, Nat))
  BY <1>1, NatLessThanWellFounded, WFMin
<1>3. n # 0
  <2> DEFINE g == [s \in SUBSET (1..0) |-> Lineages!NoLineage]
  <2>1. \A s \in SUBSET (1..0) : s = {}
    OBVIOUS
  <2>2. IsPass(g, h, t, 0)
    BY <2>1 DEF IsPass
  <2> QED  BY <2>2
<1>4. n \in Nat /\ n - 1 \in Nat
  <2>1. T \subseteq Nat
    OBVIOUS
  <2> HIDE DEF T
  <2>2. n \in T
    BY <1>2, Zenon
  <2> QED  BY <2>1, <2>2, <1>3
<1>41. n - 1 \in T => ~ (n - 1 < n)
  <2> HIDE DEF T
  <2> QED  BY <1>2, <1>4 DEF OpToRel
<1>42. n - 1 \notin T
  BY <1>4, <1>41
<1>5. PICK f : IsPass(f, h, t, n - 1)
  BY <1>4, <1>42
<1>6. \E g : IsPass(g, h, t, (n - 1) + 1)
  BY <1>4, <1>5, PassGoesOn
<1>7. n \in T => ~ \E g : IsPass(g, h, t, n)
  OBVIOUS
<1>8. (n - 1) + 1 = n
  BY <1>4
<1> HIDE DEF T
<1>9. n \in T
  BY <1>2, Zenon
<1> QED  BY <1>6, <1>7, <1>8, <1>9

LEMMA PassAt ==
  ASSUME NEW h, NEW t, NEW n \in Nat, NEW f, IsPass(f, h, t, n),
         NEW s \in SUBSET (1..n), s # {}, NEW x, x = Lineages!Max(s)
  PROVE  f[s] = PassStep(h, t, f[s \ {x}], x)
<1> DEFINE F(u) == IF u = {} THEN Lineages!NoLineage
                   ELSE LET y == Lineages!Max(u) IN PassStep(h, t, f[u \ {y}], y)
<1>1. f = [u \in SUBSET (1..n) |-> F(u)]
  BY Zenon DEF IsPass
<1>2. F(s) = PassStep(h, t, f[s \ {x}], x)
  OBVIOUS
<1> HIDE DEF F
<1>3. f[s] = F(s)
  BY <1>1
<1> QED  BY <1>2, <1>3

\* What is read of the first m positions, of records that have them alike.
LEMMA PassesAgree ==
  ASSUME NEW h, NEW k, NEW t, NEW n \in Nat, NEW p \in Nat, n <= p,
         \A i \in 1..n : h[i] = k[i],
         NEW f, IsPass(f, h, t, n), NEW g, IsPass(g, k, t, p)
  PROVE  \A m \in 0..n : f[1..m] = g[1..m]
<1> DEFINE T == {y \in 0..n : f[1..y] # g[1..y]}
<1>1. SUFFICES ASSUME T # {} PROVE FALSE
  OBVIOUS
<1>2. PICK m \in T : \A y \in T : ~ (<<y, m>> \in OpToRel(<, Nat))
  <2>1. T \subseteq Nat
    OBVIOUS
  <2> QED  BY <2>1, <1>1, NatLessThanWellFounded, WFMin
<1>3. m # 0
  BY DEF IsPass
<1>4. m \in 1..n /\ m - 1 \in 0..n
  <2>1. T \subseteq 0..n
    OBVIOUS
  <2> HIDE DEF T
  <2>2. m \in T
    BY <1>2, Zenon
  <2> QED  BY <2>1, <2>2, <1>3
<1>41. m - 1 \in T => ~ (m - 1 < m)
  <2>1. m - 1 \in Nat /\ m \in Nat
    BY <1>4
  <2> HIDE DEF T
  <2> QED  BY <1>2, <2>1 DEF OpToRel
<1>42. m - 1 \notin T
  BY <1>4, <1>41
<1>5. /\ (1..m) \ {m} = 1..(m - 1) /\ 1..m # {} /\ m \in 1..m
      /\ 1..m \in SUBSET (1..n) /\ 1..m \in SUBSET (1..p)
  BY <1>4
<1>6. Lineages!Max(1..m) = m
  BY <1>4, <1>5, MaxIsLast
<1>7. f[1..m] = PassStep(h, t, f[1..(m - 1)], m)
  <2> DEFINE u == 1..m
             v == 1..(m - 1)
  <2>1. u \in SUBSET (1..n) /\ u # {} /\ u \ {m} = v /\ m = Lineages!Max(u)
    BY <1>5, <1>6
  <2> HIDE DEF u, v
  <2>2. f[u] = PassStep(h, t, f[u \ {m}], m)
    BY <2>1, PassAt
  <2>3. f[u] = PassStep(h, t, f[v], m)
    BY <2>1, <2>2
  <2> QED  BY <2>3 DEF u, v
<1>8. g[1..m] = PassStep(k, t, g[1..(m - 1)], m)
  <2> DEFINE u == 1..m
             v == 1..(m - 1)
  <2>1. u \in SUBSET (1..p) /\ u # {} /\ u \ {m} = v /\ m = Lineages!Max(u)
    BY <1>5, <1>6
  <2> HIDE DEF u, v
  <2>2. g[u] = PassStep(k, t, g[u \ {m}], m)
    <3>1. \A s \in SUBSET (1..p) :
            s # {} => \A x : x = Lineages!Max(s) => g[s] = PassStep(k, t, g[s \ {x}], x)
      BY PassAt
    <3> QED  BY <2>1, <3>1
  <2>3. g[u] = PassStep(k, t, g[v], m)
    BY <2>1, <2>2
  <2> QED  BY <2>3 DEF u, v
<1>9. h[m] = k[m] /\ f[1..(m - 1)] = g[1..(m - 1)]
  BY <1>4, <1>42
<1>10. f[1..m] = g[1..m]
  BY <1>7, <1>8, <1>9 DEF PassStep
<1> QED  BY <1>10

\* Reconstruct is such a fold.
LEMMA ReconstructIs ==
  ASSUME NEW h \in Seq(Lineages!Event), NEW t
  PROVE  \E g : IsPass(g, h, t, Len(h)) /\ Lineages!Reconstruct(h, t) = g[1..Len(h)]
<1> DEFINE n == Len(h)
           d == [j \in DOMAIN h |-> j]
           At(f, s) == IF s = {} THEN Lineages!NoLineage
                       ELSE LET x == Lineages!Max(s)
                            IN IF f[s \ {x}].refused # 0 \/ h[d[x]].task # t
                               THEN f[s \ {x}]
                               ELSE Lineages!Step(f[s \ {x}], h[d[x]], d[x])
           g == CHOOSE f : f = [s \in SUBSET DOMAIN d |-> At(f, s)]
<1>1. DOMAIN h = 1..n /\ n \in Nat /\ DOMAIN d = 1..n
  OBVIOUS
<1>2. Lineages!Reconstruct(h, t) = g[DOMAIN d]
  BY DEF Lineages!Reconstruct, Lineages!FoldLeftDomain, Lineages!FoldLeft, Lineages!MapThenFoldSet
<1>3. ASSUME NEW f, NEW s \in SUBSET (1..n)
      PROVE  At(f, s) = IF s = {} THEN Lineages!NoLineage
                        ELSE LET x == Lineages!Max(s) IN PassStep(h, t, f[s \ {x}], x)
  <2>1. s # {} => Lineages!Max(s) \in 1..n
    BY <1>1, MaxOf
  <2>2. s # {} => d[Lineages!Max(s)] = Lineages!Max(s)
    BY <2>1, <1>1
  <2> HIDE DEF d, n
  <2> QED  BY <2>2 DEF PassStep
<1>4. \A f : IsPass(f, h, t, n) <=> f = [s \in SUBSET DOMAIN d |-> At(f, s)]
  <2> HIDE DEF At
  <2>1. ASSUME NEW f
        PROVE  IsPass(f, h, t, n) <=> f = [s \in SUBSET (1..n) |-> At(f, s)]
    <3> DEFINE B(s) == IF s = {} THEN Lineages!NoLineage
                       ELSE LET x == Lineages!Max(s) IN PassStep(h, t, f[s \ {x}], x)
    <3>1. \A s \in SUBSET (1..n) : At(f, s) = B(s)
      BY <1>3
    <3>2. IsPass(f, h, t, n) <=> f = [s \in SUBSET (1..n) |-> B(s)]
      BY Zenon DEF IsPass
    <3> HIDE DEF B
    <3>3. [s \in SUBSET (1..n) |-> At(f, s)] = [s \in SUBSET (1..n) |-> B(s)]
      BY <3>1
    <3> QED  BY <3>2, <3>3
  <2> QED  BY <2>1, <1>1
<1> HIDE DEF At, n, d
<1>5. \E f : f = [s \in SUBSET DOMAIN d |-> At(f, s)]
  BY <1>1, <1>4, PassExists
<1>6. g = [s \in SUBSET DOMAIN d |-> At(g, s)]
  BY <1>5, Zenon
<1> HIDE DEF g
<1>7. IsPass(g, h, t, n)
  BY <1>6, <1>4
<1> QED  BY <1>7, <1>2, <1>1 DEF n

LEMMA AppendIs ==
  ASSUME NEW h \in Seq(Lineages!Event), NEW e \in Lineages!Event
  PROVE  /\ Append(h, e) \in Seq(Lineages!Event)
         /\ Len(h) \in Nat /\ DOMAIN h = 1..Len(h)
         /\ Len(Append(h, e)) = Len(h) + 1
         /\ DOMAIN Append(h, e) = 1..(Len(h) + 1)
         /\ Append(h, e)[Len(h) + 1] = e
         /\ \A i \in 1..Len(h) : Append(h, e)[i] = h[i]
  BY AppendProperties

LEMMA ReconstructEmpty == ASSUME NEW t PROVE Lineages!Reconstruct(<<>>, t) = Lineages!NoLineage
<1> DEFINE none == <<>>
<1>1. none \in Seq(Lineages!Event) /\ Len(none) = 0 /\ 1..0 = {}
  BY SMT
<1> HIDE DEF none
<1>2. PICK g : IsPass(g, none, t, Len(none)) /\ Lineages!Reconstruct(none, t) = g[1..Len(none)]
  BY <1>1, ReconstructIs
<1>3. IsPass(g, none, t, 0) /\ Lineages!Reconstruct(none, t) = g[{}]
  BY <1>1, <1>2
<1>4. {} \in SUBSET (1..0)
  OBVIOUS
<1>5. g[{}] = Lineages!NoLineage
  <2> DEFINE F(s) == IF s = {} THEN Lineages!NoLineage
                     ELSE LET x == Lineages!Max(s) IN PassStep(none, t, g[s \ {x}], x)
  <2>1. g = [s \in SUBSET (1..0) |-> F(s)]
    BY <1>3, Zenon DEF IsPass
  <2>2. F({}) = Lineages!NoLineage
    OBVIOUS
  <2> HIDE DEF F
  <2> QED  BY <2>1, <2>2, <1>4
<1> QED  BY <1>3, <1>5 DEF none

\* The pass over a longer record is the pass over the shorter one, and one step.
LEMMA ReconstructAppend ==
  ASSUME NEW h \in Seq(Lineages!Event), NEW e \in Lineages!Event, NEW t,
         NEW l, l = Lineages!Reconstruct(h, t)
  PROVE  Lineages!Reconstruct(Append(h, e), t)
           = IF l.refused # 0 \/ e.task # t THEN l ELSE Lineages!Step(l, e, Len(h) + 1)
<1> DEFINE n == Len(h)
           k == Append(h, e)
<1>1. /\ k \in Seq(Lineages!Event) /\ n \in Nat /\ Len(k) = n + 1 /\ k[n + 1] = e
      /\ \A i \in 1..n : h[i] = k[i]
  BY AppendIs
<1> HIDE DEF n, k
<1>2. PICK f : IsPass(f, h, t, n) /\ l = f[1..n]
  BY ReconstructIs DEF n
<1>3. PICK g : IsPass(g, k, t, n + 1) /\ Lineages!Reconstruct(k, t) = g[1..(n + 1)]
  BY <1>1, ReconstructIs
<1>4. f[1..n] = g[1..n]
  <2>1. n + 1 \in Nat /\ n <= n + 1 /\ n \in 0..n
    BY <1>1
  <2> QED  BY <2>1, <1>1, <1>2, <1>3, PassesAgree
<1>5. g[1..(n + 1)] = PassStep(k, t, g[1..n], n + 1)
  <2> DEFINE u == 1..(n + 1)
             v == 1..n
             m == n + 1
  <2>1. /\ m \in Nat /\ m \in u /\ u \in SUBSET (1..m) /\ u # {}
        /\ u \ {m} = v
    <3>1. m \in Nat /\ 1 <= m
      BY <1>1
    <3>2. \A i \in Int : i \in u /\ i # m <=> i \in v
      BY <1>1
    <3>3. u \subseteq Int /\ v \subseteq Int
      BY <1>1
    <3>4. m \in u
      BY <3>1
    <3> HIDE DEF v
    <3>5. u \ {m} = v
      BY <3>2, <3>3
    <3> QED  BY <3>1, <3>4, <3>5
  <2>2. IsPass(g, k, t, m)
    BY <1>3
  <2> HIDE DEF u, v, m
  <2>3. Lineages!Max(u) = m
    BY <2>1, MaxIsLast
  <2>4. g[u] = PassStep(k, t, g[u \ {m}], m)
    BY <2>1, <2>2, <2>3, PassAt
  <2>5. g[u] = PassStep(k, t, g[v], m)
    BY <2>1, <2>4
  <2> QED  BY <2>5 DEF u, v, m
<1> QED  BY <1>1, <1>2, <1>3, <1>4, <1>5 DEF PassStep, n, k

\* A set of positions has a last one, and only one.
LEMMA LatestHas ==
  ASSUME NEW n \in Nat, NEW S \in SUBSET (1..n), S # {}
  PROVE  Lineages!Latest(S) \in S /\ \A j \in S : j <= Lineages!Latest(S)
<1>1. PICK x \in S : \A y \in S : x >= y
  BY MaxHas
<1>2. x \in Int /\ \A y \in S : y \in Int
  OBVIOUS
<1>3. \A y \in S : y <= x
  BY <1>1, <1>2
<1> QED  BY <1>3 DEF Lineages!Latest

LEMMA LatestIs ==
  ASSUME NEW n \in Nat, NEW S \in SUBSET (1..n), NEW m \in S, \A j \in S : j <= m
  PROVE  Lineages!Latest(S) = m
<1>1. Lineages!Latest(S) \in S /\ \A j \in S : j <= Lineages!Latest(S)
  BY LatestHas
<1>2. Lineages!Latest(S) <= m /\ m <= Lineages!Latest(S)
  BY <1>1
<1>3. \A y \in S : y \in Int
  OBVIOUS
<1>4. m \in Int /\ Lineages!Latest(S) \in Int
  BY <1>1, <1>3
<1> QED  BY <1>2, <1>4

LEMMA TurnsAre ==
  ASSUME NEW h \in Seq(Lineages!Event), NEW t
  PROVE  /\ Lineages!Roots(h, t) \subseteq 1..Len(h)
         /\ Lineages!Bounds(h, t) \subseteq 1..Len(h)
         /\ Lineages!Turns(h, t) \subseteq 1..Len(h)
BY DEF Lineages!Roots, Lineages!Bounds, Lineages!Turns

\* What an event more makes of the turns and of the tips.
LEMMA TurnsAppend ==
  ASSUME NEW h \in Seq(Lineages!Event), NEW e \in Lineages!Event, NEW t
  PROVE  /\ \A i : i \in Lineages!Roots(Append(h, e), t)
                     <=> i \in Lineages!Roots(h, t) \/ (i = Len(h) + 1 /\ e.task = t /\ e.kind = "root")
         /\ \A i : i \in Lineages!Bounds(Append(h, e), t)
                     <=> i \in Lineages!Bounds(h, t) \/ (i = Len(h) + 1 /\ e.task = t /\ e.kind = "bound")
         /\ \A i : i \in Lineages!Turns(Append(h, e), t)
                     <=> \/ i \in Lineages!Turns(h, t)
                         \/ i = Len(h) + 1 /\ e.task = t /\ e.kind \in {"root", "bound"}
<1> DEFINE k == Append(h, e)
           n == Len(h)
<1>1. /\ n \in Nat /\ DOMAIN h = 1..n /\ DOMAIN k = 1..(n + 1) /\ k[n + 1] = e
      /\ \A i \in 1..n : k[i] = h[i]
  BY AppendIs
<1>2. \A i : i \in 1..(n + 1) <=> i \in 1..n \/ i = n + 1
  BY <1>1
<1>3. n + 1 \notin 1..n
  BY <1>1
<1> HIDE DEF k, n
<1>4. \A i : i \in Lineages!Roots(k, t)
               <=> i \in Lineages!Roots(h, t) \/ (i = n + 1 /\ e.task = t /\ e.kind = "root")
  BY <1>1, <1>2, <1>3 DEF Lineages!Roots
<1>5. \A i : i \in Lineages!Bounds(k, t)
               <=> i \in Lineages!Bounds(h, t) \/ (i = n + 1 /\ e.task = t /\ e.kind = "bound")
  BY <1>1, <1>2, <1>3 DEF Lineages!Bounds
<1> QED  BY <1>4, <1>5 DEF Lineages!Turns, k, n

LEMMA TipsAppend ==
  ASSUME NEW h \in Seq(Lineages!Event), NEW e \in Lineages!Event, NEW t
  PROVE  /\ \A m \in 0..Len(h) : Lineages!TipAt(Append(h, e), t, m) = Lineages!TipAt(h, t, m)
         /\ Lineages!TipAt(Append(h, e), t, Len(h) + 1)
              = IF e.task = t /\ e.kind \in {"root", "bound"} THEN e.sess
                ELSE Lineages!TipAt(h, t, Len(h))
<1> DEFINE k == Append(h, e)
           n == Len(h)
           new == e.task = t /\ e.kind \in {"root", "bound"}
           Old(m) == {i \in Lineages!Turns(h, t) : i <= m}
           Now(m) == {i \in Lineages!Turns(k, t) : i <= m}
<1>1. /\ n \in Nat /\ k[n + 1] = e /\ k \in Seq(Lineages!Event) /\ Len(k) = n + 1
      /\ \A i \in 1..n : k[i] = h[i]
  BY AppendIs
<1>2. \A i : i \in Lineages!Turns(k, t) <=> i \in Lineages!Turns(h, t) \/ (i = n + 1 /\ new)
  BY TurnsAppend
<1>3. Lineages!Turns(h, t) \subseteq 1..n /\ Lineages!Turns(k, t) \subseteq 1..(n + 1)
  BY <1>1, TurnsAre
<1> HIDE DEF k, n, new
<1>4. ASSUME NEW m \in 0..n PROVE Now(m) = Old(m) /\ Old(m) \in SUBSET (1..n)
  BY <1>1, <1>2, <1>3
<1>5. ASSUME NEW m \in 0..n PROVE Lineages!TipAt(k, t, m) = Lineages!TipAt(h, t, m)
  <2>1. Lineages!TipAt(k, t, m) = IF Now(m) = {} THEN NoSession ELSE k[Lineages!Latest(Now(m))].sess
    BY DEF Lineages!TipAt
  <2>2. Lineages!TipAt(h, t, m) = IF Old(m) = {} THEN NoSession ELSE h[Lineages!Latest(Old(m))].sess
    BY DEF Lineages!TipAt
  <2> HIDE DEF Now, Old
  <2>3. Old(m) # {} => Lineages!Latest(Old(m)) \in 1..n
    BY <1>1, <1>4, LatestHas
  <2> QED  BY <2>1, <2>2, <2>3, <1>1, <1>4
<1>6. CASE new
  <2>1. Now(n + 1) \in SUBSET (1..(n + 1)) /\ n + 1 \in Now(n + 1) /\ n + 1 \in Nat
    BY <1>1, <1>2, <1>3, <1>6
  <2>2. Lineages!TipAt(k, t, n + 1)
          = IF Now(n + 1) = {} THEN NoSession ELSE k[Lineages!Latest(Now(n + 1))].sess
    BY DEF Lineages!TipAt
  <2> HIDE DEF Now
  <2>3. \A j \in Now(n + 1) : j <= n + 1
    BY <2>1
  <2>4. Lineages!Latest(Now(n + 1)) = n + 1
    BY <2>1, <2>3, LatestIs
  <2> QED  BY <2>1, <2>2, <2>4, <1>1, <1>5, <1>6 DEF k, n, new
<1>7. CASE ~new
  <2>1. Now(n + 1) = Now(n)
    BY <1>1, <1>2, <1>3, <1>7
  <2>2. Lineages!TipAt(k, t, n + 1)
          = IF Now(n + 1) = {} THEN NoSession ELSE k[Lineages!Latest(Now(n + 1))].sess
    BY DEF Lineages!TipAt
  <2>3. Lineages!TipAt(k, t, n) = IF Now(n) = {} THEN NoSession ELSE k[Lineages!Latest(Now(n))].sess
    BY DEF Lineages!TipAt
  <2> HIDE DEF Now
  <2>4. n \in 0..n
    BY <1>1
  <2> QED  BY <2>1, <2>2, <2>3, <2>4, <1>5, <1>7 DEF k, n, new
<1> QED  BY <1>6, <1>7

\* An established lineage has one root, and it is the first turn.
LEMMA EstablishedRoot ==
  ASSUME NEW h, NEW t, Lineages!Established(h, t)
  PROVE  \E r \in Lineages!Roots(h, t) :
            /\ Lineages!Roots(h, t) = {r}
            /\ Lineages!HolderOf(h, t) = h[r].sess
            /\ h[r].ok
            /\ \A i \in Lineages!Turns(h, t) : i # r => i > r
            /\ \A i \in DOMAIN h : h[i].task = t /\ i > r => h[i].ok /\ h[i].kind # "root"
<1>1. PICK r \in Lineages!Roots(h, t) :
            /\ h[r].ok
            /\ \A i \in Lineages!Turns(h, t) : i # r => i > r
            /\ \A i \in DOMAIN h : h[i].task = t /\ i > r => h[i].ok /\ h[i].kind # "root"
  BY DEF Lineages!Established
<1>2. Lineages!Roots(h, t) = {r}
  BY <1>1 DEF Lineages!Roots, Lineages!Turns
<1>3. Lineages!HolderOf(h, t) = h[r].sess
  BY <1>2 DEF Lineages!HolderOf
<1> QED  BY <1>1, <1>2, <1>3

\* A task with no turn is established by a sound root and by nothing else.
LEMMA EstablishedFirst ==
  ASSUME NEW h \in Seq(Lineages!Event), NEW e \in Lineages!Event, NEW t, Lineages!Turns(h, t) = {}
  PROVE  Lineages!Established(Append(h, e), t) <=> e.task = t /\ e.kind = "root" /\ e.ok
<1> DEFINE k == Append(h, e)
           n == Len(h)
<1>1. /\ n \in Nat /\ DOMAIN k = 1..(n + 1) /\ k[n + 1] = e
      /\ \A i : i \in Lineages!Roots(k, t) <=> i = n + 1 /\ e.task = t /\ e.kind = "root"
      /\ \A i : i \in Lineages!Bounds(k, t) <=> i = n + 1 /\ e.task = t /\ e.kind = "bound"
      /\ \A i : i \in Lineages!Turns(k, t) <=> i = n + 1 /\ e.task = t /\ e.kind \in {"root", "bound"}
  BY AppendIs, TurnsAppend DEF Lineages!Turns
<1> HIDE DEF k, n
<1>2. ASSUME Lineages!Established(k, t) PROVE e.task = t /\ e.kind = "root" /\ e.ok
  BY <1>1, <1>2, EstablishedRoot
<1>3. ASSUME e.task = t, e.kind = "root", e.ok PROVE Lineages!Established(k, t)
  <2>1. n + 1 \in Lineages!Roots(k, t) /\ Lineages!Bounds(k, t) = {}
    BY <1>1, <1>3
  <2>2. \A i \in Lineages!Turns(k, t) : i = n + 1
    BY <1>1
  <2>3. \A i \in DOMAIN k : ~ (i > n + 1)
    BY <1>1
  <2> QED  BY <2>1, <2>2, <2>3, <1>1, <1>3 DEF Lineages!Established
<1> QED  BY <1>2, <1>3 DEF k

\* A task that has a turn and is not established never will be.
LEMMA EstablishedBefore ==
  ASSUME NEW h \in Seq(Lineages!Event), NEW e \in Lineages!Event, NEW t, Lineages!Turns(h, t) # {},
         Lineages!Established(Append(h, e), t)
  PROVE  Lineages!Established(h, t)
<1> DEFINE k == Append(h, e)
           n == Len(h)
<1>1. /\ n \in Nat /\ DOMAIN k = 1..(n + 1) /\ DOMAIN h = 1..n
      /\ \A i \in 1..n : k[i] = h[i] /\ i \in 1..(n + 1)
      /\ \A m \in 0..n : Lineages!TipAt(k, t, m) = Lineages!TipAt(h, t, m)
  BY AppendIs, TipsAppend
<1>2. /\ Lineages!Roots(h, t) \subseteq 1..n /\ Lineages!Bounds(h, t) \subseteq 1..n
      /\ Lineages!Turns(h, t) \subseteq 1..n
  BY TurnsAre
<1>3. /\ \A i \in Lineages!Roots(h, t) : i \in Lineages!Roots(k, t)
      /\ \A i \in Lineages!Bounds(h, t) : i \in Lineages!Bounds(k, t)
      /\ \A i \in Lineages!Turns(h, t) : i \in Lineages!Turns(k, t)
      /\ \A i \in Lineages!Roots(k, t) : i = n + 1 \/ i \in Lineages!Roots(h, t)
  BY TurnsAppend
<1> HIDE DEF k, n
<1>4. PICK r \in Lineages!Roots(k, t) :
            /\ Lineages!Roots(k, t) = {r}
            /\ Lineages!HolderOf(k, t) = k[r].sess
            /\ k[r].ok
            /\ \A i \in Lineages!Turns(k, t) : i # r => i > r
            /\ \A i \in DOMAIN k : k[i].task = t /\ i > r => k[i].ok /\ k[i].kind # "root"
  BY EstablishedRoot DEF k
<1>5. r \in Lineages!Roots(h, t)
  <2>1. PICK i \in Lineages!Turns(h, t) : TRUE
    OBVIOUS
  <2>2. i \in 1..n /\ i \in Lineages!Turns(k, t)
    BY <2>1, <1>2, <1>3
  <2>3. r # n + 1
    BY <2>2, <1>1, <1>4
  <2> QED  BY <2>3, <1>3
<1>6. r \in 1..n /\ Lineages!Roots(h, t) = {r}
  BY <1>2, <1>3, <1>4, <1>5
<1>7. Lineages!HolderOf(h, t) = Lineages!HolderOf(k, t)
  BY <1>1, <1>4, <1>6 DEF Lineages!HolderOf
<1>8. /\ h[r].ok
      /\ \A i \in Lineages!Turns(h, t) : i # r => i > r
      /\ \A i \in DOMAIN h : h[i].task = t /\ i > r => h[i].ok /\ h[i].kind # "root"
  BY <1>1, <1>3, <1>4, <1>6
<1>9. ASSUME NEW i \in Lineages!Bounds(h, t)
      PROVE  /\ h[i].holder = Lineages!HolderOf(h, t)
             /\ h[i].parent = Lineages!TipAt(h, t, i - 1)
             /\ \A j \in Lineages!Turns(h, t) : j # i => h[j].sess # h[i].sess
  <2>1. /\ k[i].holder = Lineages!HolderOf(k, t)
        /\ k[i].parent = Lineages!TipAt(k, t, i - 1)
        /\ \A j \in Lineages!Turns(k, t) : j # i => k[j].sess # k[i].sess
    BY <1>3 DEF Lineages!Established, k
  <2>2. i \in 1..n /\ i - 1 \in 0..n
    BY <1>1, <1>2
  <2> QED  BY <2>1, <2>2, <1>1, <1>2, <1>3, <1>7
<1> QED  BY <1>5, <1>8, <1>9 DEF Lineages!Established

\* What an established lineage stays established with.
Continues(h, t, e) ==
  e.task = t =>
    /\ e.ok
    /\ e.kind # "root"
    /\ e.kind = "bound" => /\ e.holder = Lineages!HolderOf(h, t)
                           /\ e.parent = Lineages!TipOf(h, t)
                           /\ \A i \in Lineages!Turns(h, t) : h[i].sess # e.sess

LEMMA EstablishedAppend ==
  ASSUME NEW h \in Seq(Lineages!Event), NEW e \in Lineages!Event, NEW t, Lineages!Established(h, t)
  PROVE  /\ Lineages!Established(Append(h, e), t) <=> Continues(h, t, e)
         /\ Continues(h, t, e) => Lineages!HolderOf(Append(h, e), t) = Lineages!HolderOf(h, t)
<1> DEFINE k == Append(h, e)
           n == Len(h)
<1>1. /\ n \in Nat /\ DOMAIN k = 1..(n + 1) /\ DOMAIN h = 1..n /\ k[n + 1] = e
      /\ \A i \in 1..n : k[i] = h[i] /\ i \in 1..(n + 1)
      /\ \A m \in 0..n : Lineages!TipAt(k, t, m) = Lineages!TipAt(h, t, m)
      /\ Lineages!TipOf(h, t) = Lineages!TipAt(h, t, n)
  BY AppendIs, TipsAppend DEF Lineages!TipOf
<1>2. /\ Lineages!Roots(h, t) \subseteq 1..n /\ Lineages!Bounds(h, t) \subseteq 1..n
      /\ Lineages!Turns(h, t) \subseteq 1..n
  BY TurnsAre
<1>3. /\ \A i : i \in Lineages!Roots(k, t)
                  <=> i \in Lineages!Roots(h, t) \/ (i = n + 1 /\ e.task = t /\ e.kind = "root")
      /\ \A i : i \in Lineages!Bounds(k, t)
                  <=> i \in Lineages!Bounds(h, t) \/ (i = n + 1 /\ e.task = t /\ e.kind = "bound")
      /\ \A i : i \in Lineages!Turns(k, t)
                  <=> \/ i \in Lineages!Turns(h, t)
                      \/ i = n + 1 /\ e.task = t /\ e.kind \in {"root", "bound"}
  BY TurnsAppend
<1> HIDE DEF k, n
<1>4. PICK r \in Lineages!Roots(h, t) :
            /\ Lineages!Roots(h, t) = {r}
            /\ Lineages!HolderOf(h, t) = h[r].sess
            /\ h[r].ok
            /\ \A i \in Lineages!Turns(h, t) : i # r => i > r
            /\ \A i \in DOMAIN h : h[i].task = t /\ i > r => h[i].ok /\ h[i].kind # "root"
  BY EstablishedRoot
<1>5. r \in 1..n /\ n + 1 > r /\ n + 1 \notin 1..n /\ n \in 0..n /\ (n + 1) - 1 = n
  BY <1>1, <1>2, <1>4
<1>6. ASSUME ~ (e.task = t /\ e.kind = "root")
      PROVE  Lineages!Roots(k, t) = {r} /\ Lineages!HolderOf(k, t) = Lineages!HolderOf(h, t)
  <2>1. Lineages!Roots(k, t) = {r}
    BY <1>3, <1>4, <1>6
  <2>2. Lineages!HolderOf(k, t) = k[r].sess
    BY <2>1 DEF Lineages!HolderOf
  <2> QED  BY <2>1, <2>2, <1>1, <1>4, <1>5
<1>7. ASSUME Lineages!Established(k, t), e.task = t
      PROVE  /\ e.ok
             /\ e.kind # "root"
             /\ e.kind = "bound" => /\ e.holder = Lineages!HolderOf(h, t)
                                    /\ e.parent = Lineages!TipOf(h, t)
                                    /\ \A i \in Lineages!Turns(h, t) : h[i].sess # e.sess
  <2>1. PICK q \in Lineages!Roots(k, t) :
            /\ Lineages!Roots(k, t) = {q}
            /\ \A i \in DOMAIN k : k[i].task = t /\ i > q => k[i].ok /\ k[i].kind # "root"
    BY <1>7, EstablishedRoot
  <2>2. q = r
    BY <2>1, <1>3, <1>4
  <2>3. e.ok /\ e.kind # "root"
    BY <2>1, <2>2, <1>1, <1>5, <1>7
  <2>4. ASSUME e.kind = "bound"
        PROVE  /\ e.holder = Lineages!HolderOf(h, t)
               /\ e.parent = Lineages!TipOf(h, t)
               /\ \A i \in Lineages!Turns(h, t) : h[i].sess # e.sess
    <3>1. n + 1 \in Lineages!Bounds(k, t)
      BY <2>4, <1>3, <1>7
    <3>2. /\ k[n + 1].holder = Lineages!HolderOf(k, t)
          /\ k[n + 1].parent = Lineages!TipAt(k, t, (n + 1) - 1)
          /\ \A j \in Lineages!Turns(k, t) : j # n + 1 => k[j].sess # k[n + 1].sess
      BY <3>1, <1>7 DEF Lineages!Established
    <3>3. \A i \in Lineages!Turns(h, t) : i \in Lineages!Turns(k, t) /\ i # n + 1 /\ k[i] = h[i]
      BY <1>1, <1>2, <1>3, <1>5
    <3> QED  BY <3>2, <3>3, <2>4, <1>1, <1>5, <1>6
  <2> QED  BY <2>3, <2>4
<1>8. ASSUME Continues(h, t, e) PROVE Lineages!Established(k, t)
  <2>1. ~ (e.task = t /\ e.kind = "root")
    BY <1>8 DEF Continues
  <2>2. Lineages!Roots(k, t) = {r} /\ Lineages!HolderOf(k, t) = Lineages!HolderOf(h, t)
    BY <2>1, <1>6
  <2>3. k[r].ok /\ \A i \in Lineages!Turns(k, t) : i # r => i > r
    BY <1>1, <1>3, <1>4, <1>5
  <2>4. ASSUME NEW i \in DOMAIN k, k[i].task = t, i > r PROVE k[i].ok /\ k[i].kind # "root"
    <3>1. CASE i = n + 1
      BY <3>1, <2>4, <1>1, <1>8 DEF Continues
    <3>2. CASE i # n + 1
      <4>1. i \in 1..n
        BY <3>2, <1>1
      <4> QED  BY <4>1, <2>4, <1>1, <1>4
    <3> QED  BY <3>1, <3>2
  <2>5. ASSUME NEW i \in Lineages!Bounds(k, t)
        PROVE  /\ k[i].holder = Lineages!HolderOf(k, t)
               /\ k[i].parent = Lineages!TipAt(k, t, i - 1)
               /\ \A j \in Lineages!Turns(k, t) : j # i => k[j].sess # k[i].sess
    <3>1. CASE i \in Lineages!Bounds(h, t)
      <4>1. /\ h[i].holder = Lineages!HolderOf(h, t)
            /\ h[i].parent = Lineages!TipAt(h, t, i - 1)
            /\ \A j \in Lineages!Turns(h, t) : j # i => h[j].sess # h[i].sess
        BY <3>1 DEF Lineages!Established
      <4>2. i \in 1..n /\ i - 1 \in 0..n /\ i \in Lineages!Turns(h, t)
        BY <3>1, <1>1, <1>2 DEF Lineages!Turns
      <4>3. ASSUME NEW j \in Lineages!Turns(k, t), j # i PROVE k[j].sess # k[i].sess
        <5>1. CASE j \in Lineages!Turns(h, t)
          BY <5>1, <4>1, <4>2, <4>3, <1>1, <1>2
        <5>2. CASE j = n + 1 /\ e.task = t /\ e.kind \in {"root", "bound"}
          BY <5>2, <4>2, <1>1, <1>8 DEF Continues
        <5> QED  BY <5>1, <5>2, <1>3
      <4> QED  BY <4>1, <4>2, <4>3, <2>2, <1>1
    <3>2. CASE i = n + 1 /\ e.task = t /\ e.kind = "bound"
      <4>1. \A j \in Lineages!Turns(k, t) : j # i => j \in Lineages!Turns(h, t)
        BY <3>2, <1>3
      <4>2. \A j \in Lineages!Turns(h, t) : k[j] = h[j] /\ h[j].sess # e.sess
        BY <3>2, <1>1, <1>2, <1>8 DEF Continues
      <4>3. e.holder = Lineages!HolderOf(h, t) /\ e.parent = Lineages!TipOf(h, t)
        BY <3>2, <1>8 DEF Continues
      <4> QED  BY <4>1, <4>2, <4>3, <3>2, <2>2, <1>1, <1>5
    <3> QED  BY <3>1, <3>2, <1>3
  <2> QED  BY <2>2, <2>3, <2>4, <2>5 DEF Lineages!Established
<1>9. Continues(h, t, e) => Lineages!HolderOf(k, t) = Lineages!HolderOf(h, t)
  BY <1>6 DEF Continues
<1> QED  BY <1>7, <1>8, <1>9 DEF Continues, k

Segments == [sess : Session, from : Nat]

\* What the pass has made of a record: its marks are positions, and its segments
\* follow each other.
PassTypes(h, l) ==
  /\ l = [root |-> l.root, holder |-> l.holder, segs |-> l.segs, refused |-> l.refused]
  /\ l.root \in 0..Len(h) /\ l.refused \in 0..Len(h)
  /\ l.segs \in Seq(Segments)
  /\ \A a \in 1..Len(l.segs) : l.segs[a].from \in 1..Len(h)
  /\ \A a, b \in 1..Len(l.segs) : a < b => l.segs[a].from < l.segs[b].from
  /\ l.root = 0 <=> Len(l.segs) = 0

\* The segments are the turns.
Marked(h, t, l) ==
  /\ \A a \in 1..Len(l.segs) : /\ l.segs[a].from \in Lineages!Turns(h, t)
                               /\ h[l.segs[a].from].sess = l.segs[a].sess
  /\ \A i \in Lineages!Turns(h, t) : \E a \in 1..Len(l.segs) : l.segs[a].from = i

\* It refuses what has a turn and is not established, and of nothing else knows
\* less than the positions say.
Passed(h, t, l) ==
  /\ l.refused # 0 => Lineages!Turns(h, t) # {} /\ ~ Lineages!Established(h, t)
  /\ l.refused = 0 /\ l.root = 0 => Lineages!Turns(h, t) = {}
  /\ l.refused = 0 /\ l.root # 0 => /\ Lineages!Established(h, t)
                                    /\ l.holder = Lineages!HolderOf(h, t)
                                    /\ Marked(h, t, l)

\* The segment that owns a position is its last turn.
LEMMA OwnerIsTip ==
  ASSUME NEW h \in Seq(Lineages!Event), NEW t, NEW l, PassTypes(h, l), Marked(h, t, l),
         NEW i \in 0..Len(h)
  PROVE  Lineages!OwnerAt(l, i) = Lineages!TipAt(h, t, i)
<1> DEFINE n == Len(h)
           m == Len(l.segs)
           owns == {k \in DOMAIN l.segs : l.segs[k].from <= i}
           S == {j \in Lineages!Turns(h, t) : j <= i}
           a == Lineages!Latest(owns)
<1>1. /\ n \in Nat /\ m \in Nat /\ DOMAIN l.segs = 1..m /\ i \in Nat
      /\ Lineages!Turns(h, t) \subseteq 1..n
  BY TurnsAre DEF PassTypes
<1>2. Lineages!OwnerAt(l, i) = IF owns = {} THEN NoSession ELSE l.segs[a].sess
  BY DEF Lineages!OwnerAt, Lineages!Latest
<1>3. Lineages!TipAt(h, t, i) = IF S = {} THEN NoSession ELSE h[Lineages!Latest(S)].sess
  BY DEF Lineages!TipAt
<1>4. owns \in SUBSET (1..m) /\ S \in SUBSET (1..n)
  BY <1>1
<1>5. owns = {} <=> S = {}
  BY <1>1 DEF Marked
<1>6. ASSUME owns # {} PROVE l.segs[a].sess = h[Lineages!Latest(S)].sess
  <2>0. \A b : b \in owns <=> b \in 1..m /\ l.segs[b].from <= i
    BY <1>1
  <2>01. \A j : j \in S <=> j \in Lineages!Turns(h, t) /\ j <= i
    OBVIOUS
  <2> HIDE DEF owns, S
  <2>1. a \in owns /\ \A k \in owns : k <= a
    BY <1>1, <1>4, <1>6, LatestHas
  <2>2. a \in 1..m /\ l.segs[a].from \in S /\ h[l.segs[a].from].sess = l.segs[a].sess
    BY <2>1, <1>4, <2>0, <2>01 DEF Marked
  <2>3. ASSUME NEW j \in S PROVE j <= l.segs[a].from
    <3>1. PICK b \in 1..m : l.segs[b].from = j
      BY <2>01 DEF Marked
    <3>2. b <= a
      BY <3>1, <2>0, <2>01, <2>1
    <3>3. b = a \/ b < a
      BY <3>2, <1>1, <2>2
    <3>4. j \in 1..n
      BY <1>4
    <3> HIDE DEF a, m
    <3>5. b < a => l.segs[b].from < l.segs[a].from
      BY <2>2, <3>1 DEF PassTypes, m
    <3>6. l.segs[a].from \in 1..n
      BY <2>2, <1>4
    <3> QED  BY <3>1, <3>3, <3>4, <3>5, <3>6
  <2> HIDE DEF a
  <2>4. Lineages!Latest(S) = l.segs[a].from
    BY <1>1, <1>4, <2>2, <2>3, LatestIs
  <2> QED  BY <2>2, <2>4
<1> HIDE DEF owns, S, a
<1> QED  BY <1>2, <1>3, <1>5, <1>6

\* The owner of the last position, and of every one after it, is the tip.
LEMMA OwnerIsLast ==
  ASSUME NEW h \in Seq(Lineages!Event), NEW l, PassTypes(h, l), NEW i \in Nat, Len(h) <= i
  PROVE  Lineages!OwnerAt(l, i) = Lineages!Tip(l)
<1> DEFINE n == Len(h)
           m == Len(l.segs)
           owns == {k \in DOMAIN l.segs : l.segs[k].from <= i}
<1>1. /\ n \in Nat /\ m \in Nat /\ DOMAIN l.segs = 1..m
      /\ l.segs = <<>> <=> m = 0
  BY DEF PassTypes
<1>2. Lineages!OwnerAt(l, i) = IF owns = {} THEN NoSession ELSE l.segs[Lineages!Latest(owns)].sess
  BY DEF Lineages!OwnerAt, Lineages!Latest
<1>3. owns = 1..m
  <2>1. \A b \in 1..m : l.segs[b].from \in 1..n
    BY DEF PassTypes
  <2>2. \A b \in 1..m : l.segs[b].from <= i
    BY <2>1, <1>1
  <2> QED  BY <2>2, <1>1
<1> HIDE DEF owns
<1>4. CASE m = 0
  BY <1>1, <1>2, <1>3, <1>4 DEF Lineages!Tip
<1>5. CASE m # 0
  <2>1. m \in 1..m /\ 1..m \in SUBSET (1..m) /\ \A j \in 1..m : j <= m
    BY <1>1, <1>5
  <2>2. Lineages!Latest(owns) = m /\ owns # {}
    BY <2>1, <1>1, <1>3, LatestIs
  <2> QED  BY <2>2, <1>1, <1>2, <1>5 DEF Lineages!Tip
<1> QED  BY <1>4, <1>5

LEMMA IncludesTurns ==
  ASSUME NEW h \in Seq(Lineages!Event), NEW t, NEW l, PassTypes(h, l), Marked(h, t, l), NEW s
  PROVE  Lineages!Includes(l, s) <=> \E i \in Lineages!Turns(h, t) : h[i].sess = s
<1>1. DOMAIN l.segs = 1..Len(l.segs)
  BY DEF PassTypes
<1> QED  BY <1>1 DEF Lineages!Includes, Marked

LEMMA TipIsTip ==
  ASSUME NEW h \in Seq(Lineages!Event), NEW t, NEW l, PassTypes(h, l), Marked(h, t, l)
  PROVE  Lineages!Tip(l) = Lineages!TipOf(h, t)
<1>1. Len(h) \in Nat /\ Len(h) <= Len(h) /\ Len(h) \in 0..Len(h)
  OBVIOUS
<1> QED  BY <1>1, OwnerIsLast, OwnerIsTip DEF Lineages!TipOf

\* Marks of a record are marks of a longer one.
LEMMA TypesLast ==
  ASSUME NEW h \in Seq(Lineages!Event), NEW e \in Lineages!Event, NEW l, PassTypes(h, l)
  PROVE  PassTypes(Append(h, e), l)
<1>1. Len(h) \in Nat /\ Len(Append(h, e)) = Len(h) + 1
  BY AppendIs
<1>2. \A i : (i \in 0..Len(h) => i \in 0..(Len(h) + 1)) /\ (i \in 1..Len(h) => i \in 1..(Len(h) + 1))
  BY <1>1
<1> QED  BY <1>1, <1>2 DEF PassTypes

LEMMA MarksLast ==
  ASSUME NEW h \in Seq(Lineages!Event), NEW e \in Lineages!Event, NEW t, NEW l, Marked(h, t, l),
         Lineages!Turns(Append(h, e), t) = Lineages!Turns(h, t)
  PROVE  Marked(Append(h, e), t, l)
<1>1. Lineages!Turns(h, t) \subseteq 1..Len(h) /\ \A i \in 1..Len(h) : Append(h, e)[i] = h[i]
  BY TurnsAre, AppendIs
<1> QED  BY <1>1 DEF Marked

\* An event that is no turn, and that the lineage continues with.
LEMMA PassLeaves ==
  ASSUME NEW h \in Seq(Lineages!Event), NEW e \in Lineages!Event, NEW t, NEW l,
         PassTypes(h, l), Passed(h, t, l), l.refused = 0,
         ~ (e.task = t /\ e.kind \in {"root", "bound"}),
         l.root # 0 => Continues(h, t, e)
  PROVE  PassTypes(Append(h, e), l) /\ Passed(Append(h, e), t, l)
<1>1. Lineages!Turns(Append(h, e), t) = Lineages!Turns(h, t)
  <2>1. \A i : i \in Lineages!Turns(Append(h, e), t) <=> i \in Lineages!Turns(h, t)
    BY TurnsAppend
  <2> QED  BY <2>1 DEF Lineages!Turns, Lineages!Roots, Lineages!Bounds
<1>2. l.root # 0 => /\ Lineages!Established(Append(h, e), t)
                    /\ l.holder = Lineages!HolderOf(Append(h, e), t)
                    /\ Marked(Append(h, e), t, l)
  BY <1>1, EstablishedAppend, MarksLast DEF Passed
<1> QED  BY <1>1, <1>2, TypesLast DEF Passed

\* A refusal, whose reason no later event takes away.
LEMMA PassRefuses ==
  ASSUME NEW h \in Seq(Lineages!Event), NEW e \in Lineages!Event, NEW t, NEW l, PassTypes(h, l),
         Lineages!Turns(Append(h, e), t) # {}, ~ Lineages!Established(Append(h, e), t)
  PROVE  /\ PassTypes(Append(h, e), Lineages!RefusedAt(l, Len(h) + 1))
         /\ Passed(Append(h, e), t, Lineages!RefusedAt(l, Len(h) + 1))
<1> DEFINE n == Len(h)
           m == Lineages!RefusedAt(l, n + 1)
<1>1. n \in Nat /\ Len(Append(h, e)) = n + 1
  BY AppendIs
<1>2. m = [root |-> l.root, holder |-> l.holder, segs |-> l.segs, refused |-> n + 1]
  BY DEF Lineages!RefusedAt, PassTypes
<1>3. PassTypes(Append(h, e), l)
  BY TypesLast
<1>4. m.root = l.root /\ m.holder = l.holder /\ m.segs = l.segs /\ m.refused = n + 1
  BY <1>2
<1> HIDE DEF n
<1>5. n + 1 # 0 /\ n + 1 \in 0..(n + 1)
  BY <1>1
<1> HIDE DEF m
<1>6. PassTypes(Append(h, e), m)
  BY <1>1, <1>2, <1>3, <1>4, <1>5 DEF PassTypes
<1>7. Passed(Append(h, e), t, m)
  BY <1>4, <1>5 DEF Passed
<1> QED  BY <1>6, <1>7 DEF m, n

\* The root.
LEMMA PassRoots ==
  ASSUME NEW h \in Seq(Lineages!Event), NEW e \in Lineages!Event, NEW t, NEW l,
         PassTypes(h, l), Passed(h, t, l), l.refused = 0, l.root = 0,
         e.task = t, e.kind = "root", e.ok
  PROVE  /\ PassTypes(Append(h, e), Lineages!Step(l, e, Len(h) + 1))
         /\ Passed(Append(h, e), t, Lineages!Step(l, e, Len(h) + 1))
<1> DEFINE n == Len(h)
           k == Append(h, e)
           m == Lineages!Step(l, e, n + 1)
           one == <<[sess |-> e.sess, from |-> n + 1]>>
<1>1. n \in Nat /\ Len(k) = n + 1 /\ k[n + 1] = e /\ e.sess \in Session
  BY AppendIs DEF Lineages!Event
<1>2. m = [root |-> n + 1, holder |-> e.sess, segs |-> one, refused |-> 0]
  BY DEF Lineages!Step, Lineages!Segment, PassTypes
<1>3. one \in Seq(Segments) /\ Len(one) = 1 /\ one[1] = [sess |-> e.sess, from |-> n + 1]
  BY <1>1 DEF Segments
<1>4. \A a : a \in 1..1 <=> a = 1
  OBVIOUS
<1>5. Lineages!Turns(h, t) = {}
  BY DEF Passed
<1>6. \A i : (i \in Lineages!Roots(k, t) <=> i = n + 1) /\ (i \in Lineages!Turns(k, t) <=> i = n + 1)
  BY <1>5, TurnsAppend DEF Lineages!Turns
<1>7. Lineages!Established(k, t)
  BY <1>5, EstablishedFirst
<1> HIDE DEF k, n, one, m
<1>8. Lineages!HolderOf(k, t) = e.sess
  BY <1>1, <1>6 DEF Lineages!HolderOf
<1>9. n + 1 # 0 /\ n + 1 \in 1..(n + 1) /\ n + 1 \in 0..(n + 1) /\ 0 \in 0..(n + 1)
  BY <1>1
<1>10. /\ m.root = n + 1 /\ m.holder = e.sess /\ m.segs = one /\ m.refused = 0
       /\ one[1].from = n + 1 /\ one[1].sess = e.sess
  BY <1>2, <1>3
<1>11. PassTypes(k, m)
  <2>1. \A a \in 1..1 : one[a].from \in 1..(n + 1)
    BY <1>4, <1>9, <1>10
  <2>2. \A a, b \in 1..1 : ~ (a < b)
    OBVIOUS
  <2>3. m = [root |-> m.root, holder |-> m.holder, segs |-> m.segs, refused |-> m.refused]
    BY <1>2, <1>10
  <2>4. m.root \in 0..Len(k) /\ m.refused \in 0..Len(k)
    BY <1>1, <1>9, <1>10
  <2>5. m.segs \in Seq(Segments) /\ Len(m.segs) = 1
    BY <1>3, <1>10
  <2>6. \A a \in 1..Len(m.segs) : m.segs[a].from \in 1..Len(k)
    BY <2>1, <2>5, <1>1, <1>10
  <2>7. \A a, b \in 1..Len(m.segs) : a < b => m.segs[a].from < m.segs[b].from
    BY <2>2, <2>5
  <2>8. m.root = 0 <=> Len(m.segs) = 0
    BY <2>5, <1>9, <1>10
  <2> QED  BY <2>3, <2>4, <2>5, <2>6, <2>7, <2>8 DEF PassTypes
<1>12. Marked(k, t, m)
  BY <1>1, <1>3, <1>4, <1>6, <1>10 DEF Marked
<1>13. Passed(k, t, m)
  BY <1>7, <1>8, <1>9, <1>10, <1>12 DEF Passed
<1> QED  BY <1>11, <1>13 DEF k, n, m

\* The transition that is owed.
LEMMA PassBinds ==
  ASSUME NEW h \in Seq(Lineages!Event), NEW e \in Lineages!Event, NEW t, NEW l,
         PassTypes(h, l), Passed(h, t, l), l.refused = 0, l.root # 0,
         e.task = t, e.kind = "bound", Continues(h, t, e), Lineages!Admits(l, e)
  PROVE  /\ PassTypes(Append(h, e), Lineages!Step(l, e, Len(h) + 1))
         /\ Passed(Append(h, e), t, Lineages!Step(l, e, Len(h) + 1))
<1> DEFINE n == Len(h)
           k == Append(h, e)
           m == Lineages!Step(l, e, n + 1)
           c == Len(l.segs)
           new == [sess |-> e.sess, from |-> n + 1]
           more == Append(l.segs, new)
<1>1. /\ n \in Nat /\ Len(k) = n + 1 /\ k[n + 1] = e /\ e.sess \in Session
      /\ \A i \in 1..n : k[i] = h[i] /\ i \in 1..(n + 1)
  BY AppendIs DEF Lineages!Event
<1>2. m = [root |-> l.root, holder |-> l.holder, segs |-> more, refused |-> 0]
  BY DEF Lineages!Step, Lineages!Segment, PassTypes, Continues
<1>3. new \in Segments /\ l.segs \in Seq(Segments) /\ c \in Nat
  BY <1>1 DEF Segments, PassTypes
<1>4. /\ more \in Seq(Segments) /\ Len(more) = c + 1 /\ more[c + 1] = new
      /\ \A a \in 1..c : more[a] = l.segs[a]
  BY <1>3, AppendProperties
<1>5. \A i : i \in Lineages!Turns(k, t) <=> i \in Lineages!Turns(h, t) \/ i = n + 1
  BY TurnsAppend
<1>6. Lineages!Turns(h, t) \subseteq 1..n
  BY TurnsAre
<1>7. Lineages!Established(k, t) /\ Lineages!HolderOf(k, t) = l.holder
  BY EstablishedAppend DEF Passed
<1>8. new.from = n + 1 /\ new.sess = e.sess
  OBVIOUS
<1> HIDE DEF k, n, new, more, m, c
<1>9. m.root = l.root /\ m.holder = l.holder /\ m.segs = more /\ m.refused = 0
  BY <1>2
<1>10. /\ \A a : a \in 1..(c + 1) <=> a \in 1..c \/ a = c + 1
       /\ \A a, b \in 1..(c + 1) : a < b => a \in 1..c
       /\ c + 1 \notin 1..c /\ c + 1 # 0
  BY <1>3
<1>11. PassTypes(k, m)
  <2>1. PassTypes(k, l)
    BY TypesLast DEF k
  <2>2. \A a \in 1..c : l.segs[a].from \in 1..n
    BY DEF PassTypes, c, n
  <2>3. \A a \in 1..(c + 1) : more[a].from \in 1..(n + 1)
    BY <2>2, <1>1, <1>4, <1>8, <1>10
  <2>4. \A a, b \in 1..c : a < b => l.segs[a].from < l.segs[b].from
    BY DEF PassTypes, c
  <2>5. ASSUME NEW a \in 1..(c + 1), NEW b \in 1..(c + 1), a < b
        PROVE  more[a].from < more[b].from
    <3>1. a \in 1..c /\ more[a].from \in 1..n
      BY <2>2, <2>5, <1>4, <1>10
    <3>2. CASE b = c + 1
      BY <3>1, <3>2, <1>1, <1>4, <1>8
    <3>3. CASE b \in 1..c
      BY <3>1, <3>3, <2>4, <2>5, <1>4
    <3> QED  BY <3>2, <3>3, <1>10
  <2>6. l.root \in 0..Len(k) /\ 0 \in 0..Len(k)
    BY <2>1, <1>1 DEF PassTypes
  <2>7. \A a, b \in 1..(c + 1) : a < b => more[a].from < more[b].from
    BY <2>5
  <2>8. l.root = 0 <=> c + 1 = 0
    BY <1>10
  <2> QED  BY <2>3, <2>6, <2>7, <2>8, <1>1, <1>2, <1>4, <1>9 DEF PassTypes
<1>12. Marked(k, t, m)
  <2>1. /\ \A a \in 1..c : /\ l.segs[a].from \in Lineages!Turns(h, t)
                           /\ h[l.segs[a].from].sess = l.segs[a].sess
        /\ \A i \in Lineages!Turns(h, t) : \E a \in 1..c : l.segs[a].from = i
    BY DEF Passed, Marked, c
  <2>2. ASSUME NEW a \in 1..(c + 1)
        PROVE  more[a].from \in Lineages!Turns(k, t) /\ k[more[a].from].sess = more[a].sess
    <3>1. CASE a = c + 1
      BY <3>1, <1>1, <1>4, <1>5, <1>8
    <3>2. CASE a \in 1..c
      BY <3>2, <2>1, <1>1, <1>4, <1>5, <1>6
    <3> QED  BY <3>1, <3>2, <1>10
  <2>3. ASSUME NEW i \in Lineages!Turns(k, t) PROVE \E a \in 1..(c + 1) : more[a].from = i
    <3>1. CASE i = n + 1
      BY <3>1, <1>4, <1>8, <1>10
    <3>2. CASE i \in Lineages!Turns(h, t)
      BY <3>2, <2>1, <1>4, <1>10
    <3> QED  BY <3>1, <3>2, <1>5
  <2> QED  BY <2>2, <2>3, <1>4, <1>9 DEF Marked
<1>13. Passed(k, t, m)
  BY <1>7, <1>9, <1>12 DEF Passed
<1> QED  BY <1>11, <1>13 DEF k, n, m

\* What a transition owes is the same by the pass and by the positions.
LEMMA AdmitsIs ==
  ASSUME NEW h \in Seq(Lineages!Event), NEW e \in Lineages!Event, NEW t, NEW l,
         PassTypes(h, l), Passed(h, t, l), l.refused = 0, l.root # 0,
         e.task = t, e.kind = "bound"
  PROVE  e.ok /\ Lineages!Admits(l, e) <=> Continues(h, t, e)
<1>1. Marked(h, t, l) /\ l.holder = Lineages!HolderOf(h, t)
  BY DEF Passed
<1>2. Lineages!Tip(l) = Lineages!TipOf(h, t)
  BY <1>1, TipIsTip
<1>3. Lineages!Includes(l, e.sess) <=> \E i \in Lineages!Turns(h, t) : h[i].sess = e.sess
  BY <1>1, IncludesTurns
<1> QED  BY <1>1, <1>2, <1>3 DEF Lineages!Admits, Continues

LEMMA PassKept ==
  ASSUME NEW h \in Seq(Lineages!Event), NEW e \in Lineages!Event, NEW t,
         NEW l, l = Lineages!Reconstruct(h, t), PassTypes(h, l), Passed(h, t, l)
  PROVE  /\ PassTypes(Append(h, e), Lineages!Reconstruct(Append(h, e), t))
         /\ Passed(Append(h, e), t, Lineages!Reconstruct(Append(h, e), t))
<1> DEFINE n == Len(h)
           k == Append(h, e)
           m == Lineages!Reconstruct(k, t)
<1>1. m = IF l.refused # 0 \/ e.task # t THEN l ELSE Lineages!Step(l, e, n + 1)
  BY ReconstructAppend
<1>2. \A i : i \in Lineages!Turns(k, t)
              <=> \/ i \in Lineages!Turns(h, t)
                  \/ i = n + 1 /\ e.task = t /\ e.kind \in {"root", "bound"}
  BY TurnsAppend
<1>3. e.kind \in Lineages!Kinds /\ e.ok \in BOOLEAN
  BY DEF Lineages!Event
<1>4. CASE l.refused # 0
  <2>1. Lineages!Turns(h, t) # {} /\ ~ Lineages!Established(h, t)
    BY <1>4 DEF Passed
  <2>2. Lineages!Turns(k, t) # {} /\ ~ Lineages!Established(k, t)
    BY <2>1, <1>2, EstablishedBefore
  <2>3. m = l
    BY <1>1, <1>4
  <2>4. PassTypes(k, l)
    BY TypesLast
  <2> HIDE DEF m, k
  <2> QED  BY <2>2, <2>3, <2>4, <1>4 DEF Passed, m, k
<1>5. CASE l.refused = 0 /\ e.task # t
  <2>1. m = l /\ Continues(h, t, e)
    BY <1>1, <1>5 DEF Continues
  <2>2. PassTypes(k, l) /\ Passed(k, t, l)
    BY <2>1, <1>5, PassLeaves
  <2> QED  BY <2>1, <2>2
<1>6. CASE l.refused = 0 /\ e.task = t /\ e.kind = "root"
  <2>1. CASE l.root = 0 /\ e.ok
    BY <2>1, <1>1, <1>6, PassRoots
  <2>2. CASE ~ (l.root = 0 /\ e.ok)
    <3>1. m = Lineages!RefusedAt(l, n + 1)
      BY <2>2, <1>1, <1>6 DEF Lineages!Step
    <3>2. Lineages!Turns(k, t) # {}
      BY <1>2, <1>6
    <3>3. l.root = 0 => ~ Lineages!Established(k, t)
      BY <2>2, <1>6, EstablishedFirst DEF Passed
    <3>4. l.root # 0 => ~ Lineages!Established(k, t)
      BY <1>6, EstablishedAppend DEF Passed, Continues
    <3> QED  BY <3>1, <3>2, <3>3, <3>4, PassRefuses
  <2> QED  BY <2>1, <2>2
<1>7. CASE l.refused = 0 /\ e.task = t /\ e.kind = "bound"
  <2>1. CASE e.ok /\ l.root # 0 /\ Lineages!Admits(l, e)
    <3>1. Continues(h, t, e)
      BY <2>1, <1>7, AdmitsIs
    <3> QED  BY <3>1, <2>1, <1>1, <1>7, PassBinds
  <2>2. CASE ~ (e.ok /\ l.root # 0 /\ Lineages!Admits(l, e))
    <3>1. m = Lineages!RefusedAt(l, n + 1)
      BY <2>2, <1>1, <1>7 DEF Lineages!Step
    <3>2. Lineages!Turns(k, t) # {}
      BY <1>2, <1>7
    <3>3. l.root = 0 => ~ Lineages!Established(k, t)
      BY <1>7, EstablishedFirst DEF Passed
    <3>4. l.root # 0 => ~ Lineages!Established(k, t)
      BY <2>2, <1>7, AdmitsIs, EstablishedAppend DEF Passed
    <3> QED  BY <3>1, <3>2, <3>3, <3>4, PassRefuses
  <2> QED  BY <2>1, <2>2
<1>8. CASE l.refused = 0 /\ e.task = t /\ e.kind \notin {"root", "bound"}
  <2>1. CASE l.root # 0 /\ ~e.ok
    <3>1. m = Lineages!RefusedAt(l, n + 1)
      BY <2>1, <1>1, <1>8 DEF Lineages!Step
    <3>2. Lineages!Established(h, t) /\ ~ Continues(h, t, e)
      BY <2>1, <1>8 DEF Passed, Continues
    <3>3. Lineages!Turns(k, t) # {}
      <4>1. \E r \in Lineages!Roots(h, t) : TRUE
        BY <3>2, EstablishedRoot
      <4> QED  BY <4>1, <1>2 DEF Lineages!Turns
    <3>4. ~ Lineages!Established(k, t)
      BY <3>2, EstablishedAppend
    <3> QED  BY <3>1, <3>3, <3>4, PassRefuses
  <2>2. CASE ~ (l.root # 0 /\ ~e.ok)
    <3>1. m = l
      BY <2>2, <1>1, <1>8 DEF Lineages!Step
    <3>2. l.root # 0 => Continues(h, t, e)
      BY <2>2, <1>8 DEF Continues
    <3>3. PassTypes(k, l) /\ Passed(k, t, l)
      BY <3>2, <1>8, PassLeaves
    <3> QED  BY <3>1, <3>3
  <2> QED  BY <2>1, <2>2
<1> QED  BY <1>4, <1>5, <1>6, <1>7, <1>8

LEMMA PassBegins ==
  ASSUME NEW t
  PROVE  /\ PassTypes(<<>>, Lineages!Reconstruct(<<>>, t))
         /\ Passed(<<>>, t, Lineages!Reconstruct(<<>>, t))
<1> DEFINE none == <<>>
           l == Lineages!NoLineage
<1>1. none \in Seq(Lineages!Event) /\ Len(none) = 0 /\ DOMAIN none = {}
  BY SMT
<1>2. none \in Seq(Segments) /\ 0 \in 0..0 /\ 1..0 = {}
  BY SMT
<1>3. l = [root |-> 0, holder |-> NoSession, segs |-> none, refused |-> 0]
  BY DEF Lineages!NoLineage
<1>4. Lineages!Reconstruct(none, t) = l
  BY ReconstructEmpty
<1> HIDE DEF none
<1>5. Lineages!Turns(none, t) = {}
  BY <1>1 DEF Lineages!Turns, Lineages!Roots, Lineages!Bounds
<1>6. l.root = 0 /\ l.holder = NoSession /\ l.segs = none /\ l.refused = 0
  BY <1>3
<1> HIDE DEF l
<1>7. PassTypes(none, l)
  BY <1>1, <1>2, <1>3, <1>6 DEF PassTypes
<1>8. Passed(none, t, l)
  BY <1>5, <1>6 DEF Passed
<1> QED  BY <1>4, <1>7, <1>8 DEF none

\* A record is a shorter one and its last event.
LEMMA LastIsAppended ==
  ASSUME NEW n \in Nat, NEW h \in Seq(Lineages!Event), Len(h) = n + 1
  PROVE  \E s \in Seq(Lineages!Event), e \in Lineages!Event : Len(s) = n /\ h = Append(s, e)
<1> DEFINE s == [i \in 1..n |-> h[i]]
           e == h[n + 1]
<1>1. DOMAIN h = 1..(n + 1) /\ \A i \in 1..(n + 1) : h[i] \in Lineages!Event
  OBVIOUS
<1>2. n + 1 \in 1..(n + 1) /\ \A i \in 1..n : i \in 1..(n + 1)
  OBVIOUS
<1>3. s \in Seq(Lineages!Event) /\ Len(s) = n /\ e \in Lineages!Event
  BY <1>1, <1>2
<1>4. /\ Append(s, e) \in Seq(Lineages!Event) /\ Len(Append(s, e)) = n + 1
      /\ Append(s, e)[n + 1] = e /\ \A i \in 1..n : Append(s, e)[i] = s[i]
  BY <1>3, AppendIs
<1>5. \A i \in 1..n : s[i] = h[i]
  OBVIOUS
<1>6. \A i \in 1..(n + 1) : i \in 1..n \/ i = n + 1
  OBVIOUS
<1> HIDE DEF s
<1>7. \A i \in 1..Len(h) : h[i] = Append(s, e)[i]
  BY <1>4, <1>5, <1>6
<1>8. h = Append(s, e)
  BY <1>4, <1>7, SeqEqual
<1> QED  BY <1>3, <1>8

\* Of every record, the pass has made what its positions say.
LEMMA PassOfAll ==
  \A h \in Seq(Lineages!Event) : \A t :
    PassTypes(h, Lineages!Reconstruct(h, t)) /\ Passed(h, t, Lineages!Reconstruct(h, t))
<1> DEFINE Sound(h) == \A t : /\ PassTypes(h, Lineages!Reconstruct(h, t))
                              /\ Passed(h, t, Lineages!Reconstruct(h, t))
           T == {y \in Nat : \E h \in Seq(Lineages!Event) : Len(h) = y /\ ~Sound(h)}
<1>1. SUFFICES ASSUME T # {} PROVE FALSE
  <2>1. ASSUME T = {}, NEW h \in Seq(Lineages!Event) PROVE Sound(h)
    <3>1. Len(h) \in Nat /\ Len(h) \notin T
      BY <2>1
    <3> HIDE DEF Sound
    <3> QED  BY <3>1
  <2> QED  BY <2>1
<1>2. T \subseteq Nat
  OBVIOUS
<1>3. PICK n \in T : \A y \in T : ~ (<<y, n>> \in OpToRel(<, Nat))
  <2> HIDE DEF T
  <2> QED  BY <1>1, <1>2, NatLessThanWellFounded, WFMin
<1>4. n \in T
  BY <1>3, Zenon
<1>5. PICK h \in Seq(Lineages!Event) : Len(h) = n /\ ~Sound(h)
  <2> HIDE DEF Sound
  <2> QED  BY <1>4
<1>6. n \in Nat
  BY <1>4, <1>2
<1>7. n # 0
  <2>1. ASSUME n = 0 PROVE h = <<>>
    BY <2>1, <1>5, EmptySeq
  <2>2. Sound(<<>>)
    BY PassBegins
  <2> HIDE DEF Sound
  <2> QED  BY <2>1, <2>2, <1>5
<1> DEFINE b == n - 1
<1>8. b \in Nat /\ n = b + 1 /\ b < n
  BY <1>6, <1>7
<1> HIDE DEF b
<1>9. PICK s \in Seq(Lineages!Event), e \in Lineages!Event : Len(s) = b /\ h = Append(s, e)
  BY <1>5, <1>8, LastIsAppended
<1>10. b \in T => ~ (b < n)
  <2> HIDE DEF T
  <2> QED  BY <1>3, <1>6, <1>8 DEF OpToRel
<1>11. b \notin T
  BY <1>8, <1>10
<1>12. Sound(s)
  <2> HIDE DEF Sound
  <2> QED  BY <1>8, <1>9, <1>11
<1>13. Sound(h)
  BY <1>9, <1>12, PassKept
<1> QED  BY <1>5, <1>13

\* TaskSessionLineage's one pass over any record finds a lineage exactly where the
\* positions of its events establish one, and reads the same holder, the same tip
\* and the same owner of every position from it.
THEOREM EveryPassReadsPositions ==
  ASSUME NEW h \in Seq(Lineages!Event), NEW t, NEW l, l = Lineages!Reconstruct(h, t)
  PROVE  /\ Lineages!IsEstablished(l) <=> Lineages!Established(h, t)
         /\ Lineages!IsEstablished(l) =>
              /\ l.holder = Lineages!HolderOf(h, t)
              /\ Lineages!Tip(l) = Lineages!TipOf(h, t)
              /\ \A i \in DOMAIN h : Lineages!OwnerAt(l, i) = Lineages!TipAt(h, t, i)
<1>1. PassTypes(h, l) /\ Passed(h, t, l)
  BY PassOfAll
<1>2. Lineages!Turns(h, t) = {} => ~ Lineages!Established(h, t)
  BY DEF Lineages!Established, Lineages!Turns
<1>3. Lineages!IsEstablished(l) <=> Lineages!Established(h, t)
  BY <1>1, <1>2 DEF Lineages!IsEstablished, Passed
<1>4. ASSUME Lineages!IsEstablished(l)
      PROVE  /\ l.holder = Lineages!HolderOf(h, t)
             /\ Lineages!Tip(l) = Lineages!TipOf(h, t)
             /\ \A i \in DOMAIN h : Lineages!OwnerAt(l, i) = Lineages!TipAt(h, t, i)
  <2>1. l.holder = Lineages!HolderOf(h, t) /\ Marked(h, t, l)
    BY <1>1, <1>4 DEF Lineages!IsEstablished, Passed
  <2>2. \A i \in DOMAIN h : i \in 0..Len(h)
    OBVIOUS
  <2> QED  BY <2>1, <2>2, <1>1, OwnerIsTip, TipIsTip
<1> QED  BY <1>3, <1>4

LEMMA InputsAreEvents == Lineages!Inputs \subseteq Lineages!Event
BY DEF Lineages!Inputs, Lineages!Event, Lineages!Kinds

\* What LineageCheck grows is a record.
LEMMA GrownIsRecord ==
  /\ Lineages!Init => log \in Seq(Lineages!Event)
  /\ log \in Seq(Lineages!Event) /\ [Lineages!Grow]_log => (log \in Seq(Lineages!Event))'
<1>1. Lineages!Init => log \in Seq(Lineages!Event)
  BY DEF Lineages!Init
<1>2. ASSUME log \in Seq(Lineages!Event), NEW e \in Lineages!Inputs, log' = Append(log, e)
      PROVE  log' \in Seq(Lineages!Event)
  BY <1>2, InputsAreEvents, AppendIs
<1> QED  BY <1>1, <1>2 DEF Lineages!Grow

\* So it is of every record that LineageCheck grows.
THEOREM PassReadsPositions == Lineages!Spec => []Lineages!PassAgreesWithPositions
<1>1. log \in Seq(Lineages!Event) => Lineages!PassAgreesWithPositions
  BY EveryPassReadsPositions DEF Lineages!PassAgreesWithPositions
<1> QED  BY <1>1, GrownIsRecord, PTL DEF Lineages!Spec

\* An event counts where it is written when the pass that ends with it neither
\* refused nor saw no root, and made or left its session the tip.
LEMMA MemberIs ==
  ASSUME Lineages!LineageAssumption, NEW h \in Seq(Lineages!Event), NEW e \in Lineages!Event,
         NEW m, m = Lineages!Reconstruct(Append(h, e), e.task), PassTypes(Append(h, e), m)
  PROVE  Lineages!Class(Append(h, e), Len(h) + 1) = "lineage_member"
           <=> m.refused = 0 /\ m.root # 0 /\ e.ok /\ e.sess = Lineages!Tip(m)
<1> DEFINE n == Len(h)
           k == Append(h, e)
<1>1. n \in Nat /\ Len(k) = n + 1 /\ k[n + 1] = e /\ k \in Seq(Lineages!Event)
  BY AppendIs
<1>2. n + 1 \in Nat /\ Len(k) <= n + 1 /\ m.refused \in 0..(n + 1)
  BY <1>1 DEF PassTypes
<1>3. Lineages!OwnerAt(m, n + 1) = Lineages!Tip(m)
  BY <1>1, <1>2, OwnerIsLast
<1>4. e.sess # NoSession /\ e.ok \in BOOLEAN
  BY DEF Lineages!LineageAssumption, Lineages!Event
<1> HIDE DEF k, n
<1>5. m.refused # 0 => n + 1 >= m.refused
  BY <1>1, <1>2
<1> DEFINE c == Lineages!Class(k, n + 1)
<1>6. c = CASE m.refused = 0 /\ m.root = 0 -> "pre_root"
            [] m.refused # 0 /\ n + 1 >= m.refused -> "malformed"
            [] OTHER -> IF ~e.ok THEN "malformed"
                        ELSE CASE Lineages!OwnerAt(m, n + 1) = NoSession -> "pre_root"
                               [] e.sess = Lineages!OwnerAt(m, n + 1) -> "lineage_member"
                               [] OTHER -> "foreign"
  BY <1>1 DEF Lineages!Class, k
<1> HIDE DEF c
<1>7. CASE m.refused = 0 /\ m.root = 0
  BY <1>6, <1>7 DEF c, k, n
<1>8. CASE m.refused # 0
  <2>1. c = "malformed"
    BY <1>5, <1>6, <1>8
  <2> QED  BY <2>1, <1>8 DEF c, k, n
<1>9. CASE m.refused = 0 /\ m.root # 0
  <2> DEFINE o == Lineages!OwnerAt(m, n + 1)
  <2>1. c = IF ~e.ok THEN "malformed"
            ELSE CASE o = NoSession -> "pre_root"
                   [] e.sess = o -> "lineage_member"
                   [] OTHER -> "foreign"
    BY <1>6, <1>9
  <2>2. o = Lineages!Tip(m)
    BY <1>3
  <2> HIDE DEF o
  <2>3. CASE ~e.ok
    <3>1. c = "malformed"
      BY <2>1, <2>3
    <3> QED  BY <2>3, <3>1 DEF c, k, n
  <2>4. CASE e.ok /\ e.sess = o
    <3>1. c = "lineage_member"
      BY <2>1, <2>4, <1>4
    <3> QED  BY <2>2, <2>4, <3>1, <1>9 DEF c, k, n
  <2>5. CASE e.ok /\ e.sess # o
    <3>1. c # "lineage_member"
      BY <2>1, <2>5
    <3> QED  BY <2>2, <2>5, <3>1 DEF c, k, n
  <2> QED  BY <2>3, <2>4, <2>5
<1> QED  BY <1>7, <1>8, <1>9

\* The writers' check of an event against what the readers will count it.
LEMMA WritersCount ==
  ASSUME Lineages!LineageAssumption, NEW h \in Seq(Lineages!Event), NEW e \in Lineages!Event, e.task \in Task,
         NEW l, l = Lineages!Reconstruct(h, e.task), PassTypes(h, l), Passed(h, e.task, l)
  PROVE  Lineages!AuthorizeAppend(h, e) \/ Lineages!AuthorizeBinding(h, e)
           <=> Lineages!Class(Append(h, e), Len(h) + 1) = "lineage_member"
<1> DEFINE n == Len(h)
           m == Lineages!Reconstruct(Append(h, e), e.task)
           Counted == m.refused = 0 /\ m.root # 0 /\ e.ok /\ e.sess = Lineages!Tip(m)
           Written == Lineages!AuthorizeAppend(h, e) \/ Lineages!AuthorizeBinding(h, e)
<1>1. m = IF l.refused # 0 THEN l ELSE Lineages!Step(l, e, n + 1)
  BY ReconstructAppend
<1>2. Lineages!Class(Append(h, e), n + 1) = "lineage_member" <=> Counted
  BY PassKept, MemberIs
<1>3. e.kind \in Lineages!Kinds /\ e.ok \in BOOLEAN /\ e.task # NoTask
  BY DEF Lineages!Event, Lineages!LineageAssumption
<1>4. Written <=> \/ /\ e.kind = "bound" /\ e.ok
                     /\ l.refused = 0 /\ l.root # 0 /\ Lineages!Admits(l, e)
                  \/ e.kind = "root" /\ e.ok /\ l.refused = 0 /\ l.root = 0
                  \/ /\ e.kind \notin {"root", "bound"} /\ e.ok
                     /\ l.refused = 0 /\ l.root # 0 /\ e.sess = Lineages!Tip(l)
  BY <1>3 DEF Lineages!AuthorizeAppend, Lineages!AuthorizeBinding, Lineages!IsEstablished
<1>5. n \in Nat /\ n + 1 # 0
  BY AppendIs
<1>6. l = [root |-> l.root, holder |-> l.holder, segs |-> l.segs, refused |-> l.refused]
  BY DEF PassTypes
<1>7. ASSUME m = Lineages!RefusedAt(l, n + 1) PROVE ~Counted
  <2>1. m.refused = n + 1
    BY <1>6, <1>7 DEF Lineages!RefusedAt
  <2> QED  BY <2>1, <1>5
<1> HIDE DEF n, m, Written
<1>8. CASE l.refused # 0
  BY <1>1, <1>2, <1>4, <1>8 DEF Written, n
<1>9. CASE l.refused = 0 /\ e.kind = "root"
  <2>1. CASE l.root = 0 /\ e.ok
    <3>1. m = [root |-> n + 1, holder |-> e.sess, segs |-> <<[sess |-> e.sess, from |-> n + 1]>>,
               refused |-> 0]
      BY <2>1, <1>1, <1>6, <1>9 DEF Lineages!Step, Lineages!Segment
    <3>2. m.root = n + 1 /\ m.refused = 0 /\ m.segs = <<[sess |-> e.sess, from |-> n + 1]>>
      BY <3>1
    <3>3. Lineages!Tip(m) = e.sess
      BY <3>2 DEF Lineages!Tip
    <3> QED  BY <3>2, <3>3, <2>1, <1>2, <1>4, <1>5, <1>9 DEF Written, n
  <2>2. CASE ~ (l.root = 0 /\ e.ok)
    <3>1. m = Lineages!RefusedAt(l, n + 1)
      BY <2>2, <1>1, <1>9 DEF Lineages!Step
    <3> QED  BY <3>1, <2>2, <1>2, <1>4, <1>7, <1>9 DEF Written, n
  <2> QED  BY <2>1, <2>2
<1>10. CASE l.refused = 0 /\ e.kind = "bound"
  <2>1. CASE e.ok /\ l.root # 0 /\ Lineages!Admits(l, e)
    <3> DEFINE new == [sess |-> e.sess, from |-> n + 1]
               more == Append(l.segs, new)
    <3>1. m = [root |-> l.root, holder |-> l.holder, segs |-> more, refused |-> 0]
      BY <2>1, <1>1, <1>6, <1>10 DEF Lineages!Step, Lineages!Segment
    <3>2. l.segs \in Seq(Segments) /\ new \in Segments /\ new.sess = e.sess
      BY <1>5 DEF PassTypes, Segments, Lineages!Event, n
    <3> HIDE DEF new
    <3>3. more # <<>> /\ more[Len(more)] = new
      BY <3>2, AppendProperties
    <3> HIDE DEF more
    <3>4. m.root = l.root /\ m.refused = 0 /\ m.segs = more
      BY <3>1
    <3>5. Lineages!Tip(m) = e.sess
      BY <3>2, <3>3, <3>4 DEF Lineages!Tip
    <3> QED  BY <3>4, <3>5, <2>1, <1>2, <1>4, <1>10 DEF Written, n
  <2>2. CASE ~ (e.ok /\ l.root # 0 /\ Lineages!Admits(l, e))
    <3>1. m = Lineages!RefusedAt(l, n + 1)
      BY <2>2, <1>1, <1>10 DEF Lineages!Step
    <3> QED  BY <3>1, <2>2, <1>2, <1>4, <1>7, <1>10 DEF Written, n
  <2> QED  BY <2>1, <2>2
<1>11. CASE l.refused = 0 /\ e.kind \notin {"root", "bound"}
  <2>1. CASE l.root # 0 /\ ~e.ok
    BY <2>1, <1>2, <1>4, <1>11 DEF Written, n
  <2>2. CASE ~ (l.root # 0 /\ ~e.ok)
    <3>1. m = l
      BY <2>2, <1>1, <1>11 DEF Lineages!Step
    <3> QED  BY <3>1, <2>2, <1>2, <1>4, <1>11 DEF Written, n
  <2> QED  BY <2>1, <2>2
<1> QED  BY <1>8, <1>9, <1>10, <1>11

LEMMA GrowsMatched ==
  ASSUME Lineages!LineageAssumption, log \in Seq(Lineages!Event), Lineages!Grow
  PROVE  Lineages!LastIsAuthorized <=> Lineages!LastIsMember
<1>1. PICK e \in Lineages!Inputs : log' = Append(log, e)
  BY DEF Lineages!Grow
<1>2. e \in Lineages!Event /\ e.task \in Task /\ log \in Seq(Lineages!Event)
  BY InputsAreEvents DEF Lineages!Inputs
<1>3. Len(log') = Len(log) + 1 /\ log'[Len(log) + 1] = e
  BY <1>1, <1>2, AppendIs
<1>4. Lineages!AuthorizeAppend(log, e) \/ Lineages!AuthorizeBinding(log, e)
        <=> Lineages!Class(Append(log, e), Len(log) + 1) = "lineage_member"
  BY <1>2, WritersCount, PassOfAll
<1>5. Lineages!LastIsAuthorized <=> Lineages!AuthorizeAppend(log, e) \/ Lineages!AuthorizeBinding(log, e)
  BY <1>3 DEF Lineages!LastIsAuthorized, Lineages!Newest
<1>6. Lineages!LastIsMember <=> Lineages!Class(Append(log, e), Len(log) + 1) = "lineage_member"
  BY <1>1, <1>3 DEF Lineages!LastIsMember, Lineages!Newest
<1> QED  BY <1>4, <1>5, <1>6

\* Writers admit exactly what readers will count a member where it is written.
THEOREM WritersAndReadersAgree ==
  ASSUME Lineages!LineageAssumption PROVE Lineages!Spec => Lineages!WritersMatchReaders
<1>1. log \in Seq(Lineages!Event) /\ [Lineages!Grow]_log => [Lineages!LastIsAuthorized <=> Lineages!LastIsMember]_log
  BY GrowsMatched
<1> QED  BY <1>1, GrownIsRecord, PTL DEF Lineages!Spec, Lineages!WritersMatchReaders

\* The writers' checks by positions, as SessionLedger makes them: a root where the
\* task has no turn, the owed transition, any other record by the current session.
THEOREM WritersReadPositions ==
  ASSUME NEW h \in Seq(Lineages!Event), NEW e \in Lineages!Event
  PROVE  /\ Lineages!AuthorizeBinding(h, e)
              <=> /\ e.kind = "bound" /\ e.ok
                  /\ Lineages!Established(h, e.task)
                  /\ e.holder = Lineages!HolderOf(h, e.task)
                  /\ e.parent = Lineages!TipOf(h, e.task)
                  /\ \A i \in Lineages!Turns(h, e.task) : h[i].sess # e.sess
         /\ Lineages!AuthorizeAppend(h, e)
              <=> /\ e.kind # "bound" /\ e.ok
                  /\ \/ e.task = NoTask
                     \/ e.kind = "root" /\ Lineages!Turns(h, e.task) = {}
                     \/ /\ e.kind # "root"
                        /\ Lineages!Established(h, e.task)
                        /\ e.sess = Lineages!TipOf(h, e.task)
<1> DEFINE t == e.task
           l == Lineages!Reconstruct(h, t)
<1>1. PassTypes(h, l) /\ Passed(h, t, l)
  BY PassOfAll
<1>2. /\ Lineages!IsEstablished(l) <=> Lineages!Established(h, t)
      /\ Lineages!IsEstablished(l) => l.holder = Lineages!HolderOf(h, t) /\ Lineages!Tip(l) = Lineages!TipOf(h, t)
  BY EveryPassReadsPositions
<1>3. Lineages!IsEstablished(l)
        => \A s : Lineages!Includes(l, s) <=> \E i \in Lineages!Turns(h, t) : h[i].sess = s
  BY <1>1, IncludesTurns DEF Lineages!IsEstablished, Passed
<1>4. l.refused = 0 /\ l.root = 0 <=> Lineages!Turns(h, t) = {}
  <2>1. Lineages!Established(h, t) => Lineages!Turns(h, t) # {}
    BY DEF Lineages!Established, Lineages!Turns
  <2> QED  BY <1>1, <2>1 DEF Passed
<1> HIDE DEF l
<1>5. Lineages!AuthorizeBinding(h, e)
        <=> e.kind = "bound" /\ e.ok /\ Lineages!IsEstablished(l) /\ Lineages!Admits(l, e)
  BY DEF Lineages!AuthorizeBinding, l
<1>6. Lineages!AuthorizeAppend(h, e)
        <=> /\ e.kind # "bound" /\ e.ok
            /\ \/ e.task = NoTask
               \/ e.kind = "root" /\ l.refused = 0 /\ l.root = 0
               \/ e.kind # "root" /\ Lineages!IsEstablished(l) /\ e.sess = Lineages!Tip(l)
  BY DEF Lineages!AuthorizeAppend, l
<1>7. Lineages!IsEstablished(l)
        => (Lineages!Admits(l, e)
              <=> /\ e.holder = Lineages!HolderOf(h, t)
                  /\ e.parent = Lineages!TipOf(h, t)
                  /\ \A i \in Lineages!Turns(h, t) : h[i].sess # e.sess)
  BY <1>2, <1>3 DEF Lineages!Admits
<1> QED  BY <1>2, <1>4, <1>5, <1>6, <1>7

-----------------------------------------------------------------------------
(* One checkout's records together: a behaviour is of the component it      *)
(* began with, so each theorem of a component is one of the composition.    *)

In(c) == component = c

LEMMA StaysIn == ASSUME NEW c PROVE ~In(c) /\ [AllNext]_vars => ~In(c)'
BY DEF AllNext, Next, Rests, vars, In

LEMMA InTurns ==
  /\ Init /\ In("turns") => Turns!Init
  /\ In("turns") /\ [AllNext]_vars => In("turns")' /\ [Turns!Next]_Turns!vars
BY DEF Init, AllNext, Next, Rests, vars, turns, Turns!vars, In

LEMMA InProposals ==
  /\ Init /\ In("proposals") => Proposals!Init
  /\ In("proposals") /\ [AllNext]_vars => In("proposals")' /\ [Proposals!Next]_Proposals!vars
BY DEF Init, AllNext, Next, Rests, vars, proposals, Proposals!vars, In

LEMMA InWork ==
  /\ Init /\ In("work") => Work!Init
  /\ In("work") /\ [AllNext]_vars => In("work")' /\ [Work!Next]_Work!vars
BY DEF Init, AllNext, Next, Rests, vars, work, Work!vars, In

LEMMA InRuns ==
  /\ Init /\ In("runs") => Runs!Init
  /\ In("runs") /\ [AllNext]_vars => In("runs")' /\ [Runs!Next]_Runs!vars
BY DEF Init, AllNext, Next, Rests, vars, runs, Runs!vars, In

LEMMA InCheckpoints ==
  /\ Init /\ In("checkpoints") => Checkpoints!Init
  /\ In("checkpoints") /\ [AllNext]_vars
       => In("checkpoints")' /\ [Checkpoints!Next]_Checkpoints!vars
BY DEF Init, AllNext, Next, Rests, vars, checkpoints, Checkpoints!vars, In

LEMMA InLineage ==
  /\ Init /\ In("lineage") => Lineages!Init
  /\ In("lineage") /\ [AllNext]_vars => In("lineage")' /\ [Lineages!Grow]_log
BY DEF Init, AllNext, Next, Rests, vars, In

\* No recorded architecture request is forgotten while it stands.
THEOREM NoneIsForgotten == ASSUME RecordsAssumption PROVE Spec => []NoneForgotten
<1>1. Turns!TurnsAssumption
  BY DEF RecordsAssumption
<1>2. Turns!Spec => [](Turns!TypeOK /\ Turns!NoneForgotten)
  BY <1>1, RequestsAreNotForgotten
<1>3. (~In("turns") => NoneForgotten) /\ (Turns!NoneForgotten => NoneForgotten)
  BY DEF NoneForgotten, In
<1>4. ~In("turns") /\ [AllNext]_vars => ~In("turns")'
  BY StaysIn
<1> QED  BY <1>2, <1>3, <1>4, InTurns, PTL DEF Spec, Turns!Spec

\* A receipted delivery has its proposal on disk.
THEOREM ReceiptsHaveProposals == ASSUME RecordsAssumption PROVE Spec => []ReceiptedIsProposed
<1>1. Proposals!ProposalsAssumption
  BY DEF RecordsAssumption
<1>2. Proposals!Spec => []Proposals!ReceiptedIsProposed
  BY <1>1, ReceiptsFollowProposals
<1>3. /\ ~In("proposals") => ReceiptedIsProposed
      /\ Proposals!ReceiptedIsProposed => ReceiptedIsProposed
  BY DEF ReceiptedIsProposed, In
<1>4. ~In("proposals") /\ [AllNext]_vars => ~In("proposals")'
  BY StaysIn
<1> QED  BY <1>2, <1>3, <1>4, InProposals, PTL DEF Spec, Proposals!Spec

\* A comment's objective reaches the control plane once.
THEOREM EachSubmittedOnce == ASSUME RecordsAssumption PROVE Spec => []SubmittedOnce
<1>1. Proposals!ProposalsAssumption
  BY DEF RecordsAssumption
<1>2. Proposals!Spec => []Proposals!SubmittedOnce
  BY <1>1, SubmittedAtMostOnce
<1>3. (~In("proposals") => SubmittedOnce) /\ (Proposals!SubmittedOnce => SubmittedOnce)
  BY DEF SubmittedOnce, In
<1>4. ~In("proposals") /\ [AllNext]_vars => ~In("proposals")'
  BY StaysIn
<1> QED  BY <1>2, <1>3, <1>4, InProposals, PTL DEF Spec, Proposals!Spec

\* The candidate's record says what may still write to a worktree.
THEOREM CandidateRecordIsTrue == ASSUME RecordsAssumption PROVE Spec => []RecordIsTrue
<1>1. Work!WorkspaceAssumption
  BY DEF RecordsAssumption
<1>2. Work!Spec => []Work!RecordIsTrue
  BY <1>1, RecordIsAlwaysTrue
<1>3. (~In("work") => RecordIsTrue) /\ (Work!RecordIsTrue => RecordIsTrue)
  BY DEF RecordIsTrue, In
<1>4. ~In("work") /\ [AllNext]_vars => ~In("work")'
  BY StaysIn
<1> QED  BY <1>2, <1>3, <1>4, InWork, PTL DEF Spec, Work!Spec

\* A worktree is used or removed only when nothing can write to it.
THEOREM CandidateIsTouchedQuiet == ASSUME RecordsAssumption PROVE Spec => []TouchedIsQuiet
<1>1. Work!WorkspaceAssumption
  BY DEF RecordsAssumption
<1>2. Work!Spec => []Work!TouchedIsQuiet
  BY <1>1, OnlyQuietIsTouched
<1>3. (~In("work") => TouchedIsQuiet) /\ (Work!TouchedIsQuiet => TouchedIsQuiet)
  BY DEF TouchedIsQuiet, In
<1>4. ~In("work") /\ [AllNext]_vars => ~In("work")'
  BY StaysIn
<1> QED  BY <1>2, <1>3, <1>4, InWork, PTL DEF Spec, Work!Spec

\* A checkpoint that was returned stays committed and readable.
THEOREM ReturnedCheckpointsStand == ASSUME RecordsAssumption PROVE Spec => []ReturnedStands
<1>1. Checkpoints!CheckpointAssumption
  BY DEF RecordsAssumption
<1>2. Checkpoints!Spec => [](Checkpoints!ReturnedStands /\ Checkpoints!PriorIsTrue)
  BY <1>1, CheckpointsHold
<1>3. (~In("checkpoints") => ReturnedStands) /\ (Checkpoints!ReturnedStands => ReturnedStands)
  BY DEF ReturnedStands, In
<1>4. ~In("checkpoints") /\ [AllNext]_vars => ~In("checkpoints")'
  BY StaysIn
<1> QED  BY <1>2, <1>3, <1>4, InCheckpoints, PTL DEF Spec, Checkpoints!Spec

\* A failure that was undone names the checkpoint that stands.
THEOREM PriorsAreTrue == ASSUME RecordsAssumption PROVE Spec => []PriorIsTrue
<1>1. Checkpoints!CheckpointAssumption
  BY DEF RecordsAssumption
<1>2. Checkpoints!Spec => [](Checkpoints!ReturnedStands /\ Checkpoints!PriorIsTrue)
  BY <1>1, CheckpointsHold
<1>3. (~In("checkpoints") => PriorIsTrue) /\ (Checkpoints!PriorIsTrue => PriorIsTrue)
  BY DEF PriorIsTrue, In
<1>4. ~In("checkpoints") /\ [AllNext]_vars => ~In("checkpoints")'
  BY StaysIn
<1> QED  BY <1>2, <1>3, <1>4, InCheckpoints, PTL DEF Spec, Checkpoints!Spec

\* What the buses deliver of a task is what was recorded, in its order.
THEOREM DeliveryIsInOrder == ASSUME RecordsAssumption PROVE Spec => []PublishedInOrder
<1>1. Runs!EngineAssumption
  BY DEF RecordsAssumption
<1>2. Runs!Steps => []Runs!PublishedInOrder
  BY <1>1, Runs!PublicationIsInOrder
<1>3. (~In("runs") => PublishedInOrder) /\ (Runs!PublishedInOrder => PublishedInOrder)
  BY DEF PublishedInOrder, In
<1>4. ~In("runs") /\ [AllNext]_vars => ~In("runs")'
  BY StaysIn
<1> QED  BY <1>2, <1>3, <1>4, InRuns, PTL DEF Spec, Runs!Steps

\* No invocation ends twice, and one that returns has ended.
THEOREM EndingsAreAccounted == ASSUME RecordsAssumption PROVE Spec => []AccountedOnce
<1>1. Runs!EngineAssumption
  BY DEF RecordsAssumption
<1>2. Runs!Steps => []Runs!AccountedOnce
  BY <1>1, Runs!EveryEndingIsAccounted
<1>3. (~In("runs") => AccountedOnce) /\ (Runs!AccountedOnce => AccountedOnce)
  BY DEF AccountedOnce, In
<1>4. ~In("runs") /\ [AllNext]_vars => ~In("runs")'
  BY StaysIn
<1> QED  BY <1>2, <1>3, <1>4, InRuns, PTL DEF Spec, Runs!Steps

\* Nobody is asked about a task that is over, and it ends once.
THEOREM TaskIsOverForGood == ASSUME RecordsAssumption PROVE Spec => []OverIsOver
<1>1. Runs!EngineAssumption
  BY DEF RecordsAssumption
<1>2. Runs!Steps => []Runs!OverIsOver
  BY <1>1, Runs!TheTaskIsOverForGood
<1>3. (~In("runs") => OverIsOver) /\ (Runs!OverIsOver => OverIsOver)
  BY DEF OverIsOver, In
<1>4. ~In("runs") /\ [AllNext]_vars => ~In("runs")'
  BY StaysIn
<1> QED  BY <1>2, <1>3, <1>4, InRuns, PTL DEF Spec, Runs!Steps

\* Nothing is recorded or published for an invocation past its end.
THEOREM NothingIsRecordedLate == ASSUME RecordsAssumption PROVE Spec => NothingPastTheEnd
<1>1. Runs!EngineAssumption
  BY DEF RecordsAssumption
<1>2. Runs!Steps => Runs!NothingPastTheEnd
  BY <1>1, Runs!NothingIsLate
<1>3. ~In("runs") /\ [AllNext]_vars => [component = "runs" => Runs!StillItsOwn]_vars
  BY DEF In
<1>4. In("runs") /\ [AllNext]_vars /\ [Runs!StillItsOwn]_Runs!vars
        => [component = "runs" => Runs!StillItsOwn]_vars
  BY DEF AllNext, Next, Rests, vars, runs, Runs!vars, In
<1>5. ~In("runs") /\ [AllNext]_vars => ~In("runs")'
  BY StaysIn
<1> QED  BY <1>2, <1>3, <1>4, <1>5, InRuns, PTL
     DEF Spec, Runs!Steps, NothingPastTheEnd, Runs!NothingPastTheEnd

\* The code's one pass over a record reads the lineage that its positions say.
THEOREM PassIsPositions == Spec => []PassAgreesWithPositions
<1>1. Lineages!Spec => []Lineages!PassAgreesWithPositions
  BY PassReadsPositions
<1>2. /\ ~In("lineage") => PassAgreesWithPositions
      /\ Lineages!PassAgreesWithPositions => PassAgreesWithPositions
  BY DEF PassAgreesWithPositions, In
<1>3. ~In("lineage") /\ [AllNext]_vars => ~In("lineage")'
  BY StaysIn
<1> QED  BY <1>1, <1>2, <1>3, InLineage, PTL DEF Spec, Lineages!Spec

\* Writers admit exactly what readers will count.
THEOREM WritersAreReaders == ASSUME RecordsAssumption PROVE Spec => WritersMatchReaders
<1>1. Lineages!LineageAssumption
  BY DEF RecordsAssumption
<1>2. Lineages!Spec => Lineages!WritersMatchReaders
  BY <1>1, WritersAndReadersAgree
<1>3. ~In("lineage") /\ [AllNext]_vars
        => [component = "lineage" /\ log' # log => (Lineages!LastIsAuthorized <=> Lineages!LastIsMember)]_vars
  BY DEF In
<1>4. In("lineage") /\ [AllNext]_vars /\ [Lineages!LastIsAuthorized <=> Lineages!LastIsMember]_log
        => [component = "lineage" /\ log' # log => (Lineages!LastIsAuthorized <=> Lineages!LastIsMember)]_vars
  OBVIOUS
<1>5. ~In("lineage") /\ [AllNext]_vars => ~In("lineage")'
  BY StaysIn
<1> QED  BY <1>2, <1>3, <1>4, <1>5, InLineage, PTL
     DEF Spec, Lineages!Spec, WritersMatchReaders, Lineages!WritersMatchReaders
================================================================================
