--------------------------- MODULE ReviewExchange ---------------------------
(***************************************************************************)
(* The review of a task's candidate over a GitHub conversation             *)
(* (internal/ghbridge, internal/reviewstore): the engine's reviewer turn   *)
(* (Runner.Run), the relay that a terminal may submit a review through     *)
(* (AcceptRelayedReview, served by goroutines of the control process), the *)
(* durable record of what is owed (ExchangeLog, one file a request) and of *)
(* what answered it (reviewstore.Store, one file a request, replaced by a  *)
(* rename), and the conversation itself with the people who write to it.   *)
(*                                                                         *)
(* The task's lease admits one engine at a time.  The store's lock is of   *)
(* one process, so an engine and a relay may both read a record before     *)
(* either replaces it.  Any call may fail, before or after its effect, and *)
(* either process may die between any two steps.                           *)
(***************************************************************************)
EXTENDS Naturals, FiniteSets, FiniteSetsExt

CONSTANTS Candidate,   \* what a review may be about
          Provider,    \* the reviewers the workflow may assign
          Handler,     \* the relay submissions the control process serves
          MaxRequest,  \* bound: how many requests are ever minted
          MaxReceipt,  \* bound: receipts of one digest posted for a request
          MaxAnswer,   \* bound: reviews on the conversation at one time
          Digest,      \* the canonical artifacts, in the order of their bytes
          Material     \* what of each artifact the engine acts on

ExchangeAssumption == /\ MaxRequest \in Nat \ {0}
                      /\ {MaxReceipt, MaxAnswer} \subseteq Nat
                      /\ Digest \subseteq Nat
                      /\ IsFiniteSet(Digest)
                      /\ Candidate # {}
                      /\ Provider # {}

VARIABLES minted,     \* how many request ids this task has used
          about,      \* about[r]: candidate, provider, pinned principals
          asked,      \* the requests ever recorded (history)
          open,       \* the requests whose exchange record is on disk
          posted,     \* the requests posted to the conversation
          answers,    \* the reviews of the permitted account on it
          receipts,   \* how often the publisher posted a relay's receipt
          store,      \* the review store's file of each request
          engine,     \* the reviewer turn
          relay,      \* relay[h]: a submission being served
          released    \* the verdicts turns returned (history)

owed     == <<minted, about, asked, open>>
mailbox  == <<posted, answers, receipts>>
vars     == <<owed, mailbox, store, engine, relay, released>>

Request == 1..MaxRequest
Answer  == Request \X Digest

NoReview == [digest |-> 0, evidence |-> {}]
Evidence == {"github", "staged", "relayed"}
Delivered(rec) == rec.evidence \cap {"github", "relayed"} # {}

NoTurn    == [pc |-> "idle", req |-> 0, have |-> 0, got |-> 0, read |-> {},
              cand |-> CHOOSE c \in Candidate : TRUE,
              prov |-> CHOOSE p \in Provider : TRUE]
NoHandler == [pc |-> "idle", req |-> 1, dig |-> 0, retry |-> FALSE, read |-> {}]

Unwritten == [cand |-> CHOOSE c \in Candidate : TRUE,
              prov |-> CHOOSE p \in Provider : TRUE, pinned |-> FALSE]

\* A task starts with nothing owed, or owing a request that an earlier version
\* recorded without the accounts that may answer and publish.
Init == /\ minted \in {0, 1}
        /\ about = [r \in Request |-> Unwritten]
        /\ asked = 1..minted
        /\ open = asked
        /\ posted = asked
        /\ answers = {}
        /\ receipts = [a \in Answer |-> 0]
        /\ store = [r \in Request |-> NoReview]
        /\ engine = NoTurn
        /\ relay = [h \in Handler |-> NoHandler]
        /\ released = {}

----------------------------------------------------------------------------
\* The reviewer turn.

\* The turn ends and reports: the request stands, was not replaced, is in
\* conflict or could not be recorded.  It releases nothing.
EndTurn == engine' = NoTurn

\* Run reads what the task owes before anything else.  More than one request
\* owed is a conflict the turn ends at, with nothing changed.
Resolve(c, p) ==
  /\ engine.pc = "idle"
  /\ Cardinality(open) <= 1
  /\ LET have == IF open = {} THEN 0 ELSE CHOOSE r \in open : TRUE
     IN engine' = [NoTurn EXCEPT !.cand = c, !.prov = p, !.have = have,
                     !.pc = IF have # 0 /\ about[have].cand = c
                              THEN "consult" ELSE "publish"]
  /\ UNCHANGED <<owed, mailbox, store, relay, released>>

\* storedReviewFor: one read of the store decides.  A delivered review answers
\* the turn, a staged one keeps the request standing.
Consult ==
  /\ engine.pc = "consult"
  /\ LET rec == store[engine.have]
         same == about[engine.have].prov = engine.prov
                   /\ about[engine.have].pinned
     IN \/ /\ rec # NoReview
           /\ Delivered(rec)
           /\ engine' = [NoTurn EXCEPT !.pc = "discharge", !.req = engine.have,
                                       !.got = rec.digest]
        \/ /\ rec # NoReview
           /\ ~Delivered(rec)
           /\ EndTurn
        \/ /\ rec = NoReview
           /\ engine' = IF same
                          THEN [NoTurn EXCEPT !.pc = "wait", !.req = engine.have]
                          ELSE [engine EXCEPT !.pc = "publish"]
        \/ EndTurn         \* the store, or the conversation, is not to be read
  /\ UNCHANGED <<owed, mailbox, store, relay, released>>

\* A request is minted and posted.  When posting failed, or its answer was
\* lost, or it named no author, the turn ends: what it knew of the request is
\* gone, and the predecessor is the one still owed.
Publish ==
  /\ engine.pc = "publish"
  /\ minted < MaxRequest
  /\ minted' = minted + 1
  /\ about' = [about EXCEPT ![minted + 1] =
                 [cand |-> engine.cand, prov |-> engine.prov, pinned |-> TRUE]]
  /\ \/ /\ engine' = [NoTurn EXCEPT !.pc = "record", !.have = engine.have,
                                       !.req = minted + 1]
        /\ posted' = posted \cup {minted + 1}
     \/ /\ EndTurn
        /\ posted' \in {posted, posted \cup {minted + 1}}
  /\ UNCHANGED <<asked, open, answers, receipts, store, relay, released>>

\* The request is recorded before anything waits on it.
Record ==
  /\ engine.pc = "record"
  /\ \/ /\ asked' = asked \cup {engine.req}
        /\ open' = open \cup {engine.req}
        /\ engine' = [engine EXCEPT !.pc = IF engine.have = 0 THEN "wait"
                                                              ELSE "retire"]
     \/ /\ EndTurn
        /\ UNCHANGED <<asked, open>>
  /\ UNCHANGED <<minted, about, mailbox, store, relay, released>>

\* Its predecessor is retired only then.  If that fails, both are owed and
\* neither is acted through.
Retire ==
  /\ engine.pc = "retire"
  /\ \/ /\ open' = open \ {engine.have}
        /\ engine' = [engine EXCEPT !.pc = "withdraw"]
     \/ /\ EndTurn
        /\ UNCHANGED open
  /\ UNCHANGED <<minted, about, asked, mailbox, store, relay, released>>

\* Its withdrawal is posted, or is not: nobody in the exchange reads it.
Withdraw ==
  /\ engine.pc = "withdraw"
  /\ engine' = [engine EXCEPT !.pc = "wait", !.have = 0]
  /\ UNCHANGED <<owed, mailbox, store, relay, released>>

\* A poll of the conversation.  The reviews bound to the request settle it when
\* they agree in what the engine acts on, whichever of them is first in bytes;
\* otherwise the turn ends with a conflict.
Poll ==
  /\ engine.pc = "wait"
  /\ LET seen == {d \in Digest : <<engine.req, d>> \in answers}
     IN /\ seen # {}
        /\ \/ /\ \A d, e \in seen : Material[d] = Material[e]
              /\ engine' = [engine EXCEPT !.pc = "accept", !.got = Min(seen)]
           \/ /\ \E d, e \in seen : Material[d] # Material[e]
              /\ EndTurn
  /\ UNCHANGED <<owed, mailbox, store, relay, released>>

\* The wait ends at its deadline, with its caller, or on an unreadable mailbox.
StopWaiting ==
  /\ engine.pc = "wait"
  /\ EndTurn
  /\ UNCHANGED <<owed, mailbox, store, relay, released>>

\* Fault: a review off the conversation replaces whatever answered before.
AcceptOver ==
  /\ engine.pc = "accept"
  /\ store' = [store EXCEPT ![engine.req] =
                  [digest |-> engine.got, evidence |-> {"github"}]]
  /\ engine' = [engine EXCEPT !.pc = "discharge"]
  /\ UNCHANGED <<owed, mailbox, relay, released>>

\* Store.Accept of a review off the conversation: created exclusively, or else
\* the record that exists is read, and is replaced in a later step.
Accept ==
  /\ engine.pc = "accept"
  /\ LET rec == store[engine.req]
     IN \/ /\ rec = NoReview
           /\ store' = [store EXCEPT ![engine.req] =
                          [digest |-> engine.got, evidence |-> {"github"}]]
           /\ engine' = [engine EXCEPT !.pc = "discharge"]
        \/ /\ rec # NoReview
           /\ rec.digest = engine.got
           /\ engine' = IF "github" \in rec.evidence
                          THEN [engine EXCEPT !.pc = "discharge"]
                          ELSE [engine EXCEPT !.pc = "rewrite",
                                              !.read = rec.evidence]
           /\ UNCHANGED store
        \/ /\ EndTurn          \* another digest is a conflict; a write may fail
           /\ UNCHANGED store
  /\ UNCHANGED <<owed, mailbox, relay, released>>

Rewrite ==
  /\ engine.pc = "rewrite"
  /\ \/ /\ store' = [store EXCEPT ![engine.req].evidence =
                       engine.read \cup {"github"}]
        /\ engine' = [engine EXCEPT !.pc = "discharge", !.read = {}]
     \/ /\ EndTurn
        /\ UNCHANGED store
  /\ UNCHANGED <<owed, mailbox, relay, released>>

\* The verdict is released only once its obligation is discharged.
Discharge ==
  /\ engine.pc = "discharge"
  /\ \/ /\ open' = open \ {engine.req}
        /\ released' = released \cup {<<engine.req, engine.got>>}
     \/ UNCHANGED <<open, released>>
  /\ EndTurn
  /\ UNCHANGED <<minted, about, asked, mailbox, store, relay>>

\* The engine's process dies in its turn; another turn starts from the disk.
CrashEngine ==
  /\ engine.pc # "idle"
  /\ EndTurn
  /\ UNCHANGED <<owed, mailbox, store, relay, released>>

----------------------------------------------------------------------------
\* The relay.

GoTo(h, step) == relay' = [relay EXCEPT ![h].pc = step]
EndRelay(h) == relay' = [relay EXCEPT ![h] = NoHandler]

\* Store.Accept and Store.Complete hold the lock of the process from their
\* read to their rename.
StoreFree(h) == \A g \in Handler \ {h} :
                  /\ relay[g].pc \in {"restage", "finish"}
                  => relay[g].req # relay[h].req

\* A submission is refused unless its request is the one review the task owes.
Submit(h, r, d) ==
  /\ relay[h].pc = "idle"
  /\ open = {r}
  /\ relay' = [relay EXCEPT ![h] = [NoHandler EXCEPT !.pc = "look", !.req = r,
                                                     !.dig = d]]
  /\ UNCHANGED <<owed, mailbox, store, engine, released>>

\* A review staged already and not delivered makes this a retry.
Look(h) ==
  /\ relay[h].pc = "look"
  /\ LET rec == store[relay[h].req]
     IN relay' = [relay EXCEPT ![h].pc = "stage",
                    ![h].retry = rec # NoReview /\ ~Delivered(rec)]
  /\ UNCHANGED <<owed, mailbox, store, engine, released>>

\* Fault: a retry posts without looking for the receipt it may have posted.
AfterStageAnew(h) == "post"

AfterStage(h) == IF relay[h].retry THEN "reconcile" ELSE "post"

\* Store.Accept with staged evidence.
Stage(h) ==
  /\ relay[h].pc = "stage"
  /\ StoreFree(h)
  /\ LET rec == store[relay[h].req]
     IN \/ /\ rec = NoReview
           /\ store' = [store EXCEPT ![relay[h].req] =
                          [digest |-> relay[h].dig, evidence |-> {"staged"}]]
           /\ GoTo(h, AfterStage(h))
        \/ /\ rec # NoReview
           /\ rec.digest # relay[h].dig \/ Delivered(rec)
           /\ IF rec.digest = relay[h].dig /\ rec.evidence = {"github"}
                THEN relay' = [relay EXCEPT ![h].pc = "restage",
                                            ![h].read = rec.evidence]
                ELSE EndRelay(h)
           /\ UNCHANGED store
        \/ /\ rec # NoReview
           /\ rec.digest = relay[h].dig
           /\ ~Delivered(rec)
           /\ GoTo(h, AfterStage(h))
           /\ UNCHANGED store
  /\ UNCHANGED <<owed, mailbox, engine, released>>

\* The staged row beside a delivered one; the submission is then answered as
\* delivered and posts nothing.
Restage(h) ==
  /\ relay[h].pc = "restage"
  /\ store' \in {store, [store EXCEPT ![relay[h].req].evidence =
                           relay[h].read \cup {"staged"}]}
  /\ EndRelay(h)
  /\ UNCHANGED <<owed, mailbox, engine, released>>

\* Fault: any receipt of this review on the conversation proves the delivery.
ReconcileAnyone(h) ==
  /\ relay[h].pc = "reconcile"
  /\ \E step \in {"complete", "post"} : GoTo(h, step)
  /\ UNCHANGED <<owed, mailbox, store, engine, released>>

\* relayPublicationOf: a retry reads the conversation for a receipt of this
\* review.  The publisher's own proves the delivery, and what others posted is
\* passed over.  Of an unpinned request the two cannot be told apart: the retry
\* ends at either.
Reconcile(h) ==
  /\ relay[h].pc = "reconcile"
  /\ LET a == <<relay[h].req, relay[h].dig>>
         pinned == about[relay[h].req].pinned
     IN \/ /\ pinned
           /\ GoTo(h, IF receipts[a] > 0 THEN "complete" ELSE "post")
        \/ /\ ~pinned
           /\ receipts[a] = 0
           /\ GoTo(h, "post")
        \/ EndRelay(h)
  /\ UNCHANGED <<owed, mailbox, store, engine, released>>

\* The receipt is posted; the call may fail before it is, or after.
Post(h) ==
  /\ relay[h].pc = "post"
  /\ LET a == <<relay[h].req, relay[h].dig>>
         sent == [receipts EXCEPT ![a] = @ + 1]
     IN \/ /\ receipts[a] < MaxReceipt
           /\ receipts' = sent
           /\ GoTo(h, "complete") \/ EndRelay(h)
        \/ /\ UNCHANGED receipts
           /\ EndRelay(h)
  /\ UNCHANGED <<owed, posted, answers, store, engine, released>>

\* Store.Complete: the staged row becomes a delivered one.  A row that another
\* publication completed is a conflict.
Complete(h) ==
  /\ relay[h].pc = "complete"
  /\ StoreFree(h)
  /\ LET rec == store[relay[h].req]
     IN \/ /\ "staged" \in rec.evidence
           /\ relay' = [relay EXCEPT ![h].pc = "finish", ![h].read = rec.evidence]
        \/ EndRelay(h)
  /\ UNCHANGED <<owed, mailbox, store, engine, released>>

Finish(h) ==
  /\ relay[h].pc = "finish"
  /\ store' \in {store, [store EXCEPT ![relay[h].req].evidence =
                           (relay[h].read \ {"staged"}) \cup {"relayed"}]}
  /\ EndRelay(h)
  /\ UNCHANGED <<owed, mailbox, engine, released>>

\* The control process dies with every submission it was serving.
CrashControl ==
  /\ \E h \in Handler : relay[h].pc # "idle"
  /\ relay' = [h \in Handler |-> NoHandler]
  /\ UNCHANGED <<owed, mailbox, store, engine, released>>

----------------------------------------------------------------------------
\* The conversation: the permitted account posts a review of a request that is
\* there, or removes one.
Review(r, d) ==
  /\ r \in posted
  /\ \/ /\ <<r, d>> \in answers
        /\ answers' = answers \ {<<r, d>>}
     \/ /\ Cardinality(answers) < MaxAnswer
        /\ answers' = answers \cup {<<r, d>>}
  /\ UNCHANGED <<owed, posted, receipts, store, engine, relay, released>>

EngineNext == \/ \E c \in Candidate, p \in Provider : Resolve(c, p)
              \/ Consult \/ Publish \/ Record \/ Retire \/ Withdraw
              \/ Poll \/ StopWaiting \/ Accept \/ Rewrite \/ Discharge
              \/ CrashEngine

RelayNext == \/ \E h \in Handler :
                  \/ \E r \in Request, d \in Digest : Submit(h, r, d)
                  \/ Look(h) \/ Stage(h) \/ Restage(h) \/ Reconcile(h)
                  \/ Post(h) \/ Complete(h) \/ Finish(h)
             \/ CrashControl

Next == \/ EngineNext
        \/ RelayNext
        \/ \E r \in Request, d \in Digest : Review(r, d)

Spec == Init /\ [][Next]_vars

----------------------------------------------------------------------------
TypeOK ==
  /\ minted \in 0..MaxRequest
  /\ about \in [Request -> [cand : Candidate, prov : Provider, pinned : BOOLEAN]]
  /\ asked \subseteq 1..minted
  /\ open \subseteq asked
  /\ posted \subseteq 1..minted
  /\ answers \subseteq Answer
  /\ receipts \in [Answer -> 0..MaxReceipt]
  /\ store \in [Request -> [digest : Digest \cup {0}, evidence : SUBSET Evidence]]
  /\ engine \in [pc : {"idle", "consult", "publish", "record", "retire", "withdraw",
                       "wait", "accept", "rewrite", "discharge"},
                 req : 0..MaxRequest, have : 0..MaxRequest, got : Digest \cup {0},
                 read : SUBSET Evidence, cand : Candidate, prov : Provider]
  /\ relay \in [Handler -> [pc : {"idle", "look", "stage", "restage", "reconcile",
                                  "post", "complete", "finish"},
                            req : Request, dig : Digest \cup {0},
                            retry : BOOLEAN, read : SUBSET Evidence]]
  /\ released \subseteq Answer

\* A review counts as delivered by the relay only when the publisher's own
\* receipt of that very review stands on the conversation, and nobody else's
\* (relay.go:360).
RelayedIsPublished ==
  \A r \in Request : "relayed" \in store[r].evidence
                       => receipts[<<r, store[r].digest>>] > 0

\* However often a submission is retried, across lost answers, crashes and
\* restarts, a review acquires one receipt (relay.go:242).
OneReceipt == \A a \in Answer : receipts[a] <= 1

\* What of each request the promise can see: the answer that was delivered.
Delivery == [r \in {q \in Request : Delivered(store[q])} |-> store[r].digest]

Promise == INSTANCE ReviewPromise WITH owed <- open, answer <- Delivery,
                                       told <- released

\* The exchange implements its promise: a request is owed until its one answer
\* is told or a later request is owed in its place (runner.go:188).
ImplementsReviewPromise == Promise!Spec
=============================================================================
