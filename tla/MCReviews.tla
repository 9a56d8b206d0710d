------------------------------- MODULE MCReviews -------------------------------
(***************************************************************************)
(* The reviews of a run: the rounds that ask for them and answer for what  *)
(* they found, and the exchange that brings one back from a conversation.  *)
(* A verdict is all the rounds see of an exchange, and every verdict is    *)
(* possible there; so the two share no state, and every behaviour is one   *)
(* of a single component, chosen at the start, the other's state unused.   *)
(***************************************************************************)
EXTENDS Naturals

CONSTANTS Candidate, Provider, Handler, MaxRequest, MaxReceipt, MaxAnswer,
          Digest, Material,
          Implementors, ReviewCycles, Allowance, Code, Proof

\* Reviews 1 and 2 say the same, 3 says otherwise.
MCDigest == {1, 2}
MCMaterial == [d \in MCDigest |-> d > 1]

VARIABLES review,
          minted, about, asked, recorded, posted, answers, receipts, store,
          engine, relay, released,
          at, position, ineligible, cycle, awaiting, tree, proven, open, completion,
          last, preceding, replanned, tally, refusal, outcome

\* With its theorems, which speak of this instance too.
Exchange == INSTANCE ExchangeProofs WITH open <- recorded
Rounds   == INSTANCE CandidateRounds

ASSUME ReviewsAssumption == Exchange!ExchangeAssumption /\ Rounds!RoundsAssumption

exchange == <<minted, about, asked, recorded, posted, answers, receipts,
              store, engine, relay, released>>
rounds   == <<at, position, ineligible, cycle, awaiting, tree, proven, open, completion,
              last, preceding, replanned, tally, refusal, outcome>>
vars     == <<review, exchange, rounds>>

NoExchange == /\ minted = "unused"
              /\ about = "unused"
              /\ asked = "unused"
              /\ recorded = "unused"
              /\ posted = "unused"
              /\ answers = "unused"
              /\ receipts = "unused"
              /\ store = "unused"
              /\ engine = "unused"
              /\ relay = "unused"
              /\ released = "unused"

NoRounds == /\ at = "unused"
            /\ position = "unused"
            /\ ineligible = "unused"
            /\ cycle = "unused"
            /\ awaiting = "unused"
            /\ tree = "unused"
            /\ proven = "unused"
            /\ open = "unused"
            /\ completion = "unused"
            /\ last = "unused"
            /\ preceding = "unused"
            /\ replanned = "unused"
            /\ tally = "unused"
            /\ refusal = "unused"
            /\ outcome = "unused"

Init == \/ review = "exchange" /\ Exchange!Init /\ NoRounds
        \/ review = "rounds"   /\ Rounds!Init   /\ NoExchange

Next == \/ review = "exchange" /\ Exchange!Next /\ UNCHANGED <<review, rounds>>
        \/ review = "rounds"   /\ Rounds!Next   /\ UNCHANGED <<review, exchange>>

Spec == Init /\ [][Next]_vars

\* A relayed review has its receipt on the conversation (ReviewExchange).
RelayedIsPublished == review = "exchange" => Exchange!RelayedIsPublished

\* A review acquires one receipt, from one handler (ReviewExchange).
OneReceipt == review = "exchange" => Exchange!OneReceipt

\* The exchange implements its promise (ReviewExchange, ReviewPromise).
ImplementsReviewPromise ==
  /\ review = "exchange" => Exchange!Promise!Init
  /\ [][review = "exchange" => Exchange!Promise!Next \/ UNCHANGED Exchange!Promise!vars]_vars

\* A reviewer is asked about a candidate that answers every open finding
\* (CandidateRounds).
ReviewedIsAnswered == review = "rounds" => Rounds!ReviewedIsAnswered

\* An attempt that was counted is committed before anybody else is asked
\* (CandidateRounds).
CountedIsCommitted == review = "rounds" => Rounds!CountedIsCommitted

\* A run never goes in a circle (CandidateRounds).
RunAdvances == [][review = "rounds" => Rounds!Before(Rounds!Advance, Rounds!Advance')]_vars
===============================================================================
