---------------------------- MODULE CandidateRounds ----------------------------
(***************************************************************************)
(* The rounds of one run: implementors taken in order, each given review   *)
(* cycles, each cycle an invocation, its account against the open review   *)
(* and an independent review (internal/workflow/engine.go, implement and   *)
(* runCandidate; implementer_incomplete.go; reviewconsistency.go).         *)
(*                                                                         *)
(* A candidate is the set of findings' paths it differs in, so a change    *)
(* finding moved iff its membership changed since the review raised it.    *)
(* The run is sequential; what it is answered, and every failure of a call *)
(* it makes, is a choice.  Inspections and resumption are left out.        *)
(***************************************************************************)
EXTENDS Naturals

CONSTANTS Implementors,  \* how many are configured
          ReviewCycles,  \* of each of them (Workflow.ReviewCycles)
          Allowance,     \* incomplete attempts (maxIncompleteImplementerAttempts)
          Code, Proof    \* findings that want a change, and a check's evidence

RoundsAssumption == /\ Implementors \in Nat /\ ReviewCycles \in Nat
                    /\ Allowance \in Nat \ {0}
                    /\ Code \cap Proof = {}

VARIABLES at,          \* where the run is
          position,    \* the implementor it is with
          ineligible,  \* those that failed the candidate's review leg
          cycle,       \* the review cycle it serves
          awaiting,    \* a candidate that is owed its review comes first
          tree,        \* the candidate
          proven,      \* proofs retained for each candidate
          open,        \* the review that is not answered yet
          completion,  \* the cycle's completion obligation
          last,        \* the candidate the previous cycle settled on, if it did
          preceding,   \* the attempt before this one, in its cycle
          replanned,   \* a production-scope refusal went to the architect
          tally,       \* how implementors ended
          refusal,     \* history: what the last review refused, undecided
          outcome

vars == <<at, position, ineligible, cycle, awaiting, tree, proven, open, completion, last, preceding, replanned, tally, refusal, outcome>>

Finding == Code \cup Proof
NoReview == [tree |-> {}, evidence |-> {}, findings |-> {}, stands |-> FALSE]
NoTree   == [cycle |-> 0, tree |-> {}]  \* no candidate's: cycles start at 1

Committed(status, attempts) == [status |-> status, attempts |-> attempts]

\* "bound" to the open review and the operative plan; "committed" is its newest
\* checkpoint.
Completion(n) == [bound |-> TRUE, cycle |-> n, retained |-> {}, operations |-> FALSE,
                  attempts |-> 0, route |-> "none", continuing |-> FALSE,
                  committed |-> Committed("none", 0)]

\* What binds no more is never consulted again.
Unbound == [Completion(0) EXCEPT !.bound = FALSE]

Init == /\ at = "select"
        /\ position = 0
        /\ ineligible \in SUBSET (1..Implementors)
        /\ cycle = 1
        /\ awaiting \in BOOLEAN
        /\ tree = {}
        /\ proven = [t \in SUBSET Code |-> {}]
        /\ open = NoReview
        /\ completion = Unbound
        /\ last = {}
        /\ preceding = NoTree
        /\ replanned = FALSE
        /\ tally = [failed |-> FALSE, unspent |-> FALSE, unavailable |-> FALSE]
        /\ refusal = NoReview
        /\ outcome = "none"

----------------------------------------------------------------------------
\* The obligation's own rules.

IsOpen(c) == c.route = "none" \/ c.continuing

Exhausted(c) == c.attempts >= Allowance

Owed(c) == open.findings \ c.retained

\* Fault: an attempt that left only operations open is not counted.
CountOwedOnly(c, route) ==
  [c EXCEPT !.route = route, !.continuing = TRUE,
            !.attempts = IF Owed(c) = {} THEN @ ELSE @ + 1]

Count(c, route) == [c EXCEPT !.route = route, !.attempts = @ + 1,
                             !.continuing = c.attempts + 1 < Allowance]

Keep(c, route)  == [c EXCEPT !.route = route, !.continuing = TRUE]
Close(c, route) == [c EXCEPT !.route = route, !.continuing = FALSE]

\* establishCycleCompletion: one obligation per review, cycle and plan attempt.
Established == IF completion.bound /\ completion.cycle = cycle /\ IsOpen(completion)
               THEN completion
               ELSE Completion(cycle)

----------------------------------------------------------------------------
\* Where a step leads.

GoTo(place) == at' = place /\ UNCHANGED outcome
End(how)    == at' = "over" /\ outcome' = how

NextCycle == cycle' = cycle + 1 /\ GoTo("cycle")

\* No route is taken on a checkpoint that is not committed first.
Checkpoint(c, status, Then) ==
  \/ completion' = [c EXCEPT !.committed = Committed(status, c.attempts)] /\ Then
  \/ completion' = c /\ End("unrecorded")

\* Fault: the retry is taken before its checkpoint.
RetryUnrecorded(c) == /\ completion' = c
                      /\ IF Exhausted(c) THEN End("incomplete") ELSE GoTo("cycle")

\* An incomplete attempt is counted, and its cycle served again.
Retry(c) == IF Exhausted(c) THEN Checkpoint(c, "exhausted", End("incomplete"))
            ELSE Checkpoint(c, "live", GoTo("cycle"))

\* Nothing of the review stands, nor of the obligation it made.
Forget == open' = NoReview /\ completion' = Unbound

ArchitectFails == GoTo("failed") \/ End("blocked")

----------------------------------------------------------------------------
\* Implementors, in their order.

\* runCandidate: an obligation that is still live is continued in its cycle.
Select ==
  /\ at = "select" /\ position < Implementors
  /\ position' = position + 1
  /\ position' \notin ineligible
  /\ cycle' = IF completion.bound /\ completion.continuing THEN completion.cycle ELSE 1
  /\ last' = {}
  /\ preceding' = NoTree
  /\ GoTo("cycle")
  /\ UNCHANGED <<ineligible, awaiting, tree, proven, open, completion,
                 replanned, tally, refusal>>

Skip == /\ at = "select" /\ position < Implementors
        /\ position' = position + 1
        /\ position' \in ineligible
        /\ UNCHANGED <<at, ineligible, cycle, awaiting, tree, proven, open, completion, last, preceding, replanned, tally, refusal,
                       outcome>>

NoneRemains ==
  /\ at = "select" /\ position = Implementors
  /\ End(CASE tally.unavailable /\ ~tally.failed                     -> "blocked"
           [] tally.failed /\ ~tally.unspent /\ ~tally.unavailable   -> "not_converged"
           [] OTHER                                                  -> "failed")
  /\ UNCHANGED <<position, ineligible, cycle, awaiting, tree, proven, open, completion, last, preceding, replanned, tally, refusal>>

\* handOffCycle: an ordinary error passes to the next implementor, counted when
\* it leaves the cycle's obligation incomplete.
HandOff ==
  LET c == completion
      handed == c.bound /\ c.continuing /\ c.route = "ordinary_error"
                  /\ \E next \in (position + 1)..Implementors : next \notin ineligible
  IN /\ at = "failed"
     /\ tally' = [tally EXCEPT !.failed = TRUE, !.unspent = TRUE]
     /\ IF ~handed THEN UNCHANGED <<completion>> /\ GoTo("select")
        ELSE IF Owed(c) = {} /\ ~c.operations
        THEN /\ completion' = Keep(c, "error_handoff")
             /\ GoTo("select")
        ELSE LET counted == Count(c, "error_handoff")
             IN IF Exhausted(counted) THEN Checkpoint(counted, "exhausted", End("incomplete"))
                ELSE Checkpoint(counted, "live", GoTo("select"))
     /\ UNCHANGED <<position, ineligible, cycle, awaiting, tree, proven, open,
                    last, preceding, replanned, refusal>>

\* Its cycles are spent: it is a failure of its own kind, and hands nothing off.
CyclesSpent ==
  /\ at = "cycle" /\ cycle > ReviewCycles
  /\ tally' = [tally EXCEPT !.failed = TRUE]
  /\ GoTo("select")
  /\ UNCHANGED <<position, ineligible, cycle, awaiting, tree, proven, open, completion, last, preceding, replanned, refusal>>

----------------------------------------------------------------------------
\* One invocation.

ReviewFirst ==
  /\ at = "cycle" /\ cycle = 1 /\ awaiting /\ cycle <= ReviewCycles
  /\ awaiting' = FALSE
  /\ GoTo("captured")
  /\ UNCHANGED <<position, ineligible, cycle, tree, proven, open, completion,
                 last, preceding, replanned, tally, refusal>>

\* serveCycleCompletion: the obligation is established before any runner.
Serve ==
  /\ at = "cycle" /\ cycle <= ReviewCycles /\ ~(cycle = 1 /\ awaiting)
  /\ completion' = IF open.findings = {} THEN completion ELSE Established
  /\ GoTo("ask")
  /\ UNCHANGED <<position, ineligible, cycle, awaiting, tree, proven, open, last, preceding, replanned, tally, refusal>>

\* What an invocation may say.  A response that discharges nothing is like none,
\* unless another one is retained; what it says counts while a review is open.
Replies ==
  {r \in [returned : BOOLEAN, operations : BOOLEAN,
          says : [Finding -> {"none", "good", "other", "dispute"}]] :
     /\ r.operations => r.returned
     /\ open.findings = {} => ~r.returned
     /\ \A f \in Finding : /\ f \notin open.findings => r.says[f] = "none"
                          /\ r.says[f] = "other" => f \in completion.retained}

\* What a finding is judged by: a retained response is not owed again, and a
\* different one conflicts with it.  Without a settled invocation there is no
\* obligation that retains any.
Said(r, f) == IF ~r.returned \/ f \notin completion.retained THEN r.says[f]
              ELSE IF r.says[f] \in {"none", "good"} THEN "good" ELSE "conflict"

Moved(f, t) == (f \in t) # (f \in open.tree)

\* retainReturnedResponses, of an invocation that returned and erred: only the
\* unsettled are judged, and no evidence is there to discharge any.
Unsettled(r, t) ==
  LET judged == {f \in open.findings : f \notin completion.retained \/ Said(r, f) = "conflict"}
  IN [completion EXCEPT !.retained = (@ \ judged) \cup
                          {f \in judged \cap Code : Said(r, f) = "good" /\ Moved(f, t)},
                        !.operations = r.operations]

Served(c) == c.bound /\ c.cycle = cycle

\* The next implementor is tried; the block is committed before it is returned.
Rebind(c, Then) ==
  IF Served(c) THEN Checkpoint(Keep(c, "provider_rebound"), "blocked", Then)
  ELSE completion' = c /\ Then

\* No runner, or no execution service for it: nothing was invoked.
NoRunner ==
  /\ at = "ask"
  /\ \/ Rebind(completion, GoTo("failed")) /\ UNCHANGED tally
     \/ /\ Rebind(completion, GoTo("select"))
        /\ tally' = [tally EXCEPT !.unavailable = TRUE]
  /\ UNCHANGED <<position, ineligible, cycle, awaiting, tree, proven, open, last,
                 preceding, replanned, refusal>>

\* It leaves the worktree as it likes, whatever it answers.
Errs ==
  /\ at = "ask"
  /\ \E r \in Replies :
       /\ tree' \in SUBSET Code
       /\ LET c == IF r.returned THEN Unsettled(r, tree') ELSE completion
          IN \/ /\ Rebind(c, GoTo("select"))
                /\ tally' = [tally EXCEPT !.unavailable = TRUE]
             \/ /\ completion' = IF Served(c) THEN Keep(c, "ordinary_error") ELSE c
                /\ GoTo("failed")
                /\ UNCHANGED <<tally>>
  /\ UNCHANGED <<position, ineligible, cycle, awaiting, proven, open, last,
                 preceding, replanned, refusal>>

----------------------------------------------------------------------------
\* What a returned invocation left is captured, validated, held to the plan's
\* scope and audited before anything is accounted.

Captured(t) == \/ at = "captured" /\ t = tree
               \/ at = "ask" /\ t \in SUBSET Code

Invalid ==
  /\ \E t \in SUBSET Code : Captured(t) /\ tree' = t
  /\ GoTo("failed") \/ End("failed")
  /\ UNCHANGED <<position, ineligible, cycle, awaiting, proven, open, completion, last,
                 preceding, replanned, tally, refusal>>

\* Files the plan does not name: the architect plans again, once, and the same
\* implementor starts over; the material owes no review.
RefuseScope ==
  /\ \E t \in SUBSET Code : Captured(t) /\ tree' = t
  /\ replanned' = TRUE
  /\ Forget
  /\ \/ /\ ~replanned
        /\ cycle' = 1
        /\ last' = {}
        /\ preceding' = NoTree
        /\ refusal' = NoReview
        /\ GoTo("cycle")
     \/ /\ \E how \in {"failed", "completed"} : End(how)
        /\ UNCHANGED <<cycle, last, preceding, refusal>>
  /\ UNCHANGED <<position, ineligible, awaiting, proven, tally>>

----------------------------------------------------------------------------
\* The account of the open review's findings, for a candidate t, of a reply r.
\* A proof is found where a check it cites ran and its record was read back.

\* Fault: what is retained is not judged again.
DischargedOnce(r, t, proofs, f) ==
  \/ r.returned /\ f \in completion.retained /\ Said(r, f) = "good"
  \/ /\ Said(r, f) = "good"
     /\ IF f \in Code THEN Moved(f, t) ELSE f \in proofs

\* Every finding is judged again for this candidate, retained or not.
Discharged(r, t, proofs, f) == /\ Said(r, f) = "good"
                               /\ IF f \in Code THEN Moved(f, t) ELSE f \in proofs

Open(r, t, proofs) == {f \in open.findings : ~Discharged(r, t, proofs, f)}

Disputed(r) == \E f \in open.findings : Said(r, f) = "dispute"

\* Without a settled invocation there is no obligation to account to.
Accounted(r, t, proofs) ==
  IF ~r.returned THEN completion
  ELSE [completion EXCEPT !.retained = open.findings \ Open(r, t, proofs),
                          !.operations = r.operations]

Account(r, t, proofs) ==
  /\ \A f \in proofs : Said(r, f) = "good"
  /\ tree' = t
  /\ proven' = [proven EXCEPT ![t] = @ \cup proofs]
  /\ preceding' = [cycle |-> cycle, tree |-> t]
  /\ UNCHANGED <<position, ineligible, awaiting, open, replanned, tally>>

\* The class of a finding is disputed: the architect decides, and the cycle goes
\* on under the plan attempt it adopts.
Dispute(r, t, proofs) ==
  LET c == Accounted(r, t, proofs)
  IN /\ Account(r, t, proofs)
     /\ Disputed(r)
     /\ \/ /\ completion' = IF r.returned THEN Close(c, "dispute_escalation") ELSE c
           /\ ArchitectFails
           /\ UNCHANGED <<cycle, refusal>>
        \/ /\ r.returned
           /\ Retry(Count(c, "incomplete_retry"))
           /\ refusal' = NoReview
           /\ UNCHANGED cycle
        \/ /\ ~r.returned
           /\ completion' = Unbound
           /\ refusal' = NoReview
           /\ NextCycle
     /\ UNCHANGED last

\* The attempt is no progress, and asking again would be none: nothing changed
\* and no change is owed, or evidence was produced where code was asked for.
Futile(r, t, proofs) ==
  LET owed      == Open(r, t, proofs)
      evidenced == (open.findings \cap Proof) \ owed
      unchanged == preceding = [cycle |-> cycle, tree |-> t] \/ t \in last
  IN \/ owed # {} /\ evidenced = {} /\ owed \cap Code = {} /\ unchanged
     \/ owed # {} /\ evidenced # {} /\ owed \subseteq Code

Incomplete(r, t, proofs) ==
  LET c == Accounted(r, t, proofs)
  IN /\ Account(r, t, proofs)
     /\ ~Disputed(r)
     /\ Open(r, t, proofs) # {} \/ r.operations
     /\ IF Futile(r, t, proofs)
        THEN /\ completion' = IF r.returned THEN Close(c, "diagnosis") ELSE c
             /\ GoTo("failed")
        ELSE IF r.returned THEN Retry(Count(c, "incomplete_retry"))
        ELSE UNCHANGED completion /\ GoTo("failed")
     /\ UNCHANGED <<cycle, last, refusal>>

\* Every finding is answered: a checkpoint that was committed is retired.
Progress(r, t, proofs) ==
  LET c == Close(Accounted(r, t, proofs), "progress")
  IN /\ Account(r, t, proofs)
     /\ Open(r, t, proofs) = {} /\ ~r.operations
     /\ IF r.returned /\ c.committed.status # "none"
        THEN Checkpoint(c, "retired", GoTo("review"))
        ELSE /\ completion' = IF r.returned THEN c ELSE completion
             /\ GoTo("review")
     /\ last' = {t}
     /\ UNCHANGED <<cycle, refusal>>

Accounts ==
  /\ at = "ask" /\ open.findings # {}
  /\ \E r \in Replies, t \in SUBSET Code, proofs \in SUBSET (open.findings \cap Proof) :
       Dispute(r, t, proofs) \/ Incomplete(r, t, proofs) \/ Progress(r, t, proofs)

\* Nothing is owed: an unchanged candidate is not reviewed again.
Unowed ==
  /\ at = "captured" \/ open.findings = {}
  /\ \E t \in SUBSET Code : Captured(t) /\ tree' = t
  /\ IF tree' \in last THEN GoTo("failed") /\ UNCHANGED last
     ELSE GoTo("review") /\ last' = {tree'}
  /\ UNCHANGED <<position, ineligible, cycle, awaiting, proven, open, completion,
                 preceding, replanned, tally, refusal>>

----------------------------------------------------------------------------
\* The independent review.

\* It cannot be had: the candidate waits for it, or the implementor or the run
\* fails.
Unreviewed ==
  /\ at = "review"
  /\ \/ \E how \in {"awaiting_review", "failed", "blocked"} : End(how)
     \/ GoTo("failed")
  /\ UNCHANGED <<position, ineligible, cycle, awaiting, tree, proven, open, completion, last, preceding, replanned, tally, refusal>>

Objection == [tree |-> tree, evidence |-> proven[tree], findings |-> {}, stands |-> TRUE]

Revise ==
  /\ at = "review"
  /\ \E findings \in SUBSET Finding :
       open' = [tree |-> tree, evidence |-> proven[tree], findings |-> findings,
                stands |-> TRUE]
  /\ refusal' = Objection
  /\ completion' = Unbound
  /\ NextCycle
  /\ UNCHANGED <<position, ineligible, awaiting, tree, proven, last,
                 preceding, replanned, tally>>

Escalate ==
  /\ at = "review"
  /\ Forget
  /\ \/ ArchitectFails /\ refusal' = Objection /\ UNCHANGED cycle
     \/ NextCycle /\ refusal' = NoReview
  /\ UNCHANGED <<position, ineligible, awaiting, tree, proven, last,
                 preceding, replanned, tally>>

Contradicts == open.stands /\ open.tree = tree /\ open.evidence = proven[tree]

Accept ==
  /\ at = "review" /\ ~Contradicts
  /\ Forget
  /\ refusal' = IF refusal = Objection THEN refusal ELSE NoReview
  /\ GoTo("judge")
  /\ UNCHANGED <<position, ineligible, cycle, awaiting, tree, proven, last,
                 preceding, replanned, tally>>

\* Two reviews of one candidate on one evidence disagree: the architect decides.
Contradict ==
  /\ at = "review" /\ Contradicts
  /\ \/ ArchitectFails /\ UNCHANGED <<cycle, open, completion, refusal>>
     \/ GoTo("failed") /\ Forget /\ UNCHANGED <<cycle, refusal>>
     \/ NextCycle /\ Forget /\ refusal' = NoReview
     \/ GoTo("judge") /\ Forget /\ refusal' = NoReview /\ UNCHANGED cycle
  /\ UNCHANGED <<position, ineligible, awaiting, tree, proven, last,
                 preceding, replanned, tally>>

\* The audit governs an acceptance.
Judge ==
  /\ at = "judge"
  /\ \/ \E how \in {"accepted", "failed"} : End(how) /\ UNCHANGED <<cycle, refusal>>
     \/ GoTo("failed") /\ UNCHANGED <<cycle, refusal>>
     \/ NextCycle /\ refusal' = NoReview
  /\ UNCHANGED <<position, ineligible, awaiting, tree, proven, open, completion, last, preceding, replanned, tally>>

Next == \/ Select \/ Skip \/ NoneRemains \/ HandOff \/ CyclesSpent
        \/ ReviewFirst \/ Serve \/ NoRunner \/ Errs
        \/ Invalid \/ RefuseScope
        \/ Accounts
        \/ Unowed
        \/ Unreviewed \/ Revise \/ Escalate \/ Accept \/ Contradict \/ Judge

Spec == Init /\ [][Next]_vars

----------------------------------------------------------------------------
\* A reviewer is asked about a candidate only when it answers every finding that
\* is open: each change moved since it was asked for, each proof retained for
\* these very bytes, whatever was retained on the way (engine.go, the account).
ReviewedIsAnswered ==
  at = "review" =>
    \A f \in open.findings : IF f \in Code THEN Moved(f, tree) ELSE f \in proven[tree]

\* "an ACCEPT that arrives on the same candidate and the same evidence is a
\* contradiction between two reviews -- adjudicated by the architect, on the
\* record, never resolved by whichever verdict came last"
\* (reviewconsistency.go:29): no candidate is accepted over the objection the
\* review before made to it, on the same evidence, that nobody decided.
NoVerdictFlips == outcome = "accepted" => refusal # Objection

\* An attempt that was counted is in the newest checkpoint before anybody else
\* is asked, and an exhausted allowance before it is reported.
CountedIsCommitted ==
  /\ (at = "ask" /\ completion.bound /\ completion.attempts > 0)
       => completion.committed \in {Committed(status, completion.attempts) :
                                      status \in {"live", "blocked"}}
  /\ outcome = "incomplete" => completion.committed = Committed("exhausted", Allowance)

\* How far a run has come, the weightiest first; attempts are of the obligation
\* that the next invocation serves.
Early   == {"cycle", "ask", "captured"}
Stage   == [cycle |-> 0, ask |-> 1, captured |-> 2, review |-> 0, judge |-> 1,
            failed |-> 2, select |-> 3, over |-> 4]
Advance == <<position,
             IF replanned THEN 1 ELSE 0,
             cycle,
             IF at \in Early THEN 0 ELSE 1,
             IF at \in Early /\ Served(completion) /\ IsOpen(completion)
               THEN completion.attempts ELSE 0,
             Stage[at]>>

Before(a, b) == \E i \in 1..6 : a[i] < b[i] /\ \A j \in 1..(i - 1) : a[j] = b[j]

\* Every step of a run takes it further, and how far it may come is bounded by
\* the implementors, one replan, the cycles and the allowance: no retry of a
\* cycle, handover or decision of the architect runs in a circle, so it ends.
RunAdvances == [][Before(Advance, Advance')]_vars
=============================================================================
