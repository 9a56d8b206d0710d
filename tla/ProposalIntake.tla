--------------------------- MODULE ProposalIntake ---------------------------
(***************************************************************************)
(* The webhook's intake of objective proposals (internal/ghwebhook) and    *)
(* their approval from a terminal (cmd/sensei-code/proposal.go).  GitHub   *)
(* may deliver any authenticated delivery again, in any order.  The server *)
(* records a proposal of a comment once, under the lock of its process, by *)
(* two exclusive file creations: the proposal, then the receipt of the     *)
(* delivery.  Approvers are processes of their own: they share only the    *)
(* files with the server and with one another.                             *)
(***************************************************************************)
EXTENDS Naturals, FiniteSets

CONSTANTS Comment,    \* the comments of the conversation
          Objective,  \* what a proposal may ask for
          Delivery,   \* delivery ids
          Approver    \* the processes that approve

VARIABLES carries,    \* carries[d]: the comment and objective d was sent with
          proposal,   \* proposal[c]: the proposal file of a comment
          receipted,  \* the deliveries that have a receipt file
          intake,     \* the delivery being recorded, and the step it is at
          approval,   \* approval[c]: the approval file of a comment
          approver,   \* approver[a]: what it approves and where it is
          submitted,  \* submitted[c]: how often its objective reached control
          tasks       \* the objectives control accepted a task for (history)

vars == <<carries, proposal, receipted, intake, approval, approver, submitted,
          tasks>>

Missing  == "missing"
ProposalsAssumption == Missing \notin Objective
Facts    == [comment : Comment, objective : Objective]
Idle     == [pc |-> "idle"]
Proposed(c) == proposal[c] # Missing

Init == /\ carries \in [Delivery -> Facts]
        /\ proposal = [c \in Comment |-> Missing]
        /\ receipted = {}
        /\ intake = Idle
        /\ approval = [c \in Comment |-> Missing]
        /\ approver = [a \in Approver |-> Idle]
        /\ submitted = [c \in Comment |-> 0]
        /\ tasks = {}

\* Fault: a delivery of a comment already proposed is receipted unread.
DeliverUnread(d) ==
  /\ intake = Idle
  /\ d \notin receipted
  /\ intake' = [pc |-> IF Proposed(carries[d].comment) THEN "receipt" ELSE "propose",
                d |-> d]
  /\ UNCHANGED <<carries, proposal, receipted, approval, approver, submitted, tasks>>

\* A delivery arrives, the first time or again; Record runs it alone.  One with
\* a receipt changes nothing.  One of a comment whose proposal says otherwise is
\* refused.
Deliver(d) ==
  /\ intake = Idle
  /\ d \notin receipted
  /\ LET c == carries[d].comment
     IN \/ /\ ~Proposed(c)
           /\ intake' = [pc |-> "propose", d |-> d]
        \/ /\ Proposed(c)
           /\ proposal[c] = carries[d].objective
           /\ intake' = [pc |-> "receipt", d |-> d]
  /\ UNCHANGED <<carries, proposal, receipted, approval, approver, submitted, tasks>>

\* writeExclusiveJSON of the proposal.
Propose ==
  /\ intake.pc = "propose"
  /\ LET f == carries[intake.d]
     IN \/ /\ proposal' = [proposal EXCEPT ![f.comment] = f.objective]
           /\ intake' = [intake EXCEPT !.pc = "receipt"]
        \/ /\ UNCHANGED proposal
           /\ intake' = Idle
  /\ UNCHANGED <<carries, receipted, approval, approver, submitted, tasks>>

\* writeDeliveryUnlocked; when it fails the sink fails, and the delivery may
\* be sent again.
Acknowledge ==
  /\ intake.pc = "receipt"
  /\ receipted' \in {receipted, receipted \cup {intake.d}}
  /\ intake' = Idle
  /\ UNCHANGED <<carries, proposal, approval, approver, submitted, tasks>>

CrashServer ==
  /\ intake # Idle
  /\ intake' = Idle
  /\ UNCHANGED <<carries, proposal, receipted, approval, approver, submitted, tasks>>

\* The approver loads the proposal, is judged by the control plane on the
\* connection it will submit on, and looks whether the checkout is clean.
Examine(a, c) ==
  /\ approver[a] = Idle
  /\ Proposed(c)
  /\ approver' = [approver EXCEPT ![a] = [pc |-> "begin", c |-> c]]
  /\ UNCHANGED <<carries, proposal, receipted, intake, approval, submitted, tasks>>

\* Fault: an attempt that did not complete may be begun again.
BeginAgain(a) ==
  /\ approver[a].pc = "begin"
  /\ LET c == approver[a].c
     IN \/ /\ approval[c] # "submitted"
           /\ approval' = [approval EXCEPT ![c] = "attempting"]
           /\ approver' = [approver EXCEPT ![a].pc = "submit"]
        \/ /\ approver' = [approver EXCEPT ![a] = Idle]
           /\ UNCHANGED approval
  /\ UNCHANGED <<carries, proposal, receipted, intake, submitted, tasks>>

\* BeginApproval: the approval file is created exclusively, once for ever.
BeginApproval(a) ==
  /\ approver[a].pc = "begin"
  /\ LET c == approver[a].c
     IN \/ /\ approval[c] = Missing
           /\ approval' = [approval EXCEPT ![c] = "attempting"]
           /\ approver' = [approver EXCEPT ![a].pc = "submit"]
        \/ /\ approver' = [approver EXCEPT ![a] = Idle]
           /\ UNCHANGED approval
  /\ UNCHANGED <<carries, proposal, receipted, intake, submitted, tasks>>

\* The stored objective crosses to control, which may refuse it, or accept it
\* and lose the answer.
Submit(a) ==
  /\ approver[a].pc = "submit"
  /\ LET c == approver[a].c
     IN \/ /\ submitted' = [submitted EXCEPT ![c] = @ + 1]
           /\ \/ /\ tasks' = tasks \cup {<<c, proposal[c]>>}
                 /\ approver' \in {[approver EXCEPT ![a].pc = "complete"],
                                   [approver EXCEPT ![a] = Idle]}
              \/ /\ UNCHANGED tasks
                 /\ approver' = [approver EXCEPT ![a] = Idle]
        \/ /\ approver' = [approver EXCEPT ![a] = Idle]
           /\ UNCHANGED <<submitted, tasks>>
  /\ UNCHANGED <<carries, proposal, receipted, intake, approval>>

\* CompleteApproval replaces the file of its own attempt.
CompleteApproval(a) ==
  /\ approver[a].pc = "complete"
  /\ \/ approval' = [approval EXCEPT ![approver[a].c] = "submitted"]
     \/ UNCHANGED approval
  /\ approver' = [approver EXCEPT ![a] = Idle]
  /\ UNCHANGED <<carries, proposal, receipted, intake, submitted, tasks>>

CrashApprover(a) ==
  /\ approver[a] # Idle
  /\ approver' = [approver EXCEPT ![a] = Idle]
  /\ UNCHANGED <<carries, proposal, receipted, intake, approval, submitted, tasks>>

Next == \/ \E d \in Delivery : Deliver(d)
        \/ Propose \/ Acknowledge \/ CrashServer
        \/ \E a \in Approver : \/ \E c \in Comment : Examine(a, c)
                               \/ BeginApproval(a) \/ Submit(a)
                               \/ CompleteApproval(a) \/ CrashApprover(a)

Spec == Init /\ [][Next]_vars

----------------------------------------------------------------------------
TypeOK ==
  /\ carries \in [Delivery -> Facts]
  /\ proposal \in [Comment -> Objective \cup {Missing}]
  /\ receipted \subseteq Delivery
  /\ intake \in {Idle} \cup [pc : {"propose", "receipt"}, d : Delivery]
  /\ approval \in [Comment -> {Missing, "attempting", "submitted"}]
  /\ approver \in [Approver -> {Idle} \cup
                     [pc : {"begin", "submit", "complete"}, c : Comment]]
  /\ submitted \in [Comment -> Nat]
  /\ tasks \subseteq Comment \X Objective

\* However a delivery is repeated or reordered and wherever the server dies, a
\* delivery that is receipted has its proposal on disk with the facts it was
\* sent with, so a redelivery is answered by it (proposal.go:207).
ReceiptedIsProposed ==
  \A d \in receipted : proposal[carries[d].comment] = carries[d].objective

\* The objective of a comment reaches the control plane at most once, by
\* whichever approvers, crashes and lost answers, and what a task was accepted
\* for is what the proposal file says (proposal.go:316).
SubmittedOnce ==
  /\ \A c \in Comment : submitted[c] <= 1
  /\ \A t \in tasks : t[2] = proposal[t[1]]
=============================================================================
