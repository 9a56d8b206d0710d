-------------------------- MODULE ArchitectureTurns --------------------------
(***************************************************************************)
(* The remote architect's turns over a GitHub conversation                 *)
(* (internal/ghbridge/architecture_runner.go) and their reconciliation at  *)
(* a process's start (exchange.go, ReconcileAbandonedExchanges).  A turn   *)
(* is a goroutine of the process that posted it; its exchange record is a  *)
(* file every process of the checkout sees.  Each process lists the open   *)
(* records when it starts, and retracts what it lists one at a time.  Any  *)
(* call may fail and a process may die between two of them.                *)
(***************************************************************************)
EXTENDS Naturals, FiniteSets

CONSTANTS Process,   \* the processes of one checkout: a run, the control plane
          Turn,      \* the architecture requests they post
          NoProcess  \* the owner of a turn that was not begun

TurnsAssumption == NoProcess \notin Process

VARIABLES up,        \* the processes that are running
          listed,    \* listed[p]: what p's reconciliation still has to retract
          turn,      \* turn[t]: its process, where it is, and how it ended
          open,      \* the exchange records on disk
          recorded,  \* the turns whose record was ever written (history)
          withdrawn, \* the requests a withdrawal stands on the conversation for
          reply      \* reply[t]: what the remote consumer posted to it

vars == <<up, listed, turn, open, recorded, withdrawn, reply>>

Settled == {"answered", "refused", "malformed"}
Reply   == Settled \cup {"conflict"}
Posting == [owner : Process \cup {NoProcess},
            pc : {"none", "record", "wait", "settle", "retract", "close", "over"},
            outcome : Reply \cup {"none", "unanswered"}]

Init == /\ up = {}
        /\ listed = [p \in Process |-> {}]
        /\ turn = [t \in Turn |-> [owner |-> NoProcess, pc |-> "none",
                                   outcome |-> "none"]]
        /\ open = {}
        /\ recorded = {}
        /\ withdrawn = {}
        /\ reply = [t \in Turn |-> "none"]

Live(t) == turn[t].pc \notin {"none", "over"}

\* A process composes its bridge before anything else: the records open then
\* are the ones it will retract.
Start(p) == /\ p \notin up
            /\ up' = up \cup {p}
            /\ listed' = [listed EXCEPT ![p] = open]
            /\ UNCHANGED <<turn, open, recorded, withdrawn, reply>>

\* One record of the list: withdrawn, and closed only when that was posted.
Reconcile(p, t) ==
  /\ p \in up
  /\ t \in listed[p]
  /\ listed' = [listed EXCEPT ![p] = @ \ {t}]
  /\ \/ /\ withdrawn' = withdrawn \cup {t}
        /\ open' \in {open, open \ {t}}
     \/ UNCHANGED <<withdrawn, open>>
  /\ UNCHANGED <<up, turn, recorded, reply>>

\* The process dies, and every turn that waits in it.
Crash(p) == /\ p \in up
            /\ up' = up \ {p}
            /\ listed' = [listed EXCEPT ![p] = {}]
            /\ turn' = [t \in Turn |-> IF turn[t].owner = p /\ Live(t)
                                         THEN [turn[t] EXCEPT !.pc = "over"]
                                         ELSE turn[t]]
            /\ UNCHANGED <<open, recorded, withdrawn, reply>>

Go(t, step) == turn' = [turn EXCEPT ![t].pc = step]

\* The request is posted by a process that has composed its bridge.
Publish(p, t) ==
  /\ p \in up
  /\ listed[p] = {}
  /\ turn[t].pc = "none"
  /\ turn' = [turn EXCEPT ![t].pc = "record", ![t].owner = p]
  /\ UNCHANGED <<up, listed, open, recorded, withdrawn, reply>>

\* Its record is written; a failure is reported and the turn goes on.
Record(t) ==
  /\ turn[t].pc = "record"
  /\ \/ /\ open' = open \cup {t}
        /\ recorded' = recorded \cup {t}
     \/ UNCHANGED <<open, recorded>>
  /\ Go(t, "wait")
  /\ UNCHANGED <<up, listed, withdrawn, reply>>

\* A poll reads the conversation afresh and settles on what one material reply
\* says; several different ones are a conflict.
Poll(t) ==
  /\ turn[t].pc = "wait"
  /\ reply[t] # "none"
  /\ turn' = [turn EXCEPT ![t].outcome = reply[t],
                          ![t].pc = IF reply[t] = "conflict" THEN "retract"
                                                             ELSE "settle"]
  /\ UNCHANGED <<up, listed, open, recorded, withdrawn, reply>>

\* The deadline, the caller, or an unreadable conversation ends the wait.
GiveUp(t) ==
  /\ turn[t].pc = "wait"
  /\ turn' = [turn EXCEPT ![t].outcome = "unanswered", ![t].pc = "retract"]
  /\ UNCHANGED <<up, listed, open, recorded, withdrawn, reply>>

\* An answered, refused or malformed turn closes its record and withdraws
\* nothing; the close may fail.
Settle(t) ==
  /\ turn[t].pc = "settle"
  /\ open' \in {open, open \ {t}}
  /\ Go(t, "over")
  /\ UNCHANGED <<up, listed, recorded, withdrawn, reply>>

\* Fault: the record is closed whether or not the withdrawal was posted.
RetractAnyway(t) ==
  /\ turn[t].pc = "retract"
  /\ withdrawn' \in {withdrawn, withdrawn \cup {t}}
  /\ Go(t, "close")
  /\ UNCHANGED <<up, listed, open, recorded, reply>>

\* A turn that ended without one is withdrawn first, and its record is closed
\* only when the withdrawal was posted; else the next start finds it.
Retract(t) ==
  /\ turn[t].pc = "retract"
  /\ \/ /\ withdrawn' = withdrawn \cup {t}
        /\ Go(t, "close")
     \/ /\ UNCHANGED withdrawn
        /\ Go(t, "over")
  /\ UNCHANGED <<up, listed, open, recorded, reply>>

Close(t) ==
  /\ turn[t].pc = "close"
  /\ open' \in {open, open \ {t}}
  /\ Go(t, "over")
  /\ UNCHANGED <<up, listed, recorded, withdrawn, reply>>

\* The remote consumer replies, and may later reply differently.
Respond(t, kind) ==
  /\ turn[t].pc # "none"
  /\ \/ /\ reply[t] = "none"
        /\ kind # "conflict"
     \/ /\ reply[t] \in Settled
        /\ kind = "conflict"
  /\ reply' = [reply EXCEPT ![t] = kind]
  /\ UNCHANGED <<up, listed, turn, open, recorded, withdrawn>>

Next == \/ \E p \in Process : \/ Start(p)
                              \/ Crash(p)
                              \/ \E t \in Turn : Reconcile(p, t) \/ Publish(p, t)
        \/ \E t \in Turn : \/ Record(t) \/ Poll(t) \/ GiveUp(t) \/ Settle(t)
                           \/ Retract(t) \/ Close(t)
                           \/ \E kind \in Reply : Respond(t, kind)

Spec == Init /\ [][Next]_vars

----------------------------------------------------------------------------
TypeOK == /\ up \subseteq Process
          /\ listed \in [Process -> SUBSET Turn]
          /\ turn \in [Turn -> Posting]
          /\ \A t \in Turn : turn[t].owner = NoProcess <=> turn[t].pc = "none"
          /\ open \subseteq recorded
          /\ recorded \subseteq Turn
          /\ withdrawn \subseteq Turn
          /\ reply \in [Turn -> Reply \cup {"none"}]

\* A request that was recorded keeps its record, for the next start to find,
\* until it is withdrawn or the turn has read a reply that ends it: no request
\* is forgotten while it stands, whatever call fails and whichever process dies
\* (architecture_runner.go:300, exchange.go:370).
NoneForgotten ==
  \A t \in recorded \ open : t \in withdrawn \/ turn[t].outcome \in Settled

\* What a reconciliation withdraws was abandoned: no waiter of it is left in
\* any process (exchange.go:356).
OnlyAbandonedAreWithdrawn ==
  [][\A p \in Process, t \in Turn :
       Reconcile(p, t) /\ t \in withdrawn' \ withdrawn => ~Live(t)]_vars
=============================================================================
