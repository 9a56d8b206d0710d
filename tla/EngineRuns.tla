------------------------------ MODULE EngineRuns ------------------------------
(***************************************************************************)
(* The invocations of one task, its submitted run and the resumes of it,   *)
(* and what they record and publish (internal/workflow/engine.go,          *)
(* receipt.go, assisted.go).                                               *)
(*                                                                         *)
(* An invocation belongs to an engine, a process with its own bus; all     *)
(* engines share the session record and its task lease, which SessionLedger *)
(* models and which is here a variable and an append that may fail.  An    *)
(* invocation is a goroutine that goes through its run; besides, a role's  *)
(* provider reports from a goroutine of its own that may outlive the       *)
(* invocation.  Each emission of either is validated, waits for the task's *)
(* record gate in its engine, is validated again, appended, and published. *)
(***************************************************************************)
EXTENDS Naturals, Sequences, FiniteSets, Functions

CONSTANTS Invocation,
          Run,          \* the submitted run; the others are resumes
          Engine,
          None,
          Talker,       \* the invocations that report, once in the model
          MaxAsked,     \* questions that it lets one ask
          Cause         \* what may withdraw one

EngineAssumption ==
  /\ Run \in Invocation
  /\ None \notin Invocation \cup Engine \cup (Invocation \X {"main", "role"})
  /\ Talker \subseteq Invocation
  /\ MaxAsked \in Nat
  /\ Cause \subseteq {"stop", "deadline"}

VARIABLES
  inv,        \* the invocations
  em,         \* the emission each of their goroutines is in
  admitted,   \* each engine's admitted invocation of the task
  gate,       \* the goroutine that holds the task's record gate of an engine
  lease,      \* the invocation that holds the task's lease
  record,     \* the task's events in the session record
  published,  \* their positions, in the order of publication
  stops,      \* the runs that Stop and TimeOut can claim
  timedOut,   \* the engines that TimeOut claimed the task in, for good
  hand        \* the question that somebody looked up and is about to answer

vars == <<inv, em, admitted, gate, lease, record, published, stops, timedOut, hand>>

Goroutine == Invocation \X {"main", "role"}

Main(i) == <<i, "main">>

\* Endings of the task, and of an invocation only.
TaskTerminal == {"completed", "failed"}

Ending == TaskTerminal \cup {"parked", "stopped", "timed_out", "awaiting", "quarantined"}

\* endingAccount; "material" is the disposition of candidate material.
Account == Ending \cup {"root", "material"}

Kind == Account \cup {"status", "question", "answer"}

Choice == {"go", "stop", "defer"}

Idle == [at |-> "idle", kind |-> "status", pos |-> 0]

\* done: its context is cancelled; failure: what halted it; word: the ending
\* its run has come to; asked: its questions, the last of which is pending;
\* box: the last one's channel.
Fresh == [phase |-> "fresh", home |-> None, failure |-> "no", done |-> FALSE, ended |-> FALSE,
          lane |-> "work", word |-> "completed", asked |-> 0, pending |-> FALSE, box |-> <<>>,
          expired |-> FALSE]

Init ==
  /\ inv = [i \in Invocation |-> Fresh]
  /\ em = [x \in Goroutine |-> Idle]
  /\ admitted = [e \in Engine |-> None]
  /\ gate = [e \in Engine |-> None]
  /\ lease = None
  /\ record = <<>>
  /\ published = <<>>
  /\ stops = {}
  /\ timedOut = {}
  /\ hand = <<>>

-----------------------------------------------------------------------------
(* The emission path.                                                      *)

Live(e) == admitted[e] # None /\ ~inv[admitted[e]].ended

\* emissionOwner: i may record an event of kind k.
Owns(i, k) ==
  /\ inv[i].failure = "no"
  /\ ~inv[i].ended
  /\ admitted[inv[i].home] = i
  /\ inv[i].done => k \in Account

\* recordUnit up to its wait; an emission that is refused here returns.
Emitting(x, k) == em' = [em EXCEPT ![x] = IF Owns(x[1], k) THEN [Idle EXCEPT !.at = "queued", !.kind = k] ELSE Idle]

Silent(x) == em[x] = Idle

\* fence
Halted(i, how) == [inv[i] EXCEPT !.failure = IF @ = "no" THEN how ELSE @, !.done = TRUE]

Gate(x) == gate[inv[x[1]].home]

\* Fault: an emission validated before its wait is not validated again.
EnterUnchecked(x) ==
  /\ em[x].at = "queued" /\ Gate(x) = None
  /\ gate' = [gate EXCEPT ![inv[x[1]].home] = x]
  /\ em' = [em EXCEPT ![x].at = "inside"]
  /\ UNCHANGED <<inv, admitted, lease, record, published, stops, timedOut, hand>>

\* enterRecordGate and the second validation, which may refuse.
Enter(x) ==
  /\ em[x].at = "queued" /\ Gate(x) = None
  /\ IF Owns(x[1], em[x].kind)
     THEN /\ gate' = [gate EXCEPT ![inv[x[1]].home] = x]
          /\ em' = [em EXCEPT ![x].at = "inside"]
     ELSE em' = [em EXCEPT ![x] = Idle] /\ UNCHANGED gate
  /\ UNCHANGED <<inv, admitted, lease, record, published, stops, timedOut, hand>>

\* The wait for the gate ends with the invocation's context, or, if that was
\* cancelled before, with terminalAppendWait (appendContext).
GiveUp(x) ==
  /\ em[x].at = "queued" /\ inv[x[1]].done
  /\ inv' = [inv EXCEPT ![x[1]] = Halted(x[1], "wait")]
  /\ em' = [em EXCEPT ![x] = Idle]
  /\ UNCHANGED <<admitted, gate, lease, record, published, stops, timedOut, hand>>

Leave(x) ==
  /\ gate' = [gate EXCEPT ![inv[x[1]].home] = None]
  /\ em' = [em EXCEPT ![x] = Idle]

Entry(x) == [by |-> x[1], kind |-> em[x].kind]

\* recordHeld; a receipt and its terminal are one entry.
AppendEvent(x) ==
  /\ em[x].at = "inside" /\ lease = x[1]
  /\ record' = Append(record, Entry(x))
  /\ em' = [em EXCEPT ![x].at = "appended", ![x].pos = Len(record) + 1]
  /\ UNCHANGED <<inv, admitted, gate, lease, published, stops, timedOut, hand>>

\* The append was refused, undone, or left in the record all the same
\* (RecordAppendFailure.Indeterminate): the owner is halted before the gate is
\* freed.
FailAppend(x) ==
  /\ em[x].at = "inside"
  /\ record' \in {record} \cup (IF lease = x[1] THEN {Append(record, Entry(x))} ELSE {})
  /\ inv' = [inv EXCEPT ![x[1]] = Halted(x[1], "append")]
  /\ Leave(x)
  /\ UNCHANGED <<admitted, lease, published, stops, timedOut, hand>>

\* Fault: the gate is freed before the event is published.
PublishLate(x) ==
  /\ em[x].at = "appended"
  /\ \/ /\ gate[inv[x[1]].home] = x
        /\ gate' = [gate EXCEPT ![inv[x[1]].home] = None]
        /\ UNCHANGED <<em, published>>
     \/ /\ gate[inv[x[1]].home] # x
        /\ published' = Append(published, em[x].pos)
        /\ em' = [em EXCEPT ![x] = Idle]
        /\ UNCHANGED gate
  /\ UNCHANGED <<inv, admitted, lease, record, stops, timedOut, hand>>

Publish(x) ==
  /\ em[x].at = "appended"
  /\ published' = Append(published, em[x].pos)
  /\ Leave(x)
  /\ UNCHANGED <<inv, admitted, lease, record, stops, timedOut, hand>>

\* settleRefusedMaterial, under its operation guard, may find no material.
NoMaterial(x) ==
  /\ em[x].at = "inside" /\ em[x].kind = "material"
  /\ Leave(x)
  /\ UNCHANGED <<inv, admitted, lease, record, published, stops, timedOut, hand>>

\* Its disposition could not be written, which is said if the invocation was
\* not withdrawn: the ending becomes a failed one.
Unsettled(x) ==
  /\ em[x].at = "inside" /\ em[x].kind = "material"
  /\ inv' = [inv EXCEPT ![x[1]].word = "failed"]
  /\ IF inv[x[1]].done THEN Leave(x) ELSE em' = [em EXCEPT ![x].kind = "status"] /\ UNCHANGED gate
  /\ UNCHANGED <<admitted, lease, record, published, stops, timedOut, hand>>

Emit(x) == Enter(x) \/ GiveUp(x) \/ AppendEvent(x) \/ FailAppend(x) \/ Publish(x) \/ NoMaterial(x) \/ Unsettled(x)

-----------------------------------------------------------------------------
(* How an invocation begins.                                               *)

Kept == UNCHANGED <<admitted, gate, lease, record, published, stops, timedOut, hand>>

\* submit
Submit ==
  /\ inv[Run].phase = "fresh"
  /\ \E e \in Engine : inv' = [inv EXCEPT ![Run].phase = "submitted", ![Run].home = e]
  /\ stops' = stops \cup {Run}
  /\ UNCHANGED <<em, admitted, gate, lease, record, published, timedOut, hand>>

\* openRun, up to the lease.  The task's identity is new, so no other
\* invocation can be live.
Open ==
  /\ inv[Run].phase = "submitted"
  /\ admitted' = [admitted EXCEPT ![inv[Run].home] = Run]
  /\ inv' = [inv EXCEPT ![Run].phase = "leasing"]
  /\ UNCHANGED <<em, gate, lease, record, published, stops, timedOut, hand>>

\* ResumeTask, of a task found in the record: one admitted at a time.
Resume(i) ==
  /\ i # Run /\ inv[i].phase = "fresh" /\ record # <<>>
  /\ \E e \in Engine :
       IF Live(e)
       THEN /\ inv' = [inv EXCEPT ![i] = [Fresh EXCEPT !.phase = "returned", !.home = e,
                                                       !.failure = "refused", !.ended = TRUE]]
            /\ UNCHANGED admitted
       ELSE /\ inv' = [inv EXCEPT ![i].phase = "leasing", ![i].home = e]
            /\ admitted' = [admitted EXCEPT ![e] = i]
  /\ UNCHANGED <<em, gate, lease, record, published, stops, timedOut, hand>>

\* leaseInvocation; a run goes on to record its root, a resume to bind.
TakeLease(i) ==
  /\ inv[i].phase = "leasing" /\ lease = None
  /\ lease' = i
  /\ inv' = [inv EXCEPT ![i].phase = IF i = Run THEN "rooting" ELSE "binding"]
  /\ IF i = Run THEN Emitting(Main(i), "root") ELSE UNCHANGED em
  /\ UNCHANGED <<admitted, gate, record, published, stops, timedOut, hand>>

\* No lease; no containment; no lineage.
Refuse(i) ==
  /\ inv[i].phase \in {"leasing", "binding"}
  /\ inv' = [inv EXCEPT ![i] = [Halted(i, "refused") EXCEPT !.phase = "ending"]]
  /\ UNCHANGED em /\ Kept

Rooted(i) ==
  /\ inv[i].phase = "rooting" /\ Silent(Main(i))
  /\ inv' = [inv EXCEPT ![i].phase = IF inv[i].failure = "no" THEN "working" ELSE "ending"]
  /\ UNCHANGED em /\ Kept

\* What the task's history owes: an end, an answer to its deferred question,
\* or work (canonicalTask).
Over == \E n \in DOMAIN record : record[n].kind \in TaskTerminal

Standing ==
  \E n \in DOMAIN record :
    record[n].kind = "awaiting" /\ \A m \in n..Len(record) : record[m].kind # "answer"

-----------------------------------------------------------------------------
(* How it ends.                                                            *)

\* emitRunTerminal: a quarantine leaves material as it is.
Conclude(i, word) ==
  /\ inv' = [inv EXCEPT ![i].phase = IF word = "quarantined" THEN "closing" ELSE "settling",
                        ![i].word = word, ![i].pending = FALSE, ![i].box = <<>>]
  /\ Emitting(Main(i), IF word = "quarantined" THEN word ELSE "material")

\* terminateRun, of a run that could otherwise end with word.
Withdrawal(i) == IF inv[i].home \in timedOut THEN "timed_out" ELSE "stopped"

Terminate(i, word) ==
  IF inv[i].failure # "no"
  THEN inv' = [inv EXCEPT ![i].phase = "ending", ![i].pending = FALSE, ![i].box = <<>>] /\ UNCHANGED em
  ELSE \/ Conclude(i, "quarantined")
       \/ Conclude(i, IF inv[i].done THEN Withdrawal(i) ELSE word)

Working(i) == inv[i].phase = "working" /\ Silent(Main(i))

\* Fault: the lane is the caller's own, never mind what the record says now.
BoundAsAsked(i) ==
  /\ inv[i].phase = "binding"
  /\ \E lane \in {"work", "question"} : inv' = [inv EXCEPT ![i].phase = "working", ![i].lane = lane]
  /\ UNCHANGED em /\ Kept

\* The session is bound, and the task read from the record it is bound to.
\* What the caller resumed it for may be no longer owed.
Bound(i) ==
  /\ inv[i].phase = "binding"
  /\ \/ Terminate(i, "parked")
     \/ /\ ~Over
        /\ inv' = [inv EXCEPT ![i].phase = "working", ![i].lane = IF Standing THEN "question" ELSE "work"]
        /\ UNCHANGED em
  /\ Kept

\* The run fails, or is blocked, refused or withdrawn.
Fail(i) ==
  /\ Working(i)
  /\ \E word \in {"failed", "parked"} : Terminate(i, word)
  /\ Kept

\* An ending that the run decides itself, whatever its context.
Finish(i) ==
  /\ Working(i) /\ inv[i].lane = "work"
  /\ \E word \in {"completed", "parked"} : Conclude(i, word)
  /\ Kept

Settled(i) ==
  /\ inv[i].phase = "settling" /\ Silent(Main(i))
  /\ inv' = [inv EXCEPT ![i].phase = "closing"]
  /\ Emitting(Main(i), inv[i].word)
  /\ Kept

\* Fault: a deferral ends as other errors do, besides.
ClosedTwice(i) ==
  /\ inv[i].phase = "closing" /\ Silent(Main(i))
  /\ IF inv[i].word = "awaiting" THEN Terminate(i, "parked")
     ELSE inv' = [inv EXCEPT ![i].phase = "ending"] /\ UNCHANGED em
  /\ Kept

\* A deferral records its ending before the question is withdrawn.
Closed(i) ==
  /\ inv[i].phase = "closing" /\ Silent(Main(i))
  /\ inv' = [inv EXCEPT ![i].phase = "ending", ![i].pending = FALSE]
  /\ UNCHANGED em /\ Kept

\* Its locals are gone.
Returned(i) ==
  [Fresh EXCEPT !.phase = "returned", !.home = inv[i].home, !.failure = inv[i].failure,
                !.done = TRUE, !.ended = TRUE, !.expired = inv[i].expired]

\* endInvocation
End(i) ==
  /\ inv[i].phase = "ending" /\ gate[inv[i].home] = None
  /\ inv' = [inv EXCEPT ![i] = Returned(i)]
  /\ lease' = IF lease = i THEN None ELSE lease
  /\ UNCHANGED <<em, admitted, gate, record, published, stops, timedOut, hand>>

ClearStop(i) ==
  /\ inv[i].phase = "returned" /\ i \in stops
  /\ stops' = stops \ {i}
  /\ UNCHANGED <<inv, em, admitted, gate, lease, record, published, timedOut, hand>>

-----------------------------------------------------------------------------
(* Work, and the questions that wait for a person.                         *)

\* The model's bound.
MayReport(i) == i \in Talker /\ [by |-> i, kind |-> "status"] \notin Range(record)

\* The run, or a role's provider, reports.
Report(i) ==
  /\ Working(i) /\ MayReport(i)
  /\ Emitting(Main(i), "status")
  /\ UNCHANGED inv /\ Kept

Chatter(i) ==
  /\ inv[i].phase \notin {"fresh", "submitted", "leasing", "rooting", "binding"}
  /\ Silent(<<i, "role">>) /\ MayReport(i)
  /\ Emitting(<<i, "role">>, "status")
  /\ UNCHANGED inv /\ Kept

\* Fault: the channel of the last question serves the next one.
AskOnSameChannel(i) ==
  /\ Working(i) /\ inv[i].asked < MaxAsked
  /\ inv' = [inv EXCEPT ![i].phase = "awaiting", ![i].asked = @ + 1, ![i].pending = TRUE]
  /\ Emitting(Main(i), "question")
  /\ Kept

\* awaitChoice: the question is pending, on a channel of its own, before it
\* is published.
Ask(i) ==
  /\ Working(i) /\ inv[i].asked < MaxAsked
  /\ inv' = [inv EXCEPT ![i].phase = "awaiting", ![i].asked = @ + 1, ![i].pending = TRUE, ![i].box = <<>>]
  /\ Emitting(Main(i), "question")
  /\ Kept

Waiting(i) == inv[i].phase = "awaiting" /\ Silent(Main(i))

\* Fault: the wait is for the answer alone.
WithdrawAnswered(i) ==
  /\ Waiting(i) /\ inv[i].done /\ inv[i].box # <<>>
  /\ inv' = [inv EXCEPT ![i].phase = "working", ![i].pending = FALSE]
  /\ UNCHANGED em /\ Kept

\* The context ends first; or, of both, is seen first.  Resumed at a question,
\* the task ends by resumeAuthority and not by terminateRun.
Withdraw(i) ==
  /\ Waiting(i) /\ inv[i].done
  /\ IF inv[i].lane = "question"
     THEN Conclude(i, "failed")
     ELSE /\ inv' = [inv EXCEPT ![i].phase = "working", ![i].pending = FALSE]
          /\ UNCHANGED em
  /\ Kept

\* The answer is recorded; a deferral, or one to a preserved question that has
\* no provable scope, ends the invocation with the question preserved.
Choose(i) ==
  /\ Waiting(i) /\ inv[i].box # <<>>
  /\ LET choice == inv[i].box[1].choice
     IN \/ /\ choice = "defer" \/ (choice = "go" /\ inv[i].lane = "question")
           /\ inv' = [inv EXCEPT ![i].phase = "settling", ![i].word = "awaiting", ![i].box = <<>>]
           /\ Emitting(Main(i), "material")
        \/ /\ choice \in {"go", "stop"}
           /\ inv' = [inv EXCEPT ![i].phase = IF choice = "go" THEN "deciding" ELSE "declining",
                                 ![i].box = <<>>]
           /\ Emitting(Main(i), "answer")
  /\ Kept

Decided(i) ==
  /\ inv[i].phase = "deciding" /\ Silent(Main(i))
  /\ inv' = [inv EXCEPT ![i].phase = "working", ![i].lane = "work", ![i].pending = FALSE]
  /\ UNCHANGED em /\ Kept

\* errStoppedByHumanAuthority
Declined(i) ==
  /\ inv[i].phase = "declining" /\ Silent(Main(i))
  /\ IF inv[i].lane = "question" THEN Conclude(i, "stopped") ELSE Terminate(i, "stopped")
  /\ Kept

Past == {"settling", "closing", "ending", "returned"}

\* ResolveHuman and DeferAuthority: the pending channel is looked up, and then
\* sent to if it is empty.  Past its work, an invocation reads none.
LookUp(i) ==
  /\ hand = <<>> /\ inv[i].pending
  /\ hand' = <<[of |-> i, n |-> inv[i].asked]>>
  /\ UNCHANGED <<inv, em, admitted, gate, lease, record, published, stops, timedOut>>

Answer ==
  /\ hand # <<>>
  /\ LET q == hand[1]
     IN IF q.n = inv[q.of].asked /\ inv[q.of].box = <<>> /\ inv[q.of].phase \notin Past
        THEN \E c \in Choice : inv' = [inv EXCEPT ![q.of].box = <<[choice |-> c, n |-> q.n]>>]
        ELSE UNCHANGED inv
  /\ hand' = <<>>
  /\ UNCHANGED <<em, admitted, gate, lease, record, published, stops, timedOut>>

-----------------------------------------------------------------------------
(* What may end it.                                                        *)

\* Stop and TimeOut claim a run once; the deadline is that of the caller's own
\* context, and the caller then asks for TimeOut.
Stop(i) ==
  /\ i \in stops /\ "stop" \in Cause
  /\ stops' = stops \ {i}
  /\ inv' = [inv EXCEPT ![i].done = TRUE]
  /\ UNCHANGED <<em, admitted, gate, lease, record, published, timedOut, hand>>

Expire(i) ==
  /\ inv[i].phase \notin {"fresh", "returned"} /\ "deadline" \in Cause
  /\ ~inv[i].expired /\ (i \in stops \/ ~inv[i].done)
  /\ inv' = [inv EXCEPT ![i].done = TRUE, ![i].expired = TRUE]
  /\ UNCHANGED em /\ Kept

TimeOut(i) ==
  /\ inv[i].expired /\ i \in stops
  /\ stops' = stops \ {i}
  /\ timedOut' = timedOut \cup {inv[i].home}
  /\ inv' = [inv EXCEPT ![i].done = TRUE]
  /\ UNCHANGED <<em, admitted, gate, lease, record, published, hand>>

-----------------------------------------------------------------------------
\* Steps that nothing but the invocation itself, a lock or a system call
\* delays.
Proceed(i) ==
  \/ TakeLease(i) \/ Refuse(i) \/ Rooted(i) \/ Bound(i) \/ Settled(i) \/ Closed(i) \/ End(i)
  \/ Withdraw(i) \/ Choose(i) \/ Decided(i) \/ Declined(i)

Next ==
  \/ Submit \/ Open \/ Answer
  \/ \E i \in Invocation :
       \/ Resume(i) \/ Proceed(i) \/ Fail(i) \/ Finish(i) \/ ClearStop(i)
       \/ Report(i) \/ Chatter(i) \/ Ask(i) \/ LookUp(i) \/ Stop(i) \/ Expire(i) \/ TimeOut(i)
  \/ \E x \in Goroutine : Emit(x)

\* Every goroutine goes on, and work under a cancelled context returns.
Spec ==
  /\ Init /\ [][Next]_vars
  /\ WF_vars(Open)
  /\ \A i \in Invocation : WF_vars(Proceed(i)) /\ WF_vars(inv[i].done /\ Fail(i))
  /\ \A x \in Goroutine : WF_vars(Emit(x))

-----------------------------------------------------------------------------
InvocationType ==
  [phase : {"fresh", "submitted", "leasing", "rooting", "binding", "working", "awaiting",
            "deciding", "declining", "settling", "closing", "ending", "returned"},
   home : Engine \cup {None}, failure : {"no", "wait", "append", "refused"}, done : BOOLEAN,
   ended : BOOLEAN, lane : {"work", "question"}, word : Ending, asked : 0..MaxAsked, pending : BOOLEAN,
   box : {<<>>} \cup {<<b>> : b \in [choice : Choice, n : 1..MaxAsked]}, expired : BOOLEAN]

\* Types; and whoever is in the emission path past the gate, and nobody else,
\* holds it.
TypeOK ==
  /\ inv \in [Invocation -> InvocationType]
  /\ em \in [Goroutine -> [at : {"idle", "queued", "inside", "appended"}, kind : Kind, pos : Nat]]
  /\ admitted \in [Engine -> Invocation \cup {None}]
  /\ lease \in Invocation \cup {None}
  /\ record \in Seq([by : Invocation, kind : Kind])
  /\ published \in Seq(DOMAIN record)
  /\ stops \subseteq {Run} /\ timedOut \subseteq Engine
  /\ hand \in {<<>>} \cup {<<q>> : q \in [of : Invocation, n : 1..MaxAsked]}
  /\ \A x \in Goroutine, e \in Engine :
       gate[e] = x <=> inv[x[1]].home = e /\ em[x].at \in {"inside", "appended"}

\* What the buses deliver is what was recorded, in its order, each event once;
\* an event is recorded and not published only in the course of its own
\* emission, or where the append's outcome was unknown and halted its owner.
PublishedInOrder ==
  /\ \A n \in 1..Len(published) - 1 : published[n] < published[n + 1]
  /\ \A n \in DOMAIN record :
       \/ \E k \in DOMAIN published : published[k] = n
       \/ \E x \in Goroutine : em[x].at = "appended" /\ em[x].pos = n
       \/ inv[record[n].by].failure # "no"

\* Nothing is recorded for an invocation but while it is the one admitted in
\* its engine and holds the task's lease, and nothing is recorded or published
\* once it ended, or once an append of it failed: not by a provider that
\* outlives it, by one of an earlier invocation of the task, nor by whoever
\* waited behind the failed emission.
Recording(i) == Len(record') > Len(record) /\ record'[Len(record')].by = i

Publishing(i) == Len(published') > Len(published) /\ record[published'[Len(published')]].by = i

StillItsOwn ==
  \A i \in Invocation :
    /\ Recording(i) => lease = i /\ admitted[inv[i].home] = i
    /\ Recording(i) \/ Publishing(i) => ~inv[i].ended /\ inv[i].failure # "append"

NothingPastTheEnd == [][StillItsOwn]_vars

\* No invocation ends twice, and one that returns unhalted has published its
\* one ending, whoever withdrew it and when.
Endings(i) == {n \in DOMAIN record : record[n].by = i /\ record[n].kind \in Ending}

AccountedOnce ==
  \A i \in Invocation :
    /\ Cardinality(Endings(i)) <= 1
    /\ inv[i].phase = "returned" /\ inv[i].failure = "no" =>
         \E n \in Endings(i), k \in DOMAIN published : published[k] = n

\* Once the task's own terminal is recorded, nobody is asked about it, no
\* answer is recorded and it does not complete again, however old the view was
\* that a resume was started from.
OverIsOver ==
  \A n, m \in DOMAIN record :
    n < m /\ record[n].kind \in TaskTerminal => record[m].kind \notin {"root", "question", "answer", "completed"}

\* An answer is read by the very question it was given to.
AnswersItsQuestion ==
  \A i \in Invocation : inv[i].phase = "awaiting" /\ inv[i].box # <<>> => inv[i].box[1].n = inv[i].asked

\* A withdrawn invocation returns, and the task's lease is free of it.
WithdrawnReturns ==
  \A i \in Invocation : (inv[i].done /\ inv[i].phase # "fresh") ~> (inv[i].phase = "returned" /\ lease # i)

\* engine.go, of terminateRun: "A stopped run is not a failed one"; a run whose
\* caller withdraws while it waits for a person does not end as failed.
StoppedIsNotFailed ==
  [][\A i \in Invocation :
       inv[i].phase = "awaiting" /\ inv[i].done /\ inv[i].failure = "no" /\ inv'[i].phase = "settling" =>
         inv'[i].word # "failed"]_vars
=============================================================================
