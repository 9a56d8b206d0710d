------------------------------ MODULE MCRecords ------------------------------
(***************************************************************************)
(* What one checkout keeps a record of, each record under the concurrency  *)
(* and the failures it has of its own: lineages, a task's events, its      *)
(* checkpoints, the architect's turns, proposals, the candidate.  No       *)
(* component reads another's, so every behaviour is one of a single        *)
(* component, chosen at the start; the state of the others is unused.      *)
(***************************************************************************)
EXTENDS Naturals, Sequences, TLC

CONSTANTS Task, Session, NoTask, NoSession, MaxLog,
          Invocation, Run, Engine, None, Talker, MaxAsked, Cause,
          Process, Turn, NoProcess,
          Comment, Objective, Delivery, Approver,
          Bystander, MaxExecution,
          MaxCheckpoint, MaxSession, MaxAttempts

VARIABLES component,
          log,
          inv, em, admitted, gate, lease, events, published, stops, timedOut, hand,
          up, listed, turn, open, recorded, withdrawn, reply,
          carries, proposal, receipted, intake, approval, approver, submitted, tasks,
          record, trees, alive, begun, run, copy, settled,
          held, stable, payload, place, call, session, returned, refused

\* With its theorems, which speak of this instance too.
Runs      == INSTANCE EngineProofs WITH record <- events
Lineages  == INSTANCE LineageCheck
Turns     == INSTANCE ArchitectureTurns
Proposals == INSTANCE ProposalIntake
Work      == INSTANCE CandidateWorkspace
Checkpoints == INSTANCE CheckpointStore

ASSUME RecordsAssumption ==
  Lineages!LineageAssumption /\ Runs!EngineAssumption /\ Turns!TurnsAssumption
    /\ Proposals!ProposalsAssumption /\ Work!WorkspaceAssumption
    /\ Checkpoints!CheckpointAssumption

runs      == <<inv, em, admitted, gate, lease, events, published, stops, timedOut, hand>>
turns     == <<up, listed, turn, open, recorded, withdrawn, reply>>
proposals == <<carries, proposal, receipted, intake, approval, approver, submitted,
               tasks>>
work      == <<record, trees, alive, begun, run, copy, settled>>
checkpoints == <<held, stable, payload, place, call, session, returned, refused>>
vars      == <<component, log, runs, turns, proposals, work, checkpoints>>

NoRuns == /\ inv = "unused"
          /\ em = "unused"
          /\ admitted = "unused"
          /\ gate = "unused"
          /\ lease = "unused"
          /\ events = "unused"
          /\ published = "unused"
          /\ stops = "unused"
          /\ timedOut = "unused"
          /\ hand = "unused"

NoTurns == /\ up = "unused"
           /\ listed = "unused"
           /\ turn = "unused"
           /\ open = "unused"
           /\ recorded = "unused"
           /\ withdrawn = "unused"
           /\ reply = "unused"

NoProposals == /\ carries = "unused"
               /\ proposal = "unused"
               /\ receipted = "unused"
               /\ intake = "unused"
               /\ approval = "unused"
               /\ approver = "unused"
               /\ submitted = "unused"
               /\ tasks = "unused"

NoWork == /\ record = "unused"
          /\ trees = "unused"
          /\ alive = "unused"
          /\ begun = "unused"
          /\ run = "unused"
          /\ copy = "unused"
          /\ settled = "unused"

NoCheckpoints == /\ held = "unused"
                 /\ stable = "unused"
                 /\ payload = "unused"
                 /\ place = "unused"
                 /\ call = "unused"
                 /\ session = "unused"
                 /\ returned = "unused"
                 /\ refused = "unused"

NoLog == log = "unused"

Init ==
  \/ /\ component = "lineage"
     /\ Lineages!Init /\ NoRuns /\ NoTurns /\ NoProposals /\ NoWork /\ NoCheckpoints
  \/ /\ component = "runs"
     /\ Runs!Init /\ NoLog /\ NoTurns /\ NoProposals /\ NoWork /\ NoCheckpoints
  \/ /\ component = "turns"
     /\ Turns!Init /\ NoLog /\ NoRuns /\ NoProposals /\ NoWork /\ NoCheckpoints
  \/ /\ component = "proposals"
     /\ Proposals!Init /\ NoLog /\ NoRuns /\ NoTurns /\ NoWork /\ NoCheckpoints
  \/ /\ component = "work"
     /\ Work!Init /\ NoLog /\ NoRuns /\ NoTurns /\ NoProposals /\ NoCheckpoints
  \/ /\ component = "checkpoints"
     /\ Checkpoints!Init /\ NoLog /\ NoRuns /\ NoTurns /\ NoProposals /\ NoWork

Next ==
  /\ UNCHANGED component
  /\ \/ /\ component = "lineage" /\ Lineages!Grow
        /\ UNCHANGED <<runs, turns, proposals, work, checkpoints>>
     \/ /\ component = "runs" /\ Runs!Next
        /\ UNCHANGED <<log, turns, proposals, work, checkpoints>>
     \/ /\ component = "turns" /\ Turns!Next
        /\ UNCHANGED <<log, runs, proposals, work, checkpoints>>
     \/ /\ component = "proposals" /\ Proposals!Next
        /\ UNCHANGED <<log, runs, turns, work, checkpoints>>
     \/ /\ component = "work" /\ Work!Next
        /\ UNCHANGED <<log, runs, turns, proposals, checkpoints>>
     \/ /\ component = "checkpoints" /\ Checkpoints!Next
        /\ UNCHANGED <<log, runs, turns, proposals, work>>

\* A record of the bounded length grows no more, invocations that returned are
\* over, and no identity of the bound is left to draw.
Rests == /\ \/ component = "lineage" /\ Len(log) = MaxLog
            \/ component = "runs" /\ \A i \in Invocation : inv[i].phase = "returned"
            \/ component = "checkpoints" /\ Checkpoints!Spent
         /\ UNCHANGED vars

AllNext == Next \/ Rests

Spec == Init /\ [][AllNext]_vars

Symmetry == Permutations(Session) \cup Permutations(Turn)

\* The one pass over a record agrees with its positions (LineageCheck).
PassAgreesWithPositions == component = "lineage" => Lineages!PassAgreesWithPositions

\* What the buses deliver is what was recorded, in its order (EngineRuns).
PublishedInOrder == component = "runs" => Runs!PublishedInOrder

\* No invocation ends twice, and one that returns has ended (EngineRuns).
AccountedOnce == component = "runs" => Runs!AccountedOnce

\* Nobody is asked about a task that is over, and it ends once (EngineRuns).
OverIsOver == component = "runs" => Runs!OverIsOver

\* No recorded architecture request is forgotten while it stands
\* (ArchitectureTurns).
NoneForgotten == component = "turns" => Turns!NoneForgotten

\* A receipted delivery has its proposal on disk (ProposalIntake).
ReceiptedIsProposed == component = "proposals" => Proposals!ReceiptedIsProposed

\* A comment's objective reaches the control plane once (ProposalIntake).
SubmittedOnce == component = "proposals" => Proposals!SubmittedOnce

\* The record says what may still write to a worktree, and nothing that was
\* settled (CandidateWorkspace).
RecordIsTrue == component = "work" => Work!RecordIsTrue

\* A worktree is used or removed only when nothing can write to it
\* (CandidateWorkspace).
TouchedIsQuiet == component = "work" => Work!TouchedIsQuiet

\* A checkpoint that was returned stands in the record and on disk, through any
\* later failure, undo, crash and power loss (CheckpointStore).
ReturnedStands == component = "checkpoints" => Checkpoints!ReturnedStands

\* A failed commit says truly which checkpoint stands (CheckpointStore).
PriorIsTrue == component = "checkpoints" => Checkpoints!PriorIsTrue

\* Writers admit exactly what readers will count (LineageCheck).
WritersMatchReaders == [][component = "lineage" /\ log' # log
                            => (Lineages!LastIsAuthorized <=> Lineages!LastIsMember)]_vars

\* Nothing is recorded or published for an invocation past its end (EngineRuns).
NothingPastTheEnd == [][component = "runs" => Runs!StillItsOwn]_vars
=============================================================================
