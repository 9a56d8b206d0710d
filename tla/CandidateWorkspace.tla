-------------------------- MODULE CandidateWorkspace --------------------------
(***************************************************************************)
(* One task's candidate: its durable record (internal/candidate), the two  *)
(* worktrees confined executions write to, and the run that validates,     *)
(* captures and disposes of it (internal/workflow/engine.go: validate,     *)
(* boundedRun, disposeIfEmpty).                                            *)
(*                                                                         *)
(* Every transaction on the record reads, checks and replaces it under the *)
(* record's flock, so each is one step; its write may fail before or after *)
(* the rename.  The task's lease admits one run at a time.  A run may die  *)
(* at any step, and what it launched may live on.  Other processes hold    *)
(* copies of the record read earlier, and may save or resolve from them.   *)
(***************************************************************************)
EXTENDS Naturals, FiniteSets

CONSTANTS Bystander,     \* processes holding copies of the record
          MaxExecution   \* bound: how many executions are begun

WorkspaceAssumption == MaxExecution \in Nat \ {0}

VARIABLES record,    \* the record on disk
          trees,     \* the worktrees that exist: the candidate's, a baseline's
          alive,     \* executions that may still write: <<invocation, worktree>>
          begun,     \* how many invocations were drawn
          run,       \* the run holding the task's lease
          copy,      \* copy[b]: the record b read
          settled    \* the invocations whose settlement reached the disk (history)

vars == <<record, trees, alive, begun, run, copy, settled>>

Execution   == 1..MaxExecution
Tree        == {"work", "baseline"}
Disposition == {"none", "retained", "resumable", "disposed", "quarantined"}

\* A record; noted says that the execution in flight names its baseline.
Blank  == [there |-> FALSE, inflight |-> 0, noted |-> FALSE, disp |-> "none"]
Bound  == [Blank EXCEPT !.there = TRUE]
Quarantined(rec) == rec.disp = "quarantined"
Unsettled(rec) == rec.inflight # 0 \/ Quarantined(rec)

\* made: this validation created a baseline; keep: it may not be removed;
\* bound: every baseline it asked to run was named on the record.
NoRun == [pc |-> "out", inv |-> 0, made |-> FALSE, keep |-> FALSE, bound |-> TRUE,
          mine |-> Blank]

Init == /\ record = Blank
        /\ trees = {}
        /\ alive = {}
        /\ begun = 0
        /\ run = NoRun
        /\ copy = [b \in Bystander |-> Blank]
        /\ settled = {}

Goto(step) == run' = [run EXCEPT !.pc = step]
Leave      == run' = NoRun

\* A write of the record to rec: done, or failed with the record as it was, or
\* failed after the rename, when only its durability is not established.
Written(rec) == record' = rec
Failed(rec)  == record' \in {record, rec}

----------------------------------------------------------------------------
\* The run's way to its worktree.

\* A new task or a resumed one.  The containment check reads under the lock: an
\* unsettled record, or one that could not be read, admits nothing.
Enter ==
  /\ run.pc = "out"
  /\ ~Unsettled(record)
  /\ Goto("establish")
  /\ UNCHANGED <<record, trees, alive, begun, copy, settled>>

\* Establish returns the record there is, or saves the first; a moved base or a
\* dirty checkout ends the run.
Establish ==
  /\ run.pc = "establish"
  /\ \/ /\ record.there
        /\ run' = [run EXCEPT !.pc = "bind", !.mine = record]
        /\ UNCHANGED record
     \/ /\ ~record.there
        /\ Written(Bound)
        /\ run' = [run EXCEPT !.pc = "bind", !.mine = Bound]
     \/ /\ IF record.there THEN UNCHANGED record ELSE Failed(Bound)
        /\ Leave
  /\ UNCHANGED <<trees, alive, begun, copy, settled>>

\* Fault: only the invocation is compared.
DropsInvocation(rec) ==
  \/ record.inflight # 0 /\ rec.inflight # record.inflight
  \/ Quarantined(record) /\ ~Quarantined(rec)

\* Save: a record that is unsettled is replaced only by one that keeps exactly
\* that state, and protected state is never introduced.
DropsUnsettled(rec) ==
  \/ record.inflight # 0 /\ <<rec.inflight, rec.noted>>
                              # <<record.inflight, record.noted>>
  \/ Quarantined(record) /\ ~Quarantined(rec)
MintsProtected(rec) == \/ rec.inflight # 0 /\ record.inflight = 0
                       \/ Quarantined(rec) /\ ~Quarantined(record)
MaySave(rec) == ~DropsUnsettled(rec) /\ ~MintsProtected(rec)

\* BindGraph saves the run's copy; a failure is not acted upon.
BindGraph ==
  /\ run.pc = "bind"
  /\ \/ MaySave(run.mine) /\ Written(run.mine)
     \/ UNCHANGED record
  /\ Goto("admit")
  /\ UNCHANGED <<trees, alive, begun, copy, settled>>

\* The worktree is made, or reused, only past the containment check.
Admit ==
  /\ run.pc = "admit"
  /\ \/ /\ ~Unsettled(record)
        /\ trees' = trees \cup {"work"}
        /\ Goto("work")
     \/ /\ Leave
        /\ UNCHANGED trees
  /\ UNCHANGED <<record, alive, begun, copy, settled>>

----------------------------------------------------------------------------
\* Validation: batches of confined executions.

\* BeginExecution records the invocation before anything can write.  When its
\* write fails the batch did not start, and whether a baseline is free is then
\* read off the record.
BeginExecution ==
  /\ run.pc = "work"
  /\ begun < MaxExecution
  /\ begun' = begun + 1
  /\ LET next == [record EXCEPT !.inflight = begun + 1, !.noted = FALSE]
     IN \/ /\ ~Unsettled(record)
           /\ Written(next)
           /\ run' = [run EXCEPT !.pc = "ready", !.inv = begun + 1, !.bound = TRUE]
        \/ /\ ~Unsettled(record)
           /\ Failed(next)
           /\ run' = [run EXCEPT !.pc = "notStarted", !.inv = begun + 1]
        \/ /\ Unsettled(record)
           /\ run' = [run EXCEPT !.pc = "stopped", !.keep = TRUE]
           /\ UNCHANGED record
  /\ UNCHANGED <<trees, alive, copy, settled>>

\* baselineFreeAfterPreStart: only what this very batch attempted may be on the
\* record, and no baseline with it.  A locked read that fails keeps it too.
BaselineFree(rec) == /\ rec.there
                     /\ ~Quarantined(rec)
                     /\ rec.inflight \in {0, run.inv}
                     /\ ~rec.noted

JudgeBaseline ==
  /\ run.pc = "notStarted"
  /\ run' \in {[run EXCEPT !.pc = "stopped", !.keep = k] :
                 k \in {~BaselineFree(record), TRUE}}
  /\ UNCHANGED <<record, trees, alive, begun, copy, settled>>

\* A check is launched in the candidate's worktree.
Launch ==
  /\ run.pc = "ready"
  /\ alive' = alive \cup {<<run.inv, "work">>}
  /\ Goto("running")
  /\ UNCHANGED <<record, trees, begun, copy, settled>>

\* It failed, and is attributed: the baseline worktree is made once a
\* validation, and is named on the record of this invocation before it is run
\* in.  One that could not be made, or not be named, is not run in.
Attribute ==
  /\ run.pc = "ready"
  /\ LET named == [record EXCEPT !.noted = TRUE]
     IN \/ /\ run.made \/ "baseline" \notin trees
           /\ trees' = trees \cup {"baseline"}
           /\ \/ /\ record.inflight = run.inv
                 /\ ~Quarantined(record)
                 /\ Written(named)
                 /\ alive' = alive \cup {<<run.inv, "baseline">>}
                 /\ run' = [run EXCEPT !.pc = "running", !.made = TRUE]
              \/ /\ IF record.inflight = run.inv /\ ~Quarantined(record)
                      THEN Failed(named)
                      ELSE UNCHANGED record
                 /\ run' = [run EXCEPT !.made = TRUE, !.bound = FALSE]
                 /\ UNCHANGED alive
  /\ UNCHANGED <<begun, copy, settled>>

\* The launcher's record proves that what it launched has ended, or there is no
\* such proof and the batch stops.
Mine == {x \in alive : x[1] = run.inv}
Return ==
  /\ run.pc = "running"
  /\ \/ alive' = alive \ Mine /\ Goto("ready")
     \/ Goto("unsettled") /\ UNCHANGED alive
  /\ UNCHANGED <<record, trees, begun, copy, settled>>

\* A batch whose executions all ended is settled; when that fails, or when a
\* baseline could not be named, validation stops there.
SettleExecution ==
  /\ run.pc = "ready"
  /\ LET clear == [record EXCEPT !.inflight = 0, !.noted = FALSE]
         mayClear == record.inflight = run.inv /\ ~Quarantined(record)
     IN \/ /\ mayClear
           /\ Written(clear)
           /\ settled' = settled \cup {run.inv}
           /\ Goto(IF run.bound THEN "capture" ELSE "stopped")
        \/ /\ IF mayClear THEN Failed(clear) ELSE UNCHANGED record
           /\ settled' = IF record' = record THEN settled ELSE settled \cup {run.inv}
           /\ run' = [run EXCEPT !.pc = "stopped", !.keep = TRUE]
  /\ UNCHANGED <<trees, alive, begun, copy>>

\* One that did not is quarantined, over whatever the record holds now.
QuarantineExecution ==
  /\ run.pc = "unsettled"
  /\ LET held == [record EXCEPT !.disp = "quarantined"]
     IN Written(held) \/ Failed(held)
  /\ run' = [run EXCEPT !.pc = "stopped", !.keep = TRUE]
  /\ UNCHANGED <<trees, alive, begun, copy, settled>>

\* The worktree is read for its content; then another batch, or the end of this
\* validation.
Capture ==
  /\ run.pc = "capture"
  /\ Goto("work")
  /\ UNCHANGED <<record, trees, alive, begun, copy, settled>>

Validated ==
  /\ run.pc = "work"
  /\ Goto("cleanup")
  /\ UNCHANGED <<record, trees, alive, begun, copy, settled>>

\* The end of a validation removes the baseline it made, unless it is kept.
\* After a safety stop the run does nothing more with the candidate.
RemovesMade == run.made      \* Fault: the baseline is removed though it is kept.
Removes == run.made /\ ~run.keep
Cleanup ==
  /\ run.pc \in {"cleanup", "stopped"}
  /\ trees' \in IF Removes THEN {trees, trees \ {"baseline"}} ELSE {trees}
  /\ IF run.pc = "stopped"
       THEN Leave
       ELSE run' \in {[run EXCEPT !.pc = step, !.made = FALSE] :
                        step \in {"work", "dispose", "resolve"}}
  /\ UNCHANGED <<record, alive, begun, copy, settled>>

----------------------------------------------------------------------------
\* The run's end.

\* Resolve takes the record on disk, never the copy, and refuses an unsettled
\* one.
Resolve(disp) == ~Unsettled(record) /\ Written([record EXCEPT !.disp = disp])
NotResolved(disp) == IF Unsettled(record)
                       THEN UNCHANGED record
                       ELSE Failed([record EXCEPT !.disp = disp])

\* An accepted candidate is retained, whatever became of its publication.
Retain ==
  /\ run.pc = "resolve"
  /\ \E disp \in {"retained", "resumable"} : Resolve(disp) \/ NotResolved(disp)
  /\ Leave
  /\ UNCHANGED <<trees, alive, begun, copy, settled>>

\* disposeIfEmpty checks the record before the worktree is looked at.
Dispose ==
  /\ run.pc = "dispose"
  /\ IF Unsettled(record) THEN Leave ELSE Goto("observe") \/ Leave
  /\ UNCHANGED <<record, trees, alive, begun, copy, settled>>

\* What holds work, or cannot be read, is kept; what is empty is recorded as
\* disposed before it is removed.
Observe ==
  /\ run.pc = "observe"
  /\ \/ /\ Resolve("resumable") \/ NotResolved("resumable")
        /\ Leave
     \/ /\ Resolve("disposed")
        /\ Goto("remove")
     \/ /\ NotResolved("disposed")
        /\ Leave
  /\ UNCHANGED <<trees, alive, begun, copy, settled>>

\* The removal may fail; the record is then updated.
Remove ==
  /\ run.pc = "remove"
  /\ trees' \in {trees, trees \ {"work"}}
  /\ Goto("removed")
  /\ UNCHANGED <<record, alive, begun, copy, settled>>

Removed ==
  /\ run.pc = "removed"
  /\ Resolve("disposed") \/ NotResolved("disposed")
  /\ Leave
  /\ UNCHANGED <<trees, alive, begun, copy, settled>>

\* The process dies.  What it launched may go on writing.
Crash ==
  /\ run.pc # "out"
  /\ Leave
  /\ UNCHANGED <<record, trees, alive, begun, copy, settled>>

----------------------------------------------------------------------------
\* What the run does not decide: an execution ends by itself; another process
\* reads the record, and saves or resolves from what it read.
End(x) ==
  /\ x \in alive
  /\ alive' = alive \ {x}
  /\ UNCHANGED <<record, trees, begun, run, copy, settled>>

Load(b) ==
  /\ record.there
  /\ copy' = [copy EXCEPT ![b] = record]
  /\ UNCHANGED <<record, trees, alive, begun, run, settled>>

SaveCopy(b) ==
  /\ copy[b].there
  /\ MaySave(copy[b])
  /\ Written(copy[b])
  /\ UNCHANGED <<trees, alive, begun, run, copy, settled>>

ResolveCopy(b, disp) ==
  /\ copy[b].there
  /\ Resolve(disp)
  /\ UNCHANGED <<trees, alive, begun, run, copy, settled>>

RunNext == \/ Enter \/ Establish \/ BindGraph \/ Admit
           \/ BeginExecution \/ JudgeBaseline \/ Launch \/ Attribute \/ Return
           \/ SettleExecution \/ QuarantineExecution \/ Capture \/ Validated
           \/ Cleanup \/ Retain \/ Dispose \/ Observe \/ Remove \/ Removed
           \/ Crash

Next == \/ RunNext
        \/ \E x \in alive : End(x)
        \/ \E b \in Bystander : \/ Load(b) \/ SaveCopy(b)
                                \/ \E disp \in Disposition \ {"none", "quarantined"} :
                                     ResolveCopy(b, disp)

Spec == Init /\ [][Next]_vars

----------------------------------------------------------------------------
Step == {"out", "establish", "bind", "admit", "work", "notStarted", "ready",
         "running", "unsettled", "capture", "cleanup", "stopped", "resolve", "dispose",
         "observe", "remove", "removed"}
Record == [there : BOOLEAN, inflight : 0..MaxExecution, noted : BOOLEAN,
           disp : Disposition]

TypeOK == /\ record \in Record
          /\ trees \subseteq Tree
          /\ alive \subseteq Execution \X Tree
          /\ begun \in 0..MaxExecution
          /\ run \in [pc : Step, inv : 0..MaxExecution, made : BOOLEAN,
                      keep : BOOLEAN, bound : BOOLEAN, mine : Record]
          /\ copy \in [Bystander -> Record]
          /\ settled \subseteq Execution

\* While an execution may still write, the record on disk says so and names the
\* baseline it may write to, whoever saved or resolved the record last and
\* whatever crashed: nothing takes a live candidate for a settled one
\* (identity.go:288, disposition.go:193).
AliveIsRecorded ==
  \A x \in alive : /\ record.there
                   /\ record.inflight = x[1] \/ Quarantined(record)
                   /\ x[2] = "baseline" => record.noted

\* Nor does a copy read before a settlement bring a settled execution back, so
\* that the candidate could never be used again (identity.go:312).
SettledStaysSettled == record.inflight \notin settled

RecordIsTrue == AliveIsRecorded /\ SettledStaysSettled

\* A worktree is captured, observed or removed only when no execution can still
\* write to it (engine.go:13423, engine.go:12377).
TouchedIsQuiet ==
  /\ run.pc \in {"capture", "observe", "remove"} => \A x \in alive : x[2] # "work"
  /\ run.pc \in {"cleanup", "stopped"} /\ Removes => \A x \in alive : x[2] # "baseline"
=============================================================================
