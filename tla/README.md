# Formal models of sensei-code

sensei-code runs governed coding tasks: an engine drives architect, implementer
and reviewer roles over a repository, asks humans for authority, and records
every step of a task in a durable ledger that other processes resume from. This
directory holds TLA+ models of it, the TLC runs that check them on small
instances, and theorems about them that TLAPS proves for every instance.

Everything is translated from the Go source; `PROJECT.json` gives, for every
definition that models code, the file and the lines it stands for (`map`), the
hazards the properties are for (`hazards`), and for every property a faulty
variant of one definition that TLC shows it rejects (`mutants`; the variants
are the definitions marked "Fault:", which no specification uses).

    tlc -workers 2 -config MCLedgerTasks.cfg MCSessionLedger
    tlc -workers 2 -config MCLedgerRecord.cfg MCSessionLedger
    tlc -workers 2 -config MCControlTurns.cfg MCControlTurns
    tlc -workers 2 -config MCWaits.cfg MCWaits
    tlc -workers 2 -config MCReviews.cfg MCReviews
    tlc -workers 2 -config MCRecords.cfg MCRecords
    tlc -workers 2 -config MCServices.cfg MCServices
    tlapm SessionLedgerProofs.tla
    tlapm ControlProofs.tla
    tlapm EngineProofs.tla
    tlapm ExchangeProofs.tla
    tlapm ReviewsProofs.tla
    tlapm RecordsProofs.tla
    tlapm ServicesProofs.tla
    tlapm WaitsProofs.tla

`MCLedgerAmbiguous`, `MCEngineQuestion`, `MCTurnWithdrawn`, `MCTwoReceipts` and
`MCVerdictFlips` are the runs that show a disagreement between the code and what
it says of itself.

## Inventory

The parts of the system, what each keeps and does, and what makes it hard. The
last column says what is modelled so far; `PROJECT.json` lists the rest with
the reason.

| part | state | operations | what is hard, and what makes it correct | here |
|---|---|---|---|---|
| session ledger, `internal/session/store.go` | one append-only file per session, locks beside it, quarantine manifests | acquire and release a task's invocation lease, create a root, bind or continue a session, append (generic, unit, diagnostic), discover active and interrupted tasks, quarantine | processes interleave and die, writes and syncs and undos fail, power loss; one ledger per task, no append by a superseded session, nothing durable lost, nothing refused left behind | `SessionLedger`, but for discovery and the cache |
| checkpoints, `session/store.go`, `workflow/engine.go` (`commitCheckpoint`) | entries of the record, one payload file each | commit (prepared, payload, read back, committed), restore | any of a dozen calls fails, the whole attempt is repeated, the machine loses power; what is returned stands | `CheckpointStore` |
| session lineage, `session/lineage.go` | none: a function of a record | reconstruct, authorize a write, classify a record | readers and writers must agree, later records must not change earlier ones | `Lineage` |
| workflow engine, `internal/workflow` | the run of one task: mode, rounds, candidate, fenced invocation | run, resume, terminals | an append that fails must fence every later step of the run; terminals exactly once; a resumed run continues from durable state | `EngineRuns`: its invocations and what they record |
| implementation and review rounds, `workflow/engine.go`, `implementer_incomplete.go`, `reviewconsistency.go` | implementor, cycle, open review, completion obligation, retained proofs | invoke, capture, account, checkpoint, review, contradict, escalate, hand over | a dozen ways round the loop; every one must end, count, and forget what no longer binds | `CandidateRounds`, but for inspections and in-process resumption |
| human authority, `workflow/authority.go`, `internal/authority` | open conditions, answers, granted effects | raise, answer, apply, defer | answers race with cancellation and with each other | `EngineRuns`: the rendezvous; what an answer grants is left |
| role leases, `internal/principal` | leases of roles by principals, their expiry and task | register, authorize, bind, renew, release | expiry between check and use; one holder per role, no lease revived | `RoleLeases` |
| control plane, `internal/control` | turns waiting for remote answers, delegations | delegate, submit, abandon | answer, deadline and lost lease race; an answer is consumed at most once by the turn it was asked for | `ControlTurns`, but for its HTTP transport and the local objective channel |
| GitHub bridge and review store, `internal/ghbridge`, `internal/reviewstore` | exchange records, review files, the conversation | publish, poll, accept, relay, reconcile | comments lost, repeated, removed; processes restart between publishing and recording; two processes rewrite one file | `ReviewExchange`, `ArchitectureTurns`, but for rendering and attestation |
| webhook intake, `internal/ghwebhook` | deliveries, proposals, approvals | record, approve | at-least-once delivery in any order, crashes between two files, several approvers | `ProposalIntake` |
| candidates, `internal/candidate` and the run's use of them | the candidate's record, its worktree, a baseline's | establish, run in it, settle, quarantine, dispose | what was launched outlives the run; records are saved from old copies | `CandidateWorkspace` |
| command execution, `workflow/execservice*.go`, `internal/validation/evidence.go` | tool calls and their locks, an execution and its launcher's status | call, revise the plan, stop; launch, read, wait | stale authority, a check that calls back, a wrapper that hangs or lies | `ExecService`, `LauncherStatus` |
| task state and receipts, `internal/taskstate`, `internal/runreceipt` | none: folds of a record | project | every reader reaches the same state | not modelled |
| roles, agents, providers, Sensei client, TUI, command line, setup, reports, benchmarks | text, processes, files of configuration | - | sequential input and output over text; unit tested | not modelled |

How they interact. The command line opens a store, builds an engine and a
control server; the engine acquires the task's invocation lease from the store
and from then on writes only through it; roles run as local agents or as turns
delegated through the control plane to a principal that holds a role lease; the
bridge carries reviews and architecture decisions over GitHub; everything that
happened is an event in the session record, from which task state, receipts and
a resumed run are computed.

## Plan

The order in which the project was built, the most important behaviour first.

1. `Lineage`, `LineageCheck`, `SessionLedger`, `TaskLedger`,
   `SessionLedgerProofs`: the ledger everything else rests on.
2. `RoleLeases` (the registry) and `ControlTurns` (rendezvous, runner and
   server, composed with it), `ControlProofs`.
3. `EngineRuns`: a task's invocations and the rendezvous with a person,
   `EngineProofs`.
4. `CandidateRounds`: what a run does between its admission and its end.
5. `CandidateWorkspace`, `ExecService`, `LauncherStatus`: where candidate code
   runs and who may write to what.
6. `ReviewExchange` against `ReviewPromise`, `ArchitectureTurns`,
   `ProposalIntake`: what crosses GitHub.
7. `CheckpointStore`: the checkpoint's transaction on the ledger.
8. `ExchangeProofs`, `ReviewsProofs`, `RecordsProofs`, `ServicesProofs`,
   `WaitsProofs`: the components of 3 to 7 proved, and with them the compositions
   that the runs check.
9. Left: discovery and the record cache of the store, what an answer of
   authority grants, inspections and in-process resumption in the rounds, task
   state and receipts as folds with a reference definition.

Several components are checked in one run. `MCWaits`, `MCReviews`, `MCRecords`
and `MCServices` are sums: their first variable names a component, chosen at the
start and never changed, the others' variables are unused, and a property is that
component's, guarded by the choice. The components of a sum share no state, so a
sum has exactly the behaviours of its parts.

The same is the argument of the proofs about them. A component's theorem is
proved of its own module; that a behaviour of the sum is, from its first state
on, one of the component it chose, or never one of it, makes it a theorem about
the sum and the property its run checks. `ReviewsProofs`, `RecordsProofs`,
`ServicesProofs` and `WaitsProofs` extend the modules of their runs and end with
these. `EngineProofs` and `ExchangeProofs`, whose modules declare the same names
for other things, are instantiated by those modules, and their theorems cited.

## The ledger

### Lineage

A task belongs to a lineage of sessions inside one record: its `TaskCreated`
root makes the root's session current, and each `SessionLineageBound` that
names the holder and the current session hands the task to another. `Lineage`
reduces an event to what decides this. `Reconstruct` is `reconstructLineage`'s
pass; `AuthorizeAppend`, `AuthorizeBinding` and `Class` are the writers' and the
readers' use of it. Validation of payloads and framing is one Boolean, `ok`.
The second half of the module says the same by positions (`Established`,
`TipAt`), without a pass. The ledger's module uses the second form, because it is
the one to reason with; `PassAgreesWithPositions` compares the two, on small
records by TLC and on every record by proof.

`LineageCheck` grows every record of up to four events over three sessions,
malformed ones included. Four events are a root, two transitions and one more,
enough for a transition from each of current, superseded and unknown sessions;
an event of another task is skipped by the pass and by every definition.

### SessionLedger

State. `rec[r]` is what a reader of the record's file sees and `disk[r]` what of
it is on stable storage. A content is its whole events and a class: readable;
`torn`, an unterminated last segment whose task is legible (it can be
quarantined); `ambiguous`, a last line that lost only its newline (`Load` reads
it, the inventory refuses it); `corrupt`, any other. `taskLock` and `recLock`
are the OS locks, `lease[p]` the `TaskLease` of a process, `op[w]` the Store
call a thread is in, with the record as it was when the call locked it. `quar`
is the operator's activation, `manifest` the file it publishes. `acked` and
`created` only remember what was returned, for the properties.

Actions. `Acquire`, `Admit` and `Reject` are `AcquireTaskInvocation` before and
after its inventory; `Close`, `End` and `Free` the three parts of `Release`
around its wait. An operation goes `Begin` (the lease's guard), `LockRecord` or
`GiveUp`, `Authorize` or `Refuse`, for a root or a binding `Prove` (the
inventory), then `WriteLine` or `FailWrite`, `Sync`, `Fail`, `Commit`, and on
failure `Undo` or `FailUndo`, where a binding may still count as bound
(`BoundAsRead`); `Return` frees the locks. `Crash` takes one process's locks and
may leave a part of the line it was writing; `PowerLoss` takes all processes and
reverts each record to something between what was on disk and what was seen.
`Examine` to `Leave` is `ActivateQuarantine`.

What is arbitrary. The sessions and the order in which callers ask for
operations, so that no property rests on the engine; whether each write, sync
and undo succeeds; what a failed sync left on disk; where an interrupted write
stopped.

Abstractions, and why they lose nothing the properties tell apart:

* The inventory is read in one step. Whoever changes what another record says of
  task t holds t's lease, which the reader already holds, and unreadable records
  are waited for under their own lock (`Settled`).
* The record cache is a fresh read; whether its own check (`store.go:677`) always
  notices a change is not argued here.
* One lease per process: a process of the model is one invocation, the holder of
  one lease. A program that runs two tasks is two of them, and its death two
  `Crash` steps; the locks are the operating system's, so it makes no difference
  to a lock whether its other holder is the same program.
* A binding's holder is read when it begins, as the engine does.
* `MaxLog` bounds a record's events and stands where the code refuses an event
  or record over its size limit, so reaching it is a refusal, never a block.

### TaskLedger

What the store promises: histories that grow by whole operations of the task's
one owner, each continuing the task's lineage; a durable prefix that is never
lost; on a power loss, a fall back to no earlier than that prefix.
`ImplementsTaskLedger` says that `SessionLedger` implements it, which a run
checks and `LedgerImplements` proves, under the mapping at the end of that module: an operation's events enter the history when
its outcome is settled, and a task is owned while a lease of it is live.

### Runs

| run | instance | shows | distinct states |
|---|---|---|---|
| `ledger_tasks` | two processes of one thread, two records, two sessions, 3 events, torn writes, quarantine | types; an admitted operation holds its task; one creation of a task ever returns; records hold only lineage members and a lease's session is the tip; quarantined claims are reserved | hundreds of thousands |
| `ledger_record` | two processes, one record, two sessions, 4 events, every kind of tear, units | refused leaves no trace; the store implements `TaskLedger`, so what returned is durable for good | 366 thousand |
| `records`, its part `LineageCheck` | one task, three sessions, records of up to 4 events | the pass equals the positional reading; writers admit exactly what readers count | of 2.4 million |
| `services`, its part `SessionLedger` | one process, two threads, one record of one event, every operation, fairness | `Release` returns | of 67 thousand |
| `ledger_ambiguous` | as small as shows it | the disagreement below | violation |

Bounds. Two processes are enough for every race on a lease or a lock; two
records for a task claimed twice; two sessions for a tip and a superseded
session, three for two hand-overs (`records`). Three events are a root, a
binding and an append after it; four add a unit of two. One task suffices in the
ledger because operations of different tasks share only the record's lock and
file, which the second process already contends for. Diagnostics, which hold no
lease, are asked for in `services` and `ledger_ambiguous`.
Symmetry: sessions, records and processes (each with its thread) appear in no
definition by name and the invariants and action properties are symmetric in
them; the run with liveness uses none.

Fairness. Each thread in an operation and each process that is taking or ending
a lease goes on (`WF`): lock waits are bounded by `recordLockWait` and the
caller's context, and everything else is a system call. Nothing makes a caller
ask, release, crash or quarantine. `ReleaseReturns` needs no stronger fairness
because a closing lease admits nothing new.

### What the runs found

* `ledger_ambiguous`: a line that lost only its newline is accepted by
  `readEventsFrom`, so the next append joins it and succeeds, and the record is
  corrupt from then on.
* Seen, and stated by no property: a unit is two lines in one write with nothing
  that ends it (`store.go:611`), so a cut between them leaves a receipt without
  its terminal, where `store.go:109` says they are recorded together.

A quarantine's manifest is synced and the torn bytes it describes are not. A
power loss may take the bytes away; the manifest is then stale and the inventory
refuses every record. The model has this step, and no property denies it.

### What is proved

`SessionLedgerProofs`, from `LedgerAssumption` and `LineageAssumption` only, for
any sets of tasks, sessions, records, processes, threads and any bound:

* `TypeCorrect`: `TypeOK` is inductive once the operators on contents are closed
  on their types (lemmas `AppendedType` to `Outcomes...`).
* `AdmittedHolds`: `AdmittedHoldsTask` is not inductive, since that a lease is
  not ended says nothing of the OS lock. `HeldInv` adds that a lease owns its
  task's lock from `Acquire` until `Free`; `End`, which waits, is then the only
  step that could take it from an operation.
* `OneLeasePerTask`: from `HeldInv`, no two processes hold leases of one task.
* `RecordExclusion`, `RefusedLeaves`: `TraceInv` says that whoever is past
  `lockRecord` owns the record's lock, and that while an operation has not
  written, or has undone, its record is the one it locked. From it, exclusion,
  and `RefusedLeavesNoTrace`.
* `RecordsAreLineal` (`MembersOnly`): a record that loads holds nothing that its
  lineage did not owe. It is proved of every content, on disk or as seen, since a
  power loss brings any of them back; and a part of a write is as good as the
  whole, because a beginning of a lineal record is lineal (`LinealBegins`) and one
  more event that it owes keeps it so (`LinealMore`). `LineInv` carries what was
  authorized from `Authorize` to the end of the operation: that the locked record
  owes it.
* `LineageAlwaysHolds` (`LineageHolds`) adds that the session of a lease is its
  task's current one. `GrownInv`: what is in the record is what was locked, and a
  part of the write after it, all of it once the write returned. `OperInv`: no
  lease is operative while a root or a binding of it is under way, so nothing but
  its own commit moves the tip under a session that may write. Undos and a
  binding that `BoundAsRead` finds committed after a failed undo are in it.
* `QuarantineAlwaysReserves` (`QuarantineReserves`): `ReserveInv` says that a
  manifest claims what its bytes claim and that its publisher owns the locks of
  those tasks. No lease of them lives when it is published, and none is admitted
  later, since the inventory places a record with a manifest only as quarantined
  and then counts its claims.
* `OneRootEver` (`OneRoot`): `SoleInv`, that a task worked on is claimed by no
  second record, holds because a write claims at most the task of its operation
  (`InterruptedClaims`) and an undo claims less; `CreatedInv`, that the root of a
  creation that returned is in its record and on disk, and in what any later
  operation goes back to. A second creation would find the first one's root.
* `LedgerImplements` (`ImplementsTaskLedger`): every run of the store is a run of
  `TaskLedger`. The refinement hides an operation under way, so a record's settled
  events are the base of the one operation that wrote there and is not over, or
  what is seen; that there is one such operation, which owns the record's lock, is
  `LockOwned`. Beginnings, decisions, writes, syncs and undos then stutter. The end
  of an operation adds what is left of its write (`LeftIsGrown`): nothing, its
  first event, or all of it, each continuing the lineage at its place, and by the
  owner of its task, because `HeldInv` says who holds the lease. A crash may add
  the same for each record. For a power loss, `Stored` says that the disk holds
  what the settled events may fall back to: a beginning of them no shorter than
  what was acknowledged, and at most one operation's events after it. It is kept
  by the syncs, since what is seen is such a thing too, and by a binding that
  counts as committed after a failed undo because `SyncedStands` says that what
  was synced is still on the disk.

The theorems above are about records as the positional definitions read them.
That the code's one pass reads them alike is proved in `RecordsProofs`, which
extends the run that grows records; nothing is assumed but, for the writers,
`LineageAssumption`.

* `EveryPassReadsPositions`: of every record of events, of any length, well formed
  or not, the pass finds a lineage exactly where the positions establish one, and
  then reads from it the same holder, tip and owner of each position. First, the
  fold is given its equation, which no library theorem states: a function with the
  recursion of `MapThenFoldSet` exists over the sets of the first `n` positions
  (`PassExists`, by the least `n` for which it would not), two of them agree on a
  common beginning (`PassesAgree`), and so the pass over `Append(h, e)` is the pass
  over `h` and one `Step` (`ReconstructAppend`). Then `PassKept`, with one lemma
  per outcome of `Step`, carries `Passed` from `h` to `Append(h, e)`: without a
  refusal the segments are the turns, in order, and the lineage is established
  once it has a root; with one, the task has a turn and is not established, which
  no later event repairs (`EstablishedBefore`). `PassOfAll` is the induction over
  the length.
* `WritersReadPositions`: `AuthorizeAppend` and `AuthorizeBinding`, which the code
  decides by the pass, are what `SessionLedger` asks by positions.
* `WritersAndReadersAgree`: an event is admitted exactly when `Class` counts it a
  member where it is written. The proof found `Class` ambiguous for a malformed
  event of the current session, whose `CASE` had two true guards; the definition
  now decides `ok` first, as the code's `switch` does.

Of the sum: `PassIsPositions` (`PassAgreesWithPositions`) and `WritersAreReaders`
(`WritersMatchReaders`). Only model-checked: `ReleaseReturns`, since liveness under
fairness is out of the proof system's reach.

## The control plane

### RoleLeases

`leases` is the registry's map. Each operation of `principal.Registry` is one
action, because each is one critical section; `Consult` is those that only read,
and every refusal. All begin by expiring what is past its time (`Current`).

Time is one Boolean of each lease: `late` once the clock has passed its
`ExpiresAt`. Between `Elapse` and the next operation, a lease is late and still
`Active` in the map, which is where a renewal or a reconnection could revive it.
`Register` may fail to mint an identity half-way: the roles granted until then
stay granted, to a caller that got an error. What else a lease says (authority
level, client, protocol, grant times) decides nothing and is left out.

### ControlTurns

| here | in the code |
|---|---|
| `leases` and the registry's operations | `principal.Registry` |
| `turns`, `open` | `rendezvous.open` and its `pending` records, which the runner keeps after they left the map |
| `delegations` | `Server.delegations` |
| `ask[t]` | where the run of task t is in `Resolve` and `remoteRunner.Run` |
| `call[c]` | a tool call in its own goroutine, between two critical sections |
| `Look`, `BindAsked`, `BindRefused` | `Resolve`: `holdingLease` and `Delegated`, then `Bind` |
| `OpenTurn`, `OpenRefused` | the end of `Resolve` and the start of `Run` |
| `TakeAnswer`, `TakeFailure`, `GiveUp`, `Watch`, `Close` | the branches of `Run`'s select and its deferred `Close` |
| `ReleaseRole`, `Collect`, `Abandon` | `releaseRole`: `Release`, `AbandonSession`'s snapshot, `Abandon` of each |
| `AuthorizeSubmission`, `Submit` | `submitTurn`: `Authorize`, then `rendezvous.Submit` |

No operation holds two of the three mutexes, so a step is one critical section,
and everything may happen between two of them: a lease may end between `Look`
and `Bind`, a submission be authorized and its session released before it is
delivered, a turn open after the snapshot of a release.

Abstractions:

* The credential of the server names one principal, `Cred`, so tools act for it
  alone; several principals are in `RoleLeases` and its theorems.
* The run of a task asks one turn at a time, so it alone writes its delegations;
  `rememberDelegation` is one step with opening the turn, since only this run
  could see the difference. Other tasks' runs, which the local channel may
  start in the same process, interleave with it.
* A timer may fire at any time (`GiveUp`), and a turn's time may be past at any
  submission (`Submit` may refuse). The memory of answered turns only chooses
  between two texts of a refusal and is left out. The implementer's turns are
  always local and change nothing.
* Questions, answers and bindings are not modelled, nor are HTTP, its
  authentication and the socket for local objectives. A restart is `Init`.

### Runs

| run | instance | shows | distinct states |
|---|---|---|---|
| `control_turns` | two tasks, two leases, two turns, one tool call at a time | types; one holder; who is asked is bound; an answer is of who was asked; no substitution; nothing ended is revived | 463,822 |
| `waits`, its part `ControlTurns` | one task, two leases, one turn, two tool calls at a time, fairness | a runner leaves a party that is gone | of 412 thousand |

Bounds. Two leases are one of each role, or two successive ones of one role; two
turns are an earlier and a later one, of one task or of two; two calls at once
are a submission and a release of one session. Symmetry: tasks, leases and turns
appear by name in no definition; the run with liveness uses none.

Fairness. `WF` on `Await` of each task: a select goes on with what is ready, its
ticker ticks every `leaseWatchInterval`, and `Close` is straight-line code.
Neither the turn's timer nor any tool call is counted on, so
`NobodyAwaitsTheGone` says that the watch alone frees a runner: also where the
release had taken its snapshot before the turn opened, or where the session ran
out and nobody called.

Seen, and stated by no property: `submit_architecture` (`tools.go:525`) answers
that "the decision
was delivered to the turn that asked for it. It now enters the same [...]
checks". It was put in the turn's buffered channel; if the runner's select takes
its timer, context or failed watch instead (`runner.go:158`), or had left the
select already, the turn fails and the decision enters nothing.

### What is proved

From `LeaseAssumption` and `TurnAssumption` only, for any principals,
workspaces, tasks, leases, turns and calls:

* `ControlProofs`, of the registry: `LeasesTypeCorrect`, `OneHolderAlways`,
  `NoneRevived`. Each rests on what an operation may do to one lease
  (`OtherDoes`, `RegisterDoes`); `OneHolder` is inductive with the types.
* `ControlKeepsLeases`: every step of the control plane is one operation of the
  registry or none, so that it implements `LeaseSpec`, and the registry's
  theorems hold of it (`ControlLeases`).
* `ControlTypeCorrect`: `TypeOK`, whose last parts (a run that waits has a turn
  and a minted session) later proofs need.
* `AnswersOfAsked` from `TurnInv` (a turn is consumed once, by an answer or a
  refusal) and `AskInv` (a run is in the turn it opened); `AskedAreBound` from
  `BoundInv` (what was found of a session still holds when its turn opens) and the
  registry's `LeaseKeeps`; `NoneSubstituted`.

`NobodyAwaitsTheGone` is liveness and stays with TLC.

## The engine's invocations

### EngineRuns

One task. An invocation is its submitted run or a resume, admitted in one
engine; each engine is a process, or at least a bus and a map of admitted
invocations of its own.

| here | in the code |
|---|---|
| `inv[i]` | `invocation` (`failure`, `done` its context, `ended`), and where its goroutine is |
| `em[x]` | the call of `recordUnit` that goroutine `x` is in: waiting for the gate, inside it, or appended and not yet published |
| `gate`, `admitted` | `Engine.recordGates`, the engine's current invocation of the task |
| `lease`, `record` | the task's lease and its events in the session record |
| `published` | what `Bus.Publish` was called with, as positions of the record |
| `stops`, `timedOut` | `Engine.stops`, `Engine.timedOut` (by task, never cleared) |
| `pending`, `box` of an invocation | `Engine.pending` and the channel of `awaitChoice` |
| `hand` | a call of `ResolveHuman` or `DeferAuthority` between its lookup and its send |
| `Emitting`, `Enter`, `GiveUp`, `AppendEvent`, `FailAppend`, `Publish` | `recordUnit`, `enterRecordGate`, `recordHeld`, `fence` |
| `Conclude`, `Settled`, `NoMaterial`, `Unsettled` | `emitRunTerminal` and `settleRefusedMaterial` |
| `Terminate`, `Declined`, `Withdraw` | `terminateRun`, `terminateAuthorityOutcome`, the error paths of `resumeAuthority` |
| `Resume` to `Bound` | `ResumeTask`: admission, lease, binding, the canonical task |
| `Stop`, `Expire`, `TimeOut`, `ClearStop` | the withdrawals, of which `Expire` is the caller's own context |

Everything may happen between two steps of a goroutine: a stop between an
emission's first validation and its second, an end of the invocation while its
provider waits at the gate, another invocation's terminal between a resume's
selection and its binding.

Abstractions:

* Work is arbitrary: `Report`, `Ask`, `Finish` or `Fail`, in any order. Only a
  bounded number of reports (`Talker`) and questions (`MaxAsked`) is recorded,
  since what the properties say of one they say of the next; statuses that a
  handler emits on its way are left out, for they are what `Report` is.
* An emission's kind says only whether it may be recorded after a withdrawal
  (`Account`) and what it makes of the task. Endings that leave the task owing
  (blocked, restoration refused, precondition refused, waiting for a review) are
  one, `parked`.
* The lease and the append are those of `SessionLedger`, which shows that they
  exclude and what a failed append may leave; here an append may fail with or
  without having been recorded.
* A process does not die. An engine that stops leaves its record and lease as
  `SessionLedger` says, and a resume elsewhere is then as here.
* An answer without a provable scope can only be given to a preserved question.

### Runs

| run | instance | shows | distinct states |
|---|---|---|---|
| `records`, its part `EngineRuns` | a run and a resume in one engine, one question each, one report by the run or its provider, human stop | the bus follows the record; one ending each, published; a task that is over stays over; nothing past an invocation's end, nor after a failed append | 1.2 of 2.4 million |
| `waits`, its part `EngineRuns` | one run, two questions, one report, stop and deadline, fairness | an answer reaches its question; a withdrawn run returns without its lease | 0.3 of 0.41 million |
| `engine_question` | a run and a resume, deadline | the disagreement below | violation |

Bounds. Two invocations are what an engine can confuse: the current one and one
that ended or was superseded. One report is enough to be caught at the gate by a
failure, a stop or an end; two questions to give an answer to the wrong one. One
engine, because between engines only the lease and the record are shared, and
both exclude through the lease (`Recording` in `NothingPastTheEnd`). No symmetry:
the run is named, and liveness is checked.

Deadlock is not checked: when every invocation has returned, the system is at
rest.

Fairness. `WF` on opening a submitted run, on each invocation's own steps, on
work that ends once its context is cancelled (providers and tools are run under
that context), and on each emission: its waits are bounded by the context or by
`terminalAppendWait`. Nothing makes a person answer, a caller stop or work finish
by itself. `WithdrawnReturns` holds also where an answer and the withdrawal are
both ready, and where an emission inside the gate still keeps the invocation's
end waiting.

What `engine_question` found: a resume asks a deferred question again; its caller
withdraws (or its deadline passes) while it waits. `awaitChoice` returns the
context's error, and `resumeAuthority` gives it to `terminateAuthorityOutcome`,
which knows a deferral and a stop and takes the rest for a failure. The task ends
`WorkflowFailed`, for good, where a run withdrawn at the same question ends
stopped and can be resumed.

Also seen, and stated by no property:

* The deadline is the caller's own context, and `TimeOut` claims it afterwards.
  `terminateRun` may ask `timedOutBy` in between and record a human stop. A
  resume is never in `stops`, so no claim of its deadline succeeds.
* `TimeOut` may claim a run whose terminal is published but which `clearStop` has
  not yet removed, and `timedOut` is kept for the task's later invocations.
* A wait for the gate that is cancelled halts its invocation from outside the
  gate, so an emission that is inside may still be recorded and published: this
  is why `FailedIsFinal` speaks of failed appends.
* A second answer or deferral that arrives after the first was read and before
  `awaitChoice` returns is accepted and read by nobody.

### What is proved

`EngineProofs`, from `EngineAssumption` (the run and the talkers are invocations,
`None` names no invocation, engine or goroutine, the bound on questions is a number
and the causes are the two the code has), for any invocations, engines and questions
and without fairness. One inductive invariant, `EngineInv`, carries all of it:

* `Types`, and `Gated`: an emission is past the gate exactly while its goroutine
  holds it, so two of them are in the record one after the other.
* `Stands`, of one invocation: at each of its steps, who it is in its engine,
  whether it has the lease, what it and its provider may be emitting and how far
  that has come, and what its ending has recorded. Proved per invocation, since
  one's step changes nothing that another's `Stands` reads but the lease.
* `InOrder` and `Delivered`: what is published is in the record's order, and what
  is recorded is published, about to be, or of an invocation that was fenced.

From it: `PublicationIsInOrder`, `EveryEndingIsAccounted`, `TheTaskIsOverForGood`,
`AnswersReachTheirQuestion`, and the action property `NothingIsLate`. Of the sums:
`DeliveryIsInOrder`, `EndingsAreAccounted`, `TaskIsOverForGood` and
`NothingIsRecordedLate` (`RecordsProofs`), `AnswersAreOfTheirQuestion`
(`WaitsProofs`). `WithdrawnReturns` is liveness and stays with TLC.

## The rounds of a run

### CandidateRounds

What `EngineRuns` calls one stretch of work: `Engine.implement` takes the
implementors in order, `runCandidate` gives each its review cycles, and a cycle is
one invocation, its account against the open review, and an independent review.

| here | in the code |
|---|---|
| `position`, `ineligible`, `tally` | the loop over the configured implementors, who may not implement what they failed to review, and what the loop reports when none is left |
| `cycle`, `awaiting`, `last`, `preceding` | `runCandidate`'s cycle, the resumed candidate that is owed its review, the settled candidate and the attempt an unchanged one is compared with |
| `open` | `Engine.openReviews` of the task |
| `completion` | `cycleCompletion`: what is retained, how often it was tried, its route, its newest committed checkpoint |
| `proven` | the check evidence retained for a candidate's very bytes |
| `Select`, `Skip`, `NoneRemains`, `HandOff`, `CyclesSpent` | `implement`, `handOffCycle` |
| `Serve`, `NoRunner`, `Errs`, `Invalid`, `RefuseScope` | `serveCycleCompletion`, the invocation, its capture, validation and scope |
| `Dispute`, `Incomplete`, `Progress`, `Unowed` | `accountForFindings` and the routes taken on it |
| `Unreviewed`, `Revise`, `Escalate`, `Accept`, `Contradict`, `Judge` | the review and what its verdict leads to |

The run is sequential, and what is hard is not interleaving but memory: four
kinds of state (the open review, the obligation, the checkpoint, the candidate)
each outlive a different part of the loop, and nine ways lead back into it. Every
answer of an agent, reviewer or architect and every failure of a call is a choice.

Abstractions:

* A candidate is the set of findings' paths in which it differs, so a finding has
  moved iff its membership changed since the review raised it. Two candidates
  that differ elsewhere are one; what else moved is no question the loop asks.
* Validation answers the same for the same candidate; the identity of evidence is
  the set of proofs retained for it.
* Inspections, resumption of a live obligation by another process, and refused
  transitions of an obligation that its owner never asks for are left out.

Properties. `ReviewedIsAnswered`: a reviewer sees a candidate only if it answers
every open finding, each change moved and each proof of these very bytes, although
responses are retained across attempts that changed the candidate again.
`CountedIsCommitted`: no attempt is asked for on a count that a crash would forget.
`RunAdvances`: every step raises a lexicographic measure bounded by the
implementors, one replan, the cycles and the allowance, so a run ends under no
assumption but that its calls return.

What `verdict_flips` found: `reviewconsistency.go:29` says that an acceptance of
the candidate a review refused, on the same evidence, goes to the architect. An
escalation forgets the open review before the architect is asked; if that call
fails, the next implementor may leave the candidate as it is, and its review
accepts with nothing to contradict. An adjudication that is unusable ends alike.

Seen, and stated by no property: a diagnosis, a refused scope, an escalation and a
failed dispute leave the obligation's live checkpoint standing and retire nothing,
where only progress does; the allowance is of an obligation, so a replan or a
decision of the architect gives a new one.

### CheckpointStore

`commitCheckpoint` makes an obligation durable: PREPARED in the record, a payload
in a file of its own (temporary, synced, renamed, its directory synced), read back,
COMMITTED in the record.

| here | in the code |
|---|---|
| `held`, `stable` | the checkpoint entries of the record, as read and as on disk |
| `payload`, `place` | the payload files and the directory that holds them |
| `call` | the attempt of `commitCheckpoint` under way, one of `maxCheckpointAttempts` |
| `Load`, `LoadFails` | `checkpointAttempt` up to the fresh identity |
| `WriteEntry`, `SyncEntry`, `SyncRecord`, `AppendFails` | `commitRecordAppend` and `undoAppend` |
| `WriteTemp`, `Persist`, `PayloadFails`, `ReadBack` | `WriteCheckpoint` and `verifyCheckpoint` |
| `Crash`, `PowerLoss` | a process takes the task over under a fresh session |

`ReturnedStands` says that what was returned stays committed and readable through
every later failure, undo, crash and power loss; `PriorIsTrue` that a failure whose
append could be undone names the checkpoint that really stands. One task, since its
lease admits one process; other writers and torn lines are `SessionLedger`'s.
Four identities are enough for three attempts of one call and a checkpoint before
it, two sessions for a restart between any two steps.

Seen, and stated by no property: a failure that could not be undone is reported as
"NOT durable and NOT resumable" (`implementer_incomplete.go:1114`), and its attempt
may be committed; the payload's own directory may be lost with a power failure that
comes before the second append, never after.

### What is proved

* `ReviewsProofs`, for any findings, implementors, cycles and allowance.
  `RoundsInv` says what each of the four memories holds at each step: `Standing`,
  an obligation that is served again has attempts left and those it counts are in
  its newest checkpoint; `Obliged`, it is of the open review; `First`, a resumed
  candidate comes before any finding; `Over`, a run reported
  incomplete has ended and its exhausted checkpoint is committed. Then
  `ReviewersSeeAnswers` (`ReviewedIsAnswered`), `CountedAreCommitted`
  (`CountedIsCommitted`) and `RunsAdvance` (`RunAdvances`): that the measure
  rises by every step, for which its parts must be known to be bounded.
* `RecordsProofs`, for any number of sessions and checkpoints. `CheckpointInv`
  says of the attempt under way what it knows (`Attempted`: the checkpoint it
  follows is the one the record commits, and before COMMITTED its payload is in
  full) and of what was returned that it is committed on disk and in `Firm`, the
  record without the line being written (`Kept`): an undo takes that line only.
  Then `ReturnedCheckpointsStand` (`ReturnedStands`) and `PriorsAreTrue`
  (`PriorIsTrue`).

## Where candidate code runs

### CandidateWorkspace

A candidate's record is replaced under its flock, so each transaction is one step;
what is apart is everything around it. Executions that were launched may go on
writing after their run has died, and other processes hold copies of the record.

| here | in the code |
|---|---|
| `record` | the identity file: an execution in flight, whether it names its baseline, the disposition |
| `trees`, `alive` | the worktrees, and the executions that may still write to one |
| `run` | the run that holds the task's lease, at its step of `validate`, `implement` or `disposeIfEmpty` |
| `Enter` to `Admit` | `containmentCheck`, `Establish`, `BindGraph`, the worktree |
| `BeginExecution` to `QuarantineExecution` | `validate` and `boundedRun` over the transactions of those names |
| `Capture`, `Cleanup` | the candidate's content is read; a baseline is removed |
| `Dispose` to `Removed`, `Retain` | `disposeIfEmpty`, `resolveCandidate` |
| `Load`, `SaveCopy`, `ResolveCopy` | another process, from a copy read earlier |
| `End`, `Crash` | an execution ends by itself; the run dies |

A failing write may have happened. What identifies a candidate (its base, digests,
graph) is left out: it is compared, never changed. `RecordIsTrue` says that nothing
takes a live execution for a settled one or brings a settled one back;
`TouchedIsQuiet` that a worktree is read or removed only when nothing writes to it.
Three executions are one that was settled, one in flight and one whose write of the
record failed; one bystander holds any copy.

### ExecService

The tools an implementer calls are served by a goroutine of each connection. An
effect holds the effects mutex and the authority gate; a revised plan and the
engine's stop take the gate exclusively. A check is candidate code and may call
back, on `Nested`.

`call[c]` is where a call is between two steps of `handle`, `applyPatch`, `readFile`
or `runCheck`; `Ask`, `Install` are `installOperativePlanAttempt` under the gate;
`Stop`, `Close`, `Drained` the three parts of `stop`, `Start` the next invocation's
service. Tools that only list are `read_file`. The file is a version number that
goes round: `MaxEdit` = 1 gives the worst case of an old version coming back.

A check's process runs at `run`; at `output` it is gone and `cmd.Run` still reads
the pipe of its output. What the process starts has that pipe open as well
(`lingers`, with `Linger` and `LetGo`): a service's check is launched without the
status protocol (`execservice.go:825`), so nothing bounds that reading and the kill
reaches one process (`evidence.go:665`). The call holds the mutex and the gate until
it ends.

Fairness. `WF` on each call's own steps, on an installation and on the parts of a
stop, once begun; `SF` on obtaining either lock, since Go's mutexes hand over to a
waiter that has waited for long. The process of a check ends when its own calls are
answered, which assumes that its commands come to an end, or when it is killed.
`LetGo` has no fairness. `EveryoneReturns` then says, of behaviours in which no
check's output is kept open for ever, that calls, a check's calls, installations and
stops never wait on one another and that a stop ends.

That premise is needed. Without it TLC shows a call that waits at `output` for ever,
and behind it whoever waits for the gate: the stop (`gate.Lock`,
`execservice.go:361`), and with it the run, or an installation. The comment at
`execservice.go:357`, "Cancel first, so a running check is killed rather than waited
for", is true of the process the broker started and not of what that process left
running. A `WaitDelay` on the command, or the status protocol's own pipe and
deadline, would bound the wait.

### LauncherStatus

One execution under a wrapper: the wrapper writes a status record, the broker reads
it and the output to their ends, each with a deadline, and waits for the process.
The wrapper may write anything, hang, and be killed; what it starts inherits either
descriptor as long as the wrapper has it open, writes to the status too, and may
keep both while the wrapper runs and after it is gone (`held`, `Inherit`,
`Release`). That a record of its nonce means what it says is all that is trusted of
it (`Write`'s guards). `reader`, `capture` and `main` are the three goroutines of
`Confinement.launch`, `Verdict` what they establish together. A stream has ended
when its last writer closed it (`StreamOver`), which is all that the reader can see.

`SettledIsOver` says that a result "torn down" or "never started" is true of the job
and the descriptors. `LaunchReturns`: the execution is reported once the wrapper has
ended, its status has a whole line, or the stream has ended; `WF` on the broker's
own steps only, so its deadlines do expire. A wrapper that closed its own end is not
enough: as long as it runs and something it started keeps the status open, there is
neither an end of the stream nor a deadline, and validation waits as it does for a
running check, until the wrapper ends or the caller's context does. TLC shows that
behaviour when the premise says `shut` for `StreamOver`.

| run | instance | shows | distinct states |
|---|---|---|---|
| `services` | two connections and a nested one, one revision of the plan, a file of two versions; one execution; the ledger's release (above) | the properties of `ExecService` and `LauncherStatus`, and `ReleaseReturns` | 67,356 |
| `reviews`, its part `CandidateRounds` | two implementors, two cycles, an allowance of two, one finding of each kind | its three properties | of 1.43 million |
| `verdict_flips` | the same with one finding | the disagreement above | violation |
| `records`, its parts `CandidateWorkspace`, `CheckpointStore` | three executions, one bystander; four identities, two sessions | their four properties | of 2.4 million |

## What crosses GitHub

### ReviewExchange and ReviewPromise

A reviewer turn (`Runner.Run`) asks over a conversation, records what is owed in
one file, reads what answers it, stores that in another file, and only then
releases the verdict. A terminal may bring a review by the relay socket, whose
connections are served at once; it is stored as staged, published as a receipt,
and then counts as delivered.

| here | in the code |
|---|---|
| `open`, `about` | the `ExchangeLog` records, with candidate, provider and pinned accounts |
| `store` | the review store's file of each request: digest and evidence |
| `posted`, `answers`, `receipts` | the conversation: requests, reviews of the permitted account, receipts of the publisher; a withdrawal changes none of them, and nobody in the exchange reads it |
| `engine` | the turn, between two calls of `Run`: `Resolve`, `Consult`, `Publish`, `Record`, `Retire`, `Withdraw`, `Poll`, `Accept`, `Rewrite`, `Discharge` |
| `relay[h]` | a submission, between two steps of `AcceptRelayedReview`: `Submit`, `Look`, `Stage`, `Restage`, `Reconcile`, `Post`, `Complete`, `Finish` |
| `CrashEngine`, `CrashControl` | either process dies; the next turn or submission starts from the files |

Every call may fail before or after its effect; reviews may come twice, late, to a
replaced request, and be removed. The store's lock is of one process, so both sides
may read a file before either replaces it (`Rewrite`, `Finish`). A request that an
earlier version recorded without pinned accounts is among the initial states.
`Digest` is ordered, because the first in bytes of agreeing reviews is taken;
`Material` says which agree. Markers, rendering and attestation are left out; the
engine's and the relay's polls are one read of the conversation each.

`ReviewPromise` has only what is owed, answered and told: a request is owed until
its one answer is told, or a later request, already owed, replaces it; answers
never change. `ImplementsReviewPromise` shows that the exchange implements it with
`owed <- open`, the answers those reviews that were delivered, and `told` the
verdicts that turns released. `RelayedIsPublished` is about the files beside it:
what counts as relayed has its receipt on the conversation.

`OneReceipt` holds of one submission at a time, retried across crashes, lost answers
and restarts (`reviews`), and fails of two of one review (`two_receipts`): each
looks for a receipt, finds none, and posts. It is proved of any number of
submissions no two of which are of one review at a time.

### ArchitectureTurns

A remote architect's turn is a goroutine of a process; its exchange record is a
file of the checkout. A process that starts retracts what it finds open (`Start`,
`Reconcile`). A turn is posted, recorded, polled, and either settled by one material
reply or retracted: withdrawn, and closed only if the withdrawal was posted.
`NoneForgotten` says that a recorded request keeps its record until it is withdrawn
or read to its end, whichever call fails and whichever process dies.

What `turn_withdrawn` found: `exchange.go:355` takes every open record for abandoned
by construction, and a second process of the checkout, which starts while a turn of
the first waits, withdraws that live request.

### ProposalIntake

Deliveries arrive again and in any order; the server records a proposal and then
the delivery's receipt, two exclusive creations under its lock; approvers are
processes of their own and share only files. Either may die anywhere, and the
control plane may accept a submission and lose its answer. `ReceiptedIsProposed`:
what is receipted is on disk as it was sent. `SubmittedOnce`: an objective reaches
control at most once, whoever approves and however often.

| run | instance | shows | distinct states |
|---|---|---|---|
| `reviews`, its part `ReviewExchange` | two candidates, one reviewer, two requests, two digests, one submission at a time | the properties above and the refinement | of 1.43 million |
| `records`, its parts `ArchitectureTurns`, `ProposalIntake` | two processes and two turns; two comments, objectives, deliveries and approvers | their three properties | of 2.4 million |
| `two_receipts` | one request, two submissions at once | the disagreement above | violation |
| `turn_withdrawn` | two processes, one turn | the disagreement above | violation |

Bounds. Two requests are one and its replacement; a third replaces the second as
the second the first. Two digests that differ in material are a conflict, and one
twice is an agreement. Two processes are a turn's own and one that reconciles; two
deliveries of two comments with two objectives have redelivery, edit and reordering.
Deadlock is not checked where every request of the bound has been minted or every
run has ended.

### What is proved

Of what crosses GitHub and of where candidate code runs, each from its own
assumption on the constants (effects and the launcher need none).

* `RecordsProofs`, intake: `IntakeTypeCorrect`; `ReceiptsFollowProposals`
  (`ReceiptedIsProposed`), from what the server has read and written at each of
  its steps (`ReceiptInv`); `SubmittedAtMostOnce` (`SubmittedOnce`), from
  `ApprovalInv`: an attempt's file exists as long as any approver is past
  `BeginApproval`, and at most one is, whatever died before it.
* `RecordsProofs`, candidates: `RecordIsAlwaysTrue` and `OnlyQuietIsTouched`.
  Neither is inductive: `Named` says that the record names what is alive whatever
  its disposition, `Standing` what the lease's holder relies on at each of its
  steps, and `SettledStaysSettled` that no bystander's old copy brings an
  execution back.
* `RecordsProofs`, architecture: `RequestsAreNotForgotten` (`NoneForgotten`).
  `TurnStanding` says of each step of a turn what it has posted and recorded.
* `ServicesProofs`: `EffectsAreFresh` (`NoStaleEffect`): an effect under way holds
  the gate, which a revision and a stop take exclusively, and a service that was
  drained or captured is closed. `NoEditIsLost` (`NoLostEdit`): from the effects
  mutex to its answer a call that may write holds it alone (`Mutexed`), so what it
  replaces is what it was written against. `ReportedIsOver` (`SettledIsOver`): in
  `LaunchInv`, what each of the three goroutines has established of the job and
  its descriptors cannot change any more when `Verdict` is made of it.
* `ExchangeProofs`, from `ExchangeAssumption`: `ExchangeImplementsPromise`, the
  refinement, for any candidates, reviewers, digests, submissions and number of
  requests. `Turning` is the argument: at each of its steps the turn knows exactly
  which requests are owed, so that it retires none but the one it read or its own;
  `Grows` says that a stored review is never lost, changed or undelivered, although
  two processes rewrite its file from what each read earlier. And
  `RelayedArePublished` (`RelayedIsPublished`), from what each submission has seen of
  the conversation.
* `ExchangeProofs`, of receipts: `RetriesPostOnce` (`OneReceipt`), for any number of
  submissions and of crashes, under the hypothesis `SubmittedAlone`, that no two
  submissions under way are of one review; without it the property fails, as
  `two_receipts` shows. `OnceInv` is the argument: a receipt is only posted of the
  review that is stored, and whoever posts without a receipt in hand has looked,
  as the only submission of it, when the conversation had none. With one
  submission at a time the hypothesis holds of itself (`OneServerPostsOnce`).

Their sums: `NoneIsForgotten`, `ReceiptsHaveProposals`, `EachSubmittedOnce`,
`CandidateRecordIsTrue`, `CandidateIsTouchedQuiet` (`RecordsProofs`),
`EffectsAreNeverStale`, `EditsAreKept`, `SettledAreOver` (`ServicesProofs`),
`RelaysArePublished`, `ReviewsKeepThePromise` and, of one submission at a time,
`ReviewsHaveOneReceipt` (`ReviewsProofs`).

Only model-checked, of the whole project: liveness, that is `NobodyAwaitsTheGone`,
`WithdrawnReturns`, `EveryoneReturns`, `LaunchReturns`, `ReleaseReturns`.

## Not modelled

* Of the store: discovery (`FindActive`, `FindInterrupted`), which folds records
  into lists, and the record cache (`store.go:677`), whose hazard stays open: it
  rests on a file's identity, length and times.
* Of the engine: what an answer of authority grants and to which edits it extends
  (`authority.go`, `prospective.go`, `testedit.go`), routing, assisted and routine
  modes. The deadline's claim against the run's own ending (`assisted.go:188`) is in
  `EngineRuns`, and no property requires either outcome.
* Of the control plane: HTTP, the local objective channel, and what a task may do
  after a restart, which forgets its delegations (`control/runner.go:60`).
* Of the bridge: attestation, the doorbell, snapshots, markers.
* `taskstate` and `runreceipt`, pure folds of a record.
* Text (payload validation, prompts, verdict decoding), the graph and diff
  analyses, external programs (git, agents, the Sensei service), rendering,
  configuration and the benchmarks: sequential code over data that unit tests
  reach.
