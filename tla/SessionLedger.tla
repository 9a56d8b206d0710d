---------------------------- MODULE SessionLedger ----------------------------
(***************************************************************************)
(* The durable ledger of governed tasks: internal/session/store.go.        *)
(*                                                                         *)
(* A repository holds session records, append-only files of events.  A     *)
(* task lives in exactly one of them, under a chain of sessions.  Whoever  *)
(* writes for a task holds the task's invocation lease, an OS lock beside  *)
(* every record, and takes the record's own OS lock for one operation.     *)
(* Processes die between any two steps, the machine loses power, writes    *)
(* and syncs and undos fail, and an operator may quarantine a torn record. *)
(*                                                                         *)
(* A thread of a process carries one Store operation at a time through the *)
(* steps of its code; the operations it may ask for are arbitrary, so that *)
(* nothing rests on the engine calling them in a sensible order.           *)
(***************************************************************************)
EXTENDS Lineage

CONSTANTS Record,        \* session records of the repository
          Proc,          \* processes; each holds at most one lease at a time
          Thread,        \* their threads
          ProcOf,        \* the process of a thread
          Operator,      \* the process of `sensei-code quarantine activate`
          None,
          Asked,         \* the kinds of operation an instance asks for
          Tears,         \* what an interrupted write may leave of its event
          MaxLog         \* bound on the events of one record

Kind == {"append", "durable", "unit", "root", "bind", "continue", "diagnostic"}

ASSUME LedgerAssumption ==
  /\ ProcOf \in [Thread -> Proc]
  /\ None \notin Task \cup Record \cup Proc \cup Thread \cup {Operator}
  /\ Operator \notin Proc \cup Thread
  /\ Asked \subseteq Kind
  /\ Tears \subseteq {"torn", "ambiguous", "corrupt"}
  /\ MaxLog \in Nat

VARIABLES
  rec,       \* what a reader of each record's file sees
  disk,      \* what of it is on stable storage
  manifest,  \* the quarantine manifest beside each record: one or none
  taskLock,  \* the holder of each task's invocation lock
  recLock,   \* the holder of each record's lock
  lease,     \* the TaskLease of each process
  op,        \* the operation each thread is in
  quar,      \* the operator's activation
  acked,     \* history: each record's events at its last durable return
  created    \* history: the records in which each task's creation returned

history == <<acked, created>>

vars == <<rec, disk, manifest, taskLock, recLock, lease, op, quar, history>>

-----------------------------------------------------------------------------
(* The bytes of a record: its events in order, and its class.  "torn" is a *)
(* torn record whose every claim is legible, tail being the task its       *)
(* unterminated segment names; "ambiguous" is one whose last event lacks   *)
(* only its newline; "corrupt" is any other, a torn one that hides a claim *)
(* included.                                                               *)

RecordClass == {"readable", "torn", "ambiguous", "corrupt"}

Content == [log : Seq(Event), class : RecordClass, tail : Task \cup {NoTask}]

Whole(log) == [log |-> log, class |-> "readable", tail |-> NoTask]

Absent == Whole(<<>>)

\* Load reads an unterminated last line like any other.
Loads(c) == c.class \in {"readable", "ambiguous"}

\* O_APPEND of whole lines.
Appended(c, evs) ==
  IF evs = <<>> THEN c
  ELSE [c EXCEPT !.log = @ \o evs,
                 !.class = IF @ = "readable" THEN "readable" ELSE "corrupt"]

\* A write that stopped inside the line of e, as the tear k.
Torn(c, e, k) ==
  IF c.class # "readable" THEN [c EXCEPT !.class = "corrupt"]
  ELSE CASE k = "torn"      -> [c EXCEPT !.class = k, !.tail = e.task]
         [] k = "ambiguous" -> [c EXCEPT !.class = k, !.log = Append(@, e)]
         [] k = "corrupt"   -> [c EXCEPT !.class = k]

\* All that a write of evs that did not complete may leave in the file: some
\* of its lines whole, and a part of the next.
Interrupted(c, evs) ==
  LET kept(n) == Appended(c, SubSeq(evs, 1, n))
  IN {kept(n) : n \in 0..Len(evs)} \cup
     {Torn(kept(n - 1), evs[n], k) : n \in DOMAIN evs, k \in Tears}

\* rootClaims, and the task a torn tail names.
Claims(c) ==
  {t \in Task : Rooted(c.log, t)} \cup (IF c.class = "torn" THEN {c.tail} \ {NoTask} ELSE {})

\* What a power loss may leave where d is on stable storage and c was seen.
Survivors(d, c) ==
  {d, c} \cup IF c # d /\ d.class = "readable" /\ IsPrefix(d.log, c.log)
              THEN Interrupted(d, SubSeq(c.log, Len(d.log) + 1, Len(c.log))) ELSE {}

\* Each record in one of the states that F gives it.
Outcomes(F) ==
  {f \in [Record -> UNION {F[r] : r \in Record}] : \A r \in Record : f[r] \in F[r]}

-----------------------------------------------------------------------------
(* Leases and operations.                                                  *)

NoLease == [st |-> "none", task |-> NoTask, rec |-> None, sess |-> NoSession]

Idle == [pc |-> "idle", kind |-> "diagnostic", evs |-> <<>>, rec |-> None,
         base |-> Absent, synced |-> FALSE]

NoActivation == [pc |-> "idle", rec |-> None, snap |-> Absent, held |-> {}]

Busy(w) == op[w].pc # "idle"

\* The operations a lease has admitted and not ended: its ops count.
Admitted(p) == {w \in Thread : ProcOf[w] = p /\ Busy(w) /\ op[w].kind # "diagnostic"}

Durable(w) == op[w].kind \notin {"append", "diagnostic"}

\* The task and the session of the operation: those of its first event.
TaskOf(w) == op[w].evs[1].task
SessOf(w) == op[w].evs[1].sess

\* The events that an operation writes; a continuation only names its session.
Written(k, t, s, h, parent) ==
  LET ev(kind) == [task |-> t, sess |-> s, kind |-> kind,
                   holder |-> NoSession, parent |-> NoSession, ok |-> TRUE]
  IN CASE k = "root" -> <<ev("root")>>
       [] k = "bind" -> <<[ev("bound") EXCEPT !.holder = h, !.parent = parent]>>
       [] k = "unit" -> <<ev("receipt"), ev("other")>>
       [] OTHER      -> <<ev("other")>>

Init ==
  /\ rec = [r \in Record |-> Absent]
  /\ disk = [r \in Record |-> Absent]
  /\ manifest = [r \in Record |-> {}]
  /\ taskLock = [t \in Task |-> None]
  /\ recLock = [r \in Record |-> None]
  /\ lease = [p \in Proc |-> NoLease]
  /\ op = [w \in Thread |-> Idle]
  /\ quar = NoActivation
  /\ acked = [r \in Record |-> <<>>]
  /\ created = [t \in Task |-> {}]

-----------------------------------------------------------------------------
(* The claim inventory.                                                    *)

\* A manifest excludes a record only while it matches its exact bytes.
Quarantined(r) == rec[r].class = "torn" /\ \E m \in manifest[r] : m.snap = rec[r]

\* A record the inventory can place: it reads and has no manifest beside it
\* (an absent one likewise) and roots no task twice, or it is quarantined.
Inventoried(r) ==
  \/ /\ rec[r].class = "readable"
     /\ manifest[r] = {}
     /\ \A t \in Task : Cardinality(Roots(rec[r].log, t)) <= 1
  \/ Quarantined(r)

\* An unreadable record is read again under its own lock, unless w holds it.
Settled(w) == \A r \in Record : rec[r].class # "readable" => recLock[r] \in {None, w}

SoleTaskLedger(t, r) ==
  /\ \A q \in Record : Inventoried(q)
  /\ ~Quarantined(r)
  /\ \A q \in Record \ {r} : t \notin Claims(rec[q])

-----------------------------------------------------------------------------
(* The task's invocation lease.                                            *)

\* AcquireTaskInvocation takes the OS lock; while another holds it, the call
\* waits and is refused without a trace.
Acquire(p, t, r) ==
  /\ lease[p].st = "none"
  /\ taskLock[t] = None
  /\ taskLock' = [taskLock EXCEPT ![t] = p]
  /\ lease' = [lease EXCEPT ![p] = [st |-> "proving", task |-> t, rec |-> r, sess |-> NoSession]]
  /\ UNCHANGED <<rec, disk, manifest, recLock, op, quar, history>>

\* Fault: the lease is given before the record is proved the task's only one.
AdmitUnproved(p) ==
  /\ lease[p].st = "proving"
  /\ lease' = [lease EXCEPT ![p].st = "live"]
  /\ UNCHANGED <<rec, disk, manifest, taskLock, recLock, op, quar, history>>

\* Under the lock, the record must be the task's only possible ledger.
Admit(p) ==
  /\ lease[p].st = "proving"
  /\ Settled(None)
  /\ SoleTaskLedger(lease[p].task, lease[p].rec)
  /\ lease' = [lease EXCEPT ![p].st = "live"]
  /\ UNCHANGED <<rec, disk, manifest, taskLock, recLock, op, quar, history>>

Reject(p) ==
  /\ lease[p].st = "proving"
  /\ ~(Settled(None) /\ SoleTaskLedger(lease[p].task, lease[p].rec))
  /\ taskLock' = [taskLock EXCEPT ![lease[p].task] = None]
  /\ lease' = [lease EXCEPT ![p] = NoLease]
  /\ UNCHANGED <<rec, disk, manifest, recLock, op, quar, history>>

\* Release closes the lease to new operations, waits for the admitted ones,
\* and only then ends it and frees the OS lock.
Close(p) ==
  /\ lease[p].st = "live"
  /\ lease' = [lease EXCEPT ![p].st = "closing"]
  /\ UNCHANGED <<rec, disk, manifest, taskLock, recLock, op, quar, history>>

\* Fault: Release does not wait for the operations it admitted.
EndAtOnce(p) ==
  /\ lease[p].st = "closing"
  /\ lease' = [lease EXCEPT ![p].st = "ended", ![p].sess = NoSession]
  /\ UNCHANGED <<rec, disk, manifest, taskLock, recLock, op, quar, history>>

End(p) ==
  /\ lease[p].st = "closing"
  /\ Admitted(p) = {}
  /\ lease' = [lease EXCEPT ![p].st = "ended", ![p].sess = NoSession]
  /\ UNCHANGED <<rec, disk, manifest, taskLock, recLock, op, quar, history>>

\* Fault: only the task of a freed lease is cleared.
FreeInPart(p) ==
  /\ lease[p].st = "ended"
  /\ taskLock' = [taskLock EXCEPT ![lease[p].task] = None]
  /\ lease' = [lease EXCEPT ![p].task = NoTask]
  /\ UNCHANGED <<rec, disk, manifest, recLock, op, quar, history>>

Free(p) ==
  /\ lease[p].st = "ended"
  /\ taskLock' = [taskLock EXCEPT ![lease[p].task] = None]
  /\ lease' = [lease EXCEPT ![p] = NoLease]
  /\ UNCHANGED <<rec, disk, manifest, recLock, op, quar, history>>

-----------------------------------------------------------------------------
(* One operation: guard, record lock, authorization, inventory, write,     *)
(* sync, verification, undo.                                               *)

\* Fault: a closing lease still admits operations.
BeginWhileClosing(w, k, s, parent) ==
  LET l == lease[ProcOf[w]]
      h == IF Rooted(rec[l.rec].log, l.task) THEN HolderOf(rec[l.rec].log, l.task) ELSE NoSession
  IN /\ ~Busy(w)
     /\ k # "diagnostic"
     /\ l.st \in {"live", "closing"}
     /\ op' = [op EXCEPT ![w] = [Idle EXCEPT !.pc = "guarded", !.kind = k, !.rec = l.rec,
                                             !.evs = Written(k, l.task, s, h, parent)]]
     /\ UNCHANGED <<rec, disk, manifest, taskLock, recLock, lease, quar, history>>

\* guardTaskLease: the lease is live and of this task and record.  What else
\* the caller asks for is arbitrary; a binding states the holder it read.
Begin(w, k, s, parent) ==
  LET l == lease[ProcOf[w]]
      h == IF Rooted(rec[l.rec].log, l.task) THEN HolderOf(rec[l.rec].log, l.task) ELSE NoSession
  IN /\ ~Busy(w)
     /\ k # "diagnostic"
     /\ l.st = "live"
     /\ op' = [op EXCEPT ![w] = [Idle EXCEPT !.pc = "guarded", !.kind = k, !.rec = l.rec,
                                             !.evs = Written(k, l.task, s, h, parent)]]
     /\ UNCHANGED <<rec, disk, manifest, taskLock, recLock, lease, quar, history>>

\* AppendDiagnostic needs no lease.
BeginDiagnostic(w, s, r) ==
  /\ ~Busy(w)
  /\ op' = [op EXCEPT ![w] = [Idle EXCEPT !.pc = "guarded", !.kind = "diagnostic", !.rec = r,
                                          !.evs = Written("diagnostic", NoTask, s, NoSession, NoSession)]]
  /\ UNCHANGED <<rec, disk, manifest, taskLock, recLock, lease, quar, history>>

\* lockRecord: bounded by recordLockWait, cancelled by the caller's context.
LockRecord(w) ==
  /\ op[w].pc = "guarded"
  /\ recLock[op[w].rec] = None
  /\ recLock' = [recLock EXCEPT ![op[w].rec] = w]
  /\ op' = [op EXCEPT ![w].pc = "locked", ![w].base = rec[op[w].rec]]
  /\ UNCHANGED <<rec, disk, manifest, taskLock, lease, quar, history>>

GiveUp(w) ==
  /\ op[w].pc = "guarded"
  /\ op' = [op EXCEPT ![w] = Idle]
  /\ UNCHANGED <<rec, disk, manifest, taskLock, recLock, lease, quar, history>>

\* What the record as it stands, and the session the lease is operative for,
\* admit.
AdmitsRoot(log, e, s) == s = NoSession /\ Turns(log, e.task) = {}

AdmitsBinding(log, e, s) ==
  /\ s = NoSession
  /\ Established(log, e.task)
  /\ e.holder = HolderOf(log, e.task)
  /\ e.parent = TipOf(log, e.task)
  /\ \A i \in Turns(log, e.task) : log[i].sess # e.sess

AdmitsAppend(log, e, s) ==
  Established(log, e.task) /\ e.sess = TipOf(log, e.task) /\ s = e.sess

\* Fault: a session continues the task without being its current one.
AdmitsContinuationOfAny(log, e, s) == Established(log, e.task) /\ s \in {NoSession, e.sess}

AdmitsContinuation(log, e, s) ==
  Established(log, e.task) /\ e.sess = TipOf(log, e.task) /\ s \in {NoSession, e.sess}

Admissible(w) ==
  LET log == rec[op[w].rec].log
      e == op[w].evs[1]
      s == lease[ProcOf[w]].sess
  IN CASE op[w].kind = "root"       -> AdmitsRoot(log, e, s)
       [] op[w].kind = "bind"       -> AdmitsBinding(log, e, s)
       [] op[w].kind = "continue"   -> AdmitsContinuation(log, e, s)
       [] op[w].kind = "diagnostic" -> TRUE
       [] OTHER                     -> AdmitsAppend(log, e, s)

\* A record at the bound takes no more events.
Authorized(w) ==
  /\ Loads(rec[op[w].rec])
  /\ Admissible(w)
  /\ op[w].kind # "continue" => Len(rec[op[w].rec].log) + Len(op[w].evs) <= MaxLog

Authorize(w) ==
  /\ op[w].pc = "locked"
  /\ op[w].kind # "continue"
  /\ Authorized(w)
  /\ op' = [op EXCEPT ![w].pc = IF op[w].kind \in {"root", "bind"} THEN "proving" ELSE "writing"]
  /\ UNCHANGED <<rec, disk, manifest, taskLock, recLock, lease, quar, history>>

\* ContinueTaskSession writes nothing.
Continue(w) ==
  /\ op[w].pc = "locked"
  /\ op[w].kind = "continue"
  /\ Authorized(w)
  /\ lease' = [lease EXCEPT ![ProcOf[w]].sess = SessOf(w)]
  /\ op' = [op EXCEPT ![w].pc = "returning"]
  /\ UNCHANGED <<rec, disk, manifest, taskLock, recLock, quar, history>>

\* soleTaskLedger, under the record lock, before a root or a binding.
Prove(w) ==
  /\ op[w].pc = "proving"
  /\ Settled(w)
  /\ SoleTaskLedger(TaskOf(w), op[w].rec)
  /\ op' = [op EXCEPT ![w].pc = "writing"]
  /\ UNCHANGED <<rec, disk, manifest, taskLock, recLock, lease, quar, history>>

\* Every refusal under the record lock, before a byte is written.
Refuse(w) ==
  /\ \/ op[w].pc = "locked" /\ ~Authorized(w)
     \/ op[w].pc = "proving" /\ ~(Settled(w) /\ SoleTaskLedger(TaskOf(w), op[w].rec))
  /\ op' = [op EXCEPT ![w].pc = "refused"]
  /\ UNCHANGED <<rec, disk, manifest, taskLock, recLock, lease, quar, history>>

WriteLine(w) ==
  /\ op[w].pc = "writing"
  /\ rec' = [rec EXCEPT ![op[w].rec] = Appended(@, op[w].evs)]
  /\ op' = [op EXCEPT ![w].pc = "written"]
  /\ UNCHANGED <<disk, manifest, taskLock, recLock, lease, quar, history>>

\* A write that fails, with none or a part of the line in the file.
FailWrite(w) ==
  /\ op[w].pc = "writing"
  /\ \E c \in Interrupted(rec[op[w].rec], op[w].evs) : rec' = [rec EXCEPT ![op[w].rec] = c]
  /\ op' = [op EXCEPT ![w].pc = "undoing"]
  /\ UNCHANGED <<disk, manifest, taskLock, recLock, lease, quar, history>>

Sync(w) ==
  /\ op[w].pc = "written"
  /\ Durable(w)
  /\ disk' = [disk EXCEPT ![op[w].rec] = rec[op[w].rec]]
  /\ op' = [op EXCEPT ![w].pc = "synced", ![w].synced = TRUE]
  /\ UNCHANGED <<rec, manifest, taskLock, recLock, lease, quar, history>>

\* A failed sync, close, directory sync, length check or read-back.  What was
\* written may or may not have reached the disk by itself.
Fail(w) ==
  /\ op[w].pc \in {"written", "synced"}
  /\ \E c \in {disk[op[w].rec], rec[op[w].rec]} : disk' = [disk EXCEPT ![op[w].rec] = c]
  /\ op' = [op EXCEPT ![w].pc = "undoing"]
  /\ UNCHANGED <<rec, manifest, taskLock, recLock, lease, quar, history>>

\* The lease is operative for the session of the root or binding committed
\* through it, and what a durable operation returned is remembered.
Committed(w) ==
  /\ acked' = IF Durable(w) THEN [acked EXCEPT ![op[w].rec] = rec[op[w].rec].log] ELSE acked
  /\ lease' = IF op[w].kind \in {"root", "bind"}
              THEN [lease EXCEPT ![ProcOf[w]].sess = SessOf(w)] ELSE lease
  /\ created' = IF op[w].kind = "root"
                THEN [created EXCEPT ![TaskOf(w)] = @ \cup {op[w].rec}] ELSE created
  /\ op' = [op EXCEPT ![w].pc = "returning"]

Commit(w) ==
  /\ op[w].pc = IF Durable(w) THEN "synced" ELSE "written"
  /\ Committed(w)
  /\ UNCHANGED <<rec, disk, manifest, taskLock, recLock, quar>>

\* Fault: an undo that syncs the record but does not truncate it.
UndoUntruncated(w) ==
  /\ op[w].pc = "undoing"
  /\ disk' = [disk EXCEPT ![op[w].rec] = rec[op[w].rec]]
  /\ op' = [op EXCEPT ![w].pc = "refused"]
  /\ UNCHANGED <<rec, manifest, taskLock, recLock, lease, quar, history>>

\* The record truncated to its length under the lock, and synced.
Undo(w) ==
  /\ op[w].pc = "undoing"
  /\ rec' = [rec EXCEPT ![op[w].rec] = op[w].base]
  /\ disk' = [disk EXCEPT ![op[w].rec] = op[w].base]
  /\ op' = [op EXCEPT ![w].pc = "refused"]
  /\ UNCHANGED <<manifest, taskLock, recLock, lease, quar, history>>

\* boundAsRead: a binding whose sync completed and that reads back is bound.
BoundAsRead(w, c) ==
  /\ op[w].kind = "bind" /\ op[w].synced
  /\ Loads(c)
  /\ Established(c.log, TaskOf(w))
  /\ TipOf(c.log, TaskOf(w)) = SessOf(w)

\* The undo itself fails: nothing was truncated, or the truncation was not
\* synced.  Only a binding on stable storage is then still committed.
FailUndo(w) ==
  /\ op[w].pc = "undoing"
  /\ \/ UNCHANGED rec
     \/ rec' = [rec EXCEPT ![op[w].rec] = op[w].base]
  /\ IF BoundAsRead(w, rec'[op[w].rec])
     THEN Committed(w)
     ELSE op' = [op EXCEPT ![w].pc = "unknown"] /\ UNCHANGED <<lease, history>>
  /\ UNCHANGED <<disk, manifest, taskLock, recLock, quar>>

\* The deferred releases: the record lock, then the lease's admission.
Return(w) ==
  /\ op[w].pc \in {"returning", "refused", "unknown"}
  /\ recLock' = [recLock EXCEPT ![op[w].rec] = None]
  /\ op' = [op EXCEPT ![w] = Idle]
  /\ UNCHANGED <<rec, disk, manifest, taskLock, lease, quar, history>>

-----------------------------------------------------------------------------
(* Death of a process, and of the machine.                                 *)

\* The kernel frees every lock of a dead process; an interrupted write leaves
\* none or a part of its line.
Crash(p) ==
  LET dead == {w \in Thread : ProcOf[w] = p}
      cut(r) == {w \in dead : op[w].pc = "writing" /\ op[w].rec = r}
  IN /\ lease[p].st # "none" \/ \E w \in dead : Busy(w)
     /\ rec' \in Outcomes([r \in Record |->
                   {rec[r]} \cup UNION {Interrupted(rec[r], op[w].evs) : w \in cut(r)}])
     /\ op' = [w \in Thread |-> IF w \in dead THEN Idle ELSE op[w]]
     /\ recLock' = [r \in Record |-> IF recLock[r] \in dead THEN None ELSE recLock[r]]
     /\ taskLock' = [t \in Task |-> IF taskLock[t] = p THEN None ELSE taskLock[t]]
     /\ lease' = [lease EXCEPT ![p] = NoLease]
     /\ UNCHANGED <<disk, manifest, quar, history>>

PowerLoss ==
  /\ rec' \in Outcomes([r \in Record |-> Survivors(disk[r], rec[r])])
  /\ disk' = rec'
  /\ manifest' \in Outcomes([r \in Record |-> {manifest[r], {m \in manifest[r] : m.durable}}])
  /\ taskLock' = [t \in Task |-> None]
  /\ recLock' = [r \in Record |-> None]
  /\ lease' = [p \in Proc |-> NoLease]
  /\ op' = [w \in Thread |-> Idle]
  /\ quar' = NoActivation
  /\ UNCHANGED history

-----------------------------------------------------------------------------
(* ActivateQuarantine: leases of every claimed task, then the record lock, *)
(* then the manifest, published exclusively and synced.                    *)

\* The owner authorizes the exact bytes they examined.
Examine(r) ==
  /\ quar.pc = "idle"
  /\ rec[r].class = "torn"
  /\ quar' = [pc |-> "leasing", rec |-> r, snap |-> rec[r], held |-> {}]
  /\ UNCHANGED <<rec, disk, manifest, taskLock, recLock, lease, op, history>>

LeaseClaim(t) ==
  /\ quar.pc = "leasing"
  /\ t \in Claims(quar.snap) \ quar.held
  /\ taskLock[t] = None
  /\ taskLock' = [taskLock EXCEPT ![t] = Operator]
  /\ quar' = [quar EXCEPT !.held = @ \cup {t}]
  /\ UNCHANGED <<rec, disk, manifest, recLock, lease, op, history>>

\* Fault: a quarantine is published under the lease of no claimed task.
LockTornUnleased ==
  /\ quar.pc = "leasing"
  /\ recLock[quar.rec] = None
  /\ recLock' = [recLock EXCEPT ![quar.rec] = Operator]
  /\ quar' = [quar EXCEPT !.pc = "locked"]
  /\ UNCHANGED <<rec, disk, manifest, taskLock, lease, op, history>>

LockTorn ==
  /\ quar.pc = "leasing"
  /\ quar.held = Claims(quar.snap)
  /\ recLock[quar.rec] = None
  /\ recLock' = [recLock EXCEPT ![quar.rec] = Operator]
  /\ quar' = [quar EXCEPT !.pc = "locked"]
  /\ UNCHANGED <<rec, disk, manifest, taskLock, lease, op, history>>

Publish ==
  /\ quar.pc = "locked"
  /\ rec[quar.rec] = quar.snap
  /\ manifest[quar.rec] = {}
  /\ manifest' = [manifest EXCEPT ![quar.rec] =
                    {[snap |-> quar.snap, claims |-> Claims(quar.snap), durable |-> FALSE]}]
  /\ quar' = [quar EXCEPT !.pc = "published"]
  /\ UNCHANGED <<rec, disk, taskLock, recLock, lease, op, history>>

SyncManifest ==
  /\ quar.pc = "published"
  /\ \E m \in manifest[quar.rec] : ~m.durable
  /\ manifest' = [manifest EXCEPT ![quar.rec] = {[m EXCEPT !.durable = TRUE] : m \in @}]
  /\ UNCHANGED <<rec, disk, taskLock, recLock, lease, op, quar, history>>

\* Success, every refusal, an unconfirmed publication and the death of the
\* operator's process: the leases and the record lock are freed.
Leave ==
  /\ quar.pc # "idle"
  /\ taskLock' = [t \in Task |-> IF taskLock[t] = Operator THEN None ELSE taskLock[t]]
  /\ recLock' = [r \in Record |-> IF recLock[r] = Operator THEN None ELSE recLock[r]]
  /\ quar' = NoActivation
  /\ UNCHANGED <<rec, disk, manifest, lease, op, history>>

-----------------------------------------------------------------------------
Ask(w) ==
  \E k \in Asked, s \in Session :
    IF k = "diagnostic"
    THEN \E r \in Record : BeginDiagnostic(w, s, r)
    ELSE \E q \in Session \cup {NoSession} :
           (k # "bind" => q = NoSession) /\ Begin(w, k, s, q)

Decide(w) == LockRecord(w) \/ GiveUp(w) \/ Authorize(w) \/ Continue(w) \/ Prove(w) \/ Refuse(w)

Effect(w) ==
  WriteLine(w) \/ FailWrite(w) \/ Sync(w) \/ Fail(w) \/ Commit(w) \/ Undo(w) \/ FailUndo(w) \/ Return(w)

Advance(w) == Decide(w) \/ Effect(w)

Holder(p) == Admit(p) \/ Reject(p) \/ End(p) \/ Free(p)

Activate ==
  \/ \E r \in Record : Examine(r)
  \/ \E t \in Task : LeaseClaim(t)
  \/ LockTorn \/ Publish \/ SyncManifest \/ Leave

Next ==
  \/ \E w \in Thread : Ask(w) \/ Advance(w)
  \/ \E p \in Proc : Holder(p) \/ Close(p) \/ Crash(p)
  \/ \E p \in Proc, t \in Task, r \in Record : Acquire(p, t, r)
  \/ PowerLoss
  \/ Activate

\* Every wait of an operation is bounded, so a thread that is in one and a
\* process that is ending a lease always go on; nobody has to ask.
Fairness ==
  /\ \A w \in Thread : WF_vars(Advance(w))
  /\ \A p \in Proc : WF_vars(Holder(p))

Spec == Init /\ [][Next]_vars

FairSpec == Spec /\ Fairness

-----------------------------------------------------------------------------
(* Properties.                                                             *)

LeaseType == [st : {"none", "proving", "live", "closing", "ended"}, task : Task \cup {NoTask},
              rec : Record \cup {None}, sess : Session \cup {NoSession}]

PC == {"idle", "guarded", "locked", "proving", "writing", "written", "synced", "undoing",
       "returning", "refused", "unknown"}

OpType == [pc : PC, kind : Kind, evs : Seq(Event), rec : Record \cup {None},
           base : Content, synced : BOOLEAN]

ManifestType == [snap : Content, claims : SUBSET Task, durable : BOOLEAN]

QuarType == [pc : {"idle", "leasing", "locked", "published"}, rec : Record \cup {None},
             snap : Content, held : SUBSET Task]

FilesOK ==
  /\ rec \in [Record -> Content]
  /\ disk \in [Record -> Content]
  /\ manifest \in [Record -> SUBSET ManifestType]
  /\ acked \in [Record -> Seq(Event)]
  /\ created \in [Task -> SUBSET Record]

LeasesOK ==
  /\ taskLock \in [Task -> Proc \cup {None, Operator}]
  /\ lease \in [Proc -> LeaseType]
  /\ \A p \in Proc : lease[p].st # "none" => lease[p].task \in Task /\ lease[p].rec \in Record

OpsOK ==
  /\ recLock \in [Record -> Thread \cup {None, Operator}]
  /\ op \in [Thread -> OpType]
  /\ \A w \in Thread : Busy(w) => op[w].evs # <<>> /\ op[w].rec \in Record

QuarOK == quar \in QuarType /\ (quar.pc # "idle" => quar.rec \in Record)

\* The type of every variable; a lease that exists and an operation that runs
\* name a task, a record and an event.
TypeOK == FilesOK /\ LeasesOK /\ OpsOK /\ QuarOK

\* Whoever is inside an operation of a task holds that task's invocation
\* lease, not yet ended, and its OS lock: no Release, and no other process,
\* overtakes an operation the lease admitted.
AdmittedHoldsTask ==
  \A w \in Thread : Busy(w) /\ op[w].kind # "diagnostic" =>
    /\ lease[ProcOf[w]].st \in {"live", "closing"}
    /\ lease[ProcOf[w]].task = TaskOf(w)
    /\ lease[ProcOf[w]].rec = op[w].rec
    /\ taskLock[TaskOf(w)] = ProcOf[w]

\* Of all the creations of one task that ever returned, in any record, one
\* succeeded; and a task that two records claim -- a root whose undo was lost
\* with the power may come back beside another -- is worked on by nobody.
OneRoot ==
  /\ \A t \in Task : Cardinality(created[t]) <= 1
  /\ \A t \in Task, r, q \in Record : r # q /\ t \in Claims(rec[r]) /\ t \in Claims(rec[q]) =>
       \A p \in Proc : lease[p].st \in {"live", "closing"} => lease[p].task # t

\* Every record that loads is wholly of the lineage: each task in it has one
\* root and the turns the record owed, and every other event of the task was
\* written by the session current at its position.
MembersOnly ==
  \A r \in Record : Loads(rec[r]) =>
    LET log == rec[r].log
    IN /\ \A t \in Task : Turns(log, t) # {} => Established(log, t)
       /\ \A i \in DOMAIN log : log[i].task # NoTask => log[i].sess = TipAt(log, log[i].task, i)

\* The session a lease is operative for is the current session of its task,
\* in the record it was taken through, for as long as the lease lives.
OperativeIsTip ==
  \A p \in Proc : lease[p].sess # NoSession =>
    /\ lease[p].st \in {"live", "closing"}
    /\ taskLock[lease[p].task] = p
    /\ TipOf(rec[lease[p].rec].log, lease[p].task) = lease[p].sess

\* A record's lineage and the sessions that write to it agree: what is on disk
\* was written by the current session of its time, and who may write now is the
\* current one, through continuations, undos and crashes.
LineageHolds == MembersOnly /\ OperativeIsTip

\* An operation that refuses, with or without having written, leaves every
\* byte of the record as it found it.
RefusedLeavesNoTrace ==
  \A w \in Thread : op[w].pc = "refused" => rec[op[w].rec] = op[w].base

\* A quarantined identity is never worked on again: no lease of a task that a
\* manifest claims lives, from its publication on.
QuarantineReserves ==
  \A r \in Record : \A m \in manifest[r] :
    \A p \in Proc : lease[p].st \in {"live", "closing"} => lease[p].task \notin m.claims

\* store.go: an append that succeeds leaves a record that Load reads.
AppendedRecordLoads ==
  \A w \in Thread : op[w].pc = "returning" /\ op[w].kind # "continue" => Loads(rec[op[w].rec])

\* Release returns: the lease it closed is ended and its OS lock freed.
ReleaseReturns == \A p \in Proc : lease[p].st = "closing" ~> lease[p].st = "none"

-----------------------------------------------------------------------------
(* The ledger implements TaskLedger.  An event under way belongs to no     *)
(* history until its operation is settled, a task is owned while a lease   *)
(* of it is live, and the durable part is the last one that was returned.  *)

Unsettled(r, w) == recLock[r] = w /\ op[w].pc \in {"written", "synced", "undoing"}

SettledLog(r) ==
  IF \E w \in Thread : Unsettled(r, w)
  THEN op[CHOOSE w \in Thread : Unsettled(r, w)].base.log
  ELSE rec[r].log

OwnerOf(t) ==
  IF \E p \in Proc : lease[p].st \in {"live", "closing"} /\ lease[p].task = t
  THEN taskLock[t] ELSE None

SettledLogs == [r \in Record |-> SettledLog(r)]

DurableEvents == [r \in Record |-> Len(acked[r])]

TaskOwners == [t \in Task |-> OwnerOf(t)]

Promise == INSTANCE TaskLedger
             WITH hist <- SettledLogs, safe <- DurableEvents, owner <- TaskOwners

\* Every run of the store, with its failures and crashes, is a run of the
\* abstract ledger: single ownership, whole events, unbroken lineages.
ImplementsTaskLedger == Promise!Spec
=============================================================================
