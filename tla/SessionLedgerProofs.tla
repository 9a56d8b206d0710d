------------------------- MODULE SessionLedgerProofs -------------------------
(***************************************************************************)
(* Theorems of SessionLedger, for any sets of tasks, sessions, records,    *)
(* processes and threads.                                                  *)
(*                                                                         *)
(* TypeOK is inductive by itself once the operators on records are closed  *)
(* on their types.  AdmittedHoldsTask is not: that an operation's lease is *)
(* not yet ended says nothing about the OS lock.  HeldInv adds that every  *)
(* lease, from its acquisition until Free, owns the lock of its task; then *)
(* Begin gives a new operation what its lease has, and End, which waits    *)
(* for the admitted operations, is the one step that could take it away.   *)
(*                                                                         *)
(* RefusedLeavesNoTrace needs that nobody else writes a record between an  *)
(* operation's lockRecord and its release.  TraceInv says so: whoever is   *)
(* past lockRecord owns the record's lock, so two of them are in different *)
(* records, and while an operation has not written, or has undone what it  *)
(* wrote, its record is still the one it locked.                           *)
(*                                                                         *)
(* LineageHolds needs LineInv: what an operation was authorized to write   *)
(* is what the lineage of its locked record owes until it is over, so that *)
(* any part of the write, on disk or after a power loss, is of the lineage *)
(* too; GrownInv: what is in the record is what was locked and a part of   *)
(* the write; and OperInv: no lease is operative while a root or a binding *)
(* of it is under way.                                                     *)
(*                                                                         *)
(* QuarantineReserves needs ReserveInv: a manifest claims what its bytes   *)
(* claim, and its publisher owns the locks of those tasks.  OneRoot needs  *)
(* SoleInv, a task that is worked on is claimed by no second record, and   *)
(* CreatedInv: the root of a creation that returned outlives every undo,   *)
(* crash and power loss.                                                   *)
(*                                                                         *)
(* That the ledger implements TaskLedger needs three facts more: who owns  *)
(* a record's lock is past lockRecord there (LockOwned), so the settled    *)
(* events of a record are those of one operation's base or those seen;     *)
(* what an operation synced stays on the disk until it is settled          *)
(* (SyncedStands); and what is on the disk is what the settled events may  *)
(* fall back to (Stored), which the machine's next power loss leaves.      *)
(***************************************************************************)
EXTENDS SessionLedger, SequenceTheorems, FiniteSetTheorems, WellFoundedInduction, TLAPS

-----------------------------------------------------------------------------
(* The operators of the ledger are closed on their types.                  *)

\* Appending whole lines to a record gives a record.
LEMMA AppendedType ==
  ASSUME NEW c \in Content, NEW evs \in Seq(Event)
  PROVE  Appended(c, evs) \in Content
<1>1. c.log \o evs \in Seq(Event)
  BY ConcatProperties DEF Content
<1> QED  BY <1>1 DEF Appended, Content, RecordClass

\* So does a write cut inside a line.
LEMMA TornType ==
  ASSUME NEW c \in Content, NEW e \in Event, NEW k \in {"torn", "ambiguous", "corrupt"}
  PROVE  Torn(c, e, k) \in Content
<1>1. Append(c.log, e) \in Seq(Event)
  BY AppendProperties DEF Content
<1>2. e.task \in Task \cup {NoTask}
  BY DEF Event
<1> QED  BY <1>1, <1>2 DEF Torn, Content, RecordClass

\* Whatever an interrupted write leaves is a record.
LEMMA InterruptedType ==
  ASSUME NEW c \in Content, NEW evs \in Seq(Event), NEW x \in Interrupted(c, evs)
  PROVE  x \in Content
<1> DEFINE kept(n) == Appended(c, SubSeq(evs, 1, n))
<1>1. \A n \in 0..Len(evs) : SubSeq(evs, 1, n) \in Seq(Event)
  <2>1. SUFFICES ASSUME NEW n \in 0..Len(evs) PROVE SubSeq(evs, 1, n) \in Seq(Event)
    OBVIOUS
  <2>2. \A i \in 1..n : i \in 1..Len(evs)
    BY LenProperties
  <2> QED  BY <2>1, <2>2, SubSeqProperties, ElementOfSeq
<1>2. \A n \in 0..Len(evs) : kept(n) \in Content
  BY <1>1, AppendedType
<1>3. CASE \E n \in 0..Len(evs) : x = kept(n)
  BY <1>2, <1>3
<1>4. CASE \E n \in DOMAIN evs, k \in Tears : x = Torn(kept(n - 1), evs[n], k)
  <2>1. PICK n \in DOMAIN evs, k \in Tears : x = Torn(kept(n - 1), evs[n], k)
    BY <1>4
  <2>2. n \in 1..Len(evs) /\ n - 1 \in 0..Len(evs)
    BY LenProperties
  <2>3. evs[n] \in Event
    BY <2>2, ElementOfSeq
  <2> QED  BY <2>1, <2>2, <2>3, <1>2, TornType, LedgerAssumption
<1> QED  BY <1>3, <1>4 DEF Interrupted

\* And whatever a power loss leaves.
LEMMA SurvivorsType ==
  ASSUME NEW d \in Content, NEW c \in Content, NEW x \in Survivors(d, c)
  PROVE  x \in Content
<1> DEFINE lost == SubSeq(c.log, Len(d.log) + 1, Len(c.log))
<1>1. d.log \in Seq(Event) /\ c.log \in Seq(Event)
  BY DEF Content
<1>2. lost \in Seq(Event)
  <2>1. Len(d.log) + 1 \in Nat /\ Len(c.log) \in Nat
    BY <1>1, LenProperties
  <2>2. \A i \in Len(d.log) + 1 .. Len(c.log) : i \in 1..Len(c.log)
    BY <2>1
  <2>3. \A i \in Len(d.log) + 1 .. Len(c.log) : c.log[i] \in Event
    BY <2>2, <1>1, ElementOfSeq
  <2> QED  BY <2>1, <2>3, SubSeqProperties, <1>1
<1>3. x \in Interrupted(d, lost) => x \in Content
  BY <1>2, InterruptedType
<1> QED  BY <1>3 DEF Survivors

\* The holder that a rooted record names is a session.
LEMMA HolderIsSession ==
  ASSUME NEW log \in Seq(Event), NEW t \in Task, Rooted(log, t)
  PROVE  HolderOf(log, t) \in Session
<1> DEFINE r == CHOOSE i \in Roots(log, t) : TRUE
<1>1. r \in Roots(log, t)
  BY DEF Rooted
<1>2. r \in 1..Len(log)
  BY <1>1, LenProperties DEF Roots
<1>3. log[r] \in Event
  BY <1>2, ElementOfSeq
<1>4. log[r].sess \in Session
  BY <1>3 DEF Event
<1> QED  BY <1>4 DEF HolderOf

\* An operation writes at least one event.
LEMMA WrittenType ==
  ASSUME NEW k \in Kind, NEW t \in Task \cup {NoTask}, NEW s \in Session,
         NEW h \in Session \cup {NoSession}, NEW q \in Session \cup {NoSession}
  PROVE  Written(k, t, s, h, q) \in Seq(Event) /\ Written(k, t, s, h, q) # <<>>
<1> DEFINE ev(kind) == [task |-> t, sess |-> s, kind |-> kind,
                        holder |-> NoSession, parent |-> NoSession, ok |-> TRUE]
           bound == [ev("bound") EXCEPT !.holder = h, !.parent = q]
<1>1. \A kind \in Kinds : ev(kind) \in Event
  BY DEF Event
<1>2. bound \in Event
  <2>1. ev("bound") \in Event
    BY <1>1 DEF Kinds
  <2> QED  BY <2>1 DEF Event
<1>3. CASE k = "bind"
  <2>1. Written(k, t, s, h, q) = <<bound>>
    BY <1>3 DEF Written
  <2> HIDE DEF bound
  <2> QED  BY <2>1, <1>2
<1>4. CASE k # "bind"
  <2>1. \E a, b \in Kinds : Written(k, t, s, h, q) \in {<<ev(a)>>, <<ev(a), ev(b)>>}
    BY <1>4 DEF Written, Kinds, Kind
  <2>2. PICK a \in Kinds, b \in Kinds : Written(k, t, s, h, q) \in {<<ev(a)>>, <<ev(a), ev(b)>>}
    BY <2>1
  <2>3. \A x, y \in Event : /\ <<x>> \in Seq(Event) /\ <<x>> # <<>>
                           /\ <<x, y>> \in Seq(Event) /\ <<x, y>> # <<>>
    OBVIOUS
  <2> HIDE DEF ev
  <2>4. ev(a) \in Event /\ ev(b) \in Event
    BY <1>1
  <2> QED  BY <2>2, <2>3, <2>4
<1> QED  BY <1>3, <1>4

-----------------------------------------------------------------------------
(* Type correctness.                                                       *)

\* An operation moves to its next step.
LEMMA MovedType ==
  ASSUME OpsOK, NEW w \in Thread, Busy(w), NEW pc \in PC, op' = [op EXCEPT ![w].pc = pc],
         recLock' \in [Record -> Thread \cup {None, Operator}]
  PROVE  OpsOK'
<1>1. op' \in [Thread -> OpType]
  BY DEF OpsOK, OpType
<1>2. \A v \in Thread : op'[v].evs = op[v].evs /\ op'[v].rec = op[v].rec
  BY DEF OpsOK, OpType
<1>3. \A v \in Thread : Busy(v)' => Busy(v)
  BY DEF OpsOK, OpType, Busy
<1> QED  BY <1>1, <1>2, <1>3 DEF OpsOK

\* An operation is over.
LEMMA OverType ==
  ASSUME OpsOK, NEW W \in SUBSET Thread, op' = [v \in Thread |-> IF v \in W THEN Idle ELSE op[v]],
         recLock' \in [Record -> Thread \cup {None, Operator}]
  PROVE  OpsOK'
<1>1. Idle \in OpType /\ Idle.pc = "idle"
  BY DEF Idle, OpType, PC, Kind, Absent, Whole, Content, RecordClass
<1>2. op' \in [Thread -> OpType]
  BY <1>1 DEF OpsOK
<1>3. \A v \in Thread : Busy(v)' => Busy(v) /\ op'[v] = op[v]
  BY <1>1 DEF OpsOK, Busy
<1> QED  BY <1>2, <1>3 DEF OpsOK

\* An operation begins.
LEMMA BegunType ==
  ASSUME OpsOK, NEW w \in Thread, NEW k \in Kind, NEW evs \in Seq(Event), evs # <<>>,
         NEW r \in Record, UNCHANGED recLock,
         op' = [op EXCEPT ![w] = [Idle EXCEPT !.pc = "guarded", !.kind = k, !.rec = r, !.evs = evs]]
  PROVE  OpsOK'
<1> DEFINE new == [Idle EXCEPT !.pc = "guarded", !.kind = k, !.rec = r, !.evs = evs]
<1>1. Absent \in Content
  BY DEF Absent, Whole, Content, RecordClass
<1>2. new \in OpType /\ new.evs = evs /\ new.rec = r
  BY <1>1 DEF Idle, OpType, PC
<1> HIDE DEF new
<1>3. op' \in [Thread -> OpType] /\ op'[w] = new /\ \A v \in Thread \ {w} : op'[v] = op[v]
  BY <1>2 DEF OpsOK, new
<1> QED  BY <1>2, <1>3 DEF OpsOK, Busy

\* The asking of an operation.
LEMMA AskType ==
  ASSUME TypeOK, NEW w \in Thread, Ask(w)
  PROVE  TypeOK'
<1>1. FilesOK' /\ LeasesOK' /\ QuarOK'
  BY DEF Ask, Begin, BeginDiagnostic, TypeOK, FilesOK, LeasesOK, QuarOK, history
<1>2. ASSUME NEW k \in Asked, NEW s \in Session, NEW q \in Session \cup {NoSession},
             Begin(w, k, s, q)
      PROVE  OpsOK'
  <2> DEFINE l == lease[ProcOf[w]]
             h == IF Rooted(rec[l.rec].log, l.task) THEN HolderOf(rec[l.rec].log, l.task)
                  ELSE NoSession
             evs == Written(k, l.task, s, h, q)
  <2>1. l.task \in Task /\ l.rec \in Record
    BY <1>2, LedgerAssumption DEF Begin, TypeOK, LeasesOK
  <2>2. rec[l.rec].log \in Seq(Event)
    BY <2>1 DEF TypeOK, FilesOK, Content
  <2>3. h \in Session \cup {NoSession}
    BY <2>1, <2>2, HolderIsSession
  <2>4. k \in Kind
    BY LedgerAssumption
  <2> HIDE DEF l, h
  <2>5. evs \in Seq(Event) /\ evs # <<>>
    BY <2>1, <2>3, <2>4, WrittenType
  <2> HIDE DEF evs
  <2>6. /\ op' = [op EXCEPT ![w] = [Idle EXCEPT !.pc = "guarded", !.kind = k, !.rec = l.rec,
                                                !.evs = evs]]
        /\ UNCHANGED recLock
    BY <1>2 DEF Begin, l, h, evs
  <2> QED  BY <2>1, <2>4, <2>5, <2>6, BegunType DEF TypeOK
<1>3. ASSUME NEW s \in Session, NEW r \in Record, BeginDiagnostic(w, s, r)
      PROVE  OpsOK'
  <2> DEFINE evs == Written("diagnostic", NoTask, s, NoSession, NoSession)
  <2>1. "diagnostic" \in Kind
    BY DEF Kind
  <2>2. evs \in Seq(Event) /\ evs # <<>>
    <3>1. NoTask \in Task \cup {NoTask} /\ NoSession \in Session \cup {NoSession}
      OBVIOUS
    <3> HIDE DEF evs
    <3>2. evs = Written("diagnostic", NoTask, s, NoSession, NoSession)
      BY DEF evs
    <3> QED  BY <2>1, <3>1, <3>2, WrittenType
  <2> HIDE DEF evs
  <2>3. /\ op' = [op EXCEPT ![w] = [Idle EXCEPT !.pc = "guarded", !.kind = "diagnostic",
                                                !.rec = r, !.evs = evs]]
        /\ UNCHANGED recLock
    BY <1>3 DEF BeginDiagnostic, evs
  <2> QED  BY <2>1, <2>2, <2>3, BegunType DEF TypeOK
<1> QED  BY <1>1, <1>2, <1>3 DEF Ask, TypeOK

\* The steps of an operation that write no file.
LEMMA DecideType ==
  ASSUME TypeOK, NEW w \in Thread, Decide(w)
  PROVE  TypeOK'
<1> USE DEF Busy, PC
<1>1. FilesOK' /\ QuarOK'
  BY DEF Decide, LockRecord, GiveUp, Authorize, Continue, Prove, Refuse, TypeOK, FilesOK, QuarOK,
         history
<1>2. CASE LockRecord(w)
  <2> DEFINE locked == [op[w] EXCEPT !.pc = "locked", !.base = rec[op[w].rec]]
  <2>1. op \in [Thread -> OpType] /\ rec[op[w].rec] \in Content
    BY <1>2 DEF LockRecord, TypeOK, FilesOK, OpsOK
  <2>5. /\ locked \in OpType
        /\ locked.evs = op[w].evs /\ locked.rec = op[w].rec /\ op[w].pc # "idle"
    BY <1>2, <2>1 DEF LockRecord, OpType
  <2>6. op' = [op EXCEPT ![w] = locked]
    BY <1>2, <2>1 DEF LockRecord, OpType
  <2> HIDE DEF locked
  <2>2. /\ op' \in [Thread -> OpType]
        /\ \A v \in Thread : op'[v].evs = op[v].evs /\ op'[v].rec = op[v].rec
        /\ \A v \in Thread : op'[v].pc # "idle" => op[v].pc # "idle"
    <3>1. op' \in [Thread -> OpType]
      BY <2>1, <2>5, <2>6
    <3>2. \A v \in Thread : v # w => op'[v] = op[v]
      BY <2>1, <2>6
    <3>3. op'[w] = locked
      BY <2>1, <2>6
    <3> QED  BY <2>5, <3>1, <3>2, <3>3
  <2>3. recLock' \in [Record -> Thread \cup {None, Operator}]
    BY <1>2 DEF LockRecord, TypeOK, OpsOK
  <2>4. OpsOK'
    BY <2>2, <2>3 DEF TypeOK, OpsOK
  <2> QED  BY <1>1, <1>2, <2>4 DEF LockRecord, TypeOK, LeasesOK
<1>3. CASE GiveUp(w)
  <2>1. op' = [v \in Thread |-> IF v \in {w} THEN Idle ELSE op[v]]
    BY <1>3 DEF GiveUp, TypeOK, OpsOK
  <2>2. OpsOK'
    BY <1>3, <2>1, OverType DEF GiveUp, TypeOK, OpsOK
  <2> QED  BY <1>1, <1>3, <2>2 DEF GiveUp, TypeOK, LeasesOK
<1>4. CASE Authorize(w) \/ Prove(w) \/ Refuse(w)
  <2>1. \E pc \in PC : op' = [op EXCEPT ![w].pc = pc]
    BY <1>4 DEF Authorize, Prove, Refuse
  <2>2. Busy(w) /\ UNCHANGED <<recLock, taskLock, lease>>
    BY <1>4 DEF Authorize, Prove, Refuse
  <2>3. OpsOK'
    BY <2>1, <2>2, MovedType DEF TypeOK, OpsOK
  <2> QED  BY <1>1, <2>2, <2>3 DEF TypeOK, LeasesOK
<1>5. CASE Continue(w)
  <2>1. SessOf(w) \in Session
    <3>1. op[w].evs \in Seq(Event) /\ op[w].evs # <<>>
      BY <1>5 DEF Continue, TypeOK, OpsOK, OpType
    <3>2. op[w].evs[1] \in Event
      BY <3>1
    <3> QED  BY <3>2 DEF SessOf, Event
  <2>2. LeasesOK'
    BY <1>5, <2>1, LedgerAssumption DEF Continue, TypeOK, LeasesOK, LeaseType
  <2>3. OpsOK'
    BY <1>5, MovedType DEF Continue, TypeOK, OpsOK
  <2> QED  BY <1>1, <2>2, <2>3 DEF TypeOK
<1> QED  BY <1>2, <1>3, <1>4, <1>5 DEF Decide

\* What a running operation names, as a fact to cite.
LEMMA RunningType ==
  ASSUME TypeOK, NEW w \in Thread, Busy(w)
  PROVE  /\ op[w].rec \in Record
         /\ op[w].evs \in Seq(Event)
         /\ op[w].base \in Content
         /\ rec[op[w].rec] \in Content
         /\ disk[op[w].rec] \in Content
         /\ rec[op[w].rec].log \in Seq(Event)
         /\ TaskOf(w) \in Task \cup {NoTask}
         /\ SessOf(w) \in Session
<1>1. op[w].rec \in Record /\ op[w].evs \in Seq(Event) /\ op[w].evs # <<>> /\ op[w].base \in Content
  BY DEF TypeOK, OpsOK, OpType
<1>2. op[w].evs[1] \in Event
  BY <1>1
<1>3. rec[op[w].rec] \in Content /\ disk[op[w].rec] \in Content
  BY <1>1 DEF TypeOK, FilesOK
<1> QED  BY <1>1, <1>2, <1>3 DEF Content, Event, TaskOf, SessOf

\* The commit of an operation keeps the types of what it changes.
LEMMA CommittedType ==
  ASSUME TypeOK, NEW w \in Thread, Busy(w), Committed(w), UNCHANGED recLock
  PROVE  /\ acked' \in [Record -> Seq(Event)]
         /\ created' \in [Task -> SUBSET Record]
         /\ lease' \in [Proc -> LeaseType]
         /\ \A p \in Proc : lease'[p].st = lease[p].st /\ lease'[p].task = lease[p].task
                            /\ lease'[p].rec = lease[p].rec
         /\ OpsOK'
<1>1. /\ op[w].rec \in Record /\ rec[op[w].rec].log \in Seq(Event)
      /\ TaskOf(w) \in Task \cup {NoTask} /\ SessOf(w) \in Session
  BY RunningType
<1>2. acked' \in [Record -> Seq(Event)]
  BY <1>1 DEF Committed, TypeOK, FilesOK
<1>3. created' \in [Task -> SUBSET Record]
  BY <1>1 DEF Committed, TypeOK, FilesOK
<1>4. /\ lease' \in [Proc -> LeaseType]
      /\ \A p \in Proc : lease'[p].st = lease[p].st /\ lease'[p].task = lease[p].task
                         /\ lease'[p].rec = lease[p].rec
  BY <1>1, LedgerAssumption DEF Committed, TypeOK, LeasesOK, LeaseType
<1>5. OpsOK'
  BY MovedType DEF Committed, TypeOK, OpsOK, PC
<1> QED  BY <1>2, <1>3, <1>4, <1>5

\* The steps of an operation that write, sync, undo and return.
LEMMA EffectType ==
  ASSUME TypeOK, NEW w \in Thread, Effect(w)
  PROVE  TypeOK'
<1>1. Busy(w)
  BY DEF Effect, WriteLine, FailWrite, Sync, Fail, Commit, Undo, FailUndo, Return, Busy
<1>2. /\ op[w].rec \in Record /\ op[w].evs \in Seq(Event) /\ op[w].base \in Content
      /\ rec[op[w].rec] \in Content /\ disk[op[w].rec] \in Content
  BY <1>1, RunningType
<1>3. QuarOK'
  BY DEF Effect, WriteLine, FailWrite, Sync, Fail, Commit, Undo, FailUndo, Return, TypeOK, QuarOK
<1>4. CASE WriteLine(w)
  <2>1. Appended(rec[op[w].rec], op[w].evs) \in Content
    BY <1>2, AppendedType
  <2>2. FilesOK'
    BY <1>4, <2>1 DEF WriteLine, TypeOK, FilesOK, history
  <2>3. OpsOK'
    BY <1>1, <1>4, MovedType DEF WriteLine, TypeOK, OpsOK, PC
  <2> QED  BY <1>3, <1>4, <2>2, <2>3 DEF WriteLine, TypeOK, LeasesOK
<1>5. CASE FailWrite(w)
  <2>1. PICK c \in Interrupted(rec[op[w].rec], op[w].evs) : rec' = [rec EXCEPT ![op[w].rec] = c]
    BY <1>5 DEF FailWrite
  <2>2. c \in Content
    BY <1>2, InterruptedType
  <2>3. FilesOK'
    BY <1>5, <2>1, <2>2 DEF FailWrite, TypeOK, FilesOK, history
  <2>4. OpsOK'
    BY <1>1, <1>5, MovedType DEF FailWrite, TypeOK, OpsOK, PC
  <2> QED  BY <1>3, <1>5, <2>3, <2>4 DEF FailWrite, TypeOK, LeasesOK
<1>6. CASE Sync(w)
  <2>1. FilesOK'
    BY <1>2, <1>6 DEF Sync, TypeOK, FilesOK, history
  <2>2. /\ op' \in [Thread -> OpType]
        /\ \A v \in Thread : op'[v].evs = op[v].evs /\ op'[v].rec = op[v].rec
        /\ \A v \in Thread : op'[v].pc # "idle" => op[v].pc # "idle"
    BY <1>6 DEF Sync, TypeOK, OpsOK, OpType, PC
  <2>3. OpsOK'
    BY <1>6, <2>2 DEF Sync, TypeOK, OpsOK, Busy
  <2> QED  BY <1>3, <1>6, <2>1, <2>3 DEF Sync, TypeOK, LeasesOK
<1>7. CASE Fail(w)
  <2>1. FilesOK'
    BY <1>2, <1>7 DEF Fail, TypeOK, FilesOK, history
  <2>2. OpsOK'
    BY <1>1, <1>7, MovedType DEF Fail, TypeOK, OpsOK, PC
  <2> QED  BY <1>3, <1>7, <2>1, <2>2 DEF Fail, TypeOK, LeasesOK
<1>8. CASE Commit(w)
  <2>1. Committed(w) /\ UNCHANGED <<rec, disk, manifest, taskLock, recLock>>
    BY <1>8 DEF Commit
  <2>2. FilesOK'
    BY <1>1, <2>1, CommittedType DEF TypeOK, FilesOK
  <2>3. LeasesOK'
    BY <1>1, <2>1, CommittedType DEF TypeOK, LeasesOK
  <2> QED  BY <1>1, <1>3, <2>1, <2>2, <2>3, CommittedType DEF TypeOK
<1>9. CASE Undo(w)
  <2>1. FilesOK'
    BY <1>2, <1>9 DEF Undo, TypeOK, FilesOK, history
  <2>2. OpsOK'
    BY <1>1, <1>9, MovedType DEF Undo, TypeOK, OpsOK, PC
  <2> QED  BY <1>3, <1>9, <2>1, <2>2 DEF Undo, TypeOK, LeasesOK
<1>10. CASE FailUndo(w)
  <2>1. rec' \in [Record -> Content] /\ UNCHANGED <<disk, manifest, taskLock, recLock>>
    BY <1>2, <1>10 DEF FailUndo, TypeOK, FilesOK
  <2>2. CASE Committed(w)
    <3>1. FilesOK'
      BY <1>1, <2>1, <2>2, CommittedType DEF TypeOK, FilesOK
    <3>2. LeasesOK'
      BY <1>1, <2>1, <2>2, CommittedType DEF TypeOK, LeasesOK
    <3> QED  BY <1>1, <1>3, <2>1, <2>2, <3>1, <3>2, CommittedType DEF TypeOK
  <2>3. CASE op' = [op EXCEPT ![w].pc = "unknown"] /\ UNCHANGED <<lease, history>>
    <3>1. FilesOK'
      BY <2>1, <2>3 DEF TypeOK, FilesOK, history
    <3>2. OpsOK'
      BY <1>1, <2>1, <2>3, MovedType DEF TypeOK, OpsOK, PC
    <3> QED  BY <1>3, <2>1, <2>3, <3>1, <3>2 DEF TypeOK, LeasesOK
  <2> QED  BY <1>10, <2>2, <2>3 DEF FailUndo
<1>11. CASE Return(w)
  <2>1. op' = [v \in Thread |-> IF v \in {w} THEN Idle ELSE op[v]]
    BY <1>11 DEF Return, TypeOK, OpsOK
  <2>2. recLock' \in [Record -> Thread \cup {None, Operator}]
    BY <1>11 DEF Return, TypeOK, OpsOK
  <2>3. OpsOK'
    BY <2>1, <2>2, OverType DEF TypeOK
  <2> QED  BY <1>3, <1>11, <2>3 DEF Return, TypeOK, LeasesOK, FilesOK, history
<1> QED  BY <1>4, <1>5, <1>6, <1>7, <1>8, <1>9, <1>10, <1>11 DEF Effect

\* The steps of a lease.
LEMMA LeaseStepType ==
  ASSUME TypeOK, NEW p \in Proc,
         \/ \E t \in Task, r \in Record : Acquire(p, t, r)
         \/ Holder(p) \/ Close(p)
  PROVE  TypeOK'
<1>1. FilesOK' /\ OpsOK' /\ QuarOK'
  BY DEF Acquire, Holder, Admit, Reject, Close, End, Free, TypeOK, FilesOK, OpsOK, QuarOK, Busy,
         history
<1>2. ASSUME NEW t \in Task, NEW r \in Record, Acquire(p, t, r) PROVE LeasesOK'
  BY <1>2 DEF Acquire, TypeOK, LeasesOK, LeaseType
<1>3. CASE Admit(p) \/ Close(p) \/ End(p)
  BY <1>1, <1>3 DEF Admit, Close, End, TypeOK, LeasesOK, LeaseType
<1>4. CASE Reject(p) \/ Free(p)
  BY <1>1, <1>4 DEF Reject, Free, TypeOK, LeasesOK, LeaseType, NoLease
<1> QED  BY <1>1, <1>2, <1>3, <1>4 DEF Holder, TypeOK

\* A choice of outcomes is one of them for each record.
LEMMA OutcomesType ==
  ASSUME NEW F, NEW f \in Outcomes(F)
  PROVE  /\ f \in [Record -> UNION {F[r] : r \in Record}]
         /\ \A r \in Record : f[r] \in F[r]
  BY DEF Outcomes

\* The death of a process.
LEMMA CrashType ==
  ASSUME TypeOK, NEW p \in Proc, Crash(p)
  PROVE  TypeOK'
<1> DEFINE dead == {w \in Thread : ProcOf[w] = p}
           cut(r) == {w \in dead : op[w].pc = "writing" /\ op[w].rec = r}
           F == [r \in Record |-> {rec[r]} \cup UNION {Interrupted(rec[r], op[w].evs) : w \in cut(r)}]
<1>1. \A r \in Record : \A x \in F[r] : x \in Content
  <2>1. SUFFICES ASSUME NEW r \in Record, NEW x \in F[r] PROVE x \in Content
    OBVIOUS
  <2>2. rec[r] \in Content
    BY DEF TypeOK, FilesOK
  <2>3. ASSUME NEW w \in cut(r), x \in Interrupted(rec[r], op[w].evs) PROVE x \in Content
    BY <2>2, <2>3, RunningType, InterruptedType DEF Busy
  <2> QED  BY <2>1, <2>2, <2>3
<1>2. rec' \in Outcomes(F)
  BY DEF Crash
<1>3. rec' \in [Record -> Content]
  <2> HIDE DEF F
  <2> QED  BY <1>1, <1>2, OutcomesType
<1>4. FilesOK'
  BY <1>3 DEF Crash, TypeOK, FilesOK, history
<1>5. LeasesOK'
  BY DEF Crash, TypeOK, LeasesOK, LeaseType, NoLease
<1>6. OpsOK'
  BY OverType DEF Crash, TypeOK, OpsOK
<1> QED  BY <1>4, <1>5, <1>6 DEF Crash, TypeOK, QuarOK

\* The loss of power.
LEMMA PowerLossType ==
  ASSUME TypeOK, PowerLoss
  PROVE  TypeOK'
<1> DEFINE F == [r \in Record |-> Survivors(disk[r], rec[r])]
           G == [r \in Record |-> {manifest[r], {m \in manifest[r] : m.durable}}]
<1>1. \A r \in Record : \A x \in F[r] : x \in Content
  BY SurvivorsType DEF TypeOK, FilesOK
<1>2. \A r \in Record : \A x \in G[r] : x \in SUBSET ManifestType
  BY DEF TypeOK, FilesOK
<1>3. rec' \in Outcomes(F) /\ manifest' \in Outcomes(G)
  BY DEF PowerLoss
<1>4. rec' \in [Record -> Content] /\ manifest' \in [Record -> SUBSET ManifestType]
  <2> HIDE DEF F, G
  <2>1. rec' \in [Record -> Content]
    BY <1>1, <1>3, OutcomesType
  <2>2. manifest' \in [Record -> SUBSET ManifestType]
    BY <1>2, <1>3, OutcomesType
  <2> QED  BY <2>1, <2>2
<1>5. FilesOK'
  BY <1>4 DEF PowerLoss, TypeOK, FilesOK, history
<1>6. LeasesOK'
  BY DEF PowerLoss, TypeOK, LeasesOK, LeaseType, NoLease
<1>7. OpsOK'
  <2>1. op' = [v \in Thread |-> IF v \in Thread THEN Idle ELSE op[v]]
    BY DEF PowerLoss
  <2>2. recLock' \in [Record -> Thread \cup {None, Operator}]
    BY DEF PowerLoss
  <2> QED  BY <2>1, <2>2, OverType DEF TypeOK
<1>8. QuarOK'
  BY DEF PowerLoss, QuarOK, NoActivation, QuarType, Absent, Whole, Content, RecordClass
<1> QED  BY <1>5, <1>6, <1>7, <1>8 DEF TypeOK

\* The tasks that a record claims are tasks.
LEMMA ClaimsType ==
  ASSUME NEW c \in Content
  PROVE  Claims(c) \in SUBSET Task
  BY DEF Claims, Content

\* The steps of an operator's activation.
LEMMA ActivateType ==
  ASSUME TypeOK, Activate
  PROVE  TypeOK'
<1> USE DEF TypeOK
<1>1. ASSUME NEW r \in Record, Examine(r) PROVE TypeOK'
  BY <1>1 DEF Examine, QuarOK, QuarType, FilesOK, LeasesOK, OpsOK, Busy, history
<1>2. ASSUME NEW t \in Task, LeaseClaim(t) PROVE TypeOK'
  BY <1>2 DEF LeaseClaim, QuarOK, QuarType, FilesOK, LeasesOK, OpsOK, Busy, history
<1>3. CASE LockTorn
  BY <1>3 DEF LockTorn, QuarOK, QuarType, FilesOK, LeasesOK, OpsOK, Busy, history
<1>4. CASE Publish
  <2>1. quar.rec \in Record /\ quar.snap \in Content
    BY <1>4 DEF Publish, QuarOK, QuarType
  <2>2. [snap |-> quar.snap, claims |-> Claims(quar.snap), durable |-> FALSE] \in ManifestType
    BY <2>1, ClaimsType DEF ManifestType
  <2>3. manifest' \in [Record -> SUBSET ManifestType]
    BY <1>4, <2>1, <2>2 DEF Publish, FilesOK
  <2> QED  BY <1>4, <2>3 DEF Publish, QuarOK, QuarType, FilesOK, LeasesOK, OpsOK, Busy, history
<1>5. CASE SyncManifest
  <2> DEFINE synced == {[m EXCEPT !.durable = TRUE] : m \in manifest[quar.rec]}
  <2>1. manifest' \in [Record -> SUBSET ManifestType]
    <3>1. \A m \in ManifestType : [m EXCEPT !.durable = TRUE] \in ManifestType
      BY DEF ManifestType
    <3>2. quar.rec \in Record /\ manifest[quar.rec] \in SUBSET ManifestType
      BY <1>5 DEF SyncManifest, QuarOK, FilesOK
    <3>3. synced \in SUBSET ManifestType
      BY <3>1, <3>2
    <3>4. manifest' = [manifest EXCEPT ![quar.rec] = synced]
      BY <1>5 DEF SyncManifest
    <3> HIDE DEF synced
    <3> QED  BY <3>3, <3>4 DEF FilesOK
  <2> QED  BY <1>5, <2>1 DEF SyncManifest, QuarOK, FilesOK, LeasesOK, OpsOK, Busy, history
<1>6. CASE Leave
  <2>1. QuarOK'
    BY <1>6 DEF Leave, QuarOK, NoActivation, QuarType, Absent, Whole, Content, RecordClass
  <2>2. OpsOK' /\ LeasesOK'
    BY <1>6 DEF Leave, LeasesOK, OpsOK, Busy
  <2> QED  BY <1>6, <2>1, <2>2 DEF Leave, FilesOK, history
<1> QED  BY <1>1, <1>2, <1>3, <1>4, <1>5, <1>6 DEF Activate

\* A new repository has the right types.
LEMMA InitType == Init => TypeOK
<1> SUFFICES ASSUME Init PROVE TypeOK
  OBVIOUS
<1>1. Absent \in Content
  BY DEF Absent, Whole, Content, RecordClass
<1>2. FilesOK
  BY <1>1 DEF Init, FilesOK
<1>3. LeasesOK
  BY DEF Init, LeasesOK, NoLease, LeaseType
<1>4. OpsOK
  BY <1>1 DEF Init, OpsOK, Idle, OpType, PC, Kind, Busy
<1>5. QuarOK
  BY <1>1 DEF Init, QuarOK, NoActivation, QuarType
<1> QED  BY <1>2, <1>3, <1>4, <1>5 DEF TypeOK

\* Every step keeps them.
LEMMA NextType == TypeOK /\ [Next]_vars => TypeOK'
<1> SUFFICES ASSUME TypeOK, [Next]_vars PROVE TypeOK'
  OBVIOUS
<1>1. ASSUME NEW w \in Thread, Ask(w) \/ Advance(w) PROVE TypeOK'
  BY <1>1, AskType, DecideType, EffectType DEF Advance
<1>2. ASSUME NEW p \in Proc, \/ \E t \in Task, r \in Record : Acquire(p, t, r)
                             \/ Holder(p) \/ Close(p)
      PROVE  TypeOK'
  BY <1>2, LeaseStepType
<1>3. ASSUME NEW p \in Proc, Crash(p) PROVE TypeOK'
  BY <1>3, CrashType
<1>4. CASE PowerLoss
  BY <1>4, PowerLossType
<1>5. CASE Activate
  BY <1>5, ActivateType
<1>6. CASE UNCHANGED vars
  BY <1>6 DEF vars, history, TypeOK, FilesOK, LeasesOK, OpsOK, QuarOK, Busy
<1> QED  BY <1>1, <1>2, <1>3, <1>4, <1>5, <1>6 DEF Next

\* Every variable keeps its type, through every operation, crash and loss of
\* power, for any sets of tasks, records, processes and threads.
THEOREM TypeCorrect == Spec => []TypeOK
  BY InitType, NextType, PTL DEF Spec

-----------------------------------------------------------------------------
(* The lease that admits an operation is held until the operation ends.    *)
(* The invariant adds what the code relies on and AdmittedHoldsTask does   *)
(* not say: every lease, whatever its state, holds its task's OS lock, so  *)
(* that freeing one lease never frees the lock of another.                 *)

\* From AcquireTaskInvocation until Free, the lease's process owns the OS lock.
LeaseHoldsLock ==
  \A p \in Proc : lease[p].st # "none" => taskLock[lease[p].task] = p

\* The inductive invariant behind AdmittedHoldsTask.
HeldInv == LeaseHoldsLock /\ AdmittedHoldsTask

\* What an operation that begins names.
LEMMA BegunFields ==
  ASSUME NEW k, NEW r, NEW evs
  PROVE  LET new == [Idle EXCEPT !.pc = "guarded", !.kind = k, !.rec = r, !.evs = evs]
         IN new.pc = "guarded" /\ new.kind = k /\ new.evs = evs /\ new.rec = r
  BY DEF Idle

\* What leaves the locks, the leases and the operations' subjects as they are
\* preserves the invariant.
LEMMA HeldFrame ==
  ASSUME TypeOK, HeldInv, UNCHANGED taskLock,
         \A p \in Proc : /\ lease'[p].st = lease[p].st
                         /\ lease'[p].task = lease[p].task
                         /\ lease'[p].rec = lease[p].rec,
         \A v \in Thread : op'[v].pc # "idle" =>
           /\ op[v].pc # "idle"
           /\ op'[v].kind = op[v].kind /\ op'[v].evs = op[v].evs /\ op'[v].rec = op[v].rec
  PROVE  HeldInv'
<1>1. LeaseHoldsLock'
  BY DEF HeldInv, LeaseHoldsLock
<1>2. AdmittedHoldsTask'
  BY LedgerAssumption DEF HeldInv, AdmittedHoldsTask, Busy, TaskOf
<1> QED  BY <1>1, <1>2 DEF HeldInv

\* An operation begins only under a live lease, and on its task.
LEMMA HeldAsk ==
  ASSUME TypeOK, HeldInv, NEW w \in Thread, Ask(w)
  PROVE  HeldInv'
<1>1. LeaseHoldsLock'
  BY DEF HeldInv, LeaseHoldsLock, Ask, Begin, BeginDiagnostic
<1>2. ASSUME NEW k \in Asked, NEW s \in Session, NEW q \in Session \cup {NoSession},
             Begin(w, k, s, q)
      PROVE  AdmittedHoldsTask'
  <2> DEFINE l == lease[ProcOf[w]]
             h == IF Rooted(rec[l.rec].log, l.task) THEN HolderOf(rec[l.rec].log, l.task)
                  ELSE NoSession
             evs == Written(k, l.task, s, h, q)
             new == [Idle EXCEPT !.pc = "guarded", !.kind = k, !.rec = l.rec, !.evs = evs]
  <2>1. l.st = "live" /\ l.task \in Task /\ l.rec \in Record
    BY <1>2, LedgerAssumption DEF Begin, TypeOK, LeasesOK
  <2>2. rec[l.rec].log \in Seq(Event)
    BY <2>1 DEF TypeOK, FilesOK, Content
  <2>3. h \in Session \cup {NoSession}
    BY <2>1, <2>2, HolderIsSession
  <2>4. k \in Kind
    BY LedgerAssumption
  <2> HIDE DEF h, l
  <2>5. evs[1].task = l.task
    BY <2>4 DEF Written, Kind
  <2> HIDE DEF evs
  <2>6. new.evs = evs /\ new.rec = l.rec
    BY BegunFields
  <2>7. op' = [op EXCEPT ![w] = new] /\ UNCHANGED <<taskLock, lease>>
    BY <1>2 DEF Begin, l, h, evs
  <2> HIDE DEF new
  <2>8. op'[w] = new /\ \A v \in Thread \ {w} : op'[v] = op[v]
    BY <2>7 DEF TypeOK, OpsOK
  <2>9. TaskOf(w)' = l.task
    BY <2>5, <2>6, <2>8 DEF TaskOf
  <2>10. taskLock[l.task] = ProcOf[w]
    BY <2>1, LedgerAssumption DEF HeldInv, LeaseHoldsLock, l
  <2>11. /\ lease'[ProcOf[w]].st \in {"live", "closing"}
         /\ lease'[ProcOf[w]].task = TaskOf(w)'
         /\ lease'[ProcOf[w]].rec = op'[w].rec
         /\ taskLock'[TaskOf(w)'] = ProcOf[w]
    BY <2>1, <2>6, <2>7, <2>8, <2>9, <2>10 DEF l
  <2>12. \A v \in Thread \ {w} : Busy(v)' /\ op'[v].kind # "diagnostic" =>
           /\ lease'[ProcOf[v]].st \in {"live", "closing"}
           /\ lease'[ProcOf[v]].task = TaskOf(v)'
           /\ lease'[ProcOf[v]].rec = op'[v].rec
           /\ taskLock'[TaskOf(v)'] = ProcOf[v]
    BY <2>7, <2>8 DEF HeldInv, AdmittedHoldsTask, Busy, TaskOf
  <2> QED  BY <2>11, <2>12 DEF AdmittedHoldsTask
<1>3. ASSUME NEW s \in Session, NEW r \in Record, BeginDiagnostic(w, s, r)
      PROVE  AdmittedHoldsTask'
  <2>1. op'[w].kind = "diagnostic" /\ \A v \in Thread \ {w} : op'[v] = op[v]
    BY <1>3 DEF BeginDiagnostic, Idle, TypeOK, OpsOK
  <2> QED  BY <1>3, <2>1 DEF BeginDiagnostic, HeldInv, AdmittedHoldsTask, Busy, TaskOf
<1> QED  BY <1>1, <1>2, <1>3 DEF Ask, HeldInv

\* An operation on its way changes no lock of a task and no lease but its
\* operative session.
LEMMA HeldAdvance ==
  ASSUME TypeOK, HeldInv, NEW w \in Thread, Advance(w)
  PROVE  HeldInv'
<1>1. UNCHANGED taskLock
  BY DEF Advance, Decide, LockRecord, GiveUp, Authorize, Continue, Prove, Refuse,
         Effect, WriteLine, FailWrite, Sync, Fail, Commit, Undo, FailUndo, Return
<1>2. \A p \in Proc : /\ lease'[p].st = lease[p].st
                      /\ lease'[p].task = lease[p].task
                      /\ lease'[p].rec = lease[p].rec
  <2>1. CASE UNCHANGED lease
    BY <2>1
  <2>2. CASE lease' = [lease EXCEPT ![ProcOf[w]].sess = SessOf(w)]
    BY <2>2 DEF TypeOK, LeasesOK, LeaseType
  <2> QED  BY <2>1, <2>2 DEF Advance, Decide, LockRecord, GiveUp, Authorize, Continue, Prove,
                Refuse, Effect, WriteLine, FailWrite, Sync, Fail, Commit, Undo, FailUndo, Return,
                Committed
<1>3. \A v \in Thread : op'[v].pc # "idle" =>
        /\ op[v].pc # "idle"
        /\ op'[v].kind = op[v].kind /\ op'[v].evs = op[v].evs /\ op'[v].rec = op[v].rec
  <2>1. op[w].pc # "idle"
    BY DEF Advance, Decide, LockRecord, GiveUp, Authorize, Continue, Prove, Refuse,
           Effect, WriteLine, FailWrite, Sync, Fail, Commit, Undo, FailUndo, Return
  <2>2. CASE \E pc \in PC : op' = [op EXCEPT ![w].pc = pc]
    BY <2>1, <2>2 DEF TypeOK, OpsOK, OpType
  <2>3. CASE op' = [op EXCEPT ![w] = Idle]
    BY <2>3 DEF TypeOK, OpsOK, Idle
  <2>4. CASE op' = [op EXCEPT ![w].pc = "locked", ![w].base = rec[op[w].rec]]
    BY <2>1, <2>4 DEF TypeOK, OpsOK, OpType
  <2>5. CASE op' = [op EXCEPT ![w].pc = "synced", ![w].synced = TRUE]
    BY <2>1, <2>5 DEF TypeOK, OpsOK, OpType
  <2>6. Decide(w) => \/ \E pc \in PC : op' = [op EXCEPT ![w].pc = pc]
                     \/ op' = [op EXCEPT ![w] = Idle]
                     \/ op' = [op EXCEPT ![w].pc = "locked", ![w].base = rec[op[w].rec]]
    BY DEF Decide, LockRecord, GiveUp, Authorize, Continue, Prove, Refuse, PC
  <2>7. Effect(w) => \/ \E pc \in PC : op' = [op EXCEPT ![w].pc = pc]
                     \/ op' = [op EXCEPT ![w] = Idle]
                     \/ op' = [op EXCEPT ![w].pc = "synced", ![w].synced = TRUE]
    BY DEF Effect, WriteLine, FailWrite, Sync, Fail, Commit, Undo, FailUndo, Return, Committed, PC
  <2> QED  BY <2>2, <2>3, <2>4, <2>5, <2>6, <2>7 DEF Advance
<1> QED  BY <1>1, <1>2, <1>3, HeldFrame

\* A lease is taken on a free lock, and given back after its last operation.
LEMMA HeldLease ==
  ASSUME TypeOK, HeldInv, NEW p \in Proc,
         \/ \E t \in Task, r \in Record : Acquire(p, t, r)
         \/ Holder(p) \/ Close(p)
  PROVE  HeldInv'
<1>1. UNCHANGED op
  BY DEF Acquire, Holder, Admit, Reject, Close, End, Free
<1>2. ASSUME lease[p].st \in {"none", "proving", "ended"}
      PROVE  \A v \in Thread : Busy(v) /\ op[v].kind # "diagnostic" => ProcOf[v] # p
  BY <1>2 DEF HeldInv, AdmittedHoldsTask
<1>3. ASSUME NEW t \in Task, NEW r \in Record, Acquire(p, t, r) PROVE HeldInv'
  <2>1. \A q \in Proc : lease[q].st # "none" => lease[q].task # t
    BY <1>3, LedgerAssumption DEF Acquire, HeldInv, LeaseHoldsLock
  <2>2. LeaseHoldsLock'
    BY <1>3, <2>1 DEF Acquire, HeldInv, LeaseHoldsLock, TypeOK, LeasesOK
  <2>3. \A v \in Thread : Busy(v) /\ op[v].kind # "diagnostic" => TaskOf(v) # t /\ ProcOf[v] # p
    BY <1>2, <1>3, <2>1, LedgerAssumption DEF Acquire, HeldInv, AdmittedHoldsTask
  <2>4. AdmittedHoldsTask'
    BY <1>1, <1>3, <2>3, LedgerAssumption
    DEF Acquire, HeldInv, AdmittedHoldsTask, Busy, TaskOf, TypeOK, LeasesOK
  <2> QED  BY <2>2, <2>4 DEF HeldInv
<1>4. CASE Admit(p) \/ Close(p) \/ End(p)
  <2>1. LeaseHoldsLock'
    BY <1>4 DEF Admit, Close, End, HeldInv, LeaseHoldsLock, TypeOK, LeasesOK, LeaseType
  <2>2. CASE End(p)
    <3>1. \A v \in Thread : Busy(v) /\ op[v].kind # "diagnostic" => ProcOf[v] # p
      BY <2>2 DEF End, Admitted
    <3>2. UNCHANGED taskLock /\ \A q \in Proc \ {p} : lease'[q] = lease[q]
      BY <2>2 DEF End, TypeOK, LeasesOK
    <3> QED  BY <1>1, <2>1, <3>1, <3>2, LedgerAssumption
             DEF HeldInv, AdmittedHoldsTask, Busy, TaskOf
  <2>3. CASE Admit(p) \/ Close(p)
    <3>1. /\ lease'[p].st \in {"live", "closing"}
          /\ lease'[p].task = lease[p].task
          /\ lease'[p].rec = lease[p].rec
          /\ \A q \in Proc \ {p} : lease'[q] = lease[q]
      BY <2>3 DEF Admit, Close, TypeOK, LeasesOK, LeaseType
    <3>2. UNCHANGED taskLock
      BY <2>3 DEF Admit, Close
    <3> QED  BY <1>1, <2>1, <3>1, <3>2, LedgerAssumption
             DEF HeldInv, AdmittedHoldsTask, Busy, TaskOf
  <2> QED  BY <1>4, <2>2, <2>3
<1>5. CASE Reject(p) \/ Free(p)
  <2>1. /\ lease[p].st \in {"proving", "ended"}
        /\ taskLock' = [taskLock EXCEPT ![lease[p].task] = None]
        /\ lease' = [lease EXCEPT ![p] = NoLease]
    BY <1>5 DEF Reject, Free
  <2>2. lease[p].task \in Task /\ taskLock[lease[p].task] = p
    BY <2>1 DEF HeldInv, LeaseHoldsLock, TypeOK, LeasesOK
  <2>3. \A q \in Proc \ {p} : lease'[q] = lease[q] /\ (lease[q].st # "none" => lease[q].task # lease[p].task)
    BY <2>1, <2>2 DEF HeldInv, LeaseHoldsLock, TypeOK, LeasesOK
  <2>4. lease'[p].st = "none"
    BY <2>1 DEF NoLease, TypeOK, LeasesOK
  <2>5. \A t \in Task \ {lease[p].task} : taskLock'[t] = taskLock[t]
    BY <2>1 DEF TypeOK, LeasesOK
  <2>6. LeaseHoldsLock'
    BY <2>3, <2>4, <2>5 DEF HeldInv, LeaseHoldsLock, TypeOK, LeasesOK
  <2>7. \A v \in Thread : Busy(v) /\ op[v].kind # "diagnostic" =>
          ProcOf[v] \in Proc \ {p} /\ TaskOf(v) \in Task \ {lease[p].task}
    <3>1. SUFFICES ASSUME NEW v \in Thread, Busy(v), op[v].kind # "diagnostic"
                   PROVE  ProcOf[v] \in Proc \ {p} /\ TaskOf(v) \in Task \ {lease[p].task}
      OBVIOUS
    <3>2. ProcOf[v] \in Proc \ {p}
      BY <1>2, <2>1, <3>1, LedgerAssumption
    <3>3. lease[ProcOf[v]].st # "none" /\ lease[ProcOf[v]].task = TaskOf(v)
      BY <3>1 DEF HeldInv, AdmittedHoldsTask
    <3> QED  BY <2>3, <3>2, <3>3 DEF TypeOK, LeasesOK
  <2>8. AdmittedHoldsTask'
    BY <1>1, <2>3, <2>5, <2>7 DEF HeldInv, AdmittedHoldsTask, Busy, TaskOf
  <2> QED  BY <2>6, <2>8 DEF HeldInv
<1> QED  BY <1>3, <1>4, <1>5 DEF Holder

\* The kernel frees the locks of a dead process, and only those.
LEMMA HeldCrash ==
  ASSUME TypeOK, HeldInv, NEW p \in Proc, Crash(p)
  PROVE  HeldInv'
<1>1. /\ lease' = [lease EXCEPT ![p] = NoLease]
      /\ taskLock' = [t \in Task |-> IF taskLock[t] = p THEN None ELSE taskLock[t]]
      /\ op' = [w \in Thread |-> IF ProcOf[w] = p THEN Idle ELSE op[w]]
  BY DEF Crash
<1>2. lease'[p].st = "none" /\ \A q \in Proc \ {p} : lease'[q] = lease[q]
  BY <1>1 DEF NoLease, TypeOK, LeasesOK
<1>3. LeaseHoldsLock'
  BY <1>1, <1>2 DEF HeldInv, LeaseHoldsLock, TypeOK, LeasesOK
<1>4. \A v \in Thread : Busy(v)' => ProcOf[v] \in Proc \ {p} /\ op'[v] = op[v]
  BY <1>1, LedgerAssumption DEF Busy, Idle
<1>5. AdmittedHoldsTask'
  <2>1. SUFFICES ASSUME NEW v \in Thread, Busy(v)', op'[v].kind # "diagnostic"
                 PROVE  /\ lease'[ProcOf[v]].st \in {"live", "closing"}
                        /\ lease'[ProcOf[v]].task = TaskOf(v)'
                        /\ lease'[ProcOf[v]].rec = op'[v].rec
                        /\ taskLock'[TaskOf(v)'] = ProcOf[v]
    BY DEF AdmittedHoldsTask
  <2>2. ProcOf[v] \in Proc \ {p} /\ op'[v] = op[v] /\ TaskOf(v)' = TaskOf(v)
    BY <1>4, <2>1 DEF TaskOf
  <2>3. /\ lease[ProcOf[v]].st \in {"live", "closing"}
        /\ lease[ProcOf[v]].task = TaskOf(v)
        /\ lease[ProcOf[v]].rec = op[v].rec
        /\ taskLock[TaskOf(v)] = ProcOf[v]
    BY <2>1, <2>2 DEF HeldInv, AdmittedHoldsTask, Busy
  <2>4. TaskOf(v) \in Task
    BY <2>2, <2>3 DEF TypeOK, LeasesOK
  <2> QED  BY <1>1, <1>2, <2>2, <2>3, <2>4
<1> QED  BY <1>3, <1>5 DEF HeldInv

\* The operator takes only free locks, and frees only its own.
LEMMA HeldActivate ==
  ASSUME TypeOK, HeldInv, Activate
  PROVE  HeldInv'
<1>1. UNCHANGED <<lease, op>>
  BY DEF Activate, Examine, LeaseClaim, LockTorn, Publish, SyncManifest, Leave
<1>2. \A t \in Task, p \in Proc : taskLock[t] = p => taskLock'[t] = p
  <2>1. CASE UNCHANGED taskLock
    BY <2>1
  <2>2. ASSUME NEW t \in Task, LeaseClaim(t)
        PROVE  \A u \in Task, p \in Proc : taskLock[u] = p => taskLock'[u] = p
    BY <2>2, LedgerAssumption DEF LeaseClaim, TypeOK, LeasesOK
  <2>3. CASE Leave
    BY <2>3, LedgerAssumption DEF Leave
  <2> QED  BY <2>1, <2>2, <2>3 DEF Activate, Examine, LockTorn, Publish, SyncManifest
<1>3. LeaseHoldsLock'
  BY <1>1, <1>2 DEF HeldInv, LeaseHoldsLock, TypeOK, LeasesOK
<1>4. AdmittedHoldsTask'
  <2>1. \A v \in Thread : lease[ProcOf[v]].st # "none" => lease[ProcOf[v]].task \in Task
    BY LedgerAssumption DEF TypeOK, LeasesOK
  <2> QED  BY <1>1, <1>2, <2>1, LedgerAssumption DEF HeldInv, AdmittedHoldsTask, Busy, TaskOf
<1> QED  BY <1>3, <1>4 DEF HeldInv

\* At first nobody holds or does anything.
LEMMA HeldInit == Init => HeldInv
  BY LedgerAssumption DEF Init, HeldInv, LeaseHoldsLock, AdmittedHoldsTask, NoLease, Busy, Idle

\* Every step keeps the leases' locks and the operations' leases.
LEMMA HeldNext == TypeOK /\ HeldInv /\ [Next]_vars => HeldInv'
<1> SUFFICES ASSUME TypeOK, HeldInv, [Next]_vars PROVE HeldInv'
  OBVIOUS
<1>1. ASSUME NEW w \in Thread, Ask(w) \/ Advance(w) PROVE HeldInv'
  BY <1>1, HeldAsk, HeldAdvance
<1>2. ASSUME NEW p \in Proc, \/ \E t \in Task, r \in Record : Acquire(p, t, r)
                             \/ Holder(p) \/ Close(p)
      PROVE  HeldInv'
  BY <1>2, HeldLease
<1>3. ASSUME NEW p \in Proc, Crash(p) PROVE HeldInv'
  BY <1>3, HeldCrash
<1>4. CASE PowerLoss
  BY <1>4, LedgerAssumption
  DEF PowerLoss, HeldInv, LeaseHoldsLock, AdmittedHoldsTask, NoLease, Busy, Idle
<1>5. CASE Activate
  BY <1>5, HeldActivate
<1>6. CASE UNCHANGED vars
  BY <1>6, HeldFrame DEF vars, history
<1> QED  BY <1>1, <1>2, <1>3, <1>4, <1>5, <1>6 DEF Next

\* Whoever is inside an operation of a task holds that task's lease and its OS
\* lock: Release never overtakes an operation it admitted.
THEOREM AdmittedHolds == Spec => []AdmittedHoldsTask
<1>1. HeldInv => AdmittedHoldsTask
  BY DEF HeldInv
<1> QED  BY <1>1, HeldInit, HeldNext, TypeCorrect, PTL DEF Spec

\* No two processes hold a lease of one task.
THEOREM OneLeasePerTask ==
  Spec => [](\A p, q \in Proc : lease[p].st # "none" /\ lease[q].st # "none" /\ p # q
                                => lease[p].task # lease[q].task)
<1>1. HeldInv => \A p, q \in Proc : lease[p].st # "none" /\ lease[q].st # "none" /\ p # q
                                    => lease[p].task # lease[q].task
  BY DEF HeldInv, LeaseHoldsLock
<1> QED  BY <1>1, HeldInit, HeldNext, TypeCorrect, PTL DEF Spec

-----------------------------------------------------------------------------
(* A refusal leaves no trace.  It is so because whoever is past lockRecord *)
(* holds the record's lock, so that no other writes the record between the *)
(* measure of its length and the end of the operation, whatever dies in    *)
(* between; and because nothing is written before "writing" or left after  *)
(* an undo.                                                                *)

\* The operation is past lockRecord.
Locking(w) == op[w].pc \notin {"idle", "guarded"}

\* It has written nothing, or undone what it wrote.
Untouched(w) == op[w].pc \in {"locked", "proving", "writing", "refused"}

\* Who is past lockRecord owns the record's lock.
RecordHeld == \A w \in Thread : Locking(w) => recLock[op[w].rec] = w

\* Until it writes, its record is the one it locked.
BaseKept == \A w \in Thread : Untouched(w) => rec[op[w].rec] = op[w].base

\* The inductive invariant behind RefusedLeavesNoTrace.
TraceInv == RecordHeld /\ BaseKept

\* Two operations past lockRecord are in two records.
LEMMA Exclusion ==
  ASSUME RecordHeld, NEW v \in Thread, NEW w \in Thread, v # w, Locking(v), Locking(w)
  PROVE  op[v].rec # op[w].rec
  BY DEF RecordHeld

\* A step that starts operations or ends them, writes nothing, and takes the
\* record lock of none.
LEMMA TraceFrame ==
  ASSUME TypeOK, TraceInv, UNCHANGED rec,
         \A v \in Thread : Locking(v)' =>
           op'[v] = op[v] /\ recLock'[op[v].rec] = recLock[op[v].rec]
  PROVE  TraceInv'
  BY DEF TraceInv, RecordHeld, BaseKept, Locking, Untouched

\* A step of one operation that holds the record's lock, and writes at most
\* that record.
LEMMA TraceMove ==
  ASSUME TypeOK, TraceInv, NEW w \in Thread, Locking(w), UNCHANGED recLock,
         op'[w].rec = op[w].rec, op'[w].base = op[w].base,
         \A v \in Thread \ {w} : op'[v] = op[v],
         \A r \in Record \ {op[w].rec} : rec'[r] = rec[r],
         Untouched(w)' => rec'[op[w].rec] = op[w].base
  PROVE  TraceInv'
<1>1. RecordHeld'
  BY DEF TraceInv, RecordHeld, Locking
<1>2. ASSUME NEW v \in Thread \ {w}, Untouched(v)' PROVE rec'[op'[v].rec] = op'[v].base
  <2>1. Untouched(v) /\ Locking(v) /\ op[v].rec \in Record
    BY <1>2 DEF Untouched, Locking, TypeOK, OpsOK, Busy
  <2>2. op[v].rec # op[w].rec
    BY <2>1, Exclusion DEF TraceInv
  <2> QED  BY <2>1, <2>2 DEF TraceInv, BaseKept
<1>3. BaseKept'
  BY <1>2 DEF BaseKept
<1> QED  BY <1>1, <1>3 DEF TraceInv

\* The steps that take the record's lock or leave it alone, and write nothing.
LEMMA TraceDecide ==
  ASSUME TypeOK, TraceInv, NEW w \in Thread, Decide(w)
  PROVE  TraceInv'
<1> USE DEF TypeOK, OpsOK
<1>1. UNCHANGED rec
  BY DEF Decide, LockRecord, GiveUp, Authorize, Continue, Prove, Refuse
<1>2. CASE LockRecord(w)
  <2>1. \A v \in Thread \ {w} : op'[v] = op[v]
    BY <1>2 DEF LockRecord
  <2>2. op'[w].rec = op[w].rec /\ op'[w].base = rec[op[w].rec] /\ op[w].rec \in Record
    BY <1>2 DEF LockRecord, OpType, Busy
  <2>3. recLock'[op[w].rec] = w /\ \A r \in Record \ {op[w].rec} : recLock'[r] = recLock[r]
    BY <1>2, <2>2 DEF LockRecord
  <2>4. ASSUME NEW v \in Thread \ {w}, Locking(v) PROVE op[v].rec \in Record \ {op[w].rec}
    <3>1. recLock[op[v].rec] = v /\ recLock[op[w].rec] = None
      BY <1>2, <2>4 DEF TraceInv, RecordHeld, LockRecord
    <3>2. v # None
      BY LedgerAssumption
    <3>3. op[v].rec \in Record
      BY <2>4 DEF Locking, Busy
    <3> QED  BY <3>1, <3>2, <3>3
  <2>5. RecordHeld'
    BY <2>1, <2>2, <2>3, <2>4 DEF TraceInv, RecordHeld, Locking
  <2>6. BaseKept'
    BY <1>1, <2>1, <2>2 DEF TraceInv, BaseKept, Untouched
  <2> QED  BY <2>5, <2>6 DEF TraceInv
<1>3. CASE GiveUp(w)
  <2>1. \A v \in Thread : Locking(v)' => op'[v] = op[v]
    BY <1>3 DEF GiveUp, Locking, Idle
  <2> QED  BY <1>1, <1>3, <2>1, TraceFrame DEF GiveUp
<1>4. CASE Authorize(w) \/ Prove(w) \/ Refuse(w) \/ Continue(w)
  <2>1. \E pc \in PC : op' = [op EXCEPT ![w].pc = pc]
    BY <1>4 DEF Authorize, Prove, Refuse, Continue, PC
  <2>2. op[w].pc \in {"locked", "proving"} /\ UNCHANGED recLock
    BY <1>4 DEF Authorize, Prove, Refuse, Continue
  <2>3. /\ op'[w].rec = op[w].rec /\ op'[w].base = op[w].base
        /\ \A v \in Thread \ {w} : op'[v] = op[v]
    BY <2>1 DEF OpType
  <2>4. Locking(w) /\ rec[op[w].rec] = op[w].base
    BY <2>2 DEF Locking, Untouched, TraceInv, BaseKept
  <2> QED  BY <1>1, <2>2, <2>3, <2>4, TraceMove
<1> QED  BY <1>2, <1>3, <1>4 DEF Decide

\* The steps that write: only the record whose lock the operation owns.
LEMMA TraceEffect ==
  ASSUME TypeOK, TraceInv, NEW w \in Thread, Effect(w)
  PROVE  TraceInv'
<1> USE DEF TypeOK, OpsOK, FilesOK
<1>1. op[w].pc \in PC \ {"idle", "guarded", "locked", "proving"}
  BY DEF Effect, WriteLine, FailWrite, Sync, Fail, Commit, Undo, FailUndo, Return, PC
<1>2. Locking(w) /\ op[w].rec \in Record
  BY <1>1 DEF Locking, Busy
<1>3. CASE Return(w)
  <2>1. ASSUME NEW v \in Thread, Locking(v)'
        PROVE  op'[v] = op[v] /\ recLock'[op[v].rec] = recLock[op[v].rec]
    <3>1. v # w /\ op'[v] = op[v]
      BY <1>3, <2>1 DEF Return, Locking, Idle
    <3>2. op[v].rec \in Record /\ Locking(v)
      BY <2>1, <3>1 DEF Locking, Busy
    <3>3. op[v].rec # op[w].rec
      BY <1>2, <3>1, <3>2, Exclusion DEF TraceInv
    <3> QED  BY <1>3, <3>1, <3>2, <3>3 DEF Return
  <2> QED  BY <1>3, <2>1, TraceFrame DEF Return
<1>4. CASE ~Return(w)
  <2>1. \/ \E pc \in PC : op' = [op EXCEPT ![w].pc = pc]
        \/ op' = [op EXCEPT ![w].pc = "synced", ![w].synced = TRUE]
    BY <1>4 DEF Effect, WriteLine, FailWrite, Sync, Fail, Commit, Undo, FailUndo, Committed, PC
  <2>2. /\ op'[w].rec = op[w].rec /\ op'[w].base = op[w].base
        /\ \A v \in Thread \ {w} : op'[v] = op[v]
    BY <2>1 DEF OpType
  <2>3. UNCHANGED recLock
    BY <1>4 DEF Effect, WriteLine, FailWrite, Sync, Fail, Commit, Undo, FailUndo, Committed
  <2>4. \A r \in Record \ {op[w].rec} : rec'[r] = rec[r]
    <3>1. \/ UNCHANGED rec
          \/ \E c : rec' = [rec EXCEPT ![op[w].rec] = c]
      BY <1>4 DEF Effect, WriteLine, FailWrite, Sync, Fail, Commit, Undo, FailUndo
    <3> QED  BY <3>1
  <2>5. Untouched(w)' => rec'[op[w].rec] = op[w].base
    <3>1. CASE Undo(w)
      BY <1>2, <3>1 DEF Undo
    <3>2. CASE ~Undo(w)
      <4>1. op'[w].pc \in {"written", "synced", "undoing", "returning", "unknown"}
        BY <1>4, <3>2 DEF Effect, WriteLine, FailWrite, Sync, Fail, Commit, FailUndo, Committed,
                          OpType
      <4> QED  BY <4>1 DEF Untouched
    <3> QED  BY <3>1, <3>2
  <2> QED  BY <1>2, <2>2, <2>3, <2>4, <2>5, TraceMove
<1> QED  BY <1>3, <1>4

\* A new operation has no record lock yet.
LEMMA TraceAsk ==
  ASSUME TypeOK, TraceInv, NEW w \in Thread, Ask(w)
  PROVE  TraceInv'
<1>1. ASSUME NEW k, NEW s, NEW q, Begin(w, k, s, q)
      PROVE  \A v \in Thread : Locking(v)' => op'[v] = op[v]
  <2> DEFINE l == lease[ProcOf[w]]
             h == IF Rooted(rec[l.rec].log, l.task) THEN HolderOf(rec[l.rec].log, l.task)
                  ELSE NoSession
             evs == Written(k, l.task, s, h, q)
             new == [Idle EXCEPT !.pc = "guarded", !.kind = k, !.rec = l.rec, !.evs = evs]
  <2>1. op' = [op EXCEPT ![w] = new]
    BY <1>1 DEF Begin
  <2> HIDE DEF l, evs
  <2>2. new.pc = "guarded"
    BY BegunFields
  <2> HIDE DEF new
  <2> QED  BY <2>1, <2>2 DEF Locking, TypeOK, OpsOK
<1>2. ASSUME NEW s, NEW r, BeginDiagnostic(w, s, r)
      PROVE  \A v \in Thread : Locking(v)' => op'[v] = op[v]
  <2> DEFINE evs == Written("diagnostic", NoTask, s, NoSession, NoSession)
             new == [Idle EXCEPT !.pc = "guarded", !.kind = "diagnostic", !.rec = r, !.evs = evs]
  <2>1. op' = [op EXCEPT ![w] = new]
    BY <1>2 DEF BeginDiagnostic
  <2> HIDE DEF evs
  <2>2. new.pc = "guarded"
    BY BegunFields
  <2> HIDE DEF new
  <2> QED  BY <2>1, <2>2 DEF Locking, TypeOK, OpsOK
<1>3. UNCHANGED <<rec, recLock>>
  BY DEF Ask, Begin, BeginDiagnostic
<1> QED  BY <1>1, <1>2, <1>3, TraceFrame DEF Ask

\* Only a dead process's write is cut, and it held the record's lock.
LEMMA TraceCrash ==
  ASSUME TypeOK, TraceInv, NEW p \in Proc, Crash(p)
  PROVE  TraceInv'
<1> DEFINE dead == {w \in Thread : ProcOf[w] = p}
           cut(r) == {w \in dead : op[w].pc = "writing" /\ op[w].rec = r}
           F == [r \in Record |-> {rec[r]} \cup UNION {Interrupted(rec[r], op[w].evs) : w \in cut(r)}]
<1>1. \A v \in Thread : Locking(v)' => v \notin dead /\ op'[v] = op[v]
  BY DEF Crash, Locking, Idle
<1>2. ASSUME NEW v \in Thread, Locking(v)'
      PROVE  /\ op[v].rec \in Record /\ recLock[op[v].rec] = v
             /\ recLock'[op[v].rec] = v /\ rec'[op[v].rec] = rec[op[v].rec]
  <2>1. Locking(v) /\ op[v].rec \in Record
    BY <1>1, <1>2 DEF Locking, Busy, TypeOK, OpsOK
  <2>2. recLock[op[v].rec] = v
    BY <2>1 DEF TraceInv, RecordHeld
  <2>3. recLock'[op[v].rec] = v
    BY <1>1, <1>2, <2>1, <2>2 DEF Crash
  <2>4. cut(op[v].rec) = {}
    <3>1. SUFFICES ASSUME NEW u \in cut(op[v].rec) PROVE FALSE
      OBVIOUS
    <3>2. Locking(u) /\ u # v /\ op[u].rec = op[v].rec
      BY <1>1, <1>2, <3>1 DEF Locking
    <3> QED  BY <2>1, <3>2, Exclusion DEF TraceInv
  <2>5. F[op[v].rec] = {rec[op[v].rec]}
    BY <2>1, <2>4
  <2>6. rec' \in Outcomes(F)
    BY DEF Crash
  <2> HIDE DEF F
  <2>7. rec'[op[v].rec] \in F[op[v].rec]
    BY <2>1, <2>6, OutcomesType
  <2> QED  BY <2>1, <2>2, <2>3, <2>5, <2>7
<1>3. RecordHeld'
  BY <1>1, <1>2 DEF RecordHeld
<1>4. BaseKept'
  <2>1. SUFFICES ASSUME NEW v \in Thread, Untouched(v)' PROVE rec'[op'[v].rec] = op'[v].base
    BY DEF BaseKept
  <2>2. Locking(v)' /\ op'[v] = op[v] /\ rec'[op[v].rec] = rec[op[v].rec]
    BY <1>1, <1>2, <2>1 DEF Untouched, Locking
  <2> QED  BY <2>1, <2>2 DEF TraceInv, BaseKept, Untouched
<1> QED  BY <1>3, <1>4 DEF TraceInv

\* The operator takes a free record lock, and writes no record.
LEMMA TraceActivate ==
  ASSUME TypeOK, TraceInv, Activate
  PROVE  TraceInv'
<1>1. UNCHANGED <<rec, op>>
  BY DEF Activate, Examine, LeaseClaim, LockTorn, Publish, SyncManifest, Leave
<1>2. \A r \in Record, v \in Thread : recLock[r] = v => recLock'[r] = v
  <2>1. CASE UNCHANGED recLock
    BY <2>1
  <2>2. CASE LockTorn
    BY <2>2, LedgerAssumption DEF LockTorn, TypeOK, OpsOK
  <2>3. CASE Leave
    BY <2>3, LedgerAssumption DEF Leave
  <2> QED  BY <2>1, <2>2, <2>3 DEF Activate, Examine, LeaseClaim, Publish, SyncManifest
<1>3. \A v \in Thread : Locking(v)' => op'[v] = op[v] /\ recLock'[op[v].rec] = recLock[op[v].rec]
  BY <1>1, <1>2 DEF Locking, TraceInv, RecordHeld, TypeOK, OpsOK, Busy
<1> QED  BY <1>1, <1>3, TraceFrame

\* At first no operation holds a record's lock.
LEMMA TraceInit == Init => TraceInv
  BY DEF Init, TraceInv, RecordHeld, BaseKept, Locking, Untouched, Idle

\* Every step keeps the record locks and what they protect.
LEMMA TraceNext == TypeOK /\ TraceInv /\ [Next]_vars => TraceInv'
<1> SUFFICES ASSUME TypeOK, TraceInv, [Next]_vars PROVE TraceInv'
  OBVIOUS
<1>1. ASSUME NEW w \in Thread, Ask(w) \/ Advance(w) PROVE TraceInv'
  BY <1>1, TraceAsk, TraceDecide, TraceEffect DEF Advance
<1>2. ASSUME NEW p \in Proc, \/ \E t \in Task, r \in Record : Acquire(p, t, r)
                             \/ Holder(p) \/ Close(p)
      PROVE  TraceInv'
  <2>1. UNCHANGED <<rec, op, recLock>>
    BY <1>2 DEF Acquire, Holder, Admit, Reject, Close, End, Free
  <2> QED  BY <2>1, TraceFrame
<1>3. ASSUME NEW p \in Proc, Crash(p) PROVE TraceInv'
  BY <1>3, TraceCrash
<1>4. CASE PowerLoss
  BY <1>4 DEF PowerLoss, TraceInv, RecordHeld, BaseKept, Locking, Untouched, Idle
<1>5. CASE Activate
  BY <1>5, TraceActivate
<1>6. CASE UNCHANGED vars
  BY <1>6, TraceFrame DEF vars, history
<1> QED  BY <1>1, <1>2, <1>3, <1>4, <1>5, <1>6 DEF Next

\* At most one operation is past lockRecord in any record.
THEOREM RecordExclusion ==
  Spec => [](\A v, w \in Thread : Locking(v) /\ Locking(w) /\ v # w => op[v].rec # op[w].rec)
<1>1. TraceInv => \A v, w \in Thread : Locking(v) /\ Locking(w) /\ v # w => op[v].rec # op[w].rec
  BY Exclusion DEF TraceInv
<1> QED  BY <1>1, TraceInit, TraceNext, TypeCorrect, PTL DEF Spec

\* An operation that refuses leaves the record byte for byte as it found it.
THEOREM RefusedLeaves == Spec => []RefusedLeavesNoTrace
<1>1. TraceInv => RefusedLeavesNoTrace
  BY DEF TraceInv, BaseKept, Untouched, RefusedLeavesNoTrace
<1> QED  BY <1>1, TraceInit, TraceNext, TypeCorrect, PTL DEF Spec

-----------------------------------------------------------------------------
(* The lineage of a record and of what it is the beginning of.             *)

\* p is the beginning of log.
Begins(p, log) == Len(p) <= Len(log) /\ \A i \in 1..Len(p) : p[i] = log[i]

\* A record wholly of the lineage, which MembersOnly says of each that loads.
Lineal(log) ==
  /\ \A t \in Task : Turns(log, t) # {} => Established(log, t)
  /\ \A i \in DOMAIN log : log[i].task # NoTask => log[i].sess = TipAt(log, log[i].task, i)

\* What the lineage in log demands of the next event.
Owed(log, e) ==
  /\ e.ok
  /\ \/ e.task = NoTask
     \/ e.kind = "root" /\ Turns(log, e.task) = {}
     \/ /\ e.kind = "bound"
        /\ Established(log, e.task)
        /\ e.holder = HolderOf(log, e.task)
        /\ e.parent = TipOf(log, e.task)
        /\ \A i \in Turns(log, e.task) : log[i].sess # e.sess
     \/ /\ e.kind \notin {"root", "bound"}
        /\ Established(log, e.task)
        /\ e.sess = TipOf(log, e.task)

\* A set of positions has a last one, and only one.
LEMMA LatestIn ==
  ASSUME NEW n \in Nat, NEW S \in SUBSET (1..n), S # {}
  PROVE  Latest(S) \in S /\ \A j \in S : j <= Latest(S)
<1> DEFINE T == {n - x : x \in S}
<1>1. T \subseteq Nat /\ T # {}
  <2>1. \A x \in S : x \in Int /\ n - x \in Nat
    OBVIOUS
  <2> QED  BY <2>1
<1>2. PICK t \in T : \A y \in T : ~ (<<y, t>> \in OpToRel(<, Nat))
  BY <1>1, NatLessThanWellFounded, WFMin
<1>3. PICK x \in S : t = n - x
  BY <1>2
<1>4. ASSUME NEW y \in S PROVE y <= x
  <2>1. n - y \in T /\ n - y \in Nat /\ t \in Nat
    BY <1>1, <1>2
  <2>2. ~ (n - y < t)
    BY <2>1, <1>2 DEF OpToRel
  <2> QED  BY <2>1, <2>2, <1>3
<1> QED  BY <1>4 DEF Latest

\* It is the one that no other follows.
LEMMA LatestIs ==
  ASSUME NEW n \in Nat, NEW S \in SUBSET (1..n), NEW m \in S, \A j \in S : j <= m
  PROVE  Latest(S) = m
<1>1. Latest(S) \in S /\ \A j \in S : j <= Latest(S)
  BY DEF Latest
<1>2. \A x \in S : x \in Int
  OBVIOUS
<1>3. Latest(S) <= m /\ m <= Latest(S)
  BY <1>1
<1>4. m \in Int /\ Latest(S) \in Int
  BY <1>1, <1>2
<1> QED  BY <1>3, <1>4

\* Positions of a task are positions.
LEMMA TurnsIn ==
  ASSUME NEW log \in Seq(Event), NEW t
  PROVE  /\ Len(log) \in Nat /\ DOMAIN log = 1..Len(log)
         /\ Roots(log, t) \subseteq 1..Len(log) /\ Bounds(log, t) \subseteq 1..Len(log)
         /\ Turns(log, t) \subseteq 1..Len(log)
  BY DEF Roots, Bounds, Turns

\* The beginning of a record has its turns and its tips.
LEMMA BeginsSame ==
  ASSUME NEW p \in Seq(Event), NEW log \in Seq(Event), Begins(p, log), NEW t
  PROVE  /\ \A i : i \in Roots(p, t) <=> i \in Roots(log, t) /\ i \in 1..Len(p)
         /\ \A i : i \in Bounds(p, t) <=> i \in Bounds(log, t) /\ i \in 1..Len(p)
         /\ \A i : i \in Turns(p, t) <=> i \in Turns(log, t) /\ i \in 1..Len(p)
         /\ \A n \in 0..Len(p) : TipAt(p, t, n) = TipAt(log, t, n)
<1>1. /\ Len(p) \in Nat /\ Len(log) \in Nat /\ Len(p) <= Len(log)
      /\ DOMAIN p = 1..Len(p) /\ DOMAIN log = 1..Len(log)
      /\ \A i \in 1..Len(p) : p[i] = log[i] /\ i \in 1..Len(log)
  BY DEF Begins
<1>2. /\ \A i : i \in Roots(p, t) <=> i \in Roots(log, t) /\ i \in 1..Len(p)
      /\ \A i : i \in Bounds(p, t) <=> i \in Bounds(log, t) /\ i \in 1..Len(p)
  BY <1>1 DEF Roots, Bounds
<1>3. \A i : i \in Turns(p, t) <=> i \in Turns(log, t) /\ i \in 1..Len(p)
  BY <1>2 DEF Turns
<1>4. ASSUME NEW n \in 0..Len(p) PROVE TipAt(p, t, n) = TipAt(log, t, n)
  <2> DEFINE S == {i \in Turns(p, t) : i <= n}
             R == {i \in Turns(log, t) : i <= n}
  <2>1. \A i \in Turns(log, t) : i \in 1..Len(log)
    BY TurnsIn
  <2>2. \A i \in R : i \in 1..Len(p)
    BY <2>1, <1>1
  <2>3. S = R
    BY <1>3, <2>2
  <2>4. S \in SUBSET (1..Len(p))
    BY <1>3
  <2>5. S # {} => Latest(S) \in 1..Len(p)
    BY <2>4, <1>1, LatestIn
  <2>6. TipAt(p, t, n) = IF S = {} THEN NoSession ELSE p[Latest(S)].sess
    BY DEF TipAt
  <2>7. TipAt(log, t, n) = IF R = {} THEN NoSession ELSE log[Latest(R)].sess
    BY DEF TipAt
  <2> HIDE DEF S, R
  <2> QED  BY <2>3, <2>5, <2>6, <2>7, <1>1
<1> QED  BY <1>2, <1>3, <1>4

\* The root of an established task is its one root.
LEMMA OneRootIs ==
  ASSUME NEW log \in Seq(Event), NEW t, Established(log, t)
  PROVE  \E r \in 1..Len(log) :
           /\ Roots(log, t) = {r} /\ HolderOf(log, t) = log[r].sess /\ log[r].ok
           /\ \A i \in Turns(log, t) : i # r => i > r
           /\ \A i \in DOMAIN log : log[i].task = t /\ i > r => log[i].ok /\ log[i].kind # "root"
<1>1. PICK r \in Roots(log, t) :
        /\ log[r].ok
        /\ \A i \in Turns(log, t) : i # r => i > r
        /\ \A i \in DOMAIN log : log[i].task = t /\ i > r => log[i].ok /\ log[i].kind # "root"
  BY DEF Established
<1>2. \A i \in Roots(log, t) : i = r
  <2>1. SUFFICES ASSUME NEW i \in Roots(log, t), i # r PROVE FALSE
    OBVIOUS
  <2>2. i > r /\ i \in DOMAIN log /\ log[i].task = t /\ log[i].kind = "root"
    BY <1>1, <2>1 DEF Turns, Roots
  <2> QED  BY <1>1, <2>2
<1>3. Roots(log, t) = {r} /\ r \in 1..Len(log)
  BY <1>2, TurnsIn
<1>4. HolderOf(log, t) = log[r].sess
  BY <1>3 DEF HolderOf
<1> QED  BY <1>1, <1>3, <1>4

\* The beginning of a lineal record is lineal.
LEMMA LinealBegins ==
  ASSUME NEW p \in Seq(Event), NEW log \in Seq(Event), Begins(p, log), Lineal(log)
  PROVE  Lineal(p)
<1>1. /\ Len(p) \in Nat /\ Len(log) \in Nat /\ Len(p) <= Len(log)
      /\ DOMAIN p = 1..Len(p) /\ DOMAIN log = 1..Len(log)
      /\ \A i \in 1..Len(p) : p[i] = log[i] /\ i \in 1..Len(log)
  BY DEF Begins
<1>2. ASSUME NEW t \in Task, NEW j \in Turns(p, t)
      PROVE  Established(p, t)
  <2>1. Established(log, t)
    BY BeginsSame DEF Lineal
  <2>2. PICK r \in 1..Len(log) :
          /\ Roots(log, t) = {r} /\ HolderOf(log, t) = log[r].sess /\ log[r].ok
          /\ \A i \in Turns(log, t) : i # r => i > r
          /\ \A i \in DOMAIN log : log[i].task = t /\ i > r => log[i].ok /\ log[i].kind # "root"
    BY <2>1, OneRootIs
  <2>3. j \in Turns(log, t) /\ j \in 1..Len(p)
    BY BeginsSame
  <2>4. r <= j
    BY <2>2, <2>3
  <2>5. r \in 1..Len(p)
    BY <2>3, <2>4, <1>1
  <2>6. r \in Roots(p, t) /\ \A i \in Roots(p, t) : i = r
    BY <2>2, <2>5, BeginsSame
  <2>7. Roots(p, t) = {r} /\ p[r] = log[r]
    BY <2>5, <2>6, <1>1
  <2>8. HolderOf(p, t) = HolderOf(log, t)
    BY <2>2, <2>7 DEF HolderOf
  <2>9. /\ \A i \in Turns(p, t) : i # r => i > r
        /\ \A i \in DOMAIN p : p[i].task = t /\ i > r => p[i].ok /\ p[i].kind # "root"
    BY <1>1, <2>2, BeginsSame
  <2>10. ASSUME NEW i \in Bounds(p, t)
         PROVE  /\ p[i].holder = HolderOf(p, t)
                /\ p[i].parent = TipAt(p, t, i - 1)
                /\ \A k \in Turns(p, t) : k # i => p[k].sess # p[i].sess
    <3>1. i \in Bounds(log, t) /\ i \in 1..Len(p)
      BY BeginsSame
    <3>2. /\ log[i].holder = HolderOf(log, t)
          /\ log[i].parent = TipAt(log, t, i - 1)
          /\ \A k \in Turns(log, t) : k # i => log[k].sess # log[i].sess
      BY <3>1, <2>1 DEF Established
    <3>3. i - 1 \in 0..Len(p)
      BY <3>1, <1>1
    <3>4. TipAt(p, t, i - 1) = TipAt(log, t, i - 1)
      BY <3>3, BeginsSame
    <3>5. \A k \in Turns(p, t) : k \in Turns(log, t) /\ p[k] = log[k]
      BY <1>1, BeginsSame
    <3> QED  BY <3>1, <3>2, <3>4, <3>5, <2>8, <1>1
  <2> QED  BY <2>2, <2>6, <2>7, <2>9, <2>10 DEF Established
<1>3. ASSUME NEW i \in DOMAIN p, p[i].task # NoTask
      PROVE  p[i].sess = TipAt(p, p[i].task, i)
  <2>1. i \in 1..Len(p) /\ i \in 0..Len(p) /\ p[i] = log[i] /\ i \in DOMAIN log
    BY <1>1
  <2>2. TipAt(p, p[i].task, i) = TipAt(log, p[i].task, i)
    BY <2>1, BeginsSame
  <2> QED  BY <2>1, <2>2, <1>3 DEF Lineal
<1> QED  BY <1>2, <1>3 DEF Lineal

\* A record of one more event.
LEMMA OneMore ==
  ASSUME NEW log \in Seq(Event), NEW e \in Event, NEW t
  PROVE  /\ Append(log, e) \in Seq(Event) /\ Len(Append(log, e)) = Len(log) + 1
         /\ DOMAIN Append(log, e) = 1..(Len(log) + 1)
         /\ Append(log, e)[Len(log) + 1] = e /\ Begins(log, Append(log, e))
         /\ \A i \in 1..Len(log) : Append(log, e)[i] = log[i]
         /\ Roots(Append(log, e), t) = Roots(log, t) \cup
              {i \in {Len(log) + 1} : e.task = t /\ e.kind = "root"}
         /\ Bounds(Append(log, e), t) = Bounds(log, t) \cup
              {i \in {Len(log) + 1} : e.task = t /\ e.kind = "bound"}
<1> DEFINE new == Append(log, e)
<1>1. /\ new \in Seq(Event) /\ Len(new) = Len(log) + 1 /\ new[Len(log) + 1] = e
      /\ \A i \in 1..Len(log) : new[i] = log[i]
  BY AppendProperties
<1> HIDE DEF new
<1>2. Len(log) \in Nat /\ DOMAIN log = 1..Len(log) /\ DOMAIN new = 1..(Len(log) + 1)
  BY <1>1
<1>3. Begins(log, new)
  BY <1>1, <1>2 DEF Begins
<1>4. \A i \in 1..(Len(log) + 1) : i \in 1..Len(log) \/ i = Len(log) + 1
  BY <1>2
<1>5. Roots(new, t) = Roots(log, t) \cup {i \in {Len(log) + 1} : e.task = t /\ e.kind = "root"}
  BY <1>1, <1>2, <1>4 DEF Roots
<1>6. Bounds(new, t) = Bounds(log, t) \cup {i \in {Len(log) + 1} : e.task = t /\ e.kind = "bound"}
  BY <1>1, <1>2, <1>4 DEF Bounds
<1> QED  BY <1>1, <1>2, <1>3, <1>5, <1>6 DEF new

\* The tip follows a turn, and only a turn.
LEMMA TipMore ==
  ASSUME NEW log \in Seq(Event), NEW e \in Event, NEW t
  PROVE  /\ \A n \in 0..Len(log) : TipAt(Append(log, e), t, n) = TipAt(log, t, n)
         /\ TipAt(Append(log, e), t, Len(log) + 1)
              = IF e.task = t /\ e.kind \in {"root", "bound"} THEN e.sess ELSE TipOf(log, t)
         /\ TipOf(Append(log, e), t) = TipAt(Append(log, e), t, Len(log) + 1)
<1> DEFINE new == Append(log, e)
           m == Len(log) + 1
           S == {i \in Turns(new, t) : i <= m}
<1>1. /\ new \in Seq(Event) /\ Len(new) = m /\ new[m] = e /\ Begins(log, new)
      /\ m \in Nat /\ Len(log) \in Nat /\ m \in 1..m /\ \A i \in 1..m : i <= m
  BY OneMore
<1>2. \A n \in 0..Len(log) : TipAt(new, t, n) = TipAt(log, t, n)
  BY <1>1, BeginsSame
<1>3. TipOf(new, t) = TipAt(new, t, m)
  BY <1>1 DEF TipOf
<1>4. /\ Roots(new, t) = Roots(log, t) \cup {i \in {m} : e.task = t /\ e.kind = "root"}
      /\ Bounds(new, t) = Bounds(log, t) \cup {i \in {m} : e.task = t /\ e.kind = "bound"}
  BY OneMore
<1>5. /\ Turns(new, t) \subseteq 1..m /\ Turns(log, t) \subseteq 1..Len(log)
      /\ m \in Turns(new, t) <=> e.task = t /\ e.kind \in {"root", "bound"}
      /\ \A i : i \in Turns(new, t) /\ i # m => i \in Turns(log, t)
      /\ \A i : i \in Turns(log, t) => i \in Turns(new, t)
  <2>1. m \notin 1..Len(log)
    BY <1>1
  <2> HIDE DEF m
  <2>2. Turns(new, t) \subseteq 1..m /\ Turns(log, t) \subseteq 1..Len(log)
    BY <1>1, TurnsIn
  <2> QED  BY <2>1, <2>2, <1>4 DEF Turns
<1>6. S = Turns(new, t) /\ S \in SUBSET (1..m)
  BY <1>1, <1>5
<1>7. TipAt(new, t, m) = IF S = {} THEN NoSession ELSE new[Latest(S)].sess
  BY DEF TipAt
<1>8. CASE e.task = t /\ e.kind \in {"root", "bound"}
  <2>1. m \in S /\ \A j \in S : j <= m
    BY <1>1, <1>5, <1>6, <1>8
  <2> HIDE DEF S
  <2>2. Latest(S) = m
    BY <2>1, <1>1, <1>6, LatestIs
  <2> QED  BY <2>1, <2>2, <1>1, <1>2, <1>3, <1>7, <1>8
<1>9. CASE ~(e.task = t /\ e.kind \in {"root", "bound"})
  <2> DEFINE R == {i \in Turns(log, t) : i <= Len(log)}
  <2>1. S = Turns(log, t)
    BY <1>5, <1>6, <1>9
  <2>2. R = Turns(log, t)
    BY <1>1, <1>5
  <2>3. TipOf(log, t) = IF R = {} THEN NoSession ELSE log[Latest(R)].sess
    BY DEF TipOf, TipAt
  <2>7. Len(log) \in Nat /\ R \in SUBSET (1..Len(log))
    BY <1>1, <1>5
  <2>4. R # {} => Latest(R) \in 1..Len(log)
    BY <2>7, LatestIn, Zenon
  <2>5. R # {} => new[Latest(R)] = log[Latest(R)]
    BY <2>4, <1>1 DEF Begins
  <2> HIDE DEF S, R, new, m
  <2>6. TipAt(new, t, m) = TipOf(log, t)
    BY <2>1, <2>2, <2>3, <2>5, <1>7
  <2> QED  BY <2>6, <1>2, <1>3, <1>9 DEF new, m
<1> QED  BY <1>8, <1>9

\* A record to which the event it owes is added stays lineal.
LEMMA LinealMore ==
  ASSUME NEW log \in Seq(Event), NEW e \in Event, Lineal(log), Owed(log, e)
  PROVE  Lineal(Append(log, e))
<1> DEFINE new == Append(log, e)
           m == Len(log) + 1
<1>1. /\ new \in Seq(Event) /\ Len(new) = m /\ new[m] = e
      /\ m \in Nat /\ Len(log) \in Nat /\ DOMAIN new = 1..m /\ DOMAIN log = 1..Len(log)
      /\ \A i \in 1..m : i \in 1..Len(log) \/ i = m
      /\ m \notin 1..Len(log) /\ \A i \in 1..Len(log) : i < m /\ i \in 1..m
      /\ \A i \in 1..Len(log) : new[i] = log[i]
  BY OneMore
<1>2. ASSUME NEW t PROVE
      /\ Roots(new, t) = Roots(log, t) \cup {i \in {m} : e.task = t /\ e.kind = "root"}
      /\ Bounds(new, t) = Bounds(log, t) \cup {i \in {m} : e.task = t /\ e.kind = "bound"}
      /\ Roots(log, t) \subseteq 1..Len(log) /\ Bounds(log, t) \subseteq 1..Len(log)
      /\ \A n \in 0..Len(log) : TipAt(new, t, n) = TipAt(log, t, n)
      /\ TipAt(new, t, m)
              = IF e.task = t /\ e.kind \in {"root", "bound"} THEN e.sess ELSE TipOf(log, t)
  BY OneMore, TipMore, TurnsIn
<1>3. \A i \in 1..Len(log) : i \in 0..Len(log) /\ i - 1 \in 0..Len(log)
  BY <1>1
<1> HIDE DEF new, m
<1>4. ASSUME NEW i \in DOMAIN new, new[i].task # NoTask
      PROVE  new[i].sess = TipAt(new, new[i].task, i)
  <2>1. CASE i = m
    <3>1. /\ TipAt(new, e.task, m) = IF e.kind \in {"root", "bound"} THEN e.sess ELSE TipOf(log, e.task)
          /\ new[i] = e
      BY <2>1, <1>1, <1>2
    <3> QED  BY <3>1, <2>1, <1>4 DEF Owed
  <2>2. CASE i \in 1..Len(log)
    <3>1. new[i] = log[i] /\ i \in 0..Len(log) /\ i \in DOMAIN log
      BY <2>2, <1>1, <1>3
    <3>2. log[i].sess = TipAt(log, log[i].task, i)
      BY <3>1, <1>4 DEF Lineal
    <3> QED  BY <3>1, <3>2, <1>2
  <2> QED  BY <2>1, <2>2, <1>1, <1>4
<1>5. ASSUME NEW t \in Task, Established(log, t), ~(e.task = t /\ e.kind = "root"),
             e.task = t => e.ok,
             e.task = t /\ e.kind = "bound" =>
               /\ e.holder = HolderOf(log, t)
               /\ e.parent = TipOf(log, t)
               /\ \A i \in Turns(log, t) : log[i].sess # e.sess
      PROVE  Established(new, t)
  <2>1. PICK r \in 1..Len(log) :
          /\ Roots(log, t) = {r} /\ HolderOf(log, t) = log[r].sess /\ log[r].ok
          /\ \A i \in Turns(log, t) : i # r => i > r
          /\ \A i \in DOMAIN log : log[i].task = t /\ i > r => log[i].ok /\ log[i].kind # "root"
    BY <1>5, OneRootIs
  <2>2. Roots(new, t) = {r} /\ new[r] = log[r] /\ m > r
    BY <2>1, <1>1, <1>2, <1>5
  <2>3. HolderOf(new, t) = HolderOf(log, t)
    BY <2>1, <2>2 DEF HolderOf
  <2>4. /\ \A i \in Turns(new, t) : i \in Turns(log, t) \/ (i = m /\ e.task = t /\ e.kind = "bound")
        /\ \A i \in Turns(log, t) : i \in 1..Len(log)
    BY <1>2, <1>5 DEF Turns
  <2>5. \A i \in Turns(new, t) : i # r => i > r
    BY <2>1, <2>2, <2>4
  <2>6. \A i \in DOMAIN new : new[i].task = t /\ i > r => new[i].ok /\ new[i].kind # "root"
    BY <2>1, <2>2, <1>1, <1>5
  <2>7. ASSUME NEW i \in Bounds(new, t)
         PROVE  /\ new[i].holder = HolderOf(new, t)
                /\ new[i].parent = TipAt(new, t, i - 1)
                /\ \A k \in Turns(new, t) : k # i => new[k].sess # new[i].sess
    <3>1. CASE i \in Bounds(log, t)
      <4>1. i \in 1..Len(log) /\ i - 1 \in 0..Len(log) /\ i \in Turns(log, t)
        BY <3>1, <1>2, <1>3 DEF Turns
      <4>2. /\ log[i].holder = HolderOf(log, t)
            /\ log[i].parent = TipAt(log, t, i - 1)
            /\ \A k \in Turns(log, t) : k # i => log[k].sess # log[i].sess
        BY <3>1, <1>5 DEF Established
      <4>3. \A k \in Turns(new, t) : k # i => new[k].sess # new[i].sess
        BY <4>1, <4>2, <2>4, <1>1, <1>5
      <4> QED  BY <4>1, <4>2, <4>3, <2>3, <1>1, <1>2
    <3>2. CASE i = m /\ e.task = t /\ e.kind = "bound"
      <4>1. m - 1 = Len(log) /\ Len(log) \in 0..Len(log)
        BY <1>1 DEF m
      <4>2. TipAt(new, t, m - 1) = TipOf(log, t)
        BY <4>1, <1>2 DEF TipOf
      <4>3. \A k \in Turns(new, t) : k # m => k \in Turns(log, t) /\ new[k] = log[k]
        BY <2>4, <1>1
      <4> QED  BY <3>2, <4>2, <4>3, <2>3, <1>1, <1>5
    <3> QED  BY <3>1, <3>2, <1>2
  <2>8. r \in Roots(new, t) /\ new[r].ok
    BY <2>1, <2>2
  <2> QED  BY <2>5, <2>6, <2>7, <2>8 DEF Established
<1>6. ASSUME NEW t \in Task, e.task = t, e.kind = "root", e.ok, Turns(log, t) = {}
      PROVE  Established(new, t)
  <2>1. Roots(new, t) = {m} /\ Bounds(new, t) = {} /\ Turns(new, t) = {m}
    BY <1>2, <1>6 DEF Turns
  <2>2. \A i \in DOMAIN new : ~ (i > m)
    BY <1>1
  <2> QED  BY <2>1, <2>2, <1>1, <1>6 DEF Established
<1>7. ASSUME NEW t \in Task, NEW j \in Turns(new, t)
      PROVE  Established(new, t)
  <2>1. CASE e.task = t
    <3>1. t # NoTask
      BY LineageAssumption
    <3>2. CASE e.kind = "root" /\ Turns(log, t) = {}
      BY <3>2, <2>1, <1>6 DEF Owed
    <3>3. CASE ~(e.kind = "root" /\ Turns(log, t) = {})
      BY <3>1, <3>3, <2>1, <1>5 DEF Owed
    <3> QED  BY <3>2, <3>3
  <2>2. CASE e.task # t
    <3>1. j \in Turns(log, t)
      BY <2>2, <1>2 DEF Turns
    <3> QED  BY <3>1, <2>2, <1>5 DEF Lineal
  <2> QED  BY <2>1, <2>2
<1>8. Lineal(new)
  BY <1>4, <1>7 DEF Lineal
<1> QED  BY <1>8 DEF new

-----------------------------------------------------------------------------
(* What the ledger's writes, cut or whole, leave of a record's events.     *)

\* Beginnings, of two records and of what is added to one.
LEMMA BeginsFacts ==
  ASSUME NEW a \in Seq(Event), NEW b \in Seq(Event)
  PROVE  /\ Begins(a, a) /\ Begins(a, a \o b) /\ a \o b \in Seq(Event)
         /\ Len(a \o b) = Len(a) + Len(b)
         /\ \A i \in 1..Len(b) : (a \o b)[Len(a) + i] = b[i]
         /\ \A c \in Seq(Event) : Begins(a, b) /\ Begins(b, c) => Begins(a, c)
<1>1. /\ a \o b \in Seq(Event) /\ Len(a \o b) = Len(a) + Len(b)
      /\ \A i \in 1..Len(a) + Len(b) :
           (a \o b)[i] = IF i <= Len(a) THEN a[i] ELSE b[i - Len(a)]
      /\ Len(a) \in Nat /\ Len(b) \in Nat
  BY ConcatProperties, LenProperties
<1>2. \A i \in 1..Len(a) : i \in 1..Len(a) + Len(b) /\ i <= Len(a)
  BY <1>1
<1>3. Begins(a, a) /\ Begins(a, a \o b)
  BY <1>1, <1>2 DEF Begins
<1>4. \A i \in 1..Len(b) : (a \o b)[Len(a) + i] = b[i]
  <2>1. SUFFICES ASSUME NEW i \in 1..Len(b) PROVE (a \o b)[Len(a) + i] = b[i]
    OBVIOUS
  <2>2. Len(a) + i \in 1..Len(a) + Len(b) /\ ~(Len(a) + i <= Len(a)) /\ Len(a) + i - Len(a) = i
    BY <1>1
  <2> QED  BY <2>2, <1>1
<1>5. ASSUME NEW c \in Seq(Event), Begins(a, b), Begins(b, c) PROVE Begins(a, c)
  <2>1. Len(c) \in Nat /\ Len(a) <= Len(b) /\ Len(b) <= Len(c)
    BY <1>5, LenProperties DEF Begins
  <2>2. \A i \in 1..Len(a) : i \in 1..Len(b)
    BY <1>1, <2>1
  <2> QED  BY <1>1, <1>5, <2>1, <2>2 DEF Begins
<1> QED  BY <1>1, <1>3, <1>4, <1>5

\* A part of what is written, and one more event of it.
LEMMA PartBegins ==
  ASSUME NEW a \in Seq(Event), NEW b \in Seq(Event), NEW n \in 0..Len(b)
  PROVE  /\ SubSeq(b, 1, n) \in Seq(Event) /\ Len(SubSeq(b, 1, n)) = n
         /\ Begins(a \o SubSeq(b, 1, n), a \o b)
         /\ n < Len(b) => Begins(Append(a \o SubSeq(b, 1, n), b[n + 1]), a \o b)
<1> DEFINE c == SubSeq(b, 1, n)
<1>1. Len(a) \in Nat /\ Len(b) \in Nat /\ n \in Nat /\ n <= Len(b)
  BY LenProperties
<1>2. /\ c \in Seq(Event) /\ Len(c) = n /\ \A i \in 1..n : c[i] = b[i]
  <2>1. \A i \in 1..n : b[i] \in Event
    BY <1>1, ElementOfSeq
  <2>2. 1 \in Int /\ n \in Int
    BY <1>1
  <2>3. /\ c \in Seq(Event) /\ Len(c) = IF 1 <= n THEN n - 1 + 1 ELSE 0
        /\ \A i \in 1..n - 1 + 1 : c[i] = b[1 + i - 1]
    BY <2>1, <2>2, SubSeqProperties
  <2>4. Len(c) = n
    BY <2>3, <1>1
  <2>5. \A i \in 1..n : i \in 1..n - 1 + 1 /\ 1 + i - 1 = i
    BY <1>1
  <2> QED  BY <2>3, <2>4, <2>5
<1> HIDE DEF c
<1>3. /\ a \o c \in Seq(Event) /\ Len(a \o c) = Len(a) + n
      /\ a \o b \in Seq(Event) /\ Len(a \o b) = Len(a) + Len(b)
      /\ \A i \in 1..Len(a) + n :
           (a \o c)[i] = IF i <= Len(a) THEN a[i] ELSE c[i - Len(a)]
      /\ \A i \in 1..Len(a) + Len(b) :
           (a \o b)[i] = IF i <= Len(a) THEN a[i] ELSE b[i - Len(a)]
  BY <1>2, ConcatProperties
<1>4. \A i \in 1..Len(a) + n : (a \o c)[i] = (a \o b)[i]
  <2>1. SUFFICES ASSUME NEW i \in 1..Len(a) + n PROVE (a \o c)[i] = (a \o b)[i]
    OBVIOUS
  <2>2. i \in 1..Len(a) + Len(b) /\ (~(i <= Len(a)) => i - Len(a) \in 1..n)
    BY <1>1
  <2> QED  BY <2>2, <1>2, <1>3
<1>5. Begins(a \o c, a \o b)
  BY <1>1, <1>3, <1>4 DEF Begins
<1>6. ASSUME n < Len(b) PROVE Begins(Append(a \o c, b[n + 1]), a \o b)
  <2> DEFINE e == b[n + 1]
             d == Append(a \o c, e)
  <2>1. n + 1 \in 1..Len(b)
    BY <1>1, <1>6
  <2>2. e \in Event
    BY <2>1, ElementOfSeq
  <2> HIDE DEF e
  <2>3. /\ Len(d) = Len(a) + n + 1 /\ d[Len(a) + n + 1] = e
        /\ \A i \in 1..Len(a) + n : d[i] = (a \o c)[i]
    BY <2>2, <1>3, AppendProperties
  <2>4. (a \o b)[Len(a) + n + 1] = e
    <3>1. /\ Len(a) + n + 1 \in 1..Len(a) + Len(b) /\ ~(Len(a) + n + 1 <= Len(a))
          /\ Len(a) + n + 1 - Len(a) = n + 1
      BY <1>1, <1>6
    <3> QED  BY <3>1, <1>3 DEF e
  <2> HIDE DEF d
  <2>5. \A i \in 1..Len(a) + n + 1 : i \in 1..Len(a) + n \/ i = Len(a) + n + 1
    BY <1>1
  <2>6. Len(d) <= Len(a \o b)
    BY <2>3, <1>1, <1>3, <1>6
  <2>7. \A i \in 1..Len(d) : d[i] = (a \o b)[i]
    BY <2>3, <2>4, <2>5, <1>4
  <2>8. Begins(d, a \o b)
    BY <2>6, <2>7 DEF Begins
  <2> QED  BY <2>8 DEF d, e
<1> QED  BY <1>2, <1>5, <1>6 DEF c

\* What a write of evs leaves goes on from the record it wrote to, and is the
\* beginning of what it would have written.
LEMMA InterruptedLogs ==
  ASSUME NEW c \in Content, NEW evs \in Seq(Event), NEW x \in Interrupted(c, evs)
  PROVE  Begins(c.log, x.log) /\ Begins(x.log, c.log \o evs) /\ x.log \in Seq(Event)
<1> DEFINE part(n) == SubSeq(evs, 1, n)
           kept(n) == Appended(c, part(n))
<1>1. c.log \in Seq(Event) /\ x.log \in Seq(Event)
  BY InterruptedType DEF Content
<1>2. ASSUME NEW n \in 0..Len(evs)
      PROVE  /\ kept(n).log = c.log \o part(n)
             /\ Begins(c.log, kept(n).log) /\ kept(n).log \in Seq(Event)
             /\ Begins(kept(n).log, c.log \o evs)
             /\ n < Len(evs) =>
                  /\ Begins(Append(kept(n).log, evs[n + 1]), c.log \o evs)
                  /\ Begins(c.log, Append(kept(n).log, evs[n + 1]))
  <2>1. /\ part(n) \in Seq(Event) /\ Begins(c.log \o part(n), c.log \o evs)
        /\ n < Len(evs) => Begins(Append(c.log \o part(n), evs[n + 1]), c.log \o evs)
    BY <1>1, PartBegins
  <2> HIDE DEF part
  <2>2. Begins(c.log, c.log \o part(n)) /\ c.log \o part(n) \in Seq(Event)
    BY <2>1, <1>1, BeginsFacts
  <2>3. kept(n).log = c.log \o part(n)
    <3>1. CASE part(n) = <<>>
      BY <3>1, <1>1, ConcatEmptySeq DEF Appended
    <3>2. CASE part(n) # <<>>
      BY <3>2 DEF Appended, Content
    <3> QED  BY <3>1, <3>2
  <2> HIDE DEF kept
  <2>4. ASSUME n < Len(evs) PROVE Begins(c.log, Append(kept(n).log, evs[n + 1]))
    <3>1. n + 1 \in 1..Len(evs)
      BY <2>4, LenProperties
    <3>2. evs[n + 1] \in Event
      BY <3>1, ElementOfSeq
    <3>3. /\ Append(kept(n).log, evs[n + 1]) \in Seq(Event)
          /\ Begins(kept(n).log, Append(kept(n).log, evs[n + 1]))
      BY <3>2, <2>2, <2>3, OneMore
    <3>4. \A a, b, d \in Seq(Event) : Begins(a, b) /\ Begins(b, d) => Begins(a, d)
      BY BeginsFacts
    <3>5. kept(n).log \in Seq(Event) /\ Begins(c.log, kept(n).log)
      BY <2>2, <2>3
    <3> QED  BY <3>3, <3>4, <3>5, <1>1
  <2> QED  BY <2>1, <2>2, <2>3, <2>4
<1> HIDE DEF kept
<1>3. CASE \E n \in 0..Len(evs) : x = kept(n)
  BY <1>1, <1>2, <1>3
<1>4. CASE \E n \in DOMAIN evs, k \in Tears : x = Torn(kept(n - 1), evs[n], k)
  <2>1. PICK n \in DOMAIN evs, k \in Tears : x = Torn(kept(n - 1), evs[n], k)
    BY <1>4
  <2>2. n \in 1..Len(evs) /\ n - 1 \in 0..Len(evs) /\ n - 1 < Len(evs) /\ n - 1 + 1 = n
    BY LenProperties
  <2>3. kept(n - 1) \in Content
    BY <2>2, <1>1, PartBegins, AppendedType DEF kept
  <2>4. x.log \in {kept(n - 1).log, Append(kept(n - 1).log, evs[n])}
    BY <2>1, <2>3, LedgerAssumption DEF Torn, Content
  <2>5. /\ Begins(c.log, kept(n - 1).log) /\ Begins(kept(n - 1).log, c.log \o evs)
        /\ Begins(Append(kept(n - 1).log, evs[n]), c.log \o evs)
        /\ Begins(c.log, Append(kept(n - 1).log, evs[n]))
    BY <2>2, <1>2
  <2> QED  BY <2>4, <2>5, <1>1
<1>5. x \in {kept(n) : n \in 0..Len(evs)} \cup
           {Torn(kept(n - 1), evs[n], k) : n \in DOMAIN evs, k \in Tears}
  BY DEF Interrupted, kept
<1> QED  BY <1>3, <1>4, <1>5

\* The rest of a record, after its first m events.
LEMMA RestOf ==
  ASSUME NEW s \in Seq(Event), NEW m \in Nat, NEW n \in Nat, m <= n, n <= Len(s)
  PROVE  /\ SubSeq(s, m + 1, n) \in Seq(Event) /\ Len(SubSeq(s, m + 1, n)) = n - m
         /\ \A i \in 1..n - m : SubSeq(s, m + 1, n)[i] = s[m + i]
<1> DEFINE k == m + 1
<1>1. k \in Int /\ n \in Int /\ Len(s) \in Nat /\ \A i \in k..n : i \in 1..Len(s)
  BY LenProperties
<1>2. \A i \in k..n : s[i] \in Event
  BY <1>1, ElementOfSeq
<1>3. /\ n - k + 1 = n - m /\ (k <= n => n - k + 1 = n - m) /\ (~(k <= n) => n - m = 0)
      /\ \A i \in 1..n - m : k + i - 1 = m + i
  OBVIOUS
<1> HIDE DEF k
<1>4. /\ SubSeq(s, k, n) \in Seq(Event)
      /\ Len(SubSeq(s, k, n)) = IF k <= n THEN n - k + 1 ELSE 0
      /\ \A i \in 1..n - k + 1 : SubSeq(s, k, n)[i] = s[k + i - 1]
  BY <1>1, <1>2, SubSeqProperties
<1>5. Len(SubSeq(s, k, n)) = n - m
  BY <1>3, <1>4
<1>6. \A i \in 1..n - m : SubSeq(s, k, n)[i] = s[m + i]
  BY <1>3, <1>4
<1> QED  BY <1>4, <1>5, <1>6 DEF k

\* Beginnings of one length are equal.
LEMMA BeginsEqual ==
  ASSUME NEW a \in Seq(Event), NEW b \in Seq(Event), Begins(a, b), Len(a) = Len(b)
  PROVE  a = b
<1>1. /\ a \in [1..Len(a) -> Event] /\ b \in [1..Len(a) -> Event]
      /\ \A i \in 1..Len(a) : a[i] = b[i]
  BY LenProperties DEF Begins
<1> QED  BY <1>1

\* What a power loss leaves is what was on disk, or goes on from it as what
\* was seen did.
LEMMA SurvivorLogs ==
  ASSUME NEW d \in Content, NEW c \in Content, NEW x \in Survivors(d, c)
  PROVE  /\ x.log \in Seq(Event)
         /\ x = d \/ Begins(x.log, c.log)
         /\ x = c \/ Begins(d.log, x.log)
<1> DEFINE lost == SubSeq(c.log, Len(d.log) + 1, Len(c.log))
<1>1. d.log \in Seq(Event) /\ c.log \in Seq(Event) /\ x.log \in Seq(Event)
  BY SurvivorsType DEF Content
<1>2. CASE x = d
  BY <1>1, <1>2, BeginsFacts
<1>3. CASE x = c
  BY <1>1, <1>3, BeginsFacts
<1>4. CASE IsPrefix(d.log, c.log) /\ x \in Interrupted(d, lost)
  <2>1. Len(d.log) \in Nat /\ Len(c.log) \in Nat /\ Len(d.log) <= Len(c.log)
    BY <1>1, <1>4, LenProperties DEF IsPrefix
  <2>2. \A i \in 1..Len(d.log) : d.log[i] = c.log[i]
    <3>1. \A i \in 1..Len(d.log) : i \in 1..Len(c.log)
      BY <2>1
    <3>2. /\ \A i \in 1..Len(d.log) : d.log[i] \in Event
          /\ \A i \in 1..Len(d.log) : c.log[i] \in Event
      BY <3>1, <1>1, ElementOfSeq
    <3>3. 1 \in Int /\ Len(d.log) \in Int
      BY <2>1
    <3>4. /\ \A i \in 1..Len(d.log) - 1 + 1 : SubSeq(d.log, 1, Len(d.log))[i] = d.log[1 + i - 1]
          /\ \A i \in 1..Len(d.log) - 1 + 1 : SubSeq(c.log, 1, Len(d.log))[i] = c.log[1 + i - 1]
      BY <3>2, <3>3, SubSeqProperties
    <3>5. \A i \in 1..Len(d.log) : i \in 1..Len(d.log) - 1 + 1 /\ 1 + i - 1 = i
      BY <2>1
    <3>6. SubSeq(d.log, 1, Len(d.log)) = SubSeq(c.log, 1, Len(d.log))
      BY <1>4 DEF IsPrefix
    <3> QED  BY <3>4, <3>5, <3>6
  <2>3. /\ lost \in Seq(Event) /\ Len(lost) = Len(c.log) - Len(d.log)
        /\ \A i \in 1..Len(c.log) - Len(d.log) : lost[i] = c.log[Len(d.log) + i]
    <3>1. Len(c.log) <= Len(c.log)
      BY <2>1
    <3> QED  BY ONLY <2>1, <3>1, <1>1, RestOf, Zenon
  <2> HIDE DEF lost
  <2>4. Begins(d.log, x.log) /\ Begins(x.log, d.log \o lost)
    BY <1>4, <2>3, InterruptedLogs
  <2>5. Begins(d.log \o lost, c.log) /\ d.log \o lost \in Seq(Event)
    <3>1. /\ d.log \o lost \in Seq(Event) /\ Len(d.log \o lost) = Len(d.log) + Len(lost)
          /\ \A i \in 1..Len(d.log) + Len(lost) :
               (d.log \o lost)[i] = IF i <= Len(d.log) THEN d.log[i] ELSE lost[i - Len(d.log)]
      BY <1>1, <2>3, ConcatProperties
    <3>2. Len(d.log \o lost) = Len(c.log)
      BY <3>1, <2>1, <2>3
    <3>3. ASSUME NEW i \in 1..Len(c.log) PROVE (d.log \o lost)[i] = c.log[i]
      <4>1. /\ i \in 1..Len(d.log) + Len(lost) /\ (i <= Len(d.log) => i \in 1..Len(d.log))
            /\ ~(i <= Len(d.log)) => i - Len(d.log) \in 1..Len(lost)
                                     /\ Len(d.log) + (i - Len(d.log)) = i
        BY <2>1, <2>3
      <4> QED  BY <4>1, <3>1, <2>2, <2>3
    <3> QED  BY <3>1, <3>2, <3>3, <2>1 DEF Begins
  <2>6. \A a, b, e \in Seq(Event) : Begins(a, b) /\ Begins(b, e) => Begins(a, e)
    BY BeginsFacts
  <2> QED  BY <2>4, <2>5, <2>6, <1>1
<1>5. x = d \/ x = c \/ (IsPrefix(d.log, c.log) /\ x \in Interrupted(d, lost))
  BY DEF Survivors
<1> QED  BY <1>1, <1>2, <1>3, <1>4, <1>5

\* A task that gets no turn keeps its tip.
LEMMA TipStays ==
  ASSUME NEW p \in Seq(Event), NEW log \in Seq(Event), Begins(p, log), NEW t,
         \A i \in Turns(log, t) : i <= Len(p)
  PROVE  TipOf(log, t) = TipOf(p, t)
<1>1. /\ Len(p) \in Nat /\ Len(log) \in Nat /\ Len(p) <= Len(log)
      /\ \A i \in Turns(log, t) : i \in 1..Len(log)
      /\ \A i \in Turns(p, t) : i \in 1..Len(p)
  BY TurnsIn DEF Begins
<1>2. {i \in Turns(log, t) : i <= Len(log)} = {i \in Turns(log, t) : i <= Len(p)}
  BY <1>1
<1>3. TipAt(log, t, Len(log)) = TipAt(log, t, Len(p))
  BY <1>2 DEF TipAt
<1>4. Len(p) \in 0..Len(p)
  BY <1>1
<1>5. TipAt(log, t, Len(p)) = TipAt(p, t, Len(p))
  BY <1>4, BeginsSame
<1> QED  BY <1>3, <1>5 DEF TipOf

-----------------------------------------------------------------------------
(* What an operation writes.                                               *)

\* The events of an operation of the kind k.
Formed(k, evs) ==
  /\ evs \in Seq(Event)
  /\ Len(evs) = IF k = "unit" THEN 2 ELSE 1
  /\ evs[1].ok
  /\ k = "diagnostic" <=> evs[1].task = NoTask
  /\ k = "root" <=> evs[1].kind = "root"
  /\ k = "bind" <=> evs[1].kind = "bound"
  /\ k = "unit" => /\ evs[2].ok /\ evs[2].task = evs[1].task /\ evs[2].sess = evs[1].sess
                   /\ evs[2].kind \notin {"root", "bound"}

\* Every operation that begins is formed of its kind.
LEMMA WrittenFormed ==
  ASSUME NEW k \in Kind, NEW t \in Task \cup {NoTask}, NEW s \in Session,
         NEW h \in Session \cup {NoSession}, NEW q \in Session \cup {NoSession},
         k = "diagnostic" <=> t = NoTask
  PROVE  Formed(k, Written(k, t, s, h, q))
<1> DEFINE evs == Written(k, t, s, h, q)
<1>1. evs \in Seq(Event)
  BY WrittenType
<1>2. /\ Len(evs) = IF k = "unit" THEN 2 ELSE 1
      /\ evs[1].ok /\ evs[1].task = t
      /\ k = "root" <=> evs[1].kind = "root"
      /\ k = "bind" <=> evs[1].kind = "bound"
      /\ k = "unit" => /\ evs[2].ok /\ evs[2].task = evs[1].task /\ evs[2].sess = evs[1].sess
                       /\ evs[2].kind \notin {"root", "bound"}
  BY DEF Written, Kind
<1> QED  BY <1>1, <1>2 DEF Formed

\* What an operation adds to a record of the lineage is of the lineage, if
\* its first event is owed.
LEMMA LinealGrow ==
  ASSUME NEW log \in Seq(Event), NEW k, NEW evs, Formed(k, evs), Lineal(log), Owed(log, evs[1])
  PROVE  Lineal(log \o evs)
<1>1. evs \in Seq(Event) /\ Len(evs) \in {1, 2} /\ (Len(evs) = 2 <=> k = "unit")
  BY DEF Formed
<1>2. evs[1] \in Event
  BY <1>1
<1>3. Lineal(Append(log, evs[1])) /\ Append(log, evs[1]) \in Seq(Event)
  BY <1>2, LinealMore, OneMore
<1>4. CASE Len(evs) = 1
  <2>1. evs = <<evs[1]>>
    <3>1. /\ <<evs[1]>> \in Seq(Event) /\ Len(<<evs[1]>>) = 1
          /\ \A i \in 1..1 : evs[i] = <<evs[1]>>[i]
      BY <1>2
    <3> QED  BY <3>1, <1>1, <1>4, BeginsEqual DEF Begins
  <2>2. log \o evs = Append(log, evs[1])
    BY <2>1, <1>2, AppendIsConcat
  <2> QED  BY <2>2, <1>3
<1>5. CASE Len(evs) = 2
  <2> DEFINE one == Append(log, evs[1])
  <2>1. log \o evs = Append(one, evs[2]) /\ evs[2] \in Event
    <3>1. evs[2] \in Event
      <4>1. 2 \in 1..Len(evs)
        BY <1>5
      <4> QED  BY <4>1, <1>1, ElementOfSeq
    <3>2. /\ one \in Seq(Event) /\ Len(one) = Len(log) + 1 /\ one[Len(log) + 1] = evs[1]
          /\ \A i \in 1..Len(log) : one[i] = log[i]
      BY <1>2, OneMore
    <3> DEFINE two == Append(one, evs[2])
    <3>3. /\ two \in Seq(Event) /\ Len(two) = Len(one) + 1 /\ two[Len(one) + 1] = evs[2]
          /\ \A i \in 1..Len(one) : two[i] = one[i]
      BY <3>1, <3>2, OneMore
    <3> HIDE DEF one, two
    <3>4. /\ Len(log) \in Nat /\ log \o evs \in Seq(Event) /\ Len(log \o evs) = Len(log) + 2
          /\ \A i \in 1..Len(log) : (log \o evs)[i] = log[i]
          /\ (log \o evs)[Len(log) + 1] = evs[1] /\ (log \o evs)[Len(log) + 2] = evs[2]
      <4>1. 1 \in 1..2 /\ 2 \in 1..2 /\ Len(log) \in Nat
        BY LenProperties
      <4>2. /\ log \o evs \in Seq(Event) /\ Len(log \o evs) = Len(log) + Len(evs)
            /\ \A i \in 1..Len(evs) : (log \o evs)[Len(log) + i] = evs[i]
            /\ Begins(log, log \o evs)
        BY <1>1, BeginsFacts
      <4> QED  BY <4>1, <4>2, <1>5 DEF Begins
    <3>5. \A i \in 1..Len(log) + 2 : i \in 1..Len(log) \/ i = Len(log) + 1 \/ i = Len(log) + 2
      BY <3>4
    <3>6. /\ Len(two) = Len(log) + 2 /\ two[Len(log) + 1] = evs[1] /\ two[Len(log) + 2] = evs[2]
          /\ \A i \in 1..Len(log) : two[i] = log[i]
      <4>1. Len(log) + 1 \in 1..Len(one) /\ \A i \in 1..Len(log) : i \in 1..Len(one)
        BY <3>2, <3>4
      <4>2. Len(one) + 1 = Len(log) + 2
        BY <3>2, <3>4
      <4> QED  BY <4>1, <4>2, <3>2, <3>3
    <3>7. \A i \in 1..Len(two) : two[i] = (log \o evs)[i]
      BY <3>4, <3>5, <3>6
    <3>8. Len(two) <= Len(log \o evs)
      BY <3>4, <3>6
    <3>9. two = log \o evs
      BY <3>3, <3>4, <3>6, <3>7, <3>8, BeginsEqual DEF Begins
    <3> QED  BY <3>1, <3>9 DEF two
  <2>2. /\ evs[2].ok /\ evs[2].task = evs[1].task /\ evs[2].sess = evs[1].sess
        /\ evs[2].kind \notin {"root", "bound"}
        /\ evs[1].task # NoTask /\ evs[1].kind \notin {"root", "bound"}
    BY <1>1, <1>5 DEF Formed
  <2>3. Established(log, evs[1].task) /\ evs[1].sess = TipOf(log, evs[1].task)
    BY <2>2 DEF Owed
  <2>4. TipOf(one, evs[1].task) = TipOf(log, evs[1].task)
    BY <2>2, <1>2, TipMore
  <2>5. Turns(one, evs[1].task) # {}
    <3>1. Roots(log, evs[1].task) # {}
      BY <2>3 DEF Established
    <3>2. Roots(log, evs[1].task) \subseteq Roots(one, evs[1].task)
      BY <1>2, OneMore
    <3> QED  BY <3>1, <3>2 DEF Turns
  <2>6. evs[1].task \in Task
    BY <1>2, <2>2 DEF Event
  <2>7. Established(one, evs[1].task)
    BY <1>3, <2>5, <2>6 DEF Lineal
  <2>8. Owed(one, evs[2])
    BY <2>2, <2>3, <2>4, <2>7 DEF Owed
  <2> HIDE DEF one
  <2>9. one \in Seq(Event) /\ Lineal(one)
    BY <1>3 DEF one
  <2> QED  BY <2>1, <2>8, <2>9, LinealMore
<1> QED  BY <1>1, <1>4, <1>5

\* An operation that is neither a root nor a binding turns no task, and one
\* that is turns none but its own.
LEMMA TipKept ==
  ASSUME NEW log \in Seq(Event), NEW new \in Seq(Event), NEW k, NEW evs, Formed(k, evs),
         Begins(log, new), Begins(new, log \o evs), NEW t,
         k \in {"root", "bind"} => evs[1].task # t
  PROVE  TipOf(new, t) = TipOf(log, t)
<1>1. evs \in Seq(Event) /\ Len(evs) \in {1, 2} /\ (Len(evs) = 2 <=> k = "unit")
  BY DEF Formed
<1>2. /\ log \o evs \in Seq(Event) /\ Len(log) \in Nat
      /\ Len(log \o evs) = Len(log) + Len(evs)
      /\ \A i \in 1..Len(evs) : (log \o evs)[Len(log) + i] = evs[i]
  BY <1>1, BeginsFacts
<1>3. ASSUME NEW i \in Turns(new, t), ~(i <= Len(log)) PROVE FALSE
  <2>1. i \in 1..Len(new) /\ i \in Turns(log \o evs, t)
    BY <1>2, BeginsSame
  <2>2. i \in 1..Len(log \o evs)
    BY <2>1, <1>2, TurnsIn
  <2>3. i - Len(log) \in 1..Len(evs) /\ Len(log) + (i - Len(log)) = i
    BY <2>2, <1>1, <1>2, <1>3
  <2>4. (log \o evs)[i] = evs[i - Len(log)]
    BY <2>3, <1>2
  <2>5. evs[i - Len(log)].task = t /\ evs[i - Len(log)].kind \in {"root", "bound"}
    BY <2>1, <2>4 DEF Turns, Roots, Bounds
  <2>6. i - Len(log) \in {1, 2} /\ (i - Len(log) = 2 => k = "unit")
    <3>1. CASE Len(evs) = 1
      BY <3>1, <2>3
    <3>2. CASE Len(evs) = 2
      BY <3>2, <2>3, <1>1
    <3> QED  BY <3>1, <3>2, <1>1
  <2> QED  BY <2>5, <2>6 DEF Formed
<1> QED  BY <1>3, TipStays

-----------------------------------------------------------------------------
(* Records stay wholly of the lineage.                                     *)

\* The operation is past its authorization, and may yet write or undo.
Owing(w) == op[w].pc \in {"proving", "writing", "written", "synced", "undoing"}

\* The inductive invariant behind MembersOnly: whatever was authorized is what
\* the record that was locked owes, until the operation is over, and every
\* content that can come back is of the lineage.
LineInv ==
  /\ \A w \in Thread : Busy(w) => Formed(op[w].kind, op[w].evs)
  /\ \A w \in Thread : Owing(w) =>
       /\ op[w].kind # "continue" /\ Loads(op[w].base)
       /\ Owed(op[w].base.log, op[w].evs[1])
  /\ \A w \in Thread : Locking(w) => Lineal(op[w].base.log)
  /\ \A r \in Record : Lineal(rec[r].log) /\ Lineal(disk[r].log)

\* A step that ends operations or leaves them as they are.
LEMMA LineFrame ==
  ASSUME TypeOK, LineInv,
         \A v \in Thread : op'[v].pc # "idle" => op'[v] = op[v],
         \A r \in Record : Lineal(rec'[r].log) /\ Lineal(disk'[r].log)
  PROVE  LineInv'
  BY DEF LineInv, Busy, Owing, Locking

\* A step of one operation.
LEMMA LineMove ==
  ASSUME TypeOK, LineInv, NEW w \in Thread, Busy(w),
         \A v \in Thread \ {w} : op'[v] = op[v],
         op'[w].kind = op[w].kind, op'[w].evs = op[w].evs,
         op'[w].pc \in {"proving", "writing", "written", "synced", "undoing"} =>
           /\ op[w].kind # "continue" /\ Loads(op'[w].base)
           /\ Owed(op'[w].base.log, op[w].evs[1]),
         op'[w].pc \notin {"idle", "guarded"} => Lineal(op'[w].base.log),
         \A r \in Record : Lineal(rec'[r].log) /\ Lineal(disk'[r].log)
  PROVE  LineInv'
<1>1. \A v \in Thread \ {w} :
        /\ Busy(v)' => Formed(op'[v].kind, op'[v].evs)
        /\ Owing(v)' => /\ op'[v].kind # "continue" /\ Loads(op'[v].base)
                        /\ Owed(op'[v].base.log, op'[v].evs[1])
        /\ Locking(v)' => Lineal(op'[v].base.log)
  BY DEF LineInv, Busy, Owing, Locking
<1>2. Formed(op'[w].kind, op'[w].evs)
  BY DEF LineInv
<1>3. /\ Owing(w)' => /\ op'[w].kind # "continue" /\ Loads(op'[w].base)
                      /\ Owed(op'[w].base.log, op'[w].evs[1])
      /\ Locking(w)' => Lineal(op'[w].base.log)
  BY DEF Owing, Locking
<1> QED  BY <1>1, <1>2, <1>3 DEF LineInv

\* What an operation of a thread changes of the others' operations and of its
\* own subject.
LEMMA PcMoved ==
  ASSUME TypeOK, NEW w \in Thread, NEW pc, op' = [op EXCEPT ![w].pc = pc]
  PROVE  /\ op'[w].pc = pc /\ op'[w].kind = op[w].kind /\ op'[w].evs = op[w].evs
         /\ op'[w].rec = op[w].rec /\ op'[w].base = op[w].base /\ op'[w].synced = op[w].synced
         /\ \A v \in Thread \ {w} : op'[v] = op[v]
  BY DEF TypeOK, OpsOK, OpType

\* What the record admits is what its lineage owes.
LEMMA AuthorizedOwes ==
  ASSUME TypeOK, LineInv, NEW w \in Thread, Busy(w), Authorized(w), op[w].kind # "continue"
  PROVE  Loads(rec[op[w].rec]) /\ Owed(rec[op[w].rec].log, op[w].evs[1])
<1>1. Formed(op[w].kind, op[w].evs) /\ op[w].kind \in Kind
  BY DEF LineInv, TypeOK, OpsOK, OpType
<1>2. Loads(rec[op[w].rec]) /\ Admissible(w)
  BY DEF Authorized
<1> DEFINE log == rec[op[w].rec].log
           e == op[w].evs[1]
<1>3. CASE op[w].kind = "diagnostic"
  <2>1. e.ok /\ e.task = NoTask
    BY <1>1, <1>3 DEF Formed
  <2> QED  BY <2>1, <1>2 DEF Owed
<1>4. CASE op[w].kind = "root"
  <2>1. e.ok /\ e.kind = "root"
    BY <1>1, <1>4 DEF Formed
  <2> QED  BY <2>1, <1>2, <1>4 DEF Owed, Admissible, AdmitsRoot
<1>5. CASE op[w].kind = "bind"
  <2>1. e.ok /\ e.kind = "bound"
    BY <1>1, <1>5 DEF Formed
  <2> QED  BY <2>1, <1>2, <1>5 DEF Owed, Admissible, AdmitsBinding
<1>6. CASE op[w].kind \notin {"diagnostic", "root", "bind"}
  <2>1. e.ok /\ e.kind \notin {"root", "bound"}
    BY <1>1, <1>6 DEF Formed
  <2>2. AdmitsAppend(log, e, lease[ProcOf[w]].sess)
    BY <1>2, <1>6 DEF Admissible
  <2> QED  BY <2>1, <2>2, <1>2 DEF Owed, AdmitsAppend
<1> QED  BY <1>3, <1>4, <1>5, <1>6

\* A new operation is formed, and has locked no record.
LEMMA LineAsk ==
  ASSUME TypeOK, LineInv, NEW w \in Thread, Ask(w)
  PROVE  LineInv'
<1>1. ASSUME NEW k \in Kind, NEW t \in Task \cup {NoTask}, NEW s \in Session,
             NEW h \in Session \cup {NoSession}, NEW q \in Session \cup {NoSession}, NEW r,
             k = "diagnostic" <=> t = NoTask,
             op' = [op EXCEPT ![w] = [Idle EXCEPT !.pc = "guarded", !.kind = k, !.rec = r,
                                                  !.evs = Written(k, t, s, h, q)]],
             UNCHANGED <<rec, disk>>
      PROVE  LineInv'
  <2> DEFINE evs == Written(k, t, s, h, q)
             new == [Idle EXCEPT !.pc = "guarded", !.kind = k, !.rec = r, !.evs = evs]
  <2>1. Formed(k, evs)
    BY <1>1, WrittenFormed
  <2> HIDE DEF evs
  <2>2. new.pc = "guarded" /\ new.kind = k /\ new.evs = evs
    BY BegunFields
  <2>3. op' = [op EXCEPT ![w] = new] /\ rec' = rec /\ disk' = disk
    BY <1>1 DEF evs
  <2> HIDE DEF new
  <2>4. op'[w] = new /\ \A v \in Thread \ {w} : op'[v] = op[v]
    BY <2>3 DEF TypeOK, OpsOK
  <2> QED  BY <2>1, <2>2, <2>3, <2>4 DEF LineInv, Busy, Owing, Locking
<1>2. ASSUME NEW k \in Asked, NEW s \in Session, NEW q \in Session \cup {NoSession},
             Begin(w, k, s, q)
      PROVE  LineInv'
  <2> DEFINE l == lease[ProcOf[w]]
             h == IF Rooted(rec[l.rec].log, l.task) THEN HolderOf(rec[l.rec].log, l.task)
                  ELSE NoSession
  <2>1. l.task \in Task /\ l.rec \in Record /\ l.task # NoTask
    BY <1>2, LedgerAssumption, LineageAssumption DEF Begin, TypeOK, LeasesOK
  <2>2. rec[l.rec].log \in Seq(Event)
    BY <2>1 DEF TypeOK, FilesOK, Content
  <2>3. h \in Session \cup {NoSession}
    BY <2>1, <2>2, HolderIsSession
  <2>4. k \in Kind /\ k # "diagnostic"
    BY <1>2, LedgerAssumption DEF Begin
  <2> HIDE DEF l, h
  <2>5. /\ op' = [op EXCEPT ![w] = [Idle EXCEPT !.pc = "guarded", !.kind = k, !.rec = l.rec,
                                                !.evs = Written(k, l.task, s, h, q)]]
        /\ UNCHANGED <<rec, disk>>
    BY <1>2 DEF Begin, l, h
  <2> QED  BY <2>1, <2>3, <2>4, <2>5, <1>1
<1>3. ASSUME NEW s \in Session, NEW r \in Record, BeginDiagnostic(w, s, r)
      PROVE  LineInv'
  <2>1. /\ op' = [op EXCEPT ![w] =
                    [Idle EXCEPT !.pc = "guarded", !.kind = "diagnostic", !.rec = r,
                                 !.evs = Written("diagnostic", NoTask, s, NoSession, NoSession)]]
        /\ UNCHANGED <<rec, disk>>
    BY <1>3 DEF BeginDiagnostic
  <2>2. "diagnostic" \in Kind
    BY DEF Kind
  <2> QED  BY <2>1, <2>2, <1>1
<1> QED  BY <1>2, <1>3 DEF Ask

\* What lockRecord reads is of the lineage, and what is authorized is owed.
LEMMA LineDecide ==
  ASSUME TypeOK, LineInv, TraceInv, NEW w \in Thread, Decide(w)
  PROVE  LineInv'
<1>1. rec' = rec /\ disk' = disk
  BY DEF Decide, LockRecord, GiveUp, Authorize, Continue, Prove, Refuse
<1>2. \A r \in Record : Lineal(rec'[r].log) /\ Lineal(disk'[r].log)
  BY <1>1 DEF LineInv
<1>3. CASE LockRecord(w)
  <2>1. Busy(w) /\ op[w].rec \in Record
    BY <1>3 DEF LockRecord, Busy, TypeOK, OpsOK
  <2>2. /\ op'[w].pc = "locked" /\ op'[w].base = rec[op[w].rec]
        /\ op'[w].kind = op[w].kind /\ op'[w].evs = op[w].evs
        /\ \A v \in Thread \ {w} : op'[v] = op[v]
    BY <1>3 DEF LockRecord, TypeOK, OpsOK, OpType
  <2>3. Lineal(op'[w].base.log)
    BY <2>1, <2>2 DEF LineInv
  <2> QED  BY <1>2, <2>1, <2>2, <2>3, LineMove
<1>4. CASE GiveUp(w)
  <2>1. \A v \in Thread : op'[v].pc # "idle" => op'[v] = op[v]
    BY <1>4 DEF GiveUp, Idle, TypeOK, OpsOK
  <2> QED  BY <1>2, <2>1, LineFrame
<1>5. CASE Authorize(w)
  <2>1. Busy(w) /\ Locking(w) /\ rec[op[w].rec] = op[w].base /\ op[w].kind # "continue"
    BY <1>5 DEF Authorize, Busy, Locking, TraceInv, BaseKept, Untouched
  <2>2. Loads(op[w].base) /\ Owed(op[w].base.log, op[w].evs[1])
    BY <1>5, <2>1, AuthorizedOwes DEF Authorize
  <2>3. Lineal(op[w].base.log)
    BY <2>1 DEF LineInv
  <2>4. \E pc : op' = [op EXCEPT ![w].pc = pc]
    BY <1>5 DEF Authorize
  <2>5. /\ op'[w].kind = op[w].kind /\ op'[w].evs = op[w].evs /\ op'[w].base = op[w].base
        /\ \A v \in Thread \ {w} : op'[v] = op[v]
    BY <2>4, PcMoved
  <2> QED  BY <1>2, <2>1, <2>2, <2>3, <2>5, LineMove
<1>6. CASE Continue(w) \/ Prove(w) \/ Refuse(w)
  <2>1. Busy(w) /\ Locking(w)
    BY <1>6 DEF Continue, Prove, Refuse, Busy, Locking
  <2>2. \E pc : op' = [op EXCEPT ![w].pc = pc] /\ (pc \in {"returning", "refused"} \/ Owing(w))
    BY <1>6 DEF Continue, Prove, Refuse, Owing
  <2>3. /\ op'[w].pc \in {"returning", "refused"} \/ Owing(w)
        /\ op'[w].kind = op[w].kind /\ op'[w].evs = op[w].evs /\ op'[w].base = op[w].base
        /\ \A v \in Thread \ {w} : op'[v] = op[v]
    BY <2>2, PcMoved
  <2>4. Lineal(op[w].base.log)
    BY <2>1 DEF LineInv
  <2>5. op'[w].pc \in {"proving", "writing", "written", "synced", "undoing"} =>
          /\ op[w].kind # "continue" /\ Loads(op[w].base)
          /\ Owed(op[w].base.log, op[w].evs[1])
    BY <2>3 DEF LineInv
  <2> QED  BY <1>2, <2>1, <2>3, <2>4, <2>5, LineMove
<1> QED  BY <1>3, <1>4, <1>5, <1>6 DEF Decide

\* The whole of a write is one of the things that a cut one may leave.
LEMMA WholeIsInterrupted ==
  ASSUME NEW c \in Content, NEW evs \in Seq(Event)
  PROVE  Appended(c, evs) \in Interrupted(c, evs)
<1>1. Len(evs) \in 0..Len(evs) /\ evs \in [1..Len(evs) -> Event]
  BY LenProperties
<1>2. /\ SubSeq(evs, 1, Len(evs)) \in Seq(Event)
      /\ Len(SubSeq(evs, 1, Len(evs))) = Len(evs)
  BY <1>1, PartBegins
<1>3. SubSeq(evs, 1, Len(evs)) = evs
  <2>1. \A i \in 1..Len(evs) : SubSeq(evs, 1, Len(evs))[i] = evs[i]
    <3>1. Len(evs) \in Nat /\ 0 \in Nat /\ 0 <= Len(evs) /\ Len(evs) <= Len(evs)
          /\ 0 + 1 = 1 /\ Len(evs) - 0 = Len(evs)
      BY <1>1, LenProperties
    <3>2. \A i \in 1..Len(evs) - 0 : SubSeq(evs, 0 + 1, Len(evs))[i] = evs[0 + i]
      BY <3>1, RestOf
    <3> QED  BY <3>1, <3>2
  <2> DEFINE part == SubSeq(evs, 1, Len(evs))
  <2>2. part \in Seq(Event) /\ Len(part) = Len(evs) /\ Begins(part, evs)
    BY <2>1, <1>2, LenProperties DEF Begins
  <2> HIDE DEF part
  <2>3. part = evs
    BY <2>2, BeginsEqual
  <2> QED  BY <2>3 DEF part
<1>4. \E n \in 0..Len(evs) : Appended(c, evs) = Appended(c, SubSeq(evs, 1, n))
  <2> DEFINE n == Len(evs)
  <2>1. Appended(c, evs) = Appended(c, SubSeq(evs, 1, n)) /\ n \in 0..Len(evs)
    BY <1>1, <1>3, Zenon
  <2> HIDE DEF n
  <2> QED  BY <2>1
<1> DEFINE kept(n) == Appended(c, SubSeq(evs, 1, n))
<1>5. Interrupted(c, evs) = {kept(n) : n \in 0..Len(evs)} \cup
           {Torn(kept(n - 1), evs[n], k) : n \in DOMAIN evs, k \in Tears}
  BY DEF Interrupted
<1>6. \E n \in 0..Len(evs) : Appended(c, evs) = kept(n)
  BY <1>4
<1> HIDE DEF kept
<1> QED  BY <1>5, <1>6

\* Whatever a write of an operation leaves, whole or cut, is of the lineage.
LEMMA LinealWrite ==
  ASSUME TypeOK, LineInv, TraceInv, NEW w \in Thread, op[w].pc = "writing",
         NEW c \in Interrupted(rec[op[w].rec], op[w].evs)
  PROVE  Lineal(c.log)
<1>1. Busy(w) /\ Owing(w) /\ rec[op[w].rec] = op[w].base
  BY DEF Busy, Owing, TraceInv, BaseKept, Untouched
<1>2. /\ op[w].rec \in Record /\ op[w].evs \in Seq(Event) /\ rec[op[w].rec] \in Content
      /\ rec[op[w].rec].log \in Seq(Event)
  BY <1>1, RunningType
<1>3. /\ Formed(op[w].kind, op[w].evs) /\ Lineal(rec[op[w].rec].log)
      /\ Owed(rec[op[w].rec].log, op[w].evs[1])
  BY <1>1, <1>2 DEF LineInv
<1>4. Lineal(rec[op[w].rec].log \o op[w].evs)
  BY <1>2, <1>3, LinealGrow
<1>5. Begins(c.log, rec[op[w].rec].log \o op[w].evs) /\ c.log \in Seq(Event)
  BY <1>2, InterruptedLogs
<1>6. rec[op[w].rec].log \o op[w].evs \in Seq(Event)
  BY <1>2, BeginsFacts
<1> QED  BY <1>4, <1>5, <1>6, LinealBegins

\* What an operation writes, syncs, undoes or leaves is of the lineage.
LEMMA LineEffect ==
  ASSUME TypeOK, LineInv, TraceInv, NEW w \in Thread, Effect(w)
  PROVE  LineInv'
<1>1. /\ op[w].pc \in {"writing", "written", "synced", "undoing", "returning", "refused", "unknown"}
      /\ Busy(w) /\ Locking(w)
  BY DEF Effect, WriteLine, FailWrite, Sync, Fail, Commit, Undo, FailUndo, Return, Durable,
         Busy, Locking
<1>2. /\ op[w].rec \in Record /\ op[w].evs \in Seq(Event) /\ rec[op[w].rec] \in Content
      /\ Lineal(op[w].base.log)
      /\ \A r \in Record : Lineal(rec[r].log) /\ Lineal(disk[r].log)
  BY <1>1, RunningType DEF LineInv
<1>3. CASE Return(w)
  <2>1. \A v \in Thread : op'[v].pc # "idle" => op'[v] = op[v]
    BY <1>3 DEF Return, Idle, TypeOK, OpsOK
  <2>2. rec' = rec /\ disk' = disk
    BY <1>3 DEF Return
  <2> QED  BY <1>2, <2>1, <2>2, LineFrame
<1>4. CASE ~Return(w)
  <2>1. /\ op'[w].kind = op[w].kind /\ op'[w].evs = op[w].evs /\ op'[w].base = op[w].base
        /\ \A v \in Thread \ {w} : op'[v] = op[v]
    <3>1. CASE \E pc : op' = [op EXCEPT ![w].pc = pc]
      BY <3>1, PcMoved
    <3>2. CASE op' = [op EXCEPT ![w].pc = "synced", ![w].synced = TRUE]
      BY <3>2 DEF TypeOK, OpsOK, OpType
    <3> QED  BY <3>1, <3>2, <1>4
             DEF Effect, WriteLine, FailWrite, Sync, Fail, Commit, Undo, FailUndo, Committed
  <2>2. \/ Owing(w)
        \/ op'[w].pc \notin {"proving", "writing", "written", "synced", "undoing"}
    BY <1>1, <1>4 DEF Effect, WriteLine, FailWrite, Sync, Fail, Commit, Undo, FailUndo, Durable,
                      Return, Owing
  <2>3. op'[w].pc \in {"proving", "writing", "written", "synced", "undoing"} =>
          /\ op[w].kind # "continue" /\ Loads(op[w].base)
          /\ Owed(op[w].base.log, op[w].evs[1])
    BY <2>2 DEF LineInv
  <2>4. \A r \in Record : Lineal(rec'[r].log)
    <3>1. CASE rec' = rec
      BY <3>1, <1>2
    <3>2. CASE rec' = [rec EXCEPT ![op[w].rec] = op[w].base]
      BY <3>2, <1>2 DEF TypeOK, FilesOK
    <3>3. CASE \E c \in Interrupted(rec[op[w].rec], op[w].evs) :
                 rec' = [rec EXCEPT ![op[w].rec] = c] /\ op[w].pc = "writing"
      <4>1. PICK c \in Interrupted(rec[op[w].rec], op[w].evs) :
                 rec' = [rec EXCEPT ![op[w].rec] = c] /\ op[w].pc = "writing"
        BY <3>3
      <4>2. Lineal(c.log)
        BY <4>1, LinealWrite
      <4> QED  BY <4>1, <4>2, <1>2 DEF TypeOK, FilesOK
    <3>4. WriteLine(w) => \E c \in Interrupted(rec[op[w].rec], op[w].evs) :
                 rec' = [rec EXCEPT ![op[w].rec] = c] /\ op[w].pc = "writing"
      <4>1. Appended(rec[op[w].rec], op[w].evs) \in Interrupted(rec[op[w].rec], op[w].evs)
        BY <1>2, WholeIsInterrupted
      <4> QED  BY <4>1, <1>2 DEF WriteLine
    <3>5. FailWrite(w) => \E c \in Interrupted(rec[op[w].rec], op[w].evs) :
                 rec' = [rec EXCEPT ![op[w].rec] = c] /\ op[w].pc = "writing"
      BY DEF FailWrite
    <3> QED  BY <3>1, <3>2, <3>3, <3>4, <3>5, <1>4
             DEF Effect, Sync, Fail, Commit, Undo, FailUndo
  <2>5. \A r \in Record : Lineal(disk'[r].log)
    <3>1. CASE disk' = disk
      BY <3>1, <1>2
    <3>2. CASE \E c \in {disk[op[w].rec], rec[op[w].rec], op[w].base} :
                 disk' = [disk EXCEPT ![op[w].rec] = c]
      BY <3>2, <1>2 DEF TypeOK, FilesOK
    <3> QED  BY <3>1, <3>2, <1>4
             DEF Effect, WriteLine, FailWrite, Sync, Fail, Commit, Undo, FailUndo
  <2> QED  BY <1>1, <1>2, <2>1, <2>3, <2>4, <2>5, LineMove
<1> QED  BY <1>3, <1>4

\* A write that its process did not survive leaves a beginning of what it
\* would have written.
LEMMA LineCrash ==
  ASSUME TypeOK, LineInv, TraceInv, NEW p \in Proc, Crash(p)
  PROVE  LineInv'
<1> DEFINE dead == {w \in Thread : ProcOf[w] = p}
           cut(r) == {w \in dead : op[w].pc = "writing" /\ op[w].rec = r}
           F == [r \in Record |-> {rec[r]} \cup UNION {Interrupted(rec[r], op[w].evs) : w \in cut(r)}]
<1>1. \A v \in Thread : op'[v].pc # "idle" => op'[v] = op[v]
  BY DEF Crash, Idle
<1>2. ASSUME NEW r \in Record PROVE Lineal(rec'[r].log)
  <2>1. rec' \in Outcomes(F)
    BY DEF Crash
  <2>2. rec'[r] \in F[r]
    <3> HIDE DEF F
    <3> QED  BY <2>1, OutcomesType
  <2>3. rec'[r] = rec[r] \/ \E w \in cut(r) : rec'[r] \in Interrupted(rec[r], op[w].evs)
    BY <2>2
  <2>4. ASSUME NEW w \in cut(r), rec'[r] \in Interrupted(rec[r], op[w].evs)
        PROVE  Lineal(rec'[r].log)
    BY <2>4, LinealWrite
  <2> QED  BY <2>3, <2>4 DEF LineInv
<1>3. disk' = disk
  BY DEF Crash
<1> QED  BY <1>1, <1>2, <1>3, LineFrame DEF LineInv

\* The power is lost: each record falls back to a beginning of what was seen.
LEMMA LinePowerLoss ==
  ASSUME TypeOK, LineInv, PowerLoss
  PROVE  LineInv'
<1> DEFINE F == [r \in Record |-> Survivors(disk[r], rec[r])]
<1>1. \A v \in Thread : op'[v].pc # "idle" => op'[v] = op[v]
  BY DEF PowerLoss, Idle
<1>2. ASSUME NEW r \in Record PROVE Lineal(rec'[r].log)
  <2>1. rec' \in Outcomes(F)
    BY DEF PowerLoss
  <2>2. rec'[r] \in Survivors(disk[r], rec[r])
    <3>1. F[r] = Survivors(disk[r], rec[r])
      OBVIOUS
    <3> HIDE DEF F
    <3> QED  BY <2>1, <3>1, OutcomesType
  <2>3. rec[r] \in Content /\ disk[r] \in Content /\ rec[r].log \in Seq(Event)
    BY DEF TypeOK, FilesOK, Content
  <2>4. rec'[r].log \in Seq(Event) /\ (rec'[r] = disk[r] \/ Begins(rec'[r].log, rec[r].log))
    BY <2>2, <2>3, SurvivorLogs
  <2>5. Lineal(rec[r].log) /\ Lineal(disk[r].log)
    BY DEF LineInv
  <2> QED  BY <2>3, <2>4, <2>5, LinealBegins
<1>3. disk' = rec'
  BY DEF PowerLoss
<1> QED  BY <1>1, <1>2, <1>3, LineFrame

\* At first every record is empty.
LEMMA LineInit == Init => LineInv
<1> SUFFICES ASSUME Init PROVE LineInv
  OBVIOUS
<1>1. \A r \in Record : rec[r].log = <<>> /\ disk[r].log = <<>>
  BY DEF Init, Absent, Whole
<1>2. Lineal(<<>>)
  BY DEF Lineal, Turns, Roots, Bounds
<1> QED  BY <1>1, <1>2 DEF Init, LineInv, Busy, Owing, Locking, Idle

\* Every step keeps what the records hold, and what is about to be added to
\* them, of the lineage.
LEMMA LineNext == TypeOK /\ TraceInv /\ LineInv /\ [Next]_vars => LineInv'
<1> SUFFICES ASSUME TypeOK, TraceInv, LineInv, [Next]_vars PROVE LineInv'
  OBVIOUS
<1>0. ASSUME op' = op, rec' = rec, disk' = disk PROVE LineInv'
  BY <1>0, LineFrame DEF LineInv
<1>1. ASSUME NEW w \in Thread, Ask(w) \/ Advance(w) PROVE LineInv'
  BY <1>1, LineAsk, LineDecide, LineEffect DEF Advance
<1>2. ASSUME NEW p \in Proc, \/ \E t \in Task, r \in Record : Acquire(p, t, r)
                             \/ Holder(p) \/ Close(p)
      PROVE  LineInv'
  BY <1>0, <1>2 DEF Acquire, Holder, Admit, Reject, Close, End, Free
<1>3. ASSUME NEW p \in Proc, Crash(p) PROVE LineInv'
  BY <1>3, LineCrash
<1>4. CASE PowerLoss
  BY <1>4, LinePowerLoss
<1>5. CASE Activate
  BY <1>0, <1>5 DEF Activate, Examine, LeaseClaim, LockTorn, Publish, SyncManifest, Leave
<1>6. CASE UNCHANGED vars
  BY <1>0, <1>6 DEF vars
<1> QED  BY <1>1, <1>2, <1>3, <1>4, <1>5, <1>6 DEF Next

\* Every record that loads is wholly of the lineage: one root for each of its
\* tasks, the turns it owed, and nothing written by a session that was not
\* current.
THEOREM RecordsAreLineal == Spec => []MembersOnly
<1>1. LineInv => MembersOnly
  BY DEF LineInv, MembersOnly, Lineal
<1> QED  BY <1>1, LineInit, LineNext, TraceInit, TraceNext, TypeCorrect, PTL DEF Spec

-----------------------------------------------------------------------------
(* A session writes while it is the current one.                           *)

\* While an operation is past lockRecord, a step that is not its own leaves
\* it, what its record holds and what of it is on disk alone, or ends it.
LEMMA LockedAlone ==
  ASSUME TypeOK, TraceInv, [Next]_vars, NEW v \in Thread, ~Advance(v)
  PROVE  \/ op'[v].pc \in {"idle", "guarded"}
         \/ /\ op'[v] = op[v]
            /\ Locking(v) => /\ rec'[op[v].rec] = rec[op[v].rec]
                             /\ disk'[op[v].rec] = disk[op[v].rec]
<1>0. ASSUME op' = op, rec' = rec, disk' = disk
      PROVE  op'[v] = op[v] /\ rec'[op[v].rec] = rec[op[v].rec] /\ disk'[op[v].rec] = disk[op[v].rec]
  BY <1>0
<1>1. ASSUME NEW w \in Thread, Ask(w)
      PROVE  \/ op'[v].pc \in {"idle", "guarded"}
             \/ op'[v] = op[v] /\ rec' = rec /\ disk' = disk
  <2>1. \E k, r, evs :
          op' = [op EXCEPT ![w] = [Idle EXCEPT !.pc = "guarded", !.kind = k, !.rec = r, !.evs = evs]]
    BY <1>1 DEF Ask, Begin, BeginDiagnostic
  <2>2. PICK k, r, evs :
          op' = [op EXCEPT ![w] = [Idle EXCEPT !.pc = "guarded", !.kind = k, !.rec = r, !.evs = evs]]
    BY <2>1
  <2> DEFINE new == [Idle EXCEPT !.pc = "guarded", !.kind = k, !.rec = r, !.evs = evs]
  <2>3. new.pc = "guarded"
    BY BegunFields
  <2>4. op' = [op EXCEPT ![w] = new]
    BY <2>2
  <2> HIDE DEF new
  <2>5. op'[v] = new \/ op'[v] = op[v]
    BY <2>4 DEF TypeOK, OpsOK
  <2>6. rec' = rec /\ disk' = disk
    BY <1>1 DEF Ask, Begin, BeginDiagnostic
  <2> QED  BY <2>3, <2>5, <2>6
<1>2. ASSUME NEW w \in Thread \ {v}, Advance(w)
      PROVE  /\ op'[v] = op[v]
             /\ Locking(v) => /\ rec'[op[v].rec] = rec[op[v].rec]
                              /\ disk'[op[v].rec] = disk[op[v].rec]
  <2>1. op'[v] = op[v]
    <3>1. \E x : op' = [op EXCEPT ![w] = x]
      <4>1. CASE \E pc : op' = [op EXCEPT ![w].pc = pc]
        BY <4>1
      <4>2. CASE op' = [op EXCEPT ![w].pc = "locked", ![w].base = rec[op[w].rec]]
        BY <4>2
      <4>3. CASE op' = [op EXCEPT ![w].pc = "synced", ![w].synced = TRUE]
        BY <4>3
      <4>4. CASE op' = [op EXCEPT ![w] = Idle]
        BY <4>4
      <4> QED  BY <1>2, <4>1, <4>2, <4>3, <4>4
               DEF Advance, Decide, LockRecord, GiveUp, Authorize, Continue, Prove, Refuse,
                   Effect, WriteLine, FailWrite, Sync, Fail, Commit, Undo, FailUndo, Return, Committed
    <3> QED  BY <3>1 DEF TypeOK, OpsOK
  <2>2. \/ rec' = rec /\ disk' = disk
        \/ /\ Locking(w)
           /\ \A r \in Record \ {op[w].rec} : rec'[r] = rec[r] /\ disk'[r] = disk[r]
    <3>1. CASE Decide(w)
      BY <3>1 DEF Decide, LockRecord, GiveUp, Authorize, Continue, Prove, Refuse
    <3>2. CASE Effect(w)
      <4>1. Locking(w)
        BY <3>2 DEF Effect, WriteLine, FailWrite, Sync, Fail, Commit, Undo, FailUndo, Return,
                    Durable, Locking
      <4>2. rec' = rec \/ \E c : rec' = [rec EXCEPT ![op[w].rec] = c]
        BY <3>2 DEF Effect, WriteLine, FailWrite, Sync, Fail, Commit, Undo, FailUndo, Return
      <4>3. disk' = disk \/ \E c : disk' = [disk EXCEPT ![op[w].rec] = c]
        BY <3>2 DEF Effect, WriteLine, FailWrite, Sync, Fail, Commit, Undo, FailUndo, Return
      <4> QED  BY <4>1, <4>2, <4>3 DEF TypeOK, FilesOK
    <3> QED  BY <1>2, <3>1, <3>2 DEF Advance
  <2>3. ASSUME Locking(v), Locking(w) PROVE op[v].rec \in Record \ {op[w].rec}
    <3>1. op[v].rec \in Record
      BY <2>3 DEF Locking, Busy, TypeOK, OpsOK
    <3> QED  BY <2>3, <3>1, Exclusion DEF TraceInv
  <2> QED  BY <2>1, <2>2, <2>3
<1>3. ASSUME NEW p \in Proc, Crash(p)
      PROVE  \/ op'[v].pc \in {"idle", "guarded"}
             \/ /\ op'[v] = op[v]
                /\ Locking(v) => /\ rec'[op[v].rec] = rec[op[v].rec]
                                 /\ disk'[op[v].rec] = disk[op[v].rec]
  <2> DEFINE dead == {w \in Thread : ProcOf[w] = p}
             cut(r) == {w \in dead : op[w].pc = "writing" /\ op[w].rec = r}
             F == [r \in Record |-> {rec[r]} \cup UNION {Interrupted(rec[r], op[w].evs) : w \in cut(r)}]
  <2>1. op'[v].pc = "idle" \/ (v \notin dead /\ op'[v] = op[v])
    BY <1>3 DEF Crash, Idle
  <2>2. disk' = disk /\ rec' \in Outcomes(F)
    BY <1>3 DEF Crash
  <2>3. ASSUME Locking(v), v \notin dead PROVE rec'[op[v].rec] = rec[op[v].rec]
    <3>1. op[v].rec \in Record
      BY <2>3 DEF Locking, Busy, TypeOK, OpsOK
    <3>2. cut(op[v].rec) = {}
      <4>1. SUFFICES ASSUME NEW u \in cut(op[v].rec) PROVE FALSE
        OBVIOUS
      <4>2. Locking(u) /\ u # v /\ op[u].rec = op[v].rec
        BY <2>3, <4>1 DEF Locking
      <4> QED  BY <2>3, <4>2, Exclusion DEF TraceInv
    <3>3. F[op[v].rec] = {rec[op[v].rec]}
      BY <3>1, <3>2
    <3> HIDE DEF F
    <3>4. rec'[op[v].rec] \in F[op[v].rec]
      BY <3>1, <2>2, OutcomesType
    <3> QED  BY <3>3, <3>4
  <2> QED  BY <2>1, <2>2, <2>3
<1>4. ASSUME NEW p \in Proc, \/ \E t \in Task, r \in Record : Acquire(p, t, r)
                             \/ Holder(p) \/ Close(p)
      PROVE  op' = op /\ rec' = rec /\ disk' = disk
  BY <1>4 DEF Acquire, Holder, Admit, Reject, Close, End, Free
<1>5. CASE PowerLoss
  BY <1>5 DEF PowerLoss, Idle
<1>6. CASE Activate
  BY <1>0, <1>6 DEF Activate, Examine, LeaseClaim, LockTorn, Publish, SyncManifest, Leave
<1>7. CASE UNCHANGED vars
  BY <1>0, <1>7 DEF vars
<1> QED  BY <1>0, <1>1, <1>2, <1>3, <1>4, <1>5, <1>6, <1>7 DEF Next

\* What an operation has written is in its record after what it locked, wholly
\* once the write returned, and in part at most while it is being undone.
GrownInv ==
  \A w \in Thread :
    /\ op[w].pc \in {"written", "synced"} =>
         rec[op[w].rec].log = op[w].base.log \o op[w].evs
    /\ op[w].pc = "undoing" =>
         /\ Begins(op[w].base.log, rec[op[w].rec].log)
         /\ Begins(rec[op[w].rec].log, op[w].base.log \o op[w].evs)

\* Initially nothing is written.
LEMMA GrownInit == Init => GrownInv
  BY DEF Init, GrownInv, Idle

\* Every step keeps what is written between what was locked and the whole.
LEMMA GrownNext == TypeOK /\ TraceInv /\ GrownInv /\ [Next]_vars => GrownInv'
<1> SUFFICES ASSUME TypeOK, TraceInv, GrownInv, [Next]_vars, NEW w \in Thread,
                    op'[w].pc \in {"written", "synced", "undoing"}
             PROVE  /\ op'[w].pc \in {"written", "synced"} =>
                         rec'[op'[w].rec].log = op'[w].base.log \o op'[w].evs
                    /\ op'[w].pc = "undoing" =>
                         /\ Begins(op'[w].base.log, rec'[op'[w].rec].log)
                         /\ Begins(rec'[op'[w].rec].log, op'[w].base.log \o op'[w].evs)
  BY DEF GrownInv
<1>1. CASE ~Advance(w)
  <2>1. op'[w] = op[w] /\ Locking(w) /\ rec'[op[w].rec] = rec[op[w].rec]
    BY <1>1, LockedAlone DEF Locking
  <2> QED  BY <2>1 DEF GrownInv
<1>2. CASE Advance(w)
  <2>1. WriteLine(w) \/ FailWrite(w) \/ Sync(w) \/ Fail(w)
    <3>1. ASSUME NEW pc, op' = [op EXCEPT ![w].pc = pc] PROVE op'[w].pc = pc
      BY <3>1, PcMoved
    <3>2. ~LockRecord(w) /\ ~GiveUp(w) /\ ~Return(w)
      BY DEF LockRecord, GiveUp, Return, TypeOK, OpsOK, OpType, Idle
    <3>3. ~Authorize(w) /\ ~Continue(w) /\ ~Prove(w) /\ ~Refuse(w)
      BY <3>1 DEF Authorize, Continue, Prove, Refuse
    <3>4. ~Commit(w) /\ ~Undo(w) /\ ~FailUndo(w)
      BY <3>1 DEF Commit, Undo, FailUndo, Committed
    <3> QED  BY <1>2, <3>2, <3>3, <3>4 DEF Advance, Decide, Effect
  <2>2. Busy(w) /\ Locking(w)
    BY <2>1 DEF WriteLine, FailWrite, Sync, Fail, Busy, Locking
  <2>3. /\ op[w].rec \in Record /\ op[w].evs \in Seq(Event) /\ op[w].base \in Content
        /\ op[w].base.log \in Seq(Event) /\ op[w].evs # <<>>
        /\ rec[op[w].rec] \in Content /\ rec[op[w].rec].log \in Seq(Event)
    BY <2>2, RunningType DEF Content, TypeOK, OpsOK, Busy
  <2>4. /\ op'[w].rec = op[w].rec /\ op'[w].base = op[w].base /\ op'[w].evs = op[w].evs
        /\ WriteLine(w) => op'[w].pc = "written"
        /\ FailWrite(w) \/ Fail(w) => op'[w].pc = "undoing"
        /\ Sync(w) => op'[w].pc = "synced"
    <3>1. CASE Sync(w)
      <4>1. op'[w].pc = "synced" /\ op[w].pc = "written"
        BY <3>1 DEF Sync, TypeOK, OpsOK, OpType
      <4>2. ~WriteLine(w) /\ ~FailWrite(w) /\ (Fail(w) => op' = [op EXCEPT ![w].pc = "undoing"])
        BY <4>1 DEF WriteLine, FailWrite, Fail
      <4>3. ~Fail(w)
        BY <4>1, <4>2, PcMoved
      <4>4. /\ op'[w].rec = op[w].rec /\ op'[w].base = op[w].base /\ op'[w].evs = op[w].evs
        BY <3>1 DEF Sync, TypeOK, OpsOK, OpType
      <4> QED  BY <4>1, <4>2, <4>3, <4>4
    <3>2. CASE ~Sync(w)
      <4>1. ASSUME NEW pc, op' = [op EXCEPT ![w].pc = pc]
            PROVE  /\ op'[w].pc = pc /\ op'[w].rec = op[w].rec
                   /\ op'[w].base = op[w].base /\ op'[w].evs = op[w].evs
        BY <4>1, PcMoved
      <4>2. /\ WriteLine(w) => op' = [op EXCEPT ![w].pc = "written"]
            /\ FailWrite(w) \/ Fail(w) => op' = [op EXCEPT ![w].pc = "undoing"]
        BY DEF WriteLine, FailWrite, Fail
      <4> QED  BY <2>1, <3>2, <4>1, <4>2
    <3> QED  BY <3>1, <3>2
  <2>5. CASE WriteLine(w)
    <3>1. rec'[op[w].rec] = Appended(rec[op[w].rec], op[w].evs) /\ rec[op[w].rec] = op[w].base
      BY <2>3, <2>5 DEF WriteLine, TypeOK, FilesOK, TraceInv, BaseKept, Untouched
    <3>2. rec'[op[w].rec].log = op[w].base.log \o op[w].evs
      BY <3>1, <2>3 DEF Appended, Content
    <3> QED  BY <2>4, <2>5, <3>2
  <2>6. CASE FailWrite(w)
    <3>1. rec'[op[w].rec] \in Interrupted(op[w].base, op[w].evs)
      BY <2>3, <2>6 DEF FailWrite, TypeOK, FilesOK, TraceInv, BaseKept, Untouched
    <3>2. /\ Begins(op[w].base.log, rec'[op[w].rec].log)
          /\ Begins(rec'[op[w].rec].log, op[w].base.log \o op[w].evs)
      BY <3>1, <2>3, InterruptedLogs
    <3> QED  BY <2>4, <2>6, <3>2
  <2>7. CASE Sync(w) \/ Fail(w)
    <3>1. op[w].pc \in {"written", "synced"} /\ rec' = rec
      BY <2>7 DEF Sync, Fail
    <3>2. rec'[op[w].rec].log = op[w].base.log \o op[w].evs
      BY <3>1 DEF GrownInv
    <3>3. /\ Begins(op[w].base.log, op[w].base.log \o op[w].evs)
          /\ Begins(op[w].base.log \o op[w].evs, op[w].base.log \o op[w].evs)
      <4> DEFINE all == op[w].base.log \o op[w].evs
      <4>1. Begins(op[w].base.log, all) /\ all \in Seq(Event)
        BY <2>3, BeginsFacts
      <4> HIDE DEF all
      <4>2. Begins(all, all)
        BY <4>1, BeginsFacts
      <4> QED  BY <4>1, <4>2 DEF all
    <3> QED  BY <2>4, <3>2, <3>3
  <2> QED  BY <2>1, <2>5, <2>6, <2>7
<1> QED  BY <1>1, <1>2

\* A root or a binding of a task makes its session the task's current one.
LEMMA TurnIsTip ==
  ASSUME NEW log \in Seq(Event), NEW k \in {"root", "bind"}, NEW evs, Formed(k, evs)
  PROVE  TipOf(log \o evs, evs[1].task) = evs[1].sess
<1>1. evs \in Seq(Event) /\ Len(evs) = 1 /\ evs[1].kind \in {"root", "bound"}
  BY DEF Formed
<1>2. 1 \in 1..Len(evs)
  BY <1>1
<1>3. evs[1] \in Event
  BY <1>1, <1>2, ElementOfSeq
<1>4. evs = <<evs[1]>>
  <2>1. /\ <<evs[1]>> \in Seq(Event) /\ Len(<<evs[1]>>) = 1
        /\ \A i \in 1..1 : evs[i] = <<evs[1]>>[i]
    BY <1>3
  <2> QED  BY <2>1, <1>1, BeginsEqual DEF Begins
<1>5. log \o evs = Append(log, evs[1])
  BY <1>3, <1>4, AppendIsConcat
<1>6. TipOf(Append(log, evs[1]), evs[1].task) = evs[1].sess
  BY <1>1, <1>3, TipMore
<1> QED  BY <1>5, <1>6

\* The inductive invariant behind OperativeIsTip: no lease is operative while
\* a root or a binding of it is on its way, since both need the record's lock.
OperInv ==
  /\ OperativeIsTip
  /\ \A w \in Thread : Owing(w) /\ op[w].kind \in {"root", "bind"} => lease[ProcOf[w]].sess = NoSession

\* Neither a write nor its undo moves the tip of a task whose lease is
\* operative: another task's never does, and its own are no turns.
LEMMA OperativeOutlasts ==
  ASSUME TypeOK, HeldInv, LineInv, OperInv, NEW p \in Proc, lease[p].sess # NoSession,
         NEW w \in Thread, Owing(w), NEW a \in Seq(Event), NEW b \in Seq(Event),
         Begins(a, b), Begins(b, a \o op[w].evs)
  PROVE  TipOf(b, lease[p].task) = TipOf(a, lease[p].task)
<1>1. Busy(w) /\ Formed(op[w].kind, op[w].evs)
  BY DEF Owing, Busy, LineInv
<1>2. ASSUME op[w].kind \in {"root", "bind"}, op[w].evs[1].task = lease[p].task PROVE FALSE
  <2>1. ProcOf[w] \in Proc /\ taskLock[TaskOf(w)] = ProcOf[w]
    BY <1>1, <1>2, LedgerAssumption DEF HeldInv, AdmittedHoldsTask
  <2>2. taskLock[lease[p].task] = p
    BY DEF OperInv, OperativeIsTip
  <2>3. p = ProcOf[w]
    BY <1>2, <2>1, <2>2 DEF TaskOf
  <2> QED  BY <1>2, <2>3 DEF OperInv
<1> QED  BY <1>1, <1>2, TipKept

\* A step that ends operations or leaves them, writes no record and makes no
\* lease operative.
LEMMA OperFrame ==
  ASSUME TypeOK, OperInv, rec' = rec,
         \A v \in Thread : op'[v].pc \in {"idle", "guarded"} \/ op'[v] = op[v],
         \A p \in Proc :
           \/ lease'[p].sess = NoSession
           \/ /\ lease'[p].sess = lease[p].sess /\ lease'[p].task = lease[p].task
              /\ lease'[p].rec = lease[p].rec
              /\ lease[p].sess # NoSession => /\ lease'[p].st \in {"live", "closing"}
                                              /\ taskLock'[lease[p].task] = p
  PROVE  OperInv'
<1>1. OperativeIsTip'
  BY DEF OperInv, OperativeIsTip
<1>2. \A w \in Thread : Owing(w)' /\ op'[w].kind \in {"root", "bind"} =>
        Owing(w) /\ op[w].kind \in {"root", "bind"}
  BY DEF Owing
<1>3. ASSUME NEW w \in Thread, lease[ProcOf[w]].sess = NoSession
      PROVE  lease'[ProcOf[w]].sess = NoSession
  BY <1>3, LedgerAssumption
<1> QED  BY <1>1, <1>2, <1>3 DEF OperInv

\* The steps of an operation that make its lease operative.
LEMMA OperCommit ==
  ASSUME TypeOK, HeldInv, TraceInv, LineInv, GrownInv, OperInv,
         NEW w \in Thread, Busy(w), Locking(w), UNCHANGED taskLock,
         op[w].kind \in {"root", "bind", "continue"},
         lease' = [lease EXCEPT ![ProcOf[w]].sess = SessOf(w)],
         op' = [op EXCEPT ![w].pc = "returning"],
         TipOf(rec'[op[w].rec].log, TaskOf(w)) = SessOf(w),
         \A p \in Proc : lease[p].sess # NoSession /\ p # ProcOf[w] =>
           TipOf(rec'[lease[p].rec].log, lease[p].task) = lease[p].sess
  PROVE  OperInv'
<1> DEFINE me == ProcOf[w]
<1>1. me \in Proc
  BY LedgerAssumption
<1>2. /\ lease[me].st \in {"live", "closing"} /\ lease[me].task = TaskOf(w)
      /\ lease[me].rec = op[w].rec /\ taskLock[TaskOf(w)] = me
  BY DEF HeldInv, AdmittedHoldsTask
<1> HIDE DEF me
<1>3. /\ lease'[me].st = lease[me].st /\ lease'[me].task = lease[me].task
      /\ lease'[me].rec = lease[me].rec /\ lease'[me].sess = SessOf(w)
      /\ \A p \in Proc \ {me} : lease'[p] = lease[p]
  BY <1>1 DEF me, TypeOK, LeasesOK, LeaseType
<1>4. OperativeIsTip'
  <2>1. SUFFICES ASSUME NEW p \in Proc, lease'[p].sess # NoSession
                 PROVE  /\ lease'[p].st \in {"live", "closing"}
                        /\ taskLock'[lease'[p].task] = p
                        /\ TipOf(rec'[lease'[p].rec].log, lease'[p].task) = lease'[p].sess
    BY DEF OperativeIsTip
  <2>2. CASE p = me
    BY <2>2, <1>2, <1>3
  <2>3. CASE p # me
    <3>1. lease'[p] = lease[p] /\ lease[p].sess # NoSession
      BY <2>1, <2>3, <1>3
    <3>2. lease[p].st \in {"live", "closing"} /\ taskLock[lease[p].task] = p
      BY <3>1 DEF OperInv, OperativeIsTip
    <3> QED  BY <3>1, <3>2, <2>3 DEF me
  <2> QED  BY <2>2, <2>3
<1>5. ASSUME NEW v \in Thread, Owing(v)', op'[v].kind \in {"root", "bind"}
      PROVE  lease'[ProcOf[v]].sess = NoSession
  <2>1. op'[w].pc = "returning" /\ \A u \in Thread \ {w} : op'[u] = op[u]
    BY PcMoved
  <2>2. v # w /\ op'[v] = op[v]
    BY <2>1, <1>5 DEF Owing
  <2>3. Owing(v) /\ op[v].kind \in {"root", "bind"} /\ Busy(v) /\ Locking(v)
    BY <2>2, <1>5 DEF Owing, Busy, Locking
  <2>4. lease[ProcOf[v]].sess = NoSession /\ ProcOf[v] \in Proc
    BY <2>3, LedgerAssumption DEF OperInv
  <2>5. ProcOf[v] # me
    <3>1. lease[ProcOf[v]].rec = op[v].rec
      BY <2>3 DEF HeldInv, AdmittedHoldsTask
    <3>2. op[v].rec # op[w].rec
      BY <2>2, <2>3, Exclusion DEF TraceInv
    <3> QED  BY <3>1, <3>2, <1>2
  <2> QED  BY <2>4, <2>5, <1>3
<1> QED  BY <1>4, <1>5 DEF OperInv

\* The steps of an operation that touch no lease.
LEMMA OperStep ==
  ASSUME TypeOK, OperInv, NEW w \in Thread, UNCHANGED <<lease, taskLock>>,
         \A v \in Thread \ {w} : op'[v] = op[v],
         op'[w].pc \in {"proving", "writing", "written", "synced", "undoing"}
           /\ op'[w].kind \in {"root", "bind"} => lease[ProcOf[w]].sess = NoSession,
         \A p \in Proc : lease[p].sess # NoSession =>
           TipOf(rec'[lease[p].rec].log, lease[p].task) = TipOf(rec[lease[p].rec].log, lease[p].task)
  PROVE  OperInv'
<1>1. lease' = lease /\ taskLock' = taskLock
  OBVIOUS
<1>2. OperativeIsTip'
  BY <1>1 DEF OperInv, OperativeIsTip
<1>3. \A v \in Thread : Owing(v)' /\ op'[v].kind \in {"root", "bind"} => lease[ProcOf[v]].sess = NoSession
  BY DEF OperInv, Owing
<1> QED  BY <1>1, <1>2, <1>3 DEF OperInv

\* What an operation does to its record moves no operative lease's tip.
LEMMA OperTips ==
  ASSUME TypeOK, HeldInv, TraceInv, LineInv, GrownInv, OperInv, NEW w \in Thread, Effect(w),
         NEW p \in Proc, lease[p].sess # NoSession
  PROVE  TipOf(rec'[lease[p].rec].log, lease[p].task) = TipOf(rec[lease[p].rec].log, lease[p].task)
<1>1. CASE rec'[lease[p].rec] = rec[lease[p].rec]
  BY <1>1
<1>2. CASE rec'[lease[p].rec] # rec[lease[p].rec]
  <2>1. WriteLine(w) \/ FailWrite(w) \/ Undo(w)
          \/ (FailUndo(w) /\ rec' = [rec EXCEPT ![op[w].rec] = op[w].base])
    BY <1>2 DEF Effect, Sync, Fail, Commit, FailUndo, Return
  <2>2. op[w].pc \in {"writing", "undoing"}
    BY <2>1 DEF WriteLine, FailWrite, Undo, FailUndo
  <2>3. Busy(w) /\ Owing(w)
    BY <2>2 DEF Busy, Owing
  <2>4. /\ op[w].rec \in Record /\ op[w].evs \in Seq(Event) /\ op[w].base.log \in Seq(Event)
        /\ rec[op[w].rec] \in Content /\ rec[op[w].rec].log \in Seq(Event)
    BY <2>3, RunningType DEF Content
  <2>5. lease[p].rec = op[w].rec
    <3>1. \E c : rec' = [rec EXCEPT ![op[w].rec] = c]
      BY <2>1 DEF WriteLine, FailWrite, Undo
    <3>2. lease[p].rec \in Record
      BY DEF OperInv, OperativeIsTip, TypeOK, LeasesOK
    <3> QED  BY <1>2, <3>1, <3>2 DEF TypeOK, FilesOK
  <2>6. CASE WriteLine(w) \/ FailWrite(w)
    <3>1. rec'[op[w].rec] \in Interrupted(rec[op[w].rec], op[w].evs)
      <4>1. CASE WriteLine(w)
        <5>1. rec'[op[w].rec] = Appended(rec[op[w].rec], op[w].evs)
          BY <2>4, <4>1 DEF WriteLine, TypeOK, FilesOK
        <5> QED  BY <2>4, <5>1, WholeIsInterrupted
      <4>2. CASE FailWrite(w)
        BY <2>4, <4>2 DEF FailWrite, TypeOK, FilesOK
      <4> QED  BY <2>6, <4>1, <4>2
    <3>2. /\ Begins(rec[op[w].rec].log, rec'[op[w].rec].log)
          /\ Begins(rec'[op[w].rec].log, rec[op[w].rec].log \o op[w].evs)
          /\ rec'[op[w].rec].log \in Seq(Event)
      BY <2>4, <3>1, InterruptedLogs
    <3> QED  BY <2>3, <2>4, <2>5, <3>2, OperativeOutlasts
  <2>7. CASE ~(WriteLine(w) \/ FailWrite(w))
    <3>1. op[w].pc = "undoing" /\ rec'[op[w].rec] = op[w].base
      BY <2>1, <2>4, <2>7 DEF Undo, FailUndo, TypeOK, FilesOK
    <3>2. /\ Begins(op[w].base.log, rec[op[w].rec].log)
          /\ Begins(rec[op[w].rec].log, op[w].base.log \o op[w].evs)
      BY <3>1 DEF GrownInv
    <3>3. TipOf(rec[op[w].rec].log, lease[p].task) = TipOf(op[w].base.log, lease[p].task)
      BY <2>3, <2>4, <3>2, OperativeOutlasts
    <3> QED  BY <2>5, <3>1, <3>3
  <2> QED  BY <2>6, <2>7
<1> QED  BY <1>1, <1>2

\* Nothing is operative through an operation that begins.
LEMMA OperAsk ==
  ASSUME TypeOK, OperInv, NEW w \in Thread, Ask(w)
  PROVE  OperInv'
<1>1. \E k, r, evs :
        op' = [op EXCEPT ![w] = [Idle EXCEPT !.pc = "guarded", !.kind = k, !.rec = r, !.evs = evs]]
  BY DEF Ask, Begin, BeginDiagnostic
<1>2. PICK k, r, evs :
        op' = [op EXCEPT ![w] = [Idle EXCEPT !.pc = "guarded", !.kind = k, !.rec = r, !.evs = evs]]
  BY <1>1
<1> DEFINE new == [Idle EXCEPT !.pc = "guarded", !.kind = k, !.rec = r, !.evs = evs]
<1>3. new.pc = "guarded"
  BY BegunFields
<1>4. op' = [op EXCEPT ![w] = new]
  BY <1>2
<1> HIDE DEF new
<1>5. \A v \in Thread : op'[v].pc \in {"idle", "guarded"} \/ op'[v] = op[v]
  BY <1>3, <1>4 DEF TypeOK, OpsOK
<1>6. rec' = rec /\ lease' = lease /\ taskLock' = taskLock
  BY DEF Ask, Begin, BeginDiagnostic
<1>7. \A p \in Proc : lease[p].sess # NoSession =>
        lease[p].st \in {"live", "closing"} /\ taskLock[lease[p].task] = p
  BY DEF OperInv, OperativeIsTip
<1> QED  BY <1>5, <1>6, <1>7, OperFrame

\* A root or a binding is authorized while no session is operative, and a
\* continuation makes the current session operative.
LEMMA OperDecide ==
  ASSUME TypeOK, HeldInv, TraceInv, LineInv, GrownInv, OperInv, NEW w \in Thread, Decide(w)
  PROVE  OperInv'
<1>1. rec' = rec /\ taskLock' = taskLock
  BY DEF Decide, LockRecord, GiveUp, Authorize, Continue, Prove, Refuse
<1>2. \A p \in Proc : lease[p].sess # NoSession =>
        TipOf(rec'[lease[p].rec].log, lease[p].task) = TipOf(rec[lease[p].rec].log, lease[p].task)
  BY <1>1
<1>3. CASE LockRecord(w)
  <2>1. op'[w].pc = "locked" /\ \A v \in Thread \ {w} : op'[v] = op[v]
    BY <1>3 DEF LockRecord, TypeOK, OpsOK, OpType
  <2>2. lease' = lease
    BY <1>3 DEF LockRecord
  <2> QED  BY <1>1, <1>2, <2>1, <2>2, OperStep
<1>4. CASE GiveUp(w)
  <2>1. op'[w].pc = "idle" /\ \A v \in Thread \ {w} : op'[v] = op[v]
    BY <1>4 DEF GiveUp, TypeOK, OpsOK, Idle
  <2>2. lease' = lease
    BY <1>4 DEF GiveUp
  <2> QED  BY <1>1, <1>2, <2>1, <2>2, OperStep
<1>5. CASE Authorize(w)
  <2>1. \E pc : op' = [op EXCEPT ![w].pc = pc]
    BY <1>5 DEF Authorize
  <2>2. op'[w].kind = op[w].kind /\ \A v \in Thread \ {w} : op'[v] = op[v]
    BY <2>1, PcMoved
  <2>3. op[w].kind \in {"root", "bind"} => lease[ProcOf[w]].sess = NoSession
    BY <1>5 DEF Authorize, Authorized, Admissible, AdmitsRoot, AdmitsBinding
  <2>4. lease' = lease
    BY <1>5 DEF Authorize
  <2> QED  BY <1>1, <1>2, <2>2, <2>3, <2>4, OperStep
<1>6. CASE Continue(w)
  <2>1. Busy(w) /\ Locking(w) /\ op[w].kind = "continue" /\ Authorized(w)
    BY <1>6 DEF Continue, Busy, Locking
  <2>2. TipOf(rec[op[w].rec].log, TaskOf(w)) = SessOf(w)
    BY <2>1 DEF Authorized, Admissible, AdmitsContinuation, TaskOf, SessOf
  <2>3. /\ lease' = [lease EXCEPT ![ProcOf[w]].sess = SessOf(w)]
        /\ op' = [op EXCEPT ![w].pc = "returning"]
    BY <1>6 DEF Continue
  <2>4. \A p \in Proc : lease[p].sess # NoSession /\ p # ProcOf[w] =>
           TipOf(rec'[lease[p].rec].log, lease[p].task) = lease[p].sess
    BY <1>1 DEF OperInv, OperativeIsTip
  <2> QED  BY <1>1, <2>1, <2>2, <2>3, <2>4, OperCommit
<1>7. CASE Prove(w) \/ Refuse(w)
  <2>1. \E pc : op' = [op EXCEPT ![w].pc = pc] /\ (pc = "refused" \/ Owing(w))
    BY <1>7 DEF Prove, Refuse, Owing
  <2>2. /\ op'[w].kind = op[w].kind /\ \A v \in Thread \ {w} : op'[v] = op[v]
        /\ op'[w].pc = "refused" \/ Owing(w)
    BY <2>1, PcMoved
  <2>3. Owing(w) /\ op[w].kind \in {"root", "bind"} => lease[ProcOf[w]].sess = NoSession
    BY DEF OperInv
  <2>4. lease' = lease
    BY <1>7 DEF Prove, Refuse
  <2> QED  BY <1>1, <1>2, <2>2, <2>3, <2>4, OperStep
<1> QED  BY <1>3, <1>4, <1>5, <1>6, <1>7 DEF Decide

\* A root or a binding that is committed makes its session operative, which by
\* then is the current one.
LEMMA OperEffect ==
  ASSUME TypeOK, HeldInv, TraceInv, LineInv, GrownInv, OperInv, NEW w \in Thread, Effect(w)
  PROVE  OperInv'
<1>1. taskLock' = taskLock
  BY DEF Effect, WriteLine, FailWrite, Sync, Fail, Commit, Undo, FailUndo, Return
<1>2. \A p \in Proc : lease[p].sess # NoSession =>
        TipOf(rec'[lease[p].rec].log, lease[p].task) = TipOf(rec[lease[p].rec].log, lease[p].task)
  BY OperTips
<1>3. CASE lease' = lease
  <2>1. \A v \in Thread \ {w} : op'[v] = op[v]
    <3>1. \E x : op' = [op EXCEPT ![w] = x]
      <4>1. CASE \E pc : op' = [op EXCEPT ![w].pc = pc]
        BY <4>1
      <4>2. CASE op' = [op EXCEPT ![w].pc = "synced", ![w].synced = TRUE]
        BY <4>2
      <4>3. CASE op' = [op EXCEPT ![w] = Idle]
        BY <4>3
      <4> QED  BY <4>1, <4>2, <4>3 DEF Effect, WriteLine, FailWrite, Sync, Fail, Commit, Undo,
                                       FailUndo, Return, Committed
    <3> QED  BY <3>1 DEF TypeOK, OpsOK
  <2>2. op'[w].pc \in {"proving", "writing", "written", "synced", "undoing"} =>
          Owing(w) /\ op'[w].kind = op[w].kind
    <3>1. CASE Return(w)
      BY <3>1 DEF Return, TypeOK, OpsOK, Idle
    <3>2. CASE Commit(w)
      BY <3>2, PcMoved DEF Commit, Committed
    <3>3. CASE FailUndo(w)
      <4>1. \E pc \in {"returning", "unknown"} : op' = [op EXCEPT ![w].pc = pc]
        BY <3>3 DEF FailUndo, Committed
      <4> QED  BY <4>1, PcMoved
    <3>4. CASE Sync(w)
      BY <3>4 DEF Sync, Owing, TypeOK, OpsOK, OpType
    <3>5. CASE WriteLine(w) \/ FailWrite(w) \/ Fail(w) \/ Undo(w)
      <4>1. Owing(w) /\ \E pc : op' = [op EXCEPT ![w].pc = pc]
        BY <3>5 DEF WriteLine, FailWrite, Fail, Undo, Owing
      <4> QED  BY <4>1, PcMoved
    <3> QED  BY <3>1, <3>2, <3>3, <3>4, <3>5 DEF Effect
  <2>3. Owing(w) /\ op[w].kind \in {"root", "bind"} => lease[ProcOf[w]].sess = NoSession
    BY DEF OperInv
  <2> QED  BY <1>1, <1>2, <1>3, <2>1, <2>2, <2>3, OperStep
<1>4. CASE lease' # lease
  <2>1. /\ op[w].kind \in {"root", "bind"} /\ Committed(w)
        /\ Commit(w) \/ (FailUndo(w) /\ BoundAsRead(w, rec'[op[w].rec]))
    BY <1>4 DEF Effect, WriteLine, FailWrite, Sync, Fail, Commit, Undo, FailUndo, Return, Committed
  <2>2. /\ lease' = [lease EXCEPT ![ProcOf[w]].sess = SessOf(w)]
        /\ op' = [op EXCEPT ![w].pc = "returning"]
    BY <2>1 DEF Committed
  <2>3. op[w].pc \in {"written", "synced", "undoing"} /\ Busy(w) /\ Locking(w)
    BY <2>1 DEF Commit, FailUndo, Busy, Locking
  <2>4. TipOf(rec'[op[w].rec].log, TaskOf(w)) = SessOf(w)
    <3>1. CASE Commit(w)
      <4>1. rec' = rec /\ op[w].pc \in {"written", "synced"}
        BY <3>1 DEF Commit
      <4>2. rec[op[w].rec].log = op[w].base.log \o op[w].evs
        BY <4>1 DEF GrownInv
      <4>3. Formed(op[w].kind, op[w].evs) /\ op[w].base.log \in Seq(Event)
        BY <2>3, RunningType DEF LineInv, Content
      <4>4. TipOf(op[w].base.log \o op[w].evs, op[w].evs[1].task) = op[w].evs[1].sess
        BY <2>1, <4>3, TurnIsTip
      <4> QED  BY <4>1, <4>2, <4>4 DEF TaskOf, SessOf
    <3>2. CASE BoundAsRead(w, rec'[op[w].rec])
      BY <3>2 DEF BoundAsRead
    <3> QED  BY <2>1, <3>1, <3>2
  <2>5. \A p \in Proc : lease[p].sess # NoSession /\ p # ProcOf[w] =>
           TipOf(rec'[lease[p].rec].log, lease[p].task) = lease[p].sess
    BY <1>2 DEF OperInv, OperativeIsTip
  <2> QED  BY <1>1, <2>1, <2>2, <2>3, <2>4, <2>5, OperCommit
<1> QED  BY <1>3, <1>4

\* A lease is operative from nothing, and no more when it is ended.
LEMMA OperLease ==
  ASSUME TypeOK, HeldInv, OperInv, NEW p \in Proc,
         \/ \E t \in Task, r \in Record : Acquire(p, t, r)
         \/ Holder(p) \/ Close(p)
  PROVE  OperInv'
<1>1. rec' = rec /\ op' = op
  BY DEF Acquire, Holder, Admit, Reject, Close, End, Free
<1>2. \A q \in Proc : lease[q].sess # NoSession =>
        lease[q].st \in {"live", "closing"} /\ taskLock[lease[q].task] = q
  BY DEF OperInv, OperativeIsTip
<1>3. \A q \in Proc \ {p} : lease'[q] = lease[q]
  BY DEF Acquire, Holder, Admit, Reject, Close, End, Free, TypeOK, LeasesOK
<1>4. \A q \in Proc \ {p} : lease[q].sess # NoSession => taskLock'[lease[q].task] = q
  <2>1. SUFFICES ASSUME NEW q \in Proc \ {p}, lease[q].sess # NoSession
                 PROVE  taskLock'[lease[q].task] = q
    OBVIOUS
  <2>2. /\ lease[q].task \in Task /\ taskLock[lease[q].task] = q
        /\ q # None
    BY <1>2, <2>1, LedgerAssumption DEF TypeOK, LeasesOK
  <2>3. CASE \E t \in Task, r \in Record : Acquire(p, t, r)
    BY <2>2, <2>3 DEF Acquire, TypeOK, LeasesOK
  <2>4. CASE Reject(p) \/ Free(p)
    <3>1. lease[p].st # "none" /\ taskLock' = [taskLock EXCEPT ![lease[p].task] = None]
      BY <2>4 DEF Reject, Free
    <3>2. taskLock[lease[p].task] = p
      BY <3>1 DEF HeldInv, LeaseHoldsLock
    <3> QED  BY <2>2, <3>1, <3>2 DEF TypeOK, LeasesOK
  <2>5. CASE Admit(p) \/ Close(p) \/ End(p)
    BY <2>2, <2>5 DEF Admit, Close, End
  <2> QED  BY <2>3, <2>4, <2>5 DEF Holder
<1>5. \/ lease'[p].sess = NoSession
      \/ /\ lease'[p].sess = lease[p].sess /\ lease'[p].task = lease[p].task
         /\ lease'[p].rec = lease[p].rec
         /\ lease[p].sess # NoSession => /\ lease'[p].st \in {"live", "closing"}
                                         /\ taskLock'[lease[p].task] = p
  <2>1. CASE \E t \in Task, r \in Record : Acquire(p, t, r)
    BY <2>1 DEF Acquire, TypeOK, LeasesOK
  <2>2. CASE Reject(p) \/ Free(p)
    BY <2>2 DEF Reject, Free, NoLease, TypeOK, LeasesOK
  <2>3. CASE End(p)
    BY <2>3 DEF End, TypeOK, LeasesOK, LeaseType
  <2>4. CASE Admit(p) \/ Close(p)
    BY <1>2, <2>4 DEF Admit, Close, TypeOK, LeasesOK, LeaseType
  <2> QED  BY <2>1, <2>2, <2>3, <2>4 DEF Holder
<1> QED  BY <1>1, <1>2, <1>3, <1>4, <1>5, OperFrame

\* What a dead process was writing moves no living lease's tip.
LEMMA OperCrash ==
  ASSUME TypeOK, HeldInv, LineInv, OperInv, NEW p \in Proc, Crash(p)
  PROVE  OperInv'
<1> DEFINE dead == {w \in Thread : ProcOf[w] = p}
           cut(r) == {w \in dead : op[w].pc = "writing" /\ op[w].rec = r}
           F == [r \in Record |-> {rec[r]} \cup UNION {Interrupted(rec[r], op[w].evs) : w \in cut(r)}]
<1>1. /\ \A v \in Thread : op'[v].pc = "idle" \/ op'[v] = op[v]
      /\ lease'[p].sess = NoSession /\ \A q \in Proc \ {p} : lease'[q] = lease[q]
      /\ \A q \in Proc \ {p}, t \in Task : taskLock[t] = q => taskLock'[t] = q
  BY DEF Crash, Idle, NoLease, TypeOK, LeasesOK
<1>2. rec' \in Outcomes(F)
  BY DEF Crash
<1>3. ASSUME NEW q \in Proc, lease[q].sess # NoSession
      PROVE  TipOf(rec'[lease[q].rec].log, lease[q].task) = TipOf(rec[lease[q].rec].log, lease[q].task)
  <2> DEFINE r == lease[q].rec
  <2>1. r \in Record
    BY <1>3 DEF OperInv, OperativeIsTip, TypeOK, LeasesOK
  <2>2. rec'[r] \in F[r]
    <3> HIDE DEF F, r
    <3> QED  BY <2>1, <1>2, OutcomesType
  <2>3. rec'[r] = rec[r] \/ \E w \in cut(r) : rec'[r] \in Interrupted(rec[r], op[w].evs)
    BY <2>1, <2>2
  <2>4. ASSUME NEW w \in cut(r), rec'[r] \in Interrupted(rec[r], op[w].evs)
        PROVE  TipOf(rec'[r].log, lease[q].task) = TipOf(rec[r].log, lease[q].task)
    <3>1. w \in Thread /\ Busy(w) /\ Owing(w) /\ op[w].rec = r
      BY DEF Busy, Owing
    <3>2. op[w].evs \in Seq(Event) /\ rec[r] \in Content /\ rec[r].log \in Seq(Event)
      BY <3>1, RunningType
    <3>3. /\ Begins(rec[r].log, rec'[r].log) /\ Begins(rec'[r].log, rec[r].log \o op[w].evs)
          /\ rec'[r].log \in Seq(Event)
      BY <2>4, <3>2, InterruptedLogs
    <3> QED  BY <1>3, <3>1, <3>2, <3>3, OperativeOutlasts
  <2> QED  BY <2>3, <2>4
<1>4. OperativeIsTip'
  <2>1. SUFFICES ASSUME NEW q \in Proc, lease'[q].sess # NoSession
                 PROVE  /\ lease'[q].st \in {"live", "closing"}
                        /\ taskLock'[lease'[q].task] = q
                        /\ TipOf(rec'[lease'[q].rec].log, lease'[q].task) = lease'[q].sess
    BY DEF OperativeIsTip
  <2>2. q # p /\ lease'[q] = lease[q]
    BY <1>1, <2>1
  <2>3. /\ lease[q].st \in {"live", "closing"} /\ taskLock[lease[q].task] = q
        /\ lease[q].task \in Task
        /\ TipOf(rec[lease[q].rec].log, lease[q].task) = lease[q].sess
    BY <2>1, <2>2 DEF OperInv, OperativeIsTip, TypeOK, LeasesOK
  <2> QED  BY <1>1, <1>3, <2>1, <2>2, <2>3
<1>5. ASSUME NEW v \in Thread, Owing(v)', op'[v].kind \in {"root", "bind"}
      PROVE  lease'[ProcOf[v]].sess = NoSession
  <2>1. op'[v] = op[v]
    BY <1>1, <1>5 DEF Owing
  <2>2. lease[ProcOf[v]].sess = NoSession /\ ProcOf[v] \in Proc
    BY <1>5, <2>1, LedgerAssumption DEF OperInv, Owing
  <2> QED  BY <1>1, <2>2
<1> QED  BY <1>4, <1>5 DEF OperInv

\* Initially no lease is operative.
LEMMA OperInit == Init => OperInv
  BY DEF Init, OperInv, OperativeIsTip, NoLease, Owing, Idle

\* Every step keeps operative sessions current.
LEMMA OperNext ==
  TypeOK /\ HeldInv /\ TraceInv /\ LineInv /\ GrownInv /\ OperInv /\ [Next]_vars => OperInv'
<1> SUFFICES ASSUME TypeOK, HeldInv, TraceInv, LineInv, GrownInv, OperInv, [Next]_vars
             PROVE  OperInv'
  OBVIOUS
<1>0. \A p \in Proc : lease[p].sess # NoSession =>
        lease[p].st \in {"live", "closing"} /\ taskLock[lease[p].task] = p
  BY DEF OperInv, OperativeIsTip
<1>1. ASSUME NEW w \in Thread, Ask(w) \/ Advance(w) PROVE OperInv'
  BY <1>1, OperAsk, OperDecide, OperEffect DEF Advance
<1>2. ASSUME NEW p \in Proc, \/ \E t \in Task, r \in Record : Acquire(p, t, r)
                             \/ Holder(p) \/ Close(p)
      PROVE  OperInv'
  BY <1>2, OperLease
<1>3. ASSUME NEW p \in Proc, Crash(p) PROVE OperInv'
  BY <1>3, OperCrash
<1>4. CASE PowerLoss
  BY <1>4, LedgerAssumption DEF PowerLoss, OperInv, OperativeIsTip, NoLease, Owing, Idle
<1>5. CASE Activate
  <2>1. rec' = rec /\ op' = op /\ lease' = lease
    BY <1>5 DEF Activate, Examine, LeaseClaim, LockTorn, Publish, SyncManifest, Leave
  <2>2. \A q \in Proc : lease[q].sess # NoSession => taskLock'[lease[q].task] = q
    <3>1. LeaseHoldsLock'
      BY <1>5, HeldActivate DEF HeldInv
    <3> QED  BY <1>0, <2>1, <3>1 DEF LeaseHoldsLock
  <2> QED  BY <1>0, <2>1, <2>2, OperFrame
<1>6. CASE UNCHANGED vars
  <2>1. rec' = rec /\ op' = op /\ lease' = lease /\ taskLock' = taskLock
    BY <1>6 DEF vars
  <2> QED  BY <1>0, <2>1, OperFrame
<1> QED  BY <1>1, <1>2, <1>3, <1>4, <1>5, <1>6 DEF Next

\* What is on record is of the lineage, and who may write is its current session.
THEOREM LineageAlwaysHolds == Spec => []LineageHolds
<1>1. LineInv /\ OperInv => LineageHolds
  BY DEF LineInv, MembersOnly, Lineal, OperInv, LineageHolds
<1> QED  BY <1>1, LineInit, LineNext, GrownInit, GrownNext, OperInit, OperNext, HeldInit, HeldNext,
            TraceInit, TraceNext, TypeCorrect, PTL DEF Spec

-----------------------------------------------------------------------------
(* What a quarantine claims is worked on by nobody.                        *)

\* The inductive invariant behind QuarantineReserves: a record has one manifest,
\* which claims what its bytes claim, and the operator who publishes it owns the
\* lock of each of those tasks.
ReserveInv ==
  /\ QuarantineReserves
  /\ \A r \in Record : \A m \in manifest[r] :
       m.claims = Claims(m.snap) /\ \A n \in manifest[r] : n = m
  /\ quar.pc # "idle" => \A t \in quar.held : taskLock[t] = Operator
  /\ quar.pc \in {"locked", "published"} => quar.held = Claims(quar.snap)

\* A step that admits no lease and publishes nothing.
LEMMA ReserveFrame ==
  ASSUME TypeOK, ReserveInv, manifest' = manifest, quar' = quar,
         \A p \in Proc : lease'[p].st \in {"live", "closing"} =>
           lease[p].st \in {"live", "closing"} /\ lease'[p].task = lease[p].task,
         \A t \in Task : taskLock[t] = Operator => taskLock'[t] = Operator
  PROVE  ReserveInv'
<1>1. QuarantineReserves'
  BY DEF ReserveInv, QuarantineReserves
<1>2. quar.held \subseteq Task
  BY DEF TypeOK, QuarOK, QuarType
<1> QED  BY <1>1, <1>2 DEF ReserveInv

\* A lease is given only when the inventory places every record, and then what
\* a manifest claims is what its record claims.
LEMMA ReserveAdmit ==
  ASSUME TypeOK, ReserveInv, NEW p \in Proc, Admit(p)
  PROVE  ReserveInv'
<1>1. /\ manifest' = manifest /\ quar' = quar /\ taskLock' = taskLock
      /\ \A q \in Proc : lease'[q].task = lease[q].task
      /\ \A q \in Proc \ {p} : lease'[q].st = lease[q].st
  BY DEF Admit, TypeOK, LeasesOK, LeaseType
<1>2. ASSUME NEW r \in Record, NEW m \in manifest[r] PROVE lease[p].task \notin m.claims
  <2>1. Inventoried(r)
    BY DEF Admit, SoleTaskLedger
  <2>2. manifest[r] # {}
    OBVIOUS
  <2>3. Quarantined(r)
    BY <2>1, <2>2 DEF Inventoried
  <2>4. PICK n \in manifest[r] : n.snap = rec[r]
    BY <2>3 DEF Quarantined
  <2>5. m.claims = Claims(rec[r])
    BY <2>4 DEF ReserveInv
  <2>6. r # lease[p].rec
    BY <2>3 DEF Admit, SoleTaskLedger
  <2> QED  BY <2>5, <2>6 DEF Admit, SoleTaskLedger
<1>3. QuarantineReserves'
  <2>1. SUFFICES ASSUME NEW r \in Record, NEW m \in manifest[r], NEW q \in Proc,
                        lease'[q].st \in {"live", "closing"}
                 PROVE  lease[q].task \notin m.claims
    BY <1>1 DEF QuarantineReserves
  <2>2. CASE q = p
    BY <1>2, <2>2
  <2>3. CASE q # p
    BY <1>1, <2>1, <2>3 DEF ReserveInv, QuarantineReserves
  <2> QED  BY <2>2, <2>3
<1> QED  BY <1>1, <1>3 DEF ReserveInv

\* Freeing a lease frees its own lock, which is not the operator's.
LEMMA ReserveLease ==
  ASSUME TypeOK, HeldInv, ReserveInv, NEW p \in Proc,
         \/ \E t \in Task, r \in Record : Acquire(p, t, r)
         \/ Holder(p) \/ Close(p)
  PROVE  ReserveInv'
<1>1. CASE Admit(p)
  BY <1>1, ReserveAdmit
<1>2. CASE ~Admit(p)
  <2>1. manifest' = manifest /\ quar' = quar
    BY DEF Acquire, Holder, Admit, Reject, Close, End, Free
  <2>2. \A t \in Task : taskLock[t] = Operator => taskLock'[t] = Operator
    <3>1. CASE \E t \in Task, r \in Record : Acquire(p, t, r)
      BY <3>1, LedgerAssumption DEF Acquire, TypeOK, LeasesOK
    <3>2. CASE Reject(p) \/ Free(p)
      <4>1. lease[p].st # "none" /\ taskLock' = [taskLock EXCEPT ![lease[p].task] = None]
        BY <3>2 DEF Reject, Free
      <4>2. taskLock[lease[p].task] = p /\ p # Operator
        BY <4>1, LedgerAssumption DEF HeldInv, LeaseHoldsLock
      <4> QED  BY <4>1, <4>2 DEF TypeOK, LeasesOK
    <3>3. CASE Close(p) \/ End(p)
      BY <3>3 DEF Close, End
    <3> QED  BY <1>2, <3>1, <3>2, <3>3 DEF Holder
  <2>3. \A q \in Proc : lease'[q].st \in {"live", "closing"} =>
          lease[q].st \in {"live", "closing"} /\ lease'[q].task = lease[q].task
    BY <1>2 DEF Acquire, Holder, Reject, Close, End, Free, NoLease, TypeOK, LeasesOK, LeaseType
  <2> QED  BY <2>1, <2>2, <2>3, ReserveFrame
<1> QED  BY <1>1, <1>2

\* The operator takes free locks only, and publishes under all it claims.
LEMMA ReserveActivate ==
  ASSUME TypeOK, HeldInv, ReserveInv, Activate
  PROVE  ReserveInv'
<1>1. lease' = lease
  BY DEF Activate, Examine, LeaseClaim, LockTorn, Publish, SyncManifest, Leave
<1>2. QuarantineReserves' \/ manifest' # manifest
  BY <1>1 DEF ReserveInv, QuarantineReserves
<1>3. ASSUME NEW r \in Record, Examine(r) PROVE ReserveInv'
  BY <1>2, <1>3 DEF Examine, ReserveInv
<1>4. ASSUME NEW t \in Task, LeaseClaim(t) PROVE ReserveInv'
  <2>1. /\ quar'.pc = "leasing" /\ quar'.held = quar.held \cup {t}
        /\ taskLock'[t] = Operator /\ \A u \in Task \ {t} : taskLock'[u] = taskLock[u]
    BY <1>4 DEF LeaseClaim, TypeOK, QuarOK, QuarType, LeasesOK
  <2>2. quar.held \subseteq Task /\ \A u \in quar.held : taskLock[u] = Operator
    BY <1>4 DEF LeaseClaim, TypeOK, QuarOK, QuarType, ReserveInv
  <2> QED  BY <1>2, <1>4, <2>1, <2>2 DEF LeaseClaim, ReserveInv
<1>5. CASE LockTorn
  <2>1. /\ quar'.held = quar.held /\ quar'.snap = quar.snap
        /\ quar.pc # "idle" /\ quar.held = Claims(quar.snap)
    BY <1>5 DEF LockTorn, TypeOK, QuarOK, QuarType
  <2> QED  BY <1>2, <1>5, <2>1 DEF LockTorn, ReserveInv
<1>6. CASE Publish
  <2> DEFINE new == [snap |-> quar.snap, claims |-> Claims(quar.snap), durable |-> FALSE]
  <2>1. /\ quar'.held = quar.held /\ quar'.snap = quar.snap
        /\ quar.pc = "locked" /\ quar.held = Claims(quar.snap) /\ quar.rec \in Record
        /\ \A t \in quar.held : taskLock[t] = Operator
    BY <1>6 DEF Publish, TypeOK, QuarOK, QuarType, ReserveInv
  <2>2. new.claims = Claims(quar.snap) /\ new.snap = quar.snap
    OBVIOUS
  <2>3. manifest' = [manifest EXCEPT ![quar.rec] = {new}] /\ taskLock' = taskLock
    BY <1>6 DEF Publish
  <2> HIDE DEF new
  <2>4. /\ manifest'[quar.rec] = {new}
        /\ \A r \in Record \ {quar.rec} : manifest'[r] = manifest[r]
    BY <2>1, <2>3 DEF TypeOK, FilesOK
  <2>5. ASSUME NEW p \in Proc, lease[p].st \in {"live", "closing"}
        PROVE  lease[p].task \notin Claims(quar.snap)
    <3>1. taskLock[lease[p].task] = p /\ p # Operator
      BY <2>5, LedgerAssumption DEF HeldInv, LeaseHoldsLock
    <3> QED  BY <2>1, <3>1
  <2>6. QuarantineReserves'
    <3>1. SUFFICES ASSUME NEW r \in Record, NEW m \in manifest'[r], NEW p \in Proc,
                          lease[p].st \in {"live", "closing"}
                   PROVE  lease[p].task \notin m.claims
      BY <1>1 DEF QuarantineReserves
    <3>2. CASE r = quar.rec
      BY <2>2, <2>4, <2>5, <3>1, <3>2
    <3>3. CASE r # quar.rec
      BY <2>4, <3>1, <3>3 DEF ReserveInv, QuarantineReserves
    <3> QED  BY <3>2, <3>3
  <2>7. \A r \in Record : \A m \in manifest'[r] :
          m.claims = Claims(m.snap) /\ \A n \in manifest'[r] : n = m
    BY <2>2, <2>4 DEF ReserveInv
  <2> QED  BY <2>1, <2>3, <2>6, <2>7 DEF ReserveInv
<1>7. CASE SyncManifest
  <2> DEFINE synced(m) == [m EXCEPT !.durable = TRUE]
  <2>1. /\ quar.rec \in Record /\ quar' = quar /\ taskLock' = taskLock
        /\ manifest' = [manifest EXCEPT ![quar.rec] = {[m EXCEPT !.durable = TRUE] : m \in @}]
    BY <1>7 DEF SyncManifest, TypeOK, QuarOK
  <2>2. \A r \in Record : \A m \in manifest'[r] :
          \E n \in manifest[r] :
            /\ n.claims = m.claims /\ n.snap = m.snap
            /\ r = quar.rec => m = synced(n)
            /\ r # quar.rec => m = n
    <3>1. SUFFICES ASSUME NEW r \in Record, NEW m \in manifest'[r]
                   PROVE  \E n \in manifest[r] :
                            /\ n.claims = m.claims /\ n.snap = m.snap
                            /\ r = quar.rec => m = synced(n)
                            /\ r # quar.rec => m = n
      OBVIOUS
    <3>2. CASE r # quar.rec
      BY <2>1, <3>2 DEF TypeOK, FilesOK
    <3>3. CASE r = quar.rec
      <4>1. m \in {synced(n) : n \in manifest[r]}
        BY <2>1, <3>3 DEF TypeOK, FilesOK
      <4>2. PICK n \in manifest[r] : m = synced(n)
        BY <4>1
      <4>3. n \in ManifestType
        BY DEF TypeOK, FilesOK
      <4>4. n.claims = m.claims /\ n.snap = m.snap
        BY <4>2, <4>3 DEF ManifestType
      <4> QED  BY <3>3, <4>2, <4>4
    <3> QED  BY <3>2, <3>3
  <2> HIDE DEF synced
  <2>3. QuarantineReserves'
    BY <1>1, <2>2 DEF ReserveInv, QuarantineReserves
  <2>4. \A r \in Record : \A m \in manifest'[r] :
          m.claims = Claims(m.snap) /\ \A n \in manifest'[r] : n = m
    <3>1. SUFFICES ASSUME NEW r \in Record, NEW m \in manifest'[r], NEW n \in manifest'[r]
                   PROVE  m.claims = Claims(m.snap) /\ n = m
      OBVIOUS
    <3>2. PICK i \in manifest[r] : /\ i.claims = m.claims /\ i.snap = m.snap
                                   /\ r = quar.rec => m = synced(i)
                                   /\ r # quar.rec => m = i
      BY <2>2, <3>1
    <3>3. PICK j \in manifest[r] : /\ r = quar.rec => n = synced(j)
                                   /\ r # quar.rec => n = j
      BY <2>2, <3>1
    <3>4. i.claims = Claims(i.snap) /\ i = j
      BY DEF ReserveInv
    <3>5. Claims(i.snap) = Claims(m.snap)
      BY <3>2
    <3>6. m = n
      <4>1. CASE r = quar.rec
        BY <3>2, <3>3, <3>4, <4>1
      <4>2. CASE r # quar.rec
        BY <3>2, <3>3, <3>4, <4>2
      <4> QED  BY <4>1, <4>2
    <3>7. m.claims = Claims(m.snap)
      BY <3>2, <3>4, <3>5
    <3> QED  BY <3>6, <3>7
  <2>5. /\ quar'.pc # "idle" => \A t \in quar'.held : taskLock'[t] = Operator
        /\ quar'.pc \in {"locked", "published"} => quar'.held = Claims(quar'.snap)
    BY <2>1 DEF ReserveInv
  <2> QED  BY <2>3, <2>4, <2>5 DEF ReserveInv
<1>8. CASE Leave
  BY <1>2, <1>8 DEF Leave, NoActivation, ReserveInv
<1> QED  BY <1>3, <1>4, <1>5, <1>6, <1>7, <1>8 DEF Activate

\* Initially nothing is quarantined.
LEMMA ReserveInit == Init => ReserveInv
  BY DEF Init, ReserveInv, QuarantineReserves, NoActivation

\* Every step keeps what is quarantined reserved.
LEMMA ReserveNext == TypeOK /\ HeldInv /\ ReserveInv /\ [Next]_vars => ReserveInv'
<1> SUFFICES ASSUME TypeOK, HeldInv, ReserveInv, [Next]_vars PROVE ReserveInv'
  OBVIOUS
<1>1. ASSUME NEW w \in Thread, Ask(w) PROVE ReserveInv'
  <2>1. manifest' = manifest /\ quar' = quar /\ taskLock' = taskLock /\ lease' = lease
    BY <1>1 DEF Ask, Begin, BeginDiagnostic
  <2> QED  BY <2>1, ReserveFrame
<1>2. ASSUME NEW w \in Thread, Advance(w) PROVE ReserveInv'
  <2>1. manifest' = manifest /\ quar' = quar /\ taskLock' = taskLock
    BY <1>2 DEF Advance, Decide, LockRecord, GiveUp, Authorize, Continue, Prove, Refuse,
                Effect, WriteLine, FailWrite, Sync, Fail, Commit, Undo, FailUndo, Return
  <2>2. \A p \in Proc : lease'[p].st = lease[p].st /\ lease'[p].task = lease[p].task
    <3>1. CASE UNCHANGED lease
      BY <3>1
    <3>2. CASE lease' = [lease EXCEPT ![ProcOf[w]].sess = SessOf(w)]
      BY <3>2 DEF TypeOK, LeasesOK, LeaseType
    <3> QED  BY <1>2, <3>1, <3>2
             DEF Advance, Decide, LockRecord, GiveUp, Authorize, Continue, Prove, Refuse,
                 Effect, WriteLine, FailWrite, Sync, Fail, Commit, Undo, FailUndo, Return, Committed
  <2> QED  BY <2>1, <2>2, ReserveFrame
<1>3. ASSUME NEW p \in Proc, \/ \E t \in Task, r \in Record : Acquire(p, t, r)
                             \/ Holder(p) \/ Close(p)
      PROVE  ReserveInv'
  BY <1>3, ReserveLease
<1>4. ASSUME NEW p \in Proc, Crash(p) PROVE ReserveInv'
  <2>1. manifest' = manifest /\ quar' = quar
    BY <1>4 DEF Crash
  <2>2. \A t \in Task : taskLock[t] = Operator => taskLock'[t] = Operator
    BY <1>4, LedgerAssumption DEF Crash
  <2>3. \A q \in Proc : lease'[q].st \in {"live", "closing"} =>
          lease[q].st \in {"live", "closing"} /\ lease'[q].task = lease[q].task
    BY <1>4 DEF Crash, NoLease, TypeOK, LeasesOK
  <2> QED  BY <2>1, <2>2, <2>3, ReserveFrame
<1>5. CASE PowerLoss
  <2> DEFINE F == [r \in Record |-> {manifest[r], {m \in manifest[r] : m.durable}}]
  <2>1. manifest' \in Outcomes(F) /\ \A p \in Proc : lease'[p].st = "none"
    BY <1>5 DEF PowerLoss, NoLease
  <2>2. \A r \in Record : manifest'[r] \in F[r]
    <3> HIDE DEF F
    <3> QED  BY <2>1, OutcomesType
  <2>3. \A r \in Record : manifest'[r] \subseteq manifest[r]
    BY <2>2
  <2>4. QuarantineReserves'
    BY <2>1 DEF QuarantineReserves
  <2> QED  BY <1>5, <2>3, <2>4 DEF PowerLoss, NoActivation, ReserveInv
<1>6. CASE Activate
  BY <1>6, ReserveActivate
<1>7. CASE UNCHANGED vars
  <2>1. manifest' = manifest /\ quar' = quar /\ taskLock' = taskLock /\ lease' = lease
    BY <1>7 DEF vars
  <2> QED  BY <2>1, ReserveFrame
<1> QED  BY <1>1, <1>2, <1>3, <1>4, <1>5, <1>6, <1>7 DEF Next

\* A quarantined identity is never worked on again: from the publication of a
\* manifest on, no process holds a lease of a task that it claims.
THEOREM QuarantineAlwaysReserves == Spec => []QuarantineReserves
<1>1. ReserveInv => QuarantineReserves
  BY DEF ReserveInv
<1> QED  BY <1>1, ReserveInit, ReserveNext, HeldInit, HeldNext, TypeCorrect, PTL DEF Spec

-----------------------------------------------------------------------------
(* One root per task, over all the records.                                *)

\* A root stays where the record goes on.
LEMMA RootedMore ==
  ASSUME NEW a \in Seq(Event), NEW b \in Seq(Event), Begins(a, b), NEW t, Rooted(a, t)
  PROVE  Rooted(b, t)
  BY BeginsSame DEF Rooted

\* A write claims the task of its operation at most, however it ends.
LEMMA InterruptedClaims ==
  ASSUME NEW c \in Content, NEW k, NEW evs, Formed(k, evs), NEW x \in Interrupted(c, evs)
  PROVE  Claims(x) \subseteq Claims(c) \cup {evs[1].task}
<1>1. evs \in Seq(Event) /\ Len(evs) \in {1, 2} /\ (Len(evs) = 2 <=> k = "unit")
  BY DEF Formed
<1>2. \A i \in 1..Len(evs) : evs[i].task = evs[1].task
  <2>1. SUFFICES ASSUME NEW i \in 1..Len(evs) PROVE evs[i].task = evs[1].task
    OBVIOUS
  <2>2. i = 1 \/ (i = 2 /\ k = "unit")
    <3>1. CASE Len(evs) = 1
      BY <2>1, <3>1
    <3>2. CASE Len(evs) = 2
      BY <1>1, <2>1, <3>2
    <3> QED  BY <1>1, <3>1, <3>2
  <2> QED  BY <2>2 DEF Formed
<1>3. SUFFICES ASSUME NEW t \in Claims(x), t \notin Claims(c) PROVE t = evs[1].task
  OBVIOUS
<1>4. c.log \in Seq(Event) /\ t \in Task /\ ~Rooted(c.log, t)
  <2>1. x \in Content /\ t \in Task
    BY <1>1, <1>3, InterruptedType, ClaimsType
  <2> QED  BY <1>3, <2>1 DEF Claims, Content
<1>5. CASE Rooted(x.log, t)
  <2> DEFINE all == c.log \o evs
  <2>1. /\ x.log \in Seq(Event) /\ Begins(x.log, all)
        /\ all \in Seq(Event) /\ Begins(c.log, all) /\ Len(all) = Len(c.log) + Len(evs)
        /\ \A i \in 1..Len(evs) : all[Len(c.log) + i] = evs[i]
    BY <1>1, <1>4, InterruptedLogs, BeginsFacts
  <2> HIDE DEF all
  <2>2. Rooted(all, t)
    BY <1>5, <2>1, RootedMore
  <2>3. PICK i \in Roots(all, t) : TRUE
    BY <2>2 DEF Rooted
  <2>4. i \in 1..Len(all) /\ all[i].task = t
    BY <2>1, <2>3, TurnsIn DEF Roots
  <2>5. i \notin 1..Len(c.log)
    BY <1>4, <2>1, <2>3, BeginsSame DEF Rooted
  <2>6. Len(c.log) \in Nat /\ Len(evs) \in Nat
    BY <1>1, <1>4, LenProperties
  <2>7. i - Len(c.log) \in 1..Len(evs) /\ i = Len(c.log) + (i - Len(c.log))
    BY <2>1, <2>4, <2>5, <2>6
  <2>8. all[i] = evs[i - Len(c.log)]
    BY <2>1, <2>7
  <2> QED  BY <1>2, <2>4, <2>7, <2>8
<1>6. CASE ~Rooted(x.log, t)
  <2> DEFINE kept(n) == Appended(c, SubSeq(evs, 1, n))
  <2>1. x.class = "torn" /\ t = x.tail
    BY <1>3, <1>6 DEF Claims
  <2>2. \A part : Appended(c, part).class = "torn" => Appended(c, part) = c
    BY DEF Appended, Content
  <2>3. ~\E n \in 0..Len(evs) : x = kept(n)
    BY <1>3, <2>1, <2>2
  <2>4. \E n \in DOMAIN evs, h \in Tears : x = Torn(kept(n - 1), evs[n], h)
    BY <2>3 DEF Interrupted
  <2>5. PICK n \in DOMAIN evs, h \in Tears : x = Torn(kept(n - 1), evs[n], h)
    BY <2>4
  <2>6. n \in 1..Len(evs) /\ h \in {"torn", "ambiguous", "corrupt"}
    BY <1>1, LenProperties, LedgerAssumption
  <2>7. kept(n - 1) \in Content
    <3>1. n - 1 \in 0..Len(evs)
      BY <1>1, <2>6
    <3>2. SubSeq(evs, 1, n - 1) \in Seq(Event)
      BY <1>1, <3>1, <1>4, PartBegins
    <3> QED  BY <3>2, AppendedType
  <2> HIDE DEF kept
  <2>8. x.tail = evs[n].task
    BY <2>1, <2>5, <2>6, <2>7 DEF Torn, Content
  <2> QED  BY <1>2, <2>1, <2>6, <2>8
<1> QED  BY <1>5, <1>6

\* A task that is worked on is claimed by the record it is worked on in only.
SoleInv ==
  \A p \in Proc : lease[p].st \in {"live", "closing"} =>
    \A q \in Record \ {lease[p].rec} : lease[p].task \notin Claims(rec[q])

\* A record is claimed for a task only through the lease of that task.
LEMMA SoleFrame ==
  ASSUME TypeOK, HeldInv, SoleInv,
         \A p \in Proc : lease'[p].st \in {"live", "closing"} =>
           /\ lease[p].st \in {"live", "closing"}
           /\ lease'[p].task = lease[p].task /\ lease'[p].rec = lease[p].rec,
         \A q \in Record : \A t \in Claims(rec'[q]) :
           \/ t \in Claims(rec[q])
           \/ \E w \in Thread : /\ Busy(w) /\ op[w].kind # "diagnostic"
                                /\ op[w].rec = q /\ TaskOf(w) = t
  PROVE  SoleInv'
<1>1. SUFFICES ASSUME NEW p \in Proc, lease'[p].st \in {"live", "closing"},
                      NEW q \in Record \ {lease[p].rec}, lease[p].task \in Claims(rec'[q])
               PROVE  FALSE
  BY DEF SoleInv
<1>2. lease[p].st \in {"live", "closing"} /\ lease[p].task \notin Claims(rec[q])
  BY <1>1 DEF SoleInv
<1>3. PICK w \in Thread : /\ Busy(w) /\ op[w].kind # "diagnostic"
                          /\ op[w].rec = q /\ TaskOf(w) = lease[p].task
  BY <1>1, <1>2
<1>4. taskLock[lease[p].task] = p /\ taskLock[TaskOf(w)] = ProcOf[w] /\ lease[ProcOf[w]].rec = op[w].rec
  BY <1>2, <1>3 DEF HeldInv, LeaseHoldsLock, AdmittedHoldsTask
<1> QED  BY <1>1, <1>3, <1>4

\* What an operation writes claims nothing but its own task.
LEMMA WriteClaims ==
  ASSUME TypeOK, LineInv, NEW w \in Thread, Busy(w), NEW q \in Record, op[w].rec = q,
         NEW x \in Interrupted(rec[q], op[w].evs), NEW t \in Claims(x), t \notin Claims(rec[q])
  PROVE  op[w].kind # "diagnostic" /\ TaskOf(w) = t
<1>1. Formed(op[w].kind, op[w].evs) /\ rec[q] \in Content
  BY RunningType DEF LineInv
<1>2. t = op[w].evs[1].task
  BY <1>1, InterruptedClaims
<1>3. t \in Task
  BY <1>1, InterruptedType, ClaimsType DEF Formed
<1> QED  BY <1>1, <1>2, <1>3, LineageAssumption DEF Formed, TaskOf

\* Writes claim the task of their lease, undos claim less.
LEMMA SoleEffect ==
  ASSUME TypeOK, HeldInv, TraceInv, LineInv, GrownInv, SoleInv, NEW w \in Thread, Effect(w)
  PROVE  SoleInv'
<1>1. \A p \in Proc : /\ lease'[p].st = lease[p].st /\ lease'[p].task = lease[p].task
                      /\ lease'[p].rec = lease[p].rec
  <2>1. CASE UNCHANGED lease
    BY <2>1
  <2>2. CASE lease' = [lease EXCEPT ![ProcOf[w]].sess = SessOf(w)]
    BY <2>2 DEF TypeOK, LeasesOK, LeaseType
  <2> QED  BY <2>1, <2>2 DEF Effect, WriteLine, FailWrite, Sync, Fail, Commit, Undo, FailUndo,
                             Return, Committed
<1>2. Busy(w)
  BY DEF Effect, WriteLine, FailWrite, Sync, Fail, Commit, Undo, FailUndo, Return, Busy
<1>3. /\ op[w].rec \in Record /\ op[w].evs \in Seq(Event) /\ op[w].base \in Content
      /\ op[w].base.log \in Seq(Event)
      /\ rec[op[w].rec] \in Content /\ rec[op[w].rec].log \in Seq(Event)
  BY <1>2, RunningType DEF Content
<1>4. CASE rec' = rec
  BY <1>1, <1>4, SoleFrame
<1>5. ASSUME NEW x \in Interrupted(rec[op[w].rec], op[w].evs), rec' = [rec EXCEPT ![op[w].rec] = x]
      PROVE  SoleInv'
  <2>1. rec'[op[w].rec] = x /\ \A q \in Record \ {op[w].rec} : rec'[q] = rec[q]
    BY <1>3, <1>5 DEF TypeOK, FilesOK
  <2>2. \A t \in Claims(x) : t \in Claims(rec[op[w].rec]) \/ (op[w].kind # "diagnostic" /\ TaskOf(w) = t)
    BY <1>2, <1>3, WriteClaims
  <2>3. \A q \in Record : \A t \in Claims(rec'[q]) :
           \/ t \in Claims(rec[q])
           \/ \E v \in Thread : /\ Busy(v) /\ op[v].kind # "diagnostic"
                                /\ op[v].rec = q /\ TaskOf(v) = t
    BY <1>2, <2>1, <2>2
  <2> QED  BY <1>1, <2>3, SoleFrame
<1>6. CASE WriteLine(w) \/ FailWrite(w)
  <2>1. \E x \in Interrupted(rec[op[w].rec], op[w].evs) : rec' = [rec EXCEPT ![op[w].rec] = x]
    BY <1>3, <1>6, WholeIsInterrupted DEF WriteLine, FailWrite
  <2> QED  BY <1>5, <2>1
<1>7. CASE op[w].pc = "undoing" /\ rec' = [rec EXCEPT ![op[w].rec] = op[w].base]
  <2>1. rec'[op[w].rec] = op[w].base /\ \A q \in Record \ {op[w].rec} : rec'[q] = rec[q]
    BY <1>3, <1>7 DEF TypeOK, FilesOK
  <2>2. Begins(op[w].base.log, rec[op[w].rec].log) /\ Loads(op[w].base)
    BY <1>7 DEF GrownInv, LineInv, Owing
  <2>3. Claims(op[w].base) \subseteq Claims(rec[op[w].rec])
    BY <1>3, <2>2, RootedMore DEF Claims, Loads
  <2>4. \A q \in Record : \A t \in Claims(rec'[q]) : t \in Claims(rec[q])
    BY <2>1, <2>3
  <2> QED  BY <1>1, <2>4, SoleFrame
<1> QED  BY <1>4, <1>6, <1>7 DEF Effect, Sync, Fail, Commit, Undo, FailUndo, Return

\* So does what the dead were writing.
LEMMA SoleCrash ==
  ASSUME TypeOK, HeldInv, LineInv, SoleInv, NEW p \in Proc, Crash(p)
  PROVE  SoleInv'
<1> DEFINE dead == {w \in Thread : ProcOf[w] = p}
           cut(r) == {w \in dead : op[w].pc = "writing" /\ op[w].rec = r}
           F == [r \in Record |-> {rec[r]} \cup UNION {Interrupted(rec[r], op[w].evs) : w \in cut(r)}]
<1>1. \A q \in Proc : lease'[q].st \in {"live", "closing"} =>
        /\ lease[q].st \in {"live", "closing"}
        /\ lease'[q].task = lease[q].task /\ lease'[q].rec = lease[q].rec
  BY DEF Crash, NoLease, TypeOK, LeasesOK
<1>2. rec' \in Outcomes(F)
  BY DEF Crash
<1>3. ASSUME NEW r \in Record, NEW t \in Claims(rec'[r]), t \notin Claims(rec[r])
      PROVE  \E w \in Thread : /\ Busy(w) /\ op[w].kind # "diagnostic"
                               /\ op[w].rec = r /\ TaskOf(w) = t
  <2>1. rec'[r] \in F[r]
    <3> HIDE DEF F
    <3> QED  BY <1>2, OutcomesType
  <2>2. \E w \in cut(r) : rec'[r] \in Interrupted(rec[r], op[w].evs)
    BY <1>3, <2>1
  <2>3. PICK w \in cut(r) : rec'[r] \in Interrupted(rec[r], op[w].evs)
    BY <2>2
  <2>4. w \in Thread /\ Busy(w) /\ op[w].rec = r
    BY DEF Busy
  <2>5. op[w].kind # "diagnostic" /\ TaskOf(w) = t
    BY <1>3, <2>3, <2>4, WriteClaims
  <2> QED  BY <2>4, <2>5
<1> HIDE DEF F
<1> QED  BY <1>1, <1>3, SoleFrame

\* Initially there is no lease.
LEMMA SoleInit == Init => SoleInv
  BY DEF Init, SoleInv, NoLease

\* Every step keeps the records of the tasks that are worked on apart.
LEMMA SoleNext ==
  TypeOK /\ HeldInv /\ TraceInv /\ LineInv /\ GrownInv /\ SoleInv /\ [Next]_vars => SoleInv'
<1> SUFFICES ASSUME TypeOK, HeldInv, TraceInv, LineInv, GrownInv, SoleInv, [Next]_vars
             PROVE  SoleInv'
  OBVIOUS
<1>1. ASSUME NEW w \in Thread, Ask(w) \/ Decide(w) PROVE SoleInv'
  <2>1. rec' = rec
    BY <1>1 DEF Ask, Begin, BeginDiagnostic,
                Decide, LockRecord, GiveUp, Authorize, Continue, Prove, Refuse
  <2>2. \A p \in Proc : /\ lease'[p].st = lease[p].st /\ lease'[p].task = lease[p].task
                        /\ lease'[p].rec = lease[p].rec
    <3>1. CASE UNCHANGED lease
      BY <3>1
    <3>2. CASE lease' = [lease EXCEPT ![ProcOf[w]].sess = SessOf(w)]
      BY <3>2 DEF TypeOK, LeasesOK, LeaseType
    <3> QED  BY <1>1, <3>1, <3>2 DEF Ask, Begin, BeginDiagnostic,
                Decide, LockRecord, GiveUp, Authorize, Continue, Prove, Refuse
  <2> QED  BY <2>1, <2>2, SoleFrame
<1>2. ASSUME NEW w \in Thread, Effect(w) PROVE SoleInv'
  BY <1>2, SoleEffect
<1>3. ASSUME NEW p \in Proc, NEW t \in Task, NEW r \in Record, Acquire(p, t, r) PROVE SoleInv'
  BY <1>3 DEF Acquire, SoleInv, TypeOK, LeasesOK
<1>4. ASSUME NEW p \in Proc, Admit(p) PROVE SoleInv'
  <2>1. /\ \A q \in Record \ {lease[p].rec} : lease[p].task \notin Claims(rec[q])
        /\ rec' = rec /\ lease'[p].task = lease[p].task /\ lease'[p].rec = lease[p].rec
        /\ \A q \in Proc \ {p} : lease'[q] = lease[q]
    BY <1>4 DEF Admit, SoleTaskLedger, TypeOK, LeasesOK, LeaseType
  <2> QED  BY <2>1 DEF SoleInv
<1>5. ASSUME NEW p \in Proc, Reject(p) \/ Close(p) \/ End(p) \/ Free(p) PROVE SoleInv'
  <2>1. /\ rec' = rec
        /\ \A q \in Proc : lease'[q].st \in {"live", "closing"} =>
             /\ lease[q].st \in {"live", "closing"}
             /\ lease'[q].task = lease[q].task /\ lease'[q].rec = lease[q].rec
    BY <1>5 DEF Reject, Close, End, Free, NoLease, TypeOK, LeasesOK, LeaseType
  <2> QED  BY <2>1, SoleFrame
<1>6. ASSUME NEW p \in Proc, Crash(p) PROVE SoleInv'
  BY <1>6, SoleCrash
<1>7. CASE PowerLoss
  BY <1>7 DEF PowerLoss, SoleInv, NoLease
<1>8. CASE Activate \/ UNCHANGED vars
  <2>1. rec' = rec /\ lease' = lease
    BY <1>8 DEF Activate, Examine, LeaseClaim, LockTorn, Publish, SyncManifest, Leave, vars
  <2> QED  BY <2>1, SoleFrame
<1> QED  BY <1>1, <1>2, <1>3, <1>4, <1>5, <1>6, <1>7, <1>8 DEF Next, Advance, Holder

\* Of all the creations of a task that returned, one succeeded.
OneCreated == \A t \in Task : \A q, r \in created[t] : q = r

\* Its root is in the record from then on, and on stable storage.
CreatedRooted ==
  \A t \in Task : \A q \in created[t] : Rooted(rec[q].log, t) /\ Rooted(disk[q].log, t)

\* It is in what an operation goes back to.
BaseRooted ==
  \A t \in Task, w \in Thread :
    (Owing(w) \/ op[w].pc = "locked") /\ op[w].rec \in created[t] => Rooted(op[w].base.log, t)

\* What was synced is on stable storage when it is verified.
SyncedOnDisk == \A w \in Thread : op[w].pc = "synced" => disk[op[w].rec] = rec[op[w].rec]

\* With SoleInv, the inductive invariant behind OneRoot.
CreatedInv == OneCreated /\ CreatedRooted /\ BaseRooted /\ SyncedOnDisk

\* The steps after which another creation has returned.
LEMMA CreatedStep ==
  ASSUME TypeOK, [Next]_vars
  PROVE  \/ created' = created
         \/ \E w \in Thread :
              /\ Commit(w) /\ op[w].kind = "root" /\ op[w].pc = "synced" /\ op'[w].pc = "returning"
              /\ created' = [created EXCEPT ![TaskOf(w)] = @ \cup {op[w].rec}]
<1>1. ASSUME NEW w \in Thread, Ask(w) \/ Decide(w) PROVE created' = created
  BY <1>1 DEF Ask, Begin, BeginDiagnostic, history,
              Decide, LockRecord, GiveUp, Authorize, Continue, Prove, Refuse
<1>2. ASSUME NEW w \in Thread, WriteLine(w) \/ FailWrite(w) \/ Sync(w) \/ Fail(w) \/ Undo(w) \/ Return(w)
      PROVE  created' = created
  BY <1>2 DEF WriteLine, FailWrite, Sync, Fail, Undo, Return, history
<1>3. ASSUME NEW w \in Thread, FailUndo(w) PROVE created' = created
  BY <1>3 DEF FailUndo, BoundAsRead, Committed, history
<1>4. ASSUME NEW w \in Thread, Commit(w), created' # created
      PROVE  /\ op[w].kind = "root" /\ op[w].pc = "synced" /\ op'[w].pc = "returning"
             /\ created' = [created EXCEPT ![TaskOf(w)] = @ \cup {op[w].rec}]
  <2>1. op[w].kind = "root" /\ created' = [created EXCEPT ![TaskOf(w)] = @ \cup {op[w].rec}]
    BY <1>4 DEF Commit, Committed
  <2>2. op[w].pc = "synced"
    BY <1>4, <2>1 DEF Commit, Durable
  <2>3. op'[w].pc = "returning"
    BY <1>4, PcMoved DEF Commit, Committed
  <2> QED  BY <2>1, <2>2, <2>3
<1>5. ASSUME NEW p \in Proc, \/ \E t \in Task, r \in Record : Acquire(p, t, r)
                             \/ Holder(p) \/ Close(p)
      PROVE  created' = created
  BY <1>5 DEF Acquire, Holder, Admit, Reject, Close, End, Free, history
<1>6. ASSUME NEW p \in Proc, Crash(p) PROVE created' = created
  BY <1>6 DEF Crash, history
<1>7. CASE PowerLoss
  BY <1>7 DEF PowerLoss, history
<1>8. CASE Activate
  BY <1>8 DEF Activate, Examine, LeaseClaim, LockTorn, Publish, SyncManifest, Leave, history
<1>9. CASE UNCHANGED vars
  BY <1>9 DEF vars, history
<1> QED  BY <1>1, <1>2, <1>3, <1>4, <1>5, <1>6, <1>7, <1>8, <1>9 DEF Next, Advance, Effect

\* A step of one operation leaves the roots of its record in it.
LEMMA EffectKeepsRoots ==
  ASSUME TypeOK, TraceInv, GrownInv, CreatedInv, NEW w \in Thread, Effect(w),
         NEW t \in Task, NEW q \in created[t]
  PROVE  Rooted(rec'[q].log, t) /\ Rooted(disk'[q].log, t)
<1>1. Rooted(rec[q].log, t) /\ Rooted(disk[q].log, t) /\ q \in Record
  BY DEF CreatedInv, CreatedRooted, TypeOK, FilesOK
<1>2. Busy(w)
  BY DEF Effect, WriteLine, FailWrite, Sync, Fail, Commit, Undo, FailUndo, Return, Busy
<1>3. /\ op[w].rec \in Record /\ op[w].evs \in Seq(Event)
      /\ rec[op[w].rec] \in Content /\ rec[op[w].rec].log \in Seq(Event)
  BY <1>2, RunningType
<1>4. CASE WriteLine(w) \/ FailWrite(w)
  <2>1. /\ \E x \in Interrupted(rec[op[w].rec], op[w].evs) : rec' = [rec EXCEPT ![op[w].rec] = x]
        /\ disk' = disk
    BY <1>3, <1>4, WholeIsInterrupted DEF WriteLine, FailWrite
  <2>2. PICK x \in Interrupted(rec[op[w].rec], op[w].evs) : rec' = [rec EXCEPT ![op[w].rec] = x]
    BY <2>1
  <2>3. Begins(rec[op[w].rec].log, x.log) /\ x.log \in Seq(Event)
    BY <1>3, InterruptedLogs
  <2>4. q = op[w].rec => Rooted(x.log, t)
    BY <1>1, <1>3, <2>3, RootedMore
  <2>5. rec'[q] = IF q = op[w].rec THEN x ELSE rec[q]
    BY <1>1, <2>2 DEF TypeOK, FilesOK
  <2> QED  BY <1>1, <2>1, <2>4, <2>5
<1>5. CASE Sync(w)
  <2>1. rec' = rec /\ disk' = [disk EXCEPT ![op[w].rec] = rec[op[w].rec]]
    BY <1>5 DEF Sync
  <2> QED  BY <1>1, <2>1 DEF TypeOK, FilesOK
<1>6. CASE Fail(w)
  <2>1. rec' = rec /\ \E c \in {disk[op[w].rec], rec[op[w].rec]} : disk' = [disk EXCEPT ![op[w].rec] = c]
    BY <1>6 DEF Fail
  <2> QED  BY <1>1, <2>1 DEF TypeOK, FilesOK
<1>7. CASE Commit(w) \/ Return(w)
  BY <1>1, <1>7 DEF Commit, Return
<1>8. CASE Undo(w) \/ FailUndo(w)
  <2>1. q = op[w].rec => Rooted(op[w].base.log, t)
    BY <1>8 DEF Undo, FailUndo, CreatedInv, BaseRooted, Owing
  <2>2. /\ rec' = rec \/ rec' = [rec EXCEPT ![op[w].rec] = op[w].base]
        /\ disk' = disk \/ disk' = [disk EXCEPT ![op[w].rec] = op[w].base]
    BY <1>8 DEF Undo, FailUndo
  <2>3. rec'[q] = rec[q] \/ (q = op[w].rec /\ rec'[q] = op[w].base)
    BY <1>1, <2>2 DEF TypeOK, FilesOK
  <2>4. disk'[q] = disk[q] \/ (q = op[w].rec /\ disk'[q] = op[w].base)
    BY <1>1, <2>2 DEF TypeOK, FilesOK
  <2> QED  BY <1>1, <2>1, <2>3, <2>4
<1> QED  BY <1>4, <1>5, <1>6, <1>7, <1>8 DEF Effect

\* What the dead were writing leaves the roots before it.
LEMMA CrashKeepsRoots ==
  ASSUME TypeOK, CreatedInv, NEW p \in Proc, Crash(p), NEW t \in Task, NEW q \in created[t]
  PROVE  Rooted(rec'[q].log, t) /\ Rooted(disk'[q].log, t)
<1> DEFINE dead == {w \in Thread : ProcOf[w] = p}
           cut(r) == {w \in dead : op[w].pc = "writing" /\ op[w].rec = r}
           F == [r \in Record |-> {rec[r]} \cup UNION {Interrupted(rec[r], op[w].evs) : w \in cut(r)}]
<1>1. Rooted(rec[q].log, t) /\ Rooted(disk[q].log, t) /\ q \in Record
  BY DEF CreatedInv, CreatedRooted, TypeOK, FilesOK
<1>2. rec' \in Outcomes(F) /\ disk' = disk
  BY DEF Crash
<1>3. rec'[q] \in F[q]
  <2> HIDE DEF F
  <2> QED  BY <1>1, <1>2, OutcomesType
<1>4. rec'[q] = rec[q] \/ \E w \in cut(q) : rec'[q] \in Interrupted(rec[q], op[w].evs)
  BY <1>1, <1>3
<1>5. ASSUME NEW w \in cut(q), rec'[q] \in Interrupted(rec[q], op[w].evs)
      PROVE  Rooted(rec'[q].log, t)
  <2>1. w \in Thread /\ Busy(w) /\ op[w].rec = q
    BY DEF Busy
  <2>2. op[w].evs \in Seq(Event) /\ rec[q] \in Content /\ rec[q].log \in Seq(Event)
    BY <2>1, RunningType
  <2>3. Begins(rec[q].log, rec'[q].log) /\ rec'[q].log \in Seq(Event)
    BY <1>5, <2>2, InterruptedLogs
  <2> QED  BY <1>1, <2>2, <2>3, RootedMore
<1> QED  BY <1>1, <1>2, <1>4, <1>5

\* A power loss leaves what both the reader and the disk had.
LEMMA PowerKeepsRoots ==
  ASSUME TypeOK, CreatedInv, PowerLoss, NEW t \in Task, NEW q \in created[t]
  PROVE  Rooted(rec'[q].log, t) /\ Rooted(disk'[q].log, t)
<1> DEFINE F == [r \in Record |-> Survivors(disk[r], rec[r])]
<1>1. Rooted(rec[q].log, t) /\ Rooted(disk[q].log, t) /\ q \in Record
  BY DEF CreatedInv, CreatedRooted, TypeOK, FilesOK
<1>2. rec' \in Outcomes(F) /\ disk' = rec'
  BY DEF PowerLoss
<1>3. rec'[q] \in F[q]
  <2> HIDE DEF F
  <2> QED  BY <1>1, <1>2, OutcomesType
<1>4. rec'[q] \in Survivors(disk[q], rec[q]) /\ disk[q] \in Content /\ rec[q] \in Content
  BY <1>1, <1>3 DEF TypeOK, FilesOK
<1>5. /\ rec'[q].log \in Seq(Event) /\ disk[q].log \in Seq(Event)
      /\ rec'[q] = rec[q] \/ Begins(disk[q].log, rec'[q].log)
  BY <1>4, SurvivorLogs DEF Content
<1>6. Rooted(rec'[q].log, t)
  BY <1>1, <1>5, RootedMore
<1> QED  BY <1>2, <1>6

\* The root of a task whose creation returned is never lost.
LEMMA RootsStay ==
  ASSUME TypeOK, TraceInv, GrownInv, CreatedInv, [Next]_vars, NEW t \in Task, NEW q \in created[t]
  PROVE  Rooted(rec'[q].log, t) /\ Rooted(disk'[q].log, t)
<1>1. ASSUME rec' = rec, disk' = disk PROVE Rooted(rec'[q].log, t) /\ Rooted(disk'[q].log, t)
  BY <1>1 DEF CreatedInv, CreatedRooted
<1>2. ASSUME NEW w \in Thread, Ask(w) \/ Decide(w) PROVE rec' = rec /\ disk' = disk
  BY <1>2 DEF Ask, Begin, BeginDiagnostic,
              Decide, LockRecord, GiveUp, Authorize, Continue, Prove, Refuse
<1>3. ASSUME NEW p \in Proc, \/ \E u \in Task, r \in Record : Acquire(p, u, r)
                             \/ Holder(p) \/ Close(p)
      PROVE  rec' = rec /\ disk' = disk
  BY <1>3 DEF Acquire, Holder, Admit, Reject, Close, End, Free
<1>4. ASSUME Activate \/ UNCHANGED vars PROVE rec' = rec /\ disk' = disk
  BY <1>4 DEF Activate, Examine, LeaseClaim, LockTorn, Publish, SyncManifest, Leave, vars
<1> QED  BY <1>1, <1>2, <1>3, <1>4, EffectKeepsRoots, CrashKeepsRoots, PowerKeepsRoots
         DEF Next, Advance

\* A creation returns with the root of its task in the record, and no other
\* record has one: the lease was admitted to this one, the only possible one.
LEMMA CreationIsFirst ==
  ASSUME TypeOK, HeldInv, GrownInv, LineInv, SoleInv, CreatedInv,
         NEW w \in Thread, Commit(w), op[w].kind = "root", op[w].pc = "synced"
  PROVE  /\ \A q \in created[TaskOf(w)] : q = op[w].rec
         /\ Rooted(rec[op[w].rec].log, TaskOf(w)) /\ Rooted(disk[op[w].rec].log, TaskOf(w))
         /\ TaskOf(w) \in Task /\ op[w].rec \in Record
<1>1. Busy(w) /\ op[w].kind # "diagnostic"
  BY DEF Busy
<1>2. /\ op[w].rec \in Record /\ op[w].evs \in Seq(Event) /\ op[w].base.log \in Seq(Event)
      /\ rec[op[w].rec].log \in Seq(Event)
  BY <1>1, RunningType DEF Content
<1>3. /\ Formed(op[w].kind, op[w].evs) /\ TaskOf(w) \in Task \cup {NoTask}
  BY <1>1, RunningType DEF LineInv
<1>4. TaskOf(w) \in Task
  BY <1>1, <1>3 DEF Formed, TaskOf
<1>5. Rooted(rec[op[w].rec].log, TaskOf(w))
  <2> DEFINE old == op[w].base.log
             evs == op[w].evs
             all == old \o evs
  <2>1. rec[op[w].rec].log = all
    BY DEF GrownInv
  <2>2. /\ Len(evs) = 1 /\ evs[1].kind = "root" /\ evs[1].task = TaskOf(w)
        /\ old \in Seq(Event) /\ evs \in Seq(Event)
    BY <1>2, <1>3 DEF Formed, TaskOf
  <2> HIDE DEF old, evs
  <2>3. /\ Len(all) = Len(old) + Len(evs) /\ all \in Seq(Event)
        /\ \A i \in 1..Len(evs) : all[Len(old) + i] = evs[i]
    BY <2>2, BeginsFacts
  <2> HIDE DEF all
  <2>4. Len(old) \in Nat /\ DOMAIN all = 1..Len(all) /\ 1 \in 1..Len(evs)
    BY <2>2, <2>3, LenProperties
  <2>5. all[Len(old) + 1] = evs[1] /\ Len(old) + 1 \in DOMAIN all
    BY <2>2, <2>3, <2>4
  <2>6. Len(old) + 1 \in Roots(all, TaskOf(w))
    BY <2>2, <2>5 DEF Roots
  <2> QED  BY <2>1, <2>6 DEF Rooted
<1>6. Rooted(disk[op[w].rec].log, TaskOf(w))
  BY <1>5 DEF CreatedInv, SyncedOnDisk
<1>7. ASSUME NEW q \in created[TaskOf(w)], q # op[w].rec PROVE FALSE
  <2>1. q \in Record /\ Rooted(rec[q].log, TaskOf(w))
    BY <1>4 DEF CreatedInv, CreatedRooted, TypeOK, FilesOK
  <2>2. TaskOf(w) \in Claims(rec[q])
    BY <1>4, <2>1 DEF Claims
  <2>3. /\ lease[ProcOf[w]].st \in {"live", "closing"} /\ lease[ProcOf[w]].task = TaskOf(w)
        /\ lease[ProcOf[w]].rec = op[w].rec /\ ProcOf[w] \in Proc
    BY <1>1, LedgerAssumption DEF HeldInv, AdmittedHoldsTask
  <2> QED  BY <1>7, <2>1, <2>2, <2>3 DEF SoleInv
<1> QED  BY <1>2, <1>4, <1>5, <1>6, <1>7

\* What an operation under way locks, and goes back to, has its record's roots.
LEMMA BaseRootedNext ==
  ASSUME TypeOK, TraceInv, CreatedInv, [Next]_vars
  PROVE  BaseRooted'
<1>1. SUFFICES ASSUME NEW t \in Task, NEW v \in Thread, Owing(v)' \/ op'[v].pc = "locked",
                      op'[v].rec \in created'[t]
               PROVE  Rooted(op'[v].base.log, t)
  BY DEF BaseRooted
<1>2. op'[v].pc \in {"locked", "proving", "writing", "written", "synced", "undoing"}
  BY <1>1 DEF Owing
<1>3. CASE ~Advance(v)
  <2>1. op'[v] = op[v] /\ Locking(v)
    BY <1>2, <1>3, LockedAlone DEF Locking
  <2>2. Owing(v) \/ op[v].pc = "locked"
    BY <1>2, <2>1 DEF Owing
  <2>3. op[v].rec \in created[t]
    <3>1. CASE created' = created
      BY <1>1, <2>1, <3>1
    <3>2. CASE created' # created
      <4>1. PICK w \in Thread :
              /\ Commit(w) /\ op[w].pc = "synced" /\ op'[w].pc = "returning"
              /\ created' = [created EXCEPT ![TaskOf(w)] = @ \cup {op[w].rec}]
        BY <3>2, CreatedStep
      <4>2. v # w /\ Locking(w)
        BY <1>2, <4>1 DEF Locking
      <4>3. op[v].rec # op[w].rec
        BY <2>1, <4>2, Exclusion DEF TraceInv
      <4>4. created'[t] \subseteq created[t] \cup {op[w].rec}
        BY <4>1 DEF TypeOK, FilesOK
      <4> QED  BY <1>1, <2>1, <4>3, <4>4
    <3> QED  BY <3>1, <3>2
  <2> QED  BY <2>1, <2>2, <2>3 DEF CreatedInv, BaseRooted
<1>4. CASE Advance(v)
  <2>1. created' = created
    <3>1. SUFFICES ASSUME created' # created PROVE FALSE
      OBVIOUS
    <3>2. PICK w \in Thread : Commit(w) /\ op[w].pc = "synced" /\ op'[w].pc = "returning"
      BY <3>1, CreatedStep
    <3>3. v # w
      BY <1>2, <3>2
    <3>4. op' = [op EXCEPT ![w].pc = "returning"]
      BY <3>2 DEF Commit, Committed
    <3>5. op'[v] = op[v]
      BY <3>3, <3>4, PcMoved
    <3>6. op'[v] # op[v]
      <4>1. ASSUME NEW pc, op' = [op EXCEPT ![v].pc = pc], op[v].pc # pc PROVE op'[v] # op[v]
        <5>1. op'[v].pc = pc
          BY <4>1, PcMoved
        <5> QED  BY <4>1, <5>1
      <4>2. CASE LockRecord(v) \/ Sync(v) \/ GiveUp(v) \/ Return(v)
        BY <4>2 DEF LockRecord, Sync, GiveUp, Return, Idle, TypeOK, OpsOK, OpType
      <4>3. CASE ~(LockRecord(v) \/ Sync(v) \/ GiveUp(v) \/ Return(v))
        <5>1. \E pc : op' = [op EXCEPT ![v].pc = pc] /\ op[v].pc # pc
          BY <1>4, <4>3 DEF Advance, Decide, Authorize, Continue, Prove, Refuse,
                            Effect, WriteLine, FailWrite, Fail, Commit, Undo, FailUndo, Committed
        <5> QED  BY <4>1, <5>1
      <4> QED  BY <4>2, <4>3
    <3> QED  BY <3>5, <3>6
  <2>2. CASE LockRecord(v)
    <3>1. op'[v].rec = op[v].rec /\ op'[v].base = rec[op[v].rec]
      BY <2>2 DEF LockRecord, TypeOK, OpsOK, OpType
    <3> QED  BY <1>1, <2>1, <3>1 DEF CreatedInv, CreatedRooted
  <2>3. CASE ~LockRecord(v)
    <3>1. CASE GiveUp(v) \/ Return(v)
      BY <1>2, <3>1 DEF GiveUp, Return, Idle, TypeOK, OpsOK
    <3>2. CASE Sync(v)
      <4>1. op'[v].rec = op[v].rec /\ op'[v].base = op[v].base /\ Owing(v)
        BY <3>2 DEF Sync, Owing, TypeOK, OpsOK, OpType
      <4> QED  BY <1>1, <2>1, <4>1 DEF CreatedInv, BaseRooted
    <3>3. CASE ~(GiveUp(v) \/ Return(v) \/ Sync(v))
      <4>1. \E pc : op' = [op EXCEPT ![v].pc = pc]
        BY <1>4, <2>3, <3>3 DEF Advance, Decide, Authorize, Continue, Prove, Refuse,
                          Effect, WriteLine, FailWrite, Fail, Commit, Undo, FailUndo, Committed
      <4>2. op'[v].rec = op[v].rec /\ op'[v].base = op[v].base
        BY <4>1, PcMoved
      <4>3. Owing(v) \/ op[v].pc = "locked"
        BY <1>4, <2>3, <3>3 DEF Advance, Decide, Authorize, Continue, Prove, Refuse, Owing,
                          Effect, WriteLine, FailWrite, Fail, Commit, Undo, FailUndo, Committed, Durable
      <4> QED  BY <1>1, <2>1, <4>2, <4>3 DEF CreatedInv, BaseRooted
    <3> QED  BY <3>1, <3>2, <3>3
  <2> QED  BY <2>2, <2>3
<1> QED  BY <1>3, <1>4

\* Between a sync and the return nobody else writes the record.
LEMMA SyncedNext ==
  ASSUME TypeOK, TraceInv, CreatedInv, [Next]_vars
  PROVE  SyncedOnDisk'
<1>1. SUFFICES ASSUME NEW v \in Thread, op'[v].pc = "synced"
               PROVE  disk'[op'[v].rec] = rec'[op'[v].rec]
  BY DEF SyncedOnDisk
<1>2. CASE ~Advance(v)
  <2>1. /\ op'[v] = op[v] /\ rec'[op[v].rec] = rec[op[v].rec]
        /\ disk'[op[v].rec] = disk[op[v].rec]
    BY <1>1, <1>2, LockedAlone DEF Locking
  <2> QED  BY <1>1, <2>1 DEF CreatedInv, SyncedOnDisk
<1>3. CASE Advance(v)
  <2>1. Sync(v)
    <3>1. ASSUME NEW pc, op' = [op EXCEPT ![v].pc = pc] PROVE pc = "synced"
      BY <1>1, <3>1, PcMoved
    <3>2. ~(LockRecord(v) \/ GiveUp(v) \/ Return(v))
      BY <1>1 DEF LockRecord, GiveUp, Return, Idle, TypeOK, OpsOK, OpType
    <3>3. ~(Authorize(v) \/ Continue(v) \/ Prove(v) \/ Refuse(v))
      BY <3>1 DEF Authorize, Continue, Prove, Refuse
    <3>4. ~(WriteLine(v) \/ FailWrite(v) \/ Fail(v) \/ Commit(v) \/ Undo(v) \/ FailUndo(v))
      BY <3>1 DEF WriteLine, FailWrite, Fail, Commit, Undo, FailUndo, Committed
    <3> QED  BY <1>3, <3>2, <3>3, <3>4 DEF Advance, Decide, Effect
  <2>2. /\ op'[v].rec = op[v].rec /\ op[v].rec \in Record
        /\ rec' = rec /\ disk' = [disk EXCEPT ![op[v].rec] = rec[op[v].rec]]
    BY <2>1 DEF Sync, TypeOK, OpsOK, OpType, Busy
  <2> QED  BY <2>2 DEF TypeOK, FilesOK
<1> QED  BY <1>2, <1>3

\* Initially nothing was created.
LEMMA CreatedInit == Init => CreatedInv
  BY DEF Init, CreatedInv, OneCreated, CreatedRooted, BaseRooted, SyncedOnDisk, Idle

\* Every step keeps the one creation of each task.
LEMMA CreatedNext ==
  /\ TypeOK /\ HeldInv /\ TraceInv /\ LineInv /\ GrownInv /\ SoleInv /\ CreatedInv
  /\ [Next]_vars
  => CreatedInv'
<1> SUFFICES ASSUME TypeOK, HeldInv, TraceInv, LineInv, GrownInv, SoleInv, CreatedInv, [Next]_vars
             PROVE  CreatedInv'
  OBVIOUS
<1>1. BaseRooted' /\ SyncedOnDisk'
  BY BaseRootedNext, SyncedNext
<1>2. CASE created' = created
  BY <1>1, <1>2, RootsStay DEF CreatedInv, OneCreated, CreatedRooted
<1>3. CASE created' # created
  <2>1. PICK w \in Thread :
          /\ Commit(w) /\ op[w].kind = "root" /\ op[w].pc = "synced"
          /\ created' = [created EXCEPT ![TaskOf(w)] = @ \cup {op[w].rec}]
    BY <1>3, CreatedStep
  <2>2. /\ \A q \in created[TaskOf(w)] : q = op[w].rec
        /\ Rooted(rec[op[w].rec].log, TaskOf(w)) /\ Rooted(disk[op[w].rec].log, TaskOf(w))
        /\ TaskOf(w) \in Task /\ op[w].rec \in Record
    BY <2>1, CreationIsFirst
  <2>3. rec' = rec /\ disk' = disk
    BY <2>1 DEF Commit
  <2>4. /\ created'[TaskOf(w)] = created[TaskOf(w)] \cup {op[w].rec}
        /\ \A t \in Task \ {TaskOf(w)} : created'[t] = created[t]
    BY <2>1, <2>2 DEF TypeOK, FilesOK
  <2>5. OneCreated'
    BY <2>2, <2>4 DEF CreatedInv, OneCreated
  <2>6. CreatedRooted'
    BY <2>2, <2>3, <2>4 DEF CreatedInv, CreatedRooted
  <2> QED  BY <1>1, <2>5, <2>6 DEF CreatedInv
<1> QED  BY <1>2, <1>3

\* Of all the creations of one task that ever returned, in any record, one
\* succeeded; and a task that two records claim is worked on by nobody.
THEOREM OneRootEver == Spec => []OneRoot
<1>1. TypeOK /\ SoleInv /\ CreatedInv => OneRoot
  <2> SUFFICES ASSUME TypeOK, SoleInv, CreatedInv PROVE OneRoot
    OBVIOUS
  <2>1. ASSUME NEW t \in Task PROVE Cardinality(created[t]) <= 1
    <3>1. CASE created[t] = {}
      <4>1. Cardinality(created[t]) = 0
        BY <3>1, FS_EmptySet
      <4> QED  BY <4>1
    <3>2. CASE created[t] # {}
      <4>1. PICK q \in created[t] : TRUE
        BY <3>2
      <4>2. \A r \in created[t] : r = q
        BY DEF CreatedInv, OneCreated
      <4>3. created[t] = {q}
        BY <4>2
      <4>4. Cardinality(created[t]) = 1
        BY <4>3, FS_Singleton
      <4> QED  BY <4>4
    <3> QED  BY <3>1, <3>2
  <2>2. ASSUME NEW t \in Task, NEW r \in Record, NEW q \in Record, r # q,
               t \in Claims(rec[r]), t \in Claims(rec[q]), NEW p \in Proc,
               lease[p].st \in {"live", "closing"}
        PROVE  lease[p].task # t
    BY <2>2 DEF SoleInv
  <2> QED  BY <2>1, <2>2 DEF OneRoot
<1> QED  BY <1>1, SoleInit, SoleNext, CreatedInit, CreatedNext, LineInit, LineNext, GrownInit,
            GrownNext, HeldInit, HeldNext, TraceInit, TraceNext, TypeCorrect, PTL DEF Spec

-----------------------------------------------------------------------------
(* The ledger implements TaskLedger.                                       *)

\* The beginning of a record, and what begins it.
LEMMA FirstOf ==
  ASSUME NEW s \in Seq(Event), NEW n \in 0..Len(s)
  PROVE  /\ SubSeq(s, 1, n) \in Seq(Event) /\ Len(SubSeq(s, 1, n)) = n
         /\ Begins(SubSeq(s, 1, n), s)
<1>1. 0 \in Nat /\ n \in Nat /\ 0 <= n /\ n <= Len(s) /\ 0 + 1 = 1 /\ n - 0 = n
  BY LenProperties
<1>2. /\ SubSeq(s, 0 + 1, n) \in Seq(Event) /\ Len(SubSeq(s, 0 + 1, n)) = n - 0
      /\ \A i \in 1..n - 0 : SubSeq(s, 0 + 1, n)[i] = s[0 + i]
  BY <1>1, RestOf
<1>3. \A i \in 1..n : 0 + i = i
  BY <1>1
<1> QED  BY <1>1, <1>2, <1>3 DEF Begins

LEMMA FirstIs ==
  ASSUME NEW a \in Seq(Event), NEW s \in Seq(Event), Begins(a, s)
  PROVE  SubSeq(s, 1, Len(a)) = a
<1>1. Len(a) \in 0..Len(s) /\ Len(s) \in Nat
  BY LenProperties DEF Begins
<1> DEFINE b == SubSeq(s, 1, Len(a))
<1>2. b \in Seq(Event) /\ Len(b) = Len(a) /\ Begins(b, s)
  BY <1>1, FirstOf
<1> HIDE DEF b
<1>3. Begins(b, a)
  BY <1>2 DEF Begins
<1>4. b = a
  BY <1>2, <1>3, BeginsEqual
<1> QED  BY <1>4 DEF b

\* The promise's prefixes are these beginnings.
LEMMA PrefixIs ==
  ASSUME NEW a \in Seq(Event), NEW b \in Seq(Event), Begins(a, b)
  PROVE  Promise!IsPrefix(a, b)
<1>1. Len(a) <= Len(b) /\ Begins(a, a)
  BY BeginsFacts DEF Begins
<1>2. SubSeq(b, 1, Len(a)) = a /\ SubSeq(a, 1, Len(a)) = a
  BY <1>1, FirstIs
<1> QED  BY <1>1, <1>2 DEF Promise!IsPrefix

\* Its lineage is this one.
LEMMA PromisedLineage ==
  ASSUME NEW log, NEW t
  PROVE  /\ Promise!Turns(log, t) = Turns(log, t)
         /\ Promise!Established(log, t) = Established(log, t)
         /\ Promise!HolderOf(log, t) = HolderOf(log, t)
         /\ Promise!TipOf(log, t) = TipOf(log, t)
<1>1. Promise!Roots(log, t) = Roots(log, t) /\ Promise!Bounds(log, t) = Bounds(log, t)
  BY DEF Promise!Roots, Roots, Promise!Bounds, Bounds
<1>2. Promise!Turns(log, t) = Turns(log, t)
  BY <1>1 DEF Promise!Turns, Turns
<1>3. Promise!HolderOf(log, t) = HolderOf(log, t)
  BY <1>1 DEF Promise!HolderOf, HolderOf
<1>4. ASSUME NEW n PROVE Promise!TipAt(log, t, n) = TipAt(log, t, n)
  BY <1>2 DEF Promise!TipAt, TipAt, Promise!Latest, Latest
<1>5. Promise!TipOf(log, t) = TipOf(log, t)
  BY <1>4 DEF Promise!TipOf, TipOf
<1>6. Promise!Established(log, t) = Established(log, t)
  BY <1>1, <1>2, <1>3, <1>4 DEF Promise!Established, Established
<1> QED  BY <1>2, <1>3, <1>5, <1>6

LEMMA OwedContinues ==
  ASSUME NEW log, NEW e, Owed(log, e)
  PROVE  Promise!Continues(log, e)
BY PromisedLineage DEF Owed, Promise!Continues

\* The second event of a unit is owed once the first is written.
LEMMA SecondOwed ==
  ASSUME NEW log \in Seq(Event), NEW evs, Formed("unit", evs), Lineal(log), Owed(log, evs[1])
  PROVE  /\ evs[1] \in Event /\ evs[2] \in Event
         /\ Lineal(Append(log, evs[1])) /\ Owed(Append(log, evs[1]), evs[2])
<1> DEFINE one == Append(log, evs[1])
<1>1. evs \in Seq(Event) /\ Len(evs) = 2 /\ 1 \in 1..2 /\ 2 \in 1..2
  BY DEF Formed
<1>2. evs[1] \in Event /\ evs[2] \in Event
  BY <1>1, ElementOfSeq
<1>3. /\ evs[2].ok /\ evs[2].task = evs[1].task /\ evs[2].sess = evs[1].sess
      /\ evs[2].kind \notin {"root", "bound"}
      /\ evs[1].task # NoTask /\ evs[1].kind \notin {"root", "bound"}
  BY DEF Formed
<1>4. Established(log, evs[1].task) /\ evs[1].sess = TipOf(log, evs[1].task)
  BY <1>3 DEF Owed
<1>5. Lineal(one)
  BY <1>2, LinealMore
<1>6. TipOf(one, evs[1].task) = TipOf(log, evs[1].task)
  BY <1>3, <1>2, TipMore
<1>7. Turns(one, evs[1].task) # {}
  <2>1. Roots(log, evs[1].task) # {}
    BY <1>4 DEF Established
  <2>2. Roots(log, evs[1].task) \subseteq Roots(one, evs[1].task)
    BY <1>2, OneMore
  <2> QED  BY <2>1, <2>2 DEF Turns
<1>8. evs[1].task \in Task
  BY <1>2, <1>3 DEF Event
<1>9. Established(one, evs[1].task)
  BY <1>5, <1>7, <1>8 DEF Lineal
<1> QED  BY <1>2, <1>3, <1>4, <1>5, <1>6, <1>9 DEF Owed

\* What an operation's write leaves is nothing, or grows the record as the
\* promise allows, for the operation's task alone.
LEMMA GrownIs ==
  ASSUME NEW base \in Seq(Event), NEW log \in Seq(Event), NEW k, NEW evs, Formed(k, evs),
         Lineal(base), Owed(base, evs[1]), Begins(base, log), Begins(log, base \o evs),
         log # base
  PROVE  /\ Promise!Grown(base, log)
         /\ Promise!Added(base, log) = {evs[1].task} \ {NoTask}
<1> DEFINE n == Len(base)
           all == base \o evs
<1>1. /\ evs \in Seq(Event) /\ Len(evs) \in {1, 2} /\ (Len(evs) = 2 <=> k = "unit")
      /\ k = "unit" => evs[2].task = evs[1].task
  BY DEF Formed
<1>2. /\ all \in Seq(Event) /\ Len(all) = n + Len(evs)
      /\ \A i \in 1..Len(evs) : all[n + i] = evs[i]
  BY <1>1, BeginsFacts
<1>3. n \in Nat /\ Len(log) \in Nat /\ n <= Len(log) /\ Len(log) <= n + Len(evs)
  BY <1>2, LenProperties DEF Begins
<1>4. Len(log) # n
  BY BeginsEqual
<1>5. \A i \in 1..Len(log) : log[i] = all[i]
  BY DEF Begins
<1> HIDE DEF n, all
<1>6. /\ Len(log) \in {n + 1, n + 2}
      /\ log[n + 1] = evs[1]
      /\ Len(log) = n + 2 => Len(evs) = 2 /\ log[n + 2] = evs[2]
  BY <1>1, <1>2, <1>3, <1>4, <1>5
<1>7. SubSeq(log, 1, n) = base
  BY FirstIs DEF n
<1>8. Promise!Continues(base, evs[1])
  BY OwedContinues
<1>9. ASSUME Len(log) = n + 2
      PROVE  Promise!Continues(SubSeq(log, 1, n + 1), evs[2])
  <2> DEFINE one == Append(base, evs[1])
  <2>1. k = "unit" /\ evs[1] \in Event /\ Owed(one, evs[2])
    BY <1>1, <1>6, <1>9, SecondOwed
  <2>2. /\ one \in Seq(Event) /\ Len(one) = n + 1 /\ one[n + 1] = evs[1]
        /\ \A i \in 1..n : one[i] = base[i]
    BY <2>1, OneMore DEF n
  <2> HIDE DEF one
  <2>3. \A i \in 1..n : base[i] = log[i]
    BY DEF Begins, n
  <2>4. Begins(one, log)
    BY <1>3, <1>6, <1>9, <2>2, <2>3 DEF Begins
  <2>5. SubSeq(log, 1, n + 1) = one
    BY <2>2, <2>4, FirstIs
  <2> QED  BY <2>1, <2>5, OwedContinues
<1>10. Promise!Grown(base, log)
  <2>1. Promise!IsPrefix(base, log)
    BY PrefixIs
  <2>2. Len(log) - n \in 1..2
    BY <1>3, <1>6
  <2>3. ASSUME NEW i \in n + 1 .. Len(log)
        PROVE  Promise!Continues(SubSeq(log, 1, i - 1), log[i])
    <3>1. CASE i = n + 1
      <4>1. i - 1 = n
        BY <1>3, <3>1
      <4> QED  BY <3>1, <4>1, <1>6, <1>7, <1>8
    <3>2. CASE i = n + 2
      <4>1. i - 1 = n + 1 /\ Len(log) = n + 2
        BY <1>3, <1>6, <3>2
      <4> QED  BY <3>2, <4>1, <1>6, <1>9
    <3> QED  BY <1>3, <1>6, <3>1, <3>2
  <2> QED  BY <2>1, <2>2, <2>3 DEF Promise!Grown, n
<1>11. Promise!Added(base, log) = {evs[1].task} \ {NoTask}
  <2>1. \A i \in n + 1 .. Len(log) : log[i].task = evs[1].task
    BY <1>1, <1>3, <1>6
  <2>2. n + 1 \in n + 1 .. Len(log)
    BY <1>3, <1>6
  <2> QED  BY <2>1, <2>2 DEF Promise!Added, n
<1> QED  BY <1>10, <1>11

\* Where a history h may fall back to and keep its first m events: to a
\* beginning of it, with the events of one operation after that at most.
FallsTo(h, m, log) ==
  \E n \in m..Len(h) : LET kept == SubSeq(h, 1, n) IN log = kept \/ Promise!Grown(kept, log)

\* To each longer beginning, and to itself with an operation more.
LEMMA FallsBegins ==
  ASSUME NEW h \in Seq(Event), NEW m \in Nat, NEW log \in Seq(Event), Begins(log, h), m <= Len(log)
  PROVE  FallsTo(h, m, log)
<1>1. Len(log) \in m..Len(h)
  BY LenProperties DEF Begins
<1>2. SubSeq(h, 1, Len(log)) = log
  BY FirstIs
<1> QED  BY <1>1, <1>2 DEF FallsTo

LEMMA FallsGrown ==
  ASSUME NEW h \in Seq(Event), NEW m \in Nat, NEW log, m <= Len(h), Promise!Grown(h, log)
  PROVE  FallsTo(h, m, log)
<1>1. Len(h) \in m..Len(h)
  BY LenProperties
<1>2. SubSeq(h, 1, Len(h)) = h
  BY BeginsFacts, FirstIs
<1> QED  BY <1>1, <1>2 DEF FallsTo

\* A history that grows may still fall back to where it might.
LEMMA FallsMore ==
  ASSUME NEW h \in Seq(Event), NEW g \in Seq(Event), Begins(h, g), NEW m \in Nat, NEW log,
         FallsTo(h, m, log)
  PROVE  FallsTo(g, m, log)
<1>1. PICK n \in m..Len(h) : log = SubSeq(h, 1, n) \/ Promise!Grown(SubSeq(h, 1, n), log)
  BY DEF FallsTo
<1>2. Len(h) \in Nat /\ Len(g) \in Nat /\ Len(h) <= Len(g) /\ n \in 0..Len(h) /\ n \in m..Len(g)
  BY <1>1, LenProperties DEF Begins
<1> DEFINE p == SubSeq(h, 1, n)
<1>3. p \in Seq(Event) /\ Len(p) = n /\ Begins(p, h)
  BY <1>2, FirstOf
<1> HIDE DEF p
<1>4. Begins(p, g)
  BY <1>2, <1>3 DEF Begins
<1>5. SubSeq(g, 1, n) = p
  BY <1>3, <1>4, FirstIs
<1> QED  BY <1>1, <1>2, <1>5 DEF FallsTo, p

\* What is kept is kept.
LEMMA FallsKeeps ==
  ASSUME NEW h \in Seq(Event), NEW m \in Nat, NEW log \in Seq(Event), FallsTo(h, m, log)
  PROVE  m <= Len(h) /\ m <= Len(log)
<1>1. PICK n \in m..Len(h) : log = SubSeq(h, 1, n) \/ Promise!Grown(SubSeq(h, 1, n), log)
  BY DEF FallsTo
<1>2. n \in 0..Len(h) /\ Len(h) \in Nat /\ Len(log) \in Nat
  BY <1>1, LenProperties
<1>3. Len(SubSeq(h, 1, n)) = n
  BY <1>2, FirstOf
<1>4. n <= Len(log)
  BY <1>1, <1>2, <1>3 DEF Promise!Grown, Promise!IsPrefix
<1> QED  BY <1>1, <1>2, <1>4

\* The operation has written and is not yet settled.
Underway(w) == op[w].pc \in {"written", "synced", "undoing"}

\* Who owns a record's lock is past lockRecord of that record.
LockOwned == \A r \in Record, w \in Thread : recLock[r] = w => Locking(w) /\ op[w].rec = r

\* What an operation synced is on stable storage until it is settled.
SyncedStands ==
  \A w \in Thread :
    /\ op[w].pc = "synced" => op[w].synced
    /\ op[w].synced => /\ op[w].pc \in {"synced", "undoing", "returning", "refused", "unknown"}
                       /\ op[w].pc \in {"synced", "undoing"} => disk[op[w].rec] = rec[op[w].rec]

LEMMA OwnedInit == Init => LockOwned /\ SyncedStands
BY LedgerAssumption DEF Init, LockOwned, SyncedStands, Idle

\* A step of another leaves an operation and its locks alone, or ends it.
LEMMA LockOwnedNext == TypeOK /\ TraceInv /\ LockOwned /\ [Next]_vars => LockOwned'
<1> SUFFICES ASSUME TypeOK, TraceInv, LockOwned, [Next]_vars PROVE LockOwned'
  OBVIOUS
<1>0. ASSUME op' = op, \A r \in Record : recLock'[r] \in Thread => recLock'[r] = recLock[r]
      PROVE  LockOwned'
  BY <1>0 DEF LockOwned, Locking
<1>1. ASSUME NEW w \in Thread, Ask(w) PROVE LockOwned'
  <2>1. op[w].pc = "idle" /\ recLock' = recLock /\ \A v \in Thread \ {w} : op'[v] = op[v]
    BY <1>1 DEF Ask, Begin, BeginDiagnostic, Busy, TypeOK, OpsOK
  <2> QED  BY <2>1 DEF LockOwned, Locking
<1>2. ASSUME NEW w \in Thread, LockRecord(w) PROVE LockOwned'
  <2>1. /\ op[w].pc = "guarded" /\ recLock' = [recLock EXCEPT ![op[w].rec] = w]
        /\ op'[w].pc = "locked" /\ op'[w].rec = op[w].rec /\ \A v \in Thread \ {w} : op'[v] = op[v]
    BY <1>2 DEF LockRecord, TypeOK, OpsOK, OpType
  <2> QED  BY <2>1 DEF LockOwned, Locking, TypeOK, OpsOK
<1>3. ASSUME NEW w \in Thread, GiveUp(w) PROVE LockOwned'
  <2>1. op[w].pc = "guarded" /\ recLock' = recLock /\ \A v \in Thread \ {w} : op'[v] = op[v]
    BY <1>3 DEF GiveUp, TypeOK, OpsOK
  <2> QED  BY <2>1 DEF LockOwned, Locking
<1>4. ASSUME NEW w \in Thread, Return(w) PROVE LockOwned'
  <2>1. /\ recLock' = [recLock EXCEPT ![op[w].rec] = None] /\ Locking(w) /\ Busy(w)
        /\ \A v \in Thread \ {w} : op'[v] = op[v]
    BY <1>4 DEF Return, Locking, Busy, TypeOK, OpsOK
  <2>2. \A v \in Thread : v # None
    BY LedgerAssumption
  <2>3. \A r \in Record, v \in Thread : recLock'[r] = v => recLock[r] = v /\ r # op[w].rec
    BY <2>1, <2>2 DEF TypeOK, OpsOK
  <2> QED  BY <2>1, <2>3 DEF LockOwned, Locking
<1>5. ASSUME NEW w \in Thread, \/ Authorize(w) \/ Continue(w) \/ Prove(w) \/ Refuse(w)
                               \/ WriteLine(w) \/ FailWrite(w) \/ Sync(w) \/ Fail(w)
                               \/ Commit(w) \/ Undo(w) \/ FailUndo(w)
      PROVE  LockOwned'
  <2>1. recLock' = recLock
    BY <1>5 DEF Authorize, Continue, Prove, Refuse, WriteLine, FailWrite, Sync, Fail, Commit, Undo, FailUndo
  <2>2. /\ op'[w].pc \notin {"idle", "guarded"} /\ op'[w].rec = op[w].rec
        /\ \A v \in Thread \ {w} : op'[v] = op[v]
    <3>1. CASE \E pc \in {"proving", "writing", "written", "undoing", "returning", "refused", "unknown"} :
                 op' = [op EXCEPT ![w].pc = pc]
      BY <3>1, PcMoved
    <3>2. CASE op' = [op EXCEPT ![w].pc = "synced", ![w].synced = TRUE]
      BY <3>2 DEF TypeOK, OpsOK, OpType
    <3> QED
      BY <3>1, <3>2, <1>5 DEF Authorize, Continue, Prove, Refuse, WriteLine, FailWrite, Sync, Fail,
                              Commit, Undo, FailUndo, Committed
  <2> QED  BY <2>1, <2>2 DEF LockOwned, Locking
<1>6. ASSUME NEW p \in Proc, \/ \E t \in Task, r \in Record : Acquire(p, t, r)
                             \/ Holder(p) \/ Close(p)
      PROVE  LockOwned'
  BY <1>0, <1>6 DEF Acquire, Holder, Admit, Reject, Close, End, Free
<1>7. ASSUME NEW p \in Proc, Crash(p) PROVE LockOwned'
  <2>1. \A w \in Thread : ProcOf[w] # p => op'[w] = op[w]
    BY <1>7 DEF Crash
  <2>2. \A r \in Record, w \in Thread : recLock'[r] = w => recLock[r] = w /\ ProcOf[w] # p
    BY <1>7, LedgerAssumption DEF Crash
  <2> QED  BY <2>1, <2>2 DEF LockOwned, Locking
<1>8. CASE PowerLoss
  BY <1>8, LedgerAssumption DEF PowerLoss, LockOwned
<1>9. CASE Activate
  <2>1. op' = op
    BY <1>9 DEF Activate, Examine, LeaseClaim, LockTorn, Publish, SyncManifest, Leave
  <2>2. recLock' = recLock \/ LockTorn \/ Leave
    BY <1>9 DEF Activate, Examine, LeaseClaim, Publish, SyncManifest
  <2>3. \A r \in Record : recLock'[r] \in Thread => recLock'[r] = recLock[r]
    BY <2>2, LedgerAssumption DEF LockTorn, Leave, TypeOK, OpsOK
  <2> QED  BY <1>0, <2>1, <2>3
<1>10. CASE UNCHANGED vars
  BY <1>0, <1>10 DEF vars
<1> QED  BY <1>1, <1>2, <1>3, <1>4, <1>5, <1>6, <1>7, <1>8, <1>9, <1>10
         DEF Next, Advance, Decide, Effect

\* An operation starts with nothing synced, and so does what has ended.
LEMMA StartsUnsynced ==
  ASSUME TypeOK, [Next]_vars, NEW w \in Thread, ~Advance(w)
  PROVE  op'[w] = op[w] \/ (op'[w].pc \in {"idle", "guarded"} /\ ~op'[w].synced)
<1>1. ASSUME NEW v \in Thread, Ask(v)
      PROVE  op'[w] = op[w] \/ (op'[w].pc \in {"idle", "guarded"} /\ ~op'[w].synced)
  <2>1. \E k, r, evs :
          op' = [op EXCEPT ![v] = [Idle EXCEPT !.pc = "guarded", !.kind = k, !.rec = r, !.evs = evs]]
    BY <1>1 DEF Ask, Begin, BeginDiagnostic
  <2>2. PICK k, r, evs :
          op' = [op EXCEPT ![v] = [Idle EXCEPT !.pc = "guarded", !.kind = k, !.rec = r, !.evs = evs]]
    BY <2>1
  <2> QED  BY <2>2 DEF Idle, TypeOK, OpsOK
<1>2. ASSUME NEW v \in Thread, v # w, Advance(v) PROVE op'[w] = op[w]
  <2>1. CASE Decide(v)
    BY <1>2, <2>1 DEF Decide, LockRecord, GiveUp, Authorize, Continue, Prove, Refuse, TypeOK, OpsOK
  <2>2. CASE Effect(v)
    BY <1>2, <2>2 DEF Effect, WriteLine, FailWrite, Sync, Fail, Commit, Undo, FailUndo, Committed,
                      Return, TypeOK, OpsOK
  <2> QED  BY <1>2, <2>1, <2>2 DEF Advance
<1>3. ASSUME NEW p \in Proc, \/ \E t \in Task, r \in Record : Acquire(p, t, r)
                             \/ Holder(p) \/ Close(p)
      PROVE  op' = op
  BY <1>3 DEF Acquire, Holder, Admit, Reject, Close, End, Free
<1>4. ASSUME (\E p \in Proc : Crash(p)) \/ PowerLoss PROVE op'[w] = op[w] \/ op'[w] = Idle
  BY <1>4 DEF Crash, PowerLoss
<1>5. ASSUME Activate \/ UNCHANGED vars PROVE op' = op
  BY <1>5 DEF Activate, Examine, LeaseClaim, LockTorn, Publish, SyncManifest, Leave, vars
<1> QED  BY <1>1, <1>2, <1>3, <1>4, <1>5 DEF Next, Idle

\* Whatever fails between a sync and the end of its operation, the disk has it.
LEMMA SyncedStandsNext == TypeOK /\ TraceInv /\ SyncedStands /\ [Next]_vars => SyncedStands'
<1> SUFFICES ASSUME TypeOK, TraceInv, SyncedStands, [Next]_vars, NEW w \in Thread
             PROVE  /\ op'[w].pc = "synced" => op'[w].synced
                    /\ op'[w].synced =>
                         /\ op'[w].pc \in {"synced", "undoing", "returning", "refused", "unknown"}
                         /\ op'[w].pc \in {"synced", "undoing"} => disk'[op'[w].rec] = rec'[op'[w].rec]
  BY DEF SyncedStands
<1>1. CASE ~Advance(w) /\ op'[w].pc \in {"idle", "guarded"} /\ ~op'[w].synced
  BY <1>1
<1>2. CASE ~Advance(w) /\ op'[w] = op[w]
  <2>1. Locking(w) => /\ rec'[op[w].rec] = rec[op[w].rec]
                      /\ disk'[op[w].rec] = disk[op[w].rec]
    BY <1>2, LockedAlone DEF Locking
  <2> QED  BY <1>2, <2>1 DEF SyncedStands, Locking
<1>3. ASSUME Authorize(w) \/ Continue(w) \/ Prove(w) \/ Refuse(w) \/ LockRecord(w) \/ GiveUp(w)
      PROVE  ~op'[w].synced /\ op'[w].pc # "synced"
  <2>1. ~op[w].synced
    BY <1>3 DEF SyncedStands, Authorize, Continue, Prove, Refuse, LockRecord, GiveUp
  <2>2. \/ \E pc \in {"writing", "proving", "returning", "refused"} : op' = [op EXCEPT ![w].pc = pc]
        \/ op' = [op EXCEPT ![w].pc = "locked", ![w].base = rec[op[w].rec]]
        \/ op' = [op EXCEPT ![w] = Idle]
    BY <1>3 DEF Authorize, Continue, Prove, Refuse, LockRecord, GiveUp
  <2> QED  BY <2>1, <2>2 DEF TypeOK, OpsOK, OpType, Idle
<1>4. CASE WriteLine(w) \/ FailWrite(w) \/ Commit(w) \/ Undo(w) \/ FailUndo(w) \/ Fail(w)
  <2>1. PICK pc \in {"written", "undoing", "returning", "refused", "unknown"} :
          op' = [op EXCEPT ![w].pc = pc]
    BY <1>4 DEF WriteLine, FailWrite, Commit, Undo, FailUndo, Fail, Committed
  <2>2. op'[w].pc = pc /\ op'[w].synced = op[w].synced /\ op'[w].rec = op[w].rec
    BY <2>1, PcMoved
  <2>3. CASE op[w].pc = "writing"
    BY <2>2, <2>3 DEF SyncedStands
  <2>4. CASE op[w].pc # "writing" /\ pc \in {"returning", "refused", "unknown"}
    BY <2>2, <2>4
  <2>5. CASE op[w].pc # "writing" /\ pc \in {"written", "undoing"}
    <3>1. Fail(w)
      <4>1. ASSUME Commit(w) \/ Undo(w) \/ FailUndo(w) PROVE FALSE
        <5>1. PICK c \in {"returning", "refused", "unknown"} : op' = [op EXCEPT ![w].pc = c]
          BY <4>1 DEF Commit, Undo, FailUndo, Committed
        <5>2. op'[w].pc = c
          BY <5>1, PcMoved
        <5> QED  BY <5>1, <5>2, <2>2, <2>5
      <4> QED  BY <4>1, <1>4, <2>5 DEF WriteLine, FailWrite
    <3>2. pc = "undoing" /\ op[w].pc \in {"written", "synced"} /\ Busy(w)
      <4>1. op' = [op EXCEPT ![w].pc = "undoing"] /\ op[w].pc \in {"written", "synced"}
        BY <3>1 DEF Fail
      <4>2. op'[w].pc = "undoing"
        BY <4>1, PcMoved
      <4> QED  BY <4>1, <4>2, <2>2 DEF Busy
    <3>3. op[w].rec \in Record
      BY <3>2, RunningType
    <3>4. op[w].synced => disk[op[w].rec] = rec[op[w].rec]
      BY <3>2 DEF SyncedStands
    <3>5. op[w].synced => disk'[op[w].rec] = rec'[op[w].rec]
      BY <3>1, <3>3, <3>4 DEF Fail, TypeOK, FilesOK
    <3> QED  BY <2>2, <3>2, <3>5
  <2> QED  BY <2>3, <2>4, <2>5
<1>5. CASE Sync(w)
  <2>1. op[w].rec \in Record
    BY <1>5, RunningType DEF Sync, Busy
  <2> QED  BY <1>5, <2>1 DEF Sync, TypeOK, OpsOK, OpType, FilesOK
<1>6. CASE Return(w)
  BY <1>6 DEF Return, Idle, TypeOK, OpsOK
<1> QED  BY <1>1, <1>2, <1>3, <1>4, <1>5, <1>6, StartsUnsynced DEF Advance, Decide, Effect

\* The settled events of each record: while an operation of it is under way,
\* those it locked, and otherwise those that are seen.
SettledAt ==
  \A r \in Record :
    /\ \A w \in Thread : Underway(w) /\ op[w].rec = r => SettledLog(r) = op[w].base.log
    /\ (\A w \in Thread : Underway(w) => op[w].rec # r) => SettledLog(r) = rec[r].log
    /\ SettledLog(r) \in Seq(Event)

LEMMA SettledIs == TypeOK /\ TraceInv /\ LockOwned => SettledAt
<1> SUFFICES ASSUME TypeOK, TraceInv, LockOwned, NEW r \in Record
             PROVE  /\ \A w \in Thread : Underway(w) /\ op[w].rec = r => SettledLog(r) = op[w].base.log
                    /\ (\A w \in Thread : Underway(w) => op[w].rec # r) => SettledLog(r) = rec[r].log
                    /\ SettledLog(r) \in Seq(Event)
  BY DEF SettledAt
<1>1. \A w \in Thread : Unsettled(r, w) <=> Underway(w) /\ op[w].rec = r
  BY DEF Unsettled, Underway, TraceInv, RecordHeld, LockOwned, Locking
<1>2. \A v, w \in Thread : Unsettled(r, v) /\ Unsettled(r, w) => v = w
  BY DEF Unsettled
<1>3. ASSUME NEW w \in Thread, Unsettled(r, w)
      PROVE  SettledLog(r) = op[w].base.log /\ op[w].base.log \in Seq(Event)
  <2>1. SettledLog(r) = op[w].base.log
    BY <1>2, <1>3 DEF SettledLog
  <2>2. op[w].base \in Content
    BY DEF TypeOK, OpsOK, OpType
  <2> QED  BY <2>1, <2>2 DEF Content
<1>4. (\A w \in Thread : ~Unsettled(r, w)) => SettledLog(r) = rec[r].log
  BY DEF SettledLog
<1>5. rec[r].log \in Seq(Event)
  BY DEF TypeOK, FilesOK, Content
<1> QED  BY <1>1, <1>3, <1>4, <1>5

\* A step that leaves the records as they are and every operation under way, if
\* it is, settles nothing.
LEMMA SettledSame ==
  ASSUME SettledAt, SettledAt', rec' = rec,
         \A v \in Thread : \/ op'[v] = op[v]
                           \/ ~Underway(v) /\ op'[v].pc \notin {"written", "synced", "undoing"}
  PROVE  \A r \in Record : SettledLog(r)' = SettledLog(r)
<1> SUFFICES ASSUME NEW r \in Record PROVE SettledLog(r)' = SettledLog(r)
  OBVIOUS
<1>1. CASE \E v \in Thread : Underway(v) /\ op[v].rec = r
  <2>1. PICK v \in Thread : Underway(v) /\ op[v].rec = r
    BY <1>1
  <2>2. op'[v] = op[v] /\ Underway(v)'
    BY <2>1 DEF Underway
  <2> QED  BY <2>1, <2>2 DEF SettledAt
<1>2. CASE \A v \in Thread : Underway(v) => op[v].rec # r
  <2>1. \A v \in Thread : Underway(v)' => op'[v].rec # r
    BY <1>2 DEF Underway
  <2> QED  BY <1>2, <2>1 DEF SettledAt
<1> QED  BY <1>1, <1>2

\* A step of one operation settles nothing elsewhere.
LEMMA SettledElsewhere ==
  ASSUME SettledAt, SettledAt', NEW w \in Thread, \A v \in Thread \ {w} : op'[v] = op[v],
         op'[w].pc # "idle" => op'[w].rec = op[w].rec,
         NEW q \in Record, q # op[w].rec, rec'[q] = rec[q]
  PROVE  SettledLog(q)' = SettledLog(q)
<1>1. CASE \E v \in Thread : Underway(v) /\ op[v].rec = q
  <2>1. PICK v \in Thread : Underway(v) /\ op[v].rec = q
    BY <1>1
  <2>2. op'[v] = op[v] /\ Underway(v)'
    BY <2>1 DEF Underway
  <2> QED  BY <2>1, <2>2 DEF SettledAt
<1>2. CASE \A v \in Thread : Underway(v) => op[v].rec # q
  <2>1. \A v \in Thread : Underway(v)' => op'[v].rec # q
    BY <1>2 DEF Underway
  <2> QED  BY <1>2, <2>1 DEF SettledAt
<1> QED  BY <1>1, <1>2

\* What an effect leaves of its operation.
LEMMA EffectMoves ==
  ASSUME TypeOK, NEW w \in Thread, Effect(w)
  PROVE  /\ op[w].pc \in {"writing", "written", "synced", "undoing", "returning", "refused", "unknown"}
         /\ Locking(w) /\ Busy(w) /\ op[w].rec \in Record
         /\ \A v \in Thread \ {w} : op'[v] = op[v]
         /\ op'[w].pc # "idle" => op'[w].rec = op[w].rec /\ op'[w].base = op[w].base
         /\ \A q \in Record \ {op[w].rec} : rec'[q] = rec[q] /\ disk'[q] = disk[q]
<1>1. op[w].pc \in {"writing", "written", "synced", "undoing", "returning", "refused", "unknown"}
  BY DEF Effect, WriteLine, FailWrite, Sync, Fail, Commit, Undo, FailUndo, Return, Durable
<1>2. Locking(w) /\ Busy(w) /\ op[w].rec \in Record
  BY <1>1, RunningType DEF Locking, Busy
<1>3. /\ \A v \in Thread \ {w} : op'[v] = op[v]
      /\ op'[w].pc # "idle" => op'[w].rec = op[w].rec /\ op'[w].base = op[w].base
  <2>1. CASE \E pc : op' = [op EXCEPT ![w].pc = pc]
    BY <2>1, PcMoved
  <2>2. CASE op' = [op EXCEPT ![w].pc = "synced", ![w].synced = TRUE] \/ op' = [op EXCEPT ![w] = Idle]
    BY <2>2 DEF TypeOK, OpsOK, OpType, Idle
  <2> QED  BY <2>1, <2>2 DEF Effect, WriteLine, FailWrite, Sync, Fail, Commit, Undo, FailUndo,
                             Committed, Return
<1>4. \A q \in Record \ {op[w].rec} : rec'[q] = rec[q]
  <2>1. rec' = rec \/ \E c : rec' = [rec EXCEPT ![op[w].rec] = c]
    BY DEF Effect, WriteLine, FailWrite, Sync, Fail, Commit, Undo, FailUndo, Return
  <2> QED  BY <2>1 DEF TypeOK, FilesOK
<1>5. \A q \in Record \ {op[w].rec} : disk'[q] = disk[q]
  <2>1. disk' = disk \/ \E c : disk' = [disk EXCEPT ![op[w].rec] = c]
    BY DEF Effect, WriteLine, FailWrite, Sync, Fail, Commit, Undo, FailUndo, Return
  <2> QED  BY <2>1 DEF TypeOK, FilesOK
<1> QED  BY <1>1, <1>2, <1>3, <1>4, <1>5

\* Who else is in an operation of the record has not written.
LEMMA WritesAlone ==
  ASSUME TraceInv, NEW w \in Thread, Locking(w), NEW v \in Thread \ {w}, Underway(v)
  PROVE  op[v].rec # op[w].rec
BY Exclusion DEF TraceInv, Underway, Locking

\* The effects that settle nothing.
LEMMA EffectQuiet ==
  ASSUME TypeOK, TraceInv, SettledAt, SettledAt', NEW w \in Thread, Effect(w),
         ~Commit(w), ~FailUndo(w)
  PROVE  acked' = acked /\ \A r \in Record : SettledLog(r)' = SettledLog(r)
<1> SUFFICES ASSUME NEW r \in Record, r = op[w].rec
             PROVE  acked' = acked /\ \A q \in Record : SettledLog(q)' = SettledLog(q)
  BY EffectMoves
<1>0. WriteLine(w) \/ FailWrite(w) \/ Sync(w) \/ Fail(w) \/ Undo(w) \/ Return(w)
  BY DEF Effect
<1>1. /\ Locking(w) /\ Busy(w) /\ r \in Record
      /\ \A v \in Thread \ {w} : op'[v] = op[v]
      /\ op'[w].pc # "idle" => op'[w].rec = op[w].rec /\ op'[w].base = op[w].base
      /\ \A q \in Record \ {r} : rec'[q] = rec[q]
  BY EffectMoves
<1>2. acked' = acked
  BY <1>0 DEF WriteLine, FailWrite, Sync, Fail, Undo, Return, history
<1>3. \A q \in Record \ {r} : SettledLog(q)' = SettledLog(q)
  BY <1>1, SettledElsewhere
<1>4. \A v \in Thread \ {w} : /\ Underway(v) => op[v].rec # r
                              /\ Underway(v)' => op'[v].rec # r
  BY <1>1, WritesAlone DEF Underway
<1>5. CASE op[w].pc = "writing"
  <2>1. WriteLine(w) \/ FailWrite(w)
    BY <1>0, <1>5 DEF Sync, Fail, Undo, Return
  <2>2. op'[w].pc \in {"written", "undoing"} /\ Underway(w)'
    BY <2>1, PcMoved DEF WriteLine, FailWrite, Underway
  <2>3. SettledLog(r)' = op[w].base.log
    BY <1>1, <2>2 DEF SettledAt
  <2>4. ~Underway(w) /\ rec[r] = op[w].base
    BY <1>5 DEF Underway, TraceInv, BaseKept, Untouched
  <2>5. SettledLog(r) = op[w].base.log
    BY <1>1, <1>4, <2>4 DEF SettledAt
  <2> QED  BY <1>2, <1>3, <2>3, <2>5
<1>6. CASE Sync(w) \/ Fail(w)
  <2>1. Underway(w)
    BY <1>6 DEF Sync, Fail, Underway
  <2>2. op'[w].pc \in {"synced", "undoing"}
    <3>1. CASE Sync(w)
      BY <3>1 DEF Sync, TypeOK, OpsOK, OpType
    <3>2. CASE Fail(w)
      BY <3>2, PcMoved DEF Fail
    <3> QED  BY <3>1, <3>2, <1>6
  <2>3. Underway(w)'
    BY <2>2 DEF Underway
  <2>4. SettledLog(r) = op[w].base.log /\ SettledLog(r)' = op[w].base.log
    BY <1>1, <2>1, <2>2, <2>3 DEF SettledAt
  <2> QED  BY <1>2, <1>3, <2>4
<1>7. CASE Undo(w)
  <2>1. Underway(w) /\ rec'[r] = op[w].base
    BY <1>1, <1>7 DEF Undo, Underway, TypeOK, FilesOK
  <2>2. op'[w].pc = "refused"
    BY <1>7, PcMoved DEF Undo
  <2>3. ~Underway(w)'
    BY <2>2 DEF Underway
  <2>4. SettledLog(r) = op[w].base.log /\ SettledLog(r)' = op[w].base.log
    BY <1>1, <1>4, <2>1, <2>3 DEF SettledAt
  <2> QED  BY <1>2, <1>3, <2>4
<1>8. CASE Return(w)
  <2>1. rec' = rec /\ ~Underway(w) /\ op'[w] = Idle
    BY <1>8 DEF Return, Underway, TypeOK, OpsOK
  <2>2. ~Underway(w)'
    BY <2>1 DEF Underway, Idle
  <2>3. SettledLog(r) = rec[r].log /\ SettledLog(r)' = rec[r].log
    BY <1>1, <1>4, <2>1, <2>2 DEF SettledAt
  <2> QED  BY <1>2, <1>3, <2>3
<1>9. WriteLine(w) \/ FailWrite(w) => op[w].pc = "writing"
  BY DEF WriteLine, FailWrite
<1> QED  BY <1>0, <1>5, <1>6, <1>7, <1>8, <1>9

\* A binding that reads back is in the record, which its undo left alone.
LEMMA BoundIsThere ==
  ASSUME TypeOK, LineInv, NEW w \in Thread, op[w].pc = "undoing", NEW c \in Content,
         BoundAsRead(w, c)
  PROVE  c.log # op[w].base.log
<1> DEFINE log == op[w].base.log
           e == op[w].evs[1]
<1>1. Busy(w) /\ Owing(w) /\ op[w].kind = "bind"
  BY DEF Busy, Owing, BoundAsRead
<1>2. log \in Seq(Event) /\ Formed(op[w].kind, op[w].evs) /\ Owed(log, e)
  BY <1>1, RunningType DEF LineInv, Content
<1>3. e.kind = "bound" /\ e.task # NoTask
  BY <1>1, <1>2 DEF Formed
<1>4. Established(log, e.task) /\ \A i \in Turns(log, e.task) : log[i].sess # e.sess
  BY <1>2, <1>3 DEF Owed
<1>5. Turns(log, e.task) # {} /\ Turns(log, e.task) \subseteq 1..Len(log) /\ Len(log) \in Nat
  BY <1>2, <1>4, TurnsIn DEF Established, Turns
<1> HIDE DEF log, e
<1>6. {i \in Turns(log, e.task) : i <= Len(log)} = Turns(log, e.task)
  BY <1>5
<1>7. Latest(Turns(log, e.task)) \in Turns(log, e.task)
  BY <1>5, LatestIn
<1>8. TipOf(log, e.task) # e.sess
  BY <1>4, <1>5, <1>6, <1>7 DEF TipOf, TipAt
<1>9. TipOf(c.log, e.task) = e.sess
  BY DEF BoundAsRead, TaskOf, SessOf, e
<1> QED  BY <1>8, <1>9 DEF log

\* What the end of an operation settles: nothing, or what it wrote; and what is
\* returned as durable is settled and on stable storage.
LEMMA EffectSettles ==
  ASSUME TypeOK, TraceInv, LineInv, GrownInv, SyncedStands, SettledAt, SettledAt', TypeOK',
         NEW w \in Thread, Effect(w), Commit(w) \/ FailUndo(w), NEW r \in Record, r = op[w].rec
  PROVE  /\ Owing(w) /\ disk' = disk
         /\ \A q \in Record \ {r} : SettledLog(q)' = SettledLog(q)
         /\ SettledLog(r) = op[w].base.log /\ SettledLog(r)' = rec'[r].log
         /\ Begins(op[w].base.log, rec'[r].log)
         /\ Begins(rec'[r].log, op[w].base.log \o op[w].evs)
         /\ \/ acked' = acked
            \/ /\ acked' = [acked EXCEPT ![r] = rec'[r].log]
               /\ rec'[r].log # op[w].base.log /\ disk[r] = rec'[r]
<1>1. /\ Locking(w) /\ Busy(w)
      /\ \A v \in Thread \ {w} : op'[v] = op[v]
      /\ op'[w].pc # "idle" => op'[w].rec = op[w].rec /\ op'[w].base = op[w].base
      /\ \A q \in Record \ {r} : rec'[q] = rec[q]
  BY EffectMoves
<1>2. \A q \in Record \ {r} : SettledLog(q)' = SettledLog(q)
  BY <1>1, SettledElsewhere
<1>3. \A v \in Thread \ {w} : /\ Underway(v) => op[v].rec # r
                              /\ Underway(v)' => op'[v].rec # r
  BY <1>1, WritesAlone DEF Underway
<1>4. Underway(w) /\ Owing(w) /\ disk' = disk
  BY DEF Commit, FailUndo, Durable, Underway, Owing
<1>5. op'[w].pc \in {"returning", "unknown"}
  <2>1. PICK pc \in {"returning", "unknown"} : op' = [op EXCEPT ![w].pc = pc]
    BY DEF Commit, FailUndo, Committed
  <2>2. op'[w].pc = pc
    BY <2>1, PcMoved
  <2> QED  BY <2>1, <2>2
<1>6. SettledLog(r) = op[w].base.log /\ SettledLog(r)' = rec'[r].log
  <2>1. ~Underway(w)'
    BY <1>5 DEF Underway
  <2> QED  BY <1>3, <1>4, <2>1 DEF SettledAt
<1>7. /\ op[w].base \in Content /\ rec[r] \in Content /\ rec'[r] \in Content
      /\ op[w].evs \in Seq(Event)
      /\ op[w].base.log \in Seq(Event) /\ Len(op[w].evs) \in {1, 2}
      /\ rec \in [Record -> Content] /\ acked \in [Record -> Seq(Event)]
  BY <1>1, RunningType DEF TypeOK, FilesOK, Content, LineInv, Formed
<1>8. /\ op[w].base.log \o op[w].evs \in Seq(Event)
      /\ Begins(op[w].base.log, op[w].base.log)
      /\ Begins(op[w].base.log, op[w].base.log \o op[w].evs)
      /\ op[w].base.log \o op[w].evs # op[w].base.log
  <2>1. /\ Begins(op[w].base.log, op[w].base.log)
        /\ Begins(op[w].base.log, op[w].base.log \o op[w].evs)
        /\ op[w].base.log \o op[w].evs \in Seq(Event)
        /\ Len(op[w].base.log \o op[w].evs) = Len(op[w].base.log) + Len(op[w].evs)
    BY <1>7, BeginsFacts
  <2>2. Len(op[w].base.log) \in Nat
    BY <1>7, LenProperties
  <2>3. op[w].base.log \o op[w].evs # op[w].base.log
    <3>1. Len(op[w].base.log) + Len(op[w].evs) # Len(op[w].base.log)
      <4> DEFINE m == Len(op[w].base.log)
                 n == Len(op[w].evs)
      <4>1. m \in Nat /\ n \in {1, 2}
        BY <1>7, <2>2
      <4> HIDE DEF m, n
      <4>2. m + n # m
        BY <4>1
      <4> QED  BY <4>2 DEF m, n
    <3>2. Len(op[w].base.log \o op[w].evs) # Len(op[w].base.log)
      BY <2>1, <3>1
    <3> QED  BY <3>2
  <2> QED  BY <2>1, <2>3
<1>9. CASE Commit(w)
  <2>1. op[w].pc \in {"written", "synced"} /\ rec' = rec
    BY <1>9 DEF Commit
  <2>2. rec'[r].log = op[w].base.log \o op[w].evs
    BY <2>1 DEF GrownInv
  <2>3. Begins(rec'[r].log, op[w].base.log \o op[w].evs)
    <3> DEFINE all == op[w].base.log \o op[w].evs
    <3>1. all \in Seq(Event)
      BY <1>8
    <3> HIDE DEF all
    <3>2. Begins(all, all)
      BY <3>1, BeginsFacts
    <3> QED  BY <2>2, <3>2 DEF all
  <2>4. Durable(w) => disk[r] = rec'[r]
    BY <1>9, <2>1 DEF Commit, SyncedStands
  <2>5. \/ acked' = acked
        \/ Durable(w) /\ acked' = [acked EXCEPT ![r] = rec'[r].log]
    BY <1>9, <2>1 DEF Commit, Committed
  <2> QED  BY <1>2, <1>4, <1>6, <1>8, <2>2, <2>3, <2>4, <2>5
<1>10. CASE FailUndo(w)
  <2>1. op[w].pc = "undoing" /\ (rec' = rec \/ rec' = [rec EXCEPT ![r] = op[w].base])
    BY <1>10 DEF FailUndo
  <2>2. rec'[r] = rec[r] \/ rec'[r] = op[w].base
    BY <1>7, <2>1
  <2>3. /\ Begins(op[w].base.log, rec[r].log)
        /\ Begins(rec[r].log, op[w].base.log \o op[w].evs)
    BY <2>1 DEF GrownInv
  <2>4. /\ Begins(op[w].base.log, rec'[r].log)
        /\ Begins(rec'[r].log, op[w].base.log \o op[w].evs)
    BY <1>8, <2>2, <2>3
  <2>5. CASE ~BoundAsRead(w, rec'[r])
    <3>1. acked' = acked
      BY <1>10, <2>5 DEF FailUndo, history
    <3> QED  BY <1>2, <1>4, <1>6, <2>4, <3>1
  <2>6. CASE BoundAsRead(w, rec'[r])
    <3>1. Committed(w)
      BY <1>10, <2>6 DEF FailUndo
    <3>2. rec'[r].log # op[w].base.log
      BY <1>7, <2>1, <2>6, BoundIsThere
    <3>3. rec'[r] = rec[r]
      BY <2>2, <3>2
    <3>4. acked' = acked \/ acked' = [acked EXCEPT ![r] = rec'[r].log]
      BY <3>1, <3>3 DEF Committed
    <3>5. disk[r] = rec'[r]
      BY <2>1, <2>6, <3>3 DEF BoundAsRead, SyncedStands
    <3> QED  BY <1>2, <1>4, <1>6, <2>4, <3>2, <3>4, <3>5
  <2> QED  BY <2>5, <2>6
<1> QED  BY <1>9, <1>10

\* What an operation that wrote leaves in the record, if it leaves anything.
LEMMA LeftIsGrown ==
  ASSUME TypeOK, LineInv, NEW w \in Thread, Owing(w), NEW log \in Seq(Event),
         Begins(op[w].base.log, log), Begins(log, op[w].base.log \o op[w].evs),
         log # op[w].base.log
  PROVE  /\ Promise!Grown(op[w].base.log, log)
         /\ Promise!Added(op[w].base.log, log) = {TaskOf(w)} \ {NoTask}
<1>1. Busy(w) /\ Locking(w)
  BY DEF Owing, Busy, Locking
<1>2. /\ op[w].base.log \in Seq(Event) /\ Formed(op[w].kind, op[w].evs)
      /\ Lineal(op[w].base.log) /\ Owed(op[w].base.log, op[w].evs[1])
  BY <1>1, RunningType DEF LineInv, Content
<1> QED  BY <1>2, GrownIs DEF TaskOf

\* What is seen of an operation under way is a part of its write.
LEMMA UnderwayIs ==
  ASSUME TypeOK, GrownInv, NEW w \in Thread, Underway(w)
  PROVE  /\ op[w].base.log \in Seq(Event) /\ Owing(w) /\ Locking(w)
         /\ Begins(op[w].base.log, rec[op[w].rec].log)
         /\ Begins(rec[op[w].rec].log, op[w].base.log \o op[w].evs)
<1>1. Owing(w) /\ Locking(w) /\ Busy(w)
  BY DEF Underway, Owing, Locking, Busy
<1>2. op[w].base.log \in Seq(Event) /\ op[w].evs \in Seq(Event)
  BY <1>1, RunningType DEF Content
<1> DEFINE all == op[w].base.log \o op[w].evs
<1>3. all \in Seq(Event) /\ Begins(op[w].base.log, all)
  BY <1>2, BeginsFacts
<1> HIDE DEF all
<1>4. Begins(all, all)
  BY <1>3, BeginsFacts
<1>5. CASE op[w].pc \in {"written", "synced"}
  <2>1. rec[op[w].rec].log = all
    BY <1>5 DEF GrownInv, all
  <2> QED  BY <1>1, <1>2, <1>3, <1>4, <2>1 DEF all
<1>6. CASE op[w].pc = "undoing"
  BY <1>1, <1>2, <1>6 DEF GrownInv
<1> QED  BY <1>5, <1>6 DEF Underway

\* What is seen goes on from what is settled by the write under way, if any.
LEMMA SeenIs ==
  ASSUME TypeOK, LineInv, GrownInv, SettledAt, NEW r \in Record
  PROVE  /\ SettledLog(r) \in Seq(Event) /\ rec[r].log \in Seq(Event)
         /\ Begins(SettledLog(r), rec[r].log)
         /\ \A log \in Seq(Event) : Begins(SettledLog(r), log) /\ Begins(log, rec[r].log)
              => log = SettledLog(r) \/ Promise!Grown(SettledLog(r), log)
<1>1. SettledLog(r) \in Seq(Event) /\ rec[r].log \in Seq(Event)
  BY DEF SettledAt, TypeOK, FilesOK, Content
<1>2. CASE \E w \in Thread : Underway(w) /\ op[w].rec = r
  <2>1. PICK w \in Thread : Underway(w) /\ op[w].rec = r
    BY <1>2
  <2>2. SettledLog(r) = op[w].base.log
    BY <2>1 DEF SettledAt
  <2>3. /\ Owing(w) /\ Busy(w) /\ op[w].evs \in Seq(Event) /\ op[w].base.log \in Seq(Event)
        /\ Begins(op[w].base.log, rec[r].log)
        /\ Begins(rec[r].log, op[w].base.log \o op[w].evs)
    BY <2>1, UnderwayIs, RunningType DEF Owing, Busy
  <2>4. op[w].base.log \o op[w].evs \in Seq(Event)
    BY <2>3, BeginsFacts
  <2>5. ASSUME NEW log \in Seq(Event), Begins(op[w].base.log, log), Begins(log, rec[r].log),
               log # op[w].base.log
        PROVE  Promise!Grown(op[w].base.log, log)
    <3>1. Begins(log, op[w].base.log \o op[w].evs)
      <4> DEFINE all == op[w].base.log \o op[w].evs
                 seen == rec[r].log
      <4>1. all \in Seq(Event) /\ seen \in Seq(Event) /\ Begins(log, seen) /\ Begins(seen, all)
        BY <1>1, <2>3, <2>4, <2>5
      <4> HIDE DEF all, seen
      <4>2. Begins(log, all)
        BY <4>1, BeginsFacts
      <4> QED  BY <4>2 DEF all
    <3> QED  BY <2>3, <2>5, <3>1, LeftIsGrown
  <2> QED  BY <1>1, <2>2, <2>3, <2>5
<1>3. CASE \A w \in Thread : Underway(w) => op[w].rec # r
  <2>1. SettledLog(r) = rec[r].log
    BY <1>3 DEF SettledAt
  <2>2. ASSUME NEW log \in Seq(Event), Begins(rec[r].log, log), Begins(log, rec[r].log)
        PROVE  log = rec[r].log
    <3>1. Len(log) = Len(rec[r].log)
      BY <1>1, <2>2, LenProperties DEF Begins
    <3> QED  BY <1>1, <2>2, <3>1, BeginsEqual
  <2> QED  BY <1>1, <2>1, <2>2, BeginsFacts
<1> QED  BY <1>2, <1>3

\* What the death of a process settles is what an operation of it wrote.
LEMMA CrashSettles ==
  ASSUME TypeOK, TraceInv, LineInv, GrownInv, SettledAt, SettledAt', TypeOK',
         NEW p \in Proc, Crash(p), NEW r \in Record
  PROVE  \/ SettledLog(r)' = SettledLog(r)
         \/ \E w \in Thread :
              /\ ProcOf[w] = p /\ Owing(w)
              /\ Begins(SettledLog(r), SettledLog(r)')
              /\ Promise!Grown(SettledLog(r), SettledLog(r)')
              /\ Promise!Added(SettledLog(r), SettledLog(r)') = {TaskOf(w)} \ {NoTask}
<1> DEFINE dead == {w \in Thread : ProcOf[w] = p}
           cut(q) == {w \in dead : op[w].pc = "writing" /\ op[w].rec = q}
           F == [q \in Record |-> {rec[q]} \cup UNION {Interrupted(rec[q], op[w].evs) : w \in cut(q)}]
<1>1. rec'[r] = rec[r] \/ \E w \in cut(r) : rec'[r] \in Interrupted(rec[r], op[w].evs)
  <2>1. rec' \in Outcomes(F)
    BY DEF Crash
  <2>2. rec'[r] \in F[r]
    <3> HIDE DEF F
    <3> QED  BY <2>1, OutcomesType
  <2> QED  BY <2>2
<1>2. \A w \in Thread : op'[w] = IF ProcOf[w] = p THEN Idle ELSE op[w]
  BY DEF Crash
<1> HIDE DEF F
<1>3. CASE \E w \in Thread : Underway(w) /\ op[w].rec = r
  <2>1. PICK w \in Thread : Underway(w) /\ op[w].rec = r
    BY <1>3
  <2>2. Locking(w)
    BY <2>1 DEF Underway, Locking
  <2>3. \A v \in Thread \ {w} : ~(Locking(v) /\ op[v].rec = r)
    BY <2>1, <2>2, Exclusion DEF TraceInv
  <2>4. rec'[r] = rec[r]
    BY <1>1, <2>1, <2>3 DEF Locking, Underway
  <2>5. SettledLog(r) = op[w].base.log
    BY <2>1 DEF SettledAt
  <2>6. CASE ProcOf[w] # p
    <3>1. op'[w] = op[w] /\ Underway(w)'
      BY <1>2, <2>1, <2>6 DEF Underway
    <3> QED  BY <2>1, <2>5, <3>1 DEF SettledAt
  <2>7. CASE ProcOf[w] = p
    <3>1. \A v \in Thread : Underway(v)' => op'[v].rec # r
      BY <1>2, <2>3, <2>7 DEF Underway, Idle, Locking
    <3>2. SettledLog(r)' = rec[r].log
      BY <2>4, <3>1 DEF SettledAt
    <3>3. /\ Owing(w) /\ Begins(op[w].base.log, rec[r].log)
          /\ Begins(rec[r].log, op[w].base.log \o op[w].evs) /\ rec[r].log \in Seq(Event)
      BY <2>1, UnderwayIs DEF TypeOK, FilesOK, Content
    <3>4. rec[r].log # op[w].base.log =>
            /\ Promise!Grown(op[w].base.log, rec[r].log)
            /\ Promise!Added(op[w].base.log, rec[r].log) = {TaskOf(w)} \ {NoTask}
      BY <3>3, LeftIsGrown
    <3> QED  BY <2>5, <2>7, <3>2, <3>3, <3>4
  <2> QED  BY <2>6, <2>7
<1>4. CASE \A w \in Thread : Underway(w) => op[w].rec # r
  <2>1. SettledLog(r) = rec[r].log
    BY <1>4 DEF SettledAt
  <2>2. \A v \in Thread : Underway(v)' => op'[v].rec # r
    BY <1>2, <1>4 DEF Underway, Idle
  <2>3. SettledLog(r)' = rec'[r].log
    BY <2>2 DEF SettledAt
  <2>4. CASE rec'[r] = rec[r]
    BY <2>1, <2>3, <2>4
  <2>5. ASSUME NEW w \in cut(r), rec'[r] \in Interrupted(rec[r], op[w].evs)
        PROVE  \/ SettledLog(r)' = SettledLog(r)
               \/ /\ ProcOf[w] = p /\ Owing(w)
                  /\ Begins(SettledLog(r), SettledLog(r)')
                  /\ Promise!Grown(SettledLog(r), SettledLog(r)')
                  /\ Promise!Added(SettledLog(r), SettledLog(r)') = {TaskOf(w)} \ {NoTask}
    <3>1. w \in Thread /\ ProcOf[w] = p /\ op[w].pc = "writing" /\ op[w].rec = r
      BY <2>5
    <3>2. Owing(w) /\ Busy(w) /\ rec[r] = op[w].base
      BY <3>1 DEF Owing, Busy, TraceInv, BaseKept, Untouched
    <3>3. rec[r] \in Content /\ op[w].evs \in Seq(Event)
      BY <3>1, <3>2, RunningType
    <3>4. /\ Begins(op[w].base.log, rec'[r].log) /\ rec'[r].log \in Seq(Event)
          /\ Begins(rec'[r].log, op[w].base.log \o op[w].evs)
      BY <2>5, <3>2, <3>3, InterruptedLogs
    <3>5. rec'[r].log # op[w].base.log =>
            /\ Promise!Grown(op[w].base.log, rec'[r].log)
            /\ Promise!Added(op[w].base.log, rec'[r].log) = {TaskOf(w)} \ {NoTask}
      BY <3>1, <3>2, <3>4, LeftIsGrown
    <3> QED  BY <2>1, <2>3, <3>1, <3>2, <3>4, <3>5
  <2> QED  BY <1>1, <2>4, <2>5
<1> QED  BY <1>3, <1>4

\* A record may fall back to where it did.
LEMMA PowerLossFalls ==
  ASSUME TypeOK, LineInv, GrownInv, SettledAt, SettledAt', TypeOK', PowerLoss,
         NEW r \in Record, FallsTo(SettledLog(r), Len(acked[r]), disk[r].log)
  PROVE  /\ FallsTo(SettledLog(r), Len(acked[r]), SettledLog(r)')
         /\ FallsTo(SettledLog(r)', Len(acked'[r]), disk'[r].log)
<1> DEFINE h == SettledLog(r)
           m == Len(acked[r])
           x == rec'[r]
<1>1. /\ h \in Seq(Event) /\ m \in Nat /\ rec[r] \in Content /\ disk[r] \in Content /\ x \in Content
      /\ rec[r].log \in Seq(Event) /\ disk[r].log \in Seq(Event) /\ x.log \in Seq(Event)
  <2>1. acked[r] \in Seq(Event) /\ rec[r] \in Content /\ disk[r] \in Content /\ x \in Content
    BY DEF TypeOK, FilesOK
  <2>2. h \in Seq(Event)
    BY DEF SettledAt
  <2> QED  BY <2>1, <2>2, LenProperties DEF Content
<1>2. m <= Len(h) /\ m <= Len(disk[r].log)
  BY <1>1, FallsKeeps
<1>3. x \in Survivors(disk[r], rec[r])
  <2> DEFINE F == [q \in Record |-> Survivors(disk[q], rec[q])]
  <2>1. rec' \in Outcomes(F)
    BY DEF PowerLoss
  <2>2. F[r] = Survivors(disk[r], rec[r])
    OBVIOUS
  <2> HIDE DEF F
  <2> QED  BY <2>1, <2>2, OutcomesType
<1>4. SettledLog(r)' = x.log
  <2>1. \A v \in Thread : ~Underway(v)'
    BY DEF PowerLoss, Underway, Idle
  <2> QED  BY <2>1 DEF SettledAt
<1>5. disk'[r] = x /\ acked' = acked
  BY DEF PowerLoss, history
<1>6. /\ x = disk[r] \/ Begins(x.log, rec[r].log)
      /\ x = rec[r] \/ Begins(disk[r].log, x.log)
  BY <1>1, <1>3, SurvivorLogs
<1>7. /\ Begins(h, rec[r].log)
      /\ \A log \in Seq(Event) : Begins(h, log) /\ Begins(log, rec[r].log)
           => log = h \/ Promise!Grown(h, log)
  BY SeenIs
<1> HIDE DEF h, m, x
<1>8. FallsTo(h, m, x.log)
  <2>1. CASE x = disk[r]
    BY <2>1 DEF h, m
  <2>2. CASE x # disk[r]
    <3>1. Begins(x.log, rec[r].log)
      BY <1>6, <2>2
    <3>2. m <= Len(x.log)
      <4>1. /\ Len(h) <= Len(rec[r].log)
            /\ Len(disk[r].log) <= Len(x.log) \/ x = rec[r]
        BY <1>6, <1>7 DEF Begins
      <4>2. /\ Len(h) \in Nat /\ Len(rec[r].log) \in Nat /\ Len(disk[r].log) \in Nat
            /\ Len(x.log) \in Nat
        BY <1>1, LenProperties
      <4> QED  BY <1>1, <1>2, <4>1, <4>2
    <3>3. CASE Len(x.log) <= Len(h)
      <4>1. Begins(x.log, h)
        <5>1. Len(x.log) \in Nat /\ Len(h) \in Nat
          BY <1>1, LenProperties
        <5> QED  BY <1>7, <3>1, <3>3, <5>1 DEF Begins
      <4> QED  BY <1>1, <3>2, <4>1, FallsBegins
    <3>4. CASE Len(h) <= Len(x.log)
      <4>1. Begins(h, x.log)
        <5>1. Len(x.log) \in Nat /\ Len(h) \in Nat
          BY <1>1, LenProperties
        <5> QED  BY <1>7, <3>1, <3>4, <5>1 DEF Begins
      <4>2. CASE x.log = h
        <5>1. Begins(h, h)
          BY <1>1, BeginsFacts
        <5> QED  BY <1>1, <1>2, <4>2, <5>1, FallsBegins
      <4>3. CASE Promise!Grown(h, x.log)
        BY <1>1, <1>2, <4>3, FallsGrown
      <4> QED  BY <1>1, <1>7, <3>1, <4>1, <4>2, <4>3
    <3>5. Len(x.log) \in Nat /\ Len(h) \in Nat
      BY <1>1, LenProperties
    <3> QED  BY <3>3, <3>4, <3>5
  <2> QED  BY <2>1, <2>2
<1>9. FallsTo(x.log, m, x.log)
  <2>1. m <= Len(x.log) /\ Begins(x.log, x.log)
    BY <1>1, <1>8, FallsKeeps, BeginsFacts
  <2> QED  BY <1>1, <2>1, FallsBegins
<1> QED  BY <1>4, <1>5, <1>8, <1>9 DEF h, m

\* What is on stable storage is where the settled events may fall back to, and
\* all that a durable return acknowledged is in it.
Stored == \A r \in Record : FallsTo(SettledLog(r), Len(acked[r]), disk[r].log)

LEMMA StoredInit == Init => Stored
<1> SUFFICES ASSUME Init, NEW r \in Record PROVE FallsTo(SettledLog(r), Len(acked[r]), disk[r].log)
  BY DEF Stored
<1>1. \A w \in Thread : ~Unsettled(r, w)
  BY LedgerAssumption DEF Init, Unsettled
<1> DEFINE none == <<>>
<1>2. SettledLog(r) = none /\ disk[r].log = none /\ acked[r] = none
  <2>1. rec[r] = Absent /\ disk[r] = Absent /\ acked[r] = <<>>
    BY DEF Init
  <2>2. SettledLog(r) = rec[r].log
    BY <1>1 DEF SettledLog
  <2> QED  BY <2>1, <2>2 DEF Absent, Whole
<1>3. none \in Seq(Event) /\ Len(none) = 0
  BY SMT
<1> HIDE DEF none
<1>4. FallsTo(none, 0, none)
  <2>1. Begins(none, none)
    BY <1>3 DEF Begins
  <2>2. \A m \in Nat : m <= Len(none) => FallsTo(none, m, none)
    BY <1>3, <2>1, FallsBegins
  <2> QED  BY <1>3, <2>2
<1> QED  BY <1>2, <1>3, <1>4

\* A record whose settled events grow, if they change, and of which nothing else
\* becomes durable or is acknowledged.
LEMMA StoredMore ==
  ASSUME TypeOK, Stored, SettledAt, SettledAt', NEW r \in Record,
         disk'[r] = disk[r], acked'[r] = acked[r],
         SettledLog(r)' = SettledLog(r) \/ Begins(SettledLog(r), SettledLog(r)')
  PROVE  FallsTo(SettledLog(r)', Len(acked'[r]), disk'[r].log)
<1>1. FallsTo(SettledLog(r), Len(acked[r]), disk[r].log) /\ Len(acked[r]) \in Nat
  BY LenProperties DEF Stored, TypeOK, FilesOK
<1>2. SettledLog(r) \in Seq(Event) /\ SettledLog(r)' \in Seq(Event)
  BY DEF SettledAt
<1>3. CASE SettledLog(r)' = SettledLog(r)
  BY <1>1, <1>3
<1>4. CASE Begins(SettledLog(r), SettledLog(r)')
  BY <1>1, <1>2, <1>4, FallsMore
<1> QED  BY <1>3, <1>4

\* Whatever is not an effect of an operation or a death settles nothing.
LEMMA OtherQuiet ==
  ASSUME TypeOK, SettledAt, SettledAt',
         \/ \E w \in Thread : Ask(w) \/ Decide(w)
         \/ \E p \in Proc : Holder(p) \/ Close(p) \/ \E t \in Task, r \in Record : Acquire(p, t, r)
         \/ Activate
         \/ UNCHANGED vars
  PROVE  disk' = disk /\ acked' = acked /\ \A r \in Record : SettledLog(r)' = SettledLog(r)
<1>1. rec' = rec /\ disk' = disk /\ acked' = acked
  <2>1. ASSUME NEW w \in Thread, Ask(w) \/ Decide(w) PROVE rec' = rec /\ disk' = disk /\ acked' = acked
    BY <2>1 DEF Ask, Begin, BeginDiagnostic, Decide, LockRecord, GiveUp, Authorize, Continue, Prove,
                Refuse, history
  <2>2. ASSUME NEW p \in Proc, Holder(p) \/ Close(p) \/ \E t \in Task, r \in Record : Acquire(p, t, r)
        PROVE  rec' = rec /\ disk' = disk /\ acked' = acked
    BY <2>2 DEF Holder, Admit, Reject, End, Free, Close, Acquire, history
  <2>3. ASSUME Activate \/ UNCHANGED vars PROVE rec' = rec /\ disk' = disk /\ acked' = acked
    BY <2>3 DEF Activate, Examine, LeaseClaim, LockTorn, Publish, SyncManifest, Leave, vars, history
  <2> QED  BY <2>1, <2>2, <2>3
<1>2. ASSUME NEW v \in Thread
      PROVE  \/ op'[v] = op[v]
             \/ ~Underway(v) /\ op'[v].pc \notin {"written", "synced", "undoing"}
  <2>1. ASSUME NEW w \in Thread, Ask(w)
        PROVE  \/ op'[v] = op[v]
               \/ ~Underway(v) /\ op'[v].pc \notin {"written", "synced", "undoing"}
    <3>1. PICK k, r, evs :
            op' = [op EXCEPT ![w] = [Idle EXCEPT !.pc = "guarded", !.kind = k, !.rec = r, !.evs = evs]]
      BY <2>1 DEF Ask, Begin, BeginDiagnostic
    <3>2. op[w].pc = "idle"
      BY <2>1 DEF Ask, Begin, BeginDiagnostic, Busy
    <3> QED  BY <3>1, <3>2 DEF Idle, Underway, TypeOK, OpsOK
  <2>2. ASSUME NEW w \in Thread, Decide(w)
        PROVE  \/ op'[v] = op[v]
               \/ ~Underway(v) /\ op'[v].pc \notin {"written", "synced", "undoing"}
    <3>1. op[w].pc \in {"guarded", "locked", "proving"}
      BY <2>2 DEF Decide, LockRecord, GiveUp, Authorize, Continue, Prove, Refuse
    <3>2. \/ \E pc \in {"writing", "proving", "returning", "refused"} : op' = [op EXCEPT ![w].pc = pc]
          \/ op' = [op EXCEPT ![w].pc = "locked", ![w].base = rec[op[w].rec]]
          \/ op' = [op EXCEPT ![w] = Idle]
      BY <2>2 DEF Decide, Authorize, Continue, Prove, Refuse, LockRecord, GiveUp
    <3>3. op'[w].pc \notin {"written", "synced", "undoing"} /\ \A u \in Thread \ {w} : op'[u] = op[u]
      BY <3>2 DEF TypeOK, OpsOK, OpType, Idle
    <3> QED  BY <3>1, <3>3 DEF Underway
  <2>3. ASSUME NEW p \in Proc, Holder(p) \/ Close(p) \/ \E t \in Task, r \in Record : Acquire(p, t, r)
        PROVE  op' = op
    BY <2>3 DEF Holder, Admit, Reject, End, Free, Close, Acquire
  <2>4. ASSUME Activate \/ UNCHANGED vars PROVE op' = op
    BY <2>4 DEF Activate, Examine, LeaseClaim, LockTorn, Publish, SyncManifest, Leave, vars
  <2> QED  BY <2>1, <2>2, <2>3, <2>4
<1>3. \A r \in Record : SettledLog(r)' = SettledLog(r)
  BY <1>1, <1>2, SettledSame
<1> QED  BY <1>1, <1>3

\* The settled events may fall back to themselves and to what is seen.
LEMMA FallsSeen ==
  ASSUME TypeOK, LineInv, GrownInv, SettledAt, Stored, NEW r \in Record
  PROVE  /\ FallsTo(SettledLog(r), Len(acked[r]), rec[r].log)
         /\ FallsTo(SettledLog(r), Len(acked[r]), SettledLog(r))
<1> DEFINE h == SettledLog(r)
           m == Len(acked[r])
           seen == rec[r].log
<1>1. /\ h \in Seq(Event) /\ seen \in Seq(Event) /\ Begins(h, seen)
      /\ \A log \in Seq(Event) : Begins(h, log) /\ Begins(log, seen)
           => log = h \/ Promise!Grown(h, log)
  BY SeenIs
<1>2. m \in Nat /\ FallsTo(h, m, disk[r].log) /\ disk[r].log \in Seq(Event)
  BY LenProperties DEF Stored, TypeOK, FilesOK, Content
<1> HIDE DEF h, m, seen
<1>3. m <= Len(h)
  BY <1>1, <1>2, FallsKeeps
<1>4. Begins(h, h) /\ Begins(seen, seen)
  BY <1>1, BeginsFacts
<1>5. FallsTo(h, m, h)
  BY <1>1, <1>2, <1>3, <1>4, FallsBegins
<1>6. FallsTo(h, m, seen)
  BY <1>1, <1>2, <1>3, <1>4, <1>5, FallsGrown
<1> QED  BY <1>5, <1>6 DEF h, m, seen

LEMMA StoredEffect ==
  ASSUME TypeOK, TraceInv, LineInv, GrownInv, SyncedStands, SettledAt, SettledAt', TypeOK',
         Stored, NEW w \in Thread, Effect(w)
  PROVE  Stored'
<1> SUFFICES ASSUME NEW r \in Record, r = op[w].rec PROVE Stored'
  BY EffectMoves
<1>1. /\ \A v \in Thread \ {w} : op'[v] = op[v]
      /\ op'[w].pc # "idle" => op'[w].rec = r
      /\ \A q \in Record \ {r} : rec'[q] = rec[q] /\ disk'[q] = disk[q]
  BY EffectMoves
<1>2. \A q \in Record \ {r} : SettledLog(q)' = SettledLog(q)
  BY <1>1, SettledElsewhere
<1>3. CASE ~Commit(w) /\ ~FailUndo(w)
  <2>1. acked' = acked /\ SettledLog(r)' = SettledLog(r)
    BY <1>3, EffectQuiet
  <2>2. disk'[r] \in {disk[r], rec[r]} \/ (Undo(w) /\ disk'[r] = op[w].base)
    <3>1. WriteLine(w) \/ FailWrite(w) \/ Return(w) => disk' = disk
      BY DEF WriteLine, FailWrite, Return
    <3>2. Sync(w) \/ Fail(w) => disk'[r] \in {disk[r], rec[r]}
      BY DEF Sync, Fail, TypeOK, FilesOK
    <3>3. Undo(w) => disk'[r] = op[w].base
      BY DEF Undo, TypeOK, FilesOK
    <3>4. \/ WriteLine(w) \/ FailWrite(w) \/ Return(w)
          \/ Sync(w) \/ Fail(w)
          \/ Undo(w)
      BY Zenon, <1>3 DEF Effect
    <3>5. CASE WriteLine(w) \/ FailWrite(w) \/ Return(w)
      BY <3>1, <3>5
    <3>6. CASE Sync(w) \/ Fail(w)
      BY <3>2, <3>6
    <3>7. CASE Undo(w)
      BY <3>3, <3>7
    <3> QED  BY <3>4, <3>5, <3>6, <3>7
  <2>3. Undo(w) => op[w].base.log = SettledLog(r)
    BY DEF Undo, Underway, SettledAt
  <2>4. FallsTo(SettledLog(r), Len(acked[r]), disk'[r].log)
    <3>1. /\ FallsTo(SettledLog(r), Len(acked[r]), disk[r].log)
          /\ FallsTo(SettledLog(r), Len(acked[r]), rec[r].log)
          /\ FallsTo(SettledLog(r), Len(acked[r]), SettledLog(r))
      BY FallsSeen DEF Stored
    <3> QED  BY <2>2, <2>3, <3>1
  <2>5. ASSUME NEW q \in Record
        PROVE  FallsTo(SettledLog(q)', Len(acked'[q]), disk'[q].log)
    <3>1. CASE q = r
      BY <3>1, <2>1, <2>4
    <3>2. CASE q # r
      BY <3>2, <1>1, <1>2, <2>1 DEF Stored
    <3> QED  BY <3>1, <3>2
  <2> QED  BY <2>5 DEF Stored
<1>4. CASE Commit(w) \/ FailUndo(w)
  <2>1. /\ disk' = disk /\ SettledLog(r) = op[w].base.log /\ SettledLog(r)' = rec'[r].log
        /\ Begins(op[w].base.log, rec'[r].log)
        /\ \/ acked' = acked
           \/ acked' = [acked EXCEPT ![r] = rec'[r].log] /\ disk[r] = rec'[r]
    BY <1>4, EffectSettles
  <2>2. ASSUME NEW q \in Record
        PROVE  FallsTo(SettledLog(q)', Len(acked'[q]), disk'[q].log)
    <3>1. CASE acked'[q] = acked[q]
      <4>1. SettledLog(q)' = SettledLog(q) \/ Begins(SettledLog(q), SettledLog(q)')
        BY <1>2, <2>1
      <4> QED  BY <2>1, <3>1, <4>1, StoredMore
    <3>2. CASE acked'[q] # acked[q]
      <4>1. q = r /\ acked'[r] = rec'[r].log /\ disk'[r] = rec'[r]
        BY <2>1, <3>2 DEF TypeOK, FilesOK
      <4> DEFINE log == rec'[r].log
      <4>2. log \in Seq(Event)
        BY DEF TypeOK, FilesOK, Content
      <4>3. SettledLog(q)' = log /\ acked'[q] = log /\ disk'[q].log = log
        BY <2>1, <4>1
      <4> HIDE DEF log
      <4>4. Begins(log, log) /\ Len(log) \in Nat /\ Len(log) <= Len(log)
        BY <4>2, BeginsFacts, LenProperties
      <4>5. FallsTo(log, Len(log), log)
        BY <4>2, <4>4, FallsBegins
      <4> QED  BY <4>3, <4>5
    <3> QED  BY <3>1, <3>2
  <2> QED  BY <2>2 DEF Stored
<1> QED  BY <1>3, <1>4

\* Where the settled events may fall back to is what is on stable storage.
LEMMA StoredNext ==
  ASSUME TypeOK, TraceInv, LineInv, GrownInv, SyncedStands, SettledAt, SettledAt', TypeOK',
         Stored, [Next]_vars
  PROVE  Stored'
<1>1. ASSUME NEW w \in Thread, Effect(w) PROVE Stored'
  BY <1>1, StoredEffect
<1>2. ASSUME NEW p \in Proc, Crash(p) PROVE Stored'
  <2>1. disk' = disk /\ acked' = acked
    BY <1>2 DEF Crash, history
  <2>2. ASSUME NEW r \in Record PROVE FallsTo(SettledLog(r)', Len(acked'[r]), disk'[r].log)
    <3>1. SettledLog(r)' = SettledLog(r) \/ Begins(SettledLog(r), SettledLog(r)')
      BY <1>2, CrashSettles
    <3> QED  BY <2>1, <3>1, StoredMore
  <2> QED  BY <2>2 DEF Stored
<1>3. CASE PowerLoss
  <2>1. ASSUME NEW r \in Record PROVE FallsTo(SettledLog(r)', Len(acked'[r]), disk'[r].log)
    BY <1>3, PowerLossFalls DEF Stored
  <2> QED  BY <2>1 DEF Stored
<1>4. CASE \/ \E w \in Thread : Ask(w) \/ Decide(w)
           \/ \E p \in Proc : Holder(p) \/ Close(p) \/ \E t \in Task, r \in Record : Acquire(p, t, r)
           \/ Activate
           \/ UNCHANGED vars
  BY <1>4, OtherQuiet DEF Stored
<1> QED  BY <1>1, <1>2, <1>3, <1>4 DEF Next, Advance

\* A task is owned while a lease of it lives, and by the process of the lease.
Living(p, t) == lease[p].st \in {"live", "closing"} /\ lease[p].task = t

OwnersAt ==
  \A t \in Task :
    /\ \A p \in Proc : Living(p, t) => OwnerOf(t) = p
    /\ (\A p \in Proc : ~Living(p, t)) => OwnerOf(t) = None

LEMMA OwnersIs == HeldInv => OwnersAt
BY DEF HeldInv, LeaseHoldsLock, OwnersAt, OwnerOf, Living

LEMMA OwnersSame ==
  ASSUME OwnersAt, OwnersAt', NEW t \in Task, \A p \in Proc : Living(p, t)' <=> Living(p, t)
  PROVE  OwnerOf(t)' = OwnerOf(t)
<1>1. CASE \E p \in Proc : Living(p, t)
  <2>1. PICK p \in Proc : Living(p, t)
    BY <1>1
  <2> QED  BY <2>1 DEF OwnersAt
<1>2. CASE \A p \in Proc : ~Living(p, t)
  BY <1>2 DEF OwnersAt
<1> QED  BY <1>1, <1>2

\* Operations, and whatever waits for a lease or gives up one that does not
\* live, change no owner.
LEMMA OwnersStay ==
  ASSUME TypeOK, OwnersAt, OwnersAt',
         \/ \E w \in Thread : Ask(w) \/ Advance(w)
         \/ \E p \in Proc : Reject(p) \/ Free(p) \/ Close(p) \/ \E t \in Task, r \in Record : Acquire(p, t, r)
         \/ Activate
         \/ UNCHANGED vars
  PROVE  \A t \in Task : OwnerOf(t)' = OwnerOf(t)
<1>1. ASSUME NEW w \in Thread, Ask(w) \/ Advance(w)
      PROVE  \A p \in Proc, t \in Task : Living(p, t)' <=> Living(p, t)
  <2>1. lease' = lease \/ \E p, s : lease' = [lease EXCEPT ![p].sess = s]
    <3>1. Ask(w) => lease' = lease
      BY DEF Ask, Begin, BeginDiagnostic
    <3>2. Decide(w) => lease' = lease \/ Continue(w)
      BY DEF Decide, LockRecord, GiveUp, Authorize, Prove, Refuse
    <3>3. Continue(w) => \E p, s : lease' = [lease EXCEPT ![p].sess = s]
      BY DEF Continue
    <3>4. Effect(w) => lease' = lease \/ Committed(w)
      BY DEF Effect, WriteLine, FailWrite, Sync, Fail, Commit, Undo, FailUndo, Return
    <3>5. Committed(w) => lease' = lease \/ \E p, s : lease' = [lease EXCEPT ![p].sess = s]
      BY DEF Committed
    <3> QED  BY <1>1, <3>1, <3>2, <3>3, <3>4, <3>5 DEF Advance
  <2> QED  BY <2>1 DEF Living, TypeOK, LeasesOK, LeaseType
<1>2. ASSUME NEW p \in Proc,
             Reject(p) \/ Free(p) \/ Close(p) \/ \E t \in Task, r \in Record : Acquire(p, t, r)
      PROVE  \A q \in Proc, t \in Task : Living(q, t)' <=> Living(q, t)
  <2>1. \A q \in Proc \ {p} : lease'[q] = lease[q]
    BY <1>2 DEF Reject, Free, Close, Acquire, TypeOK, LeasesOK
  <2>2. \/ lease[p].st \notin {"live", "closing"} /\ lease'[p].st \notin {"live", "closing"}
        \/ /\ lease[p].st = "live" /\ lease'[p].st = "closing" /\ lease'[p].task = lease[p].task
    BY <1>2 DEF Reject, Free, Close, Acquire, TypeOK, LeasesOK, LeaseType, NoLease
  <2> QED  BY <2>1, <2>2 DEF Living
<1>3. ASSUME Activate \/ UNCHANGED vars
      PROVE  \A q \in Proc, t \in Task : Living(q, t)' <=> Living(q, t)
  <2>1. lease' = lease
    BY <1>3 DEF Activate, Examine, LeaseClaim, LockTorn, Publish, SyncManifest, Leave, vars
  <2> QED  BY <2>1 DEF Living
<1> QED  BY <1>1, <1>2, <1>3, OwnersSame

\* Who is in an operation owns the task of its events, if they have one.
LEMMA WriterOwns ==
  ASSUME TypeOK, HeldInv, LineInv, OwnersAt, NEW w \in Thread, Busy(w)
  PROVE  \A t \in {TaskOf(w)} \ {NoTask} : t \in Task /\ OwnerOf(t) = ProcOf[w] /\ ProcOf[w] \in Proc
<1>1. ProcOf[w] \in Proc
  BY LedgerAssumption
<1>2. CASE op[w].kind = "diagnostic"
  BY <1>2 DEF LineInv, Formed, TaskOf
<1>3. CASE op[w].kind # "diagnostic"
  <2>1. /\ lease[ProcOf[w]].st \in {"live", "closing"}
        /\ lease[ProcOf[w]].task = TaskOf(w)
    BY <1>3 DEF HeldInv, AdmittedHoldsTask
  <2>2. TaskOf(w) \in Task /\ Living(ProcOf[w], TaskOf(w))
    BY <1>1, <2>1 DEF TypeOK, LeasesOK, Living
  <2> QED  BY <1>1, <2>2 DEF OwnersAt
<1> QED  BY <1>2, <1>3

\* Nothing that the promise sees changes.
LEMMA Unseen ==
  ASSUME acked' = acked, \A r \in Record : SettledLog(r)' = SettledLog(r),
         \A t \in Task : OwnerOf(t)' = OwnerOf(t)
  PROVE  UNCHANGED Promise!vars
<1>1. SettledLogs' = SettledLogs
  BY DEF SettledLogs
<1>2. DurableEvents' = DurableEvents
  BY DEF DurableEvents
<1>3. TaskOwners' = TaskOwners
  BY DEF TaskOwners
<1> QED  BY <1>1, <1>2, <1>3 DEF Promise!vars

\* A lease is given: its process owns the task.
LEMMA AdmitOwns ==
  ASSUME TypeOK, HeldInv, OwnersAt, OwnersAt', SettledAt, SettledAt', NEW p \in Proc, Admit(p)
  PROVE  \E t \in Task : Promise!Own(t, p)
<1> SUFFICES ASSUME NEW t \in Task, t = lease[p].task PROVE Promise!Own(t, p)
  BY DEF Admit, TypeOK, LeasesOK
<1>1. lease[p].st = "proving" /\ lease' = [lease EXCEPT ![p].st = "live"]
  BY DEF Admit
<1>2. /\ lease'[p].st = "live" /\ lease'[p].task = t
      /\ \A q \in Proc \ {p} : lease'[q] = lease[q]
  BY <1>1 DEF TypeOK, LeasesOK, LeaseType
<1>3. OwnerOf(t) = None
  BY <1>1 DEF HeldInv, LeaseHoldsLock, OwnersAt, Living
<1>4. OwnerOf(t)' = p
  BY <1>2 DEF OwnersAt, Living
<1>5. \A u \in Task \ {t} : OwnerOf(u)' = OwnerOf(u)
  BY <1>1, <1>2, OwnersSame DEF Living
<1>6. SettledLogs' = SettledLogs /\ DurableEvents' = DurableEvents
  <2>1. acked' = acked /\ \A r \in Record : SettledLog(r)' = SettledLog(r)
    BY OtherQuiet DEF Holder
  <2> QED  BY <2>1 DEF SettledLogs, DurableEvents
<1>7. TaskOwners[t] = None /\ TaskOwners' = [TaskOwners EXCEPT ![t] = p]
  BY <1>3, <1>4, <1>5 DEF TaskOwners
<1> QED  BY <1>6, <1>7 DEF Promise!Own

\* A lease ends, with no operation under way: nobody owns the task.
LEMMA EndDisowns ==
  ASSUME TypeOK, HeldInv, OwnersAt, OwnersAt', SettledAt, SettledAt', NEW p \in Proc, End(p)
  PROVE  \E t \in Task : Promise!Disown(t)
<1> SUFFICES ASSUME NEW t \in Task, t = lease[p].task PROVE Promise!Disown(t)
  BY DEF End, TypeOK, LeasesOK
<1>1. /\ lease[p].st = "closing"
      /\ lease' = [lease EXCEPT ![p].st = "ended", ![p].sess = NoSession]
  BY DEF End
<1>2. lease'[p].st = "ended" /\ \A q \in Proc \ {p} : lease'[q] = lease[q]
  BY <1>1 DEF TypeOK, LeasesOK, LeaseType
<1>3. OwnerOf(t) = p /\ p # None
  BY <1>1, LedgerAssumption DEF OwnersAt, Living
<1>4. \A q \in Proc : ~Living(q, t)'
  <2>1. \A q \in Proc \ {p} : lease[q].st # "none" => lease[q].task # t
    BY <1>1 DEF HeldInv, LeaseHoldsLock
  <2> QED  BY <1>2, <2>1 DEF Living
<1>5. OwnerOf(t)' = None
  BY <1>4 DEF OwnersAt
<1>6. \A u \in Task \ {t} : OwnerOf(u)' = OwnerOf(u)
  BY <1>1, <1>2, OwnersSame DEF Living
<1>7. SettledLogs' = SettledLogs /\ DurableEvents' = DurableEvents
  <2>1. acked' = acked /\ \A r \in Record : SettledLog(r)' = SettledLog(r)
    BY OtherQuiet DEF Holder
  <2> QED  BY <2>1 DEF SettledLogs, DurableEvents
<1>8. TaskOwners[t] # None /\ TaskOwners' = [TaskOwners EXCEPT ![t] = None]
  BY <1>3, <1>5, <1>6 DEF TaskOwners
<1> QED  BY <1>7, <1>8 DEF Promise!Disown

\* An operation ends: its whole events are added by the owner of their task, as
\* durable at once or not, or nothing is.
LEMMA EffectAdds ==
  ASSUME TypeOK, TypeOK', HeldInv, TraceInv, LineInv, GrownInv, SyncedStands,
         SettledAt, SettledAt', OwnersAt, OwnersAt', NEW w \in Thread, Effect(w)
  PROVE  [Promise!Next]_(Promise!vars)
<1> SUFFICES ASSUME NEW r \in Record, r = op[w].rec PROVE [Promise!Next]_(Promise!vars)
  BY EffectMoves
<1>1. \A t \in Task : OwnerOf(t)' = OwnerOf(t)
  BY OwnersStay DEF Advance
<1>2. CASE ~Commit(w) /\ ~FailUndo(w)
  BY <1>1, <1>2, EffectQuiet, Unseen
<1>3. CASE Commit(w) \/ FailUndo(w)
  <2>1. /\ Owing(w)
        /\ \A q \in Record \ {r} : SettledLog(q)' = SettledLog(q)
        /\ SettledLog(r) = op[w].base.log /\ SettledLog(r)' = rec'[r].log
        /\ Begins(op[w].base.log, rec'[r].log)
        /\ Begins(rec'[r].log, op[w].base.log \o op[w].evs)
        /\ \/ acked' = acked
           \/ acked' = [acked EXCEPT ![r] = rec'[r].log] /\ rec'[r].log # op[w].base.log
    BY <1>3, EffectSettles
  <2>2. CASE rec'[r].log = op[w].base.log
    BY <2>1, <2>2, <1>1, Unseen
  <2>3. CASE rec'[r].log # op[w].base.log
    <3>1. rec'[r].log \in Seq(Event)
      BY DEF TypeOK, FilesOK, Content
    <3>2. /\ Promise!Grown(SettledLog(r), SettledLog(r)')
          /\ Promise!Added(SettledLog(r), SettledLog(r)') = {TaskOf(w)} \ {NoTask}
      BY <2>1, <2>3, <3>1, LeftIsGrown
    <3>3. \A t \in {TaskOf(w)} \ {NoTask} : TaskOwners[t] \in Proc
      BY <2>1, WriterOwns DEF TaskOwners, Owing, Busy
    <3>4. /\ SettledLogs[r] = SettledLog(r) /\ SettledLogs'[r] = SettledLog(r)'
          /\ SettledLogs' = [SettledLogs EXCEPT ![r] = SettledLogs'[r]]
      BY <2>1 DEF SettledLogs
    <3>5. /\ DurableEvents'[r] \in {DurableEvents[r], Len(SettledLogs'[r])}
          /\ DurableEvents' = [DurableEvents EXCEPT ![r] = DurableEvents'[r]]
      <4>1. CASE acked' = acked
        BY <4>1 DEF DurableEvents
      <4>2. CASE acked' = [acked EXCEPT ![r] = rec'[r].log]
        <5>1. acked'[r] = rec'[r].log /\ \A q \in Record \ {r} : acked'[q] = acked[q]
          BY <4>2 DEF TypeOK, FilesOK
        <5>2. DurableEvents' = [q \in Record |-> Len(acked'[q])]
          BY DEF DurableEvents
        <5> QED  BY <5>1, <5>2, <2>1, <3>4 DEF DurableEvents
      <4> QED  BY <2>1, <4>1, <4>2
    <3>6. TaskOwners' = TaskOwners
      BY <1>1 DEF TaskOwners
    <3>7. Promise!Add(r)
      BY <3>2, <3>3, <3>4, <3>5, <3>6 DEF Promise!Add
    <3> QED  BY <3>7 DEF Promise!Next
  <2> QED  BY <2>2, <2>3
<1> QED  BY <1>2, <1>3

\* A process dies: it owns nothing, and what it was writing may be there.
LEMMA CrashDies ==
  ASSUME TypeOK, TypeOK', HeldInv, TraceInv, LineInv, GrownInv,
         SettledAt, SettledAt', OwnersAt, OwnersAt', NEW p \in Proc, Crash(p)
  PROVE  Promise!Die(p)
<1>1. lease'[p] = NoLease /\ \A q \in Proc \ {p} : lease'[q] = lease[q]
  BY DEF Crash, TypeOK, LeasesOK
<1>2. ASSUME NEW t \in Task
      PROVE  OwnerOf(t)' = IF OwnerOf(t) = p THEN None ELSE OwnerOf(t)
  <2>1. \A q \in Proc : Living(q, t)' <=> Living(q, t) /\ q # p
    BY <1>1 DEF Living, NoLease
  <2>2. p # None
    BY LedgerAssumption
  <2>3. CASE \E q \in Proc : Living(q, t)
    <3>1. PICK q \in Proc : Living(q, t)
      BY <2>3
    <3>2. OwnerOf(t) = q
      BY <3>1 DEF OwnersAt
    <3>3. CASE q = p
      <4>1. \A s \in Proc : ~Living(s, t)'
        BY <2>1, <3>2, <3>3 DEF OwnersAt
      <4> QED  BY <3>2, <3>3, <4>1 DEF OwnersAt
    <3>4. CASE q # p
      BY <2>1, <3>1, <3>2, <3>4 DEF OwnersAt
    <3> QED  BY <3>3, <3>4
  <2>4. CASE \A q \in Proc : ~Living(q, t)
    BY <2>1, <2>2, <2>4 DEF OwnersAt
  <2> QED  BY <2>3, <2>4
<1>3. TaskOwners' = [t \in Task |-> IF TaskOwners[t] = p THEN None ELSE TaskOwners[t]]
  BY <1>2 DEF TaskOwners
<1>4. ASSUME NEW r \in Record, SettledLogs'[r] # SettledLogs[r]
      PROVE  /\ Promise!Grown(SettledLogs[r], SettledLogs'[r])
             /\ \A t \in Promise!Added(SettledLogs[r], SettledLogs'[r]) : TaskOwners[t] = p
  <2>1. SettledLogs[r] = SettledLog(r) /\ SettledLogs'[r] = SettledLog(r)'
    BY DEF SettledLogs
  <2>2. PICK w \in Thread :
          /\ ProcOf[w] = p /\ Owing(w)
          /\ Promise!Grown(SettledLog(r), SettledLog(r)')
          /\ Promise!Added(SettledLog(r), SettledLog(r)') = {TaskOf(w)} \ {NoTask}
    BY <1>4, <2>1, CrashSettles
  <2>3. \A t \in {TaskOf(w)} \ {NoTask} : TaskOwners[t] = p
    BY <2>2, WriterOwns DEF TaskOwners, Owing, Busy
  <2> QED  BY <2>1, <2>2, <2>3
<1>5. DOMAIN SettledLogs' = Record
  BY DEF SettledLogs
<1>6. DurableEvents' = DurableEvents
  BY DEF Crash, history, DurableEvents
<1> QED  BY <1>3, <1>4, <1>5, <1>6 DEF Promise!Die

\* The machine loses power: the settled events fall back as far as allowed.
LEMMA PowerLossLoses ==
  ASSUME TypeOK, TypeOK', LineInv, GrownInv, SettledAt, SettledAt', OwnersAt', Stored, PowerLoss
  PROVE  Promise!LosePower
<1>1. \A t \in Task : OwnerOf(t)' = None
  BY DEF PowerLoss, OwnersAt, Living, NoLease
<1>2. TaskOwners' = [t \in Task |-> None]
  BY <1>1 DEF TaskOwners
<1>3. acked' = acked
  BY DEF PowerLoss, history
<1>4. ASSUME NEW r \in Record PROVE Promise!FallsBack(r)
  <2>1. FallsTo(SettledLog(r), Len(acked[r]), SettledLog(r)')
    BY PowerLossFalls DEF Stored
  <2>2. /\ SettledLogs[r] = SettledLog(r) /\ SettledLogs'[r] = SettledLog(r)'
        /\ DurableEvents[r] = Len(acked[r])
    BY DEF SettledLogs, DurableEvents
  <2> QED  BY <2>1, <2>2 DEF FallsTo, Promise!FallsBack
<1>5. DOMAIN SettledLogs' = Record /\ DurableEvents' = DurableEvents
  BY <1>3 DEF SettledLogs, DurableEvents
<1> QED  BY <1>2, <1>4, <1>5 DEF Promise!LosePower

LEMMA InitPromised == Init => Promise!Init
<1> SUFFICES ASSUME Init PROVE Promise!Init
  OBVIOUS
<1> DEFINE none == <<>>
<1>1. ASSUME NEW r \in Record PROVE SettledLog(r) = none /\ Len(acked[r]) = 0
  <2>1. rec[r] = Absent /\ acked[r] = none /\ \A w \in Thread : ~Unsettled(r, w)
    BY LedgerAssumption DEF Init, Unsettled
  <2>2. SettledLog(r) = rec[r].log
    BY <2>1 DEF SettledLog
  <2>3. Len(none) = 0
    BY SMT
  <2> HIDE DEF none
  <2> QED  BY <2>1, <2>2, <2>3 DEF Absent, Whole, none
<1>2. \A t \in Task : OwnerOf(t) = None
  BY DEF Init, OwnerOf, NoLease
<1>3. SettledLogs = [r \in Record |-> none] /\ DurableEvents = [r \in Record |-> 0]
  BY <1>1 DEF SettledLogs, DurableEvents
<1>4. TaskOwners = [t \in Task |-> None]
  BY <1>2 DEF TaskOwners
<1> QED  BY <1>3, <1>4 DEF Promise!Init

\* What they say of a state, they say of the next.
LEMMA SettledIsNext ==
  /\ TypeOK' /\ TraceInv' /\ LockOwned' => SettledAt'
  /\ HeldInv' => OwnersAt'
BY SettledIs, OwnersIs, PTL

\* What the refinement relies on at a state.
LedgerInv ==
  /\ TypeOK /\ HeldInv /\ TraceInv /\ LineInv /\ GrownInv
  /\ LockOwned /\ SyncedStands /\ Stored

LEMMA LedgerInit == Init => LedgerInv
BY InitType, HeldInit, TraceInit, LineInit, GrownInit, OwnedInit, StoredInit DEF LedgerInv

LEMMA LedgerNext == LedgerInv /\ [Next]_vars => LedgerInv'
<1> SUFFICES ASSUME LedgerInv, [Next]_vars PROVE LedgerInv'
  OBVIOUS
<1>1. TypeOK /\ HeldInv /\ TraceInv /\ LineInv /\ GrownInv /\ LockOwned /\ SyncedStands /\ Stored
  BY DEF LedgerInv
<1>2. TypeOK' /\ HeldInv' /\ TraceInv' /\ LineInv' /\ GrownInv' /\ LockOwned' /\ SyncedStands'
  BY <1>1, NextType, HeldNext, TraceNext, LineNext, GrownNext, LockOwnedNext, SyncedStandsNext
<1>3. SettledAt /\ SettledAt'
  BY <1>1, <1>2, SettledIs, SettledIsNext
<1>4. Stored'
  BY <1>1, <1>2, <1>3, StoredNext
<1> QED  BY <1>2, <1>4 DEF LedgerInv

\* Every step of the store is a step of the abstract ledger, or none.
LEMMA LedgerRefines ==
  ASSUME LedgerInv, LedgerInv', [Next]_vars
  PROVE  [Promise!Next]_(Promise!vars)
<1>1. /\ TypeOK /\ HeldInv /\ TraceInv /\ LineInv /\ GrownInv /\ SyncedStands /\ Stored
      /\ TypeOK' /\ SettledAt /\ OwnersAt
  BY SettledIs, OwnersIs DEF LedgerInv
<1>2. SettledAt' /\ OwnersAt'
  BY SettledIsNext DEF LedgerInv
<1>3. ASSUME NEW w \in Thread, Effect(w) PROVE [Promise!Next]_(Promise!vars)
  BY <1>1, <1>2, <1>3, EffectAdds
<1>4. ASSUME NEW p \in Proc, Admit(p) \/ End(p) \/ Crash(p) PROVE Promise!Next
  <2>1. CASE Admit(p)
    BY <1>1, <1>2, <2>1, AdmitOwns DEF Promise!Next
  <2>2. CASE End(p)
    BY <1>1, <1>2, <2>2, EndDisowns DEF Promise!Next
  <2>3. CASE Crash(p)
    BY <1>1, <1>2, <2>3, CrashDies DEF Promise!Next
  <2> QED  BY <1>4, <2>1, <2>2, <2>3
<1>5. PowerLoss => Promise!Next
  BY <1>1, <1>2, PowerLossLoses DEF Promise!Next
<1>6. ASSUME \/ \E w \in Thread : Ask(w) \/ Decide(w)
             \/ \E p \in Proc : Reject(p) \/ Free(p) \/ Close(p)
                                \/ \E t \in Task, r \in Record : Acquire(p, t, r)
             \/ Activate
             \/ UNCHANGED vars
      PROVE  UNCHANGED Promise!vars
  <2>1. acked' = acked /\ \A r \in Record : SettledLog(r)' = SettledLog(r)
    BY <1>1, <1>2, <1>6, OtherQuiet DEF Holder
  <2>2. \A t \in Task : OwnerOf(t)' = OwnerOf(t)
    BY <1>1, <1>2, <1>6, OwnersStay DEF Advance
  <2> QED  BY <2>1, <2>2, Unseen
<1> QED  BY <1>3, <1>4, <1>5, <1>6 DEF Next, Advance, Holder

\* Every run of the store, whatever fails in it and whoever dies, is a run of
\* the abstract ledger: histories that grow by whole events, each continuing its
\* task's lineage and added by the task's one owner, and nothing durable lost.
THEOREM LedgerImplements == Spec => ImplementsTaskLedger
<1>1. Init => LedgerInv
  BY LedgerInit
<1>2. LedgerInv /\ [Next]_vars => LedgerInv'
  BY LedgerNext
<1>3. Init => Promise!Init
  BY InitPromised
<1>4. LedgerInv /\ LedgerInv' /\ [Next]_vars => [Promise!Next]_(Promise!vars)
  BY LedgerRefines
<1> QED  BY <1>1, <1>2, <1>3, <1>4, PTL DEF Spec, ImplementsTaskLedger, Promise!Spec
=============================================================================
