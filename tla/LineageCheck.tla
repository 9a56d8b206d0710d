---------------------------- MODULE LineageCheck ----------------------------
(***************************************************************************)
(* Every session record of at most MaxLog events, grown one event at a     *)
(* time.  Nothing here is a writer of the program: the events are          *)
(* arbitrary, malformed ones included, because a record is read back from  *)
(* a disk that other builds and other hands have written.                  *)
(***************************************************************************)
EXTENDS Lineage

CONSTANT MaxLog

VARIABLE log

\* The shapes of event that lineage.go tells apart.  A root and an ordinary
\* record state no holder and no parent; a malformed transition is refused
\* before either is read.
Inputs ==
  [task : Task, sess : Session, kind : {"root", "other"},
   holder : {NoSession}, parent : {NoSession}, ok : BOOLEAN]
  \cup [task : Task, sess : Session, kind : {"bound"},
        holder : Session, parent : Session, ok : {TRUE}]
  \cup [task : Task, sess : Session, kind : {"bound"},
        holder : {NoSession}, parent : {NoSession}, ok : {FALSE}]

Init == log = <<>>

Grow == Len(log) < MaxLog /\ \E e \in Inputs : log' = Append(log, e)

Spec == Init /\ [][Grow]_log

-----------------------------------------------------------------------------
Newest == Len(log')

LastIsMember == Class(log', Newest) = "lineage_member"

LastIsAuthorized ==
  AuthorizeAppend(log, log'[Newest]) \/ AuthorizeBinding(log, log'[Newest])

\* TaskSessionLineage's one pass finds a lineage exactly when every turn of
\* the task stands where the record owed it, and then names the same holder,
\* the same tip and the same owner of every position.
PassAgreesWithPositions ==
  \A t \in Task :
    LET l == Reconstruct(log, t)
    IN /\ IsEstablished(l) <=> Established(log, t)
       /\ IsEstablished(l) =>
            /\ l.holder = HolderOf(log, t)
            /\ Tip(l) = TipOf(log, t)
            /\ \A i \in DOMAIN log : OwnerAt(l, i) = TipAt(log, t, i)

\* The writers' check and the readers' check are one: over every record, an
\* event is admitted by authorizeAppend or as the owed binding exactly when
\* ClassifyTaskHistory will count it a lineage member where it is written.
WritersMatchReaders == [][LastIsAuthorized <=> LastIsMember]_log
=============================================================================
