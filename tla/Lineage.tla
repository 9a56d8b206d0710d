------------------------------- MODULE Lineage -------------------------------
(***************************************************************************)
(* The session lineage of a task, as internal/session/lineage.go           *)
(* reconstructs it from one session record: a pure function of the         *)
(* record's events, shared by every reader and every writer of the ledger. *)
(*                                                                         *)
(* An event is reduced to what the lineage tells apart: the task it names, *)
(* the session that wrote it, whether it is the task's TaskCreated root, a *)
(* SessionLineageBound transition or any other record, the holder and the  *)
(* parent a transition states, and "ok": its framing, source, relation and *)
(* payload are those of its kind (validFraming, ValidGovernedEvent,        *)
(* validTaskRoot, DecodeExactlyOne; for a transition also that it was      *)
(* written by the session it makes current).                               *)
(*                                                                         *)
(* Reconstruct is the code's one pass over the record.  The operators      *)
(* after it say the same without a pass, position by position; they are    *)
(* what the ledger's specification and its proofs use.  LineageCheck       *)
(* compares the two on every small record, RecordsProofs on every one.     *)
(***************************************************************************)
EXTENDS Naturals, Sequences, FiniteSets, SequencesExt

CONSTANTS Task, Session, NoTask, NoSession

ASSUME LineageAssumption == NoTask \notin Task /\ NoSession \notin Session

\* TaskCreated, SessionLineageBound, the receipt that opens an append unit, and
\* any other kind of the governed registry; a record of no task is a diagnostic.
Kinds == {"root", "bound", "receipt", "other"}

Event == [task : Task \cup {NoTask}, sess : Session, kind : Kinds,
          holder : Session \cup {NoSession}, parent : Session \cup {NoSession},
          ok : BOOLEAN]

-----------------------------------------------------------------------------
(* The pass over the record.  Positions count from 1, so root = 0 is the   *)
(* code's Root = -1, and refused = 0 says that no record was refused.      *)

NoLineage == [root |-> 0, holder |-> NoSession, segs |-> <<>>, refused |-> 0]

Tip(l) == IF l.segs = <<>> THEN NoSession ELSE l.segs[Len(l.segs)].sess

Includes(l, s) == \E k \in DOMAIN l.segs : l.segs[k].sess = s

OwnerAt(l, i) ==
  LET held == {k \in DOMAIN l.segs : l.segs[k].from <= i}
  IN IF held = {} THEN NoSession
     ELSE l.segs[CHOOSE k \in held : \A j \in held : j <= k].sess

\* Fault: a transition from a session that is no longer current.
AdmitsFromMember(l, e) == e.holder = l.holder /\ Includes(l, e.parent) /\ ~Includes(l, e.sess)

\* The transition e is exactly the next one that l owes.
Admits(l, e) == /\ e.holder = l.holder
                /\ e.parent = Tip(l)
                /\ ~Includes(l, e.sess)

RefusedAt(l, i) == [l EXCEPT !.refused = i]

Segment(e, i) == [sess |-> e.sess, from |-> i]

Step(l, e, i) ==
  CASE e.kind = "root" ->
         IF l.root = 0 /\ e.ok
         THEN [l EXCEPT !.root = i, !.holder = e.sess, !.segs = <<Segment(e, i)>>]
         ELSE RefusedAt(l, i)
    [] e.kind = "bound" ->
         IF e.ok /\ l.root # 0 /\ Admits(l, e)
         THEN [l EXCEPT !.segs = Append(@, Segment(e, i))]
         ELSE RefusedAt(l, i)
    [] OTHER -> IF l.root # 0 /\ ~e.ok THEN RefusedAt(l, i) ELSE l

\* The partial lineage validated before the first refused record, and which
\* record that is.
Reconstruct(log, t) ==
  FoldLeftDomain(LAMBDA l, i : IF l.refused # 0 \/ log[i].task # t THEN l
                               ELSE Step(l, log[i], i),
                 NoLineage, log)

IsEstablished(l) == l.refused = 0 /\ l.root # 0

\* Fault: every session that was ever bound may write.
AuthorizeAppendOfMember(log, e) ==
  LET l == Reconstruct(log, e.task)
  IN /\ e.kind # "bound"
     /\ e.ok
     /\ \/ e.task = NoTask
        \/ /\ e.kind = "root"
           /\ l.refused = 0 /\ l.root = 0
        \/ /\ e.kind # "root"
           /\ IsEstablished(l)
           /\ Includes(l, e.sess)

\* What a generic append needs of the record as it stands.  A transition is
\* never generic; the root is admitted only where the task has none.
AuthorizeAppend(log, e) ==
  LET l == Reconstruct(log, e.task)
  IN /\ e.kind # "bound"
     /\ e.ok
     /\ \/ e.task = NoTask
        \/ /\ e.kind = "root"
           /\ l.refused = 0 /\ l.root = 0
        \/ /\ e.kind # "root"
           /\ IsEstablished(l)
           /\ e.sess = Tip(l)

\* What a lineage binding needs of it: the transition it owes now.
AuthorizeBinding(log, e) ==
  LET l == Reconstruct(log, e.task)
  IN e.kind = "bound" /\ e.ok /\ IsEstablished(l) /\ Admits(l, e)

\* The class of the record at position i in the history of its task.
Class(log, i) ==
  LET l == Reconstruct(log, log[i].task)
  IN CASE l.refused = 0 /\ l.root = 0 -> "pre_root"
       [] l.refused # 0 /\ i >= l.refused -> "malformed"
       [] OTHER ->
            IF ~log[i].ok THEN "malformed"
            ELSE CASE OwnerAt(l, i) = NoSession -> "pre_root"
                   [] log[i].sess = OwnerAt(l, i) -> "lineage_member"
                   [] OTHER -> "foreign"

-----------------------------------------------------------------------------
(* The same lineage, stated by positions.                                  *)

Roots(log, t) == {i \in DOMAIN log : log[i].task = t /\ log[i].kind = "root"}

Bounds(log, t) == {i \in DOMAIN log : log[i].task = t /\ log[i].kind = "bound"}

Turns(log, t) == Roots(log, t) \cup Bounds(log, t)

\* The last position of the set S of positions.
Latest(S) == CHOOSE i \in S : \A j \in S : j <= i

\* The session that is current once the first n records are read.
TipAt(log, t, n) ==
  LET S == {i \in Turns(log, t) : i <= n}
  IN IF S = {} THEN NoSession ELSE log[Latest(S)].sess

TipOf(log, t) == TipAt(log, t, Len(log))

HolderOf(log, t) == log[CHOOSE i \in Roots(log, t) : TRUE].sess

Rooted(log, t) == Roots(log, t) # {}

\* Every turn is the one the record owed where it stands, and nothing of the
\* task after its root is malformed.
Established(log, t) ==
  /\ \E r \in Roots(log, t) :
       /\ log[r].ok
       /\ \A i \in Turns(log, t) : i # r => i > r
       /\ \A i \in DOMAIN log : log[i].task = t /\ i > r => log[i].ok /\ log[i].kind # "root"
  /\ \A i \in Bounds(log, t) :
       /\ log[i].holder = HolderOf(log, t)
       /\ log[i].parent = TipAt(log, t, i - 1)
       /\ \A j \in Turns(log, t) : j # i => log[j].sess # log[i].sess
=============================================================================
