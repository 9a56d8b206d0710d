------------------------------ MODULE TaskLedger ------------------------------
(***************************************************************************)
(* What the session store promises the engine, without its locks, files    *)
(* and failures: each record is a history that grows by whole events; a    *)
(* task's events are added only by the one process that owns the task, and *)
(* only where they continue the task's lineage; what was made durable is   *)
(* never lost.  When the machine loses power a history falls back, never   *)
(* behind what is durable, and one operation whose outcome was unknown may *)
(* turn out to have happened there.                                        *)
(***************************************************************************)
EXTENDS Lineage

CONSTANTS Record, Proc, None

VARIABLES hist,    \* the settled events of each record
          safe,    \* how many of them are durable
          owner    \* the process each task is owned by

vars == <<hist, safe, owner>>

Init == /\ hist = [r \in Record |-> <<>>]
        /\ safe = [r \in Record |-> 0]
        /\ owner = [t \in Task |-> None]

\* The event e continues the lineage that log holds.
Continues(log, e) ==
  \/ e.task = NoTask
  \/ e.kind = "root" /\ Turns(log, e.task) = {}
  \/ /\ e.kind = "bound"
     /\ Established(log, e.task)
     /\ e.holder = HolderOf(log, e.task)
     /\ e.parent = TipOf(log, e.task)
     /\ \A i \in Turns(log, e.task) : log[i].sess # e.sess
  \/ /\ e.kind \notin {"root", "bound"}
     /\ Established(log, e.task)
     /\ e.sess = TipOf(log, e.task)

\* The new history is the old one and an operation's events more, one event
\* or a unit of two, each continuing it.
Grown(old, new) ==
  /\ IsPrefix(old, new)
  /\ Len(new) - Len(old) \in 1..2
  /\ \A i \in Len(old) + 1 .. Len(new) : Continues(SubSeq(new, 1, i - 1), new[i])

\* Whose tasks the events are that new adds to old.
Added(old, new) ==
  {new[i].task : i \in Len(old) + 1 .. Len(new)} \ {NoTask}

Own(t, p) ==
  /\ owner[t] = None
  /\ owner' = [owner EXCEPT ![t] = p]
  /\ UNCHANGED <<hist, safe>>

Disown(t) ==
  /\ owner[t] # None
  /\ owner' = [owner EXCEPT ![t] = None]
  /\ UNCHANGED <<hist, safe>>

\* One operation of a task's owner, durable at once or not.
Add(r) ==
  /\ Grown(hist[r], hist'[r])
  /\ \A t \in Added(hist[r], hist'[r]) : owner[t] \in Proc
  /\ hist' = [hist EXCEPT ![r] = hist'[r]]
  /\ safe'[r] \in {safe[r], Len(hist'[r])}
  /\ safe' = [safe EXCEPT ![r] = safe'[r]]
  /\ UNCHANGED owner

\* A process dies: it owns nothing any more, and the operation it was in may
\* have happened.
Die(p) ==
  /\ owner' = [t \in Task |-> IF owner[t] = p THEN None ELSE owner[t]]
  /\ \A r \in Record : hist'[r] # hist[r] =>
       /\ Grown(hist[r], hist'[r])
       /\ \A t \in Added(hist[r], hist'[r]) : owner[t] = p
  /\ DOMAIN hist' = Record
  /\ UNCHANGED safe

\* The history may fall back to any prefix that keeps what is durable, with
\* the events of at most one unsettled operation after it.
FallsBack(r) ==
  \E n \in safe[r]..Len(hist[r]) :
    LET kept == SubSeq(hist[r], 1, n)
    IN hist'[r] = kept \/ Grown(kept, hist'[r])

LosePower ==
  /\ owner' = [t \in Task |-> None]
  /\ DOMAIN hist' = Record
  /\ \A r \in Record : FallsBack(r)
  /\ UNCHANGED safe

Next ==
  \/ \E t \in Task, p \in Proc : Own(t, p)
  \/ \E t \in Task : Disown(t)
  \/ \E r \in Record : Add(r)
  \/ \E p \in Proc : Die(p)
  \/ LosePower

Spec == Init /\ [][Next]_vars
=============================================================================
