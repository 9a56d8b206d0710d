--------------------------- MODULE ReviewPromise ---------------------------
(***************************************************************************)
(* What the review exchange of one task promises, without its mailbox, its *)
(* files, its processes or their failures.  A review is asked for under    *)
(* increasing request numbers.  A request asked for is owed until either   *)
(* the verdict that answers it is told, or a later request has replaced    *)
(* it.  A request is answered at most once and its answer never changes.   *)
(***************************************************************************)
EXTENDS Naturals

CONSTANTS MaxRequest, Digest

VARIABLES asked,    \* the requests ever recorded as owed
          owed,     \* those owed now
          answer,   \* what each answered request is answered by
          told      \* the verdicts handed to the workflow

vars == <<asked, owed, answer, told>>

Request == 1..MaxRequest

Init == /\ \/ asked = {}
           \/ asked = {1}
        /\ owed = asked
        /\ answer = << >>
        /\ told = {}

\* A new request is owed; at most the one it replaces is owed beside it.
Ask(r) == /\ \A q \in asked : q < r
          /\ \A p, q \in owed : p = q
          /\ asked' = asked \cup {r}
          /\ owed' = owed \cup {r}
          /\ UNCHANGED <<answer, told>>

\* A request is given up only for a later one that is already owed.
Replace(q) == /\ q \in owed
              /\ \E r \in owed : q < r
              /\ owed' = owed \ {q}
              /\ UNCHANGED <<asked, answer, told>>

Answer(r, d) == /\ r \in asked \ DOMAIN answer
                /\ answer' = [q \in DOMAIN answer \cup {r} |->
                                IF q = r THEN d ELSE answer[q]]
                /\ UNCHANGED <<asked, owed, told>>

\* The one request owed is settled by telling the answer it has.
Tell(r) == /\ owed = {r}
           /\ r \in DOMAIN answer
           /\ owed' = {}
           /\ told' = told \cup {<<r, answer[r]>>}
           /\ UNCHANGED <<asked, answer>>

Next == \E r \in Request : \/ Ask(r)
                           \/ Replace(r)
                           \/ \E d \in Digest : Answer(r, d)
                           \/ Tell(r)

Spec == Init /\ [][Next]_vars
=============================================================================
