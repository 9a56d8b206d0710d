--------------------------- MODULE MCSessionLedger ---------------------------
(***************************************************************************)
(* Bounded instances of SessionLedger: two processes of a thread each, or  *)
(* one process of two; one or two records; two sessions.                   *)
(***************************************************************************)
EXTENDS SessionLedger, TLC

CONSTANTS p1, p2, w1, w2

\* One thread in each process.
OnePerProcess == w1 :> p1 @@ w2 :> p2

\* One process with two threads.
TwoInOne == w1 :> p1 @@ w2 :> p1

\* Sessions are interchangeable; so are records; and so are the processes,
\* each with its thread.
Exchanged == {p1 :> p1 @@ p2 :> p2 @@ w1 :> w1 @@ w2 :> w2,
              p1 :> p2 @@ p2 :> p1 @@ w1 :> w2 @@ w2 :> w1}

Symmetry ==
  {s @@ r @@ x : s \in Permutations(Session), r \in Permutations(Record), x \in Exchanged}
=============================================================================
