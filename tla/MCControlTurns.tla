---------------------------- MODULE MCControlTurns ----------------------------
(* Bounded instances of ControlTurns: one server of one workspace, whose      *)
(* credential names one principal.  Tasks and identities are interchangeable. *)
EXTENDS ControlTurns, TLC

Symmetry == {f @@ g @@ h : f \in Permutations(Task), g \in Permutations(LeaseId), h \in Permutations(TurnId)}
=============================================================================
