------------------------------ MODULE WaitsProofs ------------------------------
(***************************************************************************)
(* What is proved of the waits of a task's run (MCWaits), for any number   *)
(* of invocations, engines and questions.  That they end is not: it is a   *)
(* property of fairness.                                                   *)
(***************************************************************************)
EXTENDS MCWaits, TLAPS

In(c) == component = c

LEMMA InTheRuns ==
  /\ Init /\ In("runs") => Runs!Init
  /\ In("runs") /\ [Next]_vars => In("runs")' /\ [Runs!Next]_Runs!vars
  /\ ~In("runs") /\ [Next]_vars => ~In("runs")'
BY DEF Init, Next, InControl, InRuns, Returned, vars, runs, Runs!vars, In

\* An answer is read by the question it was given to, however an earlier question
\* of the same task timed out, was withdrawn or was answered late.
THEOREM AnswersAreOfTheirQuestion ==
  ASSUME WaitsAssumption PROVE Spec => []AnswersItsQuestion
<1>1. Runs!Steps => []Runs!AnswersItsQuestion
  BY Runs!AnswersReachTheirQuestion DEF WaitsAssumption
<1>2. (~In("runs") => AnswersItsQuestion) /\ (Runs!AnswersItsQuestion => AnswersItsQuestion)
  BY DEF AnswersItsQuestion, In
<1> QED  BY <1>1, <1>2, InTheRuns, PTL DEF Spec, Runs!Steps
================================================================================
