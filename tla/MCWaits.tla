-------------------------------- MODULE MCWaits --------------------------------
(***************************************************************************)
(* What a task's run waits for: the answer to a turn it asked of a party   *)
(* that may be gone, and its own end once it was withdrawn.  Each is a     *)
(* question about one component, in an instance small enough for liveness; *)
(* every behaviour is one of a single component chosen at the start, and   *)
(* the state of the other is unused.                                       *)
(***************************************************************************)
EXTENDS Naturals, Sequences

CONSTANTS Principal, Workspace, Task, NoTask, LeaseId, Cred, Here, TurnId, Caller,
          Nobody,
          Invocation, Run, Engine, None, Talker, MaxAsked, Cause

VARIABLES component,
          leases, turns, open, delegations, ask, call,
          inv, em, admitted, gate, lease, record, published, stops, timedOut, hand

Control == INSTANCE ControlTurns
\* With its theorems, which speak of this instance too.
Runs    == INSTANCE EngineProofs

ASSUME WaitsAssumption == Runs!EngineAssumption

control == <<leases, turns, open, delegations, ask, call>>
runs    == <<inv, em, admitted, gate, lease, record, published, stops, timedOut, hand>>
vars    == <<component, control, runs>>

NoControl == /\ leases = "unused"
             /\ turns = "unused"
             /\ open = "unused"
             /\ delegations = "unused"
             /\ ask = "unused"
             /\ call = "unused"

NoRuns == /\ inv = "unused"
          /\ em = "unused"
          /\ admitted = "unused"
          /\ gate = "unused"
          /\ lease = "unused"
          /\ record = "unused"
          /\ published = "unused"
          /\ stops = "unused"
          /\ timedOut = "unused"
          /\ hand = "unused"

Init == \/ component = "control" /\ Control!Init /\ NoRuns
        \/ component = "runs"    /\ Runs!Init    /\ NoControl

InControl == component = "control" /\ UNCHANGED <<component, runs>>
InRuns    == component = "runs"    /\ UNCHANGED <<component, control>>

\* A run that returned does nothing more.
Returned == component = "runs" /\ UNCHANGED vars

Next == (InControl /\ Control!Next) \/ (InRuns /\ Runs!Next) \/ Returned

\* The fairness of each component, as its own module states it.
Fairness ==
  /\ \A t \in Task : WF_vars(InControl /\ Control!Await(t))
  /\ WF_vars(InRuns /\ Runs!Open)
  /\ \A i \in Invocation : /\ WF_vars(InRuns /\ Runs!Proceed(i))
                           /\ WF_vars(InRuns /\ inv[i].done /\ Runs!Fail(i))
                           /\ \A g \in {"main", "role"} : WF_vars(InRuns /\ Runs!Emit(<<i, g>>))

Spec == Init /\ [][Next]_vars /\ Fairness

\* A runner stops waiting for a party whose role session ended (ControlTurns).
NobodyAwaitsTheGone ==
  \A t \in Task, l \in LeaseId :
    component = "control" /\ Control!Waiting(t) /\ ask[t].sess = l /\ Control!Over(leases[l])
      ~> component = "control" /\ ~Control!Waiting(t)

\* A withdrawn invocation returns, and the lease is free of it (EngineRuns).
WithdrawnReturns ==
  \A i \in Invocation :
    component = "runs" /\ inv[i].done /\ inv[i].phase # "fresh"
      ~> component = "runs" /\ inv[i].phase = "returned" /\ lease # i

\* An answer is read by the question it was given to (EngineRuns).
AnswersItsQuestion == component = "runs" => Runs!AnswersItsQuestion
================================================================================
