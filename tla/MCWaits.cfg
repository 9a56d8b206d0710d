CONSTANTS
  Task = {t1}
  NoTask = NoTask
  None = None
  Principal = {c1}
  Workspace = {here}
  LeaseId = {l1, l2}
  Cred = c1
  Here = here
  TurnId = {u1}
  Caller = {k1, k2}
  Nobody = Nobody
  Invocation = {i1}
  Run = i1
  Engine = {e1}
  Talker = {i1}
  MaxAsked = 2
  Cause = {"stop", "deadline"}
SPECIFICATION Spec
INVARIANT AnswersItsQuestion
PROPERTIES NobodyAwaitsTheGone WithdrawnReturns
