CONSTANTS
  Principal = {p1}
  Workspace = {here}
  Task = {t1, t2}
  NoTask = NoTask
  LeaseId = {l1, l2}
  Cred = p1
  Here = here
  TurnId = {u1, u2}
  Caller = {c1}
  Nobody = Nobody
SYMMETRY Symmetry
SPECIFICATION Spec
INVARIANTS
  OneHolder
  AskedIsBound
  AnsweredByAsked
  NoSubstitution
PROPERTY EndedForGood
