CONSTANTS
  Client = {a, b}
  Nested = n
  MaxAttempt = 1
  MaxEdit = 1
  Task = {t1}
  Session = {s1}
  NoTask = NoTask
  NoSession = NoSession
  File = {r1}
  Proc = {p1}
  Thread = {w1, w2}
  Owner = p1
  Operator = Operator
  None = None
  Asked = {"root", "durable", "continue", "diagnostic"}
  Tears = {"torn"}
  MaxLog = 1
SPECIFICATION Spec
INVARIANTS NoStaleEffect SettledIsOver
PROPERTIES NoLostEdit EveryoneReturns LaunchReturns ReleaseReturns
