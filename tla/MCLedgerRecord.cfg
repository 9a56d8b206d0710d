CONSTANTS
  Task = {t1}
  Session = {s1, s2}
  NoTask = NoTask
  NoSession = NoSession
  Record = {r1}
  p1 = p1
  p2 = p2
  w1 = w1
  w2 = w2
  Proc = {p1, p2}
  Thread = {w1, w2}
  ProcOf <- OnePerProcess
  Operator = Operator
  None = None
  Asked = {"root", "bind", "append", "unit"}
  Tears = {"torn", "ambiguous", "corrupt"}
  MaxLog = 4
SYMMETRY Symmetry
SPECIFICATION Spec
INVARIANT RefusedLeavesNoTrace
PROPERTY ImplementsTaskLedger
