CONSTANTS
  Task = {t1}
  Session = {s1, s2, s3}
  NoTask = NoTask
  NoSession = NoSession
  MaxLog = 4
  Invocation = {i1, i2}
  Run = i1
  Engine = {e1}
  None = None
  Talker = {i1}
  MaxAsked = 1
  Cause = {"stop"}
  Process = {run, control}
  NoProcess = none
  Turn = {u1, u2}
  Comment = {k1, k2}
  Objective = {o1, o2}
  Delivery = {d1, d2}
  Approver = {a1, a2}
  Bystander = {b}
  MaxExecution = 3
  MaxCheckpoint = 4
  MaxSession = 2
  MaxAttempts = 3
SYMMETRY Symmetry
SPECIFICATION Spec
INVARIANTS
  PublishedInOrder AccountedOnce OverIsOver
  PassAgreesWithPositions NoneForgotten ReceiptedIsProposed SubmittedOnce
  RecordIsTrue TouchedIsQuiet ReturnedStands PriorIsTrue
PROPERTIES WritersMatchReaders NothingPastTheEnd
