CONSTANTS
  Invocation = {i1, i2}
  Run = i1
  Engine = {e1}
  None = None
  Talker = {}
  MaxAsked = 1
  Cause = {"deadline"}
SPECIFICATION Spec
CHECK_DEADLOCK FALSE
PROPERTY StoppedIsNotFailed
