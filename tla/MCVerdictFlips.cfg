CONSTANTS
  Implementors = 2
  ReviewCycles = 2
  Allowance = 2
  Code = {f}
  Proof = {}
SPECIFICATION Spec
CHECK_DEADLOCK FALSE
INVARIANT NoVerdictFlips
