CONSTANTS
  Candidate = {c}
  Provider = {p}
  Handler = {h1, h2}
  MaxRequest = 1
  MaxReceipt = 2
  MaxAnswer = 0
  Digest <- MCDigest
  Material <- MCMaterial
SPECIFICATION Spec
CHECK_DEADLOCK FALSE
INVARIANT OneReceipt
