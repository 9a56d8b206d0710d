CONSTANTS
  Candidate = {c1, c2}
  Provider = {p}
  Handler = {h}
  MaxRequest = 2
  MaxReceipt = 2
  MaxAnswer = 2
  Digest <- MCDigest
  Material <- MCMaterial
  Implementors = 2
  ReviewCycles = 2
  Allowance = 2
  Code = {f}
  Proof = {g}
SPECIFICATION Spec
CHECK_DEADLOCK FALSE
INVARIANTS RelayedIsPublished OneReceipt ReviewedIsAnswered CountedIsCommitted
PROPERTIES ImplementsReviewPromise RunAdvances
