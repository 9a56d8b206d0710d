CONSTANTS
  Process = {run, control}
  NoProcess = none
  Turn = {t1}
SPECIFICATION Spec
PROPERTY OnlyAbandonedAreWithdrawn
