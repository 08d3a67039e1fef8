SPECIFICATION Spec
CONSTANTS
  Jobs = {j1}
  Workers = {w1, w2}
  Names = {w1, w2}
  NameOf <- OwnNames
  MaxAttempts = 2
  Nobody = Nobody
  NoJob = NoJob
SYMMETRY Symmetry
CHECK_DEADLOCK FALSE
INVARIANTS
  DeadLettersAudited
