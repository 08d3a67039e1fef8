SPECIFICATION FairSpec
CONSTANTS
  Jobs = {j1, j2}
  Workers = {w1, w2}
  Names = {w1, w2}
  NameOf <- OwnNames
  MaxAttempts = 2
  Nobody = Nobody
  NoJob = NoJob
CHECK_DEADLOCK FALSE
INVARIANTS
  TypeOK
  OutcomeIsTrue
  SentAgainOnlyIfUnclear
PROPERTIES
  SettledByItsClaim
  EveryJobEnds
