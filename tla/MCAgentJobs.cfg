SPECIFICATION FairJobSpec
CONSTANTS
  Members = {u1}
  Messages = {m1}
  Workers = {w1, w2}
  MaxAttempts = 2
  Runs <- MCRuns
  MaxVersion = 2
  MaxSent = 0
  Nobody = Nobody
  NoMessage = NoMessage
CHECK_DEADLOCK FALSE
INVARIANTS
  CompletedIsTold
PROPERTIES
  SettledOnce
  EveryJobEnds
  EveryRunEnds
