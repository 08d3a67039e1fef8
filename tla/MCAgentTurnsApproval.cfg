SPECIFICATION Spec
CONSTANTS
  Messages = {m1, m2}
  Drafts = {d1}
  DeskKeys = {k1}
  MaxVersion = 5
  MaxWrites = 5
  MaxTries = 1
  MaxRetried = 1
  MaxLate = 0
  Null = Null
CHECK_DEADLOCK FALSE
PROPERTIES
  ConfirmedAsShown
