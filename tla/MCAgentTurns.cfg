SPECIFICATION Spec
CONSTANTS
  Messages = {m1, m2}
  Drafts = {d1, d2}
  DeskKeys = {k1}
  MaxVersion = 4
  MaxWrites = 4
  MaxTries = 2
  MaxRetried = 1
  MaxLate = 1
  Null = Null
SYMMETRY Symmetry
CHECK_DEADLOCK FALSE
INVARIANTS
  TypeOK
  ActiveDraftIsLinked
  OneOrderPerDraft
  RepliesAreTrue
