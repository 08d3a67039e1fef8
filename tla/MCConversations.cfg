SPECIFICATION Spec
CONSTANTS
  Members = {u1, u2}
  Messages = {m1, m2}
  Runs = {r1, r2, r3}
  MaxVersion = 4
  MaxSent = 1
  Nobody = Nobody
  NoMessage = NoMessage
SYMMETRY Symmetry
CHECK_DEADLOCK FALSE
INVARIANTS
  TypeOK
  HandoffFollowsConversation
  NoticeIffHandoff
  VersionIdentifiesState
PROPERTIES
  ToldOnce
