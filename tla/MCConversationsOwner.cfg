SPECIFICATION Spec
CONSTANTS
  Members = {u1}
  Messages = {m1}
  Runs = {r1}
  MaxVersion = 2
  MaxSent = 0
  Nobody = Nobody
  NoMessage = NoMessage
CHECK_DEADLOCK FALSE
PROPERTIES
  OnlyOwnerSends
