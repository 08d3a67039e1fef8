SPECIFICATION DeskSpec
CONSTANTS
  Drafts = {d1}
  Keys = {k1, k2, k3}
  Targets = {t1}
  Quotes = {q1}
  Quantities = {1}
  MaxStock = 1
  MaxVersion = 2
  NoOrder = NoOrder
  NoCommand = NoCommand
CHECK_DEADLOCK FALSE
INVARIANTS
  CancellationAllowed
