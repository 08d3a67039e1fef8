SPECIFICATION DeskSpec
CONSTANTS
  Drafts = {d1, d2}
  Keys = {k1, k2, k3}
  Targets = {t1, t2}
  Quotes = {q1}
  Quantities = {1}
  MaxStock = 1
  MaxVersion = 4
  NoOrder = NoOrder
  NoCommand = NoCommand
SYMMETRY Symmetry
CHECK_DEADLOCK FALSE
INVARIANTS
  OneOrderPerDraft
  OrdersKeepTheirStock
PROPERTIES
  OrderedAsApproved
  ImplementsOrderContract
