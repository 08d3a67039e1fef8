SPECIFICATION Spec
CONSTANTS
  Targets = {t1, t2, t3}
  ActiveTargets = {t1, t2}
  Keys = {k1, k2, k3, k4, k5}
  Quantities = {1, 2}
  MaxStock = 3
  NoReservation = NoReservation
SYMMETRY Symmetry
CHECK_DEADLOCK FALSE
INVARIANTS
  StockBounds
  LedgerExplainsBalance
  KeyAppliedOnce
  SettledOnce
  ReservedIsActiveSum
