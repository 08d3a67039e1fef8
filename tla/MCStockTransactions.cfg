SPECIFICATION FairSpec
CONSTANTS
  h1 = h1  h2 = h2  h3 = h3
  k1 = k1  k2 = k2  k3 = k3  k4 = k4  k5 = k5
  o1 = o1  o2 = o2
  t1 = t1  t2 = t2
  Keys = {k1, k2, k3, k4, k5}
  Orders = {o1, o2}
  Targets = {t1, t2}
  OrderItems <- MCOrderItems
  Work <- MCWork
  Stock <- MCStock
  MaxStock = 3
  Handlers = {h1, h2, h3}
  Nobody = Nobody
  NoKey = NoKey
  NoWrite = NoWrite
INVARIANTS
  NoLostUpdate
PROPERTIES
  ImplementsContract
  EveryRequestEnds
