SPECIFICATION FairSpec
CONSTANTS
  o1 = o1
  o2 = o2
  p1 = p1
  p2 = p2
  Product = {p1, p2}
  Order = {o1, o2}
  Basket <- McBasket
  InitStock <- McStock
  Handler = {h1}
  Cron = {c1}
  Holds <- McHolds
  BatchSize = 1
  MaxNow = 1
  MaxCrashes = 1
  NoOrder = NoOrder
INVARIANTS
  TypeOK
  StockConserved
  PendingBacked
  StrayOnlyAfterMishap
  AuditAgrees
PROPERTIES
  NoEarlyExpiry
  ImplementsLedger
  LapsedReservationEnds
