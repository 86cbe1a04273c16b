SPECIFICATION Spec
CONSTANTS
  o1 = o1
  o2 = o2
  p1 = p1
  p2 = p2
  Product = {p1}
  Order = {o1}
  Basket <- McTwoLines
  InitStock <- McStock
  Handler = {h1}
  Cron = {c1}
  Holds <- McHolds
  BatchSize = 1
  MaxNow = 1
  MaxCrashes = 0
  NoOrder = NoOrder
INVARIANTS
  StockConserved
