SPECIFICATION Spec
CONSTANTS
  r1 = r1
  r2 = r2
  Product = {p1, p2}
  Request = {r1, r2}
  Amount = {1, 2}
  MaxQuantity = 3
  NoJob = NoJob
  Unknown = Unknown
INVARIANTS
  TypeOK
  LinesAddUp
