SPECIFICATION FairSpec
CONSTANTS
  lamp = lamp
  pan = pan
  lamps = lamps
  home = home
  spring = spring
  Goods = {lamp, pan}
  Cats = {lamps, home}
  NoCat = NoCat
  CatOf <- GoodsCat
  PriceOf <- Prices
  Percents = {10, 20}
  Discounts = {spring}
  NoDiscount = NoDiscount
  Depth = 1
  MaxRow = 2
  NoRow = NoRow
  Deleted = Deleted
  NoMap = NoMap
  Syncs = {loop, after}
  Loop = loop
  Offers <- SaleOrResale
  Absent = Absent
  Tree <- Nested
  OldTrees <- Fresh
  Baskets <- Together
  MaxEvents = 3
CHECK_DEADLOCK FALSE
INVARIANTS TypeOK ListingComplete FiltersCover WithdrawnFades
PROPERTIES DayOrderBounded EventuallyMirrored
