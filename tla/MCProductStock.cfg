SPECIFICATION FairSpec
CONSTANTS
  Stock <- TwoStocks
  MaxEvents = 3
  NoRow = NoRow
  NoEntry = NoEntry
CHECK_DEADLOCK FALSE
INVARIANTS TypeOK RowConsistent FlagHeld
PROPERTIES CacheHeals StockHeals
