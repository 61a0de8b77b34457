CONSTANTS
  Clients = {main, t1}
  NumCUs = 3
  Addrs = {1, 2, 3, 4, 5, 6}
  NoAddr <- MinusOne
  code <- ThreeCode
  low <- ThreeLow
  high <- ThreeHigh
  SrcLines = {"both", "late"}
  lineaddr <- ThreeTables
  MaxQueries = 3
SPECIFICATION FairSpec
INVARIANTS
  TypeOK
  AddressFound
  HalvesAgree
  LineFromCursor
PROPERTIES
  CursorHome
  QueriesEnd
CHECK_DEADLOCK FALSE
