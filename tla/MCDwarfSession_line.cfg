CONSTANTS
  Clients = {main}
  NumCUs = 3
  Addrs = {1, 2, 3, 4}
  NoAddr <- MinusOne
  code <- ThreeCode
  low <- ThreeLow
  high <- ThreeHigh
  SrcLines = {"both", "late"}
  lineaddr <- ThreeTables
  MaxQueries = 3
SPECIFICATION Spec
INVARIANT LineAnswers
CHECK_DEADLOCK FALSE
