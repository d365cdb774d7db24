CONSTANTS
  Half = 4
  Digits = {0}
  Squares = {}
  Divisors = {}
  Solvers = {}
  Tables <- MCOddTables
SPECIFICATION CallSpec
INVARIANTS BinsHoldItems
