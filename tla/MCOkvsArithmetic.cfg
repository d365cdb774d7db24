CONSTANTS
  Half = 4
  Digits = {0, 1, 2, 5, 7, 14}
  Squares <- MCSquares
  Divisors <- MCDivisors
  Solvers <- MCSolvers
  Tables <- MCTables
SPECIFICATION CallSpec
INVARIANTS AnswerExact QuotientExact RowsExact
