SPECIFICATION LoanSpec
CONSTANTS
  Applications = {a1}
  Amounts = {100}
  Callers = {c1, c2, c3}
  Uploadable = {}
  MaxLoans = 1
SYMMETRY MCSymmetry
INVARIANT OneLoan
CHECK_DEADLOCK FALSE
