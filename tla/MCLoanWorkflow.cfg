SPECIFICATION LoanSpec
CONSTANTS
  Applications = {a1}
  Amounts = {100, 200}
  Callers = {c1, c2}
  Uploadable = {"pending", "approved", "rejected"}
  MaxLoans = 2
SYMMETRY MCSymmetry
INVARIANTS LoanTypeOK ApprovedHasLoan
PROPERTIES LoanAsApproved FollowsLifecycle
CHECK_DEADLOCK FALSE
