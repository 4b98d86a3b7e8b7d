SPECIFICATION FairSpec
CONSTANTS
  Debts = {d1}
  Penalties = {p1}
  Payments = {y1, y2}
  Txns = {t1, t2}
  Calls = {"pay", "charge", "run", "overdue", "accrue", "edit", "correct", "fix"}
  Totals = {4}
  PaidEdits = {0}
  PayAmounts = {3}
  PenaltyAmounts = {2}
  InterestAmounts = {1}
  DueDates = {0, 1}
  AccrualDates = {}
  PenaltyDates = {}
  PaymentDates = {}
  MaxDay = 1
  MaxInterest = 1
  Eps = 1
  Grace = 0
  AutoPenalty = TRUE
  PartialPayment = TRUE
  AllowedStatuses = {"active", "paid", "overdue", "defaulted"}
INVARIANTS NeverOvercredited
PROPERTIES IsolatedIsSerial PaidOffIsMarked
CHECK_DEADLOCK FALSE
