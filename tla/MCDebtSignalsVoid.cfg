SPECIFICATION SignalSpec
SYMMETRY Symmetry
CONSTANTS
  Debts = {d1}
  Penalties = {p1, p2}
  Payments = {y1}
  Totals = {4}
  PaidEdits = {0}
  PayAmounts = {3}
  PenaltyAmounts = {2}
  InterestAmounts = {1}
  DueDates = {0, 1}
  AccrualDates = {}
  PenaltyDates = {0}
  PaymentDates = {}
  MaxDay = 1
  MaxInterest = 1
  Eps = 1
  Grace = 0
  AutoPenalty = TRUE
  PartialPayment = TRUE
  AllowedStatuses = {"active", "paid", "overdue", "defaulted"}
PROPERTIES VoidReverses
CHECK_DEADLOCK FALSE
