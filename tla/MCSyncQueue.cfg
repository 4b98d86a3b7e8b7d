SPECIFICATION QueueSpec
SYMMETRY Symmetry
CONSTANTS
  Records = {r1}
  Edits = {e1}
  Phones = {c1, c2}
  Passes = {p1, p2}
  MaxItems = 2
  MaxRetries = 2
  MaxStarts = 3
INVARIANTS QueueTypeOK NoneStranded SettledIsEarned UncontestedIsApplied
CHECK_DEADLOCK FALSE
