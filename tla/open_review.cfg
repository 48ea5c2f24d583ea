SPECIFICATION ReviewSpec
CONSTANTS
  Accounts = {a}
  LastSequence = 0
  MaxVisits = 2
  MaxAsked = 2
  MaxReloads = 0
  Waits = TRUE
  Nothing = Nothing
INVARIANT
  ReviewedIsAnswered
CHECK_DEADLOCK FALSE
