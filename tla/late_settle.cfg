SPECIFICATION Spec
CONSTANTS
  r1 = r1
  r2 = r2
  t1 = t1
  t2 = t2
  s1 = s1
  s2 = s2
  Runs = {r1, r2}
  Tabs = {t1}
  Sessions = {s1, s2}
  TabOf <- SameTabOf
  SessionOf <- TwoSessionsOf
  NoSession = NoSession
  NoPlan = NoPlan
  MaxTx = 2
  MaxTime = 2
  MaxDisturb = 0
  MaxWork = 0
  Lifetime = 0
  Margin = 0
  Retention = 3
  Resends = 0
  Refetches = 0
  RoundMargin = 1
  MaxRounds = 2
  ReadFails = FALSE
  CoSigned = TRUE
  LeavesRuns = TRUE
INVARIANT
 InFlightIsHeld
SYMMETRY ExchangeCloses
