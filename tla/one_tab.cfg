SPECIFICATION Spec
CONSTANTS
  r1 = r1
  r2 = r2
  t1 = t1
  t2 = t2
  s1 = s1
  s2 = s2
  Runs = {r1}
  Tabs = {t1}
  Sessions = {s1}
  TabOf <- OneTabOf
  SessionOf <- OneSessionOf
  NoSession = NoSession
  NoPlan = NoPlan
  MaxTx = 2
  MaxTime = 3
  MaxDisturb = 1
  MaxWork = 1
  Lifetime = 0
  Margin = 0
  Retention = 3
  Resends = 1
  Refetches = 1
  RoundMargin = 1
  MaxRounds = 2
  ReadFails = FALSE
  CoSigned = TRUE
  LeavesRuns = TRUE
INVARIANTS
  TypeOK
  SaidIsTrue
  OneInFlight
  InFlightIsHeld
  FailedMeansSettled
  ExpiredNeverRan
  PlanHashFollows
PROPERTIES
  KeepsContract
