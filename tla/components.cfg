SPECIFICATION ComponentsSpec
CONSTANTS
  LimitedKeys = {k}
  LimitedValues = {x1}
  Callers = {c1, c2}
  DefaultLimit = 1
  DefaultWindow = 2
  KeyLimit = 1
  KeyWindow = 1
  CacheWindow = 1
  UnknownKept = 1
  LastInstant = 2
  Sources = {"a", "b"}
  Integrators = {"p"}
  Inners = {"i1", "i2", "i3"}
  InnerSource <- SourceOf
  InnerSequence <- SequenceOf
  InnerFee <- FeeOf
  PerSource = 1
  PerKey = 2
  PerDay = 2
  Sponsorings = {s1, s2}
  LastDay = 1
  Restarts = 1
  Closes = {h1, h2}
  BuiltHere = {h1}
  Processes = {p1}
  Readers = {r1, r2}
  Reports = {w1}
  Loads = {l1, l2}
  TotalsWindow = 1
  LastMoment = 2
  NoLoad = NoLoad
  MaxProviders = 3
  Pieces = 2
  ReadDeadline = 7
  PerAttempt = 4
  MaxAttempts = 2
  MaxWait = 1
  Writes = {u1, u2}
  FlushInterval = 1
  MaxCalls = 3
  LastFlush = 3
  NoWrite = NoWrite
  Lines = {11}
  Unlisted = {}
  Offers = {1, 2}
  Balances = {21}
  LedgerSpan = 1
  PageLimit = 1
  OfferCeiling = 1
  ClaimCeiling = 1
  KeysPerCall = 2
  MaxSources = 2
  LastLedger = 3
  MaxChanges = 2
  Owners = {"a", "b"}
  Entries = {"a1", "a2", "b2", "c1", "c2"}
  OwnerOf <- Owned
  Paged = {"a2"}
  Traced = {"a1"}
  Reserve <- ReserveOf
  PoolShares = {"b2"}
  BalanceCeiling = 2
  MaxMoves = 2
  Budget = 35
  ReadTimeout = 10
  PriorTimeout = 10
  Deadline = 40
  CountTimeout = 5
  TryAgainDelay = 4
  TryAgainRetries = 3
  PollInterval = 3
  SettleWindow = 10
  MinRead = 1
  HasNext = TRUE
  Lag = 7
  ReadsFail = TRUE
  Calls = 2
INVARIANTS
  StoreReadsBounded
  BudgetsHold
  SponsorPaysItsBudget
  ClosesAreSeen
  OneSource
  SharesAreEven
  CallsConserved
  ReadingIsWhole
  ChangedIsRecent
  ListedCoversSponsored
  FirstRefusalIsFinal
  PendingWasTaken
  ConfirmedRefusedOnlyUnread
  AnswersInTime
PROPERTIES
  OutageNotCached
CHECK_DEADLOCK FALSE
