SPECIFICATION RoundsReviewSpec
CONSTANTS
  Assets <- AssetsDef
  Tokens <- TokensDef
  Exits <- ExitsDef
  Claims <- ClaimsDef
  DataKeys <- DataDef
  Offers <- OffersDef
  Signers <- SignersDef
  Sponsored <- SponsoredDef
  ClaimAsset <- ClaimAssetDef
  ClaimOpen <- ClaimOpenDef
  ExitPays <- ExitPaysDef
  Unrevocable = {"balance"}
  BaseReserve = 8
  OfferXlm = 3
  SequenceLimit = 1000
  LastInstant = 3
  ReadCeiling = 2
  ClaimBatch = 1
  OpLimit = 4
  Timeout = 1
  ClaimMargin = 2
  SorobanEstimate = 2
  MinForward = 16
  SorobanFee = 2
  SponsorConfigured = TRUE
  Starts <- StartsDef
  Refetches = 1
  MaxThings = 2
  MaxWhenMoving = 1
  MaxWhenWrong = 1
  ForwardTolerance = 12
  MaxValidity = 3
  MaxFeePerOperation = 10
  MaxExitFee = 100
  Accounts = {a}
  LastSequence = 1
  MaxVisits = 2
  MaxAsked = 2
  MaxReloads = 1
  Waits = TRUE
  Nothing = Nothing
INVARIANTS
  NoLateRefusal
  SorobanSeenThrough
  FundsGoAsAnswered
  BalanceReachesDestination
  NothingForgotten
  ClaimsLandInTime
  RoundsBounded
  BuiltAsReviewed
  ProceedsOnItsPlan
  NothingKeptAfterConsent
