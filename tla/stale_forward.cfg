SPECIFICATION Spec
CONSTANTS
  Assets <- AssetsDef
  Tokens <- TokensDef
  Exits <- ExitsDef
  Claims <- ClaimsDef
  DataKeys <- DataDef
  Offers <- OffersDef
  Signers <- SignersDef
  Sponsored <- SponsoredDef
  ClaimAsset <- ClaimAssetDef
  ClaimOpen <- ClaimOpenDef
  ExitPays <- ExitPaysDef
  Unrevocable = {"balance"}
  BaseReserve = 8
  OfferXlm = 3
  SequenceLimit = 1000
  LastInstant = 3
  ReadCeiling = 2
  ClaimBatch = 1
  OpLimit = 4
  Timeout = 1
  ClaimMargin = 2
  SorobanEstimate = 12
  MinForward = 16
  SorobanFee = 12
  SponsorConfigured = TRUE
  Starts <- StartsDef
  Refetches = 1
  MaxThings = 2
  MaxWhenMoving = 0
  MaxWhenWrong = 0
  ForwardTolerance = 12
  MaxValidity = 3
  MaxFeePerOperation = 10
  MaxExitFee = 100
INVARIANTS
  ReviewedForwardIsSigned
