SPECIFICATION Spec
CONSTANTS
  HolderOrder <- MCHolders
  Snapshots <- TwoSnapshots
  AirdropCutoff = 2
  VerifyCutoff = 3
  BatchSize = 2
  GatewayAmount = 3
  Funds = 20
  NoFile = NoFile
  Nothing = Nothing
  MaxCrashes = 3
CHECK_DEADLOCK FALSE
INVARIANTS
  PaidOnce
  SuccessIsPaid
PROPERTY
  AirdropCompletes
