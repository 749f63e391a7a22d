SPECIFICATION SCGFairSpec
CONSTANTS
  eth = eth
  zero = zero
  gov = gov
  alice = alice
  vault = vault
  kmA = kmA
  kmB = kmB
  gw = gw
  gw2 = gw2
  k1 = k1
  n0 = n0
  n1 = n1
  n2 = n2
  none = none
  Chains = {eth}
  Addresses <- MCAddresses
  ZeroAddr = zero
  Accounts = {gov, alice}
  KeyManagers <- OneKeyManager
  NonceConsumers = {gw}
  KeyHolders = {gov}
  Keys = {k1}
  SigningKeys = {k1}
  InitialKeys <- MCInitialKeys
  Nonces = {1, 2, 3}
  Signatures <- RedemptionSignatures
  AGG_KEY_TIMEOUT = 2
  DeployTime = 2
  MaxTime = 9
  HomeChain = eth
  GenesisKM <- GenesisInstance
  InitSupply = 3
  GenesisFundedFlip = 2
  MaxSupply = 3
  Gateways = {gw}
  GenesisGateway = gw
  OtherContracts = {vault, kmA, kmB}
  Holders = {alice}
  NodeIDs = {n1, n2}
  ZeroBytes32 = n0
  Amounts = {1}
  REDEMPTION_DELAY = 2
  GenesisMinFunding = 1
  NoSignature = none
CHECK_DEADLOCK FALSE
INVARIANTS
  SCGTypeOK
  PaidAtMostOnce
  PendingAsSigned
PROPERTIES
  Outflow
  LiveRedemptionKept
  Voucher
  RedemptionResolved
