SPECIFICATION SCGSpec
CONSTANTS
  eth = eth
  zero = zero
  gov = gov
  alice = alice
  vault = vault
  kmA = kmA
  kmB = kmB
  gw = gw
  gw2 = gw2
  k1 = k1
  n0 = n0
  n1 = n1
  n2 = n2
  none = none
  Chains = {eth}
  Addresses <- MCAddresses
  ZeroAddr = zero
  Accounts = {gov}
  KeyManagers <- OneKeyManager
  NonceConsumers = {gw, gw2}
  KeyHolders = {gov}
  Keys = {k1}
  SigningKeys = {k1}
  InitialKeys <- MCInitialKeys
  Nonces = {1, 2, 3, 4, 5}
  Signatures <- SupplySignatures
  AGG_KEY_TIMEOUT = 2
  DeployTime = 2
  MaxTime = 2
  HomeChain = eth
  GenesisKM <- GenesisInstance
  InitSupply = 3
  GenesisFundedFlip = 2
  MaxSupply = 5
  Gateways = {gw, gw2}
  GenesisGateway = gw
  OtherContracts = {vault, kmA, kmB}
  Holders = {gov, gw}
  NodeIDs = {n0, n1}
  ZeroBytes32 = n0
  Amounts = {1}
  REDEMPTION_DELAY = 2
  GenesisMinFunding = 1
  NoSignature = none
CHECK_DEADLOCK FALSE
INVARIANTS
  SupplyIsHeld
PROPERTIES
  AcceptedMeansDone
  IssuerCustody
  SupplyInBlockOrder
