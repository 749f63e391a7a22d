SPECIFICATION VaultSpec
CONSTANTS
  eth = eth
  zero = zero
  gov = gov
  alice = alice
  vault = vault
  vault2 = vault2
  multicall = multicall
  rcvA = rcvA
  rcvB = rcvB
  usdc = usdc
  native = native
  kmA = kmA
  kmB = kmB
  k1 = k1
  s1 = s1
  scUtils = scUtils
  gateway = gateway
  TheScUtils = scUtils
  SC_GATEWAY = gateway
  FLIP = usdc
  Destinations = {rcvA, rcvB, vault, scUtils, gateway}
  Chains = {eth}
  Addresses <- MCAddresses
  ZeroAddr = zero
  Accounts = {gov, alice}
  KeyManagers <- OneKeyManager
  NonceConsumers = {vault}
  KeyHolders = {}
  Keys = {k1}
  SigningKeys = {k1}
  InitialKeys <- MCInitialKeys
  Nonces = {1, 2, 3, 4, 5, 6}
  Signatures <- RunSignatures
  AGG_KEY_TIMEOUT = 1
  DeployTime = 1
  MaxTime = 1
  HomeChain = eth
  GenesisKM <- GenesisInstance
  NATIVE = native
  Tokens = {usdc}
  TheVault = vault
  SwapIDs = {}
  Refusers = {rcvA}
  InitialFunds <- RunFunds
  TheMulticall = multicall
  Receivers = {rcvA, rcvB}
  CFReceivers = {rcvA}
  ReceiverOwner = alice
  OtherVaults = {vault2}
  AGG_KEY_EMERGENCY_TIMEOUT = 2
  Payments = {1}
  MaxDepth = 1
  MaxReceived = 1
  Users = {alice}
CHECK_DEADLOCK FALSE
INVARIANTS
  RunIsolation
  ReceiverNotFooled
PROPERTIES
  SwapsPassOn
  OrdersPaid
