SPECIFICATION VaultSpec
CONSTANTS
  eth = eth
  zero = zero
  gov = gov
  alice = alice
  vault = vault
  vault2 = vault2
  multicall = multicall
  rcvA = rcvA
  rcvB = rcvB
  usdc = usdc
  native = native
  kmA = kmA
  kmB = kmB
  k1 = k1
  s1 = s1
  scUtils = scUtils
  gateway = gateway
  TheScUtils = scUtils
  SC_GATEWAY = gateway
  FLIP = usdc
  Destinations = {}
  Chains = {eth}
  Addresses <- MCAddresses
  ZeroAddr = zero
  Accounts = {gov, alice}
  KeyManagers <- TwoKeyManagers
  NonceConsumers = {vault}
  KeyHolders = {}
  Keys = {k1}
  SigningKeys = {k1}
  InitialKeys <- MCInitialKeys
  Nonces = {1, 2, 3}
  Signatures <- BatchSignatures
  AGG_KEY_TIMEOUT = 1
  DeployTime = 1
  MaxTime = 2
  HomeChain = eth
  GenesisKM <- GenesisInstance
  NATIVE = native
  Tokens = {usdc}
  TheVault = vault
  SwapIDs = {s1}
  Refusers = {rcvA}
  InitialFunds <- BatchFunds
  TheMulticall = multicall
  Receivers = {rcvA}
  CFReceivers = {}
  ReceiverOwner = alice
  OtherVaults = {}
  AGG_KEY_EMERGENCY_TIMEOUT = 1
  Payments = {1}
  MaxDepth = 0
  MaxReceived = 2
  Users = {alice}
CHECK_DEADLOCK FALSE
PROPERTY
  WithdrawnInSilence
