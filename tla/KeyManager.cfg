\* Three instances of the KeyManager, every interleaving of their calls.
SPECIFICATION KMSpec
CONSTANTS
  eth = eth
  arb = arb
  zero = zero
  gov = gov
  eve = eve
  vault = vault
  kmA = kmA
  kmB = kmB
  k1 = k1
  k2 = k2
  weak = weak
  Chains = {eth, arb}
  Addresses <- MCAddresses
  ZeroAddr = zero
  KeyManagers <- MCKeyManagers
  Accounts = {gov, eve}
  NonceConsumers = {vault}
  KeyHolders = {zero, gov}
  Keys = {k1, k2, weak}
  SigningKeys = {k1, k2}
  InitialKeys <- MCInitialKeys
  Nonces = {1, 2}
  Signatures <- MCSignatures
  AGG_KEY_TIMEOUT = 2
  DeployTime = 2
  MaxTime = 5
CHECK_DEADLOCK FALSE
INVARIANTS
  KMTypeOK
  AcceptedAtMostOnce
  OneMessagePerNonce
  SwitchOpensOnSilence
PROPERTIES
  AggKeyCustody
