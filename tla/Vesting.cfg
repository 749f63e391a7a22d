SPECIFICATION Spec
CONSTANTS
  Addresses = {zero, alice, bob}
  ZeroAddr = zero
  Accounts = {alice, bob}
  Lockups = {"linear", "staking"}
  Tokens = {flip, stA, stB}
  Start = 1
  End = 3
  MaxTime = 4
  Deposits = {1, 6}
  MaxPaidIn <- MCMaxPaidIn
  Providers = {stA, stB}
  NoProvider = none
  Gateways = {gw}
  FLIP = flip
  Amounts = {1, 2}
  MaxStaked = 2
  MaxRewards = 1
SYMMETRY Symmetry
CONSTRAINT OneHand
CHECK_DEADLOCK FALSE
INVARIANTS
  ScheduleRespected
  LockupHolds
  RewardsClaimable
PROPERTY
  EntitlementNeverShrinks
