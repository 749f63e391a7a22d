-------------------------- MODULE VestingContracts --------------------------
(***************************************************************************)
(* Either of the two vesting contracts, and the AddressHolder that the     *)
(* staking one refers to.  The linear one may hold the same tokens: to it  *)
(* they are only ERC20 tokens.                                             *)
(***************************************************************************)
EXTENDS TokenVestingNoStaking, TokenVestingStaking

vars == <<vestingVars, linearVars, stakingVars, holderVars>>

Init == VestingInit /\ LinearInit /\ StakingInit

\* What both contracts have in common leaves the rest alone.
CommonNext == VestingNext /\ UNCHANGED <<linearVars, stakingVars, holderVars>>

LinearNext ==
    /\ \E caller \in Accounts, token \in Tokens : Release(caller, token) \/ Revoke(caller, token)
    /\ UNCHANGED <<stakingVars, holderVars>>

StakingNext ==
    /\ \/ \E caller \in Accounts : BeneficiaryNext(caller) \/ RevokerNext(caller)
       \/ lockup = "staking" /\ ProviderNext
    /\ UNCHANGED <<linearVars, holderVars>>

ReplaceAddresses ==
    /\ lockup = "staking"
    /\ HolderNext
    /\ UNCHANGED <<vestingVars, linearVars, stakingVars>>

Next == CommonNext \/ LinearNext \/ StakingNext \/ ReplaceAddresses

Spec == Init /\ [][Next]_vars
=============================================================================
