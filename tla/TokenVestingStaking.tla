------------------------- MODULE TokenVestingStaking -------------------------
(***************************************************************************)
(* The lockup of validators (contracts/utils/TokenVestingStaking.sol):     *)
(* nothing is released before the end, but the tokens may be staked with   *)
(* the provider that AddressHolder names, or fund a State Chain account.   *)
(* The provider is external: it swaps FLIP for its stFLIP one to one,      *)
(* pays out later what is unstaked, and raises or lowers the balances of   *)
(* stFLIP with the rewards and the slashing of its validators.             *)
(***************************************************************************)
EXTENDS Vesting, AddressHolder

CONSTANTS
    FLIP,
    Amounts,      \* amounts that are staked, unstaked, claimed and funded
    MaxStaked,    \* bound: no more is staked, repeatedly
    MaxRewards    \* bound: rewards, and slashing

ASSUME StakingAssumption ==
    /\ {FLIP} \cup Providers \subseteq Tokens
    /\ FLIP \notin Providers
    /\ IsFiniteSet(Tokens)
    /\ Amounts \subseteq Nat

VARIABLES
    stTokenStaked,     \* cumulative
    stTokenUnstaked,   \* cumulative
    burning,           \* unstaked, and not paid out by the provider yet
    earned,            \* history: rewards
    slashed,           \* history: slashing
    claimed,           \* history: claimed as rewards
    withdrawn          \* history: stFLIP that was released or revoked

counterVars == <<stTokenStaked, stTokenUnstaked>>
stakingVars == <<counterVars, burning, earned, slashed, claimed, withdrawn>>

StakingInit ==
    /\ HolderInit
    /\ stTokenStaked = 0 /\ stTokenUnstaked = 0 /\ burning = 0
    /\ earned = 0 /\ slashed = 0 /\ claimed = 0 /\ withdrawn = 0

NotRevoked == lockup = "staking" /\ ~ revoked

AfterStart == now >= Start

FundStateChainAccount(caller, amount) ==
    /\ OnlyBeneficiary(caller) /\ NotRevoked /\ AfterStart
    /\ balance[FLIP] >= amount
    /\ balance' = [balance EXCEPT ![FLIP] = @ - amount]
    /\ UNCHANGED <<roleVars, now, revoked, paidIn, toBeneficiary, stakingVars>>

\* Wrong: stakes without counting.
StakeUncounted(amount) == UNCHANGED stTokenStaked

CountStaked(amount) == stTokenStaked' = stTokenStaked + amount

StakeToStProvider(caller, amount) ==
    /\ OnlyBeneficiary(caller) /\ NotRevoked /\ AfterStart
    /\ stMinter \in Providers
    /\ balance[FLIP] >= amount /\ stTokenStaked + amount <= MaxStaked
    /\ balance' = [balance EXCEPT ![FLIP] = @ - amount, ![stMinter] = @ + amount]
    /\ CountStaked(amount)
    /\ UNCHANGED <<roleVars, now, revoked, paidIn, toBeneficiary, stTokenUnstaked,
                   burning, earned, slashed, claimed, withdrawn>>

\* Wrong: unstakes without counting.
UnstakeUncounted(amount) == UNCHANGED counterVars

CountUnstaked(amount) ==
    /\ stTokenUnstaked' = stTokenUnstaked + amount
    /\ UNCHANGED stTokenStaked

\* A burner takes the token of its own provider: for another one it was given
\* no allowance.
UnstakeFromStProvider(caller, amount) ==
    /\ OnlyBeneficiary(caller) /\ NotRevoked
    /\ stFLIP \in Providers /\ stBurner = stFLIP
    /\ balance[stFLIP] >= amount
    /\ balance' = [balance EXCEPT ![stFLIP] = @ - amount]
    /\ CountUnstaked(amount)
    /\ burning' = burning + amount
    /\ UNCHANGED <<roleVars, now, revoked, paidIn, toBeneficiary, earned, slashed,
                   claimed, withdrawn>>

TotalRewards == balance[stFLIP] + stTokenUnstaked - stTokenStaked

\* The arithmetic is checked: it reverts when less is left than was staked.
ClaimStProviderRewards(caller, amount) ==
    /\ OnlyBeneficiary(caller) /\ NotRevoked
    /\ stFLIP \in Providers
    /\ TotalRewards >= 0
    /\ LET claim == IF amount > TotalRewards THEN TotalRewards ELSE amount IN
          /\ PayBeneficiary(stFLIP, claim)
          /\ claimed' = claimed + claim
    /\ UNCHANGED <<roleVars, now, revoked, paidIn, counterVars, burning, earned,
                   slashed, withdrawn>>

Withdrawn(token) ==
    withdrawn' = withdrawn + (IF token \in Providers THEN balance[token] - balance'[token] ELSE 0)

StakingReleasable(token) == IF now < End THEN 0 ELSE balance[token]

ReleaseAtEnd(caller, token) ==
    /\ OnlyBeneficiary(caller) /\ NotRevoked
    /\ StakingReleasable(token) > 0
    /\ PayBeneficiary(token, StakingReleasable(token))
    /\ Withdrawn(token)
    /\ UNCHANGED <<roleVars, now, revoked, paidIn, counterVars, burning, earned,
                   slashed, claimed>>

RevokeStaking(caller, token) ==
    /\ NotRevoked
    /\ RevokeAllBut(caller, token, StakingReleasable(token))
    /\ Withdrawn(token)
    /\ UNCHANGED <<counterVars, burning, earned, slashed, claimed>>

RetrieveRevokedFunds(caller, token) ==
    /\ lockup = "staking"
    /\ OnlyRevoker(caller)
    /\ revoked
    /\ balance' = [balance EXCEPT ![token] = 0]
    /\ Withdrawn(token)
    /\ UNCHANGED <<roleVars, now, revoked, paidIn, toBeneficiary, counterVars,
                   burning, earned, slashed, claimed>>
-----------------------------------------------------------------------------
\* The provider pays out what was unstaked.
Redeem ==
    /\ burning > 0
    /\ balance' = [balance EXCEPT ![FLIP] = @ + burning]
    /\ burning' = 0
    /\ UNCHANGED <<roleVars, now, revoked, paidIn, toBeneficiary, counterVars,
                   earned, slashed, claimed, withdrawn>>

\* A holder of stFLIP earns a reward, or bears a loss.
Reward(p) ==
    /\ balance[p] > 0 /\ earned < MaxRewards
    /\ balance' = [balance EXCEPT ![p] = @ + 1]
    /\ earned' = earned + 1
    /\ UNCHANGED <<roleVars, now, revoked, paidIn, toBeneficiary, counterVars,
                   burning, slashed, claimed, withdrawn>>

Slash(p) ==
    /\ balance[p] > 0 /\ slashed < MaxRewards
    /\ balance' = [balance EXCEPT ![p] = @ - 1]
    /\ slashed' = slashed + 1
    /\ UNCHANGED <<roleVars, now, revoked, paidIn, toBeneficiary, counterVars,
                   burning, earned, claimed, withdrawn>>

BeneficiaryNext(caller) ==
    \/ \E amount \in Amounts :
          \/ FundStateChainAccount(caller, amount)
          \/ StakeToStProvider(caller, amount)
          \/ UnstakeFromStProvider(caller, amount)
          \/ ClaimStProviderRewards(caller, amount)
    \/ \E token \in Tokens : ReleaseAtEnd(caller, token)

RevokerNext(caller) ==
    \E token \in Tokens : RevokeStaking(caller, token) \/ RetrieveRevokedFunds(caller, token)

ProviderNext == Redeem \/ \E p \in Providers : Reward(p) \/ Slash(p)
-----------------------------------------------------------------------------
\* What is staked stays locked up.  Until the end the beneficiary has nothing
\* but what it claimed as rewards, and what is claimed was earned as rewards,
\* or is stFLIP that others paid in: in any order of staking, unstaking, claims,
\* rewards and losses, and when the governor replaces the provider in between.
LockupHolds ==
    lockup = "staking" =>
        /\ claimed <= earned + SumFunctionOnSet(paidIn, Providers)
        /\ now < End => SumFunctionOnSet(toBeneficiary, Tokens) <= claimed

\* The rewards are never locked up by the subtraction in
\* claimStProviderRewards, unless there were losses, stFLIP of another provider
\* is still there, or stFLIP was released or revoked: otherwise what it computes
\* is exactly what was earned or paid in and neither claimed nor lost, in any
\* order of staking, unstaking and claims, and after any change of provider.
RewardsClaimable ==
    lockup = "staking" /\ stFLIP \in Providers /\ withdrawn = 0
    /\ (\A p \in Providers : p # stFLIP => balance[p] = 0) =>
        /\ TotalRewards =
              earned + SumFunctionOnSet(paidIn, Providers) - claimed - slashed
        /\ slashed = 0 => TotalRewards >= 0
=============================================================================
