------------------------------- MODULE Vesting -------------------------------
(***************************************************************************)
(* What the two token vesting contracts (contracts/utils/                  *)
(* TokenVestingNoStaking.sol and TokenVestingStaking.sol) have in common:  *)
(* they hold balances of any tokens for a beneficiary, and a revoker may   *)
(* cancel the vesting until its end.  lockup tells which of the contracts  *)
(* it is; the code of these parts is the same in both.                     *)
(***************************************************************************)
EXTENDS Shared, Integers, FiniteSetsExt

CONSTANTS
    Lockups,     \* the contracts that are looked at: "linear", "staking"
    Tokens,      \* the tokens a contract may hold
    Start,       \* cliff, or the start of staking
    End,         \* the end of the vesting
    MaxTime,     \* bound: the model's clock stops here
    Deposits,    \* amounts that are paid into the contract
    MaxPaidIn    \* bound: what is paid in at most, by contract and token

ASSUME VestingAssumption ==
    /\ Lockups \subseteq {"linear", "staking"}
    /\ Start \in Nat \ {0} /\ End \in Nat /\ MaxTime \in Nat
    /\ Start <= End
    /\ Deposits \subseteq Nat

VARIABLES
    lockup,         \* which contract it is
    transferableBeneficiary,
    now,            \* block.timestamp
    beneficiary,
    revoker,
    revoked,
    balance,        \* [Tokens -> Nat], token.balanceOf(address(this))
    paidIn,         \* history: what was paid into the contract
    toBeneficiary   \* history: what the beneficiary received

roleVars == <<lockup, transferableBeneficiary, beneficiary, revoker>>
vestingVars == <<roleVars, now, revoked, balance, paidIn, toBeneficiary>>

OnlyBeneficiary(caller) == caller = beneficiary
OnlyRevoker(caller) == caller = revoker

VestingInit ==
    /\ lockup \in Lockups
    /\ transferableBeneficiary \in BOOLEAN
    /\ now = Start - 1
    /\ beneficiary \in Accounts
    /\ revoker \in Accounts \cup {ZeroAddr}
    /\ revoked = FALSE
    /\ balance = [t \in Tokens |-> 0]
    /\ paidIn = [t \in Tokens |-> 0]
    /\ toBeneficiary = [t \in Tokens |-> 0]

TransferBeneficiary(caller, to) ==
    /\ OnlyBeneficiary(caller) /\ NzAddr(to)
    /\ transferableBeneficiary
    /\ beneficiary' = to
    /\ UNCHANGED <<lockup, transferableBeneficiary, revoker, now, revoked, balance,
                   paidIn, toBeneficiary>>

TransferRevoker(caller, to) ==
    /\ OnlyRevoker(caller) /\ NzAddr(to)
    /\ revoker' = to
    /\ UNCHANGED <<lockup, transferableBeneficiary, beneficiary, now, revoked, balance,
                   paidIn, toBeneficiary>>

\* Anybody pays tokens into the contract, before or during the vesting.
PayInto(token, amount) ==
    /\ paidIn[token] + amount <= MaxPaidIn[lockup][token]
    /\ balance' = [balance EXCEPT ![token] = @ + amount]
    /\ paidIn' = [paidIn EXCEPT ![token] = @ + amount]
    /\ UNCHANGED <<roleVars, now, revoked, toBeneficiary>>

\* safeTransfer of an amount to the beneficiary.
PayBeneficiary(token, amount) ==
    /\ balance[token] >= amount
    /\ balance' = [balance EXCEPT ![token] = @ - amount]
    /\ toBeneficiary' = [toBeneficiary EXCEPT ![token] = @ + amount]

\* revoke, which leaves in the contract what is releasable of the token.
RevokeAllBut(caller, token, releasable) ==
    /\ OnlyRevoker(caller)
    /\ ~ revoked
    /\ now <= End
    /\ releasable >= 0 /\ releasable <= balance[token]
    /\ revoked' = TRUE
    /\ balance' = [balance EXCEPT ![token] = releasable]
    /\ UNCHANGED <<roleVars, now, paidIn, toBeneficiary>>

Tick ==
    /\ now < MaxTime
    /\ now' = now + 1
    /\ UNCHANGED <<roleVars, revoked, balance, paidIn, toBeneficiary>>

VestingNext ==
    \/ Tick
    \/ \E caller, to \in Accounts :
          TransferBeneficiary(caller, to) \/ TransferRevoker(caller, to)
    \/ \E token \in Tokens, amount \in Deposits : PayInto(token, amount)
=============================================================================
