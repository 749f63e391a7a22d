------------------------------ MODULE MCVesting ------------------------------
(***************************************************************************)
(* The vesting contracts with three tokens, two of them of providers.  The *)
(* amounts that vest are large enough for a cliff and not divisible by the *)
(* time; those that are staked are small.                                  *)
(***************************************************************************)
EXTENDS VestingContracts, TLC

OneProvider == CHOOSE p \in Providers : TRUE

MCMaxPaidIn ==
    [linear  |-> [t \in Tokens |-> IF t = FLIP THEN 0 ELSE 7],
     staking |-> [t \in Tokens |-> CASE t = FLIP -> 2 [] t = OneProvider -> 1 [] OTHER -> 0]]

\* The staking lockup with all roles in one hand, that of its beneficiary, or
\* without a revoker: every call is then open to one account.
OneHand ==
    lockup = "staking" =>
        /\ ~ transferableBeneficiary
        /\ governor = beneficiary /\ revoker \in {beneficiary, ZeroAddr}

Symmetry == Permutations(Accounts)
=============================================================================
