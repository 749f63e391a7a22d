-------------------------------- MODULE FLIP --------------------------------
(***************************************************************************)
(* The FLIP token (contracts/FLIP.sol): an OpenZeppelin ERC20 whose issuer *)
(* mints, burns from any account, and hands the right to issue on.         *)
(***************************************************************************)
EXTENDS Shared, Integers, FiniteSets, Functions

CONSTANTS
    InitSupply,         \* flipTotalSupply
    GenesisFundedFlip,  \* numGenesisValidators * genesisStake
    MaxSupply           \* bound: an account that issues mints up to here

ASSUME SupplyAssumption ==
    /\ InitSupply \in Nat \ {0}
    /\ GenesisFundedFlip \in 0 .. InitSupply
    /\ MaxSupply \in Nat

\* An address is a word of 20 bytes.
ASSUME AddressesFinite == IsFiniteSet(Addresses)

VARIABLES
    balanceOf,    \* [Addresses -> Nat]
    totalSupply,  \* Int: _burn subtracts unchecked; see SupplyIsHeld
    issuer        \* the address that may mint and burn

flipVars == <<balanceOf, totalSupply, issuer>>

\* The constructor mints twice: the validators' genesis stake is the gateway's.
FLIPInit(gateway, receiverGenesisFlip) ==
    /\ balanceOf = [a \in Addresses |->
                       (IF a = gateway THEN GenesisFundedFlip ELSE 0)
                          + (IF a = receiverGenesisFlip THEN InitSupply - GenesisFundedFlip ELSE 0)]
    /\ totalSupply = InitSupply
    /\ issuer = gateway

OnlyIssuer(caller) == caller = issuer

\* Wrong: both balances are read before either is written, so FLIP that is
\* sent to its own holder multiplies.
PassedFromCopies(from, to, amount) ==
    [balanceOf EXCEPT ![from] = @ - amount, ![to] = balanceOf[to] + amount]

\* The balances once an amount went from one address to another.
Passed(from, to, amount) ==
    LET taken == [balanceOf EXCEPT ![from] = @ - amount]
    IN  [taken EXCEPT ![to] = @ + amount]

Transfer(from, to, amount) ==
    /\ NzAddr(to)
    /\ balanceOf[from] >= amount
    /\ balanceOf' = Passed(from, to, amount)

Mint(caller, account, amount) ==
    /\ OnlyIssuer(caller)
    /\ NzAddr(account)
    /\ balanceOf' = [balanceOf EXCEPT ![account] = @ + amount]
    /\ totalSupply' = totalSupply + amount

Burn(caller, account, amount) ==
    /\ OnlyIssuer(caller)
    /\ NzAddr(account)
    /\ balanceOf[account] >= amount
    /\ balanceOf' = [balanceOf EXCEPT ![account] = @ - amount]
    /\ totalSupply' = totalSupply - amount

\* The modifier nzAddr is given the stored issuer, not the new one.
UpdateIssuer(caller, newIssuer) ==
    /\ NzAddr(issuer)
    /\ OnlyIssuer(caller)
    /\ issuer' = newIssuer

FLIPTypeOK ==
    /\ balanceOf \in [Addresses -> Nat]
    /\ totalSupply \in Int
    /\ issuer \in Addresses

\* All FLIP is held by somebody and nobody holds FLIP that was not issued,
\* over any number of transfers, redemptions, mints and burns by whoever is
\* the issuer.  ERC20 relies on it where it computes unchecked: the balance a
\* mint or a transfer adds to does not overflow, and a burn does not take the
\* total supply below zero, which updateFlipSupply then would compare with.
SupplyIsHeld == totalSupply = SumFunctionOnSet(balanceOf, Addresses)
=============================================================================
