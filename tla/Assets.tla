-------------------------------- MODULE Assets --------------------------------
(***************************************************************************)
(* Who holds what on the chain of the Vault: native tokens and ERC20       *)
(* tokens.  The tokens are external; of a token the contracts rely on a    *)
(* transfer either moving exactly the amount or failing, as USDC's does    *)
(* for a recipient that is blacklisted.                                    *)
(***************************************************************************)
EXTENDS Shared, Sequences, FiniteSets, Functions

CONSTANTS
    NATIVE,        \* _NATIVE_ADDR, which stands for the native token
    Tokens,        \* ERC20 contracts
    TheVault,      \* the Vault contract
    SwapIDs,       \* salts of Deposit contracts
    Refusers,      \* who may fail to be paid: contracts, blacklisted addresses
    InitialFunds   \* what everybody has at the start

Assets == Tokens \cup {NATIVE}

\* The address of a Deposit: create2 derives it from the salt and from the
\* token, which is an argument of the constructor.
DepositContracts == SwapIDs \X Assets

Parties == Addresses \cup DepositContracts

ASSUME AssetAssumption ==
    /\ Tokens \cup {TheVault} \cup Refusers \subseteq Addresses \ {ZeroAddr}
    /\ NATIVE \notin Addresses
    /\ Addresses \cap DepositContracts = {}
    /\ TheVault \notin Refusers \cup Tokens \cup Accounts
    /\ IsFiniteSet(SwapIDs) /\ IsFiniteSet(Tokens)   \* words of 32 and of 20 bytes
    /\ InitialFunds \in [Assets -> [Parties -> Nat]]

VARIABLE funds    \* [Assets -> [Parties -> Nat]]

\* f once amount of asset went from one party to another.
Moved(f, asset, from, to, amount) ==
    LET taken == [f EXCEPT ![asset][from] = @ - amount]
    IN  [taken EXCEPT ![asset][to] = @ + amount]

CanPay(f, asset, from, amount) == f[asset][from] >= amount

AssetsTypeOK == funds \in [Assets -> [Parties -> Nat]]
=============================================================================
