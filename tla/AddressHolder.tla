---------------------------- MODULE AddressHolder ----------------------------
(***************************************************************************)
(* The contract that holds the addresses of the staking provider and of    *)
(* the gateway for the vesting contracts (contracts/utils/                 *)
(* AddressHolder.sol).  Its governor may replace them at any time, so a    *)
(* vesting contract may stake with one provider and unstake with another.  *)
(* A provider has a minter, a burner and an stFLIP token; they are named   *)
(* by its token, and the governor may set any mixture of them, or none.    *)
(***************************************************************************)
EXTENDS Shared

CONSTANTS
    Providers,    \* the stFLIP tokens of the providers
    NoProvider,   \* the zero address
    Gateways      \* addresses of gateways

VARIABLES governor, stMinter, stBurner, stFLIP, stateChainGateway

stakingAddresses == <<stMinter, stBurner, stFLIP>>
holderVars == <<governor, stakingAddresses, stateChainGateway>>

HolderInit ==
    /\ governor \in Accounts
    /\ stMinter = NoProvider /\ stBurner = NoProvider /\ stFLIP = NoProvider
    /\ stateChainGateway \in Gateways

UpdateStateChainGateway(caller, gateway) ==
    /\ caller = governor
    /\ stateChainGateway' = gateway
    /\ UNCHANGED <<governor, stakingAddresses>>

UpdateStakingAddresses(caller, minter, burner, token) ==
    /\ caller = governor
    /\ stMinter' = minter /\ stBurner' = burner /\ stFLIP' = token
    /\ UNCHANGED <<governor, stateChainGateway>>

TransferGovernor(caller, to) ==
    /\ caller = governor /\ NzAddr(to)
    /\ governor' = to
    /\ UNCHANGED <<stakingAddresses, stateChainGateway>>

HolderNext ==
    \E caller \in Accounts :
        \/ \E gateway \in Gateways : UpdateStateChainGateway(caller, gateway)
        \/ \E minter, burner, token \in Providers \cup {NoProvider} :
              UpdateStakingAddresses(caller, minter, burner, token)
        \/ \E to \in Accounts : TransferGovernor(caller, to)
=============================================================================
