------------------------------- MODULE Shared -------------------------------
(***************************************************************************)
(* What all the contracts share: the address space, the externally owned   *)
(* accounts that send transactions, and the checks of abstract/Shared.sol. *)
(***************************************************************************)
EXTENDS Naturals

CONSTANTS
    Addresses,   \* every address in play, the same on all chains
    ZeroAddr,    \* address(0)
    Accounts     \* externally owned accounts

ASSUME AddressAssumption ==
    /\ ZeroAddr \in Addresses
    /\ Accounts \subseteq Addresses \ {ZeroAddr}

NzAddr(a) == a # ZeroAddr
NzUint(u) == u # 0
=============================================================================
