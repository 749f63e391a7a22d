------------------------------- MODULE ScUtils -------------------------------
(***************************************************************************)
(* The ScUtils contract (contracts/ScUtils.sol), through which users and   *)
(* swaps pay the gateway, the Vault or any address together with a call of *)
(* the State Chain.  It keeps no state: what it is paid for a swap, it     *)
(* pays on in the same call.  Native tokens are sent with all the gas, so  *)
(* the code of a contract that is paid runs.                               *)
(***************************************************************************)
EXTENDS CFReceiver

CONSTANTS
    TheScUtils,     \* the ScUtils contract
    SC_GATEWAY,     \* the gateway it was deployed with
    FLIP,           \* the gateway's FLIP
    Destinations    \* whom users pay through it with depositTo

ASSUME ScUtilsAssumption ==
    /\ FLIP \in Tokens /\ TheScUtils # SC_GATEWAY
    /\ {TheScUtils, SC_GATEWAY} \subseteq
          Addresses \ ({ZeroAddr, TheVault, TheMulticall} \cup Tokens \cup Accounts \cup Receivers)
    /\ Destinations \subseteq Accounts \cup Receivers \cup DepositContracts
                             \cup {TheScUtils, SC_GATEWAY, TheVault}

\* The gateway and ScUtils itself have no receive function.
TakesNative(to) == to \notin {TheScUtils, SC_GATEWAY}

\* f once from pays an amount on.
PaidOn(f, asset, from, to, amount) ==
    IF asset = NATIVE
    THEN Received([f EXCEPT ![NATIVE][from] = @ - amount], to, amount)
    ELSE Moved(f, asset, from, to, amount)

\* _depositFrom and _deposit.
PayOn(f, asset, from, to, amount) ==
    /\ CanPay(f, asset, from, amount)
    /\ asset = NATIVE => TakesNative(to)
    /\ funds' = PaidOn(f, asset, from, to, amount)
    /\ stack' = (IF asset = NATIVE /\ to \in Receivers THEN <<Called(to)>> ELSE <<>>) \o stack
    /\ UNCHANGED <<isRunning, allowance, receiverVars>>

DepositFrom(caller, asset, to, amount) ==
    /\ InControl(caller)
    /\ asset = NATIVE /\ to \in Receivers => Len(stack) < MaxDepth
    /\ PayOn(funds, asset, caller, to, amount)

DepositToScGateway(caller, amount) == DepositFrom(caller, FLIP, SC_GATEWAY, amount)
DepositToVault(caller, asset, amount) == DepositFrom(caller, asset, TheVault, amount)
DepositTo(caller, asset, to, amount) == DepositFrom(caller, asset, to, amount)

\* Wrong: the address that stands for the funding of an account is paid.
NamedTarget(to) == to

\* Where the message of a swap directs its funds; ScUtils itself stands for the
\* funding of a State Chain account, for which the gateway takes them.
Target(to) == IF to = TheScUtils THEN SC_GATEWAY ELSE to

\* cfReceive, with the funds as the caller has left them.
ScUtilsReceive(sender, f, asset, to, amount) ==
    /\ sender = TheVault
    /\ to \in {TheScUtils, SC_GATEWAY} => asset = FLIP
    /\ PayOn(f, asset, TheScUtils, Target(to), amount)
=============================================================================
