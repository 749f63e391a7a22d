------------------------------ MODULE CFReceiver ------------------------------
(***************************************************************************)
(* The contracts of users that inherit contracts/abstract/CFReceiver.sol:  *)
(* they take what the Vault tells them of a swap at its word, and nobody   *)
(* else's.  What they do with it is up to them.                            *)
(***************************************************************************)
EXTENDS Multicall

CONSTANTS
    CFReceivers,   \* the Receivers that inherit CFReceiver
    ReceiverOwner, \* the account that deploys and owns them
    OtherVaults,   \* further Vaults that an owner may refer his contract to
    MaxDepth       \* bound: how deep users' contracts call one another

ASSUME CFReceiverAssumption ==
    /\ CFReceivers \subseteq Receivers
    /\ ReceiverOwner \in Accounts
    /\ OtherVaults \cap (Accounts \cup Receivers \cup {TheMulticall}) = {}

VARIABLES
    cfVault,   \* [CFReceivers -> the Vault it believes]
    told       \* history: the amounts of each asset it was told it received

receiverVars == <<cfVault, told>>

\* Wrong: anybody may call.
AnyCaller(r, sender) == TRUE

OnlyCfVault(r, sender) == r \in CFReceivers => sender = cfVault[r]

\* cfReceive: the receiver takes note, and its own code runs.
CfReceive(sender, r, token, amount) ==
    /\ OnlyCfVault(r, sender)
    /\ told' = IF r \in CFReceivers THEN [told EXCEPT ![r][token] = @ + amount] ELSE told
    /\ UNCHANGED cfVault

CfReceivexCall(sender, r) == OnlyCfVault(r, sender) /\ UNCHANGED receiverVars

\* A call of cfReceive that does not come from a Vault, and brings nothing:
\* out of a transaction, a contract, or a run of the Multicall.
ForgedCfReceive(caller, r, token, amount) ==
    /\ InControl(caller)
    /\ Len(stack) < MaxDepth
    /\ CfReceive(caller, r, token, amount)
    /\ stack' = <<Called(r)>> \o stack
    /\ UNCHANGED <<funds, isRunning, allowance>>

CallCfReceive(call) ==
    /\ Step(call) /\ call.method = "cfReceive" /\ call.to \in Receivers
    /\ CfReceive(TheMulticall, call.to, call.token, call.amount)
    /\ stack' = <<Called(call.to)>> \o Advanced
    /\ UNCHANGED <<funds, isRunning, allowance>>

UpdateCfVault(caller, r, newVault) ==
    /\ InControl(caller)
    /\ caller = ReceiverOwner
    /\ cfVault' = [cfVault EXCEPT ![r] = newVault]
    /\ UNCHANGED <<told, funds, runVars>>

CFReceiverInit ==
    /\ cfVault = [r \in CFReceivers |-> TheVault]
    /\ told = [r \in CFReceivers |-> [a \in Assets |-> 0]]
=============================================================================
