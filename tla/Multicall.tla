------------------------------ MODULE Multicall ------------------------------
(***************************************************************************)
(* The Multicall contract (contracts/Multicall.sol), which makes the calls *)
(* that the State Chain signed, with the funds the Vault passes it.  The   *)
(* calls may hand control to code nobody knows, so a transaction is not    *)
(* one step: stack holds the code that is running, innermost first, which  *)
(* is either a run of the Multicall or a contract it or the Vault called.  *)
(*                                                                         *)
(* A call that fails and takes its whole transaction with it leaves no     *)
(* trace, so only the ends that are kept are modelled: a run that fails    *)
(* is a step of the Vault, which goes on.                                  *)
(***************************************************************************)
EXTENDS Deposit

CONSTANTS
    TheMulticall,   \* the Multicall contract
    Receivers       \* contracts of users, with code that may do anything

ASSUME ReceiverAssumption ==
    /\ {TheMulticall} \cup Receivers \subseteq Addresses \ ({ZeroAddr, TheVault} \cup Tokens \cup Accounts)
    /\ TheMulticall \notin Receivers \cup Refusers

VARIABLES
    stack,       \* the code that is running, innermost first
    isRunning,
    allowance    \* [Tokens -> Nat], what the Multicall may take from the Vault

\* The calls of a run: what becomes of the payload (callType), the function
\* that is called, the token, the recipient and the amount in its calldata.
Calls ==
    [callType : STRING, method : STRING, token : Assets, to : Parties, amount : Nat]

runVars == <<stack, isRunning, allowance>>

Running(calls) == [code |-> "multicall", todo |-> calls]
Called(r) == [code |-> "receiver", at |-> r]

\* Who makes the next call: any account, with a transaction, or the contract
\* that is running.
InControl(caller) ==
    IF stack = <<>>
    THEN caller \in Accounts
    ELSE Head(stack).code = "receiver" /\ caller = Head(stack).at
SomeoneCalls == stack # <<>> => Head(stack).code = "receiver"

\* The code of a user's contract returns.
Return ==
    /\ stack # <<>> /\ Head(stack).code = "receiver"
    /\ stack' = Tail(stack)
    /\ UNCHANGED <<isRunning, allowance, funds>>

\* Wrong: a run can be entered while another is going on.
Reentered == TRUE

Idle == ~ isRunning

\* run, up to its first call: msg.value arrived with it, tokens are taken out
\* of the allowance, which must cover them.
StartRun(token, amount, approved, calls) ==
    /\ Idle
    /\ isRunning' = TRUE
    /\ CanPay(funds, token, TheVault, amount)
    /\ funds' = Moved(funds, token, TheVault, TheMulticall, amount)
    /\ allowance' = IF token \in Tokens /\ amount > 0
                    THEN [allowance EXCEPT ![token] = approved - amount]
                    ELSE allowance
    /\ approved >= amount
    /\ stack' = <<Running(calls)>> \o stack

Step(call) ==
    /\ stack # <<>> /\ Head(stack).code = "multicall"
    /\ Head(stack).todo # <<>>
    /\ call = Head(Head(stack).todo)
Advanced == <<[Head(stack) EXCEPT !.todo = Tail(@)]>> \o Tail(stack)

\* CollectTokenBalance: msg.sender of a run is the Vault.
CollectTokenBalance(call) ==
    /\ Step(call) /\ call.callType = "collectTokenBalance" /\ call.token \in Tokens
    /\ LET amount == funds[call.token][TheVault] IN
          /\ allowance[call.token] >= amount
          /\ allowance' = [allowance EXCEPT ![call.token] = @ - amount]
          /\ funds' = Moved(funds, call.token, TheVault, TheMulticall, amount)
    /\ stack' = Advanced
    /\ UNCHANGED isRunning

\* The amount that is put into the calldata, and the value of the call.
Amount(call) ==
    IF call.callType = "fullTokenBalance" THEN funds[call.token][TheMulticall] ELSE call.amount
Value(call) ==
    IF call.callType = "fullNativeBalance" THEN funds[NATIVE][TheMulticall] ELSE call.amount

\* A call of transfer of a token.
CallTransfer(call) ==
    /\ Step(call) /\ call.method = "transfer" /\ call.token \in Tokens
    /\ CanPay(funds, call.token, TheMulticall, Amount(call))
    /\ funds' = Moved(funds, call.token, TheMulticall, call.to, Amount(call))
    /\ stack' = Advanced
    /\ UNCHANGED <<isRunning, allowance>>

\* A call of transferFrom of a token, with the Vault as the owner.
CallTransferFrom(call) ==
    /\ Step(call) /\ call.method = "transferFrom" /\ call.token \in Tokens
    /\ allowance[call.token] >= Amount(call)
    /\ CanPay(funds, call.token, TheVault, Amount(call))
    /\ allowance' = [allowance EXCEPT ![call.token] = @ - Amount(call)]
    /\ funds' = Moved(funds, call.token, TheVault, call.to, Amount(call))
    /\ stack' = Advanced
    /\ UNCHANGED isRunning

\* A call with native tokens, of whoever takes them: a user's contract, an
\* account, a Deposit or the Vault.
CallWithValue(call) ==
    /\ Step(call) /\ call.method = "fallback"
    /\ call.to \in Accounts \cup Receivers \cup DepositContracts \cup {TheVault}
    /\ CanPay(funds, NATIVE, TheMulticall, Value(call))
    /\ funds' = Received([funds EXCEPT ![NATIVE][TheMulticall] = @ - Value(call)],
                         call.to, Value(call))
    /\ stack' = (IF call.to \in Receivers THEN <<Called(call.to)>> ELSE <<>>) \o Advanced
    /\ UNCHANGED <<isRunning, allowance>>

\* The end of run.
EndRun ==
    /\ stack # <<>> /\ Head(stack) = Running(<<>>)
    /\ stack' = Tail(stack)
    /\ isRunning' = FALSE
    /\ UNCHANGED <<allowance, funds>>

MulticallInit ==
    /\ stack = <<>>
    /\ isRunning = FALSE
    /\ allowance = [t \in Tokens |-> 0]
=============================================================================
