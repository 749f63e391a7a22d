-------------------------------- MODULE Vault --------------------------------
(***************************************************************************)
(* The Vault (contracts/Vault.sol) with the contracts around it: what the  *)
(* aggregate key signs has it sweep Deposits, pay, call receivers and run  *)
(* the Multicall; users pay into it; the governor may empty it in an       *)
(* emergency.                                                              *)
(*                                                                         *)
(* Whoever is InControl can submit a signature, so a contract that is      *)
(* called in the middle of a transaction can re-enter the Vault.  What the *)
(* governor, the owners and the holders of the other keys do, they do in   *)
(* transactions of their own.                                              *)
(***************************************************************************)
EXTENDS GovernanceCommunityGuarded, ScUtils

CONSTANTS
    AGG_KEY_EMERGENCY_TIMEOUT,   \* _AGG_KEY_EMERGENCY_TIMEOUT, 3 days
    Users,                       \* accounts that pay in
    Payments,                    \* amounts they pay in
    MaxReceived                  \* bound: users pay no more of an asset

ASSUME VaultAssumption ==
    /\ TheVault \in NonceConsumers
    /\ AGG_KEY_EMERGENCY_TIMEOUT \in Nat \ {0}
    /\ Users \subseteq Accounts
    /\ Payments \subseteq Nat

\* The functions that make the payments their arguments list, and those of
\* them that take a single one.
SinglePaying == {"transfer", "transferFallback", "executexSwapAndCall", "executeActions"}
Paying == {"allBatch", "allBatchV2", "transferBatch"} \cup SinglePaying

\* What is signed has the types of the contracts' interfaces; and the Vault's
\* own payments are of assets that are modelled.
ASSUME PaymentAssumption ==
    \A fn \in Paying : \A args \in SignedArgs(fn) :
        /\ args.transfers \in Seq([token : Assets, recipient : Parties, amount : Nat])
        /\ fn \in SinglePaying => Len(args.transfers) = 1
ASSUME ArgumentAssumption ==
    /\ \A fn \in {"allBatch", "deployAndFetchBatch"} : \A args \in SignedArgs(fn) :
          args.deploy \in Seq(DepositContracts)
    /\ \A args \in SignedArgs("executexSwapAndCall") :
          args.transfers[1].recipient = TheScUtils => args.to \in Parties
    /\ \A args \in SignedArgs("executeActions") : args.calls \in Seq(Calls)

VARIABLES
    failures,    \* the events a signature led to, by the place of what failed
    received,    \* history: what was paid or swept into the Vault
    withdrawn    \* history: what the governor withdrew

ledgerVars == <<failures, received, withdrawn>>
chainVars == <<funds, deposits, runVars, receiverVars>>
vaultVars == <<kmVars, keyManager, guardVars, chainVars, ledgerVars>>

\* The amounts of each asset in a set of deposits.
HeldBy(S, a) == SumFunctionOnSet(funds[a], {d \in DepositContracts : <<d, a>> \in S})

\* received, as it is when the Vault's balances grow by a step that makes no payment.
Income ==
    received' = [a \in Assets |-> received[a] +
        (IF CanPay(funds', a, TheVault, funds[a][TheVault])
         THEN funds'[a][TheVault] - funds[a][TheVault] ELSE 0)]
-----------------------------------------------------------------------------
CheckUpdateVaultKeyManager(k, omitChecks) ==
    IF omitChecks
    THEN NzAddr(govKey[k])
    ELSE /\ govKey[k] = GetGovernor(TheVault)
         /\ commKey[k] = GetCommunityKey(TheVault)
         /\ aggKey[k] = aggKey[keyManager[TheVault]]
         /\ lastValidateTime[k] <= now

UpdateKeyManager(sig, nonce, newKeyManager, omitChecks) ==
    /\ SomeoneCalls
    /\ SetKeyManager(TheVault, sig, nonce, newKeyManager, omitChecks)
    /\ CheckUpdateVaultKeyManager(newKeyManager, omitChecks)
    /\ UNCHANGED <<guardVars, chainVars, ledgerVars>>

\* The checks every function starts with that acts on a signature.
Authorised(sig, nonce, fn, args) ==
    /\ SomeoneCalls
    /\ OnlyNotSuspended(TheVault)
    /\ ConsumesKeyNonce(TheVault, sig, nonce, fn, args)
    /\ UNCHANGED <<keyManager, guardVars, withdrawn>>
-----------------------------------------------------------------------------
\* f once the Vault has made payment p.
Paid(f, p) == Moved(f, p.token, TheVault, p.recipient, p.amount)

\* Wrong: a transfer the Vault can not cover is taken for one that was made.
SucceedsUncovered(f, p, existing) ==
    p.token = NATIVE => p.recipient \notin existing

\* _transfer: with 8000 gas a deployed Deposit can not pass native tokens on.
\* A transfer that fails, because the Vault has too little or the recipient
\* or the token refuses, is an event and no more.
Succeeds(f, p, existing) ==
    /\ CanPay(f, p.token, TheVault, p.amount)
    /\ p.token = NATIVE => p.recipient \notin existing

\* Wrong: stops at the first transfer that fails.
TransferUntilFailure(f, transfers, refused, existing) ==
    LET after[i \in 0..Len(transfers)] ==
            IF i = 0 THEN [funds |-> f, failed |-> {}]
            ELSE IF /\ after[i - 1].failed = {} /\ i \notin refused
                    /\ Succeeds(after[i - 1].funds, transfers[i], existing)
                 THEN [funds |-> Paid(after[i - 1].funds, transfers[i]), failed |-> {}]
                 ELSE [after[i - 1] EXCEPT !.failed = IF @ = {} THEN {i} ELSE @]
    IN  after[Len(transfers)]

\* _transferBatch: the funds after it, and the transfers that failed.
TransferBatchFrom(f, transfers, refused, existing) ==
    LET after[i \in 0..Len(transfers)] ==
            IF i = 0 THEN [funds |-> f, failed |-> {}]
            ELSE IF i \notin refused /\ Succeeds(after[i - 1].funds, transfers[i], existing)
                 THEN [after[i - 1] EXCEPT !.funds = Paid(@, transfers[i])]
                 ELSE [after[i - 1] EXCEPT !.failed = @ \cup {i}]
    IN  after[Len(transfers)]

\* Wrong: transfers run before what they are to be paid from is fetched.
TransferThenFetch(sig, deploy, fetch, transfers, refused) ==
    LET swept == SentOnCreation(deploy) \cup Fetched(fetch)
        after == TransferBatchFrom(funds, transfers, refused, deposits)
    IN  /\ funds' = Swept(after.funds, swept)
        /\ failures' = [failures EXCEPT ![sig] = after.failed]
        /\ received' = [a \in Assets |-> received[a] + HeldBy(swept, a)]

\* Deposits are swept first, then all transfers are made.
FetchThenTransfer(sig, deploy, fetch, transfers, refused) ==
    LET swept == SentOnCreation(deploy) \cup Fetched(fetch)
        after == TransferBatchFrom(Swept(funds, swept), transfers, refused,
                                   deposits \cup Deployed(deploy))
    IN  /\ funds' = after.funds
        /\ failures' = [failures EXCEPT ![sig] = after.failed]
        /\ received' = [a \in Assets |-> received[a] + HeldBy(swept, a)]

\* What allBatch and the functions that do part of it have in common: a fetch
\* that fails takes the batch with it, a transfer that fails does not.
Batch(sig, deploy, fetch, transfers) ==
    /\ Deployable(deploy)
    /\ Fetchable(fetch, deposits \cup Deployed(deploy))
    /\ deposits' = deposits \cup Deployed(deploy)
    /\ \E refused \in SUBSET {i \in DOMAIN transfers : transfers[i].recipient \in Refusers} :
          FetchThenTransfer(sig, deploy, fetch, transfers, refused)
    /\ UNCHANGED <<runVars, receiverVars>>

AllBatch(sig, nonce, args) ==
    /\ Authorised(sig, nonce, "allBatch", args)
    /\ Batch(sig, args.deploy, args.fetch, args.transfers)

AllBatchV2(sig, nonce, args) ==
    /\ Authorised(sig, nonce, "allBatchV2", args)
    /\ Batch(sig, <<>>, args.fetch, args.transfers)

NonZero(p) == NzAddr(p.recipient) /\ NzUint(p.amount)

Transfer(sig, nonce, args) ==
    /\ Authorised(sig, nonce, "transfer", args)
    /\ NonZero(args.transfers[1])
    /\ Batch(sig, <<>>, <<>>, args.transfers)

TransferBatch(sig, nonce, args) ==
    /\ Authorised(sig, nonce, "transferBatch", args)
    /\ Batch(sig, <<>>, <<>>, args.transfers)

DeployAndFetchBatch(sig, nonce, args) ==
    /\ Authorised(sig, nonce, "deployAndFetchBatch", args)
    /\ Batch(sig, args.deploy, <<>>, <<>>)

FetchBatch(sig, nonce, args) ==
    /\ Authorised(sig, nonce, "fetchBatch", args)
    /\ Batch(sig, <<>>, args.fetch, <<>>)

\* transferFallback: all the gas, so the recipient's code runs; and no event,
\* the payment succeeds or there is none.
TransferFallback(sig, nonce, args) ==
    LET p == args.transfers[1]
        rest == [funds EXCEPT ![p.token][TheVault] = @ - p.amount]
        paid == Paid(funds, p) IN
    /\ Authorised(sig, nonce, "transferFallback", args)
    /\ NonZero(p)
    /\ CanPay(funds, p.token, TheVault, p.amount)
    /\ funds' = IF p.token = NATIVE
                THEN Received(rest, p.recipient, p.amount)
                ELSE paid
    /\ received' = [a \in Assets |-> received[a] + funds'[a][TheVault] - paid[a][TheVault]]
    /\ stack' = (IF p.token = NATIVE /\ p.recipient \in Receivers
                 THEN <<Called(p.recipient)>> ELSE <<>>) \o stack
    /\ UNCHANGED <<deposits, isRunning, allowance, receiverVars, failures>>
-----------------------------------------------------------------------------
\* The call of executexSwapAndCall, with the funds as they are once the
\* recipient is paid.
CallWithFunds(paid, p, args) ==
    \/ /\ p.recipient \in Receivers
       /\ funds' = paid
       /\ CfReceive(TheVault, p.recipient, p.token, p.amount)
       /\ stack' = <<Called(p.recipient)>> \o stack
       /\ UNCHANGED <<isRunning, allowance>>
    \/ /\ p.recipient = TheScUtils
       /\ ScUtilsReceive(TheVault, paid, p.token, args.to, p.amount)

\* executexSwapAndCall: pay, then call; a receiver that fails keeps the funds
\* in the Vault, because the transaction is undone.  ScUtils may pay them back.
ExecutexSwapAndCall(sig, nonce, args) ==
    LET p == args.transfers[1]
        paid == Paid(funds, p) IN
    /\ Authorised(sig, nonce, "executexSwapAndCall", args)
    /\ NzAddr(p.recipient)
    /\ CanPay(funds, p.token, TheVault, p.amount)
    /\ CallWithFunds(paid, p, args)
    /\ received' = [a \in Assets |-> received[a] + funds'[a][TheVault] - paid[a][TheVault]]
    /\ UNCHANGED <<deposits, failures>>

ExecutexCall(sig, nonce, args) ==
    /\ Authorised(sig, nonce, "executexCall", args)
    /\ NzAddr(args.recipient)
    /\ args.recipient \in Receivers
    /\ CfReceivexCall(TheVault, args.recipient)
    /\ stack' = <<Called(args.recipient)>> \o stack
    /\ UNCHANGED <<funds, deposits, isRunning, allowance, failures, received>>

\* approve: what the Multicall may take when it is called.
Approved(p) == p.amount

\* executeActions, when the run comes to its end.
ActionsSucceed(sig, nonce, args) ==
    LET p == args.transfers[1] IN
    /\ Authorised(sig, nonce, "executeActions", args)
    /\ StartRun(p.token, p.amount, Approved(p), args.calls)
    /\ UNCHANGED <<deposits, receiverVars, failures, received>>

\* Wrong: what was approved stays approved.
KeepAllowance(p) ==
    IF p.token \in Tokens /\ p.amount > 0
    THEN [allowance EXCEPT ![p.token] = Approved(p)] ELSE allowance

ResetAllowance(p) ==
    IF p.token \in Tokens /\ p.amount > 0
    THEN [allowance EXCEPT ![p.token] = 0] ELSE allowance

\* executeActions, when the run reverts: because the Multicall is running, the
\* Vault has too little, or any of the calls fails.  All of the run is undone;
\* the nonce stays used.
ActionsFail(sig, nonce, args) ==
    /\ Authorised(sig, nonce, "executeActions", args)
    /\ allowance' = ResetAllowance(args.transfers[1])
    /\ failures' = [failures EXCEPT ![sig] = {1}]
    /\ UNCHANGED <<funds, deposits, stack, isRunning, receiverVars, received>>

\* The Multicall is the one contract that actions are signed for.
ExecuteActions(sig, nonce, args) ==
    /\ ActionsSucceed(sig, nonce, args) \/ ActionsFail(sig, nonce, args)
    /\ args.transfers[1].recipient = TheMulticall
-----------------------------------------------------------------------------
\* xSwapNative, xSwapToken, xCallNative, xCallToken, addGasNative and
\* addGasToken: the State Chain acts on their events, which are alike in what
\* they do to the Vault.
PayIn(caller, asset, amount) ==
    /\ InControl(caller) /\ received[asset] < MaxReceived
    /\ OnlyNotSuspended(TheVault)
    /\ NzUint(amount)
    /\ CanPay(funds, asset, caller, amount)
    /\ funds' = Moved(funds, asset, caller, TheVault, amount)
    /\ received' = [received EXCEPT ![asset] = @ + amount]
    /\ UNCHANGED <<kmVars, keyManager, guardVars, deposits, runVars, receiverVars,
                   failures, withdrawn>>

\* A user pays to the address of a Deposit.
PayDeposit(caller, deposit, asset, amount) ==
    LET rest == [funds EXCEPT ![asset][caller] = @ - amount] IN
    /\ InControl(caller) /\ received[asset] < MaxReceived
    /\ CanPay(funds, asset, caller, amount)
    /\ funds' = IF asset = NATIVE
                THEN Received(rest, deposit, amount)
                ELSE Moved(funds, asset, caller, deposit, amount)
    /\ Income
    /\ UNCHANGED <<kmVars, keyManager, guardVars, deposits, runVars, receiverVars,
                   failures, withdrawn>>
-----------------------------------------------------------------------------
\* Wrong: does not wait.
NoEmergencyTimeout(k) == lastValidateTime[k] <= now

EmergencyTimeout(k) ==
    /\ lastValidateTime[k] <= now
    /\ now - lastValidateTime[k] >= AGG_KEY_EMERGENCY_TIMEOUT

\* govWithdraw: all of each asset asked for, or no more than an event where the
\* governor can not be paid, as if he had not asked.
GovWithdraw(caller) ==
    /\ stack = <<>> /\ caller \in Accounts
    /\ EmergencyApproved(TheVault, caller)
    /\ EmergencyTimeout(keyManager[TheVault])
    /\ \E asked \in SUBSET Assets :
          /\ funds' = [a \in Assets |->
                 IF a \in asked THEN Moved(funds, a, TheVault, caller, funds[a][TheVault])[a]
                 ELSE funds[a]]
          /\ withdrawn' = [a \in Assets |->
                 withdrawn[a] + (IF a \in asked THEN funds[a][TheVault] ELSE 0)]
    /\ UNCHANGED <<kmVars, keyManager, guardVars, deposits, runVars, receiverVars,
                   failures, received>>
-----------------------------------------------------------------------------
VaultInit ==
    /\ KMInit /\ AggKeyNonceConsumerInit /\ GuardedInit
    /\ funds = InitialFunds
    /\ DepositInit /\ MulticallInit /\ CFReceiverInit
    /\ failures = [s \in Signatures |-> {}]
    /\ received = [a \in Assets |-> 0]
    /\ withdrawn = [a \in Assets |-> 0]

SubmitUpgrade(sig, nonce) ==
    \E k \in HomeKeyManagers, omitChecks \in BOOLEAN : UpdateKeyManager(sig, nonce, k, omitChecks)

Submit(sig, nonce, args) ==
    \/ AllBatch(sig, nonce, args) \/ AllBatchV2(sig, nonce, args)
    \/ Transfer(sig, nonce, args) \/ TransferBatch(sig, nonce, args)
    \/ DeployAndFetchBatch(sig, nonce, args) \/ FetchBatch(sig, nonce, args)
    \/ TransferFallback(sig, nonce, args)
    \/ ExecutexSwapAndCall(sig, nonce, args) \/ ExecutexCall(sig, nonce, args)
    \/ ExecuteActions(sig, nonce, args)

\* What the Multicall and the contracts it calls do apart from the Vault.
RunNext ==
    \/ Return \/ EndRun
    \/ stack # <<>> /\ Head(stack).code = "multicall" /\ Head(stack).todo # <<>>
          /\ LET call == Head(Head(stack).todo) IN
                \/ CollectTokenBalance(call) \/ CallTransfer(call)
                \/ CallTransferFrom(call) \/ CallWithValue(call)

ReceiverNext ==
    \/ \E caller \in Accounts \cup Receivers, r \in Receivers, a \in Assets, n \in Payments :
          ForgedCfReceive(caller, r, a, n)
    \/ stack # <<>> /\ Head(stack).code = "multicall" /\ Head(stack).todo # <<>>
          /\ CallCfReceive(Head(Head(stack).todo))
    \/ \E caller \in Accounts, r \in CFReceivers, v \in OtherVaults :
          UpdateCfVault(caller, r, v)

\* ScUtils, called by users and by contracts.
ScUtilsNext ==
    \E caller \in Users \cup Receivers, a \in Assets, n \in Payments :
        \/ a = FLIP /\ DepositToScGateway(caller, n)
        \/ received[a] < MaxReceived /\ DepositToVault(caller, a, n)
        \/ \E to \in Destinations :
              /\ to = TheVault \/ to \in DepositContracts => received[a] < MaxReceived
              /\ DepositTo(caller, a, to, n)

VaultNext ==
    \/ \E sig \in Signatures, nonce \in Nonces : SubmitUpgrade(sig, nonce)
    \/ \E sig \in Signatures : \E args \in SignedArgs(sig.hash.call.fn), nonce \in Nonces :
          Submit(sig, nonce, args)
    \/ \E caller \in Users \cup Receivers, a \in Assets, n \in Payments :
          \/ PayIn(caller, a, n)
          \/ \E d \in DepositContracts : PayDeposit(caller, d, a, n)
    \/ RunNext /\ Income
          /\ UNCHANGED <<kmVars, keyManager, guardVars, deposits, receiverVars, failures, withdrawn>>
    \/ ScUtilsNext /\ Income
          /\ UNCHANGED <<kmVars, keyManager, guardVars, deposits, failures, withdrawn>>
    \/ ReceiverNext
          /\ UNCHANGED <<kmVars, keyManager, guardVars, deposits, ledgerVars>>
    \/ \E caller \in Accounts : GovWithdraw(caller)
    \/ /\ stack = <<>>
       /\ GuardUpdate(TheVault)
       /\ UNCHANGED <<kmVars, keyManager, chainVars, ledgerVars>>
    \/ /\ stack = <<>>
       /\ Tick \/ \E k \in HomeKeyManagers : KeyUpdate(k)
       /\ UNCHANGED <<keyManager, guardVars, chainVars, ledgerVars>>

VaultSpec == VaultInit /\ [][VaultNext]_vaultVars
-----------------------------------------------------------------------------
\* The types of the state.
VaultTypeOK ==
    /\ KMTypeOK /\ AggKeyNonceConsumerTypeOK /\ GuardedTypeOK /\ AssetsTypeOK
    /\ deposits \subseteq DepositContracts
    /\ stack \in Seq([code : {"receiver"}, at : Receivers] \cup [code : {"multicall"}, todo : Seq(Calls)])
    /\ isRunning \in BOOLEAN
    /\ allowance \in [Tokens -> Nat]
    /\ cfVault \in [CFReceivers -> {TheVault} \cup OtherVaults]
    /\ told \in [CFReceivers -> [Assets -> Nat]]
    /\ failures \in [Signatures -> SUBSET Nat]
    /\ received \in [Assets -> Nat] /\ withdrawn \in [Assets -> Nat]

\* What signature s orders to be paid of an asset, to others than the Vault
\* itself, unless it failed; and what no event said had failed.
TransfersOf(s) == IF s.hash.call.fn \in Paying THEN s.hash.call.args.transfers ELSE <<>>
OrderedUnless(failed, s, a) ==
    LET transfers == TransfersOf(s)
    IN  SumFunctionOnSet([i \in DOMAIN transfers |-> transfers[i].amount],
            {i \in DOMAIN transfers :
                /\ transfers[i].token = a /\ transfers[i].recipient # TheVault
                /\ i \notin failed})
OrderedBy(s, a) == OrderedUnless(failures[s], s, a)
Ordered(S, a) == SumFunctionOnSet([s \in Signatures |-> OrderedBy(s, a)], S)

\* The events of the Vault account for its balances: whatever order batches,
\* runs and calls that re-enter come in, and whichever of them fail in part,
\* it has what it took in, less every transfer of an accepted signature of
\* which no event says that it failed, each of them once.
EventsAccount ==
    \A a \in Assets :
        funds[a][TheVault] + Ordered({s \in Signatures : Used(s)}, a) + withdrawn[a]
            = InitialFunds[a][TheVault] + received[a]

\* A transfer in a batch fails for a reason the batch could not remove: the
\* recipient or token refuses, a Deposit needs more gas, or the Vault has less
\* than it even after all that the batch fetches ("transfers are executed last
\* to ensure that all fetching has been completed first", Vault.sol).
CausedStep ==
    \A s \in Signatures :
        AcceptedNow(s) /\ s.hash.call.fn # "executeActions" =>
            \A i \in failures'[s] :
                LET p == s.hash.call.args.transfers[i] IN
                \/ p.recipient \in Refusers
                \/ p.token = NATIVE /\ p.recipient \in deposits'
                \/ p.amount > funds'[p.token][TheVault]
TransfersLast == [][CausedStep]_vaultVars

Runs == {i \in DOMAIN stack : stack[i].code = "multicall"}

\* A run of the Multicall has it to itself, and none leaves it locked; and no
\* code that is called finds an allowance of the Vault's tokens to use.
RunIsolation ==
    /\ Cardinality(Runs) = IF isRunning THEN 1 ELSE 0
    /\ \A t \in Tokens : allowance[t] = 0

SwapTo(s, r) ==
    s.hash.call.fn = "executexSwapAndCall" /\ s.hash.call.args.transfers[1].recipient = r

\* A contract that inherits CFReceiver was told of exactly the amounts the
\* Vault paid it for signed swaps, although anybody can call it, and the
\* State Chain may have the Multicall call it.
ReceiverNotFooled ==
    \A r \in CFReceivers, a \in Assets :
        told[r][a] = Ordered({s \in Signatures : Used(s) /\ SwapTo(s, r)}, a)

\* A swap that is paid through ScUtils leaves ScUtils with what it had before:
\* all it is paid it has passed on in the same call, wherever the message
\* directs it, and nothing is left for the next caller to find.
PassedOnStep ==
    \A s \in Signatures : AcceptedNow(s) /\ SwapTo(s, TheScUtils) =>
        \A a \in Assets : funds'[a][TheScUtils] = funds[a][TheScUtils]
SwapsPassOn == [][PassedOnStep]_vaultVars

\* Nothing leaves the Vault while it is suspended, except to the governor,
\* once the community agreed and its KeyManager has seen no signature for the
\* emergency timeout.
FrozenStep ==
    suspended[TheVault] =>
        \A a \in Assets : funds'[a][TheVault] < funds[a][TheVault] =>
            /\ communityGuardDisabled[TheVault]
            /\ \A s \in Signatures : Used(s) /\ Home(s) = keyManager[TheVault]
                   => now >= lastUse[s] + AGG_KEY_EMERGENCY_TIMEOUT
            /\ funds'[a][GetGovernor(TheVault)] - funds[a][GetGovernor(TheVault)]
                   = funds[a][TheVault] - funds'[a][TheVault]
FundsFrozen == [][FrozenStep]_vaultVars

\* What the Vault says of govWithdraw (Vault.sol:674): it can only be executed
\* if no nonce from the current aggregate key, of whichever KeyManager, was
\* consumed for the time of the timeout.
SilentStep ==
    \A a \in Assets : withdrawn'[a] > withdrawn[a] =>
        \A s \in Signatures : Used(s) /\ s.key = aggKey[keyManager[TheVault]] =>
            now >= lastUse[s] + AGG_KEY_TIMEOUT
WithdrawnInSilence == [][SilentStep]_vaultVars

\* Signatures over payments as the State Chain understands them.
PaymentSigs == {s \in Signatures : s.hash.call.fn \in Paying}

\* The Vault, with all that can happen to it, implements orders of payments.
Ledger == INSTANCE PaymentOrders WITH
    Orders <- PaymentSigs,
    Lines <- [s \in PaymentSigs |-> DOMAIN TransfersOf(s)],
    Owed <- [s \in PaymentSigs |-> [failed \in SUBSET DOMAIN TransfersOf(s) |->
                [a \in Assets |-> OrderedUnless(failed, s, a)]]],
    executed <- {s \in PaymentSigs : Used(s)},
    failed <- [s \in PaymentSigs |-> failures[s]],
    balance <- [a \in Assets |-> funds[a][TheVault]],
    income <- received,
    halted <- suspended[TheVault]
OrdersPaid == Ledger!Spec
=============================================================================
