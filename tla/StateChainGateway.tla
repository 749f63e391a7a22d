-------------------------- MODULE StateChainGateway --------------------------
(***************************************************************************)
(* The State Chain Gateway (contracts/StateChainGateway.sol) together with *)
(* all it works with: the FLIP token it issues, the KeyManagers that       *)
(* verify the State Chain's signatures for it, and the emergency controls  *)
(* it inherits.  A gateway can be replaced: Gateways holds the genesis one *)
(* and those that may be deployed later, each with state of its own.       *)
(*                                                                         *)
(* A transaction is one step.  FLIP calls nobody back, so no call can come *)
(* in between the steps of another.                                        *)
(***************************************************************************)
EXTENDS GovernanceCommunityGuarded, FLIP

CONSTANTS
    Gateways,          \* the gateway contracts, deployed or yet to be
    GenesisGateway,    \* the one DeployerContract deploys
    OtherContracts,    \* addresses that have code, but no getFLIP()
    NodeIDs,           \* State Chain accounts
    ZeroBytes32,       \* bytes32(0), which is no account
    Amounts,           \* amounts that accounts fund, transfer, mint and burn
    Holders,           \* addresses that accounts send FLIP, mint FLIP or pass issuance to
    REDEMPTION_DELAY,  \* uint48, nonzero
    GenesisMinFunding,
    NoSignature        \* not a signature: the origin of no redemption

ASSUME GatewayAssumption ==
    /\ Gateways \subseteq NonceConsumers
    /\ Gateways \cap Accounts = {}
    /\ GenesisGateway \in Gateways
    /\ OtherContracts \subseteq Addresses \ (Accounts \cup {ZeroAddr})
    /\ Amounts \subseteq Nat
    /\ Holders \subseteq Addresses
    /\ REDEMPTION_DELAY \in Nat \ {0}
    /\ GenesisMinFunding \in Nat
    /\ NoSignature \notin Signatures

\* State Chain signatures name amounts, times and addresses of these types.
ASSUME RedemptionAssumption ==
    \A args \in SignedArgs("registerRedemption") :
        /\ args.nodeID \in NodeIDs
        /\ args.amount \in Nat
        /\ args.expiryTime \in Nat
        /\ args.redeemAddress \in Addresses
        /\ args.executor \in Addresses

ASSUME SupplyUpdateAssumption ==
    \A args \in SignedArgs("updateFlipSupply") :
        args.newTotalSupply \in Nat /\ args.stateChainBlockNumber \in Nat

VARIABLES
    deployed,                  \* the Gateways that exist
    minFunding,                \* [Gateways -> Nat]
    pendingRedemptions,        \* [Gateways -> [NodeIDs -> Redemption]]
    lastSupplyUpdateBlockNum,  \* [Gateways -> Nat]
    origin,                    \* history: the signature a pending redemption is due to
    payouts                    \* history: how often each signature was paid out

redemptionVars == <<pendingRedemptions, origin, payouts>>
ownVars == <<deployed, minFunding, lastSupplyUpdateBlockNum>>
scgVars == <<kmVars, keyManager, guardVars, flipVars, ownVars, redemptionVars>>

Redemption ==
    [amount : Nat, redeemAddress : Addresses, startTime : Nat,
     expiryTime : Nat, executor : Addresses]

\* What a mapping slot holds that was never written, or was deleted.
NullRedemption ==
    [amount |-> 0, redeemAddress |-> ZeroAddr, startTime |-> 0,
     expiryTime |-> 0, executor |-> ZeroAddr]
-----------------------------------------------------------------------------
NzBytes32(b) == b # ZeroBytes32

\* Same keys in both KeyManagers; or, if omitted, governance and community
\* keys that are set.
CheckUpdateKeyManager(g, k, omitChecks) ==
    IF omitChecks
    THEN NzAddr(govKey[k]) /\ NzAddr(commKey[k])
    ELSE /\ govKey[k] = GetGovernor(g)
         /\ commKey[k] = GetCommunityKey(g)
         /\ aggKey[k] = aggKey[keyManager[g]]

UpdateKeyManager(g, sig, nonce, newKeyManager, omitChecks) ==
    /\ g \in deployed
    /\ SetKeyManager(g, sig, nonce, newKeyManager, omitChecks)
    /\ CheckUpdateKeyManager(g, newKeyManager, omitChecks)
    /\ UNCHANGED <<guardVars, flipVars, ownVars, redemptionVars>>

\* DeployerStateChainGateway: constructor and setFlip in one transaction.
\* setFlip reverts ever after.
DeployGateway(g, k, newMinFunding) ==
    /\ g \notin deployed
    /\ deployed' = deployed \cup {g}
    /\ keyManager' = [keyManager EXCEPT ![g] = k]
    /\ minFunding' = [minFunding EXCEPT ![g] = newMinFunding]
    /\ UNCHANGED <<kmVars, guardVars, flipVars, lastSupplyUpdateBlockNum, redemptionVars>>

\* The funder has approved the amount; not guarded by suspension.
FundStateChainAccount(g, funder, nodeID, amount) ==
    /\ g \in deployed
    /\ NzBytes32(nodeID)
    /\ amount >= minFunding[g]
    /\ Transfer(funder, g, amount)
    /\ UNCHANGED <<kmVars, keyManager, guardVars, totalSupply, issuer, ownVars, redemptionVars>>
-----------------------------------------------------------------------------
\* Wrong: a redemption that could have been executed may be replaced.
SlotFreeFromStart(r) == now > r.startTime

SlotFree(r) == now > r.expiryTime

\* Wrong: the delay is not added.
StartNow == now

StartTime == now + REDEMPTION_DELAY

RegisterRedemption(g, sig, nonce, args) ==
    /\ g \in deployed
    /\ OnlyNotSuspended(g)
    /\ NzBytes32(args.nodeID)
    /\ NzUint(args.amount)
    /\ NzAddr(args.redeemAddress)
    /\ ConsumesKeyNonce(g, sig, nonce, "registerRedemption", args)
    /\ SlotFree(pendingRedemptions[g][args.nodeID])
    /\ args.expiryTime > StartTime
    /\ pendingRedemptions' = [pendingRedemptions EXCEPT ![g][args.nodeID] =
          [amount |-> args.amount, redeemAddress |-> args.redeemAddress,
           startTime |-> StartTime, expiryTime |-> args.expiryTime,
           executor |-> args.executor]]
    /\ origin' = [origin EXCEPT ![g][args.nodeID] = sig]
    /\ UNCHANGED <<keyManager, guardVars, flipVars, ownVars, payouts>>

\* Wrong: a redemption nobody executed in time can not be cleared any more.
ExecutableInTime(r) == now >= r.startTime /\ r.expiryTime > 0 /\ now <= r.expiryTime

\* Wrong: the delay after registration is not waited for.
ExecutableAtOnce(r) == r.expiryTime > 0

Executable(r) == now >= r.startTime /\ r.expiryTime > 0

\* Wrong: the record is left in place when it has been executed.
KeepRedemption(g, n) == UNCHANGED <<pendingRedemptions, origin>>

\* Wrong: only the amount is cleared, so the slot still looks taken.
ClearAmount(g, n) ==
    /\ pendingRedemptions' = [pendingRedemptions EXCEPT ![g][n].amount = 0]
    /\ origin' = [origin EXCEPT ![g][n] = NoSignature]

DeleteRedemption(g, n) ==
    /\ pendingRedemptions' = [pendingRedemptions EXCEPT ![g][n] = NullRedemption]
    /\ origin' = [origin EXCEPT ![g][n] = NoSignature]

\* executeRedemption, up to the expiry: the executor, or anyone, has it paid.
PayRedemption(g, caller, n) ==
    LET r == pendingRedemptions[g][n] IN
    /\ now <= r.expiryTime
    /\ NzAddr(r.executor) => caller = r.executor
    /\ Transfer(g, r.redeemAddress, r.amount)
    /\ payouts' = [payouts EXCEPT ![origin[g][n]] = @ + 1]

\* executeRedemption, after the expiry: nothing is paid.
ExpireRedemption(g, n) ==
    /\ now > pendingRedemptions[g][n].expiryTime
    /\ UNCHANGED <<balanceOf, payouts>>

ExecuteRedemption(g, caller, n) ==
    /\ g \in deployed
    /\ OnlyNotSuspended(g)
    /\ Executable(pendingRedemptions[g][n])
    /\ DeleteRedemption(g, n)
    /\ PayRedemption(g, caller, n) \/ ExpireRedemption(g, n)
    /\ UNCHANGED <<kmVars, keyManager, guardVars, totalSupply, issuer, ownVars>>
-----------------------------------------------------------------------------
\* Wrong: two updates can carry the same State Chain block.
NotOlderUpdate(g, block) == block >= lastSupplyUpdateBlockNum[g]

NewerUpdate(g, block) == block > lastSupplyUpdateBlockNum[g]

\* Wrong: a gateway that is not the issuer returns instead of reverting, when
\* the nonce is gone.
AdjustIfIssuer(g, newTotalSupply) ==
    \/ issuer # g /\ UNCHANGED <<balanceOf, totalSupply>>
    \/ /\ newTotalSupply < totalSupply
       /\ Burn(g, g, totalSupply - newTotalSupply)
    \/ /\ newTotalSupply > totalSupply
       /\ Mint(g, g, newTotalSupply - totalSupply)

\* burn, mint or nothing, so that the total supply becomes newTotalSupply.
AdjustSupply(g, newTotalSupply) ==
    \/ /\ newTotalSupply < totalSupply
       /\ Burn(g, g, totalSupply - newTotalSupply)
    \/ /\ newTotalSupply > totalSupply
       /\ Mint(g, g, newTotalSupply - totalSupply)
    \/ /\ newTotalSupply = totalSupply
       /\ UNCHANGED <<balanceOf, totalSupply>>

UpdateFlipSupply(g, sig, nonce, args) ==
    /\ g \in deployed
    /\ OnlyNotSuspended(g)
    /\ NzUint(args.newTotalSupply)
    /\ ConsumesKeyNonce(g, sig, nonce, "updateFlipSupply", args)
    /\ NewerUpdate(g, args.stateChainBlockNumber)
    /\ lastSupplyUpdateBlockNum' =
          [lastSupplyUpdateBlockNum EXCEPT ![g] = args.stateChainBlockNumber]
    /\ AdjustSupply(g, args.newTotalSupply)
    /\ UNCHANGED <<keyManager, guardVars, issuer, deployed, minFunding, redemptionVars>>

\* Wrong: whatever was signed for is made the issuer, an account included.
AnyIssuer(newIssuer, omitChecks) == TRUE

\* getFLIP() of the new issuer is this FLIP; or, if omitted, it has code.
CheckFlipIssuer(newIssuer, omitChecks) ==
    newIssuer \in deployed \cup (IF omitChecks THEN OtherContracts ELSE {})

UpdateFlipIssuer(g, sig, nonce, args) ==
    /\ g \in deployed
    /\ OnlyNotSuspended(g)
    /\ NzAddr(args.newIssuer)
    /\ ConsumesKeyNonce(g, sig, nonce, "updateFlipIssuer", args)
    /\ CheckFlipIssuer(args.newIssuer, args.omitChecks)
    /\ UpdateIssuer(g, args.newIssuer)
    /\ UNCHANGED <<keyManager, guardVars, balanceOf, totalSupply, ownVars, redemptionVars>>
-----------------------------------------------------------------------------
\* Not guarded by suspension.
SetMinFunding(g, caller, newMinFunding) ==
    /\ g \in deployed
    /\ NzUint(newMinFunding)
    /\ OnlyGovernor(g, caller)
    /\ minFunding' = [minFunding EXCEPT ![g] = newMinFunding]
    /\ UNCHANGED <<kmVars, keyManager, guardVars, flipVars, deployed,
                   lastSupplyUpdateBlockNum, redemptionVars>>

GovWithdraw(g, caller) ==
    /\ g \in deployed
    /\ EmergencyApproved(g, caller)
    /\ Transfer(g, GetGovernor(g), balanceOf[g])
    /\ \/ issuer = g /\ UpdateIssuer(g, GetGovernor(g))
       \/ issuer # g /\ UNCHANGED issuer
    /\ UNCHANGED <<kmVars, keyManager, guardVars, totalSupply, ownVars, redemptionVars>>

GovUpdateFlipIssuer(g, caller) ==
    /\ g \in deployed
    /\ EmergencyApproved(g, caller)
    /\ UpdateIssuer(g, GetGovernor(g))
    /\ UNCHANGED <<kmVars, keyManager, guardVars, balanceOf, totalSupply, ownVars, redemptionVars>>

\* suspend, resume, enableCommunityGuard and disableCommunityGuard.
GuardGateway(g) ==
    /\ g \in deployed
    /\ GuardUpdate(g)
    /\ UNCHANGED <<kmVars, keyManager, flipVars, ownVars, redemptionVars>>

\* FLIP called by an account: a transfer, or what an account that issues may do.
UseFlip(caller) ==
    /\ \E a \in Holders, amount \in Amounts :
          \/ Transfer(caller, a, amount) /\ UNCHANGED <<totalSupply, issuer>>
          \/ totalSupply + amount <= MaxSupply /\ Mint(caller, a, amount) /\ UNCHANGED issuer
          \/ Burn(caller, a, amount) /\ UNCHANGED issuer
          \/ UpdateIssuer(caller, a) /\ UNCHANGED <<balanceOf, totalSupply>>
    /\ UNCHANGED <<kmVars, keyManager, guardVars, ownVars, redemptionVars>>

\* Time passes, a KeyManager's own functions are called, or consumeKeyNonce
\* is called by somebody else than a gateway.
KeyManagerStep ==
    /\ \/ Tick
       \/ \E k \in KeyManagers :
             KeyUpdate(k) \/ NonceUse(k, Accounts \cup (NonceConsumers \ Gateways))
    /\ UNCHANGED <<keyManager, guardVars, flipVars, ownVars, redemptionVars>>
-----------------------------------------------------------------------------
\* The functions that take a signature.
SignedCall(g, sig, nonce) ==
    \/ \E k \in HomeKeyManagers, omitChecks \in BOOLEAN :
          UpdateKeyManager(g, sig, nonce, k, omitChecks)
    \/ \E args \in SignedArgs("registerRedemption") : RegisterRedemption(g, sig, nonce, args)
    \/ \E args \in SignedArgs("updateFlipSupply") : UpdateFlipSupply(g, sig, nonce, args)
    \/ \E args \in SignedArgs("updateFlipIssuer") : UpdateFlipIssuer(g, sig, nonce, args)

\* The functions that are called by governance.
GovernedCall(g, caller) ==
    \/ \E amount \in Amounts : SetMinFunding(g, caller, amount)
    \/ GovWithdraw(g, caller)
    \/ GovUpdateFlipIssuer(g, caller)

GatewayStep(g) ==
    \/ \E k \in HomeKeyManagers, amount \in Amounts : DeployGateway(g, k, amount)
    \/ \E sig \in Signatures, nonce \in Nonces : SignedCall(g, sig, nonce)
    \/ \E caller \in Accounts :
          \/ \E n \in NodeIDs, amount \in Amounts : FundStateChainAccount(g, caller, n, amount)
          \/ \E n \in NodeIDs : ExecuteRedemption(g, caller, n)
          \/ GovernedCall(g, caller)
    \/ GuardGateway(g)

\* The state DeployerContract leaves behind.
SCGInit ==
    /\ KMInit
    /\ AggKeyNonceConsumerInit
    /\ GuardedInit
    /\ FLIPInit(GenesisGateway, govKey[GenesisKM])
    /\ deployed = {GenesisGateway}
    /\ minFunding = [g \in Gateways |-> GenesisMinFunding]
    /\ pendingRedemptions = [g \in Gateways |-> [n \in NodeIDs |-> NullRedemption]]
    /\ lastSupplyUpdateBlockNum = [g \in Gateways |-> 0]
    /\ origin = [g \in Gateways |-> [n \in NodeIDs |-> NoSignature]]
    /\ payouts = [s \in Signatures |-> 0]

SCGNext ==
    \/ KeyManagerStep
    \/ \E g \in Gateways : GatewayStep(g)
    \/ \E caller \in Accounts : UseFlip(caller)

SCGSpec == SCGInit /\ [][SCGNext]_scgVars

\* Time goes on, and an executable redemption does not stay unexecuted for
\* ever while the gateway works every now and then: once it has expired the
\* code lets anyone execute it.
ExecuteByAnyone(g, n) == \E caller \in Accounts : ExecuteRedemption(g, caller, n)
SCGFairSpec ==
    /\ SCGSpec
    /\ WF_scgVars(KeyManagerStep /\ Tick)
    /\ \A g \in Gateways, n \in NodeIDs : SF_scgVars(ExecuteByAnyone(g, n))
-----------------------------------------------------------------------------
IsPending(g, n) == pendingRedemptions[g][n].expiryTime > 0

\* The types of the state; and a slot looks taken exactly while the redemption
\* that an accepted signature put there has been neither paid nor cleared: a
\* slot whose record was deleted is one that can be registered again.
SCGTypeOK ==
    /\ KMTypeOK
    /\ AggKeyNonceConsumerTypeOK
    /\ GuardedTypeOK
    /\ FLIPTypeOK
    /\ deployed \subseteq Gateways
    /\ minFunding \in [Gateways -> Nat]
    /\ pendingRedemptions \in [Gateways -> [NodeIDs -> Redemption]]
    /\ lastSupplyUpdateBlockNum \in [Gateways -> Nat]
    /\ origin \in [Gateways -> [NodeIDs -> Signatures \cup {NoSignature}]]
    /\ payouts \in [Signatures -> Nat]
    /\ \A g \in Gateways, n \in NodeIDs : IsPending(g, n) <=> origin[g][n] # NoSignature

PendingFrom(s) == \E g \in Gateways, n \in NodeIDs : IsPending(g, n) /\ origin[g][n] = s

\* What the State Chain's signature over a registration lets happen, over
\* any number of replays, re-registrations, suspensions and upgrades of the
\* KeyManager: it is paid at most once, never while a redemption due to it is
\* still pending, never without having been accepted.
PaidAtMostOnce ==
    \A s \in Signatures :
        /\ payouts[s] <= 1
        /\ payouts[s] = 1 => Used(s) /\ ~ PendingFrom(s)
        /\ PendingFrom(s) => Used(s)

\* What is pending is what was signed, and was registered by its own gateway
\* at the time its signature was accepted.
PendingAsSigned ==
    \A g \in Gateways, n \in NodeIDs : IsPending(g, n) =>
        LET s == origin[g][n]
            args == s.hash.call.args
        IN  /\ s \in Signatures
            /\ s.hash.sender = g
            /\ s.hash.call.fn = "registerRedemption"
            /\ args.nodeID = n
            /\ pendingRedemptions[g][n] =
                  [amount |-> args.amount, redeemAddress |-> args.redeemAddress,
                   startTime |-> lastUse[s] + REDEMPTION_DELAY,
                   expiryTime |-> args.expiryTime, executor |-> args.executor]

\* In this step, FLIP leaves g as the payment of the redemption signed as s:
\* after the delay, before the expiry, the amount, to the address, once.
LeavesAsRedemption(g, s) ==
    LET args == s.hash.call.args IN
    /\ Used(s) /\ payouts[s] = 0 /\ payouts'[s] = 1
    /\ s.hash.sender = g /\ s.hash.call.fn = "registerRedemption"
    /\ ~ suspended[g]
    /\ lastUse[s] + REDEMPTION_DELAY <= now
    /\ now <= args.expiryTime
    /\ balanceOf' = Passed(g, args.redeemAddress, args.amount)

\* It is burnt by a supply update signed by the aggregate key for g.
LeavesAsBurn(g) ==
    /\ ~ suspended[g]
    /\ balanceOf[g] - balanceOf'[g] = totalSupply - totalSupply'
    /\ \E s \in Signatures :
          /\ AcceptedNow(s) /\ s.hash.sender = g
          /\ s.hash.call.fn = "updateFlipSupply"
          /\ s.hash.call.args.newTotalSupply = totalSupply'

\* All of it is withdrawn by the governor in an emergency.
LeavesInEmergency(g) ==
    /\ suspended[g] /\ communityGuardDisabled[g]
    /\ balanceOf' = Passed(g, GetGovernor(g), balanceOf[g])

\* FLIP leaves a gateway in these three ways only, unless an account has
\* become the issuer (it may burn FLIP anywhere).
OutflowStep ==
    \A g \in Gateways : balanceOf'[g] < balanceOf[g] =>
        \/ \E s \in Signatures : LeavesAsRedemption(g, s)
        \/ LeavesAsBurn(g)
        \/ LeavesInEmergency(g)
        \/ issuer \in Accounts
Outflow == [][OutflowStep]_scgVars

\* While a redemption can still be executed nothing but its payment removes
\* or replaces it: no later registration for the node, no upgrade, nobody.
LiveRedemptionStep ==
    \A g \in Gateways, n \in NodeIDs :
        IsPending(g, n) /\ now <= pendingRedemptions[g][n].expiryTime =>
            \/ pendingRedemptions'[g][n] = pendingRedemptions[g][n]
            \/ LeavesAsRedemption(g, origin[g][n])
LiveRedemptionKept == [][LiveRedemptionStep]_scgVars

\* The issuer changes by a signature that the issuing gateway accepts, and then
\* is a contract that exists; by the governor in an emergency of that gateway;
\* or by the account that had been made the issuer that way.
IssuerStep ==
    issuer' # issuer =>
        \/ \E s \in Signatures :
              /\ AcceptedNow(s) /\ s.hash.sender = issuer
              /\ s.hash.call.fn = "updateFlipIssuer"
              /\ issuer' = s.hash.call.args.newIssuer
              /\ issuer' \in deployed \cup OtherContracts
        \/ /\ issuer \in deployed
           /\ suspended[issuer] /\ communityGuardDisabled[issuer]
           /\ issuer' = GetGovernor(issuer)
        \/ issuer \in Accounts
IssuerCustody == [][IssuerStep]_scgVars

\* Supply updates are applied in the order of the State Chain's blocks, in
\* whichever order they are delivered: one that is accepted is newer than all
\* that this gateway accepted before, and is what the supply becomes.
SupplyStep ==
    \A s \in Signatures :
        AcceptedNow(s) /\ s.hash.sender \in Gateways /\ s.hash.call.fn = "updateFlipSupply" =>
            /\ totalSupply' = s.hash.call.args.newTotalSupply
            /\ \A t \in Signatures :
                  /\ Used(t) /\ t.hash.sender = s.hash.sender
                  /\ t.hash.call.fn = "updateFlipSupply"
                  => t.hash.call.args.stateChainBlockNumber < s.hash.call.args.stateChainBlockNumber
SupplyInBlockOrder == [][SupplyStep]_scgVars

\* Whatever signature made for a gateway is accepted, it is accepted by the
\* KeyManager the gateway refers to (not one it has left), and the gateway has
\* done what it asks for in the same step: no nonce is used up without that.
DoneAsSigned(s) ==
    LET g == s.hash.sender
        fn == s.hash.call.fn
        args == s.hash.call.args
    IN  /\ Home(s) = keyManager[g]
        /\ \/ fn = "registerRedemption" /\ origin'[g][args.nodeID] = s
           \/ fn = "updateFlipSupply" /\ totalSupply' = args.newTotalSupply
           \/ fn = "updateFlipIssuer" /\ issuer' = args.newIssuer
           \/ fn = "updateKeyManager" /\ keyManager'[g][2] = args.keyManager
AcceptedMeansDone ==
    [][\A s \in Signatures : AcceptedNow(s) /\ s.hash.sender \in Gateways => DoneAsSigned(s)]_scgVars

\* While g is suspended, no signature made for it is accepted but one that
\* replaces its KeyManager, and no redemption it holds changes.
SuspensionStep ==
    \A g \in Gateways : suspended[g] =>
        /\ pendingRedemptions'[g] = pendingRedemptions[g]
        /\ \A s \in Signatures :
              AcceptedNow(s) /\ s.hash.sender = g => s.hash.call.fn = "updateKeyManager"
SuspensionFreezes == [][SuspensionStep]_scgVars

\* Redemption signatures as the State Chain understands them.
RedemptionSigs ==
    {s \in Signatures : s.hash.call.fn = "registerRedemption" /\ s.hash.sender \in Gateways}

VoucherStatus(s) ==
    CASE payouts[s] > 0 -> "paid"
      [] payouts[s] = 0 /\ PendingFrom(s) -> "pending"
      [] payouts[s] = 0 /\ ~ PendingFrom(s) /\ Used(s) -> "lapsed"
      [] OTHER -> "unused"

\* The gateways, with all that can happen to them, implement vouchers.
Promise == INSTANCE RedemptionVoucher WITH
    Vouchers <- RedemptionSigs,
    Account <- [s \in RedemptionSigs |-> <<s.hash.sender, s.hash.call.args.nodeID>>],
    Expiry <- [s \in RedemptionSigs |-> s.hash.call.args.expiryTime],
    Delay <- REDEMPTION_DELAY,
    clock <- now,
    status <- [s \in RedemptionSigs |-> VoucherStatus(s)],
    since <- [s \in RedemptionSigs |-> lastUse[s]]
Voucher == Promise!Spec

\* A redemption does not block its node for ever: if the gateway is not
\* suspended for good, it is paid, cleared after its expiry, or replaced then.
RedemptionResolved ==
    \A g \in Gateways, n \in NodeIDs :
        ([]<> ~ suspended[g]) => (IsPending(g, n) ~> ~ IsPending(g, n))

\* The interface on govWithdraw: "The governance address is also updated as
\* the issuer of FLIP."
WithdrawalTakesIssuance ==
    [][\A g \in Gateways : balanceOf[g] > 0 /\ LeavesInEmergency(g)
          => issuer' = GetGovernor(g)]_scgVars
=============================================================================
