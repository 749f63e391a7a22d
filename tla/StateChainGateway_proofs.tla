----------------------- MODULE StateChainGateway_proofs -----------------------
(***************************************************************************)
(* Proofs about the gateways for any number of them, of KeyManagers, of    *)
(* State Chain accounts and of signatures, and for any delay.              *)
(*                                                                         *)
(* First, whatever a gateway does to a KeyManager is a step of that        *)
(* KeyManager (KeyManagerSimulation), so all that is proved of KeyManagers *)
(* holds in the composition.  Then RedemptionInv is inductive: what is     *)
(* pending, what was paid and which signatures were accepted fit together. *)
(***************************************************************************)
EXTENDS StateChainGateway, KeyManager_proofs, SumLemmas

LEMMA GatewayAddresses ==
    /\ \A g \in Gateways : g \in NonceConsumers /\ g \in Addresses /\ g # ZeroAddr
    /\ HomeKeyManagers \subseteq KeyManagers
    /\ GenesisKM \in KeyManagers
    /\ Accounts \subseteq Addresses
BY GatewayAssumption, InstanceAssumption, AddressAssumption, HomeAssumption DEF HomeKeyManagers

\* A call that consumes a nonce is a call of consumeKeyNonce by the gateway.
LEMMA ConsumesIsNonceUse ==
    ASSUME AggKeyNonceConsumerTypeOK, NEW g \in Gateways, NEW sig \in Signatures,
           NEW nonce \in Nonces, NEW fn, NEW args, ConsumesKeyNonce(g, sig, nonce, fn, args)
    PROVE  /\ NonceUse(keyManager[g], Accounts \cup NonceConsumers)
           /\ keyManager[g] \in KeyManagers
           /\ Accepts(keyManager[g], sig)
           /\ sig.hash.sender = g
           /\ sig.hash.call = [fn |-> fn, args |-> args]
<1> DEFINE call == [fn |-> fn, args |-> args]
<1>1. keyManager[g] \in KeyManagers
    BY GatewayAddresses DEF AggKeyNonceConsumerTypeOK
<1>2. ConsumeKeyNonce(keyManager[g], g, sig, nonce, call)
    BY DEF ConsumesKeyNonce
<1>3. sig.hash = MsgHash(call, nonce, g, keyManager[g])
    BY <1>2 DEF ConsumeKeyNonce, AcceptSignature, VerifySignature
<1>4. sig.hash.call = call /\ sig.hash.sender = g
    BY <1>3 DEF MsgHash
<1>5. call \in ContractMsgHashes
    BY <1>4 DEF ContractMsgHashes
<1>6. NonceUse(keyManager[g], Accounts \cup NonceConsumers)
    BY <1>2, <1>5, GatewayAddresses DEF NonceUse
<1>7. Accepts(keyManager[g], sig)
    BY <1>2 DEF ConsumeKeyNonce, Accepts
<1> QED
    BY <1>1, <1>4, <1>6, <1>7

\* The steps of a gateway, as far as its KeyManager can see.
LEMMA SignedCallIsNonceUse ==
    ASSUME AggKeyNonceConsumerTypeOK, NEW g \in Gateways, NEW sig \in Signatures,
           NEW nonce \in Nonces, SignedCall(g, sig, nonce)
    PROVE  \E k \in KeyManagers : NonceUse(k, Accounts \cup NonceConsumers)
<1>1. \E fn, args : ConsumesKeyNonce(g, sig, nonce, fn, args)
    BY DEF SignedCall, UpdateKeyManager, SetKeyManager, RegisterRedemption,
           UpdateFlipSupply, UpdateFlipIssuer
<1> QED
    BY <1>1, ConsumesIsNonceUse

LEMMA SimulationStep ==
    AggKeyNonceConsumerTypeOK /\ [SCGNext]_scgVars => [KMNext]_kmVars
<1> SUFFICES ASSUME AggKeyNonceConsumerTypeOK, [SCGNext]_scgVars PROVE [KMNext]_kmVars
    OBVIOUS
<1>1. CASE UNCHANGED scgVars
    BY <1>1 DEF scgVars
<1>2. CASE KeyManagerStep
    <2>1. \A k \in KeyManagers :
             NonceUse(k, Accounts \cup (NonceConsumers \ Gateways))
                => NonceUse(k, Accounts \cup NonceConsumers)
        BY DEF NonceUse
    <2> QED
        BY <1>2, <2>1 DEF KeyManagerStep, KMNext
<1>3. ASSUME NEW g \in Gateways, GatewayStep(g) PROVE [KMNext]_kmVars
    <2>1. CASE \E sig \in Signatures, nonce \in Nonces : SignedCall(g, sig, nonce)
        BY <2>1, SignedCallIsNonceUse DEF KMNext
    <2>2. CASE \E k \in HomeKeyManagers, amount \in Amounts : DeployGateway(g, k, amount)
        BY <2>2 DEF DeployGateway
    <2>3. ASSUME NEW caller \in Accounts,
                 \/ \E n \in NodeIDs, amount \in Amounts : FundStateChainAccount(g, caller, n, amount)
                 \/ \E n \in NodeIDs : ExecuteRedemption(g, caller, n)
                 \/ GovernedCall(g, caller)
          PROVE  UNCHANGED kmVars
        BY <2>3 DEF FundStateChainAccount, ExecuteRedemption, GovernedCall, SetMinFunding,
                    GovWithdraw, GovUpdateFlipIssuer
    <2>4. CASE GuardGateway(g)
        BY <2>4 DEF GuardGateway
    <2> QED
        BY <1>3, <2>1, <2>2, <2>3, <2>4 DEF GatewayStep
<1>4. ASSUME NEW caller \in Accounts, UseFlip(caller) PROVE UNCHANGED kmVars
    BY <1>4 DEF UseFlip
<1> QED
    BY <1>1, <1>2, <1>3, <1>4 DEF SCGNext

LEMMA ReferenceStep ==
    AggKeyNonceConsumerTypeOK /\ [SCGNext]_scgVars => AggKeyNonceConsumerTypeOK'
<1> SUFFICES ASSUME AggKeyNonceConsumerTypeOK, [SCGNext]_scgVars
             PROVE  AggKeyNonceConsumerTypeOK'
    OBVIOUS
<1> USE DEF AggKeyNonceConsumerTypeOK
<1>1. CASE UNCHANGED scgVars
    BY <1>1 DEF scgVars
<1>2. CASE KeyManagerStep
    BY <1>2 DEF KeyManagerStep
<1>3. ASSUME NEW g \in Gateways, GatewayStep(g) PROVE AggKeyNonceConsumerTypeOK'
    <2>1. ASSUME NEW sig \in Signatures, NEW nonce \in Nonces, SignedCall(g, sig, nonce)
          PROVE  AggKeyNonceConsumerTypeOK'
        BY <2>1 DEF SignedCall, UpdateKeyManager, SetKeyManager, RegisterRedemption,
                    UpdateFlipSupply, UpdateFlipIssuer
    <2>2. CASE \E k \in HomeKeyManagers, amount \in Amounts : DeployGateway(g, k, amount)
        BY <2>2 DEF DeployGateway
    <2>3. ASSUME NEW caller \in Accounts,
                 \/ \E n \in NodeIDs, amount \in Amounts : FundStateChainAccount(g, caller, n, amount)
                 \/ \E n \in NodeIDs : ExecuteRedemption(g, caller, n)
                 \/ GovernedCall(g, caller)
          PROVE  UNCHANGED keyManager
        BY <2>3 DEF FundStateChainAccount, ExecuteRedemption, GovernedCall, SetMinFunding,
                    GovWithdraw, GovUpdateFlipIssuer
    <2>4. CASE GuardGateway(g)
        BY <2>4 DEF GuardGateway
    <2> QED
        BY <1>3, <2>1, <2>2, <2>3, <2>4 DEF GatewayStep
<1>4. ASSUME NEW caller \in Accounts, UseFlip(caller) PROVE UNCHANGED keyManager
    BY <1>4 DEF UseFlip
<1> QED
    BY <1>1, <1>2, <1>3, <1>4 DEF SCGNext

LEMMA ReferenceInit == SCGInit => AggKeyNonceConsumerTypeOK
BY HomeAssumption DEF SCGInit, AggKeyNonceConsumerInit, AggKeyNonceConsumerTypeOK

\* Gateways, FLIP and governance only do to KeyManagers what KMSpec allows.
THEOREM KeyManagerSimulation == SCGSpec => KMSpec
<1>1. SCGSpec => []AggKeyNonceConsumerTypeOK
    BY ReferenceInit, ReferenceStep, PTL DEF SCGSpec
<1>2. SCGInit => KMInit
    BY DEF SCGInit
<1> QED
    BY <1>1, <1>2, SimulationStep, PTL DEF SCGSpec, KMSpec

\* In the composition too, no signature is accepted twice: not by a gateway,
\* its successor, or the successor of its KeyManager.
THEOREM GatewayNoReplay == SCGSpec => []AcceptedAtMostOnce
BY KeyManagerSimulation, NoReplay, PTL
-----------------------------------------------------------------------------
\* The balances stay numbers whatever FLIP is asked to do.
LEMMA TransferType ==
    ASSUME FLIPTypeOK, NEW from \in Addresses, NEW to \in Addresses, NEW amount \in Nat,
           Transfer(from, to, amount)
    PROVE  balanceOf' \in [Addresses -> Nat]
<1>1. [balanceOf EXCEPT ![from] = @ - amount] \in [Addresses -> Nat]
    BY DEF FLIPTypeOK, Transfer
<1> QED
    BY <1>1 DEF Transfer, Passed

LEMMA IssuanceType ==
    ASSUME FLIPTypeOK, NEW caller, NEW account \in Addresses, NEW amount \in Nat,
           Mint(caller, account, amount) \/ Burn(caller, account, amount)
    PROVE  balanceOf' \in [Addresses -> Nat] /\ totalSupply' \in Int
BY DEF FLIPTypeOK, Mint, Burn

\* FLIP keeps its types, by the calls of gateways and of accounts.
LEMMA FLIPStep ==
    ASSUME FLIPTypeOK, AggKeyNonceConsumerTypeOK, KMTypeOK, GuardedTypeOK,
           deployed \subseteq Gateways,
           pendingRedemptions \in [Gateways -> [NodeIDs -> Redemption]],
           [SCGNext]_scgVars
    PROVE  FLIPTypeOK'
<1>1. CASE UNCHANGED flipVars
    BY <1>1 DEF FLIPTypeOK, flipVars
<1>2. CASE UNCHANGED scgVars
    BY <1>1, <1>2 DEF scgVars
<1>3. CASE KeyManagerStep
    BY <1>1, <1>3 DEF KeyManagerStep
<1>4. ASSUME NEW g \in Gateways, GatewayStep(g) PROVE FLIPTypeOK'
    <2>1. ASSUME NEW sig \in Signatures, NEW nonce \in Nonces, SignedCall(g, sig, nonce)
          PROVE  FLIPTypeOK'
        <3>1. ASSUME NEW args \in SignedArgs("updateFlipSupply"),
                     UpdateFlipSupply(g, sig, nonce, args)
              PROVE  FLIPTypeOK'
            <4>1. args.newTotalSupply \in Nat /\ totalSupply \in Int /\ issuer' = issuer
                BY <3>1, SupplyUpdateAssumption DEF FLIPTypeOK, UpdateFlipSupply
            <4>2. CASE args.newTotalSupply < totalSupply
                <5>1. totalSupply - args.newTotalSupply \in Nat
                    BY <4>1, <4>2
                <5>2. Burn(g, g, totalSupply - args.newTotalSupply)
                    BY <3>1, <4>1, <4>2 DEF UpdateFlipSupply, AdjustSupply
                <5> QED
                    BY <4>1, <5>1, <5>2, IssuanceType, GatewayAddresses DEF FLIPTypeOK
            <4>3. CASE args.newTotalSupply > totalSupply
                <5>1. args.newTotalSupply - totalSupply \in Nat
                    BY <4>1, <4>3
                <5>2. Mint(g, g, args.newTotalSupply - totalSupply)
                    BY <3>1, <4>1, <4>3 DEF UpdateFlipSupply, AdjustSupply
                <5> QED
                    BY <4>1, <5>1, <5>2, IssuanceType, GatewayAddresses DEF FLIPTypeOK
            <4>4. CASE args.newTotalSupply = totalSupply
                BY <1>1, <3>1, <4>1, <4>4 DEF UpdateFlipSupply, AdjustSupply, flipVars
            <4> QED
                BY <4>1, <4>2, <4>3, <4>4
        <3>2. ASSUME NEW args \in SignedArgs("updateFlipIssuer"),
                     UpdateFlipIssuer(g, sig, nonce, args)
              PROVE  FLIPTypeOK'
            <4>1. args.newIssuer \in Addresses
                BY <3>2, GatewayAssumption, GatewayAddresses DEF UpdateFlipIssuer, CheckFlipIssuer
            <4> QED
                BY <3>2, <4>1 DEF UpdateFlipIssuer, UpdateIssuer, FLIPTypeOK
        <3>3. ASSUME NEW args \in SignedArgs("registerRedemption"),
                     RegisterRedemption(g, sig, nonce, args)
              PROVE  FLIPTypeOK'
            BY <1>1, <3>3 DEF RegisterRedemption
        <3>4. ASSUME NEW k \in HomeKeyManagers, NEW omitChecks \in BOOLEAN,
                     UpdateKeyManager(g, sig, nonce, k, omitChecks)
              PROVE  FLIPTypeOK'
            BY <1>1, <3>4 DEF UpdateKeyManager
        <3> QED
            BY <2>1, <3>1, <3>2, <3>3, <3>4 DEF SignedCall
    <2>2. CASE \E k \in HomeKeyManagers, amount \in Amounts : DeployGateway(g, k, amount)
        BY <1>1, <2>2 DEF DeployGateway
    <2>3. ASSUME NEW caller \in Accounts, NEW n \in NodeIDs, NEW amount \in Amounts,
                 FundStateChainAccount(g, caller, n, amount)
          PROVE  FLIPTypeOK'
        <3>1. Transfer(caller, g, amount) /\ UNCHANGED <<totalSupply, issuer>>
            BY <2>3 DEF FundStateChainAccount
        <3> QED
            BY <3>1, TransferType, GatewayAddresses, GatewayAssumption DEF FLIPTypeOK
    <2>4. ASSUME NEW caller \in Accounts, NEW n \in NodeIDs, ExecuteRedemption(g, caller, n)
          PROVE  FLIPTypeOK'
        <3>1. pendingRedemptions[g][n] \in Redemption
            OBVIOUS
        <3>2. CASE PayRedemption(g, caller, n)
            <4>1. Transfer(g, pendingRedemptions[g][n].redeemAddress, pendingRedemptions[g][n].amount)
                BY <3>2 DEF PayRedemption
            <4>2. balanceOf' \in [Addresses -> Nat]
                BY <3>1, <4>1, TransferType, GatewayAddresses DEF Redemption
            <4> QED
                BY <2>4, <4>2 DEF ExecuteRedemption, FLIPTypeOK
        <3>3. CASE ExpireRedemption(g, n)
            BY <2>4, <3>3 DEF ExecuteRedemption, ExpireRedemption, FLIPTypeOK
        <3> QED
            BY <2>4, <3>2, <3>3 DEF ExecuteRedemption
    <2>5. ASSUME NEW caller \in Accounts, GovernedCall(g, caller)
          PROVE  FLIPTypeOK'
        <3>1. GetGovernor(g) \in Addresses
            BY GatewayAddresses DEF GetGovernor, AggKeyNonceConsumerTypeOK, KMTypeOK
        <3>2. CASE GovWithdraw(g, caller)
            <4>1. Transfer(g, GetGovernor(g), balanceOf[g]) /\ UNCHANGED totalSupply
                BY <3>2 DEF GovWithdraw
            <4>2. balanceOf[g] \in Nat
                BY GatewayAddresses DEF FLIPTypeOK
            <4>3. balanceOf' \in [Addresses -> Nat]
                BY <3>1, <4>1, <4>2, TransferType, GatewayAddresses
            <4>4. issuer' \in Addresses
                BY <3>1, <3>2 DEF GovWithdraw, UpdateIssuer, FLIPTypeOK
            <4> QED
                BY <4>1, <4>3, <4>4 DEF FLIPTypeOK
        <3>3. CASE GovUpdateFlipIssuer(g, caller)
            BY <3>1, <3>3 DEF GovUpdateFlipIssuer, UpdateIssuer, FLIPTypeOK
        <3>4. CASE \E amount \in Amounts : SetMinFunding(g, caller, amount)
            BY <1>1, <3>4 DEF SetMinFunding
        <3> QED
            BY <2>5, <3>2, <3>3, <3>4 DEF GovernedCall
    <2>6. CASE GuardGateway(g)
        BY <1>1, <2>6 DEF GuardGateway
    <2> QED
        BY <1>4, <2>1, <2>2, <2>3, <2>4, <2>5, <2>6 DEF GatewayStep
<1>5. ASSUME NEW caller \in Accounts, UseFlip(caller) PROVE FLIPTypeOK'
    <2>1. PICK a \in Holders, amount \in Amounts :
             \/ Transfer(caller, a, amount) /\ UNCHANGED <<totalSupply, issuer>>
             \/ Mint(caller, a, amount) /\ UNCHANGED issuer
             \/ Burn(caller, a, amount) /\ UNCHANGED issuer
             \/ UpdateIssuer(caller, a) /\ UNCHANGED <<balanceOf, totalSupply>>
        BY <1>5 DEF UseFlip
    <2>2. a \in Addresses /\ amount \in Nat /\ caller \in Addresses
        BY GatewayAssumption, GatewayAddresses
    <2>3. CASE Transfer(caller, a, amount) /\ UNCHANGED <<totalSupply, issuer>>
        BY <2>2, <2>3, TransferType DEF FLIPTypeOK
    <2>4. CASE Mint(caller, a, amount) \/ Burn(caller, a, amount)
        BY <2>1, <2>2, <2>4, IssuanceType DEF FLIPTypeOK, UpdateIssuer
    <2>5. CASE UpdateIssuer(caller, a) /\ UNCHANGED <<balanceOf, totalSupply>>
        BY <2>2, <2>5 DEF UpdateIssuer, FLIPTypeOK
    <2> QED
        BY <2>1, <2>3, <2>4, <2>5
<1> QED
    BY <1>2, <1>3, <1>4, <1>5 DEF SCGNext
-----------------------------------------------------------------------------
\* Only a registration and an execution change anything about redemptions.
LEMMA RedemptionClasses ==
    ASSUME [SCGNext]_scgVars
    PROVE  \/ UNCHANGED redemptionVars
           \/ \E g \in Gateways, sig \in Signatures, nonce \in Nonces :
                 \E args \in SignedArgs("registerRedemption") : RegisterRedemption(g, sig, nonce, args)
           \/ \E g \in Gateways, caller \in Accounts, n \in NodeIDs : ExecuteRedemption(g, caller, n)
<1>1. ASSUME NEW g \in Gateways, NEW sig \in Signatures, NEW nonce \in Nonces,
             SignedCall(g, sig, nonce)
      PROVE  \/ UNCHANGED redemptionVars
             \/ \E args \in SignedArgs("registerRedemption") : RegisterRedemption(g, sig, nonce, args)
    BY <1>1 DEF SignedCall, UpdateKeyManager, UpdateFlipSupply, UpdateFlipIssuer
<1>2. ASSUME NEW g \in Gateways,
             \/ \E k \in HomeKeyManagers, amount \in Amounts : DeployGateway(g, k, amount)
             \/ \E caller \in Accounts, n \in NodeIDs, amount \in Amounts :
                   FundStateChainAccount(g, caller, n, amount)
             \/ \E caller \in Accounts : GovernedCall(g, caller)
             \/ GuardGateway(g)
      PROVE  UNCHANGED redemptionVars
    BY <1>2 DEF DeployGateway, FundStateChainAccount, GovernedCall, SetMinFunding, GovWithdraw,
                GovUpdateFlipIssuer, GuardGateway
<1>3. ASSUME KeyManagerStep \/ (\E caller \in Accounts : UseFlip(caller)) \/ UNCHANGED scgVars
      PROVE  UNCHANGED redemptionVars
    BY <1>3 DEF KeyManagerStep, UseFlip, scgVars
<1> QED
    BY <1>1, <1>2, <1>3 DEF SCGNext, GatewayStep

\* The state a gateway keeps besides redemptions keeps its types.
LEMMA OwnStep ==
    ASSUME AggKeyNonceConsumerTypeOK, GuardedTypeOK, deployed \subseteq Gateways,
           minFunding \in [Gateways -> Nat], lastSupplyUpdateBlockNum \in [Gateways -> Nat],
           [SCGNext]_scgVars
    PROVE  /\ GuardedTypeOK'
           /\ deployed' \subseteq Gateways
           /\ minFunding' \in [Gateways -> Nat]
           /\ lastSupplyUpdateBlockNum' \in [Gateways -> Nat]
<1> DEFINE Goal == /\ GuardedTypeOK'
                   /\ deployed' \subseteq Gateways
                   /\ minFunding' \in [Gateways -> Nat]
                   /\ lastSupplyUpdateBlockNum' \in [Gateways -> Nat]
<1> USE GatewayAssumption
<1>1. CASE UNCHANGED <<guardVars, ownVars>>
    BY <1>1 DEF guardVars, ownVars, GuardedTypeOK
<1>2. CASE UNCHANGED scgVars \/ KeyManagerStep \/ \E caller \in Accounts : UseFlip(caller)
    BY <1>1, <1>2 DEF scgVars, KeyManagerStep, UseFlip
<1>3. ASSUME NEW g \in Gateways, GatewayStep(g) PROVE Goal
    <2>1. ASSUME NEW sig \in Signatures, NEW nonce \in Nonces, SignedCall(g, sig, nonce)
          PROVE  Goal
        <3>1. ASSUME NEW args \in SignedArgs("updateFlipSupply"),
                     UpdateFlipSupply(g, sig, nonce, args)
              PROVE  Goal
            BY <3>1, SupplyUpdateAssumption DEF UpdateFlipSupply, guardVars, GuardedTypeOK
        <3> QED
            BY <1>1, <2>1, <3>1
               DEF SignedCall, UpdateKeyManager, RegisterRedemption, UpdateFlipIssuer
    <2>2. ASSUME NEW k \in HomeKeyManagers, NEW amount \in Amounts, DeployGateway(g, k, amount)
          PROVE  Goal
        BY <2>2 DEF DeployGateway, guardVars, GuardedTypeOK
    <2>3. ASSUME NEW caller \in Accounts, NEW amount \in Amounts, SetMinFunding(g, caller, amount)
          PROVE  Goal
        BY <2>3 DEF SetMinFunding, guardVars, GuardedTypeOK
    <2>4. ASSUME NEW caller \in Accounts,
                 \/ \E n \in NodeIDs, amount \in Amounts : FundStateChainAccount(g, caller, n, amount)
                 \/ \E n \in NodeIDs : ExecuteRedemption(g, caller, n)
                 \/ GovWithdraw(g, caller)
                 \/ GovUpdateFlipIssuer(g, caller)
          PROVE  Goal
        BY <1>1, <2>4 DEF FundStateChainAccount, ExecuteRedemption, GovWithdraw, GovUpdateFlipIssuer
    <2>5. CASE GuardGateway(g)
        BY <2>5 DEF GuardGateway, GuardUpdate, EnableCommunityGuard, DisableCommunityGuard,
                    Suspend, Resume, ownVars, GuardedTypeOK
    <2> QED
        BY <1>3, <2>1, <2>2, <2>3, <2>4, <2>5 DEF GatewayStep, GovernedCall
<1> QED
    BY <1>2, <1>3 DEF SCGNext

\* What is registered has the type of a redemption.
LEMMA RedemptionTypes ==
    ASSUME KMTypeOK,
           pendingRedemptions \in [Gateways -> [NodeIDs -> Redemption]],
           origin \in [Gateways -> [NodeIDs -> Signatures \cup {NoSignature}]],
           payouts \in [Signatures -> Nat],
           [SCGNext]_scgVars
    PROVE  /\ pendingRedemptions' \in [Gateways -> [NodeIDs -> Redemption]]
           /\ origin' \in [Gateways -> [NodeIDs -> Signatures \cup {NoSignature}]]
           /\ payouts' \in [Signatures -> Nat]
<1>1. NullRedemption \in Redemption
    BY AddressAssumption DEF NullRedemption, Redemption
<1>2. ASSUME NEW g \in Gateways, NEW sig \in Signatures, NEW nonce \in Nonces,
             NEW args \in SignedArgs("registerRedemption"), RegisterRedemption(g, sig, nonce, args)
      PROVE  /\ pendingRedemptions' \in [Gateways -> [NodeIDs -> Redemption]]
             /\ origin' \in [Gateways -> [NodeIDs -> Signatures \cup {NoSignature}]]
             /\ payouts' \in [Signatures -> Nat]
    <2> DEFINE r == [amount |-> args.amount, redeemAddress |-> args.redeemAddress,
                     startTime |-> StartTime, expiryTime |-> args.expiryTime,
                     executor |-> args.executor]
    <2>1. StartTime \in Nat
        BY GatewayAssumption DEF StartTime, KMTypeOK
    <2>2. r \in Redemption
        BY <2>1, RedemptionAssumption DEF Redemption
    <2>3. pendingRedemptions' = [pendingRedemptions EXCEPT ![g][args.nodeID] = r]
        BY <1>2 DEF RegisterRedemption
    <2> HIDE DEF r
    <2>4. pendingRedemptions' \in [Gateways -> [NodeIDs -> Redemption]]
        BY <2>2, <2>3
    <2>5. origin' \in [Gateways -> [NodeIDs -> Signatures \cup {NoSignature}]]
        BY <1>2 DEF RegisterRedemption
    <2>6. payouts' \in [Signatures -> Nat]
        BY <1>2 DEF RegisterRedemption
    <2> QED
        BY <2>4, <2>5, <2>6
<1>3. ASSUME NEW g \in Gateways, NEW caller \in Accounts, NEW n \in NodeIDs,
             ExecuteRedemption(g, caller, n)
      PROVE  /\ pendingRedemptions' \in [Gateways -> [NodeIDs -> Redemption]]
             /\ origin' \in [Gateways -> [NodeIDs -> Signatures \cup {NoSignature}]]
             /\ payouts' \in [Signatures -> Nat]
    BY <1>1, <1>3 DEF ExecuteRedemption, DeleteRedemption, PayRedemption, ExpireRedemption
<1> QED
    BY <1>2, <1>3, RedemptionClasses DEF redemptionVars

\* A slot gets its origin with its redemption, and loses it with it: what is
\* registered expires after now, and a deleted record has expiry 0.
LEMMA SlotsMatch ==
    ASSUME SCGTypeOK, [SCGNext]_scgVars
    PROVE  \A g \in Gateways, n \in NodeIDs : IsPending(g, n)' <=> origin'[g][n] # NoSignature
<1> DEFINE Match(h, m) == IsPending(h, m)' <=> origin'[h][m] # NoSignature
<1>1. /\ pendingRedemptions \in [Gateways -> [NodeIDs -> Redemption]]
      /\ origin \in [Gateways -> [NodeIDs -> Signatures \cup {NoSignature}]]
      /\ \A h \in Gateways, m \in NodeIDs : IsPending(h, m) <=> origin[h][m] # NoSignature
    BY DEF SCGTypeOK
<1>2. ASSUME NEW h \in Gateways, NEW m \in NodeIDs,
             /\ pendingRedemptions'[h][m] = pendingRedemptions[h][m]
             /\ origin'[h][m] = origin[h][m]
      PROVE  Match(h, m)
    BY <1>1, <1>2 DEF IsPending
<1>3. CASE UNCHANGED redemptionVars
    BY <1>2, <1>3 DEF redemptionVars
<1>4. ASSUME NEW g \in Gateways, NEW sig \in Signatures, NEW nonce \in Nonces,
             NEW args \in SignedArgs("registerRedemption"), RegisterRedemption(g, sig, nonce, args),
             NEW h \in Gateways, NEW m \in NodeIDs
      PROVE  Match(h, m)
    <2> DEFINE r == [amount |-> args.amount, redeemAddress |-> args.redeemAddress,
                     startTime |-> StartTime, expiryTime |-> args.expiryTime,
                     executor |-> args.executor]
    <2>1. /\ pendingRedemptions' = [pendingRedemptions EXCEPT ![g][args.nodeID] = r]
          /\ origin' = [origin EXCEPT ![g][args.nodeID] = sig]
          /\ args.expiryTime > StartTime
        BY <1>4 DEF RegisterRedemption
    <2>2. args.expiryTime > 0
        <3>1. StartTime \in Nat
            BY GatewayAssumption DEF StartTime, SCGTypeOK, KMTypeOK
        <3> QED
            BY <2>1, <3>1, RedemptionAssumption
    <2>3. r.expiryTime = args.expiryTime
        OBVIOUS
    <2> HIDE DEF r
    <2>4. CASE h = g /\ m = args.nodeID
        <3>1. pendingRedemptions'[h][m] = r /\ origin'[h][m] = sig
            BY <1>1, <2>1, <2>4
        <3> QED
            BY <2>2, <2>3, <3>1, GatewayAssumption DEF IsPending
    <2>5. CASE h # g \/ m # args.nodeID
        BY <1>1, <1>2, <2>1, <2>5
    <2> QED
        BY <2>4, <2>5
<1>5. ASSUME NEW g \in Gateways, NEW caller \in Accounts, NEW n \in NodeIDs,
             ExecuteRedemption(g, caller, n), NEW h \in Gateways, NEW m \in NodeIDs
      PROVE  Match(h, m)
    <2>1. /\ pendingRedemptions' = [pendingRedemptions EXCEPT ![g][n] = NullRedemption]
          /\ origin' = [origin EXCEPT ![g][n] = NoSignature]
        BY <1>5 DEF ExecuteRedemption, DeleteRedemption
    <2>2. CASE h = g /\ m = n
        BY <1>1, <2>1, <2>2 DEF IsPending, NullRedemption
    <2>3. CASE h # g \/ m # n
        BY <1>1, <1>2, <2>1, <2>3
    <2> QED
        BY <2>2, <2>3
<1> QED
    BY <1>3, <1>4, <1>5, RedemptionClasses

LEMMA SCGTypeInit == SCGInit => SCGTypeOK
<1> SUFFICES ASSUME SCGInit PROVE SCGTypeOK
    OBVIOUS
<1>1. KMTypeOK
    BY NonceInvInit DEF SCGInit, NonceInv
<1>2. FLIPTypeOK
    <2>1. InitSupply \in Nat /\ GenesisFundedFlip \in Nat /\ InitSupply - GenesisFundedFlip \in Nat
        BY SupplyAssumption
    <2>2. GenesisGateway \in Addresses
        BY GatewayAddresses, GatewayAssumption
    <2> QED
        BY <2>1, <2>2 DEF SCGInit, FLIPInit, FLIPTypeOK
<1>3. pendingRedemptions \in [Gateways -> [NodeIDs -> Redemption]]
    BY AddressAssumption DEF SCGInit, NullRedemption, Redemption
<1>4. \A g \in Gateways, n \in NodeIDs : IsPending(g, n) <=> origin[g][n] # NoSignature
    BY DEF SCGInit, IsPending, NullRedemption
<1> QED
    BY <1>1, <1>2, <1>3, <1>4, ReferenceInit, GatewayAssumption
       DEF SCGInit, SCGTypeOK, GuardedInit, GuardedTypeOK

LEMMA SCGTypeStep == SCGTypeOK /\ [SCGNext]_scgVars => SCGTypeOK'
<1> SUFFICES ASSUME SCGTypeOK, [SCGNext]_scgVars PROVE SCGTypeOK'
    OBVIOUS
<1>1. AggKeyNonceConsumerTypeOK'
    BY ReferenceStep DEF SCGTypeOK
<1>2. KMTypeOK'
    <2>1. [KMNext]_kmVars
        BY SimulationStep DEF SCGTypeOK
    <2> QED
        BY <2>1, TypeStep DEF SCGTypeOK, KMTypeOK, kmVars
<1>3. FLIPTypeOK'
    BY FLIPStep DEF SCGTypeOK
<1> QED
    BY <1>1, <1>2, <1>3, OwnStep, RedemptionTypes, SlotsMatch DEF SCGTypeOK

\* The whole state of the composition is well typed.
THEOREM GatewayTypeCorrect == SCGSpec => []SCGTypeOK
BY SCGTypeInit, SCGTypeStep, PTL DEF SCGSpec
-----------------------------------------------------------------------------
\* What was accepted stays accepted, and when it was accepted stays known.
LEMMA UsesKept ==
    ASSUME NonceInv, [KMNext]_kmVars, NEW s \in Signatures, Used(s)
    PROVE  Used(s)' /\ lastUse'[s] = lastUse[s]
<1>1. CASE AcceptsNothing
    BY <1>1 DEF AcceptsNothing, nonceVars, Used
<1>2. ASSUME NEW k \in KeyManagers, NEW sig \in Signatures, Accepts(k, sig)
      PROVE  Used(s)' /\ lastUse'[s] = lastUse[s]
    <2>1. /\ uses[sig] = 0
          /\ uses' = [uses EXCEPT ![sig] = 1]
          /\ lastUse' = [lastUse EXCEPT ![sig] = now]
        BY <1>2, AcceptFacts
    <2>2. s # sig
        BY <2>1 DEF Used
    <2> QED
        BY <2>1, <2>2 DEF Used, NonceInv, KMTypeOK
<1>3. CASE UNCHANGED kmVars
    BY <1>3 DEF kmVars, Used
<1> QED
    BY <1>1, <1>2, <1>3, StepClasses

\* Pending redemptions, payments and accepted signatures fit together. The
\* two properties need each other: that a payment is the only one rests on
\* the slot being named by the signature, and that a slot keeps the time of
\* its registration rests on no signature being accepted again (NonceInv).
RedemptionInv ==
    /\ SCGTypeOK
    /\ NonceInv
    /\ PaidAtMostOnce
    /\ PendingAsSigned

\* Nothing happens to any other redemption than g's for node n.
OnlySlot(g, n) ==
    \A h \in Gateways, m \in NodeIDs : h # g \/ m # n =>
        /\ pendingRedemptions'[h][m] = pendingRedemptions[h][m]
        /\ origin'[h][m] = origin[h][m]

\* The redemption that was signed with args and registered at a given time.
RedemptionOf(args, registered) ==
    [amount |-> args.amount, redeemAddress |-> args.redeemAddress,
     startTime |-> registered + REDEMPTION_DELAY, expiryTime |-> args.expiryTime,
     executor |-> args.executor]

\* What g holds for node n is what was signed as s, and was registered by s.
AsSigned(g, n, s) ==
    /\ s \in Signatures
    /\ s.hash.sender = g
    /\ s.hash.call.fn = "registerRedemption"
    /\ s.hash.call.args.nodeID = n
    /\ pendingRedemptions[g][n] = RedemptionOf(s.hash.call.args, lastUse[s])

LEMMA PendingIsSigned ==
    ASSUME RedemptionInv, NEW g \in Gateways, NEW n \in NodeIDs, IsPending(g, n)
    PROVE  AsSigned(g, n, origin[g][n])
<1>1. \A h \in Gateways, m \in NodeIDs : IsPending(h, m) => AsSigned(h, m, origin[h][m])
    BY Zenon DEF RedemptionInv, PendingAsSigned, AsSigned, RedemptionOf
<1> QED
    BY <1>1

\* A registration uses up a signature that was never accepted, nor paid.
LEMMA RegisterAccepts ==
    ASSUME RedemptionInv, NEW g \in Gateways, NEW sig \in Signatures, NEW nonce \in Nonces,
           NEW args \in SignedArgs("registerRedemption"), RegisterRedemption(g, sig, nonce, args)
    PROVE  /\ sig.hash.sender = g
           /\ sig.hash.call = [fn |-> "registerRedemption", args |-> args]
           /\ uses[sig] = 0 /\ payouts[sig] = 0
           /\ Used(sig)' /\ lastUse'[sig] = now /\ payouts' = payouts
<1>1. ConsumesKeyNonce(g, sig, nonce, "registerRedemption", args)
    BY DEF RegisterRedemption
<1>2. /\ keyManager[g] \in KeyManagers
      /\ Accepts(keyManager[g], sig)
      /\ sig.hash.sender = g
      /\ sig.hash.call = [fn |-> "registerRedemption", args |-> args]
    BY <1>1, ConsumesIsNonceUse DEF RedemptionInv, SCGTypeOK
<1>3. /\ uses[sig] = 0
      /\ uses' = [uses EXCEPT ![sig] = 1]
      /\ lastUse' = [lastUse EXCEPT ![sig] = now]
    BY <1>2, AcceptFacts DEF RedemptionInv
<1>4. Used(sig)' /\ lastUse'[sig] = now
    BY <1>3 DEF Used, RedemptionInv, NonceInv, KMTypeOK
<1>5. payouts[sig] = 0
    <2>1. payouts[sig] \in Nat
        BY DEF RedemptionInv, SCGTypeOK
    <2>2. payouts[sig] <= 1 /\ payouts[sig] # 1
        BY <1>3 DEF RedemptionInv, PaidAtMostOnce, Used
    <2> QED
        BY <2>1, <2>2
<1>6. payouts' = payouts
    BY DEF RegisterRedemption
<1> QED
    BY <1>2, <1>3, <1>4, <1>5, <1>6

\* It fills one slot, which holds nothing or a redemption past its expiry.
LEMMA RegisterSlot ==
    ASSUME RedemptionInv, NEW g \in Gateways, NEW sig \in Signatures, NEW nonce \in Nonces,
           NEW args \in SignedArgs("registerRedemption"), RegisterRedemption(g, sig, nonce, args)
    PROVE  /\ args.nodeID \in NodeIDs
           /\ now > pendingRedemptions[g][args.nodeID].expiryTime
           /\ args.expiryTime > now + REDEMPTION_DELAY
           /\ pendingRedemptions'[g][args.nodeID] = RedemptionOf(args, now)
           /\ origin'[g][args.nodeID] = sig
           /\ OnlySlot(g, args.nodeID)
<1> DEFINE r == RedemptionOf(args, now)
<1>1. args.nodeID \in NodeIDs
    BY RedemptionAssumption
<1>2. /\ now > pendingRedemptions[g][args.nodeID].expiryTime
      /\ args.expiryTime > now + REDEMPTION_DELAY
      /\ pendingRedemptions' = [pendingRedemptions EXCEPT ![g][args.nodeID] = r]
      /\ origin' = [origin EXCEPT ![g][args.nodeID] = sig]
    BY DEF RegisterRedemption, SlotFree, StartTime, RedemptionOf
<1> HIDE DEF r
<1>3. /\ pendingRedemptions'[g][args.nodeID] = r
      /\ origin'[g][args.nodeID] = sig
      /\ OnlySlot(g, args.nodeID)
    BY <1>1, <1>2 DEF OnlySlot, RedemptionInv, SCGTypeOK
<1> QED
    BY <1>1, <1>2, <1>3 DEF r

\* What an execution starts from and brings about, paid or expired.
LEMMA ExecuteFacts ==
    ASSUME RedemptionInv, NEW g \in Gateways, NEW caller \in Accounts, NEW n \in NodeIDs,
           ExecuteRedemption(g, caller, n)
    PROVE  /\ IsPending(g, n)
           /\ origin[g][n] \in Signatures
           /\ Used(origin[g][n]) /\ payouts[origin[g][n]] = 0
           /\ ~ IsPending(g, n)'
           /\ OnlySlot(g, n)
           /\ UNCHANGED kmVars
           /\ \/ /\ now <= pendingRedemptions[g][n].expiryTime
                 /\ payouts' = [payouts EXCEPT ![origin[g][n]] = 1]
              \/ /\ now > pendingRedemptions[g][n].expiryTime
                 /\ payouts' = payouts
<1>1. IsPending(g, n)
    BY DEF ExecuteRedemption, Executable, IsPending
<1>2. origin[g][n] \in Signatures
    BY <1>1 DEF RedemptionInv, PendingAsSigned
<1>3. Used(origin[g][n]) /\ payouts[origin[g][n]] = 0
    <2>1. PendingFrom(origin[g][n])
        BY <1>1 DEF PendingFrom
    <2>2. payouts[origin[g][n]] \in Nat
        BY <1>2 DEF RedemptionInv, SCGTypeOK
    <2> QED
        BY <1>2, <2>1, <2>2 DEF RedemptionInv, PaidAtMostOnce
<1>4. /\ pendingRedemptions' = [pendingRedemptions EXCEPT ![g][n] = NullRedemption]
      /\ origin' = [origin EXCEPT ![g][n] = NoSignature]
      /\ UNCHANGED kmVars
    BY DEF ExecuteRedemption, DeleteRedemption
<1>5. /\ pendingRedemptions'[g][n] = NullRedemption
      /\ OnlySlot(g, n)
    BY <1>4 DEF OnlySlot, RedemptionInv, SCGTypeOK
<1>6. ~ IsPending(g, n)'
    BY <1>5 DEF IsPending, NullRedemption
<1>7. \/ /\ now <= pendingRedemptions[g][n].expiryTime
         /\ payouts' = [payouts EXCEPT ![origin[g][n]] = 1]
      \/ /\ now > pendingRedemptions[g][n].expiryTime
         /\ payouts' = payouts
    <2>1. CASE PayRedemption(g, caller, n)
        BY <1>2, <1>3, <2>1 DEF PayRedemption, RedemptionInv, SCGTypeOK
    <2>2. CASE ExpireRedemption(g, n)
        BY <2>2 DEF ExpireRedemption
    <2> QED
        BY <2>1, <2>2 DEF ExecuteRedemption
<1> QED
    BY <1>1, <1>2, <1>3, <1>4, <1>5, <1>6, <1>7

LEMMA PaidStep ==
    ASSUME RedemptionInv, [SCGNext]_scgVars
    PROVE  PaidAtMostOnce'
<1>1. [KMNext]_kmVars
    BY SimulationStep DEF RedemptionInv, SCGTypeOK
<1>2. \A s \in Signatures : Used(s) => Used(s)'
    BY <1>1, UsesKept DEF RedemptionInv
<1>3. CASE UNCHANGED redemptionVars
    BY <1>2, <1>3 DEF redemptionVars, RedemptionInv, PaidAtMostOnce, PendingFrom, IsPending
<1>4. ASSUME NEW g \in Gateways, NEW sig \in Signatures, NEW nonce \in Nonces,
             NEW args \in SignedArgs("registerRedemption"), RegisterRedemption(g, sig, nonce, args)
      PROVE  PaidAtMostOnce'
    <2>1. origin'[g][args.nodeID] = sig /\ OnlySlot(g, args.nodeID)
        BY <1>4, RegisterSlot
    <2>2. ASSUME NEW s \in Signatures, PendingFrom(s)' PROVE s = sig \/ PendingFrom(s)
        <3>1. PICK h \in Gateways, m \in NodeIDs : IsPending(h, m)' /\ origin'[h][m] = s
            BY <2>2 DEF PendingFrom
        <3> QED
            BY <2>1, <3>1 DEF OnlySlot, PendingFrom, IsPending
    <2>3. uses[sig] = 0 /\ payouts[sig] = 0 /\ Used(sig)' /\ payouts' = payouts
        BY <1>4, RegisterAccepts
    <2> QED
        BY <1>2, <2>2, <2>3 DEF RedemptionInv, PaidAtMostOnce
<1>5. ASSUME NEW g \in Gateways, NEW caller \in Accounts, NEW n \in NodeIDs,
             ExecuteRedemption(g, caller, n)
      PROVE  PaidAtMostOnce'
    <2> DEFINE o == origin[g][n]
    <2>1. /\ IsPending(g, n)
          /\ o \in Signatures
          /\ Used(o) /\ payouts[o] = 0
          /\ ~ IsPending(g, n)'
          /\ OnlySlot(g, n)
          /\ payouts' = [payouts EXCEPT ![o] = 1] \/ payouts' = payouts
        BY <1>5, ExecuteFacts
    <2>2. ASSUME NEW s \in Signatures, PendingFrom(s)' PROVE PendingFrom(s) /\ s # o
        <3>1. PICK h \in Gateways, m \in NodeIDs : IsPending(h, m)' /\ origin'[h][m] = s
            BY <2>2 DEF PendingFrom
        <3>2. h # g \/ m # n
            BY <2>1, <3>1
        <3>3. IsPending(h, m) /\ origin[h][m] = s
            BY <2>1, <3>1, <3>2 DEF OnlySlot, IsPending
        <3>4. s.hash.sender = h /\ s.hash.call.args.nodeID = m
            BY <3>3, PendingIsSigned DEF AsSigned
        <3>5. o.hash.sender = g /\ o.hash.call.args.nodeID = n
            BY <2>1, PendingIsSigned DEF AsSigned
        <3> QED
            BY <3>2, <3>3, <3>4, <3>5 DEF PendingFrom
    <2> HIDE DEF o
    <2> QED
        BY <1>2, <2>1, <2>2 DEF RedemptionInv, PaidAtMostOnce, SCGTypeOK
<1> QED
    BY <1>3, <1>4, <1>5, RedemptionClasses

LEMMA PendingStep ==
    ASSUME RedemptionInv, [SCGNext]_scgVars
    PROVE  PendingAsSigned'
<1>1. [KMNext]_kmVars
    BY SimulationStep DEF RedemptionInv, SCGTypeOK
<1>2. ASSUME NEW h \in Gateways, NEW m \in NodeIDs, IsPending(h, m)',
             pendingRedemptions'[h][m] = pendingRedemptions[h][m], origin'[h][m] = origin[h][m]
      PROVE  AsSigned(h, m, origin[h][m])'
    <2>1. IsPending(h, m)
        BY <1>2 DEF IsPending
    <2>2. AsSigned(h, m, origin[h][m])
        BY <2>1, PendingIsSigned
    <2>3. origin[h][m] \in Signatures /\ Used(origin[h][m])
        BY <2>1, <2>2 DEF RedemptionInv, PaidAtMostOnce, PendingFrom, AsSigned
    <2>4. lastUse'[origin[h][m]] = lastUse[origin[h][m]]
        BY <1>1, <2>3, UsesKept DEF RedemptionInv
    <2> QED
        BY <1>2, <2>2, <2>4 DEF AsSigned
<1>3. ASSUME NEW g \in Gateways, NEW sig \in Signatures, NEW nonce \in Nonces,
             NEW args \in SignedArgs("registerRedemption"), RegisterRedemption(g, sig, nonce, args)
      PROVE  AsSigned(g, args.nodeID, origin[g][args.nodeID])' /\ OnlySlot(g, args.nodeID)
    <2>1. /\ sig.hash.sender = g
          /\ sig.hash.call = [fn |-> "registerRedemption", args |-> args]
          /\ lastUse'[sig] = now
        BY <1>3, RegisterAccepts
    <2>2. sig.hash.call.args = args /\ sig.hash.call.fn = "registerRedemption"
        BY <2>1
    <2>3. /\ pendingRedemptions'[g][args.nodeID] = RedemptionOf(args, now)
          /\ origin'[g][args.nodeID] = sig
          /\ OnlySlot(g, args.nodeID)
        BY <1>3, RegisterSlot
    <2> QED
        BY <2>1, <2>2, <2>3 DEF AsSigned
<1>4. ASSUME NEW h \in Gateways, NEW m \in NodeIDs, IsPending(h, m)'
      PROVE  AsSigned(h, m, origin[h][m])'
    <2>1. CASE UNCHANGED redemptionVars
        BY <1>2, <1>4, <2>1 DEF redemptionVars
    <2>2. ASSUME NEW g \in Gateways, NEW sig \in Signatures, NEW nonce \in Nonces,
                 NEW args \in SignedArgs("registerRedemption"), RegisterRedemption(g, sig, nonce, args)
          PROVE  AsSigned(h, m, origin[h][m])'
        <3>1. AsSigned(g, args.nodeID, origin[g][args.nodeID])' /\ OnlySlot(g, args.nodeID)
            BY <1>3, <2>2
        <3>2. CASE h = g /\ m = args.nodeID
            BY <3>1, <3>2
        <3>3. CASE h # g \/ m # args.nodeID
            BY <1>2, <1>4, <3>1, <3>3 DEF OnlySlot
        <3> QED
            BY <3>2, <3>3
    <2>3. ASSUME NEW g \in Gateways, NEW caller \in Accounts, NEW n \in NodeIDs,
                 ExecuteRedemption(g, caller, n)
          PROVE  AsSigned(h, m, origin[h][m])'
        BY <1>2, <1>4, <2>3, ExecuteFacts DEF OnlySlot
    <2> QED
        BY <2>1, <2>2, <2>3, RedemptionClasses
<1> QED
    BY <1>4 DEF PendingAsSigned, AsSigned, RedemptionOf

LEMMA RedemptionInvInit == SCGInit => RedemptionInv
<1> SUFFICES ASSUME SCGInit PROVE RedemptionInv
    OBVIOUS
<1>1. NonceInv
    BY NonceInvInit DEF SCGInit
<1>2. \A g \in Gateways, n \in NodeIDs : ~ IsPending(g, n)
    BY DEF SCGInit, IsPending, NullRedemption
<1> QED
    BY <1>1, <1>2, SCGTypeInit
       DEF SCGInit, RedemptionInv, PaidAtMostOnce, PendingAsSigned, PendingFrom

LEMMA RedemptionInvStep == RedemptionInv /\ [SCGNext]_scgVars => RedemptionInv'
<1> SUFFICES ASSUME RedemptionInv, [SCGNext]_scgVars PROVE RedemptionInv'
    OBVIOUS
<1>1. [KMNext]_kmVars
    BY SimulationStep DEF RedemptionInv, SCGTypeOK
<1>2. NonceInv'
    BY <1>1, NonceInvStep DEF RedemptionInv
<1> QED
    BY <1>2, SCGTypeStep, PaidStep, PendingStep DEF RedemptionInv

\* What is pending, what was paid and what was accepted always fit together.
THEOREM RedemptionInvariance == SCGSpec => []RedemptionInv
BY RedemptionInvInit, RedemptionInvStep, PTL DEF SCGSpec

\* The signature over a redemption is paid at most once.
THEOREM NoDoublePayment == SCGSpec => []PaidAtMostOnce
BY RedemptionInvariance, PTL DEF RedemptionInv

\* A pending redemption is what was signed, with the delay counted from when
\* the signature was accepted.
THEOREM RegisteredAsSigned == SCGSpec => []PendingAsSigned
BY RedemptionInvariance, PTL DEF RedemptionInv
-----------------------------------------------------------------------------
\* A redemption that is executed before its expiry is paid as it was signed.
LEMMA ExecutedInTimeIsPaid ==
    ASSUME RedemptionInv, NEW g \in Gateways, NEW caller \in Accounts, NEW n \in NodeIDs,
           ExecuteRedemption(g, caller, n), now <= pendingRedemptions[g][n].expiryTime
    PROVE  LeavesAsRedemption(g, origin[g][n])
<1> DEFINE s == origin[g][n]
           args == s.hash.call.args
           r == pendingRedemptions[g][n]
<1>1. IsPending(g, n) /\ s \in Signatures /\ Used(s) /\ payouts[s] = 0
    BY ExecuteFacts
<1>2. AsSigned(g, n, s)
    BY <1>1, PendingIsSigned
<1>3. /\ s.hash.sender = g /\ s.hash.call.fn = "registerRedemption"
      /\ r.amount = args.amount /\ r.redeemAddress = args.redeemAddress
      /\ r.startTime = lastUse[s] + REDEMPTION_DELAY /\ r.expiryTime = args.expiryTime
    BY <1>2 DEF AsSigned, RedemptionOf
<1>4. now \in Nat /\ r.expiryTime \in Nat
    BY DEF RedemptionInv, SCGTypeOK, KMTypeOK, Redemption
<1>5. PayRedemption(g, caller, n)
    BY <1>4 DEF ExecuteRedemption, ExpireRedemption
<1>6. /\ Transfer(g, r.redeemAddress, r.amount)
      /\ payouts' = [payouts EXCEPT ![s] = @ + 1]
    BY <1>5 DEF PayRedemption
<1>7. payouts'[s] = 1
    BY <1>1, <1>6 DEF RedemptionInv, SCGTypeOK
<1>8. balanceOf' = Passed(g, args.redeemAddress, args.amount)
    BY <1>3, <1>6 DEF Transfer
<1>9. ~ suspended[g] /\ r.startTime <= now
    BY DEF ExecuteRedemption, OnlyNotSuspended, Executable
<1> QED
    BY <1>1, <1>3, <1>7, <1>8, <1>9 DEF LeavesAsRedemption

LEMMA LiveStep == RedemptionInv /\ [SCGNext]_scgVars => LiveRedemptionStep
<1> SUFFICES ASSUME RedemptionInv, [SCGNext]_scgVars,
                    NEW h \in Gateways, NEW m \in NodeIDs,
                    IsPending(h, m), now <= pendingRedemptions[h][m].expiryTime
             PROVE  \/ pendingRedemptions'[h][m] = pendingRedemptions[h][m]
                    \/ LeavesAsRedemption(h, origin[h][m])
    BY DEF LiveRedemptionStep
<1>1. CASE UNCHANGED redemptionVars
    BY <1>1 DEF redemptionVars
<1>2. ASSUME NEW g \in Gateways, NEW sig \in Signatures, NEW nonce \in Nonces,
             NEW args \in SignedArgs("registerRedemption"), RegisterRedemption(g, sig, nonce, args)
      PROVE  pendingRedemptions'[h][m] = pendingRedemptions[h][m]
    <2>1. now > pendingRedemptions[g][args.nodeID].expiryTime /\ OnlySlot(g, args.nodeID)
        BY <1>2, RegisterSlot
    <2>2. now \in Nat /\ pendingRedemptions[h][m].expiryTime \in Nat
        BY DEF RedemptionInv, SCGTypeOK, KMTypeOK, Redemption
    <2>3. h # g \/ m # args.nodeID
        BY <2>1, <2>2
    <2> QED
        BY <2>1, <2>3 DEF OnlySlot
<1>3. ASSUME NEW g \in Gateways, NEW caller \in Accounts, NEW n \in NodeIDs,
             ExecuteRedemption(g, caller, n)
      PROVE  \/ pendingRedemptions'[h][m] = pendingRedemptions[h][m]
             \/ LeavesAsRedemption(h, origin[h][m])
    <2>1. OnlySlot(g, n)
        BY <1>3, ExecuteFacts
    <2>2. CASE h = g /\ m = n
        BY <1>3, <2>2, ExecutedInTimeIsPaid
    <2>3. CASE h # g \/ m # n
        BY <2>1, <2>3 DEF OnlySlot
    <2> QED
        BY <2>2, <2>3
<1> QED
    BY <1>1, <1>2, <1>3, RedemptionClasses

\* Nothing but its payment removes or replaces a redemption before its expiry.
THEOREM LiveRedemptionsKept == SCGSpec => LiveRedemptionKept
BY RedemptionInvariance, LiveStep, PTL DEF SCGSpec, LiveRedemptionKept
-----------------------------------------------------------------------------
\* Of all signatures that are accepted, only those over a registration that
\* a gateway submits are vouchers.
SameVouchers ==
    \A s \in RedemptionSigs : uses'[s] = uses[s] /\ lastUse'[s] = lastUse[s]

LEMMA ForeignAcceptance ==
    ASSUME KMTypeOK, NEW k \in KeyManagers, NEW sig \in Signatures, NEW nonce \in Nonces,
           NEW sender, NEW call, AcceptSignature(k, sig, nonce, MsgHash(call, nonce, sender, k)),
           sender \notin Gateways \/ call.fn # "registerRedemption"
    PROVE  SameVouchers
<1>1. sig.hash.call = call /\ sig.hash.sender = sender
    BY DEF AcceptSignature, VerifySignature, MsgHash
<1>2. sig \notin RedemptionSigs
    BY <1>1 DEF RedemptionSigs
<1> QED
    BY <1>2 DEF AcceptSignature, KMTypeOK, SameVouchers, RedemptionSigs

\* Neither do vouchers change by what happens to KeyManagers elsewhere.
LEMMA KeyManagerStepVouchers ==
    ASSUME KMTypeOK, KeyManagerStep
    PROVE  SameVouchers /\ now' \in {now, now + 1}
<1>1. CASE Tick
    BY <1>1 DEF Tick, SameVouchers
<1>2. ASSUME NEW k \in KeyManagers, KeyUpdate(k)
      PROVE  SameVouchers /\ now' = now
    <2>1. k[2] \notin Gateways
        BY CallerAssumption, GatewayAssumption
    <2>2. ASSUME NEW sig \in Signatures, NEW nonce \in Nonces, NEW x,
                 \/ SetAggKeyWithAggKey(k, sig, nonce, x)
                 \/ SetGovKeyWithAggKey(k, sig, nonce, x)
                 \/ SetCommKeyWithAggKey(k, sig, nonce, x)
          PROVE  SameVouchers /\ now' = now
        <3>1. \E call : AcceptSignature(k, sig, nonce, MsgHash(call, nonce, k[2], k))
            BY <2>2 DEF SetAggKeyWithAggKey, SetGovKeyWithAggKey, SetCommKeyWithAggKey,
                        ConsumeKeyNonceKeyManager
        <3>2. SameVouchers
            BY <2>1, <3>1, ForeignAcceptance
        <3> QED
            BY <2>2, <3>2 DEF SetAggKeyWithAggKey, SetGovKeyWithAggKey, SetCommKeyWithAggKey
    <2>3. ASSUME NEW caller \in Accounts, NEW x,
                 \/ SetAggKeyWithGovKey(k, caller, x)
                 \/ SetGovKeyWithGovKey(k, caller, x)
                 \/ SetCommKeyWithCommKey(k, caller, x)
          PROVE  SameVouchers /\ now' = now
        BY <2>3 DEF SetAggKeyWithGovKey, SetGovKeyWithGovKey, SetCommKeyWithCommKey, SameVouchers
    <2> QED
        BY <1>2, <2>2, <2>3 DEF KeyUpdate
<1>3. ASSUME NEW k \in KeyManagers, NonceUse(k, Accounts \cup (NonceConsumers \ Gateways))
      PROVE  SameVouchers /\ now' = now
    <2>1. PICK sig \in Signatures, nonce \in Nonces,
               sender \in Accounts \cup (NonceConsumers \ Gateways), call \in ContractMsgHashes :
             ConsumeKeyNonce(k, sender, sig, nonce, call)
        BY <1>3 DEF NonceUse
    <2>2. sender \notin Gateways
        BY GatewayAssumption
    <2>3. AcceptSignature(k, sig, nonce, MsgHash(call, nonce, sender, k)) /\ now' = now
        BY <2>1 DEF ConsumeKeyNonce
    <2> QED
        BY <2>2, <2>3, ForeignAcceptance
<1> QED
    BY <1>1, <1>2, <1>3 DEF KeyManagerStep

\* A step is a registration, an execution, or nothing as far as vouchers go.
LEMMA VoucherClasses ==
    ASSUME RedemptionInv, [SCGNext]_scgVars
    PROVE  \/ /\ UNCHANGED redemptionVars
              /\ SameVouchers
              /\ now' \in {now, now + 1}
           \/ \E g \in Gateways, sig \in Signatures, nonce \in Nonces :
                 \E args \in SignedArgs("registerRedemption") : RegisterRedemption(g, sig, nonce, args)
           \/ \E g \in Gateways, caller \in Accounts, n \in NodeIDs : ExecuteRedemption(g, caller, n)
<1> DEFINE Nothing == UNCHANGED redemptionVars /\ SameVouchers /\ now' \in {now, now + 1}
<1>1. ASSUME UNCHANGED kmVars, UNCHANGED redemptionVars PROVE Nothing
    BY <1>1 DEF kmVars, SameVouchers
<1>2. CASE KeyManagerStep
    <2>1. UNCHANGED redemptionVars
        BY <1>2 DEF KeyManagerStep
    <2> QED
        BY <1>2, <2>1, KeyManagerStepVouchers DEF RedemptionInv, SCGTypeOK
<1>3. ASSUME UNCHANGED scgVars \/ \E caller \in Accounts : UseFlip(caller) PROVE Nothing
    <2>1. UNCHANGED kmVars /\ UNCHANGED redemptionVars
        BY <1>3 DEF scgVars, UseFlip
    <2> QED
        BY <1>1, <2>1
<1>4. ASSUME NEW g \in Gateways, NEW sig \in Signatures, NEW nonce \in Nonces, NEW fn, NEW args,
             ConsumesKeyNonce(g, sig, nonce, fn, args), fn # "registerRedemption"
      PROVE  SameVouchers /\ now' = now
    <2> DEFINE call == [fn |-> fn, args |-> args]
    <2>1. keyManager[g] \in KeyManagers
        BY GatewayAddresses DEF RedemptionInv, SCGTypeOK, AggKeyNonceConsumerTypeOK
    <2>2. AcceptSignature(keyManager[g], sig, nonce, MsgHash(call, nonce, g, keyManager[g])) /\ now' = now
        BY <1>4 DEF ConsumesKeyNonce, ConsumeKeyNonce
    <2>3. call.fn # "registerRedemption"
        BY <1>4
    <2> HIDE DEF call
    <2> QED
        BY <2>1, <2>2, <2>3, ForeignAcceptance DEF RedemptionInv, SCGTypeOK
<1>5. ASSUME NEW g \in Gateways, NEW sig \in Signatures, NEW nonce \in Nonces,
             SignedCall(g, sig, nonce)
      PROVE  \/ Nothing
             \/ \E args \in SignedArgs("registerRedemption") : RegisterRedemption(g, sig, nonce, args)
    <2>1. ASSUME NEW k \in HomeKeyManagers, NEW omitChecks \in BOOLEAN,
                 UpdateKeyManager(g, sig, nonce, k, omitChecks)
          PROVE  Nothing
        <3>1. /\ \E args : ConsumesKeyNonce(g, sig, nonce, "updateKeyManager", args)
              /\ UNCHANGED redemptionVars
            BY <2>1 DEF UpdateKeyManager, SetKeyManager
        <3> QED
            BY <1>4, <3>1
    <2>2. ASSUME NEW args \in SignedArgs("updateFlipSupply"), UpdateFlipSupply(g, sig, nonce, args)
          PROVE  Nothing
        <3>1. /\ ConsumesKeyNonce(g, sig, nonce, "updateFlipSupply", args)
              /\ UNCHANGED redemptionVars
            BY <2>2 DEF UpdateFlipSupply
        <3> QED
            BY <1>4, <3>1
    <2>3. ASSUME NEW args \in SignedArgs("updateFlipIssuer"), UpdateFlipIssuer(g, sig, nonce, args)
          PROVE  Nothing
        <3>1. /\ ConsumesKeyNonce(g, sig, nonce, "updateFlipIssuer", args)
              /\ UNCHANGED redemptionVars
            BY <2>3 DEF UpdateFlipIssuer
        <3> QED
            BY <1>4, <3>1
    <2> QED
        BY <1>5, <2>1, <2>2, <2>3 DEF SignedCall
<1>6. ASSUME NEW g \in Gateways,
             \/ \E k \in HomeKeyManagers, amount \in Amounts : DeployGateway(g, k, amount)
             \/ \E caller \in Accounts, n \in NodeIDs, amount \in Amounts :
                   FundStateChainAccount(g, caller, n, amount)
             \/ \E caller \in Accounts : GovernedCall(g, caller)
             \/ GuardGateway(g)
      PROVE  Nothing
    <2>1. UNCHANGED kmVars /\ UNCHANGED redemptionVars
        BY <1>6 DEF DeployGateway, FundStateChainAccount, GovernedCall, SetMinFunding, GovWithdraw,
                    GovUpdateFlipIssuer, GuardGateway
    <2> QED
        BY <1>1, <2>1
<1> QED
    BY <1>2, <1>3, <1>5, <1>6 DEF SCGNext, GatewayStep

LEMMA PendingUnpaid ==
    ASSUME RedemptionInv, NEW s \in Signatures, PendingFrom(s)
    PROVE  Used(s) /\ payouts[s] = 0
<1>1. payouts[s] \in Nat
    BY DEF RedemptionInv, SCGTypeOK
<1>2. Used(s) /\ payouts[s] <= 1 /\ payouts[s] # 1
    BY DEF RedemptionInv, PaidAtMostOnce
<1> QED
    BY <1>1, <1>2

\* What the status of a voucher says of the state, and the other way round.
LEMMA StatusFacts ==
    ASSUME RedemptionInv, NEW s \in Signatures
    PROVE  /\ VoucherStatus(s) = "paid" <=> payouts[s] = 1
           /\ VoucherStatus(s) = "pending" <=> PendingFrom(s)
           /\ VoucherStatus(s) = "lapsed" <=> payouts[s] = 0 /\ ~ PendingFrom(s) /\ Used(s)
           /\ VoucherStatus(s) = "unused" <=> ~ Used(s)
<1>1. payouts[s] \in Nat /\ payouts[s] <= 1
    BY DEF RedemptionInv, SCGTypeOK, PaidAtMostOnce
<1>2. /\ payouts[s] = 1 => Used(s) /\ ~ PendingFrom(s)
      /\ PendingFrom(s) => Used(s)
    BY DEF RedemptionInv, PaidAtMostOnce
<1> QED
    BY <1>1, <1>2 DEF VoucherStatus

LEMMA SameStatus ==
    ASSUME NEW s \in Signatures, payouts'[s] = payouts[s],
           PendingFrom(s)' <=> PendingFrom(s), Used(s)' <=> Used(s)
    PROVE  VoucherStatus(s)' = VoucherStatus(s)
BY DEF VoucherStatus

LEMMA PromiseInit == SCGInit => Promise!Init
<1> SUFFICES ASSUME SCGInit PROVE Promise!Init
    OBVIOUS
<1>1. now \in Nat
    BY TimeAssumption DEF SCGInit, KMInit
<1>2. ASSUME NEW s \in RedemptionSigs PROVE VoucherStatus(s) = "unused" /\ lastUse[s] = 0
    <2>1. s \in Signatures /\ RedemptionInv
        BY RedemptionInvInit DEF RedemptionSigs
    <2>2. ~ Used(s) /\ lastUse[s] = 0
        BY <2>1 DEF SCGInit, KMInit, Used
    <2> QED
        BY <2>1, <2>2, StatusFacts
<1> QED
    BY <1>1, <1>2 DEF Promise!Init

\* A registration is Register of the voucher that is registered.
LEMMA RegisterPromise ==
    ASSUME RedemptionInv, NEW g \in Gateways, NEW sig \in Signatures,
           NEW nonce \in Nonces, NEW args \in SignedArgs("registerRedemption"),
           RegisterRedemption(g, sig, nonce, args)
    PROVE  Promise!Next
<1> DEFINE n == args.nodeID
           Account == [s \in RedemptionSigs |-> <<s.hash.sender, s.hash.call.args.nodeID>>]
           Expiry == [s \in RedemptionSigs |-> s.hash.call.args.expiryTime]
           status == [s \in RedemptionSigs |-> VoucherStatus(s)]
           others == {u \in RedemptionSigs \ {sig} : status[u] = "pending" /\ Account[u] = Account[sig]}
<1>1. /\ sig.hash.sender = g
      /\ sig.hash.call = [fn |-> "registerRedemption", args |-> args]
      /\ uses[sig] = 0 /\ payouts[sig] = 0
      /\ Used(sig)' /\ lastUse'[sig] = now /\ payouts' = payouts
    BY RegisterAccepts
<1>2. /\ n \in NodeIDs
      /\ now > pendingRedemptions[g][n].expiryTime
      /\ args.expiryTime > now + REDEMPTION_DELAY
      /\ pendingRedemptions'[g][n] = RedemptionOf(args, now)
      /\ origin'[g][n] = sig
      /\ OnlySlot(g, n)
    BY RegisterSlot
<1>3. /\ sig.hash.call.fn = "registerRedemption" /\ sig.hash.call.args = args
      /\ sig \in RedemptionSigs
    BY <1>1 DEF RedemptionSigs
<1>4. IsPending(g, n)' /\ PendingFrom(sig)'
    <2>1. now \in Nat /\ args.expiryTime \in Nat /\ REDEMPTION_DELAY \in Nat
        BY GatewayAssumption, RedemptionAssumption DEF RedemptionInv, SCGTypeOK, KMTypeOK
    <2>2. pendingRedemptions'[g][n].expiryTime = args.expiryTime
        BY <1>2 DEF RedemptionOf
    <2>3. IsPending(g, n)'
        BY <1>2, <2>1, <2>2 DEF IsPending
    <2> QED
        BY <1>2, <2>3 DEF PendingFrom
<1>5. VoucherStatus(sig) = "unused"
    BY <1>1, StatusFacts DEF Used
<1>6. VoucherStatus(sig)' = "pending"
    BY <1>1, <1>4 DEF VoucherStatus
<1>7. ASSUME NEW u \in RedemptionSigs, u # sig
      PROVE  /\ Used(u)' <=> Used(u)
             /\ lastUse'[u] = lastUse[u]
    <2>1. PICK k \in KeyManagers : Accepts(k, sig)
        BY ConsumesIsNonceUse DEF RegisterRedemption, RedemptionInv, SCGTypeOK
    <2>2. uses' = [uses EXCEPT ![sig] = 1] /\ lastUse' = [lastUse EXCEPT ![sig] = now]
        BY <2>1, AcceptFacts DEF RedemptionInv
    <2> QED
        BY <1>7, <2>2 DEF Used, RedemptionSigs, RedemptionInv, SCGTypeOK, KMTypeOK
<1>8. ASSUME NEW u \in RedemptionSigs, NEW h \in Gateways, NEW m \in NodeIDs,
             IsPending(h, m), origin[h][m] = u
      PROVE  Account[u] = <<h, m>> /\ pendingRedemptions[h][m].expiryTime = Expiry[u]
    <2>1. AsSigned(h, m, u)
        BY <1>8, PendingIsSigned
    <2>2. u.hash.sender = h /\ u.hash.call.args.nodeID = m
          /\ pendingRedemptions[h][m].expiryTime = u.hash.call.args.expiryTime
        BY <2>1 DEF AsSigned, RedemptionOf
    <2> QED
        BY <2>2
<1>9. ASSUME NEW u \in others
      PROVE  /\ now > Expiry[u]
             /\ VoucherStatus(u)' = "lapsed"
    <2>1. u \in RedemptionSigs /\ u # sig /\ u \in Signatures
          /\ VoucherStatus(u) = "pending" /\ Account[u] = <<g, n>>
        BY <1>1, <1>3 DEF RedemptionSigs
    <2>2. PendingFrom(u) /\ Used(u) /\ payouts[u] = 0
        BY <2>1, StatusFacts, PendingUnpaid
    <2>3. IsPending(g, n) /\ origin[g][n] = u
        BY <1>8, <2>1, <2>2 DEF PendingFrom
    <2>4. now > Expiry[u]
        BY <1>2, <1>8, <2>1, <2>3
    <2>5. ~ PendingFrom(u)'
        <3>1. SUFFICES ASSUME NEW h \in Gateways, NEW m \in NodeIDs, IsPending(h, m)', origin'[h][m] = u
                       PROVE  FALSE
            BY DEF PendingFrom
        <3>2. h # g \/ m # n
            BY <1>2, <2>1, <3>1
        <3>3. IsPending(h, m) /\ origin[h][m] = u
            BY <1>2, <3>1, <3>2 DEF OnlySlot, IsPending
        <3> QED
            BY <1>8, <2>1, <3>2, <3>3
    <2> QED
        BY <1>1, <1>7, <2>1, <2>2, <2>4, <2>5 DEF VoucherStatus
<1>10. ASSUME NEW u \in RedemptionSigs, u # sig, u \notin others
       PROVE  VoucherStatus(u)' = VoucherStatus(u)
    <2>1. u \in Signatures
        BY DEF RedemptionSigs
    <2>2. PendingFrom(u)' => PendingFrom(u)
        BY <1>2, <1>10 DEF PendingFrom, OnlySlot, IsPending
    <2>3. PendingFrom(u) => PendingFrom(u)'
        <3>1. SUFFICES ASSUME NEW h \in Gateways, NEW m \in NodeIDs, IsPending(h, m), origin[h][m] = u
                       PROVE  PendingFrom(u)'
            BY DEF PendingFrom
        <3>2. PendingFrom(u)
            BY <3>1 DEF PendingFrom
        <3>3. VoucherStatus(u) = "pending"
            BY <2>1, <3>2, StatusFacts
        <3>4. Account[sig] = <<g, n>> /\ Account[u] = <<h, m>>
            BY <1>1, <1>3, <1>8, <3>1
        <3>5. h # g \/ m # n
            BY <1>10, <3>3, <3>4
        <3> QED
            BY <1>2, <3>1, <3>5 DEF OnlySlot, IsPending, PendingFrom
    <2> QED
        BY <1>1, <1>7, <1>10, <2>1, <2>2, <2>3, SameStatus
<1>11. now' = now
    BY DEF RegisterRedemption, ConsumesKeyNonce, ConsumeKeyNonce
<1>12. Promise!Register(sig)
    <2>1. status[sig] = "unused" /\ Expiry[sig] > now + REDEMPTION_DELAY
        BY <1>2, <1>3, <1>5
    <2>2. \A u \in others : now > Expiry[u]
        BY <1>9
    <2>3. [s \in RedemptionSigs |-> VoucherStatus(s)]' =
             [u \in RedemptionSigs |-> IF u = sig THEN "pending"
                                       ELSE IF u \in others THEN "lapsed" ELSE status[u]]
        BY <1>6, <1>9, <1>10
    <2>4. [s \in RedemptionSigs |-> lastUse[s]]' =
             [[s \in RedemptionSigs |-> lastUse[s]] EXCEPT ![sig] = now]
        BY <1>1, <1>3, <1>7
    <2> QED
        BY <1>11, <2>1, <2>2, <2>3, <2>4 DEF Promise!Register
<1> QED
    BY <1>3, <1>12 DEF Promise!Next

\* An execution is Pay or Lapse of the voucher that was registered there.
LEMMA ExecutePromise ==
    ASSUME RedemptionInv, NEW g \in Gateways, NEW caller \in Accounts,
           NEW n \in NodeIDs, ExecuteRedemption(g, caller, n)
    PROVE  Promise!Next
<1> PICK s \in Signatures : s = origin[g][n]
    BY ExecuteFacts
<1> DEFINE Expiry == [u \in RedemptionSigs |-> u.hash.call.args.expiryTime]
           status == [u \in RedemptionSigs |-> VoucherStatus(u)]
           since == [u \in RedemptionSigs |-> lastUse[u]]
<1>1. /\ IsPending(g, n)
      /\ Used(s) /\ payouts[s] = 0
      /\ ~ IsPending(g, n)'
      /\ OnlySlot(g, n)
      /\ UNCHANGED kmVars
      /\ \/ /\ now <= pendingRedemptions[g][n].expiryTime
            /\ payouts' = [payouts EXCEPT ![s] = 1]
         \/ /\ now > pendingRedemptions[g][n].expiryTime
            /\ payouts' = payouts
    BY ExecuteFacts
<1>2. AsSigned(g, n, s)
    BY <1>1, PendingIsSigned
<1>3. /\ s \in RedemptionSigs
      /\ pendingRedemptions[g][n].startTime = lastUse[s] + REDEMPTION_DELAY
      /\ pendingRedemptions[g][n].expiryTime = Expiry[s]
    <2>1. /\ s \in Signatures /\ s.hash.sender = g /\ s.hash.call.fn = "registerRedemption"
          /\ s.hash.call.args.nodeID = n
          /\ pendingRedemptions[g][n] = RedemptionOf(s.hash.call.args, lastUse[s])
        BY <1>2 DEF AsSigned
    <2>2. s \in RedemptionSigs
        BY <1>1, <2>1 DEF RedemptionSigs
    <2>3. \A args, t : /\ RedemptionOf(args, t).startTime = t + REDEMPTION_DELAY
                      /\ RedemptionOf(args, t).expiryTime = args.expiryTime
        BY DEF RedemptionOf
    <2>4. Expiry[s] = s.hash.call.args.expiryTime
        BY <2>2
    <2> QED
        BY <2>1, <2>2, <2>3, <2>4
<1>4. VoucherStatus(s) = "pending"
    <2>1. PendingFrom(s)
        BY <1>1 DEF PendingFrom
    <2> QED
        BY <1>1, <2>1, StatusFacts
<1>5. ~ PendingFrom(s)'
    <2>1. SUFFICES ASSUME NEW h \in Gateways, NEW m \in NodeIDs, IsPending(h, m)', origin'[h][m] = s
                   PROVE  FALSE
        BY DEF PendingFrom
    <2>2. h # g \/ m # n
        BY <1>1, <2>1
    <2>3. IsPending(h, m) /\ origin[h][m] = s
        BY <1>1, <2>1, <2>2 DEF OnlySlot, IsPending
    <2>4. AsSigned(h, m, s)
        BY <2>3, PendingIsSigned
    <2> QED
        BY <1>2, <2>2, <2>4 DEF AsSigned
<1>6. Used(s)' /\ now' = now /\ lastUse' = lastUse
    BY <1>1 DEF kmVars, Used
<1>7. ASSUME NEW u \in RedemptionSigs, u # s
      PROVE  VoucherStatus(u)' = VoucherStatus(u)
    <2>1. u \in Signatures
        BY DEF RedemptionSigs
    <2>2. payouts'[u] = payouts[u]
        BY <1>1, <1>7, <2>1 DEF RedemptionInv, SCGTypeOK
    <2>3. Used(u)' <=> Used(u)
        BY <1>1 DEF kmVars, Used
    <2>4. PendingFrom(u)' => PendingFrom(u)
        BY <1>1 DEF PendingFrom, OnlySlot, IsPending
    <2>5. PendingFrom(u) => PendingFrom(u)'
        <3>1. SUFFICES ASSUME NEW h \in Gateways, NEW m \in NodeIDs, IsPending(h, m), origin[h][m] = u
                       PROVE  PendingFrom(u)'
            BY DEF PendingFrom
        <3>2. h # g \/ m # n
            BY <1>7, <3>1
        <3> QED
            BY <1>1, <3>1, <3>2 DEF OnlySlot, IsPending, PendingFrom
    <2> QED
        BY <2>1, <2>2, <2>3, <2>4, <2>5, SameStatus
<1>8. [u \in RedemptionSigs |-> lastUse[u]]' = since
    BY <1>6
<1>9. ASSUME NEW x, VoucherStatus(s)' = x
      PROVE  [u \in RedemptionSigs |-> VoucherStatus(u)]' = [status EXCEPT ![s] = x]
    BY <1>3, <1>7, <1>9
<1>10. CASE now <= pendingRedemptions[g][n].expiryTime /\ payouts' = [payouts EXCEPT ![s] = 1]
    <2>1. payouts'[s] = 1
        BY <1>1, <1>10 DEF RedemptionInv, SCGTypeOK
    <2>2. VoucherStatus(s)' = "paid"
        BY <2>1 DEF VoucherStatus
    <2>3. since[s] + REDEMPTION_DELAY <= now /\ now <= Expiry[s]
        BY <1>3, <1>10 DEF ExecuteRedemption, Executable
    <2>4. Promise!Pay(s)
        BY <1>3, <1>4, <1>6, <1>8, <1>9, <2>2, <2>3 DEF Promise!Pay
    <2> QED
        BY <1>3, <2>4 DEF Promise!Next
<1>11. CASE now > pendingRedemptions[g][n].expiryTime /\ payouts' = payouts
    <2>1. VoucherStatus(s)' = "lapsed"
        BY <1>1, <1>5, <1>6, <1>11 DEF VoucherStatus
    <2>2. Promise!Lapse(s)
        BY <1>3, <1>4, <1>6, <1>8, <1>9, <1>11, <2>1 DEF Promise!Lapse
    <2> QED
        BY <1>3, <2>2 DEF Promise!Next
<1> QED
    BY <1>1, <1>10, <1>11

LEMMA PromiseStep ==
    RedemptionInv /\ [SCGNext]_scgVars => [Promise!Next]_(Promise!voucherVars)
<1> SUFFICES ASSUME RedemptionInv, [SCGNext]_scgVars
             PROVE  [Promise!Next]_(Promise!voucherVars)
    OBVIOUS
<1>1. ASSUME UNCHANGED redemptionVars, SameVouchers, now' \in {now, now + 1}
      PROVE  [Promise!Next]_(Promise!voucherVars)
    <2>1. ASSUME NEW s \in RedemptionSigs
          PROVE  VoucherStatus(s)' = VoucherStatus(s) /\ lastUse'[s] = lastUse[s]
        <3>1. s \in Signatures /\ (Used(s)' <=> Used(s)) /\ lastUse'[s] = lastUse[s]
            BY <1>1 DEF SameVouchers, Used, RedemptionSigs
        <3>2. payouts'[s] = payouts[s] /\ (PendingFrom(s)' <=> PendingFrom(s))
            BY <1>1 DEF redemptionVars, PendingFrom, IsPending
        <3> QED
            BY <3>1, <3>2, SameStatus
    <2>2. /\ [s \in RedemptionSigs |-> VoucherStatus(s)]' = [s \in RedemptionSigs |-> VoucherStatus(s)]
          /\ [s \in RedemptionSigs |-> lastUse[s]]' = [s \in RedemptionSigs |-> lastUse[s]]
        BY <2>1
    <2> QED
        BY <1>1, <2>2 DEF Promise!Next, Promise!Advance, Promise!voucherVars
<1> QED
    BY <1>1, RegisterPromise, ExecutePromise, VoucherClasses

\* The gateways implement the vouchers that the State Chain relies on.
THEOREM GatewayImplementsVouchers == SCGSpec => Voucher
BY RedemptionInvariance, PromiseInit, PromiseStep, PTL DEF SCGSpec, Voucher, Promise!Spec
-----------------------------------------------------------------------------
\* The functions that take a signature accept it, with the KeyManager the
\* gateway refers to, and no other signature.
LEMMA SignedCallAccepts ==
    ASSUME RedemptionInv, NEW g \in Gateways, NEW sig \in Signatures, NEW nonce \in Nonces,
           SignedCall(g, sig, nonce)
    PROVE  /\ sig.hash.sender = g
           /\ Home(sig) = keyManager[g]
           /\ uses[sig] = 0
           /\ uses' = [uses EXCEPT ![sig] = 1]
<1>1. \E fn, args : ConsumesKeyNonce(g, sig, nonce, fn, args)
    BY DEF SignedCall, UpdateKeyManager, SetKeyManager, RegisterRedemption,
           UpdateFlipSupply, UpdateFlipIssuer
<1>2. keyManager[g] \in KeyManagers /\ Accepts(keyManager[g], sig) /\ sig.hash.sender = g
    BY <1>1, ConsumesIsNonceUse DEF RedemptionInv, SCGTypeOK
<1> QED
    BY <1>2, AcceptFacts DEF RedemptionInv

\* What is accepted by an instance for somebody else is not made for a gateway.
LEMMA ElsewhereAccepted ==
    ASSUME KMTypeOK, KeyManagerStep, NEW s \in Signatures, s.hash.sender \in Gateways
    PROVE  uses'[s] = uses[s]
<1>1. CASE Tick
    BY <1>1 DEF Tick
<1>2. ASSUME NEW k, NEW sig, NEW nonce, NEW sender, NEW call,
             AcceptSignature(k, sig, nonce, MsgHash(call, nonce, sender, k)), sender \notin Gateways
      PROVE  uses'[s] = uses[s]
    <2>1. sig.hash.sender = sender
        BY <1>2 DEF AcceptSignature, VerifySignature, MsgHash
    <2> QED
        BY <1>2, <2>1 DEF AcceptSignature, KMTypeOK
<1>3. ASSUME NEW k \in KeyManagers, KeyUpdate(k) PROVE uses'[s] = uses[s]
    <2>1. k[2] \notin Gateways
        BY CallerAssumption, GatewayAssumption
    <2>2. ASSUME NEW sig, NEW nonce, NEW x,
                 \/ SetAggKeyWithAggKey(k, sig, nonce, x)
                 \/ SetGovKeyWithAggKey(k, sig, nonce, x)
                 \/ SetCommKeyWithAggKey(k, sig, nonce, x)
          PROVE  uses'[s] = uses[s]
        <3>1. \E call : AcceptSignature(k, sig, nonce, MsgHash(call, nonce, k[2], k))
            BY <2>2 DEF SetAggKeyWithAggKey, SetGovKeyWithAggKey, SetCommKeyWithAggKey,
                        ConsumeKeyNonceKeyManager
        <3> QED
            BY <1>2, <2>1, <3>1
    <2>3. ASSUME NEW caller, NEW x,
                 \/ SetAggKeyWithGovKey(k, caller, x)
                 \/ SetGovKeyWithGovKey(k, caller, x)
                 \/ SetCommKeyWithCommKey(k, caller, x)
          PROVE  uses'[s] = uses[s]
        BY <2>3 DEF SetAggKeyWithGovKey, SetGovKeyWithGovKey, SetCommKeyWithCommKey
    <2> QED
        BY <1>3, <2>2, <2>3 DEF KeyUpdate
<1>4. ASSUME NEW k \in KeyManagers, NonceUse(k, Accounts \cup (NonceConsumers \ Gateways))
      PROVE  uses'[s] = uses[s]
    <2>1. PICK sig \in Signatures, nonce \in Nonces,
               sender \in Accounts \cup (NonceConsumers \ Gateways), call \in ContractMsgHashes :
             AcceptSignature(k, sig, nonce, MsgHash(call, nonce, sender, k))
        BY <1>4 DEF NonceUse, ConsumeKeyNonce
    <2>2. sender \notin Gateways
        BY GatewayAssumption
    <2> QED
        BY <1>2, <2>1, <2>2
<1> QED
    BY <1>1, <1>3, <1>4 DEF KeyManagerStep

\* A signature made for a gateway is accepted in a call of that gateway only.
LEMMA WhoAccepts ==
    ASSUME RedemptionInv, [SCGNext]_scgVars, NEW s \in Signatures,
           AcceptedNow(s), s.hash.sender \in Gateways
    PROVE  \E nonce \in Nonces : SignedCall(s.hash.sender, s, nonce)
<1>1. uses[s] \in Nat
    BY DEF RedemptionInv, SCGTypeOK, KMTypeOK
<1>2. uses'[s] # uses[s]
    BY <1>1 DEF AcceptedNow
<1>3. ~ UNCHANGED kmVars
    BY <1>2 DEF kmVars
<1>4. ASSUME NEW g \in Gateways, NEW sig \in Signatures, NEW nonce \in Nonces,
             SignedCall(g, sig, nonce)
      PROVE  sig = s /\ g = s.hash.sender
    BY <1>2, <1>4, SignedCallAccepts DEF RedemptionInv, SCGTypeOK, KMTypeOK
<1>5. ~ KeyManagerStep
    BY <1>2, ElsewhereAccepted DEF RedemptionInv, SCGTypeOK
<1>6. ASSUME NEW g \in Gateways,
             \/ \E k \in HomeKeyManagers, amount \in Amounts : DeployGateway(g, k, amount)
             \/ \E caller \in Accounts, n \in NodeIDs, amount \in Amounts :
                   FundStateChainAccount(g, caller, n, amount)
             \/ \E caller \in Accounts, n \in NodeIDs : ExecuteRedemption(g, caller, n)
             \/ \E caller \in Accounts : GovernedCall(g, caller)
             \/ GuardGateway(g)
      PROVE  UNCHANGED kmVars
    BY <1>6 DEF DeployGateway, FundStateChainAccount, ExecuteRedemption, GovernedCall, SetMinFunding,
                GovWithdraw, GovUpdateFlipIssuer, GuardGateway
<1>7. ~ UNCHANGED scgVars /\ ~ \E caller \in Accounts : UseFlip(caller)
    BY <1>3 DEF scgVars, UseFlip
<1>8. PICK g \in Gateways, sig \in Signatures, nonce \in Nonces : SignedCall(g, sig, nonce)
    BY <1>3, <1>5, <1>6, <1>7 DEF SCGNext, GatewayStep
<1> QED
    BY <1>4, <1>8

\* The call that a function consumes a signature for is what was signed.
LEMMA SignedAs ==
    ASSUME NEW c, NEW s, NEW nonce, NEW fn, NEW args, ConsumesKeyNonce(c, s, nonce, fn, args)
    PROVE  s.hash.call.fn = fn /\ s.hash.call.args = args
<1>1. s.hash.call = [fn |-> fn, args |-> args]
    BY DEF ConsumesKeyNonce, ConsumeKeyNonce, AcceptSignature, VerifySignature, MsgHash
<1> QED
    BY <1>1

\* A supply update makes the total supply what it says, by burning or minting.
LEMMA SupplyAdjusted ==
    ASSUME RedemptionInv, NEW g \in Gateways, NEW s, NEW nonce,
           NEW args \in SignedArgs("updateFlipSupply"), UpdateFlipSupply(g, s, nonce, args)
    PROVE  /\ totalSupply' = args.newTotalSupply
           /\ \A h \in Gateways : balanceOf'[h] < balanceOf[h] =>
                 h = g /\ balanceOf[h] - balanceOf'[h] = totalSupply - totalSupply'
<1>1. args.newTotalSupply \in Nat /\ AdjustSupply(g, args.newTotalSupply)
    BY SupplyUpdateAssumption DEF UpdateFlipSupply
<1> PICK new \in Nat : new = args.newTotalSupply
    BY <1>1
<1>2. /\ totalSupply \in Int /\ balanceOf \in [Addresses -> Nat]
      /\ g \in Addresses /\ Gateways \subseteq Addresses
    BY GatewayAddresses DEF RedemptionInv, SCGTypeOK, FLIPTypeOK
<1> SUFFICES ASSUME NEW h \in Gateways
             PROVE  /\ totalSupply' = new
                    /\ balanceOf'[h] < balanceOf[h] =>
                          h = g /\ balanceOf[h] - balanceOf'[h] = totalSupply - totalSupply'
    OBVIOUS
<1>3. balanceOf[h] \in Nat /\ balanceOf[g] \in Nat
    BY <1>2
<1>4. CASE Burn(g, g, totalSupply - new)
    <2>1. totalSupply' = totalSupply - (totalSupply - new)
        BY <1>4 DEF Burn
    <2>2. balanceOf'[h] = IF h = g THEN balanceOf[h] - (totalSupply - new) ELSE balanceOf[h]
        BY <1>2, <1>4 DEF Burn
    <2> QED
        BY <1>2, <1>3, <2>1, <2>2
<1>5. CASE new > totalSupply /\ Mint(g, g, new - totalSupply)
    <2>1. totalSupply' = totalSupply + (new - totalSupply)
        BY <1>5 DEF Mint
    <2>2. balanceOf'[h] = IF h = g THEN balanceOf[h] + (new - totalSupply) ELSE balanceOf[h]
        BY <1>2, <1>5 DEF Mint
    <2> QED
        BY <1>2, <1>3, <1>5, <2>1, <2>2
<1>6. CASE new = totalSupply /\ UNCHANGED <<balanceOf, totalSupply>>
    BY <1>3, <1>6
<1> QED
    BY <1>1, <1>4, <1>5, <1>6 DEF AdjustSupply

LEMMA DoneStep ==
    ASSUME RedemptionInv, [SCGNext]_scgVars, NEW s \in Signatures,
           AcceptedNow(s), s.hash.sender \in Gateways
    PROVE  DoneAsSigned(s)
<1> PICK g \in Gateways : g = s.hash.sender
    OBVIOUS
<1> PICK nonce \in Nonces : SignedCall(g, s, nonce)
    BY WhoAccepts
<1>1. Home(s) = keyManager[g]
    BY SignedCallAccepts
<1>2. ASSUME NEW args \in SignedArgs("registerRedemption"), RegisterRedemption(g, s, nonce, args)
      PROVE  DoneAsSigned(s)
    <2>1. s.hash.call.fn = "registerRedemption" /\ s.hash.call.args = args
        BY <1>2, SignedAs DEF RegisterRedemption
    <2>2. origin'[g][args.nodeID] = s
        BY <1>2, RegisterSlot
    <2> QED
        BY <1>1, <2>1, <2>2 DEF DoneAsSigned
<1>3. ASSUME NEW args \in SignedArgs("updateFlipSupply"), UpdateFlipSupply(g, s, nonce, args)
      PROVE  DoneAsSigned(s)
    <2>1. s.hash.call.fn = "updateFlipSupply" /\ s.hash.call.args = args
        BY <1>3, SignedAs DEF UpdateFlipSupply
    <2>2. totalSupply' = args.newTotalSupply
        BY <1>3, SupplyAdjusted
    <2> QED
        BY <1>1, <2>1, <2>2 DEF DoneAsSigned
<1>4. ASSUME NEW args \in SignedArgs("updateFlipIssuer"), UpdateFlipIssuer(g, s, nonce, args)
      PROVE  DoneAsSigned(s)
    <2>1. s.hash.call.fn = "updateFlipIssuer" /\ s.hash.call.args = args
        BY <1>4, SignedAs DEF UpdateFlipIssuer
    <2>2. issuer' = args.newIssuer
        BY <1>4 DEF UpdateFlipIssuer, UpdateIssuer
    <2> QED
        BY <1>1, <2>1, <2>2 DEF DoneAsSigned
<1>5. ASSUME NEW k \in HomeKeyManagers, NEW omitChecks \in BOOLEAN,
             UpdateKeyManager(g, s, nonce, k, omitChecks)
      PROVE  DoneAsSigned(s)
    <2> DEFINE args == [keyManager |-> k[2], omitChecks |-> omitChecks]
    <2>1. s.hash.call.fn = "updateKeyManager" /\ s.hash.call.args = args
        BY <1>5, SignedAs DEF UpdateKeyManager, SetKeyManager
    <2>2. keyManager'[g] = k
        BY <1>5, GatewayAddresses
           DEF UpdateKeyManager, SetKeyManager, RedemptionInv, SCGTypeOK, AggKeyNonceConsumerTypeOK
    <2>3. args.keyManager = k[2]
        OBVIOUS
    <2> HIDE DEF args
    <2> QED
        BY <1>1, <2>1, <2>2, <2>3 DEF DoneAsSigned
<1> QED
    BY <1>2, <1>3, <1>4, <1>5 DEF SignedCall

\* No nonce is used up for a gateway without what was signed being done.
THEOREM AcceptedIsDone == SCGSpec => AcceptedMeansDone
<1>1. RedemptionInv /\ [SCGNext]_scgVars =>
         [\A s \in Signatures : AcceptedNow(s) /\ s.hash.sender \in Gateways => DoneAsSigned(s)]_scgVars
    BY DoneStep
<1> QED
    BY <1>1, RedemptionInvariance, PTL DEF SCGSpec, AcceptedMeansDone
-----------------------------------------------------------------------------
LEMMA SuspendedStep == RedemptionInv /\ [SCGNext]_scgVars => SuspensionStep
<1> SUFFICES ASSUME RedemptionInv, [SCGNext]_scgVars, NEW g \in Gateways, suspended[g]
             PROVE  /\ pendingRedemptions'[g] = pendingRedemptions[g]
                    /\ \A s \in Signatures :
                          AcceptedNow(s) /\ s.hash.sender = g => s.hash.call.fn = "updateKeyManager"
    BY DEF SuspensionStep
<1>1. pendingRedemptions'[g] = pendingRedemptions[g]
    <2>1. ASSUME NEW h \in Gateways, NEW sig \in Signatures, NEW nonce \in Nonces,
                 NEW args \in SignedArgs("registerRedemption"), RegisterRedemption(h, sig, nonce, args)
          PROVE  pendingRedemptions'[g] = pendingRedemptions[g]
        <3>1. h # g
            BY <2>1 DEF RegisterRedemption, OnlyNotSuspended
        <3> QED
            BY <2>1, <3>1 DEF RegisterRedemption, RedemptionInv, SCGTypeOK
    <2>2. ASSUME NEW h \in Gateways, NEW caller \in Accounts, NEW n \in NodeIDs,
                 ExecuteRedemption(h, caller, n)
          PROVE  pendingRedemptions'[g] = pendingRedemptions[g]
        <3>1. h # g
            BY <2>2 DEF ExecuteRedemption, OnlyNotSuspended
        <3> QED
            BY <2>2, <3>1 DEF ExecuteRedemption, DeleteRedemption, RedemptionInv, SCGTypeOK
    <2> QED
        BY <2>1, <2>2, RedemptionClasses DEF redemptionVars
<1>2. ASSUME NEW s \in Signatures, AcceptedNow(s), s.hash.sender = g
      PROVE  s.hash.call.fn = "updateKeyManager"
    <2>1. PICK nonce \in Nonces : SignedCall(g, s, nonce)
        BY <1>2, WhoAccepts
    <2>2. PICK k \in HomeKeyManagers, omitChecks \in BOOLEAN : UpdateKeyManager(g, s, nonce, k, omitChecks)
        BY <2>1 DEF SignedCall, RegisterRedemption, UpdateFlipSupply, UpdateFlipIssuer, OnlyNotSuspended
    <2> QED
        BY <2>2, SignedAs DEF UpdateKeyManager, SetKeyManager
<1> QED
    BY <1>1, <1>2

\* Suspension holds everything a signature can do but the repair of the reference.
THEOREM SuspensionHolds == SCGSpec => SuspensionFreezes
<1>1. RedemptionInv /\ [SCGNext]_scgVars => [SuspensionStep]_scgVars
    BY SuspendedStep
<1> QED
    BY <1>1, RedemptionInvariance, PTL DEF SCGSpec, SuspensionFreezes
-----------------------------------------------------------------------------
LEMMA IssuanceStep == RedemptionInv /\ [SCGNext]_scgVars => IssuerStep
<1> SUFFICES ASSUME RedemptionInv, [SCGNext]_scgVars, issuer' # issuer
             PROVE  IssuerStep
    BY DEF IssuerStep
<1>1. ~ UNCHANGED scgVars /\ ~ KeyManagerStep
    BY DEF scgVars, KeyManagerStep, flipVars
<1>2. ASSUME NEW caller \in Accounts, UseFlip(caller) PROVE issuer \in Accounts
    BY <1>2 DEF UseFlip, UpdateIssuer, OnlyIssuer
<1>3. ASSUME NEW g \in Gateways, NEW sig \in Signatures, NEW nonce \in Nonces,
             SignedCall(g, sig, nonce)
      PROVE  IssuerStep
    <2>1. PICK args \in SignedArgs("updateFlipIssuer") : UpdateFlipIssuer(g, sig, nonce, args)
        BY <1>3 DEF SignedCall, UpdateKeyManager, RegisterRedemption, UpdateFlipSupply, flipVars
    <2>2. sig.hash.call.fn = "updateFlipIssuer" /\ sig.hash.call.args = args
        BY <2>1, SignedAs DEF UpdateFlipIssuer
    <2>3. sig.hash.sender = g /\ uses[sig] = 0 /\ uses' = [uses EXCEPT ![sig] = 1]
        BY <1>3, SignedCallAccepts
    <2>4. AcceptedNow(sig)
        BY <2>3 DEF AcceptedNow, RedemptionInv, SCGTypeOK, KMTypeOK
    <2>5. issuer = g /\ issuer' = args.newIssuer /\ args.newIssuer \in deployed \cup OtherContracts
        BY <2>1 DEF UpdateFlipIssuer, UpdateIssuer, OnlyIssuer, CheckFlipIssuer
    <2> QED
        BY <2>2, <2>3, <2>4, <2>5 DEF IssuerStep
<1>4. ASSUME NEW g \in Gateways, NEW caller \in Accounts, GovernedCall(g, caller)
      PROVE  IssuerStep
    <2>1. /\ g \in deployed /\ issuer = g /\ issuer' = GetGovernor(g)
          /\ suspended[g] /\ communityGuardDisabled[g]
        BY <1>4 DEF GovernedCall, SetMinFunding, GovWithdraw, GovUpdateFlipIssuer, EmergencyApproved,
                    UpdateIssuer, OnlyIssuer, flipVars
    <2> QED
        BY <2>1 DEF IssuerStep
<1>5. ASSUME NEW g \in Gateways,
             \/ \E k \in HomeKeyManagers, amount \in Amounts : DeployGateway(g, k, amount)
             \/ \E caller \in Accounts, n \in NodeIDs, amount \in Amounts :
                   FundStateChainAccount(g, caller, n, amount)
             \/ \E caller \in Accounts, n \in NodeIDs : ExecuteRedemption(g, caller, n)
             \/ GuardGateway(g)
      PROVE  issuer' = issuer
    BY <1>5 DEF DeployGateway, FundStateChainAccount, ExecuteRedemption, GuardGateway, flipVars
<1> QED
    BY <1>1, <1>2, <1>3, <1>4, <1>5 DEF SCGNext, GatewayStep, IssuerStep

\* The right to issue FLIP moves in the three ways only.
THEOREM IssuanceCustody == SCGSpec => IssuerCustody
<1>1. RedemptionInv /\ [SCGNext]_scgVars => [IssuerStep]_scgVars
    BY IssuanceStep
<1> QED
    BY <1>1, RedemptionInvariance, PTL DEF SCGSpec, IssuerCustody
-----------------------------------------------------------------------------
\* A transfer takes from nobody but the sender.
LEMMA TransferTakes ==
    ASSUME FLIPTypeOK, NEW from \in Addresses, NEW to \in Addresses, NEW amount \in Nat,
           Transfer(from, to, amount), NEW a \in Addresses, a # from
    PROVE  ~ balanceOf'[a] < balanceOf[a]
<1>1. balanceOf[a] \in Nat /\ balanceOf[to] \in Nat
    BY DEF FLIPTypeOK
<1> DEFINE taken == [balanceOf EXCEPT ![from] = @ - amount]
<1>2. /\ balanceOf' = [taken EXCEPT ![to] = @ + amount]
      /\ taken[a] = balanceOf[a] /\ DOMAIN taken = Addresses
    BY DEF Transfer, Passed, FLIPTypeOK
<1> HIDE DEF taken
<1>3. balanceOf'[a] = balanceOf[a] \/ balanceOf'[a] = balanceOf[a] + amount
    BY <1>2
<1> QED
    BY <1>1, <1>3

LEMMA OutflowKept == RedemptionInv /\ [SCGNext]_scgVars => OutflowStep
<1> SUFFICES ASSUME RedemptionInv, [SCGNext]_scgVars,
                    NEW g \in Gateways, balanceOf'[g] < balanceOf[g], issuer \notin Accounts
             PROVE  \/ \E s \in Signatures : LeavesAsRedemption(g, s)
                    \/ LeavesAsBurn(g)
                    \/ LeavesInEmergency(g)
    BY DEF OutflowStep
<1>1. /\ FLIPTypeOK /\ g \in Addresses /\ g \notin Accounts
      /\ Accounts \subseteq Addresses /\ Gateways \subseteq Addresses
      /\ balanceOf \in [Addresses -> Nat] /\ balanceOf[g] \in Nat
    BY GatewayAddresses, GatewayAssumption DEF RedemptionInv, SCGTypeOK, FLIPTypeOK
<1>2. balanceOf' # balanceOf
    BY <1>1
<1>3. ~ UNCHANGED scgVars /\ ~ KeyManagerStep
    BY <1>2 DEF scgVars, KeyManagerStep, flipVars
<1>4. ASSUME NEW caller \in Accounts, UseFlip(caller) PROVE FALSE
    <2>1. PICK a \in Holders, amount \in Amounts :
             \/ Transfer(caller, a, amount)
             \/ Mint(caller, a, amount)
             \/ Burn(caller, a, amount)
             \/ UpdateIssuer(caller, a) /\ UNCHANGED balanceOf
        BY <1>4 DEF UseFlip
    <2>2. Transfer(caller, a, amount)
        BY <1>2, <2>1 DEF Mint, Burn, OnlyIssuer, UpdateIssuer
    <2>3. a \in Addresses /\ amount \in Nat /\ caller \in Addresses /\ caller # g
        BY <1>1, GatewayAssumption
    <2> QED
        BY <1>1, <2>2, <2>3, TransferTakes
<1>5. ASSUME NEW h \in Gateways, NEW sig \in Signatures, NEW nonce \in Nonces,
             SignedCall(h, sig, nonce)
      PROVE  LeavesAsBurn(g)
    <2>1. PICK args \in SignedArgs("updateFlipSupply") : UpdateFlipSupply(h, sig, nonce, args)
        BY <1>2, <1>5 DEF SignedCall, UpdateKeyManager, RegisterRedemption, UpdateFlipIssuer, flipVars
    <2>2. sig.hash.call.fn = "updateFlipSupply" /\ sig.hash.call.args = args
        BY <2>1, SignedAs DEF UpdateFlipSupply
    <2>3. sig.hash.sender = h /\ uses[sig] = 0 /\ uses' = [uses EXCEPT ![sig] = 1]
        BY <1>5, SignedCallAccepts
    <2>4. AcceptedNow(sig)
        BY <2>3 DEF AcceptedNow, RedemptionInv, SCGTypeOK, KMTypeOK
    <2>5. /\ totalSupply' = args.newTotalSupply
          /\ h = g /\ balanceOf[g] - balanceOf'[g] = totalSupply - totalSupply'
        BY <2>1, SupplyAdjusted
    <2>6. ~ suspended[g]
        BY <2>1, <2>5 DEF UpdateFlipSupply, OnlyNotSuspended
    <2> QED
        BY <2>2, <2>3, <2>4, <2>5, <2>6 DEF LeavesAsBurn
<1>6. ASSUME NEW h \in Gateways, NEW caller \in Accounts, NEW n \in NodeIDs, NEW amount \in Amounts,
             FundStateChainAccount(h, caller, n, amount)
      PROVE  FALSE
    <2>1. Transfer(caller, h, amount) /\ amount \in Nat
        BY <1>6, GatewayAssumption DEF FundStateChainAccount
    <2> QED
        BY <1>1, <2>1, TransferTakes
<1>7. ASSUME NEW h \in Gateways, NEW caller \in Accounts, NEW n \in NodeIDs,
             ExecuteRedemption(h, caller, n)
      PROVE  \E s \in Signatures : LeavesAsRedemption(g, s)
    <2>1. PayRedemption(h, caller, n)
        BY <1>2, <1>7 DEF ExecuteRedemption, ExpireRedemption
    <2>2. /\ now <= pendingRedemptions[h][n].expiryTime
          /\ Transfer(h, pendingRedemptions[h][n].redeemAddress, pendingRedemptions[h][n].amount)
        BY <2>1 DEF PayRedemption
    <2>3. pendingRedemptions[h][n].redeemAddress \in Addresses /\ pendingRedemptions[h][n].amount \in Nat
        BY DEF RedemptionInv, SCGTypeOK, Redemption
    <2>4. h = g
        BY <1>1, <2>2, <2>3, TransferTakes
    <2> QED
        BY <1>7, <2>2, <2>4, ExecutedInTimeIsPaid, ExecuteFacts
<1>8. ASSUME NEW h \in Gateways, NEW caller \in Accounts, GovernedCall(h, caller)
      PROVE  LeavesInEmergency(g)
    <2>1. /\ Transfer(h, GetGovernor(h), balanceOf[h])
          /\ suspended[h] /\ communityGuardDisabled[h]
        BY <1>2, <1>8 DEF GovernedCall, SetMinFunding, GovWithdraw, GovUpdateFlipIssuer,
                          EmergencyApproved, flipVars
    <2>2. GetGovernor(h) \in Addresses /\ balanceOf[h] \in Nat /\ balanceOf[h] - balanceOf[h] = 0
        BY <1>1, GatewayAddresses
           DEF GetGovernor, RedemptionInv, SCGTypeOK, AggKeyNonceConsumerTypeOK, KMTypeOK
    <2>3. h = g
        BY <1>1, <2>1, <2>2, TransferTakes
    <2> QED
        BY <2>1, <2>3 DEF LeavesInEmergency, Transfer
<1>9. ASSUME NEW h \in Gateways,
             \/ \E k \in HomeKeyManagers, amount \in Amounts : DeployGateway(h, k, amount)
             \/ GuardGateway(h)
      PROVE  FALSE
    BY <1>2, <1>9 DEF DeployGateway, GuardGateway, flipVars
<1> QED
    BY <1>3, <1>4, <1>5, <1>6, <1>7, <1>8, <1>9 DEF SCGNext, GatewayStep

\* FLIP leaves a gateway in the four ways only.
THEOREM FundsCustody == SCGSpec => Outflow
<1>1. RedemptionInv /\ [SCGNext]_scgVars => [OutflowStep]_scgVars
    BY OutflowKept
<1> QED
    BY <1>1, RedemptionInvariance, PTL DEF SCGSpec, Outflow
-----------------------------------------------------------------------------
\* A gateway knows the newest block of all supply updates it accepted. The
\* step property alone is not enough: it must hold of every earlier update.
BlockKnown(t) ==
    Used(t) /\ t.hash.sender \in Gateways /\ t.hash.call.fn = "updateFlipSupply" =>
        t.hash.call.args.stateChainBlockNumber <= lastSupplyUpdateBlockNum[t.hash.sender]
SupplyInv == RedemptionInv /\ \A t \in Signatures : BlockKnown(t)

\* The block of a gateway only moves by a supply update, and then forward.
LEMMA BlockClasses ==
    ASSUME RedemptionInv, [SCGNext]_scgVars
    PROVE  \/ UNCHANGED lastSupplyUpdateBlockNum
           \/ \E g \in Gateways, sig \in Signatures, nonce \in Nonces :
                 \E args \in SignedArgs("updateFlipSupply") : UpdateFlipSupply(g, sig, nonce, args)
<1>1. ASSUME NEW g \in Gateways, NEW sig \in Signatures, NEW nonce \in Nonces,
             SignedCall(g, sig, nonce)
      PROVE  \/ UNCHANGED lastSupplyUpdateBlockNum
             \/ \E args \in SignedArgs("updateFlipSupply") : UpdateFlipSupply(g, sig, nonce, args)
    BY <1>1 DEF SignedCall, UpdateKeyManager, RegisterRedemption, UpdateFlipIssuer, ownVars
<1>2. ASSUME NEW g \in Gateways,
             \/ \E k \in HomeKeyManagers, amount \in Amounts : DeployGateway(g, k, amount)
             \/ \E caller \in Accounts, n \in NodeIDs, amount \in Amounts :
                   FundStateChainAccount(g, caller, n, amount)
             \/ \E caller \in Accounts, n \in NodeIDs : ExecuteRedemption(g, caller, n)
             \/ \E caller \in Accounts : GovernedCall(g, caller)
             \/ GuardGateway(g)
      PROVE  UNCHANGED lastSupplyUpdateBlockNum
    BY <1>2 DEF DeployGateway, FundStateChainAccount, ExecuteRedemption, GovernedCall, SetMinFunding,
                GovWithdraw, GovUpdateFlipIssuer, GuardGateway, ownVars
<1>3. ASSUME KeyManagerStep \/ (\E caller \in Accounts : UseFlip(caller)) \/ UNCHANGED scgVars
      PROVE  UNCHANGED lastSupplyUpdateBlockNum
    BY <1>3 DEF KeyManagerStep, UseFlip, scgVars, ownVars
<1> QED
    BY <1>1, <1>2, <1>3 DEF SCGNext, GatewayStep

\* What a supply update requires of the blocks, and does to them.
LEMMA UpdateBlocks ==
    ASSUME RedemptionInv, NEW g \in Gateways, NEW sig \in Signatures, NEW nonce \in Nonces,
           NEW args \in SignedArgs("updateFlipSupply"), UpdateFlipSupply(g, sig, nonce, args)
    PROVE  /\ sig.hash.sender = g
           /\ sig.hash.call.fn = "updateFlipSupply" /\ sig.hash.call.args = args
           /\ args.stateChainBlockNumber \in Nat
           /\ lastSupplyUpdateBlockNum[g] < args.stateChainBlockNumber
           /\ lastSupplyUpdateBlockNum' =
                 [lastSupplyUpdateBlockNum EXCEPT ![g] = args.stateChainBlockNumber]
           /\ uses' = [uses EXCEPT ![sig] = 1]
<1>1. SignedCall(g, sig, nonce)
    BY DEF SignedCall
<1>2. lastSupplyUpdateBlockNum[g] \in Nat /\ args.stateChainBlockNumber \in Nat
    BY SupplyUpdateAssumption DEF RedemptionInv, SCGTypeOK
<1>3. lastSupplyUpdateBlockNum[g] < args.stateChainBlockNumber
    BY <1>2 DEF UpdateFlipSupply, NewerUpdate
<1> QED
    BY <1>1, <1>2, <1>3, SignedAs, SignedCallAccepts DEF UpdateFlipSupply

LEMMA UpdateSigned ==
    ASSUME NEW t \in Signatures, t.hash.call.fn = "updateFlipSupply"
    PROVE  t.hash.call.args.stateChainBlockNumber \in Nat
<1>1. t.hash.call.args \in SignedArgs("updateFlipSupply")
    BY DEF SignedArgs, ContractMsgHashes
<1> QED
    BY <1>1, SupplyUpdateAssumption

LEMMA SupplyInvStep == SupplyInv /\ [SCGNext]_scgVars => SupplyInv'
<1> SUFFICES ASSUME SupplyInv, [SCGNext]_scgVars,
                    NEW t \in Signatures, Used(t)', t.hash.sender \in Gateways,
                    t.hash.call.fn = "updateFlipSupply"
             PROVE  t.hash.call.args.stateChainBlockNumber <= lastSupplyUpdateBlockNum'[t.hash.sender]
    BY RedemptionInvStep DEF SupplyInv, BlockKnown
<1> USE DEF SupplyInv
<1> DEFINE h == t.hash.sender
           block == t.hash.call.args.stateChainBlockNumber
<1>1. /\ block \in Nat /\ lastSupplyUpdateBlockNum \in [Gateways -> Nat]
      /\ uses \in [Signatures -> Nat]
    BY UpdateSigned DEF RedemptionInv, SCGTypeOK, KMTypeOK
<1>2. \/ Used(t)
      \/ \E nonce \in Nonces, args \in SignedArgs("updateFlipSupply") : UpdateFlipSupply(h, t, nonce, args)
    <2>1. SUFFICES ASSUME ~ Used(t)
                   PROVE  \E nonce \in Nonces, args \in SignedArgs("updateFlipSupply") :
                             UpdateFlipSupply(h, t, nonce, args)
        OBVIOUS
    <2>2. AcceptedNow(t)
        BY <1>1, <2>1 DEF AcceptedNow, Used
    <2>3. PICK nonce \in Nonces : SignedCall(h, t, nonce)
        BY <2>2, WhoAccepts
    <2>4. ASSUME NEW fn, NEW args, ConsumesKeyNonce(h, t, nonce, fn, args)
          PROVE  fn = "updateFlipSupply"
        BY <2>4, SignedAs
    <2> QED
        BY <2>3, <2>4 DEF SignedCall, UpdateKeyManager, SetKeyManager, RegisterRedemption, UpdateFlipIssuer
<1>3. ASSUME NEW nonce \in Nonces, NEW args \in SignedArgs("updateFlipSupply"),
             UpdateFlipSupply(h, t, nonce, args)
      PROVE  block <= lastSupplyUpdateBlockNum'[h]
    <2>1. lastSupplyUpdateBlockNum'[h] = block
        BY <1>1, <1>3, UpdateBlocks
    <2> QED
        BY <1>1, <2>1
<1>4. ASSUME Used(t) PROVE block <= lastSupplyUpdateBlockNum'[h]
    <2>1. block <= lastSupplyUpdateBlockNum[h]
        BY <1>4 DEF BlockKnown
    <2>2. CASE UNCHANGED lastSupplyUpdateBlockNum
        BY <2>1, <2>2
    <2>3. ASSUME NEW g \in Gateways, NEW sig \in Signatures, NEW nonce \in Nonces,
                 NEW args \in SignedArgs("updateFlipSupply"), UpdateFlipSupply(g, sig, nonce, args)
          PROVE  block <= lastSupplyUpdateBlockNum'[h]
        <3>1. /\ args.stateChainBlockNumber \in Nat
              /\ lastSupplyUpdateBlockNum[g] < args.stateChainBlockNumber
              /\ lastSupplyUpdateBlockNum' =
                    [lastSupplyUpdateBlockNum EXCEPT ![g] = args.stateChainBlockNumber]
            BY <2>3, UpdateBlocks
        <3> QED
            BY <1>1, <2>1, <3>1
    <2> QED
        BY <2>2, <2>3, BlockClasses
<1> QED
    BY <1>2, <1>3, <1>4

LEMMA OrderStep == SupplyInv /\ [SCGNext]_scgVars => SupplyStep
<1> SUFFICES ASSUME SupplyInv, [SCGNext]_scgVars,
                    NEW s \in Signatures, AcceptedNow(s), s.hash.sender \in Gateways,
                    s.hash.call.fn = "updateFlipSupply"
             PROVE  /\ totalSupply' = s.hash.call.args.newTotalSupply
                    /\ \A t \in Signatures :
                          /\ Used(t) /\ t.hash.sender = s.hash.sender
                          /\ t.hash.call.fn = "updateFlipSupply"
                          => t.hash.call.args.stateChainBlockNumber < s.hash.call.args.stateChainBlockNumber
    BY DEF SupplyStep
<1> USE DEF SupplyInv
<1> PICK g \in Gateways : g = s.hash.sender
    OBVIOUS
<1>1. PICK nonce \in Nonces : SignedCall(g, s, nonce)
    BY WhoAccepts
<1>2. ASSUME NEW fn, NEW args, ConsumesKeyNonce(g, s, nonce, fn, args)
      PROVE  fn = "updateFlipSupply"
    BY <1>2, SignedAs
<1>3. PICK args \in SignedArgs("updateFlipSupply") : UpdateFlipSupply(g, s, nonce, args)
    BY <1>1, <1>2 DEF SignedCall, UpdateKeyManager, SetKeyManager, RegisterRedemption, UpdateFlipIssuer
<1>4. /\ s.hash.call.args = args
      /\ args.stateChainBlockNumber \in Nat
      /\ lastSupplyUpdateBlockNum[g] < args.stateChainBlockNumber
    BY <1>3, UpdateBlocks
<1>5. totalSupply' = args.newTotalSupply
    BY <1>3, SupplyAdjusted
<1>6. ASSUME NEW t \in Signatures, Used(t), t.hash.sender = g, t.hash.call.fn = "updateFlipSupply"
      PROVE  t.hash.call.args.stateChainBlockNumber < args.stateChainBlockNumber
    <2>1. t.hash.call.args.stateChainBlockNumber <= lastSupplyUpdateBlockNum[g]
        BY <1>6 DEF BlockKnown
    <2>2. t.hash.call.args.stateChainBlockNumber \in Nat /\ lastSupplyUpdateBlockNum[g] \in Nat
        BY <1>6, UpdateSigned DEF RedemptionInv, SCGTypeOK
    <2> QED
        BY <1>4, <2>1, <2>2
<1> QED
    BY <1>4, <1>5, <1>6

\* Supply updates take effect in the order of the State Chain's blocks.
THEOREM SupplyOrdered == SCGSpec => SupplyInBlockOrder
<1>1. SCGInit => SupplyInv
    BY RedemptionInvInit DEF SCGInit, KMInit, SupplyInv, BlockKnown, Used
<1>2. SupplyInv /\ [SCGNext]_scgVars => [SupplyStep]_scgVars
    BY OrderStep
<1> QED
    BY <1>1, <1>2, SupplyInvStep, PTL DEF SCGSpec, SupplyInBlockOrder
-----------------------------------------------------------------------------
(* The supply of FLIP is what its holders hold.                            *)

\* One balance changed.
LEMMA OneBalance ==
    ASSUME NEW f \in [Addresses -> Int], NEW a \in Addresses, NEW n \in Int
    PROVE  LET g == [f EXCEPT ![a] = @ + n] IN
           /\ g \in [Addresses -> Int]
           /\ SumFunctionOnSet(f, Addresses) \in Int
           /\ SumFunctionOnSet(g, Addresses) = SumFunctionOnSet(f, Addresses) + n
<1> DEFINE g == [f EXCEPT ![a] = @ + n]
<1>1. g \in [Addresses -> Int] /\ g[a] = f[a] + n /\ f[a] \in Int
    OBVIOUS
<1>2. \A b \in Addresses : b # a => g[b] = f[b]
    OBVIOUS
<1> HIDE DEF g
<1>3. \A b \in Addresses : f[b] \in Int /\ g[b] \in Int
    BY <1>1
<1>4. SumFunctionOnSet(g, Addresses) = SumFunctionOnSet(f, Addresses) - f[a] + g[a]
    BY <1>2, <1>3, SumChange, AddressesFinite
<1>5. SumFunctionOnSet(f, Addresses) \in Int
    BY <1>3, SumByElement, AddressesFinite
<1>6. SumFunctionOnSet(g, Addresses) = SumFunctionOnSet(f, Addresses) + n
    BY <1>1, <1>4, <1>5
<1> QED
    BY <1>1, <1>5, <1>6 DEF g

\* A transfer keeps the sum, one to oneself included.
LEMMA TransferKeepsSum ==
    ASSUME FLIPTypeOK, NEW from \in Addresses, NEW to \in Addresses, NEW amount \in Nat,
           Transfer(from, to, amount)
    PROVE  SumFunctionOnSet(balanceOf', Addresses) = SumFunctionOnSet(balanceOf, Addresses)
<1> DEFINE taken == [balanceOf EXCEPT ![from] = @ + (- amount)]
<1>1. balanceOf \in [Addresses -> Int] /\ - amount \in Int
    BY DEF FLIPTypeOK
<1>2. /\ taken \in [Addresses -> Int]
      /\ SumFunctionOnSet(balanceOf, Addresses) \in Int
      /\ SumFunctionOnSet(taken, Addresses) = SumFunctionOnSet(balanceOf, Addresses) + (- amount)
    BY <1>1, OneBalance
<1>3. balanceOf[from] - amount = balanceOf[from] + (- amount)
    BY <1>1
<1>4. balanceOf' = [taken EXCEPT ![to] = @ + amount]
    BY <1>3 DEF Transfer, Passed
<1> HIDE DEF taken
<1>5. PICK n \in Int : n = amount
    OBVIOUS
<1>6. PICK h \in [Addresses -> Int] : h = taken
    BY <1>2
<1>7. SumFunctionOnSet([h EXCEPT ![to] = @ + n], Addresses) = SumFunctionOnSet(h, Addresses) + n
    BY OneBalance
<1> QED
    BY <1>2, <1>4, <1>5, <1>6, <1>7

\* What is minted and burned is held more, and less.
LEMMA IssuanceChangesSum ==
    ASSUME FLIPTypeOK, SupplyIsHeld, NEW caller, NEW account \in Addresses, NEW amount \in Nat,
           Mint(caller, account, amount) \/ Burn(caller, account, amount)
    PROVE  SupplyIsHeld'
<1>1. balanceOf \in [Addresses -> Int] /\ - amount \in Int /\ totalSupply \in Int
    BY DEF FLIPTypeOK
<1>2. CASE Mint(caller, account, amount)
    <2>1. PICK n \in Int : n = amount
        OBVIOUS
    <2>2. SumFunctionOnSet([balanceOf EXCEPT ![account] = @ + n], Addresses)
             = SumFunctionOnSet(balanceOf, Addresses) + n
        BY <1>1, OneBalance
    <2> QED
        BY <1>2, <2>1, <2>2 DEF Mint, SupplyIsHeld
<1>3. CASE Burn(caller, account, amount)
    <2>1. SumFunctionOnSet([balanceOf EXCEPT ![account] = @ + (- amount)], Addresses)
             = SumFunctionOnSet(balanceOf, Addresses) + (- amount)
        BY <1>1, OneBalance
    <2>2. balanceOf[account] - amount = balanceOf[account] + (- amount)
        BY <1>1
    <2>3. totalSupply - amount = totalSupply + (- amount)
        BY <1>1
    <2> QED
        BY <1>3, <2>1, <2>2, <2>3 DEF Burn, SupplyIsHeld
<1> QED
    BY <1>2, <1>3

\* All that can happen to the balances and to the supply.
Passes ==
    \E from, to \in Addresses, amount \in Nat :
       Transfer(from, to, amount) /\ UNCHANGED totalSupply
Issues ==
    \E caller, account \in Addresses, amount \in Nat :
       Mint(caller, account, amount) \/ Burn(caller, account, amount)
NoFlow == UNCHANGED <<balanceOf, totalSupply>>

\* The total supply is adjusted by a burn or a mint of the difference.
LEMMA AdjustFlow ==
    ASSUME FLIPTypeOK, NEW g \in Gateways, NEW new \in Nat, AdjustSupply(g, new)
    PROVE  Issues \/ NoFlow
<1>1. totalSupply \in Int /\ g \in Addresses
    BY GatewayAddresses DEF FLIPTypeOK
<1>2. CASE new < totalSupply /\ Burn(g, g, totalSupply - new)
    <2>1. totalSupply - new \in Nat
        BY <1>1, <1>2
    <2> QED
        BY <1>1, <1>2, <2>1 DEF Issues
<1>3. CASE new > totalSupply /\ Mint(g, g, new - totalSupply)
    <2>1. new - totalSupply \in Nat
        BY <1>1, <1>3
    <2> QED
        BY <1>1, <1>3, <2>1 DEF Issues
<1>4. CASE new = totalSupply /\ NoFlow
    BY <1>4
<1> QED
    BY <1>2, <1>3, <1>4 DEF AdjustSupply, NoFlow

LEMMA FlowClasses ==
    ASSUME SCGTypeOK, SCGNext
    PROVE  Passes \/ Issues \/ NoFlow
<1>1. CASE KeyManagerStep
    BY <1>1 DEF KeyManagerStep, flipVars, NoFlow
<1>2. ASSUME NEW g \in Gateways, GatewayStep(g) PROVE Passes \/ Issues \/ NoFlow
    <2>1. ASSUME NEW sig \in Signatures, NEW nonce \in Nonces, SignedCall(g, sig, nonce)
          PROVE  Issues \/ NoFlow
        <3>1. ASSUME NEW args \in SignedArgs("updateFlipSupply"),
                     UpdateFlipSupply(g, sig, nonce, args)
              PROVE  Issues \/ NoFlow
            <4>1. args.newTotalSupply \in Nat
                BY SupplyUpdateAssumption
            <4>2. AdjustSupply(g, args.newTotalSupply) /\ FLIPTypeOK
                BY <3>1 DEF UpdateFlipSupply, SCGTypeOK
            <4> QED
                BY <4>1, <4>2, AdjustFlow
        <3> QED
            BY <2>1, <3>1 DEF SignedCall, UpdateKeyManager, RegisterRedemption, UpdateFlipIssuer,
                              flipVars, NoFlow
    <2>2. ASSUME NEW caller \in Accounts, NEW n \in NodeIDs, NEW amount \in Amounts,
                 FundStateChainAccount(g, caller, n, amount)
          PROVE  Passes
        <3>1. caller \in Addresses /\ g \in Addresses /\ amount \in Nat
            BY GatewayAddresses, GatewayAssumption
        <3>2. Transfer(caller, g, amount) /\ UNCHANGED totalSupply
            BY <2>2 DEF FundStateChainAccount
        <3> QED
            BY <3>1, <3>2 DEF Passes
    <2>3. ASSUME NEW caller \in Accounts, NEW n \in NodeIDs, ExecuteRedemption(g, caller, n)
          PROVE  Passes \/ NoFlow
        <3>1. PICK r \in Redemption : r = pendingRedemptions[g][n]
            BY DEF SCGTypeOK
        <3>2. r.redeemAddress \in Addresses /\ r.amount \in Nat /\ g \in Addresses
            BY GatewayAddresses DEF Redemption
        <3>3. CASE PayRedemption(g, caller, n)
            <4>1. Transfer(g, r.redeemAddress, r.amount) /\ UNCHANGED totalSupply
                BY <2>3, <3>1, <3>3 DEF PayRedemption, ExecuteRedemption
            <4> QED
                BY <3>2, <4>1 DEF Passes
        <3>4. CASE ExpireRedemption(g, n)
            BY <2>3, <3>4 DEF ExecuteRedemption, ExpireRedemption, NoFlow
        <3> QED
            BY <2>3, <3>3, <3>4 DEF ExecuteRedemption
    <2>4. ASSUME NEW caller \in Accounts, GovWithdraw(g, caller)
          PROVE  Passes
        <3>1. PICK to \in Addresses : to = GetGovernor(g)
            BY GatewayAddresses DEF GetGovernor, SCGTypeOK, AggKeyNonceConsumerTypeOK, KMTypeOK
        <3>2. PICK amount \in Nat : amount = balanceOf[g]
            BY GatewayAddresses DEF SCGTypeOK, FLIPTypeOK
        <3>3. Transfer(g, to, amount) /\ UNCHANGED totalSupply
            BY <2>4, <3>1, <3>2 DEF GovWithdraw
        <3> QED
            BY <3>3, GatewayAddresses DEF Passes
    <2>5. CASE \E k \in HomeKeyManagers, amount \in Amounts : DeployGateway(g, k, amount)
        BY <2>5 DEF DeployGateway, flipVars, NoFlow
    <2>6. CASE GuardGateway(g)
        BY <2>6 DEF GuardGateway, flipVars, NoFlow
    <2>7. ASSUME NEW caller \in Accounts, GovernedCall(g, caller)
          PROVE  Passes \/ NoFlow
        BY <2>4, <2>7 DEF GovernedCall, SetMinFunding, GovUpdateFlipIssuer, flipVars, NoFlow
    <2> QED
        BY <1>2, <2>1, <2>2, <2>3, <2>5, <2>6, <2>7 DEF GatewayStep
<1>3. ASSUME NEW caller \in Accounts, UseFlip(caller) PROVE Passes \/ Issues \/ NoFlow
    <2>1. PICK a \in Holders, amount \in Amounts :
             \/ Transfer(caller, a, amount) /\ UNCHANGED totalSupply
             \/ Mint(caller, a, amount)
             \/ Burn(caller, a, amount)
             \/ UNCHANGED <<balanceOf, totalSupply>>
        BY <1>3 DEF UseFlip
    <2>2. a \in Addresses /\ amount \in Nat /\ caller \in Addresses
        BY GatewayAssumption, GatewayAddresses
    <2> QED
        BY <2>1, <2>2 DEF Passes, Issues, NoFlow
<1> QED
    BY <1>1, <1>2, <1>3 DEF SCGNext

LEMMA HeldStep == SCGTypeOK /\ SupplyIsHeld /\ [SCGNext]_scgVars => SupplyIsHeld'
<1> SUFFICES ASSUME SCGTypeOK, SupplyIsHeld, [SCGNext]_scgVars PROVE SupplyIsHeld'
    OBVIOUS
<1>1. FLIPTypeOK
    BY DEF SCGTypeOK
<1>2. CASE NoFlow \/ UNCHANGED scgVars
    BY <1>2 DEF NoFlow, scgVars, flipVars, SupplyIsHeld
<1>3. CASE Passes
    BY <1>1, <1>3, TransferKeepsSum DEF Passes, SupplyIsHeld
<1>4. CASE Issues
    BY <1>1, <1>4, IssuanceChangesSum DEF Issues
<1> QED
    BY <1>2, <1>3, <1>4, FlowClasses

\* The two mints of the constructor make up the initial supply.
LEMMA HeldInit == SCGInit => SupplyIsHeld
<1> SUFFICES ASSUME SCGInit PROVE SupplyIsHeld
    OBVIOUS
<1> DEFINE none == [a \in Addresses |-> 0]
           to == govKey[GenesisKM]
           rest == InitSupply - GenesisFundedFlip
           staked == [none EXCEPT ![GenesisGateway] = @ + GenesisFundedFlip]
           both == [staked EXCEPT ![to] = @ + rest]
<1>1. /\ GenesisFundedFlip \in Int /\ rest \in Int /\ InitSupply \in Int
      /\ GenesisFundedFlip + rest = InitSupply
    BY SupplyAssumption
<1>2. GenesisGateway \in Addresses /\ to \in Addresses
    BY NonceInvInit, GatewayAddresses, GatewayAssumption
       DEF SCGInit, NonceInv, KMTypeOK
<1>3. none \in [Addresses -> Int] /\ SumFunctionOnSet(none, Addresses) = 0
    BY SumOfZeros, AddressesFinite
<1> HIDE DEF none, to, rest
<1>4. /\ staked \in [Addresses -> Int]
      /\ SumFunctionOnSet(staked, Addresses) = 0 + GenesisFundedFlip
    BY <1>1, <1>2, <1>3, OneBalance
<1> HIDE DEF staked
<1>5. SumFunctionOnSet(both, Addresses) = 0 + GenesisFundedFlip + rest
    <2>1. PICK h \in [Addresses -> Int] : h = staked
        BY <1>4
    <2>2. LET g == [h EXCEPT ![to] = @ + rest] IN
          SumFunctionOnSet(g, Addresses) = SumFunctionOnSet(h, Addresses) + rest
        BY <1>1, <1>2, OneBalance
    <2> QED
        BY <1>4, <2>1, <2>2
<1>6. balanceOf = both
    <2>1. ASSUME NEW a \in Addresses
          PROVE  both[a] = (IF a = GenesisGateway THEN GenesisFundedFlip ELSE 0)
                              + (IF a = to THEN rest ELSE 0)
        <3>1. staked[a] = IF a = GenesisGateway THEN GenesisFundedFlip ELSE 0
            BY <1>1 DEF staked, none
        <3>2. both[a] = IF a = to THEN staked[a] + rest ELSE staked[a]
            BY <1>4
        <3> QED
            BY <1>1, <3>1, <3>2
    <2>2. balanceOf = [a \in Addresses |->
                         (IF a = GenesisGateway THEN GenesisFundedFlip ELSE 0)
                            + (IF a = to THEN rest ELSE 0)]
        BY DEF SCGInit, FLIPInit, to, rest
    <2>3. both = [a \in Addresses |-> both[a]]
        BY <1>4
    <2> HIDE DEF both
    <2> QED
        BY <2>1, <2>2, <2>3
<1>7. totalSupply = InitSupply
    BY DEF SCGInit, FLIPInit
<1> HIDE DEF both
<1> QED
    BY <1>1, <1>5, <1>6, <1>7 DEF SupplyIsHeld

\* The total supply is what all addresses hold, whoever becomes the issuer.
THEOREM NoInflation == SCGSpec => []SupplyIsHeld
BY HeldInit, HeldStep, GatewayTypeCorrect, PTL DEF SCGSpec

\* What ERC20 leaves unchecked is right: the total supply is no negative
\* number, and no balance exceeds it.
BalancesFit == totalSupply \in Nat /\ \A a \in Addresses : balanceOf[a] <= totalSupply

LEMMA HeldFits == SCGTypeOK /\ SupplyIsHeld => BalancesFit
<1> SUFFICES ASSUME SCGTypeOK, SupplyIsHeld PROVE BalancesFit
    OBVIOUS
<1>1. \A a \in Addresses : balanceOf[a] \in Nat
    BY DEF SCGTypeOK, FLIPTypeOK
<1>2. SumFunctionOnSet(balanceOf, Addresses) \in Nat
    BY <1>1, SumType, AddressesFinite
<1>3. ASSUME NEW a \in Addresses PROVE balanceOf[a] <= SumFunctionOnSet(balanceOf, Addresses)
    <2> DEFINE others == SumFunctionOnSet(balanceOf, Addresses \ {a})
    <2>1. IsFiniteSet(Addresses \ {a})
        BY AddressesFinite, FS_RemoveElement
    <2>2. others \in Nat
        BY <1>1, <2>1, SumType
    <2>3. SumFunctionOnSet(balanceOf, Addresses) = balanceOf[a] + others
        BY <1>1, SumByElement, AddressesFinite
    <2> HIDE DEF others
    <2> QED
        BY <1>1, <2>2, <2>3
<1> QED
    BY <1>2, <1>3 DEF SupplyIsHeld, BalancesFit

\* In every state no holder has more FLIP than there is, and there is no
\* negative supply: the unchecked arithmetic of ERC20 neither wraps around in
\* _mint and _transfer nor in _burn.
THEOREM UncheckedIsSafe == SCGSpec => []BalancesFit
BY HeldFits, NoInflation, GatewayTypeCorrect, PTL
=============================================================================
