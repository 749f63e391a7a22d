----------------------------- MODULE Vault_proofs -----------------------------
(***************************************************************************)
(* Proofs about the Vault for any number of assets, Deposits, receivers,   *)
(* signatures and KeyManagers, and for batches and runs of any length.     *)
(*                                                                         *)
(* Whatever the Vault does to a KeyManager is a step of that KeyManager    *)
(* (VaultSimulation), so a signature is accepted once.  Every other step   *)
(* is of one of few classes (VaultStepClasses): the Vault gains what is    *)
(* recorded as received; it pays what a signature orders, less what is     *)
(* recorded as failed; a signature is accepted that orders nothing; or the *)
(* governor withdraws.  VaultInv is inductive: besides the properties it   *)
(* says that no allowance outlasts a call, that only signatures which were *)
(* accepted have failures on record, and that there are finitely many of   *)
(* those, so that their orders can be summed.                              *)
(***************************************************************************)
EXTENDS Vault, KeyManager_proofs, SumLemmas

\* Code that is running.
Frames == [code : {"receiver"}, at : Receivers] \cup [code : {"multicall"}, todo : Seq(Calls)]

UsedSignatures == {s \in Signatures : Used(s)}
SwapsTo(r) == {s \in Signatures : Used(s) /\ SwapTo(s, r)}

\* At most one run of the Multicall is going on, and it is going on if and
\* only if the contract says so.
OneRun(st, running) ==
    /\ \A i, j \in DOMAIN st : st[i].code = "multicall" /\ st[j].code = "multicall" => i = j
    /\ running <=> \E i \in DOMAIN st : st[i].code = "multicall"

\* An allowance is used up in the call it is given for, or taken back.
NothingAllowed == \A t \in Tokens : allowance[t] = 0

\* Only what was accepted can have failed, and a swap fails with its transaction.
FailuresOfUsed ==
    \A s \in Signatures : failures[s] # {} =>
        Used(s) /\ s.hash.call.fn # "executexSwapAndCall"

VaultInv ==
    /\ VaultTypeOK
    /\ NonceInv
    /\ IsFiniteSet(UsedSignatures)
    /\ FailuresOfUsed
    /\ NothingAllowed
    /\ OneRun(stack, isRunning)
    /\ EventsAccount
    /\ ReceiverNotFooled
-----------------------------------------------------------------------------
LEMMA VaultAddresses ==
    /\ TheVault \in NonceConsumers
    /\ HomeKeyManagers \subseteq KeyManagers
    /\ GenesisKM \in HomeKeyManagers
    /\ Addresses \subseteq Parties /\ DepositContracts \subseteq Parties
    /\ Accounts \cup Receivers \cup Users \subseteq Addresses \ {TheVault}
    /\ TheVault \in Addresses /\ TheVault \notin DepositContracts
    /\ TheMulticall \in Addresses \ ({TheVault} \cup Accounts \cup Receivers)
    /\ {TheScUtils, SC_GATEWAY} \subseteq Addresses \ ({TheVault, TheMulticall} \cup Accounts \cup Receivers)
    /\ Destinations \subseteq Parties
    /\ CFReceivers \subseteq Receivers
    /\ FLIP \in Tokens /\ Tokens \subseteq Assets /\ NATIVE \in Assets /\ NATIVE \notin Tokens
    /\ Payments \subseteq Nat
BY AddressAssumption, InstanceAssumption, HomeAssumption, AssetAssumption, ReceiverAssumption,
   CFReceiverAssumption, ScUtilsAssumption, VaultAssumption
   DEF Parties, Assets, HomeKeyManagers

LEMMA DepositsFinite ==
    /\ IsFiniteSet(DepositContracts)
    /\ \A d \in DepositContracts : d = <<d[1], d[2]>> /\ d[1] \in SwapIDs /\ d[2] \in Assets
<1>1. IsFiniteSet(Assets)
    BY AssetAssumption, FS_AddElement DEF Assets
<1> QED
    BY <1>1, AssetAssumption, FS_Product DEF DepositContracts
-----------------------------------------------------------------------------
\* A function that acts on a signature calls consumeKeyNonce, and the call
\* that was signed is the one that is made.
LEMMA ConsumesIsNonceUse ==
    ASSUME AggKeyNonceConsumerTypeOK, NEW sig \in Signatures,
           NEW nonce \in Nonces, NEW fn, NEW args, ConsumesKeyNonce(TheVault, sig, nonce, fn, args)
    PROVE  /\ NonceUse(keyManager[TheVault], Accounts \cup NonceConsumers)
           /\ keyManager[TheVault] \in KeyManagers
           /\ Accepts(keyManager[TheVault], sig)
           /\ sig.hash.call.fn = fn /\ sig.hash.call.args = args
           /\ args \in SignedArgs(fn)
<1> DEFINE call == [fn |-> fn, args |-> args]
<1>1. keyManager[TheVault] \in KeyManagers
    BY VaultAddresses DEF AggKeyNonceConsumerTypeOK
<1>2. ConsumeKeyNonce(keyManager[TheVault], TheVault, sig, nonce, call)
    BY DEF ConsumesKeyNonce
<1>3. sig.hash.call = call
    BY <1>2 DEF ConsumeKeyNonce, AcceptSignature, VerifySignature, MsgHash
<1>4. call \in ContractMsgHashes
    BY <1>3 DEF ContractMsgHashes
<1>5. NonceUse(keyManager[TheVault], Accounts \cup NonceConsumers)
    BY <1>2, <1>4, VaultAddresses DEF NonceUse
<1>6. Accepts(keyManager[TheVault], sig)
    BY <1>2 DEF ConsumeKeyNonce, Accepts
<1> QED
    BY <1>1, <1>3, <1>4, <1>5, <1>6 DEF SignedArgs

\* What a call that acts on a signature leaves alone.
LEMMA SubmitSigned ==
    ASSUME NEW sig, NEW nonce, NEW args, Submit(sig, nonce, args)
    PROVE  \E fn : Authorised(sig, nonce, fn, args)
BY DEF Submit, AllBatch, AllBatchV2, Transfer, TransferBatch, DeployAndFetchBatch, FetchBatch,
       TransferFallback, ExecutexSwapAndCall, ExecutexCall, ExecuteActions,
       ActionsSucceed, ActionsFail

\* The steps of the Vault as far as its KeyManager can see.
LEMMA SimulationStep ==
    ASSUME AggKeyNonceConsumerTypeOK, [VaultNext]_vaultVars
    PROVE  [KMNext]_kmVars /\ AggKeyNonceConsumerTypeOK'
<1> USE DEF AggKeyNonceConsumerTypeOK
<1>1. CASE UNCHANGED vaultVars
    BY <1>1 DEF vaultVars
<1>2. ASSUME NEW sig \in Signatures, NEW nonce \in Nonces, SubmitUpgrade(sig, nonce)
      PROVE  [KMNext]_kmVars /\ AggKeyNonceConsumerTypeOK'
    <2>1. PICK k \in HomeKeyManagers, omitChecks \in BOOLEAN :
             UpdateKeyManager(sig, nonce, k, omitChecks)
        BY <1>2 DEF SubmitUpgrade
    <2>2. \E fn, args : ConsumesKeyNonce(TheVault, sig, nonce, fn, args)
        BY <2>1 DEF UpdateKeyManager, SetKeyManager
    <2>3. AggKeyNonceConsumerTypeOK'
        BY <2>1 DEF UpdateKeyManager, SetKeyManager
    <2> QED
        BY <2>2, <2>3, ConsumesIsNonceUse DEF KMNext
<1>3. ASSUME NEW sig \in Signatures, NEW nonce \in Nonces, NEW args, Submit(sig, nonce, args)
      PROVE  [KMNext]_kmVars /\ AggKeyNonceConsumerTypeOK'
    <2>1. PICK fn : Authorised(sig, nonce, fn, args)
        BY <1>3, SubmitSigned
    <2> QED
        BY <2>1, ConsumesIsNonceUse DEF Authorised, KMNext
<1>4. CASE \E caller \in Users \cup Receivers, a \in Assets, n \in Payments :
              PayIn(caller, a, n) \/ \E d \in DepositContracts : PayDeposit(caller, d, a, n)
    BY <1>4 DEF PayIn, PayDeposit
<1>5. CASE UNCHANGED <<kmVars, keyManager>>
    BY <1>5
<1>6. CASE \E caller \in Accounts : GovWithdraw(caller)
    BY <1>6 DEF GovWithdraw
<1>7. CASE (Tick \/ \E k \in HomeKeyManagers : KeyUpdate(k)) /\ UNCHANGED keyManager
    BY <1>7, VaultAddresses DEF KMNext
<1> QED
    BY <1>1, <1>2, <1>3, <1>4, <1>5, <1>6, <1>7 DEF VaultNext

LEMMA ReferenceInit == VaultInit => AggKeyNonceConsumerTypeOK
BY HomeAssumption DEF VaultInit, AggKeyNonceConsumerInit, AggKeyNonceConsumerTypeOK

\* The Vault, its receivers and governance only do to KeyManagers what KMSpec allows.
THEOREM VaultSimulation == VaultSpec => KMSpec
<1>1. VaultSpec => []AggKeyNonceConsumerTypeOK
    BY ReferenceInit, SimulationStep, PTL DEF VaultSpec
<1>2. VaultInit => KMInit
    BY DEF VaultInit
<1> QED
    BY <1>1, <1>2, SimulationStep, PTL DEF VaultSpec, KMSpec

\* So no signature over a payment, a batch or a run is accepted twice.
THEOREM VaultNoReplay == VaultSpec => []AcceptedAtMostOnce
BY VaultSimulation, NoReplay, PTL
-----------------------------------------------------------------------------
(* What moves funds keeps them numbers; and what it does to those of the Vault. *)

Holdings == [Assets -> [Parties -> Nat]]

LEMMA MovedFunds ==
    ASSUME NEW f \in Holdings, NEW a \in Assets, NEW from \in Parties, NEW to \in Parties,
           NEW n \in Nat, CanPay(f, a, from, n)
    PROVE  /\ Moved(f, a, from, to, n) \in Holdings
           /\ \A b \in Assets, p \in Parties : Moved(f, a, from, to, n)[b][p] =
                 IF b # a THEN f[b][p]
                 ELSE f[b][p] - (IF p = from THEN n ELSE 0) + (IF p = to THEN n ELSE 0)
<1> DEFINE g == [f EXCEPT ![a][from] = @ - n]
           h == [g EXCEPT ![a][to] = @ + n]
<1>1. Moved(f, a, from, to, n) = h
    BY DEF Moved
<1>2. /\ g \in Holdings
      /\ \A b \in Assets, p \in Parties :
            g[b][p] = IF b = a /\ p = from THEN f[b][p] - n ELSE f[b][p]
    BY DEF Holdings, CanPay
<1> HIDE DEF g
<1>3. /\ h \in Holdings
      /\ \A b \in Assets, p \in Parties :
            h[b][p] = IF b = a /\ p = to THEN g[b][p] + n ELSE g[b][p]
    BY <1>2 DEF Holdings
<1> HIDE DEF h
<1>4. ASSUME NEW b \in Assets, NEW p \in Parties
      PROVE  h[b][p] = IF b # a THEN f[b][p]
                 ELSE f[b][p] - (IF p = from THEN n ELSE 0) + (IF p = to THEN n ELSE 0)
    <2>1. f[b][p] \in Nat
        BY DEF Holdings
    <2> QED
        BY <1>2, <1>3, <2>1
<1> QED
    BY <1>1, <1>3, <1>4

\* Who has the asset swept from it.
SweptFrom(S, a) == {d \in DepositContracts : <<d, a>> \in S}

LEMMA SweptFunds ==
    ASSUME NEW f \in Holdings, NEW S
    PROVE  /\ Swept(f, S) \in Holdings
           /\ \A a \in Assets :
                 /\ SumFunctionOnSet(f[a], SweptFrom(S, a)) \in Nat
                 /\ Swept(f, S)[a][TheVault] = f[a][TheVault] + SumFunctionOnSet(f[a], SweptFrom(S, a))
                 /\ \A p \in Parties \ {TheVault} :
                       Swept(f, S)[a][p] = IF p \in SweptFrom(S, a) THEN 0 ELSE f[a][p]
<1>1. ASSUME NEW a \in Assets PROVE SumFunctionOnSet(f[a], SweptFrom(S, a)) \in Nat
    <2>1. IsFiniteSet(SweptFrom(S, a)) /\ SweptFrom(S, a) \subseteq Parties
        BY DepositsFinite, FS_Subset, VaultAddresses DEF SweptFrom
    <2>2. \A d \in SweptFrom(S, a) : f[a][d] \in Nat
        BY <2>1 DEF Holdings
    <2> QED
        BY <2>1, <2>2, SumType
<1>2. ASSUME NEW a \in Assets, NEW p \in Parties
      PROVE  Swept(f, S)[a][p] =
                IF p \in SweptFrom(S, a) THEN 0
                ELSE IF p = TheVault THEN f[a][p] + SumFunctionOnSet(f[a], SweptFrom(S, a))
                ELSE f[a][p]
    BY DEF Swept, SweptFrom
<1>3. \A a \in Assets : TheVault \notin SweptFrom(S, a)
    BY VaultAddresses DEF SweptFrom
<1>4. Swept(f, S) = [a \in Assets |-> [p \in Parties |-> Swept(f, S)[a][p]]]
    BY DEF Swept
<1>5. ASSUME NEW a \in Assets, NEW p \in Parties PROVE Swept(f, S)[a][p] \in Nat
    BY <1>1, <1>2 DEF Holdings
<1>6. Swept(f, S) \in Holdings
    BY <1>4, <1>5 DEF Holdings
<1>7. TheVault \in Parties
    BY VaultAddresses
<1> QED
    BY <1>1, <1>2, <1>3, <1>6, <1>7

\* Native tokens that are received: a Deposit may pass them on to the Vault.
LEMMA ReceivedFunds ==
    ASSUME NEW f \in Holdings, NEW to \in Parties, NEW n \in Nat
    PROVE  /\ Received(f, to, n) \in Holdings
           /\ \A a \in Assets : Received(f, to, n)[a][TheVault] >= f[a][TheVault]
           /\ to = TheVault =>
                 Received(f, to, n)[NATIVE][TheVault] >= f[NATIVE][TheVault] + n
           /\ \A a \in Assets, p \in Addresses \ {TheVault, to} : Received(f, to, n)[a][p] = f[a][p]
<1> DEFINE g == [f EXCEPT ![NATIVE][to] = @ + n]
<1>1. /\ g \in Holdings
      /\ \A a \in Assets, p \in Parties :
            g[a][p] = IF a = NATIVE /\ p = to THEN f[a][p] + n ELSE f[a][p]
    BY VaultAddresses DEF Holdings
<1>2. Received(f, to, n) = IF to \in deposits THEN Swept(g, {<<to, NATIVE>>}) ELSE g
    BY DEF Received
<1> HIDE DEF g
<1>3. TheVault \in Parties /\ \A p \in Addresses : p \in Parties /\ p \notin DepositContracts
    BY VaultAddresses, AssetAssumption
<1>4. /\ \A a \in Assets : g[a][TheVault] >= f[a][TheVault]
      /\ to = TheVault => g[NATIVE][TheVault] >= f[NATIVE][TheVault] + n
      /\ \A a \in Assets, p \in Addresses \ {TheVault, to} : g[a][p] = f[a][p]
    <2>1. \A a \in Assets : f[a][TheVault] \in Nat
        BY <1>3 DEF Holdings
    <2> QED
        BY <1>1, <1>3, <2>1, VaultAddresses
<1>5. CASE to \notin deposits
    BY <1>1, <1>2, <1>4, <1>5
<1>6. CASE to \in deposits
    <2> DEFINE S == {<<to, NATIVE>>}
               h == Swept(g, S)
    <2>0. Received(f, to, n) = h
        BY <1>2, <1>6
    <2> HIDE DEF S
    <2>1. /\ h \in Holdings
          /\ \A a \in Assets : h[a][TheVault] >= g[a][TheVault]
          /\ \A a \in Assets, p \in Addresses \ {TheVault} : h[a][p] = g[a][p]
        <3>1. ASSUME NEW a \in Assets
              PROVE  /\ h \in Holdings
                     /\ h[a][TheVault] >= g[a][TheVault]
                     /\ \A p \in Addresses \ {TheVault} : h[a][p] = g[a][p]
            <4> DEFINE from == SweptFrom(S, a)
                       m == SumFunctionOnSet(g[a], from)
            <4>1. /\ h \in Holdings /\ m \in Nat
                  /\ h[a][TheVault] = g[a][TheVault] + m
                  /\ \A p \in Parties \ {TheVault} : h[a][p] = IF p \in from THEN 0 ELSE g[a][p]
                BY <1>1, SweptFunds
            <4>2. \A p \in Addresses : p \notin from
                BY <1>3 DEF SweptFrom
            <4>3. g[a][TheVault] \in Nat
                BY <1>1, <1>3 DEF Holdings
            <4> HIDE DEF h, from, m
            <4> QED
                BY <1>3, <4>1, <4>2, <4>3
        <3> HIDE DEF h
        <3>2. h \in Holdings
            BY <3>1, VaultAddresses
        <3> QED
            BY <3>1, <3>2
    <2> HIDE DEF h
    <2>2. \A a \in Assets : f[a][TheVault] \in Nat /\ g[a][TheVault] \in Nat /\ h[a][TheVault] \in Nat
        BY <1>1, <1>3, <2>1 DEF Holdings
    <2> QED
        BY <1>4, <2>0, <2>1, <2>2, VaultAddresses
<1> QED
    BY <1>5, <1>6
-----------------------------------------------------------------------------
(* Batches: the state after each transfer is a recursive function, which   *)
(* exists by induction on its domain.                                      *)

Payment == [token : Assets, recipient : Parties, amount : Nat]

AfterTransfer(before, i, transfers, refused, existing) ==
    IF i \notin refused /\ Succeeds(before.funds, transfers[i], existing)
    THEN [before EXCEPT !.funds = Paid(@, transfers[i])]
    ELSE [before EXCEPT !.failed = @ \cup {i}]

\* g says how things are after each of the first m transfers.
Batching(g, m, f, transfers, refused, existing) ==
    g = [i \in 0..m |->
            IF i = 0 THEN [funds |-> f, failed |-> {}]
            ELSE AfterTransfer(g[i - 1], i, transfers, refused, existing)]

LEMMA BatchIs ==
    ASSUME NEW f, NEW transfers, NEW refused, NEW existing
    PROVE  TransferBatchFrom(f, transfers, refused, existing)
              = (CHOOSE g : Batching(g, Len(transfers), f, transfers, refused, existing))[Len(transfers)]
BY DEF TransferBatchFrom, Batching, AfterTransfer

LEMMA BatchExists ==
    ASSUME NEW f, NEW transfers, NEW refused, NEW existing
    PROVE  \A m \in Nat : \E g : Batching(g, m, f, transfers, refused, existing)
<1> DEFINE After(before, i) == AfterTransfer(before, i, transfers, refused, existing)
           At(g, i) == IF i = 0 THEN [funds |-> f, failed |-> {}] ELSE After(g[i - 1], i)
           Good == {m \in Nat : \E g : g = [i \in 0..m |-> At(g, i)]}
<1>1. 0 \in Good
    <2> DEFINE g == [i \in {0} |-> At([j \in {} |-> 0], i)]
    <2>1. g = [i \in 0..0 |-> At(g, i)]
        <3>1. 0..0 = {0}
            OBVIOUS
        <3>2. \A i \in {0} : At(g, i) = At([j \in {} |-> 0], i)
            OBVIOUS
        <3> QED
            BY <3>1, <3>2
    <2> HIDE DEF g, At
    <2> QED
        BY <2>1
<1>2. ASSUME NEW m \in Nat, m \in Good PROVE m + 1 \in Good
    <2>1. PICK g : g = [i \in 0..m |-> At(g, i)]
        BY <1>2
    <2> DEFINE h == [i \in 0..(m + 1) |-> IF i = m + 1 THEN After(g[m], m + 1) ELSE g[i]]
    <2>2. ASSUME NEW i \in 0..(m + 1) PROVE h[i] = At(h, i)
        <3>1. CASE i = m + 1
            <4>1. i # 0 /\ i - 1 = m /\ m \in 0..(m + 1) /\ m # m + 1
                BY <3>1
            <4>2. h[i] = After(g[m], m + 1) /\ h[m] = g[m]
                BY <3>1, <4>1
            <4> HIDE DEF h, After
            <4> QED
                BY <3>1, <4>1, <4>2
        <3>2. CASE i # m + 1 /\ i # 0
            <4>1. i \in 0..m /\ i - 1 \in 0..(m + 1) /\ i - 1 # m + 1
                BY <3>2
            <4>2. h[i] = g[i] /\ h[i - 1] = g[i - 1]
                BY <3>2, <4>1
            <4>3. g[i] = After(g[i - 1], i)
                <5> HIDE DEF After
                <5> QED
                    BY <2>1, <3>2, <4>1
            <4> HIDE DEF h, After
            <4> QED
                BY <3>2, <4>2, <4>3
        <3>3. CASE i = 0
            <4>1. i \in 0..m /\ i # m + 1
                BY <3>3
            <4>2. h[i] = g[i]
                BY <4>1
            <4>3. g[i] = At(g, i)
                <5> HIDE DEF At
                <5> QED
                    BY <2>1, <4>1
            <4> HIDE DEF h, After
            <4> QED
                BY <3>3, <4>2, <4>3
        <3> QED
            BY <3>1, <3>2, <3>3
    <2>3. h = [i \in 0..(m + 1) |-> h[i]]
        OBVIOUS
    <2> HIDE DEF h, At
    <2>4. h = [i \in 0..(m + 1) |-> At(h, i)]
        BY <2>2, <2>3
    <2> QED
        BY <2>4
<1>3. \A m \in Nat : m \in Good => m + 1 \in Good
    BY <1>2
<1>4. Nat \subseteq Good
    <2> HIDE DEF Good
    <2> QED
        BY <1>1, <1>3, NumberInduction
<1> QED
    BY <1>4 DEF Batching

Amounts(transfers) == [i \in DOMAIN transfers |-> transfers[i].amount]

\* Of the first n transfers, those of the asset that took it out of the Vault.
MadeOf(transfers, n, failed, a) ==
    {i \in DOMAIN transfers :
        i <= n /\ transfers[i].token = a /\ transfers[i].recipient # TheVault /\ i \notin failed}

\* What is known of a batch after its first n transfers.
BatchFine(r, n, f, transfers, refused, existing) ==
    /\ r \in [funds : Holdings, failed : SUBSET (1..n)]
    /\ \A a \in Assets :
          r.funds[a][TheVault] + SumFunctionOnSet(Amounts(transfers), MadeOf(transfers, n, r.failed, a))
             = f[a][TheVault]
    /\ \A i \in r.failed :
          \/ i \in refused
          \/ transfers[i].token = NATIVE /\ transfers[i].recipient \in existing
          \/ transfers[i].amount > r.funds[transfers[i].token][TheVault]

LEMMA PaymentAt ==
    ASSUME NEW transfers \in Seq(Payment), NEW i \in DOMAIN transfers
    PROVE  /\ transfers[i] \in Payment
           /\ transfers[i].token \in Assets /\ transfers[i].recipient \in Parties
           /\ transfers[i].amount \in Nat
<1>1. transfers[i] \in Payment
    OBVIOUS
<1> QED
    BY <1>1 DEF Payment

\* A payment by the Vault.
LEMMA PaidFunds ==
    ASSUME NEW f \in Holdings, NEW p \in Payment, CanPay(f, p.token, TheVault, p.amount)
    PROVE  /\ Paid(f, p) \in Holdings
           /\ \A a \in Assets : Paid(f, p)[a][TheVault] =
                 IF a = p.token /\ p.recipient # TheVault
                 THEN f[a][TheVault] - p.amount ELSE f[a][TheVault]
           /\ \A a \in Assets, q \in Parties \ {TheVault} : Paid(f, p)[a][q] =
                 IF a = p.token /\ q = p.recipient THEN f[a][q] + p.amount ELSE f[a][q]
<1>1. PICK a \in Assets, to \in Parties, n \in Nat :
         a = p.token /\ to = p.recipient /\ n = p.amount
    BY DEF Payment
<1>2. Paid(f, p) = Moved(f, a, TheVault, to, n) /\ CanPay(f, a, TheVault, n)
    BY <1>1 DEF Paid
<1>3. TheVault \in Parties
    BY VaultAddresses
<1> DEFINE g == Moved(f, a, TheVault, to, n)
<1>4. /\ g \in Holdings
      /\ \A b \in Assets, q \in Parties : g[b][q] =
            IF b # a THEN f[b][q]
            ELSE f[b][q] - (IF q = TheVault THEN n ELSE 0) + (IF q = to THEN n ELSE 0)
    BY <1>2, <1>3, MovedFunds
<1> HIDE DEF g
<1>5. ASSUME NEW b \in Assets, NEW q \in Parties
      PROVE  /\ g[b][TheVault] = IF b = a /\ to # TheVault THEN f[b][TheVault] - n ELSE f[b][TheVault]
             /\ q # TheVault => g[b][q] = IF b = a /\ q = to THEN f[b][q] + n ELSE f[b][q]
    <2>1. f[b][TheVault] \in Nat /\ f[b][q] \in Nat
        BY <1>3 DEF Holdings
    <2> QED
        BY <1>3, <1>4, <2>1
<1> QED
    BY <1>1, <1>2, <1>4, <1>5 DEF g

\* What a party can pay, taken from its balance.
LEMMA DrawnFunds ==
    ASSUME NEW f \in Holdings, NEW b \in Assets, NEW q \in Parties, NEW n \in Nat,
           CanPay(f, b, q, n)
    PROVE  LET g == [f EXCEPT ![b][q] = @ - n] IN
           /\ g \in Holdings
           /\ \A a \in Assets : g[a][q] = IF a = b THEN f[a][q] - n ELSE f[a][q]
<1>1. /\ f \in [Assets -> [Parties -> Nat]] /\ f[b][q] \in Nat /\ f[b][q] - n \in Nat
      /\ f[b] \in [Parties -> Nat]
    BY DEF Holdings, CanPay
<1> DEFINE less == [f[b] EXCEPT ![q] = @ - n]
           g == [f EXCEPT ![b] = less]
<1>2. less \in [Parties -> Nat] /\ less[q] = f[b][q] - n
    BY <1>1
<1>3. [f EXCEPT ![b][q] = @ - n] = g
    OBVIOUS
<1> HIDE DEF less
<1>4. g \in [Assets -> [Parties -> Nat]] /\ \A a \in Assets : g[a] = IF a = b THEN less ELSE f[a]
    BY <1>1, <1>2
<1> HIDE DEF g
<1> QED
    BY <1>2, <1>3, <1>4 DEF Holdings

LEMMA MadeFinite ==
    ASSUME NEW transfers \in Seq(Payment), NEW n, NEW failed, NEW a
    PROVE  /\ IsFiniteSet(MadeOf(transfers, n, failed, a))
           /\ \A i \in MadeOf(transfers, n, failed, a) : Amounts(transfers)[i] \in Nat
           /\ SumFunctionOnSet(Amounts(transfers), MadeOf(transfers, n, failed, a)) \in Nat
<1>1. DOMAIN transfers = 1..Len(transfers) /\ Len(transfers) \in Nat
    OBVIOUS
<1>2. IsFiniteSet(DOMAIN transfers)
    BY <1>1, FS_Interval
<1>3. MadeOf(transfers, n, failed, a) \subseteq DOMAIN transfers
    BY DEF MadeOf
<1>4. \A i \in DOMAIN transfers : Amounts(transfers)[i] \in Nat
    BY PaymentAt DEF Amounts
<1>5. IsFiniteSet(MadeOf(transfers, n, failed, a))
    BY <1>2, <1>3, FS_Subset
<1>6. \A i \in MadeOf(transfers, n, failed, a) : Amounts(transfers)[i] \in Nat
    BY <1>3, <1>4
<1> QED
    BY <1>5, <1>6, SumType

\* A transfer that is made.
LEMMA MadeStep ==
    ASSUME NEW f \in Holdings, NEW transfers \in Seq(Payment), NEW refused, NEW existing,
           NEW n \in Nat, n + 1 \in DOMAIN transfers, NEW before,
           BatchFine(before, n, f, transfers, refused, existing),
           Succeeds(before.funds, transfers[n + 1], existing)
    PROVE  BatchFine([before EXCEPT !.funds = Paid(@, transfers[n + 1])], n + 1,
                     f, transfers, refused, existing)
<1> DEFINE p == transfers[n + 1]
           paid == Paid(before.funds, p)
           after == [before EXCEPT !.funds = paid]
<1>1. /\ before.funds \in Holdings /\ before.failed \in SUBSET (1..n)
      /\ p.token \in Assets /\ p.recipient \in Parties /\ p.amount \in Nat
      /\ TheVault \in Parties
    BY PaymentAt, VaultAddresses DEF BatchFine
<1>2. /\ paid \in Holdings
      /\ \A a \in Assets : paid[a][TheVault] =
            IF a = p.token /\ p.recipient # TheVault
            THEN before.funds[a][TheVault] - p.amount ELSE before.funds[a][TheVault]
    BY <1>1, PaymentAt, PaidFunds DEF Succeeds
<1>3. /\ after \in [funds : Holdings, failed : SUBSET (1..(n + 1))]
      /\ after.funds = paid /\ after.failed = before.failed
    BY <1>1, <1>2 DEF BatchFine
<1>4. \A a \in Assets : before.funds[a][TheVault] \in Nat /\ paid[a][TheVault] \in Nat
    BY <1>1, <1>2 DEF Holdings
<1>5. ASSUME NEW a \in Assets
      PROVE  paid[a][TheVault] + SumFunctionOnSet(Amounts(transfers), MadeOf(transfers, n + 1, before.failed, a))
                = f[a][TheVault]
    <2> DEFINE M == MadeOf(transfers, n, before.failed, a)
               sum == SumFunctionOnSet(Amounts(transfers), M)
    <2>1. before.funds[a][TheVault] + sum = f[a][TheVault]
        BY DEF BatchFine
    <2>2. IsFiniteSet(M) /\ sum \in Nat /\ \A i \in M : Amounts(transfers)[i] \in Int
        BY MadeFinite
    <2>3. n + 1 \notin M /\ n + 1 \notin before.failed
        BY <1>1 DEF MadeOf
    <2>4. CASE a = p.token /\ p.recipient # TheVault
        <3>1. MadeOf(transfers, n + 1, before.failed, a) = M \cup {n + 1}
            BY <1>1, <2>3, <2>4 DEF MadeOf
        <3>2. Amounts(transfers)[n + 1] = p.amount
            BY DEF Amounts
        <3> HIDE DEF M
        <3>3. SumFunctionOnSet(Amounts(transfers), M \cup {n + 1}) = sum + p.amount
            BY <1>1, <2>2, <2>3, <3>2, SumAdd
        <3>4. paid[a][TheVault] = before.funds[a][TheVault] - p.amount
            BY <1>2, <2>4
        <3> HIDE DEF sum
        <3>5. PICK x \in Nat, y \in Nat, z \in Nat :
                 x = p.amount /\ y = before.funds[a][TheVault] /\ z = paid[a][TheVault]
            BY <1>1, <1>4
        <3>6. sum \in Nat /\ y + sum = f[a][TheVault] /\ z = y - x
            BY <2>1, <2>2, <3>4, <3>5
        <3>7. z + (sum + x) = y + sum
            BY <3>6
        <3> HIDE DEF p, paid
        <3> QED
            BY <3>1, <3>3, <3>5, <3>6, <3>7
    <2>5. CASE ~ (a = p.token /\ p.recipient # TheVault)
        <3>1. MadeOf(transfers, n + 1, before.failed, a) = M
            BY <1>1, <2>5 DEF MadeOf
        <3>2. paid[a][TheVault] = before.funds[a][TheVault]
            BY <1>2, <2>5
        <3> QED
            BY <2>1, <3>1, <3>2
    <2> QED
        BY <2>4, <2>5
<1>6. ASSUME NEW i \in before.failed
      PROVE  \/ i \in refused
             \/ transfers[i].token = NATIVE /\ transfers[i].recipient \in existing
             \/ transfers[i].amount > paid[transfers[i].token][TheVault]
    <2>1. i \in DOMAIN transfers
        BY <1>1
    <2>2. transfers[i].token \in Assets /\ transfers[i].amount \in Nat
        BY <2>1, PaymentAt
    <2>3. paid[transfers[i].token][TheVault] <= before.funds[transfers[i].token][TheVault]
        <3>1. PICK b \in Assets : b = transfers[i].token
            BY <2>2
        <3>2. PICK x \in Nat, y \in Nat : x = p.amount /\ y = before.funds[b][TheVault]
            BY <1>1, <1>4
        <3>3. paid[b][TheVault] = y \/ paid[b][TheVault] = y - x
            BY <1>2, <3>2
        <3>4. y - x <= y
            BY <3>2
        <3> QED
            BY <3>1, <3>2, <3>3, <3>4
    <2> HIDE DEF paid
    <2> QED
        BY <1>4, <2>2, <2>3 DEF BatchFine
<1> HIDE DEF after, paid
<1>7. BatchFine(after, n + 1, f, transfers, refused, existing)
    BY <1>3, <1>5, <1>6 DEF BatchFine
<1> QED
    BY <1>7 DEF after, paid

\* A transfer that fails leaves all as it is, for one of three reasons.
LEMMA FailedTransferStep ==
    ASSUME NEW f \in Holdings, NEW transfers \in Seq(Payment), NEW refused, NEW existing,
           NEW n \in Nat, n + 1 \in DOMAIN transfers, NEW before,
           BatchFine(before, n, f, transfers, refused, existing),
           n + 1 \in refused \/ ~ Succeeds(before.funds, transfers[n + 1], existing)
    PROVE  BatchFine([before EXCEPT !.failed = @ \cup {n + 1}], n + 1, f, transfers, refused, existing)
<1> DEFINE failed == before.failed \cup {n + 1}
           after == [before EXCEPT !.failed = failed]
<1>1. before.funds \in Holdings /\ before.failed \in SUBSET (1..n)
    BY DEF BatchFine
<1>2. /\ after \in [funds : Holdings, failed : SUBSET (1..(n + 1))]
      /\ after.funds = before.funds /\ after.failed = failed
    BY DEF BatchFine
<1>3. ASSUME NEW a \in Assets
      PROVE  MadeOf(transfers, n + 1, failed, a) = MadeOf(transfers, n, before.failed, a)
    BY <1>1 DEF MadeOf
<1>4. ASSUME n + 1 \notin refused
      PROVE  \/ transfers[n + 1].token = NATIVE /\ transfers[n + 1].recipient \in existing
             \/ transfers[n + 1].amount > before.funds[transfers[n + 1].token][TheVault]
    <2>1. /\ transfers[n + 1].token \in Assets /\ transfers[n + 1].amount \in Nat
          /\ TheVault \in Parties
        BY PaymentAt, VaultAddresses
    <2>2. before.funds[transfers[n + 1].token][TheVault] \in Nat
        BY <1>1, <2>1 DEF Holdings
    <2> QED
        BY <1>4, <2>1, <2>2 DEF Succeeds, CanPay
<1>5. \A a \in Assets :
         before.funds[a][TheVault] + SumFunctionOnSet(Amounts(transfers), MadeOf(transfers, n + 1, failed, a))
            = f[a][TheVault]
    BY <1>3 DEF BatchFine
<1>6. \A i \in failed :
         \/ i \in refused
         \/ transfers[i].token = NATIVE /\ transfers[i].recipient \in existing
         \/ transfers[i].amount > before.funds[transfers[i].token][TheVault]
    BY <1>4 DEF BatchFine
<1> HIDE DEF after, failed
<1>7. BatchFine(after, n + 1, f, transfers, refused, existing)
    BY <1>2, <1>5, <1>6 DEF BatchFine
<1> QED
    BY <1>7 DEF after, failed

\* What _transferBatch does: whatever the order and the failures, the Vault has
\* less by exactly the transfers that are not reported as failed, and a failure
\* has a cause that is there at the end of the batch, too.
LEMMA BatchPays ==
    ASSUME NEW f \in Holdings, NEW transfers \in Seq(Payment), NEW refused, NEW existing
    PROVE  BatchFine(TransferBatchFrom(f, transfers, refused, existing), Len(transfers),
                     f, transfers, refused, existing)
<1> DEFINE m == Len(transfers)
           g == CHOOSE h : Batching(h, m, f, transfers, refused, existing)
           Good == {n \in Nat : n <= m => BatchFine(g[n], n, f, transfers, refused, existing)}
<1>1. m \in Nat /\ DOMAIN transfers = 1..m
    OBVIOUS
<1> HIDE DEF m
<1>2. Batching(g, m, f, transfers, refused, existing)
    BY <1>1, BatchExists
<1>3. TransferBatchFrom(f, transfers, refused, existing) = g[m]
    BY BatchIs DEF m
<1> HIDE DEF g
<1>4. g[0] = [funds |-> f, failed |-> {}]
    BY <1>1, <1>2 DEF Batching
<1>5. ASSUME NEW i \in 1..m
      PROVE  g[i] = AfterTransfer(g[i - 1], i, transfers, refused, existing)
    <2>1. i \in 0..m /\ i # 0
        BY <1>1
    <2> DEFINE After(j) == AfterTransfer(g[j - 1], j, transfers, refused, existing)
    <2>2. g = [j \in 0..m |-> IF j = 0 THEN [funds |-> f, failed |-> {}] ELSE After(j)]
        BY <1>2 DEF Batching
    <2> HIDE DEF After
    <2>3. g[i] = After(i)
        BY <2>1, <2>2
    <2> QED
        BY <2>3 DEF After
<1>6. 0 \in Good
    <2>1. \A a \in Assets : MadeOf(transfers, 0, {}, a) = {}
        BY <1>1 DEF MadeOf
    <2>2. ASSUME NEW a \in Assets PROVE f[a][TheVault] + 0 = f[a][TheVault]
        <3>1. f[a][TheVault] \in Nat
            BY VaultAddresses DEF Holdings
        <3> QED
            BY <3>1
    <2>3. \A a \in Assets :
             f[a][TheVault] + SumFunctionOnSet(Amounts(transfers), MadeOf(transfers, 0, {}, a)) = f[a][TheVault]
        BY <2>1, <2>2, SumOfNone
    <2> DEFINE r == [funds |-> f, failed |-> {}]
    <2>4. r \in [funds : Holdings, failed : SUBSET (1..0)] /\ r.funds = f /\ r.failed = {}
        OBVIOUS
    <2> HIDE DEF r
    <2>5. BatchFine(r, 0, f, transfers, refused, existing)
        BY <2>3, <2>4 DEF BatchFine
    <2> QED
        BY <1>4, <2>5 DEF r
<1>7. ASSUME NEW n \in Nat, n \in Good PROVE n + 1 \in Good
    <2> SUFFICES ASSUME n + 1 <= m
                 PROVE  BatchFine(g[n + 1], n + 1, f, transfers, refused, existing)
        OBVIOUS
    <2>1. n <= m /\ n + 1 \in 1..m /\ n + 1 - 1 = n
        BY <1>1
    <2>2. BatchFine(g[n], n, f, transfers, refused, existing)
        BY <1>7, <2>1
    <2>3. g[n + 1] = AfterTransfer(g[n], n + 1, transfers, refused, existing)
        BY <1>5, <2>1
    <2>4. CASE n + 1 \notin refused /\ Succeeds(g[n].funds, transfers[n + 1], existing)
        BY <1>1, <2>1, <2>2, <2>3, <2>4, MadeStep DEF AfterTransfer
    <2>5. CASE n + 1 \in refused \/ ~ Succeeds(g[n].funds, transfers[n + 1], existing)
        BY <1>1, <2>1, <2>2, <2>3, <2>5, FailedTransferStep DEF AfterTransfer
    <2> QED
        BY <2>4, <2>5
<1>8. Nat \subseteq Good
    <2> HIDE DEF Good
    <2> QED
        BY <1>6, <1>7, NumberInduction
<1>9. BatchFine(g[m], m, f, transfers, refused, existing)
    BY <1>1, <1>8
<1> QED
    BY <1>3, <1>9 DEF m
-----------------------------------------------------------------------------
(* What signatures order, as a function of the failures on record. *)

TransferSum(transfers, failed, a) ==
    SumFunctionOnSet(Amounts(transfers), MadeOf(transfers, Len(transfers), failed, a))
OrderSum(failed, S, a) ==
    SumFunctionOnSet([s \in Signatures |-> TransferSum(TransfersOf(s), failed[s], a)], S)

LEMMA SignedTransfers ==
    ASSUME NEW s \in Signatures
    PROVE  /\ TransfersOf(s) \in Seq(Payment)
           /\ s.hash.call.fn \in SinglePaying => Len(TransfersOf(s)) = 1
           /\ s.hash.call.fn \in Paying => TransfersOf(s) = s.hash.call.args.transfers
           /\ s.hash.call.fn \notin Paying => TransfersOf(s) = <<>>
<1>1. CASE s.hash.call.fn \in Paying
    <2>1. s.hash.call.args \in SignedArgs(s.hash.call.fn)
        BY DEF SignedArgs, ContractMsgHashes
    <2>2. TransfersOf(s) = s.hash.call.args.transfers
        BY <1>1 DEF TransfersOf
    <2> QED
        BY <1>1, <2>1, <2>2, PaymentAssumption DEF Payment
<1>2. CASE s.hash.call.fn \notin Paying
    <2>1. <<>> \in Seq(Payment)
        OBVIOUS
    <2> QED
        BY <1>2, <2>1 DEF TransfersOf, Paying
<1> QED
    BY <1>1, <1>2

LEMMA TransferSumType ==
    ASSUME NEW s \in Signatures, NEW failed, NEW a
    PROVE  TransferSum(TransfersOf(s), failed, a) \in Nat
BY SignedTransfers, MadeFinite DEF TransferSum

\* The sum over one payment.
LEMMA SingleSum ==
    ASSUME NEW transfers \in Seq(Payment), Len(transfers) = 1, NEW failed, NEW a
    PROVE  TransferSum(transfers, failed, a) =
              IF 1 \notin failed /\ a = transfers[1].token /\ transfers[1].recipient # TheVault
              THEN transfers[1].amount ELSE 0
<1> DEFINE M == MadeOf(transfers, Len(transfers), failed, a)
<1>1. DOMAIN transfers = {1} /\ Amounts(transfers)[1] = transfers[1].amount
    BY DEF Amounts
<1>2. transfers[1].amount \in Nat
    BY <1>1, PaymentAt
<1>3. CASE 1 \notin failed /\ a = transfers[1].token /\ transfers[1].recipient # TheVault
    <2>1. M = {1}
        BY <1>1, <1>3 DEF MadeOf
    <2>2. SumFunctionOnSet(Amounts(transfers), {1}) = transfers[1].amount
        <3> DEFINE f == Amounts(transfers)
        <3>1. f[1] \in Int /\ f[1] = transfers[1].amount
            BY <1>1, <1>2
        <3> HIDE DEF f
        <3>2. SumFunctionOnSet(f, {1}) = f[1]
            BY <3>1, SumOfOne
        <3> QED
            BY <3>1, <3>2 DEF f
    <2> HIDE DEF M
    <2>3. TransferSum(transfers, failed, a) = transfers[1].amount
        BY <2>1, <2>2 DEF TransferSum, M
    <2> QED
        BY <1>3, <2>3
<1>4. CASE ~ (1 \notin failed /\ a = transfers[1].token /\ transfers[1].recipient # TheVault)
    <2>1. M = {}
        BY <1>1, <1>4 DEF MadeOf
    <2> QED
        BY <1>4, <2>1, SumOfNone DEF TransferSum
<1> QED
    BY <1>3, <1>4

LEMMA NoSum ==
    ASSUME NEW failed, NEW a
    PROVE  TransferSum(<<>>, failed, a) = 0
<1>1. MadeOf(<<>>, Len(<<>>), failed, a) = {}
    BY DEF MadeOf
<1> QED
    BY <1>1, SumOfNone DEF TransferSum

\* The orders of signatures whose failures stay as they are on record.
LEMMA OrdersKept ==
    ASSUME NEW S \in SUBSET Signatures, IsFiniteSet(S), NEW before, NEW after,
           \A s \in S : after[s] = before[s], NEW a
    PROVE  OrderSum(before, S, a) \in Nat /\ OrderSum(after, S, a) = OrderSum(before, S, a)
<1> DEFINE f == [s \in Signatures |-> TransferSum(TransfersOf(s), before[s], a)]
           g == [s \in Signatures |-> TransferSum(TransfersOf(s), after[s], a)]
<1>1. \A s \in S : f[s] \in Nat /\ g[s] = f[s]
    BY TransferSumType
<1> HIDE DEF f, g
<1>2. SumFunctionOnSet(f, S) \in Nat /\ SumFunctionOnSet(f, S) = SumFunctionOnSet(g, S)
    BY <1>1, SumType, SumSame
<1> QED
    BY <1>2 DEF f, g, OrderSum

\* One more signature is accepted.
LEMMA OrdersGrow ==
    ASSUME NEW S \in SUBSET Signatures, IsFiniteSet(S), NEW before, NEW after,
           \A s \in S : after[s] = before[s], NEW a, NEW sig \in Signatures, sig \notin S
    PROVE  OrderSum(after, S \cup {sig}, a)
              = OrderSum(before, S, a) + TransferSum(TransfersOf(sig), after[sig], a)
<1> DEFINE g == [s \in Signatures |-> TransferSum(TransfersOf(s), after[s], a)]
<1>1. \A s \in S \cup {sig} : g[s] \in Int
    BY TransferSumType
<1>2. g[sig] = TransferSum(TransfersOf(sig), after[sig], a)
    OBVIOUS
<1>3. \A s \in S : g[s] \in Int
    BY <1>1
<1>4. g[sig] \in Int
    BY <1>1
<1> HIDE DEF g
<1>5. SumFunctionOnSet(g, S \cup {sig}) = SumFunctionOnSet(g, S) + g[sig]
    BY <1>3, <1>4, SumAdd
<1> QED
    BY <1>2, <1>5, OrdersKept DEF g, OrderSum

\* What a signature orders is the sum over the transfers that did not fail.
LEMMA OrderedUnlessIs ==
    ASSUME NEW s \in Signatures, NEW failed, NEW a
    PROVE  OrderedUnless(failed, s, a) = TransferSum(TransfersOf(s), failed, a)
<1>1. \A i \in DOMAIN TransfersOf(s) : i <= Len(TransfersOf(s))
    BY SignedTransfers
<1>2. LET transfers == TransfersOf(s) IN
      MadeOf(transfers, Len(transfers), failed, a) =
          {i \in DOMAIN transfers :
             transfers[i].token = a /\ transfers[i].recipient # TheVault /\ i \notin failed}
    BY <1>1 DEF MadeOf
<1> QED
    BY <1>2 DEF OrderedUnless, TransferSum, Amounts

LEMMA OrderedIs ==
    ASSUME NEW a
    PROVE  /\ Ordered(UsedSignatures, a) = OrderSum(failures, UsedSignatures, a)
           /\ Ordered(UsedSignatures, a)' = OrderSum(failures', UsedSignatures', a)
           /\ \A r : /\ Ordered(SwapsTo(r), a) = OrderSum(failures, SwapsTo(r), a)
                     /\ Ordered(SwapsTo(r), a)' = OrderSum(failures', SwapsTo(r)', a)
<1>1. \A s \in Signatures :
         /\ OrderedBy(s, a) = TransferSum(TransfersOf(s), failures[s], a)
         /\ OrderedBy(s, a)' = TransferSum(TransfersOf(s), failures'[s], a)
    BY OrderedUnlessIs DEF OrderedBy, OrderedUnless, TransfersOf
<1> QED
    BY <1>1 DEF Ordered, OrderSum, TransfersOf
-----------------------------------------------------------------------------
(* The stack of running code: at most one frame of it is a run of the Multicall. *)

LEMMA Push ==
    ASSUME NEW st \in Seq(Frames), NEW x \in Frames
    PROVE  /\ <<x>> \o st \in Seq(Frames)
           /\ DOMAIN (<<x>> \o st) = 1..(Len(st) + 1)
           /\ (<<x>> \o st)[1] = x
           /\ \A i \in DOMAIN (<<x>> \o st) : i # 1 => i - 1 \in DOMAIN st /\ (<<x>> \o st)[i] = st[i - 1]
           /\ \A i \in DOMAIN st : i + 1 \in DOMAIN (<<x>> \o st) /\ (<<x>> \o st)[i + 1] = st[i]
<1>1. Len(st) \in Nat /\ DOMAIN st = 1..Len(st)
    OBVIOUS
<1>2. <<x>> \in Seq(Frames) /\ Len(<<x>>) = 1 /\ <<x>>[1] = x
    OBVIOUS
<1> DEFINE u == <<x>> \o st
<1>3. u \in Seq(Frames) /\ Len(u) = Len(st) + 1 /\ DOMAIN u = 1..Len(u)
    BY <1>2
<1>4. \A i \in 1..Len(u) : u[i] = IF i <= 1 THEN <<x>>[i] ELSE st[i - 1]
    BY <1>2
<1> HIDE DEF u
<1>5. \A i \in DOMAIN u : i # 1 => i - 1 \in DOMAIN st /\ u[i] = st[i - 1]
    BY <1>1, <1>3, <1>4
<1>6. ASSUME NEW i \in DOMAIN st PROVE i + 1 \in DOMAIN u /\ u[i + 1] = st[i]
    <2>1. i + 1 \in DOMAIN u /\ i + 1 # 1 /\ i + 1 - 1 = i
        BY <1>1, <1>3
    <2> QED
        BY <1>5, <2>1
<1>7. u[1] = x
    BY <1>1, <1>2, <1>3, <1>4
<1> QED
    BY <1>3, <1>5, <1>6, <1>7 DEF u

LEMMA EmptyBefore ==
    ASSUME NEW st \in Seq(Frames)
    PROVE  <<>> \o st = st
OBVIOUS

LEMMA PushCalled ==
    ASSUME NEW st \in Seq(Frames), NEW running, OneRun(st, running), NEW r \in Receivers
    PROVE  <<Called(r)>> \o st \in Seq(Frames) /\ OneRun(<<Called(r)>> \o st, running)
<1> DEFINE x == Called(r)
           u == <<x>> \o st
<1>1. x \in Frames /\ x.code # "multicall"
    BY DEF Called, Frames
<1> HIDE DEF x
<1>2. /\ u \in Seq(Frames) /\ u[1] = x
      /\ DOMAIN u = 1..(Len(st) + 1) /\ DOMAIN st = 1..Len(st) /\ Len(st) \in Nat
      /\ \A i \in DOMAIN u : i # 1 => i - 1 \in DOMAIN st /\ u[i] = st[i - 1]
      /\ \A i \in DOMAIN st : i + 1 \in DOMAIN u /\ u[i + 1] = st[i]
    BY <1>1, Push
<1> HIDE DEF u
<1>3. ASSUME NEW i \in DOMAIN u, NEW j \in DOMAIN u, u[i].code = "multicall", u[j].code = "multicall"
      PROVE  i = j
    <2>1. i - 1 \in DOMAIN st /\ j - 1 \in DOMAIN st /\ i \in Int /\ j \in Int
        BY <1>1, <1>2, <1>3
    <2>2. i - 1 = j - 1
        BY <1>1, <1>2, <1>3, <2>1 DEF OneRun
    <2> QED
        BY <2>1, <2>2
<1>4. running <=> \E i \in DOMAIN u : u[i].code = "multicall"
    BY <1>1, <1>2 DEF OneRun
<1> QED
    BY <1>2, <1>3, <1>4 DEF OneRun, u, x

LEMMA PushRun ==
    ASSUME NEW st \in Seq(Frames), OneRun(st, FALSE), NEW x \in Frames, x.code = "multicall"
    PROVE  <<x>> \o st \in Seq(Frames) /\ OneRun(<<x>> \o st, TRUE)
<1> DEFINE u == <<x>> \o st
<1>2. /\ u \in Seq(Frames) /\ u[1] = x
      /\ DOMAIN u = 1..(Len(st) + 1) /\ Len(st) \in Nat
      /\ \A i \in DOMAIN u : i # 1 => i - 1 \in DOMAIN st /\ u[i] = st[i - 1]
    BY Push
<1> HIDE DEF u
<1>3. \A i \in DOMAIN u : u[i].code = "multicall" => i = 1
    BY <1>2 DEF OneRun
<1>4. 1 \in DOMAIN u
    BY <1>2
<1> QED
    BY <1>2, <1>3, <1>4 DEF OneRun, u

LEMMA Pop ==
    ASSUME NEW st \in Seq(Frames), st # <<>>
    PROVE  /\ Head(st) \in Frames /\ Head(st) = st[1] /\ 1 \in DOMAIN st
           /\ Tail(st) \in Seq(Frames)
           /\ Len(st) \in Nat /\ DOMAIN st = 1..Len(st)
           /\ \A i \in DOMAIN Tail(st) : i \in Nat /\ i + 1 \in DOMAIN st /\ Tail(st)[i] = st[i + 1]
           /\ \A i \in DOMAIN st : i \in Nat /\
                 (i # 1 => i - 1 \in DOMAIN Tail(st) /\ Tail(st)[i - 1] = st[i])
<1>1. Len(st) \in Nat /\ Len(st) # 0 /\ DOMAIN st = 1..Len(st)
    OBVIOUS
<1>2. Head(st) = st[1] /\ 1 \in DOMAIN st /\ Head(st) \in Frames
    BY <1>1
<1> DEFINE u == Tail(st)
<1>3. u \in Seq(Frames) /\ Len(u) = Len(st) - 1 /\ DOMAIN u = 1..Len(u)
    BY <1>1
<1>4. \A i \in 1..Len(u) : u[i] = st[i + 1]
    BY <1>1
<1> HIDE DEF u
<1>5. \A i \in DOMAIN u : i \in Nat /\ i + 1 \in DOMAIN st /\ u[i] = st[i + 1]
    BY <1>1, <1>3, <1>4
<1>6. ASSUME NEW i \in DOMAIN st, i # 1 PROVE i - 1 \in DOMAIN u /\ u[i - 1] = st[i]
    <2>1. i - 1 \in DOMAIN u /\ i - 1 + 1 = i
        BY <1>1, <1>3, <1>6
    <2> QED
        BY <1>5, <2>1
<1> QED
    BY <1>1, <1>2, <1>3, <1>5, <1>6 DEF u

LEMMA PopFrame ==
    ASSUME NEW st \in Seq(Frames), NEW running \in BOOLEAN, OneRun(st, running), st # <<>>
    PROVE  /\ Tail(st) \in Seq(Frames)
           /\ Head(st).code = "receiver" => OneRun(Tail(st), running)
           /\ Head(st).code = "multicall" => running = TRUE /\ OneRun(Tail(st), FALSE)
<1> DEFINE u == Tail(st)
<1>1. /\ Head(st) = st[1] /\ 1 \in DOMAIN st /\ u \in Seq(Frames)
      /\ \A i \in DOMAIN u : i \in Nat /\ i + 1 \in DOMAIN st /\ u[i] = st[i + 1]
      /\ \A i \in DOMAIN st : i \in Nat /\ (i # 1 => i - 1 \in DOMAIN u /\ u[i - 1] = st[i])
    BY Pop
<1> HIDE DEF u
<1>2. ASSUME NEW i \in DOMAIN u, NEW j \in DOMAIN u, u[i].code = "multicall", u[j].code = "multicall"
      PROVE  i = j
    <2>1. i + 1 = j + 1 /\ i \in Nat /\ j \in Nat
        BY <1>1, <1>2 DEF OneRun
    <2> QED
        BY <2>1
<1>3. CASE Head(st).code = "receiver"
    <2>1. running <=> \E i \in DOMAIN u : u[i].code = "multicall"
        <3>1. running <=> \E i \in DOMAIN st : st[i].code = "multicall"
            BY DEF OneRun
        <3>2. ASSUME NEW i \in DOMAIN st, st[i].code = "multicall"
              PROVE  \E j \in DOMAIN u : u[j].code = "multicall"
            <4>1. i # 1
                BY <1>1, <1>3, <3>2
            <4>2. i - 1 \in DOMAIN u /\ u[i - 1] = st[i]
                BY <1>1, <4>1
            <4> QED
                BY <3>2, <4>2
        <3>3. ASSUME NEW j \in DOMAIN u, u[j].code = "multicall"
              PROVE  \E i \in DOMAIN st : st[i].code = "multicall"
            BY <1>1, <3>3
        <3> QED
            BY <3>1, <3>2, <3>3
    <2> QED
        BY <1>1, <1>2, <1>3, <2>1 DEF OneRun, u
<1>4. CASE Head(st).code = "multicall"
    <2>1. running = TRUE
        BY <1>1, <1>4 DEF OneRun
    <2>2. ASSUME NEW i \in DOMAIN u, u[i].code = "multicall" PROVE FALSE
        <3>1. i \in Nat /\ i + 1 = 1 /\ i + 1 \in DOMAIN st
            BY <1>1, <1>4, <2>2 DEF OneRun
        <3>2. i \in 1..Len(u)
            BY <1>1
        <3> QED
            BY <3>1, <3>2
    <2> QED
        BY <1>1, <1>4, <2>1, <2>2 DEF OneRun, u
<1> QED
    BY <1>1, <1>3, <1>4 DEF u

\* A run goes on to its next call.
LEMMA AdvancedRun ==
    ASSUME stack \in Seq(Frames), isRunning \in BOOLEAN, OneRun(stack, isRunning),
           stack # <<>>, Head(stack).code = "multicall", Head(stack).todo # <<>>
    PROVE  Advanced \in Seq(Frames) /\ OneRun(Advanced, isRunning) /\ Head(Head(stack).todo) \in Calls
<1> DEFINE h == Head(stack)
<1>1. h \in [code : {"multicall"}, todo : Seq(Calls)]
    BY Pop DEF Frames
<1>2. h.todo \in Seq(Calls) /\ h.todo # <<>>
    BY <1>1
<1>3. Head(h.todo) \in Calls /\ Tail(h.todo) \in Seq(Calls)
    <2>1. \A todo \in Seq(Calls) : todo # <<>> => Head(todo) \in Calls /\ Tail(todo) \in Seq(Calls)
        OBVIOUS
    <2> QED
        BY <1>2, <2>1
<1>4. [h EXCEPT !.todo = Tail(@)] \in Frames /\ [h EXCEPT !.todo = Tail(@)].code = "multicall"
    BY <1>1, <1>3 DEF Frames
<1>5. /\ Tail(stack) \in Seq(Frames)
      /\ isRunning = TRUE /\ OneRun(Tail(stack), FALSE)
    BY PopFrame
<1> QED
    BY <1>3, <1>4, <1>5, PushRun DEF Advanced
-----------------------------------------------------------------------------
(* What a step may do to the funds and to the code that is running. *)

RunFine ==
    /\ stack \in Seq(Frames) /\ isRunning \in BOOLEAN
    /\ OneRun(stack, isRunning)
    /\ allowance \in [Tokens -> Nat] /\ NothingAllowed

LocalTypes ==
    /\ funds \in Holdings /\ deposits \subseteq DepositContracts
    /\ cfVault \in [CFReceivers -> {TheVault} \cup OtherVaults]
    /\ told \in [CFReceivers -> [Assets -> Nat]]
    /\ failures \in [Signatures -> SUBSET Nat]
    /\ received \in [Assets -> Nat] /\ withdrawn \in [Assets -> Nat]

\* Nothing is taken from the Vault.
KeepsFunds ==
    funds' \in Holdings /\ \A a \in Assets : funds'[a][TheVault] >= funds[a][TheVault]

LEMMA VaultFacts ==
    ASSUME VaultInv
    PROVE  /\ LocalTypes /\ RunFine /\ KMTypeOK /\ AggKeyNonceConsumerTypeOK /\ GuardedTypeOK
           /\ TheVault \in Parties /\ \A a \in Assets : funds[a][TheVault] \in Nat
<1>1. LocalTypes /\ RunFine /\ KMTypeOK /\ AggKeyNonceConsumerTypeOK /\ GuardedTypeOK
    BY DEF VaultInv, VaultTypeOK, AssetsTypeOK, LocalTypes, RunFine, Holdings, Frames
<1> QED
    BY <1>1, VaultAddresses DEF LocalTypes, Holdings

LEMMA RunFineTypes ==
    ASSUME LocalTypes', RunFine', KMTypeOK', AggKeyNonceConsumerTypeOK', GuardedTypeOK'
    PROVE  VaultTypeOK'
BY DEF VaultTypeOK, AssetsTypeOK, LocalTypes, RunFine, Holdings, Frames

\* Amounts of nothing are taken from the Vault, as nothing is allowed.
LEMMA NothingMoves ==
    ASSUME VaultInv, NEW t \in Tokens, NEW to \in Parties, NEW n \in Nat,
           allowance[t] >= n, CanPay(funds, t, TheVault, n),
           allowance' = [allowance EXCEPT ![t] = @ - n],
           funds' = Moved(funds, t, TheVault, to, n)
    PROVE  KeepsFunds /\ allowance' = allowance
<1>1. n = 0 /\ allowance \in [Tokens -> Nat] /\ allowance[t] = 0
    BY VaultFacts DEF RunFine, NothingAllowed
<1>2. t \in Assets /\ TheVault \in Parties /\ funds \in Holdings
    BY VaultAddresses, VaultFacts DEF LocalTypes
<1>3. /\ funds' \in Holdings
      /\ \A b \in Assets, p \in Parties : funds'[b][p] =
            IF b # t THEN funds[b][p]
            ELSE funds[b][p] - (IF p = TheVault THEN n ELSE 0) + (IF p = to THEN n ELSE 0)
    BY <1>2, MovedFunds
<1>4. ASSUME NEW a \in Assets PROVE funds'[a][TheVault] >= funds[a][TheVault]
    <2>1. funds[a][TheVault] \in Nat
        BY VaultFacts
    <2> QED
        BY <1>1, <1>2, <1>3, <2>1
<1> QED
    BY <1>1, <1>3, <1>4 DEF KeepsFunds

\* Somebody else than the Vault parts with an amount.
LEMMA OthersTake ==
    ASSUME NEW f \in Holdings, NEW a \in Assets, NEW from \in Parties, from # TheVault,
           NEW n \in Nat, CanPay(f, a, from, n)
    PROVE  /\ [f EXCEPT ![a][from] = @ - n] \in Holdings
           /\ \A b \in Assets : [f EXCEPT ![a][from] = @ - n][b][TheVault] = f[b][TheVault]
<1>1. [f EXCEPT ![a][from] = @ - n] \in Holdings
    BY DEF Holdings, CanPay
<1>2. TheVault \in Parties
    BY VaultAddresses
<1> QED
    BY <1>1, <1>2 DEF Holdings

\* Somebody else than the Vault pays.
LEMMA OthersPay ==
    ASSUME NEW f \in Holdings, NEW a \in Assets, NEW from \in Parties, from # TheVault,
           NEW to \in Parties, NEW n \in Nat, CanPay(f, a, from, n)
    PROVE  /\ Moved(f, a, from, to, n) \in Holdings
           /\ \A b \in Assets : Moved(f, a, from, to, n)[b][TheVault] >= f[b][TheVault]
           /\ \A b \in Assets : Moved(f, a, from, to, n)[b][TheVault] =
                 IF b = a /\ to = TheVault THEN f[b][TheVault] + n ELSE f[b][TheVault]
<1> DEFINE g == Moved(f, a, from, to, n)
<1>1. TheVault \in Parties
    BY VaultAddresses
<1>2. /\ g \in Holdings
      /\ \A b \in Assets, p \in Parties : g[b][p] =
            IF b # a THEN f[b][p]
            ELSE f[b][p] - (IF p = from THEN n ELSE 0) + (IF p = to THEN n ELSE 0)
    BY MovedFunds
<1> HIDE DEF g
<1>3. ASSUME NEW b \in Assets
      PROVE  /\ g[b][TheVault] = IF b = a /\ to = TheVault THEN f[b][TheVault] + n ELSE f[b][TheVault]
             /\ g[b][TheVault] >= f[b][TheVault]
    <2>1. f[b][TheVault] \in Nat
        BY <1>1 DEF Holdings
    <2> QED
        BY <1>1, <1>2, <2>1
<1> QED
    BY <1>2, <1>3 DEF g

LEMMA AmountType ==
    ASSUME VaultInv, NEW call \in Calls
    PROVE  /\ Amount(call) \in Nat /\ Value(call) \in Nat
           /\ call.token \in Assets /\ call.to \in Parties
<1>1. call.amount \in Nat /\ call.token \in Assets /\ call.to \in Parties
    BY DEF Calls
<1>2. TheMulticall \in Parties /\ NATIVE \in Assets
    BY VaultAddresses
<1>3. funds[call.token][TheMulticall] \in Nat /\ funds[NATIVE][TheMulticall] \in Nat
    BY <1>1, <1>2, VaultFacts DEF LocalTypes, Holdings
<1> QED
    BY <1>1, <1>3 DEF Amount, Value

\* What the Multicall and the contracts it calls do.
LEMMA RunStep ==
    ASSUME VaultInv, RunNext
    PROVE  KeepsFunds /\ RunFine'
<1> USE VaultFacts
<1>1. funds \in Holdings /\ (UNCHANGED funds => KeepsFunds)
    BY DEF LocalTypes, KeepsFunds
<1>2. CASE Return
    <2>1. stack # <<>> /\ Head(stack).code = "receiver" /\ stack' = Tail(stack)
          /\ isRunning' = isRunning /\ allowance' = allowance /\ funds' = funds
        BY <1>2 DEF Return
    <2>2. Tail(stack) \in Seq(Frames) /\ OneRun(Tail(stack), isRunning)
        BY <2>1, PopFrame DEF RunFine
    <2> QED
        BY <1>1, <2>1, <2>2 DEF RunFine, NothingAllowed
<1>3. CASE EndRun
    <2>1. stack # <<>> /\ Head(stack).code = "multicall" /\ stack' = Tail(stack)
          /\ isRunning' = FALSE /\ allowance' = allowance /\ funds' = funds
        BY <1>3 DEF EndRun, Running
    <2>2. Tail(stack) \in Seq(Frames) /\ OneRun(Tail(stack), FALSE)
        BY <2>1, PopFrame DEF RunFine
    <2> QED
        BY <1>1, <2>1, <2>2 DEF RunFine, NothingAllowed
<1>4. ASSUME stack # <<>>, Head(stack).code = "multicall", Head(stack).todo # <<>>,
             NEW call, call = Head(Head(stack).todo),
             \/ CollectTokenBalance(call) \/ CallTransfer(call)
             \/ CallTransferFrom(call) \/ CallWithValue(call)
      PROVE  KeepsFunds /\ RunFine'
    <2>1. Advanced \in Seq(Frames) /\ OneRun(Advanced, isRunning) /\ call \in Calls
        BY <1>4, AdvancedRun DEF RunFine
    <2>2. /\ Amount(call) \in Nat /\ Value(call) \in Nat
          /\ call.token \in Assets /\ call.to \in Parties
        BY <2>1, AmountType
    <2>3. CASE CollectTokenBalance(call)
        <3> DEFINE n == funds[call.token][TheVault]
        <3>1. /\ call.token \in Tokens /\ n \in Nat /\ CanPay(funds, call.token, TheVault, n)
              /\ TheMulticall \in Parties
            BY <2>2, <2>3, VaultAddresses DEF CollectTokenBalance, CanPay
        <3>2. /\ allowance[call.token] >= n /\ allowance' = [allowance EXCEPT ![call.token] = @ - n]
              /\ funds' = Moved(funds, call.token, TheVault, TheMulticall, n)
            BY <2>3 DEF CollectTokenBalance
        <3> HIDE DEF n
        <3>3. KeepsFunds /\ allowance' = allowance
            BY <3>1, <3>2, NothingMoves
        <3> QED
            BY <2>1, <2>3, <3>3 DEF CollectTokenBalance, RunFine, NothingAllowed
    <2>4. CASE CallTransferFrom(call)
        <3>1. KeepsFunds /\ allowance' = allowance
            BY <2>2, <2>4, NothingMoves DEF CallTransferFrom
        <3> QED
            BY <2>1, <2>4, <3>1 DEF CallTransferFrom, RunFine, NothingAllowed
    <2>5. CASE CallTransfer(call)
        <3>1. TheMulticall \in Parties \ {TheVault}
            BY VaultAddresses
        <3>2. /\ CanPay(funds, call.token, TheMulticall, Amount(call))
              /\ funds' = Moved(funds, call.token, TheMulticall, call.to, Amount(call))
            BY <2>5 DEF CallTransfer
        <3>3. PICK t \in Assets, to \in Parties, n \in Nat :
                 t = call.token /\ to = call.to /\ n = Amount(call)
            BY <2>2
        <3>4. funds' = Moved(funds, t, TheMulticall, to, n) /\ CanPay(funds, t, TheMulticall, n)
            BY <3>2, <3>3
        <3>5. KeepsFunds
            BY <1>1, <3>1, <3>4, OthersPay DEF KeepsFunds
        <3> QED
            BY <2>1, <2>5, <3>5 DEF CallTransfer, RunFine, NothingAllowed
    <2>6. CASE CallWithValue(call)
        <3> DEFINE rest == [funds EXCEPT ![NATIVE][TheMulticall] = @ - Value(call)]
        <3>1. TheMulticall \in Parties \ {TheVault} /\ NATIVE \in Assets
            BY VaultAddresses
        <3>2. /\ CanPay(funds, NATIVE, TheMulticall, Value(call))
              /\ funds' = Received(rest, call.to, Value(call))
              /\ isRunning' = isRunning /\ allowance' = allowance
              /\ stack' = (IF call.to \in Receivers THEN <<Called(call.to)>> ELSE <<>>) \o Advanced
            BY <2>6 DEF CallWithValue
        <3>3. rest \in Holdings /\ \A b \in Assets : rest[b][TheVault] = funds[b][TheVault]
            BY <1>1, <2>2, <3>1, <3>2, OthersTake
        <3> HIDE DEF rest
        <3>4. KeepsFunds
            BY <2>2, <3>2, <3>3, ReceivedFunds DEF KeepsFunds
        <3>5. \/ stack' = Advanced
              \/ call.to \in Receivers /\ stack' = <<Called(call.to)>> \o Advanced
            BY <2>1, <3>2
        <3>6. stack' \in Seq(Frames) /\ OneRun(stack', isRunning)
            BY <2>1, <3>5, PushCalled
        <3> QED
            BY <3>2, <3>4, <3>6 DEF RunFine, NothingAllowed
    <2> QED
        BY <1>4, <2>3, <2>4, <2>5, <2>6
<1> QED
    BY <1>2, <1>3, <1>4 DEF RunNext

\* What somebody pays on, with f as the funds before.
LEMMA PayOnStep ==
    ASSUME VaultInv, NEW f \in Holdings, NEW asset \in Assets,
           NEW from \in Addresses \ {TheVault}, NEW to \in Parties, NEW n \in Nat,
           PayOn(f, asset, from, to, n)
    PROVE  /\ RunFine' /\ funds' \in Holdings
           /\ \A a \in Assets : funds'[a][TheVault] >= f[a][TheVault]
           /\ to # from => \A a \in Assets : funds'[a][from] =
                 IF a = asset THEN f[a][from] - n ELSE f[a][from]
           /\ UNCHANGED receiverVars
<1>1. /\ CanPay(f, asset, from, n) /\ funds' = PaidOn(f, asset, from, to, n)
      /\ stack' = (IF asset = NATIVE /\ to \in Receivers THEN <<Called(to)>> ELSE <<>>) \o stack
      /\ isRunning' = isRunning /\ allowance' = allowance /\ UNCHANGED receiverVars
    BY DEF PayOn
<1>2. RunFine'
    <2>1. \/ stack' = stack
          \/ to \in Receivers /\ stack' = <<Called(to)>> \o stack
        BY <1>1, VaultFacts DEF RunFine
    <2>2. stack' \in Seq(Frames) /\ OneRun(stack', isRunning)
        BY <2>1, VaultFacts, PushCalled DEF RunFine
    <2> QED
        BY <1>1, <2>2, VaultFacts DEF RunFine, NothingAllowed
<1>3. from \in Parties \ {TheVault} /\ NATIVE \in Assets
    BY VaultAddresses
<1> DEFINE g == [f EXCEPT ![asset][from] = @ - n]
<1>4. CASE asset = NATIVE
    <2>1. g \in Holdings /\ \A b \in Assets : g[b][TheVault] = f[b][TheVault]
        BY <1>1, <1>3, OthersTake
    <2>2. \A b \in Assets : g[b][from] = IF b = asset THEN f[b][from] - n ELSE f[b][from]
        BY <1>3 DEF Holdings
    <2>3. funds' = Received(g, to, n)
        BY <1>1, <1>4 DEF PaidOn
    <2> HIDE DEF g
    <2>4. /\ funds' \in Holdings
          /\ \A a \in Assets : funds'[a][TheVault] >= g[a][TheVault]
          /\ \A a \in Assets, p \in Addresses \ {TheVault, to} : funds'[a][p] = g[a][p]
        BY <2>1, <2>3, ReceivedFunds
    <2> QED
        BY <1>1, <1>2, <2>1, <2>2, <2>4
<1>5. CASE asset # NATIVE
    <2>1. funds' = Moved(f, asset, from, to, n)
        BY <1>1, <1>5 DEF PaidOn
    <2>2. /\ funds' \in Holdings
          /\ \A a \in Assets : funds'[a][TheVault] >= f[a][TheVault]
        BY <1>1, <1>3, <2>1, OthersPay
    <2>3. \A b \in Assets, p \in Parties : funds'[b][p] =
             IF b # asset THEN f[b][p]
             ELSE f[b][p] - (IF p = from THEN n ELSE 0) + (IF p = to THEN n ELSE 0)
        BY <1>1, <1>3, <2>1, MovedFunds
    <2>4. ASSUME NEW a \in Assets, to # from
          PROVE  funds'[a][from] = IF a = asset THEN f[a][from] - n ELSE f[a][from]
        <3>1. f[a][from] \in Nat
            BY <1>3 DEF Holdings
        <3> QED
            BY <1>3, <2>3, <2>4, <3>1
    <2> QED
        BY <1>1, <1>2, <2>2, <2>4
<1> QED
    BY <1>4, <1>5

LEMMA ScUtilsStep ==
    ASSUME VaultInv, ScUtilsNext
    PROVE  KeepsFunds /\ RunFine' /\ UNCHANGED receiverVars
<1>1. PICK caller \in Users \cup Receivers, a \in Assets, n \in Payments, to \in Parties :
         PayOn(funds, a, caller, to, n)
    BY VaultAddresses DEF ScUtilsNext, DepositToScGateway, DepositToVault, DepositTo, DepositFrom
<1>2. caller \in Addresses \ {TheVault} /\ n \in Nat /\ funds \in Holdings
    BY VaultAddresses, VaultFacts DEF LocalTypes
<1> QED
    BY <1>1, <1>2, PayOnStep DEF KeepsFunds

\* A payment to a Deposit may end in the Vault.
LEMMA PayDepositStep ==
    ASSUME VaultInv, NEW caller \in Users \cup Receivers, NEW d \in DepositContracts,
           NEW a \in Assets, NEW n \in Payments, PayDeposit(caller, d, a, n)
    PROVE  KeepsFunds
<1>1. /\ caller \in Parties \ {TheVault} /\ d \in Parties /\ n \in Nat /\ NATIVE \in Assets
      /\ funds \in Holdings /\ CanPay(funds, a, caller, n)
    BY VaultAddresses, VaultFacts DEF LocalTypes, PayDeposit
<1> DEFINE rest == [funds EXCEPT ![a][caller] = @ - n]
<1>2. rest \in Holdings /\ \A b \in Assets : rest[b][TheVault] = funds[b][TheVault]
    BY <1>1, OthersTake
<1>3. CASE a = NATIVE
    <2>1. funds' = Received(rest, d, n)
        BY <1>3 DEF PayDeposit
    <2> HIDE DEF rest
    <2> QED
        BY <1>1, <1>2, <2>1, ReceivedFunds DEF KeepsFunds
<1>4. CASE a # NATIVE
    <2>1. funds' = Moved(funds, a, caller, d, n)
        BY <1>4 DEF PayDeposit
    <2> QED
        BY <1>1, <2>1, OthersPay DEF KeepsFunds
<1> QED
    BY <1>3, <1>4

LEMMA PayInStep ==
    ASSUME VaultInv, NEW caller \in Users \cup Receivers, NEW a \in Assets, NEW n \in Payments,
           PayIn(caller, a, n)
    PROVE  KeepsFunds /\ Income
<1>1. /\ caller \in Parties \ {TheVault} /\ n \in Nat
      /\ funds \in Holdings /\ CanPay(funds, a, caller, n)
      /\ received \in [Assets -> Nat]
    BY VaultAddresses, VaultFacts DEF LocalTypes, PayIn
<1>2. funds' = Moved(funds, a, caller, TheVault, n) /\ received' = [received EXCEPT ![a] = @ + n]
    BY DEF PayIn
<1>3. KeepsFunds
    BY <1>1, <1>2, VaultFacts, OthersPay DEF KeepsFunds
<1>4. ASSUME NEW b \in Assets
      PROVE  funds'[b][TheVault] = IF b = a THEN funds[b][TheVault] + n ELSE funds[b][TheVault]
    <2>1. TheVault \in Parties
        BY VaultAddresses
    <2> DEFINE g == Moved(funds, a, caller, TheVault, n)
    <2>2. \A c \in Assets : g[c][TheVault] =
             IF c = a THEN funds[c][TheVault] + n ELSE funds[c][TheVault]
        BY <1>1, <2>1, OthersPay
    <2> QED
        BY <1>2, <2>2
<1>5. ASSUME NEW b \in Assets
      PROVE  received'[b] = received[b] +
                (IF CanPay(funds', b, TheVault, funds[b][TheVault])
                 THEN funds'[b][TheVault] - funds[b][TheVault] ELSE 0)
    <2>1. funds[b][TheVault] \in Nat /\ received[b] \in Nat
        BY <1>1, VaultFacts
    <2> QED
        BY <1>1, <1>2, <1>4, <2>1 DEF CanPay
<1>6. received' = [b \in Assets |-> received'[b]]
    BY <1>1, <1>2
<1> QED
    BY <1>3, <1>5, <1>6 DEF Income
-----------------------------------------------------------------------------
(* The classes of steps. *)

\* The Vault gains what is recorded as received, and pays nothing.
Gains ==
    /\ \A a \in Assets :
          /\ funds'[a][TheVault] >= funds[a][TheVault]
          /\ funds'[a][TheVault] + received[a] = funds[a][TheVault] + received'[a]
    /\ UNCHANGED <<failures, withdrawn, told>>

\* The governor withdraws.
Withdraws ==
    /\ \A a \in Assets :
          funds'[a][TheVault] + withdrawn'[a] = funds[a][TheVault] + withdrawn[a]
    /\ UNCHANGED <<failures, received, told>>

\* The Vault pays what sig orders, except for what is recorded as failed, and
\* tells the receiver of a swap.
Pays(sig) ==
    /\ \A a \in Assets :
          funds'[a][TheVault] + TransferSum(TransfersOf(sig), failures'[sig], a) + received[a]
             = funds[a][TheVault] + received'[a]
    /\ \A a \in Assets : received'[a] >= received[a]
    /\ \A s \in Signatures : s # sig => failures'[s] = failures[s]
    /\ failures'[sig] \subseteq DOMAIN TransfersOf(sig)
    /\ sig.hash.call.fn = "executexSwapAndCall" => failures'[sig] = {}
    /\ \A r \in CFReceivers, a \in Assets :
          told'[r][a] = told[r][a] +
             (IF SwapTo(sig, r) THEN TransferSum(TransfersOf(sig), failures'[sig], a) ELSE 0)
    /\ UNCHANGED withdrawn

\* The transfers of sig that failed did so for a reason that is still there.
Caused(sig, transfers) ==
    \A i \in failures'[sig] :
        /\ i \in DOMAIN transfers
        /\ \/ transfers[i].recipient \in Refusers
           \/ transfers[i].token = NATIVE /\ transfers[i].recipient \in deposits'
           \/ transfers[i].amount > funds'[transfers[i].token][TheVault]

\* What is known of a signature when it is accepted.
LEMMA AuthorisedFacts ==
    ASSUME VaultInv, NEW sig \in Signatures, NEW nonce \in Nonces, NEW fn, NEW args,
           ConsumesKeyNonce(TheVault, sig, nonce, fn, args)
    PROVE  /\ keyManager[TheVault] \in KeyManagers /\ Accepts(keyManager[TheVault], sig)
           /\ ~ Used(sig) /\ failures[sig] = {}
           /\ sig.hash.call.fn = fn /\ sig.hash.call.args = args /\ args \in SignedArgs(fn)
           /\ fn \in Paying => /\ TransfersOf(sig) = args.transfers /\ args.transfers \in Seq(Payment)
                               /\ fn \in SinglePaying => Len(args.transfers) = 1
           /\ fn \notin Paying => TransfersOf(sig) = <<>>
<1>1. /\ keyManager[TheVault] \in KeyManagers /\ Accepts(keyManager[TheVault], sig)
      /\ sig.hash.call.fn = fn /\ sig.hash.call.args = args /\ args \in SignedArgs(fn)
    BY VaultFacts, ConsumesIsNonceUse
<1>2. uses[sig] = 0
    BY <1>1, AcceptFacts DEF VaultInv
<1>3. ~ Used(sig) /\ failures[sig] = {}
    BY <1>2 DEF Used, VaultInv, FailuresOfUsed
<1> QED
    BY <1>1, <1>3, SignedTransfers

\* All that the functions that pay in batches do.
LEMMA BatchStep ==
    ASSUME VaultInv, NEW sig \in Signatures, sig.hash.call.fn # "executexSwapAndCall",
           NEW deploy \in Seq(DepositContracts), NEW fetch, NEW transfers \in Seq(Payment),
           transfers = TransfersOf(sig), Batch(sig, deploy, fetch, transfers), UNCHANGED withdrawn
    PROVE  LocalTypes' /\ RunFine' /\ Pays(sig) /\ Caused(sig, transfers)
<1> DEFINE swept == SentOnCreation(deploy) \cup Fetched(fetch)
           f == Swept(funds, swept)
           existing == deposits \cup Deployed(deploy)
           held(a) == SumFunctionOnSet(funds[a], SweptFrom(swept, a))
<1>1. PICK refused \in SUBSET {i \in DOMAIN transfers : transfers[i].recipient \in Refusers} :
         FetchThenTransfer(sig, deploy, fetch, transfers, refused)
    BY DEF Batch
<1> DEFINE after == TransferBatchFrom(f, transfers, refused, existing)
<1>2. /\ funds' = after.funds
      /\ failures' = [failures EXCEPT ![sig] = after.failed]
      /\ received' = [a \in Assets |-> received[a] + HeldBy(swept, a)]
      /\ deposits' = existing
      /\ UNCHANGED <<runVars, receiverVars>>
    BY <1>1 DEF FetchThenTransfer, Batch
<1>3. \A a \in Assets : HeldBy(swept, a) = held(a)
    BY DEF HeldBy, SweptFrom
<1> HIDE DEF swept
<1>4. f \in Holdings /\ \A a \in Assets : held(a) \in Nat /\ f[a][TheVault] = funds[a][TheVault] + held(a)
    <2>1. funds \in Holdings
        BY VaultFacts DEF LocalTypes
    <2> QED
        BY <2>1, SweptFunds
<1>5. deposits' \subseteq DepositContracts
    BY <1>2, VaultFacts DEF LocalTypes, Deployed
<1> HIDE DEF f, existing, held
<1>6. BatchFine(after, Len(transfers), f, transfers, refused, existing)
    BY <1>4, BatchPays
<1> HIDE DEF after
<1>7. after.funds \in Holdings /\ after.failed \in SUBSET Nat
    BY <1>6 DEF BatchFine
<1>8. LocalTypes'
    <2>1. received' \in [Assets -> Nat]
        BY <1>2, <1>3, <1>4, VaultFacts DEF LocalTypes
    <2> QED
        BY <1>2, <1>5, <1>7, <2>1, VaultFacts DEF LocalTypes, receiverVars
<1>9. RunFine'
    BY <1>2, VaultFacts DEF RunFine, runVars, NothingAllowed
<1>10. failures'[sig] = after.failed /\ \A s \in Signatures : s # sig => failures'[s] = failures[s]
    BY <1>2, VaultFacts DEF LocalTypes
<1>11. ASSUME NEW a \in Assets
       PROVE  funds'[a][TheVault] + TransferSum(TransfersOf(sig), failures'[sig], a) + received[a]
                 = funds[a][TheVault] + received'[a]
    <2>1. funds'[a][TheVault] + TransferSum(TransfersOf(sig), failures'[sig], a) = f[a][TheVault]
        BY <1>2, <1>6, <1>10 DEF BatchFine, TransferSum
    <2>2. received'[a] = received[a] + held(a)
        BY <1>2, <1>3
    <2>3. received[a] \in Nat /\ funds[a][TheVault] \in Nat
        BY VaultFacts DEF LocalTypes
    <2> QED
        BY <1>4, <2>1, <2>2, <2>3
<1>12. ASSUME NEW a \in Assets PROVE received'[a] >= received[a]
    <2>1. received[a] \in Nat /\ received'[a] = received[a] + held(a)
        BY <1>2, <1>3, VaultFacts DEF LocalTypes
    <2> QED
        BY <1>4, <2>1
<1>13. ASSUME NEW r \in CFReceivers, NEW a \in Assets
       PROVE  ~ SwapTo(sig, r) /\ told'[r][a] = told[r][a] + 0
    <2>1. told[r][a] \in Nat
        BY VaultFacts DEF LocalTypes
    <2> QED
        BY <1>2, <2>1 DEF SwapTo, receiverVars
<1>14. Caused(sig, transfers)
    <2>1. after.failed \subseteq DOMAIN transfers
        BY <1>6 DEF BatchFine
    <2> QED
        BY <1>1, <1>2, <1>6, <1>10, <2>1 DEF Caused, BatchFine
<1>15. Pays(sig)
    <2>1. failures'[sig] \subseteq DOMAIN TransfersOf(sig)
        BY <1>14 DEF Caused
    <2> QED
        BY <1>10, <1>11, <1>13, <1>12, <2>1 DEF Pays
<1> QED
    BY <1>8, <1>9, <1>14, <1>15

\* A single payment, of which some may come back in the same call.
LEMMA SinglePayment ==
    ASSUME VaultInv, NEW p \in Payment, CanPay(funds, p.token, TheVault, p.amount),
           funds' \in Holdings,
           \A a \in Assets : funds'[a][TheVault] >= Paid(funds, p)[a][TheVault],
           received' = [a \in Assets |->
              received[a] + funds'[a][TheVault] - Paid(funds, p)[a][TheVault]]
    PROVE  /\ received' \in [Assets -> Nat]
           /\ \A a \in Assets : received'[a] >= received[a]
           /\ \A a \in Assets :
                 funds'[a][TheVault] + received[a]
                   + (IF a = p.token /\ p.recipient # TheVault THEN p.amount ELSE 0)
                      = funds[a][TheVault] + received'[a]
<1> DEFINE paid == Paid(funds, p)
<1>1. /\ funds \in Holdings /\ received \in [Assets -> Nat] /\ TheVault \in Parties
      /\ p.amount \in Nat
    BY VaultFacts DEF LocalTypes, Payment
<1>2. /\ paid \in Holdings
      /\ \A a \in Assets : paid[a][TheVault] =
            IF a = p.token /\ p.recipient # TheVault
            THEN funds[a][TheVault] - p.amount ELSE funds[a][TheVault]
    BY <1>1, PaidFunds
<1> HIDE DEF paid
<1>3. ASSUME NEW a \in Assets
      PROVE  /\ received[a] + funds'[a][TheVault] - paid[a][TheVault] \in Nat
             /\ received[a] + funds'[a][TheVault] - paid[a][TheVault] >= received[a]
             /\ funds'[a][TheVault] + received[a]
                   + (IF a = p.token /\ p.recipient # TheVault THEN p.amount ELSE 0)
                      = funds[a][TheVault] + (received[a] + funds'[a][TheVault] - paid[a][TheVault])
    <2>1. PICK x \in Nat, y \in Nat, z \in Nat, w \in Nat :
             x = received[a] /\ y = funds'[a][TheVault] /\ z = paid[a][TheVault] /\ w = funds[a][TheVault]
        BY <1>1, <1>2 DEF Holdings
    <2>2. y >= z
        BY <2>1 DEF paid
    <2>3. x + y - z \in Nat /\ x + y - z >= x
        BY <2>2
    <2>4. CASE a = p.token /\ p.recipient # TheVault
        <3>1. PICK n \in Nat : n = p.amount
            BY <1>1
        <3>2. z = w - n
            BY <1>2, <2>1, <2>4, <3>1
        <3>3. y + x + n = w + (x + y - z)
            BY <3>2
        <3> QED
            BY <2>1, <2>3, <2>4, <3>1, <3>3
    <2>5. CASE ~ (a = p.token /\ p.recipient # TheVault)
        <3>1. z = w
            BY <1>2, <2>1, <2>5
        <3>2. y + x + 0 = w + (x + y - z)
            BY <3>1
        <3> QED
            BY <2>1, <2>3, <2>5, <3>2
    <2> QED
        BY <2>4, <2>5
<1> QED
    BY <1>3 DEF paid

\* A signature over a single payment that is made.
LEMMA SinglePays ==
    ASSUME VaultInv, NEW sig \in Signatures, NEW p, TransfersOf(sig)[1] = p,
           Len(TransfersOf(sig)) = 1, failures[sig] = {}, failures' = failures,
           CanPay(funds, p.token, TheVault, p.amount), funds' \in Holdings,
           \A a \in Assets : funds'[a][TheVault] >= Paid(funds, p)[a][TheVault],
           received' = [a \in Assets |->
              received[a] + funds'[a][TheVault] - Paid(funds, p)[a][TheVault]],
           UNCHANGED withdrawn,
           \A r \in CFReceivers, a \in Assets : told'[r][a] = told[r][a] +
              (IF SwapTo(sig, r) THEN TransferSum(TransfersOf(sig), failures[sig], a) ELSE 0)
    PROVE  received' \in [Assets -> Nat] /\ Pays(sig)
<1>1. TransfersOf(sig) \in Seq(Payment)
    BY SignedTransfers
<1>2. p \in Payment /\ 1 \in DOMAIN TransfersOf(sig)
    BY <1>1
<1>3. /\ received' \in [Assets -> Nat]
      /\ \A a \in Assets : received'[a] >= received[a]
      /\ \A a \in Assets :
            funds'[a][TheVault] + received[a]
              + (IF a = p.token /\ p.recipient # TheVault THEN p.amount ELSE 0)
                 = funds[a][TheVault] + received'[a]
    BY <1>2, SinglePayment
<1>4. \A a \in Assets : TransferSum(TransfersOf(sig), failures[sig], a) =
         IF a = p.token /\ p.recipient # TheVault THEN p.amount ELSE 0
    BY <1>1, SingleSum
<1>5. ASSUME NEW a \in Assets
      PROVE  funds'[a][TheVault] + TransferSum(TransfersOf(sig), failures'[sig], a) + received[a]
                = funds[a][TheVault] + received'[a]
    <2> DEFINE n == TransferSum(TransfersOf(sig), failures'[sig], a)
    <2>1. n \in Nat /\ funds'[a][TheVault] \in Nat /\ received[a] \in Nat
        BY TransferSumType, VaultFacts DEF LocalTypes, Holdings
    <2>2. funds'[a][TheVault] + received[a] + n = funds[a][TheVault] + received'[a]
        BY <1>3, <1>4
    <2> HIDE DEF n
    <2> QED
        BY <2>1, <2>2 DEF n
<1> QED
    BY <1>3, <1>5 DEF Pays

\* What a call that is no swap leaves of the receivers' books.
LEMMA NoSwap ==
    ASSUME VaultInv, NEW sig \in Signatures, sig.hash.call.fn # "executexSwapAndCall",
           UNCHANGED told
    PROVE  \A r \in CFReceivers, a \in Assets : told'[r][a] = told[r][a] +
              (IF SwapTo(sig, r) THEN TransferSum(TransfersOf(sig), failures'[sig], a) ELSE 0)
<1>1. \A r \in CFReceivers, a \in Assets : told[r][a] \in Nat
    BY VaultFacts DEF LocalTypes
<1>2. \A r : ~ SwapTo(sig, r)
    BY DEF SwapTo
<1> QED
    BY <1>1, <1>2

LEMMA TransferFallbackStep ==
    ASSUME VaultInv, NEW sig \in Signatures, NEW nonce \in Nonces, NEW args,
           TransferFallback(sig, nonce, args)
    PROVE  LocalTypes' /\ RunFine' /\ Accepts(keyManager[TheVault], sig) /\ Pays(sig)
<1> DEFINE p == args.transfers[1]
           rest == [funds EXCEPT ![p.token][TheVault] = @ - p.amount]
           paid == Paid(funds, p)
<1>1. /\ Authorised(sig, nonce, "transferFallback", args)
      /\ CanPay(funds, p.token, TheVault, p.amount)
      /\ funds' = IF p.token = NATIVE THEN Received(rest, p.recipient, p.amount) ELSE paid
      /\ received' = [a \in Assets |-> received[a] + funds'[a][TheVault] - paid[a][TheVault]]
      /\ stack' = (IF p.token = NATIVE /\ p.recipient \in Receivers
                   THEN <<Called(p.recipient)>> ELSE <<>>) \o stack
      /\ UNCHANGED <<deposits, isRunning, allowance, receiverVars, failures>>
    BY DEF TransferFallback
<1>2. /\ ConsumesKeyNonce(TheVault, sig, nonce, "transferFallback", args)
      /\ UNCHANGED withdrawn
    BY <1>1 DEF Authorised
<1>3. /\ Accepts(keyManager[TheVault], sig) /\ failures[sig] = {}
      /\ sig.hash.call.fn = "transferFallback"
      /\ TransfersOf(sig) = args.transfers /\ args.transfers \in Seq(Payment)
      /\ Len(args.transfers) = 1
    BY <1>2, AuthorisedFacts DEF Paying, SinglePaying
<1>4. p \in Payment
    BY <1>3
<1>5. /\ funds \in Holdings /\ TheVault \in Parties
      /\ p.token \in Assets /\ p.recipient \in Parties /\ p.amount \in Nat
    BY <1>4, VaultFacts DEF LocalTypes, Payment
<1>6. /\ paid \in Holdings
      /\ \A a \in Assets : paid[a][TheVault] =
            IF a = p.token /\ p.recipient # TheVault
            THEN funds[a][TheVault] - p.amount ELSE funds[a][TheVault]
    BY <1>1, <1>4, <1>5, PaidFunds
<1>7. /\ rest \in Holdings
      /\ \A a \in Assets : rest[a][TheVault] =
            IF a = p.token THEN funds[a][TheVault] - p.amount ELSE funds[a][TheVault]
    <2>1. PICK b \in Assets, n \in Nat : b = p.token /\ n = p.amount
        BY <1>5
    <2>2. CanPay(funds, b, TheVault, n) /\ rest = [funds EXCEPT ![b][TheVault] = @ - n]
        BY <1>1, <2>1
    <2>3. LET g == [funds EXCEPT ![b][TheVault] = @ - n] IN
          /\ g \in Holdings
          /\ \A a \in Assets : g[a][TheVault] =
                IF a = b THEN funds[a][TheVault] - n ELSE funds[a][TheVault]
        BY <1>5, <2>2, DrawnFunds
    <2> HIDE DEF rest, p
    <2> QED
        BY <2>1, <2>2, <2>3
<1> HIDE DEF paid, rest
<1>8. funds' \in Holdings /\ \A a \in Assets : funds'[a][TheVault] >= paid[a][TheVault]
    <2>1. CASE p.token = NATIVE
        <3> DEFINE g == Received(rest, p.recipient, p.amount)
        <3>1. /\ g \in Holdings
              /\ \A a \in Assets : g[a][TheVault] >= rest[a][TheVault]
              /\ p.recipient = TheVault => g[NATIVE][TheVault] >= rest[NATIVE][TheVault] + p.amount
            BY <1>5, <1>7, ReceivedFunds
        <3>2. funds' = g
            BY <1>1, <2>1
        <3> HIDE DEF g
        <3>3. \A a \in Assets : g[a][TheVault] \in Nat /\ funds[a][TheVault] \in Nat
            BY <1>5, <3>1 DEF Holdings
        <3> QED
            BY <1>5, <1>6, <1>7, <2>1, <3>1, <3>2, <3>3
    <2>2. CASE p.token # NATIVE
        <3>1. \A a \in Assets : paid[a][TheVault] \in Nat
            BY <1>5, <1>6 DEF Holdings
        <3> QED
            BY <1>1, <1>6, <2>2, <3>1
    <2> QED
        BY <2>1, <2>2
<1>9. received' \in [Assets -> Nat] /\ Pays(sig)
    <2>1. UNCHANGED told /\ failures' = failures
        BY <1>1 DEF receiverVars
    <2>2. \A r \in CFReceivers, a \in Assets : told'[r][a] = told[r][a] +
             (IF SwapTo(sig, r) THEN TransferSum(TransfersOf(sig), failures'[sig], a) ELSE 0)
        BY <1>3, <2>1, NoSwap
    <2>3. TransfersOf(sig)[1] = p /\ Len(TransfersOf(sig)) = 1
        BY <1>3
    <2> HIDE DEF p
    <2> QED
        <3>1. /\ failures[sig] = {} /\ CanPay(funds, p.token, TheVault, p.amount)
              /\ funds' \in Holdings /\ \A a \in Assets : funds'[a][TheVault] >= Paid(funds, p)[a][TheVault]
              /\ received' = [a \in Assets |->
                    received[a] + funds'[a][TheVault] - Paid(funds, p)[a][TheVault]]
              /\ UNCHANGED withdrawn
            BY <1>1, <1>2, <1>3, <1>8 DEF paid
        <3>2. \A r \in CFReceivers, a \in Assets : told'[r][a] = told[r][a] +
                 (IF SwapTo(sig, r) THEN TransferSum(TransfersOf(sig), failures[sig], a) ELSE 0)
            BY <2>1, <2>2
        <3> QED
            BY <2>1, <2>3, <3>1, <3>2, SinglePays
<1>10. LocalTypes'
    BY <1>1, <1>2, <1>8, <1>9, VaultFacts DEF LocalTypes, receiverVars
<1>11. RunFine'
    <2>1. \/ stack' = stack
          \/ p.recipient \in Receivers /\ stack' = <<Called(p.recipient)>> \o stack
        <3>1. stack \in Seq(Frames)
            BY VaultFacts DEF RunFine
        <3>2. <<>> \o stack = stack
            BY <3>1, EmptyBefore
        <3>3. \/ stack' = <<>> \o stack
              \/ p.recipient \in Receivers /\ stack' = <<Called(p.recipient)>> \o stack
            BY <1>1, Zenon
        <3> QED
            BY <3>2, <3>3, Zenon
    <2>2. stack' \in Seq(Frames) /\ OneRun(stack', isRunning)
        BY <2>1, VaultFacts, PushCalled DEF RunFine
    <2> QED
        BY <1>1, <2>2, VaultFacts DEF RunFine, NothingAllowed
<1> QED
    BY <1>3, <1>9, <1>10, <1>11

\* A swap tells its receiver what it is paid, and ScUtils passes it on.
LEMMA SwapStep ==
    ASSUME VaultInv, NEW sig \in Signatures, NEW nonce \in Nonces, NEW args,
           ExecutexSwapAndCall(sig, nonce, args)
    PROVE  /\ LocalTypes' /\ RunFine' /\ Accepts(keyManager[TheVault], sig) /\ Pays(sig)
           /\ failures' = failures /\ failures[sig] = {}
           /\ SwapTo(sig, TheScUtils) => \A a \in Assets : funds'[a][TheScUtils] = funds[a][TheScUtils]
<1> DEFINE p == args.transfers[1]
           paid == Paid(funds, p)
<1>1. /\ Authorised(sig, nonce, "executexSwapAndCall", args)
      /\ CanPay(funds, p.token, TheVault, p.amount)
      /\ CallWithFunds(paid, p, args)
      /\ received' = [a \in Assets |-> received[a] + funds'[a][TheVault] - paid[a][TheVault]]
      /\ UNCHANGED <<deposits, failures>>
    BY DEF ExecutexSwapAndCall
<1>2. /\ ConsumesKeyNonce(TheVault, sig, nonce, "executexSwapAndCall", args)
      /\ UNCHANGED withdrawn
    BY <1>1 DEF Authorised
<1>3. /\ Accepts(keyManager[TheVault], sig) /\ failures[sig] = {}
      /\ sig.hash.call.fn = "executexSwapAndCall" /\ sig.hash.call.args = args
      /\ args \in SignedArgs("executexSwapAndCall")
      /\ TransfersOf(sig) = args.transfers /\ args.transfers \in Seq(Payment)
      /\ Len(args.transfers) = 1
    BY <1>2, AuthorisedFacts DEF Paying, SinglePaying
<1>4. p \in Payment
    BY <1>3
<1>5. /\ funds \in Holdings /\ TheVault \in Parties
      /\ p.token \in Assets /\ p.recipient \in Parties /\ p.amount \in Nat
    BY <1>4, VaultFacts DEF LocalTypes, Payment
<1>6. /\ paid \in Holdings
      /\ \A a \in Assets, q \in Parties \ {TheVault} : paid[a][q] =
            IF a = p.token /\ q = p.recipient THEN funds[a][q] + p.amount ELSE funds[a][q]
    BY <1>1, <1>4, <1>5, PaidFunds
<1>7. \A r : SwapTo(sig, r) <=> p.recipient = r
    BY <1>3 DEF SwapTo
<1> HIDE DEF paid
<1>8. \A a \in Assets : TransferSum(TransfersOf(sig), failures[sig], a) =
         IF a = p.token /\ p.recipient # TheVault THEN p.amount ELSE 0
    BY <1>3, SingleSum
<1>9. ASSUME funds' \in Holdings, RunFine',
             \A a \in Assets : funds'[a][TheVault] >= paid[a][TheVault],
             cfVault' \in [CFReceivers -> {TheVault} \cup OtherVaults],
             told' \in [CFReceivers -> [Assets -> Nat]],
             \A r \in CFReceivers, a \in Assets : told'[r][a] = told[r][a] +
                (IF r = p.recipient /\ a = p.token THEN p.amount ELSE 0),
             p.recipient = TheScUtils =>
                \A a \in Assets : funds'[a][TheScUtils] = funds[a][TheScUtils]
      PROVE  /\ LocalTypes' /\ RunFine' /\ Pays(sig)
             /\ SwapTo(sig, TheScUtils) => \A a \in Assets : funds'[a][TheScUtils] = funds[a][TheScUtils]
    <2>1. TheVault \notin CFReceivers
        BY VaultAddresses
    <2>2. \A r \in CFReceivers, a \in Assets : told'[r][a] = told[r][a] +
             (IF SwapTo(sig, r) THEN TransferSum(TransfersOf(sig), failures[sig], a) ELSE 0)
        BY <1>7, <1>8, <1>9, <2>1
    <2>3. TransfersOf(sig)[1] = p /\ Len(TransfersOf(sig)) = 1 /\ failures' = failures
        BY <1>1, <1>3
    <2>4. received' \in [Assets -> Nat] /\ Pays(sig)
        <3>1. /\ failures[sig] = {} /\ CanPay(funds, p.token, TheVault, p.amount)
              /\ funds' \in Holdings /\ \A a \in Assets : funds'[a][TheVault] >= Paid(funds, p)[a][TheVault]
              /\ received' = [a \in Assets |->
                    received[a] + funds'[a][TheVault] - Paid(funds, p)[a][TheVault]]
              /\ UNCHANGED withdrawn
            BY <1>1, <1>2, <1>3, <1>9 DEF paid
        <3> HIDE DEF p
        <3> QED
            BY <2>2, <2>3, <3>1, SinglePays
    <2>5. LocalTypes'
        BY <1>1, <1>2, <1>9, <2>4, VaultFacts DEF LocalTypes
    <2> QED
        BY <1>7, <1>9, <2>4, <2>5
<1>10. CASE p.recipient \in Receivers
    <2>1. /\ funds' = paid /\ CfReceive(TheVault, p.recipient, p.token, p.amount)
          /\ stack' = <<Called(p.recipient)>> \o stack /\ UNCHANGED <<isRunning, allowance>>
        BY <1>1, <1>10, VaultAddresses DEF CallWithFunds
    <2>2. RunFine'
        BY <1>10, <2>1, VaultFacts, PushCalled DEF RunFine, NothingAllowed
    <2>3. /\ cfVault' = cfVault
          /\ told' = IF p.recipient \in CFReceivers
                     THEN [told EXCEPT ![p.recipient][p.token] = @ + p.amount] ELSE told
        BY <2>1 DEF CfReceive
    <2>4. \A r \in CFReceivers, a \in Assets : told[r][a] \in Nat
        BY VaultFacts DEF LocalTypes
    <2>5. /\ told' \in [CFReceivers -> [Assets -> Nat]]
          /\ \A r \in CFReceivers, a \in Assets : told'[r][a] = told[r][a] +
                (IF r = p.recipient /\ a = p.token THEN p.amount ELSE 0)
        <3>1. PICK to \in Parties, t \in Assets, n \in Nat :
                 to = p.recipient /\ t = p.token /\ n = p.amount
            BY <1>5
        <3>2. told \in [CFReceivers -> [Assets -> Nat]]
            BY VaultFacts DEF LocalTypes
        <3>3. told' = IF to \in CFReceivers THEN [told EXCEPT ![to][t] = @ + n] ELSE told
            BY <2>3, <3>1
        <3> HIDE DEF p
        <3>4. told' \in [CFReceivers -> [Assets -> Nat]]
            BY <3>1, <3>2, <3>3
        <3>5. \A r \in CFReceivers, a \in Assets : told'[r][a] = told[r][a] +
                 (IF r = to /\ a = t THEN n ELSE 0)
            BY <2>4, <3>1, <3>2, <3>3
        <3> QED
            BY <3>1, <3>4, <3>5
    <2>6. \A a \in Assets : paid[a][TheVault] \in Nat
        BY <1>5, <1>6 DEF Holdings
    <2>7. \A a \in Assets : funds'[a][TheVault] >= paid[a][TheVault]
        BY <2>1, <2>6
    <2>8. p.recipient # TheScUtils
        BY <1>10, VaultAddresses
    <2>9. cfVault' \in [CFReceivers -> {TheVault} \cup OtherVaults]
        BY <2>3, VaultFacts DEF LocalTypes
    <2> QED
        BY <1>3, <1>6, <1>9, <1>1, <2>1, <2>2, <2>5, <2>7, <2>8, <2>9
<1>11. CASE p.recipient \notin Receivers
    <2> DEFINE to == Target(args.to)
    <2>1. p.recipient = TheScUtils /\ ScUtilsReceive(TheVault, paid, p.token, args.to, p.amount)
        BY <1>1, <1>11 DEF CallWithFunds
    <2>2. args.to \in Parties
        BY <1>3, <2>1, ArgumentAssumption
    <2>3. to \in Parties /\ to # TheScUtils
        BY <2>2, VaultAddresses, ScUtilsAssumption DEF Target
    <2>4. PayOn(paid, p.token, TheScUtils, to, p.amount)
        BY <2>1 DEF ScUtilsReceive
    <2>5. TheScUtils \in Addresses \ {TheVault} /\ TheScUtils \in Parties
        BY VaultAddresses
    <2> HIDE DEF to
    <2>6. /\ RunFine' /\ funds' \in Holdings
          /\ \A a \in Assets : funds'[a][TheVault] >= paid[a][TheVault]
          /\ \A a \in Assets : funds'[a][TheScUtils] =
                IF a = p.token THEN paid[a][TheScUtils] - p.amount ELSE paid[a][TheScUtils]
          /\ UNCHANGED receiverVars
        <3>1. PICK t \in Assets, n \in Nat : t = p.token /\ n = p.amount
            BY <1>5
        <3>2. PayOn(paid, t, TheScUtils, to, n)
            BY <2>4, <3>1
        <3> QED
            BY <1>6, <2>3, <2>5, <3>1, <3>2, PayOnStep
    <2>7. ASSUME NEW a \in Assets PROVE funds'[a][TheScUtils] = funds[a][TheScUtils]
        <3>1. funds[a][TheScUtils] \in Nat
            BY <1>5, <2>5 DEF Holdings
        <3>2. paid[a][TheScUtils] = IF a = p.token THEN funds[a][TheScUtils] + p.amount
                                    ELSE funds[a][TheScUtils]
            BY <1>6, <2>1, <2>5
        <3> QED
            BY <1>5, <2>6, <3>1, <3>2
    <2>8. told' = told /\ cfVault' = cfVault
        BY <2>6 DEF receiverVars
    <2>9. p.recipient \notin CFReceivers
        BY <1>11, VaultAddresses
    <2>10. \A r \in CFReceivers, a \in Assets : told[r][a] \in Nat
        BY VaultFacts DEF LocalTypes
    <2>11. \A r \in CFReceivers, a \in Assets : told'[r][a] = told[r][a] +
              (IF r = p.recipient /\ a = p.token THEN p.amount ELSE 0)
        BY <2>8, <2>9, <2>10
    <2>12. /\ told' \in [CFReceivers -> [Assets -> Nat]]
           /\ cfVault' \in [CFReceivers -> {TheVault} \cup OtherVaults]
        BY <2>8, VaultFacts DEF LocalTypes
    <2> HIDE DEF p
    <2> QED
        BY <1>1, <1>3, <1>9, <2>6, <2>7, <2>11, <2>12
<1> QED
    BY <1>1, <1>3, <1>10, <1>11

LEMMA XCallStep ==
    ASSUME VaultInv, NEW sig \in Signatures, NEW nonce \in Nonces, NEW args,
           ExecutexCall(sig, nonce, args)
    PROVE  LocalTypes' /\ RunFine' /\ Accepts(keyManager[TheVault], sig) /\ Pays(sig)
<1>1. /\ ConsumesKeyNonce(TheVault, sig, nonce, "executexCall", args)
      /\ args.recipient \in Receivers
      /\ stack' = <<Called(args.recipient)>> \o stack
      /\ UNCHANGED <<funds, deposits, isRunning, allowance, failures, received, withdrawn>>
      /\ cfVault' = cfVault /\ told' = told
    BY DEF ExecutexCall, Authorised, CfReceivexCall, receiverVars
<1>2. /\ Accepts(keyManager[TheVault], sig) /\ failures[sig] = {}
      /\ sig.hash.call.fn = "executexCall" /\ TransfersOf(sig) = <<>>
    BY <1>1, AuthorisedFacts DEF Paying, SinglePaying
<1>3. RunFine'
    BY <1>1, VaultFacts, PushCalled DEF RunFine, NothingAllowed
<1>4. LocalTypes'
    BY <1>1, VaultFacts DEF LocalTypes
<1>5. ASSUME NEW a \in Assets
      PROVE  funds'[a][TheVault] + TransferSum(TransfersOf(sig), failures'[sig], a) + received[a]
                = funds[a][TheVault] + received'[a]
    <2>1. TransferSum(TransfersOf(sig), failures'[sig], a) = 0
        BY <1>2, NoSum
    <2>2. funds[a][TheVault] \in Nat /\ received[a] \in Nat
        BY VaultFacts DEF LocalTypes
    <2> QED
        BY <1>1, <2>1, <2>2
<1>6. \A r \in CFReceivers, a \in Assets : told'[r][a] = told[r][a] +
         (IF SwapTo(sig, r) THEN TransferSum(TransfersOf(sig), failures'[sig], a) ELSE 0)
    BY <1>1, <1>2, NoSwap
<1>7. Pays(sig)
    <2>1. \A a \in Assets : received'[a] >= received[a]
        BY <1>1, VaultFacts DEF LocalTypes
    <2> QED
        BY <1>1, <1>2, <1>5, <1>6, <2>1 DEF Pays
<1> QED
    BY <1>2, <1>3, <1>4, <1>7

\* A run that ends well is a payment to the Multicall, and its allowance is
\* spent; one that is undone is a payment that is not made.
LEMMA ActionsStep ==
    ASSUME VaultInv, NEW sig \in Signatures, NEW nonce \in Nonces, NEW args,
           ExecuteActions(sig, nonce, args)
    PROVE  LocalTypes' /\ RunFine' /\ Accepts(keyManager[TheVault], sig) /\ Pays(sig)
<1> DEFINE p == args.transfers[1]
<1>1. /\ ConsumesKeyNonce(TheVault, sig, nonce, "executeActions", args)
      /\ withdrawn' = withdrawn /\ p.recipient = TheMulticall
      /\ deposits' = deposits /\ received' = received /\ told' = told /\ cfVault' = cfVault
    BY DEF ExecuteActions, ActionsSucceed, ActionsFail, Authorised, receiverVars
<1>2. /\ Accepts(keyManager[TheVault], sig) /\ failures[sig] = {}
      /\ sig.hash.call.fn = "executeActions" /\ args \in SignedArgs("executeActions")
      /\ TransfersOf(sig) = args.transfers /\ args.transfers \in Seq(Payment)
      /\ Len(args.transfers) = 1
    BY <1>1, AuthorisedFacts DEF Paying, SinglePaying
<1>3. p \in Payment
    BY <1>2
<1>4. /\ funds \in Holdings /\ TheVault \in Parties /\ TheMulticall # TheVault
      /\ p.token \in Assets /\ p.recipient \in Parties /\ p.amount \in Nat
      /\ allowance \in [Tokens -> Nat] /\ \A t \in Tokens : allowance[t] = 0
      /\ \A a \in Assets : received[a] \in Nat
      /\ received \in [Assets -> Nat]
    BY <1>3, VaultFacts, VaultAddresses DEF LocalTypes, RunFine, NothingAllowed, Payment
<1>5. UNCHANGED told
    BY <1>1
<1>6. \A r \in CFReceivers, a \in Assets : told'[r][a] = told[r][a] +
         (IF SwapTo(sig, r) THEN TransferSum(TransfersOf(sig), failures'[sig], a) ELSE 0)
    BY <1>2, <1>5, NoSwap
<1>7. CASE ActionsSucceed(sig, nonce, args)
    <2> DEFINE paid == Paid(funds, p)
               x == Running(args.calls)
    <2>1. /\ CanPay(funds, p.token, TheVault, p.amount)
          /\ funds' = Moved(funds, p.token, TheVault, TheMulticall, p.amount)
          /\ allowance' = IF p.token \in Tokens /\ p.amount > 0
                          THEN [allowance EXCEPT ![p.token] = p.amount - p.amount] ELSE allowance
          /\ stack' = <<x>> \o stack /\ ~ isRunning /\ isRunning' = TRUE
          /\ failures' = failures
        BY <1>7 DEF ActionsSucceed, StartRun, Approved, Idle
    <2>2. funds' = paid
        BY <1>1, <2>1 DEF Paid
    <2>3. paid \in Holdings
        BY <1>3, <1>4, <2>1, PaidFunds
    <2> HIDE DEF paid
    <2>4. \A a \in Assets : paid[a][TheVault] \in Nat
        BY <1>4, <2>3 DEF Holdings
    <2>5. received' = [a \in Assets |-> received[a] + funds'[a][TheVault] - paid[a][TheVault]]
        <3>1. \A a \in Assets : received[a] = received[a] + funds'[a][TheVault] - paid[a][TheVault]
            BY <1>4, <2>2, <2>4
        <3> QED
            BY <1>1, <1>4, <3>1
    <2>6. \A a \in Assets : funds'[a][TheVault] >= paid[a][TheVault]
        BY <2>2, <2>4
    <2>7. Pays(sig)
        <3>1. TransfersOf(sig)[1] = p /\ Len(TransfersOf(sig)) = 1
            BY <1>2
        <3>2. funds' \in Holdings /\ UNCHANGED withdrawn
            BY <1>1, <2>2, <2>3
        <3> HIDE DEF p
        <3> QED
            BY <1>2, <1>6, <2>1, <2>5, <2>6, <3>1, <3>2, SinglePays DEF paid
    <2>8. LocalTypes'
        BY <1>1, <2>1, <2>2, <2>3, VaultFacts DEF LocalTypes
    <2>9. args.calls \in Seq(Calls)
        BY <1>2, ArgumentAssumption
    <2>10. x \in Frames /\ x.code = "multicall"
        BY <2>9 DEF Running, Frames
    <2> HIDE DEF x
    <2>11. stack' \in Seq(Frames) /\ OneRun(stack', TRUE)
        BY <2>1, <2>10, VaultFacts, PushRun DEF RunFine
    <2>12. allowance' \in [Tokens -> Nat] /\ \A t \in Tokens : allowance'[t] = 0
        BY <1>4, <2>1
    <2>13. RunFine'
        BY <2>1, <2>11, <2>12 DEF RunFine, NothingAllowed
    <2> QED
        BY <1>2, <2>7, <2>8, <2>13
<1>8. CASE ActionsFail(sig, nonce, args)
    <2>1. /\ allowance' = ResetAllowance(p) /\ failures' = [failures EXCEPT ![sig] = {1}]
          /\ funds' = funds /\ stack' = stack /\ isRunning' = isRunning
        BY <1>8 DEF ActionsFail
    <2>2. allowance' = allowance
        <3>1. allowance' \in [Tokens -> Nat] /\ \A t \in Tokens : allowance'[t] = allowance[t]
            BY <1>4, <2>1 DEF ResetAllowance
        <3> QED
            BY <1>4, <3>1
    <2>3. RunFine'
        BY <2>1, <2>2, VaultFacts DEF RunFine, NothingAllowed
    <2>4. /\ failures' \in [Signatures -> SUBSET Nat] /\ failures'[sig] = {1}
          /\ \A s \in Signatures : s # sig => failures'[s] = failures[s]
        BY <2>1, VaultFacts DEF LocalTypes
    <2>5. LocalTypes'
        BY <1>1, <2>1, <2>4, VaultFacts DEF LocalTypes
    <2>6. ASSUME NEW a \in Assets
          PROVE  funds'[a][TheVault] + TransferSum(TransfersOf(sig), failures'[sig], a) + received[a]
                    = funds[a][TheVault] + received'[a]
        <3>1. TransferSum(TransfersOf(sig), failures'[sig], a) = 0
            BY <1>2, <2>4, SingleSum
        <3>2. funds[a][TheVault] \in Nat
            BY VaultFacts
        <3> QED
            BY <1>1, <1>4, <2>1, <3>1, <3>2
    <2>7. Pays(sig)
        <3>1. failures'[sig] \subseteq DOMAIN TransfersOf(sig)
            BY <1>2, <2>4
        <3>2. \A a \in Assets : received'[a] >= received[a]
            BY <1>1, <1>4
        <3> QED
            BY <1>1, <1>2, <1>6, <2>4, <2>6, <3>1, <3>2 DEF Pays
    <2> QED
        BY <1>2, <2>3, <2>5, <2>7
<1> QED
    BY <1>7, <1>8 DEF ExecuteActions

\* The functions that pay in batches, all of them.
LEMMA BatchActions ==
    ASSUME VaultInv, NEW sig \in Signatures, NEW nonce \in Nonces, NEW args,
           \/ AllBatch(sig, nonce, args) \/ AllBatchV2(sig, nonce, args)
           \/ Transfer(sig, nonce, args) \/ TransferBatch(sig, nonce, args)
           \/ DeployAndFetchBatch(sig, nonce, args) \/ FetchBatch(sig, nonce, args)
    PROVE  /\ LocalTypes' /\ RunFine' /\ Accepts(keyManager[TheVault], sig) /\ Pays(sig)
           /\ Caused(sig, TransfersOf(sig))
           /\ sig.hash.call.fn \in Paying \/ failures'[sig] = {}
<1>1. ASSUME NEW fn \in {"allBatch", "allBatchV2", "transfer", "transferBatch",
                         "deployAndFetchBatch", "fetchBatch"},
             ConsumesKeyNonce(TheVault, sig, nonce, fn, args), UNCHANGED withdrawn,
             NEW deploy, deploy = IF fn \in {"allBatch", "deployAndFetchBatch"} THEN args.deploy ELSE <<>>,
             NEW fetch,
             NEW transfers, transfers = IF fn \in Paying THEN args.transfers ELSE <<>>,
             Batch(sig, deploy, fetch, transfers)
      PROVE  /\ LocalTypes' /\ RunFine' /\ Accepts(keyManager[TheVault], sig) /\ Pays(sig)
             /\ Caused(sig, TransfersOf(sig))
             /\ sig.hash.call.fn \in Paying \/ failures'[sig] = {}
    <2>1. /\ Accepts(keyManager[TheVault], sig) /\ sig.hash.call.fn = fn
          /\ args \in SignedArgs(fn)
          /\ TransfersOf(sig) = transfers
        BY <1>1, AuthorisedFacts
    <2>2. transfers \in Seq(Payment)
        BY <2>1, SignedTransfers
    <2>3. deploy \in Seq(DepositContracts)
        <3>1. <<>> \in Seq(DepositContracts)
            OBVIOUS
        <3> QED
            BY <1>1, <2>1, <3>1, ArgumentAssumption
    <2>4. fn # "executexSwapAndCall"
        BY <1>1
    <2>5. LocalTypes' /\ RunFine' /\ Pays(sig) /\ Caused(sig, transfers)
        BY <1>1, <2>1, <2>2, <2>3, <2>4, BatchStep
    <2>6. fn \in Paying \/ failures'[sig] = {}
        <3> SUFFICES ASSUME fn \notin Paying, NEW i \in failures'[sig] PROVE FALSE
            BY <2>5, VaultFacts DEF LocalTypes
        <3>1. transfers = <<>>
            BY <1>1
        <3> QED
            BY <2>5, <3>1 DEF Caused
    <2> QED
        BY <2>1, <2>5, <2>6
<1> QED
    BY <1>1 DEF AllBatch, AllBatchV2, Transfer, TransferBatch, DeployAndFetchBatch, FetchBatch,
                Authorised, Paying, SinglePaying

\* Everything that acts on a signature makes the payments it orders.
LEMMA SubmitStep ==
    ASSUME VaultInv, NEW sig \in Signatures, NEW nonce \in Nonces, NEW args,
           Submit(sig, nonce, args)
    PROVE  LocalTypes' /\ RunFine' /\ Accepts(keyManager[TheVault], sig) /\ Pays(sig)
<1>1. CASE \/ AllBatch(sig, nonce, args) \/ AllBatchV2(sig, nonce, args)
           \/ Transfer(sig, nonce, args) \/ TransferBatch(sig, nonce, args)
           \/ DeployAndFetchBatch(sig, nonce, args) \/ FetchBatch(sig, nonce, args)
    BY <1>1, BatchActions
<1>2. CASE TransferFallback(sig, nonce, args)
    BY <1>2, TransferFallbackStep
<1>3. CASE ExecutexSwapAndCall(sig, nonce, args)
    BY <1>3, SwapStep
<1>4. CASE ExecutexCall(sig, nonce, args)
    BY <1>4, XCallStep
<1>5. CASE ExecuteActions(sig, nonce, args)
    BY <1>5, ActionsStep
<1> QED
    BY <1>1, <1>2, <1>3, <1>4, <1>5 DEF Submit

\* What leaves the funds and the records as they are.
LEMMA QuietStep ==
    ASSUME VaultInv, UNCHANGED <<chainVars, ledgerVars>>
    PROVE  /\ LocalTypes' /\ RunFine' /\ Gains
           /\ \A sig \in Signatures :
                 sig.hash.call.fn \notin Paying /\ failures[sig] = {} => Pays(sig)
<1>1. /\ LocalTypes' /\ RunFine'
      /\ UNCHANGED <<funds, told, failures, received, withdrawn>>
    BY VaultFacts DEF chainVars, ledgerVars, runVars, receiverVars, LocalTypes, RunFine, NothingAllowed
<1>2. \A a \in Assets : funds[a][TheVault] \in Nat /\ received[a] \in Nat
    BY VaultFacts DEF LocalTypes
<1>3. Gains
    BY <1>1, <1>2 DEF Gains
<1>4. ASSUME NEW sig \in Signatures, sig.hash.call.fn \notin Paying, failures[sig] = {}
      PROVE  Pays(sig)
    <2>1. TransfersOf(sig) = <<>> /\ sig.hash.call.fn # "executexSwapAndCall"
        BY <1>4 DEF TransfersOf, Paying, SinglePaying
    <2>2. \A a \in Assets :
             funds'[a][TheVault] + TransferSum(TransfersOf(sig), failures'[sig], a) + received[a]
                = funds[a][TheVault] + received'[a]
        BY <1>1, <1>2, <2>1, NoSum
    <2>3. \A r \in CFReceivers, a \in Assets : told'[r][a] = told[r][a] +
             (IF SwapTo(sig, r) THEN TransferSum(TransfersOf(sig), failures'[sig], a) ELSE 0)
        BY <1>1, <2>1, NoSwap
    <2>4. \A a \in Assets : received'[a] >= received[a]
        BY <1>1, <1>2
    <2> QED
        BY <1>1, <1>4, <2>1, <2>2, <2>3, <2>4 DEF Pays
<1> QED
    BY <1>1, <1>3, <1>4

LEMMA IncomeGains ==
    ASSUME VaultInv, KeepsFunds, Income, UNCHANGED <<failures, withdrawn, told>>
    PROVE  Gains /\ received' \in [Assets -> Nat]
<1>1. ASSUME NEW a \in Assets
      PROVE  /\ received'[a] \in Nat
             /\ funds'[a][TheVault] + received[a] = funds[a][TheVault] + received'[a]
    <2>1. PICK x \in Nat, y \in Nat, z \in Nat :
             x = received[a] /\ y = funds[a][TheVault] /\ z = funds'[a][TheVault] /\ z >= y
        BY VaultFacts DEF LocalTypes, KeepsFunds, Holdings
    <2>2. received'[a] = x + (z - y)
        BY <2>1 DEF Income, CanPay
    <2> QED
        BY <2>1, <2>2
<1>2. received' = [a \in Assets |-> received'[a]]
    BY DEF Income
<1> QED
    BY <1>1, <1>2 DEF Gains, KeepsFunds

\* The governor takes all there is of some assets.
LEMMA WithdrawStep ==
    ASSUME VaultInv, NEW caller \in Accounts, GovWithdraw(caller)
    PROVE  /\ LocalTypes' /\ RunFine' /\ Withdraws
           /\ \A a \in Assets : funds'[a][TheVault] \in {0, funds[a][TheVault]}
           /\ \A a \in Assets : funds'[a][TheVault] < funds[a][TheVault] =>
                 funds'[a][caller] - funds[a][caller] = funds[a][TheVault] - funds'[a][TheVault]
<1>1. PICK asked \in SUBSET Assets :
         /\ funds' = [a \in Assets |->
               IF a \in asked THEN Moved(funds, a, TheVault, caller, funds[a][TheVault])[a]
               ELSE funds[a]]
         /\ withdrawn' = [a \in Assets |->
               withdrawn[a] + (IF a \in asked THEN funds[a][TheVault] ELSE 0)]
    BY DEF GovWithdraw
<1>2. /\ caller \in Parties /\ caller # TheVault /\ TheVault \in Parties /\ funds \in Holdings
      /\ withdrawn \in [Assets -> Nat]
    BY VaultAddresses, VaultFacts DEF LocalTypes
<1>3. ASSUME NEW a \in Assets
      PROVE  /\ funds'[a] \in [Parties -> Nat] /\ withdrawn'[a] \in Nat
             /\ funds'[a][TheVault] + withdrawn'[a] = funds[a][TheVault] + withdrawn[a]
             /\ funds'[a][TheVault] \in {0, funds[a][TheVault]}
             /\ funds'[a][TheVault] < funds[a][TheVault] =>
                   funds'[a][caller] - funds[a][caller] = funds[a][TheVault] - funds'[a][TheVault]
    <2> DEFINE n == funds[a][TheVault]
               g == Moved(funds, a, TheVault, caller, n)
    <2>1. n \in Nat /\ withdrawn[a] \in Nat /\ funds[a] \in [Parties -> Nat] /\ funds[a][caller] \in Nat
        BY <1>2 DEF Holdings
    <2>2. CASE a \notin asked
        BY <1>1, <2>1, <2>2
    <2>3. CASE a \in asked
        <3>1. CanPay(funds, a, TheVault, n)
            BY <2>1 DEF CanPay
        <3>2. /\ g \in Holdings
              /\ \A b \in Assets, p \in Parties : g[b][p] =
                    IF b # a THEN funds[b][p]
                    ELSE funds[b][p] - (IF p = TheVault THEN n ELSE 0) + (IF p = caller THEN n ELSE 0)
            BY <1>2, <2>1, <3>1, MovedFunds
        <3>3. funds'[a] = g[a] /\ withdrawn'[a] = withdrawn[a] + n
            BY <1>1, <2>3
        <3> HIDE DEF g
        <3>4. g[a] \in [Parties -> Nat] /\ g[a][TheVault] = 0 /\ g[a][caller] = funds[a][caller] + n
            BY <1>2, <2>1, <3>2 DEF Holdings
        <3> HIDE DEF n
        <3>5. funds[a][TheVault] = n
            BY DEF n
        <3> QED
            BY <2>1, <3>3, <3>4, <3>5
    <2> QED
        BY <2>2, <2>3
<1>4. funds' \in Holdings /\ withdrawn' \in [Assets -> Nat]
    <2>1. funds' = [a \in Assets |-> funds'[a]] /\ withdrawn' = [a \in Assets |-> withdrawn'[a]]
        BY <1>1
    <2> QED
        BY <1>3, <2>1 DEF Holdings
<1>5. UNCHANGED <<deposits, runVars, receiverVars, failures, received>>
    BY DEF GovWithdraw
<1>6. LocalTypes' /\ RunFine'
    BY <1>4, <1>5, VaultFacts DEF LocalTypes, RunFine, NothingAllowed, runVars, receiverVars
<1> QED
    BY <1>3, <1>5, <1>6 DEF Withdraws, receiverVars

\* Calls of receivers that come from no Vault do not change their books.
LEMMA ReceiverStep ==
    ASSUME VaultInv, ReceiverNext, UNCHANGED <<deposits, ledgerVars>>
    PROVE  LocalTypes' /\ RunFine' /\ Gains /\ UNCHANGED <<told, funds>>
<1>1. /\ cfVault \in [CFReceivers -> {TheVault} \cup OtherVaults]
      /\ \A r \in CFReceivers : cfVault[r] \notin Accounts \cup Receivers \cup {TheMulticall}
    BY VaultFacts, VaultAddresses, CFReceiverAssumption DEF LocalTypes
<1>2. ASSUME NEW sender \in Accounts \cup Receivers \cup {TheMulticall}, NEW r, NEW t, NEW n,
             CfReceive(sender, r, t, n)
      PROVE  told' = told /\ cfVault' = cfVault
    <2>1. r \notin CFReceivers
        BY <1>1, <1>2 DEF CfReceive, OnlyCfVault
    <2> QED
        BY <1>2, <2>1 DEF CfReceive
<1>3. ASSUME NEW caller \in Accounts \cup Receivers, NEW r \in Receivers, NEW a, NEW n,
             ForgedCfReceive(caller, r, a, n)
      PROVE  /\ told' = told /\ cfVault' \in [CFReceivers -> {TheVault} \cup OtherVaults]
             /\ funds' = funds /\ RunFine'
    <2>1. told' = told /\ cfVault' = cfVault
        BY <1>2, <1>3 DEF ForgedCfReceive
    <2>2. stack' = <<Called(r)>> \o stack /\ UNCHANGED <<funds, isRunning, allowance>>
        BY <1>3 DEF ForgedCfReceive
    <2>3. RunFine'
        BY <2>2, VaultFacts, PushCalled DEF RunFine, NothingAllowed
    <2> QED
        BY <1>1, <2>1, <2>2, <2>3
<1>4. ASSUME stack # <<>>, Head(stack).code = "multicall", Head(stack).todo # <<>>,
             CallCfReceive(Head(Head(stack).todo))
      PROVE  /\ told' = told /\ cfVault' \in [CFReceivers -> {TheVault} \cup OtherVaults]
             /\ funds' = funds /\ RunFine'
    <2> DEFINE call == Head(Head(stack).todo)
    <2>1. told' = told /\ cfVault' = cfVault
        BY <1>2, <1>4 DEF CallCfReceive
    <2>2. /\ call.to \in Receivers /\ stack' = <<Called(call.to)>> \o Advanced
          /\ UNCHANGED <<funds, isRunning, allowance>>
        BY <1>4 DEF CallCfReceive
    <2>3. Advanced \in Seq(Frames) /\ OneRun(Advanced, isRunning)
        BY <1>4, VaultFacts, AdvancedRun DEF RunFine
    <2> HIDE DEF call
    <2>4. RunFine'
        BY <2>2, <2>3, VaultFacts, PushCalled DEF RunFine, NothingAllowed
    <2> QED
        BY <1>1, <2>1, <2>2, <2>4
<1>5. ASSUME NEW caller \in Accounts, NEW r \in CFReceivers, NEW v \in OtherVaults,
             UpdateCfVault(caller, r, v)
      PROVE  /\ told' = told /\ cfVault' \in [CFReceivers -> {TheVault} \cup OtherVaults]
             /\ funds' = funds /\ RunFine'
    BY <1>1, <1>5, VaultFacts DEF UpdateCfVault, runVars, RunFine, NothingAllowed
<1>6. /\ told' = told /\ cfVault' \in [CFReceivers -> {TheVault} \cup OtherVaults]
      /\ funds' = funds /\ RunFine'
    BY <1>3, <1>4, <1>5 DEF ReceiverNext
<1>7. LocalTypes'
    BY <1>6, VaultFacts DEF LocalTypes, ledgerVars
<1>8. Gains
    <2>1. \A a \in Assets : funds[a][TheVault] \in Nat /\ received[a] \in Nat
        BY VaultFacts DEF LocalTypes
    <2> QED
        BY <1>6, <2>1 DEF Gains, ledgerVars
<1> QED
    BY <1>6, <1>7, <1>8

\* A signature is accepted that orders no payment.
QuietAccept(k, sig) ==
    /\ Accepts(k, sig)
    /\ sig.hash.call.fn \notin Paying
    /\ UNCHANGED <<chainVars, ledgerVars>>

LEMMA UpgradeStep ==
    ASSUME VaultInv, NEW sig \in Signatures, NEW nonce \in Nonces, SubmitUpgrade(sig, nonce)
    PROVE  \E k \in KeyManagers : QuietAccept(k, sig)
<1>1. PICK k \in HomeKeyManagers, omitChecks \in BOOLEAN : UpdateKeyManager(sig, nonce, k, omitChecks)
    BY DEF SubmitUpgrade
<1>2. UNCHANGED <<chainVars, ledgerVars>>
    BY <1>1 DEF UpdateKeyManager
<1>3. \E args : ConsumesKeyNonce(TheVault, sig, nonce, "updateKeyManager", args)
    BY <1>1 DEF UpdateKeyManager, SetKeyManager
<1>4. /\ keyManager[TheVault] \in KeyManagers /\ Accepts(keyManager[TheVault], sig)
      /\ sig.hash.call.fn = "updateKeyManager"
    BY <1>3, AuthorisedFacts
<1> QED
    BY <1>2, <1>4 DEF QuietAccept, Paying, SinglePaying

LEMMA KeyUpdateStep ==
    ASSUME VaultInv, NEW k \in KeyManagers, KeyUpdate(k), UNCHANGED <<chainVars, ledgerVars>>
    PROVE  uses' = uses \/ \E sig \in Signatures : QuietAccept(k, sig)
<1>1. ASSUME NEW sig \in Signatures, NEW nonce \in Nonces, NEW x, NEW fn,
             fn \in {"setAggKeyWithAggKey", "setGovKeyWithAggKey", "setCommKeyWithAggKey"},
             ConsumeKeyNonceKeyManager(k, sig, nonce, [fn |-> fn, args |-> x]), now' = now
      PROVE  QuietAccept(k, sig)
    <2>1. Accepts(k, sig)
        BY <1>1 DEF ConsumeKeyNonceKeyManager, Accepts
    <2>2. sig.hash.call.fn = fn
        BY <1>1 DEF ConsumeKeyNonceKeyManager, AcceptSignature, VerifySignature, MsgHash
    <2> QED
        BY <1>1, <2>1, <2>2 DEF QuietAccept, Paying, SinglePaying
<1>2. ASSUME NEW sig \in Signatures, NEW nonce \in Nonces, NEW x,
             \/ SetAggKeyWithAggKey(k, sig, nonce, x)
             \/ SetGovKeyWithAggKey(k, sig, nonce, x)
             \/ SetCommKeyWithAggKey(k, sig, nonce, x)
      PROVE  QuietAccept(k, sig)
    BY <1>1, <1>2 DEF SetAggKeyWithAggKey, SetGovKeyWithAggKey, SetCommKeyWithAggKey
<1>3. ASSUME NEW caller \in Accounts, NEW x,
             \/ SetAggKeyWithGovKey(k, caller, x)
             \/ SetGovKeyWithGovKey(k, caller, x)
             \/ SetCommKeyWithCommKey(k, caller, x)
      PROVE  uses' = uses
    BY <1>3 DEF SetAggKeyWithGovKey, SetGovKeyWithGovKey, SetCommKeyWithCommKey
<1> QED
    BY <1>2, <1>3 DEF KeyUpdate

\* Every step is of one of these classes.
LEMMA VaultStepClasses ==
    ASSUME VaultInv, [VaultNext]_vaultVars
    PROVE  /\ LocalTypes' /\ RunFine'
           /\ \/ Gains /\ uses' = uses
              \/ Withdraws /\ uses' = uses /\ \E caller \in Accounts : GovWithdraw(caller)
              \/ \E sig \in Signatures, nonce \in Nonces : \E args : Submit(sig, nonce, args)
              \/ \E k \in KeyManagers, sig \in Signatures : QuietAccept(k, sig)
<1> DEFINE Goal ==
              /\ LocalTypes' /\ RunFine'
              /\ \/ Gains /\ uses' = uses
                 \/ Withdraws /\ uses' = uses /\ \E caller \in Accounts : GovWithdraw(caller)
                 \/ \E sig \in Signatures, nonce \in Nonces : \E args : Submit(sig, nonce, args)
                 \/ \E k \in KeyManagers, sig \in Signatures : QuietAccept(k, sig)
<1>1. ASSUME UNCHANGED <<chainVars, ledgerVars>>,
             uses' = uses \/ \E k \in KeyManagers, sig \in Signatures : QuietAccept(k, sig)
      PROVE  Goal
    BY <1>1, QuietStep
<1>2. CASE UNCHANGED vaultVars
    BY <1>1, <1>2 DEF vaultVars, kmVars
<1>3. CASE \E sig \in Signatures, nonce \in Nonces : SubmitUpgrade(sig, nonce)
    <2>1. \E k \in KeyManagers, sig \in Signatures : QuietAccept(k, sig)
        BY <1>3, UpgradeStep
    <2>2. UNCHANGED <<chainVars, ledgerVars>>
        BY <2>1 DEF QuietAccept
    <2> QED
        BY <1>1, <2>1, <2>2
<1>4. CASE \E sig \in Signatures, nonce \in Nonces : \E args : Submit(sig, nonce, args)
    BY <1>4, SubmitStep
<1>5. ASSUME KeepsFunds, Income, RunFine', UNCHANGED <<failures, withdrawn, told, cfVault, deposits, uses>>
      PROVE  Goal
    <2>1. Gains /\ received' \in [Assets -> Nat]
        BY <1>5, IncomeGains
    <2>2. LocalTypes'
        BY <1>5, <2>1, VaultFacts DEF LocalTypes, KeepsFunds
    <2> QED
        BY <1>5, <2>1, <2>2
<1>6. ASSUME UNCHANGED runVars PROVE RunFine'
    BY <1>6, VaultFacts DEF runVars, RunFine, NothingAllowed
<1>7. CASE \E caller \in Users \cup Receivers, a \in Assets, n \in Payments :
              PayIn(caller, a, n) \/ \E d \in DepositContracts : PayDeposit(caller, d, a, n)
    <2>1. KeepsFunds /\ Income
        BY <1>7, PayInStep, PayDepositStep DEF PayDeposit
    <2>2. UNCHANGED <<failures, withdrawn, receiverVars, deposits, kmVars, runVars>>
        BY <1>7 DEF PayIn, PayDeposit
    <2> QED
        BY <1>5, <1>6, <2>1, <2>2 DEF receiverVars, kmVars
<1>8. CASE RunNext /\ Income
           /\ UNCHANGED <<kmVars, keyManager, guardVars, deposits, receiverVars, failures, withdrawn>>
    BY <1>5, <1>8, RunStep DEF receiverVars, kmVars
<1>9. CASE ScUtilsNext /\ Income
           /\ UNCHANGED <<kmVars, keyManager, guardVars, deposits, failures, withdrawn>>
    BY <1>5, <1>9, ScUtilsStep DEF receiverVars, kmVars
<1>10. CASE ReceiverNext
            /\ UNCHANGED <<kmVars, keyManager, guardVars, deposits, ledgerVars>>
    BY <1>10, ReceiverStep DEF kmVars
<1>11. ASSUME NEW caller \in Accounts, GovWithdraw(caller) PROVE Goal
    <2>1. uses' = uses
        BY <1>11 DEF GovWithdraw, kmVars
    <2> QED
        BY <1>11, <2>1, WithdrawStep
<1>12. CASE GuardUpdate(TheVault) /\ UNCHANGED <<kmVars, keyManager, chainVars, ledgerVars>>
    BY <1>1, <1>12 DEF kmVars
<1>13. CASE /\ Tick \/ \E k \in HomeKeyManagers : KeyUpdate(k)
            /\ UNCHANGED <<keyManager, guardVars, chainVars, ledgerVars>>
    BY <1>1, <1>13, KeyUpdateStep, VaultAddresses DEF Tick
<1> HIDE DEF Goal
<1> QED
    BY <1>2, <1>3, <1>4, <1>7, <1>8, <1>9, <1>10, <1>11, <1>12, <1>13 DEF VaultNext, Goal
-----------------------------------------------------------------------------
(* The books: what each class of steps does to the sums of VaultInv. *)

Books ==
    /\ IsFiniteSet(UsedSignatures) /\ FailuresOfUsed
    /\ EventsAccount /\ ReceiverNotFooled

\* The sums as they are in a state of VaultInv.
LEMMA BooksFacts ==
    ASSUME VaultInv
    PROVE  /\ IsFiniteSet(UsedSignatures) /\ UsedSignatures \subseteq Signatures
           /\ \A r : IsFiniteSet(SwapsTo(r)) /\ SwapsTo(r) \subseteq UsedSignatures
           /\ \A a : OrderSum(failures, UsedSignatures, a) \in Nat
           /\ \A a \in Assets :
                 funds[a][TheVault] + OrderSum(failures, UsedSignatures, a) + withdrawn[a]
                    = InitialFunds[a][TheVault] + received[a]
           /\ \A r \in CFReceivers, a \in Assets : told[r][a] = OrderSum(failures, SwapsTo(r), a)
<1>1. IsFiniteSet(UsedSignatures) /\ UsedSignatures \subseteq Signatures
    BY DEF VaultInv, UsedSignatures
<1>2. \A r : SwapsTo(r) \subseteq UsedSignatures
    BY DEF SwapsTo, UsedSignatures
<1>3. \A r : IsFiniteSet(SwapsTo(r))
    BY <1>1, <1>2, FS_Subset
<1>4. \A a : OrderSum(failures, UsedSignatures, a) \in Nat
    BY <1>1, OrdersKept
<1>5. \A a \in Assets :
         funds[a][TheVault] + Ordered(UsedSignatures, a) + withdrawn[a]
            = InitialFunds[a][TheVault] + received[a]
    BY DEF VaultInv, EventsAccount, UsedSignatures
<1>6. \A r \in CFReceivers, a \in Assets : told[r][a] = Ordered(SwapsTo(r), a)
    BY DEF VaultInv, ReceiverNotFooled, SwapsTo
<1> QED
    BY <1>1, <1>2, <1>3, <1>4, <1>5, <1>6, OrderedIs

\* What is to be shown of the state after a step.
LEMMA BooksAfter ==
    ASSUME IsFiniteSet(UsedSignatures'), FailuresOfUsed',
           \A a \in Assets :
              funds'[a][TheVault] + OrderSum(failures', UsedSignatures', a) + withdrawn'[a]
                 = InitialFunds[a][TheVault] + received'[a],
           \A r \in CFReceivers, a \in Assets : told'[r][a] = OrderSum(failures', SwapsTo(r)', a)
    PROVE  Books'
<1>1. \A a \in Assets :
         funds'[a][TheVault] + Ordered(UsedSignatures, a)' + withdrawn'[a]
            = InitialFunds[a][TheVault] + received'[a]
    BY OrderedIs
<1>2. EventsAccount'
    BY <1>1 DEF EventsAccount, UsedSignatures
<1>3. \A r \in CFReceivers, a \in Assets : told'[r][a] = Ordered(SwapsTo(r), a)'
    BY OrderedIs
<1>4. ReceiverNotFooled'
    BY <1>3 DEF ReceiverNotFooled, SwapsTo
<1> QED
    BY <1>2, <1>4 DEF Books

\* Nothing is accepted, and the Vault's funds move as is recorded.
LEMMA BooksKept ==
    ASSUME VaultInv, LocalTypes', uses' = uses, UNCHANGED <<failures, told>>,
           \A a \in Assets : funds'[a][TheVault] + withdrawn'[a] + received[a]
                                = funds[a][TheVault] + withdrawn[a] + received'[a]
    PROVE  Books'
<1>1. UsedSignatures' = UsedSignatures /\ \A r : SwapsTo(r)' = SwapsTo(r)
    BY DEF UsedSignatures, SwapsTo, Used, SwapTo
<1>2. FailuresOfUsed'
    BY DEF VaultInv, FailuresOfUsed, Used
<1>3. ASSUME NEW a \in Assets
      PROVE  funds'[a][TheVault] + OrderSum(failures', UsedSignatures', a) + withdrawn'[a]
                = InitialFunds[a][TheVault] + received'[a]
    <2> DEFINE n == OrderSum(failures, UsedSignatures, a)
    <2>1. /\ n \in Nat /\ funds[a][TheVault] \in Nat /\ withdrawn[a] \in Nat /\ received[a] \in Nat
          /\ InitialFunds[a][TheVault] \in Nat
          /\ funds'[a][TheVault] \in Nat /\ withdrawn'[a] \in Nat /\ received'[a] \in Nat
        BY BooksFacts, VaultFacts, AssetAssumption DEF LocalTypes, Holdings
    <2>2. funds[a][TheVault] + n + withdrawn[a] = InitialFunds[a][TheVault] + received[a]
        BY BooksFacts
    <2>3. OrderSum(failures', UsedSignatures', a) = n
        BY <1>1
    <2> HIDE DEF n
    <2>4. PICK i \in Nat, x \in Nat, y \in Nat, z \in Nat, u \in Nat, v \in Nat, w \in Nat :
             /\ i = InitialFunds[a][TheVault]
             /\ x = funds[a][TheVault] /\ y = withdrawn[a] /\ z = received[a]
             /\ u = funds'[a][TheVault] /\ v = withdrawn'[a] /\ w = received'[a]
        BY <2>1
    <2>5. x + n + y = i + z /\ u + v + z = x + y + w
        BY <2>2, <2>4
    <2>6. u + n + v = i + w
        BY <2>1, <2>5
    <2> QED
        BY <2>3, <2>4, <2>6
<1>4. \A r \in CFReceivers, a \in Assets : told'[r][a] = OrderSum(failures', SwapsTo(r)', a)
    BY <1>1, BooksFacts
<1>5. IsFiniteSet(UsedSignatures')
    BY <1>1, BooksFacts
<1> QED
    BY <1>2, <1>3, <1>4, <1>5, BooksAfter

\* A signature is accepted, and the Vault pays what it orders.
LEMMA BooksGrow ==
    ASSUME VaultInv, LocalTypes', NEW k \in KeyManagers, NEW sig \in Signatures,
           Accepts(k, sig), Pays(sig)
    PROVE  Books'
<1>1. uses[sig] = 0 /\ uses' = [uses EXCEPT ![sig] = 1]
    BY AcceptFacts DEF VaultInv
<1>2. \A s \in Signatures : Used(s)' <=> Used(s) \/ s = sig
    BY <1>1, VaultFacts DEF Used, KMTypeOK
<1>3. UsedSignatures' = UsedSignatures \cup {sig} /\ sig \notin UsedSignatures
    BY <1>1, <1>2 DEF UsedSignatures, Used
<1>4. ASSUME NEW r
      PROVE  /\ SwapsTo(r)' = IF SwapTo(sig, r) THEN SwapsTo(r) \cup {sig} ELSE SwapsTo(r)
             /\ sig \notin SwapsTo(r)
    BY <1>1, <1>2 DEF SwapsTo, SwapTo, Used
<1>5. failures[sig] = {} /\ \A s \in Signatures : s # sig => failures'[s] = failures[s]
    BY <1>1 DEF VaultInv, FailuresOfUsed, Used, Pays
<1>6. FailuresOfUsed'
    <2> SUFFICES ASSUME NEW s \in Signatures, failures'[s] # {}
                 PROVE  Used(s)' /\ s.hash.call.fn # "executexSwapAndCall"
        BY DEF FailuresOfUsed
    <2>1. CASE s = sig
        BY <1>2, <2>1 DEF Pays
    <2>2. CASE s # sig
        BY <1>2, <1>5, <2>2 DEF VaultInv, FailuresOfUsed
    <2> QED
        BY <2>1, <2>2
<1> DEFINE n(a) == TransferSum(TransfersOf(sig), failures'[sig], a)
<1>7. /\ IsFiniteSet(UsedSignatures) /\ UsedSignatures \in SUBSET Signatures
      /\ \A s \in UsedSignatures : failures'[s] = failures[s]
    BY <1>3, <1>5, BooksFacts
<1>8. ASSUME NEW a \in Assets
      PROVE  funds'[a][TheVault] + OrderSum(failures', UsedSignatures', a) + withdrawn'[a]
                = InitialFunds[a][TheVault] + received'[a]
    <2> DEFINE m == OrderSum(failures, UsedSignatures, a)
    <2>1. OrderSum(failures', UsedSignatures', a) = m + n(a)
        BY <1>3, <1>7, OrdersGrow
    <2>2. /\ m \in Nat /\ n(a) \in Nat
          /\ funds[a][TheVault] \in Nat /\ withdrawn[a] \in Nat /\ received[a] \in Nat
          /\ InitialFunds[a][TheVault] \in Nat
          /\ funds'[a][TheVault] \in Nat /\ received'[a] \in Nat
        BY BooksFacts, VaultFacts, AssetAssumption, TransferSumType DEF LocalTypes, Holdings
    <2>3. funds[a][TheVault] + m + withdrawn[a] = InitialFunds[a][TheVault] + received[a]
        BY BooksFacts
    <2>4. funds'[a][TheVault] + n(a) + received[a] = funds[a][TheVault] + received'[a]
        BY DEF Pays
    <2>5. withdrawn'[a] = withdrawn[a]
        BY DEF Pays
    <2> HIDE DEF m, n
    <2>6. PICK i \in Nat, x \in Nat, y \in Nat, z \in Nat, u \in Nat, w \in Nat :
             /\ i = InitialFunds[a][TheVault]
             /\ x = funds[a][TheVault] /\ y = withdrawn[a] /\ z = received[a]
             /\ u = funds'[a][TheVault] /\ w = received'[a]
        BY <2>2
    <2>7. PICK o \in Nat : o = n(a)
        BY <2>2
    <2>8. x + m + y = i + z /\ u + o + z = x + w
        BY <2>3, <2>4, <2>6, <2>7
    <2>9. u + (m + o) + y = i + w
        BY <2>2, <2>8
    <2> QED
        BY <2>1, <2>5, <2>6, <2>7, <2>9
<1>9. ASSUME NEW r \in CFReceivers, NEW a \in Assets
      PROVE  told'[r][a] = OrderSum(failures', SwapsTo(r)', a)
    <2>1. told[r][a] = OrderSum(failures, SwapsTo(r), a) /\ told[r][a] \in Nat
        BY BooksFacts, VaultFacts DEF LocalTypes
    <2>2. told'[r][a] = told[r][a] + (IF SwapTo(sig, r) THEN n(a) ELSE 0)
        BY DEF Pays
    <2> DEFINE S == SwapsTo(r)
    <2>3. /\ IsFiniteSet(S) /\ S \in SUBSET Signatures /\ sig \notin S
          /\ \A s \in S : failures'[s] = failures[s]
        BY <1>4, <1>7, BooksFacts
    <2> HIDE DEF S
    <2>4. OrderSum(failures', S, a) = OrderSum(failures, S, a)
        BY <2>3, OrdersKept
    <2>5. OrderSum(failures', S \cup {sig}, a) = OrderSum(failures, S, a) + n(a)
        BY <2>3, OrdersGrow
    <2> HIDE DEF n
    <2> QED
        BY <1>4, <2>1, <2>2, <2>4, <2>5 DEF S
<1>10. IsFiniteSet(UsedSignatures')
    BY <1>3, <1>7, FS_AddElement
<1> QED
    BY <1>6, <1>8, <1>9, <1>10, BooksAfter
-----------------------------------------------------------------------------
\* The governor and the holder of the community key act on the guard alone.
LEMMA GuardClasses ==
    ASSUME [VaultNext]_vaultVars
    PROVE  \/ UNCHANGED guardVars
           \/ GuardUpdate(TheVault) /\ UNCHANGED <<kmVars, chainVars, ledgerVars>>
<1>1. CASE UNCHANGED guardVars
    BY <1>1
<1>2. CASE GuardUpdate(TheVault) /\ UNCHANGED <<kmVars, keyManager, chainVars, ledgerVars>>
    BY <1>2
<1>3. ASSUME NEW sig, NEW nonce, NEW args, Submit(sig, nonce, args)
      PROVE  UNCHANGED guardVars
    BY <1>3, SubmitSigned DEF Authorised
<1>4. ASSUME NEW sig, NEW nonce, SubmitUpgrade(sig, nonce)
      PROVE  UNCHANGED guardVars
    BY <1>4 DEF SubmitUpgrade, UpdateKeyManager
<1>5. ASSUME \/ \E caller \in Users \cup Receivers, a \in Assets, n \in Payments :
                   PayIn(caller, a, n) \/ \E d \in DepositContracts : PayDeposit(caller, d, a, n)
             \/ \E caller \in Accounts : GovWithdraw(caller)
      PROVE  UNCHANGED guardVars
    <2>1. ASSUME NEW caller, NEW a, NEW n, PayIn(caller, a, n) PROVE UNCHANGED guardVars
        BY <2>1 DEF PayIn
    <2>2. ASSUME NEW caller, NEW d, NEW a, NEW n, PayDeposit(caller, d, a, n)
          PROVE  UNCHANGED guardVars
        BY <2>2 DEF PayDeposit
    <2>3. ASSUME NEW caller, GovWithdraw(caller) PROVE UNCHANGED guardVars
        BY <2>3 DEF GovWithdraw
    <2> QED
        BY <1>5, <2>1, <2>2, <2>3
<1> QED
    BY <1>1, <1>2, <1>3, <1>4, <1>5 DEF VaultNext, vaultVars

LEMMA GuardStep == GuardedTypeOK /\ [VaultNext]_vaultVars => GuardedTypeOK'
<1> SUFFICES ASSUME GuardedTypeOK, [VaultNext]_vaultVars PROVE GuardedTypeOK'
    OBVIOUS
<1>1. CASE UNCHANGED guardVars
    BY <1>1 DEF GuardedTypeOK, guardVars
<1>2. CASE GuardUpdate(TheVault)
    BY <1>2 DEF GuardUpdate, EnableCommunityGuard, DisableCommunityGuard, Suspend, Resume,
                GuardedTypeOK
<1> QED
    BY <1>1, <1>2, GuardClasses

LEMMA VaultInvInit == VaultInit => VaultInv
<1> SUFFICES ASSUME VaultInit PROVE VaultInv
    OBVIOUS
<1>1. KMInit /\ NonceInv
    BY NonceInvInit DEF VaultInit
<1>2. AggKeyNonceConsumerTypeOK
    BY ReferenceInit
<1>3. GuardedTypeOK
    BY DEF VaultInit, GuardedInit, GuardedTypeOK
<1>4. /\ funds = InitialFunds /\ stack = <<>> /\ isRunning = FALSE
      /\ allowance = [t \in Tokens |-> 0] /\ deposits = {}
      /\ cfVault = [r \in CFReceivers |-> TheVault]
      /\ told = [r \in CFReceivers |-> [a \in Assets |-> 0]]
      /\ failures = [s \in Signatures |-> {}]
      /\ received = [a \in Assets |-> 0] /\ withdrawn = [a \in Assets |-> 0]
    BY DEF VaultInit, DepositInit, MulticallInit, CFReceiverInit
<1>5. VaultTypeOK
    <2>1. funds \in [Assets -> [Parties -> Nat]] /\ deposits \subseteq DepositContracts
        BY <1>4, AssetAssumption
    <2>2. stack \in Seq([code : {"receiver"}, at : Receivers] \cup [code : {"multicall"}, todo : Seq(Calls)])
        BY <1>4
    <2>3. isRunning \in BOOLEAN /\ allowance \in [Tokens -> Nat]
        BY <1>4
    <2>4. /\ cfVault \in [CFReceivers -> {TheVault} \cup OtherVaults]
          /\ told \in [CFReceivers -> [Assets -> Nat]]
        BY <1>4
    <2>5. /\ failures \in [Signatures -> SUBSET Nat]
          /\ received \in [Assets -> Nat] /\ withdrawn \in [Assets -> Nat]
        BY <1>4
    <2> QED
        BY <1>1, <1>2, <1>3, <2>1, <2>2, <2>3, <2>4, <2>5
           DEF VaultTypeOK, AssetsTypeOK, NonceInv
<1>6. NothingAllowed /\ OneRun(stack, isRunning)
    BY <1>4 DEF NothingAllowed, OneRun
<1>7. UsedSignatures = {} /\ \A r : SwapsTo(r) = {}
    BY <1>1 DEF KMInit, UsedSignatures, SwapsTo, Used
<1>8. \A a : OrderSum(failures, UsedSignatures, a) = 0
    BY <1>7, SumOfNone DEF OrderSum
<1>9. \A r, a : OrderSum(failures, SwapsTo(r), a) = 0
    BY <1>7, SumOfNone DEF OrderSum
<1>10. FailuresOfUsed
    BY <1>4 DEF FailuresOfUsed
<1>11. EventsAccount
    <2>1. ASSUME NEW a \in Assets
          PROVE  funds[a][TheVault] + Ordered(UsedSignatures, a) + withdrawn[a]
                    = InitialFunds[a][TheVault] + received[a]
        <3>1. Ordered(UsedSignatures, a) = 0
            BY <1>8, OrderedIs
        <3>2. InitialFunds[a][TheVault] \in Nat
            BY AssetAssumption, VaultAddresses
        <3> QED
            BY <1>4, <3>1, <3>2
    <2> QED
        BY <2>1 DEF EventsAccount, UsedSignatures
<1>12. ReceiverNotFooled
    <2>1. \A r \in CFReceivers, a \in Assets : told[r][a] = Ordered(SwapsTo(r), a)
        <3>1. \A r \in CFReceivers, a \in Assets : told[r][a] = 0
            BY <1>4
        <3>2. ASSUME NEW r, NEW a PROVE Ordered(SwapsTo(r), a) = OrderSum(failures, SwapsTo(r), a)
            BY OrderedIs
        <3> QED
            BY <1>9, <3>1, <3>2
    <2> QED
        BY <2>1 DEF ReceiverNotFooled, SwapsTo
<1>13. IsFiniteSet(UsedSignatures)
    BY <1>7, FS_EmptySet
<1> QED
    BY <1>1, <1>5, <1>6, <1>10, <1>11, <1>12, <1>13 DEF VaultInv

LEMMA ReferenceIs == VaultInv => keyManager[TheVault] \in KeyManagers
BY VaultFacts, VaultAddresses DEF AggKeyNonceConsumerTypeOK

LEMMA VaultInvStep == VaultInv /\ [VaultNext]_vaultVars => VaultInv'
<1> SUFFICES ASSUME VaultInv, [VaultNext]_vaultVars PROVE VaultInv'
    OBVIOUS
<1>1. [KMNext]_kmVars /\ AggKeyNonceConsumerTypeOK'
    BY SimulationStep, VaultFacts
<1>2. NonceInv' /\ KMTypeOK'
    BY <1>1, NonceInvStep DEF VaultInv, NonceInv
<1>3. GuardedTypeOK'
    BY GuardStep, VaultFacts
<1>4. LocalTypes' /\ RunFine'
    BY VaultStepClasses
<1>5. VaultTypeOK'
    BY <1>1, <1>2, <1>3, <1>4, RunFineTypes
<1>6. Books'
    <2>1. \A a \in Assets :
             /\ funds[a][TheVault] \in Nat /\ received[a] \in Nat /\ withdrawn[a] \in Nat
             /\ funds'[a][TheVault] \in Nat /\ received'[a] \in Nat /\ withdrawn'[a] \in Nat
        BY <1>4, VaultFacts DEF LocalTypes, Holdings
    <2>2. CASE Gains /\ uses' = uses
        BY <1>4, <2>1, <2>2, BooksKept DEF Gains
    <2>3. CASE Withdraws /\ uses' = uses
        BY <1>4, <2>1, <2>3, BooksKept DEF Withdraws
    <2>4. ASSUME NEW sig \in Signatures, NEW nonce \in Nonces, NEW args, Submit(sig, nonce, args)
          PROVE  Books'
        BY <1>4, <2>4, SubmitStep, ReferenceIs, BooksGrow
    <2>5. ASSUME NEW k \in KeyManagers, NEW sig \in Signatures, QuietAccept(k, sig)
          PROVE  Books'
        <3>1. failures[sig] = {}
            BY <2>5, AcceptFacts DEF QuietAccept, VaultInv, FailuresOfUsed, Used
        <3>2. Pays(sig)
            BY <2>5, <3>1, QuietStep DEF QuietAccept
        <3> QED
            BY <1>4, <2>5, <3>2, BooksGrow DEF QuietAccept
    <2> QED
        BY <2>2, <2>3, <2>4, <2>5, VaultStepClasses
<1> QED
    BY <1>2, <1>4, <1>5, <1>6 DEF VaultInv, RunFine, Books, UsedSignatures
-----------------------------------------------------------------------------
\* VaultInv holds in every reachable state.
THEOREM VaultInvariance == VaultSpec => []VaultInv
<1> QED
    BY VaultInvInit, VaultInvStep, PTL DEF VaultSpec

\* The state is well typed: no payment, fetch or call takes a balance, an
\* allowance or a receiver's books below zero.
THEOREM VaultTypeCorrect == VaultSpec => []VaultTypeOK
<1>1. VaultInv => VaultTypeOK
    BY DEF VaultInv
<1> QED
    BY <1>1, VaultInvariance, PTL

\* Whatever order batches, runs and calls that re-enter come in, and whichever
\* of them fail in part, the events of the Vault account for its balances.
THEOREM EventsAccounted == VaultSpec => []EventsAccount
<1>1. VaultInv => EventsAccount
    BY DEF VaultInv
<1> QED
    BY <1>1, VaultInvariance, PTL

\* A contract that inherits CFReceiver was told of what the Vault paid it for
\* signed swaps, and of nothing else.
THEOREM ReceiversNotFooled == VaultSpec => []ReceiverNotFooled
<1>1. VaultInv => ReceiverNotFooled
    BY DEF VaultInv
<1> QED
    BY <1>1, VaultInvariance, PTL

\* A run has the Multicall to itself, none leaves it locked, and nothing that
\* is called finds an allowance of the Vault's tokens.
THEOREM RunsIsolated == VaultSpec => []RunIsolation
<1>1. VaultInv => RunIsolation
    <2> SUFFICES ASSUME VaultInv PROVE RunIsolation
        OBVIOUS
    <2>1. /\ \A i, j \in DOMAIN stack : stack[i].code = "multicall" /\ stack[j].code = "multicall" => i = j
          /\ isRunning <=> \E i \in DOMAIN stack : stack[i].code = "multicall"
          /\ \A t \in Tokens : allowance[t] = 0
        BY DEF VaultInv, OneRun, NothingAllowed
    <2>2. CASE isRunning
        <3>1. PICK i \in DOMAIN stack : stack[i].code = "multicall"
            BY <2>1, <2>2
        <3>2. Runs = {i}
            BY <2>1, <3>1 DEF Runs
        <3> QED
            BY <2>1, <2>2, <3>2, FS_Singleton DEF RunIsolation
    <2>3. CASE ~ isRunning
        <3>1. Runs = {}
            BY <2>1, <2>3 DEF Runs
        <3> QED
            BY <2>1, <2>3, <3>1, FS_EmptySet DEF RunIsolation
    <2> QED
        BY <2>2, <2>3
<1> QED
    BY <1>1, VaultInvariance, PTL
-----------------------------------------------------------------------------
\* The signature that a step accepts.
LEMMA AcceptedIs ==
    ASSUME VaultInv, [VaultNext]_vaultVars, NEW s \in Signatures, AcceptedNow(s)
    PROVE  /\ failures[s] = {}
           /\ \/ \E nonce \in Nonces : \E args : Submit(s, nonce, args)
              \/ \E k \in KeyManagers : QuietAccept(k, s)
<1>1. ASSUME NEW k \in KeyManagers, NEW sig \in Signatures, Accepts(k, sig)
      PROVE  sig = s /\ failures[s] = {}
    <2>1. uses[sig] = 0 /\ uses' = [uses EXCEPT ![sig] = 1] /\ uses[s] \in Nat
        BY <1>1, AcceptFacts, VaultFacts DEF VaultInv, KMTypeOK
    <2>2. sig = s
        BY <2>1 DEF AcceptedNow
    <2> QED
        BY <2>1, <2>2 DEF VaultInv, FailuresOfUsed, Used
<1>2. uses' # uses
    BY VaultFacts DEF AcceptedNow, KMTypeOK
<1>3. ASSUME NEW sig \in Signatures, NEW nonce \in Nonces, NEW args, Submit(sig, nonce, args)
      PROVE  sig = s /\ failures[s] = {}
    BY <1>1, <1>3, SubmitStep, ReferenceIs
<1>4. ASSUME NEW k \in KeyManagers, NEW sig \in Signatures, QuietAccept(k, sig)
      PROVE  sig = s /\ failures[s] = {}
    BY <1>1, <1>4 DEF QuietAccept
<1> QED
    BY <1>2, <1>3, <1>4, VaultStepClasses

LEMMA CauseKept == VaultInv /\ [VaultNext]_vaultVars => [CausedStep]_vaultVars
<1> SUFFICES ASSUME VaultInv, [VaultNext]_vaultVars, NEW s \in Signatures, AcceptedNow(s),
                    s.hash.call.fn # "executeActions", NEW i \in failures'[s]
             PROVE  LET p == s.hash.call.args.transfers[i] IN
                    \/ p.recipient \in Refusers
                    \/ p.token = NATIVE /\ p.recipient \in deposits'
                    \/ p.amount > funds'[p.token][TheVault]
    BY DEF CausedStep
<1>1. failures' # failures
    BY AcceptedIs
<1>0. PICK nonce \in Nonces : \E args : Submit(s, nonce, args)
    BY <1>1, AcceptedIs DEF QuietAccept, ledgerVars
<1>2. PICK args : Submit(s, nonce, args)
    BY <1>0
<1>3. ~ TransferFallback(s, nonce, args) /\ ~ ExecutexSwapAndCall(s, nonce, args)
      /\ ~ ExecutexCall(s, nonce, args)
    BY <1>1 DEF TransferFallback, ExecutexSwapAndCall, ExecutexCall
<1>4. ~ ExecuteActions(s, nonce, args)
    <2> SUFFICES ASSUME ExecuteActions(s, nonce, args) PROVE FALSE
        OBVIOUS
    <2>1. ConsumesKeyNonce(TheVault, s, nonce, "executeActions", args)
        BY DEF ExecuteActions, ActionsSucceed, ActionsFail, Authorised
    <2> QED
        BY <2>1, AuthorisedFacts
<1>5. Caused(s, TransfersOf(s)) /\ s.hash.call.fn \in Paying
    BY <1>2, <1>3, <1>4, BatchActions DEF Submit
<1> QED
    BY <1>5, SignedTransfers DEF Caused

\* A transfer in a batch fails for a reason that fetching could not remove.
THEOREM TransfersComeLast == VaultSpec => TransfersLast
<1> QED
    BY CauseKept, VaultInvariance, PTL DEF VaultSpec, TransfersLast

LEMMA SwapsKept == VaultInv /\ [VaultNext]_vaultVars => [PassedOnStep]_vaultVars
<1> SUFFICES ASSUME VaultInv, [VaultNext]_vaultVars, NEW s \in Signatures, AcceptedNow(s),
                    SwapTo(s, TheScUtils), NEW a \in Assets
             PROVE  funds'[a][TheScUtils] = funds[a][TheScUtils]
    BY DEF PassedOnStep
<1>1. s.hash.call.fn = "executexSwapAndCall"
    BY DEF SwapTo
<1>0. PICK nonce \in Nonces : \E args : Submit(s, nonce, args)
    BY <1>1, AcceptedIs DEF QuietAccept, Paying, SinglePaying
<1>2. PICK args : Submit(s, nonce, args)
    BY <1>0
<1>3. ASSUME NEW fn, ConsumesKeyNonce(TheVault, s, nonce, fn, args)
      PROVE  fn = "executexSwapAndCall"
    BY <1>1, <1>3, AuthorisedFacts
<1>4. ExecutexSwapAndCall(s, nonce, args)
    BY <1>2, <1>3 DEF Submit, AllBatch, AllBatchV2, Transfer, TransferBatch, DeployAndFetchBatch,
                      FetchBatch, TransferFallback, ExecutexCall, ExecuteActions, ActionsSucceed,
                      ActionsFail, Authorised
<1> QED
    BY <1>4, SwapStep

\* No swap leaves anything with ScUtils.
THEOREM SwapsPassedOn == VaultSpec => SwapsPassOn
<1> QED
    BY SwapsKept, VaultInvariance, PTL DEF VaultSpec, SwapsPassOn

LEMMA FrozenKept == VaultInv /\ [VaultNext]_vaultVars => [FrozenStep]_vaultVars
<1> SUFFICES ASSUME VaultInv, [VaultNext]_vaultVars, suspended[TheVault],
                    NEW a \in Assets, funds'[a][TheVault] < funds[a][TheVault]
             PROVE  /\ communityGuardDisabled[TheVault]
                    /\ \A s \in Signatures : Used(s) /\ Home(s) = keyManager[TheVault]
                           => now >= lastUse[s] + AGG_KEY_EMERGENCY_TIMEOUT
                    /\ funds'[a][GetGovernor(TheVault)] - funds[a][GetGovernor(TheVault)]
                           = funds[a][TheVault] - funds'[a][TheVault]
    BY DEF FrozenStep
<1>1. ASSUME NEW sig, NEW nonce, NEW args PROVE ~ Submit(sig, nonce, args)
    BY SubmitSigned DEF Authorised, OnlyNotSuspended
<1>2. funds[a][TheVault] \in Nat /\ funds'[a][TheVault] \in Nat
    BY VaultStepClasses, VaultFacts DEF LocalTypes, Holdings
<1>3. ~ Gains /\ \A k, sig : ~ QuietAccept(k, sig)
    BY <1>2 DEF Gains, QuietAccept, chainVars
<1>4. PICK caller \in Accounts : GovWithdraw(caller)
    BY <1>1, <1>3, VaultStepClasses
<1>5. /\ caller = GetGovernor(TheVault) /\ communityGuardDisabled[TheVault]
      /\ EmergencyTimeout(keyManager[TheVault])
    BY <1>4 DEF GovWithdraw, EmergencyApproved, OnlyGovernor
<1>6. ASSUME NEW s \in Signatures, Used(s), Home(s) = keyManager[TheVault]
      PROVE  now >= lastUse[s] + AGG_KEY_EMERGENCY_TIMEOUT
    <2>1. PICK k \in KeyManagers : k = keyManager[TheVault]
        BY ReferenceIs
    <2>2. /\ lastUse[s] \in Nat /\ lastValidateTime[k] \in Nat /\ now \in Nat
          /\ lastUse[s] <= lastValidateTime[k]
        BY <1>6, <2>1, VaultFacts DEF KMTypeOK, VaultInv, NonceInv, ClockFollowsUse
    <2>3. now - lastValidateTime[k] >= AGG_KEY_EMERGENCY_TIMEOUT
        BY <1>5, <2>1 DEF EmergencyTimeout
    <2> QED
        BY <2>2, <2>3, VaultAssumption
<1> QED
    BY <1>4, <1>5, <1>6, WithdrawStep

\* Nothing leaves a suspended Vault but to the governor, with the community's
\* consent and after the emergency timeout.
THEOREM FundsStayFrozen == VaultSpec => FundsFrozen
<1> QED
    BY FrozenKept, VaultInvariance, PTL DEF VaultSpec, FundsFrozen
-----------------------------------------------------------------------------
(* The Vault implements orders of payments. *)

\* What the ledger sees of the Vault.
ExecutedOrders == {s \in PaymentSigs : Used(s)}
OrderFailures == [s \in PaymentSigs |-> failures[s]]
VaultBalance == [a \in Assets |-> funds[a][TheVault]]

LEMMA LedgerInit == VaultInit => Ledger!Init
<1> SUFFICES ASSUME VaultInit PROVE Ledger!Init
    OBVIOUS
<1>1. VaultInv
    BY VaultInvInit
<1>2. ExecutedOrders = {}
    BY DEF VaultInit, KMInit, ExecutedOrders, PaymentSigs, Used
<1>3. OrderFailures = [s \in PaymentSigs |-> {}]
    BY DEF VaultInit, OrderFailures, PaymentSigs
<1>4. VaultBalance \in [Assets -> Nat]
    BY <1>1, VaultFacts DEF VaultBalance
<1>5. received = [a \in Assets |-> 0]
    BY DEF VaultInit
<1>6. ~ suspended[TheVault]
    BY VaultAddresses DEF VaultInit, GuardedInit
<1> QED
    BY <1>2, <1>3, <1>4, <1>5, <1>6
       DEF Ledger!Init, ExecutedOrders, OrderFailures, VaultBalance

\* Numbers that the ledger's steps are about.
LEMMA LedgerTypes ==
    ASSUME VaultInv, LocalTypes'
    PROVE  /\ received' \in [Assets -> Nat] /\ VaultBalance' \in [Assets -> Nat]
           /\ \A a \in Assets :
                 /\ VaultBalance[a] = funds[a][TheVault] /\ VaultBalance'[a] = funds'[a][TheVault]
                 /\ funds[a][TheVault] \in Nat /\ funds'[a][TheVault] \in Nat
                 /\ received[a] \in Nat /\ received'[a] \in Nat
BY VaultFacts DEF LocalTypes, Holdings, VaultBalance

\* A step that adds to the Vault what it records as received is an income.
LEMMA LedgerReceive ==
    ASSUME VaultInv, LocalTypes',
           \A a \in Assets :
              /\ received'[a] >= received[a]
              /\ funds'[a][TheVault] + received[a] = funds[a][TheVault] + received'[a],
           ExecutedOrders' = ExecutedOrders, OrderFailures' = OrderFailures,
           UNCHANGED guardVars
    PROVE  Ledger!Receive
<1> DEFINE none == [a \in Assets |-> 0]
<1>1. ASSUME NEW a \in Assets
      PROVE  /\ received'[a] >= received[a]
             /\ VaultBalance'[a] + none[a] + received[a] = VaultBalance[a] + received'[a]
    <2>1. VaultBalance'[a] + 0 = funds'[a][TheVault] /\ VaultBalance[a] = funds[a][TheVault]
        BY LedgerTypes
    <2> QED
        BY <2>1
<1>2. Ledger!Pays(none)
    BY <1>1, LedgerTypes DEF Ledger!Pays, VaultBalance
<1>3. UNCHANGED suspended[TheVault]
    BY DEF guardVars
<1> QED
    BY <1>2, <1>3 DEF Ledger!Receive, ExecutedOrders, OrderFailures

\* A step that pays what a signature over payments orders executes the order.
LEMMA LedgerExecute ==
    ASSUME VaultInv, LocalTypes', NEW k \in KeyManagers, NEW sig \in PaymentSigs,
           Accepts(k, sig), Pays(sig), ~ suspended[TheVault], UNCHANGED guardVars
    PROVE  Ledger!Execute(sig)
<1> DEFINE lines == [s \in PaymentSigs |-> DOMAIN TransfersOf(s)]
           owed == [s \in PaymentSigs |-> [failed \in SUBSET DOMAIN TransfersOf(s) |->
                       [a \in Assets |-> OrderedUnless(failed, s, a)]]]
           failing == failures'[sig]
           amount == owed[sig][failing]
<1>1. sig \in Signatures /\ PaymentSigs \subseteq Signatures
    BY DEF PaymentSigs
<1>2. uses[sig] = 0 /\ uses' = [uses EXCEPT ![sig] = 1]
    BY <1>1, AcceptFacts DEF VaultInv
<1>3. \A s \in Signatures : Used(s)' <=> Used(s) \/ s = sig
    BY <1>1, <1>2, VaultFacts DEF Used, KMTypeOK
<1>4. sig \notin ExecutedOrders /\ ExecutedOrders' = ExecutedOrders \cup {sig}
    BY <1>1, <1>2, <1>3 DEF ExecutedOrders, Used
<1>5. failing \in SUBSET lines[sig]
    BY <1>1 DEF Pays
<1>6. OrderFailures' = [OrderFailures EXCEPT ![sig] = failing]
    BY <1>1 DEF OrderFailures, Pays
<1>7. ASSUME NEW a \in Assets PROVE amount[a] = TransferSum(TransfersOf(sig), failing, a)
    BY <1>1, <1>5, OrderedUnlessIs
<1> HIDE DEF amount, failing
<1>8. ASSUME NEW a \in Assets
      PROVE  /\ received'[a] >= received[a]
             /\ VaultBalance'[a] + amount[a] + received[a] = VaultBalance[a] + received'[a]
    <2>1. /\ received'[a] >= received[a]
          /\ funds'[a][TheVault] + TransferSum(TransfersOf(sig), failing, a) + received[a]
                = funds[a][TheVault] + received'[a]
        BY DEF Pays, failing
    <2> QED
        BY <1>7, <2>1, LedgerTypes
<1>9. Ledger!Pays(amount)
    BY <1>8, LedgerTypes DEF Ledger!Pays, VaultBalance
<1>10. UNCHANGED suspended[TheVault]
    BY DEF guardVars
<1>11. \E f \in SUBSET lines[sig] :
           OrderFailures' = [OrderFailures EXCEPT ![sig] = f] /\ Ledger!Pays(owed[sig][f])
    <2>1. OrderFailures' = [OrderFailures EXCEPT ![sig] = failing] /\ Ledger!Pays(owed[sig][failing])
        BY <1>6, <1>9 DEF amount
    <2> QED
        BY <1>5, <2>1 DEF Ledger!Pays
<1> QED
    BY <1>4, <1>10, <1>11, Zenon DEF Ledger!Execute, ExecutedOrders, OrderFailures

\* What the governor takes is taken from a halted payer.
LEMMA LedgerWithdraw ==
    ASSUME VaultInv, LocalTypes', NEW caller \in Accounts, GovWithdraw(caller)
    PROVE  Ledger!Withdraw
<1>1. /\ suspended[TheVault]
      /\ UNCHANGED <<uses, failures, suspended, received>>
    BY DEF GovWithdraw, EmergencyApproved, guardVars, kmVars
<1>2. \A a \in Assets : VaultBalance'[a] \in {0, VaultBalance[a]}
    BY WithdrawStep, LedgerTypes
<1>3. ExecutedOrders' = ExecutedOrders /\ OrderFailures' = OrderFailures
    BY <1>1 DEF ExecutedOrders, OrderFailures, Used
<1> QED
    BY <1>1, <1>2, <1>3, LedgerTypes
       DEF Ledger!Withdraw, ExecutedOrders, OrderFailures, VaultBalance

\* The governor halts the payer, or has it resume; or the guard is moved,
\* which is not seen here.
LEMMA LedgerHalt ==
    ASSUME VaultInv, GuardUpdate(TheVault), UNCHANGED <<kmVars, chainVars, ledgerVars>>
    PROVE  [Ledger!Next]_(Ledger!orderVars)
<1>1. /\ ExecutedOrders' = ExecutedOrders /\ OrderFailures' = OrderFailures
      /\ VaultBalance' = VaultBalance /\ received' = received
    BY DEF kmVars, chainVars, ledgerVars, ExecutedOrders, OrderFailures, VaultBalance, Used
<1>2. \/ suspended'[TheVault] = suspended[TheVault]
      \/ suspended'[TheVault] = ~ suspended[TheVault]
    BY VaultFacts, VaultAddresses
       DEF GuardedTypeOK, GuardUpdate, EnableCommunityGuard, DisableCommunityGuard, Suspend, Resume,
           OnlyNotSuspended
<1> QED
    BY <1>1, <1>2 DEF Ledger!Next, Ledger!HaltOrResume, Ledger!orderVars,
                      ExecutedOrders, OrderFailures, VaultBalance

LEMMA LedgerStep ==
    VaultInv /\ [VaultNext]_vaultVars => [Ledger!Next]_(Ledger!orderVars)
<1> SUFFICES ASSUME VaultInv, [VaultNext]_vaultVars, UNCHANGED guardVars
             PROVE  Ledger!Next
    BY GuardClasses, LedgerHalt
<1>1. LocalTypes'
    BY VaultStepClasses
<1>2. CASE Gains /\ uses' = uses
    <2>1. ExecutedOrders' = ExecutedOrders /\ OrderFailures' = OrderFailures
        BY <1>2 DEF Gains, ExecutedOrders, OrderFailures, Used
    <2>2. ASSUME NEW a \in Assets
          PROVE  /\ received'[a] >= received[a]
                 /\ funds'[a][TheVault] + received[a] = funds[a][TheVault] + received'[a]
        <3>1. PICK x \in Nat, y \in Nat, u \in Nat, v \in Nat :
                 x = received[a] /\ y = received'[a] /\ u = funds[a][TheVault] /\ v = funds'[a][TheVault]
            BY <1>1, LedgerTypes
        <3>2. v >= u /\ v + x = u + y
            BY <1>2, <3>1 DEF Gains
        <3> QED
            BY <3>1, <3>2
    <2> QED
        BY <1>1, <2>1, <2>2, LedgerReceive DEF Ledger!Next
<1>3. ASSUME NEW caller \in Accounts, GovWithdraw(caller) PROVE Ledger!Next
    BY <1>1, <1>3, LedgerWithdraw DEF Ledger!Next
<1>4. ASSUME NEW sig \in Signatures, NEW nonce \in Nonces, NEW args, Submit(sig, nonce, args)
      PROVE  Ledger!Next
    <2>1. /\ keyManager[TheVault] \in KeyManagers /\ Accepts(keyManager[TheVault], sig)
          /\ Pays(sig) /\ ~ suspended[TheVault]
        BY <1>4, SubmitStep, ReferenceIs, SubmitSigned DEF Authorised, OnlyNotSuspended
    <2>2. CASE sig \in PaymentSigs
        BY <1>1, <2>1, <2>2, LedgerExecute DEF Ledger!Next
    <2>3. CASE sig \notin PaymentSigs
        <3>1. TransfersOf(sig) = <<>>
            BY <2>3, SignedTransfers DEF PaymentSigs
        <3>2. uses' = [uses EXCEPT ![sig] = 1]
            BY <2>1, AcceptFacts DEF VaultInv
        <3>3. ExecutedOrders' = ExecutedOrders
            BY <2>3, <3>2, VaultFacts DEF ExecutedOrders, PaymentSigs, Used, KMTypeOK
        <3>4. OrderFailures' = OrderFailures
            BY <2>1, <2>3 DEF OrderFailures, PaymentSigs, Pays
        <3>5. ASSUME NEW a \in Assets
              PROVE  /\ received'[a] >= received[a]
                     /\ funds'[a][TheVault] + received[a] = funds[a][TheVault] + received'[a]
            <4>1. /\ received'[a] >= received[a]
                  /\ funds'[a][TheVault] + TransferSum(<<>>, failures'[sig], a) + received[a]
                        = funds[a][TheVault] + received'[a]
                BY <2>1, <3>1 DEF Pays
            <4>2. funds'[a][TheVault] + 0 + received[a] = funds[a][TheVault] + received'[a]
                BY <4>1, NoSum
            <4> QED
                BY <1>1, <4>1, <4>2, LedgerTypes
        <3> QED
            BY <1>1, <3>3, <3>4, <3>5, LedgerReceive DEF Ledger!Next
    <2> QED
        BY <2>2, <2>3
<1>5. ASSUME NEW k \in KeyManagers, NEW sig \in Signatures, QuietAccept(k, sig)
      PROVE  Ledger!Next
    <2>1. sig \notin PaymentSigs /\ uses' = [uses EXCEPT ![sig] = 1]
        BY <1>5, AcceptFacts DEF QuietAccept, PaymentSigs, VaultInv
    <2>2. ExecutedOrders' = ExecutedOrders
        BY <2>1, VaultFacts DEF ExecutedOrders, PaymentSigs, Used, KMTypeOK
    <2>3. UNCHANGED <<funds, failures, received>>
        BY <1>5 DEF QuietAccept, chainVars, ledgerVars
    <2>4. OrderFailures' = OrderFailures
        BY <2>3 DEF OrderFailures
    <2>5. \A a \in Assets :
             /\ received'[a] >= received[a]
             /\ funds'[a][TheVault] + received[a] = funds[a][TheVault] + received'[a]
        BY <1>1, <2>3, LedgerTypes
    <2> QED
        BY <1>1, <2>2, <2>4, <2>5, LedgerReceive DEF Ledger!Next
<1> QED
    BY <1>2, <1>3, <1>4, <1>5, VaultStepClasses

\* The Vault, whatever happens to it, is a payer as the State Chain takes it
\* to be: every order is executed at most once, as a whole and not while the
\* Vault is suspended, and what is reported as failed stays unpaid.
THEOREM VaultImplementsOrders == VaultSpec => OrdersPaid
<1> QED
    BY LedgerInit, LedgerStep, VaultInvariance, PTL DEF VaultSpec, OrdersPaid, Ledger!Spec
=============================================================================
