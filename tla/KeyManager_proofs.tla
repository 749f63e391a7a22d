-------------------------- MODULE KeyManager_proofs --------------------------
(***************************************************************************)
(* Proofs about the KeyManager for any number of chains, instances, keys,  *)
(* nonces and signatures, and for any timeout.                             *)
(*                                                                         *)
(* The argument: the functions of the contract fall into two classes,      *)
(* those that accept exactly one signature and those that leave everything *)
(* about nonces alone (StepClasses).  The invariant NonceInv ties a        *)
(* signature that was accepted to the nonce it used up on its own          *)
(* instance, and the clock of an instance to the signatures it accepted.   *)
(***************************************************************************)
EXTENDS KeyManager, TLAPS

\* An accepted signature has used up its nonce on the instance it was made for.
NonceSpent ==
    \A s \in Signatures : Used(s) =>
        /\ Home(s) \in KeyManagers
        /\ s.hash.nonce \in nonceUsed[Home(s)]

\* lastValidateTime[k] is 0, or the time of the latest acceptance by k.
ClockFollowsUse ==
    /\ now >= DeployTime
    /\ \A k \in KeyManagers :
          /\ lastValidateTime[k] <= now
          /\ \/ lastValidateTime[k] = 0
             \/ \E s \in Signatures :
                   Used(s) /\ Home(s) = k /\ lastUse[s] = lastValidateTime[k]
    /\ \A s \in Signatures : Used(s) => lastUse[s] <= lastValidateTime[Home(s)]

NonceInv ==
    /\ KMTypeOK
    /\ NonceSpent
    /\ AcceptedAtMostOnce
    /\ OneMessagePerNonce
    /\ ClockFollowsUse

\* A step in which instance k accepts sig.
Accepts(k, sig) ==
    /\ now' = now
    /\ \E nonce \in Nonces : \E sender, call :
          AcceptSignature(k, sig, nonce, MsgHash(call, nonce, sender, k))

\* A step that accepts nothing; time may pass.
AcceptsNothing == nonceVars' = nonceVars /\ now' \in {now, now + 1}
-----------------------------------------------------------------------------
\* Every step accepts one signature, on one instance, or none.
LEMMA StepClasses ==
    KMNext => AcceptsNothing \/ \E k \in KeyManagers, s \in Signatures : Accepts(k, s)
<1> SUFFICES ASSUME KMNext
             PROVE  AcceptsNothing \/ \E k \in KeyManagers, s \in Signatures : Accepts(k, s)
    OBVIOUS
<1>1. CASE Tick
    BY <1>1 DEF Tick, AcceptsNothing, nonceVars
<1>2. ASSUME NEW k \in KeyManagers, KeyUpdate(k)
      PROVE  AcceptsNothing \/ \E s \in Signatures : Accepts(k, s)
    <2>1. ASSUME NEW sig \in Signatures, NEW nonce \in Nonces, NEW x,
                 \/ SetAggKeyWithAggKey(k, sig, nonce, x)
                 \/ SetGovKeyWithAggKey(k, sig, nonce, x)
                 \/ SetCommKeyWithAggKey(k, sig, nonce, x)
          PROVE  Accepts(k, sig)
        BY <2>1 DEF SetAggKeyWithAggKey, SetGovKeyWithAggKey, SetCommKeyWithAggKey,
                    ConsumeKeyNonceKeyManager, Accepts
    <2>2. ASSUME NEW caller \in Accounts, NEW x,
                 \/ SetAggKeyWithGovKey(k, caller, x)
                 \/ SetGovKeyWithGovKey(k, caller, x)
                 \/ SetCommKeyWithCommKey(k, caller, x)
          PROVE  AcceptsNothing
        BY <2>2 DEF SetAggKeyWithGovKey, SetGovKeyWithGovKey, SetCommKeyWithCommKey,
                    AcceptsNothing, nonceVars
    <2> QED
        BY <1>2, <2>1, <2>2 DEF KeyUpdate
<1>3. ASSUME NEW k \in KeyManagers, NonceUse(k, Accounts \cup NonceConsumers)
      PROVE  \E s \in Signatures : Accepts(k, s)
    BY <1>3 DEF NonceUse, ConsumeKeyNonce, Accepts
<1> QED
    BY <1>1, <1>2, <1>3 DEF KMNext

\* The typing of the nonces is preserved by an acceptance.
LEMMA AcceptType ==
    ASSUME KMTypeOK, NEW k \in KeyManagers, NEW sig \in Signatures, Accepts(k, sig)
    PROVE  /\ lastValidateTime' \in [KeyManagers -> Nat]
           /\ nonceUsed' \in [KeyManagers -> SUBSET Nonces]
           /\ uses' \in [Signatures -> Nat]
           /\ lastUse' \in [Signatures -> Nat]
    BY DEF KMTypeOK, Accepts, AcceptSignature, SetValidateTime

\* What an acceptance by k says of the signature: it was made for k, by k's
\* present key, its nonce was fresh, and it had never been accepted before.
LEMMA AcceptFacts ==
    ASSUME NonceInv, NEW k \in KeyManagers, NEW sig \in Signatures, Accepts(k, sig)
    PROVE  /\ Home(sig) = k
           /\ sig.key = aggKey[k]
           /\ sig.hash.nonce \in Nonces \ nonceUsed[k]
           /\ uses[sig] = 0
           /\ uses' = [uses EXCEPT ![sig] = 1]
           /\ lastUse' = [lastUse EXCEPT ![sig] = now]
           /\ nonceUsed' = [nonceUsed EXCEPT ![k] = @ \cup {sig.hash.nonce}]
           /\ lastValidateTime' = [lastValidateTime EXCEPT ![k] = now]
<1> USE DEF NonceInv
<1>0. PICK nonce \in Nonces :
          \E sender, call : AcceptSignature(k, sig, nonce, MsgHash(call, nonce, sender, k))
    BY DEF Accepts
<1>1. PICK sender, call : AcceptSignature(k, sig, nonce, MsgHash(call, nonce, sender, k))
    BY <1>0
<1>2. /\ sig.hash = MsgHash(call, nonce, sender, k)
      /\ sig.key = aggKey[k]
    BY <1>1 DEF AcceptSignature, VerifySignature
<1>3. k = <<k[1], k[2]>>
    BY InstanceAssumption
<1>4. Home(sig) = k /\ sig.hash.nonce = nonce
    BY <1>2, <1>3 DEF Home, MsgHash
<1>5. nonce \notin nonceUsed[k]
    BY <1>1 DEF AcceptSignature, IsNonceUsedByAggKey
<1>6. uses[sig] = 0
    BY <1>4, <1>5 DEF NonceSpent, Used, KMTypeOK
<1> QED
    BY <1>1, <1>2, <1>4, <1>5, <1>6
       DEF AcceptSignature, SetValidateTime, KMTypeOK

LEMMA NonceInvInit == KMInit => NonceInv
<1> SUFFICES ASSUME KMInit PROVE NonceInv
    OBVIOUS
<1>1. KMTypeOK
    <2>1. PICK keys \in [KeyManagers -> InitialKeys] :
             /\ aggKey = [k \in KeyManagers |-> keys[k][1]]
             /\ govKey = [k \in KeyManagers |-> keys[k][2]]
             /\ commKey = [k \in KeyManagers |-> keys[k][3]]
        BY DEF KMInit
    <2>2. \A k \in KeyManagers :
             keys[k][1] \in SigningKeys /\ keys[k][2] \in Addresses /\ keys[k][3] \in Addresses
        BY KeyAssumption
    <2> QED
        BY <2>1, <2>2, TimeAssumption DEF KMInit, KMTypeOK
<1>2. \A s \in Signatures : ~ Used(s)
    BY DEF KMInit, Used
<1> QED
    BY <1>1, <1>2, TimeAssumption
       DEF NonceInv, NonceSpent, AcceptedAtMostOnce, OneMessagePerNonce,
           ClockFollowsUse, KMInit, KMTypeOK

\* The keys, and with them the whole state, keep their types.
LEMMA TypeStep == KMTypeOK /\ KMNext => KMTypeOK'
<1> SUFFICES ASSUME KMTypeOK, KMNext PROVE KMTypeOK'
    OBVIOUS
<1>1. /\ now' \in Nat
      /\ lastValidateTime' \in [KeyManagers -> Nat]
      /\ nonceUsed' \in [KeyManagers -> SUBSET Nonces]
      /\ uses' \in [Signatures -> Nat]
      /\ lastUse' \in [Signatures -> Nat]
    <2>1. CASE AcceptsNothing
        BY <2>1 DEF AcceptsNothing, nonceVars, KMTypeOK
    <2>2. ASSUME NEW k \in KeyManagers, NEW s \in Signatures, Accepts(k, s)
          PROVE  <1>1!1 /\ <1>1!2 /\ <1>1!3 /\ <1>1!4 /\ <1>1!5
        BY <2>2, AcceptType DEF Accepts, KMTypeOK
    <2> QED
        BY <2>1, <2>2, StepClasses
<1>2. /\ aggKey' \in [KeyManagers -> SigningKeys]
      /\ govKey' \in [KeyManagers -> Addresses]
      /\ commKey' \in [KeyManagers -> Addresses]
    <2>1. CASE Tick
        BY <2>1 DEF Tick, KMTypeOK
    <2>2. ASSUME NEW k \in KeyManagers, KeyUpdate(k)
          PROVE  <1>2!1 /\ <1>2!2 /\ <1>2!3
        <3>1. \/ \E key \in SigningKeys : /\ aggKey' = [aggKey EXCEPT ![k] = key]
                                          /\ UNCHANGED <<govKey, commKey>>
              \/ \E a \in KeyHolders : /\ govKey' = [govKey EXCEPT ![k] = a]
                                       /\ UNCHANGED <<aggKey, commKey>>
              \/ \E a \in KeyHolders : /\ commKey' = [commKey EXCEPT ![k] = a]
                                       /\ UNCHANGED <<aggKey, govKey>>
            BY <2>2, Zenon
               DEF KeyUpdate, SetAggKeyWithAggKey, SetGovKeyWithAggKey, SetCommKeyWithAggKey,
                   SetAggKeyWithGovKey, SetGovKeyWithGovKey, SetCommKeyWithCommKey, ValidAggKey
        <3>2. KeyHolders \subseteq Addresses
            BY InstanceAssumption
        <3>3. /\ aggKey \in [KeyManagers -> SigningKeys]
              /\ govKey \in [KeyManagers -> Addresses]
              /\ commKey \in [KeyManagers -> Addresses]
            BY DEF KMTypeOK
        <3> QED
            BY <3>1, <3>2, <3>3
    <2>3. ASSUME NEW k \in KeyManagers, NonceUse(k, Accounts \cup NonceConsumers)
          PROVE  <1>2!1 /\ <1>2!2 /\ <1>2!3
        BY <2>3 DEF NonceUse, ConsumeKeyNonce, KMTypeOK
    <2> QED
        BY <2>1, <2>2, <2>3 DEF KMNext
<1> QED
    BY <1>1, <1>2 DEF KMTypeOK

\* An acceptance preserves what NonceInv says beyond types.
LEMMA AcceptPreserves ==
    ASSUME NonceInv, KMTypeOK', NEW k \in KeyManagers, NEW sig \in Signatures, Accepts(k, sig)
    PROVE  NonceInv'
<1>1. /\ Home(sig) = k
      /\ sig.hash.nonce \in Nonces \ nonceUsed[k]
      /\ uses[sig] = 0
      /\ uses' = [uses EXCEPT ![sig] = 1]
      /\ lastUse' = [lastUse EXCEPT ![sig] = now]
      /\ nonceUsed' = [nonceUsed EXCEPT ![k] = @ \cup {sig.hash.nonce}]
      /\ lastValidateTime' = [lastValidateTime EXCEPT ![k] = now]
      /\ now' = now
    BY AcceptFacts DEF Accepts
<1>2. \A s \in Signatures : Used(s)' <=> Used(s) \/ s = sig
    BY <1>1 DEF Used, NonceInv, KMTypeOK
<1>3. NonceSpent'
    BY <1>1, <1>2 DEF NonceSpent, NonceInv, KMTypeOK, Home
<1>4. AcceptedAtMostOnce'
    BY <1>1 DEF AcceptedAtMostOnce, NonceInv, KMTypeOK
<1>5. OneMessagePerNonce'
    <2> SUFFICES ASSUME NEW s \in Signatures, NEW t \in Signatures, Used(s)', Used(t)',
                        Home(s) = Home(t), s.hash.nonce = t.hash.nonce
                 PROVE  s = t
        BY DEF OneMessagePerNonce, Home
    <2>1. CASE Used(s) /\ Used(t)
        BY <2>1 DEF NonceInv, OneMessagePerNonce
    <2>2. \A u \in Signatures :
             Used(u) => ~ (Home(u) = k /\ u.hash.nonce = sig.hash.nonce)
        BY <1>1 DEF NonceInv, NonceSpent
    <2> QED
        BY <1>1, <1>2, <2>1, <2>2
<1>6. ClockFollowsUse'
    <2>1. now' >= DeployTime
        BY <1>1 DEF NonceInv, ClockFollowsUse
    <2>2. ASSUME NEW j \in KeyManagers
          PROVE  /\ lastValidateTime'[j] <= now'
                 /\ \/ lastValidateTime'[j] = 0
                    \/ \E s \in Signatures :
                          Used(s)' /\ Home(s) = j /\ lastUse'[s] = lastValidateTime'[j]
        <3>1. CASE j = k
            BY <1>1, <1>2, <3>1 DEF NonceInv, KMTypeOK
        <3>2. CASE j # k
            BY <1>1, <1>2, <3>2 DEF NonceInv, ClockFollowsUse, KMTypeOK
        <3> QED
            BY <3>1, <3>2
    <2>3. ASSUME NEW s \in Signatures, Used(s)'
          PROVE  lastUse'[s] <= lastValidateTime'[Home(s)]
        <3>1. CASE s = sig
            BY <1>1, <3>1 DEF NonceInv, KMTypeOK
        <3>2. CASE s # sig
            BY <1>1, <1>2, <2>3, <3>2 DEF NonceInv, NonceSpent, ClockFollowsUse, KMTypeOK
        <3> QED
            BY <3>1, <3>2
    <2> QED
        BY <2>1, <2>2, <2>3 DEF ClockFollowsUse, Home
<1> QED
    BY <1>3, <1>4, <1>5, <1>6 DEF NonceInv

LEMMA NonceInvStep == NonceInv /\ [KMNext]_kmVars => NonceInv'
<1> SUFFICES ASSUME NonceInv, [KMNext]_kmVars PROVE NonceInv'
    OBVIOUS
<1>1. CASE UNCHANGED kmVars
    BY <1>1 DEF kmVars, NonceInv, KMTypeOK, NonceSpent, AcceptedAtMostOnce,
                OneMessagePerNonce, ClockFollowsUse, Used, Home
<1>2. CASE KMNext
    <2>1. KMTypeOK'
        BY <1>2, TypeStep DEF NonceInv
    <2>2. CASE AcceptsNothing
        BY <2>1, <2>2, TimeAssumption
           DEF AcceptsNothing, nonceVars, NonceInv, KMTypeOK, NonceSpent,
               AcceptedAtMostOnce, OneMessagePerNonce, ClockFollowsUse, Used, Home
    <2>3. ASSUME NEW k \in KeyManagers, NEW s \in Signatures, Accepts(k, s)
          PROVE  NonceInv'
        BY <2>1, <2>3, AcceptPreserves
    <2> QED
        BY <1>2, <2>2, <2>3, StepClasses
<1> QED
    BY <1>1, <1>2
-----------------------------------------------------------------------------
\* NonceInv holds in every reachable state.
THEOREM NonceInvariance == KMSpec => []NonceInv
<1> QED
    BY NonceInvInit, NonceInvStep, PTL DEF KMSpec

\* The state is well typed; no unusable aggregate key is ever installed.
THEOREM TypeCorrect == KMSpec => []KMTypeOK
<1>1. NonceInv => KMTypeOK
    BY DEF NonceInv
<1> QED
    BY <1>1, NonceInvariance, PTL

\* No signature is accepted twice, on any chain, by any KeyManager.
THEOREM NoReplay == KMSpec => []AcceptedAtMostOnce
<1>1. NonceInv => AcceptedAtMostOnce
    BY DEF NonceInv
<1> QED
    BY <1>1, NonceInvariance, PTL

\* Signatures over one nonce for one instance exclude each other.
THEOREM NonceExclusion == KMSpec => []OneMessagePerNonce
<1>1. NonceInv => OneMessagePerNonce
    BY DEF NonceInv
<1> QED
    BY <1>1, NonceInvariance, PTL

\* What the clock says of silence follows from the invariant.
LEMMA ClockTellsSilence ==
    ASSUME NonceInv, NEW k \in KeyManagers
    PROVE  lastValidateTime[k] <= now /\ (TimeoutEmergency(k) <=> Silent(k))
<1> USE DEF NonceInv
<1>1. /\ now \in Nat /\ DeployTime \in Nat /\ AGG_KEY_TIMEOUT \in Nat
      /\ lastValidateTime[k] \in Nat /\ lastValidateTime[k] <= now
      /\ DeployTime >= AGG_KEY_TIMEOUT /\ now >= DeployTime
    BY TimeAssumption DEF KMTypeOK, ClockFollowsUse
<1>2. ASSUME TimeoutEmergency(k), NEW s \in Signatures, Used(s), Home(s) = k
      PROVE  now >= lastUse[s] + AGG_KEY_TIMEOUT
    <2>1. lastUse[s] \in Nat /\ lastUse[s] <= lastValidateTime[k]
        BY <1>2 DEF KMTypeOK, ClockFollowsUse
    <2> QED
        BY <1>1, <1>2, <2>1 DEF TimeoutEmergency
<1>3. ASSUME Silent(k) PROVE TimeoutEmergency(k)
    <2>1. CASE lastValidateTime[k] = 0
        BY <1>1, <2>1 DEF TimeoutEmergency
    <2>2. ASSUME NEW s \in Signatures, Used(s), Home(s) = k, lastUse[s] = lastValidateTime[k]
          PROVE  TimeoutEmergency(k)
        <3>1. now >= lastValidateTime[k] + AGG_KEY_TIMEOUT
            BY <1>3, <2>2 DEF Silent
        <3> QED
            BY <1>1, <3>1 DEF TimeoutEmergency
    <2> QED
        BY <2>1, <2>2 DEF ClockFollowsUse
<1> QED
    BY <1>1, <1>2, <1>3 DEF Silent

\* The dead man's switch is open if and only if the aggregate key was silent.
THEOREM SwitchCorrect == KMSpec => []SwitchOpensOnSilence
<1>1. NonceInv => SwitchOpensOnSilence
    BY ClockTellsSilence DEF SwitchOpensOnSilence
<1> QED
    BY <1>1, NonceInvariance, PTL

LEMMA CustodyKept == NonceInv /\ [KMNext]_kmVars => [CustodyStep]_kmVars
<1> SUFFICES ASSUME NonceInv, KMNext, NEW k \in KeyManagers, aggKey'[k] # aggKey[k]
             PROVE  \/ Silent(k)
                    \/ \E s \in Signatures :
                          /\ AcceptedNow(s) /\ Home(s) = k /\ s.key = aggKey[k]
                          /\ s.hash.call = [fn |-> "setAggKeyWithAggKey", args |-> aggKey'[k]]
    BY DEF CustodyStep
<1>1. aggKey \in [KeyManagers -> SigningKeys]
    BY DEF NonceInv, KMTypeOK
<1>2. ASSUME NEW j \in KeyManagers, NEW caller \in Accounts, NEW key,
             SetAggKeyWithGovKey(j, caller, key)
      PROVE  Silent(k)
    <2>1. j = k /\ TimeoutEmergency(j)
        BY <1>1, <1>2 DEF SetAggKeyWithGovKey
    <2> QED
        BY <2>1, ClockTellsSilence
<1>3. ASSUME NEW j \in KeyManagers, NEW sig \in Signatures, NEW nonce \in Nonces,
             NEW key, SetAggKeyWithAggKey(j, sig, nonce, key)
      PROVE  /\ AcceptedNow(sig) /\ Home(sig) = k /\ sig.key = aggKey[k]
             /\ sig.hash.call = [fn |-> "setAggKeyWithAggKey", args |-> aggKey'[k]]
    <2>1. j = k /\ aggKey'[k] = key
        BY <1>1, <1>3 DEF SetAggKeyWithAggKey
    <2>2. Accepts(j, sig)
        BY <1>3 DEF SetAggKeyWithAggKey, ConsumeKeyNonceKeyManager, Accepts
    <2>3. Home(sig) = k /\ sig.key = aggKey[k] /\ AcceptedNow(sig)
        BY <2>1, <2>2, AcceptFacts DEF AcceptedNow, NonceInv, KMTypeOK
    <2>4. sig.hash.call = [fn |-> "setAggKeyWithAggKey", args |-> key]
        BY <1>3 DEF SetAggKeyWithAggKey, ConsumeKeyNonceKeyManager, AcceptSignature,
                    VerifySignature, MsgHash
    <2> QED
        BY <2>1, <2>3, <2>4
<1>4. ~ Tick /\ \A j \in KeyManagers : ~ NonceUse(j, Accounts \cup NonceConsumers)
    BY DEF Tick, NonceUse, ConsumeKeyNonce
<1>5. PICK j \in KeyManagers : KeyUpdate(j)
    BY <1>4 DEF KMNext
<1> QED
    BY <1>2, <1>3, <1>5
       DEF KeyUpdate, SetGovKeyWithAggKey, SetCommKeyWithAggKey,
           SetGovKeyWithGovKey, SetCommKeyWithCommKey

\* The aggregate key changes hands by its own signature or after silence.
THEOREM Custody == KMSpec => AggKeyCustody
<1> QED
    BY CustodyKept, NonceInvariance, PTL DEF KMSpec, AggKeyCustody
=============================================================================
