----------------------------- MODULE KeyManager -----------------------------
(***************************************************************************)
(* The KeyManager contract (contracts/KeyManager.sol), for every instance  *)
(* of it that is deployed: one per chain, and a new one when a chain's     *)
(* KeyManager is upgraded.  It holds the aggregate, governance and         *)
(* community keys and is the one place where a signature of the aggregate  *)
(* key is accepted.  An instance is a pair <<chain, address>>, because     *)
(* both block.chainid and address(this) are part of every signed message.  *)
(*                                                                         *)
(* Signatures is everything the aggregate keys ever sign.  Anybody may     *)
(* submit any of them to any function of any instance, at any time, as     *)
(* often as he likes and with any nonce beside it: delayed, reordered,     *)
(* replayed and cross-chain submissions are all in Next.  keccak256 is a   *)
(* record of the hashed fields (no collisions) and Schnorr verification    *)
(* accepts exactly what the key signed (no forgeries).                     *)
(***************************************************************************)
EXTENDS Shared

CONSTANTS
    Chains,           \* chain ids
    KeyManagers,      \* the deployed KeyManager instances, <<chain, address>>
    NonceConsumers,   \* contracts that call consumeKeyNonce
    KeyHolders,       \* the addresses that are ever set as a governance or community key
    Keys,             \* Key structs
    SigningKeys,      \* those with 0 < pubKeyX < HALF_Q
    InitialKeys,      \* <<aggKey, govKey, commKey>> of the constructor calls
    Nonces,           \* the nonces that are ever signed over or submitted
    Signatures,       \* [key, hash]: all that the aggregate keys ever sign
    AGG_KEY_TIMEOUT,  \* _AGG_KEY_TIMEOUT, 2 days
    DeployTime,       \* Unix time at deployment
    MaxTime           \* bound: the model's clock stops here

ASSUME InstanceAssumption ==
    /\ NonceConsumers \subseteq Addresses \ {ZeroAddr}
    /\ KeyManagers \subseteq Chains \X (Addresses \ {ZeroAddr})
    /\ KeyHolders \subseteq Addresses

\* A KeyManager calls no contract: it never is the caller of consumeKeyNonce.
ASSUME CallerAssumption ==
    \A k \in KeyManagers : k[2] \notin Accounts \cup NonceConsumers

ASSUME KeyAssumption ==
    /\ SigningKeys \subseteq Keys
    /\ InitialKeys \subseteq SigningKeys \X (Addresses \ {ZeroAddr}) \X Addresses

\* The chains are decades older than the timeout when the contracts go live.
ASSUME TimeAssumption ==
    /\ AGG_KEY_TIMEOUT \in Nat \ {0}
    /\ DeployTime \in Nat
    /\ MaxTime \in Nat
    /\ DeployTime >= AGG_KEY_TIMEOUT

VARIABLES
    now,               \* block.timestamp
    aggKey,            \* [KeyManagers -> SigningKeys]
    govKey,            \* [KeyManagers -> Addresses]
    commKey,           \* [KeyManagers -> Addresses]
    lastValidateTime,  \* [KeyManagers -> Nat]
    nonceUsed,         \* [KeyManagers -> SUBSET Nonces], _isNonceUsedByAggKey
    uses,              \* history: how often each signature was accepted
    lastUse            \* history: when it was last accepted

keyVars == <<aggKey, govKey, commKey>>
nonceVars == <<lastValidateTime, nonceUsed, uses, lastUse>>
kmVars == <<now, aggKey, govKey, commKey, lastValidateTime, nonceUsed, uses, lastUse>>
-----------------------------------------------------------------------------
ContractMsgHashes == {s.hash.call : s \in Signatures}

MsgHash(call, nonce, sender, k) ==
    [call |-> call, nonce |-> nonce, sender |-> sender,
     chain |-> k[1], keyManager |-> k[2]]

\* Wrong: the chain id is left out of what is signed.
VerifyAnyChain(hash, sig, key) ==
    sig.key = key /\ [sig.hash EXCEPT !.chain = hash.chain] = hash

\* Wrong: the instance is left out of what is signed.
VerifyAnyInstance(hash, sig, key) ==
    sig.key = key /\ [sig.hash EXCEPT !.keyManager = hash.keyManager] = hash

VerifySignature(hash, sig, key) == sig.key = key /\ sig.hash = hash

\* Wrong: nonces are not looked up.
NonceNeverUsed(k, nonce) == FALSE

IsNonceUsedByAggKey(k, nonce) == nonce \in nonceUsed[k]

\* Wrong: signatures do not restart the clock of the dead man's switch.
ForgetValidateTime(k) == UNCHANGED lastValidateTime

SetValidateTime(k) == lastValidateTime' = [lastValidateTime EXCEPT ![k] = now]

\* Wrong: the governance key need not wait for the timeout.
NoTimeout(k) == lastValidateTime[k] <= now

\* The subtraction is checked: it reverts rather than wrap around.
TimeoutEmergency(k) ==
    /\ lastValidateTime[k] <= now
    /\ now - lastValidateTime[k] >= AGG_KEY_TIMEOUT

\* Wrong: only nzKey is checked, so a key the Schnorr library rejects passes.
NonZeroKey(key) == key \in Keys

ValidAggKey(key) == key \in SigningKeys

(***************************************************************************)
(* _consumeKeyNonce: the signature must be the current aggregate key's,    *)
(* over this very message, and its nonce fresh on this instance.           *)
(***************************************************************************)
AcceptSignature(k, sig, nonce, hash) ==
    /\ VerifySignature(hash, sig, aggKey[k])
    /\ ~ IsNonceUsedByAggKey(k, nonce)
    /\ SetValidateTime(k)
    /\ nonceUsed' = [nonceUsed EXCEPT ![k] = @ \cup {nonce}]
    /\ uses' = [uses EXCEPT ![sig] = @ + 1]
    /\ lastUse' = [lastUse EXCEPT ![sig] = now]

\* consumeKeyNonce, as called by sender: it is sender's address that is hashed.
ConsumeKeyNonce(k, sender, sig, nonce, call) ==
    /\ AcceptSignature(k, sig, nonce, MsgHash(call, nonce, sender, k))
    /\ UNCHANGED <<now, aggKey, govKey, commKey>>

\* The modifier consumeKeyNonceKeyManager: anyone may call the function it
\* guards, and the instance's own address is hashed as the sender.
ConsumeKeyNonceKeyManager(k, sig, nonce, call) ==
    AcceptSignature(k, sig, nonce, MsgHash(call, nonce, k[2], k))
-----------------------------------------------------------------------------
SetAggKeyWithAggKey(k, sig, nonce, newAggKey) ==
    /\ ValidAggKey(newAggKey)
    /\ ConsumeKeyNonceKeyManager(k, sig, nonce,
                                 [fn |-> "setAggKeyWithAggKey", args |-> newAggKey])
    /\ aggKey' = [aggKey EXCEPT ![k] = newAggKey]
    /\ UNCHANGED <<now, govKey, commKey>>

SetAggKeyWithGovKey(k, caller, newAggKey) ==
    /\ ValidAggKey(newAggKey)
    /\ TimeoutEmergency(k)
    /\ caller = govKey[k]
    /\ aggKey' = [aggKey EXCEPT ![k] = newAggKey]
    /\ UNCHANGED <<now, govKey, commKey, lastValidateTime, nonceUsed, uses, lastUse>>

SetGovKeyWithAggKey(k, sig, nonce, newGovKey) ==
    /\ ConsumeKeyNonceKeyManager(k, sig, nonce,
                                 [fn |-> "setGovKeyWithAggKey", args |-> newGovKey])
    /\ govKey' = [govKey EXCEPT ![k] = newGovKey]
    /\ UNCHANGED <<now, aggKey, commKey>>

SetGovKeyWithGovKey(k, caller, newGovKey) ==
    /\ caller = govKey[k]
    /\ govKey' = [govKey EXCEPT ![k] = newGovKey]
    /\ UNCHANGED <<now, aggKey, commKey, lastValidateTime, nonceUsed, uses, lastUse>>

SetCommKeyWithAggKey(k, sig, nonce, newCommKey) ==
    /\ ConsumeKeyNonceKeyManager(k, sig, nonce,
                                 [fn |-> "setCommKeyWithAggKey", args |-> newCommKey])
    /\ commKey' = [commKey EXCEPT ![k] = newCommKey]
    /\ UNCHANGED <<now, aggKey, govKey>>

SetCommKeyWithCommKey(k, caller, newCommKey) ==
    /\ caller = commKey[k]
    /\ commKey' = [commKey EXCEPT ![k] = newCommKey]
    /\ UNCHANGED <<now, aggKey, govKey, lastValidateTime, nonceUsed, uses, lastUse>>

\* A function of instance k that changes its keys, by whoever calls it.
KeyUpdate(k) ==
    \/ \E sig \in Signatures, nonce \in Nonces :
          \/ \E key \in Keys : SetAggKeyWithAggKey(k, sig, nonce, key)
          \/ \E a \in KeyHolders : SetGovKeyWithAggKey(k, sig, nonce, a)
          \/ \E a \in KeyHolders : SetCommKeyWithAggKey(k, sig, nonce, a)
    \/ \E caller \in Accounts :
          \/ \E key \in Keys : SetAggKeyWithGovKey(k, caller, key)
          \/ \E a \in KeyHolders : SetGovKeyWithGovKey(k, caller, a)
          \/ \E a \in KeyHolders : SetCommKeyWithCommKey(k, caller, a)

\* consumeKeyNonce called by some sender with some message.
NonceUse(k, senders) ==
    \E sig \in Signatures, nonce \in Nonces,
       sender \in senders, call \in ContractMsgHashes :
          ConsumeKeyNonce(k, sender, sig, nonce, call)

\* Blocks are produced and time passes.
Tick ==
    /\ now < MaxTime
    /\ now' = now + 1
    /\ UNCHANGED <<aggKey, govKey, commKey, lastValidateTime, nonceUsed, uses, lastUse>>
-----------------------------------------------------------------------------
\* The constructor of every instance; lastValidateTime is left at 0.
KMInit ==
    /\ now = DeployTime
    /\ \E keys \in [KeyManagers -> InitialKeys] :
          /\ aggKey = [k \in KeyManagers |-> keys[k][1]]
          /\ govKey = [k \in KeyManagers |-> keys[k][2]]
          /\ commKey = [k \in KeyManagers |-> keys[k][3]]
    /\ lastValidateTime = [k \in KeyManagers |-> 0]
    /\ nonceUsed = [k \in KeyManagers |-> {}]
    /\ uses = [s \in Signatures |-> 0]
    /\ lastUse = [s \in Signatures |-> 0]

KMNext ==
    \/ Tick
    \/ \E k \in KeyManagers :
          KeyUpdate(k) \/ NonceUse(k, Accounts \cup NonceConsumers)

KMSpec == KMInit /\ [][KMNext]_kmVars
-----------------------------------------------------------------------------
\* The types of the state; an unusable aggregate key is never installed, so
\* that signatures can always be verified.
KMTypeOK ==
    /\ now \in Nat
    /\ aggKey \in [KeyManagers -> SigningKeys]
    /\ govKey \in [KeyManagers -> Addresses]
    /\ commKey \in [KeyManagers -> Addresses]
    /\ lastValidateTime \in [KeyManagers -> Nat]
    /\ nonceUsed \in [KeyManagers -> SUBSET Nonces]
    /\ uses \in [Signatures -> Nat]
    /\ lastUse \in [Signatures -> Nat]

Used(s) == uses[s] > 0
Home(s) == <<s.hash.chain, s.hash.keyManager>>

\* A signature authorises one call, once: whoever submits it, to whichever
\* function, chain or KeyManager, before or after key rotations, it is
\* accepted at most once (KeyManager.sol: nonce, sender, chain id and
\* instance are all hashed "to prevent replay attacks").
AcceptedAtMostOnce == \A s \in Signatures : uses[s] <= 1

\* Of all that was signed over one nonce for one instance, at most one
\* message is ever accepted: the State Chain can retry a call that may be
\* lost by signing another one over the same nonce.
OneMessagePerNonce ==
    \A s, t \in Signatures :
        Used(s) /\ Used(t) /\ Home(s) = Home(t) /\ s.hash.nonce = t.hash.nonce
            => s = t

\* Every signature that instance k accepted was accepted at least the timeout ago.
Silent(k) ==
    \A s \in Signatures :
        Used(s) /\ Home(s) = k => now >= lastUse[s] + AGG_KEY_TIMEOUT

\* The dead man's switch (timeoutEmergency) is open exactly when the
\* aggregate key has been silent for the timeout: never earlier, and it can
\* not be held shut, not by an underflow of the subtraction either.
SwitchOpensOnSilence ==
    \A k \in KeyManagers :
        /\ lastValidateTime[k] <= now
        /\ TimeoutEmergency(k) <=> Silent(k)

\* Signature s is accepted in this step.
AcceptedNow(s) == uses'[s] > uses[s]

\* Custody of the aggregate key: it only changes by a signature which the key
\* it replaces made over its successor, or after a silence of the timeout.
CustodyStep ==
    \A k \in KeyManagers : aggKey'[k] # aggKey[k] =>
        \/ Silent(k)
        \/ \E s \in Signatures :
              /\ AcceptedNow(s)
              /\ Home(s) = k
              /\ s.key = aggKey[k]
              /\ s.hash.call = [fn |-> "setAggKeyWithAggKey", args |-> aggKey'[k]]
AggKeyCustody == [][CustodyStep]_kmVars
=============================================================================
