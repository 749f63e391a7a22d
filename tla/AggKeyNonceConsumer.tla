------------------------- MODULE AggKeyNonceConsumer -------------------------
(***************************************************************************)
(* The contracts that act on signatures of the aggregate key and keep a    *)
(* reference to the KeyManager that verifies them                          *)
(* (contracts/AggKeyNonceConsumer.sol).  They all live on HomeChain, on    *)
(* which KeyManager instances may replace one another.                     *)
(***************************************************************************)
EXTENDS KeyManager

CONSTANTS
    HomeChain,   \* the chain of the contracts modelled
    GenesisKM    \* the KeyManager they are first deployed with

HomeKeyManagers == {k \in KeyManagers : k[1] = HomeChain}

ASSUME HomeAssumption == GenesisKM \in HomeKeyManagers

VARIABLE keyManager    \* [NonceConsumers -> HomeKeyManagers], _keyManager

\* The arguments that some signature names for function fn.
SignedArgs(fn) == {c.args : c \in {d \in ContractMsgHashes : d.fn = fn}}

\* The modifier consumesKeyNonce: the KeyManager sees contract c as the sender.
ConsumesKeyNonce(c, sig, nonce, fn, args) ==
    ConsumeKeyNonce(keyManager[c], c, sig, nonce, [fn |-> fn, args |-> args])

\* What any consumer's updateKeyManager does; its own compatibility check
\* (_checkUpdateKeyManager) is added by the contract.
SetKeyManager(c, sig, nonce, newKeyManager, omitChecks) ==
    /\ ConsumesKeyNonce(c, sig, nonce, "updateKeyManager",
                        [keyManager |-> newKeyManager[2], omitChecks |-> omitChecks])
    /\ keyManager' = [keyManager EXCEPT ![c] = newKeyManager]

AggKeyNonceConsumerInit == keyManager = [c \in NonceConsumers |-> GenesisKM]

AggKeyNonceConsumerTypeOK == keyManager \in [NonceConsumers -> HomeKeyManagers]
=============================================================================
