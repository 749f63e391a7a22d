------------------------------- MODULE MCVault -------------------------------
(***************************************************************************)
(* Instances of the Vault for TLC: what the aggregate key signs in each    *)
(* scenario, for native tokens and one token, which ScUtils takes for FLIP *)
(* too, in a few indivisible units.                                        *)
(***************************************************************************)
EXTENDS Vault, TLC

CONSTANTS eth, zero, gov, alice, vault, vault2, multicall, rcvA, rcvB, usdc,
          native, kmA, kmB, k1, s1, scUtils, gateway

MCAddresses == {zero, gov, alice, vault, vault2, multicall, rcvA, rcvB, usdc, kmA, kmB,
                scUtils, gateway}
OneKeyManager == {<<eth, kmA>>}
TwoKeyManagers == {<<eth, kmA>>, <<eth, kmB>>}
GenesisInstance == <<eth, kmA>>
MCInitialKeys == {<<k1, gov, gov>>}

Holding(holders) ==
    [a \in Assets |-> [p \in Parties |-> IF p \in DOMAIN holders THEN holders[p] ELSE 0]]
BatchFunds ==
    [Holding((vault :> 2) @@ (alice :> 1)) EXCEPT ![usdc][<<s1, usdc>>] = 1, ![usdc][alice] = 0]
RunFunds == Holding(vault :> 4)

Signed(fn, args, nonce) ==
    [key |-> k1, hash |-> MsgHash([fn |-> fn, args |-> args], nonce, vault, GenesisInstance)]

Pay(asset, to, amount) == [token |-> asset, recipient |-> to, amount |-> amount]
Fetch(deposit, token) == [fetchContract |-> deposit, token |-> token]
Upgrade(km, omitChecks) == [keyManager |-> km, omitChecks |-> omitChecks]

\* Batches that deploy the same Deposit, fetch from one that another batch
\* deploys, and pay more than the Vault has before it fetches.
BatchSignatures ==
    { Signed("allBatch",
             [deploy |-> <<<<s1, usdc>>>>, fetch |-> <<Fetch(<<s1, usdc>>, usdc)>>,
              transfers |-> <<Pay(usdc, rcvA, 3), Pay(native, <<s1, native>>, 1),
                              Pay(usdc, alice, 1)>>], 1),
      Signed("allBatchV2",
             [fetch |-> <<Fetch(<<s1, usdc>>, usdc)>>,
              transfers |-> <<Pay(native, rcvA, 1), Pay(native, alice, 1)>>], 2),
      Signed("deployAndFetchBatch", [deploy |-> <<<<s1, native>>, <<s1, usdc>>>>], 3),
      Signed("fetchBatch", [fetch |-> <<Fetch(<<s1, usdc>>, usdc)>>], 3),
      Signed("updateKeyManager", Upgrade(kmB, FALSE), 2),
      Signed("transfer", [transfers |-> <<Pay(usdc, alice, 1)>>], 3),
      Signed("transferBatch", [transfers |-> <<Pay(usdc, alice, 1), Pay(usdc, alice, 3)>>], 3) }

Plain(to, amount) ==
    [callType |-> "default", method |-> "fallback", token |-> native, to |-> to, amount |-> amount]
TokenCall(type, method, to, amount) ==
    [callType |-> type, method |-> method, token |-> usdc, to |-> to, amount |-> amount]

\* Two runs of the Multicall, one of which calls a contract that can submit
\* the other; calls that reach for the Vault's tokens; a swap and a call.
RunSignatures ==
    { Signed("executeActions",
             [transfers |-> <<Pay(usdc, multicall, 2)>>,
              calls |-> <<Plain(rcvB, 0), TokenCall("fullTokenBalance", "transfer", rcvA, 0),
                          TokenCall("default", "cfReceive", rcvA, 1)>>], 1),
      Signed("executeActions",
             [transfers |-> <<Pay(usdc, multicall, 1)>>,
              calls |-> <<Plain(rcvB, 0), TokenCall("fullTokenBalance", "transfer", rcvB, 0)>>], 2),
      Signed("executeActions",
             [transfers |-> <<Pay(native, multicall, 1)>>,
              calls |-> <<TokenCall("default", "transferFrom", alice, 1),
                          [Plain(rcvB, 0) EXCEPT !.callType = "fullNativeBalance"]>>], 3),
      Signed("executeActions",
             [transfers |-> <<Pay(native, multicall, 2)>>,
              calls |-> <<TokenCall("collectTokenBalance", "none", multicall, 0),
                          TokenCall("default", "cfReceive", rcvB, 1), Plain(vault, 1)>>], 4),
      Signed("executexSwapAndCall", [transfers |-> <<Pay(native, rcvA, 1)>>], 5),
      Signed("executexSwapAndCall", [transfers |-> <<Pay(usdc, scUtils, 1)>>, to |-> scUtils], 5),
      Signed("executexSwapAndCall", [transfers |-> <<Pay(native, scUtils, 1)>>, to |-> rcvB], 5),
      Signed("executexCall", [recipient |-> rcvA], 6),
      Signed("transferFallback", [transfers |-> <<Pay(native, rcvB, 1)>>], 6) }
=============================================================================
