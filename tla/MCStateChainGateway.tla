------------------------ MODULE MCStateChainGateway ------------------------
(***************************************************************************)
(* Instances of StateChainGateway for TLC: what the aggregate key signs in *)
(* each scenario.  Amounts are a few indivisible units of FLIP.            *)
(***************************************************************************)
EXTENDS StateChainGateway

CONSTANTS eth, zero, gov, alice, vault, kmA, kmB, gw, gw2, k1, n0, n1, n2, none

MCAddresses == {zero, gov, alice, vault, kmA, kmB, gw, gw2}
OneKeyManager == {<<eth, kmA>>}
TwoKeyManagers == {<<eth, kmA>>, <<eth, kmB>>}
GenesisInstance == <<eth, kmA>>
MCInitialKeys == {<<k1, gov, gov>>}

Signed(fn, args, nonce, g, k) ==
    [key |-> k1, hash |-> MsgHash([fn |-> fn, args |-> args], nonce, g, k)]

Register(n, amount, to, expiry, executor) ==
    [nodeID |-> n, amount |-> amount, redeemAddress |-> to,
     expiryTime |-> expiry, executor |-> executor]
Supply(newSupply, block) == [newTotalSupply |-> newSupply, stateChainBlockNumber |-> block]
Issuer(newIssuer, omitChecks) == [newIssuer |-> newIssuer, omitChecks |-> omitChecks]
Upgrade(km, omitChecks) == [keyManager |-> km, omitChecks |-> omitChecks]

\* Three registrations for one node: one that anyone can execute, one that
\* the executor can, which moves FLIP to another gateway, and one that may
\* replace them late; and one for a second node, competing for the funds.
RedemptionSignatures ==
    { Signed("registerRedemption", Register(n1, 1, alice, 5, zero), 1, gw, GenesisInstance),
      Signed("registerRedemption", Register(n1, 2, gw2, 6, alice), 2, gw, GenesisInstance),
      Signed("registerRedemption", Register(n1, 1, alice, 8, zero), 3, gw, GenesisInstance),
      Signed("registerRedemption", Register(n2, 2, alice, 6, zero), 3, gw, GenesisInstance) }

\* Supply updates for two blocks, one for a block that was used already, and
\* the handover to the new gateway, to a contract that is none, and back; and
\* a redemption for the zero NodeID, which can not be registered.
SupplySignatures ==
    { Signed("updateFlipSupply", Supply(4, 1), 1, gw, GenesisInstance),
      Signed("updateFlipSupply", Supply(2, 2), 2, gw, GenesisInstance),
      Signed("updateFlipSupply", Supply(3, 2), 3, gw, GenesisInstance),
      Signed("updateFlipIssuer", Issuer(gw2, FALSE), 4, gw, GenesisInstance),
      Signed("updateFlipIssuer", Issuer(vault, TRUE), 4, gw, GenesisInstance),
      Signed("updateFlipIssuer", Issuer(gov, TRUE), 3, gw, GenesisInstance),
      Signed("updateFlipSupply", Supply(4, 1), 5, gw2, GenesisInstance),
      Signed("registerRedemption", Register(n0, 1, gw2, 5, zero), 5, gw, GenesisInstance) }

\* The upgrade of the gateway's KeyManager, with and without its checks,
\* and the same redemption signed for either KeyManager.
UpgradeSignatures ==
    { Signed("updateKeyManager", Upgrade(kmB, FALSE), 1, gw, GenesisInstance),
      Signed("updateKeyManager", Upgrade(kmB, TRUE), 2, gw, GenesisInstance),
      Signed("updateKeyManager", Upgrade(kmA, FALSE), 1, gw, <<eth, kmB>>),
      Signed("registerRedemption", Register(n1, 1, alice, 5, zero), 3, gw, GenesisInstance),
      Signed("registerRedemption", Register(n1, 1, alice, 5, zero), 3, gw, <<eth, kmB>>) }
=============================================================================
