---------------------------- MODULE MCKeyManager ----------------------------
(***************************************************************************)
(* Instances of KeyManager for TLC.  Two aggregate keys k1 and k2, a key   *)
(* "weak" that the Schnorr library can not verify, and the nonces 1 and 2. *)
(***************************************************************************)
EXTENDS KeyManager

CONSTANTS eth, arb, zero, gov, eve, vault, kmA, kmB, k1, k2, weak

\* Two chains whose KeyManagers have the same address, and the KeyManager
\* that replaces the first one.
MCKeyManagers == {<<eth, kmA>>, <<arb, kmA>>, <<eth, kmB>>}

MCAddresses == {zero, gov, eve, vault, kmA, kmB}
MCInitialKeys == {<<k1, gov, gov>>}

Call(fn, args) == [fn |-> fn, args |-> args]
Signed(key, call, nonce, sender, k) ==
    [key |-> key, hash |-> MsgHash(call, nonce, sender, k)]

\* For the first instance: a transfer by the vault, another one over the same
\* nonce in case the first is lost, the same transfer by the next key, and
\* the rotation to that key; for the others a governance key that is zero.
MCSignatures ==
    LET home == <<eth, kmA>> IN
    { Signed(k1, Call("transfer", eve), 1, vault, home),
      Signed(k1, Call("transfer", gov), 1, vault, home),
      Signed(k2, Call("transfer", eve), 1, vault, home),
      Signed(k1, Call("setAggKeyWithAggKey", k2), 2, kmA, home),
      Signed(k1, Call("setCommKeyWithAggKey", zero), 2, kmA, home) }
    \cup { Signed(k1, Call("setGovKeyWithAggKey", zero), 1, k[2], k) :
              k \in KeyManagers \ {home} }
=============================================================================
