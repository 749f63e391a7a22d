------------------------------- MODULE Deposit -------------------------------
(***************************************************************************)
(* The Deposit contracts (contracts/Deposit.sol).  Users pay to the        *)
(* address of a Deposit before there is a contract; the Vault deploys it,  *)
(* whose constructor sends what it holds of its token to the Vault, and    *)
(* has it send tokens again later.  A deployed Deposit passes native       *)
(* tokens on as they arrive.                                               *)
(***************************************************************************)
EXTENDS Assets

VARIABLE deposits    \* the Deposit contracts that are deployed

\* f once everything of the asset in each <<deposit, asset>> of S has gone to
\* the Vault.
Swept(f, S) ==
    [a \in Assets |->
        LET from == {d \in DepositContracts : <<d, a>> \in S}
        IN  [p \in Parties |->
                IF p \in from THEN 0
                ELSE IF p = TheVault THEN f[a][p] + SumFunctionOnSet(f[a], from)
                ELSE f[a][p]]]

\* The constructors: a contract can be created once at an address, and sends
\* the token it was created for, and no other, to the Vault.
Deployable(deploy) ==
    /\ \A i, j \in DOMAIN deploy : deploy[i] = deploy[j] => i = j
    /\ \A i \in DOMAIN deploy : deploy[i] \notin deposits
Deployed(deploy) == {deploy[i] : i \in DOMAIN deploy}
SentOnCreation(deploy) == {<<d, d[2]>> : d \in Deployed(deploy)}

\* fetch, of deposits that exist by then: native tokens have no balanceOf.
Fetchable(fetch, existing) ==
    \A i \in DOMAIN fetch : fetch[i].fetchContract \in existing /\ fetch[i].token \in Tokens
Fetched(fetch) == {<<fetch[i].fetchContract, fetch[i].token>> : i \in DOMAIN fetch}

\* receive: what an amount of native tokens does that is sent to a party with
\* enough gas.  A deployed Deposit sends all it has to the Vault.
Received(f, to, amount) ==
    LET g == [f EXCEPT ![NATIVE][to] = @ + amount]
    IN  IF to \in deposits THEN Swept(g, {<<to, NATIVE>>}) ELSE g

DepositInit == deposits = {}
=============================================================================
