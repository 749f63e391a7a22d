------------------------------ MODULE MCAirdrop ------------------------------
(***************************************************************************)
(* Four holders in batches of two: three above the cutoff, of which two    *)
(* are verified, and one below it.  A second snapshot finds other balances *)
(* of three of them.                                                       *)
(***************************************************************************)
EXTENDS Airdrop

MCHolders == <<"h1", "h2", "h3", "h4">>
MCSnapshots == {<<4, 3, 2, 1>>, <<4, 2, 2>>}
ByHolder(amounts) ==
    [h \in {MCHolders[i] : i \in DOMAIN amounts} |->
        amounts[CHOOSE i \in DOMAIN amounts : MCHolders[i] = h]]
TwoSnapshots == {ByHolder(amounts) : amounts \in MCSnapshots}
=============================================================================
