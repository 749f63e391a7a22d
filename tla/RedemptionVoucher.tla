-------------------------- MODULE RedemptionVoucher --------------------------
(***************************************************************************)
(* What the State Chain relies on when it signs a redemption: the          *)
(* signature is a voucher.  It is registered at most once, for the account *)
(* it names, which has no other live voucher then; it is paid at most      *)
(* once, not before the delay has passed since then and not after its      *)
(* expiry; and it only lapses after its expiry.  The State Chain may       *)
(* therefore credit the amount back once it has seen the expiry go by.     *)
(***************************************************************************)
EXTENDS Naturals

CONSTANTS
    Vouchers,
    Account,    \* [Vouchers -> accounts]
    Expiry,     \* [Vouchers -> Nat]
    Delay

VARIABLES
    clock,
    status,     \* [Vouchers -> {"unused", "pending", "paid", "lapsed"}]
    since       \* [Vouchers -> Nat], when a voucher was registered

voucherVars == <<clock, status, since>>

Init ==
    /\ clock \in Nat
    /\ status = [v \in Vouchers |-> "unused"]
    /\ since = [v \in Vouchers |-> 0]

Advance ==
    /\ clock' = clock + 1
    /\ UNCHANGED <<status, since>>

\* Registering v lets a voucher of the same account lapse that has expired.
Register(v) ==
    LET others == {u \in Vouchers \ {v} : status[u] = "pending" /\ Account[u] = Account[v]} IN
    /\ status[v] = "unused"
    /\ Expiry[v] > clock + Delay
    /\ \A u \in others : clock > Expiry[u]
    /\ status' = [u \in Vouchers |-> IF u = v THEN "pending"
                                     ELSE IF u \in others THEN "lapsed" ELSE status[u]]
    /\ since' = [since EXCEPT ![v] = clock]
    /\ UNCHANGED clock

Pay(v) ==
    /\ status[v] = "pending"
    /\ since[v] + Delay <= clock
    /\ clock <= Expiry[v]
    /\ status' = [status EXCEPT ![v] = "paid"]
    /\ UNCHANGED <<clock, since>>

Lapse(v) ==
    /\ status[v] = "pending"
    /\ clock > Expiry[v]
    /\ status' = [status EXCEPT ![v] = "lapsed"]
    /\ UNCHANGED <<clock, since>>

Next == Advance \/ \E v \in Vouchers : Register(v) \/ Pay(v) \/ Lapse(v)

Spec == Init /\ [][Next]_voucherVars
=============================================================================
