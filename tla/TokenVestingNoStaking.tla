------------------------ MODULE TokenVestingNoStaking ------------------------
(***************************************************************************)
(* The linear lockup (contracts/utils/TokenVestingNoStaking.sol): a fifth  *)
(* of the balance is released at the cliff, the rest in proportion to the  *)
(* time up to the end, in integer arithmetic.                              *)
(***************************************************************************)
EXTENDS Vesting

CLIFF_DENOMINATOR == 5

VARIABLES
    released,      \* [Tokens -> Nat]
    atRevocation   \* history: time, token and what had been paid in of it

linearVars == <<released, atRevocation>>

LinearInit ==
    /\ released = [t \in Tokens |-> 0]
    /\ atRevocation = [time |-> 0, token |-> CHOOSE t \in Tokens : TRUE, paidIn |-> 0]

\* Wrong: what was released is no part of the total.
CurrentBalance(token) == balance[token]

TotalBalance(token) == balance[token] + released[token]

\* Wrong: the fifth that is released at the cliff vests again.
VestedTwice(total) ==
    (total \div CLIFF_DENOMINATOR) + (total * (now - Start)) \div (End - Start)

VestedSoFar(total) ==
    LET cliffAmount == total \div CLIFF_DENOMINATOR
    IN  cliffAmount + ((total - cliffAmount) * (now - Start)) \div (End - Start)

VestedAmount(token) ==
    IF now < Start THEN 0
    ELSE IF now >= End \/ revoked THEN TotalBalance(token)
    ELSE VestedSoFar(TotalBalance(token))

ReleasableAmount(token) == VestedAmount(token) - released[token]

Release(caller, token) ==
    /\ lockup = "linear"
    /\ OnlyBeneficiary(caller)
    /\ ReleasableAmount(token) > 0
    /\ released' = [released EXCEPT ![token] = @ + ReleasableAmount(token)]
    /\ PayBeneficiary(token, ReleasableAmount(token))
    /\ UNCHANGED <<roleVars, now, revoked, paidIn, atRevocation>>

Revoke(caller, token) ==
    /\ lockup = "linear"
    /\ RevokeAllBut(caller, token, ReleasableAmount(token))
    /\ atRevocation' = [time |-> now, token |-> token, paidIn |-> paidIn[token]]
    /\ UNCHANGED released

\* The schedule of the contract's documentation, without rounding: a fifth of
\* total at the cliff, the other four fifths in proportion to the time.
WithinSchedule(amount, total, time) ==
    \/ amount <= 0
    \/ time >= End /\ amount <= total
    \/ /\ Start <= time /\ time < End
       /\ 5 * amount * (End - Start) <= total * ((End - Start) + 4 * (time - Start))

\* The beneficiary never has more than has vested: of every token while the
\* vesting goes on, whatever was paid in and released in between; and for good
\* of the token that was revoked, apart from what is paid in later.
ScheduleRespected ==
    lockup = "linear" =>
        IF ~ revoked
        THEN \A t \in Tokens : WithinSchedule(toBeneficiary[t], paidIn[t], now)
        ELSE LET r == atRevocation
                 later == paidIn[r.token] - r.paidIn
             IN  WithinSchedule(toBeneficiary[r.token] - later, r.paidIn, r.time)

\* What the beneficiary has or can release never shrinks: not by a release or
\* a payment, not with time and its rounding, and not by a revocation, which
\* takes only what has not vested.
EntitlementStep ==
    lockup = "linear" =>
        \A t \in Tokens :
            toBeneficiary[t] + ReleasableAmount(t) <= (toBeneficiary[t] + ReleasableAmount(t))'
EntitlementNeverShrinks == [][EntitlementStep]_<<vestingVars, linearVars>>
=============================================================================
