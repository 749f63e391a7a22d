----------------------- MODULE VestingContracts_proofs -----------------------
(***************************************************************************)
(* The linear lockup keeps its schedule and takes nothing back, for all    *)
(* tokens, amounts and times: the integer arithmetic of _vestedAmount and  *)
(* the order of payments, releases and the revocation that it meets.  The  *)
(* staking lockup pays nothing before the end but rewards, and the         *)
(* subtraction of its counters does not lock the rewards up.               *)
(***************************************************************************)
EXTENDS VestingContracts, SumLemmas

-----------------------------------------------------------------------------
(* Integer arithmetic *)

\* Integer division rounds down.
LEMMA DivBounds ==
    ASSUME NEW a \in Nat, NEW d \in Nat \ {0}
    PROVE  /\ a \div d \in Nat
           /\ d * (a \div d) <= a
BY SMT

\* Integer division is monotone.
LEMMA DivMonotone ==
    ASSUME NEW a \in Nat, NEW b \in Nat, NEW d \in Nat \ {0}, a <= b
    PROVE  a \div d <= b \div d
BY SMT

\* Products are monotone.
LEMMA MulMonotone ==
    ASSUME NEW a \in Nat, NEW b \in Nat, NEW x \in Nat, NEW y \in Nat, a <= b, x <= y
    PROVE  a * x <= b * y
BY SMT

\* A positive factor can be cancelled.
LEMMA Cancel ==
    ASSUME NEW a \in Int, NEW b \in Int, NEW d \in Nat \ {0}, d * a <= d * b
    PROVE  a <= b
BY SMT
-----------------------------------------------------------------------------
(* The schedule *)

\* VestedSoFar at any time.
Vested(total, time) ==
    LET cliffAmount == total \div 5
    IN  cliffAmount + ((total - cliffAmount) * (time - Start)) \div (End - Start)

\* The linear formula of _vestedAmount, between the cliff and the end, yields
\* no more than the documented share of the total, and no more than the total.
LEMMA VestedWithin ==
    ASSUME NEW total \in Nat, NEW time \in Nat, Start <= time, time < End
    PROVE  /\ Vested(total, time) \in Nat
           /\ Vested(total, time) <= total
           /\ 5 * Vested(total, time) * (End - Start)
                 <= total * ((End - Start) + 4 * (time - Start))
<1> USE VestingAssumption
<1> DEFINE c == total \div 5
           d == End - Start
           t == time - Start
           q == ((total - c) * t) \div d
<1>1. c \in Nat /\ 5 * c <= total
  BY DivBounds
<1>2. d \in Nat \ {0} /\ t \in Nat /\ t <= d
  BY SMT
<1>3. total - c \in Nat
  BY <1>1, SMT
<1>4. (total - c) * t \in Nat
  BY <1>2, <1>3, SMT
<1>5. q \in Nat /\ d * q <= (total - c) * t
  BY <1>2, <1>4, DivBounds
<1>6. q <= total - c
  <2>1. (total - c) * t <= (total - c) * d
    BY <1>2, <1>3, MulMonotone
  <2>2. (total - c) * d = d * (total - c)
    BY <1>2, <1>3, SMT
  <2>3. d * q <= d * (total - c)
    <3> HIDE DEF q, c, d, t
    <3> QED BY <1>2, <1>3, <1>4, <1>5, <2>1, <2>2, SMT
  <2> QED BY <2>3, <1>2, <1>3, <1>5, Cancel
<1>7. Vested(total, time) = c + q
  BY DEF Vested
<1>8. 5 * (c + q) * d <= total * (d + 4 * t)
  <2>1. PICK e \in Nat : d = t + e
    <3>1. d - t \in Nat /\ d = t + (d - t)
      BY <1>2, SMT
    <3> QED BY <3>1
  <2>2. PICK u \in Nat : total = c + u
    <3>1. total = c + (total - c)
      BY <1>1, SMT
    <3> QED BY <3>1, <1>3
  <2> HIDE DEF c, d, t, q
  <2>3. d * q <= u * t
    <3>1. total - c = u
      BY <1>1, <2>2, SMT
    <3> QED BY <3>1, <1>5
  <2>4. (5 * c) * e <= total * e
    BY <1>1, <2>1, MulMonotone
  <2>5. 5 * (c + q) * d = 5 * (c * t) + (5 * c) * e + 5 * (d * q)
    BY <1>1, <1>2, <1>5, <2>1, SMT
  <2>6. total * (d + 4 * t) = 5 * (c * t) + 5 * (u * t) + total * e
    BY <1>1, <1>2, <2>1, <2>2, SMT
  <2>7. /\ c * t \in Nat /\ (5 * c) * e \in Nat /\ d * q \in Nat /\ u * t \in Nat
        /\ total * e \in Nat
    BY <1>1, <1>2, <1>5, <2>1, <2>2, SMT
  <2> DEFINE ct == c * t  ce == (5 * c) * e  dq == d * q  ut == u * t  te == total * e
  <2>8. 5 * ct + ce + 5 * dq <= 5 * ct + 5 * ut + te
    <3>1. ct \in Nat /\ ce \in Nat /\ dq \in Nat /\ ut \in Nat /\ te \in Nat /\ dq <= ut /\ ce <= te
      BY <2>3, <2>4, <2>7
    <3> HIDE DEF ct, ce, dq, ut, te
    <3> QED BY <3>1, SMT
  <2> QED BY <2>5, <2>6, <2>8
<1> QED
  <2> HIDE DEF c, d, t, q
  <2>1. c + q \in Nat /\ c + q <= total
    BY <1>1, <1>5, <1>6, SMT
  <2>2. 5 * (c + q) * d <= total * (d + 4 * t)
    BY <1>8
  <2> QED BY <1>7, <2>1, <2>2 DEF d, t

\* More is vested of more, and later.
LEMMA VestedMonotone ==
    ASSUME NEW total \in Nat, NEW total2 \in Nat, NEW time \in Nat, NEW time2 \in Nat,
           total <= total2, time <= time2, Start <= time, time2 < End
    PROVE  Vested(total, time) <= Vested(total2, time2)
<1> USE VestingAssumption
<1> DEFINE c == total \div 5
           c2 == total2 \div 5
           d == End - Start
           p == (total - c) * (time - Start)
           p2 == (total2 - c2) * (time2 - Start)
<1>1. d \in Nat \ {0} /\ time - Start \in Nat /\ time2 - Start \in Nat
  BY SMT
<1>2. c \in Nat /\ c2 \in Nat /\ c <= c2
  BY DivBounds, DivMonotone
<1>3. total - c \in Nat /\ total2 - c2 \in Nat /\ total - c <= total2 - c2
  BY SMT
<1>4. p \in Nat /\ p2 \in Nat /\ p <= p2
  <2>1. p \in Nat /\ p2 \in Nat
    BY <1>1, <1>3, SMT
  <2>2. time - Start <= time2 - Start
    BY SMT
  <2>3. p <= p2
    BY <1>1, <1>3, <2>2, MulMonotone
  <2> QED BY <2>1, <2>3
<1>5. p \div d \in Nat /\ p2 \div d \in Nat /\ p \div d <= p2 \div d
  BY <1>1, <1>4, DivBounds, DivMonotone
<1>6. Vested(total, time) = c + p \div d /\ Vested(total2, time2) = c2 + p2 \div d
  BY DEF Vested
<1> DEFINE q == p \div d
           q2 == p2 \div d
<1>7. q \in Nat /\ q2 \in Nat /\ q <= q2
  BY <1>5
<1> HIDE DEF c, c2, q, q2
<1> QED BY <1>2, <1>6, <1>7, SMT DEF q, q2

\* _vestedAmount, for a total, a time and the revoked flag.
VestedOf(total, time, isRevoked) ==
    IF time < Start THEN 0
    ELSE IF time >= End \/ isRevoked THEN total
    ELSE Vested(total, time)

\* VestedOf is what the code computes of a token.
LEMMA VestedAmountIs ==
    ASSUME NEW t
    PROVE  VestedAmount(t) = VestedOf(TotalBalance(t), now, revoked)
BY DEF VestedAmount, VestedOf, VestedSoFar, Vested, CLIFF_DENOMINATOR

\* No more than the total is vested.
LEMMA VestedOfBounds ==
    ASSUME NEW total \in Nat, NEW time \in Nat, NEW isRevoked \in BOOLEAN
    PROVE  VestedOf(total, time, isRevoked) \in Nat /\ VestedOf(total, time, isRevoked) <= total
<1>1. CASE time < Start
  BY <1>1, VestingAssumption, SMT DEF VestedOf
<1>2. CASE ~ (time < Start) /\ (time >= End \/ isRevoked)
  BY <1>2, VestingAssumption, SMT DEF VestedOf
<1>3. CASE ~ (time < Start) /\ ~ (time >= End \/ isRevoked)
  <2>1. Start <= time /\ time < End
    BY <1>3, VestingAssumption, SMT
  <2>2. VestedOf(total, time, isRevoked) = Vested(total, time)
    BY <1>3 DEF VestedOf
  <2> QED BY <2>1, <2>2, VestedWithin
<1> QED BY <1>1, <1>2, <1>3

\* Nothing that is vested ceases to be, while the total does not shrink.
LEMMA VestedOfMonotone ==
    ASSUME NEW total \in Nat, NEW total2 \in Nat, NEW time \in Nat, NEW time2 \in Nat,
           NEW isRevoked \in BOOLEAN, NEW isRevoked2 \in BOOLEAN,
           total <= total2, time <= time2, isRevoked => isRevoked2
    PROVE  VestedOf(total, time, isRevoked) <= VestedOf(total2, time2, isRevoked2)
<1> DEFINE v == VestedOf(total, time, isRevoked)
           v2 == VestedOf(total2, time2, isRevoked2)
<1>1. v \in Nat /\ v <= total /\ v2 \in Nat
  BY VestedOfBounds
<1>2. CASE time < Start
  <2>1. v = 0
    BY <1>2 DEF VestedOf
  <2> HIDE DEF v, v2
  <2>2. v <= v2
    BY <1>1, <2>1, SMT
  <2> QED BY <2>2 DEF v, v2
<1>3. CASE ~ (time < Start) /\ (time2 >= End \/ isRevoked2)
  <2>1. ~ (time2 < Start)
    BY <1>3, VestingAssumption, SMT
  <2>2. v2 = total2
    BY <1>3, <2>1 DEF VestedOf
  <2> HIDE DEF v, v2
  <2>3. v <= v2
    BY <1>1, <2>2, SMT
  <2> QED BY <2>3 DEF v, v2
<1>4. CASE ~ (time < Start) /\ ~ (time2 >= End \/ isRevoked2)
  <2>1. Start <= time /\ time2 < End /\ ~ (time >= End \/ isRevoked) /\ ~ (time2 < Start)
    BY <1>4, VestingAssumption, SMT
  <2>2. v = Vested(total, time) /\ v2 = Vested(total2, time2)
    BY <1>4, <2>1 DEF VestedOf
  <2>3. Vested(total, time) <= Vested(total2, time2)
    BY <2>1, VestedMonotone
  <2> QED BY <2>2, <2>3
<1> QED BY <1>2, <1>3, <1>4

\* What is vested is within the documented schedule.
LEMMA VestedOfWithin ==
    ASSUME NEW total \in Nat, NEW time \in Nat
    PROVE  WithinSchedule(VestedOf(total, time, FALSE), total, time)
<1> DEFINE v == VestedOf(total, time, FALSE)
<1>1. CASE time < Start
  <2>1. v = 0
    BY <1>1 DEF VestedOf
  <2>2. v <= 0
    <3> HIDE DEF v
    <3> QED BY <2>1, SMT
  <2> QED BY <2>2 DEF WithinSchedule
<1>2. CASE ~ (time < Start) /\ time >= End
  <2>1. v = total
    BY <1>2 DEF VestedOf
  <2>2. v <= total
    <3> HIDE DEF v
    <3> QED BY <2>1, SMT
  <2> QED BY <1>2, <2>2 DEF WithinSchedule
<1>3. CASE ~ (time < Start) /\ ~ (time >= End)
  <2>1. Start <= time /\ time < End
    BY <1>3, VestingAssumption, SMT
  <2>2. v = Vested(total, time)
    BY <1>3 DEF VestedOf
  <2>3. 5 * Vested(total, time) * (End - Start) <= total * ((End - Start) + 4 * (time - Start))
    BY <2>1, VestedWithin
  <2> QED BY <2>1, <2>2, <2>3 DEF WithinSchedule
<1> QED BY <1>1, <1>2, <1>3

\* Less is within the schedule of more, now and a second later.
LEMMA ScheduleMonotone ==
    ASSUME NEW a \in Int, NEW b \in Int, NEW total \in Nat, NEW total2 \in Nat,
           NEW time \in Nat, NEW time2 \in Nat,
           a <= b, total <= total2, time <= time2, WithinSchedule(b, total, time)
    PROVE  WithinSchedule(a, total2, time2)
<1> USE VestingAssumption
<1>1. CASE a <= 0
  BY <1>1 DEF WithinSchedule
<1>2. CASE a > 0 /\ time >= End
  <2>1. b <= total
    BY <1>2, SMT DEF WithinSchedule
  <2>2. time2 >= End /\ a <= total2
    BY <1>2, <2>1, SMT
  <2> QED BY <2>2 DEF WithinSchedule
<1>3. CASE a > 0 /\ ~ (time >= End)
  <2> DEFINE d == End - Start
             t == time - Start
             t2 == time2 - Start
  <2>1. ~ (b <= 0)
    BY <1>3, SMT
  <2>2. Start <= time /\ time < End /\ 5 * b * d <= total * (d + 4 * t)
    BY <1>3, <2>1 DEF WithinSchedule
  <2>3. d \in Nat \ {0} /\ t \in Nat /\ t2 \in Nat /\ t < d /\ t <= t2
    BY <2>2, SMT
  <2>4. a \in Nat /\ b \in Nat
    BY <1>3, SMT
  <2>5. 5 * a * d <= 5 * b * d
    <3>1. 5 * a \in Nat /\ 5 * b \in Nat /\ 5 * a <= 5 * b
      BY <2>4, SMT
    <3>2. d \in Nat /\ d <= d
      BY <2>3, SMT
    <3> HIDE DEF d
    <3> QED BY <3>1, <3>2, MulMonotone
  <2>6. total * (d + 4 * t) <= total2 * (d + 4 * t2)
    <3>1. d + 4 * t \in Nat /\ d + 4 * t2 \in Nat /\ d + 4 * t <= d + 4 * t2
      BY <2>3, SMT
    <3> QED BY <3>1, MulMonotone
  <2>7. 5 * a * d <= total2 * (d + 4 * t2)
    <3> DEFINE w == 5 * a * d
               x == 5 * b * d
               y == total * (d + 4 * t)
               z == total2 * (d + 4 * t2)
    <3>1. w \in Int /\ x \in Int /\ y \in Int /\ z \in Int
      <4> HIDE DEF d, t, t2
      <4> QED BY <2>3, <2>4, SMT
    <3>2. w <= x /\ x <= y /\ y <= z
      BY <2>2, <2>5, <2>6
    <3> HIDE DEF w, x, y, z
    <3>3. w <= z
      BY <3>1, <3>2, SMT
    <3> QED BY <3>3 DEF w, z
  <2>8. CASE time2 < End
    <3>1. Start <= time2
      BY <2>2, SMT
    <3> QED BY <2>7, <2>8, <3>1 DEF WithinSchedule
  <2>9. CASE ~ (time2 < End)
    <3>1. total * (d + 4 * t) <= total2 * (5 * d)
      <4>1. d + 4 * t \in Nat /\ 5 * d \in Nat /\ d + 4 * t <= 5 * d
        BY <2>3, SMT
      <4> QED BY <4>1, MulMonotone
    <3>2. (5 * d) * a <= (5 * d) * total2
      <4> DEFINE w == 5 * a * d
                 x == 5 * b * d
                 y == total * (d + 4 * t)
                 z == total2 * (5 * d)
      <4>1. w \in Int /\ x \in Int /\ y \in Int /\ z \in Int
        <5> HIDE DEF d, t, t2
        <5> QED BY <2>3, <2>4, SMT
      <4>2. w <= x /\ x <= y /\ y <= z
        BY <2>2, <2>5, <3>1
      <4>3. w <= z
        <5> HIDE DEF w, x, y, z
        <5> QED BY <4>1, <4>2, SMT
      <4>4. w = (5 * d) * a /\ z = (5 * d) * total2
        <5> HIDE DEF d
        <5> QED BY <2>3, SMT
      <4> QED BY <4>3, <4>4
    <3>3. 5 * d \in Nat \ {0}
      BY <2>3, SMT
    <3>4. a <= total2
      BY <2>4, <3>2, <3>3, Cancel
    <3>5. time2 >= End
      BY <2>9, SMT
    <3> QED BY <3>4, <3>5 DEF WithinSchedule
  <2> QED BY <2>8, <2>9
<1> QED BY <1>1, <1>2, <1>3, SMT
-----------------------------------------------------------------------------
(* The steps of the linear lockup *)

scheduleVars == <<now, revoked, balance, paidIn, toBeneficiary, released, atRevocation>>

\* The lockup is not changed by any step.
LEMMA LockupConstant ==
    ASSUME [Next]_vars
    PROVE  lockup' = lockup
<1> USE DEF vars, vestingVars, roleVars, linearVars, stakingVars, counterVars, holderVars
<1>1. CASE CommonNext
  BY <1>1 DEF CommonNext, VestingNext, Tick, TransferBeneficiary, TransferRevoker, PayInto
<1>2. CASE LinearNext
  BY <1>2 DEF LinearNext, Release, Revoke, RevokeAllBut
<1>3. CASE StakingNext
  <2>1. CASE ProviderNext
    BY <2>1 DEF ProviderNext, Redeem, Reward, Slash
  <2>2. CASE \E caller \in Accounts : BeneficiaryNext(caller)
    BY <2>2 DEF BeneficiaryNext, FundStateChainAccount, StakeToStProvider,
        UnstakeFromStProvider, ClaimStProviderRewards, ReleaseAtEnd
  <2>3. CASE \E caller \in Accounts : RevokerNext(caller)
    BY <2>3 DEF RevokerNext, RevokeStaking, RevokeAllBut, RetrieveRevokedFunds
  <2> QED BY <1>3, <2>1, <2>2, <2>3 DEF StakingNext
<1>4. CASE ReplaceAddresses
  BY <1>4 DEF ReplaceAddresses
<1>5. CASE UNCHANGED vars
  BY <1>5
<1> QED BY <1>1, <1>2, <1>3, <1>4, <1>5 DEF Next

\* The staking functions take no step of the linear lockup.
LEMMA LinearStepIs ==
    ASSUME [Next]_vars, lockup = "linear"
    PROVE  \/ Tick /\ UNCHANGED <<released, atRevocation>>
           \/ \E token \in Tokens, amount \in Deposits :
                 PayInto(token, amount) /\ UNCHANGED <<released, atRevocation>>
           \/ \E caller \in Accounts, token \in Tokens : Release(caller, token)
           \/ \E caller \in Accounts, token \in Tokens : Revoke(caller, token)
           \/ UNCHANGED scheduleVars
<1> USE DEF vestingVars, roleVars, linearVars, scheduleVars
<1>1. CASE CommonNext
  BY <1>1 DEF CommonNext, VestingNext, TransferBeneficiary, TransferRevoker
<1>2. CASE LinearNext
  BY <1>2 DEF LinearNext
<1>3. CASE StakingNext
  <2>1. "linear" # "staking"
    OBVIOUS
  <2>2. ~ (lockup = "staking")
    BY <2>1
  <2>3. ~ NotRevoked
    BY <2>2 DEF NotRevoked
  <2>4. ~ \E caller \in Accounts : BeneficiaryNext(caller)
    BY <2>3 DEF BeneficiaryNext, FundStateChainAccount, StakeToStProvider,
        UnstakeFromStProvider, ClaimStProviderRewards, ReleaseAtEnd
  <2>5. ~ \E caller \in Accounts : RevokerNext(caller)
    BY <2>2, <2>3 DEF RevokerNext, RevokeStaking, RetrieveRevokedFunds
  <2> QED BY <1>3, <2>2, <2>4, <2>5 DEF StakingNext
<1>4. CASE ReplaceAddresses
  BY <1>4 DEF ReplaceAddresses
<1>5. CASE UNCHANGED vars
  BY <1>5 DEF vars
<1> QED BY <1>1, <1>2, <1>3, <1>4, <1>5 DEF Next
-----------------------------------------------------------------------------
(* The invariant *)

LinearType ==
    /\ now \in Nat /\ revoked \in BOOLEAN
    /\ balance \in [Tokens -> Nat] /\ paidIn \in [Tokens -> Nat]
    /\ toBeneficiary \in [Tokens -> Nat]
    /\ released = toBeneficiary

\* While the vesting goes on, the contract has all that was paid in and not
\* released, and what was released is within the schedule.
GoingOn ==
    \A t \in Tokens :
        /\ balance[t] + toBeneficiary[t] = paidIn[t]
        /\ WithinSchedule(toBeneficiary[t], paidIn[t], now)

\* What the revocation left, released or not, is within the schedule.
LeftOver ==
    LET r == atRevocation
        later == paidIn[r.token] - r.paidIn
    IN  /\ r.token \in Tokens /\ r.time \in Nat /\ r.paidIn \in Nat
        /\ r.paidIn <= paidIn[r.token]
        /\ WithinSchedule((toBeneficiary[r.token] + balance[r.token]) - later, r.paidIn, r.time)

LinearInv == LinearType /\ (~ revoked => GoingOn) /\ (revoked => LeftOver)

LinearIInv == lockup = "linear" => LinearInv

\* What a token's amounts are.
LEMMA LinearAmounts ==
    ASSUME LinearType, NEW t \in Tokens
    PROVE  /\ balance[t] \in Nat /\ paidIn[t] \in Nat /\ toBeneficiary[t] \in Nat
           /\ released[t] = toBeneficiary[t]
           /\ TotalBalance(t) = balance[t] + toBeneficiary[t] /\ TotalBalance(t) \in Nat
           /\ VestedAmount(t) = VestedOf(TotalBalance(t), now, revoked)
           /\ VestedAmount(t) \in Nat /\ VestedAmount(t) <= TotalBalance(t)
<1>1. balance[t] \in Nat /\ paidIn[t] \in Nat /\ toBeneficiary[t] \in Nat
  BY DEF LinearType
<1>2. released[t] = toBeneficiary[t]
  BY DEF LinearType
<1>3. TotalBalance(t) = balance[t] + toBeneficiary[t]
  BY <1>2 DEF TotalBalance
<1>4. TotalBalance(t) \in Nat
  BY <1>1, <1>3, SMT
<1>5. VestedAmount(t) = VestedOf(TotalBalance(t), now, revoked)
  BY VestedAmountIs
<1>6. now \in Nat /\ revoked \in BOOLEAN
  BY DEF LinearType
<1>7. VestedAmount(t) \in Nat /\ VestedAmount(t) <= TotalBalance(t)
  BY <1>4, <1>5, <1>6, VestedOfBounds
<1> QED BY <1>1, <1>2, <1>3, <1>4, <1>5, <1>7

\* A new contract keeps the invariant.
LEMMA LinearInitially ==
    ASSUME Init
    PROVE  LinearIInv
<1>1. now = Start - 1 /\ revoked = FALSE
  BY DEF Init, VestingInit
<1>2. now \in Nat
  BY <1>1, VestingAssumption, SMT
<1>3. /\ balance = [t \in Tokens |-> 0] /\ paidIn = [t \in Tokens |-> 0]
      /\ toBeneficiary = [t \in Tokens |-> 0] /\ released = [t \in Tokens |-> 0]
  BY DEF Init, VestingInit, LinearInit
<1>4. LinearType
  <2>1. [t \in Tokens |-> 0] \in [Tokens -> Nat]
    BY SMT
  <2> QED BY <1>1, <1>2, <1>3, <2>1 DEF LinearType
<1>5. GoingOn
  <2> SUFFICES ASSUME NEW t \in Tokens
               PROVE  /\ balance[t] + toBeneficiary[t] = paidIn[t]
                      /\ WithinSchedule(toBeneficiary[t], paidIn[t], now)
    BY DEF GoingOn
  <2>1. balance[t] = 0 /\ toBeneficiary[t] = 0 /\ paidIn[t] = 0
    BY <1>3
  <2>2. balance[t] + toBeneficiary[t] = paidIn[t] /\ toBeneficiary[t] <= 0
    BY <2>1, SMT
  <2> QED BY <2>2 DEF WithinSchedule
<1> QED BY <1>1, <1>4, <1>5 DEF LinearIInv, LinearInv
-----------------------------------------------------------------------------
(* The invariant is kept by every step *)

\* Time passes: what was within the schedule stays so.
LEMMA TickKeeps ==
    ASSUME LinearInv, Tick, UNCHANGED <<released, atRevocation>>
    PROVE  LinearInv'
<1>1. LinearType
  BY DEF LinearInv
<1>2. /\ now' = now + 1
      /\ UNCHANGED <<revoked, balance, paidIn, toBeneficiary, released, atRevocation>>
  BY DEF Tick
<1>3. now \in Nat /\ now' \in Nat /\ now <= now'
  <2>1. now \in Nat
    BY <1>1 DEF LinearType
  <2> QED BY <1>2, <2>1, SMT
<1>4. LinearType'
  BY <1>1, <1>2, <1>3 DEF LinearType
<1>5. ASSUME GoingOn
      PROVE  GoingOn'
  <2> SUFFICES ASSUME NEW t \in Tokens
               PROVE  /\ balance'[t] + toBeneficiary'[t] = paidIn'[t]
                      /\ WithinSchedule(toBeneficiary'[t], paidIn'[t], now')
    BY DEF GoingOn
  <2>1. balance[t] + toBeneficiary[t] = paidIn[t] /\ WithinSchedule(toBeneficiary[t], paidIn[t], now)
    BY <1>5 DEF GoingOn
  <2>2. toBeneficiary[t] \in Nat /\ paidIn[t] \in Nat
    BY <1>1, LinearAmounts
  <2>3. /\ toBeneficiary[t] \in Int /\ toBeneficiary[t] <= toBeneficiary[t]
        /\ paidIn[t] <= paidIn[t]
    BY <2>2, SMT
  <2>4. WithinSchedule(toBeneficiary[t], paidIn[t], now')
    BY <1>3, <2>1, <2>2, <2>3, ScheduleMonotone
  <2> QED BY <1>2, <2>1, <2>4
<1>6. ASSUME LeftOver
      PROVE  LeftOver'
  BY <1>2, <1>6 DEF LeftOver
<1> QED BY <1>2, <1>4, <1>5, <1>6 DEF LinearInv

\* A payment into the contract: it raises the total, so the schedule allows no
\* less, and of the revoked token it is left out of what the schedule is about.
LEMMA PayIntoKeeps ==
    ASSUME LinearInv, NEW token \in Tokens, NEW amount \in Deposits, PayInto(token, amount),
           UNCHANGED <<released, atRevocation>>
    PROVE  LinearInv'
<1>1. LinearType
  BY DEF LinearInv
<1>2. /\ balance' = [balance EXCEPT ![token] = balance[token] + amount]
      /\ paidIn' = [paidIn EXCEPT ![token] = paidIn[token] + amount]
      /\ UNCHANGED <<now, revoked, toBeneficiary, released, atRevocation>>
  BY DEF PayInto
<1>3. amount \in Nat
  BY VestingAssumption
<1>4. balance \in [Tokens -> Nat] /\ paidIn \in [Tokens -> Nat]
  BY <1>1 DEF LinearType
<1>5. LinearType'
  <2>1. balance' \in [Tokens -> Nat] /\ paidIn' \in [Tokens -> Nat]
    BY <1>2, <1>3, <1>4, SMT
  <2> QED BY <1>1, <1>2, <2>1 DEF LinearType
<1>6. ASSUME NEW t \in Tokens
      PROVE  \E more \in Nat : balance'[t] = balance[t] + more /\ paidIn'[t] = paidIn[t] + more
  <2>1. CASE t = token
    <3>1. balance'[t] = balance[t] + amount /\ paidIn'[t] = paidIn[t] + amount
      BY <1>2, <1>4, <2>1
    <3> QED BY <1>3, <3>1
  <2>2. CASE t # token
    <3>1. balance'[t] = balance[t] /\ paidIn'[t] = paidIn[t]
      BY <1>2, <1>4, <2>2
    <3>2. balance[t] \in Nat /\ paidIn[t] \in Nat
      BY <1>4
    <3>3. balance'[t] = balance[t] + 0 /\ paidIn'[t] = paidIn[t] + 0
      BY <3>1, <3>2, SMT
    <3> QED BY <3>3
  <2> QED BY <2>1, <2>2
<1>7. ASSUME GoingOn
      PROVE  GoingOn'
  <2> SUFFICES ASSUME NEW t \in Tokens
               PROVE  /\ balance'[t] + toBeneficiary'[t] = paidIn'[t]
                      /\ WithinSchedule(toBeneficiary'[t], paidIn'[t], now')
    BY DEF GoingOn
  <2>1. PICK more \in Nat : balance'[t] = balance[t] + more /\ paidIn'[t] = paidIn[t] + more
    BY <1>6
  <2>2. balance[t] + toBeneficiary[t] = paidIn[t] /\ WithinSchedule(toBeneficiary[t], paidIn[t], now)
    BY <1>7 DEF GoingOn
  <2>3. toBeneficiary[t] \in Nat /\ paidIn[t] \in Nat /\ balance[t] \in Nat
    BY <1>1, LinearAmounts
  <2>4. now \in Nat
    BY <1>1 DEF LinearType
  <2>5. toBeneficiary'[t] = toBeneficiary[t] /\ now' = now
    BY <1>2
  <2>6. /\ balance'[t] + toBeneficiary[t] = paidIn'[t]
        /\ paidIn'[t] \in Nat /\ paidIn[t] <= paidIn'[t]
        /\ toBeneficiary[t] \in Int /\ toBeneficiary[t] <= toBeneficiary[t]
        /\ now <= now
    BY <2>1, <2>2, <2>3, <2>4, SMT
  <2>7. WithinSchedule(toBeneficiary[t], paidIn'[t], now)
    BY <2>2, <2>3, <2>4, <2>6, ScheduleMonotone
  <2> QED BY <2>5, <2>6, <2>7
<1>8. ASSUME LeftOver
      PROVE  LeftOver'
  <2> DEFINE k == atRevocation.token
             rp == atRevocation.paidIn
             left == (toBeneficiary[k] + balance[k]) - (paidIn[k] - rp)
  <2>1. /\ k \in Tokens /\ atRevocation.time \in Nat /\ rp \in Nat /\ rp <= paidIn[k]
        /\ WithinSchedule(left, rp, atRevocation.time)
    BY <1>8 DEF LeftOver
  <2>2. PICK more \in Nat : balance'[k] = balance[k] + more /\ paidIn'[k] = paidIn[k] + more
    BY <1>6, <2>1
  <2>3. toBeneficiary[k] \in Nat /\ paidIn[k] \in Nat /\ balance[k] \in Nat
    BY <1>1, <2>1, LinearAmounts
  <2>4. /\ rp <= paidIn'[k]
        /\ (toBeneficiary[k] + balance'[k]) - (paidIn'[k] - rp) = left
    <3> HIDE DEF k, rp
    <3> QED BY <2>1, <2>2, <2>3, SMT
  <2> QED BY <1>2, <2>1, <2>4 DEF LeftOver
<1> QED BY <1>2, <1>5, <1>7, <1>8 DEF LinearInv

\* A release brings the beneficiary to what has vested and no further; once
\* the vesting is revoked, it moves what is left and adds nothing to it.
LEMMA ReleaseKeeps ==
    ASSUME LinearInv, NEW caller \in Accounts, NEW token \in Tokens, Release(caller, token)
    PROVE  LinearInv'
<1> DEFINE rel == ReleasableAmount(token)
<1>1. LinearType
  BY DEF LinearInv
<1>2. /\ released' = [released EXCEPT ![token] = released[token] + rel]
      /\ balance' = [balance EXCEPT ![token] = balance[token] - rel]
      /\ toBeneficiary' = [toBeneficiary EXCEPT ![token] = toBeneficiary[token] + rel]
      /\ rel > 0 /\ balance[token] >= rel
      /\ UNCHANGED <<now, revoked, paidIn, atRevocation>>
  BY DEF Release, PayBeneficiary
<1>3. /\ balance \in [Tokens -> Nat] /\ toBeneficiary \in [Tokens -> Nat]
      /\ released = toBeneficiary /\ now \in Nat
  BY <1>1 DEF LinearType
<1>4. rel = VestedAmount(token) - toBeneficiary[token]
  BY <1>3 DEF ReleasableAmount
<1>5. /\ balance[token] \in Nat /\ toBeneficiary[token] \in Nat /\ paidIn[token] \in Nat
      /\ TotalBalance(token) = balance[token] + toBeneficiary[token]
      /\ VestedAmount(token) = VestedOf(TotalBalance(token), now, revoked)
      /\ VestedAmount(token) \in Nat
  BY <1>1, LinearAmounts
<1> HIDE DEF rel
<1>6. rel \in Nat
  BY <1>2, <1>4, <1>5, SMT
<1>7. /\ balance'[token] = balance[token] - rel
      /\ toBeneficiary'[token] = toBeneficiary[token] + rel
      /\ \A t \in Tokens \ {token} :
            balance'[t] = balance[t] /\ toBeneficiary'[t] = toBeneficiary[t]
  BY <1>2, <1>3
<1>8. LinearType'
  <2>1. balance[token] - rel \in Nat /\ toBeneficiary[token] + rel \in Nat
    BY <1>2, <1>5, <1>6, SMT
  <2>2. balance' \in [Tokens -> Nat] /\ toBeneficiary' \in [Tokens -> Nat]
    BY <1>2, <1>3, <2>1
  <2>3. released' = toBeneficiary'
    BY <1>2, <1>3
  <2> QED BY <1>1, <1>2, <2>2, <2>3 DEF LinearType
<1>9. ASSUME GoingOn, ~ revoked
      PROVE  GoingOn'
  <2> SUFFICES ASSUME NEW t \in Tokens
               PROVE  /\ balance'[t] + toBeneficiary'[t] = paidIn'[t]
                      /\ WithinSchedule(toBeneficiary'[t], paidIn'[t], now')
    BY DEF GoingOn
  <2>1. balance[t] + toBeneficiary[t] = paidIn[t] /\ WithinSchedule(toBeneficiary[t], paidIn[t], now)
    BY <1>9 DEF GoingOn
  <2>2. CASE t = token
    <3>1. balance'[token] + toBeneficiary'[token] = paidIn[token]
      BY <1>5, <1>6, <1>7, <2>1, <2>2, SMT
    <3>2. TotalBalance(token) = paidIn[token]
      BY <1>5, <2>1, <2>2
    <3>3. revoked = FALSE
      BY <1>1, <1>9 DEF LinearType
    <3>4. VestedAmount(token) = VestedOf(paidIn[token], now, FALSE)
      BY <1>5, <3>2, <3>3
    <3>5. WithinSchedule(VestedAmount(token), paidIn[token], now)
      BY <1>3, <1>5, <3>4, VestedOfWithin
    <3>6. toBeneficiary'[token] = VestedAmount(token)
      BY <1>4, <1>5, <1>7, SMT
    <3> QED BY <1>2, <2>2, <3>1, <3>5, <3>6
  <2>3. CASE t # token
    BY <1>2, <1>7, <2>1, <2>3
  <2> QED BY <2>2, <2>3
<1>10. ASSUME LeftOver
       PROVE  LeftOver'
  <2> DEFINE k == atRevocation.token
             rp == atRevocation.paidIn
  <2>1. /\ k \in Tokens /\ atRevocation.time \in Nat /\ rp \in Nat /\ rp <= paidIn[k]
        /\ WithinSchedule((toBeneficiary[k] + balance[k]) - (paidIn[k] - rp), rp, atRevocation.time)
    BY <1>10 DEF LeftOver
  <2>2. toBeneficiary'[k] + balance'[k] = toBeneficiary[k] + balance[k]
    <3>1. CASE k = token
      <4> HIDE DEF k
      <4> QED BY <1>5, <1>6, <1>7, <3>1, SMT
    <3>2. CASE k # token
      BY <1>7, <2>1, <3>2
    <3> QED BY <3>1, <3>2
  <2>3. WithinSchedule((toBeneficiary'[k] + balance'[k]) - (paidIn[k] - rp), rp, atRevocation.time)
    BY <2>1, <2>2
  <2>4. atRevocation' = atRevocation /\ paidIn' = paidIn
    BY <1>2
  <2> QED BY <2>1, <2>3, <2>4 DEF LeftOver
<1> QED BY <1>2, <1>8, <1>9, <1>10 DEF LinearInv

\* A revocation leaves what is releasable: together with what was released it
\* is what has vested, which is within the schedule.
LEMMA RevokeKeeps ==
    ASSUME LinearInv, NEW caller \in Accounts, NEW token \in Tokens, Revoke(caller, token)
    PROVE  LinearInv'
<1> DEFINE rel == ReleasableAmount(token)
<1>1. LinearType /\ ~ revoked /\ GoingOn
  BY DEF LinearInv, Revoke, RevokeAllBut
<1>2. /\ balance' = [balance EXCEPT ![token] = rel]
      /\ rel >= 0 /\ rel <= balance[token]
      /\ revoked' = TRUE
      /\ atRevocation' = [time |-> now, token |-> token, paidIn |-> paidIn[token]]
      /\ UNCHANGED <<now, paidIn, toBeneficiary, released>>
  BY DEF Revoke, RevokeAllBut
<1>3. balance \in [Tokens -> Nat] /\ released = toBeneficiary /\ now \in Nat /\ revoked = FALSE
  BY <1>1 DEF LinearType
<1>4. rel = VestedAmount(token) - toBeneficiary[token]
  BY <1>3 DEF ReleasableAmount
<1>5. /\ balance[token] \in Nat /\ toBeneficiary[token] \in Nat /\ paidIn[token] \in Nat
      /\ TotalBalance(token) = balance[token] + toBeneficiary[token]
      /\ VestedAmount(token) = VestedOf(TotalBalance(token), now, revoked)
      /\ VestedAmount(token) \in Nat
  BY <1>1, LinearAmounts
<1> HIDE DEF rel
<1>6. rel \in Nat
  BY <1>2, <1>4, <1>5, SMT
<1>7. LinearType'
  <2>1. balance' \in [Tokens -> Nat]
    BY <1>2, <1>3, <1>6
  <2> QED BY <1>1, <1>2, <2>1 DEF LinearType
<1>8. LeftOver'
  <2>1. TotalBalance(token) = paidIn[token]
    BY <1>1, <1>5 DEF GoingOn
  <2>2. WithinSchedule(VestedAmount(token), paidIn[token], now)
    BY <1>3, <1>5, <2>1, VestedOfWithin
  <2>3. balance'[token] = rel
    BY <1>2, <1>3
  <2>4. /\ (toBeneficiary[token] + balance'[token]) - (paidIn[token] - paidIn[token])
              = VestedAmount(token)
        /\ paidIn[token] <= paidIn[token]
    BY <1>4, <1>5, <1>6, <2>3, SMT
  <2>5. /\ atRevocation'.token = token /\ atRevocation'.time = now
        /\ atRevocation'.paidIn = paidIn[token]
    BY <1>2
  <2>6. /\ token \in Tokens /\ now \in Nat /\ paidIn[token] \in Nat
        /\ paidIn[token] <= paidIn'[token]
        /\ WithinSchedule((toBeneficiary'[token] + balance'[token]) - (paidIn'[token] - paidIn[token]),
                          paidIn[token], now)
    BY <1>2, <1>3, <1>5, <2>2, <2>4
  <2> QED BY <2>5, <2>6 DEF LeftOver
<1> QED BY <1>2, <1>7, <1>8 DEF LinearInv

\* The invariant is inductive.
LEMMA LinearInductive ==
    ASSUME LinearIInv, [Next]_vars
    PROVE  LinearIInv'
<1> SUFFICES ASSUME lockup' = "linear"
             PROVE  LinearInv'
  BY DEF LinearIInv
<1>1. lockup = "linear"
  BY LockupConstant
<1>2. LinearInv
  BY <1>1 DEF LinearIInv
<1>3. CASE UNCHANGED scheduleVars
  BY <1>2, <1>3 DEF scheduleVars, LinearInv, LinearType, GoingOn, LeftOver
<1> QED BY <1>1, <1>2, <1>3, LinearStepIs, TickKeeps, PayIntoKeeps, ReleaseKeeps, RevokeKeeps

\* In every state, while the vesting goes on and after it was revoked.
THEOREM LinearInvariant == Spec => []LinearIInv
<1>1. Init => LinearIInv
  BY LinearInitially
<1>2. LinearIInv /\ [Next]_vars => LinearIInv'
  BY LinearInductive
<1> QED BY <1>1, <1>2, PTL DEF Spec

\* The beneficiary never has more than the schedule of the documentation
\* allows: of every token, whatever is paid in and released and whenever; and
\* after a revocation for good of the token that was revoked.
THEOREM ScheduleKept == Spec => []ScheduleRespected
<1>1. ASSUME LinearIInv
      PROVE  ScheduleRespected
  <2> SUFFICES ASSUME lockup = "linear"
               PROVE  IF ~ revoked
                      THEN \A t \in Tokens : WithinSchedule(toBeneficiary[t], paidIn[t], now)
                      ELSE LET r == atRevocation
                               later == paidIn[r.token] - r.paidIn
                           IN  WithinSchedule(toBeneficiary[r.token] - later, r.paidIn, r.time)
    BY DEF ScheduleRespected
  <2>1. LinearInv
    BY <1>1 DEF LinearIInv
  <2>2. CASE ~ revoked
    BY <2>1, <2>2 DEF LinearInv, GoingOn
  <2>3. CASE revoked
    <3> DEFINE k == atRevocation.token
               rp == atRevocation.paidIn
               later == paidIn[k] - rp
    <3>1. /\ k \in Tokens /\ atRevocation.time \in Nat /\ rp \in Nat /\ rp <= paidIn[k]
          /\ WithinSchedule((toBeneficiary[k] + balance[k]) - later, rp, atRevocation.time)
      BY <2>1, <2>3 DEF LinearInv, LeftOver
    <3>2. toBeneficiary[k] \in Nat /\ paidIn[k] \in Nat /\ balance[k] \in Nat
      BY <2>1, <3>1, LinearAmounts DEF LinearInv
    <3>3. /\ toBeneficiary[k] - later \in Int
          /\ (toBeneficiary[k] + balance[k]) - later \in Int
          /\ toBeneficiary[k] - later <= (toBeneficiary[k] + balance[k]) - later
          /\ rp <= rp /\ atRevocation.time <= atRevocation.time
      <4> DEFINE tm == atRevocation.time
      <4>1. tm \in Nat
        BY <3>1
      <4> HIDE DEF k, rp, tm
      <4>2. /\ toBeneficiary[k] - later \in Int
            /\ (toBeneficiary[k] + balance[k]) - later \in Int
            /\ toBeneficiary[k] - later <= (toBeneficiary[k] + balance[k]) - later
            /\ rp <= rp /\ tm <= tm
        BY <3>1, <3>2, <4>1, SMT
      <4> QED BY <4>2 DEF tm
    <3>4. WithinSchedule(toBeneficiary[k] - later, rp, atRevocation.time)
      BY <3>1, <3>3, ScheduleMonotone
    <3> QED BY <2>3, <3>4
  <2> QED BY <2>2, <2>3
<1> QED BY <1>1, LinearInvariant, PTL
-----------------------------------------------------------------------------
(* Nothing is taken back *)

\* What the beneficiary has or can release of a token is what has vested of it.
LEMMA EntitlementIsVested ==
    ASSUME LinearType, NEW t \in Tokens
    PROVE  toBeneficiary[t] + ReleasableAmount(t) = VestedAmount(t)
<1>1. ReleasableAmount(t) = VestedAmount(t) - toBeneficiary[t]
  BY LinearAmounts DEF ReleasableAmount
<1>2. VestedAmount(t) \in Nat /\ toBeneficiary[t] \in Nat
  BY LinearAmounts
<1> QED BY <1>1, <1>2, SMT

\* The facts of LinearAmounts, after a step.
LEMMA LinearAmountsNext ==
    ASSUME LinearType', NEW t \in Tokens
    PROVE  /\ balance'[t] \in Nat /\ toBeneficiary'[t] \in Nat
           /\ TotalBalance(t)' = balance'[t] + toBeneficiary'[t]
           /\ TotalBalance(t)' \in Nat
           /\ VestedAmount(t)' = VestedOf(TotalBalance(t)', now', revoked')
           /\ (toBeneficiary[t] + ReleasableAmount(t))' = VestedAmount(t)'
<1>1. /\ balance'[t] \in Nat /\ toBeneficiary'[t] \in Nat
      /\ released'[t] = toBeneficiary'[t]
  BY DEF LinearType
<1>2. TotalBalance(t)' = balance'[t] + toBeneficiary'[t]
  BY <1>1 DEF TotalBalance
<1>3. TotalBalance(t)' \in Nat
  BY <1>1, <1>2, SMT
<1>4. VestedAmount(t)' = VestedOf(TotalBalance(t)', now', revoked')
  BY DEF VestedAmount, VestedOf, VestedSoFar, Vested, CLIFF_DENOMINATOR, TotalBalance
<1>5. now' \in Nat /\ revoked' \in BOOLEAN
  BY DEF LinearType
<1>6. VestedAmount(t)' \in Nat
  BY <1>3, <1>4, <1>5, VestedOfBounds
<1>7. (toBeneficiary[t] + ReleasableAmount(t))' = toBeneficiary'[t] + (VestedAmount(t)' - toBeneficiary'[t])
  BY <1>1 DEF ReleasableAmount
<1>8. (toBeneficiary[t] + ReleasableAmount(t))' = VestedAmount(t)'
  <2> DEFINE v == VestedAmount(t)'
             e == (toBeneficiary[t] + ReleasableAmount(t))'
  <2>1. v \in Nat /\ e = toBeneficiary'[t] + (v - toBeneficiary'[t])
    BY <1>6, <1>7
  <2> HIDE DEF v, e
  <2>2. e = v
    BY <1>1, <2>1, SMT
  <2> QED BY <2>2 DEF e, v
<1> QED BY <1>1, <1>2, <1>3, <1>4, <1>8

\* A step that takes no token from the two of them, nor time back, takes
\* nothing from the beneficiary.
LEMMA VestedKept ==
    ASSUME LinearType, LinearType', NEW t \in Tokens,
           balance[t] + toBeneficiary[t] <= balance'[t] + toBeneficiary'[t],
           now <= now', revoked => revoked'
    PROVE  VestedAmount(t) <= VestedAmount(t)'
<1>1. /\ TotalBalance(t) \in Nat /\ TotalBalance(t)' \in Nat
      /\ TotalBalance(t) <= TotalBalance(t)'
      /\ VestedAmount(t) = VestedOf(TotalBalance(t), now, revoked)
      /\ VestedAmount(t)' = VestedOf(TotalBalance(t)', now', revoked')
  <2>1. TotalBalance(t) <= TotalBalance(t)'
    <3>1. /\ TotalBalance(t) = balance[t] + toBeneficiary[t]
          /\ TotalBalance(t)' = balance'[t] + toBeneficiary'[t]
      BY LinearAmounts, LinearAmountsNext
    <3> QED BY <3>1
  <2> QED BY <2>1, LinearAmounts, LinearAmountsNext
<1>2. now \in Nat /\ now' \in Nat /\ revoked \in BOOLEAN /\ revoked' \in BOOLEAN
  BY DEF LinearType
<1> QED BY <1>1, <1>2, VestedOfMonotone

\* A revocation takes of the token what has not vested, and of no other.
LEMMA RevokeTakesUnvested ==
    ASSUME LinearType, LinearType', NEW caller \in Accounts, NEW token \in Tokens,
           Revoke(caller, token), NEW t \in Tokens
    PROVE  VestedAmount(t) <= VestedAmount(t)'
<1>1. /\ balance' = [balance EXCEPT ![token] = ReleasableAmount(token)]
      /\ revoked' = TRUE /\ ~ revoked /\ now' = now /\ toBeneficiary' = toBeneficiary
  BY DEF Revoke, RevokeAllBut
<1>2. balance \in [Tokens -> Nat] /\ now \in Nat
  BY DEF LinearType
<1>3. CASE t # token
  <2>1. balance'[t] = balance[t] /\ balance[t] \in Nat /\ toBeneficiary[t] \in Nat
    BY <1>1, <1>2, <1>3, LinearAmounts
  <2>2. balance[t] + toBeneficiary[t] <= balance'[t] + toBeneficiary'[t] /\ now <= now'
    BY <1>1, <1>2, <2>1, SMT
  <2> QED BY <1>1, <2>2, VestedKept
<1>4. CASE t = token
  <2>1. balance'[t] = ReleasableAmount(t)
    BY <1>1, <1>2, <1>4
  <2>2. TotalBalance(t)' = VestedAmount(t)
    <3>1. TotalBalance(t)' = ReleasableAmount(t) + toBeneficiary[t]
      BY <1>1, <2>1, LinearAmountsNext
    <3>2. /\ toBeneficiary[t] + ReleasableAmount(t) = VestedAmount(t)
          /\ toBeneficiary[t] \in Nat /\ VestedAmount(t) \in Nat
          /\ ReleasableAmount(t) = VestedAmount(t) - toBeneficiary[t]
      BY EntitlementIsVested, LinearAmounts DEF ReleasableAmount
    <3> DEFINE v == VestedAmount(t)
               rel == ReleasableAmount(t)
    <3> HIDE DEF v, rel
    <3>3. v \in Nat /\ rel = v - toBeneficiary[t]
      BY <3>2 DEF v, rel
    <3>4. rel + toBeneficiary[t] = v
      BY <3>2, <3>3, SMT
    <3> QED BY <3>1, <3>4 DEF v, rel
  <2>3. VestedAmount(t)' = VestedOf(VestedAmount(t), now, TRUE)
    BY <1>1, <2>2, LinearAmountsNext
  <2>4. /\ VestedAmount(t) \in Nat
        /\ VestedAmount(t) = VestedOf(TotalBalance(t), now, revoked)
    BY LinearAmounts
  <2>5. CASE now < Start
    <3>1. VestedAmount(t) = 0 /\ VestedAmount(t)' = 0
      BY <2>3, <2>4, <2>5 DEF VestedOf
    <3> QED BY <3>1
  <2>6. CASE ~ (now < Start)
    <3>1. VestedAmount(t)' = VestedAmount(t)
      BY <2>3, <2>6 DEF VestedOf
    <3> DEFINE v == VestedAmount(t)
    <3>2. v \in Nat
      BY <2>4
    <3>3. v <= v
      <4> HIDE DEF v
      <4> QED BY <3>2, SMT
    <3> QED BY <3>1, <3>3
  <2> QED BY <2>5, <2>6
<1> QED BY <1>3, <1>4

\* What the beneficiary has or can release never shrinks: with no payment, no
\* release, no rounding at any moment and no revocation.
THEOREM EntitlementKept == Spec => EntitlementNeverShrinks
<1>1. ASSUME LinearIInv, LinearIInv', [Next]_vars
      PROVE  EntitlementStep
  <2> SUFFICES ASSUME lockup = "linear", NEW t \in Tokens
               PROVE  toBeneficiary[t] + ReleasableAmount(t)
                         <= (toBeneficiary[t] + ReleasableAmount(t))'
    BY DEF EntitlementStep
  <2>1. lockup' = "linear"
    BY <1>1, LockupConstant
  <2>2. LinearType /\ LinearType'
    BY <1>1, <2>1 DEF LinearIInv, LinearInv
  <2>3. VestedAmount(t) <= VestedAmount(t)'
    <3>1. /\ balance[t] \in Nat /\ toBeneficiary[t] \in Nat
          /\ balance'[t] \in Nat /\ toBeneficiary'[t] \in Nat
          /\ now \in Nat
          /\ balance \in [Tokens -> Nat] /\ toBeneficiary \in [Tokens -> Nat]
          /\ released = toBeneficiary
      BY <2>2, LinearAmounts, LinearAmountsNext DEF LinearType
    <3>2. CASE Tick /\ UNCHANGED <<released, atRevocation>>
      <4>1. /\ balance' = balance /\ toBeneficiary' = toBeneficiary
            /\ now' = now + 1 /\ revoked' = revoked
        BY <3>2 DEF Tick
      <4>2. balance[t] + toBeneficiary[t] <= balance'[t] + toBeneficiary'[t] /\ now <= now'
        BY <3>1, <4>1, SMT
      <4> QED BY <2>2, <4>1, <4>2, VestedKept
    <3>3. ASSUME NEW token \in Tokens, NEW amount \in Deposits, PayInto(token, amount)
          PROVE  VestedAmount(t) <= VestedAmount(t)'
      <4>1. /\ balance' = [balance EXCEPT ![token] = balance[token] + amount]
            /\ toBeneficiary' = toBeneficiary /\ now' = now /\ revoked' = revoked
        BY <3>3 DEF PayInto
      <4>2. amount \in Nat
        BY VestingAssumption
      <4>3. balance'[t] = balance[t] + amount \/ balance'[t] = balance[t]
        BY <3>1, <4>1
      <4>4. balance[t] + toBeneficiary[t] <= balance'[t] + toBeneficiary'[t] /\ now <= now'
        BY <3>1, <4>1, <4>2, <4>3, SMT
      <4> QED BY <2>2, <4>1, <4>4, VestedKept
    <3>4. ASSUME NEW caller \in Accounts, NEW token \in Tokens, Release(caller, token)
          PROVE  VestedAmount(t) <= VestedAmount(t)'
      <4> DEFINE rel == ReleasableAmount(token)
      <4>1. /\ balance' = [balance EXCEPT ![token] = balance[token] - rel]
            /\ toBeneficiary' = [toBeneficiary EXCEPT ![token] = toBeneficiary[token] + rel]
            /\ now' = now /\ revoked' = revoked
        BY <3>4 DEF Release, PayBeneficiary
      <4>2. rel = VestedAmount(token) - toBeneficiary[token]
        BY <3>1 DEF ReleasableAmount
      <4>3. rel \in Int
        <5>1. VestedAmount(token) \in Nat /\ toBeneficiary[token] \in Nat
          BY <2>2, LinearAmounts
        <5> HIDE DEF rel
        <5> QED BY <4>2, <5>1, SMT
      <4> HIDE DEF rel
      <4>4. \/ balance'[t] = balance[t] - rel /\ toBeneficiary'[t] = toBeneficiary[t] + rel
            \/ balance'[t] = balance[t] /\ toBeneficiary'[t] = toBeneficiary[t]
        BY <3>1, <4>1
      <4>5. balance[t] + toBeneficiary[t] <= balance'[t] + toBeneficiary'[t] /\ now <= now'
        BY <3>1, <4>1, <4>3, <4>4, SMT
      <4> QED BY <2>2, <4>1, <4>5, VestedKept
    <3>5. ASSUME NEW caller \in Accounts, NEW token \in Tokens, Revoke(caller, token)
          PROVE  VestedAmount(t) <= VestedAmount(t)'
      BY <2>2, <3>5, RevokeTakesUnvested
    <3>6. CASE UNCHANGED scheduleVars
      <4>1. /\ balance' = balance /\ toBeneficiary' = toBeneficiary /\ now' = now
            /\ revoked' = revoked
        BY <3>6 DEF scheduleVars
      <4>2. balance[t] + toBeneficiary[t] <= balance'[t] + toBeneficiary'[t] /\ now <= now'
        BY <3>1, <4>1, SMT
      <4> QED BY <2>2, <4>1, <4>2, VestedKept
    <3> QED BY <1>1, <3>2, <3>3, <3>4, <3>5, <3>6, LinearStepIs
  <2> QED BY <2>2, <2>3, EntitlementIsVested, LinearAmountsNext
<1>2. LinearIInv /\ LinearIInv' /\ [Next]_vars => [EntitlementStep]_<<vestingVars, linearVars>>
  BY <1>1
<1> QED BY <1>2, LinearInvariant, PTL DEF Spec, EntitlementNeverShrinks
-----------------------------------------------------------------------------
(* The staking lockup *)

StakingType ==
    /\ balance \in [Tokens -> Nat] /\ paidIn \in [Tokens -> Nat]
    /\ toBeneficiary \in [Tokens -> Nat]
    /\ stTokenStaked \in Nat /\ stTokenUnstaked \in Nat /\ burning \in Nat
    /\ earned \in Nat /\ slashed \in Nat /\ claimed \in Nat /\ withdrawn \in Nat
    /\ now \in Nat

Held == SumFunctionOnSet(balance, Providers)
Gifts == SumFunctionOnSet(paidIn, Providers)
Received == SumFunctionOnSet(toBeneficiary, Tokens)

StakingInv ==
    /\ StakingType
    /\ Held - Gifts + stTokenUnstaked - stTokenStaked
          = earned - slashed - claimed - withdrawn
    /\ claimed <= earned + Gifts
    /\ now < End => Received <= claimed

StakingIInv == lockup = "staking" => StakingInv

\* What is left of an amount that covers n.
LEMMA AmountsLeft ==
    ASSUME NEW a \in Nat, NEW n \in Nat, a >= n
    PROVE  a - n \in Nat
BY SMT

LEMMA FiniteTokens ==
    /\ IsFiniteSet(Tokens) /\ IsFiniteSet(Providers)
    /\ Providers \subseteq Tokens /\ FLIP \in Tokens \ Providers
BY StakingAssumption, FS_Subset

\* The total over some tokens when the amount of one token is replaced.
LEMMA TotalChange ==
    ASSUME NEW S \in {Tokens, Providers}, NEW f \in [Tokens -> Nat], NEW g \in [Tokens -> Nat],
           NEW x \in Tokens, \A y \in Tokens : y # x => g[y] = f[y]
    PROVE  /\ SumFunctionOnSet(f, S) \in Nat /\ SumFunctionOnSet(g, S) \in Nat
           /\ x \in S => SumFunctionOnSet(g, S) = SumFunctionOnSet(f, S) - f[x] + g[x]
           /\ x \notin S => SumFunctionOnSet(g, S) = SumFunctionOnSet(f, S)
<1>1. IsFiniteSet(S) /\ S \subseteq Tokens
  BY FiniteTokens
<1>2. \A y \in S : f[y] \in Nat /\ g[y] \in Nat
  BY <1>1
<1>3. SumFunctionOnSet(f, S) \in Nat /\ SumFunctionOnSet(g, S) \in Nat
  BY <1>1, <1>2, SumType
<1>4. \A y \in S : f[y] \in Int /\ g[y] \in Int
  BY <1>2, SMT
<1>5. ASSUME x \in S
      PROVE  SumFunctionOnSet(g, S) = SumFunctionOnSet(f, S) - f[x] + g[x]
  <2>1. \A y \in S : y # x => g[y] = f[y]
    BY <1>1
  <2> QED BY <1>1, <1>4, <1>5, <2>1, SumChange
<1>6. ASSUME x \notin S
      PROVE  SumFunctionOnSet(g, S) = SumFunctionOnSet(f, S)
  <2>1. \A y \in S : f[y] \in Int /\ g[y] = f[y]
    BY <1>1, <1>4, <1>6
  <2> QED BY <1>1, <2>1, SumSame
<1> QED BY <1>3, <1>5, <1>6

\* Some of the tokens are no more than all of one.
LEMMA HeldAtLeast ==
    ASSUME balance \in [Tokens -> Nat], NEW p \in Providers
    PROVE  Held \in Nat /\ balance[p] \in Nat /\ balance[p] <= Held
<1>1. \A y \in Providers : balance[y] \in Nat /\ balance[y] \in Int
  BY FiniteTokens, SMT
<1>2. IsFiniteSet(Providers) /\ IsFiniteSet(Providers \ {p})
  BY FiniteTokens, FS_RemoveElement
<1>3. Held = balance[p] + SumFunctionOnSet(balance, Providers \ {p})
  BY <1>1, <1>2, SumByElement DEF Held
<1>4. SumFunctionOnSet(balance, Providers \ {p}) \in Nat
  BY <1>1, <1>2, SumType
<1> HIDE DEF Held
<1> QED BY <1>1, <1>3, <1>4, SMT

\* A new contract keeps the invariant.
LEMMA StakingInitially ==
    ASSUME Init
    PROVE  StakingIInv
<1> SUFFICES StakingInv
  BY DEF StakingIInv
<1> DEFINE none == [t \in Tokens |-> 0]
<1>1. balance = none /\ paidIn = none /\ toBeneficiary = none /\ now \in Nat
  <2>1. now = Start - 1
    BY DEF Init, VestingInit
  <2>2. now \in Nat
    BY <2>1, VestingAssumption, SMT
  <2> QED BY <2>2 DEF Init, VestingInit
<1>2. none \in [Tokens -> Nat]
  BY SMT
<1>3. /\ stTokenStaked = 0 /\ stTokenUnstaked = 0 /\ burning = 0
      /\ earned = 0 /\ slashed = 0 /\ claimed = 0 /\ withdrawn = 0
  BY DEF Init, StakingInit
<1>4. SumFunctionOnSet(none, Tokens) = 0
  <2> DEFINE Good == {S \in SUBSET Tokens : SumFunctionOnSet(none, S) = 0}
  <2>1. {} \in Good
    BY SumOfNone
  <2>2. ASSUME NEW S \in SUBSET Tokens, NEW x \in S, S \ {x} \in Good PROVE S \in Good
    <3>1. IsFiniteSet(S) /\ \A y \in S : none[y] \in Int
      BY FiniteTokens, FS_Subset
    <3>2. SumFunctionOnSet(none, S) = none[x] + SumFunctionOnSet(none, S \ {x})
      <4> HIDE DEF none
      <4> QED BY <3>1, SumByElement
    <3> QED BY <2>2, <3>2
  <2>3. SUBSET Tokens \subseteq Good
    <3> HIDE DEF Good
    <3> QED BY <2>1, <2>2, FiniteTokens, SubsetInduction
  <2> QED BY <2>3
<1>5. Held = Gifts /\ Held \in Nat /\ Gifts \in Nat /\ Received = 0
  <2>1. SumFunctionOnSet(none, Providers) \in Nat
    <3> HIDE DEF none
    <3>1. \A y \in Providers : none[y] \in Nat
      BY <1>2, FiniteTokens
    <3> QED BY <3>1, FiniteTokens, SumType
  <2> QED BY <1>1, <1>4, <2>1 DEF Held, Gifts, Received
<1>6. StakingType
  BY <1>1, <1>2, <1>3 DEF StakingType
<1> HIDE DEF none
<1>7. /\ Held - Gifts + stTokenUnstaked - stTokenStaked
            = earned - slashed - claimed - withdrawn
      /\ claimed <= earned + Gifts
      /\ now < End => Received <= claimed
  BY <1>3, <1>5, SMT
<1> QED BY <1>6, <1>7 DEF StakingInv

-----------------------------------------------------------------------------
(* The steps of the staking lockup *)

\* What the invariant says of the totals.
LEMMA StakingTotals ==
    ASSUME StakingInv
    PROVE  /\ Held \in Nat /\ Gifts \in Nat /\ Received \in Nat
           /\ stTokenStaked \in Nat /\ stTokenUnstaked \in Nat /\ burning \in Nat
           /\ earned \in Nat /\ slashed \in Nat /\ claimed \in Nat /\ withdrawn \in Nat
           /\ now \in Nat
<1>1. /\ balance \in [Tokens -> Nat] /\ paidIn \in [Tokens -> Nat]
      /\ toBeneficiary \in [Tokens -> Nat]
  BY DEF StakingInv, StakingType
<1>2. Held \in Nat /\ Gifts \in Nat
  BY <1>1, FiniteTokens, SumType DEF Held, Gifts
<1>3. Received \in Nat
  BY <1>1, FiniteTokens, SumType DEF Received
<1> QED BY <1>2, <1>3 DEF StakingInv, StakingType

\* Where the amount of a token is replaced, what follows for the stFLIP held.
LEMMA HeldChange ==
    ASSUME StakingInv, NEW t \in Tokens, NEW n \in Nat, balance' = [balance EXCEPT ![t] = n]
    PROVE  /\ balance' \in [Tokens -> Nat] /\ balance[t] \in Nat /\ balance'[t] = n
           /\ Held' \in Nat
           /\ t \in Providers => Held' = Held - balance[t] + n
           /\ t \notin Providers => Held' = Held
<1>1. balance \in [Tokens -> Nat]
  BY DEF StakingInv, StakingType
<1>2. /\ balance' \in [Tokens -> Nat] /\ balance[t] \in Nat /\ balance'[t] = n
      /\ \A y \in Tokens : y # t => balance'[y] = balance[y]
  BY <1>1
<1> QED BY <1>1, <1>2, TotalChange DEF Held

LEMMA PayIntoKept ==
    ASSUME StakingInv, NEW t \in Tokens, NEW n \in Deposits, PayInto(t, n),
           UNCHANGED stakingVars
    PROVE  StakingInv'
<1>1. n \in Nat /\ balance[t] \in Nat /\ paidIn[t] \in Nat
  BY VestingAssumption DEF StakingInv, StakingType
<1>2. PICK b \in Nat, p \in Nat : b = balance[t] /\ p = paidIn[t]
  BY <1>1
<1>3. b + n \in Nat /\ p + n \in Nat
  BY <1>1, SMT
<1>4. balance' = [balance EXCEPT ![t] = b + n] /\ paidIn' = [paidIn EXCEPT ![t] = p + n]
  BY <1>2 DEF PayInto
<1>5. /\ paidIn \in [Tokens -> Nat] /\ paidIn' \in [Tokens -> Nat] /\ paidIn'[t] = p + n
      /\ \A y \in Tokens : y # t => paidIn'[y] = paidIn[y]
  BY <1>3, <1>4 DEF StakingInv, StakingType
<1>6. /\ Gifts' \in Nat
      /\ t \in Providers => Gifts' = Gifts - p + (p + n)
      /\ t \notin Providers => Gifts' = Gifts
  BY <1>2, <1>5, TotalChange DEF Gifts
<1>7. /\ balance' \in [Tokens -> Nat] /\ Held' \in Nat
      /\ t \in Providers => Held' = Held - b + (b + n)
      /\ t \notin Providers => Held' = Held
  BY <1>2, <1>3, <1>4, HeldChange
<1>8. /\ toBeneficiary' = toBeneficiary /\ now' = now
      /\ stTokenStaked' = stTokenStaked /\ stTokenUnstaked' = stTokenUnstaked
      /\ burning' = burning /\ earned' = earned /\ slashed' = slashed
      /\ claimed' = claimed /\ withdrawn' = withdrawn
  BY DEF PayInto, stakingVars, counterVars
<1>9. Received' = Received
  BY <1>8 DEF Received
<1>10. /\ Held' - Gifts' = Held - Gifts
       /\ Gifts <= Gifts'
  <2>1. CASE t \in Providers
    BY <1>1, <1>6, <1>7, <2>1, StakingTotals, SMT
  <2>2. CASE t \notin Providers
    BY <1>6, <1>7, <2>2, StakingTotals, SMT
  <2> QED BY <2>1, <2>2
<1>11. StakingType'
  BY <1>5, <1>7, <1>8 DEF StakingInv, StakingType
<1>12. /\ Held' - Gifts' + stTokenUnstaked - stTokenStaked
             = earned - slashed - claimed - withdrawn
       /\ claimed <= earned + Gifts'
  BY <1>6, <1>7, <1>10, StakingTotals, SMT DEF StakingInv
<1>13. now' < End => Received' <= claimed'
  BY <1>8, <1>9 DEF StakingInv
<1>14. /\ Held' - Gifts' + stTokenUnstaked' - stTokenStaked'
             = earned' - slashed' - claimed' - withdrawn'
       /\ claimed' <= earned' + Gifts'
  BY <1>8, <1>12
<1> QED BY <1>11, <1>13, <1>14 DEF StakingInv

LEMMA FundKept ==
    ASSUME StakingInv, NEW caller, NEW n \in Amounts, FundStateChainAccount(caller, n)
    PROVE  StakingInv'
<1>1. FLIP \in Tokens /\ FLIP \notin Providers /\ n \in Nat
  BY FiniteTokens, StakingAssumption
<1>2. PICK b \in Nat : b = balance[FLIP]
  BY <1>1 DEF StakingInv, StakingType
<1>3. b - n \in Nat
  BY <1>1, <1>2, AmountsLeft DEF FundStateChainAccount
<1>4. balance' = [balance EXCEPT ![FLIP] = b - n]
  BY <1>2 DEF FundStateChainAccount
<1>5. balance' \in [Tokens -> Nat] /\ Held' = Held
  BY <1>1, <1>3, <1>4, HeldChange
<1>6. UNCHANGED <<now, paidIn, toBeneficiary, stTokenStaked, stTokenUnstaked, burning,
                  earned, slashed, claimed, withdrawn>>
  BY DEF FundStateChainAccount, stakingVars, counterVars
<1> QED BY <1>5, <1>6 DEF StakingInv, StakingType, Gifts, Received

LEMMA StakeKept ==
    ASSUME StakingInv, NEW caller, NEW n \in Amounts, StakeToStProvider(caller, n)
    PROVE  StakingInv'
<1>1. /\ FLIP \in Tokens /\ FLIP \notin Providers /\ stMinter \in Providers
      /\ stMinter \in Tokens /\ n \in Nat
  BY FiniteTokens, StakingAssumption DEF StakeToStProvider
<1>2. PICK b \in Nat, q \in Nat : b = balance[FLIP] /\ q = balance[stMinter]
  BY <1>1 DEF StakingInv, StakingType
<1>3. b - n \in Nat /\ q + n \in Nat
  BY <1>1, <1>2, AmountsLeft, SMT DEF StakeToStProvider
<1>4. /\ balance' = [balance EXCEPT ![FLIP] = b - n, ![stMinter] = q + n]
      /\ stTokenStaked' = stTokenStaked + n
  BY <1>1, <1>2 DEF StakeToStProvider, CountStaked
<1>5. balance \in [Tokens -> Nat]
  BY DEF StakingInv, StakingType
<1>6. /\ balance' \in [Tokens -> Nat] /\ balance'[stMinter] = q + n
      /\ \A p \in Providers : p # stMinter => balance'[p] = balance[p]
  BY <1>1, <1>3, <1>4, <1>5, FiniteTokens
<1>7. Held' = Held - q + (q + n)
  <2>1. \A p \in Providers : balance[p] \in Int /\ balance'[p] \in Int
    BY <1>5, <1>6, FiniteTokens, SMT
  <2>2. Held' = Held - balance[stMinter] + balance'[stMinter]
    BY <1>1, <1>6, <2>1, FiniteTokens, SumChange DEF Held
  <2> QED BY <1>2, <1>6, <2>2
<1>8. UNCHANGED <<now, paidIn, toBeneficiary, stTokenUnstaked, burning,
                  earned, slashed, claimed, withdrawn>>
  BY DEF StakeToStProvider
<1>9. stTokenStaked' \in Nat
  BY <1>1, <1>4, StakingTotals, SMT
<1>10. StakingType'
  BY <1>6, <1>8, <1>9 DEF StakingInv, StakingType
<1>11. Held' - Gifts + stTokenUnstaked - stTokenStaked'
             = earned - slashed - claimed - withdrawn
  BY <1>1, <1>4, <1>7, StakingTotals, SMT DEF StakingInv
<1> QED BY <1>8, <1>10, <1>11 DEF StakingInv, Gifts, Received

LEMMA UnstakeKept ==
    ASSUME StakingInv, NEW caller, NEW n \in Amounts, UnstakeFromStProvider(caller, n)
    PROVE  StakingInv'
<1>1. stFLIP \in Providers /\ stFLIP \in Tokens /\ n \in Nat
  BY FiniteTokens, StakingAssumption DEF UnstakeFromStProvider
<1>2. PICK q \in Nat : q = balance[stFLIP]
  BY <1>1 DEF StakingInv, StakingType
<1>3. q - n \in Nat
  BY <1>1, <1>2, AmountsLeft DEF UnstakeFromStProvider
<1>4. /\ balance' = [balance EXCEPT ![stFLIP] = q - n]
      /\ stTokenUnstaked' = stTokenUnstaked + n /\ burning' = burning + n
      /\ stTokenStaked' = stTokenStaked
  BY <1>2 DEF UnstakeFromStProvider, CountUnstaked
<1>5. balance' \in [Tokens -> Nat] /\ Held' = Held - q + (q - n)
  BY <1>1, <1>2, <1>3, <1>4, HeldChange
<1>6. UNCHANGED <<now, paidIn, toBeneficiary, earned, slashed, claimed, withdrawn>>
  BY DEF UnstakeFromStProvider
<1>7. stTokenUnstaked' \in Nat /\ burning' \in Nat
  BY <1>1, <1>4, StakingTotals, SMT
<1>8. StakingType'
  BY <1>4, <1>5, <1>6, <1>7 DEF StakingInv, StakingType
<1>9. Held' - Gifts + stTokenUnstaked' - stTokenStaked
            = earned - slashed - claimed - withdrawn
  BY <1>1, <1>4, <1>5, StakingTotals, SMT DEF StakingInv
<1> QED BY <1>4, <1>6, <1>8, <1>9 DEF StakingInv, Gifts, Received

\* What is paid to the beneficiary is received.
LEMMA ReceivedChange ==
    ASSUME StakingInv, NEW t \in Tokens, NEW n \in Nat, PayBeneficiary(t, n)
    PROVE  /\ toBeneficiary' \in [Tokens -> Nat] /\ Received' \in Nat
           /\ Received' = Received + n
           /\ balance[t] - n \in Nat /\ balance' = [balance EXCEPT ![t] = balance[t] - n]
<1>1. toBeneficiary \in [Tokens -> Nat] /\ balance[t] \in Nat /\ toBeneficiary[t] \in Nat
  BY DEF StakingInv, StakingType
<1>2. PICK r \in Nat, b \in Nat : r = toBeneficiary[t] /\ b = balance[t]
  BY <1>1
<1>3. r + n \in Nat
  BY SMT
<1>4. toBeneficiary' = [toBeneficiary EXCEPT ![t] = r + n]
      /\ balance' = [balance EXCEPT ![t] = b - n] /\ b >= n
  BY <1>2 DEF PayBeneficiary
<1>5. /\ toBeneficiary' \in [Tokens -> Nat] /\ toBeneficiary'[t] = r + n
      /\ \A y \in Tokens : y # t => toBeneficiary'[y] = toBeneficiary[y]
  BY <1>1, <1>3, <1>4
<1>6. Received' \in Nat /\ Received \in Nat /\ Received' = Received - r + (r + n)
  BY <1>1, <1>2, <1>5, TotalChange DEF Received
<1>7. Received' = Received + n
  BY <1>6, SMT
<1>8. b - n \in Nat
  BY <1>4, AmountsLeft
<1> QED BY <1>2, <1>4, <1>5, <1>6, <1>7, <1>8

\* A claim takes no more than the surplus of the counters.
LEMMA ClaimKept ==
    ASSUME StakingInv, NEW caller, NEW n \in Amounts, ClaimStProviderRewards(caller, n)
    PROVE  StakingInv'
<1>1. stFLIP \in Providers /\ stFLIP \in Tokens /\ n \in Nat
  BY FiniteTokens, StakingAssumption DEF ClaimStProviderRewards
<1>2. PICK q \in Nat : q = balance[stFLIP] /\ q <= Held
  BY <1>1, HeldAtLeast DEF StakingInv, StakingType
<1>3. PICK total \in Nat : total = TotalRewards /\ total = q + stTokenUnstaked - stTokenStaked
  <2>1. TotalRewards = q + stTokenUnstaked - stTokenStaked /\ TotalRewards >= 0
    BY <1>2 DEF TotalRewards, ClaimStProviderRewards
  <2>2. q + stTokenUnstaked - stTokenStaked \in Int
    BY StakingTotals, SMT
  <2>3. TotalRewards \in Nat
    <3> HIDE DEF TotalRewards
    <3> QED BY <2>1, <2>2, SMT
  <2> QED BY <2>1, <2>3
<1>4. PICK c \in Nat : /\ c <= total /\ PayBeneficiary(stFLIP, c)
                       /\ claimed' = claimed + c
  <2> DEFINE c == IF n > total THEN total ELSE n
  <2>1. c \in Nat /\ c <= total
    BY <1>1, SMT
  <2>2. PayBeneficiary(stFLIP, c) /\ claimed' = claimed + c
    BY <1>3 DEF ClaimStProviderRewards
  <2> QED BY <2>1, <2>2
<1>5. /\ toBeneficiary' \in [Tokens -> Nat]
      /\ Received' = Received + c
      /\ q - c \in Nat /\ balance' = [balance EXCEPT ![stFLIP] = q - c]
  BY <1>1, <1>2, <1>4, ReceivedChange
<1>6. balance' \in [Tokens -> Nat] /\ Held' = Held - q + (q - c)
  BY <1>1, <1>2, <1>5, HeldChange
<1>7. UNCHANGED <<now, paidIn, stTokenStaked, stTokenUnstaked, burning, earned, slashed, withdrawn>>
  BY DEF ClaimStProviderRewards, counterVars
<1>8. StakingType'
  <2>1. claimed' \in Nat
    BY <1>4, StakingTotals, SMT
  <2> QED BY <1>5, <1>6, <1>7, <2>1 DEF StakingInv, StakingType
<1>9. Held' - Gifts + stTokenUnstaked - stTokenStaked
            = earned - slashed - claimed' - withdrawn
  BY <1>4, <1>6, StakingTotals, SMT DEF StakingInv
<1>10. claimed' <= earned + Gifts
  BY <1>2, <1>3, <1>4, StakingTotals, SMT DEF StakingInv
<1>11. now < End => Received' <= claimed'
  BY <1>4, <1>5, StakingTotals, SMT DEF StakingInv
<1>12. Gifts' = Gifts
  BY <1>7 DEF Gifts
<1> QED BY <1>7, <1>8, <1>9, <1>10, <1>11, <1>12 DEF StakingInv

\* What is released or revoked is withdrawn.
LEMMA WithdrawnChange ==
    ASSUME StakingInv, NEW t \in Tokens, NEW n \in Nat, n <= balance[t],
           balance' = [balance EXCEPT ![t] = n], Withdrawn(t)
    PROVE  /\ balance' \in [Tokens -> Nat] /\ withdrawn' \in Nat
           /\ Held' - Gifts + stTokenUnstaked - stTokenStaked
                 = earned - slashed - claimed - withdrawn'
<1>1. PICK b \in Nat : b = balance[t]
  BY DEF StakingInv, StakingType
<1>2. /\ balance' \in [Tokens -> Nat] /\ balance'[t] = n /\ Held' \in Nat
      /\ t \in Providers => Held' = Held - b + n
      /\ t \notin Providers => Held' = Held
  BY <1>1, HeldChange
<1>3. CASE t \in Providers
  <2>1. withdrawn' = withdrawn + (b - n)
    BY <1>1, <1>2, <1>3 DEF Withdrawn
  <2>2. withdrawn' \in Nat
    BY <1>1, <2>1, StakingTotals, SMT
  <2>3. Held' - Gifts + stTokenUnstaked - stTokenStaked
             = earned - slashed - claimed - withdrawn'
    BY <1>2, <1>3, <2>1, StakingTotals, SMT DEF StakingInv
  <2> QED BY <1>2, <2>2, <2>3
<1>4. CASE t \notin Providers
  <2>1. withdrawn' = withdrawn + 0
    BY <1>4 DEF Withdrawn
  <2>2. withdrawn' = withdrawn
    BY <2>1, StakingTotals, SMT
  <2> QED BY <1>2, <1>4, <2>2, StakingTotals DEF StakingInv
<1> QED BY <1>3, <1>4

LEMMA ReleaseKept ==
    ASSUME StakingInv, NEW caller, NEW t \in Tokens, ReleaseAtEnd(caller, t)
    PROVE  StakingInv'
<1>1. PICK b \in Nat : b = balance[t]
  BY DEF StakingInv, StakingType
<1>2. ~ (now < End)
  BY SMT DEF ReleaseAtEnd, StakingReleasable
<1>3. PayBeneficiary(t, b) /\ Withdrawn(t)
  BY <1>1, <1>2 DEF ReleaseAtEnd, StakingReleasable
<1>4. toBeneficiary' \in [Tokens -> Nat] /\ b - b \in Nat
      /\ balance' = [balance EXCEPT ![t] = b - b]
  BY <1>1, <1>3, ReceivedChange
<1>5. b - b <= b
  BY SMT
<1>6. /\ balance' \in [Tokens -> Nat] /\ withdrawn' \in Nat
      /\ Held' - Gifts + stTokenUnstaked - stTokenStaked
            = earned - slashed - claimed - withdrawn'
  BY <1>1, <1>3, <1>4, <1>5, WithdrawnChange
<1>7. UNCHANGED <<now, paidIn, stTokenStaked, stTokenUnstaked, burning, earned, slashed, claimed>>
  BY DEF ReleaseAtEnd, counterVars
<1>8. StakingType'
  BY <1>4, <1>6, <1>7 DEF StakingInv, StakingType
<1>9. Gifts' = Gifts
  BY <1>7 DEF Gifts
<1> QED BY <1>2, <1>6, <1>7, <1>8, <1>9 DEF StakingInv

\* A revocation, and what the revoker retrieves after it.
LEMMA TakeKept ==
    ASSUME StakingInv, NEW caller, NEW t \in Tokens,
           RevokeStaking(caller, t) \/ RetrieveRevokedFunds(caller, t)
    PROVE  StakingInv'
<1>1. PICK b \in Nat : b = balance[t]
  BY DEF StakingInv, StakingType
<1>2. PICK n \in Nat : n <= b /\ balance' = [balance EXCEPT ![t] = n]
  <2>1. CASE RevokeStaking(caller, t)
    <3>1. StakingReleasable(t) \in Nat
      BY <1>1 DEF StakingReleasable
    <3> QED BY <1>1, <2>1, <3>1 DEF RevokeStaking, RevokeAllBut
  <2>2. CASE RetrieveRevokedFunds(caller, t)
    <3>1. 0 \in Nat /\ 0 <= b
      BY SMT
    <3> QED BY <2>2, <3>1 DEF RetrieveRevokedFunds
  <2> QED BY <2>1, <2>2
<1>3. Withdrawn(t)
  BY DEF RevokeStaking, RetrieveRevokedFunds
<1>4. /\ balance' \in [Tokens -> Nat] /\ withdrawn' \in Nat
      /\ Held' - Gifts + stTokenUnstaked - stTokenStaked
            = earned - slashed - claimed - withdrawn'
  BY <1>1, <1>2, <1>3, WithdrawnChange
<1>5. UNCHANGED <<now, paidIn, toBeneficiary, stTokenStaked, stTokenUnstaked, burning,
                  earned, slashed, claimed>>
  BY DEF RevokeStaking, RevokeAllBut, RetrieveRevokedFunds, counterVars
<1>6. StakingType'
  BY <1>4, <1>5 DEF StakingInv, StakingType
<1> QED BY <1>4, <1>5, <1>6 DEF StakingInv, Gifts, Received

LEMMA RedeemKept ==
    ASSUME StakingInv, Redeem
    PROVE  StakingInv'
<1>1. PICK b \in Nat, n \in Nat : b = balance[FLIP] /\ n = burning
  BY FiniteTokens DEF StakingInv, StakingType
<1>2. b + n \in Nat
  BY SMT
<1>3. balance' = [balance EXCEPT ![FLIP] = b + n] /\ burning' = 0
  BY <1>1 DEF Redeem
<1>4. balance' \in [Tokens -> Nat] /\ Held' = Held
  BY <1>2, <1>3, FiniteTokens, HeldChange
<1>5. UNCHANGED <<now, paidIn, toBeneficiary, stTokenStaked, stTokenUnstaked,
                  earned, slashed, claimed, withdrawn>>
  BY DEF Redeem, counterVars
<1>6. 0 \in Nat
  BY SMT
<1> QED BY <1>3, <1>4, <1>5, <1>6 DEF StakingInv, StakingType, Gifts, Received

LEMMA RewardKept ==
    ASSUME StakingInv, NEW p \in Providers, Reward(p)
    PROVE  StakingInv'
<1>1. PICK b \in Nat : b = balance[p]
  BY FiniteTokens DEF StakingInv, StakingType
<1>2. b + 1 \in Nat
  BY SMT
<1>3. balance' = [balance EXCEPT ![p] = b + 1] /\ earned' = earned + 1
  BY <1>1 DEF Reward
<1>4. balance' \in [Tokens -> Nat] /\ Held' = Held - b + (b + 1)
  BY <1>1, <1>2, <1>3, FiniteTokens, HeldChange
<1>5. UNCHANGED <<now, paidIn, toBeneficiary, stTokenStaked, stTokenUnstaked, burning,
                  slashed, claimed, withdrawn>>
  BY DEF Reward, counterVars
<1>6. /\ earned' \in Nat /\ claimed <= earned' + Gifts
      /\ Held' - Gifts + stTokenUnstaked - stTokenStaked
            = earned' - slashed - claimed - withdrawn
  BY <1>1, <1>3, <1>4, StakingTotals, SMT DEF StakingInv
<1>7. StakingType'
  BY <1>4, <1>5, <1>6 DEF StakingInv, StakingType
<1> QED BY <1>5, <1>6, <1>7 DEF StakingInv, Gifts, Received

LEMMA SlashKept ==
    ASSUME StakingInv, NEW p \in Providers, Slash(p)
    PROVE  StakingInv'
<1>1. PICK b \in Nat : b = balance[p]
  BY FiniteTokens DEF StakingInv, StakingType
<1>2. b - 1 \in Nat
  BY <1>1, SMT DEF Slash
<1>3. balance' = [balance EXCEPT ![p] = b - 1] /\ slashed' = slashed + 1
  BY <1>1 DEF Slash
<1>4. balance' \in [Tokens -> Nat] /\ Held' = Held - b + (b - 1)
  BY <1>1, <1>2, <1>3, FiniteTokens, HeldChange
<1>5. UNCHANGED <<now, paidIn, toBeneficiary, stTokenStaked, stTokenUnstaked, burning,
                  earned, claimed, withdrawn>>
  BY DEF Slash, counterVars
<1>6. /\ slashed' \in Nat
      /\ Held' - Gifts + stTokenUnstaked - stTokenStaked
            = earned - slashed' - claimed - withdrawn
  BY <1>1, <1>3, <1>4, StakingTotals, SMT DEF StakingInv
<1>7. StakingType'
  BY <1>4, <1>5, <1>6 DEF StakingInv, StakingType
<1> QED BY <1>5, <1>6, <1>7 DEF StakingInv, Gifts, Received

\* Every step of the staking lockup keeps the invariant.
LEMMA StakingStep ==
    ASSUME StakingIInv, [Next]_vars
    PROVE  StakingIInv'
<1> SUFFICES ASSUME lockup = "staking", StakingInv PROVE StakingInv'
  BY LockupConstant DEF StakingIInv
<1> DEFINE accounts == <<now, balance, paidIn, toBeneficiary, stTokenStaked, stTokenUnstaked,
                         burning, earned, slashed, claimed, withdrawn>>
<1>1. ASSUME UNCHANGED accounts PROVE StakingInv'
  BY <1>1 DEF StakingInv, StakingType, Held, Gifts, Received
<1>2. CASE Tick /\ UNCHANGED stakingVars
  <2>1. now' = now + 1
    BY <1>2 DEF Tick
  <2>2. now' \in Nat /\ (now' < End => now < End)
    <3>1. now \in Nat /\ End \in Nat
      BY VestingAssumption, StakingTotals
    <3> QED BY <2>1, <3>1, SMT
  <2>3. UNCHANGED <<balance, paidIn, toBeneficiary, stTokenStaked, stTokenUnstaked,
                    burning, earned, slashed, claimed, withdrawn>>
    BY <1>2 DEF Tick, stakingVars, counterVars
  <2> QED BY <2>2, <2>3 DEF StakingInv, StakingType, Held, Gifts, Received
<1>3. CASE \E t \in Tokens, n \in Deposits : PayInto(t, n) /\ UNCHANGED stakingVars
  BY <1>3, PayIntoKept
<1>4. CASE CommonNext
  <2>1. ASSUME NEW caller \in Accounts, NEW to \in Accounts,
               TransferBeneficiary(caller, to) \/ TransferRevoker(caller, to)
        PROVE  UNCHANGED accounts
    BY <1>4, <2>1 DEF CommonNext, TransferBeneficiary, TransferRevoker, stakingVars, counterVars
  <2> QED BY <1>1, <1>2, <1>3, <1>4, <2>1 DEF CommonNext, VestingNext
<1>5. CASE LinearNext
  BY <1>5 DEF LinearNext, Release, Revoke
<1>6. CASE StakingNext
  <2>1. ASSUME NEW caller \in Accounts, BeneficiaryNext(caller) PROVE StakingInv'
    BY <2>1, FundKept, StakeKept, UnstakeKept, ClaimKept, ReleaseKept DEF BeneficiaryNext
  <2>2. ASSUME NEW caller \in Accounts, RevokerNext(caller) PROVE StakingInv'
    BY <2>2, TakeKept DEF RevokerNext
  <2>3. ASSUME ProviderNext PROVE StakingInv'
    BY <2>3, RedeemKept, RewardKept, SlashKept DEF ProviderNext
  <2> QED BY <1>6, <2>1, <2>2, <2>3 DEF StakingNext
<1>7. CASE ReplaceAddresses
  BY <1>1, <1>7 DEF ReplaceAddresses, vestingVars, stakingVars, counterVars
<1>8. CASE UNCHANGED vars
  BY <1>1, <1>8 DEF vars, vestingVars, stakingVars, counterVars
<1> QED BY <1>4, <1>5, <1>6, <1>7, <1>8 DEF Next

\* In every reachable state of the staking lockup the counters account for the
\* stFLIP of all providers, and the claims are covered by rewards and payments.
THEOREM StakingInvariant == Spec => []StakingIInv
<1>1. Init => StakingIInv
  BY StakingInitially
<1>2. StakingIInv /\ [Next]_vars => StakingIInv'
  BY StakingStep
<1> QED BY <1>1, <1>2, PTL DEF Spec

\* What is staked stays locked up: before the end the beneficiary has nothing
\* but claimed rewards, and no more is claimed than was earned or paid in.
THEOREM StakeLockedUp == Spec => []LockupHolds
<1>1. StakingIInv => LockupHolds
  BY DEF StakingIInv, StakingInv, LockupHolds, Gifts, Received
<1> QED BY <1>1, StakingInvariant, PTL

\* Where all stFLIP is of one provider, what there is of it is what there is of
\* any.
LEMMA OneProviderHeld ==
    ASSUME StakingInv, stFLIP \in Providers,
           \A p \in Providers : p # stFLIP => balance[p] = 0
    PROVE  Held = balance[stFLIP]
<1>1. balance \in [Tokens -> Nat]
  BY DEF StakingInv, StakingType
<1>2. \A y \in Providers : balance[y] \in Int
  BY <1>1, FiniteTokens, SMT
<1>3. IsFiniteSet(Providers \ {stFLIP})
  BY FiniteTokens, FS_RemoveElement
<1>4. SumFunctionOnSet(balance, Providers \ {stFLIP}) = 0
  <2>1. \A y \in Providers \ {stFLIP} : balance[y] = 0
    OBVIOUS
  <2> QED BY <1>3, <2>1, SumOfZeros
<1>5. Held = balance[stFLIP] + SumFunctionOnSet(balance, Providers \ {stFLIP})
  BY <1>2, FiniteTokens, SumByElement DEF Held
<1>6. balance[stFLIP] \in Int
  BY <1>2
<1> HIDE DEF Held
<1> QED BY <1>4, <1>5, <1>6, SMT

\* The rewards are never locked up by the subtraction in claimStProviderRewards
\* while there are no losses and no stFLIP of another provider, and what it
\* computes is what was earned or paid in and neither claimed nor lost.
THEOREM RewardsNotLocked == Spec => []RewardsClaimable
<1>1. StakingIInv => RewardsClaimable
  <2> SUFFICES ASSUME StakingInv, stFLIP \in Providers, withdrawn = 0,
                      \A p \in Providers : p # stFLIP => balance[p] = 0
               PROVE  /\ TotalRewards = earned + Gifts - claimed - slashed
                      /\ slashed = 0 => TotalRewards >= 0
    BY DEF StakingIInv, RewardsClaimable, Gifts
  <2>1. TotalRewards = Held + stTokenUnstaked - stTokenStaked
    BY OneProviderHeld DEF TotalRewards
  <2>2. Held + stTokenUnstaked - stTokenStaked = earned + Gifts - claimed - slashed
    BY StakingTotals, SMT DEF StakingInv
  <2>3. claimed <= earned + Gifts
    BY DEF StakingInv
  <2>4. slashed = 0 => earned + Gifts - claimed - slashed >= 0
    BY <2>3, StakingTotals, SMT
  <2> QED BY <2>1, <2>2, <2>4
<1> QED BY <1>1, StakingInvariant, PTL
=============================================================================
