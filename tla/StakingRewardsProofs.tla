------------------------- MODULE StakingRewardsProofs --------------------------
(***************************************************************************)
(* Proofs about what DapiStaking pays: each claim once, each claim its     *)
(* fair share, all claims of an era within the era's rewards, and every    *)
(* token in the pallet's account accounted for.                            *)
(***************************************************************************)
EXTENDS StakingErasProofs, StakingRefinements

(* What a fund of era e holds, of which a stake gets its share.            *)
Fund(role, e) == IF role = "staker" THEN EraInfoAt(e).rewards.stakers
                                    ELSE EraInfoAt(e).rewards.operators

(* What claim_operator and claim_staker pay out of a fund.                 *)
ShareOf(role, staked, total, all, fund) ==
    LET ofProvider == PartOf(FromRational(total, all), fund)
    IN  IF role = "staker" THEN PartOf(FromRational(staked, total), ofProvider)
                           ELSE ofProvider

PaidItsShare(r) ==
    LET total == ProviderStakeAt(r.provider, r.era).total
        all == EraInfoAt(r.era).staked
    IN  /\ r.staked <= total /\ total <= all
        /\ r.role = "operator" => r.staked = total
        /\ r.amount = ShareOf(r.role, r.staked, total, all, Fund(r.role, r.era))

(* A claim is for an ended era in which the provider was registered, and   *)
(* was paid its share; the staker's history has moved on from that era,    *)
(* the provider's record of it says that the operator was paid.            *)
Settled(r) ==
    /\ r.era < currentEra
    /\ IsRegistered(r.provider) /\ RunsIn(r.provider, r.era)
    /\ r.staked > 0
    /\ PaidItsShare(r)
    /\ r.role = "staker" => Later(stakerInfo[r.who][r.provider], r.era)
    /\ r.role = "operator" =>
           ProviderStakeAt(r.provider, r.era).provider_reward_claimed

(* The stake on p in era e that was paid for.                              *)
PaidStake(r, role, p, e) ==
    IF r.role = role /\ r.provider = p /\ r.era = e THEN r.staked ELSE 0
StakePaid(role, p, e) == Sum([r \in receipts |-> PaidStake(r, role, p, e)])

(* What was paid for and what is still to be claimed is within the total.  *)
SharesAddUp ==
    \A p \in Providers, e \in 0..currentEra : e < currentEra =>
        /\ RunsIn(p, e) =>
               Unclaimed(p, e) + StakePaid("staker", p, e) <= ProviderStakeAt(p, e).total
        /\ StakePaid("operator", p, e) <= ProviderStakeAt(p, e).total

ClaimsInv ==
    /\ ErasInv
    /\ IsFiniteSet(receipts)
    /\ \A r \in receipts : Settled(r)
    /\ SharesAddUp
-------------------------------------------------------------------------------
(* Shares, in numbers *)

(* n in whole factors of q, as from_rational cuts its two numbers.         *)
Cut(n, q) == n \div Factor(q)

LEMMA CutBounds ==
    ASSUME NEW n \in Nat, NEW q \in Nat, q > 0
    PROVE  /\ Factor(q) \in Nat /\ Factor(q) > 0
           /\ Cut(n, q) \in Nat /\ Cut(q, q) \in Nat /\ Cut(q, q) > 0
           /\ Cut(n, q) * Factor(q) <= n
           /\ n + 1 <= Cut(n, q) * Factor(q) + Factor(q)
           /\ n <= q => Cut(n, q) <= Cut(q, q)
<1> DEFINE f == Factor(q)
           c == n \div f
           d == q \div f
<1>1. f \in Nat /\ f > 0
  BY FactorBounds
<1>2. c = Cut(n, q) /\ d = Cut(q, q)
  BY DEF Cut
<1>3. c \in Nat /\ d \in Nat /\ d > 0
  BY ReducedType
<1> HIDE DEF f
<1>4. c * f <= n /\ n + 1 <= c * f + f
  BY <1>1
<1>5. q + 1 <= d * f + f
  BY <1>1
<1> HIDE DEF c, d
<1>6. n <= q => c <= d
  <2> SUFFICES ASSUME n <= q, c >= d + 1 PROVE FALSE
    BY <1>3
  <2>1. c * f >= d * f + f
    BY <1>1, <1>3
  <2> QED
    BY <1>1, <1>3, <1>4, <1>5, <2>1
<1> QED
  BY <1>1, <1>2, <1>3, <1>4, <1>6 DEF f

(* The parts of p in q, of the cut numbers ...                             *)
LEMMA CutRatio ==
    ASSUME NEW p \in Nat, NEW q \in Nat, q > 0, p <= q
    PROVE  /\ FromRational(p, q) \in Nat
           /\ FromRational(p, q) <= Accuracy
           /\ FromRational(p, q) * Cut(q, q) <= Cut(p, q) * Accuracy
           /\ Cut(p, q) * Accuracy <= FromRational(p, q) * Cut(q, q) + Cut(q, q)
<1>1. Accuracy \in Nat /\ Accuracy > 0
  BY AccuracyAssumption
<1> DEFINE P == Cut(p, q)
           Q == Cut(q, q)
           n == P * Accuracy
           d == n \div Q
<1>2. FromRational(p, q) = d
  BY DEF FromRational, Cut
<1>3. P \in Nat /\ Q \in Nat /\ Q > 0 /\ P <= Q
  BY CutBounds
<1> HIDE DEF P, Q
<1>4. n \in Nat /\ n <= Q * Accuracy
  BY <1>1, <1>3
<1> HIDE DEF n
<1>5. d \in Nat /\ d * Q <= n /\ n <= d * Q + Q
  BY <1>3, <1>4
<1> HIDE DEF d
<1>6. d <= Accuracy
  <2> SUFFICES ASSUME d >= Accuracy + 1 PROVE FALSE
    BY <1>1, <1>5
  <2>1. d * Q >= Q * Accuracy + Q
    BY <1>1, <1>3, <1>5
  <2> QED
    BY <1>1, <1>3, <1>4, <1>5, <2>1
<1> QED
  BY <1>2, <1>5, <1>6 DEF n, P, Q

(* ... and of p and q themselves: a part in Accuracy more at most, and two *)
(* parts less.                                                             *)
LEMMA FromRationalBounds ==
    ASSUME NEW p \in Nat, NEW q \in Nat, q > 0, p <= q
    PROVE  /\ FromRational(p, q) \in Nat
           /\ FromRational(p, q) <= Accuracy
           /\ FromRational(p, q) * (q * (Accuracy - 1)) <= p * (Accuracy * Accuracy)
           /\ p * Accuracy <= FromRational(p, q) * q + 2 * q
<1> DEFINE A == Accuracy
           d == FromRational(p, q)
           P == Cut(p, q)
           Q == Cut(q, q)
           f == Factor(q)
<1>1. A \in Nat /\ A > 0
  BY AccuracyAssumption
<1>2. d \in Nat /\ d <= A /\ d * Q <= P * A /\ P * A <= d * Q + Q
  BY CutRatio
<1>3. /\ f \in Nat /\ f > 0 /\ P \in Nat /\ Q \in Nat
      /\ P * f <= p /\ p + 1 <= P * f + f
      /\ Q * f <= q /\ q + 1 <= Q * f + f
  BY CutBounds
<1>4. (f - 1) * A < q
  BY FactorBounds
<1> HIDE DEF A, d, P, Q, f
<1>5. f * A \in Nat /\ f * A < q + A
  BY <1>1, <1>3, <1>4
<1>6. d * (q * (A - 1)) <= p * (A * A)
  <2>1. q * (A - 1) <= (Q * f) * A
    <3>1. (q + 1) * A <= (Q * f + f) * A
      BY <1>1, <1>3
    <3> DEFINE m == Q * f
    <3>2. m \in Nat
      BY <1>3
    <3> HIDE DEF m
    <3>3. (m + f) * A = m * A + f * A /\ m * A \in Nat
      BY <1>1, <1>3, <3>2
    <3>4. (q + 1) * A = q * A + A /\ q * (A - 1) = q * A - q /\ q * A \in Nat
      BY <1>1
    <3> QED
      BY <1>1, <1>5, <3>1, <3>2, <3>3, <3>4 DEF m
  <2>2. d * (q * (A - 1)) <= d * ((Q * f) * A)
    <3> DEFINE x == q * (A - 1)
               y == (Q * f) * A
    <3>1. x \in Nat /\ y \in Nat /\ x <= y
      BY <1>1, <1>3, <2>1
    <3> HIDE DEF x, y
    <3>2. d * x <= d * y
      BY <1>2, <3>1
    <3> QED
      BY <3>2 DEF x, y
  <2>3. (d * Q) * (f * A) <= (P * A) * (f * A)
    <3> DEFINE x == d * Q
               y == P * A
               z == f * A
    <3>1. x \in Nat /\ y \in Nat /\ z \in Nat /\ x <= y
      BY <1>1, <1>2, <1>3
    <3> HIDE DEF x, y, z
    <3>2. x * z <= y * z
      BY <3>1
    <3> QED
      BY <3>2 DEF x, y, z
  <2>4. (P * f) * (A * A) <= p * (A * A)
    <3> DEFINE x == P * f
               z == A * A
    <3>1. x \in Nat /\ z \in Nat /\ x <= p
      BY <1>1, <1>3
    <3> HIDE DEF x, z
    <3>2. x * z <= p * z
      BY <3>1
    <3> QED
      BY <3>2 DEF x, z
  <2>5. d * ((Q * f) * A) = (d * Q) * (f * A) /\ (P * A) * (f * A) = (P * f) * (A * A)
    BY <1>1, <1>2, <1>3
  <2>6. /\ d * (q * (A - 1)) \in Int /\ d * ((Q * f) * A) \in Int
        /\ (P * f) * (A * A) \in Int /\ p * (A * A) \in Int
    BY <1>1, <1>2, <1>3
  <2> QED
    BY <2>2, <2>3, <2>4, <2>5, <2>6
<1>7. p * A <= d * q + 2 * q
  <2>1. (p + 1) * A <= (P * f) * A + f * A
    <3>1. (p + 1) * A <= (P * f + f) * A
      BY <1>1, <1>3
    <3> QED
      BY <1>1, <1>3, <3>1
  <2>2. (P * A) * f <= (d * Q + Q) * f
    <3> DEFINE x == P * A
               y == d * Q + Q
    <3>1. x \in Nat /\ y \in Nat /\ x <= y
      BY <1>1, <1>2, <1>3
    <3> HIDE DEF x, y
    <3>2. x * f <= y * f
      BY <1>3, <3>1
    <3> QED
      BY <3>2 DEF x, y
  <2>3. d * (Q * f) <= d * q
    BY <1>2, <1>3
  <2>4. /\ (P * f) * A = (P * A) * f
        /\ (d * Q + Q) * f = d * (Q * f) + Q * f
        /\ (p + 1) * A = p * A + A
    BY <1>1, <1>2, <1>3
  <2>5. /\ p * A \in Nat /\ (P * A) * f \in Nat /\ d * q \in Nat
        /\ d * (Q * f) \in Nat /\ Q * f \in Nat
    BY <1>1, <1>2, <1>3
  <2> QED
    BY <1>1, <1>3, <1>5, <2>1, <2>2, <2>3, <2>4, <2>5
<1> QED
  BY <1>2, <1>6, <1>7 DEF A, d

(* Rounding to the nearest whole: off by at most a half.                   *)
LEMMA PartOfBounds ==
    ASSUME NEW k \in Nat, NEW x \in Nat
    PROVE  /\ PartOf(k, x) \in Nat
           /\ 2 * (PartOf(k, x) * Accuracy) <= 2 * (k * x) + Accuracy
           /\ 2 * (k * x) <= 2 * (PartOf(k, x) * Accuracy) + Accuracy
<1>1. Accuracy \in Nat /\ Accuracy > 0
  BY AccuracyAssumption
<1> DEFINE n == k * x
           d == n \div Accuracy
           m == n % Accuracy
           h == Accuracy \div 2
           r == PartOf(k, x)
<1>2. n \in Nat
  OBVIOUS
<1>3. r = d + (IF m > h THEN 1 ELSE 0)
  BY DEF PartOf
<1> HIDE DEF n, r
<1>4. /\ d \in Nat /\ m \in 0..(Accuracy - 1)
      /\ n = d * Accuracy + m
  BY <1>1, <1>2
<1>5. h \in Nat /\ 2 * h <= Accuracy /\ Accuracy <= 2 * h + 1
  BY <1>1
<1> HIDE DEF d, m, h
<1>6. CASE m > h
  <2>1. r = d + 1 /\ r * Accuracy = d * Accuracy + Accuracy
    BY <1>1, <1>3, <1>4, <1>6
  <2> QED
    BY <1>1, <1>4, <1>5, <1>6, <2>1 DEF n, r
<1>7. CASE ~(m > h)
  BY <1>1, <1>3, <1>4, <1>5, <1>7 DEF n, r
<1> QED
  BY <1>6, <1>7

(* The share of a provider with tot of the stakes S in the fund F.         *)
LEMMA ProviderShare ==
    ASSUME NEW tot \in Nat, NEW S \in Nat, S > 0, tot <= S, NEW F \in Nat,
           NEW P, P = PartOf(FromRational(tot, S), F)
    PROVE  /\ P \in Nat /\ P <= F
           /\ 2 * (P * (S * (Accuracy - 1)))
                  <= 2 * (F * tot * Accuracy) + S * (Accuracy - 1)
           /\ 2 * (F * tot * Accuracy)
                  <= 2 * (P * Accuracy * S) + 4 * (F * S) + Accuracy * S
<1> DEFINE A == Accuracy
           q == FromRational(tot, S)
           T == S * (A - 1)
<1>1. A \in Nat /\ A > 0
  BY AccuracyAssumption
<1>2. /\ q \in Nat /\ q <= A
      /\ q * T <= tot * (A * A)
      /\ tot * A <= q * S + 2 * S
  BY FromRationalBounds
<1>3. /\ P \in Nat
      /\ 2 * (P * A) <= 2 * (q * F) + A
      /\ 2 * (q * F) <= 2 * (P * A) + A
  BY <1>2, PartOfBounds
<1> HIDE DEF A, q
<1>4. P <= F
  <2> SUFFICES ASSUME P >= F + 1 PROVE FALSE
    BY <1>3
  <2>1. P * A >= F * A + A
    BY <1>1, <1>3
  <2>2. q * F <= A * F
    BY <1>1, <1>2
  <2> QED
    BY <1>1, <1>2, <1>3, <2>1, <2>2
<1>5. T \in Nat
  BY <1>1
<1>6. 2 * (P * T) <= 2 * (F * tot * A) + T
  <2> HIDE DEF T
  <2>1. (2 * (P * A)) * T <= (2 * (q * F) + A) * T
    <3> DEFINE l == 2 * (P * A)
               r == 2 * (q * F) + A
    <3>1. l \in Nat /\ r \in Nat /\ l <= r
      BY <1>1, <1>2, <1>3
    <3> HIDE DEF l, r
    <3>2. l * T <= r * T
      BY <1>5, <3>1
    <3> QED
      BY <3>2 DEF l, r
  <2>2. (q * T) * F <= (tot * (A * A)) * F
    <3> DEFINE l == q * T
               r == tot * (A * A)
    <3>1. l \in Nat /\ r \in Nat /\ l <= r
      BY <1>1, <1>2, <1>5
    <3> HIDE DEF l, r
    <3>2. l * F <= r * F
      BY <3>1
    <3> QED
      BY <3>2 DEF l, r
  <2>3. (2 * (P * T)) * A <= (2 * (F * tot * A) + T) * A
    <3> DEFINE a1 == P * A * T
               a2 == q * F * T
               a3 == A * T
               a4 == F * tot * A * A
    <3>1. a1 \in Nat /\ a2 \in Nat /\ a3 \in Nat /\ a4 \in Nat
      BY <1>1, <1>2, <1>3, <1>5
    <3>2. (2 * (P * A)) * T = 2 * a1 /\ (2 * (q * F) + A) * T = 2 * a2 + a3
      BY <1>1, <1>2, <1>3, <1>5
    <3>3. (q * T) * F = a2 /\ (tot * (A * A)) * F = a4
      BY <1>1, <1>2, <1>5
    <3>4. (2 * (P * T)) * A = 2 * a1 /\ (2 * (F * tot * A) + T) * A = 2 * a4 + a3
      BY <1>1, <1>3, <1>5
    <3> HIDE DEF a1, a2, a3, a4
    <3> QED
      BY <2>1, <2>2, <3>1, <3>2, <3>3, <3>4
  <2> DEFINE l == 2 * (P * T)
             r == 2 * (F * tot * A) + T
  <2>4. l \in Nat /\ r \in Nat /\ l * A <= r * A
    BY <1>1, <1>3, <1>5, <2>3
  <2> HIDE DEF l, r
  <2>5. l <= r
    BY <1>1, <2>4
  <2> QED
    BY <2>5 DEF l, r
<1> HIDE DEF T
<1>7. 2 * (F * tot * A) <= 2 * (P * A * S) + 4 * (F * S) + A * S
  <2>1. F * (tot * A) <= F * (q * S + 2 * S)
    BY <1>1, <1>2
  <2>2. (2 * (q * F)) * S <= (2 * (P * A) + A) * S
    BY <1>1, <1>2, <1>3
  <2> QED
    BY <1>1, <1>2, <1>3, <2>1, <2>2
<1> QED
  BY <1>3, <1>4, <1>6, <1>7 DEF A, T

(* How close a payment is to the exact share.                              *)
FairShare(staked, S, F, amount) ==
    LET exact == staked * F
    IN  /\ SaturatingSub(amount, 1) * S * (Accuracy - 1) * (Accuracy - 1)
               <= exact * Accuracy * Accuracy
        /\ exact * Accuracy <= (amount + 1) * S * Accuracy + 4 * F * S

LEMMA OperatorFairShare ==
    ASSUME NEW tot \in Nat, NEW S \in Nat, S > 0, tot <= S, NEW F \in Nat
    PROVE  FairShare(tot, S, F, PartOf(FromRational(tot, S), F))
<1> DEFINE A == Accuracy
           B == A - 1
           P == PartOf(FromRational(tot, S), F)
           c == SaturatingSub(P, 1)
<1>1. A \in Nat /\ A > 0
  BY AccuracyAssumption
<1>2. /\ P \in Nat
      /\ 2 * (P * (S * B)) <= 2 * (F * tot * A) + S * B
      /\ 2 * (F * tot * A) <= 2 * (P * A * S) + 4 * (F * S) + A * S
  BY ProviderShare
<1> HIDE DEF P
<1>3. c \in Nat /\ (c = 0 \/ c + 1 = P)
  BY <1>2 DEF SaturatingSub
<1>4. B \in Nat /\ B <= A
  BY <1>1
<1> HIDE DEF A, B, c
<1>5. c * (S * B) <= F * tot * A
  <2>1. CASE c = 0
    BY <1>1, <1>4, <2>1
  <2>2. CASE c + 1 = P
    <3> DEFINE y == S * B
               z == F * tot * A
    <3>1. y \in Nat /\ z \in Nat /\ 2 * (P * y) <= 2 * z + y
      BY <1>1, <1>2, <1>4
    <3> HIDE DEF y, z
    <3>2. P * y = c * y + y /\ c * y \in Nat
      BY <1>3, <2>2, <3>1
    <3>3. c * y <= z
      BY <3>1, <3>2
    <3> QED
      BY <3>3 DEF y, z
  <2> QED
    BY <1>3, <2>1, <2>2
<1>6. c * S * B * B <= (tot * F) * A * A
  <2> DEFINE l == c * (S * B)
             r == F * tot * A
  <2>1. l \in Nat /\ r \in Nat /\ l <= r
    BY <1>1, <1>3, <1>4, <1>5
  <2>2. l * B = c * S * B * B /\ r * A = (tot * F) * A * A
    BY <1>1, <1>3, <1>4
  <2> HIDE DEF l, r
  <2>3. l * B <= r * B /\ r * B <= r * A
    BY <1>1, <1>4, <2>1
  <2>4. l * B \in Nat /\ r * B \in Nat /\ r * A \in Nat
    BY <1>1, <1>4, <2>1
  <2>5. l * B <= r * A
    BY <2>3, <2>4
  <2> QED
    BY <2>2, <2>5
<1>7. (tot * F) * A <= (P + 1) * S * A + 4 * F * S
  BY <1>1, <1>2
<1> QED
  BY <1>6, <1>7 DEF FairShare, A, B, P, c

LEMMA StakerFairShare ==
    ASSUME NEW st \in Nat, NEW tot \in Nat, NEW S \in Nat, tot > 0,
           st <= tot, tot <= S, NEW F \in Nat
    PROVE  FairShare(st, S, F,
               PartOf(FromRational(st, tot), PartOf(FromRational(tot, S), F)))
<1> DEFINE A == Accuracy
           B == A - 1
           P == PartOf(FromRational(tot, S), F)
           q == FromRational(st, tot)
           x == PartOf(q, P)
           c == SaturatingSub(x, 1)
<1>1. A \in Nat /\ A > 0 /\ B \in Nat /\ B <= A
  BY AccuracyAssumption
<1>0. S > 0
  OBVIOUS
<1>2. /\ P \in Nat /\ P <= F
      /\ 2 * (P * (S * B)) <= 2 * (F * tot * A) + S * B
      /\ 2 * (F * tot * A) <= 2 * (P * A * S) + 4 * (F * S) + A * S
  BY <1>0, ProviderShare
<1> HIDE DEF P
<1>3. /\ q \in Nat /\ q <= A
      /\ q * (tot * B) <= st * (A * A)
      /\ st * A <= q * tot + 2 * tot
  BY FromRationalBounds
<1> HIDE DEF q
<1>4. /\ x \in Nat
      /\ 2 * (x * A) <= 2 * (q * P) + A
      /\ 2 * (q * P) <= 2 * (x * A) + A
  BY <1>2, <1>3, PartOfBounds
<1> HIDE DEF A, B, x
<1>5. c \in Nat /\ (c = 0 \/ c + 1 = x)
  BY <1>4 DEF SaturatingSub
<1> HIDE DEF c
<1>6. c * (S * B) <= q * (F * tot)
  <2> DEFINE y == S * B
             z == F * tot
  <2>1. y \in Nat /\ z \in Nat
    BY <1>1
  <2>2. 2 * (P * y) <= 2 * (z * A) + y
    BY <1>1, <1>2
  <2> HIDE DEF y, z
  <2>3. CASE c = 0
    <3>1. c * y = 0 /\ q * z \in Nat
      BY <1>3, <2>1, <2>3
    <3> QED
      BY <3>1 DEF y, z
  <2>4. CASE c + 1 = x
    <3>1. (2 * (x * A)) * y <= (2 * (q * P) + A) * y
      <4> DEFINE l == 2 * (x * A)
                 r == 2 * (q * P) + A
      <4>1. l \in Nat /\ r \in Nat /\ l <= r
        BY <1>1, <1>2, <1>3, <1>4
      <4> HIDE DEF l, r
      <4>2. l * y <= r * y
        BY <2>1, <4>1
      <4> QED
        BY <4>2 DEF l, r
    <3>2. (2 * (P * y)) * q <= (2 * (z * A) + y) * q
      <4> DEFINE l == 2 * (P * y)
                 r == 2 * (z * A) + y
      <4>1. l \in Nat /\ r \in Nat /\ l <= r
        BY <1>1, <1>2, <2>1, <2>2
      <4> HIDE DEF l, r
      <4>2. l * q <= r * q
        BY <1>3, <4>1
      <4> QED
        BY <4>2 DEF l, r
    <3>3. y * q <= y * A
      BY <1>1, <1>3, <2>1
    <3>4. (x * y) * A <= (q * z + y) * A
      <4> DEFINE a1 == x * A * y
                 a2 == q * P * y
                 a3 == A * y
                 a4 == z * A * q
                 a5 == y * q
      <4>1. a1 \in Nat /\ a2 \in Nat /\ a3 \in Nat /\ a4 \in Nat /\ a5 \in Nat
        BY <1>1, <1>2, <1>3, <1>4, <2>1
      <4>2. 2 * a1 <= 2 * a2 + a3
        BY <1>1, <1>2, <1>3, <1>4, <2>1, <3>1
      <4>3. 2 * a2 <= 2 * a4 + a5
        BY <1>1, <1>2, <1>3, <1>4, <2>1, <3>2
      <4>4. a5 <= a3
        BY <1>1, <1>3, <2>1, <3>3
      <4>5. (x * y) * A = a1 /\ (q * z + y) * A = a4 + a3
        BY <1>1, <1>3, <1>4, <2>1
      <4> HIDE DEF a1, a2, a3, a4, a5
      <4> QED
        BY <4>1, <4>2, <4>3, <4>4, <4>5
    <3> DEFINE l == x * y
               r == q * z + y
    <3>5. l \in Nat /\ r \in Nat
      BY <1>3, <1>4, <2>1
    <3>6. l <= r
      <4> HIDE DEF l, r
      <4> QED
        BY <1>1, <3>4, <3>5 DEF l, r
    <3>7. x * y = c * y + y /\ c * y \in Nat
      BY <1>5, <2>1, <2>4
    <3>8. c * y <= q * z
      BY <1>3, <2>1, <3>5, <3>6, <3>7
    <3> QED
      BY <3>8 DEF y, z
  <2> QED
    BY <1>5, <2>3, <2>4
<1>7. c * S * B * B <= (st * F) * A * A
  <2>1. (c * (S * B)) * B <= (q * (F * tot)) * B
    <3> DEFINE l == c * (S * B)
               r == q * (F * tot)
    <3>1. l \in Nat /\ r \in Nat /\ l <= r
      BY <1>1, <1>3, <1>5, <1>6
    <3> HIDE DEF l, r
    <3>2. l * B <= r * B
      BY <1>1, <3>1
    <3> QED
      BY <3>2 DEF l, r
  <2>2. F * (q * (tot * B)) <= F * (st * (A * A))
    <3> DEFINE l == q * (tot * B)
               r == st * (A * A)
    <3>1. l \in Nat /\ r \in Nat /\ l <= r
      BY <1>1, <1>3
    <3> HIDE DEF l, r
    <3>2. F * l <= F * r
      BY <3>1
    <3> QED
      BY <3>2 DEF l, r
  <2>3. /\ (c * (S * B)) * B = c * S * B * B
        /\ (q * (F * tot)) * B = F * (q * (tot * B))
        /\ F * (st * (A * A)) = (st * F) * A * A
    BY <1>1, <1>3, <1>5
  <2>4. /\ c * S * B * B \in Nat /\ F * (q * (tot * B)) \in Nat
        /\ (st * F) * A * A \in Nat
    BY <1>1, <1>3, <1>5
  <2> QED
    BY <2>1, <2>2, <2>3, <2>4
<1>8. (st * F) * A <= (x + 1) * S * A + 4 * F * S
  <2>1. PICK k \in Nat : k <= A /\ k <= q + 2 /\ st * A <= k * tot
    <3>1. CASE q + 2 <= A
      <4>1. (q + 2) * tot = q * tot + 2 * tot
        BY <1>3
      <4> QED
        BY <1>3, <3>1, <4>1
    <3>2. CASE A < q + 2
      <4>1. st * A <= A * tot
        BY <1>1
      <4> QED
        BY <1>1, <1>3, <3>2, <4>1
    <3> QED
      BY <1>1, <1>3, <3>1, <3>2
  <2>2. k * (2 * P) <= 2 * (x * A) + A + 4 * F
    <3>1. k * (2 * P) <= (q + 2) * (2 * P)
      BY <1>2, <1>3, <2>1
    <3>2. (q + 2) * (2 * P) = 2 * (q * P) + 4 * P /\ q * P \in Nat
      BY <1>2, <1>3
    <3>3. k * (2 * P) \in Nat /\ x * A \in Nat
      BY <1>1, <1>2, <1>4
    <3> QED
      BY <1>1, <1>2, <1>4, <3>1, <3>2, <3>3
  <2> DEFINE u == A * S
             v == F * S
  <2>3. u \in Nat /\ v \in Nat
    BY <1>1
  <2>4. (st * A) * (2 * (F * A)) <= (k * tot) * (2 * (F * A))
    <3> DEFINE l == st * A
               r == k * tot
               w == 2 * (F * A)
    <3>1. l \in Nat /\ r \in Nat /\ w \in Nat /\ l <= r
      BY <1>1, <2>1
    <3> HIDE DEF l, r, w
    <3>2. l * w <= r * w
      BY <3>1
    <3> QED
      BY <3>2 DEF l, r, w
  <2>5. k * (2 * (F * tot * A)) <= k * (2 * (P * u) + 4 * v + u)
    <3> DEFINE l == 2 * (F * tot * A)
               r == 2 * (P * u) + 4 * v + u
    <3>1. l \in Nat /\ r \in Nat /\ l <= r
      BY <1>1, <1>2
    <3> HIDE DEF l, r
    <3>2. k * l <= k * r
      BY <3>1
    <3> QED
      BY <3>2 DEF l, r
  <2>6. k * u <= A * u /\ k * v <= A * v
    BY <1>1, <2>1, <2>3
  <2>7. (k * (2 * P)) * u <= (2 * (x * A) + A + 4 * F) * u
    <3> DEFINE l == k * (2 * P)
               r == 2 * (x * A) + A + 4 * F
    <3>1. l \in Nat /\ r \in Nat /\ l <= r
      BY <1>1, <1>2, <1>4, <2>2
    <3> HIDE DEF l, r, u
    <3>2. l * u <= r * u
      BY <2>3, <3>1
    <3> QED
      BY <3>2 DEF l, r
  <2>8. F * u = A * v
    BY <1>1
  <2>9. ((st * F) * A) * (2 * A) <= ((x + 1) * u + 4 * v) * (2 * A)
    <3> HIDE DEF u, v
    <3> DEFINE a0 == (st * A) * (2 * (F * A))
               a1 == (k * (2 * P)) * u
               a2 == k * u
               a3 == k * v
               a4 == x * A * u
               a5 == A * u
               a6 == A * v
    <3>1. /\ a0 \in Nat /\ a1 \in Nat /\ a2 \in Nat /\ a3 \in Nat /\ a4 \in Nat
          /\ a5 \in Nat /\ a6 \in Nat
      BY <1>1, <1>2, <1>4, <2>1, <2>3
    <3>2. a0 <= a1 + 4 * a3 + a2
      <4>1. (k * tot) * (2 * (F * A)) = k * (2 * (F * tot * A))
        BY <1>1, <2>1
      <4>2. k * (2 * (P * u) + 4 * v + u) = a1 + 4 * a3 + a2
        BY <1>2, <2>1, <2>3
      <4>3. k * (2 * (F * tot * A)) \in Nat
        BY <1>1, <2>1
      <4> HIDE DEF a0, a1, a2, a3
      <4> QED
        BY <2>4, <2>5, <3>1, <4>1, <4>2, <4>3 DEF a0
    <3>3. a1 <= 2 * a4 + a5 + 4 * a6
      <4>1. (2 * (x * A) + A + 4 * F) * u = 2 * a4 + a5 + 4 * (F * u)
        BY <1>1, <1>4, <2>3
      <4> QED
        BY <2>7, <2>8, <4>1
    <3>4. a2 <= a5 /\ a3 <= a6
      BY <2>6
    <3>5. ((st * F) * A) * (2 * A) = a0
      BY <1>1
    <3>6. ((x + 1) * u + 4 * v) * (2 * A) = 2 * a4 + 2 * a5 + 8 * a6
      BY <1>1, <1>4, <2>3
    <3> HIDE DEF a0, a1, a2, a3, a4, a5, a6
    <3> QED
      BY <3>1, <3>2, <3>3, <3>4, <3>5, <3>6
  <2> DEFINE l == (st * F) * A
             r == (x + 1) * u + 4 * v
  <2>10. l \in Nat /\ r \in Nat
    BY <1>1, <1>4, <2>3
  <2>11. r = (x + 1) * S * A + 4 * F * S
    BY <1>1, <1>4
  <2>12. l <= r
    <3> HIDE DEF l, r, u, v
    <3>1. l * (2 * A) <= r * (2 * A)
      BY <2>9 DEF l, r
    <3> QED
      BY <1>1, <2>10, <3>1
  <2> QED
    BY <2>11, <2>12
<1> QED
  BY <1>7, <1>8 DEF FairShare, A, B, x, q, P, c

(* A payment without the unit it may have been rounded up by is within the *)
(* share that the cut numbers give it, ...                                 *)
LEMMA CoveredOperator ==
    ASSUME NEW tot \in Nat, NEW S \in Nat, S > 0, tot <= S, NEW F \in Nat,
           NEW P, P = PartOf(FromRational(tot, S), F)
    PROVE  /\ P \in Nat
           /\ SaturatingSub(P, 1) * Cut(S, S) <= Cut(tot, S) * F
<1> DEFINE A == Accuracy
           q == FromRational(tot, S)
           s == Cut(S, S)
           w == Cut(tot, S)
           c == SaturatingSub(P, 1)
<1>1. A \in Nat /\ A > 0
  BY AccuracyAssumption
<1>2. q \in Nat /\ q * s <= w * A
  BY CutRatio
<1>3. s \in Nat /\ w \in Nat
  BY CutBounds
<1>4. P \in Nat /\ 2 * (P * A) <= 2 * (q * F) + A
  BY <1>2, PartOfBounds
<1> HIDE DEF A, q, s, w
<1>5. c \in Nat /\ (c = 0 \/ c + 1 = P)
  BY <1>4 DEF SaturatingSub
<1> HIDE DEF c
<1>6. c * A <= q * F
  <2>1. CASE c = 0
    BY <1>1, <1>2, <2>1
  <2>2. CASE c + 1 = P
    <3>1. P * A = c * A + A /\ c * A \in Nat /\ q * F \in Nat
      BY <1>1, <1>2, <1>5, <2>2
    <3> QED
      BY <1>1, <1>4, <3>1
  <2> QED
    BY <1>5, <2>1, <2>2
<1>7. c * s <= w * F
  <2>1. (c * A) * s <= (q * F) * s
    <3> DEFINE l == c * A
               r == q * F
    <3>1. l \in Nat /\ r \in Nat /\ l <= r
      BY <1>1, <1>2, <1>5, <1>6
    <3> HIDE DEF l, r
    <3>2. l * s <= r * s
      BY <1>3, <3>1
    <3> QED
      BY <3>2 DEF l, r
  <2>2. (q * s) * F <= (w * A) * F
    <3> DEFINE l == q * s
               r == w * A
    <3>1. l \in Nat /\ r \in Nat /\ l <= r
      BY <1>1, <1>2, <1>3
    <3> HIDE DEF l, r
    <3>2. l * F <= r * F
      BY <3>1
    <3> QED
      BY <3>2 DEF l, r
  <2> DEFINE l == c * s
             r == w * F
  <2>3. l \in Nat /\ r \in Nat /\ (c * A) * s = l * A /\ (w * A) * F = r * A
    BY <1>1, <1>3, <1>5
  <2>4. (q * F) * s = (q * s) * F /\ (q * s) * F \in Nat
    BY <1>2, <1>3
  <2> HIDE DEF l, r
  <2>5. l * A <= r * A /\ l * A \in Nat /\ r * A \in Nat
    BY <1>1, <2>1, <2>2, <2>3, <2>4
  <2>6. l <= r
    BY <1>1, <2>3, <2>5
  <2> QED
    BY <2>6 DEF l, r
<1> QED
  BY <1>4, <1>7 DEF s, w, c

(* ... also when the share is a staker's, of the provider's share.         *)
LEMMA CoveredStaker ==
    ASSUME NEW st \in Nat, NEW tot \in Nat, NEW S \in Nat, tot > 0,
           st <= tot, tot <= S, NEW F \in Nat,
           NEW x, x = PartOf(FromRational(st, tot), PartOf(FromRational(tot, S), F))
    PROVE  /\ x \in Nat
           /\ SaturatingSub(x, 1) * (Cut(tot, tot) * Cut(S, S))
                  <= Cut(st, tot) * (Cut(tot, S) * F)
<1> DEFINE A == Accuracy
           q == FromRational(tot, S)
           P == PartOf(q, F)
           k == FromRational(st, tot)
           s == Cut(S, S)
           w == Cut(tot, S)
           t == Cut(tot, tot)
           v == Cut(st, tot)
           c == SaturatingSub(x, 1)
<1>1. A \in Nat /\ A > 0
  BY AccuracyAssumption
<1>2. q \in Nat /\ q * s <= w * A
  BY CutRatio
<1>3. k \in Nat /\ k <= A /\ k * t <= v * A
  BY CutRatio
<1>4. s \in Nat /\ w \in Nat /\ t \in Nat /\ v \in Nat
  BY CutBounds
<1>5. P \in Nat /\ 2 * (P * A) <= 2 * (q * F) + A
  BY <1>2, PartOfBounds
<1>6. x \in Nat /\ 2 * (x * A) <= 2 * (k * P) + A
  BY <1>3, <1>5, PartOfBounds
<1> HIDE DEF A, q, P, k, s, w, t, v
<1>7. c \in Nat /\ (c = 0 \/ c + 1 = x)
  BY <1>6 DEF SaturatingSub
<1> HIDE DEF c
<1> DEFINE z == A * A
           y == k * q * F
<1>8. z \in Nat /\ z > 0 /\ y \in Nat
  BY <1>1, <1>2, <1>3
<1>9. c * z <= y
  <2>1. CASE c = 0
    BY <1>8, <2>1
  <2>2. CASE c + 1 = x
    <3>1. (2 * (x * A)) * A <= (2 * (k * P) + A) * A
      <4> DEFINE l == 2 * (x * A)
                 r == 2 * (k * P) + A
      <4>1. l \in Nat /\ r \in Nat /\ l <= r
        BY <1>1, <1>3, <1>5, <1>6
      <4> HIDE DEF l, r
      <4>2. l * A <= r * A
        BY <1>1, <4>1
      <4> QED
        BY <4>2 DEF l, r
    <3>2. k * (2 * (P * A)) <= k * (2 * (q * F) + A)
      <4> DEFINE l == 2 * (P * A)
                 r == 2 * (q * F) + A
      <4>1. l \in Nat /\ r \in Nat /\ l <= r
        BY <1>1, <1>2, <1>5
      <4> HIDE DEF l, r
      <4>2. k * l <= k * r
        BY <1>3, <4>1
      <4> QED
        BY <4>2 DEF l, r
    <3>3. k * A <= z
      BY <1>1, <1>3
    <3> DEFINE m == k * P * A
    <3>4. m \in Nat /\ k * A \in Nat
      BY <1>1, <1>3, <1>5
    <3>5. (2 * (x * A)) * A = 2 * (x * z) /\ (2 * (k * P) + A) * A = 2 * m + z
      BY <1>1, <1>3, <1>5, <1>6
    <3>6. k * (2 * (P * A)) = 2 * m /\ k * (2 * (q * F) + A) = 2 * y + k * A
      BY <1>1, <1>2, <1>3, <1>5
    <3> HIDE DEF z, y, m
    <3>7. x * z = c * z + z /\ c * z \in Nat
      BY <1>7, <1>8, <2>2
    <3> QED
      BY <1>8, <3>1, <3>2, <3>3, <3>4, <3>5, <3>6, <3>7
  <2> QED
    BY <1>7, <2>1, <2>2
<1>10. c * (t * s) <= v * (w * F)
  <2> DEFINE ts == t * s
             kt == k * t
             qs == q * s
             va == v * A
             wa == w * A
             l == c * ts
             r == v * (w * F)
  <2>1. /\ ts \in Nat /\ kt \in Nat /\ qs \in Nat /\ va \in Nat /\ wa \in Nat
        /\ l \in Nat /\ r \in Nat
    BY <1>1, <1>2, <1>3, <1>4, <1>7
  <2>2. l * z = (c * z) * ts /\ y * ts = (kt * qs) * F /\ (va * wa) * F = r * z
    BY <1>1, <1>2, <1>3, <1>4, <1>7
  <2>3. kt <= va /\ qs <= wa
    BY <1>2, <1>3
  <2> HIDE DEF z, y, ts, kt, qs, va, wa, l, r
  <2>4. kt * qs <= va * qs /\ va * qs <= va * wa
    BY <2>1, <2>3
  <2>5. (c * z) * ts <= y * ts
    <3>1. c * z \in Nat
      BY <1>7, <1>8
    <3> DEFINE cz == c * z
    <3> HIDE DEF cz
    <3>2. cz \in Nat /\ cz <= y => cz * ts <= y * ts
      BY <1>8, <2>1
    <3> QED
      BY <1>9, <3>1, <3>2 DEF cz
  <2> DEFINE a == kt * qs
             b == va * wa
  <2>6. a \in Nat /\ b \in Nat /\ a <= b
    <3>1. kt * qs \in Nat /\ va * qs \in Nat /\ va * wa \in Nat
      BY <2>1
    <3> QED
      BY <2>4, <3>1
  <2> HIDE DEF a, b
  <2>7. a * F <= b * F /\ a * F \in Nat /\ b * F \in Nat
    BY <2>6
  <2>8. l * z <= r * z
    <3>1. l * z \in Nat /\ r * z \in Nat
      BY <1>8, <2>1
    <3> QED
      BY <2>2, <2>5, <2>7, <3>1 DEF a, b
  <2>9. l <= r
    BY <1>8, <2>1, <2>8
  <2> QED
    BY <2>9 DEF l, r, ts
<1> QED
  BY <1>6, <1>10 DEF c, s, w, t, v

(* A share of either role: fair, and but for a unit within the cut of its  *)
(* provider in the cut of the era.                                         *)
LEMMA ShareBounds ==
    ASSUME NEW role, NEW st \in Nat, NEW tot \in Nat, NEW S \in Nat, NEW F \in Nat,
           st > 0, st <= tot, tot <= S, role = "operator" => st = tot,
           role \in {"staker", "operator"},
           NEW x, x = ShareOf(role, st, tot, S, F)
    PROVE  /\ x \in Nat
           /\ FairShare(st, S, F, x)
           /\ SaturatingSub(x, 1) * (Cut(tot, tot) * Cut(S, S))
                  <= Cut(st, tot) * (Cut(tot, S) * F)
<1>1. tot > 0 /\ S > 0
  OBVIOUS
<1>2. CASE role = "staker"
  <2>1. x = PartOf(FromRational(st, tot), PartOf(FromRational(tot, S), F))
    BY <1>2 DEF ShareOf
  <2> QED
    BY <1>1, <2>1, StakerFairShare, CoveredStaker
<1>3. CASE role = "operator"
  <2>1. x = PartOf(FromRational(tot, S), F) /\ st = tot
    BY <1>3 DEF ShareOf
  <2> DEFINE s == Cut(S, S)
             w == Cut(tot, S)
             t == Cut(tot, tot)
             c == SaturatingSub(x, 1)
  <2>2. x \in Nat /\ c * s <= w * F
    BY <1>1, <2>1, CoveredOperator
  <2>3. s \in Nat /\ w \in Nat /\ t \in Nat
    BY <1>1, CutBounds
  <2>4. c \in Nat
    BY <2>2 DEF SaturatingSub
  <2>5. FairShare(st, S, F, x)
    BY <1>1, <2>1, OperatorFairShare
  <2> HIDE DEF s, w, t, c
  <2> DEFINE l == c * s
             r == w * F
  <2>6. l \in Nat /\ r \in Nat /\ c * (t * s) = t * l
    BY <2>3, <2>4
  <2>7. l <= r
    BY <2>2
  <2> HIDE DEF l, r
  <2>8. t * l <= t * r
    BY <2>3, <2>6, <2>7
  <2> QED
    BY <2>1, <2>2, <2>5, <2>6, <2>8 DEF r, s, w, t, c
<1> QED
  BY <1>2, <1>3
-------------------------------------------------------------------------------
(* Claims and the stakes they were paid for *)

LEMMA ReceiptType ==
    ASSUME IInv, NEW r \in receipts
    PROVE  /\ r \in Receipt
           /\ r.role \in {"staker", "operator"}
           /\ r.who \in Accounts /\ r.provider \in Providers
           /\ r.era \in Nat /\ r.staked \in Nat /\ r.amount \in Nat
  BY TypeParts DEF IInv, RewardsOK, Receipt

LEMMA StakePaidTypes ==
    IInv /\ IsFiniteSet(receipts) =>
        \A role, p, e : /\ StakePaid(role, p, e) \in Nat
                        /\ \A r \in receipts : PaidStake(r, role, p, e) \in Nat
<1> SUFFICES ASSUME IInv, IsFiniteSet(receipts), NEW role, NEW p, NEW e
             PROVE  /\ StakePaid(role, p, e) \in Nat
                    /\ \A r \in receipts : PaidStake(r, role, p, e) \in Nat
  OBVIOUS
<1>1. \A r \in receipts : PaidStake(r, role, p, e) \in Nat
  BY ReceiptType DEF PaidStake
<1> DEFINE f == [r \in receipts |-> PaidStake(r, role, p, e)]
<1>2. f \in [receipts -> Nat] /\ StakePaid(role, p, e) = Sum(f)
  BY <1>1 DEF StakePaid
<1> HIDE DEF f
<1> QED
  BY <1>1, <1>2, SumType

(* A new claim adds its stake where it belongs.                            *)
LEMMA StakePaidGrows ==
    ASSUME IInv, IsFiniteSet(receipts), NEW r \in Receipt, r \notin receipts,
           receipts' = receipts \cup {r}, NEW role, NEW p, NEW e
    PROVE  StakePaid(role, p, e)' = StakePaid(role, p, e) + PaidStake(r, role, p, e)
<1> DEFINE f == [q \in receipts |-> PaidStake(q, role, p, e)]
           g == [q \in receipts' |-> PaidStake(q, role, p, e)]
<1>1. PaidStake(r, role, p, e) \in Nat
  BY DEF PaidStake, Receipt
<1>2. /\ f \in [receipts -> Nat] /\ StakePaid(role, p, e) = Sum(f)
      /\ g \in [receipts \cup {r} -> Nat] /\ StakePaid(role, p, e)' = Sum(g)
      /\ \A q \in receipts : g[q] = f[q]
      /\ g[r] = PaidStake(r, role, p, e)
  BY <1>1, StakePaidTypes DEF StakePaid
<1>3. Extends(g, f, receipts, r)
  BY <1>2 DEF Extends
<1> HIDE DEF f, g
<1>4. Sum(g) = Sum(f) + g[r]
  BY <1>3, SumExtends
<1> QED
  BY <1>2, <1>4

LEMMA NothingPaid ==
    ASSUME IInv, IsFiniteSet(receipts), NEW role, NEW p, NEW e,
           \A r \in receipts : ~(r.role = role /\ r.provider = p /\ r.era = e)
    PROVE  StakePaid(role, p, e) = 0
<1> DEFINE f == [r \in receipts |-> PaidStake(r, role, p, e)]
<1>1. /\ f \in [receipts -> Nat] /\ StakePaid(role, p, e) = Sum(f)
      /\ \A r \in receipts : f[r] = 0
  BY DEF StakePaid, PaidStake
<1> HIDE DEF f
<1> QED
  BY <1>1, SumZero

LEMMA SamePaid ==
    ASSUME receipts' = receipts, NEW role, NEW p, NEW e
    PROVE  StakePaid(role, p, e)' = StakePaid(role, p, e)
  BY DEF StakePaid, PaidStake

LEMMA UnclaimedTypes ==
    IInv => \A p \in Providers, e \in Nat : Unclaimed(p, e) \in Nat
<1> SUFFICES ASSUME IInv, NEW p \in Providers, NEW e \in Nat
             PROVE  Unclaimed(p, e) \in Nat
  OBVIOUS
<1> DEFINE f == [s \in Accounts |-> StakedAt(stakerInfo[s][p], e)]
<1>1. \A s \in Accounts : StakedAt(stakerInfo[s][p], e) \in Nat
  BY HistoryInOrder, StakedAtType DEF InOrder
<1>2. f \in [Accounts -> Nat] /\ Unclaimed(p, e) = Sum(f)
  BY <1>1 DEF Unclaimed
<1> HIDE DEF f
<1> QED
  BY <1>2, FiniteDomains, SumType

LEMMA UnclaimedTypesNext ==
    IInv' => \A p \in Providers, e \in Nat : Unclaimed(p, e)' \in Nat
<1> DEFINE Types == \A p \in Providers, e \in Nat : Unclaimed(p, e) \in Nat
<1>1. IInv => Types
  BY UnclaimedTypes
<1> HIDE DEF Types
<1>2. IInv' => Types'
  BY <1>1, PTL
<1> QED
  BY <1>2 DEF Types

LEMMA HistoryTypesNext ==
    ASSUME IInv', NEW s \in Accounts, NEW p \in Providers
    PROVE  stakerInfo'[s][p] \in Seq(EraStake)
  BY TypePartsNext DEF IInv, HistoriesOK

LEMMA UnclaimedShrinks ==
    ASSUME IInv, IInv', HistoriesShrink, NEW p \in Providers, NEW e \in Nat,
           e < currentEra
    PROVE  Unclaimed(p, e)' <= Unclaimed(p, e)
<1> DEFINE f == [s \in Accounts |-> StakedAt(stakerInfo'[s][p], e)]
           g == [s \in Accounts |-> StakedAt(stakerInfo[s][p], e)]
<1>1. \A s \in Accounts : /\ StakedAt(stakerInfo[s][p], e) \in Nat
                          /\ StakedAt(stakerInfo'[s][p], e) \in Nat
  BY HistoryInOrder, HistoryTypesNext, StakedAtType DEF InOrder
<1>2. /\ f \in [Accounts -> Nat] /\ g \in [Accounts -> Nat]
      /\ \A s \in Accounts : f[s] <= g[s]
      /\ Unclaimed(p, e)' = Sum(f) /\ Unclaimed(p, e) = Sum(g)
  BY <1>1 DEF HistoriesShrink, Unclaimed
<1> HIDE DEF f, g
<1> QED
  BY <1>2, FiniteDomains, SumMonotonic

(* What is claimed is no longer to be claimed.                             *)
LEMMA UnclaimedAfterClaim ==
    ASSUME IInv, IInv', NEW s \in Accounts, NEW p \in Providers, NEW e \in Nat,
           OtherHistoriesKept(s, p), StakedAt(stakerInfo'[s][p], e) = 0
    PROVE  Unclaimed(p, e)' + StakedAt(stakerInfo[s][p], e) = Unclaimed(p, e)
<1> DEFINE f == [a \in Accounts |-> StakedAt(stakerInfo[a][p], e)]
           g == [a \in Accounts |-> StakedAt(stakerInfo'[a][p], e)]
<1>1. \A a \in Accounts : /\ StakedAt(stakerInfo[a][p], e) \in Nat
                          /\ StakedAt(stakerInfo'[a][p], e) \in Nat
  BY HistoryInOrder, HistoryTypesNext, StakedAtType DEF InOrder
<1>2. /\ f \in [Accounts -> Nat] /\ g \in [Accounts -> Nat]
      /\ \A a \in Accounts \ {s} : g[a] = f[a]
      /\ f[s] = StakedAt(stakerInfo[s][p], e) /\ g[s] = 0
      /\ Unclaimed(p, e)' = Sum(g) /\ Unclaimed(p, e) = Sum(f)
  BY <1>1 DEF OtherHistoriesKept, Unclaimed
<1> HIDE DEF f, g
<1>3. /\ Sum(g) + f[s] = Sum(f) + g[s]
      /\ {Sum(f), Sum(g), f[s], g[s]} \subseteq Nat
  BY <1>2, FiniteDomains, SumUpdate
<1> QED
  BY <1>2, <1>3
-------------------------------------------------------------------------------
(* Settled claims stay settled *)

LEMMA StaysSettled ==
    ASSUME IInv, NEW r \in receipts, Settled(r), SameEra
    PROVE  Settled(r)'
<1>1. /\ r.who \in Accounts /\ r.provider \in Providers /\ r.era \in Nat
      /\ r.era < currentEra /\ currentEra' = currentEra
      /\ PastRecordsKept /\ PastInfosKept /\ HistoriesMoveOn /\ RegistryAdvances
  BY ReceiptType DEF Settled, SameEra, PastKept
<1>2. r.era < currentEra' /\ r.staked > 0
  BY <1>1 DEF Settled
<1>3. IsRegistered(r.provider)' /\ RunsIn(r.provider, r.era)'
  BY <1>1 DEF Settled, RegistryAdvances
<1>4. EraInfoAt(r.era)' = EraInfoAt(r.era)
  BY <1>1 DEF PastInfosKept
<1>5. PaidItsShare(r)'
  BY <1>1, <1>4 DEF Settled, PaidItsShare, Fund, PastRecordsKept
<1>6. r.role = "staker" => Later(stakerInfo'[r.who][r.provider], r.era)
  BY <1>1 DEF Settled, HistoriesMoveOn
<1>7. r.role = "operator" => ProviderStakeAt(r.provider, r.era)'.provider_reward_claimed
  BY <1>1 DEF Settled, PastRecordsKept
<1> QED
  BY <1>2, <1>3, <1>5, <1>6, <1>7 DEF Settled

LEMMA SettledInNewEra ==
    ASSUME BooksInv, NEW r \in receipts, Settled(r), NewEra
    PROVE  Settled(r)'
<1>1. /\ IInv /\ ErasKnown /\ currentEra \in Nat
      /\ EraBegins /\ UNCHANGED <<stakerInfo, registeredProviders>>
      /\ currentEra' = currentEra + 1
  BY TypeParts DEF BooksInv, Books, IInv, ErasOK, NewEra, EraBegins
<1>2. r.provider \in Providers /\ r.era \in Nat /\ r.era < currentEra
  BY <1>1, ReceiptType DEF Settled
<1>3. r.era < currentEra' /\ r.staked > 0
  BY <1>1, <1>2 DEF Settled
<1>4. IsRegistered(r.provider)' /\ RunsIn(r.provider, r.era)'
  BY <1>1 DEF Settled, RunsIn, IsUnregistered, IsRegistered
<1>5. EraInfoAt(r.era)' = EraInfoAt(r.era)
  BY <1>1, <1>2 DEF EraBegins, EraInfoAt, Get, ErasKnown
<1>6. ProviderStakeAt(r.provider, r.era)' = ProviderStakeAt(r.provider, r.era)
  BY <1>1, <1>2, EraBeginsKeepsRecords
<1>7. r.role = "staker" => Later(stakerInfo'[r.who][r.provider], r.era)
  BY <1>1 DEF Settled
<1>8. PaidItsShare(r)'
  BY <1>5, <1>6 DEF Settled, PaidItsShare, Fund
<1>9. r.role = "operator" => ProviderStakeAt(r.provider, r.era)'.provider_reward_claimed
  BY <1>6 DEF Settled
<1> QED
  BY <1>3, <1>4, <1>7, <1>8, <1>9 DEF Settled

LEMMA QuietClaims ==
    ASSUME ClaimsInv, ErasInv', SameEra, receipts' = receipts
    PROVE  ClaimsInv'
<1>1. /\ ErasInv /\ IInv /\ IInv' /\ IsFiniteSet(receipts) /\ SharesAddUp
      /\ currentEra \in Nat /\ currentEra' = currentEra
      /\ PastRecordsKept /\ HistoriesShrink /\ RegistryAdvances
  BY TypeParts DEF ClaimsInv, ErasInv, BooksInv, IInv, ErasOK, SameEra, PastKept
<1>2. \A r \in receipts' : Settled(r)'
  BY <1>1, StaysSettled DEF ClaimsInv
<1>3. SharesAddUp'
  <2> SUFFICES ASSUME NEW p \in Providers, NEW e \in 0..currentEra, e < currentEra
               PROVE  /\ RunsIn(p, e)' =>
                             Unclaimed(p, e)' + StakePaid("staker", p, e)'
                                 <= ProviderStakeAt(p, e)'.total
                      /\ StakePaid("operator", p, e)' <= ProviderStakeAt(p, e)'.total
    BY <1>1 DEF SharesAddUp
  <2>1. e \in Nat
    BY <1>1
  <2>2. /\ RunsIn(p, e) =>
               Unclaimed(p, e) + StakePaid("staker", p, e) <= ProviderStakeAt(p, e).total
        /\ StakePaid("operator", p, e) <= ProviderStakeAt(p, e).total
    BY <1>1 DEF SharesAddUp
  <2>3. /\ ProviderStakeAt(p, e)'.total = ProviderStakeAt(p, e).total
        /\ RunsIn(p, e)' => RunsIn(p, e)
    BY <1>1, <2>1 DEF PastRecordsKept, RegistryAdvances
  <2>4. /\ StakePaid("staker", p, e)' = StakePaid("staker", p, e)
        /\ StakePaid("operator", p, e)' = StakePaid("operator", p, e)
    BY SamePaid
  <2>5. /\ Unclaimed(p, e)' <= Unclaimed(p, e)
        /\ Unclaimed(p, e)' \in Nat /\ Unclaimed(p, e) \in Nat
        /\ StakePaid("staker", p, e) \in Nat /\ ProviderStakeAt(p, e).total \in Nat
    BY <1>1, <2>1, UnclaimedShrinks, UnclaimedTypes, UnclaimedTypesNext, StakePaidTypes,
       StakeInfoType
  <2> QED
    BY <2>2, <2>3, <2>4, <2>5
<1> QED
  BY <1>1, <1>2, <1>3 DEF ClaimsInv

LEMMA NewEraClaims ==
    ASSUME ClaimsInv, ErasInv', NewEra
    PROVE  ClaimsInv'
<1>1. /\ ErasInv /\ BooksInv /\ IInv /\ IInv' /\ IsFiniteSet(receipts) /\ SharesAddUp
      /\ currentEra \in Nat /\ currentEra' = currentEra + 1 /\ RecordsInRange
      /\ EraBegins /\ UNCHANGED <<stakerInfo, registeredProviders, receipts>>
  BY TypeParts DEF ClaimsInv, ErasInv, BooksInv, Books, IInv, ErasOK, NewEra, EraBegins
<1>2. \A r \in receipts' : Settled(r)'
  BY <1>1, SettledInNewEra DEF ClaimsInv
<1>3. SharesAddUp'
  <2> SUFFICES ASSUME NEW p \in Providers, NEW e \in 0..(currentEra + 1),
                      e < currentEra + 1
               PROVE  /\ RunsIn(p, e)' =>
                             Unclaimed(p, e)' + StakePaid("staker", p, e)'
                                 <= ProviderStakeAt(p, e)'.total
                      /\ StakePaid("operator", p, e)' <= ProviderStakeAt(p, e)'.total
    BY <1>1 DEF SharesAddUp
  <2>1. e \in Nat /\ e <= currentEra
    BY <1>1
  <2>2. /\ ProviderStakeAt(p, e)'.total = ProviderStakeAt(p, e).total
        /\ RunsIn(p, e)' => RunsIn(p, e)
        /\ Unclaimed(p, e)' = Unclaimed(p, e)
        /\ StakePaid("staker", p, e)' = StakePaid("staker", p, e)
        /\ StakePaid("operator", p, e)' = StakePaid("operator", p, e)
    BY <1>1, <2>1, EraBeginsKeepsRecords, SamePaid
       DEF RunsIn, IsUnregistered, IsRegistered, Unclaimed
  <2>3. CASE e < currentEra
    BY <1>1, <2>1, <2>2, <2>3 DEF SharesAddUp
  <2>4. CASE e = currentEra
    <3>1. \A r \in receipts : r.era # e
      BY <1>1, <2>4, ReceiptType DEF ClaimsInv, Settled
    <3>2. StakePaid("staker", p, e) = 0 /\ StakePaid("operator", p, e) = 0
      BY <1>1, <3>1, NothingPaid
    <3>3. /\ Unclaimed(p, e) \in Nat /\ ProviderStakeAt(p, e).total \in Nat
      BY <1>1, <2>1, UnclaimedTypes, StakeInfoType
    <3>4. ASSUME RunsIn(p, e)
          PROVE  Unclaimed(p, e) = ProviderStakeAt(p, e).total
      <4>1. ~IsUnregistered(p)
        BY <1>1, <2>4, <3>4 DEF RunsIn, RecordsInRange
      <4> QED
        BY <1>1, <2>4, <4>1, CurrentShares
    <3> QED
      BY <2>2, <3>2, <3>3, <3>4
  <2> QED
    BY <1>1, <2>1, <2>3, <2>4
<1> QED
  BY <1>1, <1>2, <1>3 DEF ClaimsInv

(* A claim that was never paid before, and is settled by its payment.      *)
NewClaim(r) ==
    /\ r \in Receipt
    /\ \A q \in receipts : ~SameClaim(q, r)
    /\ receipts' = receipts \cup {r}
    /\ Settled(r)'

LEMMA NewClaimIsNew ==
    ASSUME NEW r, NewClaim(r)
    PROVE  r \notin receipts
  BY DEF NewClaim, SameClaim

LEMMA PaidClaims ==
    ASSUME ClaimsInv, ErasInv', SameEra, NEW r, NewClaim(r),
           r.role = "staker" =>
               Unclaimed(r.provider, r.era)' + r.staked <= Unclaimed(r.provider, r.era),
           r.role = "operator" =>
               /\ StakePaid("operator", r.provider, r.era) = 0
               /\ r.staked <= ProviderStakeAt(r.provider, r.era).total
    PROVE  ClaimsInv'
<1>1. /\ ErasInv /\ IInv /\ IInv' /\ IsFiniteSet(receipts) /\ SharesAddUp
      /\ currentEra \in Nat /\ currentEra' = currentEra
      /\ PastRecordsKept /\ HistoriesShrink /\ RegistryAdvances
  BY TypeParts DEF ClaimsInv, ErasInv, BooksInv, IInv, ErasOK, SameEra, PastKept
<1>2. /\ r \in Receipt /\ r \notin receipts /\ receipts' = receipts \cup {r}
      /\ Settled(r)' /\ r.staked \in Nat /\ r.role \in {"staker", "operator"}
  BY NewClaimIsNew DEF NewClaim, Receipt
<1>3. \A q \in receipts' : Settled(q)'
  <2>1. \A q \in receipts : Settled(q)'
    BY <1>1, StaysSettled DEF ClaimsInv
  <2> QED
    BY <1>2, <2>1
<1>4. IsFiniteSet(receipts')
  BY <1>1, <1>2, FS_AddElement
<1>5. SharesAddUp'
  <2> SUFFICES ASSUME NEW p \in Providers, NEW e \in 0..currentEra, e < currentEra
               PROVE  /\ RunsIn(p, e)' =>
                             Unclaimed(p, e)' + StakePaid("staker", p, e)'
                                 <= ProviderStakeAt(p, e)'.total
                      /\ StakePaid("operator", p, e)' <= ProviderStakeAt(p, e)'.total
    BY <1>1 DEF SharesAddUp
  <2>1. e \in Nat
    BY <1>1
  <2>2. /\ RunsIn(p, e) =>
               Unclaimed(p, e) + StakePaid("staker", p, e) <= ProviderStakeAt(p, e).total
        /\ StakePaid("operator", p, e) <= ProviderStakeAt(p, e).total
    BY <1>1 DEF SharesAddUp
  <2>3. /\ ProviderStakeAt(p, e)'.total = ProviderStakeAt(p, e).total
        /\ RunsIn(p, e)' => RunsIn(p, e)
    BY <1>1, <2>1 DEF PastRecordsKept, RegistryAdvances
  <2>4. /\ StakePaid("staker", p, e)'
               = StakePaid("staker", p, e) + PaidStake(r, "staker", p, e)
        /\ StakePaid("operator", p, e)'
               = StakePaid("operator", p, e) + PaidStake(r, "operator", p, e)
    BY <1>1, <1>2, StakePaidGrows
  <2>5. /\ Unclaimed(p, e)' <= Unclaimed(p, e)
        /\ Unclaimed(p, e)' \in Nat /\ Unclaimed(p, e) \in Nat
        /\ StakePaid("staker", p, e) \in Nat /\ StakePaid("operator", p, e) \in Nat
        /\ ProviderStakeAt(p, e).total \in Nat
    BY <1>1, <2>1, UnclaimedShrinks, UnclaimedTypes, UnclaimedTypesNext, StakePaidTypes,
       StakeInfoType
  <2>6. CASE r.provider = p /\ r.era = e /\ r.role = "staker"
    <3>1. PaidStake(r, "staker", p, e) = r.staked /\ PaidStake(r, "operator", p, e) = 0
      BY <2>6 DEF PaidStake
    <3>2. Unclaimed(p, e)' + r.staked <= Unclaimed(p, e)
      BY <2>6
    <3> QED
      BY <1>2, <2>2, <2>3, <2>4, <2>5, <3>1, <3>2
  <2>7. CASE r.provider = p /\ r.era = e /\ r.role = "operator"
    <3>1. PaidStake(r, "staker", p, e) = 0 /\ PaidStake(r, "operator", p, e) = r.staked
      BY <2>7 DEF PaidStake
    <3>2. StakePaid("operator", p, e) = 0 /\ r.staked <= ProviderStakeAt(p, e).total
      BY <2>7
    <3> QED
      BY <1>2, <2>2, <2>3, <2>4, <2>5, <3>1, <3>2
  <2>8. CASE ~(r.provider = p /\ r.era = e)
    <3>1. PaidStake(r, "staker", p, e) = 0 /\ PaidStake(r, "operator", p, e) = 0
      BY <2>8 DEF PaidStake
    <3> QED
      BY <2>2, <2>3, <2>4, <2>5, <3>1
  <2> QED
    BY <1>2, <2>6, <2>7, <2>8
<1> QED
  BY <1>3, <1>4, <1>5 DEF ClaimsInv

-------------------------------------------------------------------------------
(* A claim is paid its share *)

LEMMA TotalWithinEra ==
    ASSUME ErasInv, NEW p \in Providers, NEW e \in Nat, e < currentEra,
           ProviderStakeAt(p, e).total > 0
    PROVE  ProviderStakeAt(p, e).total <= EraInfoAt(e).staked
<1>1. /\ IInv /\ RecordsInRange /\ PastTotals /\ currentEra \in Nat
  BY TypeParts DEF ErasInv, BooksInv, Books, IInv, ErasOK
<1>2. e \in DOMAIN providerEraStake[p]
  BY DEF ProviderStakeAt, Get, NoStake
<1>3. e \in 1..currentEra
  BY <1>1, <1>2 DEF RecordsInRange
<1>4. EraTotal(e) <= EraInfoAt(e).staked
  BY <1>1, <1>3 DEF PastTotals
<1> DEFINE f == [q \in Providers |-> ProviderStakeAt(q, e).total]
<1>5. /\ f \in [Providers -> Nat] /\ EraTotal(e) = Sum(f)
      /\ f[p] = ProviderStakeAt(p, e).total
  BY <1>1, StakeInfoType DEF EraTotal
<1> HIDE DEF f
<1>6. f[p] <= Sum(f) /\ f[p] \in Nat /\ Sum(f) \in Nat
  BY <1>5, FiniteDomains, SumMember, SumType
<1>7. EraInfoAt(e).staked \in Nat
  BY <1>1, EraInfoType
<1> QED
  BY <1>4, <1>5, <1>6, <1>7

(* The stake in the era at the head of a history is the head's.            *)
LEMMA HeadStake ==
    ASSUME NEW t, NEW e \in Nat, InOrder(t, e), t # <<>>
    PROVE  StakedAt(t, t[1].era) = t[1].staked
<1>1. /\ t \in Seq(EraStake) /\ Sorted(t) /\ 1 \in DOMAIN t
      /\ \A i \in DOMAIN t : i \in Nat /\ i >= 1 /\ t[i].era \in Nat
  BY VectorType DEF InOrder
<1>2. Covers(t, 1, t[1].era)
  BY <1>1 DEF Covers, Sorted
<1> QED
  BY <1>1, <1>2, StakedAtCovered

LEMMA OneUnclaimed ==
    ASSUME IInv, NEW s \in Accounts, NEW p \in Providers, NEW e \in Nat
    PROVE  StakedAt(stakerInfo[s][p], e) <= Unclaimed(p, e)
<1> DEFINE f == [a \in Accounts |-> StakedAt(stakerInfo[a][p], e)]
<1>1. \A a \in Accounts : StakedAt(stakerInfo[a][p], e) \in Nat
  BY HistoryInOrder, StakedAtType DEF InOrder
<1>2. /\ f \in [Accounts -> Nat] /\ Unclaimed(p, e) = Sum(f)
      /\ f[s] = StakedAt(stakerInfo[s][p], e)
  BY <1>1 DEF Unclaimed
<1> HIDE DEF f
<1> QED
  BY <1>2, FiniteDomains, SumMember

LEMMA ClaimStakerClaims ==
    ASSUME ClaimsInv, ErasInv', NEW s \in Accounts, NEW p \in Providers,
           ClaimStaker(s, p)
    PROVE  /\ ClaimsInv'
           /\ NewClaim(StakerReceipt(s, p))
<1> DEFINE t == stakerInfo[s][p]
<1> PICK r : r = StakerReceipt(s, p)
  OBVIOUS
<1> PICK e : e = t[1].era
  OBVIOUS
<1>1. /\ ErasInv /\ IInv /\ IInv' /\ BooksInv' /\ currentEra \in Nat /\ PastShares
  BY TypeParts DEF ClaimsInv, ErasInv, BooksInv, IInv, ErasOK
<1>2. /\ InOrder(t, currentEra) /\ t # <<>> /\ t \in Seq(EraStake)
      /\ e = t[1].era /\ e \in Nat /\ t[1].staked \in Nat /\ t[1].staked > 0 /\ e < currentEra
      /\ ClaimableEra(p, e)
      /\ r \in Receipt /\ Pay(r)
      /\ stakerInfo'[s][p] = AfterClaim(t)
      /\ OtherHistoriesKept(s, p)
      /\ UNCHANGED <<currentEra, registeredProviders, providerEraStake, generalEraInfo>>
  BY <1>1, ClaimStakerEffects
<1>3. SameEra
  BY <1>1, ClaimErasStep
<1>4. /\ r.role = "staker" /\ r.who = s /\ r.provider = p /\ r.era = e
      /\ r.staked = t[1].staked /\ r.amount = StakerReward(p, e, t[1].staked)
  BY DEF StakerReceipt
<1>5. receipts' = receipts \cup {r}
  BY <1>2 DEF Pay
<1> DEFINE total == ProviderStakeAt(p, e).total
<1>6. t[1].staked <= total /\ total \in Nat
  <2>1. StakedAt(t, e) = t[1].staked /\ StakedAt(t, e) <= Unclaimed(p, e)
    BY <1>1, <1>2, HeadStake, OneUnclaimed
  <2>2. Unclaimed(p, e) <= total
    BY <1>1, <1>2 DEF PastShares, RunsIn, ClaimableEra
  <2>3. Unclaimed(p, e) \in Nat /\ total \in Nat
    BY <1>1, <1>2, UnclaimedTypes, StakeInfoType
  <2> QED
    BY <1>2, <2>1, <2>2, <2>3
<1>7. total > 0 /\ total <= EraInfoAt(e).staked
  <2>1. total > 0
    BY <1>2, <1>6
  <2> QED
    BY <1>1, <1>2, <2>1, TotalWithinEra
<1>8. PaidItsShare(r)'
  <2>1. EraInfoAt(e)' = EraInfoAt(e) /\ ProviderStakeAt(p, e)' = ProviderStakeAt(p, e)
    BY <1>2 DEF EraInfoAt, ProviderStakeAt, Get
  <2>2. StakerReward(p, e, t[1].staked)
            = ShareOf("staker", t[1].staked, total, EraInfoAt(e).staked, Fund("staker", e))
    BY DEF StakerReward, StakersPart, ShareOf, Fund
  <2>3. Fund("staker", e)' = Fund("staker", e)
    BY <2>1 DEF Fund
  <2> HIDE DEF t
  <2> QED
    BY <1>4, <1>6, <1>7, <2>1, <2>2, <2>3 DEF PaidItsShare
<1>9. Later(stakerInfo'[s][p], e)
  BY <1>1, <1>2, ClaimMovesOn
<1>10. /\ IsRegistered(p)' /\ RunsIn(p, e)'
  BY <1>2 DEF ClaimableEra, IsRegistered, RunsIn, IsUnregistered
<1>11. Settled(r)'
  <2> HIDE DEF t
  <2> QED
    BY <1>2, <1>4, <1>8, <1>9, <1>10 DEF Settled
<1>12. ASSUME NEW q \in receipts PROVE ~SameClaim(q, r)
  <2> SUFFICES ASSUME SameClaim(q, r) PROVE FALSE
    OBVIOUS
  <2>1. q.role = "staker" /\ q.who = s /\ q.provider = p /\ q.era = e
    BY <1>4 DEF SameClaim
  <2>2. Later(t, e)
    BY <2>1 DEF ClaimsInv, Settled
  <2> QED
    BY <1>2, <2>2, VectorType DEF Later
<1>13. NewClaim(r)
  BY <1>2, <1>5, <1>11, <1>12 DEF NewClaim
<1>14. Unclaimed(p, e)' + t[1].staked <= Unclaimed(p, e)
  <2>1. StakedAt(stakerInfo'[s][p], e) = 0 /\ StakedAt(t, e) = t[1].staked
    BY <1>1, <1>2, ClaimForgetsHead, HeadStake
  <2>2. Unclaimed(p, e)' + StakedAt(t, e) = Unclaimed(p, e)
    BY <1>1, <1>2, <2>1, UnclaimedAfterClaim
  <2>3. Unclaimed(p, e) \in Nat
    BY <1>1, <1>2, UnclaimedTypes
  <2> QED
    BY <2>1, <2>2, <2>3
<1> HIDE DEF t
<1>15. ClaimsInv'
  BY <1>3, <1>4, <1>13, <1>14, PaidClaims
<1> QED
  BY <1>13, <1>15

LEMMA ClaimOperatorClaims ==
    ASSUME ClaimsInv, ErasInv', NEW p \in Providers, NEW e \in 0..MaxEra,
           ClaimOperator(p, e)
    PROVE  /\ ClaimsInv'
           /\ NewClaim(OperatorReceipt(p, e))
<1> PICK r : r = OperatorReceipt(p, e)
  OBVIOUS
<1> DEFINE total == ProviderStakeAt(p, e).total
<1>1. /\ ErasInv /\ IInv /\ IInv' /\ BooksInv' /\ currentEra \in Nat
      /\ IsFiniteSet(receipts)
  BY TypeParts DEF ClaimsInv, ErasInv, BooksInv, IInv, ErasOK
<1>2. /\ e \in Nat /\ ClaimableEra(p, e) /\ e < currentEra
      /\ ~ProviderStakeAt(p, e).provider_reward_claimed
      /\ total > 0
      /\ r \in Receipt /\ Pay(r)
      /\ UNCHANGED <<currentEra, registeredProviders, generalEraInfo>>
  BY <1>1, ClaimOperatorEffects DEF ClaimableEra
<1>3. SameEra
  BY <1>1, ClaimErasStep
<1>4. /\ r.role = "operator" /\ r.provider = p /\ r.era = e
      /\ r.staked = total /\ r.amount = OperatorsPart(p, e)
  BY DEF OperatorReceipt
<1>5. receipts' = receipts \cup {r}
  BY <1>2 DEF Pay
<1>6. ProviderStakeAt(p, e)'.provider_reward_claimed
  <2>1. PICK x \in ProviderStakeInfo :
            RecordBecomes(p, e, x) /\ x.provider_reward_claimed
    BY <1>1, ClaimOperatorEffects
  <2> QED
    BY <1>2, <2>1 DEF RecordBecomes
<1>7. total \in Nat /\ total <= EraInfoAt(e).staked
  BY <1>1, <1>2, TotalWithinEra, StakeInfoType
<1>8. PaidItsShare(r)'
  <2>1. EraInfoAt(e)' = EraInfoAt(e)
    BY <1>2 DEF EraInfoAt, Get
  <2>2. ProviderStakeAt(p, e)'.total = total
    BY <1>2, <1>3 DEF SameEra, PastKept, PastRecordsKept
  <2>3. OperatorsPart(p, e)
            = ShareOf("operator", total, total, EraInfoAt(e).staked, Fund("operator", e))
    BY DEF OperatorsPart, ShareOf, Fund
  <2>4. Fund("operator", e)' = Fund("operator", e)
    BY <2>1 DEF Fund
  <2> HIDE DEF total
  <2> QED
    BY <1>4, <1>7, <2>1, <2>2, <2>3, <2>4 DEF PaidItsShare
<1>9. /\ IsRegistered(p)' /\ RunsIn(p, e)'
  BY <1>2 DEF ClaimableEra, IsRegistered, RunsIn, IsUnregistered
<1>10. Settled(r)'
  BY <1>2, <1>4, <1>6, <1>7, <1>8, <1>9 DEF Settled
<1>11. \A q \in receipts : ~(q.role = "operator" /\ q.provider = p /\ q.era = e)
  BY <1>2 DEF ClaimsInv, Settled
<1>12. NewClaim(r)
  BY <1>2, <1>4, <1>5, <1>10, <1>11 DEF NewClaim, SameClaim
<1>13. StakePaid("operator", p, e) = 0
  BY <1>1, <1>11, NothingPaid
<1>14. r.staked <= ProviderStakeAt(p, e).total
  BY <1>4, <1>7
<1>15. ClaimsInv'
  BY <1>3, <1>4, <1>12, <1>13, <1>14, PaidClaims
<1> QED
  BY <1>12, <1>15

-------------------------------------------------------------------------------
(* The invariant holds through every step *)

(* What the steps other than claims do to the pallet's account.            *)
PotGrows == receipts' = receipts /\ pot'.free >= pot.free

ClaimPaid == \E r : NewClaim(r) /\ SameEra

LEMMA RewardsStepGrows ==
    ASSUME IInv, NEW v \in Nat, AddRewards(v)
    PROVE  pot'.free >= pot.free /\ pot'.free \in Nat
<1>1. pot \in Account /\ pot.free \in Nat
  BY TypeParts DEF IInv, RewardsOK, Account
<1>2. pot' = Deposit(pot, v)
  BY DEF AddRewards
<1> QED
  BY <1>1, <1>2 DEF Deposit, Account

LEMMA OtherSteps ==
    ASSUME IInv, [Next]_vars,
           ~\E s \in Accounts, p \in Providers : ClaimStaker(s, p),
           ~\E p \in Providers, e \in 0..MaxEra : ClaimOperator(p, e)
    PROVE  PotGrows
<1>0. pot.free \in Nat
  BY TypeParts DEF IInv, RewardsOK, Account
<1>1. CASE OnInitialize \/ ForceNewEra \/ UNCHANGED vars
  BY <1>0, <1>1 DEF OnInitialize, ForceNewEra, vars, PotGrows
<1>2. ASSUME NEW s \in Accounts, NEW p \in Providers, NEW v,
             Stake(s, p, v) \/ Unstake(s, p, v)
      PROVE  PotGrows
  BY <1>0, <1>2 DEF Stake, Unstake, rewardVars, PotGrows
<1>3. ASSUME NEW s \in Accounts, NEW p \in Providers,
             WithdrawFromUnregisteredStaker(s, p)
      PROVE  PotGrows
  BY <1>0, <1>3 DEF WithdrawFromUnregisteredStaker, rewardVars, PotGrows
<1>4. ASSUME NEW s \in Accounts, NEW v, WithdrawUnstaked(s) \/ SpendElsewhere(s, v)
      PROVE  PotGrows
  BY <1>0, <1>4 DEF WithdrawUnstaked, SpendElsewhere, rewardVars, PotGrows
<1>5. ASSUME NEW p \in Providers, WithdrawFromUnregisteredOperator(p) \/ Unregister(p)
      PROVE  PotGrows
  BY <1>0, <1>5 DEF WithdrawFromUnregisteredOperator, Unregister, rewardVars, PotGrows
<1>6. ASSUME NEW o \in Accounts, NEW p \in Providers, NEW v,
             Register(o, p, v) \/ RegisterStakeFails(o, p, v)
      PROVE  PotGrows
  BY <1>0, <1>6 DEF Register, RegisterStakeFails, rewardVars, PotGrows
<1>7. ASSUME NEW v \in RewardAmounts, Rewards(v)
      PROVE  PotGrows
  BY <1>7, RewardsStepGrows, DapiStakingAssumption DEF Rewards, PotGrows
<1> QED
  BY <1>1, <1>2, <1>3, <1>4, <1>5, <1>6, <1>7 DEF Next, Calls, RegistryCalls

LEMMA ClaimsStep ==
    ASSUME ClaimsInv, [Next]_vars
    PROVE  ClaimsInv' /\ (PotGrows \/ ClaimPaid)
<1>1. /\ ErasInv /\ IInv /\ ErasInv' /\ BooksInv'
  BY NextEras DEF ClaimsInv, ErasInv, BooksInv
<1>2. ASSUME NEW s \in Accounts, NEW p \in Providers, ClaimStaker(s, p)
      PROVE  ClaimsInv' /\ (PotGrows \/ ClaimPaid)
  <2>1. SameEra
    BY <1>1, <1>2, ClaimErasStep
  <2> QED
    BY <1>1, <1>2, <2>1, ClaimStakerClaims DEF ClaimPaid
<1>3. ASSUME NEW p \in Providers, NEW e \in 0..MaxEra, ClaimOperator(p, e)
      PROVE  ClaimsInv' /\ (PotGrows \/ ClaimPaid)
  <2>1. SameEra
    BY <1>1, <1>3, ClaimErasStep
  <2> QED
    BY <1>1, <1>3, <2>1, ClaimOperatorClaims DEF ClaimPaid
<1>4. CASE /\ ~\E s \in Accounts, p \in Providers : ClaimStaker(s, p)
           /\ ~\E p \in Providers, e \in 0..MaxEra : ClaimOperator(p, e)
  <2>1. PotGrows
    BY <1>1, <1>4, OtherSteps
  <2>2. NewEra \/ SameEra
    BY <1>1, ErasStep
  <2> QED
    BY <1>1, <2>1, <2>2, QuietClaims, NewEraClaims DEF PotGrows
<1> QED
  BY <1>2, <1>3, <1>4

LEMMA NextClaims == ClaimsInv /\ [Next]_vars => ClaimsInv'
  BY ClaimsStep

LEMMA InitClaims == Init => ClaimsInv
<1> SUFFICES ASSUME Init PROVE ClaimsInv
  OBVIOUS
<1>1. receipts = {} /\ currentEra = 0 /\ ErasInv
  BY InitEras DEF Init
<1>2. IsFiniteSet(receipts)
  BY <1>1, FS_EmptySet
<1>3. SharesAddUp
  BY <1>1 DEF SharesAddUp
<1> QED
  BY <1>1, <1>2, <1>3 DEF ClaimsInv

(* What its payment tells of a receipt.                                    *)
LEMMA ReceiptBounds ==
    ASSUME ClaimsInv, NEW r \in receipts
    PROVE  LET total == ProviderStakeAt(r.provider, r.era).total
               all == EraInfoAt(r.era).staked
               fund == Fund(r.role, r.era)
           IN  /\ total \in Nat /\ total > 0 /\ all \in Nat /\ all > 0 /\ fund \in Nat
               /\ FairShare(r.staked, all, fund, r.amount)
               /\ SaturatingSub(r.amount, 1) * (Cut(total, total) * Cut(all, all))
                      <= Cut(r.staked, total) * (Cut(total, all) * fund)
<1> DEFINE total == ProviderStakeAt(r.provider, r.era).total
           all == EraInfoAt(r.era).staked
           fund == Fund(r.role, r.era)
<1>1. IInv /\ Settled(r)
  BY DEF ClaimsInv, ErasInv, BooksInv
<1>2. /\ r.role \in {"staker", "operator"} /\ r.provider \in Providers
      /\ r.staked \in Nat /\ r.staked > 0
  BY <1>1, ReceiptType DEF Settled
<1>3. total \in Nat /\ all \in Nat /\ fund \in Nat
  BY <1>1, <1>2, StakeInfoType, EraInfoType DEF Fund
<1>4. /\ r.staked <= total /\ total <= all
      /\ r.role = "operator" => r.staked = total
      /\ r.amount = ShareOf(r.role, r.staked, total, all, fund)
  BY <1>1 DEF Settled, PaidItsShare
<1> HIDE DEF total, all, fund
<1>5. total > 0 /\ all > 0
  BY <1>2, <1>3, <1>4
<1>6. /\ FairShare(r.staked, all, fund, r.amount)
      /\ SaturatingSub(r.amount, 1) * (Cut(total, total) * Cut(all, all))
             <= Cut(r.staked, total) * (Cut(total, all) * fund)
  BY <1>2, <1>3, <1>4, ShareBounds
<1> QED
  BY <1>3, <1>5, <1>6 DEF total, all, fund

LEMMA FairSharesNow == ClaimsInv => ReceiptsAreFairShares
<1> SUFFICES ASSUME ClaimsInv, NEW r \in receipts
             PROVE  /\ generalEraInfo[r.era] = EraInfoAt(r.era)
                    /\ FairShare(r.staked, EraInfoAt(r.era).staked, Fund(r.role, r.era),
                                 r.amount)
  BY DEF ReceiptsAreFairShares, Fund, FairShare
<1>1. IInv /\ Settled(r)
  BY DEF ClaimsInv, ErasInv, BooksInv
<1>2. r.era \in DOMAIN generalEraInfo
  BY <1>1, ReceiptType DEF IInv, ErasRecorded, Settled
<1>3. generalEraInfo[r.era] = EraInfoAt(r.era)
  BY <1>2 DEF EraInfoAt, Get
<1> QED
  BY <1>3, ReceiptBounds

(* However late and in whichever order claims come, a reward is the share  *)
(* that the stake had of all stakes in its own era, up to the rounding of  *)
(* from_rational, the cutting of large totals included, and of the         *)
(* products: the records an ended era is divided by never change again.    *)
THEOREM ReceiptsAreFair == Spec => []ReceiptsAreFairShares
  BY InitClaims, NextClaims, FairSharesNow, PTL DEF Spec

(* The pot pays for each stake and era at most once: a staker's history    *)
(* moves on from the era, the operator's record of it is marked, and       *)
(* neither is ever undone; and no era from the provider's unregistration   *)
(* on is paid for.                                                         *)
THEOREM NeverPaidTwice == Spec => NoDoublePayment
<1> DEFINE Paid == pot'.free < pot.free =>
                       \E r \in receipts' :
                           /\ \A q \in receipts : ~SameClaim(q, r)
                           /\ IsUnregistered(r.provider) =>
                                  r.era < registeredProviders[r.provider].since
<1>1. ClaimsInv /\ [Next]_vars => Paid
  <2> SUFFICES ASSUME ClaimsInv, [Next]_vars, pot'.free < pot.free
               PROVE  \E r \in receipts' :
                          /\ \A q \in receipts : ~SameClaim(q, r)
                          /\ IsUnregistered(r.provider) =>
                                 r.era < registeredProviders[r.provider].since
    OBVIOUS
  <2>1. IInv /\ ClaimsInv' /\ (PotGrows \/ ClaimPaid)
    BY ClaimsStep DEF ClaimsInv, ErasInv, BooksInv
  <2>2. pot.free \in Nat /\ pot'.free \in Nat
    BY <2>1, TypeParts, TypePartsNext DEF ClaimsInv, ErasInv, BooksInv, IInv, RewardsOK,
       Account
  <2>3. ClaimPaid
    BY <2>1, <2>2 DEF PotGrows
  <2>4. PICK r : NewClaim(r) /\ SameEra
    BY <2>3 DEF ClaimPaid
  <2>5. /\ r \in receipts' /\ r.provider \in Providers /\ r.era \in Nat
        /\ r.era < currentEra
        /\ \A q \in receipts : ~SameClaim(q, r)
        /\ RunsIn(r.provider, r.era)'
    BY <2>4 DEF NewClaim, Settled, SameEra, Receipt
  <2>6. RunsIn(r.provider, r.era)
    BY <2>4, <2>5 DEF SameEra, PastKept, RegistryAdvances
  <2> QED
    BY <2>5, <2>6 DEF RunsIn
<1> HIDE DEF Paid
<1>2. ClaimsInv /\ [Next]_vars => [Paid]_vars
  BY <1>1
<1>3. Spec => [][Paid]_vars
  BY InitClaims, NextClaims, <1>2, PTL DEF Spec
<1> QED
  BY <1>3 DEF Paid, NoDoublePayment

-------------------------------------------------------------------------------
(* The claims of an era together *)

LEMMA StakePaidWithinTotal ==
    ASSUME ClaimsInv, NEW role \in {"staker", "operator"}, NEW p \in Providers,
           NEW e \in Nat, e < currentEra
    PROVE  StakePaid(role, p, e) <= ProviderStakeAt(p, e).total
<1>1. IInv /\ IsFiniteSet(receipts) /\ SharesAddUp /\ currentEra \in Nat
  BY TypeParts DEF ClaimsInv, ErasInv, BooksInv, IInv, ErasOK
<1>2. /\ RunsIn(p, e) =>
             Unclaimed(p, e) + StakePaid("staker", p, e) <= ProviderStakeAt(p, e).total
      /\ StakePaid("operator", p, e) <= ProviderStakeAt(p, e).total
  BY <1>1 DEF SharesAddUp
<1>3. /\ Unclaimed(p, e) \in Nat /\ StakePaid("staker", p, e) \in Nat
      /\ ProviderStakeAt(p, e).total \in Nat
  BY <1>1, UnclaimedTypes, StakePaidTypes, StakeInfoType
<1>4. CASE RunsIn(p, e) \/ role = "operator"
  BY <1>2, <1>3, <1>4
<1>5. CASE ~RunsIn(p, e) /\ role = "staker"
  <2>1. \A r \in receipts : ~(r.role = role /\ r.provider = p /\ r.era = e)
    BY <1>5 DEF ClaimsInv, Settled
  <2>2. StakePaid(role, p, e) = 0
    BY <1>1, <2>1, NothingPaid
  <2> QED
    BY <1>3, <2>2
<1> QED
  BY <1>4, <1>5

(* What a claim was paid, less the unit it may have been rounded up by.    *)
Covered(r) == IF r.amount > 0 THEN r.amount - 1 ELSE 0
CoveredOn(r, role, p, e) ==
    IF r.role = role /\ r.provider = p /\ r.era = e THEN Covered(r) ELSE 0
CoveredIn(r, role, e) == IF r.role = role /\ r.era = e THEN Covered(r) ELSE 0
CoveredBy(role, e) == Sum([r \in receipts |-> CoveredIn(r, role, e)])

LEMMA CoveredTypes ==
    IInv => \A r \in receipts : /\ Covered(r) \in Nat
                                /\ \A role, e : CoveredIn(r, role, e) \in Nat
                                /\ \A role, p, e : CoveredOn(r, role, p, e) \in Nat
  BY ReceiptType DEF CoveredIn, CoveredOn, Covered

LEMMA FundType ==
    ASSUME IInv, NEW role, NEW e
    PROVE  Fund(role, e) \in Nat
  BY EraInfoType DEF Fund

(* The claims on one provider are within the provider's cut share: the cut *)
(* stakes add up to no more than the cut total.                            *)
LEMMA ClaimsWithinShare ==
    ASSUME ClaimsInv, NEW role \in {"staker", "operator"}, NEW p \in Providers,
           NEW e \in Nat, EraInfoAt(e).staked > 0
    PROVE  Sum([r \in receipts |-> CoveredOn(r, role, p, e)])
                   * Cut(EraInfoAt(e).staked, EraInfoAt(e).staked)
               <= Cut(ProviderStakeAt(p, e).total, EraInfoAt(e).staked) * Fund(role, e)
<1> DEFINE T == ProviderStakeAt(p, e).total
           S == EraInfoAt(e).staked
           F == Fund(role, e)
           s == Cut(S, S)
           w == Cut(T, S)
           a == [r \in receipts |-> CoveredOn(r, role, p, e)]
<1>1. IInv /\ IsFiniteSet(receipts)
  BY DEF ClaimsInv, ErasInv, BooksInv
<1>2. T \in Nat /\ S \in Nat /\ F \in Nat
  BY <1>1, StakeInfoType, EraInfoType, FundType
<1>3. s \in Nat /\ w \in Nat
  BY <1>2, CutBounds
<1>4. a \in [receipts -> Nat] /\ \A r \in receipts : a[r] = CoveredOn(r, role, p, e)
  BY <1>1, CoveredTypes
<1>5. CASE \A r \in receipts : ~(r.role = role /\ r.provider = p /\ r.era = e)
  <2>1. \A r \in receipts : a[r] = 0
    BY <1>5 DEF CoveredOn
  <2> HIDE DEF a, s, w, F
  <2>2. Sum(a) = 0
    BY <1>1, <1>4, <2>1, SumZero
  <2>3. Sum(a) * s <= w * F
    BY <1>2, <1>3, <2>2
  <2> QED
    BY <2>3 DEF a, s, w, F
<1>6. ASSUME NEW q \in receipts, q.role = role, q.provider = p, q.era = e
      PROVE  Sum(a) * s <= w * F
  <2> DEFINE f == Factor(T)
             t == Cut(T, T)
             b == [r \in receipts |->
                       IF r.role = role /\ r.provider = p /\ r.era = e
                       THEN Cut(r.staked, T) ELSE 0]
             d == [r \in receipts |-> PaidStake(r, role, p, e)]
  <2>1. T > 0 /\ e < currentEra
    BY <1>6, ReceiptBounds DEF ClaimsInv, Settled
  <2>2. f \in Nat /\ f > 0 /\ t \in Nat /\ t > 0 /\ T + 1 <= t * f + f
    BY <1>2, <2>1, CutBounds
  <2>3. \A r \in receipts : /\ Cut(r.staked, T) \in Nat
                            /\ Cut(r.staked, T) * f <= r.staked
                            /\ r.staked \in Nat
    BY <1>1, <1>2, <2>1, ReceiptType, CutBounds
  <2>4. b \in [receipts -> Nat]
    BY <2>3
  <2>5. d \in [receipts -> Nat] /\ Sum(d) = StakePaid(role, p, e)
    BY <1>1, StakePaidTypes DEF StakePaid
  <2>6. \A r \in receipts : b[r] * f <= d[r] * 1 + 0
    <3> SUFFICES ASSUME NEW r \in receipts PROVE b[r] * f <= d[r]
      BY <2>5
    <3>1. CASE r.role = role /\ r.provider = p /\ r.era = e
      BY <2>3, <3>1 DEF PaidStake
    <3>2. CASE ~(r.role = role /\ r.provider = p /\ r.era = e)
      <4>1. b[r] = 0 /\ d[r] \in Nat
        BY <2>5, <3>2
      <4> HIDE DEF b, d, f
      <4> QED
        BY <2>2, <4>1
    <3> QED
      BY <3>1, <3>2
  <2>7. \A r \in receipts : a[r] * (t * s) <= b[r] * (w * F) + 0
    <3> SUFFICES ASSUME NEW r \in receipts PROVE a[r] * (t * s) <= b[r] * (w * F)
      BY <1>2, <1>3, <2>4
    <3>1. CASE r.role = role /\ r.provider = p /\ r.era = e
      <4>1. a[r] = SaturatingSub(r.amount, 1) /\ b[r] = Cut(r.staked, T)
        BY <1>1, <3>1, ReceiptType DEF CoveredOn, Covered, SaturatingSub
      <4>2. SaturatingSub(r.amount, 1) * (t * s) <= Cut(r.staked, T) * (w * F)
        BY <3>1, ReceiptBounds
      <4> HIDE DEF a, b, t, s, w, F, T, S
      <4> QED
        BY <4>1, <4>2
    <3>2. CASE ~(r.role = role /\ r.provider = p /\ r.era = e)
      <4>1. a[r] = 0 /\ b[r] = 0
        BY <3>2 DEF CoveredOn
      <4> HIDE DEF a, b, t, s, w, F
      <4> QED
        BY <1>2, <1>3, <2>2, <4>1
    <3> QED
      BY <3>1, <3>2
  <2>8. StakePaid(role, p, e) <= T
    BY <2>1, StakePaidWithinTotal
  <2> HIDE DEF a, b, d, f, t, s, w, F, T, S
  <2>9. Sum(a) \in Nat /\ Sum(b) \in Nat /\ Sum(d) \in Nat /\ Cardinality(receipts) \in Nat
    BY <1>1, <1>4, <2>4, <2>5, SumType, FS_CardinalityType
  <2>10. Sum(b) * f <= Sum(d) * 1 + Cardinality(receipts) * 0
    BY <1>1, <2>2, <2>4, <2>5, <2>6, SumLinear
  <2>11. Sum(b) <= t
    <3> SUFFICES ASSUME Sum(b) >= t + 1 PROVE FALSE
      BY <2>2, <2>9
    <3>1. Sum(b) * f >= t * f + f
      BY <2>2, <2>9
    <3>2. Sum(b) * f <= T /\ Sum(b) * f \in Nat /\ t * f \in Nat
      BY <1>2, <2>2, <2>5, <2>8, <2>9, <2>10
    <3> QED
      BY <1>2, <2>2, <3>1, <3>2
  <2> DEFINE g == w * F
             h == t * s
  <2>12. g \in Nat /\ h \in Nat
    BY <1>2, <1>3, <2>2
  <2>13. Sum(a) * h <= Sum(b) * g + Cardinality(receipts) * 0
    <3> HIDE DEF g, h
    <3> QED
      BY <1>1, <1>4, <2>4, <2>7, <2>12, SumLinear DEF g, h
  <2> DEFINE l == Sum(a) * s
  <2>14. l \in Nat /\ Sum(a) * h = l * t
    BY <1>3, <2>2, <2>9
  <2> HIDE DEF g, h, l
  <2>15. Sum(b) * g <= t * g /\ Sum(b) * g \in Nat /\ t * g \in Nat
    BY <2>2, <2>9, <2>11, <2>12
  <2>16. l * t <= g * t /\ l * t \in Nat
    BY <2>2, <2>9, <2>12, <2>13, <2>14, <2>15
  <2>17. l <= g
    BY <2>2, <2>12, <2>14, <2>16
  <2> QED
    BY <2>17 DEF l, g
<1>7. CASE \E q \in receipts : q.role = role /\ q.provider = p /\ q.era = e
  BY <1>6, <1>7
<1> QED
  BY <1>5, <1>7

(* The claims of an era are the claims on each provider.                   *)
LEMMA CoveredByProviders ==
    ASSUME IInv, IsFiniteSet(receipts), NEW role, NEW e,
           NEW cols, cols = [p \in Providers |->
                                 Sum([r \in receipts |-> CoveredOn(r, role, p, e)])]
    PROVE  CoveredBy(role, e) = Sum(cols) /\ cols \in [Providers -> Nat]
<1> DEFINE m == [r \in receipts |-> [p \in Providers |-> CoveredOn(r, role, p, e)]]
           rows == [r \in receipts |-> CoveredIn(r, role, e)]
<1>1. IsFiniteSet(Providers)
  BY FiniteDomains
<1>2. /\ m \in [receipts -> [Providers -> Nat]]
      /\ \A r \in receipts, p \in Providers : m[r][p] = CoveredOn(r, role, p, e)
  BY CoveredTypes
<1>3. /\ rows \in [receipts -> Nat] /\ \A r \in receipts : rows[r] = CoveredIn(r, role, e)
      /\ CoveredBy(role, e) = Sum(rows)
  BY CoveredTypes DEF CoveredBy
<1>4. Columns(m, receipts, Providers) = cols
  <2>1. \A p \in Providers : Column(m, receipts, p)
                                 = [r \in receipts |-> CoveredOn(r, role, p, e)]
    BY DEF Column
  <2> HIDE DEF m
  <2> QED
    BY <2>1 DEF Columns
<1> HIDE DEF m, rows
<1>5. ASSUME NEW r \in receipts PROVE rows[r] = Sum(m[r])
  <2> DEFINE p == r.provider
  <2>1. p \in Providers /\ m[r] \in [Providers -> Nat]
    BY <1>2, ReceiptType
  <2>2. \A q \in Providers \ {p} : m[r][q] = 0
    BY <1>2 DEF CoveredOn
  <2>3. Sum(m[r]) = m[r][p]
    BY <1>1, <2>1, <2>2, SumSingle
  <2>4. m[r][p] = CoveredIn(r, role, e)
    BY <1>2, <2>1 DEF CoveredOn, CoveredIn
  <2> QED
    BY <1>3, <2>3, <2>4
<1>6. Sum(rows) = Sum(Columns(m, receipts, Providers))
      /\ Columns(m, receipts, Providers) \in [Providers -> Nat]
  BY <1>1, <1>2, <1>3, <1>5, SumSwap
<1> QED
  BY <1>3, <1>4, <1>6

(* All claims of a role and an era are covered by the era's fund: the cut  *)
(* totals of the providers add up to no more than the cut total of all.    *)
LEMMA ClaimsWithinFund ==
    ASSUME ClaimsInv, NEW role \in {"staker", "operator"}, NEW e \in Nat
    PROVE  CoveredBy(role, e) <= Fund(role, e) /\ CoveredBy(role, e) \in Nat
<1>1. /\ ErasInv /\ IInv /\ IsFiniteSet(receipts) /\ IsFiniteSet(Providers)
      /\ currentEra \in Nat /\ PastTotals /\ RecordsInRange
  BY FiniteDomains, TypeParts DEF ClaimsInv, ErasInv, BooksInv, Books, IInv, ErasOK
<1> DEFINE a == [r \in receipts |-> CoveredIn(r, role, e)]
           F == Fund(role, e)
           S == EraInfoAt(e).staked
<1>2. a \in [receipts -> Nat] /\ CoveredBy(role, e) = Sum(a)
  BY <1>1, CoveredTypes DEF CoveredBy
<1>3. F \in Nat /\ S \in Nat /\ Sum(a) \in Nat
  <2>1. Sum(a) \in Nat
    <3> HIDE DEF a
    <3> QED
      BY <1>1, <1>2, SumType
  <2> QED
    BY <1>1, <2>1, FundType, EraInfoType
<1>4. CASE \A r \in receipts : ~(r.role = role /\ r.era = e)
  <2>1. \A r \in receipts : a[r] = 0
    BY <1>4 DEF CoveredIn
  <2> HIDE DEF a
  <2>2. Sum(a) = 0
    BY <1>1, <1>2, <2>1, SumZero
  <2> QED
    BY <1>2, <1>3, <2>2
<1>5. ASSUME NEW r \in receipts, r.role = role, r.era = e
      PROVE  CoveredBy(role, e) <= F
  <2> DEFINE c == [p \in Providers |->
                       Sum([q \in receipts |-> CoveredOn(q, role, p, e)])]
             w == [p \in Providers |-> Cut(ProviderStakeAt(p, e).total, S)]
             d == [p \in Providers |-> ProviderStakeAt(p, e).total]
             f == Factor(S)
             s == Cut(S, S)
  <2>1. /\ e < currentEra /\ S > 0 /\ ProviderStakeAt(r.provider, e).total > 0
        /\ r.provider \in Providers
    BY <1>1, <1>5, ReceiptBounds, ReceiptType DEF ClaimsInv, Settled
  <2>2. f \in Nat /\ f > 0 /\ s \in Nat /\ s > 0 /\ S + 1 <= s * f + f
    BY <1>3, <2>1, CutBounds
  <2>3. \A p \in Providers : /\ Cut(ProviderStakeAt(p, e).total, S) \in Nat
                             /\ Cut(ProviderStakeAt(p, e).total, S) * f
                                    <= ProviderStakeAt(p, e).total
                             /\ ProviderStakeAt(p, e).total \in Nat
    BY <1>1, <1>3, <2>1, StakeInfoType, CutBounds
  <2>4. /\ w \in [Providers -> Nat] /\ d \in [Providers -> Nat]
        /\ Sum(d) = EraTotal(e)
        /\ \A p \in Providers : w[p] * f <= d[p] * 1 + 0
    BY <2>3 DEF EraTotal
  <2>5. CoveredBy(role, e) = Sum(c) /\ c \in [Providers -> Nat]
    BY <1>1, CoveredByProviders
  <2>6. \A p \in Providers : c[p] * s <= w[p] * F + 0
    <3> SUFFICES ASSUME NEW p \in Providers PROVE c[p] * s <= w[p] * F + 0
      OBVIOUS
    <3>1. c[p] * s <= w[p] * F
      BY <2>1, ClaimsWithinShare
    <3>2. w[p] \in Nat
      BY <2>4
    <3> HIDE DEF c, s, w, F
    <3> QED
      BY <1>3, <3>1, <3>2
  <2>7. EraTotal(e) <= S
    <3>1. r.era \in DOMAIN providerEraStake[r.provider]
      BY <1>5, <2>1 DEF ProviderStakeAt, Get, NoStake
    <3>2. e \in 1..currentEra
      BY <1>1, <1>5, <2>1, <3>1 DEF RecordsInRange
    <3> QED
      BY <1>1, <2>1, <3>2 DEF PastTotals
  <2> HIDE DEF c, w, d, f, s, F, S
  <2>8. Sum(c) \in Nat /\ Sum(w) \in Nat /\ Sum(d) \in Nat /\ Cardinality(Providers) \in Nat
    BY <1>1, <2>4, <2>5, SumType, FS_CardinalityType
  <2>9. Sum(w) * f <= Sum(d) * 1 + Cardinality(Providers) * 0
    BY <1>1, <2>2, <2>4, SumLinear
  <2>10. Sum(w) <= s
    <3> SUFFICES ASSUME Sum(w) >= s + 1 PROVE FALSE
      BY <2>2, <2>8
    <3>1. Sum(w) * f >= s * f + f
      BY <2>2, <2>8
    <3>2. Sum(w) * f <= S /\ Sum(w) * f \in Nat /\ s * f \in Nat
      BY <1>3, <2>2, <2>4, <2>7, <2>8, <2>9
    <3> QED
      BY <1>3, <2>2, <3>1, <3>2
  <2>11. Sum(c) * s <= Sum(w) * F + Cardinality(Providers) * 0
    BY <1>1, <1>3, <2>2, <2>4, <2>5, <2>6, SumLinear
  <2>12. Sum(w) * F <= s * F /\ Sum(w) * F \in Nat /\ s * F \in Nat
    BY <1>3, <2>2, <2>8, <2>10
  <2>13. Sum(c) * s <= F * s /\ Sum(c) * s \in Nat
    BY <1>3, <2>2, <2>8, <2>11, <2>12
  <2>14. Sum(c) <= F
    BY <1>3, <2>2, <2>8, <2>13
  <2> QED
    BY <2>5, <2>14
<1>6. CASE \E r \in receipts : r.role = role /\ r.era = e
  BY <1>2, <1>3, <1>5, <1>6
<1> QED
  BY <1>4, <1>6

LEMMA AmountType ==
    ASSUME IInv, IsFiniteSet(receipts), NEW C \in SUBSET receipts
    PROVE  AmountOf(C) \in Nat /\ IsFiniteSet(C) /\ Cardinality(C) \in Nat
<1> DEFINE f == [r \in C |-> r.amount]
<1>1. f \in [C -> Nat] /\ AmountOf(C) = Sum(f)
  BY ReceiptType DEF AmountOf
<1>2. IsFiniteSet(C)
  BY FS_Subset
<1> HIDE DEF f
<1> QED
  BY <1>1, <1>2, SumType, FS_CardinalityType

(* Claims are paid what covers them, and a unit each at most.              *)
LEMMA AmountWithinCovered ==
    ASSUME IInv, IsFiniteSet(receipts), NEW C \in SUBSET receipts,
           NEW cover \in [receipts -> Nat], \A r \in C : cover[r] = Covered(r)
    PROVE  AmountOf(C) <= Sum(cover) + Cardinality(C)
<1> DEFINE a == [r \in C |-> r.amount]
           b == Restrict(cover, C)
<1>1. a \in [C -> Nat] /\ AmountOf(C) = Sum(a)
  BY ReceiptType DEF AmountOf
<1>2. b \in [C -> Nat] /\ \A r \in C : b[r] = Covered(r)
  BY DEF Restrict
<1>3. \A r \in C : a[r] * 1 <= b[r] * 1 + 1
  BY <1>2, ReceiptType DEF Covered
<1>4. IsFiniteSet(C) /\ Cardinality(C) \in Nat
  BY AmountType
<1>5. Sum(b) \in Nat /\ Sum(b) <= Sum(cover) /\ Sum(cover) \in Nat
  <2> DEFINE c == Restrict(cover, receipts \ C)
  <2>1. Sum(b) \in Nat /\ Sum(c) \in Nat /\ Sum(cover) = Sum(b) + Sum(c)
    BY SumSplit
  <2> HIDE DEF b, c
  <2> QED
    BY <2>1
<1> HIDE DEF a, b
<1>6. Sum(a) * 1 <= Sum(b) * 1 + Cardinality(C) * 1
  BY <1>1, <1>2, <1>3, <1>4, SumLinear
<1>7. Sum(a) \in Nat
  BY <1>1, <1>4, SumType
<1> QED
  BY <1>1, <1>4, <1>5, <1>6, <1>7

LEMMA PayoutsNow == ClaimsInv => PayoutsWithinRewards
<1> DEFINE Claims(role, e) == {r \in ReceiptsOf(role, e) : r.amount > 0}
<1>1. ASSUME ClaimsInv, NEW e \in Nat, NEW role \in {"staker", "operator"}
      PROVE  AmountOf(Claims(role, e)) <= Fund(role, e) + Cardinality(Claims(role, e))
  <2>1. IInv /\ IsFiniteSet(receipts)
    BY <1>1 DEF ClaimsInv, ErasInv, BooksInv
  <2> DEFINE C == Claims(role, e)
             cover == [r \in receipts |-> CoveredIn(r, role, e)]
  <2>2. C \in SUBSET receipts
    BY DEF ReceiptsOf
  <2>3. cover \in [receipts -> Nat] /\ Sum(cover) = CoveredBy(role, e)
    BY <2>1, CoveredTypes DEF CoveredBy
  <2>4. \A r \in C : cover[r] = Covered(r)
    BY DEF ReceiptsOf, CoveredIn
  <2> HIDE DEF C, cover
  <2>5. AmountOf(C) <= Sum(cover) + Cardinality(C)
    BY <2>1, <2>2, <2>3, <2>4, AmountWithinCovered
  <2>6. CoveredBy(role, e) <= Fund(role, e) /\ CoveredBy(role, e) \in Nat
    BY <1>1, ClaimsWithinFund
  <2>7. AmountOf(C) \in Nat /\ Cardinality(C) \in Nat /\ Fund(role, e) \in Nat
    BY <2>1, <2>2, AmountType, FundType
  <2>8. AmountOf(C) <= Fund(role, e) + Cardinality(C)
    BY <2>3, <2>5, <2>6, <2>7
  <2> QED
    BY <2>8 DEF C
<1> SUFFICES ASSUME ClaimsInv, NEW e \in DOMAIN generalEraInfo
             PROVE  /\ AmountOf(Claims("operator", e))
                           <= Fund("operator", e) + Cardinality(Claims("operator", e))
                    /\ AmountOf(Claims("staker", e))
                           <= Fund("staker", e) + Cardinality(Claims("staker", e))
  BY DEF PayoutsWithinRewards, Fund, EraInfoAt, Get
<1>2. e \in Nat
  BY TypeParts DEF ClaimsInv, ErasInv, BooksInv, IInv, EraInfosOK
<1> HIDE DEF Claims
<1> QED
  BY <1>1, <1>2

(* The claims of an era draw on that era's rewards alone, however many     *)
(* stakers and providers share them: operators and stakers together get    *)
(* what was set aside for them, and at most one unit per claim more.       *)
THEOREM PayoutsAreWithinRewards == Spec => []PayoutsWithinRewards
  BY InitClaims, NextClaims, PayoutsNow, PTL DEF Spec
-------------------------------------------------------------------------------
(* All claims together *)

(* What came in for an ended era, and for all eras.                        *)
Rewarded(e) == Fund("operator", e) + Fund("staker", e)
RewardedTotal == Sum([e \in DOMAIN generalEraInfo |-> Rewarded(e)])

(* The claims that were paid something.                                    *)
Payments == {r \in receipts : r.amount > 0}

LEMMA ErasFinite ==
    BooksInv => /\ IsFiniteSet(DOMAIN generalEraInfo)
                /\ DOMAIN generalEraInfo \subseteq Nat
                /\ [e \in DOMAIN generalEraInfo |-> Rewarded(e)]
                       \in [DOMAIN generalEraInfo -> Nat]
                /\ RewardedTotal \in Nat
<1> SUFFICES ASSUME BooksInv
             PROVE  /\ IsFiniteSet(DOMAIN generalEraInfo)
                    /\ DOMAIN generalEraInfo \subseteq Nat
                    /\ [e \in DOMAIN generalEraInfo |-> Rewarded(e)]
                           \in [DOMAIN generalEraInfo -> Nat]
                    /\ RewardedTotal \in Nat
  OBVIOUS
<1>1. ErasKnown /\ IInv /\ currentEra \in Nat
  BY TypeParts DEF BooksInv, Books, IInv, ErasOK
<1>2. IsFiniteSet(DOMAIN generalEraInfo) /\ DOMAIN generalEraInfo \subseteq Nat
  BY <1>1, FS_Interval, FS_EmptySet DEF ErasKnown
<1>3. \A e : Rewarded(e) \in Nat
  BY <1>1, FundType DEF Rewarded
<1> DEFINE f == [e \in DOMAIN generalEraInfo |-> Rewarded(e)]
<1>4. f \in [DOMAIN generalEraInfo -> Nat] /\ RewardedTotal = Sum(f)
  BY <1>3 DEF RewardedTotal
<1> HIDE DEF f
<1>5. Sum(f) \in Nat
  BY <1>2, <1>4, SumType
<1> QED
  BY <1>2, <1>4, <1>5 DEF f

LEMMA ErasFiniteNext ==
    BooksInv' => /\ IsFiniteSet(DOMAIN generalEraInfo')
                 /\ [e \in DOMAIN generalEraInfo' |-> Rewarded(e)']
                        \in [DOMAIN generalEraInfo' -> Nat]
                 /\ RewardedTotal' \in Nat
<1> DEFINE Types == /\ IsFiniteSet(DOMAIN generalEraInfo)
                    /\ [e \in DOMAIN generalEraInfo |-> Rewarded(e)]
                           \in [DOMAIN generalEraInfo -> Nat]
                    /\ RewardedTotal \in Nat
<1>1. BooksInv => Types
  BY ErasFinite
<1> HIDE DEF Types
<1>2. BooksInv' => Types'
  BY <1>1, PTL
<1> QED
  BY <1>2 DEF Types

(* All that was paid is within all that came in, but for the rounding.     *)
LEMMA PaidWithinRewarded ==
    ASSUME ClaimsInv
    PROVE  AmountOf(receipts) <= RewardedTotal + Cardinality(Payments)
<1> DEFINE D == DOMAIN generalEraInfo
           m == [r \in receipts |-> [e \in D |-> IF r.era = e THEN Covered(r) ELSE 0]]
           rows == [r \in receipts |-> Covered(r)]
           cols == Columns(m, receipts, D)
           funds == [e \in D |-> Rewarded(e)]
<1>1. /\ IInv /\ IsFiniteSet(receipts) /\ BooksInv
      /\ IsFiniteSet(D) /\ D \subseteq Nat
      /\ funds \in [D -> Nat] /\ RewardedTotal = Sum(funds) /\ RewardedTotal \in Nat
  BY ErasFinite DEF ClaimsInv, ErasInv, BooksInv, RewardedTotal
<1>2. \A r \in receipts : r.era \in D
  BY <1>1, ReceiptType DEF ClaimsInv, Settled, IInv, ErasRecorded
<1>3. rows \in [receipts -> Nat] /\ \A r \in receipts : rows[r] = Covered(r)
  BY <1>1, CoveredTypes
<1>4. /\ m \in [receipts -> [D -> Nat]]
      /\ \A r \in receipts, e \in D : m[r][e] = IF r.era = e THEN Covered(r) ELSE 0
  BY <1>1, CoveredTypes
<1>5. \A e \in D : funds[e] = Rewarded(e)
  OBVIOUS
<1> HIDE DEF m, rows, funds, D
<1>6. ASSUME NEW r \in receipts PROVE rows[r] = Sum(m[r])
  <2> DEFINE e == r.era
             row == m[r]
  <2>1. e \in D /\ row \in [D -> Nat] /\ row[e] = Covered(r)
    BY <1>2, <1>4
  <2>2. \A k \in D \ {e} : row[k] = 0
    BY <1>4
  <2> HIDE DEF e, row
  <2>3. Sum(row) = row[e]
    BY <1>1, <2>1, <2>2, SumSingle
  <2> QED
    BY <1>3, <2>1, <2>3 DEF row
<1>7. Sum(rows) = Sum(cols) /\ cols \in [D -> Nat]
  <2>1. rows \in [receipts -> Nat] /\ \A r \in receipts : rows[r] = Sum(m[r])
    BY <1>3, <1>6
  <2>2. IsFiniteSet(receipts) /\ IsFiniteSet(D) /\ m \in [receipts -> [D -> Nat]]
    BY <1>1, <1>4
  <2> QED
    BY <2>1, <2>2, SumSwap
<1>8. ASSUME NEW e \in D PROVE cols[e] <= funds[e]
  <2> DEFINE col == Column(m, receipts, e)
             f == [r \in receipts |-> CoveredIn(r, "operator", e)]
             g == [r \in receipts |-> CoveredIn(r, "staker", e)]
  <2>1. cols[e] = Sum(col)
    BY DEF Columns
  <2>2. /\ col \in [receipts -> Nat] /\ f \in [receipts -> Nat] /\ g \in [receipts -> Nat]
    BY <1>1, <1>4, CoveredTypes DEF Column
  <2>3. \A r \in receipts : col[r] = f[r] + g[r]
    <3> SUFFICES ASSUME NEW r \in receipts PROVE col[r] = f[r] + g[r]
      OBVIOUS
    <3>1. /\ r.role \in {"staker", "operator"} /\ Covered(r) \in Nat
          /\ col[r] = IF r.era = e THEN Covered(r) ELSE 0
          /\ f[r] = CoveredIn(r, "operator", e) /\ g[r] = CoveredIn(r, "staker", e)
      BY <1>1, <1>4, ReceiptType, CoveredTypes DEF Column
    <3> HIDE DEF col, f, g
    <3> QED
      BY <3>1 DEF CoveredIn
  <2>4. Sum(f) = CoveredBy("operator", e) /\ Sum(g) = CoveredBy("staker", e)
    BY DEF CoveredBy
  <2> HIDE DEF col, f, g
  <2>5. Sum(col) = Sum(f) + Sum(g)
    BY <1>1, <2>2, <2>3, SumAdd
  <2>6. /\ CoveredBy("operator", e) <= Fund("operator", e)
        /\ CoveredBy("staker", e) <= Fund("staker", e)
        /\ CoveredBy("operator", e) \in Nat /\ CoveredBy("staker", e) \in Nat
        /\ Fund("operator", e) \in Nat /\ Fund("staker", e) \in Nat
    BY <1>1, ClaimsWithinFund, FundType
  <2> QED
    BY <1>5, <2>1, <2>4, <2>5, <2>6 DEF Rewarded
<1> HIDE DEF cols
<1>9. Sum(cols) <= Sum(funds)
  BY <1>1, <1>7, <1>8, SumMonotonic
<1>10. Payments \in SUBSET receipts
  BY DEF Payments
<1>11. AmountOf(Payments) <= Sum(rows) + Cardinality(Payments)
  BY <1>1, <1>3, <1>10, AmountWithinCovered
<1>12. AmountOf(receipts) = AmountOf(Payments)
  <2> DEFINE f == [r \in receipts |-> r.amount]
             g == Restrict(f, receipts \ Payments)
             T == receipts \ Payments
  <2>1. f \in [receipts -> Nat] /\ AmountOf(receipts) = Sum(f)
    BY <1>1, ReceiptType DEF AmountOf
  <2>2. Restrict(f, Payments) = [r \in Payments |-> r.amount]
    BY <1>10 DEF Restrict
  <2>0. \A r \in T : r \in receipts /\ f[r] = 0
    BY <1>1, ReceiptType DEF Payments
  <2>3. IsFiniteSet(T) /\ g \in [T -> Nat] /\ \A r \in T : g[r] = 0
    <3>1. IsFiniteSet(T)
      BY <1>1, FS_Difference
    <3> HIDE DEF f
    <3> QED
      BY <2>0, <3>1 DEF Restrict
  <2>4. Sum(Restrict(f, Payments)) = AmountOf(Payments)
    BY <2>2 DEF AmountOf
  <2> HIDE DEF f
  <2>5. Sum(f) = Sum(Restrict(f, Payments)) + Sum(g)
    BY <1>1, <1>10, <2>1, SumSplit
  <2> HIDE DEF g, T
  <2>6. Sum(g) = 0
    BY <2>3, SumZero
  <2>7. AmountOf(Payments) \in Nat
    BY <1>1, <1>10, AmountType
  <2> QED
    BY <2>1, <2>4, <2>5, <2>6, <2>7
<1>13. AmountOf(Payments) \in Nat /\ Cardinality(Payments) \in Nat /\ Sum(rows) \in Nat
  BY <1>1, <1>3, <1>10, AmountType, SumType
<1> QED
  BY <1>1, <1>7, <1>9, <1>11, <1>12, <1>13

-------------------------------------------------------------------------------
(* The money in the pallet's account *)

Gathered == accumulator.operators + accumulator.stakers
Received == RewardedTotal + Gathered

(* The era in progress has no rewards yet, and nothing is reserved in the  *)
(* pallet's account.                                                       *)
MoneyInv ==
    /\ ClaimsInv
    /\ EraInfoAt(currentEra).rewards = NoReward
    /\ pot.reserved = 0

(* What a step does to the money: it stays where it is, at most set aside  *)
(* for the era that ends; some comes in; or a claim is paid.               *)
MoneyStays ==
    /\ Received' = Received
    /\ UNCHANGED <<receipts, pot>>
    /\ currentEra' = currentEra => accumulator' = accumulator

MoneyComes(v) ==
    /\ Received' = Received + v
    /\ Gathered' = Gathered + v
    /\ UNCHANGED <<receipts, currentEra>>
    /\ pot' = Deposit(pot, v)

MoneyPaid(r) ==
    /\ RewardedTotal' = RewardedTotal
    /\ UNCHANGED <<accumulator, currentEra>>
    /\ NewClaim(r)
    /\ r.amount \in 0..pot.free
    /\ \/ r.amount > 0 /\ pot' = Withdraw(pot, r.amount)
       \/ r.amount = 0 /\ pot' = pot

RewardsKept ==
    /\ DOMAIN generalEraInfo' = DOMAIN generalEraInfo
    /\ \A e \in DOMAIN generalEraInfo :
           generalEraInfo'[e].rewards = generalEraInfo[e].rewards

LEMMA SameRewardedTotal ==
    ASSUME RewardsKept
    PROVE  /\ RewardedTotal' = RewardedTotal
           /\ \A e : EraInfoAt(e)'.rewards = EraInfoAt(e).rewards
<1>1. \A e : EraInfoAt(e)'.rewards = EraInfoAt(e).rewards
  BY DEF RewardsKept, EraInfoAt, Get
<1>2. \A e : Rewarded(e)' = Rewarded(e)
  BY <1>1 DEF Rewarded, Fund
<1> QED
  BY <1>1, <1>2 DEF RewardedTotal, RewardsKept

LEMMA UpdateKeepsRewards ==
    ASSUME NEW x, NEW y, UpdateEraInfo(x, y) \/ UNCHANGED generalEraInfo
    PROVE  RewardsKept
  BY DEF UpdateEraInfo, RewardsKept

LEMMA RewardsKeptNext ==
    ASSUME MoneyInv, RewardsKept, currentEra' = currentEra
    PROVE  /\ RewardedTotal' = RewardedTotal
           /\ (EraInfoAt(currentEra).rewards)' = NoReward
<1>1. EraInfoAt(currentEra)'.rewards = EraInfoAt(currentEra).rewards
  BY SameRewardedTotal
<1> QED
  BY <1>1, SameRewardedTotal DEF MoneyInv, EraInfoAt

LEMMA MoneyTypes ==
    IInv => /\ pot \in Account /\ pot.free \in Nat /\ pot.reserved \in Nat
            /\ accumulator \in RewardInfo /\ Gathered \in Nat
            /\ accumulator.operators \in Nat /\ accumulator.stakers \in Nat
  BY TypeParts DEF IInv, RewardsOK, Account, RewardInfo, Gathered

LEMMA PartOfWithin ==
    ASSUME NEW k \in Nat, k <= Accuracy, NEW x \in Nat
    PROVE  PartOf(k, x) \in Nat /\ PartOf(k, x) <= x
<1> DEFINE A == Accuracy
           r == PartOf(k, x)
<1>1. A \in Nat /\ A > 0
  BY AccuracyAssumption
<1>2. r \in Nat /\ 2 * (r * A) <= 2 * (k * x) + A
  BY PartOfBounds
<1> HIDE DEF A, r
<1>3. k * x <= A * x
  BY <1>1 DEF A
<1>4. ASSUME r >= x + 1 PROVE FALSE
  <2>1. r * A >= (x + 1) * A
    BY <1>1, <1>2, <1>4
  <2>2. (x + 1) * A = A * x + A
    BY <1>1
  <2> DEFINE kx == k * x
             Ax == A * x
             rA == r * A
  <2>3. kx \in Nat /\ Ax \in Nat /\ rA \in Nat
    BY <1>1, <1>2
  <2>4. 2 * rA <= 2 * kx + A /\ kx <= Ax /\ rA >= Ax + A
    BY <1>2, <1>3, <2>1, <2>2
  <2> HIDE DEF kx, Ax, rA
  <2> QED
    BY <1>1, <2>3, <2>4
<1>5. r <= x
  BY <1>2, <1>4
<1> QED
  BY <1>2, <1>5 DEF r

(* Splitting rewards between operators and stakers loses none of them.     *)
LEMMA IncomeComes ==
    ASSUME MoneyInv, NEW v \in Nat, AddRewards(v),
           UNCHANGED <<generalEraInfo, currentEra, receipts>>
    PROVE  MoneyComes(v)
<1>1. IInv /\ BooksInv
  BY DEF MoneyInv, ClaimsInv, ErasInv, BooksInv
<1>2. RewardsKept
  BY DEF RewardsKept
<1>3. RewardedTotal' = RewardedTotal /\ RewardedTotal \in Nat
  BY <1>1, <1>2, SameRewardedTotal, ErasFinite
<1> DEFINE operators == PartOf(OperatorRewardPercentage, v)
           stakers == SaturatingSub(v, operators)
<1>4. operators \in Nat /\ operators <= v
  BY PartOfWithin, DapiStakingAssumption
<1>5. /\ accumulator' = [operators |-> accumulator.operators + operators,
                         stakers |-> accumulator.stakers + stakers]
      /\ pot' = Deposit(pot, v)
  BY DEF AddRewards
<1>6. accumulator'.operators = accumulator.operators + operators
      /\ accumulator'.stakers = accumulator.stakers + stakers
  BY <1>5
<1> HIDE DEF operators
<1>7. stakers = v - operators
  BY <1>4 DEF SaturatingSub
<1> HIDE DEF stakers
<1>8. Gathered' = Gathered + v
  BY <1>1, <1>4, <1>6, <1>7, MoneyTypes DEF Gathered
<1> QED
  BY <1>1, <1>3, <1>5, <1>8, MoneyTypes DEF MoneyComes, Received

(* What came in during an era is set aside when it ends.                   *)
LEMMA NewEraSetsAside ==
    ASSUME MoneyInv, BooksInv', NewEra
    PROVE  MoneyStays /\ (EraInfoAt(currentEra).rewards)' = NoReward
<1>1. /\ IInv /\ BooksInv /\ currentEra \in Nat /\ EraBegins
      /\ UNCHANGED <<pot, receipts>>
  BY TypeParts DEF MoneyInv, ClaimsInv, ErasInv, BooksInv, IInv, ErasOK, NewEra
<1>0. PICK c : c = currentEra
  OBVIOUS
<1> DEFINE D == DOMAIN generalEraInfo
           T == DOMAIN generalEraInfo'
           old == [e \in D |-> Rewarded(e)]
           pad == [e \in T |-> Rewarded(e)]
           new == [e \in T |-> Rewarded(e)']
<1>2. /\ currentEra' = c + 1 /\ accumulator' = NoReward
      /\ T = D \cup {c, c + 1} /\ D \subseteq T /\ c \in T
      /\ generalEraInfo'[c + 1].rewards = NoReward
      /\ generalEraInfo'[c].rewards = accumulator
      /\ \A e \in D : e \notin {c, c + 1} => generalEraInfo'[e] = generalEraInfo[e]
  BY <1>0, <1>1 DEF EraBegins
<1>3. /\ IsFiniteSet(T) /\ new \in [T -> Nat] /\ RewardedTotal' = Sum(new)
      /\ RewardedTotal' \in Nat
  BY ErasFiniteNext DEF RewardedTotal
<1>4. /\ old \in [D -> Nat] /\ RewardedTotal = Sum(old) /\ RewardedTotal \in Nat
  BY <1>1, ErasFinite DEF RewardedTotal
<1>5. /\ pad \in [T -> Nat]
      /\ \A e \in D : pad[e] = old[e]
      /\ \A e \in T \ D : pad[e] = 0
      /\ pad[c] = 0
  <2>1. \A e : Rewarded(e) \in Nat
    BY <1>1, FundType DEF Rewarded
  <2>2. \A e \in T \ D : Rewarded(e) = 0
    BY DEF Rewarded, Fund, EraInfoAt, Get, NoReward
  <2>3. Rewarded(c) = 0
    BY <1>0 DEF MoneyInv, Rewarded, Fund, NoReward
  <2> QED
    BY <1>2, <2>1, <2>2, <2>3
<1>6. ASSUME NEW e \in T \ {c} PROVE new[e] = pad[e]
  <2>1. CASE e = c + 1
    <3>1. e \notin D
      BY <1>0, <1>1, <2>1 DEF BooksInv, Books, ErasKnown
    <3>2. Rewarded(e)' = 0
      BY <1>2, <2>1 DEF Rewarded, Fund, EraInfoAt, Get, NoReward
    <3> QED
      BY <1>5, <3>1, <3>2
  <2>2. CASE e # c + 1
    <3>1. e \in D /\ generalEraInfo'[e] = generalEraInfo[e]
      BY <1>2, <2>2
    <3>2. EraInfoAt(e)' = EraInfoAt(e)
      BY <1>2, <3>1 DEF EraInfoAt, Get
    <3> QED
      BY <3>2 DEF Rewarded, Fund
  <2> QED
    BY <2>1, <2>2
<1>7. new[c] = Gathered
  <2>1. EraInfoAt(c)'.rewards = accumulator
    BY <1>2 DEF EraInfoAt, Get
  <2> QED
    BY <1>2, <2>1 DEF Rewarded, Fund, Gathered
<1>8. Gathered' = 0 /\ Gathered \in Nat
  BY <1>1, <1>2, MoneyTypes DEF Gathered, NoReward
<1>9. (EraInfoAt(currentEra).rewards)' = NoReward
  BY <1>0, <1>1, <1>2 DEF EraInfoAt, Get
<1>10. D \in SUBSET T /\ c \in T
  BY <1>2
<1> HIDE DEF D, T, old, pad, new
<1>11. Sum(pad) = Sum(old)
  BY <1>3, <1>4, <1>5, <1>10, SumPad
<1>12. Sum(new) + pad[c] = Sum(pad) + new[c]
  BY <1>3, <1>5, <1>6, <1>10, SumUpdate
<1>13. RewardedTotal' = RewardedTotal + Gathered
  BY <1>3, <1>4, <1>5, <1>7, <1>8, <1>11, <1>12
<1> QED
  BY <1>0, <1>1, <1>2, <1>4, <1>8, <1>9, <1>13 DEF MoneyStays, Received

MoneyMoves ==
    \/ MoneyStays
    \/ \E v \in Nat : MoneyComes(v)
    \/ \E r : MoneyPaid(r)

LEMMA QuietMoney ==
    ASSUME MoneyInv, ClaimsInv', RewardsKept,
           UNCHANGED <<currentEra, accumulator, pot, receipts>>
    PROVE  MoneyInv' /\ MoneyStays
<1>1. RewardedTotal' = RewardedTotal /\ (EraInfoAt(currentEra).rewards)' = NoReward
  BY RewardsKeptNext
<1> QED
  BY <1>1 DEF MoneyInv, MoneyStays, Received, Gathered

LEMMA IncomeMoney ==
    ASSUME MoneyInv, ClaimsInv', NEW v \in Nat, AddRewards(v),
           UNCHANGED <<generalEraInfo, currentEra, receipts>>
    PROVE  MoneyInv' /\ MoneyComes(v)
<1>1. MoneyComes(v)
  BY IncomeComes
<1>2. (EraInfoAt(currentEra).rewards)' = NoReward
  BY RewardsKeptNext DEF RewardsKept
<1>3. pot \in Account /\ pot.reserved = 0 /\ pot' = Deposit(pot, v)
  BY MoneyTypes DEF MoneyInv, ClaimsInv, ErasInv, BooksInv, AddRewards
<1>4. pot'.reserved = 0
  BY <1>3 DEF Deposit, Account
<1> QED
  BY <1>1, <1>2, <1>4 DEF MoneyInv

LEMMA ClaimMoney ==
    ASSUME MoneyInv, ClaimsInv', NEW r, r \in Receipt, NewClaim(r), Pay(r),
           UNCHANGED <<generalEraInfo, currentEra, accumulator>>
    PROVE  MoneyInv' /\ MoneyPaid(r)
<1>1. RewardedTotal' = RewardedTotal /\ (EraInfoAt(currentEra).rewards)' = NoReward
  BY RewardsKeptNext DEF RewardsKept
<1>2. pot \in Account /\ pot.reserved = 0 /\ r.amount \in Nat
  BY MoneyTypes DEF MoneyInv, ClaimsInv, ErasInv, BooksInv, Receipt
<1>3. /\ r.amount \in 0..pot.free
      /\ \/ r.amount > 0 /\ pot' = Withdraw(pot, r.amount)
         \/ r.amount = 0 /\ pot' = pot
  BY <1>2 DEF Pay, Account
<1>4. pot'.reserved = 0
  BY <1>2, <1>3 DEF Withdraw, Spend, NewAccount, Account
<1> QED
  BY <1>1, <1>3, <1>4 DEF MoneyInv, MoneyPaid

MoneyUntouched == RewardsKept /\ UNCHANGED <<currentEra, accumulator, pot, receipts>>

LEMMA StakingUntouched ==
    ASSUME NEW s, NEW p, NEW v,
           \/ Stake(s, p, v) \/ Unstake(s, p, v)
           \/ Register(s, p, v) \/ RegisterStakeFails(s, p, v)
    PROVE  MoneyUntouched
<1>1. CASE Stake(s, p, v)
  <2>1. StakeWrites(s, p, account[s], v) /\ UNCHANGED <<eraVars, rewardVars>>
    BY <1>1 DEF Stake
  <2>2. RewardsKept
    BY <2>1, UpdateKeepsRewards DEF StakeWrites
  <2> QED
    BY <2>1, <2>2 DEF MoneyUntouched, eraVars, rewardVars
<1>2. CASE Unstake(s, p, v)
  <2> DEFINE n == UnstakeAmount(s, p, v)
  <2>1. /\ UpdateEraInfo(SaturatingSub(EraInfoAt(currentEra).staked, n),
                         EraInfoAt(currentEra).locked)
        /\ UNCHANGED <<eraVars, rewardVars>>
    BY <1>2 DEF Unstake
  <2> HIDE DEF n
  <2>2. RewardsKept
    BY <2>1, UpdateKeepsRewards
  <2> QED
    BY <2>1, <2>2 DEF MoneyUntouched, eraVars, rewardVars
<1>3. CASE Register(s, p, v)
  <2> DEFINE b == Reserve(account[s], RegisterDeposit)
             d == SaturatingSub(v, RegisterDeposit)
  <2>1. StakeWrites(s, p, b, d) /\ UNCHANGED <<eraVars, rewardVars>>
    BY <1>3 DEF Register
  <2> HIDE DEF b, d
  <2>2. RewardsKept
    BY <2>1, UpdateKeepsRewards DEF StakeWrites
  <2> QED
    BY <2>1, <2>2 DEF MoneyUntouched, eraVars, rewardVars
<1>4. CASE RegisterStakeFails(s, p, v)
  <2>1. UNCHANGED <<eraVars, rewardVars, generalEraInfo>>
    BY <1>4 DEF RegisterStakeFails
  <2> QED
    BY <2>1, UpdateKeepsRewards DEF MoneyUntouched, eraVars, rewardVars
<1> QED
  BY <1>1, <1>2, <1>3, <1>4

LEMMA WithdrawalsUntouched ==
    ASSUME NEW s, NEW p,
           \/ WithdrawUnstaked(s) \/ WithdrawFromUnregisteredStaker(s, p)
           \/ WithdrawFromUnregisteredOperator(p) \/ Unregister(p)
    PROVE  MoneyUntouched
<1>1. CASE WithdrawUnstaked(s)
  <2> DEFINE n == ChunkSum(Restrict(ledger[s].unbonding, Unlocked(s)))
  <2>1. /\ UpdateEraInfo(EraInfoAt(currentEra).staked,
                         SaturatingSub(EraInfoAt(currentEra).locked, n))
        /\ UNCHANGED <<eraVars, rewardVars>>
    BY <1>1 DEF WithdrawUnstaked
  <2> HIDE DEF n
  <2>2. RewardsKept
    BY <2>1, UpdateKeepsRewards
  <2> QED
    BY <2>1, <2>2 DEF MoneyUntouched, eraVars, rewardVars
<1>2. CASE WithdrawFromUnregisteredStaker(s, p)
  <2> DEFINE n == LatestStakedValue(stakerInfo[s][p])
  <2>1. /\ UpdateEraInfo(StakedAfterWithdraw(n),
                         SaturatingSub(EraInfoAt(currentEra).locked, n))
        /\ UNCHANGED <<eraVars, rewardVars>>
    BY <1>2 DEF WithdrawFromUnregisteredStaker
  <2> HIDE DEF n
  <2>2. RewardsKept
    BY <2>1, UpdateKeepsRewards
  <2> QED
    BY <2>1, <2>2 DEF MoneyUntouched, eraVars, rewardVars
<1>3. CASE WithdrawFromUnregisteredOperator(p) \/ Unregister(p)
  <2>1. UNCHANGED <<eraVars, rewardVars, generalEraInfo>>
    BY <1>3 DEF WithdrawFromUnregisteredOperator, Unregister
  <2> QED
    BY <2>1, UpdateKeepsRewards DEF MoneyUntouched, eraVars, rewardVars
<1> QED
  BY <1>1, <1>2, <1>3

LEMMA OthersUntouched ==
    ASSUME NEW s, NEW v, ForceNewEra \/ SpendElsewhere(s, v) \/ UNCHANGED vars
    PROVE  MoneyUntouched
<1>1. UNCHANGED <<generalEraInfo, currentEra, accumulator, pot, receipts>>
  BY DEF ForceNewEra, SpendElsewhere, vars, eraVars, rewardVars
<1> QED
  BY <1>1, UpdateKeepsRewards DEF MoneyUntouched

LEMMA NewEraMoney ==
    ASSUME MoneyInv, ClaimsInv', NewEra
    PROVE  MoneyInv' /\ MoneyStays
<1>1. BooksInv'
  BY DEF ClaimsInv, ErasInv
<1>2. MoneyStays /\ (EraInfoAt(currentEra).rewards)' = NoReward
  BY <1>1, NewEraSetsAside
<1> QED
  BY <1>2 DEF MoneyInv, MoneyStays

(* The ways in which a step treats the money of the pallet.                *)
IncomeArrives(v) ==
    AddRewards(v) /\ UNCHANGED <<generalEraInfo, currentEra, receipts>>

ClaimIsPaid(r) ==
    NewClaim(r) /\ Pay(r) /\ UNCHANGED <<generalEraInfo, currentEra, accumulator>>

MoneyHandled ==
    \/ MoneyUntouched
    \/ NewEra
    \/ \E v \in Nat : IncomeArrives(v)
    \/ \E r \in Receipt : ClaimIsPaid(r)

LEMMA NextHandlesMoney ==
    ASSUME ClaimsInv, [Next]_vars
    PROVE  MoneyHandled
<1>1. ClaimsInv /\ ErasInv /\ IInv /\ ClaimsInv' /\ ErasInv' /\ BooksInv'
  BY NextClaims DEF ClaimsInv, ErasInv, BooksInv
<1>2. MoneyUntouched => MoneyHandled
  BY DEF MoneyHandled
<1>3. CASE OnInitialize
  <2>1. NewEra \/ UNCHANGED <<currentEra, generalEraInfo, accumulator, pot, receipts>>
    BY <1>1, <1>3, OnInitializeEffects DEF NewEra
  <2> QED
    BY <1>2, <2>1, UpdateKeepsRewards DEF MoneyUntouched, MoneyHandled
<1>4. ASSUME NEW s \in Accounts, NEW p \in Providers, ClaimStaker(s, p)
      PROVE  MoneyHandled
  <2>1. PICK r : r = StakerReceipt(s, p)
    OBVIOUS
  <2>2. NewClaim(r)
    BY <1>1, <1>4, <2>1, ClaimStakerClaims
  <2>3. Pay(r) /\ UNCHANGED <<generalEraInfo, currentEra, accumulator>>
    BY <1>4, <2>1 DEF ClaimStaker, StakerReceipt, Claimable, eraVars
  <2> QED
    BY <2>2, <2>3 DEF MoneyHandled, ClaimIsPaid, NewClaim
<1>5. ASSUME NEW p \in Providers, NEW e \in 0..MaxEra, ClaimOperator(p, e)
      PROVE  MoneyHandled
  <2>1. PICK r : r = OperatorReceipt(p, e)
    OBVIOUS
  <2>2. NewClaim(r)
    BY <1>1, <1>5, <2>1, ClaimOperatorClaims
  <2>3. Pay(r) /\ UNCHANGED <<generalEraInfo, currentEra, accumulator>>
    BY <1>5, <2>1 DEF ClaimOperator, OperatorReceipt, eraVars
  <2> QED
    BY <2>2, <2>3 DEF MoneyHandled, ClaimIsPaid, NewClaim
<1>6. ASSUME NEW v \in RewardAmounts, Rewards(v)
      PROVE  MoneyHandled
  <2>1. v \in Nat /\ IncomeArrives(v)
    BY <1>6, DapiStakingAssumption DEF Rewards, IncomeArrives, eraVars
  <2> QED
    BY <2>1 DEF MoneyHandled
<1>7. ASSUME NEW s \in Accounts, NEW p \in Providers, NEW v,
             \/ Stake(s, p, v) \/ Unstake(s, p, v)
             \/ Register(s, p, v) \/ RegisterStakeFails(s, p, v)
      PROVE  MoneyHandled
  BY <1>2, <1>7, StakingUntouched
<1>8. ASSUME NEW s \in Accounts, NEW p \in Providers, WithdrawFromUnregisteredStaker(s, p)
      PROVE  MoneyHandled
  BY <1>2, <1>8, WithdrawalsUntouched
<1>9. ASSUME NEW s \in Accounts, WithdrawUnstaked(s)
      PROVE  MoneyHandled
  BY <1>2, <1>9, WithdrawalsUntouched
<1>10. ASSUME NEW p \in Providers, WithdrawFromUnregisteredOperator(p) \/ Unregister(p)
       PROVE  MoneyHandled
  BY <1>2, <1>10, WithdrawalsUntouched
<1>11. ASSUME NEW s \in Accounts, NEW v, SpendElsewhere(s, v)
       PROVE  MoneyHandled
  BY <1>2, <1>11, OthersUntouched
<1>12. CASE ForceNewEra \/ UNCHANGED vars
  BY <1>2, <1>12, OthersUntouched
<1> QED
  BY <1>3, <1>4, <1>5, <1>6, <1>7, <1>8, <1>9, <1>10, <1>11, <1>12
     DEF Next, Calls, RegistryCalls

LEMMA OnInitializeMoney ==
    ASSUME MoneyInv, OnInitialize
    PROVE  MoneyStays
<1>1. ClaimsInv /\ IInv /\ ClaimsInv'
  BY NextClaims DEF MoneyInv, ClaimsInv, ErasInv, BooksInv, Next
<1>2. NewEra \/ UNCHANGED <<currentEra, generalEraInfo, accumulator, pot, receipts>>
  BY <1>1, OnInitializeEffects DEF NewEra
<1> QED
  BY <1>1, <1>2, NewEraMoney, QuietMoney, UpdateKeepsRewards

LEMMA HandledMoney ==
    ASSUME MoneyInv, ClaimsInv', MoneyHandled
    PROVE  MoneyInv' /\ MoneyMoves
<1>1. CASE MoneyUntouched
  BY <1>1, QuietMoney DEF MoneyUntouched, MoneyMoves
<1>2. CASE NewEra
  BY <1>2, NewEraMoney DEF MoneyMoves
<1>3. ASSUME NEW v \in Nat, IncomeArrives(v)
      PROVE  MoneyInv' /\ MoneyMoves
  BY <1>3, IncomeMoney DEF IncomeArrives, MoneyMoves
<1>4. ASSUME NEW r \in Receipt, ClaimIsPaid(r)
      PROVE  MoneyInv' /\ MoneyMoves
  BY <1>4, ClaimMoney DEF ClaimIsPaid, MoneyMoves
<1> QED
  BY <1>1, <1>2, <1>3, <1>4 DEF MoneyHandled

LEMMA MoneyStep ==
    ASSUME MoneyInv, [Next]_vars
    PROVE  MoneyInv' /\ MoneyHandled /\ MoneyMoves
<1>1. ClaimsInv /\ ClaimsInv'
  BY NextClaims DEF MoneyInv
<1> QED
  BY <1>1, NextHandlesMoney, HandledMoney

(* PotMatchesRewards, in these terms.                                      *)
PotWhole == pot.free + AmountOf(receipts) = Received

LEMMA PotWholeMatches == BooksInv => (PotMatchesRewards <=> PotWhole)
<1> SUFFICES ASSUME BooksInv PROVE PotMatchesRewards <=> PotWhole
  OBVIOUS
<1>1. IInv /\ RewardedTotal \in Nat
  BY ErasFinite DEF BooksInv
<1>2. \A e \in DOMAIN generalEraInfo :
          generalEraInfo[e].rewards.operators + generalEraInfo[e].rewards.stakers
              = Rewarded(e)
  BY DEF Rewarded, Fund, EraInfoAt, Get
<1>3. [e \in DOMAIN generalEraInfo |-> generalEraInfo[e].rewards.operators
                                           + generalEraInfo[e].rewards.stakers]
          = [e \in DOMAIN generalEraInfo |-> Rewarded(e)]
  BY <1>2
<1>4. RewardedTotal + accumulator.operators + accumulator.stakers = Received
  BY <1>1, MoneyTypes DEF Received, Gathered
<1> QED
  BY <1>3, <1>4 DEF PotMatchesRewards, PotWhole, RewardedTotal

LEMMA AmountGrows ==
    ASSUME IInv, IsFiniteSet(receipts), NEW r, NewClaim(r)
    PROVE  /\ AmountOf(receipts)' = AmountOf(receipts) + r.amount
           /\ AmountOf(receipts) \in Nat /\ r.amount \in Nat
<1> DEFINE f == [q \in receipts |-> q.amount]
           g == [q \in receipts' |-> q.amount]
<1>1. r \in Receipt /\ receipts' = receipts \cup {r} /\ r \notin receipts
  BY NewClaimIsNew DEF NewClaim
<1>2. f \in [receipts -> Nat] /\ AmountOf(receipts) = Sum(f)
  BY ReceiptType DEF AmountOf
<1>3. /\ g \in [receipts \cup {r} -> Nat] /\ AmountOf(receipts)' = Sum(g)
      /\ \A q \in receipts : g[q] = f[q]
      /\ g[r] = r.amount
  BY <1>1, <1>2, ReceiptType DEF AmountOf, Receipt
<1> HIDE DEF f, g
<1>4. Extends(g, f, receipts, r)
  BY <1>1, <1>2, <1>3 DEF Extends
<1>5. Sum(g) = Sum(f) + g[r] /\ Sum(f) \in Nat /\ g[r] \in Nat
  BY <1>4, SumExtends
<1> QED
  BY <1>2, <1>3, <1>5

(* No part of what moves is burned.                                        *)
NoneBurned ==
    /\ \A v \in Nat : MoneyComes(v) => pot'.free = pot.free + v
    /\ \A r : MoneyPaid(r) => pot'.free = pot.free - r.amount

LEMMA PotStaysWhole ==
    ASSUME MoneyInv, PotWhole, MoneyMoves, NoneBurned
    PROVE  PotWhole'
<1>1. /\ IInv /\ IsFiniteSet(receipts) /\ RewardedTotal \in Nat
      /\ pot.free \in Nat /\ Gathered \in Nat
  BY MoneyTypes, ErasFinite DEF MoneyInv, ClaimsInv, ErasInv, BooksInv
<1>2. CASE MoneyStays
  BY <1>2 DEF MoneyStays, PotWhole
<1>3. ASSUME NEW v \in Nat, MoneyComes(v)
      PROVE  PotWhole'
  <2>1. AmountOf(receipts)' = AmountOf(receipts) /\ AmountOf(receipts) \in Nat
    BY <1>1, <1>3, AmountType DEF MoneyComes
  <2>2. pot'.free = pot.free + v /\ Received' = Received + v
    BY <1>3 DEF NoneBurned, MoneyComes
  <2> QED
    BY <1>1, <2>1, <2>2 DEF PotWhole
<1>4. ASSUME NEW r, MoneyPaid(r)
      PROVE  PotWhole'
  <2>1. /\ AmountOf(receipts)' = AmountOf(receipts) + r.amount
        /\ AmountOf(receipts) \in Nat /\ r.amount \in Nat
    BY <1>1, <1>4, AmountGrows DEF MoneyPaid
  <2>2. pot'.free = pot.free - r.amount /\ r.amount <= pot.free
    BY <1>1, <1>4, <2>1 DEF NoneBurned, MoneyPaid
  <2>3. Received' = Received
    BY <1>4 DEF MoneyPaid, Received, Gathered
  <2> QED
    BY <1>1, <2>1, <2>2, <2>3 DEF PotWhole
<1> QED
  BY <1>2, <1>3, <1>4 DEF MoneyMoves

LEMMA InitMoney == Init => MoneyInv /\ PotWhole
<1> SUFFICES ASSUME Init PROVE MoneyInv /\ PotWhole
  OBVIOUS
<1>1. ClaimsInv /\ BooksInv /\ RewardedTotal \in Nat
  BY InitClaims, ErasFinite DEF ClaimsInv, ErasInv
<1>2. /\ pot = NewAccount(0) /\ accumulator = NoReward /\ receipts = {}
      /\ DOMAIN generalEraInfo = {} /\ currentEra = 0
  BY DEF Init
<1>3. EraInfoAt(currentEra).rewards = NoReward
  BY <1>2 DEF EraInfoAt, Get
<1> DEFINE f == [e \in DOMAIN generalEraInfo |-> Rewarded(e)]
           g == [r \in receipts |-> r.amount]
<1>4. f \in [{} -> Nat] /\ g \in [{} -> Nat]
      /\ RewardedTotal = Sum(f) /\ AmountOf(receipts) = Sum(g)
  BY <1>2 DEF RewardedTotal, AmountOf
<1> HIDE DEF f, g
<1>5. Sum(f) = 0 /\ Sum(g) = 0
  BY <1>4, FS_EmptySet, SumZero
<1>6. pot.free = 0 /\ pot.reserved = 0
  BY <1>2 DEF NewAccount
<1>7. Gathered = 0
  BY <1>2 DEF Gathered, NoReward
<1> QED
  BY <1>1, <1>3, <1>4, <1>5, <1>6, <1>7 DEF MoneyInv, PotWhole, Received

-------------------------------------------------------------------------------
(* The pool of rewards *)

Funds == {"operators", "stakers"}

LEMMA TwoFunds ==
    ASSUME NEW a \in RewardInfo
    PROVE  a \in [Funds -> Nat] /\ Sum(a) = a.operators + a.stakers
<1>0. IsFiniteSet(Funds)
  <2>1. IsFiniteSet({"operators"}) /\ {"operators"} \cup {"stakers"} = Funds
    BY FS_Singleton DEF Funds
  <2> QED
    BY <2>1, FS_AddElement
<1>1. a \in [Funds -> Nat]
  BY DEF RewardInfo, Funds
<1> DEFINE b == Restrict(a, Funds \ {"stakers"})
<1>2. Sum(a) = a["stakers"] + Sum(b) /\ Sum(b) \in Nat /\ a["stakers"] \in Nat
  BY <1>0, <1>1, SumRemove DEF Funds
<1>3. b \in [{"operators"} -> Nat] /\ b["operators"] = a["operators"]
  BY <1>1 DEF Restrict, Funds
<1> HIDE DEF b
<1>4. Sum(b) = a["operators"]
  BY <1>3, SumOfOne
<1> QED
  BY <1>1, <1>2, <1>4

LEMMA PoolSum ==
    ASSUME NEW f
    PROVE  Pool!Sum(f) = Sum(f)
  BY DEF Pool!Sum, Sum, Pool!MapThenSumSet, MapThenSumSet, Pool!MapThenFoldSet, MapThenFoldSet

LEMMA PoolCardinality ==
    ASSUME NEW S
    PROVE  Pool!Cardinality(S) = Cardinality(S)
  BY DEF Pool!Cardinality, Cardinality

LEMMA PoolFunds == Pool!Funds = Funds
  BY DEF Pool!Funds, Funds

(* A claim is paid once, and dust does not stay in the pallet's account.   *)
UniqueClaims == \A q, r \in receipts : SameClaim(q, r) => q = r
PotAlive == pot.free = 0 \/ pot.free >= ExistentialDeposit

PoolInv == MoneyInv /\ UniqueClaims /\ PotAlive

LEMMA PoolInit == Init => PoolInv /\ Pool!Init
<1> SUFFICES ASSUME Init PROVE PoolInv /\ Pool!Init
  OBVIOUS
<1>1. MoneyInv
  BY InitMoney
<1>2. /\ receipts = {} /\ pot.free = 0 /\ currentEra = 0
      /\ accumulator = NoReward /\ DOMAIN generalEraInfo = {}
  BY DEF Init, NewAccount
<1>3. NoReward = [f \in Funds |-> 0]
  BY DEF NoReward, Funds
<1>4. SetAside = [e \in {} |-> accumulator]
  BY <1>2 DEF SetAside
<1> QED
  BY <1>1, <1>2, <1>3, <1>4, PoolFunds
     DEF PoolInv, UniqueClaims, PotAlive, Pool!Init

LEMMA PoolStays ==
    ASSUME MoneyUntouched
    PROVE  UNCHANGED Pool!vars
<1>1. SetAside' = SetAside
  BY DEF MoneyUntouched, RewardsKept, SetAside
<1> QED
  BY <1>1 DEF MoneyUntouched, Pool!vars, ClaimOf

LEMMA PoolEndsEra ==
    ASSUME BooksInv, NewEra
    PROVE  Pool!EndEra
<1>1. currentEra \in Nat /\ ErasKnown /\ EraBegins /\ UNCHANGED <<pot, receipts>>
  BY TypeParts DEF BooksInv, Books, IInv, ErasOK, NewEra
<1>2. PICK c \in Nat : c = currentEra
  BY <1>1
<1>3. /\ currentEra' = c + 1 /\ accumulator' = NoReward
      /\ DOMAIN generalEraInfo' = DOMAIN generalEraInfo \cup {c, c + 1}
      /\ generalEraInfo'[c].rewards = accumulator
      /\ \A e \in DOMAIN generalEraInfo : e \notin {c, c + 1} =>
             generalEraInfo'[e] = generalEraInfo[e]
  BY <1>1, <1>2 DEF EraBegins
<1> DEFINE D == {e \in DOMAIN generalEraInfo : e < c}
           E == {e \in DOMAIN generalEraInfo' : e < c + 1}
           new == [e \in D \cup {c} |-> IF e = c THEN accumulator ELSE SetAside[e]]
<1>4. DOMAIN generalEraInfo \subseteq Nat
  BY <1>1, <1>2 DEF ErasKnown
<1>5. E = D \cup {c} /\ c \notin D
  BY <1>3, <1>4
<1>6. SetAside = [e \in D |-> generalEraInfo[e].rewards]
  BY <1>2 DEF SetAside
<1>7. SetAside' = [e \in E |-> generalEraInfo'[e].rewards]
  BY <1>3 DEF SetAside
<1>8. \A e \in E : generalEraInfo'[e].rewards = IF e = c THEN accumulator ELSE SetAside[e]
  <2> SUFFICES ASSUME NEW e \in E, e # c
               PROVE  generalEraInfo'[e].rewards = SetAside[e]
    BY <1>3
  <2>1. e \in D /\ e \in DOMAIN generalEraInfo /\ e \notin {c, c + 1}
    BY <1>4, <1>5
  <2> QED
    BY <1>3, <1>6, <2>1
<1> HIDE DEF E, D
<1>9. SetAside' = new
  BY <1>5, <1>7, <1>8
<1>10. DOMAIN SetAside = D
  BY <1>6
<1>11. NoReward = [f \in Funds |-> 0]
  BY DEF NoReward, Funds
<1> QED
  BY <1>1, <1>2, <1>3, <1>9, <1>10, <1>11, PoolFunds DEF Pool!EndEra, ClaimOf

LEMMA PoolIncome ==
    ASSUME PoolInv, NEW v \in Nat, IncomeArrives(v), MoneyInv'
    PROVE  Pool!Arrive /\ PotAlive'
<1>0. IInv /\ IInv'
  BY DEF PoolInv, MoneyInv, ClaimsInv, ErasInv, BooksInv
<1>1. /\ pot \in Account /\ pot.free \in Nat /\ pot.reserved = 0
      /\ accumulator \in RewardInfo /\ ExistentialDeposit \in Nat
  BY <1>0, MoneyTypes, ExistentialDepositAssumption DEF PoolInv, MoneyInv
<1>2. accumulator' \in RewardInfo
  BY <1>0, TypePartsNext DEF IInv, RewardsOK
<1> DEFINE operators == PartOf(OperatorRewardPercentage, v)
           stakers == SaturatingSub(v, operators)
<1>3. operators \in Nat /\ operators <= v
  BY PartOfWithin, DapiStakingAssumption
<1>4. /\ accumulator'.operators = accumulator.operators + operators
      /\ accumulator'.stakers = accumulator.stakers + stakers
      /\ pot' = Deposit(pot, v)
      /\ UNCHANGED <<generalEraInfo, currentEra, receipts>>
  BY DEF IncomeArrives, AddRewards
<1> HIDE DEF operators
<1>5. stakers = v - operators /\ stakers \in Nat
  BY <1>3 DEF SaturatingSub
<1> HIDE DEF stakers
<1>6. /\ accumulator \in [Funds -> Nat]
      /\ Sum(accumulator) = accumulator.operators + accumulator.stakers
  BY <1>1, TwoFunds
<1>7. /\ accumulator' \in [Funds -> Nat]
      /\ Sum(accumulator') = accumulator'.operators + accumulator'.stakers
  BY <1>2, TwoFunds
<1>8. /\ accumulator.operators \in Nat /\ accumulator.stakers \in Nat
  BY <1>1 DEF RewardInfo
<1>9. \A f \in Funds : accumulator'[f] >= accumulator[f]
  BY <1>3, <1>4, <1>5, <1>8 DEF Funds
<1>10. Sum(accumulator') - Sum(accumulator) = v
  BY <1>3, <1>4, <1>5, <1>6, <1>7, <1>8
<1>11. pot'.free = Pool!Kept(pot.free + v) /\ PotAlive'
  <2>1. CASE pot.free = 0 /\ v < ExistentialDeposit
    <3>1. pot' = pot
      BY <1>1, <1>4, <2>1 DEF Deposit
    <3> QED
      BY <1>1, <2>1, <3>1 DEF Pool!Kept, PotAlive
  <2>2. CASE ~(pot.free = 0 /\ v < ExistentialDeposit)
    <3>1. pot'.free = pot.free + v
      BY <1>1, <1>4, <2>2 DEF Deposit, Account
    <3>2. pot.free + v >= ExistentialDeposit
      BY <1>1, <2>2 DEF PoolInv, PotAlive
    <3> QED
      BY <1>1, <3>1, <3>2 DEF Pool!Kept, PotAlive
  <2> QED
    BY <2>1, <2>2
<1>12. SetAside' = SetAside
  BY <1>4 DEF SetAside
<1> QED
  BY <1>4, <1>7, <1>9, <1>10, <1>11, <1>12, PoolFunds, PoolSum DEF Pool!Arrive, ClaimOf


FundOf(role) == IF role = "staker" THEN "stakers" ELSE "operators"

LEMMA ClaimsAreDistinct ==
    ASSUME IInv, UniqueClaims, NEW q \in receipts, NEW r \in receipts,
           ClaimOf(q) = ClaimOf(r)
    PROVE  q = r
<1>1. q.role \in {"staker", "operator"} /\ r.role \in {"staker", "operator"}
  BY ReceiptType
<1>2. /\ ClaimOf(q).fund = ClaimOf(r).fund /\ ClaimOf(q).claim = ClaimOf(r).claim
      /\ ClaimOf(q).era = ClaimOf(r).era
  OBVIOUS
<1>3. FundOf(q.role) = FundOf(r.role)
  BY <1>2 DEF ClaimOf, FundOf
<1>4. q.role = r.role
  BY <1>1, <1>3 DEF FundOf
<1>5. <<q.who, q.provider>> = <<r.who, r.provider>> /\ q.era = r.era
  BY <1>2 DEF ClaimOf
<1> QED
  BY <1>4, <1>5 DEF UniqueClaims, SameClaim

(* The pool sees the same claims, of the same number and amount.           *)
LEMMA SameClaimsInPool ==
    ASSUME IInv, IsFiniteSet(receipts), UniqueClaims, NEW C \in SUBSET receipts
    PROVE  LET P == {ClaimOf(r) : r \in C}
           IN  /\ IsFiniteSet(P) /\ Cardinality(P) = Cardinality(C)
               /\ Sum([c \in P |-> c.amount]) = AmountOf(C)
<1> DEFINE P == {ClaimOf(r) : r \in C}
           h == [r \in C |-> ClaimOf(r)]
           f == [r \in C |-> r.amount]
           g == [c \in P |-> c.amount]
<1>1. IsFiniteSet(C)
  BY FS_Subset
<1>2. h \in [C -> P] /\ \A y \in P : \E x \in C : h[x] = y
  OBVIOUS
<1>3. \A x, z \in C : h[x] = h[z] => x = z
  BY ClaimsAreDistinct
<1>4. f \in [C -> Nat] /\ AmountOf(C) = Sum(f)
  BY ReceiptType DEF AmountOf
<1>5. \A r \in C : ClaimOf(r).amount = r.amount /\ r.amount \in Nat
  BY ReceiptType DEF ClaimOf
<1>6. g \in [P -> Nat] /\ \A x \in C : f[x] = g[h[x]]
  BY <1>5
<1> HIDE DEF f, g, h, P
<1>7. h \in Bijection(C, P)
  BY <1>2, <1>3 DEF Bijection, Injection, IsInjective, Surjection
<1>8. IsFiniteSet(P) /\ Cardinality(P) = Cardinality(C)
  BY <1>1, <1>7, FS_Bijection DEF ExistsBijection
<1>9. Sum(f) = Sum(g)
  <2>1. Renames(h, C, f, P, g)
    BY <1>2, <1>3, <1>6 DEF Renames
  <2> QED
    BY <1>1, <1>4, <1>6, <1>8, <2>1, SumRename
<1> QED
  BY <1>4, <1>8, <1>9 DEF g, P

(* What the pool asks of the claims on a fund of an ended era.             *)
PoolPayoutsWithin ==
    \A role \in {"staker", "operator"}, e \in DOMAIN generalEraInfo :
        Sum([c \in Pool!PaidFrom(FundOf(role), e) |-> c.amount])
            <= generalEraInfo[e].rewards[FundOf(role)]
                   + Cardinality(Pool!PaidFrom(FundOf(role), e))

LEMMA PoolPayouts == ClaimsInv /\ UniqueClaims => PoolPayoutsWithin
<1> SUFFICES ASSUME ClaimsInv, UniqueClaims,
                    NEW role \in {"staker", "operator"}, NEW e \in DOMAIN generalEraInfo
             PROVE  Sum([c \in Pool!PaidFrom(FundOf(role), e) |-> c.amount])
                        <= generalEraInfo[e].rewards[FundOf(role)]
                               + Cardinality(Pool!PaidFrom(FundOf(role), e))
  BY DEF PoolPayoutsWithin
<1> DEFINE C == {r \in ReceiptsOf(role, e) : r.amount > 0}
<1>1. IInv /\ IsFiniteSet(receipts) /\ C \in SUBSET receipts
  BY DEF ClaimsInv, ErasInv, BooksInv, ReceiptsOf
<1>2. AmountOf(C) <= generalEraInfo[e].rewards[FundOf(role)] + Cardinality(C)
  BY PayoutsNow DEF PayoutsWithinRewards, FundOf
<1>3. Pool!PaidFrom(FundOf(role), e) = {ClaimOf(r) : r \in C}
  <2>1. \A r \in receipts : /\ ClaimOf(r).fund = FundOf(r.role)
                            /\ ClaimOf(r).era = r.era /\ ClaimOf(r).amount = r.amount
    BY DEF ClaimOf, FundOf
  <2>2. \A r \in receipts : FundOf(r.role) = FundOf(role) <=> r.role = role
    BY <1>1, ReceiptType DEF FundOf
  <2> HIDE DEF ClaimOf, FundOf
  <2> QED
    BY <2>1, <2>2 DEF Pool!PaidFrom, ReceiptsOf
<1> HIDE DEF C
<1> QED
  BY <1>1, <1>2, <1>3, SameClaimsInPool

LEMMA PoolPays ==
    ASSUME PoolInv, NEW r \in Receipt, ClaimIsPaid(r), MoneyInv'
    PROVE  /\ UniqueClaims' /\ PotAlive'
           /\ FundOf(r.role) \in Pool!Funds /\ r.era \in DOMAIN SetAside
           /\ Pool!Pay(FundOf(r.role), <<r.who, r.provider>>, r.era)
<1>1. /\ ClaimsInv /\ ClaimsInv' /\ IInv /\ MoneyInv /\ MoneyPaid(r)
      /\ UniqueClaims /\ PotAlive
  BY ClaimMoney DEF PoolInv, MoneyInv, ClaimsInv, ErasInv, BooksInv, ClaimIsPaid
<1>2. /\ receipts' = receipts \cup {r} /\ \A q \in receipts : ~SameClaim(q, r)
      /\ r.role \in {"staker", "operator"} /\ r.era \in Nat /\ r.amount \in Nat
      /\ UNCHANGED <<generalEraInfo, currentEra, accumulator>>
  BY DEF ClaimIsPaid, NewClaim, Receipt
<1>3. UniqueClaims'
  BY <1>1, <1>2 DEF UniqueClaims, SameClaim
<1>4. /\ r.amount \in 0..pot.free
      /\ pot'.free = Pool!Kept(pot.free - r.amount) /\ PotAlive'
  <2>1. /\ pot \in Account /\ pot.free \in Nat /\ pot.reserved = 0
        /\ ExistentialDeposit \in Nat
    BY <1>1, MoneyTypes, ExistentialDepositAssumption DEF MoneyInv
  <2>2. r.amount \in 0..pot.free
    BY <1>1 DEF MoneyPaid
  <2>3. CASE r.amount > 0 /\ pot' = Withdraw(pot, r.amount)
    <3>1. CASE pot.free - r.amount < ExistentialDeposit
      BY <2>1, <2>2, <2>3, <3>1 DEF Withdraw, NewAccount, Pool!Kept, PotAlive
    <3>2. CASE ~(pot.free - r.amount < ExistentialDeposit)
      <4>1. pot'.free = pot.free - r.amount
        BY <2>1, <2>2, <2>3, <3>2 DEF Withdraw, Spend, Account
      <4> QED
        BY <2>1, <2>2, <3>2, <4>1 DEF Pool!Kept, PotAlive
    <3> QED
      BY <2>2, <3>1, <3>2
  <2>4. CASE r.amount = 0 /\ pot' = pot
    BY <1>1, <2>1, <2>4 DEF Pool!Kept, PotAlive
  <2> QED
    BY <1>1, <2>2, <2>3, <2>4 DEF MoneyPaid
<1>5. r.era < currentEra /\ r.era \in DOMAIN generalEraInfo
  <2>1. r.era < currentEra' /\ currentEra \in Nat
    BY <1>1, TypeParts DEF ClaimIsPaid, NewClaim, Settled, IInv, ErasOK
  <2> QED
    BY <1>1, <1>2, <2>1 DEF ClaimsInv, ErasInv, BooksInv, Books, ErasKnown
<1>6. /\ r.era \in DOMAIN SetAside
      /\ SetAside[r.era] = generalEraInfo[r.era].rewards
      /\ SetAside' = SetAside
  BY <1>2, <1>5 DEF SetAside
<1>7. PoolPayoutsWithin'
  <2>1. ClaimsInv' /\ UniqueClaims' => PoolPayoutsWithin'
    BY PoolPayouts, PTL
  <2> QED
    BY <1>1, <1>3, <2>1
<1>8. FundOf(r.role) \in Pool!Funds
  BY PoolFunds DEF FundOf, Funds
<1>9. \A c \in {ClaimOf(q) : q \in receipts} :
          <<c.fund, c.claim, c.era>> # <<FundOf(r.role), <<r.who, r.provider>>, r.era>>
  <2> SUFFICES ASSUME NEW q \in receipts,
                      <<ClaimOf(q).fund, ClaimOf(q).claim, ClaimOf(q).era>>
                          = <<FundOf(r.role), <<r.who, r.provider>>, r.era>>
               PROVE  SameClaim(q, r)
    BY <1>2
  <2>1. FundOf(q.role) = FundOf(r.role) /\ q.role \in {"staker", "operator"}
    BY <1>1, ReceiptType DEF ClaimOf, FundOf
  <2>2. q.role = r.role
    BY <1>2, <2>1 DEF FundOf
  <2> QED
    BY <2>2 DEF ClaimOf, SameClaim
<1>10. {ClaimOf(q) : q \in receipts'} = {ClaimOf(q) : q \in receipts} \cup {ClaimOf(r)}
  BY <1>2
<1>11. ClaimOf(r) = [fund |-> FundOf(r.role), claim |-> <<r.who, r.provider>>,
                     era |-> r.era, amount |-> r.amount]
  BY DEF ClaimOf, FundOf
<1>12. Sum([c \in Pool!PaidFrom(FundOf(r.role), r.era)' |-> c.amount])
           <= SetAside[r.era][FundOf(r.role)]
                  + Cardinality(Pool!PaidFrom(FundOf(r.role), r.era)')
  BY <1>2, <1>5, <1>6, <1>7 DEF PoolPayoutsWithin
<1>13. Pool!Sum([c \in Pool!PaidFrom(FundOf(r.role), r.era)' |-> c.amount])
           <= SetAside[r.era][FundOf(r.role)]
                  + Cardinality(Pool!PaidFrom(FundOf(r.role), r.era)')
  BY <1>12, PoolSum
<1>14. \E amount \in 0..pot.free :
           /\ {ClaimOf(q) : q \in receipts'} =
                  {ClaimOf(q) : q \in receipts}
                      \cup {[fund |-> FundOf(r.role), claim |-> <<r.who, r.provider>>,
                             era |-> r.era, amount |-> amount]}
           /\ pot'.free = Pool!Kept(pot.free - amount)
  BY <1>4, <1>10, <1>11
<1> QED
  BY <1>2, <1>3, <1>4, <1>6, <1>8, <1>9, <1>13, <1>14, PoolCardinality DEF Pool!Pay


LEMMA PoolKept ==
    ASSUME PoolInv, UNCHANGED <<pot, receipts>>
    PROVE  UniqueClaims' /\ PotAlive'
  BY DEF PoolInv, UniqueClaims, PotAlive, SameClaim

LEMMA PoolStep ==
    ASSUME PoolInv, MoneyInv', MoneyHandled
    PROVE  PoolInv' /\ [Pool!Next]_(Pool!vars)
<1>1. BooksInv
  BY DEF PoolInv, MoneyInv, ClaimsInv, ErasInv
<1>2. CASE MoneyUntouched
  BY <1>2, PoolStays, PoolKept DEF PoolInv, MoneyUntouched
<1>3. CASE NewEra
  BY <1>1, <1>3, PoolEndsEra, PoolKept DEF PoolInv, NewEra, Pool!Next
<1>4. ASSUME NEW v \in Nat, IncomeArrives(v)
      PROVE  PoolInv' /\ [Pool!Next]_(Pool!vars)
  <2>1. UniqueClaims'
    BY <1>4 DEF PoolInv, UniqueClaims, SameClaim, IncomeArrives
  <2> QED
    BY <1>4, <2>1, PoolIncome DEF PoolInv, Pool!Next
<1>5. ASSUME NEW r \in Receipt, ClaimIsPaid(r)
      PROVE  PoolInv' /\ [Pool!Next]_(Pool!vars)
  <2> DEFINE claimsOn == [operators |-> Accounts \X Providers,
                          stakers |-> Accounts \X Providers]
  <2>1. <<r.who, r.provider>> \in claimsOn[FundOf(r.role)]
    BY DEF Receipt, FundOf
  <2>2. Pool!Next
    BY <1>5, <2>1, PoolPays DEF Pool!Next
  <2> QED
    BY <1>5, <2>2, PoolPays DEF PoolInv
<1> QED
  BY <1>2, <1>3, <1>4, <1>5 DEF MoneyHandled

(* The pallet implements a pool of rewards, whatever the existential       *)
(* deposit: every step of the pallet is one of the pool's steps, or leaves *)
(* the money alone.  What comes in is counted in one era, what was set     *)
(* aside for an ended era never changes, each claim is paid once, from its *)
(* own era's fund, and the pallet's account holds the rest but for dust.   *)
THEOREM PoolImplemented == Spec => ImplementsPool
<1>1. PoolInv /\ [Next]_vars => PoolInv' /\ [Pool!Next]_(Pool!vars)
  BY MoneyStep, PoolStep DEF PoolInv
<1> QED
  BY <1>1, PoolInit, PTL DEF Spec, ImplementsPool, Pool!Spec
===============================================================================
