------------------------------ MODULE DomainLemmas ------------------------------
(***************************************************************************)
(* What the pure functions of the domain promise for every input: the      *)
(* rounding to cents, the prices of DomainMath, the market hours and the   *)
(* engagement tiers.                                                       *)
(***************************************************************************)
EXTENDS DomainMath, MarketHours, Engagement, FiniteSetTheorems, TLAPS

-----------------------------------------------------------------------------
(* Rounding. *)

(* Division with remainder, in the form the other lemmas need. *)
LEMMA Division ==
    ASSUME NEW n \in Int, NEW d \in Nat \ {0}
    PROVE  /\ n \div d \in Int /\ n % d \in 0..(d - 1)
           /\ n = d * (n \div d) + (n % d)
OBVIOUS

LEMMA QuantiseInt ==
    ASSUME NEW n \in Int, NEW d \in Nat \ {0}
    PROVE  Quantise(n, d) \in Int
BY Division DEF Quantise

(* Rounding does not leave an interval of whole cents. *)
LEMMA QuantiseAtLeast ==
    ASSUME NEW n \in Int, NEW d \in Nat \ {0}, NEW k \in Int, n >= k * d
    PROVE  Quantise(n, d) >= k
BY Division DEF Quantise

LEMMA QuantiseAtMost ==
    ASSUME NEW n \in Int, NEW d \in Nat \ {0}, NEW k \in Int, n <= k * d
    PROVE  Quantise(n, d) <= k
BY Division DEF Quantise

LEMMA QuantiseNat ==
    ASSUME NEW n \in Nat, NEW d \in Nat \ {0}
    PROVE  Quantise(n, d) \in Nat
BY QuantiseInt, QuantiseAtLeast

(* Rounding keeps the order of two amounts. *)
LEMMA QuantiseGrows ==
    ASSUME NEW n \in Int, NEW d \in Nat \ {0}, NEW m \in Int, NEW e \in Nat \ {0},
           n * e <= m * d
    PROVE  Quantise(n, d) <= Quantise(m, e)
<1> DEFINE k == Quantise(n, d)
           p == n \div d
           s == n % d
           q == m \div e
           r == m % e
<1>1. /\ p \in Int /\ s \in 0..(d - 1) /\ n = d * p + s
      /\ q \in Int /\ r \in 0..(e - 1) /\ m = e * q + r
  BY Division
<1>2. /\ k = IF 2 * s < d \/ (2 * s = d /\ p % 2 = 0) THEN p ELSE p + 1
      /\ Quantise(m, e) = IF 2 * r < e \/ (2 * r = e /\ q % 2 = 0) THEN q ELSE q + 1
  BY DEF Quantise
<1> HIDE DEF k, p, s, q, r
(* The half below the rounded amount: it is not above n/d, so not above m/e. *)
<1>3. k \in Int /\ 2 * (k * d) - d <= 2 * n /\ (2 * (k * d) - d = 2 * n => k % 2 = 0)
  <2>1. CASE k = p /\ (2 * s < d \/ (2 * s = d /\ p % 2 = 0))
    <3>1. k * d = d * p
      BY <1>1, <2>1
    <3> QED BY <1>1, <2>1, <3>1
  <2>2. CASE k = p + 1 /\ 2 * s >= d /\ (2 * s = d => p % 2 # 0)
    <3>1. k * d = d * p + d
      BY <1>1, <2>2
    <3>2. p % 2 # 0 => (p + 1) % 2 = 0
      BY <1>1
    <3> QED BY <1>1, <2>2, <3>1, <3>2
  <2> QED BY <1>1, <1>2, <2>1, <2>2
<1>4. 2 * (k * e) - e <= 2 * m /\ (2 * (k * e) - e = 2 * m => k % 2 = 0)
  <2> DEFINE half == 2 * k - 1
  <2>1. half \in Int /\ 2 * (k * d) - d = half * d /\ 2 * (k * e) - e = half * e
    BY <1>3
  <2> HIDE DEF half
  <2>2. (half * d) * e <= (2 * n) * e
    BY <1>3, <2>1
  <2>3. (2 * n) * e <= (2 * m) * d
    OBVIOUS
  <2>4. (half * e) * d <= (2 * m) * d
    BY <2>1, <2>2, <2>3
  <2>5. half * e <= 2 * m
    BY <2>1, <2>4
  <2>6. half * e = 2 * m => half * d = 2 * n
    <3>1. half * e = 2 * m => (half * d) * e >= (2 * n) * e
      BY <2>1, <2>3
    <3> QED BY <2>1, <2>2, <3>1, <1>3
  <2> QED BY <1>3, <2>1, <2>5, <2>6
<1>5. k <= q + 1
  <2>1. ASSUME k >= q + 2
        PROVE  FALSE
    <3>1. k * e >= (q + 2) * e /\ (q + 2) * e = e * q + 2 * e
      BY <1>1, <1>3, <2>1
    <3> QED BY <1>1, <1>3, <1>4, <3>1
  <2> QED BY <1>1, <1>3, <2>1
<1>6. ASSUME k = q + 1
      PROVE  2 * r >= e /\ (2 * r = e => q % 2 # 0)
  <2>1. k * e = e * q + e
    BY <1>1, <1>6
  <2>2. 2 * r >= e /\ (2 * r = e => k % 2 = 0)
    <3>1. e * q \in Int /\ m = e * q + r /\ r \in Int
      BY <1>1
    <3>2. 2 * (k * e) - e = 2 * (e * q) + e
      BY <2>1, <3>1
    <3>3. 2 * m = 2 * (e * q) + 2 * r
      BY <3>1
    <3> HIDE <1>1
    <3> QED BY <1>4, <3>1, <3>2, <3>3
  <2>3. (q + 1) % 2 = 0 => q % 2 # 0
    BY <1>1
  <2> QED BY <1>6, <2>2, <2>3
<1>7. k <= Quantise(m, e)
  BY <1>1, <1>2, <1>3, <1>5, <1>6
<1> QED
  BY <1>7 DEF k

-----------------------------------------------------------------------------
(* Prices. *)

(* apply_floor_stall gives a price on or above the floor. *)
LEMMA FloorStallPrice ==
    ASSUME NEW current \in Nat, NEW n \in Nat, NEW d \in Nat \ {0},
           NEW floor \in Nat, NEW window \in Nat \ {0}, NEW nearest \in Nat
    PROVE  /\ FloorStall(current, n, d, floor, window, nearest) \in Nat
           /\ FloorStall(current, n, d, floor, window, nearest) >= floor
<1> DEFINE distance == Least(Greatest(current - floor, nearest), window)
           total == current * d * window - (current * d - n) * distance
<1>1. distance \in Int
  BY DEF Least, Greatest
<1> HIDE DEF distance
<1>2. total \in Int /\ d * window \in Nat \ {0}
  BY <1>1
<1> HIDE DEF total
<1>3. Quantise(n, d) \in Int /\ Quantise(total, d * window) \in Int
  BY <1>2, QuantiseInt
<1>4. FloorStall(current, n, d, floor, window, nearest)
        \in {Greatest(Quantise(n, d), floor), floor, Greatest(Quantise(total, d * window), floor)}
  BY DEF FloorStall, total, distance
<1> QED
  BY <1>3, <1>4 DEF Greatest

(* The stall is a brake and never a push: a proposed drop from a price      *)
(* above the floor leads to a price between the proposed one and the        *)
(* current one (apply_floor_stall), however the settings are chosen.        *)
THEOREM FloorStallBrakes ==
    ASSUME NEW floor \in Nat, NEW current \in Nat, current > floor,
           NEW d \in Nat \ {0}, NEW n \in Nat, n < current * d,
           NEW window \in Nat \ {0}, NEW nearest \in Nat \ {0}, nearest <= window
    PROVE  /\ FloorStall(current, n, d, floor, window, nearest) >= Quantise(n, d)
           /\ FloorStall(current, n, d, floor, window, nearest) <= current
<1> DEFINE distance == Least(Greatest(current - floor, nearest), window)
           total == current * d * window - (current * d - n) * distance
<1>1. distance \in 1..window
  BY DEF Least, Greatest
<1> HIDE DEF distance
<1> DEFINE drop == current * d - n
<1>2. drop \in Nat /\ d * window \in Nat \ {0}
  OBVIOUS
<1>3. drop * distance \in Nat /\ drop * distance <= drop * window
  <2> HIDE DEF drop
  <2> QED BY <1>1, <1>2
<1>4. total = current * (d * window) - drop * distance
  BY <1>1
<1>5. total \in Int /\ total <= current * (d * window)
  BY <1>2, <1>3, <1>4
<1> HIDE DEF total
<1>6. Quantise(total, d * window) <= current /\ Quantise(total, d * window) \in Int
  BY <1>2, <1>5, QuantiseAtMost, QuantiseInt
<1>7. FloorStall(current, n, d, floor, window, nearest)
        = Greatest(Quantise(total, d * window), floor)
  BY DEF FloorStall, total, distance
<1>8. FloorStall(current, n, d, floor, window, nearest) <= current
  BY <1>6, <1>7 DEF Greatest
<1>9. total >= n * window
  <2>1. drop * window = current * (d * window) - n * window
    BY <1>2
  <2> QED BY <1>2, <1>3, <1>4, <2>1
<1>10. Quantise(total, d * window) >= Quantise(n, d)
  <2>1. n * (d * window) <= total * d
    <3>1. (n * window) * d <= total * d
      BY <1>5, <1>9
    <3> QED BY <3>1
  <2> QED BY <1>2, <1>5, <2>1, QuantiseGrows
<1> QED
  BY <1>6, <1>7, <1>8, <1>10, QuantiseInt DEF Greatest
-----------------------------------------------------------------------------
(* Market hours. *)

(* The calendar of Ledger is all there is to _check_market_open: a call     *)
(* that may trade on Sundays, and one that may not, is let in exactly at    *)
(* the instants of that kind, whatever the hours.                           *)
THEOREM KindOfTimeDecides ==
    ASSUME NEW day \in Int, NEW t \in TimeOfDay, NEW opens \in TimeOfDay,
           NEW closes \in TimeOfDay, NEW allowed \in BOOLEAN
    PROVE  LET kind == KindOfTime(day, t, opens, closes)
           IN  IsMarketOpen(day, t, opens, closes, allowed)
                 <=> kind = "open" \/ (allowed /\ kind = "sunday")
BY DEF IsMarketOpen, KindOfTime

LEMMA ModBelow ==
    ASSUME NEW D \in Nat \ {0}, NEW a \in 0..(D - 1), NEW b \in 0..(D - 1)
    PROVE  (a - b) % D = IF a >= b THEN a - b ELSE a - b + D
<1>1. ASSUME NEW x \in 0..(D - 1)
      PROVE  x % D = x
  OBVIOUS
<1>2. ASSUME NEW x \in (-D)..(-1)
      PROVE  x % D = x + D
  OBVIOUS
<1> QED
  BY <1>1, <1>2

(* is_market_open counts right over midnight: for hours that differ, the    *)
(* market is open in the (closes - opens) seconds that follow the opening,  *)
(* round the clock; hours that are equal never close it.                    *)
THEOREM WindowRunsRoundTheClock ==
    ASSUME NEW t \in TimeOfDay, NEW opens \in TimeOfDay, NEW closes \in TimeOfDay
    PROVE  /\ opens # closes =>
                (InWindow(t, opens, closes)
                   <=> (t - opens) % DaySeconds < (closes - opens) % DaySeconds)
           /\ opens = closes => InWindow(t, opens, closes)
<1>1. DaySeconds \in Nat \ {0}
  BY DEF DaySeconds
<1>2. t \in 0..(DaySeconds - 1) /\ opens \in 0..(DaySeconds - 1) /\ closes \in 0..(DaySeconds - 1)
  BY DEF TimeOfDay
<1>3. /\ (t - opens) % DaySeconds = IF t >= opens THEN t - opens ELSE t - opens + DaySeconds
      /\ (closes - opens) % DaySeconds
           = IF closes >= opens THEN closes - opens ELSE closes - opens + DaySeconds
  BY <1>1, <1>2, ModBelow
<1> QED
  BY <1>1, <1>2, <1>3 DEF InWindow

-----------------------------------------------------------------------------
(* Engagement tiers. *)

LEMMA HigherAreFewer ==
    ASSUME NEW M, IsFiniteSet(M), NEW scores \in [M -> Int],
           NEW a \in Int, NEW b \in Int, a <= b
    PROVE  /\ Cardinality(StrictlyHigher(b, scores)) \in Nat
           /\ Cardinality(StrictlyHigher(a, scores)) \in Nat
           /\ Cardinality(StrictlyHigher(b, scores)) <= Cardinality(StrictlyHigher(a, scores))
<1>1. StrictlyHigher(b, scores) \subseteq StrictlyHigher(a, scores)
  BY DEF StrictlyHigher
<1>2. StrictlyHigher(a, scores) \subseteq M
  BY DEF StrictlyHigher
<1> QED
  BY <1>1, <1>2, FS_Subset, FS_CardinalityType

(* A higher score never gives a lower tier, ties give the same one          *)
(* (get_engagement_tier), though the score and those of the guild are read  *)
(* at different times (user_stats).                                         *)
THEOREM TierFollowsScore ==
    ASSUME NEW M, IsFiniteSet(M), NEW scores \in [M -> Int],
           NEW a \in Int, NEW b \in Int, a <= b
    PROVE  Tier(a, scores) <= Tier(b, scores)
<1>1. Cardinality(M) \in Nat /\ DOMAIN scores = M
  BY FS_CardinalityType
<1>2. ASSUME NEW percent \in Nat, WithinTop(percent, a, scores)
      PROVE  WithinTop(percent, b, scores)
  <2>1. percent * Cardinality(M) \in Nat
    BY <1>1
  <2> QED BY <1>1, <1>2, <2>1, HigherAreFewer DEF WithinTop
<1>3. /\ WithinTop(5, a, scores) => WithinTop(5, b, scores)
      /\ WithinTop(30, a, scores) => WithinTop(30, b, scores)
      /\ WithinTop(70, a, scores) => WithinTop(70, b, scores)
  BY <1>2
<1>4. /\ WithinTop(5, a, scores) => WithinTop(30, a, scores)
      /\ WithinTop(30, a, scores) => WithinTop(70, a, scores)
      /\ WithinTop(5, b, scores) => WithinTop(30, b, scores)
      /\ WithinTop(30, b, scores) => WithinTop(70, b, scores)
  BY <1>1, HigherAreFewer DEF WithinTop
<1> QED
  BY <1>3, <1>4 DEF Tier

(* A guild of twenty or more members with one score is all Elite: the tie   *)
(* does not share the places, although the comment on get_engagement_tier   *)
(* gives that case as the one it mends.                                     *)
THEOREM TiedGuildIsElite ==
    ASSUME NEW M, IsFiniteSet(M), Cardinality(M) >= 20, NEW score \in Int
    PROVE  Tier(score, [m \in M |-> score]) = 4
<1> DEFINE scores == [m \in M |-> score]
<1>1. StrictlyHigher(score, scores) = {} /\ DOMAIN scores = M
  BY DEF StrictlyHigher
<1> HIDE DEF scores
<1>2. Cardinality(M) \in Nat /\ Cardinality({}) = 0
  BY FS_CardinalityType, FS_EmptySet
<1>3. scores # [m \in {} |-> 0]
  <2>1. M # {}
    BY <1>2
  <2>2. DOMAIN [m \in {} |-> 0] = {}
    OBVIOUS
  <2> QED BY <1>1, <2>1, <2>2
<1>4. WithinTop(5, score, scores)
  BY <1>1, <1>2, <1>3 DEF WithinTop
<1>5. WithinTop(30, score, scores)
  BY <1>1, <1>2, <1>3 DEF WithinTop
<1>6. Tier(score, scores) = 4
  BY <1>4, <1>5 DEF Tier
<1> QED
  BY <1>6 DEF scores
=============================================================================
