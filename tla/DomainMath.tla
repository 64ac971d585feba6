---------------------------- MODULE DomainMath ----------------------------
(***************************************************************************)
(* The money arithmetic of domain/price_engine.py and domain/fund_math.py. *)
(* Money is an integer number of cents.  The code computes in Decimal at   *)
(* 28 digits and rounds once, half to even, when it stores; here the exact *)
(* rational n/d is rounded once, by the same rule.                         *)
(***************************************************************************)
EXTENDS Integers

(* quantise(n/d), d > 0: to the nearest cent, a half to the even cent. *)
Quantise(n, d) ==
    LET q == n \div d
        r == 2 * (n % d)
    IN  IF r < d \/ (r = d /\ q % 2 = 0) THEN q ELSE q + 1

Least(a, b) == IF a <= b THEN a ELSE b
Greatest(a, b) == IF a >= b THEN a ELSE b

-----------------------------------------------------------------------------
(* mutant of TradeImpact: no floor *)
TradeImpactUnfloored(price, shares, isBuy, k, minPrice) ==
    Quantise(price * k.den + (IF isBuy THEN k.num * shares ELSE -(k.num * shares)), k.den)

(* apply_trade_impact: k = [num, den] is the price change of one share. *)
TradeImpact(price, shares, isBuy, k, minPrice) ==
    LET impact == IF isBuy THEN k.num * shares ELSE -(k.num * shares)
    IN  Greatest(Quantise(price * k.den + impact, k.den), minPrice)

(* apply_floor_stall for a proposed price n/d.  Near the floor a drop is    *)
(* scaled by (price - minPrice) / window, with the distance taken as at     *)
(* least nearest.                                                           *)
FloorStall(price, n, d, minPrice, window, nearest) ==
    IF n >= price * d THEN Greatest(Quantise(n, d), minPrice)
    ELSE IF price <= minPrice THEN minPrice
    ELSE LET distance == Least(Greatest(price - minPrice, nearest), window)
         IN  Greatest(Quantise(price * d * window - (price * d - n) * distance, d * window),
                      minPrice)

(* apply_inactivity_decay: keep = [num, den] is 1 - decay. *)
InactivityDecay(price, keep, minPrice) ==
    Greatest(Quantise(price * keep.num, keep.den), minPrice)

(* mutant of AverageEntry: the last price *)
LastEntry(shares, entry, more, price) == price

(* The weighted average entry of a position that is added to. *)
AverageEntry(shares, entry, more, price) ==
    Quantise(shares * entry + more * price, shares + more)

-----------------------------------------------------------------------------
(* compute_effective_apy: APYs in hundredths.  A penalty that has expired   *)
(* costs nothing, an active one never takes the rate below zero.            *)
EffectiveApy(baseApy, penaltyApr, penaltyUntil, now) ==
    IF penaltyUntil <= now THEN baseApy ELSE Greatest(0, baseApy - penaltyApr)
=============================================================================
