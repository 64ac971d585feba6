---------------------------- MODULE LedgerProofs ----------------------------
(***************************************************************************)
(* Proofs about the ledger of Ledger.tla, for any finite set of members,   *)
(* any calls and any settings that satisfy the assumptions of Ledger.      *)
(***************************************************************************)
EXTENDS LedgerProperties, SumLemmas, DomainLemmas

-----------------------------------------------------------------------------
(* Prices stay natural numbers on or above the floor. *)

LEMMA TradeImpactType ==
    ASSUME NEW current \in Nat, NEW n \in Nat, NEW isBuy \in BOOLEAN
    PROVE  LET new == TradeImpact(current, n, isBuy, ImpactK, MinPrice)
           IN  new \in Nat /\ new >= MinPrice
<1> DEFINE impact == IF isBuy THEN ImpactK.num * n ELSE -(ImpactK.num * n)
           total == current * ImpactK.den + impact
<1>1. ImpactK.num \in Nat /\ ImpactK.den \in Nat \ {0} /\ MinPrice \in Nat
  BY SettingsAssumption DEF Fraction
<1>2. total \in Int
  BY <1>1
<1> HIDE DEF total
<1>3. Quantise(total, ImpactK.den) \in Int
  BY <1>1, <1>2, QuantiseInt
<1>4. TradeImpact(current, n, isBuy, ImpactK, MinPrice)
        = Greatest(Quantise(total, ImpactK.den), MinPrice)
  BY DEF TradeImpact, total
<1> QED
  BY <1>1, <1>3, <1>4 DEF Greatest

LEMMA FloorStallType ==
    ASSUME NEW current \in Nat, NEW n \in Nat, NEW d \in Nat \ {0}
    PROVE  LET new == FloorStall(current, n, d, MinPrice, StallWindow, StallNearest)
           IN  new \in Nat /\ new >= MinPrice
<1>1. MinPrice \in Nat /\ StallWindow \in Nat \ {0} /\ StallNearest \in Nat
  BY SettingsAssumption
<1> QED
  BY <1>1, FloorStallPrice

LEMMA DecayType ==
    ASSUME NEW current \in Nat
    PROVE  LET new == InactivityDecay(current, DecayKeep, MinPrice)
           IN  new \in Nat /\ new >= MinPrice
<1>1. DecayKeep.num \in Nat /\ DecayKeep.den \in Nat \ {0} /\ MinPrice \in Nat
  BY SettingsAssumption DEF Fraction
<1>2. Quantise(current * DecayKeep.num, DecayKeep.den) \in Int
  BY <1>1, QuantiseInt
<1> QED
  BY <1>1, <1>2 DEF InactivityDecay, Greatest

LEMMA AverageEntryType ==
    ASSUME NEW held \in Nat, NEW entry \in Nat, NEW n \in Nat \ {0}, NEW current \in Nat
    PROVE  AverageEntry(held, entry, n, current) \in Nat
<1>1. held * entry + n * current \in Nat /\ held + n \in Nat \ {0}
  OBVIOUS
<1> QED
  BY <1>1, QuantiseNat DEF AverageEntry

-----------------------------------------------------------------------------
(* The inductive invariant: TypeOK and NoOverdraft together with stakes     *)
(* that are not negative.  A withdrawal leaves the fund at least its        *)
(* investors' stakes, which is only then no overdraft.                      *)
StakesInv == \A f \in Users : \A i \in Users : fund[f].stakes[i] >= 0

IInv == TypeOK /\ NoOverdraft /\ StakesInv

(* The same, variable by variable. *)
FundRow == [exists : BOOLEAN, cash : Nat, stakes : [Users -> Nat]]
ShortRow == [shares : Nat, entry : Nat, lockedCash : Nat, lockedFund : Nat,
             opened : Nat, frozen : BOOLEAN]
PriceInv == price \in [Users -> Nat] /\ \A u \in Users : price[u] >= MinPrice
PenaltyRow == [apr : Nat, until : Nat]

Rows ==
    /\ now \in Nat /\ ops \in Nat /\ wallet \in Int
    /\ cash \in [Users -> Nat]
    /\ long \in [Users -> [Users -> Nat]]
    /\ short \in [Users -> [Users -> ShortRow]]
    /\ optIn \in [Users -> BOOLEAN]
    /\ fund \in [Users -> FundRow]
    /\ PriceInv
    /\ cooldown \in [Users -> Nat]
    /\ penalty \in [Users -> PenaltyRow]

LEMMA RowsIsIInv == Rows <=> IInv
<1>1. Rows => IInv
  BY DEF Rows, IInv, TypeOK, NoOverdraft, StakesInv, FundRow, ShortRow, PriceInv,
         PenaltyRow, Position
<1>2. IInv => Rows
  <2> SUFFICES ASSUME IInv
               PROVE  Rows
    OBVIOUS
  <2> USE DEF IInv, TypeOK, NoOverdraft, StakesInv
  <2>1. cash \in [Users -> Nat]
    OBVIOUS
  <2>2. ASSUME NEW u \in Users, NEW t \in Users
        PROVE  short[u][t] \in ShortRow
    BY DEF ShortRow, Position
  <2>3. short \in [Users -> [Users -> ShortRow]]
    BY <2>2
  <2>4. ASSUME NEW u \in Users
        PROVE  fund[u] \in FundRow
    BY DEF FundRow
  <2>5. fund \in [Users -> FundRow]
    BY <2>4
  <2> QED
    BY <2>1, <2>3, <2>5 DEF Rows, PriceInv, PenaltyRow
<1> QED
  BY <1>1, <1>2

LEMMA InitRows == Init => Rows
<1> SUFFICES ASSUME Init
             PROVE  Rows
    OBVIOUS
<1> USE SettingsAssumption DEF Init
<1>1. NoShort \in ShortRow
  BY DEF NoShort, ShortRow
<1>2. \A c \in Nat : FundWith(c) \in FundRow
  BY DEF FundWith, FundRow
<1>3. fund \in [Users -> FundRow]
  BY <1>2
<1>4. short \in [Users -> [Users -> ShortRow]]
  BY <1>1
<1> QED
  BY <1>3, <1>4 DEF Rows, PriceInv, PenaltyRow

-----------------------------------------------------------------------------
(* The steps.  First what several of them do to a row.                      *)

LEMMA ImpactRows ==
    ASSUME PriceInv, NEW t \in Users, NEW n \in Nat, NEW isBuy \in BOOLEAN,
           Impact(t, n, isBuy)
    PROVE  PriceInv'
<1>1. price[t] \in Nat
  BY DEF PriceInv
<1>2. /\ TradeImpact(price[t], n, isBuy, ImpactK, MinPrice) \in Nat
      /\ TradeImpact(price[t], n, isBuy, ImpactK, MinPrice) >= MinPrice
  BY <1>1, TradeImpactType
<1> QED
  BY <1>2 DEF PriceInv, Impact

LEMMA SetFundCashRows ==
    ASSUME fund \in [Users -> FundRow], NEW u \in Users, NEW c \in Nat, SetFundCash(u, c)
    PROVE  /\ fund' \in [Users -> FundRow]
           /\ fund'[u].cash = c /\ fund'[u].stakes = fund[u].stakes
           /\ \A v \in Users : v # u => fund'[v] = fund[v]
BY DEF SetFundCash, FundRow

(* Money only moves into cash that is checked before: one lemma for the     *)
(* two kinds of trades of longs.                                            *)
LEMMA BuyRows ==
    ASSUME Rows, NEW u \in Users, NEW t \in Users, NEW n \in Nat \ {0}, Buy(u, t, n)
    PROVE  Rows'
<1>1. PriceInv'
  BY ImpactRows DEF Rows, Buy
<1>2. price[t] \in Nat /\ cash[u] \in Nat /\ cash[u] >= n * price[t]
  BY DEF Rows, PriceInv, Buy, CanPay
<1>3. cash[u] - n * price[t] \in Nat
  <2>1. n * price[t] \in Int
    BY <1>2
  <2> QED
    BY <1>2, <2>1
<1>4. cash' \in [Users -> Nat]
  BY <1>3 DEF Rows, Buy
<1> QED
  BY <1>1, <1>4 DEF Rows, Buy, Called

LEMMA SellRows ==
    ASSUME Rows, NEW u \in Users, NEW t \in Users, NEW n \in Nat \ {0}, Sell(u, t, n)
    PROVE  Rows'
<1>1. PriceInv'
  BY ImpactRows DEF Rows, Sell
<1>2. cash[u] + n * price[t] \in Nat /\ long[u][t] - n \in Nat
  <2>1. price[t] \in Nat /\ cash[u] \in Nat /\ long[u][t] \in Nat /\ long[u][t] >= n
    BY DEF Rows, PriceInv, Sell
  <2>2. n * price[t] \in Nat
    BY <2>1
  <2> QED
    BY <2>1, <2>2
<1>3. cash' \in [Users -> Nat] /\ long' \in [Users -> [Users -> Nat]]
  BY <1>2 DEF Rows, Sell
<1> QED
  BY <1>1, <1>3 DEF Rows, Sell, Called

(* Collateral is taken from what is there: all of the cash at most, and at  *)
(* most half, rounded, of the fund.                                         *)
LEMMA CollateralInBounds ==
    ASSUME NEW own \in Nat, NEW pool \in Nat, NEW notional \in Nat
    PROVE  LET available == Quantise(pool, 2)
               fromCash == Least(own, notional)
               fromFund == Least(available, notional - fromCash)
           IN  /\ fromCash \in Nat /\ own - fromCash \in Nat
               /\ fromFund \in Nat /\ pool - fromFund \in Nat
<1>1. Quantise(pool, 2) \in Nat
  BY QuantiseNat
<1>2. Quantise(pool, 2) <= pool
  BY QuantiseAtMost
<1> QED
  BY <1>1, <1>2 DEF Least

LEMMA ShortRows ==
    ASSUME Rows, NEW u \in Users, NEW t \in Users, NEW n \in Nat \ {0}, Short(u, t, n)
    PROVE  Rows'
<1> DEFINE held == short[u][t]
           notional == n * price[t]
           fromCash == Least(cash[u], notional)
           fromFund == Least(Quantise(fund[u].cash, 2), notional - fromCash)
           new == [shares |-> held.shares + n,
                   entry |-> AverageEntry(held.shares, held.entry, n, price[t]),
                   lockedCash |-> held.lockedCash + fromCash,
                   lockedFund |-> held.lockedFund + fromFund,
                   opened |-> IF held.shares = 0 THEN now ELSE held.opened,
                   frozen |-> FALSE]
<1>1. /\ short' = [short EXCEPT ![u][t] = new]
      /\ cash' = [cash EXCEPT ![u] = @ - fromCash]
      /\ SetFundCash(u, fund[u].cash - fromFund)
      /\ Impact(t, n, FALSE)
      /\ cooldown' = [cooldown EXCEPT ![u] = now + CooldownTime]
      /\ ops' = ops + 1
      /\ UNCHANGED <<now, long, optIn, wallet, penalty>>
  BY DEF Short, Called
<1>2. /\ held \in ShortRow /\ price[t] \in Nat /\ cash[u] \in Nat
      /\ fund[u].cash \in Nat /\ now \in Nat
  BY DEF Rows, PriceInv, FundRow
<1>3. notional \in Nat
  BY <1>2
<1>4. /\ fromCash \in Nat /\ cash[u] - fromCash \in Nat
      /\ fromFund \in Nat /\ fund[u].cash - fromFund \in Nat
  BY <1>2, <1>3, CollateralInBounds
<1>5. new.entry \in Nat
  BY <1>2, AverageEntryType DEF ShortRow
<1> HIDE DEF fromCash, fromFund, notional
<1>6. new \in ShortRow
  BY <1>2, <1>4, <1>5 DEF ShortRow
<1> HIDE DEF new
<1>7. short' \in [Users -> [Users -> ShortRow]]
  BY <1>1, <1>6 DEF Rows
<1>8. cash' \in [Users -> Nat] /\ cooldown' \in [Users -> Nat]
  BY <1>1, <1>2, <1>4, SettingsAssumption DEF Rows
<1>9. fund' \in [Users -> FundRow]
  BY <1>1, <1>4, SetFundCashRows DEF Rows
<1>10. PriceInv'
  BY <1>1, ImpactRows DEF Rows
<1> QED
  BY <1>1, <1>7, <1>8, <1>9, <1>10 DEF Rows

(* What a partial cover releases is between nothing and all that is locked. *)
Released(held, locked, n) ==
    IF n = held.shares THEN locked ELSE Quantise(locked * n, held.shares)

LEMMA ReleasedInBounds ==
    ASSUME NEW held \in ShortRow, NEW locked \in Nat,
           NEW n \in Nat \ {0}, n <= held.shares
    PROVE  /\ Released(held, locked, n) \in Nat
           /\ locked - Released(held, locked, n) \in Nat
<1>1. held.shares \in Nat \ {0}
  BY DEF ShortRow
<1>2. locked * n \in Nat /\ locked * n <= locked * held.shares
  BY <1>1
<1>3. Quantise(locked * n, held.shares) \in Nat
  BY <1>1, <1>2, QuantiseNat
<1>4. Quantise(locked * n, held.shares) <= locked
  BY <1>1, <1>2, QuantiseAtMost
<1> QED
  BY <1>3, <1>4 DEF Released

LEMMA CoverInternalRows ==
    ASSUME Rows, NEW u \in Users, NEW t \in Users, NEW n \in Nat \ {0},
           CoverInternal(u, t, n)
    PROVE  /\ cash' \in [Users -> Nat] /\ fund' \in [Users -> FundRow]
           /\ short' \in [Users -> [Users -> ShortRow]] /\ PriceInv'
           /\ fund'[u].cash = fund[u].cash + Released(short[u][t], short[u][t].lockedFund, n)
           /\ UNCHANGED <<now, long, optIn, wallet, penalty>>
<1> DEFINE held == short[u][t]
           pnl == n * (held.entry - price[t])
           fromCash == Released(held, held.lockedCash, n)
           fromFund == Released(held, held.lockedFund, n)
           new == IF n = held.shares THEN NoShort
                  ELSE [held EXCEPT !.shares = @ - n,
                                    !.lockedCash = @ - fromCash,
                                    !.lockedFund = @ - fromFund]
<1>1. /\ held.shares >= n /\ cash[u] >= n * price[t]
      /\ short' = [short EXCEPT ![u][t] = new]
      /\ cash' = [cash EXCEPT ![u] = @ - n * price[t] + fromCash + Greatest(pnl, 0)]
      /\ SetFundCash(u, fund[u].cash + fromFund)
      /\ Impact(t, n, FALSE)
      /\ UNCHANGED <<now, long, optIn, wallet, penalty>>
  BY DEF CoverInternal, CanPay, Released
<1>2. /\ held \in ShortRow /\ price[t] \in Nat /\ cash[u] \in Nat
      /\ fund[u].cash \in Nat
  BY DEF Rows, PriceInv, FundRow
<1>3. /\ held.shares \in Nat /\ held.entry \in Nat
      /\ held.lockedCash \in Nat /\ held.lockedFund \in Nat
  BY <1>2 DEF ShortRow
<1>4. /\ fromCash \in Nat /\ held.lockedCash - fromCash \in Nat
      /\ fromFund \in Nat /\ held.lockedFund - fromFund \in Nat
  BY <1>1, <1>2, <1>3, ReleasedInBounds
<1>5. cash[u] - n * price[t] + fromCash + Greatest(pnl, 0) \in Nat
  <2>1. n * price[t] \in Nat /\ pnl \in Int
    BY <1>2, <1>3
  <2>2. Greatest(pnl, 0) \in Nat
    BY <2>1 DEF Greatest
  <2> HIDE DEF pnl, fromCash, fromFund, new
  <2> QED
    BY <2>1, <2>2, <1>1, <1>2, <1>4
<1> HIDE DEF fromCash, fromFund, pnl
<1>6. new \in ShortRow
  <2>1. CASE n = held.shares
    BY <2>1 DEF ShortRow, NoShort
  <2>2. CASE n # held.shares
    <3> DEFINE less == [held EXCEPT !.shares = @ - n,
                                    !.lockedCash = @ - fromCash,
                                    !.lockedFund = @ - fromFund]
    <3>1. held.shares - n \in Nat
      BY <1>1, <1>3
    <3>2. less \in ShortRow
      BY <3>1, <1>2, <1>4 DEF ShortRow
    <3> QED
      BY <3>2, <2>2
  <2> QED
    BY <2>1, <2>2
<1> HIDE DEF new
<1>7. short' \in [Users -> [Users -> ShortRow]]
  BY <1>1, <1>6 DEF Rows
<1>8. cash' \in [Users -> Nat]
  BY <1>1, <1>5 DEF Rows
<1>9. fund' \in [Users -> FundRow] /\ fund'[u].cash = fund[u].cash + fromFund
  BY <1>1, <1>2, <1>4, SetFundCashRows DEF Rows
<1>10. PriceInv'
  BY <1>1, ImpactRows DEF Rows
<1> QED
  BY <1>1, <1>7, <1>8, <1>9, <1>10 DEF fromFund

LEMMA CoverRows ==
    ASSUME Rows, NEW u \in Users, NEW t \in Users, NEW n \in Nat \ {0}, Cover(u, t, n)
    PROVE  Rows'
<1>1. cooldown' \in [Users -> Nat]
  BY SettingsAssumption DEF Rows, Cover
<1>2. CoverInternal(u, t, n)
  BY DEF Cover
<1> QED
  BY <1>1, <1>2, CoverInternalRows DEF Rows, Cover, Called

LEMMA LiquidateRows ==
    ASSUME Rows, NEW u \in Users, NEW t \in Users, Liquidate(u, t)
    PROVE  Rows'
<1>1. short[u][t].shares \in Nat \ {0}
  BY DEF Rows, ShortRow, Liquidate, Underwater
<1>2. CoverInternal(u, t, short[u][t].shares)
  BY DEF Liquidate
<1> QED
  BY <1>1, <1>2, CoverInternalRows DEF Rows, Liquidate

LEMMA FreezeRows ==
    ASSUME Rows, NEW u \in Users, NEW sampled, FreezeAccount(u, sampled)
    PROVE  Rows'
<1>1. ASSUME NEW t \in Users
      PROVE  [short[u][t] EXCEPT !.frozen = @ \/ DueForFreeze(short[u][t], sampled)]
                \in ShortRow
  <2>1. short[u][t] \in ShortRow
    BY DEF Rows
  <2>2. (short[u][t].frozen \/ DueForFreeze(short[u][t], sampled)) \in BOOLEAN
    BY Zenon
  <2> QED
    BY <2>1, <2>2 DEF ShortRow
<1>2. short' \in [Users -> [Users -> ShortRow]]
  BY <1>1 DEF Rows, FreezeAccount
<1> QED
  BY <1>2 DEF Rows, FreezeAccount, PriceInv

(* What a withdrawal leaves in the fund covers the investors' stakes, so it *)
(* is not negative.                                                         *)
LEMMA StakesNat ==
    ASSUME Rows, NEW f \in Users
    PROVE  fund[f].stakes \in [Users -> Nat] /\ Stakes(fund[f]) \in Nat
<1>1. fund[f].stakes \in [Users -> Nat]
  BY DEF Rows, FundRow
<1>2. SumOf(fund[f].stakes) \in Nat
  BY <1>1, SumNat, MembersAssumption
<1> QED
  BY <1>1, <1>2 DEF Stakes, SumOf

LEMMA TakenFromFund ==
    ASSUME Rows, NEW u \in Users, NEW amount \in Nat \ {0},
           ManagerBalance(u) >= amount, fund' = [fund EXCEPT ![u].cash = @ - amount]
    PROVE  /\ fund' \in [Users -> FundRow]
           /\ fund'[u].cash >= Stakes(fund'[u])
<1>1. fund[u] \in FundRow /\ fund[u].cash \in Nat /\ Stakes(fund[u]) \in Nat
  BY StakesNat DEF Rows, FundRow
<1>2. fund[u].cash - amount >= Stakes(fund[u])
  BY <1>1 DEF ManagerBalance
<1>3. fund[u].cash - amount \in Nat
  BY <1>1, <1>2
<1>4. [fund[u] EXCEPT !.cash = @ - amount] \in FundRow
  BY <1>1, <1>3 DEF FundRow
<1>5. fund' \in [Users -> FundRow] /\ fund'[u].cash = fund[u].cash - amount
      /\ fund'[u].stakes = fund[u].stakes
  BY <1>4 DEF Rows, FundRow
<1> QED
  BY <1>2, <1>5 DEF Stakes

LEMMA WithdrawRows ==
    ASSUME Rows, NEW u \in Users, NEW amount \in Nat \ {0}, NEW sampled \in Nat,
           Withdraw(u, amount, sampled)
    PROVE  Rows'
<1>1. fund' \in [Users -> FundRow]
  BY TakenFromFund DEF Withdraw
<1>2. cash' \in [Users -> Nat]
  BY DEF Rows, Withdraw
<1>3. penalty' \in [Users -> PenaltyRow]
  <2>1. penalty[u] \in PenaltyRow
    BY DEF Rows
  <2>2. [apr |-> penalty[u].apr + PenaltyApr, until |-> sampled + PenaltyTime] \in PenaltyRow
    BY <2>1, SettingsAssumption DEF PenaltyRow
  <2> QED
    BY <2>2 DEF Rows, Withdraw
<1> QED
  BY <1>1, <1>2, <1>3 DEF Rows, Withdraw, Called, PriceInv

LEMMA SendRows ==
    ASSUME Rows, NEW u \in Users, NEW amount \in Nat \ {0}, SendToEvents(u, amount)
    PROVE  Rows'
<1>1. fund' \in [Users -> FundRow]
  BY TakenFromFund DEF SendToEvents
<1> QED
  BY <1>1 DEF Rows, SendToEvents, Called, PriceInv

LEMMA InvestRows ==
    ASSUME Rows, NEW i \in Users, NEW f \in Users, NEW amount \in Nat \ {0},
           Invest(i, f, amount)
    PROVE  Rows'
<1>1. cash[i] - amount \in Nat
  BY DEF Rows, Invest, CanPay
<1>2. cash' \in [Users -> Nat]
  BY <1>1 DEF Rows, Invest
<1>3. fund[f] \in FundRow
  BY DEF Rows
<1>4. [fund[f] EXCEPT !.cash = @ + amount, !.stakes[i] = @ + amount] \in FundRow
  <2>1. fund[f].cash + amount \in Nat /\ fund[f].stakes[i] + amount \in Nat
    BY <1>3 DEF FundRow
  <2>2. [fund[f].stakes EXCEPT ![i] = @ + amount] \in [Users -> Nat]
    BY <2>1, <1>3 DEF FundRow
  <2> QED
    BY <2>1, <2>2, <1>3 DEF FundRow
<1>5. fund' \in [Users -> FundRow]
  BY <1>4 DEF Rows, Invest
<1> QED
  BY <1>2, <1>5 DEF Rows, Invest, Called, PriceInv

(* Interest is never negative on a stake, whatever the penalty. *)
LEMMA ApyType ==
    ASSUME NEW apr \in Nat, NEW until \in Nat, NEW sampled \in Nat
    PROVE  EffectiveApy(BaseApy, apr, until, sampled) \in Nat
BY SettingsAssumption DEF EffectiveApy, Greatest

LEMMA InterestType ==
    ASSUME NEW balance \in Int, NEW apy \in Nat
    PROVE  Interest(balance, apy) \in Int
<1>1. 100 * PeriodsPerYear \in Nat \ {0}
  BY SettingsAssumption
<1> QED
  BY <1>1, QuantiseInt DEF Interest

LEMMA StakeInterestType ==
    ASSUME NEW stake \in Nat, NEW apy \in Nat
    PROVE  WithInterest(stake, apy) \in Nat
<1>1. 100 * PeriodsPerYear \in Nat \ {0} /\ 100 * PeriodsPerYear + apy \in Nat
  BY SettingsAssumption
<1>2. stake * (100 * PeriodsPerYear + apy) \in Nat
  BY <1>1
<1> QED
  BY <1>1, <1>2, QuantiseNat DEF WithInterest

LEMMA AccrueRows ==
    ASSUME Rows, NEW u \in Users, NEW sampled \in Nat, AccrueApy(u, sampled)
    PROVE  Rows' /\ fund'[u].cash >= fund[u].cash
<1> DEFINE apy == EffectiveApy(BaseApy, penalty[u].apr, penalty[u].until, sampled)
           accrued == Interest(ManagerBalance(u), apy) + Interest(Stakes(fund[u]), apy)
           new == [fund[u] EXCEPT !.cash = @ + accrued,
                                  !.stakes = [i \in Users |-> WithInterest(@[i], apy)]]
<1>1. /\ fund' = [fund EXCEPT ![u].cash = @ + accrued,
                              ![u].stakes = [i \in Users |-> WithInterest(@[i], apy)]]
      /\ accrued >= 1
  BY DEF AccrueApy
<1>2. apy \in Nat
  <2>1. penalty[u].apr \in Nat /\ penalty[u].until \in Nat
    BY DEF Rows, PenaltyRow
  <2> QED
    BY <2>1, ApyType
<1> HIDE DEF apy
<1>3. /\ fund[u] \in FundRow /\ fund[u].cash \in Nat
      /\ fund[u].stakes \in [Users -> Nat] /\ Stakes(fund[u]) \in Nat
  BY StakesNat DEF Rows, FundRow
<1>4. accrued \in Int
  <2>1. ManagerBalance(u) \in Int /\ Stakes(fund[u]) \in Int
    BY <1>3 DEF ManagerBalance
  <2>2. Interest(ManagerBalance(u), apy) \in Int
    BY <2>1, <1>2, InterestType
  <2>3. Interest(Stakes(fund[u]), apy) \in Int
    BY <2>1, <1>2, InterestType
  <2> QED
    BY <2>2, <2>3
<1> HIDE DEF accrued
<1>5. fund[u].cash + accrued \in Nat
  BY <1>1, <1>3, <1>4
<1>6. [i \in Users |-> WithInterest(fund[u].stakes[i], apy)] \in [Users -> Nat]
  <2>1. ASSUME NEW i \in Users
        PROVE  WithInterest(fund[u].stakes[i], apy) \in Nat
    <3>1. fund[u].stakes[i] \in Nat
      BY <1>3
    <3> QED
      BY <3>1, <1>2, StakeInterestType
  <2> QED
    BY <2>1
<1>7. fund' \in [Users -> FundRow] /\ fund'[u].cash = fund[u].cash + accrued
  BY <1>1, <1>3, <1>5, <1>6 DEF Rows, FundRow
<1> QED
  BY <1>1, <1>3, <1>4, <1>7 DEF Rows, AccrueApy, Called, PriceInv

LEMMA StayBoostRows ==
    ASSUME Rows, NEW u \in Users, ApplyStayBoost(u)
    PROVE  Rows'
<1>1. /\ price[u] \in Nat /\ VoiceStayBoost.num \in Nat
      /\ VoiceStayBoost.den \in Nat \ {0}
  BY SettingsAssumption DEF Rows, PriceInv, Fraction
<1>2. price[u] * VoiceStayBoost.num \in Nat
  BY <1>1
<1>3. PriceInv'
  BY <1>1, <1>2, FloorStallType DEF Rows, PriceInv, ApplyStayBoost
<1> QED
  BY <1>3 DEF Rows, ApplyStayBoost, Called

LEMMA DecayRows ==
    ASSUME Rows, NEW u \in Users, DecayPrice(u)
    PROVE  Rows'
<1>1. price[u] \in Nat
  BY DEF Rows, PriceInv
<1>2. PriceInv'
  BY <1>1, DecayType DEF Rows, PriceInv, DecayPrice
<1> QED
  BY <1>2 DEF Rows, DecayPrice, Called

LEMMA SmallStepsRows ==
    ASSUME Rows,
           \/ Tick
           \/ \E u \in Users : CreateFund(u) \/ \E value \in BOOLEAN : SetOptIn(u, value)
           \/ UNCHANGED vars
    PROVE  Rows'
<1>1. CASE Tick
  BY <1>1 DEF Rows, Tick, PriceInv
<1>2. ASSUME NEW u \in Users, CreateFund(u)
      PROVE  Rows'
  <2>1. fund' \in [Users -> FundRow]
    BY <1>2 DEF Rows, CreateFund, FundRow
  <2> QED
    BY <2>1, <1>2 DEF Rows, CreateFund, Called, PriceInv
<1>3. ASSUME NEW u \in Users, NEW value \in BOOLEAN, SetOptIn(u, value)
      PROVE  Rows'
  BY <1>3 DEF Rows, SetOptIn, Called, PriceInv
<1>4. CASE UNCHANGED vars
  BY <1>4 DEF Rows, vars, PriceInv
<1> QED
  BY <1>1, <1>2, <1>3, <1>4

LEMMA NextRows == Rows /\ [Next]_vars => Rows'
<1> SUFFICES ASSUME Rows, [Next]_vars
             PROVE  Rows'
    OBVIOUS
<1>1. /\ \A p \in TradePairs : p[1] \in Users /\ p[2] \in Users
      /\ \A i \in Investments : i[1] \in Users /\ i[2] \in Users
  BY MembersAssumption
<1>2. \A sampled \in Recent : sampled \in Nat
  BY DEF Recent, Rows
<1>3. CASE \/ Tick \/ UNCHANGED vars
  BY <1>3, SmallStepsRows
<1>4. ASSUME NEW p \in TradePairs, NEW n \in Shares,
             \/ Buy(p[1], p[2], n) \/ Sell(p[1], p[2], n)
             \/ Short(p[1], p[2], n) \/ Cover(p[1], p[2], n)
      PROVE  Rows'
  <2>1. n \in Nat \ {0}
    BY CallsAssumption
  <2> QED
    BY <1>1, <1>4, <2>1, BuyRows, SellRows, ShortRows, CoverRows
<1>5. ASSUME NEW p \in TradePairs, Liquidate(p[1], p[2])
      PROVE  Rows'
  BY <1>1, <1>5, LiquidateRows
<1>6. ASSUME NEW p \in TradePairs, NEW sampled \in Recent, FreezeAccount(p[1], sampled)
      PROVE  Rows'
  BY <1>1, <1>6, FreezeRows
<1>7. ASSUME NEW p \in TradePairs,
             \/ \E value \in BOOLEAN : SetOptIn(p[2], value)
             \/ ApplyStayBoost(p[2]) \/ DecayPrice(p[2])
      PROVE  Rows'
  BY <1>1, <1>7, SmallStepsRows, StayBoostRows, DecayRows
<1>8. ASSUME NEW u \in Users, CreateFund(u)
      PROVE  Rows'
  BY <1>8, SmallStepsRows
<1>9. ASSUME NEW i \in Investments, NEW amount \in Amounts,
             \/ Invest(i[1], i[2], amount) \/ SendToEvents(i[2], amount)
             \/ \E sampled \in Recent : Withdraw(i[2], amount, sampled)
      PROVE  Rows'
  <2>1. amount \in Nat \ {0}
    BY CallsAssumption
  <2> QED
    BY <1>1, <1>2, <1>9, <2>1, InvestRows, SendRows, WithdrawRows
<1>10. ASSUME NEW i \in Investments, NEW sampled \in Recent, AccrueApy(i[2], sampled)
       PROVE  Rows'
  BY <1>1, <1>2, <1>10, AccrueRows
<1> QED
  BY <1>3, <1>4, <1>5, <1>6, <1>7, <1>8, <1>9, <1>10 DEF Next, NextWithoutSweep

LEMMA RowsHold == Spec => []Rows
<1> QED
  BY InitRows, NextRows, PTL DEF Spec

-----------------------------------------------------------------------------
(* Every variable of the ledger keeps its type and prices the floor, for    *)
(* any number of members and any calls of TradingService and FundService.   *)
THEOREM TypeCorrect == Spec => []TypeOK
<1>1. Rows => TypeOK
  BY RowsIsIInv DEF IInv
<1> QED
  BY <1>1, RowsHold, PTL

(* No call of any service makes a balance or a collateral negative: the     *)
(* guards of short, cover, invest and withdraw are enough together.         *)
THEOREM NoOverdraftHolds == Spec => []NoOverdraft
<1>1. Rows => NoOverdraft
  BY RowsIsIInv DEF IInv
<1> QED
  BY <1>1, RowsHold, PTL

-----------------------------------------------------------------------------
(* Frozen shorts. *)
FrozenKept(v, w) ==
    short[v][w].frozen /\ short'[v][w] # short[v][w]
        => short'[v][w] = NoShort /\ Underwater(v, w)

(* A step that leaves every pair but one alone keeps the frozen shorts if   *)
(* that one was not frozen.                                                 *)
LEMMA OneShortChanges ==
    ASSUME Rows, NEW u \in Users, NEW t \in Users, NEW s,
           short' = [short EXCEPT ![u][t] = s]
    PROVE  /\ short'[u][t] = s
           /\ \A v \in Users, w \in Users :
                 v # u \/ w # t => short'[v][w] = short[v][w]
BY DEF Rows

LEMMA NotFrozenChanges ==
    ASSUME Rows, NEW u \in Users, NEW t \in Users, NEW s, ~short[u][t].frozen,
           short' = [short EXCEPT ![u][t] = s],
           NEW v \in Users, NEW w \in Users
    PROVE  FrozenKept(v, w)
<1>1. v # u \/ w # t => short'[v][w] = short[v][w]
  BY OneShortChanges
<1> QED
  BY <1>1 DEF FrozenKept

LEMMA ShortKeepsFrozen ==
    ASSUME Rows, NEW u \in Users, NEW t \in Users, NEW n \in Shares,
           Short(u, t, n) \/ Cover(u, t, n), NEW v \in Users, NEW w \in Users
    PROVE  FrozenKept(v, w)
<1>1. ~short[u][t].frozen /\ \E s : short' = [short EXCEPT ![u][t] = s]
  <2>1. CASE Short(u, t, n)
    BY <2>1, Zenon DEF Short
  <2>2. CASE Cover(u, t, n)
    BY <2>2, Zenon DEF Cover, CoverInternal
  <2> QED
    BY <2>1, <2>2
<1> QED
  BY <1>1, NotFrozenChanges

LEMMA LiquidateKeepsFrozen ==
    ASSUME Rows, NEW u \in Users, NEW t \in Users, Liquidate(u, t),
           NEW v \in Users, NEW w \in Users
    PROVE  FrozenKept(v, w)
<1>1. short' = [short EXCEPT ![u][t] = NoShort] /\ Underwater(u, t)
  BY DEF Liquidate, CoverInternal
<1>2. /\ short'[u][t] = NoShort
      /\ v # u \/ w # t => short'[v][w] = short[v][w]
  BY <1>1 DEF Rows
<1> QED
  BY <1>1, <1>2 DEF FrozenKept

LEMMA FreezeKeepsFrozen ==
    ASSUME Rows, NEW u \in Users, NEW sampled, FreezeAccount(u, sampled),
           NEW v \in Users, NEW w \in Users
    PROVE  FrozenKept(v, w)
<1> SUFFICES ASSUME short[v][w].frozen
             PROVE  short'[v][w] = short[v][w]
    BY DEF FrozenKept
<1>1. short[v][w] \in ShortRow /\ short[v][w].frozen = TRUE
  BY DEF Rows, ShortRow
<1>2. CASE v = u
  <2>1. short'[v][w] = [short[v][w] EXCEPT !.frozen =
                          @ \/ DueForFreeze(short[v][w], sampled)]
    BY <1>2 DEF Rows, FreezeAccount
  <2>2. [short[v][w] EXCEPT !.frozen = TRUE] = short[v][w]
    BY <1>1 DEF ShortRow
  <2> QED
    BY <2>1, <2>2, <1>1
<1>3. CASE v # u
  BY <1>3 DEF Rows, FreezeAccount
<1> QED
  BY <1>2, <1>3

LEMMA NextKeepsFrozen ==
    ASSUME Rows, [Next]_vars, NEW v \in Users, NEW w \in Users
    PROVE  FrozenKept(v, w)
<1>1. \A p \in TradePairs : p[1] \in Users /\ p[2] \in Users
  BY MembersAssumption
<1>2. CASE UNCHANGED short
  BY <1>2 DEF FrozenKept
<1>3. ASSUME NEW p \in TradePairs, NEW n \in Shares,
             Short(p[1], p[2], n) \/ Cover(p[1], p[2], n)
      PROVE  FrozenKept(v, w)
  BY <1>1, <1>3, ShortKeepsFrozen
<1>4. ASSUME NEW p \in TradePairs, Liquidate(p[1], p[2])
      PROVE  FrozenKept(v, w)
  BY <1>1, <1>4, LiquidateKeepsFrozen
<1>5. ASSUME NEW p \in TradePairs, NEW sampled \in Recent, FreezeAccount(p[1], sampled)
      PROVE  FrozenKept(v, w)
  BY <1>1, <1>5, FreezeKeepsFrozen
<1> QED
  BY <1>2, <1>3, <1>4, <1>5
     DEF Next, NextWithoutSweep, vars, Tick, Buy, Sell, SetOptIn, ApplyStayBoost,
         DecayPrice, CreateFund, Invest, AccrueApy, Withdraw, SendToEvents

(* update_frozen_shorts freezes for good: nothing but a liquidation, at the *)
(* threshold or above and of the whole position, changes a frozen short.    *)
THEOREM FrozenOnlyLiquidatedHolds == Spec => FrozenOnlyLiquidated
<1>1. Rows /\ [Next]_vars
        => [\A u \in Users, t \in Users :
              short[u][t].frozen /\ short[u][t]' # short[u][t]
                => short[u][t]' = NoShort /\ Underwater(u, t)]_vars
  BY NextKeepsFrozen DEF FrozenKept
<1> QED
  BY <1>1, RowsHold, PTL DEF Spec, FrozenOnlyLiquidated

(* A trade freezes nothing. *)
LEMMA TradesFreezeNothing ==
    ASSUME Rows, NEW u \in Users, NEW t \in Users, NEW n,
           Short(u, t, n) \/ CoverInternal(u, t, n),
           NEW v \in Users, NEW w \in Users, short'[v][w].frozen
    PROVE  short[v][w].frozen
<1>1. short[u][t] \in ShortRow /\ short \in [Users -> [Users -> ShortRow]]
  BY DEF Rows
<1>2. PICK new : short' = [short EXCEPT ![u][t] = new] /\ (new.frozen => short[u][t].frozen)
  <2>1. CASE Short(u, t, n)
    <3>1. PICK a, b, c, d, e :
            short' = [short EXCEPT ![u][t] = [shares |-> a, entry |-> b, lockedCash |-> c,
                                              lockedFund |-> d, opened |-> e, frozen |-> FALSE]]
      BY <2>1, Zenon DEF Short
    <3> DEFINE new == [shares |-> a, entry |-> b, lockedCash |-> c,
                       lockedFund |-> d, opened |-> e, frozen |-> FALSE]
    <3>2. short' = [short EXCEPT ![u][t] = new] /\ ~new.frozen
      BY <3>1
    <3> HIDE DEF new
    <3> QED
      BY <3>2
  <2>2. CASE CoverInternal(u, t, n)
    <3> DEFINE held == short[u][t]
               rest == [held EXCEPT !.shares = @ - n,
                                    !.lockedCash = @ - Released(held, held.lockedCash, n),
                                    !.lockedFund = @ - Released(held, held.lockedFund, n)]
    <3>1. short' = [short EXCEPT ![u][t] = IF n = held.shares THEN NoShort ELSE rest]
      BY <2>2 DEF CoverInternal, Released
    <3> DEFINE new == IF n = held.shares THEN NoShort ELSE rest
    <3>2. ~NoShort.frozen /\ rest.frozen = held.frozen
      BY <1>1 DEF NoShort, ShortRow
    <3> HIDE DEF rest
    <3>3. new.frozen => held.frozen
      BY <3>2
    <3> HIDE DEF new
    <3> QED
      BY <3>1, <3>3 DEF new
  <2> QED
    BY <2>1, <2>2
<1>3. short'[u][t] = new /\ (v # u \/ w # t => short'[v][w] = short[v][w])
  BY <1>1, <1>2
<1> QED
  BY <1>2, <1>3

(* Only the freeze sweep freezes a position, and one that is due. *)
LEMMA NewlyFrozenIsDue ==
    ASSUME Rows, Next, NEW v \in Users, NEW w \in Users,
           ~short[v][w].frozen, short'[v][w].frozen
    PROVE  /\ short'[v][w].shares = short[v][w].shares
           /\ short'[v][w].opened = short[v][w].opened
           /\ now' = now
           /\ \E sampled \in Recent : DueForFreeze(short[v][w], sampled)
<1>1. \A p \in TradePairs : p[1] \in Users /\ p[2] \in Users
  BY MembersAssumption
<1>2. PICK p \in TradePairs, sampled \in Recent : FreezeAccount(p[1], sampled)
  <2>1. ~ UNCHANGED short
    OBVIOUS
  <2>2. \A p \in TradePairs, n \in Shares : ~Short(p[1], p[2], n) /\ ~Cover(p[1], p[2], n)
    BY <1>1, TradesFreezeNothing DEF Cover
  <2>3. \A p \in TradePairs : ~Liquidate(p[1], p[2])
    BY <1>1, TradesFreezeNothing DEF Liquidate
  <2> QED
    BY <2>1, <2>2, <2>3
       DEF Next, NextWithoutSweep, Tick, Buy, Sell, SetOptIn, ApplyStayBoost,
           DecayPrice, CreateFund, Invest, AccrueApy, Withdraw, SendToEvents
<1>3. short[v][w] \in ShortRow /\ short \in [Users -> [Users -> ShortRow]]
  BY DEF Rows
<1>4. v = p[1]
  BY <1>1, <1>2, <1>3 DEF FreezeAccount
<1>5. short'[v][w] = [short[v][w] EXCEPT !.frozen = @ \/ DueForFreeze(short[v][w], sampled)]
  BY <1>2, <1>3, <1>4 DEF FreezeAccount
<1>6. /\ short'[v][w].shares = short[v][w].shares
      /\ short'[v][w].opened = short[v][w].opened
      /\ short'[v][w].frozen = (short[v][w].frozen \/ DueForFreeze(short[v][w], sampled))
  BY <1>3, <1>5 DEF ShortRow
<1> QED
  BY <1>2, <1>6 DEF FreezeAccount

LEMMA NextAges == Rows /\ FrozenOnlyAged /\ [Next]_vars => FrozenOnlyAged'
<1> SUFFICES ASSUME Rows, FrozenOnlyAged, [Next]_vars, NEW u \in Users, NEW t \in Users,
                    short'[u][t].frozen
             PROVE  short'[u][t].shares > 0 /\ now' - short'[u][t].opened >= FreezeAge
  BY DEF FrozenOnlyAged
<1>1. /\ now \in Nat /\ now' \in Nat /\ now' >= now /\ FreezeAge \in Int
      /\ short[u][t].opened \in Nat /\ short[u][t].shares \in Nat
  <2>1. now' = now \/ now' = now + 1
    <3>1. ASSUME NEW v, NEW w, NEW n, Short(v, w, n) \/ CoverInternal(v, w, n)
          PROVE  now' = now
      <4>1. CASE Short(v, w, n)
        BY <4>1, Zenon DEF Short
      <4>2. CASE CoverInternal(v, w, n)
        BY <4>2, Zenon DEF CoverInternal
      <4> QED
        BY <3>1, <4>1, <4>2
    <3>2. \A v, w, n : Cover(v, w, n) \/ Liquidate(v, w) => now' = now
      BY <3>1, Zenon DEF Cover, Liquidate
    <3> QED
      BY <3>1, <3>2
         DEF Next, NextWithoutSweep, vars, Tick, Buy, Sell, FreezeAccount, SetOptIn,
             ApplyStayBoost, DecayPrice, CreateFund, Invest, AccrueApy, Withdraw, SendToEvents
  <2> QED
    BY <2>1, SettingsAssumption DEF Rows, ShortRow
<1>2. CASE short[u][t].frozen
  <2>1. short'[u][t] = short[u][t]
    <3>1. ~NoShort.frozen
      BY DEF NoShort
    <3> QED
      BY <1>2, <3>1, NextKeepsFrozen DEF FrozenKept
  <2> QED
    BY <1>1, <1>2, <2>1 DEF FrozenOnlyAged
<1>3. CASE ~short[u][t].frozen
  <2>1. Next
    BY <1>3 DEF vars
  <2>2. PICK sampled \in Recent : DueForFreeze(short[u][t], sampled)
    BY <1>3, <2>1, NewlyFrozenIsDue
  <2>3. sampled \in Nat /\ sampled <= now
    BY <1>1 DEF Recent
  <2> QED
    BY <1>1, <1>3, <2>1, <2>2, <2>3, NewlyFrozenIsDue DEF DueForFreeze
<1> QED
  BY <1>2, <1>3

(* A frozen short is open and has reached the age, however long the sweep   *)
(* waits for the lock after it has sampled the clock and whatever is traded *)
(* meanwhile (update_frozen_shorts).                                        *)
THEOREM FrozenOnlyAgedHolds == Spec => []FrozenOnlyAged
<1>1. Init => FrozenOnlyAged
  BY DEF Init, NoShort, FrozenOnlyAged
<1> QED
  BY <1>1, NextAges, RowsHold, PTL DEF Spec

-----------------------------------------------------------------------------
(* The investors' principal. *)
PrincipalKept(f) ==
    fund'[f].cash < fund[f].cash
        => \/ fund'[f].cash >= Stakes(fund'[f])
           \/ LockedFund(f)' - LockedFund(f) = fund[f].cash - fund'[f].cash

(* Locking more for one pair adds as much to what the member has locked. *)
LEMMA LockedFundGrows ==
    ASSUME Rows, Rows', NEW u \in Users, NEW t \in Users, NEW more \in Nat,
           short'[u][t].lockedFund = short[u][t].lockedFund + more,
           \A w \in Users : w # t => short'[u][w] = short[u][w]
    PROVE  LockedFund(u)' - LockedFund(u) = more
<1> DEFINE old == [w \in Users |-> short[u][w].lockedFund]
           new == [w \in Users |-> short'[u][w].lockedFund]
<1>1. old \in [Users -> Int] /\ old[t] \in Int /\ old[t] + more \in Int
  BY DEF Rows, ShortRow
<1>2. new = [old EXCEPT ![t] = old[t] + more]
  OBVIOUS
<1>3. LockedFund(u) = SumOf(old) /\ LockedFund(u)' = SumOf(new)
  <2>1. LockedFund(u) = SumOf(old)
    BY Zenon DEF LockedFund, Total, SumOf
  <2>2. LockedFund(u)' = SumOf(new)
    BY Zenon DEF LockedFund, Total, SumOf, FoldFunction, FoldFunctionOnSet, MapThenFoldSet
  <2> QED
    BY <2>1, <2>2
<1> HIDE DEF old, new
<1>4. SumOf(new) = SumOf(old) - old[t] + (old[t] + more)
  BY <1>1, <1>2, SumUpdate, MembersAssumption
<1>5. SumOf(old) \in Int
  BY <1>1, SumInt, MembersAssumption
<1> QED
  BY <1>1, <1>3, <1>4, <1>5

LEMMA ShortKeepsPrincipal ==
    ASSUME Rows, NEW u \in Users, NEW t \in Users, NEW n \in Nat \ {0},
           Short(u, t, n), NEW f \in Users
    PROVE  PrincipalKept(f)
<1> DEFINE held == short[u][t]
           notional == n * price[t]
           fromCash == Least(cash[u], notional)
           fromFund == Least(Quantise(fund[u].cash, 2), notional - fromCash)
<1>1. price[t] \in Nat /\ cash[u] \in Nat /\ fund[u].cash \in Nat /\ held \in ShortRow
  BY DEF Rows, PriceInv, FundRow
<1>2. fromFund \in Nat /\ fund[u].cash - fromFund \in Nat
  <2>1. notional \in Nat
    BY <1>1
  <2> QED
    BY <1>1, <2>1, CollateralInBounds
<1>3. SetFundCash(u, fund[u].cash - fromFund)
  BY DEF Short
<1>4. /\ fund'[u].cash = fund[u].cash - fromFund
      /\ \A v \in Users : v # u => fund'[v] = fund[v]
  BY <1>2, <1>3, SetFundCashRows DEF Rows
<1>5. /\ short'[u][t].lockedFund = held.lockedFund + fromFund
      /\ \A w \in Users : w # t => short'[u][w] = short[u][w]
  BY DEF Short, Rows
<1> HIDE DEF fromFund
<1>6. LockedFund(u)' - LockedFund(u) = fromFund
  BY <1>2, <1>5, ShortRows, LockedFundGrows
<1>7. CASE f = u
  BY <1>1, <1>2, <1>4, <1>6, <1>7 DEF PrincipalKept
<1>8. CASE f # u
  <2>1. fund[f].cash \in Nat /\ fund'[f] = fund[f]
    BY <1>4, <1>8 DEF Rows, FundRow
  <2> QED
    BY <2>1 DEF PrincipalKept
<1> QED
  BY <1>7, <1>8

(* Everything else either takes only the manager's part or takes nothing. *)
LEMMA GrowingFundKeepsPrincipal ==
    ASSUME Rows, NEW f \in Users, Rows', fund'[f].cash >= fund[f].cash
    PROVE  PrincipalKept(f)
BY DEF Rows, FundRow, PrincipalKept

LEMMA TakingKeepsPrincipal ==
    ASSUME Rows, NEW u \in Users, NEW amount \in Nat \ {0},
           ManagerBalance(u) >= amount, fund' = [fund EXCEPT ![u].cash = @ - amount],
           NEW f \in Users
    PROVE  PrincipalKept(f)
<1>1. CASE f = u
  BY <1>1, TakenFromFund DEF PrincipalKept
<1>2. CASE f # u
  BY <1>2 DEF PrincipalKept, Rows, FundRow
<1> QED
  BY <1>1, <1>2

LEMMA CoverKeepsPrincipal ==
    ASSUME Rows, Rows', NEW u \in Users, NEW t \in Users, NEW n \in Nat \ {0},
           CoverInternal(u, t, n), NEW f \in Users
    PROVE  PrincipalKept(f)
<1> DEFINE back == Released(short[u][t], short[u][t].lockedFund, n)
<1>1. short[u][t] \in ShortRow /\ short[u][t].lockedFund \in Nat /\ n <= short[u][t].shares
  BY DEF Rows, ShortRow, CoverInternal
<1>2. back \in Nat
  BY <1>1, ReleasedInBounds
<1>3. SetFundCash(u, fund[u].cash + back)
  BY DEF CoverInternal, Released
<1> HIDE DEF back
<1>4. fund[u].cash + back \in Nat /\ fund[u].cash \in Nat
  BY <1>2 DEF Rows, FundRow
<1>5. /\ fund'[u].cash = fund[u].cash + back
      /\ \A v \in Users : v # u => fund'[v] = fund[v]
  BY <1>3, <1>4, SetFundCashRows DEF Rows
<1>6. fund'[f].cash >= fund[f].cash
  <2>1. fund[f].cash \in Nat
    BY DEF Rows, FundRow
  <2> QED
    BY <2>1, <1>2, <1>4, <1>5
<1> QED
  BY <1>6, GrowingFundKeepsPrincipal

LEMMA InvestKeepsPrincipal ==
    ASSUME Rows, Rows', NEW i \in Users, NEW g \in Users, NEW amount \in Nat \ {0},
           Invest(i, g, amount), NEW f \in Users
    PROVE  PrincipalKept(f)
<1>1. fund'[f].cash >= fund[f].cash
  BY DEF Rows, FundRow, Invest
<1> QED
  BY <1>1, GrowingFundKeepsPrincipal

LEMMA AccrueKeepsPrincipal ==
    ASSUME Rows, Rows', NEW u \in Users, NEW sampled \in Nat, AccrueApy(u, sampled),
           NEW f \in Users
    PROVE  PrincipalKept(f)
<1>1. fund'[u].cash >= fund[u].cash
  BY AccrueRows
<1>2. f # u => fund'[f] = fund[f]
  BY DEF Rows, AccrueApy
<1>3. fund[f].cash \in Nat
  BY DEF Rows, FundRow
<1> QED
  BY <1>1, <1>2, <1>3, GrowingFundKeepsPrincipal

LEMMA SameCashKeepsPrincipal ==
    ASSUME Rows, NEW f \in Users, fund'[f].cash = fund[f].cash
    PROVE  PrincipalKept(f)
BY DEF Rows, FundRow, PrincipalKept

LEMMA NextKeepsPrincipal ==
    ASSUME Rows, [Next]_vars, NEW f \in Users
    PROVE  PrincipalKept(f)
<1>1. /\ \A p \in TradePairs : p[1] \in Users /\ p[2] \in Users
      /\ \A i \in Investments : i[1] \in Users /\ i[2] \in Users
  BY MembersAssumption
<1>2. Rows'
  BY NextRows
<1>3. CASE UNCHANGED fund
  BY <1>3, SameCashKeepsPrincipal
<1>4. ASSUME NEW p \in TradePairs, NEW n \in Shares, Short(p[1], p[2], n) \/ Cover(p[1], p[2], n)
      PROVE  PrincipalKept(f)
  <2>1. n \in Nat \ {0}
    BY CallsAssumption
  <2>2. CASE Short(p[1], p[2], n)
    BY <1>1, <2>1, <2>2, ShortKeepsPrincipal
  <2>3. CASE Cover(p[1], p[2], n)
    <3>1. CoverInternal(p[1], p[2], n)
      BY <2>3 DEF Cover
    <3> QED
      BY <1>1, <1>2, <2>1, <3>1, CoverKeepsPrincipal
  <2> QED
    BY <1>4, <2>2, <2>3
<1>5. ASSUME NEW p \in TradePairs, Liquidate(p[1], p[2])
      PROVE  PrincipalKept(f)
  <2>1. short[p[1]][p[2]].shares \in Nat \ {0}
    BY <1>1, <1>5 DEF Rows, ShortRow, Liquidate, Underwater
  <2>2. CoverInternal(p[1], p[2], short[p[1]][p[2]].shares)
    BY <1>5 DEF Liquidate
  <2> QED
    BY <1>1, <1>2, <2>1, <2>2, CoverKeepsPrincipal
<1>6. ASSUME NEW u \in Users, CreateFund(u)
      PROVE  PrincipalKept(f)
  <2>1. fund'[f].cash = fund[f].cash
    BY <1>6 DEF Rows, FundRow, CreateFund
  <2> QED
    BY <2>1, SameCashKeepsPrincipal
<1>7. ASSUME NEW i \in Investments, NEW amount \in Amounts,
             \/ Invest(i[1], i[2], amount) \/ SendToEvents(i[2], amount)
             \/ \E sampled \in Recent : Withdraw(i[2], amount, sampled)
      PROVE  PrincipalKept(f)
  <2>1. amount \in Nat \ {0}
    BY CallsAssumption
  <2>2. CASE Invest(i[1], i[2], amount)
    BY <1>1, <1>2, <2>1, <2>2, InvestKeepsPrincipal
  <2>3. CASE SendToEvents(i[2], amount) \/ \E sampled \in Recent : Withdraw(i[2], amount, sampled)
    <3>1. /\ ManagerBalance(i[2]) >= amount
          /\ fund' = [fund EXCEPT ![i[2]].cash = @ - amount]
      BY <2>3 DEF SendToEvents, Withdraw
    <3> QED
      BY <1>1, <2>1, <3>1, TakingKeepsPrincipal
  <2> QED
    BY <1>7, <2>2, <2>3
<1>8. ASSUME NEW i \in Investments, NEW sampled \in Recent, AccrueApy(i[2], sampled)
      PROVE  PrincipalKept(f)
  <2>1. sampled \in Nat
    BY DEF Recent, Rows
  <2> QED
    BY <1>1, <1>2, <1>8, <2>1, AccrueKeepsPrincipal
<1> QED
  BY <1>3, <1>4, <1>5, <1>6, <1>7, <1>8
     DEF Next, NextWithoutSweep, vars, Tick, Buy, Sell, SetOptIn, ApplyStayBoost,
         DecayPrice, FreezeAccount

(* Neither withdraw nor send_to_events touches investors' principal: money  *)
(* that leaves a fund below its stakes is exactly what short() locks.       *)
THEOREM PrincipalOnlyLentHolds == Spec => PrincipalOnlyLentToShorts
<1>1. Rows /\ [Next]_vars
        => [\A f \in Users :
              fund[f].cash' < fund[f].cash
                => \/ fund[f].cash' >= Stakes(fund'[f])
                   \/ LockedFund(f)' - LockedFund(f) = fund[f].cash - fund[f].cash']_vars
  BY NextKeepsPrincipal DEF PrincipalKept
<1> QED
  BY <1>1, RowsHold, PTL DEF Spec, PrincipalOnlyLentToShorts

-----------------------------------------------------------------------------
(* Conservation of money.  FundCash and Held are the functions that Money   *)
(* sums; a step changes each of the four parts for one member at most.      *)
FundCash == [u \in Users |-> fund[u].cash]
LockedIn(u, t) == short[u][t].lockedCash + short[u][t].lockedFund
LockedRow(u) == [t \in Users |-> LockedIn(u, t)]
Held == [u \in Users |-> Locked(u)]

LEMMA MoneyParts ==
    ASSUME Rows
    PROVE  /\ cash \in [Users -> Int] /\ FundCash \in [Users -> Int]
           /\ Held \in [Users -> Int] /\ wallet \in Int
           /\ \A u \in Users : LockedRow(u) \in [Users -> Int]
           /\ SumOf(cash) \in Int /\ SumOf(FundCash) \in Int /\ SumOf(Held) \in Int
           /\ \A u \in Users : Held[u] = SumOf(LockedRow(u))
<1>1. cash \in [Users -> Int] /\ FundCash \in [Users -> Int] /\ wallet \in Int
  BY DEF Rows, FundCash, FundRow
<1>2. ASSUME NEW u \in Users
      PROVE  /\ LockedRow(u) \in [Users -> Int]
             /\ Held[u] = SumOf(LockedRow(u)) /\ Held[u] \in Int
  <2>1. LockedRow(u) \in [Users -> Int]
    BY DEF Rows, ShortRow, LockedRow, LockedIn
  <2>2. Held[u] = SumOf(LockedRow(u))
    BY Zenon DEF Held, Locked, LockedRow, LockedIn, Total, SumOf
  <2> QED
    BY <2>1, <2>2, SumInt, MembersAssumption
<1>3. Held \in [Users -> Int]
  BY <1>2 DEF Held
<1> QED
  BY <1>1, <1>2, <1>3, SumInt, MembersAssumption

LEMMA MoneyIs ==
    /\ Money = SumOf(cash) + wallet + SumOf(FundCash) + SumOf(Held)
    /\ Money' = SumOf(cash') + wallet' + SumOf(FundCash') + SumOf(Held')
<1>1. Money = SumOf(cash) + wallet + SumOf(FundCash) + SumOf(Held)
  BY Zenon DEF Money, SumOf, Total, FundCash, Held
<1>2. Money' = SumOf(cash') + wallet' + SumOf(FundCash') + SumOf(Held')
  BY Zenon DEF Money, SumOf, Total, FundCash, Held,
               FoldFunction, FoldFunctionOnSet, MapThenFoldSet
<1> QED
  BY <1>1, <1>2

(* The primed rows of a step, in the same form. *)
LEMMA MoneyPartsNext ==
    ASSUME Rows'
    PROVE  /\ cash' \in [Users -> Int] /\ FundCash' \in [Users -> Int]
           /\ Held' \in [Users -> Int] /\ wallet' \in Int
           /\ \A u \in Users : LockedRow(u)' \in [Users -> Int]
           /\ \A u \in Users : Held'[u] = SumOf(LockedRow(u)')
<1>1. cash' \in [Users -> Int] /\ FundCash' \in [Users -> Int] /\ wallet' \in Int
  BY DEF Rows, FundCash, FundRow
<1>2. ASSUME NEW u \in Users
      PROVE  /\ LockedRow(u)' \in [Users -> Int]
             /\ Held'[u] = SumOf(LockedRow(u)') /\ Held'[u] \in Int
  <2>1. LockedRow(u)' \in [Users -> Int]
    BY DEF Rows, ShortRow, LockedRow, LockedIn
  <2>2. Held'[u] = SumOf(LockedRow(u)')
    BY Zenon DEF Held, Locked, LockedRow, LockedIn, Total, SumOf,
                 FoldFunction, FoldFunctionOnSet, MapThenFoldSet
  <2> QED
    BY <2>1, <2>2, SumInt, MembersAssumption
<1>3. Held' \in [Users -> Int]
  BY <1>2 DEF Held
<1> QED
  BY <1>1, <1>2, <1>3

(* A step that touches the cash of u, the fund of v, one short of x and the *)
(* wallet changes Money by what it changes them by.                         *)
CashChange(u) == cash'[u] - cash[u]
FundChange(v) == fund'[v].cash - fund[v].cash
LockedChange(x, t) == LockedIn(x, t)' - LockedIn(x, t)

LEMMA MoneyMoves ==
    ASSUME Rows, Rows',
           NEW u \in Users, NEW v \in Users, NEW x \in Users, NEW t \in Users,
           \A y \in Users : y # u => cash'[y] = cash[y],
           \A y \in Users : y # v => fund'[y].cash = fund[y].cash,
           \A y \in Users, w \in Users :
              y # x \/ w # t => LockedIn(y, w)' = LockedIn(y, w)
    PROVE  Money' - Money
             = CashChange(u) + FundChange(v) + LockedChange(x, t) + (wallet' - wallet)
<1>1. SumOf(cash') = SumOf(cash) + CashChange(u)
  <2>1. cash \in [Users -> Int] /\ cash' \in [Users -> Int]
    BY MoneyParts, MoneyPartsNext
  <2>2. SumOf(cash') = SumOf(cash) + (cash'[u] - cash[u])
    BY <2>1, SumChange, MembersAssumption
  <2> QED
    BY <2>2 DEF CashChange
<1>2. SumOf(FundCash') = SumOf(FundCash) + FundChange(v)
  <2>1. \A y \in Users : FundCash'[y] = fund'[y].cash /\ FundCash[y] = fund[y].cash
    BY DEF FundCash
  <2>2. FundCash \in [Users -> Int] /\ FundCash' \in [Users -> Int]
    BY MoneyParts, MoneyPartsNext
  <2>3. SumOf(FundCash') = SumOf(FundCash) + (FundCash'[v] - FundCash[v])
    BY <2>1, <2>2, SumChange, MembersAssumption
  <2> QED
    BY <2>1, <2>3 DEF FundChange
<1>3. Held'[x] = Held[x] + LockedChange(x, t)
  <2>1. \A w \in Users : /\ LockedRow(x)'[w] = LockedIn(x, w)'
                         /\ LockedRow(x)[w] = LockedIn(x, w)
    BY DEF LockedRow
  <2>2. SumOf(LockedRow(x)') = SumOf(LockedRow(x)) + (LockedRow(x)'[t] - LockedRow(x)[t])
    BY <2>1, MoneyParts, MoneyPartsNext, SumChange, MembersAssumption
  <2> QED
    BY <2>1, <2>2, MoneyParts, MoneyPartsNext DEF LockedChange
<1>4. ASSUME NEW y \in Users, y # x
      PROVE  Held'[y] = Held[y]
  <2>1. LockedRow(y)' = LockedRow(y)
    BY <1>4 DEF LockedRow
  <2> QED
    BY <2>1, MoneyParts, MoneyPartsNext
<1>5. SumOf(Held') = SumOf(Held) + LockedChange(x, t)
  <2>1. Held \in [Users -> Int] /\ Held' \in [Users -> Int]
    BY MoneyParts, MoneyPartsNext
  <2>2. SumOf(Held') = SumOf(Held) + (Held'[x] - Held[x])
    BY <1>4, <2>1, SumChange, MembersAssumption
  <2>3. Held[x] \in Int /\ LockedChange(x, t) \in Int
    BY <2>1 DEF Rows, ShortRow, LockedIn, LockedChange
  <2> QED
    BY <1>3, <2>2, <2>3
<1>6. CashChange(u) \in Int /\ FundChange(v) \in Int /\ LockedChange(x, t) \in Int
  BY DEF Rows, FundRow, ShortRow, LockedIn, CashChange, FundChange, LockedChange
<1>7. wallet' \in Int
  BY MoneyPartsNext
<1> QED
  BY <1>1, <1>2, <1>5, <1>6, <1>7, MoneyIs, MoneyParts

(* What the market pays in a step that trades one pair only. *)
ProceedsRow(u) == [t \in Users |-> Proceeds(u, t)]
AllProceeds == Total([u \in Users |-> Total([t \in Users |-> Proceeds(u, t)])])

LEMMA ProceedsType ==
    ASSUME Rows, Rows', NEW u \in Users, NEW t \in Users
    PROVE  Proceeds(u, t) \in Int
<1> DEFINE covered == Greatest(short[u][t].shares - short'[u][t].shares, 0)
<1>1. /\ price[t] \in Int /\ long[u][t] \in Int /\ long'[u][t] \in Int
      /\ short[u][t].shares \in Int /\ short'[u][t].shares \in Int
      /\ short[u][t].entry \in Int
  BY DEF Rows, PriceInv, ShortRow
<1>2. covered \in Int
  BY <1>1 DEF Greatest
<1>3. Proceeds(u, t) = price[t] * (long[u][t] - long'[u][t]) - covered * price[t]
                       + Greatest(covered * (short[u][t].entry - price[t]), 0)
  BY DEF Proceeds
<1> HIDE DEF covered
<1>4. covered * (short[u][t].entry - price[t]) \in Int
  BY <1>1, <1>2
<1>5. Greatest(covered * (short[u][t].entry - price[t]), 0) \in Int
  BY <1>4 DEF Greatest
<1> QED
  BY <1>1, <1>2, <1>3, <1>5

LEMMA NothingTraded ==
    ASSUME Rows, Rows', NEW u \in Users, NEW t \in Users,
           long'[u][t] = long[u][t], short'[u][t].shares >= short[u][t].shares
    PROVE  Proceeds(u, t) = 0
<1>1. /\ price[t] \in Int /\ long[u][t] \in Int
      /\ short[u][t].shares \in Int /\ short'[u][t].shares \in Int
      /\ short[u][t].entry \in Int
  BY DEF Rows, PriceInv, ShortRow
<1>2. Greatest(short[u][t].shares - short'[u][t].shares, 0) = 0
  BY <1>1 DEF Greatest
<1>3. Proceeds(u, t) = price[t] * (long[u][t] - long'[u][t]) - 0 * price[t]
                       + Greatest(0 * (short[u][t].entry - price[t]), 0)
  BY <1>2 DEF Proceeds
<1>4. 0 * (short[u][t].entry - price[t]) = 0 /\ long[u][t] - long'[u][t] = 0
  BY <1>1
<1> QED
  BY <1>1, <1>3, <1>4 DEF Greatest

LEMMA OnePairTraded ==
    ASSUME Rows, Rows', NEW u \in Users, NEW t \in Users,
           \A v \in Users, w \in Users : v # u \/ w # t => Proceeds(v, w) = 0
    PROVE  AllProceeds = Proceeds(u, t)
<1>1. ASSUME NEW v \in Users
      PROVE  ProceedsRow(v) \in [Users -> Int]
  BY ProceedsType DEF ProceedsRow
<1>2. SumOf(ProceedsRow(u)) = Proceeds(u, t)
  <2>1. \A w \in Users : w # t => ProceedsRow(u)[w] = 0
    BY DEF ProceedsRow
  <2>2. SumOf(ProceedsRow(u)) = ProceedsRow(u)[t]
    BY <1>1, <2>1, SumSingle, MembersAssumption
  <2> QED
    BY <2>2 DEF ProceedsRow
<1>3. ASSUME NEW v \in Users, v # u
      PROVE  SumOf(ProceedsRow(v)) = 0
  <2>1. \A w \in Users : ProceedsRow(v)[w] = 0
    BY <1>3 DEF ProceedsRow
  <2>2. SumOf(ProceedsRow(v)) = ProceedsRow(v)[v]
    BY <1>1, <2>1, SumSingle, MembersAssumption
  <2> QED
    BY <2>1, <2>2
<1> DEFINE rows == [v \in Users |-> SumOf(ProceedsRow(v))]
<1>4. rows \in [Users -> Int] /\ \A v \in Users : v # u => rows[v] = 0
  BY <1>1, <1>3, SumInt, MembersAssumption
<1>5. AllProceeds = SumOf(rows)
  BY Zenon DEF AllProceeds, Total, SumOf, ProceedsRow
<1>6. rows[u] = Proceeds(u, t)
  BY <1>2
<1> HIDE DEF rows
<1>7. SumOf(rows) = rows[u]
  BY <1>4, SumSingle, MembersAssumption
<1> QED
  BY <1>5, <1>6, <1>7

LEMMA NoPairTraded ==
    ASSUME Rows, Rows', UNCHANGED long,
           \A v \in Users, w \in Users : short'[v][w].shares >= short[v][w].shares
    PROVE  AllProceeds = 0
<1> DEFINE zero == [v \in Users |-> 0]
<1>1. \A v \in Users, w \in Users : Proceeds(v, w) = 0
  BY NothingTraded
<1>2. SumOf(zero) = 0
  BY SumZero, MembersAssumption
<1>3. ASSUME NEW v \in Users
      PROVE  SumOf(ProceedsRow(v)) = 0
  <2>1. ProceedsRow(v) = zero
    BY <1>1 DEF ProceedsRow
  <2> QED
    BY <2>1, <1>2, Zenon
<1>4. [v \in Users |-> SumOf(ProceedsRow(v))] = zero
  BY <1>3
<1>5. AllProceeds = SumOf([v \in Users |-> SumOf(ProceedsRow(v))])
  BY Zenon DEF AllProceeds, Total, SumOf, ProceedsRow
<1> HIDE DEF zero
<1> QED
  BY <1>2, <1>4, <1>5, Zenon

Accounted == Money' - Money = AllProceeds

(* Steps that trade nothing: money may move between the cash of u, the fund *)
(* of v and the wallet.                                                     *)
LEMMA TransferAccounted ==
    ASSUME Rows, Rows', NEW u \in Users, NEW v \in Users,
           \A y \in Users : y # u => cash'[y] = cash[y],
           \A y \in Users : y # v => fund'[y].cash = fund[y].cash,
           CashChange(u) + FundChange(v) + (wallet' - wallet) = 0,
           UNCHANGED long,
           \A y \in Users, w \in Users :
              LockedIn(y, w)' = LockedIn(y, w) /\ short'[y][w].shares = short[y][w].shares
    PROVE  Accounted
<1>1. AllProceeds = 0
  <2>1. \A y \in Users, w \in Users : short'[y][w].shares >= short[y][w].shares
    BY DEF Rows, ShortRow
  <2> QED
    BY <2>1, NoPairTraded
<1>2. LockedChange(u, u) = 0
  <2>1. LockedIn(u, u) \in Int
    BY DEF Rows, ShortRow, LockedIn
  <2> QED
    BY <2>1 DEF LockedChange
<1>3. Money' - Money
        = CashChange(u) + FundChange(v) + LockedChange(u, u) + (wallet' - wallet)
  BY MoneyMoves
<1>4. CashChange(u) \in Int /\ FundChange(v) \in Int /\ wallet' - wallet \in Int
  BY DEF Rows, FundRow, CashChange, FundChange
<1> QED
  BY <1>1, <1>2, <1>3, <1>4 DEF Accounted

LEMMA NothingMovesAccounted ==
    ASSUME Rows, Rows', NEW u \in Users, UNCHANGED <<cash, wallet, long>>,
           \A y \in Users : fund'[y].cash = fund[y].cash,
           \A y \in Users, w \in Users :
              LockedIn(y, w)' = LockedIn(y, w) /\ short'[y][w].shares = short[y][w].shares
    PROVE  Accounted
<1>1. CashChange(u) = 0 /\ FundChange(u) = 0 /\ wallet' - wallet = 0
  BY DEF Rows, FundRow, CashChange, FundChange
<1>2. CashChange(u) + FundChange(u) + (wallet' - wallet) = 0
  BY <1>1
<1> QED
  BY <1>2, TransferAccounted

(* Steps that trade one pair. *)
LEMMA TradeAccounted ==
    ASSUME Rows, Rows', NEW u \in Users, NEW t \in Users,
           \A y \in Users : y # u => cash'[y] = cash[y] /\ fund'[y].cash = fund[y].cash,
           \A y \in Users, w \in Users :
              y # u \/ w # t => long'[y][w] = long[y][w] /\ short'[y][w] = short[y][w],
           UNCHANGED wallet,
           CashChange(u) + FundChange(u) + LockedChange(u, t) = Proceeds(u, t)
    PROVE  Accounted
<1>1. \A y \in Users, w \in Users :
        y # u \/ w # t => LockedIn(y, w)' = LockedIn(y, w) /\ Proceeds(y, w) = 0
  <2> SUFFICES ASSUME NEW y \in Users, NEW w \in Users, y # u \/ w # t
               PROVE  LockedIn(y, w)' = LockedIn(y, w) /\ Proceeds(y, w) = 0
      OBVIOUS
  <2>1. short'[y][w] = short[y][w] /\ long'[y][w] = long[y][w]
    OBVIOUS
  <2>2. short'[y][w].shares >= short[y][w].shares
    BY <2>1 DEF Rows, ShortRow
  <2> QED
    BY <2>1, <2>2, NothingTraded DEF LockedIn
<1>2. AllProceeds = Proceeds(u, t)
  BY <1>1, OnePairTraded
<1>3. Money' - Money
        = CashChange(u) + FundChange(u) + LockedChange(u, t) + (wallet' - wallet)
  BY <1>1, MoneyMoves
<1>4. /\ CashChange(u) \in Int /\ FundChange(u) \in Int /\ LockedChange(u, t) \in Int
      /\ wallet' - wallet = 0
  BY DEF Rows, FundRow, ShortRow, LockedIn, CashChange, FundChange, LockedChange
<1> QED
  BY <1>2, <1>3, <1>4 DEF Accounted

LEMMA BuySellAccounted ==
    ASSUME Rows, Rows', NEW u \in Users, NEW t \in Users, NEW n \in Nat \ {0},
           Buy(u, t, n) \/ Sell(u, t, n)
    PROVE  Accounted
<1> DEFINE bought == long'[u][t] - long[u][t]
<1>1. /\ price[t] \in Int /\ long[u][t] \in Int /\ long'[u][t] \in Int
      /\ cash[u] \in Int /\ cash'[u] \in Int
      /\ fund[u].cash \in Int /\ LockedIn(u, t) \in Int
      /\ short[u][t].shares \in Int /\ short[u][t].entry \in Int
  BY DEF Rows, PriceInv, FundRow, ShortRow, LockedIn
<1>2. /\ UNCHANGED <<short, fund, wallet>>
      /\ \A y \in Users : y # u => cash'[y] = cash[y]
      /\ \A y \in Users, w \in Users : y # u \/ w # t => long'[y][w] = long[y][w]
  <2>1. CASE Buy(u, t, n)
    BY <2>1 DEF Rows, Buy
  <2>2. CASE Sell(u, t, n)
    BY <2>2 DEF Rows, Sell
  <2> QED
    BY <2>1, <2>2
<1>3. CashChange(u) = price[t] * (long[u][t] - long'[u][t])
  <2>1. CASE Buy(u, t, n)
    <3>1. cash'[u] = cash[u] - n * price[t] /\ long'[u][t] = long[u][t] + n
      BY <2>1 DEF Rows, Buy
    <3>2. n * price[t] \in Int /\ long[u][t] - long'[u][t] = -n
      BY <1>1, <3>1
    <3>3. price[t] * (-n) = -(n * price[t])
      BY <1>1
    <3> QED
      BY <1>1, <3>1, <3>2, <3>3 DEF CashChange
  <2>2. CASE Sell(u, t, n)
    <3>1. cash'[u] = cash[u] + n * price[t] /\ long'[u][t] = long[u][t] - n
      BY <2>2 DEF Rows, Sell
    <3>2. n * price[t] \in Int /\ long[u][t] - long'[u][t] = n
      BY <1>1, <3>1
    <3> QED
      BY <1>1, <3>1, <3>2 DEF CashChange
  <2> QED
    BY <2>1, <2>2
<1>4. Proceeds(u, t) = price[t] * (long[u][t] - long'[u][t])
  <2>1. Greatest(short[u][t].shares - short'[u][t].shares, 0) = 0
    BY <1>1, <1>2 DEF Greatest
  <2>2. Proceeds(u, t) = price[t] * (long[u][t] - long'[u][t]) - 0 * price[t]
                         + Greatest(0 * (short[u][t].entry - price[t]), 0)
    BY <2>1 DEF Proceeds
  <2>3. 0 * (short[u][t].entry - price[t]) = 0 /\ Greatest(0, 0) = 0
    BY <1>1 DEF Greatest
  <2>4. price[t] * (long[u][t] - long'[u][t]) \in Int
    BY <1>1
  <2> QED
    BY <1>1, <2>2, <2>3, <2>4
<1>5. FundChange(u) = 0 /\ LockedChange(u, t) = 0
  BY <1>1, <1>2 DEF FundChange, LockedChange, LockedIn
<1>6. CashChange(u) + FundChange(u) + LockedChange(u, t) = Proceeds(u, t)
  <2>1. CashChange(u) \in Int
    BY <1>1 DEF CashChange
  <2> QED
    BY <2>1, <1>3, <1>4, <1>5
<1> QED
  BY <1>2, <1>6, TradeAccounted

(* What a short locks is what leaves the cash and the fund of its holder.   *)
LEMMA ShortAccounted ==
    ASSUME Rows, Rows', NEW u \in Users, NEW t \in Users, NEW n \in Nat \ {0},
           Short(u, t, n)
    PROVE  Accounted
<1> DEFINE held == short[u][t]
           notional == n * price[t]
           fromCash == Least(cash[u], notional)
           fromFund == Least(Quantise(fund[u].cash, 2), notional - fromCash)
<1>1. /\ price[t] \in Nat /\ cash[u] \in Nat /\ fund[u].cash \in Nat
      /\ held.shares \in Nat /\ held.entry \in Nat /\ long[u][t] \in Nat
      /\ held.lockedCash \in Nat /\ held.lockedFund \in Nat
  BY DEF Rows, PriceInv, FundRow, ShortRow
<1>2. /\ fromCash \in Nat /\ fromFund \in Nat /\ fund[u].cash - fromFund \in Nat
  <2>1. notional \in Nat
    BY <1>1
  <2> QED
    BY <1>1, <2>1, CollateralInBounds
<1>3. SetFundCash(u, fund[u].cash - fromFund)
  BY DEF Short
<1>4. /\ fund'[u].cash = fund[u].cash - fromFund
      /\ \A y \in Users : y # u => fund'[y] = fund[y]
  BY <1>2, <1>3, SetFundCashRows DEF Rows
<1>5. /\ cash'[u] = cash[u] - fromCash
      /\ short'[u][t].lockedCash = held.lockedCash + fromCash
      /\ short'[u][t].lockedFund = held.lockedFund + fromFund
      /\ short'[u][t].shares = held.shares + n
      /\ UNCHANGED <<long, wallet>>
      /\ \A y \in Users : y # u => cash'[y] = cash[y]
      /\ \A y \in Users, w \in Users : y # u \/ w # t => short'[y][w] = short[y][w]
  BY DEF Rows, Short
<1> HIDE DEF fromCash, fromFund
<1>6. /\ CashChange(u) = -fromCash /\ FundChange(u) = -fromFund
      /\ LockedChange(u, t) = fromCash + fromFund
  BY <1>1, <1>2, <1>4, <1>5 DEF CashChange, FundChange, LockedChange, LockedIn
<1>7. Proceeds(u, t) = 0
  <2>1. short'[u][t].shares >= short[u][t].shares /\ long'[u][t] = long[u][t]
    BY <1>1, <1>5
  <2> QED
    BY <2>1, NothingTraded
<1>8. CashChange(u) + FundChange(u) + LockedChange(u, t) = Proceeds(u, t)
  BY <1>2, <1>6, <1>7
<1> QED
  BY <1>4, <1>5, <1>8, TradeAccounted

(* What a cover releases goes to the cash and the fund it came from; the    *)
(* rest of what moves is the cost and the profit.                           *)
LEMMA CoverAccounted ==
    ASSUME Rows, Rows', NEW u \in Users, NEW t \in Users, NEW n \in Nat \ {0},
           CoverInternal(u, t, n)
    PROVE  Accounted
<1> DEFINE held == short[u][t]
           pnl == n * (held.entry - price[t])
           fromCash == Released(held, held.lockedCash, n)
           fromFund == Released(held, held.lockedFund, n)
           new == IF n = held.shares THEN NoShort
                  ELSE [held EXCEPT !.shares = @ - n,
                                    !.lockedCash = @ - fromCash,
                                    !.lockedFund = @ - fromFund]
<1>1. /\ price[t] \in Nat /\ cash[u] \in Nat /\ fund[u].cash \in Nat
      /\ held \in ShortRow
      /\ held.shares \in Nat /\ held.entry \in Nat /\ long[u][t] \in Nat
      /\ held.lockedCash \in Nat /\ held.lockedFund \in Nat
  BY DEF Rows, PriceInv, FundRow, ShortRow
<1>2. /\ held.shares >= n
      /\ short' = [short EXCEPT ![u][t] = new]
      /\ cash' = [cash EXCEPT ![u] = @ - n * price[t] + fromCash + Greatest(pnl, 0)]
      /\ SetFundCash(u, fund[u].cash + fromFund)
      /\ UNCHANGED <<long, wallet>>
  BY DEF CoverInternal, Released
<1>3. fromCash \in Nat /\ fromFund \in Nat
  BY <1>1, <1>2, ReleasedInBounds
<1>4. /\ n = held.shares => fromCash = held.lockedCash /\ fromFund = held.lockedFund
  BY DEF Released
<1> HIDE DEF fromCash, fromFund
<1>5. /\ short'[u][t].shares = held.shares - n
      /\ short'[u][t].lockedCash = held.lockedCash - fromCash
      /\ short'[u][t].lockedFund = held.lockedFund - fromFund
  <2>1. short'[u][t] = new
    BY <1>2 DEF Rows
  <2>2. CASE n = held.shares
    BY <2>1, <2>2, <1>1, <1>4 DEF NoShort
  <2>3. CASE n # held.shares
    BY <2>1, <2>3, <1>1 DEF ShortRow
  <2> QED
    BY <2>2, <2>3
<1> HIDE DEF new
<1>6. /\ \A y \in Users : y # u => cash'[y] = cash[y]
      /\ \A y \in Users, w \in Users : y # u \/ w # t => short'[y][w] = short[y][w]
      /\ cash'[u] = cash[u] - n * price[t] + fromCash + Greatest(pnl, 0)
  BY <1>2 DEF Rows
<1>7. /\ fund'[u].cash = fund[u].cash + fromFund
      /\ \A y \in Users : y # u => fund'[y] = fund[y]
  <2>1. fund[u].cash + fromFund \in Nat
    BY <1>1, <1>3
  <2> QED
    BY <1>2, <2>1, SetFundCashRows DEF Rows
<1>8. pnl \in Int /\ Greatest(pnl, 0) \in Int /\ n * price[t] \in Int
  <2>1. pnl \in Int
    BY <1>1
  <2> QED
    BY <1>1, <2>1 DEF Greatest
<1>9. Proceeds(u, t) = Greatest(pnl, 0) - n * price[t]
  <2>1. Greatest(short[u][t].shares - short'[u][t].shares, 0) = n
    BY <1>1, <1>5 DEF Greatest
  <2>2. Proceeds(u, t) = price[t] * (long[u][t] - long'[u][t]) - n * price[t] + Greatest(pnl, 0)
    BY <2>1 DEF Proceeds
  <2>3. price[t] * (long[u][t] - long'[u][t]) = 0
    BY <1>1, <1>2
  <2> HIDE DEF pnl
  <2> QED
    BY <2>2, <2>3, <1>8
<1> HIDE DEF pnl
<1>10. /\ CashChange(u) = Greatest(pnl, 0) - n * price[t] + fromCash
       /\ FundChange(u) = fromFund
       /\ LockedChange(u, t) = -(fromCash + fromFund)
  <2>1. CashChange(u) = Greatest(pnl, 0) - n * price[t] + fromCash
    BY <1>1, <1>3, <1>6, <1>8 DEF CashChange
  <2>2. FundChange(u) = fromFund
    BY <1>1, <1>3, <1>7 DEF FundChange
  <2>3. LockedChange(u, t) = -(fromCash + fromFund)
    BY <1>1, <1>3, <1>5 DEF LockedChange, LockedIn
  <2> QED
    BY <2>1, <2>2, <2>3
<1>11. CashChange(u) + FundChange(u) + LockedChange(u, t) = Proceeds(u, t)
  BY <1>3, <1>8, <1>9, <1>10
<1> QED
  BY <1>2, <1>6, <1>7, <1>11, TradeAccounted

LEMMA FundMovesAccounted ==
    ASSUME Rows, Rows', NEW i \in Users, NEW g \in Users, NEW amount \in Nat \ {0},
           \/ Invest(i, g, amount) \/ SendToEvents(g, amount)
           \/ \E sampled : Withdraw(g, amount, sampled)
    PROVE  Accounted
<1>1. \A u \in Users : cash[u] \in Int /\ fund[u].cash \in Int
  BY DEF Rows, FundRow
<1>2. wallet \in Int
  BY DEF Rows
<1>3. \A y \in Users, w \in Users :
        UNCHANGED short
          => LockedIn(y, w)' = LockedIn(y, w) /\ short'[y][w].shares = short[y][w].shares
  BY DEF LockedIn
<1>4. CASE Invest(i, g, amount)
  <2>1. /\ cash'[i] = cash[i] - amount /\ \A y \in Users : y # i => cash'[y] = cash[y]
        /\ UNCHANGED <<wallet, long, short>>
    BY <1>4 DEF Rows, Invest
  <2>2. /\ fund'[g].cash = fund[g].cash + amount
        /\ \A y \in Users : y # g => fund'[y].cash = fund[y].cash
    BY <1>4 DEF Rows, FundRow, Invest
  <2>3. CashChange(i) + FundChange(g) + (wallet' - wallet) = 0
    BY <1>1, <1>2, <2>1, <2>2 DEF CashChange, FundChange
  <2> QED
    BY <1>3, <2>1, <2>2, <2>3, TransferAccounted
<1>5. CASE SendToEvents(g, amount)
  <2>1. UNCHANGED <<cash, long, short>> /\ wallet' = wallet + amount
    BY <1>5 DEF SendToEvents
  <2>2. /\ fund'[g].cash = fund[g].cash - amount
        /\ \A y \in Users : y # g => fund'[y].cash = fund[y].cash
    BY <1>5 DEF Rows, FundRow, SendToEvents
  <2>3. CashChange(i) + FundChange(g) + (wallet' - wallet) = 0
    BY <1>1, <1>2, <2>1, <2>2 DEF CashChange, FundChange
  <2> QED
    BY <1>3, <2>1, <2>2, <2>3, TransferAccounted
<1>6. ASSUME NEW sampled, Withdraw(g, amount, sampled)
      PROVE  Accounted
  <2>1. /\ cash'[g] = cash[g] + amount /\ \A y \in Users : y # g => cash'[y] = cash[y]
        /\ UNCHANGED <<wallet, long, short>>
    BY <1>6 DEF Rows, Withdraw
  <2>2. /\ fund'[g].cash = fund[g].cash - amount
        /\ \A y \in Users : y # g => fund'[y].cash = fund[y].cash
    BY <1>6 DEF Rows, FundRow, Withdraw
  <2>3. CashChange(g) + FundChange(g) + (wallet' - wallet) = 0
    BY <1>1, <1>2, <2>1, <2>2 DEF CashChange, FundChange
  <2> QED
    BY <1>3, <2>1, <2>2, <2>3, TransferAccounted
<1> QED
  BY <1>4, <1>5, <1>6

LEMMA QuietAccounted ==
    ASSUME Rows, Rows', NEW u \in Users,
           \/ CreateFund(u) \/ ApplyStayBoost(u) \/ DecayPrice(u)
           \/ \E value \in BOOLEAN : SetOptIn(u, value)
           \/ \E sampled : FreezeAccount(u, sampled)
    PROVE  Accounted
<1>1. UNCHANGED <<cash, wallet, long>>
  BY DEF CreateFund, ApplyStayBoost, DecayPrice, SetOptIn, FreezeAccount
<1>2. ASSUME NEW y \in Users
      PROVE  fund'[y].cash = fund[y].cash
  <2>1. CASE CreateFund(u)
    BY <2>1 DEF Rows, FundRow, CreateFund
  <2>2. CASE UNCHANGED fund
    BY <2>2
  <2> QED
    BY <2>1, <2>2 DEF ApplyStayBoost, DecayPrice, SetOptIn, FreezeAccount
<1>3. ASSUME NEW y \in Users, NEW w \in Users
      PROVE  LockedIn(y, w)' = LockedIn(y, w) /\ short'[y][w].shares = short[y][w].shares
  <2>1. CASE UNCHANGED short
    BY <2>1 DEF LockedIn
  <2>2. ASSUME NEW sampled, FreezeAccount(u, sampled)
        PROVE  /\ short'[y][w].lockedCash = short[y][w].lockedCash
               /\ short'[y][w].lockedFund = short[y][w].lockedFund
               /\ short'[y][w].shares = short[y][w].shares
    BY <2>2 DEF Rows, ShortRow, FreezeAccount
  <2> QED
    BY <2>1, <2>2 DEF LockedIn, CreateFund, ApplyStayBoost, DecayPrice, SetOptIn
<1> QED
  BY <1>1, <1>2, <1>3, NothingMovesAccounted

LEMMA TickAccounted ==
    ASSUME Rows, Rows', Tick
    PROVE  Accounted
<1>1. UNCHANGED <<cash, wallet, fund, short, long>>
  BY DEF Tick
<1>2. \A v \in Users, w \in Users : short'[v][w].shares >= short[v][w].shares
  BY <1>1 DEF Rows, ShortRow
<1>3. AllProceeds = 0
  BY <1>1, <1>2, NoPairTraded
<1>4. SumOf(cash') = SumOf(cash) /\ SumOf(FundCash') = SumOf(FundCash)
      /\ SumOf(Held') = SumOf(Held)
  <2>1. FundCash' = FundCash
    BY <1>1 DEF FundCash
  <2>2. Held' = Held
    BY <1>1 DEF Held, Locked
  <2> QED
    BY <1>1, <2>1, <2>2
<1>5. Money' = Money /\ Money \in Int
  BY <1>1, <1>4, MoneyIs, MoneyParts
<1> QED
  BY <1>3, <1>5 DEF Accounted

-----------------------------------------------------------------------------
(* Interest.  Rounding half to even adds at most half a cent.               *)
LEMMA QuantiseAddsHalf ==
    ASSUME NEW n \in Int, NEW d \in Nat \ {0}
    PROVE  2 * (d * Quantise(n, d)) <= 2 * n + d
<1>1. /\ n \div d \in Int /\ n % d \in 0..(d - 1)
      /\ n = d * (n \div d) + (n % d)
  BY Division
<1> DEFINE q == n \div d
           r == n % d
<1>2. d * (q + 1) = d * q + d
  BY <1>1
<1>3. Quantise(n, d) = q \/ (Quantise(n, d) = q + 1 /\ 2 * r >= d)
  BY <1>1 DEF Quantise
<1> HIDE DEF q, r
<1>4. q \in Int /\ r \in 0..(d - 1) /\ n = d * q + r /\ d * q \in Int
  BY <1>1 DEF q, r
<1> QED
  BY <1>2, <1>3, <1>4

LEMMA QuantiseDropsHalf ==
    ASSUME NEW n \in Int, NEW d \in Nat \ {0}
    PROVE  2 * (d * Quantise(n, d)) >= 2 * n - d
<1>1. /\ n \div d \in Int /\ n % d \in 0..(d - 1)
      /\ n = d * (n \div d) + (n % d)
  BY Division
<1> DEFINE q == n \div d
           r == n % d
<1>2. d * (q + 1) = d * q + d
  BY <1>1
<1>3. (Quantise(n, d) = q /\ 2 * r <= d) \/ Quantise(n, d) = q + 1
  BY <1>1 DEF Quantise
<1> HIDE DEF q, r
<1>4. q \in Int /\ r \in 0..(d - 1) /\ n = d * q + r /\ d * q \in Int
  BY <1>1 DEF q, r
<1> QED
  BY <1>2, <1>3, <1>4

(* A stake bears the interest of its rate, but for one rounding. *)
LEMMA StakeBearsInterest ==
    ASSUME NEW stake \in Nat, NEW apy \in Nat
    PROVE  InterestOn(stake, apy, WithInterest(stake, apy) - stake, 1)
<1> DEFINE d == 100 * PeriodsPerYear
           w == Quantise(stake * (d + apy), d)
<1>1. d \in Nat \ {0}
  BY SettingsAssumption
<1>2. WithInterest(stake, apy) = w
  BY DEF WithInterest
<1>3. InterestOn(stake, apy, w - stake, 1)
        <=> /\ 2 * (d * (w - stake) - stake * apy) <= 1 * d
            /\ 2 * (d * (w - stake) - stake * apy) >= -(1 * d)
  BY DEF InterestOn
<1> HIDE DEF d
<1>4. stake * (d + apy) = d * stake + stake * apy /\ d * stake \in Int /\ stake * apy \in Int
  BY <1>1
<1>5. /\ w \in Int
      /\ 2 * (d * w) <= 2 * (d * stake + stake * apy) + d
      /\ 2 * (d * w) >= 2 * (d * stake + stake * apy) - d
  BY <1>1, <1>4, QuantiseInt, QuantiseAddsHalf, QuantiseDropsHalf
<1> HIDE DEF w
<1>6. d * (w - stake) = d * w - d * stake /\ d * w \in Int
  BY <1>1, <1>5
<1> QED
  BY <1>1, <1>2, <1>3, <1>4, <1>5, <1>6

(* The manager's and the investors' part of the cash bear interest at the   *)
(* same rate, so together they bear that of all of it, but for two          *)
(* roundings.                                                               *)
LEMMA AccrueAccounted ==
    ASSUME Rows, NEW u \in Users, NEW sampled \in Nat, AccrueApy(u, sampled)
    PROVE  InterestPaid(u)
<1> DEFINE apy == EffectiveApy(BaseApy, penalty[u].apr, penalty[u].until, sampled)
           d == 100 * PeriodsPerYear
           own == ManagerBalance(u)
           stakes == Stakes(fund[u])
           i1 == Quantise(own * apy, d)
           i2 == Quantise(stakes * apy, d)
<1>1. /\ fund' = [fund EXCEPT ![u].cash = @ + (i1 + i2),
                              ![u].stakes = [i \in Users |-> WithInterest(@[i], apy)]]
      /\ i1 + i2 >= 1
      /\ UNCHANGED <<cash, long, short, wallet>>
  BY DEF AccrueApy, Interest
<1>2. apy \in 0..BaseApy
  <2>1. penalty[u].apr \in Nat /\ penalty[u].until \in Nat /\ BaseApy \in Nat
    BY SettingsAssumption DEF Rows, PenaltyRow
  <2> QED
    BY <2>1, ApyType DEF EffectiveApy, Greatest
<1>3. d \in Nat \ {0}
  BY SettingsAssumption
<1> HIDE DEF apy, d
<1>4. /\ fund[u].cash \in Nat /\ stakes \in Nat /\ own \in Int
      /\ own + stakes = fund[u].cash
  BY StakesNat DEF Rows, FundRow, ManagerBalance
<1> HIDE DEF own, stakes
<1>5. own * apy \in Int /\ stakes * apy \in Int
      /\ fund[u].cash * apy = own * apy + stakes * apy
  <2>1. (own + stakes) * apy = own * apy + stakes * apy
    BY <1>2, <1>4
  <2> QED
    BY <2>1, <1>2, <1>4
<1>6. /\ i1 \in Int /\ i2 \in Int
      /\ 2 * (d * i1) <= 2 * (own * apy) + d /\ 2 * (d * i1) >= 2 * (own * apy) - d
      /\ 2 * (d * i2) <= 2 * (stakes * apy) + d /\ 2 * (d * i2) >= 2 * (stakes * apy) - d
  BY <1>3, <1>5, QuantiseInt, QuantiseAddsHalf, QuantiseDropsHalf
<1> HIDE DEF i1, i2
<1>7. d * (i1 + i2) = d * i1 + d * i2 /\ d * i1 \in Int /\ d * i2 \in Int
  BY <1>3, <1>6
<1>8. /\ fund'[u].cash = fund[u].cash + (i1 + i2)
      /\ \A i \in Users : fund'[u].stakes[i] = WithInterest(fund[u].stakes[i], apy)
      /\ fund' = [fund EXCEPT ![u] = fund'[u]]
  BY <1>1 DEF Rows, FundRow
<1>9. InterestOn(fund[u].cash, apy, fund'[u].cash - fund[u].cash, 2)
  <2> DEFINE a == d * i1
             b == d * i2
             x == own * apy
             y == stakes * apy
             off == 2 * (d * (i1 + i2) - fund[u].cash * apy)
  <2>1. off = 2 * ((a + b) - (x + y))
    BY <1>5, <1>7
  <2>2. /\ a \in Int /\ b \in Int /\ x \in Int /\ y \in Int
        /\ 2 * a <= 2 * x + d /\ 2 * b <= 2 * y + d
        /\ 2 * a >= 2 * x - d /\ 2 * b >= 2 * y - d
    BY <1>5, <1>6, <1>7
  <2>3. fund'[u].cash - fund[u].cash = i1 + i2
    BY <1>4, <1>6, <1>8
  <2>4. InterestOn(fund[u].cash, apy, i1 + i2, 2) <=> off <= 2 * d /\ off >= -(2 * d)
    BY DEF InterestOn, d
  <2> HIDE DEF a, b, x, y, off
  <2>5. off <= 2 * d /\ off >= -(2 * d)
    BY <2>1, <2>2, <1>3
  <2> QED
    BY <2>3, <2>4, <2>5
<1>10. \A i \in Users :
         InterestOn(fund[u].stakes[i], apy, fund'[u].stakes[i] - fund[u].stakes[i], 1)
  <2> SUFFICES ASSUME NEW i \in Users
               PROVE  InterestOn(fund[u].stakes[i], apy,
                                 fund'[u].stakes[i] - fund[u].stakes[i], 1)
      OBVIOUS
  <2>1. fund[u].stakes[i] \in Nat /\ apy \in Nat
    BY <1>2 DEF Rows, FundRow
  <2> QED
    BY <1>8, <2>1, StakeBearsInterest
<1>11. fund'[u].cash > fund[u].cash
  BY <1>1, <1>4, <1>6, <1>8
<1> QED
  BY <1>1, <1>2, <1>8, <1>9, <1>10, <1>11 DEF InterestPaid

-----------------------------------------------------------------------------
(* Stakes.  Most steps leave them alone. *)
LEMMA StakesStay ==
    ASSUME Rows, \A f \in Users : fund'[f].stakes = fund[f].stakes
    PROVE  StakesPaidFor
<1>1. \A f \in Users, i \in Users : fund[f].stakes[i] \in Int
  BY DEF Rows, FundRow
<1> QED
  BY <1>1 DEF StakesPaidFor

LEMMA SetFundCashStakes ==
    ASSUME Rows, NEW u \in Users, NEW c, SetFundCash(u, c)
    PROVE  StakesPaidFor
<1>1. \A f \in Users : fund'[f].stakes = fund[f].stakes
  BY DEF Rows, FundRow, SetFundCash
<1> QED
  BY <1>1, StakesStay

LEMMA TakenStakes ==
    ASSUME Rows, NEW u \in Users, NEW c, fund' = [fund EXCEPT ![u].cash = @ - c]
    PROVE  StakesPaidFor
<1>1. \A f \in Users : fund'[f].stakes = fund[f].stakes
  BY DEF Rows, FundRow
<1> QED
  BY <1>1, StakesStay

LEMMA InvestStakes ==
    ASSUME Rows, NEW i \in Users, NEW f \in Users, NEW amount \in Nat, Invest(i, f, amount)
    PROVE  StakesPaidFor
<1>1. \A g \in Users : fund[g].cash \in Nat /\ fund[g].stakes \in [Users -> Nat]
  BY DEF Rows, FundRow
<1>2. /\ fund'[f].cash = fund[f].cash + amount
      /\ fund'[f].stakes = [fund[f].stakes EXCEPT ![i] = @ + amount]
      /\ \A g \in Users : g # f => fund'[g] = fund[g]
  BY DEF Rows, FundRow, Invest
<1>3. cash[i] \in Nat /\ cash'[i] = cash[i] - amount
  BY DEF Rows, Invest
<1> SUFFICES ASSUME NEW g \in Users, NEW j \in Users,
                    fund'[g].stakes[j] - fund[g].stakes[j] # 0
             PROVE  /\ fund'[g].stakes[j] - fund[g].stakes[j] = fund'[g].cash - fund[g].cash
                    /\ fund'[g].stakes[j] - fund[g].stakes[j] = cash[j] - cash'[j]
  BY DEF StakesPaidFor
<1>4. g = f /\ j = i
  BY <1>1, <1>2
<1>5. fund'[f].stakes[i] = fund[f].stakes[i] + amount /\ fund[f].stakes[i] \in Nat
  BY <1>1, <1>2
<1> QED
  BY <1>1, <1>2, <1>3, <1>4, <1>5

(* Only an investment and the interest change stakes. *)
LEMMA NextStakes ==
    ASSUME Rows, Next,
           ~ \E i \in Investments, sampled \in Recent : AccrueApy(i[2], sampled)
    PROVE  StakesPaidFor
<1>1. /\ \A p \in TradePairs : p[1] \in Users /\ p[2] \in Users
      /\ \A i \in Investments : i[1] \in Users /\ i[2] \in Users
  BY MembersAssumption
<1>2. CASE UNCHANGED fund
  BY <1>2, StakesStay
<1>3. ASSUME NEW u \in Users, CreateFund(u)
      PROVE  StakesPaidFor
  <2>1. \A f \in Users : fund'[f].stakes = fund[f].stakes
    BY <1>3 DEF Rows, FundRow, CreateFund
  <2> QED
    BY <2>1, StakesStay
<1>4. ASSUME NEW u \in Users, NEW t, NEW n, Short(u, t, n) \/ CoverInternal(u, t, n)
      PROVE  StakesPaidFor
  <2>1. PICK c : SetFundCash(u, c)
    BY <1>4, Zenon DEF Short, CoverInternal
  <2> QED
    BY <2>1, SetFundCashStakes
<1>5. ASSUME NEW p \in TradePairs, NEW n \in Shares,
             \/ Buy(p[1], p[2], n) \/ Sell(p[1], p[2], n)
             \/ Short(p[1], p[2], n) \/ Cover(p[1], p[2], n)
      PROVE  StakesPaidFor
  BY <1>1, <1>2, <1>4, <1>5 DEF Buy, Sell, Cover
<1>6. ASSUME NEW p \in TradePairs, Liquidate(p[1], p[2])
      PROVE  StakesPaidFor
  BY <1>1, <1>4, <1>6 DEF Liquidate
<1>7. ASSUME NEW i \in Investments, NEW amount \in Amounts,
             \/ SendToEvents(i[2], amount)
             \/ \E sampled \in Recent : Withdraw(i[2], amount, sampled)
      PROVE  StakesPaidFor
  <2>1. fund' = [fund EXCEPT ![i[2]].cash = @ - amount]
    BY <1>7 DEF SendToEvents, Withdraw
  <2> QED
    BY <1>1, <2>1, TakenStakes
<1>8. ASSUME NEW i \in Investments, NEW amount \in Amounts, Invest(i[1], i[2], amount)
      PROVE  StakesPaidFor
  BY <1>1, <1>8, CallsAssumption, InvestStakes
<1>9. ASSUME NEW p \in TradePairs,
             \/ \E sampled \in Recent : FreezeAccount(p[1], sampled)
             \/ \E value \in BOOLEAN : SetOptIn(p[2], value)
             \/ ApplyStayBoost(p[2]) \/ DecayPrice(p[2])
      PROVE  StakesPaidFor
  BY <1>2, <1>9 DEF FreezeAccount, SetOptIn, ApplyStayBoost, DecayPrice
<1>10. CASE Tick
  BY <1>2, <1>10 DEF Tick
<1> QED
  BY <1>3, <1>5, <1>6, <1>7, <1>8, <1>9, <1>10 DEF Next, NextWithoutSweep

LEMMA NextAccounted ==
    ASSUME Rows, [Next]_vars
    PROVE  \/ UNCHANGED vars
           \/ Accounted /\ StakesPaidFor
           \/ \E f \in Users : InterestPaid(f)
<1>1. /\ \A p \in TradePairs : p[1] \in Users /\ p[2] \in Users
      /\ \A i \in Investments : i[1] \in Users /\ i[2] \in Users
  BY MembersAssumption
<1>2. Rows'
  BY NextRows
<1>3. ASSUME Tick
      PROVE  Accounted
  BY <1>2, <1>3, TickAccounted
<1>4. ASSUME NEW p \in TradePairs, NEW n \in Shares,
             \/ Buy(p[1], p[2], n) \/ Sell(p[1], p[2], n)
             \/ Short(p[1], p[2], n) \/ Cover(p[1], p[2], n)
      PROVE  Accounted
  <2>1. n \in Nat \ {0}
    BY CallsAssumption
  <2>2. CASE Buy(p[1], p[2], n) \/ Sell(p[1], p[2], n)
    BY <1>1, <1>2, <2>1, <2>2, BuySellAccounted
  <2>3. CASE Short(p[1], p[2], n)
    BY <1>1, <1>2, <2>1, <2>3, ShortAccounted
  <2>4. CASE Cover(p[1], p[2], n)
    <3>1. CoverInternal(p[1], p[2], n)
      BY <2>4 DEF Cover
    <3> QED
      BY <1>1, <1>2, <2>1, <3>1, CoverAccounted
  <2> QED
    BY <1>4, <2>2, <2>3, <2>4
<1>5. ASSUME NEW p \in TradePairs, Liquidate(p[1], p[2])
      PROVE  Accounted
  <2>1. short[p[1]][p[2]].shares \in Nat \ {0}
    BY <1>1, <1>5 DEF Rows, ShortRow, Liquidate, Underwater
  <2>2. CoverInternal(p[1], p[2], short[p[1]][p[2]].shares)
    BY <1>5 DEF Liquidate
  <2> QED
    BY <1>1, <1>2, <2>1, <2>2, CoverAccounted
<1>6. ASSUME NEW i \in Investments, NEW amount \in Amounts,
             \/ Invest(i[1], i[2], amount) \/ SendToEvents(i[2], amount)
             \/ \E sampled \in Recent : Withdraw(i[2], amount, sampled)
      PROVE  Accounted
  <2>1. amount \in Nat \ {0}
    BY CallsAssumption
  <2> QED
    BY <1>1, <1>2, <1>6, <2>1, FundMovesAccounted
<1>7. ASSUME NEW p \in TradePairs,
             \/ \E sampled \in Recent : FreezeAccount(p[1], sampled)
             \/ \E value \in BOOLEAN : SetOptIn(p[2], value)
             \/ ApplyStayBoost(p[2]) \/ DecayPrice(p[2])
      PROVE  Accounted
  BY <1>1, <1>2, <1>7, QuietAccounted
<1>8. ASSUME NEW u \in Users, CreateFund(u)
      PROVE  Accounted
  BY <1>2, <1>8, QuietAccounted
<1>9. ASSUME NEW i \in Investments, NEW sampled \in Recent, AccrueApy(i[2], sampled)
      PROVE  InterestPaid(i[2])
  <2>1. sampled \in Nat
    BY DEF Recent, Rows
  <2> QED
    BY <1>1, <1>9, <2>1, AccrueAccounted
<1>10. \/ UNCHANGED vars \/ StakesPaidFor
       \/ \E i \in Investments, sampled \in Recent : AccrueApy(i[2], sampled)
  BY NextStakes
<1>11. UNCHANGED vars \/ Accounted \/ \E f \in Users : InterestPaid(f)
  BY <1>1, <1>3, <1>4, <1>5, <1>6, <1>7, <1>8, <1>9 DEF Next, NextWithoutSweep
<1>12. (\E i \in Investments, sampled \in Recent : AccrueApy(i[2], sampled))
          => \E f \in Users : InterestPaid(f)
  BY <1>1, <1>9
<1> QED
  BY <1>10, <1>11, <1>12

(* Conservation of money: every cent in cash, funds, collateral and the     *)
(* events wallet came from a trade at the price before its impact, or is    *)
(* the interest that accrue_apy owes one fund and each of its stakes, for   *)
(* any number of members and investors and any sizes of trades; a stake     *)
(* changes otherwise only by what its investor pays in.                     *)
THEOREM MoneyAccountedForHolds == Spec => MoneyAccountedFor
<1>1. Rows /\ [Next]_vars
        => [\/ /\ Money' - Money = Total([u \in Users |-> Total([t \in Users |-> Proceeds(u, t)])])
               /\ StakesPaidFor
            \/ \E f \in Users : InterestPaid(f)]_vars
  BY NextAccounted, Zenon DEF Accounted, AllProceeds
<1> QED
  BY <1>1, RowsHold, PTL DEF Spec, MoneyAccountedFor

-----------------------------------------------------------------------------
(* Collateral and entry price. *)
LEMMA Cancel ==
    ASSUME NEW a \in Int, NEW b \in Int, NEW d \in Nat \ {0}, d * a <= d * b
    PROVE  a <= b
OBVIOUS

(* Within half of allowed of zero. *)
Near(drift, allowed) == 2 * drift <= allowed /\ 2 * drift >= -allowed
Allowed(calls, shares) == calls * Greatest(2, shares)

LEMMA AllowedGrows ==
    ASSUME NEW calls \in Nat, NEW shares \in Nat, NEW more \in Nat, more >= shares
    PROVE  /\ Allowed(calls, shares) \in Nat
           /\ Allowed(calls, more) >= Allowed(calls, shares)
           /\ Allowed(calls + 1, more) = Allowed(calls, more) + Greatest(2, more)
           /\ Allowed(calls + 1, shares) >= Allowed(calls, shares)
<1>1. /\ Greatest(2, shares) \in Nat /\ Greatest(2, more) \in Nat
      /\ Greatest(2, more) >= Greatest(2, shares)
  BY DEF Greatest
<1> DEFINE g == Greatest(2, shares)
           h == Greatest(2, more)
<1> HIDE DEF g, h
<1>2. g \in Nat /\ h \in Nat /\ h >= g
  BY <1>1 DEF g, h
<1>3. /\ calls * g \in Nat /\ calls * h >= calls * g
      /\ (calls + 1) * h = calls * h + h /\ (calls + 1) * g = calls * g + g
  BY <1>2
<1> QED
  BY <1>2, <1>3 DEF Allowed, g, h

LEMMA AllowedNat ==
    ASSUME NEW calls \in Nat, NEW shares \in Nat
    PROVE  /\ Allowed(calls, shares) \in Nat /\ Allowed(calls + 1, shares) \in Nat
           /\ Allowed(calls + 1, shares) >= Allowed(calls, shares)
<1>1. calls + 1 \in Nat /\ shares >= shares
  OBVIOUS
<1> QED
  BY <1>1, AllowedGrows

(* A top-up: rounding the average entry moves the drift by half a cent a    *)
(* share at most.                                                           *)
LEMMA TopUpDrift ==
    ASSUME NEW shares \in Nat, NEW entry \in Nat, NEW locked \in Int,
           NEW n \in Nat \ {0}, NEW current \in Nat, NEW calls \in Nat,
           Near(locked - shares * entry, Allowed(calls, shares))
    PROVE  Near(locked + n * current
                  - (shares + n) * AverageEntry(shares, entry, n, current),
                Allowed(calls + 1, shares + n))
<1> DEFINE all == shares + n
           paid == shares * entry + n * current
           new == Quantise(paid, all)
           own == shares * entry
           more == n * current
           worth == all * new
<1>1. all \in Nat \ {0} /\ own \in Nat /\ more \in Nat /\ paid = own + more
  OBVIOUS
<1>2. paid \in Int
  BY <1>1
<1> HIDE DEF all, paid, own, more
<1>3. new \in Int /\ 2 * worth <= 2 * paid + all /\ 2 * worth >= 2 * paid - all
  BY <1>1, <1>2, QuantiseInt, QuantiseAddsHalf, QuantiseDropsHalf
<1>4. worth \in Int
  BY <1>1, <1>3
<1> HIDE DEF new, worth
<1>5. /\ Allowed(calls, shares) \in Nat /\ Allowed(calls, all) >= Allowed(calls, shares)
      /\ Allowed(calls + 1, all) = Allowed(calls, all) + Greatest(2, all)
  <2>1. all \in Nat /\ all >= shares
    BY DEF all
  <2> QED
    BY <2>1, AllowedGrows
<1>6. Greatest(2, all) \in Nat /\ Greatest(2, all) >= all
  BY <1>1 DEF Greatest
<1>7. Near(locked - own, Allowed(calls, shares))
  BY DEF own
<1> DEFINE before == Allowed(calls, shares)
           middle == Allowed(calls, all)
           after == Allowed(calls + 1, all)
<1>8. middle \in Nat /\ after \in Nat
  <2>1. all >= all
    BY <1>1
  <2>2. middle \in Nat
    BY <1>1, <2>1, AllowedGrows
  <2> QED
    BY <1>5, <1>6, <2>2
<1> HIDE DEF before, middle, after
<1>9. Near(locked + more - worth, after)
  BY <1>1, <1>3, <1>4, <1>5, <1>6, <1>7, <1>8 DEF Near, before, middle, after
<1> QED
  BY <1>9 DEF AverageEntry, all, paid, own, more, new, worth, after

(* A partial cover keeps the covered part of the drift and rounds twice.    *)
LEMMA PartialCoverDrift ==
    ASSUME NEW shares \in Nat, NEW entry \in Nat, NEW lockC \in Nat, NEW lockF \in Nat,
           NEW n \in Nat \ {0}, n < shares, NEW calls \in Nat,
           Near(lockC + lockF - shares * entry, Allowed(calls, shares))
    PROVE  Near((lockC - Quantise(lockC * n, shares)) + (lockF - Quantise(lockF * n, shares))
                  - (shares - n) * entry,
                Allowed(calls + 1, shares - n))
<1> DEFINE relC == Quantise(lockC * n, shares)
           relF == Quantise(lockF * n, shares)
           rest == shares - n
           drift == lockC + lockF - shares * entry
           after == (lockC - relC) + (lockF - relF) - rest * entry
<1>1. rest \in Nat \ {0} /\ shares \in Nat \ {0} /\ shares >= 2 /\ drift \in Int
  OBVIOUS
<1>2. /\ relC \in Int /\ relF \in Int /\ lockC * n \in Int /\ lockF * n \in Int
      /\ 2 * (shares * relC) <= 2 * (lockC * n) + shares
      /\ 2 * (shares * relC) >= 2 * (lockC * n) - shares
      /\ 2 * (shares * relF) <= 2 * (lockF * n) + shares
      /\ 2 * (shares * relF) >= 2 * (lockF * n) - shares
  <2>1. lockC * n \in Int /\ lockF * n \in Int
    OBVIOUS
  <2> QED
    BY <1>1, <2>1, QuantiseInt, QuantiseAddsHalf, QuantiseDropsHalf
<1> HIDE DEF relC, relF
<1>3. after \in Int
  BY <1>1, <1>2
<1>4. shares * after = rest * drift + (lockC * n - shares * relC) + (lockF * n - shares * relF)
  <2>1. shares * after = shares * lockC - shares * relC + shares * lockF - shares * relF
                         - shares * (rest * entry)
    BY <1>1, <1>2
  <2>2. rest * drift = rest * lockC + rest * lockF - rest * (shares * entry)
    BY <1>1
  <2>3. rest * lockC = shares * lockC - lockC * n /\ rest * lockF = shares * lockF - lockF * n
    OBVIOUS
  <2>4. rest * (shares * entry) = shares * (rest * entry)
    OBVIOUS
  <2>5. /\ shares * lockC \in Int /\ shares * lockF \in Int
        /\ shares * relC \in Int /\ shares * relF \in Int
        /\ shares * (rest * entry) \in Int
    BY <1>2
  <2> HIDE DEF rest, drift, after
  <2> QED
    BY <2>1, <2>2, <2>3, <2>4, <2>5, <1>2
<1>5. Allowed(calls, shares) = calls * shares
  BY DEF Allowed, Greatest
<1>6. /\ 2 * (rest * drift) <= shares * (rest * calls)
      /\ 2 * (rest * drift) >= -(shares * (rest * calls))
  <2>1. 2 * drift <= calls * shares /\ 2 * drift >= -(calls * shares)
    BY <1>5 DEF Near
  <2> HIDE DEF rest, drift
  <2>2. /\ rest * (2 * drift) <= rest * (calls * shares)
        /\ rest * (2 * drift) >= rest * (-(calls * shares))
    BY <1>1, <2>1
  <2>3. /\ rest * (2 * drift) = 2 * (rest * drift)
        /\ rest * (calls * shares) = shares * (rest * calls)
        /\ rest * (-(calls * shares)) = -(shares * (rest * calls))
    BY <1>1
  <2> QED
    BY <2>2, <2>3
<1> DEFINE bound == rest * calls + 2
<1>7. shares * (2 * after) <= shares * bound /\ shares * (-(2 * after)) <= shares * bound
  <2>1. /\ shares * (2 * after) = 2 * (shares * after)
        /\ shares * (-(2 * after)) = -(2 * (shares * after))
        /\ shares * bound = shares * (rest * calls) + 2 * shares
    BY <1>1, <1>3
  <2>2. /\ shares * after \in Int /\ rest * drift \in Int /\ shares * (rest * calls) \in Int
        /\ shares * relC \in Int /\ shares * relF \in Int
    BY <1>1, <1>2, <1>3
  <2> HIDE DEF rest, drift, after, bound
  <2> QED
    BY <2>1, <2>2, <1>2, <1>4, <1>6
<1>8. bound \in Int
  BY <1>1
<1> HIDE DEF after, bound
<1>9. 2 * after <= bound /\ -(2 * after) <= bound
  BY <1>1, <1>3, <1>7, <1>8, Cancel
<1>10. bound <= Allowed(calls + 1, rest) /\ Allowed(calls + 1, rest) \in Int
  <2>1. Greatest(2, rest) \in Nat /\ Greatest(2, rest) >= 2 /\ Greatest(2, rest) >= rest
    BY <1>1 DEF Greatest
  <2>2. (calls + 1) * Greatest(2, rest) = calls * Greatest(2, rest) + Greatest(2, rest)
    BY <2>1
  <2>3. calls * Greatest(2, rest) >= rest * calls
    BY <2>1, <1>1
  <2> QED
    BY <2>1, <2>2, <2>3, <1>1 DEF bound, Allowed
<1>11. Near(after, Allowed(calls + 1, rest))
  BY <1>3, <1>8, <1>9, <1>10 DEF Near
<1> QED
  BY <1>11 DEF after, relC, relF

DriftNear(u, t) == Near(Drift(u, t), Allowed(ops, short[u][t].shares))
DriftInv == \A u \in Users, t \in Users : DriftNear(u, t)

LEMMA DriftInvIsProperty == DriftInv <=> CollateralBacksEntry
BY DEF DriftInv, DriftNear, CollateralBacksEntry, Near, Allowed

LEMMA DriftType ==
    ASSUME Rows, NEW u \in Users, NEW t \in Users
    PROVE  /\ Drift(u, t) \in Int /\ short[u][t].shares \in Nat
           /\ Allowed(ops, short[u][t].shares) \in Nat
<1>1. /\ short[u][t].shares \in Nat /\ short[u][t].entry \in Nat
      /\ short[u][t].lockedCash \in Nat /\ short[u][t].lockedFund \in Nat /\ ops \in Nat
  BY DEF Rows, ShortRow
<1>2. short[u][t].shares * short[u][t].entry \in Nat
  BY <1>1
<1>3. Allowed(ops, short[u][t].shares) \in Nat
  BY <1>1, AllowedNat
<1> QED
  BY <1>1, <1>2, <1>3 DEF Drift

(* A position that does not change keeps its drift, and is allowed no less. *)
LEMMA DriftKept ==
    ASSUME Rows, Rows', NEW u \in Users, NEW t \in Users, DriftNear(u, t),
           ops' = ops \/ ops' = ops + 1,
           short'[u][t].shares = short[u][t].shares,
           short'[u][t].entry = short[u][t].entry,
           short'[u][t].lockedCash = short[u][t].lockedCash,
           short'[u][t].lockedFund = short[u][t].lockedFund
    PROVE  DriftNear(u, t)'
<1>1. Drift(u, t)' = Drift(u, t)
  BY DEF Drift
<1> DEFINE shares == short[u][t].shares
<1>2. shares \in Nat /\ ops \in Nat /\ Drift(u, t) \in Int
  BY DriftType DEF Rows
<1>3. Allowed(ops, shares) \in Nat /\ Allowed(ops + 1, shares) >= Allowed(ops, shares)
      /\ Allowed(ops + 1, shares) \in Nat
  BY <1>2, AllowedNat
<1>4. Near(Drift(u, t), Allowed(ops, shares))
  BY DEF DriftNear
<1> HIDE DEF shares
<1>5. Near(Drift(u, t), Allowed(ops + 1, shares))
  BY <1>2, <1>3, <1>4 DEF Near
<1>6. short'[u][t].shares = shares
  BY DEF shares
<1>7. DriftNear(u, t)' = Near(Drift(u, t), Allowed(ops', shares))
  BY <1>1, <1>6 DEF DriftNear, Near, Allowed
<1> QED
  BY <1>4, <1>5, <1>7

LEMMA ClosedHasNoDrift ==
    ASSUME Rows', NEW u \in Users, NEW t \in Users, short'[u][t] = NoShort
    PROVE  DriftNear(u, t)'
<1>1. Drift(u, t)' = 0
  BY DEF Drift, NoShort
<1>2. ops' \in Nat /\ short'[u][t].shares = 0
  BY DEF Rows, NoShort
<1>3. ops' * Greatest(2, short'[u][t].shares) \in Nat
  <2>1. Greatest(2, short'[u][t].shares) = 2
    BY <1>2 DEF Greatest
  <2> QED
    BY <1>2, <2>1
<1> QED
  BY <1>1, <1>3 DEF DriftNear, Near, Allowed

LEMMA ShortDrift ==
    ASSUME Rows, Rows', NEW u \in Users, NEW t \in Users, NEW n \in Nat \ {0},
           Short(u, t, n), DriftNear(u, t)
    PROVE  DriftNear(u, t)'
<1> DEFINE held == short[u][t]
           notional == n * price[t]
           fromCash == Least(cash[u], notional)
           available == Quantise(fund[u].cash, 2)
           fromFund == Least(available, notional - fromCash)
           locked == held.lockedCash + held.lockedFund
           entry == AverageEntry(held.shares, held.entry, n, price[t])
<1>1. /\ price[t] \in Nat /\ cash[u] \in Nat /\ fund[u].cash \in Nat /\ ops \in Nat
      /\ held.shares \in Nat /\ held.entry \in Nat
      /\ held.lockedCash \in Nat /\ held.lockedFund \in Nat
  BY DEF Rows, PriceInv, FundRow, ShortRow
<1>2. notional \in Nat /\ available \in Nat /\ entry \in Nat
  <2>1. notional \in Nat
    BY <1>1
  <2>2. available \in Nat
    BY <1>1, QuantiseNat
  <2>3. entry \in Nat
    BY <1>1, AverageEntryType
  <2> QED
    BY <2>1, <2>2, <2>3
<1>3. cash[u] + available >= notional /\ ops' = ops + 1
  BY DEF Short, Called
<1>4. short'[u][t] = [shares |-> held.shares + n, entry |-> entry,
                      lockedCash |-> held.lockedCash + fromCash,
                      lockedFund |-> held.lockedFund + fromFund,
                      opened |-> IF held.shares = 0 THEN now ELSE held.opened,
                      frozen |-> FALSE]
  BY DEF Short, Rows
<1> HIDE DEF notional, available, entry
<1>5. fromCash \in Nat /\ fromFund \in Int /\ fromCash + fromFund = notional
  BY <1>1, <1>2, <1>3 DEF Least
<1> HIDE DEF fromCash, fromFund
<1>6. Drift(u, t)' = locked + notional - (held.shares + n) * entry
  <2>1. Drift(u, t)' = (held.lockedCash + fromCash) + (held.lockedFund + fromFund)
                       - (held.shares + n) * entry
    BY <1>4 DEF Drift
  <2>2. (held.shares + n) * entry \in Int
    BY <1>1, <1>2
  <2> QED
    BY <2>1, <2>2, <1>1, <1>5
<1>7. Near(locked - held.shares * held.entry, Allowed(ops, held.shares))
  <2>1. held.shares * held.entry \in Int
    BY <1>1
  <2>2. Drift(u, t) = locked - held.shares * held.entry
    BY <1>1, <2>1 DEF Drift
  <2> QED
    BY <2>2 DEF DriftNear
<1>8. Near(locked + notional - (held.shares + n) * entry, Allowed(ops + 1, held.shares + n))
  <2>1. locked \in Int
    BY <1>1
  <2> HIDE DEF locked
  <2>2. Near(locked + n * price[t]
               - (held.shares + n) * AverageEntry(held.shares, held.entry, n, price[t]),
             Allowed(ops + 1, held.shares + n))
    BY <1>1, <1>7, <2>1, TopUpDrift
  <2> QED
    BY <2>2 DEF notional, entry
<1>9. short'[u][t].shares = held.shares + n
  BY <1>4
<1> QED
  BY <1>3, <1>6, <1>8, <1>9 DEF DriftNear, Near, Allowed

LEMMA CoverDrift ==
    ASSUME Rows, Rows', NEW u \in Users, NEW t \in Users, NEW n \in Nat \ {0},
           CoverInternal(u, t, n), ops' = ops + 1 \/ n = short[u][t].shares,
           DriftNear(u, t)
    PROVE  DriftNear(u, t)'
<1> DEFINE held == short[u][t]
           relC == Quantise(held.lockedCash * n, held.shares)
           relF == Quantise(held.lockedFund * n, held.shares)
<1>1. /\ held \in ShortRow /\ ops \in Nat
      /\ held.shares \in Nat /\ held.entry \in Nat
      /\ held.lockedCash \in Nat /\ held.lockedFund \in Nat /\ n <= held.shares
  BY DEF Rows, ShortRow, CoverInternal
<1>2. CASE n = held.shares
  <2>1. short'[u][t] = NoShort
    BY <1>2 DEF CoverInternal, Rows
  <2> QED
    BY <2>1, ClosedHasNoDrift
<1>3. CASE n # held.shares
  <2>1. n < held.shares /\ ops' = ops + 1
    BY <1>1, <1>3
  <2>2. short'[u][t] = [held EXCEPT !.shares = @ - n,
                                    !.lockedCash = @ - relC,
                                    !.lockedFund = @ - relF]
    BY <1>3 DEF CoverInternal, Rows
  <2> HIDE DEF relC, relF
  <2>3. /\ short'[u][t].shares = held.shares - n /\ short'[u][t].entry = held.entry
        /\ short'[u][t].lockedCash = held.lockedCash - relC
        /\ short'[u][t].lockedFund = held.lockedFund - relF
    BY <1>1, <2>2 DEF ShortRow
  <2>4. Near(held.lockedCash + held.lockedFund - held.shares * held.entry,
             Allowed(ops, held.shares))
    BY DEF DriftNear, Drift
  <2>5. Near((held.lockedCash - relC) + (held.lockedFund - relF)
               - (held.shares - n) * held.entry,
             Allowed(ops + 1, held.shares - n))
    BY <1>1, <2>1, <2>4, PartialCoverDrift DEF relC, relF
  <2> QED
    BY <2>1, <2>3, <2>5 DEF DriftNear, Drift, Near, Allowed
<1> QED
  BY <1>2, <1>3

(* A step that changes no position, or only freezes some, keeps every drift. *)
LEMMA SamePositionsDrift ==
    ASSUME Rows, Rows', DriftInv, ops' = ops \/ ops' = ops + 1,
           \A v \in Users, w \in Users :
              /\ short'[v][w].shares = short[v][w].shares
              /\ short'[v][w].entry = short[v][w].entry
              /\ short'[v][w].lockedCash = short[v][w].lockedCash
              /\ short'[v][w].lockedFund = short[v][w].lockedFund
    PROVE  DriftInv'
<1>1. ASSUME NEW v \in Users, NEW w \in Users
      PROVE  DriftNear(v, w)'
  BY <1>1, DriftKept DEF DriftInv
<1> QED
  BY <1>1 DEF DriftInv

LEMMA FreezeFields ==
    ASSUME Rows, NEW u \in Users, NEW sampled, FreezeAccount(u, sampled),
           NEW v \in Users, NEW w \in Users
    PROVE  /\ short'[v][w].shares = short[v][w].shares
           /\ short'[v][w].entry = short[v][w].entry
           /\ short'[v][w].lockedCash = short[v][w].lockedCash
           /\ short'[v][w].lockedFund = short[v][w].lockedFund
<1>1. short[v][w] \in ShortRow /\ short \in [Users -> [Users -> ShortRow]]
  BY DEF Rows
<1>2. CASE v = u
  <2>1. short'[v][w] = [short[u][w] EXCEPT
                          !.frozen = (@ \/ DueForFreeze(short[u][w], sampled))]
    BY <1>1, <1>2 DEF FreezeAccount
  <2> QED
    BY <1>1, <1>2, <2>1 DEF ShortRow
<1>3. CASE v # u
  BY <1>1, <1>3 DEF FreezeAccount
<1> QED
  BY <1>2, <1>3

(* Only one position changes, and that one stays near. *)
LEMMA OnePositionDrift ==
    ASSUME Rows, Rows', DriftInv, ops' = ops \/ ops' = ops + 1,
           NEW u \in Users, NEW t \in Users, NEW s,
           short' = [short EXCEPT ![u][t] = s], DriftNear(u, t)'
    PROVE  DriftInv'
<1>1. ASSUME NEW v \in Users, NEW w \in Users
      PROVE  DriftNear(v, w)'
  <2>1. CASE v = u /\ w = t
    BY <2>1
  <2>2. CASE v # u \/ w # t
    <3>1. short'[v][w] = short[v][w]
      BY <2>2, OneShortChanges
    <3>2. DriftNear(v, w)
      BY DEF DriftInv
    <3> QED
      BY <3>1, <3>2, DriftKept
  <2> QED
    BY <2>1, <2>2
<1> QED
  BY <1>1 DEF DriftInv

LEMMA NextDrift == Rows /\ DriftInv /\ [Next]_vars => DriftInv'
<1> SUFFICES ASSUME Rows, DriftInv, [Next]_vars
             PROVE  DriftInv'
  OBVIOUS
<1>1. Rows'
  BY NextRows
<1>2. /\ TradePairs \subseteq Users \X Users /\ Shares \subseteq Nat \ {0}
  BY MembersAssumption, CallsAssumption
<1>3. ASSUME short' = short, ops' = ops \/ ops' = ops + 1
      PROVE  DriftInv'
  BY <1>1, <1>3, SamePositionsDrift
<1>4. ASSUME NEW u \in Users, NEW t \in Users, NEW n \in Shares, Short(u, t, n)
      PROVE  DriftInv'
  <2>1. \E s : short' = [short EXCEPT ![u][t] = s]
    BY <1>4, Zenon DEF Short
  <2>2. ops' = ops + 1
    BY <1>4 DEF Short, Called
  <2>3. DriftNear(u, t)
    BY DEF DriftInv
  <2>4. DriftNear(u, t)'
    BY <1>1, <1>2, <1>4, <2>3, ShortDrift
  <2> QED
    BY <1>1, <2>1, <2>2, <2>4, OnePositionDrift
<1>5. ASSUME NEW u \in Users, NEW t \in Users, NEW n \in Nat \ {0}, CoverInternal(u, t, n),
             ops' = ops + 1 \/ (ops' = ops /\ n = short[u][t].shares)
      PROVE  DriftInv'
  <2>1. \E s : short' = [short EXCEPT ![u][t] = s]
    BY <1>5, Zenon DEF CoverInternal
  <2>2. DriftNear(u, t)
    BY DEF DriftInv
  <2>3. DriftNear(u, t)'
    BY <1>1, <1>5, <2>2, CoverDrift
  <2> QED
    BY <1>1, <1>5, <2>1, <2>3, OnePositionDrift
<1>6. ASSUME NEW p \in TradePairs, NEW n \in Shares, Short(p[1], p[2], n)
      PROVE  DriftInv'
  BY <1>2, <1>4, <1>6
<1>7. ASSUME NEW p \in TradePairs, NEW n \in Shares, Cover(p[1], p[2], n)
      PROVE  DriftInv'
  <2>1. CoverInternal(p[1], p[2], n) /\ ops' = ops + 1
    BY <1>7 DEF Cover, Called
  <2> QED
    BY <1>2, <1>5, <2>1
<1>8. ASSUME NEW p \in TradePairs, Liquidate(p[1], p[2])
      PROVE  DriftInv'
  <2>1. p[1] \in Users /\ p[2] \in Users
    BY <1>2
  <2>2. short[p[1]][p[2]].shares \in Nat \ {0}
    BY <1>8, <2>1 DEF Liquidate, Underwater, Rows, ShortRow
  <2>3. CoverInternal(p[1], p[2], short[p[1]][p[2]].shares) /\ ops' = ops
    BY <1>8 DEF Liquidate
  <2> QED
    BY <1>5, <2>1, <2>2, <2>3
<1>9. ASSUME NEW p \in TradePairs, NEW sampled \in Recent, FreezeAccount(p[1], sampled)
      PROVE  DriftInv'
  <2>1. p[1] \in Users /\ ops' = ops
    BY <1>2, <1>9 DEF FreezeAccount
  <2> QED
    BY <1>1, <1>9, <2>1, FreezeFields, SamePositionsDrift
<1> QED
  BY <1>3, <1>6, <1>7, <1>8, <1>9
     DEF Next, NextWithoutSweep, vars, Called, Tick, Buy, Sell, SetOptIn, ApplyStayBoost,
         DecayPrice, CreateFund, Invest, AccrueApy, Withdraw, SendToEvents

LEMMA InitDrift == Init => DriftInv
<1> SUFFICES ASSUME Init, NEW u \in Users, NEW t \in Users
             PROVE  DriftNear(u, t)
  BY DEF DriftInv
<1>1. short[u][t] = NoShort /\ ops = 0
  BY DEF Init
<1>2. Drift(u, t) = 0
  BY <1>1 DEF Drift, NoShort
<1>3. Allowed(0, 0) = 0
  BY DEF Allowed, Greatest
<1> QED
  BY <1>1, <1>2, <1>3 DEF DriftNear, Near, NoShort

(* The documented equation of fund_math.py between collateral and notional  *)
(* holds up to half a cent a share (and a cent) a call, however top-ups,    *)
(* partial covers, freezes and liquidations are mixed.                      *)
THEOREM CollateralBacksEntryHolds == Spec => []CollateralBacksEntry
<1>1. Spec => []DriftInv
  BY InitDrift, NextDrift, RowsHold, PTL DEF Spec
<1> QED
  BY <1>1, DriftInvIsProperty, PTL

=============================================================================
