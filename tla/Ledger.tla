------------------------------- MODULE Ledger -------------------------------
(***************************************************************************)
(* The money of one guild: accounts, positions, personal funds, the events *)
(* wallet and stock prices, as TradingService, FundService and             *)
(* LiquidationService change them.  One action is one section that runs    *)
(* under LockManager.locked() (and, for the multi-row ones, in one unit of *)
(* work): LockManager shows such sections exclude one another, so here     *)
(* each is a single step.  A call that raises changes nothing.             *)
(*                                                                         *)
(* Every account and stock row exists from the start: the services build   *)
(* the same default row for a user they have not seen.  avg_entry of a     *)
(* long and the names of funds only feed displays and are left out.        *)
(***************************************************************************)
EXTENDS DomainMath, FiniteSets, Functions

CONSTANTS
    Users,                 \* the members of the guild; a fund has its manager's id
    InitialCash, InitialPrice, MinPrice,
    InitialFundCash,       \* of funds the JSON migration brought, by manager
    ImpactK,               \* price change of one traded share, [num, den]
    LiquidationThreshold,  \* of the entry price, [num, den]
    CooldownTime, FreezeAge, PenaltyTime,        \* in ticks of `now`
    BaseApy, PenaltyApr,   \* in hundredths
    PeriodsPerYear,        \* 12 for "monthly" accrual, 1 for "annual"
    VoiceStayBoost, DecayKeep,                   \* price factors, [num, den]
    StallWindow, StallNearest,                   \* of the floor stall
    OptOutBlocksTrading, SundayBuyAllowed,       \* settings
    Calendar,              \* what kind of time each tick is
    FirstsOfMonth,         \* the ticks on a 1st of the month
    MaxWait,               \* ticks between a look at the clock and the locks
    TradePairs, Investments, Shares, Amounts,    \* the calls that are made
    MaxTime, MaxOps        \* bounds of the exploration

(* num / den *)
Fraction == [num : Nat, den : Nat \ {0}]

ASSUME MembersAssumption ==
    /\ IsFiniteSet(Users)
    /\ TradePairs \subseteq Users \X Users
    /\ Investments \subseteq Users \X Users

(* adapters/config.py validates none of these: the defaults satisfy them. *)
ASSUME SettingsAssumption ==
    /\ InitialCash \in Nat /\ InitialFundCash \in [Users -> Nat]
    /\ InitialPrice \in Nat /\ MinPrice \in Nat /\ InitialPrice >= MinPrice
    /\ ImpactK \in Fraction /\ VoiceStayBoost \in Fraction /\ DecayKeep \in Fraction
    /\ CooldownTime \in Nat /\ FreezeAge \in Int /\ PenaltyTime \in Nat
    /\ BaseApy \in Nat /\ PenaltyApr \in Nat /\ PeriodsPerYear \in Nat \ {0}
    /\ StallWindow \in Nat \ {0} /\ StallNearest \in Nat

(* trading_service.py and fund_service.py refuse shares and amounts <= 0 *)
ASSUME CallsAssumption == Shares \subseteq Nat \ {0} /\ Amounts \subseteq Nat \ {0}

VARIABLES
    now,        \* datetime.now(tz=UTC)
    cash,       \* UserAccount.cash_balance
    long,       \* shares of UserAccount.long_positions, 0 for no position
    short,      \* UserAccount.short_positions
    optIn,      \* UserAccount.opt_in
    fund,       \* HedgeFund rows by manager
    wallet,     \* cash_balance of the events wallet
    price,      \* Stock.current
    cooldown,   \* TradeCooldown.expires_at, 0 for no row
    penalty,    \* FundPenalty rows
    ops         \* how many calls of members have been made, at most MaxOps

vars == <<now, cash, long, short, optIn, fund, wallet, price, cooldown, penalty, ops>>

NoShort == [shares |-> 0, entry |-> 0, lockedCash |-> 0, lockedFund |-> 0,
            opened |-> 0, frozen |-> FALSE]
FundWith(c) == [exists |-> c # 0, cash |-> c, stakes |-> [i \in Users |-> 0]]

Init ==
    /\ now = 0
    /\ cash = [u \in Users |-> InitialCash]
    /\ long = [u \in Users |-> [t \in Users |-> 0]]
    /\ short = [u \in Users |-> [t \in Users |-> NoShort]]
    /\ optIn = [u \in Users |-> TRUE]
    /\ fund = [u \in Users |-> FundWith(InitialFundCash[u])]
    /\ wallet = 0
    /\ price = [u \in Users |-> InitialPrice]
    /\ cooldown = [u \in Users |-> 0]
    /\ penalty = [u \in Users |-> [apr |-> 0, until |-> 0]]
    /\ ops = 0

-----------------------------------------------------------------------------
Called == ops < MaxOps /\ ops' = ops + 1

(* When a call that now has its locks may have sampled the clock: most look *)
(* at it, and at the market hours, before they wait for the locks.          *)
Recent == {s \in 0..now : now - s <= MaxWait}

(* is_market_open when the call began *)
MarketOpen(allowSunday) ==
    \E s \in Recent : Calendar[s] = "open" \/ (allowSunday /\ Calendar[s] = "sunday")

(* mutant of CanPay: the balance is not checked *)
CanPayUnchecked(u, cost) == u \in Users /\ cost >= 0

CanPay(u, cost) == cash[u] >= cost

OffCooldown(u) == cooldown[u] <= now
Tradable(t) == OptOutBlocksTrading => optIn[t]

(* _apply_price_impact_unlocked *)
Impact(t, shares, isBuy) ==
    price' = [price EXCEPT ![t] = TradeImpact(@, shares, isBuy, ImpactK, MinPrice)]

Stakes(f) == FoldFunction(+, 0, f.stakes)

(* mutant of ManagerBalance: all of the fund's cash is the manager's *)
WholeBalance(u) == fund[u].cash

ManagerBalance(u) == fund[u].cash - Stakes(fund[u])

(* _write_fund_cash: an absent row is written only if there is cash in it *)
SetFundCash(u, c) ==
    fund' = [fund EXCEPT ![u].cash = c, ![u].exists = @ \/ c # 0]

Tick == now < MaxTime /\ now' = now + 1
        /\ UNCHANGED <<cash, long, short, optIn, fund, wallet, price, cooldown, penalty, ops>>

-----------------------------------------------------------------------------
Buy(u, t, n) ==
    /\ Called /\ u # t /\ MarketOpen(SundayBuyAllowed) /\ Tradable(t)
    /\ CanPay(u, n * price[t])
    /\ cash' = [cash EXCEPT ![u] = @ - n * price[t]]
    /\ long' = [long EXCEPT ![u][t] = @ + n]
    /\ Impact(t, n, TRUE)
    /\ UNCHANGED <<now, short, optIn, fund, wallet, cooldown, penalty>>

Sell(u, t, n) ==
    /\ Called /\ u # t /\ MarketOpen(FALSE) /\ Tradable(t)
    /\ long[u][t] >= n
    /\ cash' = [cash EXCEPT ![u] = @ + n * price[t]]
    /\ long' = [long EXCEPT ![u][t] = @ - n]
    /\ Impact(t, n, FALSE)
    /\ UNCHANGED <<now, short, optIn, fund, wallet, cooldown, penalty>>

(* Collateral comes from cash first, the rest from half the fund's cash:    *)
(* investors' money included.  A top-up keeps the age of the position.      *)
Short(u, t, n) ==
    LET held == short[u][t]
        notional == n * price[t]
        fundAvailable == Quantise(fund[u].cash, 2)
        fromCash == Least(cash[u], notional)
        fromFund == Least(fundAvailable, notional - fromCash)
    IN  /\ Called /\ u # t /\ MarketOpen(FALSE) /\ OffCooldown(u) /\ Tradable(t)
        /\ cash[u] + fundAvailable >= notional
        /\ ~held.frozen
        /\ short' = [short EXCEPT ![u][t] =
              [shares |-> held.shares + n,
               entry |-> AverageEntry(held.shares, held.entry, n, price[t]),
               lockedCash |-> held.lockedCash + fromCash,
               lockedFund |-> held.lockedFund + fromFund,
               opened |-> IF held.shares = 0 THEN now ELSE held.opened,
               frozen |-> FALSE]]
        /\ cash' = [cash EXCEPT ![u] = @ - fromCash]
        /\ SetFundCash(u, fund[u].cash - fromFund)
        /\ Impact(t, n, FALSE)
        /\ cooldown' = [cooldown EXCEPT ![u] = now + CooldownTime]
        /\ UNCHANGED <<now, long, optIn, wallet, penalty>>

(* _cover_internal: pay for the shares, get the collateral of the covered   *)
(* part back and, if it is one, the profit.  The price falls, as for a      *)
(* sale.  A full cover releases exactly what is locked.                     *)
CoverInternal(u, t, n) ==
    LET held == short[u][t]
        cost == n * price[t]
        pnl == n * (held.entry - price[t])
        released(locked) == IF n = held.shares THEN locked
                            ELSE Quantise(locked * n, held.shares)
    IN  /\ held.shares >= n
        /\ CanPay(u, cost)
        /\ short' = [short EXCEPT ![u][t] =
              IF n = held.shares THEN NoShort
              ELSE [held EXCEPT !.shares = @ - n,
                                !.lockedCash = @ - released(@),
                                !.lockedFund = @ - released(@)]]
        /\ cash' = [cash EXCEPT ![u] = @ - cost + released(held.lockedCash) + Greatest(pnl, 0)]
        /\ SetFundCash(u, fund[u].cash + released(held.lockedFund))
        /\ Impact(t, n, FALSE)
        /\ UNCHANGED <<now, long, optIn, wallet, penalty>>

(* mutant of Cover: a frozen position can be covered *)
CoverFrozenToo(u, t, n) ==
    /\ Called /\ u # t /\ MarketOpen(FALSE) /\ OffCooldown(u)
    /\ CoverInternal(u, t, n)
    /\ cooldown' = [cooldown EXCEPT ![u] = now + CooldownTime]

(* A member covers: opt-out does not matter, a frozen position does. *)
Cover(u, t, n) ==
    /\ Called /\ u # t /\ MarketOpen(FALSE) /\ OffCooldown(u)
    /\ ~short[u][t].frozen
    /\ CoverInternal(u, t, n)
    /\ cooldown' = [cooldown EXCEPT ![u] = now + CooldownTime]

Underwater(u, t) ==
    /\ short[u][t].shares > 0
    /\ price[t] * LiquidationThreshold.den >= short[u][t].entry * LiquidationThreshold.num

(* _maybe_liquidate: at any hour, frozen or not, and without a cooldown. *)
Liquidate(u, t) ==
    /\ Underwater(u, t)
    /\ CoverInternal(u, t, short[u][t].shares)
    /\ UNCHANGED <<cooldown, ops>>

(* mutant of DueForFreeze: a tick too early *)
DueNextTick(p, sampled) == p.shares > 0 /\ ~p.frozen /\ sampled + 1 - p.opened >= FreezeAge

DueForFreeze(p, sampled) == p.shares > 0 /\ ~p.frozen /\ sampled - p.opened >= FreezeAge

(* update_frozen_shorts for one account.  The sweep sampled the clock when  *)
(* it began, maybe before this account was locked.                          *)
FreezeAccount(u, sampled) ==
    /\ \E t \in Users : DueForFreeze(short[u][t], sampled)
    /\ short' = [short EXCEPT ![u] = [t \in Users |->
          [short[u][t] EXCEPT !.frozen = @ \/ DueForFreeze(short[u][t], sampled)]]]
    /\ UNCHANGED <<now, cash, long, optIn, fund, wallet, price, cooldown, penalty, ops>>

-----------------------------------------------------------------------------
CreateFund(u) ==
    /\ Called /\ ~fund[u].exists
    /\ fund' = [fund EXCEPT ![u].exists = TRUE]
    /\ UNCHANGED <<now, cash, long, short, optIn, wallet, price, cooldown, penalty>>

(* mutant of Withdraw: the manager's account is not stored *)
WithdrawUncredited(u, amount, sampled) ==
    /\ Called /\ ManagerBalance(u) >= amount
    /\ fund' = [fund EXCEPT ![u].cash = @ - amount]
    /\ penalty' = IF sampled \in FirstsOfMonth THEN penalty
                  ELSE [penalty EXCEPT ![u] = [apr |-> @.apr + PenaltyApr,
                                               until |-> sampled + PenaltyTime]]
    /\ UNCHANGED <<now, cash, long, short, optIn, wallet, price, cooldown>>

(* Only the manager's own share can leave the fund.  Except on a 1st, the   *)
(* penalty is stacked on whatever row there is, an expired one too.         *)
Withdraw(u, amount, sampled) ==
    /\ Called /\ ManagerBalance(u) >= amount
    /\ fund' = [fund EXCEPT ![u].cash = @ - amount]
    /\ cash' = [cash EXCEPT ![u] = @ + amount]
    /\ penalty' = IF sampled \in FirstsOfMonth THEN penalty
                  ELSE [penalty EXCEPT ![u] = [apr |-> @.apr + PenaltyApr,
                                               until |-> sampled + PenaltyTime]]
    /\ UNCHANGED <<now, long, short, optIn, wallet, price, cooldown>>

SendToEvents(u, amount) ==
    /\ Called /\ ManagerBalance(u) >= amount
    /\ fund' = [fund EXCEPT ![u].cash = @ - amount]
    /\ wallet' = wallet + amount
    /\ UNCHANGED <<now, cash, long, short, optIn, price, cooldown, penalty>>

Invest(i, f, amount) ==
    /\ Called /\ fund[f].exists /\ i # f /\ CanPay(i, amount)
    /\ cash' = [cash EXCEPT ![i] = @ - amount]
    /\ fund' = [fund EXCEPT ![f].cash = @ + amount, ![f].stakes[i] = @ + amount]
    /\ UNCHANGED <<now, long, short, optIn, wallet, price, cooldown, penalty>>

(* compute_apy_accrual, and a stake with its accrual, rounded as one sum *)
Interest(balance, apy) == Quantise(balance * apy, 100 * PeriodsPerYear)
WithInterest(stake, apy) ==
    Quantise(stake * (100 * PeriodsPerYear + apy), 100 * PeriodsPerYear)

(* mutant of AccrueApy: the stakes are left as they were *)
AccrueForManager(u, sampled) ==
    LET apy == EffectiveApy(BaseApy, penalty[u].apr, penalty[u].until, sampled)
        accrued == Interest(ManagerBalance(u), apy) + Interest(Stakes(fund[u]), apy)
    IN  /\ Called /\ fund[u].exists /\ accrued >= 1
        /\ fund' = [fund EXCEPT ![u].cash = @ + accrued]
        /\ UNCHANGED <<now, cash, long, short, optIn, wallet, price, cooldown, penalty>>

(* accrue_apy for one fund, with apy_residual_recipient at "manager".  The  *)
(* manager's balance may be negative while investors' money is locked as    *)
(* collateral, and then bears negative interest.                            *)
AccrueApy(u, sampled) ==
    LET apy == EffectiveApy(BaseApy, penalty[u].apr, penalty[u].until, sampled)
        accrued == Interest(ManagerBalance(u), apy) + Interest(Stakes(fund[u]), apy)
    IN  /\ Called /\ fund[u].exists /\ accrued >= 1
        /\ fund' = [fund EXCEPT
              ![u].cash = @ + accrued,
              ![u].stakes = [i \in Users |-> WithInterest(@[i], apy)]]
        /\ UNCHANGED <<now, cash, long, short, optIn, wallet, price, cooldown, penalty>>

-----------------------------------------------------------------------------
(* set_opt_in; setting what is set already changes nothing *)
SetOptIn(u, value) ==
    /\ Called /\ value # optIn[u]
    /\ optIn' = [optIn EXCEPT ![u] = value]
    /\ UNCHANGED <<now, cash, long, short, fund, wallet, price, cooldown, penalty>>

(* _apply_stay_boost after a long voice session; an equal price is not written *)
ApplyStayBoost(u) ==
    /\ Called
    /\ price' = [price EXCEPT ![u] =
          FloorStall(@, @ * VoiceStayBoost.num, VoiceStayBoost.den, MinPrice,
                     StallWindow, StallNearest)]
    /\ price' # price
    /\ UNCHANGED <<now, cash, long, short, optIn, fund, wallet, cooldown, penalty>>

(* inactivity_decay_tick for one stock *)
DecayPrice(u) ==
    /\ Called
    /\ price' = [price EXCEPT ![u] = InactivityDecay(@, DecayKeep, MinPrice)]
    /\ price' # price
    /\ UNCHANGED <<now, cash, long, short, optIn, fund, wallet, cooldown, penalty>>

(* Everything but the liquidation sweep. *)
NextWithoutSweep ==
    \/ Tick
    \/ \E p \in TradePairs :
        \/ \E n \in Shares : \/ Buy(p[1], p[2], n)
                             \/ Sell(p[1], p[2], n)
                             \/ Short(p[1], p[2], n)
                             \/ Cover(p[1], p[2], n)
        \/ \E sampled \in Recent : FreezeAccount(p[1], sampled)
        \/ \E value \in BOOLEAN : SetOptIn(p[2], value)
        \/ ApplyStayBoost(p[2])
        \/ DecayPrice(p[2])
    \/ \E u \in Users : CreateFund(u)
    \/ \E i \in Investments, amount \in Amounts : Invest(i[1], i[2], amount)
    \/ \E i \in Investments :
        \/ \E sampled \in Recent :
            \/ AccrueApy(i[2], sampled)
            \/ \E amount \in Amounts : Withdraw(i[2], amount, sampled)
        \/ \E amount \in Amounts : SendToEvents(i[2], amount)

Next == NextWithoutSweep \/ \E p \in TradePairs : Liquidate(p[1], p[2])

Spec == Init /\ [][Next]_vars
=============================================================================
