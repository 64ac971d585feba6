-------------------------- MODULE LedgerProperties --------------------------
(***************************************************************************)
(* What the ledger of Ledger.tla must keep.                                *)
(***************************************************************************)
EXTENDS Ledger

Position == [shares : Nat, entry : Nat, lockedCash : Int, lockedFund : Int,
             opened : Nat, frozen : BOOLEAN]

(* Every variable has its type.  Prices stay on or above the floor; the    *)
(* balances are Int here, their sign is NoOverdraft.                       *)
TypeOK ==
    /\ now \in Nat /\ ops \in Nat /\ wallet \in Int
    /\ cash \in [Users -> Int]
    /\ long \in [Users -> [Users -> Nat]]
    /\ short \in [Users -> [Users -> Position]]
    /\ optIn \in [Users -> BOOLEAN]
    /\ fund \in [Users -> [exists : BOOLEAN, cash : Int, stakes : [Users -> Int]]]
    /\ price \in [Users -> Nat] /\ \A u \in Users : price[u] >= MinPrice
    /\ cooldown \in [Users -> Nat]
    /\ penalty \in [Users -> [apr : Nat, until : Nat]]

(* No balance and no collateral is ever negative: the constructors in       *)
(* domain/models.py would raise in the middle of the write.  The collateral *)
(* guards, the guard of cover (before the release) and the cap on           *)
(* withdrawals have to work together for it.                                *)
NoOverdraft ==
    \A u \in Users :
        /\ cash[u] >= 0 /\ fund[u].cash >= 0
        /\ \A t \in Users : short[u][t].lockedCash >= 0 /\ short[u][t].lockedFund >= 0

Drift(u, t) ==
    short[u][t].lockedCash + short[u][t].lockedFund - short[u][t].shares * short[u][t].entry

(* domain/fund_math.py: locked_cash + locked_fund == shares * entry_price,  *)
(* apart from rounding.  A top-up rounds the average entry (half a cent a   *)
(* share), a partial cover rounds two releases (a cent): over any run of    *)
(* calls the drift is at most that much a call.                             *)
CollateralBacksEntry ==
    \A u \in Users, t \in Users :
        LET allowed == ops * Greatest(2, short[u][t].shares)
        IN  2 * Drift(u, t) <= allowed /\ 2 * Drift(u, t) >= -allowed

(* update_frozen_shorts samples the clock once and takes the accounts one   *)
(* by one: whatever was closed, opened again or topped up since, it freezes *)
(* only open positions that have reached the age by then.                   *)
FrozenOnlyAged ==
    \A u \in Users, t \in Users :
        short[u][t].frozen => short[u][t].shares > 0 /\ now - short[u][t].opened >= FreezeAge

-----------------------------------------------------------------------------
Total(f) == FoldFunction(+, 0, f)
Locked(u) == Total([t \in Users |-> short[u][t].lockedCash + short[u][t].lockedFund])
Money == Total(cash) + wallet
         + Total([u \in Users |-> fund[u].cash]) + Total([u \in Users |-> Locked(u)])

(* What the market pays for a change of u's position in t at the price of   *)
(* before the step: shares bought or sold, and for a cover the cost of the  *)
(* shares and the profit of the covered part.                               *)
Proceeds(u, t) ==
    LET covered == Greatest(short[u][t].shares - short[u][t].shares', 0)
    IN  price[t] * (long[u][t] - long[u][t]')
        - covered * price[t] + Greatest(covered * (short[u][t].entry - price[t]), 0)

(* A stake changes only by what its investor pays into the fund. *)
StakesPaidFor ==
    \A f \in Users, i \in Users :
        LET paid == fund'[f].stakes[i] - fund[f].stakes[i]
        IN  paid # 0 => paid = fund'[f].cash - fund[f].cash /\ paid = cash[i] - cash'[i]

(* paid is the interest at apy on a balance, but for so many half cents. *)
InterestOn(balance, apy, paid, halves) ==
    LET d == 100 * PeriodsPerYear
        off == 2 * (d * paid - balance * apy)
    IN  off <= halves * d /\ off >= -(halves * d)

(* accrue_apy adds to one fund, and to nothing else, the interest on its    *)
(* cash and on every stake at one rate: each stake is rounded once, and the *)
(* fund twice however many investors it has.                                *)
InterestPaid(f) ==
    /\ fund' = [fund EXCEPT ![f] = fund'[f]]
    /\ UNCHANGED <<cash, long, short, wallet>>
    /\ fund'[f].cash > fund[f].cash
    /\ \E apy \in 0..BaseApy :
        /\ InterestOn(fund[f].cash, apy, fund'[f].cash - fund[f].cash, 2)
        /\ \A i \in Users :
            InterestOn(fund[f].stakes[i], apy, fund'[f].stakes[i] - fund[f].stakes[i], 1)

(* Money moves between cash, collateral, funds and the events wallet, and   *)
(* enters or leaves the guild only as the proceeds of a trade at the price  *)
(* before its impact, or as the interest of one fund.                       *)
MoneyAccountedFor ==
    [][\/ /\ Money' - Money = Total([u \in Users |-> Total([t \in Users |-> Proceeds(u, t)])])
          /\ StakesPaidFor
       \/ \E f \in Users : InterestPaid(f)]_vars

(* A frozen short does not change until it is liquidated: it is closed as a *)
(* whole, with the price at the threshold or above.                         *)
FrozenOnlyLiquidated ==
    [][\A u \in Users, t \in Users :
        short[u][t].frozen /\ short[u][t]' # short[u][t]
            => short[u][t]' = NoShort /\ Underwater(u, t)]_vars

LockedFund(u) == Total([t \in Users |-> short[u][t].lockedFund])

(* FundService.withdraw and send_to_events leave the investors' principal   *)
(* alone: the only money that leaves a fund for less than its investors'    *)
(* stakes is locked, to the cent, as collateral of its manager's shorts.    *)
PrincipalOnlyLentToShorts ==
    [][\A f \in Users :
        fund[f].cash' < fund[f].cash
            => \/ fund[f].cash' >= Stakes(fund'[f])
               \/ LockedFund(f)' - LockedFund(f) = fund[f].cash - fund[f].cash']_vars

-----------------------------------------------------------------------------
(* "Investor principal untouchable by manager" (phase 17, rule B2; the caps *)
(* of fund_service.py keep it for withdrawals): the investors of a fund     *)
(* could always be paid their stakes from its cash.                         *)
InvestorPrincipalCovered ==
    \A f \in Users : fund[f].cash >= Stakes(fund[f])

(* "may drift by up to one cent per partial cover" (fund_math.py, the note  *)
(* on drift): collateral and notional of a position do not come apart by    *)
(* adding to it.                                                            *)
OnlyPartialCoversDrift ==
    [][\A u \in Users, t \in Users :
        short[u][t].shares' > short[u][t].shares => Drift(u, t)' = Drift(u, t)]_vars
=============================================================================
