------------------------------ MODULE MCLedger ------------------------------
(***************************************************************************)
(* Two members: ann trades and runs a fund, bob is traded and invests in   *)
(* it.  Prices of 10 cents that a share moves by 2.5 cents make roundings, *)
(* the floor and the threshold happen within a few calls.                  *)
(***************************************************************************)
EXTENDS LedgerProperties

Hours == INSTANCE MarketHours

CONSTANTS ann, bob

MCUsers == {ann, bob}
MCTradePairs == {<<ann, bob>>}
MCInitialFundCash == [u \in MCUsers |-> IF u = ann THEN 10 ELSE 0]
MCInvestments == {<<bob, ann>>}
MCImpactK == [num |-> 5, den |-> 2]
MCLiquidationThreshold == [num |-> 3, den |-> 2]
MCVoiceStayBoost == [num |-> 3, den |-> 2]
MCDecayKeep == [num |-> 9, den |-> 10]

(* The market is open from 6:30 to 4:30 of the next day.  The instants are   *)
(* Saturday 23:00, Sunday 1:00, Monday 4:00 and 5:00, and later on Mondays.  *)
At(day, hour) == Hours!KindOfTime(day, hour * 3600, 23400, 16200)
MCCalendar ==
    [t \in 0..9 |-> CASE t = 0 -> At(5, 23) [] t = 1 -> At(6, 1) [] t = 2 -> At(7, 4)
                      [] t = 3 -> At(7, 5) [] OTHER -> At(7, 7 + t)]
=============================================================================
