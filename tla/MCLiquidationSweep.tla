------------------------- MODULE MCLiquidationSweep -------------------------
(***************************************************************************)
(* Two members short the stock of a third.  cy is listed first; after a    *)
(* short of two shares cy cannot pay for them once the price has risen.    *)
(***************************************************************************)
EXTENDS LiquidationSweep

CONSTANTS ann, bob, cy

MCUsers == {ann, bob, cy}
MCTradePairs == {<<cy, bob>>, <<ann, bob>>}
MCRank == [p \in MCTradePairs |-> IF p = <<cy, bob>> THEN 1 ELSE 2]
MCInitialFundCash == [u \in MCUsers |-> 0]
MCImpactK == [num |-> 5, den |-> 2]
MCLiquidationThreshold == [num |-> 3, den |-> 2]
MCVoiceStayBoost == [num |-> 3, den |-> 2]
MCDecayKeep == [num |-> 9, den |-> 10]
MCCalendar == [t \in 0..9 |-> "open"]
=============================================================================
