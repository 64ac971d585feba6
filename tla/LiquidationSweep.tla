-------------------------- MODULE LiquidationSweep --------------------------
(***************************************************************************)
(* LiquidationService.check_and_liquidate_shorts, run every five minutes   *)
(* by LiquidationTask, over the ledger of Ledger.tla.  The sweep lists the *)
(* shorts once and then takes them one by one, each under its own locks;   *)
(* everything else happens between its steps.                              *)
(***************************************************************************)
EXTENDS Ledger

CONSTANT Rank       \* the place of each of TradePairs in the order of list_all

ASSUME RankAssumption == Rank \in [TradePairs -> Nat]

VARIABLE todo       \* the pairs the running sweep has listed and not looked at

sweepVars == <<vars, todo>>

SweepInit == Init /\ todo = {}

(* mutant of Candidates: off by one *)
CandidatesButFirst ==
    {p \in TradePairs : short[p[1]][p[2]].shares > 0 /\ Rank[p] > 1}

(* the shorts of the accounts list_all returned *)
Candidates == {p \in TradePairs : short[p[1]][p[2]].shares > 0}

(* p is the next one in the two nested loops *)
IsNext(p) == p \in todo /\ \A q \in todo : Rank[p] <= Rank[q]

StartSweep ==
    /\ todo = {}
    /\ todo' = Candidates
    /\ UNCHANGED vars

(* _maybe_liquidate reads the position and the price again under the locks *)
LiquidateNext(p) ==
    /\ IsNext(p) /\ todo' = todo \ {p}
    /\ Liquidate(p[1], p[2])

SkipNext(p) ==
    /\ IsNext(p) /\ todo' = todo \ {p}
    /\ ~Underwater(p[1], p[2])
    /\ UNCHANGED vars

Payable(u, t) == CanPay(u, short[u][t].shares * price[t])

(* cover_forced raises InsufficientFunds: nothing catches it between        *)
(* _maybe_liquidate and the task, which ends the sweep of the guild.        *)
AbortSweep(p) ==
    /\ IsNext(p) /\ todo' = {}
    /\ Underwater(p[1], p[2]) /\ ~Payable(p[1], p[2])
    /\ UNCHANGED vars

SweepStep ==
    \/ StartSweep
    \/ \E p \in TradePairs : LiquidateNext(p) \/ SkipNext(p) \/ AbortSweep(p)

SweepNext == SweepStep \/ (NextWithoutSweep /\ UNCHANGED todo)

(* The task's loop never stops and a sweep never blocks for ever. *)
SweepSpec == SweepInit /\ [][SweepNext]_sweepVars /\ WF_sweepVars(SweepStep)

-----------------------------------------------------------------------------
SolventWhenUnderwater ==
    \A p \in TradePairs : Underwater(p[1], p[2]) => Payable(p[1], p[2])

(* While no holder of an underwater short is out of cash, every underwater  *)
(* short is liquidated, or its price comes down again.                      *)
SolventShortsLiquidated ==
    []SolventWhenUnderwater =>
        \A p \in TradePairs : Underwater(p[1], p[2]) ~> ~Underwater(p[1], p[2])

(* "Sweep every account; liquidate shorts at-or-above the threshold"        *)
(* (liquidation_service.py): one that its holder can pay for is liquidated, *)
(* whoever else is in the guild.                                            *)
PayableShortsLiquidated ==
    \A p \in TradePairs :
        Underwater(p[1], p[2]) /\ Payable(p[1], p[2])
            ~> ~Underwater(p[1], p[2]) \/ ~Payable(p[1], p[2])
=============================================================================
