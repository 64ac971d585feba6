---------------------------- MODULE MCResetClocks ----------------------------
(***************************************************************************)
(* Two days: the second begins a day, a week and a month, so that the      *)
(* tasks are all due twice, the first time on a guild without a row.       *)
(***************************************************************************)
EXTENDS ResetClocks

MCWeekOf == <<1, 2>>
MCMonthOf == <<1, 2>>
=============================================================================
