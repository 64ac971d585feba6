----------------------------- MODULE ResetClocks -----------------------------
(***************************************************************************)
(* DailyResetTask, WeeklyResetTask and MonthlyRolloverTask for one guild.  *)
(* Each polls the guild's SystemState row, a single row with one clock per *)
(* duty, does what is due and writes the whole row back, with the other    *)
(* clocks as it read them.  Nothing locks the row, and a task can be       *)
(* overtaken at every await: the read, the service calls, the write.       *)
(*                                                                         *)
(* A day is a number from 1; a clock holds the day, week or month it was   *)
(* last advanced for, 0 for None.                                          *)
(***************************************************************************)
EXTENDS Naturals

CONSTANTS
    NumFunds,           \* the personal funds, numbered as list_all returns them
    MaxDay,             \* the last day that is explored
    WeekOf, MonthOf,    \* the calendar: day -> week, day -> month
    CountTo,            \* repeated credits are told apart up to this number
    MaxFailures         \* how many times a service call fails or the bot restarts

ASSUME BoundsAssumption ==
    NumFunds \in Nat /\ MaxDay \in Nat \ {0} /\ CountTo \in Nat \ {0} /\ MaxFailures \in Nat

Funds == 1..NumFunds
Days == 1..MaxDay

(* Weeks and months are numbered from 1, no higher than days, in order. *)
ASSUME CalendarAssumption ==
    /\ WeekOf \in [Days -> Days] /\ MonthOf \in [Days -> Days]
    /\ \A d, e \in Days : d <= e => WeekOf[d] <= WeekOf[e] /\ MonthOf[d] <= MonthOf[e]

Tasks == {"daily", "weekly", "monthly"}

VARIABLES
    today,      \* the UTC date
    row,        \* the SystemState row
    pc,         \* where each task is
    at,         \* the date a task sampled when its tick began
    seen,       \* the row as a task read it (`state`, `existing`)
    paid,       \* how many funds the running accrue_apy has credited
    resets,     \* the periods for which the buckets were zeroed
    captured,   \* months with a baseline capture
    credits,    \* how often a fund got the interest of a month, up to CountTo
    failures    \* failures and restarts so far

vars == <<today, row, pc, at, seen, paid, resets, captured, credits, failures>>

Clocks == {"daily", "weekly", "monthly", "portfolio"}
Periods == 0..MaxDay
NeverReset == [c \in Clocks |-> 0]

PeriodOf(task, day) ==
    CASE task = "daily" -> day [] task = "weekly" -> WeekOf[day] [] task = "monthly" -> MonthOf[day]

Init ==
    /\ today = 1
    /\ row = NeverReset
    /\ pc = [t \in Tasks |-> "idle"]
    /\ at = [t \in Tasks |-> 1]
    /\ seen = [t \in Tasks |-> NeverReset]
    /\ paid = 0
    /\ resets = [t \in {"daily", "weekly"} |-> {}]
    /\ captured = {}
    /\ credits = [f \in Funds |-> [m \in Periods |-> 0]]
    /\ failures = 0

GoTo(t, stage) == pc' = [pc EXCEPT ![t] = stage]

(* The tick ends, and its locals with it. *)
EndTick(t) ==
    /\ GoTo(t, "idle")
    /\ at' = [at EXCEPT ![t] = 1]
    /\ seen' = [seen EXCEPT ![t] = NeverReset]
    /\ paid' = IF t = "monthly" THEN 0 ELSE paid

(* mutant of Due: the clock is set to the coming period *)
Coming(t) == PeriodOf(t, at[t]) + 1

Due(t) == PeriodOf(t, at[t])
Bump(n) == IF n < CountTo THEN n + 1 ELSE CountTo

(* mutant of Stale: a guild without a row has nothing to do *)
StaleUnlessNone(t, state, day) == state[t] # 0 /\ PeriodOf(t, day) > state[t]

(* _is_stale: None is stale, and so is an older period; a marker of the    *)
(* future is not.                                                           *)
Stale(t, state, day) == state[t] = 0 \/ PeriodOf(t, day) > state[t]

Captured(state, day) ==
    state["portfolio"] # 0 /\ state["portfolio"] >= PeriodOf("monthly", day)

-----------------------------------------------------------------------------
NewDay == today < MaxDay /\ today' = today + 1
          /\ UNCHANGED <<row, pc, at, seen, paid, resets, captured, credits, failures>>

(* A tick samples the clock and reads the row; if nothing is due it ends    *)
(* and nothing has changed.  The monthly task keeps the row it read for its *)
(* writes, and skips the capture that an earlier tick made.                 *)
Begin(t) ==
    /\ pc[t] = "idle" /\ Stale(t, row, today)
    /\ at' = [at EXCEPT ![t] = today]
    /\ IF t = "monthly"
       THEN /\ seen' = [seen EXCEPT ![t] = row]
            /\ GoTo(t, IF Captured(row, today) THEN "accrue" ELSE "capture")
       ELSE GoTo(t, "reset") /\ UNCHANGED seen
    /\ UNCHANGED <<today, row, paid, resets, captured, credits, failures>>

(* reset_today_buckets or reset_week_buckets ran to its end. *)
Reset(t) ==
    /\ pc[t] = "reset"
    /\ resets' = [resets EXCEPT ![t] = @ \cup {Due(t)}]
    /\ GoTo(t, "reread")
    /\ UNCHANGED <<today, row, at, seen, paid, captured, credits, failures>>

(* The get in _advance_state, or after the portfolio marker was written. *)
Reread(t) ==
    /\ pc[t] = "reread"
    /\ seen' = [seen EXCEPT ![t] = row]
    /\ GoTo(t, IF t = "monthly" THEN "accrue" ELSE "write")
    /\ UNCHANGED <<today, row, at, paid, resets, captured, credits, failures>>

(* The upsert that ends a tick: the task's own clock, the others as read. *)
Write(t) ==
    /\ pc[t] = "write"
    /\ row' = [seen[t] EXCEPT ![t] = Due(t)]
    /\ EndTick(t)
    /\ UNCHANGED <<today, resets, captured, credits, failures>>

-----------------------------------------------------------------------------
(* capture_month_start_net_worth ran to its end. *)
Capture ==
    /\ pc["monthly"] = "capture"
    /\ captured' = captured \cup {Due("monthly")}
    /\ GoTo("monthly", "mark")
    /\ UNCHANGED <<today, row, at, seen, paid, resets, credits, failures>>

(* _advance_portfolio_marker, with the row read before the capture *)
MarkCapture ==
    /\ pc["monthly"] = "mark"
    /\ row' = [seen["monthly"] EXCEPT !["portfolio"] = Due("monthly")]
    /\ GoTo("monthly", "reread")
    /\ UNCHANGED <<today, at, seen, paid, resets, captured, credits, failures>>

(* accrue_apy credits the funds in turn; each is a commit of its own. *)
Credit ==
    /\ pc["monthly"] = "accrue" /\ paid < NumFunds
    /\ credits' = [credits EXCEPT ![paid + 1][Due("monthly")] = Bump(@)]
    /\ paid' = paid + 1
    /\ UNCHANGED <<today, row, pc, at, seen, resets, captured, failures>>

AccrueDone ==
    /\ pc["monthly"] = "accrue" /\ paid = NumFunds
    /\ GoTo("monthly", "write")
    /\ UNCHANGED <<today, row, at, seen, paid, resets, captured, credits, failures>>

(* mutants of Fail: the exception is swallowed inside the tick *)
FailButAdvance(t) ==
    /\ pc[t] \in {"reset", "accrue"} /\ failures < MaxFailures
    /\ GoTo(t, "write")
    /\ failures' = failures + 1
    /\ UNCHANGED <<today, row, at, seen, paid, resets, captured, credits>>
FailButAccrue(t) ==
    /\ pc[t] = "capture" /\ failures < MaxFailures
    /\ GoTo(t, "accrue")
    /\ failures' = failures + 1
    /\ UNCHANGED <<today, row, at, seen, paid, resets, captured, credits>>

(* A service call or a database call of the tick raises: _safe_run logs it  *)
(* and the tick ends.  What was committed stays.                            *)
Fail(t) ==
    /\ pc[t] # "idle" /\ failures < MaxFailures
    /\ EndTick(t)
    /\ failures' = failures + 1
    /\ UNCHANGED <<today, row, resets, captured, credits>>

(* The bot restarts: every tick is gone, the row is in the database. *)
Restart ==
    /\ failures < MaxFailures
    /\ pc' = [t \in Tasks |-> "idle"]
    /\ at' = [t \in Tasks |-> 1]
    /\ seen' = [t \in Tasks |-> NeverReset]
    /\ paid' = 0
    /\ failures' = failures + 1
    /\ UNCHANGED <<today, row, resets, captured, credits>>

Step(t) == \/ Begin(t) \/ Reread(t) \/ Write(t)
           \/ (t # "monthly" /\ Reset(t))
           \/ (t = "monthly" /\ (Capture \/ MarkCapture \/ Credit \/ AccrueDone))

Next == NewDay \/ Restart \/ \E t \in Tasks : Step(t) \/ Fail(t)

(* discord.ext.tasks runs every loop again and again; a tick's awaits end. *)
Spec == Init /\ [][Next]_vars /\ \A t \in Tasks : WF_vars(Step(t))

-----------------------------------------------------------------------------
(* Every variable has its type. *)
TypeOK ==
    /\ today \in Days /\ at \in [Tasks -> Days]
    /\ row \in [Clocks -> Periods] /\ seen \in [Tasks -> [Clocks -> Periods]]
    /\ pc \in [Tasks -> {"idle", "reset", "reread", "write",
                         "capture", "mark", "accrue"}]
    /\ paid \in 0..NumFunds /\ captured \subseteq Periods
    /\ resets \in [{"daily", "weekly"} -> SUBSET Periods]
    /\ credits \in [Funds -> [Periods -> 0..CountTo]]
    /\ failures \in 0..MaxFailures

(* The work of every period that a row of clocks shows was done to the end. *)
WorkDone(clocks) ==
    /\ \A t \in {"daily", "weekly"} : clocks[t] # 0 => clocks[t] \in resets[t]
    /\ clocks["portfolio"] # 0 => clocks["portfolio"] \in captured
    /\ clocks["monthly"] # 0 => \A f \in Funds : credits[f][clocks["monthly"]] > 0

(* "The state is advanced ONLY on a successful service call": whatever      *)
(* overwrote whatever, a clock never shows a period whose work was not done *)
(* to the end.                                                              *)
ClocksFollowWork == WorkDone(row)

(* No fund gets a month's interest before the month's baseline is captured, *)
(* after a failure, a restart or a lost marker either.                      *)
BaselineBeforeInterest ==
    \A f \in Funds, m \in Periods : credits[f][m] > 0 => m \in captured

UpToDate == \A t \in Tasks : row[t] = PeriodOf(t, today)

(* Lost markers heal: the tasks overwrite each other's clocks, but once the *)
(* date stands still all of them reach it and stay there.                   *)
ClocksConverge == <>[]UpToDate

-----------------------------------------------------------------------------
(* "so the four bookkeeping clocks stay independent" (weekly_reset_task.py, *)
(* monthly_rollover_task.py): a clock, once advanced, never goes back.      *)
ClocksNeverGoBack == [][\A c \in Clocks : row[c]' >= row[c]]_vars

(* "accrue_apy ... safe to retry" (fund_service.py): a fund gets the        *)
(* interest of a month once.                                                *)
InterestOncePerMonth == \A f \in Funds, m \in Periods : credits[f][m] <= 1
=============================================================================
