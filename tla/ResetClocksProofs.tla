------------------------- MODULE ResetClocksProofs -------------------------
(***************************************************************************)
(* The safety invariants of ResetClocks, for any number of funds, days and *)
(* failures and any calendar whose weeks and months are in order.          *)
(***************************************************************************)
EXTENDS ResetClocks, TLAPS

(* Where the tasks can be, and that no task is ahead of the date. *)
StagesInv ==
    /\ \A t \in {"daily", "weekly"} : pc[t] \in {"idle", "reset", "reread", "write"}
    /\ pc["monthly"] \in {"idle", "capture", "mark", "reread", "accrue", "write"}
    /\ \A t \in Tasks : at[t] <= today

(* What the rows in memory show was done as well, and no row shows a        *)
(* capture of a month that has not begun.                                   *)
RowsInv ==
    /\ WorkDone(row) /\ row["portfolio"] <= MonthOf[today]
    /\ \A t \in Tasks : WorkDone(seen[t]) /\ seen[t]["portfolio"] <= MonthOf[today]

(* What a stage says about the work of the running tick. *)
WorkInv ==
    /\ \A t \in {"daily", "weekly"} : pc[t] \in {"reread", "write"} => Due(t) \in resets[t]
    /\ pc["monthly"] \in {"mark", "reread", "accrue", "write"} => Due("monthly") \in captured
    /\ \A f \in 1..paid : credits[f][Due("monthly")] > 0
    /\ pc["monthly"] \notin {"accrue", "write"} => paid = 0
    /\ pc["monthly"] = "write" => paid = NumFunds

IInv == TypeOK /\ StagesInv /\ RowsInv /\ WorkInv /\ BaselineBeforeInterest

-----------------------------------------------------------------------------
(* The period of a task on a day is a day's number; months do not go back. *)
LEMMA PeriodType ==
    ASSUME NEW t \in Tasks, NEW d \in Days
    PROVE  /\ PeriodOf(t, d) \in Days /\ PeriodOf(t, d) \in Periods /\ PeriodOf(t, d) # 0
           /\ PeriodOf("monthly", d) = MonthOf[d]
<1>1. WeekOf[d] \in Days /\ MonthOf[d] \in Days
      BY CalendarAssumption
<1> QED
      BY <1>1, BoundsAssumption DEF Tasks, PeriodOf, Days, Periods

(* The initial state satisfies the invariant: no clock shows anything. *)
LEMMA InitIInv == Init => IInv
<1> SUFFICES ASSUME Init PROVE IInv
    OBVIOUS
<1>0. 1 \in Days /\ MonthOf[1] \in Nat
      BY BoundsAssumption, CalendarAssumption DEF Days
<1>1. TypeOK
      BY <1>0, BoundsAssumption
      DEF Init, TypeOK, NeverReset, Clocks, Periods, Tasks, Days, Funds
<1>2. StagesInv
      BY DEF Init, StagesInv, Tasks
<1>3. RowsInv
      BY <1>0 DEF Init, RowsInv, WorkDone, NeverReset, Clocks, Tasks
<1>4. WorkInv
      BY DEF Init, WorkInv, Tasks
<1>5. BaselineBeforeInterest
      BY DEF Init, BaselineBeforeInterest
<1> QED BY <1>1, <1>2, <1>3, <1>4, <1>5 DEF IInv

-----------------------------------------------------------------------------
(* A new day: nothing that was done is undone. *)
LEMMA NewDayIInv == IInv /\ NewDay => IInv'
<1> SUFFICES ASSUME IInv, NewDay PROVE IInv'
    OBVIOUS
<1> USE DEF IInv, NewDay
<1>0. today' \in Days /\ today \in Days /\ today <= today'
      BY BoundsAssumption DEF TypeOK, Days
<1>1. TypeOK'
      BY <1>0 DEF TypeOK
<1>2. StagesInv'
      BY <1>0 DEF StagesInv, TypeOK, Days
<1>3. RowsInv'
  <2>1. MonthOf[today] \in Nat /\ MonthOf[today'] \in Nat /\ MonthOf[today] <= MonthOf[today']
        BY <1>0, CalendarAssumption DEF Days
  <2>2. row["portfolio"] \in Nat /\ \A t \in Tasks : seen[t]["portfolio"] \in Nat
        BY DEF TypeOK, Clocks, Periods
  <2> QED BY <2>1, <2>2 DEF RowsInv, WorkDone
<1>4. WorkInv' /\ BaselineBeforeInterest'
      BY DEF WorkInv, Due, BaselineBeforeInterest
<1> QED BY <1>1, <1>2, <1>3, <1>4

(* A tick that ends, however it ends, keeps the invariant. *)
LEMMA EndTickIInv ==
    ASSUME NEW t \in Tasks, IInv, EndTick(t), failures' \in 0..MaxFailures,
           row' \in [Clocks -> Periods], WorkDone(row'), row'["portfolio"] <= MonthOf[today],
           UNCHANGED <<today, resets, captured, credits>>
    PROVE  IInv'
<1> USE DEF IInv, EndTick, GoTo
<1>a. 1 \in Days /\ today \in Days /\ 1 <= today
      BY BoundsAssumption DEF TypeOK, Days
<1>b. MonthOf[today] \in Days
      BY <1>a, CalendarAssumption
<1>0. 1 \in Days /\ today \in Days /\ 1 <= today /\ MonthOf[today] \in Nat
      BY <1>a, <1>b DEF Days
<1>1. TypeOK'
  <2>0. NeverReset \in [Clocks -> Periods]
        BY BoundsAssumption DEF NeverReset, Periods
  <2>1. seen' \in [Tasks -> [Clocks -> Periods]]
        BY <2>0 DEF TypeOK
  <2>2. paid' \in 0..NumFunds
        BY BoundsAssumption DEF TypeOK
  <2> QED BY <1>0, <2>1, <2>2 DEF TypeOK
<1>2. StagesInv'
      BY <1>0 DEF StagesInv, TypeOK, Tasks
<1>3. RowsInv'
  <2>1. WorkDone(row)' 
        BY DEF WorkDone
  <2>2. \A u \in Tasks : WorkDone(seen[u])' /\ seen'[u]["portfolio"] <= MonthOf[today]
        BY <1>0 DEF RowsInv, WorkDone, NeverReset, Clocks, TypeOK
  <2> QED BY <2>1, <2>2 DEF RowsInv
<1>4. WorkInv'
  <2>1. CASE t = "monthly"
        BY <2>1 DEF WorkInv, Due, TypeOK, Tasks
  <2>2. CASE t # "monthly"
        BY <2>2 DEF WorkInv, Due, TypeOK, Tasks
  <2> QED BY <2>1, <2>2
<1>5. BaselineBeforeInterest'
      BY DEF BaselineBeforeInterest
<1> QED BY <1>1, <1>2, <1>3, <1>4, <1>5

-----------------------------------------------------------------------------
(* A tick begins.  A monthly tick that skips the capture read a marker of   *)
(* this very month, as no marker is ahead of the date.                      *)
LEMMA BeginIInv == ASSUME NEW t \in Tasks PROVE IInv /\ Begin(t) => IInv'
<1> SUFFICES ASSUME IInv, Begin(t) PROVE IInv'
    OBVIOUS
<1> USE DEF IInv, Begin, GoTo
<1>0. today \in Days /\ today <= today
      BY DEF TypeOK, Days
<1>1. TypeOK'
      BY <1>0 DEF TypeOK, Tasks
<1>2. StagesInv'
      BY <1>0 DEF StagesInv, TypeOK, Tasks
<1>3. RowsInv'
      BY DEF RowsInv, WorkDone, TypeOK
<1>4. WorkInv'
  <2>1. CASE t # "monthly"
        BY <2>1 DEF WorkInv, StagesInv, Due, TypeOK, Tasks
  <2>2. CASE t = "monthly"
    <3>1. Captured(row, today) => PeriodOf("monthly", today) \in captured
      <4>1. /\ PeriodOf("monthly", today) = MonthOf[today] /\ MonthOf[today] \in Nat
            BY <1>0, PeriodType DEF Tasks, Days
      <4>2. row["portfolio"] \in Nat
            BY DEF TypeOK, Clocks, Periods
      <4> QED BY <4>1, <4>2 DEF Captured, RowsInv, WorkDone
    <3>2. paid = 0 /\ Due("monthly")' = PeriodOf("monthly", today)
          BY <2>2 DEF WorkInv, Due, TypeOK
    <3> QED BY <2>2, <3>1, <3>2 DEF WorkInv, StagesInv, Due, TypeOK, Tasks
  <2> QED BY <2>1, <2>2
<1>5. BaselineBeforeInterest'
      BY DEF BaselineBeforeInterest
<1> QED BY <1>1, <1>2, <1>3, <1>4, <1>5

(* A bucket reset is recorded for the period of its tick. *)
LEMMA ResetIInv == ASSUME NEW t \in Tasks PROVE IInv /\ t # "monthly" /\ Reset(t) => IInv'
<1> SUFFICES ASSUME IInv, t # "monthly", Reset(t) PROVE IInv'
    OBVIOUS
<1> USE DEF IInv, Reset, GoTo
<1>0. t \in {"daily", "weekly"} /\ Due(t) \in Periods
      BY PeriodType DEF Tasks, TypeOK, Due
<1>1. TypeOK'
      BY <1>0 DEF TypeOK
<1>2. StagesInv'
      BY <1>0 DEF StagesInv, TypeOK, Tasks
<1>3. RowsInv'
      BY <1>0 DEF RowsInv, WorkDone, TypeOK
<1>4. WorkInv'
      BY <1>0 DEF WorkInv, Due, TypeOK, Tasks
<1>5. BaselineBeforeInterest'
      BY DEF BaselineBeforeInterest
<1> QED BY <1>1, <1>2, <1>3, <1>4, <1>5

(* What is read is the row, whose work is done. *)
LEMMA RereadIInv == ASSUME NEW t \in Tasks PROVE IInv /\ Reread(t) => IInv'
<1> SUFFICES ASSUME IInv, Reread(t) PROVE IInv'
    OBVIOUS
<1> USE DEF IInv, Reread, GoTo
<1>1. TypeOK'
      BY DEF TypeOK
<1>2. StagesInv'
      BY DEF StagesInv, TypeOK, Tasks
<1>3. RowsInv'
      BY DEF RowsInv, WorkDone, TypeOK
<1>4. WorkInv'
      BY DEF WorkInv, StagesInv, Due, TypeOK, Tasks
<1>5. BaselineBeforeInterest'
      BY DEF BaselineBeforeInterest
<1> QED BY <1>1, <1>2, <1>3, <1>4, <1>5

(* The write at the end of a tick: the task's own work is done, and that of *)
(* the other clocks was done when the row was read.                         *)
LEMMA WriteIInv == ASSUME NEW t \in Tasks PROVE IInv /\ Write(t) => IInv'
<1> SUFFICES ASSUME IInv, Write(t) PROVE IInv'
    OBVIOUS
<1>0. TypeOK /\ StagesInv /\ RowsInv /\ WorkInv
      BY DEF IInv
<1>1. row' = [seen[t] EXCEPT ![t] = Due(t)] /\ EndTick(t) /\ pc[t] = "write"
      BY DEF Write
<1>2. Due(t) \in Periods /\ Due(t) # 0 /\ t \in Clocks
      BY <1>0, PeriodType DEF TypeOK, Due, Tasks, Clocks
<1>3. row' \in [Clocks -> Periods]
      BY <1>0, <1>1, <1>2 DEF TypeOK
<1>4. row'["portfolio"] <= MonthOf[today]
  <2>1. row'["portfolio"] = seen[t]["portfolio"]
        BY <1>0, <1>1 DEF TypeOK, Tasks, Clocks
  <2> QED BY <2>1, <1>0 DEF RowsInv
<1>5. WorkDone(row')
  <2>1. \A u \in Clocks : row'[u] = IF u = t THEN Due(t) ELSE seen[t][u]
        BY <1>0, <1>1, <1>2 DEF TypeOK
  <2>2. WorkDone(seen[t])
        BY <1>0 DEF RowsInv
  <2>3. t # "monthly" => Due(t) \in resets[t]
        BY <1>0, <1>1 DEF WorkInv, Tasks
  <2>4. t = "monthly" => \A f \in Funds : credits[f][Due(t)] > 0
        BY <1>0, <1>1 DEF WorkInv, Funds
  <2>5. \A u \in {"daily", "weekly"} : row'[u] # 0 => row'[u] \in resets[u]
        BY <2>1, <2>2, <2>3 DEF WorkDone, Clocks, Tasks
  <2>6. row'["portfolio"] # 0 => row'["portfolio"] \in captured
        BY <2>1, <2>2 DEF WorkDone, Clocks, Tasks
  <2>7. row'["monthly"] # 0 => \A f \in Funds : credits[f][row'["monthly"]] > 0
        BY <2>1, <2>2, <2>4 DEF WorkDone, Clocks, Tasks
  <2> QED BY <2>5, <2>6, <2>7 DEF WorkDone
<1>6. UNCHANGED <<today, resets, captured, credits>> /\ failures' \in 0..MaxFailures
      BY <1>0 DEF Write, TypeOK
<1> QED BY <1>1, <1>3, <1>4, <1>5, <1>6, EndTickIInv

-----------------------------------------------------------------------------
(* The baseline of the month is captured. *)
LEMMA CaptureIInv == IInv /\ Capture => IInv'
<1> SUFFICES ASSUME IInv, Capture PROVE IInv'
    OBVIOUS
<1> USE DEF IInv, Capture, GoTo
<1>0. Due("monthly") \in Periods /\ "monthly" \in Tasks
      BY PeriodType DEF Tasks, TypeOK, Due
<1>1. TypeOK'
      BY <1>0 DEF TypeOK
<1>2. StagesInv'
      BY <1>0 DEF StagesInv, TypeOK, Tasks
<1>3. RowsInv'
      BY DEF RowsInv, WorkDone
<1>4. WorkInv'
      BY <1>0 DEF WorkInv, StagesInv, Due, TypeOK, Tasks
<1>5. BaselineBeforeInterest'
      BY DEF BaselineBeforeInterest
<1> QED BY <1>1, <1>2, <1>3, <1>4, <1>5

(* The marker of the capture: the month of the tick is not ahead of today. *)
LEMMA MarkCaptureIInv == IInv /\ MarkCapture => IInv'
<1> SUFFICES ASSUME IInv, MarkCapture PROVE IInv'
    OBVIOUS
<1> USE DEF IInv, MarkCapture, GoTo
<1>0. "monthly" \in Tasks /\ at["monthly"] \in Days /\ today \in Days
      BY DEF Tasks, TypeOK
<1>a. Due("monthly") \in Periods /\ Due("monthly") \in captured
      BY <1>0, PeriodType DEF Due, WorkInv
<1>b. Due("monthly") <= MonthOf[today]
  <2>1. Due("monthly") = MonthOf[at["monthly"]]
        BY <1>0, PeriodType DEF Due
  <2> QED BY <2>1, <1>0, CalendarAssumption DEF StagesInv
<1>c. row' \in [Clocks -> Periods]
          /\ \A u \in Clocks : row'[u] = IF u = "portfolio" THEN Due("monthly")
                                         ELSE seen["monthly"][u]
      BY <1>0, <1>a DEF TypeOK
<1>1. TypeOK'
      BY <1>0, <1>c DEF TypeOK
<1>2. StagesInv'
      BY <1>0 DEF StagesInv, TypeOK, Tasks
<1>3. RowsInv'
  <2>1. WorkDone(seen["monthly"]) /\ UNCHANGED <<today, resets, captured, credits, seen>>
        BY <1>0 DEF RowsInv
  <2>2. WorkDone(row)'
        BY <2>1, <1>a, <1>c DEF WorkDone, Clocks
  <2>3. row'["portfolio"] <= MonthOf[today]
        BY <1>b, <1>c DEF Clocks
  <2> QED BY <2>1, <2>2, <2>3 DEF RowsInv, WorkDone
<1>4. WorkInv'
      BY <1>0 DEF WorkInv, StagesInv, Due, TypeOK, Tasks
<1>5. BaselineBeforeInterest'
      BY DEF BaselineBeforeInterest
<1> QED BY <1>1, <1>2, <1>3, <1>4, <1>5

(* A fund is credited: the month's baseline is there, and no credit is lost. *)
LEMMA CreditIInv == IInv /\ Credit => IInv'
<1> SUFFICES ASSUME IInv, Credit PROVE IInv'
    OBVIOUS
<1> USE DEF IInv, Credit
<1> DEFINE month == Due("monthly")
<1>0. "monthly" \in Tasks /\ month \in Periods /\ month \in captured
      BY PeriodType DEF Tasks, TypeOK, Due, WorkInv
<1>a. /\ paid \in Nat /\ paid + 1 \in Funds /\ paid + 1 \in 0..NumFunds
      /\ paid' = paid + 1
      BY BoundsAssumption DEF TypeOK, Funds
<1>b. \A n \in 0..CountTo : Bump(n) \in 0..CountTo /\ Bump(n) > 0
      BY BoundsAssumption DEF Bump
<1>c. credits' \in [Funds -> [Periods -> 0..CountTo]]
      BY <1>0, <1>a, <1>b DEF TypeOK
<1>d. \A f \in Funds, m \in Periods :
          credits'[f][m] = IF f = paid + 1 /\ m = month THEN Bump(credits[f][m])
                           ELSE credits[f][m]
      BY <1>0, <1>a DEF TypeOK
<1>e. \A f \in Funds, m \in Periods : credits[f][m] > 0 => credits'[f][m] > 0
      BY <1>b, <1>d DEF TypeOK
<1>1. TypeOK'
      BY <1>a, <1>c DEF TypeOK
<1>2. StagesInv'
      BY DEF StagesInv
<1>3. RowsInv'
  <2>1. \A c \in [Clocks -> Periods] : WorkDone(c) => WorkDone(c)'
        BY <1>e DEF WorkDone, Clocks
  <2> QED BY <2>1 DEF RowsInv, TypeOK
<1>4. WorkInv'
  <2>1. \A f \in 1..paid' : credits'[f][month] > 0
    <3> SUFFICES ASSUME NEW f \in 1..paid' PROVE credits'[f][month] > 0
        OBVIOUS
    <3>1. f \in Funds /\ (f = paid + 1 \/ f \in 1..paid)
          BY <1>a, BoundsAssumption DEF Funds
    <3>2. f \in 1..paid => credits[f][month] > 0
          BY DEF WorkInv
    <3>3. credits[f][month] \in 0..CountTo
          BY <3>1, <1>0 DEF TypeOK
    <3> QED BY <3>1, <3>2, <3>3, <1>0, <1>b, <1>d
  <2>2. month' = month
        BY DEF Due
  <2> QED BY <2>1, <2>2 DEF WorkInv, Due
<1>5. BaselineBeforeInterest'
      BY <1>0, <1>d DEF BaselineBeforeInterest
<1> QED BY <1>1, <1>2, <1>3, <1>4, <1>5

(* accrue_apy returns when every fund has been credited. *)
LEMMA AccrueDoneIInv == IInv /\ AccrueDone => IInv'
<1> SUFFICES ASSUME IInv, AccrueDone PROVE IInv'
    OBVIOUS
<1> USE DEF IInv, AccrueDone, GoTo
<1>1. TypeOK'
      BY DEF TypeOK, Tasks
<1>2. StagesInv'
      BY DEF StagesInv, TypeOK, Tasks
<1>3. RowsInv'
      BY DEF RowsInv, WorkDone
<1>4. WorkInv'
      BY DEF WorkInv, StagesInv, Due, TypeOK, Tasks
<1>5. BaselineBeforeInterest'
      BY DEF BaselineBeforeInterest
<1> QED BY <1>1, <1>2, <1>3, <1>4, <1>5

(* A failure loses the tick, not what it committed. *)
LEMMA FailIInv == ASSUME NEW t \in Tasks PROVE IInv /\ Fail(t) => IInv'
<1> SUFFICES ASSUME IInv, Fail(t) PROVE IInv'
    OBVIOUS
<1>1. failures' \in 0..MaxFailures
      BY BoundsAssumption DEF Fail, IInv, TypeOK
<1>2. /\ UNCHANGED <<today, row, resets, captured, credits>> /\ EndTick(t)
      /\ row' \in [Clocks -> Periods] /\ WorkDone(row') /\ row'["portfolio"] <= MonthOf[today]
      BY DEF Fail, IInv, TypeOK, RowsInv
<1> QED BY <1>1, <1>2, EndTickIInv

(* A restart loses every tick at once. *)
LEMMA RestartIInv == IInv /\ Restart => IInv'
<1> SUFFICES ASSUME IInv, Restart PROVE IInv'
    OBVIOUS
<1> USE DEF IInv, Restart
<1>0. 1 \in Days /\ today \in Days /\ 1 <= today
      BY BoundsAssumption DEF TypeOK, Days
<1>a. MonthOf[today] \in Nat
      BY <1>0, CalendarAssumption DEF Days
<1>b. NeverReset \in [Clocks -> Periods]
      BY BoundsAssumption DEF NeverReset, Periods
<1>1. TypeOK'
      BY <1>0, <1>b, BoundsAssumption DEF TypeOK
<1>2. StagesInv'
      BY <1>0 DEF StagesInv, Tasks
<1>3. RowsInv'
      BY <1>a DEF RowsInv, WorkDone, NeverReset, Clocks
<1>4. WorkInv'
      BY DEF WorkInv, Tasks
<1>5. BaselineBeforeInterest'
      BY DEF BaselineBeforeInterest
<1> QED BY <1>1, <1>2, <1>3, <1>4, <1>5

-----------------------------------------------------------------------------
(* Every step keeps the invariant. *)
LEMMA NextIInv == IInv /\ [Next]_vars => IInv'
<1> SUFFICES ASSUME IInv, [Next]_vars PROVE IInv'
    OBVIOUS
<1>1. CASE NewDay
      BY <1>1, NewDayIInv
<1>2. CASE Restart
      BY <1>2, RestartIInv
<1>3. ASSUME NEW t \in Tasks, Step(t) PROVE IInv'
      BY <1>3, BeginIInv, RereadIInv, WriteIInv, ResetIInv, CaptureIInv,
         MarkCaptureIInv, CreditIInv, AccrueDoneIInv DEF Step
<1>4. ASSUME NEW t \in Tasks, Fail(t) PROVE IInv'
      BY <1>4, FailIInv
<1>5. CASE UNCHANGED vars
      BY <1>5 DEF vars, IInv, TypeOK, StagesInv, RowsInv, WorkDone, WorkInv, Due,
                  BaselineBeforeInterest
<1> QED BY <1>1, <1>2, <1>3, <1>4, <1>5 DEF Next

(* The inductive invariant holds in every reachable state. *)
THEOREM InvariantHolds == Spec => []IInv
<1> QED BY InitIInv, NextIInv, PTL DEF Spec

(* The variables keep their types. *)
THEOREM TypeCorrect == Spec => []TypeOK
<1>1. IInv => TypeOK
      BY DEF IInv
<1> QED BY <1>1, InvariantHolds, PTL

(* No clock ever shows a period whose resets, capture or credits were not   *)
(* done to the end, whatever the three tasks overwrite of each other.       *)
THEOREM ClocksFollowWorkHolds == Spec => []ClocksFollowWork
<1>1. IInv => ClocksFollowWork
      BY DEF IInv, RowsInv, ClocksFollowWork
<1> QED BY <1>1, InvariantHolds, PTL

(* Interest of a month is credited only after the month's baseline capture. *)
THEOREM BaselineBeforeInterestHolds == Spec => []BaselineBeforeInterest
<1>1. IInv => BaselineBeforeInterest
      BY DEF IInv
<1> QED BY <1>1, InvariantHolds, PTL
=============================================================================
