------------------------------- MODULE Community -------------------------------
(***************************************************************************)
(* The calls of one guild that change a member's account or the price of   *)
(* his stock without a trade: ActivityService, DailyService,               *)
(* PriceTickService, DisciplineService and MemberListener.  A call visits  *)
(* members one after the other; for each it takes the lock                 *)
(* "<guild>:<member>", reads a row, computes the new one, stores it, and   *)
(* appends a new price to the history in a second transaction.  No unit of *)
(* work spans these: an exception or a restart can fall between any two.   *)
(*                                                                         *)
(* The counters of a bucket are one number.  Cash is what /daily paid; the *)
(* trades, which move the same rows under the same locks, are in Ledger.   *)
(***************************************************************************)
EXTENDS DomainMath, FiniteSets, Sequences

CONSTANTS
    Members,
    HasStock,      \* members with a stock row
    Moderators,
    Unknown,       \* _UNKNOWN_ACTOR_ID
    Handlers,      \* commands and events that can be handled at one time
    Commands,      \* the <<kind, member>> Discord may send
    MinPrice, InitialPrice,
    ReturnPerPoint, \* percent
    Keep,          \* 1 - inactivity_decay, as [num, den]
    Boost,         \* voice_stay_boost and the other multipliers, as [num, den]
    Penalised,     \* 1 - discipline_penalty, as [num, den]
    StallWindow, StallNearest,  \* _ATTENUATION_DISTANCE, _MIN_DISTANCE
    IdleAfter,     \* inactivity_threshold_seconds
    ClaimWindow,   \* _CLAIM_WINDOW; _STREAK_GAP is twice that
    BonusLength,   \* _STREAK_BONUS_LENGTH
    DailyReward, StreakBonus,
    Cooldown,      \* _DEFAULT_COOLDOWN_SECONDS
    MaxTime, MaxCalls, MaxFailures, MaxRestarts

Sweeps == {"activity tick", "inactivity decay", "daily reset", "weekly reset"}
PriceKinds == {"activity tick", "inactivity decay", "stay boost", "extra boost", "penalty"}
AccountKinds == {"message", "opt in", "opt out", "daily", "daily reset", "weekly reset"}
Kinds == PriceKinds \cup AccountKinds
Fraction == [num : Nat, den : Nat \ {0}]

Nobody == "nobody"

ASSUME CommunityAssumption ==
    /\ IsFiniteSet(Members) /\ IsFiniteSet(Handlers) /\ HasStock \subseteq Members
    /\ Unknown \notin Moderators /\ Nobody \notin Members
    /\ Sweeps \cap Handlers = {}
    /\ Commands \subseteq (Kinds \ Sweeps) \X Members
    /\ {MinPrice, InitialPrice, StallNearest, StallWindow} \subseteq Nat \ {0}
    /\ InitialPrice >= MinPrice /\ StallNearest <= StallWindow
    /\ {Keep, Boost, Penalised} \subseteq Fraction /\ Boost.num >= Boost.den
    /\ {ClaimWindow, BonusLength, Cooldown} \subseteq Nat \ {0}
    /\ {ReturnPerPoint, IdleAfter, DailyReward, StreakBonus, MaxTime, MaxCalls, MaxFailures, MaxRestarts}
         \subseteq Nat

VARIABLES
    account,   \* member -> stored account, for those who have one
    stock,     \* member -> stored stock, for those who have one
    history,   \* member -> [price, by], the stored price points
    cooldown,  \* MemberListener._cooldown: expiry, or zero
    call,      \* the coroutines at work
    now, calls, failures, restarts,
    \* What the calls did, for the properties:
    claims,    \* member -> the instants of the claims that were paid
    intros,    \* member -> how often the introduction was sent
    gates,     \* the penalties that passed the cooldown, in order
    torn,      \* members whose last price was stored without its point
    missed     \* members marked as introduced whose introduction was cut off

vars == <<account, stock, history, cooldown, call, now, calls, failures, restarts,
          claims, intros, gates, torn, missed>>

Slots == Handlers \cup Sweeps
Keys == Members \X (Moderators \cup {Unknown})
Never == -1

(* seed_user_account *)
Seed == [today |-> 0, week |-> 0, last |-> now, opt_in |-> TRUE, intro |-> FALSE,
         cash |-> 0, claimed |-> Never, streak |-> 0]

NoAccount == [today |-> 0, week |-> 0, last |-> 0, opt_in |-> TRUE, intro |-> FALSE,
              cash |-> 0, claimed |-> Never, streak |-> 0]
NoPrice == [price |-> 0, high |-> 0]
Idle == [kind |-> "none", pc |-> "idle", todo |-> {}, user |-> Nobody, at |-> 0,
         points |-> [u \in Members |-> 0], account |-> NoAccount, shows |-> FALSE,
         stock |-> NoPrice]

Init ==
    /\ account = [u \in {} |-> NoAccount]
    /\ stock = [u \in HasStock |-> [price |-> InitialPrice, high |-> InitialPrice]]
    /\ history = [u \in HasStock |-> <<[price |-> InitialPrice, by |-> "trade"]>>]
    /\ cooldown = [k \in Keys |-> 0]
    /\ call = [s \in Slots |-> Idle]
    /\ now = 0 /\ calls = 0 /\ failures = 0 /\ restarts = 0
    /\ claims = [u \in Members |-> <<>>]
    /\ intros = [u \in Members |-> 0]
    /\ gates = <<>>
    /\ torn = {} /\ missed = {}

Known == DOMAIN account
Account(u) == IF u \in Known THEN account[u] ELSE Seed
Put(table, u, row) == [v \in DOMAIN table \cup {u} |-> IF v = u THEN row ELSE table[v]]

-----------------------------------------------------------------------------
(* Calls begin. *)

Tick ==
    /\ now < MaxTime
    /\ now' = now + 1
    /\ UNCHANGED <<account, stock, history, cooldown, call, calls, failures, restarts,
                   claims, intros, gates, torn, missed>>

Begin(s, new) ==
    /\ call[s].pc = "idle" /\ calls < MaxCalls
    /\ calls' = calls + 1
    /\ call' = [call EXCEPT ![s] = new]
    /\ UNCHANGED <<account, stock, history, cooldown, now, failures, restarts,
                   claims, intros, gates, torn, missed>>

(* A message, a reaction, /optin, /optout, /daily, or a boost of the voice  *)
(* component: the instant is taken before the lock.                         *)
Command(h, c) ==
    /\ c[1] # "penalty"
    /\ Begin(h, [Idle EXCEPT !.kind = c[1], !.pc = "next", !.todo = {c[2]}, !.at = now])

(* on_member_update, on_member_ban: the moderator is looked up first. *)
Disciplined(h, c) ==
    /\ c[1] = "penalty"
    /\ Begin(h, [Idle EXCEPT !.kind = "penalty", !.pc = "resolve", !.todo = {c[2]}])

StartSweep(s) == Begin(s, [Idle EXCEPT !.kind = s, !.pc = "list", !.at = now])

(* list_all.  The tick keeps the buckets it listed, the decay those who     *)
(* were idle.                                                               *)
List(s) ==
    /\ call[s].pc = "list"
    /\ LET todo == IF s = "inactivity decay"
                   THEN {u \in Known : call[s].at - account[u].last > IdleAfter}
                   ELSE Known
           points == [u \in Members |-> IF s = "activity tick" /\ u \in Known
                                        THEN account[u].today ELSE 0]
       IN  call' = [call EXCEPT ![s] =
                      IF todo = {} THEN Idle
                      ELSE [@ EXCEPT !.pc = "next", !.todo = todo, !.points = points]]
    /\ UNCHANGED <<account, stock, history, cooldown, now, calls, failures, restarts,
                   claims, intros, gates, torn, missed>>

(* mutant of Gate: an unknown moderator is not remembered *)
GateKnown(h, actor) ==
    /\ call[h].pc = "resolve"
    /\ \E u \in call[h].todo :
         LET key == <<u, actor>>
             active == [k \in Keys |-> IF cooldown[k] > now THEN cooldown[k] ELSE 0]
         IN  IF active[key] > now
             THEN /\ cooldown' = active
                  /\ call' = [call EXCEPT ![h] = Idle]
                  /\ UNCHANGED gates
             ELSE /\ cooldown' = IF actor = Unknown THEN active
                                 ELSE [active EXCEPT ![key] = now + Cooldown]
                  /\ call' = [call EXCEPT ![h].pc = "next", ![h].at = now]
                  /\ gates' = Append(gates, [key |-> key, at |-> now, restarts |-> restarts])
    /\ UNCHANGED <<account, stock, history, now, calls, failures, restarts,
                   claims, intros, torn, missed>>

(* _apply_penalty once the actor is known: expired cooldowns are dropped,   *)
(* an active one ends the call, else it is set.  The audit log may lag and  *)
(* gives the latest entry about the member it has: any moderator, or none.  *)
Gate(h, actor) ==
    /\ call[h].pc = "resolve"
    /\ \E u \in call[h].todo :
         LET key == <<u, actor>>
             active == [k \in Keys |-> IF cooldown[k] > now THEN cooldown[k] ELSE 0]
         IN  IF active[key] > now
             THEN /\ cooldown' = active
                  /\ call' = [call EXCEPT ![h] = Idle]
                  /\ UNCHANGED gates
             ELSE /\ cooldown' = [active EXCEPT ![key] = now + Cooldown]
                  /\ call' = [call EXCEPT ![h].pc = "next", ![h].at = now]
                  /\ gates' = Append(gates, [key |-> key, at |-> now, restarts |-> restarts])
    /\ UNCHANGED <<account, stock, history, now, calls, failures, restarts,
                   claims, intros, torn, missed>>

-----------------------------------------------------------------------------
(* What a section computes. *)

(* mutant of MayClaim: by the date *)
MayClaimByDate(row, at) ==
    row.claimed = Never \/ at \div ClaimWindow > row.claimed \div ClaimWindow

(* _next_streak raises AlreadyClaimedToday otherwise. *)
MayClaim(row, at) == row.claimed = Never \/ at - row.claimed >= ClaimWindow

(* _next_streak *)
NextStreak(row, at) ==
    IF row.claimed # Never /\ at - row.claimed < 2 * ClaimWindow THEN row.streak + 1 ELSE 1

Claimed(row, at) ==
    LET streak == NextStreak(row, at)
        bonus == streak = BonusLength
    IN  [row EXCEPT !.cash = @ + DailyReward + (IF bonus THEN StreakBonus ELSE 0),
                    !.claimed = at,
                    !.streak = IF bonus THEN 0 ELSE streak]

Changed(kind, row, at) ==
    CASE kind = "message" -> [row EXCEPT !.today = @ + 1, !.week = @ + 1, !.last = at]
      [] kind = "opt in" -> [row EXCEPT !.opt_in = TRUE, !.intro = TRUE]
      [] kind = "opt out" -> [row EXCEPT !.opt_in = FALSE]
      [] kind = "daily" -> Claimed(row, at)
      [] kind = "daily reset" -> [row EXCEPT !.today = 0]
      [] kind = "weekly reset" -> [row EXCEPT !.week = 0]

(* mutant of PenalisedPrice: no floor *)
PenalisedUnfloored(price) == Quantise(price * Penalised.num, Penalised.den)

(* apply_discipline_penalty *)
PenalisedPrice(price) == Greatest(Quantise(price * Penalised.num, Penalised.den), MinPrice)

Stalled(price, n, d) == FloorStall(price, n, d, MinPrice, StallWindow, StallNearest)

(* compute_activity_return grows with the activity, here in proportion. *)
Return(points) == ReturnPerPoint * points

NewPrice(kind, price, points) ==
    CASE kind = "activity tick" -> Stalled(price, price * (100 + Return(points)), 100)
      [] kind = "inactivity decay" -> InactivityDecay(price, Keep, MinPrice)
      [] kind \in {"stay boost", "extra boost"} -> Stalled(price, price * Boost.num, Boost.den)
      [] kind = "penalty" -> PenalisedPrice(price)

(* _apply_stay_boost and _apply_join_boost leave all_time_high alone. *)
Repriced(kind, row, price) ==
    [price |-> price, high |-> IF kind = "stay boost" THEN row.high ELSE Greatest(row.high, price)]

-----------------------------------------------------------------------------
(* One section. *)

(* mutant of ShowsIntro: whoever was not opted in *)
ShowsIntroAgain(row) == ~row.intro \/ ~row.opt_in

(* should_show_intro *)
ShowsIntro(row) == ~row.intro

(* mutant of Held: no lock *)
NeverHeld(u) == FALSE

Held(u) == \E s \in Slots : call[s].pc \in {"store", "append"} /\ call[s].user = u

(* The next member, or the end of the call. *)
After(c) == IF c.todo = {} THEN Idle ELSE [c EXCEPT !.pc = "next"]

(* The lock is taken and the account read; /daily stores a new account at   *)
(* once.  A claim that comes too early raises.                              *)
ReadAccount(s, u) ==
    /\ call[s].pc = "next" /\ call[s].kind \in AccountKinds
    /\ u \in call[s].todo /\ ~Held(u)
    /\ LET c == [call[s] EXCEPT !.todo = @ \ {u}, !.user = u]
           row == Account(u)
           refused == c.kind = "daily" /\ ~MayClaim(row, c.at)
       IN  /\ call' = [call EXCEPT ![s] =
                         IF refused THEN After(c)
                         ELSE [c EXCEPT !.pc = "store", !.account = Changed(c.kind, row, c.at),
                                        !.shows = c.kind = "opt in" /\ ShowsIntro(row)]]
           /\ account' = IF c.kind = "daily" THEN Put(account, u, row) ELSE account
    /\ UNCHANGED <<stock, history, cooldown, now, calls, failures, restarts,
                   claims, intros, gates, torn, missed>>

(* The lock is released.  A first /optin goes on to the introduction, which *)
(* the row already shows as sent.                                           *)
StoreAccount(s) ==
    /\ call[s].pc = "store" /\ call[s].kind \in AccountKinds
    /\ LET c == call[s] IN
       /\ account' = Put(account, c.user, c.account)
       /\ call' = [call EXCEPT ![s] = IF c.shows THEN [c EXCEPT !.pc = "dm"] ELSE After(c)]
       /\ claims' = IF c.kind = "daily" THEN [claims EXCEPT ![c.user] = Append(@, c.at)] ELSE claims
    /\ UNCHANGED <<stock, history, cooldown, now, calls, failures, restarts,
                   intros, gates, torn, missed>>

Introducing(s) == call[s].pc \in {"dm", "reply"}

(* /optin: discord.Forbidden, the member takes no direct messages.          *)
DMForbidden(s) ==
    /\ call[s].pc = "dm"
    /\ call' = [call EXCEPT ![s].pc = "reply"]
    /\ UNCHANGED <<account, stock, history, cooldown, now, calls, failures, restarts,
                   claims, intros, gates, torn, missed>>

(* The introduction arrives, as a direct message or with the reply. *)
Introduce(s) ==
    /\ Introducing(s)
    /\ intros' = [intros EXCEPT ![call[s].user] = @ + 1]
    /\ call' = [call EXCEPT ![s] = After(@)]
    /\ UNCHANGED <<account, stock, history, cooldown, now, calls, failures, restarts,
                   claims, gates, torn, missed>>

(* _rmw_price, _apply_stay_boost, apply_discipline_penalty: without a stock *)
(* or a change of its price nothing is stored.                              *)
ReadStock(s, u) ==
    /\ call[s].pc = "next" /\ call[s].kind \in PriceKinds
    /\ u \in call[s].todo /\ ~Held(u)
    /\ LET c == [call[s] EXCEPT !.todo = @ \ {u}, !.user = u]
           price == NewPrice(c.kind, stock[u].price, c.points[u])
       IN  call' = [call EXCEPT ![s] =
                      IF u \in HasStock /\ price # stock[u].price
                      THEN [c EXCEPT !.pc = "store", !.stock = Repriced(c.kind, stock[u], price)]
                      ELSE After(c)]
    /\ UNCHANGED <<account, stock, history, cooldown, now, calls, failures, restarts,
                   claims, intros, gates, torn, missed>>

(* mutant of StoreStock: the stay boost appends no point *)
StoreQuietly(s) ==
    /\ call[s].pc = "store" /\ call[s].kind \in PriceKinds
    /\ stock' = Put(stock, call[s].user, call[s].stock)
    /\ call' = [call EXCEPT ![s] = IF @.kind = "stay boost" THEN After(@)
                                   ELSE [@ EXCEPT !.pc = "append"]]
    /\ UNCHANGED <<account, history, cooldown, now, calls, failures, restarts,
                   claims, intros, gates, torn, missed>>

StoreStock(s) ==
    /\ call[s].pc = "store" /\ call[s].kind \in PriceKinds
    /\ stock' = Put(stock, call[s].user, call[s].stock)
    /\ call' = [call EXCEPT ![s].pc = "append"]
    /\ UNCHANGED <<account, history, cooldown, now, calls, failures, restarts,
                   claims, intros, gates, torn, missed>>

(* append_history *)
AppendPoint(s) ==
    /\ call[s].pc = "append"
    /\ LET c == call[s] IN
       /\ history' = [history EXCEPT ![c.user] = Append(@, [price |-> c.stock.price, by |-> c.kind])]
       /\ call' = [call EXCEPT ![s] = After(c)]
       /\ torn' = torn \ {c.user}
    /\ UNCHANGED <<account, stock, cooldown, now, calls, failures, restarts,
                   claims, intros, gates, missed>>

-----------------------------------------------------------------------------
(* Faults. *)

Appending(s) == call[s].pc = "append"

(* A statement or a message to Discord fails: the exception ends the call,  *)
(* a sweep included (_safe_run of the guild, or the error handler of the    *)
(* bot).                                                                    *)
Fail(s) ==
    /\ call[s].pc \in {"list", "store", "append", "dm", "reply"} /\ failures < MaxFailures
    /\ failures' = failures + 1
    /\ call' = [call EXCEPT ![s] = Idle]
    /\ torn' = IF Appending(s) THEN torn \cup {call[s].user} ELSE torn
    /\ missed' = IF Introducing(s) THEN missed \cup {call[s].user} ELSE missed
    /\ UNCHANGED <<account, stock, history, cooldown, now, calls, restarts, claims, intros, gates>>

(* The cooldowns are in memory. *)
Restart ==
    /\ restarts < MaxRestarts
    /\ restarts' = restarts + 1
    /\ call' = [s \in Slots |-> Idle]
    /\ cooldown' = [k \in Keys |-> 0]
    /\ torn' = torn \cup {call[s].user : s \in {t \in Slots : Appending(t)}}
    /\ missed' = missed \cup {call[s].user : s \in {t \in Slots : Introducing(t)}}
    /\ UNCHANGED <<account, stock, history, now, calls, failures, claims, intros, gates>>

-----------------------------------------------------------------------------
Discord(h) ==
    \/ \E c \in Commands : Command(h, c) \/ Disciplined(h, c)
    \/ \E actor \in Moderators \cup {Unknown} : Gate(h, actor)

Section(s) ==
    \/ \E u \in Members : ReadAccount(s, u) \/ ReadStock(s, u)
    \/ StoreAccount(s)
    \/ DMForbidden(s)
    \/ Introduce(s)
    \/ StoreStock(s)
    \/ AppendPoint(s)

Next ==
    \/ Tick
    \/ \E h \in Handlers : Discord(h)
    \/ \E s \in Sweeps : StartSweep(s) \/ List(s)
    \/ \E s \in Slots : Section(s) \/ Fail(s)
    \/ Restart

Spec == Init /\ [][Next]_vars
=============================================================================
