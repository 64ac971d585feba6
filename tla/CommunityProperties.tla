-------------------------- MODULE CommunityProperties --------------------------
EXTENDS Community

AccountRow == [today : Nat, week : Nat, last : Nat, opt_in : BOOLEAN, intro : BOOLEAN,
               cash : Nat, claimed : Nat \cup {Never}, streak : 0..(BonusLength - 1)]
Price == {p \in Nat : p >= MinPrice}
StockRow == [price : Price, high : Price]
Point == [price : Price, by : PriceKinds \cup {"trade"}]
Call == [kind : Kinds \cup {"none"},
         pc : {"idle", "list", "resolve", "next", "store", "append", "dm", "reply"},
         todo : SUBSET Members, user : Members \cup {Nobody}, at : Nat, points : [Members -> Nat],
         account : AccountRow, shows : BOOLEAN, stock : StockRow \cup {NoPrice}]
Passed == [key : Keys, at : Nat, restarts : Nat]

(* Every variable has its type; no call, whatever it read and when, makes a *)
(* price below min_price or a streak that has reached the bonus.            *)
TypeOK ==
    /\ Known \subseteq Members /\ account \in [Known -> AccountRow]
    /\ stock \in [HasStock -> StockRow] /\ history \in [HasStock -> Seq(Point)]
    /\ cooldown \in [Keys -> Nat]
    /\ call \in [Slots -> Call]
    /\ now \in Nat /\ calls \in Nat /\ failures \in Nat /\ restarts \in Nat
    /\ claims \in [Members -> Seq(Nat)] /\ intros \in [Members -> Nat]
    /\ gates \in Seq(Passed) /\ torn \subseteq HasStock /\ missed \subseteq Members

-----------------------------------------------------------------------------
(* What a call of each kind may change of an account that exists. *)
Owned(kind) ==
    CASE kind = "message" -> {"today", "week", "last"}
      [] kind \in {"opt in", "opt out"} -> {"opt_in", "intro"}
      [] kind = "daily" -> {"cash", "claimed", "streak"}
      [] kind = "daily reset" -> {"today"}
      [] kind = "weekly reset" -> {"week"}
      [] OTHER -> {}

(* A call that stores an account stores the whole row it read before: yet   *)
(* it never takes back what another service stored in between (_mutate,     *)
(* claim_daily and the resets read under the lock of the member).           *)
ServicesKeepOut ==
    [][\A u \in Known :
         \A f \in DOMAIN account[u] :
           account'[u][f] # account[u][f] =>
             \E s \in Slots : /\ call[s].pc = "store" /\ call[s].user = u
                              /\ call'[s] # call[s]
                              /\ f \in Owned(call[s].kind)]_vars

-----------------------------------------------------------------------------
(* The place of each claim in its run: a run ends with the bonus, or with a *)
(* claim two days or more after the one before.                             *)
RunOf(s) ==
    LET place[i \in 1..Len(s)] ==
          IF i = 1 THEN 1
          ELSE IF s[i] - s[i - 1] >= 2 * ClaimWindow \/ place[i - 1] = BonusLength THEN 1
          ELSE place[i - 1] + 1
    IN  place

(* The rewards of /daily are as promised, however commands race each other  *)
(* and the writers of the same row: claims are a day apart, each is paid    *)
(* once, and every BonusLength-th claim of an unbroken run, and no other,   *)
(* earns the bonus.                                                         *)
DailiesPaid ==
    \A u \in Members :
        LET s == claims[u]
            bonuses == {i \in DOMAIN s : RunOf(s)[i] = BonusLength}
        IN  /\ \A i \in DOMAIN s : i > 1 => s[i] - s[i - 1] >= ClaimWindow
            /\ Account(u).cash = DailyReward * Len(s) + StreakBonus * Cardinality(bonuses)

Sending(u) == \E s \in Slots : Introducing(s) /\ call[s].user = u

(* The introduction is sent at most once to a member, however commands race *)
(* (opt_in_and_consume_intro), and never to one who is not marked as having *)
(* had it.  The mark is committed before the messages to Discord: a member  *)
(* whose introduction these lost stays marked and is not sent another; all  *)
(* others who are marked have had it, or one call is about to send it.      *)
IntroOnce ==
    \A u \in Members :
        intros[u] = IF u \in Known /\ account[u].intro /\ u \notin missed /\ ~Sending(u)
                    THEN 1 ELSE 0

-----------------------------------------------------------------------------
PenaltyPoints(u) == {i \in DOMAIN history[u] : history[u][i].by = "penalty"}
GatesOf(u) == {i \in DOMAIN gates : gates[i].key[1] = u}

(* One moderator, or the unknown one, costs a member one penalty a cooldown *)
(* as long as the bot is not restarted, however the events race             *)
(* (_apply_penalty); and each penalty moves the price at most once.         *)
PenaltiesPaced ==
    /\ \A i, j \in DOMAIN gates :
         i < j /\ gates[i].key = gates[j].key /\ gates[i].restarts = gates[j].restarts
           => gates[j].at - gates[i].at >= Cooldown
    /\ \A u \in HasStock : Cardinality(PenaltyPoints(u)) <= Cardinality(GatesOf(u))

-----------------------------------------------------------------------------
Unlogged(u) == u \in torn \/ \E s \in Slots : Appending(s) /\ call[s].user = u

(* The history tells the price of every stock but those whose last point    *)
(* was lost between its two transactions, and the next change of price      *)
(* mends these.  All-time highs cover every point but those of the boosts   *)
(* of voice stays and joins, which do not raise them.                       *)
PricesLogged ==
    \A u \in HasStock :
        LET log == history[u] IN
        /\ ~Unlogged(u) => log[Len(log)].price = stock[u].price
        /\ \A i \in DOMAIN log : log[i].by # "stay boost" => stock[u].high >= log[i].price
=============================================================================
