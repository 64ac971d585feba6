---------------------------- MODULE CommunityProofs ----------------------------
(***************************************************************************)
(* Proofs about Community.tla, for any members, handlers, commands and     *)
(* settings that satisfy CommunityAssumption, and any number of calls,     *)
(* failures and restarts.                                                  *)
(***************************************************************************)
EXTENDS CommunityProperties, DomainLemmas, WellFoundedInduction, NaturalsInduction

-----------------------------------------------------------------------------
(* What a section computes has its type. *)

LEMMA Settings ==
    /\ MinPrice \in Nat \ {0} /\ StallWindow \in Nat \ {0} /\ StallNearest \in Nat \ {0}
    /\ InitialPrice \in Nat /\ InitialPrice >= MinPrice
    /\ Keep.num \in Nat /\ Keep.den \in Nat \ {0}
    /\ Boost.num \in Nat /\ Boost.den \in Nat \ {0}
    /\ Penalised.num \in Nat /\ Penalised.den \in Nat \ {0}
    /\ BonusLength \in Nat \ {0} /\ ClaimWindow \in Nat \ {0} /\ Cooldown \in Nat \ {0}
    /\ ReturnPerPoint \in Nat /\ DailyReward \in Nat /\ StreakBonus \in Nat
BY CommunityAssumption DEF Fraction

LEMMA NewPriceType ==
    ASSUME NEW kind \in PriceKinds, NEW price \in Price, NEW points \in Nat
    PROVE  NewPrice(kind, price, points) \in Price
<1>1. price \in Nat
  BY DEF Price
<1>2. Stalled(price, price * (100 + Return(points)), 100) \in Price
  <2> DEFINE amount == price * (100 + Return(points))
  <2>1. amount \in Nat /\ 100 \in Nat \ {0}
    BY <1>1, Settings DEF Return
  <2> HIDE DEF amount
  <2>2. Stalled(price, amount, 100) \in Price
    BY <1>1, <2>1, Settings, FloorStallPrice DEF Stalled, Price
  <2> QED BY <2>2 DEF amount
<1>3. InactivityDecay(price, Keep, MinPrice) \in Price
  <2>1. Quantise(price * Keep.num, Keep.den) \in Int
    BY <1>1, Settings, QuantiseInt
  <2> QED BY <2>1, Settings DEF InactivityDecay, Greatest, Price
<1>4. Stalled(price, price * Boost.num, Boost.den) \in Price
  <2>1. price * Boost.num \in Nat
    BY <1>1, Settings
  <2> QED BY <1>1, <2>1, Settings, FloorStallPrice DEF Stalled, Price
<1>5. PenalisedPrice(price) \in Price
  <2>1. Quantise(price * Penalised.num, Penalised.den) \in Int
    BY <1>1, Settings, QuantiseInt
  <2> QED BY <2>1, Settings DEF PenalisedPrice, Greatest, Price
<1> QED
  BY <1>2, <1>3, <1>4, <1>5 DEF NewPrice, PriceKinds

LEMMA RepricedType ==
    ASSUME NEW kind \in PriceKinds, NEW row \in StockRow, NEW price \in Price
    PROVE  /\ Repriced(kind, row, price) \in StockRow
           /\ Repriced(kind, row, price).price = price
           /\ Repriced(kind, row, price).high >= row.high
           /\ kind # "stay boost" => Repriced(kind, row, price).high >= price
<1>1. row.high \in Price /\ row.high \in Int /\ row.high >= row.high /\ price \in Int
  BY DEF StockRow, Price
<1> DEFINE higher == Greatest(row.high, price)
<1>2. higher \in Price /\ higher >= row.high /\ higher >= price
  BY <1>1, Settings DEF Greatest, Price
<1> DEFINE high == IF kind = "stay boost" THEN row.high ELSE higher
<1> HIDE DEF higher
<1>3. high \in Price /\ high >= row.high
  <2>1. CASE kind = "stay boost"
    BY <1>1, <2>1
  <2>2. CASE kind # "stay boost"
    BY <1>2, <2>2
  <2> QED BY <2>1, <2>2
<1>4. kind # "stay boost" => high >= price
  BY <1>2
<1>5. Repriced(kind, row, price) = [price |-> price, high |-> high]
  BY DEF Repriced, higher
<1> HIDE DEF high
<1>6. /\ [price |-> price, high |-> high] \in StockRow
      /\ [price |-> price, high |-> high].price = price
      /\ [price |-> price, high |-> high].high = high
  BY <1>3 DEF StockRow
<1> QED
  BY <1>3, <1>4, <1>5, <1>6, Zenon

LEMMA ClaimedType ==
    ASSUME NEW row \in AccountRow, NEW at \in Nat
    PROVE  Claimed(row, at) \in AccountRow
<1>1. row.streak \in 0..(BonusLength - 1) /\ row.cash \in Nat
  BY DEF AccountRow
<1>2. NextStreak(row, at) \in 1..BonusLength
  BY <1>1, Settings DEF NextStreak
<1> DEFINE streak == NextStreak(row, at)
           cash == row.cash + DailyReward + (IF streak = BonusLength THEN StreakBonus ELSE 0)
           left == IF streak = BonusLength THEN 0 ELSE streak
<1>3. Claimed(row, at) = [row EXCEPT !.cash = cash, !.claimed = at, !.streak = left]
  BY DEF Claimed
<1>4. cash \in Nat /\ left \in 0..(BonusLength - 1)
  BY <1>1, <1>2, Settings
<1> HIDE DEF cash, left
<1> QED
  BY <1>3, <1>4 DEF AccountRow

Fields == {"today", "week", "last", "opt_in", "intro", "cash", "claimed", "streak"}

LEMMA ChangedType ==
    ASSUME NEW row \in AccountRow, NEW at \in Nat, NEW kind \in AccountKinds
    PROVE  Changed(kind, row, at) \in AccountRow
<1>1. [row EXCEPT !.today = row.today + 1, !.week = row.week + 1, !.last = at] \in AccountRow
  <2>1. row.today + 1 \in Nat /\ row.week + 1 \in Nat
    BY DEF AccountRow
  <2> QED BY <2>1 DEF AccountRow
<1>2. /\ [row EXCEPT !.opt_in = TRUE, !.intro = TRUE] \in AccountRow
      /\ [row EXCEPT !.opt_in = FALSE] \in AccountRow
      /\ [row EXCEPT !.today = 0] \in AccountRow
      /\ [row EXCEPT !.week = 0] \in AccountRow
  BY DEF AccountRow
<1>3. Claimed(row, at) \in AccountRow
  BY ClaimedType
<1> QED
  BY <1>1, <1>2, <1>3 DEF Changed, AccountKinds

(* A call changes what it owns of the row it read. *)
LEMMA ChangedKeeps ==
    ASSUME NEW row \in AccountRow, NEW at \in Nat, NEW kind \in AccountKinds
    PROVE  /\ DOMAIN row = Fields
           /\ \A f \in Fields : f \notin Owned(kind) => Changed(kind, row, at)[f] = row[f]
           /\ (Changed(kind, row, at).intro <=> kind = "opt in" \/ row.intro)
<1>1. DOMAIN row = Fields
  BY DEF AccountRow, Fields
<1>2. CASE kind = "message"
  BY <1>1, <1>2 DEF Changed, Owned, Fields, AccountRow
<1>3. CASE kind = "opt in"
  BY <1>1, <1>3 DEF Changed, Owned, Fields, AccountRow
<1>4. CASE kind = "opt out"
  BY <1>1, <1>4 DEF Changed, Owned, Fields, AccountRow
<1>5. CASE kind = "daily"
  BY <1>1, <1>5 DEF Changed, Owned, Fields, AccountRow, Claimed
<1>6. CASE kind = "daily reset"
  BY <1>1, <1>6 DEF Changed, Owned, Fields, AccountRow
<1>7. CASE kind = "weekly reset"
  BY <1>1, <1>7 DEF Changed, Owned, Fields, AccountRow
<1> QED
  BY <1>2, <1>3, <1>4, <1>5, <1>6, <1>7 DEF AccountKinds

LEMMA AccountType ==
    ASSUME TypeOK, NEW u \in Members
    PROVE  Account(u) \in AccountRow
<1>1. CASE u \in Known
  BY <1>1 DEF TypeOK, Account
<1>2. CASE u \notin Known
  <2>1. 0 \in 0..(BonusLength - 1) /\ now \in Nat
    BY Settings DEF TypeOK
  <2>2. Seed \in AccountRow
    BY <2>1 DEF Seed, AccountRow
  <2> QED BY <1>2, <2>2 DEF Account
<1> QED
  BY <1>1, <1>2

-----------------------------------------------------------------------------
(* A section holds the lock of its member, and what it is about to store is *)
(* of him.                                                                  *)
Working(s) == call[s].pc \in {"store", "append"}
Pricing(s) == Working(s) /\ call[s].kind \in PriceKinds

(* An introduction that is being sent has a member to go to. *)
Addressed(c) == c.pc \in {"dm", "reply"} => c.user \in Members /\ c.kind \in AccountKinds

Exclusive ==
    \A s, t \in Slots : Working(s) /\ Working(t) /\ call[s].user = call[t].user => s = t

Shape(s) ==
    /\ Working(s) => call[s].user \in Members /\ call[s].kind \in Kinds
    /\ Appending(s) => call[s].kind \in PriceKinds
    /\ Pricing(s) => call[s].user \in HasStock /\ call[s].stock \in StockRow
    /\ Addressed(call[s])

Typed == TypeOK /\ Exclusive /\ \A s \in Slots : Shape(s)

LEMMA IdleType ==
    Idle \in Call /\ NoAccount \in AccountRow
<1>1. 0 \in 0..(BonusLength - 1)
  BY Settings
<1>2. NoAccount \in AccountRow
  BY <1>1 DEF NoAccount, AccountRow
<1>3. [u \in Members |-> 0] \in [Members -> Nat]
  OBVIOUS
<1> QED
  BY <1>2, <1>3 DEF Idle, Call

LEMMA AfterType ==
    ASSUME NEW c \in Call
    PROVE  After(c) \in Call /\ After(c).pc \in {"idle", "next"}
BY IdleType DEF After, Call, Idle

(* A slot that gets another call: the others keep theirs. *)
LEMMA OneSlot ==
    ASSUME Typed, NEW s \in Slots, NEW new \in Call, call' = [call EXCEPT ![s] = new],
           new.pc \notin {"store", "append"}, Addressed(new)
    PROVE  /\ call' \in [Slots -> Call] /\ call'[s] = new
           /\ \A t \in Slots : t # s => call'[t] = call[t]
           /\ Exclusive' /\ \A t \in Slots : Shape(t)'
<1>1. /\ call' \in [Slots -> Call] /\ call'[s] = new
      /\ \A t \in Slots : t # s => call'[t] = call[t]
  BY DEF Typed, TypeOK
<1>2. \A t \in Slots : Working(t)' => t # s /\ Working(t) /\ call'[t] = call[t]
  BY <1>1 DEF Working
<1>3. Exclusive'
  BY <1>2 DEF Typed, Exclusive
<1>4. \A t \in Slots : Shape(t)'
  <2> SUFFICES ASSUME NEW t \in Slots PROVE Shape(t)'
    OBVIOUS
  <2>1. CASE t = s
    BY <1>1, <2>1 DEF Shape, Working, Pricing, Appending, Addressed
  <2>2. CASE t # s
    BY <1>1, <2>2 DEF Typed, Shape, Working, Pricing, Appending
  <2> QED BY <2>1, <2>2
<1> QED
  BY <1>1, <1>3, <1>4

(* A slot that holds, or takes, the lock of u. *)
LEMMA OneSection ==
    ASSUME Typed, NEW s \in Slots, NEW new \in Call, call' = [call EXCEPT ![s] = new],
           NEW u \in Members, new.user = u, new.kind \in Kinds, new.pc \in {"store", "append"},
           \A t \in Slots : t # s /\ Working(t) => call[t].user # u,
           new.pc = "append" => new.kind \in PriceKinds,
           new.kind \in PriceKinds => u \in HasStock /\ new.stock \in StockRow
    PROVE  /\ call' \in [Slots -> Call] /\ call'[s] = new
           /\ \A t \in Slots : t # s => call'[t] = call[t]
           /\ Exclusive' /\ \A t \in Slots : Shape(t)'
<1>1. /\ call' \in [Slots -> Call] /\ call'[s] = new
      /\ \A t \in Slots : t # s => call'[t] = call[t]
  BY DEF Typed, TypeOK
<1>3. Exclusive'
  <2> SUFFICES ASSUME NEW t \in Slots, NEW v \in Slots, t # v, Working(t)', Working(v)',
                      call'[t].user = call'[v].user
               PROVE  FALSE
    BY DEF Exclusive
  <2>1. CASE t = s
    BY <1>1, <2>1 DEF Working
  <2>2. CASE v = s
    BY <1>1, <2>2 DEF Working
  <2>3. CASE t # s /\ v # s
    BY <1>1, <2>3 DEF Working, Typed, Exclusive
  <2> QED BY <2>1, <2>2, <2>3
<1>4. \A t \in Slots : Shape(t)'
  <2> SUFFICES ASSUME NEW t \in Slots PROVE Shape(t)'
    OBVIOUS
  <2>1. CASE t = s
    BY <1>1, <2>1 DEF Shape, Working, Pricing, Appending, Addressed
  <2>2. CASE t # s
    BY <1>1, <2>2 DEF Typed, Shape, Working, Pricing, Appending
  <2> QED BY <2>1, <2>2
<1> QED
  BY <1>1, <1>3, <1>4

-----------------------------------------------------------------------------
(* What the actions that start or end a section put into their slot. *)

AccountRead(s, u, new) ==
    /\ call' = [call EXCEPT ![s] = new]
    /\ \/ new.pc \in {"idle", "next"}
       \/ /\ new.pc = "store" /\ new.user = u /\ new.kind = call[s].kind
          /\ new.kind \in AccountKinds
          /\ new.account = Changed(new.kind, Account(u), call[s].at)
          /\ new.shows = (new.kind = "opt in" /\ ShowsIntro(Account(u)))
    /\ \A t \in Slots : Working(t) => call[t].user # u
    /\ account' \in {account, Put(account, u, Account(u))}
    /\ Known \subseteq Known' /\ Known' \subseteq Members
    /\ account' \in [Known' -> AccountRow]

LEMMA ReadAccountStep ==
    ASSUME Typed, NEW s \in Slots, NEW u \in Members, ReadAccount(s, u)
    PROVE  \E new \in Call : AccountRead(s, u, new)
<1> DEFINE c == [call[s] EXCEPT !.todo = @ \ {u}, !.user = u]
           row == Account(u)
           refused == c.kind = "daily" /\ ~MayClaim(row, c.at)
           working == [c EXCEPT !.pc = "store", !.account = Changed(c.kind, row, c.at),
                                !.shows = c.kind = "opt in" /\ ShowsIntro(row)]
           new == IF refused THEN After(c) ELSE working
<1>1. call[s] \in Call /\ call[s].kind \in AccountKinds /\ call[s].at \in Nat
  BY DEF Typed, TypeOK, ReadAccount, Call
<1>2. c \in Call /\ c.kind = call[s].kind /\ c.at = call[s].at
  BY <1>1 DEF Call
<1>3. row \in AccountRow
  BY AccountType DEF Typed
<1>4. Changed(c.kind, row, c.at) \in AccountRow
  BY <1>1, <1>2, <1>3, ChangedType
<1>5. ShowsIntro(row) \in BOOLEAN
  BY <1>3 DEF ShowsIntro, AccountRow
<1>6. /\ working \in Call /\ working.pc = "store" /\ working.user = u
      /\ working.kind = call[s].kind
      /\ working.account = Changed(working.kind, row, call[s].at)
      /\ working.shows = (working.kind = "opt in" /\ ShowsIntro(row))
  <2> DEFINE a == Changed(c.kind, row, c.at)
             b == c.kind = "opt in" /\ ShowsIntro(row)
  <2>1. b \in BOOLEAN
    OBVIOUS
  <2> HIDE DEF a, b
  <2>2. /\ [c EXCEPT !.pc = "store", !.account = a, !.shows = b] \in Call
        /\ [c EXCEPT !.pc = "store", !.account = a, !.shows = b].pc = "store"
        /\ [c EXCEPT !.pc = "store", !.account = a, !.shows = b].user = u
        /\ [c EXCEPT !.pc = "store", !.account = a, !.shows = b].kind = call[s].kind
        /\ [c EXCEPT !.pc = "store", !.account = a, !.shows = b].account = a
        /\ [c EXCEPT !.pc = "store", !.account = a, !.shows = b].shows = b
    BY <1>1, <1>2, <1>4, <2>1 DEF Call, a
  <2> QED BY <1>2, <2>2 DEF a, b
<1>7. call' = [call EXCEPT ![s] = new]
  BY DEF ReadAccount
<1>8. account' = IF c.kind = "daily" THEN Put(account, u, row) ELSE account
  BY DEF ReadAccount
<1>9. \A t \in Slots : Working(t) => call[t].user # u
  BY DEF ReadAccount, Held, Working
<1>10. /\ Put(account, u, row) \in [Known \cup {u} -> AccountRow]
       /\ DOMAIN Put(account, u, row) = Known \cup {u}
  BY <1>3 DEF Put, Typed, TypeOK
<1>11. /\ account' \in {account, Put(account, u, row)}
       /\ Known \subseteq Known' /\ Known' \subseteq Members
       /\ account' \in [Known' -> AccountRow]
  BY <1>8, <1>10 DEF Typed, TypeOK, Known
<1>12. After(c) \in Call /\ After(c).pc \in {"idle", "next"}
  BY <1>2, AfterType
<1> HIDE DEF working, c, row, refused
<1>13. new \in Call
  BY <1>6, <1>12
<1>14. CASE refused
  BY <1>7, <1>9, <1>11, <1>12, <1>13, <1>14 DEF row, AccountRead
<1>15. CASE ~refused
  BY <1>1, <1>6, <1>7, <1>9, <1>11, <1>13, <1>15 DEF row, AccountRead
<1> QED
  BY <1>14, <1>15

StockRead(s, u, new) ==
    /\ call' = [call EXCEPT ![s] = new]
    /\ \/ new.pc \in {"idle", "next"}
       \/ /\ new.pc = "store" /\ new.user = u /\ new.kind \in PriceKinds
          /\ u \in HasStock /\ new.stock \in StockRow
          /\ new.stock.high >= stock[u].high
          /\ new.kind # "stay boost" => new.stock.high >= new.stock.price
    /\ \A t \in Slots : Working(t) => call[t].user # u

LEMMA ReadStockStep ==
    ASSUME Typed, NEW s \in Slots, NEW u \in Members, ReadStock(s, u)
    PROVE  \E new \in Call : StockRead(s, u, new)
<1> DEFINE c == [call[s] EXCEPT !.todo = @ \ {u}, !.user = u]
           price == NewPrice(c.kind, stock[u].price, c.points[u])
           row == Repriced(c.kind, stock[u], price)
           working == [c EXCEPT !.pc = "store", !.stock = row]
           changes == u \in HasStock /\ price # stock[u].price
           new == IF changes THEN working ELSE After(c)
<1>1. call[s] \in Call /\ call[s].kind \in PriceKinds
  BY DEF Typed, TypeOK, ReadStock
<1>2. c \in Call /\ c.kind = call[s].kind /\ c.user = u /\ c.points[u] \in Nat
  BY <1>1 DEF Call
<1>3. After(c) \in Call /\ After(c).pc \in {"idle", "next"}
  BY <1>2, AfterType
<1>4. call' = [call EXCEPT ![s] = new]
  BY DEF ReadStock
<1>5. \A t \in Slots : Working(t) => call[t].user # u
  BY DEF ReadStock, Held, Working
<1>6. CASE ~changes
  BY <1>3, <1>4, <1>5, <1>6 DEF StockRead
<1>7. CASE changes
  <2>1. u \in HasStock /\ stock[u] \in StockRow /\ stock[u].price \in Price
    BY <1>7 DEF Typed, TypeOK, StockRow
  <2>2. price \in Price
    BY <1>1, <1>2, <2>1, NewPriceType
  <2> HIDE DEF price
  <2>3. /\ row \in StockRow /\ row.price = price /\ row.high >= stock[u].high
        /\ c.kind # "stay boost" => row.high >= row.price
    BY <1>1, <1>2, <2>1, <2>2, RepricedType
  <2> HIDE DEF row
  <2>4. /\ working \in Call /\ working.pc = "store" /\ working.user = u
        /\ working.kind = c.kind /\ working.stock = row
    BY <1>2, <2>3 DEF Call
  <2>5. new = working
    BY <1>7
  <2> HIDE DEF working, new, c
  <2> QED BY <1>1, <1>2, <1>4, <1>5, <2>1, <2>3, <2>4, <2>5 DEF StockRead
<1> QED
  BY <1>6, <1>7

LEMMA WorkingCalls ==
    ASSUME Typed, NEW s \in Slots, Working(s)
    PROVE  /\ call[s] \in Call /\ call[s].user \in Members /\ call[s].kind \in Kinds
           /\ \A t \in Slots : t # s /\ Working(t) => call[t].user # call[s].user
BY DEF Typed, TypeOK, Exclusive, Shape

-----------------------------------------------------------------------------
(* The parts of TypeOK about the tables and the clock, and about the calls. *)
TablesOK == /\ Known \subseteq Members /\ account \in [Known -> AccountRow]
            /\ stock \in [HasStock -> StockRow] /\ history \in [HasStock -> Seq(Point)]
            /\ cooldown \in [Keys -> Nat]
            /\ torn \subseteq HasStock /\ missed \subseteq Members
CountsOK == /\ now \in Nat /\ calls \in Nat /\ failures \in Nat /\ restarts \in Nat
            /\ claims \in [Members -> Seq(Nat)] /\ intros \in [Members -> Nat]
            /\ gates \in Seq(Passed)
CallsOK == call \in [Slots -> Call] /\ Exclusive /\ \A s \in Slots : Shape(s)

LEMMA Parts == Typed <=> TablesOK /\ CountsOK /\ CallsOK
BY DEF Typed, TypeOK, TablesOK, CountsOK, CallsOK

LEMMA TypedInit == Init => Typed
<1> SUFFICES ASSUME Init PROVE Typed
  OBVIOUS
<1>1. \A s \in Slots : call[s] = Idle
  BY DEF Init
<1>2. CallsOK
  BY <1>1, IdleType DEF Init, CallsOK, Exclusive, Shape, Working, Pricing, Appending, Addressed, Idle
<1>3. InitialPrice \in Price
  BY Settings DEF Price
<1>4. stock \in [HasStock -> StockRow]
  BY <1>3 DEF Init, StockRow
<1>5. history \in [HasStock -> Seq(Point)]
  <2>1. [price |-> InitialPrice, by |-> "trade"] \in Point
    BY <1>3 DEF Point
  <2> QED BY <2>1 DEF Init
<1>6. Known = {} /\ account \in [Known -> AccountRow]
  BY DEF Init, Known
<1>7. TablesOK
  BY <1>4, <1>5, <1>6 DEF TablesOK, Init
<1>8. CountsOK
  BY DEF CountsOK, Init
<1> QED
  BY <1>2, <1>7, <1>8, Parts

(* Neither a section nor a fault. *)
LEMMA TypedBegin ==
    ASSUME Typed, NEW s \in Slots, NEW new \in Call, Begin(s, new),
           new.pc \notin {"store", "append", "dm", "reply"}
    PROVE  Typed'
<1>1. CallsOK'
  BY OneSlot DEF Begin, CallsOK, Addressed
<1>2. TablesOK'
  BY DEF Begin, Typed, TypeOK, TablesOK, Known
<1>3. CountsOK'
  BY DEF Begin, Typed, TypeOK, CountsOK
<1>4. (Typed <=> TablesOK /\ CountsOK /\ CallsOK)'
  BY Parts, PTL
<1> QED
  BY <1>1, <1>2, <1>3, <1>4

LEMMA TypedPrime == (Typed <=> TablesOK /\ CountsOK /\ CallsOK)'
BY Parts, PTL

LEMMA TypedTick == ASSUME Typed, Tick PROVE Typed'
<1>1. CallsOK'
  BY DEF Tick, Typed, TypeOK, CallsOK, Exclusive, Shape, Working, Pricing, Appending, Addressed
<1>2. TablesOK' /\ CountsOK'
  BY DEF Tick, Typed, TypeOK, TablesOK, CountsOK, Known
<1> QED
  BY <1>1, <1>2, TypedPrime

LEMMA TypedDiscord ==
    ASSUME Typed, NEW h \in Handlers, Discord(h)
    PROVE  Typed'
<1>1. ASSUME NEW c \in Commands, Command(h, c) \/ Disciplined(h, c)
      PROVE  Typed'
  <2>1. c[1] \in Kinds /\ c[2] \in Members /\ now \in Nat
    BY <1>1, CommunityAssumption DEF Typed, TypeOK
  <2> DEFINE command == [Idle EXCEPT !.kind = c[1], !.pc = "next", !.todo = {c[2]}, !.at = now]
             event == [Idle EXCEPT !.kind = "penalty", !.pc = "resolve", !.todo = {c[2]}]
  <2>2. command \in Call /\ command.pc = "next"
    BY <2>1, IdleType DEF Call, Idle
  <2>3. event \in Call /\ event.pc = "resolve"
    BY <2>1, IdleType DEF Call, Idle, Kinds, PriceKinds
  <2>4. h \in Slots
    BY DEF Slots
  <2>5. Begin(h, command) \/ Begin(h, event)
    BY <1>1 DEF Command, Disciplined
  <2> HIDE DEF command, event
  <2> QED BY <2>2, <2>3, <2>4, <2>5, TypedBegin
<1>2. ASSUME NEW actor \in Moderators \cup {Unknown}, Gate(h, actor)
      PROVE  Typed'
  <2>1. PICK u \in call[h].todo :
          LET key == <<u, actor>>
              active == [k \in Keys |-> IF cooldown[k] > now THEN cooldown[k] ELSE 0]
          IN  IF active[key] > now
              THEN /\ cooldown' = active
                   /\ call' = [call EXCEPT ![h] = Idle]
                   /\ UNCHANGED gates
              ELSE /\ cooldown' = [active EXCEPT ![key] = now + Cooldown]
                   /\ call' = [call EXCEPT ![h].pc = "next", ![h].at = now]
                   /\ gates' = Append(gates, [key |-> key, at |-> now, restarts |-> restarts])
    BY <1>2 DEF Gate
  <2> DEFINE active == [k \in Keys |-> IF cooldown[k] > now THEN cooldown[k] ELSE 0]
             gate == [key |-> <<u, actor>>, at |-> now, restarts |-> restarts]
             passed == [call[h] EXCEPT !.pc = "next", !.at = now]
  <2>2. /\ h \in Slots /\ call[h] \in Call /\ u \in Members /\ now \in Nat
        /\ restarts \in Nat /\ cooldown \in [Keys -> Nat] /\ gates \in Seq(Passed)
    BY DEF Slots, Typed, TypeOK, Call
  <2>3. active \in [Keys -> Nat]
    BY <2>2
  <2>4. gate \in Passed
    BY <2>2 DEF Passed, Keys
  <2>5. passed \in Call /\ passed.pc = "next"
    BY <2>2 DEF Call
  <2>6. Idle \in Call /\ Idle.pc = "idle"
    BY IdleType DEF Idle
  <2>7. \/ call' = [call EXCEPT ![h] = Idle] /\ cooldown' = active /\ gates' = gates
        \/ /\ call' = [call EXCEPT ![h] = passed]
           /\ cooldown' = [active EXCEPT ![<<u, actor>>] = now + Cooldown]
           /\ gates' = Append(gates, gate)
    BY <2>1
  <2> HIDE DEF active, gate, passed
  <2>8. CallsOK'
    BY <2>2, <2>5, <2>6, <2>7, OneSlot DEF CallsOK, Addressed
  <2>9. now + Cooldown \in Nat
    BY <2>2, Settings
  <2>10. cooldown' \in [Keys -> Nat] /\ gates' \in Seq(Passed)
    <3>1. [active EXCEPT ![<<u, actor>>] = now + Cooldown] \in [Keys -> Nat]
      BY <2>3, <2>9
    <3>2. Append(gates, gate) \in Seq(Passed)
      BY <2>2, <2>4
    <3> QED BY <2>2, <2>3, <2>7, <3>1, <3>2
  <2>11. TablesOK' /\ CountsOK'
    BY <1>2, <2>10 DEF Gate, Typed, TypeOK, TablesOK, CountsOK, Known
  <2> QED BY <2>8, <2>11, TypedPrime
<1> QED
  BY <1>1, <1>2 DEF Discord

LEMMA TypedSweep ==
    ASSUME Typed, NEW s \in Sweeps, StartSweep(s) \/ List(s)
    PROVE  Typed'
<1>1. s \in Slots /\ s \in Kinds
  BY DEF Slots, Sweeps, Kinds, PriceKinds, AccountKinds
<1>2. CASE StartSweep(s)
  <2> DEFINE new == [Idle EXCEPT !.kind = s, !.pc = "list", !.at = now]
  <2>1. new \in Call /\ new.pc = "list"
    BY <1>1, IdleType DEF Call, Idle, Typed, TypeOK
  <2>2. Begin(s, new)
    BY <1>2 DEF StartSweep
  <2> HIDE DEF new
  <2> QED BY <1>1, <2>1, <2>2, TypedBegin
<1>3. CASE List(s)
  <2> DEFINE todo == IF s = "inactivity decay"
                     THEN {u \in Known : call[s].at - account[u].last > IdleAfter}
                     ELSE Known
             points == [u \in Members |-> IF s = "activity tick" /\ u \in Known
                                          THEN account[u].today ELSE 0]
             new == IF todo = {} THEN Idle
                    ELSE [call[s] EXCEPT !.pc = "next", !.todo = todo, !.points = points]
  <2>1. todo \in SUBSET Members
    BY DEF Typed, TypeOK
  <2>2. points \in [Members -> Nat]
    BY DEF Typed, TypeOK, AccountRow
  <2>3. call[s] \in Call
    BY <1>1 DEF Typed, TypeOK
  <2>4. call' = [call EXCEPT ![s] = new]
    BY <1>3 DEF List
  <2> HIDE DEF todo, points
  <2>5. new \in Call /\ new.pc \in {"idle", "next"}
    <3>1. CASE todo = {}
      BY <3>1, IdleType DEF Idle
    <3>2. CASE todo # {}
      BY <2>1, <2>2, <2>3, <3>2 DEF Call
    <3> QED BY <3>1, <3>2
  <2> HIDE DEF new
  <2>6. CallsOK'
    BY <1>1, <2>4, <2>5, OneSlot DEF CallsOK, Addressed
  <2>7. TablesOK' /\ CountsOK'
    BY <1>3 DEF List, Typed, TypeOK, TablesOK, CountsOK, Known
  <2> QED BY <2>6, <2>7, TypedPrime
<1> QED
  BY <1>2, <1>3

LEMMA TypedReads ==
    ASSUME Typed, NEW s \in Slots, NEW u \in Members, ReadAccount(s, u) \/ ReadStock(s, u)
    PROVE  Typed'
<1>1. CASE ReadAccount(s, u)
  <2>1. CallsOK'
    <3>1. PICK new \in Call : AccountRead(s, u, new)
      BY <1>1, ReadAccountStep
    <3>2. CASE new.pc \in {"idle", "next"}
      BY <3>1, <3>2, OneSlot DEF CallsOK, AccountRead, Addressed
    <3>3. CASE new.pc \notin {"idle", "next"}
      <4>1. new.kind \in Kinds /\ new.kind \notin PriceKinds
        BY <3>1, <3>3 DEF Kinds, AccountKinds, PriceKinds, AccountRead
      <4> QED BY <3>1, <3>3, <4>1, OneSection DEF CallsOK, AccountRead
    <3> QED BY <3>2, <3>3
  <2>2. Known' \subseteq Members /\ account' \in [Known' -> AccountRow]
    BY <1>1, ReadAccountStep DEF AccountRead
  <2>3. TablesOK' /\ CountsOK'
    BY <1>1, <2>2 DEF ReadAccount, Typed, TypeOK, TablesOK, CountsOK
  <2> QED BY <2>1, <2>3, TypedPrime
<1>2. CASE ReadStock(s, u)
  <2>1. CallsOK'
    <3>1. PICK new \in Call : StockRead(s, u, new)
      BY <1>2, ReadStockStep
    <3>2. CASE new.pc \in {"idle", "next"}
      BY <3>1, <3>2, OneSlot DEF CallsOK, StockRead, Addressed
    <3>3. CASE new.pc \notin {"idle", "next"}
      <4>1. new.kind \in Kinds
        BY <3>1, <3>3 DEF Kinds, StockRead
      <4> QED BY <3>1, <3>3, <4>1, OneSection DEF CallsOK, StockRead
    <3> QED BY <3>2, <3>3
  <2>2. TablesOK' /\ CountsOK'
    BY <1>2 DEF ReadStock, Typed, TypeOK, TablesOK, CountsOK, Known
  <2> QED BY <2>1, <2>2, TypedPrime
<1> QED
  BY <1>1, <1>2

(* Where a stored account, and a message to Discord, leave their call. *)
Stored(s, new) ==
    /\ call' = [call EXCEPT ![s] = new] /\ Addressed(new) /\ new.kind # "penalty"
    /\ \/ ~call[s].shows /\ new.pc \in {"idle", "next"}
       \/ call[s].shows /\ new.pc = "dm" /\ new.user = call[s].user

LEMMA StoreAccountStep ==
    ASSUME Typed, NEW s \in Slots, StoreAccount(s)
    PROVE  \E new \in Call : Stored(s, new)
<1>1. call[s] \in Call /\ call[s].user \in Members /\ call[s].kind \in AccountKinds
  BY DEF StoreAccount, Typed, TypeOK, Shape, Working
<1>2. "penalty" \notin AccountKinds
  BY DEF AccountKinds
<1>3. CASE call[s].shows
  <2> DEFINE new == [call[s] EXCEPT !.pc = "dm"]
  <2>1. /\ new \in Call /\ new.pc = "dm"
        /\ new.user = call[s].user /\ new.kind = call[s].kind
    BY <1>1 DEF Call
  <2>2. call' = [call EXCEPT ![s] = new]
    BY <1>3 DEF StoreAccount
  <2> HIDE DEF new
  <2> QED BY <1>1, <1>2, <1>3, <2>1, <2>2 DEF Stored, Addressed
<1>4. CASE ~call[s].shows
  <2>1. call' = [call EXCEPT ![s] = After(call[s])]
    BY <1>4 DEF StoreAccount
  <2>2. After(call[s]) \in Call /\ After(call[s]).pc \in {"idle", "next"}
    BY <1>1, AfterType
  <2>3. After(call[s]).kind # "penalty"
    BY <1>1, <1>2 DEF After, Call, Idle
  <2> QED BY <1>4, <2>1, <2>2, <2>3 DEF Stored, Addressed
<1> QED
  BY <1>3, <1>4

Sent(s, new) ==
    /\ call' = [call EXCEPT ![s] = new] /\ Addressed(new) /\ new.kind # "penalty"
    /\ call[s].user \in Members
    /\ \/ DMForbidden(s) /\ new.pc = "reply" /\ new.user = call[s].user
       \/ Introduce(s) /\ new.pc \in {"idle", "next"}

LEMMA SendStep ==
    ASSUME Typed, NEW s \in Slots, DMForbidden(s) \/ Introduce(s)
    PROVE  \E new \in Call : Sent(s, new)
<1>1. call[s] \in Call /\ call[s].user \in Members /\ call[s].kind \in AccountKinds
  BY DEF DMForbidden, Introduce, Introducing, Typed, TypeOK, Shape, Addressed
<1>2. "penalty" \notin AccountKinds
  BY DEF AccountKinds
<1>3. CASE DMForbidden(s)
  <2> DEFINE new == [call[s] EXCEPT !.pc = "reply"]
  <2>1. /\ new \in Call /\ new.pc = "reply"
        /\ new.user = call[s].user /\ new.kind = call[s].kind
    BY <1>1 DEF Call
  <2>2. call' = [call EXCEPT ![s] = new]
    BY <1>3 DEF DMForbidden
  <2> HIDE DEF new
  <2> QED BY <1>1, <1>2, <1>3, <2>1, <2>2 DEF Sent, Addressed
<1>4. CASE Introduce(s)
  <2>1. call' = [call EXCEPT ![s] = After(call[s])]
    BY <1>4 DEF Introduce
  <2>2. After(call[s]) \in Call /\ After(call[s]).pc \in {"idle", "next"}
    BY <1>1, AfterType
  <2>3. After(call[s]).kind # "penalty"
    BY <1>1, <1>2 DEF After, Call, Idle
  <2> QED BY <1>1, <1>4, <2>1, <2>2, <2>3 DEF Sent, Addressed
<1> QED
  BY <1>3, <1>4

LEMMA TypedSend ==
    ASSUME Typed, NEW s \in Slots, DMForbidden(s) \/ Introduce(s)
    PROVE  Typed'
<1>1. PICK new \in Call : Sent(s, new)
  BY SendStep
<1>2. CallsOK'
  BY <1>1, OneSlot DEF CallsOK, Sent
<1>3. intros' \in [Members -> Nat]
  <2>1. intros \in [Members -> Nat]
    BY DEF Typed, TypeOK
  <2>2. CASE DMForbidden(s)
    BY <2>1, <2>2 DEF DMForbidden
  <2>3. CASE Introduce(s)
    <3>1. PICK w \in Members : intros' = [intros EXCEPT ![w] = @ + 1]
      BY <2>3 DEF Introduce, Introducing, Typed, Shape, Addressed
    <3>2. intros[w] + 1 \in Nat
      BY <2>1
    <3> QED BY <2>1, <3>1, <3>2
  <2> QED BY <2>2, <2>3
<1>4. TablesOK' /\ CountsOK'
  BY <1>3 DEF DMForbidden, Introduce, Typed, TypeOK, TablesOK, CountsOK, Known
<1> QED
  BY <1>2, <1>4, TypedPrime

LEMMA TypedStoreAccount ==
    ASSUME Typed, NEW s \in Slots, StoreAccount(s)
    PROVE  Typed'
<1> DEFINE c == call[s]
<1>1. /\ c \in Call /\ c.user \in Members /\ c.account \in AccountRow /\ c.at \in Nat
      /\ account' = Put(account, c.user, c.account)
      /\ claims' = IF c.kind = "daily" THEN [claims EXCEPT ![c.user] = Append(@, c.at)] ELSE claims
  <2>1. Working(s)
    BY DEF StoreAccount, Working
  <2>2. c \in Call /\ c.user \in Members
    BY <2>1, WorkingCalls
  <2>3. c.account \in AccountRow /\ c.at \in Nat
    BY <2>2 DEF Call
  <2> QED BY <2>2, <2>3 DEF StoreAccount
<1>2. CallsOK'
  <2>1. PICK new \in Call : Stored(s, new)
    BY StoreAccountStep
  <2> QED BY <2>1, OneSlot DEF CallsOK, Stored
<1>3. Known' \subseteq Members /\ account' \in [Known' -> AccountRow]
  <2>1. Known' = Known \cup {c.user}
    BY <1>1 DEF Known, Put
  <2>2. account' \in [Known \cup {c.user} -> AccountRow]
    BY <1>1 DEF Put, Typed, TypeOK
  <2> QED BY <1>1, <2>1, <2>2 DEF Typed, TypeOK
<1>4. claims' \in [Members -> Seq(Nat)]
  <2>1. claims \in [Members -> Seq(Nat)]
    BY DEF Typed, TypeOK
  <2>2. claims[c.user] \in Seq(Nat)
    BY <1>1, <2>1
  <2>3. Append(claims[c.user], c.at) \in Seq(Nat)
    BY <1>1, <2>2
  <2>4. [claims EXCEPT ![c.user] = Append(claims[c.user], c.at)] \in [Members -> Seq(Nat)]
    BY <2>1, <2>3
  <2> QED BY <1>1, <2>1, <2>4
<1>5. TablesOK' /\ CountsOK'
  BY <1>3, <1>4 DEF StoreAccount, Typed, TypeOK, TablesOK, CountsOK
<1> QED
  BY <1>2, <1>5, TypedPrime

LEMMA TypedStoreStock ==
    ASSUME Typed, NEW s \in Slots, StoreStock(s)
    PROVE  Typed'
<1> DEFINE new == [call[s] EXCEPT !.pc = "append"]
<1>1. Working(s) /\ Pricing(s)
  BY DEF StoreStock, Working, Pricing
<1>2. /\ call[s] \in Call /\ call[s].user \in Members /\ call[s].kind \in Kinds
      /\ \A t \in Slots : t # s /\ Working(t) => call[t].user # call[s].user
  BY <1>1, WorkingCalls
<1>3. call[s].user \in HasStock /\ call[s].stock \in StockRow /\ call[s].kind \in PriceKinds
  BY <1>1 DEF Typed, Shape, Pricing
<1>4. /\ new \in Call /\ new.pc = "append" /\ new.user = call[s].user
      /\ new.kind = call[s].kind /\ new.stock = call[s].stock
  BY <1>2 DEF Call
<1>5. call' = [call EXCEPT ![s] = new]
  BY DEF StoreStock
<1> HIDE DEF new
<1>6. CallsOK'
  <2> DEFINE u == call[s].user
  <2>1. /\ u \in Members /\ new.user = u /\ new.kind \in Kinds /\ new.kind \in PriceKinds
        /\ \A t \in Slots : t # s /\ Working(t) => call[t].user # u
        /\ u \in HasStock /\ new.stock \in StockRow
    BY <1>2, <1>3, <1>4
  <2> HIDE DEF u
  <2> QED BY <1>4, <1>5, <2>1, OneSection DEF CallsOK
<1>7. stock' = Put(stock, call[s].user, call[s].stock)
  BY DEF StoreStock
<1>8. stock' \in [HasStock -> StockRow]
  BY <1>3, <1>7 DEF Put, Typed, TypeOK
<1>9. TablesOK' /\ CountsOK'
  BY <1>8 DEF StoreStock, Typed, TypeOK, TablesOK, CountsOK, Known
<1> QED
  BY <1>6, <1>9, TypedPrime

LEMMA AppendPointStep ==
    ASSUME Typed, NEW s \in Slots, AppendPoint(s)
    PROVE  /\ call[s] \in Call /\ call[s].user \in HasStock /\ call[s].stock \in StockRow
           /\ call[s].kind \in PriceKinds
           /\ [price |-> call[s].stock.price, by |-> call[s].kind] \in Point
           /\ call' = [call EXCEPT ![s] = After(call[s])]
           /\ history' = [history EXCEPT ![call[s].user] =
                             Append(@, [price |-> call[s].stock.price, by |-> call[s].kind])]
           /\ history[call[s].user] \in Seq(Point)
           /\ torn' = torn \ {call[s].user}
<1>1. Working(s) /\ Appending(s)
  BY DEF AppendPoint, Working, Appending
<1>2. call[s] \in Call
  BY DEF Typed, TypeOK
<1>3. call[s].kind \in PriceKinds
  BY <1>1 DEF Typed, Shape
<1>4. Pricing(s)
  BY <1>1, <1>3 DEF Pricing
<1>5. call[s].user \in HasStock /\ call[s].stock \in StockRow
  BY <1>4 DEF Typed, Shape
<1>6. [price |-> call[s].stock.price, by |-> call[s].kind] \in Point
  BY <1>3, <1>5 DEF StockRow, Point
<1>7. history[call[s].user] \in Seq(Point)
  BY <1>5 DEF Typed, TypeOK
<1> QED
  BY <1>2, <1>3, <1>5, <1>6, <1>7 DEF AppendPoint

LEMMA TypedAppendPoint ==
    ASSUME Typed, NEW s \in Slots, AppendPoint(s)
    PROVE  Typed'
<1> DEFINE u == call[s].user
           point == [price |-> call[s].stock.price, by |-> call[s].kind]
<1>1. /\ call[s] \in Call /\ u \in HasStock /\ point \in Point
      /\ call' = [call EXCEPT ![s] = After(call[s])]
      /\ history' = [history EXCEPT ![u] = Append(@, point)]
      /\ history[u] \in Seq(Point) /\ torn' = torn \ {u}
  BY AppendPointStep
<1> HIDE DEF u, point
<1>2. CallsOK'
  BY <1>1, AfterType, OneSlot DEF CallsOK, Addressed
<1>3. Append(history[u], point) \in Seq(Point)
  BY <1>1
<1>4. history \in [HasStock -> Seq(Point)]
  BY DEF Typed, TypeOK
<1>5. history' \in [HasStock -> Seq(Point)]
  BY <1>1, <1>3, <1>4
<1>6. TablesOK' /\ CountsOK'
  BY <1>1, <1>5 DEF AppendPoint, Typed, TypeOK, TablesOK, CountsOK, Known
<1> QED
  BY <1>2, <1>6, TypedPrime

LEMMA TypedFaults ==
    ASSUME Typed, (\E s \in Slots : Fail(s)) \/ Restart
    PROVE  Typed'
<1>1. \A s \in Slots : Appending(s) => call[s].user \in HasStock
  BY DEF Typed, Shape, Pricing, Working, Appending
<1>4. \A s \in Slots : Introducing(s) => call[s].user \in Members
  BY DEF Typed, Shape, Introducing, Addressed
<1>2. ASSUME NEW s \in Slots, Fail(s)
      PROVE  Typed'
  <2>1. Idle \in Call /\ Idle.pc = "idle"
    BY IdleType DEF Idle
  <2>2. CallsOK'
    BY <1>2, <2>1, OneSlot DEF Fail, CallsOK, Addressed
  <2>3. torn' \subseteq HasStock /\ missed' \subseteq Members
    BY <1>1, <1>2, <1>4 DEF Fail, Typed, TypeOK
  <2>4. TablesOK' /\ CountsOK'
    BY <1>2, <2>3 DEF Fail, Typed, TypeOK, TablesOK, CountsOK, Known
  <2> QED BY <2>2, <2>4, TypedPrime
<1>3. CASE Restart
  <2>1. \A s \in Slots : call'[s] = Idle
    BY <1>3 DEF Restart
  <2>2. CallsOK'
    BY <1>3, <2>1, IdleType
       DEF Restart, CallsOK, Exclusive, Shape, Working, Pricing, Appending, Addressed, Idle
  <2>3. torn' \subseteq HasStock /\ missed' \subseteq Members
    BY <1>1, <1>3, <1>4 DEF Restart, Typed, TypeOK
  <2>4. TablesOK' /\ CountsOK'
    BY <1>3, <2>3 DEF Restart, Typed, TypeOK, TablesOK, CountsOK, Known
  <2> QED BY <2>2, <2>4, TypedPrime
<1> QED
  BY <1>2, <1>3

LEMMA TypedUnchanged == ASSUME Typed, UNCHANGED vars PROVE Typed'
BY DEF vars, Typed, TypeOK, Known, Exclusive, Shape, Working, Pricing, Appending, Addressed

LEMMA TypedInductive == Typed /\ [Next]_vars => Typed'
<1> SUFFICES ASSUME Typed, [Next]_vars PROVE Typed'
  OBVIOUS
<1> USE DEF Next
<1>1. CASE Tick
  BY <1>1, TypedTick
<1>2. ASSUME NEW h \in Handlers, Discord(h) PROVE Typed'
  BY <1>2, TypedDiscord
<1>3. ASSUME NEW s \in Sweeps, StartSweep(s) \/ List(s) PROVE Typed'
  BY <1>3, TypedSweep
<1>4. ASSUME NEW s \in Slots, Section(s) PROVE Typed'
  BY <1>4, TypedReads, TypedStoreAccount, TypedSend, TypedStoreStock, TypedAppendPoint
     DEF Section
<1>5. CASE (\E s \in Slots : Fail(s)) \/ Restart
  BY <1>5, TypedFaults
<1>6. CASE UNCHANGED vars
  BY <1>6, TypedUnchanged
<1> QED
  BY <1>1, <1>2, <1>3, <1>4, <1>5, <1>6

LEMMA AlwaysTyped == Spec => []Typed
BY TypedInit, TypedInductive, PTL DEF Spec

(* No sequence of calls, failures and restarts takes a variable out of its  *)
(* type: in particular no service, whatever it read and when, makes a price *)
(* below min_price, an all-time high below it, or a streak that has reached *)
(* the bonus.                                                               *)
THEOREM TypeCorrect == Spec => []TypeOK
BY AlwaysTyped, PTL DEF Typed

-----------------------------------------------------------------------------
(* The stores of a row a call read before take back nothing. *)

(* What a section holds of its member while it works. *)
Introduced(u) == u \in Known /\ account[u].intro

AccountCopy(s) ==
    LET c == call[s] IN
    c.pc = "store" /\ c.kind \in AccountKinds =>
      /\ c.shows <=> c.kind = "opt in" /\ ~Introduced(c.user)
      /\ c.account.intro <=> c.kind = "opt in" \/ Introduced(c.user)
      /\ c.user \in Known => \A f \in Fields : f \notin Owned(c.kind) =>
                                c.account[f] = account[c.user][f]

PriceCopy(s) ==
    LET c == call[s] IN
    Pricing(s) =>
      /\ c.stock.high >= stock[c.user].high
      /\ c.kind # "stay boost" => c.stock.high >= c.stock.price
      /\ Appending(s) => c.stock = stock[c.user]

Copies == Typed /\ \A s \in Slots : AccountCopy(s) /\ PriceCopy(s)

(* A step of s that touches the rows of u alone. *)
LEMMA OthersKeep ==
    ASSUME Typed, NEW s \in Slots, NEW u,
           \A t \in Slots : t # s => call'[t] = call[t],
           \A t \in Slots : t # s /\ Working(t) => call[t].user # u,
           \A v \in Members : v # u => /\ v \in Known' <=> v \in Known
                                       /\ v \in Known => account'[v] = account[v],
           \A v \in HasStock : v # u => stock'[v] = stock[v]
    PROVE  \A t \in Slots : t # s /\ AccountCopy(t) /\ PriceCopy(t)
                              => AccountCopy(t)' /\ PriceCopy(t)'
<1> SUFFICES ASSUME NEW t \in Slots, t # s, AccountCopy(t), PriceCopy(t)
             PROVE  AccountCopy(t)' /\ PriceCopy(t)'
  OBVIOUS
<1>1. call'[t] = call[t]
  OBVIOUS
<1>2. AccountCopy(t)'
  <2>1. CASE call[t].pc = "store" /\ call[t].kind \in AccountKinds
    <3>1. Working(t)
      BY <2>1 DEF Working
    <3>2. call[t].user \in Members /\ call[t].user # u
      BY <3>1, WorkingCalls
    <3> DEFINE v == call[t].user
    <3>3. /\ v \in Known' <=> v \in Known
          /\ v \in Known => account'[v] = account[v]
      BY <3>2, Zenon
    <3>4. call[t].user = v /\ call'[t].user = v
      BY <1>1
    <3> HIDE DEF v
    <3>5. (v \in Known /\ account[v].intro) <=> (v \in Known' /\ account'[v].intro)
      BY <3>3
    <3>6. /\ call[t].shows <=> call[t].kind = "opt in" /\ ~(v \in Known /\ account[v].intro)
          /\ call[t].account.intro <=>
               call[t].kind = "opt in" \/ (v \in Known /\ account[v].intro)
          /\ v \in Known => \A f \in Fields : f \notin Owned(call[t].kind) =>
                              call[t].account[f] = account[v][f]
      BY <2>1, <3>4 DEF AccountCopy, Introduced
    <3>7. /\ call'[t].shows <=> call'[t].kind = "opt in" /\ ~(v \in Known' /\ account'[v].intro)
          /\ call'[t].account.intro <=>
               call'[t].kind = "opt in" \/ (v \in Known' /\ account'[v].intro)
      BY <1>1, <3>5, <3>6
    <3>8. v \in Known' => \A f \in Fields : f \notin Owned(call'[t].kind) =>
                             call'[t].account[f] = account'[v][f]
      BY <1>1, <3>3, <3>6
    <3> QED BY <3>4, <3>7, <3>8 DEF AccountCopy, Introduced
  <2>2. CASE ~(call[t].pc = "store" /\ call[t].kind \in AccountKinds)
    BY <1>1, <2>2 DEF AccountCopy
  <2> QED BY <2>1, <2>2
<1>3. PriceCopy(t)'
  <2>1. CASE Pricing(t)
    <3>1. Working(t) /\ call[t].user \in HasStock
      BY <2>1 DEF Pricing, Typed, Shape
    <3>2. stock'[call[t].user] = stock[call[t].user]
      BY <3>1
    <3> QED BY <1>1, <3>2 DEF PriceCopy, Pricing, Working, Appending
  <2>2. CASE ~Pricing(t)
    BY <1>1, <2>2 DEF PriceCopy, Pricing, Working
  <2> QED BY <2>1, <2>2
<1> QED
  BY <1>2, <1>3

(* A step of s that stores nothing and leaves it outside a section. *)
LEMMA QuietCopies ==
    ASSUME Copies, Typed', NEW s \in Slots, NEW new, call' = [call EXCEPT ![s] = new],
           new.pc \notin {"store", "append"}, UNCHANGED <<account, stock>>
    PROVE  Copies'
<1>1. call'[s] = new /\ \A t \in Slots : t # s => call'[t] = call[t]
  BY DEF Copies, Typed, TypeOK
<1>2. \A t \in Slots : Working(t) => call[t].user # Nobody
  BY WorkingCalls, CommunityAssumption DEF Copies
<1>3. \A t \in Slots : t # s => AccountCopy(t)' /\ PriceCopy(t)'
  BY <1>1, <1>2, OthersKeep DEF Copies, Known
<1>4. AccountCopy(s)' /\ PriceCopy(s)'
  BY <1>1 DEF AccountCopy, PriceCopy, Pricing, Working
<1> QED
  BY <1>3, <1>4 DEF Copies

LEMMA CopiesBegin ==
    ASSUME Copies, Typed', NEW s \in Slots, NEW new, Begin(s, new),
           new.pc \notin {"store", "append"}
    PROVE  Copies'
BY QuietCopies DEF Begin

LEMMA CopiesDiscord ==
    ASSUME Copies, Typed', NEW h \in Handlers, Discord(h)
    PROVE  Copies'
<1>1. h \in Slots
  BY DEF Slots
<1>2. ASSUME NEW c \in Commands, Command(h, c) \/ Disciplined(h, c)
      PROVE  Copies'
  <2> DEFINE command == [Idle EXCEPT !.kind = c[1], !.pc = "next", !.todo = {c[2]}, !.at = now]
             event == [Idle EXCEPT !.kind = "penalty", !.pc = "resolve", !.todo = {c[2]}]
  <2>1. command.pc = "next" /\ event.pc = "resolve"
    BY DEF Idle
  <2>2. Begin(h, command) \/ Begin(h, event)
    BY <1>2 DEF Command, Disciplined
  <2> HIDE DEF command, event
  <2> QED BY <1>1, <2>1, <2>2, CopiesBegin
<1>3. ASSUME NEW actor \in Moderators \cup {Unknown}, Gate(h, actor)
      PROVE  Copies'
  <2> DEFINE passed == [call[h] EXCEPT !.pc = "next", !.at = now]
  <2>1. passed.pc = "next"
    BY <1>1 DEF Copies, Typed, TypeOK, Call
  <2>2. call' = [call EXCEPT ![h] = Idle] \/ call' = [call EXCEPT ![h] = passed]
    BY <1>3 DEF Gate
  <2>3. UNCHANGED <<account, stock>> /\ Idle.pc = "idle"
    BY <1>3 DEF Gate, Idle
  <2> HIDE DEF passed
  <2> QED BY <1>1, <2>1, <2>2, <2>3, QuietCopies
<1> QED
  BY <1>2, <1>3 DEF Discord

LEMMA CopiesSweep ==
    ASSUME Copies, Typed', NEW s \in Sweeps, StartSweep(s) \/ List(s)
    PROVE  Copies'
<1>1. s \in Slots /\ call[s] \in Call
  BY DEF Slots, Copies, Typed, TypeOK
<1>2. CASE StartSweep(s)
  <2> DEFINE new == [Idle EXCEPT !.kind = s, !.pc = "list", !.at = now]
  <2>1. new.pc = "list" /\ Begin(s, new)
    BY <1>2 DEF Idle, StartSweep
  <2> HIDE DEF new
  <2> QED BY <1>1, <2>1, CopiesBegin
<1>3. CASE List(s)
  <2>1. PICK todo, points :
          call' = [call EXCEPT ![s] =
                     IF todo = {} THEN Idle
                     ELSE [call[s] EXCEPT !.pc = "next", !.todo = todo, !.points = points]]
    BY <1>3, Zenon DEF List
  <2> DEFINE new == IF todo = {} THEN Idle
                    ELSE [call[s] EXCEPT !.pc = "next", !.todo = todo, !.points = points]
  <2>2. new.pc \in {"idle", "next"}
    BY <1>1 DEF Idle, Call
  <2>3. call' = [call EXCEPT ![s] = new] /\ UNCHANGED <<account, stock>>
    BY <1>3, <2>1 DEF List
  <2> HIDE DEF new
  <2> QED BY <1>1, <2>2, <2>3, QuietCopies
<1> QED
  BY <1>2, <1>3

LEMMA CopiesReads ==
    ASSUME Copies, Typed', NEW s \in Slots, NEW u \in Members, ReadAccount(s, u) \/ ReadStock(s, u)
    PROVE  Copies'
<1>1. Typed
  BY DEF Copies
<1>2. CASE ReadAccount(s, u)
  <2>1. PICK new \in Call : AccountRead(s, u, new)
    BY <1>1, <1>2, ReadAccountStep
  <2>2. call'[s] = new /\ \A t \in Slots : t # s => call'[t] = call[t]
    BY <1>1, <2>1 DEF AccountRead, Typed, TypeOK
  <2>3. stock' = stock
    BY <1>2 DEF ReadAccount
  <2>4. \A v \in Members : v # u => /\ v \in Known' <=> v \in Known
                                    /\ v \in Known => account'[v] = account[v]
    BY <2>1 DEF AccountRead, Put, Known
  <2>5. \A t \in Slots : t # s => AccountCopy(t)' /\ PriceCopy(t)'
    <3>1. \A t \in Slots : Working(t) => call[t].user # u
      BY <2>1 DEF AccountRead
    <3> QED BY <1>1, <2>2, <2>3, <2>4, <3>1, OthersKeep DEF Copies
  <2>6. PriceCopy(s)'
    BY <2>1, <2>2 DEF PriceCopy, Pricing, Working, AccountRead, AccountKinds, PriceKinds
  <2>7. AccountCopy(s)'
    <3>1. CASE new.pc \in {"idle", "next"}
      BY <2>2, <3>1 DEF AccountCopy
    <3>2. CASE new.pc \notin {"idle", "next"}
      <4> DEFINE row == Account(u)
      <4>1. /\ new.pc = "store" /\ new.user = u /\ new.kind \in AccountKinds
            /\ new.account = Changed(new.kind, row, call[s].at)
            /\ new.shows = (new.kind = "opt in" /\ ShowsIntro(row))
        BY <2>1, <3>2 DEF AccountRead
      <4>2. row \in AccountRow /\ call[s].at \in Nat
        BY <1>1, AccountType DEF Typed, TypeOK, Call
      <4>3. /\ u \in Known' => account'[u] = row
            /\ u \notin Known' => ~row.intro
        <5>1. u \in Known' => account'[u] = row
          BY <2>1 DEF AccountRead, Put, Known, Account
        <5>2. ASSUME u \notin Known' PROVE ~row.intro
          <6>1. u \notin Known
            BY <2>1, <5>2 DEF AccountRead
          <6> QED BY <6>1 DEF Account, Seed
        <5> QED BY <5>1, <5>2
      <4> DEFINE at == call[s].at
      <4> HIDE DEF row, at
      <4>4. /\ \A f \in Fields : f \notin Owned(new.kind) => Changed(new.kind, row, at)[f] = row[f]
            /\ Changed(new.kind, row, at).intro <=> new.kind = "opt in" \/ row.intro
        <5>1. at \in Nat
          BY <4>2 DEF at
        <5> QED BY <4>1, <4>2, <5>1, ChangedKeeps
      <4>5. row.intro <=> Introduced(u)'
        BY <4>2, <4>3 DEF Introduced, AccountRow
      <4>6. row.intro \in BOOLEAN /\ new.account = Changed(new.kind, row, at)
        BY <4>1, <4>2 DEF AccountRow, at
      <4>7. new.shows <=> new.kind = "opt in" /\ ~row.intro
        BY <4>1 DEF ShowsIntro
      <4> QED BY <2>2, <4>1, <4>3, <4>4, <4>5, <4>6, <4>7 DEF AccountCopy
    <3> QED BY <3>1, <3>2
  <2> QED BY <2>5, <2>6, <2>7 DEF Copies
<1>3. CASE ReadStock(s, u)
  <2>1. PICK new \in Call : StockRead(s, u, new)
    BY <1>1, <1>3, ReadStockStep
  <2>2. call'[s] = new /\ \A t \in Slots : t # s => call'[t] = call[t]
    BY <1>1, <2>1 DEF StockRead, Typed, TypeOK
  <2>3. stock' = stock /\ account' = account
    BY <1>3 DEF ReadStock
  <2>4. \A t \in Slots : t # s => AccountCopy(t)' /\ PriceCopy(t)'
    BY <1>1, <2>1, <2>2, <2>3, OthersKeep DEF Copies, StockRead, Known
  <2>5. PriceCopy(s)'
    BY <2>1, <2>2, <2>3 DEF PriceCopy, Pricing, Working, Appending, StockRead
  <2>6. AccountCopy(s)'
    BY <2>1, <2>2 DEF AccountCopy, StockRead, AccountKinds, PriceKinds
  <2> QED BY <2>4, <2>5, <2>6 DEF Copies
<1> QED
  BY <1>2, <1>3

(* The introduction is sent, or not, without a lock. *)
LEMMA CopiesSend ==
    ASSUME Copies, Typed', NEW s \in Slots, DMForbidden(s) \/ Introduce(s)
    PROVE  Copies'
<1>1. PICK new \in Call : Sent(s, new)
  BY SendStep DEF Copies
<1>2. new.pc \notin {"store", "append"} /\ call' = [call EXCEPT ![s] = new]
  BY <1>1 DEF Sent
<1>3. UNCHANGED <<account, stock>>
  BY DEF DMForbidden, Introduce
<1> QED
  BY <1>2, <1>3, QuietCopies

LEMMA SectionsEnd ==
    ASSUME Typed, NEW s \in Slots, StoreAccount(s) \/ AppendPoint(s)
    PROVE  /\ call'[s].pc \in {"idle", "next", "dm"}
           /\ \A t \in Slots : t # s => call'[t] = call[t]
<1>1. CASE StoreAccount(s)
  <2>1. PICK new \in Call : Stored(s, new)
    BY <1>1, StoreAccountStep
  <2> QED BY <2>1 DEF Stored, Typed, TypeOK
<1>2. CASE AppendPoint(s)
  BY <1>2, AfterType DEF AppendPoint, Typed, TypeOK
<1> QED
  BY <1>1, <1>2

LEMMA CopiesStores ==
    ASSUME Copies, Typed', NEW s \in Slots, StoreAccount(s) \/ StoreStock(s) \/ AppendPoint(s)
    PROVE  Copies'
<1> DEFINE u == call[s].user
<1>1. Typed /\ Working(s)
  BY DEF Copies, StoreAccount, StoreStock, AppendPoint, Working
<1>2. /\ call[s] \in Call /\ u \in Members
      /\ \A t \in Slots : t # s /\ Working(t) => call[t].user # u
  BY <1>1, WorkingCalls
<1>3. \A t \in Slots : t # s => call'[t] = call[t]
  BY <1>1 DEF StoreAccount, StoreStock, AppendPoint, Typed, TypeOK
<1>4. \A v \in Members : v # u => /\ v \in Known' <=> v \in Known
                                  /\ v \in Known => account'[v] = account[v]
  BY DEF StoreAccount, StoreStock, AppendPoint, Put, Known
<1>5. \A v \in HasStock : v # u => stock'[v] = stock[v]
  BY <1>1 DEF StoreAccount, StoreStock, AppendPoint, Put, Typed, TypeOK
<1> HIDE DEF u
<1>6. \A t \in Slots : t # s => AccountCopy(t)' /\ PriceCopy(t)'
  BY <1>1, <1>2, <1>3, <1>4, <1>5, OthersKeep DEF Copies
<1>7. CASE StoreAccount(s) \/ AppendPoint(s)
  <2>1. call'[s].pc \in {"idle", "next", "dm"}
    BY <1>1, <1>7, SectionsEnd
  <2>2. AccountCopy(s)' /\ PriceCopy(s)'
    BY <2>1 DEF AccountCopy, PriceCopy, Pricing, Working
  <2> QED BY <1>6, <2>2 DEF Copies
<1>8. CASE StoreStock(s)
  <2>1. /\ call'[s].pc = "append" /\ call'[s].user = u /\ call'[s].kind = call[s].kind
        /\ call'[s].stock = call[s].stock
    BY <1>1, <1>2, <1>8 DEF StoreStock, Typed, TypeOK, Call, u
  <2>2. Pricing(s) /\ PriceCopy(s) /\ u \in HasStock /\ call[s].stock \in StockRow
    BY <1>1, <1>8 DEF StoreStock, Pricing, Copies, Typed, Shape, u
  <2>3. stock'[u] = call[s].stock
    BY <1>8, <2>2 DEF StoreStock, Put, u
  <2>4. call[s].stock.high >= call[s].stock.high
    BY <2>2 DEF StockRow, Price
  <2>5. AccountCopy(s)' /\ PriceCopy(s)'
    BY <2>1, <2>2, <2>3, <2>4 DEF AccountCopy, PriceCopy
  <2> QED BY <1>6, <2>5 DEF Copies
<1> QED
  BY <1>7, <1>8

LEMMA CopiesRest ==
    ASSUME Copies, Typed', Tick \/ (\E s \in Slots : Fail(s)) \/ Restart \/ UNCHANGED vars
    PROVE  Copies'
<1>1. CASE Tick \/ UNCHANGED vars
  <2>1. UNCHANGED <<call, account, stock>>
    BY <1>1 DEF Tick, vars
  <2> QED
    BY <2>1 DEF Copies, AccountCopy, PriceCopy, Introduced, Known, Pricing, Working, Appending
<1>2. ASSUME NEW s \in Slots, Fail(s) PROVE Copies'
  <2>1. Idle.pc = "idle"
    BY DEF Idle
  <2> QED BY <1>2, <2>1, QuietCopies DEF Fail
<1>3. CASE Restart
  <2>1. \A t \in Slots : call'[t].pc = "idle"
    BY <1>3 DEF Restart, Idle
  <2> QED BY <2>1 DEF Copies, AccountCopy, PriceCopy, Pricing, Working
<1> QED
  BY <1>1, <1>2, <1>3

LEMMA CopiesInductive == Copies /\ [Next]_vars => Copies'
<1> SUFFICES ASSUME Copies, [Next]_vars PROVE Copies'
  OBVIOUS
<1>1. Typed'
  BY TypedInductive DEF Copies
<1> QED
  BY <1>1, CopiesDiscord, CopiesSweep, CopiesReads, CopiesStores, CopiesSend, CopiesRest
     DEF Next, Section

LEMMA AlwaysCopies == Spec => []Copies
<1>1. Init => Copies
  <2> SUFFICES ASSUME Init PROVE Copies
    OBVIOUS
  <2>1. \A s \in Slots : call[s].pc = "idle"
    BY DEF Init, Idle
  <2> QED BY <2>1, TypedInit DEF Copies, AccountCopy, PriceCopy, Pricing, Working
<1> QED
  BY <1>1, CopiesInductive, PTL DEF Spec

LEMMA KeepOutStep ==
    ASSUME Copies, Next, NEW u \in Known, NEW f \in DOMAIN account[u],
           account'[u][f] # account[u][f]
    PROVE  \E s \in Slots : /\ call[s].pc = "store" /\ call[s].user = u
                            /\ call'[s] # call[s]
                            /\ f \in Owned(call[s].kind)
<1>1. Typed
  BY DEF Copies
<1>2. f \in Fields
  BY <1>1 DEF Typed, TypeOK, AccountRow, Fields
<1>3. ASSUME NEW s \in Slots, StoreAccount(s)
      PROVE  /\ call[s].pc = "store" /\ call[s].user = u
             /\ call'[s] # call[s]
             /\ f \in Owned(call[s].kind)
  <2>1. /\ call[s].pc = "store" /\ call[s].kind \in AccountKinds
        /\ account' = Put(account, call[s].user, call[s].account)
    BY <1>3 DEF StoreAccount
  <2>2. call[s].user = u /\ account'[u] = call[s].account
    BY <2>1 DEF Put, Known
  <2>3. call'[s].pc # "store"
    BY <1>1, <1>3, SectionsEnd
  <2>4. AccountCopy(s)
    BY DEF Copies
  <2>5. f \notin Owned(call[s].kind) => call[s].account[f] = account[u][f]
    BY <1>2, <2>1, <2>2, <2>4 DEF AccountCopy
  <2> QED BY <2>1, <2>2, <2>3, <2>5
<1>4. ASSUME NEW s \in Slots, NEW v \in Members, ReadAccount(s, v)
      PROVE  FALSE
  <2>1. account' \in {account, Put(account, v, Account(v))}
    BY <1>1, <1>4, ReadAccountStep DEF AccountRead
  <2> QED BY <2>1 DEF Put, Known, Account
<1>5. account' = account => FALSE
  OBVIOUS
<1> QED
  BY <1>3, <1>4, <1>5
     DEF Next, Tick, Discord, Command, Disciplined, Begin, Gate, StartSweep, List, Section,
         ReadStock, DMForbidden, Introduce, StoreStock, AppendPoint, Fail, Restart

(* A call stores the whole row it read, yet it never takes back a field     *)
(* another service has stored since (_mutate, claim_daily, the resets).     *)
THEOREM ServicesKeepOutHolds == Spec => ServicesKeepOut
<1>1. Copies /\ [Next]_vars =>
        [\A u \in Known :
           \A f \in DOMAIN account[u] :
             account'[u][f] # account[u][f] =>
               \E s \in Slots : /\ call[s].pc = "store" /\ call[s].user = u
                                /\ call'[s] # call[s]
                                /\ f \in Owned(call[s].kind)]_vars
  BY KeepOutStep
<1> QED
  BY <1>1, AlwaysCopies, PTL DEF Spec, ServicesKeepOut

-----------------------------------------------------------------------------
(* The introduction. *)

(* An introduction is on its way from one call only, to a member who is     *)
(* marked; one that was cut off was for a marked member, too.               *)
Sole ==
    /\ \A s \in Slots : Introducing(s) => Introduced(call[s].user) /\ call[s].user \notin missed
    /\ \A s, t \in Slots :
         Introducing(s) /\ Introducing(t) /\ call[s].user = call[t].user => s = t
    /\ \A u \in missed : Introduced(u)

Reached(u) == Introduced(u) /\ u \notin missed /\ ~Sending(u)

Intros == Sole /\ \A u \in Members : intros[u] = IF Reached(u) THEN 1 ELSE 0

LEMMA IntrosSay == Intros => IntroOnce
BY DEF Intros, IntroOnce, Reached, Introduced

LEMMA MarksKept ==
    ASSUME account' = account
    PROVE  \A u : Introduced(u)' <=> Introduced(u)
BY DEF Introduced, Known

(* A step that neither marks anybody nor begins or ends a sending.          *)
LEMMA IntrosQuiet ==
    ASSUME Intros, UNCHANGED <<intros, missed>>,
           \A u \in Members : Introduced(u)' <=> Introduced(u),
           missed \subseteq Members,
           \A s \in Slots : Introducing(s) => call[s].user \in Members,
           \A s \in Slots : Introducing(s)' => Introducing(s),
           \A s \in Slots : Introducing(s) => Introducing(s)' /\ call'[s].user = call[s].user
    PROVE  Intros'
<1>1. \A u : Sending(u)' <=> Sending(u)
  BY DEF Sending
<1>2. Sole'
  BY DEF Intros, Sole
<1>3. \A u \in Members : Reached(u)' <=> Reached(u)
  BY <1>1 DEF Reached
<1> QED
  BY <1>2, <1>3 DEF Intros

(* Slot s, which sends nothing before the step, sends nothing after it.     *)
LEMMA IntrosElsewhere ==
    ASSUME Copies, Intros, UNCHANGED <<intros, missed>>,
           \A u \in Members : Introduced(u)' <=> Introduced(u),
           NEW s \in Slots, ~Introducing(s), ~Introducing(s)',
           \A t \in Slots : t # s => call'[t] = call[t]
    PROVE  Intros'
<1>1. missed \subseteq Members /\ \A t \in Slots : Introducing(t) => call[t].user \in Members
  BY DEF Copies, Typed, TypeOK, Shape, Addressed, Introducing
<1>2. \A t \in Slots : Introducing(t) => t # s /\ Introducing(t)' /\ call'[t].user = call[t].user
  BY DEF Introducing
<1>3. \A t \in Slots : Introducing(t)' => Introducing(t)
  BY DEF Introducing
<1> QED
  BY <1>1, <1>2, <1>3, IntrosQuiet

LEMMA IntrosStoreAccount ==
    ASSUME Copies, Intros, NEW s \in Slots, StoreAccount(s)
    PROVE  Intros'
<1>1. /\ call[s].pc = "store" /\ call[s].kind \in AccountKinds
      /\ account' = Put(account, call[s].user, call[s].account)
      /\ UNCHANGED <<intros, missed>>
  BY DEF StoreAccount
<1>2. call[s].user \in Members /\ ~Introducing(s)
  BY <1>1, WorkingCalls DEF Copies, Working, Introducing
<1>3. /\ call[s].shows <=> call[s].kind = "opt in" /\ ~Introduced(call[s].user)
      /\ call[s].account.intro <=> call[s].kind = "opt in" \/ Introduced(call[s].user)
  BY <1>1 DEF Copies, AccountCopy
<1>4. PICK new \in Call : Stored(s, new)
  BY StoreAccountStep DEF Copies
<1> SUFFICES ASSUME NEW w, w = call[s].user, NEW c, c = call[s] PROVE Intros'
  OBVIOUS
<1>5. /\ Introduced(w)' <=> c.account.intro
      /\ \A u : u # w => (Introduced(u)' <=> Introduced(u))
  BY <1>1 DEF Put, Known, Introduced
<1>6. call'[s] = new /\ \A t \in Slots : t # s => call'[t] = call[t]
  BY <1>4 DEF Stored, Copies, Typed, TypeOK
<1>7. CASE ~c.shows
  <2>1. \A u \in Members : Introduced(u)' <=> Introduced(u)
    BY <1>3, <1>5, <1>7
  <2>2. ~Introducing(s)'
    BY <1>4, <1>6, <1>7 DEF Stored, Introducing
  <2> QED BY <1>1, <1>2, <1>6, <2>1, <2>2, IntrosElsewhere
<1>8. CASE c.shows
  <2>1. ~Introduced(w) /\ Introduced(w)' /\ w \in Members
    BY <1>2, <1>3, <1>5, <1>8
  <2>2. w \notin missed /\ \A t \in Slots : Introducing(t) => call[t].user # w
    BY <2>1 DEF Intros, Sole
  <2>3. Introducing(s)' /\ call'[s].user = w
    BY <1>4, <1>6, <1>8 DEF Stored, Introducing
  <2>4. \A t \in Slots : t # s => /\ Introducing(t)' <=> Introducing(t)
                                  /\ call'[t].user = call[t].user
    BY <1>6 DEF Introducing
  <2>5. Sole'
    <3>1. \A t \in Slots :
            (Introducing(t) => Introduced(call[t].user) /\ call[t].user \notin missed)'
      <4> SUFFICES ASSUME NEW t \in Slots, Introducing(t)'
                   PROVE  (Introduced(call[t].user) /\ call[t].user \notin missed)'
        OBVIOUS
      <4>1. CASE t = s
        BY <1>1, <2>1, <2>2, <2>3, <4>1 DEF Introduced
      <4>2. CASE t # s
        <5> SUFFICES ASSUME NEW v, v = call[t].user
                     PROVE  (Introduced(call[t].user) /\ call[t].user \notin missed)'
          OBVIOUS
        <5>1. Introduced(v) /\ v \notin missed /\ v # w /\ call'[t].user = v
          BY <2>2, <2>4, <4>2 DEF Intros, Sole
        <5>2. Introduced(v)'
          BY <1>5, <5>1
        <5> QED BY <1>1, <5>1, <5>2 DEF Introduced
      <4> QED BY <4>1, <4>2
    <3>2. \A t, r \in Slots :
            Introducing(t)' /\ Introducing(r)' /\ call'[t].user = call'[r].user => t = r
      BY <2>2, <2>3, <2>4 DEF Intros, Sole
    <3>3. \A u \in missed' : Introduced(u)'
      BY <1>1, <1>5, <2>2 DEF Intros, Sole
    <3> QED BY <3>1, <3>2, <3>3 DEF Sole
  <2>6. \A u \in Members : intros'[u] = IF Reached(u)' THEN 1 ELSE 0
    <3> SUFFICES ASSUME NEW u \in Members PROVE intros'[u] = IF Reached(u)' THEN 1 ELSE 0
      OBVIOUS
    <3>1. CASE u = w
      <4>1. ~Reached(u) /\ ~Reached(u)'
        BY <2>1, <2>3, <3>1 DEF Reached, Sending
      <4> QED BY <1>1, <4>1 DEF Intros
    <3>2. CASE u # w
      <4>1. Sending(u)' <=> Sending(u)
        BY <1>2, <2>3, <2>4, <3>2 DEF Sending
      <4>2. Reached(u)' <=> Reached(u)
        BY <1>1, <1>5, <3>2, <4>1 DEF Reached
      <4> QED BY <1>1, <4>2 DEF Intros
    <3> QED BY <3>1, <3>2
  <2> QED BY <2>5, <2>6 DEF Intros
<1> QED
  BY <1>7, <1>8

(* The sending of s ends: the introduction arrives or is cut off.           *)
LEMMA IntrosEnd ==
    ASSUME Copies, Intros, NEW s \in Slots, Introducing(s), ~Introducing(s)', account' = account,
           \A t \in Slots : t # s => call'[t] = call[t],
           NEW w, w = call[s].user,
           \/ intros' = [intros EXCEPT ![w] = @ + 1] /\ missed' = missed
           \/ intros' = intros /\ missed' = missed \cup {w}
    PROVE  Intros'
<1>1. w \in Members /\ intros \in [Members -> Nat]
  BY DEF Copies, Typed, TypeOK, Shape, Addressed, Introducing
<1>2. /\ Introduced(w) /\ w \notin missed
      /\ \A t \in Slots : Introducing(t) /\ t # s => call[t].user # w
  BY DEF Intros, Sole
<1>3. \A u : Introduced(u)' <=> Introduced(u)
  BY MarksKept
<1>4. \A t \in Slots : t # s => /\ Introducing(t)' <=> Introducing(t)
                                /\ call'[t].user = call[t].user
  BY DEF Introducing
<1>5. Sole'
  BY <1>2, <1>3, <1>4 DEF Intros, Sole
<1>6. ASSUME NEW u \in Members PROVE intros'[u] = IF Reached(u)' THEN 1 ELSE 0
  <2>1. intros[u] = IF Reached(u) THEN 1 ELSE 0
    BY DEF Intros
  <2>2. CASE u = w
    <3>1. ~Reached(u) /\ ~Sending(u)'
      BY <1>2, <1>4, <2>2 DEF Reached, Sending
    <3>2. Reached(u)' <=> missed' = missed
      BY <1>2, <1>3, <2>2, <3>1 DEF Reached
    <3> QED BY <1>1, <1>2, <2>1, <2>2, <3>1, <3>2
  <2>3. CASE u # w
    <3>1. Sending(u)' <=> Sending(u)
      BY <1>4, <2>3 DEF Sending
    <3>2. Reached(u)' <=> Reached(u)
      BY <1>3, <2>3, <3>1 DEF Reached
    <3> QED BY <1>1, <2>1, <2>3, <3>2
  <2> QED BY <2>2, <2>3
<1> QED
  BY <1>5, <1>6 DEF Intros

LEMMA IntrosSend ==
    ASSUME Copies, Intros, NEW s \in Slots, DMForbidden(s) \/ Introduce(s)
    PROVE  Intros'
<1>1. PICK new \in Call : Sent(s, new)
  BY SendStep DEF Copies
<1>2. call'[s] = new /\ \A t \in Slots : t # s => call'[t] = call[t]
  BY <1>1 DEF Sent, Copies, Typed, TypeOK
<1>3. Introducing(s) /\ account' = account
  BY DEF DMForbidden, Introduce, Introducing
<1>4. CASE DMForbidden(s) /\ new.pc = "reply" /\ new.user = call[s].user
  <2>1. missed \subseteq Members /\ \A t \in Slots : Introducing(t) => call[t].user \in Members
    BY DEF Copies, Typed, TypeOK, Shape, Addressed, Introducing
  <2>2. \A t \in Slots : Introducing(t) => Introducing(t)' /\ call'[t].user = call[t].user
    BY <1>2, <1>4 DEF Introducing
  <2>3. \A t \in Slots : Introducing(t)' => Introducing(t)
    BY <1>2, <1>3 DEF Introducing
  <2>4. UNCHANGED <<intros, missed>>
    BY <1>4 DEF DMForbidden
  <2> QED BY <1>3, <2>1, <2>2, <2>3, <2>4, MarksKept, IntrosQuiet
<1>5. CASE Introduce(s) /\ new.pc \in {"idle", "next"}
  <2>1. ~Introducing(s)'
    BY <1>2, <1>5 DEF Introducing
  <2>2. intros' = [intros EXCEPT ![call[s].user] = @ + 1] /\ missed' = missed
    BY <1>5 DEF Introduce
  <2> QED BY <1>2, <1>3, <2>1, <2>2, IntrosEnd
<1> QED
  BY <1>1, <1>4, <1>5 DEF Sent

LEMMA IntrosFaults ==
    ASSUME Copies, Intros, (\E s \in Slots : Fail(s)) \/ Restart
    PROVE  Intros'
<1>1. account' = account /\ intros' = intros /\ Idle.pc = "idle"
  BY DEF Fail, Restart, Idle
<1>2. ASSUME NEW s \in Slots, Fail(s) PROVE Intros'
  <2>1. call'[s] = Idle /\ \A t \in Slots : t # s => call'[t] = call[t]
    BY <1>2 DEF Fail, Copies, Typed, TypeOK
  <2>2. ~Introducing(s)'
    BY <1>1, <2>1 DEF Introducing
  <2>3. CASE Introducing(s)
    <3>1. missed' = missed \cup {call[s].user}
      BY <1>2, <2>3 DEF Fail
    <3> QED BY <1>1, <2>1, <2>2, <2>3, <3>1, IntrosEnd
  <2>4. CASE ~Introducing(s)
    <3>1. missed' = missed
      BY <1>2, <2>4 DEF Fail
    <3> QED BY <1>1, <2>1, <2>2, <2>4, <3>1, MarksKept, IntrosElsewhere
  <2> QED BY <2>3, <2>4
<1>3. CASE Restart
  <2>1. \A t \in Slots : ~Introducing(t)'
    BY <1>1, <1>3 DEF Restart, Introducing
  <2>2. \A u : (Introduced(u)' <=> Introduced(u)) /\ ~Sending(u)'
    BY <1>1, <2>1, MarksKept DEF Sending
  <2>3. \A u : u \in missed' <=> u \in missed \/ Sending(u)
    BY <1>3 DEF Restart, Sending
  <2>4. \A u : Sending(u) => Introduced(u)
    BY DEF Intros, Sole, Sending
  <2>5. Sole'
    BY <2>1, <2>2, <2>3, <2>4 DEF Intros, Sole
  <2>6. \A u : Reached(u)' <=> Reached(u)
    BY <2>2, <2>3 DEF Reached
  <2> QED BY <1>1, <2>5, <2>6 DEF Intros
<1> QED
  BY <1>2, <1>3

(* A step of Discord or the start of a sweep leaves its call before any section. *)
LEMMA DiscordNext ==
    ASSUME Typed, NEW h \in Handlers, Discord(h)
    PROVE  call'[h].pc \in {"idle", "next", "resolve"}
<1>1. h \in Slots /\ call \in [Slots -> Call] /\ call[h] \in Call
  BY DEF Typed, TypeOK, Slots
<1>2. ASSUME NEW new, call' = [call EXCEPT ![h] = new] PROVE call'[h] = new
  BY <1>1, <1>2
<1>3. ASSUME NEW c \in Commands, Command(h, c) \/ Disciplined(h, c)
      PROVE  call'[h].pc \in {"idle", "next", "resolve"}
  <2> DEFINE command == [Idle EXCEPT !.kind = c[1], !.pc = "next", !.todo = {c[2]}, !.at = now]
             event == [Idle EXCEPT !.kind = "penalty", !.pc = "resolve", !.todo = {c[2]}]
  <2>1. command.pc = "next" /\ event.pc = "resolve"
    BY DEF Idle
  <2>2. call' = [call EXCEPT ![h] = command] \/ call' = [call EXCEPT ![h] = event]
    BY <1>3 DEF Command, Disciplined, Begin
  <2> HIDE DEF command, event
  <2> QED BY <1>2, <2>1, <2>2
<1>4. ASSUME NEW actor \in Moderators \cup {Unknown}, Gate(h, actor)
      PROVE  call'[h].pc \in {"idle", "next", "resolve"}
  <2> DEFINE passed == [call[h] EXCEPT !.pc = "next", !.at = now]
  <2>1. passed.pc = "next" /\ Idle.pc = "idle"
    BY <1>1 DEF Call, Idle
  <2>2. call' = [call EXCEPT ![h] = Idle] \/ call' = [call EXCEPT ![h] = passed]
    BY <1>4 DEF Gate
  <2> HIDE DEF passed
  <2> QED BY <1>2, <2>1, <2>2
<1> QED
  BY <1>3, <1>4 DEF Discord

(* So does a sweep that starts or lists the members. *)
LEMMA SweepNext ==
    ASSUME Typed, NEW s \in Sweeps, StartSweep(s) \/ List(s)
    PROVE  call'[s].pc \in {"idle", "list", "next"}
<1>1. s \in Slots /\ call \in [Slots -> Call] /\ call[s] \in Call
  BY DEF Typed, TypeOK, Slots
<1>2. ASSUME NEW new, call' = [call EXCEPT ![s] = new] PROVE call'[s] = new
  BY <1>1, <1>2
<1>3. CASE StartSweep(s)
  <2> DEFINE new == [Idle EXCEPT !.kind = s, !.pc = "list", !.at = now]
  <2>1. new.pc = "list" /\ call' = [call EXCEPT ![s] = new]
    BY <1>3 DEF Idle, StartSweep, Begin
  <2> HIDE DEF new
  <2> QED BY <1>2, <2>1
<1>4. CASE List(s)
  <2>1. PICK todo, points :
          call' = [call EXCEPT ![s] =
                     IF todo = {} THEN Idle
                     ELSE [call[s] EXCEPT !.pc = "next", !.todo = todo, !.points = points]]
    BY <1>4, Zenon DEF List
  <2> DEFINE new == IF todo = {} THEN Idle
                    ELSE [call[s] EXCEPT !.pc = "next", !.todo = todo, !.points = points]
  <2>2. new.pc \in {"idle", "next"}
    BY <1>1 DEF Call, Idle
  <2>3. call' = [call EXCEPT ![s] = new]
    BY <2>1
  <2> HIDE DEF new
  <2> QED BY <1>2, <2>2, <2>3
<1> QED
  BY <1>3, <1>4

LEMMA IntrosStep ==
    ASSUME Copies, Intros, Next
    PROVE  Intros'
<1>1. call \in [Slots -> Call]
  BY DEF Copies, Typed, TypeOK
<1>2. ASSUME NEW s \in Slots, UNCHANGED <<account, intros, missed>>, ~Introducing(s), ~Introducing(s)',
             \A t \in Slots : t # s => call'[t] = call[t]
      PROVE  Intros'
  BY <1>2, MarksKept, IntrosElsewhere
<1>3. CASE Tick
  <2>1. UNCHANGED <<account, intros, missed, call>>
    BY <1>3 DEF Tick
  <2> QED BY <2>1, MarksKept DEF Intros, Sole, Reached, Sending, Introducing
<1>4. ASSUME NEW h \in Handlers, Discord(h) PROVE Intros'
  <2>1. h \in Slots /\ ~Introducing(h)
    BY <1>4 DEF Slots, Discord, Command, Disciplined, Begin, Gate, Introducing
  <2>2. \A t \in Slots : t # h => call'[t] = call[t]
    BY <1>1, <1>4 DEF Discord, Command, Disciplined, Begin, Gate
  <2>3. UNCHANGED <<account, intros, missed>>
    BY <1>4 DEF Discord, Command, Disciplined, Begin, Gate
  <2>4. ~Introducing(h)'
    BY <1>4, <2>1, DiscordNext DEF Copies, Introducing
  <2> QED BY <1>2, <2>1, <2>2, <2>3, <2>4
<1>5. ASSUME NEW s \in Sweeps, StartSweep(s) \/ List(s) PROVE Intros'
  <2>1. s \in Slots /\ ~Introducing(s)
    BY <1>5 DEF Slots, StartSweep, Begin, List, Introducing
  <2>2. \A t \in Slots : t # s => call'[t] = call[t]
    BY <1>1, <1>5 DEF StartSweep, Begin, List
  <2>3. UNCHANGED <<account, intros, missed>>
    BY <1>5 DEF StartSweep, Begin, List
  <2>4. ~Introducing(s)'
    BY <1>5, <2>1, SweepNext DEF Copies, Introducing
  <2> QED BY <1>2, <2>1, <2>2, <2>3, <2>4
<1>6. ASSUME NEW s \in Slots, NEW u \in Members, ReadAccount(s, u) PROVE Intros'
  <2>1. PICK new \in Call : AccountRead(s, u, new)
    BY <1>6, ReadAccountStep DEF Copies
  <2>2. call'[s] = new /\ new.pc \in {"idle", "next", "store"} /\ \A t \in Slots : t # s => call'[t] = call[t]
    BY <1>1, <2>1 DEF AccountRead
  <2>3. ~Introducing(s) /\ ~Introducing(s)' /\ UNCHANGED <<intros, missed>>
    BY <1>6, <2>2 DEF ReadAccount, Introducing
  <2>4. \A v \in Members : Introduced(v)' <=> Introduced(v)
    <3>1. CASE account' = account
      BY <3>1, MarksKept
    <3>2. CASE account' = Put(account, u, Account(u))
      <4>1. ~Seed.intro
        BY DEF Seed
      <4> QED BY <3>2, <4>1 DEF Introduced, Put, Known, Account
    <3> QED BY <2>1, <3>1, <3>2 DEF AccountRead
  <2> QED BY <2>2, <2>3, <2>4, IntrosElsewhere
<1>7. ASSUME NEW s \in Slots, NEW u \in Members, ReadStock(s, u) PROVE Intros'
  <2>1. PICK new \in Call : StockRead(s, u, new)
    BY <1>7, ReadStockStep DEF Copies
  <2>2. call'[s] = new /\ new.pc \in {"idle", "next", "store"} /\ \A t \in Slots : t # s => call'[t] = call[t]
    BY <1>1, <2>1 DEF StockRead
  <2>3. ~Introducing(s) /\ ~Introducing(s)' /\ UNCHANGED <<account, intros, missed>>
    BY <1>7, <2>2 DEF ReadStock, Introducing
  <2> QED BY <1>2, <2>2, <2>3
<1>8. ASSUME NEW s \in Slots, StoreStock(s) \/ AppendPoint(s) PROVE Intros'
  <2>1. ASSUME StoreStock(s) PROVE call'[s].pc = "append" /\ \A t \in Slots : t # s => call'[t] = call[t]
    <3> DEFINE new == [call[s] EXCEPT !.pc = "append"]
    <3>1. call' = [call EXCEPT ![s] = new] /\ new.pc = "append"
      BY <1>1, <2>1 DEF StoreStock, Call
    <3> HIDE DEF new
    <3> QED BY <1>1, <3>1
  <2>2. ASSUME AppendPoint(s)
        PROVE  call'[s].pc \in {"idle", "next"} /\ \A t \in Slots : t # s => call'[t] = call[t]
    <3> SUFFICES ASSUME NEW c, c = call[s], call' = [call EXCEPT ![s] = After(c)]
                 PROVE  /\ call'[s].pc \in {"idle", "next"}
                        /\ \A t \in Slots : t # s => call'[t] = call[t]
      BY <2>2 DEF AppendPoint
    <3>1. c \in Call
      BY <1>1
    <3> QED BY <1>1, <3>1, AfterType
  <2>3. call'[s].pc \in {"idle", "next", "append"} /\ \A t \in Slots : t # s => call'[t] = call[t]
    BY <1>1, <2>1, <2>2, <1>8
  <2>4. ~Introducing(s) /\ ~Introducing(s)' /\ UNCHANGED <<account, intros, missed>>
    BY <1>8, <2>3 DEF StoreStock, AppendPoint, Introducing
  <2> QED BY <1>2, <2>3, <2>4
<1> QED
  BY <1>3, <1>4, <1>5, <1>6, <1>7, <1>8, IntrosStoreAccount, IntrosSend, IntrosFaults
     DEF Next, Section

(* A member is sent the introduction at most once, and only once marked as  *)
(* having had it; a marked member has had it unless it is on its way or was *)
(* cut off after the mark, whatever commands race, fail or are cut off      *)
(* (opt_in_and_consume_intro, /optin).                                      *)
THEOREM IntroOnceHolds == Spec => []IntroOnce
<1>1. Init => Intros
  <2> SUFFICES ASSUME Init PROVE Intros
    OBVIOUS
  <2>1. \A s \in Slots : ~Introducing(s)
    BY DEF Init, Idle, Introducing
  <2>2. \A u : ~Introduced(u)
    BY DEF Init, Known, Introduced
  <2> QED BY <2>1, <2>2 DEF Init, Intros, Sole, Reached
<1>2. Copies /\ Intros /\ [Next]_vars => Intros'
  <2> SUFFICES ASSUME Copies, Intros, UNCHANGED vars PROVE Intros'
    BY IntrosStep
  <2> QED BY MarksKept DEF vars, Intros, Sole, Reached, Sending, Introducing
<1> QED
  BY <1>1, <1>2, IntrosSay, AlwaysCopies, PTL DEF Spec

-----------------------------------------------------------------------------
(* The price history. *)

Covered(u) ==
    \A i \in DOMAIN history[u] :
      history[u][i].by # "stay boost" => stock[u].high >= history[u][i].price

RecordedAt(u) ==
    /\ Len(history[u]) > 0
    /\ ~Unlogged(u) => history[u][Len(history[u])].price = stock[u].price
    /\ Covered(u)

Recorded == \A u \in HasStock : RecordedAt(u)

LEMMA PricesInt ==
    ASSUME Typed, NEW u \in HasStock
    PROVE  stock[u].high \in Int /\ \A i \in DOMAIN history[u] : history[u][i].price \in Int
<1>1. stock[u] \in StockRow /\ history[u] \in Seq(Point)
  BY DEF Typed, TypeOK
<1>2. ASSUME NEW i \in DOMAIN history[u] PROVE history[u][i].price \in Int
  <2>1. history[u][i] \in Point
    BY <1>1
  <2> QED BY <2>1 DEF Point, Price
<1> QED
  BY <1>1, <1>2 DEF StockRow, Price

LEMMA RecordedSame ==
    ASSUME Recorded, UNCHANGED <<stock, history>>,
           \A u \in HasStock : Unlogged(u) => Unlogged(u)'
    PROVE  Recorded'
BY DEF Recorded, RecordedAt, Covered

(* A step that neither stores a price nor appends a point.                  *)
LEMMA RecordedQuiet ==
    ASSUME Recorded, Copies, UNCHANGED <<stock, history, torn>>, NEW s \in Slots, ~Appending(s),
           \A t \in Slots : t # s => call'[t] = call[t]
    PROVE  Recorded'
<1>1. \A u \in HasStock : Unlogged(u) => Unlogged(u)'
  BY DEF Unlogged, Appending
<1> QED
  BY <1>1, RecordedSame

LEMMA RecordedStoreStock ==
    ASSUME Recorded, Copies, NEW s \in Slots, StoreStock(s)
    PROVE  Recorded'
<1> SUFFICES ASSUME NEW v, v = call[s].user PROVE Recorded'
  OBVIOUS
<1>1. Typed /\ Pricing(s)
  BY DEF Copies, StoreStock, Pricing, Working
<1>2. v \in HasStock /\ call[s].stock \in StockRow /\ call[s].stock.high >= stock[v].high
  BY <1>1 DEF Typed, Shape, Copies, PriceCopy
<1>3. history' = history /\ torn' = torn /\ stock' = Put(stock, v, call[s].stock)
  BY DEF StoreStock
<1>4. /\ call'[s].pc = "append" /\ call'[s].user = v
      /\ \A t \in Slots : t # s => call'[t] = call[t]
  BY <1>1 DEF StoreStock, Typed, TypeOK, Call
<1>5. \A u \in HasStock : u # v => stock'[u] = stock[u] /\ (Unlogged(u) => Unlogged(u)')
  <2> SUFFICES ASSUME NEW u \in HasStock, u # v
               PROVE  stock'[u] = stock[u] /\ (Unlogged(u) => Unlogged(u)')
    OBVIOUS
  <2>1. stock'[u] = stock[u]
    BY <1>1, <1>3 DEF Put, Typed, TypeOK
  <2>2. ~Appending(s)
    BY DEF StoreStock, Appending
  <2>3. Unlogged(u) => Unlogged(u)'
    BY <1>3, <1>4, <2>2 DEF Unlogged, Appending
  <2> QED BY <2>1, <2>3
<1>6. Unlogged(v)'
  BY <1>4 DEF Unlogged, Appending
<1>7. stock'[v] = call[s].stock
  BY <1>3 DEF Put
<1>8. ASSUME NEW u \in HasStock
      PROVE  RecordedAt(u)'
  <2>1. RecordedAt(u) /\ history' = history
    BY <1>3 DEF Recorded
  <2>2. CASE u = v
    <3>1. ASSUME NEW i \in DOMAIN history[u], history[u][i].by # "stay boost"
          PROVE  stock'[u].high >= history[u][i].price
      <4>1. stock[u].high >= history[u][i].price
        BY <2>1, <3>1 DEF RecordedAt, Covered
      <4>2. history[u][i].price \in Int /\ stock[u].high \in Int
        BY <1>1, PricesInt
      <4>3. stock'[u].high \in Int /\ stock'[u].high >= stock[u].high
        BY <1>2, <1>7, <2>2 DEF StockRow, Price
      <4> QED BY <4>1, <4>2, <4>3
    <3>2. ASSUME NEW i \in DOMAIN history'[u], history'[u][i].by # "stay boost"
          PROVE  stock'[u].high >= history'[u][i].price
      BY <2>1, <3>1, <3>2
    <3>3. Covered(u)'
      BY <3>2 DEF Covered
    <3>4. Len(history'[u]) > 0
      BY <2>1 DEF RecordedAt
    <3> QED BY <1>6, <2>2, <3>3, <3>4 DEF RecordedAt
  <2>3. CASE u # v
    BY <1>5, <2>1, <2>3 DEF RecordedAt, Covered
  <2> QED BY <2>2, <2>3
<1> QED
  BY <1>8 DEF Recorded

LEMMA RecordedAppendPoint ==
    ASSUME Recorded, Copies, NEW s \in Slots, AppendPoint(s)
    PROVE  Recorded'
<1> SUFFICES ASSUME NEW v, v = call[s].user,
                    NEW point, point = [price |-> call[s].stock.price, by |-> call[s].kind]
             PROVE  Recorded'
  OBVIOUS
<1>1. Typed /\ Working(s) /\ Appending(s) /\ stock' = stock
  BY DEF Copies, AppendPoint, Working, Appending
<1>2. /\ v \in HasStock /\ point \in Point /\ history[v] \in Seq(Point)
      /\ history' = [history EXCEPT ![v] = Append(@, point)]
      /\ torn' = torn \ {v} /\ call[s].kind \in PriceKinds
  BY <1>1, AppendPointStep
<1>3. PriceCopy(s) /\ Pricing(s)
  BY <1>1, <1>2 DEF Copies, Pricing
<1>4. stock[v].price = point.price /\ (point.by # "stay boost" => stock[v].high >= point.price)
  BY <1>1, <1>3 DEF PriceCopy
<1>5. \A t \in Slots : t # s => call'[t] = call[t]
  BY <1>1, SectionsEnd
<1>6. \A u \in HasStock : u # v => history'[u] = history[u] /\ (Unlogged(u) => Unlogged(u)')
  <2> SUFFICES ASSUME NEW u \in HasStock, u # v
               PROVE  history'[u] = history[u] /\ (Unlogged(u) => Unlogged(u)')
    OBVIOUS
  <2>1. history'[u] = history[u]
    BY <1>1, <1>2 DEF Typed, TypeOK
  <2>2. Unlogged(u) => Unlogged(u)'
    BY <1>2, <1>5 DEF Unlogged, Appending
  <2> QED BY <2>1, <2>2
<1>7. history'[v] = Append(history[v], point)
  BY <1>1, <1>2 DEF Typed, TypeOK
<1>8. /\ Len(history'[v]) = Len(history[v]) + 1 /\ Len(history[v]) \in Nat
      /\ history'[v][Len(history'[v])] = point
      /\ DOMAIN history'[v] = DOMAIN history[v] \cup {Len(history'[v])}
      /\ \A i \in DOMAIN history[v] : history'[v][i] = history[v][i]
  BY <1>2, <1>7
<1>9. ASSUME NEW u \in HasStock
      PROVE  RecordedAt(u)'
  <2>1. RecordedAt(u) /\ stock'[u] = stock[u]
    BY <1>1 DEF Recorded
  <2>2. CASE u = v
    <3>1. history'[u][Len(history'[u])].price = stock'[u].price
      <4>1. history'[u][Len(history'[u])] = point
        BY <1>8, <2>2
      <4>2. stock'[u].price = point.price
        BY <1>4, <2>1, <2>2
      <4> QED BY <4>1, <4>2
    <3>3. Len(history'[u]) > 0
      BY <1>8, <2>2
    <3>2. ASSUME NEW i \in DOMAIN history'[u], history'[u][i].by # "stay boost"
          PROVE  stock'[u].high >= history'[u][i].price
      <4>1. CASE i \in DOMAIN history[v]
        BY <1>8, <2>1, <2>2, <3>2, <4>1 DEF RecordedAt, Covered
      <4>2. CASE i = Len(history'[v])
        BY <1>4, <1>8, <2>1, <2>2, <3>2, <4>2
      <4> QED BY <1>8, <2>2, <4>1, <4>2
    <3>4. Covered(u)'
      BY <3>2 DEF Covered
    <3> QED BY <3>1, <3>3, <3>4 DEF RecordedAt
  <2>3. CASE u # v
    BY <1>6, <2>1, <2>3 DEF RecordedAt, Covered
  <2> QED BY <2>2, <2>3
<1> QED
  BY <1>9 DEF Recorded

LEMMA RecordedFaults ==
    ASSUME Recorded, Copies, (\E s \in Slots : Fail(s)) \/ Restart
    PROVE  Recorded'
<1>1. ASSUME NEW s \in Slots, Fail(s)
      PROVE  Recorded'
  <2>1. \A t \in Slots : t # s => call'[t] = call[t]
    BY <1>1 DEF Fail, Copies, Typed, TypeOK
  <2>2. \A u \in HasStock : Unlogged(u) => Unlogged(u)'
    BY <1>1, <2>1 DEF Fail, Unlogged, Appending
  <2> QED BY <1>1, <2>2, RecordedSame DEF Fail
<1>2. CASE Restart
  <2>1. \A u \in HasStock : Unlogged(u) => Unlogged(u)'
    BY <1>2 DEF Restart, Unlogged
  <2> QED BY <1>2, <2>1, RecordedSame DEF Restart
<1> QED
  BY <1>1, <1>2

LEMMA RecordedInductive == Recorded /\ Copies /\ [Next]_vars => Recorded'
<1> SUFFICES ASSUME Recorded, Copies, [Next]_vars PROVE Recorded'
  OBVIOUS
<1>1. call \in [Slots -> Call]
  BY DEF Copies, Typed, TypeOK
<1>2. CASE Tick \/ UNCHANGED vars
  BY <1>2, RecordedSame DEF Tick, vars, Unlogged, Appending
<1>3. ASSUME NEW h \in Handlers, Discord(h) PROVE Recorded'
  <2>1. h \in Slots /\ ~Appending(h)
    BY <1>3 DEF Slots, Discord, Command, Disciplined, Begin, Gate, Appending
  <2>2. \A t \in Slots : t # h => call'[t] = call[t]
    BY <1>1, <1>3 DEF Discord, Command, Disciplined, Begin, Gate
  <2>3. UNCHANGED <<stock, history, torn>>
    BY <1>3 DEF Discord, Command, Disciplined, Begin, Gate
  <2> QED BY <2>1, <2>2, <2>3, RecordedQuiet
<1>4. ASSUME NEW s \in Sweeps, StartSweep(s) \/ List(s) PROVE Recorded'
  <2>1. s \in Slots /\ ~Appending(s)
    BY <1>4 DEF Slots, StartSweep, Begin, List, Appending
  <2>2. \A t \in Slots : t # s => call'[t] = call[t]
    BY <1>1, <1>4 DEF StartSweep, Begin, List
  <2>3. UNCHANGED <<stock, history, torn>>
    BY <1>4 DEF StartSweep, Begin, List
  <2> QED BY <2>1, <2>2, <2>3, RecordedQuiet
<1>5. ASSUME NEW s \in Slots, NEW u \in Members, ReadAccount(s, u) \/ ReadStock(s, u)
      PROVE  Recorded'
  <2>1. ~Appending(s) /\ UNCHANGED <<stock, history, torn>>
    BY <1>5 DEF ReadAccount, ReadStock, Appending
  <2>2. \A t \in Slots : t # s => call'[t] = call[t]
    BY <1>1, <1>5 DEF ReadAccount, ReadStock
  <2> QED BY <2>1, <2>2, RecordedQuiet
<1>6. ASSUME NEW s \in Slots, StoreAccount(s) PROVE Recorded'
  <2>1. ~Appending(s) /\ UNCHANGED <<stock, history, torn>>
    BY <1>6 DEF StoreAccount, Appending
  <2>2. \A t \in Slots : t # s => call'[t] = call[t]
    BY <1>1, <1>6 DEF StoreAccount
  <2> QED BY <2>1, <2>2, RecordedQuiet
<1>9. ASSUME NEW s \in Slots, DMForbidden(s) \/ Introduce(s) PROVE Recorded'
  <2>1. ~Appending(s) /\ UNCHANGED <<stock, history, torn>>
    BY <1>9 DEF DMForbidden, Introduce, Introducing, Appending
  <2>2. \A t \in Slots : t # s => call'[t] = call[t]
    BY <1>1, <1>9 DEF DMForbidden, Introduce
  <2> QED BY <2>1, <2>2, RecordedQuiet
<1>7. ASSUME NEW s \in Slots, StoreStock(s) \/ AppendPoint(s) PROVE Recorded'
  BY <1>7, RecordedStoreStock, RecordedAppendPoint
<1>8. CASE (\E s \in Slots : Fail(s)) \/ Restart
  BY <1>8, RecordedFaults
<1> QED
  BY <1>2, <1>3, <1>4, <1>5, <1>6, <1>7, <1>8, <1>9 DEF Next, Section

LEMMA RecordedInit == Init => Recorded
<1> SUFFICES ASSUME Init, NEW u \in HasStock PROVE RecordedAt(u)
  BY DEF Recorded
<1>1. /\ stock[u] = [price |-> InitialPrice, high |-> InitialPrice]
      /\ history[u] = <<[price |-> InitialPrice, by |-> "trade"]>>
  BY DEF Init
<1>2. InitialPrice >= InitialPrice
  BY Settings
<1>3. /\ Len(history[u]) = 1 /\ DOMAIN history[u] = {1}
      /\ history[u][1].price = InitialPrice
  BY <1>1
<1>4. stock[u].price = InitialPrice /\ stock[u].high = InitialPrice
  BY <1>1
<1>5. Covered(u)
  BY <1>2, <1>3, <1>4 DEF Covered
<1>6. history[u][Len(history[u])].price = stock[u].price
  BY <1>3, <1>4
<1>7. Len(history[u]) > 0
  BY <1>3
<1> QED
  BY <1>5, <1>6, <1>7 DEF RecordedAt

(* The last point of the history is the price of the stock, but for a stock *)
(* whose point was lost between its two transactions and not yet mended,    *)
(* and no point but those of the stay boosts is above the all-time high.    *)
THEOREM PricesLoggedHolds == Spec => []PricesLogged
<1>1. Recorded => PricesLogged
  BY DEF Recorded, RecordedAt, Covered, PricesLogged
<1> QED
  BY <1>1, RecordedInit, RecordedInductive, AlwaysCopies, PTL DEF Spec

-----------------------------------------------------------------------------
(* The cooldown: what it tells of the penalties it let pass. *)

Watched(i) ==
    /\ gates[i].at <= now /\ gates[i].restarts <= restarts
    /\ gates[i].restarts = restarts =>
         \/ cooldown[gates[i].key] >= gates[i].at + Cooldown
         \/ now >= gates[i].at + Cooldown

Apart(i, j) ==
    i < j /\ gates[i].key = gates[j].key /\ gates[i].restarts = gates[j].restarts
      => gates[j].at - gates[i].at >= Cooldown

Paced == /\ \A i \in DOMAIN gates : Watched(i)
         /\ \A i, j \in DOMAIN gates : Apart(i, j)

LEMMA GateTypes ==
    ASSUME Typed, NEW i \in DOMAIN gates
    PROVE  /\ gates[i].at \in Nat /\ gates[i].restarts \in Nat /\ gates[i].key \in Keys
           /\ cooldown[gates[i].key] \in Nat /\ now \in Nat /\ restarts \in Nat
<1>1. gates \in Seq(Passed) /\ cooldown \in [Keys -> Nat] /\ now \in Nat /\ restarts \in Nat
  BY DEF Typed, TypeOK
<1>2. gates[i] \in Passed
  BY <1>1
<1> QED
  BY <1>1, <1>2 DEF Passed

(* Time only makes room. *)
LEMMA PacedLater ==
    ASSUME Typed, Paced, gates' = gates,
           \/ now' = now /\ restarts' = restarts /\ cooldown' = cooldown
           \/ now' = now + 1 /\ restarts' = restarts /\ cooldown' = cooldown
           \/ now' = now /\ restarts' = restarts + 1
    PROVE  Paced'
<1>1. ASSUME NEW i \in DOMAIN gates PROVE Watched(i)'
  <2>1. Watched(i)
    BY DEF Paced
  <2>2. /\ gates[i].at \in Nat /\ gates[i].restarts \in Nat
        /\ cooldown[gates[i].key] \in Nat /\ now \in Nat /\ restarts \in Nat /\ Cooldown \in Nat
    BY GateTypes, Settings
  <2>3. now' >= now /\ restarts' >= restarts
    BY <2>2
  <2>4. CASE restarts' = restarts /\ cooldown' = cooldown
    BY <2>1, <2>2, <2>3, <2>4 DEF Watched
  <2>5. CASE restarts' = restarts + 1 /\ now' = now
    BY <2>1, <2>2, <2>5 DEF Watched
  <2> QED BY <2>4, <2>5
<1>2. \A i, j \in DOMAIN gates : Apart(i, j)'
  BY DEF Paced, Apart
<1> QED
  BY <1>1, <1>2 DEF Paced

LEMMA GateChoice ==
    ASSUME NEW h \in Handlers, NEW actor \in Moderators \cup {Unknown}, Gate(h, actor)
    PROVE  \E u, active, gate :
             /\ u \in call[h].todo
             /\ active = [k \in Keys |-> IF cooldown[k] > now THEN cooldown[k] ELSE 0]
             /\ gate = [key |-> <<u, actor>>, at |-> now, restarts |-> restarts]
             /\ \/ cooldown' = active /\ call' = [call EXCEPT ![h] = Idle] /\ gates' = gates
                \/ /\ ~(active[<<u, actor>>] > now)
                   /\ cooldown' = [active EXCEPT ![<<u, actor>>] = now + Cooldown]
                   /\ call' = [call EXCEPT ![h].pc = "next", ![h].at = now]
                   /\ gates' = Append(gates, gate)
BY DEF Gate

LEMMA PacedGate ==
    ASSUME Typed, Paced, NEW h \in Handlers, NEW actor \in Moderators \cup {Unknown},
           Gate(h, actor)
    PROVE  Paced'
<1>1. PICK u, active, gate :
             /\ u \in call[h].todo
             /\ active = [k \in Keys |-> IF cooldown[k] > now THEN cooldown[k] ELSE 0]
             /\ gate = [key |-> <<u, actor>>, at |-> now, restarts |-> restarts]
             /\ \/ cooldown' = active /\ call' = [call EXCEPT ![h] = Idle] /\ gates' = gates
                \/ /\ ~(active[<<u, actor>>] > now)
                   /\ cooldown' = [active EXCEPT ![<<u, actor>>] = now + Cooldown]
                   /\ call' = [call EXCEPT ![h].pc = "next", ![h].at = now]
                   /\ gates' = Append(gates, gate)
  BY GateChoice
<1>2. /\ now' = now /\ restarts' = restarts /\ now \in Nat /\ restarts \in Nat
      /\ gates \in Seq(Passed) /\ cooldown \in [Keys -> Nat] /\ Cooldown \in Nat
  BY Settings DEF Gate, Typed, TypeOK
<1>3. u \in Members /\ <<u, actor>> \in Keys
  BY <1>1 DEF Slots, Typed, TypeOK, Call, Keys
<1>4. active \in [Keys -> Nat]
  BY <1>1, <1>2
<1>5. ASSUME NEW i \in DOMAIN gates
      PROVE  gates[i].restarts = restarts =>
               \/ active[gates[i].key] >= gates[i].at + Cooldown
               \/ now >= gates[i].at + Cooldown
  <2>1. Watched(i)
    BY DEF Paced
  <2>2. /\ gates[i].at \in Nat /\ gates[i].key \in Keys /\ cooldown[gates[i].key] \in Nat
    BY GateTypes
  <2>3. active[gates[i].key] = IF cooldown[gates[i].key] > now THEN cooldown[gates[i].key] ELSE 0
    BY <1>1, <2>2
  <2> QED BY <1>2, <2>1, <2>2, <2>3 DEF Watched
<1>6. CASE cooldown' = active /\ gates' = gates
  <2>1. \A i \in DOMAIN gates : Watched(i)'
    BY <1>2, <1>5, <1>6 DEF Paced, Watched
  <2> QED BY <1>6, <2>1 DEF Paced, Apart
<1>7. CASE /\ ~(active[<<u, actor>>] > now)
           /\ cooldown' = [active EXCEPT ![<<u, actor>>] = now + Cooldown]
           /\ gates' = Append(gates, gate)
  <2> SUFFICES ASSUME NEW n, n = Len(gates) + 1 PROVE Paced'
    OBVIOUS
  <2>1. gate \in Passed /\ gate.at = now /\ gate.restarts = restarts /\ gate.key = <<u, actor>>
    BY <1>1, <1>2, <1>3 DEF Passed
  <2>2. /\ DOMAIN gates' = DOMAIN gates \cup {n} /\ gates'[n] = gate
        /\ DOMAIN gates = 1..Len(gates) /\ Len(gates) \in Nat
        /\ \A i \in DOMAIN gates : gates'[i] = gates[i]
    BY <1>2, <1>7, <2>1
  <2>3. cooldown'[<<u, actor>>] = now + Cooldown
    BY <1>3, <1>4, <1>7
  <2>4. \A k \in Keys : cooldown'[k] >= active[k]
    <3> SUFFICES ASSUME NEW k \in Keys PROVE cooldown'[k] >= active[k]
      OBVIOUS
    <3>1. active[k] \in Nat /\ active[<<u, actor>>] \in Nat
      BY <1>3, <1>4
    <3>2. CASE k = <<u, actor>>
      BY <1>2, <1>7, <2>3, <3>1, <3>2
    <3>3. CASE k # <<u, actor>>
      <4>1. cooldown'[k] = active[k]
        BY <1>4, <1>7, <3>3
      <4> QED BY <3>1, <4>1
    <3> QED BY <3>2, <3>3
  <2>5. ASSUME NEW i \in DOMAIN gates PROVE Watched(i)'
    <3>1. Watched(i)
      BY DEF Paced
    <3>2. gates[i].at \in Nat /\ gates[i].key \in Keys /\ active[gates[i].key] \in Nat
      BY <1>4, GateTypes
    <3>3. cooldown'[gates[i].key] \in Nat /\ cooldown'[gates[i].key] >= active[gates[i].key]
      <4>1. now + Cooldown \in Nat
        BY <1>2
      <4>2. cooldown' \in [Keys -> Nat]
        BY <1>4, <1>7, <4>1
      <4> QED BY <2>4, <3>2, <4>2
    <3> QED BY <1>2, <1>5, <2>2, <3>1, <3>2, <3>3 DEF Watched
  <2>6. Watched(n)'
    BY <1>2, <2>1, <2>2, <2>3 DEF Watched
  <2>7. ASSUME NEW i \in DOMAIN gates PROVE Apart(i, n)'
    <3>1. ASSUME gates[i].key = <<u, actor>>, gates[i].restarts = restarts
          PROVE  now - gates[i].at >= Cooldown
      <4>1. gates[i].at \in Nat /\ active[gates[i].key] \in Nat
        BY <1>4, GateTypes
      <4>2. ~(active[gates[i].key] > now)
        BY <1>7, <3>1
      <4>3. \/ active[gates[i].key] >= gates[i].at + Cooldown
            \/ now >= gates[i].at + Cooldown
        BY <1>5, <3>1
      <4>4. active[gates[i].key] <= now
        BY <1>2, <4>1, <4>2
      <4>5. now >= gates[i].at + Cooldown
        BY <1>2, <4>1, <4>3, <4>4
      <4> QED BY <1>2, <4>1, <4>5
    <3> QED BY <2>1, <2>2, <3>1 DEF Apart
  <2>8. ASSUME NEW i \in DOMAIN gates' PROVE Apart(n, i)'
    <3>1. ~(n < i)
      BY <2>2
    <3> QED BY <3>1 DEF Apart
  <2>9. ASSUME NEW i \in DOMAIN gates, NEW j \in DOMAIN gates PROVE Apart(i, j)'
    BY <2>2 DEF Paced, Apart
  <2>10. \A i \in DOMAIN gates' : Watched(i)'
    BY <2>2, <2>5, <2>6
  <2>11. \A i, j \in DOMAIN gates' : Apart(i, j)'
    BY <2>2, <2>7, <2>8, <2>9
  <2> QED BY <2>10, <2>11 DEF Paced
<1> QED
  BY <1>1, <1>6, <1>7

LEMMA PacedInductive == Typed /\ Paced /\ [Next]_vars => Paced'
<1> SUFFICES ASSUME Typed, Paced, [Next]_vars PROVE Paced'
  OBVIOUS
<1>1. ASSUME NEW h \in Handlers, NEW actor \in Moderators \cup {Unknown}, Gate(h, actor)
      PROVE  Paced'
  BY <1>1, PacedGate
<1>2. CASE Tick
  BY <1>2, PacedLater DEF Tick
<1>3. CASE Restart
  BY <1>3, PacedLater DEF Restart
<1>4. UNCHANGED <<gates, now, restarts, cooldown>> => Paced'
  BY PacedLater
<1>5. ASSUME NEW h \in Handlers, Discord(h) PROVE Paced'
  <2>1. ASSUME NEW c \in Commands, Command(h, c) \/ Disciplined(h, c)
        PROVE  UNCHANGED <<gates, now, restarts, cooldown>>
    BY <2>1 DEF Command, Disciplined, Begin
  <2> QED BY <1>1, <1>4, <1>5, <2>1 DEF Discord
<1>6. ASSUME NEW s \in Sweeps, StartSweep(s) \/ List(s) PROVE Paced'
  BY <1>4, <1>6 DEF StartSweep, Begin, List
<1>7. ASSUME NEW s \in Slots, Section(s) PROVE Paced'
  <2>1. ASSUME NEW u \in Members, ReadAccount(s, u) \/ ReadStock(s, u)
        PROVE  UNCHANGED <<gates, now, restarts, cooldown>>
    BY <2>1 DEF ReadAccount, ReadStock
  <2>2. StoreAccount(s) \/ DMForbidden(s) \/ Introduce(s) \/ StoreStock(s) \/ AppendPoint(s)
          => UNCHANGED <<gates, now, restarts, cooldown>>
    BY DEF StoreAccount, DMForbidden, Introduce, StoreStock, AppendPoint
  <2> QED BY <1>4, <1>7, <2>1, <2>2 DEF Section
<1>8. ASSUME NEW s \in Slots, Fail(s) PROVE Paced'
  BY <1>4, <1>8 DEF Fail
<1>9. CASE UNCHANGED vars
  BY <1>4, <1>9 DEF vars
<1> QED
  BY <1>2, <1>3, <1>5, <1>6, <1>7, <1>8, <1>9 DEF Next

-----------------------------------------------------------------------------
(* A penalty is of one member, and once its section begins there is no      *)
(* other to come.                                                           *)
Lone(c) ==
    c.kind = "penalty" =>
      /\ c.pc # "list"
      /\ \A u, v \in c.todo : u = v
      /\ c.pc \in {"store", "append"} => c.todo = {}

(* A penalty for u that passed the cooldown and has yet to move the price.  *)
Pends(c, u) ==
    /\ c.kind = "penalty"
    /\ \/ c.pc = "next" /\ u \in c.todo
       \/ c.pc \in {"store", "append"} /\ c.user = u

Loners == \A s \in Slots : Lone(call[s])
Pending(u) == {s \in Slots : Pends(call[s], u)}

(* A step of one slot that makes no penalty pend.                           *)
Calms(s, new) == /\ call' = [call EXCEPT ![s] = new]
                 /\ Lone(call[s]) => Lone(new)
                 /\ Lone(call[s]) => \A u \in Members : Pends(new, u) => Pends(call[s], u)

LEMMA IdleCalm == Lone(Idle) /\ \A u \in Members : ~Pends(Idle, u)
BY DEF Lone, Pends, Idle

LEMMA AfterCalm ==
    ASSUME NEW c \in Call
    PROVE  After(c) = Idle \/ (/\ After(c).kind = c.kind /\ After(c).todo = c.todo
                              /\ After(c).pc = "next" /\ c.todo # {})
BY DEF After, Call

LEMMA CalmStep ==
    ASSUME Typed, Loners, NEW s \in Slots, NEW new, Calms(s, new)
    PROVE  Loners' /\ \A u \in Members : Pending(u)' \subseteq Pending(u)
<1>1. call'[s] = new /\ \A t \in Slots : t # s => call'[t] = call[t]
  BY DEF Calms, Typed, TypeOK
<1>2. Lone(new) /\ \A u \in Members : Pends(new, u) => Pends(call[s], u)
  BY DEF Calms, Loners
<1>3. Loners'
  <2> SUFFICES ASSUME NEW t \in Slots PROVE Lone(call'[t])
    BY DEF Loners
  <2>1. CASE t = s
    BY <1>1, <1>2, <2>1
  <2>2. CASE t # s
    BY <1>1, <2>2 DEF Loners
  <2> QED BY <2>1, <2>2
<1>4. ASSUME NEW u \in Members PROVE Pending(u)' \subseteq Pending(u)
  <2> SUFFICES ASSUME NEW t \in Slots, Pends(call'[t], u) PROVE Pends(call[t], u)
    BY DEF Pending
  <2>1. CASE t = s
    BY <1>1, <1>2, <2>1
  <2>2. CASE t # s
    BY <1>1, <2>2
  <2> QED BY <2>1, <2>2
<1> QED
  BY <1>3, <1>4

LEMMA ReadsCalm ==
    ASSUME Typed, NEW s \in Slots, NEW u \in Members, ReadAccount(s, u) \/ ReadStock(s, u)
    PROVE  \E new : Calms(s, new)
<1> SUFFICES ASSUME NEW c, c = [call[s] EXCEPT !.todo = @ \ {u}, !.user = u]
             PROVE  \E new : Calms(s, new)
  OBVIOUS
<1>1. /\ call[s] \in Call /\ call[s].pc = "next" /\ u \in call[s].todo
  BY DEF ReadAccount, ReadStock, Typed, TypeOK
<1>2. /\ c \in Call /\ c.kind = call[s].kind /\ c.todo = call[s].todo \ {u} /\ c.user = u
  BY <1>1 DEF Call
<1>3. \E a, b, d : \/ call' = [call EXCEPT ![s] = After(c)]
                   \/ call' = [call EXCEPT ![s] = [c EXCEPT !.pc = "store", !.account = a, !.shows = b]]
                   \/ call' = [call EXCEPT ![s] = [c EXCEPT !.pc = "store", !.stock = d]]
  <2>1. CASE ReadAccount(s, u)
    <3> DEFINE a == Changed(c.kind, Account(u), c.at)
               b == c.kind = "opt in" /\ ShowsIntro(Account(u))
    <3>1. \/ call' = [call EXCEPT ![s] = After(c)]
          \/ call' = [call EXCEPT ![s] = [c EXCEPT !.pc = "store", !.account = a, !.shows = b]]
      BY <2>1 DEF ReadAccount
    <3> HIDE DEF a, b
    <3> QED BY <3>1
  <2>2. CASE ReadStock(s, u)
    <3> DEFINE d == Repriced(c.kind, stock[u], NewPrice(c.kind, stock[u].price, c.points[u]))
    <3>1. \/ call' = [call EXCEPT ![s] = After(c)]
          \/ call' = [call EXCEPT ![s] = [c EXCEPT !.pc = "store", !.stock = d]]
      BY <2>2 DEF ReadStock
    <3> HIDE DEF d
    <3> QED BY <3>1
  <2> QED BY <2>1, <2>2
<1>4. PICK new : /\ call' = [call EXCEPT ![s] = new]
                 /\ \/ new = Idle
                    \/ /\ new.kind = call[s].kind /\ new.todo = call[s].todo \ {u}
                       /\ \/ new.pc = "next" /\ new.todo # {}
                          \/ new.pc = "store" /\ new.user = u
  <2>1. PICK a, b, d : \/ call' = [call EXCEPT ![s] = After(c)]
                       \/ call' = [call EXCEPT ![s] = [c EXCEPT !.pc = "store", !.account = a, !.shows = b]]
                       \/ call' = [call EXCEPT ![s] = [c EXCEPT !.pc = "store", !.stock = d]]
    BY <1>3
  <2>2. CASE call' = [call EXCEPT ![s] = After(c)]
    <3>1. PICK new : new = After(c)
      OBVIOUS
    <3>2. \/ new = Idle
          \/ new.kind = c.kind /\ new.todo = c.todo /\ new.pc = "next" /\ c.todo # {}
      BY <1>2, <3>1, AfterCalm
    <3>3. call' = [call EXCEPT ![s] = new]
      BY <2>2, <3>1
    <3> QED BY <1>2, <3>2, <3>3
  <2>3. CASE call' = [call EXCEPT ![s] = [c EXCEPT !.pc = "store", !.account = a, !.shows = b]]
    <3> DEFINE new == [c EXCEPT !.pc = "store", !.account = a, !.shows = b]
    <3>1. new.kind = c.kind /\ new.todo = c.todo /\ new.pc = "store" /\ new.user = c.user
      BY <1>2 DEF Call
    <3> HIDE DEF new
    <3>2. call' = [call EXCEPT ![s] = new]
      BY <2>3 DEF new
    <3> QED BY <1>2, <3>1, <3>2
  <2>4. CASE call' = [call EXCEPT ![s] = [c EXCEPT !.pc = "store", !.stock = d]]
    <3> DEFINE new == [c EXCEPT !.pc = "store", !.stock = d]
    <3>1. new.kind = c.kind /\ new.todo = c.todo /\ new.pc = "store" /\ new.user = c.user
      BY <1>2 DEF Call
    <3> HIDE DEF new
    <3>2. call' = [call EXCEPT ![s] = new]
      BY <2>4 DEF new
    <3> QED BY <1>2, <3>1, <3>2
  <2> QED BY <2>1, <2>2, <2>3, <2>4
<1>5. CASE new = Idle
  BY <1>4, <1>5, IdleCalm DEF Calms
<1>6. CASE new # Idle
  <2>1. Lone(call[s]) => Lone(new)
    BY <1>1, <1>4, <1>6 DEF Lone
  <2>2. ASSUME Lone(call[s]), NEW v \in Members, Pends(new, v) PROVE Pends(call[s], v)
    BY <1>1, <1>4, <1>6, <2>2 DEF Lone, Pends
  <2> QED BY <1>4, <2>1, <2>2 DEF Calms
<1> QED
  BY <1>5, <1>6

LEMMA StoresCalm ==
    ASSUME Typed, NEW s \in Slots,
           StoreAccount(s) \/ DMForbidden(s) \/ Introduce(s) \/ StoreStock(s)
    PROVE  \E new : Calms(s, new)
<1>1. call[s] \in Call
  BY DEF Typed, TypeOK
<1>2. CASE StoreAccount(s) \/ DMForbidden(s) \/ Introduce(s)
  <2>1. PICK new \in Call : call' = [call EXCEPT ![s] = new] /\ new.kind # "penalty"
    BY <1>2, StoreAccountStep, SendStep DEF Stored, Sent
  <2>2. Lone(new) /\ \A u \in Members : ~Pends(new, u)
    BY <2>1 DEF Lone, Pends
  <2> QED BY <2>1, <2>2 DEF Calms
<1>3. CASE StoreStock(s)
  <2>5. call[s].pc = "store"
    BY <1>3 DEF StoreStock
  <2> DEFINE new == [call[s] EXCEPT !.pc = "append"]
  <2>1. call' = [call EXCEPT ![s] = new]
    BY <1>3 DEF StoreStock
  <2>2. /\ new.pc = "append" /\ new.kind = call[s].kind /\ new.todo = call[s].todo
        /\ new.user = call[s].user
    BY <1>1 DEF Call
  <2> HIDE DEF new
  <2>3. Lone(call[s]) => Lone(new)
    BY <2>2, <2>5 DEF Lone
  <2>4. \A u \in Members : Pends(new, u) => Pends(call[s], u)
    BY <2>2, <2>5 DEF Pends
  <2> QED BY <2>1, <2>3, <2>4 DEF Calms
<1> QED
  BY <1>2, <1>3

LEMMA BeginsCalm ==
    ASSUME NEW s \in Slots, NEW new, Begin(s, new), Lone(new), \A u \in Members : ~Pends(new, u)
    PROVE  \E c : Calms(s, c)
BY DEF Begin, Calms

LEMMA CommandsCalm ==
    ASSUME Typed, NEW h \in Handlers, NEW c \in Commands, Command(h, c) \/ Disciplined(h, c)
    PROVE  h \in Slots /\ \E new : Calms(h, new)
<1>1. h \in Slots
  BY DEF Slots
<1> DEFINE command == [Idle EXCEPT !.kind = c[1], !.pc = "next", !.todo = {c[2]}, !.at = now]
           event == [Idle EXCEPT !.kind = "penalty", !.pc = "resolve", !.todo = {c[2]}]
<1>2. /\ command.kind = c[1] /\ command.pc = "next"
      /\ event.kind = "penalty" /\ event.pc = "resolve" /\ event.todo = {c[2]}
  BY DEF Idle
<1>3. CASE Command(h, c)
  <2>1. c[1] # "penalty" /\ Begin(h, command)
    BY <1>3 DEF Command
  <2> HIDE DEF command
  <2>2. Lone(command) /\ \A u \in Members : ~Pends(command, u)
    BY <1>2, <2>1 DEF Lone, Pends
  <2> QED BY <1>1, <2>1, <2>2, BeginsCalm
<1>4. CASE Disciplined(h, c)
  <2>1. Begin(h, event)
    BY <1>4 DEF Disciplined
  <2> HIDE DEF event
  <2>2. Lone(event) /\ \A u \in Members : ~Pends(event, u)
    BY <1>2 DEF Lone, Pends
  <2> QED BY <1>1, <2>1, <2>2, BeginsCalm
<1> QED
  BY <1>3, <1>4

LEMMA SweepsCalm ==
    ASSUME Typed, NEW s \in Sweeps, StartSweep(s) \/ List(s)
    PROVE  s \in Slots /\ \E new : Calms(s, new)
<1>1. s \in Slots /\ s # "penalty" /\ call[s] \in Call
  BY DEF Slots, Sweeps, Typed, TypeOK
<1>2. CASE StartSweep(s)
  <2> DEFINE new == [Idle EXCEPT !.kind = s, !.pc = "list", !.at = now]
  <2>1. new.kind = s /\ Begin(s, new)
    BY <1>2 DEF Idle, StartSweep
  <2> HIDE DEF new
  <2>2. Lone(new) /\ \A u \in Members : ~Pends(new, u)
    BY <1>1, <2>1 DEF Lone, Pends
  <2> QED BY <1>1, <2>1, <2>2, BeginsCalm
<1>3. CASE List(s)
  <2>1. PICK todo, points :
          call' = [call EXCEPT ![s] =
                     IF todo = {} THEN Idle
                     ELSE [call[s] EXCEPT !.pc = "next", !.todo = todo, !.points = points]]
    BY <1>3, Zenon DEF List
  <2>2. call[s].pc = "list"
    BY <1>3 DEF List
  <2>3. CASE todo = {}
    BY <1>1, <2>1, <2>3, IdleCalm DEF Calms
  <2>4. CASE todo # {}
    <3> DEFINE new == [call[s] EXCEPT !.pc = "next", !.todo = todo, !.points = points]
    <3>1. new.kind = call[s].kind
      BY <1>1 DEF Call
    <3>2. call' = [call EXCEPT ![s] = new]
      BY <2>1, <2>4
    <3> HIDE DEF new
    <3>3. Lone(call[s]) => new.kind # "penalty"
      BY <2>2, <3>1 DEF Lone
    <3>4. Lone(call[s]) => Lone(new) /\ \A u \in Members : ~Pends(new, u)
      BY <3>3 DEF Lone, Pends
    <3> QED BY <1>1, <3>2, <3>4 DEF Calms
  <2> QED BY <2>3, <2>4
<1> QED
  BY <1>2, <1>3

(* Every step but a passed gate and an appended point is calm.              *)
LEMMA MostStepsCalm ==
    ASSUME Typed, Loners, [Next]_vars,
           \A h \in Handlers, a \in Moderators \cup {Unknown} : ~Gate(h, a),
           \A s \in Slots : ~AppendPoint(s)
    PROVE  /\ Loners' /\ \A u \in Members : Pending(u)' \subseteq Pending(u)
           /\ UNCHANGED <<gates, history>>
<1>1. CASE Tick \/ UNCHANGED vars
  BY <1>1 DEF Tick, vars, Loners, Pending
<1>2. ASSUME NEW h \in Handlers, Discord(h)
      PROVE  /\ Loners' /\ \A u \in Members : Pending(u)' \subseteq Pending(u)
             /\ UNCHANGED <<gates, history>>
  <2>1. PICK c \in Commands : Command(h, c) \/ Disciplined(h, c)
    BY <1>2 DEF Discord
  <2>2. UNCHANGED <<gates, history>>
    BY <2>1 DEF Command, Disciplined, Begin
  <2> QED BY <2>1, <2>2, CommandsCalm, CalmStep
<1>3. ASSUME NEW s \in Sweeps, StartSweep(s) \/ List(s)
      PROVE  /\ Loners' /\ \A u \in Members : Pending(u)' \subseteq Pending(u)
             /\ UNCHANGED <<gates, history>>
  <2>1. UNCHANGED <<gates, history>>
    BY <1>3 DEF StartSweep, List, Begin
  <2> QED BY <1>3, <2>1, SweepsCalm, CalmStep
<1>4. ASSUME NEW s \in Slots, Section(s)
      PROVE  /\ Loners' /\ \A u \in Members : Pending(u)' \subseteq Pending(u)
             /\ UNCHANGED <<gates, history>>
  <2>1. ASSUME NEW u \in Members, ReadAccount(s, u) \/ ReadStock(s, u)
        PROVE  (\E new : Calms(s, new)) /\ UNCHANGED <<gates, history>>
    BY <2>1, ReadsCalm DEF ReadAccount, ReadStock
  <2>2. ASSUME StoreAccount(s) \/ DMForbidden(s) \/ Introduce(s) \/ StoreStock(s)
        PROVE  (\E new : Calms(s, new)) /\ UNCHANGED <<gates, history>>
    BY <2>2, StoresCalm DEF StoreAccount, DMForbidden, Introduce, StoreStock
  <2> QED BY <1>4, <2>1, <2>2, CalmStep DEF Section
<1>5. ASSUME NEW s \in Slots, Fail(s)
      PROVE  /\ Loners' /\ \A u \in Members : Pending(u)' \subseteq Pending(u)
             /\ UNCHANGED <<gates, history>>
  <2>1. Calms(s, Idle) /\ UNCHANGED <<gates, history>>
    BY <1>5, IdleCalm DEF Fail, Calms
  <2> QED BY <2>1, CalmStep
<1>6. CASE Restart
  <2>1. \A s \in Slots : call'[s] = Idle
    BY <1>6 DEF Restart
  <2>2. Loners' /\ \A u \in Members : Pending(u)' = {}
    BY <2>1, IdleCalm DEF Loners, Pending
  <2> QED BY <1>6, <2>2 DEF Restart
<1> QED
  BY <1>1, <1>2, <1>3, <1>4, <1>5, <1>6 DEF Next

-----------------------------------------------------------------------------
(* The penalties that pend and those that moved the price are paid for by   *)
(* the gates that were passed.                                              *)
Owed(u) == Cardinality(PenaltyPoints(u)) + Cardinality(Pending(u)) <= Cardinality(GatesOf(u))

LEMMA Finite ==
    ASSUME Typed
    PROVE  /\ \A u : IsFiniteSet(GatesOf(u)) /\ IsFiniteSet(Pending(u))
           /\ \A u \in HasStock : IsFiniteSet(PenaltyPoints(u))
<1>1. IsFiniteSet(Sweeps)
  <2>1. /\ IsFiniteSet({}) /\ IsFiniteSet({} \cup {"activity tick"})
        /\ IsFiniteSet(({} \cup {"activity tick"}) \cup {"inactivity decay"})
        /\ IsFiniteSet((({} \cup {"activity tick"}) \cup {"inactivity decay"}) \cup {"daily reset"})
        /\ IsFiniteSet(((({} \cup {"activity tick"}) \cup {"inactivity decay"}) \cup {"daily reset"})
                         \cup {"weekly reset"})
    BY FS_EmptySet, FS_AddElement
  <2>2. Sweeps = ((({} \cup {"activity tick"}) \cup {"inactivity decay"}) \cup {"daily reset"})
                  \cup {"weekly reset"}
    BY DEF Sweeps
  <2> QED BY <2>1, <2>2
<1>2. IsFiniteSet(Slots)
  BY <1>1, FS_Union, CommunityAssumption DEF Slots
<1>3. ASSUME NEW u PROVE IsFiniteSet(Pending(u))
  BY <1>2, FS_Subset DEF Pending
<1>4. ASSUME NEW u PROVE IsFiniteSet(GatesOf(u))
  <2>1. gates \in Seq(Passed)
    BY DEF Typed, TypeOK
  <2>2. DOMAIN gates = 1..Len(gates) /\ Len(gates) \in Nat
    BY <2>1
  <2>3. IsFiniteSet(DOMAIN gates)
    BY <2>2, FS_Interval
  <2> QED BY <2>3, FS_Subset DEF GatesOf
<1>5. ASSUME NEW u \in HasStock PROVE IsFiniteSet(PenaltyPoints(u))
  <2>1. history[u] \in Seq(Point)
    BY DEF Typed, TypeOK
  <2>2. DOMAIN history[u] = 1..Len(history[u]) /\ Len(history[u]) \in Nat
    BY <2>1
  <2>3. IsFiniteSet(DOMAIN history[u])
    BY <2>2, FS_Interval
  <2> QED BY <2>3, FS_Subset DEF PenaltyPoints
<1> QED
  BY <1>3, <1>4, <1>5

LEMMA Counts ==
    ASSUME Typed, NEW u \in HasStock
    PROVE  /\ Cardinality(PenaltyPoints(u)) \in Nat /\ Cardinality(Pending(u)) \in Nat
           /\ Cardinality(GatesOf(u)) \in Nat
BY Finite, FS_CardinalityType

LEMMA OwedCalm ==
    ASSUME Typed, Typed', NEW u \in HasStock, Owed(u), UNCHANGED <<gates, history>>,
           Pending(u)' \subseteq Pending(u)
    PROVE  Owed(u)'
<1>1. Cardinality(Pending(u)') <= Cardinality(Pending(u)) /\ Cardinality(Pending(u)') \in Nat
  BY Finite, FS_Subset, FS_CardinalityType
<1>2. PenaltyPoints(u)' = PenaltyPoints(u) /\ GatesOf(u)' = GatesOf(u)
  BY DEF PenaltyPoints, GatesOf
<1> QED
  BY <1>1, <1>2, Counts DEF Owed

LEMMA OwedGate ==
    ASSUME Typed, Typed', Loners, NEW h \in Handlers, NEW actor \in Moderators \cup {Unknown},
           Gate(h, actor), \A u \in HasStock : Owed(u)
    PROVE  Loners' /\ \A u \in HasStock : Owed(u)'
<1>1. PICK u, active, gate :
             /\ u \in call[h].todo
             /\ active = [k \in Keys |-> IF cooldown[k] > now THEN cooldown[k] ELSE 0]
             /\ gate = [key |-> <<u, actor>>, at |-> now, restarts |-> restarts]
             /\ \/ cooldown' = active /\ call' = [call EXCEPT ![h] = Idle] /\ gates' = gates
                \/ /\ ~(active[<<u, actor>>] > now)
                   /\ cooldown' = [active EXCEPT ![<<u, actor>>] = now + Cooldown]
                   /\ call' = [call EXCEPT ![h].pc = "next", ![h].at = now]
                   /\ gates' = Append(gates, gate)
  BY GateChoice
<1>2. /\ h \in Slots /\ call \in [Slots -> Call] /\ call[h] \in Call /\ history' = history
      /\ Lone(call[h]) /\ HasStock \subseteq Members
  BY CommunityAssumption DEF Slots, Typed, TypeOK, Gate, Loners
<1>3. CASE call' = [call EXCEPT ![h] = Idle] /\ gates' = gates
  <2>1. Calms(h, Idle)
    BY <1>3, IdleCalm DEF Calms
  <2> QED BY <1>2, <1>3, <2>1, CalmStep, OwedCalm
<1>4. CASE /\ call' = [call EXCEPT ![h].pc = "next", ![h].at = now]
           /\ gates' = Append(gates, gate)
  <2> SUFFICES ASSUME NEW passed, passed = [call[h] EXCEPT !.pc = "next", !.at = now],
                      NEW n, n = Len(gates) + 1
               PROVE  Loners' /\ \A v \in HasStock : Owed(v)'
    OBVIOUS
  <2>1. /\ passed.kind = call[h].kind /\ passed.todo = call[h].todo /\ passed.pc = "next"
        /\ call'[h] = passed /\ \A t \in Slots : t # h => call'[t] = call[t]
    BY <1>2, <1>4 DEF Call
  <2>2. Lone(passed) /\ \A v : Pends(passed, v) => v = u
    <3>1. u \in call[h].todo
      BY <1>1
    <3> QED BY <1>2, <2>1, <3>1 DEF Lone, Pends
  <2>3. Loners'
    <3> SUFFICES ASSUME NEW t \in Slots PROVE Lone(call'[t])
      BY DEF Loners
    <3>1. CASE t = h
      BY <2>1, <2>2, <3>1
    <3>2. CASE t # h
      BY <2>1, <3>2 DEF Loners
    <3> QED BY <3>1, <3>2
  <2>4. ASSUME NEW v PROVE Pending(v)' \subseteq Pending(v) \cup (IF v = u THEN {h} ELSE {})
    <3> SUFFICES ASSUME NEW t \in Slots, Pends(call'[t], v)
                 PROVE  Pends(call[t], v) \/ (v = u /\ t = h)
      BY DEF Pending
    <3>1. CASE t = h
      BY <2>1, <2>2, <3>1
    <3>2. CASE t # h
      BY <2>1, <3>2
    <3> QED BY <3>1, <3>2
  <2>5. /\ gates \in Seq(Passed) /\ gate \in Passed /\ gate.key[1] = u
    <3>1. gates \in Seq(Passed) /\ now \in Nat /\ restarts \in Nat /\ u \in Members
      BY <1>1, <1>2 DEF Typed, TypeOK, Call
    <3>2. <<u, actor>> \in Keys
      BY <3>1 DEF Keys
    <3> QED BY <1>1, <3>1, <3>2 DEF Passed
  <2>6. /\ DOMAIN gates' = DOMAIN gates \cup {n} /\ gates'[n] = gate /\ n \notin DOMAIN gates
        /\ \A i \in DOMAIN gates : gates'[i] = gates[i]
    BY <1>4, <2>5
  <2>7. ASSUME NEW v PROVE GatesOf(v)' = GatesOf(v) \cup (IF v = u THEN {n} ELSE {})
    BY <2>5, <2>6 DEF GatesOf
  <2>8. ASSUME NEW v \in HasStock PROVE Owed(v)'
    <3>1. PenaltyPoints(v)' = PenaltyPoints(v)
      BY <1>2 DEF PenaltyPoints
    <3>2. /\ Cardinality(Pending(v)') \in Nat
          /\ Cardinality(Pending(v)') <= Cardinality(Pending(v)) + (IF v = u THEN 1 ELSE 0)
      <4>1. CASE v # u
        <5>1. Pending(v)' \subseteq Pending(v)
          BY <2>4, <4>1
        <5> QED BY <4>1, <5>1, Counts, Finite, FS_Subset, FS_CardinalityType
      <4>2. CASE v = u
        <5>1. Pending(v)' \subseteq Pending(v) \cup {h}
          BY <2>4, <4>2
        <5>2. /\ IsFiniteSet(Pending(v) \cup {h})
              /\ Cardinality(Pending(v) \cup {h}) \in Nat
              /\ Cardinality(Pending(v) \cup {h}) <= Cardinality(Pending(v)) + 1
          <6>1. IsFiniteSet(Pending(v)) /\ Cardinality(Pending(v)) \in Nat
            BY Finite, Counts
          <6>2. /\ IsFiniteSet(Pending(v) \cup {h})
                /\ Cardinality(Pending(v) \cup {h}) =
                     IF h \in Pending(v) THEN Cardinality(Pending(v)) ELSE Cardinality(Pending(v)) + 1
            BY <6>1, FS_AddElement
          <6> QED BY <6>1, <6>2
        <5>3. /\ Cardinality(Pending(v)') <= Cardinality(Pending(v) \cup {h})
              /\ Cardinality(Pending(v)') \in Nat
          BY <5>1, <5>2, FS_Subset, FS_CardinalityType
        <5> QED BY <4>2, <5>2, <5>3, Counts
      <4> QED BY <4>1, <4>2
    <3>3. Cardinality(GatesOf(v)') = Cardinality(GatesOf(v)) + (IF v = u THEN 1 ELSE 0)
      <4>1. CASE v # u
        <5>1. GatesOf(v)' = GatesOf(v)
          BY <2>7, <4>1
        <5> QED BY <4>1, <5>1, Counts
      <4>2. CASE v = u
        <5>1. GatesOf(v)' = GatesOf(v) \cup {n} /\ n \notin GatesOf(v)
          BY <2>6, <2>7, <4>2 DEF GatesOf
        <5> QED BY <4>2, <5>1, Finite, FS_AddElement
      <4> QED BY <4>1, <4>2
    <3> QED BY <3>1, <3>2, <3>3, Counts DEF Owed
  <2> QED BY <2>3, <2>8
<1> QED
  BY <1>1, <1>3, <1>4

LEMMA OwedAppendPoint ==
    ASSUME Typed, Typed', Loners, NEW s \in Slots, AppendPoint(s), \A u \in HasStock : Owed(u)
    PROVE  Loners' /\ \A u \in HasStock : Owed(u)'
<1> SUFFICES ASSUME NEW v, v = call[s].user,
                    NEW point, point = [price |-> call[s].stock.price, by |-> call[s].kind],
                    NEW n, n = Len(history[v]) + 1
             PROVE  Loners' /\ \A u \in HasStock : Owed(u)'
  OBVIOUS
<1>1. /\ call[s] \in Call /\ v \in HasStock /\ point \in Point /\ history[v] \in Seq(Point)
      /\ call' = [call EXCEPT ![s] = After(call[s])]
      /\ history' = [history EXCEPT ![v] = Append(@, point)]
  BY AppendPointStep
<1>2. /\ gates' = gates /\ call[s].pc = "append" /\ point.by = call[s].kind
      /\ history \in [HasStock -> Seq(Point)] /\ HasStock \subseteq Members /\ Lone(call[s])
  BY CommunityAssumption DEF AppendPoint, Typed, TypeOK, Loners
<1>3. Calms(s, After(call[s]))
  <2>1. CASE call[s].kind = "penalty"
    <3>1. call[s].todo = {}
      BY <1>2, <2>1 DEF Lone
    <3>2. After(call[s]) = Idle
      BY <3>1 DEF After
    <3> QED BY <1>1, <3>2, IdleCalm DEF Calms
  <2>2. CASE call[s].kind # "penalty"
    <3>1. After(call[s]) = Idle \/ After(call[s]).kind # "penalty"
      BY <1>1, <2>2, AfterCalm
    <3>2. Lone(After(call[s])) /\ \A u \in Members : ~Pends(After(call[s]), u)
      BY <3>1, IdleCalm DEF Lone, Pends
    <3> QED BY <1>1, <3>2 DEF Calms
  <2> QED BY <2>1, <2>2
<1>4. Loners' /\ \A u \in Members : Pending(u)' \subseteq Pending(u)
  BY <1>3, CalmStep
<1>5. ASSUME NEW u \in HasStock, u # v PROVE Owed(u)'
  <2>1. history'[u] = history[u]
    BY <1>1, <1>2, <1>5
  <2>2. PenaltyPoints(u)' = PenaltyPoints(u) /\ GatesOf(u)' = GatesOf(u)
    BY <1>2, <2>1 DEF PenaltyPoints, GatesOf
  <2>3. Cardinality(Pending(u)') <= Cardinality(Pending(u)) /\ Cardinality(Pending(u)') \in Nat
    BY <1>2, <1>4, Finite, FS_Subset, FS_CardinalityType
  <2> QED BY <2>2, <2>3, Counts DEF Owed
<1>6. history'[v] = Append(history[v], point)
  BY <1>1, <1>2
<1>7. /\ DOMAIN history'[v] = DOMAIN history[v] \cup {n} /\ history'[v][n] = point
      /\ n \notin DOMAIN history[v]
      /\ \A i \in DOMAIN history[v] : history'[v][i] = history[v][i]
  BY <1>1, <1>6
<1>8. GatesOf(v)' = GatesOf(v)
  BY <1>2 DEF GatesOf
<1>9. CASE call[s].kind = "penalty"
  <2>1. PenaltyPoints(v)' = PenaltyPoints(v) \cup {n} /\ n \notin PenaltyPoints(v)
    BY <1>2, <1>7, <1>9 DEF PenaltyPoints
  <2>2. Cardinality(PenaltyPoints(v)') = Cardinality(PenaltyPoints(v)) + 1
    BY <1>1, <2>1, Finite, FS_AddElement
  <2>3. s \in Pending(v)
    BY <1>2, <1>9 DEF Pending, Pends
  <2>4. Pending(v)' \subseteq Pending(v) \ {s}
    <3>1. call[s].todo = {}
      BY <1>2, <1>9 DEF Lone
    <3>2. After(call[s]) = Idle
      BY <3>1 DEF After
    <3>3. call'[s] = Idle
      BY <1>1, <3>2 DEF Typed, TypeOK
    <3>4. s \notin Pending(v)'
      BY <1>1, <1>2, <3>3, IdleCalm DEF Pending
    <3> QED BY <1>1, <1>2, <1>4, <3>4
  <2>5. /\ Cardinality(Pending(v) \ {s}) = Cardinality(Pending(v)) - 1
        /\ IsFiniteSet(Pending(v) \ {s})
    BY <2>3, Finite, FS_RemoveElement
  <2>6. /\ Cardinality(Pending(v)') <= Cardinality(Pending(v) \ {s})
        /\ Cardinality(Pending(v)') \in Nat
    BY <2>4, <2>5, FS_Subset, FS_CardinalityType
  <2>7. Owed(v)'
    BY <1>1, <1>8, <2>2, <2>5, <2>6, Counts DEF Owed
  <2> QED BY <1>4, <1>5, <2>7
<1>10. CASE call[s].kind # "penalty"
  <2>1. PenaltyPoints(v)' = PenaltyPoints(v)
    BY <1>2, <1>7, <1>10 DEF PenaltyPoints
  <2>2. Cardinality(Pending(v)') <= Cardinality(Pending(v)) /\ Cardinality(Pending(v)') \in Nat
    BY <1>1, <1>2, <1>4, Finite, FS_Subset, FS_CardinalityType
  <2>3. Owed(v)'
    BY <1>1, <1>8, <2>1, <2>2, Counts DEF Owed
  <2> QED BY <1>4, <1>5, <2>3
<1> QED
  BY <1>9, <1>10

Accounted == Loners /\ \A u \in HasStock : Owed(u)

LEMMA AccountedInductive == Typed /\ Accounted /\ [Next]_vars => Accounted'
<1> SUFFICES ASSUME Typed, Accounted, [Next]_vars PROVE Accounted'
  OBVIOUS
<1>1. Typed'
  BY TypedInductive
<1>2. ASSUME NEW h \in Handlers, NEW actor \in Moderators \cup {Unknown}, Gate(h, actor)
      PROVE  Accounted'
  BY <1>1, <1>2, OwedGate DEF Accounted
<1>3. ASSUME NEW s \in Slots, AppendPoint(s) PROVE Accounted'
  BY <1>1, <1>3, OwedAppendPoint DEF Accounted
<1>4. CASE /\ \A h \in Handlers, a \in Moderators \cup {Unknown} : ~Gate(h, a)
           /\ \A s \in Slots : ~AppendPoint(s)
  <2>1. /\ Loners' /\ \A u \in Members : Pending(u)' \subseteq Pending(u)
        /\ UNCHANGED <<gates, history>>
    BY <1>4, MostStepsCalm DEF Accounted
  <2>2. HasStock \subseteq Members
    BY CommunityAssumption
  <2> QED BY <1>1, <2>1, <2>2, OwedCalm DEF Accounted
<1> QED
  BY <1>2, <1>3, <1>4

LEMMA PenaltiesInit == Init => Paced /\ Accounted
<1> SUFFICES ASSUME Init PROVE Paced /\ Accounted
  OBVIOUS
<1>1. gates = <<>> /\ DOMAIN gates = {}
  BY DEF Init
<1>2. Paced
  BY <1>1 DEF Paced
<1>3. \A s \in Slots : call[s] = Idle
  BY DEF Init
<1>4. Loners /\ \A u \in Members : Pending(u) = {}
  BY <1>3, IdleCalm DEF Loners, Pending
<1>5. ASSUME NEW u \in HasStock PROVE Owed(u)
  <2>1. history[u] = <<[price |-> InitialPrice, by |-> "trade"]>>
    BY <1>5 DEF Init
  <2>2. DOMAIN history[u] = {1} /\ history[u][1].by = "trade"
    BY <2>1
  <2>3. PenaltyPoints(u) = {}
    BY <2>2 DEF PenaltyPoints
  <2>4. GatesOf(u) = {}
    BY <1>1 DEF GatesOf
  <2>5. Pending(u) = {}
    BY <1>4, CommunityAssumption
  <2> QED BY <2>3, <2>4, <2>5, FS_EmptySet DEF Owed
<1> QED
  BY <1>2, <1>4, <1>5 DEF Accounted

(* One moderator costs a member one penalty a cooldown, however the events  *)
(* race, as long as the bot is not restarted, and no penalty moves the      *)
(* price twice, restarted or not (_apply_penalty).                          *)
THEOREM PenaltiesPacedHolds == Spec => []PenaltiesPaced
<1>1. Typed /\ Paced /\ Accounted => PenaltiesPaced
  <2> SUFFICES ASSUME Typed, Paced, Accounted PROVE PenaltiesPaced
    OBVIOUS
  <2>1. ASSUME NEW u \in HasStock PROVE Cardinality(PenaltyPoints(u)) <= Cardinality(GatesOf(u))
    BY Counts DEF Accounted, Owed
  <2> QED BY <2>1 DEF PenaltiesPaced, Paced, Apart
<1> QED
  BY <1>1, PenaltiesInit, PacedInductive, AccountedInductive, AlwaysTyped, PTL DEF Spec

-----------------------------------------------------------------------------
(* The places of the claims in their runs.  RunOf is a recursive function:   *)
(* that it has the values it is written to have goes by the least claim     *)
(* that would be an exception.                                              *)

RunStep(s, g, i) ==
    IF i = 1 THEN 1
    ELSE IF s[i] - s[i - 1] >= 2 * ClaimWindow \/ g[i - 1] = BonusLength THEN 1
    ELSE g[i - 1] + 1

Runs(s, g, n) == \A i \in 1..n : g[i] = RunStep(s, g, i)

LEMMA LeastOf ==
    ASSUME NEW B, B \subseteq Nat, B # {}
    PROVE  \E m \in B : \A k \in B : m <= k
<1>1. PICK m \in B : \A k \in B : ~(<<k, m>> \in OpToRel(<, Nat))
  BY WFMin, NatLessThanWellFounded
<1>2. \A k \in B : ~(k < m)
  BY <1>1 DEF OpToRel
<1> QED
  BY <1>2

LEMMA RunsExist ==
    ASSUME NEW s \in Seq(Nat), NEW n \in Nat, n <= Len(s)
    PROVE  \E g \in [1..n -> 1..BonusLength] : Runs(s, g, n)
<1> DEFINE Exists(m) == \E g \in [1..m -> 1..BonusLength] : Runs(s, g, m)
           Bad == {m \in 0..Len(s) : ~Exists(m)}
<1> SUFFICES ASSUME Bad # {}
             PROVE  FALSE
  <2>1. Len(s) \in Nat
    OBVIOUS
  <2>2. n \in 0..Len(s)
    BY <2>1
  <2>3. ~Exists(n) => n \in Bad
    BY <2>2
  <2>4. Exists(n)
    BY <2>3
  <2> QED BY <2>4
<1>0. Bad \subseteq Nat
  OBVIOUS
<1>1. PICK m \in Bad : \A k \in Bad : m <= k
  <2> HIDE DEF Bad
  <2> QED BY <1>0, LeastOf
<1>2. m \in 0..Len(s) /\ ~Exists(m)
  OBVIOUS
<1>3. CASE m = 0
  <2>1. Runs(s, [i \in 1..0 |-> 1], 0)
    BY DEF Runs
  <2>2. [i \in 1..0 |-> 1] \in [1..0 -> 1..BonusLength]
    OBVIOUS
  <2> QED BY <1>2, <1>3, <2>1, <2>2
<1>4. CASE m # 0
  <2>1. m - 1 \in 0..Len(s) /\ ~(m <= m - 1) /\ m \in Nat
    BY <1>2, <1>4
  <2>2. Exists(m - 1)
    BY <1>1, <2>1
  <2>3. PICK g \in [1..(m - 1) -> 1..BonusLength] : Runs(s, g, m - 1)
    BY <2>2
  <2> DEFINE h == [i \in 1..m |-> IF i = m THEN RunStep(s, g, m) ELSE g[i]]
  <2>4. RunStep(s, g, m) \in 1..BonusLength
    <3>1. CASE m = 1
      BY <3>1, Settings DEF RunStep
    <3>2. CASE m # 1
      <4>1. g[m - 1] \in 1..BonusLength
        BY <2>1, <2>3, <3>2
      <4>2. 1 \in 1..BonusLength
        BY Settings
      <4>3. g[m - 1] # BonusLength => g[m - 1] + 1 \in 1..BonusLength
        BY <4>1, Settings
      <4>4. RunStep(s, g, m) \in {1} \/ (g[m - 1] # BonusLength /\ RunStep(s, g, m) = g[m - 1] + 1)
        BY <3>2, Zenon DEF RunStep
      <4> QED BY <4>2, <4>3, <4>4
    <3> QED BY <3>1, <3>2
  <2>5. h \in [1..m -> 1..BonusLength]
    <3>1. \A i \in 1..m : i # m => i \in 1..(m - 1)
      BY <2>1
    <3> QED BY <2>3, <2>4, <3>1
  <2>6. ASSUME NEW i \in 1..m PROVE h[i] = RunStep(s, h, i)
    <3>1. i # 1 => i - 1 \in 1..m /\ i - 1 # m
      BY <2>1
    <3>2. i # 1 => h[i - 1] = g[i - 1]
      BY <3>1
    <3>3. h[i] = RunStep(s, g, i)
      <4>1. CASE i = m
        BY <4>1
      <4>2. CASE i # m
        <5>1. i \in 1..(m - 1)
          BY <2>1, <4>2
        <5> QED BY <2>3, <4>2, <5>1 DEF Runs
      <4> QED BY <4>1, <4>2
    <3> HIDE DEF h
    <3> QED BY <3>2, <3>3 DEF RunStep
  <2>7. Runs(s, h, m)
    BY <2>6 DEF Runs
  <2> HIDE DEF h
  <2> QED BY <1>2, <2>5, <2>7
<1> QED
  BY <1>3, <1>4

LEMMA RunsUnique ==
    ASSUME NEW s, NEW n \in Nat, NEW g, NEW h, Runs(s, g, n), Runs(s, h, n)
    PROVE  \A i \in 1..n : g[i] = h[i]
<1> DEFINE Bad == {i \in 1..n : g[i] # h[i]}
<1> SUFFICES ASSUME Bad # {} PROVE FALSE
  OBVIOUS
<1>0. Bad \subseteq Nat
  OBVIOUS
<1>1. PICK i \in Bad : \A k \in Bad : i <= k
  <2> HIDE DEF Bad
  <2> QED BY <1>0, LeastOf
<1>2. i \in 1..n /\ g[i] # h[i] /\ g[i] = RunStep(s, g, i) /\ h[i] = RunStep(s, h, i)
  BY DEF Runs
<1>3. i # 1 => i - 1 \in 1..n /\ ~(i <= i - 1)
  BY <1>2
<1>4. i # 1 => g[i - 1] = h[i - 1]
  BY <1>1, <1>3
<1> QED
  BY <1>2, <1>4 DEF RunStep

LEMMA RunUnfold ==
    ASSUME NEW s \in Seq(Nat)
    PROVE  /\ Runs(s, RunOf(s), Len(s))
           /\ \A i \in 1..Len(s) : RunOf(s)[i] \in 1..BonusLength
<1>0. Len(s) \in Nat /\ Len(s) <= Len(s)
  OBVIOUS
<1>1. PICK g \in [1..Len(s) -> 1..BonusLength] : Runs(s, g, Len(s))
  BY <1>0, RunsExist
<1> DEFINE Stepped(f) == [i \in 1..Len(s) |->
                 IF i = 1 THEN 1
                 ELSE IF s[i] - s[i - 1] >= 2 * ClaimWindow \/ f[i - 1] = BonusLength THEN 1
                 ELSE f[i - 1] + 1]
<1>2. g = Stepped(g)
  BY <1>1 DEF Runs, RunStep
<1>3. RunOf(s) = Stepped(RunOf(s))
  BY <1>2 DEF RunOf
<1>4. \A i \in 1..Len(s) : RunOf(s)[i] = RunStep(s, RunOf(s), i)
  <2> SUFFICES ASSUME NEW r, r = Stepped(r) PROVE \A i \in 1..Len(s) : r[i] = RunStep(s, r, i)
    BY <1>3
  <2> QED BY DEF RunStep
<1>5. Runs(s, RunOf(s), Len(s))
  BY <1>4 DEF Runs
<1>6. \A i \in 1..Len(s) : g[i] = RunOf(s)[i]
  BY <1>0, <1>1, <1>5, RunsUnique
<1> QED
  BY <1>1, <1>5, <1>6

NextPlace(last, place, x, n) ==
    IF n = 0 THEN 1
    ELSE IF x - last >= 2 * ClaimWindow \/ place = BonusLength THEN 1 ELSE place + 1

LEMMA RunsLonger ==
    ASSUME NEW s, NEW t, NEW n \in Nat, NEW r, NEW q,
           \A i \in 1..n : t[i] = s[i],
           Runs(s, r, n), Runs(t, q, n + 1)
    PROVE  /\ \A i \in 1..n : q[i] = r[i]
           /\ q[n + 1] = NextPlace(s[n], r[n], t[n + 1], n)
<1>1. Runs(s, q, n)
  <2> SUFFICES ASSUME NEW i \in 1..n PROVE q[i] = RunStep(s, q, i)
    BY DEF Runs
  <2>1. i \in 1..(n + 1) /\ t[i] = s[i] /\ (i # 1 => i - 1 \in 1..n)
    OBVIOUS
  <2>2. i # 1 => t[i - 1] = s[i - 1]
    BY <2>1
  <2> QED BY <2>1, <2>2 DEF Runs, RunStep
<1>2. \A i \in 1..n : q[i] = r[i]
  BY <1>1, RunsUnique
<1>3. q[n + 1] = RunStep(t, q, n + 1)
  BY DEF Runs
<1>4. CASE n = 0
  BY <1>2, <1>3, <1>4 DEF RunStep, NextPlace
<1>5. CASE n # 0
  <2>1. n \in 1..n /\ n + 1 # 1 /\ (n + 1) - 1 = n
    BY <1>5
  <2>2. q[n] = r[n] /\ t[n] = s[n]
    BY <1>2, <2>1
  <2> QED BY <1>2, <1>3, <1>5, <2>1, <2>2 DEF RunStep, NextPlace
<1> QED
  BY <1>2, <1>4, <1>5

(* One more claim leaves the places of the others. *)
OneMore(s, x, n, t, r, q) ==
    /\ t \in Seq(Nat) /\ n \in Nat /\ Len(t) = n + 1 /\ t[n + 1] = x
    /\ \A i \in 1..n : t[i] = s[i]
    /\ \A i \in 1..n : r[i] \in 1..BonusLength
    /\ \A i \in 1..n : q[i] = r[i]
    /\ q[n + 1] = NextPlace(s[n], r[n], x, n)

LEMMA RunAppend ==
    ASSUME NEW s, NEW x
    PROVE  s \in Seq(Nat) /\ x \in Nat =>
             OneMore(s, x, Len(s), Append(s, x), RunOf(s), RunOf(Append(s, x)))
<1>1. ASSUME s \in Seq(Nat), x \in Nat, NEW n, NEW t, n = Len(s), t = Append(s, x)
      PROVE  /\ t \in Seq(Nat) /\ n \in Nat /\ Len(t) = n + 1 /\ t[n + 1] = x
             /\ \A i \in 1..n : t[i] = s[i]
  BY <1>1
<1>2. ASSUME s \in Seq(Nat), x \in Nat, NEW n, NEW t, NEW r, NEW q,
             n = Len(s), t = Append(s, x), r = RunOf(s), q = RunOf(t)
      PROVE  /\ Runs(t, q, n + 1) /\ Runs(s, r, n)
             /\ \A i \in 1..n : r[i] \in 1..BonusLength
  BY <1>1, <1>2, RunUnfold
<1>3. ASSUME NEW n \in Nat, NEW t, NEW r, NEW q,
             \A i \in 1..n : t[i] = s[i], Runs(t, q, n + 1), Runs(s, r, n)
      PROVE  /\ \A i \in 1..n : q[i] = r[i]
             /\ q[n + 1] = NextPlace(s[n], r[n], t[n + 1], n)
  BY <1>3, RunsLonger
<1>4. ASSUME s \in Seq(Nat), x \in Nat, NEW n, NEW t, NEW r, NEW q,
             n = Len(s), t = Append(s, x), r = RunOf(s), q = RunOf(t)
      PROVE  OneMore(s, x, n, t, r, q)
  <2>1. /\ t \in Seq(Nat) /\ n \in Nat /\ Len(t) = n + 1 /\ t[n + 1] = x
        /\ \A i \in 1..n : t[i] = s[i]
    BY <1>1, <1>4
  <2>2. /\ Runs(t, q, n + 1) /\ Runs(s, r, n)
        /\ \A i \in 1..n : r[i] \in 1..BonusLength
    BY <1>2, <1>4
  <2>3. /\ \A i \in 1..n : q[i] = r[i]
        /\ q[n + 1] = NextPlace(s[n], r[n], t[n + 1], n)
    BY <1>3, <2>1, <2>2, Zenon
  <2> QED BY <2>1, <2>2, <2>3, Zenon DEF OneMore
<1> QED
  BY <1>4, Zenon

-----------------------------------------------------------------------------
(* What /daily keeps of a member. *)
Wallet(row) == [cash |-> row.cash, claimed |-> row.claimed, streak |-> row.streak]
Wallets == [cash : Nat, claimed : Nat \cup {Never}, streak : Nat]
Purse(u) == Wallet(Account(u))

Credited(p, at) ==
    LET streak == NextStreak(p, at)
        bonus == streak = BonusLength
    IN  [cash |-> p.cash + DailyReward + (IF bonus THEN StreakBonus ELSE 0),
         claimed |-> at, streak |-> IF bonus THEN 0 ELSE streak]

LEMMA WalletType ==
    ASSUME NEW row \in AccountRow
    PROVE  /\ Wallet(row) \in Wallets
           /\ \A at : MayClaim(row, at) <=> MayClaim(Wallet(row), at)
           /\ \A at : Wallet(Claimed(row, at)) = Credited(Wallet(row), at)
<1>1. /\ row.cash \in Nat /\ row.claimed \in Nat \cup {Never}
      /\ row.streak \in 0..(BonusLength - 1) /\ BonusLength \in Nat
      /\ DOMAIN row = Fields
  BY Settings DEF AccountRow, Fields
<1>2. Wallet(row) \in Wallets
  BY <1>1 DEF Wallet, Wallets
<1>3. /\ Wallet(row).cash = row.cash /\ Wallet(row).claimed = row.claimed
      /\ Wallet(row).streak = row.streak
  BY DEF Wallet
<1>4. ASSUME NEW at PROVE Wallet(Claimed(row, at)) = Credited(Wallet(row), at)
  <2>1. NextStreak(Wallet(row), at) = NextStreak(row, at)
    BY <1>3 DEF NextStreak
  <2> DEFINE streak == NextStreak(row, at)
             cash == row.cash + DailyReward + (IF streak = BonusLength THEN StreakBonus ELSE 0)
             left == IF streak = BonusLength THEN 0 ELSE streak
  <2>2. Claimed(row, at) = [row EXCEPT !.cash = cash, !.claimed = at, !.streak = left]
    BY DEF Claimed
  <2>3. Credited(Wallet(row), at) = [cash |-> cash, claimed |-> at, streak |-> left]
    BY <1>3, <2>1 DEF Credited
  <2> HIDE DEF cash, left
  <2>4. Wallet([row EXCEPT !.cash = cash, !.claimed = at, !.streak = left])
          = [cash |-> cash, claimed |-> at, streak |-> left]
    BY <1>1 DEF Wallet, Fields
  <2> QED BY <2>2, <2>3, <2>4
<1> QED
  BY <1>2, <1>3, <1>4 DEF MayClaim

LEMMA PurseOf ==
    ASSUME NEW u
    PROVE  Purse(u) = IF u \in Known THEN Wallet(account[u])
                      ELSE [cash |-> 0, claimed |-> Never, streak |-> 0]
BY DEF Purse, Account, Seed, Wallet

(* Claims, and the purse they leave. *)
Bonuses(s) == {i \in DOMAIN s : RunOf(s)[i] = BonusLength}

Paid(s, p) ==
    /\ Len(s) = 0 => p.claimed = Never
    /\ Len(s) > 0 => /\ p.claimed = s[Len(s)]
                     /\ p.streak = IF RunOf(s)[Len(s)] = BonusLength THEN 0
                                   ELSE RunOf(s)[Len(s)]
    /\ \A i \in DOMAIN s : i > 1 => s[i] - s[i - 1] >= ClaimWindow
    /\ p.cash = DailyReward * Len(s) + StreakBonus * Cardinality(Bonuses(s))

LEMMA OnceMore == \A a, b \in Nat : a * (b + 1) = a * b + a /\ a * b \in Nat
OBVIOUS

LEMMA PaidClaim ==
    ASSUME NEW s, NEW p, NEW x, s \in Seq(Nat), p \in Wallets, x \in Nat, Paid(s, p),
           MayClaim(p, x)
    PROVE  Paid(Append(s, x), Credited(p, x))
<1>0. OneMore(s, x, Len(s), Append(s, x), RunOf(s), RunOf(Append(s, x)))
  BY RunAppend
<1> SUFFICES ASSUME NEW n, n = Len(s), NEW t, t = Append(s, x),
                    NEW r, r = RunOf(s), NEW q, q = RunOf(t),
                    NEW next, next = NextStreak(p, x)
             PROVE  Paid(t, Credited(p, x))
  OBVIOUS
<1>1. /\ t \in Seq(Nat) /\ n \in Nat /\ Len(t) = n + 1 /\ t[n + 1] = x
      /\ \A i \in 1..n : t[i] = s[i]
      /\ \A i \in 1..n : r[i] \in 1..BonusLength
      /\ \A i \in 1..n : q[i] = r[i]
      /\ q[n + 1] = NextPlace(s[n], r[n], x, n)
  <2>1. OneMore(s, x, n, t, r, q)
    BY <1>0, Zenon
  <2> QED BY <2>1 DEF OneMore
<1>2. DOMAIN s = 1..n /\ DOMAIN t = 1..(n + 1) /\ \A i \in 1..n : s[i] \in Nat
  BY <1>1
<1>3. next = q[n + 1] /\ next \in Nat
  <2>1. CASE n = 0
    BY <1>1, <2>1 DEF Paid, NextStreak, NextPlace
  <2>2. CASE n # 0
    <3>1. n \in 1..n
      BY <1>1, <2>2
    <3>2. s[n] \in Nat /\ s[n] # Never /\ r[n] \in 1..BonusLength
      BY <1>1, <1>2, <3>1 DEF Never
    <3>3. /\ p.claimed = s[n] /\ p.streak = IF r[n] = BonusLength THEN 0 ELSE r[n]
      BY <1>1, <2>2 DEF Paid
    <3>4. next = NextPlace(s[n], r[n], x, n) /\ next \in Nat
      <4>1. ASSUME NEW last \in Nat, NEW place \in 1..BonusLength, p.claimed = last,
                   p.streak = IF place = BonusLength THEN 0 ELSE place
            PROVE  next = NextPlace(last, place, x, n) /\ next \in Nat
        BY <2>2, <4>1, Settings DEF NextPlace, NextStreak, Never
      <4> QED BY <3>2, <3>3, <4>1, Zenon
    <3> QED BY <1>1, <2>2, <3>4
  <2> QED BY <2>1, <2>2
<1>5. /\ Credited(p, x).claimed = x
      /\ Credited(p, x).streak = IF next = BonusLength THEN 0 ELSE next
      /\ Credited(p, x).cash = p.cash + DailyReward + (IF next = BonusLength THEN StreakBonus ELSE 0)
  BY DEF Credited
<1>6. \A i \in DOMAIN t : i > 1 => t[i] - t[i - 1] >= ClaimWindow
  <2> SUFFICES ASSUME NEW i \in 1..(n + 1), i > 1 PROVE t[i] - t[i - 1] >= ClaimWindow
    BY <1>2
  <2>1. i - 1 \in 1..n /\ t[i - 1] = s[i - 1]
    BY <1>1
  <2>2. CASE i \in 1..n
    <3>1. s[i] - s[i - 1] >= ClaimWindow
      BY <1>2, <2>2 DEF Paid
    <3>2. t[i] = s[i]
      BY <1>1, <2>2
    <3> QED BY <2>1, <3>1, <3>2
  <2>3. CASE i = n + 1
    <3>1. n > 0 /\ i - 1 = n /\ n \in 1..n
      BY <1>1, <2>1, <2>3
    <3>2. p.claimed = s[n] /\ s[n] # Never
      BY <1>2, <3>1 DEF Paid, Never
    <3>3. x - s[n] >= ClaimWindow
      BY <3>2 DEF MayClaim
    <3>4. t[i] = x /\ t[i - 1] = s[n]
      BY <1>1, <2>1, <2>3, <3>1
    <3> QED BY <3>3, <3>4
  <2> QED BY <1>1, <2>2, <2>3
<1>7. Bonuses(t) = Bonuses(s) \cup (IF next = BonusLength THEN {n + 1} ELSE {})
  <2>1. \A i : i \in Bonuses(t) <=> i \in 1..(n + 1) /\ q[i] = BonusLength
    BY <1>2 DEF Bonuses
  <2>2. \A i : i \in Bonuses(s) <=> i \in 1..n /\ r[i] = BonusLength
    BY <1>2 DEF Bonuses
  <2>3. \A i : i \in 1..(n + 1) <=> i \in 1..n \/ i = n + 1
    BY <1>1
  <2> QED BY <1>1, <1>3, <2>1, <2>2, <2>3
<1>8. IsFiniteSet(Bonuses(s)) /\ n + 1 \notin Bonuses(s) /\ Cardinality(Bonuses(s)) \in Nat
  <2>1. IsFiniteSet(1..n) /\ Bonuses(s) \subseteq 1..n
    BY <1>1, <1>2, FS_Interval DEF Bonuses
  <2>2. IsFiniteSet(Bonuses(s))
    BY <2>1, FS_Subset
  <2>3. n + 1 \notin 1..n
    BY <1>1
  <2> QED BY <2>1, <2>2, <2>3, FS_CardinalityType
<1>9. Cardinality(Bonuses(t)) = Cardinality(Bonuses(s)) + (IF next = BonusLength THEN 1 ELSE 0)
  <2>1. CASE next = BonusLength
    BY <1>7, <1>8, <2>1, FS_AddElement
  <2>2. CASE next # BonusLength
    BY <1>7, <1>8, <2>2
  <2> QED BY <2>1, <2>2
<1>10. Credited(p, x).cash = DailyReward * (n + 1) + StreakBonus * Cardinality(Bonuses(t))
  <2> DEFINE b == Cardinality(Bonuses(s))
             c == Cardinality(Bonuses(t))
             paid == DailyReward * n
             extra == StreakBonus * b
  <2>1. p.cash = paid + extra
    BY DEF Paid
  <2>2. DailyReward * (n + 1) = paid + DailyReward /\ paid \in Nat /\ DailyReward \in Nat
    BY <1>1, Settings, OnceMore
  <2>3. StreakBonus * (b + 1) = extra + StreakBonus /\ extra \in Nat /\ StreakBonus \in Nat
    BY <1>8, Settings, OnceMore
  <2>4. StreakBonus * c = extra + (IF next = BonusLength THEN StreakBonus ELSE 0)
    <3>1. CASE next = BonusLength
      <4>1. c = b + 1
        BY <1>9, <3>1
      <4> HIDE DEF b, c
      <4> QED BY <2>3, <3>1, <4>1
    <3>2. CASE next # BonusLength
      <4>1. c = b
        BY <1>8, <1>9, <3>2
      <4>2. StreakBonus * c = extra
        BY <4>1
      <4> HIDE DEF extra, c
      <4> QED BY <2>3, <3>2, <4>2
    <3> QED BY <3>1, <3>2
  <2> DEFINE gained == DailyReward * (n + 1)
             bonus == StreakBonus * c
  <2>5. Credited(p, x).cash = paid + extra + DailyReward + (IF next = BonusLength THEN StreakBonus ELSE 0)
    BY <1>5, <2>1
  <2>6. gained = paid + DailyReward /\ bonus = extra + (IF next = BonusLength THEN StreakBonus ELSE 0)
    BY <2>2, <2>4
  <2>7. Credited(p, x).cash = gained + bonus
    <3> HIDE DEF gained, bonus, paid, extra
    <3> QED BY <2>2, <2>3, <2>5, <2>6
  <2> QED BY <2>7
<1>11. n + 1 > 0 /\ n + 1 # 0
  BY <1>1
<1> QED
  BY <1>1, <1>3, <1>5, <1>6, <1>10, <1>11 DEF Paid

-----------------------------------------------------------------------------
(* What a section is about to store of the wallet of its member. *)
WalletCopy(s) ==
    LET c == call[s] IN
    c.pc = "store" /\ c.kind \in AccountKinds =>
      IF c.kind = "daily"
      THEN MayClaim(Purse(c.user), c.at) /\ Wallet(c.account) = Credited(Purse(c.user), c.at)
      ELSE Wallet(c.account) = Purse(c.user)

LEMMA WalletChanged ==
    ASSUME NEW row \in AccountRow, NEW at \in Nat, NEW kind \in AccountKinds
    PROVE  Wallet(Changed(kind, row, at)) = IF kind = "daily" THEN Credited(Wallet(row), at)
                                            ELSE Wallet(row)
<1>1. CASE kind = "daily"
  BY <1>1, WalletType DEF Changed
<1>2. CASE kind # "daily"
  <2>1. {"cash", "claimed", "streak"} \subseteq Fields \ Owned(kind)
    BY <1>2 DEF Fields, Owned, AccountKinds
  <2>2. \A f \in {"cash", "claimed", "streak"} : Changed(kind, row, at)[f] = row[f]
    BY <2>1, ChangedKeeps
  <2>3. /\ Changed(kind, row, at).cash = row.cash /\ Changed(kind, row, at).claimed = row.claimed
        /\ Changed(kind, row, at).streak = row.streak
    BY <2>2
  <2> QED BY <1>2, <2>3 DEF Wallet
<1> QED
  BY <1>1, <1>2

(* /daily goes on to store only if the claim may be made. *)
LEMMA DailyRead ==
    ASSUME Typed, NEW s \in Slots, NEW u \in Members, ReadAccount(s, u),
           call'[s].pc = "store", call[s].kind = "daily"
    PROVE  MayClaim(Account(u), call[s].at) /\ call'[s].at = call[s].at
<1> DEFINE c == [call[s] EXCEPT !.todo = @ \ {u}, !.user = u]
           row == Account(u)
           refused == c.kind = "daily" /\ ~MayClaim(row, c.at)
           working == [c EXCEPT !.pc = "store", !.account = Changed(c.kind, row, c.at),
                                !.shows = c.kind = "opt in" /\ ShowsIntro(row)]
<1>1. call[s] \in Call /\ call \in [Slots -> Call]
  BY DEF Typed, TypeOK
<1>2. c \in Call /\ c.kind = "daily" /\ c.at = call[s].at
  BY <1>1 DEF Call
<1>3. After(c).pc # "store"
  BY <1>2, AfterType
<1>4. call' = [call EXCEPT ![s] = IF refused THEN After(c) ELSE working]
  BY DEF ReadAccount
<1>5. call'[s] = IF refused THEN After(c) ELSE working
  BY <1>1, <1>4
<1>6. working.at = c.at
  BY <1>2 DEF Call
<1> HIDE DEF c, working, row
<1>7. ~refused /\ call'[s] = working
  BY <1>3, <1>5
<1> QED
  BY <1>2, <1>6, <1>7 DEF row

(* Nothing but the end of a section that read an account touches a purse. *)
LEMMA PursesKept ==
    ASSUME Typed, Next, \A s \in Slots : ~StoreAccount(s)
    PROVE  \A v : Purse(v)' = Purse(v)
<1> DEFINE Fresh == [cash |-> 0, claimed |-> Never, streak |-> 0]
<1>1. \A v : Purse(v) = IF v \in Known THEN Wallet(account[v]) ELSE Fresh
  BY PurseOf
<1>2. \A v : Purse(v)' = IF v \in Known' THEN Wallet(account'[v]) ELSE Fresh
  BY DEF Purse, Account, Seed, Wallet
<1>3. ASSUME NEW s \in Slots, NEW u \in Members, ReadAccount(s, u)
      PROVE  \A v : Purse(v)' = Purse(v)
  <2>1. account' \in {account, Put(account, u, Account(u))}
    BY <1>3, ReadAccountStep DEF AccountRead
  <2>2. CASE account' = account
    BY <1>1, <1>2, <2>2 DEF Known
  <2>3. CASE account' = Put(account, u, Account(u))
    <3>1. Known' = Known \cup {u} /\ account'[u] = Account(u)
      BY <2>3 DEF Put, Known
    <3>2. \A v : v \in Known /\ v # u => account'[v] = account[v]
      BY <2>3 DEF Put, Known
    <3>3. Wallet(account'[u]) = Purse(u)
      BY <3>1 DEF Purse
    <3> HIDE DEF Fresh
    <3> SUFFICES ASSUME NEW v PROVE Purse(v)' = Purse(v)
      OBVIOUS
    <3>4. CASE v = u
      BY <1>2, <3>1, <3>3, <3>4
    <3>5. CASE v # u
      BY <1>1, <1>2, <3>1, <3>2, <3>5
    <3> QED BY <3>4, <3>5
  <2> QED BY <2>1, <2>2, <2>3
<1>4. account' = account => \A v : Purse(v)' = Purse(v)
  BY <1>1, <1>2 DEF Known
<1> QED
  BY <1>3, <1>4
     DEF Next, Tick, Discord, Command, Disciplined, Begin, Gate, StartSweep, List, Section,
         ReadStock, DMForbidden, Introduce, StoreStock, AppendPoint, Fail, Restart

(* Only a read of an account leaves a slot about to store one. *)
LEMMA SlotsKept ==
    ASSUME Typed, Next, \A s \in Slots : \A u \in Members : ~ReadAccount(s, u)
    PROVE  \A t \in Slots : call'[t].pc = "store" /\ call'[t].kind \in AccountKinds
                              => call'[t] = call[t]
<1> SUFFICES ASSUME NEW t \in Slots, call'[t].pc = "store", call'[t].kind \in AccountKinds,
                    call'[t] # call[t]
             PROVE  FALSE
  OBVIOUS
<1>1. call \in [Slots -> Call]
  BY DEF Typed, TypeOK
<1>2. ASSUME NEW s \in Slots, NEW new, call' = [call EXCEPT ![s] = new]
      PROVE  new.pc = "store" /\ new.kind \in AccountKinds
  BY <1>1, <1>2
<1>3. Idle.pc = "idle"
  BY DEF Idle
<1>4. ASSUME NEW h \in Handlers, Discord(h) PROVE FALSE
  <2>1. h \in Slots /\ call[h] \in Call
    BY <1>1 DEF Slots
  <2>2. ASSUME NEW c \in Commands, Command(h, c) \/ Disciplined(h, c) PROVE FALSE
    <3> DEFINE command == [Idle EXCEPT !.kind = c[1], !.pc = "next", !.todo = {c[2]}, !.at = now]
               event == [Idle EXCEPT !.kind = "penalty", !.pc = "resolve", !.todo = {c[2]}]
    <3>1. command.pc = "next" /\ event.pc = "resolve"
      BY DEF Idle
    <3>2. call' = [call EXCEPT ![h] = command] \/ call' = [call EXCEPT ![h] = event]
      BY <2>2 DEF Command, Disciplined, Begin
    <3> HIDE DEF command, event
    <3> QED BY <1>2, <2>1, <3>1, <3>2
  <2>3. ASSUME NEW actor \in Moderators \cup {Unknown}, Gate(h, actor) PROVE FALSE
    <3> DEFINE passed == [call[h] EXCEPT !.pc = "next", !.at = now]
    <3>1. passed.pc = "next"
      BY <2>1 DEF Call
    <3>2. call' = [call EXCEPT ![h] = Idle] \/ call' = [call EXCEPT ![h] = passed]
      BY <2>3 DEF Gate
    <3> HIDE DEF passed
    <3> QED BY <1>2, <1>3, <2>1, <3>1, <3>2
  <2> QED BY <1>4, <2>2, <2>3 DEF Discord
<1>5. ASSUME NEW s \in Sweeps, StartSweep(s) \/ List(s) PROVE FALSE
  <2>1. s \in Slots /\ call[s] \in Call
    BY <1>1 DEF Slots
  <2>2. CASE StartSweep(s)
    <3> DEFINE new == [Idle EXCEPT !.kind = s, !.pc = "list", !.at = now]
    <3>1. new.pc = "list" /\ call' = [call EXCEPT ![s] = new]
      BY <2>2 DEF Idle, StartSweep, Begin
    <3> HIDE DEF new
    <3> QED BY <1>2, <2>1, <3>1
  <2>3. CASE List(s)
    <3>1. PICK todo, points :
            call' = [call EXCEPT ![s] =
                       IF todo = {} THEN Idle
                       ELSE [call[s] EXCEPT !.pc = "next", !.todo = todo, !.points = points]]
      BY <2>3, Zenon DEF List
    <3> DEFINE new == IF todo = {} THEN Idle
                      ELSE [call[s] EXCEPT !.pc = "next", !.todo = todo, !.points = points]
    <3>2. new.pc \in {"idle", "next"}
      BY <1>3, <2>1 DEF Call
    <3>3. call' = [call EXCEPT ![s] = new]
      BY <3>1
    <3> HIDE DEF new
    <3> QED BY <1>2, <2>1, <3>2, <3>3
  <2> QED BY <1>5, <2>2, <2>3
<1>6. ASSUME NEW s \in Slots, Section(s) PROVE FALSE
  <2>1. ASSUME NEW u \in Members, ReadStock(s, u) PROVE FALSE
    <3>1. PICK new \in Call : StockRead(s, u, new)
      BY <2>1, ReadStockStep
    <3>2. new.pc \in {"idle", "next"} \/ new.kind \in PriceKinds
      BY <3>1 DEF StockRead
    <3>3. new.kind \in PriceKinds => new.kind \notin AccountKinds
      BY DEF PriceKinds, AccountKinds
    <3> QED BY <1>2, <3>1, <3>2, <3>3 DEF StockRead
  <2>2. CASE StoreAccount(s) \/ AppendPoint(s)
    BY <2>2, SectionsEnd
  <2>3. CASE StoreStock(s)
    <3> DEFINE new == [call[s] EXCEPT !.pc = "append"]
    <3>1. new.pc = "append"
      BY <1>1 DEF Call
    <3>2. call' = [call EXCEPT ![s] = new]
      BY <2>3 DEF StoreStock
    <3> HIDE DEF new
    <3> QED BY <1>2, <3>1, <3>2
  <2>4. CASE DMForbidden(s) \/ Introduce(s)
    BY <1>2, <2>4, SendStep DEF Sent
  <2> QED BY <1>6, <2>1, <2>2, <2>3, <2>4 DEF Section
<1>7. ASSUME NEW s \in Slots, Fail(s) PROVE FALSE
  BY <1>2, <1>3, <1>7 DEF Fail
<1>8. CASE Restart
  BY <1>3, <1>8 DEF Restart
<1>9. CASE Tick
  BY <1>9 DEF Tick
<1> QED
  BY <1>4, <1>5, <1>6, <1>7, <1>8, <1>9 DEF Next

(* The end of a section puts what it holds into the purse of its member. *)
LEMMA StorePurse ==
    ASSUME Typed, NEW s \in Slots, StoreAccount(s), NEW u, u = call[s].user,
           NEW row, row = call[s].account
    PROVE  /\ u \in Members /\ call[s].at \in Nat
           /\ Purse(u)' = Wallet(row)
           /\ \A v : v # u => Purse(v)' = Purse(v)
           /\ \A t \in Slots : t # s /\ Working(t) => call[t].user # u
<1> DEFINE Fresh == [cash |-> 0, claimed |-> Never, streak |-> 0]
<1>1. \A v : Purse(v) = IF v \in Known THEN Wallet(account[v]) ELSE Fresh
  BY PurseOf
<1>2. \A v : Purse(v)' = IF v \in Known' THEN Wallet(account'[v]) ELSE Fresh
  BY DEF Purse, Account, Seed, Wallet
<1>3. account' = Put(account, u, row) /\ Working(s)
  BY DEF StoreAccount, Working
<1>4. Known' = Known \cup {u} /\ account'[u] = row /\ \A v \in Known : v # u => account'[v] = account[v]
  BY <1>3 DEF Put, Known
<1>5. /\ u \in Members /\ call[s] \in Call
      /\ \A t \in Slots : t # s /\ Working(t) => call[t].user # u
  BY <1>3, WorkingCalls
<1>6. call[s].at \in Nat
  BY <1>5 DEF Call
<1> HIDE DEF Fresh
<1> QED
  BY <1>1, <1>2, <1>4, <1>5, <1>6

Dailies == Typed /\ \A s \in Slots : WalletCopy(s)

LEMMA WalletCopiesRead ==
    ASSUME Dailies, NEW s \in Slots, NEW u \in Members, ReadAccount(s, u),
           \A v : Purse(v)' = Purse(v)
    PROVE  \A t \in Slots : WalletCopy(t)'
<1>1. Typed /\ call \in [Slots -> Call] /\ call[s].at \in Nat
  BY DEF Dailies, Typed, TypeOK, Call
<1>2. PICK new \in Call : AccountRead(s, u, new)
  BY <1>1, ReadAccountStep
<1>3. call'[s] = new /\ \A t \in Slots : t # s => call'[t] = call[t]
  BY <1>1, <1>2 DEF AccountRead
<1>4. ASSUME NEW t \in Slots, t # s PROVE WalletCopy(t)'
  <2>1. call'[t] = call[t] /\ WalletCopy(t)
    BY <1>3, <1>4 DEF Dailies
  <2> QED BY <2>1 DEF WalletCopy
<1>5. WalletCopy(s)'
  <2>1. CASE new.pc # "store"
    BY <1>3, <2>1 DEF WalletCopy
  <2>2. CASE new.pc = "store"
    <3>1. /\ new.user = u /\ new.kind = call[s].kind /\ new.kind \in AccountKinds
          /\ new.account = Changed(new.kind, Account(u), call[s].at)
      BY <1>2, <2>2 DEF AccountRead
    <3>2. Account(u) \in AccountRow
      BY <1>1, AccountType DEF Typed
    <3>3. Wallet(new.account) = IF new.kind = "daily" THEN Credited(Purse(u), call[s].at)
                                ELSE Purse(u)
      BY <1>1, <3>1, <3>2, WalletChanged DEF Purse
    <3>4. new.kind = "daily" => MayClaim(Purse(u), call[s].at) /\ new.at = call[s].at
      BY <1>1, <1>3, <2>2, <3>1, <3>2, DailyRead, WalletType DEF Purse
    <3>5. Purse(u)' = Purse(u)
      OBVIOUS
    <3> QED BY <1>3, <3>1, <3>3, <3>4, <3>5 DEF WalletCopy
  <2> QED BY <2>1, <2>2
<1> QED
  BY <1>4, <1>5

LEMMA WalletCopiesStep ==
    ASSUME Dailies, Next
    PROVE  \A t \in Slots : WalletCopy(t)'
<1>1. Typed
  BY DEF Dailies
<1>2. ASSUME NEW s \in Slots, NEW u \in Members, ReadAccount(s, u)
      PROVE  \A t \in Slots : WalletCopy(t)'
  <2>1. \A t \in Slots : ~StoreAccount(t)
    <3> SUFFICES ASSUME NEW t \in Slots, StoreAccount(t) PROVE FALSE
      OBVIOUS
    <3>1. PICK new \in Call : AccountRead(s, u, new)
      BY <1>1, <1>2, ReadAccountStep
    <3>2. call'[t].pc # "store" /\ \A v \in Slots : v # t => call'[v] = call[v]
      BY <1>1, SectionsEnd
    <3>3. call[s].pc = "next" /\ call[t].pc = "store" /\ call \in [Slots -> Call]
      BY <1>1, <1>2 DEF ReadAccount, StoreAccount, Typed, TypeOK
    <3>4. call'[t] = call[t]
      BY <3>1, <3>3 DEF AccountRead
    <3> QED BY <3>2, <3>3, <3>4
  <2>2. \A v : Purse(v)' = Purse(v)
    BY <1>1, <2>1, PursesKept
  <2> QED BY <1>2, <2>2, WalletCopiesRead
<1>3. CASE /\ \A s \in Slots : \A u \in Members : ~ReadAccount(s, u)
           /\ \A s \in Slots : ~StoreAccount(s)
  <2> SUFFICES ASSUME NEW t \in Slots, call'[t].pc = "store", call'[t].kind \in AccountKinds
               PROVE  WalletCopy(t)'
    BY DEF WalletCopy
  <2>1. call'[t] = call[t]
    BY <1>1, <1>3, SlotsKept
  <2>2. \A v : Purse(v)' = Purse(v)
    BY <1>1, <1>3, PursesKept
  <2>3. WalletCopy(t)
    BY DEF Dailies
  <2> QED BY <2>1, <2>2, <2>3 DEF WalletCopy
<1>4. ASSUME NEW s \in Slots, StoreAccount(s), \A r \in Slots : \A u \in Members : ~ReadAccount(r, u)
      PROVE  \A t \in Slots : WalletCopy(t)'
  <2> SUFFICES ASSUME NEW t \in Slots, call'[t].pc = "store", call'[t].kind \in AccountKinds
               PROVE  WalletCopy(t)'
    BY DEF WalletCopy
  <2>1. call'[t] = call[t] /\ Working(t)
    BY <1>1, <1>4, SlotsKept DEF Working
  <2>2. t # s
    BY <1>1, <1>4, SectionsEnd
  <2> SUFFICES ASSUME NEW v, v = call[t].user, NEW u, u = call[s].user,
                      NEW row, row = call[s].account
               PROVE  WalletCopy(t)'
    OBVIOUS
  <2>3. /\ \A w : w # u => Purse(w)' = Purse(w)
        /\ \A r \in Slots : r # s /\ Working(r) => call[r].user # u
    BY <1>1, <1>4, StorePurse
  <2>4. Purse(v)' = Purse(v) /\ call'[t].user = v
    BY <2>1, <2>2, <2>3
  <2>5. WalletCopy(t)
    BY DEF Dailies
  <2> QED BY <2>1, <2>4, <2>5 DEF WalletCopy
<1> QED
  BY <1>2, <1>3, <1>4

LEMMA DailiesInductive == Dailies /\ [Next]_vars => Dailies'
<1> SUFFICES ASSUME Dailies, [Next]_vars PROVE Dailies'
  OBVIOUS
<1>1. Typed'
  BY TypedInductive DEF Dailies
<1>2. CASE Next
  BY <1>1, <1>2, WalletCopiesStep DEF Dailies
<1>3. CASE UNCHANGED vars
  <2>1. \A v : Purse(v)' = Purse(v)
    BY <1>3 DEF vars, Purse, Account, Seed, Known
  <2>2. call' = call
    BY <1>3 DEF vars
  <2> QED BY <1>1, <2>1, <2>2 DEF Dailies, WalletCopy
<1> QED
  BY <1>2, <1>3

(* Every purse is what its claims earned. *)
Rewarded == \A u \in Members : Paid(claims[u], Purse(u))

LEMMA RewardedStep ==
    ASSUME Dailies, Rewarded, Next
    PROVE  Rewarded'
<1>1. Typed /\ claims \in [Members -> Seq(Nat)]
  BY DEF Dailies, Typed, TypeOK
<1>2. CASE \A s \in Slots : ~StoreAccount(s)
  <2>1. \A v : Purse(v)' = Purse(v)
    BY <1>1, <1>2, PursesKept
  <2>2. claims' = claims
    <3>1. ASSUME NEW h \in Handlers, Discord(h) PROVE claims' = claims
      BY <3>1 DEF Discord, Command, Disciplined, Begin, Gate
    <3>2. ASSUME NEW s \in Sweeps, StartSweep(s) \/ List(s) PROVE claims' = claims
      BY <3>2 DEF StartSweep, Begin, List
    <3>3. ASSUME NEW s \in Slots, Section(s) \/ Fail(s) PROVE claims' = claims
      BY <1>2, <3>3
         DEF Section, ReadAccount, ReadStock, DMForbidden, Introduce, StoreStock, AppendPoint, Fail
    <3>4. Tick \/ Restart => claims' = claims
      BY DEF Tick, Restart
    <3> QED BY <3>1, <3>2, <3>3, <3>4 DEF Next
  <2> QED BY <2>1, <2>2 DEF Rewarded
<1>3. ASSUME NEW s \in Slots, StoreAccount(s) PROVE Rewarded'
  <2> SUFFICES ASSUME NEW u, u = call[s].user, NEW at, at = call[s].at,
                      NEW row, row = call[s].account, NEW x \in Members
               PROVE  Paid(claims'[x], Purse(x)')
    BY DEF Rewarded
  <2>1. /\ u \in Members /\ at \in Nat
        /\ Purse(u)' = Wallet(row)
        /\ \A v : v # u => Purse(v)' = Purse(v)
    BY <1>1, <1>3, StorePurse
  <2>2. call[s].pc = "store" /\ call[s].kind \in AccountKinds /\ WalletCopy(s)
    BY <1>3 DEF StoreAccount, Dailies
  <2>3. claims' = IF call[s].kind = "daily" THEN [claims EXCEPT ![u] = Append(@, at)] ELSE claims
    BY <1>3 DEF StoreAccount
  <2>4. Paid(claims[x], Purse(x))
    BY DEF Rewarded
  <2>5. CASE x # u
    <3>1. claims'[x] = claims[x] /\ Purse(x)' = Purse(x)
      BY <1>1, <2>1, <2>3, <2>5
    <3> QED BY <2>4, <3>1
  <2>6. CASE x = u /\ call[s].kind # "daily"
    <3>1. claims'[x] = claims[x] /\ Purse(x)' = Purse(x)
      BY <2>1, <2>2, <2>3, <2>6 DEF WalletCopy
    <3> QED BY <2>4, <3>1
  <2>7. CASE x = u /\ call[s].kind = "daily"
    <3>1. MayClaim(Purse(x), at) /\ Purse(x)' = Credited(Purse(x), at)
      BY <2>1, <2>2, <2>7 DEF WalletCopy
    <3>2. claims'[x] = Append(claims[x], at) /\ claims[x] \in Seq(Nat)
      BY <1>1, <2>1, <2>3, <2>7
    <3>3. Purse(x) \in Wallets
      BY <1>1, AccountType, WalletType DEF Purse, Typed
    <3>4. Paid(Append(claims[x], at), Credited(Purse(x), at))
      BY <2>1, <2>4, <3>1, <3>2, <3>3, PaidClaim
    <3> QED BY <3>1, <3>2, <3>4
  <2> QED BY <2>5, <2>6, <2>7
<1> QED
  BY <1>2, <1>3

(* Claims are a day apart, each is paid once, and the bonus is for the last *)
(* of an unbroken run of seven and for no other, whatever commands race,    *)
(* fail or are cut off (claim_daily, _next_streak).                         *)
THEOREM DailiesPaidHolds == Spec => []DailiesPaid
<1>1. Init => Dailies /\ Rewarded
  <2> SUFFICES ASSUME Init PROVE Dailies /\ Rewarded
    OBVIOUS
  <2>1. \A s \in Slots : call[s].pc = "idle"
    BY DEF Init, Idle
  <2>2. Dailies
    BY <2>1, TypedInit DEF Dailies, WalletCopy
  <2>3. ASSUME NEW u \in Members PROVE Paid(claims[u], Purse(u))
    <3>1. claims[u] = << >> /\ Known = {}
      BY DEF Init, Known
    <3>2. Purse(u).claimed = Never /\ Purse(u).cash = 0
      BY <3>1, PurseOf
    <3>3. Len(claims[u]) = 0 /\ DOMAIN claims[u] = {}
      BY <3>1
    <3>4. Bonuses(claims[u]) = {} /\ Cardinality({}) = 0
      BY <3>3, FS_EmptySet DEF Bonuses
    <3>5. DailyReward * 0 + StreakBonus * 0 = 0
      BY Settings
    <3> QED BY <3>2, <3>3, <3>4, <3>5 DEF Paid
  <2> QED BY <2>2, <2>3 DEF Rewarded
<1>2. Dailies /\ Rewarded /\ [Next]_vars => Rewarded'
  <2> SUFFICES ASSUME Dailies, Rewarded, [Next]_vars PROVE Rewarded'
    OBVIOUS
  <2>1. CASE UNCHANGED vars
    <3>1. claims' = claims /\ \A v : Purse(v)' = Purse(v)
      BY <2>1 DEF vars, Purse, Account, Seed, Known
    <3> QED BY <3>1 DEF Rewarded
  <2> QED BY <2>1, RewardedStep
<1>3. Rewarded => DailiesPaid
  <2> SUFFICES ASSUME Rewarded, NEW u \in Members
               PROVE  /\ \A i \in DOMAIN claims[u] :
                            i > 1 => claims[u][i] - claims[u][i - 1] >= ClaimWindow
                      /\ Account(u).cash = DailyReward * Len(claims[u])
                            + StreakBonus * Cardinality({i \in DOMAIN claims[u] :
                                                           RunOf(claims[u])[i] = BonusLength})
    BY DEF DailiesPaid
  <2>1. Paid(claims[u], Purse(u)) /\ Purse(u).cash = Account(u).cash
    BY DEF Rewarded, Purse, Wallet
  <2> QED BY <2>1 DEF Paid, Bonuses
<1> QED
  BY <1>1, <1>2, <1>3, DailiesInductive, PTL DEF Spec
=============================================================================
