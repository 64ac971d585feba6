------------------------------ MODULE VoiceProofs ------------------------------
(***************************************************************************)
(* Proofs about Voice.tla, for any members, channels, pings, settings and  *)
(* itineraries that satisfy its assumptions, and any number of events,     *)
(* failures and restarts.                                                  *)
(***************************************************************************)
EXTENDS VoiceProperties, FiniteSetTheorems, SumLemmas, TLAPS

-----------------------------------------------------------------------------
(* Types. *)

LEMMA Numbers ==
    /\ Cap \in Nat \ {0} /\ Window \in Nat /\ Interval \in Nat /\ Period \in Nat
    /\ StayBonus \in Nat /\ FastWithin \in Nat /\ MediumWithin \in Nat /\ MaxLives \in Nat
    /\ 0 \in Lives /\ IsFiniteSet(Members)
BY VoiceAssumption DEF Lives

LEMMA NothingTyped ==
    /\ NoSession \in Session /\ NotOpen \in Ping /\ Free \in Handling /\ Asleep \in Sweep
    /\ Zero \in [Members -> Nat] /\ Nowhere \in Places
<1>1. Nowhere \in Places /\ 0 \in Lives
  BY Numbers DEF Places
<1>2. NoSession \in Session
  BY <1>1 DEF NoSession, Session
<1>3. NotOpen \in Ping
  BY <1>1 DEF NotOpen, Ping
<1>4. Free \in Handling
  BY <1>1 DEF Free, Handling
<1>5. Asleep \in Sweep
  BY <1>1 DEF Asleep, Sweep
<1> QED
  BY <1>1, <1>2, <1>3, <1>4, <1>5 DEF Zero

LEMMA AddType ==
    ASSUME NEW points \in [Members -> Nat], NEW u, NEW n \in Nat
    PROVE  Add(points, u, n) \in [Members -> Nat]
<1>1. CASE u \in Members
  <2>1. points[u] + n \in Nat
    BY <1>1
  <2> QED BY <2>1 DEF Add
<1>2. CASE u \notin Members
  <2>1. Add(points, u, n) = points
    BY <1>2 DEF Add
  <2> QED BY <2>1
<1> QED
  BY <1>1, <1>2

LEMMA RaiseType ==
    ASSUME raises \in [Members -> Nat], NEW u, Raise(u)
    PROVE  raises' \in [Members -> Nat]
BY AddType DEF Raise

LEMMA ExtraBoostsType ==
    ASSUME TypeOK, NEW l \in Lives, NEW at \in Nat
    PROVE  /\ ExtraBoosts(l, at) \subseteq Boost
           /\ \A m \in Pings, u \in Members :
                u \in pings[l][m].extra =>
                  \E b \in ExtraBoosts(l, at) : b.ping = m /\ b.life = l /\ b.user = u
           /\ \A b \in ExtraBoosts(l, at) :
                /\ b.life = l /\ b.user \in pings[l][b.ping].extra
                /\ b.end = pings[l][b.ping].at + Window
<1>1. \A m \in Pings : pings[l][m] \in Ping
  BY DEF TypeOK
<1>2. \A m \in Pings : pings[l][m].at + Window \in Nat
  BY <1>1, Numbers DEF Ping
<1>3. ASSUME NEW b \in ExtraBoosts(l, at)
      PROVE  /\ b \in Boost /\ b.life = l /\ b.user \in pings[l][b.ping].extra
             /\ b.end = pings[l][b.ping].at + Window
  <2>1. PICK m \in Pings, u \in Members :
          /\ u \in pings[l][m].extra
          /\ b = [ping |-> m, life |-> l, user |-> u, last |-> at, end |-> pings[l][m].at + Window]
    BY <1>3 DEF ExtraBoosts, ExtraPlaces, Entry
  <2> QED BY <1>2, <2>1 DEF Boost
<1>4. ASSUME NEW m \in Pings, NEW u \in Members, u \in pings[l][m].extra
      PROVE  \E b \in ExtraBoosts(l, at) : b.ping = m /\ b.life = l /\ b.user = u
  <2> DEFINE b == [ping |-> m, life |-> l, user |-> u, last |-> at, end |-> pings[l][m].at + Window]
  <2>1. <<m, u>> \in ExtraPlaces(l) /\ b = Entry(l, <<m, u>>, at)
    BY <1>4 DEF ExtraPlaces, Entry
  <2>2. b \in ExtraBoosts(l, at)
    BY <2>1 DEF ExtraBoosts
  <2> QED BY <2>2
<1> QED
  BY <1>3, <1>4

(* What a handler needs for its next step. *)
Fit(e) ==
    /\ e.pc # "free" => e.user \in Members
    /\ e.pc \in {"boost", "answer", "host"} => e.ping \in Pings

WorldOK == /\ now \in Nat /\ where \in [Members -> Places] /\ spent \in [Members -> Nat]
           /\ overtaken \subseteq Members /\ events \in Nat /\ failures \in Nat
StoresOK == /\ life \in Lives /\ sessions \in [Lives -> [Members -> Session]]
            /\ pings \in [Lives -> [Pings -> Ping]]
Started == \A l \in Lives, u \in Members : sessions[l][u].start <= now
SweepOK == roster \subseteq Boost /\ sweep \in Sweep /\ nextSweep \in Nat
HandlersOK == handler \in [Handlers -> Handling] /\ \A h \in Handlers : Fit(handler[h])
RowsOK == /\ hosted \in [Members -> Nat] /\ answered \in [Members -> Nat]
          /\ voice \in [Members -> Nat] /\ raises \in [Members -> Nat]

Typed == WorldOK /\ StoresOK /\ Started /\ SweepOK /\ HandlersOK /\ RowsOK

LEMMA TypedOK == Typed => TypeOK
BY DEF Typed, TypeOK, WorldOK, StoresOK, SweepOK, HandlersOK, RowsOK

LEMMA HandlerPut ==
    ASSUME HandlersOK, NEW h \in Handlers, NEW e \in Handling, Fit(e),
           handler' = [handler EXCEPT ![h] = e]
    PROVE  HandlersOK'
BY DEF HandlersOK

(* Moves of the counter of a handler. *)
LEMMA GotoType ==
    ASSUME HandlersOK, NEW h \in Handlers, handler[h].pc # "free",
           NEW pc \in {"opened", "stay", "answer", "host", "list"},
           pc \in {"answer", "host"} => handler[h].pc \in {"boost", "answer"}, Goto(h, pc)
    PROVE  HandlersOK'
<1> SUFFICES ASSUME NEW e, e = [handler[h] EXCEPT !.pc = pc] PROVE HandlersOK'
  OBVIOUS
<1>1. handler[h] \in Handling /\ Fit(handler[h])
  BY DEF HandlersOK
<1>2. e \in Handling /\ Fit(e)
  BY <1>1 DEF Handling, Fit
<1>3. handler' = [handler EXCEPT ![h] = e]
  BY DEF Goto
<1> QED
  BY <1>2, <1>3, HandlerPut

LEMMA FinishType ==
    ASSUME HandlersOK, NEW h \in Handlers, Finish(h)
    PROVE  HandlersOK'
<1>1. Fit(Free)
  BY DEF Fit, Free
<1> QED
  BY <1>1, NothingTyped, HandlerPut DEF Finish

LEMMA AfterLeavingType ==
    ASSUME HandlersOK, NEW h \in Handlers, handler[h].pc # "free", AfterLeaving(h)
    PROVE  HandlersOK'
<1>1. CASE Finish(h)
  BY <1>1, FinishType
<1>2. CASE handler' = [handler EXCEPT ![h].pc = "open", ![h].stay = 0]
  <2> SUFFICES ASSUME NEW e, e = [handler[h] EXCEPT !.pc = "open", !.stay = 0] PROVE HandlersOK'
    OBVIOUS
  <2>1. handler[h] \in Handling /\ Fit(handler[h])
    BY DEF HandlersOK
  <2>2. e \in Handling /\ Fit(e)
    BY <2>1 DEF Handling, Fit
  <2>3. handler' = [handler EXCEPT ![h] = e]
    BY <1>2, <2>1
  <2> QED BY <2>2, <2>3, HandlerPut
<1> QED
  BY <1>1, <1>2 DEF AfterLeaving

LEMMA EventType ==
    ASSUME Typed, NEW u \in Members, NEW to \in Places, NEW stay \in Nat,
           NEW pc \in {"list", "record", "credit"},
           NEW e, e = Event(u, to, pc) \/ e = [Event(u, to, pc) EXCEPT !.stay = stay]
    PROVE  /\ e \in Handling /\ Fit(e) /\ e.pc = pc /\ e.user = u /\ e.to = to /\ e.life = life
           /\ e.todo = {}
<1> DEFINE at == IF to = Nowhere THEN 0 ELSE now
           event == [Free EXCEPT !.pc = pc, !.user = u, !.to = to, !.life = life, !.at = at]
<1>1. at \in Nat /\ life \in Lives
  BY DEF Typed, WorldOK, StoresOK
<1>2. Event(u, to, pc) = event
  BY DEF Event
<1> HIDE DEF at
<1>3. Free \in Handling /\ Free.todo = {}
  BY NothingTyped DEF Free
<1> HIDE DEF Free
<1>4. /\ event \in Handling /\ event.pc = pc /\ event.user = u /\ event.to = to
      /\ event.life = life /\ event.todo = {}
  BY <1>1, <1>3 DEF Handling
<1> HIDE DEF event
<1>5. e = event \/ e = [event EXCEPT !.stay = stay]
  BY <1>2
<1>6. /\ e \in Handling /\ e.pc = pc /\ e.user = u /\ e.to = to /\ e.life = life /\ e.todo = {}
  BY <1>4, <1>5 DEF Handling
<1> QED
  BY <1>6 DEF Fit

LEMMA NewEvent ==
    ASSUME Typed, NEW u \in Members, NEW to \in Places, NEW pc \in {"list", "record", "credit"}
    PROVE  /\ Event(u, to, pc).pc = pc /\ Event(u, to, pc).user = u /\ Event(u, to, pc).to = to
           /\ Event(u, to, pc).life = life /\ Event(u, to, pc).todo = {}
<1>1. 0 \in Nat
  OBVIOUS
<1>2. /\ Event(u, to, pc) \in Handling /\ Fit(Event(u, to, pc))
      /\ Event(u, to, pc).pc = pc /\ Event(u, to, pc).user = u /\ Event(u, to, pc).to = to
      /\ Event(u, to, pc).life = life /\ Event(u, to, pc).todo = {}
  BY <1>1, EventType
<1> QED
  BY <1>2

LEMMA SessionPut ==
    ASSUME StoresOK, Started, NEW l \in Lives, NEW u \in Members, NEW x \in Session,
           x.start <= now, sessions' = [sessions EXCEPT ![l][u] = x]
    PROVE  /\ sessions' \in [Lives -> [Members -> Session]]
           /\ \A k \in Lives, v \in Members :
                sessions'[k][v] = IF k = l /\ v = u THEN x ELSE sessions[k][v]
           /\ \A k \in Lives, v \in Members : sessions'[k][v].start <= now
<1>1. sessions \in [Lives -> [Members -> Session]]
  BY DEF StoresOK
<1>2. sessions' \in [Lives -> [Members -> Session]]
  <2>1. [sessions[l] EXCEPT ![u] = x] \in [Members -> Session]
    BY <1>1
  <2>2. sessions' = [sessions EXCEPT ![l] = [sessions[l] EXCEPT ![u] = x]]
    BY <1>1
  <2> QED BY <1>1, <2>1, <2>2
<1>3. \A k \in Lives, v \in Members :
         sessions'[k][v] = IF k = l /\ v = u THEN x ELSE sessions[k][v]
  BY <1>1
<1> QED
  BY <1>2, <1>3 DEF Started

LEMMA TypedMove ==
    ASSUME Typed, NEW h \in Handlers, NEW u \in Members, NEW c \in Places,
           Join(h, u, c) \/ LeaveOrSwitch(h, u, c) \/ MoveUntracked(h, u, c)
    PROVE  Typed'
<1>1. UNCHANGED <<now, spent, life, pings, sweeping, rows, failures>>
  BY DEF Join, LeaveOrSwitch, MoveUntracked, Moves
<1>2. where' \in [Members -> Places] /\ overtaken' \subseteq Members /\ events' \in Nat
  BY DEF Join, LeaveOrSwitch, MoveUntracked, Moves, Occurs, Typed, WorldOK
<1>3. WorldOK' /\ SweepOK' /\ RowsOK'
  BY <1>1, <1>2 DEF Typed, WorldOK, SweepOK, RowsOK, rows, sweeping
<1>4. /\ now \in Nat /\ life \in Lives /\ NoSession \in Session /\ NoSession.start <= now
      /\ [channel |-> c, start |-> now] \in Session
      /\ [channel |-> c, start |-> now].start <= now
      /\ sessions[life][u] \in Session /\ sessions[life][u].start <= now
  BY NothingTyped DEF Typed, WorldOK, StoresOK, Started, NoSession, Session
<1>5. StoresOK' /\ Started'
  <2>1. CASE sessions' = sessions
    BY <1>1, <2>1 DEF Typed, StoresOK, Started
  <2>2. CASE sessions' = [sessions EXCEPT ![life][u] = [channel |-> c, start |-> now]]
    BY <1>1, <1>4, <2>2, SessionPut DEF Typed, StoresOK, Started
  <2>3. CASE sessions' = [sessions EXCEPT ![life][u] = NoSession]
    BY <1>1, <1>4, <2>3, SessionPut DEF Typed, StoresOK, Started
  <2> QED BY <2>1, <2>2, <2>3 DEF Join, LeaveOrSwitch, MoveUntracked, Popped
<1>6. HandlersOK'
  <2>1. CASE handler' = handler
    BY <2>1 DEF Typed, HandlersOK
  <2>2. CASE handler' = [handler EXCEPT ![h] = Event(u, c, "list")]
    <3>1. Event(u, c, "list") \in Handling /\ Fit(Event(u, c, "list"))
      BY EventType
    <3> QED BY <2>2, <3>1, HandlerPut DEF Typed
  <2>3. CASE handler' = [handler EXCEPT ![h] =
                           [Event(u, c, "credit") EXCEPT !.stay = now - sessions[life][u].start]]
    <3>1. now - sessions[life][u].start \in Nat
      BY <1>4 DEF Session
    <3>2. /\ [Event(u, c, "credit") EXCEPT !.stay = now - sessions[life][u].start] \in Handling
          /\ Fit([Event(u, c, "credit") EXCEPT !.stay = now - sessions[life][u].start])
      BY <3>1, EventType
    <3> QED BY <2>3, <3>2, HandlerPut DEF Typed
  <2> QED BY <2>1, <2>2, <2>3 DEF Join, LeaveOrSwitch, MoveUntracked
<1> QED
  BY <1>3, <1>5, <1>6 DEF Typed

LEMMA TypedTick == ASSUME Typed, Tick PROVE Typed'
<1>1. WorldOK' /\ StoresOK' /\ SweepOK' /\ HandlersOK' /\ RowsOK'
  BY DEF Tick, Typed, WorldOK, StoresOK, SweepOK, HandlersOK, RowsOK, stores, sweeping, rows
<1>2. Started'
  <2> SUFFICES ASSUME NEW l \in Lives, NEW u \in Members
               PROVE  sessions'[l][u].start <= now'
    BY DEF Started
  <2>1. sessions[l][u] \in Session /\ sessions[l][u].start <= now /\ now \in Nat
    BY DEF Typed, StoresOK, Started, WorldOK
  <2> QED BY <2>1 DEF Tick, stores, Session
<1> QED
  BY <1>1, <1>2 DEF Typed

LEMMA TypedMessage ==
    ASSUME Typed, NEW h \in Handlers, NEW u \in Members, Message(h, u)
    PROVE  Typed'
<1>1. Event(u, Nowhere, "record") \in Handling /\ Fit(Event(u, Nowhere, "record"))
  <2>1. "record" \in {"list", "record", "credit"} /\ 0 \in Nat /\ Nowhere \in Places
    BY NothingTyped
  <2> QED BY <2>1, EventType
<1>2. HandlersOK'
  BY <1>1, HandlerPut DEF Message, Typed
<1>3. WorldOK' /\ StoresOK' /\ SweepOK' /\ RowsOK' /\ Started'
  BY DEF Message, Occurs, Typed, WorldOK, StoresOK, Started, SweepOK, RowsOK,
         stores, sweeping, rows
<1> QED
  BY <1>2, <1>3 DEF Typed

(* Steps of a handler that touch at most the rows. *)
LEMMA TypedCredits ==
    ASSUME Typed, NEW h \in Handlers,
           \/ NotInVoice(h) \/ CreditPing(h) \/ CreditStay(h) \/ StayBoost(h)
           \/ JoinBoost(h) \/ CreditResponder(h) \/ CreditHost(h) \/ FailEvent(h)
    PROVE  Typed'
<1>1. handler[h] \in Handling /\ HandlersOK /\ RowsOK /\ handler[h].stay \in Nat
  BY DEF Typed, HandlersOK, Handling
<1>2. WorldOK' /\ StoresOK' /\ SweepOK' /\ Started'
  <2>1. UNCHANGED <<world, stores, sweeping, overtaken>> /\ failures' \in {failures, failures + 1}
    BY DEF NotInVoice, CreditPing, CreditStay, StayBoost, JoinBoost, CreditResponder, CreditHost,
           FailEvent, Fails
  <2> QED
    BY <2>1 DEF Typed, WorldOK, StoresOK, Started, SweepOK, world, stores, sweeping
<1>3. RowsOK'
  <2>1. CASE UNCHANGED rows
    BY <1>1, <2>1 DEF RowsOK, rows
  <2>2. CASE CreditPing(h)
    BY <1>1, <2>2, AddType DEF CreditPing, RowsOK
  <2>3. CASE CreditStay(h)
    BY <1>1, <2>3, AddType DEF CreditStay, RowsOK
  <2>4. CASE StayBoost(h) \/ JoinBoost(h)
    BY <1>1, <2>4, RaiseType DEF StayBoost, JoinBoost, RowsOK
  <2>5. CASE CreditResponder(h)
    <3>1. Speed(handler[h].at - CurrentPing(h).at) \in Nat
      BY DEF Speed
    <3> HIDE DEF Speed
    <3> QED BY <1>1, <2>5, <3>1, AddType DEF CreditResponder, RowsOK
  <2>6. CASE CreditHost(h)
    BY <1>1, <2>6, AddType DEF CreditHost, RowsOK
  <2> QED
    BY <2>1, <2>2, <2>3, <2>4, <2>5, <2>6 DEF NotInVoice, FailEvent
<1>4. HandlersOK'
  <2>1. CASE Finish(h)
    BY <1>1, <2>1, FinishType
  <2>2. CASE CreditStay(h) \/ StayBoost(h) \/ (FailEvent(h) /\ handler[h].pc \in {"credit", "stay"})
    BY <1>1, <2>2, AfterLeavingType, GotoType DEF CreditStay, StayBoost, FailEvent
  <2>3. CASE JoinBoost(h) \/ CreditResponder(h)
    BY <1>1, <2>3, GotoType DEF JoinBoost, CreditResponder
  <2>4. CASE CreditHost(h)
    <3> SUFFICES ASSUME NEW e, e = [handler[h] EXCEPT !.pc = "next", !.ping = NoPing]
                 PROVE  HandlersOK'
      OBVIOUS
    <3>1. handler' = [handler EXCEPT ![h] = e] /\ handler[h].pc = "host" /\ Fit(handler[h])
      BY <1>1, <2>4 DEF CreditHost, HandlersOK
    <3>2. e \in Handling /\ Fit(e)
      BY <1>1, <3>1 DEF Handling, Fit
    <3> QED BY <1>1, <3>1, <3>2, HandlerPut
  <2> QED BY <2>1, <2>2, <2>3, <2>4 DEF NotInVoice, CreditPing, FailEvent
<1> QED
  BY <1>2, <1>3, <1>4 DEF Typed

LEMMA TypedOpen ==
    ASSUME Typed, NEW h \in Handlers, Open(h)
    PROVE  Typed'
<1>1. /\ handler[h] \in Handling /\ Fit(handler[h]) /\ handler[h].user \in Members
      /\ handler[h].life \in Lives /\ now \in Nat
      /\ [channel |-> handler[h].to, start |-> now] \in Session
      /\ [channel |-> handler[h].to, start |-> now].start <= now
  BY DEF Open, Typed, HandlersOK, Fit, Handling, Session, WorldOK
<1>2. UNCHANGED <<world, life, pings, sweeping, overtaken, rows, failures>>
  BY DEF Open
<1>3. WorldOK' /\ SweepOK' /\ RowsOK'
  BY <1>2 DEF Typed, WorldOK, SweepOK, RowsOK, world, sweeping, rows
<1>4. StoresOK' /\ Started'
  BY <1>1, <1>2, SessionPut DEF Open, Typed, StoresOK, Started, world
<1>5. HandlersOK'
  BY GotoType DEF Open, Typed
<1> QED
  BY <1>3, <1>4, <1>5 DEF Typed

LEMMA PingPut ==
    ASSUME StoresOK, NEW l \in Lives, NEW m \in Pings, NEW p \in Ping,
           pings' = [pings EXCEPT ![l][m] = p]
    PROVE  /\ pings' \in [Lives -> [Pings -> Ping]]
           /\ \A k \in Lives, n \in Pings :
                pings'[k][n] = IF k = l /\ n = m THEN p ELSE pings[k][n]
<1>1. pings \in [Lives -> [Pings -> Ping]]
  BY DEF StoresOK
<1>2. [pings[l] EXCEPT ![m] = p] \in [Pings -> Ping]
  BY <1>1
<1>3. pings' = [pings EXCEPT ![l] = [pings[l] EXCEPT ![m] = p]]
  BY <1>1
<1> QED
  BY <1>1, <1>2, <1>3

(* What register_ping_message does, with its new session p. *)
Registered(h, m, p) ==
    /\ pings' = [pings EXCEPT ![life][m] = p]
    /\ p.open /\ p.first = {} /\ p.extra = {}
    /\ life \in Lives /\ \A k \in Lives : ~pings[k][m].open
    /\ Goto(h, "opened") /\ handler[h].pc = "record"
    /\ UNCHANGED <<world, life, sessions, sweeping, overtaken, rows, failures>>

LEMMA RegisterStep ==
    ASSUME Typed, NEW h \in Handlers, NEW m \in Pings, NEW roles \in RoleSets, Register(h, m, roles)
    PROVE  \E p \in Ping : Registered(h, m, p)
<1> DEFINE u == handler[h].user
           p == [NotOpen EXCEPT !.open = TRUE, !.host = u, !.channel = where[u], !.at = now,
                                !.roles = roles]
<1>1. /\ handler[h] \in Handling /\ u \in Members /\ life \in Lives /\ now \in Nat
      /\ where[u] \in Places /\ roles \in SUBSET Members
  BY VoiceAssumption DEF Register, Typed, HandlersOK, Fit, Handling, WorldOK, StoresOK
<1>2. NotOpen \in Ping /\ NotOpen.first = {} /\ NotOpen.extra = {}
  BY NothingTyped DEF NotOpen
<1> HIDE DEF NotOpen, u
<1>3. p \in Ping /\ p.open /\ p.first = {} /\ p.extra = {}
  BY <1>1, <1>2 DEF Ping
<1>4. pings' = [pings EXCEPT ![life][m] = p]
  BY DEF Register, u
<1> HIDE DEF p
<1> QED
  BY <1>1, <1>3, <1>4 DEF Register, Registered

LEMMA TypedRegister ==
    ASSUME Typed, NEW h \in Handlers, NEW m \in Pings, NEW roles \in RoleSets, Register(h, m, roles)
    PROVE  Typed'
<1>1. /\ pings' \in [Lives -> [Pings -> Ping]] /\ Goto(h, "opened") /\ handler[h].pc = "record"
      /\ UNCHANGED <<world, life, sessions, sweeping, overtaken, rows, failures>>
  <2>1. PICK p \in Ping : Registered(h, m, p)
    BY RegisterStep
  <2>2. pings' \in [Lives -> [Pings -> Ping]]
    BY <2>1, PingPut DEF Typed, Registered
  <2> QED BY <2>1, <2>2 DEF Registered
<1>2. HandlersOK'
  BY <1>1, GotoType DEF Typed
<1>3. WorldOK' /\ StoresOK' /\ SweepOK' /\ RowsOK' /\ Started'
  BY <1>1 DEF Typed, WorldOK, StoresOK, Started, SweepOK, RowsOK, world, sweeping, rows
<1> QED
  BY <1>2, <1>3 DEF Typed

LEMMA PlaceType ==
    ASSUME NEW p \in Ping, NEW u \in Members
    PROVE  PlaceIn(p, u) \in Ping
BY DEF PlaceIn, Ping

(* What a placement does, with the next state e of its handler. *)
Placed(h, m, e) ==
    /\ handler' = [handler EXCEPT ![h] = e]
    /\ Fit(e) /\ e.pc \in {"next", "boost", "answer"} /\ e.user = handler[h].user
    /\ e.life = handler[h].life /\ e.todo = handler[h].todo \ {m} /\ e.to = handler[h].to
    /\ handler[h].pc = "next" /\ m \in handler[h].todo
    /\ handler[h].life \in Lives /\ handler[h].user \in Members
    /\ pings' = [pings EXCEPT ![handler[h].life][m] =
                    PlaceIn(pings[handler[h].life][m], handler[h].user)]
    /\ UNCHANGED <<world, life, sessions, sweeping, overtaken, rows, failures>>

LEMMA PlaceStep ==
    ASSUME Typed, NEW h \in Handlers, NEW m \in Pings, Place(h, m)
    PROVE  \E e \in Handling : Placed(h, m, e)
<1>1. handler[h] \in Handling /\ Fit(handler[h]) /\ handler[h].pc = "next"
  BY DEF Typed, HandlersOK, Place
<1>2. handler[h].user \in Members /\ handler[h].life \in Lives
  BY <1>1 DEF Fit, Handling
<1> DEFINE here == handler[h].user \in Joiners(pings[handler[h].life][m])
           placed == PlaceIn(pings[handler[h].life][m], handler[h].user)
           ping == IF here THEN NoPing ELSE m
           pc == CASE here -> "next"
                   [] ~here /\ handler[h].user \in placed.first -> "boost"
                   [] OTHER -> "answer"
           e == [handler[h] EXCEPT !.todo = @ \ {m}, !.ping = ping, !.pc = pc]
<1>3. handler' = [handler EXCEPT ![h] = e]
  BY DEF Place
<1>4. ping \in Pings \cup {NoPing} /\ pc \in {"next", "boost", "answer"} /\ (pc # "next" => ping \in Pings)
  BY DEF Place
<1> HIDE DEF ping, pc
<1>5. /\ e \in Handling /\ e.pc = pc /\ e.ping = ping /\ e.user = handler[h].user
      /\ e.life = handler[h].life /\ e.todo = handler[h].todo \ {m} /\ e.to = handler[h].to
  BY <1>1, <1>4 DEF Handling
<1> HIDE DEF e
<1>6. Fit(e)
  BY <1>2, <1>4, <1>5 DEF Fit
<1> QED
  BY <1>2, <1>3, <1>4, <1>5, <1>6 DEF Place, Placed

LEMMA TypedPlace ==
    ASSUME Typed, NEW h \in Handlers, NEW m \in Pings, Place(h, m)
    PROVE  Typed'
<1>1. PICK e \in Handling : Placed(h, m, e)
  BY PlaceStep
<1>2. HandlersOK'
  BY <1>1, HandlerPut DEF Typed, Placed
<1>3. PlaceIn(pings[handler[h].life][m], handler[h].user) \in Ping
  BY <1>1, PlaceType DEF Typed, StoresOK, Placed
<1>4. pings' \in [Lives -> [Pings -> Ping]]
  BY <1>1, <1>3, PingPut DEF Typed, Placed
<1>5. WorldOK' /\ StoresOK' /\ SweepOK' /\ RowsOK' /\ Started'
  BY <1>1, <1>4 DEF Placed, Typed, WorldOK, StoresOK, Started, SweepOK, RowsOK, world, sweeping, rows
<1> QED
  BY <1>2, <1>5 DEF Typed

LEMMA ListStep ==
    ASSUME Typed, NEW h \in Handlers, ListPings(h)
    PROVE  \E e \in Handling :
             /\ handler' = [handler EXCEPT ![h] = e] /\ Fit(e)
             /\ e.pc = "next" /\ e.user = handler[h].user /\ e.life = handler[h].life
             /\ e.todo = Answered(h) /\ e.to = handler[h].to
<1>1. handler[h] \in Handling /\ Fit(handler[h]) /\ handler[h].pc = "list"
  BY DEF Typed, HandlersOK, ListPings
<1>2. Answered(h) \subseteq Pings
  BY DEF Answered
<1> SUFFICES ASSUME NEW todo, todo = Answered(h)
             PROVE  \E e \in Handling :
                       /\ handler' = [handler EXCEPT ![h] = e] /\ Fit(e)
                       /\ e.pc = "next" /\ e.user = handler[h].user /\ e.life = handler[h].life
                       /\ e.todo = todo /\ e.to = handler[h].to
  OBVIOUS
<1> DEFINE e == [handler[h] EXCEPT !.todo = todo, !.pc = "next"]
<1>3. /\ e \in Handling /\ e.pc = "next" /\ e.user = handler[h].user /\ e.life = handler[h].life
      /\ e.todo = todo /\ e.to = handler[h].to
  BY <1>1, <1>2 DEF Handling
<1>4. handler' = [handler EXCEPT ![h] = e]
  BY DEF ListPings
<1> HIDE DEF e
<1>5. Fit(e)
  BY <1>1, <1>3 DEF Fit
<1> QED
  BY <1>3, <1>4, <1>5

LEMMA TypedList ==
    ASSUME Typed, NEW h \in Handlers, ListPings(h)
    PROVE  Typed'
<1>1. HandlersOK'
  BY ListStep, HandlerPut DEF Typed
<1>2. WorldOK' /\ StoresOK' /\ SweepOK' /\ RowsOK' /\ Started'
  BY DEF ListPings, Typed, WorldOK, StoresOK, Started, SweepOK, RowsOK,
         world, stores, sweeping, rows
<1> QED
  BY <1>1, <1>2 DEF Typed

LEMMA TypedSetRoster ==
    ASSUME Typed, NEW h \in Handlers, SetRoster(h)
    PROVE  Typed'
<1>1. HandlersOK' /\ handler[h].life \in Lives /\ handler[h].at \in Nat
  BY FinishType DEF SetRoster, Typed, HandlersOK, Handling
<1>2. roster' \subseteq Boost
  BY <1>1, ExtraBoostsType, TypedOK DEF SetRoster
<1>3. WorldOK' /\ StoresOK' /\ SweepOK' /\ RowsOK' /\ Started'
  BY <1>2 DEF SetRoster, Typed, WorldOK, StoresOK, Started, SweepOK, RowsOK,
              world, stores, rows
<1> QED
  BY <1>1, <1>3 DEF Typed

LookAt(run, passed, survivors, b) ==
    /\ sweep' = [run EXCEPT !.pc = "looking", !.busy = {b},
                   !.todo = @ \ (passed \cup {b}), !.survivors = survivors]
    /\ UNCHANGED roster

(* Where a run of VcBoostTask stands after a look at its roster. *)
Looked(run, passed, survivors) ==
    /\ passed \subseteq run.todo /\ \A b \in passed : ~Due(run, b)
    /\ survivors = run.survivors \cup {b \in passed : Kept(run, b)}
    /\ \/ passed = run.todo /\ roster' = survivors /\ sweep' = Asleep
       \/ \E b \in run.todo \ passed : LookAt(run, passed, survivors, b)

LEMMA LookStep ==
    ASSUME NEW run, GoOn(run)
    PROVE  \E passed, survivors : Looked(run, passed, survivors)
BY DEF GoOn, Looked, LookAt

LEMMA GoOnType ==
    ASSUME SweepOK, NEW run \in Sweep, GoOn(run)
    PROVE  roster' \subseteq Boost /\ sweep' \in Sweep
<1>1. PICK passed, survivors : Looked(run, passed, survivors)
  BY LookStep
<1>2. survivors \subseteq Boost /\ passed \subseteq Boost
  BY <1>1 DEF Looked, Sweep
<1>3. CASE roster' = survivors /\ sweep' = Asleep
  BY <1>2, <1>3, NothingTyped
<1>4. ASSUME NEW b \in run.todo \ passed, LookAt(run, passed, survivors, b)
      PROVE  roster' \subseteq Boost /\ sweep' \in Sweep
  <2>1. sweep' \in Sweep
    BY <1>2, <1>4 DEF Sweep, LookAt
  <2> QED BY <1>4, <2>1 DEF SweepOK, LookAt
<1> QED
  BY <1>1, <1>3, <1>4 DEF Looked

LEMMA TypedSweep ==
    ASSUME Typed, StartSweep \/ SweepStep \/ FailSweep
    PROVE  Typed'
<1>1. /\ now \in Nat /\ life \in Lives /\ SweepOK /\ RowsOK /\ failures \in Nat
      /\ Asleep \in Sweep /\ sweep \in Sweep /\ Period \in Nat
  BY NothingTyped, Numbers DEF Typed, WorldOK, StoresOK, SweepOK
<1>2. SweepOK'
  <2>1. CASE StartSweep
    <3> DEFINE run == [Asleep EXCEPT !.at = now, !.life = life, !.current = roster, !.todo = roster]
    <3>1. run \in Sweep
      BY <1>1 DEF Sweep, SweepOK
    <3>2. GoOn(run) /\ nextSweep' = now + Period
      BY <2>1 DEF StartSweep
    <3> HIDE DEF run
    <3> QED BY <1>1, <3>1, <3>2, GoOnType DEF SweepOK
  <2>2. CASE ContinueSweep
    <3> DEFINE run == [sweep EXCEPT !.busy = {}]
    <3>1. run \in Sweep
      BY <1>1 DEF Sweep
    <3>2. GoOn(run) /\ nextSweep' = nextSweep
      BY <2>2 DEF ContinueSweep
    <3> HIDE DEF run
    <3> QED BY <1>1, <3>1, <3>2, GoOnType DEF SweepOK
  <2>3. ASSUME NEW b \in sweep.busy, ApplyBoost(b)
        PROVE  SweepOK'
    <3>1. b \in Boost
      BY <1>1 DEF Sweep
    <3>2. [b EXCEPT !.last = sweep.at] \in Boost
      BY <1>1, <3>1 DEF Boost, Sweep
    <3>3. sweep' \in Sweep
      BY <1>1, <2>3, <3>2 DEF ApplyBoost, Sweep
    <3> QED BY <1>1, <2>3, <3>3 DEF ApplyBoost, SweepOK
  <2>4. CASE FailSweep
    BY <1>1, <2>4 DEF FailSweep, SweepOK
  <2> QED BY <2>1, <2>2, <2>3, <2>4 DEF SweepStep
<1>3. RowsOK'
  BY <1>1, RaiseType DEF StartSweep, SweepStep, ContinueSweep, ApplyBoost, FailSweep, RowsOK, rows
<1>4. WorldOK' /\ StoresOK' /\ Started' /\ HandlersOK'
  <2>1. UNCHANGED <<world, stores, handler, overtaken>> /\ failures' \in {failures, failures + 1}
    BY DEF StartSweep, SweepStep, ContinueSweep, ApplyBoost, FailSweep, Fails
  <2> QED
    BY <1>1, <2>1 DEF Typed, WorldOK, StoresOK, Started, HandlersOK, world, stores
<1> QED
  BY <1>2, <1>3, <1>4 DEF Typed

LEMMA UnseenType ==
    ASSUME Typed, NewLife, MovesUnseen
    PROVE  /\ where' \in [Members -> Places] /\ StoresOK' /\ Started'
           /\ UNCHANGED <<now, spent, events, sessions, pings>> /\ life' = life + 1
<1>1. life' \in Lives
  BY Numbers DEF NewLife, Typed, StoresOK, Lives
<1>2. where' \in [Members -> Places]
  BY NamesAssumption DEF MovesUnseen, Typed, WorldOK, Places
<1> QED
  BY <1>1, <1>2 DEF NewLife, MovesUnseen, Typed, StoresOK, Started

LEMMA TypedRestart == ASSUME Typed, Restart PROVE Typed'
<1>1. Cardinality({h \in Handlers : handler[h].pc # "free"}) \in Nat
  <2>1. IsFiniteSet(Handlers) /\ {h \in Handlers : handler[h].pc # "free"} \subseteq Handlers
    BY VoiceAssumption
  <2> QED BY <2>1, FS_Subset, FS_CardinalityType
<1>2. WorldOK' /\ StoresOK' /\ Started'
  BY <1>1, UnseenType DEF Restart, Fails, Typed, WorldOK
<1>3. HandlersOK'
  <2>1. Fit(Free)
    BY DEF Fit, Free
  <2> QED BY <2>1, NothingTyped DEF Restart, HandlersOK
<1>4. SweepOK' /\ RowsOK'
  BY NothingTyped DEF Restart, SweepOK, Typed, RowsOK, rows
<1> QED
  BY <1>2, <1>3, <1>4 DEF Typed

LEMMA TypedRemoved == ASSUME Typed, GuildRemoved PROVE Typed'
<1>1. WorldOK' /\ StoresOK' /\ Started'
  BY UnseenType DEF GuildRemoved, Fails, Typed, WorldOK
<1>2. HandlersOK' /\ SweepOK' /\ RowsOK'
  BY DEF GuildRemoved, HandlersOK, SweepOK, Typed, RowsOK, rows, sweeping
<1> QED
  BY <1>1, <1>2 DEF Typed

LEMMA TypedStutter == ASSUME Typed, UNCHANGED vars PROVE Typed'
BY DEF vars, Typed, WorldOK, StoresOK, Started, SweepOK, HandlersOK, RowsOK,
       world, stores, sweeping, rows

LEMMA TypedInit == Init => Typed
<1> SUFFICES ASSUME Init PROVE Typed
  OBVIOUS
<1>1. WorldOK
  BY NothingTyped, NamesAssumption DEF Init, WorldOK, Places
<1>2. StoresOK /\ Started
  BY NothingTyped, Numbers DEF Init, StoresOK, Started, NoSession
<1>3. HandlersOK
  BY NothingTyped DEF Init, HandlersOK, Fit, Free
<1>4. SweepOK /\ RowsOK
  BY NothingTyped DEF Init, SweepOK, RowsOK
<1> QED
  BY <1>1, <1>2, <1>3, <1>4 DEF Typed

LEMMA ItineraryType == \A x \in Itinerary : x[1] \in Members /\ x[2] \in Places
BY NamesAssumption DEF Places

LEMMA TypedInductive == ASSUME Typed, [Next]_vars PROVE Typed'
<1>1. ASSUME Discord PROVE Typed'
  <2>1. ASSUME NEW h \in Handlers, NEW x \in Itinerary,
               Join(h, x[1], x[2]) \/ LeaveOrSwitch(h, x[1], x[2]) \/ MoveUntracked(h, x[1], x[2])
        PROVE  Typed'
    BY <2>1, ItineraryType, TypedMove
  <2>2. ASSUME NEW h \in Handlers, NEW u \in Hosts, Message(h, u)
        PROVE  Typed'
    BY <2>2, TypedMessage, NamesAssumption
  <2> QED BY <1>1, <2>1, <2>2, TypedTick DEF Discord
<1>2. ASSUME NEW h \in Handlers, HandlerStep(h) PROVE Typed'
  BY <1>2, TypedRegister, TypedCredits, TypedOpen, TypedList, TypedPlace, TypedSetRoster
     DEF HandlerStep
<1>3. ASSUME Fault PROVE Typed'
  BY <1>3, TypedCredits, TypedSweep, TypedRestart, TypedRemoved DEF Fault
<1> QED
  BY <1>1, <1>2, <1>3, TypedSweep, TypedStutter DEF Next

(* Every variable keeps its type: in particular no stay is negative.        *)
THEOREM TypeCorrect == Spec => []TypeOK
<1>1. Spec => []Typed
  BY TypedInit, TypedInductive, PTL DEF Spec
<1> QED
  BY <1>1, TypedOK, PTL

-----------------------------------------------------------------------------
(* The places of a ping. *)

Fair(p) ==
    /\ Cardinality(p.first) <= Cap
    /\ p.extra # {} => Cardinality(p.first) = Cap
    /\ p.first \cap p.extra = {}
    /\ Joiners(p) \cap (p.roles \cup {p.host}) = {}

May(u, p) == p.open /\ u # p.host /\ u \notin p.roles

(* What a handler has listed it may answer, and only open pings have places. *)
Invited == \A h \in Handlers : \A m \in handler[h].todo :
              May(handler[h].user, pings[handler[h].life][m])
Filled == \A l \in Lives, m \in Pings :
             Fair(pings[l][m]) /\ (pings[l][m].extra # {} => pings[l][m].open)

Placing == Typed /\ Invited /\ Filled

LEMMA PlacingOK == Placing => PlacesFair
<1> SUFFICES ASSUME Placing, NEW x \in AllPings PROVE Fair(PingOf(x))
  BY DEF PlacesFair, Fair
<1>1. x[1] \in Lives /\ x[2] \in Pings
  BY DEF AllPings
<1> QED
  BY <1>1 DEF Placing, Filled, PingOf

LEMMA PlaceFair ==
    ASSUME NEW p \in Ping, NEW u \in Members, Fair(p), May(u, p)
    PROVE  /\ Fair(PlaceIn(p, u)) /\ PlaceIn(p, u).open
           /\ PlaceIn(p, u).host = p.host /\ PlaceIn(p, u).roles = p.roles
           /\ PlaceIn(p, u).at = p.at /\ p.extra \subseteq PlaceIn(p, u).extra
<1>1. IsFiniteSet(p.first) /\ Cardinality(p.first) \in Nat /\ Cap \in Nat
  <2>1. p.first \subseteq Members
    BY DEF Ping
  <2> QED BY <2>1, Numbers, FS_Subset, FS_CardinalityType
<1>2. CASE u \in Joiners(p)
  <2>1. PlaceIn(p, u) = p
    BY <1>2 DEF PlaceIn
  <2> QED BY <2>1 DEF May
<1>3. CASE u \notin Joiners(p) /\ Cardinality(p.first) < Cap
  <2> SUFFICES ASSUME NEW q, q = [p EXCEPT !.first = p.first \cup {u}]
               PROVE  /\ Fair(q) /\ q.open /\ q.host = p.host /\ q.roles = p.roles
                      /\ q.at = p.at /\ p.extra \subseteq q.extra
    BY <1>3 DEF PlaceIn
  <2>1. /\ q.first = p.first \cup {u} /\ q.extra = p.extra /\ q.open = p.open /\ q.host = p.host
        /\ q.roles = p.roles /\ q.at = p.at
    BY DEF Ping
  <2>2. Cardinality(q.first) = Cardinality(p.first) + 1
    BY <1>1, <1>3, <2>1, FS_AddElement DEF Joiners
  <2>3. Cardinality(q.first) <= Cap /\ p.extra = {}
    BY <1>1, <1>3, <2>2 DEF Fair
  <2>4. q.first \cap q.extra = {} /\ Joiners(q) \cap (q.roles \cup {q.host}) = {}
    BY <1>3, <2>1, <2>3 DEF Fair, Joiners, May
  <2> QED BY <2>1, <2>3, <2>4 DEF Fair, May
<1>4. CASE u \notin Joiners(p) /\ ~(Cardinality(p.first) < Cap)
  <2> SUFFICES ASSUME NEW q, q = [p EXCEPT !.extra = p.extra \cup {u}]
               PROVE  /\ Fair(q) /\ q.open /\ q.host = p.host /\ q.roles = p.roles
                      /\ q.at = p.at /\ p.extra \subseteq q.extra
    BY <1>4 DEF PlaceIn
  <2>1. /\ q.extra = p.extra \cup {u} /\ q.first = p.first /\ q.open = p.open /\ q.host = p.host
        /\ q.roles = p.roles /\ q.at = p.at
    BY DEF Ping
  <2>2. Cardinality(q.first) = Cap
    BY <1>1, <1>4, <2>1 DEF Fair
  <2>4. q.first \cap q.extra = {} /\ Joiners(q) \cap (q.roles \cup {q.host}) = {}
    BY <1>4, <2>1 DEF Fair, Joiners, May
  <2> QED BY <1>1, <2>1, <2>2, <2>4 DEF Fair, May
<1> QED
  BY <1>2, <1>3, <1>4

(* All other steps list nothing. *)
KeepsTodo(k) ==
    \/ handler'[k].todo = {}
    \/ /\ handler'[k].todo \subseteq handler[k].todo
       /\ handler'[k].user = handler[k].user /\ handler'[k].life = handler[k].life

LEMMA TodoPut ==
    ASSUME Typed, NEW h \in Handlers, NEW e,
           \/ e.todo = {}
           \/ /\ e.todo \subseteq handler[h].todo
              /\ e.user = handler[h].user /\ e.life = handler[h].life,
           handler' = [handler EXCEPT ![h] = e]
    PROVE  \A k \in Handlers : KeepsTodo(k)
BY DEF KeepsTodo, Typed, HandlersOK

LEMMA TodoGoto ==
    ASSUME Typed, NEW h \in Handlers, NEW pc, Goto(h, pc)
    PROVE  \A k \in Handlers : KeepsTodo(k)
<1> SUFFICES ASSUME NEW e, e = [handler[h] EXCEPT !.pc = pc] PROVE \A k \in Handlers : KeepsTodo(k)
  OBVIOUS
<1>1. handler[h] \in Handling
  BY DEF Typed, HandlersOK
<1>2. e.todo = handler[h].todo /\ e.user = handler[h].user /\ e.life = handler[h].life
  BY <1>1 DEF Handling
<1>3. handler' = [handler EXCEPT ![h] = e]
  BY DEF Goto
<1> QED
  BY <1>2, <1>3, TodoPut

LEMMA TodoFinish ==
    ASSUME Typed, NEW h \in Handlers, Finish(h) \/ AfterLeaving(h)
    PROVE  \A k \in Handlers : KeepsTodo(k)
<1>1. CASE Finish(h)
  BY <1>1, TodoPut DEF Finish, Free
<1>2. CASE handler' = [handler EXCEPT ![h].pc = "open", ![h].stay = 0]
  <2> SUFFICES ASSUME NEW e, e = [handler[h] EXCEPT !.pc = "open", !.stay = 0]
               PROVE  \A k \in Handlers : KeepsTodo(k)
    OBVIOUS
  <2>1. handler[h] \in Handling
    BY DEF Typed, HandlersOK
  <2>2. e.todo = handler[h].todo /\ e.user = handler[h].user /\ e.life = handler[h].life
    BY <2>1 DEF Handling
  <2>3. handler' = [handler EXCEPT ![h] = e]
    BY <1>2, <2>1 DEF Typed, HandlersOK
  <2> QED BY <2>2, <2>3, TodoPut
<1> QED
  BY <1>1, <1>2 DEF AfterLeaving

LEMMA TodoMove ==
    ASSUME Typed, NEW h \in Handlers, NEW u \in Members, NEW c \in Places,
           Join(h, u, c) \/ LeaveOrSwitch(h, u, c) \/ MoveUntracked(h, u, c)
    PROVE  pings' = pings /\ \A k \in Handlers : KeepsTodo(k)
<1>1. CASE handler' = handler
  BY <1>1 DEF KeepsTodo, Join, LeaveOrSwitch, MoveUntracked, Moves
<1>2. CASE handler' = [handler EXCEPT ![h] = Event(u, c, "list")]
  <2>1. Event(u, c, "list").todo = {}
    BY EventType
  <2> QED BY <1>2, <2>1, TodoPut DEF Join, LeaveOrSwitch, MoveUntracked, Moves
<1>3. CASE LeaveOrSwitch(h, u, c)
  <2>1. now - sessions[life][u].start \in Nat
    <3>1. sessions[life][u] \in Session /\ sessions[life][u].start <= now /\ now \in Nat
      BY DEF Typed, StoresOK, Started, WorldOK
    <3> QED BY <3>1 DEF Session
  <2>2. [Event(u, c, "credit") EXCEPT !.stay = now - sessions[life][u].start].todo = {}
    BY <2>1, EventType
  <2> QED BY <1>3, <2>2, TodoPut DEF LeaveOrSwitch, Moves
<1> QED
  BY <1>1, <1>2, <1>3 DEF Join, MoveUntracked

LEMMA TodoHandler ==
    ASSUME Typed, NEW h \in Handlers,
           \/ NotInVoice(h) \/ CreditPing(h) \/ CreditStay(h) \/ StayBoost(h) \/ Open(h)
           \/ JoinBoost(h) \/ CreditResponder(h) \/ CreditHost(h) \/ SetRoster(h) \/ FailEvent(h)
    PROVE  pings' = pings /\ \A k \in Handlers : KeepsTodo(k)
<1>1. pings' = pings
  BY DEF NotInVoice, CreditPing, CreditStay, StayBoost, JoinBoost, CreditResponder, CreditHost,
         SetRoster, FailEvent, Open, stores
<1>2. CASE CreditHost(h)
  <2> SUFFICES ASSUME NEW e, e = [handler[h] EXCEPT !.pc = "next", !.ping = NoPing]
               PROVE  \A k \in Handlers : KeepsTodo(k)
    BY <1>1
  <2>1. handler[h] \in Handling
    BY DEF Typed, HandlersOK
  <2>2. e.todo = handler[h].todo /\ e.user = handler[h].user /\ e.life = handler[h].life
    BY <2>1 DEF Handling
  <2>3. handler' = [handler EXCEPT ![h] = e]
    BY <1>2, <2>1 DEF Typed, HandlersOK, CreditHost
  <2> QED BY <2>2, <2>3, TodoPut
<1> QED
  BY <1>1, <1>2, TodoFinish, TodoGoto
     DEF NotInVoice, CreditPing, CreditStay, StayBoost, JoinBoost, CreditResponder,
         SetRoster, FailEvent, Open

LEMMA OtherSteps ==
    ASSUME Typed, [Next]_vars
    PROVE  \/ \E h \in Handlers, m \in Pings, roles \in RoleSets : Register(h, m, roles)
           \/ \E h \in Handlers, m \in Pings : Place(h, m)
           \/ \E h \in Handlers : ListPings(h)
           \/ pings' = pings /\ \A k \in Handlers : KeepsTodo(k)
<1>1. CASE handler' = handler /\ pings' = pings
  BY <1>1 DEF KeepsTodo
<1>2. CASE Discord
  <2>1. ASSUME NEW h \in Handlers, NEW u \in Hosts, Message(h, u)
        PROVE  pings' = pings /\ \A k \in Handlers : KeepsTodo(k)
    <3>1. "record" \in {"list", "record", "credit"} /\ 0 \in Nat /\ Nowhere \in Places /\ u \in Members
      BY NothingTyped, NamesAssumption
    <3>2. Event(u, Nowhere, "record").todo = {}
      BY <3>1, EventType
    <3> QED BY <2>1, <3>2, TodoPut DEF Message, stores
  <2> QED
    BY <1>1, <1>2, <2>1, TodoMove, ItineraryType DEF Discord, Tick, stores
<1>3. CASE Restart
  BY <1>3 DEF Restart, NewLife, KeepsTodo, Free
<1>4. ASSUME NEW h \in Handlers, HandlerStep(h)
      PROVE  \/ \E m \in Pings, roles \in RoleSets : Register(h, m, roles)
             \/ \E m \in Pings : Place(h, m)
             \/ ListPings(h)
             \/ pings' = pings /\ \A k \in Handlers : KeepsTodo(k)
  BY <1>4, TodoHandler DEF HandlerStep
<1>5. CASE StartSweep \/ SweepStep \/ FailSweep \/ GuildRemoved \/ UNCHANGED vars
  BY <1>1, <1>5 DEF StartSweep, SweepStep, ContinueSweep, ApplyBoost, FailSweep, GuildRemoved,
                    NewLife, vars, stores
<1>6. CASE \E h \in Handlers : FailEvent(h)
  BY <1>6, TodoHandler
<1> QED
  BY <1>2, <1>3, <1>4, <1>5, <1>6 DEF Next, Fault

LEMMA PlacingPlace ==
    ASSUME Placing, NEW h \in Handlers, NEW m \in Pings, Place(h, m)
    PROVE  /\ Invited' /\ Filled'
           /\ \A k \in Lives, n \in Pings :
                 /\ pings[k][n].extra \subseteq pings'[k][n].extra
                 /\ pings'[k][n].at = pings[k][n].at
<1> DEFINE l == handler[h].life
           u == handler[h].user
           q == PlaceIn(pings[l][m], u)
<1>1. PICK e \in Handling : Placed(h, m, e)
  BY PlaceStep DEF Placing
<1>2. l \in Lives /\ u \in Members /\ pings[l][m] \in Ping /\ May(u, pings[l][m]) /\ Fair(pings[l][m])
  BY <1>1 DEF Placed, Placing, Typed, StoresOK, Invited, Filled
<1>3. /\ Fair(q) /\ q.open /\ q.host = pings[l][m].host /\ q.roles = pings[l][m].roles
      /\ q.at = pings[l][m].at /\ pings[l][m].extra \subseteq q.extra /\ q \in Ping
  BY <1>2, PlaceFair, PlaceType
<1>4. \A k \in Lives, n \in Pings :
         pings'[k][n] = IF k = l /\ n = m THEN q ELSE pings[k][n]
  BY <1>1, <1>2, <1>3, PingPut DEF Placed, Placing, Typed
<1> HIDE DEF q
<1>5. Filled'
  BY <1>3, <1>4 DEF Filled, Placing
<1>6. Invited'
  <2> SUFFICES ASSUME NEW k \in Handlers, NEW n \in handler'[k].todo
               PROVE  May(handler'[k].user, pings'[handler'[k].life][n])
    BY DEF Invited
  <2>1. /\ n \in handler[k].todo /\ handler'[k].user = handler[k].user
        /\ handler'[k].life = handler[k].life
    BY <1>1 DEF Placed, Placing, Typed, HandlersOK
  <2>2. n \in Pings /\ handler[k].life \in Lives
    BY <2>1 DEF Placing, Typed, HandlersOK, Handling
  <2>3. May(handler[k].user, pings[handler[k].life][n])
    BY <2>1 DEF Placing, Invited
  <2> QED BY <1>3, <1>4, <2>1, <2>2, <2>3 DEF May
<1> QED
  BY <1>3, <1>4, <1>5, <1>6

LEMMA PlacingRegister ==
    ASSUME Placing, NEW h \in Handlers, NEW m \in Pings, NEW roles \in RoleSets, Register(h, m, roles)
    PROVE  /\ Invited' /\ Filled'
           /\ \A k \in Lives, n \in Pings : pings'[k][n] = pings[k][n] \/ ~pings[k][n].open
<1>1. PICK p \in Ping : Registered(h, m, p)
  BY RegisterStep DEF Placing
<1>2. \A k \in Lives, n \in Pings :
         pings'[k][n] = IF k = life /\ n = m THEN p ELSE pings[k][n]
  BY <1>1, PingPut DEF Registered, Placing, Typed
<1>3. Fair(p) /\ p.open
  <2>1. Cardinality({}) = 0 /\ 0 <= Cap
    BY FS_EmptySet, Numbers
  <2> QED BY <1>1, <2>1 DEF Registered, Fair, Joiners
<1>4. Filled'
  BY <1>2, <1>3 DEF Filled, Placing
<1>5. \A k \in Handlers : KeepsTodo(k)
  BY <1>1, TodoGoto DEF Registered, Placing
<1>6. Invited'
  <2> SUFFICES ASSUME NEW k \in Handlers, NEW n \in handler'[k].todo
               PROVE  May(handler'[k].user, pings'[handler'[k].life][n])
    BY DEF Invited
  <2>1. /\ n \in handler[k].todo /\ handler'[k].user = handler[k].user
        /\ handler'[k].life = handler[k].life
    BY <1>5 DEF KeepsTodo
  <2>2. n \in Pings /\ handler[k].life \in Lives
    BY <2>1 DEF Placing, Typed, HandlersOK, Handling
  <2>3. May(handler[k].user, pings[handler[k].life][n])
    BY <2>1 DEF Placing, Invited
  <2>4. n # m
    BY <1>1, <2>2, <2>3 DEF Registered, May
  <2> QED BY <1>2, <2>1, <2>2, <2>3, <2>4
<1> QED
  BY <1>1, <1>2, <1>4, <1>6 DEF Registered

LEMMA PlacingList ==
    ASSUME Placing, NEW h \in Handlers, ListPings(h)
    PROVE  Invited' /\ Filled'
<1>1. PICK e \in Handling :
         /\ handler' = [handler EXCEPT ![h] = e] /\ Fit(e)
         /\ e.pc = "next" /\ e.user = handler[h].user /\ e.life = handler[h].life
         /\ e.todo = Answered(h) /\ e.to = handler[h].to
  BY ListStep DEF Placing
<1>2. pings' = pings
  BY DEF ListPings, stores
<1>3. \A n \in Answered(h) : May(handler[h].user, pings[handler[h].life][n])
  BY DEF Answered, Answers, May
<1>4. Invited'
  <2> SUFFICES ASSUME NEW k \in Handlers, NEW n \in handler'[k].todo
               PROVE  May(handler'[k].user, pings[handler'[k].life][n])
    BY <1>2 DEF Invited
  <2>1. CASE k = h
    BY <1>1, <1>3, <2>1 DEF Placing, Typed, HandlersOK
  <2>2. CASE k # h
    <3>1. handler'[k] = handler[k]
      BY <1>1, <2>2 DEF Placing, Typed, HandlersOK
    <3> QED BY <3>1 DEF Placing, Invited
  <2> QED BY <2>1, <2>2
<1> QED
  BY <1>2, <1>4 DEF Placing, Filled

LEMMA PlacingInit == Init => Placing
<1> SUFFICES ASSUME Init PROVE Placing
  OBVIOUS
<1>1. Invited
  BY DEF Init, Invited, Free
<1>2. Fair(NotOpen) /\ NotOpen.extra = {}
  <2>1. Cardinality({}) = 0 /\ 0 <= Cap
    BY FS_EmptySet, Numbers
  <2> QED BY <2>1 DEF Fair, Joiners, NotOpen
<1>3. Filled
  BY <1>2 DEF Init, Filled
<1> QED
  BY <1>1, <1>3, TypedInit DEF Placing

LEMMA PlacingInductive == ASSUME Placing, [Next]_vars PROVE Placing'
<1>1. Typed'
  BY TypedInductive DEF Placing
<1>2. ASSUME pings' = pings, \A k \in Handlers : KeepsTodo(k)
      PROVE  Invited' /\ Filled'
  BY <1>2 DEF Placing, Invited, Filled, KeepsTodo
<1>3. Invited' /\ Filled'
  BY <1>2, OtherSteps, PlacingPlace, PlacingRegister, PlacingList DEF Placing
<1> QED
  BY <1>1, <1>3 DEF Placing

(* The places of every ping are given out fairly, whatever the number of    *)
(* pings, of members and of racing events, through restarts and failures.   *)
THEOREM PlacesFairHolds == Spec => []PlacesFair
<1>1. Spec => []Placing
  BY PlacingInit, PlacingInductive, PTL DEF Spec
<1> QED
  BY <1>1, PlacingOK, PTL

-----------------------------------------------------------------------------
(* The session store. *)

Leaving == {"credit", "stay", "open"}

(* The switches still at work lead where their member is. *)
Followed ==
    \A u \in Members \ overtaken :
        /\ sessions[life][u].channel \in {Nowhere, where[u]}
        /\ \A h \in Handlers :
              /\ handler[h].user = u /\ handler[h].pc \in Leaving /\ handler[h].life = life
              => handler[h].to \in {Nowhere, where[u]}
NoneLater == /\ \A l \in Lives, u \in Members : l > life => sessions[l][u] = NoSession
             /\ \A h \in Handlers : handler[h].life <= life

Following == Typed /\ Followed /\ NoneLater

(* What every other step does to a handler. *)
KeepsCourse(k) ==
    \/ handler'[k].pc \notin Leaving /\ handler'[k].life <= life
    \/ /\ handler[k].pc \in Leaving /\ handler'[k].user = handler[k].user
       /\ handler'[k].life = handler[k].life /\ handler'[k].to = handler[k].to

LEMMA CoursePut ==
    ASSUME Typed, NoneLater, NEW h \in Handlers, NEW e,
           \/ e.pc \notin Leaving /\ e.life <= life
           \/ /\ handler[h].pc \in Leaving /\ e.user = handler[h].user
              /\ e.life = handler[h].life /\ e.to = handler[h].to,
           handler' = [handler EXCEPT ![h] = e]
    PROVE  \A k \in Handlers : KeepsCourse(k)
BY DEF KeepsCourse, Typed, HandlersOK, NoneLater

LEMMA CourseGoto ==
    ASSUME Typed, NoneLater, NEW h \in Handlers, NEW pc, pc \in Leaving => handler[h].pc \in Leaving,
           Goto(h, pc)
    PROVE  \A k \in Handlers : KeepsCourse(k)
<1> SUFFICES ASSUME NEW e, e = [handler[h] EXCEPT !.pc = pc] PROVE \A k \in Handlers : KeepsCourse(k)
  OBVIOUS
<1>1. handler[h] \in Handling /\ handler[h].life <= life
  BY DEF Typed, HandlersOK, NoneLater
<1>2. /\ e.pc = pc /\ e.user = handler[h].user /\ e.life = handler[h].life
      /\ e.to = handler[h].to
  BY <1>1 DEF Handling
<1>3. handler' = [handler EXCEPT ![h] = e]
  BY DEF Goto
<1> QED
  BY <1>1, <1>2, <1>3, CoursePut

LEMMA CourseFinish ==
    ASSUME Typed, NoneLater, NEW h \in Handlers,
           Finish(h) \/ (AfterLeaving(h) /\ handler[h].pc \in Leaving)
    PROVE  \A k \in Handlers : KeepsCourse(k)
<1>1. CASE Finish(h)
  <2>1. Free.pc \notin Leaving /\ Free.life <= life
    BY DEF Free, Leaving, Typed, StoresOK, Lives
  <2> QED BY <1>1, <2>1, CoursePut DEF Finish
<1>2. CASE handler' = [handler EXCEPT ![h].pc = "open", ![h].stay = 0] /\ handler[h].pc \in Leaving
  <2> SUFFICES ASSUME NEW e, e = [handler[h] EXCEPT !.pc = "open", !.stay = 0]
               PROVE  \A k \in Handlers : KeepsCourse(k)
    OBVIOUS
  <2>1. handler[h] \in Handling
    BY DEF Typed, HandlersOK
  <2>2. e.user = handler[h].user /\ e.life = handler[h].life /\ e.to = handler[h].to
    BY <2>1 DEF Handling
  <2>3. handler' = [handler EXCEPT ![h] = e]
    BY <1>2, <2>1 DEF Typed, HandlersOK
  <2> QED BY <1>2, <2>2, <2>3, CoursePut
<1> QED
  BY <1>1, <1>2 DEF AfterLeaving

LEMMA CourseHandler ==
    ASSUME Following, NEW h \in Handlers,
           \/ \E m \in Pings, roles \in RoleSets : Register(h, m, roles)
           \/ \E m \in Pings : Place(h, m)
           \/ NotInVoice(h) \/ CreditPing(h) \/ CreditStay(h) \/ StayBoost(h) \/ ListPings(h)
           \/ JoinBoost(h) \/ CreditResponder(h) \/ CreditHost(h) \/ SetRoster(h) \/ FailEvent(h)
    PROVE  UNCHANGED <<where, life, sessions, overtaken>> /\ \A k \in Handlers : KeepsCourse(k)
<1>1. UNCHANGED <<where, life, sessions, overtaken>>
  BY DEF NotInVoice, CreditPing, CreditStay, StayBoost, JoinBoost, CreditResponder, CreditHost,
         SetRoster, FailEvent, ListPings, Register, Place, stores, world
<1>2. handler[h].life <= life /\ Typed /\ NoneLater
  BY DEF Following, NoneLater
<1>3. CASE \E m \in Pings : Place(h, m)
  <2>1. PICK m \in Pings : Place(h, m)
    BY <1>3
  <2>2. PICK e \in Handling : Placed(h, m, e)
    BY <1>2, <2>1, PlaceStep
  <2>3. e.pc \notin Leaving /\ e.life <= life /\ handler' = [handler EXCEPT ![h] = e]
    BY <1>2, <2>2 DEF Placed, Leaving
  <2> QED BY <1>1, <1>2, <2>3, CoursePut
<1>4. CASE ListPings(h)
  <2>1. PICK e \in Handling :
           /\ handler' = [handler EXCEPT ![h] = e] /\ Fit(e)
           /\ e.pc = "next" /\ e.user = handler[h].user /\ e.life = handler[h].life
           /\ e.todo = Answered(h) /\ e.to = handler[h].to
    BY <1>2, <1>4, ListStep
  <2>2. e.pc \notin Leaving /\ e.life <= life
    BY <1>2, <2>1 DEF Leaving
  <2> QED BY <1>1, <1>2, <2>1, <2>2, CoursePut
<1>5. CASE CreditHost(h)
  <2> SUFFICES ASSUME NEW e, e = [handler[h] EXCEPT !.pc = "next", !.ping = NoPing]
               PROVE  \A k \in Handlers : KeepsCourse(k)
    BY <1>1
  <2>1. handler[h] \in Handling
    BY <1>2 DEF Typed, HandlersOK
  <2>2. e.pc \notin Leaving /\ e.life <= life
    BY <1>2, <2>1 DEF Handling, Leaving
  <2>3. handler' = [handler EXCEPT ![h] = e]
    BY <1>2, <1>5, <2>1 DEF Typed, HandlersOK, CreditHost
  <2> QED BY <1>2, <2>2, <2>3, CoursePut
<1>6. CASE CreditStay(h) \/ StayBoost(h)
  BY <1>1, <1>2, <1>6, CourseGoto, CourseFinish DEF CreditStay, StayBoost, Leaving
<1>7. CASE FailEvent(h)
  BY <1>1, <1>2, <1>7, CourseFinish DEF FailEvent, Leaving
<1>8. CASE \E m \in Pings, roles \in RoleSets : Register(h, m, roles)
  BY <1>1, <1>2, <1>8, CourseGoto DEF Register, Leaving
<1>9. CASE NotInVoice(h) \/ CreditPing(h) \/ JoinBoost(h) \/ CreditResponder(h) \/ SetRoster(h)
  BY <1>1, <1>2, <1>9, CourseGoto, CourseFinish
     DEF NotInVoice, CreditPing, JoinBoost, CreditResponder, SetRoster, Leaving
<1> QED
  BY <1>3, <1>4, <1>5, <1>6, <1>7, <1>8, <1>9

LEMMA CourseKept ==
    ASSUME Following, UNCHANGED <<where, life, sessions, overtaken>>, \A k \in Handlers : KeepsCourse(k)
    PROVE  Followed' /\ NoneLater'
BY DEF Following, Followed, NoneLater, KeepsCourse

LEMMA FollowMove ==
    ASSUME Following, NEW h \in Handlers, NEW u \in Members, NEW c \in Places,
           Join(h, u, c) \/ LeaveOrSwitch(h, u, c) \/ MoveUntracked(h, u, c)
    PROVE  Followed' /\ NoneLater'
<1>1. /\ where' = [where EXCEPT ![u] = c] /\ UNCHANGED life /\ life \in Lives
      /\ overtaken' = (IF StillLeaving(u) THEN overtaken \cup {u} ELSE overtaken \ {u})
      /\ handler[h].pc = "free" /\ life <= life
  BY DEF Join, LeaveOrSwitch, MoveUntracked, Moves, Occurs, Following, Typed, StoresOK, Lives
<1>2. \A v \in Members : where'[v] = IF v = u THEN c ELSE where[v]
  BY <1>1 DEF Following, Typed, WorldOK
<1>3. /\ handler'[h] = handler[h]
         \/ (handler'[h].user = u /\ handler'[h].life = life /\ handler'[h].to = c)
      /\ \A k \in Handlers : k # h => handler'[k] = handler[k]
  <2>1. CASE handler' = handler
    BY <2>1
  <2>2. CASE handler' = [handler EXCEPT ![h] = Event(u, c, "list")]
    <3>1. /\ Event(u, c, "list").user = u /\ Event(u, c, "list").life = life
          /\ Event(u, c, "list").to = c
      BY NewEvent DEF Following
    <3> QED BY <2>2, <3>1 DEF Following, Typed, HandlersOK
  <2>3. CASE LeaveOrSwitch(h, u, c)
    <3> SUFFICES ASSUME NEW e, e = [Event(u, c, "credit") EXCEPT !.stay = now - sessions[life][u].start]
                 PROVE  /\ handler'[h] = handler[h]
                           \/ (handler'[h].user = u /\ handler'[h].life = life /\ handler'[h].to = c)
                        /\ \A k \in Handlers : k # h => handler'[k] = handler[k]
      OBVIOUS
    <3>1. now - sessions[life][u].start \in Nat
      <4>1. sessions[life][u] \in Session /\ sessions[life][u].start <= now /\ now \in Nat
        BY DEF Following, Typed, StoresOK, Started, WorldOK
      <4> QED BY <4>1 DEF Session
    <3>2. e.user = u /\ e.life = life /\ e.to = c
      <4>1. Typed
        BY DEF Following
      <4> HIDE DEF Following
      <4>2. "credit" \in {"list", "record", "credit"}
        OBVIOUS
      <4>3. /\ e \in Handling /\ Fit(e) /\ e.pc = "credit" /\ e.user = u /\ e.to = c
            /\ e.life = life /\ e.todo = {}
        BY <3>1, <4>1, <4>2, EventType
      <4> QED BY <4>3
    <3>3. handler' = [handler EXCEPT ![h] = e]
      BY <2>3 DEF LeaveOrSwitch
    <3> QED BY <3>2, <3>3 DEF Following, Typed, HandlersOK
  <2> QED BY <2>1, <2>2, <2>3 DEF Join, MoveUntracked
<1>4. /\ sessions'[life][u].channel \in {Nowhere, c}
      /\ \A l \in Lives, v \in Members : l # life \/ v # u => sessions'[l][v] = sessions[l][v]
  BY <1>1 DEF Join, LeaveOrSwitch, MoveUntracked, Popped, Following, Typed, StoresOK, NoSession
<1>5. Followed'
  <2> SUFFICES ASSUME NEW v \in Members \ overtaken'
               PROVE  /\ sessions'[life][v].channel \in {Nowhere, where'[v]}
                      /\ \A k \in Handlers :
                            /\ handler'[k].user = v /\ handler'[k].pc \in Leaving
                            /\ handler'[k].life = life
                            => handler'[k].to \in {Nowhere, where'[v]}
    BY <1>1 DEF Followed
  <2>1. CASE v = u
    <3>1. \A k \in Handlers : ~(handler[k].user = u /\ handler[k].pc \in Leaving)
      BY <1>1, <2>1 DEF StillLeaving, Leaving
    <3> QED BY <1>2, <1>3, <1>4, <2>1, <3>1
  <2>2. CASE v # u
    <3>1. v \notin overtaken
      BY <1>1, <2>2
    <3> QED BY <1>1, <1>2, <1>3, <1>4, <2>2, <3>1 DEF Following, Followed
  <2> QED BY <2>1, <2>2
<1>6. NoneLater'
  <2>1. \A l \in Lives : l > life => l # life
    BY DEF Following, Typed, StoresOK, Lives
  <2> QED BY <1>1, <1>3, <1>4, <2>1 DEF Following, NoneLater
<1> QED
  BY <1>5, <1>6

LEMMA FollowOpen ==
    ASSUME Following, NEW h \in Handlers, Open(h)
    PROVE  Followed' /\ NoneLater'
<1> DEFINE l == handler[h].life
           u == handler[h].user
<1>1. /\ l \in Lives /\ u \in Members /\ l <= life /\ life \in Nat /\ l \in Nat /\ handler[h].pc = "open"
  BY DEF Open, Following, NoneLater, Typed, StoresOK, HandlersOK, Handling, Fit, Lives
<1>2. /\ sessions'[l][u].channel = handler[h].to
      /\ \A k \in Lives, v \in Members : k # l \/ v # u => sessions'[k][v] = sessions[k][v]
  BY <1>1 DEF Open, Following, Typed, StoresOK
<1>3. UNCHANGED <<where, life, overtaken>> /\ \A k \in Handlers : KeepsCourse(k)
  BY CourseGoto DEF Open, Leaving, world, Following
<1>4. NoneLater'
  BY <1>1, <1>2, <1>3 DEF Following, NoneLater, KeepsCourse
<1>5. Followed'
  <2> SUFFICES ASSUME NEW v \in Members \ overtaken
               PROVE  /\ sessions'[life][v].channel \in {Nowhere, where[v]}
                      /\ \A k \in Handlers :
                            /\ handler'[k].user = v /\ handler'[k].pc \in Leaving
                            /\ handler'[k].life = life
                            => handler'[k].to \in {Nowhere, where[v]}
    BY <1>3 DEF Followed
  <2>1. sessions'[life][v].channel \in {Nowhere, where[v]}
    BY <1>1, <1>2 DEF Following, Followed, Leaving, Typed, StoresOK
  <2> QED BY <1>3, <2>1 DEF Following, Followed, KeepsCourse
<1> QED
  BY <1>4, <1>5

LEMMA FollowNewLife ==
    ASSUME Following, NewLife, handler' = handler \/ handler' = [h \in Handlers |-> Free]
    PROVE  Followed' /\ NoneLater'
<1>1. /\ life' = life + 1 /\ life' \in Lives /\ life \in Nat /\ sessions' = sessions
  BY Numbers DEF NewLife, Following, Typed, StoresOK, Lives
<1>2. \A h \in Handlers : handler'[h].life <= life
  BY <1>1 DEF Following, NoneLater, Free
<1>3. \A u \in Members : sessions[life'][u] = NoSession
  BY <1>1 DEF Following, NoneLater
<1>4. Followed'
  BY <1>1, <1>2, <1>3 DEF Followed, NoSession, Following, Typed, HandlersOK, Handling, Lives, Free
<1>5. NoneLater'
  <2>1. \A l \in Lives : l > life' => l > life
    BY <1>1 DEF Lives
  <2>2. \A h \in Handlers : handler'[h].life <= life'
    BY <1>1, <1>2 DEF Following, Typed, HandlersOK, Handling, Lives, Free
  <2> QED BY <1>1, <2>1, <2>2 DEF Following, NoneLater
<1> QED
  BY <1>4, <1>5

LEMMA FollowInit == Init => Following
<1> SUFFICES ASSUME Init PROVE Following
  OBVIOUS
<1>1. \A u \in Members : sessions[life][u].channel = Nowhere
  BY Numbers DEF Init, NoSession
<1>2. Followed
  BY <1>1 DEF Init, Followed, Free, Leaving
<1>3. NoneLater
  BY DEF Init, NoneLater, Free
<1> QED
  BY <1>2, <1>3, TypedInit DEF Following

LEMMA FollowInductive == ASSUME Following, [Next]_vars PROVE Following'
<1> SUFFICES Followed' /\ NoneLater'
  BY TypedInductive DEF Following
<1>2. ASSUME UNCHANGED <<where, life, sessions, overtaken, handler>>
      PROVE  Followed' /\ NoneLater'
  BY <1>2 DEF Following, Followed, NoneLater
<1>3. CASE Discord
  <2>1. ASSUME NEW h \in Handlers, NEW u \in Hosts, Message(h, u)
        PROVE  Followed' /\ NoneLater'
    <3>1. "record" \in {"list", "record", "credit"} /\ 0 \in Nat /\ Nowhere \in Places /\ u \in Members
      BY NothingTyped, NamesAssumption
    <3>2. Event(u, Nowhere, "record").pc \notin Leaving /\ Event(u, Nowhere, "record").life <= life
      <4>1. Event(u, Nowhere, "record").pc = "record" /\ Event(u, Nowhere, "record").life = life
        BY <3>1, NewEvent DEF Following
      <4>2. life <= life
        BY DEF Following, Typed, StoresOK, Lives
      <4> QED BY <4>1, <4>2 DEF Leaving
    <3> QED BY <2>1, <3>2, CoursePut, CourseKept DEF Message, stores, Following
  <2>2. ASSUME NEW h \in Handlers, NEW x \in Itinerary,
               Join(h, x[1], x[2]) \/ LeaveOrSwitch(h, x[1], x[2]) \/ MoveUntracked(h, x[1], x[2])
        PROVE  Followed' /\ NoneLater'
    BY <2>2, FollowMove, ItineraryType
  <2>3. CASE Tick
    <3>1. UNCHANGED <<where, life, sessions, overtaken, handler>>
      BY <2>3 DEF Tick, stores
    <3> QED BY <1>2, <3>1
  <2> QED
    BY <1>3, <2>1, <2>2, <2>3 DEF Discord
<1>4. ASSUME NEW h \in Handlers, HandlerStep(h) \/ FailEvent(h)
      PROVE  Followed' /\ NoneLater'
  BY <1>4, CourseHandler, CourseKept, FollowOpen DEF HandlerStep
<1>5. CASE Restart \/ GuildRemoved
  BY <1>5, FollowNewLife DEF Restart, GuildRemoved
<1>6. CASE StartSweep \/ SweepStep \/ FailSweep \/ UNCHANGED vars
  BY <1>2, <1>6 DEF StartSweep, SweepStep, ContinueSweep, ApplyBoost, FailSweep, vars, world, stores
<1> QED
  BY <1>3, <1>4, <1>5, <1>6 DEF Next, Fault

(* A session of the store means that its member is in that channel, unless  *)
(* an event has overtaken a switch of the member: however many events race, *)
(* fail, or go unseen while the bot is away.                                *)
THEOREM SessionsFollowVoiceHolds == Spec => []SessionsFollowVoice
<1>1. Following => SessionsFollowVoice
  BY DEF Following, Followed, SessionsFollowVoice
<1>2. Spec => []Following
  BY FollowInit, FollowInductive, PTL DEF Spec
<1> QED
  BY <1>1, <1>2, PTL

-----------------------------------------------------------------------------
(* The roster of VcBoostTask. *)

Same(b, c) == c.ping = b.ping /\ c.life = b.life /\ c.user = b.user

(* Every boost was handed out for an extra place, with the end of its window. *)
Backed(b) ==
    /\ b.user \in pings[b.life][b.ping].extra
    /\ b.end = pings[b.life][b.ping].at + Window

BoostsOf(run) == run.current \cup run.todo \cup run.busy \cup run.survivors

(* What a run began with is ahead of it, survives, or is rightly dropped. *)
RunKeeps(run) ==
    \A c \in run.current : \/ Has(run.todo \cup run.busy \cup run.survivors, c)
                           \/ c.user \notin HasStock
                           \/ run.at >= c.end
Tidy(run) == /\ run.pc = "boosted" => run.busy = {}
             /\ \A b, c \in run.busy : b = c

Rostered == /\ \A b \in roster \cup BoostsOf(sweep) : Backed(b)
            /\ RunKeeps(sweep) /\ Tidy(sweep) /\ sweep.at <= now

Boosting == Placing /\ Rostered

LEMMA HasSame == ASSUME NEW S, NEW b, Has(S, b) PROVE \E c \in S : Same(b, c)
BY DEF Has, Same

LEMMA SameHas == ASSUME NEW S, NEW b, NEW c \in S, Same(b, c) PROVE Has(S, b)
BY DEF Has, Same

LEMMA AsleepKeeps == RunKeeps(Asleep) /\ Tidy(Asleep) /\ BoostsOf(Asleep) = {} /\ Asleep.at = 0
                     /\ Asleep.pc = "asleep"
BY DEF RunKeeps, Tidy, BoostsOf, Asleep

LEMMA ExtrasStay ==
    ASSUME Placing, [Next]_vars, NEW k \in Lives, NEW n \in Pings
    PROVE  /\ pings[k][n].extra \subseteq pings'[k][n].extra
           /\ pings[k][n].extra # {} => pings'[k][n].at = pings[k][n].at
<1>1. CASE \E h \in Handlers, m \in Pings, roles \in RoleSets : Register(h, m, roles)
  <2>1. pings'[k][n] = pings[k][n] \/ ~pings[k][n].open
    BY <1>1, PlacingRegister
  <2>2. pings[k][n].extra # {} => pings[k][n].open
    BY DEF Placing, Filled
  <2> QED BY <2>1, <2>2
<1>2. CASE \E h \in Handlers, m \in Pings : Place(h, m)
  BY <1>2, PlacingPlace
<1>3. CASE pings' = pings
  BY <1>3
<1> QED
  BY <1>1, <1>2, <1>3, OtherSteps DEF Placing, ListPings, stores

LEMMA BackedStays ==
    ASSUME Placing, [Next]_vars, NEW b \in Boost, Backed(b)
    PROVE  Backed(b)'
<1>1. b.life \in Lives /\ b.ping \in Pings
  BY DEF Boost
<1>2. /\ pings[b.life][b.ping].extra \subseteq pings'[b.life][b.ping].extra
      /\ pings[b.life][b.ping].extra # {} => pings'[b.life][b.ping].at = pings[b.life][b.ping].at
  BY <1>1, ExtrasStay
<1> QED
  BY <1>2 DEF Backed

LEMMA SameEnd ==
    ASSUME NEW b, NEW c, Backed(b), Backed(c), Same(b, c)
    PROVE  b.end = c.end
BY DEF Backed, Same

(* The loop to its next await keeps what the run has to keep.               *)
LEMMA GoOnKeeps ==
    ASSUME NEW run \in Sweep, run.busy = {}, RunKeeps(run), GoOn(run),
           \A b \in BoostsOf(run) : Backed(b)
    PROVE  /\ RunKeeps(sweep') /\ Tidy(sweep')
           /\ \/ /\ sweep' = Asleep /\ roster' \subseteq BoostsOf(run)
                 /\ \A c \in run.current :
                       Has(roster', c) \/ c.user \notin HasStock \/ run.at >= c.end
              \/ /\ roster' = roster /\ BoostsOf(sweep') \subseteq BoostsOf(run)
                 /\ sweep'.at = run.at
<1>1. PICK passed, survivors : Looked(run, passed, survivors)
  BY LookStep
<1>2. /\ survivors = run.survivors \cup {b \in passed : Kept(run, b)} /\ passed \subseteq run.todo
  BY <1>1 DEF Looked
<1>3. ASSUME NEW c \in run.current
      PROVE  \/ Has((run.todo \ passed) \cup survivors, c)
             \/ c.user \notin HasStock \/ run.at >= c.end
  <2>1. CASE Has(run.todo \cup run.busy \cup run.survivors, c)
    <3>1. PICK d \in run.todo \cup run.survivors : Same(c, d)
      BY <2>1, HasSame
    <3>2. CASE d \in passed
      <4>1. d.end = c.end /\ d.end \in Nat /\ run.at \in Nat
        <5>1. Backed(c) /\ Backed(d)
          BY <1>2, <3>2 DEF BoostsOf
        <5>2. d \in Boost
          BY <1>2, <3>2 DEF Sweep
        <5> QED BY <3>1, <5>1, <5>2, SameEnd DEF Boost, Sweep
      <4>2. CASE run.at < d.end
        <5>1. d \in survivors
          BY <1>2, <3>2, <4>2 DEF Kept
        <5> QED BY <3>1, <5>1, SameHas
      <4> QED BY <4>1, <4>2
    <3>3. CASE d \notin passed
      <4>1. d \in (run.todo \ passed) \cup survivors
        BY <1>2, <3>1, <3>3
      <4> QED BY <3>1, <4>1, SameHas
    <3> QED BY <3>2, <3>3
  <2> QED BY <2>1 DEF RunKeeps
<1>4. CASE passed = run.todo /\ roster' = survivors /\ sweep' = Asleep
  <2>1. \A c \in run.current : Has(roster', c) \/ c.user \notin HasStock \/ run.at >= c.end
    <3>1. (run.todo \ passed) \cup survivors = roster'
      BY <1>4
    <3> QED BY <1>3, <3>1
  <2>2. roster' \subseteq BoostsOf(run)
    BY <1>2, <1>4 DEF BoostsOf
  <2> QED BY <1>4, <2>1, <2>2, AsleepKeeps
<1>5. ASSUME NEW b \in run.todo \ passed, LookAt(run, passed, survivors, b)
      PROVE  /\ RunKeeps(sweep') /\ Tidy(sweep') /\ roster' = roster
             /\ BoostsOf(sweep') \subseteq BoostsOf(run) /\ sweep'.at = run.at
  <2> SUFFICES ASSUME NEW next, next = sweep'
               PROVE  /\ RunKeeps(next) /\ Tidy(next) /\ roster' = roster
                      /\ BoostsOf(next) \subseteq BoostsOf(run) /\ next.at = run.at
    OBVIOUS
  <2>1. /\ next.pc = "looking" /\ next.busy = {b} /\ next.todo = run.todo \ (passed \cup {b})
        /\ next.survivors = survivors /\ next.at = run.at /\ next.current = run.current
        /\ roster' = roster
    BY <1>5 DEF LookAt, Sweep
  <2>2. next.todo \cup next.busy \cup next.survivors = (run.todo \ passed) \cup survivors
    BY <2>1
  <2>3. RunKeeps(next)
    BY <1>3, <2>1, <2>2 DEF RunKeeps
  <2>4. Tidy(next)
    BY <2>1 DEF Tidy
  <2>5. BoostsOf(next) \subseteq BoostsOf(run)
    BY <1>2, <2>1 DEF BoostsOf
  <2> QED BY <2>1, <2>3, <2>4, <2>5
<1> QED
  BY <1>1, <1>4, <1>5 DEF Looked

(* The run that a look begins with.                                         *)
LEMMA StartRun ==
    ASSUME Boosting, StartSweep
    PROVE  \E run \in Sweep :
             /\ GoOn(run) /\ run.busy = {} /\ run.current = roster /\ run.at = now /\ RunKeeps(run)
             /\ \A b \in BoostsOf(run) : Backed(b)
<1> DEFINE run == [Asleep EXCEPT !.at = now, !.life = life, !.current = roster, !.todo = roster]
<1>1. GoOn(run)
  BY DEF StartSweep
<1>2. /\ run \in Sweep /\ run.busy = {} /\ run.current = roster /\ run.at = now
      /\ run.todo = roster /\ run.survivors = {}
  BY NothingTyped DEF Boosting, Placing, Typed, WorldOK, StoresOK, SweepOK, Sweep, Asleep
<1> HIDE DEF run
<1>3. \A b \in BoostsOf(run) : Backed(b)
  BY <1>2 DEF BoostsOf, Boosting, Rostered
<1>4. RunKeeps(run)
  BY <1>2, SameHas DEF RunKeeps, Same
<1> QED
  BY <1>1, <1>2, <1>3, <1>4

LEMMA ContinueRun ==
    ASSUME Boosting, ContinueSweep
    PROVE  \E run \in Sweep :
             /\ GoOn(run) /\ run.busy = {} /\ run.current = sweep.current /\ run.at = sweep.at
             /\ RunKeeps(run) /\ \A b \in BoostsOf(run) : Backed(b)
<1> DEFINE run == [sweep EXCEPT !.busy = {}]
<1>1. GoOn(run)
  BY DEF ContinueSweep
<1>2. /\ run \in Sweep /\ run.busy = {} /\ run.current = sweep.current /\ run.at = sweep.at
      /\ run.todo = sweep.todo /\ run.survivors = sweep.survivors
  BY DEF Boosting, Placing, Typed, SweepOK, Sweep
<1> HIDE DEF run
<1>3. \A b \in BoostsOf(run) : Backed(b)
  BY <1>2 DEF BoostsOf, Boosting, Rostered
<1>4. \A b \in sweep.busy : b.user \notin HasStock
  BY DEF ContinueSweep, Boosting, Rostered, Tidy
<1>5. RunKeeps(run)
  <2> SUFFICES ASSUME NEW c \in sweep.current
               PROVE  \/ Has(run.todo \cup run.busy \cup run.survivors, c)
                      \/ c.user \notin HasStock \/ run.at >= c.end
    BY <1>2 DEF RunKeeps
  <2>1. CASE Has(sweep.todo \cup sweep.busy \cup sweep.survivors, c)
    <3>1. PICK d \in sweep.todo \cup sweep.busy \cup sweep.survivors : Same(c, d)
      BY <2>1, HasSame
    <3>2. CASE d \in sweep.busy
      BY <1>4, <3>1, <3>2 DEF Same
    <3>3. CASE d \notin sweep.busy
      <4>1. d \in run.todo \cup run.busy \cup run.survivors
        BY <1>2, <3>1, <3>3
      <4> QED BY <3>1, <4>1, SameHas
    <3> QED BY <3>2, <3>3
  <2> QED BY <1>2, <2>1 DEF Boosting, Rostered, RunKeeps
<1> QED
  BY <1>1, <1>2, <1>3, <1>5

LEMMA ApplyKeeps ==
    ASSUME Boosting, NEW b \in sweep.busy, ApplyBoost(b)
    PROVE  /\ roster' = roster /\ sweep'.at = sweep.at /\ RunKeeps(sweep') /\ Tidy(sweep')
           /\ \A c \in BoostsOf(sweep') : Backed(c)
<1> DEFINE raised == [b EXCEPT !.last = sweep.at]
<1>1. b \in Boost /\ sweep \in Sweep /\ Backed(b)
  BY DEF Boosting, Placing, Typed, SweepOK, Sweep, Rostered, BoostsOf
<1>2. Same(b, raised) /\ raised.end = b.end
  BY <1>1 DEF Same, Boost
<1>3. Backed(raised)
  BY <1>1, <1>2 DEF Backed, Same
<1> SUFFICES ASSUME NEW next, next = sweep'
             PROVE  /\ roster' = roster /\ next.at = sweep.at /\ RunKeeps(next) /\ Tidy(next)
                    /\ \A c \in BoostsOf(next) : Backed(c)
  OBVIOUS
<1>4. /\ next.busy = {} /\ next.survivors = sweep.survivors \cup {raised} /\ next.at = sweep.at
      /\ next.todo = sweep.todo /\ next.current = sweep.current /\ roster' = roster
  BY <1>1 DEF ApplyBoost, Sweep
<1> HIDE DEF raised
<1>5. \A c \in BoostsOf(next) : Backed(c)
  BY <1>3, <1>4 DEF BoostsOf, Boosting, Rostered
<1>6. RunKeeps(next)
  <2> SUFFICES ASSUME NEW c \in sweep.current
               PROVE  \/ Has(next.todo \cup next.busy \cup next.survivors, c)
                      \/ c.user \notin HasStock \/ next.at >= c.end
    BY <1>4 DEF RunKeeps
  <2>1. CASE Has(sweep.todo \cup sweep.busy \cup sweep.survivors, c)
    <3>1. PICK d \in sweep.todo \cup sweep.busy \cup sweep.survivors : Same(c, d)
      BY <2>1, HasSame
    <3>2. CASE d \in sweep.busy
      <4>1. d = b
        BY <3>2 DEF Boosting, Rostered, Tidy
      <4>2. Same(c, raised) /\ raised \in next.todo \cup next.busy \cup next.survivors
        BY <1>2, <1>4, <3>1, <4>1 DEF Same
      <4> QED BY <4>2, SameHas
    <3>3. CASE d \notin sweep.busy
      <4>1. d \in next.todo \cup next.busy \cup next.survivors
        BY <1>4, <3>1, <3>3
      <4> QED BY <3>1, <4>1, SameHas
    <3> QED BY <3>2, <3>3
  <2> QED BY <1>4, <2>1 DEF Boosting, Rostered, RunKeeps
<1> QED
  BY <1>4, <1>5, <1>6 DEF Tidy

LEMMA SetRosterKeeps ==
    ASSUME Boosting, NEW h \in Handlers, SetRoster(h)
    PROVE  /\ \A b \in roster' : Backed(b)
           /\ \A b \in roster : Has(roster', b) \/ RosterForgets(b)
<1>1. /\ handler[h].life \in Lives /\ handler[h].at \in Nat /\ TypeOK
      /\ roster' = ExtraBoosts(handler[h].life, handler[h].at)
  BY TypedOK DEF SetRoster, Boosting, Placing, Typed, HandlersOK, Handling
<1>2. \A b \in roster' : Backed(b)
  BY <1>1, ExtraBoostsType DEF Backed
<1>3. ASSUME NEW b \in roster PROVE Has(roster', b) \/ RosterForgets(b)
  <2>1. b \in Boost /\ Backed(b)
    BY DEF Boosting, Rostered, Placing, Typed, SweepOK
  <2>2. CASE b.life = handler[h].life
    <3>1. b.ping \in Pings /\ b.user \in Members /\ b.user \in pings[handler[h].life][b.ping].extra
      BY <2>1, <2>2 DEF Boost, Backed
    <3>2. \E c \in roster' : c.ping = b.ping /\ c.life = handler[h].life /\ c.user = b.user
      BY <1>1, <3>1, ExtraBoostsType
    <3> QED BY <2>2, <3>2 DEF Has
  <2>3. CASE b.life # handler[h].life
    <3>1. At(h, {"list", "next"}) /\ handler'[h] = Free
      BY DEF SetRoster, At, Finish, Boosting, Placing, Typed, HandlersOK
    <3> QED BY <2>3, <3>1 DEF RosterForgets
  <2> QED BY <2>2, <2>3
<1> QED
  BY <1>2, <1>3

LEMMA RosterUntouched ==
    ASSUME Boosting,
           \/ Discord \/ GuildRemoved \/ UNCHANGED vars \/ (\E h \in Handlers : FailEvent(h))
           \/ \E h \in Handlers : HandlerStep(h) /\ ~SetRoster(h)
    PROVE  roster' = roster /\ sweep' = sweep /\ now' >= now
<1>1. now \in Nat
  BY DEF Boosting, Placing, Typed, WorldOK
<1>2. CASE Discord
  <2>1. roster' = roster /\ sweep' = sweep /\ now' \in {now, now + 1}
    BY <1>2 DEF Discord, Tick, Join, LeaveOrSwitch, MoveUntracked, Moves, Message, sweeping
  <2> QED BY <1>1, <2>1
<1>3. CASE GuildRemoved \/ UNCHANGED vars \/ (\E h \in Handlers : FailEvent(h))
  <2>1. roster' = roster /\ sweep' = sweep /\ now' = now
    BY <1>3 DEF GuildRemoved, MovesUnseen, vars, FailEvent, world, sweeping
  <2> QED BY <1>1, <2>1
<1>4. CASE \E h \in Handlers : HandlerStep(h) /\ ~SetRoster(h)
  <2>1. UNCHANGED <<world, sweeping>>
    BY <1>4 DEF HandlerStep, NotInVoice, CreditPing, CreditStay, StayBoost, JoinBoost,
                CreditResponder, CreditHost, ListPings, Register, Place, Open
  <2> QED BY <1>1, <2>1 DEF world, sweeping
<1> QED
  BY <1>2, <1>3, <1>4

(* What each step does to the roster and to the run. *)
LEMMA RosterSteps ==
    ASSUME Boosting, [Next]_vars
    PROVE  /\ \A b \in roster' \cup BoostsOf(sweep') : Backed(b)
           /\ RunKeeps(sweep') /\ Tidy(sweep') /\ sweep'.at <= now'
           /\ \A b \in roster : Has(roster', b) \/ RosterForgets(b)
<1>1. /\ \A b \in roster \cup BoostsOf(sweep) : Backed(b)
      /\ RunKeeps(sweep) /\ Tidy(sweep) /\ sweep.at <= now /\ now \in Nat /\ sweep.at \in Nat
  BY DEF Boosting, Rostered, Placing, Typed, WorldOK, SweepOK, Sweep
<1>2. ASSUME roster' = roster PROVE \A b \in roster : Has(roster', b)
  BY <1>2, SameHas DEF Same
<1>3. CASE \/ Discord \/ GuildRemoved \/ UNCHANGED vars \/ (\E h \in Handlers : FailEvent(h))
           \/ \E h \in Handlers : HandlerStep(h) /\ ~SetRoster(h)
  <2>1. roster' = roster /\ sweep' = sweep /\ now' >= now /\ now' \in Nat
    BY <1>3, RosterUntouched, TypedInductive DEF Boosting, Placing, Typed, WorldOK
  <2> QED BY <1>1, <1>2, <2>1
<1>4. ASSUME NEW h \in Handlers, SetRoster(h)
      PROVE  /\ \A b \in roster' \cup BoostsOf(sweep') : Backed(b)
             /\ RunKeeps(sweep') /\ Tidy(sweep') /\ sweep'.at <= now'
             /\ \A b \in roster : Has(roster', b) \/ RosterForgets(b)
  <2>1. sweep' = sweep /\ now' = now
    BY <1>4 DEF SetRoster, world
  <2> QED BY <1>1, <1>4, <2>1, SetRosterKeeps
<1>5. CASE StartSweep
  <2>1. PICK run \in Sweep :
           /\ GoOn(run) /\ run.busy = {} /\ run.current = roster /\ run.at = now /\ RunKeeps(run)
           /\ \A b \in BoostsOf(run) : Backed(b)
    BY <1>5, StartRun
  <2>2. /\ RunKeeps(sweep') /\ Tidy(sweep')
        /\ \/ /\ sweep' = Asleep /\ roster' \subseteq BoostsOf(run)
              /\ \A c \in run.current :
                    Has(roster', c) \/ c.user \notin HasStock \/ run.at >= c.end
           \/ /\ roster' = roster /\ BoostsOf(sweep') \subseteq BoostsOf(run)
              /\ sweep'.at = run.at
    BY <2>1, GoOnKeeps
  <2>3. now' = now
    BY <1>5 DEF StartSweep, world
  <2>4. \A b \in roster : Has(roster', b) \/ RosterForgets(b)
    BY <1>2, <2>1, <2>2 DEF RosterForgets
  <2> QED BY <1>1, <2>1, <2>2, <2>3, <2>4, AsleepKeeps
<1>6. CASE ContinueSweep
  <2>1. PICK run \in Sweep :
           /\ GoOn(run) /\ run.busy = {} /\ run.current = sweep.current /\ run.at = sweep.at
           /\ RunKeeps(run) /\ \A b \in BoostsOf(run) : Backed(b)
    BY <1>6, ContinueRun
  <2>2. /\ RunKeeps(sweep') /\ Tidy(sweep')
        /\ \/ /\ sweep' = Asleep /\ roster' \subseteq BoostsOf(run)
              /\ \A c \in run.current :
                    Has(roster', c) \/ c.user \notin HasStock \/ run.at >= c.end
           \/ /\ roster' = roster /\ BoostsOf(sweep') \subseteq BoostsOf(run)
              /\ sweep'.at = run.at
    BY <2>1, GoOnKeeps
  <2>3. now' = now /\ sweep.pc # "asleep"
    BY <1>6 DEF ContinueSweep, world
  <2>4. ASSUME NEW b \in roster, sweep' = Asleep,
               \A c \in run.current : Has(roster', c) \/ c.user \notin HasStock \/ run.at >= c.end
        PROVE  Has(roster', b) \/ RosterForgets(b)
    <3>1. CASE ~Has(sweep.current, b)
      BY <2>3, <2>4, <3>1 DEF RosterForgets
    <3>2. CASE Has(sweep.current, b)
      <4>1. PICK c \in sweep.current : Same(b, c)
        BY <3>2, HasSame
      <4>2. Backed(b) /\ Backed(c) /\ b.end = c.end /\ b \in Boost
        BY <1>1, <4>1, SameEnd DEF BoostsOf, Boosting, Placing, Typed, SweepOK
      <4>3. CASE Has(roster', c)
        BY <4>1, <4>3 DEF Has, Same
      <4>4. CASE c.user \notin HasStock
        BY <2>4, <4>1, <4>4 DEF RosterForgets, Same
      <4>5. CASE run.at >= c.end
        <5>1. now >= b.end
          BY <1>1, <2>1, <4>2, <4>5 DEF Boost
        <5> QED BY <2>4, <5>1 DEF RosterForgets
      <4> QED BY <2>1, <2>4, <4>3, <4>4, <4>5
    <3> QED BY <3>1, <3>2
  <2> QED BY <1>1, <1>2, <2>1, <2>2, <2>3, <2>4, AsleepKeeps
<1>7. ASSUME NEW b \in sweep.busy, ApplyBoost(b)
      PROVE  /\ \A c \in roster' \cup BoostsOf(sweep') : Backed(c)
             /\ RunKeeps(sweep') /\ Tidy(sweep') /\ sweep'.at <= now'
             /\ \A c \in roster : Has(roster', c) \/ RosterForgets(c)
  <2>1. now' = now
    BY <1>7 DEF ApplyBoost, world
  <2> QED BY <1>1, <1>2, <1>7, <2>1, ApplyKeeps
<1>8. CASE FailSweep
  <2>1. roster' = roster /\ sweep' = Asleep /\ now' = now
    BY <1>8 DEF FailSweep, world
  <2> QED BY <1>1, <1>2, <2>1, AsleepKeeps
<1>9. CASE Restart
  <2>1. roster' = {} /\ sweep' = Asleep /\ now' = now /\ life' # life
    BY <1>9 DEF Restart, MovesUnseen, NewLife, Boosting, Placing, Typed, StoresOK, Lives
  <2> QED BY <1>1, <2>1, AsleepKeeps DEF RosterForgets
<1> QED
  BY <1>3, <1>4, <1>5, <1>6, <1>7, <1>8, <1>9 DEF Next, Fault, SweepStep

LEMMA BoostingInit == Init => Boosting
<1> SUFFICES ASSUME Init PROVE Boosting
  OBVIOUS
<1>1. roster = {} /\ sweep = Asleep /\ now = 0
  BY DEF Init
<1> QED
  BY <1>1, AsleepKeeps, PlacingInit DEF Boosting, Rostered

LEMMA BoostingInductive == ASSUME Boosting, [Next]_vars PROVE Boosting'
<1>1. Placing'
  BY PlacingInductive DEF Boosting
<1>2. \A b \in roster' \cup BoostsOf(sweep') : b \in Boost
  BY <1>1 DEF Placing, Typed, SweepOK, Sweep, BoostsOf
<1>3. \A b \in roster' \cup BoostsOf(sweep') : Backed(b)'
  BY <1>2, RosterSteps, BackedStays DEF Boosting
<1>4. Rostered'
  BY <1>3, RosterSteps DEF Rostered
<1> QED
  BY <1>1, <1>4 DEF Boosting

(* No run of VcBoostTask, finished or failed, and no event of voice loses   *)
(* an extra responder of the roster, save for the ways that are listed.     *)
THEOREM RosterKeepsHolds == Spec => RosterKeeps
<1>1. Spec => []Boosting
  BY BoostingInit, BoostingInductive, PTL DEF Spec
<1>2. Boosting /\ [Next]_vars => [\A b \in roster : Has(roster', b) \/ RosterForgets(b)]_vars
  BY RosterSteps
<1> QED
  BY <1>1, <1>2, PTL DEF Spec, RosterKeeps

(* What a step of a handler does to the handlers. *)
OthersStay(h) == \A k \in Handlers : k # h => handler'[k] = handler[k]
Carries(h) == /\ handler'[h].user = handler[h].user /\ handler'[h].life = handler[h].life
              /\ handler'[h].at = handler[h].at
Turns(h, pc) == OthersStay(h) /\ Carries(h) /\ handler'[h].pc = pc

LEMMA GotoTurns ==
    ASSUME HandlersOK, NEW h \in Handlers, NEW pc, Goto(h, pc)
    PROVE  /\ Turns(h, pc) /\ handler'[h].ping = handler[h].ping
           /\ handler'[h].todo = handler[h].todo /\ handler'[h].stay = handler[h].stay
<1> SUFFICES ASSUME NEW e, e = [handler[h] EXCEPT !.pc = pc]
             PROVE  /\ Turns(h, pc) /\ handler'[h].ping = handler[h].ping
                    /\ handler'[h].todo = handler[h].todo /\ handler'[h].stay = handler[h].stay
  OBVIOUS
<1>1. handler \in [Handlers -> Handling] /\ handler[h] \in Handling
  BY DEF HandlersOK
<1>2. /\ e.pc = pc /\ e.user = handler[h].user /\ e.life = handler[h].life
      /\ e.at = handler[h].at /\ e.ping = handler[h].ping /\ e.todo = handler[h].todo
      /\ e.stay = handler[h].stay
  BY <1>1 DEF Handling
<1>3. handler' = [handler EXCEPT ![h] = e]
  BY DEF Goto
<1> QED
  BY <1>1, <1>2, <1>3 DEF Turns, OthersStay, Carries

LEMMA FinishTurns ==
    ASSUME HandlersOK, NEW h \in Handlers, Finish(h)
    PROVE  OthersStay(h) /\ handler'[h] = Free
BY DEF HandlersOK, Finish, OthersStay

LEMMA LeavingTurns ==
    ASSUME HandlersOK, NEW h \in Handlers, AfterLeaving(h)
    PROVE  /\ OthersStay(h)
           /\ handler'[h] = Free \/ (Carries(h) /\ handler'[h].pc = "open")
<1>1. CASE Finish(h)
  BY <1>1, FinishTurns
<1>2. CASE handler' = [handler EXCEPT ![h].pc = "open", ![h].stay = 0]
  <2> SUFFICES ASSUME NEW e, e = [handler[h] EXCEPT !.pc = "open", !.stay = 0]
               PROVE  OthersStay(h) /\ Carries(h) /\ handler'[h].pc = "open"
    OBVIOUS
  <2>1. handler \in [Handlers -> Handling] /\ handler[h] \in Handling
    BY DEF HandlersOK
  <2>2. /\ e.pc = "open" /\ e.user = handler[h].user /\ e.life = handler[h].life
        /\ e.at = handler[h].at
    BY <2>1 DEF Handling
  <2>3. handler' = [handler EXCEPT ![h] = e]
    BY <1>2, <2>1
  <2> QED BY <2>1, <2>2, <2>3 DEF OthersStay, Carries
<1> QED
  BY <1>1, <1>2 DEF AfterLeaving

LEMMA HostTurns ==
    ASSUME HandlersOK, NEW h \in Handlers, CreditHost(h)
    PROVE  Turns(h, "next") /\ handler'[h].todo = handler[h].todo
<1> SUFFICES ASSUME NEW e, e = [handler[h] EXCEPT !.pc = "next", !.ping = NoPing]
             PROVE  Turns(h, "next") /\ handler'[h].todo = handler[h].todo
  OBVIOUS
<1>1. handler \in [Handlers -> Handling] /\ handler[h] \in Handling
  BY DEF HandlersOK
<1>2. /\ e.pc = "next" /\ e.user = handler[h].user /\ e.life = handler[h].life
      /\ e.at = handler[h].at /\ e.todo = handler[h].todo
  BY <1>1 DEF Handling
<1>3. handler' = [handler EXCEPT ![h] = e]
  BY <1>1 DEF CreditHost
<1> QED
  BY <1>1, <1>2, <1>3 DEF Turns, OthersStay, Carries

LEMMA ListTurns ==
    ASSUME HandlersOK, NEW h \in Handlers, ListPings(h)
    PROVE  Turns(h, "next") /\ handler'[h].todo = Answered(h)
<1> SUFFICES ASSUME NEW todo, todo = Answered(h), NEW e, e = [handler[h] EXCEPT !.todo = todo, !.pc = "next"]
             PROVE  Turns(h, "next") /\ handler'[h].todo = todo
  OBVIOUS
<1>1. handler \in [Handlers -> Handling] /\ handler[h] \in Handling
  BY DEF HandlersOK
<1>2. /\ e.pc = "next" /\ e.user = handler[h].user /\ e.life = handler[h].life
      /\ e.at = handler[h].at /\ e.todo = todo
  BY <1>1 DEF Handling
<1>3. handler' = [handler EXCEPT ![h] = e]
  BY DEF ListPings
<1> QED
  BY <1>1, <1>2, <1>3 DEF Turns, OthersStay, Carries

(* The outcome of a placement: the ping that the handler rewards is the one *)
(* it placed its member in. *)
LEMMA PlaceTurns ==
    ASSUME Typed, NEW h \in Handlers, NEW m \in Pings, Place(h, m)
    PROVE  LET p == pings[handler[h].life][m]
               u == handler[h].user
           IN /\ OthersStay(h) /\ Carries(h) /\ handler'[h].todo = handler[h].todo \ {m}
              /\ u \in Joiners(p) => handler'[h].pc = "next"
              /\ u \notin Joiners(p) =>
                    /\ handler'[h].ping = m
                    /\ handler'[h].pc = IF Cardinality(p.first) < Cap THEN "boost" ELSE "answer"
<1> DEFINE p == pings[handler[h].life][m]
           u == handler[h].user
           here == u \in Joiners(p)
           placed == PlaceIn(p, u)
           ping == IF here THEN NoPing ELSE m
           pc == CASE here -> "next"
                   [] ~here /\ u \in placed.first -> "boost"
                   [] OTHER -> "answer"
           e == [handler[h] EXCEPT !.todo = @ \ {m}, !.ping = ping, !.pc = pc]
<1>1. handler \in [Handlers -> Handling] /\ handler[h] \in Handling /\ Fit(handler[h])
  BY DEF Typed, HandlersOK
<1>2. u \in Members /\ p \in Ping
  BY <1>1 DEF Fit, Handling, Place, Typed, StoresOK
<1>3. ~here => (u \in placed.first <=> Cardinality(p.first) < Cap)
  BY <1>2 DEF PlaceIn, Joiners, Ping
<1>4. handler' = [handler EXCEPT ![h] = e]
  BY DEF Place
<1>5. /\ here => pc = "next"
      /\ ~here => pc = IF Cardinality(p.first) < Cap THEN "boost" ELSE "answer"
  BY <1>3, Zenon
<1> HIDE DEF pc
<1>6. /\ e.pc = pc /\ e.ping = ping /\ e.user = handler[h].user
      /\ e.life = handler[h].life /\ e.todo = handler[h].todo \ {m} /\ e.at = handler[h].at
  BY <1>1 DEF Handling
<1> HIDE DEF e
<1>7. handler'[h] = e /\ OthersStay(h)
  BY <1>1, <1>4 DEF OthersStay
<1> QED
  BY <1>5, <1>6, <1>7 DEF Carries

-----------------------------------------------------------------------------
(* The voice time. *)

Claim(e, u) == IF e.pc = "credit" /\ e.user = u THEN e.stay ELSE 0
Claims(u) == SumOf([h \in Handlers |-> Claim(handler[h], u)])
Running(u) == IF where[u] # Nowhere /\ sessions[life][u] # NoSession
              THEN now - sessions[life][u].start ELSE 0

(* The time of a member that was credited, is about to be, or is running.   *)
TimeKept == \A u \in Members : voice[u] + Claims(u) + Running(u) <= spent[u]

Timing == Following /\ TimeKept

LEMMA ClaimType ==
    ASSUME NEW e \in Handling, NEW u
    PROVE  Claim(e, u) \in Nat
BY DEF Claim, Handling

LEMMA ClaimsPut ==
    ASSUME Typed, Typed', NEW h \in Handlers, OthersStay(h), NEW u
    PROVE  /\ Claims(u) \in Nat /\ Claims(u)' \in Nat
           /\ Claims(u)' = Claims(u) + (Claim(handler'[h], u) - Claim(handler[h], u))
<1> DEFINE f == [k \in Handlers |-> Claim(handler[k], u)]
           g == [k \in Handlers |-> Claim(handler'[k], u)]
<1>1. IsFiniteSet(Handlers)
  BY VoiceAssumption
<1>2. /\ f \in [Handlers -> Nat] /\ g \in [Handlers -> Nat]
      /\ f \in [Handlers -> Int] /\ g \in [Handlers -> Int]
  BY ClaimType DEF Typed, HandlersOK
<1>3. \A k \in Handlers : k # h => g[k] = f[k]
  BY DEF OthersStay
<1>4. g[h] = Claim(handler'[h], u) /\ f[h] = Claim(handler[h], u)
  OBVIOUS
<1>5. Claims(u) = SumOf(f) /\ Claims(u)' = SumOf(g)
  BY DEF Claims
<1> HIDE DEF f, g
<1>6. SumOf(g) = SumOf(f) + (g[h] - f[h])
  BY <1>1, <1>2, <1>3, SumChange
<1>7. SumOf(f) \in Nat /\ SumOf(g) \in Nat
  BY <1>1, <1>2, SumNat
<1> QED
  BY <1>4, <1>5, <1>6, <1>7

LEMMA ClaimsInclude ==
    ASSUME Typed, NEW h \in Handlers, NEW u
    PROVE  Claim(handler[h], u) <= Claims(u)
<1> DEFINE f == [k \in Handlers |-> Claim(handler[k], u)]
           g == [f EXCEPT ![h] = 0]
<1>1. IsFiniteSet(Handlers)
  BY VoiceAssumption
<1>2. f \in [Handlers -> Nat] /\ f \in [Handlers -> Int] /\ f[h] = Claim(handler[h], u)
  BY ClaimType DEF Typed, HandlersOK
<1> HIDE DEF f
<1>3. /\ g \in [Handlers -> Nat] /\ g \in [Handlers -> Int] /\ g[h] = 0
      /\ \A k \in Handlers : k # h => g[k] = f[k]
  BY <1>2
<1> HIDE DEF g
<1>4. SumOf(g) = SumOf(f) + (g[h] - f[h])
  BY <1>1, <1>2, <1>3, SumChange
<1>5. SumOf(f) \in Nat /\ SumOf(g) \in Nat /\ f[h] \in Nat
  BY <1>1, <1>2, <1>3, SumNat
<1>6. Claims(u) = SumOf(f)
  BY DEF Claims, f
<1> QED
  BY <1>2, <1>3, <1>4, <1>5, <1>6

LEMMA RunningType ==
    ASSUME Typed, NEW u \in Members
    PROVE  Running(u) \in Nat /\ voice[u] \in Nat /\ spent[u] \in Nat
<1>1. sessions[life][u] \in Session /\ sessions[life][u].start <= now /\ now \in Nat
  BY DEF Typed, StoresOK, Started, WorldOK
<1> QED
  BY <1>1 DEF Running, Session, Typed, WorldOK, RowsOK

LEMMA TimingOK == ASSUME Timing PROVE VoiceTimeEarned
<1> SUFFICES ASSUME NEW u \in Members
             PROVE  /\ voice[u] <= spent[u]
                    /\ \A h \in Handlers : At(h, {"credit"}) /\ handler[h].user = u =>
                          voice[u] + handler[h].stay <= spent[u]
  BY DEF VoiceTimeEarned
<1>1. Typed /\ voice[u] + Claims(u) + Running(u) <= spent[u]
  BY DEF Timing, Following, TimeKept
<1>2. Running(u) \in Nat /\ voice[u] \in Nat /\ spent[u] \in Nat
  BY <1>1, RunningType
<1>3. Claims(u) \in Nat
  <2>1. SumOf([h \in Handlers |-> Claim(handler[h], u)]) \in Nat
    <3>1. [h \in Handlers |-> Claim(handler[h], u)] \in [Handlers -> Nat]
      BY <1>1, ClaimType DEF Typed, HandlersOK
    <3> QED BY <3>1, SumNat, VoiceAssumption
  <2> QED BY <2>1 DEF Claims
<1>4. ASSUME NEW h \in Handlers, At(h, {"credit"}), handler[h].user = u
      PROVE  voice[u] + handler[h].stay <= spent[u]
  <2>1. Claim(handler[h], u) <= Claims(u) /\ Claim(handler[h], u) = handler[h].stay
    BY <1>1, <1>4, ClaimsInclude DEF At, Claim
  <2>2. handler[h].stay \in Nat
    BY <1>1 DEF Typed, HandlersOK, Handling
  <2> QED BY <1>1, <1>2, <1>3, <2>1, <2>2
<1> QED
  BY <1>1, <1>2, <1>3, <1>4

(* A step of one handler in a standing world. *)
LEMMA TimePut ==
    ASSUME Timing, Typed', NEW h \in Handlers, OthersStay(h),
           \A u \in Members : Running(u)' <= Running(u) /\ spent'[u] = spent[u],
           \A u \in Members :
              voice'[u] + Claim(handler'[h], u) <= voice[u] + Claim(handler[h], u)
    PROVE  TimeKept'
<1> SUFFICES ASSUME NEW u \in Members
             PROVE  voice'[u] + Claims(u)' + Running(u)' <= spent'[u]
  BY DEF TimeKept
<1>1. Typed /\ voice[u] + Claims(u) + Running(u) <= spent[u]
  BY DEF Timing, Following, TimeKept
<1>2. /\ Claims(u) \in Nat /\ Claims(u)' \in Nat
      /\ Claims(u)' = Claims(u) + (Claim(handler'[h], u) - Claim(handler[h], u))
  BY <1>1, ClaimsPut
<1>3. Claim(handler'[h], u) \in Nat /\ Claim(handler[h], u) \in Nat
  BY <1>1, ClaimType DEF Typed, HandlersOK
<1>4. Running(u) \in Nat /\ voice[u] \in Nat /\ spent[u] \in Nat
  BY <1>1, RunningType
<1>5. Running(u)' \in Nat /\ voice'[u] \in Nat /\ spent'[u] \in Nat
  <2>1. sessions'[life'][u] \in Session /\ sessions'[life'][u].start <= now' /\ now' \in Nat
    BY DEF Typed, StoresOK, Started, WorldOK
  <2> QED BY <2>1 DEF Running, Session, Typed, WorldOK, RowsOK
<1> QED
  BY <1>1, <1>2, <1>3, <1>4, <1>5
(* The steps of a handler, but for the crediting and the opening, change no *)
(* time; and none begins to credit. *)
LEMMA TurnsNotToCredit ==
    ASSUME Typed, NEW h \in Handlers, HandlerStep(h) \/ FailEvent(h)
    PROVE  OthersStay(h) /\ handler'[h].pc # "credit"
<1>1. HandlersOK /\ handler[h].pc # "free"
  BY DEF Typed, HandlerStep, FailEvent, Register, NotInVoice, CreditPing, CreditStay, StayBoost,
         Open, ListPings, Place, JoinBoost, CreditResponder, CreditHost, SetRoster
<1>2. ASSUME NEW pc \in {"opened", "stay", "answer", "host", "list"}, Goto(h, pc)
      PROVE  OthersStay(h) /\ handler'[h].pc # "credit"
  BY <1>1, <1>2, GotoTurns DEF Turns
<1>3. CASE Finish(h) \/ AfterLeaving(h)
  BY <1>1, <1>3, FinishTurns, LeavingTurns DEF Free
<1>4. CASE CreditHost(h) \/ ListPings(h)
  BY <1>1, <1>4, HostTurns, ListTurns DEF Turns
<1>5. ASSUME NEW m \in Pings, Place(h, m)
      PROVE  OthersStay(h) /\ handler'[h].pc # "credit"
  <2>1. PICK e \in Handling : Placed(h, m, e)
    BY <1>5, PlaceStep
  <2> QED BY <1>1, <2>1 DEF Placed, OthersStay, HandlersOK
<1> QED
  BY <1>2, <1>3, <1>4, <1>5
     DEF HandlerStep, FailEvent, Register, NotInVoice, CreditPing, CreditStay, StayBoost,
         Open, JoinBoost, CreditResponder, SetRoster

LEMMA TimeHandler ==
    ASSUME Timing, Typed', NEW h \in Handlers, HandlerStep(h) \/ FailEvent(h), ~Open(h)
    PROVE  TimeKept'
<1>1. Typed /\ OthersStay(h) /\ handler'[h].pc # "credit"
  BY TurnsNotToCredit DEF Timing, Following
<1>2. UNCHANGED <<now, where, spent, life, sessions>>
  BY DEF HandlerStep, FailEvent, Register, NotInVoice, CreditPing, CreditStay, StayBoost,
         ListPings, Place, JoinBoost, CreditResponder, CreditHost, SetRoster, world, stores
<1>3. \A u \in Members : Running(u)' <= Running(u) /\ spent'[u] = spent[u]
  <2>1. \A u \in Members : Running(u)' = Running(u)
    BY <1>2 DEF Running
  <2>2. \A u \in Members : Running(u) \in Nat
    BY <1>1, RunningType
  <2> QED BY <1>2, <2>1, <2>2
<1>4. ASSUME NEW u \in Members
      PROVE  voice'[u] + Claim(handler'[h], u) <= voice[u] + Claim(handler[h], u)
  <2>1. Claim(handler'[h], u) = 0 /\ Claim(handler[h], u) \in Nat /\ voice[u] \in Nat
    BY <1>1, ClaimType DEF Claim, Typed, HandlersOK, RowsOK
  <2>2. CASE CreditStay(h)
    <3>1. /\ voice \in [Members -> Nat] /\ handler[h].pc = "credit" /\ handler[h].stay \in Nat
          /\ voice' = Add(voice, handler[h].user, handler[h].stay)
      BY <1>1, <2>2 DEF CreditStay, Typed, RowsOK, HandlersOK, Handling
    <3>2. voice'[u] = IF handler[h].user = u THEN voice[u] + handler[h].stay ELSE voice[u]
      BY <3>1 DEF Add
    <3>3. Claim(handler[h], u) = IF handler[h].user = u THEN handler[h].stay ELSE 0
      BY <3>1 DEF Claim
    <3> QED BY <2>1, <3>1, <3>2, <3>3
  <2>3. CASE voice' = voice
    BY <2>1, <2>3
  <2> QED
    BY <2>2, <2>3
       DEF HandlerStep, FailEvent, Register, NotInVoice, CreditPing, StayBoost, ListPings, Place,
           JoinBoost, CreditResponder, CreditHost, SetRoster, rows
<1> QED
  BY <1>1, <1>3, <1>4, TimePut

LEMMA TimeOpen ==
    ASSUME Timing, Typed', NEW h \in Handlers, Open(h)
    PROVE  TimeKept'
<1>1. Typed /\ OthersStay(h) /\ handler'[h].pc # "credit"
  BY TurnsNotToCredit DEF Timing, Following, HandlerStep
<1>2. UNCHANGED <<now, where, spent, life, voice>> /\ now \in Nat
  BY <1>1 DEF Open, world, rows, Typed, WorldOK
<1>3. ASSUME NEW u \in Members
      PROVE  Running(u)' <= Running(u) /\ spent'[u] = spent[u]
  <2>1. Running(u) \in Nat
    BY <1>1, RunningType
  <2>2. sessions'[life][u] = sessions[life][u] \/ sessions'[life][u].start = now
    BY <1>1 DEF Open, Typed, StoresOK
  <2>3. Running(u)' = Running(u) \/ Running(u)' = 0
    BY <1>2, <2>2 DEF Running
  <2> QED BY <1>2, <2>1, <2>3
<1>4. ASSUME NEW u \in Members
      PROVE  voice'[u] + Claim(handler'[h], u) <= voice[u] + Claim(handler[h], u)
  <2>1. Claim(handler'[h], u) = 0 /\ Claim(handler[h], u) \in Nat /\ voice[u] \in Nat
    BY <1>1, ClaimType DEF Claim, Typed, HandlersOK, RowsOK
  <2> QED BY <1>2, <2>1
<1> QED
  BY <1>1, <1>3, <1>4, TimePut

(* A member who moves: the stay ends, and its time is about to be credited. *)
LEMMA TimeMove ==
    ASSUME Timing, Typed', NEW h \in Handlers, NEW u \in Members, NEW c \in Places,
           Join(h, u, c) \/ LeaveOrSwitch(h, u, c) \/ MoveUntracked(h, u, c)
    PROVE  TimeKept'
<1>1. /\ Typed /\ handler[h].pc = "free" /\ UNCHANGED <<now, spent, life, voice>> /\ now \in Nat
      /\ handler \in [Handlers -> Handling] /\ life \in Lives
      /\ sessions \in [Lives -> [Members -> Session]]
      /\ where' = [where EXCEPT ![u] = c] /\ where \in [Members -> Places]
  BY DEF Join, LeaveOrSwitch, MoveUntracked, Moves, Occurs, Timing, Following, rows,
         Typed, WorldOK, StoresOK, HandlersOK
<1>2. ASSUME NEW v \in Members, v # u
      PROVE  Running(v)' = Running(v)
  <2>1. sessions'[life][v] = sessions[life][v] /\ where'[v] = where[v]
    BY <1>1, <1>2 DEF Join, LeaveOrSwitch, MoveUntracked, Popped
  <2> QED BY <1>1, <2>1 DEF Running
<1>3. \A v \in Members : Running(v) \in Nat
  BY <1>1, RunningType
<1>4. CASE LeaveOrSwitch(h, u, c)
  <2> DEFINE stay == now - sessions[life][u].start
  <2> SUFFICES ASSUME NEW e, e = [Event(u, c, "credit") EXCEPT !.stay = stay]
               PROVE  TimeKept'
    OBVIOUS
  <2>1. stay \in Nat
    <3>1. sessions[life][u] \in Session /\ sessions[life][u].start <= now
      BY <1>1 DEF Typed, Started
    <3> QED BY <1>1, <3>1 DEF Session
  <2>2. e.pc = "credit" /\ e.user = u /\ e.stay = stay
    <3>1. e.pc = "credit" /\ e.user = u
      <4>1. "credit" \in {"list", "record", "credit"}
        OBVIOUS
      <4>2. /\ e \in Handling /\ Fit(e) /\ e.pc = "credit" /\ e.user = u /\ e.to = c
            /\ e.life = life /\ e.todo = {}
        BY <1>1, <2>1, <4>1, EventType
      <4> QED BY <4>2
    <3>2. e.stay = stay
      BY DEF Event, Free
    <3> QED BY <3>1, <3>2
  <2>3. handler'[h] = e /\ OthersStay(h)
    BY <1>1, <1>4 DEF LeaveOrSwitch, OthersStay
  <2>4. sessions'[life][u] = NoSession /\ Running(u) = stay
    BY <1>1, <1>4 DEF LeaveOrSwitch, Moves, Popped, Running
  <2>5. Running(u)' = 0
    BY <1>1, <2>4 DEF Running
  <2> HIDE DEF stay
  <2> SUFFICES ASSUME NEW v \in Members
               PROVE  voice'[v] + Claims(v)' + Running(v)' <= spent'[v]
    BY DEF TimeKept
  <2>6. voice[v] + Claims(v) + Running(v) <= spent[v] /\ spent[v] \in Nat /\ voice[v] \in Nat
    BY <1>1 DEF Timing, TimeKept, Typed, WorldOK, RowsOK
  <2>7. /\ Claims(v) \in Nat /\ Claims(v)' \in Nat
        /\ Claims(v)' = Claims(v) + (Claim(handler'[h], v) - Claim(handler[h], v))
    BY <1>1, <2>3, ClaimsPut
  <2>8. Claim(handler[h], v) = 0 /\ Claim(handler'[h], v) = IF v = u THEN stay ELSE 0
    BY <1>1, <2>2, <2>3 DEF Claim
  <2> QED BY <1>1, <1>2, <1>3, <2>1, <2>4, <2>5, <2>6, <2>7, <2>8
<1>5. CASE ~LeaveOrSwitch(h, u, c)
  <2>1. sessions'[life][u].start = now \/ (sessions'[life][u] = NoSession)
    BY <1>1, <1>5 DEF Join, MoveUntracked
  <2>2. Running(u)' <= Running(u)
    BY <1>1, <1>3, <2>1 DEF Running
  <2>3. OthersStay(h) /\ (handler'[h] = handler[h] \/ handler'[h] = Event(u, c, "list"))
    BY <1>1, <1>5 DEF Join, MoveUntracked, OthersStay
  <2>4. Event(u, c, "list").pc = "list"
    BY <1>1, NewEvent
  <2>5. \A v \in Members : Claim(handler'[h], v) = 0 /\ Claim(handler[h], v) = 0
    BY <1>1, <2>3, <2>4 DEF Claim
  <2>6. \A v \in Members : voice[v] \in Nat
    BY <1>1 DEF Typed, RowsOK
  <2>7. \A v \in Members : Running(v)' <= Running(v) /\ spent'[v] = spent[v]
    BY <1>1, <1>2, <1>3, <2>2
  <2>8. \A v \in Members :
            voice'[v] + Claim(handler'[h], v) <= voice[v] + Claim(handler[h], v)
    BY <1>1, <2>5, <2>6
  <2> QED BY <2>3, <2>7, <2>8, TimePut
<1> QED
  BY <1>4, <1>5

LEMMA TimeTick == ASSUME Timing, Tick PROVE TimeKept'
<1> SUFFICES ASSUME NEW u \in Members
             PROVE  voice'[u] + Claims(u)' + Running(u)' <= spent'[u]
  BY DEF TimeKept
<1>1. Typed /\ voice[u] + Claims(u) + Running(u) <= spent[u]
  BY DEF Timing, Following, TimeKept
<1>2. UNCHANGED <<where, life, sessions, handler, voice>> /\ now' = now + 1
      /\ spent'[u] = spent[u] + (IF where[u] = Nowhere THEN 0 ELSE 1)
  BY DEF Tick, stores, rows
<1>3. Running(u) \in Nat /\ voice[u] \in Nat /\ spent[u] \in Nat
  BY <1>1, RunningType
<1>4. Claims(u)' = Claims(u)
  BY <1>2 DEF Claims
<1>5. Claims(u) \in Nat
  <2>1. [h \in Handlers |-> Claim(handler[h], u)] \in [Handlers -> Nat]
    BY <1>1, ClaimType DEF Typed, HandlersOK
  <2> QED BY <2>1, SumNat, VoiceAssumption DEF Claims
<1>6. /\ Running(u)' = Running(u) \/ Running(u)' = Running(u) + 1
      /\ where[u] = Nowhere => Running(u)' = Running(u)
  <2>1. sessions[life][u] \in Session /\ sessions[life][u].start \in Nat /\ now \in Nat
    BY <1>1 DEF Typed, StoresOK, WorldOK, Session
  <2> QED BY <1>2, <2>1 DEF Running
<1> QED
  BY <1>1, <1>2, <1>3, <1>4, <1>5, <1>6

(* A new life has no sessions, and at most the handlers of before.          *)
LEMMA TimeNewLife ==
    ASSUME Timing, Restart \/ GuildRemoved
    PROVE  TimeKept'
<1> SUFFICES ASSUME NEW u \in Members
             PROVE  voice'[u] + Claims(u)' + Running(u)' <= spent'[u]
  BY DEF TimeKept
<1>1. Typed /\ voice[u] + Claims(u) + Running(u) <= spent[u]
  BY DEF Timing, Following, TimeKept
<1>2. UNCHANGED <<voice, spent, sessions>> /\ life' = life + 1 /\ life' \in Lives /\ life \in Nat
  BY <1>1, UnseenType DEF Restart, GuildRemoved, rows, Typed, StoresOK, Lives
<1>3. Running(u) \in Nat /\ voice[u] \in Nat /\ spent[u] \in Nat
  BY <1>1, RunningType
<1>4. Claims(u) \in Nat
  <2>1. [h \in Handlers |-> Claim(handler[h], u)] \in [Handlers -> Nat]
    BY <1>1, ClaimType DEF Typed, HandlersOK
  <2> QED BY <2>1, SumNat, VoiceAssumption DEF Claims
<1>5. Claims(u)' = Claims(u) \/ Claims(u)' = 0
  <2>1. CASE handler' = handler
    BY <2>1 DEF Claims
  <2>2. CASE handler' = [h \in Handlers |-> Free]
    <3>1. [h \in Handlers |-> Claim(handler'[h], u)] = [h \in Handlers |-> 0]
      BY <2>2 DEF Claim, Free
    <3>2. Claims(u)' = SumOf([h \in Handlers |-> 0])
      BY <3>1, Zenon DEF Claims
    <3> QED BY <3>2, SumZero, VoiceAssumption
  <2> QED BY <2>1, <2>2 DEF Restart, GuildRemoved
<1>6. Running(u)' = 0
  <2>1. sessions[life'][u] = NoSession
    BY <1>2 DEF Timing, Following, NoneLater
  <2> QED BY <1>2, <2>1 DEF Running
<1> QED
  BY <1>1, <1>2, <1>3, <1>4, <1>5, <1>6

LEMMA TimingInit == Init => Timing
<1> SUFFICES ASSUME Init, NEW u \in Members
             PROVE  voice[u] + Claims(u) + Running(u) <= spent[u]
  BY FollowInit DEF Timing, TimeKept
<1>1. voice[u] = 0 /\ spent[u] = 0
  BY DEF Init, Zero
<1>2. Running(u) = 0
  BY Numbers DEF Init, Running
<1>3. Claims(u) = 0
  <2>1. [h \in Handlers |-> Claim(handler[h], u)] = [h \in Handlers |-> 0]
    BY DEF Init, Claim, Free
  <2> QED BY <2>1, SumZero, VoiceAssumption DEF Claims
<1> QED
  BY <1>1, <1>2, <1>3

LEMMA TimingInductive == ASSUME Timing, [Next]_vars PROVE Timing'
<1>1. Following' /\ Typed'
  BY FollowInductive DEF Timing, Following
<1> SUFFICES TimeKept'
  BY <1>1 DEF Timing
<1>2. ASSUME UNCHANGED <<now, where, spent, life, sessions, handler, voice>>
      PROVE  TimeKept'
  <2> SUFFICES ASSUME NEW u \in Members
               PROVE  voice'[u] + Claims(u)' + Running(u)' <= spent'[u]
    BY DEF TimeKept
  <2>1. Claims(u)' = Claims(u) /\ Running(u)' = Running(u)
    BY <1>2 DEF Claims, Running
  <2> QED BY <1>2, <2>1 DEF Timing, TimeKept
<1>3. ASSUME NEW h \in Handlers, NEW x \in Itinerary,
             Join(h, x[1], x[2]) \/ LeaveOrSwitch(h, x[1], x[2]) \/ MoveUntracked(h, x[1], x[2])
      PROVE  TimeKept'
  BY <1>1, <1>3, TimeMove, ItineraryType
<1>4. ASSUME NEW h \in Handlers, NEW u \in Hosts, Message(h, u)
      PROVE  TimeKept'
  <2>1. "record" \in {"list", "record", "credit"} /\ Nowhere \in Places /\ u \in Members
    BY NothingTyped, NamesAssumption
  <2>2. /\ handler[h].pc = "free" /\ handler'[h] = Event(u, Nowhere, "record") /\ OthersStay(h)
        /\ UNCHANGED <<now, where, spent, life, sessions, voice>>
    BY <1>4 DEF Message, Occurs, OthersStay, stores, rows, Timing, Following, Typed, HandlersOK
  <2>3. Event(u, Nowhere, "record").pc = "record"
    BY <2>1, NewEvent DEF Timing, Following
  <2>4. \A v \in Members : Claim(handler'[h], v) = 0 /\ Claim(handler[h], v) = 0
    BY <2>2, <2>3 DEF Claim
  <2>5. \A v \in Members : voice[v] \in Nat /\ Running(v) \in Nat
    BY RunningType DEF Timing, Following
  <2>6. \A v \in Members : Running(v)' = Running(v)
    BY <2>2 DEF Running
  <2> QED BY <1>1, <2>2, <2>4, <2>5, <2>6, TimePut
<1>5. ASSUME NEW h \in Handlers, HandlerStep(h) \/ FailEvent(h)
      PROVE  TimeKept'
  BY <1>1, <1>5, TimeHandler, TimeOpen
<1>6. CASE StartSweep \/ SweepStep \/ FailSweep \/ UNCHANGED vars
  BY <1>2, <1>6 DEF StartSweep, SweepStep, ContinueSweep, ApplyBoost, FailSweep, vars, world, stores,
     rows
<1> QED
  BY <1>3, <1>4, <1>5, <1>6, TimeTick, TimeNewLife DEF Next, Fault, Discord

(* No member is credited with more minutes than were spent in voice, however *)
(* the handlers of joins, switches and leaves interleave and fail.          *)
THEOREM VoiceTimeEarnedHolds == Spec => []VoiceTimeEarned
<1>1. Spec => []Timing
  BY TimingInit, TimingInductive, PTL DEF Spec
<1> QED
  BY <1>1, TimingOK, PTL

-----------------------------------------------------------------------------
(* The rewards of the pings. *)

Bit(b) == IF b THEN 1 ELSE 0

(* Sets that differ in one element at most. *)
LEMMA DiffersAt ==
    ASSUME NEW S, IsFiniteSet(S), NEW T, NEW x, \A y : y # x => (y \in T <=> y \in S)
    PROVE  /\ IsFiniteSet(T) /\ Cardinality(S) \in Nat /\ Cardinality(T) \in Nat
           /\ Cardinality(T) = (Cardinality(S) + Bit(x \in T)) - Bit(x \in S)
<1> DEFINE R == S \ {x}
<1>1. /\ IsFiniteSet(R) /\ Cardinality(R) \in Nat /\ Cardinality(S) \in Nat
      /\ Cardinality(R) = Cardinality(S) - Bit(x \in S)
  BY FS_RemoveElement, FS_CardinalityType DEF Bit
<1>2. CASE x \in T
  <2>1. T = R \cup {x} /\ x \notin R
    BY <1>2
  <2> HIDE DEF R
  <2>2. IsFiniteSet(T) /\ Cardinality(T) = Cardinality(R) + 1
    BY <1>1, <2>1, FS_AddElement
  <2> QED BY <1>1, <1>2, <2>2 DEF Bit
<1>3. CASE x \notin T
  <2>1. T = R
    BY <1>3
  <2> HIDE DEF R
  <2> QED BY <1>1, <1>3, <2>1 DEF Bit
<1> QED
  BY <1>2, <1>3

Crediting == {"opened", "boost", "answer", "host"}
Rewarding == {"boost", "answer", "host"}

(* A ping that was not registered has no host and no places, and a handler  *)
(* rewards for one that was.                                                *)
Blank == \A l \in Lives, m \in Pings :
            ~pings[l][m].open => pings[l][m].host = Nobody /\ Joiners(pings[l][m]) = {}
Underway == \A h \in Handlers : handler[h].pc \in Rewarding => CurrentPing(h).open
FinitePlaces == \A u \in Members : /\ IsFiniteSet(PingsOf(u)) /\ IsFiniteSet(AnswersTo(u))
                                   /\ IsFiniteSet(PlacesOf(u))

DueHost(u) == 2 * Cardinality(PingsOf(u)) + Cardinality(AnswersTo(u))
PaidHost(u) == hosted[u] + 2 * Cardinality(ToOpen(u)) + Cardinality(ToHost(u))
Balanced(u) ==
    /\ PaidHost(u) <= DueHost(u) /\ DueHost(u) <= PaidHost(u) + 2 * failures
    /\ answered[u] + 3 * Cardinality(ToAnswer(u)) <= 3 * Cardinality(PlacesOf(u))
    /\ Cardinality(PlacesOf(u)) <= answered[u] + Cardinality(ToAnswer(u)) + failures

Awarding == Placing /\ Blank /\ Underway /\ FinitePlaces /\ \A u \in Members : Balanced(u)

LEMMA AwardingOK == Awarding => RewardsAccounted
BY DEF Awarding, Balanced, DueHost, PaidHost, RewardsAccounted

(* The counts of handlers that a step of one of them can change. *)
KeepsHosts ==
    \A l \in Lives, m \in Pings : pings[l][m].open =>
        pings'[l][m].open /\ pings'[l][m].host = pings[l][m].host

LEMMA HostStays ==
    ASSUME Typed, Underway, KeepsHosts, NEW h \in Handlers, handler[h].pc \in Rewarding,
           handler'[h].life = handler[h].life, handler'[h].ping = handler[h].ping
    PROVE  CurrentPing(h)'.open /\ CurrentPing(h)'.host = CurrentPing(h).host
<1>1. handler[h].life \in Lives /\ handler[h].ping \in Pings
  BY DEF Typed, HandlersOK, Fit, Handling, Rewarding
<1> QED
  BY <1>1 DEF Underway, CurrentPing, KeepsHosts

LEMMA HandlerCounts ==
    ASSUME Typed, Underway, KeepsHosts, NEW h \in Handlers, OthersStay(h), NEW u
    PROVE  /\ Cardinality(ToOpen(u)) \in Nat /\ Cardinality(ToOpen(u))' \in Nat
           /\ Cardinality(ToAnswer(u)) \in Nat /\ Cardinality(ToAnswer(u))' \in Nat
           /\ Cardinality(ToHost(u)) \in Nat /\ Cardinality(ToHost(u))' \in Nat
           /\ Cardinality(ToOpen(u))' =
                (Cardinality(ToOpen(u)) + Bit(h \in ToOpen(u)')) - Bit(h \in ToOpen(u))
           /\ Cardinality(ToAnswer(u))' =
                (Cardinality(ToAnswer(u)) + Bit(h \in ToAnswer(u)')) - Bit(h \in ToAnswer(u))
           /\ Cardinality(ToHost(u))' =
                (Cardinality(ToHost(u)) + Bit(h \in ToHost(u)')) - Bit(h \in ToHost(u))
<1>1. IsFiniteSet(ToOpen(u)) /\ IsFiniteSet(ToAnswer(u)) /\ IsFiniteSet(ToHost(u))
  <2>1. /\ ToOpen(u) \subseteq Handlers /\ ToAnswer(u) \subseteq Handlers
        /\ ToHost(u) \subseteq Handlers /\ IsFiniteSet(Handlers)
    BY VoiceAssumption DEF ToOpen, ToAnswer, ToHost
  <2> QED BY <2>1, FS_Subset
<1>2. \A k : k # h => (k \in ToOpen(u)' <=> k \in ToOpen(u))
  BY DEF OthersStay, ToOpen, At
<1>3. \A k : k # h => (k \in ToAnswer(u)' <=> k \in ToAnswer(u))
  BY DEF OthersStay, ToAnswer, At
<1>4. \A k : k # h => (k \in ToHost(u)' <=> k \in ToHost(u))
  <2> SUFFICES ASSUME NEW k \in Handlers, k # h, handler[k].pc \in Rewarding
               PROVE  CurrentPing(k)'.host = CurrentPing(k).host
    BY DEF OthersStay, ToHost, At, Rewarding
  <2> QED BY HostStays DEF OthersStay
<1>5. /\ Cardinality(ToOpen(u)') \in Nat /\ Cardinality(ToOpen(u)) \in Nat
      /\ Cardinality(ToOpen(u)') =
           (Cardinality(ToOpen(u)) + Bit(h \in ToOpen(u)')) - Bit(h \in ToOpen(u))
  BY <1>1, <1>2, DiffersAt
<1>6. /\ Cardinality(ToAnswer(u)') \in Nat /\ Cardinality(ToAnswer(u)) \in Nat
      /\ Cardinality(ToAnswer(u)') =
           (Cardinality(ToAnswer(u)) + Bit(h \in ToAnswer(u)')) - Bit(h \in ToAnswer(u))
  BY <1>1, <1>3, DiffersAt
<1>7. /\ Cardinality(ToHost(u)') \in Nat /\ Cardinality(ToHost(u)) \in Nat
      /\ Cardinality(ToHost(u)') =
           (Cardinality(ToHost(u)) + Bit(h \in ToHost(u)')) - Bit(h \in ToHost(u))
  BY <1>1, <1>4, DiffersAt
<1> QED
  BY <1>5, <1>6, <1>7

LEMMA RewardsTyped ==
    ASSUME Typed, FinitePlaces, NEW u \in Members
    PROVE  /\ hosted[u] \in Nat /\ answered[u] \in Nat /\ failures \in Nat
           /\ Cardinality(PingsOf(u)) \in Nat /\ Cardinality(AnswersTo(u)) \in Nat
           /\ Cardinality(PlacesOf(u)) \in Nat
BY FS_CardinalityType DEF Typed, RowsOK, WorldOK, FinitePlaces

(* Steps that give out no place and credit nothing. *)
DueStays(k) ==
    \/ handler'[k] = handler[k]
    \/ handler[k].pc \notin Crediting /\ handler'[k].pc \notin Crediting
    \/ /\ handler[k].pc = "boost" /\ handler'[k].pc = "answer"
       /\ handler'[k].user = handler[k].user /\ handler'[k].life = handler[k].life
       /\ handler'[k].ping = handler[k].ping

LEMMA AwardingStays ==
    ASSUME Awarding, Typed', pings' = pings, UNCHANGED <<hosted, answered>>, failures' >= failures,
           \A k \in Handlers : DueStays(k)
    PROVE  Blank' /\ Underway' /\ FinitePlaces' /\ \A u \in Members : Balanced(u)'
<1>1. Typed /\ Underway /\ FinitePlaces /\ failures \in Nat /\ failures' \in Nat
  BY DEF Awarding, Placing, Typed, WorldOK
<1>2. Blank'
  BY DEF Awarding, Blank
<1>3. Underway'
  <2> SUFFICES ASSUME NEW k \in Handlers, handler'[k].pc \in Rewarding
               PROVE  pings[handler'[k].life][handler'[k].ping].open
    BY DEF Underway, CurrentPing
  <2>1. /\ handler[k].pc \in Rewarding /\ handler'[k].life = handler[k].life
        /\ handler'[k].ping = handler[k].ping
    BY DEF DueStays, Crediting, Rewarding
  <2> QED BY <1>1, <2>1 DEF Underway, CurrentPing
<1>4. ASSUME NEW u \in Members
      PROVE  /\ PingsOf(u)' = PingsOf(u) /\ AnswersTo(u)' = AnswersTo(u)
             /\ PlacesOf(u)' = PlacesOf(u)
  BY DEF PingsOf, AnswersTo, PlacesOf, PingOf
<1>5. FinitePlaces'
  BY <1>1, <1>4 DEF FinitePlaces
<1>6. ASSUME NEW u \in Members
      PROVE  /\ ToOpen(u)' = ToOpen(u) /\ ToAnswer(u)' = ToAnswer(u) /\ ToHost(u)' = ToHost(u)
  BY DEF ToOpen, ToAnswer, ToHost, At, DueStays, Crediting, CurrentPing
<1>7. ASSUME NEW u \in Members
      PROVE  Balanced(u)'
  <2>1. /\ Cardinality(PingsOf(u)') = Cardinality(PingsOf(u))
        /\ Cardinality(AnswersTo(u)') = Cardinality(AnswersTo(u))
        /\ Cardinality(PlacesOf(u)') = Cardinality(PlacesOf(u))
        /\ Cardinality(ToOpen(u)') = Cardinality(ToOpen(u))
        /\ Cardinality(ToAnswer(u)') = Cardinality(ToAnswer(u))
        /\ Cardinality(ToHost(u)') = Cardinality(ToHost(u))
    BY <1>4, <1>6
  <2>2. /\ hosted[u] \in Nat /\ answered[u] \in Nat
        /\ Cardinality(PingsOf(u)) \in Nat /\ Cardinality(AnswersTo(u)) \in Nat
        /\ Cardinality(PlacesOf(u)) \in Nat
    BY <1>1, RewardsTyped
  <2>3. /\ Cardinality(ToOpen(u)) \in Nat /\ Cardinality(ToAnswer(u)) \in Nat
        /\ Cardinality(ToHost(u)) \in Nat
    <3>1. /\ ToOpen(u) \subseteq Handlers /\ ToAnswer(u) \subseteq Handlers
          /\ ToHost(u) \subseteq Handlers /\ IsFiniteSet(Handlers)
      BY VoiceAssumption DEF ToOpen, ToAnswer, ToHost
    <3> QED BY <3>1, FS_Subset, FS_CardinalityType
  <2>4. /\ PaidHost(u)' = PaidHost(u) /\ DueHost(u)' = DueHost(u)
        /\ PaidHost(u) \in Nat /\ DueHost(u) \in Nat
    BY <2>1, <2>2, <2>3 DEF PaidHost, DueHost
  <2>5. Balanced(u)
    BY DEF Awarding
  <2>6. /\ PaidHost(u)' <= DueHost(u)' /\ DueHost(u)' <= PaidHost(u)' + 2 * failures'
    BY <1>1, <2>4, <2>5 DEF Balanced
  <2>7. /\ answered'[u] + 3 * Cardinality(ToAnswer(u)') <= 3 * Cardinality(PlacesOf(u)')
        /\ Cardinality(PlacesOf(u)') <= answered'[u] + Cardinality(ToAnswer(u)') + failures'
    BY <1>1, <2>1, <2>2, <2>3, <2>5 DEF Balanced
  <2> QED BY <2>6, <2>7 DEF Balanced
<1> QED
  BY <1>2, <1>3, <1>5, <1>7

LEMMA UnderwayPut ==
    ASSUME Typed, Underway, KeepsHosts, NEW h \in Handlers, OthersStay(h),
           handler'[h].pc \in Rewarding =>
              \/ CurrentPing(h)'.open
              \/ /\ handler[h].pc \in Rewarding /\ handler'[h].life = handler[h].life
                 /\ handler'[h].ping = handler[h].ping
    PROVE  Underway'
<1> SUFFICES ASSUME NEW k \in Handlers, handler'[k].pc \in Rewarding
             PROVE  CurrentPing(k)'.open
  BY DEF Underway
<1>1. \/ CurrentPing(k)'.open
      \/ /\ handler[k].pc \in Rewarding /\ handler'[k].life = handler[k].life
         /\ handler'[k].ping = handler[k].ping
  BY DEF OthersStay
<1> QED
  BY <1>1, HostStays

(* What a member's balance adds up to, when places and pings stay. *)
LEMMA BalancePut ==
    ASSUME Awarding, Typed', pings' = pings, NEW h \in Handlers, OthersStay(h), NEW u \in Members,
           failures' >= failures,
           LET opened == 2 * (Bit(h \in ToOpen(u)) - Bit(h \in ToOpen(u)'))
               told == Bit(h \in ToHost(u)) - Bit(h \in ToHost(u)')
               toAnswer == Bit(h \in ToAnswer(u)) - Bit(h \in ToAnswer(u)')
               lost == failures' - failures
           IN /\ hosted'[u] <= hosted[u] + opened + told
              /\ hosted[u] + opened + told <= hosted'[u] + 2 * lost
              /\ answered'[u] <= answered[u] + 3 * toAnswer
              /\ answered[u] + toAnswer <= answered'[u] + lost
    PROVE  Balanced(u)'
<1>1. Typed /\ Underway /\ FinitePlaces /\ KeepsHosts /\ failures \in Nat /\ failures' \in Nat
  BY DEF Awarding, Placing, Typed, WorldOK, KeepsHosts
<1>2. /\ PingsOf(u)' = PingsOf(u) /\ AnswersTo(u)' = AnswersTo(u) /\ PlacesOf(u)' = PlacesOf(u)
  BY DEF PingsOf, AnswersTo, PlacesOf, PingOf
<1>3. /\ hosted[u] \in Nat /\ answered[u] \in Nat
      /\ Cardinality(PingsOf(u)) \in Nat /\ Cardinality(AnswersTo(u)) \in Nat
      /\ Cardinality(PlacesOf(u)) \in Nat /\ hosted'[u] \in Nat /\ answered'[u] \in Nat
  BY <1>1, RewardsTyped DEF Typed, RowsOK
<1>4. /\ Cardinality(ToOpen(u)) \in Nat /\ Cardinality(ToOpen(u))' \in Nat
      /\ Cardinality(ToAnswer(u)) \in Nat /\ Cardinality(ToAnswer(u))' \in Nat
      /\ Cardinality(ToHost(u)) \in Nat /\ Cardinality(ToHost(u))' \in Nat
      /\ Cardinality(ToOpen(u))' =
           (Cardinality(ToOpen(u)) + Bit(h \in ToOpen(u)')) - Bit(h \in ToOpen(u))
      /\ Cardinality(ToAnswer(u))' =
           (Cardinality(ToAnswer(u)) + Bit(h \in ToAnswer(u)')) - Bit(h \in ToAnswer(u))
      /\ Cardinality(ToHost(u))' =
           (Cardinality(ToHost(u)) + Bit(h \in ToHost(u)')) - Bit(h \in ToHost(u))
  BY <1>1, HandlerCounts
<1>5. \A b : Bit(b) \in 0..1
  BY DEF Bit
<1>6. Balanced(u)
  BY DEF Awarding
<1>7. /\ DueHost(u)' = DueHost(u) /\ DueHost(u) \in Nat
      /\ PaidHost(u) \in Nat /\ PaidHost(u)' \in Nat
      /\ PaidHost(u)' <= PaidHost(u) /\ PaidHost(u) <= PaidHost(u)' + 2 * (failures' - failures)
  BY <1>1, <1>2, <1>3, <1>4, <1>5 DEF DueHost, PaidHost
<1>8. PaidHost(u)' <= DueHost(u)' /\ DueHost(u)' <= PaidHost(u)' + 2 * failures'
  BY <1>1, <1>6, <1>7 DEF Balanced
<1>9. /\ answered'[u] + 3 * Cardinality(ToAnswer(u))' <= 3 * Cardinality(PlacesOf(u))
      /\ Cardinality(PlacesOf(u)) <= answered'[u] + Cardinality(ToAnswer(u))' + failures'
  BY <1>1, <1>3, <1>4, <1>5, <1>6 DEF Balanced
<1> QED
  BY <1>2, <1>8, <1>9 DEF Balanced

LEMMA AddAt ==
    ASSUME NEW points \in [Members -> Nat], NEW v, NEW n \in Nat, NEW u \in Members
    PROVE  Add(points, v, n)[u] = IF u = v THEN points[u] + n ELSE points[u]
BY DEF Add

(* What a step of a handler does to the handlers, with what it credits.     *)
LEMMA AwardCredit ==
    ASSUME Awarding, Typed', NEW h \in Handlers,
           CreditPing(h) \/ CreditResponder(h) \/ CreditHost(h) \/ FailEvent(h)
    PROVE  Blank' /\ Underway' /\ FinitePlaces' /\ \A u \in Members : Balanced(u)'
<1>1. /\ Typed /\ Underway /\ FinitePlaces /\ Blank /\ HandlersOK /\ failures \in Nat
      /\ hosted \in [Members -> Nat] /\ answered \in [Members -> Nat]
      /\ \A u \in Members : hosted[u] \in Nat /\ answered[u] \in Nat
  BY DEF Awarding, Placing, Typed, WorldOK, RowsOK
<1>2. pings' = pings /\ KeepsHosts
  BY DEF CreditPing, CreditResponder, CreditHost, FailEvent, stores, KeepsHosts
<1>3. Blank' /\ FinitePlaces'
  <2>1. \A u \in Members : /\ PingsOf(u)' = PingsOf(u) /\ AnswersTo(u)' = AnswersTo(u)
                           /\ PlacesOf(u)' = PlacesOf(u)
    BY <1>2 DEF PingsOf, AnswersTo, PlacesOf, PingOf
  <2> QED BY <1>1, <1>2, <2>1 DEF Blank, FinitePlaces
<1>4. CASE CreditPing(h)
  <2>1. OthersStay(h) /\ handler'[h] = Free /\ handler[h].pc = "opened"
        /\ hosted' = Add(hosted, handler[h].user, 2) /\ answered' = answered /\ failures' = failures
    BY <1>1, <1>4, FinishTurns DEF CreditPing
  <2>2. Underway'
    BY <1>1, <1>2, <2>1, UnderwayPut DEF Free, Rewarding
  <2>3. ASSUME NEW u \in Members PROVE Balanced(u)'
    <3>1. hosted'[u] = IF u = handler[h].user THEN hosted[u] + 2 ELSE hosted[u]
      BY <1>1, <2>1, AddAt
    <3>2. /\ Bit(h \in ToOpen(u)) = (IF u = handler[h].user THEN 1 ELSE 0) /\ Bit(h \in ToOpen(u)') = 0
          /\ Bit(h \in ToHost(u)) = 0 /\ Bit(h \in ToHost(u)') = 0
          /\ Bit(h \in ToAnswer(u)) = 0 /\ Bit(h \in ToAnswer(u)') = 0
      BY <2>1 DEF ToOpen, ToHost, ToAnswer, At, Bit, Free
    <3> QED BY <1>1, <1>2, <2>1, <3>1, <3>2, BalancePut
  <2> QED BY <1>3, <2>2, <2>3
<1>5. CASE CreditResponder(h)
  <2> DEFINE speed == Speed(handler[h].at - CurrentPing(h).at)
  <2>1. /\ Turns(h, "host") /\ handler'[h].ping = handler[h].ping /\ handler[h].pc = "answer"
        /\ answered' = Add(answered, handler[h].user, speed) /\ hosted' = hosted
        /\ failures' = failures
    BY <1>1, <1>5, GotoTurns DEF CreditResponder
  <2>2. speed \in 1..3
    BY DEF Speed
  <2> HIDE DEF speed
  <2>3. Underway' /\ CurrentPing(h)' = CurrentPing(h)
    <3>1. CurrentPing(h)' = CurrentPing(h)
      BY <1>2, <2>1 DEF CurrentPing, Turns, Carries
    <3> QED BY <1>1, <1>2, <2>1, <3>1, UnderwayPut DEF Rewarding, Turns, Carries
  <2>4. ASSUME NEW u \in Members PROVE Balanced(u)'
    <3>1. answered'[u] = IF u = handler[h].user THEN answered[u] + speed ELSE answered[u]
      BY <1>1, <2>1, <2>2, AddAt
    <3>2. /\ Bit(h \in ToOpen(u)) = 0 /\ Bit(h \in ToOpen(u)') = 0
          /\ Bit(h \in ToHost(u)) = Bit(h \in ToHost(u)')
          /\ Bit(h \in ToAnswer(u)) = (IF u = handler[h].user THEN 1 ELSE 0)
          /\ Bit(h \in ToAnswer(u)') = 0
      BY <2>1, <2>3 DEF ToOpen, ToHost, ToAnswer, At, Bit, Turns
    <3>3. Bit(h \in ToHost(u)) \in 0..1
      BY DEF Bit
    <3> QED BY <1>1, <1>2, <2>1, <2>2, <3>1, <3>2, <3>3, BalancePut DEF Turns
  <2> QED BY <1>3, <2>3, <2>4
<1>6. CASE CreditHost(h)
  <2>1. /\ Turns(h, "next") /\ handler[h].pc = "host"
        /\ hosted' = Add(hosted, CurrentPing(h).host, 1) /\ answered' = answered
        /\ failures' = failures
    BY <1>1, <1>6, HostTurns DEF CreditHost
  <2>2. Underway'
    BY <1>1, <1>2, <2>1, UnderwayPut DEF Turns, Rewarding
  <2>3. ASSUME NEW u \in Members PROVE Balanced(u)'
    <3>1. hosted'[u] = IF u = CurrentPing(h).host THEN hosted[u] + 1 ELSE hosted[u]
      BY <1>1, <2>1, AddAt
    <3>2. /\ Bit(h \in ToOpen(u)) = 0 /\ Bit(h \in ToOpen(u)') = 0
          /\ Bit(h \in ToHost(u)) = (IF u = CurrentPing(h).host THEN 1 ELSE 0)
          /\ Bit(h \in ToHost(u)') = 0
          /\ Bit(h \in ToAnswer(u)) = 0 /\ Bit(h \in ToAnswer(u)') = 0
      BY <2>1 DEF ToOpen, ToHost, ToAnswer, At, Bit, Turns
    <3> QED BY <1>1, <1>2, <2>1, <3>1, <3>2, BalancePut DEF Turns
  <2> QED BY <1>3, <2>2, <2>3
<1>7. CASE FailEvent(h)
  <2>1. /\ OthersStay(h) /\ handler'[h].pc \in {"free", "open"} /\ UNCHANGED <<hosted, answered>>
        /\ failures' = failures + 1
    BY <1>1, <1>7, FinishTurns, LeavingTurns DEF FailEvent, Fails, rows, Free
  <2>2. Underway'
    BY <1>1, <1>2, <2>1, UnderwayPut DEF Rewarding
  <2>3. ASSUME NEW u \in Members PROVE Balanced(u)'
    <3>1. /\ Bit(h \in ToOpen(u)') = 0 /\ Bit(h \in ToHost(u)') = 0 /\ Bit(h \in ToAnswer(u)') = 0
          /\ Bit(h \in ToOpen(u)) \in 0..1 /\ Bit(h \in ToHost(u)) \in 0..1
          /\ Bit(h \in ToAnswer(u)) \in 0..1
          /\ Bit(h \in ToOpen(u)) + Bit(h \in ToHost(u)) <= 1
      BY <2>1 DEF ToOpen, ToHost, ToAnswer, At, Bit
    <3> QED BY <1>1, <1>2, <2>1, <3>1, BalancePut
  <2> QED BY <1>3, <2>2, <2>3
<1> QED
  BY <1>4, <1>5, <1>6, <1>7

(* A place that is given out is owed to the responder and to the host. *)
LEMMA AwardPlace ==
    ASSUME Awarding, Typed', NEW h \in Handlers, NEW m \in Pings, Place(h, m)
    PROVE  Blank' /\ Underway' /\ FinitePlaces' /\ \A u \in Members : Balanced(u)'
<1> SUFFICES ASSUME NEW l, l = handler[h].life, NEW v, v = handler[h].user,
                    NEW p, p = pings[l][m], NEW q, q = PlaceIn(p, v), NEW x, x = <<l, m>>
             PROVE  Blank' /\ Underway' /\ FinitePlaces' /\ \A u \in Members : Balanced(u)'
  OBVIOUS
<1>1. /\ Placing /\ Typed /\ Underway /\ FinitePlaces /\ Blank /\ HandlersOK /\ failures \in Nat
      /\ \A u \in Members : hosted[u] \in Nat /\ answered[u] \in Nat
  BY DEF Awarding, Placing, Typed, WorldOK, RowsOK
<1>2. /\ OthersStay(h) /\ Carries(h)
      /\ v \in Joiners(p) => handler'[h].pc = "next"
      /\ v \notin Joiners(p) => /\ handler'[h].ping = m /\ handler'[h].pc \in {"boost", "answer"}
  BY <1>1, PlaceTurns
<1>3. /\ handler[h].pc = "next" /\ l \in Lives /\ v \in Members /\ m \in handler[h].todo
      /\ pings' = [pings EXCEPT ![l][m] = q]
      /\ UNCHANGED <<hosted, answered, failures>>
  <2>1. PICK e \in Handling : Placed(h, m, e)
    BY <1>1, PlaceStep
  <2> QED BY <2>1 DEF Placed, rows
<1>4. p \in Ping /\ May(v, p) /\ Fair(p)
  BY <1>1, <1>3 DEF Placing, Typed, StoresOK, Invited, Filled
<1>5. q.host = p.host /\ q.open /\ q \in Ping /\ Joiners(q) = Joiners(p) \cup {v}
  <2>1. q.host = p.host /\ q.open /\ q \in Ping
    BY <1>3, <1>4, PlaceFair, PlaceType
  <2>2. Joiners(q) = Joiners(p) \cup {v}
    BY <1>4 DEF PlaceIn, Joiners, Ping
  <2> QED BY <2>1, <2>2
<1>6. \A k \in Lives, n \in Pings : pings'[k][n] = IF k = l /\ n = m THEN q ELSE pings[k][n]
  <2>1. StoresOK /\ q \in Ping /\ l \in Lives /\ pings' = [pings EXCEPT ![l][m] = q]
    BY <1>1, <1>3, <1>5 DEF Typed
  <2> QED BY <2>1, PingPut
<1>7. Blank' /\ KeepsHosts
  BY <1>1, <1>4, <1>5, <1>6 DEF Blank, KeepsHosts
<1>8. Underway'
  <2>1. handler'[h].pc \in Rewarding => CurrentPing(h)'.open
    BY <1>2, <1>3, <1>5, <1>6 DEF CurrentPing, Carries, Rewarding
  <2> QED BY <1>1, <1>2, <1>7, <2>1, UnderwayPut
<1>9. x \in AllPings /\ x[1] = l /\ x[2] = m /\ PingOf(x) = p /\ PingOf(x)' = q
      /\ \A y \in AllPings : y # x => PingOf(y)' = PingOf(y)
  BY <1>3, <1>6 DEF AllPings, PingOf
<1>10. ASSUME NEW u \in Members
       PROVE  /\ PingsOf(u)' = PingsOf(u)
              /\ \A y : y # <<x, v>> => (y \in AnswersTo(u)' <=> y \in AnswersTo(u))
              /\ <<x, v>> \in AnswersTo(u) <=> v \in Joiners(p) /\ p.host = u
              /\ <<x, v>> \in AnswersTo(u)' <=> p.host = u
              /\ \A y : y # x => (y \in PlacesOf(u)' <=> y \in PlacesOf(u))
              /\ x \in PlacesOf(u) <=> u \in Joiners(p)
              /\ x \in PlacesOf(u)' <=> u \in Joiners(p) \/ u = v
  <2>1. PingsOf(u)' = PingsOf(u)
    BY <1>5, <1>9 DEF PingsOf
  <2>2. \A y \in AllPings, w \in Members :
           <<y, w>> \in AnswersTo(u) <=> PingOf(y).host = u /\ w \in Joiners(PingOf(y))
    BY DEF AnswersTo, PingsOf
  <2>3. \A y \in AllPings, w \in Members :
           <<y, w>> \in AnswersTo(u)' <=> PingOf(y)'.host = u /\ w \in Joiners(PingOf(y)')
    BY DEF AnswersTo, PingsOf, PingOf, Joiners
  <2>4. \A y \in AllPings, w \in Members :
           <<y, w>> # <<x, v>> => (<<y, w>> \in AnswersTo(u)' <=> <<y, w>> \in AnswersTo(u))
    BY <1>3, <1>5, <1>9, <2>2, <2>3
  <2>5. \A y : y # <<x, v>> => (y \in AnswersTo(u)' <=> y \in AnswersTo(u))
    <3>1. AnswersTo(u) \subseteq AllPings \X Members /\ AnswersTo(u)' \subseteq AllPings \X Members
      BY DEF AnswersTo
    <3> QED BY <2>4, <3>1
  <2>6. \A y : y # x => (y \in PlacesOf(u)' <=> y \in PlacesOf(u))
    BY <1>9 DEF PlacesOf
  <2> QED BY <1>3, <1>5, <1>9, <2>1, <2>2, <2>3, <2>5, <2>6 DEF PlacesOf
<1>11. ASSUME NEW u \in Members
       PROVE  IsFiniteSet(PingsOf(u)') /\ IsFiniteSet(AnswersTo(u)') /\ IsFiniteSet(PlacesOf(u)')
              /\ Balanced(u)'
  <2>1. /\ IsFiniteSet(PingsOf(u)) /\ IsFiniteSet(AnswersTo(u)) /\ IsFiniteSet(PlacesOf(u))
    BY <1>1 DEF FinitePlaces
  <2>2. /\ IsFiniteSet(AnswersTo(u)') /\ Cardinality(AnswersTo(u)) \in Nat
        /\ Cardinality(AnswersTo(u)') \in Nat
        /\ Cardinality(AnswersTo(u)') =
             (Cardinality(AnswersTo(u)) + Bit(<<x, v>> \in AnswersTo(u)')) - Bit(<<x, v>> \in AnswersTo(u))
    BY <1>10, <2>1, DiffersAt
  <2>3. /\ IsFiniteSet(PlacesOf(u)') /\ Cardinality(PlacesOf(u)) \in Nat
        /\ Cardinality(PlacesOf(u)') \in Nat
        /\ Cardinality(PlacesOf(u)') =
             (Cardinality(PlacesOf(u)) + Bit(x \in PlacesOf(u)')) - Bit(x \in PlacesOf(u))
    BY <1>10, <2>1, DiffersAt
  <2>4. Cardinality(PingsOf(u)') = Cardinality(PingsOf(u)) /\ Cardinality(PingsOf(u)) \in Nat
    BY <1>10, <2>1, FS_CardinalityType
  <2>5. /\ Cardinality(ToOpen(u)) \in Nat /\ Cardinality(ToOpen(u))' \in Nat
        /\ Cardinality(ToAnswer(u)) \in Nat /\ Cardinality(ToAnswer(u))' \in Nat
        /\ Cardinality(ToHost(u)) \in Nat /\ Cardinality(ToHost(u))' \in Nat
        /\ Cardinality(ToOpen(u))' =
             (Cardinality(ToOpen(u)) + Bit(h \in ToOpen(u)')) - Bit(h \in ToOpen(u))
        /\ Cardinality(ToAnswer(u))' =
             (Cardinality(ToAnswer(u)) + Bit(h \in ToAnswer(u)')) - Bit(h \in ToAnswer(u))
        /\ Cardinality(ToHost(u))' =
             (Cardinality(ToHost(u)) + Bit(h \in ToHost(u)')) - Bit(h \in ToHost(u))
    BY <1>1, <1>2, <1>7, HandlerCounts
  <2>6. Balanced(u)
    BY DEF Awarding
  <2>7. CASE v \in Joiners(p)
    <3>1. /\ Cardinality(AnswersTo(u)') = Cardinality(AnswersTo(u))
          /\ Cardinality(PlacesOf(u)') = Cardinality(PlacesOf(u))
      BY <1>10, <2>2, <2>3, <2>7 DEF Bit
    <3>2. /\ Bit(h \in ToOpen(u)) = 0 /\ Bit(h \in ToOpen(u)') = 0
          /\ Bit(h \in ToHost(u)) = 0 /\ Bit(h \in ToHost(u)') = 0
          /\ Bit(h \in ToAnswer(u)) = 0 /\ Bit(h \in ToAnswer(u)') = 0
      BY <1>2, <1>3, <2>7 DEF ToOpen, ToHost, ToAnswer, At, Bit
    <3> QED
      BY <1>1, <1>3, <1>10, <2>1, <2>2, <2>3, <2>4, <2>5, <2>6, <3>1, <3>2
         DEF Balanced, PaidHost, DueHost
  <2>8. CASE v \notin Joiners(p)
    <3> DEFINE host == IF p.host = u THEN 1 ELSE 0
               self == IF v = u THEN 1 ELSE 0
    <3>1. /\ Cardinality(AnswersTo(u)') = Cardinality(AnswersTo(u)) + host
          /\ Cardinality(PlacesOf(u)') = Cardinality(PlacesOf(u)) + self
      <4>1. Bit(x \in PlacesOf(u)') = Bit(x \in PlacesOf(u)) + self
        BY <1>10, <2>8 DEF Bit
      <4>2. Bit(<<x, v>> \in AnswersTo(u)') = host /\ Bit(<<x, v>> \in AnswersTo(u)) = 0
        BY <1>10, <2>8 DEF Bit
      <4>3. \A b : Bit(b) \in 0..1
        BY DEF Bit
      <4> QED BY <2>2, <2>3, <4>1, <4>2, <4>3
    <3>2. CurrentPing(h)'.host = p.host
      BY <1>2, <1>3, <1>5, <1>6, <2>8 DEF CurrentPing, Carries
    <3>3. /\ Bit(h \in ToOpen(u)) = 0 /\ Bit(h \in ToOpen(u)') = 0
          /\ Bit(h \in ToHost(u)) = 0 /\ Bit(h \in ToHost(u)') = host
          /\ Bit(h \in ToAnswer(u)) = 0 /\ Bit(h \in ToAnswer(u)') = self
      BY <1>2, <1>3, <2>8, <3>2 DEF ToOpen, ToHost, ToAnswer, At, Bit, Carries
    <3>4. host \in 0..1 /\ self \in 0..1
      OBVIOUS
    <3> HIDE DEF host, self
    <3> QED
      BY <1>1, <1>3, <1>10, <2>1, <2>2, <2>3, <2>4, <2>5, <2>6, <3>1, <3>3, <3>4
         DEF Balanced, PaidHost, DueHost
  <2> QED BY <2>7, <2>8
<1> QED
  BY <1>7, <1>8, <1>11 DEF FinitePlaces

(* A ping that is registered is owed to its host. *)
LEMMA AwardRegister ==
    ASSUME Awarding, Typed', NEW h \in Handlers, NEW m \in Pings, NEW roles \in RoleSets,
           Register(h, m, roles)
    PROVE  Blank' /\ Underway' /\ FinitePlaces' /\ \A u \in Members : Balanced(u)'
<1> SUFFICES ASSUME NEW l, l = life, NEW v, v = handler[h].user, NEW x, x = <<l, m>>
             PROVE  Blank' /\ Underway' /\ FinitePlaces' /\ \A u \in Members : Balanced(u)'
  OBVIOUS
<1>1. /\ Typed /\ Underway /\ FinitePlaces /\ Blank /\ HandlersOK /\ StoresOK /\ failures \in Nat
      /\ \A u \in Members : hosted[u] \in Nat /\ answered[u] \in Nat
  BY DEF Awarding, Placing, Typed, WorldOK, RowsOK
<1>2. PICK q \in Ping : Registered(h, m, q)
  BY <1>1, RegisterStep
<1>3. /\ pings' = [pings EXCEPT ![l][m] = q] /\ Joiners(q) = {} /\ q.open /\ l \in Lives
      /\ ~pings[l][m].open /\ handler[h].pc = "record"
      /\ UNCHANGED <<hosted, answered, failures>>
  BY <1>2 DEF Registered, Joiners, rows
<1>4. \A k \in Lives, n \in Pings : pings'[k][n] = IF k = l /\ n = m THEN q ELSE pings[k][n]
  <2>1. StoresOK /\ q \in Ping /\ l \in Lives /\ pings' = [pings EXCEPT ![l][m] = q]
    BY <1>1, <1>3
  <2> QED BY <2>1, PingPut
<1>5. q.host = v
  <2>1. pings'[l][m].host = v
    BY <1>1, <1>3 DEF Register, StoresOK, NotOpen
  <2> QED BY <1>3, <1>4, <2>1
<1>6. Turns(h, "opened")
  BY <1>1, <1>2, GotoTurns DEF Registered
<1>7. Blank' /\ KeepsHosts
  <2>1. /\ Joiners(q) = {} /\ q.open /\ ~pings[l][m].open
        /\ \A k \in Lives, n \in Pings : (k = l /\ n = m) \/ pings'[k][n] = pings[k][n]
        /\ \A k \in Lives, n \in Pings : (k = l /\ n = m) => pings'[k][n] = q
    BY <1>3, <1>4
  <2>2. \A k \in Lives, n \in Pings :
           ~pings'[k][n].open => pings'[k][n].host = Nobody /\ Joiners(pings'[k][n]) = {}
    BY <1>1, <2>1 DEF Blank
  <2>3. KeepsHosts
    BY <2>1 DEF KeepsHosts
  <2>4. Blank'
    BY <2>2 DEF Blank, Joiners
  <2> QED BY <2>3, <2>4
<1>8. Underway'
  BY <1>1, <1>6, <1>7, UnderwayPut DEF Turns, Rewarding
<1>9. /\ x \in AllPings /\ PingOf(x)' = q /\ PingOf(x).host = Nobody /\ Joiners(PingOf(x)) = {}
      /\ \A y \in AllPings : y # x => PingOf(y)' = PingOf(y)
  BY <1>1, <1>3, <1>4 DEF AllPings, PingOf, Blank
<1>10. ASSUME NEW u \in Members
       PROVE  /\ \A y : y # x => (y \in PingsOf(u)' <=> y \in PingsOf(u))
              /\ x \notin PingsOf(u) /\ (x \in PingsOf(u)' <=> u = v)
              /\ AnswersTo(u)' = AnswersTo(u) /\ PlacesOf(u)' = PlacesOf(u)
  <2>1. u # Nobody
    BY NamesAssumption
  <2>2. \A y \in AllPings, w \in Members :
           <<y, w>> \in AnswersTo(u) <=> PingOf(y).host = u /\ w \in Joiners(PingOf(y))
    BY DEF AnswersTo, PingsOf
  <2>3. \A y \in AllPings, w \in Members :
           <<y, w>> \in AnswersTo(u)' <=> PingOf(y)'.host = u /\ w \in Joiners(PingOf(y)')
    BY DEF AnswersTo, PingsOf, PingOf, Joiners
  <2>4. AnswersTo(u)' = AnswersTo(u)
    <3>1. AnswersTo(u) \subseteq AllPings \X Members /\ AnswersTo(u)' \subseteq AllPings \X Members
      BY DEF AnswersTo
    <3>2. \A y \in AllPings, w \in Members : <<y, w>> \in AnswersTo(u)' <=> <<y, w>> \in AnswersTo(u)
      BY <1>3, <1>9, <2>2, <2>3
    <3> QED BY <3>1, <3>2
  <2>5. PlacesOf(u)' = PlacesOf(u)
    BY <1>3, <1>9 DEF PlacesOf
  <2> QED BY <1>5, <1>9, <2>1, <2>4, <2>5 DEF PingsOf
<1>11. ASSUME NEW u \in Members
       PROVE  IsFiniteSet(PingsOf(u)') /\ IsFiniteSet(AnswersTo(u)') /\ IsFiniteSet(PlacesOf(u)')
              /\ Balanced(u)'
  <2>1. /\ IsFiniteSet(PingsOf(u)) /\ IsFiniteSet(AnswersTo(u)) /\ IsFiniteSet(PlacesOf(u))
    BY <1>1 DEF FinitePlaces
  <2>2. /\ IsFiniteSet(PingsOf(u)') /\ Cardinality(PingsOf(u)) \in Nat
        /\ Cardinality(PingsOf(u)') \in Nat
        /\ Cardinality(PingsOf(u)') =
             (Cardinality(PingsOf(u)) + Bit(x \in PingsOf(u)')) - Bit(x \in PingsOf(u))
    BY <1>10, <2>1, DiffersAt
  <2>3. /\ Cardinality(AnswersTo(u)') = Cardinality(AnswersTo(u)) /\ Cardinality(AnswersTo(u)) \in Nat
        /\ Cardinality(PlacesOf(u)') = Cardinality(PlacesOf(u)) /\ Cardinality(PlacesOf(u)) \in Nat
    BY <1>10, <2>1, FS_CardinalityType
  <2>4. /\ Cardinality(ToOpen(u)) \in Nat /\ Cardinality(ToOpen(u))' \in Nat
        /\ Cardinality(ToAnswer(u)) \in Nat /\ Cardinality(ToAnswer(u))' \in Nat
        /\ Cardinality(ToHost(u)) \in Nat /\ Cardinality(ToHost(u))' \in Nat
        /\ Cardinality(ToOpen(u))' =
             (Cardinality(ToOpen(u)) + Bit(h \in ToOpen(u)')) - Bit(h \in ToOpen(u))
        /\ Cardinality(ToAnswer(u))' =
             (Cardinality(ToAnswer(u)) + Bit(h \in ToAnswer(u)')) - Bit(h \in ToAnswer(u))
        /\ Cardinality(ToHost(u))' =
             (Cardinality(ToHost(u)) + Bit(h \in ToHost(u)')) - Bit(h \in ToHost(u))
    BY <1>1, <1>6, <1>7, HandlerCounts DEF Turns
  <2>5. /\ Bit(h \in ToOpen(u)) = 0 /\ Bit(h \in ToOpen(u)') = Bit(u = v)
        /\ Bit(h \in ToHost(u)) = 0 /\ Bit(h \in ToHost(u)') = 0
        /\ Bit(h \in ToAnswer(u)) = 0 /\ Bit(h \in ToAnswer(u)') = 0
    BY <1>3, <1>6 DEF ToOpen, ToHost, ToAnswer, At, Bit, Turns, Carries
  <2>6. /\ Bit(x \in PingsOf(u)') = Bit(u = v) /\ Bit(x \in PingsOf(u)) = 0 /\ Bit(u = v) \in 0..1
    BY <1>10 DEF Bit
  <2>7. Balanced(u)
    BY DEF Awarding
  <2> QED
    BY <1>1, <1>3, <1>10, <2>1, <2>2, <2>3, <2>4, <2>5, <2>6, <2>7 DEF Balanced, PaidHost, DueHost
<1> QED
  BY <1>7, <1>8, <1>11 DEF FinitePlaces

(* What a restart loses is no more than the handlers that were at work. *)
LEMMA AwardRestart ==
    ASSUME Awarding, Restart
    PROVE  Blank' /\ Underway' /\ FinitePlaces' /\ \A u \in Members : Balanced(u)'
<1> DEFINE Working == {h \in Handlers : handler[h].pc # "free"}
<1>1. /\ Typed /\ FinitePlaces /\ Blank /\ failures \in Nat
  BY DEF Awarding, Placing, Typed, WorldOK
<1>2. /\ pings' = pings /\ failures' = failures + Cardinality(Working)
      /\ UNCHANGED <<hosted, answered>> /\ handler' = [h \in Handlers |-> Free]
  BY DEF Restart, NewLife, Fails, rows
<1>3. IsFiniteSet(Working) /\ Cardinality(Working) \in Nat
  <2>1. IsFiniteSet(Handlers) /\ Working \subseteq Handlers
    BY VoiceAssumption
  <2> QED BY <2>1, FS_Subset, FS_CardinalityType
<1>4. Blank' /\ Underway'
  BY <1>1, <1>2 DEF Blank, Underway, Free, Rewarding
<1>5. ASSUME NEW u \in Members
      PROVE  /\ PingsOf(u)' = PingsOf(u) /\ AnswersTo(u)' = AnswersTo(u)
             /\ PlacesOf(u)' = PlacesOf(u)
             /\ ToOpen(u)' = {} /\ ToAnswer(u)' = {} /\ ToHost(u)' = {}
  BY <1>2 DEF PingsOf, AnswersTo, PlacesOf, PingOf, ToOpen, ToAnswer, ToHost, At, Free
<1>6. FinitePlaces'
  BY <1>1, <1>5 DEF FinitePlaces
<1>7. ASSUME NEW u \in Members
      PROVE  /\ Cardinality(ToOpen(u)) \in Nat /\ Cardinality(ToAnswer(u)) \in Nat
             /\ Cardinality(ToHost(u)) \in Nat
             /\ Cardinality(ToOpen(u)) + Cardinality(ToHost(u)) <= Cardinality(Working)
             /\ Cardinality(ToAnswer(u)) <= Cardinality(Working)
  <2>1. /\ ToOpen(u) \subseteq Working /\ ToAnswer(u) \subseteq Working
        /\ ToHost(u) \subseteq Working /\ ToOpen(u) \cap ToHost(u) = {}
    BY DEF ToOpen, ToAnswer, ToHost, At
  <2> HIDE DEF Working
  <2>2. /\ IsFiniteSet(ToOpen(u)) /\ IsFiniteSet(ToAnswer(u)) /\ IsFiniteSet(ToHost(u))
        /\ Cardinality(ToAnswer(u)) <= Cardinality(Working)
    BY <1>3, <2>1, FS_Subset
  <2>3. /\ Cardinality(ToOpen(u)) \in Nat /\ Cardinality(ToAnswer(u)) \in Nat
        /\ Cardinality(ToHost(u)) \in Nat
    BY <2>2, FS_CardinalityType
  <2>4. Cardinality(ToOpen(u) \cup ToHost(u)) =
          Cardinality(ToOpen(u)) + Cardinality(ToHost(u)) - Cardinality(ToOpen(u) \cap ToHost(u))
    BY <2>2, FS_Union
  <2>5. Cardinality(ToOpen(u) \cap ToHost(u)) = 0
    BY <2>1, FS_EmptySet
  <2>6. Cardinality(ToOpen(u) \cup ToHost(u)) <= Cardinality(Working)
    <3>1. ToOpen(u) \cup ToHost(u) \in SUBSET Working
      BY <2>1
    <3> QED BY <1>3, <3>1, FS_Subset
  <2> QED BY <2>2, <2>3, <2>4, <2>5, <2>6
<1> HIDE DEF Working
<1>8. ASSUME NEW u \in Members PROVE Balanced(u)'
  <2>1. /\ Cardinality(PingsOf(u)') = Cardinality(PingsOf(u))
        /\ Cardinality(AnswersTo(u)') = Cardinality(AnswersTo(u))
        /\ Cardinality(PlacesOf(u)') = Cardinality(PlacesOf(u))
        /\ Cardinality(ToOpen(u)') = 0 /\ Cardinality(ToAnswer(u)') = 0
        /\ Cardinality(ToHost(u)') = 0
    BY <1>5, FS_EmptySet
  <2>2. /\ hosted[u] \in Nat /\ answered[u] \in Nat
        /\ Cardinality(PingsOf(u)) \in Nat /\ Cardinality(AnswersTo(u)) \in Nat
        /\ Cardinality(PlacesOf(u)) \in Nat
    BY <1>1, RewardsTyped
  <2>3. Balanced(u)
    BY DEF Awarding
  <2> QED
    BY <1>1, <1>2, <1>3, <1>7, <2>1, <2>2, <2>3 DEF Balanced, PaidHost, DueHost
<1> QED
  BY <1>4, <1>6, <1>8

(* All other steps credit nothing and give out nothing.                     *)
LEMMA DueOthers ==
    ASSUME Typed, NEW h \in Handlers, OthersStay(h),
           handler[h].pc \notin Crediting /\ handler'[h].pc \notin Crediting
    PROVE  \A k \in Handlers : DueStays(k)
BY DEF OthersStay, DueStays

LEMMA QuietSteps ==
    ASSUME Awarding, [Next]_vars, ~Restart,
           ~\E h \in Handlers : \/ CreditPing(h) \/ CreditResponder(h) \/ CreditHost(h) \/ FailEvent(h)
                                \/ \E m \in Pings, roles \in RoleSets : Register(h, m, roles)
                                \/ \E m \in Pings : Place(h, m)
    PROVE  /\ pings' = pings /\ UNCHANGED <<hosted, answered>> /\ failures' >= failures
           /\ \A k \in Handlers : DueStays(k)
<1>1. Typed /\ HandlersOK /\ failures \in Nat /\ handler \in [Handlers -> Handling]
  BY DEF Awarding, Placing, Typed, WorldOK, HandlersOK
<1>2. CASE UNCHANGED <<pings, hosted, answered, handler>> /\ failures' \in {failures, failures + 1}
  BY <1>1, <1>2 DEF DueStays
<1>3. CASE Tick \/ StartSweep \/ SweepStep \/ FailSweep \/ GuildRemoved \/ UNCHANGED vars
  BY <1>2, <1>3
     DEF Tick, StartSweep, SweepStep, ContinueSweep, ApplyBoost, FailSweep, GuildRemoved, NewLife,
         Fails, vars, stores, rows
<1>4. ASSUME NEW h \in Handlers, NEW x \in Itinerary,
             Join(h, x[1], x[2]) \/ LeaveOrSwitch(h, x[1], x[2]) \/ MoveUntracked(h, x[1], x[2])
      PROVE  /\ pings' = pings /\ UNCHANGED <<hosted, answered>> /\ failures' >= failures
             /\ \A k \in Handlers : DueStays(k)
  <2>1. UNCHANGED <<pings, hosted, answered, failures>> /\ handler[h].pc = "free"
    BY <1>4 DEF Join, LeaveOrSwitch, MoveUntracked, Moves, Occurs, rows
  <2>2. x[1] \in Members /\ x[2] \in Places
    BY ItineraryType
  <2>3. OthersStay(h) /\ handler'[h].pc \in {"free", "list", "credit"}
    <3>1. CASE handler' = handler
      BY <2>1, <3>1 DEF OthersStay
    <3>2. CASE handler' = [handler EXCEPT ![h] = Event(x[1], x[2], "list")]
      <4>1. Event(x[1], x[2], "list").pc = "list"
        BY <1>1, <2>2, NewEvent
      <4> QED BY <1>1, <3>2, <4>1 DEF OthersStay
    <3>3. CASE LeaveOrSwitch(h, x[1], x[2])
      <4>1. /\ handler' = [handler EXCEPT ![h] =
                  [Event(x[1], x[2], "credit") EXCEPT !.stay = now - sessions[life][x[1]].start]]
        BY <3>3 DEF LeaveOrSwitch
      <4>2. [Event(x[1], x[2], "credit") EXCEPT !.stay = now - sessions[life][x[1]].start].pc = "credit"
        BY DEF Event, Free
      <4> QED BY <1>1, <4>1, <4>2 DEF OthersStay
    <3> QED BY <1>4, <3>1, <3>2, <3>3 DEF Join, MoveUntracked
  <2> QED BY <1>1, <2>1, <2>3, DueOthers DEF Crediting
<1>5. ASSUME NEW h \in Handlers, NEW u \in Hosts, Message(h, u)
      PROVE  /\ pings' = pings /\ UNCHANGED <<hosted, answered>> /\ failures' >= failures
             /\ \A k \in Handlers : DueStays(k)
  <2>1. UNCHANGED <<pings, hosted, answered, failures>> /\ handler[h].pc = "free"
    BY <1>5 DEF Message, Occurs, stores, rows
  <2>2. OthersStay(h) /\ handler'[h].pc = "record"
    <3>1. "record" \in {"list", "record", "credit"} /\ Nowhere \in Places /\ u \in Members
      BY NothingTyped, NamesAssumption
    <3>2. Event(u, Nowhere, "record").pc = "record"
      BY <1>1, <3>1, NewEvent
    <3> QED BY <1>1, <1>5, <3>2 DEF Message, OthersStay
  <2> QED BY <1>1, <2>1, <2>2, DueOthers DEF Crediting
<1>6. ASSUME NEW h \in Handlers, HandlerStep(h)
      PROVE  /\ pings' = pings /\ UNCHANGED <<hosted, answered>> /\ failures' >= failures
             /\ \A k \in Handlers : DueStays(k)
  <2>1. \/ NotInVoice(h) \/ CreditStay(h) \/ StayBoost(h) \/ Open(h) \/ ListPings(h) \/ JoinBoost(h)
        \/ SetRoster(h)
    BY <1>6 DEF HandlerStep
  <2>2. UNCHANGED <<pings, hosted, answered, failures>>
    BY <2>1 DEF NotInVoice, CreditStay, StayBoost, Open, ListPings, JoinBoost, SetRoster, stores, rows
  <2>3. CASE JoinBoost(h)
    <3>1. Turns(h, "answer") /\ handler'[h].ping = handler[h].ping /\ handler[h].pc = "boost"
      BY <1>1, <2>3, GotoTurns DEF JoinBoost
    <3> QED BY <1>1, <2>2, <3>1 DEF Turns, Carries, OthersStay, DueStays
  <2>4. CASE ~JoinBoost(h)
    <3>1. OthersStay(h) /\ handler'[h].pc \in {"free", "stay", "open", "list", "next"}
      BY <1>1, <2>1, <2>4, GotoTurns, FinishTurns, LeavingTurns, ListTurns
         DEF NotInVoice, CreditStay, StayBoost, Open, SetRoster, Turns, Free
    <3>2. handler[h].pc \notin Crediting
      BY <2>1, <2>4 DEF NotInVoice, CreditStay, StayBoost, Open, ListPings, SetRoster, Crediting
    <3> QED BY <1>1, <2>2, <3>1, <3>2, DueOthers DEF Crediting
  <2> QED BY <2>3, <2>4
<1> QED
  BY <1>3, <1>4, <1>5, <1>6 DEF Next, Fault, Discord

LEMMA AwardingInductive == ASSUME Awarding, [Next]_vars PROVE Awarding'
<1>1. Placing' /\ Typed'
  BY PlacingInductive DEF Awarding, Placing
<1>2. Blank' /\ Underway' /\ FinitePlaces' /\ \A u \in Members : Balanced(u)'
  <2>1. ASSUME NEW h \in Handlers,
               \/ CreditPing(h) \/ CreditResponder(h) \/ CreditHost(h) \/ FailEvent(h)
               \/ \E m \in Pings, roles \in RoleSets : Register(h, m, roles)
               \/ \E m \in Pings : Place(h, m)
        PROVE  Blank' /\ Underway' /\ FinitePlaces' /\ \A u \in Members : Balanced(u)'
    BY <1>1, <2>1, AwardCredit, AwardPlace, AwardRegister
  <2> QED BY <1>1, <2>1, QuietSteps, AwardingStays, AwardRestart
<1> QED
  BY <1>1, <1>2 DEF Awarding

LEMMA AwardingInit == Init => Awarding
<1> SUFFICES ASSUME Init PROVE Awarding
  OBVIOUS
<1>1. Blank /\ Underway
  BY DEF Init, Blank, Underway, NotOpen, Joiners, Free, Rewarding
<1>2. ASSUME NEW u \in Members
      PROVE  /\ PingsOf(u) = {} /\ AnswersTo(u) = {} /\ PlacesOf(u) = {}
             /\ ToOpen(u) = {} /\ ToAnswer(u) = {} /\ ToHost(u) = {}
  <2>1. \A x \in AllPings : PingOf(x) = NotOpen
    BY DEF Init, AllPings, PingOf
  <2>2. u # Nobody
    BY NamesAssumption
  <2> QED
    BY <2>1, <2>2 DEF Init, PingsOf, AnswersTo, PlacesOf, NotOpen, Joiners, ToOpen, ToAnswer, ToHost,
                  At, Free
<1>3. FinitePlaces
  BY <1>2, FS_EmptySet DEF FinitePlaces
<1>4. ASSUME NEW u \in Members PROVE Balanced(u)
  <2>1. hosted[u] = 0 /\ answered[u] = 0 /\ failures = 0
    BY DEF Init, Zero
  <2> QED BY <1>2, <2>1, FS_EmptySet DEF Balanced, PaidHost, DueHost
<1> QED
  BY <1>1, <1>3, <1>4, PlacingInit DEF Awarding

(* Every ping and every place is credited once to its host and once to its   *)
(* responder, less what failures lost.                                      *)
THEOREM RewardsAccountedHolds == Spec => []RewardsAccounted
<1>1. Spec => []Awarding
  BY AwardingInit, AwardingInductive, PTL DEF Spec
<1> QED
  BY <1>1, AwardingOK, PTL

-----------------------------------------------------------------------------
(* The raises of a price. *)

LEMMA Quotient ==
    ASSUME NEW n \in Nat, NEW d \in Nat \ {0}
    PROVE  n \div d \in Nat /\ d * (n \div d) <= n /\ n < d * (n \div d) + d
OBVIOUS

LEMMA QuotientStep ==
    ASSUME NEW m \in Nat, NEW n \in Nat, NEW d \in Nat \ {0}
    PROVE  /\ m <= n => m \div d <= n \div d
           /\ m + d <= n => m \div d + 1 <= n \div d
<1> DEFINE p == m \div d
           q == n \div d
<1>1. /\ p \in Nat /\ d * p <= m /\ m < d * p + d
      /\ q \in Nat /\ d * q <= n /\ n < d * q + d
  BY Quotient
<1> HIDE DEF p, q
<1>2. ASSUME m <= n, p > q PROVE FALSE
  <2>1. d * p >= d * (q + 1)
    BY <1>1, <1>2
  <2> QED BY <1>1, <1>2, <2>1
<1>3. ASSUME m + d <= n, p + 1 > q PROVE FALSE
  <2>1. d * (p + 1) >= d * q
    BY <1>1, <1>3
  <2>2. d * (p + 1) = d * p + d
    BY <1>1
  <2>3. p >= q
    BY <1>1, <1>3
  <2>4. d * p >= d * q
    BY <1>1, <2>3
  <2> QED BY <1>1, <1>3, <2>4
<1>4. (m <= n => p <= q) /\ (m + d <= n => p + 1 <= q)
  BY <1>1, <1>2, <1>3
<1> QED
  BY <1>4 DEF p, q

FirstsOf(u) == {x \in AllPings : u \in PingOf(x).first}
ExtrasOf(u) == PlacesOf(u) \ FirstsOf(u)

(* A life whose pings can still bring a boost. *)
Live(l) ==
    \/ l = life
    \/ \E h \in Handlers : handler[h].pc # "free" /\ handler[h].life = l
    \/ \E b \in roster \cup BoostsOf(sweep) : b.life = l

(* The window of a ping is cut into slots of one Period.  Two runs of       *)
(* VcBoostTask fall into different ones: a slot is used up by the run that  *)
(* reaches it, and earned when that run has nothing left to do in it.       *)
Slots == (Window + Period - 1) \div Period
SlotAt(x, t) == (t - PingOf(x).at) \div Period

Reached(x, i) ==
    \/ ~Live(x[1])
    \/ PingOf(x).at + Period <= nextSweep /\ i <= SlotAt(x, nextSweep - Period)

Pending(x, i, u) ==
    \E b \in sweep.todo \cup sweep.busy :
        /\ b.user = u /\ b.life = x[1] /\ b.ping = x[2] /\ sweep.at < b.end
        /\ i = SlotAt(x, sweep.at)

Earned(u) == {s \in ExtrasOf(u) \X (0..(Slots - 1)) :
                 Reached(s[1], s[2]) /\ ~Pending(s[1], s[2], u)}

ToRaise(u) == {h \in Handlers : At(h, {"boost", "stay"}) /\ handler[h].user = u}

Spends(u) == raises[u] + Cardinality(ToRaise(u))
Gains(u) == Cardinality(FirstsOf(u)) + voice[u] \div StayBonus + Cardinality(Earned(u))

(* One entry for every extra place, at one place of the run. *)
Distinct(boosts) == \A b, c \in boosts : Same(b, c) => b = c
Lined(run) ==
    /\ run.todo \cap run.busy = {} /\ run.todo \cap run.survivors = {}
    /\ run.busy \cap run.survivors = {}
    /\ Distinct(run.todo \cup run.busy \cup run.survivors)

Clocked ==
    /\ \A l \in Lives, m \in Pings : pings[l][m].open => l <= life /\ pings[l][m].at <= now
    /\ sweep.pc = "asleep" => sweep = Asleep
    /\ sweep.pc # "asleep" => nextSweep = sweep.at + Period
    /\ \A b \in BoostsOf(sweep) : pings[b.life][b.ping].at <= sweep.at
    /\ \A b \in sweep.busy : sweep.at < b.end

Earning == /\ Awarding /\ Boosting /\ Following
           /\ Distinct(roster) /\ Lined(sweep) /\ Clocked
           /\ \A u \in Members : Spends(u) <= Gains(u)

LEMMA SlotsNat == Slots \in Nat /\ \A n \in Nat : n < Window => n \div Period \in 0..(Slots - 1)
<1>1. Window \in Nat /\ Period \in Nat \ {0} /\ Window + Period - 1 \in Nat
  BY VoiceAssumption
<1>2. Slots \in Nat
  BY <1>1, Quotient DEF Slots
<1>3. ASSUME NEW n \in Nat, n < Window PROVE n \div Period \in 0..(Slots - 1)
  <2>1. n + Period <= Window + Period - 1
    BY <1>1, <1>3
  <2>2. n \div Period + 1 <= Slots /\ n \div Period \in Nat
    BY <1>1, <2>1, QuotientStep, Quotient DEF Slots
  <2> QED BY <1>2, <2>2
<1> QED
  BY <1>2, <1>3

LEMMA RaisesFinite ==
    ASSUME Typed, FinitePlaces, NEW u \in Members
    PROVE  /\ IsFiniteSet(FirstsOf(u)) /\ Cardinality(FirstsOf(u)) \in Nat
           /\ IsFiniteSet(ExtrasOf(u)) /\ Cardinality(ExtrasOf(u)) \in Nat
           /\ IsFiniteSet(Earned(u)) /\ Cardinality(Earned(u)) \in Nat
           /\ Cardinality(Earned(u)) <= Cardinality(ExtrasOf(u)) * Slots
           /\ IsFiniteSet(ToRaise(u)) /\ Cardinality(ToRaise(u)) \in Nat
           /\ raises[u] \in Nat /\ voice[u] \in Nat /\ voice[u] \div StayBonus \in Nat
<1>1. /\ FirstsOf(u) \subseteq PlacesOf(u) /\ ExtrasOf(u) \subseteq PlacesOf(u)
      /\ IsFiniteSet(PlacesOf(u))
  BY DEF FinitePlaces, FirstsOf, ExtrasOf, PlacesOf, Joiners
<1>2. IsFiniteSet(FirstsOf(u)) /\ IsFiniteSet(ExtrasOf(u))
  BY <1>1, FS_Subset
<1>3. Cardinality(FirstsOf(u)) \in Nat /\ Cardinality(ExtrasOf(u)) \in Nat
  BY <1>2, FS_CardinalityType
<1>4. IsFiniteSet(0..(Slots - 1)) /\ Cardinality(0..(Slots - 1)) = Slots
  <2>1. Slots \in Nat /\ 0 \in Int /\ Slots - 1 \in Int
    BY SlotsNat
  <2>2. /\ IsFiniteSet(0..(Slots - 1))
        /\ Cardinality(0..(Slots - 1)) = IF 0 > Slots - 1 THEN 0 ELSE (Slots - 1) - 0 + 1
    BY <2>1, FS_Interval
  <2> QED BY <2>1, <2>2
<1>5. /\ IsFiniteSet(ExtrasOf(u) \X (0..(Slots - 1)))
      /\ Cardinality(ExtrasOf(u) \X (0..(Slots - 1))) = Cardinality(ExtrasOf(u)) * Slots
  BY <1>2, <1>4, FS_Product
<1>6. Earned(u) \in SUBSET (ExtrasOf(u) \X (0..(Slots - 1)))
  BY DEF Earned
<1>7. /\ IsFiniteSet(Earned(u))
      /\ Cardinality(Earned(u)) <= Cardinality(ExtrasOf(u) \X (0..(Slots - 1)))
  BY <1>5, <1>6, FS_Subset
<1>8. Cardinality(Earned(u)) \in Nat
  BY <1>7, FS_CardinalityType
<1>9. IsFiniteSet(ToRaise(u)) /\ Cardinality(ToRaise(u)) \in Nat
  <2>1. ToRaise(u) \subseteq Handlers /\ IsFiniteSet(Handlers)
    BY VoiceAssumption DEF ToRaise
  <2> QED BY <2>1, FS_Subset, FS_CardinalityType
<1>10. raises[u] \in Nat /\ voice[u] \in Nat /\ voice[u] \div StayBonus \in Nat
  BY VoiceAssumption, Quotient DEF Typed, RowsOK
<1> QED
  BY <1>2, <1>3, <1>5, <1>7, <1>8, <1>9, <1>10

LEMMA EarningOK == ASSUME Earning PROVE RaisesEarned
<1> SUFFICES ASSUME NEW u \in Members
             PROVE  raises[u] <= Cardinality(FirstsOf(u)) + voice[u] \div StayBonus
                                 + Cardinality(ExtrasOf(u)) * Slots
  BY DEF RaisesEarned, FirstsOf, ExtrasOf, Slots
<1>1. Typed /\ FinitePlaces /\ Spends(u) <= Gains(u)
  BY DEF Earning, Awarding, Placing
<1>2. /\ Cardinality(FirstsOf(u)) \in Nat /\ Cardinality(ExtrasOf(u)) \in Nat
      /\ Cardinality(Earned(u)) \in Nat
      /\ Cardinality(Earned(u)) <= Cardinality(ExtrasOf(u)) * Slots
      /\ Cardinality(ToRaise(u)) \in Nat
      /\ raises[u] \in Nat /\ voice[u] \div StayBonus \in Nat
  BY <1>1, RaisesFinite
<1>3. Cardinality(ExtrasOf(u)) * Slots \in Nat
  BY <1>2, SlotsNat
<1> QED
  BY <1>1, <1>2, <1>3 DEF Spends, Gains

-----------------------------------------------------------------------------
(* Places and lives. *)

LEMMA PingSteps ==
    ASSUME Awarding, [Next]_vars, NEW x \in AllPings
    PROVE  /\ PingOf(x).first \subseteq PingOf(x)'.first
           /\ \A u \in Joiners(PingOf(x)) :
                 u \in Joiners(PingOf(x)') /\ (u \in PingOf(x)'.first => u \in PingOf(x).first)
           /\ PingOf(x).open => PingOf(x)'.open /\ PingOf(x)'.at = PingOf(x).at
<1>1. x[1] \in Lives /\ x[2] \in Pings /\ Placing /\ Typed /\ Blank /\ StoresOK
      /\ PingOf(x) = pings[x[1]][x[2]] /\ PingOf(x)' = pings'[x[1]][x[2]]
  BY DEF AllPings, Awarding, Placing, PingOf, Typed
<1>2. CASE \E h \in Handlers, m \in Pings, roles \in RoleSets : Register(h, m, roles)
  <2>1. pings'[x[1]][x[2]] = pings[x[1]][x[2]] \/ ~pings[x[1]][x[2]].open
    BY <1>1, <1>2, PlacingRegister
  <2>2. CASE ~PingOf(x).open
    <3>1. Joiners(PingOf(x)) = {}
      BY <1>1, <2>2 DEF Blank
    <3> QED BY <2>2, <3>1 DEF Joiners
  <2> QED BY <1>1, <2>1, <2>2
<1>3. ASSUME NEW h \in Handlers, NEW m \in Pings, Place(h, m)
      PROVE  /\ PingOf(x).first \subseteq PingOf(x)'.first
             /\ \A u \in Joiners(PingOf(x)) :
                   u \in Joiners(PingOf(x)') /\ (u \in PingOf(x)'.first => u \in PingOf(x).first)
             /\ PingOf(x).open => PingOf(x)'.open /\ PingOf(x)'.at = PingOf(x).at
  <2> SUFFICES ASSUME NEW l, l = handler[h].life, NEW v, v = handler[h].user,
                      NEW p, p = pings[l][m], NEW q, q = PlaceIn(p, v)
               PROVE  /\ PingOf(x).first \subseteq PingOf(x)'.first
                      /\ \A u \in Joiners(PingOf(x)) :
                            /\ u \in Joiners(PingOf(x)')
                            /\ u \in PingOf(x)'.first => u \in PingOf(x).first
                      /\ PingOf(x).open => PingOf(x)'.open /\ PingOf(x)'.at = PingOf(x).at
    OBVIOUS
  <2>1. l \in Lives /\ v \in Members /\ m \in handler[h].todo /\ pings' = [pings EXCEPT ![l][m] = q]
    <3>1. PICK e \in Handling : Placed(h, m, e)
      BY <1>1, <1>3, PlaceStep
    <3> QED BY <3>1 DEF Placed
  <2>2. p \in Ping /\ May(v, p) /\ Fair(p)
    BY <1>1, <2>1 DEF Placing, Typed, StoresOK, Invited, Filled
  <2>3. q.at = p.at /\ q.open /\ q \in Ping
    BY <2>1, <2>2, PlaceFair, PlaceType
  <2>4. p.first \subseteq q.first /\ \A u \in Joiners(p) : u \in Joiners(q) /\ (u \in q.first => u \in p.first)
    BY <2>2 DEF PlaceIn, Joiners, Ping
  <2>5. \A k \in Lives, n \in Pings : pings'[k][n] = IF k = l /\ n = m THEN q ELSE pings[k][n]
    <3>1. StoresOK /\ q \in Ping /\ l \in Lives /\ pings' = [pings EXCEPT ![l][m] = q]
      BY <1>1, <2>1, <2>3
    <3> QED BY <3>1, PingPut
  <2>6. CASE x[1] = l /\ x[2] = m
    <3>1. PingOf(x) = p /\ PingOf(x)' = q
      BY <1>1, <2>5, <2>6
    <3> QED BY <2>3, <2>4, <3>1
  <2>7. CASE ~(x[1] = l /\ x[2] = m)
    <3>1. PingOf(x)' = PingOf(x)
      BY <1>1, <2>5, <2>7
    <3> QED BY <3>1
  <2> QED BY <2>6, <2>7
<1>4. CASE pings' = pings
  BY <1>1, <1>4
<1> QED
  BY <1>1, <1>2, <1>3, <1>4, OtherSteps DEF ListPings, stores

LEMMA PlacesGrow ==
    ASSUME Awarding, [Next]_vars, NEW u \in Members
    PROVE  /\ FirstsOf(u) \subseteq FirstsOf(u)' /\ ExtrasOf(u) \subseteq ExtrasOf(u)'
           /\ \A x \in ExtrasOf(u) :
                 /\ x \in AllPings /\ PingOf(x).open /\ PingOf(x)'.at = PingOf(x).at
                 /\ u \in PingOf(x).extra
<1>1. FirstsOf(u) \subseteq FirstsOf(u)'
  BY PingSteps DEF FirstsOf
<1>2. ASSUME NEW x \in ExtrasOf(u)
      PROVE  /\ x \in AllPings /\ PingOf(x).open /\ PingOf(x)'.at = PingOf(x).at
             /\ u \in PingOf(x).extra /\ x \in ExtrasOf(u)'
  <2>1. x \in AllPings /\ u \in Joiners(PingOf(x)) /\ u \notin PingOf(x).first
    BY <1>2 DEF ExtrasOf, PlacesOf, FirstsOf
  <2>2. PingOf(x).open
    BY <2>1 DEF Awarding, Blank, AllPings, PingOf
  <2> QED BY <2>1, <2>2, PingSteps DEF ExtrasOf, PlacesOf, FirstsOf, Joiners
<1> QED
  BY <1>1, <1>2

(* No handler begins in a life that is not the current one. *)
LifeKept(k) ==
    handler'[k].pc # "free" =>
        \/ handler'[k].life = life
        \/ handler[k].pc # "free" /\ handler'[k].life = handler[k].life

LEMMA LivesKept ==
    ASSUME Typed, [Next]_vars, NEW k \in Handlers
    PROVE  LifeKept(k)
<1>1. Typed /\ HandlersOK /\ handler \in [Handlers -> Handling]
  BY DEF Typed, HandlersOK
<1>2. CASE handler' = handler
  BY <1>2 DEF LifeKept
<1>3. ASSUME NEW h \in Handlers, HandlerStep(h) \/ FailEvent(h)
      PROVE  LifeKept(k)
  <2>1. handler[h].pc # "free"
    BY <1>3 DEF HandlerStep, FailEvent, Register, NotInVoice, CreditPing, CreditStay, StayBoost,
                Open, ListPings, Place, JoinBoost, CreditResponder, CreditHost, SetRoster
  <2>2. OthersStay(h) /\ (handler'[h] = Free \/ Carries(h))
    <3>1. ASSUME NEW pc \in {"opened", "stay", "answer", "host", "list"}, Goto(h, pc)
          PROVE  OthersStay(h) /\ Carries(h)
      BY <1>1, <3>1, GotoTurns DEF Turns
    <3>2. CASE Finish(h) \/ AfterLeaving(h)
      BY <1>1, <3>2, FinishTurns, LeavingTurns
    <3>3. CASE CreditHost(h) \/ ListPings(h)
      BY <1>1, <3>3, HostTurns, ListTurns DEF Turns
    <3>4. ASSUME NEW m \in Pings, Place(h, m)
          PROVE  OthersStay(h) /\ Carries(h)
      BY <1>1, <3>4, PlaceTurns
    <3> QED
      BY <1>3, <3>1, <3>2, <3>3, <3>4
         DEF HandlerStep, FailEvent, Register, NotInVoice, CreditPing, CreditStay, StayBoost,
             Open, JoinBoost, CreditResponder, SetRoster
  <2>3. CASE k = h
    BY <2>1, <2>2, <2>3 DEF LifeKept, Free, Carries
  <2>4. CASE k # h
    BY <2>2, <2>4 DEF LifeKept, OthersStay
  <2> QED BY <2>3, <2>4
<1>4. ASSUME NEW h \in Handlers, NEW x \in Itinerary,
             Join(h, x[1], x[2]) \/ LeaveOrSwitch(h, x[1], x[2]) \/ MoveUntracked(h, x[1], x[2])
      PROVE  LifeKept(k)
  <2>1. x[1] \in Members /\ x[2] \in Places
    BY ItineraryType
  <2>2. CASE handler' = [handler EXCEPT ![h] = Event(x[1], x[2], "list")]
    <3>1. Event(x[1], x[2], "list").life = life
      BY <1>1, <2>1, NewEvent
    <3> QED BY <1>1, <2>2, <3>1 DEF LifeKept
  <2>3. CASE LeaveOrSwitch(h, x[1], x[2])
    <3>1. handler' = [handler EXCEPT ![h] =
                [Event(x[1], x[2], "credit") EXCEPT !.stay = now - sessions[life][x[1]].start]]
      BY <2>3 DEF LeaveOrSwitch
    <3>2. [Event(x[1], x[2], "credit") EXCEPT !.stay = now - sessions[life][x[1]].start].life = life
      BY DEF Event, Free
    <3> QED BY <1>1, <3>1, <3>2 DEF LifeKept
  <2> QED BY <1>2, <1>4, <2>2, <2>3 DEF Join, MoveUntracked
<1>5. ASSUME NEW h \in Handlers, NEW u \in Hosts, Message(h, u)
      PROVE  LifeKept(k)
  <2>1. "record" \in {"list", "record", "credit"} /\ Nowhere \in Places /\ u \in Members
    BY NothingTyped, NamesAssumption
  <2>2. Event(u, Nowhere, "record").life = life
    BY <1>1, <2>1, NewEvent
  <2> QED BY <1>1, <1>5, <2>2 DEF Message, LifeKept
<1>6. CASE Restart
  BY <1>6 DEF Restart, LifeKept, Free
<1>7. CASE Tick \/ StartSweep \/ SweepStep \/ FailSweep \/ GuildRemoved \/ UNCHANGED vars
  BY <1>2, <1>7
     DEF Tick, StartSweep, SweepStep, ContinueSweep, ApplyBoost, FailSweep, GuildRemoved, vars
<1> QED
  BY <1>3, <1>4, <1>5, <1>6, <1>7 DEF Next, Fault, Discord

-----------------------------------------------------------------------------
(* The run of VcBoostTask and its entries. *)

LEMMA RunBegins ==
    ASSUME Typed, StartSweep
    PROVE  \E run \in Sweep :
             /\ GoOn(run) /\ run.busy = {} /\ run.todo = roster /\ run.current = roster
             /\ run.survivors = {} /\ run.at = now
<1> DEFINE run == [Asleep EXCEPT !.at = now, !.life = life, !.current = roster, !.todo = roster]
<1>1. GoOn(run)
  BY DEF StartSweep
<1>2. /\ run \in Sweep /\ run.busy = {} /\ run.current = roster /\ run.at = now
      /\ run.todo = roster /\ run.survivors = {}
  BY NothingTyped DEF Typed, WorldOK, StoresOK, SweepOK, Sweep, Asleep
<1> HIDE DEF run
<1> QED
  BY <1>1, <1>2

LEMMA RunContinues ==
    ASSUME Typed, ContinueSweep
    PROVE  \E run \in Sweep :
             /\ GoOn(run) /\ run.busy = {} /\ run.todo = sweep.todo /\ run.current = sweep.current
             /\ run.survivors = sweep.survivors /\ run.at = sweep.at
<1> DEFINE run == [sweep EXCEPT !.busy = {}]
<1>1. GoOn(run)
  BY DEF ContinueSweep
<1>2. /\ run \in Sweep /\ run.busy = {} /\ run.current = sweep.current /\ run.at = sweep.at
      /\ run.todo = sweep.todo /\ run.survivors = sweep.survivors
  BY DEF Typed, SweepOK, Sweep
<1> HIDE DEF run
<1> QED
  BY <1>1, <1>2

LEMMA LookDue ==
    ASSUME NEW run, GoOn(run)
    PROVE  \E passed, survivors :
              /\ Looked(run, passed, survivors)
              /\ \/ passed = run.todo /\ roster' = survivors /\ sweep' = Asleep
                 \/ \E b \in run.todo \ passed : Due(run, b) /\ LookAt(run, passed, survivors, b)
BY DEF GoOn, Looked, LookAt

(* The look to the next await keeps the entries apart. *)
LEMMA GoOnLines ==
    ASSUME NEW run \in Sweep, run.busy = {}, GoOn(run), Lined(run)
    PROVE  \/ /\ sweep' = Asleep /\ Distinct(roster') /\ roster' \subseteq run.todo \cup run.survivors
           \/ /\ roster' = roster /\ sweep'.pc = "looking" /\ sweep'.at = run.at
              /\ Lined(sweep') /\ sweep'.todo \cup sweep'.busy \subseteq run.todo
              /\ BoostsOf(sweep') \subseteq BoostsOf(run)
              /\ \A b \in sweep'.busy : run.at < b.end
<1>1. PICK passed, survivors :
         /\ Looked(run, passed, survivors)
         /\ \/ passed = run.todo /\ roster' = survivors /\ sweep' = Asleep
            \/ \E b \in run.todo \ passed : Due(run, b) /\ LookAt(run, passed, survivors, b)
  BY LookDue
<1>2. /\ survivors \subseteq run.survivors \cup passed /\ run.survivors \subseteq survivors
      /\ passed \subseteq run.todo
  BY <1>1 DEF Looked
<1>3. CASE passed = run.todo /\ roster' = survivors /\ sweep' = Asleep
  BY <1>2, <1>3 DEF Lined, Distinct
<1>4. ASSUME NEW b \in run.todo \ passed, Due(run, b), LookAt(run, passed, survivors, b)
      PROVE  /\ roster' = roster /\ sweep'.pc = "looking" /\ sweep'.at = run.at
             /\ Lined(sweep') /\ sweep'.todo \cup sweep'.busy \subseteq run.todo
             /\ BoostsOf(sweep') \subseteq BoostsOf(run)
             /\ \A c \in sweep'.busy : run.at < c.end
  <2> SUFFICES ASSUME NEW next, next = sweep'
               PROVE  /\ roster' = roster /\ next.pc = "looking" /\ next.at = run.at
                      /\ Lined(next) /\ next.todo \cup next.busy \subseteq run.todo
                      /\ BoostsOf(next) \subseteq BoostsOf(run)
                      /\ \A c \in next.busy : run.at < c.end
    OBVIOUS
  <2>1. /\ next.pc = "looking" /\ next.busy = {b} /\ next.todo = run.todo \ (passed \cup {b})
        /\ next.survivors = survivors /\ next.at = run.at /\ next.current = run.current
        /\ roster' = roster
    BY <1>4 DEF LookAt, Sweep
  <2>2. /\ next.todo \cap next.busy = {} /\ next.todo \cap next.survivors = {}
        /\ next.busy \cap next.survivors = {}
    BY <1>2, <2>1 DEF Lined
  <2>3. Distinct(next.todo \cup next.busy \cup next.survivors)
    <3>1. next.todo \cup next.busy \cup next.survivors \subseteq run.todo \cup run.busy \cup run.survivors
      BY <1>2, <2>1
    <3> QED BY <3>1 DEF Lined, Distinct
  <2>4. BoostsOf(next) \subseteq BoostsOf(run) /\ next.todo \cup next.busy \subseteq run.todo
    BY <1>2, <2>1 DEF BoostsOf
  <2>5. run.at < b.end
    BY <1>4 DEF Due
  <2> QED BY <2>1, <2>2, <2>3, <2>4, <2>5 DEF Lined
<1> QED
  BY <1>1, <1>3, <1>4

LEMMA AsleepLined == /\ Lined(Asleep) /\ Asleep.todo \cup Asleep.busy = {} /\ Asleep.busy = {}
                     /\ BoostsOf(Asleep) = {} /\ Asleep.pc = "asleep"
BY DEF Lined, Asleep, Distinct, BoostsOf

(* What a step of the run changes. *)
LEMMA StartLines ==
    ASSUME Earning, StartSweep
    PROVE  /\ Distinct(roster') /\ roster' \subseteq roster /\ Lined(sweep')
           /\ BoostsOf(sweep') \subseteq roster
           /\ \/ sweep' = Asleep
              \/ sweep'.pc = "looking" /\ sweep'.at = now /\ \A b \in sweep'.busy : now < b.end
<1>1. PICK run \in Sweep :
         /\ GoOn(run) /\ run.busy = {} /\ run.todo = roster /\ run.current = roster
         /\ run.survivors = {} /\ run.at = now
  BY RunBegins DEF Earning, Following
<1>2. Lined(run) /\ BoostsOf(run) = roster
  BY <1>1 DEF Lined, BoostsOf, Earning
<1> QED
  BY <1>1, <1>2, GoOnLines, AsleepLined DEF Earning

LEMMA ContinueLines ==
    ASSUME Earning, ContinueSweep
    PROVE  /\ Distinct(roster') /\ roster' \subseteq roster \cup BoostsOf(sweep) /\ Lined(sweep')
           /\ BoostsOf(sweep') \subseteq BoostsOf(sweep)
           /\ \/ sweep' = Asleep
              \/ /\ sweep'.pc = "looking" /\ sweep'.at = sweep.at
                 /\ sweep'.todo \cup sweep'.busy \subseteq sweep.todo
                 /\ \A b \in sweep'.busy : sweep'.at < b.end
<1>1. PICK run \in Sweep :
         /\ GoOn(run) /\ run.busy = {} /\ run.todo = sweep.todo /\ run.current = sweep.current
         /\ run.survivors = sweep.survivors /\ run.at = sweep.at
  BY RunContinues DEF Earning, Following
<1>2. Lined(run) /\ BoostsOf(run) \subseteq BoostsOf(sweep)
  BY <1>1 DEF Lined, BoostsOf, Earning, Distinct
<1>3. run.todo \cup run.survivors \subseteq BoostsOf(sweep)
  BY <1>1 DEF BoostsOf
<1> QED
  BY <1>1, <1>2, <1>3, GoOnLines, AsleepLined DEF Earning

LEMMA ApplyLines ==
    ASSUME Earning, NEW b \in sweep.busy, ApplyBoost(b)
    PROVE  /\ roster' = roster /\ Lined(sweep')
           /\ sweep'.pc = "boosted" /\ sweep'.at = sweep.at /\ sweep'.todo = sweep.todo
           /\ sweep'.busy = {} /\ sweep.busy = {b}
           /\ \A c \in BoostsOf(sweep') : \E d \in BoostsOf(sweep) : c.life = d.life /\ c.ping = d.ping
<1> SUFFICES ASSUME NEW raised, raised = [b EXCEPT !.last = sweep.at], NEW next, next = sweep'
             PROVE  /\ roster' = roster /\ Lined(next)
                    /\ next.pc = "boosted" /\ next.at = sweep.at /\ next.todo = sweep.todo
                    /\ next.busy = {} /\ sweep.busy = {b}
                    /\ \A c \in BoostsOf(next) :
                          \E d \in BoostsOf(sweep) : c.life = d.life /\ c.ping = d.ping
  OBVIOUS
<1>1. b \in Boost /\ sweep \in Sweep /\ Lined(sweep) /\ Tidy(sweep)
  BY DEF Earning, Boosting, Placing, Typed, SweepOK, Sweep, Rostered
<1>2. Same(b, raised)
  BY <1>1 DEF Same, Boost
<1>3. /\ next.busy = {} /\ next.survivors = sweep.survivors \cup {raised} /\ next.at = sweep.at
      /\ next.todo = sweep.todo /\ next.current = sweep.current /\ roster' = roster
      /\ next.pc = "boosted"
  BY <1>1 DEF ApplyBoost, Sweep
<1>4. sweep.busy = {b}
  BY <1>1 DEF Tidy
<1>5. \A c \in sweep.todo \cup sweep.survivors : ~Same(b, c) /\ ~Same(c, b)
  BY <1>1, <1>4 DEF Lined, Distinct
<1>6. \A c \in sweep.todo \cup sweep.survivors : ~Same(raised, c) /\ ~Same(c, raised)
  BY <1>2, <1>5 DEF Same
<1>7. Lined(next)
  <2>1. raised \notin sweep.todo
    BY <1>2, <1>5
  <2>2. next.todo \cap next.survivors = {}
    BY <1>1, <1>3, <2>1 DEF Lined
  <2>3. Distinct(next.todo \cup next.busy \cup next.survivors)
    <3>1. \A c, d \in sweep.todo \cup sweep.survivors : Same(c, d) => c = d
      BY <1>1 DEF Lined, Distinct
    <3>2. next.todo \cup next.busy \cup next.survivors = (sweep.todo \cup sweep.survivors) \cup {raised}
      BY <1>3
    <3> QED BY <1>6, <3>1, <3>2 DEF Distinct
  <2> QED BY <1>3, <2>2, <2>3 DEF Lined
<1>8. ASSUME NEW c \in BoostsOf(next)
      PROVE  \E d \in BoostsOf(sweep) : c.life = d.life /\ c.ping = d.ping
  <2>1. CASE c = raised
    <3>1. b \in BoostsOf(sweep) /\ c.life = b.life /\ c.ping = b.ping
      BY <1>2, <2>1 DEF Same, BoostsOf
    <3> QED BY <3>1
  <2>2. CASE c # raised
    <3>1. c \in BoostsOf(sweep)
      BY <1>3, <2>2 DEF BoostsOf
    <3> QED BY <3>1
  <2> QED BY <2>1, <2>2
<1> QED
  BY <1>3, <1>4, <1>7, <1>8

(* All other steps leave the run alone, and a roster that a join replaces   *)
(* has one entry for every extra place of its life.                         *)
LEMMA SetLines ==
    ASSUME Typed, NEW h \in Handlers, SetRoster(h)
    PROVE  /\ Distinct(roster') /\ UNCHANGED <<sweep, nextSweep>>
           /\ handler[h].pc # "free" /\ \A b \in roster' : b.life = handler[h].life
<1>1. /\ handler[h].life \in Lives /\ handler[h].at \in Nat /\ TypeOK
      /\ roster' = ExtraBoosts(handler[h].life, handler[h].at)
  BY TypedOK DEF SetRoster, Typed, HandlersOK, Handling
<1>2. \A b \in roster' : b.life = handler[h].life
  BY <1>1, ExtraBoostsType
<1>3. Distinct(roster')
  <2> SUFFICES ASSUME NEW b \in roster', NEW c \in roster', Same(b, c)
               PROVE  b = c
    BY DEF Distinct
  <2> DEFINE l == handler[h].life
             at == handler[h].at
  <2>1. PICK m \in Pings, u \in Members :
          b = [ping |-> m, life |-> l, user |-> u, last |-> at, end |-> pings[l][m].at + Window]
    BY <1>1 DEF ExtraBoosts, ExtraPlaces, Entry
  <2>2. PICK n \in Pings, v \in Members :
          c = [ping |-> n, life |-> l, user |-> v, last |-> at, end |-> pings[l][n].at + Window]
    BY <1>1 DEF ExtraBoosts, ExtraPlaces, Entry
  <2>3. m = n /\ u = v
    BY <2>1, <2>2 DEF Same
  <2> QED BY <2>1, <2>2, <2>3
<1> QED
  BY <1>2, <1>3 DEF SetRoster

LEMMA RunStands ==
    ASSUME [Next]_vars
    PROVE  \/ UNCHANGED <<roster, sweep, nextSweep>>
           \/ \E h \in Handlers : SetRoster(h)
           \/ StartSweep \/ ContinueSweep \/ FailSweep \/ Restart
           \/ \E b \in sweep.busy : ApplyBoost(b)
<1>1. ASSUME Discord \/ GuildRemoved \/ UNCHANGED vars \/ \E h \in Handlers : FailEvent(h)
      PROVE  UNCHANGED <<roster, sweep, nextSweep>>
  BY <1>1 DEF Discord, Tick, Join, LeaveOrSwitch, MoveUntracked, Moves, Message, GuildRemoved, vars,
              FailEvent, sweeping
<1>2. ASSUME NEW h \in Handlers, HandlerStep(h), ~SetRoster(h)
      PROVE  UNCHANGED <<roster, sweep, nextSweep>>
  BY <1>2 DEF HandlerStep, NotInVoice, CreditPing, CreditStay, StayBoost, JoinBoost,
              CreditResponder, CreditHost, ListPings, Register, Place, Open, sweeping
<1> QED
  BY <1>1, <1>2 DEF Next, Fault, SweepStep

-----------------------------------------------------------------------------
LEMMA LiveShrinks ==
    ASSUME Earning, [Next]_vars, NEW l, l # life' \/ life' = life, Live(l)'
    PROVE  Live(l)
<1>1. Typed
  BY DEF Earning, Following
<1>2. \A h \in Handlers : handler[h].pc # "free" => Live(handler[h].life)
  BY DEF Live
<1>3. \A b \in roster \cup BoostsOf(sweep) : Live(b.life)
  BY DEF Live
<1>4. Live(life)
  BY DEF Live
<1>5. CASE l = life'
  BY <1>4, <1>5
<1>6. ASSUME NEW h \in Handlers, handler'[h].pc # "free", handler'[h].life = l
      PROVE  Live(l)
  BY <1>1, <1>2, <1>4, <1>6, LivesKept DEF LifeKept
<1>7. ASSUME NEW b \in roster' \cup BoostsOf(sweep')
      PROVE  Live(b.life)
  <2>1. CASE UNCHANGED <<roster, sweep, nextSweep>>
    BY <1>3, <2>1
  <2>2. ASSUME NEW h \in Handlers, SetRoster(h) PROVE Live(b.life)
    <3>1. b \in roster' => Live(b.life)
      BY <1>1, <1>2, <2>2, SetLines
    <3>2. sweep' = sweep
      BY <1>1, <2>2, SetLines
    <3> QED BY <1>3, <3>1, <3>2
  <2>3. CASE StartSweep
    BY <1>3, <2>3, StartLines
  <2>4. CASE ContinueSweep
    BY <1>3, <2>4, ContinueLines
  <2>5. CASE FailSweep
    BY <1>3, <2>5, AsleepLined DEF FailSweep
  <2>6. CASE Restart
    BY <2>6, AsleepLined DEF Restart
  <2>7. ASSUME NEW c \in sweep.busy, ApplyBoost(c) PROVE Live(b.life)
    <3>1. /\ roster' = roster
          /\ \A e \in BoostsOf(sweep') : \E d \in BoostsOf(sweep) : e.life = d.life /\ e.ping = d.ping
      BY <2>7, ApplyLines
    <3> QED BY <1>3, <3>1
  <2> QED BY <2>1, <2>2, <2>3, <2>4, <2>5, <2>6, <2>7, RunStands
<1> QED
  BY <1>5, <1>6, <1>7 DEF Live

LEMMA RosterLines == ASSUME Earning, [Next]_vars PROVE Distinct(roster)' /\ Lined(sweep)'
<1>1. Typed /\ Distinct(roster) /\ Lined(sweep) /\ Lined(Asleep) /\ Distinct({})
  BY AsleepLined DEF Earning, Following, Distinct
<1>2. CASE FailSweep \/ Restart
  BY <1>1, <1>2 DEF FailSweep, Restart
<1> QED
  BY <1>1, <1>2, RunStands, SetLines, StartLines, ContinueLines, ApplyLines

LEMMA PlaceOpensNone ==
    ASSUME Placing, NEW h \in Handlers, NEW m \in Pings, Place(h, m),
           NEW j \in Lives, NEW i \in Pings, pings'[j][i].open
    PROVE  pings[j][i].open
<1> SUFFICES ASSUME NEW l, l = handler[h].life, NEW v, v = handler[h].user,
                    NEW q, q = PlaceIn(pings[l][m], v)
             PROVE  pings[j][i].open
  OBVIOUS
<1>1. l \in Lives /\ v \in Members /\ m \in handler[h].todo /\ pings' = [pings EXCEPT ![l][m] = q]
  <2>1. PICK e \in Handling : Placed(h, m, e)
    BY PlaceStep DEF Placing
  <2> QED BY <2>1 DEF Placed
<1>2. pings[l][m] \in Ping /\ May(v, pings[l][m]) /\ Fair(pings[l][m])
  BY <1>1 DEF Placing, Typed, StoresOK, Invited, Filled
<1>3. pings \in [Lives -> [Pings -> Ping]]
  BY DEF Placing, Typed, StoresOK
<1>4. pings'[j][i] = pings[j][i] \/ (j = l /\ i = m)
  BY <1>1, <1>3
<1> QED
  BY <1>2, <1>4 DEF May

LEMMA OpenPings ==
    ASSUME Earning, [Next]_vars
    PROVE  \A l \in Lives, m \in Pings : pings'[l][m].open => l <= life' /\ pings'[l][m].at <= now'
<1>1. /\ Typed /\ Awarding /\ Placing /\ NoneLater /\ Clocked /\ now \in Nat /\ life \in Nat
      /\ HandlersOK /\ StoresOK
  BY DEF Earning, Awarding, Placing, Following, Typed, WorldOK, StoresOK, Lives
<1>2. now' \in Nat /\ now' >= now /\ life' \in Nat /\ life' >= life
  <2>1. now' \in {now, now + 1}
    BY DEF Next, Discord, Tick, Join, LeaveOrSwitch, MoveUntracked, Moves, Message, HandlerStep,
           NotInVoice, CreditPing, CreditStay, StayBoost, JoinBoost, CreditResponder, CreditHost,
           ListPings, Register, Place, Open, SetRoster, StartSweep, SweepStep, ContinueSweep,
           ApplyBoost, Fault, FailEvent, FailSweep, Restart, GuildRemoved, MovesUnseen, vars, world
  <2>2. life' \in {life, life + 1}
    BY DEF Next, Discord, Tick, Join, LeaveOrSwitch, MoveUntracked, Moves, Message, HandlerStep,
           NotInVoice, CreditPing, CreditStay, StayBoost, JoinBoost, CreditResponder, CreditHost,
           ListPings, Register, Place, Open, SetRoster, StartSweep, SweepStep, ContinueSweep,
           ApplyBoost, Fault, FailEvent, FailSweep, Restart, GuildRemoved, NewLife, vars, stores
  <2> QED BY <1>1, <2>1, <2>2
<1> SUFFICES ASSUME NEW l \in Lives, NEW m \in Pings, pings'[l][m].open
             PROVE  l <= life' /\ pings'[l][m].at <= now'
  OBVIOUS
<1>3. CASE pings[l][m].open
  <2>1. <<l, m>> \in AllPings /\ PingOf(<<l, m>>) = pings[l][m] /\ PingOf(<<l, m>>)' = pings'[l][m]
    BY DEF AllPings, PingOf
  <2>2. pings'[l][m].at = pings[l][m].at
    BY <1>1, <1>3, <2>1, PingSteps
  <2>3. l <= life /\ pings[l][m].at <= now /\ pings[l][m].at \in Nat /\ l \in Nat
    BY <1>1, <1>3 DEF Clocked, StoresOK, Ping, Lives
  <2> QED BY <1>1, <1>2, <2>2, <2>3
<1>4. CASE ~pings[l][m].open
  <2>1. ASSUME NEW h \in Handlers, NEW n \in Pings, NEW roles \in RoleSets, Register(h, n, roles)
        PROVE  l <= life' /\ pings'[l][m].at <= now'
    <3> SUFFICES ASSUME NEW k, k = life
                 PROVE  l <= life' /\ pings'[l][m].at <= now'
      OBVIOUS
    <3>1. PICK q \in Ping : Registered(h, n, q)
      BY <1>1, <2>1, RegisterStep
    <3>2. pings' = [pings EXCEPT ![k][n] = q] /\ k \in Lives
      BY <3>1 DEF Registered
    <3>3. \A j \in Lives, i \in Pings : pings'[j][i] = IF j = k /\ i = n THEN q ELSE pings[j][i]
      BY <1>1, <3>2, PingPut
    <3>4. l = k /\ m = n
      BY <1>4, <3>3
    <3>5. pings'[k][n].at = now
      BY <1>1, <2>1, <3>2 DEF Register, StoresOK, NotOpen
    <3>6. k <= life
      BY <1>1 DEF NoneLater
    <3>7. k \in Nat
      BY <3>2 DEF Lives
    <3> QED BY <1>1, <1>2, <3>4, <3>5, <3>6, <3>7
  <2>2. ASSUME NEW h \in Handlers, NEW o \in Pings, Place(h, o)
        PROVE  FALSE
    BY <1>1, <1>4, <2>2, PlaceOpensNone
  <2>3. CASE pings' = pings
    BY <1>4, <2>3
  <2> QED BY <1>1, <2>1, <2>2, <2>3, OtherSteps DEF ListPings, stores
<1> QED
  BY <1>3, <1>4

-----------------------------------------------------------------------------
(* The clock of the run. *)
LEMMA BoostClock ==
    ASSUME Earning, NEW b \in roster \cup BoostsOf(sweep)
    PROVE  /\ b \in Boost /\ b.life \in Lives /\ b.ping \in Pings /\ b.user \in Members
           /\ pings[b.life][b.ping].at \in Nat /\ pings[b.life][b.ping].at <= now
           /\ pings[b.life][b.ping].extra # {} /\ b.user \in pings[b.life][b.ping].extra
           /\ b.end = pings[b.life][b.ping].at + Window
<1>1. Typed /\ Placing /\ Rostered /\ Clocked
  BY DEF Earning, Boosting, Placing
<1>2. b \in Boost
  BY <1>1 DEF Typed, SweepOK, Sweep, BoostsOf
<1>3. b.life \in Lives /\ b.ping \in Pings /\ b.user \in Members
  BY <1>2 DEF Boost
<1>4. b.user \in pings[b.life][b.ping].extra /\ b.end = pings[b.life][b.ping].at + Window
  BY <1>1 DEF Rostered, Backed
<1>5. pings[b.life][b.ping] \in Ping
  BY <1>1, <1>3 DEF Typed, StoresOK
<1>6. pings[b.life][b.ping].at \in Nat
  BY <1>5 DEF Ping
<1>7. pings[b.life][b.ping].open
  BY <1>1, <1>3, <1>4 DEF Placing, Filled
<1>8. pings[b.life][b.ping].at <= now
  BY <1>1, <1>3, <1>7 DEF Clocked
<1> QED
  BY <1>2, <1>3, <1>4, <1>6, <1>8

LEMMA ClockStays ==
    ASSUME Earning, [Next]_vars, NEW b \in roster \cup BoostsOf(sweep)
    PROVE  pings'[b.life][b.ping].at = pings[b.life][b.ping].at
<1>1. b.life \in Lives /\ b.ping \in Pings /\ pings[b.life][b.ping].extra # {}
  BY BoostClock
<1>2. Placing
  BY DEF Earning, Boosting
<1> QED
  BY <1>1, <1>2, ExtrasStay

LEMMA RunClock ==
    ASSUME Earning, [Next]_vars
    PROVE  /\ sweep'.pc = "asleep" => sweep' = Asleep
           /\ sweep'.pc # "asleep" => nextSweep' = sweep'.at + Period
           /\ \A b \in sweep'.busy : sweep'.at < b.end
           /\ \A b \in BoostsOf(sweep') :
                 \/ sweep'.at = sweep.at
                    /\ \E d \in BoostsOf(sweep) : b.life = d.life /\ b.ping = d.ping
                 \/ b \in roster /\ sweep'.at = now
<1>1. /\ sweep.pc = "asleep" => sweep = Asleep
      /\ sweep.pc # "asleep" => nextSweep = sweep.at + Period
      /\ \A b \in sweep.busy : sweep.at < b.end
  BY DEF Earning, Clocked
<1>2. CASE UNCHANGED <<sweep, nextSweep>>
  BY <1>1, <1>2
<1>3. ASSUME sweep' = Asleep
      PROVE  /\ sweep'.pc = "asleep" /\ sweep'.busy = {} /\ BoostsOf(sweep') = {}
  BY <1>3, AsleepLined
<1>4. CASE FailSweep \/ Restart
  BY <1>3, <1>4 DEF FailSweep, Restart
<1>5. CASE StartSweep
  <2>1. nextSweep' = now + Period /\ BoostsOf(sweep') \subseteq roster
    BY <1>5, StartLines DEF StartSweep
  <2>2. sweep' = Asleep \/ (sweep'.pc = "looking" /\ sweep'.at = now /\ \A b \in sweep'.busy : now < b.end)
    BY <1>5, StartLines
  <2> QED BY <1>3, <2>1, <2>2
<1>6. CASE ContinueSweep
  <2>1. nextSweep' = nextSweep /\ BoostsOf(sweep') \subseteq BoostsOf(sweep) /\ sweep.pc # "asleep"
    BY <1>6, ContinueLines DEF ContinueSweep
  <2>2. \/ sweep' = Asleep
        \/ /\ sweep'.pc = "looking" /\ sweep'.at = sweep.at
           /\ \A b \in sweep'.busy : sweep'.at < b.end
    BY <1>6, ContinueLines
  <2> QED BY <1>1, <1>3, <2>1, <2>2
<1>7. ASSUME NEW b \in sweep.busy, ApplyBoost(b)
      PROVE  /\ sweep'.pc = "boosted" /\ sweep'.at = sweep.at /\ sweep'.busy = {}
             /\ nextSweep' = nextSweep /\ sweep.pc # "asleep"
             /\ \A c \in BoostsOf(sweep') : \E d \in BoostsOf(sweep) : c.life = d.life /\ c.ping = d.ping
  BY <1>7, ApplyLines DEF ApplyBoost
<1> QED
  BY <1>1, <1>2, <1>4, <1>5, <1>6, <1>7, RunStands, SetLines DEF Earning, Following

LEMMA ClockedSteps == ASSUME Earning, [Next]_vars PROVE Clocked'
<1>1. \A l \in Lives, m \in Pings : pings'[l][m].open => l <= life' /\ pings'[l][m].at <= now'
  BY OpenPings
<1>2. ASSUME NEW b \in BoostsOf(sweep')
      PROVE  pings'[b.life][b.ping].at <= sweep'.at
  <2>1. CASE b \in roster /\ sweep'.at = now
    BY <2>1, BoostClock, ClockStays
  <2>2. CASE sweep'.at = sweep.at /\ \E d \in BoostsOf(sweep) : b.life = d.life /\ b.ping = d.ping
    <3>1. PICK d \in BoostsOf(sweep) : b.life = d.life /\ b.ping = d.ping
      BY <2>2
    <3>2. pings'[d.life][d.ping].at = pings[d.life][d.ping].at /\ pings[d.life][d.ping].at <= sweep.at
      BY <3>1, ClockStays DEF Earning, Clocked
    <3> QED BY <2>2, <3>1, <3>2
  <2> QED BY <2>1, <2>2, RunClock
<1> QED
  BY <1>1, <1>2, RunClock DEF Clocked

-----------------------------------------------------------------------------
(* Slots that are earned stay so. *)

LEMMA NoPending ==
    ASSUME NEW x, NEW i, NEW u, Pending(x, i, u)
    PROVE  Live(x[1])
BY DEF Pending, Live, BoostsOf

LEMMA SlotsPassed ==
    ASSUME Earning, StartSweep, NEW x \in AllPings, PingOf(x).at + Period <= nextSweep
    PROVE  /\ PingOf(x).at + Period <= now + Period
           /\ SlotAt(x, nextSweep - Period) < SlotAt(x, now)
           /\ SlotAt(x, nextSweep - Period) \in Nat /\ SlotAt(x, now) \in Nat
<1>1. /\ now \in Nat /\ nextSweep \in Nat /\ Period \in Nat \ {0}
      /\ nextSweep <= now
  BY VoiceAssumption DEF Earning, Following, Typed, WorldOK, SweepOK, StartSweep
<1>2. PingOf(x).at \in Nat
  BY DEF AllPings, PingOf, Earning, Following, Typed, StoresOK, Ping
<1> DEFINE last == (nextSweep - Period) - PingOf(x).at
           age == now - PingOf(x).at
<1>3. last \in Nat /\ age \in Nat /\ last + Period <= age
  BY <1>1, <1>2
<1> HIDE DEF last, age
<1>4. last \div Period + 1 <= age \div Period /\ last \div Period \in Nat /\ age \div Period \in Nat
  BY <1>1, <1>3, QuotientStep, Quotient
<1>5. SlotAt(x, nextSweep - Period) = last \div Period /\ SlotAt(x, now) = age \div Period
  BY DEF SlotAt, last, age
<1> QED
  BY <1>1, <1>2, <1>4, <1>5

(* What the run has still to do shrinks, but for a new one. *)
LEMMA TodoShrinks ==
    ASSUME Earning, [Next]_vars, ~StartSweep, ~Restart
    PROVE  /\ nextSweep' = nextSweep /\ sweep'.todo \cup sweep'.busy \subseteq sweep.todo \cup sweep.busy
           /\ sweep'.todo \cup sweep'.busy # {} => sweep'.at = sweep.at
<1>1. CASE UNCHANGED <<sweep, nextSweep>>
  BY <1>1
<1>2. CASE FailSweep
  BY <1>2, AsleepLined DEF FailSweep
<1>3. CASE ContinueSweep
  BY <1>3, ContinueLines, AsleepLined DEF ContinueSweep
<1>4. ASSUME NEW b \in sweep.busy, ApplyBoost(b)
      PROVE  /\ nextSweep' = nextSweep
             /\ sweep'.todo \cup sweep'.busy \subseteq sweep.todo \cup sweep.busy
             /\ sweep'.at = sweep.at
  BY <1>4, ApplyLines DEF ApplyBoost
<1> QED
  BY <1>1, <1>2, <1>3, <1>4, RunStands, SetLines DEF Earning, Following

LEMMA LifeSteps == ASSUME [Next]_vars PROVE life' \in {life, life + 1}
BY DEF Next, Discord, Tick, Join, LeaveOrSwitch, MoveUntracked, Moves, Message, HandlerStep,
       NotInVoice, CreditPing, CreditStay, StayBoost, JoinBoost, CreditResponder, CreditHost,
       ListPings, Register, Place, Open, SetRoster, StartSweep, SweepStep, ContinueSweep,
       ApplyBoost, Fault, FailEvent, FailSweep, Restart, GuildRemoved, NewLife, vars, stores

LEMMA EarnedStay ==
    ASSUME Earning, [Next]_vars, NEW u \in Members
    PROVE  Earned(u) \subseteq Earned(u)'
<1> SUFFICES ASSUME NEW x \in ExtrasOf(u), NEW i \in 0..(Slots - 1),
                    Reached(x, i), ~Pending(x, i, u)
             PROVE  Reached(x, i)' /\ ~Pending(x, i, u)' /\ x \in ExtrasOf(u)'
  BY DEF Earned
<1>1. /\ x \in ExtrasOf(u)' /\ x \in AllPings /\ PingOf(x).open /\ PingOf(x)'.at = PingOf(x).at
      /\ \A t : SlotAt(x, t)' = (t' - PingOf(x).at) \div Period
  BY PlacesGrow DEF Earning, SlotAt
<1>2. Typed /\ life \in Nat /\ x[1] \in Nat /\ x[1] <= life
  BY <1>1 DEF Earning, Following, Typed, StoresOK, Clocked, AllPings, PingOf, Lives
<1>3. CASE ~Live(x[1])'
  <2>1. ~Pending(x, i, u)'
    BY <1>3 DEF Pending, Live, BoostsOf
  <2> QED BY <1>1, <1>3, <2>1 DEF Reached
<1>4. CASE Live(x[1])'
  <2>1. ~Restart
    <3> SUFFICES ASSUME Restart PROVE FALSE
      OBVIOUS
    <3>1. x[1] # life'
      BY <1>2 DEF Restart, NewLife
    <3>2. /\ roster' \cup BoostsOf(sweep') = {} /\ \A h \in Handlers : handler'[h].pc = "free"
      BY AsleepLined DEF Restart, Free
    <3> QED BY <1>4, <3>1, <3>2 DEF Live
  <2>2. x[1] # life' \/ life' = life
    BY <1>2, LifeSteps
  <2>3. Live(x[1])
    BY <1>4, <2>2, LiveShrinks
  <2>4. PingOf(x).at + Period <= nextSweep /\ i <= SlotAt(x, nextSweep - Period)
    BY <2>3 DEF Reached
  <2>5. CASE StartSweep
    <3>1. nextSweep' = now + Period /\ (nextSweep' - Period) = now
      BY <1>2, <2>5, VoiceAssumption DEF StartSweep, Typed, WorldOK
    <3>2. /\ PingOf(x).at + Period <= now + Period
          /\ SlotAt(x, nextSweep - Period) < SlotAt(x, now)
          /\ SlotAt(x, nextSweep - Period) \in Nat /\ SlotAt(x, now) \in Nat
      BY <1>1, <2>4, <2>5, SlotsPassed
    <3>3. i < SlotAt(x, now) /\ i \in Nat
      BY <2>4, <3>2, SlotsNat
    <3>4. Reached(x, i)'
      BY <1>1, <3>1, <3>2, <3>3 DEF Reached, SlotAt
    <3>5. ASSUME Pending(x, i, u)' PROVE FALSE
      <4>1. sweep'.todo \cup sweep'.busy # {} /\ i = (sweep'.at - PingOf(x).at) \div Period
        BY <1>1, <3>5 DEF Pending, SlotAt
      <4>2. sweep'.at = now
        BY <2>5, <4>1, StartLines, AsleepLined
      <4> QED BY <3>3, <4>1, <4>2 DEF SlotAt
    <3> QED BY <1>1, <3>4, <3>5
  <2>6. CASE ~StartSweep
    <3>1. /\ nextSweep' = nextSweep /\ sweep'.todo \cup sweep'.busy \subseteq sweep.todo \cup sweep.busy
          /\ sweep'.todo \cup sweep'.busy # {} => sweep'.at = sweep.at
      BY <2>1, <2>6, TodoShrinks
    <3>2. Reached(x, i)'
      BY <1>1, <2>4, <3>1 DEF Reached, SlotAt
    <3>3. ~Pending(x, i, u)'
      BY <1>1, <3>1 DEF Pending, SlotAt
    <3> QED BY <1>1, <3>2, <3>3
  <2> QED BY <2>5, <2>6
<1> QED
  BY <1>3, <1>4

(* A boost of the run uses up the slot of its extra place.                  *)
LEMMA BoostEarns ==
    ASSUME Earning, [Next]_vars, NEW b \in sweep.busy, ApplyBoost(b)
    PROVE  \E s : s \in Earned(b.user)' /\ s \notin Earned(b.user)
<1> SUFFICES ASSUME NEW u, u = b.user, NEW x, x = <<b.life, b.ping>>, NEW i, i = SlotAt(x, sweep.at)
             PROVE  \E s : s \in Earned(u)' /\ s \notin Earned(u)
  OBVIOUS
<1>1. b \in BoostsOf(sweep)
  BY DEF BoostsOf
<1>2. /\ b \in Boost /\ b.life \in Lives /\ b.ping \in Pings /\ u \in Members
      /\ pings[b.life][b.ping].at \in Nat /\ u \in pings[b.life][b.ping].extra
      /\ b.end = pings[b.life][b.ping].at + Window
  BY <1>1, BoostClock
<1>3. x \in AllPings /\ PingOf(x) = pings[b.life][b.ping] /\ x[1] = b.life /\ x[2] = b.ping
  BY <1>2 DEF AllPings, PingOf
<1>4. x \in ExtrasOf(u)
  <2>1. Fair(PingOf(x))
    BY <1>2, <1>3 DEF Earning, Boosting, Placing, Filled
  <2> QED BY <1>2, <1>3, <2>1 DEF Fair, ExtrasOf, PlacesOf, FirstsOf, Joiners
<1>5. /\ sweep.pc = "looking" /\ nextSweep = sweep.at + Period /\ sweep.at < b.end
      /\ PingOf(x).at <= sweep.at /\ sweep.at \in Nat /\ Period \in Nat /\ nextSweep \in Nat
  BY <1>1, <1>3, VoiceAssumption
     DEF ApplyBoost, Earning, Clocked, Following, Typed, SweepOK, Sweep
<1>6. i \in 0..(Slots - 1)
  <2>1. sweep.at - PingOf(x).at \in Nat /\ sweep.at - PingOf(x).at < Window
    BY <1>2, <1>3, <1>5, VoiceAssumption
  <2> QED BY <2>1, SlotsNat DEF SlotAt
<1>7. <<x, i>> \notin Earned(u)
  BY <1>3, <1>5 DEF Earned, Pending
<1>8. x \in ExtrasOf(u)' /\ PingOf(x)'.at = PingOf(x).at
  BY <1>2, <1>4, PlacesGrow DEF Earning
<1>9. nextSweep' = nextSweep /\ sweep'.at = sweep.at /\ sweep'.todo = sweep.todo /\ sweep'.busy = {}
  BY ApplyLines DEF ApplyBoost
<1>10. Reached(x, i)'
  <2>1. i \in Nat
    BY <1>6, SlotsNat
  <2>2. (nextSweep' - Period) = sweep.at /\ PingOf(x)'.at + Period <= nextSweep'
    BY <1>2, <1>3, <1>5, <1>8, <1>9
  <2>3. SlotAt(x, nextSweep - Period)' = i
    BY <1>8, <2>2 DEF SlotAt
  <2> QED BY <2>1, <2>2, <2>3 DEF Reached
<1>11. ~Pending(x, i, u)'
  <2> SUFFICES ASSUME NEW c \in sweep.todo, c.user = u, c.life = b.life, c.ping = b.ping
               PROVE  FALSE
    BY <1>3, <1>9 DEF Pending
  <2> QED BY DEF Earning, Lined, Distinct, Same
<1>12. <<x, i>> \in Earned(u)'
  BY <1>6, <1>8, <1>10, <1>11 DEF Earned
<1> QED
  BY <1>7, <1>12

-----------------------------------------------------------------------------
(* What is spent on raises, and what may be. *)

LEMMA RaiseCount ==
    ASSUME NEW h \in Handlers, OthersStay(h), NEW u
    PROVE  /\ Cardinality(ToRaise(u)) \in Nat /\ Cardinality(ToRaise(u)') \in Nat
           /\ Cardinality(ToRaise(u)') =
                (Cardinality(ToRaise(u)) + Bit(h \in ToRaise(u)')) - Bit(h \in ToRaise(u))
<1>1. IsFiniteSet(ToRaise(u))
  <2>1. ToRaise(u) \subseteq Handlers /\ IsFiniteSet(Handlers)
    BY VoiceAssumption DEF ToRaise
  <2> QED BY <2>1, FS_Subset
<1>2. \A k : k # h => (k \in ToRaise(u)' <=> k \in ToRaise(u))
  BY DEF OthersStay, ToRaise, At
<1> QED
  BY <1>1, <1>2, DiffersAt

LEMMA GrowingCount ==
    ASSUME NEW T, IsFiniteSet(T), NEW S, S \subseteq T
    PROVE  /\ Cardinality(S) \in Nat /\ Cardinality(T) \in Nat /\ Cardinality(S) <= Cardinality(T)
           /\ (\E x : x \in T /\ x \notin S) => Cardinality(S) + 1 <= Cardinality(T)
<1>1. /\ IsFiniteSet(S) /\ Cardinality(S) <= Cardinality(T)
      /\ Cardinality(T) = Cardinality(S) => T = S
  BY FS_Subset
<1>2. Cardinality(S) \in Nat /\ Cardinality(T) \in Nat
  BY <1>1, FS_CardinalityType
<1> QED
  BY <1>1, <1>2

LEMMA GainsGrow ==
    ASSUME Earning, Awarding', [Next]_vars, NEW u \in Members, voice[u] <= voice'[u]
    PROVE  /\ Gains(u) \in Nat /\ Gains(u)' \in Nat /\ Gains(u) <= Gains(u)'
           /\ \/ \E x : x \in FirstsOf(u)' /\ x \notin FirstsOf(u)
              \/ \E s : s \in Earned(u)' /\ s \notin Earned(u)
              \/ voice[u] + StayBonus <= voice'[u]
              => Gains(u) + 1 <= Gains(u)'
<1> SUFFICES ASSUME NEW firsts, firsts = Cardinality(FirstsOf(u)),
                    NEW firstsToo, firstsToo = Cardinality(FirstsOf(u)'),
                    NEW earned, earned = Cardinality(Earned(u)),
                    NEW earnedToo, earnedToo = Cardinality(Earned(u)'),
                    NEW stays, stays = voice[u] \div StayBonus,
                    NEW staysToo, staysToo = voice'[u] \div StayBonus
             PROVE  /\ firsts + stays + earned \in Nat /\ firstsToo + staysToo + earnedToo \in Nat
                    /\ firsts + stays + earned <= firstsToo + staysToo + earnedToo
                    /\ \/ \E x : x \in FirstsOf(u)' /\ x \notin FirstsOf(u)
                       \/ \E s : s \in Earned(u)' /\ s \notin Earned(u)
                       \/ voice[u] + StayBonus <= voice'[u]
                       => firsts + stays + earned + 1 <= firstsToo + staysToo + earnedToo
  BY DEF Gains
<1>1. /\ IsFiniteSet(FirstsOf(u)') /\ FirstsOf(u) \subseteq FirstsOf(u)'
  <2>1. FirstsOf(u)' \subseteq PlacesOf(u)' /\ IsFiniteSet(PlacesOf(u)')
    BY DEF Awarding, FinitePlaces, FirstsOf, PlacesOf, Joiners
  <2> QED BY <2>1, FS_Subset, PlacesGrow DEF Earning
<1>2. IsFiniteSet(Earned(u)') /\ Earned(u) \subseteq Earned(u)'
  <2>1. ExtrasOf(u)' \subseteq PlacesOf(u)' /\ IsFiniteSet(PlacesOf(u)')
    BY DEF Awarding, FinitePlaces, ExtrasOf
  <2>2. IsFiniteSet(ExtrasOf(u)') /\ IsFiniteSet(0..(Slots - 1))
    <3>1. Slots \in Nat /\ 0 \in Int /\ Slots - 1 \in Int
      BY SlotsNat
    <3> QED BY <2>1, <3>1, FS_Subset, FS_Interval
  <2>3. IsFiniteSet(ExtrasOf(u)' \X (0..(Slots - 1)))
    BY <2>2, FS_Product
  <2>4. Earned(u)' \in SUBSET (ExtrasOf(u)' \X (0..(Slots - 1)))
    BY DEF Earned, Slots
  <2> QED BY <2>3, <2>4, FS_Subset, EarnedStay
<1>3. /\ firsts \in Nat /\ firstsToo \in Nat /\ firsts <= firstsToo
      /\ (\E x : x \in FirstsOf(u)' /\ x \notin FirstsOf(u)) => firsts + 1 <= firstsToo
  BY <1>1, GrowingCount
<1>4. /\ earned \in Nat /\ earnedToo \in Nat /\ earned <= earnedToo
      /\ (\E s : s \in Earned(u)' /\ s \notin Earned(u)) => earned + 1 <= earnedToo
  BY <1>2, GrowingCount
<1>5. /\ stays \in Nat /\ staysToo \in Nat /\ stays <= staysToo
      /\ voice[u] + StayBonus <= voice'[u] => stays + 1 <= staysToo
  <2>1. voice[u] \in Nat /\ voice'[u] \in Nat /\ StayBonus \in Nat \ {0}
    BY VoiceAssumption DEF Earning, Following, Awarding, Placing, Typed, RowsOK
  <2> QED BY <2>1, Quotient, QuotientStep
<1> QED
  BY <1>3, <1>4, <1>5

(* A step of one event: what it spends is paid for. *)
LEMMA SpendPut ==
    ASSUME Earning, Awarding', [Next]_vars, NEW u \in Members, voice[u] <= voice'[u],
           NEW h \in Handlers, OthersStay(h),
           LET spent1 == (raises'[u] + Bit(h \in ToRaise(u)')) - (raises[u] + Bit(h \in ToRaise(u)))
           IN \/ spent1 <= 0
              \/ spent1 <= 1 /\ \/ \E x : x \in FirstsOf(u)' /\ x \notin FirstsOf(u)
                                \/ voice[u] + StayBonus <= voice'[u]
    PROVE  Spends(u)' <= Gains(u)'
<1>1. /\ Cardinality(ToRaise(u)) \in Nat /\ Cardinality(ToRaise(u)') \in Nat
      /\ Cardinality(ToRaise(u)') =
           (Cardinality(ToRaise(u)) + Bit(h \in ToRaise(u)')) - Bit(h \in ToRaise(u))
  BY RaiseCount
<1>2. raises[u] \in Nat /\ raises'[u] \in Nat /\ Spends(u) <= Gains(u)
  BY DEF Earning, Following, Awarding, Placing, Typed, RowsOK
<1>3. /\ Gains(u) \in Nat /\ Gains(u)' \in Nat /\ Gains(u) <= Gains(u)'
      /\ \/ \E x : x \in FirstsOf(u)' /\ x \notin FirstsOf(u)
         \/ voice[u] + StayBonus <= voice'[u]
         => Gains(u) + 1 <= Gains(u)'
  BY GainsGrow
<1>4. Bit(h \in ToRaise(u)) \in 0..1 /\ Bit(h \in ToRaise(u)') \in 0..1
  BY DEF Bit
<1>5. Spends(u) = raises[u] + Cardinality(ToRaise(u)) /\ Spends(u)' = raises'[u] + Cardinality(ToRaise(u)')
  BY DEF Spends
<1> QED
  BY <1>1, <1>2, <1>3, <1>4, <1>5

LEMMA RaiseAt ==
    ASSUME raises \in [Members -> Nat], NEW v, Raise(v), NEW u \in Members
    PROVE  raises'[u] = raises[u] \/ (u = v /\ raises'[u] = raises[u] + 1)
BY AddAt DEF Raise

LEMMA SpendCredits ==
    ASSUME Earning, Awarding', [Next]_vars, NEW u \in Members, NEW h \in Handlers,
           CreditStay(h) \/ StayBoost(h) \/ JoinBoost(h)
    PROVE  Spends(u)' <= Gains(u)'
<1>1. /\ Typed /\ HandlersOK /\ raises \in [Members -> Nat] /\ voice \in [Members -> Nat]
      /\ raises[u] \in Nat /\ voice[u] \in Nat
  BY DEF Earning, Following, Typed, RowsOK
<1>2. Bit(h \in ToRaise(u)) \in 0..1 /\ Bit(h \in ToRaise(u)') \in 0..1
  BY DEF Bit
<1>3. CASE StayBoost(h) \/ JoinBoost(h)
  <2>1. /\ OthersStay(h) /\ handler'[h].pc \notin {"boost", "stay"} /\ voice' = voice
        /\ handler[h].pc \in {"boost", "stay"}
    BY <1>1, <1>3, LeavingTurns, GotoTurns DEF StayBoost, JoinBoost, Turns, Free
  <2>2. raises'[u] = raises[u] \/ (u = handler[h].user /\ raises'[u] = raises[u] + 1)
    BY <1>1, <1>3, RaiseAt DEF StayBoost, JoinBoost
  <2>3. Bit(h \in ToRaise(u)) = (IF u = handler[h].user THEN 1 ELSE 0) /\ Bit(h \in ToRaise(u)') = 0
    BY <2>1 DEF ToRaise, At, Bit
  <2> QED BY <1>1, <2>1, <2>2, <2>3, SpendPut
<1>4. CASE CreditStay(h)
  <2>1. /\ handler[h].pc = "credit" /\ raises' = raises /\ handler[h].stay \in Nat
        /\ voice' = Add(voice, handler[h].user, handler[h].stay)
    BY <1>1, <1>4 DEF CreditStay, HandlersOK, Handling
  <2>2. voice'[u] = IF u = handler[h].user THEN voice[u] + handler[h].stay ELSE voice[u]
    BY <1>1, <2>1, AddAt
  <2>3. Bit(h \in ToRaise(u)) = 0
    BY <2>1 DEF ToRaise, At, Bit
  <2>4. CASE LongStay(handler[h].stay)
    <3>1. Turns(h, "stay") /\ handler[h].stay >= StayBonus
      BY <1>1, <1>4, <2>4, GotoTurns DEF CreditStay, LongStay
    <3>2. Bit(h \in ToRaise(u)') = (IF u = handler[h].user THEN 1 ELSE 0)
      BY <3>1 DEF ToRaise, At, Bit, Turns, Carries
    <3>3. voice[u] <= voice'[u] /\ (u = handler[h].user => voice[u] + StayBonus <= voice'[u])
      BY <1>1, <2>1, <2>2, <3>1, VoiceAssumption
    <3> QED BY <1>1, <2>1, <2>3, <3>1, <3>2, <3>3, SpendPut DEF Turns
  <2>5. CASE ~LongStay(handler[h].stay)
    <3>1. OthersStay(h) /\ handler'[h].pc \notin {"boost", "stay"}
      BY <1>1, <1>4, <2>5, LeavingTurns DEF CreditStay, Free
    <3>2. Bit(h \in ToRaise(u)') = 0
      BY <3>1 DEF ToRaise, At, Bit
    <3>3. voice[u] <= voice'[u]
      BY <1>1, <2>1, <2>2
    <3> QED BY <1>1, <2>1, <2>3, <3>1, <3>2, <3>3, SpendPut
  <2> QED BY <2>4, <2>5
<1> QED
  BY <1>3, <1>4

LEMMA SpendPlace ==
    ASSUME Earning, Awarding', [Next]_vars, NEW u \in Members, NEW h \in Handlers,
           NEW m \in Pings, Place(h, m)
    PROVE  Spends(u)' <= Gains(u)'
<1> SUFFICES ASSUME NEW l, l = handler[h].life, NEW v, v = handler[h].user,
                    NEW p, p = pings[l][m], NEW q, q = PlaceIn(p, v), NEW x, x = <<l, m>>
             PROVE  Spends(u)' <= Gains(u)'
  OBVIOUS
<1>1. /\ Typed /\ HandlersOK /\ raises[u] \in Nat /\ voice[u] \in Nat
      /\ raises'[u] = raises[u] /\ voice'[u] = voice[u]
  BY DEF Earning, Following, Typed, RowsOK, Place, rows
<1>2. /\ OthersStay(h) /\ Carries(h) /\ handler[h].pc = "next"
      /\ handler'[h].pc = "boost" => v \notin Joiners(p) /\ v \in q.first
      /\ handler'[h].pc # "stay"
  <2>1. OthersStay(h) /\ Carries(h)
    BY <1>1, PlaceTurns
  <2>2. handler'[h].pc = CASE v \in Joiners(p) -> "next"
                           [] v \notin Joiners(p) /\ v \in q.first -> "boost"
                           [] OTHER -> "answer"
    BY <1>1 DEF Place, HandlersOK, Handling
  <2> QED BY <2>1, <2>2 DEF Place
<1>3. Bit(h \in ToRaise(u)) = 0
  BY <1>2 DEF ToRaise, At, Bit
<1>4. CASE u = v /\ handler'[h].pc = "boost"
  <2>1. l \in Lives /\ m \in Pings /\ pings' = [pings EXCEPT ![l][m] = q]
    <3>1. PICK e \in Handling : Placed(h, m, e)
      BY <1>1, PlaceStep
    <3> QED BY <3>1 DEF Placed
  <2>2. pings'[l][m] = q
    BY <1>1, <2>1 DEF Typed, StoresOK
  <2>3. x \in FirstsOf(u)' /\ x \notin FirstsOf(u)
    BY <1>2, <1>4, <2>1, <2>2 DEF FirstsOf, AllPings, PingOf, Joiners
  <2>4. Bit(h \in ToRaise(u)') \in 0..1
    BY DEF Bit
  <2> QED BY <1>1, <1>2, <1>3, <2>3, <2>4, SpendPut
<1>5. CASE ~(u = v /\ handler'[h].pc = "boost")
  <2>1. Bit(h \in ToRaise(u)') = 0
    BY <1>2, <1>5 DEF ToRaise, At, Bit, Carries
  <2> QED BY <1>1, <1>2, <1>3, <2>1, SpendPut
<1> QED
  BY <1>4, <1>5

LEMMA SpendBoost ==
    ASSUME Earning, Awarding', [Next]_vars, NEW u \in Members, NEW b \in sweep.busy, ApplyBoost(b)
    PROVE  Spends(u)' <= Gains(u)'
<1>1. /\ raises \in [Members -> Nat] /\ raises[u] \in Nat /\ voice[u] \in Nat
      /\ voice' = voice /\ handler' = handler /\ Raise(b.user)
  BY DEF Earning, Following, Typed, RowsOK, ApplyBoost
<1>2. ToRaise(u)' = ToRaise(u)
  BY <1>1 DEF ToRaise, At
<1>3. Cardinality(ToRaise(u)) \in Nat /\ Spends(u) <= Gains(u)
  BY RaisesFinite DEF Earning, Following, Awarding
<1>4. Gains(u) \in Nat /\ Gains(u)' \in Nat /\ Gains(u) <= Gains(u)'
  BY <1>1, GainsGrow
<1>5. CASE raises'[u] = raises[u]
  BY <1>1, <1>2, <1>3, <1>4, <1>5 DEF Spends
<1>6. CASE u = b.user /\ raises'[u] = raises[u] + 1
  <2>1. \E s : s \in Earned(u)' /\ s \notin Earned(u)
    BY <1>6, BoostEarns
  <2>2. Gains(u) + 1 <= Gains(u)'
    BY <1>1, <2>1, GainsGrow
  <2> QED BY <1>1, <1>2, <1>3, <1>4, <1>6, <2>2 DEF Spends
<1> QED
  BY <1>1, <1>5, <1>6, RaiseAt

LEMMA SpendCalm ==
    ASSUME Earning, Awarding', [Next]_vars, NEW u \in Members, UNCHANGED <<raises, voice>>,
           ToRaise(u)' \subseteq ToRaise(u)
    PROVE  Spends(u)' <= Gains(u)'
<1>1. /\ Cardinality(ToRaise(u)) \in Nat /\ IsFiniteSet(ToRaise(u)) /\ Spends(u) <= Gains(u)
      /\ raises[u] \in Nat /\ voice[u] \in Nat
  BY RaisesFinite DEF Earning, Following, Awarding
<1>2. Cardinality(ToRaise(u)') \in Nat /\ Cardinality(ToRaise(u)') <= Cardinality(ToRaise(u))
  BY <1>1, GrowingCount
<1>3. Gains(u) \in Nat /\ Gains(u)' \in Nat /\ Gains(u) <= Gains(u)'
  BY <1>1, GainsGrow
<1> QED
  BY <1>1, <1>2, <1>3 DEF Spends

LEMMA SpendQuiet ==
    ASSUME Typed, [Next]_vars, NEW u \in Members,
           ~\E h \in Handlers : \/ CreditStay(h) \/ StayBoost(h) \/ JoinBoost(h)
                                \/ \E m \in Pings : Place(h, m),
           ~\E b \in sweep.busy : ApplyBoost(b)
    PROVE  UNCHANGED <<raises, voice>> /\ ToRaise(u)' \subseteq ToRaise(u)
<1>1. HandlersOK /\ handler \in [Handlers -> Handling]
  BY DEF Typed, HandlersOK
<1>2. CASE handler' = handler /\ UNCHANGED <<raises, voice>>
  BY <1>2 DEF ToRaise, At
<1>3. CASE Tick \/ StartSweep \/ ContinueSweep \/ FailSweep \/ GuildRemoved \/ UNCHANGED vars
  BY <1>2, <1>3
     DEF Tick, StartSweep, ContinueSweep, FailSweep, GuildRemoved, vars, rows
<1>4. ASSUME NEW h \in Handlers, OthersStay(h), handler'[h].pc \notin {"boost", "stay"}
      PROVE  ToRaise(u)' \subseteq ToRaise(u)
  BY <1>4 DEF ToRaise, At, OthersStay
<1>5. ASSUME NEW h \in Handlers, NEW x \in Itinerary,
             Join(h, x[1], x[2]) \/ LeaveOrSwitch(h, x[1], x[2]) \/ MoveUntracked(h, x[1], x[2])
      PROVE  UNCHANGED <<raises, voice>> /\ ToRaise(u)' \subseteq ToRaise(u)
  <2>1. UNCHANGED <<raises, voice>>
    BY <1>5 DEF Join, LeaveOrSwitch, MoveUntracked, Moves, rows
  <2>2. x[1] \in Members /\ x[2] \in Places
    BY ItineraryType
  <2>3. CASE handler' = handler
    BY <1>2, <2>1, <2>3
  <2>4. CASE handler' = [handler EXCEPT ![h] = Event(x[1], x[2], "list")]
    <3>1. Event(x[1], x[2], "list").pc = "list"
      BY <1>1, <2>2, NewEvent DEF Typed
    <3>2. OthersStay(h) /\ handler'[h].pc = "list"
      BY <1>1, <2>4, <3>1 DEF OthersStay
    <3> QED BY <1>4, <2>1, <3>2
  <2>5. CASE LeaveOrSwitch(h, x[1], x[2])
    <3>1. handler' = [handler EXCEPT ![h] =
                [Event(x[1], x[2], "credit") EXCEPT !.stay = now - sessions[life][x[1]].start]]
      BY <2>5 DEF LeaveOrSwitch
    <3>2. [Event(x[1], x[2], "credit") EXCEPT !.stay = now - sessions[life][x[1]].start].pc = "credit"
      BY DEF Event, Free
    <3>3. OthersStay(h) /\ handler'[h].pc = "credit"
      BY <1>1, <3>1, <3>2 DEF OthersStay
    <3> QED BY <1>4, <2>1, <3>3
  <2> QED BY <1>5, <2>3, <2>4, <2>5 DEF Join, MoveUntracked
<1>6. ASSUME NEW h \in Handlers, NEW v \in Hosts, Message(h, v)
      PROVE  UNCHANGED <<raises, voice>> /\ ToRaise(u)' \subseteq ToRaise(u)
  <2>1. "record" \in {"list", "record", "credit"} /\ Nowhere \in Places /\ v \in Members
    BY NothingTyped, NamesAssumption
  <2>2. Event(v, Nowhere, "record").pc = "record"
    BY <1>1, <2>1, NewEvent DEF Typed
  <2>3. OthersStay(h) /\ handler'[h].pc = "record" /\ UNCHANGED <<raises, voice>>
    BY <1>1, <1>6, <2>2 DEF Message, OthersStay, rows
  <2> QED BY <1>4, <2>3
<1>7. ASSUME NEW h \in Handlers, HandlerStep(h) \/ FailEvent(h)
      PROVE  UNCHANGED <<raises, voice>> /\ ToRaise(u)' \subseteq ToRaise(u)
  <2>1. \/ \E m \in Pings, roles \in RoleSets : Register(h, m, roles)
        \/ NotInVoice(h) \/ CreditPing(h) \/ Open(h) \/ ListPings(h) \/ CreditResponder(h)
        \/ CreditHost(h) \/ SetRoster(h) \/ FailEvent(h)
    BY <1>7 DEF HandlerStep
  <2>2. UNCHANGED <<raises, voice>>
    BY <2>1 DEF Register, NotInVoice, CreditPing, Open, ListPings, CreditResponder, CreditHost,
                SetRoster, FailEvent, rows
  <2>3. OthersStay(h) /\ handler'[h].pc \notin {"boost", "stay"}
    <3>1. ASSUME NEW pc \in {"opened", "host", "list"}, Goto(h, pc)
          PROVE  OthersStay(h) /\ handler'[h].pc = pc
      BY <1>1, <3>1, GotoTurns DEF Turns
    <3>2. CASE Finish(h)
      BY <1>1, <3>2, FinishTurns DEF Free
    <3>3. CASE AfterLeaving(h)
      BY <1>1, <3>3, LeavingTurns DEF Free
    <3>4. CASE CreditHost(h) \/ ListPings(h)
      BY <1>1, <3>4, HostTurns, ListTurns DEF Turns
    <3> QED
      BY <2>1, <3>1, <3>2, <3>3, <3>4
         DEF Register, NotInVoice, CreditPing, Open, CreditResponder, SetRoster, FailEvent
  <2> QED BY <1>4, <2>2, <2>3
<1>8. CASE Restart
  BY <1>8 DEF Restart, ToRaise, At, Free, rows
<1> QED
  BY <1>3, <1>5, <1>6, <1>7, <1>8 DEF Next, Fault, Discord, SweepStep

LEMMA EarningInductive == ASSUME Earning, [Next]_vars PROVE Earning'
<1>1. Awarding' /\ Boosting' /\ Following'
  BY AwardingInductive, BoostingInductive, FollowInductive DEF Earning
<1>2. Distinct(roster)' /\ Lined(sweep)' /\ Clocked'
  BY RosterLines, ClockedSteps
<1>3. ASSUME NEW u \in Members PROVE Spends(u)' <= Gains(u)'
  <2>1. Typed
    BY DEF Earning, Following
  <2> QED
    BY <1>1, <2>1, SpendCredits, SpendPlace, SpendBoost, SpendQuiet, SpendCalm
<1> QED
  BY <1>1, <1>2, <1>3 DEF Earning

LEMMA EarningInit == Init => Earning
<1> SUFFICES ASSUME Init PROVE Earning
  OBVIOUS
<1>1. Awarding /\ Boosting /\ Following
  BY AwardingInit, BoostingInit, FollowInit
<1>2. Distinct(roster) /\ Lined(sweep) /\ Clocked
  <2>1. roster = {} /\ sweep = Asleep /\ \A l \in Lives, m \in Pings : ~pings[l][m].open
    BY DEF Init, NotOpen
  <2> QED BY <2>1, AsleepLined DEF Distinct, Clocked
<1>3. ASSUME NEW u \in Members PROVE Spends(u) <= Gains(u)
  <2>1. /\ Cardinality(FirstsOf(u)) \in Nat /\ Cardinality(Earned(u)) \in Nat
        /\ voice[u] \div StayBonus \in Nat
    BY <1>1, RaisesFinite DEF Awarding, Placing
  <2>2. raises[u] = 0 /\ ToRaise(u) = {}
    BY DEF Init, Zero, ToRaise, At, Free
  <2>3. Spends(u) = 0
    BY <2>2, FS_EmptySet DEF Spends
  <2> QED BY <2>1, <2>3 DEF Gains
<1> QED
  BY <1>1, <1>2, <1>3 DEF Earning

(* A price is raised at most once for every first place, every StayBonus of  *)
(* credited voice time, and every Period of the windows of extra places:     *)
(* the runs of VcBoostTask that failed and the rosters that joins replaced   *)
(* let it boost no more often.                                              *)
THEOREM RaisesEarnedHolds == Spec => []RaisesEarned
<1>1. Spec => []Earning
  BY EarningInit, EarningInductive, PTL DEF Spec
<1> QED
  BY <1>1, EarningOK, PTL
=============================================================================
