--------------------------------- MODULE Voice ---------------------------------
(***************************************************************************)
(* Voice pings of one guild: MessageListener opens them, VoiceListener     *)
(* places the members who answer, VcBoostTask raises the price of those    *)
(* who came too late for a first place.  Every event of Discord is handled *)
(* by a task of its own, and a step is what such a task does between two   *)
(* awaits of the database.  The two stores suspend nobody (their locks are *)
(* never held over an await), so what is done to them and the await before *)
(* it are one step; a section under the lock of one member is one step     *)
(* (LockManager).                                                          *)
(*                                                                         *)
(* The stores live in memory: a restart of the bot, or its removal from    *)
(* the guild, begins a new life with empty ones; a voice event keeps those *)
(* it began with, a message takes them after its first await.              *)
(***************************************************************************)
EXTENDS Naturals, FiniteSets

CONSTANTS
    Members, Channels,
    Pings,          \* ids of messages that mention a ping role
    RoleSets,       \* who may have the mentioned roles
    HasStock,       \* members with a stock
    InVoiceAtStart, \* member -> channel, when the bot starts
    Itinerary,      \* the moves members may make: <<member, channel>>
    Unseen,         \* the moves that may happen while the bot is away
    Hosts,          \* members who may send pings
    Handlers,       \* events that can be handled at one time
    Cap,            \* voice_ping_first_n_joiners
    Window,         \* voice_ping_window_seconds
    FastWithin, MediumWithin,   \* fast_response_seconds, medium_response_seconds
    Interval,       \* vc_extra_boost_interval_seconds
    Period,         \* VcBoostTask.interval_minutes
    StayBonus,      \* voice_stay_bonus_minutes
    MaxTime, MaxEvents, MaxLives,
    MaxFailures     \* exceptions, restarts and removals from the guild

ASSUME VoiceAssumption ==
    /\ IsFiniteSet(Members) /\ IsFiniteSet(Handlers)
    /\ RoleSets \subseteq SUBSET Members /\ HasStock \subseteq Members
    /\ Cap \in Nat \ {0} /\ StayBonus \in Nat \ {0}
    /\ Interval \in Nat /\ Period \in Nat \ {0}
    /\ {Window, FastWithin, MediumWithin, MaxTime, MaxEvents, MaxFailures, MaxLives} \subseteq Nat

Nowhere == "nowhere"
Nobody == "nobody"
NoPing == "no ping"

ASSUME NamesAssumption ==
    /\ Nowhere \notin Channels /\ Nobody \notin Members /\ NoPing \notin Pings
    /\ Hosts \subseteq Members /\ Unseen \cup Itinerary \subseteq Members \X (Channels \cup {Nowhere})
    /\ InVoiceAtStart \in [Members -> Channels \cup {Nowhere}]

Places == Channels \cup {Nowhere}
Lives == 0..MaxLives

NoSession == [channel |-> Nowhere, start |-> 0]
NotOpen == [open |-> FALSE, host |-> Nobody, channel |-> Nowhere, at |-> 0,
            roles |-> {}, first |-> {}, extra |-> {}]
Free == [pc |-> "free", user |-> Nobody, to |-> Nowhere, at |-> 0, stay |-> 0,
         todo |-> {}, ping |-> NoPing, life |-> 0]
Asleep == [pc |-> "asleep", at |-> 0, life |-> 0, current |-> {}, todo |-> {}, busy |-> {},
           survivors |-> {}]

VARIABLES
    now,
    where,      \* member -> channel, as Discord has it
    spent,      \* member -> time spent in voice
    life,       \* the life whose stores are current
    sessions,   \* life -> VoiceSessionStore: member -> session
    pings,      \* life -> VoicePingSessionStore: message -> session and snapshot
    roster,     \* VcBoostTask._stores: the boosts to apply
    sweep,      \* the run of VcBoostTask
    nextSweep,  \* when the next one is due
    handler,    \* handler -> the event it handles
    overtaken,  \* members with an event met by a switch that is still leaving
    hosted,     \* member -> role_ping_joins, in halves
    answered,   \* member -> role_ping_join_minutes, in voice_ping_base_points
    voice,      \* member -> voice_minutes
    raises,     \* member -> how often the stock was raised
    events, failures

stores == <<life, sessions, pings>>
rows == <<hosted, answered, voice, raises>>
world == <<now, where, spent, events>>
sweeping == <<roster, sweep, nextSweep>>
vars == <<world, stores, sweeping, handler, overtaken, rows, failures>>

Zero == [u \in Members |-> 0]

Init ==
    /\ now = 0 /\ where = InVoiceAtStart /\ spent = Zero
    /\ life = 0
    /\ sessions = [l \in Lives |-> [u \in Members |-> NoSession]]
    /\ pings = [l \in Lives |-> [m \in Pings |-> NotOpen]]
    /\ roster = {} /\ sweep = Asleep /\ nextSweep = 0
    /\ handler = [h \in Handlers |-> Free]
    /\ overtaken = {}
    /\ hosted = Zero /\ answered = Zero /\ voice = Zero /\ raises = Zero
    /\ events = 0 /\ failures = 0

Goto(h, pc) == handler' = [handler EXCEPT ![h].pc = pc]
Finish(h) == handler' = [handler EXCEPT ![h] = Free]
Add(points, u, n) == [points EXCEPT ![u] = @ + n]

(* A price is multiplied by a factor above one, if there is a stock: the    *)
(* floor never stalls a rise.                                               *)
Raise(u) == raises' = IF u \in HasStock THEN Add(raises, u, 1) ELSE raises

-----------------------------------------------------------------------------
(* Discord: time passes, members move.                                      *)

Tick ==
    /\ now < MaxTime
    /\ now' = now + 1
    /\ spent' = [u \in Members |-> spent[u] + (IF where[u] = Nowhere THEN 0 ELSE 1)]
    /\ UNCHANGED <<where, events, stores, sweeping, handler, overtaken, rows, failures>>

Occurs(h) == events < MaxEvents /\ events' = events + 1 /\ handler[h].pc = "free"

(* A switch that has left the old channel and not opened the new one. *)
StillLeaving(u) ==
    \E h \in Handlers : handler[h].user = u /\ handler[h].pc \in {"credit", "stay", "open"}

(* A join keeps the instant it was dispatched at; a leave and a message do  *)
(* not use theirs after an await.                                           *)
Event(u, to, pc) ==
    [Free EXCEPT !.pc = pc, !.user = u, !.to = to, !.life = life,
                 !.at = IF to = Nowhere THEN 0 ELSE now]

(* on_voice_state_update from no channel: the session is opened at once. *)
Join(h, u, c) ==
    /\ Occurs(h) /\ where[u] = Nowhere /\ c # Nowhere
    /\ where' = [where EXCEPT ![u] = c]
    /\ handler' = [handler EXCEPT ![h] = Event(u, c, "list")]
    /\ sessions' = [sessions EXCEPT ![life][u] = [channel |-> c, start |-> now]]
    /\ overtaken' = IF StillLeaving(u) THEN overtaken \cup {u} ELSE overtaken \ {u}
    /\ UNCHANGED <<now, spent, life, pings, sweeping, rows, failures>>

(* mutant of Popped: the session is only read *)
ReadOnly(u) == sessions

(* handle_voice_leave takes the session out before it credits the stay. *)
Popped(u) == [sessions EXCEPT ![life][u] = NoSession]

Moves(h, u, c) ==
    /\ Occurs(h) /\ where[u] \notin {Nowhere, c}
    /\ where' = [where EXCEPT ![u] = c]
    /\ overtaken' = IF StillLeaving(u) THEN overtaken \cup {u} ELSE overtaken \ {u}
    /\ UNCHANGED <<now, spent, life, pings, sweeping, rows, failures>>

(* on_voice_state_update from a channel, with the stay to credit first. *)
LeaveOrSwitch(h, u, c) ==
    /\ Moves(h, u, c)
    /\ sessions[life][u] # NoSession
    /\ handler' = [handler EXCEPT ![h] =
                      [Event(u, c, "credit") EXCEPT !.stay = now - sessions[life][u].start]]
    /\ sessions' = Popped(u)

(* The bot knows of no session, as after a restart: nothing is credited. *)
MoveUntracked(h, u, c) ==
    /\ Moves(h, u, c)
    /\ sessions[life][u] = NoSession
    /\ IF c = Nowhere THEN UNCHANGED <<handler, sessions>>
       ELSE /\ handler' = [handler EXCEPT ![h] = Event(u, c, "list")]
            /\ sessions' = [sessions EXCEPT ![life][u] = [channel |-> c, start |-> now]]

(* on_message of a member, with a ping role; record_message is awaited. *)
Message(h, u) ==
    /\ Occurs(h)
    /\ handler' = [handler EXCEPT ![h] = Event(u, Nowhere, "record")]
    /\ UNCHANGED <<now, where, spent, stores, sweeping, overtaken, rows, failures>>

-----------------------------------------------------------------------------
(* MessageListener, VoiceListener and the services they call.               *)

(* register_ping_message, if the author is in voice now; the store is the    *)
(* one of the guild at this point.                                          *)
Register(h, m, roles) ==
    LET u == handler[h].user
    IN /\ handler[h].pc = "record" /\ where[u] # Nowhere
       /\ \A k \in Lives : ~pings[k][m].open
       /\ pings' = [pings EXCEPT ![life][m] =
                      [NotOpen EXCEPT !.open = TRUE, !.host = u, !.channel = where[u],
                                      !.at = now, !.roles = roles]]
       /\ Goto(h, "opened")
       /\ UNCHANGED <<world, life, sessions, sweeping, overtaken, rows, failures>>

NotInVoice(h) ==
    /\ handler[h].pc = "record" /\ where[handler[h].user] = Nowhere
    /\ Finish(h)
    /\ UNCHANGED <<world, stores, sweeping, overtaken, rows, failures>>

(* The host is credited for the ping. *)
CreditPing(h) ==
    /\ handler[h].pc = "opened"
    /\ hosted' = Add(hosted, handler[h].user, 2)
    /\ Finish(h)
    /\ UNCHANGED <<world, stores, sweeping, overtaken, answered, voice, raises, failures>>

(* mutant of LongStay: minutes are compared with hours *)
AnyStay(stay) == stay > 0

LongStay(stay) == stay >= StayBonus

AfterLeaving(h) ==
    IF handler[h].to = Nowhere THEN Finish(h)
    ELSE handler' = [handler EXCEPT ![h].pc = "open", ![h].stay = 0]

(* handle_voice_leave: the minutes, and for a long stay its boost. *)
CreditStay(h) ==
    /\ handler[h].pc = "credit"
    /\ voice' = Add(voice, handler[h].user, handler[h].stay)
    /\ IF LongStay(handler[h].stay) THEN Goto(h, "stay") ELSE AfterLeaving(h)
    /\ UNCHANGED <<world, stores, sweeping, overtaken, hosted, answered, raises, failures>>

StayBoost(h) ==
    /\ handler[h].pc = "stay"
    /\ Raise(handler[h].user)
    /\ AfterLeaving(h)
    /\ UNCHANGED <<world, stores, sweeping, overtaken, hosted, answered, voice, failures>>

(* handle_voice_join after a switch. *)
Open(h) ==
    /\ handler[h].pc = "open"
    /\ sessions' = [sessions EXCEPT ![handler[h].life][handler[h].user] =
                       [channel |-> handler[h].to, start |-> now]]
    /\ Goto(h, "list")
    /\ UNCHANGED <<world, life, pings, sweeping, overtaken, rows, failures>>

Joiners(p) == p.first \cup p.extra

(* reward_voice_ping_response: the pings that the event is an answer to. *)
Answers(e, p) ==
    /\ p.open /\ p.channel = e.to
    /\ e.user # p.host /\ e.user \notin p.roles
    /\ p.at <= e.at /\ e.at <= p.at + Window
    /\ e.user \notin Joiners(p)

Answered(h) == {m \in Pings : Answers(handler[h], pings[handler[h].life][m])}

(* last_activity is saved, then the open pings are listed. *)
ListPings(h) ==
    /\ handler[h].pc = "list" /\ Answered(h) # {}
    /\ handler' = [handler EXCEPT ![h].todo = Answered(h), ![h].pc = "next"]
    /\ UNCHANGED <<world, stores, sweeping, overtaken, rows, failures>>

(* mutant of PlaceIn: the responder may have been placed meanwhile *)
PlaceAgain(p, u) ==
    IF Cardinality(p.first) < Cap THEN [p EXCEPT !.first = @ \cup {u}]
    ELSE [p EXCEPT !.extra = @ \cup {u}]

(* The placement of _reward_for_session: one of the first Cap, or an extra. *)
PlaceIn(p, u) ==
    IF u \in Joiners(p) THEN p
    ELSE IF Cardinality(p.first) < Cap THEN [p EXCEPT !.first = @ \cup {u}]
    ELSE [p EXCEPT !.extra = @ \cup {u}]

(* mutant of Place: the second of two racing events is rewarded again *)
PlaceOrRewardAgain(h, m) ==
    LET u == handler[h].user
        l == handler[h].life
        placed == PlaceIn(pings[l][m], u)
    IN /\ handler[h].pc = "next" /\ m \in handler[h].todo
       /\ pings' = [pings EXCEPT ![l][m] = placed]
       /\ handler' = [handler EXCEPT ![h].todo = @ \ {m}, ![h].ping = m,
                        ![h].pc = IF u \in placed.first THEN "boost" ELSE "answer"]
       /\ UNCHANGED <<world, life, sessions, sweeping, overtaken, rows, failures>>

(* The session is read again under the lock of the ping; a member whom      *)
(* another event has placed meanwhile gets nothing for this one.            *)
Place(h, m) ==
    LET u == handler[h].user
        l == handler[h].life
        placed == PlaceIn(pings[l][m], u)
    IN /\ handler[h].pc = "next" /\ m \in handler[h].todo
       /\ pings' = [pings EXCEPT ![l][m] = placed]
       /\ handler' = [handler EXCEPT ![h].todo = @ \ {m},
                        ![h].ping = IF u \in Joiners(pings[l][m]) THEN NoPing ELSE m,
                        ![h].pc = CASE u \in Joiners(pings[l][m]) -> "next"
                                    [] u \notin Joiners(pings[l][m]) /\ u \in placed.first -> "boost"
                                    [] OTHER -> "answer"]
       /\ UNCHANGED <<world, life, sessions, sweeping, overtaken, rows, failures>>

JoinBoost(h) ==
    /\ handler[h].pc = "boost"
    /\ Raise(handler[h].user)
    /\ Goto(h, "answer")
    /\ UNCHANGED <<world, stores, sweeping, overtaken, hosted, answered, voice, failures>>

(* _speed_multiplier *)
Speed(age) == CASE age <= FastWithin -> 3
                [] age > FastWithin /\ age <= MediumWithin -> 2
                [] OTHER -> 1

CurrentPing(h) == pings[handler[h].life][handler[h].ping]

CreditResponder(h) ==
    /\ handler[h].pc = "answer"
    /\ answered' = Add(answered, handler[h].user, Speed(handler[h].at - CurrentPing(h).at))
    /\ Goto(h, "host")
    /\ UNCHANGED <<world, stores, sweeping, overtaken, hosted, voice, raises, failures>>

CreditHost(h) ==
    /\ handler[h].pc = "host"
    /\ hosted' = Add(hosted, CurrentPing(h).host, 1)
    /\ handler' = [handler EXCEPT ![h].pc = "next", ![h].ping = NoPing]
    /\ UNCHANGED <<world, stores, sweeping, overtaken, answered, voice, raises, failures>>

ExtraPlaces(l) == {x \in Pings \X Members : x[2] \in pings[l][x[1]].extra}

(* The VcExtraBoost of an extra joiner. *)
Entry(l, x, at) ==
    [ping |-> x[1], life |-> l, user |-> x[2], last |-> at, end |-> pings[l][x[1]].at + Window]

(* mutant of ExtraBoosts: the first boost does not wait *)
BoostsAtOnce(l, at) == {Entry(l, x, at - Interval) : x \in ExtraPlaces(l)}

(* collect_extra_boosts: one for every extra joiner of every ping; pings    *)
(* are never evicted, as nothing calls cleanup_expired_pings.               *)
ExtraBoosts(l, at) == {Entry(l, x, at) : x \in ExtraPlaces(l)}

(* set_store_for_guild: the roster is replaced, with the time of the event. *)
SetRoster(h) ==
    /\ \/ handler[h].pc = "list" /\ Answered(h) = {}
       \/ handler[h].pc = "next" /\ handler[h].todo = {}
    /\ roster' = ExtraBoosts(handler[h].life, handler[h].at)
    /\ Finish(h)
    /\ UNCHANGED <<world, stores, sweep, nextSweep, overtaken, rows, failures>>

-----------------------------------------------------------------------------
(* VcBoostTask._run and PriceTickService.vc_boost_tick.  A run is taken to  *)
(* be shorter than the period of the loop.                                  *)

InVoice(l, u) == sessions[l][u] # NoSession

Due(run, b) == run.at < b.end /\ run.at >= b.last + Interval /\ InVoice(run.life, b.user)

(* mutant of Kept: the entry of a member who is not in voice is dropped *)
KeptInVoice(run, b) == run.at < b.end /\ run.at < b.last + Interval

(* An entry that is not boosted stays until its window is over. *)
Kept(run, b) == run.at < b.end

(* The loop up to its next await: entries that are not due take none, so    *)
(* the run comes to one that is, or to its end, where the survivors replace *)
(* whatever the roster is by now.                                           *)
GoOn(run) ==
    \E passed \in SUBSET {b \in run.todo : ~Due(run, b)} :
        LET survivors == run.survivors \cup {b \in passed : Kept(run, b)}
        IN \/ /\ passed = run.todo
              /\ roster' = survivors /\ sweep' = Asleep
           \/ \E b \in run.todo \ passed :
                 /\ Due(run, b)
                 /\ sweep' = [run EXCEPT !.pc = "looking", !.busy = {b},
                                !.todo = @ \ (passed \cup {b}), !.survivors = survivors]
                 /\ UNCHANGED roster

StartSweep ==
    /\ sweep.pc = "asleep" /\ now >= nextSweep
    /\ GoOn([Asleep EXCEPT !.at = now, !.life = life, !.current = roster, !.todo = roster])
    /\ nextSweep' = now + Period
    /\ UNCHANGED <<world, stores, handler, overtaken, rows, failures>>

(* In voice and due, with a stock: the price is raised. *)
ApplyBoost(b) ==
    /\ sweep.pc = "looking" /\ b \in sweep.busy /\ b.user \in HasStock
    /\ Raise(b.user)
    /\ sweep' = [sweep EXCEPT !.pc = "boosted", !.busy = {},
                              !.survivors = @ \cup {[b EXCEPT !.last = sweep.at]}]
    /\ UNCHANGED <<world, stores, roster, nextSweep, handler, overtaken,
                   hosted, answered, voice, failures>>

(* The entry was boosted, or has no stock and is dropped. *)
ContinueSweep ==
    /\ \/ sweep.pc = "boosted"
       \/ sweep.pc = "looking" /\ \A b \in sweep.busy : b.user \notin HasStock
    /\ GoOn([sweep EXCEPT !.busy = {}])
    /\ UNCHANGED <<world, stores, nextSweep, handler, overtaken, rows, failures>>

-----------------------------------------------------------------------------
(* Failures: an exception out of the database, where one is awaited.        *)

Fails(n) == failures < MaxFailures /\ failures' = failures + n

(* on_voice_state_update goes on with the new channel when a switch fails   *)
(* to leave the old one; any other event ends.                              *)
FailEvent(h) ==
    /\ Fails(1)
    /\ handler[h].pc \in {"credit", "stay", "list", "record", "opened", "boost", "answer", "host"}
    /\ IF handler[h].pc \in {"credit", "stay"} THEN AfterLeaving(h) ELSE Finish(h)
    /\ UNCHANGED <<world, stores, sweeping, overtaken, rows>>

(* _safe_run swallows it, the roster stays as it was: also when a price was *)
(* raised and its history point failed.                                     *)
FailSweep ==
    /\ Fails(1)
    /\ sweep.pc # "asleep"
    /\ sweep' = Asleep
    /\ UNCHANGED <<world, stores, roster, nextSweep, handler, overtaken, rows>>

NewLife == life < MaxLives /\ life' = life + 1 /\ UNCHANGED <<sessions, pings>>

(* While the bot is away a member may move. *)
MovesUnseen ==
    /\ \/ UNCHANGED where
       \/ \E x \in Unseen : where' = [where EXCEPT ![x[1]] = x[2]]
    /\ UNCHANGED <<now, spent, events>>

(* The process ends and starts again: nothing in memory is left. *)
Restart ==
    /\ Fails(Cardinality({h \in Handlers : handler[h].pc # "free"}))
    /\ NewLife /\ MovesUnseen
    /\ handler' = [h \in Handlers |-> Free]
    /\ roster' = {} /\ sweep' = Asleep /\ nextSweep' = 0
    /\ overtaken' = {}
    /\ UNCHANGED rows

(* on_guild_remove evicts both stores and leaves the roster; the bot is     *)
(* invited again.                                                           *)
GuildRemoved ==
    /\ Fails(1)
    /\ NewLife /\ MovesUnseen
    /\ UNCHANGED <<sweeping, handler, overtaken, rows>>

-----------------------------------------------------------------------------
Discord ==
    \/ Tick
    \/ \E h \in Handlers, x \in Itinerary :
          Join(h, x[1], x[2]) \/ LeaveOrSwitch(h, x[1], x[2]) \/ MoveUntracked(h, x[1], x[2])
    \/ \E h \in Handlers, u \in Hosts : Message(h, u)

HandlerStep(h) ==
    \/ \E m \in Pings, roles \in RoleSets : Register(h, m, roles)
    \/ NotInVoice(h) \/ CreditPing(h)
    \/ CreditStay(h) \/ StayBoost(h) \/ Open(h)
    \/ ListPings(h) \/ \E m \in Pings : Place(h, m)
    \/ JoinBoost(h) \/ CreditResponder(h) \/ CreditHost(h) \/ SetRoster(h)

SweepStep == ContinueSweep \/ \E b \in sweep.busy : ApplyBoost(b)

Fault == (\E h \in Handlers : FailEvent(h)) \/ FailSweep \/ Restart \/ GuildRemoved

Next == Discord \/ (\E h \in Handlers : HandlerStep(h)) \/ StartSweep \/ SweepStep \/ Fault

(* The event loop runs every task that can go on. *)
Spec == Init /\ [][Next]_vars /\ WF_vars(SweepStep)
             /\ \A h \in Handlers : WF_vars(HandlerStep(h))
=============================================================================
