---------------------------- MODULE VoiceProperties ----------------------------
EXTENDS Voice

Ping == [open : BOOLEAN, host : Members \cup {Nobody}, channel : Places, at : Nat,
         roles : SUBSET Members, first : SUBSET Members, extra : SUBSET Members]
Session == [channel : Places, start : Nat]
Handling == [pc : {"free", "record", "opened", "credit", "stay", "open", "list", "next",
                 "boost", "answer", "host"},
           user : Members \cup {Nobody}, to : Places, at : Nat, stay : Nat,
           todo : SUBSET Pings, ping : Pings \cup {NoPing}, life : Lives]
Boost == [ping : Pings, life : Lives, user : Members, last : Nat, end : Nat]
Sweep == [pc : {"asleep", "looking", "boosted"}, at : Nat, life : Lives,
          current : SUBSET Boost, todo : SUBSET Boost, busy : SUBSET Boost,
          survivors : SUBSET Boost]

(* Every variable has its type; points, minutes and prices only grow from   *)
(* zero, and no stay of _do_leave is negative.                              *)
TypeOK ==
    /\ now \in Nat /\ where \in [Members -> Places] /\ spent \in [Members -> Nat]
    /\ life \in Lives
    /\ sessions \in [Lives -> [Members -> Session]]
    /\ pings \in [Lives -> [Pings -> Ping]]
    /\ roster \subseteq Boost /\ sweep \in Sweep /\ nextSweep \in Nat
    /\ handler \in [Handlers -> Handling]
    /\ overtaken \subseteq Members
    /\ \A points \in {hosted, answered, voice, raises} : points \in [Members -> Nat]
    /\ events \in Nat /\ failures \in Nat

-----------------------------------------------------------------------------
AllPings == Lives \X Pings
PingOf(x) == pings[x[1]][x[2]]

(* The places of one ping are given out fairly, however its responders race *)
(* (_reward_for_session): never more than Cap first ones, an extra only     *)
(* when those are gone, nobody twice, and never the host or a member who    *)
(* had the role when the ping was sent.                                     *)
PlacesFair ==
    \A x \in AllPings :
        LET p == PingOf(x) IN
        /\ Cardinality(p.first) <= Cap
        /\ p.extra # {} => Cardinality(p.first) = Cap
        /\ p.first \cap p.extra = {}
        /\ Joiners(p) \cap (p.roles \cup {p.host}) = {}

-----------------------------------------------------------------------------
PlacesOf(u) == {x \in AllPings : u \in Joiners(PingOf(x))}
PingsOf(u) == {x \in AllPings : PingOf(x).host = u}
AnswersTo(u) == {y \in AllPings \X Members : y[1] \in PingsOf(u) /\ y[2] \in Joiners(PingOf(y[1]))}

(* What the handlers at work still have to credit. *)
At(h, pcs) == handler[h].pc \in pcs
ToOpen(u) == {h \in Handlers : At(h, {"opened"}) /\ handler[h].user = u}
ToAnswer(u) == {h \in Handlers : At(h, {"boost", "answer"}) /\ handler[h].user = u}
ToHost(u) == {h \in Handlers : At(h, {"boost", "answer", "host"}) /\ CurrentPing(h).host = u}

(* Every ping and every place is credited once to its host and once to its  *)
(* responder, or is about to be: racing events pay nothing twice, and what  *)
(* is missing was lost to failures, one reward to each (the placement is    *)
(* recorded before the credits and is not undone).                          *)
RewardsAccounted ==
    \A u \in Members :
        LET dueHost == 2 * Cardinality(PingsOf(u)) + Cardinality(AnswersTo(u))
            paidHost == hosted[u] + 2 * Cardinality(ToOpen(u)) + Cardinality(ToHost(u))
            places == Cardinality(PlacesOf(u))
            toAnswer == Cardinality(ToAnswer(u))
        IN /\ paidHost <= dueHost /\ dueHost <= paidHost + 2 * failures
           /\ answered[u] + 3 * toAnswer <= 3 * places
           /\ places <= answered[u] + toAnswer + failures

(* Nobody is credited with more voice time than was spent in voice, though  *)
(* joins, switches and leaves of one member overlap, fail and go unseen.    *)
VoiceTimeEarned ==
    \A u \in Members :
        LET leaving == {h \in Handlers : At(h, {"credit"}) /\ handler[h].user = u}
        IN /\ voice[u] <= spent[u]
           /\ \A h \in leaving : voice[u] + handler[h].stay <= spent[u]

(* A price is raised at most once for every first place, every StayBonus of *)
(* credited voice time, and every Period of the windows in which the member *)
(* has an extra place: whatever the configured Interval is, and though a    *)
(* run that has raised a price and then fails records no boost, no two runs *)
(* raise it for one place within a Period.                                  *)
RaisesEarned ==
    \A u \in Members :
        LET firsts == {x \in AllPings : u \in PingOf(x).first}
            extras == PlacesOf(u) \ firsts
        IN raises[u] <= Cardinality(firsts) + voice[u] \div StayBonus
                        + Cardinality(extras) * ((Window + Period - 1) \div Period)

(* The session store says who is in voice: a session means that the member  *)
(* is in that channel, through failures, restarts and unseen moves.  Only   *)
(* an event that comes while a switch of the member is still crediting the  *)
(* old channel can leave a wrong session behind (the switch then opens one  *)
(* for a member who has left), and the next event puts it right.            *)
SessionsFollowVoice ==
    \A u \in Members \ overtaken :
        sessions[life][u].channel \in {Nowhere, where[u]}

-----------------------------------------------------------------------------
Has(boosts, b) == \E c \in boosts : c.ping = b.ping /\ c.life = b.life /\ c.user = b.user

(* An extra responder is forgotten by the roster only by a restart, by a    *)
(* listener of a new life, or by a run of VcBoostTask that found the window *)
(* over or no stock, or that began before the responder was on the roster.  *)
RosterForgets(b) ==
    \/ life' # life /\ roster' = {}
    \/ \E h \in Handlers : At(h, {"list", "next"}) /\ handler[h].life # b.life /\ handler'[h] = Free
    \/ \/ sweep.pc # "asleep" /\ sweep' = Asleep /\ ~Has(sweep.current, b)
       \/ (sweep' = Asleep /\ (b.user \notin HasStock \/ now >= b.end))

RosterKeeps == [][\A b \in roster : Has(roster', b) \/ RosterForgets(b)]_vars
=============================================================================
