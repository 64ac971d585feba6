----------------------------- MODULE Repositories -----------------------------
(***************************************************************************)
(* The SQL repositories: every write as the sequence of statements it      *)
(* issues, every read as the sequence of its SELECTs.  upsert replaces a   *)
(* whole aggregate: the scalar row is merged, all children are deleted and *)
(* inserted again from the domain object.                                  *)
(*                                                                         *)
(* An aggregate is <<kind, owner>>; a stock and its history are two, as    *)
(* they have a write of their own each.                                    *)
(***************************************************************************)
EXTENDS Tables

UserChildren ==
    {"long_positions", "short_positions", "activity_buckets", "voice_unique_channels"}

(* mutant of DeleteChildren: the shorts stay and are inserted once more *)
DeleteSomeChildren(u) ==
    <<DeleteFrom("voice_unique_channels", u), DeleteFrom("activity_buckets", u),
      DeleteFrom("long_positions", u)>>

DeleteChildren(u) ==
    <<DeleteFrom("voice_unique_channels", u), DeleteFrom("activity_buckets", u),
      DeleteFrom("long_positions", u), DeleteFrom("short_positions", u)>>

(* mutant of UserUpsert: the wipe is a call of its own *)
UserUpsertInTwo(u, val) ==
    <<Merge("users", u, val)>> \o DeleteChildren(u) \o
    <<EndCall, AddAll(UserChildren, u, val), EndCall>>

UserUpsert(u, val) ==
    <<Merge("users", u, val)>> \o DeleteChildren(u) \o
    <<AddAll(UserChildren, u, val), EndCall>>

FundUpsert(f, val) ==
    <<Merge("hedge_funds", f, val), DeleteFrom("fund_investors", f),
      AddAll({"fund_investors"}, f, val), EndCall>>

StockUpsert(u, val) == <<Merge("stocks", u, val), EndCall>>
AppendHistory(u) == <<AddPoints(u, 1), EndCall>>
PenaltyUpsert(u, val) == <<Merge("fund_penalties", u, val), EndCall>>
CooldownUpsert(u, val) == <<Merge("trade_cooldowns", u, val), EndCall>>

Upsert(aggregate, val) ==
    LET kind == aggregate[1]  of == aggregate[2]
    IN CASE kind = "user" -> UserUpsert(of, val)
         [] kind = "fund" -> FundUpsert(of, val)
         [] kind = "stock" -> StockUpsert(of, val)
         [] kind = "history" -> AppendHistory(of)
         [] kind = "penalty" -> PenaltyUpsert(of, val)
         [] kind = "cooldown" -> CooldownUpsert(of, val)

-----------------------------------------------------------------------------
(* The SELECTs of a get, parent first; the activity buckets' channels last *)
GetTables ==
    [user |-> <<"users", "long_positions", "short_positions",
                "activity_buckets", "voice_unique_channels">>,
     fund |-> <<"hedge_funds", "fund_investors">>,
     stock |-> <<"stocks", "price_history">>,
     penalty |-> <<"fund_penalties">>, cooldown |-> <<"trade_cooldowns">>]

Get(aggregate) ==
    LET tables == GetTables[aggregate[1]]
    IN [i \in DOMAIN tables |-> <<tables[i], aggregate[2]>>]

(* The table that holds the version of an aggregate *)
MainTable(aggregate) ==
    IF aggregate[1] = "history" THEN "price_history" ELSE GetTables[aggregate[1]][1]

Version(rows, aggregate) == Found(rows, MainTable(aggregate), aggregate[2])

Whole(rows, u, table) ==
    \A child \in {c \in ChildTables : Parent[c] = table /\ c # "price_history"} :
        Found(rows, child, u) = Found(rows, table, u)
=============================================================================
