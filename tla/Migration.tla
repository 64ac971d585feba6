------------------------------- MODULE Migration -------------------------------
(***************************************************************************)
(* migrate_json_to_sqlite: the four JSON files of the old bot are read in  *)
(* a fixed order, and every record is parsed and then written by a         *)
(* repository call that commits on its own.  A corrupt record ends the     *)
(* run with MigrationError; the operator mends it and runs it again from   *)
(* the start.  The history of a stock is deleted and written anew in one   *)
(* transaction, as its rows have no key to merge on.                       *)
(***************************************************************************)
EXTENDS Repositories, SequencesExt

CONSTANTS
    UsersFile, PricesFile, FundsFile, PenaltiesFile,  \* the ids of their records
    NumPoints,          \* points in the history of a record of prices.json
    Corrupt             \* the records <<file, id>> that cannot be parsed

ASSUME SourceAssumption == NumPoints \in Nat \ {0}

Parse(file, id) == [do |-> "parse", tables |-> {file}, of |-> id, val |-> 0]

(* mutant of RewriteHistory: as before #82 H11, the wipe commits alone *)
RewriteHistoryInTwo(u) ==
    <<DeleteFrom("price_history", u), EndCall, AddPoints(u, NumPoints), EndCall>>

(* mutant of RewriteHistory: the points are appended to what is there *)
AppendPoints(u) == <<AddPoints(u, NumPoints), EndCall>>

RewriteHistory(u) ==
    <<DeleteFrom("price_history", u), AddPoints(u, NumPoints), EndCall>>

Call(aggregate, stmts) == [of |-> aggregate, stmts |-> stmts]

MigrateUser(u) == <<Call(<<"user", u>>, <<Parse("users", u)>> \o UserUpsert(u, 1))>>
MigratePrice(u) ==
    <<Call(<<"stock", u>>, <<Parse("prices", u)>> \o StockUpsert(u, 1)),
      Call(<<"history", u>>, RewriteHistory(u))>>
MigrateFund(f) == <<Call(<<"fund", f>>, <<Parse("funds", f)>> \o FundUpsert(f, 1))>>
MigratePenalty(u) ==
    <<Call(<<"penalty", u>>, <<Parse("penalties", u)>> \o PenaltyUpsert(u, 1))>>

MigrationCalls ==
    FlattenSeq([i \in DOMAIN UsersFile |-> MigrateUser(UsersFile[i])]) \o
    FlattenSeq([i \in DOMAIN PricesFile |-> MigratePrice(PricesFile[i])]) \o
    FlattenSeq([i \in DOMAIN FundsFile |-> MigrateFund(FundsFile[i])]) \o
    FlattenSeq([i \in DOMAIN PenaltiesFile |-> MigratePenalty(PenaltiesFile[i])])

SourceAggregates == {MigrationCalls[i].of : i \in DOMAIN MigrationCalls}

(* What the files say of an aggregate *)
SourceVersion(aggregate) ==
    IF aggregate \notin SourceAggregates THEN 0
    ELSE IF aggregate[1] = "history" THEN NumPoints ELSE 1
=============================================================================
