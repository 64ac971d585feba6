-------------------------------- MODULE Tables --------------------------------
(***************************************************************************)
(* The SQLite schema of the bot: its tables, their keys, and what a DML    *)
(* statement does to the rows with foreign keys switched on.  A database   *)
(* is a set of rows.                                                       *)
(*                                                                         *)
(* A row keeps its owner (the user, fund or member it is keyed by) and a   *)
(* value, here a version number, for all its other columns.  One row       *)
(* stands for all the rows an owner has in a child table, except in        *)
(* price_history, where every point is a row and the value is its id.      *)
(***************************************************************************)
EXTENDS Naturals, FiniteSets, FiniteSetsExt, Sequences

Parent ==
    [long_positions |-> "users", short_positions |-> "users",
     activity_buckets |-> "users", voice_unique_channels |-> "activity_buckets",
     price_history |-> "stocks", fund_investors |-> "hedge_funds"]

ChildTables == DOMAIN Parent
TableNames == ChildTables \cup
    {"users", "stocks", "hedge_funds", "fund_penalties", "trade_cooldowns"}

Row(table, of, val) == [table |-> table, of |-> of, val |-> val]
RowsIn(rows, table, of) == {r \in rows : r.table = table /\ r.of = of}

(* What a SELECT of an owner's rows finds: the number of points of a        *)
(* history, elsewhere the version, 0 for no row.                            *)
Found(rows, table, of) ==
    IF table = "price_history" THEN Cardinality(RowsIn(rows, table, of))
    ELSE IF RowsIn(rows, table, of) = {} THEN 0
    ELSE (CHOOSE r \in RowsIn(rows, table, of) : TRUE).val

-----------------------------------------------------------------------------
HasParent(rows, r) ==
    r.table \in ChildTables => RowsIn(rows, Parent[r.table], r.of) # {}

SameKey(r, s) ==
    r.table = s.table /\ r.of = s.of /\ (r.table = "price_history" => r.val = s.val)

(* No IntegrityError: the keys are free, and every parent is stored or is   *)
(* inserted by the same flush, which SQLAlchemy puts in order.              *)
Insertable(rows, new) ==
    \A r \in new : /\ \A s \in rows : ~SameKey(r, s)
                   /\ HasParent(rows \cup new, r)

Orphans(rows, gone) ==
    {r \in rows : r.table \in ChildTables /\
        \E p \in gone : p.table = Parent[r.table] /\ p.of = r.of}

(* DELETE, with ON DELETE CASCADE through both levels of children *)
Without(rows, table, of) ==
    LET gone == RowsIn(rows, table, of)
        children == Orphans(rows, gone)
    IN rows \ (gone \cup children \cup Orphans(rows, children))

-----------------------------------------------------------------------------
(* Statements, as the repositories issue them *)
Merge(table, of, val) == [do |-> "merge", tables |-> {table}, of |-> of, val |-> val]
DeleteFrom(table, of) == [do |-> "delete", tables |-> {table}, of |-> of, val |-> 0]
AddAll(tables, of, val) == [do |-> "add", tables |-> tables, of |-> of, val |-> val]
AddPoints(of, n) == [do |-> "points", tables |-> {"price_history"}, of |-> of, val |-> n]
(* the end of a repository call: its own session commits *)
EndCall == [do |-> "end", tables |-> {}, of |-> "", val |-> 0]

NextId(rows) ==
    Max({0} \cup {r.val : r \in {s \in rows : s.table = "price_history"}}) + 1

NewRows(rows, s) ==
    IF s.do = "points"
    THEN {Row("price_history", s.of, NextId(rows) + i) : i \in 0..s.val - 1}
    ELSE {Row(table, s.of, s.val) : table \in s.tables}

Allowed(rows, s) ==
    CASE s.do \in {"add", "points"} -> Insertable(rows, NewRows(rows, s))
      [] s.do = "merge" -> \A r \in NewRows(rows, s) : HasParent(rows, r)
      [] OTHER -> TRUE

(* merge updates the row in place, so its children stay. *)
Effect(rows, s) ==
    CASE s.do \in {"add", "points"} -> rows \cup NewRows(rows, s)
      [] s.do = "merge" -> {r \in rows : r.table \notin s.tables \/ r.of # s.of}
                               \cup NewRows(rows, s)
      [] s.do = "delete" -> Without(rows, CHOOSE t \in s.tables : TRUE, s.of)
      [] OTHER -> rows
=============================================================================
