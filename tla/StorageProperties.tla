--------------------------- MODULE StorageProperties ---------------------------
(***************************************************************************)
(* What the storage layer owes to the services, and the proof obligation   *)
(* that it implements AtomicStore.                                         *)
(***************************************************************************)
EXTENDS Storage

Keys == {<<table, of>> : table \in TableNames, of \in Owners}

(* Every variable has its type. *)
TypeOK ==
    /\ \A r \in db \cup pending : r.table \in TableNames /\ r.of \in Owners /\ r.val \in Nat
    /\ writer \in Clients \cup {Nobody} /\ (writer = Nobody => pending = {})
    /\ job \in [Clients -> Work \cup {Idle}]
    /\ stage \in [Clients -> {"idle", "reading", "writing"}]
    /\ \A c \in Clients : /\ DOMAIN seen[c] \subseteq Keys /\ whole[c] \subseteq Stored
                          /\ \A i \in DOMAIN calls[c] : calls[c][i].of \in Stored
    /\ corrupt \subseteq Corrupt /\ migrating \in BOOLEAN
    /\ started \in 0..MaxSections /\ failures \in 0..MaxFailures

(* A reader never finds an account, a bucket or a fund with part of its     *)
(* children: what is committed is the parent row and all the child rows of  *)
(* the same upsert, whatever failed or crashed in between.                  *)
AggregatesWhole ==
    \A u \in Owners : Whole(db, u, "users") /\ Whole(db, u, "activity_buckets")
                      /\ Whole(db, u, "hedge_funds")

(* No repository call runs into a key or a foreign key (the flush after     *)
(* merge, #82 H10): the statement a client is about to run is allowed.      *)
StatementsAllowed ==
    \A c \in Clients : calls[c] # <<>> /\ writer \in {c, Nobody} =>
        Allowed(RowsSeenBy(c), Statement(c))

(* What a section has read of the members it locks is still what is         *)
(* committed when it decides, so no row it writes builds on a stale version *)
(* of that row.  It says nothing of the rows read beside the locks: a       *)
(* captured net worth may value a position at a price that has moved.       *)
LockedReadsCurrent ==
    \A t \in Tasks : stage[t] = "reading" => \A key \in DOMAIN seen[t] :
        key[2] \in job[t].locks => seen[t][key] = Found(db, key[1], key[2])

(* What is read without a lock, by the snapshot and by the capture, may mix *)
(* states, but only in one direction: a row that is not committed is never  *)
(* found, and children are never older than their parent.                   *)
SnapshotsMixForward ==
    \A t \in Tasks : stage[t] = "reading" => \A key \in DOMAIN seen[t] :
        key[2] \notin job[t].locks =>
        /\ seen[t][key] <= Found(db, key[1], key[2])
        /\ key[1] \in ChildTables \ {"price_history"} =>
               seen[t][key] >= seen[t][<<Parent[key[1]], key[2]>>]

-----------------------------------------------------------------------------
(* When the migrator succeeds, after however many crashes, corrupt records  *)
(* and runs from the start, the database holds what the files hold: every   *)
(* record once, no point twice.                                             *)
MigrationComplete ==
    [][migrating /\ ~migrating' => \A x \in Stored : Version(db, x) = SourceVersion(x)]_vars

(* A point of a history, once committed, is never gone for a reader: a      *)
(* migration that is killed and run again leaves no gap (#82 H11).          *)
HistoryNeverLost ==
    [][\A u \in Owners : Found(db', "price_history", u) >= Found(db, "price_history", u)]_vars

(* The operator gets there: whatever was committed before a crash or a      *)
(* corrupt record, the next run does not trip over it.                      *)
MigrationSucceeds == <>~migrating

(* No transaction stays open: after a failure at any statement the database *)
(* is free for the next writer.                                             *)
DatabaseFreed == []<>(writer = Nobody)

-----------------------------------------------------------------------------
Singly(aggregates) == [i \in DOMAIN aggregates |-> {aggregates[i]}]
Members(s) == {s.sets[i] : i \in DOMAIN s.sets}

ListsOf(s) == IF s.uow THEN {<<x>> : x \in SUBSET Members(s)} ELSE {Singly(s.sets)}

StillToCommit(c) ==
    IF InUnitOfWork(c) THEN (IF whole[c] = {} THEN <<>> ELSE <<whole[c]>>)
    ELSE [i \in DOMAIN calls[c] |-> {calls[c][i].of}]

Atomic == INSTANCE AtomicStore WITH
    Aggregates <- Stored,
    TransactionLists <- UNION {ListsOf(s) : s \in Work},
    Migrated <- SourceVersion,
    MigrationList <- [i \in DOMAIN MigrationCalls |-> {MigrationCalls[i].of}],
    store <- [x \in Stored |-> Version(db, x)],
    left <- [c \in Clients |-> StillToCommit(c)]

(* A unit of work shows all its writes at once or none; any other section   *)
(* shows its calls one by one and in order, and every write builds on the   *)
(* value before it.                                                         *)
ImplementsAtomicStore == Atomic!AtomicStoreSpec
=============================================================================
