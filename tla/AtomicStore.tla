------------------------------ MODULE AtomicStore ------------------------------
(***************************************************************************)
(* What storage promises to the services: every aggregate is a value that  *)
(* changes as a whole.  A section has a list of transactions to make, each *)
(* of a set of aggregates; it makes them in order, all of a set at once,   *)
(* and may give up before any of them.  A unit of work is a list of one.   *)
(* A value is the number of times it was written, so that a write that     *)
(* builds on a stale read is no step of this specification.                *)
(***************************************************************************)
EXTENDS Naturals, Sequences

CONSTANTS
    Clients,                \* the tasks and the migrator
    Aggregates,
    TransactionLists,       \* what a section may have to write
    Migrated(_),            \* the value of an aggregate in the JSON files
    MigrationList

VARIABLES
    store,      \* aggregate -> its value, 0 when it is not stored
    left,       \* client -> transactions it still has to make
    migrating   \* whether the migration is still to be done

avars == <<store, left, migrating>>

Init ==
    /\ store = [x \in Aggregates |-> 0]
    /\ left = [c \in Clients |-> <<>>]
    /\ migrating = TRUE

Begin(c, list) ==
    /\ left[c] = <<>>
    /\ left' = [left EXCEPT ![c] = list]
    /\ UNCHANGED <<store, migrating>>

Commit(c) ==
    /\ left[c] # <<>>
    /\ store' = [x \in Aggregates |->
                    IF x \notin Head(left[c]) THEN store[x]
                    ELSE IF migrating THEN Migrated(x) ELSE store[x] + 1]
    /\ left' = [left EXCEPT ![c] = Tail(@)]
    /\ UNCHANGED migrating

GiveUp(c) == left[c] # <<>> /\ left' = [left EXCEPT ![c] = <<>>] /\ UNCHANGED <<store, migrating>>

(* A crash ends every section. *)
GiveUpAll == left' = [c \in Clients |-> <<>>] /\ UNCHANGED <<store, migrating>>

Migrate(c) == migrating /\ Begin(c, MigrationList)

(* The bot starts when everything of the files is stored. *)
MigrateDone ==
    /\ migrating /\ \A c \in Clients : left[c] = <<>>
    /\ \A x \in Aggregates : store[x] = Migrated(x)
    /\ migrating' = FALSE
    /\ UNCHANGED <<store, left>>

Next ==
    \/ \E c \in Clients : \/ Commit(c) \/ GiveUp(c) \/ Migrate(c)
                          \/ \E list \in TransactionLists : ~migrating /\ Begin(c, list)
    \/ GiveUpAll \/ MigrateDone

AtomicStoreSpec == Init /\ [][Next]_avars
=============================================================================
