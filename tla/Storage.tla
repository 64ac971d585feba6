-------------------------------- MODULE Storage --------------------------------
(***************************************************************************)
(* The bot's storage at work: first the migration of the old JSON files,   *)
(* run until it succeeds, then the sections of the services.  A step is    *)
(* one statement.  Every call of a repository has a session of its own     *)
(* that commits when the call ends; inside a unit of work all calls share  *)
(* the session that SqlUnitOfWork put into the ContextVar of the task, and *)
(* its block commits once, or rolls back on any exception.                 *)
(*                                                                         *)
(* SQLite (external): one writer at a time, from its first DML statement   *)
(* to its commit; readers see what is committed, one SELECT at a time, as  *)
(* the driver begins a transaction only before DML.  The id locks are      *)
(* those of LockManager, taken before the session is opened.               *)
(***************************************************************************)
EXTENDS Migration, Sections

CONSTANTS
    Tasks,          \* tasks of the bot
    Work,           \* the sections they may be asked to run
    Owners,         \* members and the events wallet
    MaxSections,    \* how many sections are started
    MaxFailures     \* exceptions, cancellations and crashes

ASSUME BoundsAssumption == MaxSections \in Nat /\ MaxFailures \in Nat

Nobody == "nobody"
Migrator == "migrator"
Clients == Tasks \cup {Migrator}

ASSUME TasksAssumption == Nobody \notin Tasks /\ Migrator \notin Tasks
ASSUME WorkAssumption == EventsWallet \in Owners /\ Work \subseteq ServiceSections(Owners)
ASSUME FilesAssumption ==
    \A file \in {UsersFile, PricesFile, FundsFile, PenaltiesFile} : file \in Seq(Owners)

Idle == Section({}, FALSE, <<>>, {}, <<>>, {{}})

VARIABLES
    db,         \* committed rows
    pending,    \* the rows as the open transaction sees them, {} without one
    writer,     \* the client that has written and not committed
    job,        \* client -> the section it is in
    stage,      \* client -> "idle", "reading", "writing"
    selects,    \* client -> SELECTs still to run
    seen,       \* client -> what its SELECTs found: <<table, owner>> -> value
    calls,      \* client -> repository calls still to make
    whole,      \* client -> the aggregates its section decided to write
    corrupt,    \* records that cannot be parsed yet
    migrating,  \* the migration has not succeeded yet
    started, failures

taskVars == <<job, stage, selects, seen, calls, whole>>
vars == <<db, pending, writer, taskVars, corrupt, migrating, started, failures>>

Init ==
    /\ db = {} /\ pending = {} /\ writer = Nobody
    /\ job = [c \in Clients |-> Idle]
    /\ stage = [c \in Clients |-> "idle"]
    /\ selects = [c \in Clients |-> <<>>]
    /\ seen = [c \in Clients |-> <<>>]
    /\ calls = [c \in Clients |-> <<>>]
    /\ whole = [c \in Clients |-> {}]
    /\ corrupt = Corrupt /\ migrating = TRUE
    /\ started = 0 /\ failures = 0

(* mutant of InUnitOfWork: the repositories do not look for a session *)
NoSharedSession(c) == FALSE

(* current_session() finds a session. *)
InUnitOfWork(c) == job[c].uow

(* mutant of RowsSeenBy: all sessions are on one connection *)
RowsOnOneConnection(c) == IF writer = Nobody THEN db ELSE pending

RowsSeenBy(c) == IF writer = c THEN pending ELSE db

(* What repository calls write *)
Stored == {"user", "fund", "stock", "history", "penalty", "cooldown"} \X Owners

-----------------------------------------------------------------------------
(* mutant of Start: the ids are not locked *)
StartUnlocked(t, s) ==
    /\ ~migrating /\ started < MaxSections
    /\ stage[t] = "idle"
    /\ job' = [job EXCEPT ![t] = s]
    /\ stage' = [stage EXCEPT ![t] = "reading"]
    /\ selects' = [selects EXCEPT ![t] = FlattenSeq([i \in DOMAIN s.gets |-> Get(s.gets[i])])]
    /\ started' = started + 1
    /\ UNCHANGED <<db, pending, writer, seen, calls, whole, corrupt, migrating, failures>>

(* locked() let the section in; a unit of work begins, which is no DML. *)
Start(t, s) ==
    /\ ~migrating /\ started < MaxSections
    /\ stage[t] = "idle"
    /\ \A u \in Tasks : job[u].locks \cap s.locks = {}
    /\ job' = [job EXCEPT ![t] = s]
    /\ stage' = [stage EXCEPT ![t] = "reading"]
    /\ selects' = [selects EXCEPT ![t] = FlattenSeq([i \in DOMAIN s.gets |-> Get(s.gets[i])])]
    /\ started' = started + 1
    /\ UNCHANGED <<db, pending, writer, seen, calls, whole, corrupt, migrating, failures>>

(* One SELECT of a get.  When the parent row was not found, get returns     *)
(* None and its children are not looked up.                                 *)
Select(t) ==
    /\ stage[t] = "reading" /\ selects[t] # <<>>
    /\ LET target == Head(selects[t])
           table == target[1]
           orphan == table \in ChildTables /\ seen[t][<<Parent[table], target[2]>>] = 0
           value == IF orphan THEN 0 ELSE Found(RowsSeenBy(t), table, target[2])
       IN seen' = [seen EXCEPT ![t] = [key \in DOMAIN seen[t] \cup {target} |->
                                          IF key = target THEN value ELSE seen[t][key]]]
    /\ selects' = [selects EXCEPT ![t] = Tail(@)]
    /\ UNCHANGED <<db, pending, writer, job, stage, calls, whole, corrupt, migrating,
                   started, failures>>

LeaveSection(t) ==
    /\ job' = [job EXCEPT ![t] = Idle]
    /\ stage' = [stage EXCEPT ![t] = "idle"]
    /\ selects' = [selects EXCEPT ![t] = <<>>]
    /\ seen' = [seen EXCEPT ![t] = <<>>]
    /\ calls' = [calls EXCEPT ![t] = <<>>]
    /\ whole' = [whole EXCEPT ![t] = {}]

SeenVersion(t, aggregate) ==
    LET key == <<MainTable(aggregate), aggregate[2]>>
    IN IF key \in DOMAIN seen[t] THEN seen[t][key] ELSE Version(db, aggregate)

(* The elements of s that are in S, in their order *)
Only(s, S) ==
    LET kept[i \in 0..Len(s)] ==
            IF i = 0 THEN <<>>
            ELSE IF s[i] \in S THEN Append(kept[i - 1], s[i]) ELSE kept[i - 1]
    IN kept[Len(s)]

(* A member or stock met for the first time *)
New(t, aggregate) == aggregate[1] \in {"user", "stock"} /\ SeenVersion(t, aggregate) = 0

(* What the section writes, when `unchanged` stays as it is *)
Writes(t, unchanged) ==
    Only(job[t].sets, {x \in Stored : New(t, x) \/ x \notin unchanged})

(* The section has read what it needs and decides what to write: values     *)
(* built on the ones it read.                                               *)
Decide(t) ==
    /\ stage[t] = "reading" /\ selects[t] = <<>>
    /\ \A x \in job[t].needs : SeenVersion(t, x) > 0
    /\ \E unchanged \in job[t].spare :
         LET writes == Writes(t, unchanged)
         IN /\ calls' = [calls EXCEPT ![t] = [i \in DOMAIN writes |->
                            Call(writes[i], Upsert(writes[i], SeenVersion(t, writes[i]) + 1))]]
            /\ whole' = [whole EXCEPT ![t] = {writes[i] : i \in DOMAIN writes}]
    /\ stage' = [stage EXCEPT ![t] = "writing"]
    /\ UNCHANGED <<db, pending, writer, job, selects, seen, corrupt, migrating, started,
                   failures>>

(* A check of the service fails: the section is left with nothing written. *)
Refuse(t) ==
    /\ stage[t] = "reading" /\ selects[t] = <<>>
    /\ LeaveSection(t)
    /\ UNCHANGED <<db, pending, writer, corrupt, migrating, started, failures>>

-----------------------------------------------------------------------------
Statement(c) == Head(Head(calls[c]).stmts)
IsDml(s) == s.do \notin {"end", "parse"}

(* The rest of the calls after the statement at their head *)
Rest(cs) ==
    IF Len(Head(cs).stmts) = 1 THEN Tail(cs)
    ELSE <<[Head(cs) EXCEPT !.stmts = Tail(@)]>> \o Tail(cs)

(* One DML statement; another writer has to be waited for. *)
Write(c) ==
    /\ calls[c] # <<>> /\ IsDml(Statement(c))
    /\ writer \in {c, Nobody}
    /\ Allowed(RowsSeenBy(c), Statement(c))
    /\ pending' = Effect(RowsSeenBy(c), Statement(c))
    /\ writer' = c
    /\ calls' = [calls EXCEPT ![c] = Rest(@)]
    /\ UNCHANGED <<db, job, stage, selects, seen, whole, corrupt, migrating, started, failures>>

(* mutant of CloseTransaction: what was not committed is kept *)
CloseKeepingRows(c) ==
    writer' = (IF writer = c THEN Nobody ELSE writer) /\ UNCHANGED pending

CloseTransaction(c) ==
    /\ writer' = IF writer = c THEN Nobody ELSE writer
    /\ pending' = IF writer = c THEN {} ELSE pending

CommitTransaction(c) == db' = RowsSeenBy(c) /\ CloseTransaction(c)

(* mutant of EndOfCall: flush is taken for commit *)
EndOfCallUncommitted(c) ==
    /\ calls[c] # <<>> /\ Statement(c) = EndCall
    /\ calls' = [calls EXCEPT ![c] = Rest(@)]
    /\ UNCHANGED <<db, pending, writer, job, stage, selects, seen, whole, corrupt, migrating,
                   started, failures>>

(* The call returns: its own session commits, a shared one only flushed. *)
EndOfCall(c) ==
    /\ calls[c] # <<>> /\ Statement(c) = EndCall
    /\ IF InUnitOfWork(c) THEN UNCHANGED <<db, pending, writer>> ELSE CommitTransaction(c)
    /\ calls' = [calls EXCEPT ![c] = Rest(@)]
    /\ UNCHANGED <<job, stage, selects, seen, whole, corrupt, migrating, started, failures>>

(* The last call was made: the unit of work commits, the locks are released.*)
Finish(t) ==
    /\ stage[t] = "writing" /\ calls[t] = <<>> /\ t # Migrator
    /\ IF InUnitOfWork(t) THEN CommitTransaction(t) ELSE UNCHANGED <<db, pending, writer>>
    /\ LeaveSection(t)
    /\ UNCHANGED <<corrupt, migrating, started, failures>>

-----------------------------------------------------------------------------
(* The session is closed without a commit. *)
RollBack(c) == UNCHANGED db /\ CloseTransaction(c)

(* An exception or a cancellation at any await of the section. *)
Fail(c) ==
    /\ stage[c] # "idle" /\ failures < MaxFailures
    /\ RollBack(c)
    /\ LeaveSection(c)
    /\ failures' = failures + 1
    /\ UNCHANGED <<corrupt, migrating, started>>

(* A statement raises: "database is locked" when the other writer kept it   *)
(* waiting for too long, IntegrityError when a key stands against it.       *)
DatabaseError(c) ==
    /\ calls[c] # <<>> /\ IsDml(Statement(c))
    /\ writer \in {c, Nobody} => ~Allowed(RowsSeenBy(c), Statement(c))
    /\ RollBack(c)
    /\ LeaveSection(c)
    /\ UNCHANGED <<corrupt, migrating, started, failures>>

(* The process stops: SQLite keeps what was committed. *)
Crash ==
    /\ failures < MaxFailures
    /\ writer' = Nobody /\ pending' = {}
    /\ job' = [c \in Clients |-> Idle]
    /\ stage' = [c \in Clients |-> "idle"]
    /\ selects' = [c \in Clients |-> <<>>]
    /\ seen' = [c \in Clients |-> <<>>]
    /\ calls' = [c \in Clients |-> <<>>]
    /\ whole' = [c \in Clients |-> {}]
    /\ failures' = failures + 1
    /\ UNCHANGED <<db, corrupt, migrating, started>>

-----------------------------------------------------------------------------
(* The operator runs the migrator, from the first record. *)
StartMigration ==
    /\ migrating /\ stage[Migrator] = "idle"
    /\ stage' = [stage EXCEPT ![Migrator] = "writing"]
    /\ calls' = [calls EXCEPT ![Migrator] = MigrationCalls]
    /\ UNCHANGED <<db, pending, writer, job, selects, seen, whole, corrupt, migrating, started,
                   failures>>

Record(s) == <<CHOOSE file \in s.tables : TRUE, s.of>>

(* _build_... : a record maps to domain objects, or the run ends. *)
ParseRecord ==
    /\ calls[Migrator] # <<>> /\ Statement(Migrator).do = "parse"
    /\ IF Record(Statement(Migrator)) \in corrupt
       THEN LeaveSection(Migrator)
       ELSE /\ calls' = [calls EXCEPT ![Migrator] = Rest(@)]
            /\ UNCHANGED <<job, stage, selects, seen, whole>>
    /\ UNCHANGED <<db, pending, writer, corrupt, migrating, started, failures>>

(* The operator mends a record between two runs. *)
Repair ==
    /\ stage[Migrator] = "idle"
    /\ \E r \in corrupt : corrupt' = corrupt \ {r}
    /\ UNCHANGED <<db, pending, writer, taskVars, migrating, started, failures>>

MigrationDone ==
    /\ migrating /\ stage[Migrator] = "writing" /\ calls[Migrator] = <<>>
    /\ migrating' = FALSE
    /\ LeaveSection(Migrator)
    /\ UNCHANGED <<db, pending, writer, corrupt, started, failures>>

-----------------------------------------------------------------------------
Step(t) == Select(t) \/ Decide(t) \/ Refuse(t) \/ Write(t) \/ EndOfCall(t) \/ Finish(t)
Migrate == StartMigration \/ ParseRecord \/ Repair \/ MigrationDone
           \/ Write(Migrator) \/ EndOfCall(Migrator)

Next ==
    \/ Migrate \/ Crash
    \/ \E c \in Clients : DatabaseError(c) \/ Fail(c)
    \/ \E t \in Tasks : Step(t) \/ \E s \in Work : Start(t, s)

(* The event loop runs what can run, and a wait for the database ends.      *)
(* The operator runs the migrator until it succeeds, and does not run it    *)
(* for ever without mending a record that it named.                         *)
Spec ==
    /\ Init /\ [][Next]_vars
    /\ WF_vars(Migrate \/ DatabaseError(Migrator)) /\ SF_vars(Repair)
    /\ \A t \in Tasks : WF_vars(Step(t) \/ DatabaseError(t))
=============================================================================
