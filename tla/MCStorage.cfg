CONSTANTS
    m1 = m1
    m2 = m2
    Owners <- MCOwners
    Tasks = {t1, t2}
    Work <- MCWork
    UsersFile <- MCUsersFile
    PricesFile <- MCPricesFile
    FundsFile <- MCFundsFile
    PenaltiesFile <- MCPenaltiesFile
    Corrupt <- MCCorrupt
    NumPoints = 2
    MaxSections = 2
    MaxFailures = 2
SPECIFICATION Spec
INVARIANTS TypeOK AggregatesWhole StatementsAllowed LockedReadsCurrent SnapshotsMixForward
PROPERTIES MigrationComplete HistoryNeverLost MigrationSucceeds DatabaseFreed ImplementsAtomicStore
CHECK_DEADLOCK FALSE
