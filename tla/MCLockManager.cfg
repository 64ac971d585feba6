SPECIFICATION FairSpec
CONSTANTS
    Callers = {c1, c2, c3}
    MaxKey = 3
    Requests <- MCRequests
    NoCaller = NoCaller
INVARIANTS TypeOK OwnedIffAcquired NoCircularWait
PROPERTIES ImplementsSections EveryCallGetsIn
