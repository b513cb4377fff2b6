SPECIFICATION Spec
CONSTANTS
    long = long
    short = short
    l1 = l1
    l2 = l2
    Key <- MCKey
    User = {u1}
    NoUser = NoUser
    Lookup <- MCLookup
    Candidates <- MCCandidates
    TTL = 2
    MaxDelay = 1
    MaxTime = 3
    MaxChanges = 1
    MaxErrors = 1
INVARIANTS
    TypeOK
    AttributionIsRecent
    RefusalExplained
CHECK_DEADLOCK FALSE
