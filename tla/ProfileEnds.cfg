SPECIFICATION FairSpec
CONSTANTS
    u1 = u1
    r1 = r1
    r2 = r2
    N = 3
    User <- MCUser
    Owner <- MCOwner
    ResponseOf <- MCResponseOf
    Rejected = {2}
    Run = {r1, r2}
    NoRun = NoRun
    Answers <- MCAnswerA
    Workers = 1
    Limit = 3
    MaxActive = 1
    MaxExits = 1
    MaxRedos = 0
PROPERTY RunEnds
CHECK_DEADLOCK FALSE
