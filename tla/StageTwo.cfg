SPECIFICATION Spec
CONSTANTS
    u1 = u1
    r1 = r1
    r2 = r2
    N = 1
    User <- MCUser
    Owner <- MCOwner
    ResponseOf <- MCResponseOf
    Rejected = {}
    Run = {r1}
    NoRun = NoRun
    Answers <- MCAnswers
    Workers = 1
    Limit = 2
    MaxActive = 1
    MaxExits = 0
    MaxRedos = 0
INVARIANT StageTwoYieldsProfile
CHECK_DEADLOCK FALSE
