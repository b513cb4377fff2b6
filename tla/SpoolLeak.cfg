SPECIFICATION Spec
CONSTANTS
    Exchange = {e1, e2}
    Worker = {w1}
    QueueSize = 1
    Payloads <- MCPayloads
    MaxExits = 0
    Handler = Handler
    Nobody = Nobody
    NoRow = NoRow
INVARIANT SpoolReleased
CHECK_DEADLOCK FALSE
