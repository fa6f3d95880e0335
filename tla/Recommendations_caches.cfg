SPECIFICATION Spec
CONSTANTS
    Accounts = {a1, a2}
    Readers = {r1, r2}
    TTL = 2
    MaxWait = 0
    ReplyTime = 0
    Watched = a1
    MaxClears = 1
    None = None
SYMMETRY Symmetry
INVARIANTS TypeOK WithinTwoLifetimes ClearedIsGone
