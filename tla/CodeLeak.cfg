\* Codes that expire unredeemed, one after the other, at a cap of one.
CONSTANTS
    q1 = q1  q2 = q2  q3 = q3
    Requests = {q1}
    Clients = {c1}
    SessionIds = {u1, u2}
    AccessTokens = {a1, a2}
    RefreshTokens = {k1, k2}
    Rows = {r1, r2}
    States = {s1, s2}
    Codes = {x1, x2}
    Kinds = {"grant"}
    None = None
    MAX_ENTRIES = 1
    REFRESH_TTL = 2
    RETIRED_REFRESH_TTL = 1
    EXPIRES_IN = 2
    TRANSACTION_TTL = 1
    CODE_TTL = 1
    MaxTime = 2
SPECIFICATION AuthSpec
SYMMETRY RequestSymmetry
CHECK_DEADLOCK FALSE
INVARIANTS
    CodeStoreBounded
