\* The gap between the two locks of RefreshStore::retire.
CONSTANTS
    q1 = q1  q2 = q2  q3 = q3
    Requests = {q1, q2}
    Clients = {c1}
    SessionIds = {u1}
    AccessTokens = {a1, a2}
    RefreshTokens = {k1, k2}
    Rows = {r1, r2}
    Kinds = {"grant", "refresh"}
    None = None
    MAX_ENTRIES = 2
    REFRESH_TTL = 1
    RETIRED_REFRESH_TTL = 1
    EXPIRES_IN = 1
    MaxTime = 0
SPECIFICATION Spec
SYMMETRY RequestSymmetry
CHECK_DEADLOCK FALSE
PROPERTIES
    ReplayIsCaught
