\* Every kind of request in two slots, two rotations, expiry; no symmetry (liveness).
CONSTANTS
    q1 = q1  q2 = q2  q3 = q3
    Requests = {q1, q2}
    Clients = {c1}
    SessionIds = {u1}
    AccessTokens = {a1, a2, a3}
    RefreshTokens = {k1, k2, k3}
    Rows = {r1, r2, r3}
    Kinds = {"grant", "refresh", "revoke", "call"}
    None = None
    MAX_ENTRIES = 2
    REFRESH_TTL = 1
    RETIRED_REFRESH_TTL = 1
    EXPIRES_IN = 1
    MaxTime = 1
SPECIFICATION FairSpec
CHECK_DEADLOCK FALSE
INVARIANTS
    TypeOK
    InFlightHasOneHolder
    ScopesSurviveRefresh
PROPERTIES
    NoResurrection
    InFlightIsReleased
    RefinesLedger
