\* One code end to end in three slots: redemptions, replays, refresh, revocation, calls.
CONSTANTS
    q1 = q1  q2 = q2  q3 = q3
    Requests = {q1, q2, q3}
    Clients = {c1}
    SessionIds = {u1, u2}
    AccessTokens = {a1, a2}
    RefreshTokens = {k1, k2}
    Rows = {r1, r2}
    States = {s1}
    Codes = {x1}
    Kinds = {"grant", "refresh", "revoke", "call"}
    None = None
    MAX_ENTRIES = 2
    REFRESH_TTL = 1
    RETIRED_REFRESH_TTL = 1
    EXPIRES_IN = 1
    TRANSACTION_TTL = 1
    CODE_TTL = 1
    MaxTime = 2
SPECIFICATION AuthSpec
SYMMETRY RequestSymmetry
CHECK_DEADLOCK FALSE
INVARIANTS
    CodeYieldsOneSession
    LateRequestDenied
PROPERTIES
    ReplayAfterAnswerIsCaught
