\* Two requests, two tokens, room for one; expiry on two clocks, revocation.
CONSTANTS
    q1 = q1  q2 = q2  q3 = q3  t1 = t1  t2 = t2  NoExp = NoExp
    Requests = {q1, q2}
    Tokens = {t1, t2}
    None = NoExp
    TTL = 1
    NEGATIVE_CACHE_TTL = 1
    CLOCK_SKEW_SECS = 1
    CACHE_CAPACITY = 1
    TIMEOUT = 1
    Exps = {NoExp, 2}
    MaxTime = 3
SPECIFICATION Spec
SYMMETRY Interchangeable
INVARIANTS
    NegativeMeansUnusable
PROPERTIES
    NeverAcceptedPastExp
    StalenessBounded
