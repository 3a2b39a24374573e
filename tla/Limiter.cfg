\* Two concurrent requests, three keys in a shard of two, thirds of a second.
CONSTANTS
    q1 = q1  q2 = q2  k1 = k1  k2 = k2  k3 = k3
    Requests = {q1, q2}
    Keys = {k1, k2, k3}
    None = None
    SECOND = 3
    rps = 2
    burst = 2
    per_shard_max_keys = 2
    MaxTime = 3
SPECIFICATION Spec
SYMMETRY Interchangeable
INVARIANTS
    NoExtraTokens
PROPERTIES
    RetryAfterIsEnough
