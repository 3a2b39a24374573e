SPECIFICATION Spec
CONSTANTS
    c1 = c1  c2 = c2
    Clients = {c1, c2}
    Handlers = {h1, h2}
    None = None
    MAX_CLIENTS = 1
    CLIENT_IDLE_TTL = 3
    TRANSACTION_TTL = 1
    CODE_TTL = 1
    UPSTREAM_TIMEOUT = 1
    EXPIRES_IN = 4
    REFRESH_TTL = 5
SYMMETRY Interchangeable
INVARIANTS
    LiveAreKnown
PROPERTIES
    EvictsTheIdleOnly
