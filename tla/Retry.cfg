\* Two retries inside a budget of three ticks; Retry-After below and above the clamp.
CONSTANTS
    max_retries = 2
    max_backoff = 2
    base = 1
    total_timeout = 3
    RetryAfters = {1, 5}
    None = None
SPECIFICATION FairSpec
CHECK_DEADLOCK FALSE
INVARIANTS
    WritesAtMostOnce
    AnswersWithinTwiceTheTimeout
PROPERTIES
    Answers
