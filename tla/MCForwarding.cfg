SPECIFICATION Spec
CONSTANTS
    Provider <- MCProvider
    Weight <- MCWeight
    MaxWeight = 2
    Strategy = {"round-robin", "least-latency"}
    FAILURES_BEFORE_OPEN = 1
    CIRCUIT_COOLDOWN = 1
    Host = {h1}
    FAILURE_THRESHOLD = 1
    BREAKER_COOLDOWN = 2
    KEY_TTL = 3
    RedisFails = TRUE
    Slot = {s1, s2}
    HostOf <- MCHostOf
    MaxAttempts = 2
    Idle = Idle
INVARIANTS
    SpreadEvenly
PROPERTIES
    TriedAgain
    CallsEnd
