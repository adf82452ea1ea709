SPECIFICATION Spec
CONSTANTS
    Slot = {s1, s2}
    Hash = {h1, h2}
    Quote = {q1, q2}
    NoHash = NoHash
    NoQuote = NoQuote
    Flat = {}
    Metered = {metered}
    Payer = {alice}
    MAX_AMOUNT = 2
    MAX_DEFICIT = 1
    MAX_TIME = 0
    QUOTE_EXPIRY = 0
    MANY = 0
    Verify = FALSE
    Recording = FALSE
    Faults = FALSE
SYMMETRY Symmetry
INVARIANTS
    ClaimedOnce
    NoAdmissionWhileOwing
