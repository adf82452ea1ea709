SPECIFICATION Spec
CONSTANTS
    Slot = {s1, s2}
    Hash = {h1}
    Quote = {q1}
    NoHash = NoHash
    NoQuote = NoQuote
    Flat = {}
    Metered = {metered}
    Payer = {alice}
    MAX_AMOUNT = 1
    MAX_DEFICIT = 0
    MAX_TIME = 0
    QUOTE_EXPIRY = 0
    MANY = 2
    Verify = FALSE
    Recording = FALSE
    Faults = FALSE
SYMMETRY Symmetry
INVARIANT ServedOnce
