SPECIFICATION Spec
CONSTANTS
    Slot = {s1, s2}
    Hash = {h1}
    Quote = {q1, q2}
    NoHash = NoHash
    NoQuote = NoQuote
    Flat = {flat}
    Metered = {}
    Payer = {alice}
    MAX_AMOUNT = 1
    MAX_DEFICIT = 0
    MAX_TIME = 1
    QUOTE_EXPIRY = 0
    MANY = 1
    Verify = TRUE
    Recording = TRUE
    Faults = TRUE
SYMMETRY Symmetry
INVARIANTS
    AdmissionWasPaid
    PaidIsServedOrHeld
PROPERTY BindingPermanent
