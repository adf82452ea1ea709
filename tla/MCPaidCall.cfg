SPECIFICATION Spec
CONSTANTS
    p1 = p1
    p2 = p2
    Provider = {p1, p2}
    Priced <- Prices
    RequestTokens = 2
    MIN_PAYMENT = 1
    DEFAULT_TOKEN_ESTIMATE = 3
    AllowPathPayments = FALSE
    NoMemo = NoMemo
    NoProvider = NoProvider
    QuoteLife = 1
    TxLife = 1
    Patience = 1
    MaxTime = 2
    Window = 1
    MaxRequests = 1
    MaxCounted = 2
    MaxLines = 3
    Retries = 3
INVARIANTS
    ServedByPayee
    
    StreamComplete
    HandledOnce
    RateKept
PROPERTY CallReturns
CONSTRAINT DetailAtOnce
CHECK_DEADLOCK FALSE
