SPECIFICATION SettlementSpec
CONSTANTS
    alice = alice
    operator = operator
    escrow = escrow
    q1 = q1
    q2 = q2
    Account <- MCAccount
    Contract = escrow
    Quote <- MCQuote
    Amount = {2}
    Deployer = operator
    InitialWallet <- MCWallet
    MIN_PAYMENT = 1
    DEFAULT_TOKEN_ESTIMATE = 2
    Key = operator
    Payer = {alice}
    Routes <- MCRoutes
    MaxTokens = {0}
    Tokens = {0, 1, 3}
INVARIANTS
    UsageIsServed
    RefusedOnlyIfDrained
    RefundFollowsCharge
    ServedIsSettled
SYMMETRY Symmetry
