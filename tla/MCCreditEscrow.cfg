SPECIFICATION Spec
CONSTANTS
    alice = alice
    bob = bob
    escrow = escrow
    q1 = q1
    q2 = q2
    Account <- MCAccount
    Contract = escrow
    Quote <- MCQuote
    Amount <- MCAmount
    Deployer = bob
    InitialWallet <- MCWallet
SYMMETRY Symmetry
INVARIANTS
    TypeOK
    Solvent
    RevenueIsUsage
    UsageIsCharged
    UsersPayOnlyUsage
PROPERTY ImplementsPrepaidCredit
CHECK_DEADLOCK FALSE
