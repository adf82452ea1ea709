SPECIFICATION Spec
CONSTANTS
    operator = operator
    ben = ben
    Slot = {s1, s2}
    Kind = {"cron", "admin", "approve"}
    Signer <- MCSigner
    Operator = operator
    Payee = payee
    Wallet = wallet
    Stranger = stranger
    Threshold = 1
    Free = Free
    Orphan = Orphan
    MaxRevenue = 2
    MaxRows = 2
    MaxProposals = 3
    MaxFaults = 1
SYMMETRY Symmetry
INVARIANTS
    LockExclusive
    LedgerNeverAhead
    ProposedIsEarned
