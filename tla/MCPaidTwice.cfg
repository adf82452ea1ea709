SPECIFICATION Spec
CONSTANTS
    operator = operator
    ben = ben
    Slot = {s1, s2}
    Kind = {"admin", "approve"}
    Signer <- MCSigner
    Operator = operator
    Payee = payee
    Wallet = wallet
    Stranger = stranger
    Threshold = 2
    Free = Free
    Orphan = Orphan
    MaxRevenue = 2
    MaxRows = 2
    MaxProposals = 2
    MaxFaults = 0
SYMMETRY Symmetry
INVARIANT PaidIsEarned
