SPECIFICATION Spec
CONSTANTS
    ann = ann
    ben = ben
    cay = cay
    payee = payee
    wallet = wallet
    Account <- MCAccount
    Contract = wallet
    SignerList <- MCSignerList
    InitialSigners <- MCInitialSigners
    InitialThreshold = 2
    Amount <- MCAmount
    MaxProposals = 2
    MaxFunding = 2
INVARIANTS
    TypeOK
    QuorumReachable
    ExecutedPaidOnce
    InitialQuorumActed
PROPERTY ExecutesAtQuorum
