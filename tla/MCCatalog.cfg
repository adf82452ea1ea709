SPECIFICATION Spec
CONSTANTS
    s1 = s1
    s2 = s2
    alice = alice
    bob = bob
    c1 = c1
    Slot = {s1, s2}
    Address = {alice, bob}
    Challenge = {c1}
    Session = {t1, t2}
    NoChallenge = NoChallenge
    NoSession = NoSession
    Nobody = Nobody
    NoRow = NoRow
    Environments <- TheEnvironments
    Provider = {p1}
    Route = {r1}
    Note = {n1}
    ApprovalRequired = TRUE
INVARIANTS
    BootIsSafe
    SessionsAreSigned
    ActsWhileSignedIn
    NoOrphans
PROPERTY OwnersOnly
CONSTRAINT OthersSignIn
SYMMETRY Symmetry
