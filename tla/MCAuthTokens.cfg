SPECIFICATION Spec
CONSTANTS
    ana = ana
    k1 = k1
    k2 = k2
    k3 = k3
    old = old
    new = new
    r1 = r1
    r2 = r2
    Null = Null
    Gone = Gone
    Users <- MCUsers
    Tokens <- MCTokens
    Passwords <- MCPasswords
    Requests <- MCRequests
SYMMETRY MCSymmetry
INVARIANTS
    LinkWorksOnce
    OneLiveLink
    LinkConfirmsItsPassword
    VerifiedPasswordIsConfirmed
    OnlyReregisterDeadlocks
CHECK_DEADLOCK FALSE
