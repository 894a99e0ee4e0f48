CONSTANTS
    a = a
    b = b
    NoUser = NoUser
    NoConn = NoConn
    Users <- MCUsers
    Letters <- LettersOne
    Conns = {c1, c2, c3}
    MaxRestarts = 1
SPECIFICATION Spec
INVARIANTS
    IInv
    UndeliveredIsKept
    ReadMeansDisplayed
    RegisteredIsAuthenticated
    ReachableUnlessShared
SYMMETRY ConnSymmetry
CHECK_DEADLOCK FALSE
