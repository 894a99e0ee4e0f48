CONSTANTS
    a = a
    b = b
    NoUser = NoUser
    NoConn = NoConn
    Users <- MCUsers
    Letters <- LettersOne
    Conns = {c1, c2}
    MaxRestarts = 0
SPECIFICATION Spec
INVARIANTS
    ShownInWindowOfSender
SYMMETRY ConnSymmetry
CHECK_DEADLOCK FALSE
