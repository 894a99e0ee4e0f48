CONSTANTS
    Programs = {p1, p2}
    Nicks = {n1, n2}
    Hashes = {h1, h2}
    NoNick = NoNick
    NoHash = NoHash
    MaxOtherRows = 2
SPECIFICATION Spec
INVARIANTS
    SignUpGrantsOwnAccount
CHECK_DEADLOCK FALSE
