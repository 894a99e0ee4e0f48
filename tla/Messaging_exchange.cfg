CONSTANTS
    a = a
    b = b
    NoUser = NoUser
    NoConn = NoConn
    Users <- MCUsers
    Letters <- LettersExchange
    Conns = {c1, c2}
    MaxRestarts = 1
SPECIFICATION FairSpec
INVARIANTS
    TypeOK
    DisplayedToAddressee
    ArchiveIsConversation
PROPERTIES
    HistoryGrows
    ImplementsMailbox
    SessionGetsItsMail
CHECK_DEADLOCK FALSE
