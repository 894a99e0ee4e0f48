CONSTANTS
    c1 = c1
    c2 = c2
    Clients <- MCClients
    Unread <- MCUnread
    Capacity = 1
    MaxSends <- MCMaxSends
SPECIFICATION Spec
INVARIANTS
    TypeOK
    ServerDiesOfUnlockedWrite
    StandstillIsARing
CHECK_DEADLOCK FALSE
