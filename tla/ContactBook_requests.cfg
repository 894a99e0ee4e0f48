CONSTANTS
    k1 = k1
    k2 = k2
    NoContact = NoContact
    Contacts <- MCContacts
    MaxRequests = 3
    MaxAsked = 1
SPECIFICATION FairSpec
INVARIANTS
    TypeOK
    ListIsTable
    DiesOnlyOfARace
PROPERTIES
    StatusComesBack
    EventThreadReturns
CHECK_DEADLOCK FALSE
