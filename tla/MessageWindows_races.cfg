CONSTANTS
    k1 = k1
    k2 = k2
    m1 = m1
    m2 = m2
    m3 = m3
    NoMessage = NoMessage
    NoContact = NoContact
    Contacts <- MCContacts
    Messages <- MCMessages
    Sender <- MCSender
    MaxFrames = 4
SPECIFICATION Spec
INVARIANTS
    TypeOK
    InOneConversation
    ShownUntilOneIsClosed
PROPERTIES
    DiesOnlyOfAClose
    StaleEntryOnlyFromRace
CHECK_DEADLOCK FALSE
