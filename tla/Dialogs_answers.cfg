CONSTANTS
    MaxDialogs = 2
    MaxChanges = 2
    MaxQueue = 1
SPECIFICATION FairSpec
INVARIANTS
    TypeOK
    SettlesOnText
    ArchiveIsItsOwn
    DiesOnlyOfAClose
PROPERTIES
    TextIsSearched
CHECK_DEADLOCK FALSE
