CONSTANTS
    a = a
    b = b
    a1 = a1
    a2 = a2
    b1 = b1
    ONLINE = ONLINE
    OFFLINE = OFFLINE
    Absent = Absent
    Null = Null
    Users <- MCUsers
    Sessions <- TwoPeople
    Owner <- TwoPeopleOwner
    Watched <- TwoPeopleWatched
    Remembered <- OldProgram
    StartsAs <- TwoPeopleStart
    Fallible = {a1}
    Statuses <- MCStatuses
    MaxQueue = 2
    MaxAnswers = 1
    MaxChanges <- TwoPeopleChanges
SPECIFICATION FairSpec
INVARIANTS
    TypeOK
    ClosedIsForgotten
    NullOnlyOfAClose
PROPERTIES
    StatusIsSeen
CHECK_DEADLOCK FALSE
