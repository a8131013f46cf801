\* Two texts, three messages, two faults.
SPECIFICATION Spec
CONSTANTS
    x = x
    y = y
    None = None
    Texts <- Two
    Parts = 2
    MaxMessages = 3
    MaxFaults = 2
INVARIANTS
    SourceIsStored
    UsedOnce
    TextsAreKept
    AnswersGoToAsked
    ExpiredIsNoted
    GrantedWasSeen
PROPERTIES
    AmendmentsAccumulate
    CardsLive
\* Matthew may stop writing.
CHECK_DEADLOCK FALSE
