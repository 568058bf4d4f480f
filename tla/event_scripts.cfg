SPECIFICATION FairSpec
CONSTANTS
    Script <- AllScripts
    Exempt <- Exceptions
    MaxDying = 3
    MaxPrizes = 2
CHECK_DEADLOCK FALSE
INVARIANTS
    TypeOK
    NoDeadEnd
    PaidOnce
    ClockKept
PROPERTIES
    Quiet
    TimesUp
