CONSTANTS
    Window = 1
    YearDays = 2
    PerDay = 3
    MatchWindow = 1
    Blank = Blank
    Junk = Junk
    Uses <- TaxUse4
SPECIFICATION Spec
INVARIANTS
    OneReplacementPerShare
CHECK_DEADLOCK FALSE
