CONSTANTS
    Window = 1
    YearDays = 2
    PerDay = 3
    MatchWindow = 1
    Blank = Blank
    Junk = Junk
    Uses <- AllUses
SPECIFICATION Spec
INVARIANTS
    EnginesAgree
    LossDeferred
    AdjustedFirst
    SplitsMadeWhole
PROPERTIES
    DroppedUnbackable
    ImportLikeCreates
    StatementHonoured
CHECK_DEADLOCK FALSE
