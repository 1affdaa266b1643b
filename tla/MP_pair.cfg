CONSTANTS
    t1 = t1
    t2 = t2
    t3 = t3
    Threads = {t1, t2, t3}
    Fields = {f1}
    MaxNodes = 4
    Sections = 1
    Relaxed = FALSE
    MaxVisits = 1
SPECIFICATION Spec
CONSTRAINT PairThenSingles
INVARIANTS NoRacingUpdates SlotsInOrder
PROPERTIES ImplementsTurns
