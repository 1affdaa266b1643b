SPECIFICATION Spec
CONSTANTS
    NGroups = 1
    Size = 2
    Dim0 = 2
    Modulus = 4
    NRows = 1
    Shuffles <- Unshuffled
    NCounters = 2
    NItems = 2
    OptionSets = {{"divergence", "track_divergence", "barriers", "atomics"}}
    Statements <- SectionBarrierMenu
    MaxStatements = 1
    Junk = 2
INVARIANTS BarriersConverge
