SPECIFICATION Spec
CONSTANTS
    NGroups = 1
    Size = 2
    Dim0 = 2
    Modulus = 4
    NRows = 2
    Shuffles <- AllShuffles
    NCounters = 2
    NItems = 2
    OptionSets = {{"inter_thread_comm"}}
    Statements <- RandExprMenu
    MaxStatements = 2
    Junk = 2
INVARIANTS TidsArePermutation
