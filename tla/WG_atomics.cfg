SPECIFICATION Spec
CONSTANTS
    NGroups = 2
    Size = 2
    Dim0 = 2
    Modulus = 4
    NRows = 2
    Shuffles <- AllShuffles
    NCounters = 3
    NItems = 2
    OptionSets = {{"divergence", "track_divergence", "barriers", "atomics"},
                  {"inter_thread_comm", "atomics", "atomic_reductions", "group_divergence"}}
    Statements <- AtomicsMenu
    MaxStatements = 2
    Junk = 2
INVARIANTS SectionsRunOnce BarriersConverge ResultsAreMeant TypeOK NoDataRace TidsArePermutation
