CONSTANTS
    t1 = t1
    t2 = t2
    t3 = t3
    Threads = {t1, t2}
    Fields = {f1}
    MaxNodes = 3
    Sections = 1
    Relaxed = TRUE
    MaxVisits = 2
SPECIFICATION FairSpec
PROPERTIES Termination FlagsAdvanceByOne
