CONSTANTS
    t1 = t1
    t2 = t2
    t3 = t3
    Threads = {t1, t2}
    Fields = {f1}
    MaxNodes = 2
    Sections = 2
    Relaxed = FALSE
    MaxVisits = 1
SPECIFICATION FairSpec
PROPERTIES Termination
