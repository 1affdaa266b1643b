CONSTANTS
    t1 = t1
    t2 = t2
    t3 = t3
    Threads = {t1, t2}
    Fields = {f1, f2}
    MaxNodes = 3
    Sections = 2
    Relaxed = FALSE
    MaxVisits = 2
SPECIFICATION Spec
SYMMETRY Symmetry
INVARIANTS OrderExtendsSb FieldsInOrder HashSeesFinalMessage
