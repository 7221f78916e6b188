SPECIFICATION FairSpecStrings
CONSTANTS
    t1 = t1
    t2 = t2
    t3 = t3
    Nobody = Nobody
    Threads = {t1, t2, t3}
    Texts <- MCTexts
INVARIANTS
    OneCopy
    RightString
PROPERTIES
    Interns
    LockIsGivenUp
