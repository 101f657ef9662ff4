SPECIFICATION FairSpec
CONSTANTS
    Thread = {t1, t2}
    Uuid = {u1}
    None = None
    SigilBelow = TRUE
    Faults = TRUE
PROPERTIES
    StreamEnds
    LockComesFree
