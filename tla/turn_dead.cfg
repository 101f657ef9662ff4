SPECIFICATION Spec
CONSTANTS
    Thread = {t1}
    Uuid = {u1}
    None = None
    SigilBelow = TRUE
    Faults = FALSE
PROPERTY GoneServerEndsDead
