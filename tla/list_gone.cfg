SPECIFICATION Spec
CONSTANTS
    Lister = {l1}
    Sid = {s1, s2}
    Obj = {o1, o2}
    None = None
    Faults = FALSE
    MaxRestarts = 0
INVARIANT GoneSessionIsListed
