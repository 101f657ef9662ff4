SPECIFICATION Spec
CONSTANTS
    Thread = {c1, c2}
    Sid = {s1}
    Obj = {o1, o2, o3}
    None = None
    Ops = {"create", "turn"}
    Faults = FALSE
    MaxSessions = 8
    MaxRestarts = 1
INVARIANT ServedSessionHasCap
