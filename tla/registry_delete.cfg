SPECIFICATION Spec
CONSTANTS
    Thread = {c1, c2}
    Sid = {s1, s2, s3}
    Obj = {o1, o2, o3, o4, o5}
    None = None
    Ops = {"create", "delete"}
    Faults = FALSE
    MaxSessions = 1
    MaxRestarts = 1
SYMMETRY ActorSymmetry
INVARIANTS
    DeleteIsFinal
    OvershootBounded
    LifecycleInv
