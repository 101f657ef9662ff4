SPECIFICATION Spec
CONSTANTS
    Thread = {t1, t2}
    Uuid = {u1, u2}
    None = None
    SigilBelow = FALSE
    Faults = TRUE
SYMMETRY Symmetry
INVARIANTS
    TypeOK
    FlagNamesRunningTurn
    RunningTurnIsStaged
    DoneIsFetchable
    TurnInv
PROPERTIES
    ImplementsService
    DeadIsNotAtWork
    QuestionIsReported
