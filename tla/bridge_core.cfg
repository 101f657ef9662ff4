SPECIFICATION Spec
CONSTANTS
    Client = {r1}
    Token = {t1, t2}
    Port = {p1, p2}
    Sid = {s1}
    None = None
    DefaultPort = p1
    t1 = t1
    p2 = p2
    Env <- MCEnv
    MaxLaunches = 2
INVARIANTS
    TypeOK
    StatusIsTrue
    JudgedByShownToken
    QuitLeavesOnlyExcused
    TrayInv
PROPERTY SettingsSurvive
