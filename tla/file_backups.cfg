SPECIFICATION Spec
CONSTANTS
    Procs = {full, agent}
    NoProc = NoProc
    Changes = {n1, n2}
    NoChange = NoChange
    Damages = {}
    MaxAttempts = 1
    MaxBackups = 1
    MinInterval = 2
    MaxClock = 4
    LockMayBeLost = FALSE
    GapMayBeHit = FALSE
SYMMETRY Symmetry
INVARIANT BackupsSpaced
PROPERTY GoodBackupStays
