SPECIFICATION Spec
CONSTANTS
    Procs = {full, agent}
    NoProc = NoProc
    Changes = {n1, n2}
    NoChange = NoChange
    Damages = {d1}
    MaxAttempts = 2
    MaxBackups = 1
    MinInterval = 1
    MaxClock = 0
    LockMayBeLost = TRUE
    GapMayBeHit = FALSE
SYMMETRY Symmetry
INVARIANT AnswersAreTrue
PROPERTY Atomic
