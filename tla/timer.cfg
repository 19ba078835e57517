SPECIFICATION Spec
CONSTANTS
    Windows = {w1, w2}
    LimitMinutes = 1
    MaxMinutes = 1
    MaxActs = 4
    MaxClock = 2
    MaxInFlight = 1
SYMMETRY WindowSymmetry
INVARIANTS  SavedOnce
PROPERTIES AutoStopIsWatched OnlyPausedIsMistaken SessionIsNotLost
CHECK_DEADLOCK FALSE
