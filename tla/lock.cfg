SPECIFICATION FairSpec
CONSTANTS
    Procs = {full, quick, agent}
    Ghost = ghost
    NoFile = nofile
INVARIANT MutualExclusion
PROPERTY LiveLockStays
PROPERTY AttemptEnds
PROPERTY AbandonedLockIsRecovered
CHECK_DEADLOCK FALSE
