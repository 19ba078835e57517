SPECIFICATION Spec
CONSTANTS
    Windows = {w1}
    Nothing = Nothing
    MaxInFlight = 1
    Calendar <- TwoDays
    Moments = {0, 1210}
    Starts <- TwoStarts
    Habit = 15
    WeakDays = {1}
    PhoneAt = 1200
    Popups = TRUE
INVARIANTS MarksAreCurrent
PROPERTIES OncePerPeriod AgentIsRight MorningIsMentioned
CHECK_DEADLOCK FALSE
