\* An interrupt between os.replace and the note of the new hash.
CONSTANTS
    s1 = s1
    s2 = s2
    None = None
    Services <- MCOneService
    Targets <- MCOneService
    Modes <- MCLive
    Plans <- MCTagPlans
    InterruptInReplace = TRUE
    MaxRuns = 1
    MaxEdits = 0
    MaxKills = 0
SPECIFICATION Spec
INVARIANTS GoodVersionKept
CHECK_DEADLOCK FALSE
