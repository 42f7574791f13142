\* One slot and one failing database write.
CONSTANTS
    p1 = p1
    p2 = p2
    s1 = s1
    s2 = s2
    NoPolicy = NoPolicy
    Processes <- MCOneProcess
    Services <- MCOneService
    UpdateMode <- MCOneMode
    Lines <- MCOneLine
    Policies <- MCOneTime
    Day = 4
    Grace = 1
    MaxLate = 2
    MaxTime = 6
    MaxCrashes = 0
    MaxFaults = 1
    MaxEdits = 0
SPECIFICATION Spec
INVARIANT HeldStaysDue
