\* One process and one service over two days, with two times to choose from,
\* a crash, a failing database write and an edit, under fairness.
CONSTANTS
    p1 = p1
    p2 = p2
    s1 = s1
    s2 = s2
    NoPolicy = NoPolicy
    Processes <- MCOneProcess
    Services <- MCOneService
    UpdateMode <- MCOneMode
    Lines <- MCOneLine
    Policies <- MCTwoTimes
    Day = 4
    Grace = 1
    MaxLate = 2
    MaxTime = 6
    MaxCrashes = 1
    MaxFaults = 1
    MaxEdits = 1
SPECIFICATION FairSpec
INVARIANTS TypeOK HeldWithoutFaults
PROPERTIES SubmittedOnTime NothingHangs
