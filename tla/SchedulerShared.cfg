\* Two processes on one database and a line that two services of different
\* update modes share; database writes may fail, so a slot that was selected
\* may be dropped.
CONSTANTS
    p1 = p1
    p2 = p2
    s1 = s1
    s2 = s2
    NoPolicy = NoPolicy
    Processes <- MCTwoProcesses
    Services <- MCTwoServices
    UpdateMode <- MCModes
    Lines <- MCSharedLines
    Policies <- MCOneTime
    Day = 4
    Grace = 1
    MaxLate = 2
    MaxTime = 3
    MaxCrashes = 1
    MaxFaults = 1
    MaxEdits = 0
SPECIFICATION Spec
SYMMETRY ProcessSymmetry
INVARIANTS RunsOnce RowsTellTheTruth
PROPERTY RowsGoForward
