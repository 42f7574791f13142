\* Two runs, one of which may exclude a tag and so reads the file twice.
CONSTANTS
    r1 = r1
    r2 = r2
    a = a
    b = b
    Runs <- MCTwoRuns
    Entries <- MCEntries
    Appendable <- MCEntries
    Stacks <- MCOneStack
    Matching <- MCSimple
    Digested <- MCNone
    Excludable <- MCOnlyB
    Discardable <- MCNone
    InitialFiles <- MCBoth
    LockTimeout = 1
    MaxAppends = 0
    MaxFaults = 0
    MaxKills = 0
SPECIFICATION Spec
INVARIANT NothingLost
CHECK_DEADLOCK FALSE
