\* Two runs on one file, under fairness; one may fail, one may die with the lock,
\* and an entry is appended at some time.
CONSTANTS
    r1 = r1
    r2 = r2
    a = a
    b = b
    Runs <- MCTwoRuns
    Entries <- MCEntries
    Appendable <- MCOnlyB
    Stacks <- MCOneStack
    Matching <- MCSimple
    Digested <- MCNone
    Excludable <- MCNone
    Discardable <- MCNone
    InitialFiles <- MCFirst
    LockTimeout = 1
    MaxAppends = 1
    MaxFaults = 1
    MaxKills = 1
SPECIFICATION FairSpec
INVARIANTS NothingLost OneEditor
PROPERTY RunsEnd
CHECK_DEADLOCK FALSE
