\* Observations, a reviewed plan, and one run with every kind of line, two stacks,
\* appended entries and faults.
CONSTANTS
    r1 = r1
    r2 = r2
    a = a
    b = b
    None = None
    c1 = c1
    c2 = c2
    u1 = u1
    u2 = u2
    Runs <- MCOneRun
    Entries <- MCEntries
    Appendable <- MCEntries
    Stacks <- MCTwoStacks
    Matching <- MCShared
    Digested <- MCOnlyB
    Excludable <- MCOnlyA
    Discardable <- MCOnlyA
    InitialFiles <- MCFiles
    LockTimeout = 1
    MaxAppends = 1
    MaxFaults = 2
    MaxKills = 1
    po_Sources = {u1, u2}
    po_Containers = {c1, c2}
    pa_Slots <- PlanSlots
    pa_Lines <- PlanLines
    pa_Targets <- PlanTargets
    pa_Images <- PlanImages
    pa_Lists <- PlanLists
    pa_Files <- PlanFiles
    pa_Options <- PlanOptions
    pa_PlanLimit = 1
    pa_MaxOutside = 1
SPECIFICATION MCSpec
INVARIANTS UpdateTypes NothingLost HistoryTruthful AppliedAsReviewed
PROPERTIES FinishedOnce RemovalOnlyRemoves
CHECK_DEADLOCK FALSE
