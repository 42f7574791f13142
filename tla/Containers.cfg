\* What is done to containers; of StackLifecycle, two services in every state and
\* mode, and a retry.
CONSTANTS
    s1 = s1
    s2 = s2
    None = None
    Services <- MCTwoServices
    Targets <- MCOneService
    Modes <- MCAllModes
    Plans <- MCTagPlans
    InterruptInReplace = FALSE
    MaxRuns = 2
    MaxEdits = 0
    MaxKills = 0
    su_Threads <- MCThreads
    su_MaxPlans = 2
    su_MaxOutside = 1
    sc_Defined <- MCDefined
    sc_Orphans <- MCOrphans
    sc_Others <- MCOthers
    sc_Networks <- ScopeNetworks
    sc_MayStop <- MCMayStop
    sc_MayLabel <- MCMayLabel
    sc_HopLimit = 2
    cp_MaxLines = 2
    cp_MaxPartial = 2
    cp_MaxOutput = 3
    cp_MaxInterrupts = 2
    dv_Images <- DigestImages
    dv_Indexes <- DigestIndexes
    dv_Tags <- MCDigestTags
    dv_MaxMoves = 2
SPECIFICATION MCSpec
INVARIANTS ContainerTypes ServicesAsReported OwnProcessesSafe DigestsTold
PROPERTIES PreparedAsReviewed
CHECK_DEADLOCK FALSE
