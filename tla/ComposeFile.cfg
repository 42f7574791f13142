\* All that writes Compose files; of StackLifecycle, one service and every fault of
\* the file, with a second update on top.
CONSTANTS
    s1 = s1
    s2 = s2
    None = None
    Services <- MCOneService
    Targets <- MCOneService
    Modes <- MCLive
    Plans <- MCAllPlans
    InterruptInReplace = FALSE
    MaxRuns = 2
    MaxEdits = 1
    MaxKills = 1
    ra_Stacks <- RetagStacks
    ra_ServicesOf <- RetagServices
    ra_Consent <- RetagConsent
    ra_Ambiguous <- RetagAmbiguous
    ra_Own <- RetagOwn
    ra_MaxOutside = 1
    te_Stacks <- ExcludeStacks
    te_ServicesOf <- ExcludeServices
    te_Repo <- ExcludeRepo
    te_Provider <- ExcludeProvider
    te_TagOf <- ExcludeTagOf
    te_Matches <- ExcludeMatches
    te_Writable <- ExcludeWritable
    te_Authored <- ExcludeAuthored
    te_MayStop <- ExcludeMayStop
    te_Overridden <- ExcludeOverridden
    te_MaxRuns = 2
    tr_MaxOutside = 2
    cl_Services <- LabelServices
    cl_Tags <- LabelTags
    cl_Versioned <- LabelFourPart
    cl_FourPart <- LabelFourPart
    cl_Extends <- LabelExtends
    cl_StartFiles <- StartFiles
    cl_Edited <- LabelEdited
    cl_EditedLabels <- EditedLabels
    cl_Targets <- LabelTargets
    cl_MaxEdits = 1
    cl_MaxApprovals = 1
    cl_MaxPreviews = 2
SPECIFICATION MCSpec
INVARIANTS ComposeFileTypes GoodVersionKept DoneAsApproved FailuresUndone
PROPERTIES EditsKept WorkOfOthersKept
CHECK_DEADLOCK FALSE
