CONSTANTS
    None = None
    Unresolvable = Unresolvable
    Files <- MCFiles
    Dirs <- MCDirs
    DirOf <- NestedDirOf
    Below <- NestedBelow
    SystemCertFiles <- MCSystemCertFiles
    OwnFile = "own"
    RootDir = "/"
    Mounts = {}
    Oversized = {}
    Vars <- MCVars
    Rank <- MCRank
    WhenUnset <- MCWhenUnset
    Containers <- ExistingTargets
    StepFiles = {"store", "extra", "custom"}
    ChmodNodes = {"custom"}
    Ops = {"edit", "delete", "touch"}
    Texts <- MCTexts
    Modes <- MCModes
    MaxOps = 2
    Faults <- HarmlessFaults
    Empty = "empty"
    DefaultMode = "rw"
SPECIFICATION Spec
INVARIANTS CommittedClean OnlyTouchedCopiedUp
PROPERTIES LayerIsStepsOwn
CHECK_DEADLOCK FALSE
