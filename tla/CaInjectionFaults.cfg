CONSTANTS
    None = None
    Unresolvable = Unresolvable
    Files <- MCFiles
    Dirs <- MCDirs
    DirOf <- TrustDirOf
    Below <- TrustBelow
    SystemCertFiles <- MCSystemCertFiles
    OwnFile = "own"
    RootDir = "/"
    Mounts = {}
    Oversized = {"data"}
    Vars <- MCVars
    Rank <- MCRank
    WhenUnset <- MCWhenUnset
    Containers <- TrustTargets
    StepFiles = {"store", "custom"}
    ChmodNodes = {"certs"}
    Ops = {"edit", "copy"}
    Texts <- MCTexts
    Modes <- MCModes
    MaxOps = 1
    Faults <- AllFaults
    Empty = "empty"
    DefaultMode = "rw"
SPECIFICATION Spec
INVARIANTS TrustInPlace ScratchReleased
CHECK_DEADLOCK FALSE
