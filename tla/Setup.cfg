CONSTANTS
    None = None
    Steps = {1, 2, 3}
    Ref <- MCRef
    Engine <- MCEngine
    Name <- MCName
    Background = {2}
    Mode <- MCMode
    RulesOK <- MCRulesOK
    PathRules <- MCPathRules
    Digests = {"d1", "d2"}
    Artifacts <- MCArtifacts
    Catalogs <- MCCatalogs
    Kinds = {"api", "index", "legacy"}
    Faults <- MCFaults
    DockerFaults = {"down", "pull", "wait", "post"}
    MaxChanges = 1
SPECIFICATION SetupSpec
INVARIANTS SetupTypeOK NotFoundIsAbsent SteadyReleaseVerifies StartedAsVerified BuilderStays NothingLeftBehind
