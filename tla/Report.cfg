SPECIFICATION FairSpec
CONSTANTS
    Hosts = {listed, other}
    Ports = {443}
    Allowed <- MCAllowed
    Configurations <- MCConfigurations
    SegmentLines = 1
    Keep = 2
    listed = listed
    other = other
    None = None
INVARIANT ReadOnceInOrder
INVARIANT RefusalsFail
INVARIANT SilenceIsNotQuiet
INVARIANT NoFalseAlarm
INVARIANT ArtifactIsWhole
PROPERTY ReportEnds
CHECK_DEADLOCK FALSE
