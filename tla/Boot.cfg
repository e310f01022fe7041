SPECIFICATION FairSpec
CONSTANTS
    Letters <- MCLetters
    Lower <- MCLower
    Ports = {80, 443}
    DefaultPort <- MCDefaultPort
    AnyPort = AnyPort
    NoPort = NoPort
    None = None
    Questions <- MCQuestions
    Configurations <- MCConfigurations
    Tries = 2
    MaxPattern = 3
    MaxPath = 3
    MaxName = 4
    PatternLetters = {"a"}
INVARIANT WildcardMeaning
INVARIANT ViewMatchesProxy
INVARIANT RefusedOnlyForEmptyLabel
INVARIANT WallsStand
INVARIANT OneAuthority
PROPERTY BootServes
CHECK_DEADLOCK FALSE
