SPECIFICATION Spec
CONSTANTS
    Letters <- MCLetters
    Lower <- MCLower
    Ports = {80, 443}
    DefaultPort <- MCDefaultPort
    AnyPort = AnyPort
    NoPort = NoPort
    None = None
    Questions <- MCQuestions
    Configurations <- MCNamed
    Tries = 2
    MaxPattern = 1
    MaxPath = 3
    MaxName = 1
    PatternLetters = {"A"}
INVARIANT ViewMatchesProxy
CHECK_DEADLOCK FALSE
