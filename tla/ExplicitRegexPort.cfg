CONSTANTS
    None = None
    Builds = {"b1"}
    Sources <- MCSources
    Ports <- MCPorts
    DefaultPort <- MCDefaultPort
    HttpsRules <- PortRegexRules
    HttpRules <- MCHttpRules
    IpRules <- MCIpRules
    KnownBlocked <- MCKnownBlocked
    Mode = "restrict"
    Clients <- NoClients
    MaxPasses = 2
    MaxAsks = 2
SPECIFICATION Spec
INVARIANTS ListedNeverRefused
CHECK_DEADLOCK FALSE
