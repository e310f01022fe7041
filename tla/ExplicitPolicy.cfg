CONSTANTS
    None = None
    Builds = {"b1", "b2"}
    Sources <- MCSources
    Ports <- MCPorts
    DefaultPort <- MCDefaultPort
    HttpsRules <- MCHttpsRules
    HttpRules <- MCHttpRules
    IpRules <- MCIpRules
    KnownBlocked <- MCKnownBlocked
    Mode = "restrict"
    Clients <- MCClients
    MaxPasses = 2
    MaxAsks = 1
SPECIFICATION Spec
INVARIANTS NeverPastAllowlist ListedNeverRefused ClientsRuleTheRest FailsOnUnexpected
CHECK_DEADLOCK FALSE
