CONSTANTS
    None = None
    Unknown = Unknown
    Conns <- TwoConns
    Names <- MCNames
    Addrs <- MCAddrs
    Ports <- MCPorts
    DefaultPort <- MCDefaultPort
    Internal <- MCInternal
    Answers <- FewAnswers
    HttpRules <- MCHttpRules
    TlsRules <- MCTlsRules
    IpRules <- MCIpRules
    Mode = "audit"
    Opens <- FewOpens
    Requests <- FewRequests
    OriginEnds = {"refused", "abort"}
    ClientEnds = {}
    MaxExchanges = 3
SPECIFICATION FairSpec
INVARIANTS PolicyInv
PROPERTIES ResolutionEnds
CHECK_DEADLOCK FALSE
