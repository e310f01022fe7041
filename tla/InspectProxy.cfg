CONSTANTS
    None = None
    Unknown = Unknown
    Conns <- OneConn
    Names <- MCNames
    Addrs <- MCAddrs
    Ports <- MCPorts
    DefaultPort <- MCDefaultPort
    Internal <- MCInternal
    Answers <- MCAnswers
    HttpRules <- MCHttpRules
    TlsRules <- MCTlsRules
    IpRules <- MCIpRules
    Mode = "restrict"
    Opens <- MCOpens
    Requests <- MCRequests
    OriginEnds = {"refused", "silence", "hangup", "connectTimeout"}
    ClientEnds = {"abort", "timeout"}
    MaxExchanges = 4
SPECIFICATION Spec
INVARIANTS TrafficLogged RefusalsReported BlockMeansNoAnswer
PROPERTIES KeepsPolicy
CHECK_DEADLOCK FALSE
