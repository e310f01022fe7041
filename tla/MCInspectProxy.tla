----------------------------- MODULE MCInspectProxy -----------------------------
(***************************************************************************)
(* A small set of rules, names and addresses for InspectProxy.             *)
(***************************************************************************)
EXTENDS InspectProxy

MCNames == {"reg.example", "cdn.example", "evil.example"}

\* A public address, cloud metadata, and the proxy, which is what CoreDNS
\* gives the build for every name.
MCAddrs == {"203.0.113.1", "203.0.113.2", "169.254.169.254", "172.20.0.1"}
MCInternal == {"169.254.169.254", "172.20.0.1"}
MCPorts == {"443", "8443"}
MCDefaultPort == [s \in {"https", "http"} |-> "443"]

\* reg.example may answer with anything, the others with nothing or one address.
MCAnswers == [n \in MCNames |->
    CASE n = "reg.example" -> {"203.0.113.1", "169.254.169.254"}
      [] n = "cdn.example" -> {"203.0.113.2"}
      [] n = "evil.example" -> {"203.0.113.2"}]

\* GET https://reg.example/pkg/..., and everything on one literal address.
MCHttpRules ==
    {[scheme |-> "https", authority |-> {<<"reg.example", None>>},
      paths |-> {<<"pkg">>, <<"pkg", "a">>}, methods |-> {"GET"}],
     [scheme |-> "http", authority |-> {<<"169.254.169.254", "443">>},
      paths |-> {<<"pkg">>, <<"pkg", "a">>, <<>>}, methods |-> {}]}

MCTlsRules == {<<"cdn.example", "8443">>}
MCIpRules == {<<"203.0.113.2", "8443">>}

Conn(addr, port, hello, sni) == [addr |-> addr, port |-> port, hello |-> hello, sni |-> sni]

MCOpens ==
    {Conn("172.20.0.1", "443", "tls", "reg.example"),
     Conn("203.0.113.2", "443", "tls", "cdn.example"),    \* its rule is for the other port
     Conn("172.20.0.1", "8443", "tls", "cdn.example"),    \* by name
     Conn("203.0.113.2", "8443", "tls", None),            \* by address
     Conn("172.20.0.1", "443", "plain", None),
     Conn("203.0.113.2", "443", "none", None)}

Req(host, path, method) == [host |-> host, path |-> path, method |-> method]

MCRequests ==
    {Req("reg.example", <<"pkg", "a">>, "GET"),
     Req("reg.example", <<"pkg", "a">>, "PUT"),
     Req("reg.example", <<"pkg", "%2e%2e", "%2e%2e", "a">>, "GET"),
     Req("reg.example", <<"x", "%2e%2e", "pkg">>, "GET"),
     Req("evil.example", <<"pkg">>, "GET"),
     Req("169.254.169.254", <<"pkg">>, "GET")}

\* Fewer of both, for two connections.
FewOpens == {o \in MCOpens : o.hello = "tls" /\ o.addr = "172.20.0.1"}
FewRequests ==
    {Req("reg.example", <<"pkg", "a">>, "GET"), Req("evil.example", <<"pkg">>, "GET"),
     Req("evil.example", <<"%2e%2e">>, "GET")}

\* cdn.example has no address.
FewAnswers == [MCAnswers EXCEPT !["cdn.example"] = {}]

OneConn == {"c1"}
TwoConns == {"c1", "c2"}
================================================================================
