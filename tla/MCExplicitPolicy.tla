---------------------------- MODULE MCExplicitPolicy ----------------------------
(***************************************************************************)
(* A small allowlist, and clients that try to get around it.               *)
(***************************************************************************)
EXTENDS ExplicitPolicy

Source(scheme, host, port) == [scheme |-> scheme, host |-> host, port |-> port]

RegNoPort == Source("https", "reg", None)
RegOther == Source("https", "reg", "8443")
Evil == Source("https", "evil", None)
Plain == Source("http", "reg", None)
PlainEvil == Source("http", "evil", None)
Alpine == Source("docker-image", "alpine", None)
Mirror == Source("docker-image", "mirror", None)

MCSources == {RegNoPort, RegOther, Evil, Plain, PlainEvil, Alpine, Mirror}

MCPorts == {"443", "80", "8443"}
MCDefaultPort == [s \in {"https", "http"} |-> IF s = "https" THEN "443" ELSE "80"]

Wildcard(host, ports) == [form |-> "wildcard", hosts |-> {host}, ports |-> ports]
Regex(host, ports) == [form |-> "regex", hosts |-> {host}, ports |-> ports]

\* reg:443, and plain http by an expression with an optional port.
MCHttpsRules == <<Wildcard("reg", {"443"})>>
MCHttpRules == <<Regex("reg", {"80", None})>>
MCIpRules == <<Wildcard("evil", {"8443"}), Wildcard("reg", {"8443"})>>
\* Named by its default port, which the request leaves out.
MCKnownBlocked == <<Wildcard("evil", {"443"})>>

\* ~^reg:443$
PortRegexRules == <<Regex("reg", {"443"})>>

Selector(action, matches) == [action |-> action, matches |-> matches, to |-> None]
Conversion(from, to) == [action |-> "CONVERT", matches |-> {from}, to |-> to]

\* Allow everything; leave the image for another one, for a denied source and
\* for one that leads back to it; deny an image and an allowed source.
MCClients ==
    {None,
     <<Selector("ALLOW", MCSources)>>,
     <<Conversion(Alpine, Alpine), Conversion(Alpine, Mirror), Selector("DENY", {Mirror, RegNoPort})>>,
     <<Conversion(Alpine, Evil), Conversion(Evil, PlainEvil), Selector("ALLOW", {Evil, PlainEvil})>>,
     <<Conversion(RegNoPort, Evil), Conversion(Evil, RegNoPort),
       Conversion(Alpine, Mirror), Conversion(Mirror, Alpine)>>}

NoClients == {None}
================================================================================
