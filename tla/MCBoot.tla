--------------------------------- MODULE MCBoot ---------------------------------
(***************************************************************************)
(* Boot with one rule at a time, any that the setup step takes and that is *)
(* no longer than the bounds, some pairs of rules, and restarts with a few *)
(* rules that make a difference to them.                                   *)
(***************************************************************************)
EXTENDS Boot

CONSTANTS
    MaxPattern,     \* bound on the length of a host pattern
    MaxPath,        \* bound on the length of a path pattern
    MaxName,        \* bound on the length of a name and of a path
    PatternLetters  \* letters of patterns; those of names are lower case

MCLetters == {"a", "b", "A"}
MCLower == [c \in MCLetters |-> IF c = "A" THEN "a" ELSE c]
MCDefaultPort == [https |-> 443, http |-> 80]

SeqsOf(S, n) == UNION {[1..k -> S] : k \in 1..n}

LongPatterns ==
    {<<"*", "*", ".", "a">>, <<"a", "*", ".", "a">>, <<"*", "*", "?", "*">>, <<"?", "?", ".", "*">>, <<"a", "*", "*", ".", "?">>}
HostPatterns ==
    {p \in SeqsOf(PatternLetters \cup {".", "*", "?"}, MaxPattern) : NoTripleStar(p)} \cup LongPatterns
PathPatterns == {<<"/">> \o p : p \in {<<>>} \cup {p \in SeqsOf({"a", "/", "*", "?"}, MaxPath) : NoTripleStar(p)}}

Names == SeqsOf({"a", "b", "."}, MaxName)
Paths == {<<"/">> \o p : p \in {<<>>} \cup SeqsOf({"a", "b", "/"}, MaxName - 1)}

HostRule(scheme, host, port) ==
    [form |-> "host", scheme |-> scheme, methods |-> {"*"}, host |-> host, port |-> port, path |-> <<>>]
UrlRule(scheme, methods, host, port, path) ==
    [form |-> "url", scheme |-> scheme, methods |-> methods, host |-> host, port |-> port, path |-> path]

Question(scheme, name, port, path, method) ==
    [scheme |-> scheme, name |-> name, port |-> port, path |-> path, method |-> method]

\* One question for every name, on the port that both forms of rule below mean.
AskNames == {Question("https", n, 443, <<"/">>, "GET") : n \in Names}
AskPaths == {Question("https", n, 443, p, "GET") : n \in {<<"a">>, <<"b">>}, p \in Paths}
AskPorts ==
    {Question(s, n, p, <<"/">>, m) : s \in {"https", "http"}, n \in {<<"a">>, <<"b">>}, p \in {80, 443}, m \in {"GET", "PUT"}}
AskOnce == {Question("https", <<"a">>, 443, <<"/">>, "GET")}

MCQuestions == [names |-> AskNames, paths |-> AskPaths, ports |-> AskPorts, once |-> AskOnce]

Container(engine, mode, rules, asks, v6, isolates, restarts) ==
    [engine |-> engine, mode |-> mode, rules |-> rules, asks |-> asks,
     v6 |-> v6, isolates |-> isolates, restarts |-> restarts]

Runs(engine, rules, asks) == Container(engine, "restrict", rules, asks, FALSE, TRUE, 0)

HostRules == {HostRule("https", p, 443) : p \in HostPatterns}
UrlHosts == {UrlRule("https", {"GET"}, p, NoPort, <<>>) : p \in HostPatterns}
UrlPaths == {UrlRule("https", {"GET"}, <<"a">>, NoPort, p) : p \in PathPatterns}
PortRules ==
    {HostRule(s, <<"a">>, p) : s \in {"https", "http", "tls"}, p \in {80, 443, AnyPort}}
    \cup {UrlRule(s, m, <<"a">>, p, <<>>) :
            s \in {"https", "http"}, m \in {{"*"}, {"GET"}, {"PUT", "POST"}, {"GET", "*"}}, p \in {80, 443, AnyPort, NoPort}}

Accepted(rules) == {r \in rules : SetupAccepts(r)}

ByName == {Runs("inspect", {r}, "names") : r \in Accepted(HostRules \cup UrlHosts)}
          \cup {Runs("universal", {r}, "names") : r \in Accepted(HostRules)}
ByPath == {Runs("inspect", {r}, "paths") : r \in Accepted(UrlPaths)}
ByPort == {Runs("inspect", {r, s}, "ports") : r \in PortRules, s \in {HostRule("https", <<"b">>, 80), HostRule("tls", <<"a">>, 443)}}

Plain == HostRule("https", <<"a">>, 443)
Hollow == HostRule("https", <<"a", ".", ".", "b">>, 443)

Restarting ==
    {Container("inspect", "restrict", {Plain}, "once", TRUE, TRUE, 2),
     Container("inspect", "restrict", {Hollow}, "once", FALSE, FALSE, 1),
     Container("inspect", "audit", {Plain, Hollow}, "once", FALSE, FALSE, 1),
     Container("universal", "restrict", {Plain}, "once", TRUE, TRUE, 2),
     Container("universal", "restrict", {Hollow}, "once", FALSE, FALSE, 1)}

MCConfigurations == ByName \cup ByPath \cup ByPort \cup Restarting

\* A rule's name and nothing else.
MCNamed == {Runs("inspect", {r}, "names") : r \in Accepted(HostRules)}

\* The suppositions of the proofs hold here, but for the upper-case hosts of the
\* run that shows what those do.
ASSUME Suppositions ==
    DocumentedRules /\ AskAnything /\ (("A" \in PatternLetters) <=> ~LowerCaseHosts)
================================================================================
