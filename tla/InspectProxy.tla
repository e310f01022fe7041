------------------------------ MODULE InspectProxy ------------------------------
(***************************************************************************)
(* The inspect engine's HAProxy, as haproxy-config.ts configures it: what  *)
(* happens to a connection of the build from the first byte to the line in *)
(* the log, and what the report (log/inspect.ts) makes of that line.       *)
(*                                                                         *)
(* An authority is a <<host, port>> pair; the regular expressions rules    *)
(* are compiled to are the sets of authorities and paths they match.  The  *)
(* port is always the connection's (dst_port), never the Host header's.    *)
(***************************************************************************)
EXTENDS Integers, Sequences, SequencesExt

CONSTANTS
    Conns,          \* connections of the build
    Names, Addrs,   \* what a host can be
    Ports,
    DefaultPort,    \* [{"https", "http"} -> Ports]
    Internal,       \* INTERNAL_RANGES and the proxy's own address
    Answers,        \* [Names -> SUBSET Addrs]: what DNS may answer
    HttpRules,      \* compiled host and URL rules
    TlsRules,       \* the <<name, port>> pairs the tls rules match
    IpRules,        \* the <<address, port>> pairs the ip rules match
    Mode,           \* "restrict" or "audit"
    Opens,          \* the connections the build may open
    Requests,       \* the requests it may send
    OriginEnds,     \* how an origin's side of a connection may end
    ClientEnds,     \* how the build's own side may, in the middle of an exchange
    MaxExchanges,   \* bound on what the build starts on one connection
    Unknown,        \* DNS has no address for the name
    None

Hosts == Names \cup Addrs

ASSUME RulesOK ==
    /\ \A r \in HttpRules :
          /\ r.scheme \in {"https", "http"}
          /\ r.authority \subseteq Hosts \X (Ports \cup {None})
    /\ DefaultPort \in [{"https", "http"} -> Ports]
    /\ TlsRules \subseteq Names \X Ports
    /\ IpRules \subseteq Addrs \X Ports
    /\ Internal \subseteq Addrs
    /\ Mode \in {"restrict", "audit"}
    /\ Names \cap Addrs = {}
    /\ None \notin Hosts \cup Ports \cup {Unknown}
    /\ Unknown \notin Hosts
    /\ Answers \in [Names -> SUBSET Addrs]
    /\ MaxExchanges \in Nat
    /\ ClientEnds \subseteq {"abort", "timeout"}

\* What paths are made of.
Segments == {".."} \cup UNION {{q.path[i] : i \in DOMAIN q.path} : q \in Requests}

\* What the build can open and send.  Only a TLS hello carries a name.
ASSUME BuildOK ==
    /\ Opens \subseteq [addr : Addrs, port : Ports, hello : {"tls", "plain", "none"},
                        sni : Names \cup {None}]
    /\ \A o \in Opens : o.sni # None => o.hello = "tls"
    /\ \A q \in Requests : q.host \in Hosts /\ q.path \in Seq(Segments)

VARIABLES
    conn,       \* [Conns -> what the proxy knows of a connection]
    left,       \* how much the build may still start on each
    cache,      \* what the resolver holds for a name; None: nothing
    inflight,   \* the names asked for and not yet answered
    queried,    \* every name ever asked for
    reached,    \* every <<exchange, address>> ever connected to
    log         \* the lines logged, each with what really happened

vars == <<conn, left, cache, inflight, queried, reached, log>>

--------------------------------------------------------------------------------
(* Rules. *)

\* A rule of a ~ URL leaves its port out: then it is the scheme's own.
HostMatches(r, s, h, p) ==
    \/ <<h, p>> \in r.authority
    \/ p = DefaultPort[s] /\ <<h, None>> \in r.authority

\* The clause of one rule in the deny of ruleBlock; no methods: any.
Matches(r, x) ==
    /\ r.scheme = x.via
    /\ HostMatches(r, x.via, x.host, x.port)
    /\ x.path \in r.paths
    /\ r.methods = {} \/ x.method \in r.methods

RuleBlockAdmits(x) == Mode = "audit" \/ \E r \in HttpRules : Matches(r, x)

\* Mutant of BySni: the port of a tls rule is left out.
BySniAnyPort(o) == \E p \in Ports : <<o.sni, p>> \in TlsRules

BySni(o) == <<o.sni, o.port>> \in TlsRules

ByAddress(o) == <<o.addr, o.port>> \in IpRules

\* txn.pass
Pass(o) == ByAddress(o) \/ <<o.sni, o.port>> \in TlsRules

--------------------------------------------------------------------------------
(* Paths: sequences of segments, as normalize-uri sees them. *)

\* percent-decode-unreserved; %2f and %5c are reserved and stay.
Decoded(segment) == IF segment = "%2e%2e" THEN ".." ELSE segment

\* path-strip-dotdot merges a .. with the segment before it, if there is one.
Strip(done, segment) ==
    IF Decoded(segment) = ".." /\ done # <<>> /\ Last(done) # ".."
    THEN Front(done) ELSE Append(done, Decoded(segment))

Normalised(path) ==
    LET done[i \in 0..Len(path)] == IF i = 0 THEN <<>> ELSE Strip(done[i - 1], path[i])
    IN done[Len(path)]

\* What no normaliser can strip.
Traversal(path) == \E i \in DOMAIN path : path[i] \in {"..", "..%2f", "..%5c", "\\"}

--------------------------------------------------------------------------------
(* Exchanges, connections and lines. *)

\* What a passthrough is: by its name when a tls rule asked for it.  The proto
\* it is logged with goes by its first bytes alone.
Tunnel(o) ==
    [via |-> IF BySni(o) THEN "tls" ELSE "tcp", host |-> o.sni, addr |-> o.addr, port |-> o.port,
     path |-> <<>>, method |-> None, proto |-> IF o.hello = "tls" THEN "tls" ELSE "tcp"]

\* A request as the rules see it.
Exchange(o, q) ==
    LET scheme == IF o.hello = "tls" THEN "https" ELSE "http" IN
    [via |-> scheme, host |-> q.host, addr |-> o.addr, port |-> o.port,
     path |-> Normalised(q.path), method |-> q.method, proto |-> scheme]

\* One that never came in full.
NoRequest == [host |-> None, path |-> <<>>, method |-> None]

Exchanges == {Tunnel(o) : o \in Opens} \cup {Exchange(o, q) : o \in Opens, q \in Requests}

\* What the rules permit of them.
Permitted ==
    {x \in Exchanges :
        \/ x.via = "tls" /\ <<x.host, x.port>> \in TlsRules
        \/ x.via = "tcp" /\ <<x.addr, x.port>> \in IpRules
        \/ x.via \in {"https", "http"} /\ ~Traversal(x.path) /\ RuleBlockAdmits(x)}

\* host_is_address: the Host header is the destination.  A tcp passthrough
\* goes where the build sent it.
AddressOf(x) ==
    IF x.via = "tcp" THEN x.addr ELSE IF x.via \in {"https", "http"} /\ x.host \in Addrs THEN x.host ELSE None

NameOf(x) == IF x.via # "tcp" /\ x.host \in Names THEN x.host ELSE None

Off == [phase |-> "off", open |-> None, x |-> None, dst |-> None]

In(c, phase) == conn[c].phase = phase

\* A denied or finished request leaves the connection to the next one.
After(c) ==
    IF conn[c].x.via \in {"tls", "tcp"} THEN Off
    ELSE [conn[c] EXCEPT !.phase = "idle", !.x = None, !.dst = None]

\* A termination state is who ended the exchange, and when.
TS(who, when) == [who |-> who, when |-> when]

Line(x, dst, status, ts) ==
    [kind |-> x.proto, host |-> x.host, port |-> x.port, dst |-> dst, status |-> status, ts |-> ts]

\* why: the reason for a refusal or "none"; answered: by an origin.
Record(line, why, answered) ==
    log' = log \cup {[line |-> line, why |-> why, answered |-> answered]}

--------------------------------------------------------------------------------
Init ==
    /\ conn = [c \in Conns |-> Off]
    /\ left = [c \in Conns |-> MaxExchanges]
    /\ cache = [n \in Names |-> None]
    /\ inflight = {}
    /\ queried = {}
    /\ reached = {}
    /\ log = {}

\* The build connects somewhere; iptables redirects it to the detect frontend.
Open(c) ==
    /\ In(c, "off") /\ left[c] > 0
    /\ left' = [left EXCEPT ![c] = @ - 1]
    /\ \E o \in Opens :
          conn' = [conn EXCEPT ![c] = [phase |-> "detect", open |-> o, x |-> None, dst |-> o.addr]]
    /\ UNCHANGED <<cache, inflight, queried, reached, log>>

\* The first bytes came, or the inspect-delay is over.
Classify(c) ==
    LET o == conn[c].open IN
    /\ In(c, "detect")
    /\ \/ /\ BySni(o)
          /\ conn' = [conn EXCEPT ![c].phase = "resolve", ![c].x = Tunnel(o)]
       \/ /\ ~BySni(o) /\ Pass(o)
          /\ conn' = [conn EXCEPT ![c].phase = "connect", ![c].x = Tunnel(o)]
       \/ /\ ~BySni(o) /\ ~Pass(o)
          /\ conn' = [conn EXCEPT ![c].phase = "idle"]
    /\ UNCHANGED <<left, cache, inflight, queried, reached, log>>

\* A request of an inspected connection and the rules, which decide on it alone.
Request(c) ==
    LET o == conn[c].open IN
    /\ In(c, "idle") /\ left[c] > 0 /\ o.hello # "none"
    /\ left' = [left EXCEPT ![c] = @ - 1]
    /\ \E q \in Requests :
          LET x == Exchange(o, q) IN
          \/ /\ Traversal(x.path) \/ ~RuleBlockAdmits(x)
             /\ Record(Line(x, o.addr, 403, TS("P", "R")),
                       IF Traversal(x.path) THEN "traversal" ELSE "rule", FALSE)
             /\ UNCHANGED conn
          \/ /\ ~Traversal(x.path) /\ RuleBlockAdmits(x)
             /\ conn' = [conn EXCEPT ![c] =
                            [@ EXCEPT !.x = x,
                                !.phase = IF x.host \in Addrs THEN "connect" ELSE "resolve",
                                !.dst = IF x.host \in Addrs THEN x.host ELSE o.addr]]
             /\ UNCHANGED log
    /\ UNCHANGED <<cache, inflight, queried, reached>>

\* The client closes between two requests, or timeout client does: there is a
\* line when the connection brought no request at all, or only part of one.
Close(c) ==
    LET x == Exchange(conn[c].open, NoRequest) IN
    /\ In(c, "idle")
    /\ \/ UNCHANGED log
       \/ "abort" \in ClientEnds /\ Record(Line(x, conn[c].dst, 400, TS("C", "R")), "none", FALSE)
       \/ "timeout" \in ClientEnds /\ Record(Line(x, conn[c].dst, 408, TS("c", "R")), "none", FALSE)
    /\ conn' = [conn EXCEPT ![c] = Off]
    /\ UNCHANGED <<left, cache, inflight, queried, reached>>

--------------------------------------------------------------------------------
(* do-resolve and what follows it, for a passthrough and for a request. *)

\* A name the resolver does not hold, and has not been asked for, is asked for.
Query(c) ==
    LET n == conn[c].x.host IN
    /\ In(c, "resolve") /\ cache[n] = None /\ n \notin inflight
    /\ inflight' = inflight \cup {n}
    /\ queried' = queried \cup {n}
    /\ UNCHANGED <<conn, left, cache, reached, log>>

\* Mutant of Answer: a resolver that never gives up on a name.
AnswerOnlyAddresses(n) ==
    /\ n \in inflight
    /\ inflight' = inflight \ {n}
    /\ \E a \in Answers[n] : cache' = [cache EXCEPT ![n] = a]
    /\ UNCHANGED <<conn, left, queried, reached, log>>

\* An answer, or the end of resolve_retries.
Answer(n) ==
    /\ n \in inflight
    /\ inflight' = inflight \ {n}
    /\ \E a \in Answers[n] \cup {Unknown} : cache' = [cache EXCEPT ![n] = a]
    /\ UNCHANGED <<conn, left, queried, reached, log>>

\* hold valid: what is held is dropped once nobody waits for it.
Expire(n) ==
    /\ cache[n] # None
    /\ \A c \in Conns : ~(In(c, "resolve") /\ conn[c].x.host = n)
    /\ cache' = [cache EXCEPT ![n] = None]
    /\ UNCHANGED <<conn, left, inflight, queried, reached, log>>

\* Mutant of RefuseUnresolved: the deny has no status of its own.
RefuseUnresolved403(c) ==
    /\ In(c, "resolve") /\ cache[conn[c].x.host] = Unknown
    /\ Record(Line(conn[c].x, conn[c].dst, 403, TS("P", "R")), "dns", FALSE)
    /\ conn' = [conn EXCEPT ![c] = After(c)]
    /\ UNCHANGED <<left, cache, inflight, queried, reached>>

\* Falling through would connect to the address the client chose.
RefuseUnresolved(c) ==
    /\ In(c, "resolve") /\ cache[conn[c].x.host] = Unknown
    /\ Record(Line(conn[c].x, conn[c].dst, 502, TS("P", "R")), "dns", FALSE)
    /\ conn' = [conn EXCEPT ![c] = After(c)]
    /\ UNCHANGED <<left, cache, inflight, queried, reached>>

\* Mutant of RefuseInternal: set-dst comes after the check.
RefuseInternalFirst(c) ==
    /\ In(c, "resolve") /\ cache[conn[c].x.host] \in Internal
    /\ Record(Line(conn[c].x, conn[c].dst, 403, TS("P", "R")), "internal", FALSE)
    /\ conn' = [conn EXCEPT ![c] = After(c)]
    /\ UNCHANGED <<left, cache, inflight, queried, reached>>

\* set-dst, then the check: the line shows the address that tripped it.
RefuseInternal(c) ==
    LET a == cache[conn[c].x.host] IN
    /\ In(c, "resolve") /\ a \in Internal
    /\ Record(Line(conn[c].x, a, 403, TS("P", "R")), "internal", FALSE)
    /\ conn' = [conn EXCEPT ![c] = After(c)]
    /\ UNCHANGED <<left, cache, inflight, queried, reached>>

\* Mutant of Resolved: the internal check is left out.
ResolvedAnywhere(c) ==
    LET a == cache[conn[c].x.host] IN
    /\ In(c, "resolve") /\ a \in Addrs
    /\ conn' = [conn EXCEPT ![c].dst = a, ![c].phase = "connect"]
    /\ UNCHANGED <<left, cache, inflight, queried, reached, log>>

\* Only now the destination is the proxy's choice.
Resolved(c) ==
    LET a == cache[conn[c].x.host] IN
    /\ In(c, "resolve") /\ a \in Addrs \ Internal
    /\ conn' = [conn EXCEPT ![c].dst = a, ![c].phase = "connect"]
    /\ UNCHANGED <<left, cache, inflight, queried, reached, log>>

--------------------------------------------------------------------------------
(* The origin. *)

\* How an exchange that was connected ended.
Ended(c, status, ts, answered) ==
    Record(Line(conn[c].x, conn[c].dst, status, ts), "none", answered)

\* The backend connects; the origin's certificate is checked here.
Connect(c) ==
    /\ In(c, "connect")
    /\ reached' = reached \cup {<<conn[c].x, conn[c].dst>>}
    /\ conn' = [conn EXCEPT ![c].phase = "connecting"]
    /\ UNCHANGED <<left, cache, inflight, queried, log>>

\* "refused": no connection, or a certificate that does not verify;
\* "connectTimeout": timeout connect.  Both are logged with status 503.
ConnectFails(c) ==
    /\ In(c, "connecting")
    /\ \/ "refused" \in OriginEnds /\ Ended(c, 503, TS("S", "C"), FALSE)
       \/ "connectTimeout" \in OriginEnds /\ Ended(c, 503, TS("s", "C"), FALSE)
    /\ conn' = [conn EXCEPT ![c] = After(c)]
    /\ UNCHANGED <<left, cache, inflight, queried, reached>>

\* An origin answers, with a status of its own that may be 403 or 503 too, and
\* the answer ends, or is aborted in its middle; or the origin hangs up, or is
\* silent until timeout server, before it has answered.
OriginEndsIt(c) ==
    /\ In(c, "connecting")
    /\ \/ \E status \in {200, 403, 503} : Ended(c, status, TS("-", "-"), TRUE)
       \/ "abort" \in OriginEnds /\ Ended(c, 200, TS("S", "D"), TRUE)
       \/ "hangup" \in OriginEnds /\ Ended(c, 502, TS("S", "H"), FALSE)
       \/ "silence" \in OriginEnds /\ Ended(c, 504, TS("s", "H"), FALSE)
    /\ conn' = [conn EXCEPT ![c] = After(c)]
    /\ UNCHANGED <<left, cache, inflight, queried, reached>>

\* How far an exchange got, as a termination state says it.
Stage(c) == IF In(c, "resolve") THEN "R" ELSE IF In(c, "connect") THEN "C" ELSE "H"

\* The build hangs up in the middle of an exchange, or neither sends nor takes
\* anything until timeout client: a line with a status although nobody
\* answered, or that of an answer under way.
ClientEndsIt(c) ==
    /\ conn[c].phase \in {"resolve", "connect", "connecting"}
    /\ \/ "abort" \in ClientEnds /\ Ended(c, -1, TS("C", Stage(c)), FALSE)
       \/ "timeout" \in ClientEnds /\ Ended(c, 408, TS("c", Stage(c)), FALSE)
       \/ /\ In(c, "connecting")
          /\ \/ "abort" \in ClientEnds /\ Ended(c, 200, TS("C", "D"), TRUE)
             \/ "timeout" \in ClientEnds /\ Ended(c, 200, TS("c", "D"), TRUE)
    /\ conn' = [conn EXCEPT ![c] = Off]
    /\ UNCHANGED <<left, cache, inflight, queried, reached>>

Proxy(c) ==
    \/ Classify(c) \/ Close(c) \/ Query(c) \/ RefuseUnresolved(c) \/ RefuseInternal(c)
    \/ Resolved(c) \/ Connect(c) \/ ConnectFails(c) \/ OriginEndsIt(c)

Next ==
    \/ \E c \in Conns : Open(c) \/ Request(c) \/ ClientEndsIt(c) \/ Proxy(c)
    \/ \E n \in Names : Answer(n) \/ Expire(n)

\* HAProxy serves every connection, its resolver gives up after
\* resolve_retries, and its timeouts end what an origin leaves open.
Fairness ==
    /\ \A c \in Conns : WF_vars(Proxy(c))
    /\ \A n \in Names : WF_vars(Answer(n))

Spec == Init /\ [][Next]_vars

FairSpec == Spec /\ Fairness

--------------------------------------------------------------------------------
(* The report: parseProxyLine. *)

\* Mutant of Refused: every status of 4xx and 5xx is one.
RefusedByStatus(line) == line.status >= 400

\* P: a deny or reject; S: an origin that cannot be reached or verified.
Refused(line) == line.ts.who \in {"P", "S"}

Action(line) == IF Refused(line) THEN "block" ELSE IF Mode = "audit" THEN "audit" ELSE "allow"

\* reasonForStatus; a passthrough has no status and one reason only.
Reason(line) ==
    IF line.kind \in {"tls", "tcp"} THEN "not-allowed"
    ELSE CASE line.status = 502 -> "dns-failed"
           [] line.status = 503 -> "origin-unreachable"
           [] OTHER -> "not-allowed"

\* Only what was not refused has a status, and no passthrough has.
HasStatus(line) == ~Refused(line) /\ line.kind \in {"https", "http"}

--------------------------------------------------------------------------------
(* Properties. *)

ConnStates ==
    [phase : {"off", "detect", "idle", "resolve", "connect", "connecting"},
     open : Opens \cup {None}, x : Exchanges \cup {None}, dst : Addrs \cup {None}]

\* Every variable holds a value of its kind.
TypeOK ==
    /\ conn \in [Conns -> ConnStates]
    /\ \A c \in Conns : ~In(c, "off") => conn[c].open \in Opens
    /\ \A c \in Conns : conn[c].phase \in {"resolve", "connect", "connecting"} =>
          conn[c].x \in Exchanges /\ conn[c].dst \in Addrs
    /\ left \in [Conns -> 0..MaxExchanges]
    /\ cache \in [Names -> Addrs \cup {Unknown, None}]
    /\ inflight \subseteq Names
    /\ queried \subseteq Names
    /\ reached \subseteq Exchanges \X Addrs

\* Why the policy is kept, as an inductive invariant: only a permitted exchange
\* gets past the rules, what is being connected to is its own address or an
\* answer for its own name that is not internal, and the resolver holds
\* nothing it was not asked for.
PolicyInv ==
    /\ \A c \in Conns : In(c, "detect") => conn[c].dst = conn[c].open.addr
    /\ \A c \in Conns : conn[c].phase \in {"resolve", "connect", "connecting"} => conn[c].x \in Permitted
    /\ \A c \in Conns : In(c, "resolve") => conn[c].x.via # "tcp" /\ conn[c].x.host \in Names
    /\ \A c \in Conns : conn[c].phase \in {"connect", "connecting"} =>
          LET x == conn[c].x  d == conn[c].dst IN
          \/ AddressOf(x) # None /\ d = AddressOf(x)
          \/ NameOf(x) \in queried /\ d \in Answers[NameOf(x)] \ Internal
    /\ inflight \subseteq queried
    /\ \A n \in Names : cache[n] # None =>
          n \in queried /\ cache[n] \in Answers[n] \cup {Unknown}

Policy == INSTANCE EgressPolicy

\* "The destination is resolved by the proxy, never chosen by the build, and
\* only after a request has already passed the rules" (docs/security.md), for
\* passthroughs as for requests, whatever else is asked for on the same
\* connection or resolved for another one: the proxy implements EgressPolicy.
KeepsPolicy == Policy!Spec

\* What any line the proxy logs says of the exchange: a deny is a termination
\* of its own with the status of its reason, and no status alone tells an
\* origin's answer from the proxy's.  The strengthening under which the
\* properties of the log are inductive.
LineOK(r) ==
    /\ r.why # "none" =>
          /\ r.line.ts = TS("P", "R") /\ ~r.answered
          /\ r.line.status = IF r.why = "dns" THEN 502 ELSE 403
    /\ r.why = "none" =>
          \/ r.line.ts = TS("-", "-") /\ r.answered
          \/ r.line.ts = TS("S", "D") /\ r.line.status = 200 /\ r.answered /\ "abort" \in OriginEnds
          \/ r.line.ts \in {TS("S", "C"), TS("s", "C")} /\ r.line.status = 503 /\ ~r.answered
          \/ r.line.ts = TS("S", "H") /\ r.line.status = 502 /\ ~r.answered
          \/ r.line.ts = TS("s", "H") /\ r.line.status = 504 /\ ~r.answered
          \/ r.line.ts.who \in {"C", "c"}

LogInv == \A r \in log : LineOK(r)

\* The line is of this exchange, at the address it was connected to.
Tells(line, y) ==
    line.kind = y[1].proto /\ line.host = y[1].host /\ line.port = y[1].port /\ line.dst = y[2]

\* "Its only record" (haproxy-config.ts, of a passthrough): whatever was
\* connected to is still connected or stands in the log under its own host and
\* address, though several exchanges share a connection and any of its ends may
\* end it; a line that speaks of an origin is of a connection there was; and "a
\* refusal must show the address that tripped it", an internal one that DNS
\* gave for the very name in the line.
TrafficLogged ==
    /\ \A y \in reached :
          \/ \E c \in Conns : In(c, "connecting") /\ y = <<conn[c].x, conn[c].dst>>
          \/ \E r \in log : Tells(r.line, y)
    /\ \A r \in log :
          /\ r.line.ts.who \in {"-", "S", "s"} => \E y \in reached : Tells(r.line, y)
          /\ r.why = "internal" => r.line.dst \in Internal \cap Answers[r.line.host]

\* Whatever the proxy refused is a block in the report, for the reason it was
\* refused for, also in audit; and of the other ends of an exchange only
\* an origin that hangs up without an answer is taken for a failed resolution.
RefusalsReported ==
    \A r \in log :
        /\ r.why # "none" =>
              /\ Action(r.line) = "block"
              /\ r.line.kind \in {"https", "http"} =>
                    Reason(r.line) = IF r.why = "dns" THEN "dns-failed" ELSE "not-allowed"
        /\ Refused(r.line) /\ Reason(r.line) = "dns-failed" => r.why = "dns" \/ r.line.ts = TS("S", "H")

\* "Whether buildcage ended the exchange, rather than an origin answering"
\* (log/inspect.ts): what an origin answered is never a block, or the report
\* would fail a build where nothing was blocked.  A line with a status had an
\* answer, or it was the build that ended the exchange, or the proxy ran out
\* of time for an origin: then it has one although nothing answered.
BlockMeansNoAnswer ==
    \A r \in log :
        /\ Action(r.line) = "block" => ~r.answered
        /\ HasStatus(r.line) => r.answered \/ r.line.ts.who \in {"s", "C", "c"}

\* No connection waits for ever for a name, whoever else asked for it.
ResolutionEnds == \A c \in Conns : In(c, "resolve") ~> ~In(c, "resolve")
================================================================================
