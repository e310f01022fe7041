------------------------------- MODULE RuleMatch -------------------------------
(***************************************************************************)
(* The compilers that turn rules into expressions, and what HAProxy and    *)
(* CoreDNS make of them.  A pattern, a name and a path are sequences of    *)
(* characters.  A compiled expression is a sequence of pieces, each with   *)
(* the characters it takes, how many at least, and whether it takes more.  *)
(* A `~` rule is an expression already and is not among the rules here.    *)
(***************************************************************************)
EXTENDS Naturals, Sequences

CONSTANTS
    Letters,        \* the characters that are no separator and no wildcard
    Lower,          \* [Letters -> Letters]
    Ports,
    DefaultPort,    \* [{"https", "http"} -> Ports]
    AnyPort,        \* `*` for a port
    NoPort,         \* a URL that names none
    None

ASSUME LettersOK ==
    /\ Lower \in [Letters -> Letters] /\ \A c \in Letters : Lower[Lower[c]] = Lower[c]
    /\ DefaultPort \in [{"https", "http"} -> Ports]
    /\ Letters \cap {".", "/", "*", "?"} = {}
    /\ {AnyPort, NoPort, None} \cap Ports = {} /\ AnyPort # NoPort

Chars == Letters \cup {".", "/"}
Texts == Seq(Chars)
Patterns == Seq(Chars \cup {"*", "?"})

LowerChar(c) == IF c \in Letters THEN Lower[c] ELSE c

Among(c, s) == \E i \in DOMAIN s : s[i] = c

--------------------------------------------------------------------------------
(* partial-wildcard.ts: the compiler of the inspect engine. *)

Piece(of, least, more) == [of |-> of, least |-> least, more |-> more]
Literal(c) == Piece({c}, 1, FALSE)

Vocabulary(separator, least) ==
    [across |-> Piece(Chars, least, TRUE),
     within |-> Piece(Chars \ {separator}, 1, TRUE),
     single |-> Piece(Chars \ {separator}, 1, FALSE)]

DOMAIN_ == Vocabulary(".", 1)
PATH == Vocabulary("/", 0)

\* Mutant of AtomToRegex: one `*` at a time.
AtomToRegexShortest(atom, vocab) ==
    [i \in DOMAIN atom |-> IF atom[i] = "*" THEN vocab.within
                           ELSE IF atom[i] = "?" THEN vocab.single ELSE Literal(atom[i])]

\* Longest match first.  No wildcard is spelled with a separator, so the labels
\* or segments of a pattern are compiled where they stand, separators literal.
AtomToRegex(atom, vocab) ==
    LET from[i \in 1..Len(atom) + 1] ==
            IF i > Len(atom) THEN <<>>
            ELSE IF atom[i] # "*"
            THEN <<IF atom[i] = "?" THEN vocab.single ELSE Literal(atom[i])>> \o from[i + 1]
            ELSE IF i < Len(atom) /\ atom[i + 1] = "*"
            THEN <<vocab.across>> \o from[i + 2]
            ELSE <<vocab.within>> \o from[i + 1]
    IN from[1]

\* What lies between the separators of a domain.
Labels(domain) ==
    {SubSeq(domain, p[1], p[2]) : p \in
        {p \in (1..Len(domain) + 1) \X (0..Len(domain)) :
            /\ p[1] <= p[2] + 1
            /\ p[1] = 1 \/ domain[p[1] - 1] = "."
            /\ p[2] = Len(domain) \/ domain[p[2] + 1] = "."
            /\ \A i \in p[1]..p[2] : domain[i] # "."}}

HasEmptyLabel(domain) == <<>> \in Labels(domain)

DomainToRegexPartial(domain) == AtomToRegex(domain, DOMAIN_)
PathToRegexPartial(path) == AtomToRegex(path, PATH)

--------------------------------------------------------------------------------
(* wildcard-rules.ts: the compiler the other engines and the setup step use. *)

\* A label that holds a `*` is `*` or `**`; a label may be empty.
StrictDomain(domain) ==
    /\ domain # <<>>
    /\ \A label \in Labels(domain) : Among("*", label) => label \in {<<"*">>, <<"*", "*">>}

\* The expression of a domain this compiler accepts is spelled like the other's.
DomainToRegex(domain) == AtomToRegex(domain, DOMAIN_)

--------------------------------------------------------------------------------
(* Rules: [form, scheme, methods, host, port, path], of which a host rule     *)
(* names no path and any method.                                              *)

RuleOK(rule) ==
    /\ rule.form \in {"host", "url"} /\ rule.scheme \in {"https", "http", "tls"}
    /\ rule.host \in Patterns /\ rule.path \in Patterns
    /\ rule.port \in Ports \cup {AnyPort, NoPort} /\ rule.methods # None
    /\ rule.form = "host" => rule.path = <<>> /\ rule.methods = {"*"}
    /\ rule.form = "url" => rule.scheme # "tls"

\* A question: [scheme, name, port, path, method].
QuestionOK(q) ==
    /\ q.scheme \in {"https", "http"} /\ q.name \in Texts /\ q.port \in Ports
    /\ q.path \in Texts /\ q.path # <<>> /\ q.path[1] = "/"

WellFormedUrl(rule) == rule.methods # {} /\ rule.host # <<>> /\ ~HasEmptyLabel(rule.host)

\* Mutant of SetupAccepts: host rules are held to the other compiler's grammar.
SetupAcceptsPartial(rule) ==
    IF rule.form = "host" THEN rule.host # <<>> /\ rule.port # NoPort ELSE WellFormedUrl(rule)

\* parseAndValidateRules of a host rule, convertUrlRule of a URL rule.
SetupAccepts(rule) ==
    IF rule.form = "host" THEN StrictDomain(rule.host) /\ rule.port # NoPort ELSE WellFormedUrl(rule)

\* What the generator of each engine compiles without an error.
Compiles(engine, rule) ==
    CASE engine = "universal" -> StrictDomain(rule.host) /\ rule.port # NoPort
      [] engine = "inspect" /\ rule.form = "host" -> rule.host # <<>> /\ ~HasEmptyLabel(rule.host) /\ rule.port # NoPort
      [] OTHER -> WellFormedUrl(rule)

\* `^/`
AnyPath == <<Literal("/"), Piece(Chars, 0, TRUE)>>

PortOf(port) == IF port = AnyPort THEN None ELSE port

\* convertRule, matched against host and port as one; case is not folded.
ConvertRule(rule) ==
    [scheme |-> rule.scheme, host |-> DomainToRegex(rule.host), port |-> PortOf(rule.port),
     path |-> AnyPath, methods |-> None]

HostRuleToMatcher(rule) ==
    [scheme |-> rule.scheme, host |-> DomainToRegexPartial(rule.host), port |-> PortOf(rule.port),
     path |-> AnyPath, methods |-> None]

CompileUrl(rule) ==
    [scheme |-> rule.scheme, host |-> DomainToRegexPartial(rule.host),
     port |-> IF rule.port = NoPort THEN DefaultPort[rule.scheme] ELSE PortOf(rule.port),
     path |-> IF rule.path = <<>> THEN AnyPath ELSE PathToRegexPartial(rule.path),
     methods |-> IF "*" \in rule.methods THEN None ELSE rule.methods]

CompileRule(engine, rule) ==
    CASE engine = "universal" -> ConvertRule(rule)
      [] engine = "inspect" /\ rule.form = "host" -> HostRuleToMatcher(rule)
      [] OTHER -> CompileUrl(rule)

--------------------------------------------------------------------------------
(* Matching. *)

\* The whole of s, as the anchors say.
Matches(re, s) ==
    LET from[at \in (1..Len(re) + 1) \X (1..Len(s) + 1)] ==
            LET i == at[1]
                j == at[2]
            IN IF i > Len(re) THEN j > Len(s)
               ELSE \/ re[i].least = 0 /\ from[<<i + 1, j>>]
                    \/ /\ j <= Len(s) /\ s[j] \in re[i].of
                       /\ from[<<i + 1, j + 1>>] \/ (re[i].more /\ from[<<i, j + 1>>])
    IN from[<<1, 1>>]

LowerAll(s) == [i \in DOMAIN s |-> LowerChar(s[i])]

\* -m reg -i
MatchesAnyCase(re, s) ==
    Matches([i \in DOMAIN re |-> [re[i] EXCEPT !.of = {LowerChar(c) : c \in @}]], LowerAll(s))

\* The rule's acl for the name, and those for the rest of a request.  A tls rule
\* is judged on the name the handshake gives.
AdmitsName(engine, compiled, name) ==
    IF engine = "universal" THEN Matches(compiled.host, name) ELSE MatchesAnyCase(compiled.host, name)

AdmitsRequest(compiled, q) ==
    /\ compiled.scheme = q.scheme \/ (compiled.scheme = "tls" /\ q.scheme = "https")
    /\ compiled.port \in {None, q.port}
    /\ compiled.scheme = "tls" \/ Matches(compiled.path, q.path)
    /\ compiled.methods = None \/ q.method \in compiled.methods

Admits(engine, compiled, q) == AdmitsName(engine, compiled, q.name) /\ AdmitsRequest(compiled, q)

\* gen-configs: audit has no allowlist to pass on, but for tls rules.
PassedOn(mode, rules) == IF mode = "audit" THEN {r \in rules : r.scheme = "tls"} ELSE rules

ProxyAdmits(engine, mode, rules, q) ==
    mode = "audit" \/ \E rule \in rules : Admits(engine, CompileRule(engine, rule), q)

\* Mutant of HostRegexOfRule: the last label is cut off with the port.
HostRegexCutShort(rule) ==
    LET re == DomainToRegexPartial(rule.host) IN IF Len(re) > 1 THEN SubSeq(re, 1, Len(re) - 1) ELSE re

\* hostRegexOfHostRule, hostRegexOfUrlRule.
HostRegexOfRule(rule) == DomainToRegexPartial(rule.host)

\* The view is given the name in lower case and matches it as it is.
ViewLogs(mode, rules, name) ==
    IF mode = "audit" \/ \E rule \in rules : Matches(HostRegexOfRule(rule), LowerAll(name))
    THEN "allowed" ELSE "denied"

--------------------------------------------------------------------------------
(* What the README says of a rule, for the checks to compare with. *)

\* `***` is not documented.
NoTripleStar(p) == \A i \in 1..Len(p) - 2 : ~(p[i] = "*" /\ p[i + 1] = "*" /\ p[i + 2] = "*")

\* The elements of a pattern, by where they start.
Elements(p) == {i \in DOMAIN p : p[i] # "*" \/ i = 1 \/ p[i - 1] # "*"}

\* `**` is taken across separators, `*` and `?` are not, anything else is itself.
Wide(p, i) == i < Len(p) /\ p[i] = "*" /\ p[i + 1] = "*"
Takes(p, separator, i, c) == IF p[i] \in {"*", "?"} THEN Wide(p, i) \/ c # separator ELSE p[i] = c

\* Every character of s belongs to one element of p, in order, and to one that
\* takes it; only those that start with a `*` have more than one, and only a
\* `**` may have none, if least is 0.
Fits(p, s, separator, least) ==
    \E owner \in [DOMAIN s -> Elements(p)] :
        /\ \A j, k \in DOMAIN s : j < k => owner[j] <= owner[k] /\ (p[owner[j]] # "*" => owner[j] # owner[k])
        /\ \A j \in DOMAIN s : Takes(p, separator, owner[j], s[j])
        /\ \A i \in Elements(p) : (Wide(p, i) /\ least = 0) \/ \E j \in DOMAIN s : owner[j] = i

Permits(engine, rule, q) ==
    /\ rule.scheme = q.scheme \/ (rule.scheme = "tls" /\ q.scheme = "https")
    /\ IF engine = "universal" THEN Fits(rule.host, q.name, ".", 1)
       ELSE Fits(LowerAll(rule.host), LowerAll(q.name), ".", 1)
    /\ \/ rule.port \in {AnyPort, q.port}
       \/ rule.port = NoPort /\ q.port = DefaultPort[rule.scheme]
    /\ rule.path = <<>> \/ Fits(rule.path, q.path, "/", 0)
    /\ {"*", q.method} \cap rule.methods # {}
================================================================================
