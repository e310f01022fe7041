----------------------------- MODULE ExplicitPolicy -----------------------------
(***************************************************************************)
(* The explicit engine: the source policy source-policy.ts compiles, how   *)
(* buildkit-proxy (solve.go) merges it into the solves of the clients, what *)
(* BuildKit's policy engine makes of it for each source a build asks for,  *)
(* and what the report makes of the denials in buildkitd's log.            *)
(*                                                                         *)
(* A source is a scheme, a host and a port, which is None when the request *)
(* named none; paths are left out, no rule looks at them.  A compiled rule *)
(* is the set of sources its selector matches.                             *)
(***************************************************************************)
EXTENDS Naturals, Sequences

CONSTANTS
    Builds,         \* solves that may run at the same time
    Sources,        \* what a build may ask for, or be converted to
    Ports,
    DefaultPort,    \* [{"https", "http"} -> Ports]
    HttpsRules, HttpRules, IpRules,     \* the inputs, a sequence of rules each
    KnownBlocked,   \* known_blocked_rules, likewise
    Mode,           \* "restrict" or "audit"
    Clients,        \* the source policies a client may bring, None included
    MaxPasses,      \* how often BuildKit evaluates a source again
    MaxAsks,        \* bound on the sources asked for in each place of Builds
    None

Web == {x \in Sources : x.scheme \in {"https", "http"}}

\* A wildcard rule names one port or, with *, all of them; a regex the ports
\* its expression matches, None when it also matches a name without a port.
Rule(r) ==
    /\ r.form \in {"wildcard", "regex"}
    /\ r.ports \subseteq Ports \cup {None}
    /\ r.form = "wildcard" => r.ports = Ports \/ \E p \in Ports : r.ports = {p}

Selectors == [action : {"ALLOW", "DENY", "CONVERT"}, matches : SUBSET Sources, to : Sources \cup {None}]

ASSUME PolicyOK ==
    /\ \A x \in Sources : x.scheme \in {"https", "http"} => x.port \in Ports \cup {None}
    /\ DefaultPort \in [{"https", "http"} -> Ports]
    /\ None \notin Ports /\ None \notin Sources
    /\ \A rules \in {HttpsRules, HttpRules, IpRules, KnownBlocked} :
          rules \in Seq([form : {"wildcard", "regex"}, hosts : SUBSET {x.host : x \in Sources},
                         ports : SUBSET (Ports \cup {None})])
    /\ \A rules \in {HttpsRules, HttpRules, IpRules, KnownBlocked} :
          \A i \in DOMAIN rules : Rule(rules[i])
    /\ Mode \in {"restrict", "audit"}
    /\ Clients \subseteq Seq(Selectors) \cup {None}
    /\ \A c \in Clients \ {None} : \A i \in DOMAIN c : c[i].action = "CONVERT" <=> c[i].to # None
    /\ MaxPasses \in Nat /\ MaxAsks \in Nat

VARIABLES
    policy,     \* solveServer.policy
    solve,      \* [Builds -> what BuildKit holds of a solve]
    fetched,    \* what was fetched: the source, for whom
    denied,     \* what was refused, likewise
    log         \* the lines of buildkitd's log

vars == <<policy, solve, fetched, denied, log>>

--------------------------------------------------------------------------------
(* buildSourcePolicy. *)

\* Mutant of PortsFor: a name without a port matches no rule.
PortsForNamed(r, s) == r.ports

\* BuildKit leaves a port out that the request left out: the port of a
\* wildcard is optional when it can be the scheme's own.  A regex is not
\* looked into.
PortsFor(r, s) ==
    IF r.form = "wildcard" /\ (r.ports = Ports \/ r.ports = {DefaultPort[s]})
    THEN r.ports \cup {None} ELSE r.ports

AllowRule(r, s) ==
    [action |-> "ALLOW", to |-> None,
     matches |-> {x \in Sources : x.scheme = s /\ x.host \in r.hosts /\ x.port \in PortsFor(r, s)}]

CatchAll == [action |-> "DENY", matches |-> Web, to |-> None]

AllowRules(rules, s) == [i \in DOMAIN rules |-> AllowRule(rules[i], s)]

\* An ip rule is one for either scheme.
AllowIp ==
    [i \in 1..(2 * Len(IpRules)) |->
        AllowRule(IpRules[(i + 1) \div 2], IF i % 2 = 1 THEN "https" ELSE "http")]

\* Of the rules that match the last one wins, so the catch-all comes first.
BuildSourcePolicy ==
    IF Mode = "audit" THEN <<>>
    ELSE <<CatchAll>> \o AllowRules(HttpsRules, "https") \o AllowRules(HttpRules, "http") \o AllowIp

--------------------------------------------------------------------------------
(* BuildKit's policy engine, as solve.go describes it. *)

\* Denied when the last rule that matches is a DENY; allowed when none matches.
Denies(p, x) ==
    \E i \in DOMAIN p :
        /\ p[i].action = "DENY" /\ x \in p[i].matches
        /\ \A j \in DOMAIN p : j > i /\ p[j].action = "ALLOW" => x \notin p[j].matches

\* The rules that would make another source of it.
Conversions(p, x) == {i \in DOMAIN p : p[i].action = "CONVERT" /\ x \in p[i].matches /\ p[i].to # x}

Idle == [phase |-> "idle", client |-> None, policy |-> <<>>, now |-> None, passes |-> 0, asked |-> 0]

In(b, phase) == solve[b].phase = phase

\* The lines of the log: "Evaluated source policy", and everything else.
Denial(x) == [kind |-> "denied", ref |-> x]
Other == [kind |-> "other"]

--------------------------------------------------------------------------------
\* buildkitd writes to its log from the moment it starts.
Init ==
    /\ policy = BuildSourcePolicy
    /\ solve = [b \in Builds |-> Idle]
    /\ fetched = {}
    /\ denied = {}
    /\ log = {Other}

\* Mutant of MergePolicy: the client's rules come last.
MergePolicyFirst(client, own) == own \o client

MergePolicy(client, own) == client \o own

Solve(b) ==
    /\ In(b, "idle")
    /\ \E c \in Clients :
          solve' = [solve EXCEPT ![b] =
              [@ EXCEPT !.phase = "solving", !.client = c,
                        !.policy = IF c = None THEN policy ELSE MergePolicy(c, policy)]]
    /\ UNCHANGED <<policy, fetched, denied, log>>

\* A FROM, an ADD, or a request a step sends through BuildKit's proxy.
Ask(b) ==
    /\ In(b, "solving") /\ solve[b].asked < MaxAsks
    /\ \E x \in Sources :
          solve' = [solve EXCEPT ![b].phase = "evaluating", ![b].now = x, ![b].passes = 0,
                                 ![b].asked = @ + 1]
    /\ UNCHANGED <<policy, fetched, denied, log>>

Answered(b) == [solve EXCEPT ![b].phase = "solving", ![b].now = None]

Decision(b) == [at |-> solve[b].now, client |-> solve[b].client]

\* The first conversion that changes something ends the pass, and the whole
\* policy is evaluated again.
Convert(b) ==
    LET s == solve[b] IN
    /\ In(b, "evaluating") /\ s.passes < MaxPasses
    /\ \E i \in Conversions(s.policy, s.now) :
          /\ \A j \in Conversions(s.policy, s.now) : i <= j
          /\ solve' = [solve EXCEPT ![b].now = s.policy[i].to, ![b].passes = @ + 1]
    /\ UNCHANGED <<policy, fetched, denied, log>>

\* Mutant of GiveUp: after so many conversions the source is taken as it is.
GiveUpOpen(b) ==
    /\ In(b, "evaluating") /\ solve[b].passes = MaxPasses
    /\ Conversions(solve[b].policy, solve[b].now) # {}
    /\ solve' = Answered(b)
    /\ fetched' = fetched \cup {Decision(b)}
    /\ UNCHANGED <<policy, denied, log>>

\* Too many conversions are an error of the solve, not a denial.
GiveUp(b) ==
    /\ In(b, "evaluating") /\ solve[b].passes = MaxPasses
    /\ Conversions(solve[b].policy, solve[b].now) # {}
    /\ solve' = Answered(b)
    /\ UNCHANGED <<policy, fetched, denied, log>>

Deny(b) ==
    LET s == solve[b] IN
    /\ In(b, "evaluating") /\ Conversions(s.policy, s.now) = {} /\ Denies(s.policy, s.now)
    /\ solve' = Answered(b)
    /\ denied' = denied \cup {Decision(b)}
    /\ log' = log \cup {Denial(s.now)}
    /\ UNCHANGED <<policy, fetched>>

Allow(b) ==
    LET s == solve[b] IN
    /\ In(b, "evaluating") /\ Conversions(s.policy, s.now) = {} /\ ~Denies(s.policy, s.now)
    /\ solve' = Answered(b)
    /\ fetched' = fetched \cup {Decision(b)}
    /\ UNCHANGED <<policy, denied, log>>

Evaluate(b) == Convert(b) \/ GiveUp(b) \/ Deny(b) \/ Allow(b)

\* The build is over; its client may come back with another.
Finish(b) ==
    /\ In(b, "solving")
    /\ solve' = [solve EXCEPT ![b] = [Idle EXCEPT !.asked = solve[b].asked]]
    /\ UNCHANGED <<policy, fetched, denied, log>>

Next == \E b \in Builds : Solve(b) \/ Ask(b) \/ Evaluate(b) \/ Finish(b)

Spec == Init /\ [][Next]_vars

--------------------------------------------------------------------------------
(* The report: scanBuildkitdLog, annotateKnownBlocked, determineBlockedOutcome. *)

\* Mutant of PortOf: a name without a port is reported without one.
PortOfNamed(x) == x.port

\* parseIdentifier fills in the port BuildKit left out.
PortOf(x) == IF x.port = None THEN DefaultPort[x.scheme] ELSE x.port

\* parseIdentifier knows no other scheme.
Blocked == {x \in Web : Denial(x) \in log}

Expected(x) ==
    \E i \in DOMAIN KnownBlocked : x.host \in KnownBlocked[i].hosts /\ PortOf(x) \in KnownBlocked[i].ports

LogLooksPlausible == Other \in log

\* With fail_on_blocked.
ShouldFail ==
    Mode = "restrict" /\ IF Blocked = {} THEN ~LogLooksPlausible ELSE \E x \in Blocked : ~Expected(x)

--------------------------------------------------------------------------------
(* Properties. *)

Decisions == [at : Sources, client : Clients]

\* Every variable holds a value of its kind.
TypeOK ==
    /\ policy \in Seq(Selectors)
    /\ solve \in [Builds ->
          [phase : {"idle", "solving", "evaluating"}, client : Clients \cup {None}, policy : Seq(Selectors),
           now : Sources \cup {None}, passes : 0..MaxPasses, asked : 0..MaxAsks]]
    /\ \A b \in Builds : In(b, "evaluating") => solve[b].now \in Sources
    /\ \A b \in Builds : ~In(b, "idle") => solve[b].client \in Clients
    /\ fetched \subseteq Decisions /\ denied \subseteq Decisions
    /\ log \subseteq {Denial(x) : x \in Sources} \cup {Other}

\* What a solve is evaluated under: its own client's rules, then Buildcage's.
Merged(c) == IF c = None THEN BuildSourcePolicy ELSE c \o BuildSourcePolicy

\* The strengthening under which the properties of what was fetched and denied
\* are inductive: no solve sees another client's rules, and every decision is
\* the one the merged policy takes when no conversion is left.
MergeInv ==
    /\ policy = BuildSourcePolicy
    /\ \A b \in Builds : ~In(b, "idle") => solve[b].policy = Merged(solve[b].client)
    /\ \A d \in fetched \cup denied : Conversions(Merged(d.client), d.at) = {}
    /\ \A f \in fetched : ~Denies(Merged(f.client), f.at)
    /\ \A d \in denied : Denies(Merged(d.client), d.at)

\* The port a request is for, whether or not it names one.
MeantPort(x) == IF x.port = None THEN DefaultPort[x.scheme] ELSE x.port

RulesFor(s) ==
    LET own == IF s = "https" THEN HttpsRules ELSE HttpRules
    IN {own[i] : i \in DOMAIN own} \cup {IpRules[i] : i \in DOMAIN IpRules}

\* What the rules mean: they are matched against host and port, the scheme's
\* own when the request names none.
Listed(x) == \E r \in RulesFor(x.scheme) : x.host \in r.hosts /\ MeantPort(x) \in r.ports

\* "A client-supplied policy can never widen access beyond your allowlist"
\* (docs/security.md): whatever a client allows, and whatever it converts into
\* what, nothing is fetched over http or https that no rule lists.
NeverPastAllowlist ==
    Mode = "restrict" => \A f \in fetched : f.at \in Web => Listed(f.at)

\* Nor does the policy refuse what a rule lists, with the port named or left out.
ListedNeverRefused ==
    Mode = "restrict" => \A d \in denied : d.at \in Web => ~Listed(d.at)

\* "For any other scheme the client's rules apply unmodified" (solve.go): on
\* them, and in audit on every source, the decision is the one the rules of the
\* build's own client take alone, after all their conversions.
ClientsRuleTheRest ==
    \A x \in fetched \cup denied :
        x.at \notin Web \/ Mode = "audit" =>
            LET c == IF x.client = None THEN <<>> ELSE x.client IN
            /\ Conversions(c, x.at) = {}
            /\ x \in denied <=> Denies(c, x.at)

\* A known_blocked rule lists the host and the port it was asked for on.
KnownToBeBlocked(x) ==
    \E i \in DOMAIN KnownBlocked :
        x.host \in KnownBlocked[i].hosts /\ MeantPort(x) \in KnownBlocked[i].ports

\* The report fails the job for a denial of a source nobody expected to be
\* blocked, and for nothing else: not for what a client's own rules refuse of
\* other schemes, and not in audit.
FailsOnUnexpected ==
    ShouldFail <=>
        Mode = "restrict" /\ \E d \in denied : d.at \in Web /\ ~KnownToBeBlocked(d.at)

================================================================================
