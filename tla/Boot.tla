---------------------------------- MODULE Boot ----------------------------------
(***************************************************************************)
(* A builder container of the inspect or the universal engine from its     *)
(* first instruction to the requests of the builds it runs: the oneshots   *)
(* that write the configuration and isolate the steps, the services s6-rc  *)
(* brings up after them, and restarts at any moment, which leave files as  *)
(* they are and take processes and iptables rules away.                    *)
(***************************************************************************)
EXTENDS RuleMatch, FiniteSets

CONSTANTS
    Configurations, \* what a container may be started with
    Questions,      \* what the steps of a build may ask, by name of the choice
    Tries           \* how often s6-notifyoncheck polls a service

Files == {"ca", "injected", "default", "proxy", "view"}
Services == {"haproxy", "dns", "buildkitd"}

ASSUME BootOK ==
    /\ Tries \in Nat
    /\ \A c \in Configurations :
          /\ c.engine \in {"inspect", "universal"} /\ c.mode \in {"restrict", "audit"}
          /\ c.v6 \in BOOLEAN /\ c.isolates \in BOOLEAN /\ c.restarts \in Nat
          /\ c.asks \in DOMAIN Questions
          /\ \A r \in c.rules :
                SetupAccepts(r) /\ (c.engine = "universal" => r.form = "host" /\ r.scheme # "tls")

ASSUME RulesOK ==
    /\ \A c \in Configurations : \A r \in c.rules : RuleOK(r)
    /\ \A choice \in DOMAIN Questions : \A q \in Questions[choice] : QuestionOK(q)

VARIABLES
    conf,       \* [engine, mode, rules, v6, isolates, restarts, asks]
    files,      \* [Files -> the certificate authority a file is of; 0: there is none]
    torn,       \* the files opened for writing and not written
    made,       \* certificate authorities generated so far
    init,       \* the command init-inspect-cfg or init-haproxy-cfg is at
    walls,      \* how many commands of init-iptables have run
    isolation,  \* "running", "done" or "failed"
    proc,       \* [Services -> "down", "starting" or "serving"]
    up,         \* the services s6-rc holds for up
    tries,      \* [Services -> checks made]
    restarted,  \* restarts so far
    asked       \* the last name and request of a step and what became of them

vars == <<conf, files, torn, made, init, walls, isolation, proc, up, tries, restarted, asked>>

fileVars == <<files, torn, made, init>>
wallVars == <<walls, isolation>>
serviceVars == <<proc, up, tries>>

TypeOK ==
    /\ conf \in Configurations
    /\ files \in [Files -> 0..conf.restarts + 1] /\ torn \subseteq Files
    /\ made \in 0..conf.restarts + 1
    /\ init \in {"first", "ca", "injected", "default", "chmod", "generate", "proxy", "view", "done", "failed"}
    /\ walls \in 0..8 /\ isolation \in {"running", "done", "failed"}
    /\ proc \in [Services -> {"down", "starting", "serving"}] /\ up \subseteq Services
    /\ tries \in [Services -> 0..Tries] /\ restarted \in 0..conf.restarts
    /\ asked = None \/ asked.logged \in {"allowed", "denied", "none"}

Init ==
    /\ conf \in Configurations
    /\ files = [f \in Files |-> 0] /\ torn = {} /\ made = 0 /\ init = "first"
    /\ walls = 0 /\ isolation = "running"
    /\ proc = [s \in Services |-> "down"] /\ up = {} /\ tries = [s \in Services |-> 0]
    /\ restarted = 0 /\ asked = None

--------------------------------------------------------------------------------
(* init-inspect-cfg and init-haproxy-cfg, under set -e. *)

\* Without ca.pem a certificate authority is made, in /tmp.
CheckCA ==
    /\ init = "first"
    /\ IF conf.engine = "inspect" /\ files["ca"] = 0
       THEN made' = made + 1 /\ init' = "ca"
       ELSE init' = (IF conf.engine = "inspect" THEN "chmod" ELSE "generate") /\ UNCHANGED made
    /\ UNCHANGED <<conf, files, torn, wallVars, serviceVars, restarted, asked>>

\* Mutant of After: the default certificate comes before the one steps trust.
AfterDefaultFirst(f) ==
    CASE f = "ca" -> "default" [] f = "default" -> "injected" [] f = "injected" -> "chmod"
      [] f = "proxy" /\ conf.engine = "inspect" -> "view" [] OTHER -> "done"

After(f) ==
    CASE f = "ca" -> "injected" [] f = "injected" -> "default" [] f = "default" -> "chmod"
      [] f = "proxy" /\ conf.engine = "inspect" -> "view" [] OTHER -> "done"

\* A redirection empties the file before the command writes it.
OpenFile(f) ==
    /\ init = f /\ f \notin torn
    /\ files' = [files EXCEPT ![f] = made] /\ torn' = torn \cup {f}
    /\ UNCHANGED <<conf, made, init, wallVars, serviceVars, restarted, asked>>

WriteFile(f) ==
    /\ init = f /\ f \in torn
    /\ torn' = torn \ {f} /\ init' = After(f)
    /\ files' = [files EXCEPT ![f] = made]
    /\ UNCHANGED <<conf, made, wallVars, serviceVars, restarted, asked>>

Chmod ==
    /\ init = "chmod"
    /\ init' = IF files["ca"] # 0 /\ files["default"] # 0 THEN "generate" ELSE "failed"
    /\ UNCHANGED <<conf, files, torn, made, wallVars, serviceVars, restarted, asked>>

\* gen-configs and convert-rule write nothing and exit 1 on a rule they refuse.
Generate ==
    /\ init = "generate"
    /\ init' = IF \A r \in PassedOn(conf.mode, conf.rules) : Compiles(conf.engine, r)
               THEN "proxy" ELSE "failed"
    /\ UNCHANGED <<conf, files, torn, made, wallVars, serviceVars, restarted, asked>>

InitCfg == CheckCA \/ Chmod \/ Generate \/ \E f \in Files : OpenFile(f) \/ WriteFile(f)

--------------------------------------------------------------------------------
(* init-iptables, and what its rules make of a packet from a step. *)

Rule(ip, chain, proto, port, target) ==
    [ip |-> ip, chain |-> chain, proto |-> proto, port |-> port, target |-> target]

Redirect(port) == Rule(4, "PREROUTING", "tcp", port, "REDIRECT")
ForwardDrop(ip) == Rule(ip, "FORWARD", "any", "any", "DROP")
InputAccept(proto, port) == Rule(4, "INPUT", proto, port, "ACCEPT")
InputDrop(ip) == Rule(ip, "INPUT", "any", "any", "DROP")

Commands ==
    (IF conf.engine = "inspect"
     THEN <<Redirect("not_dns"), InputAccept("tcp", "listener"), InputAccept("udp", "dns"),
            InputAccept("tcp", "dns"), InputDrop(4), ForwardDrop(4)>>
          \o (IF conf.v6 THEN <<InputDrop(6), ForwardDrop(6)>> ELSE <<>>)
     ELSE <<Redirect("any"), ForwardDrop(4)>> \o (IF conf.v6 THEN <<ForwardDrop(6)>> ELSE <<>>))

\* A command appends its rule, or fails and ends the script.
Isolate ==
    /\ isolation = "running"
    /\ \/ /\ walls < Len(Commands)
          /\ \/ walls' = walls + 1 /\ UNCHANGED isolation
             \/ ~conf.isolates /\ isolation' = "failed" /\ UNCHANGED walls
       \/ walls = Len(Commands) /\ isolation' = "done" /\ UNCHANGED walls
    /\ UNCHANGED <<conf, fileVars, serviceVars, restarted, asked>>

Packets ==
    [ip : IF conf.v6 THEN {4, 6} ELSE {4}, proto : {"tcp", "udp", "icmp"},
     port : {"dns", "listener", "other"}, to : {"gateway", "outside"}]

Covers(r, p) ==
    /\ r.ip = p.ip /\ r.proto \in {"any", p.proto}
    /\ r.port \in {"any", p.port} \/ (r.port = "not_dns" /\ p.port # "dns")

\* The target of the first rule of a chain that covers the packet.
Target(chain, p) ==
    LET hits == {i \in 1..walls : Commands[i].chain = chain /\ Covers(Commands[i], p)}
    IN IF hits = {} THEN "ACCEPT" ELSE Commands[CHOOSE i \in hits : \A j \in hits : i <= j].target

Redirected(p) ==
    IF Target("PREROUTING", p) = "REDIRECT" THEN [p EXCEPT !.port = "listener", !.to = "gateway"] ELSE p

\* Where a packet ends: nowhere, at a port of the container, or out of it.
Fate(p) ==
    LET q == Redirected(p)
    IN IF Target(IF q.to = "gateway" THEN "INPUT" ELSE "FORWARD", q) = "DROP" THEN "dropped"
       ELSE IF q.to = "outside" THEN "outside"
       ELSE IF q.port = "listener" /\ q.proto = "tcp" THEN "proxy"
       ELSE IF q.port = "dns" /\ q.proto # "icmp" THEN "resolver"
       ELSE "container"

--------------------------------------------------------------------------------
(* s6-rc and the services. *)

\* Mutant of Dependencies: buildkitd waits for what it talks to only.
DependenciesNoWalls(s) ==
    CASE s = "buildkitd" -> {"haproxy", "dns"}
      [] s = "haproxy" -> IF conf.engine = "inspect" THEN {"cfg", "iptables"} ELSE {"cfg"}
      [] OTHER -> IF conf.engine = "inspect" THEN {"cfg"} ELSE {}

Dependencies(s) ==
    CASE s = "buildkitd" -> {"iptables", "haproxy", "dns"}
      [] s = "haproxy" -> IF conf.engine = "inspect" THEN {"cfg", "iptables"} ELSE {"cfg"}
      [] OTHER -> IF conf.engine = "inspect" THEN {"cfg"} ELSE {}

IsUp(d) ==
    CASE d = "cfg" -> init = "done"
      [] d = "iptables" -> isolation = "done"
      [] OTHER -> d \in up

\* With a notification-fd a service is up when it says so, else when it runs.
Notifies(s) == conf.engine = "universal" /\ s # "buildkitd"

Spawn(s) ==
    /\ proc[s] = "down" /\ \A d \in Dependencies(s) : IsUp(d)
    /\ proc' = [proc EXCEPT ![s] = "starting"]
    /\ up' = IF Notifies(s) THEN up ELSE up \cup {s}
    /\ UNCHANGED <<conf, fileVars, wallVars, tries, restarted, asked>>

\* The files a service reads when it starts; without them it dies and is
\* started again.
Reads(s) ==
    CASE s = "haproxy" -> IF conf.engine = "inspect" THEN {"ca", "default", "proxy"} ELSE {"proxy"}
      [] s = "dns" -> IF conf.engine = "inspect" THEN {"view"} ELSE {}
      [] OTHER -> {}

Serve(s) ==
    /\ proc[s] = "starting"
    /\ Reads(s) \cap torn = {}
    /\ conf.engine = "inspect" => \A f \in Reads(s) : files[f] # 0
    /\ proc' = [proc EXCEPT ![s] = "serving"]
    /\ UNCHANGED <<conf, fileVars, wallVars, up, tries, restarted, asked>>

\* Mutant of Poll: one check and no more.
PollOnce(s) ==
    /\ Notifies(s) /\ proc[s] # "down" /\ s \notin up /\ tries[s] = 0
    /\ tries' = [tries EXCEPT ![s] = @ + 1]
    /\ up' = IF proc[s] = "serving" THEN up \cup {s} ELSE up
    /\ UNCHANGED <<conf, fileVars, wallVars, proc, restarted, asked>>

\* s6-notifyoncheck: up on the first check that succeeds, never after the last.
Poll(s) ==
    /\ Notifies(s) /\ proc[s] # "down" /\ s \notin up /\ tries[s] < Tries
    /\ tries' = [tries EXCEPT ![s] = @ + 1]
    /\ up' = IF proc[s] = "serving" THEN up \cup {s} ELSE up
    /\ UNCHANGED <<conf, fileVars, wallVars, proc, restarted, asked>>

\* The container is killed and restarted: a writable layer outlives it, a
\* network namespace does not.
Restart ==
    /\ restarted < conf.restarts
    /\ restarted' = restarted + 1
    /\ init' = "first" /\ walls' = 0 /\ isolation' = "running"
    /\ proc' = [s \in Services |-> "down"] /\ up' = {} /\ tries' = [s \in Services |-> 0]
    /\ UNCHANGED <<conf, files, torn, made, asked>>

\* A step of a build looks a name up and sends a request.
Ask(q) ==
    /\ \A s \in Services : proc[s] = "serving"
    /\ asked = None
    /\ asked' = [q |-> q, admitted |-> ProxyAdmits(conf.engine, conf.mode, conf.rules, q),
                 logged |-> IF conf.engine = "universal" THEN "none"
                            ELSE ViewLogs(conf.mode, conf.rules, q.name)]
    /\ UNCHANGED <<conf, fileVars, wallVars, serviceVars, restarted>>

Next ==
    \/ InitCfg \/ Isolate \/ Restart
    \/ \E s \in Services : Spawn(s) \/ Serve(s) \/ Poll(s)
    \/ \E q \in Questions[conf.asks] : Ask(q)

Spec == Init /\ [][Next]_vars

\* Scripts run on, a service that can start does, and a check is made in time;
\* nothing has to restart or to ask.
FairSpec ==
    /\ Spec
    /\ WF_vars(InitCfg) /\ WF_vars(Isolate)
    /\ \A s \in Services : WF_vars(Spawn(s)) /\ WF_vars(Serve(s)) /\ WF_vars(Poll(s))

--------------------------------------------------------------------------------
(* Properties. *)

\* What the proxy admits is what the README says of the rules, wildcards at the
\* ends, next to each other and next to a separator included (partial-wildcard.ts,
\* wildcard-rules.ts, url-rules.ts, haproxy-rules.ts).
WildcardMeaning ==
    asked # None =>
        (asked.admitted <=> conf.mode = "audit"
                            \/ \E r \in conf.rules : Permits(conf.engine, r, asked.q))

\* A name is logged as allowed exactly when there is a request for it that the
\* proxy lets through, so that the two cannot drift apart (gen-configs.qjs.ts,
\* coredns-config.ts).
ViewMatchesProxy ==
    asked # None /\ asked.logged # "none" =>
        (asked.logged = "allowed"
         <=> \E q \in Questions[conf.asks] : q.name = asked.q.name
                                       /\ ProxyAdmits(conf.engine, conf.mode, conf.rules, q))

\* What the proofs of the two suppose: no rule holds a `***`; hosts are in lower
\* case; and of a name that steps ask for they may ask what a rule permits.
DocumentedRules == \A c \in Configurations : \A r \in c.rules : NoTripleStar(r.host) /\ NoTripleStar(r.path)
LowerCaseHosts == \A c \in Configurations : \A r \in c.rules : LowerAll(r.host) = r.host
AskAnything ==
    \A c \in Configurations : \A r \in c.rules, asks \in Questions[c.asks] :
        \E q \in Questions[c.asks] : q.name = asks.name /\ AdmitsRequest(CompileRule(c.engine, r), q)

\* Rules the setup step took are refused by the container for an empty label
\* only, and with them the container never gets to run a build (main.ts,
\* gen-configs.qjs.ts); the other thing that keeps it from one is a kill
\* between two files of the certificates.
RefusedOnlyForEmptyLabel ==
    init = "failed" =>
        /\ proc["buildkitd"] = "down"
        /\ \/ conf.engine = "inspect" /\ \E r \in conf.rules : HasEmptyLabel(r.host)
           \/ restarted > 0 /\ files["ca"] # 0 /\ files["default"] = 0

\* While buildkitd runs, whatever was restarted when, nothing a step sends gets
\* out, TCP goes to the proxy, and the resolver answers; of the container the
\* inspect engine opens nothing else (init-iptables, docs/security.md).
WallsStand ==
    proc["buildkitd"] # "down" =>
        \A p \in Packets :
            /\ Fate(p) # "outside"
            /\ conf.engine = "inspect" => Fate(p) # "container"
            /\ p.ip = 4 /\ p.proto = "tcp" /\ p.port # "dns" => Fate(p) = "proxy"
            /\ p.ip = 4 /\ p.proto = "udp" /\ p.port = "dns" /\ p.to = "gateway" => Fate(p) = "resolver"

\* A proxy that serves signs with the authority that steps are made to trust,
\* and shows a certificate of that authority (init-inspect-cfg).
OneAuthority ==
    conf.engine = "inspect" /\ proc["haproxy"] = "serving" =>
        /\ files["ca"] = files["injected"] /\ files["ca"] = files["default"]
        /\ {"ca", "injected", "default"} \cap torn = {}

\* What keeps a container from ever serving.
Doomed ==
    \/ init = "failed" \/ isolation = "failed"
    \/ \E s \in Services : Notifies(s) /\ s \notin up /\ tries[s] = Tries
    \/ "default" \in torn /\ init = "done"

\* A container gets to serve, or one of these has happened to it.
BootServes == <>[](Doomed \/ \A s \in Services : proc[s] = "serving")
================================================================================
