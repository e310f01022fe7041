------------------------------- MODULE BootProofs -------------------------------
(***************************************************************************)
(* Proofs about Boot: for any rules, any number of restarts at any moment, *)
(* and any number of checks of a service.                                  *)
(***************************************************************************)
EXTENDS Boot, RuleMatchProofs

AuthorityFiles == {"ca", "injected", "default"}
Stages == AuthorityFiles \cup {"first", "chmod", "generate", "proxy", "view", "done", "failed"}

Types ==
    /\ conf \in Configurations
    /\ files \in [Files -> Nat] /\ torn \subseteq Files /\ made \in Nat
    /\ init \in Stages /\ walls \in Nat
    /\ isolation \in {"running", "done", "failed"}
    /\ proc \in [Services -> {"down", "starting", "serving"}] /\ up \subseteq Services
    /\ restarted \in Nat

\* The three files of an authority are made in order, each when those before it
\* are whole, and all while init is at them.
FilesInv ==
    /\ files["injected"] # 0 => files["ca"] = files["injected"] /\ "ca" \notin torn
    /\ files["default"] # 0 =>
          /\ files["ca"] = files["default"] /\ files["injected"] = files["default"]
          /\ {"ca", "injected"} \cap torn = {}
    /\ init \in AuthorityFiles => conf.engine = "inspect" /\ made # 0 /\ files["default"] \in {0, made}
    /\ init = "ca" => files["injected"] = 0 /\ files["default"] = 0
    /\ init = "injected" => files["ca"] = made /\ "ca" \notin torn /\ files["default"] = 0
    /\ init = "default" =>
          files["ca"] = made /\ files["injected"] = made /\ {"ca", "injected"} \cap torn = {}
    /\ init = "chmod" => conf.engine = "inspect" /\ files["ca"] # 0

\* Only a start after another finds a certificate set-up that was cut short.
CutShort == restarted > 0 /\ files["ca"] # 0 /\ files["default"] = 0

RefusedInv ==
    /\ init = "first" /\ restarted = 0 => files["ca"] = 0
    /\ init = "chmod" => CutShort \/ files["default"] # 0
    /\ init = "failed" =>
          (conf.engine = "inspect" /\ \E r \in conf.rules : HasEmptyLabel(r.host)) \/ CutShort

\* A service runs when what it depends on is up, and that stays so.
StartInv ==
    /\ \A s \in up : proc[s] # "down"
    /\ proc["haproxy"] # "down" => init = "done"
    /\ proc["haproxy"] = "serving" /\ conf.engine = "inspect" => files["default"] # 0 /\ "default" \notin torn
    /\ proc["buildkitd"] # "down" => isolation = "done" /\ proc["haproxy"] # "down"
    /\ isolation = "done" => walls = Len(Commands)
    /\ walls <= Len(Commands)

BootInv == Types /\ FilesInv /\ RefusedInv /\ StartInv

--------------------------------------------------------------------------------
(* The two lists of iptables commands.                                      *)

InspectWalls ==
    /\ Len(Commands) \in {6, 8} /\ (conf.v6 => Len(Commands) = 8)
    /\ Commands[1] = Redirect("not_dns") /\ Commands[2] = InputAccept("tcp", "listener")
    /\ Commands[3] = InputAccept("udp", "dns") /\ Commands[4] = InputAccept("tcp", "dns")
    /\ Commands[5] = InputDrop(4) /\ Commands[6] = ForwardDrop(4)
    /\ Len(Commands) = 8 => Commands[7] = InputDrop(6) /\ Commands[8] = ForwardDrop(6)

LEMMA InspectCommands == conf.v6 \in BOOLEAN /\ conf.engine = "inspect" => InspectWalls
<1> SUFFICES ASSUME conf.v6 \in BOOLEAN, conf.engine = "inspect" PROVE InspectWalls
    OBVIOUS
<1>1. CASE conf.v6
    BY <1>1 DEF InspectWalls, Commands
<1>2. CASE ~conf.v6
    BY <1>2 DEF InspectWalls, Commands
<1> QED BY <1>1, <1>2

UniversalWalls ==
    /\ Len(Commands) \in {2, 3} /\ (conf.v6 => Len(Commands) = 3)
    /\ Commands[1] = Redirect("any") /\ Commands[2] = ForwardDrop(4)
    /\ Len(Commands) = 3 => Commands[3] = ForwardDrop(6)

LEMMA UniversalCommands == conf.v6 \in BOOLEAN /\ conf.engine = "universal" => UniversalWalls
<1> SUFFICES ASSUME conf.v6 \in BOOLEAN, conf.engine = "universal" PROVE UniversalWalls
    OBVIOUS
<1>1. CASE conf.v6
    BY <1>1 DEF UniversalWalls, Commands
<1>2. CASE ~conf.v6
    BY <1>2 DEF UniversalWalls, Commands
<1> QED BY <1>1, <1>2

LEMMA CommandsCount ==
    conf.v6 \in BOOLEAN /\ conf.engine \in {"inspect", "universal"} => Len(Commands) \in 0..8
<1>1. InspectWalls => Len(Commands) \in 0..8
    BY DEF InspectWalls
<1>2. UniversalWalls => Len(Commands) \in 0..8
    BY DEF UniversalWalls
<1> QED BY <1>1, <1>2, InspectCommands, UniversalCommands, Zenon

Hits(k, chain, p) == Commands[k].chain = chain /\ Covers(Commands[k], p)

\* The first rule of a chain that covers a packet decides.
LEMMA FirstHit ==
    ASSUME walls \in Nat, NEW chain, NEW p, NEW k \in 1..walls,
           Hits(k, chain, p), \A j \in 1..(k - 1) : ~Hits(j, chain, p)
    PROVE  Target(chain, p) = Commands[k].target
<1> DEFINE hits == {i \in 1..walls : Commands[i].chain = chain /\ Covers(Commands[i], p)}
<1>1. k \in hits
    BY DEF Hits
<1>2. ASSUME NEW i \in hits PROVE k <= i
    BY <1>2 DEF Hits
<1>3. \A i \in hits : (\A j \in hits : i <= j) => i = k
    BY <1>1, <1>2
<1>4. (CHOOSE i \in hits : \A j \in hits : i <= j) = k
    BY <1>1, <1>2, <1>3
<1>5. hits # {}
    BY <1>1
<1> HIDE DEF hits
<1> QED BY <1>4, <1>5 DEF Target, hits

LEMMA NoHit ==
    ASSUME NEW chain, NEW p,
           \A k \in 1..walls : ~Hits(k, chain, p)
    PROVE  Target(chain, p) = "ACCEPT"
BY DEF Target, Hits

--------------------------------------------------------------------------------
(* The invariant.                                                           *)

LEMMA InitHolds == Init => BootInv
<1> SUFFICES ASSUME Init PROVE BootInv
    OBVIOUS
<1>1. Types
    BY DEF Init, Types, Files, Services, Stages
<1>2. FilesInv
    BY DEF Init, FilesInv, Files, AuthorityFiles
<1>3. RefusedInv
    BY DEF Init, RefusedInv, Files
<1>4. conf.v6 \in BOOLEAN /\ conf.engine \in {"inspect", "universal"}
    BY BootOK DEF Init
<1>5. Len(Commands) >= 0
    BY <1>4, CommandsCount
<1>6. StartInv
    BY <1>5 DEF Init, StartInv, Services
<1> QED BY <1>1, <1>2, <1>3, <1>6 DEF BootInv

\* Steps that leave the files and the script that writes them as they are, and
\* those that leave the walls.
LEMMA FilesKept ==
    ASSUME FilesInv, RefusedInv, UNCHANGED <<conf, files, torn, made, init, restarted>>
    PROVE  FilesInv' /\ RefusedInv'
BY DEF FilesInv, RefusedInv, CutShort

LEMMA CheckCAHolds == BootInv /\ CheckCA => BootInv'
<1> SUFFICES ASSUME BootInv, CheckCA PROVE BootInv'
    OBVIOUS
<1> USE DEF fileVars, wallVars, serviceVars
<1>1. Types'
    BY DEF BootInv, CheckCA, Types, Stages, AuthorityFiles
<1>2. FilesInv'
    BY DEF BootInv, CheckCA, Types, FilesInv, AuthorityFiles, Files
<1>3. RefusedInv'
    BY DEF BootInv, CheckCA, Types, FilesInv, RefusedInv, CutShort
<1>4. StartInv'
    BY DEF BootInv, CheckCA, StartInv, Commands
<1> QED BY <1>1, <1>2, <1>3, <1>4 DEF BootInv

LEMMA FileHolds == ASSUME NEW f \in Files PROVE BootInv /\ (OpenFile(f) \/ WriteFile(f)) => BootInv'
<1> SUFFICES ASSUME BootInv, OpenFile(f) \/ WriteFile(f) PROVE BootInv'
    OBVIOUS
<1> USE DEF wallVars, serviceVars
<1>1. files' = [files EXCEPT ![f] = made] /\ init = f /\ init' \in {f, After(f)} /\ made' = made
    BY DEF OpenFile, WriteFile
<1>2. Types'
    BY <1>1 DEF BootInv, OpenFile, WriteFile, Types, Stages, AuthorityFiles, After, Files
<1>3. FilesInv'
    <2>1. CASE f = "ca"
        BY <1>1, <2>1 DEF BootInv, OpenFile, WriteFile, Types, FilesInv, AuthorityFiles, After, Files
    <2>2. CASE f = "injected"
        BY <1>1, <2>2 DEF BootInv, OpenFile, WriteFile, Types, FilesInv, AuthorityFiles, After, Files
    <2>3. CASE f = "default"
        BY <1>1, <2>3 DEF BootInv, OpenFile, WriteFile, Types, FilesInv, AuthorityFiles, After, Files
    <2>4. CASE f \in {"proxy", "view"}
        BY <1>1, <2>4 DEF BootInv, OpenFile, WriteFile, Types, FilesInv, AuthorityFiles, After, Files
    <2> QED BY <2>1, <2>2, <2>3, <2>4 DEF Files
<1>4. RefusedInv'
    BY <1>1 DEF BootInv, OpenFile, WriteFile, Types, FilesInv, AuthorityFiles, RefusedInv, CutShort, After, Files
<1>5. StartInv'
    BY <1>1 DEF BootInv, OpenFile, WriteFile, StartInv, Commands, Files
<1> QED BY <1>2, <1>3, <1>4, <1>5 DEF BootInv

LEMMA ChmodHolds == BootInv /\ Chmod => BootInv'
<1> SUFFICES ASSUME BootInv, Chmod PROVE BootInv'
    OBVIOUS
<1> USE DEF wallVars, serviceVars
<1>1. Types'
    BY DEF BootInv, Chmod, Types, Stages
<1>2. FilesInv'
    BY DEF BootInv, Chmod, FilesInv, AuthorityFiles
<1>3. RefusedInv'
    BY DEF BootInv, Chmod, FilesInv, RefusedInv, CutShort
<1>4. StartInv'
    BY DEF BootInv, Chmod, StartInv, Commands
<1> QED BY <1>1, <1>2, <1>3, <1>4 DEF BootInv

\* What the setup step takes and the container refuses has an empty label.
LEMMA RefusedRules ==
    ASSUME NEW engine \in {"inspect", "universal"}, NEW r, SetupAccepts(r), ~Compiles(engine, r),
           engine = "universal" => r.form = "host"
    PROVE  engine = "inspect" /\ HasEmptyLabel(r.host)
<1>1. CASE r.form = "host" /\ engine = "universal"
    <2>1. StrictDomain(r.host) /\ r.port # NoPort
        BY <1>1 DEF SetupAccepts
    <2> QED BY <1>1, <2>1 DEF Compiles
<1>2. CASE r.form = "host" /\ engine = "inspect"
    <2>1. StrictDomain(r.host) /\ r.port # NoPort
        BY <1>2 DEF SetupAccepts
    <2>2. r.host # <<>>
        BY <2>1 DEF StrictDomain
    <2> QED BY <1>2, <2>1, <2>2 DEF Compiles
<1>3. CASE r.form # "host"
    BY <1>3 DEF SetupAccepts, Compiles
<1> QED BY <1>1, <1>2, <1>3

LEMMA GenerateHolds == BootInv /\ Generate => BootInv'
<1> SUFFICES ASSUME BootInv, Generate PROVE BootInv'
    OBVIOUS
<1> USE DEF wallVars, serviceVars
<1>1. Types'
    BY DEF BootInv, Generate, Types, Stages
<1>2. FilesInv'
    BY DEF BootInv, Generate, FilesInv, AuthorityFiles
<1>3. init' = "failed" => conf.engine = "inspect" /\ \E r \in conf.rules : HasEmptyLabel(r.host)
    <2> SUFFICES ASSUME init' = "failed"
                 PROVE  conf.engine = "inspect" /\ \E r \in conf.rules : HasEmptyLabel(r.host)
        OBVIOUS
    <2>1. PICK r \in PassedOn(conf.mode, conf.rules) : ~Compiles(conf.engine, r)
        BY DEF Generate
    <2>2. r \in conf.rules
        BY DEF PassedOn
    <2>3. /\ conf.engine \in {"inspect", "universal"} /\ SetupAccepts(r)
          /\ conf.engine = "universal" => r.form = "host"
        BY <2>2, BootOK DEF BootInv, Types
    <2> QED BY <2>1, <2>2, <2>3, RefusedRules
<1>4. RefusedInv'
    BY <1>3 DEF BootInv, Generate, RefusedInv, CutShort
<1>5. StartInv'
    BY DEF BootInv, Generate, StartInv, Commands
<1> QED BY <1>1, <1>2, <1>4, <1>5 DEF BootInv

LEMMA IsolateHolds == BootInv /\ Isolate => BootInv'
<1> SUFFICES ASSUME BootInv, Isolate PROVE BootInv'
    OBVIOUS
<1> USE DEF fileVars, serviceVars
<1>1. Types'
    BY DEF BootInv, Isolate, Types
<1>2. FilesInv' /\ RefusedInv'
    BY FilesKept DEF BootInv, Isolate
<1>3. Commands' = Commands
    BY DEF Isolate, Commands
<1>4. Len(Commands) \in Nat
    <2>1. conf.v6 \in BOOLEAN /\ conf.engine \in {"inspect", "universal"}
        BY BootOK DEF BootInv, Types
    <2> QED BY <2>1, CommandsCount
<1>5. StartInv'
    BY <1>3, <1>4 DEF BootInv, Types, Isolate, StartInv
<1> QED BY <1>1, <1>2, <1>5 DEF BootInv

LEMMA SpawnHolds == ASSUME NEW s \in Services PROVE BootInv /\ Spawn(s) => BootInv'
<1> SUFFICES ASSUME BootInv, Spawn(s) PROVE BootInv'
    OBVIOUS
<1> USE DEF fileVars, wallVars
<1>1. Types'
    BY DEF BootInv, Spawn, Types
<1>2. FilesInv' /\ RefusedInv'
    BY FilesKept DEF BootInv, Spawn
<1>3. s = "haproxy" => init = "done"
    BY DEF Spawn, Dependencies, IsUp
<1>4. s = "buildkitd" => isolation = "done" /\ "haproxy" \in up
    BY DEF Spawn, Dependencies, IsUp
<1>5. StartInv'
    BY <1>3, <1>4 DEF BootInv, Types, Spawn, StartInv, Commands, Services
<1> QED BY <1>1, <1>2, <1>5 DEF BootInv

LEMMA ServeHolds == ASSUME NEW s \in Services PROVE BootInv /\ Serve(s) => BootInv'
<1> SUFFICES ASSUME BootInv, Serve(s) PROVE BootInv'
    OBVIOUS
<1> USE DEF fileVars, wallVars
<1>1. Types'
    BY DEF BootInv, Serve, Types
<1>2. FilesInv' /\ RefusedInv'
    BY FilesKept DEF BootInv, Serve
<1>3. s = "haproxy" /\ conf.engine = "inspect" => files["default"] # 0 /\ "default" \notin torn
    BY DEF Serve, Reads
<1>4. StartInv'
    BY <1>3 DEF BootInv, Types, Serve, StartInv, Commands, Services
<1> QED BY <1>1, <1>2, <1>4 DEF BootInv

LEMMA PollHolds == ASSUME NEW s \in Services PROVE BootInv /\ Poll(s) => BootInv'
<1> SUFFICES ASSUME BootInv, Poll(s) PROVE BootInv'
    OBVIOUS
<1> USE DEF fileVars, wallVars
<1>1. Types'
    BY DEF BootInv, Poll, Types
<1>2. FilesInv' /\ RefusedInv'
    BY FilesKept DEF BootInv, Poll
<1>3. StartInv'
    BY DEF BootInv, Types, Poll, StartInv, Commands, Services
<1> QED BY <1>1, <1>2, <1>3 DEF BootInv

LEMMA RestartHolds == BootInv /\ Restart => BootInv'
<1> SUFFICES ASSUME BootInv, Restart PROVE BootInv'
    OBVIOUS
<1>1. Types'
    BY DEF BootInv, Restart, Types, Stages, Services
<1>2. FilesInv'
    BY DEF BootInv, Restart, FilesInv, AuthorityFiles
<1>3. RefusedInv'
    BY DEF BootInv, Restart, Types, RefusedInv, CutShort
<1>4. conf.v6 \in BOOLEAN /\ conf.engine \in {"inspect", "universal"}
    BY BootOK DEF BootInv, Types
<1>5. Len(Commands) >= 0
    BY <1>4, CommandsCount
<1>6. Commands' = Commands
    BY DEF Restart, Commands
<1>7. StartInv'
    BY <1>5, <1>6 DEF Restart, StartInv, Services
<1> QED BY <1>1, <1>2, <1>3, <1>7 DEF BootInv

LEMMA StepHolds == BootInv /\ [Next]_vars => BootInv'
<1> SUFFICES ASSUME BootInv, [Next]_vars PROVE BootInv'
    OBVIOUS
<1>1. CASE InitCfg
    BY <1>1, CheckCAHolds, FileHolds, ChmodHolds, GenerateHolds DEF InitCfg
<1>2. CASE Isolate
    BY <1>2, IsolateHolds
<1>3. CASE Restart
    BY <1>3, RestartHolds
<1>4. CASE \E s \in Services : Spawn(s) \/ Serve(s) \/ Poll(s)
    BY <1>4, SpawnHolds, ServeHolds, PollHolds
<1>5. ASSUME UNCHANGED <<conf, fileVars, wallVars, serviceVars, restarted>> PROVE BootInv'
    <2> USE DEF fileVars, wallVars, serviceVars
    <2>1. FilesInv' /\ RefusedInv'
        BY <1>5, FilesKept DEF BootInv
    <2>2. Types' /\ StartInv'
        BY <1>5 DEF BootInv, Types, StartInv, Commands
    <2> QED BY <2>1, <2>2 DEF BootInv
<1>6. CASE \E q \in Questions[conf.asks] : Ask(q)
    BY <1>5, <1>6 DEF Ask
<1>7. CASE UNCHANGED vars
    BY <1>5, <1>7 DEF vars, fileVars, wallVars, serviceVars
<1> QED BY <1>1, <1>2, <1>3, <1>4, <1>6, <1>7 DEF Next

\* An authority is made once a start at most, and a file is of one that was made.
Bounds ==
    /\ restarted <= conf.restarts
    /\ made <= restarted + (IF init = "first" THEN 0 ELSE 1)
    /\ \A f \in Files : files[f] <= made
    /\ tries \in [Services -> 0..Tries]
    /\ asked = None \/ asked.logged \in {"allowed", "denied", "none"}

LEMMA InitBounded == Init => Bounds
<1> SUFFICES ASSUME Init PROVE Bounds
    OBVIOUS
<1>1. conf.restarts \in Nat /\ Tries \in Nat
    BY BootOK DEF Init
<1> QED BY <1>1 DEF Init, Bounds

LEMMA StepBounded == BootInv /\ Bounds /\ [Next]_vars => Bounds'
<1> SUFFICES ASSUME BootInv, Bounds, [Next]_vars PROVE Bounds'
    OBVIOUS
<1> USE DEF fileVars, wallVars, serviceVars
<1>1. conf.restarts \in Nat /\ Tries \in Nat /\ Types
    BY BootOK DEF BootInv, Types
<1>2. CASE CheckCA
    BY <1>1, <1>2 DEF CheckCA, Bounds, Types
<1>3. ASSUME NEW f \in Files, OpenFile(f) \/ WriteFile(f) PROVE Bounds'
    <2>1. files' = [files EXCEPT ![f] = made] /\ made' = made /\ restarted' = restarted /\ conf' = conf
        BY <1>3 DEF OpenFile, WriteFile
    <2>2. init # "first" /\ init' # "first"
        BY <1>3 DEF OpenFile, WriteFile, After, Files
    <2> QED BY <1>1, <1>3, <2>1, <2>2 DEF OpenFile, WriteFile, Bounds, Types
<1>4. CASE Chmod \/ Generate
    BY <1>1, <1>4 DEF Chmod, Generate, Bounds, Types
<1>5. CASE Isolate
    BY <1>5 DEF Isolate, Bounds
<1>6. CASE Restart
    <2>1. 0 \in 0..Tries
        BY <1>1
    <2> QED BY <1>1, <1>6, <2>1 DEF Restart, Bounds, Types
<1>7. ASSUME NEW s \in Services, Spawn(s) \/ Serve(s) PROVE Bounds'
    BY <1>7 DEF Spawn, Serve, Bounds
<1>8. ASSUME NEW s \in Services, Poll(s) PROVE Bounds'
    <2>1. tries[s] + 1 \in 0..Tries
        BY <1>1, <1>8 DEF Poll, Bounds
    <2> QED BY <1>8, <2>1 DEF Poll, Bounds
<1>9. ASSUME NEW q \in Questions[conf.asks], Ask(q) PROVE Bounds'
    BY <1>9 DEF Ask, Bounds, ViewLogs
<1>10. CASE UNCHANGED vars
    BY <1>10 DEF vars, Bounds
<1> QED BY <1>2, <1>3, <1>4, <1>5, <1>6, <1>7, <1>8, <1>9, <1>10 DEF Next, InitCfg

LEMMA BootInvHolds == Spec => []BootInv
BY InitHolds, StepHolds, PTL DEF Spec

--------------------------------------------------------------------------------
(* The theorems.                                                            *)

\* The state keeps its types, and no start makes a second authority.
THEOREM BootTyped == Spec => []TypeOK
<1>1. BootInv /\ Bounds => TypeOK
    <2> SUFFICES ASSUME BootInv, Bounds PROVE TypeOK
        OBVIOUS
    <2>1. /\ conf.restarts \in Nat /\ conf.v6 \in BOOLEAN
          /\ conf.engine \in {"inspect", "universal"}
        BY BootOK DEF BootInv, Types
    <2>2. made \in 0..conf.restarts + 1 /\ restarted \in 0..conf.restarts
        BY <2>1 DEF BootInv, Types, Bounds
    <2>3. files \in [Files -> 0..conf.restarts + 1]
        BY <2>1, <2>2 DEF BootInv, Types, Bounds
    <2>4. Len(Commands) \in 0..8
        BY <2>1, CommandsCount
    <2>5. walls \in 0..8
        <3>1. walls \in Nat /\ walls <= Len(Commands)
            BY DEF BootInv, Types, StartInv
        <3>2. PICK n \in 0..8 : Len(Commands) = n
            BY <2>4
        <3> QED BY <3>1, <3>2
    <2> QED BY <2>2, <2>3, <2>5 DEF BootInv, Types, Bounds, TypeOK, Stages, AuthorityFiles
<1>2. Spec => []Bounds
    BY InitBounded, StepBounded, BootInvHolds, PTL DEF Spec
<1> QED BY <1>1, <1>2, BootInvHolds, PTL

\* A proxy that serves signs with the authority that steps are made to trust,
\* whenever the container was killed (init-inspect-cfg).
THEOREM ServesOneAuthority == Spec => []OneAuthority
<1>1. BootInv => OneAuthority
    BY DEF BootInv, FilesInv, StartInv, OneAuthority
<1> QED BY <1>1, BootInvHolds, PTL

\* Of the rules the setup step takes, the container refuses those with an empty
\* label only, and then never runs a build (main.ts, gen-configs.qjs.ts).
THEOREM RefusesEmptyLabelsOnly == Spec => []RefusedOnlyForEmptyLabel
<1>1. BootInv => RefusedOnlyForEmptyLabel
    BY DEF BootInv, Types, Services, RefusedInv, CutShort, StartInv, RefusedOnlyForEmptyLabel
<1> QED BY <1>1, BootInvHolds, PTL

--------------------------------------------------------------------------------
(* The walls of a container that runs buildkitd.                            *)

Built == walls = Len(Commands) /\ walls \in Nat /\ conf.v6 \in BOOLEAN

\* What the statement of WallsStand asks of one packet.
Walled(p) ==
    /\ Fate(p) # "outside"
    /\ conf.engine = "inspect" => Fate(p) # "container"
    /\ p.ip = 4 /\ p.proto = "tcp" /\ p.port # "dns" => Fate(p) = "proxy"
    /\ p.ip = 4 /\ p.proto = "udp" /\ p.port = "dns" /\ p.to = "gateway" => Fate(p) = "resolver"

AnyPacket ==
    [ip : {4, 6}, proto : {"tcp", "udp", "icmp"}, port : {"dns", "listener", "other"}, to : {"gateway", "outside"}]

\* What each command of the inspect engine does to a packet of a chain.
InspectTable(p) ==
    /\ walls \in {6, 8} /\ (p.ip = 6 => walls = 8)
    /\ \A c : Hits(1, c, p) <=> c = "PREROUTING" /\ p.ip = 4 /\ p.proto = "tcp" /\ p.port # "dns"
    /\ \A c : Hits(2, c, p) <=> c = "INPUT" /\ p.ip = 4 /\ p.proto = "tcp" /\ p.port = "listener"
    /\ \A c : Hits(3, c, p) <=> c = "INPUT" /\ p.ip = 4 /\ p.proto = "udp" /\ p.port = "dns"
    /\ \A c : Hits(4, c, p) <=> c = "INPUT" /\ p.ip = 4 /\ p.proto = "tcp" /\ p.port = "dns"
    /\ \A c : Hits(5, c, p) <=> c = "INPUT" /\ p.ip = 4
    /\ \A c : Hits(6, c, p) <=> c = "FORWARD" /\ p.ip = 4
    /\ walls = 8 => \A c : Hits(7, c, p) <=> c = "INPUT" /\ p.ip = 6
    /\ walls = 8 => \A c : Hits(8, c, p) <=> c = "FORWARD" /\ p.ip = 6
    /\ Commands[1].target = "REDIRECT" /\ \A k \in {2, 3, 4} : Commands[k].target = "ACCEPT"
    /\ Commands[5].target = "DROP" /\ Commands[6].target = "DROP"
    /\ walls = 8 => Commands[7].target = "DROP" /\ Commands[8].target = "DROP"

LEMMA InspectTables ==
    ASSUME Built, conf.engine = "inspect", NEW p \in AnyPacket, p.ip = 6 => conf.v6
    PROVE  InspectTable(p)
<1> USE DEF Redirect, InputAccept, InputDrop, ForwardDrop, Rule
<1>1. InspectWalls /\ walls = Len(Commands)
    BY InspectCommands DEF Built
<1>2. \A k \in {1, 2, 3, 4, 5, 6, 7, 8} : \A c : Hits(k, c, p) <=> Commands[k].chain = c /\ Covers(Commands[k], p)
    BY DEF Hits
<1>3. /\ \A c : Hits(1, c, p) <=> c = "PREROUTING" /\ p.ip = 4 /\ p.proto = "tcp" /\ p.port # "dns"
      /\ \A c : Hits(2, c, p) <=> c = "INPUT" /\ p.ip = 4 /\ p.proto = "tcp" /\ p.port = "listener"
      /\ \A c : Hits(3, c, p) <=> c = "INPUT" /\ p.ip = 4 /\ p.proto = "udp" /\ p.port = "dns"
      /\ \A c : Hits(4, c, p) <=> c = "INPUT" /\ p.ip = 4 /\ p.proto = "tcp" /\ p.port = "dns"
    <2>1. /\ Commands[1].chain = "PREROUTING"
          /\ Covers(Commands[1], p) <=> p.ip = 4 /\ p.proto = "tcp" /\ p.port # "dns"
        BY <1>1 DEF InspectWalls, Covers, AnyPacket
    <2>2. /\ Commands[2].chain = "INPUT"
          /\ Covers(Commands[2], p) <=> p.ip = 4 /\ p.proto = "tcp" /\ p.port = "listener"
        BY <1>1 DEF InspectWalls, Covers, AnyPacket
    <2>3. /\ Commands[3].chain = "INPUT"
          /\ Covers(Commands[3], p) <=> p.ip = 4 /\ p.proto = "udp" /\ p.port = "dns"
        BY <1>1 DEF InspectWalls, Covers, AnyPacket
    <2>4. /\ Commands[4].chain = "INPUT"
          /\ Covers(Commands[4], p) <=> p.ip = 4 /\ p.proto = "tcp" /\ p.port = "dns"
        BY <1>1 DEF InspectWalls, Covers, AnyPacket
    <2> QED BY <1>2, <2>1, <2>2, <2>3, <2>4
<1>4. /\ \A c : Hits(5, c, p) <=> c = "INPUT" /\ p.ip = 4
      /\ \A c : Hits(6, c, p) <=> c = "FORWARD" /\ p.ip = 4
    <2>1. /\ Commands[5].chain = "INPUT" /\ (Covers(Commands[5], p) <=> p.ip = 4)
          /\ Commands[6].chain = "FORWARD" /\ (Covers(Commands[6], p) <=> p.ip = 4)
        BY <1>1 DEF InspectWalls, Covers
    <2> QED BY <1>2, <2>1
<1>5. walls = 8 => /\ \A c : Hits(7, c, p) <=> c = "INPUT" /\ p.ip = 6
                   /\ \A c : Hits(8, c, p) <=> c = "FORWARD" /\ p.ip = 6
    BY <1>1, <1>2 DEF InspectWalls, Covers
<1>6. /\ Commands[1].target = "REDIRECT" /\ \A k \in {2, 3, 4} : Commands[k].target = "ACCEPT"
      /\ Commands[5].target = "DROP" /\ Commands[6].target = "DROP"
      /\ walls = 8 => Commands[7].target = "DROP" /\ Commands[8].target = "DROP"
    BY <1>1 DEF InspectWalls
<1>7. walls \in {6, 8} /\ (p.ip = 6 => walls = 8)
    BY <1>1 DEF InspectWalls
<1> QED BY <1>3, <1>4, <1>5, <1>6, <1>7 DEF InspectTable

\* What the chains make of a packet, by its first hit.
LEMMA InspectTargets ==
    ASSUME NEW p \in AnyPacket, InspectTable(p)
    PROVE  /\ Target("PREROUTING", p) =
                (IF p.ip = 4 /\ p.proto = "tcp" /\ p.port # "dns" THEN "REDIRECT" ELSE "ACCEPT")
           /\ Target("FORWARD", p) = "DROP"
           /\ Target("INPUT", p) =
                (IF p.ip = 4 /\ <<p.proto, p.port>> \in {<<"tcp", "listener">>, <<"udp", "dns">>, <<"tcp", "dns">>}
                 THEN "ACCEPT" ELSE "DROP")
<1> USE DEF InspectTable
<1>1. walls \in Nat /\ 1..walls \subseteq {1, 2, 3, 4, 5, 6, 7, 8} /\ {1, 2, 3, 4, 5, 6} \subseteq 1..walls
    OBVIOUS
<1>2. p.ip = 6 => 7 \in 1..walls /\ 8 \in 1..walls
    OBVIOUS
<1>3. Target("PREROUTING", p) =
        (IF p.ip = 4 /\ p.proto = "tcp" /\ p.port # "dns" THEN "REDIRECT" ELSE "ACCEPT")
    <2>1. CASE p.ip = 4 /\ p.proto = "tcp" /\ p.port # "dns"
        <3>1. 1 \in 1..walls /\ Hits(1, "PREROUTING", p) /\ \A j \in 1..(1 - 1) : ~Hits(j, "PREROUTING", p)
            BY <1>1, <2>1
        <3> QED BY <1>1, <2>1, <3>1, FirstHit
    <2>2. CASE ~(p.ip = 4 /\ p.proto = "tcp" /\ p.port # "dns")
        <3>1. \A k \in 1..walls : ~Hits(k, "PREROUTING", p)
            BY <1>1, <2>2
        <3> QED BY <2>2, <3>1, NoHit
    <2> QED BY <2>1, <2>2
<1>4. Target("FORWARD", p) = "DROP"
    <2>1. CASE p.ip = 4
        <3>1. 6 \in 1..walls /\ Hits(6, "FORWARD", p) /\ \A j \in 1..(6 - 1) : ~Hits(j, "FORWARD", p)
            BY <1>1, <2>1
        <3> QED BY <1>1, <3>1, FirstHit
    <2>2. CASE p.ip = 6
        <3>1. 8 \in 1..walls /\ Hits(8, "FORWARD", p) /\ \A j \in 1..(8 - 1) : ~Hits(j, "FORWARD", p)
            BY <1>1, <1>2, <2>2
        <3> QED BY <1>1, <2>2, <3>1, FirstHit
    <2> QED BY <2>1, <2>2 DEF AnyPacket
<1>5. Target("INPUT", p) =
        (IF p.ip = 4 /\ <<p.proto, p.port>> \in {<<"tcp", "listener">>, <<"udp", "dns">>, <<"tcp", "dns">>}
         THEN "ACCEPT" ELSE "DROP")
    <2>1. CASE p.ip = 4 /\ p.proto = "tcp" /\ p.port = "listener"
        <3>1. 2 \in 1..walls /\ Hits(2, "INPUT", p) /\ \A j \in 1..(2 - 1) : ~Hits(j, "INPUT", p)
            BY <1>1, <2>1
        <3> QED BY <1>1, <2>1, <3>1, FirstHit
    <2>2. CASE p.ip = 4 /\ p.proto = "udp" /\ p.port = "dns"
        <3>1. 3 \in 1..walls /\ Hits(3, "INPUT", p) /\ \A j \in 1..(3 - 1) : ~Hits(j, "INPUT", p)
            BY <1>1, <2>2
        <3> QED BY <1>1, <2>2, <3>1, FirstHit
    <2>3. CASE p.ip = 4 /\ p.proto = "tcp" /\ p.port = "dns"
        <3>1. 4 \in 1..walls /\ Hits(4, "INPUT", p) /\ \A j \in 1..(4 - 1) : ~Hits(j, "INPUT", p)
            BY <1>1, <2>3
        <3> QED BY <1>1, <2>3, <3>1, FirstHit
    <2>4. CASE p.ip = 4 /\ ~(<<p.proto, p.port>> \in {<<"tcp", "listener">>, <<"udp", "dns">>, <<"tcp", "dns">>})
        <3>1. 5 \in 1..walls /\ Hits(5, "INPUT", p) /\ \A j \in 1..(5 - 1) : ~Hits(j, "INPUT", p)
            BY <1>1, <2>4
        <3> QED BY <1>1, <2>4, <3>1, FirstHit
    <2>5. CASE p.ip = 6
        <3>1. 7 \in 1..walls /\ Hits(7, "INPUT", p) /\ \A j \in 1..(7 - 1) : ~Hits(j, "INPUT", p)
            BY <1>1, <1>2, <2>5
        <3> QED BY <1>1, <2>5, <3>1, FirstHit
    <2> QED BY <2>1, <2>2, <2>3, <2>4, <2>5 DEF AnyPacket
<1> QED BY <1>3, <1>4, <1>5

LEMMA InspectStands ==
    ASSUME Built, conf.engine = "inspect", NEW p \in AnyPacket, p.ip = 6 => conf.v6
    PROVE  Walled(p)
<1>1. CASE p.ip = 4 /\ p.proto = "tcp" /\ p.port # "dns"
    <2> DEFINE q == [p EXCEPT !.port = "listener", !.to = "gateway"]
    <2>1. q \in AnyPacket /\ q.ip = 4 /\ q.proto = "tcp" /\ q.port = "listener" /\ q.to = "gateway"
        BY <1>1 DEF AnyPacket
    <2>2. Redirected(p) = q
        BY <1>1, InspectTables, InspectTargets DEF Redirected
    <2> HIDE DEF q
    <2>3. Target("INPUT", q) = "ACCEPT"
        BY <2>1, InspectTables, InspectTargets
    <2>4. Fate(p) = "proxy"
        BY <2>1, <2>2, <2>3 DEF Fate
    <2> QED BY <1>1, <2>4 DEF Walled
<1>2. CASE ~(p.ip = 4 /\ p.proto = "tcp" /\ p.port # "dns")
    <2>1. Redirected(p) = p
        BY <1>2, InspectTables, InspectTargets DEF Redirected
    <2>2. CASE p.to = "outside"
        <3>1. Fate(p) = "dropped"
            BY <2>1, <2>2, InspectTables, InspectTargets DEF Fate
        <3> QED BY <1>2, <2>2, <3>1 DEF Walled
    <2>3. CASE p.to = "gateway"
        <3>1. Fate(p) = (IF p.ip = 4 /\ p.port = "dns" /\ p.proto \in {"tcp", "udp"} THEN "resolver" ELSE "dropped")
            BY <1>2, <2>1, <2>3, InspectTables, InspectTargets DEF Fate, AnyPacket
        <3> QED BY <1>2, <3>1 DEF Walled
    <2> QED BY <2>2, <2>3 DEF AnyPacket
<1> QED BY <1>1, <1>2

LEMMA UniversalStands ==
    ASSUME Built, conf.engine = "universal", NEW p \in AnyPacket, p.ip = 6 => conf.v6
    PROVE  Walled(p)
<1>1. UniversalWalls /\ walls = Len(Commands) /\ walls \in {2, 3}
    BY UniversalCommands DEF Built, UniversalWalls
<1>2. /\ \A c, q : Hits(1, c, q) <=> c = "PREROUTING" /\ 4 = q.ip /\ "tcp" = q.proto
      /\ \A c, q : Hits(2, c, q) <=> c = "FORWARD" /\ 4 = q.ip
      /\ walls = 3 => \A c, q : Hits(3, c, q) <=> c = "FORWARD" /\ 6 = q.ip
      /\ Commands[1].target = "REDIRECT" /\ Commands[2].target = "DROP"
      /\ walls = 3 => Commands[3].target = "DROP"
    BY <1>1 DEF UniversalWalls, Hits, Covers, Redirect, ForwardDrop, Rule
<1>3. p.ip = 6 => walls = 3
    BY <1>1 DEF UniversalWalls
<1>4. walls \in Nat /\ 1..walls \subseteq {1, 2, 3} /\ {1, 2} \subseteq 1..walls /\ (walls = 3 => 3 \in 1..walls)
    BY <1>1
<1>5. Target("FORWARD", p) = "DROP"
    <2>1. CASE p.ip = 4
        <3>1. 2 \in 1..walls /\ Hits(2, "FORWARD", p) /\ \A j \in 1..(2 - 1) : ~Hits(j, "FORWARD", p)
            BY <1>2, <1>4, <2>1
        <3> QED BY <1>2, <1>4, <3>1, FirstHit
    <2>2. CASE p.ip = 6
        <3>1. 3 \in 1..walls /\ Hits(3, "FORWARD", p) /\ \A j \in 1..(3 - 1) : ~Hits(j, "FORWARD", p)
            BY <1>2, <1>3, <1>4, <2>2
        <3> QED BY <1>2, <1>3, <1>4, <2>2, <3>1, FirstHit
    <2> QED BY <2>1, <2>2 DEF AnyPacket
<1>6. ASSUME NEW q PROVE Target("INPUT", q) = "ACCEPT"
    <2>1. \A k \in 1..walls : ~Hits(k, "INPUT", q)
        BY <1>1, <1>2, <1>4
    <2> QED BY <2>1, NoHit
<1>7. CASE p.ip = 4 /\ p.proto = "tcp"
    <2>1. 1 \in 1..walls /\ Hits(1, "PREROUTING", p) /\ \A j \in 1..(1 - 1) : ~Hits(j, "PREROUTING", p)
        BY <1>2, <1>4, <1>7
    <2>2. Target("PREROUTING", p) = "REDIRECT"
        BY <1>2, <1>4, <2>1, FirstHit
    <2>3. Fate(p) = "proxy"
        BY <1>6, <1>7, <2>2 DEF Fate, Redirected, AnyPacket
    <2> QED BY <1>7, <2>3 DEF Walled
<1>8. CASE ~(p.ip = 4 /\ p.proto = "tcp")
    <2>1. \A k \in 1..walls : ~Hits(k, "PREROUTING", p)
        BY <1>1, <1>2, <1>4, <1>8
    <2>2. Redirected(p) = p
        BY <2>1, NoHit DEF Redirected
    <2>3. CASE p.to = "outside"
        BY <1>5, <1>8, <2>2, <2>3 DEF Fate, Walled
    <2>4. CASE p.to = "gateway"
        BY <1>6, <1>8, <2>2, <2>4 DEF Fate, Walled
    <2> QED BY <2>3, <2>4 DEF AnyPacket
<1> QED BY <1>7, <1>8

\* While buildkitd runs, nothing a step sends gets out but through the proxy,
\* whatever was restarted when (init-iptables, s6-rc.d/buildkitd).
THEOREM StepsAreWalledIn == Spec => []WallsStand
<1>1. BootInv => WallsStand
    <2> SUFFICES ASSUME BootInv, proc["buildkitd"] # "down", NEW p \in Packets PROVE Walled(p)
        BY DEF WallsStand, Walled
    <2>1. conf.v6 \in BOOLEAN /\ conf.engine \in {"inspect", "universal"}
        BY BootOK DEF BootInv, Types
    <2>2. Built
        BY <2>1 DEF Built, BootInv, Types, StartInv
    <2>3. p \in AnyPacket /\ (p.ip = 6 => conf.v6)
        BY <2>1 DEF Packets, AnyPacket
    <2> QED BY <2>1, <2>2, <2>3, InspectStands, UniversalStands
<1> QED BY <1>1, BootInvHolds, PTL

--------------------------------------------------------------------------------
(* What rules mean.                                                         *)

\* A compiled rule, whichever generator compiled it.
CompiledAs(c, r) ==
    /\ c.scheme = r.scheme /\ c.host = AtomToRegex(r.host, Vocabulary(".", 1))
    /\ c.port = (IF r.form = "url" /\ r.port = NoPort THEN DefaultPort[r.scheme] ELSE PortOf(r.port))
    /\ c.path = (IF r.path = <<>> THEN AnyPath ELSE AtomToRegex(r.path, Vocabulary("/", 0)))
    /\ c.methods = (IF "*" \in r.methods THEN None ELSE r.methods)

LEMMA CompiledRule ==
    ASSUME NEW engine \in {"inspect", "universal"}, NEW r, RuleOK(r),
           engine = "universal" => r.form = "host"
    PROVE  CompiledAs(CompileRule(engine, r), r)
<1> USE DEF CompiledAs
<1>1. CASE engine = "universal"
    BY <1>1 DEF CompileRule, ConvertRule, RuleOK, DomainToRegex, DOMAIN_
<1>2. CASE engine = "inspect" /\ r.form = "host"
    BY <1>2 DEF CompileRule, HostRuleToMatcher, RuleOK, DomainToRegexPartial, DOMAIN_
<1>3. CASE engine = "inspect" /\ r.form = "url"
    BY <1>3 DEF CompileRule, CompileUrl, RuleOK, DomainToRegexPartial, DOMAIN_, PathToRegexPartial, PATH
<1> QED BY <1>1, <1>2, <1>3 DEF RuleOK

LEMMA PortMeaning ==
    ASSUME NEW r, RuleOK(r), r.form = "host" => r.port # NoPort, NEW q, QuestionOK(q),
           NEW c, CompiledAs(c, r)
    PROVE  c.port \in {None, q.port}
           <=> r.port \in {AnyPort, q.port} \/ (r.port = NoPort /\ q.port = DefaultPort[r.scheme])
<1>1. q.port \in Ports /\ r.port \in Ports \cup {AnyPort, NoPort} /\ r.form \in {"host", "url"}
    BY DEF RuleOK, QuestionOK
<1>2. AnyPort \notin Ports /\ NoPort \notin Ports /\ None \notin Ports /\ AnyPort # NoPort
    BY LettersOK
<1>3. CASE r.port = NoPort
    <2>1. r.form = "url" /\ r.scheme \in {"https", "http"}
        BY <1>1, <1>3 DEF RuleOK
    <2>2. c.port = DefaultPort[r.scheme] /\ DefaultPort[r.scheme] \in Ports
        BY <1>3, <2>1, LettersOK DEF CompiledAs
    <2> QED BY <1>1, <1>2, <1>3, <2>2
<1>4. CASE r.port # NoPort
    <2>1. c.port = PortOf(r.port)
        BY <1>4 DEF CompiledAs
    <2> QED BY <1>1, <1>2, <1>4, <2>1 DEF PortOf
<1> QED BY <1>3, <1>4

LEMMA MethodMeaning ==
    ASSUME NEW r, RuleOK(r), NEW q, NEW c, CompiledAs(c, r)
    PROVE  c.methods = None \/ q.method \in c.methods <=> {"*", q.method} \cap r.methods # {}
<1>1. CASE "*" \in r.methods
    BY <1>1 DEF CompiledAs
<1>2. CASE "*" \notin r.methods
    BY <1>2 DEF CompiledAs, RuleOK
<1> QED BY <1>1, <1>2

LEMMA PathMeaning ==
    ASSUME NEW r, RuleOK(r), NoTripleStar(r.path), NEW q, QuestionOK(q), NEW c, CompiledAs(c, r)
    PROVE  c.scheme = "tls" \/ Matches(c.path, q.path) <=> r.path = <<>> \/ Fits(r.path, q.path, "/", 0)
<1>1. q.path \in Texts /\ r.path \in Patterns
    BY DEF QuestionOK, RuleOK
<1>2. CASE r.path = <<>>
    <2>1. Matches(AnyPath, q.path)
        BY AnyPathMatches DEF QuestionOK
    <2> QED BY <1>2, <2>1 DEF CompiledAs
<1>3. CASE r.path # <<>>
    <2>1. c.scheme # "tls" /\ c.path = AtomToRegex(r.path, Vocabulary("/", 0))
        BY <1>3 DEF CompiledAs, RuleOK
    <2> QED BY <1>1, <1>3, <2>1, PatternMeaning
<1> QED BY <1>2, <1>3

LEMMA NameMeaning ==
    ASSUME NEW engine \in {"inspect", "universal"}, NEW r, RuleOK(r), NoTripleStar(r.host),
           NEW name \in Texts, NEW c, CompiledAs(c, r)
    PROVE  AdmitsName(engine, c, name)
           <=> (IF engine = "universal" THEN Fits(r.host, name, ".", 1)
                ELSE Fits(LowerAll(r.host), LowerAll(name), ".", 1))
<1>1. r.host \in Patterns /\ c.host = AtomToRegex(r.host, Vocabulary(".", 1))
    BY DEF RuleOK, CompiledAs
<1>2. Matches(c.host, name) <=> Fits(r.host, name, ".", 1)
    BY <1>1, PatternMeaning
<1>3. MatchesAnyCase(c.host, name) <=> Fits(LowerAll(r.host), LowerAll(name), ".", 1)
    BY <1>1, PatternMeaningAnyCase
<1> QED BY <1>2, <1>3 DEF AdmitsName

\* What a compiled rule admits is what the README says the rule permits.
LEMMA RuleMeaning ==
    ASSUME NEW engine \in {"inspect", "universal"}, NEW r, RuleOK(r), SetupAccepts(r),
           engine = "universal" => r.form = "host", NoTripleStar(r.host), NoTripleStar(r.path),
           NEW q, QuestionOK(q)
    PROVE  Admits(engine, CompileRule(engine, r), q) <=> Permits(engine, r, q)
<1> DEFINE c == CompileRule(engine, r)
<1>1. CompiledAs(c, r)
    BY CompiledRule
<1> HIDE DEF c
<1>2. r.form = "host" => r.port # NoPort
    BY DEF SetupAccepts
<1>3. c.scheme = r.scheme /\ q.name \in Texts
    BY <1>1 DEF CompiledAs, QuestionOK
<1>4. c.port \in {None, q.port}
      <=> r.port \in {AnyPort, q.port} \/ (r.port = NoPort /\ q.port = DefaultPort[r.scheme])
    BY <1>1, <1>2, PortMeaning
<1>5. c.methods = None \/ q.method \in c.methods <=> {"*", q.method} \cap r.methods # {}
    BY <1>1, MethodMeaning
<1>6. c.scheme = "tls" \/ Matches(c.path, q.path) <=> r.path = <<>> \/ Fits(r.path, q.path, "/", 0)
    BY <1>1, PathMeaning
<1>7. AdmitsName(engine, c, q.name)
      <=> (IF engine = "universal" THEN Fits(r.host, q.name, ".", 1)
           ELSE Fits(LowerAll(r.host), LowerAll(q.name), ".", 1))
    BY <1>1, <1>3, NameMeaning
<1>8. Admits(engine, c, q) <=> Permits(engine, r, q)
    BY <1>3, <1>4, <1>5, <1>6, <1>7 DEF Admits, AdmitsRequest, Permits
<1> QED BY <1>8 DEF c

--------------------------------------------------------------------------------
(* What a step was told.                                                    *)

Answer(q) ==
    [q |-> q, admitted |-> ProxyAdmits(conf.engine, conf.mode, conf.rules, q),
     logged |-> IF conf.engine = "universal" THEN "none" ELSE ViewLogs(conf.mode, conf.rules, q.name)]

\* What was asked last was a question, and what became of it is what the rules
\* the container was started with make of it.
AskedInv == asked = None \/ \E q \in Questions[conf.asks] : asked = Answer(q)

LEMMA AskedKept ==
    ASSUME AskedInv, UNCHANGED <<conf, asked>>
    PROVE  AskedInv'
BY DEF AskedInv, Answer

LEMMA AskedInvHolds == Spec => []AskedInv
<1>1. Init => AskedInv
    BY DEF Init, AskedInv
<1>2. AskedInv /\ [Next]_vars => AskedInv'
    <2> SUFFICES ASSUME AskedInv, [Next]_vars PROVE AskedInv'
        OBVIOUS
    <2>1. CASE InitCfg
        BY <2>1, AskedKept DEF InitCfg, CheckCA, Chmod, Generate, OpenFile, WriteFile
    <2>2. CASE Isolate \/ Restart
        BY <2>2, AskedKept DEF Isolate, Restart
    <2>3. CASE \E s \in Services : Spawn(s) \/ Serve(s) \/ Poll(s)
        BY <2>3, AskedKept DEF Spawn, Serve, Poll
    <2>4. CASE \E q \in Questions[conf.asks] : Ask(q)
        <3>1. PICK q \in Questions[conf.asks] : Ask(q)
            BY <2>4
        <3>2. asked' = Answer(q) /\ conf' = conf
            BY <3>1 DEF Ask, Answer
        <3>3. asked' = Answer(q)'
            BY <3>2 DEF Answer
        <3> QED BY <3>2, <3>3 DEF AskedInv
    <2>5. CASE UNCHANGED vars
        BY <2>5, AskedKept DEF vars
    <2> QED BY <2>1, <2>2, <2>3, <2>4, <2>5 DEF Next
<1> QED BY <1>1, <1>2, PTL DEF Spec

\* The container's configuration and rules are of their types.
Configured ==
    /\ conf \in Configurations /\ conf.engine \in {"inspect", "universal"}
    /\ \A r \in conf.rules : RuleOK(r) /\ SetupAccepts(r) /\ (conf.engine = "universal" => r.form = "host")
    /\ \A q \in Questions[conf.asks] : QuestionOK(q)

LEMMA BootConfigured == BootInv => Configured
<1> SUFFICES ASSUME BootInv PROVE Configured
    OBVIOUS
<1>1. conf \in Configurations
    BY DEF BootInv, Types
<1> QED BY <1>1, BootOK, RulesOK DEF Configured

LEMMA MeaningFollows ==
    ASSUME DocumentedRules, Configured, AskedInv
    PROVE  WildcardMeaning
<1> SUFFICES ASSUME asked # None
             PROVE  asked.admitted <=> conf.mode = "audit" \/ \E r \in conf.rules : Permits(conf.engine, r, asked.q)
    BY DEF WildcardMeaning
<1>1. PICK q \in Questions[conf.asks] : asked = Answer(q)
    BY DEF AskedInv
<1>2. asked.q = q /\ (asked.admitted <=> ProxyAdmits(conf.engine, conf.mode, conf.rules, q))
    BY <1>1 DEF Answer
<1>3. ASSUME NEW r \in conf.rules
      PROVE  Admits(conf.engine, CompileRule(conf.engine, r), q) <=> Permits(conf.engine, r, q)
    <2>1. NoTripleStar(r.host) /\ NoTripleStar(r.path)
        BY DEF DocumentedRules, Configured
    <2> QED BY <2>1, RuleMeaning DEF Configured
<1> QED BY <1>2, <1>3 DEF ProxyAdmits

\* What the proxy admits is what the README says of the rules, for every rule
\* without a `***`, every name and every path (partial-wildcard.ts,
\* wildcard-rules.ts, url-rules.ts, haproxy-rules.ts).
THEOREM RulesMeanWhatTheySay == ASSUME DocumentedRules PROVE Spec => []WildcardMeaning
<1>1. BootInv /\ AskedInv => WildcardMeaning
    BY BootConfigured, MeaningFollows
<1> QED BY <1>1, BootInvHolds, AskedInvHolds, PTL

\* A name the view logs as allowed is the name of a request the proxy admits:
\* one direction of ViewMatchesProxy.
ViewNotWider == asked # None /\ asked.logged = "allowed" => \E q \in Questions[conf.asks] :
    q.name = asked.q.name /\ ProxyAdmits(conf.engine, conf.mode, conf.rules, q)

\* The view's expression takes a name only when the proxy's does, and always
\* then if the rule's host is in lower case.
LEMMA ViewTakesName ==
    ASSUME NEW r, RuleOK(r), NEW name \in Texts
    PROVE  /\ Matches(HostRegexOfRule(r), LowerAll(name))
              => AdmitsName("inspect", CompileRule("inspect", r), name)
           /\ LowerAll(r.host) = r.host /\ AdmitsName("inspect", CompileRule("inspect", r), name)
              => Matches(HostRegexOfRule(r), LowerAll(name))
<1>1. CompiledAs(CompileRule("inspect", r), r)
    BY CompiledRule
<1>2. HostRegexOfRule(r) = AtomToRegex(r.host, Vocabulary(".", 1)) /\ r.host \in Patterns
    BY DEF HostRegexOfRule, DomainToRegexPartial, DOMAIN_, RuleOK
<1>3. Matches(AtomToRegex(r.host, Vocabulary(".", 1)), LowerAll(name))
      => MatchesAnyCase(AtomToRegex(r.host, Vocabulary(".", 1)), name)
    BY <1>2, LowerCaseMeaning
<1>4. LowerAll(r.host) = r.host /\ MatchesAnyCase(AtomToRegex(r.host, Vocabulary(".", 1)), name)
      => Matches(AtomToRegex(r.host, Vocabulary(".", 1)), LowerAll(name))
    BY <1>2, LowerCaseMeaning
<1> QED BY <1>1, <1>2, <1>3, <1>4 DEF CompiledAs, AdmitsName

\* The view against the proxy: never the wider of the two, and of one mind with
\* it when the hosts are in lower case.
LEMMA ViewFollows ==
    ASSUME AskAnything, Configured, AskedInv
    PROVE  ViewNotWider /\ (LowerCaseHosts => ViewMatchesProxy)
<1> DEFINE admits(q) == ProxyAdmits(conf.engine, conf.mode, conf.rules, q)
           someAdmitted == \E q \in Questions[conf.asks] : q.name = asked.q.name /\ admits(q)
<1> SUFFICES ASSUME asked # None, asked.logged # "none"
             PROVE  /\ asked.logged = "allowed" => someAdmitted
                    /\ LowerCaseHosts /\ someAdmitted => asked.logged = "allowed"
    BY DEF ViewMatchesProxy, ViewNotWider
<1> HIDE DEF admits
<1>1. PICK p \in Questions[conf.asks] : asked = Answer(p)
    BY DEF AskedInv
<1>2. conf.engine = "inspect"
    BY <1>1 DEF Answer, Configured
<1>3. asked.q = p /\ asked.logged = ViewLogs(conf.mode, conf.rules, p.name) /\ p.name \in Texts
    BY <1>1, <1>2 DEF Answer, Configured, QuestionOK
<1>4. CASE conf.mode = "audit"
    BY <1>3, <1>4 DEF ViewLogs, ProxyAdmits, admits
<1>5. CASE conf.mode # "audit"
    <2> DEFINE takes(r) == AdmitsName("inspect", CompileRule("inspect", r), p.name)
               lists(r) == Matches(HostRegexOfRule(r), LowerAll(p.name))
    <2>1. asked.logged = "allowed" <=> \E r \in conf.rules : lists(r)
        BY <1>3, <1>5 DEF ViewLogs
    <2>2. ASSUME NEW r \in conf.rules
          PROVE  (lists(r) => takes(r)) /\ (LowerCaseHosts /\ takes(r) => lists(r))
        <3>1. RuleOK(r) /\ (LowerCaseHosts => LowerAll(r.host) = r.host)
            BY DEF Configured, LowerCaseHosts
        <3> QED BY <1>3, <3>1, ViewTakesName
    <2>3. ASSUME NEW q \in Questions[conf.asks], q.name = p.name
          PROVE  admits(q) <=> \E r \in conf.rules : takes(r) /\ AdmitsRequest(CompileRule("inspect", r), q)
        BY <1>2, <1>5, <2>3 DEF admits, ProxyAdmits, Admits
    <2>4. ASSUME NEW r \in conf.rules
          PROVE  \E q \in Questions[conf.asks] : q.name = p.name /\ AdmitsRequest(CompileRule("inspect", r), q)
        BY <1>2 DEF AskAnything, Configured
    <2> HIDE DEF takes, lists
    <2> QED BY <1>3, <2>1, <2>2, <2>3, <2>4
<1> QED BY <1>4, <1>5

\* The view logs a name as allowed exactly when the proxy lets a request for it
\* through, for all rules whose hosts are in lower case (gen-configs.qjs.ts,
\* coredns-config.ts); those in upper case are what the two disagree about.
THEOREM ViewAgreesWithProxy == ASSUME LowerCaseHosts, AskAnything PROVE Spec => []ViewMatchesProxy
<1>1. BootInv /\ AskedInv => ViewMatchesProxy
    BY BootConfigured, ViewFollows
<1> QED BY <1>1, BootInvHolds, AskedInvHolds, PTL

\* Whatever the case of the rules' hosts, the view never logs as allowed a name
\* the proxy refuses: the disagreement over upper case is of one kind only, a
\* name refused in the log and admitted by the proxy.
THEOREM ViewNeverWider == ASSUME AskAnything PROVE Spec => []ViewNotWider
<1>1. BootInv /\ AskedInv => ViewNotWider
    BY BootConfigured, ViewFollows
<1> QED BY <1>1, BootInvHolds, AskedInvHolds, PTL
================================================================================
