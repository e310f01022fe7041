# Buildcage in TLA+

A verification development of Buildcage, the GitHub Action that runs `docker build` behind an
egress proxy: TLA+ modules translated from the source, TLC configurations that check them on small
instances, and theorems that TLAPS proves for every instance. Paths are relative to the repository.

## 1. The system

A workflow calls the **setup action** (`src/main.ts`), which verifies the provenance of a container
image, takes a previous builder of that name down and starts a new one with `docker compose`. The
container runs BuildKit and one of three **engines** that decide where the build's traffic may go.
When the build is over, the **report action** reads the engine's logs out of the container and
decides whether the job fails; the **post step** takes the container down.

| component | state it keeps | operations | talks to |
|---|---|---|---|
| `buildcage-runc` (`docker/inspect/buildcage-runc`) | the step's rootfs, `config.json`, one scratch mirror per CA directory, `/etc/buildcage-ca.pem` | inject, run, undo | wraps `runc` for BuildKit, one process per `RUN` step |
| inspect HAProxy policy (`src/core/lib/acl/haproxy-config.ts`) | a generated configuration; per connection: SNI, tls/passthrough class, destination; per request: verdict | detect, terminate or pass through, rules, resolve, connect, log | iptables redirects a step's TCP traffic to it; logs go to s6-log |
| inspect CoreDNS (`acl/coredns-config.ts`) | generated views | answer every name with one address, log allow/deny | the step's resolver |
| rule parsing and matching (`acl/url-rules.ts`, `wildcard-rules.ts`, `partial-wildcard.ts`, `rules.ts`) | none | parse, compile to a regular expression | used by all three engines |
| explicit engine: source policy (`acl/source-policy.ts`, `buildkit-proxy/solve.go`, `policy.go`) | the policy file | generate, merge into each solve | BuildKit evaluates it |
| explicit engine: `buildkit-proxy` (`proxy.go`, `main.go`, `supervisor.go`) | open streams; the buildkitd child | relay, supervise, stop | between the client and buildkitd, PID 1 of its container |
| universal engine (`docker/universal/files/haproxy.cfg.template`, dnsmasq, iptables) | the configuration | detect SNI or Host, resolve, connect | as the inspect policy, without decryption |
| container start-up (`s6-rc.d`, `s6-scripts`) | the files init scripts wrote, iptables rules, service states | oneshots in dependency order, then long runs; restart | s6, compose's `restart: unless-stopped` |
| setup and post (`src/main.ts`, `src/post.ts`) | the compose project, action state | down, up, down | docker |
| provenance (`src/core/lib/provenance`) | tag, digest, bundle | resolve tag, fetch bundle, verify, pull by digest | a registry, Sigstore |
| log collection (`docker/client.ts`, `rotated-log.ts`) | s6-log's segments | list, read, parse | `docker exec` in the running container |
| report (`log/*.ts`, `report/**`) | events | parse, aggregate, decide | the job summary and exit code |

**Hard behaviours.** A step runs arbitrary code between inject and undo; the undoing fails half way;
targets come in Go's random map order. Requests of one connection, and the DNS answers behind
them, change between the check and the use. Streams end from either side in any order, and one
end may be silent for ever. The container restarts between two lines of an init script. Logs rotate
between listing and reading. A tag moves between verification and pull. `PROJECT.json` lists these
as hazards, each at its line.

**What makes each component correct.**

- `buildcage-runc`: the layer BuildKit commits is the image with the step's own operations applied;
  no CA block and no trace of the injection are in it; while the step runs, the files its variables
  name do carry the CA, once; a failure half way ends in a layer nobody commits.
- inspect policy: nothing is connected to, and no name resolved, that the rules do not permit; an
  inspected request goes where its own name leads and never to an internal address; the log line,
  and the report made of it, say what happened.
- relay: each direction delivers what was sent, once and in order; success is only reported of a
  whole answer; neither direction waits for the other; nothing is left behind.
- explicit policy: the client's rules never widen the allowlist, nor does Buildcage decide what it
  does not govern; a rule admits what it lists; the report fails the job for the denials nobody
  expected, and for no others.
- rules and the CoreDNS view: a compiled rule matches what its documented syntax says; a name is
  logged as allowed exactly when the proxy would admit a request for it; what setup accepts, the
  container compiles.
- start-up: no step runs before the redirect and the drops are in place, after any number of
  restarts; a proxy never serves with the files of two certificate authorities; a container gets to
  serve, or something is known to keep it from that.
- setup and post: what is started is what was verified; a builder stays until a later step of its
  name or the post step takes it down, and post leaves none behind.
- provenance: success means a bundle that names the digest the tag led to; "no signature" is only
  said of an image that had none; a release that nothing disturbs verifies.
- report: every line it comes to is read once and in order; a refusal nobody expected fails the job,
  and silence is never taken for the absence of refusals; the step ends.

## 2. Modules

| module | what it is |
|---|---|
| `StepLayer` | abstract: what a `RUN` step is promised of its layer |
| `CaInjection` | `buildcage-runc`, shown to implement `StepLayer` |
| `EgressPolicy` | abstract: what may be asked of DNS and connected to |
| `InspectProxy` | the generated HAProxy configuration and the report's reading of its log, shown to implement `EgressPolicy` |
| `Pipe` | abstract: one direction of a stream |
| `StreamRelay` | `passthroughHandler`, shown to implement `Pipe` twice |
| `ExplicitPolicy` | the explicit engine's policy from rules to verdict |
| `Provenance` | the verification of an image against a registry that changes and fails |
| `Setup` | setup steps and post steps of a job, composed with `Provenance` |
| `RuleMatch` | the compilers of rules and the matcher they are written for |
| `Boot` | a container from its first instruction to a step's requests, with restarts; uses `RuleMatch` |
| `Report` | the logs of the three engines, s6-log, and the report step |
| `MC*` | constants for TLC |
| `*Proofs` | theorems |

Definitions are named after the function or the configuration line they model; `PROJECT.json`'s
`map` gives file and lines of each.

### CaInjection and StepLayer

One `RUN` step, seen by the wrapper. A file is its text, the number of CA blocks in it, its mode
and whether its mtime is the image's; `None` is no file. Directories are nodes as well, because a
manifest records them and a bind's own root is not one of its entries. `pc` follows `main`:

- `start`: `RunWithoutInjection`, or `ChooseTargets` (inject up to `groupTargetsByDir`), which may
  fail to load the spec;
- `bind`: one action per target directory, in any order, as Go's map iteration is: bound to a
  scratch mirror (copied, manifest taken, CA appended, second manifest, mtimes restored) or
  skipped by `mountConflicts`, the size limit or the root check; `OwnFile` is written before;
- `spawn`: config.json is saved, runc started or not;
- `running`: the step edits, deletes, touches, copies files or changes modes, through the mirrors
  where they are mounted and in the rootfs elsewhere; it ends with a code, or is killed;
- `finish`: one action per bind (`FinishDir`: CA taken out, compared with the baseline, synced
  back, scratch removed, any of which may fail, the last without consequence but the directory),
  then the removal of `OwnFile`;
- `exited`: BuildKit commits a layer that ended with 0 and discards any other.

`Faults` names the calls that may fail: `load`, `ownCA` (nothing written) and `tornOwnCA` (part
written), each tried again for the next variable that wants the file, `prepare`, `save`, `spawn`,
`finish`, `cleanup` (a scratch directory's removal, which is only logged), `removeOwnCA`, `kill`;
`unremoved` remembers the directories whose removal failed. The refinement maps the state
to the layer it *would* commit: the rootfs where no mirror stands for it, the mirror without its CA
where one does. Undoing the injection is then a stutter of `StepLayer`, which is what it should be.

Left out: the walk of `resolveInRoot` over symbolic links (a variable names a file, or is
`Unresolvable`), the bytes of a bundle besides its CA blocks, xattrs and owners, `parseArgs`.

### InspectProxy and EgressPolicy

Each connection is in a phase: `detect` (the `tcp-request` rules: TLS hello or not, the SNI, the
choice between passthrough and termination), `idle` (an HTTP connection between requests),
`resolve`, `connect`, `connecting`. An exchange is a passthrough, or one request of a terminated
connection with its host, normalised path and method. The actions are the lines of the configuration in their
order: traversal and rule block, `do-resolve` with the shared resolver and its cache,
`set-dst`, the internal check, the origin's answer or its failures. Each end logs a record of
what HAProxy writes *and* what really happened (`why`, `answered`), and `reached` remembers what was
connected to; properties compare the report's reading of the one with the other. The build's own
side may end at any moment, too: an exchange in progress by hanging up or falling silent
(`ClientEndsIt`, termination `C` or `c`, a status of -1 or 408, or the origin's if it had begun to
answer), a connection between exchanges with or without a line (`Close`). `ClientEnds` and `OriginEnds`
name the ways. Regular expressions are abstracted to the sets of
authorities and paths they match; the segments of a path are kept, because normalisation and
traversal are what could go wrong. DNS may answer anything in `Answers`, time out or expire at any moment.

### StreamRelay and Pipe

The queue of each gRPC stream in each direction holds at most `Window` messages; `c2s` and the
handler's loop move one message at a time, each with its program counter, and every point at which
a call can return an error or `ctx` can end is an action. The client and buildkitd send, read, end,
cancel and stop reading at any moment.

### ExplicitPolicy

`BuildSourcePolicy` compiles the inputs into selectors; a source is a scheme, a host and a port
that may be missing, because BuildKit leaves the scheme's own port out of an identifier. `Solve`
merges; `Convert`, `GiveUp`, `Deny` and `Allow` are BuildKit's engine as the comments of
`solve.go` and `source-policy.ts` describe it and are marked external. The report's part,
from a log of denials to `ShouldFail`, are operators over the state. A session policy
(`SourcePolicySession`) is left out: BuildKit evaluates it on its own and it can only deny more.

### Provenance and Setup

A verification (`v[s]`) is at one request at a time: `token`, `digest`, `referrers`, then a
`manifest`, the `fallback` tag or a `probe` per candidate, the `blob`, and Sigstore (`trust`). A
request succeeds with what the registry holds *then*, or fails with a status in `Faults`; each
failure is classified as the code does (`NOT_FOUND`, `TRANSIENT`, `TOKEN_ERROR`, ...). Between two
requests tags move (`Push`) and artifacts are attached, at most `MaxChanges` times. `saw` is
history: what the tag has led to, which digests had nothing to show, whether anything failed, and
whether an answer was one the code takes for an absence that it does not state (`misled`; `Misread`
lists such answers, request by request, apart from what the code makes of them in `Classify`).
A bundle is reduced to what the verifier compares: signed by a release workflow or not, version,
commit and digest. `Setup` runs one verification per step of a job and puts around it what
`main.ts` does, compose down, pull, up, wait, with a failure at each, and the post steps.
Steps run in the order of the job; a background step is not waited for, except by a step of the same
builder name.

### RuleMatch and Boot

`RuleMatch` compiles a pattern to a sequence of pieces (which characters, how many at least, whether
more) as `atomToRegex` does, and matches it. `Fits` says independently what the README promises of
the syntax: an assignment of the characters of a name to the elements of a pattern. `~` rules are
expressions already and are left out.

`Boot` follows `init-inspect-cfg` and `init-iptables` command by command. A file is opened
(emptied) and written in two steps; `torn` holds those in between; `made` numbers the certificate
authorities. `Restart` may happen at any moment: the writable layer stays, processes and iptables
rules go. `Fate` evaluates the appended rules, first match decides, for every kind of packet a step
can send. s6-rc starts a service when its dependencies are up; with a notification-fd that takes a
check (`Tries`), without one it takes a running process. A step that gets to run asks for one name.

### Report

A log is the files ever written to, the archives by age and the name `current`; `count` numbers the
lines of each log, so that a reader's lines can be told apart and ordered. `Rotate` and
`Reopen` are two steps, since s6-log renames first and opens the new file after. `List` and one
`Cat` per file are the reader's; `Break` ends a `docker exec` with an error after any part of a file.
`Request` and `LookUp` log what each engine does, a request that is refused for its rule or, in the
two proxies, for a name that does not resolve, an internal address or an origin out of reach; `Start`
truncates the explicit engine's log.
`Judge` is the engine's script: the table of blocked hosts, `known_blocked_rules`, the exit status;
then the upload. The container runs on until the script has read what it reads.

## 3. Runs

| run | checks | bounds, and why they are enough |
|---|---|---|
| `ca_roundtrip` | `CommittedClean`, `OnlyTouchedCopiedUp`, `LayerIsStepsOwn` | three variables of the three behaviours, nine containers, one bundle's directory above another's, two step operations, every fault but the three that leave something behind and are only logged (`tornOwnCA`, `removeOwnCA`, `cleanup`): two operations are what it takes to change and change back, or to touch a second file of a mirrored directory |
| `ca_faults` | `TrustInPlace`, `ScratchReleased` | four claims, two of which are bound together, one nested and one too large; one operation, a copy of a bundle included; all ten faults |
| `inspect_one` | `TrafficLogged`, `RefusalsReported`, `BlockMeansNoAnswer`, `KeepsPolicy` | restrict; six ways to open a connection, six requests, four exchanges on one connection: one to pass, one to be refused, one that reuses what the first left behind; origins and the build end an exchange in every way but the abort of an answer begun |
| `inspect_pair` | `PolicyInv`, `ResolutionEnds` | audit; two connections sharing a resolver, three exchanges each; origins refuse or abort, the build's own ends are left to `inspect_one` |
| `relay` | `OkMeansComplete`, `HalfCloseIsLast`, `BothPipes`, `BackendHeard`, `NoGoroutineLeft`, `HandlerReturns` | windows of one, three messages each way: queue, hand and queue are full at three |
| `explicit` | `NeverPastAllowlist`, `ListedNeverRefused`, `ClientsRuleTheRest`, `FailsOnUnexpected` | two builds, one source asked for in each, five clients, two conversions where BuildKit allows 20: a client can convert, convert back and reach the bound |
| `setup` | `SetupTypeOK`, `NotFoundIsAbsent`, `SteadyReleaseVerifies`, `StartedAsVerified`, `BuilderStays`, `NothingLeftBehind`, no deadlock | three steps, two of one builder and one in the background; two digests, an attached list of four with one artifact to skip of every kind; one change to the registry, which is enough to move a tag between any two requests; one way each to fail and to go on for every request, and besides a misread answer of each that can give one. The third step's ref is a branch, which is never verified, so that two containers of one name do not run at a time: with a third version the run has more than 16 million states. `RulesOK` is always true here; theorem `BuildersAreVerified` covers both |
| `report` | `ReadOnceInOrder`, `RefusalsFail`, `SilenceIsNotQuiet`, `NoFalseAlarm`, `ArtifactIsWhole`, `ReportEnds` | one host allowed and one not; a rotation after every line and two archives, so that files vanish after three; two to four lines and up to one restart for each engine, mode and kind of known rule |
| `boot` | `WildcardMeaning`, `ViewMatchesProxy`, `RefusedOnlyForEmptyLabel`, `WallsStand`, `OneAuthority`, `BootServes` | every pattern up to three characters and five longer ones, names up to four; paths likewise; each form, scheme, port and method alone and with a second rule; two restarts, since a file that the first kill tore is found by the second start; two checks |
| `explicit_regex_port`, `relay_status`, `names_case` | one property each | expected to be violated, see below |

Only `setup` checks for deadlock. In the others a step, a build, an RPC, a boot or a report that is over
has nothing more to do, and the liveness properties say what must not be waited for for ever.

**Fairness.** `ResolutionEnds` assumes that HAProxy serves each
connection and that its resolver answers or gives up, which `resolve_retries` and `timeout retry`
make it do; nothing is assumed of the build or of origins. The relay's properties assume that Go
schedules both goroutines and that a client which is waiting reads; a backend may be deaf and dumb.
`ReportEnds` assumes that each docker command ends, as `docker exec` does when its process or its
container does, and nothing of the container, which may stop, rotate and write as it likes.
`BootServes` assumes that init scripts run on, that a service which can start does, and that
s6-notifyoncheck makes its checks; not that a check comes late enough, that the container is left
alone, or that a step asks anything. `Doomed` names what keeps a container from serving.

### Where the code and its documentation differ

Three runs are expected to find a violation, each of one property that a comment or document states:

- `relay_status`: a client that is sending when buildkitd ends an RPC gets the wrong status
  (`proxy.go:79`).
- `explicit_regex_port`: the https rule `~^host:443$` refuses `https://host/` (`source-policy.ts:119`).
- `names_case`: a rule with an upper-case letter admits the requests to a name and logs its look-ups
  as denied (`coredns-config.ts:157`).

Others were met while modelling and have no run of their own. The bounds of the passing runs leave
them out by name, or the property says what it leaves out:

- of two bundle directories of which one contains the other, one gets no CA if Go's map happens
  to yield the other first (`inject.go:219`); a variable that names a missing file leaves an empty
  file in the layer when the step changes its neighbour (`castore.go:102`); a `chmod` of a mirrored
  directory itself is lost (`mount.go:138`); a step that copies its bundle elsewhere commits the CA
  (`mount.go:297`, `"copy"` in `Ops`); an own-CA file written in part, or
  whose removal fails, stays in the layer (`inject.go:173`, `"tornOwnCA"` and `"removeOwnCA"` in
  `Faults`); a scratch directory whose removal fails stays on the builder, with a log line
  (`mount.go:314`, `"cleanup"`, which `ScratchReleased` names);
- an origin that answers and then aborts the body is a block (`inspect.ts:41`; `"abort"` is left out of
  `inspect_one`); one that hangs up without an answer is a failed resolution, and what `timeout connect`
  or `timeout server` ends an allowed request with a status (`RefusalsReported` and
  `BlockMeansNoAnswer` name both as exceptions); so does the build itself when it hangs up or falls
  silent in the middle of an exchange (`inspect.ts:24`, `86`), although `README.md:440` promises
  a status "only when something answered": `BlockMeansNoAnswer` names these ends, too;
- a client that has not half-closed gets no status when buildkitd's answer ends early (`proxy.go:79`);
- answers that do not say that a thing is missing are reported as `NOT_FOUND`, which `errors.ts:9` keeps
  for a resource that does not exist: any failure of a probe, 5xx included (`oci-registry.ts:331`),
  400, 429 or another 4xx of the fallback tag (`oci-registry.ts:282`, `302`) and of a blob
  (`oci-registry.ts:436`), any 4xx of the referrers request, taken for an empty list. `Misread` lists
  them, the run has one or two of each request, and all that `NotFoundIsAbsent` says of a verification which had
  such an answer is that it had one. Moreover `return resp.json!()` leaves the `try` before a body that
  breaks off is noticed (`oci-registry.ts:439`);
- a file that is `current` when the log is listed and rotated away before `cat` opens `current` is
  read by nobody, and nothing tells (`rotated-log.ts:35`): `MustBeRead` leaves it out;
- every start of the explicit engine's container empties buildkitd's log and with it the earlier denials
  (`supervisor.go:71`, `restart: unless-stopped` in `compose.action.yaml:38`);
- an empty label (`a..b:443`) is accepted by setup (`wildcard-rules.ts:61`) and refused by gen-configs
  (`partial-wildcard.ts:77`), so that the inspect builder never starts: `RefusedOnlyForEmptyLabel`
  says that nothing else of a rule does that;
- a kill between two files of the certificate set-up leaves a container that never starts
  (`init-inspect-cfg:8`): the other case of the same property, and part of `Doomed`;
- the expression `^a:443$|^b:443$` narrows the view to one of its halves (`partial-wildcard.ts:153`).

## 4. Proofs

Every theorem holds for all values of the constants that the module's named assumptions allow, and
whatever a theorem assumes beyond them is named in its statement. Each rests on an invariant that says
more than the property and that, unlike it, every step preserves.

- `CaInjectionProofs`. `CommittedClean` says nothing before the end; `CleanInv` adds where the blocks
  are meanwhile (only in mirrors, at most one per bundle) and whose `OwnFile` is. `TraceInv` says what a
  mirror and the rootfs hold at the nodes the step has not written to, before, during and after the
  write-back: from it follows `NoTraceLeft`, since a bundle that was given the CA and stripped again is
  what it was, to the mtime (`BackAgain`). `PlaceInv` says which directories are still to be bound, and
  that a variable is pointed at `OwnFile` only where it lies: `TrustIsInPlace`, in whatever order
  Go walks its map. `ScratchInv` follows each scratch directory to its removal: `NoScratchLeft` says
  that one is left only if its own removal failed. `MirrorInv` says that mirrors are apart, what each was when it was made, and
  that the directory under it is still that; `EndInv` how code and errors lead to the end.
  Together they give `LayerKept`, the refinement of `StepLayer`: an operation of the step is
  that operation on the layer (`StepIsLayers`), saving the spec and finishing a directory change
  nothing in it (`SaveKeepsLayer`, `FinishKeepsLayer`), and a layer that is doomed stays so.
  What is assumed, and where it is needed: `NothingLeaks` (a step does not copy a bundle, neither failure
  that leaves `OwnFile` behind occurs) for `LayerClean`, `MirrorsHoldTheBlocks` and `LayerKept`;
  `NamedExist` (the files that variables name exist) for `NoTraceLeft` and `LayerKept`; `RootsKept` (no
  chmod of a directory that may be mounted over) for `LayerKept`. Each is one of the divergences
  above. `NoScratchLeft` and `TrustIsInPlace` need none.
- `InspectProxyProofs`. That a connection attempt is permitted depends on how the connection came
  to its phase, and that a resolved address belongs to the exchange depends on the shared cache;
  `PolicyInv` says both, and `ProxyKeepsPolicy` follows: every step is a step of `EgressPolicy` or a
  stutter. `LogInv` says of each line which end of an exchange wrote it, with which termination state:
  `RefusalsAreReported` and, when no origin aborts an answer it has begun (the divergence above),
  `BlocksAreUnanswered`, with the build's own ends among the cases, read it as the report does.
  `AllTrafficIsLogged` relates the log to what was connected to, for any number of connections and
  exchanges: `ConnectedInv` says that what is connected was reached, so that whatever ends an
  exchange, origin, proxy or build, leaves a line of what was (`ClientEndLine`, `CloseLine`, `ClientLine`).
  `PathsAreSettled` is about what the rules are given to judge: by induction over the segments
  of a path (`NormalisedPlain`, `NothingToStrip`), one that got past the traversal rule is decoded, has no
  `..` left in any spelling, and is changed by no further normalisation, such as an origin's own.
- `StreamRelayProofs`. `RelayInv` counts: what one end sent is what the other got, plus what is in the
  queues and in a goroutine's hand, numbered without a gap. From it follow both refinements
  (`RelayIsTwoPipes`), `OkIsComplete` and `HalfCloseComesLast`, for windows of any size.
- `ExplicitPolicyProofs`. `OwnRules` says what the compiled policy consists of, `MergedRules` where
  its rules are in a merged one, and `WebDecision` and `RestDecision` whose rule is the last to match.
  With `MergeInv`, which ties every decision to the merged policy of its own client,
  `ClientCannotWiden`, `ListedAdmitted` and `RestIsTheClients` follow. The first two each assume of
  regular expressions, and only of those, that a name without a port and the scheme's own port are
  matched alike in one direction; `explicit_regex_port` is what happens otherwise. Its own `LogInv`
  ties buildkitd's log to what was denied: `ReportFailsOnUnexpected`.
- `SetupProofs`. That what runs was verified is a statement about a digest that several requests ago
  was a tag's: `SoundInv` carries along a verification that its digest is one its tag led to and that
  what it looks at is attached to that digest. `ClearedInv`, `StaysInv` and `PostedInv` tie a
  container to the step that started it, whatever the order of background steps. `TracedInv`
  remembers why a verification went on to the next request or gave up: what was missing, gone or
  unfit of the digests its tag led to. `SteadyReleasesVerify` follows from it, and
  `NotFoundMeansAbsent` as well: `MisreadOnly` shows that `Misread` lists every fault by which the code
  can come to an absence. They hold for any number of steps, names, digests, faults and changes.
- `BootProofs`. `FilesInv` says in which order the files of an authority become whole and that each
  is of the authority of those before it; `StartInv` that what runs depends on what is up, and that the
  walls are complete when isolation is done; `RefusedInv` why a script failed. `WallsStand` then needs
  what the two lists of commands do to every kind of packet, by the first rule that covers it
  (`InspectTargets`, `UniversalStands`). They hold for any rules, restarts and checks; `RefusedRules`
  compares the two compilers' grammars for patterns of any length. `AskedInv` says where an answer
  came from: a question of the container and its rules. With `RuleMeaning`, what a compiled rule
  admits, it gives `RulesMeanWhatTheySay`, for rules without a `***`, of which the documentation says
  nothing (`DocumentedRules`). The view and the proxy compile one pattern but match it with and
  without regard to case (`ViewTakesName`): `ViewAgreesWithProxy` holds for hosts in lower case
  (`LowerCaseHosts`), `ViewNeverWider` for all, so that `names_case` shows the only way in which they
  drift apart. Both suppose that of a name a step asks for it may ask what a rule permits
  (`AskAnything`), as a step may. TLC evaluates the three suppositions in `MCBoot`.
- `RuleMatchProofs`. What the rule theorems need of patterns, names and paths of any length.
  `LeastNat`, the induction used here, comes from the library's well-founded order on the naturals: a
  claim that fails somewhere fails at a least length. The tables `AtomToRegex` and `Matches` fill in
  are shown to have a solution, cell by cell. `MatchesOwned` says that an expression
  matches when the characters can be shared out to its pieces, and `AtomToRegexSpelt` that the
  pieces spell the elements of the pattern, where they start and what they take. Sharing out
  to pieces is then sharing out to elements, which is `Fits`, the documented meaning: `PatternMeaning`,
  `PatternMeaningAnyCase` and `LowerCaseMeaning`.
- `ReportProofs`. `StepInv` says that a step which failed has a failed reader to show for it until its
  script has ended, and that a pass was judged on logs read to their end. `PassedOnEvidence` and
  `ArtifactsAreWhole` follow, for logs of any length. `LogsInv` says that the lines of a log are
  numbered in the order of its files, archives before the current one; that what a reader has yet to
  open is younger than all it has opened; and that what was listed has been read, is in a file
  still to be opened, or was in the file that was current then, whichever of them was renamed,
  dropped or reopened since. With `VerdictInv`, what a verdict was based on, it gives `LinesReadOnce`,
  `NothingRefusedPasses` and `FailsForAReason`, for any number of lines, archives and restarts.

`MirrorsHoldTheBlocks`, `MergeKeeps`, `RelayKeepsOrder`, `VerifiedIsSigned`
and `BootTyped` state invariants that the other theorems rest on and that no run lists.

Every safety property and refinement a passing run checks is stated by a theorem. The six
liveness properties (`ResolutionEnds`, `BackendHeard`, `NoGoroutineLeft` and `HandlerReturns`,
`ReportEnds`, `BootServes`) are not: what happens eventually under fairness needs ENABLED, which is out
of the prover's reach, and stays with TLC.

## 5. Not modelled

- The signals of `main.go`: `buildkit-proxy` is PID 1, runs one sequence without a retry, and the
  container ends with it.
- A connection's way through the universal engine's HAProxy, which has no path, passthrough or
  cache; its rules, walls, start-up and log are in `Boot` and `Report`.
- `~` rules, the splitting of inputs into rules, of refs, digests and log lines into fields: text.
- In `Boot`: an openssl or cp command that fails, which `set -e` makes a failed start; that `convert-rule`
  writes the universal engine's rules to several `.lst` files, which are one proxy file here.
- In `Setup`: a killed `up` that leaves a ready container behind; what else keeps a job's steps in
  their order (`Earlier`) is the runner's, and external.
- In `Report`: besides the start marker, any line that is no decision makes a log look plausible
  (`haproxy.ts:52`); with such a line the report passes over a lost
  start marker, which the model's notices.
- What HAProxy logs of a request it cannot parse, but for the two lines of `Close`.
- Symbolic links in a rootfs, xattrs and owners; HTTP/2 framing and HAProxy's buffers.
- What Sigstore verifies, beyond whether it does.
- Build histories, vertices and allowed requests of the explicit engine, which label rows of the
  report and decide nothing.
- Rendering of Markdown and annotations, elapsed times, bundling, workflows and assets, which have no
  state; HAProxy, CoreDNS, BuildKit, s6 and Docker themselves, of which only what the sources
  configure or call is modelled, marked external.
