--------------------------------- MODULE Setup ---------------------------------
(***************************************************************************)
(* A job's steps on one runner: setup steps (main.ts), each of which       *)
(* verifies an image, takes the builder of its name down and starts one    *)
(* from that image; reports (report/src/main.ts), which look for the       *)
(* builder of a name; and post steps (post.ts).  Steps run in the order of *)
(* the job, but for background steps, which the next one does not wait for.*)
(***************************************************************************)
EXTENDS Provenance

CONSTANTS
    Name,           \* [Steps -> builder_name]; steps are numbered in the order of the job
    Background,     \* the steps that are background steps
    Mode,           \* [Steps -> proxy_mode]
    RulesOK,        \* [Steps -> whether every rule parses]
    PathRules,      \* [Steps -> whether there are url or tls rules]
    DockerFaults    \* the docker commands that may fail

Engines == {"universal", "explicit", "inspect"}

\* A builder container: the step that started it, if of this job, the image it
\* runs, and whether it is healthy.
Builders == [owner : Steps \cup {None}, image : Digests \cup {None}, ready : BOOLEAN]

ASSUME SetupOK ==
    /\ Steps \subseteq Nat /\ Background \subseteq Steps
    /\ Mode \in [Steps -> {"restrict", "audit"}]
    /\ RulesOK \in [Steps -> BOOLEAN] /\ PathRules \in [Steps -> BOOLEAN]
    /\ DockerFaults \subseteq {"down", "pull", "wait", "post"}
    /\ None \notin Builders

VARIABLES
    step,       \* [Steps -> where main.ts is]
    project,    \* [projects -> its container, or None]
    orphaned    \* history: the projects whose last post step failed

setupVars == <<step, project, orphaned>>
allVars == <<vars, setupVars>>

\* Mutant of DeriveProjectName: compose's own default, the directory's.
DirectoryName(name) == "docker"

\* A hash: one project per builder name.
DeriveProjectName(name) == name

ProjectOf(s) == DeriveProjectName(Name[s])

Projects == {ProjectOf(s) : s \in Steps}

\* A builder that an earlier job, which lost its runner, left running.
Leftover == [owner |-> None, image |-> None, ready |-> TRUE]

SetupInit ==
    /\ Init
    /\ step = [s \in Steps |-> "pending"]
    /\ \E left \in {None, Leftover} : project = [p \in Projects |-> left]
    /\ orphaned = {}

Is(s, phase) == step[s] = phase
Then(s, phase) == step' = [step EXCEPT ![s] = phase]

Over == {"started", "failed", "posted"}

\* What a step waits for: steps that share a builder never overlap.
Earlier(s) == {t \in Steps : t < s /\ (t \notin Background \/ Name[t] = Name[s])}
Later(s) == {t \in Steps : Name[t] = Name[s] /\ t > s}

--------------------------------------------------------------------------------
(* main. *)

\* resolveProxyEngine comes first; a job that is over starts nothing.
Main(s) ==
    /\ Is(s, "pending") /\ \A t \in Earlier(s) : step[t] \in Over
    /\ \A t \in Steps : ~Is(t, "posted")
    /\ Then(s, IF Engine[s] \in Engines THEN "verifying" ELSE "failed")
    /\ UNCHANGED <<vars, project, orphaned>>

VerifyImage(s) ==
    /\ Is(s, "verifying") /\ Verify(s)
    /\ UNCHANGED setupVars

Enforceable(s) == Engine[s] = "inspect" \/ ~PathRules[s] \/ Mode[s] = "audit"

\* Mutant of CheckInputs: a failed verification is not awaited.
CheckRulesOnly(s) ==
    /\ Is(s, "verifying") /\ v[s].pc \in {"verified", "failed"}
    /\ Then(s, IF RulesOK[s] /\ Enforceable(s) THEN "down" ELSE "failed")
    /\ UNCHANGED <<vars, project, orphaned>>

\* resolveVerifiedImage returns or throws, the rules are parsed, and rules the
\* engine cannot enforce are refused in restrict mode.
CheckInputs(s) ==
    /\ Is(s, "verifying") /\ v[s].pc \in {"verified", "failed"}
    /\ Then(s, IF v[s].pc = "verified" /\ RulesOK[s] /\ Enforceable(s) THEN "down" ELSE "failed")
    /\ UNCHANGED <<vars, project, orphaned>>

ComposeDown(s) ==
    /\ Is(s, "down")
    /\ \/ /\ project' = [project EXCEPT ![ProjectOf(s)] = None]
          /\ Then(s, "up")
       \/ /\ "down" \in DockerFaults
          /\ Then(s, "failed") /\ UNCHANGED project
    /\ UNCHANGED <<vars, orphaned>>

\* Mutant of ImageRef: the image is pulled by its tag.
ImageByTag(s) == tags[ImageTagFromRef(s)]

\* resolveBuildcageImageRef: the digest that was verified.
ImageRef(s) == v[s].digest

Container(s, ready) == [owner |-> s, image |-> ImageRef(s), ready |-> ready]

\* up --wait: the pull fails, or the container never gets healthy and stays.
ComposeUp(s) ==
    /\ Is(s, "up")
    /\ \/ /\ project' = [project EXCEPT ![ProjectOf(s)] = Container(s, TRUE)]
          /\ Then(s, "started")
       \/ /\ "pull" \in DockerFaults
          /\ Then(s, "failed") /\ UNCHANGED project
       \/ /\ "wait" \in DockerFaults
          /\ project' = [project EXCEPT ![ProjectOf(s)] = Container(s, FALSE)]
          /\ Then(s, "failed")
    /\ UNCHANGED <<vars, orphaned>>

\* The job is cancelled, or the step times out, while docker runs; before that
\* it is as if the verification had failed.
Kill(s) ==
    /\ step[s] \in {"down", "up"}
    /\ Then(s, "failed")
    /\ \/ UNCHANGED project
       \/ Is(s, "down") /\ project' = [project EXCEPT ![ProjectOf(s)] = None]
       \/ Is(s, "up") /\ project' = [project EXCEPT ![ProjectOf(s)] = Container(s, FALSE)]
    /\ UNCHANGED <<vars, orphaned>>

--------------------------------------------------------------------------------
(* post: when no step has anything left to do, in reverse order. *)

\* Mutant of Post: only of a setup that succeeded.
PostOfStarted(s) ==
    /\ step[s] \in {"started", "failed"}
    /\ \A t \in Steps : step[t] \in Over \cup {"pending"} /\ (t > s => step[t] \in {"posted", "pending"})
    /\ Then(s, "posted")
    /\ project' = IF Is(s, "started") THEN [project EXCEPT ![ProjectOf(s)] = None] ELSE project
    /\ orphaned' = orphaned \ {ProjectOf(s)}
    /\ UNCHANGED <<vars>>

Post(s) ==
    /\ step[s] \in {"started", "failed"}
    /\ \A t \in Steps : step[t] \in Over \cup {"pending"} /\ (t > s => step[t] \in {"posted", "pending"})
    /\ Then(s, "posted")
    /\ \/ /\ project' = [project EXCEPT ![ProjectOf(s)] = None]
          /\ orphaned' = orphaned \ {ProjectOf(s)}
       \/ /\ "post" \in DockerFaults
          /\ orphaned' = orphaned \cup {ProjectOf(s)} /\ UNCHANGED project
    /\ UNCHANGED <<vars>>

StepRuns(s) == Main(s) \/ VerifyImage(s) \/ CheckInputs(s) \/ ComposeDown(s) \/ ComposeUp(s) \/ Post(s)

RegistryMoves == Registry /\ UNCHANGED setupVars

\* The only way to stop: every step that ran has had its post step.
JobOver ==
    /\ \A s \in Steps : step[s] \in {"posted", "pending"}
    /\ \E s \in Steps : Is(s, "posted")
    /\ UNCHANGED allVars

SetupNext == RegistryMoves \/ JobOver \/ \E s \in Steps : StepRuns(s) \/ Kill(s)

SetupSpec == SetupInit /\ [][SetupNext]_allVars
--------------------------------------------------------------------------------
(* Properties. *)

\* A step runs docker only for a digest that a verification settled on.
SetupTypeOK ==
    /\ TypeOK
    /\ step \in [Steps -> {"pending", "verifying", "down", "up"} \cup Over]
    /\ project \in [Projects -> Builders \cup {None}]
    /\ orphaned \subseteq Projects
    /\ \A s \in Steps : step[s] \in {"down", "up", "started"} => v[s].pc = "verified" /\ v[s].digest # None

\* Whatever tags and bundles do while the steps run, and wherever one of them
\* is killed: a builder that a step of this job started runs an image a release
\* signed for the step's ref, with rules its engine can enforce.
StartedAsVerified ==
    \A p \in Projects : project[p] # None /\ project[p].owner # None =>
        LET s == project[p].owner
            d == project[p].image IN
        /\ ProjectOf(s) = p /\ RulesOK[s] /\ Enforceable(s)
        /\ d \in saw[s].led /\ d \in Digests
        /\ \E i \in DOMAIN attached[d] : Vouches(attached[d][i].layer, s, d)

\* What a report with that builder name finds, by the label of the project.
FindContainers(s) == {project[ProjectOf(s)]} \ {None}

\* A builder that was started is there, and ready, for the build that follows and
\* its report, which finds it and no other: no step with another name takes it
\* down, at the end of the job neither.
BuilderStays ==
    \A s \in Steps : Is(s, "started") /\ (\A t \in Later(s) : Is(t, "pending")) =>
        FindContainers(s) = {Container(s, TRUE)}

\* When the post steps are over, no builder of this job or of an earlier one
\* with its name is left, unless docker failed to take it down: not of a setup
\* that failed or was killed half way either.
NothingLeftBehind ==
    (\A s \in Steps : step[s] \in {"posted", "pending"}) =>
        \A s \in Steps : Is(s, "posted") => project[ProjectOf(s)] = None \/ ProjectOf(s) \in orphaned
================================================================================
