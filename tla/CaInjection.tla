------------------------------ MODULE CaInjection ------------------------------
(***************************************************************************)
(* docker/inspect/buildcage-runc: the wrapper BuildKit runs in place of    *)
(* runc for one RUN step of the inspect engine.  It makes the step trust   *)
(* the proxy's CA (inject), runs the real runc, and afterwards takes the   *)
(* CA out of what BuildKit is about to commit (the closure inject returns, *)
(* here FinishDir and RemoveOwnCA).                                        *)
(*                                                                         *)
(* A file is its text, how many CA blocks it holds, its mode and its       *)
(* mtime; every other byte is left out.  Directories are nodes too, so     *)
(* that what a manifest sees of them, and of a bind's own root, can differ.*)
(* A directory's mtime is left out: BuildKit's differ ignores it.          *)
(***************************************************************************)
EXTENDS Naturals, Sequences

CONSTANTS
    Files, Dirs,        \* the bundles and their neighbours; their directories
    DirOf,              \* [Files -> Dirs]
    Below,              \* <<n, d>> : node n lies strictly below directory d
    SystemCertFiles,    \* the candidates for the system store, in order
    OwnFile,            \* /etc/buildcage-ca.pem
    RootDir,            \* the container's "/"
    Mounts,             \* nodes a mount of the step's spec already covers
    Oversized,          \* directories above maxCustomDirBytes/maxCustomDirFiles
    Vars,               \* the variables of caVariables
    Rank,               \* [Vars -> their places in that list]
    WhenUnset,          \* [Vars -> unsetBehaviour]
    Containers,         \* the [image, env] a step may start with
    StepFiles, ChmodNodes, Ops, Texts, Modes,  \* what a step may do: see StepLayer
    MaxOps,             \* bound on the operations of one step
    Faults,             \* which calls may fail
    Empty,              \* the text of an empty file
    DefaultMode,        \* the mode a created file gets
    Unresolvable,       \* a path resolveInRoot refuses
    None                \* no such file; a variable that is not set

Nodes == Files \cup Dirs

Entry == [text : Texts, blocks : Nat, mode : Modes, mtime : {"image", "later"}]

FileSystem == [Nodes -> Entry \cup {None}]

\* What is assumed of the constants, for the proofs as for the runs: images
\* come without a CA block, and nobody but the wrapper uses OwnFile.
ASSUME ConstantsOK ==
    /\ DirOf \in [Files -> Dirs]
    /\ Files \cap Dirs = {}
    /\ Below \subseteq Nodes \X Dirs
    /\ \A f \in Files : <<f, DirOf[f]>> \in Below
    /\ \A n \in Nodes, d, e \in Dirs : <<n, d>> \in Below /\ <<d, e>> \in Below => <<n, e>> \in Below
    /\ \A n \in Nodes, d, e \in Dirs :
          <<n, d>> \in Below /\ <<n, e>> \in Below => d = e \/ <<d, e>> \in Below \/ <<e, d>> \in Below
    /\ \A d \in Dirs : <<d, d>> \notin Below
    /\ OwnFile \in Files
    /\ SystemCertFiles \in Seq(Files \ {OwnFile})
    /\ Rank \in [Vars -> Nat]
    /\ WhenUnset \in [Vars -> {"leaveUnset", "pointAtOwnCA", "pointAtSystemStore"}]
    /\ Containers \subseteq [image : FileSystem,
                             env : [Vars -> (Files \ {OwnFile}) \cup {Unresolvable, None}]]
    /\ \A c \in Containers, n \in Nodes : c.image[n] # None => c.image[n].blocks = 0
    /\ StepFiles \subseteq Files \ {OwnFile}
    /\ ChmodNodes \subseteq Nodes \ {OwnFile}
    /\ MaxOps \in Nat
    /\ Empty \in Texts
    /\ DefaultMode \in Modes
    /\ None \notin Entry \cup Files \cup [text : Texts, blocks : Nat, mode : Modes]
    /\ Unresolvable \notin Files

VARIABLES
    image, env,     \* the rootfs and environment the step starts with; never change
    pc,             \* where the wrapper is
    rootfs,         \* the rootfs BuildKit will diff against image
    mirror,         \* the scratch mirrors: disjoint, so one function holds them all
    original,       \* each mirror before the CA was added (dirBind.original)
    baseline,       \* each mirror right after it was added (dirBind.baseline)
    pending,        \* the target directories inject has not come to yet
    binds,          \* the directories a mirror is mounted over
    unfinished,     \* the binds the restore closure has not come to yet
    scratch,        \* the directories that have a scratch directory on disk
    saved,          \* the mounts and variables reached config.json
    newEnv,         \* the variables the wrapper sets, and the file each points at
    createdOwnCA,   \* the wrapper wrote OwnFile
    code,           \* the exit code so far
    firstErr,       \* a write-back failed
    nops, touched,  \* history: how much the step did, and to which nodes
    unprepared,     \* history: the directories inject logged it could not prepare,
    unremoved       \* and those whose scratch directory cleanup logged it could not remove

vars == <<image, env, pc, rootfs, mirror, original, baseline, pending, binds, unfinished,
          scratch, saved, newEnv, createdOwnCA, code, firstErr, nops, touched, unprepared, unremoved>>

container == <<image, env>>
mirrors == <<mirror, original, baseline>>
setup == <<pending, binds, saved, newEnv>>
ending == <<unfinished, scratch, unremoved, code, firstErr>>
history == <<nops, touched, unprepared>>

--------------------------------------------------------------------------------
(* What inject reads from the rootfs and the spec. *)

\* findSystemStore: the first candidate that exists.
Candidates == {i \in DOMAIN SystemCertFiles : image[SystemCertFiles[i]] # None}

\* The store, as a set that is empty when the rootfs has none.
SystemStore == {SystemCertFiles[i] : i \in {k \in Candidates : \A j \in Candidates : k <= j}}

HaveSystemStore == SystemStore # {}

\* Every file the CA has to go into.
Targets == {env[v] : v \in {w \in Vars : env[w] \notin {None, Unresolvable}}} \cup SystemStore

\* The variables setOwnCA is called for, and the ones pointed at the store.
OwnVars ==
    {v \in Vars : env[v] = None /\ (WhenUnset[v] = "pointAtOwnCA" \/ ~HaveSystemStore)}

StoreVars ==
    {v \in Vars : env[v] = None /\ WhenUnset[v] = "pointAtSystemStore" /\ HaveSystemStore}

\* Mutant of EnvFor: a variable is pointed at an OwnFile the image brought.
EnvForAnyOwn(own) ==
    [v \in Vars |-> IF v \in StoreVars THEN CHOOSE f \in SystemStore : TRUE
                    ELSE IF v \in OwnVars THEN OwnFile ELSE None]

\* own: the variables setOwnCA pointed at the file it wrote.
EnvFor(own) ==
    [v \in Vars |-> IF v \in StoreVars THEN CHOOSE f \in SystemStore : TRUE
                    ELSE IF v \in OwnVars /\ v \in own THEN OwnFile ELSE None]

\* setOwnCA tries the write again for the next variable when it failed: the
\* first variable for which it succeeds, and all after it, get the file.
OwnFrom(w) == {v \in OwnVars : Rank[v] >= Rank[w]}

BundleFiles(d) == {f \in Targets : DirOf[f] = d}

Inside(d) == {n \in Nodes : <<n, d>> \in Below}

Custom(d) == d \notin {DirOf[f] : f \in SystemStore}

\* Two paths overlap when they are equal or one lies below the other.
Overlap(m, n) == m = n \/ <<m, n>> \in Below \/ <<n, m>> \in Below

\* The mounts of the spec include the ones inject has added already.  The test
\* is for the prefix "<mount>/", which a mount at "/" is of no path.
MountConflicts(d) == \E m \in (Mounts \ {RootDir}) \cup binds : Overlap(m, d)

Skipped(d) == d = RootDir \/ MountConflicts(d)

--------------------------------------------------------------------------------
(* What a manifest records, and what is done to one file. *)

\* A manifest entry as manifestsEqual compares it: everything but the mtime.
Shape(e) == IF e = None THEN None ELSE [text |-> e.text, blocks |-> e.blocks, mode |-> e.mode]

\* appendCA opens with O_CREATE|O_APPEND.
AppendCA(e) ==
    IF e = None
    THEN [text |-> Empty, blocks |-> 1, mode |-> DefaultMode, mtime |-> "later"]
    ELSE [e EXCEPT !.blocks = @ + 1, !.mtime = "later"]

\* removeCA cuts out the first block and leaves a file without one alone.
RemoveCA(e) ==
    IF e = None THEN None
    ELSE IF e.blocks = 0 THEN e
    ELSE [e EXCEPT !.blocks = @ - 1, !.mtime = "later"]

\* Mutant of RestoreMtime: the stripped bundles keep the mtime of the stripping.
KeepMtime(o, e) == e

\* restoreUnchangedMtimes, for one entry.
RestoreMtime(o, e) ==
    IF o # None /\ e # None /\ Shape(o) = Shape(e) THEN [e EXCEPT !.mtime = o.mtime] ELSE e

\* captureManifest leaves out the directory it walks: only what is inside it counts.
ManifestsEqual(d) == \A n \in Inside(d) : Shape(mirror[n]) = Shape(baseline[n])

\* Mutant of Stripped: only the system store's bundle is stripped.
StrippedStore(d) ==
    [n \in Nodes |->
        IF n \notin Inside(d) THEN mirror[n]
        ELSE RestoreMtime(original[n], IF n \in BundleFiles(d) \cap SystemStore THEN RemoveCA(mirror[n])
                                       ELSE mirror[n])]

\* The mirror of d as finish hands it to rsync.
Stripped(d) ==
    [n \in Nodes |->
        IF n \notin Inside(d) THEN mirror[n]
        ELSE RestoreMtime(original[n], IF n \in BundleFiles(d) THEN RemoveCA(mirror[n])
                                       ELSE mirror[n])]

\* The mount over d shadows the real directory, and d itself, for the step.
Covers(d, n) == n = d \/ n \in Inside(d)

Mirrored(n) == saved /\ \E d \in binds : Covers(d, n)

View(n) == IF Mirrored(n) THEN mirror[n] ELSE rootfs[n]

--------------------------------------------------------------------------------
Init ==
    /\ \E c \in Containers : image = c.image /\ env = c.env
    /\ pc = "start"
    /\ rootfs = image
    /\ mirror = [n \in Nodes |-> None]
    /\ original = mirror
    /\ baseline = mirror
    /\ pending = {}
    /\ binds = {}
    /\ unfinished = {}
    /\ scratch = {}
    /\ saved = FALSE
    /\ newEnv = [v \in Vars |-> None]
    /\ createdOwnCA = FALSE
    /\ code = 0
    /\ firstErr = FALSE
    /\ nops = 0
    /\ touched = {}
    /\ unprepared = {}
    /\ unremoved = {}

\* No CA to read, or a spec that cannot be loaded: the step runs as it is.
RunWithoutInjection ==
    /\ pc = "start"
    /\ "load" \in Faults
    /\ pc' = "spawn"
    /\ UNCHANGED <<container, rootfs, mirrors, setup, ending, createdOwnCA, history>>

\* The first half of inject: the store, the targets, and OwnFile when some
\* variable needs it.  OwnFile is not written over when it exists; a write of
\* it can fail leaving nothing, for some variables or for all, or (tornOwnCA)
\* leave the part it wrote, which then is there for the variables to come.
ChooseTargets ==
    /\ pc = "start"
    /\ pc' = "bind"
    /\ pending' = {DirOf[f] : f \in Targets}
    /\ \/ /\ OwnVars = {} \/ rootfs[OwnFile] # None \/ "ownCA" \in Faults
          /\ newEnv' = EnvFor({})
          /\ UNCHANGED <<rootfs, createdOwnCA>>
       \/ /\ rootfs[OwnFile] = None
          /\ \E v \in OwnVars :
                /\ OwnFrom(v) = OwnVars \/ "ownCA" \in Faults
                /\ newEnv' = EnvFor(OwnFrom(v))
          /\ createdOwnCA' = TRUE
          /\ rootfs' = [rootfs EXCEPT ![OwnFile] = AppendCA(None)]
       \/ /\ OwnVars # {} /\ rootfs[OwnFile] = None /\ "tornOwnCA" \in Faults
          /\ newEnv' = EnvFor({})
          /\ rootfs' = [rootfs EXCEPT ![OwnFile] = AppendCA(None)]
          /\ UNCHANGED createdOwnCA
    /\ UNCHANGED <<container, mirrors, binds, saved, ending, history>>

\* cleanup: a RemoveAll that fails is logged and nothing else.
Cleanup(d) ==
    \/ scratch' = scratch \ {d} /\ UNCHANGED unremoved
    \/ "cleanup" \in Faults /\ scratch' = scratch \cup {d} /\ unremoved' = unremoved \cup {d}

\* inject walks a Go map, so the directories come in any order.  A directory
\* that turns out too large, or fails to be prepared, has its scratch already.
SkipDir(d) ==
    /\ pc = "bind" /\ d \in pending
    /\ \/ Skipped(d) /\ UNCHANGED <<unprepared, scratch, unremoved>>
       \/ Custom(d) /\ d \in Oversized /\ ~Skipped(d) /\ Cleanup(d) /\ UNCHANGED unprepared
       \/ "prepare" \in Faults /\ ~Skipped(d) /\ Cleanup(d) /\ unprepared' = unprepared \cup {d}
    /\ pending' = pending \ {d}
    /\ UNCHANGED <<container, pc, rootfs, mirrors, binds, saved, newEnv, unfinished, code, firstErr,
                   createdOwnCA, nops, touched>>

\* newScratchDir, prepare and addBindMount.
BindDir(d) ==
    /\ pc = "bind" /\ d \in pending
    /\ ~Skipped(d)
    /\ ~(Custom(d) /\ d \in Oversized)
    /\ pending' = pending \ {d}
    /\ original' = [n \in Nodes |-> IF Covers(d, n) THEN rootfs[n] ELSE original[n]]
    /\ mirror' = [n \in Nodes |-> IF n \in BundleFiles(d) THEN AppendCA(rootfs[n])
                                  ELSE IF Covers(d, n) THEN rootfs[n] ELSE mirror[n]]
    /\ baseline' = [n \in Nodes |-> IF Covers(d, n) THEN mirror'[n] ELSE baseline[n]]
    /\ binds' = binds \cup {d}
    /\ scratch' = scratch \cup {d}
    /\ UNCHANGED <<container, pc, rootfs, saved, newEnv, unfinished, unremoved, code, firstErr,
                   createdOwnCA, history>>

\* setEnv and save; a failed save is only logged, and runc reads the old spec.
SaveSpec ==
    /\ pc = "bind" /\ pending = {}
    /\ \/ saved' = TRUE
       \/ "save" \in Faults /\ saved' = FALSE
    /\ pc' = "spawn"
    /\ UNCHANGED <<container, rootfs, mirrors, pending, binds, newEnv, ending, createdOwnCA, history>>

\* cmd.Start; when it fails the injection is undone at once and main exits 1.
Spawn ==
    /\ pc = "spawn"
    /\ \/ pc' = "running" /\ UNCHANGED <<unfinished, code>>
       \/ /\ "spawn" \in Faults
          /\ pc' = "finish"
          /\ unfinished' = binds
          /\ code' = 1
    /\ UNCHANGED <<container, rootfs, mirrors, setup, scratch, unremoved, firstErr, createdOwnCA, history>>

\* The step stores entry e at n, through the mount when one covers n.
Put(n, e) ==
    /\ IF Mirrored(n)
       THEN mirror' = [mirror EXCEPT ![n] = e] /\ UNCHANGED rootfs
       ELSE rootfs' = [rootfs EXCEPT ![n] = e] /\ UNCHANGED mirror
    /\ touched' = touched \cup {n}

ModeOf(n, m) == IF View(n) = None THEN m ELSE View(n).mode

\* A file is rewritten, or added to: then it keeps the blocks it holds.
EditFile(f) ==
    \E t \in Texts, m \in Modes, keep \in BOOLEAN :
        Put(f, [text |-> t, blocks |-> IF keep /\ View(f) # None THEN View(f).blocks ELSE 0,
                mode |-> ModeOf(f, m), mtime |-> "later"])

DeleteFile(f) == View(f) # None /\ Put(f, None)

TouchFile(f) == View(f) # None /\ Put(f, [View(f) EXCEPT !.mtime = "later"])

CopyFile(f, g) ==
    /\ View(f) # None
    /\ \E m \in Modes : Put(g, [View(f) EXCEPT !.mode = ModeOf(g, m), !.mtime = "later"])

Chmod(n) == View(n) # None /\ \E m \in Modes : Put(n, [View(n) EXCEPT !.mode = m])

StepOp ==
    /\ pc = "running" /\ nops < MaxOps
    /\ nops' = nops + 1
    /\ \/ \E f \in StepFiles :
            \/ "edit" \in Ops /\ EditFile(f)
            \/ "delete" \in Ops /\ DeleteFile(f)
            \/ "touch" \in Ops /\ TouchFile(f)
            \/ "copy" \in Ops /\ \E g \in StepFiles : CopyFile(f, g)
       \/ \E n \in ChmodNodes : Chmod(n)
    /\ UNCHANGED <<container, pc, original, baseline, setup, ending, createdOwnCA, unprepared>>

\* cmd.Wait: the step's own exit code, then the closure inject returned.
StepExits ==
    /\ pc = "running"
    /\ pc' = "finish"
    /\ code' \in {0, 1}
    /\ unfinished' = binds
    /\ UNCHANGED <<container, rootfs, mirrors, setup, scratch, unremoved, firstErr, createdOwnCA, history>>

\* rsync copied the nodes S of d's mirror before it stopped.
WriteBack(d, S) == rootfs' = [n \in Nodes |-> IF n \in S THEN Stripped(d)[n] ELSE rootfs[n]]

\* Mutant of FinishDir: the closure returns at the first error.
FinishDirStops(d) ==
    /\ pc = "finish" /\ d \in unfinished
    /\ \/ /\ ManifestsEqual(d)
          /\ UNCHANGED <<rootfs, firstErr>>
          /\ unfinished' = unfinished \ {d}
       \/ /\ ~ManifestsEqual(d)
          /\ WriteBack(d, {n \in Nodes : Covers(d, n)})
          /\ UNCHANGED firstErr
          /\ unfinished' = unfinished \ {d}
       \/ /\ "finish" \in Faults
          /\ UNCHANGED rootfs
          /\ firstErr' = TRUE
          /\ unfinished' = {}
    /\ Cleanup(d)
    /\ UNCHANGED <<container, pc, mirrors, setup, code, createdOwnCA, history>>

\* finish for one bind, then its cleanup, whichever way finish ended: an error
\* is remembered and the next bind is still finished.
FinishDir(d) ==
    /\ pc = "finish" /\ d \in unfinished
    /\ \/ ManifestsEqual(d) /\ UNCHANGED <<rootfs, firstErr>>
       \/ ~ManifestsEqual(d) /\ WriteBack(d, {n \in Nodes : Covers(d, n)}) /\ UNCHANGED firstErr
       \/ "finish" \in Faults /\ UNCHANGED rootfs /\ firstErr' = TRUE
       \/ /\ "finish" \in Faults /\ ~ManifestsEqual(d)
          /\ \E S \in SUBSET {n \in Nodes : Covers(d, n)} : WriteBack(d, S)
          /\ firstErr' = TRUE
    /\ unfinished' = unfinished \ {d}
    /\ Cleanup(d)
    /\ UNCHANGED <<container, pc, mirrors, setup, code, createdOwnCA, history>>

\* Mutant of RemoveOwnCA: main forgets the error of the closure.
RemoveOwnCAForgives ==
    /\ pc = "finish" /\ unfinished = {}
    /\ pc' = "exited"
    /\ rootfs' = IF createdOwnCA THEN [rootfs EXCEPT ![OwnFile] = None] ELSE rootfs
    /\ UNCHANGED <<container, mirrors, setup, unfinished, scratch, unremoved, code, firstErr, createdOwnCA, history>>

\* The end of the closure and of main: OwnFile goes (a failure is only logged),
\* and a failed write-back turns a success into exit code 1.
RemoveOwnCA ==
    /\ pc = "finish" /\ unfinished = {}
    /\ pc' = "exited"
    /\ \/ rootfs' = IF createdOwnCA THEN [rootfs EXCEPT ![OwnFile] = None] ELSE rootfs
       \/ "removeOwnCA" \in Faults /\ UNCHANGED rootfs
    /\ code' = IF firstErr /\ code = 0 THEN 1 ELSE code
    /\ UNCHANGED <<container, mirrors, setup, unfinished, scratch, unremoved, firstErr, createdOwnCA, history>>

\* SIGKILL at any point, or a signal before signal.Notify: nothing is undone.
Killed ==
    /\ pc \in {"start", "bind", "spawn", "running", "finish"}
    /\ "kill" \in Faults
    /\ pc' = "killed"
    /\ UNCHANGED <<container, rootfs, mirrors, setup, ending, createdOwnCA, history>>

\* BuildKit commits the layer of a step that exited 0, and no other.
Commit ==
    /\ pc = "exited" /\ code = 0
    /\ pc' = "committed"
    /\ UNCHANGED <<container, rootfs, mirrors, setup, ending, createdOwnCA, history>>

Discard ==
    /\ pc = "killed" \/ (pc = "exited" /\ code # 0)
    /\ pc' = "discarded"
    /\ UNCHANGED <<container, rootfs, mirrors, setup, ending, createdOwnCA, history>>

Wrapper ==
    \/ RunWithoutInjection \/ ChooseTargets \/ SaveSpec \/ Spawn \/ RemoveOwnCA
    \/ \E d \in Dirs : SkipDir(d) \/ BindDir(d) \/ FinishDir(d)

BuildKit == Commit \/ Discard

Next == Wrapper \/ BuildKit \/ StepOp \/ StepExits \/ Killed

Spec == Init /\ [][Next]_vars
--------------------------------------------------------------------------------
(* Properties. *)

\* Every variable holds a value of its kind.
TypeOK ==
    /\ \E c \in Containers : image = c.image /\ env = c.env
    /\ pc \in {"start", "bind", "spawn", "running", "finish", "exited", "killed",
               "committed", "discarded"}
    /\ rootfs \in FileSystem
    /\ mirror \in FileSystem /\ original \in FileSystem /\ baseline \in FileSystem
    /\ pending \subseteq Dirs /\ binds \subseteq Dirs
    /\ unfinished \subseteq binds /\ scratch \subseteq Dirs /\ unprepared \cup unremoved \subseteq Dirs
    /\ saved \in BOOLEAN
    /\ newEnv \in [Vars -> Files \cup {None}]
    /\ createdOwnCA \in BOOLEAN
    /\ code \in {0, 1}
    /\ firstErr \in BOOLEAN
    /\ nops \in 0..MaxOps
    /\ touched \subseteq Nodes

\* "Neither the CA nor the variables that trust it are left in the image
\* layers" (README.md): no file of a committed layer holds a CA block, and
\* OwnFile, which the wrapper wrote, is gone again.  What the variables are
\* set to is only ever in config.json, never in the rootfs.
CommittedClean ==
    pc = "committed" =>
        /\ \A n \in Nodes : rootfs[n] # None => rootfs[n].blocks = 0
        /\ rootfs[OwnFile] = image[OwnFile]

\* Why CommittedClean holds, as an inductive invariant: outside OwnFile the
\* rootfs never holds a block, a mirror holds at most the one its bundles were
\* given, and OwnFile is either the wrapper's to remove or still the image's,
\* in the rootfs and in every mirror.
CleanInv ==
    /\ \A n \in Nodes \ {OwnFile} : rootfs[n] # None => rootfs[n].blocks = 0
    /\ \A d \in binds, n \in Nodes \ {OwnFile} :
          Covers(d, n) /\ mirror[n] # None =>
              mirror[n].blocks = 0 \/ (mirror[n].blocks = 1 /\ n \in BundleFiles(d))
    /\ pc = "start" => binds = {} /\ ~createdOwnCA
    /\ createdOwnCA => image[OwnFile] = None
    /\ ~createdOwnCA => rootfs[OwnFile] = image[OwnFile]
    /\ ~createdOwnCA => \A d \in binds :
          Covers(d, OwnFile) => mirror[OwnFile] = image[OwnFile] /\ original[OwnFile] = image[OwnFile]
    /\ pc \in {"exited", "committed"} => rootfs[OwnFile] = image[OwnFile]

\* "A step that never touches its CA store leaves no trace of the injection in
\* the image layers" (docs/security.md): whatever differs from the image in a
\* committed layer, the mtime included, is a node the step itself wrote to.
\* This is what restoreUnchangedMtimes is for.
OnlyTouchedCopiedUp ==
    pc = "committed" => \A n \in Nodes : rootfs[n] # image[n] => n \in touched

\* When main has exited by itself, every scratch directory it made, also for a
\* directory it then did not bind, is gone, or cleanup has tried and logged that
\* it could not remove that one: neither a failed write-back nor a failed
\* removal keeps the directories of the other binds.
ScratchReleased == pc \in {"exited", "committed"} => scratch \subseteq unremoved

\* The directories inject refuses whatever order it takes.
Refused(d) ==
    \/ d = RootDir \/ \E m \in Mounts \ {RootDir} : Overlap(m, d)
    \/ Custom(d) /\ d \in Oversized

StepStarts == pc = "running" /\ nops = 0 /\ saved

\* What a step sees when it starts: no target holds the CA twice, however many
\* variables name it; one without it lies in a directory inject refuses or
\* logged it could not prepare, or in one that has lost against another that is
\* mirrored, under or above it, and whose bundles do hold it, whichever came
\* first; and a variable that was given OwnFile finds it there.
TrustInPlace ==
    StepStarts =>
        /\ \A f \in Targets :
              LET held == IF View(f) = None THEN 0 ELSE View(f).blocks
                  d == DirOf[f] IN
              /\ held <= 1 /\ (d \in binds => held = 1)
              /\ held = 1 \/ Refused(d) \/ d \in unprepared \/ \E e \in binds : Overlap(e, d)
        /\ \A v \in Vars : newEnv[v] = OwnFile => View(OwnFile) # None /\ View(OwnFile).blocks = 1

--------------------------------------------------------------------------------
(* The promise of StepLayer, and where its layer is while the step runs. *)

\* The layer can no more be committed.  What was committed was not doomed,
\* whatever the wrapper remembers of it.
Doomed == pc # "committed" /\ (code # 0 \/ firstErr \/ pc \in {"killed", "discarded"})

\* The binds whose mirror still stands for the directory.
Live == IF pc \in {"bind", "spawn", "running"} THEN binds ELSE unfinished

\* What the layer would be if the step ended here: a mirror without its CA
\* stands for its directory, and a bundle the injection created for a variable
\* that names a missing file is not there unless the step wrote to it.
LayerOf ==
    [n \in Nodes |->
        IF Doomed THEN None
        ELSE IF n = OwnFile /\ pc \notin {"exited", "committed"} THEN Shape(image[n])
        ELSE IF saved /\ \E d \in Live : Covers(d, n)
        THEN IF original[n] = None /\ mirror[n] = baseline[n] THEN None
             ELSE Shape(Stripped(CHOOSE d \in Live : Covers(d, n))[n])
        ELSE Shape(rootfs[n])]

Fate == IF Doomed THEN "discarded" ELSE IF pc = "committed" THEN "committed" ELSE "open"

Layer == INSTANCE StepLayer WITH layer <- LayerOf, fate <- Fate

\* The wrapper implements StepLayer: the layer only changes by what the step
\* does, undoing the injection changes nothing in it, and a layer that was
\* half written back is never committed.
LayerIsStepsOwn == Layer!Spec
================================================================================
