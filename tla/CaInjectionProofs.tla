--------------------------- MODULE CaInjectionProofs ---------------------------
(***************************************************************************)
(* Theorems about CaInjection, for every rootfs, every set of variables    *)
(* and every bound.                                                        *)
(***************************************************************************)
EXTENDS CaInjection, TLAPS

--------------------------------------------------------------------------------
(* What the helpers on a file return. *)

LEMMA AppendCAType ==
    ASSUME NEW e \in Entry \cup {None}
    PROVE  /\ AppendCA(e) \in Entry
           /\ (e # None => e.blocks = 0) => AppendCA(e).blocks = 1
<1>1. CASE e = None
    BY <1>1, ConstantsOK DEF AppendCA, Entry
<1>2. CASE e # None
    <2>1. e \in Entry /\ AppendCA(e) = [e EXCEPT !.blocks = @ + 1, !.mtime = "later"]
        BY <1>2 DEF AppendCA
    <2>2. e.blocks \in Nat /\ e.blocks + 1 \in Nat /\ AppendCA(e).blocks = e.blocks + 1
        BY <2>1 DEF Entry
    <2>3. AppendCA(e) \in Entry
        BY <2>1, <2>2 DEF Entry
    <2> QED BY <1>2, <2>2, <2>3
<1> QED BY <1>1, <1>2

LEMMA RemoveCAType ==
    ASSUME NEW e \in Entry \cup {None}
    PROVE  /\ RemoveCA(e) \in Entry \cup {None}
           /\ e # None /\ e.blocks <= 1 => RemoveCA(e) # None /\ RemoveCA(e).blocks = 0
           /\ e = None => RemoveCA(e) = None
<1>0. None \notin Entry
    BY ConstantsOK
<1>1. CASE e = None
    BY <1>1 DEF RemoveCA
<1>2. CASE e # None /\ e.blocks = 0
    BY <1>2 DEF RemoveCA
<1>3. CASE e # None /\ e.blocks # 0
    <2>1. RemoveCA(e) = [e EXCEPT !.blocks = @ - 1, !.mtime = "later"]
        BY <1>3 DEF RemoveCA
    <2>2. e \in Entry /\ e.blocks - 1 \in Nat
        BY <1>3 DEF Entry
    <2>3. RemoveCA(e) \in Entry
        BY <2>1, <2>2 DEF Entry
    <2>4. RemoveCA(e).blocks = e.blocks - 1
        BY <2>1, <2>2 DEF Entry
    <2> QED BY <1>0, <1>3, <2>2, <2>3, <2>4 DEF Entry
<1> QED BY <1>1, <1>2, <1>3

LEMMA RestoreMtimeType ==
    ASSUME NEW o \in Entry \cup {None}, NEW e \in Entry \cup {None}
    PROVE  /\ RestoreMtime(o, e) \in Entry \cup {None}
           /\ e = None => RestoreMtime(o, e) = None
           /\ e # None => RestoreMtime(o, e) # None /\ RestoreMtime(o, e).blocks = e.blocks
           /\ o = e => RestoreMtime(o, e) = e
<1>0. None \notin Entry
    BY ConstantsOK
<1>1. CASE o # None /\ e # None /\ Shape(o) = Shape(e)
    <2>1. RestoreMtime(o, e) = [e EXCEPT !.mtime = o.mtime]
        BY <1>1 DEF RestoreMtime
    <2>2. e \in Entry /\ o \in Entry
        BY <1>1
    <2> QED BY <1>0, <2>1, <2>2 DEF Entry
<1>2. CASE ~(o # None /\ e # None /\ Shape(o) = Shape(e))
    BY <1>0, <1>2 DEF RestoreMtime
<1> QED BY <1>1, <1>2

--------------------------------------------------------------------------------
(* What the container a step starts with, and the mirrors, give. *)

LEMMA ContainerFacts ==
    ASSUME TypeOK
    PROVE  /\ image \in FileSystem
           /\ \A n \in Nodes : image[n] # None => image[n].blocks = 0
           /\ SystemStore \subseteq Files \ {OwnFile}
           /\ Targets \subseteq Files \ {OwnFile}
           /\ \A own \in SUBSET Vars : EnvFor(own) \in [Vars -> Files \cup {None}]
<1>1. PICK c \in Containers : image = c.image /\ env = c.env
    BY DEF TypeOK
<1>2. c \in [image : FileSystem, env : [Vars -> (Files \ {OwnFile}) \cup {Unresolvable, None}]]
    BY ConstantsOK
<1>3. image \in FileSystem /\ env \in [Vars -> (Files \ {OwnFile}) \cup {Unresolvable, None}]
    BY <1>1, <1>2
<1>4. \A n \in Nodes : image[n] # None => image[n].blocks = 0
    BY <1>1, ConstantsOK
<1>5. SystemStore \subseteq Files \ {OwnFile}
    BY ConstantsOK DEF SystemStore, Candidates
<1>6. Targets \subseteq Files \ {OwnFile}
    BY <1>3, <1>5 DEF Targets
<1>7. ASSUME NEW own \in SUBSET Vars
      PROVE  EnvFor(own) \in [Vars -> Files \cup {None}]
    <2>1. ASSUME NEW v \in Vars, v \in StoreVars
          PROVE  (CHOOSE f \in SystemStore : TRUE) \in Files
        BY <1>5, <2>1 DEF StoreVars, HaveSystemStore
    <2> QED BY <2>1, ConstantsOK DEF EnvFor
<1> QED BY <1>3, <1>4, <1>5, <1>6, <1>7

LEMMA StrippedType ==
    ASSUME TypeOK, NEW d \in Dirs
    PROVE  Stripped(d) \in FileSystem
<1>1. ASSUME NEW n \in Nodes
      PROVE  Stripped(d)[n] \in Entry \cup {None}
    <2>1. mirror[n] \in Entry \cup {None} /\ original[n] \in Entry \cup {None}
        BY DEF TypeOK, FileSystem
    <2>2. RemoveCA(mirror[n]) \in Entry \cup {None}
        BY <2>1, RemoveCAType
    <2> DEFINE e == IF n \in BundleFiles(d) THEN RemoveCA(mirror[n]) ELSE mirror[n]
    <2>3. e \in Entry \cup {None}
        BY <2>1, <2>2
    <2>4. RestoreMtime(original[n], e) \in Entry \cup {None}
        BY <2>1, <2>3, RestoreMtimeType
    <2> QED BY <2>1, <2>4 DEF Stripped
<1> QED BY <1>1 DEF Stripped, FileSystem

\* Whatever the step stores is an entry, on whichever side of the mount it lands.
LEMMA PutType ==
    ASSUME TypeOK, NEW n \in Nodes, NEW e \in Entry \cup {None}, Put(n, e)
    PROVE  rootfs' \in FileSystem /\ mirror' \in FileSystem /\ touched' \subseteq Nodes
<1>1. CASE Mirrored(n)
    BY <1>1 DEF Put, TypeOK, FileSystem
<1>2. CASE ~Mirrored(n)
    BY <1>2 DEF Put, TypeOK, FileSystem
<1> QED BY <1>1, <1>2

LEMMA ViewType ==
    ASSUME TypeOK, NEW n \in Nodes
    PROVE  View(n) \in Entry \cup {None}
BY DEF TypeOK, View, FileSystem

LEMMA StepStores ==
    ASSUME TypeOK, StepOp
    PROVE  \E n \in (StepFiles \cup ChmodNodes), e \in Entry \cup {None} : Put(n, e)
<1>0. StepFiles \subseteq Nodes /\ ChmodNodes \subseteq Nodes
    BY ConstantsOK DEF Nodes
<1>1. ASSUME NEW f \in StepFiles, EditFile(f)
      PROVE  \E e \in Entry \cup {None} : Put(f, e)
    <2>1. PICK t \in Texts, m \in Modes, keep \in BOOLEAN :
              Put(f, [text |-> t, blocks |-> IF keep /\ View(f) # None THEN View(f).blocks ELSE 0,
                      mode |-> ModeOf(f, m), mtime |-> "later"])
        BY <1>1 DEF EditFile
    <2>2. View(f) \in Entry \cup {None}
        BY <1>0, ViewType
    <2>3. (IF keep /\ View(f) # None THEN View(f).blocks ELSE 0) \in Nat /\ ModeOf(f, m) \in Modes
        BY <2>2 DEF ModeOf, Entry
    <2> QED BY <2>1, <2>3 DEF Entry
<1>2. ASSUME NEW f \in StepFiles, DeleteFile(f)
      PROVE  \E e \in Entry \cup {None} : Put(f, e)
    BY <1>2 DEF DeleteFile
<1>3. ASSUME NEW f \in StepFiles, TouchFile(f)
      PROVE  \E e \in Entry \cup {None} : Put(f, e)
    <2>1. View(f) \in Entry
        BY <1>0, <1>3, ViewType DEF TouchFile
    <2>2. [View(f) EXCEPT !.mtime = "later"] \in Entry
        BY <2>1 DEF Entry
    <2> QED BY <1>3, <2>2 DEF TouchFile
<1>4. ASSUME NEW f \in StepFiles, NEW g \in StepFiles, CopyFile(f, g)
      PROVE  \E e \in Entry \cup {None} : Put(g, e)
    <2>1. PICK m \in Modes : Put(g, [View(f) EXCEPT !.mode = ModeOf(g, m), !.mtime = "later"])
        BY <1>4 DEF CopyFile
    <2>2. View(f) \in Entry /\ View(g) \in Entry \cup {None}
        BY <1>0, <1>4, ViewType DEF CopyFile
    <2>3. ModeOf(g, m) \in Modes
        BY <2>2 DEF ModeOf, Entry
    <2>4. [View(f) EXCEPT !.mode = ModeOf(g, m), !.mtime = "later"] \in Entry
        BY <2>2, <2>3 DEF Entry
    <2> QED BY <2>1, <2>4
<1>5. ASSUME NEW n \in ChmodNodes, Chmod(n)
      PROVE  \E e \in Entry \cup {None} : Put(n, e)
    <2>1. PICK m \in Modes : Put(n, [View(n) EXCEPT !.mode = m])
        BY <1>5 DEF Chmod
    <2>2. View(n) \in Entry
        BY <1>0, <1>5, ViewType DEF Chmod
    <2>3. [View(n) EXCEPT !.mode = m] \in Entry
        BY <2>2 DEF Entry
    <2> QED BY <2>1, <2>3
<1> QED BY <1>1, <1>2, <1>3, <1>4, <1>5 DEF StepOp

--------------------------------------------------------------------------------
(* Type correctness. *)

LEMMA InitTypeOK == Init => TypeOK
<1> SUFFICES ASSUME Init PROVE TypeOK
    OBVIOUS
<1>1. PICK c \in Containers : image = c.image /\ env = c.env
    BY DEF Init
<1>2. image \in FileSystem
    BY <1>1, ConstantsOK
<1>3. [n \in Nodes |-> None] \in FileSystem
    BY DEF FileSystem
<1>4. [v \in Vars |-> None] \in [Vars -> Files \cup {None}]
    OBVIOUS
<1>5. 0 \in 0..MaxOps
    BY ConstantsOK
<1> QED BY <1>1, <1>2, <1>3, <1>4, <1>5 DEF Init, TypeOK

LEMMA NextTypeOK == TypeOK /\ [Next]_vars => TypeOK'
<1> SUFFICES ASSUME TypeOK, [Next]_vars PROVE TypeOK'
    OBVIOUS
<1> USE DEF container, mirrors, setup, ending, history
<1>1. CASE RunWithoutInjection
    BY <1>1 DEF RunWithoutInjection, TypeOK
<1>2. CASE ChooseTargets
    <2>1. AppendCA(None) \in Entry
        BY AppendCAType
    <2>2. OwnFile \in Nodes
        BY ConstantsOK DEF Nodes
    <2>3. rootfs' \in FileSystem
        BY <1>2, <2>1, <2>2 DEF ChooseTargets, TypeOK, FileSystem
    <2>4. newEnv' \in [Vars -> Files \cup {None}]
        <3>1. PICK own \in SUBSET Vars : newEnv' = EnvFor(own)
            BY <1>2 DEF ChooseTargets, OwnFrom, OwnVars
        <3> QED BY <3>1, ContainerFacts
    <2>5. pending' \subseteq Dirs
        BY <1>2, ContainerFacts, ConstantsOK DEF ChooseTargets
    <2>6. createdOwnCA' \in BOOLEAN
        BY <1>2 DEF ChooseTargets, TypeOK
    <2> QED BY <1>2, <2>3, <2>4, <2>5, <2>6 DEF ChooseTargets, TypeOK
<1>3. ASSUME NEW d \in Dirs, SkipDir(d) PROVE TypeOK'
    BY <1>3 DEF SkipDir, Cleanup, TypeOK
<1>4. ASSUME NEW d \in Dirs, BindDir(d) PROVE TypeOK'
    <2>1. \A n \in Nodes : /\ rootfs[n] \in Entry \cup {None}
                           /\ mirror[n] \in Entry \cup {None}
                           /\ original[n] \in Entry \cup {None}
                           /\ baseline[n] \in Entry \cup {None}
                           /\ AppendCA(rootfs[n]) \in Entry
        BY AppendCAType DEF TypeOK, FileSystem
    <2>2. mirror' \in FileSystem
        BY <1>4, <2>1 DEF BindDir, FileSystem
    <2>3. original' \in FileSystem
        BY <1>4, <2>1 DEF BindDir, FileSystem
    <2>4. \A n \in Nodes : mirror'[n] \in Entry \cup {None}
        BY <2>2 DEF FileSystem
    <2>5. baseline' \in FileSystem
        BY <1>4, <2>1, <2>4 DEF BindDir, FileSystem
    <2> QED BY <1>4, <2>2, <2>3, <2>5 DEF BindDir, TypeOK
<1>5. CASE SaveSpec
    BY <1>5 DEF SaveSpec, TypeOK
<1>6. CASE Spawn
    BY <1>6 DEF Spawn, TypeOK
<1>7. CASE StepOp
    <2>1. rootfs' \in FileSystem /\ mirror' \in FileSystem /\ touched' \subseteq Nodes
        BY <1>7, StepStores, PutType, ConstantsOK DEF Nodes
    <2>2. nops' \in 0..MaxOps
        BY <1>7, ConstantsOK DEF StepOp, TypeOK
    <2> QED BY <1>7, <2>1, <2>2 DEF StepOp, TypeOK
<1>8. CASE StepExits
    BY <1>8 DEF StepExits, TypeOK
<1>9. ASSUME NEW d \in Dirs, FinishDir(d) PROVE TypeOK'
    <2>1. \A S : [n \in Nodes |-> IF n \in S THEN Stripped(d)[n] ELSE rootfs[n]] \in FileSystem
        BY StrippedType DEF TypeOK, FileSystem
    <2>2. rootfs' \in FileSystem
        BY <1>9, <2>1 DEF FinishDir, WriteBack, TypeOK
    <2>3. firstErr' \in BOOLEAN
        BY <1>9 DEF FinishDir, TypeOK
    <2> QED BY <1>9, <2>2, <2>3 DEF FinishDir, Cleanup, TypeOK
<1>10. CASE RemoveOwnCA
    <2>1. rootfs' \in FileSystem
        BY <1>10 DEF RemoveOwnCA, TypeOK, FileSystem
    <2> QED BY <1>10, <2>1 DEF RemoveOwnCA, TypeOK
<1>11. CASE Killed
    BY <1>11 DEF Killed, TypeOK
<1>12. CASE Commit
    BY <1>12 DEF Commit, TypeOK
<1>13. CASE Discard
    BY <1>13 DEF Discard, TypeOK
<1>14. CASE UNCHANGED vars
    BY <1>14 DEF vars, TypeOK
<1> QED BY <1>1, <1>2, <1>3, <1>4, <1>5, <1>6, <1>7, <1>8, <1>9, <1>10, <1>11, <1>12,
           <1>13, <1>14 DEF Next, Wrapper, BuildKit

\* Every state the wrapper, the step and BuildKit reach together is well typed.
THEOREM TypeCorrect == Spec => []TypeOK
<1>1. Init => TypeOK
    BY InitTypeOK
<1>2. TypeOK /\ [Next]_vars => TypeOK'
    BY NextTypeOK
<1> QED BY <1>1, <1>2, PTL DEF Spec

--------------------------------------------------------------------------------
(* A committed layer is clean. *)

\* The three ways the code has of leaving the CA behind: a write of OwnFile that
\* tears, a removal of it that fails, and a step that copies a bundle.
NothingLeaks ==
    /\ Faults \cap {"tornOwnCA", "removeOwnCA"} = {}
    /\ "copy" \notin Ops

LEMMA PathFacts ==
    /\ OwnFile \in Nodes
    /\ \A d \in Dirs : d \notin Files /\ d \in Nodes /\ d # OwnFile
    /\ \A d \in Dirs : \A f \in BundleFiles(d) : f \in Targets /\ DirOf[f] = d
    /\ \A d, e \in Dirs, n \in Nodes : Covers(d, n) /\ Covers(e, n) => Overlap(d, e)
<1>1. OwnFile \in Nodes /\ \A d \in Dirs : d \notin Files /\ d \in Nodes /\ d # OwnFile
    BY ConstantsOK DEF Nodes
<1>2. \A d \in Dirs : \A f \in BundleFiles(d) : f \in Targets /\ DirOf[f] = d
    BY DEF BundleFiles
<1>3. ASSUME NEW d \in Dirs, NEW e \in Dirs, NEW n \in Nodes, Covers(d, n), Covers(e, n)
      PROVE  Overlap(d, e)
  <2>1. (n = d \/ <<n, d>> \in Below) /\ (n = e \/ <<n, e>> \in Below)
      BY <1>3 DEF Covers, Inside
  <2>2. <<n, d>> \in Below /\ <<n, e>> \in Below => d = e \/ <<d, e>> \in Below \/ <<e, d>> \in Below
      BY ConstantsOK
  <2> QED BY <2>1, <2>2 DEF Overlap
<1> QED BY <1>1, <1>2, <1>3

\* What WriteBack writes at a node holds no block, and at OwnFile it is what
\* the image has there.
LEMMA StrippedClean ==
    ASSUME TypeOK, CleanInv, NEW d \in binds, NEW n \in Nodes, Covers(d, n)
    PROVE  /\ n # OwnFile /\ Stripped(d)[n] # None => Stripped(d)[n].blocks = 0
           /\ n = OwnFile /\ ~createdOwnCA => Stripped(d)[n] = image[n]
<1>0. mirror[n] \in Entry \cup {None} /\ original[n] \in Entry \cup {None} /\ d \in Dirs
    BY DEF TypeOK, FileSystem
<1>1. CASE n # OwnFile
    <2>1. mirror[n] # None => mirror[n].blocks = 0 \/ (mirror[n].blocks = 1 /\ n \in BundleFiles(d))
        BY <1>1 DEF CleanInv
    <2>2. CASE n \notin Inside(d)
        <3>1. n = d /\ n \notin BundleFiles(d)
            BY <1>0, <2>2, PathFacts, ContainerFacts DEF Covers
        <3> QED BY <1>1, <2>1, <2>2, <3>1 DEF Stripped
    <2>3. CASE n \in Inside(d)
        <3> DEFINE e == IF n \in BundleFiles(d) THEN RemoveCA(mirror[n]) ELSE mirror[n]
        <3>1. Stripped(d)[n] = RestoreMtime(original[n], e)
            BY <2>3 DEF Stripped
        <3>2. mirror[n] # None => mirror[n].blocks <= 1
            BY <2>1
        <3>3. e \in Entry \cup {None} /\ (e # None => e.blocks = 0)
            BY <1>0, <2>1, <3>2, RemoveCAType
        <3> QED BY <1>0, <1>1, <3>1, <3>3, RestoreMtimeType
    <2> QED BY <2>2, <2>3
<1>2. CASE n = OwnFile /\ ~createdOwnCA
    <2>1. n \notin BundleFiles(d) /\ n # d
        BY <1>0, <1>2, PathFacts, ContainerFacts
    <2>2. mirror[n] = image[n] /\ original[n] = image[n]
        BY <1>2 DEF CleanInv
    <2>3. RestoreMtime(original[n], mirror[n]) = image[n]
        BY <1>0, <2>2, RestoreMtimeType
    <2> QED BY <1>2, <2>1, <2>2, <2>3 DEF Stripped
<1> QED BY <1>1, <1>2

\* The step never adds a block: it edits, deletes, touches or chmods a node
\* that is not OwnFile.
LEMMA StepAddsNoBlock ==
    ASSUME NothingLeaks, TypeOK, StepOp
    PROVE  \E n \in Nodes \ {OwnFile}, e \in Entry \cup {None} :
              /\ Put(n, e)
              /\ e # None => e.blocks = 0 \/ (View(n) # None /\ e.blocks = View(n).blocks)
<1> DEFINE NoMore(n, e) == e # None => e.blocks = 0 \/ (View(n) # None /\ e.blocks = View(n).blocks)
<1>0. \A n \in StepFiles \cup ChmodNodes : n \in Nodes \ {OwnFile} /\ View(n) \in Entry \cup {None}
    BY ViewType, ConstantsOK DEF Nodes
<1>1. ASSUME NEW f \in StepFiles, EditFile(f)
      PROVE  \E e \in Entry \cup {None} : Put(f, e) /\ NoMore(f, e)
    <2>1. PICK t \in Texts, m \in Modes, keep \in BOOLEAN :
              Put(f, [text |-> t, blocks |-> IF keep /\ View(f) # None THEN View(f).blocks ELSE 0,
                      mode |-> ModeOf(f, m), mtime |-> "later"])
        BY <1>1 DEF EditFile
    <2> DEFINE b == IF keep /\ View(f) # None THEN View(f).blocks ELSE 0
               e == [text |-> t, blocks |-> b, mode |-> ModeOf(f, m), mtime |-> "later"]
    <2>2. b \in Nat /\ ModeOf(f, m) \in Modes
        BY <1>0 DEF ModeOf, Entry
    <2>3. e \in Entry
        BY <2>2 DEF Entry
    <2>4. NoMore(f, e)
        OBVIOUS
    <2>5. Put(f, e)
        BY <2>1
    <2> HIDE DEF e
    <2> QED BY <2>3, <2>4, <2>5
<1>2. ASSUME NEW f \in StepFiles, DeleteFile(f)
      PROVE  \E e \in Entry \cup {None} : Put(f, e) /\ NoMore(f, e)
    BY <1>2 DEF DeleteFile
<1>3. ASSUME NEW f \in StepFiles, TouchFile(f)
      PROVE  \E e \in Entry \cup {None} : Put(f, e) /\ NoMore(f, e)
    <2> DEFINE e == [View(f) EXCEPT !.mtime = "later"]
    <2>1. View(f) \in Entry /\ View(f) # None /\ Put(f, e)
        BY <1>0, <1>3 DEF TouchFile
    <2>2. e \in Entry /\ e.blocks = View(f).blocks
        BY <2>1 DEF Entry
    <2> HIDE DEF e
    <2> QED BY <2>1, <2>2
<1>4. ASSUME NEW n \in ChmodNodes, Chmod(n)
      PROVE  \E e \in Entry \cup {None} : Put(n, e) /\ NoMore(n, e)
    <2>1. PICK m \in Modes : Put(n, [View(n) EXCEPT !.mode = m])
        BY <1>4 DEF Chmod
    <2> DEFINE e == [View(n) EXCEPT !.mode = m]
    <2>2. View(n) \in Entry /\ View(n) # None
        BY <1>0, <1>4 DEF Chmod
    <2>3. e \in Entry /\ e.blocks = View(n).blocks
        BY <2>2 DEF Entry
    <2>4. Put(n, e)
        BY <2>1
    <2> HIDE DEF e
    <2> QED BY <2>2, <2>3, <2>4
<1>5. \/ \E f \in StepFiles : EditFile(f) \/ DeleteFile(f) \/ TouchFile(f)
      \/ \E n \in ChmodNodes : Chmod(n)
    BY DEF StepOp, NothingLeaks
<1> QED BY <1>0, <1>1, <1>2, <1>3, <1>4, <1>5

LEMMA InitCleanInv == Init => CleanInv
<1> SUFFICES ASSUME Init PROVE CleanInv
    OBVIOUS
<1>1. \A n \in Nodes : image[n] # None => image[n].blocks = 0
    BY InitTypeOK, ContainerFacts
<1> QED BY <1>1, PathFacts DEF Init, CleanInv

LEMMA NextCleanInv ==
    ASSUME NothingLeaks, TypeOK, CleanInv, [Next]_vars
    PROVE  CleanInv'
<1> USE DEF container, mirrors, setup, ending, history
\* Steps after which the rootfs, the mirrors and OwnFile are what they were.
<1>1. ASSUME UNCHANGED <<image, env, rootfs, mirror, original, binds, createdOwnCA>>,
             pc' \notin {"start", "exited", "committed"}
      PROVE  CleanInv'
    BY <1>1 DEF CleanInv, BundleFiles, Targets, SystemStore, Candidates
<1>2. ASSUME NEW d \in Dirs, SkipDir(d) PROVE CleanInv'
    BY <1>1, <1>2 DEF SkipDir
<1>3. CASE RunWithoutInjection \/ SaveSpec \/ Spawn \/ StepExits \/ Killed \/ Discard
    BY <1>1, <1>3 DEF RunWithoutInjection, SaveSpec, Spawn, StepExits, Killed, Discard
<1>4. CASE Commit \/ UNCHANGED vars
    BY <1>4 DEF Commit, vars, CleanInv, BundleFiles, Targets, SystemStore, Candidates
<1>5. CASE ChooseTargets
    <2>1. binds = {} /\ ~createdOwnCA /\ binds' = {}
        BY <1>5 DEF ChooseTargets, CleanInv
    <2>2. \A n \in Nodes \ {OwnFile} : rootfs'[n] = rootfs[n]
        BY <1>5, NothingLeaks DEF ChooseTargets, TypeOK, FileSystem, NothingLeaks
    <2>3. createdOwnCA' => image[OwnFile] = None
        BY <1>5, <2>1 DEF ChooseTargets, CleanInv
    <2>4. ~createdOwnCA' => rootfs'[OwnFile] = image[OwnFile]
        BY <1>5, <2>1 DEF ChooseTargets, CleanInv, NothingLeaks
    <2>5. image' = image /\ pc' = "bind"
        BY <1>5 DEF ChooseTargets
    <2> QED BY <2>1, <2>2, <2>3, <2>4, <2>5 DEF CleanInv
<1>6. ASSUME NEW d \in Dirs, BindDir(d) PROVE CleanInv'
    <2> USE DEF BindDir
    <2>1. UNCHANGED <<image, env, rootfs, createdOwnCA, pc>> /\ binds' = binds \cup {d} /\ pc = "bind"
        BY <1>6
    <2>2. \A e \in Dirs : BundleFiles(e)' = BundleFiles(e)
        BY <2>1 DEF BundleFiles, Targets, SystemStore, Candidates
    <2>3. ASSUME NEW e \in binds, NEW n \in Nodes, Covers(e, n) PROVE ~Covers(d, n)
        <3>1. ~Overlap(e, d)
            BY <1>6 DEF Skipped, MountConflicts
        <3> QED BY <2>3, <3>1, PathFacts DEF TypeOK
    <2>4. ASSUME NEW e \in binds, NEW n \in Nodes, Covers(e, n)
          PROVE  mirror'[n] = mirror[n] /\ original'[n] = original[n]
        <3>1. ~Covers(d, n)
            BY <2>3, <2>4
        <3>2. n \notin BundleFiles(d)
            BY <3>1, ConstantsOK, PathFacts, ContainerFacts DEF Covers, Inside
        <3> QED BY <1>6, <3>1, <3>2
    <2>5. ASSUME NEW n \in Nodes \ {OwnFile}, Covers(d, n), mirror'[n] # None
          PROVE  mirror'[n].blocks = 0 \/ (mirror'[n].blocks = 1 /\ n \in BundleFiles(d))
        <3>1. rootfs[n] \in Entry \cup {None} /\ (rootfs[n] # None => rootfs[n].blocks = 0)
            BY DEF TypeOK, FileSystem, CleanInv
        <3>2. CASE n \in BundleFiles(d)
            <4>1. mirror'[n] = AppendCA(rootfs[n])
                BY <1>6, <3>2
            <4> QED BY <3>1, <3>2, <4>1, AppendCAType, ConstantsOK DEF AppendCA
        <3>3. CASE n \notin BundleFiles(d)
            <4>1. mirror'[n] = rootfs[n]
                BY <1>6, <2>5, <3>3
            <4> QED BY <2>5, <3>1, <4>1
        <3> QED BY <3>2, <3>3
    <2>6. ASSUME ~createdOwnCA, Covers(d, OwnFile)
          PROVE  mirror'[OwnFile] = image[OwnFile] /\ original'[OwnFile] = image[OwnFile]
        <3>1. OwnFile \notin BundleFiles(d) /\ OwnFile \in Nodes
            BY PathFacts, ContainerFacts
        <3> QED BY <1>6, <2>6, <3>1 DEF CleanInv
    <2>7. \A e \in Dirs, n \in Nodes : Covers(e, n)' = Covers(e, n)
        BY DEF Covers, Inside
    <2>8. OwnFile \in Nodes /\ binds \subseteq Dirs
        BY PathFacts DEF TypeOK
    <2> HIDE DEF BindDir
    <2> QED BY <2>1, <2>2, <2>4, <2>5, <2>6, <2>7, <2>8 DEF CleanInv
<1>7. CASE StepOp
    <2>1. PICK n \in Nodes \ {OwnFile}, e \in Entry \cup {None} :
              /\ Put(n, e)
              /\ e # None => e.blocks = 0 \/ (View(n) # None /\ e.blocks = View(n).blocks)
        BY <1>7, StepAddsNoBlock
    <2>2. UNCHANGED <<image, env, pc, original, binds, createdOwnCA>> /\ pc = "running"
        BY <1>7 DEF StepOp
    <2>3. \A d \in Dirs : BundleFiles(d)' = BundleFiles(d)
        BY <2>2 DEF BundleFiles, Targets, SystemStore, Candidates
    <2>4. rootfs'[OwnFile] = rootfs[OwnFile] /\ mirror'[OwnFile] = mirror[OwnFile]
        BY <2>1, PathFacts DEF Put, TypeOK, FileSystem
    <2>5. ASSUME NEW m \in Nodes \ {OwnFile}, rootfs'[m] # None PROVE rootfs'[m].blocks = 0
        BY <2>1, <2>5 DEF Put, View, CleanInv, TypeOK, FileSystem
    <2>6. ASSUME NEW d \in binds, NEW m \in Nodes \ {OwnFile}, Covers(d, m), mirror'[m] # None
          PROVE  mirror'[m].blocks = 0 \/ (mirror'[m].blocks = 1 /\ m \in BundleFiles(d))
        BY <2>1, <2>6 DEF Put, View, CleanInv, TypeOK, FileSystem
    <2>7. \A d \in Dirs, m \in Nodes : Covers(d, m)' = Covers(d, m)
        BY DEF Covers, Inside
    <2>8. OwnFile \in Nodes /\ binds \subseteq Dirs
        BY PathFacts DEF TypeOK
    <2> QED BY <2>2, <2>3, <2>4, <2>5, <2>6, <2>7, <2>8 DEF CleanInv
<1>8. ASSUME NEW d \in Dirs, FinishDir(d) PROVE CleanInv'
    <2>1. UNCHANGED <<image, env, pc, mirror, original, binds, createdOwnCA>> /\ pc = "finish" /\ d \in binds
        BY <1>8 DEF FinishDir, TypeOK
    <2>2. \A e \in Dirs : BundleFiles(e)' = BundleFiles(e)
        BY <2>1 DEF BundleFiles, Targets, SystemStore, Candidates
    <2>3. ASSUME NEW n \in Nodes
          PROVE  rootfs'[n] = rootfs[n] \/ (Covers(d, n) /\ rootfs'[n] = Stripped(d)[n])
        BY <1>8 DEF FinishDir, WriteBack
    <2>4. ASSUME NEW n \in Nodes \ {OwnFile}, rootfs'[n] # None PROVE rootfs'[n].blocks = 0
        BY <2>1, <2>3, <2>4, StrippedClean DEF CleanInv
    <2>5. ~createdOwnCA => rootfs'[OwnFile] = image[OwnFile]
        BY <2>1, <2>3, StrippedClean, PathFacts DEF CleanInv
    <2>6. \A e \in Dirs, m \in Nodes : Covers(e, m)' = Covers(e, m)
        BY DEF Covers, Inside
    <2>7. OwnFile \in Nodes /\ binds \subseteq Dirs
        BY PathFacts DEF TypeOK
    <2> QED BY <2>1, <2>2, <2>4, <2>5, <2>6, <2>7 DEF CleanInv
<1>9. CASE RemoveOwnCA
    <2>1. UNCHANGED <<image, env, mirror, original, binds, createdOwnCA>> /\ pc' = "exited"
        BY <1>9 DEF RemoveOwnCA
    <2>2. rootfs' = IF createdOwnCA THEN [rootfs EXCEPT ![OwnFile] = None] ELSE rootfs
        BY <1>9 DEF RemoveOwnCA, NothingLeaks
    <2>3. \A d \in Dirs : BundleFiles(d)' = BundleFiles(d)
        BY <2>1 DEF BundleFiles, Targets, SystemStore, Candidates
    <2>4. rootfs'[OwnFile] = image[OwnFile] /\ \A n \in Nodes \ {OwnFile} : rootfs'[n] = rootfs[n]
        BY <2>2, PathFacts DEF CleanInv, TypeOK, FileSystem
    <2>5. \A e \in Dirs, m \in Nodes : Covers(e, m)' = Covers(e, m)
        BY DEF Covers, Inside
    <2> QED BY <2>1, <2>3, <2>4, <2>5 DEF CleanInv, TypeOK
<1> QED BY <1>2, <1>3, <1>4, <1>5, <1>6, <1>7, <1>8, <1>9 DEF Next, Wrapper, BuildKit

\* Where nothing leaks, the inductive invariant holds in every reachable state.
THEOREM MirrorsHoldTheBlocks == ASSUME NothingLeaks PROVE Spec => []CleanInv
<1>1. Init => CleanInv
    BY InitCleanInv
<1>2. TypeOK /\ CleanInv /\ [Next]_vars => CleanInv'
    BY NextCleanInv
<1> QED BY <1>1, <1>2, TypeCorrect, PTL DEF Spec

\* Neither the CA nor OwnFile is left in the layer of a step, whatever the
\* image, the variables and the step, and whatever else fails on the way.
THEOREM LayerClean == ASSUME NothingLeaks PROVE Spec => []CommittedClean
<1>1. TypeOK /\ CleanInv => CommittedClean
    <2> SUFFICES ASSUME TypeOK, CleanInv, pc = "committed" PROVE
            /\ \A n \in Nodes : rootfs[n] # None => rootfs[n].blocks = 0
            /\ rootfs[OwnFile] = image[OwnFile]
        BY DEF CommittedClean
    <2>1. rootfs[OwnFile] = image[OwnFile]
        BY DEF CleanInv
    <2> QED BY <2>1, PathFacts, ContainerFacts DEF CleanInv
<1> QED BY <1>1, MirrorsHoldTheBlocks, TypeCorrect, PTL

--------------------------------------------------------------------------------
(* What holds whatever fails and whatever the step does. *)

\* A scratch directory on disk is that of a bind still to be finished, or one
\* that cleanup could not remove.
ScratchInv ==
    /\ pc \in {"start", "bind", "spawn", "running"} => scratch \subseteq binds \cup unremoved
    /\ pc = "finish" => scratch \subseteq unfinished \cup unremoved
    /\ pc \in {"exited", "committed"} => scratch \subseteq unremoved

\* No scratch directory outlives a wrapper that exits by itself, unless cleanup
\* tried that very directory and failed: whatever inject refuses, bind or
\* write-back fails, the others are come to.
THEOREM NoScratchLeft == Spec => []ScratchReleased
<1>1. Init => ScratchInv
    BY DEF Init, ScratchInv
<1>2. ASSUME TypeOK, ScratchInv, [Next]_vars PROVE ScratchInv'
    <2> USE DEF container, mirrors, setup, ending, history, ScratchInv
    <2>1. CASE RunWithoutInjection \/ ChooseTargets \/ SaveSpec \/ Killed
        BY <1>2, <2>1 DEF RunWithoutInjection, ChooseTargets, SaveSpec, Killed
    <2>2. CASE Spawn \/ StepExits \/ RemoveOwnCA
        BY <1>2, <2>2 DEF Spawn, StepExits, RemoveOwnCA
    <2>3. CASE StepOp
        BY <1>2, <2>3 DEF StepOp
    <2>4. ASSUME NEW d \in Dirs, SkipDir(d) PROVE ScratchInv'
        BY <1>2, <2>4 DEF SkipDir, Cleanup
    <2>5. ASSUME NEW d \in Dirs, BindDir(d) PROVE ScratchInv'
        BY <1>2, <2>5 DEF BindDir
    <2>6. ASSUME NEW d \in Dirs, FinishDir(d) PROVE ScratchInv'
        BY <1>2, <2>6 DEF FinishDir, Cleanup
    <2>7. CASE Commit \/ Discard \/ UNCHANGED vars
        BY <1>2, <2>7 DEF Commit, Discard, vars
    <2> QED BY <1>2, <2>1, <2>2, <2>3, <2>4, <2>5, <2>6, <2>7 DEF Next, Wrapper, BuildKit
<1>3. ScratchInv => ScratchReleased
    BY DEF ScratchInv, ScratchReleased
<1> QED BY <1>1, <1>2, <1>3, TypeCorrect, PTL DEF Spec

--------------------------------------------------------------------------------
(* What the step did not write to is what the image has there, and, before   *)
(* its first operation, what it trusts.                                     *)

\* Every file a variable names exists; a file that does not is created in the
\* mirror, and a step that writes next to it brings it into the layer, empty.
NamedExist == \A c \in Containers, w \in Vars : c.env[w] \in Files => c.image[c.env[w]] # None

\* The two ways of OwnFile to be left behind.
OwnFileGoes == Faults \cap {"tornOwnCA", "removeOwnCA"} = {}

\* Nodes that only the step writes to.
Plain(n) == n = OwnFile => ~createdOwnCA /\ OwnFileGoes

Before == {"start", "bind", "spawn"}

Injected(d, n) == IF n \in BundleFiles(d) THEN AppendCA(image[n]) ELSE image[n]

\* A mirror is the image's directory with the CA in its bundles, and the rootfs
\* the image's, but for what the step wrote to: from the start, and again when
\* its directories have been written back.
TraceInv ==
    /\ touched \subseteq Nodes \ {OwnFile} /\ (pc \in Before \/ nops = 0 => touched = {})
    /\ pc \in Before \cup {"running"} \/ NamedExist =>
          \A n \in Nodes \ touched : Plain(n) => rootfs[n] = image[n]
    /\ \A d \in binds, n \in Nodes \ touched : Covers(d, n) /\ Plain(n) =>
          original[n] = image[n] /\ mirror[n] = Injected(d, n)
    /\ pc = "start" => rootfs = image /\ binds = {} /\ pending = {} /\ ~createdOwnCA
    /\ createdOwnCA => image[OwnFile] = None
    /\ OwnFileGoes /\ NamedExist /\ pc \in {"exited", "committed"} => rootfs[OwnFile] = image[OwnFile]

TargetDirs == {DirOf[f] : f \in Targets}

\* What became of a directory that has to trust the CA.
Decided(d) ==
    \/ d \in pending \cup binds \/ d \in unprepared \/ Refused(d)
    \/ \E e \in binds : Overlap(e, d)

\* Every directory is bound, or about to be, unless there is a reason the
\* wrapper logged; and who is pointed at OwnFile finds it there, behind a mount
\* or not.
PlaceInv ==
    /\ binds \cup pending \subseteq TargetDirs
    /\ pc = "bind" \/ (saved /\ pc \in {"spawn", "running"}) => \A d \in TargetDirs : Decided(d)
    /\ pc \in {"spawn", "running"} => pending = {}
    /\ \A w \in Vars : newEnv[w] = OwnFile => createdOwnCA
    /\ pc = "start" => binds = {} /\ pending = {} /\ ~createdOwnCA /\ ~saved
    /\ createdOwnCA /\ pc \in Before \cup {"running"} =>
          /\ rootfs[OwnFile] = AppendCA(None)
          /\ \A d \in binds : Covers(d, OwnFile) => mirror[OwnFile] = AppendCA(None)

\* A bundle that was given the CA and stripped again is what it was, to the mtime.
LEMMA BackAgain ==
    ASSUME NEW e \in Entry, e.blocks = 0
    PROVE  RestoreMtime(e, RemoveCA(AppendCA(e))) = e
<1> DEFINE a == AppendCA(e)
           r == RemoveCA(a)
<1>0. e # None
    BY ConstantsOK
<1>1. a \in Entry /\ a.blocks = 1 /\ a = [e EXCEPT !.blocks = @ + 1, !.mtime = "later"]
    BY <1>0, AppendCAType DEF AppendCA
<1>2. a.text = e.text /\ a.mode = e.mode
    BY <1>1 DEF Entry
<1> HIDE DEF a
<1>3. a # None
    BY <1>1, ConstantsOK
<1>4. r = [a EXCEPT !.blocks = @ - 1, !.mtime = "later"]
    BY <1>1, <1>3 DEF RemoveCA
<1>5. 1 - 1 = 0 /\ 0 \in Nat
    OBVIOUS
<1>6. r \in Entry /\ r.blocks = 0 /\ r.text = e.text /\ r.mode = e.mode
    <2>1. r = [a EXCEPT !.blocks = 0, !.mtime = "later"]
        BY <1>1, <1>4, <1>5
    <2> HIDE DEF r
    <2> QED BY <1>1, <1>2, <1>5, <2>1 DEF Entry
<1> HIDE DEF r
<1>7. r # None /\ Shape(e) = Shape(r)
    BY <1>0, <1>6, ConstantsOK DEF Shape
<1>8. RestoreMtime(e, r) = [r EXCEPT !.mtime = e.mtime]
    BY <1>0, <1>7 DEF RestoreMtime
<1>9. [r EXCEPT !.mtime = e.mtime] = e
    BY <1>6 DEF Entry
<1> QED BY <1>8, <1>9 DEF a, r

LEMMA TargetsThere == ASSUME TypeOK, NamedExist, NEW f \in Targets PROVE image[f] # None
<1>1. PICK c \in Containers : image = c.image /\ env = c.env
    BY DEF TypeOK
<1>2. f \in Files
    BY ContainerFacts
<1>3. CASE f \in SystemStore
    BY <1>3 DEF SystemStore, Candidates
<1>4. CASE f \notin SystemStore
    <2>1. PICK w \in Vars : f = env[w]
        BY <1>4 DEF Targets
    <2> QED BY <1>1, <1>2, <2>1 DEF NamedExist
<1> QED BY <1>3, <1>4

\* So is all that is written back of what the step did not write to.
LEMMA StrippedPlain ==
    ASSUME TypeOK, TraceInv, NamedExist, NEW d \in binds, NEW n \in Nodes \ touched, Covers(d, n), Plain(n)
    PROVE  Stripped(d)[n] = image[n]
<1>1. original[n] = image[n] /\ mirror[n] = Injected(d, n) /\ d \in Dirs
    BY DEF TraceInv, TypeOK
<1>2. image[n] \in Entry \cup {None}
    BY ContainerFacts DEF FileSystem
<1>3. CASE n \in BundleFiles(d)
    <2>1. n \in Targets /\ n \in Inside(d)
        BY <1>1, <1>3, PathFacts, ContainerFacts, ConstantsOK DEF Inside
    <2>2. image[n] \in Entry /\ image[n].blocks = 0
        BY <1>2, <2>1, TargetsThere, ContainerFacts
    <2>3. RestoreMtime(image[n], RemoveCA(AppendCA(image[n]))) = image[n]
        BY <2>2, BackAgain
    <2> QED BY <1>1, <1>3, <2>1, <2>3 DEF Stripped, Injected
<1>4. CASE n \notin BundleFiles(d)
    <2>1. RestoreMtime(image[n], image[n]) = image[n]
        BY <1>2, RestoreMtimeType
    <2> QED BY <1>1, <1>4, <2>1 DEF Stripped, Injected
<1> QED BY <1>3, <1>4

LEMMA Names == UNCHANGED <<image, env>> =>
    /\ Targets' = Targets /\ TargetDirs' = TargetDirs /\ SystemStore' = SystemStore
    /\ \A d : BundleFiles(d)' = BundleFiles(d) /\ Custom(d)' = Custom(d)
    /\ \A d, n : Injected(d, n)' = Injected(d, n)
BY DEF TargetDirs, Targets, BundleFiles, Custom, SystemStore, Candidates, Injected

\* Two mirrors have no node in common.
LEMMA BindApart ==
    ASSUME TypeOK, NEW d \in Dirs, BindDir(d), NEW e \in binds, NEW n \in Nodes, Covers(e, n)
    PROVE  ~Covers(d, n) /\ n \notin BundleFiles(d)
<1>1. ~Overlap(e, d) /\ e \in Dirs
    BY DEF BindDir, Skipped, MountConflicts, TypeOK
<1>2. ~Covers(d, n)
    BY <1>1, PathFacts
<1>3. n \notin BundleFiles(d)
    BY <1>2, PathFacts, ContainerFacts, ConstantsOK DEF Covers, Inside
<1> QED BY <1>2, <1>3

LEMMA StepPuts ==
    ASSUME TypeOK, StepOp
    PROVE  \E n \in Nodes \ {OwnFile}, e \in Entry \cup {None} : Put(n, e)
<1>1. PICK n \in (StepFiles \cup ChmodNodes), e \in Entry \cup {None} : Put(n, e)
    BY StepStores
<1>2. n \in Nodes \ {OwnFile}
    BY ConstantsOK DEF Nodes
<1> QED BY <1>1, <1>2

LEMMA InitTrace == Init => TraceInv /\ PlaceInv
<1> SUFFICES ASSUME Init PROVE TraceInv /\ PlaceInv
    OBVIOUS
<1>1. None # OwnFile
    BY ConstantsOK
<1>2. TraceInv
    BY DEF Init, TraceInv, Before
<1>3. PlaceInv
    BY <1>1 DEF Init, PlaceInv
<1> QED BY <1>2, <1>3

LEMMA NextTrace == ASSUME TypeOK, TraceInv, [Next]_vars PROVE TraceInv'
<1> USE DEF container, mirrors, setup, ending, history
<1>1. \A d, n : Covers(d, n)' = Covers(d, n)
    BY DEF Covers, Inside
\* Steps that write nothing, to the rootfs or to a mirror.
<1>2. ASSUME UNCHANGED <<image, env, rootfs, mirror, original, binds, createdOwnCA, nops, touched>>,
             pc' # "start", pc' \in Before => pc \in Before,
             pc' \in Before \cup {"running"} => pc \in Before \cup {"running"},
             pc' \in {"exited", "committed"} => pc \in {"exited", "committed"}
      PROVE  TraceInv'
    BY <1>1, <1>2, Names DEF TraceInv, Plain, Before
<1>3. ASSUME NEW d \in Dirs, SkipDir(d) PROVE TraceInv'
    BY <1>2, <1>3 DEF SkipDir, Before
<1>4. CASE RunWithoutInjection \/ SaveSpec \/ Spawn
    BY <1>2, <1>4 DEF RunWithoutInjection, SaveSpec, Spawn, Before
<1>5. CASE StepExits \/ Killed \/ Commit \/ Discard
    BY <1>2, <1>5 DEF StepExits, Killed, Commit, Discard, Before
<1>6. CASE UNCHANGED vars
    BY <1>1, <1>6, Names DEF TraceInv, Plain, vars
<1>7. CASE ChooseTargets
    <2>1. /\ pc = "start" /\ binds = {} /\ binds' = {} /\ pc' = "bind" /\ ~createdOwnCA
          /\ UNCHANGED <<image, env, touched, nops>>
        BY <1>7 DEF ChooseTargets, TraceInv
    <2>2. \A n \in Nodes \ {OwnFile} : rootfs'[n] = rootfs[n]
        BY <1>7 DEF ChooseTargets, TypeOK, FileSystem
    <2>3. ~createdOwnCA' /\ OwnFileGoes => rootfs' = rootfs
        BY <1>7, <2>1 DEF ChooseTargets, OwnFileGoes
    <2>4. createdOwnCA' => image[OwnFile] = None
        <3>1. createdOwnCA' => rootfs[OwnFile] = None
            BY <1>7, <2>1 DEF ChooseTargets
        <3> QED BY <2>1, <3>1 DEF TraceInv
    <2> QED BY <2>1, <2>2, <2>3, <2>4 DEF TraceInv, Plain, Before
<1>8. ASSUME NEW d \in Dirs, BindDir(d) PROVE TraceInv'
    <2>1. /\ pc = "bind" /\ pc' = "bind" /\ binds' = binds \cup {d} /\ touched = {}
          /\ UNCHANGED <<image, env, rootfs, createdOwnCA, touched, nops>>
        BY <1>8 DEF BindDir, TraceInv, Before
    <2>2. \A n \in Nodes : Plain(n) => rootfs[n] = image[n]
        BY <2>1 DEF TraceInv, Before
    <2>3. ASSUME NEW n \in Nodes, Covers(d, n), Plain(n)
          PROVE  original'[n] = image[n] /\ mirror'[n] = Injected(d, n)
        BY <1>8, <2>2, <2>3 DEF BindDir, Injected
    <2>4. ASSUME NEW e \in binds, NEW n \in Nodes, Covers(e, n), Plain(n)
          PROVE  original'[n] = image[n] /\ mirror'[n] = Injected(e, n)
        <3>1. ~Covers(d, n) /\ n \notin BundleFiles(d)
            BY <1>8, <2>4, BindApart
        <3> QED BY <1>8, <2>1, <2>4, <3>1 DEF BindDir, TraceInv
    <2>5. \A n : Plain(n)' <=> Plain(n)
        BY <2>1 DEF Plain
    <2>6. \A e \in binds', n \in Nodes \ touched' : Covers(e, n)' /\ Plain(n)' =>
              original'[n] = image'[n] /\ mirror'[n] = Injected(e, n)'
        BY <1>1, <2>1, <2>3, <2>4, <2>5, Names
    <2> QED BY <2>1, <2>2, <2>5, <2>6 DEF TraceInv, Before
<1>9. CASE StepOp
    <2>1. PICK n \in Nodes \ {OwnFile}, e \in Entry \cup {None} : Put(n, e)
        BY <1>9, StepPuts
    <2>2. /\ pc = "running" /\ pc' = pc /\ touched' = touched \cup {n}
          /\ UNCHANGED <<image, env, original, binds, createdOwnCA>>
        BY <1>9, <2>1 DEF StepOp, Put
    <2>3. nops' # 0
        <3>1. nops \in Nat /\ nops' = nops + 1
            BY <1>9, ConstantsOK DEF StepOp, TypeOK
        <3> QED BY <3>1
    <2>4. \A m \in Nodes : m # n => rootfs'[m] = rootfs[m] /\ mirror'[m] = mirror[m]
        BY <2>1 DEF Put, TypeOK, FileSystem
    <2>5. \A m : Plain(m)' <=> Plain(m)
        BY <2>2 DEF Plain
    <2>6. touched' \subseteq Nodes \ {OwnFile} /\ (pc' \in Before \/ nops' = 0 => touched' = {})
        BY <2>2, <2>3 DEF TraceInv, Before
    <2>7. \A m \in Nodes \ touched' : Plain(m)' => rootfs'[m] = image'[m]
        BY <2>2, <2>4, <2>5 DEF TraceInv
    <2>8. \A d \in binds', m \in Nodes \ touched' : Covers(d, m)' /\ Plain(m)' =>
              original'[m] = image'[m] /\ mirror'[m] = Injected(d, m)'
        BY <1>1, <2>2, <2>4, <2>5, Names DEF TraceInv
    <2> QED BY <2>2, <2>6, <2>7, <2>8 DEF TraceInv, Before
<1>10. ASSUME NEW d \in Dirs, FinishDir(d) PROVE TraceInv'
    <2>1. /\ pc = "finish" /\ pc' = pc /\ d \in binds
          /\ UNCHANGED <<image, env, mirror, original, binds, createdOwnCA, nops, touched>>
        BY <1>10 DEF FinishDir, TypeOK
    <2>2. ASSUME NEW n \in Nodes
          PROVE  rootfs'[n] = rootfs[n] \/ (Covers(d, n) /\ rootfs'[n] = Stripped(d)[n])
        BY <1>10 DEF FinishDir, WriteBack
    <2>3. NamedExist => \A n \in Nodes \ touched : Plain(n) => rootfs'[n] = image[n]
        BY <2>1, <2>2, StrippedPlain DEF TraceInv
    <2>4. \A n : Plain(n)' <=> Plain(n)
        BY <2>1 DEF Plain
    <2> QED BY <1>1, <2>1, <2>3, <2>4, Names DEF TraceInv, Before
<1>11. CASE RemoveOwnCA
    <2>1. /\ pc = "finish" /\ pc' = "exited"
          /\ UNCHANGED <<image, env, mirror, original, binds, createdOwnCA, nops, touched>>
        BY <1>11 DEF RemoveOwnCA
    <2>2. (\A n \in Nodes \ {OwnFile} : rootfs'[n] = rootfs[n]) /\ (~createdOwnCA => rootfs' = rootfs)
        BY <1>11 DEF RemoveOwnCA, TypeOK, FileSystem
    <2>3. \A n : Plain(n)' <=> Plain(n)
        BY <2>1 DEF Plain
    <2>4. ASSUME NamedExist PROVE \A n \in Nodes \ touched : Plain(n) => rootfs'[n] = image[n]
        BY <2>2, <2>4 DEF TraceInv, Plain
    <2>5. ASSUME OwnFileGoes, NamedExist PROVE rootfs'[OwnFile] = image[OwnFile]
        <3>1. CASE createdOwnCA
            <4>1. rootfs' = [rootfs EXCEPT ![OwnFile] = None]
                BY <1>11, <2>5, <3>1 DEF RemoveOwnCA, OwnFileGoes
            <4> QED BY <3>1, <4>1, PathFacts DEF TraceInv, TypeOK, FileSystem
        <3>2. CASE ~createdOwnCA
            <4>1. Plain(OwnFile) /\ OwnFile \in Nodes \ touched
                BY <2>5, <3>2, PathFacts DEF Plain, TraceInv
            <4> QED BY <2>4, <2>5, <4>1
        <3> QED BY <3>1, <3>2
    <2>6. \A e \in binds', n \in Nodes \ touched' : Covers(e, n)' /\ Plain(n)' =>
              original'[n] = image'[n] /\ mirror'[n] = Injected(e, n)'
        BY <1>1, <2>1, <2>3, Names DEF TraceInv
    <2> QED BY <2>1, <2>3, <2>4, <2>5, <2>6 DEF TraceInv, Before
<1> QED BY <1>3, <1>4, <1>5, <1>6, <1>7, <1>8, <1>9, <1>10, <1>11 DEF Next, Wrapper, BuildKit

LEMMA TraceHolds == Spec => []TraceInv
BY InitTrace, NextTrace, TypeCorrect, PTL DEF Spec

\* A committed layer differs from the image only where the step wrote: to the
\* mtime, a step that never touches its CA store leaves no trace (dirbind.go).
THEOREM NoTraceLeft == ASSUME NamedExist, OwnFileGoes PROVE Spec => []OnlyTouchedCopiedUp
<1>1. TraceInv => OnlyTouchedCopiedUp
    <2> SUFFICES ASSUME TraceInv, pc = "committed", NEW n \in Nodes \ touched PROVE rootfs[n] = image[n]
        BY DEF OnlyTouchedCopiedUp
    <2>1. CASE n = OwnFile
        BY <2>1 DEF TraceInv
    <2>2. CASE n # OwnFile
        BY <2>2 DEF TraceInv, Plain
    <2> QED BY <2>1, <2>2
<1> QED BY <1>1, TraceHolds, PTL

LEMMA RefusedStays ==
    ASSUME UNCHANGED <<image, env>>, NEW d PROVE Refused(d)' <=> Refused(d)
BY Names DEF Refused, Overlap

\* A variable is pointed at OwnFile only when the wrapper has written it.
LEMMA EnvForOwn ==
    ASSUME TypeOK, NEW w \in Vars, NEW own, EnvFor(own)[w] = OwnFile PROVE w \in own
<1>1. CASE w \in StoreVars
    <2>1. SystemStore # {} /\ EnvFor(own)[w] = CHOOSE f \in SystemStore : TRUE
        BY <1>1 DEF EnvFor, StoreVars, HaveSystemStore
    <2>2. EnvFor(own)[w] \in SystemStore
        BY <2>1
    <2> QED BY <2>2, ContainerFacts
<1>2. CASE w \notin StoreVars
    BY <1>2, ConstantsOK DEF EnvFor
<1> QED BY <1>1, <1>2

LEMMA NextPlace == ASSUME TypeOK, PlaceInv, [Next]_vars PROVE PlaceInv'
<1> USE DEF container, mirrors, setup, ending, history
<1>1. (\A d, n : Covers(d, n)' = Covers(d, n)) /\ \A d, n : Overlap(d, n)' = Overlap(d, n)
    BY DEF Covers, Inside, Overlap
\* Steps that leave OwnFile, the binds and the variables alone.
<1>2. ASSUME UNCHANGED <<image, env, pending, binds, newEnv, createdOwnCA, unprepared>>,
             rootfs'[OwnFile] = rootfs[OwnFile], mirror'[OwnFile] = mirror[OwnFile],
             pc' # "start", pc' \in {"spawn", "running"} => pending = {},
             saved' /\ pc' \in {"spawn", "running"} => pc = "bind" \/ (saved /\ pc \in {"spawn", "running"}),
             pc' \in Before \cup {"running"} => pc \in Before \cup {"running"}, pc' # "bind"
      PROVE  PlaceInv'
    <2>1. TargetDirs' = TargetDirs /\ \A d : Decided(d)' <=> Decided(d)
        BY <1>1, <1>2, Names, RefusedStays DEF Decided
    <2> QED BY <1>1, <1>2, <2>1 DEF PlaceInv
<1>3. ASSUME NEW d \in Dirs, SkipDir(d) PROVE PlaceInv'
    <2>1. /\ pc = "bind" /\ pc' = "bind" /\ pending' = pending \ {d}
          /\ unprepared \subseteq unprepared'
          /\ UNCHANGED <<image, env, rootfs, mirror, binds, newEnv, createdOwnCA>>
        BY <1>3 DEF SkipDir
    <2>2. TargetDirs' = TargetDirs /\ \A e : Refused(e)' <=> Refused(e)
        BY <2>1, Names, RefusedStays
    <2>3. d \in unprepared' \/ Refused(d) \/ \E e \in binds : Overlap(e, d)
        BY <1>3 DEF SkipDir, Skipped, MountConflicts, Refused
    <2>4. \A e \in TargetDirs : Decided(e)'
        BY <1>1, <2>1, <2>2, <2>3 DEF PlaceInv, Decided
    <2> QED BY <1>1, <2>1, <2>2, <2>4 DEF PlaceInv
<1>4. CASE RunWithoutInjection
    BY <1>2, <1>4 DEF RunWithoutInjection, Before, PlaceInv
<1>5. CASE SaveSpec \/ Spawn
    BY <1>2, <1>5 DEF SaveSpec, Spawn, Before, PlaceInv
<1>6. CASE StepExits \/ Killed \/ Commit \/ Discard
    BY <1>2, <1>6 DEF StepExits, Killed, Commit, Discard, Before
<1>7. CASE UNCHANGED vars
    <2>1. UNCHANGED <<image, env, pending, binds, unprepared>>
        BY <1>7 DEF vars
    <2>2. TargetDirs' = TargetDirs /\ \A d : Decided(d)' <=> Decided(d)
        BY <1>1, <2>1, Names, RefusedStays DEF Decided
    <2> QED BY <1>1, <1>7, <2>2 DEF PlaceInv, vars
<1>8. CASE ChooseTargets
    <2>1. /\ pc = "start" /\ binds = {} /\ binds' = {} /\ pc' = "bind" /\ ~createdOwnCA
          /\ pending' = TargetDirs /\ UNCHANGED <<image, env>>
        BY <1>8 DEF ChooseTargets, PlaceInv, TargetDirs
    <2>2. TargetDirs' = TargetDirs /\ \A d \in TargetDirs : Decided(d)'
        BY <2>1, Names DEF Decided
    <2>3. createdOwnCA' => rootfs'[OwnFile] = AppendCA(None)
        BY <1>8, <2>1, PathFacts DEF ChooseTargets, TypeOK, FileSystem
    <2>4. newEnv' = EnvFor({}) \/ ((\E own : newEnv' = EnvFor(own)) /\ createdOwnCA')
        BY <1>8 DEF ChooseTargets
    <2>5. ASSUME NEW w \in Vars, newEnv'[w] = OwnFile PROVE createdOwnCA'
        BY <2>4, <2>5, EnvForOwn
    <2> QED BY <2>1, <2>2, <2>3, <2>5 DEF PlaceInv
<1>9. ASSUME NEW d \in Dirs, BindDir(d) PROVE PlaceInv'
    <2>1. /\ pc = "bind" /\ pc' = "bind" /\ d \in pending
          /\ pending' = pending \ {d} /\ binds' = binds \cup {d}
          /\ UNCHANGED <<image, env, rootfs, newEnv, createdOwnCA, unprepared>>
        BY <1>9 DEF BindDir
    <2>2. TargetDirs' = TargetDirs /\ \A e : Decided(e) => Decided(e)'
        BY <1>1, <2>1, Names, RefusedStays DEF Decided
    <2>3. OwnFile \notin BundleFiles(d)
        BY PathFacts, ContainerFacts
    <2>4. mirror'[OwnFile] = IF Covers(d, OwnFile) THEN rootfs[OwnFile] ELSE mirror[OwnFile]
        BY <1>9, <2>3, PathFacts DEF BindDir
    <2>5. createdOwnCA => rootfs[OwnFile] = AppendCA(None)
                          /\ \A e \in binds' : Covers(e, OwnFile) => mirror'[OwnFile] = AppendCA(None)
        BY <2>1, <2>4 DEF PlaceInv, Before
    <2> QED BY <1>1, <2>1, <2>2, <2>5 DEF PlaceInv
<1>10. CASE StepOp
    <2>1. PICK n \in Nodes \ {OwnFile}, e \in Entry \cup {None} : Put(n, e)
        BY <1>10, StepPuts
    <2>2. rootfs'[OwnFile] = rootfs[OwnFile] /\ mirror'[OwnFile] = mirror[OwnFile]
        BY <2>1, PathFacts DEF Put, TypeOK, FileSystem
    <2> QED BY <1>2, <1>10, <2>2 DEF StepOp, Before, PlaceInv
<1>11. ASSUME NEW d \in Dirs, FinishDir(d) PROVE PlaceInv'
    <2>1. /\ pc' = "finish" /\ UNCHANGED <<image, env, pending, binds, newEnv, createdOwnCA>>
        BY <1>11 DEF FinishDir
    <2> QED BY <2>1, Names DEF PlaceInv, Before
<1>12. CASE RemoveOwnCA
    <2>1. /\ pc' = "exited" /\ UNCHANGED <<image, env, pending, binds, newEnv, createdOwnCA>>
        BY <1>12 DEF RemoveOwnCA
    <2> QED BY <2>1, Names DEF PlaceInv, Before
<1> QED BY <1>3, <1>4, <1>5, <1>6, <1>7, <1>8, <1>9, <1>10, <1>11, <1>12 DEF Next, Wrapper, BuildKit

LEMMA PlaceHolds == Spec => []PlaceInv
BY InitTrace, NextPlace, TypeCorrect, PTL DEF Spec

\* What the step sees of a bundle, before it has done anything.
LEMMA Seen ==
    ASSUME TypeOK, TraceInv, saved, touched = {}, pc = "running", NEW f \in Targets
    PROVE  /\ View(f) = image[f] \/ View(f) = AppendCA(image[f])
           /\ DirOf[f] \in binds => View(f) = AppendCA(image[f])
           /\ (IF image[f] = None THEN 0 ELSE image[f].blocks) = 0
           /\ AppendCA(image[f]) # None /\ AppendCA(image[f]).blocks = 1
<1>1. f \in Files /\ f \in Nodes /\ f # OwnFile /\ DirOf[f] \in Dirs /\ Covers(DirOf[f], f)
    BY ContainerFacts, ConstantsOK DEF Nodes, Covers, Inside
<1>2. Plain(f)
    BY <1>1 DEF Plain
<1>3. image[f] \in Entry \cup {None} /\ (image[f] # None => image[f].blocks = 0)
    BY <1>1, ContainerFacts DEF FileSystem
<1>4. AppendCA(image[f]) # None /\ AppendCA(image[f]).blocks = 1
    BY <1>3, AppendCAType, ConstantsOK
<1>5. \A d \in binds : Covers(d, f) => View(f) = Injected(d, f)
    BY <1>1, <1>2 DEF TraceInv, View, Mirrored
<1>6. ~Mirrored(f) => View(f) = image[f]
    BY <1>1, <1>2 DEF TraceInv, View
<1>7. View(f) = image[f] \/ View(f) = AppendCA(image[f])
    BY <1>5, <1>6 DEF Mirrored, Injected
<1>8. f \in BundleFiles(DirOf[f])
    BY DEF BundleFiles
<1>9. DirOf[f] \in binds => View(f) = AppendCA(image[f])
    BY <1>1, <1>5, <1>8 DEF Injected
<1> QED BY <1>3, <1>4, <1>7, <1>9

\* A step whose spec was saved starts with the CA in every bundle of every
\* directory the wrapper neither refuses, nor failed to prepare, nor gave up for
\* one it overlaps, in no bundle twice, and with the OwnFile its variables name,
\* whatever fails and whichever order the directories are walked in.
THEOREM TrustIsInPlace == Spec => []TrustInPlace
<1>1. TypeOK /\ TraceInv /\ PlaceInv => TrustInPlace
    <2> SUFFICES ASSUME TypeOK, TraceInv, PlaceInv, StepStarts PROVE TrustInPlace
        BY DEF TrustInPlace
    <2>1. pc = "running" /\ saved /\ touched = {} /\ pending = {}
        BY DEF StepStarts, TraceInv, PlaceInv
    <2>2. ASSUME NEW f \in Targets
          PROVE  LET held == IF View(f) = None THEN 0 ELSE View(f).blocks
                     d == DirOf[f] IN
                 /\ held <= 1 /\ (d \in binds => held = 1)
                 /\ held = 1 \/ Refused(d) \/ d \in unprepared \/ \E e \in binds : Overlap(e, d)
        <3> DEFINE held == IF View(f) = None THEN 0 ELSE View(f).blocks
        <3>1. held = 0 \/ held = 1
            BY <2>1, Seen
        <3>2. DirOf[f] \in binds => held = 1
            BY <2>1, Seen
        <3>3. Decided(DirOf[f])
            BY <2>1 DEF PlaceInv, TargetDirs
        <3>4. held = 1 \/ Refused(DirOf[f]) \/ DirOf[f] \in unprepared \/ \E e \in binds : Overlap(e, DirOf[f])
            BY <2>1, <3>2, <3>3 DEF Decided
        <3> QED BY <3>1, <3>2, <3>4
    <2>3. ASSUME NEW v \in Vars, newEnv[v] = OwnFile
          PROVE  View(OwnFile) # None /\ View(OwnFile).blocks = 1
        <3>1. /\ rootfs[OwnFile] = AppendCA(None)
              /\ \A d \in binds : Covers(d, OwnFile) => mirror[OwnFile] = AppendCA(None)
            BY <2>1, <2>3 DEF PlaceInv
        <3>2. View(OwnFile) = AppendCA(None)
            BY <3>1 DEF View, Mirrored
        <3>3. AppendCA(None) # None /\ AppendCA(None).blocks = 1
            BY AppendCAType, ConstantsOK
        <3> QED BY <3>2, <3>3
    <2> QED BY <2>2, <2>3 DEF TrustInPlace
<1> QED BY <1>1, TypeCorrect, TraceHolds, PlaceHolds, PTL

--------------------------------------------------------------------------------
(* CaInjection implements StepLayer.                                        *)

\* A step does not chmod a directory that may be mounted over: finish does not
\* look at a bind's own root.
RootsKept == ChmodNodes \cap {DirOf[f] : f \in Files \ {OwnFile}} = {}

\* Who is asked what the layer would be, and how the wrapper ends.
EndInv ==
    /\ pc \in Before \cup {"running"} => code = 0 /\ ~firstErr
    /\ pc \in {"start", "bind"} => ~saved
    /\ pc \in {"start", "exited", "committed"} => unfinished = {}
    /\ pc = "committed" => code = 0
    /\ pc \in {"exited", "committed"} /\ firstErr => code # 0

\* What a mirror held right after the CA was added, outside OwnFile.
Marked(d, n) == IF n \in BundleFiles(d) THEN AppendCA(original[n]) ELSE original[n]

\* Mirrors are apart, each is what it was made as unless the step works on it,
\* and until its directory is written back that is still the original.
MirrorInv ==
    /\ pc = "start" => binds = {}
    /\ \A d, e \in binds : d # e => ~Overlap(d, e)
    /\ RootsKept => \A d \in binds : mirror[d] = original[d]
    /\ \A d \in binds, n \in Nodes : Covers(d, n) =>
          /\ baseline[n] = Marked(d, n) /\ (~saved => mirror[n] = baseline[n])
          /\ NamedExist /\ n \in BundleFiles(d) => original[n] # None
    /\ \A d \in Live, n \in Nodes : Covers(d, n) /\ (saved \/ pc = "bind") => n = OwnFile \/ rootfs[n] = original[n]

LEMMA InitLayer == Init => EndInv /\ MirrorInv
<1> SUFFICES ASSUME Init PROVE EndInv /\ MirrorInv
    OBVIOUS
<1>1. EndInv
    BY DEF Init, EndInv
<1>2. MirrorInv
    BY DEF Init, MirrorInv, Live
<1> QED BY <1>1, <1>2

LEMMA NextEnd == ASSUME TypeOK, EndInv, [Next]_vars PROVE EndInv'
<1> USE DEF container, mirrors, setup, ending, history, EndInv, Before
<1>0. CASE SaveSpec
    BY <1>0 DEF SaveSpec
<1>1. CASE RunWithoutInjection \/ ChooseTargets
    <2>1. pc = "start" /\ pc' \in {"spawn", "bind"} /\ UNCHANGED <<saved, code, firstErr, unfinished>>
        BY <1>1 DEF RunWithoutInjection, ChooseTargets
    <2> QED BY <2>1
<1>2. CASE Spawn \/ StepOp \/ StepExits \/ Killed
    BY <1>2 DEF Spawn, StepOp, StepExits, Killed
<1>3. ASSUME NEW d \in Dirs, SkipDir(d) \/ BindDir(d) \/ FinishDir(d) PROVE EndInv'
    BY <1>3 DEF SkipDir, BindDir, FinishDir
<1>4. CASE RemoveOwnCA
    BY <1>4 DEF RemoveOwnCA, TypeOK
<1>5. CASE Commit \/ Discard \/ UNCHANGED vars
    BY <1>5 DEF Commit, Discard, vars
<1> QED BY <1>0, <1>1, <1>2, <1>3, <1>4, <1>5 DEF Next, Wrapper, BuildKit

LEMMA LiveBinds == TypeOK => Live \subseteq binds
BY DEF TypeOK, Live

LEMMA NextMirror ==
    ASSUME TypeOK, TraceInv, PlaceInv, EndInv, MirrorInv, [Next]_vars PROVE MirrorInv'
<1> USE DEF container, mirrors, setup, ending, history
<1>1. (\A d, n : Covers(d, n)' = Covers(d, n)) /\ (\A d, e : Overlap(d, e)' = Overlap(d, e))
    BY DEF Covers, Inside, Overlap
<1>2. UNCHANGED <<image, env, original>> => \A d, n : Marked(d, n)' = Marked(d, n)
    BY Names DEF Marked
\* Steps that leave the mirrors and what they stand for alone.
<1>3. ASSUME UNCHANGED <<image, env, mirror, original, baseline, binds>>,
             \A n \in Nodes : n = OwnFile \/ rootfs'[n] = rootfs[n],
             \A d \in Live' : d \in Live /\ (saved' \/ pc' = "bind" => saved \/ pc = "bind"),
             ~saved' => ~saved, pc' = "start" => pc = "start"
      PROVE  MirrorInv'
    <2>1. \A d, n : BundleFiles(d)' = BundleFiles(d) /\ Marked(d, n)' = Marked(d, n)
        BY <1>2, <1>3, Names
    <2> QED BY <1>1, <1>3, <2>1 DEF MirrorInv
<1>4. CASE RunWithoutInjection \/ ChooseTargets
    <2>1. binds = {} /\ Live' = {}
        BY <1>4 DEF RunWithoutInjection, ChooseTargets, MirrorInv, Live
    <2>2. \A n \in Nodes : n = OwnFile \/ rootfs'[n] = rootfs[n]
        BY <1>4 DEF RunWithoutInjection, ChooseTargets, TypeOK, FileSystem
    <2> QED BY <1>3, <1>4, <2>1, <2>2 DEF RunWithoutInjection, ChooseTargets
<1>5. CASE SaveSpec \/ Spawn \/ StepExits
    BY <1>3, <1>5 DEF SaveSpec, Spawn, StepExits, Live, EndInv
<1>6. CASE Killed \/ Commit \/ Discard
    <2>1. Live' = unfinished /\ unfinished \subseteq binds /\ (pc \in {"exited", "killed", "finish"} => Live = unfinished)
        BY <1>6 DEF Killed, Commit, Discard, Live, TypeOK
    <2>2. Live' \subseteq Live
        BY <1>6, <2>1 DEF Killed, Commit, Discard, Live, EndInv
    <2> QED BY <1>3, <1>6, <2>2 DEF Killed, Commit, Discard, EndInv
<1>7. CASE UNCHANGED vars
    BY <1>3, <1>7 DEF vars, Live
<1>8. ASSUME NEW d \in Dirs, SkipDir(d) PROVE MirrorInv'
    BY <1>3, <1>8 DEF SkipDir, Live
<1>9. ASSUME NEW d \in Dirs, BindDir(d) PROVE MirrorInv'
    <2>1. /\ pc = "bind" /\ pc' = "bind" /\ binds' = binds \cup {d} /\ Live = binds /\ Live' = binds'
          /\ UNCHANGED <<image, env, rootfs, saved>> /\ ~saved
        BY <1>9 DEF BindDir, Live, EndInv
    <2>2. d \in Nodes /\ d \notin BundleFiles(d)
        BY PathFacts, ContainerFacts
    <2>3. ASSUME NEW n \in Nodes, Covers(d, n)
          PROVE  /\ original'[n] = rootfs[n] /\ baseline'[n] = mirror'[n]
                 /\ mirror'[n] = IF n \in BundleFiles(d) THEN AppendCA(rootfs[n]) ELSE rootfs[n]
        BY <1>9, <2>3 DEF BindDir
    <2>4. ASSUME NEW e \in binds, NEW n \in Nodes, Covers(e, n)
          PROVE  original'[n] = original[n] /\ baseline'[n] = baseline[n] /\ mirror'[n] = mirror[n]
        <3>1. ~Covers(d, n) /\ n \notin BundleFiles(d)
            BY <1>9, <2>4, BindApart
        <3> QED BY <1>9, <3>1 DEF BindDir
    <2>5. \A e : BundleFiles(e)' = BundleFiles(e)
        BY <2>1, Names
    <2>6. ASSUME NEW n \in Nodes, NamedExist, n \in BundleFiles(d) PROVE rootfs[n] # None
        <3>1. n \in Targets /\ n # OwnFile
            BY <2>6, PathFacts, ContainerFacts
        <3>2. rootfs[n] = image[n]
            BY <2>1, <3>1 DEF TraceInv, Before, Plain
        <3> QED BY <2>6, <3>1, <3>2, TargetsThere
    <2>7. \A e, f \in binds' : e # f => ~Overlap(e, f)
        <3>1. \A e \in binds : ~Overlap(e, d) /\ ~Overlap(d, e)
            BY <1>9 DEF BindDir, Skipped, MountConflicts, Overlap
        <3> QED BY <2>1, <3>1 DEF MirrorInv
    <2>8. RootsKept => \A e \in binds' : mirror'[e] = original'[e]
        <3>1. mirror'[d] = original'[d]
            BY <2>2, <2>3 DEF Covers
        <3>2. \A e \in binds : e \in Nodes /\ Covers(e, e)
            BY PathFacts DEF TypeOK, Covers
        <3> QED BY <2>1, <2>4, <3>1, <3>2 DEF MirrorInv
    <2>9. ASSUME NEW e \in binds', NEW n \in Nodes, Covers(e, n)
          PROVE  /\ baseline'[n] = Marked(e, n)' /\ baseline'[n] = mirror'[n]
                 /\ NamedExist /\ n \in BundleFiles(e)' => original'[n] # None
                 /\ n = OwnFile \/ rootfs[n] = original'[n]
        <3>1. CASE e = d
            BY <2>3, <2>5, <2>6, <2>9, <3>1 DEF Marked
        <3>2. CASE e # d
            <4>1. e \in binds
                BY <2>1, <3>2
            <4>2. original'[n] = original[n] /\ baseline'[n] = baseline[n] /\ mirror'[n] = mirror[n]
                BY <2>4, <2>9, <4>1
            <4>3. Marked(e, n)' = Marked(e, n)
                BY <2>5, <4>2 DEF Marked
            <4> QED BY <2>1, <2>5, <2>9, <4>1, <4>2, <4>3 DEF MirrorInv
        <3> QED BY <3>1, <3>2
    <2> QED BY <1>1, <2>1, <2>7, <2>8, <2>9 DEF MirrorInv
<1>10. CASE StepOp
    <2>1. PICK n \in (StepFiles \cup ChmodNodes), e \in Entry \cup {None} : Put(n, e)
        BY <1>10, StepStores
    <2>2. /\ pc = "running" /\ pc' = pc /\ n \in Nodes /\ Live = binds /\ Live' = binds
          /\ UNCHANGED <<image, env, original, baseline, binds, saved>>
        BY <1>10, ConstantsOK DEF StepOp, Live, Nodes
    <2>3. ASSUME NEW m \in Nodes, m # n PROVE rootfs'[m] = rootfs[m] /\ mirror'[m] = mirror[m]
        BY <2>1, <2>3 DEF Put, TypeOK, FileSystem
    <2>4. ~saved => mirror' = mirror
        BY <2>1 DEF Put, Mirrored
    <2>5. saved => \A d \in binds : Covers(d, n) => rootfs' = rootfs
        BY <2>1 DEF Put, Mirrored
    <2>6. RootsKept => \A d \in binds : mirror'[d] = original[d]
        <3> SUFFICES ASSUME RootsKept, NEW d \in binds PROVE mirror'[d] = original[d]
            OBVIOUS
        <3>1. CASE n = d
            <4>1. d \in ChmodNodes
                BY <2>1, <3>1, PathFacts, ConstantsOK DEF TypeOK
            <4>2. d \in TargetDirs
                BY DEF PlaceInv
            <4> QED BY <4>1, <4>2, ContainerFacts DEF RootsKept, TargetDirs
        <3>2. CASE n # d
            BY <2>3, <3>2, PathFacts DEF MirrorInv, TypeOK
        <3> QED BY <3>1, <3>2
    <2>7. \A d, m : BundleFiles(d)' = BundleFiles(d) /\ Marked(d, m)' = Marked(d, m)
        BY <1>2, <2>2, Names
    <2>8. \A d \in binds, m \in Nodes : Covers(d, m) /\ saved => m = OwnFile \/ rootfs'[m] = original[m]
        BY <2>2, <2>3, <2>5 DEF MirrorInv
    <2> QED BY <1>1, <2>2, <2>4, <2>6, <2>7, <2>8 DEF MirrorInv
<1>11. ASSUME NEW d \in Dirs, FinishDir(d) PROVE MirrorInv'
    <2>1. /\ pc = "finish" /\ pc' = pc /\ d \in unfinished /\ Live = unfinished /\ Live' = unfinished \ {d}
          /\ UNCHANGED <<image, env, mirror, original, baseline, binds, saved>>
        BY <1>11 DEF FinishDir, Live
    <2>2. ASSUME NEW e \in Live', NEW n \in Nodes, Covers(e, n) PROVE rootfs'[n] = rootfs[n]
        <3>1. e \in binds /\ d \in binds /\ e # d /\ e \in Dirs
            BY <2>1, <2>2 DEF TypeOK
        <3>2. ~Covers(d, n)
            BY <2>2, <3>1, PathFacts DEF MirrorInv
        <3> QED BY <1>11, <3>2 DEF FinishDir, WriteBack
    <2>3. \A e, n : BundleFiles(e)' = BundleFiles(e) /\ Marked(e, n)' = Marked(e, n)
        BY <1>2, <2>1, Names
    <2>4. \A e \in Live', n \in Nodes : Covers(e, n) /\ saved => n = OwnFile \/ rootfs'[n] = original[n]
        BY <2>1, <2>2 DEF MirrorInv
    <2> QED BY <1>1, <2>1, <2>3, <2>4 DEF MirrorInv
<1>12. CASE RemoveOwnCA
    <2>1. \A n \in Nodes : n = OwnFile \/ rootfs'[n] = rootfs[n]
        BY <1>12 DEF RemoveOwnCA, TypeOK, FileSystem
    <2> QED BY <1>3, <1>12, <2>1 DEF RemoveOwnCA, Live
<1> QED BY <1>4, <1>5, <1>6, <1>7, <1>8, <1>9, <1>10, <1>11, <1>12 DEF Next, Wrapper, BuildKit


AllInv == TypeOK /\ CleanInv /\ TraceInv /\ PlaceInv /\ EndInv /\ MirrorInv

\* What of an entry gets into the layer, when it is stripped and when not.
Strip(strip, e) == IF strip THEN Shape(RemoveCA(e)) ELSE Shape(e)

\* LayerOf, node by node.
LayerFacts ==
    /\ Doomed => LayerOf = [n \in Nodes |-> None]
    /\ LayerOf = [n \in Nodes |-> LayerOf[n]]
    /\ ~Doomed => LayerOf[OwnFile] = Shape(image[OwnFile])
    /\ ~Doomed => \A n \in Nodes \ {OwnFile} :
          /\ \A d \in Live : saved /\ Covers(d, n) => LayerOf[n] = Strip(n \in BundleFiles(d), mirror[n])
          /\ ~(saved /\ \E d \in Live : Covers(d, n)) => LayerOf[n] = Shape(rootfs[n])

LEMMA ShapeOf ==
    ASSUME NEW e \in Entry, NEW strip \in BOOLEAN, e.blocks = 0 \/ (strip /\ e.blocks = 1)
    PROVE  Strip(strip, e) = [text |-> e.text, blocks |-> 0, mode |-> e.mode]
<1>0. e # None
    BY ConstantsOK
<1>1. CASE e.blocks = 0
    BY <1>0, <1>1 DEF Strip, RemoveCA, Shape
<1>2. CASE e.blocks = 1 /\ strip
    <2> DEFINE r == RemoveCA(e)
    <2>1. r = [e EXCEPT !.blocks = 0, !.mtime = "later"]
        BY <1>0, <1>2 DEF RemoveCA
    <2> HIDE DEF r
    <2>2. r \in Entry /\ r.blocks = 0 /\ r.text = e.text /\ r.mode = e.mode
        BY <2>1 DEF Entry
    <2>3. r # None
        BY <2>2, ConstantsOK
    <2> QED BY <1>2, <2>2, <2>3 DEF Strip, Shape, r
<1> QED BY <1>1, <1>2

LEMMA NoShape == \A strip \in BOOLEAN : Strip(strip, None) = None
BY DEF Strip, RemoveCA, Shape

LEMMA ShapeIs ==
    \A e \in Entry : /\ Shape(e) = [text |-> e.text, blocks |-> e.blocks, mode |-> e.mode]
                     /\ Shape(e) # None
                     /\ Shape(e).text = e.text /\ Shape(e).blocks = e.blocks /\ Shape(e).mode = e.mode
<1> TAKE e \in Entry
<1> DEFINE r == [text |-> e.text, blocks |-> e.blocks, mode |-> e.mode]
<1>1. Shape(e) = r
    BY ConstantsOK DEF Shape
<1>2. r \in [text : Texts, blocks : Nat, mode : Modes]
    BY DEF Entry
<1>3. r # None
    BY <1>2, ConstantsOK
<1> QED BY <1>1, <1>3

\* Two entries a manifest cannot tell apart are the same in the layer.
LEMMA SameShape ==
    ASSUME NEW e \in Entry \cup {None}, NEW f \in Entry \cup {None}, NEW strip \in BOOLEAN,
           Shape(e) = Shape(f), f # None => f.blocks = 0 \/ (strip /\ f.blocks = 1)
    PROVE  Strip(strip, e) = Strip(strip, f)
<1>1. \A x \in Entry \cup {None} : x # None => Shape(x) # None
    BY ShapeIs
<1>2. CASE f = None
    BY <1>1, <1>2 DEF Shape
<1>3. CASE f # None
    <2>1. e \in Entry /\ f \in Entry
        BY <1>1, <1>3 DEF Shape
    <2>2. e.text = f.text /\ e.blocks = f.blocks /\ e.mode = f.mode
        BY <2>1, ShapeIs
    <2> QED BY <1>3, <2>1, <2>2, ShapeOf
<1> QED BY <1>2, <1>3

LEMMA SameRestored ==
    ASSUME NEW o \in Entry \cup {None}, NEW e \in Entry \cup {None}
    PROVE  Shape(RestoreMtime(o, e)) = Shape(e)
<1>1. CASE RestoreMtime(o, e) = e
    BY <1>1
<1>2. CASE RestoreMtime(o, e) # e
    <2> DEFINE r == [e EXCEPT !.mtime = o.mtime]
    <2>1. e \in Entry /\ o \in Entry /\ RestoreMtime(o, e) = r
        BY <1>2 DEF RestoreMtime
    <2>2. r \in Entry /\ r.text = e.text /\ r.blocks = e.blocks /\ r.mode = e.mode
        BY <2>1 DEF Entry
    <2> HIDE DEF r
    <2> QED BY <2>1, <2>2, ShapeIs
<1> QED BY <1>1, <1>2

LEMMA StrippedShape ==
    ASSUME TypeOK, NEW d \in Dirs, NEW n \in Nodes, Covers(d, n)
    PROVE  Shape(Stripped(d)[n]) = Strip(n \in BundleFiles(d), mirror[n])
<1>0. mirror[n] \in Entry \cup {None} /\ original[n] \in Entry \cup {None}
    BY DEF TypeOK, FileSystem
<1>1. CASE n \notin Inside(d)
    <2>1. n = d /\ n \notin BundleFiles(d)
        BY <1>1, PathFacts, ContainerFacts DEF Covers
    <2> QED BY <1>1, <2>1 DEF Stripped, Strip
<1>2. CASE n \in Inside(d)
    <2> DEFINE x == IF n \in BundleFiles(d) THEN RemoveCA(mirror[n]) ELSE mirror[n]
    <2>1. Stripped(d)[n] = RestoreMtime(original[n], x)
        BY <1>2 DEF Stripped
    <2>2. x \in Entry \cup {None}
        BY <1>0, RemoveCAType
    <2>3. Strip(n \in BundleFiles(d), mirror[n]) = Shape(x)
        BY DEF Strip
    <2> HIDE DEF x
    <2>4. Shape(RestoreMtime(original[n], x)) = Shape(x)
        BY <1>0, <2>2, SameRestored
    <2> QED BY <2>1, <2>3, <2>4
<1> QED BY <1>1, <1>2

LEMMA LayerIs == NamedExist /\ AllInv => LayerFacts
<1> SUFFICES ASSUME NamedExist, AllInv PROVE LayerFacts
    OBVIOUS
<1> USE DEF AllInv
<1>1. Doomed => LayerOf = [n \in Nodes |-> None]
    BY DEF LayerOf
<1>2. LayerOf = [n \in Nodes |-> LayerOf[n]]
    BY DEF LayerOf
<1>3. ASSUME ~Doomed PROVE LayerOf[OwnFile] = Shape(image[OwnFile])
    <2>1. CASE pc \in {"exited", "committed"}
        <3>1. Live = {} /\ rootfs[OwnFile] = image[OwnFile]
            BY <2>1 DEF Live, EndInv, CleanInv
        <3> QED BY <1>3, <2>1, <3>1, PathFacts DEF LayerOf
    <2>2. CASE pc \notin {"exited", "committed"}
        BY <1>3, <2>2, PathFacts DEF LayerOf
    <2> QED BY <2>1, <2>2
<1>4. ASSUME ~Doomed, NEW n \in Nodes \ {OwnFile}, NEW d \in Live, saved, Covers(d, n)
      PROVE  LayerOf[n] = Strip(n \in BundleFiles(d), mirror[n])
    <2>0. Live \subseteq binds /\ binds \subseteq Dirs
        BY LiveBinds DEF TypeOK
    <2>1. \A e \in Live : Covers(e, n) => e = d
        BY <1>4, <2>0, PathFacts DEF MirrorInv
    <2>2. (CHOOSE e \in Live : Covers(e, n)) = d
        BY <1>4, <2>1
    <2>3. LayerOf[n] = IF original[n] = None /\ mirror[n] = baseline[n] THEN None ELSE Shape(Stripped(d)[n])
        BY <1>4, <2>2 DEF LayerOf
    <2>4. CASE original[n] = None /\ mirror[n] = baseline[n]
        <3>1. n \notin BundleFiles(d) /\ mirror[n] = None
            BY <1>4, <2>0, <2>4 DEF MirrorInv, Marked
        <3> QED BY <2>3, <2>4, <3>1 DEF Strip, Shape
    <2>5. CASE ~(original[n] = None /\ mirror[n] = baseline[n])
        <3>1. Shape(Stripped(d)[n]) = Strip(n \in BundleFiles(d), mirror[n])
            BY <1>4, <2>0, StrippedShape
        <3> QED BY <2>3, <2>5, <3>1
    <2> QED BY <2>4, <2>5
<1>5. ASSUME ~Doomed, NEW n \in Nodes \ {OwnFile}, ~(saved /\ \E d \in Live : Covers(d, n))
      PROVE  LayerOf[n] = Shape(rootfs[n])
    BY <1>5 DEF LayerOf
<1> QED BY <1>1, <1>2, <1>3, <1>4, <1>5 DEF LayerFacts

LEMMA NothingAfterCommit == ASSUME [Next]_vars, pc = "committed" PROVE UNCHANGED vars
<1>1. ~(RunWithoutInjection \/ ChooseTargets \/ SaveSpec \/ Spawn \/ RemoveOwnCA)
    BY DEF RunWithoutInjection, ChooseTargets, SaveSpec, Spawn, RemoveOwnCA
<1>2. \A d \in Dirs : ~(SkipDir(d) \/ BindDir(d) \/ FinishDir(d))
    BY DEF SkipDir, BindDir, FinishDir
<1>3. ~(Commit \/ Discard \/ StepOp \/ StepExits \/ Killed)
    BY DEF Commit, Discard, StepOp, StepExits, Killed
<1> QED BY <1>1, <1>2, <1>3 DEF Next, Wrapper, BuildKit

\* What a step that leaves mirrors and rootfs alone makes of the layer: nothing.
LEMMA KeepsLayer ==
    ASSUME LayerFacts, LayerFacts', ~Doomed, ~Doomed', UNCHANGED <<image, env, saved>>,
           \A n \in Nodes \ {OwnFile} : rootfs'[n] = rootfs[n],
           saved => Live' = Live /\ mirror' = mirror
    PROVE  LayerOf' = LayerOf
<1>1. \A d, n : Covers(d, n)' = Covers(d, n)
    BY DEF Covers, Inside
<1>2. \A d : BundleFiles(d)' = BundleFiles(d)
    BY Names
<1>3. ASSUME NEW n \in Nodes \ {OwnFile} PROVE LayerOf'[n] = LayerOf[n]
    <2>1. CASE saved /\ \E d \in Live : Covers(d, n)
        <3>1. PICK d \in Live : Covers(d, n)
            BY <2>1
        <3>2. LayerOf[n] = Strip(n \in BundleFiles(d), mirror[n])
            BY <2>1, <3>1 DEF LayerFacts
        <3>3. LayerOf'[n] = Strip(n \in BundleFiles(d), mirror'[n])
            BY <1>1, <1>2, <2>1, <3>1 DEF LayerFacts
        <3> QED BY <2>1, <3>2, <3>3
    <2>2. CASE ~(saved /\ \E d \in Live : Covers(d, n))
        BY <1>1, <2>2 DEF LayerFacts
    <2> QED BY <2>1, <2>2
<1>4. LayerOf'[OwnFile] = LayerOf[OwnFile]
    BY DEF LayerFacts
<1> QED BY <1>3, <1>4 DEF LayerFacts

\* A layer nobody will look at is given up once, and stays so.
LEMMA GetsDoomed ==
    ASSUME AllInv, LayerFacts, LayerFacts', [Next]_vars, Doomed'
    PROVE  [Layer!Next]_(Layer!layerVars)
<1>1. LayerOf' = [n \in Nodes |-> None]
    BY DEF LayerFacts
<1>2. Fate' = "discarded"
    BY DEF Fate
<1>3. CASE Doomed
    BY <1>1, <1>2, <1>3 DEF LayerFacts, Fate, Layer!layerVars
<1>4. CASE ~Doomed
    <2>1. pc # "committed"
        BY <1>4, NothingAfterCommit DEF Doomed, vars
    <2>2. Layer!Discard
        BY <1>1, <1>2, <1>4, <2>1 DEF Fate, Layer!Discard
    <2> QED BY <2>2 DEF Layer!Next
<1> QED BY <1>3, <1>4

LEMMA StaysDoomed == ASSUME AllInv, [Next]_vars, Doomed PROVE Doomed'
<1> USE DEF container, mirrors, setup, ending, history, Doomed
<1>0. TypeOK /\ EndInv
    BY DEF AllInv
<1>1. CASE RunWithoutInjection \/ ChooseTargets \/ SaveSpec \/ Spawn \/ StepOp \/ StepExits
    <2>1. pc \in Before \cup {"running"}
        BY <1>1 DEF RunWithoutInjection, ChooseTargets, SaveSpec, Spawn, StepOp, StepExits, Before
    <2> QED BY <1>0, <2>1 DEF EndInv, Before
<1>2. ASSUME NEW d \in Dirs, SkipDir(d) \/ BindDir(d) \/ FinishDir(d) PROVE Doomed'
    BY <1>2 DEF SkipDir, BindDir, FinishDir
<1>3. CASE RemoveOwnCA
    BY <1>0, <1>3 DEF RemoveOwnCA, TypeOK
<1>4. CASE Killed \/ Discard
    BY <1>4 DEF Killed, Discard
<1>5. CASE Commit
    BY <1>0, <1>5 DEF Commit, EndInv
<1>6. CASE UNCHANGED vars
    BY <1>6 DEF vars
<1> QED BY <1>1, <1>2, <1>3, <1>4, <1>5, <1>6 DEF Next, Wrapper, BuildKit

\* Where the step's write ends up in the layer.
LEMMA PutLayer ==
    ASSUME AllInv, LayerFacts, LayerFacts', ~Doomed, ~Doomed', pc = "running",
           UNCHANGED <<image, env, pc, binds, saved>>,
           NEW n \in Nodes \ {OwnFile}, NEW e \in Entry \cup {None}, Put(n, e)
    PROVE  \E strip \in BOOLEAN :
              /\ LayerOf[n] = Strip(strip, View(n)) /\ LayerOf' = [LayerOf EXCEPT ![n] = Strip(strip, e)]
              /\ View(n) # None => View(n).blocks = 0 \/ (strip /\ View(n).blocks = 1)
<1>1. (\A d, m : Covers(d, m)' = Covers(d, m)) /\ Live = binds /\ Live' = binds
    BY DEF Covers, Inside, Live
<1>2. \A d : BundleFiles(d)' = BundleFiles(d)
    BY Names
<1>3. rootfs \in [Nodes -> Entry \cup {None}] /\ mirror \in [Nodes -> Entry \cup {None}]
    BY DEF AllInv, TypeOK, FileSystem
<1>4. ASSUME NEW m \in Nodes, m # n PROVE LayerOf'[m] = LayerOf[m]
    <2>1. rootfs'[m] = rootfs[m] /\ mirror'[m] = mirror[m]
        BY <1>3, <1>4 DEF Put
    <2>2. CASE m = OwnFile
        BY <2>2 DEF LayerFacts
    <2>3. CASE m # OwnFile /\ saved /\ \E d \in Live : Covers(d, m)
        <3>1. PICK d \in Live : Covers(d, m)
            BY <2>3
        <3>2. LayerOf[m] = Strip(m \in BundleFiles(d), mirror[m])
            BY <2>3, <3>1 DEF LayerFacts
        <3>3. LayerOf'[m] = Strip(m \in BundleFiles(d), mirror'[m])
            BY <1>1, <1>2, <2>3, <3>1 DEF LayerFacts
        <3> QED BY <2>1, <3>2, <3>3
    <2>4. CASE m # OwnFile /\ ~(saved /\ \E d \in Live : Covers(d, m))
        BY <1>1, <2>1, <2>4 DEF LayerFacts
    <2> QED BY <2>2, <2>3, <2>4
<1>5. ASSUME NEW x PROVE LayerOf'[n] = x => LayerOf' = [LayerOf EXCEPT ![n] = x]
    BY <1>4 DEF LayerFacts
<1>6. CASE Mirrored(n)
    <2>1. PICK d \in binds : Covers(d, n)
        BY <1>6 DEF Mirrored
    <2> DEFINE strip == n \in BundleFiles(d)
    <2>2. saved /\ View(n) = mirror[n] /\ mirror'[n] = e
        BY <1>3, <1>6 DEF Mirrored, View, Put
    <2>3. LayerOf[n] = Strip(strip, View(n))
        BY <1>1, <2>1, <2>2 DEF LayerFacts
    <2>4. LayerOf'[n] = Strip(strip, mirror'[n])
        BY <1>1, <1>2, <2>1, <2>2 DEF LayerFacts
    <2>5. View(n) # None => View(n).blocks = 0 \/ (strip /\ View(n).blocks = 1)
        BY <2>1, <2>2 DEF AllInv, CleanInv
    <2>6. strip \in BOOLEAN
        OBVIOUS
    <2> HIDE DEF strip
    <2>7. LayerOf' = [LayerOf EXCEPT ![n] = Strip(strip, e)]
        BY <1>5, <2>2, <2>4
    <2> QED BY <2>3, <2>5, <2>6, <2>7
<1>7. CASE ~Mirrored(n)
    <2>1. View(n) = rootfs[n] /\ rootfs'[n] = e /\ ~(saved /\ \E d \in Live : Covers(d, n))
        BY <1>1, <1>3, <1>7 DEF Mirrored, View, Put
    <2>2. LayerOf[n] = Shape(View(n)) /\ LayerOf'[n] = Shape(e)
        BY <1>1, <2>1 DEF LayerFacts
    <2>3. View(n) # None => View(n).blocks = 0
        BY <2>1 DEF AllInv, CleanInv
    <2>4. Strip(FALSE, View(n)) = Shape(View(n)) /\ Strip(FALSE, e) = Shape(e)
        BY DEF Strip
    <2>5. LayerOf' = [LayerOf EXCEPT ![n] = Strip(FALSE, e)]
        BY <1>5, <2>2, <2>4
    <2> QED BY <2>2, <2>3, <2>4, <2>5
<1> QED BY <1>6, <1>7

\* Each operation of the step is the same operation on its layer, or nothing to it.
LEMMA StepIsLayers ==
    ASSUME NothingLeaks, AllInv, LayerFacts, LayerFacts', ~Doomed, ~Doomed', StepOp
    PROVE  Layer!StepOp \/ UNCHANGED Layer!layerVars
<1> USE DEF Layer!layerVars
<1>0. /\ pc = "running" /\ UNCHANGED <<image, env, pc, binds, saved>> /\ TypeOK
      /\ StepFiles \subseteq Nodes \ {OwnFile} /\ ChmodNodes \subseteq Nodes \ {OwnFile}
    BY ConstantsOK DEF StepOp, AllInv, container, setup, Nodes
<1>1. Fate = "open" /\ Fate' = "open"
    BY <1>0 DEF Fate
<1>2. ASSUME NEW n \in Nodes \ {OwnFile}, NEW e \in Entry, Put(n, e),
             e.blocks = 0 \/ (View(n) # None /\ e.blocks = View(n).blocks)
      PROVE  /\ View(n) = None => LayerOf[n] = None
             /\ View(n) # None => LayerOf[n] = [text |-> View(n).text, blocks |-> 0, mode |-> View(n).mode]
             /\ View(n) # None => LayerOf[n] # None
             /\ LayerOf' = [LayerOf EXCEPT ![n] = [text |-> e.text, blocks |-> 0, mode |-> e.mode]]
    <2>1. PICK strip \in BOOLEAN :
              /\ LayerOf[n] = Strip(strip, View(n)) /\ LayerOf' = [LayerOf EXCEPT ![n] = Strip(strip, e)]
              /\ View(n) # None => View(n).blocks = 0 \/ (strip /\ View(n).blocks = 1)
        BY <1>0, <1>2, PutLayer
    <2>2. Strip(strip, e) = [text |-> e.text, blocks |-> 0, mode |-> e.mode]
        BY <1>2, <2>1, ShapeOf
    <2>3. View(n) # None => Strip(strip, View(n)) = [text |-> View(n).text, blocks |-> 0, mode |-> View(n).mode]
        BY <1>0, <2>1, ShapeOf, ViewType
    <2>4. \A x \in Texts, m \in Modes : [text |-> x, blocks |-> 0, mode |-> m] # None
        <3>1. \A x \in Texts, m \in Modes :
                  [text |-> x, blocks |-> 0, mode |-> m] \in [text : Texts, blocks : Nat, mode : Modes]
            OBVIOUS
        <3> QED BY <3>1, ConstantsOK
    <2>5. View(n) # None => View(n).text \in Texts /\ View(n).mode \in Modes
        BY <1>0, ViewType DEF Entry
    <2> QED BY <2>1, <2>2, <2>3, <2>4, <2>5, NoShape
<1>3. ASSUME NEW f \in StepFiles, "edit" \in Ops, EditFile(f) PROVE Layer!StepOp
    <2>1. PICK t \in Texts, m \in Modes, keep \in BOOLEAN :
              Put(f, [text |-> t, blocks |-> IF keep /\ View(f) # None THEN View(f).blocks ELSE 0,
                      mode |-> ModeOf(f, m), mtime |-> "later"])
        BY <1>3 DEF EditFile
    <2> DEFINE b == IF keep /\ View(f) # None THEN View(f).blocks ELSE 0
               e == [text |-> t, blocks |-> b, mode |-> ModeOf(f, m), mtime |-> "later"]
    <2>2. View(f) \in Entry \cup {None} /\ f \in Nodes \ {OwnFile}
        BY <1>0, ViewType
    <2>3. b \in Nat /\ (b = 0 \/ (View(f) # None /\ b = View(f).blocks)) /\ ModeOf(f, m) \in Modes
        BY <2>2 DEF ModeOf, Entry
    <2>4. Put(f, e)
        BY <2>1
    <2> HIDE DEF b
    <2>5. e \in Entry /\ e.text = t /\ e.mode = ModeOf(f, m) /\ e.blocks = b
        BY <2>3 DEF Entry
    <2> HIDE DEF e
    <2>6. /\ View(f) = None => LayerOf[f] = None
          /\ View(f) # None => LayerOf[f] = [text |-> View(f).text, blocks |-> 0, mode |-> View(f).mode]
          /\ View(f) # None => LayerOf[f] # None
          /\ LayerOf' = [LayerOf EXCEPT ![f] = [text |-> t, blocks |-> 0, mode |-> ModeOf(f, m)]]
        BY <1>2, <2>2, <2>3, <2>4, <2>5
    <2>7. ModeOf(f, m) = Layer!ModeOf(f, m)
        BY <2>6 DEF ModeOf, Layer!ModeOf
    <2>8. Layer!Edit(f)
      <3>1. f \in DOMAIN LayerOf
          BY ConstantsOK DEF LayerOf, Nodes
      <3>2. LayerOf'[f] = [text |-> t, blocks |-> 0, mode |-> ModeOf(f, m)]
          BY <2>6, <3>1
      <3>3. LayerOf'[f] \in [text : Texts, blocks : {0}, mode : {Layer!ModeOf(f, w) : w \in Modes}]
          BY <2>6, <2>7, <3>2
      <3>4. LayerOf' = [LayerOf EXCEPT ![f] = LayerOf'[f]]
          BY <2>6, <3>2
      <3> QED
          BY <3>3, <3>4 DEF Layer!Edit
    <2> QED BY <1>1, <1>3, <2>8 DEF Layer!StepOp
<1>4. ASSUME NEW f \in StepFiles, "delete" \in Ops, DeleteFile(f) PROVE Layer!StepOp
    <2>1. Put(f, None) /\ f \in Nodes \ {OwnFile}
        BY <1>0, <1>4 DEF DeleteFile
    <2>2. PICK strip \in BOOLEAN : LayerOf' = [LayerOf EXCEPT ![f] = Strip(strip, None)]
        BY <1>0, <2>1, PutLayer
    <2>3. Layer!Delete(f)
        BY <2>2, NoShape DEF Layer!Delete
    <2> QED BY <1>1, <1>4, <2>3 DEF Layer!StepOp
<1>5. ASSUME NEW f \in StepFiles, TouchFile(f) PROVE UNCHANGED LayerOf
    <2> DEFINE e == [View(f) EXCEPT !.mtime = "later"]
    <2>1. View(f) \in Entry /\ View(f) # None /\ f \in Nodes \ {OwnFile} /\ Put(f, e)
        BY <1>0, <1>5, ViewType DEF TouchFile
    <2>2. e \in Entry /\ e.text = View(f).text /\ e.blocks = View(f).blocks /\ e.mode = View(f).mode
        BY <2>1 DEF Entry
    <2> HIDE DEF e
    <2>3. /\ LayerOf[f] = [text |-> View(f).text, blocks |-> 0, mode |-> View(f).mode]
          /\ LayerOf' = [LayerOf EXCEPT ![f] = [text |-> e.text, blocks |-> 0, mode |-> e.mode]]
        BY <1>2, <2>1, <2>2
    <2> QED BY <2>1, <2>2, <2>3 DEF LayerFacts
<1>6. ASSUME NEW n \in ChmodNodes, Chmod(n) PROVE Layer!StepOp
    <2>1. PICK m \in Modes : Put(n, [View(n) EXCEPT !.mode = m])
        BY <1>6 DEF Chmod
    <2> DEFINE e == [View(n) EXCEPT !.mode = m]
    <2>2. View(n) \in Entry /\ View(n) # None /\ n \in Nodes \ {OwnFile} /\ Put(n, e)
        BY <1>0, <1>6, <2>1, ViewType DEF Chmod
    <2>3. e \in Entry /\ e.text = View(n).text /\ e.blocks = View(n).blocks /\ e.mode = m
        BY <2>2 DEF Entry
    <2> HIDE DEF e
    <2>4. /\ LayerOf[n] = [text |-> View(n).text, blocks |-> 0, mode |-> View(n).mode] /\ LayerOf[n] # None
          /\ LayerOf' = [LayerOf EXCEPT ![n] = [text |-> View(n).text, blocks |-> 0, mode |-> m]]
        BY <1>2, <2>2, <2>3
    <2>5. LayerOf' = [LayerOf EXCEPT ![n].mode = m]
        <3>1. [LayerOf[n] EXCEPT !.mode = m] = [text |-> View(n).text, blocks |-> 0, mode |-> m]
            BY <2>4
        <3> QED BY <2>4, <3>1
    <2>6. Layer!Chmod(n)
        BY <2>4, <2>5 DEF Layer!Chmod
    <2> QED BY <1>1, <2>6 DEF Layer!StepOp
<1> QED BY <1>1, <1>3, <1>4, <1>5, <1>6 DEF StepOp, NothingLeaks

\* A stripped bundle the step did not write to is the original again.
LEMMA MarkedIs ==
    ASSUME NamedExist, AllInv, NEW d \in binds, NEW n \in Nodes \ {OwnFile}, Covers(d, n),
           rootfs[n] = original[n], Shape(mirror[n]) = Shape(baseline[n])
    PROVE  Strip(n \in BundleFiles(d), mirror[n]) = Shape(rootfs[n])
<1>1. mirror[n] \in Entry \cup {None} /\ original[n] \in Entry \cup {None} /\ rootfs[n] \in Entry \cup {None}
    BY DEF AllInv, TypeOK, FileSystem
<1>2. baseline[n] = Marked(d, n) /\ (n \in BundleFiles(d) => original[n] # None)
    BY DEF AllInv, MirrorInv
<1>3. original[n] # None => original[n].blocks = 0
    BY DEF AllInv, CleanInv
<1>4. CASE n \in BundleFiles(d)
    <2> DEFINE a == AppendCA(original[n])
    <2>1. original[n] \in Entry /\ a = [original[n] EXCEPT !.blocks = @ + 1, !.mtime = "later"]
        BY <1>1, <1>2, <1>4 DEF AppendCA
    <2>2. a \in Entry /\ a.blocks = 1
        BY <1>1, <1>2, <1>3, <1>4, AppendCAType
    <2>3. a.text = original[n].text /\ a.mode = original[n].mode
        BY <2>1 DEF Entry
    <2>4. baseline[n] = a
        BY <1>2, <1>4 DEF Marked
    <2> HIDE DEF a
    <2>5. Strip(TRUE, mirror[n]) = Strip(TRUE, a)
        BY <1>1, <2>2, <2>4, SameShape
    <2>6. Strip(TRUE, a) = [text |-> original[n].text, blocks |-> 0, mode |-> original[n].mode]
        BY <2>2, <2>3, ShapeOf
    <2>7. Shape(rootfs[n]) = [text |-> original[n].text, blocks |-> 0, mode |-> original[n].mode]
        BY <1>2, <1>3, <1>4, <2>1, ShapeIs
    <2>8. Strip(n \in BundleFiles(d), mirror[n]) = Strip(TRUE, mirror[n])
        BY <1>4 DEF Strip
    <2> QED BY <2>5, <2>6, <2>7, <2>8
<1>5. CASE n \notin BundleFiles(d)
    BY <1>2, <1>5 DEF Strip, Marked
<1> QED BY <1>4, <1>5

\* The mounts of the spec take the place of the directories they cover.
LEMMA SaveKeepsLayer ==
    ASSUME NamedExist, AllInv, LayerFacts, LayerFacts', ~Doomed, ~Doomed', SaveSpec
    PROVE  LayerOf' = LayerOf
<1>1. /\ UNCHANGED <<image, env, rootfs, mirror, original, baseline, binds>> /\ ~saved /\ pc = "bind"
      /\ Live = binds /\ Live' = binds
    BY DEF SaveSpec, container, mirrors, AllInv, EndInv, Live
<1>2. (\A d, n : Covers(d, n)' = Covers(d, n)) /\ \A d : BundleFiles(d)' = BundleFiles(d)
    BY <1>1, Names DEF Covers, Inside
<1>3. ASSUME NEW n \in Nodes \ {OwnFile} PROVE LayerOf'[n] = LayerOf[n]
    <2>1. LayerOf[n] = Shape(rootfs[n])
        BY <1>1 DEF LayerFacts
    <2>2. CASE saved' /\ \E d \in binds : Covers(d, n)
        <3>1. PICK d \in binds : Covers(d, n)
            BY <2>2
        <3>2. LayerOf'[n] = Strip(n \in BundleFiles(d), mirror[n])
            BY <1>1, <1>2, <2>2, <3>1 DEF LayerFacts
        <3>3. mirror[n] = baseline[n] /\ rootfs[n] = original[n]
            BY <1>1, <3>1 DEF AllInv, MirrorInv
        <3> QED BY <2>1, <3>1, <3>2, <3>3, MarkedIs
    <2>3. CASE ~(saved' /\ \E d \in binds : Covers(d, n))
        BY <1>1, <1>2, <2>1, <2>3 DEF LayerFacts
    <2> QED BY <2>2, <2>3
<1>4. LayerOf'[OwnFile] = LayerOf[OwnFile]
    BY <1>1 DEF LayerFacts
<1> QED BY <1>3, <1>4 DEF LayerFacts

\* A directory is written back, or need not be: the layer is what it was.
LEMMA FinishKeepsLayer ==
    ASSUME NamedExist, RootsKept, AllInv, LayerFacts, LayerFacts', ~Doomed, ~Doomed',
           NEW d \in Dirs, FinishDir(d)
    PROVE  LayerOf' = LayerOf
<1>1. /\ UNCHANGED <<image, env, mirror, original, baseline, binds, saved>> /\ pc = "finish"
      /\ Live = unfinished /\ Live' = unfinished \ {d} /\ d \in unfinished
      /\ unfinished \subseteq binds /\ binds \subseteq Dirs
    BY DEF FinishDir, container, mirrors, setup, Live, AllInv, TypeOK
<1>2. (\A e, n : Covers(e, n)' = Covers(e, n)) /\ \A e : BundleFiles(e)' = BundleFiles(e)
    BY <1>1, Names DEF Covers, Inside
<1>3. \/ ManifestsEqual(d) /\ UNCHANGED rootfs
      \/ ~ManifestsEqual(d) /\ WriteBack(d, {n \in Nodes : Covers(d, n)})
    BY <1>1 DEF FinishDir, Doomed
<1>4. ASSUME ~saved PROVE UNCHANGED rootfs
    <2>1. \A n \in Inside(d) : n \in Nodes /\ Covers(d, n)
        BY DEF Inside, Covers
    <2>2. ManifestsEqual(d)
        BY <1>1, <1>4, <2>1 DEF AllInv, MirrorInv, ManifestsEqual
    <2> QED BY <1>3, <2>2
<1>5. ASSUME NEW n \in Nodes \ {OwnFile} PROVE LayerOf'[n] = LayerOf[n]
    <2>1. CASE ~saved
        BY <1>1, <1>4, <2>1 DEF LayerFacts
    <2>2. CASE saved /\ Covers(d, n)
        <3>1. \A e \in Live' : ~Covers(e, n)
            BY <1>1, <2>2, PathFacts DEF AllInv, MirrorInv
        <3>2. LayerOf[n] = Strip(n \in BundleFiles(d), mirror[n]) /\ LayerOf'[n] = Shape(rootfs'[n])
            BY <1>1, <1>2, <2>2, <3>1 DEF LayerFacts
        <3>3. CASE ManifestsEqual(d) /\ UNCHANGED rootfs
            <4>1. rootfs[n] = original[n]
                BY <1>1, <2>2 DEF AllInv, MirrorInv
            <4>2. Shape(mirror[n]) = Shape(baseline[n])
                <5>1. CASE n = d
                    <6>1. mirror[n] = original[n] /\ baseline[n] = Marked(d, n) /\ n \notin BundleFiles(d)
                        BY <1>1, <2>2, <5>1, PathFacts, ContainerFacts DEF AllInv, MirrorInv
                    <6> QED BY <6>1 DEF Marked
                <5>2. CASE n # d
                    BY <2>2, <3>3, <5>2 DEF Covers, ManifestsEqual
                <5> QED BY <5>1, <5>2
            <4> QED BY <1>1, <2>2, <3>2, <3>3, <4>1, <4>2, MarkedIs
        <3>4. CASE WriteBack(d, {m \in Nodes : Covers(d, m)})
            <4>1. rootfs'[n] = Stripped(d)[n]
                BY <2>2, <3>4 DEF WriteBack
            <4>2. Shape(Stripped(d)[n]) = Strip(n \in BundleFiles(d), mirror[n])
                BY <1>1, <2>2, StrippedShape DEF AllInv
            <4> QED BY <3>2, <4>1, <4>2
        <3> QED BY <1>3, <3>3, <3>4
    <2>3. CASE saved /\ ~Covers(d, n)
        <3>1. rootfs'[n] = rootfs[n]
            BY <1>3, <2>3 DEF WriteBack
        <3>2. CASE \E e \in Live : Covers(e, n)
            <4>1. PICK e \in Live : Covers(e, n)
                BY <3>2
            <4>2. e \in Live'
                BY <1>1, <2>3, <4>1
            <4>3. LayerOf[n] = Strip(n \in BundleFiles(e), mirror[n])
                BY <2>3, <4>1 DEF LayerFacts
            <4>4. LayerOf'[n] = Strip(n \in BundleFiles(e), mirror[n])
                BY <1>1, <1>2, <2>3, <4>1, <4>2 DEF LayerFacts
            <4> QED BY <4>3, <4>4
        <3>3. CASE ~\E e \in Live : Covers(e, n)
            BY <1>1, <1>2, <3>1, <3>3 DEF LayerFacts
        <3> QED BY <3>2, <3>3
    <2> QED BY <2>1, <2>2, <2>3
<1>6. LayerOf'[OwnFile] = LayerOf[OwnFile]
    BY <1>1 DEF LayerFacts
<1> QED BY <1>5, <1>6 DEF LayerFacts

LEMMA LayerStarts == NamedExist /\ AllInv /\ Init => Layer!Init
<1> SUFFICES ASSUME NamedExist, AllInv, Init PROVE Layer!Init
    OBVIOUS
<1>1. pc = "start" /\ ~saved /\ rootfs = image /\ ~Doomed
    BY DEF Init, Doomed
<1>2. LayerFacts
    BY LayerIs
<1>3. ASSUME NEW n \in Nodes PROVE LayerOf[n] \in Layer!Plain \cup {None}
    <2>1. LayerOf[n] = Shape(image[n])
        BY <1>1, <1>2 DEF LayerFacts
    <2>2. image[n] \in Entry \cup {None} /\ (image[n] # None => image[n].blocks = 0)
        BY ContainerFacts DEF AllInv, FileSystem
    <2>3. CASE image[n] = None
        BY <2>1, <2>3 DEF Shape
    <2>4. CASE image[n] # None
        <3>1. Shape(image[n]) = [text |-> image[n].text, blocks |-> 0, mode |-> image[n].mode]
            BY <2>2, <2>4, ShapeIs
        <3>2. image[n].text \in Texts /\ image[n].mode \in Modes
            BY <2>2, <2>4 DEF Entry
        <3> QED BY <2>1, <3>1, <3>2 DEF Layer!Plain
    <2> QED BY <2>3, <2>4
<1>4. LayerOf \in [Nodes -> Layer!Plain \cup {None}]
    BY <1>2, <1>3 DEF LayerFacts
<1>5. Fate = "open"
    BY <1>1 DEF Fate
<1> QED BY <1>4, <1>5 DEF Layer!Init

LEMMA LayerSteps ==
    ASSUME NothingLeaks, NamedExist, RootsKept, AllInv, LayerFacts, LayerFacts', [Next]_vars
    PROVE  [Layer!Next]_(Layer!layerVars)
<1>1. CASE Doomed'
    BY <1>1, GetsDoomed
<1>2. CASE ~Doomed'
    <2> USE DEF container, mirrors, setup, ending, history
    <2>0. ~Doomed
        BY <1>2, StaysDoomed
    <2>1. ASSUME LayerOf' = LayerOf, pc # "committed", pc' # "committed" PROVE UNCHANGED Layer!layerVars
        BY <1>2, <2>0, <2>1 DEF Fate, Layer!layerVars
    <2>2. CASE RunWithoutInjection \/ ChooseTargets \/ Spawn \/ StepExits
        <3>1. /\ UNCHANGED <<image, env, saved, mirror>> /\ Live' = Live /\ pc # "committed" /\ pc' # "committed"
            BY <1>2, <2>2 DEF RunWithoutInjection, ChooseTargets, Spawn, StepExits, Live, AllInv, EndInv, MirrorInv
        <3>2. \A n \in Nodes \ {OwnFile} : rootfs'[n] = rootfs[n]
            BY <2>2 DEF RunWithoutInjection, ChooseTargets, Spawn, StepExits, AllInv, TypeOK, FileSystem
        <3> QED BY <1>2, <2>0, <2>1, <3>1, <3>2, KeepsLayer
    <2>3. CASE SaveSpec
        BY <1>2, <2>0, <2>1, <2>3, SaveKeepsLayer DEF SaveSpec
    <2>4. ASSUME NEW d \in Dirs, SkipDir(d) \/ BindDir(d) PROVE UNCHANGED Layer!layerVars
        <3>1. UNCHANGED <<image, env, saved, rootfs>> /\ ~saved /\ pc # "committed" /\ pc' # "committed"
            BY <2>4 DEF SkipDir, BindDir, AllInv, EndInv
        <3> QED BY <1>2, <2>0, <2>1, <3>1, KeepsLayer
    <2>5. CASE StepOp
        BY <1>2, <2>0, <2>5, StepIsLayers DEF Layer!Next
    <2>6. ASSUME NEW d \in Dirs, FinishDir(d) PROVE UNCHANGED Layer!layerVars
        BY <1>2, <2>0, <2>1, <2>6, FinishKeepsLayer DEF FinishDir
    <2>7. CASE RemoveOwnCA
        <3>1. UNCHANGED <<image, env, saved, mirror>> /\ Live' = Live /\ pc # "committed" /\ pc' # "committed"
            BY <2>7 DEF RemoveOwnCA, Live
        <3>2. \A n \in Nodes \ {OwnFile} : rootfs'[n] = rootfs[n]
            BY <2>7 DEF RemoveOwnCA, AllInv, TypeOK, FileSystem
        <3> QED BY <1>2, <2>0, <2>1, <3>1, <3>2, KeepsLayer
    <2>8. ~Killed /\ ~Discard
        BY <1>2 DEF Killed, Discard, Doomed
    <2>9. CASE Commit
        <3>1. UNCHANGED <<image, env, saved, mirror, rootfs>> /\ Live' = Live
            BY <2>9 DEF Commit, Live
        <3>2. LayerOf' = LayerOf
            BY <1>2, <2>0, <3>1, KeepsLayer
        <3>3. Fate = "open" /\ Fate' = "committed"
            BY <1>2, <2>0, <2>9 DEF Fate, Commit
        <3> QED BY <3>2, <3>3 DEF Layer!Commit, Layer!Next
    <2>10. CASE UNCHANGED vars
        <3>1. UNCHANGED <<image, env, saved, mirror, rootfs, pc>> /\ Live' = Live
            BY <2>10 DEF vars, Live
        <3>2. LayerOf' = LayerOf
            BY <1>2, <2>0, <3>1, KeepsLayer
        <3> QED BY <1>2, <2>0, <3>1, <3>2 DEF Fate, Layer!layerVars
    <2> QED BY <2>2, <2>3, <2>4, <2>5, <2>6, <2>7, <2>8, <2>9, <2>10 DEF Next, Wrapper, BuildKit
<1> QED BY <1>1, <1>2

LEMMA AllHolds == ASSUME NothingLeaks PROVE Spec => []AllInv
<1>1. Init => EndInv /\ MirrorInv
    BY InitLayer
<1>2. TypeOK /\ EndInv /\ [Next]_vars => EndInv'
    BY NextEnd
<1>3. TypeOK /\ TraceInv /\ PlaceInv /\ EndInv /\ MirrorInv /\ [Next]_vars => MirrorInv'
    BY NextMirror
<1>4. TypeOK /\ CleanInv /\ TraceInv /\ PlaceInv /\ EndInv /\ MirrorInv => AllInv
    BY DEF AllInv
<1> QED BY <1>1, <1>2, <1>3, <1>4, TypeCorrect, MirrorsHoldTheBlocks, TraceHolds, PlaceHolds, PTL DEF Spec

\* The wrapper keeps StepLayer's promise: what is committed is the image with
\* the step's own operations applied, however the mirrors were laid out, which
\* bundles the step rewrote or deleted, and whatever of the wrapper failed.
THEOREM LayerKept == ASSUME NothingLeaks, NamedExist, RootsKept PROVE Spec => LayerIsStepsOwn
<1>1. AllInv => LayerFacts
    BY LayerIs
<1>2. AllInv /\ Init => Layer!Init
    BY LayerStarts
<1>3. AllInv /\ LayerFacts /\ LayerFacts' /\ [Next]_vars => [Layer!Next]_(Layer!layerVars)
    BY LayerSteps
<1> QED BY <1>1, <1>2, <1>3, AllHolds, PTL DEF LayerIsStepsOwn, Layer!Spec, Spec

================================================================================
