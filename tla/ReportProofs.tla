------------------------------ MODULE ReportProofs ------------------------------
(***************************************************************************)
(* Proofs about Report: for any hosts, ports and rules, logs of any length *)
(* and rotated at any moment, and restarts of the container.               *)
(***************************************************************************)
EXTENDS Report, SequenceTheorems, TLAPS

StepType ==
    [pc : {"finding", "copying", "script", "exited", "done"}, exit : {0, 1}, failed : BOOLEAN,
     traffic : BOOLEAN, artifact : BOOLEAN]

Ended == \A log \in LogsOf(conf.engine) : reader[log].pc = "ended"

\* What is uploaded was written when both logs had been read to their end; a
\* step that failed on the way is one with a reader that did, until the script
\* has ended for it; and a script that passed judged what was read.
StepInv ==
    /\ conf \in Configurations /\ step \in StepType
    /\ DOMAIN reader = Logs /\ \A log \in Logs : "pc" \in DOMAIN reader[log]
    /\ step.traffic => step.pc \in {"exited", "done"} /\ conf.engine = "inspect" /\ Ended
    /\ step.artifact => step.traffic
    /\ step.pc \in {"finding", "copying"} => ~step.failed
    /\ step.pc = "script" /\ step.failed => \E log \in LogsOf(conf.engine) : reader[log].pc = "failed"
    /\ step.pc \in {"exited", "done"} /\ step.exit = 0 => ~step.failed /\ Ended /\ ~ShouldFail

LEMMA InitHolds == Init => StepInv
BY DEF Init, StepInv, StepType, Unread, Ended, Logs

\* What looks at the readers, the inputs and the step only stays as it is when
\* the container does something.
LEMMA ContainerHolds == StepInv /\ Container => StepInv'
<1> SUFFICES ASSUME StepInv, Container PROVE StepInv'
    OBVIOUS
<1>1. UNCHANGED <<conf, reader, step>>
    BY DEF Container, Start, Stop, Restart, LookUp, Request, Rotate, Reopen
<1>2. ShouldFail' = ShouldFail
    BY <1>1 DEF ShouldFail, Enforcing, BlockedRows, Unexpected, LogLooksPlausible, Requests, BlockedNames, RedundantBlockedDns
<1> QED BY <1>1, <1>2 DEF StepInv, Ended

\* A reader that did not fail moves on while the script runs.
LEMMA ReaderHolds ==
    ASSUME StepInv, NEW log \in Logs, NEW r, step.pc = "script", reader[log].pc # "failed",
           reader' = [reader EXCEPT ![log] = r], "pc" \in DOMAIN r,
           UNCHANGED conf, step' = step \/ (r.pc = "failed" /\ log \in LogsOf(conf.engine) /\ step' = [step EXCEPT !.failed = TRUE])
    PROVE  StepInv'
<1>1. DOMAIN reader' = Logs /\ \A l \in Logs : "pc" \in DOMAIN reader'[l]
    BY DEF StepInv
<1>2. step' \in StepType /\ step'.pc = "script" /\ ~step'.traffic /\ ~step'.artifact
    BY DEF StepInv, StepType
<1>3. ASSUME step'.failed PROVE \E l \in LogsOf(conf.engine) : reader'[l].pc = "failed"
    <2>1. CASE step' = step
        <3>1. PICK l \in LogsOf(conf.engine) : reader[l].pc = "failed"
            BY <1>3, <2>1 DEF StepInv
        <3>2. l # log /\ l \in Logs
            BY <3>1 DEF LogsOf, Logs
        <3> QED BY <3>1, <3>2 DEF StepInv
    <2>2. CASE r.pc = "failed" /\ log \in LogsOf(conf.engine)
        BY <2>2 DEF StepInv
    <2> QED BY <2>1, <2>2
<1> QED BY <1>1, <1>2, <1>3 DEF StepInv

LEMMA ReadingHolds == ASSUME NEW log \in Logs PROVE StepInv /\ (List(log) \/ Cat(log) \/ Break(log)) => StepInv'
<1> SUFFICES ASSUME StepInv, List(log) \/ Cat(log) \/ Break(log) PROVE StepInv'
    OBVIOUS
<1>1. "pc" \in DOMAIN reader[log] /\ "pc" \in DOMAIN Printed(log, 0)
    BY DEF StepInv, Printed
<1>2. CASE List(log)
    <2>1. PICK r : reader' = [reader EXCEPT ![log] = r] /\ "pc" \in DOMAIN r
        <3>1. CASE conf.engine = "explicit"
            <4> DEFINE r == [reader[log] EXCEPT !.pc = "reading", !.todo = <<0>>]
            <4>1. "pc" \in DOMAIN r
                BY <1>1
            <4>2. reader' = [reader EXCEPT ![log] = r]
                BY <1>2, <3>1 DEF List
            <4> QED BY <4>1, <4>2
        <3>2. CASE conf.engine # "explicit" /\ container.up
            <4> DEFINE r == [reader[log] EXCEPT
                               !.pc = IF ParseLogSegments(log) = <<>> THEN "ended" ELSE "reading",
                               !.todo = ParseLogSegments(log), !.last = current[log],
                               !.listed = UNION {Numbers(files[log][f]) : f \in Listing(log)}]
            <4>1. "pc" \in DOMAIN r
                BY <1>1
            <4>2. reader' = [reader EXCEPT ![log] = r]
                BY <1>2, <3>2 DEF List
            <4> QED BY <4>1, <4>2
        <3>3. CASE conf.engine # "explicit" /\ ~container.up
            <4> DEFINE r == [reader[log] EXCEPT !.pc = "failed"]
            <4>1. "pc" \in DOMAIN r
                BY <1>1
            <4>2. reader' = [reader EXCEPT ![log] = r]
                BY <1>2, <3>3 DEF List
            <4> QED BY <4>1, <4>2
        <3> QED BY <3>1, <3>2, <3>3
    <2> QED BY <1>2, <2>1, ReaderHolds DEF List, Reading
<1>3. CASE Cat(log)
    <2>1. PICK r : reader' = [reader EXCEPT ![log] = r] /\ "pc" \in DOMAIN r
        <3>1. CASE container.up /\ NextFile(log) # 0
            <4>1. "pc" \in DOMAIN Printed(log, Len(files[log][NextFile(log)]))
                BY <1>1 DEF Printed
            <4> QED BY <1>3, <3>1, <4>1 DEF Cat
        <3>2. CASE ~(container.up /\ NextFile(log) # 0)
            BY <1>1, <1>3, <3>2 DEF Cat
        <3> QED BY <3>1, <3>2
    <2> QED BY <1>3, <2>1, ReaderHolds DEF Cat, Reading
<1>4. CASE Break(log)
    <2>1. PICK n : reader' = [reader EXCEPT ![log] = [Printed(log, n) EXCEPT !.pc = "failed"]]
        BY <1>4 DEF Break
    <2> DEFINE r == [Printed(log, n) EXCEPT !.pc = "failed"]
    <2>2. "pc" \in DOMAIN r /\ r.pc = "failed"
        BY <1>1 DEF Printed
    <2> HIDE DEF r
    <2>3. reader' = [reader EXCEPT ![log] = r]
        BY <2>1 DEF r
    <2> QED BY <1>4, <2>2, <2>3, ReaderHolds DEF Break, Reading
<1> QED BY <1>2, <1>3, <1>4

\* The steps of main.ts that leave the readers as they are.
LEMMA StatusHolds ==
    ASSUME StepInv, UNCHANGED <<conf, reader>>, step' \in StepType,
           step'.traffic => step'.pc \in {"exited", "done"} /\ conf.engine = "inspect" /\ Ended,
           step'.artifact => step'.traffic,
           step'.pc \in {"finding", "copying", "script"} => ~step'.failed,
           step'.pc \in {"exited", "done"} /\ step'.exit = 0 => ~step'.failed /\ Ended /\ ~ShouldFail
    PROVE  StepInv'
<1>1. ShouldFail' = ShouldFail
    BY DEF ShouldFail, Enforcing, BlockedRows, Unexpected, LogLooksPlausible, Requests, BlockedNames, RedundantBlockedDns
<1> QED BY <1>1 DEF StepInv, Ended

LEMMA MainHolds ==
    StepInv /\ (FindContainer \/ CopyScript \/ DockerFails \/ ScriptFails \/ Judge \/ UploadTrafficArtifact) => StepInv'
<1> SUFFICES ASSUME StepInv,
                    FindContainer \/ CopyScript \/ DockerFails \/ ScriptFails \/ Judge \/ UploadTrafficArtifact
             PROVE  StepInv'
    OBVIOUS
<1>1. step \in StepType
    BY DEF StepInv
<1>2. CASE FindContainer
    <2>1. step.pc = "finding" /\ ~step.failed /\ ~step.traffic /\ ~step.artifact
        BY <1>2 DEF FindContainer, StepInv
    <2>2. CASE container.up
        BY <1>1, <1>2, <2>1, <2>2, StatusHolds DEF FindContainer, StepType
    <2>3. CASE ~container.up
        <3>1. step' \in StepType
            BY <1>1, <1>2, <2>3 DEF FindContainer, StepType
        <3>2. step'.pc = "done" /\ step'.exit = 1 /\ ~step'.traffic /\ ~step'.artifact
            BY <1>1, <1>2, <2>1, <2>3 DEF FindContainer, StepType
        <3> QED BY <1>2, <3>1, <3>2, StatusHolds DEF FindContainer
    <2> QED BY <2>2, <2>3
<1>3. CASE CopyScript
    BY <1>1, <1>3, StatusHolds DEF CopyScript, StepType, StepInv
<1>4. CASE DockerFails
    <2>1. step.pc \in {"finding", "copying", "script"} /\ ~step.traffic /\ ~step.artifact
        BY <1>4 DEF DockerFails, StepInv
    <2>2. CASE step.pc = "script"
        <3>1. step' \in StepType
            BY <1>1, <1>4, <2>2 DEF DockerFails, StepType
        <3>2. step'.pc = "exited" /\ step'.exit = 1 /\ ~step'.traffic /\ ~step'.artifact
            BY <1>1, <1>4, <2>1, <2>2 DEF DockerFails, StepType
        <3> QED BY <1>4, <3>1, <3>2, StatusHolds DEF DockerFails
    <2>3. CASE step.pc # "script"
        <3>1. step' \in StepType
            BY <1>1, <1>4, <2>3 DEF DockerFails, StepType
        <3>2. step'.pc = "done" /\ step'.exit = 1 /\ ~step'.traffic /\ ~step'.artifact
            BY <1>1, <1>4, <2>1, <2>3 DEF DockerFails, StepType
        <3> QED BY <1>4, <3>1, <3>2, StatusHolds DEF DockerFails
    <2> QED BY <2>2, <2>3
<1>5. CASE ScriptFails
    <2>1. step.pc = "script" /\ ~step.traffic /\ ~step.artifact
        BY <1>5 DEF ScriptFails, StepInv
    <2>2. step' \in StepType
        BY <1>1, <1>5 DEF ScriptFails, StepType
    <2>3. step'.pc = "exited" /\ step'.exit = 1 /\ ~step'.traffic /\ ~step'.artifact
        BY <1>1, <1>5, <2>1 DEF ScriptFails, StepType
    <2> QED BY <1>5, <2>2, <2>3, StatusHolds DEF ScriptFails
<1>6. CASE Judge
    <2>1. Ended /\ ~step.failed
        BY <1>6 DEF Judge, StepInv, Ended
    <2>2. WritesTraffic => conf.engine = "inspect"
        BY DEF WritesTraffic
    <2>3. ~step.artifact
        BY <1>6 DEF Judge, StepInv
    <2>4. conf.upload \in BOOLEAN => WritesTraffic \in BOOLEAN
        BY DEF WritesTraffic
    <2>5. conf.upload \in BOOLEAN
        BY ReportOK DEF StepInv
    <2>6. step' \in StepType
        BY <1>1, <1>6, <2>4, <2>5 DEF Judge, StepType
    <2>7. /\ step'.pc = "exited" /\ ~step'.failed /\ ~step'.artifact
          /\ step'.exit = 0 => ~ShouldFail
          /\ step'.traffic => conf.engine = "inspect"
        BY <1>1, <1>6, <2>1, <2>2, <2>3 DEF Judge, StepType
    <2> QED BY <1>6, <2>1, <2>6, <2>7, StatusHolds DEF Judge
<1>7. CASE UploadTrafficArtifact
    BY <1>1, <1>7, StatusHolds DEF UploadTrafficArtifact, StepType, StepInv
<1> QED BY <1>2, <1>3, <1>4, <1>5, <1>6, <1>7

LEMMA StepHolds == StepInv /\ [Next]_vars => StepInv'
<1> SUFFICES ASSUME StepInv, [Next]_vars PROVE StepInv'
    OBVIOUS
<1>1. CASE UNCHANGED vars
    <2>1. ShouldFail' = ShouldFail
        BY <1>1 DEF vars, ShouldFail, Enforcing, BlockedRows, Unexpected, LogLooksPlausible, Requests, BlockedNames, RedundantBlockedDns
    <2> QED BY <1>1, <2>1 DEF vars, StepInv, Ended
<1> QED BY <1>1, ContainerHolds, ReadingHolds, MainHolds DEF Next, ReportStep

LEMMA StepInvHolds == Spec => []StepInv
BY InitHolds, StepHolds, PTL DEF Spec

--------------------------------------------------------------------------------
(* The theorems.                                                            *)

\* The traffic artifact is of logs that were read to their end, whatever failed
\* (main-inspect-report.ts, main.ts).
THEOREM ArtifactsAreWhole == Spec => []ArtifactIsWhole
<1>1. StepInv => ArtifactIsWhole
    BY DEF StepInv, ArtifactIsWhole, Ended, LogsOf
<1> QED BY <1>1, StepInvHolds, PTL

\* A step that passes has read every log to its end, and in the logs a proxy
\* that started or a refusal that is known (report-outcome.ts).
THEOREM PassedOnEvidence == Spec => []SilenceIsNotQuiet
<1>1. StepInv => SilenceIsNotQuiet
    <2> SUFFICES ASSUME StepInv, Enforcing, conf.failOnBlocked, Passed
                 PROVE  /\ ~step.failed /\ Ended
                        /\ \E log \in Logs : \E l \in Range(reader[log].read) : l.kind = "start" \/ l.refused
        BY DEF SilenceIsNotQuiet, Ended
    <2>1. ~step.failed /\ Ended /\ ~ShouldFail
        BY DEF StepInv, Passed
    <2>2. CASE BlockedRows = {}
        BY <2>1, <2>2 DEF ShouldFail, LogLooksPlausible, Logs
    <2>3. CASE BlockedRows # {}
        <3>1. CASE \E r \in Requests : r.refused
            <4>1. PICK r \in Requests : r.refused
                BY <3>1
            <4>2. r \in Range(reader["proxy"].read) /\ "proxy" \in Logs
                BY DEF Requests, Logs
            <4>3. \E l \in Range(reader["proxy"].read) : l.kind = "start" \/ l.refused
                BY <4>1, <4>2
            <4> QED BY <2>1, <4>2, <4>3
        <3>2. CASE \E h \in BlockedNames : ~RedundantBlockedDns(h)
            <4>1. PICK h \in BlockedNames : TRUE
                BY <3>2
            <4>2. PICK l \in Range(reader["names"].read) :
                     l.host = h /\ h \notin {k.host : k \in {n \in Range(reader["names"].read) : ~n.refused}}
                BY <4>1 DEF BlockedNames
            <4>3. l.refused
                BY <4>2
            <4>4. "names" \in Logs
                BY DEF Logs
            <4>5. \E k \in Range(reader["names"].read) : k.kind = "start" \/ k.refused
                BY <4>2, <4>3
            <4> QED BY <2>1, <4>4, <4>5
        <3> QED BY <2>3, <3>1, <3>2 DEF BlockedRows
    <2> QED BY <2>1, <2>2, <2>3
<1> QED BY <1>1, StepInvHolds, PTL

--------------------------------------------------------------------------------
(* What is in the logs, and how far they are read. *)

Lines ==
    [number : Nat, kind : {"start", "request", "name"}, host : Hosts \cup {None}, port : Nat, refused : BOOLEAN]

\* A line is of its log, and a name is refused in all of its lines or in none.
LineOf(log, l) ==
    IF log = "proxy" THEN l.kind = "request" \/ (l.kind = "start" /\ ~l.refused)
    ELSE l.kind = "name" /\ l.port = 0 /\ (l.refused <=> Enforcing /\ \A p \in Ports : <<l.host, p>> \notin Allowed)

\* The lines of the files fs, one file after the other, are in the order they
\* were written in.
InOrder(fs) ==
    \A f, g \in DOMAIN fs : \A i \in DOMAIN fs[f], j \in DOMAIN fs[g] :
        f < g \/ (f = g /\ i < j) => fs[f][i].number < fs[g][j].number

\* The files of a log, n lines in all: archived are the numbers arch, older
\* than the file cur, which is the last of them or not there.
FilesOK(log, fs, n, arch, cur) ==
    /\ fs \in Seq(Seq(Lines)) /\ n \in Nat /\ arch \in Seq(Nat) /\ cur \in Nat
    /\ cur # 0 => cur = Len(fs)
    /\ \A f \in DOMAIN fs : \A i \in DOMAIN fs[f] : fs[f][i].number <= n /\ LineOf(log, fs[f][i])
    /\ InOrder(fs)
    /\ \A i \in DOMAIN arch : arch[i] \in DOMAIN fs /\ (cur # 0 => arch[i] < cur)
    /\ \A i, j \in DOMAIN arch : i < j => arch[i] < arch[j]

Readers ==
    [pc : {"idle", "reading", "ended", "failed"}, todo : Seq(Nat), last : Nat, read : Seq(Lines),
     listed : SUBSET Nat, opened : SUBSET Nat]

\* What r has read are lines of the files it opened, in order; what it has to do
\* are files older than the ones after them, and younger than all it opened,
\* current the last of them; and what was listed is read, or to be read, or was
\* in the current file, and that file is not among the ones opened.
ReaderOK(r, fs, cur) ==
    /\ r \in Readers
    /\ r.opened \subseteq DOMAIN fs
    /\ \A i \in DOMAIN r.read : \E f \in r.opened : r.read[i] \in Range(fs[f])
    /\ \A i, j \in DOMAIN r.read : i < j => r.read[i].number < r.read[j].number
    /\ \A k \in DOMAIN r.todo : r.todo[k] # 0 =>
          r.todo[k] \in DOMAIN fs /\ (\A f \in r.opened : f < r.todo[k]) /\ (\A j \in 1..(k - 1) : r.todo[j] < r.todo[k])
    /\ \A k \in DOMAIN r.todo : r.todo[k] = 0 =>
          k = Len(r.todo) /\ (cur # 0 => (\A f \in r.opened : f < cur) /\ (\A j \in 1..(k - 1) : r.todo[j] < cur))
    /\ r.last # 0 => r.last \in DOMAIN fs
    /\ r.pc = "idle" => r = Unread
    /\ r.pc = "reading" => r.todo # <<>>
    /\ r.pc = "ended" => r.todo = <<>>
    /\ r.pc \in {"reading", "ended"} => \A n \in r.listed :
          \/ n \in Numbers(r.read)
          \/ \E k \in DOMAIN r.todo : r.todo[k] # 0 /\ n \in Numbers(fs[r.todo[k]])
          \/ r.last # 0 /\ r.last \notin r.opened /\ n \in Numbers(fs[r.last])

LogsInv ==
    /\ conf \in Configurations
    /\ files \in [Logs -> Seq(Seq(Lines))] /\ count \in [Logs -> Nat]
    /\ archived \in [Logs -> Seq(Nat)] /\ current \in [Logs -> Nat] /\ reader \in [Logs -> Readers]
    /\ \A log \in Logs :
          /\ FilesOK(log, files[log], count[log], archived[log], current[log])
          /\ ReaderOK(reader[log], files[log], current[log])

\* A step that fails has failed of itself, or could not read a log, or judged
\* what it read to the end.
VerdictInv ==
    step.pc \in {"exited", "done"} /\ step.exit = 1 =>
        \/ step.failed \/ \E log \in Logs : reader[log].pc = "failed"
        \/ Ended /\ ShouldFail

--------------------------------------------------------------------------------
(* The files of a log.                                                      *)

Grows(fs, gs) == DOMAIN fs \subseteq DOMAIN gs /\ \A f \in DOMAIN fs : Range(fs[f]) \subseteq Range(gs[f])

LEMMA FilesFacts ==
    ASSUME NEW log, NEW fs, NEW n, NEW arch, NEW cur, FilesOK(log, fs, n, arch, cur)
    PROVE  /\ Len(fs) \in Nat /\ DOMAIN fs = 1..Len(fs) /\ n \in Nat /\ cur \in Nat
           /\ cur # 0 => cur = Len(fs) /\ cur \in DOMAIN fs
           /\ \A f \in DOMAIN fs :
                 /\ fs[f] \in Seq(Lines) /\ Len(fs[f]) \in Nat /\ DOMAIN fs[f] = 1..Len(fs[f])
                 /\ \A i \in DOMAIN fs[f] : fs[f][i] \in Lines /\ fs[f][i].number \in Nat
           /\ Len(arch) \in Nat /\ DOMAIN arch = 1..Len(arch) /\ \A i \in DOMAIN arch : arch[i] \in Nat
<1>1. fs \in Seq(Seq(Lines)) /\ arch \in Seq(Nat) /\ n \in Nat /\ cur \in Nat /\ (cur # 0 => cur = Len(fs))
    BY DEF FilesOK
<1>2. Len(fs) \in Nat /\ DOMAIN fs = 1..Len(fs) /\ \A f \in DOMAIN fs : fs[f] \in Seq(Lines)
    BY <1>1
<1>3. \A f \in DOMAIN fs : Len(fs[f]) \in Nat /\ DOMAIN fs[f] = 1..Len(fs[f])
    BY <1>2
<1>4. \A f \in DOMAIN fs : \A i \in DOMAIN fs[f] : fs[f][i] \in Lines
    <2> SUFFICES ASSUME NEW f \in DOMAIN fs, NEW i \in DOMAIN fs[f] PROVE fs[f][i] \in Lines
        OBVIOUS
    <2>1. fs[f] \in Seq(Lines) /\ i \in 1..Len(fs[f])
        BY <1>2, <1>3
    <2> HIDE DEF Lines
    <2> QED BY <2>1, ElementOfSeq
<1>5. \A l \in Lines : l.number \in Nat
    BY DEF Lines
<1>6. Len(arch) \in Nat /\ DOMAIN arch = 1..Len(arch) /\ \A i \in DOMAIN arch : arch[i] \in Nat
    BY <1>1
<1>7. \A f \in DOMAIN fs :
         /\ fs[f] \in Seq(Lines) /\ Len(fs[f]) \in Nat /\ DOMAIN fs[f] = 1..Len(fs[f])
         /\ \A i \in DOMAIN fs[f] : fs[f][i] \in Lines /\ fs[f][i].number \in Nat
    BY <1>2, <1>3, <1>4, <1>5
<1>8. cur # 0 => cur \in DOMAIN fs
    BY <1>1, <1>2
<1> QED BY <1>1, <1>2, <1>6, <1>7, <1>8

Extends(gs, fs, cur, l) == gs = [fs EXCEPT ![cur] = Append(fs[cur], l)]

\* A line is added to the last file.
LEMMA LineAdded ==
    ASSUME NEW log, NEW fs, NEW n, NEW arch, NEW cur, FilesOK(log, fs, n, arch, cur),
           cur # 0, NEW l \in Lines, LineOf(log, l), l.number = n + 1,
           NEW gs, Extends(gs, fs, cur, l)
    PROVE  FilesOK(log, gs, n + 1, arch, cur) /\ Grows(fs, gs)
<1> DEFINE s == Append(fs[cur], l)
<1>1. cur \in 1..Len(fs) /\ cur = Len(fs) /\ fs \in Seq(Seq(Lines)) /\ fs[cur] \in Seq(Lines) /\ n \in Nat
    BY FilesFacts DEF FilesOK
<1>2. s \in Seq(Lines) /\ Len(s) = Len(fs[cur]) + 1 /\ s[Len(fs[cur]) + 1] = l
      /\ \A i \in 1..Len(fs[cur]) : s[i] = fs[cur][i]
    BY <1>1, AppendProperties
<1> HIDE DEF s
<1>3. gs \in Seq(Seq(Lines)) /\ Len(gs) = Len(fs) /\ DOMAIN gs = DOMAIN fs
      /\ \A f \in DOMAIN fs : gs[f] = IF f = cur THEN s ELSE fs[f]
    BY <1>1, <1>2 DEF s, Extends
<1>4. \A f \in DOMAIN gs : \A i \in DOMAIN gs[f] :
         \/ i \in DOMAIN fs[f] /\ gs[f][i] = fs[f][i]
         \/ f = cur /\ i = Len(fs[cur]) + 1 /\ gs[f][i] = l
    <2> SUFFICES ASSUME NEW f \in DOMAIN gs, NEW i \in DOMAIN gs[f]
                 PROVE  \/ i \in DOMAIN fs[f] /\ gs[f][i] = fs[f][i]
                        \/ f = cur /\ i = Len(fs[cur]) + 1 /\ gs[f][i] = l
        OBVIOUS
    <2>1. CASE f # cur
        BY <1>3, <2>1
    <2>2. CASE f = cur
        <3>1. i \in 1..(Len(fs[cur]) + 1) /\ Len(fs[cur]) \in Nat /\ DOMAIN fs[cur] = 1..Len(fs[cur])
            BY <1>1, <1>2, <1>3, <2>2
        <3> QED BY <1>2, <1>3, <2>2, <3>1
    <2> QED BY <2>1, <2>2
<1>5. \A f \in DOMAIN gs : \A i \in DOMAIN gs[f] : gs[f][i].number <= n + 1 /\ LineOf(log, gs[f][i])
    <2> SUFFICES ASSUME NEW f \in DOMAIN gs, NEW i \in DOMAIN gs[f]
                 PROVE  gs[f][i].number <= n + 1 /\ LineOf(log, gs[f][i])
        OBVIOUS
    <2>1. CASE i \in DOMAIN fs[f] /\ gs[f][i] = fs[f][i]
        <3>1. fs[f][i].number <= n /\ fs[f][i].number \in Nat /\ LineOf(log, fs[f][i])
            BY <1>3, <2>1, FilesFacts DEF FilesOK
        <3> QED BY <1>1, <2>1, <3>1
    <2>2. CASE gs[f][i] = l
        BY <1>1, <2>2
    <2> QED BY <1>4, <2>1, <2>2
<1>6. InOrder(gs)
    <2> SUFFICES ASSUME NEW f \in DOMAIN gs, NEW g \in DOMAIN gs, NEW i \in DOMAIN gs[f], NEW j \in DOMAIN gs[g],
                        f < g \/ (f = g /\ i < j)
                 PROVE  gs[f][i].number < gs[g][j].number
        BY DEF InOrder
    <2>0. f \in 1..Len(fs) /\ g \in 1..Len(fs) /\ Len(fs) \in Nat
        BY <1>3, FilesFacts
    <2>1. CASE i \in DOMAIN fs[f] /\ gs[f][i] = fs[f][i] /\ j \in DOMAIN fs[g] /\ gs[g][j] = fs[g][j]
        BY <1>3, <2>1 DEF FilesOK, InOrder
    <2>2. CASE i \in DOMAIN fs[f] /\ gs[f][i] = fs[f][i] /\ gs[g][j] = l
        <3>1. fs[f][i].number <= n /\ fs[f][i].number \in Nat
            BY <1>3, <2>2, FilesFacts DEF FilesOK
        <3> QED BY <1>1, <2>2, <3>1
    <2>3. CASE f = cur /\ i = Len(fs[cur]) + 1
        <3>1. PICK k \in Nat : k = Len(fs) /\ k = cur
            BY <1>1, <2>0
        <3>2. f = k /\ g \in 1..k
            BY <2>0, <2>3, <3>1
        <3>3. g = cur /\ i < j
            BY <3>1, <3>2
        <3>4. PICK b \in Nat : b = Len(fs[cur]) /\ DOMAIN s = 1..(b + 1)
            BY <1>1, <1>2
        <3>5. i = b + 1 /\ j \in 1..(b + 1)
            BY <1>3, <2>3, <3>3, <3>4
        <3> QED BY <3>3, <3>5
    <2> QED BY <1>4, <2>1, <2>2, <2>3
<1>7. Grows(fs, gs)
    <2> SUFFICES ASSUME NEW f \in DOMAIN fs PROVE Range(fs[f]) \subseteq Range(gs[f])
        BY <1>3 DEF Grows
    <2>1. CASE f # cur
        BY <1>3, <2>1
    <2>2. CASE f = cur
        <3>1. Len(s) \in Nat /\ DOMAIN s = 1..Len(s) /\ DOMAIN fs[cur] = 1..Len(fs[cur]) /\ Len(fs[cur]) \in Nat
            BY <1>1, <1>2
        <3>2. \A i \in DOMAIN fs[cur] : i \in DOMAIN s /\ s[i] = fs[cur][i]
            BY <1>2, <3>1
        <3> QED BY <1>3, <2>2, <3>2 DEF Range
    <2> QED BY <2>1, <2>2
<1>8. FilesOK(log, gs, n + 1, arch, cur)
    BY <1>1, <1>3, <1>5, <1>6 DEF FilesOK
<1> QED BY <1>7, <1>8

LEMMA NewFile ==
    ASSUME NEW log, NEW fs, NEW n, NEW arch, NEW cur, FilesOK(log, fs, n, arch, cur),
           NEW new \in Seq(Lines), NEW m \in Nat, n <= m, InOrder(<<new>>),
           \A i \in DOMAIN new : n < new[i].number /\ new[i].number <= m /\ LineOf(log, new[i])
    PROVE  /\ FilesOK(log, Append(fs, new), m, arch, Len(fs) + 1)
           /\ Grows(fs, Append(fs, new))
<1> DEFINE gs == Append(fs, new)
<1>1. fs \in Seq(Seq(Lines)) /\ Len(fs) \in Nat /\ DOMAIN fs = 1..Len(fs) /\ n \in Nat
    BY FilesFacts DEF FilesOK
<1>2. gs \in Seq(Seq(Lines)) /\ Len(gs) = Len(fs) + 1 /\ gs[Len(fs) + 1] = new
      /\ \A f \in 1..Len(fs) : gs[f] = fs[f]
    BY <1>1, AppendProperties
<1>3. DOMAIN gs = 1..(Len(fs) + 1)
    BY <1>2
<1> HIDE DEF gs
<1>4. \A i \in DOMAIN new : new[i].number \in Nat
    <2> SUFFICES ASSUME NEW i \in DOMAIN new PROVE new[i].number \in Nat
        OBVIOUS
    <2>1. new[i] \in Lines
        BY ElementOfSeq, LenProperties
    <2> QED BY <2>1 DEF Lines
<1>5. \A f \in DOMAIN gs : \A i \in DOMAIN gs[f] : gs[f][i].number <= m /\ LineOf(log, gs[f][i])
    <2> SUFFICES ASSUME NEW f \in DOMAIN gs, NEW i \in DOMAIN gs[f]
                 PROVE  gs[f][i].number <= m /\ LineOf(log, gs[f][i])
        OBVIOUS
    <2>1. CASE f \in DOMAIN fs
        <3>1. gs[f] = fs[f]
            BY <1>1, <1>2, <2>1
        <3>2. fs[f][i].number <= n /\ fs[f][i].number \in Nat /\ LineOf(log, fs[f][i])
            BY <2>1, <3>1, FilesFacts DEF FilesOK
        <3> QED BY <1>1, <3>1, <3>2
    <2>2. CASE f = Len(fs) + 1
        BY <1>2, <2>2
    <2> QED BY <1>1, <1>3, <2>1, <2>2
<1>6. InOrder(gs)
    <2> SUFFICES ASSUME NEW f \in DOMAIN gs, NEW g \in DOMAIN gs, NEW i \in DOMAIN gs[f], NEW j \in DOMAIN gs[g],
                        f < g \/ (f = g /\ i < j)
                 PROVE  gs[f][i].number < gs[g][j].number
        BY DEF InOrder
    <2>1. CASE f \in DOMAIN fs /\ g \in DOMAIN fs
        <3>1. gs[f] = fs[f] /\ gs[g] = fs[g]
            BY <1>1, <1>2, <2>1
        <3> QED BY <2>1, <3>1 DEF FilesOK, InOrder
    <2>2. CASE f \in DOMAIN fs /\ g = Len(fs) + 1
        <3>1. gs[f] = fs[f] /\ gs[g] = new
            BY <1>1, <1>2, <2>2
        <3>2. fs[f][i].number <= n /\ fs[f][i].number \in Nat
            BY <2>2, <3>1, FilesFacts DEF FilesOK
        <3>3. n < new[j].number /\ new[j].number \in Nat
            BY <1>4, <3>1
        <3> QED BY <1>1, <3>1, <3>2, <3>3
    <2>3. CASE f = Len(fs) + 1
        <3>1. g = f /\ gs[f] = new
            BY <1>1, <1>2, <1>3, <2>3
        <3>2. DOMAIN <<new>> = {1} /\ <<new>>[1] = new
            OBVIOUS
        <3> QED BY <3>1, <3>2 DEF InOrder
    <2> QED BY <1>1, <1>3, <2>1, <2>2, <2>3
<1>7. Grows(fs, gs)
    BY <1>1, <1>2, <1>3 DEF Grows
<1>8. \A i \in DOMAIN arch : arch[i] \in DOMAIN gs /\ arch[i] < Len(fs) + 1
    <2>1. PICK k \in Nat : k = Len(fs)
        BY <1>1
    <2>2. \A i \in DOMAIN arch : arch[i] \in 1..k
        BY <1>1, <2>1 DEF FilesOK
    <2>3. \A x \in 1..k : x \in 1..(k + 1) /\ x < k + 1
        BY <2>1
    <2> QED BY <1>3, <2>1, <2>2, <2>3
<1>9. Len(fs) + 1 \in Nat
    BY <1>1
<1> QED BY <1>1, <1>2, <1>5, <1>6, <1>7, <1>8, <1>9 DEF FilesOK, gs

\* The current file becomes the youngest archive.
LEMMA Archives ==
    ASSUME NEW log, NEW fs, NEW n, NEW arch, NEW cur, FilesOK(log, fs, n, arch, cur), cur # 0, NEW arch2,
           arch2 = Append(arch, cur) \/ arch2 = Tail(Append(arch, cur))
    PROVE  FilesOK(log, fs, n, arch2, 0)
<1> DEFINE all == Append(arch, cur)
<1>1. arch \in Seq(Nat) /\ cur \in Nat /\ cur \in DOMAIN fs /\ Len(arch) \in Nat /\ DOMAIN arch = 1..Len(arch)
      /\ \A i \in DOMAIN arch : arch[i] \in Nat
    BY FilesFacts DEF FilesOK
<1>2. all \in Seq(Nat) /\ all # <<>> /\ Len(all) = Len(arch) + 1 /\ all[Len(arch) + 1] = cur
      /\ \A i \in 1..Len(arch) : all[i] = arch[i]
    BY <1>1, AppendProperties
<1> HIDE DEF all
<1>3. DOMAIN all = 1..(Len(arch) + 1)
    BY <1>2
<1>4. \A i \in DOMAIN all : all[i] \in DOMAIN fs
    <2> SUFFICES ASSUME NEW i \in DOMAIN all PROVE all[i] \in DOMAIN fs
        OBVIOUS
    <2>1. CASE i \in DOMAIN arch
        BY <1>1, <1>2, <2>1 DEF FilesOK
    <2>2. CASE i = Len(arch) + 1
        BY <1>1, <1>2, <2>2
    <2> QED BY <1>1, <1>3, <2>1, <2>2
<1>5. \A i, j \in DOMAIN all : i < j => all[i] < all[j]
    <2> SUFFICES ASSUME NEW i \in DOMAIN all, NEW j \in DOMAIN all, i < j PROVE all[i] < all[j]
        OBVIOUS
    <2>1. i \in DOMAIN arch /\ all[i] = arch[i]
        BY <1>1, <1>2, <1>3
    <2>2. CASE j \in DOMAIN arch
        <3>1. all[j] = arch[j]
            BY <1>1, <1>2, <2>2
        <3> QED BY <2>1, <2>2, <3>1 DEF FilesOK
    <2>3. CASE j = Len(arch) + 1
        BY <1>2, <2>1, <2>3 DEF FilesOK
    <2> QED BY <1>1, <1>3, <2>2, <2>3
<1>6. CASE arch2 = all
    BY <1>2, <1>4, <1>5, <1>6 DEF FilesOK
<1>7. CASE arch2 = Tail(all)
    <2>1. arch2 \in Seq(Nat) /\ Len(arch2) = Len(arch) /\ DOMAIN arch2 = 1..Len(arch)
          /\ \A i \in 1..Len(arch) : arch2[i] = all[i + 1]
        BY <1>1, <1>2, <1>7, HeadTailProperties
    <2>2. PICK k \in Nat : k = Len(arch)
        BY <1>1
    <2>3. \A i \in DOMAIN arch2 : i \in Nat /\ i + 1 \in DOMAIN all /\ arch2[i] = all[i + 1]
        <3>1. DOMAIN arch2 = 1..k /\ DOMAIN all = 1..(k + 1) /\ \A i \in 1..k : arch2[i] = all[i + 1]
            BY <1>3, <2>1, <2>2
        <3> QED BY <3>1
    <2>4. \A i, j \in DOMAIN arch2 : i < j => arch2[i] < arch2[j]
        <3> SUFFICES ASSUME NEW i \in DOMAIN arch2, NEW j \in DOMAIN arch2, i < j PROVE arch2[i] < arch2[j]
            OBVIOUS
        <3>1. i + 1 < j + 1
            BY <2>3
        <3> QED BY <1>5, <2>3, <3>1
    <2>5. \A i \in DOMAIN arch2 : arch2[i] \in DOMAIN fs
        BY <1>4, <2>3
    <2> QED BY <2>1, <2>4, <2>5 DEF FilesOK
<1> QED BY <1>6, <1>7 DEF all

--------------------------------------------------------------------------------
(* The reading of it.                                                       *)

LEMMA NumbersOf == \A s, n : n \in Numbers(s) <=> \E l \in Range(s) : l.number = n
BY DEF Numbers, Range

LEMMA ReaderFacts ==
    ASSUME NEW r, r \in Readers
    PROVE  /\ r.pc \in {"idle", "reading", "ended", "failed"} /\ r.last \in Nat
           /\ r.opened \subseteq Nat /\ r.listed \subseteq Nat
           /\ r.todo \in Seq(Nat) /\ Len(r.todo) \in Nat /\ DOMAIN r.todo = 1..Len(r.todo)
           /\ \A k \in DOMAIN r.todo : r.todo[k] \in Nat
           /\ r.read \in Seq(Lines) /\ Len(r.read) \in Nat /\ DOMAIN r.read = 1..Len(r.read)
           /\ \A i \in DOMAIN r.read : r.read[i] \in Lines /\ r.read[i].number \in Nat
<1>1. r.todo \in Seq(Nat) /\ r.read \in Seq(Lines) /\ r.last \in Nat /\ r.opened \subseteq Nat /\ r.listed \subseteq Nat
      /\ r.pc \in {"idle", "reading", "ended", "failed"}
    BY DEF Readers
<1>2. Len(r.todo) \in Nat /\ DOMAIN r.todo = 1..Len(r.todo) /\ \A k \in DOMAIN r.todo : r.todo[k] \in Nat
    BY <1>1
<1>3. Len(r.read) \in Nat /\ DOMAIN r.read = 1..Len(r.read)
    BY <1>1
<1>4. \A i \in DOMAIN r.read : r.read[i] \in Lines
    BY <1>1, <1>3
<1>5. \A l \in Lines : l.number \in Nat
    BY DEF Lines
<1> QED BY <1>1, <1>2, <1>3, <1>4, <1>5

\* The container writes, rotates and reopens: what was read stays what it was.
LEMMA ReaderStays ==
    ASSUME NEW r, NEW fs, NEW gs, NEW cur, NEW new, ReaderOK(r, fs, cur), Grows(fs, gs),
           Len(fs) \in Nat, DOMAIN fs = 1..Len(fs), new \in {cur, 0, Len(fs) + 1}
    PROVE  ReaderOK(r, gs, new)
<1>1. r \in Readers /\ r.opened \subseteq DOMAIN fs /\ DOMAIN fs \subseteq DOMAIN gs
    BY DEF ReaderOK, Grows
<1>2. \A i \in DOMAIN r.read : \E f \in r.opened : r.read[i] \in Range(gs[f])
    <2> SUFFICES ASSUME NEW i \in DOMAIN r.read PROVE \E f \in r.opened : r.read[i] \in Range(gs[f])
        OBVIOUS
    <2>1. PICK f \in r.opened : r.read[i] \in Range(fs[f])
        BY DEF ReaderOK
    <2> QED BY <1>1, <2>1 DEF Grows
<1>3. \A k \in DOMAIN r.todo : r.todo[k] # 0 =>
          r.todo[k] \in DOMAIN gs /\ (\A f \in r.opened : f < r.todo[k]) /\ (\A j \in 1..(k - 1) : r.todo[j] < r.todo[k])
    BY <1>1 DEF ReaderOK
<1>4. ASSUME NEW k \in DOMAIN r.todo, r.todo[k] = 0
      PROVE  k = Len(r.todo) /\ (new # 0 => (\A f \in r.opened : f < new) /\ (\A j \in 1..(k - 1) : r.todo[j] < new))
    <2>1. k = Len(r.todo) /\ (cur # 0 => (\A f \in r.opened : f < cur) /\ (\A j \in 1..(k - 1) : r.todo[j] < cur))
        BY <1>4 DEF ReaderOK
    <2>2. CASE new = Len(fs) + 1
        <3>1. PICK m \in Nat : m = Len(fs)
            OBVIOUS
        <3>2. \A f \in 1..m : f < m + 1
            BY <3>1
        <3>3. \A f \in r.opened : f < new
            BY <1>1, <2>2, <3>1, <3>2
        <3>4. ASSUME NEW j \in 1..(k - 1) PROVE r.todo[j] < new
            <4>1. j \in DOMAIN r.todo /\ j # Len(r.todo)
                BY <1>1, <2>1, <3>4, ReaderFacts
            <4>2. r.todo[j] \in DOMAIN fs
                BY <4>1 DEF ReaderOK
            <4> QED BY <2>2, <3>1, <3>2, <4>2
        <3> QED BY <2>1, <3>3, <3>4
    <2>3. CASE new = cur \/ new = 0
        BY <2>1, <2>3
    <2> QED BY <2>2, <2>3
<1>5. r.last # 0 => r.last \in DOMAIN fs /\ r.last \in DOMAIN gs
    BY <1>1 DEF ReaderOK
<1>6. \A f \in DOMAIN fs : Numbers(fs[f]) \subseteq Numbers(gs[f])
    <2> SUFFICES ASSUME NEW f \in DOMAIN fs, NEW n \in Numbers(fs[f]) PROVE n \in Numbers(gs[f])
        OBVIOUS
    <2>1. PICK l \in Range(fs[f]) : l.number = n
        BY NumbersOf
    <2>2. l \in Range(gs[f])
        BY <2>1 DEF Grows
    <2> QED BY <2>1, <2>2, NumbersOf
<1>7. r.pc \in {"reading", "ended"} => \A n \in r.listed :
          \/ n \in Numbers(r.read)
          \/ \E k \in DOMAIN r.todo : r.todo[k] # 0 /\ n \in Numbers(gs[r.todo[k]])
          \/ r.last # 0 /\ r.last \notin r.opened /\ n \in Numbers(gs[r.last])
    <2> SUFFICES ASSUME r.pc \in {"reading", "ended"}, NEW n \in r.listed, n \notin Numbers(r.read)
                 PROVE  \/ \E k \in DOMAIN r.todo : r.todo[k] # 0 /\ n \in Numbers(gs[r.todo[k]])
                        \/ r.last # 0 /\ r.last \notin r.opened /\ n \in Numbers(gs[r.last])
        OBVIOUS
    <2>1. CASE \E k \in DOMAIN r.todo : r.todo[k] # 0 /\ n \in Numbers(fs[r.todo[k]])
        <3>1. PICK k \in DOMAIN r.todo : r.todo[k] # 0 /\ n \in Numbers(fs[r.todo[k]])
            BY <2>1
        <3>2. r.todo[k] \in DOMAIN fs
            BY <3>1 DEF ReaderOK
        <3> QED BY <1>6, <3>1, <3>2
    <2>2. CASE r.last # 0 /\ r.last \notin r.opened /\ n \in Numbers(fs[r.last])
        BY <1>5, <1>6, <2>2
    <2> QED BY <2>1, <2>2 DEF ReaderOK
<1>8. r.opened \subseteq DOMAIN gs
    BY <1>1
<1>9. /\ \A i, j \in DOMAIN r.read : i < j => r.read[i].number < r.read[j].number
      /\ r.pc = "idle" => r = Unread
      /\ r.pc = "reading" => r.todo # <<>>
      /\ r.pc = "ended" => r.todo = <<>>
    BY DEF ReaderOK
<1> QED BY <1>1, <1>2, <1>3, <1>4, <1>5, <1>7, <1>8, <1>9 DEF ReaderOK

\* What a reader has after file f was printed up to line n.
After(r, s, f, ls, pc) ==
    [r EXCEPT !.read = @ \o s, !.todo = Tail(@), !.opened = @ \cup {f}, !.listed = ls, !.pc = pc]

IsAfter(q, r, s, f, ls, pc) ==
    /\ q \in Readers /\ q.pc = pc /\ q.opened = r.opened \cup {f} /\ q.listed = ls /\ q.last = r.last
    /\ DOMAIN q.read = 1..(Len(r.read) + Len(s))
    /\ \A i \in DOMAIN r.read : i \in DOMAIN q.read /\ q.read[i] = r.read[i]
    /\ \A i \in DOMAIN s : Len(r.read) + i \in DOMAIN q.read /\ q.read[Len(r.read) + i] = s[i]
    /\ \A i \in DOMAIN q.read : i \in DOMAIN r.read \/ i - Len(r.read) \in DOMAIN s
    /\ Len(q.todo) = Len(r.todo) - 1 /\ DOMAIN q.todo = 1..(Len(r.todo) - 1)
    /\ \A k \in DOMAIN q.todo : k \in Nat /\ k + 1 \in DOMAIN r.todo /\ q.todo[k] = r.todo[k + 1]

LEMMA AfterFacts ==
    ASSUME NEW r \in Readers, NEW s \in Seq(Lines), NEW f \in Nat, NEW ls \in SUBSET Nat,
           NEW pc \in {"reading", "ended", "failed"}, r.todo # <<>>, NEW q, q = After(r, s, f, ls, pc)
    PROVE  IsAfter(q, r, s, f, ls, pc)
<1>1. r.read \in Seq(Lines) /\ r.todo \in Seq(Nat) /\ r.opened \subseteq Nat
    BY DEF Readers
<1>2. /\ r.read \o s \in Seq(Lines) /\ Len(r.read \o s) = Len(r.read) + Len(s)
      /\ \A i \in 1..(Len(r.read) + Len(s)) : (r.read \o s)[i] = IF i <= Len(r.read) THEN r.read[i] ELSE s[i - Len(r.read)]
    BY <1>1, ConcatProperties
<1>3. Tail(r.todo) \in Seq(Nat) /\ Len(Tail(r.todo)) = Len(r.todo) - 1
      /\ \A k \in 1..Len(Tail(r.todo)) : Tail(r.todo)[k] = r.todo[k + 1]
    BY <1>1, HeadTailProperties
<1>4. q \in Readers /\ q.pc = pc /\ q.opened = r.opened \cup {f} /\ q.listed = ls /\ q.last = r.last
      /\ q.read = r.read \o s /\ q.todo = Tail(r.todo)
    <2>1. r.opened \cup {f} \in SUBSET Nat
        BY <1>1
    <2> QED BY <1>2, <1>3, <2>1 DEF Readers, After
<1>5. PICK a \in Nat : a = Len(r.read) /\ DOMAIN r.read = 1..a
    BY <1>1
<1>6. PICK b \in Nat : b = Len(s) /\ DOMAIN s = 1..b
    OBVIOUS
<1>7. PICK c \in Nat : c = Len(r.todo) /\ DOMAIN r.todo = 1..c /\ c # 0
    BY <1>1
<1>8. DOMAIN q.read = 1..(a + b) /\ \A i \in 1..(a + b) : q.read[i] = IF i <= a THEN r.read[i] ELSE s[i - a]
    BY <1>2, <1>4, <1>5, <1>6
<1>9. DOMAIN q.todo = 1..(c - 1) /\ \A k \in 1..(c - 1) : q.todo[k] = r.todo[k + 1]
    BY <1>3, <1>4, <1>7
<1>10. \A i \in 1..a : i \in 1..(a + b) /\ q.read[i] = r.read[i]
    BY <1>8
<1>11. \A i \in 1..b : a + i \in 1..(a + b) /\ q.read[a + i] = s[i]
    <2> SUFFICES ASSUME NEW i \in 1..b PROVE a + i \in 1..(a + b) /\ q.read[a + i] = s[i]
        OBVIOUS
    <2>1. a + i \in 1..(a + b) /\ ~(a + i <= a) /\ (a + i) - a = i
        OBVIOUS
    <2> QED BY <1>8, <2>1
<1>12. \A i \in 1..(a + b) : i \in 1..a \/ i - a \in 1..b
    OBVIOUS
<1>13. \A k \in 1..(c - 1) : k \in Nat /\ k + 1 \in 1..c
    OBVIOUS
<1>14. Len(q.todo) = Len(r.todo) - 1
    BY <1>3, <1>4
<1>15. /\ DOMAIN q.read = 1..(Len(r.read) + Len(s))
       /\ \A i \in DOMAIN r.read : i \in DOMAIN q.read /\ q.read[i] = r.read[i]
    BY <1>5, <1>6, <1>8, <1>10
<1>16. \A i \in DOMAIN s : Len(r.read) + i \in DOMAIN q.read /\ q.read[Len(r.read) + i] = s[i]
    BY <1>5, <1>6, <1>8, <1>11
<1>17. \A i \in DOMAIN q.read : i \in DOMAIN r.read \/ i - Len(r.read) \in DOMAIN s
    BY <1>5, <1>6, <1>8, <1>12
<1>18. /\ DOMAIN q.todo = 1..(Len(r.todo) - 1)
       /\ \A k \in DOMAIN q.todo : k \in Nat /\ k + 1 \in DOMAIN r.todo /\ q.todo[k] = r.todo[k + 1]
    BY <1>7, <1>9, <1>13
<1> QED BY <1>4, <1>14, <1>15, <1>16, <1>17, <1>18 DEF IsAfter

LEMMA AfterOK ==
    ASSUME NEW log, NEW fs, NEW n, NEW arch, NEW cur, FilesOK(log, fs, n, arch, cur),
           NEW r, ReaderOK(r, fs, cur), r.pc = "reading",
           NEW f \in DOMAIN fs, f = IF Head(r.todo) = 0 THEN cur ELSE Head(r.todo),
           NEW m \in 0..Len(fs[f]), NEW pc \in {"reading", "ended", "failed"}, NEW ls \in {r.listed, Numbers(fs[f])},
           pc # "failed" => m = Len(fs[f]) /\ pc = IF Len(r.todo) = 1 THEN "ended" ELSE "reading"
    PROVE  ReaderOK(After(r, SubSeq(fs[f], 1, m), f, ls, pc), fs, cur)
<1> DEFINE s == SubSeq(fs[f], 1, m)
           q == After(r, s, f, ls, pc)
           a == Len(r.read)
           c == Len(r.todo)
<1>1. r \in Readers /\ r.todo # <<>> /\ r.opened \subseteq DOMAIN fs
    BY DEF ReaderOK
<1>2. /\ r.todo \in Seq(Nat) /\ c \in Nat \ {0} /\ DOMAIN r.todo = 1..c /\ \A k \in DOMAIN r.todo : r.todo[k] \in Nat
      /\ a \in Nat /\ DOMAIN r.read = 1..a /\ \A i \in DOMAIN r.read : r.read[i].number \in Nat
    BY <1>1, ReaderFacts, EmptySeq
<1>3. Head(r.todo) = r.todo[1] /\ 1 \in DOMAIN r.todo
    BY <1>2
<1>4. fs[f] \in Seq(Lines) /\ Len(fs[f]) \in Nat /\ DOMAIN fs[f] = 1..Len(fs[f]) /\ f \in Nat /\ DOMAIN fs \subseteq Nat
      /\ cur \in Nat
    BY FilesFacts
<1>5. s \in Seq(Lines) /\ DOMAIN s = 1..m /\ Len(s) = m /\ m \in Nat
      /\ \A i \in DOMAIN s : i \in DOMAIN fs[f] /\ s[i] = fs[f][i]
    <2>1. m \in Nat /\ 1..m \subseteq 1..Len(fs[f])
        BY <1>4
    <2>2. \A i \in 1..m : fs[f][i] \in Lines
        BY <1>4, <2>1, ElementOfSeq
    <2>3. s \in Seq(Lines) /\ Len(s) = IF 1 <= m THEN m - 1 + 1 ELSE 0
        BY <2>1, <2>2, SubSeqProperties
    <2>4. \A i \in 1..(m - 1 + 1) : s[i] = fs[f][1 + i - 1]
        BY <2>1, <2>2, SubSeqProperties
    <2>5. Len(s) = m /\ \A i \in 1..m : s[i] = fs[f][i]
        BY <2>1, <2>3, <2>4
    <2>6. DOMAIN s = 1..m
        BY <2>3, <2>5
    <2> QED BY <1>4, <2>1, <2>3, <2>5, <2>6
<1>6. ls \in SUBSET Nat
    <2>1. r.listed \subseteq Nat
        BY <1>1, ReaderFacts
    <2>2. Numbers(fs[f]) \subseteq Nat
        BY FilesFacts DEF Numbers
    <2> QED BY <2>1, <2>2
<1> HIDE DEF s
<1> HIDE DEF q
<1>7. IsAfter(q, r, s, f, ls, pc)
    <2>1. q = After(r, s, f, ls, pc)
        BY DEF q
    <2>2. r \in Readers /\ s \in Seq(Lines) /\ f \in Nat /\ ls \in SUBSET Nat /\ r.todo # <<>>
        BY <1>1, <1>4, <1>5, <1>6
    <2> QED BY <2>1, <2>2, AfterFacts
<1>8. DOMAIN q.read = 1..(a + m) /\ Len(q.todo) = c - 1
    BY <1>5, <1>7 DEF IsAfter
<1>9. /\ q \in Readers /\ q.pc = pc /\ q.opened = r.opened \cup {f} /\ q.listed = ls /\ q.last = r.last
      /\ \A i \in DOMAIN r.read : i \in DOMAIN q.read /\ q.read[i] = r.read[i]
      /\ \A i \in DOMAIN s : a + i \in DOMAIN q.read /\ q.read[a + i] = s[i]
      /\ \A i \in DOMAIN q.read : i \in DOMAIN r.read \/ i - a \in DOMAIN s
      /\ DOMAIN q.todo = 1..(c - 1)
      /\ \A k \in DOMAIN q.todo : k \in Nat /\ k + 1 \in DOMAIN r.todo /\ q.todo[k] = r.todo[k + 1]
    BY <1>7 DEF IsAfter
<1> HIDE DEF a, c
<1>10. \A g \in r.opened : g < f
    <2>1. CASE Head(r.todo) = 0
        <3>1. f = cur /\ cur # 0
            BY <2>1, FilesFacts
        <3> QED BY <1>3, <2>1, <3>1 DEF ReaderOK
    <2>2. CASE Head(r.todo) # 0
        BY <1>3, <2>2 DEF ReaderOK
    <2> QED BY <2>1, <2>2
\* A line of q is one that was read before, of an older file, or of this one.
<1>11. \A i \in DOMAIN q.read :
         \/ i \in DOMAIN r.read /\ q.read[i] = r.read[i]
         \/ i - a \in DOMAIN s /\ i - a \in DOMAIN fs[f] /\ q.read[i] = fs[f][i - a] /\ i = a + (i - a)
    <2> SUFFICES ASSUME NEW i \in DOMAIN q.read, i \notin DOMAIN r.read
                 PROVE  i - a \in DOMAIN s /\ i - a \in DOMAIN fs[f] /\ q.read[i] = fs[f][i - a] /\ i = a + (i - a)
        BY <1>9
    <2>1. i - a \in DOMAIN s
        BY <1>9
    <2>2. i = a + (i - a)
        BY <1>2, <1>5, <1>8
    <2>3. q.read[a + (i - a)] = s[i - a]
        BY <1>9, <2>1
    <2> QED BY <1>5, <2>1, <2>2, <2>3
<1>12. \A i \in DOMAIN r.read : \E g \in r.opened, x \in Nat : x \in DOMAIN fs[g] /\ r.read[i] = fs[g][x]
    <2> SUFFICES ASSUME NEW i \in DOMAIN r.read
                 PROVE  \E g \in r.opened, x \in Nat : x \in DOMAIN fs[g] /\ r.read[i] = fs[g][x]
        OBVIOUS
    <2>1. PICK g \in r.opened : r.read[i] \in Range(fs[g])
        BY DEF ReaderOK
    <2>2. PICK x \in DOMAIN fs[g] : r.read[i] = fs[g][x]
        BY <2>1 DEF Range
    <2>3. DOMAIN fs[g] \subseteq Nat
        BY <1>1, FilesFacts
    <2> QED BY <2>2, <2>3
<1>13. \A i \in DOMAIN q.read : \E g \in q.opened : q.read[i] \in Range(fs[g])
    <2> SUFFICES ASSUME NEW i \in DOMAIN q.read PROVE \E g \in q.opened : q.read[i] \in Range(fs[g])
        OBVIOUS
    <2>1. CASE i \in DOMAIN r.read /\ q.read[i] = r.read[i]
        BY <1>9, <2>1 DEF ReaderOK
    <2>2. CASE i - a \in DOMAIN fs[f] /\ q.read[i] = fs[f][i - a]
        BY <1>9, <2>2 DEF Range
    <2> QED BY <1>11, <2>1, <2>2
<1>14. \A i, j \in DOMAIN q.read : i < j => q.read[i].number < q.read[j].number
    <2> SUFFICES ASSUME NEW i \in DOMAIN q.read, NEW j \in DOMAIN q.read, i < j
                 PROVE  q.read[i].number < q.read[j].number
        OBVIOUS
    <2>1. i \in Nat /\ j \in Nat
        BY <1>2, <1>5, <1>8
    <2>2. CASE i \in DOMAIN r.read /\ q.read[i] = r.read[i] /\ j \in DOMAIN r.read /\ q.read[j] = r.read[j]
        BY <2>2 DEF ReaderOK
    <2>3. CASE i \in DOMAIN r.read /\ q.read[i] = r.read[i] /\ j - a \in DOMAIN fs[f] /\ q.read[j] = fs[f][j - a]
        <3>1. PICK g \in r.opened, x \in Nat : x \in DOMAIN fs[g] /\ r.read[i] = fs[g][x]
            BY <1>12, <2>3
        <3>2. fs[g][x].number < fs[f][j - a].number
            BY <1>1, <1>10, <2>3, <3>1 DEF FilesOK, InOrder
        <3> QED BY <2>3, <3>1, <3>2
    <2>4. CASE i - a \in DOMAIN s /\ i - a \in DOMAIN fs[f] /\ q.read[i] = fs[f][i - a]
        <3>1. i > a
            BY <1>2, <1>5, <2>1, <2>4
        <3>2. j \notin DOMAIN r.read
            BY <1>2, <2>1, <3>1
        <3>3. j - a \in DOMAIN fs[f] /\ q.read[j] = fs[f][j - a]
            BY <1>11, <3>2
        <3>4. i - a < j - a
            BY <1>2, <2>1
        <3> QED BY <2>4, <3>3, <3>4 DEF FilesOK, InOrder
    <2> QED BY <1>11, <2>2, <2>3, <2>4
<1>15. ASSUME NEW k \in DOMAIN q.todo, q.todo[k] # 0
       PROVE  q.todo[k] \in DOMAIN fs /\ (\A g \in q.opened : g < q.todo[k]) /\ (\A j \in 1..(k - 1) : q.todo[j] < q.todo[k])
    <2>1. k \in Nat /\ k # 0 /\ k + 1 \in DOMAIN r.todo /\ q.todo[k] = r.todo[k + 1]
        BY <1>2, <1>9
    <2>2. r.todo[k + 1] \in DOMAIN fs /\ (\A g \in r.opened : g < r.todo[k + 1])
          /\ \A j \in 1..(k + 1 - 1) : r.todo[j] < r.todo[k + 1]
        BY <1>15, <2>1 DEF ReaderOK
    <2>3. 1 \in 1..(k + 1 - 1) /\ 1 # c /\ c \in Nat
        BY <1>2, <2>1
    <2>4. f < r.todo[k + 1]
        <3>1. r.todo[1] # 0
            BY <1>3, <2>3 DEF ReaderOK, c
        <3> QED BY <1>3, <2>2, <2>3, <3>1
    <2>5. ASSUME NEW j \in 1..(k - 1) PROVE q.todo[j] < q.todo[k]
        <3>1. j + 1 \in 1..(k + 1 - 1) /\ j \in 1..(c - 1)
            BY <1>2, <1>9, <2>1, <2>5
        <3> QED BY <1>9, <2>1, <2>2, <3>1
    <2> QED BY <1>9, <2>1, <2>2, <2>4, <2>5
<1>16. ASSUME NEW k \in DOMAIN q.todo, q.todo[k] = 0
       PROVE  k = Len(q.todo) /\ (cur # 0 => (\A g \in q.opened : g < cur) /\ (\A j \in 1..(k - 1) : q.todo[j] < cur))
    <2>1. k \in Nat /\ k # 0 /\ k + 1 \in DOMAIN r.todo /\ r.todo[k + 1] = 0
        BY <1>2, <1>9, <1>16
    <2>2. k + 1 = c /\ (cur # 0 => (\A g \in r.opened : g < cur) /\ \A j \in 1..(k + 1 - 1) : r.todo[j] < cur)
        BY <2>1 DEF ReaderOK, c
    <2>3. k = Len(q.todo)
        BY <1>2, <1>8, <2>1, <2>2
    <2>4. ASSUME cur # 0 PROVE f < cur
        <3>1. 1 \in 1..(k + 1 - 1) /\ 1 # c
            BY <1>2, <2>1, <2>2
        <3>2. r.todo[1] # 0
            BY <1>3, <3>1 DEF ReaderOK, c
        <3> QED BY <1>3, <2>2, <2>4, <3>1, <3>2
    <2>5. ASSUME cur # 0, NEW j \in 1..(k - 1) PROVE q.todo[j] < cur
        <3>1. j + 1 \in 1..(k + 1 - 1) /\ j \in 1..(c - 1)
            BY <1>2, <1>9, <2>1, <2>5
        <3> QED BY <1>9, <2>2, <2>5, <3>1
    <2> QED BY <1>9, <2>2, <2>3, <2>4, <2>5
<1>17. ASSUME pc # "failed", NEW x \in ls
       PROVE  \/ x \in Numbers(q.read)
              \/ \E k \in DOMAIN q.todo : q.todo[k] # 0 /\ x \in Numbers(fs[q.todo[k]])
              \/ q.last # 0 /\ q.last \notin q.opened /\ x \in Numbers(fs[q.last])
    <2>1. ASSUME NEW y \in Numbers(fs[f]) PROVE y \in Numbers(q.read)
        <3>1. PICK i \in DOMAIN fs[f] : y = fs[f][i].number
            BY <2>1 DEF Numbers
        <3>2. i \in DOMAIN s /\ s[i] = fs[f][i]
            BY <1>4, <1>5, <1>17, <3>1
        <3>3. a + i \in DOMAIN q.read /\ q.read[a + i] = fs[f][i]
            BY <1>9, <3>2
        <3> QED BY <3>1, <3>3 DEF Numbers
    <2>2. ASSUME NEW y \in Numbers(r.read) PROVE y \in Numbers(q.read)
        BY <1>9, <2>2 DEF Numbers
    <2>3. CASE ls = Numbers(fs[f])
        BY <2>1, <2>3
    <2>4. CASE ls = r.listed
        <3>1. CASE x \in Numbers(r.read)
            BY <2>2, <3>1
        <3>2. CASE \E k \in DOMAIN r.todo : r.todo[k] # 0 /\ x \in Numbers(fs[r.todo[k]])
            <4>1. PICK k \in DOMAIN r.todo : r.todo[k] # 0 /\ x \in Numbers(fs[r.todo[k]])
                BY <3>2
            <4>2. CASE k = 1
                <5>1. r.todo[k] = f
                    BY <1>3, <4>1, <4>2
                <5> QED BY <2>1, <4>1, <5>1
            <4>3. CASE k # 1
                <5>1. k - 1 \in DOMAIN q.todo /\ (k - 1) + 1 = k
                    BY <1>2, <1>9, <4>3
                <5>2. q.todo[k - 1] = r.todo[k]
                    BY <1>9, <5>1
                <5> QED BY <4>1, <5>1, <5>2
            <4> QED BY <4>2, <4>3
        <3>3. CASE r.last # 0 /\ r.last \notin r.opened /\ x \in Numbers(fs[r.last])
            BY <1>9, <2>1, <3>3
        <3> QED BY <2>4, <1>17, <3>1, <3>2, <3>3 DEF ReaderOK
    <2> QED BY <2>3, <2>4
<1>18. (pc = "ended" => q.todo = <<>>) /\ (pc = "reading" => q.todo # <<>>)
    <2>1. q.todo \in Seq(Nat)
        BY <1>9, ReaderFacts
    <2>2. pc # "failed" => (pc = "ended" <=> c = 1)
        BY DEF c
    <2>3. c = 1 <=> Len(q.todo) = 0
        BY <1>2, <1>8
    <2>4. q.todo = <<>> <=> Len(q.todo) = 0
        BY <2>1, EmptySeq
    <2> QED BY <2>2, <2>3, <2>4
<1>19. q.opened \subseteq DOMAIN fs /\ (q.last # 0 => q.last \in DOMAIN fs)
    BY <1>1, <1>9 DEF ReaderOK
<1>20. ReaderOK(q, fs, cur)
    BY <1>9, <1>13, <1>14, <1>15, <1>16, <1>17, <1>18, <1>19 DEF ReaderOK
<1> QED BY <1>20 DEF q, s

--------------------------------------------------------------------------------
(* The invariant.                                                           *)

\* What a step of the container does to the files of a log.
Kept(log) ==
    /\ files'[log] = files[log] /\ count'[log] = count[log]
    /\ archived'[log] = archived[log] /\ current'[log] = current[log]

Archived(log) ==
    /\ files'[log] = files[log] /\ count'[log] = count[log]
    /\ current[log] # 0 /\ current'[log] = 0
    /\ \/ archived'[log] = Append(archived[log], current[log])
       \/ archived'[log] = Tail(Append(archived[log], current[log]))

Added(log) ==
    /\ archived'[log] = archived[log] /\ current'[log] = current[log] /\ current[log] # 0
    /\ count'[log] = count[log] + 1
    /\ \E l \in Lines :
          /\ LineOf(log, l) /\ l.number = count[log] + 1
          /\ Extends(files'[log], files[log], current[log], l)

Opened(log) ==
    /\ archived'[log] = archived[log] /\ current'[log] = Len(files[log]) + 1
    /\ \/ files'[log] = Append(files[log], <<>>) /\ count'[log] = count[log]
       \/ \E l \in Lines :
             /\ LineOf(log, l) /\ l.number = count[log] + 1
             /\ files'[log] = Append(files[log], <<l>>) /\ count'[log] = count[log] + 1

LEMMA LogMoves ==
    ASSUME LogsInv, NEW log \in Logs, Kept(log) \/ Archived(log) \/ Added(log) \/ Opened(log)
    PROVE  /\ FilesOK(log, files'[log], count'[log], archived'[log], current'[log])
           /\ ReaderOK(reader[log], files'[log], current'[log])
<1>1. /\ FilesOK(log, files[log], count[log], archived[log], current[log])
      /\ ReaderOK(reader[log], files[log], current[log])
      /\ Len(files[log]) \in Nat /\ DOMAIN files[log] = 1..Len(files[log]) /\ count[log] \in Nat
    BY FilesFacts DEF LogsInv
<1>2. Grows(files[log], files[log])
    BY DEF Grows
<1>3. CASE Kept(log)
    BY <1>1, <1>3 DEF Kept
<1>4. CASE Archived(log)
    <2>1. FilesOK(log, files[log], count[log], archived'[log], 0)
        BY <1>1, <1>4, Archives DEF Archived
    <2>2. ReaderOK(reader[log], files[log], 0)
        BY <1>1, <1>2, ReaderStays
    <2> QED BY <1>4, <2>1, <2>2 DEF Archived
<1>5. CASE Added(log)
    <2>1. PICK l \in Lines : /\ LineOf(log, l) /\ l.number = count[log] + 1
                             /\ Extends(files'[log], files[log], current[log], l)
        BY <1>5 DEF Added
    <2>2. current[log] # 0 /\ archived'[log] = archived[log] /\ current'[log] = current[log]
          /\ count'[log] = count[log] + 1
        BY <1>5 DEF Added
    <2>3. /\ FilesOK(log, files'[log], count[log] + 1, archived[log], current[log])
          /\ Grows(files[log], files'[log])
        BY <1>1, <2>1, <2>2, LineAdded
    <2>4. ReaderOK(reader[log], files'[log], current[log])
        BY <1>1, <2>3, ReaderStays
    <2> QED BY <2>2, <2>3, <2>4
<1>6. CASE Opened(log)
    <2>1. PICK new \in Seq(Lines), m \in Nat :
              /\ count[log] <= m /\ InOrder(<<new>>) /\ files'[log] = Append(files[log], new) /\ count'[log] = m
              /\ \A i \in DOMAIN new : count[log] < new[i].number /\ new[i].number <= m /\ LineOf(log, new[i])
        <3>1. CASE files'[log] = Append(files[log], <<>>) /\ count'[log] = count[log]
            <4> DEFINE new == <<>>
            <4>1. new \in Seq(Lines) /\ DOMAIN new = {} /\ DOMAIN <<new>> = {1} /\ <<new>>[1] = new
                OBVIOUS
            <4>2. files'[log] = Append(files[log], new)
                BY <3>1
            <4> HIDE DEF new
            <4>3. InOrder(<<new>>)
                BY <4>1 DEF InOrder
            <4>4. count[log] <= count[log]
                BY <1>1
            <4> QED BY <1>1, <3>1, <4>1, <4>2, <4>3, <4>4
        <3>2. CASE \E l \in Lines :
                      /\ LineOf(log, l) /\ l.number = count[log] + 1
                      /\ files'[log] = Append(files[log], <<l>>) /\ count'[log] = count[log] + 1
            <4>1. PICK l \in Lines :
                      /\ LineOf(log, l) /\ l.number = count[log] + 1
                      /\ files'[log] = Append(files[log], <<l>>) /\ count'[log] = count[log] + 1
                BY <3>2
            <4> DEFINE new == <<l>>
            <4>2. new \in Seq(Lines) /\ DOMAIN new = {1} /\ new[1] = l /\ DOMAIN <<new>> = {1} /\ <<new>>[1] = new
                OBVIOUS
            <4>3. files'[log] = Append(files[log], new)
                BY <4>1
            <4> HIDE DEF new
            <4>4. InOrder(<<new>>)
                BY <4>2 DEF InOrder
            <4>5. PICK c \in Nat : c = count[log]
                BY <1>1
            <4>6. \A i \in DOMAIN new : c < new[i].number /\ new[i].number <= c + 1 /\ LineOf(log, new[i])
                BY <4>1, <4>2, <4>5
            <4>7. c + 1 \in Nat /\ c <= c + 1 /\ count'[log] = c + 1
                BY <4>1, <4>5
            <4> QED BY <4>2, <4>3, <4>4, <4>5, <4>6, <4>7
        <3> QED BY <1>6, <3>1, <3>2 DEF Opened
    <2>2. archived'[log] = archived[log] /\ current'[log] = Len(files[log]) + 1
        BY <1>6 DEF Opened
    <2>3. /\ FilesOK(log, files'[log], m, archived[log], Len(files[log]) + 1)
          /\ Grows(files[log], files'[log])
        BY <1>1, <2>1, NewFile
    <2>4. ReaderOK(reader[log], files'[log], Len(files[log]) + 1)
        BY <1>1, <2>3, ReaderStays
    <2> QED BY <2>1, <2>2, <2>3, <2>4
<1> QED BY <1>3, <1>4, <1>5, <1>6

\* The inputs never change, so neither does what a line is.
LEMMA LogsKeep ==
    ASSUME conf \in Configurations, UNCHANGED conf,
           files' \in [Logs -> Seq(Seq(Lines))], count' \in [Logs -> Nat],
           archived' \in [Logs -> Seq(Nat)], current' \in [Logs -> Nat], reader' \in [Logs -> Readers],
           \A log \in Logs : /\ FilesOK(log, files'[log], count'[log], archived'[log], current'[log])
                             /\ ReaderOK(reader'[log], files'[log], current'[log])
    PROVE  LogsInv'
<1>1. ASSUME NEW log \in Logs
      PROVE  FilesOK(log, files[log], count[log], archived[log], current[log])'
    <2>1. FilesOK(log, files'[log], count'[log], archived'[log], current'[log])
        OBVIOUS
    <2>2. \A l : LineOf(log, l)' <=> LineOf(log, l)
        BY DEF LineOf, Enforcing
    <2> QED BY <2>1, <2>2 DEF FilesOK
<1>2. ASSUME NEW log \in Logs PROVE ReaderOK(reader[log], files[log], current[log])'
    OBVIOUS
<1> QED BY <1>1, <1>2 DEF LogsInv

\* Steps of the container, given what they do to each log.
LEMMA ContainerMoves ==
    ASSUME LogsInv, UNCHANGED <<conf, reader>>,
           DOMAIN files' = Logs, DOMAIN count' = Logs, DOMAIN archived' = Logs, DOMAIN current' = Logs,
           files' = [log \in Logs |-> files'[log]], count' = [log \in Logs |-> count'[log]],
           archived' = [log \in Logs |-> archived'[log]], current' = [log \in Logs |-> current'[log]],
           \A log \in Logs : Kept(log) \/ Archived(log) \/ Added(log) \/ Opened(log)
    PROVE  LogsInv'
<1>1. \A log \in Logs : /\ FilesOK(log, files'[log], count'[log], archived'[log], current'[log])
                        /\ ReaderOK(reader'[log], files'[log], current'[log])
    BY LogMoves
<1>2. \A log \in Logs : /\ files'[log] \in Seq(Seq(Lines)) /\ count'[log] \in Nat
                        /\ archived'[log] \in Seq(Nat) /\ current'[log] \in Nat
    BY <1>1 DEF FilesOK
<1>3. files' \in [Logs -> Seq(Seq(Lines))] /\ count' \in [Logs -> Nat]
      /\ archived' \in [Logs -> Seq(Nat)] /\ current' \in [Logs -> Nat]
    BY <1>2
<1> QED BY <1>1, <1>3, LogsKeep DEF LogsInv

LEMMA WriteHolds ==
    ASSUME LogsInv, NEW log \in Logs, current[log] # 0, UNCHANGED <<conf, reader, kept>>,
           NEW l \in Lines, LineOf(log, l), l.number = count[log] + 1, Write(log, l)
    PROVE  LogsInv'
<1>1. /\ files \in [Logs -> Seq(Seq(Lines))] /\ count \in [Logs -> Nat]
      /\ archived \in [Logs -> Seq(Nat)] /\ current \in [Logs -> Nat]
    BY DEF LogsInv
<1>2. archived' = archived /\ current' = current
    BY DEF kept
<1>3. ASSUME NEW x \in Logs, x # log PROVE Kept(x)
    BY <1>1, <1>2, <1>3 DEF Kept, Write, Counted
<1>4. Added(log)
    <2>1. Extends(files'[log], files[log], current[log], l)
        BY <1>1 DEF Write, Extends
    <2>2. count'[log] = count[log] + 1
        BY <1>1 DEF Write, Counted
    <2> QED BY <1>2, <2>1, <2>2 DEF Added
<1>5. /\ DOMAIN files' = Logs /\ files' = [x \in Logs |-> files'[x]]
      /\ DOMAIN count' = Logs /\ count' = [x \in Logs |-> count'[x]]
    BY <1>1 DEF Write, Counted
<1>6. /\ DOMAIN archived' = Logs /\ archived' = [x \in Logs |-> archived'[x]]
      /\ DOMAIN current' = Logs /\ current' = [x \in Logs |-> current'[x]]
    BY <1>1, <1>2
<1> QED BY <1>3, <1>4, <1>5, <1>6, ContainerMoves

LEMMA StartHolds == ASSUME LogsInv, Start PROVE LogsInv'
<1> DEFINE l == StartMarker
<1>0. l = Line("proxy", "start", None, 0, FALSE) /\ "proxy" \in Logs
    BY DEF StartMarker, Logs
<1> HIDE DEF l
<1>1. l \in Lines /\ l.number = count["proxy"] + 1 /\ l.kind = "start" /\ l.refused = FALSE
    <2>1. count["proxy"] + 1 \in Nat
        BY <1>0 DEF LogsInv
    <2> QED BY <1>0, <2>1 DEF Line, Lines
<1>2. CASE conf.engine # "explicit"
    <2>1. Write("proxy", l) /\ UNCHANGED <<conf, reader, kept>> /\ current["proxy"] # 0
        BY <1>2 DEF Start, kept, l
    <2>2. LineOf("proxy", l)
        BY <1>1 DEF LineOf
    <2> QED BY <1>0, <1>1, <2>1, <2>2, WriteHolds
<1>3. CASE conf.engine = "explicit"
    <2>1. /\ files' = [files EXCEPT !["proxy"] = Append(@, <<l>>)] /\ count' = [count EXCEPT !["proxy"] = @ + 1]
          /\ current' = [current EXCEPT !["proxy"] = Fresh("proxy")] /\ UNCHANGED <<conf, reader, archived>>
        BY <1>3 DEF Start, Counted, l
    <2>2. /\ files \in [Logs -> Seq(Seq(Lines))] /\ count \in [Logs -> Nat]
          /\ archived \in [Logs -> Seq(Nat)] /\ current \in [Logs -> Nat]
        BY DEF LogsInv
    <2>3. ASSUME NEW x \in Logs, x # "proxy" PROVE Kept(x)
        BY <2>1, <2>2, <2>3 DEF Kept
    <2>4. Opened("proxy")
        <3>1. files'["proxy"] = Append(files["proxy"], <<l>>) /\ count'["proxy"] = count["proxy"] + 1
              /\ current'["proxy"] = Len(files["proxy"]) + 1 /\ archived'["proxy"] = archived["proxy"]
            BY <1>0, <2>1, <2>2 DEF Fresh
        <3>2. LineOf("proxy", l)
            BY <1>1 DEF LineOf
        <3> QED BY <1>1, <3>1, <3>2 DEF Opened
    <2>5. /\ DOMAIN files' = Logs /\ files' = [x \in Logs |-> files'[x]]
          /\ DOMAIN count' = Logs /\ count' = [x \in Logs |-> count'[x]]
          /\ DOMAIN archived' = Logs /\ archived' = [x \in Logs |-> archived'[x]]
          /\ DOMAIN current' = Logs /\ current' = [x \in Logs |-> current'[x]]
        BY <2>1, <2>2
    <2> QED BY <2>1, <2>3, <2>4, <2>5, ContainerMoves
<1> QED BY <1>2, <1>3

LEMMA RequestHolds ==
    ASSUME LogsInv, NEW h \in Hosts, LookUp(h) \/ \E p \in Ports : Request(h, p)
    PROVE  LogsInv'
<1>1. CASE LookUp(h)
    <2>1. PICK refused \in BOOLEAN : refused = (Enforcing /\ \A p \in Ports : <<h, p>> \notin Allowed)
        OBVIOUS
    <2> DEFINE l == Line("names", "name", h, 0, refused)
    <2>2. Write("names", l) /\ current["names"] # 0 /\ UNCHANGED <<conf, reader, kept>>
        BY <1>1, <2>1 DEF LookUp, Room
    <2>3. l = Line("names", "name", h, 0, refused) /\ "names" \in Logs
        BY DEF Logs
    <2> HIDE DEF l
    <2>4. l \in Lines /\ l.number = count["names"] + 1
          /\ l.kind = "name" /\ l.host = h /\ l.port = 0 /\ l.refused = refused
        <3>1. count["names"] + 1 \in Nat
            BY <2>3 DEF LogsInv
        <3> QED BY <2>3, <3>1 DEF Line, Lines
    <2>5. LineOf("names", l)
        BY <2>1, <2>4 DEF LineOf
    <2> QED BY <2>2, <2>3, <2>4, <2>5, WriteHolds
<1>2. ASSUME NEW p \in Ports, Request(h, p) PROVE LogsInv'
    <2>1. PICK unreachable \in BOOLEAN :
              Write("proxy", Line("proxy", "request", h, p, unreachable \/ (Enforcing /\ <<h, p>> \notin Allowed)))
        BY <1>2 DEF Request
    <2>2. PICK refused \in BOOLEAN : refused = (unreachable \/ (Enforcing /\ <<h, p>> \notin Allowed))
        OBVIOUS
    <2> DEFINE l == Line("proxy", "request", h, p, refused)
    <2>3. p \in Nat
        BY ReportOK
    <2>4. Write("proxy", l) /\ current["proxy"] # 0 /\ UNCHANGED <<conf, reader, kept>>
        BY <1>2, <2>1, <2>2 DEF Request, Room
    <2>5. l = Line("proxy", "request", h, p, refused) /\ "proxy" \in Logs
        BY DEF Logs
    <2> HIDE DEF l
    <2>6. l \in Lines /\ l.number = count["proxy"] + 1 /\ l.kind = "request"
        <3>1. count["proxy"] + 1 \in Nat
            BY <2>5 DEF LogsInv
        <3> QED BY <2>3, <2>5, <3>1 DEF Line, Lines
    <2>7. LineOf("proxy", l)
        BY <2>6 DEF LineOf
    <2> QED BY <2>4, <2>5, <2>6, <2>7, WriteHolds
<1> QED BY <1>1, <1>2

LEMMA KeeperHolds ==
    ASSUME LogsInv, Stop \/ Restart \/ \E log \in Logs : Rotate(log) \/ Reopen(log)
    PROVE  LogsInv'
<1>1. /\ files \in [Logs -> Seq(Seq(Lines))] /\ count \in [Logs -> Nat]
      /\ archived \in [Logs -> Seq(Nat)] /\ current \in [Logs -> Nat]
    BY DEF LogsInv
<1>2. ASSUME NEW log \in Logs, Rotate(log) PROVE LogsInv'
    <2>1. Archived(log)
        BY <1>1, <1>2 DEF Rotate, Archive, Archived
    <2>2. ASSUME NEW x \in Logs, x # log PROVE Kept(x)
        BY <1>1, <1>2, <2>2 DEF Rotate, Kept
    <2>3. /\ DOMAIN files' = Logs /\ files' = [x \in Logs |-> files'[x]]
          /\ DOMAIN count' = Logs /\ count' = [x \in Logs |-> count'[x]]
          /\ DOMAIN archived' = Logs /\ archived' = [x \in Logs |-> archived'[x]]
          /\ DOMAIN current' = Logs /\ current' = [x \in Logs |-> current'[x]]
        BY <1>1, <1>2 DEF Rotate
    <2>4. UNCHANGED <<conf, reader>>
        BY <1>2 DEF Rotate
    <2> QED BY <2>1, <2>2, <2>3, <2>4, ContainerMoves
<1>3. ASSUME NEW log \in Logs, Reopen(log) PROVE LogsInv'
    <2>1. Opened(log)
        BY <1>1, <1>3 DEF Reopen, Fresh, Opened
    <2>2. ASSUME NEW x \in Logs, x # log PROVE Kept(x)
        BY <1>1, <1>3, <2>2 DEF Reopen, Kept
    <2>3. /\ DOMAIN files' = Logs /\ files' = [x \in Logs |-> files'[x]]
          /\ DOMAIN count' = Logs /\ count' = [x \in Logs |-> count'[x]]
          /\ DOMAIN archived' = Logs /\ archived' = [x \in Logs |-> archived'[x]]
          /\ DOMAIN current' = Logs /\ current' = [x \in Logs |-> current'[x]]
        BY <1>1, <1>3 DEF Reopen
    <2>4. UNCHANGED <<conf, reader>>
        BY <1>3 DEF Reopen
    <2> QED BY <2>1, <2>2, <2>3, <2>4, ContainerMoves
<1>4. CASE Restart
    <2>1. PICK killed \in SUBSET {log \in Logs : current[log] # 0 /\ files[log][current[log]] # <<>>} :
             /\ archived' = [log \in Logs |-> IF log \in killed THEN Archive(log) ELSE archived[log]]
             /\ current' = [log \in Logs |-> IF log \in killed THEN 0 ELSE current[log]]
        BY <1>4 DEF Restart
    <2>2. UNCHANGED <<conf, files, count, reader>>
        BY <1>4 DEF Restart
    <2>3. ASSUME NEW x \in Logs PROVE Kept(x) \/ Archived(x)
        <3>1. CASE x \in killed
            BY <2>1, <2>2, <3>1 DEF Archived, Archive
        <3>2. CASE x \notin killed
            BY <2>1, <2>2, <3>2 DEF Kept
        <3> QED BY <3>1, <3>2
    <2>4. /\ DOMAIN files' = Logs /\ files' = [x \in Logs |-> files'[x]]
          /\ DOMAIN count' = Logs /\ count' = [x \in Logs |-> count'[x]]
        BY <1>1, <2>2
    <2>5. /\ DOMAIN archived' = Logs /\ archived' = [x \in Logs |-> archived'[x]]
          /\ DOMAIN current' = Logs /\ current' = [x \in Logs |-> current'[x]]
        BY <2>1
    <2> QED BY <2>2, <2>3, <2>4, <2>5, ContainerMoves
<1>5. CASE Stop
    <2>1. UNCHANGED <<conf, files, count, archived, current, reader>>
        BY <1>5 DEF Stop, kept
    <2> QED BY <2>1 DEF LogsInv, FilesOK, LineOf, Enforcing
<1> QED BY <1>2, <1>3, <1>4, <1>5

LEMMA ReaderMoves ==
    ASSUME LogsInv, NEW log \in Logs, NEW q, ReaderOK(q, files[log], current[log]),
           reader' = [reader EXCEPT ![log] = q], UNCHANGED <<conf, files, count, archived, current>>
    PROVE  LogsInv'
<1>1. /\ conf \in Configurations /\ files \in [Logs -> Seq(Seq(Lines))] /\ count \in [Logs -> Nat]
      /\ archived \in [Logs -> Seq(Nat)] /\ current \in [Logs -> Nat] /\ reader \in [Logs -> Readers]
    BY DEF LogsInv
<1>2. reader' \in [Logs -> Readers] /\ \A x \in Logs : reader'[x] = IF x = log THEN q ELSE reader[x]
    BY <1>1 DEF ReaderOK
<1>3. ASSUME NEW x \in Logs
      PROVE  /\ FilesOK(x, files'[x], count'[x], archived'[x], current'[x])
             /\ ReaderOK(reader'[x], files'[x], current'[x])
    BY <1>2 DEF LogsInv
<1> QED BY <1>1, <1>2, <1>3, LogsKeep

\* A reader that has nothing to read, or a list of files, and has opened none.
LEMMA UnreadFacts ==
    /\ Unread \in Readers /\ Unread.pc = "idle" /\ Unread.todo = <<>> /\ Unread.last = 0 /\ Unread.read = <<>>
    /\ Unread.listed = {} /\ Unread.opened = {}
BY DEF Unread, Readers

LEMMA ListedOK ==
    ASSUME NEW fs, NEW cur \in Nat, NEW q \in Readers, q.read = <<>>, q.opened = {},
           q.pc = IF q.todo = <<>> THEN "ended" ELSE "reading",
           \A k \in DOMAIN q.todo : q.todo[k] # 0 =>
               q.todo[k] \in DOMAIN fs /\ (\A j \in 1..(k - 1) : q.todo[j] < q.todo[k]),
           \A k \in DOMAIN q.todo : q.todo[k] = 0 =>
               k = Len(q.todo) /\ (cur # 0 => \A j \in 1..(k - 1) : q.todo[j] < cur),
           q.last # 0 => q.last \in DOMAIN fs,
           \A n \in q.listed :
               \/ \E k \in DOMAIN q.todo : q.todo[k] # 0 /\ n \in Numbers(fs[q.todo[k]])
               \/ q.last # 0 /\ n \in Numbers(fs[q.last])
    PROVE  ReaderOK(q, fs, cur)
<1>1. DOMAIN q.read = {}
    OBVIOUS
<1>2. q.pc # "idle" /\ (q.pc = "reading" => q.todo # <<>>) /\ (q.pc = "ended" => q.todo = <<>>)
    OBVIOUS
<1>3. \A n \in q.listed :
          \/ n \in Numbers(q.read)
          \/ \E k \in DOMAIN q.todo : q.todo[k] # 0 /\ n \in Numbers(fs[q.todo[k]])
          \/ q.last # 0 /\ q.last \notin q.opened /\ n \in Numbers(fs[q.last])
    OBVIOUS
<1> QED BY <1>1, <1>2, <1>3 DEF ReaderOK

LEMMA ListHolds == ASSUME LogsInv, NEW log \in Logs, List(log) PROVE LogsInv'
<1> DEFINE r == reader[log]
           fs == files[log]
           arch == archived[log]
           cur == current[log]
<1>1. FilesOK(log, fs, count[log], arch, cur) /\ ReaderOK(r, fs, cur) /\ r.pc = "idle" /\ r = Unread
      /\ UNCHANGED <<conf, files, count, archived, current>>
    BY DEF LogsInv, List, Reading, ReaderOK, written
<1>2. cur \in Nat /\ Len(arch) \in Nat /\ DOMAIN arch = 1..Len(arch) /\ \A i \in DOMAIN arch : arch[i] \in Nat
    BY <1>1, FilesFacts
<1>3. CASE conf.engine = "explicit"
    <2> DEFINE todo == <<0>>
               q == [r EXCEPT !.pc = "reading", !.todo = todo]
    <2>1. reader' = [reader EXCEPT ![log] = q]
        BY <1>3 DEF List
    <2>2. todo \in Seq(Nat) /\ todo # <<>> /\ DOMAIN todo = {1} /\ todo[1] = 0 /\ Len(todo) = 1
        OBVIOUS
    <2> HIDE DEF todo
    <2>3. /\ q \in Readers /\ q.pc = "reading" /\ q.todo = todo /\ q.last = 0 /\ q.read = <<>>
          /\ q.listed = {} /\ q.opened = {}
        BY <1>1, <2>2, UnreadFacts DEF Readers
    <2> HIDE DEF q
    <2>4. \A j \in 1..(1 - 1) : FALSE
        OBVIOUS
    <2>5. ReaderOK(q, fs, cur)
        BY <1>2, <2>2, <2>3, <2>4, ListedOK
    <2> QED BY <1>1, <2>1, <2>5, ReaderMoves
<1>4. CASE conf.engine # "explicit" /\ ~container.up
    <2> DEFINE q == [r EXCEPT !.pc = "failed"]
    <2>1. reader' = [reader EXCEPT ![log] = q]
        BY <1>4 DEF List
    <2>2. /\ q \in Readers /\ q.pc = "failed" /\ q.todo = <<>> /\ q.last = 0 /\ q.read = <<>> /\ q.opened = {}
        BY <1>1, UnreadFacts DEF Readers
    <2> HIDE DEF q
    <2>3. ReaderOK(q, fs, cur)
        BY <2>2 DEF ReaderOK
    <2> QED BY <1>1, <2>1, <2>3, ReaderMoves
<1>5. CASE conf.engine # "explicit" /\ container.up
    <2> DEFINE todo == ParseLogSegments(log)
               listed == UNION {Numbers(fs[f]) : f \in Listing(log)}
               q == [r EXCEPT !.pc = IF todo = <<>> THEN "ended" ELSE "reading",
                              !.todo = todo, !.last = cur, !.listed = listed]
    <2>1. reader' = [reader EXCEPT ![log] = q]
        BY <1>5 DEF List
    <2>2. /\ todo \in Seq(Nat)
          /\ \A k \in DOMAIN todo : \/ k \in DOMAIN arch /\ todo[k] = arch[k]
                                    \/ cur # 0 /\ k = Len(todo) /\ todo[k] = 0
          /\ \A k \in DOMAIN arch : k \in DOMAIN todo /\ todo[k] = arch[k]
        <3>1. arch \in Seq(Nat)
            BY <1>1 DEF FilesOK
        <3>2. CASE cur # 0
            <4>1. todo = arch \o <<0>>
                BY <3>2 DEF ParseLogSegments
            <4> HIDE DEF todo
            <4> DEFINE one == <<0>>
            <4>2. one \in Seq(Nat) /\ Len(one) = 1 /\ one[1] = 0 /\ todo = arch \o one
                BY <4>1
            <4> HIDE DEF one
            <4>3. PICK b \in Nat : b = Len(arch)
                BY <1>2
            <4>4. todo \in Seq(Nat) /\ Len(todo) = b + 1
                  /\ \A k \in 1..(b + 1) : todo[k] = IF k <= b THEN arch[k] ELSE one[k - b]
                BY <3>1, <4>1, <4>2, <4>3, ConcatProperties
            <4>5. DOMAIN todo = 1..(b + 1) /\ DOMAIN arch = 1..b
                BY <1>2, <4>3, <4>4
            <4>6. todo[b + 1] = 0 /\ \A k \in 1..b : todo[k] = arch[k]
                <5>1. todo[b + 1] = one[b + 1 - b] /\ b + 1 - b = 1
                    BY <4>4
                <5> QED BY <4>2, <4>4, <5>1
            <4>7. \A k \in 1..(b + 1) : k \in 1..b \/ k = b + 1
                OBVIOUS
            <4> QED BY <3>2, <4>4, <4>5, <4>6, <4>7
        <3>3. CASE cur = 0
            <4>1. todo = arch
                BY <3>1, <3>3 DEF ParseLogSegments
            <4> HIDE DEF todo
            <4> QED BY <3>1, <4>1
        <3> QED BY <3>2, <3>3
    <2>3. \A n \in listed : \/ \E k \in DOMAIN arch : n \in Numbers(fs[arch[k]])
                            \/ cur # 0 /\ n \in Numbers(fs[cur])
        BY DEF Listing
    <2>4. listed \in SUBSET Nat
        <3>1. \A f \in Listing(log) : f \in DOMAIN fs
            <4>1. \A i \in DOMAIN arch : arch[i] \in DOMAIN fs
                BY <1>1 DEF FilesOK
            <4>2. cur # 0 => cur \in DOMAIN fs
                BY <1>1, FilesFacts
            <4> QED BY <4>1, <4>2 DEF Listing
        <3>2. \A f \in DOMAIN fs : \A i \in DOMAIN fs[f] : fs[f][i].number \in Nat
            BY <1>1, FilesFacts
        <3>3. \A f \in DOMAIN fs : Numbers(fs[f]) \subseteq Nat
            BY <3>2 DEF Numbers
        <3> QED BY <3>1, <3>3
    <2> HIDE DEF todo, listed
    <2>5. /\ q \in Readers /\ q.pc = (IF q.todo = <<>> THEN "ended" ELSE "reading") /\ q.todo = todo /\ q.last = cur
          /\ q.read = <<>> /\ q.listed = listed /\ q.opened = {}
        BY <1>1, <1>2, <2>2, <2>4, UnreadFacts DEF Readers
    <2> HIDE DEF q
    <2>6. \A k \in DOMAIN arch : arch[k] # 0 /\ arch[k] \in DOMAIN fs /\ (cur # 0 => arch[k] < cur)
        <3>1. 0 \notin DOMAIN fs
            BY <1>1, FilesFacts
        <3> QED BY <1>1, <3>1 DEF FilesOK
    <2>7. \A k \in DOMAIN todo : k \in Nat
        BY <2>2
    <2>8. ASSUME NEW k \in DOMAIN q.todo, q.todo[k] # 0
          PROVE  q.todo[k] \in DOMAIN fs /\ \A j \in 1..(k - 1) : q.todo[j] < q.todo[k]
        <3>1. k \in DOMAIN arch /\ q.todo[k] = arch[k]
            BY <2>2, <2>5, <2>8
        <3>2. ASSUME NEW j \in 1..(k - 1) PROVE q.todo[j] < q.todo[k]
            <4>1. j \in DOMAIN arch /\ j < k
                BY <1>2, <3>1
            <4>2. q.todo[j] = arch[j] /\ arch[j] < arch[k]
                BY <1>1, <2>2, <2>5, <3>1, <4>1 DEF FilesOK
            <4> QED BY <3>1, <4>2
        <3> QED BY <2>6, <3>1, <3>2
    <2>9. ASSUME NEW k \in DOMAIN q.todo, q.todo[k] = 0
          PROVE  k = Len(q.todo) /\ (cur # 0 => \A j \in 1..(k - 1) : q.todo[j] < cur)
        <3>1. cur # 0 /\ k = Len(todo)
            BY <2>2, <2>5, <2>6, <2>9
        <3>2. ASSUME NEW j \in 1..(k - 1) PROVE q.todo[j] < cur
            <4>1. j \in DOMAIN todo /\ j # Len(todo)
                BY <2>2, <2>5, <2>9, <3>1
            <4> QED BY <2>2, <2>5, <2>6, <3>1, <4>1
        <3> QED BY <2>5, <3>1, <3>2
    <2>10. q.last # 0 => q.last \in DOMAIN fs
        BY <1>1, <2>5, FilesFacts
    <2>11. \A n \in q.listed :
               \/ \E k \in DOMAIN q.todo : q.todo[k] # 0 /\ n \in Numbers(fs[q.todo[k]])
               \/ q.last # 0 /\ n \in Numbers(fs[q.last])
        <3> SUFFICES ASSUME NEW n \in listed, ~(cur # 0 /\ n \in Numbers(fs[cur]))
                     PROVE  \E k \in DOMAIN todo : todo[k] # 0 /\ n \in Numbers(fs[todo[k]])
            BY <2>5
        <3>1. PICK k \in DOMAIN arch : n \in Numbers(fs[arch[k]])
            BY <2>3
        <3>2. k \in DOMAIN todo /\ todo[k] = arch[k] /\ arch[k] # 0
            BY <2>2, <2>6
        <3> QED BY <3>1, <3>2
    <2>12. ReaderOK(q, fs, cur)
        BY <1>2, <2>5, <2>8, <2>9, <2>10, <2>11, ListedOK
    <2> HIDE DEF fs, cur, arch
    <2> QED BY <1>1, <2>1, <2>12, ReaderMoves DEF fs, cur
<1> QED BY <1>3, <1>4, <1>5

LEMMA PrintHolds == ASSUME LogsInv, NEW log \in Logs, Cat(log) \/ Break(log) PROVE LogsInv'
<1> DEFINE r == reader[log]
           fs == files[log]
           cur == current[log]
           f == NextFile(log)
<1>1. /\ FilesOK(log, fs, count[log], archived[log], cur) /\ ReaderOK(r, fs, cur) /\ r.pc = "reading"
      /\ UNCHANGED <<conf, files, count, archived, current>>
    BY DEF LogsInv, Cat, Break, Reading, written
<1>2. r \in Readers
    BY <1>1 DEF ReaderOK
<1>3. ASSUME f # 0 PROVE f \in DOMAIN fs /\ f = IF Head(r.todo) = 0 THEN cur ELSE Head(r.todo)
    <2>1. CASE Head(r.todo) = 0
        <3>1. f = cur
            BY <2>1 DEF NextFile, FileNamed
        <3> QED BY <1>1, <1>3, <2>1, <3>1, FilesFacts
    <2>2. CASE Head(r.todo) # 0
        <3>1. f = Head(r.todo) /\ f \in Range(archived[log])
            BY <1>3, <2>2 DEF NextFile, FileNamed
        <3> QED BY <1>1, <2>2, <3>1 DEF FilesOK, Range
    <2> QED BY <2>1, <2>2
<1> DEFINE ls == IF conf.engine = "explicit" THEN Numbers(fs[f]) ELSE r.listed
           next == IF Len(r.todo) = 1 THEN "ended" ELSE "reading"
<1>4. ls \in {r.listed, Numbers(fs[f])}
    OBVIOUS
<1>5. CASE Cat(log) /\ container.up /\ f # 0
    <2> DEFINE m == Len(fs[f])
               q == After(r, SubSeq(fs[f], 1, m), f, ls, next)
    <2>1. reader' = [reader EXCEPT ![log] = q]
        BY <1>5 DEF Cat, Printed, After
    <2>2. m \in 0..Len(fs[f])
        <3>1. Len(fs[f]) \in Nat
            BY <1>1, <1>3, <1>5, FilesFacts
        <3> QED BY <3>1
    <2>3. next \in {"reading", "ended", "failed"}
        OBVIOUS
    <2> HIDE DEF fs, cur, r, f, ls
    <2>4. ReaderOK(q, fs, cur)
        <3>1. next = IF Len(r.todo) = 1 THEN "ended" ELSE "reading"
            OBVIOUS
        <3> HIDE DEF next
        <3> QED BY <1>1, <1>3, <1>4, <1>5, <2>2, <2>3, <3>1, AfterOK
    <2> HIDE DEF q
    <2> QED BY <1>1, <2>1, <2>4, ReaderMoves DEF fs, cur
<1>6. CASE Cat(log) /\ ~(container.up /\ f # 0)
    <2> DEFINE q == [r EXCEPT !.pc = "failed"]
    <2>1. reader' = [reader EXCEPT ![log] = q]
        BY <1>6 DEF Cat
    <2>2. /\ q \in Readers /\ q.pc = "failed" /\ q.todo = r.todo /\ q.last = r.last /\ q.read = r.read
          /\ q.opened = r.opened
        BY <1>2 DEF Readers
    <2> HIDE DEF q
    <2>3. ReaderOK(q, fs, cur)
        BY <1>1, <2>2 DEF ReaderOK
    <2> QED BY <1>1, <2>1, <2>3, ReaderMoves
<1>7. CASE Break(log)
    <2>1. PICK m \in 0..Len(fs[f]) : reader' = [reader EXCEPT ![log] = [Printed(log, m) EXCEPT !.pc = "failed"]]
        BY <1>7 DEF Break
    <2> DEFINE q == After(r, SubSeq(fs[f], 1, m), f, ls, "failed")
    <2>2. [Printed(log, m) EXCEPT !.pc = "failed"] = q
        BY <1>2 DEF Printed, After, Readers
    <2>3. f # 0
        BY <1>7 DEF Break
    <2> HIDE DEF fs, cur, r, f, ls
    <2>4. ReaderOK(q, fs, cur)
        <3> DEFINE pc == "failed"
        <3>1. pc \in {"reading", "ended", "failed"} /\ pc = "failed" /\ q = After(r, SubSeq(fs[f], 1, m), f, ls, pc)
            OBVIOUS
        <3> HIDE DEF pc, q
        <3> QED BY <1>1, <1>3, <1>4, <2>1, <2>3, <3>1, AfterOK
    <2> HIDE DEF q
    <2> QED BY <1>1, <2>1, <2>2, <2>4, ReaderMoves DEF fs, cur
<1> QED BY <1>5, <1>6, <1>7

LEMMA LogsInit == Init => LogsInv
<1> SUFFICES ASSUME Init PROVE LogsInv
    OBVIOUS
<1> DEFINE fs == <<<<>>>>
           arch == <<>>
<1>1. /\ conf \in Configurations
      /\ files = [log \in Logs |-> fs] /\ count = [log \in Logs |-> 0]
      /\ archived = [log \in Logs |-> arch] /\ current = [log \in Logs |-> 1]
      /\ reader = [log \in Logs |-> Unread]
    BY DEF Init
<1>2. fs \in Seq(Seq(Lines)) /\ Len(fs) = 1 /\ DOMAIN fs = {1} /\ DOMAIN fs[1] = {}
    OBVIOUS
<1>3. arch \in Seq(Nat) /\ DOMAIN arch = {}
    OBVIOUS
<1> HIDE DEF fs, arch
<1>4. \A log : FilesOK(log, fs, 0, arch, 1)
    BY <1>2, <1>3 DEF FilesOK, InOrder
<1>5. ReaderOK(Unread, fs, 1)
    <2>1. DOMAIN Unread.todo = {} /\ DOMAIN Unread.read = {}
        BY UnreadFacts
    <2> QED BY <2>1, UnreadFacts DEF ReaderOK
<1>6. ASSUME NEW log \in Logs
      PROVE  /\ FilesOK(log, files[log], count[log], archived[log], current[log])
             /\ ReaderOK(reader[log], files[log], current[log])
    BY <1>1, <1>4, <1>5
<1>7. /\ files \in [Logs -> Seq(Seq(Lines))] /\ count \in [Logs -> Nat]
      /\ archived \in [Logs -> Seq(Nat)] /\ current \in [Logs -> Nat] /\ reader \in [Logs -> Readers]
    BY <1>1, <1>2, <1>3, UnreadFacts
<1> QED BY <1>1, <1>6, <1>7 DEF LogsInv

LEMMA LogsStay ==
    LogsInv /\ UNCHANGED <<conf, files, count, archived, current, reader>> => LogsInv'
BY DEF LogsInv, FilesOK, LineOf, Enforcing

LEMMA LogsStep == LogsInv /\ [Next]_vars => LogsInv'
<1> SUFFICES ASSUME LogsInv, [Next]_vars PROVE LogsInv'
    OBVIOUS
<1>1. CASE Container
    <2>1. CASE Start
        BY <2>1, StartHolds
    <2>2. CASE Stop \/ Restart \/ \E log \in Logs : Rotate(log) \/ Reopen(log)
        BY <2>2, KeeperHolds
    <2>3. CASE \E h \in Hosts : LookUp(h) \/ \E p \in Ports : Request(h, p)
        BY <2>3, RequestHolds
    <2> QED BY <1>1, <2>1, <2>2, <2>3 DEF Container
<1>2. CASE \E log \in Logs : List(log) \/ Cat(log) \/ Break(log)
    BY <1>2, ListHolds, PrintHolds
<1>3. CASE FindContainer \/ CopyScript \/ DockerFails \/ ScriptFails \/ Judge \/ UploadTrafficArtifact
    <2>1. UNCHANGED <<conf, files, count, archived, current, reader>>
        BY <1>3 DEF FindContainer, CopyScript, DockerFails, ScriptFails, Judge, UploadTrafficArtifact, written
    <2> QED BY <2>1, LogsStay
<1>4. CASE UNCHANGED vars
    <2>1. UNCHANGED <<conf, files, count, archived, current, reader>>
        BY <1>4 DEF vars
    <2> QED BY <2>1, LogsStay
<1> QED BY <1>1, <1>2, <1>3, <1>4 DEF Next, ReportStep

LEMMA LogsInvHolds == Spec => []LogsInv
BY LogsInit, LogsStep, PTL DEF Spec

LEMMA VerdictStep == StepInv /\ VerdictInv /\ [Next]_vars => VerdictInv'
<1> SUFFICES ASSUME StepInv, VerdictInv, [Next]_vars PROVE VerdictInv'
    OBVIOUS
<1>1. CASE \E log \in Logs : List(log) \/ Cat(log) \/ Break(log)
    <2>1. step.pc = "script" /\ (step' = step \/ step' = [step EXCEPT !.failed = TRUE])
        BY <1>1 DEF List, Cat, Break, Reading
    <2>2. step'.pc = "script"
        BY <2>1 DEF StepInv, StepType
    <2> QED BY <2>2 DEF VerdictInv
<1>2. ASSUME UNCHANGED <<conf, reader>> PROVE ShouldFail' = ShouldFail /\ Ended' = Ended
    BY <1>2 DEF ShouldFail, Enforcing, BlockedRows, Unexpected, LogLooksPlausible, Requests, BlockedNames,
                RedundantBlockedDns, Ended
<1>3. CASE Container \/ UNCHANGED vars
    <2>1. UNCHANGED <<conf, reader, step>>
        BY <1>3 DEF vars, Container, Start, Stop, Restart, LookUp, Request, Rotate, Reopen
    <2> QED BY <1>2, <2>1 DEF VerdictInv
<1>4. CASE FindContainer \/ CopyScript \/ DockerFails
    <2>1. step'.pc \in {"exited", "done"} => step'.failed
        BY <1>4 DEF FindContainer, CopyScript, DockerFails, StepInv, StepType
    <2> QED BY <2>1 DEF VerdictInv
<1>5. CASE ScriptFails
    <2>1. PICK log \in LogsOf(conf.engine) : reader[log].pc = "failed"
        BY <1>5 DEF ScriptFails
    <2>2. log \in Logs /\ reader'[log].pc = "failed"
        BY <1>5, <2>1 DEF ScriptFails, LogsOf, Logs
    <2> QED BY <2>2 DEF VerdictInv
<1>6. CASE Judge
    <2>1. Ended /\ UNCHANGED <<conf, reader>> /\ (step'.exit = 1 => ShouldFail)
        BY <1>6 DEF Judge, Ended, StepInv, StepType
    <2> QED BY <1>2, <2>1 DEF VerdictInv
<1>7. CASE UploadTrafficArtifact
    <2>1. step.pc = "exited" /\ UNCHANGED <<conf, reader>> /\ step'.exit = step.exit /\ step'.failed = step.failed
        BY <1>7 DEF UploadTrafficArtifact, StepInv, StepType
    <2> QED BY <1>2, <2>1 DEF VerdictInv
<1> QED BY <1>1, <1>3, <1>4, <1>5, <1>6, <1>7 DEF Next, ReportStep

LEMMA VerdictInvHolds == Spec => []VerdictInv
<1>1. Init => VerdictInv
    BY DEF Init, VerdictInv
<1> QED BY <1>1, VerdictStep, StepInvHolds, PTL DEF Spec

--------------------------------------------------------------------------------
(* The theorems.                                                            *)

\* What is read is a line of the log, in a file the log still or once had.
LEMMA ReadIsWritten ==
    ASSUME LogsInv, NEW log \in Logs, NEW l \in Range(reader[log].read)
    PROVE  l \in Ever(log) /\ LineOf(log, l) /\ l \in Lines
<1>1. FilesOK(log, files[log], count[log], archived[log], current[log])
      /\ ReaderOK(reader[log], files[log], current[log])
    BY DEF LogsInv
<1>2. PICK i \in DOMAIN reader[log].read : l = reader[log].read[i]
    BY DEF Range
<1>3. PICK f \in reader[log].opened : l \in Range(files[log][f])
    BY <1>1, <1>2 DEF ReaderOK
<1>4. f \in DOMAIN files[log]
    BY <1>1 DEF ReaderOK
<1>5. PICK j \in DOMAIN files[log][f] : l = files[log][f][j]
    BY <1>3 DEF Range
<1>6. LineOf(log, l)
    BY <1>1, <1>4, <1>5 DEF FilesOK
<1>7. l \in Lines
    BY <1>1, <1>4, <1>5, FilesFacts
<1> QED BY <1>3, <1>4, <1>6, <1>7 DEF Ever

\* A log that was read to its end was read with all that was listed of it.
LEMMA ListedIsRead ==
    ASSUME LogsInv, NEW log \in Logs, reader[log].pc = "ended", NEW l \in MustBeRead(log)
    PROVE  l \in Range(reader[log].read) /\ LineOf(log, l)
<1> DEFINE r == reader[log]
           fs == files[log]
           missed == IF r.last # 0 /\ r.last \notin r.opened THEN Numbers(fs[r.last]) ELSE {}
<1>1. FilesOK(log, fs, count[log], archived[log], current[log]) /\ ReaderOK(r, fs, current[log])
    BY DEF LogsInv
<1>2. PICK f \in DOMAIN fs : l \in Range(fs[f])
    BY DEF MustBeRead
<1>3. l.number \in r.listed \ missed
    BY DEF MustBeRead
<1>4. DOMAIN r.todo = {}
    BY <1>1 DEF ReaderOK
<1>5. l.number \in Numbers(r.read)
    BY <1>1, <1>3, <1>4 DEF ReaderOK
<1>6. PICK x \in Range(r.read) : x.number = l.number
    BY <1>5, NumbersOf
<1>7. PICK g \in DOMAIN fs : x \in Range(fs[g])
    <2>1. PICK i \in DOMAIN r.read : x = r.read[i]
        BY DEF Range
    <2> QED BY <1>1, <2>1 DEF ReaderOK
<1>8. PICK i \in DOMAIN fs[f] : l = fs[f][i]
    BY <1>2 DEF Range
<1>9. PICK j \in DOMAIN fs[g] : x = fs[g][j]
    BY <1>7 DEF Range
<1>10. f \in Nat /\ g \in Nat /\ i \in Nat /\ j \in Nat /\ l.number \in Nat
    <2> HIDE DEF fs
    <2>1. DOMAIN fs \subseteq Nat /\ \A y \in DOMAIN fs : DOMAIN fs[y] \subseteq Nat
        <3>1. Len(fs) \in Nat /\ DOMAIN fs = 1..Len(fs)
              /\ \A y \in DOMAIN fs : Len(fs[y]) \in Nat /\ DOMAIN fs[y] = 1..Len(fs[y])
            BY <1>1, FilesFacts
        <3> QED BY <3>1
    <2>2. fs[f][i].number \in Nat
        BY <1>1, FilesFacts
    <2> QED BY <1>8, <2>1, <2>2
<1>11. x = l
    <2>0. InOrder(fs) /\ ~(l.number < l.number)
        BY <1>1, <1>10 DEF FilesOK
    <2> HIDE DEF fs
    <2>1. ~(f < g \/ (f = g /\ i < j))
        BY <1>6, <1>8, <1>9, <2>0 DEF InOrder
    <2>2. ~(g < f \/ (f = g /\ j < i))
        BY <1>6, <1>8, <1>9, <2>0 DEF InOrder
    <2>3. f = g /\ i = j
        BY <1>10, <2>1, <2>2
    <2> QED BY <1>8, <1>9, <2>3
<1> QED BY <1>6, <1>11, ReadIsWritten

\* However often a log is rotated while it is read, and whenever docker breaks
\* the stream, no line is read twice or out of order (rotated-log.ts).
THEOREM LinesReadOnce == Spec => []ReadOnceInOrder
<1>1. LogsInv => ReadOnceInOrder
    BY DEF LogsInv, ReaderOK, ReadOnceInOrder
<1> QED BY <1>1, LogsInvHolds, PTL

\* A step that passes under fail_on_blocked has passed over no refusal that was
\* in the logs when it listed them and that nobody expected (report-outcome.ts,
\* rotated-log.ts).
THEOREM NothingRefusedPasses == Spec => []RefusalsFail
<1>1. StepInv /\ LogsInv => RefusalsFail
    <2> SUFFICES ASSUME StepInv, LogsInv, Enforcing, conf.failOnBlocked, Passed,
                        NEW log \in LogsOf(conf.engine), NEW l \in MustBeRead(log), l.refused
                 PROVE  KnownToBeBlocked(l)
        BY DEF RefusalsFail
    <2>1. Ended /\ ~ShouldFail /\ log \in Logs /\ {"proxy", "names"} = Logs
        BY DEF StepInv, Passed, LogsOf, Logs
    <2>2. l \in Range(reader[log].read) /\ LineOf(log, l)
        BY <2>1, ListedIsRead DEF Ended
    <2>3. BlockedRows \subseteq conf.known
        BY <2>1 DEF ShouldFail, Unexpected
    <2>4. \A r \in Requests : r.refused => <<r.host, r.port>> \in conf.known
        BY <2>3 DEF BlockedRows
    <2>5. CASE log = "proxy"
        <3>1. l.kind = "request"
            BY <2>2, <2>5 DEF LineOf
        <3>2. l \in Requests
            BY <2>2, <2>5, <3>1 DEF Requests
        <3> QED BY <2>4, <3>2 DEF KnownToBeBlocked
    <2>6. CASE log = "names"
        <3>1. l.kind = "name" /\ l.port = 0 /\ Enforcing /\ \A p \in Ports : <<l.host, p>> \notin Allowed
            BY <2>2, <2>6 DEF LineOf
        <3>2. ASSUME NEW n \in Range(reader["names"].read), n.host = l.host PROVE n.refused
            <4>1. LineOf("names", n)
                BY <2>1, ReadIsWritten
            <4> QED BY <3>1, <3>2, <4>1 DEF LineOf
        <3>3. l.host \in BlockedNames
            <4>1. l.host \notin {n.host : n \in {k \in Range(reader["names"].read) : ~k.refused}}
                BY <3>2
            <4> QED BY <2>2, <2>6, <4>1 DEF BlockedNames
        <3>4. CASE RedundantBlockedDns(l.host)
            <4>1. PICK r \in Requests : r.refused /\ r.host = l.host
                BY <3>4 DEF RedundantBlockedDns
            <4> QED BY <2>4, <3>1, <4>1 DEF KnownToBeBlocked
        <3>5. CASE ~RedundantBlockedDns(l.host)
            <4>1. <<l.host, 0>> \in BlockedRows
                BY <3>3, <3>5 DEF BlockedRows
            <4> QED BY <2>3, <3>1, <4>1 DEF KnownToBeBlocked
        <3> QED BY <3>4, <3>5
    <2> QED BY <2>1, <2>5, <2>6
<1> QED BY <1>1, StepInvHolds, LogsInvHolds, PTL

\* A step that fails could not read a log, or met a refusal nobody expected, or
\* found no trace of a proxy that started (report-outcome.ts).
THEOREM FailsForAReason == Spec => []NoFalseAlarm
<1>1. StepInv /\ LogsInv /\ VerdictInv => NoFalseAlarm
    <2> SUFFICES ASSUME StepInv, LogsInv, Ended, ShouldFail
                 PROVE  \/ \E log \in Logs : \E l \in Ever(log) : l.refused /\ <<l.host, l.port>> \notin conf.known
                        \/ \A l \in MustBeRead("proxy") : l.kind # "start"
        BY DEF NoFalseAlarm, VerdictInv, ShouldFail
    <2>1. reader["proxy"].pc = "ended" /\ "proxy" \in Logs /\ "names" \in Logs
        BY DEF Ended, LogsOf, Logs
    <2>2. CASE BlockedRows = {}
        <3>1. ~LogLooksPlausible
            BY <2>2 DEF ShouldFail
        <3> QED BY <2>1, <3>1, ListedIsRead DEF LogLooksPlausible
    <2>3. CASE \E r \in Requests : r.refused /\ <<r.host, r.port>> \notin conf.known
        <3>1. PICK r \in Requests : r.refused /\ <<r.host, r.port>> \notin conf.known
            BY <2>3
        <3>2. r \in Range(reader["proxy"].read)
            BY DEF Requests
        <3> QED BY <2>1, <3>1, <3>2, ReadIsWritten
    <2>4. CASE \E h \in BlockedNames : <<h, 0>> \notin conf.known
        <3>1. PICK h \in BlockedNames : <<h, 0>> \notin conf.known
            BY <2>4
        <3>2. PICK l \in Range(reader["names"].read) :
                 l.host = h /\ h \notin {k.host : k \in {n \in Range(reader["names"].read) : ~n.refused}}
            BY DEF BlockedNames
        <3>3. l.refused
            BY <3>2
        <3>4. LineOf("names", l) /\ l \in Ever("names")
            BY <2>1, ReadIsWritten
        <3>5. l.port = 0
            BY <3>4 DEF LineOf
        <3> QED BY <2>1, <3>1, <3>2, <3>3, <3>4, <3>5
    <2>5. CASE BlockedRows # {}
        <3>1. PICK row \in BlockedRows : row \notin conf.known
            BY <2>5 DEF ShouldFail, Unexpected
        <3> QED BY <2>3, <2>4, <3>1 DEF BlockedRows
    <2> QED BY <2>2, <2>5
<1> QED BY <1>1, StepInvHolds, LogsInvHolds, VerdictInvHolds, PTL
================================================================================
