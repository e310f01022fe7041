--------------------------------- MODULE Report ---------------------------------
(***************************************************************************)
(* The report step, from the lines the engines log to its exit status: what *)
(* a running container logs, s6-log keeps of it and a restart leaves of it, *)
(* how the step finds the container, reads its logs while they are still   *)
(* written to and rotated, and what it makes of them.                      *)
(*                                                                         *)
(* A file is the sequence of its lines, under a number that stays the same *)
(* when it is renamed; a line carries the number it was written as.        *)
(***************************************************************************)
EXTENDS Naturals, Sequences, FiniteSets, SequencesExt

CONSTANTS
    Hosts,
    Ports,
    Allowed,        \* the <<host, port>> the rules admit
    Configurations, \* the inputs: known is the <<host, port>> known_blocked_rules match,
                    \* port 0 for a name; and two bounds, on the lines the container
                    \* writes and on its restarts
    SegmentLines,   \* lines after which s6-log rotates a file
    Keep,           \* archives it keeps
    None

ASSUME ReportOK ==
    /\ Allowed \subseteq Hosts \X Ports
    /\ Configurations \subseteq
          [engine : {"inspect", "universal", "explicit"}, mode : {"restrict", "audit"}, failOnBlocked : BOOLEAN,
           known : SUBSET (Hosts \X (Ports \cup {0})), upload : BOOLEAN, lines : Nat, restarts : Nat]
    /\ Ports \subseteq Nat \ {0}
    /\ SegmentLines \in Nat \ {0} /\ Keep \in Nat \ {0}
    /\ None \notin Hosts

VARIABLES
    conf,       \* the inputs of the setup step and of the report step
    container,  \* whether it runs, whether its proxy does, how often it was restarted
    files,      \* [Logs -> the files ever written to]
    count,      \* [Logs -> how many lines were written to them]
    archived,   \* [Logs -> the numbers of the archives, oldest first]
    current,    \* [Logs -> the number of the file named current, 0 for none]
    reader,     \* [Logs -> how far readRotatedLog is]
    step        \* the report step

vars == <<conf, container, files, count, archived, current, reader, step>>
kept == <<archived, current>>
written == <<container, files, count, archived, current>>

Logs == {"proxy", "names"}

\* The logs the script of an engine reads.
LogsOf(engine) == IF engine = "inspect" THEN Logs ELSE {"proxy"}

Enforcing == conf.mode = "restrict"

--------------------------------------------------------------------------------
(* What the container logs. *)

Line(log, kind, host, port, refused) ==
    [number |-> count[log] + 1, kind |-> kind, host |-> host, port |-> port, refused |-> refused]

StartMarker == Line("proxy", "start", None, 0, FALSE)

Counted(log) == count' = [count EXCEPT ![log] = @ + 1]

Write(log, line) == files' = [files EXCEPT ![log][current[log]] = Append(@, line)] /\ Counted(log)

Room(log) == container.proxy /\ current[log] # 0 /\ count["proxy"] + count["names"] < conf.lines

Fresh(log) == Len(files[log]) + 1

\* The run scripts log that the proxy starts.  buildkitd's log is opened
\* afresh, and what was in it is gone.
Start ==
    /\ container.up /\ ~container.proxy
    /\ current["proxy"] # 0
    /\ container' = [container EXCEPT !.proxy = TRUE]
    /\ IF conf.engine = "explicit"
       THEN /\ files' = [files EXCEPT !["proxy"] = Append(@, <<StartMarker>>)]
            /\ current' = [current EXCEPT !["proxy"] = Fresh("proxy")]
            /\ Counted("proxy")
       ELSE Write("proxy", StartMarker) /\ UNCHANGED current
    /\ UNCHANGED <<conf, archived, reader, step>>

\* CoreDNS answers every name, and logs whether a rule names its host.
LookUp(h) ==
    /\ conf.engine = "inspect" /\ Room("names")
    /\ Write("names", Line("names", "name", h, 0, Enforcing /\ \A p \in Ports : <<h, p>> \notin Allowed))
    /\ UNCHANGED <<conf, container, kept, reader, step>>

\* Refused by the rules, or, where the proxy resolves for the build, because the
\* name has no address or an internal one, or its origin (inspect) does not
\* answer; buildkitd logs only its denials.
Request(h, p) ==
    /\ Room("proxy")
    /\ \E unreachable \in BOOLEAN :
        LET refused == unreachable \/ (Enforcing /\ <<h, p>> \notin Allowed) IN
        /\ unreachable => conf.engine # "explicit"
        /\ conf.engine = "explicit" => refused
        /\ Write("proxy", Line("proxy", "request", h, p, refused))
    /\ UNCHANGED <<conf, container, kept, reader, step>>

--------------------------------------------------------------------------------
(* s6-log, and the container it runs in. *)

\* current becomes an archive, and the oldest one may have to go.
Archive(log) ==
    LET all == Append(archived[log], current[log]) IN IF Len(all) > Keep THEN Tail(all) ELSE all

Rotate(log) ==
    /\ conf.engine # "explicit" /\ container.up
    /\ current[log] # 0 /\ Len(files[log][current[log]]) >= SegmentLines
    /\ archived' = [archived EXCEPT ![log] = Archive(log)]
    /\ current' = [current EXCEPT ![log] = 0]
    /\ UNCHANGED <<conf, container, files, count, reader, step>>

\* Only then is there a new one.
Reopen(log) ==
    /\ container.up /\ current[log] = 0
    /\ current' = [current EXCEPT ![log] = Fresh(log)]
    /\ files' = [files EXCEPT ![log] = Append(@, <<>>)]
    /\ UNCHANGED <<conf, container, count, archived, reader, step>>

Stop ==
    /\ container.up /\ container.restarts < conf.restarts
    /\ container' = [container EXCEPT !.up = FALSE, !.proxy = FALSE]
    /\ UNCHANGED <<conf, files, count, kept, reader, step>>

\* s6-log goes on with the file it left, or archives it when it was killed.
Restart ==
    /\ ~container.up
    /\ container' = [container EXCEPT !.up = TRUE, !.restarts = @ + 1]
    /\ \E killed \in SUBSET {log \in Logs : current[log] # 0 /\ files[log][current[log]] # <<>>} :
          /\ conf.engine = "explicit" => killed = {}
          /\ archived' = [log \in Logs |-> IF log \in killed THEN Archive(log) ELSE archived[log]]
          /\ current' = [log \in Logs |-> IF log \in killed THEN 0 ELSE current[log]]
    /\ UNCHANGED <<conf, files, count, reader, step>>

\* The run ends with the report step.
Container ==
  /\ step.pc \notin {"exited", "done"}
  /\ \/ Start \/ Stop \/ Restart
     \/ \E h \in Hosts : LookUp(h) \/ \E p \in Ports : Request(h, p)
     \/ \E log \in Logs : Rotate(log) \/ Reopen(log)

--------------------------------------------------------------------------------
(* The report step: report/src/main.ts. *)

\* Exactly one running container carries the labels, or the step fails.
FindContainer ==
    /\ step.pc = "finding"
    /\ step' = IF container.up THEN [step EXCEPT !.pc = "copying"]
               ELSE [step EXCEPT !.pc = "done", !.exit = 1, !.failed = TRUE]
    /\ UNCHANGED <<conf, written, reader>>

CopyScript ==
    /\ step.pc = "copying"
    /\ step' = [step EXCEPT !.pc = "script"]
    /\ UNCHANGED <<conf, written, reader>>

\* docker itself fails: ps, cp, the inspect for the container's env, or the exec
\* a reader lists its files with.
DockerFails ==
    /\ \/ step.pc \in {"finding", "copying"}
       \/ step.pc = "script" /\ \E log \in LogsOf(conf.engine) : reader[log].pc = "idle"
    /\ step' = IF step.pc = "script" THEN [step EXCEPT !.pc = "exited", !.exit = 1, !.failed = TRUE]
               ELSE [step EXCEPT !.pc = "done", !.exit = 1, !.failed = TRUE]
    /\ UNCHANGED <<conf, written, reader>>

--------------------------------------------------------------------------------
(* readRotatedLog and streamDockerLines. *)

Reading(log) == step.pc = "script" /\ log \in LogsOf(conf.engine)

Numbers(lines) == {lines[i].number : i \in DOMAIN lines}

\* Mutant of ParseLogSegments: current before the archives.
ParseLogSegmentsCurrentFirst(log) ==
    (IF current[log] # 0 THEN <<0>> ELSE <<>>) \o archived[log]

\* Mutant of ParseLogSegments: only current is read.
ParseLogSegmentsCurrent(log) == IF current[log] # 0 THEN <<0>> ELSE <<>>

\* What ls shows, by name: the archives in their order, then current, written 0.
ParseLogSegments(log) ==
    archived[log] \o IF current[log] # 0 THEN <<0>> ELSE <<>>

Listing(log) == {archived[log][i] : i \in DOMAIN archived[log]} \cup ({current[log]} \ {0})

\* The script of the explicit engine reads its one file and lists nothing.
List(log) ==
    /\ Reading(log) /\ reader[log].pc = "idle"
    /\ reader' = [reader EXCEPT ![log] =
          IF conf.engine = "explicit" THEN [@ EXCEPT !.pc = "reading", !.todo = <<0>>]
          ELSE IF container.up
               THEN [@ EXCEPT !.pc = IF ParseLogSegments(log) = <<>> THEN "ended" ELSE "reading",
                              !.todo = ParseLogSegments(log), !.last = current[log],
                              !.listed = UNION {Numbers(files[log][f]) : f \in Listing(log)}]
          ELSE [@ EXCEPT !.pc = "failed"]]
    /\ UNCHANGED <<conf, written, step>>

FileNamed(log, name) ==
    IF name = 0 THEN current[log] ELSE IF name \in Range(archived[log]) THEN name ELSE 0

NextFile(log) == FileNamed(log, Head(reader[log].todo))

\* The file after it is read, up to where cat got.
Printed(log, upTo) ==
    LET r == reader[log]
        f == NextFile(log)
    IN [r EXCEPT !.read = @ \o SubSeq(files[log][f], 1, upTo), !.todo = Tail(@), !.opened = @ \cup {f},
                 !.listed = IF conf.engine = "explicit" THEN Numbers(files[log][f]) ELSE @,
                 !.pc = IF Len(r.todo) = 1 THEN "ended" ELSE "reading"]

\* Mutant of Cat: what is not there is waited for.
CatWaits(log) ==
    /\ Reading(log) /\ reader[log].pc = "reading"
    /\ container.up /\ NextFile(log) # 0
    /\ reader' = [reader EXCEPT ![log] = Printed(log, Len(files[log][NextFile(log)]))]
    /\ UNCHANGED <<conf, written, step>>

\* cat prints the next file to its end, or finds none of that name.  A file
\* renamed while it is open is read as if it had been before.
Cat(log) ==
    /\ Reading(log) /\ reader[log].pc = "reading"
    /\ reader' = [reader EXCEPT ![log] =
          IF container.up /\ NextFile(log) # 0 THEN Printed(log, Len(files[log][NextFile(log)]))
          ELSE [@ EXCEPT !.pc = "failed"]]
    /\ UNCHANGED <<conf, written, step>>

\* Mutant of Break: an exit code other than 0 ends the stream like an end of file.
BreakQuietly(log) ==
    /\ Reading(log) /\ reader[log].pc = "reading" /\ container.up /\ NextFile(log) # 0
    /\ \E n \in 0..Len(files[log][NextFile(log)]) : reader' = [reader EXCEPT ![log] = Printed(log, n)]
    /\ step' = [step EXCEPT !.failed = TRUE]
    /\ UNCHANGED <<conf, written>>

\* docker exec ends with an error, or the container is killed, after lines
\* that were printed.
Break(log) ==
    /\ Reading(log) /\ reader[log].pc = "reading" /\ container.up /\ NextFile(log) # 0
    /\ \E n \in 0..Len(files[log][NextFile(log)]) :
          reader' = [reader EXCEPT ![log] = [Printed(log, n) EXCEPT !.pc = "failed"]]
    /\ step' = [step EXCEPT !.failed = TRUE]
    /\ UNCHANGED <<conf, written>>

\* The path of the traffic file is handed to every script; one writes it.
WritesTraffic == conf.upload /\ conf.engine = "inspect"

\* Mutant of ScriptFails: the traffic read so far is written all the same.
ScriptFailsWriting ==
    /\ step.pc = "script" /\ \E log \in LogsOf(conf.engine) : reader[log].pc = "failed"
    /\ step' = [step EXCEPT !.pc = "exited", !.exit = 1, !.traffic = WritesTraffic]
    /\ UNCHANGED <<conf, written, reader>>

\* What one reader throws ends the script, whatever the other is at.
ScriptFails ==
    /\ step.pc = "script" /\ \E log \in LogsOf(conf.engine) : reader[log].pc = "failed"
    /\ step' = [step EXCEPT !.pc = "exited", !.exit = 1]
    /\ UNCHANGED <<conf, written, reader>>

--------------------------------------------------------------------------------
(* The report data, and the outcome. *)

Requests == {l \in Range(reader["proxy"].read) : l.kind = "request"}

\* scanInspectDnsLog: one event for a name, allowed if it ever was.
BlockedNames ==
    {l.host : l \in Range(reader["names"].read)}
        \ {l.host : l \in {n \in Range(reader["names"].read) : ~n.refused}}

\* isRedundantBlockedDns: a request for the host was refused as well.
RedundantBlockedDns(h) == \E r \in Requests : r.refused /\ r.host = h

\* The rows of the blocked table, a refused name as port 0.
BlockedRows ==
    {<<r.host, r.port>> : r \in {q \in Requests : q.refused}}
        \cup {<<h, 0>> : h \in {n \in BlockedNames : ~RedundantBlockedDns(n)}}

\* annotateKnownBlocked.
Unexpected == BlockedRows \ conf.known

\* A trace of a proxy that ran: its start marker, or any line of its own.
LogLooksPlausible == \E l \in Range(reader["proxy"].read) : l.kind = "start"

\* determineBlockedOutcome.
ShouldFail ==
    /\ Enforcing /\ conf.failOnBlocked
    /\ IF BlockedRows = {} THEN ~LogLooksPlausible ELSE Unexpected # {}

Judge ==
    /\ step.pc = "script" /\ \A log \in LogsOf(conf.engine) : reader[log].pc = "ended"
    /\ step' = [step EXCEPT !.pc = "exited", !.exit = IF ShouldFail THEN 1 ELSE 0,
                            !.traffic = WritesTraffic]
    /\ UNCHANGED <<conf, written, reader>>

\* Mutant of UploadTrafficArtifact: a failed upload fails the step.
UploadDecides ==
    /\ step.pc = "exited"
    /\ \E uploaded \in BOOLEAN :
          step' = [step EXCEPT !.pc = "done", !.exit = IF conf.upload /\ ~uploaded THEN 1 ELSE @,
                               !.artifact = uploaded /\ conf.upload /\ step.traffic]
    /\ UNCHANGED <<conf, written, reader>>

\* Uploading is best effort, and the step ends with the script's own status.
UploadTrafficArtifact ==
    /\ step.pc = "exited"
    /\ \E uploaded \in BOOLEAN :
          /\ uploaded => conf.upload /\ step.traffic
          /\ step' = [step EXCEPT !.pc = "done", !.artifact = uploaded]
    /\ UNCHANGED <<conf, written, reader>>

ReportStep ==
    \/ FindContainer \/ CopyScript \/ DockerFails
    \/ \E log \in Logs : List(log) \/ Cat(log) \/ Break(log)
    \/ ScriptFails \/ Judge \/ UploadTrafficArtifact

--------------------------------------------------------------------------------
Unread == [pc |-> "idle", todo |-> <<>>, last |-> 0, read |-> <<>>, listed |-> {}, opened |-> {}]

\* The container was started by the setup step; its proxy may not be up yet,
\* and may never come up.
Init ==
    /\ conf \in Configurations
    /\ container = [up |-> TRUE, proxy |-> FALSE, restarts |-> 0]
    /\ files = [log \in Logs |-> <<<<>>>>]
    /\ count = [log \in Logs |-> 0]
    /\ archived = [log \in Logs |-> <<>>]
    /\ current = [log \in Logs |-> 1]
    /\ reader = [log \in Logs |-> Unread]
    /\ step = [pc |-> "finding", exit |-> 0, failed |-> FALSE, traffic |-> FALSE, artifact |-> FALSE]

Next == Container \/ ReportStep

Spec == Init /\ [][Next]_vars

\* Every command of the report ends, and node goes on when it has.
FairSpec ==
    /\ Spec
    /\ WF_vars(FindContainer) /\ WF_vars(CopyScript) /\ WF_vars(ScriptFails) /\ WF_vars(Judge)
    /\ WF_vars(UploadTrafficArtifact)
    /\ \A log \in Logs : WF_vars(List(log)) /\ WF_vars(Cat(log))

--------------------------------------------------------------------------------
(* Properties. *)

\* "Read every segment in dir as one time-ordered line stream" (rotated-log.ts):
\* however often the log is rotated meanwhile, no line is read twice or out of
\* the order it was written in.
ReadOnceInOrder ==
    \A log \in Logs : LET read == reader[log].read IN
        \A i, j \in DOMAIN read : i < j => read[i].number < read[j].number

Passed == step.pc = "done" /\ step.exit = 0

\* What was in the log when it was listed.  A file that was current then, and
\* was rotated away before cat came to current, is not among what is read.
MustBeRead(log) ==
    LET r == reader[log]
        missed == IF r.last # 0 /\ r.last \notin r.opened THEN Numbers(files[log][r.last]) ELSE {}
    IN {l \in UNION {Range(files[log][f]) : f \in DOMAIN files[log]} : l.number \in r.listed \ missed}

\* Known to be blocked: by name and port, or, a mere lookup, for what was
\* refused of the same host.
KnownToBeBlocked(l) ==
    \/ <<l.host, l.port>> \in conf.known
    \/ /\ l.kind = "name"
       /\ \E r \in Requests : r.refused /\ r.host = l.host /\ <<r.host, r.port>> \in conf.known

\* With fail_on_blocked the step does not pass over a refusal that was in the
\* logs when it came to them and that nobody expected: not one in an archive,
\* not a lookup without a connection, and not one behind a docker command that
\* failed.
RefusalsFail ==
    Enforcing /\ conf.failOnBlocked /\ Passed =>
        \A log \in LogsOf(conf.engine) : \A l \in MustBeRead(log) : l.refused => KnownToBeBlocked(l)

\* Nor does it take a log that could not be read, or a proxy that never ran,
\* for a build that was refused nothing.
SilenceIsNotQuiet ==
    Enforcing /\ conf.failOnBlocked /\ Passed =>
        /\ ~step.failed
        /\ \A log \in LogsOf(conf.engine) : reader[log].pc = "ended"
        /\ \E log \in Logs : \E l \in Range(reader[log].read) : l.kind = "start" \/ l.refused

Ever(log) == UNION {Range(files[log][f]) : f \in DOMAIN files[log]}

\* It fails only for what it cannot read, for a refusal nobody expected, or
\* for want of a trace of the proxy's start: never in audit, never for what
\* known_blocked_rules name, and never for an upload.
NoFalseAlarm ==
    step.pc = "done" /\ step.exit = 1 =>
        \/ step.failed \/ \E log \in Logs : reader[log].pc = "failed"
        \/ /\ Enforcing /\ conf.failOnBlocked
           /\ \/ \E log \in Logs : \E l \in Ever(log) : l.refused /\ <<l.host, l.port>> \notin conf.known
              \/ \A l \in MustBeRead("proxy") : l.kind # "start"

\* The traffic artifact is of a log that was read to its end.
ArtifactIsWhole == step.artifact => \A log \in Logs : reader[log].pc = "ended"

\* The step ends, whatever the container does meanwhile.
ReportEnds == <>(step.pc = "done")
================================================================================
