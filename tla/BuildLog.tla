------------------------------ MODULE BuildLog ------------------------------
(***************************************************************************)
(* StreamLog (bootc.go) composed with the builds of BootcBuild: a server-  *)
(* sent-events handler copies the log of a build to a client while         *)
(* runBuild and its children are still writing it.                         *)
(*                                                                         *)
(* The log appears after the build is in the map, grows while a stage      *)
(* runs, and may still grow after the status has become terminal: the      *)
(* FAILED line of a stage follows markFailed, and the clean-up writes too. *)
(* The reader's bufio.Scanner remembers that it met the end of the file or *)
(* a line longer than its buffer: from then on Scan returns false without  *)
(* reading.                                                                *)
(***************************************************************************)
EXTENDS BootcBuild, Sequences

CONSTANT MaxLines   \* bound on the lines of a log

ASSUME LogAssumption == MaxLines \in Nat

VARIABLES
    log,        \* each build.log, whether its lines are "short" or "long"
    writers,    \* builds that have their log open for writing
    final,      \* history: lines of a build's log when it became terminal
    reader      \* the handler of one stream

lvars == <<vars, log, writers, final, reader>>
logs == <<log, writers, final>>

NoLog == <<"absent">>

Logs == {NoLog} \cup UNION {[1..n -> {"short", "long"}] : n \in 0..MaxLines}

ReaderPcs == {"idle", "scan", "check", "sleep",
              "done",      \* the DONE event is sent
              "refused"}   \* 404, or the log cannot be opened

Reader == [pc        : ReaderPcs,
           of        : Jobs \cup {NoJob},   \* the build, from the map
           sent      : 0..MaxLines,         \* lines sent to the client
           exhausted : BOOLEAN,             \* Scanner.err is set
           late      : BOOLEAN]  \* history: the build's goroutine was over

NoReader == [pc |-> "idle", of |-> NoJob, sent |-> 0, exhausted |-> FALSE,
             late |-> FALSE]

LogTypeOK ==
    /\ log \in [Ids -> Logs]
    /\ writers \subseteq Jobs
    /\ final \in [Jobs -> 0..MaxLines]
    /\ reader \in Reader

LogInit ==
    /\ Init
    /\ log = [d \in Ids |-> NoLog]
    /\ writers = {}
    /\ final = [j \in Jobs |-> 0]
    /\ reader = NoReader

IsTerminal(status) == status \in {"complete", "failed"}

LinesOf(j) == IF log[job[j].id] = NoLog THEN 0 ELSE Len(log[job[j].id])

------------------------------------------------------------------------------
(* runBuild as its log shows it. *)

(* Every step of the build; the log is truncated when os.Create succeeds. *)
BuildStep(j) ==
    /\ RunBuild(j)
    /\ LET created == At(j, "log") /\ job'[j].status = "running" IN
          /\ log' = IF created THEN [log EXCEPT ![job[j].id] = <<>>] ELSE log
          /\ writers' = IF created THEN writers \cup {j} ELSE writers
    /\ final' = IF IsTerminal(job'[j].status) /\ ~IsTerminal(job[j].status)
                THEN [final EXCEPT ![j] = LinesOf(j)]
                ELSE final
    /\ UNCHANGED reader

(* A line of runBuild or of the child it runs. *)
WriteLine(j) ==
    /\ j \in writers /\ LinesOf(j) < MaxLines
    /\ \E line \in {"short", "long"} :
          log' = [log EXCEPT ![job[j].id] = Append(@, line)]
    /\ UNCHANGED <<vars, writers, final, reader>>

(* The deferred Close, registered first and hence called last. *)
CloseLog(j) ==
    /\ j \in writers /\ At(j, "end")
    /\ writers' = writers \ {j}
    /\ UNCHANGED <<vars, log, final, reader>>

------------------------------------------------------------------------------
(* StreamLog *)

To(pc) == reader' = [reader EXCEPT !.pc = pc]

AtEnd == reader.sent >= LinesOf(reader.of)

AtLongLine == ~AtEnd /\ log[job[reader.of].id][reader.sent + 1] = "long"

(* The scanner cannot go on: end of file, or a line beyond its buffer. *)
Stuck == reader.exhausted \/ AtEnd \/ AtLongLine

(* Mutant: the status is looked at before the log is read. *)
OpenLog_ChecksFirst(d) ==
    /\ reader.pc = "idle"
    /\ LET j == builds[d] IN
       reader' = IF j = NoJob \/ log[d] = NoLog
                 THEN [reader EXCEPT !.pc = "refused"]
                 ELSE [reader EXCEPT !.pc = "check", !.of = j,
                                     !.late = At(j, "end") /\ j \notin writers]
    /\ UNCHANGED <<vars, logs>>

OpenLog(d) ==
    /\ reader.pc = "idle"
    /\ LET j == builds[d] IN
       reader' = IF j = NoJob \/ log[d] = NoLog
                 THEN [reader EXCEPT !.pc = "refused"]
                 ELSE [reader EXCEPT !.pc = "scan", !.of = j,
                                     !.late = At(j, "end") /\ j \notin writers]
    /\ UNCHANGED <<vars, logs>>

(* Mutant: the scanner skips a line. *)
ScanLine_Skips ==
    /\ reader.pc = "scan" /\ ~Stuck
    /\ reader' = [reader EXCEPT !.sent = @ + 2]
    /\ UNCHANGED <<vars, logs>>

ScanLine ==
    /\ reader.pc = "scan" /\ ~Stuck
    /\ reader' = [reader EXCEPT !.sent = @ + 1]
    /\ UNCHANGED <<vars, logs>>

ScanFails ==
    /\ reader.pc = "scan" /\ Stuck
    /\ reader' = [reader EXCEPT !.exhausted = TRUE, !.pc = "check"]
    /\ UNCHANGED <<vars, logs>>

(* Mutant: the handler waits for more lines without looking at the status. *)
CheckDone_Never ==
    /\ reader.pc = "check"
    /\ To("sleep")
    /\ UNCHANGED <<vars, logs>>

(* The status is read under the lock, after the scan. *)
CheckDone ==
    /\ reader.pc = "check"
    /\ To(IF IsTerminal(job[reader.of].status) THEN "done" ELSE "sleep")
    /\ UNCHANGED <<vars, logs>>

WakeUp ==
    /\ reader.pc = "sleep"
    /\ To("scan")
    /\ UNCHANGED <<vars, logs>>

(* The client opens a stream again once the last one is over. *)
Reopen ==
    /\ reader.pc \in {"done", "refused"}
    /\ reader' = NoReader
    /\ UNCHANGED <<vars, logs>>

------------------------------------------------------------------------------
(* lima-web is killed: goroutines, open files and the stream are gone. *)
LogCrash ==
    /\ Crash
    /\ writers' = {}
    /\ reader' = NoReader
    /\ UNCHANGED <<log, final>>

Others ==
    /\ \/ Tick
       \/ \E j \in Jobs, n \in Names, c \in BOOLEAN : StartBuild(j, n, c)
       \/ \E n \in Names : Outside(n)
    /\ UNCHANGED <<logs, reader>>

StreamLog == ScanLine \/ ScanFails \/ CheckDone \/ WakeUp

LogNext ==
    \/ \E j \in Jobs : BuildStep(j) \/ WriteLine(j) \/ CloseLog(j)
    \/ \E d \in Ids : OpenLog(d)
    \/ StreamLog \/ Reopen
    \/ Others \/ LogCrash

LogSpec == LogInit /\ [][LogNext]_lvars

(* Builds go on (their children end) and so does the handler. *)
LogFairness ==
    /\ \A j \in Jobs : WF_lvars(BuildStep(j))
    /\ WF_lvars(StreamLog)

LogFairSpec == LogSpec /\ LogFairness

------------------------------------------------------------------------------
(* Properties *)

(* Every stream ends once the build has a terminal status, wherever the    *)
(* reader is when that happens and whatever the scanner met.               *)
StreamEnds ==
    reader.pc \in {"scan", "check", "sleep"} ~>
        reader.pc \in {"done", "refused", "idle"}

(* A stream opened after the build was over delivers the whole log before  *)
(* its DONE event (docs/api.md: for already-completed builds the full log  *)
(* is streamed), except from a line on that the scanner's buffer cannot    *)
(* hold, unless another build of the same ID has replaced the log.         *)
LateStreamIsComplete ==
    reader.pc = "done" /\ reader.late /\ OwnId(reader.of) =>
        AtEnd \/ AtLongLine

------------------------------------------------------------------------------
(* A claim of the repository that does not hold. *)

(* bootc.go:440: StreamLog follows new content until the build finishes.   *)
(* A stream that says DONE has sent what was in the log when the status    *)
(* became terminal, up to an overlong line.                                *)
FollowsNewContent ==
    reader.pc = "done" /\ OwnId(reader.of) =>
        reader.sent >= final[reader.of] \/ AtLongLine
=============================================================================
