----------------------------- MODULE ScannerRun ------------------------------
(***************************************************************************)
(* The execution of one claimed scan by ScannerRunnerService               *)
(* (src/src/vulnerability-management/services/scanner-runner.service.ts):  *)
(* git clones the repository into a workspace, the tool runs over it, and  *)
(* its report and status are checked and stored.                           *)
(*                                                                         *)
(* Both commands are children of runCommand, leaders of a process group of *)
(* their own.  A timer or the output limit ends them: SIGTERM to the       *)
(* group, SIGKILL after a grace period.  runCommand's promise settles with *)
(* the close event, that is when the leader has exited and nobody holds    *)
(* its pipes.  The tools that scripts/vm-scan.sh starts run under timeout, *)
(* which gives them yet another process group, and write to files only.    *)
(*                                                                         *)
(* A step is what happens between two awaits of the service, or a step of  *)
(* the operating system.                                                   *)
(***************************************************************************)
EXTENDS Naturals

VARIABLES
    job,        \* what is to be run: chosen once
    pc,         \* where the service is
    cmd,        \* the runCommand call in progress, or the last one
    procs,      \* its processes
    files,      \* the directories and files of this execution
    outcome,    \* what processClaimedScan makes of it
    fault       \* whether a file system call of the service has failed

vars == <<job, pc, cmd, procs, files, outcome, fault>>

-----------------------------------------------------------------------------

\* kind: vm-scan.sh, a tool over a workspace, or a tool over a remote target.
\* target: a clone, a directory of the host, or none.  keep: keepWorkspace.
\* lenient: exit code 1 is acceptable.  token: git needs an askpass script.
Job ==
    {j \in [kind : {"script", "native", "direct"},
            target : {"clone", "local", "none"},
            keep : BOOLEAN, lenient : BOOLEAN, token : BOOLEAN] :
        /\ j.kind = "direct" <=> j.target = "none"
        /\ j.kind = "script" => j.lenient
        /\ j.token => j.target = "clone"}

Pcs == {"start", "clone", "askpass", "output", "scan", "recordFailure",
        "status", "report", "record", "persist", "save", "cleanup", "done"}

Outcomes == {"none", "completed", "failed", "timed_out"}

\* promise: pending, resolved, or rejected with timedOut unset or set.
\* reason: terminationReason.  timer, force: timers that are armed.
Command ==
    [promise : {"none", "pending", "resolved", "failed", "timed_out"},
     reason  : {"none", "timeout", "output_limit"},
     timer   : BOOLEAN,
     force   : BOOLEAN]

\* helper: a process the leader starts; apart: in a group of its own, without
\* the leader's pipes.  exit: "operational" is ZAP's code 3; a signal has no
\* exit code, which the service reads as 1.
Processes ==
    [leader : {"none", "running", "exited"},
     helper : {"none", "running", "gone"},
     apart  : BOOLEAN,
     exit   : {"none", "ok", "operational", "bad", "signal"}]

\* status: scanner-status/<scanner>.json;  summary: execution-summary.json;
\* stored: the status file among the artifacts that were kept.
Verdicts == {"none", "ok", "partial", "skipped", "failed", "timed_out"}
Files ==
    [workdir : BOOLEAN, askpass : BOOLEAN, status : Verdicts, summary : BOOLEAN,
     report : {"none", "valid", "invalid"}, stored : Verdicts]

Script  == job.kind = "script"
Pending == cmd.promise = "pending"
Running == procs.leader = "running"
HelperHoldsPipes == procs.helper = "running" /\ ~procs.apart

Goto(next) == pc' = next
End(next, verdict) == pc' = next /\ outcome' = verdict
Fault == fault' = TRUE

\* classifyFailure goes by an error's class and by its words: what a command
\* has printed, a file system or database error may speak of a timeout.
Worded == {"failed", "timed_out"}
EndWorded(next) == pc' = next /\ outcome' \in Worded

\* The verdict on a rejected command: the message is the command's output
\* only if it exited with a bad code.
Classified ==
    CASE cmd.promise = "timed_out" -> {"timed_out"}
      [] cmd.promise # "timed_out"
            /\ (cmd.reason = "output_limit" \/ procs.exit = "none") -> {"failed"}
      [] OTHER -> Worded

-----------------------------------------------------------------------------
(* runCommand.                                                             *)

\* spawn: the child runs with its timer armed, or an error event rejects.
Spawn(apart) ==
    \/ /\ cmd' = [promise |-> "pending", reason |-> "none", timer |-> TRUE,
                  force |-> FALSE]
       /\ procs' = [leader |-> "running", helper |-> "none", apart |-> apart,
                    exit |-> "none"]
    \/ /\ cmd' = [promise |-> "failed", reason |-> "none", timer |-> FALSE,
                  force |-> FALSE]
       /\ procs' = [leader |-> "none", helper |-> "none", apart |-> apart,
                    exit |-> "none"]

\* terminate: the first reason counts; SIGTERM is sent, the kill is scheduled.
Terminated(c, reason) ==
    IF c.reason = "none" THEN [c EXCEPT !.reason = reason, !.force = TRUE] ELSE c

TimerFires ==
    /\ cmd.timer
    /\ cmd' = Terminated([cmd EXCEPT !.timer = FALSE], "timeout")
    /\ UNCHANGED <<job, pc, procs, files, outcome, fault>>

OutputOverflows ==
    /\ Pending
    /\ Running \/ HelperHoldsPipes
    /\ cmd.reason = "none"
    /\ cmd' = Terminated(cmd, "output_limit")
    /\ UNCHANGED <<job, pc, procs, files, outcome, fault>>

\* Mutant: SIGKILL goes to the leader, not to its group.
ForceKillLeader ==
    /\ cmd.force
    /\ cmd' = [cmd EXCEPT !.force = FALSE]
    /\ procs' = [procs EXCEPT !.leader = "exited",
                   !.exit = IF Running THEN "signal" ELSE @]
    /\ UNCHANGED <<job, pc, files, outcome, fault>>

\* SIGKILL to the group.
ForceKill ==
    /\ cmd.force
    /\ cmd' = [cmd EXCEPT !.force = FALSE]
    /\ procs' = [procs EXCEPT !.leader = "exited",
                   !.exit = IF Running THEN "signal" ELSE @,
                   !.helper = IF HelperHoldsPipes THEN "gone" ELSE @]
    /\ UNCHANGED <<job, pc, files, outcome, fault>>

\* acceptableExitCodes
Acceptable(exit) ==
    \/ exit = "ok"
    \/ pc = "scan" /\ job.kind = "direct" /\ exit = "operational"
    \/ pc = "scan" /\ job.lenient /\ exit = "signal"

\* Mutant: the exit code is looked at before the reason.
SettledByExit(c) ==
    CASE Acceptable(procs.exit) -> "resolved"
      [] ~Acceptable(procs.exit) /\ c.reason = "timeout" -> "timed_out"
      [] OTHER -> "failed"

Settled(c) ==
    CASE c.reason = "timeout" -> "timed_out"
      [] c.reason = "output_limit" -> "failed"
      [] c.reason = "none" -> IF Acceptable(procs.exit) THEN "resolved" ELSE "failed"

\* Mutant: the pending SIGKILL is not called off.
CloseKeepingKill ==
    /\ Pending
    /\ procs.leader = "exited"
    /\ ~HelperHoldsPipes
    /\ cmd' = [cmd EXCEPT !.promise = Settled(cmd), !.timer = FALSE]
    /\ UNCHANGED <<job, pc, procs, files, outcome, fault>>

\* Mutant: the exit event settles, not the close event.
CloseAtExit ==
    /\ Pending
    /\ procs.leader = "exited"
    /\ cmd' = [cmd EXCEPT !.promise = Settled(cmd), !.timer = FALSE,
                          !.force = FALSE]
    /\ UNCHANGED <<job, pc, procs, files, outcome, fault>>

\* The close event clears both timers.
Close ==
    /\ Pending
    /\ procs.leader = "exited"
    /\ ~HelperHoldsPipes
    /\ cmd' = [cmd EXCEPT !.promise = Settled(cmd), !.timer = FALSE,
                          !.force = FALSE]
    /\ UNCHANGED <<job, pc, procs, files, outcome, fault>>

-----------------------------------------------------------------------------
(* The processes.                                                          *)

StartHelper ==
    /\ Running
    /\ procs.helper = "none"
    /\ procs' = [procs EXCEPT !.helper = "running"]
    /\ UNCHANGED <<job, pc, cmd, files, outcome, fault>>

\* git creates the workspace, which it removes itself when it fails.
GitWrites ==
    /\ pc = "clone"
    /\ Running
    /\ files' = [files EXCEPT !.workdir = ~@]
    /\ UNCHANGED <<job, pc, cmd, procs, outcome, fault>>

\* The tool under vm-scan.sh writes its report, or is stopped by timeout.
HelperEnds ==
    /\ procs.helper = "running"
    /\ procs' = [procs EXCEPT !.helper = "gone"]
    /\ \/ UNCHANGED files
       \/ /\ procs.apart
          /\ \E r \in {"valid", "invalid"} : files' = [files EXCEPT !.report = r]
    /\ UNCHANGED <<job, pc, cmd, outcome, fault>>

\* finish_scanner of vm-scan.sh: only a valid report makes a success, and an
\* invalid one is removed.  timeout is known by its exit code.
ScriptFinishes ==
    /\ Script /\ pc = "scan"
    /\ Running /\ procs.helper # "running"
    /\ files.status = "none"
    /\ \E v \in Verdicts \ {"none"} :
          /\ v \in {"ok", "partial"} => files.report = "valid"
          /\ v = "skipped" => procs.helper = "none"
          /\ v = "timed_out" => procs.helper = "gone"
          /\ files' = [files EXCEPT !.status = v,
                         !.report = IF v = "timed_out" \/ @ = "invalid"
                                    THEN "none" ELSE @]
    /\ UNCHANGED <<job, pc, cmd, procs, outcome, fault>>

ScriptSummarizes ==
    /\ Script /\ pc = "scan"
    /\ Running
    /\ files.status # "none"
    /\ files' = [files EXCEPT !.summary = TRUE]
    /\ UNCHANGED <<job, pc, cmd, procs, outcome, fault>>

\* The leader exits by itself: the script with 0 or 1 after its summary, git
\* and the tools as they like, the tools with or without a report.
LeaderExits ==
    /\ Running
    /\ \/ /\ Script /\ pc = "scan"
          /\ files.summary
          /\ procs' = [procs EXCEPT !.leader = "exited", !.exit = "ok"]
          /\ UNCHANGED files
       \/ /\ ~Script \/ pc = "clone"
          /\ \E exit \in {"ok", "operational", "bad"} :
                /\ exit = "operational" => job.kind = "direct"
                /\ exit = "ok" /\ pc = "clone" => files.workdir
                /\ procs' = [procs EXCEPT !.leader = "exited", !.exit = exit]
          /\ \/ UNCHANGED files
             \/ /\ pc = "scan"
                /\ \E r \in {"valid", "invalid"} :
                      files' = [files EXCEPT !.report = r]
    /\ UNCHANGED <<job, pc, cmd, outcome, fault>>

\* SIGTERM ends the leader if it does not ignore it; a shell exits with 143,
\* after the command it waits for.  And the system may kill it at any time.
LeaderKilled ==
    /\ Running
    /\ \/ cmd.reason # "none" /\ Script /\ procs.helper # "running"
          /\ procs' = [procs EXCEPT !.leader = "exited", !.exit = "bad"]
       \/ procs' = [procs EXCEPT !.leader = "exited", !.exit = "signal"]
    /\ UNCHANGED <<job, pc, cmd, files, outcome, fault>>

-----------------------------------------------------------------------------
(* prepareTarget and cloneRepository.                                      *)

\* A target that is refused has no workspace yet.
RefuseTarget ==
    /\ pc = "start"
    /\ End("done", "failed")
    /\ UNCHANGED <<job, cmd, procs, files, fault>>

UseTarget ==
    /\ pc = "start"
    /\ job.target # "clone"
    /\ Goto("output")
    /\ UNCHANGED <<job, cmd, procs, files, outcome, fault>>

StartClone ==
    /\ pc = "start"
    /\ job.target = "clone"
    /\ files' = [files EXCEPT !.askpass = job.token]
    /\ Spawn(FALSE)
    /\ Goto("clone")
    /\ UNCHANGED <<job, outcome, fault>>

CloneReturns ==
    /\ pc = "clone"
    /\ cmd.promise = "resolved"
    /\ Goto("askpass")
    /\ UNCHANGED <<job, cmd, procs, files, outcome, fault>>

\* The catch block removes the workspace first.
CloneFails ==
    /\ pc = "clone"
    /\ cmd.promise \in {"failed", "timed_out"}
    /\ \/ /\ files' = [files EXCEPT !.workdir = FALSE]
          /\ \E v \in Classified : End("askpass", v)
          /\ UNCHANGED fault
       \/ /\ Fault
          /\ EndWorded("askpass")
          /\ UNCHANGED files
    /\ UNCHANGED <<job, cmd, procs>>

\* The finally block; without a target there is nothing to clean up later.
RemoveAskpass ==
    /\ pc = "askpass"
    /\ \/ /\ files' = [files EXCEPT !.askpass = FALSE]
          /\ Goto(IF outcome = "none" THEN "output" ELSE "done")
          /\ UNCHANGED <<outcome, fault>>
       \/ /\ files.askpass
          /\ Fault
          /\ EndWorded("done")
          /\ UNCHANGED files
    /\ UNCHANGED <<job, cmd, procs>>

-----------------------------------------------------------------------------
(* run, executeDirectScanner and the caller's finally.                     *)

\* createOutputDir and the command.
StartScan ==
    /\ pc = "output"
    /\ Spawn(Script)
    /\ Goto("scan")
    /\ UNCHANGED <<job, files, outcome, fault>>

StartScanFails ==
    /\ pc = "output"
    /\ Fault
    /\ EndWorded("cleanup")
    /\ UNCHANGED <<job, cmd, procs, files>>

ScanReturns ==
    /\ pc = "scan"
    /\ ~Pending
    /\ Goto(CASE cmd.promise # "resolved" -> "recordFailure"
              [] cmd.promise = "resolved" /\ Script -> "status"
              [] OTHER -> "report")
    /\ UNCHANGED <<job, cmd, procs, files, outcome, fault>>

\* writeDirectArtifacts; run only logs its error, executeDirectScanner throws
\* it instead of the scanner's.
RecordFailure ==
    /\ pc = "recordFailure"
    /\ \/ /\ files' = [files EXCEPT !.status = cmd.promise, !.summary = TRUE]
          /\ \E v \in Classified : End("cleanup", v)
          /\ UNCHANGED fault
       \/ /\ Fault
          /\ \E v \in IF Script THEN Classified ELSE Worded : End("cleanup", v)
          /\ UNCHANGED files
    /\ UNCHANGED <<job, cmd, procs>>

\* Mutant: throwForTerminalFailure knows timeouts only.
ReadStatusLeniently ==
    /\ pc = "status"
    /\ CASE files.status = "none" \/ ~files.summary -> End("cleanup", "failed")
         [] files.status = "timed_out" /\ files.summary
                -> End("cleanup", files.status)
         [] OTHER -> Goto("report") /\ UNCHANGED outcome
    /\ UNCHANGED <<job, cmd, procs, files, fault>>

\* The script's status is the source of truth, its exit code is not.
ReadStatus ==
    /\ pc = "status"
    /\ CASE files.status = "none" \/ ~files.summary -> End("cleanup", "failed")
         [] files.status \in {"failed", "timed_out"} /\ files.summary
                -> End("cleanup", files.status)
         [] OTHER -> Goto("report") /\ UNCHANGED outcome
    /\ UNCHANGED <<job, cmd, procs, files, fault>>

Loadable == \/ files.report = "valid"
            \/ files.status = "skipped" /\ files.report = "none"

LoadReport ==
    /\ pc = "report"
    /\ Loadable
    /\ Goto(IF Script THEN "persist" ELSE "record")
    /\ UNCHANGED <<job, cmd, procs, files, outcome, fault>>

\* No report, an empty or malformed one, or one beyond the size limit.
LoadReportFails ==
    /\ pc = "report"
    /\ \/ /\ files' = IF Script THEN files
                      ELSE [files EXCEPT !.status = "failed", !.summary = TRUE]
          /\ End("cleanup", "failed")
          /\ UNCHANGED fault
       \/ /\ ~Script
          /\ Fault
          /\ EndWorded("cleanup")
          /\ UNCHANGED files
    /\ UNCHANGED <<job, cmd, procs>>

\* classifyDirectStatus and the artifacts of a tool without the script.
Record ==
    /\ pc = "record"
    /\ LET failed == procs.exit = "operational"
       IN  \/ /\ files' = [files EXCEPT !.summary = TRUE,
                             !.status = IF failed THEN "failed" ELSE "ok"]
              /\ IF failed THEN End("cleanup", "failed")
                           ELSE Goto("persist") /\ UNCHANGED outcome
              /\ UNCHANGED fault
           \/ /\ Fault
              /\ EndWorded("cleanup")
              /\ UNCHANGED files
    /\ UNCHANGED <<job, cmd, procs>>

\* persistScannerArtifacts.  The temporary output directory is removed only
\* here; nothing below depends on it.
Persist ==
    /\ pc = "persist"
    /\ \/ /\ files' = [files EXCEPT !.stored = files.status]
          /\ Goto("save")
          /\ UNCHANGED <<outcome, fault>>
       \/ /\ Fault
          /\ EndWorded("cleanup")
          /\ UNCHANGED files
    /\ UNCHANGED <<job, cmd, procs>>

\* Parsing and saving, which ScanQueue and FindingIntake model.
Save ==
    /\ pc = "save"
    /\ \E v \in {"completed"} \cup Worded : End("cleanup", v)
    /\ UNCHANGED <<job, cmd, procs, files, fault>>

\* cleanupTarget in the finally of processClaimedScan, an error being only
\* logged.
Cleanup ==
    /\ pc = "cleanup"
    /\ IF job.target = "clone" /\ ~job.keep
       THEN \/ files' = [files EXCEPT !.workdir = FALSE] /\ UNCHANGED fault
            \/ Fault /\ UNCHANGED files
       ELSE UNCHANGED <<files, fault>>
    /\ Goto("done")
    /\ UNCHANGED <<job, cmd, procs, outcome>>

-----------------------------------------------------------------------------

Init ==
    /\ job \in Job
    /\ pc = "start"
    /\ cmd = [promise |-> "none", reason |-> "none", timer |-> FALSE, force |-> FALSE]
    /\ procs = [leader |-> "none", helper |-> "none", apart |-> FALSE, exit |-> "none"]
    /\ files = [workdir |-> job.target = "local", askpass |-> FALSE,
                status |-> "none", summary |-> FALSE, report |-> "none",
                stored |-> "none"]
    /\ outcome = "none"
    /\ fault = FALSE

System ==
    \/ StartHelper \/ GitWrites \/ HelperEnds \/ OutputOverflows
    \/ ScriptFinishes \/ ScriptSummarizes \/ LeaderExits \/ LeaderKilled

Events == TimerFires \/ ForceKill \/ Close

Service ==
    \/ RefuseTarget \/ UseTarget \/ StartClone \/ CloneReturns \/ CloneFails
    \/ RemoveAskpass \/ StartScan \/ StartScanFails \/ ScanReturns
    \/ RecordFailure \/ ReadStatus \/ LoadReport \/ LoadReportFails \/ Record
    \/ Persist \/ Save \/ Cleanup

Next == System \/ Events \/ Service

Spec == Init /\ [][Next]_vars

\* Timers fire, the kernel delivers a SIGKILL and a close event, and the
\* service's own steps come.  Nothing is asked of git and the tools.
Fairness ==
    /\ WF_vars(Service)
    /\ WF_vars(TimerFires) /\ WF_vars(ForceKill) /\ WF_vars(Close)

FairSpec == Spec /\ Fairness

-----------------------------------------------------------------------------
(* Properties.                                                             *)

\* Every variable holds what its declaration says, and a run ends with an
\* outcome.
TypeOK ==
    /\ job \in Job
    /\ pc \in Pcs
    /\ cmd \in Command
    /\ procs \in Processes
    /\ files \in Files
    /\ outcome \in Outcomes
    /\ fault \in BOOLEAN
    /\ pc \in {"cleanup", "done"} => outcome # "none"

\* However the child's exit, the timer and the output limit race: a completed
\* run was not stopped at all, one that its timer stopped is reported as timed
\* out, and no other is, unless the script says so or the words of the error
\* mislead classifyFailure.  Only a failing file system call can turn a timeout
\* into another failure; the output limit never looks like one.
OutcomeTrue ==
    /\ outcome = "completed" => cmd.reason = "none"
    /\ outcome = "timed_out" =>
          \/ cmd.reason = "timeout"
          \/ Script /\ files.status = "timed_out"
          \/ cmd.reason = "none" /\ procs.exit \notin {"none", "ok"}
          \/ fault \/ files.stored # "none"
    /\ outcome = "failed" /\ cmd.reason = "timeout" => fault

\* Kept artifacts tell of a success, a partial one or a skipped scanner, and a
\* success, partial or not, has its valid report, although script and service
\* write the same files.
ArtifactsTrue ==
    /\ files.stored \in {"none", "ok", "partial", "skipped"}
    /\ files.stored \in {"ok", "partial"} => files.report = "valid"
    /\ outcome = "completed" => files.stored # "none"

\* Whatever fails on the way, a run that is over has removed its clone and its
\* askpass script, and has not touched a directory it did not create, as long
\* as the file system answers.
WorkspaceGone ==
    pc = "done" /\ ~fault =>
        /\ ~files.askpass
        /\ files.workdir => job.target = "local" \/ job.keep
        /\ job.target = "local" => files.workdir

\* When runCommand returns, its process group is empty: nothing of it writes
\* into a workspace that is being removed.  (A tool under vm-scan.sh is in
\* another group and may go on until its own timeout.)
GroupGone ==
    cmd.promise \in {"resolved", "failed", "timed_out"}
        => ~Running /\ ~HelperHoldsPipes

\* Neither files nor processes are left.
NothingLeft == WorkspaceGone /\ GroupGone

\* A signal is sent only while the command is unsettled; later its process
\* group may belong to somebody else.
NoLateSignal ==
    [][(cmd.force /\ ~cmd'.force) \/ (cmd.timer /\ ~cmd'.timer) => Pending]_vars

\* Every run comes to an end, even if git or a tool hangs, starts helpers and
\* ignores SIGTERM.
RunEnds == <>(pc = "done")
=============================================================================
