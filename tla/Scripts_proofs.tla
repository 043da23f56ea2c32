---------------------------- MODULE Scripts_proofs ----------------------------
(***************************************************************************)
(* Safety of the scanner runner, and of the scripts for any order of the   *)
(* scanners, any providers, sets of tools and number of runs.              *)
(***************************************************************************)
EXTENDS MCScripts, TLAPS

-----------------------------------------------------------------------------
(* Every step of the composition is a step of one part, or none of it.     *)

LEMMA PartSteps ==
  ASSUME [Next]_vars
  PROVE  /\ [Runner!Next]_runnerVars /\ [Command!Next]_commandVars
         /\ [Unified!Next]_unifiedVars /\ [Host!Next]_hostVars
BY DEF Next, vars, notRunner, notCommand, notUnified, notHost

LEMMA PartInits ==
  ASSUME Init
  PROVE  Runner!Init /\ Command!Init /\ Unified!Init /\ Host!Init
BY DEF Init

-----------------------------------------------------------------------------
(* The scanner runner.                                                     *)

\* A command that is not pending has no timers and nobody in its group, and its
\* promise goes by the reason that ended it and by its exit.
CommandSettles ==
    /\ cmd.timer \/ cmd.force => cmd.promise = "pending"
    /\ cmd.promise # "pending" => procs.leader # "running" /\ ~Runner!HelperHoldsPipes
    /\ cmd.promise \in {"none", "resolved"} => cmd.reason = "none"
    /\ cmd.promise = "timed_out" <=> cmd.promise # "pending" /\ cmd.reason = "timeout"
    /\ cmd.promise = "failed" /\ cmd.reason = "none" => procs.exit # "ok"

BeforeScan == {"start", "clone", "askpass", "output"}
Evaluating == {"status", "report", "record", "persist", "save"}

\* What the service knows of the command and of the outcome where it is.
ServiceKnows ==
    /\ pc = "start" => cmd.promise = "none"
    /\ pc \notin {"clone", "scan"} => cmd.promise # "pending"
    /\ pc \in {"clone", "scan"} => cmd.promise # "none"
    /\ pc \in Evaluating => cmd.promise = "resolved"
    /\ pc = "recordFailure" => cmd.promise \in {"failed", "timed_out"}
    /\ pc \in {"clone", "askpass"} => job.target = "clone"
    /\ pc = "status" => job.kind = "script"
    /\ pc = "record" => job.kind # "script"
    /\ pc \notin {"askpass", "cleanup", "done"} => outcome = "none"
    /\ procs.apart => job.kind = "script" /\ pc \notin BeforeScan

\* What the files tell, and which of them can still change.
FilesKnown ==
    /\ pc \in BeforeScan => files.status = "none" /\ files.report = "none"
    /\ pc \in BeforeScan \cup {"scan", "recordFailure", "status", "report", "record", "persist"}
          => files.stored = "none"
    /\ job.kind # "script" /\ pc \in {"scan", "recordFailure", "report", "record"}
          => files.status = "none"
    /\ pc = "scan" /\ job.kind = "script" /\ files.report # "none"
          => procs.apart /\ procs.helper = "gone"
    /\ pc \in {"scan", "recordFailure", "status", "report", "persist"} /\ job.kind = "script"
             /\ files.status \in {"ok", "partial"}
          => files.report = "valid" /\ procs.helper = "gone"
    /\ pc \in {"report", "persist"} /\ job.kind = "script"
          => files.status \in {"ok", "partial", "skipped"}
    /\ pc = "record" => files.report = "valid"
    /\ pc = "persist" /\ job.kind # "script" => files.status = "ok" /\ files.report = "valid"
    /\ pc = "save" => files.stored # "none"
    /\ files.stored # "none" =>
          /\ files.stored \in {"ok", "partial", "skipped"}
          /\ files.stored = "skipped" => job.kind = "script"
          /\ files.stored \in {"ok", "partial"} =>
                files.report = "valid" /\ (job.kind = "script" => procs.helper = "gone")

\* Which files are still to be removed.
FilesGo ==
    /\ files.askpass => pc \in {"clone", "askpass"} \/ fault
    /\ job.target = "local" => files.workdir
    /\ job.target = "none" => ~files.workdir
    /\ pc = "start" /\ job.target = "clone" => ~files.workdir
    /\ pc = "askpass" /\ outcome # "none" => ~files.workdir \/ fault
    /\ pc = "done" /\ ~fault /\ files.workdir => job.target = "local" \/ job.keep

RunnerInv ==
    /\ Runner!TypeOK
    /\ CommandSettles
    /\ ServiceKnows
    /\ FilesKnown
    /\ FilesGo
    /\ Runner!OutcomeTrue
    /\ outcome = "completed" => files.stored # "none"

LEMMA Spawned ==
  ASSUME NEW apart \in BOOLEAN, NEW b \in BOOLEAN, NEW promise \in {"pending", "failed"},
         NEW leader \in {"running", "none"}
  PROVE  /\ [promise |-> promise, reason |-> "none", timer |-> b, force |-> FALSE] \in Runner!Command
         /\ [leader |-> leader, helper |-> "none", apart |-> apart, exit |-> "none"] \in Runner!Processes
BY DEF Runner!Command, Runner!Processes

LEMMA RunnerTypes ==
  ASSUME Runner!TypeOK, ServiceKnows, Runner!Next
  PROVE  Runner!TypeOK'
<1> USE DEF Runner!TypeOK, Runner!Pcs, Runner!Outcomes, Runner!Goto, Runner!End, Runner!EndWorded, Runner!Worded, Runner!Fault
<1>1. CASE Runner!StartHelper
  BY <1>1 DEF Runner!StartHelper, Runner!Processes
<1>2. CASE Runner!GitWrites
  BY <1>2 DEF Runner!GitWrites, Runner!Files
<1>3. CASE Runner!HelperEnds
  BY <1>3 DEF Runner!HelperEnds, Runner!Processes, Runner!Files
<1>4. CASE Runner!OutputOverflows
  BY <1>4 DEF Runner!OutputOverflows, Runner!Command, Runner!Terminated
<1>5. CASE Runner!ScriptFinishes
  BY <1>5 DEF Runner!ScriptFinishes, Runner!Files, Runner!Verdicts
<1>6. CASE Runner!ScriptSummarizes
  BY <1>6 DEF Runner!ScriptSummarizes, Runner!Files
<1>7. CASE Runner!LeaderExits
  BY <1>7 DEF Runner!LeaderExits, Runner!Processes, Runner!Files
<1>8. CASE Runner!LeaderKilled
  BY <1>8 DEF Runner!LeaderKilled, Runner!Processes
<1>9. CASE Runner!TimerFires
  BY <1>9 DEF Runner!TimerFires, Runner!Command, Runner!Terminated
<1>10. CASE Runner!ForceKill
  BY <1>10 DEF Runner!ForceKill, Runner!Command, Runner!Processes
<1>11. CASE Runner!Close
  BY <1>11 DEF Runner!Close, Runner!Command, Runner!Settled
<1>12. CASE Runner!RefuseTarget
  BY <1>12 DEF Runner!RefuseTarget
<1>13. CASE Runner!UseTarget
  BY <1>13 DEF Runner!UseTarget
<1>14. CASE Runner!StartClone
  <2>1. PICK b \in BOOLEAN, promise \in {"pending", "failed"}, leader \in {"running", "none"}, apart \in BOOLEAN :
           /\ cmd' = [promise |-> promise, reason |-> "none", timer |-> b, force |-> FALSE]
           /\ procs' = [leader |-> leader, helper |-> "none", apart |-> apart, exit |-> "none"]
    BY <1>14 DEF Runner!StartClone, Runner!Spawn, Runner!Script
  <2>2. cmd' \in Runner!Command /\ procs' \in Runner!Processes
    BY <2>1, Spawned
  <2>3. files' \in Runner!Files
    BY <1>14 DEF Runner!StartClone, Runner!Job, Runner!Files
  <2> QED
    BY <1>14, <2>2, <2>3 DEF Runner!StartClone
<1>15. CASE Runner!CloneReturns
  BY <1>15 DEF Runner!CloneReturns
<1>16. CASE Runner!CloneFails
  BY <1>16 DEF Runner!CloneFails, Runner!Files, Runner!Classified
<1>17. CASE Runner!RemoveAskpass
  BY <1>17 DEF Runner!RemoveAskpass, Runner!Files
<1>18. CASE Runner!StartScan
  <2>1. PICK b \in BOOLEAN, promise \in {"pending", "failed"}, leader \in {"running", "none"}, apart \in BOOLEAN :
           /\ cmd' = [promise |-> promise, reason |-> "none", timer |-> b, force |-> FALSE]
           /\ procs' = [leader |-> leader, helper |-> "none", apart |-> apart, exit |-> "none"]
    BY <1>18 DEF Runner!StartScan, Runner!Spawn, Runner!Script
  <2>2. cmd' \in Runner!Command /\ procs' \in Runner!Processes
    BY <2>1, Spawned
  <2> QED
    BY <1>18, <2>2 DEF Runner!StartScan
<1>19. CASE Runner!StartScanFails
  BY <1>19 DEF Runner!StartScanFails
<1>20. CASE Runner!ScanReturns
  BY <1>20 DEF Runner!ScanReturns
<1>21. CASE Runner!RecordFailure
  BY <1>21 DEF Runner!RecordFailure, Runner!Files, Runner!Verdicts, Runner!Classified, ServiceKnows
<1>22. CASE Runner!ReadStatus
  BY <1>22 DEF Runner!ReadStatus
<1>23. CASE Runner!LoadReport
  BY <1>23 DEF Runner!LoadReport
<1>24. CASE Runner!LoadReportFails
  BY <1>24 DEF Runner!LoadReportFails, Runner!Files, Runner!Verdicts
<1>25. CASE Runner!Record
  BY <1>25 DEF Runner!Record, Runner!Files, Runner!Verdicts
<1>26. CASE Runner!Persist
  BY <1>26 DEF Runner!Persist, Runner!Files
<1>27. CASE Runner!Save
  BY <1>27 DEF Runner!Save, ServiceKnows
<1>28. CASE Runner!Cleanup
  BY <1>28 DEF Runner!Cleanup, Runner!Files, ServiceKnows
<1> QED
  BY <1>1, <1>2, <1>3, <1>4, <1>5, <1>6, <1>7, <1>8, <1>9, <1>10, <1>11, <1>12, <1>13, <1>14, <1>15, <1>16, <1>17, <1>18, <1>19, <1>20, <1>21, <1>22, <1>23, <1>24, <1>25, <1>26, <1>27, <1>28 DEF Runner!Next, Runner!System, Runner!Events, Runner!Service

\* What the steps do to the rest.  TypeOK is unfolded but for the new state.
LEMMA RunnerStep ==
  ASSUME RunnerInv, Runner!Next
  PROVE  RunnerInv'
<1> USE DEF CommandSettles, ServiceKnows, FilesKnown, FilesGo, Runner!OutcomeTrue, BeforeScan, Evaluating,
            Runner!Script, Runner!Running, Runner!Pending, Runner!HelperHoldsPipes,
            Runner!Goto, Runner!End, Runner!EndWorded, Runner!Worded, Runner!Fault
<1> DEFINE Rest == /\ CommandSettles /\ ServiceKnows /\ FilesKnown /\ FilesGo /\ Runner!OutcomeTrue
                   /\ outcome = "completed" => files.stored # "none"
<1>a. Runner!TypeOK /\ Rest
  BY DEF RunnerInv
<1>b. /\ job.kind \in {"script", "native", "direct"} /\ job.target \in {"clone", "local", "none"}
      /\ job.kind = "script" => job.lenient
      /\ pc \in Runner!Pcs /\ cmd \in Runner!Command /\ procs \in Runner!Processes /\ files \in Runner!Files
      /\ outcome \in Runner!Outcomes
  BY <1>a DEF Runner!TypeOK, Runner!Job
<1>c. Runner!TypeOK'
  BY <1>a, RunnerTypes
<1> USE DEF Runner!Command, Runner!Processes, Runner!Files
<1>1. CASE Runner!StartHelper
  <2> Rest'
    BY <1>1, <1>a, <1>b DEF Runner!StartHelper
  <2> QED
    BY <1>c DEF RunnerInv
<1>2. CASE Runner!GitWrites
  <2> Rest'
    BY <1>2, <1>a, <1>b DEF Runner!GitWrites
  <2> QED
    BY <1>c DEF RunnerInv
<1>3. CASE Runner!HelperEnds
  <2> Rest'
    BY <1>3, <1>a, <1>b DEF Runner!HelperEnds
  <2> QED
    BY <1>c DEF RunnerInv
<1>4. CASE Runner!OutputOverflows
  <2> Rest'
    BY <1>4, <1>a, <1>b DEF Runner!OutputOverflows, Runner!Terminated
  <2> QED
    BY <1>c DEF RunnerInv
<1>5. CASE Runner!ScriptFinishes
  <2> Rest'
    BY <1>5, <1>a, <1>b DEF Runner!ScriptFinishes
  <2> QED
    BY <1>c DEF RunnerInv
<1>6. CASE Runner!ScriptSummarizes
  <2> Rest'
    BY <1>6, <1>a, <1>b DEF Runner!ScriptSummarizes
  <2> QED
    BY <1>c DEF RunnerInv
<1>7. CASE Runner!LeaderExits
  <2>1. CASE Runner!Script /\ pc = "scan" /\ files.summary
    <3>1. procs' = [procs EXCEPT !.leader = "exited", !.exit = "ok"] /\ UNCHANGED <<job, pc, cmd, files, outcome, fault>> /\ procs.leader = "running"
      BY <1>7, <2>1 DEF Runner!LeaderExits
    <3>2. Rest'
      BY <2>1, <3>1, <1>a, <1>b
    <3> QED
      BY <3>2, <1>c DEF RunnerInv
  <2>2. CASE ~Runner!Script \/ pc = "clone"
    <3>1. PICK exit \in {"ok", "operational", "bad"} : procs' = [procs EXCEPT !.leader = "exited", !.exit = exit]
      BY <1>7, <2>2 DEF Runner!LeaderExits
    <3>2. /\ procs.leader = "running" /\ UNCHANGED <<job, pc, cmd, outcome, fault>>
          /\ \/ UNCHANGED files
             \/ pc = "scan" /\ \E r \in {"valid", "invalid"} : files' = [files EXCEPT !.report = r]
      BY <1>7, <2>2 DEF Runner!LeaderExits
    <3>3. Rest'
      BY <2>2, <3>1, <3>2, <1>a, <1>b
    <3> QED
      BY <3>3, <1>c DEF RunnerInv
  <2> QED
    BY <1>7, <2>1, <2>2 DEF Runner!LeaderExits
<1>8. CASE Runner!LeaderKilled
  <2>1. PICK exit \in {"bad", "signal"} : procs' = [procs EXCEPT !.leader = "exited", !.exit = exit]
    BY <1>8 DEF Runner!LeaderKilled
  <2>2. procs.leader = "running" /\ UNCHANGED <<job, pc, cmd, files, outcome, fault>>
    BY <1>8 DEF Runner!LeaderKilled
  <2>3. Rest'
    BY <2>1, <2>2, <1>a, <1>b
  <2> QED
    BY <2>3, <1>c DEF RunnerInv
<1>9. CASE Runner!TimerFires
  <2> Rest'
    BY <1>9, <1>a, <1>b DEF Runner!TimerFires, Runner!Terminated
  <2> QED
    BY <1>c DEF RunnerInv
<1>10. CASE Runner!ForceKill
  <2> Rest'
    BY <1>10, <1>a, <1>b DEF Runner!ForceKill
  <2> QED
    BY <1>c DEF RunnerInv
<1>11. CASE Runner!Close
  <2> Rest'
    BY <1>11, <1>a, <1>b DEF Runner!Close, Runner!Settled, Runner!Acceptable
  <2> QED
    BY <1>c DEF RunnerInv
<1>12. CASE Runner!RefuseTarget
  <2> Rest'
    BY <1>12, <1>a, <1>b DEF Runner!RefuseTarget
  <2> QED
    BY <1>c DEF RunnerInv
<1>13. CASE Runner!UseTarget
  <2> Rest'
    BY <1>13, <1>a, <1>b DEF Runner!UseTarget
  <2> QED
    BY <1>c DEF RunnerInv
<1>14. CASE Runner!StartClone
  <2> Rest'
    BY <1>14, <1>a, <1>b DEF Runner!StartClone, Runner!Spawn
  <2> QED
    BY <1>c DEF RunnerInv
<1>15. CASE Runner!CloneReturns
  <2> Rest'
    BY <1>15, <1>a, <1>b DEF Runner!CloneReturns
  <2> QED
    BY <1>c DEF RunnerInv
<1>16. CASE Runner!CloneFails
  <2> Rest'
    BY <1>16, <1>a, <1>b DEF Runner!CloneFails, Runner!Classified
  <2> QED
    BY <1>c DEF RunnerInv
<1>17. CASE Runner!RemoveAskpass
  <2> Rest'
    BY <1>17, <1>a, <1>b DEF Runner!RemoveAskpass
  <2> QED
    BY <1>c DEF RunnerInv
<1>18. CASE Runner!StartScan
  <2> Rest'
    BY <1>18, <1>a, <1>b DEF Runner!StartScan, Runner!Spawn
  <2> QED
    BY <1>c DEF RunnerInv
<1>19. CASE Runner!StartScanFails
  <2> Rest'
    BY <1>19, <1>a, <1>b DEF Runner!StartScanFails
  <2> QED
    BY <1>c DEF RunnerInv
<1>20. CASE Runner!ScanReturns
  <2> Rest'
    BY <1>20, <1>a, <1>b DEF Runner!ScanReturns
  <2> QED
    BY <1>c DEF RunnerInv
<1>21. CASE Runner!RecordFailure
  <2>1. PICK v \in Runner!Worded : pc = "recordFailure" /\ pc' = "cleanup" /\ outcome' = v /\ UNCHANGED <<job, cmd, procs>>
    BY <1>21 DEF Runner!RecordFailure, Runner!Classified
  <2>2. \/ fault' = TRUE /\ UNCHANGED files
        \/ /\ files' = [files EXCEPT !.status = cmd.promise, !.summary = TRUE]
           /\ UNCHANGED fault /\ v \in Runner!Classified
    BY <1>21, <2>1 DEF Runner!RecordFailure
  <2>3. CASE fault' = TRUE /\ UNCHANGED files
    <3> Rest'
      BY <2>1, <2>3, <1>a, <1>b
    <3> QED
      BY <1>c DEF RunnerInv
  <2>4. CASE files' = [files EXCEPT !.status = cmd.promise, !.summary = TRUE] /\ UNCHANGED fault /\ v \in Runner!Classified
    <3>1. CommandSettles' /\ ServiceKnows' /\ FilesKnown' /\ FilesGo'
      BY <2>1, <2>4, <1>a, <1>b
    <3>2. Runner!OutcomeTrue' /\ outcome' # "completed"
      BY <2>1, <2>4, <1>a, <1>b DEF Runner!Classified
    <3> QED
      BY <3>1, <3>2, <1>c DEF RunnerInv
  <2> QED
    BY <2>2, <2>3, <2>4
<1>22. CASE Runner!ReadStatus
  <2> Rest'
    BY <1>22, <1>a, <1>b DEF Runner!ReadStatus, Runner!Verdicts
  <2> QED
    BY <1>c DEF RunnerInv
<1>23. CASE Runner!LoadReport
  <2> Rest'
    BY <1>23, <1>a, <1>b DEF Runner!LoadReport, Runner!Loadable
  <2> QED
    BY <1>c DEF RunnerInv
<1>24. CASE Runner!LoadReportFails
  <2> Rest'
    BY <1>24, <1>a, <1>b DEF Runner!LoadReportFails
  <2> QED
    BY <1>c DEF RunnerInv
<1>25. CASE Runner!Record
  <2> Rest'
    BY <1>25, <1>a, <1>b DEF Runner!Record
  <2> QED
    BY <1>c DEF RunnerInv
<1>26. CASE Runner!Persist
  <2> Rest'
    BY <1>26, <1>a, <1>b DEF Runner!Persist
  <2> QED
    BY <1>c DEF RunnerInv
<1>27. CASE Runner!Save
  <2> Rest'
    BY <1>27, <1>a, <1>b DEF Runner!Save
  <2> QED
    BY <1>c DEF RunnerInv
<1>28. CASE Runner!Cleanup
  <2> Rest'
    BY <1>28, <1>a, <1>b DEF Runner!Cleanup
  <2> QED
    BY <1>c DEF RunnerInv
<1> QED
  BY <1>1, <1>2, <1>3, <1>4, <1>5, <1>6, <1>7, <1>8, <1>9, <1>10, <1>11, <1>12, <1>13, <1>14, <1>15, <1>16, <1>17, <1>18, <1>19, <1>20, <1>21, <1>22, <1>23, <1>24, <1>25, <1>26, <1>27, <1>28 DEF Runner!Next, Runner!System, Runner!Events, Runner!Service

LEMMA RunnerInit ==
  ASSUME Runner!Init
  PROVE  RunnerInv
<1>1. Runner!TypeOK
  BY DEF Runner!Init, Runner!TypeOK, Runner!Job, Runner!Pcs, Runner!Command, Runner!Processes,
         Runner!Files, Runner!Verdicts, Runner!Outcomes
<1>2. job.kind \in {"script", "native", "direct"}
  BY DEF Runner!Init, Runner!Job
<1> QED
  BY <1>1, <1>2 DEF Runner!Init, RunnerInv, CommandSettles, ServiceKnows, FilesKnown, FilesGo,
         Runner!OutcomeTrue, Runner!HelperHoldsPipes, BeforeScan, Evaluating, Runner!Script

LEMMA RunnerStays ==
  ASSUME RunnerInv, [Runner!Next]_runnerVars
  PROVE  RunnerInv'
<1>1. CASE UNCHANGED runnerVars
  BY <1>1 DEF runnerVars, RunnerInv, Runner!TypeOK, CommandSettles, ServiceKnows, FilesKnown, FilesGo,
              Runner!OutcomeTrue, Runner!HelperHoldsPipes, Runner!Script
<1> QED
  BY <1>1, RunnerStep

\* What the properties say of the runner.
LEMMA RunnerKeeps ==
  ASSUME RunnerInv
  PROVE  /\ OutcomeTrue /\ Runner!ArtifactsTrue /\ Runner!NothingLeft
         /\ cmd.force \/ cmd.timer => Runner!Pending
BY DEF RunnerInv, OutcomeTrue, Runner!ArtifactsTrue, Runner!NothingLeft, Runner!WorkspaceGone, Runner!GroupGone,
       Runner!TypeOK, Runner!Pcs, Runner!Running, Runner!Pending, Runner!HelperHoldsPipes, CommandSettles, FilesKnown, FilesGo, Evaluating

-----------------------------------------------------------------------------
(* vm-scan.sh.                                                             *)

ToolStates ==
    [now : {"queued", "running", "exited", "again", "retried", "over", "orphan", "gone"},
     rc : {0, 1, 2, 124}, found : BOOLEAN]

CommandTypeOK ==
    /\ opts \in Command!Options
    /\ at \in {"start", "target", "git", "cloned", "uncloned", "checks", "scanners",
               "summary", "exit", "done"}
    /\ tree \in [there : BOOLEAN, ours : BOOLEAN, inferred : BOOLEAN]
    /\ tool \in [Command!Scanners -> ToolStates]
    /\ report \in [Command!Scanners -> {"none", "stale", "valid", "invalid"}]
    /\ record \in [Command!Scanners -> Command!Verdicts \cup {"none"}]
    /\ code = "none" <=> at # "done"

\* A clone is made for who asks for one, and is the script's when it is there.
TreeKnown ==
    /\ at \in {"git", "cloned", "uncloned"} => opts.clone
    /\ tree.ours => opts.clone
    /\ ~opts.clone => tree.there
    /\ tree.inferred => opts.generate
    /\ at = "done" => ~askpass /\ (tree.ours /\ tree.there => opts.keep)

\* A scanner that has come to where its tool is, with what it has left.
ScannerKnown(s, now, rep, rec) ==
    /\ now \in {"queued", "running", "again", "orphan"} => rep = "none"
    /\ now \in {"queued", "running", "again", "exited", "retried"} => rec = "none"
    /\ now \in {"orphan", "gone"} => rec \in {"none", "failed"}
    /\ now = "over" =>
          /\ rep # "invalid"
          /\ rec \in {"success", "findings_detected", "partial"} => rep = "valid"
          /\ rec \in {"timed_out", "skipped"} => rep = "none"
    /\ rep # "stale"
    /\ s \notin Command!Selected => now = "queued"

\* The run of a script that no signal and no refusal has ended, once the files
\* of an earlier run are removed.
OnTheWay == at # "start" /\ code \in {"none", "ok", "failures"}

ScannersKnown ==
    OnTheWay =>
        /\ \A s \in Command!Scanners : ScannerKnown(s, tool[s].now, report[s], record[s])
        /\ at \in {"summary", "exit", "done"} =>
              \A s \in Command!Selected : Command!Over(s) /\ record[s] # "none"
        /\ at \in {"exit", "done"} =>
              /\ summary.failed = Command!Recorded(Command!Failures)
              /\ summary.overall \in {"success", "findings_detected", "skipped"}
                    => summary.failed = {}
        /\ at = "done" => (code = "failures" <=> opts.strict /\ summary.failed # {})

\* Before the scanners, all of them are still to be run.
NoneStarted ==
    at \in {"start", "target", "git", "cloned", "uncloned", "checks"} =>
        \A s \in Command!Scanners : tool[s].now = "queued"

CommandInv == CommandTypeOK /\ TreeKnown /\ ScannersKnown /\ NoneStarted

LEMMA CommandInit ==
  ASSUME Command!Init
  PROVE  CommandInv
<1>1. CommandTypeOK
  BY DEF Command!Init, CommandTypeOK, ToolStates, Command!Verdicts, Command!Failures
<1>2. opts.clone \in BOOLEAN
  BY <1>1 DEF CommandTypeOK, Command!Options
<1> QED
  BY <1>1, <1>2 DEF Command!Init, CommandInv, TreeKnown, ScannersKnown, NoneStarted, OnTheWay

\* A step of one scanner, from what it has left before to what it leaves now.
LEMMA OneScanner ==
  ASSUME CommandInv, NEW s \in Command!Scanners, UNCHANGED <<opts, at, summary, code>>,
         at = "scanners" \/ tool[s].now # "queued",
         \A x \in Command!Scanners \ {s} :
            tool'[x].now = tool[x].now /\ report'[x] = report[x] /\ record'[x] = record[x],
         OnTheWay => /\ ScannerKnown(s, tool'[s].now, report'[s], record'[s])
                     /\ at # "scanners" => UNCHANGED record /\ Command!Over(s)'
  PROVE  ScannersKnown' /\ NoneStarted'
<1>1. OnTheWay' = OnTheWay /\ Command!Selected' = Command!Selected
  BY DEF OnTheWay, Command!Selected
<1>2. ASSUME OnTheWay, NEW x \in Command!Scanners
      PROVE  ScannerKnown(x, tool[x].now, report[x], record[x])'
  <2>1. CASE x = s
    BY <1>2, <2>1 DEF ScannerKnown, Command!Selected
  <2>2. CASE x # s
    BY <1>2, <2>2 DEF CommandInv, ScannersKnown, ScannerKnown, Command!Selected
  <2> QED
    BY <2>1, <2>2
<1>3. ASSUME OnTheWay, at \in {"summary", "exit", "done"}, NEW x \in Command!Selected
      PROVE  Command!Over(x)' /\ record'[x] # "none"
  <2>1. Command!Over(x) /\ record[x] # "none" /\ UNCHANGED record
    BY <1>3 DEF CommandInv, ScannersKnown
  <2>2. x \in Command!Scanners
    BY <1>3 DEF CommandInv, CommandTypeOK, Command!Options, Command!Selected, Command!Scanners, Command!Range
  <2> QED
    BY <1>3, <2>1, <2>2 DEF Command!Over
<1>4. ASSUME OnTheWay, at \in {"exit", "done"}
      PROVE  Command!Recorded(Command!Failures)' = Command!Recorded(Command!Failures)
  BY <1>4 DEF Command!Recorded
<1>5. ScannersKnown'
  BY <1>1, <1>2, <1>3, <1>4 DEF ScannersKnown, CommandInv
<1>6. NoneStarted'
  BY DEF NoneStarted, CommandInv
<1> QED
  BY <1>5, <1>6

\* What the steps of a scanner find there.
LEMMA AtScanner ==
  ASSUME CommandInv, NEW s \in Command!Scanners
  PROVE  /\ tool[s].now \in {"queued", "running", "exited", "again", "retried", "over", "orphan", "gone"}
         /\ tool[s].rc \in {0, 1, 2, 124} /\ tool[s].found \in BOOLEAN
         /\ report[s] \in {"none", "stale", "valid", "invalid"}
         /\ record[s] \in Command!Verdicts \cup {"none"}
         /\ OnTheWay => ScannerKnown(s, tool[s].now, report[s], record[s])
         /\ OnTheWay /\ ~Command!Over(s) /\ tool[s].now # "queued" => at = "scanners"
<1>1. /\ tool[s] \in ToolStates
      /\ report[s] \in {"none", "stale", "valid", "invalid"}
      /\ record[s] \in Command!Verdicts \cup {"none"}
  BY DEF CommandInv, CommandTypeOK, ToolStates
<1>2. OnTheWay => ScannerKnown(s, tool[s].now, report[s], record[s])
  BY DEF CommandInv, ScannersKnown
<1>3. ASSUME OnTheWay, ~Command!Over(s), tool[s].now # "queued" PROVE at = "scanners"
  <2>1. s \in Command!Selected
    BY <1>2, <1>3 DEF ScannerKnown
  <2>2. at \notin {"summary", "exit", "done"}
    BY <1>3, <2>1 DEF CommandInv, ScannersKnown
  <2> QED
    BY <1>3, <2>2 DEF CommandInv, CommandTypeOK, NoneStarted
<1> QED
  BY <1>1, <1>2, <1>3 DEF ToolStates

LEMMA ScannerStep ==
  ASSUME CommandInv, NEW s \in Command!Scanners,
         \/ Command!Skip(s) \/ Command!Start(s) \/ Command!Retry(s) \/ Command!Judge(s)
         \/ Command!JudgeFails(s) \/ Command!ToolExits(s) \/ Command!SubshellDies(s)
         \/ Command!OrphanEnds(s)
  PROVE  CommandInv'
<1> DEFINE Types == /\ tool \in [Command!Scanners -> ToolStates]
                    /\ report \in [Command!Scanners -> {"none", "stale", "valid", "invalid"}]
                    /\ record \in [Command!Scanners -> Command!Verdicts \cup {"none"}]
           Kept == UNCHANGED <<opts, at, tree, askpass, summary, code>>
           Others == \A x \in Command!Scanners \ {s} :
              tool'[x].now = tool[x].now /\ report'[x] = report[x] /\ record'[x] = record[x]
<1>a. Types
  BY DEF CommandInv, CommandTypeOK
<1>b. SUFFICES /\ Types' /\ Kept /\ Others /\ (at = "scanners" \/ tool[s].now # "queued")
               /\ OnTheWay => /\ ScannerKnown(s, tool'[s].now, report'[s], record'[s])
                              /\ at # "scanners" => UNCHANGED record /\ Command!Over(s)'
  <2>1. ScannersKnown' /\ NoneStarted'
    BY <1>b, OneScanner
  <2>2. CommandTypeOK' /\ TreeKnown'
    BY <1>b DEF CommandInv, CommandTypeOK, TreeKnown
  <2> QED
    BY <2>1, <2>2 DEF CommandInv
<1> USE <1>a, AtScanner DEF ToolStates, ScannerKnown, Command!Over, Command!Turn, Command!Stage, Command!Finish, Command!Verdicts,
            Command!Failures, Command!Ready, Command!Stopped, Command!Valid, Command!Classified
<1>1. CASE Command!Skip(s)
  BY <1>1 DEF Command!Skip
<1>2. CASE Command!Start(s)
  BY <1>2 DEF Command!Start
<1>3. CASE Command!Retry(s)
  BY <1>3 DEF Command!Retry
<1>4. CASE Command!Judge(s)
  <2>1. PICK v \in Command!Verdicts, r \in {"none", "valid", "stale"} :
           /\ record' = [record EXCEPT ![s] = v]
           /\ tool' = [tool EXCEPT ![s].now = "over"]
           /\ report' = [report EXCEPT ![s] = r]
           /\ v # "skipped" /\ (v = "timed_out" => r = "none")
           /\ r # "none" => r = report[s]
           /\ v \in {"success", "findings_detected", "partial"} => r = report[s] /\ r # "none"
    <3>1. CASE Command!Stopped(s)
      BY <1>4, <3>1 DEF Command!Judge
    <3>2. CASE ~Command!Stopped(s) /\ ~Command!Valid(s)
      BY <1>4, <3>2 DEF Command!Judge
    <3>3. CASE ~Command!Stopped(s) /\ Command!Valid(s)
      <4>1. Command!Finish(s, Command!Classified(s)) /\ UNCHANGED report
        BY <1>4, <3>3 DEF Command!Judge
      <4>2. Command!Classified(s) \in Command!Verdicts \ {"skipped", "timed_out"}
        OBVIOUS
      <4>3. report' = [report EXCEPT ![s] = report[s]] /\ report[s] \in {"valid", "stale"}
        BY <3>3, <4>1
      <4> QED
        BY <4>1, <4>2, <4>3
    <3> QED
      BY <3>1, <3>2, <3>3
  <2>2. Kept /\ tool[s].now \in {"exited", "retried"}
    BY <1>4 DEF Command!Judge
  <2> QED
    BY <2>1, <2>2
<1>5. CASE Command!JudgeFails(s)
  BY <1>5 DEF Command!JudgeFails
<1>6. CASE Command!ToolExits(s)
  BY <1>6 DEF Command!ToolExits
<1>7. CASE Command!SubshellDies(s)
  BY <1>7 DEF Command!SubshellDies
<1>8. CASE Command!OrphanEnds(s)
  BY <1>8 DEF Command!OrphanEnds
<1> QED
  BY <1>1, <1>2, <1>3, <1>4, <1>5, <1>6, <1>7, <1>8

\* What Trapped leaves of the tools is vacuous for a run that it ends.
LEMMA ScriptStep ==
  ASSUME CommandInv,
         \/ Command!Refuse \/ Command!RemoveStale \/ Command!RefuseTarget \/ Command!UseDirectory
         \/ Command!StartClone \/ Command!CloneFails \/ Command!Cloned \/ Command!CheckOutput
         \/ Command!Collect \/ Command!Summarize \/ Command!Finished \/ Command!Trapped
         \/ Command!GitEnds \/ Command!InferLockfile \/ Command!Signal
  PROVE  CommandInv'
<1> DEFINE Ends(how) == at' = "done" /\ code' = how /\ askpass' = FALSE /\ UNCHANGED <<opts, report, record, summary>>
                        /\ tree' = [tree EXCEPT !.there = @ /\ ~(tree.ours /\ ~opts.keep)]
<1> USE DEF Command!Exit, Command!Goto
<1>a. CommandTypeOK /\ TreeKnown /\ ScannersKnown /\ NoneStarted
  BY DEF CommandInv
<1>b. opts.clone \in BOOLEAN /\ opts.keep \in BOOLEAN /\ opts.strict \in BOOLEAN /\ opts.generate \in BOOLEAN
  BY <1>a DEF CommandTypeOK, Command!Options
\* A run that is refused or stopped.
<1>c. ASSUME NEW how \in {"usage", "clone", "signal"}, Ends(how), at # "done",
             tool' \in [Command!Scanners -> ToolStates]
      PROVE  CommandInv'
  <2>1. CommandTypeOK'
    BY <1>c, <1>a DEF CommandTypeOK
  <2>2. TreeKnown'
    BY <1>c, <1>a, <1>b DEF TreeKnown, CommandTypeOK
  <2>3. ScannersKnown' /\ NoneStarted'
    BY <1>c DEF ScannersKnown, OnTheWay, NoneStarted
  <2> QED
    BY <2>1, <2>2, <2>3 DEF CommandInv
\* A step on the way to the scanners, and one that leaves the script where it is.
<1>d. ASSUME UNCHANGED <<opts, tool, report, record, summary, code>>,
             \/ UNCHANGED at
             \/ at \in {"target", "git", "cloned", "uncloned", "checks"}
                /\ at' \in {"git", "cloned", "uncloned", "checks", "scanners"},
             CommandTypeOK', TreeKnown'
      PROVE  CommandInv'
  <2>1. UNCHANGED Command!Selected /\ \A s \in Command!Scanners : UNCHANGED Command!Over(s)
    BY <1>d DEF Command!Selected, Command!Over
  <2>2. UNCHANGED Command!Recorded(Command!Failures)
    BY <1>d DEF Command!Recorded
  <2>3. OnTheWay' = OnTheWay
    BY <1>d DEF OnTheWay
  <2>4. ASSUME OnTheWay, NEW s \in Command!Scanners
        PROVE  ScannerKnown(s, tool[s].now, report[s], record[s])'
    BY <1>a, <1>d, <2>1, <2>4 DEF ScannersKnown, ScannerKnown
  <2>5. ASSUME OnTheWay, at' \in {"summary", "exit", "done"}, NEW s \in Command!Selected'
        PROVE  (Command!Over(s) /\ record[s] # "none")'
    <3>1. UNCHANGED at /\ s \in Command!Selected
      BY <1>d, <2>1, <2>5
    <3>2. Command!Over(s) /\ record[s] # "none"
      BY <1>a, <2>5, <3>1 DEF ScannersKnown
    <3> QED
      BY <1>d, <3>2 DEF Command!Over
  <2>6. ASSUME OnTheWay, at' \in {"exit", "done"}
        PROVE  /\ summary.failed = Command!Recorded(Command!Failures)'
               /\ summary.overall \in {"success", "findings_detected", "skipped"} => summary.failed = {}
    BY <1>a, <1>d, <2>2, <2>6 DEF ScannersKnown
  <2>7. ScannersKnown'
    BY <1>a, <1>d, <2>3, <2>4, <2>5, <2>6 DEF ScannersKnown
  <2>8. NoneStarted'
    BY <1>a, <1>d DEF NoneStarted
  <2> QED
    BY <1>d, <2>7, <2>8 DEF CommandInv
\* What is known of the scanners once they are over.
<1>e. ASSUME UNCHANGED <<opts, tool, report, record>>, OnTheWay, at \in {"summary", "exit"}
      PROVE  /\ \A s \in Command!Scanners : ScannerKnown(s, tool[s].now, report[s], record[s])'
             /\ \A s \in Command!Selected' : (Command!Over(s) /\ record[s] # "none")'
             /\ Command!Recorded(Command!Failures)' = Command!Recorded(Command!Failures)
  <2>1. UNCHANGED Command!Selected
    BY <1>e DEF Command!Selected
  <2>2. ASSUME NEW s \in Command!Scanners PROVE ScannerKnown(s, tool[s].now, report[s], record[s])'
    BY <1>a, <1>e, <2>1, <2>2 DEF ScannersKnown, ScannerKnown
  <2>3. ASSUME NEW s \in Command!Selected' PROVE (Command!Over(s) /\ record[s] # "none")'
    <3>1. Command!Over(s) /\ record[s] # "none"
      BY <1>a, <1>e, <2>1, <2>3 DEF ScannersKnown
    <3> QED
      BY <1>e, <3>1 DEF Command!Over
  <2>4. Command!Recorded(Command!Failures)' = Command!Recorded(Command!Failures)
    BY <1>e DEF Command!Recorded
  <2> QED
    BY <2>2, <2>3, <2>4
<1>1. CASE Command!Refuse
  BY <1>1, <1>a, <1>c DEF Command!Refuse, CommandTypeOK
<1>2. CASE Command!RemoveStale
  <2>1. CommandTypeOK' /\ TreeKnown'
    BY <1>2, <1>a DEF Command!RemoveStale, CommandTypeOK, TreeKnown
  <2>2. ScannersKnown' /\ NoneStarted'
    BY <1>2, <1>a DEF Command!RemoveStale, CommandTypeOK, ScannersKnown, NoneStarted, ScannerKnown, OnTheWay
  <2> QED
    BY <2>1, <2>2 DEF CommandInv
<1>3. CASE Command!RefuseTarget
  BY <1>3, <1>a, <1>c DEF Command!RefuseTarget, CommandTypeOK
<1>4. CASE Command!UseDirectory
  <2>1. CommandTypeOK' /\ TreeKnown'
    BY <1>4, <1>a DEF Command!UseDirectory, CommandTypeOK, TreeKnown
  <2> QED
    BY <1>4, <1>d, <2>1 DEF Command!UseDirectory
<1>5. CASE Command!StartClone
  <2>1. CommandTypeOK' /\ TreeKnown'
    BY <1>5, <1>a DEF Command!StartClone, CommandTypeOK, TreeKnown
  <2> QED
    BY <1>5, <1>d, <2>1 DEF Command!StartClone
<1>6. CASE Command!CloneFails
  BY <1>6, <1>a, <1>c DEF Command!CloneFails, CommandTypeOK
<1>7. CASE Command!Cloned
  <2>1. CommandTypeOK' /\ TreeKnown'
    BY <1>7, <1>a DEF Command!Cloned, CommandTypeOK, TreeKnown
  <2> QED
    BY <1>7, <1>d, <2>1 DEF Command!Cloned
<1>8. CASE Command!CheckOutput
  <2>1. CASE Ends("usage")
    BY <1>8, <2>1, <1>a, <1>c DEF Command!CheckOutput, CommandTypeOK
  <2>2. CASE at' = "scanners" /\ UNCHANGED <<tree, askpass, code>>
    <3>1. CommandTypeOK' /\ TreeKnown'
      BY <1>8, <2>2, <1>a DEF Command!CheckOutput, CommandTypeOK, TreeKnown
    <3> QED
      BY <1>8, <1>d, <2>2, <3>1 DEF Command!CheckOutput
  <2> QED
    BY <1>8, <2>1, <2>2 DEF Command!CheckOutput
<1>9. CASE Command!GitEnds
  <2>1. CommandTypeOK' /\ TreeKnown'
    BY <1>9, <1>a DEF Command!GitEnds, CommandTypeOK, TreeKnown
  <2> QED
    BY <1>9, <1>d, <2>1 DEF Command!GitEnds
<1>10. CASE Command!InferLockfile
  <2>1. CommandTypeOK' /\ TreeKnown'
    BY <1>10, <1>a DEF Command!InferLockfile, CommandTypeOK, TreeKnown
  <2> QED
    BY <1>10, <1>d, <2>1 DEF Command!InferLockfile
<1>11. CASE Command!Signal
  <2>1. CommandTypeOK' /\ TreeKnown'
    BY <1>11, <1>a DEF Command!Signal, CommandTypeOK, TreeKnown
  <2> QED
    BY <1>11, <1>d, <2>1 DEF Command!Signal
<1>12. CASE Command!Collect
  <2>1. CommandTypeOK' /\ TreeKnown' /\ NoneStarted'
    BY <1>12, <1>a DEF Command!Collect, CommandTypeOK, TreeKnown, NoneStarted, Command!Verdicts, Command!Failures
  <2>2. ASSUME OnTheWay, NEW s \in Command!Scanners
        PROVE  ScannerKnown(s, tool[s].now, report[s], record'[s])
    BY <1>12, <1>a, <2>2 DEF Command!Collect, ScannersKnown, ScannerKnown, Command!Over, Command!Selected
  <2>3. Command!Selected \subseteq Command!Scanners
    BY <1>a DEF CommandTypeOK, Command!Options, Command!Selected, Command!Scanners, Command!Range
  <2>4. ScannersKnown'
    BY <1>12, <2>2, <2>3 DEF Command!Collect, ScannersKnown, ScannerKnown, OnTheWay, Command!Over, Command!Selected
  <2> QED
    BY <2>1, <2>4 DEF CommandInv
<1>13. CASE Command!Summarize
  <2>1. CommandTypeOK' /\ TreeKnown' /\ NoneStarted'
    BY <1>13, <1>a DEF Command!Summarize, CommandTypeOK, TreeKnown, NoneStarted
  <2>2. summary'.failed = Command!Recorded(Command!Failures) /\ summary'.overall = Command!Overall /\ UNCHANGED record
    BY <1>13 DEF Command!Summarize
  <2>3. Command!Overall \in {"success", "findings_detected", "skipped"} => Command!Recorded(Command!Failures) = {}
    BY DEF Command!Overall
  <2>4. at = "summary" /\ at' = "exit" /\ UNCHANGED <<opts, tool, report, record, code>>
    BY <1>13 DEF Command!Summarize
  <2>5. ASSUME OnTheWay' PROVE OnTheWay
    BY <2>4, <2>5 DEF OnTheWay
  <2>6. ScannersKnown'
    BY <1>e, <2>2, <2>3, <2>4, <2>5 DEF ScannersKnown
  <2> QED
    BY <2>1, <2>6 DEF CommandInv
<1>14. CASE Command!Finished
  <2>1. PICK how \in {"failures", "ok"} : Ends(how) /\ (how = "failures" <=> opts.strict /\ summary.failed # {})
    BY <1>14, <1>b DEF Command!Finished
  <2>2. CommandTypeOK' /\ TreeKnown' /\ NoneStarted'
    BY <1>14, <1>a, <1>b, <2>1 DEF Command!Finished, CommandTypeOK, TreeKnown, NoneStarted
  <2>3. at = "exit" /\ UNCHANGED <<opts, tool, report, record, summary>> /\ code = "none"
    BY <1>14, <1>a DEF Command!Finished, CommandTypeOK
  <2>4. OnTheWay
    BY <2>3 DEF OnTheWay
  <2>5. /\ summary.failed = Command!Recorded(Command!Failures)
        /\ summary.overall \in {"success", "findings_detected", "skipped"} => summary.failed = {}
    BY <1>a, <2>3, <2>4 DEF ScannersKnown
  <2>6. ScannersKnown'
    BY <1>e, <2>1, <2>3, <2>4, <2>5 DEF ScannersKnown
  <2> QED
    BY <2>2, <2>6 DEF CommandInv
<1>15. CASE Command!Trapped
  <2>1. PICK group \in BOOLEAN :
          tool' = [s \in Command!Scanners |->
                     CASE tool[s].now \in {"running", "again"} /\ group
                             -> [tool[s] EXCEPT !.now = "orphan"]
                       [] tool[s].now \in {"exited", "retried"} /\ (group \/ ~opts.parallel)
                             -> [tool[s] EXCEPT !.now = "over"]
                       [] OTHER -> tool[s]]
    BY <1>15 DEF Command!Trapped
  <2>2. ASSUME NEW s \in Command!Scanners
        PROVE  tool'[s] \in {tool[s], [tool[s] EXCEPT !.now = "orphan"], [tool[s] EXCEPT !.now = "over"]}
    BY <2>1
  <2>3. tool' \in [Command!Scanners -> ToolStates]
    <3>1. tool' = [s \in Command!Scanners |-> tool'[s]]
      BY <2>1
    <3>2. ASSUME NEW s \in Command!Scanners
          PROVE  tool'[s] \in ToolStates
      BY <1>a, <2>2 DEF CommandTypeOK, ToolStates
    <3> QED
      BY <3>1, <3>2
  <2>4. Ends("signal") /\ at # "done"
    BY <1>15 DEF Command!Trapped
  <2> QED
    BY <1>c, <2>3, <2>4
<1> QED
  BY <1>1, <1>2, <1>3, <1>4, <1>5, <1>6, <1>7, <1>8, <1>9, <1>10, <1>11, <1>12, <1>13, <1>14, <1>15

LEMMA CommandStays ==
  ASSUME CommandInv, [Command!Next]_commandVars
  PROVE  CommandInv'
<1>1. CASE UNCHANGED commandVars
  BY <1>1 DEF commandVars, CommandInv, CommandTypeOK, TreeKnown, ScannersKnown, NoneStarted, OnTheWay,
              Command!Over, Command!Recorded, Command!Selected, ScannerKnown
<1>2. CASE Command!Next
  BY <1>2, ScriptStep, ScannerStep DEF Command!Next, Command!Script, Command!System
<1> QED
  BY <1>1, <1>2

LEMMA CommandKeeps ==
  ASSUME CommandInv
  PROVE  Command!RecordsTrue /\ Command!TreeGone
<1>1. Command!TreeGone
  BY DEF CommandInv, TreeKnown, Command!TreeGone
<1>2. ASSUME code \in {"ok", "failures"} PROVE OnTheWay /\ at = "done"
  BY <1>2 DEF CommandInv, CommandTypeOK, OnTheWay
<1>3. Command!Selected \subseteq Command!Scanners
  BY DEF CommandInv, CommandTypeOK, Command!Options, Command!Selected, Command!Scanners, Command!Range
<1>4. ASSUME code \in {"ok", "failures"}, NEW s \in Command!Scanners
      PROVE  record[s] # "none" <=> s \in Command!Selected
  BY <1>2, <1>4 DEF CommandInv, ScannersKnown, ScannerKnown
<1>5. ASSUME code \in {"ok", "failures"}, NEW s \in Command!Selected
      PROVE  /\ record[s] \in {"success", "findings_detected", "partial"} => report[s] = "valid"
             /\ record[s] \in {"timed_out", "skipped"} => report[s] = "none"
             /\ report[s] = "invalid" => tool[s].now = "gone"
  <2>1. ScannerKnown(s, tool[s].now, report[s], record[s]) /\ Command!Over(s)
    BY <1>2, <1>3, <1>5 DEF CommandInv, ScannersKnown
  <2> QED
    BY <2>1 DEF ScannerKnown, Command!Over
<1>6. ASSUME code \in {"ok", "failures"}
      PROVE  summary.failed = {s \in Command!Selected : record[s] \in Command!Failures}
  <2>1. summary.failed = {s \in Command!Scanners : record[s] \in Command!Failures}
    BY <1>2, <1>6 DEF CommandInv, ScannersKnown, Command!Recorded
  <2>2. \A s \in Command!Scanners : record[s] \in Command!Failures => s \in Command!Selected
    BY <1>4, <1>6 DEF Command!Failures
  <2> QED
    BY <1>3, <2>1, <2>2
<1>7. code \in {"ok", "failures"} =>
        /\ code = "failures" <=> opts.strict /\ summary.failed # {}
        /\ summary.overall \in {"success", "findings_detected", "skipped"} => summary.failed = {}
  BY <1>2 DEF CommandInv, ScannersKnown
<1> QED
  BY <1>1, <1>4, <1>5, <1>6, <1>7 DEF Command!RecordsTrue

-----------------------------------------------------------------------------
(* grc_unified_scan.sh.                                                    *)

Asked == Unified!Range(Unified!Plan(asked))

UnifiedTypeOK ==
    /\ asked \in Unified!Options
    /\ stage \in {"init", "jobs", "upload", "curl", "posted", "refused", "again", "end", "done"}
    /\ plan \in Seq(Asked)
    /\ jobs \in [DOMAIN jobs -> Unified!Results]
    /\ status = "none" <=> stage # "done"

\* Which jobs have a result where the script is.
JobsKnown ==
    /\ DOMAIN jobs \subseteq Asked \cup {Unified!Upload}
    /\ stage \in {"init", "jobs"} => DOMAIN jobs \cup Unified!Range(plan) = Asked
    /\ stage \in {"upload", "curl", "posted", "refused"} => DOMAIN jobs = Asked
    /\ stage = "again" => DOMAIN jobs = Asked \cup {Unified!Upload}
    /\ stage = "end" \/ status \in {"ok", "failures"} =>
          DOMAIN jobs = Asked \cup (IF asked.url = "none" THEN {} ELSE {Unified!Upload})

\* What a result says is true, and an optional job does not fail.
ResultsKnown ==
    \A j \in DOMAIN jobs :
        /\ jobs[j].verdict \in Unified!Completed => jobs[j].report \/ j[1] = "os"
        /\ Unified!Optional(j) => jobs[j].verdict = "skipped"
        /\ j = Unified!Upload /\ jobs[j].verdict \in Unified!Completed => sent # <<>>

\* Which manifest there is, in the archive, and at the endpoint.
ManifestKnown ==
    /\ stage \in {"init", "jobs"} => manifest = <<>>
    /\ stage = "curl" => archive = manifest
    /\ stage \in {"curl", "posted", "refused", "again"} => asked.url # "none"
    /\ stage \in {"init", "jobs", "upload", "curl"} => sent = <<>>
    /\ stage = "posted" => sent # <<>>
    /\ sent # <<>> => sent[1].jobs = Asked
    /\ stage \in {"upload", "curl", "end"} \/ status \in {"ok", "failures"}
          => manifest = <<Unified!Manifest>>
    /\ status \in {"ok", "failures"} =>
          (status = "failures" <=> asked.strict /\ manifest[1].failed # {})
    /\ stage = "done" /\ archive # <<>> => asked.keep

UnifiedInv == UnifiedTypeOK /\ JobsKnown /\ ResultsKnown /\ ManifestKnown

ScanTools == {"prowler", "scoutsuite", "checkov", "trivy", "os"}
Targets   == Unified!Range(Providers) \cup {"cloud", "kubernetes", "iac", "filesystem", "rootfs", "host_packages"}

\* What is planned is a sequence of jobs, and none of them is the upload.
LEMMA CloudsPlanned ==
  ASSUME NEW o \in Unified!Options, NEW tool_ \in ScanTools
  PROVE  Unified!CloudJobs(o, tool_) \in Seq(ScanTools \X Targets)
<1>1. Providers \in Seq(Unified!Range(Providers)) /\ Providers # <<>>
  BY ScriptsAssumption DEF Unified!Range
<1>2. Unified!Clouds(o) \in Seq(Unified!Range(Providers))
  <2>1. <<Head(Providers)>> \in Seq(Unified!Range(Providers)) /\ <<>> \in Seq(Unified!Range(Providers))
    BY <1>1
  <2>2. o.cloud \in {"none", "one", "all"}
    BY DEF Unified!Options
  <2> QED
    BY <1>1, <2>1, <2>2 DEF Unified!Clouds
<1>3. \A x \in Targets : Unified!Job(tool_, x) \in ScanTools \X Targets
  BY DEF Unified!Job
<1>4. CASE o.cloud = "none"
  BY <1>3, <1>4 DEF Unified!CloudJobs, Targets
<1>5. CASE o.cloud # "none"
  <2>1. PICK q \in Seq(Unified!Range(Providers)) : q = Unified!Clouds(o)
    BY <1>2
  <2>2. \A i \in DOMAIN q : Unified!Job(tool_, q[i]) \in ScanTools \X Targets
    BY <1>3, <2>1 DEF Targets
  <2>3. [i \in DOMAIN q |-> Unified!Job(tool_, q[i])] \in Seq(ScanTools \X Targets)
    BY <2>2
  <2> QED
    BY <1>5, <2>1, <2>3 DEF Unified!CloudJobs
<1> QED
  BY <1>4, <1>5

LEMMA JobsPlanned ==
  ASSUME NEW o \in Unified!Options
  PROVE  Unified!Plan(o) \in Seq(ScanTools \X Targets)
<1> DEFINE S == Seq(ScanTools \X Targets)
<1>1. <<>> \in S
  OBVIOUS
<1>3. Unified!CloudJobs(o, "prowler") \in S /\ Unified!CloudJobs(o, "scoutsuite") \in S
  BY CloudsPlanned DEF ScanTools
<1>4. /\ <<Unified!Job("prowler", "kubernetes")>> \in S /\ <<Unified!Job("checkov", "iac")>> \in S
      /\ <<Unified!Job("trivy", "filesystem"), Unified!Job("trivy", "rootfs")>> \in S
      /\ <<Unified!Job("os", "host_packages")>> \in S
  BY DEF Unified!Job, ScanTools, Targets
<1>5. \A p, q \in S : p \o q \in S
  OBVIOUS
<1>6. PICK a \in S, b \in S, c \in S, d \in S, e \in S, f \in S :
        /\ a = Unified!When("prowler" \in o.tools, Unified!CloudJobs(o, "prowler"))
        /\ b = Unified!When("prowler" \in o.tools /\ o.cluster, <<Unified!Job("prowler", "kubernetes")>>)
        /\ c = Unified!When("scoutsuite" \in o.tools, Unified!CloudJobs(o, "scoutsuite"))
        /\ d = Unified!When("checkov" \in o.tools, <<Unified!Job("checkov", "iac")>>)
        /\ e = Unified!When("trivy" \in o.tools,
                           <<Unified!Job("trivy", "filesystem"), Unified!Job("trivy", "rootfs")>>)
        /\ f = Unified!When("os" \in o.tools, <<Unified!Job("os", "host_packages")>>)
  <2> HIDE DEF S
  <2> QED
    BY <1>1, <1>3, <1>4 DEF Unified!When
<1>7. Unified!Plan(o) = a \o b \o c \o d \o e \o f
  BY <1>6 DEF Unified!Plan
<1>8. a \o b \o c \o d \o e \o f \in S
  <2> HIDE DEF S
  <2> QED
    BY <1>5
<1> QED
  BY <1>7, <1>8

LEMMA AskedKnown ==
  ASSUME asked \in Unified!Options
  PROVE  /\ Unified!Plan(asked) \in Seq(Asked)
         /\ \A j \in Asked : j \in ScanTools \X Targets /\ j # Unified!Upload
<1>1. PICK p \in Seq(ScanTools \X Targets) : p = Unified!Plan(asked)
  BY JobsPlanned
<1>2. Asked = {p[i] : i \in DOMAIN p}
  BY <1>1 DEF Asked, Unified!Range
<1>3. p \in Seq(Asked) /\ Asked \subseteq ScanTools \X Targets
  BY <1>2
<1>4. \A j \in ScanTools \X Targets : j # Unified!Upload
  BY DEF Unified!Upload, Unified!Job, ScanTools
<1> QED
  BY <1>1, <1>3, <1>4

LEMMA FirstAndRest ==
  ASSUME NEW S, NEW q \in Seq(S), q # <<>>
  PROVE  /\ Head(q) \in S /\ Tail(q) \in Seq(S)
         /\ {q[i] : i \in DOMAIN q} = {Head(q)} \cup {Tail(q)[i] : i \in DOMAIN Tail(q)}
<1>1. Head(q) \in S /\ Tail(q) \in Seq(S) /\ Len(Tail(q)) = Len(q) - 1 /\ Len(q) \in Nat \ {0}
  OBVIOUS
<1>2. \A i \in 1..Len(Tail(q)) : Tail(q)[i] = q[i + 1] /\ i + 1 \in 1..Len(q)
  BY <1>1
<1>3. \A i \in 1..Len(q) : i # 1 => i - 1 \in 1..Len(Tail(q)) /\ q[i] = Tail(q)[i - 1]
  BY <1>1
<1>4. {q[i] : i \in DOMAIN q} \subseteq {Head(q)} \cup {Tail(q)[i] : i \in DOMAIN Tail(q)}
  <2>1. ASSUME NEW i \in 1..Len(q) PROVE q[i] \in {Head(q)} \cup {Tail(q)[k] : k \in DOMAIN Tail(q)}
    <3>1. CASE i = 1
      BY <3>1
    <3>2. CASE i # 1
      <4>1. i - 1 \in 1..Len(Tail(q)) /\ q[i] = Tail(q)[i - 1]
        BY <1>3, <3>2
      <4>2. DOMAIN Tail(q) = 1..Len(Tail(q))
        BY <1>1
      <4> QED
        BY <4>1, <4>2
    <3> QED
      BY <3>1, <3>2
  <2> QED
    BY <2>1
<1>5. {Tail(q)[i] : i \in DOMAIN Tail(q)} \subseteq {q[i] : i \in DOMAIN q}
  BY <1>1, <1>2
<1>6. Head(q) \in {q[i] : i \in DOMAIN q}
  BY <1>1
<1> QED
  BY <1>1, <1>4, <1>5, <1>6

LEMMA UnifiedInit ==
  ASSUME Unified!Init
  PROVE  UnifiedInv
<1>1. plan \in Seq(Asked) /\ Asked = Unified!Range(plan)
  BY AskedKnown DEF Unified!Init, Asked
<1>2. DOMAIN jobs = {} /\ jobs \in [DOMAIN jobs -> Unified!Results]
  BY DEF Unified!Init
<1> QED
  BY <1>1, <1>2 DEF Unified!Init, UnifiedInv, UnifiedTypeOK, JobsKnown, ResultsKnown, ManifestKnown

\* A job of the plan ends.
LEMMA JobEnds ==
  ASSUME UnifiedInv, stage = "jobs", plan # <<>>, NEW r, Unified!Done(r),
         r.verdict \in Unified!Completed => r.report \/ Unified!Current[1] = "os",
         Unified!Optional(Unified!Current) => r.verdict = "skipped"
  PROVE  UnifiedInv'
<1>1. /\ r \in Unified!Results /\ plan' = Tail(plan)
      /\ jobs' = [k \in DOMAIN jobs \cup {Head(plan)} |-> IF k = Head(plan) THEN r ELSE jobs[k]]
      /\ UNCHANGED <<asked, stage, manifest, archive, sent, status>>
  BY DEF Unified!Done, Unified!Write, Unified!Current
<1>2. Asked' = Asked /\ plan \in Seq(Asked)
  BY <1>1 DEF Asked, UnifiedInv, UnifiedTypeOK
<1>3. /\ Head(plan) \in Asked /\ Tail(plan) \in Seq(Asked)
      /\ Unified!Range(plan) = {Head(plan)} \cup Unified!Range(Tail(plan))
  BY <1>2, FirstAndRest DEF Unified!Range
<1>4. Head(plan) # Unified!Upload
  BY <1>3, AskedKnown DEF UnifiedInv, UnifiedTypeOK
<1>5. DOMAIN jobs' = DOMAIN jobs \cup {Head(plan)}
  BY <1>1
<1>6. UnifiedTypeOK'
  BY <1>1, <1>2, <1>3, <1>5 DEF UnifiedInv, UnifiedTypeOK
<1>7. JobsKnown'
  BY <1>1, <1>2, <1>3, <1>5 DEF UnifiedInv, UnifiedTypeOK, JobsKnown
<1>8. ResultsKnown'
  BY <1>1, <1>4, <1>5 DEF UnifiedInv, ResultsKnown, Unified!Current, Unified!Optional
<1>9. ManifestKnown'
  BY <1>1, <1>2 DEF UnifiedInv, UnifiedTypeOK, ManifestKnown
<1> QED
  BY <1>6, <1>7, <1>8, <1>9 DEF UnifiedInv

LEMMA VerdictTrue ==
  ASSUME NEW tl \in ScanTools, NEW x \in Unified!Outcomes, Unified!Verdict(tl, x) \in Unified!Completed
  PROVE  x.valid \/ tl = "os"
BY DEF Unified!Verdict, Unified!Completed, Unified!Validated

LEMMA JobStep ==
  ASSUME UnifiedInv,
         \/ Unified!Skip \/ Unified!ToolMissing \/ Unified!RunProwler \/ Unified!RunScout
         \/ Unified!RunCheckov \/ Unified!RunTrivy \/ Unified!RunNativeOs
  PROVE  UnifiedInv'
<1> USE DEF Unified!Runs
<1>1. CASE Unified!Skip
  BY <1>1, JobEnds DEF Unified!Skip, Unified!NoReport, Unified!Completed
<1>2. CASE Unified!ToolMissing
  <2>1. ~Unified!Optional(Unified!Current)
    BY <1>2 DEF Unified!ToolMissing, Unified!Missing, Unified!Optional, Unified!Job
  <2> QED
    BY <1>2, <2>1, JobEnds DEF Unified!ToolMissing, Unified!NoReport, Unified!Completed
<1>3. ASSUME NEW tl \in ScanTools, Unified!Runs({tl}), tl = "trivy" => ~Unified!Missing(Unified!Current),
             NEW x \in Unified!Outcomes, Unified!Done(Unified!Judged(tl, x))
      PROVE  UnifiedInv'
  <2>1. ~Unified!Optional(Unified!Current)
    BY <1>3 DEF Unified!Missing, Unified!Optional, Unified!Job
  <2>2. Unified!Judged(tl, x).verdict = Unified!Verdict(tl, x) /\ Unified!Judged(tl, x).report = x.valid
    BY DEF Unified!Judged
  <2>3. Unified!Verdict(tl, x) \in Unified!Completed => x.valid \/ Unified!Current[1] = "os"
    BY <1>3, VerdictTrue
  <2> QED
    BY <1>3, <2>1, <2>2, <2>3, JobEnds
<1>4. CASE Unified!RunProwler
  BY <1>3, <1>4 DEF Unified!RunProwler, ScanTools
<1>5. CASE Unified!RunScout
  BY <1>3, <1>5 DEF Unified!RunScout, ScanTools
<1>6. CASE Unified!RunCheckov
  BY <1>3, <1>6 DEF Unified!RunCheckov, ScanTools
<1>7. CASE Unified!RunTrivy
  BY <1>3, <1>7 DEF Unified!RunTrivy, ScanTools
<1>8. CASE Unified!RunNativeOs
  BY <1>3, <1>8 DEF Unified!RunNativeOs, ScanTools
<1> QED
  BY <1>1, <1>2, <1>4, <1>5, <1>6, <1>7, <1>8

\* The manifest is of the jobs that have a result, and none of those that
\* failed is optional.
LEMMA OverallTrue ==
  ASSUME UnifiedInv
  PROVE  /\ Unified!Manifest.jobs = DOMAIN jobs
         /\ Unified!Manifest.failed = Unified!With(Unified!Failures)
         /\ Unified!Manifest.overall \in {"success", "findings_detected"}
               => Unified!With(Unified!Failures) = {}
         /\ Unified!Manifest.overall = "findings_detected" <=>
               Unified!With({"findings_detected"}) # {} /\ Unified!With(Unified!Failures) = {}
<1>1. {j \in Unified!With(Unified!Failures) : ~Unified!Optional(j)} = Unified!With(Unified!Failures)
  BY DEF UnifiedInv, ResultsKnown, Unified!With, Unified!Failures
<1>2. Unified!With({"findings_detected"}) # {} => Unified!With(Unified!Completed) # {}
  BY DEF Unified!With, Unified!Completed
<1>3. /\ Unified!Overall \in {"success", "findings_detected"} => Unified!With(Unified!Failures) = {}
      /\ Unified!Overall = "findings_detected" <=>
               Unified!With({"findings_detected"}) # {} /\ Unified!With(Unified!Failures) = {}
  BY <1>1, <1>2 DEF Unified!Overall
<1> QED
  BY <1>1, <1>3 DEF Unified!Manifest

\* A step that leaves the results as they are.
LEMMA NoResult ==
  ASSUME UnifiedInv, UNCHANGED <<asked, plan, jobs>>, sent = <<>> \/ sent' # <<>>,
         sent = <<>> \/ UNCHANGED sent,
         stage' \in {"init", "jobs", "upload", "curl", "posted", "refused", "again", "end", "done"},
         status' = "none" <=> stage' # "done",
         JobsKnown', ManifestKnown'
  PROVE  UnifiedInv'
<1>1. Asked' = Asked
  BY DEF Asked
<1>2. UnifiedTypeOK'
  BY <1>1 DEF UnifiedInv, UnifiedTypeOK
<1>3. ResultsKnown'
  BY DEF UnifiedInv, ResultsKnown, Unified!Optional
<1> QED
  BY <1>2, <1>3 DEF UnifiedInv

LEMMA UnifiedExit ==
  ASSUME UnifiedInv, stage # "done", NEW how \in {"usage", "error", "signal"}, Unified!Exit(how),
         UNCHANGED <<asked, plan, jobs, manifest, sent>>
  PROVE  UnifiedInv'
<1>1. Asked' = Asked
  BY DEF Asked
<1>2. JobsKnown'
  BY <1>1 DEF UnifiedInv, JobsKnown, Unified!Exit
<1>3. ManifestKnown'
  BY <1>1 DEF UnifiedInv, ManifestKnown, Unified!Exit
<1> QED
  BY <1>2, <1>3, NoResult DEF Unified!Exit

\* The result of the upload is written.
LEMMA UploadRecorded ==
  ASSUME UnifiedInv, stage \in {"upload", "posted", "refused"}, asked.url # "none",
         NEW r \in Unified!Results, Unified!Write(Unified!Upload, r), stage' = "again",
         r.verdict \in Unified!Completed => r.report /\ sent # <<>>,
         UNCHANGED <<asked, plan, manifest, sent, status>>
  PROVE  UnifiedInv'
<1>1. Asked' = Asked
  BY DEF Asked
<1>2. jobs' = [k \in DOMAIN jobs \cup {Unified!Upload} |-> IF k = Unified!Upload THEN r ELSE jobs[k]]
  BY DEF Unified!Write
<1>3. DOMAIN jobs' = Asked \cup {Unified!Upload}
  BY <1>2 DEF UnifiedInv, JobsKnown
<1>4. status = "none"
  BY DEF UnifiedInv, UnifiedTypeOK
<1>5. UnifiedTypeOK'
  BY <1>1, <1>2, <1>3, <1>4 DEF UnifiedInv, UnifiedTypeOK
<1>6. JobsKnown'
  BY <1>1, <1>3, <1>4 DEF JobsKnown
<1>7. ResultsKnown'
  <2>1. ~Unified!Optional(Unified!Upload)
    BY DEF Unified!Optional, Unified!Upload, Unified!Job
  <2> QED
    BY <1>2, <2>1 DEF UnifiedInv, ResultsKnown, Unified!Optional
<1>8. ManifestKnown'
  BY <1>1, <1>4 DEF UnifiedInv, ManifestKnown
<1> QED
  BY <1>5, <1>6, <1>7, <1>8 DEF UnifiedInv

LEMMA UnifiedStep ==
  ASSUME UnifiedInv, Unified!Next
  PROVE  UnifiedInv'
<1> USE DEF Unified!Goto
<1>a. /\ status = "none" <=> stage # "done"
      /\ JobsKnown /\ ManifestKnown
      /\ asked.url \in {"none", "refused", "accepted"} /\ asked.strict \in BOOLEAN
  BY DEF UnifiedInv, UnifiedTypeOK, Unified!Options
<1>b. UNCHANGED asked => Asked' = Asked
  BY DEF Asked
<1>c. UNCHANGED <<asked, jobs>> => UNCHANGED Unified!Manifest
  BY DEF Unified!Manifest, Unified!Overall, Unified!With, Unified!Optional
<1>d. Unified!Manifest.jobs = DOMAIN jobs
  BY OverallTrue
<1>1. CASE Unified!Refuse
  BY <1>1, UnifiedExit DEF Unified!Refuse
<1>2. CASE Unified!Initialize
  <2>1. JobsKnown' /\ ManifestKnown'
    BY <1>2, <1>a, <1>b DEF Unified!Initialize, JobsKnown, ManifestKnown
  <2> QED
    BY <1>2, <1>a, <2>1, NoResult DEF Unified!Initialize
<1>3. CASE \/ Unified!Skip \/ Unified!ToolMissing \/ Unified!RunProwler \/ Unified!RunScout
           \/ Unified!RunCheckov \/ Unified!RunTrivy \/ Unified!RunNativeOs
  BY <1>3, JobStep
<1>4. CASE Unified!Summarize
  <2>1. DOMAIN jobs = Asked
    BY <1>4, <1>a DEF Unified!Summarize, JobsKnown, Unified!Range
  <2>2. JobsKnown'
    BY <1>4, <1>a, <1>b, <2>1 DEF Unified!Summarize, JobsKnown
  <2>3. ManifestKnown'
    BY <1>4, <1>a, <1>b, <1>c DEF Unified!Summarize, ManifestKnown
  <2> QED
    BY <1>4, <1>a, <2>2, <2>3, NoResult DEF Unified!Summarize
<1>5. CASE Unified!NoUpload
  <2>1. JobsKnown' /\ ManifestKnown'
    BY <1>5, <1>a, <1>b, <1>c DEF Unified!NoUpload, JobsKnown, ManifestKnown
  <2> QED
    BY <1>5, <1>a, <2>1, NoResult DEF Unified!NoUpload
<1>6. CASE Unified!RefuseUpload
  <2>1. Unified!NoReport("failed") \in Unified!Results /\ Unified!NoReport("failed").verdict \notin Unified!Completed
    BY DEF Unified!NoReport, Unified!Results, Unified!Failures, Unified!Completed
  <2> QED
    BY <1>6, <2>1, UploadRecorded DEF Unified!RefuseUpload
<1>7. CASE Unified!PackFails
  BY <1>7, UnifiedExit DEF Unified!PackFails
<1>8. CASE Unified!Pack
  <2>1. JobsKnown' /\ ManifestKnown'
    BY <1>8, <1>a, <1>b, <1>c DEF Unified!Pack, JobsKnown, ManifestKnown
  <2> QED
    BY <1>8, <1>a, <2>1, NoResult DEF Unified!Pack
<1>9. CASE Unified!Post
  <2>1. archive = <<Unified!Manifest>> /\ Unified!Manifest.jobs = Asked
    BY <1>9, <1>a, <1>d DEF Unified!Post, JobsKnown, ManifestKnown
  <2>2. JobsKnown' /\ ManifestKnown'
    BY <1>9, <1>a, <1>b, <2>1 DEF Unified!Post, JobsKnown, ManifestKnown
  <2> QED
    BY <1>9, <1>a, <2>2, NoResult DEF Unified!Post, ManifestKnown
<1>10. CASE Unified!RecordUpload
  <2>1. PICK v \in {"success", "failed"} :
           /\ Unified!Write(Unified!Upload, [verdict |-> v, report |-> TRUE])
           /\ v = "success" => stage = "posted"
    BY <1>10 DEF Unified!RecordUpload
  <2>2. PICK r \in Unified!Results : r = [verdict |-> v, report |-> TRUE]
    BY DEF Unified!Results, Unified!Failures, Unified!Completed
  <2>3. r.verdict \in Unified!Completed => r.report /\ sent # <<>>
    BY <1>a, <2>1, <2>2 DEF ManifestKnown, Unified!Completed
  <2> QED
    BY <1>10, <1>a, <2>1, <2>2, <2>3, UploadRecorded DEF Unified!RecordUpload, ManifestKnown
<1>11. CASE Unified!SummarizeAgain
  <2>1. JobsKnown' /\ ManifestKnown'
    BY <1>11, <1>a, <1>b, <1>c DEF Unified!SummarizeAgain, JobsKnown, ManifestKnown
  <2> QED
    BY <1>11, <1>a, <2>1, NoResult DEF Unified!SummarizeAgain
<1>12. CASE Unified!Finish
  <2>1. PICK how \in {"failures", "ok"} :
           Unified!Exit(how) /\ (how = "failures" <=> asked.strict /\ manifest[1].failed # {})
    BY <1>12, <1>a DEF Unified!Finish
  <2>2. stage = "end" /\ UNCHANGED <<asked, plan, jobs, manifest, sent>>
    BY <1>12 DEF Unified!Finish
  <2>3. JobsKnown' /\ ManifestKnown'
    BY <1>a, <1>b, <1>c, <2>1, <2>2 DEF Unified!Exit, JobsKnown, ManifestKnown
  <2> QED
    BY <2>1, <2>2, <2>3, NoResult DEF Unified!Exit
<1>13. CASE Unified!Signal
  <2>1. JobsKnown' /\ ManifestKnown'
    BY <1>13, <1>a, <1>b, <1>c DEF Unified!Signal, JobsKnown, ManifestKnown
  <2> QED
    BY <1>13, <1>a, <2>1, NoResult DEF Unified!Signal, UnifiedInv, UnifiedTypeOK
<1>14. CASE Unified!Trapped
  BY <1>14, UnifiedExit DEF Unified!Trapped
<1> QED
  BY <1>1, <1>2, <1>3, <1>4, <1>5, <1>6, <1>7, <1>8, <1>9, <1>10, <1>11, <1>12, <1>13, <1>14 DEF Unified!Next

LEMMA UnifiedStays ==
  ASSUME UnifiedInv, [Unified!Next]_unifiedVars
  PROVE  UnifiedInv'
<1>1. CASE UNCHANGED unifiedVars
  <2>1. Asked' = Asked /\ UNCHANGED Unified!Manifest
    BY <1>1 DEF unifiedVars, Asked, Unified!Manifest, Unified!Overall, Unified!With, Unified!Optional
  <2>2. JobsKnown' /\ ManifestKnown'
    BY <1>1, <2>1 DEF unifiedVars, UnifiedInv, JobsKnown, ManifestKnown
  <2> QED
    BY <1>1, <2>2, NoResult DEF unifiedVars, UnifiedInv, UnifiedTypeOK
<1> QED
  BY <1>1, UnifiedStep

LEMMA UnifiedKeeps ==
  ASSUME UnifiedInv
  PROVE  Unified!ManifestTrue /\ Unified!ArchiveGone
<1>1. Unified!ArchiveGone
  BY DEF UnifiedInv, ManifestKnown, Unified!ArchiveGone
<1>2. ASSUME status \in {"ok", "failures"}
      PROVE  /\ manifest[1] = Unified!Manifest
             /\ DOMAIN jobs = Unified!Range(Unified!Plan(asked))
                                 \cup (IF asked.url = "none" THEN {} ELSE {Unified!Upload})
             /\ status = "failures" <=> asked.strict /\ manifest[1].failed # {}
  BY <1>2 DEF UnifiedInv, JobsKnown, ManifestKnown, Asked
<1>3. \A j \in Unified!With(Unified!Completed) : jobs[j].report \/ j[1] = "os"
  BY DEF UnifiedInv, ResultsKnown, Unified!With
<1>4. Unified!Upload \in Unified!With(Unified!Completed) => sent # <<>>
  BY DEF UnifiedInv, ResultsKnown, Unified!With
<1>5. sent # <<>> => sent[1].jobs = Unified!Range(Unified!Plan(asked))
  BY DEF UnifiedInv, ManifestKnown, Asked
<1> QED
  BY <1>1, <1>2, <1>3, <1>4, <1>5, OverallTrue DEF Unified!ManifestTrue

-----------------------------------------------------------------------------
(* The scanners of a host: the installer and the checker.                  *)

HostTypeOK ==
    /\ host \in [Host!Tools -> [Host!Places -> Host!Versions]]
    /\ run \in [kind : {"install", "check"}, scope : Host!Places, only : BOOLEAN,
                allow : BOOLEAN, arch : BOOLEAN, wanted : SUBSET Host!Tools,
                exact : BOOLEAN, strict : BOOLEAN, cut : BOOLEAN]
    /\ turn \in {"idle", "base", "basics", "arch", "tools", "report"}
    /\ run.kind = "check" => turn \notin {"base", "arch"}
    /\ todo \in Seq(Host!Tools)
    /\ turn \in {"base", "basics", "arch"} => Host!Range(todo) = Host!Tools
    /\ counts \in [failures : BOOLEAN, warnings : BOOLEAN]
    /\ ready.status \in {"none", "failed", "success"}
    /\ ready.status = "none" => ready = Host!NotReady

\* A scanner the installer has come to is there, unless a step has failed.
Found(t) == IF run.only THEN Host!Resolved(run.scope, t) \in Host!Fit ELSE Host!Current(t)

\* A row of the installer is true of the host, whatever is installed later.
RowTrue(r) ==
    /\ r.status \in {"failed", "outdated"} => counts.failures
    /\ r.name \in run.wanted /\ r.status \in {"success", "already_current", "present_current"}
          => Found(r.name)
    /\ r.name \in Host!Releases /\ r.status = "success" =>
          /\ ~run.only /\ Host!Current(r.name)
          /\ r.verified <=> host[r.name][run.scope] = "pinned"
          /\ ~r.verified => run.allow

Passed(t) == turn \in {"tools", "report", "idle"} /\ t \notin Host!Range(todo)

\* A run of the installer, until it has reported.
InstallKnown ==
    run.kind = "install" /\ (turn # "idle" \/ ready.status # "none") =>
        /\ turn \in {"arch", "tools", "report", "idle"} /\ ~counts.failures => basics # "missing"
        /\ turn \in {"tools", "report", "idle"} /\ ~counts.failures => run.arch
        /\ \A t \in Host!Tools : Passed(t) =>
              /\ ~counts.failures /\ t \in run.wanted => Found(t)
              /\ ~run.cut => \E r \in rows : r.name = t \/ r.status = "failed"
        /\ \A r \in rows : RowTrue(r)
        /\ turn \in {"report", "idle"} => Host!Range(todo) = {}
        /\ turn # "idle" => ready.status = "none"
        /\ turn = "idle" => ready = [status |-> IF counts.failures THEN "failed" ELSE "success",
                                     scope |-> run.scope, wanted |-> run.wanted]

Wanted(t) == Host!Resolved("user", t) \in (IF run.exact THEN Host!Fit ELSE Host!Versions \ {"none"})

\* A run of the checker, until it has reported.
CheckKnown ==
    /\ health.status # "none" => run.kind = "check" /\ turn = "idle"
    /\ run.kind = "check" /\ (turn # "idle" \/ health.status # "none") =>
        /\ turn \in {"tools", "report", "idle"} /\ ~counts.failures => basics = "fit"
        /\ \A t \in run.wanted : Passed(t) /\ ~counts.failures => Wanted(t)
        /\ \A r \in rows : r.name \in Host!Tools /\ r.status = "failed" => ~Wanted(r.name)
        /\ turn \in {"report", "idle"} => Host!Range(todo) = {}
        /\ turn = "idle" =>
              /\ health.exit = 0 => ~counts.failures /\ (run.strict => ~counts.warnings)
              /\ ~counts.failures /\ ~counts.warnings => health.status = "healthy"

\* What an installer has found ready nobody takes away until the next one.
ReadyKnown ==
    ready.status = "success" =>
        /\ ready.scope \in Host!Places /\ ready.wanted \subseteq Host!Tools
        /\ \A t \in ready.wanted : \/ Host!Resolved(ready.scope, t) \in Host!Fit
                                   \/ host[t][ready.scope] \in Host!Fit

HostInv == HostTypeOK /\ InstallKnown /\ CheckKnown /\ ReadyKnown

LEMMA PlacesTwo ==
  ASSUME NEW p \in Host!Places, NEW t
  PROVE  \E q \in Host!Places : q # p /\ Host!Resolved(p, t) = IF host[t][p] # "none" THEN host[t][p] ELSE host[t][q]
<1>1. PICK q \in Host!Places : q = CHOOSE x \in Host!Places : x # p
  BY DEF Host!Places
<1>2. q # p
  BY <1>1 DEF Host!Places
<1> QED
  BY <1>1, <1>2 DEF Host!Resolved

LEMMA HostInit ==
  ASSUME Host!Init
  PROVE  HostInv
<1>1. \E r \in Host!Runs : r.kind = "check"
  <2> DEFINE r == [kind |-> "check", scope |-> "user", only |-> TRUE, allow |-> FALSE, arch |-> TRUE,
                   wanted |-> Host!Tools, exact |-> TRUE, strict |-> FALSE, cut |-> FALSE]
  <2>1. r \in Host!Kinds
    BY DEF Host!Kinds, Host!Places
  <2> QED
    BY <2>1 DEF Host!Runs
<1>2. run \in Host!Runs /\ run.kind = "check"
  BY <1>1 DEF Host!Init
<1>3. run \in [kind : {"install", "check"}, scope : Host!Places, only : BOOLEAN,
                allow : BOOLEAN, arch : BOOLEAN, wanted : SUBSET Host!Tools,
                exact : BOOLEAN, strict : BOOLEAN, cut : BOOLEAN]
  BY <1>2 DEF Host!Runs, Host!Kinds
<1>4. host \in [Host!Tools -> [Host!Places -> Host!Versions]]
  BY DEF Host!Init, Host!Versions
<1>5. HostTypeOK
  BY <1>2, <1>3, <1>4 DEF Host!Init, HostTypeOK, Host!NotReady
<1> QED
  BY <1>2, <1>5 DEF Host!Init, HostInv, InstallKnown, CheckKnown, ReadyKnown, Host!NotReady

\* What is found depends on the host and on the options.
LEMMA FoundStays ==
  ASSUME NEW t, UNCHANGED <<host, run.scope, run.only>>
  PROVE  (Found(t)' <=> Found(t)) /\ (Host!Current(t)' <=> Host!Current(t))
BY DEF Found, Host!Current, Host!Resolved

LEMMA WantedStays ==
  ASSUME NEW t, UNCHANGED <<host, run.exact>>
  PROVE  Wanted(t)' <=> Wanted(t)
BY DEF Wanted, Host!Resolved

LEMMA ReadyStays ==
  ASSUME ReadyKnown, UNCHANGED <<host, ready>>
  PROVE  ReadyKnown'
BY DEF ReadyKnown, Host!Resolved

\* A new run.
LEMMA HostBegins ==
  ASSUME HostInv, Host!Begin
  PROVE  HostInv'
<1>1. /\ run' \in Host!Runs /\ todo' = HostOrder /\ rows' = {}
      /\ counts' = [failures |-> FALSE, warnings |-> FALSE]
      /\ ready' = IF run'.kind = "install" THEN Host!NotReady ELSE ready
      /\ health' = [status |-> "none", exit |-> 0] /\ UNCHANGED <<host, basics>>
      /\ turn' = IF run'.kind = "install" THEN "base" ELSE "basics"
  BY DEF Host!Begin, Host!Goto
<1>2. run' \in [kind : {"install", "check"}, scope : Host!Places, only : BOOLEAN,
                allow : BOOLEAN, arch : BOOLEAN, wanted : SUBSET Host!Tools,
                exact : BOOLEAN, strict : BOOLEAN, cut : BOOLEAN]
  BY <1>1 DEF Host!Runs, Host!Kinds
<1>3. HostOrder \in Seq(Host!Tools)
  BY ScriptsAssumption
<1>4. HostTypeOK'
  BY <1>1, <1>2, <1>3 DEF HostInv, HostTypeOK, Host!NotReady, Host!Tools
<1>5. InstallKnown'
  BY <1>1 DEF InstallKnown, Passed, Host!NotReady
<1>6. CheckKnown'
  BY <1>1 DEF CheckKnown, Passed
<1>7. ReadyKnown'
  <2>1. CASE run'.kind = "install"
    BY <1>1, <2>1 DEF ReadyKnown, Host!NotReady
  <2>2. CASE run'.kind # "install"
    BY <1>1, <2>2, ReadyStays DEF HostInv
  <2> QED
    BY <2>1, <2>2
<1> QED
  BY <1>4, <1>5, <1>6, <1>7 DEF HostInv

\* The installer comes to a scanner: what it installs was not there, and what
\* its rows say is true of what it leaves.
LEMMA ScannerTaken ==
  ASSUME HostInv, NEW t \in Host!Tools, Host!Take(t), UNCHANGED <<basics, run, turn, ready, health>>,
         \/ UNCHANGED host
         \/ /\ ~run.only /\ ~Host!Current(t)
            /\ \E v \in Host!Versions : host' = [host EXCEPT ![t][run.scope] = v],
         NEW new, rows' = Host!Rows(new),
         counts' \in {counts, [counts EXCEPT !.failures = TRUE]},
         \E r \in new : r.name = t \/ r.status = "failed",
         \A r \in new : RowTrue(r)',
         ~counts'.failures /\ t \in run.wanted => Found(t)'
  PROVE  HostInv'
<1>1. /\ turn = "tools" /\ run.kind = "install" /\ todo # <<>> /\ t = Head(todo) /\ todo' = Tail(todo)
      /\ todo \in Seq(Host!Tools)
  BY DEF Host!Take, Host!Installing, HostInv, HostTypeOK
<1>2. todo' \in Seq(Host!Tools) /\ Host!Range(todo) = {t} \cup Host!Range(todo')
  <2>1. /\ Tail(todo) \in Seq(Host!Tools)
        /\ {todo[i] : i \in DOMAIN todo} = {Head(todo)} \cup {Tail(todo)[i] : i \in DOMAIN Tail(todo)}
    BY ONLY <1>1, FirstAndRest
  <2> QED
    BY ONLY <1>1, <2>1 DEF Host!Range
<1>3. counts.failures => counts'.failures
  BY DEF HostInv, HostTypeOK
<1>4. HostTypeOK'
  <2>1. host' \in [Host!Tools -> [Host!Places -> Host!Versions]]
    BY DEF HostInv, HostTypeOK
  <2>2. counts' \in [failures : BOOLEAN, warnings : BOOLEAN]
    BY DEF HostInv, HostTypeOK
  <2> QED
    BY <1>1, <1>2, <2>1, <2>2 DEF HostInv, HostTypeOK
<1>5. ASSUME NEW x, x # t \/ (Found(t) /\ Host!Current(t))
      PROVE  (Found(x)' <=> Found(x)) /\ (Host!Current(x)' <=> Host!Current(x)) /\ host'[x] = host[x]
  <2>1. CASE UNCHANGED host
    BY <2>1, FoundStays
  <2>2. CASE ~Host!Current(t) /\ \E v \in Host!Versions : host' = [host EXCEPT ![t][run.scope] = v]
    <3>1. host'[x] = host[x]
      BY <1>5, <2>2 DEF HostInv, HostTypeOK
    <3> QED
      BY <3>1 DEF Found, Host!Current, Host!Resolved
  <2> QED
    BY <2>1, <2>2
<1>6. ASSUME NEW r \in rows, RowTrue(r) PROVE RowTrue(r)'
  <2>1. CASE UNCHANGED host
    BY <1>3, <1>6, <2>1, FoundStays DEF RowTrue
  <2>2. CASE ~run.only /\ ~Host!Current(t)
    <3>1. ~Found(t)
      BY <2>2 DEF Found
    <3>2. CASE r.name = t
      BY <1>3, <1>6, <2>2, <3>1, <3>2 DEF RowTrue
    <3>3. CASE r.name # t
      BY <1>3, <1>5, <1>6, <3>3 DEF RowTrue
    <3> QED
      BY <3>2, <3>3
  <2> QED
    BY <2>1, <2>2
<1>7. rows' \subseteq rows \cup new /\ (~run.cut => rows' = rows \cup new)
  BY <1>1 DEF Host!Rows
<1>8. ASSUME NEW r \in rows' PROVE RowTrue(r)'
  BY <1>1, <1>6, <1>7, <1>8 DEF HostInv, InstallKnown
<1>9. ASSUME NEW x \in Host!Tools, Passed(x)'
      PROVE  /\ ~counts'.failures /\ x \in run'.wanted => Found(x)'
             /\ ~run'.cut => \E r \in rows' : r.name = x \/ r.status = "failed"
  <2>1. CASE x = t
    BY <1>7, <2>1
  <2>2. CASE x # t
    <3>1. Passed(x)
      BY <1>1, <1>2, <1>9, <2>2 DEF Passed
    <3>2. /\ ~counts.failures /\ x \in run.wanted => Found(x)
          /\ ~run.cut => \E r \in rows : r.name = x \/ r.status = "failed"
      BY <1>1, <3>1 DEF HostInv, InstallKnown
    <3>3. Found(x)' <=> Found(x)
      BY <1>5, <2>2
    <3>4. ~run'.cut => rows \subseteq rows'
      BY <1>7
    <3> QED
      BY ONLY <1>3, <3>2, <3>3, <3>4, UNCHANGED <<basics, run, turn, ready, health>>
  <2> QED
    BY <2>1, <2>2
<1>10. InstallKnown'
  BY <1>1, <1>3, <1>8, <1>9 DEF HostInv, InstallKnown
<1>11. CheckKnown'
  BY <1>1 DEF HostInv, CheckKnown
<1>12. ready.status = "none"
  BY <1>1 DEF HostInv, InstallKnown
<1>13. ReadyKnown'
  BY <1>12 DEF ReadyKnown
<1> QED
  BY <1>4, <1>10, <1>11, <1>13 DEF HostInv

LEMMA NamesOfScanners ==
  ASSUME NEW t \in Host!Tools
  PROVE  t # "base"
BY ScriptsAssumption

\* The steps of the installer that are about one scanner.
LEMMA InstallStep ==
  ASSUME HostInv, NEW t \in Host!Tools,
         \/ Host!LeaveOut(t) \/ Host!ExamineOnly(t) \/ Host!AlreadyCurrent(t)
         \/ Host!InstallWithPipx(t) \/ Host!InstallRelease(t)
  PROVE  HostInv'
<1> DEFINE Took == Host!Take(t) /\ UNCHANGED <<basics, run, turn, ready, health>>
           Failed == counts' = [counts EXCEPT !.failures = TRUE]
           Changed == /\ ~run.only /\ ~Host!Current(t)
                      /\ \E v \in Host!Versions : host' = [host EXCEPT ![t][run.scope] = v]
<1> USE DEF Host!TookStep, Host!StepEnds, Host!StepFails, Host!Considered
<1>a. t # "base"
  BY NamesOfScanners
<1>b. Failed => counts'.failures
  BY DEF HostInv, HostTypeOK
\* A step that fails, with a row about the scanner or without.
<1>c. ASSUME Took, Failed, UNCHANGED host \/ Changed, NEW row,
             row = {} \/ \E s \in {"failed", "outdated"} : row = Host!Row(t, s, FALSE),
             rows' = Host!Rows(row \cup Host!Base("failed"))
      PROVE  HostInv'
  <2>1. \A r \in row \cup Host!Base("failed") : r.status \in {"failed", "outdated"}
    BY <1>c DEF Host!Row, Host!Base
  <2>2. \E r \in row \cup Host!Base("failed") : r.status = "failed"
    <3> DEFINE base == [name |-> "base", status |-> "failed", verified |-> FALSE]
    <3>1. base \in Host!Base("failed") /\ base.status = "failed"
      BY DEF Host!Row, Host!Base
    <3> QED
      BY <3>1
  <2>3. \A r \in row \cup Host!Base("failed") : RowTrue(r)'
    BY <1>b, <1>c, <2>1 DEF RowTrue
  <2> QED
    BY <1>b, <1>c, <2>2, <2>3, ScannerTaken
\* A step that ends well, with a row about the scanner.
<1>d. ASSUME Took, UNCHANGED counts, UNCHANGED host \/ Changed, NEW r, rows' = Host!Rows({r}),
             r.name = t, r.status \notin {"failed", "outdated"},
             t \in run.wanted => Found(t)',
             r.status = "success" => /\ ~run.only /\ Host!Current(t)'
                                     /\ r.verified <=> host'[t][run.scope] = "pinned"
                                     /\ ~r.verified => run.allow
      PROVE  HostInv'
  <2>1. RowTrue(r)'
    BY <1>d DEF RowTrue
  <2> QED
    BY <1>d, <2>1, ScannerTaken
<1>e. host[t] \in [Host!Places -> Host!Versions] /\ run.scope \in Host!Places
      /\ host \in [Host!Tools -> [Host!Places -> Host!Versions]]
  BY DEF HostInv, HostTypeOK
<1>1. CASE Host!LeaveOut(t)
  <2> DEFINE r == [name |-> t, status |-> "skipped", verified |-> FALSE]
  <2>1. Took /\ UNCHANGED <<host, counts>> /\ t \notin run.wanted /\ rows' = Host!Rows({r})
    BY <1>1 DEF Host!LeaveOut, Host!Row
  <2>2. r.name = t /\ r.status = "skipped"
    OBVIOUS
  <2> HIDE DEF r
  <2> QED
    BY <1>d, <2>1, <2>2
<1>2. CASE Host!ExamineOnly(t)
  <2>1. Took /\ UNCHANGED host /\ run.only
    BY <1>2 DEF Host!ExamineOnly
  <2>2. CASE Host!StepFails(Host!Row(t, "failed", FALSE))
    BY <1>c, <2>1, <2>2
  <2>3. CASE Host!StepFails(Host!Row(t, "outdated", FALSE))
    BY <1>c, <2>1, <2>3
  <2>4. CASE Host!Resolved(run.scope, t) \in Host!Fit /\ Host!StepEnds(Host!Row(t, "present_current", TRUE))
    <3> DEFINE r == [name |-> t, status |-> "present_current", verified |-> TRUE]
    <3>1. Found(t)'
      BY <2>1, <2>4, FoundStays DEF Found
    <3>2. rows' = Host!Rows({r}) /\ UNCHANGED counts
      BY <2>4 DEF Host!Row
    <3>3. r.name = t /\ r.status = "present_current"
      OBVIOUS
    <3> HIDE DEF r
    <3> QED
      BY <1>d, <2>1, <3>1, <3>2, <3>3
  <2>5. Host!Resolved(run.scope, t) \in Host!Versions
    BY <1>e, PlacesTwo
  <2> QED
    BY <1>2, <2>2, <2>3, <2>4, <2>5 DEF Host!ExamineOnly, Host!Versions, Host!Fit
<1>3. CASE Host!AlreadyCurrent(t)
  <2> DEFINE r == [name |-> t, status |-> "already_current", verified |-> TRUE]
  <2>1. Took /\ UNCHANGED <<host, counts>> /\ ~run.only /\ Host!Current(t) /\ rows' = Host!Rows({r})
    BY <1>3 DEF Host!AlreadyCurrent, Host!Row
  <2>2. Found(t)'
    BY <2>1, FoundStays DEF Found
  <2>3. r.name = t /\ r.status = "already_current"
    OBVIOUS
  <2> HIDE DEF r
  <2> QED
    BY <1>d, <2>1, <2>2, <2>3
<1>4. CASE Host!InstallWithPipx(t)
  <2>1. Took /\ t \in Pipx /\ ~run.only /\ ~Host!Current(t)
    BY <1>4 DEF Host!InstallWithPipx
  <2>2. CASE host' = [host EXCEPT ![t][run.scope] = "pinned"] /\ Host!StepEnds(Host!Row(t, "success", TRUE))
    <3>1. host'[t][run.scope] = "pinned" /\ Changed
      BY <1>e, <2>1, <2>2 DEF Host!Versions
    <3>2. Host!Current(t)' /\ Found(t)'
      BY <2>1, <3>1 DEF Host!Current, Found, Host!Fit
    <3> DEFINE r == [name |-> t, status |-> "success", verified |-> TRUE]
    <3>3. rows' = Host!Rows({r}) /\ UNCHANGED counts
      BY <2>2 DEF Host!Row
    <3>4. r.name = t /\ r.status = "success" /\ r.verified
      OBVIOUS
    <3> HIDE DEF r
    <3> QED
      BY <1>d, <2>1, <3>1, <3>2, <3>3, <3>4
  <2>3. ASSUME NEW v \in {"none", host[t][run.scope]}, host' = [host EXCEPT ![t][run.scope] = v],
               NEW row \in {{}, Host!Row(t, "failed", FALSE)}, Host!StepFails(row)
        PROVE  HostInv'
    <3>1. Changed
      BY <1>e, <2>1, <2>3 DEF Host!Versions
    <3> QED
      BY <1>c, <2>1, <2>3, <3>1
  <2> QED
    BY <1>4, <2>2, <2>3 DEF Host!InstallWithPipx
<1>5. CASE Host!InstallRelease(t)
  <2>1. Took /\ t \in Host!Releases /\ ~run.only /\ ~Host!Current(t)
    BY <1>5 DEF Host!InstallRelease
  <2>2. CASE UNCHANGED host /\ Host!StepFails({})
    BY <1>c, <2>1, <2>2
  <2>3. CASE host' = [host EXCEPT ![t][run.scope] = "old"] /\ Host!StepFails({})
    <3>1. Changed
      BY <2>1, <2>3 DEF Host!Versions
    <3> QED
      BY <1>c, <2>1, <2>3, <3>1
  <2>4. ASSUME NEW c \in Host!Checksums, Host!Verified(c) # "failed",
               host' = [host EXCEPT ![t][run.scope] = IF Host!Verified(c) = "verified" THEN "pinned" ELSE "unchecked"],
               Host!StepEnds(Host!Row(t, "success", Host!Verified(c) = "verified"))
        PROVE  HostInv'
    <3> DEFINE r == [name |-> t, status |-> "success", verified |-> Host!Verified(c) = "verified"]
    <3>1. r.name = t /\ r.status = "success" /\ (r.verified <=> Host!Verified(c) = "verified")
      OBVIOUS
    <3>2. rows' = Host!Rows({r}) /\ UNCHANGED counts
      BY <2>4 DEF Host!Row
    <3> HIDE DEF r
    <3>3. host'[t][run.scope] = (IF Host!Verified(c) = "verified" THEN "pinned" ELSE "unchecked") /\ Changed
      BY <1>e, <2>1, <2>4 DEF Host!Versions
    <3>4. Host!Resolved(run.scope, t)' \in Host!Fit
      BY <3>3, <2>1 DEF Host!Resolved, Host!Fit
    <3>5. Host!Current(t)' /\ Found(t)'
      BY <2>1, <3>4 DEF Host!Current, Found, Host!Releases
    <3>6. Host!Verified(c) = "verified" \/ run.allow
      BY <2>4 DEF Host!Verified
    <3>7. r.verified <=> host'[t][run.scope] = "pinned"
      BY <3>1, <3>3
    <3> QED
      BY <1>d, <2>1, <3>1, <3>2, <3>3, <3>5, <3>6, <3>7
  <2> QED
    BY <1>5, <2>2, <2>3, <2>4 DEF Host!InstallRelease
<1> QED
  BY <1>1, <1>2, <1>3, <1>4, <1>5

\* A step of the installer between the scanners and the ends of a run: its rows
\* are about no scanner, and those that tell of a failure are counted.
LEMMA InstallMovesOn ==
  ASSUME HostInv, run.kind = "install", turn \in {"base", "basics", "arch", "tools"},
         turn' \in {"basics", "arch", "tools", "report"}, UNCHANGED <<host, run, todo, ready, health>>,
         NEW s \in {"ok", "failed"}, NEW new \in SUBSET Host!Base(s), rows' = Host!Rows(new),
         counts' \in {counts, [counts EXCEPT !.failures = TRUE]},
         s = "failed" => counts'.failures,
         turn' \in {"arch", "tools", "report"} /\ ~counts'.failures => basics' # "missing",
         turn' \in {"tools", "report"} /\ ~counts'.failures => run.arch,
         turn' = "basics" => turn = "base", turn' = "arch" => turn = "basics",
         turn' = "tools" => turn = "arch",
         turn' = "report" => turn = "tools" /\ Host!Range(todo) = {}
  PROVE  HostInv'
<1>1. HostTypeOK'
  BY DEF HostInv, HostTypeOK
<1>2. counts.failures => counts'.failures
  BY DEF HostInv, HostTypeOK
<1>3. ASSUME NEW r \in new PROVE RowTrue(r)'
  <2>1. r.name = "base" /\ r.status = s
    BY <1>3 DEF Host!Base, Host!Row
  <2>2. "base" \notin run.wanted /\ "base" \notin Host!Releases
    BY ScriptsAssumption DEF HostInv, HostTypeOK, Host!Releases
  <2> QED
    BY <2>1, <2>2 DEF RowTrue
<1>4. ASSUME NEW r \in rows PROVE RowTrue(r)'
  <2>1. RowTrue(r)
    BY <1>4 DEF HostInv, InstallKnown
  <2> QED
    BY <1>2, <2>1, FoundStays DEF RowTrue
<1>5. rows' \subseteq rows \cup new /\ (~run.cut => rows \subseteq rows')
  BY DEF Host!Rows
<1>6. ASSUME NEW t \in Host!Tools, Passed(t)'
      PROVE  /\ ~counts'.failures /\ t \in run'.wanted => Found(t)'
             /\ ~run'.cut => \E r \in rows' : r.name = t \/ r.status = "failed"
  <2>1. Passed(t)
    BY <1>6 DEF Passed, HostInv, HostTypeOK
  <2>2. /\ ~counts.failures /\ t \in run.wanted => Found(t)
        /\ ~run.cut => \E r \in rows : r.name = t \/ r.status = "failed"
    BY <2>1 DEF HostInv, InstallKnown
  <2>3. Found(t)' <=> Found(t)
    BY FoundStays
  <2> QED
    BY <1>2, <1>5, <2>2, <2>3
<1>7. ready'.status = "none"
  BY DEF HostInv, InstallKnown
<1>8. InstallKnown'
  BY <1>3, <1>4, <1>5, <1>6, <1>7 DEF InstallKnown
<1>9. CheckKnown'
  BY DEF HostInv, CheckKnown
<1>10. ReadyKnown'
  BY <1>7 DEF ReadyKnown
<1> QED
  BY <1>1, <1>8, <1>9, <1>10 DEF HostInv

\* The other steps of the installer.
LEMMA InstallerStep ==
  ASSUME HostInv,
         \/ Host!PrepareHost \/ Host!CheckPrerequisites \/ Host!CheckArchitecture
         \/ Host!HandleZap \/ Host!Report \/ \E t \in Host!Tools : Host!Abort(t)
  PROVE  HostInv'
<1> USE DEF Host!Installing, Host!Goto
<1>a. HostTypeOK /\ InstallKnown /\ CheckKnown /\ ReadyKnown
  BY DEF HostInv
<1>b. ASSUME NEW row \in {{}, Host!Base("failed")}, Host!StepFails(row)
      PROVE  /\ \E new \in SUBSET Host!Base("failed") : rows' = Host!Rows(new)
             /\ counts' = [counts EXCEPT !.failures = TRUE] /\ counts'.failures
  BY <1>a, <1>b DEF Host!StepFails, HostTypeOK
<1>1. CASE Host!PrepareHost
  <2>1. /\ run.kind = "install" /\ turn = "base" /\ turn' = "basics" /\ UNCHANGED <<host, run, todo, ready, health>>
        /\ Host!StepEnds(Host!Base("ok")) \/ Host!StepFails({})
    BY <1>1 DEF Host!PrepareHost
  <2>2. CASE Host!StepEnds(Host!Base("ok"))
    BY <2>1, <2>2, InstallMovesOn DEF Host!StepEnds
  <2>3. CASE Host!StepFails({})
    BY <1>b, <2>1, <2>3, InstallMovesOn
  <2> QED
    BY <2>1, <2>2, <2>3
<1>2. CASE Host!CheckPrerequisites
  <2>1. /\ run.kind = "install" /\ turn = "basics" /\ turn' = "arch" /\ UNCHANGED <<host, basics, run, todo, ready, health>>
    BY <1>2 DEF Host!CheckPrerequisites
  <2>2. CASE basics # "missing" /\ Host!StepEnds(Host!Base("ok"))
    BY <2>1, <2>2, InstallMovesOn DEF Host!StepEnds
  <2>3. CASE Host!StepFails(Host!Base("failed"))
    BY <1>b, <2>1, <2>3, InstallMovesOn
  <2> QED
    BY <1>2, <2>2, <2>3 DEF Host!CheckPrerequisites
<1>3. CASE Host!CheckArchitecture
  <2>1. /\ run.kind = "install" /\ turn = "arch" /\ turn' = "tools" /\ UNCHANGED <<host, basics, run, todo, ready, health>>
        /\ ~counts.failures => basics # "missing"
    BY <1>a, <1>3 DEF Host!CheckArchitecture, InstallKnown
  <2>2. CASE run.arch /\ Host!StepEnds(Host!Base("ok"))
    BY <2>1, <2>2, InstallMovesOn DEF Host!StepEnds
  <2>3. CASE Host!StepFails({})
    BY <1>b, <2>1, <2>3, InstallMovesOn
  <2> QED
    BY <1>3, <2>2, <2>3 DEF Host!CheckArchitecture
<1>4. CASE Host!HandleZap
  <2>1. /\ run.kind = "install" /\ turn = "tools" /\ turn' = "report" /\ UNCHANGED <<host, basics, run, todo, ready, health>>
        /\ ~counts.failures => basics # "missing" /\ run.arch
        /\ Host!StepEnds(Host!Base("ok")) \/ Host!StepFails(Host!Base("failed"))
    BY <1>a, <1>4 DEF Host!HandleZap, InstallKnown
  <2>2. Host!Range(todo) = {}
    BY <1>4 DEF Host!HandleZap, Host!Range
  <2>3. CASE Host!StepEnds(Host!Base("ok"))
    BY <2>1, <2>2, <2>3, InstallMovesOn DEF Host!StepEnds
  <2>4. CASE Host!StepFails(Host!Base("failed"))
    BY <1>b, <2>1, <2>2, <2>4, InstallMovesOn
  <2> QED
    BY <2>1, <2>3, <2>4
<1>5. CASE Host!Report
  <2>1. /\ run.kind = "install" /\ turn = "report" /\ turn' = "idle"
        /\ UNCHANGED <<host, basics, run, todo, rows, counts, health>>
        /\ ready' = [status |-> IF counts.failures THEN "failed" ELSE "success",
                     scope |-> run.scope, wanted |-> run.wanted]
    BY <1>5 DEF Host!Report
  <2>2. HostTypeOK'
    BY <1>a, <2>1 DEF HostTypeOK
  <2>3. \A t : (Found(t)' <=> Found(t)) /\ (Host!Current(t)' <=> Host!Current(t))
    BY <2>1, FoundStays
  <2>4. \A t : Passed(t)' <=> Passed(t)
    BY <2>1 DEF Passed
  <2>5. InstallKnown'
    <3>1. \A r \in rows' : RowTrue(r)'
      BY <1>a, <2>1, <2>3 DEF InstallKnown, RowTrue
    <3>2. \A t \in Host!Tools : Passed(t)' =>
              /\ ~counts'.failures /\ t \in run'.wanted => Found(t)'
              /\ ~run'.cut => \E r \in rows' : r.name = t \/ r.status = "failed"
      BY <1>a, <2>1, <2>3, <2>4 DEF InstallKnown
    <3> QED
      BY <1>a, <2>1, <3>1, <3>2 DEF InstallKnown
  <2>6. CheckKnown'
    BY <1>a, <2>1 DEF CheckKnown
  <2>7. ReadyKnown'
    <3>1. ASSUME ~counts.failures, NEW t \in run.wanted
          PROVE  Host!Resolved(run.scope, t) \in Host!Fit \/ host[t][run.scope] \in Host!Fit
      <4>1. t \in Host!Tools /\ Passed(t)
        BY <1>a, <2>1, <3>1 DEF HostTypeOK, InstallKnown, Passed
      <4>2. Found(t)
        BY <1>a, <2>1, <3>1, <4>1 DEF InstallKnown
      <4> QED
        BY <4>2 DEF Found, Host!Current
    <3> QED
      BY <1>a, <2>1, <3>1 DEF ReadyKnown, HostTypeOK, Host!Resolved
  <2> QED
    BY <2>2, <2>5, <2>6, <2>7 DEF HostInv
<1>6. ASSUME NEW t \in Host!Tools, Host!Abort(t) PROVE HostInv'
  <2>1. /\ run.kind = "install" /\ turn = "tools" /\ turn' = "idle" /\ todo # <<>> /\ todo' = Tail(todo)
        /\ UNCHANGED <<host, basics, run, rows, counts, ready, health>>
    BY <1>6 DEF Host!Abort, Host!Take
  <2>2. ready.status = "none"
    BY <1>a, <2>1 DEF InstallKnown
  <2>3. HostTypeOK'
    BY <1>a, <2>1 DEF HostTypeOK
  <2> QED
    BY <1>a, <2>1, <2>2, <2>3 DEF HostInv, InstallKnown, CheckKnown, ReadyKnown
<1> QED
  BY <1>1, <1>2, <1>3, <1>4, <1>5, <1>6

\* The checker changes nothing on the host.
LEMMA CheckMovesOn ==
  ASSUME HostInv, run.kind = "check", turn # "idle", turn' \in {"tools", "report"},
         UNCHANGED <<host, basics, run, ready, health>>,
         NEW name, NEW s, Host!RecordCheck(name, s),
         name \in Host!Tools /\ s = "failed" => ~Wanted(name),
         todo' \in Seq(Host!Tools),
         ~counts.failures /\ turn # "tools" /\ s # "failed" => basics = "fit",
         \A t \in run.wanted : Passed(t)' => Passed(t) \/ (t = name /\ (s # "failed" => Wanted(t))),
         turn' = "report" => Host!Range(todo') = {},
         turn # "report"
  PROVE  HostInv'
<1>1. /\ rows' = rows \cup Host!Row(name, s, FALSE)
      /\ counts' = [failures |-> counts.failures \/ s = "failed", warnings |-> counts.warnings \/ s = "warning"]
  BY DEF Host!RecordCheck, Host!Rows
<1>2. (counts'.failures <=> counts.failures \/ s = "failed")
  BY <1>1
<1>3. HostTypeOK'
  <2>1. counts' \in [failures : BOOLEAN, warnings : BOOLEAN]
    BY <1>1 DEF HostInv, HostTypeOK
  <2> QED
    BY <2>1 DEF HostInv, HostTypeOK
<1>4. InstallKnown'
  BY DEF InstallKnown
<1>5. health.status = "none"
  BY DEF HostInv, CheckKnown
<1>6. \A t : Wanted(t)' <=> Wanted(t)
  BY WantedStays
<1>7. ASSUME NEW r \in rows', r.name \in Host!Tools, r.status = "failed" PROVE ~Wanted(r.name)'
  <2>1. CASE r \in rows
    BY <1>6, <1>7, <2>1 DEF HostInv, CheckKnown
  <2>2. CASE r \in Host!Row(name, s, FALSE)
    BY <1>6, <1>7, <2>2 DEF Host!Row
  <2> QED
    BY <1>1, <2>1, <2>2
<1>8. ASSUME NEW t \in run.wanted, Passed(t)', ~counts'.failures PROVE Wanted(t)'
  BY <1>2, <1>6, <1>8 DEF HostInv, CheckKnown
<1>9. ~counts'.failures => basics' = "fit"
  BY <1>2 DEF HostInv, HostTypeOK, CheckKnown
<1>10. CheckKnown'
  BY <1>5, <1>7, <1>8, <1>9 DEF CheckKnown
<1>11. ReadyKnown'
  BY ReadyStays DEF HostInv
<1> QED
  BY <1>3, <1>4, <1>10, <1>11 DEF HostInv

LEMMA HealthFails ==
  ASSUME HostInv, NEW t \in Host!Tools
  PROVE  /\ Host!Health(t) = "failed" => ~Wanted(t)
         /\ Host!Health(t) # "failed" /\ t \in run.wanted => Wanted(t)
<1>1. Host!Resolved("user", t) \in Host!Versions
  BY PlacesTwo DEF HostInv, HostTypeOK, Host!Places
<1> QED
  BY <1>1 DEF Host!Health, Wanted, Host!Versions, Host!Fit

LEMMA CheckerStep ==
  ASSUME HostInv,
         \/ Host!CheckBasics \/ Host!CheckAdvisory \/ Host!ReportHealth
         \/ \E t \in Host!Tools : Host!CheckTool(t)
  PROVE  HostInv'
<1> USE DEF Host!Checking, Host!Goto
<1>a. HostTypeOK /\ InstallKnown /\ CheckKnown /\ ReadyKnown
  BY DEF HostInv
<1>b. "base" \notin Host!Tools
  BY ScriptsAssumption
<1>1. CASE Host!CheckBasics
  <2>1. PICK s : Host!RecordCheck("base", s) /\ (s # "failed" => basics = "fit")
    BY <1>1 DEF Host!CheckBasics
  <2>2. /\ run.kind = "check" /\ turn = "basics" /\ turn' = "tools"
        /\ UNCHANGED <<host, basics, run, todo, ready, health>>
    BY <1>1 DEF Host!CheckBasics
  <2>3. \A t \in run.wanted : ~Passed(t)'
    BY <1>a, <2>2 DEF HostTypeOK, Passed
  <2>4. todo' \in Seq(Host!Tools)
    BY <1>a, <2>2 DEF HostTypeOK
  <2> QED
    BY <1>b, <2>1, <2>2, <2>3, <2>4, CheckMovesOn
<1>2. CASE Host!CheckAdvisory
  <2>1. PICK s : Host!RecordCheck("base", s)
    BY <1>2 DEF Host!CheckAdvisory
  <2>2. /\ run.kind = "check" /\ turn = "tools" /\ turn' = "report" /\ todo = <<>>
        /\ UNCHANGED <<host, basics, run, todo, ready, health>>
    BY <1>2 DEF Host!CheckAdvisory
  <2>3. Host!Range(todo') = {}
    BY <2>2 DEF Host!Range
  <2>4. \A t \in run.wanted : Passed(t)' => Passed(t)
    BY <2>2 DEF Passed
  <2>5. todo' \in Seq(Host!Tools)
    BY <1>a, <2>2 DEF HostTypeOK
  <2> QED
    BY <1>b, <2>1, <2>2, <2>3, <2>4, <2>5, CheckMovesOn
<1>3. ASSUME NEW t \in Host!Tools, Host!CheckTool(t) PROVE HostInv'
  <2>1. /\ run.kind = "check" /\ turn = "tools" /\ todo # <<>> /\ t = Head(todo) /\ todo' = Tail(todo)
        /\ todo \in Seq(Host!Tools) /\ turn' = "tools"
        /\ UNCHANGED <<host, basics, run, ready, health>>
        /\ Host!RecordCheck(t, Host!Health(t))
    BY <1>a, <1>3 DEF Host!CheckTool, HostTypeOK
  <2>2. todo' \in Seq(Host!Tools) /\ Host!Range(todo) = {t} \cup Host!Range(todo')
    <3>1. /\ Tail(todo) \in Seq(Host!Tools)
          /\ {todo[i] : i \in DOMAIN todo} = {Head(todo)} \cup {Tail(todo)[i] : i \in DOMAIN Tail(todo)}
      BY ONLY <2>1, FirstAndRest
    <3> QED
      BY ONLY <2>1, <3>1 DEF Host!Range
  <2>3. PICK s : s = Host!Health(t)
    OBVIOUS
  <2>4. (s = "failed" => ~Wanted(t)) /\ (t \in run.wanted /\ s # "failed" => Wanted(t))
    BY <2>3, HealthFails
  <2>5. \A x \in run.wanted : Passed(x)' => Passed(x) \/ (x = t /\ (s # "failed" => Wanted(x)))
    BY <2>1, <2>2, <2>4 DEF Passed
  <2>6. Host!RecordCheck(t, s)
    BY <2>1, <2>3
  <2> QED
    BY <2>1, <2>2, <2>4, <2>5, <2>6, CheckMovesOn
<1>4. CASE Host!ReportHealth
  <2>1. /\ run.kind = "check" /\ turn = "report" /\ turn' = "idle"
        /\ UNCHANGED <<host, basics, run, todo, rows, counts, ready>>
        /\ health'.exit = 0 => ~counts.failures /\ (run.strict => ~counts.warnings)
        /\ ~counts.failures /\ ~counts.warnings => health'.status = "healthy"
    BY <1>4 DEF Host!ReportHealth
  <2>2. HostTypeOK'
    BY <1>a, <2>1 DEF HostTypeOK
  <2>3. InstallKnown'
    BY <2>1 DEF InstallKnown
  <2>4. \A t : (Wanted(t)' <=> Wanted(t)) /\ (Passed(t)' <=> Passed(t))
    BY <2>1, WantedStays DEF Passed
  <2>5. CheckKnown'
    BY <1>a, <2>1, <2>4 DEF CheckKnown
  <2>6. ReadyKnown'
    BY <1>a, <2>1, ReadyStays
  <2> QED
    BY <2>2, <2>3, <2>5, <2>6 DEF HostInv
<1> QED
  BY <1>1, <1>2, <1>3, <1>4

\* An interrupt takes the rows and leaves what is known of the host.
LEMMA HostInterrupted ==
  ASSUME HostInv, Host!Interrupt
  PROVE  HostInv'
<1>1. /\ turn # "idle" /\ run' = [run EXCEPT !.cut = TRUE] /\ rows' = {}
      /\ UNCHANGED <<host, basics, turn, todo, counts, ready, health>>
  BY DEF Host!Interrupt
<1>2. /\ run'.cut = TRUE /\ UNCHANGED <<run.kind, run.scope, run.only, run.allow, run.arch, run.wanted, run.exact, run.strict>>
  BY <1>1 DEF HostInv, HostTypeOK
<1>3. HostTypeOK'
  BY <1>1 DEF HostInv, HostTypeOK
<1>4. \A t : (Found(t)' <=> Found(t)) /\ (Wanted(t)' <=> Wanted(t)) /\ (Passed(t)' <=> Passed(t))
  BY <1>1, <1>2, FoundStays, WantedStays DEF Passed
<1>5. InstallKnown'
  BY <1>1, <1>2, <1>4 DEF HostInv, InstallKnown
<1>6. CheckKnown'
  BY <1>1, <1>2, <1>4 DEF HostInv, CheckKnown
<1>7. ReadyKnown'
  BY <1>1, ReadyStays DEF HostInv
<1> QED
  BY <1>3, <1>5, <1>6, <1>7 DEF HostInv

LEMMA HostStays ==
  ASSUME HostInv, [Host!Next]_hostVars
  PROVE  HostInv'
<1>1. CASE UNCHANGED hostVars
  <2>1. UNCHANGED <<host, basics, run, turn, todo, rows, counts, ready, health>>
    BY <1>1 DEF hostVars
  <2>2. \A t : /\ (Found(t)' <=> Found(t)) /\ (Host!Current(t)' <=> Host!Current(t))
               /\ (Wanted(t)' <=> Wanted(t)) /\ (Passed(t)' <=> Passed(t))
    BY <2>1, FoundStays, WantedStays DEF Passed
  <2>3. HostTypeOK'
    BY <2>1 DEF HostInv, HostTypeOK
  <2>4. \A r : RowTrue(r)' <=> RowTrue(r)
    BY <2>1, <2>2 DEF RowTrue
  <2>5. InstallKnown'
    BY <2>1, <2>2, <2>4 DEF HostInv, InstallKnown
  <2>6. CheckKnown'
    BY <2>1, <2>2 DEF HostInv, CheckKnown
  <2>7. ReadyKnown'
    BY <2>1, ReadyStays DEF HostInv
  <2> QED
    BY <2>3, <2>5, <2>6, <2>7 DEF HostInv
<1>2. CASE Host!Next
  BY <1>2, HostBegins, InstallStep, InstallerStep, CheckerStep, HostInterrupted DEF Host!Next
<1> QED
  BY <1>1, <1>2

LEMMA HostKeeps ==
  ASSUME HostInv
  PROVE  Host!InstallTrue /\ Host!HealthTrue /\ Host!ReadyIsHealthy
<1>1. ASSUME turn = "idle", run.kind = "install", ready # Host!NotReady
      PROVE  /\ ready.status = "success" =>
                   /\ \A t \in run.wanted : Host!Resolved(run.scope, t) \in Host!Fit \/ Host!Current(t)
                   /\ basics # "missing"
                   /\ Host!Releases \cap run.wanted # {} => run.arch
             /\ ~run.cut =>
                   \A t \in Host!Tools : \E r \in rows : r.name = t \/ r.status = "failed"
             /\ \A r \in rows :
                   /\ r.status \in {"failed", "outdated"} => ready.status = "failed"
                   /\ r.name \in run.wanted
                         /\ r.status \in {"success", "already_current", "present_current"}
                      => Host!Current(r.name) \/ Host!Resolved(run.scope, r.name) \in Host!Fit
                   /\ r.name \in Host!Releases /\ r.status = "success" =>
                         /\ r.verified <=> host[r.name][run.scope] = "pinned"
                         /\ ~r.verified => run.allow
  <2>1. ready.status # "none" /\ run.wanted \subseteq Host!Tools
    BY <1>1 DEF HostInv, HostTypeOK
  <2>2. \A t \in Host!Tools : Passed(t)
    BY <1>1, <2>1 DEF HostInv, InstallKnown, Passed
  <2>3. ready.status = IF counts.failures THEN "failed" ELSE "success"
    BY <1>1, <2>1 DEF HostInv, InstallKnown
  <2>4. ASSUME NEW t, Found(t) PROVE Host!Resolved(run.scope, t) \in Host!Fit \/ Host!Current(t)
    BY <2>4 DEF Found
  <2>5. ASSUME NEW r \in rows PROVE RowTrue(r)
    BY <1>1, <2>1, <2>5 DEF HostInv, InstallKnown
  <2>6. ready.status = "success" => basics # "missing" /\ run.arch /\ \A t \in run.wanted : Found(t)
    BY <1>1, <2>1, <2>2, <2>3 DEF HostInv, InstallKnown
  <2>7. ~run.cut => \A t \in Host!Tools : \E r \in rows : r.name = t \/ r.status = "failed"
    BY <1>1, <2>1, <2>2 DEF HostInv, InstallKnown
  <2> QED
    BY <2>3, <2>4, <2>5, <2>6, <2>7 DEF RowTrue
<1>2. Host!InstallTrue
  BY <1>1 DEF Host!InstallTrue
<1>3. ASSUME turn = "idle", run.kind = "check", health.status # "none", health.exit = 0
      PROVE  /\ \A t \in run.wanted : Wanted(t)
             /\ basics = "fit"
             /\ health.status = "healthy" \/ ~run.strict
  <2>1. ~counts.failures /\ (run.strict => ~counts.warnings)
    BY <1>3 DEF HostInv, CheckKnown
  <2>2. \A t \in run.wanted : Passed(t)
    BY <1>3 DEF HostInv, HostTypeOK, CheckKnown, Passed
  <2> QED
    BY <1>3, <2>1, <2>2 DEF HostInv, CheckKnown
<1>4. Host!HealthTrue
  BY <1>3 DEF Host!HealthTrue, Wanted
<1>5. ASSUME turn = "idle", health.status # "none", ready.status = "success",
             NEW r \in rows, r.name \in ready.wanted, r.status = "failed"
      PROVE  ready.scope = "system" /\ host[r.name]["user"] = "old"
  <2>1. r.name \in Host!Tools /\ ready.scope \in Host!Places
    BY <1>5 DEF HostInv, ReadyKnown
  <2>2. ~Wanted(r.name)
    BY <1>5, <2>1 DEF HostInv, CheckKnown
  <2>3. Host!Resolved(ready.scope, r.name) \in Host!Fit \/ host[r.name][ready.scope] \in Host!Fit
    BY <1>5 DEF HostInv, ReadyKnown
  <2>4. host[r.name] \in [Host!Places -> Host!Versions]
    BY <2>1 DEF HostInv, HostTypeOK
  <2>5. /\ Host!Resolved("user", r.name) =
              IF host[r.name]["user"] # "none" THEN host[r.name]["user"] ELSE host[r.name]["system"]
        /\ Host!Resolved("system", r.name) =
              IF host[r.name]["system"] # "none" THEN host[r.name]["system"] ELSE host[r.name]["user"]
    BY PlacesTwo DEF Host!Places
  <2> QED
    BY <2>1, <2>2, <2>3, <2>4, <2>5 DEF Wanted, Host!Places, Host!Versions, Host!Fit
<1>6. Host!ReadyIsHealthy
  BY <1>5 DEF Host!ReadyIsHealthy
<1> QED
  BY <1>2, <1>4, <1>6

-----------------------------------------------------------------------------
(* The theorems.                                                           *)

ScriptsInv == RunnerInv /\ CommandInv /\ UnifiedInv /\ HostInv

LEMMA ScriptsInductive == Spec => []ScriptsInv
<1>1. Init => ScriptsInv
  BY PartInits, RunnerInit, CommandInit, UnifiedInit, HostInit DEF ScriptsInv
<1>2. ScriptsInv /\ [Next]_vars => ScriptsInv'
  BY PartSteps, RunnerStays, CommandStays, UnifiedStays, HostStays DEF ScriptsInv
<1> QED
  BY <1>1, <1>2, PTL DEF Spec

\* OutcomeTrue of MCScripts (the verdict of ScannerRunnerService on a run whose
\* child exits, is stopped by the timer or by the output limit) in every
\* behaviour of the model.
THEOREM OutcomesTrue == Spec => []OutcomeTrue
<1>1. ScriptsInv => OutcomeTrue
  BY RunnerKeeps DEF ScriptsInv
<1> QED
  BY <1>1, ScriptsInductive, PTL

\* ArtifactsTrue of MCScripts: the service's artifacts, the records of
\* vm-scan.sh, the manifest of grc_unified_scan.sh and the reports of the
\* installer and of the checker are true for any scanners, providers and tools.
THEOREM ReportsTrue == Spec => []ArtifactsTrue
<1>1. ScriptsInv => ArtifactsTrue
  BY RunnerKeeps, CommandKeeps, UnifiedKeeps, HostKeeps DEF ScriptsInv, ArtifactsTrue
<1> QED
  BY <1>1, ScriptsInductive, PTL

\* NothingLeft of MCScripts: clones, askpass scripts and archives are removed,
\* and the process group of a command that has returned is empty.
THEOREM NothingStays == Spec => []NothingLeft
<1>1. ScriptsInv => NothingLeft
  BY RunnerKeeps, CommandKeeps, UnifiedKeeps DEF ScriptsInv, NothingLeft
<1> QED
  BY <1>1, ScriptsInductive, PTL

\* NoLateSignal of MCScripts: the timers of runCommand that send a signal are
\* armed only while the command is unsettled.
THEOREM SignalsInTime == Spec => NoLateSignal
<1>1. ScriptsInv => ((cmd.force /\ ~cmd'.force) \/ (cmd.timer /\ ~cmd'.timer) => Runner!Pending)
  BY RunnerKeeps DEF ScriptsInv
<1>2. ScriptsInv => [(cmd.force /\ ~cmd'.force) \/ (cmd.timer /\ ~cmd'.timer) => Runner!Pending]_(Runner!vars)
  BY <1>1
<1> QED
  BY <1>2, ScriptsInductive, PTL DEF NoLateSignal, Runner!NoLateSignal

=============================================================================
