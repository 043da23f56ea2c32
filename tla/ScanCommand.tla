----------------------------- MODULE ScanCommand ------------------------------
(***************************************************************************)
(* scripts/vm-scan.sh: one run of the script over a clone or a directory,  *)
(* with one scanner, as the service starts it, or with all of them, one    *)
(* after the other or each in a background subshell.                       *)
(*                                                                         *)
(* The output directory may hold the files of an earlier run.  Bash runs a *)
(* trap when the foreground command has ended; the wait for background     *)
(* jobs it interrupts at once, and leaves the jobs behind.                 *)
(***************************************************************************)
EXTENDS Naturals, Sequences, SequencesExt, FiniteSets

CONSTANT Order      \* the scanners of --scanner all, in the order of the script: a sequence
                    \* of npm_audit, semgrep, gitleaks, osv, trivy_iac, trivy_fs, none twice

VARIABLES
    opts,       \* the arguments and the environment: chosen once
    at,         \* where the script is
    tree,       \* the directory to scan
    askpass,    \* whether the askpass script exists
    tool,       \* per scanner: where its function is
    report,     \* per scanner: its report in the output directory
    record,     \* per scanner: its status file
    summary,    \* summary.json: the overall status and the failed scanners
    signal,     \* whether a signal waits for its trap
    code        \* how the script has ended

commandVars == <<opts, at, tree, askpass, tool, report, record, summary, signal, code>>

-----------------------------------------------------------------------------

Scanners == Range(Order)
Failures == {"failed", "timed_out", "partial"}
Verdicts == Failures \cup {"success", "findings_detected", "skipped"}

\* one: the scanner asked for, all of them otherwise.  generate and lock:
\* VM_NPM_GENERATE_LOCKFILE and a lockfile in the repository.
Options ==
    {o \in [clone : BOOLEAN, token : BOOLEAN, keep : BOOLEAN, parallel : BOOLEAN,
            strict : BOOLEAN, generate : BOOLEAN, lock : BOOLEAN,
            scanners : {Order} \cup {<<s>> : s \in Scanners}] :
        /\ o.token => o.clone
        /\ o.keep => o.clone
        /\ o.parallel => o.scanners = Order
        \* What only npm audit looks at.
        /\ o.generate \/ o.lock => "npm_audit" \in Range(o.scanners)}

Selected == Range(opts.scanners)

Goto(next) == at' = next

\* Mutant: cleanup removes whatever has been scanned.
ExitRemovingTree(how) ==
    /\ at' = "done"
    /\ code' = how
    /\ askpass' = FALSE
    /\ tree' = [tree EXCEPT !.there = @ /\ opts.keep]

\* cleanup, the trap on EXIT: a clone the script has not finished is not its own.
Exit(how) ==
    /\ at' = "done"
    /\ code' = how
    /\ askpass' = FALSE
    /\ tree' = [tree EXCEPT !.there = @ /\ ~(tree.ours /\ ~opts.keep)]

-----------------------------------------------------------------------------
(* Arguments, output directory and target.                                 *)

Refuse ==
    /\ at = "start" /\ ~signal
    /\ Exit("usage")
    /\ UNCHANGED <<opts, tool, report, record, summary, signal>>

\* Mutant: what an earlier run has left stays.
KeepStale ==
    /\ at = "start" /\ ~signal
    /\ Goto("target")
    /\ UNCHANGED <<opts, tree, askpass, tool, report, record, summary, signal, code>>

\* mkdir and rm of whatever this script generates.
RemoveStale ==
    /\ at = "start" /\ ~signal
    /\ report' = [s \in Scanners |-> "none"]
    /\ record' = [s \in Scanners |-> "none"]
    /\ summary' = [overall |-> "none", failed |-> {}]
    /\ Goto("target")
    /\ UNCHANGED <<opts, tree, askpass, tool, signal, code>>

\* The directory of --target-path is missing, or the workspace is not empty.
RefuseTarget ==
    /\ at = "target" /\ ~signal
    /\ Exit("usage")
    /\ UNCHANGED <<opts, tool, report, record, summary, signal>>

UseDirectory ==
    /\ at = "target" /\ ~signal
    /\ ~opts.clone
    /\ Goto("checks")
    /\ UNCHANGED <<opts, tree, askpass, tool, report, record, summary, signal, code>>

StartClone ==
    /\ at = "target" /\ ~signal
    /\ opts.clone
    /\ askpass' = opts.token
    /\ Goto("git")
    /\ UNCHANGED <<opts, tree, tool, report, record, summary, signal, code>>

\* git removes what it has cloned when it fails, unless it is killed.
GitEnds ==
    /\ at = "git"
    /\ \/ tree' = [tree EXCEPT !.there = TRUE] /\ Goto("cloned")
       \/ \E left \in BOOLEAN : tree' = [tree EXCEPT !.there = left] /\ Goto("uncloned")
    /\ UNCHANGED <<opts, askpass, tool, report, record, summary, signal, code>>

CloneFails ==
    /\ at = "uncloned" /\ ~signal
    /\ Exit("clone")
    /\ UNCHANGED <<opts, tool, report, record, summary, signal>>

\* The workspace is the script's from here on, and the token is forgotten.
Cloned ==
    /\ at = "cloned" /\ ~signal
    /\ tree' = [tree EXCEPT !.ours = TRUE]
    /\ askpass' = FALSE
    /\ Goto("checks")
    /\ UNCHANGED <<opts, tool, report, record, summary, signal, code>>

\* The output directory must lie outside of the workspace.
CheckOutput ==
    /\ at = "checks" /\ ~signal
    /\ \/ Goto("scanners") /\ UNCHANGED <<tree, askpass, code>>
       \/ Exit("usage")
    /\ UNCHANGED <<opts, tool, report, record, summary, signal>>

-----------------------------------------------------------------------------
(* The scanners: the functions run_npm_audit to run_trivy_fs.              *)

Over(s) == tool[s].now \in {"over", "orphan", "gone"}

\* A background job starts at once, a scanner of the loop when those before it
\* are over.
Turn(s) ==
    /\ at = "scanners"
    /\ ~signal
    /\ s \in Selected
    /\ tool[s].now = "queued"
    /\ \A i, j \in DOMAIN opts.scanners :
          i < j /\ opts.scanners[j] = s /\ ~opts.parallel => Over(opts.scanners[i])

Stage(s, now) == tool' = [tool EXCEPT ![s].now = now]

\* finish_scanner with write_scanner_result.
Finish(s, verdict) ==
    /\ record' = [record EXCEPT ![s] = verdict]
    /\ Stage(s, "over")

\* The tool is not there, or npm audit has no package.json or lockfile.
Skip(s) ==
    /\ Turn(s)
    /\ \/ Finish(s, "failed")
       \/ s = "npm_audit" /\ Finish(s, "skipped")
    /\ UNCHANGED <<opts, at, tree, askpass, report, summary, signal, code>>

Start(s) ==
    /\ Turn(s)
    /\ s = "npm_audit" => opts.lock \/ opts.generate
    /\ Stage(s, "running")
    /\ UNCHANGED <<opts, at, tree, askpass, report, record, summary, signal, code>>

\* npm install --package-lock-only, in the directory that is scanned.
InferLockfile ==
    /\ "npm_audit" \in Scanners
    /\ tool["npm_audit"].now = "running"
    /\ opts.generate /\ ~opts.lock /\ ~tree.inferred /\ tree.there
    /\ tree' = [tree EXCEPT !.inferred = TRUE]
    /\ UNCHANGED <<opts, at, askpass, tool, report, record, summary, signal, code>>

\* The tool exits or is stopped by timeout, with or without a report; only a
\* valid report tells of findings.  A tool that writes nothing at all leaves
\* the file as it was.
ToolExits(s) ==
    /\ tool[s].now \in {"running", "again"}
    /\ \E rc \in {0, 1, 2, 124}, found \in BOOLEAN, r \in {"none", "valid", "invalid"} :
          /\ found => r = "valid"
          /\ s = "npm_audit" /\ r = "valid" => opts.lock \/ tree.inferred
          /\ tool' = [tool EXCEPT ![s] = [now |-> IF @.now = "again" THEN "retried" ELSE "exited",
                                          rc |-> rc, found |-> found]]
          /\ report' = IF r = "none" THEN report ELSE [report EXCEPT ![s] = r]
    /\ UNCHANGED <<opts, at, tree, askpass, record, summary, signal, code>>

\* A signal stops the functions of the loop, not those in the background.
Goes(s)    == ~signal \/ opts.parallel
Stopped(s) == tool[s].rc = 124
Valid(s)   == report[s] \in {"valid", "stale"}

\* classify_valid_report_status
Classified(s) ==
    CASE tool[s].rc \in {0, 1} /\ tool[s].found -> "findings_detected"
      [] tool[s].rc = 0 /\ ~tool[s].found -> "success"
      [] tool[s].rc > 1 /\ tool[s].found -> "partial"
      [] OTHER -> "failed"

\* run_trivy_fs tries again without the license scanner.
Retry(s) ==
    /\ s = "trivy_fs"
    /\ tool[s].now = "exited"
    /\ ~Stopped(s) /\ ~Valid(s)
    /\ report' = [report EXCEPT ![s] = "none"]
    /\ Stage(s, "again")
    /\ UNCHANGED <<opts, at, tree, askpass, record, summary, signal, code>>

Ready(s) ==
    /\ Goes(s)
    /\ \/ tool[s].now = "retried"
       \/ tool[s].now = "exited" /\ (s = "trivy_fs" => Stopped(s) \/ Valid(s))

\* Mutant: a report is believed whatever ended the tool.
JudgeKeepingReport(s) ==
    /\ Ready(s)
    /\ Finish(s, IF Stopped(s) THEN "timed_out" ELSE Classified(s))
    /\ UNCHANGED <<opts, at, tree, askpass, report, summary, signal, code>>

\* The report of a tool that was stopped, and an invalid one, are removed.
Judge(s) ==
    /\ Ready(s)
    /\ CASE Stopped(s) ->
              Finish(s, "timed_out") /\ report' = [report EXCEPT ![s] = "none"]
         [] ~Stopped(s) /\ ~Valid(s) ->
              Finish(s, "failed") /\ report' = [report EXCEPT ![s] = "none"]
         [] OTHER -> Finish(s, Classified(s)) /\ UNCHANGED report
    /\ UNCHANGED <<opts, at, tree, askpass, summary, signal, code>>

\* jq cannot count or cannot write: the function ends without a record, a
\* subshell because of errexit.
JudgeFails(s) ==
    /\ Ready(s)
    /\ ~Stopped(s) /\ Valid(s)
    /\ Stage(s, "over")
    /\ UNCHANGED <<opts, at, tree, askpass, report, record, summary, signal, code>>

\* The system kills a background subshell; its tool goes on under timeout.
SubshellDies(s) ==
    /\ opts.parallel
    /\ tool[s].now \in {"running", "again"}
    /\ Stage(s, "orphan")
    /\ UNCHANGED <<opts, at, tree, askpass, report, record, summary, signal, code>>

OrphanEnds(s) ==
    /\ tool[s].now = "orphan"
    /\ Stage(s, "gone")
    /\ \E r \in {"valid", "invalid"} :
          report' = [report EXCEPT ![s] = r]
    /\ UNCHANGED <<opts, at, tree, askpass, record, summary, signal, code>>

-----------------------------------------------------------------------------
(* After the scanners.                                                     *)

\* Mutant: a scanner without a record is left out of the summary.
CollectRecords ==
    /\ at = "scanners" /\ ~signal
    /\ \A s \in Selected : Over(s)
    /\ Goto("summary")
    /\ UNCHANGED <<opts, tree, askpass, tool, report, record, summary, signal, code>>

\* A missing record is a failure.
Collect ==
    /\ at = "scanners" /\ ~signal
    /\ \A s \in Selected : Over(s)
    /\ record' = [s \in Scanners |->
                    IF s \in Selected /\ record[s] = "none" THEN "failed" ELSE record[s]]
    /\ Goto("summary")
    /\ UNCHANGED <<opts, tree, askpass, tool, report, summary, signal, code>>

\* execution-summary.json holds whatever records there are.
Recorded(v) == {s \in Scanners : record[s] \in v}

Overall ==
    LET failed    == Recorded(Failures) # {}
        completed == Recorded({"success", "findings_detected"}) # {}
    IN  CASE failed /\ completed -> "partial"
          [] failed /\ ~completed -> "failed"
          [] ~failed /\ ~completed /\ Recorded({"skipped"}) # {} -> "skipped"
          [] ~failed /\ completed /\ Recorded({"findings_detected"}) # {} -> "findings_detected"
          [] OTHER -> "success"

Summarize ==
    /\ at = "summary" /\ ~signal
    /\ summary' = [overall |-> Overall, failed |-> Recorded(Failures)]
    /\ Goto("exit")
    /\ UNCHANGED <<opts, tree, askpass, tool, report, record, signal, code>>

Finished ==
    /\ at = "exit" /\ ~signal
    /\ Exit(IF opts.strict /\ summary.failed # {} THEN "failures" ELSE "ok")
    /\ UNCHANGED <<opts, tool, report, record, summary, signal>>

-----------------------------------------------------------------------------
(* INT and TERM.                                                           *)

Signal ==
    /\ at # "done" /\ ~signal
    /\ signal' = TRUE
    /\ UNCHANGED <<opts, at, tree, askpass, tool, report, record, summary, code>>

\* git, or a scanner of the loop, which runs under timeout in a process group
\* of its own.
Foreground == \/ at = "git"
              \/ ~opts.parallel /\ \E s \in Scanners : tool[s].now \in {"running", "again"}

\* exit 130 or 143, with the trap on EXIT.  Background subshells keep no trap:
\* with a signal to the group they end, their tools do not.
Trapped ==
    /\ signal /\ ~Foreground /\ at # "done"
    /\ Exit("signal")
    /\ \E group \in BOOLEAN :
          tool' = [s \in Scanners |->
                     CASE tool[s].now \in {"running", "again"} /\ group
                             -> [tool[s] EXCEPT !.now = "orphan"]
                       [] tool[s].now \in {"exited", "retried"} /\ (group \/ ~opts.parallel)
                             -> [tool[s] EXCEPT !.now = "over"]
                       [] OTHER -> tool[s]]
    /\ UNCHANGED <<opts, report, record, summary, signal>>

-----------------------------------------------------------------------------

Init ==
    /\ opts \in Options
    /\ at = "start"
    /\ tree = [there |-> ~opts.clone, ours |-> FALSE, inferred |-> FALSE]
    /\ askpass = FALSE
    /\ tool = [s \in Scanners |-> [now |-> "queued", rc |-> 0, found |-> FALSE]]
    /\ \E stale \in BOOLEAN :
          /\ report = [s \in Scanners |-> IF stale THEN "stale" ELSE "none"]
          /\ record = [s \in Scanners |-> IF stale THEN "success" ELSE "none"]
    /\ summary = [overall |-> "none", failed |-> {}]
    /\ signal = FALSE
    /\ code = "none"

Script ==
    \/ Refuse \/ RemoveStale \/ RefuseTarget \/ UseDirectory \/ StartClone
    \/ CloneFails \/ Cloned \/ CheckOutput \/ Collect \/ Summarize \/ Finished \/ Trapped
    \/ \E s \in Scanners : Skip(s) \/ Start(s) \/ Retry(s) \/ Judge(s) \/ JudgeFails(s)

System ==
    \/ GitEnds \/ InferLockfile \/ Signal
    \/ \E s \in Scanners : ToolExits(s) \/ SubshellDies(s) \/ OrphanEnds(s)

Next == Script \/ System

-----------------------------------------------------------------------------
(* Properties.                                                             *)

\* Whatever the scanners do, in whatever order they end, and whatever an
\* earlier run has left in the output directory: a run that ends by itself has
\* recorded every scanner asked for and no other, a success or a partial one
\* has the valid report that this run wrote, one that timed out or was skipped
\* has none, and the exit code tells of the failures.  ScannerRun takes this of
\* the script for granted.
RecordsTrue ==
    code \in {"ok", "failures"} =>
        /\ \A s \in Scanners : record[s] # "none" <=> s \in Selected
        /\ \A s \in Selected :
              /\ record[s] \in {"success", "findings_detected", "partial"} => report[s] = "valid"
              /\ record[s] \in {"timed_out", "skipped"} => report[s] = "none"
              /\ report[s] = "invalid" => tool[s].now = "gone"
        /\ summary.failed = {s \in Selected : record[s] \in Failures}
        /\ code = "failures" <=> opts.strict /\ summary.failed # {}
        /\ summary.overall \in {"success", "findings_detected", "skipped"} => summary.failed = {}

\* The script leaves no askpass file, removes a clone it has completed, and
\* never the directory of somebody else, to which only npm's inferred lockfile
\* may have been added.  A signal that comes while git runs, and a killed git,
\* leave the clone behind: the script does not yet call it its own.
TreeGone ==
    at = "done" =>
        /\ ~askpass
        /\ tree.ours /\ tree.there => opts.keep
        /\ ~opts.clone => tree.there
        /\ tree.inferred => opts.generate
=============================================================================
