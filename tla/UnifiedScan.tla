----------------------------- MODULE UnifiedScan ------------------------------
(***************************************************************************)
(* scripts/grc_unified_scan.sh: the scanners of a cloud, of infrastructure *)
(* code, a repository and a host, one job after the other, into an output  *)
(* directory that was empty; then a manifest, which goes to the GRC        *)
(* endpoint in an archive, and a manifest that counts that upload too.     *)
(*                                                                         *)
(* A job is named by its tool and what it is run on.  errexit is on: a     *)
(* step that fails outside of a condition ends the script, as a signal     *)
(* does when the foreground command has ended.                             *)
(***************************************************************************)
EXTENDS Sequences, SequencesExt, FiniteSets

CONSTANTS
    Providers,      \* the order of --cloud all
    ToolSets        \* the values of --tools that are considered: nonempty sets of
                    \* prowler, scoutsuite, checkov, trivy, os

VARIABLES
    asked,      \* the options: chosen once
    stage,      \* where the script is
    plan,       \* the jobs still to be run
    jobs,       \* scanner-status/: the jobs with a result, and their results
    manifest,   \* scan_manifest.json, of which summary.json is a copy
    archive,    \* the manifest in the archive, if there is an archive
    sent,       \* what the endpoint has taken
    halt,       \* whether a signal waits for its trap
    status      \* the exit status

unifiedVars == <<asked, stage, plan, jobs, manifest, archive, sent, halt, status>>

-----------------------------------------------------------------------------

\* all: --cloud all, or only the first provider; none at all unless cloud.
\* url: an upload URL that is refused or accepted, or none.
Options ==
    {o \in [cloud : {"none", "one", "all"}, cluster : BOOLEAN, tools : ToolSets,
            host : BOOLEAN, url : {"none", "refused", "accepted"},
            strict : BOOLEAN, keep : BOOLEAN] :
        /\ o.cloud # "none" \/ o.cluster => o.tools \cap {"prowler", "scoutsuite"} # {}
        /\ o.cluster => "prowler" \in o.tools
        /\ o.host => "trivy" \in o.tools}

\* A job, what makes a skipped one optional, and whether its tool says by its
\* exit code that there are findings.
Job(tool, target) == <<tool, target>>
Upload == Job("upload", "grc_api")
Optional(j) == j = Job("trivy", "rootfs") /\ ~asked.host

Clouds(o) == CASE o.cloud = "none" -> <<>>
               [] o.cloud = "one" -> <<Head(Providers)>>
               [] o.cloud = "all" -> Providers

\* run_prowler, run_scoutsuite, run_checkov, run_trivy, run_native_os_outdated:
\* without a cloud, one skipped job stands for the providers.
CloudJobs(o, tool) ==
    IF o.cloud = "none" THEN <<Job(tool, "cloud")>>
    ELSE [i \in DOMAIN Clouds(o) |-> Job(tool, Clouds(o)[i])]

When(condition, list) == IF condition THEN list ELSE <<>>

Plan(o) ==
    When("prowler" \in o.tools, CloudJobs(o, "prowler"))
        \o When("prowler" \in o.tools /\ o.cluster, <<Job("prowler", "kubernetes")>>)
        \o When("scoutsuite" \in o.tools, CloudJobs(o, "scoutsuite"))
        \o When("checkov" \in o.tools, <<Job("checkov", "iac")>>)
        \o When("trivy" \in o.tools, <<Job("trivy", "filesystem"), Job("trivy", "rootfs")>>)
        \o When("os" \in o.tools, <<Job("os", "host_packages")>>)

Failures  == {"failed", "timed_out"}
Completed == {"success", "findings_detected"}
Results   == [verdict : Failures \cup Completed \cup {"skipped"}, report : BOOLEAN]

Goto(next) == stage' = next

\* write_job_result
Write(j, r) == jobs' = [k \in DOMAIN jobs \cup {j} |-> IF k = j THEN r ELSE jobs[k]]

NoReport(v) == [verdict |-> v, report |-> FALSE]

\* cleanup, the trap on EXIT.
Exit(how) ==
    /\ stage' = "done"
    /\ status' = how
    /\ archive' = IF asked.keep THEN archive ELSE <<>>

-----------------------------------------------------------------------------
(* Arguments and paths, and the jobs.                                      *)

\* An invalid argument, a missing program, a path that is unsafe or not empty.
Refuse ==
    /\ stage = "init" /\ ~halt
    /\ Exit("usage")
    /\ UNCHANGED <<asked, plan, jobs, manifest, sent, halt>>

Initialize ==
    /\ stage = "init" /\ ~halt
    /\ Goto("jobs")
    /\ UNCHANGED <<asked, plan, jobs, manifest, archive, sent, halt, status>>

Current == Head(plan)
Runs(tools) == stage = "jobs" /\ plan # <<>> /\ ~halt /\ Current[1] \in tools

Done(r) ==
    /\ r \in Results
    /\ Write(Current, r)
    /\ plan' = Tail(plan)
    /\ UNCHANGED <<asked, stage, manifest, archive, sent, halt, status>>

\* No cloud, no directory, no package manager, no --host-path.
Missing(j) == CASE j[1] \in {"prowler", "scoutsuite"} -> j[2] = "cloud"
                [] Optional(j) -> TRUE
                [] OTHER -> FALSE

Skip ==
    /\ Runs({"prowler", "scoutsuite", "checkov", "trivy", "os"})
    /\ Missing(Current) \/ Current[1] \in {"checkov", "trivy", "os"}
    /\ Done(NoReport("skipped"))

\* record_missing_tool
ToolMissing ==
    /\ Runs({"prowler", "scoutsuite", "checkov", "trivy"})
    /\ ~Missing(Current)
    /\ Done(NoReport("failed"))

\* What execute_command leaves: an exit code, of which 124 is timeout's, and a
\* report that the tool has written, valid or not, with findings or not.
Outcomes == [rc : {0, 1, 3, 100, 124}, valid : BOOLEAN, found : BOOLEAN]

\* The exit codes that are no failure, and those that tell of findings.
Accepted(tool) == CASE tool = "prowler" -> {0, 3} [] tool = "checkov" -> {0, 1}
                    [] tool = "os" -> {0, 100} [] OTHER -> {0}
Telling(tool)  == CASE tool = "prowler" -> {3} [] tool = "checkov" -> {1} [] OTHER -> {}

\* scoutsuite counts no findings; the list of packages needs no validation.
Counts(tool, x)    == tool # "scoutsuite" /\ x.found
Validated(tool, x) == tool = "os" \/ x.valid

\* Mutant: a clean exit code needs no report.
VerdictByCode(tool, x) ==
    CASE x.rc = 124 -> "timed_out"
      [] x.rc # 124 /\ x.rc \notin Accepted(tool) -> "failed"
      [] OTHER -> IF x.rc \in Telling(tool) \/ Counts(tool, x)
                  THEN "findings_detected" ELSE "success"

Verdict(tool, x) ==
    CASE x.rc = 124 -> "timed_out"
      [] x.rc # 124 /\ x.rc \notin Accepted(tool) -> "failed"
      [] x.rc \in Accepted(tool) /\ ~Validated(tool, x) -> "failed"
      [] OTHER -> IF x.rc \in Telling(tool) \/ Counts(tool, x)
                  THEN "findings_detected" ELSE "success"

\* collect_reports lists the report and says whether it is valid.
Judged(tool, x) == [verdict |-> Verdict(tool, x), report |-> x.valid]

RunProwler ==
    /\ Runs({"prowler"}) /\ ~Missing(Current)
    /\ \E x \in Outcomes : Done(Judged("prowler", x))

RunScout ==
    /\ Runs({"scoutsuite"}) /\ ~Missing(Current)
    /\ \E x \in Outcomes : Done(Judged("scoutsuite", x))

RunCheckov ==
    /\ Runs({"checkov"})
    /\ \E x \in Outcomes : Done(Judged("checkov", x))

\* A SARIF conversion that fails or is invalid is removed; JSON decides.
RunTrivy ==
    /\ Runs({"trivy"}) /\ ~Missing(Current)
    /\ \E x \in Outcomes : Done(Judged("trivy", x))

RunNativeOs ==
    /\ Runs({"os"})
    /\ \E x \in Outcomes : Done(Judged("os", x))

-----------------------------------------------------------------------------
(* Summaries and the upload.                                               *)

With(verdicts) == {j \in DOMAIN jobs : jobs[j].verdict \in verdicts}

\* build_execution_summary, determine_overall_status, write_final_manifest.
Overall ==
    LET failed    == {j \in With(Failures) : ~Optional(j)} # {}
        completed == With(Completed) # {}
    IN  CASE failed /\ completed -> "partial"
          [] failed /\ ~completed -> "failed"
          [] ~failed /\ ~completed /\ With({"skipped"}) # {} -> "skipped"
          [] ~failed /\ completed /\ With({"findings_detected"}) # {} -> "findings_detected"
          [] OTHER -> "success"

Manifest == [overall |-> Overall, jobs |-> DOMAIN jobs,
             failed |-> {j \in With(Failures) : ~Optional(j)}]

Summarize ==
    /\ stage = "jobs" /\ plan = <<>> /\ ~halt
    /\ manifest' = <<Manifest>>
    /\ Goto("upload")
    /\ UNCHANGED <<asked, plan, jobs, archive, sent, halt, status>>

NoUpload ==
    /\ stage = "upload" /\ ~halt
    /\ asked.url = "none"
    /\ Goto("end")
    /\ UNCHANGED <<asked, plan, jobs, manifest, archive, sent, halt, status>>

\* validate_upload_url, or curl or the token is missing.
RefuseUpload ==
    /\ stage = "upload" /\ ~halt
    /\ asked.url # "none"
    /\ Write(Upload, NoReport("failed"))
    /\ Goto("again")
    /\ UNCHANGED <<asked, plan, manifest, archive, sent, halt, status>>

\* tar fails, and with it the script.
PackFails ==
    /\ stage = "upload" /\ ~halt
    /\ asked.url = "accepted"
    /\ Exit("error")
    /\ UNCHANGED <<asked, plan, jobs, manifest, sent, halt>>

Pack ==
    /\ stage = "upload" /\ ~halt
    /\ asked.url = "accepted"
    /\ archive' = manifest
    /\ Goto("curl")
    /\ UNCHANGED <<asked, plan, jobs, manifest, sent, halt, status>>

\* curl: the endpoint takes the archive and says so, or its answer is lost.
Post ==
    /\ stage = "curl"
    /\ \/ sent' = archive /\ Goto("posted")
       \/ \E s \in {sent, archive} : sent' = s /\ Goto("refused")
    /\ UNCHANGED <<asked, plan, jobs, manifest, archive, halt, status>>

RecordUpload ==
    /\ stage \in {"posted", "refused"} /\ ~halt
    /\ Write(Upload, [verdict |-> IF stage = "posted" THEN "success" ELSE "failed", report |-> TRUE])
    /\ archive' = IF asked.keep THEN archive ELSE <<>>
    /\ Goto("again")
    /\ UNCHANGED <<asked, plan, manifest, sent, halt, status>>

SummarizeAgain ==
    /\ stage = "again" /\ ~halt
    /\ manifest' = <<Manifest>>
    /\ Goto("end")
    /\ UNCHANGED <<asked, plan, jobs, archive, sent, halt, status>>

Finish ==
    /\ stage = "end" /\ ~halt
    /\ Exit(IF asked.strict /\ manifest[1].failed # {} THEN "failures" ELSE "ok")
    /\ UNCHANGED <<asked, plan, jobs, manifest, sent, halt>>

-----------------------------------------------------------------------------
(* INT and TERM.                                                           *)

Signal ==
    /\ stage # "done" /\ ~halt
    /\ halt' = TRUE
    /\ UNCHANGED <<asked, stage, plan, jobs, manifest, archive, sent, status>>

Trapped ==
    /\ halt /\ stage \notin {"curl", "done"}
    /\ Exit("signal")
    /\ UNCHANGED <<asked, plan, jobs, manifest, sent, halt>>

-----------------------------------------------------------------------------

Init ==
    /\ asked \in Options
    /\ stage = "init"
    /\ plan = Plan(asked)
    /\ jobs = [j \in {} |-> NoReport("skipped")]
    /\ manifest = <<>> /\ archive = <<>> /\ sent = <<>>
    /\ halt = FALSE
    /\ status = "none"

Next ==
    \/ Refuse \/ Initialize \/ Skip \/ ToolMissing \/ RunProwler \/ RunScout
    \/ RunCheckov \/ RunTrivy \/ RunNativeOs \/ Summarize \/ NoUpload \/ RefuseUpload
    \/ PackFails \/ Pack \/ Post \/ RecordUpload \/ SummarizeAgain \/ Finish
    \/ Signal \/ Trapped

-----------------------------------------------------------------------------
(* Properties.                                                             *)

\* A run that ends by itself leaves a manifest of every job that was asked for,
\* the upload included; a job that counts as completed has a valid report; with
\* --fail-on-scanner-error the exit status is 0 only if no job failed (usage:
\* "Exit non-zero if any selected job fails, times out, or is partial").  What
\* the endpoint has taken is the finished manifest of all scans, whether or not
\* the upload is known to have succeeded, and a success is never claimed of an
\* upload it has not taken.
ManifestTrue ==
    /\ status \in {"ok", "failures"} =>
          LET m == manifest[1]
              wanted == Range(Plan(asked)) \cup (IF asked.url = "none" THEN {} ELSE {Upload})
          IN  /\ m.jobs = wanted /\ m.jobs = DOMAIN jobs
              /\ m.failed = With(Failures)
              /\ m.overall \in {"success", "findings_detected"} => With(Failures) = {}
              /\ m.overall = "findings_detected" <=>
                    With({"findings_detected"}) # {} /\ With(Failures) = {}
              /\ status = "failures" <=> asked.strict /\ m.failed # {}
    /\ \A j \in With(Completed) : jobs[j].report \/ j[1] = "os"
    /\ sent # <<>> => sent[1].jobs = Range(Plan(asked))
    /\ Upload \in With(Completed) => sent # <<>>

\* Whichever way the script ends, the archive does not stay unless it is asked
\* to.
ArchiveGone == stage = "done" /\ archive # <<>> => asked.keep
=============================================================================
