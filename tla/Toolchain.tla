------------------------------ MODULE Toolchain -------------------------------
(***************************************************************************)
(* The scanners on the host of the workers, as scripts/install-vm-         *)
(* scanners.sh installs them and scripts/check-vm-scanners.sh examines     *)
(* them: runs of the two scripts, one after the other.                     *)
(*                                                                         *)
(* A scanner may be in the user's directories and in the system's; each    *)
(* script looks at them in its own order.  Neither script ends on INT or   *)
(* TERM: the trap removes the file of the rows, the installer's with all   *)
(* other temporary files, and the script goes on.                          *)
(***************************************************************************)
EXTENDS Naturals, Sequences, SequencesExt, FiniteSets

CONSTANTS
    Order,          \* the scanners, none twice, in the order of both scripts
    Pipx,           \* those of them that pipx installs; the others come as a release
    Optional,       \* scanners that an option leaves out
    MaxRuns         \* bound on the number of runs

VARIABLES
    host,       \* per scanner and place: the version there
    basics,     \* git, jq, Python, Node, Java and the like
    run,        \* the run of a script, and its options
    turn,       \* what it does next
    todo,       \* the scanners it has not come to
    rows,       \* its rows, by scanner; "base" stands for all others
    counts,     \* its counters FAILURES and WARNINGS
    ready,      \* what the installer's last run has reported, if it came to it
    health,     \* what the checker's last run has reported
    runs        \* how many runs there were

toolVars == <<host, basics, run, turn, todo, rows, counts, ready, health, runs>>

-----------------------------------------------------------------------------

Tools == Range(Order)
Releases == Tools \ Pipx
Places == {"user", "system"}

\* unchecked: a download of the pinned version that no checksum has confirmed.
Versions == {"none", "old", "pinned", "unchecked"}
Fit == {"pinned", "unchecked"}

\* The installer looks in the places of its scope first, the checker in the
\* user's.
Resolved(first, t) ==
    LET other == CHOOSE p \in Places : p # first
    IN  IF host[t][first] # "none" THEN host[t][first] ELSE host[t][other]

Kinds == [kind : {"install", "check"}, scope : Places, only : BOOLEAN,
          allow : BOOLEAN, arch : BOOLEAN, wanted : {Tools, Tools \ Optional},
          exact : BOOLEAN, strict : BOOLEAN, cut : {FALSE}]

\* --scope, --check-only, --allow-unverified-downloads and the architecture
\* for the installer; --allow-version-drift and --fail-on-warning for the
\* checker.
Runs ==
    {r \in Kinds :
        /\ r.kind = "install" => r.exact /\ ~r.strict /\ (r.only => ~r.allow)
        /\ r.kind = "check" => r.scope = "user" /\ r.only /\ ~r.allow /\ r.arch}

Row(name, status, verified) ==
    {[name |-> name, status |-> status, verified |-> verified]}

\* A row that says nothing of a scanner.
Base(status) == Row("base", status, FALSE)

\* After an interrupt there is nowhere to write a row of the installer; the
\* checker's file starts anew.
Rows(new) == IF run.kind = "install" /\ run.cut THEN rows ELSE rows \cup new

\* run_install_step: a step that fails has a row of its own.
StepFails(row) ==
    /\ rows' = Rows(row \cup Base("failed"))
    /\ counts' = [counts EXCEPT !.failures = TRUE]

StepEnds(row) == rows' = Rows(row) /\ UNCHANGED counts

Goto(next) == turn' = next

Installing(at) == run.kind = "install" /\ turn = at
Checking(at)   == run.kind = "check" /\ turn = at

-----------------------------------------------------------------------------
(* install-vm-scanners.sh                                                  *)

NotReady == [status |-> "none", scope |-> "user", wanted |-> {}]

\* parse_args and setup_paths, of either script.
Begin ==
    /\ turn = "idle"
    /\ runs < MaxRuns
    /\ run' \in Runs
    /\ runs' = runs + 1
    /\ Goto(IF run'.kind = "install" THEN "base" ELSE "basics")
    /\ todo' = Order
    /\ rows' = {}
    /\ counts' = [failures |-> FALSE, warnings |-> FALSE]
    /\ ready' = IF run'.kind = "install" THEN NotReady ELSE ready
    /\ health' = [status |-> "none", exit |-> 0]
    /\ UNCHANGED <<host, basics>>

\* install_base_packages and install_dir; Node is not among the packages.
PrepareHost ==
    /\ Installing("base")
    /\ Goto("basics")
    /\ IF run.only
       THEN StepEnds(Base("ok")) /\ UNCHANGED basics
       ELSE \/ StepEnds(Base("ok"))
               /\ \E b \in {basics, "fit"} : basics' = b
            \/ StepFails({}) /\ UNCHANGED basics
    /\ UNCHANGED <<host, run, todo, ready, health, runs>>

\* check_required_commands: any Node and any Java will do.
CheckPrerequisites ==
    /\ Installing("basics")
    /\ Goto("arch")
    /\ IF basics = "missing" THEN StepFails(Base("failed")) ELSE StepEnds(Base("ok"))
    /\ UNCHANGED <<host, basics, run, todo, ready, health, runs>>

CheckArchitecture ==
    /\ Installing("arch")
    /\ Goto("tools")
    /\ IF run.arch THEN StepEnds(Base("ok")) ELSE StepFails({})
    /\ UNCHANGED <<host, basics, run, todo, ready, health, runs>>

Take(t) == Installing("tools") /\ todo # <<>> /\ t = Head(todo) /\ todo' = Tail(todo)
TookStep == UNCHANGED <<basics, run, turn, ready, health, runs>>

LeaveOut(t) ==
    /\ Take(t)
    /\ t \notin run.wanted
    /\ StepEnds(Row(t, "skipped", FALSE))
    /\ UNCHANGED host
    /\ TookStep

\* The names of the architecture are unset: with nounset the script ends at
\* the first release, without a report.
Abort(t) ==
    /\ Take(t)
    /\ t \in Releases \cap run.wanted /\ ~run.arch
    /\ turn' = "idle"
    /\ UNCHANGED <<host, basics, run, rows, counts, ready, health, runs>>

Considered(t) == Take(t) /\ t \in run.wanted /\ (t \in Releases => run.arch)

ExamineOnly(t) ==
    /\ Considered(t)
    /\ run.only
    /\ LET v == Resolved(run.scope, t)
       IN  CASE v = "none" -> StepFails(Row(t, "failed", FALSE))
             [] v = "old" -> StepFails(Row(t, "outdated", FALSE))
             [] v \in Fit -> StepEnds(Row(t, "present_current", TRUE))
    /\ UNCHANGED host
    /\ TookStep

\* pipx knows the version of its own environment, a release is asked for it.
Current(t) ==
    IF t \in Pipx THEN host[t][run.scope] \in Fit ELSE Resolved(run.scope, t) \in Fit

AlreadyCurrent(t) ==
    /\ Considered(t)
    /\ ~run.only /\ Current(t)
    /\ StepEnds(Row(t, "already_current", TRUE))
    /\ UNCHANGED host
    /\ TookStep

\* pipx install --force replaces the environment, or fails and may leave none.
InstallWithPipx(t) ==
    /\ Considered(t)
    /\ t \in Pipx
    /\ ~run.only /\ ~Current(t)
    /\ \/ host' = [host EXCEPT ![t][run.scope] = "pinned"]
          /\ StepEnds(Row(t, "success", TRUE))
       \/ /\ \E v \in {"none", host[t][run.scope]} :
                host' = [host EXCEPT ![t][run.scope] = v]
          /\ \E row \in {{}, Row(t, "failed", FALSE)} : StepFails(row)
    /\ TookStep

\* verify_release_asset: the checksum that is given decides; one that is
\* published must match; otherwise, missing or not, the exception counts.
Checksums == [given : BOOLEAN, matches : BOOLEAN]

Verified(c) ==
    CASE c.matches -> "verified"
      [] ~c.matches /\ (c.given \/ ~run.allow) -> "failed"
      [] OTHER -> "unverified_exception"

\* Mutant: the version of what has been installed is not asked for.
InstallReleaseBlindly(t) ==
    /\ Considered(t)
    /\ t \in Releases
    /\ ~run.only /\ ~Current(t)
    /\ \/ UNCHANGED host /\ StepFails({})
       \/ \E c \in Checksums :
             /\ ~run.cut /\ Verified(c) # "failed"
             /\ \E v \in {"old", "pinned"} : host' = [host EXCEPT ![t][run.scope] = v]
             /\ StepEnds(Row(t, "success", Verified(c) = "verified"))
    /\ TookStep

\* download_verified_release_asset, unpacking and install_file.  Without its
\* temporary directory none of it works.  What has been installed must report
\* the pinned version.
InstallRelease(t) ==
    /\ Considered(t)
    /\ t \in Releases
    /\ ~run.only /\ ~Current(t)
    /\ \/ UNCHANGED host /\ StepFails({})
       \/ \E c \in Checksums :
             /\ ~run.cut /\ Verified(c) # "failed"
             /\ \/ /\ host' = [host EXCEPT ![t][run.scope] =
                                 IF Verified(c) = "verified" THEN "pinned" ELSE "unchecked"]
                   /\ StepEnds(Row(t, "success", Verified(c) = "verified"))
                \/ /\ host' = [host EXCEPT ![t][run.scope] = "old"]
                   /\ StepFails({})
    /\ TookStep

\* handle_zap_image
HandleZap ==
    /\ Installing("tools") /\ todo = <<>>
    /\ Goto("report")
    /\ StepEnds(Base("ok")) \/ StepFails(Base("failed"))
    /\ UNCHANGED <<host, basics, run, todo, ready, health, runs>>

\* write_report
Report ==
    /\ Installing("report")
    /\ ready' = [status |-> IF counts.failures THEN "failed" ELSE "success",
                 scope |-> run.scope, wanted |-> run.wanted]
    /\ Goto("idle")
    /\ UNCHANGED <<host, basics, run, todo, rows, counts, health, runs>>

-----------------------------------------------------------------------------
(* check-vm-scanners.sh                                                    *)

\* record_check counts what it writes.
RecordCheck(name, status) ==
    /\ rows' = Rows(Row(name, status, FALSE))
    /\ counts' = [failures |-> counts.failures \/ status = "failed",
                  warnings |-> counts.warnings \/ status = "warning"]

\* check_presence, check_python_range, check_minimum_major: an old Node or
\* Java fails.
CheckBasics ==
    /\ Checking("basics")
    /\ Goto("tools")
    /\ RecordCheck("base", IF basics = "fit" THEN "healthy" ELSE "failed")
    /\ UNCHANGED <<host, basics, run, todo, ready, health, runs>>

\* check_exact_version
Health(t) ==
    LET v == Resolved("user", t)
    IN  CASE t \notin run.wanted -> "skipped"
          [] t \in run.wanted /\ (v = "none" \/ (v = "old" /\ run.exact)) -> "failed"
          [] OTHER -> "healthy"

CheckTool(t) ==
    /\ Checking("tools") /\ todo # <<>>
    /\ t = Head(todo)
    /\ todo' = Tail(todo)
    /\ RecordCheck(t, Health(t))
    /\ UNCHANGED <<host, basics, run, turn, ready, health, runs>>

\* check_database_file, check_docker_zap and check_local_zap: a failure only
\* where the option requires them.
CheckAdvisory ==
    /\ Checking("tools") /\ todo = <<>>
    /\ Goto("report")
    /\ \E s \in {"healthy", "warning", "failed", "skipped"} : RecordCheck("base", s)
    /\ UNCHANGED <<host, basics, run, todo, ready, health, runs>>

\* Mutant: the status goes by the rows that are left.
ReportRows ==
    /\ Checking("report")
    /\ LET some(s) == \E r \in rows : r.status = s
       IN  health' = [status |-> CASE some("failed") -> "unhealthy"
                                   [] ~some("failed") /\ some("warning") -> "degraded"
                                   [] OTHER -> "healthy",
                      exit |-> IF some("failed") \/ (run.strict /\ some("warning")) THEN 1 ELSE 0]
    /\ Goto("idle")
    /\ UNCHANGED <<host, basics, run, todo, rows, counts, ready, runs>>

\* write_report and the exit code, by the counters.
ReportHealth ==
    /\ Checking("report")
    /\ health' = [status |-> CASE counts.failures -> "unhealthy"
                               [] ~counts.failures /\ counts.warnings -> "degraded"
                               [] OTHER -> "healthy",
                  exit |-> IF counts.failures \/ (run.strict /\ counts.warnings) THEN 1 ELSE 0]
    /\ Goto("idle")
    /\ UNCHANGED <<host, basics, run, todo, rows, counts, ready, runs>>

-----------------------------------------------------------------------------

\* INT or TERM, once: the rows are gone.
Interrupt ==
    /\ turn # "idle" /\ ~run.cut
    /\ run' = [run EXCEPT !.cut = TRUE]
    /\ rows' = {}
    /\ UNCHANGED <<host, basics, turn, todo, counts, ready, health, runs>>

Init ==
    /\ host \in [Tools -> [Places -> {"none", "old", "pinned"}]]
    /\ basics \in {"missing", "old", "fit"}
    /\ run = CHOOSE r \in Runs : r.kind = "check"
    /\ turn = "idle"
    /\ todo = <<>>
    /\ rows = {}
    /\ counts = [failures |-> FALSE, warnings |-> FALSE]
    /\ ready = NotReady
    /\ health = [status |-> "none", exit |-> 0]
    /\ runs = 0

Next ==
    \/ Begin \/ PrepareHost \/ CheckPrerequisites \/ CheckArchitecture
    \/ HandleZap \/ Report \/ CheckBasics \/ CheckAdvisory \/ ReportHealth \/ Interrupt
    \/ \E t \in Tools :
          \/ LeaveOut(t) \/ Abort(t) \/ ExamineOnly(t) \/ AlreadyCurrent(t)
          \/ InstallWithPipx(t) \/ InstallRelease(t) \/ CheckTool(t)

-----------------------------------------------------------------------------
(* Properties.                                                             *)

\* An installer that reports success, interrupted or not, has found or put
\* every scanner it was asked for in its pinned version, and has prerequisites
\* and an architecture it can work with.  Without an interrupt each scanner has
\* its row, which says what is there; a release that no checksum confirms is
\* installed, and its row says so, only with the exception.
InstallTrue ==
    turn = "idle" /\ run.kind = "install" /\ ready # NotReady =>
        /\ ready.status = "success" =>
              /\ \A t \in run.wanted : Resolved(run.scope, t) \in Fit \/ Current(t)
              /\ basics # "missing"
              /\ Releases \cap run.wanted # {} => run.arch
        /\ ~run.cut =>
              /\ \A t \in Tools : \E r \in rows : r.name = t \/ r.status = "failed"
        /\ \A r \in rows :
              /\ r.status \in {"failed", "outdated"} => ready.status = "failed"
              /\ r.name \in run.wanted
                    /\ r.status \in {"success", "already_current", "present_current"}
                 => Current(r.name) \/ Resolved(run.scope, r.name) \in Fit
              /\ r.name \in Releases /\ r.status = "success" =>
                    /\ r.verified <=> host[r.name][run.scope] = "pinned"
                    /\ ~r.verified => run.allow

\* A checker that exits with 0, interrupted or not, has found every scanner it
\* was asked for, in its pinned version unless drift is allowed, and runtimes
\* that are recent enough.
HealthTrue ==
    turn = "idle" /\ run.kind = "check" /\ health.status # "none" /\ health.exit = 0 =>
        /\ \A t \in run.wanted :
              Resolved("user", t) \in (IF run.exact THEN Fit ELSE Versions \ {"none"})
        /\ basics = "fit"
        /\ health.status = "healthy" \/ ~run.strict

\* The installer says "All requested scanner installations are ready" and
\* names the checker as the next command: the checker then finds each of these
\* scanners healthy, unless an older copy among the user's own shadows the
\* system's, which the checker looks at last.
ReadyIsHealthy ==
    turn = "idle" /\ health.status # "none" /\ ready.status = "success" =>
        \A r \in rows :
            r.name \in ready.wanted /\ r.status = "failed" =>
                ready.scope = "system" /\ host[r.name]["user"] = "old"
=============================================================================
