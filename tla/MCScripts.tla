------------------------------ MODULE MCScripts -------------------------------
(* An instance for TLC of the scanner runner and of the scripts that it    *)
(* starts or that an operator starts beside it.  No two of them share      *)
(* state within a run, so a behaviour takes the steps of one: the part     *)
(* that the initial state picks.                                           *)
EXTENDS Naturals, Sequences, FiniteSets, TLC

CONSTANTS
    ScanOrder,                          \* the scanners of ScanCommand
    Providers, ToolSets,                \* of UnifiedScan
    HostOrder, Pipx, LeftOut, MaxRuns   \* of Toolchain: its scanners and the rest

VARIABLES
    part,
    job, pc, cmd, procs, files, outcome, fault,
    opts, at, tree, askpass, tool, report, record, summary, signal, code,
    asked, stage, plan, jobs, manifest, archive, sent, halt, status,
    host, basics, run, turn, todo, rows, counts, ready, health, runs

Runner  == INSTANCE ScannerRun
Command == INSTANCE ScanCommand WITH Order <- ScanOrder
Unified == INSTANCE UnifiedScan
Host    == INSTANCE Toolchain WITH Order <- HostOrder, Optional <- LeftOut

\* What the proofs need of the constants: the orders are sequences, no scanner
\* has the name of the rows of a host that are about none, and there is a
\* provider, the first of which a run for one provider takes.
ASSUME ScriptsAssumption ==
    /\ ScanOrder \in Seq(Command!Scanners)
    /\ HostOrder \in Seq(Host!Tools) /\ "base" \notin Host!Tools
    /\ Providers \in Seq({Providers[i] : i \in DOMAIN Providers}) /\ Providers # <<>>

\* The instance.
MCScanOrder == <<"npm_audit", "trivy_fs">>
MCProviders == <<"aws", "gcp">>
MCToolSets  == {{"prowler", "checkov"}, {"scoutsuite", "trivy"}, {"os"}}
MCHostOrder == <<"trivy", "checkov">>
MCPipx      == {"checkov"}

runnerVars  == <<job, pc, cmd, procs, files, outcome, fault>>
commandVars == <<opts, at, tree, askpass, tool, report, record, summary, signal, code>>
unifiedVars == <<asked, stage, plan, jobs, manifest, archive, sent, halt, status>>
hostVars    == <<host, basics, run, turn, todo, rows, counts, ready, health, runs>>

notRunner  == <<part, commandVars, unifiedVars, hostVars>>
notCommand == <<part, runnerVars, unifiedVars, hostVars>>
notUnified == <<part, runnerVars, commandVars, hostVars>>
notHost    == <<part, runnerVars, commandVars, unifiedVars>>

vars == <<part, runnerVars, commandVars, unifiedVars, hostVars>>

\* The parts that take no step start in one of their initial states; a host has
\* at first no scanner twice.
Init ==
    /\ part \in {"runner", "command", "unified", "host"}
    /\ Runner!Init /\ (part # "runner" => job = CHOOSE j \in Runner!Job : TRUE)
    /\ Command!Init
    /\ part # "command" => opts = (CHOOSE o \in Command!Options : TRUE)
                           /\ \A s \in Command!Scanners : report[s] = "none"
    /\ Unified!Init /\ (part # "unified" => asked = CHOOSE o \in Unified!Options : TRUE)
    /\ Host!Init
    /\ \A t \in Host!Tools :
          IF part = "host" THEN \E p \in Host!Places : host[t][p] = "none"
                           ELSE \A p \in Host!Places : host[t][p] = "none"
    /\ part # "host" => basics = "fit"

Next ==
    \/ part = "runner" /\ Runner!Next /\ UNCHANGED notRunner
    \/ part = "command" /\ Command!Next /\ UNCHANGED notCommand
    \/ part = "unified" /\ Unified!Next /\ UNCHANGED notUnified
    \/ part = "host" /\ Host!Next /\ UNCHANGED notHost

Spec == Init /\ [][Next]_vars

\* The fairness of ScannerRun; the scripts promise nothing in time.
FairSpec ==
    /\ Spec
    /\ WF_vars(part = "runner" /\ Runner!Service /\ UNCHANGED notRunner)
    /\ WF_vars(part = "runner" /\ Runner!TimerFires /\ UNCHANGED notRunner)
    /\ WF_vars(part = "runner" /\ Runner!ForceKill /\ UNCHANGED notRunner)
    /\ WF_vars(part = "runner" /\ Runner!Close /\ UNCHANGED notRunner)

\* The properties of the parts: see their modules.
OutcomeTrue  == Runner!OutcomeTrue
NoLateSignal == Runner!NoLateSignal

\* Every run of the runner comes to an end.
RunEnds == <>(part = "runner" => pc = "done")

\* What each script leaves in its reports is true of what it has done.
ArtifactsTrue ==
    /\ Runner!ArtifactsTrue
    /\ Command!RecordsTrue
    /\ Unified!ManifestTrue
    /\ Host!InstallTrue /\ Host!HealthTrue /\ Host!ReadyIsHealthy

\* No files are left that are not for keeping, and no processes of the runner.
NothingLeft == Runner!NothingLeft /\ Command!TreeGone /\ Unified!ArchiveGone
=============================================================================
