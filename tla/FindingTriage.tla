---------------------------- MODULE FindingTriage ----------------------------
(* From a tool's report to the rank of a finding: what a parser makes of   *)
(* the tool's words (the *-parser.service.ts files), how scans.service.ts  *)
(* and findings.service.ts (createManual) name the flaw, so that another   *)
(* scan finds it again, and the priority and the due date that             *)
(* risk-scoring.service.ts gives it for its repository and asset.          *)
(*                                                                         *)
(* A behaviour follows one flaw.  It starts with any flaw, asset and       *)
(* repository; from then on scans save it, each from its own workspace,    *)
(* and between two scans one of the facts may get worse: the tool's word,  *)
(* an exploit, the asset or the repository.  Comparing neighbours is       *)
(* enough, as better and worse are transitive.                             *)
EXTENDS Integers, Sequences, SequencesExt, FiniteSets, FiniteSetsExt

CONSTANTS
    Ranks,      \* criticalities of assets and repositories, a rising sequence
    Scores,     \* CVSS scores, in tenths, of the osv reports
    Base        \* VM_SCANNER_BASE_DIR, as a sequence of path segments

VARIABLES
    flaw,       \* the flaw as its tool reports it
    place,      \* the repository and the asset that are scanned
    row,        \* the finding of the last scan
    before,     \* the finding of the scan before
    worse       \* a fact has become worse since the last scan

vars == <<flaw, place, row, before, worse>>

-----------------------------------------------------------------------------
None == "none"

\* The words of a tool, from harmless to severe.  For nmap they are classes of
\* ports, for zap the risks of a riskdesc.
Common == <<"info", "low", "moderate", "high", "critical">>
Words(tool) ==
    CASE tool = "semgrep" -> <<"info", "low", "warning", "medium", "error", "high", "critical">>
      [] tool = "trivy" -> <<"unknown", "negligible", "low", "medium", "high", "critical">>
      [] tool = "zap" -> <<"informational", "low", "medium", "high">>
      [] tool = "nmap" -> <<"other", "admin", "risky">>
      [] tool = "gitleaks" -> <<None>>
      [] OTHER -> Common
Tools == {"npm_audit", "dependency_check", "semgrep", "gitleaks", "osv", "trivy",
          "zap", "nmap", "securenow", "upload", "request"}
\* Only a finding that a person writes, in an uploaded report of scanner manual
\* or in a request, says anything of exploits.
Written == {"upload", "request"}

Flags(tool) == IF tool \in Written THEN BOOLEAN ELSE {FALSE}
Types(tool) == IF tool \in Written \cup {"trivy"} THEN {"secret", "dependency"} ELSE {"other"}
Flaws ==
    UNION {[tool : {t}, word : Range(Words(t)), type : Types(t), exploit : Flags(t), known : Flags(t),
            cvss : IF t = "osv" THEN {0} \cup Scores ELSE {0},
            confidence : IF t = "zap" THEN {"low", "medium", "high"} ELSE {None}] : t \in Tools}

\* No asset is the asset with the criticality None.
NoAsset == [rank |-> None, impact |-> None, exposed |-> FALSE]
Places == [repo : Range(Ranks) \cup {None},
           asset : {NoAsset} \cup [rank : Range(Ranks), impact : Range(Ranks), exposed : BOOLEAN]]

\* Where a scan finds the file: in a clone of vm-scan.sh or of the runner, below
\* the base directory, or by a relative path.  An absolute path starts with "/".
File == <<"src", "a">>
Workspaces(tool) ==
    {<<"/", "tmp", "vm-scan-1">>, <<"/", "tmp", "vm-scan-2">>, <<"/", "tmp", "vm-scanner-workspaces", "1">>, <<>>}
        \cup IF tool = "request" THEN {} ELSE {Base, <<".">>}

-----------------------------------------------------------------------------
(* The parsers. *)

\* normalizeSeverity of npm-audit, dependency-check, trivy and the scans service.
Plain(word) ==
    CASE word = "moderate" -> "medium"
      [] word \in {"critical", "high", "medium", "low"} -> word
      [] OTHER -> "info"

ByScore(cvss) ==
    IF cvss >= 90 THEN "critical" ELSE IF cvss >= 70 THEN "high" ELSE IF cvss >= 40 THEN "medium" ELSE "low"

\* The text of a riskdesc is "<risk> (<confidence>)": zap looks for words in both.
FirstWord(texts) ==
    IF "high" \in texts THEN "high"
    ELSE IF "medium" \in texts THEN "medium"
    ELSE IF "low" \in texts THEN "low" ELSE "info"

SemgrepSeverity(word) ==
    CASE word = "error" -> "high" [] word = "warning" -> "medium" [] word = "info" -> "low"
      [] OTHER -> Plain(word)
NmapSeverity(word) == CASE word = "risky" -> "medium" [] word = "admin" -> "low" [] OTHER -> "info"
SecureNowSeverity(word) == IF word \in Range(Common) THEN (IF word = "info" THEN word ELSE Plain(word)) ELSE "medium"
OsvSeverity(cvss, word) == IF cvss > 0 THEN ByScore(cvss) ELSE Plain(word)

Severity(f) ==
    CASE f.tool = "gitleaks" -> "critical"
      [] f.tool = "semgrep" -> SemgrepSeverity(f.word)
      [] f.tool = "osv" -> OsvSeverity(f.cvss, f.word)
      [] f.tool = "zap" -> FirstWord({f.word, f.confidence})
      [] f.tool = "nmap" -> NmapSeverity(f.word)
      [] f.tool = "securenow" -> SecureNowSeverity(f.word)
      [] OTHER -> Plain(f.word)
FindingType(f) == IF f.tool = "gitleaks" THEN "secret" ELSE f.type

-----------------------------------------------------------------------------
(* The name of a flaw. *)

\* What is left of a path after the last of the segments at the indices hits;
\* nothing is cut where no segment follows or no slash comes before.
CutAfter(path, hits) ==
    LET ends == hits \cap 2..(Len(path) - 1) IN
    IF ends = {} THEN path ELSE SubSeq(path, Max(ends) + 1, Len(path))

\* /tmp/vm-scan-<time>-<random>/ and .../vm-scanner-workspaces/<uuid>/
WithoutClone(path) ==
    LET script == CutAfter(path, {i \in DOMAIN path : path[i] \in {"vm-scan-1", "vm-scan-2"}}) IN
    CutAfter(script, {i \in 3..Len(script) : script[i - 1] = "vm-scanner-workspaces"})

WithoutBase(path) ==
    IF Len(path) > Len(Base) /\ SubSeq(path, 1, Len(Base)) = Base
    THEN SubSeq(path, Len(Base) + 1, Len(path)) ELSE path

WithoutDot(path) == IF path # <<>> /\ Head(path) = "." THEN Tail(path) ELSE path

\* Contradicts the code, for checking the properties: the clone is not taken off.
PathWithClone(tool, path) ==
    IF tool = "request" THEN WithoutClone(path) ELSE WithoutDot(WithoutBase(path))
NormalizedPath(tool, path) ==
    IF tool = "request" THEN WithoutClone(path) ELSE WithoutDot(WithoutBase(WithoutClone(path)))

\* A scan names the flaw by the asset before the repository, a request the other
\* way round.  The other parts of the key are words of the tool.
Scope(tool) ==
    LET asset == place.asset # NoAsset
        repo == place.repo # None
    IN  IF asset /\ (tool # "request" \/ ~repo) THEN "asset"
        ELSE IF repo THEN "repository" ELSE None
Key(path) ==
    [source |-> IF flaw.tool = "request" THEN "upload" ELSE flaw.tool, scope |-> Scope(flaw.tool),
     type |-> FindingType(flaw), path |-> NormalizedPath(flaw.tool, path)]

-----------------------------------------------------------------------------
(* Risk scoring. *)

SeverityScore == [critical |-> 80, high |-> 55, medium |-> 30, low |-> 15, info |-> 5]
ContextScore(rank) ==
    CASE rank = "critical" -> 20 [] rank = "high" -> 12 [] rank = "medium" -> 6 [] rank = "low" -> 2
      [] OTHER -> 0
\* Contradicts the code, for checking the properties: an available exploit hides
\* that it is used.
ExploitFirst(f) == IF f.exploit THEN 20 ELSE IF f.known THEN 40 ELSE 0
ExploitScore(f) == IF f.known THEN 40 ELSE IF f.exploit THEN 20 ELSE 0
SumOfFactors(f, p) ==
    SeverityScore[Severity(f)] + (IF FindingType(f) = "secret" THEN 35 ELSE 0) + ExploitScore(f)
        + (IF p.asset.exposed THEN 15 ELSE 0)
        + ContextScore(p.repo) + ContextScore(p.asset.rank) + ContextScore(p.asset.impact)

\* The rules that put a finding first whatever the factors sum up to.
Escalated(f, p) ==
    \/ FindingType(f) = "secret" \/ f.known \/ Severity(f) = "critical"
    \/ /\ Severity(f) = "high"
       /\ \/ "critical" \in {p.repo, p.asset.rank, p.asset.impact}
          \/ p.asset.exposed /\ f.exploit

PriorityFromScore(score) ==
    IF score >= 80 THEN 1 ELSE IF score >= 55 THEN 2 ELSE IF score >= 30 THEN 3 ELSE 4

\* Contradicts the code, for checking the properties: an escalated finding keeps
\* its score.
AssessWithoutFloor(f, p) ==
    LET score == Min({100, SumOfFactors(f, p)}) IN
    [priority |-> IF Escalated(f, p) THEN 1 ELSE PriorityFromScore(score), score |-> score]

\* Priorities P1..P4 as numbers.
AssessRisk(f, p) ==
    LET score == Min({100, SumOfFactors(f, p)}) IN
    IF Escalated(f, p) THEN [priority |-> 1, score |-> Max({score, 80})]
                       ELSE [priority |-> PriorityFromScore(score), score |-> score]

\* The days until a finding is due, when the environment sets no others.
DueDays(priority) == <<7, 15, 30, 60>>[priority]

-----------------------------------------------------------------------------
NoRow == [key |-> None]
Init ==
    /\ flaw \in Flaws /\ place \in Places
    /\ row = NoRow /\ before = NoRow /\ worse = FALSE

\* saveFindings, and createManual for a flaw of a request.
Save ==
    \E w \in Workspaces(flaw.tool) :
       LET risk == AssessRisk(flaw, place) IN
       /\ row' = [key |-> Key(w \o File), priority |-> risk.priority, score |-> risk.score,
                  days |-> DueDays(risk.priority)]
       /\ before' = row /\ worse' = FALSE /\ UNCHANGED <<flaw, place>>

\* What comes after x in s.
After(s, x) == {s[i + 1] : i \in {j \in 1..(Len(s) - 1) : s[j] = x}}
\* The bound: one fact becomes worse between two scans.
Worsens == row # NoRow /\ ~worse /\ worse' = TRUE /\ UNCHANGED <<row, before>>

\* The tool reports the flaw as worse.  A word counts for osv when there is no score.
ReportWorse ==
    /\ Worsens /\ UNCHANGED place
    /\ \/ flaw.cvss = 0 /\ \E x \in After(Words(flaw.tool), flaw.word) : flaw' = [flaw EXCEPT !.word = x]
       \/ flaw.cvss > 0 /\ \E x \in {s \in Scores : s > flaw.cvss} : flaw' = [flaw EXCEPT !.cvss = x]
       \/ flaw.tool \in Written /\ ~flaw.exploit /\ flaw' = [flaw EXCEPT !.exploit = TRUE]
       \/ flaw.tool \in Written /\ ~flaw.known /\ flaw' = [flaw EXCEPT !.known = TRUE]

\* The asset or the repository is updated.
PlaceWorse ==
    /\ Worsens /\ UNCHANGED flaw
    /\ \/ \E x \in After(Ranks, place.repo) : place' = [place EXCEPT !.repo = x]
       \/ \E x \in After(Ranks, place.asset.rank) : place' = [place EXCEPT !.asset.rank = x]
       \/ \E x \in After(Ranks, place.asset.impact) : place' = [place EXCEPT !.asset.impact = x]
       \/ place.asset # NoAsset /\ ~place.asset.exposed /\ place' = [place EXCEPT !.asset.exposed = TRUE]

Next == Save \/ ReportWorse \/ PlaceWorse

-----------------------------------------------------------------------------
\* A scan finds a flaw again under the name it had, from whatever workspace it
\* is scanned; and when a fact has become worse, no rule, limit or threshold
\* gives it a lower score, a later priority or a later due date.
RescanAgrees ==
    before # NoRow =>
        /\ row.key = before.key
        /\ row.score >= before.score /\ row.priority <= before.priority /\ row.days <= before.days

\* Priority and score tell one story, though each is raised by rules of its own;
\* and what a report calls a secret, exploited or critical is first whichever
\* parser it has come through.
UrgentIsFirst ==
    row # NoRow =>
        /\ row.priority = PriorityFromScore(row.score) /\ row.score \in 0..100
        /\ ~worse /\ (FindingType(flaw) = "secret" \/ flaw.known \/ (flaw.word = "critical" /\ flaw.cvss = 0))
             => row.priority = 1
=============================================================================
