------------------------------ MODULE MCRecords ------------------------------
(* An instance for TLC of the three collections of the server that several *)
(* requests change at once, accounts, scan targets and repositories, and   *)
(* of the ranking of findings.  They share no state, so a behaviour takes  *)
(* the steps of the one that the initial state picks.                      *)
EXTENDS Integers, Sequences, FiniteSets

CONSTANTS
    People, PortalTenants, Callers, MaxCalls, MaxUsers, MaxTokens, MaxCodes,
    Assets, Repos, Names, MaxRequests

VARIABLES
    part,
    users, counter, tenants, frameworks, tokens, codes, secrets, call, started, minted,
    told, proven, sources, mixed, stale, served,
    assets, updating, made, torn, emptied,
    repos, changing, requests,
    flaw, place, row, before, worse

Imported == <<"ann">>
ASSUME RecordsAssumption == "ann" \in People
Urls == {<<"github", "a">>, <<"other", "b">>}

\* Requests on scan targets: hosts by name and address, a repository and its
\* move to another host, fields given by either name, cleared, or changed
\* with a new type, and credentials.
Blank == [x \in {"targetIp", "ipAddress", "targetHost", "hostname", "targetUrl", "url",
                 "repositoryId", "repoUrl"} |-> "none"]
Asks(n, t, f) == [name |-> n, type |-> t, provider |-> "none", f |-> f, cred |-> "none", active |-> "none"]
Creates ==
    {Asks("n1", "host", [Blank EXCEPT !.hostname = "h1"]), Asks("n2", "host", [Blank EXCEPT !.targetIp = "ip1"]),
     [Asks("n2", "git_repository", [Blank EXCEPT !.repoUrl = "github"]) EXCEPT !.cred = "new"]}
Updates ==
    {Asks("none", "none", f) :
        f \in {[Blank EXCEPT !.targetIp = "ip1"], [Blank EXCEPT !.targetIp = "null", !.ipAddress = "null"],
               [Blank EXCEPT !.hostname = "h2"], [Blank EXCEPT !.targetHost = "h2", !.hostname = "h2"],
               [Blank EXCEPT !.repoUrl = "gitlab"], [Blank EXCEPT !.repositoryId = "r1"]}}
    \cup {Asks("n1", "none", [Blank EXCEPT !.url = "u1"]), Asks("none", "website", [Blank EXCEPT !.targetUrl = "u1"])}
    \cup {[Asks("none", "none", Blank) EXCEPT !.cred = c] : c \in {"clear", "both"}}
    \cup {[Asks("none", "none", Blank) EXCEPT !.active = "off"]}

\* VM_SCANNER_BASE_DIR.
BaseDir == <<"/", "srv", "base">>

Users == INSTANCE Accounts
Targets == INSTANCE ScanTargets WITH call <- updating, requests <- made
Repositories == INSTANCE Repositories WITH call <- changing
Triage == INSTANCE FindingTriage WITH
              Ranks <- <<"low", "high", "critical">>, Scores <- {1, 39, 40, 69, 70, 89, 90, 100},
              Base <- BaseDir

accountVars == <<users, counter, tenants, frameworks, tokens, codes, secrets, call, started, minted,
                 told, proven, sources, mixed, stale, served>>
targetVars == <<assets, updating, made, torn, emptied>>
repositoryVars == <<repos, changing, requests>>
triageVars == <<flaw, place, row, before, worse>>
vars == <<part, accountVars, targetVars, repositoryVars, triageVars>>

Init ==
    /\ part \in {"accounts", "targets", "repositories", "triage"}
    /\ Users!Init /\ Targets!Init /\ Repositories!Init
    /\ Triage!Init
    /\ part # "triage" => flaw = (CHOOSE f \in Triage!Flaws : TRUE) /\ place = (CHOOSE p \in Triage!Places : TRUE)
    /\ part # "accounts" => \A d \in DOMAIN users : ~users[d].verified

Next ==
    \/ part = "accounts" /\ Users!Next /\ UNCHANGED <<part, targetVars, repositoryVars, triageVars>>
    \/ part = "targets" /\ Targets!Next /\ UNCHANGED <<part, accountVars, repositoryVars, triageVars>>
    \/ part = "repositories" /\ Repositories!Next /\ UNCHANGED <<part, accountVars, targetVars, triageVars>>
    \/ part = "triage" /\ Triage!Next /\ UNCHANGED <<part, accountVars, targetVars, repositoryVars>>

Spec == Init /\ [][Next]_vars

\* The properties of the parts: see their modules.
AccountsApart == Users!AccountsApart
RecordsAgree ==
    /\ Targets!TargetsConsistent /\ Repositories!ProviderFollowsAddress
    /\ Triage!RescanAgrees /\ Triage!UrgentIsFirst
=============================================================================
