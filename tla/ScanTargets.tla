----------------------------- MODULE ScanTargets -----------------------------
(* The scan targets of one tenant (assets.service.ts, vm-asset.schema.ts). *)
(* A target is named by its fields, some of which have an alias kept for   *)
(* old callers, and by a key worked out of them, which a unique index      *)
(* keeps from being registered twice.  An update reads the document,       *)
(* merges the request into it, and writes the fields that are defined:     *)
(* what it leaves out of $set stays as it is in the database.              *)
(* Three of the eleven types stand for the shapes of the others: a         *)
(* repository (an id or else an address), a host (an address or else a     *)
(* name) and a website (one required field).                               *)
EXTENDS Naturals, FiniteSets, FiniteSetsExt

CONSTANTS
    Assets,       \* documents there may be
    Callers,      \* requests that can be under way at once
    Creates,      \* requests to create: name, type, provider, fields f, credential, active,
    Updates,      \* and to update, None where they say nothing
    MaxRequests   \* bound: requests made

VARIABLES
    assets,       \* the collection vm_assets
    call,         \* the requests under way
    requests,     \* how many were made
    torn,         \* history: written by an update that had read an older document
    emptied       \* history: asked to give up a field

vars == <<assets, call, requests, torn, emptied>>

-----------------------------------------------------------------------------
None == "none"     \* undefined
Null == "null"

Canonical == {"targetIp", "targetHost", "targetUrl"}
AliasOf == [c \in Canonical |-> CASE c = "targetIp" -> "ipAddress" [] c = "targetHost" -> "hostname"
                                  [] c = "targetUrl" -> "url"]
Fields == Canonical \cup {AliasOf[c] : c \in Canonical} \cup {"repositoryId", "repoUrl"}
Types == {"git_repository", "host", "website"}

Given(v) == v \notin {None, Null}

Absent == [name |-> None]
Exists(a) == assets[a] # Absent
Idle == [op |-> None]

\* synchronizeAliases refuses two values, and copies the one there is.
Mismatch(f) == \E c \in Canonical : Given(f[c]) /\ Given(f[AliasOf[c]]) /\ f[c] # f[AliasOf[c]]
Either(f, c) == IF Given(f[c]) THEN f[c] ELSE IF Given(f[AliasOf[c]]) THEN f[AliasOf[c]] ELSE None
Synchronized(f) ==
    [x \in Fields |->
        IF x = "repoUrl" THEN f[x]
        ELSE IF x = "repositoryId" THEN IF Given(f[x]) THEN f[x] ELSE None
        ELSE Either(f, CHOOSE c \in Canonical : x \in {c, AliasOf[c]})]

\* validateTargetRequirements
HasTarget(t, f) ==
    CASE t = "git_repository" -> Given(f["repositoryId"]) \/ Given(f["repoUrl"])
      [] t = "host"           -> Given(f["targetHost"]) \/ Given(f["targetIp"])
      [] t = "website"        -> Given(f["targetUrl"])

\* buildTargetKey
Key(t, f) ==
    CASE t = "git_repository" -> IF Given(f["repositoryId"]) THEN <<t, "id", f["repositoryId"]>>
                                 ELSE <<t, "url", f["repoUrl"]>>
      [] t = "host"           -> <<t, "host", IF Given(f["targetIp"]) THEN f["targetIp"] ELSE f["targetHost"]>>
      [] t = "website"        -> <<t, "url", f["targetUrl"]>>

\* deriveProvider, deriveSourceType; an address stands for its host.
Provider(p, t, f) == IF Given(p) THEN p
                     ELSE IF f["repoUrl"] \in {"github", "gitlab"} THEN f["repoUrl"] ELSE t
Source(p, t) ==
    CASE t = "git_repository" -> IF p \in {"github", "gitlab"} THEN p ELSE "git"
      [] t = "host"           -> "server"
      [] t = "website"        -> "web_url"

\* As a mutant: the key is worked out before the aliases are synchronized.
NormalizedKeyFirst(d) ==
    LET f == Synchronized(d.f)
        p == Provider(d.provider, d.type, f) IN
    [d EXCEPT !.f = f, !.provider = p, !.source = Source(p, d.type), !.key = Key(d.type, d.f)]
\* normalizeAssetData, on a document with the request merged into it.
Normalized(d) ==
    LET f == Synchronized(d.f)
        p == Provider(d.provider, d.type, f) IN
    [d EXCEPT !.f = f, !.provider = p, !.source = Source(p, d.type), !.key = Key(d.type, f)]
Acceptable(d) == ~Mismatch(d.f) /\ HasTarget(d.type, Synchronized(d.f))

Merged(d, r) ==
    [d EXCEPT !.name = IF Given(r.name) THEN r.name ELSE @,
              !.type = IF Given(r.type) THEN r.type ELSE @,
              !.provider = IF r.provider # None THEN r.provider ELSE @,
              !.active = IF r.active # None THEN r.active = "on" ELSE @,
              !.f = [x \in Fields |-> IF r.f[x] # None THEN r.f[x] ELSE @[x]]]
New == [name |-> None, type |-> None, provider |-> None, f |-> [x \in Fields |-> None], source |-> None,
        key |-> <<>>, cred |-> FALSE, active |-> TRUE, last |-> None]

\* The unique indexes, on the name and on the key.
Clashes(a, d) == \E b \in Assets \ {a} : Exists(b) /\ (assets[b].name = d.name \/ assets[b].key = d.key)

Done(c) == call' = [call EXCEPT ![c] = Idle]
Begins(c, next) ==
    /\ call[c] = Idle /\ requests < MaxRequests
    /\ requests' = requests + 1
    /\ call' = [call EXCEPT ![c] = next]
AtOnce == requests < MaxRequests /\ requests' = requests + 1 /\ UNCHANGED <<call, torn, emptied>>
\* Every write makes the documents read before it old.
Wrote(c, a) == call' = [o \in Callers |->
    IF o = c THEN Idle
    ELSE IF call[o] # Idle /\ call[o].op = "update" /\ call[o].a = a THEN [call[o] EXCEPT !.old = TRUE]
    ELSE call[o]]

-----------------------------------------------------------------------------
\* create looks for a duplicate, then inserts; the index has the last word.
StartCreate(c, a, r) ==
    /\ ~Exists(a) /\ \A o \in Callers : call[o] # Idle => call[o].a # a
    /\ Acceptable(Merged(New, r))
    /\ LET d == [Normalized(Merged(New, r)) EXCEPT !.cred = (r.cred = "new")] IN
        /\ ~Clashes(a, d)
        /\ Begins(c, [op |-> "create", a |-> a, d |-> d])
    /\ UNCHANGED <<assets, torn, emptied>>
Insert(c) ==
    /\ call[c].op = "create"
    /\ LET a == call[c].a IN
        assets' = IF Clashes(a, call[c].d) THEN assets ELSE [assets EXCEPT ![a] = call[c].d]
    /\ Done(c)
    /\ UNCHANGED <<requests, torn, emptied>>

\* update reads the document, then writes what the merge says.
StartUpdate(c, a, r) ==
    /\ Exists(a) /\ Acceptable(Merged(assets[a], r))
    /\ Begins(c, [op |-> "update", a |-> a, d |-> Normalized(Merged(assets[a], r)), cred |-> r.cred,
                  active |-> r.active, empties |-> (\E x \in Fields \ {"repoUrl"} : r.f[x] = Null), old |-> FALSE])
    /\ UNCHANGED <<assets, torn, emptied>>

\* $set leaves out what is undefined.  Setting and unsetting the credential in
\* one request is an error of the database.
Write(c) ==
    /\ call[c].op = "update"
    /\ LET a == call[c].a
           d == call[c].d IN
        IF Clashes(a, d) \/ call[c].cred = "both"
        THEN Done(c) /\ UNCHANGED <<assets, torn, emptied>>
        ELSE /\ assets' = [assets EXCEPT ![a] =
                    [d EXCEPT !.f = [x \in Fields |-> IF @[x] = None THEN assets[a].f[x] ELSE @[x]],
                              !.cred = CASE call[c].cred = "new" -> TRUE
                                         [] call[c].cred = "clear" -> FALSE
                                         [] OTHER -> assets[a].cred,
                              !.active = IF call[c].active = None THEN assets[a].active ELSE @,
                              !.last = assets[a].last]]
             /\ Wrote(c, a)
             /\ torn' = IF call[c].old THEN torn \cup {a} ELSE torn
             /\ emptied' = IF call[c].empties THEN emptied \cup {a} ELSE emptied
    /\ UNCHANGED requests

\* archive and restore, clearCredentialForTenant, updateLastScanForTenant.
SetActive(a, b) == Exists(a) /\ assets' = [assets EXCEPT ![a].active = b] /\ AtOnce
ClearCredential(a) == Exists(a) /\ assets' = [assets EXCEPT ![a].cred = FALSE] /\ AtOnce
\* resolveScanTargetForTenant wants an active target.
Scan(a) == Exists(a) /\ assets[a].active /\ assets' = [assets EXCEPT ![a].last = "queued"] /\ AtOnce
\* The outcome of a scan is stored on a target archived since.
ScanEnds(a) == Exists(a) /\ assets[a].last = "queued" /\ assets' = [assets EXCEPT ![a].last = "completed"] /\ AtOnce

-----------------------------------------------------------------------------
Init ==
    /\ assets = [a \in Assets |-> Absent]
    /\ call = [c \in Callers |-> Idle]
    /\ requests = 0
    /\ torn = {}
    /\ emptied = {}

\* Which free document a request takes does not matter.
FirstFree == {a \in Assets : ~Exists(a) /\ \A o \in Callers : call[o] # Idle => call[o].a # a}

Next ==
    \/ \E c \in Callers :
          \/ FirstFree # {} /\ \E r \in Creates : StartCreate(c, Min(FirstFree), r)
          \/ \E a \in Assets, r \in Updates : StartUpdate(c, a, r)
          \/ Insert(c) \/ Write(c)
    \/ \E a \in Assets : (\E b \in BOOLEAN : SetActive(a, b)) \/ ClearCredential(a) \/ Scan(a) \/ ScanEnds(a)

Spec == Init /\ [][Next]_vars

-----------------------------------------------------------------------------
\* The two names of a field never part, and the source type is that of the
\* stored type and provider, whatever requests overlap; the key is that of
\* the stored fields, unless an update wrote over one it had not seen or was
\* asked to give up a field, which it cannot do.
AliasesAgree == \A a \in Assets : Exists(a) =>
    \A c \in Canonical : assets[a].f[c] = assets[a].f[AliasOf[c]]
SourceFits == \A a \in Assets : Exists(a) => assets[a].source = Source(assets[a].provider, assets[a].type)
KeyNamesTarget == \A a \in Assets \ (torn \cup emptied) : Exists(a) =>
    /\ assets[a].key = Key(assets[a].type, assets[a].f)
    /\ \A b \in Assets \ ({a} \cup torn \cup emptied) : Exists(b) =>
          Key(assets[b].type, assets[b].f) # Key(assets[a].type, assets[a].f)
TargetsConsistent == AliasesAgree /\ SourceFits /\ KeyNamesTarget
=============================================================================
