---------------------------- MODULE Repositories ----------------------------
(* The repositories of one tenant (repositories.service.ts,                *)
(* repository.schema.ts).  An address may carry a token, which is taken    *)
(* out of it and stored by itself; an address without one leaves the       *)
(* stored token alone.  Unique indexes keep names and addresses apart.     *)
EXTENDS Naturals, FiniteSets

CONSTANTS
    Repos,        \* documents there may be, numbers
    Callers,      \* requests that can be under way at once
    Names,        \* names of repositories
    Urls,         \* addresses without their token: <<host, path>>
    MaxRequests   \* bound: requests made

VARIABLES
    repos,        \* the collection vm_repositories
    call,         \* the requests under way
    requests      \* how many were made

vars == <<repos, call, requests>>

-----------------------------------------------------------------------------
None == "none"
Absent == [name |-> None]
Exists(r) == repos[r] # Absent
Idle == [op |-> None]
NoUrl == <<>>
ByName(n) == {r \in Repos : Exists(r) /\ repos[r].name = n}

\* The unique indexes, on the name and on an address that is there.
Clashes(r, d) == \E q \in Repos \ {r} : Exists(q) /\ (repos[q].name = d.name \/ (d.url # NoUrl /\ repos[q].url = d.url))

\* cleanRepoUrlAndEncryptToken: what an address gives.
NoAddress == [url |-> NoUrl, token |-> FALSE]
Addresses == [url : Urls, token : BOOLEAN]
\* detectProviderFromHost
Provider(url) == IF url[1] \in {"github", "gitlab", "bitbucket"} THEN url[1] ELSE "git"

\* The writes of a request: the fields it names, on a document.  A provider
\* that is named wins over the one of the address.
Applied(d, w) ==
    LET moves == w.address.url # NoUrl IN
    [d EXCEPT !.name = IF w.name # None THEN w.name ELSE @,
              !.url = IF moves THEN w.address.url ELSE @,
              !.token = @ \/ w.address.token,
              !.provider = IF w.provider # None THEN w.provider ELSE IF moves THEN Provider(w.address.url) ELSE @,
              !.chosen = IF w.provider # None THEN TRUE ELSE IF moves THEN FALSE ELSE @,
              !.active = IF w.active # None THEN w.active = "on" ELSE @]
\* The defaults of create and findOrCreateByName; chosen is a history: the
\* provider was named after the address.
New(n) == [name |-> n, url |-> NoUrl, token |-> FALSE, provider |-> "git", chosen |-> FALSE, active |-> TRUE]
Writes(n, a, p, b) == [name |-> n, address |-> a, provider |-> p, active |-> b]

Counted == requests < MaxRequests /\ requests' = requests + 1
Begins(c, next) == call[c] = Idle /\ Counted /\ call' = [call EXCEPT ![c] = next]
Done(c) == call' = [call EXCEPT ![c] = Idle]
Free == {r \in Repos : ~Exists(r)}
NextFree == CHOOSE r \in Free : \A q \in Free : r <= q

-----------------------------------------------------------------------------
\* create and update look for the name, and write in a later query, which
\* the indexes refuse when the name or the address is taken by then.
StartCreate(c, w) ==
    /\ w.name # None /\ ByName(w.name) = {}
    /\ Begins(c, [op |-> "create", w |-> w])
    /\ UNCHANGED repos
Insert(c) ==
    /\ call[c].op = "create" /\ Free # {}
    /\ LET d == Applied(New(call[c].w.name), call[c].w) IN
        IF Clashes(NextFree, d) THEN UNCHANGED repos
        ELSE repos' = [repos EXCEPT ![NextFree] = d]
    /\ Done(c)
    /\ UNCHANGED requests
StartUpdate(c, r, w) ==
    /\ Exists(r) /\ w # Writes(None, NoAddress, None, None)
    /\ w.name # None => ByName(w.name) \subseteq {r}
    /\ Begins(c, [op |-> "update", r |-> r, w |-> w])
    /\ UNCHANGED repos
Write(c) ==
    /\ call[c].op = "update"
    /\ LET r == call[c].r
           d == Applied(repos[r], call[c].w) IN
        repos' = IF Clashes(r, d) THEN repos ELSE [repos EXCEPT ![r] = d]
    /\ Done(c)
    /\ UNCHANGED requests

\* findOrCreateByName is one upsert: it returns an archived document as it is.
FindOrCreate(n) ==
    /\ Counted
    /\ repos' = IF ByName(n) # {} THEN repos ELSE [repos EXCEPT ![NextFree] = New(n)]
    /\ UNCHANGED call

\* updateRepoUrlForTenant, of an active repository; archive and
\* clearRepositoryTokenForTenant, of any.
UpdateUrl(r, a) ==
    /\ Exists(r) /\ repos[r].active /\ Counted
    /\ LET d == Applied(repos[r], Writes(None, a, None, None)) IN
        repos' = IF Clashes(r, d) THEN repos ELSE [repos EXCEPT ![r] = d]
    /\ UNCHANGED call
Archive(r) ==
    /\ Exists(r) /\ Counted
    /\ repos' = [repos EXCEPT ![r].active = FALSE]
    /\ UNCHANGED call
ClearToken(r) ==
    /\ Exists(r) /\ Counted
    /\ repos' = [repos EXCEPT ![r].token = FALSE]
    /\ UNCHANGED call

-----------------------------------------------------------------------------
Init ==
    /\ repos = [r \in Repos |-> Absent]
    /\ call = [c \in Callers |-> Idle]
    /\ requests = 0

Requests ==
    {Writes(n, a, p, None) : n \in Names \cup {None}, a \in Addresses \cup {NoAddress}, p \in {None, "gitlab"}}
    \cup {Writes(n, NoAddress, None, b) : n \in Names \cup {None}, b \in {"on", "off"}}

Next ==
    \/ \E c \in Callers :
          \/ Free # {} /\ \E w \in Requests : StartCreate(c, w)
          \/ \E r \in Repos, w \in Requests : StartUpdate(c, r, w)
          \/ Insert(c) \/ Write(c)
    \/ \E n \in Names : (Free # {} \/ ByName(n) # {}) /\ FindOrCreate(n)
    \/ \E r \in Repos : Archive(r) \/ ClearToken(r) \/ \E a \in Addresses : UpdateUrl(r, a)

Spec == Init /\ [][Next]_vars

-----------------------------------------------------------------------------
\* The provider of a repository is that of its address, unless a request
\* named another one since, however requests overlap: scans pick the clone
\* address and the provider from the same document.
ProviderFollowsAddress == \A r \in Repos : Exists(r) =>
    repos[r].chosen \/ repos[r].provider = (IF repos[r].url = NoUrl THEN "git" ELSE Provider(repos[r].url))
=============================================================================
