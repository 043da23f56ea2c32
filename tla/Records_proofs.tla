--------------------------- MODULE Records_proofs ---------------------------
(***************************************************************************)
(* Safety of the collections that several requests change at once, and of  *)
(* the ranking of findings, for any number of callers, documents and       *)
(* requests.                                                               *)
(***************************************************************************)
EXTENDS MCRecords, FiniteSetTheorems, SequenceTheorems, TLAPS

-----------------------------------------------------------------------------
(* Every step of the composition is a step of one part, or none of it.     *)

LEMMA PartSteps ==
  ASSUME [Next]_vars
  PROVE  /\ [Users!Next]_accountVars /\ [Targets!Next]_targetVars
         /\ [Repositories!Next]_repositoryVars /\ [Triage!Next]_triageVars
BY DEF Next, vars, accountVars, targetVars, repositoryVars, triageVars

-----------------------------------------------------------------------------
(* Repositories.                                                           *)

ProviderNames == {"github", "gitlab", "git"}

RepoDocs ==
    [name : Names \cup {"none"}, url : Urls \cup {Repositories!NoUrl}, token : BOOLEAN, provider : ProviderNames,
     chosen : BOOLEAN, active : BOOLEAN]

RepoWrites ==
    [name : Names \cup {"none"}, address : [url : Urls \cup {Repositories!NoUrl}, token : BOOLEAN],
     provider : {"none", "gitlab"}, active : {"none", "on", "off"}]

Follows(d) == d.chosen \/ d.provider = (IF d.url = Repositories!NoUrl THEN "git" ELSE Repositories!Provider(d.url))

GoodRepo(d) == d = Repositories!Absent \/ (d \in RepoDocs /\ Follows(d))

\* What waits to be written is for a document that is there.
GoodChange(q) ==
    \/ q = Repositories!Idle
    \/ q.op = "create" /\ q.w \in RepoWrites /\ q.w.name # "none"
    \/ q.op = "update" /\ q.w \in RepoWrites /\ q.r \in Repos /\ repos[q.r] # Repositories!Absent

RepositoriesInv ==
    /\ DOMAIN repos = Repos /\ \A r \in Repos : GoodRepo(repos[r])
    /\ DOMAIN changing = Callers /\ \A c \in Callers : GoodChange(changing[c])

LEMMA RepositoriesInit ==
  ASSUME Repositories!Init
  PROVE  RepositoriesInv
BY DEF Repositories!Init, RepositoriesInv, GoodRepo, GoodChange

LEMMA ProviderType ==
  ASSUME NEW u \in Urls
  PROVE  Repositories!Provider(u) \in ProviderNames /\ u # Repositories!NoUrl
<1>1. u[1] \in {"github", "other"} /\ Len(u) = 2
  BY DEF Urls
<1>2. u # Repositories!NoUrl
  BY <1>1 DEF Repositories!NoUrl
<1>3. Repositories!Provider(u) \in {"github", "git"}
  BY <1>1 DEF Repositories!Provider
<1> QED
  BY <1>2, <1>3 DEF ProviderNames

LEMMA ADocIsThere == \A d \in RepoDocs : d # Repositories!Absent
<1> SUFFICES ASSUME NEW d \in RepoDocs, d = Repositories!Absent
             PROVE  FALSE
  OBVIOUS
<1>1. DOMAIN d = {"name", "url", "token", "provider", "chosen", "active"}
  BY DEF RepoDocs
<1>2. DOMAIN d = {"name"}
  BY DEF Repositories!Absent
<1> QED
  BY <1>1, <1>2

LEMMA AppliedFollows ==
  ASSUME NEW d \in RepoDocs, Follows(d), NEW w \in RepoWrites
  PROVE  Repositories!Applied(d, w) \in RepoDocs /\ Follows(Repositories!Applied(d, w))
<1> DEFINE moves == w.address.url # Repositories!NoUrl
<1>1. PICK e : e = Repositories!Applied(d, w)
  OBVIOUS
<1>2. /\ e.name = IF w.name # "none" THEN w.name ELSE d.name
      /\ e.url = IF moves THEN w.address.url ELSE d.url
      /\ e.provider = IF w.provider # "none" THEN w.provider
                      ELSE IF moves THEN Repositories!Provider(w.address.url) ELSE d.provider
  BY <1>1 DEF Repositories!Applied, RepoDocs, Repositories!None
<1>3. e.chosen = IF w.provider # "none" THEN TRUE ELSE IF moves THEN FALSE ELSE d.chosen
  BY <1>1 DEF Repositories!Applied, RepoDocs, Repositories!None
<1>4. e.token \in BOOLEAN /\ e.active \in BOOLEAN /\ e.chosen \in BOOLEAN
  BY <1>1 DEF Repositories!Applied, RepoDocs, Repositories!None
<1>5. e = [name |-> e.name, url |-> e.url, token |-> e.token, provider |-> e.provider,
           chosen |-> e.chosen, active |-> e.active]
  BY <1>1 DEF Repositories!Applied, RepoDocs, Repositories!None
<1>6. w.name \in Names \cup {"none"} /\ w.address.url \in Urls \cup {Repositories!NoUrl}
      /\ (w.provider # "none" => w.provider \in ProviderNames)
  BY DEF RepoWrites, ProviderNames
<1>7. moves => Repositories!Provider(w.address.url) \in ProviderNames
  BY <1>6, ProviderType
<1>8. e.name \in Names \cup {"none"} /\ e.url \in Urls \cup {Repositories!NoUrl} /\ e.provider \in ProviderNames
  BY <1>2, <1>6, <1>7 DEF RepoDocs
<1>9. e \in RepoDocs
  BY <1>4, <1>5, <1>8 DEF RepoDocs
<1>10. Follows(e)
  BY <1>2, <1>3, <1>6, ProviderType DEF Follows
<1> QED
  BY <1>1, <1>9, <1>10

LEMMA NewFollows ==
  ASSUME NEW n \in Names
  PROVE  Repositories!New(n) \in RepoDocs /\ Follows(Repositories!New(n))
<1>1. "git" \in ProviderNames
  BY DEF ProviderNames
<1> QED
  BY <1>1 DEF Repositories!New, RepoDocs, Follows

LEMMA WritesType ==
  ASSUME NEW n \in Names \cup {"none"},
         NEW a \in Repositories!Addresses \cup {Repositories!NoAddress},
         NEW p \in {"none", "gitlab"}, NEW b \in {"none", "on", "off"}
  PROVE  Repositories!Writes(n, a, p, b) \in RepoWrites
<1>1. a \in [url : Urls \cup {Repositories!NoUrl}, token : BOOLEAN]
  <2>1. CASE a \in Repositories!Addresses
    BY <2>1 DEF Repositories!Addresses
  <2>2. CASE a = Repositories!NoAddress
    BY <2>2 DEF Repositories!NoAddress
  <2> QED
    BY <2>1, <2>2
<1> QED
  BY <1>1 DEF Repositories!Writes, RepoWrites

LEMMA RequestsType == Repositories!Requests \subseteq RepoWrites
BY WritesType DEF Repositories!Requests, Repositories!None

\* A write of one document, at most, leaves what waits in its place.
LEMMA DocumentWritten ==
  ASSUME RepositoriesInv, NEW r, NEW d \in RepoDocs, Follows(d),
         repos' = repos \/ repos' = [repos EXCEPT ![r] = d]
  PROVE  /\ DOMAIN repos' = Repos /\ \A q \in Repos : GoodRepo(repos'[q])
         /\ \A q \in Repos : repos[q] # Repositories!Absent => repos'[q] # Repositories!Absent
BY ADocIsThere DEF RepositoriesInv, GoodRepo

LEMMA RepositoriesStep ==
  ASSUME RepositoriesInv, [Repositories!Next]_repositoryVars
  PROVE  RepositoriesInv'
<1>1. ASSUME UNCHANGED <<repos, changing>>
      PROVE  RepositoriesInv'
  BY <1>1 DEF RepositoriesInv, GoodChange
<1>2. ASSUME NEW c \in Callers, NEW q, changing' = [changing EXCEPT ![c] = q], UNCHANGED repos,
             GoodChange(q)
      PROVE  RepositoriesInv'
  <2>1. DOMAIN changing' = Callers /\ \A o \in Callers : changing'[o] = IF o = c THEN q ELSE changing[o]
    BY <1>2 DEF RepositoriesInv
  <2>2. \A o \in Callers : GoodChange(changing'[o])
    BY <1>2, <2>1 DEF RepositoriesInv
  <2>3. \A o \in Callers : GoodChange(changing[o])'
    BY <1>2, <2>2 DEF GoodChange
  <2> QED
    BY <1>2, <2>1, <2>3 DEF RepositoriesInv
<1>3. ASSUME NEW r, NEW d \in RepoDocs, Follows(d),
             repos' = repos \/ repos' = [repos EXCEPT ![r] = d],
             \/ UNCHANGED changing
             \/ \E c \in Callers : changing' = [changing EXCEPT ![c] = Repositories!Idle]
      PROVE  RepositoriesInv'
  <2>1. /\ DOMAIN repos' = Repos /\ \A q \in Repos : GoodRepo(repos'[q])
        /\ \A q \in Repos : repos[q] # Repositories!Absent => repos'[q] # Repositories!Absent
    BY <1>3, DocumentWritten
  <2>2. DOMAIN changing' = Callers
        /\ \A o \in Callers : changing'[o] \in {changing[o], Repositories!Idle}
    BY <1>3 DEF RepositoriesInv
  <2>3. ASSUME NEW o \in Callers
        PROVE  GoodChange(changing[o])'
    <3>1. GoodChange(changing[o])
      BY DEF RepositoriesInv
    <3> QED
      BY <2>1, <2>2, <3>1 DEF GoodChange
  <2> QED
    BY <2>1, <2>2, <2>3 DEF RepositoriesInv
<1>4. ASSUME NEW c \in Callers, NEW w \in Repositories!Requests, Repositories!StartCreate(c, w)
      PROVE  RepositoriesInv'
  <2>1. GoodChange([op |-> "create", w |-> w])
    BY <1>4, RequestsType DEF GoodChange, Repositories!StartCreate, Repositories!None
  <2> QED
    BY <1>2, <1>4, <2>1 DEF Repositories!StartCreate, Repositories!Begins
<1>5. ASSUME NEW c \in Callers, NEW r \in Repos, NEW w \in Repositories!Requests,
             Repositories!StartUpdate(c, r, w)
      PROVE  RepositoriesInv'
  <2>1. GoodChange([op |-> "update", r |-> r, w |-> w])
    BY <1>5, RequestsType DEF GoodChange, Repositories!StartUpdate, Repositories!Exists
  <2> QED
    BY <1>2, <1>5, <2>1 DEF Repositories!StartUpdate, Repositories!Begins
<1>6. ASSUME NEW c \in Callers, Repositories!Insert(c)
      PROVE  RepositoriesInv'
  <2>1. changing[c].op = "create" /\ changing[c] # Repositories!Idle
    BY <1>6 DEF Repositories!Insert, Repositories!Idle, Repositories!None
  <2>2. changing[c].w \in RepoWrites /\ changing[c].w.name \in Names
    BY <2>1 DEF RepositoriesInv, GoodChange, RepoWrites
  <2> DEFINE d == Repositories!Applied(Repositories!New(changing[c].w.name), changing[c].w)
  <2>3. d \in RepoDocs /\ Follows(d)
    BY <2>2, NewFollows, AppliedFollows
  <2>4. repos' = repos \/ repos' = [repos EXCEPT ![Repositories!NextFree] = d]
    BY <1>6 DEF Repositories!Insert
  <2>5. changing' = [changing EXCEPT ![c] = Repositories!Idle]
    BY <1>6 DEF Repositories!Insert, Repositories!Done
  <2> HIDE DEF d
  <2> QED
    BY <1>3, <2>3, <2>4, <2>5
<1>7. ASSUME NEW c \in Callers, Repositories!Write(c)
      PROVE  RepositoriesInv'
  <2>1. changing[c].op = "update" /\ changing[c] # Repositories!Idle
    BY <1>7 DEF Repositories!Write, Repositories!Idle, Repositories!None
  <2>2. /\ changing[c].w \in RepoWrites /\ changing[c].r \in Repos
        /\ repos[changing[c].r] \in RepoDocs /\ Follows(repos[changing[c].r])
    BY <2>1 DEF RepositoriesInv, GoodChange, GoodRepo
  <2> DEFINE d == Repositories!Applied(repos[changing[c].r], changing[c].w)
  <2>3. d \in RepoDocs /\ Follows(d)
    BY <2>2, AppliedFollows
  <2>4. repos' = repos \/ repos' = [repos EXCEPT ![changing[c].r] = d]
    BY <1>7 DEF Repositories!Write
  <2>5. changing' = [changing EXCEPT ![c] = Repositories!Idle]
    BY <1>7 DEF Repositories!Write, Repositories!Done
  <2> HIDE DEF d
  <2> QED
    BY <1>3, <2>3, <2>4, <2>5
<1>8. ASSUME NEW n \in Names, Repositories!FindOrCreate(n)
      PROVE  RepositoriesInv'
  BY <1>3, <1>8, NewFollows DEF Repositories!FindOrCreate
<1>9. ASSUME NEW r \in Repos, NEW a \in Repositories!Addresses, Repositories!UpdateUrl(r, a)
      PROVE  RepositoriesInv'
  <2>1. repos[r] \in RepoDocs /\ Follows(repos[r])
    BY <1>9 DEF Repositories!UpdateUrl, Repositories!Exists, RepositoriesInv, GoodRepo
  <2> DEFINE d == Repositories!Applied(repos[r], Repositories!Writes("none", a, "none", "none"))
  <2>2. d \in RepoDocs /\ Follows(d)
    BY <2>1, WritesType, AppliedFollows
  <2>3. repos' = repos \/ repos' = [repos EXCEPT ![r] = d]
    BY <1>9 DEF Repositories!UpdateUrl, Repositories!None
  <2>4. UNCHANGED changing
    BY <1>9 DEF Repositories!UpdateUrl
  <2> HIDE DEF d
  <2> QED
    BY <1>3, <2>2, <2>3, <2>4
<1>10. ASSUME NEW r \in Repos, Repositories!Archive(r) \/ Repositories!ClearToken(r)
       PROVE  RepositoriesInv'
  <2>1. repos[r] \in RepoDocs /\ Follows(repos[r])
    BY <1>10 DEF Repositories!Archive, Repositories!ClearToken, Repositories!Exists, RepositoriesInv, GoodRepo
  <2>4. \E e \in RepoDocs : Follows(e) /\ repos' = [repos EXCEPT ![r] = e]
    <3>1. CASE Repositories!Archive(r)
      <4>1. repos' = [repos EXCEPT ![r] = [repos[r] EXCEPT !.active = FALSE]]
        BY <3>1 DEF Repositories!Archive, RepositoriesInv
      <4>2. [repos[r] EXCEPT !.active = FALSE] \in RepoDocs /\ Follows([repos[r] EXCEPT !.active = FALSE])
        BY <2>1 DEF RepoDocs, Follows
      <4> QED
        BY <4>1, <4>2
    <3>2. CASE Repositories!ClearToken(r)
      <4>1. repos' = [repos EXCEPT ![r] = [repos[r] EXCEPT !.token = FALSE]]
        BY <3>2 DEF Repositories!ClearToken, RepositoriesInv
      <4>2. [repos[r] EXCEPT !.token = FALSE] \in RepoDocs /\ Follows([repos[r] EXCEPT !.token = FALSE])
        BY <2>1 DEF RepoDocs, Follows
      <4> QED
        BY <4>1, <4>2
    <3> QED
      BY <1>10, <3>1, <3>2
  <2>5. UNCHANGED changing
    BY <1>10 DEF Repositories!Archive, Repositories!ClearToken
  <2> QED
    BY <1>3, <2>4, <2>5
<1> QED
  BY <1>1, <1>4, <1>5, <1>6, <1>7, <1>8, <1>9, <1>10 DEF Repositories!Next, repositoryVars

LEMMA RepositoriesGood ==
  ASSUME RepositoriesInv
  PROVE  Repositories!ProviderFollowsAddress
BY DEF RepositoriesInv, GoodRepo, Follows, Repositories!ProviderFollowsAddress, Repositories!Exists

-----------------------------------------------------------------------------
(* Scan targets.                                                           *)

\* The words of the requests of this instance, and those the code adds.
Words ==
    {"none", "null", "n1", "n2", "git_repository", "host", "website", "github", "gitlab", "git",
     "server", "web_url", "id", "url", "ip1", "h1", "h2", "u1", "r1", "queued", "completed"}

TargetFields ==
    {"targetIp", "ipAddress", "targetHost", "hostname", "targetUrl", "url", "repositoryId", "repoUrl"}

TargetRequests ==
    [name : Words, type : Targets!Types \cup {"none"}, provider : {"none"}, f : [TargetFields -> Words],
     cred : {"none", "new", "clear", "both"}, active : {"none", "off"}]

TargetDocs ==
    [name : Words, type : Targets!Types, provider : Words, f : [TargetFields -> Words], source : Words,
     key : (Words \X Words \X Words), cred : BOOLEAN, active : BOOLEAN, last : Words]

LEMMA FieldNames ==
  /\ Targets!Fields = TargetFields
  /\ Targets!Canonical = {"targetIp", "targetHost", "targetUrl"}
  /\ Targets!AliasOf["targetIp"] = "ipAddress" /\ Targets!AliasOf["targetHost"] = "hostname"
  /\ Targets!AliasOf["targetUrl"] = "url"
<1>1. /\ Targets!AliasOf["targetIp"] = "ipAddress" /\ Targets!AliasOf["targetHost"] = "hostname"
      /\ Targets!AliasOf["targetUrl"] = "url"
  BY DEF Targets!AliasOf, Targets!Canonical
<1>2. {Targets!AliasOf[c] : c \in Targets!Canonical} = {"ipAddress", "hostname", "url"}
  BY <1>1 DEF Targets!Canonical
<1> QED
  BY <1>1, <1>2 DEF Targets!Fields, Targets!Canonical, TargetFields

LEMMA BlankType == Blank \in [TargetFields -> Words] /\ Blank = [x \in TargetFields |-> "none"]
BY DEF Blank, TargetFields, Words

LEMMA AsksType ==
  ASSUME NEW n \in Words, NEW t \in Targets!Types \cup {"none"}, NEW f \in [TargetFields -> Words]
  PROVE  /\ Asks(n, t, f) \in TargetRequests
         /\ \A c \in {"new", "clear", "both"} : [Asks(n, t, f) EXCEPT !.cred = c] \in TargetRequests
BY DEF Asks, TargetRequests

LEMMA RequestTypes ==
  /\ Creates \subseteq TargetRequests /\ Updates \subseteq TargetRequests
  /\ \A r \in Creates : r.type # "none"
<1> USE DEF TargetFields, Words, Targets!Types
<1>1. Creates \subseteq TargetRequests
  <2>1. /\ [Blank EXCEPT !.hostname = "h1"] \in [TargetFields -> Words]
        /\ [Blank EXCEPT !.targetIp = "ip1"] \in [TargetFields -> Words]
        /\ [Blank EXCEPT !.repoUrl = "github"] \in [TargetFields -> Words]
    BY BlankType
  <2>2. /\ Asks("n1", "host", [Blank EXCEPT !.hostname = "h1"]) \in TargetRequests
        /\ Asks("n2", "host", [Blank EXCEPT !.targetIp = "ip1"]) \in TargetRequests
    BY <2>1, AsksType
  <2>3. [Asks("n2", "git_repository", [Blank EXCEPT !.repoUrl = "github"]) EXCEPT !.cred = "new"] \in TargetRequests
    BY <2>1, AsksType
  <2> QED
    BY <2>2, <2>3, Zenon DEF Creates
<1>2. Updates \subseteq TargetRequests
  <2>1. /\ [Blank EXCEPT !.targetIp = "ip1"] \in [TargetFields -> Words]
        /\ [Blank EXCEPT !.targetIp = "null", !.ipAddress = "null"] \in [TargetFields -> Words]
        /\ [Blank EXCEPT !.hostname = "h2"] \in [TargetFields -> Words]
        /\ [Blank EXCEPT !.targetHost = "h2", !.hostname = "h2"] \in [TargetFields -> Words]
        /\ [Blank EXCEPT !.repoUrl = "gitlab"] \in [TargetFields -> Words]
        /\ [Blank EXCEPT !.repositoryId = "r1"] \in [TargetFields -> Words]
        /\ [Blank EXCEPT !.url = "u1"] \in [TargetFields -> Words]
        /\ [Blank EXCEPT !.targetUrl = "u1"] \in [TargetFields -> Words]
    BY BlankType
  <2>2. ASSUME NEW f \in [TargetFields -> Words]
        PROVE  Asks("none", "none", f) \in TargetRequests
    BY AsksType
  <2>3. /\ Asks("n1", "none", [Blank EXCEPT !.url = "u1"]) \in TargetRequests
        /\ Asks("none", "website", [Blank EXCEPT !.targetUrl = "u1"]) \in TargetRequests
    BY <2>1, AsksType
  <2>4. ASSUME NEW c \in {"clear", "both"}
        PROVE  [Asks("none", "none", Blank) EXCEPT !.cred = c] \in TargetRequests
    BY BlankType, AsksType
  <2>5. [Asks("none", "none", Blank) EXCEPT !.active = "off"] \in TargetRequests
    BY BlankType DEF Asks, TargetRequests
  <2>6. {[Asks("none", "none", Blank) EXCEPT !.cred = c] : c \in {"clear", "both"}} \subseteq TargetRequests
    BY <2>4, Zenon
  <2>7. ASSUME NEW S, S \subseteq [TargetFields -> Words]
        PROVE  {Asks("none", "none", f) : f \in S} \subseteq TargetRequests
    BY <2>2, <2>7, Zenon
  <2>8. {Asks("n1", "none", [Blank EXCEPT !.url = "u1"]), Asks("none", "website", [Blank EXCEPT !.targetUrl = "u1"])}
          \subseteq TargetRequests
    BY <2>3, Zenon
  <2>9. {[Asks("none", "none", Blank) EXCEPT !.active = "off"]} \subseteq TargetRequests
    BY <2>5, Zenon
  <2>10. {[Blank EXCEPT !.targetIp = "ip1"], [Blank EXCEPT !.targetIp = "null", !.ipAddress = "null"],
          [Blank EXCEPT !.hostname = "h2"], [Blank EXCEPT !.targetHost = "h2", !.hostname = "h2"],
          [Blank EXCEPT !.repoUrl = "gitlab"], [Blank EXCEPT !.repositoryId = "r1"]}
            \subseteq [TargetFields -> Words]
    <3> HIDE DEF TargetFields, Words
    <3> DEFINE F == [TargetFields -> Words]
    <3>1. /\ [Blank EXCEPT !.targetIp = "ip1"] \in F
          /\ [Blank EXCEPT !.targetIp = "null", !.ipAddress = "null"] \in F
          /\ [Blank EXCEPT !.hostname = "h2"] \in F
          /\ [Blank EXCEPT !.targetHost = "h2", !.hostname = "h2"] \in F
          /\ [Blank EXCEPT !.repoUrl = "gitlab"] \in F
          /\ [Blank EXCEPT !.repositoryId = "r1"] \in F
      BY <2>1
    <3> HIDE DEF F
    <3>2. {[Blank EXCEPT !.targetIp = "ip1"], [Blank EXCEPT !.targetIp = "null", !.ipAddress = "null"],
           [Blank EXCEPT !.hostname = "h2"], [Blank EXCEPT !.targetHost = "h2", !.hostname = "h2"],
           [Blank EXCEPT !.repoUrl = "gitlab"], [Blank EXCEPT !.repositoryId = "r1"]} \subseteq F
      BY <3>1, Zenon
    <3> QED
      BY <3>2 DEF F
  <2> QED
    BY <2>6, <2>7, <2>8, <2>9, <2>10, Zenon DEF Updates
<1>3. \A r \in Creates : r.type # "none"
  BY DEF Creates, Asks
<1> QED
  BY <1>1, <1>2, <1>3

\* The two names of each field agree, and null is nowhere but in an address.
AliasesMeet(f) ==
    f["targetIp"] = f["ipAddress"] /\ f["targetHost"] = f["hostname"] /\ f["targetUrl"] = f["url"]
NoNull(f) == \A x \in TargetFields \ {"repoUrl"} : f[x] # "null"
NothingLost(f, g) == \A x \in TargetFields : g[x] = "none" => f[x] = "none"

LEMMA SynchronizedIs ==
  ASSUME NEW f \in [TargetFields -> Words], NEW g, g = Targets!Synchronized(f)
  PROVE  /\ g \in [TargetFields -> Words] /\ AliasesMeet(g) /\ NoNull(g)
         /\ g["repoUrl"] = f["repoUrl"]
         /\ \A x \in TargetFields \ {"repoUrl"} : g[x] = "none" => f[x] \in {"none", "null"}
<1>1. g = [x \in TargetFields |->
             IF x = "repoUrl" THEN f[x]
             ELSE IF x = "repositoryId" THEN IF Targets!Given(f[x]) THEN f[x] ELSE "none"
             ELSE Targets!Either(f, CHOOSE c \in Targets!Canonical : x \in {c, Targets!AliasOf[c]})]
  BY FieldNames DEF Targets!Synchronized, Targets!None
<1>2. \A c \in Targets!Canonical : \A x \in {c, Targets!AliasOf[c]} :
        c = CHOOSE d \in Targets!Canonical : x \in {d, Targets!AliasOf[d]}
  BY FieldNames
<1>3. \A c \in Targets!Canonical :
        /\ g[c] = Targets!Either(f, c) /\ g[Targets!AliasOf[c]] = Targets!Either(f, c)
  BY <1>1, <1>2, FieldNames DEF TargetFields
<1>4. \A c \in Targets!Canonical :
        /\ Targets!Either(f, c) \in Words /\ Targets!Either(f, c) # "null"
        /\ Targets!Either(f, c) = "none" =>
             f[c] \in {"none", "null"} /\ f[Targets!AliasOf[c]] \in {"none", "null"}
  BY FieldNames DEF Targets!Either, Targets!Given, Targets!None, Targets!Null, TargetFields, Words
<1>5. /\ g["repoUrl"] = f["repoUrl"]
      /\ g["repositoryId"] = IF Targets!Given(f["repositoryId"]) THEN f["repositoryId"] ELSE "none"
  BY <1>1 DEF TargetFields
<1>6. \A x \in TargetFields :
        \/ x \in {"repoUrl", "repositoryId"}
        \/ \E c \in Targets!Canonical : x \in {c, Targets!AliasOf[c]}
  BY FieldNames DEF TargetFields
<1>7. /\ g["repositoryId"] \in Words /\ g["repositoryId"] # "null"
      /\ g["repositoryId"] = "none" => f["repositoryId"] \in {"none", "null"}
  BY <1>5 DEF Targets!Given, Targets!None, Targets!Null, TargetFields, Words
<1>8. \A x \in TargetFields :
        /\ g[x] \in Words
        /\ x # "repoUrl" => g[x] # "null" /\ (g[x] = "none" => f[x] \in {"none", "null"})
  <2>1. ASSUME NEW x \in TargetFields, NEW c \in Targets!Canonical, x \in {c, Targets!AliasOf[c]}
        PROVE  g[x] \in Words /\ g[x] # "null" /\ (g[x] = "none" => f[x] \in {"none", "null"})
    BY <1>3, <1>4, <2>1
  <2>2. f["repoUrl"] \in Words
    BY DEF TargetFields
  <2> QED
    BY <1>5, <1>6, <1>7, <2>1, <2>2
<1>9. AliasesMeet(g)
  BY <1>3, FieldNames DEF AliasesMeet
<1> QED
  BY <1>1, <1>5, <1>8, <1>9 DEF NoNull

LEMMA ProviderWord ==
  ASSUME NEW p \in Words, NEW t \in Targets!Types, NEW f \in [TargetFields -> Words]
  PROVE  /\ Targets!Provider(p, t, f) \in Words
         /\ Targets!Source(p, t) \in Words
         /\ Targets!Key(t, f) \in Words \X Words \X Words
<1>1. Targets!Provider(p, t, f) \in Words
  BY DEF Targets!Provider, Targets!Types, Words
<1>2. Targets!Source(p, t) \in Words
  BY DEF Targets!Source, Targets!Types, Words
<1>3. \A v \in Words : <<t, "id", v>> \in Words \X Words \X Words /\ <<t, "url", v>> \in Words \X Words \X Words
                       /\ <<t, "host", v>> \in Words \X Words \X Words
  BY DEF Targets!Types, Words
<1>4. \A x \in TargetFields : f[x] \in Words
  OBVIOUS
<1>5. Targets!Key(t, f) \in Words \X Words \X Words
  BY <1>3, <1>4 DEF Targets!Key, Targets!Types, TargetFields
<1> QED
  BY <1>1, <1>2, <1>5

GoodTarget(d) ==
    /\ d \in TargetDocs /\ AliasesMeet(d.f) /\ NoNull(d.f)
    /\ d.source = Targets!Source(d.provider, d.type)
Keyed(d) == d.key = Targets!Key(d.type, d.f)

\* What a request gives for a document.
LEMMA NormalizedIs ==
  ASSUME NEW d, d \in TargetDocs \/ d = Targets!New, NEW r \in TargetRequests,
         d = Targets!New => r.type # "none",
         NEW n, n = Targets!Normalized(Targets!Merged(d, r))
  PROVE  /\ GoodTarget(n) /\ Keyed(n)
         /\ d \in TargetDocs /\ NoNull(d.f) /\ (\A x \in TargetFields \ {"repoUrl"} : r.f[x] # "null")
              => NothingLost(d.f, n.f)
<1>1. PICK m : m = Targets!Merged(d, r)
  OBVIOUS
<1>2. /\ d.name \in Words /\ d.provider \in Words /\ d.f \in [TargetFields -> Words]
      /\ d.cred \in BOOLEAN /\ d.active \in BOOLEAN /\ d.last \in Words
      /\ d.type \in Targets!Types \cup {"none"} /\ (d.type = "none" => r.type # "none")
      /\ d = [name |-> d.name, type |-> d.type, provider |-> d.provider, f |-> d.f, source |-> d.source,
              key |-> d.key, cred |-> d.cred, active |-> d.active, last |-> d.last]
  <2>1. CASE d \in TargetDocs
    BY <2>1 DEF TargetDocs, Targets!Types
  <2>2. CASE d = Targets!New
    BY <2>2, FieldNames DEF Targets!New, Targets!None, Words
  <2> QED
    BY <2>1, <2>2
<1>3. /\ r.f \in [TargetFields -> Words] /\ r.name \in Words /\ r.type \in Targets!Types \cup {"none"}
      /\ r.provider = "none"
  BY DEF TargetRequests
<1>4. /\ m.name = IF Targets!Given(r.name) THEN r.name ELSE d.name
      /\ m.type = IF Targets!Given(r.type) THEN r.type ELSE d.type
      /\ m.provider = d.provider
      /\ m.f = [x \in TargetFields |-> IF r.f[x] # "none" THEN r.f[x] ELSE d.f[x]]
      /\ m.cred = d.cred /\ m.last = d.last
  BY <1>1, <1>2, <1>3, FieldNames DEF Targets!Merged, Targets!None
<1>5. m.active \in BOOLEAN
  BY <1>1, <1>2 DEF Targets!Merged
<1>6. m = [name |-> m.name, type |-> m.type, provider |-> m.provider, f |-> m.f, source |-> m.source,
           key |-> m.key, cred |-> m.cred, active |-> m.active, last |-> m.last]
  BY <1>1, <1>2 DEF Targets!Merged
<1>7. m.f \in [TargetFields -> Words] /\ m.type \in Targets!Types /\ m.name \in Words
  BY <1>2, <1>3, <1>4 DEF Targets!Given, Targets!None, Targets!Null, Targets!Types
<1>8. PICK g : g = Targets!Synchronized(m.f)
  OBVIOUS
<1>9. /\ g \in [TargetFields -> Words] /\ AliasesMeet(g) /\ NoNull(g)
      /\ g["repoUrl"] = m.f["repoUrl"]
      /\ \A x \in TargetFields \ {"repoUrl"} : g[x] = "none" => m.f[x] \in {"none", "null"}
  BY <1>7, <1>8, SynchronizedIs
<1>10. PICK p : p = Targets!Provider(m.provider, m.type, g)
  OBVIOUS
<1>11. n = [m EXCEPT !.f = g, !.provider = p, !.source = Targets!Source(p, m.type), !.key = Targets!Key(m.type, g)]
  BY <1>1, <1>8, <1>10, Zenon DEF Targets!Normalized
<1>12. n = [name |-> m.name, type |-> m.type, provider |-> p, f |-> g, source |-> Targets!Source(p, m.type),
            key |-> Targets!Key(m.type, g), cred |-> m.cred, active |-> m.active, last |-> m.last]
  BY <1>6, <1>11
<1>13. p \in Words /\ Targets!Source(p, m.type) \in Words /\ Targets!Key(m.type, g) \in Words \X Words \X Words
  BY <1>2, <1>4, <1>7, <1>9, <1>10, ProviderWord
<1>14. n \in TargetDocs
  BY <1>2, <1>4, <1>5, <1>7, <1>9, <1>12, <1>13 DEF TargetDocs
<1>15. GoodTarget(n) /\ Keyed(n)
  BY <1>9, <1>12, <1>14 DEF GoodTarget, Keyed
<1>16. ASSUME NoNull(d.f), \A x \in TargetFields \ {"repoUrl"} : r.f[x] # "null"
       PROVE  NothingLost(d.f, g)
  BY <1>2, <1>3, <1>4, <1>9, <1>16 DEF NothingLost, NoNull, TargetFields
<1> QED
  BY <1>12, <1>15, <1>16

TargetUpdates ==
    [op : {"update"}, a : Assets, d : TargetDocs, cred : {"none", "new", "clear", "both"},
     active : {"none", "off"}, empties : BOOLEAN, old : BOOLEAN]

GoodCall(q) ==
    \/ q = Targets!Idle
    \/ q.op = "create" /\ GoodTarget(q.d) /\ Keyed(q.d)
    \/ q \in TargetUpdates /\ GoodTarget(q.d) /\ Keyed(q.d)

\* A document that is created is not there, and no other call is about it; one
\* that is updated is there, and unless it was written since it was read or
\* gives up a field, what is written names every field it has.
FitsIn(q, docs) ==
    /\ q.op = "create" /\ q.a \in Assets => docs[q.a] = Targets!Absent
    /\ q.op = "update" => /\ docs[q.a] # Targets!Absent
                          /\ ~q.old /\ ~q.empties => NothingLost(docs[q.a].f, q.d.f)

OneCreator(calls) ==
    \A c, o \in Callers :
        c # o /\ calls[c].op = "create" /\ calls[o] # Targets!Idle => calls[o].a # calls[c].a

KeysApart(docs) ==
    \A a, b \in Assets : a # b /\ docs[a] # Targets!Absent /\ docs[b] # Targets!Absent => docs[a].key # docs[b].key

DocsGood(docs, gone) ==
    /\ DOMAIN docs = Assets
    /\ \A a \in Assets : docs[a] = Targets!Absent \/ GoodTarget(docs[a])
    /\ \A a \in Assets \ gone : docs[a] = Targets!Absent \/ Keyed(docs[a])
    /\ KeysApart(docs)

TargetsInv ==
    /\ DocsGood(assets, torn \cup emptied)
    /\ DOMAIN updating = Callers
    /\ \A c \in Callers : GoodCall(updating[c]) /\ FitsIn(updating[c], assets)
    /\ OneCreator(updating)

LEMMA TargetsInit ==
  ASSUME Targets!Init
  PROVE  TargetsInv
BY DEF Targets!Init, TargetsInv, DocsGood, KeysApart, GoodCall, FitsIn, OneCreator, Targets!Idle, Targets!None

LEMMA TargetIsThere == \A d \in TargetDocs : d # Targets!Absent
<1> SUFFICES ASSUME NEW d \in TargetDocs, d = Targets!Absent
             PROVE  FALSE
  OBVIOUS
<1>1. DOMAIN d = {"name", "type", "provider", "f", "source", "key", "cred", "active", "last"}
  BY DEF TargetDocs
<1>2. DOMAIN d = {"name"}
  BY DEF Targets!Absent
<1> QED
  BY <1>1, <1>2

\* A write of one document under a key that no other has.
LEMMA TargetWritten ==
  ASSUME DocsGood(assets, torn \cup emptied), NEW a, NEW d, GoodTarget(d),
         assets' = [assets EXCEPT ![a] = d],
         torn \cup emptied \subseteq torn' \cup emptied',
         a \in torn' \cup emptied' \/ Keyed(d),
         \A b \in Assets \ {a} : assets[b] # Targets!Absent => assets[b].key # d.key
  PROVE  DocsGood(assets', torn' \cup emptied')
<1>1. DOMAIN assets' = Assets /\ \A b \in Assets : assets'[b] = IF b = a THEN d ELSE assets[b]
  BY DEF DocsGood
<1>2. KeysApart(assets')
  BY <1>1 DEF DocsGood, KeysApart
<1> QED
  BY <1>1, <1>2 DEF DocsGood

LEMMA TargetBegins ==
  ASSUME TargetsInv, NEW c \in Callers, NEW q, updating' = [updating EXCEPT ![c] = q],
         updating[c] = Targets!Idle, GoodCall(q), FitsIn(q, assets), UNCHANGED <<assets, torn, emptied>>,
         \A o \in Callers : updating[o] # Targets!Idle /\ (q.op = "create" \/ updating[o].op = "create") =>
             updating[o].a # q.a
  PROVE  TargetsInv'
<1>1. DOMAIN updating' = Callers /\ \A o \in Callers : updating'[o] = IF o = c THEN q ELSE updating[o]
  BY DEF TargetsInv
<1>2. OneCreator(updating')
  <2>1. Targets!Idle.op # "create"
    BY DEF Targets!Idle, Targets!None
  <2> QED
    BY <1>1, <2>1 DEF TargetsInv, OneCreator
<1>3. \A o \in Callers : GoodCall(updating'[o]) /\ FitsIn(updating'[o], assets)
  BY <1>1 DEF TargetsInv
<1> QED
  BY <1>1, <1>2, <1>3 DEF TargetsInv

\* Calls that go on, each as it was or marked old, next to documents written.
LEMMA TargetsGoOn ==
  ASSUME TargetsInv, DocsGood(assets', torn' \cup emptied'), DOMAIN updating' = Callers,
         \A o \in Callers :
            \/ updating'[o] = Targets!Idle
            \/ updating'[o] = updating[o] /\ FitsIn(updating[o], assets')
            \/ /\ updating[o] \in TargetUpdates /\ updating'[o] = [updating[o] EXCEPT !.old = TRUE]
               /\ assets'[updating[o].a] # Targets!Absent
  PROVE  TargetsInv'
<1>1. FitsIn(Targets!Idle, assets') /\ Targets!Idle.op # "create" /\ GoodCall(Targets!Idle)
  BY DEF FitsIn, Targets!Idle, Targets!None, GoodCall
<1>2. ASSUME NEW q \in TargetUpdates, NEW u, u = [q EXCEPT !.old = TRUE]
      PROVE  /\ u \in TargetUpdates /\ u.d = q.d /\ u.a = q.a /\ u.op = "update" /\ u.old
             /\ q # Targets!Idle /\ q.op = "update"
  <2>1. /\ u \in TargetUpdates /\ u.d = q.d /\ u.a = q.a /\ u.op = "update" /\ u.old /\ q.op = "update"
    BY <1>2 DEF TargetUpdates
  <2>2. Targets!Idle.op # "update"
    BY DEF Targets!Idle, Targets!None
  <2> QED
    BY <2>1, <2>2
<1>3. ASSUME NEW o \in Callers
      PROVE  GoodCall(updating'[o]) /\ FitsIn(updating'[o], assets')
  <2>1. GoodCall(updating[o])
    BY DEF TargetsInv
  <2>2. ASSUME updating[o] \in TargetUpdates, updating'[o] = [updating[o] EXCEPT !.old = TRUE],
               assets'[updating[o].a] # Targets!Absent
        PROVE  GoodCall(updating'[o]) /\ FitsIn(updating'[o], assets')
    <3>1. /\ updating'[o] \in TargetUpdates /\ updating'[o].d = updating[o].d /\ updating'[o].a = updating[o].a
          /\ updating'[o].op = "update" /\ updating'[o].old /\ updating[o] # Targets!Idle
          /\ updating[o].op = "update"
      BY <1>2, <2>2
    <3>2. GoodTarget(updating[o].d) /\ Keyed(updating[o].d)
      BY <2>1, <3>1 DEF GoodCall
    <3> QED
      BY <2>2, <3>1, <3>2 DEF GoodCall, FitsIn
  <2> QED
    BY <1>1, <2>1, <2>2
<1>4. \A o \in Callers : /\ updating'[o].op = "create" => updating[o].op = "create"
                         /\ updating'[o] # Targets!Idle => updating[o] # Targets!Idle /\ updating'[o].a = updating[o].a
  BY <1>1, <1>2
<1>5. OneCreator(updating')
  <2>1. ASSUME NEW c \in Callers, NEW o \in Callers, c # o, updating'[c].op = "create", updating'[o] # Targets!Idle
        PROVE  updating'[o].a # updating'[c].a
    <3>1. updating'[c] # Targets!Idle
      BY <1>1, <2>1
    <3>2. updating[c].op = "create" /\ updating[o] # Targets!Idle
      BY <1>4, <2>1
    <3>3. updating[o].a # updating[c].a
      BY <2>1, <3>2 DEF TargetsInv, OneCreator
    <3> QED
      BY <1>4, <2>1, <3>1, <3>3
  <2> QED
    BY <2>1 DEF OneCreator
<1> QED
  BY <1>3, <1>5 DEF TargetsInv

LEMMA StartCreateStep ==
  ASSUME TargetsInv, NEW c \in Callers, NEW a, NEW r \in Creates, Targets!StartCreate(c, a, r)
  PROVE  TargetsInv'
<1>1. PICK n : n = Targets!Normalized(Targets!Merged(Targets!New, r))
  OBVIOUS
<1>2. GoodTarget(n) /\ Keyed(n)
  BY <1>1, NormalizedIs, RequestTypes
<1>3. PICK d : d = [n EXCEPT !.cred = (r.cred = "new")]
  OBVIOUS
<1>4. GoodTarget(d) /\ Keyed(d)
  BY <1>2, <1>3 DEF GoodTarget, Keyed, TargetDocs
<1>5. PICK q : q = [op |-> "create", a |-> a, d |-> d]
  OBVIOUS
<1>6. /\ updating[c] = Targets!Idle /\ UNCHANGED <<assets, torn, emptied>>
      /\ updating' = [updating EXCEPT ![c] = [op |-> "create", a |-> a, d |-> [n EXCEPT !.cred = (r.cred = "new")]]]
      /\ assets[a] = Targets!Absent /\ \A o \in Callers : updating[o] # Targets!Idle => updating[o].a # a
  BY <1>1, Zenon DEF Targets!StartCreate, Targets!Begins, Targets!Exists
<1>7. updating' = [updating EXCEPT ![c] = q]
  BY <1>3, <1>5, <1>6
<1>8. GoodCall(q) /\ FitsIn(q, assets)
  BY <1>4, <1>5, <1>6 DEF GoodCall, FitsIn
<1> QED
  BY <1>5, <1>6, <1>7, <1>8, TargetBegins

LEMMA StartUpdateStep ==
  ASSUME TargetsInv, NEW c \in Callers, NEW a \in Assets, NEW r \in Updates, Targets!StartUpdate(c, a, r)
  PROVE  TargetsInv'
<1>1. /\ updating[c] = Targets!Idle /\ UNCHANGED <<assets, torn, emptied>> /\ assets[a] # Targets!Absent
  BY DEF Targets!StartUpdate, Targets!Begins, Targets!Exists
<1>2. GoodTarget(assets[a])
  BY <1>1 DEF TargetsInv, DocsGood
<1>3. PICK n : n = Targets!Normalized(Targets!Merged(assets[a], r))
  OBVIOUS
<1>4. r \in TargetRequests
  BY RequestTypes
<1>5. /\ GoodTarget(n) /\ Keyed(n)
      /\ (\A x \in TargetFields \ {"repoUrl"} : r.f[x] # "null") => NothingLost(assets[a].f, n.f)
  <2>1. assets[a] \in TargetDocs /\ NoNull(assets[a].f)
    BY <1>2 DEF GoodTarget
  <2>2. assets[a] # Targets!New
    <3>1. assets[a].type # "none"
      BY <2>1 DEF TargetDocs, Targets!Types
    <3>2. Targets!New.type = "none"
      BY DEF Targets!New, Targets!None
    <3> QED
      BY <3>1, <3>2
  <2> QED
    BY <1>3, <1>4, <2>1, <2>2, NormalizedIs
<1>6. PICK e \in BOOLEAN : e = (\E x \in TargetFields \ {"repoUrl"} : r.f[x] = "null")
  OBVIOUS
<1>7. PICK q : q = [op |-> "update", a |-> a, d |-> n, cred |-> r.cred, active |-> r.active,
                    empties |-> e, old |-> FALSE]
  OBVIOUS
<1>8. updating' = [updating EXCEPT ![c] = q]
  BY <1>3, <1>6, <1>7, FieldNames, Zenon DEF Targets!StartUpdate, Targets!Begins, Targets!Null
<1>9. q \in TargetUpdates /\ q.d = n /\ q.a = a /\ q.op = "update" /\ q.empties = e
  BY <1>4, <1>5, <1>7 DEF TargetUpdates, TargetRequests, GoodTarget
<1>10. GoodCall(q)
  BY <1>5, <1>9 DEF GoodCall
<1>11. ~e => NothingLost(assets[a].f, n.f)
  BY <1>5, <1>6
<1>12. FitsIn(q, assets)
  BY <1>1, <1>9, <1>11 DEF FitsIn
<1>13. \A o \in Callers : updating[o].op = "create" => updating[o].a # a
  BY <1>1 DEF TargetsInv, FitsIn
<1> QED
  BY <1>1, <1>8, <1>9, <1>10, <1>12, <1>13, TargetBegins

LEMMA InsertStep ==
  ASSUME TargetsInv, NEW c \in Callers, Targets!Insert(c)
  PROVE  TargetsInv'
<1>1. /\ updating[c].op = "create" /\ updating' = [updating EXCEPT ![c] = Targets!Idle]
      /\ UNCHANGED <<torn, emptied>>
  BY DEF Targets!Insert, Targets!Done
<1>2. updating[c] # Targets!Idle /\ updating[c] \notin TargetUpdates
  BY <1>1 DEF Targets!Idle, Targets!None, TargetUpdates
<1>3. GoodTarget(updating[c].d) /\ Keyed(updating[c].d)
  BY <1>1, <1>2 DEF TargetsInv, GoodCall
<1>4. /\ DOMAIN updating' = Callers /\ updating'[c] = Targets!Idle
      /\ \A o \in Callers : o # c => updating'[o] = updating[o]
  BY <1>1 DEF TargetsInv
<1>5. CASE UNCHANGED assets
  <2>1. \A o \in Callers : FitsIn(updating[o], assets')
    BY <1>5 DEF TargetsInv
  <2>2. DocsGood(assets', torn' \cup emptied')
    BY <1>1, <1>5 DEF TargetsInv
  <2> QED
    BY <1>4, <2>1, <2>2, TargetsGoOn
<1>6. CASE /\ assets' = [assets EXCEPT ![updating[c].a] = updating[c].d]
           /\ ~Targets!Clashes(updating[c].a, updating[c].d)
  <2>1. \A b \in Assets \ {updating[c].a} : assets[b] # Targets!Absent => assets[b].key # updating[c].d.key
    BY <1>6 DEF Targets!Clashes, Targets!Exists
  <2>2. DocsGood(assets', torn' \cup emptied')
    BY <1>1, <1>3, <1>6, <2>1, TargetWritten DEF TargetsInv
  <2>3. ASSUME NEW o \in Callers, o # c, updating[o] # Targets!Idle
        PROVE  FitsIn(updating[o], assets')
    <3>1. updating[o].a # updating[c].a
      BY <1>1, <2>3 DEF TargetsInv, OneCreator
    <3>2. updating[o].op = "update" => updating[o].a \in Assets
      <4>1. GoodCall(updating[o])
        BY DEF TargetsInv
      <4> QED
        BY <2>3, <4>1 DEF GoodCall, TargetUpdates
    <3>3. updating[o].a \in Assets => assets'[updating[o].a] = assets[updating[o].a]
      BY <1>6, <3>1 DEF TargetsInv, DocsGood
    <3>4. FitsIn(updating[o], assets)
      BY DEF TargetsInv
    <3> QED
      BY <3>2, <3>3, <3>4 DEF FitsIn
  <2> QED
    BY <1>4, <2>2, <2>3, TargetsGoOn
<1> QED
  BY <1>5, <1>6 DEF Targets!Insert

\* What a write leaves in the database: $set leaves out what is undefined.
Filled(f, old) == [x \in TargetFields |-> IF f[x] = "none" THEN old[x] ELSE f[x]]

LEMMA WrittenIs ==
  ASSUME NEW d, GoodTarget(d), NEW o, GoodTarget(o), NEW b \in [cred : BOOLEAN, active : BOOLEAN],
         NEW g, g = Filled(d.f, o.f),
         NEW e, e = [name |-> d.name, type |-> d.type, provider |-> d.provider, f |-> g, source |-> d.source,
                     key |-> d.key, cred |-> b.cred, active |-> b.active, last |-> o.last]
  PROVE  /\ GoodTarget(e) /\ e.key = d.key
         /\ Keyed(d) /\ NothingLost(o.f, d.f) => Keyed(e)
<1>2. d.f \in [TargetFields -> Words] /\ o.f \in [TargetFields -> Words]
  BY DEF GoodTarget, TargetDocs
<1>3. g \in [TargetFields -> Words] /\ AliasesMeet(g) /\ NoNull(g)
  BY <1>2 DEF GoodTarget, AliasesMeet, NoNull, TargetFields, Filled
<1>4. NothingLost(o.f, d.f) => g = d.f
  BY <1>2 DEF NothingLost, Filled
<1>6. e \in TargetDocs
  <2>1. /\ d.name \in Words /\ d.type \in Targets!Types /\ d.provider \in Words /\ d.source \in Words
        /\ d.key \in (Words \X Words \X Words) /\ o.last \in Words
    BY DEF GoodTarget, TargetDocs
  <2> QED
    BY <1>3, <2>1 DEF TargetDocs
<1>7. /\ e.f = g /\ e.key = d.key /\ e.type = d.type /\ e.provider = d.provider /\ e.source = d.source
  OBVIOUS
<1>8. d.source = Targets!Source(d.provider, d.type)
  BY DEF GoodTarget
<1>9. GoodTarget(e)
  BY <1>3, <1>6, <1>7, <1>8 DEF GoodTarget
<1> QED
  BY <1>4, <1>7, <1>9 DEF Keyed

LEMMA WriteStep ==
  ASSUME TargetsInv, NEW c \in Callers, Targets!Write(c)
  PROVE  TargetsInv'
<1>1. updating[c].op = "update"
  BY DEF Targets!Write
<1>2. updating[c] # Targets!Idle /\ updating[c].op # "create"
  BY <1>1 DEF Targets!Idle, Targets!None
<1>3. updating[c] \in TargetUpdates /\ GoodTarget(updating[c].d) /\ Keyed(updating[c].d)
  BY <1>2 DEF TargetsInv, GoodCall
<1>4. PICK a \in Assets : a = updating[c].a
  BY <1>3 DEF TargetUpdates
<1>5. GoodTarget(assets[a])
  BY <1>1, <1>4 DEF TargetsInv, FitsIn, DocsGood
<1>6. CASE updating' = [updating EXCEPT ![c] = Targets!Idle] /\ UNCHANGED <<assets, torn, emptied>>
  <2>1. /\ DOMAIN updating' = Callers /\ updating'[c] = Targets!Idle
        /\ \A o \in Callers : o # c => updating'[o] = updating[o]
    BY <1>6 DEF TargetsInv
  <2>2. \A o \in Callers : FitsIn(updating[o], assets')
    BY <1>6 DEF TargetsInv
  <2>3. DocsGood(assets', torn' \cup emptied')
    BY <1>6 DEF TargetsInv
  <2> QED
    BY <2>1, <2>2, <2>3, TargetsGoOn
<1>7. CASE /\ ~Targets!Clashes(a, updating[c].d)
           /\ assets' = [assets EXCEPT ![a] =
                [updating[c].d EXCEPT
                    !.f = [x \in Targets!Fields |-> IF @[x] = Targets!None THEN assets[a].f[x] ELSE @[x]],
                    !.cred = CASE updating[c].cred = "new" -> TRUE
                               [] updating[c].cred = "clear" -> FALSE
                               [] OTHER -> assets[a].cred,
                    !.active = IF updating[c].active = Targets!None THEN assets[a].active ELSE @,
                    !.last = assets[a].last]]
           /\ Targets!Wrote(c, a)
           /\ torn' = (IF updating[c].old THEN torn \cup {a} ELSE torn)
           /\ emptied' = (IF updating[c].empties THEN emptied \cup {a} ELSE emptied)
  <2> DEFINE d == updating[c].d
  <2>1. PICK b : b = [cred |-> CASE updating[c].cred = "new" -> TRUE [] updating[c].cred = "clear" -> FALSE
                                 [] OTHER -> assets[a].cred,
                      active |-> IF updating[c].active = "none" THEN assets[a].active ELSE d.active]
    OBVIOUS
  <2>2. b \in [cred : BOOLEAN, active : BOOLEAN]
    BY <1>3, <1>5, <2>1 DEF GoodTarget, TargetDocs
  <2>0. PICK g : g = Filled(d.f, assets[a].f)
    OBVIOUS
  <2>3. PICK e : e = [name |-> d.name, type |-> d.type, provider |-> d.provider, f |-> g, source |-> d.source,
                      key |-> d.key, cred |-> b.cred, active |-> b.active, last |-> assets[a].last]
    OBVIOUS
  <2>4. assets' = [assets EXCEPT ![a] = e]
    <3>1. d = [name |-> d.name, type |-> d.type, provider |-> d.provider, f |-> d.f, source |-> d.source,
               key |-> d.key, cred |-> d.cred, active |-> d.active, last |-> d.last]
      BY <1>3 DEF GoodTarget, TargetDocs
    <3>2. g = [x \in Targets!Fields |-> IF d.f[x] = Targets!None THEN assets[a].f[x] ELSE d.f[x]]
      BY <2>0, FieldNames DEF Targets!None, Filled
    <3>3. /\ b.cred = CASE updating[c].cred = "new" -> TRUE [] updating[c].cred = "clear" -> FALSE
                        [] OTHER -> assets[a].cred
          /\ b.active = IF updating[c].active = Targets!None THEN assets[a].active ELSE d.active
      BY <2>1 DEF Targets!None
    <3>4. PICK n : n = [d EXCEPT !.f = g, !.cred = b.cred, !.active = b.active, !.last = assets[a].last]
      OBVIOUS
    <3>5. assets' = [assets EXCEPT ![a] = n]
      BY <1>7, <3>2, <3>3, <3>4, Zenon
    <3>6. n = e
      <4>1. d \in TargetDocs
        BY <1>3 DEF GoodTarget
      <4> HIDE DEF d
      <4>2. n = [name |-> d.name, type |-> d.type, provider |-> d.provider, f |-> g, source |-> d.source,
                 key |-> d.key, cred |-> b.cred, active |-> b.active, last |-> assets[a].last]
        BY <3>4, <4>1 DEF TargetDocs
      <4> QED
        BY <2>3, <4>2
    <3> QED
      BY <3>5, <3>6
  <2>5. GoodTarget(e) /\ e.key = d.key /\ (NothingLost(assets[a].f, d.f) => Keyed(e))
    <3>1. GoodTarget(d) /\ Keyed(d) /\ GoodTarget(assets[a])
      BY <1>3, <1>5
    <3> HIDE DEF d
    <3>2. /\ GoodTarget(e) /\ e.key = d.key
          /\ Keyed(d) /\ NothingLost(assets[a].f, d.f) => Keyed(e)
      BY <2>0, <2>2, <2>3, <3>1, WrittenIs
    <3> QED
      BY <3>1, <3>2, Zenon
  <2>6. a \in torn' \cup emptied' \/ Keyed(e)
    <3>1. FitsIn(updating[c], assets)
      BY DEF TargetsInv
    <3> QED
      BY <1>1, <1>4, <1>7, <2>5, <3>1 DEF FitsIn
  <2>7. torn \cup emptied \subseteq torn' \cup emptied'
    BY <1>7
  <2>8. \A x \in Assets \ {a} : assets[x] # Targets!Absent => assets[x].key # d.key
    BY <1>7 DEF Targets!Clashes, Targets!Exists
  <2>9. DocsGood(assets', torn' \cup emptied')
    <3>1. \A x \in Assets \ {a} : assets[x] # Targets!Absent => assets[x].key # e.key
      BY <2>5, <2>8
    <3>2. DocsGood(assets, torn \cup emptied)
      BY DEF TargetsInv
    <3>3. GoodTarget(e)
      BY <2>5
    <3> QED
      BY <2>4, <2>6, <2>7, <3>1, <3>2, <3>3, TargetWritten
  <2>10. /\ DOMAIN updating' = Callers
         /\ \A o \in Callers :
              updating'[o] = IF o = c THEN Targets!Idle
                             ELSE IF updating[o] # Targets!Idle /\ updating[o].op = "update" /\ updating[o].a = a
                                  THEN [updating[o] EXCEPT !.old = TRUE]
                             ELSE updating[o]
    BY <1>7 DEF Targets!Wrote
  <2>11. assets'[a] # Targets!Absent
    BY <2>4, <2>5, TargetIsThere DEF TargetsInv, DocsGood, GoodTarget
  <2>12. ASSUME NEW o \in Callers, o # c, updating[o] # Targets!Idle
         PROVE  \/ updating'[o] = updating[o] /\ FitsIn(updating[o], assets')
                \/ /\ updating[o] \in TargetUpdates /\ updating'[o] = [updating[o] EXCEPT !.old = TRUE]
                   /\ assets'[updating[o].a] # Targets!Absent
    <3>1. GoodCall(updating[o]) /\ FitsIn(updating[o], assets)
      BY DEF TargetsInv
    <3>2. CASE updating[o].op = "update"
      <4>1. updating[o] \in TargetUpdates
        BY <2>12, <3>1, <3>2 DEF GoodCall
      <4>2. CASE updating[o].a = a
        BY <2>10, <2>11, <2>12, <3>2, <4>1, <4>2
      <4>3. CASE updating[o].a # a
        <5>1. assets'[updating[o].a] = assets[updating[o].a]
          BY <2>4, <4>1, <4>3 DEF TargetsInv, DocsGood, TargetUpdates
        <5> QED
          BY <2>10, <2>12, <3>1, <3>2, <4>3, <5>1 DEF FitsIn
      <4> QED
        BY <4>2, <4>3
    <3>3. CASE updating[o].op # "update"
      <4>1. updating'[o] = updating[o] /\ updating[o].op = "create"
        BY <2>10, <2>12, <3>1, <3>3 DEF GoodCall, TargetUpdates
      <4>2. updating[o].a # a
        BY <1>2, <1>4, <2>12, <4>1 DEF TargetsInv, OneCreator
      <4>3. updating[o].a \in Assets => assets'[updating[o].a] = assets[updating[o].a]
        BY <2>4, <4>2 DEF TargetsInv, DocsGood
      <4> QED
        BY <3>1, <3>3, <4>1, <4>3 DEF FitsIn
    <3> QED
      BY <3>2, <3>3
  <2>13. \A o \in Callers : updating[o] = Targets!Idle \/ o = c => updating'[o] = Targets!Idle
    BY <2>10
  <2> QED
    BY <2>9, <2>10, <2>12, <2>13, TargetsGoOn
<1> QED
  BY <1>4, <1>6, <1>7 DEF Targets!Write, Targets!Done

\* One field of a document that no key is made of.
LEMMA FieldSet ==
  ASSUME TargetsInv, NEW a \in Assets, assets[a] # Targets!Absent, NEW e,
         \/ \E b \in BOOLEAN : e = [assets[a] EXCEPT !.active = b]
         \/ \E b \in BOOLEAN : e = [assets[a] EXCEPT !.cred = b]
         \/ \E w \in Words : e = [assets[a] EXCEPT !.last = w],
         assets' = [assets EXCEPT ![a] = e], UNCHANGED <<updating, torn, emptied>>
  PROVE  TargetsInv'
<1>1. GoodTarget(assets[a])
  BY DEF TargetsInv, DocsGood
<1>2. /\ e \in TargetDocs /\ e.f = assets[a].f /\ e.key = assets[a].key /\ e.type = assets[a].type
      /\ e.provider = assets[a].provider /\ e.source = assets[a].source
  BY <1>1 DEF GoodTarget, TargetDocs
<1>3. GoodTarget(e) /\ (Keyed(assets[a]) => Keyed(e))
  BY <1>1, <1>2 DEF GoodTarget, Keyed
<1>4. a \in torn' \cup emptied' \/ Keyed(e)
  BY <1>3 DEF TargetsInv, DocsGood
<1>5. \A b \in Assets \ {a} : assets[b] # Targets!Absent => assets[b].key # e.key
  BY <1>2 DEF TargetsInv, DocsGood, KeysApart
<1>6. DocsGood(assets', torn' \cup emptied')
  BY <1>3, <1>4, <1>5, TargetWritten DEF TargetsInv
<1>7. \A b \in Assets : assets'[b] = IF b = a THEN e ELSE assets[b]
  BY DEF TargetsInv, DocsGood
<1>8. e # Targets!Absent
  BY <1>2, TargetIsThere
<1>9. ASSUME NEW o \in Callers, updating[o] # Targets!Idle
      PROVE  FitsIn(updating[o], assets')
  <2>1. GoodCall(updating[o]) /\ FitsIn(updating[o], assets)
    BY DEF TargetsInv
  <2>2. updating[o].op = "update" => updating[o].a \in Assets
    BY <1>9, <2>1 DEF GoodCall, TargetUpdates
  <2> QED
    BY <1>2, <1>7, <1>8, <2>1, <2>2 DEF FitsIn
<1>10. DOMAIN updating' = Callers
  BY DEF TargetsInv
<1> QED
  BY <1>6, <1>9, <1>10, TargetsGoOn

LEMMA TargetsStep ==
  ASSUME TargetsInv, [Targets!Next]_targetVars
  PROVE  TargetsInv'
<1>1. CASE UNCHANGED targetVars
  BY <1>1 DEF targetVars, TargetsInv
<1>2. ASSUME NEW a \in Assets,
             \/ (\E b \in BOOLEAN : Targets!SetActive(a, b)) \/ Targets!ClearCredential(a)
             \/ Targets!Scan(a) \/ Targets!ScanEnds(a)
      PROVE  TargetsInv'
  <2>1. assets[a] # Targets!Absent /\ UNCHANGED <<updating, torn, emptied>>
    BY <1>2 DEF Targets!SetActive, Targets!ClearCredential, Targets!Scan, Targets!ScanEnds, Targets!Exists,
                Targets!AtOnce
  <2>2. \E e : /\ assets' = [assets EXCEPT ![a] = e]
               /\ \/ \E b \in BOOLEAN : e = [assets[a] EXCEPT !.active = b]
                  \/ \E b \in BOOLEAN : e = [assets[a] EXCEPT !.cred = b]
                  \/ \E w \in Words : e = [assets[a] EXCEPT !.last = w]
    <3>1. \A b \in BOOLEAN : Targets!SetActive(a, b) =>
            assets' = [assets EXCEPT ![a] = [assets[a] EXCEPT !.active = b]]
      BY DEF Targets!SetActive, TargetsInv, DocsGood
    <3>2. Targets!ClearCredential(a) => assets' = [assets EXCEPT ![a] = [assets[a] EXCEPT !.cred = FALSE]]
      BY DEF Targets!ClearCredential, TargetsInv, DocsGood
    <3>3. \/ Targets!Scan(a) \/ Targets!ScanEnds(a) =>
            \E w \in Words : assets' = [assets EXCEPT ![a] = [assets[a] EXCEPT !.last = w]]
      BY DEF Targets!Scan, Targets!ScanEnds, TargetsInv, DocsGood, Words
    <3> QED
      BY <1>2, <3>1, <3>2, <3>3
  <2> QED
    BY <2>1, <2>2, FieldSet
<1> QED
  BY <1>1, <1>2, StartCreateStep, StartUpdateStep, InsertStep, WriteStep DEF Targets!Next

LEMMA TargetsGood ==
  ASSUME TargetsInv
  PROVE  Targets!TargetsConsistent
<1>1. Targets!AliasesAgree
  BY FieldNames DEF TargetsInv, DocsGood, GoodTarget, AliasesMeet, Targets!AliasesAgree, Targets!Exists
<1>2. Targets!SourceFits
  BY DEF TargetsInv, DocsGood, GoodTarget, Targets!SourceFits, Targets!Exists
<1>3. Targets!KeyNamesTarget
  BY DEF TargetsInv, DocsGood, KeysApart, Keyed, Targets!KeyNamesTarget, Targets!Exists
<1> QED
  BY <1>1, <1>2, <1>3 DEF Targets!TargetsConsistent

-----------------------------------------------------------------------------
(* The ranking of findings.  A path is cut back to the file.               *)

Segments == {"/", "tmp", "vm-scan-1", "vm-scan-2", "vm-scanner-workspaces", "1", "srv", "base", ".", "src", "a"}

\* The file, as a sequence with known segments.
IsFile(F) == F \in Seq(Segments) /\ Len(F) = 2 /\ F[1] = "src" /\ F[2] = "a"

LEMMA FileIs == IsFile(Triage!File)
BY DEF Triage!File, Segments, IsFile

LEMMA LastTwo ==
  ASSUME NEW path, NEW m \in Nat, Len(path) = m + 2,
         \A i \in (m + 1)..(m + 2) : path[i] = "src" \/ path[i] = "a",
         NEW s, s = SubSeq(path, m + 1, Len(path))
  PROVE  s \in Seq(Segments) /\ Len(s) = 2 /\ \A i \in 1..2 : s[i] = path[m + i]
<1>1. \A i \in (m + 1)..(m + 2) : path[i] \in Segments
  BY DEF Segments
<1>2. PICK k \in Int, n \in Int : k = m + 1 /\ n = m + 2
  OBVIOUS
<1>3. \A i \in k..n : path[i] \in Segments
  BY <1>1, <1>2
<1>4. /\ SubSeq(path, k, n) \in Seq(Segments)
      /\ Len(SubSeq(path, k, n)) = IF k <= n THEN n - k + 1 ELSE 0
      /\ \A i \in 1..(n - k + 1) : SubSeq(path, k, n)[i] = path[k + i - 1]
  BY ONLY <1>3, SubSeqProperties, k \in Int, n \in Int
<1>5. s = SubSeq(path, k, n) /\ k <= n /\ n - k + 1 = 2 /\ \A i \in 1..2 : k + i - 1 = m + i
  BY <1>2
<1> QED
  BY <1>4, <1>5

\* A path of a workspace, and its end.
LEMMA WorkspacePath ==
  ASSUME NEW w \in Seq(Segments), NEW F, IsFile(F), NEW path, path = w \o F
  PROVE  /\ Len(w) \in Nat /\ path \in Seq(Segments) /\ Len(path) = Len(w) + 2
         /\ \A i \in 1..Len(w) : path[i] = w[i]
         /\ path[Len(w) + 1] = "src" /\ path[Len(w) + 2] = "a"
         /\ SubSeq(path, Len(w) + 1, Len(path)) = F
<1>1. F \in Seq(Segments) /\ Len(F) = 2 /\ F[1] = "src" /\ F[2] = "a"
  BY DEF IsFile
<1>2. Len(w) \in Nat
  BY LenProperties
<1>3. /\ path \in Seq(Segments) /\ Len(path) = Len(w) + Len(F)
      /\ \A i \in 1..(Len(w) + Len(F)) : path[i] = IF i <= Len(w) THEN w[i] ELSE F[i - Len(w)]
  BY <1>1, ConcatProperties
<1>4. Len(path) = Len(w) + 2 /\ \A i \in 1..Len(w) : path[i] = w[i]
  BY <1>1, <1>2, <1>3
<1>5. path[Len(w) + 1] = "src" /\ path[Len(w) + 2] = "a"
  <2>1. /\ Len(w) + 1 \in 1..(Len(w) + Len(F)) /\ Len(w) + 2 \in 1..(Len(w) + Len(F))
        /\ ~(Len(w) + 1 <= Len(w)) /\ ~(Len(w) + 2 <= Len(w))
        /\ Len(w) + 1 - Len(w) = 1 /\ Len(w) + 2 - Len(w) = 2
    BY <1>1, <1>2
  <2>2. path[Len(w) + 1] = F[1] /\ path[Len(w) + 2] = F[2]
    BY <1>3, <2>1
  <2> QED
    BY <1>1, <2>2
<1>6. SubSeq(path, Len(w) + 1, Len(path)) = F
  <2>1. \A i \in (Len(w) + 1)..(Len(w) + 2) : path[i] = "src" \/ path[i] = "a"
    <3>1. \A i \in (Len(w) + 1)..(Len(w) + 2) : i = Len(w) + 1 \/ i = Len(w) + 2
      BY <1>2
    <3> QED
      BY <1>5, <3>1
  <2>2. PICK s : s = SubSeq(path, Len(w) + 1, Len(path))
    OBVIOUS
  <2>3. s \in Seq(Segments) /\ Len(s) = 2 /\ \A i \in 1..2 : s[i] = path[Len(w) + i]
    BY <1>2, <1>4, <2>1, <2>2, LastTwo
  <2>4. s[1] = F[1] /\ s[2] = F[2]
    BY <1>1, <1>5, <2>3
  <2>5. \A i \in 1..Len(s) : s[i] = F[i]
    BY <2>3, <2>4
  <2>6. s = F
    BY <1>1, <2>3, <2>5, SeqEqual
  <2> QED
    BY <2>2, <2>6
<1> QED
  BY <1>2, <1>3, <1>4, <1>5, <1>6

\* What is cut: nothing, or all up to the file.
LEMMA NotCut ==
  ASSUME NEW path, Len(path) \in Nat, NEW hits, \A i \in 2..(Len(path) - 1) : i \notin hits
  PROVE  Triage!CutAfter(path, hits) = path
<1>1. hits \cap 2..(Len(path) - 1) = {}
  OBVIOUS
<1> QED
  BY <1>1 DEF Triage!CutAfter

LEMMA GreatestOfOne == \A n \in Int : Triage!Max({n}) = n
BY DEF Triage!Max

LEMMA CutOnce ==
  ASSUME NEW path, NEW m \in Nat, Len(path) = m + 2, m >= 2,
         NEW hits, \A i \in 2..(m + 1) : i \in hits <=> i = m
  PROVE  Triage!CutAfter(path, hits) = SubSeq(path, m + 1, Len(path))
<1>1. Len(path) - 1 = m + 1 /\ m \in 2..(m + 1)
  OBVIOUS
<1>2. hits \cap 2..(m + 1) = {m}
  BY <1>1
<1>3. m \in Int
  OBVIOUS
<1> QED
  BY <1>1, <1>2, <1>3, GreatestOfOne DEF Triage!CutAfter

\* The segments after which a path is cut.
Clones == {"vm-scan-1", "vm-scan-2"}
Cloned(path) == {i \in DOMAIN path : path[i] \in Clones}
Below(path) == {i \in 3..Len(path) : path[i - 1] = "vm-scanner-workspaces"}

LEMMA CloneSteps ==
  ASSUME NEW path
  PROVE  Triage!WithoutClone(path) =
           LET script == Triage!CutAfter(path, Cloned(path)) IN Triage!CutAfter(script, Below(script))
BY DEF Triage!WithoutClone, Cloned, Below, Clones

LEMMA FileUncut ==
  ASSUME NEW F, IsFile(F)
  PROVE  Triage!CutAfter(F, Below(F)) = F
<1>1. Len(F) = 2 /\ Len(F) \in Nat
  BY DEF IsFile
<1>2. \A i \in 2..(Len(F) - 1) : i \notin Below(F)
  BY <1>1
<1> QED
  BY <1>1, <1>2, NotCut

\* Below a clone of vm-scan.sh.
LEMMA ScriptPath ==
  ASSUME NEW w \in Seq(Segments), Len(w) = 3, w[2] = "tmp", w[3] \in Clones,
         NEW F, IsFile(F)
  PROVE  Triage!WithoutClone(w \o F) = F
<1>1. PICK path : path = w \o F
  OBVIOUS
<1>2. /\ path \in Seq(Segments) /\ Len(path) = Len(w) + 2 /\ \A i \in 1..Len(w) : path[i] = w[i]
      /\ path[Len(w) + 1] = "src" /\ SubSeq(path, Len(w) + 1, Len(path)) = F
  BY <1>1, WorkspacePath
<1>3. path \in Seq(Segments) /\ Len(path) = 5
  BY <1>2
<1>4. path[2] = w[2] /\ path[3] = w[3]
  BY <1>2
<1>5. path[4] = "src"
  BY <1>2
<1>6. SubSeq(path, 3 + 1, Len(path)) = F
  BY <1>2
<1>7. DOMAIN path = 1..5
  BY <1>3, LenProperties
<1>8. 2 \notin Cloned(path) /\ 3 \in Cloned(path) /\ 4 \notin Cloned(path)
  BY <1>4, <1>5, <1>7 DEF Cloned, Clones
<1>9. PICK hits : hits = Cloned(path)
  OBVIOUS
<1>10. \A i \in 2..(3 + 1) : i \in hits <=> i = 3
  BY <1>8, <1>9
<1>11. Triage!CutAfter(path, hits) = F
  <2>1. PICK m \in Nat : m = 3
    OBVIOUS
  <2>2. Len(path) = m + 2 /\ m >= 2 /\ (\A i \in 2..(m + 1) : i \in hits <=> i = m) /\ SubSeq(path, m + 1, Len(path)) = F
    BY <1>3, <1>6, <1>10, <2>1
  <2> QED
    BY <2>2, CutOnce
<1> QED
  BY <1>1, <1>9, <1>11, CloneSteps, FileUncut

\* Below a workspace of the runner.
LEMMA RunnerPath ==
  ASSUME NEW w \in Seq(Segments), Len(w) = 4, w[2] = "tmp", w[3] = "vm-scanner-workspaces", w[4] = "1",
         NEW F, IsFile(F)
  PROVE  Triage!WithoutClone(w \o F) = F
<1>1. PICK path : path = w \o F
  OBVIOUS
<1>2. /\ path \in Seq(Segments) /\ Len(path) = Len(w) + 2 /\ \A i \in 1..Len(w) : path[i] = w[i]
      /\ path[Len(w) + 1] = "src" /\ SubSeq(path, Len(w) + 1, Len(path)) = F
  BY <1>1, WorkspacePath
<1>3. path \in Seq(Segments) /\ Len(path) = 6
  BY <1>2
<1>4. path[2] = w[2] /\ path[3] = w[3] /\ path[4] = w[4]
  BY <1>2
<1>5. path[5] = "src"
  BY <1>2
<1>6. SubSeq(path, 4 + 1, Len(path)) = F
  BY <1>2
<1>7. 2 \notin Cloned(path) /\ 3 \notin Cloned(path) /\ 4 \notin Cloned(path) /\ 5 \notin Cloned(path)
  BY <1>4, <1>5 DEF Cloned, Clones
<1>8. 2 \notin Below(path) /\ 3 \notin Below(path) /\ 4 \in Below(path) /\ 5 \notin Below(path)
  BY <1>3, <1>4 DEF Below
<1>9. PICK hits, ends : hits = Cloned(path) /\ ends = Below(path)
  OBVIOUS
<1>10. Len(path) \in Nat /\ \A i \in 2..(Len(path) - 1) : i \notin hits
  BY <1>3, <1>7, <1>9
<1>11. Triage!CutAfter(path, hits) = path
  BY <1>10, NotCut
<1>12. \A i \in 2..(4 + 1) : i \in ends <=> i = 4
  BY <1>8, <1>9
<1>13. Triage!CutAfter(path, ends) = F
  <2>1. PICK m \in Nat : m = 4
    OBVIOUS
  <2>2. Len(path) = m + 2 /\ m >= 2 /\ (\A i \in 2..(m + 1) : i \in ends <=> i = m) /\ SubSeq(path, m + 1, Len(path)) = F
    BY <1>3, <1>6, <1>12, <2>1
  <2> QED
    BY <2>2, CutOnce
<1> QED
  BY <1>1, <1>9, <1>11, <1>13, CloneSteps

\* Where no clone is, nothing is cut.
LEMMA PlainPath ==
  ASSUME NEW path, Len(path) \in Nat,
         \A i \in 2..(Len(path) - 1) : path[i] \notin Clones \cup {"vm-scanner-workspaces"}
  PROVE  Triage!WithoutClone(path) = path
<1>1. Triage!CutAfter(path, Cloned(path)) = path
  BY NotCut DEF Cloned
<1>2. \A i \in 2..(Len(path) - 1) : i \in Below(path) => i - 1 \in 2..(Len(path) - 1)
  BY DEF Below
<1>3. \A i \in 2..(Len(path) - 1) : i \notin Below(path)
  BY <1>2 DEF Below
<1>4. Triage!CutAfter(path, Below(path)) = path
  BY <1>3, NotCut
<1> QED
  BY <1>1, <1>4, CloneSteps

\* Off the base directory, off a dot, or neither.
LEMMA BasePath ==
  ASSUME NEW F, IsFile(F)
  PROVE  Triage!WithoutBase(BaseDir \o F) = F
<1>1. BaseDir \in Seq(Segments) /\ Len(BaseDir) = 3
  BY DEF BaseDir, Segments
<1>2. PICK path : path = BaseDir \o F
  OBVIOUS
<1>3. /\ Len(path) = Len(BaseDir) + 2 /\ \A i \in 1..Len(BaseDir) : path[i] = BaseDir[i]
      /\ SubSeq(path, Len(BaseDir) + 1, Len(path)) = F
  <2>1. PICK b : b = BaseDir
    OBVIOUS
  <2>2. b \in Seq(Segments) /\ path = b \o F
    BY <1>1, <1>2, <2>1
  <2>3. /\ Len(path) = Len(b) + 2 /\ \A i \in 1..Len(b) : path[i] = b[i]
        /\ SubSeq(path, Len(b) + 1, Len(path)) = F
    BY <2>2, WorkspacePath
  <2> QED
    BY <2>1, <2>3
<1>4. SubSeq(path, 1, Len(BaseDir)) = BaseDir
  <2>1. PICK s : s = SubSeq(path, 1, Len(BaseDir))
    OBVIOUS
  <2>2. PICK m \in Int, n \in Int : m = 1 /\ n = 3
    OBVIOUS
  <2>3. \A i \in m..n : path[i] \in Segments
    BY <1>1, <1>3, <2>2, ElementOfSeq
  <2>4. /\ SubSeq(path, m, n) \in Seq(Segments)
        /\ Len(SubSeq(path, m, n)) = IF m <= n THEN n - m + 1 ELSE 0
        /\ \A i \in 1..(n - m + 1) : SubSeq(path, m, n)[i] = path[m + i - 1]
    BY ONLY <2>3, SubSeqProperties, m \in Int, n \in Int
  <2>5. s \in Seq(Segments) /\ Len(s) = 3 /\ \A i \in 1..3 : s[i] = path[i]
    BY <1>1, <2>1, <2>2, <2>4
  <2>6. \A i \in 1..Len(s) : s[i] = BaseDir[i]
    BY <1>1, <1>3, <2>5
  <2>7. s = BaseDir
    BY <1>1, <2>5, <2>6, SeqEqual
  <2> QED
    BY <2>1, <2>7
<1>5. Len(path) > Len(BaseDir)
  BY <1>1, <1>3
<1> QED
  BY <1>2, <1>3, <1>4, <1>5 DEF Triage!WithoutBase

LEMMA DotPath ==
  ASSUME NEW F, IsFile(F), NEW w \in Seq(Segments), Len(w) = 1, w[1] = "."
  PROVE  /\ Triage!WithoutBase(w \o F) = w \o F
         /\ Triage!WithoutDot(w \o F) = F
<1>1. Len(BaseDir) = 3
  BY DEF BaseDir
<1>2. PICK path : path = w \o F
  OBVIOUS
<1>3. /\ path \in Seq(Segments) /\ Len(path) = Len(w) + 2 /\ \A i \in 1..Len(w) : path[i] = w[i]
      /\ SubSeq(path, Len(w) + 1, Len(path)) = F
  BY <1>2, WorkspacePath
<1>4. Len(path) = 3 /\ path[1] = "." /\ SubSeq(path, 2, Len(path)) = F
  BY <1>3
<1>5. path # <<>> /\ Head(path) = "." /\ Tail(path) = SubSeq(path, 2, Len(path))
  <2>1. path # <<>>
    BY <1>4
  <2>2. path \in Seq(Segments)
    BY <1>3
  <2>3. Head(path) = path[1]
    OBVIOUS
  <2>4. Tail(path) = SubSeq(path, 2, Len(path))
    BY ONLY <2>1, <2>2, TailIsSubSeq
  <2> QED
    BY <1>4, <2>1, <2>3, <2>4
<1>6. ~(Len(path) > Len(BaseDir))
  BY <1>1, <1>4
<1> QED
  BY <1>2, <1>4, <1>5, <1>6 DEF Triage!WithoutBase, Triage!WithoutDot

LEMMA FileStays ==
  ASSUME NEW F, IsFile(F)
  PROVE  Triage!WithoutBase(F) = F /\ Triage!WithoutDot(F) = F /\ Triage!WithoutClone(F) = F
<1>1. F \in Seq(Segments) /\ Len(F) = 2 /\ F[1] = "src"
  BY DEF IsFile
<1>2. Len(BaseDir) = 3
  BY DEF BaseDir
<1>3. ~(Len(F) > Len(BaseDir))
  BY <1>1, <1>2
<1>4. Head(F) = "src"
  BY <1>1
<1>5. Len(F) \in Nat /\ \A i \in 2..(Len(F) - 1) : F[i] \notin Clones \cup {"vm-scanner-workspaces"}
  BY <1>1
<1>6. Triage!WithoutClone(F) = F
  BY <1>5, PlainPath
<1> QED
  BY <1>3, <1>4, <1>6 DEF Triage!WithoutBase, Triage!WithoutDot

\* Below the base directory or a dot.
Uncloned(w) == \A i \in 1..Len(w) : w[i] \notin Clones \cup {"vm-scanner-workspaces"}

LEMMA UnclonedPath ==
  ASSUME NEW w \in Seq(Segments), Uncloned(w), NEW F, IsFile(F)
  PROVE  Triage!WithoutClone(w \o F) = w \o F
<1>1. PICK path : path = w \o F
  OBVIOUS
<1>2. /\ Len(w) \in Nat /\ Len(path) = Len(w) + 2 /\ \A i \in 1..Len(w) : path[i] = w[i]
      /\ path[Len(w) + 1] = "src"
  BY <1>1, WorkspacePath
<1>3. Len(path) \in Nat /\ \A i \in 2..(Len(path) - 1) : i \in 1..Len(w) \/ i = Len(w) + 1
  BY <1>2
<1>4. \A i \in 1..Len(w) : path[i] \notin Clones \cup {"vm-scanner-workspaces"}
  BY <1>2 DEF Uncloned
<1>5. path[Len(w) + 1] \notin Clones \cup {"vm-scanner-workspaces"}
  BY <1>2 DEF Clones
<1>6. \A i \in 2..(Len(path) - 1) : path[i] \notin Clones \cup {"vm-scanner-workspaces"}
  BY <1>3, <1>4, <1>5
<1>7. Triage!WithoutClone(path) = path
  BY <1>3, <1>6, PlainPath
<1> QED
  BY <1>1, <1>7

\* From whatever workspace, the name of the file is the same.
LEMMA FileFound ==
  ASSUME NEW tool, NEW w \in Triage!Workspaces(tool)
  PROVE  Triage!NormalizedPath(tool, w \o Triage!File) = Triage!File
<1>1. PICK F : F = Triage!File /\ IsFile(F)
  BY FileIs
<1>2. Triage!NormalizedPath(tool, F) = F
  BY <1>1, FileStays DEF Triage!NormalizedPath
<1>3. CASE w = <<"/", "tmp", "vm-scan-1">> \/ w = <<"/", "tmp", "vm-scan-2">>
  <2>1. w \in Seq(Segments) /\ Len(w) = 3 /\ w[2] = "tmp" /\ w[3] \in Clones
    <3>1. CASE w = <<"/", "tmp", "vm-scan-1">>
      BY <3>1 DEF Segments, Clones
    <3>2. CASE w = <<"/", "tmp", "vm-scan-2">>
      BY <3>2 DEF Segments, Clones
    <3> QED
      BY <1>3, <3>1, <3>2
  <2>2. Triage!WithoutClone(w \o F) = F
    BY <1>1, <2>1, ScriptPath
  <2> QED
    BY <1>1, <2>2, FileStays DEF Triage!NormalizedPath
<1>4. CASE w = <<"/", "tmp", "vm-scanner-workspaces", "1">>
  <2>1. /\ w \in Seq(Segments) /\ Len(w) = 4 /\ w[2] = "tmp" /\ w[3] = "vm-scanner-workspaces"
        /\ w[4] = "1"
    BY <1>4 DEF Segments
  <2>2. Triage!WithoutClone(w \o F) = F
    BY <1>1, <2>1, RunnerPath
  <2> QED
    BY <1>1, <2>2, FileStays DEF Triage!NormalizedPath
<1>5. CASE w = <<>>
  <2>1. w \o F = F
    BY <1>1, <1>5 DEF IsFile
  <2> QED
    BY <1>1, <1>2, <2>1
<1>6. CASE tool # "request" /\ (w = BaseDir \/ w = <<".">>)
  <2>1. w \in Seq(Segments) /\ Uncloned(w)
    <3>1. CASE w = BaseDir
      <4>1. BaseDir \in Seq(Segments) /\ Len(BaseDir) = 3
        BY DEF BaseDir, Segments
      <4>2. \A i \in 1..3 : BaseDir[i] \notin Clones \cup {"vm-scanner-workspaces"}
        BY DEF BaseDir, Clones
      <4> QED
        BY <3>1, <4>1, <4>2 DEF Uncloned
    <3>2. CASE w = <<".">>
      BY <3>2 DEF Segments, Uncloned, Clones
    <3> QED
      BY <1>6, <3>1, <3>2
  <2>2. Triage!WithoutClone(w \o F) = w \o F
    BY <1>1, <2>1, UnclonedPath
  <2>3. Triage!WithoutDot(Triage!WithoutBase(w \o F)) = F
    <3>1. CASE w = BaseDir
      BY <1>1, <3>1, BasePath, FileStays
    <3>2. CASE w = <<".">>
      <4>1. w \in Seq(Segments) /\ Len(w) = 1 /\ w[1] = "."
        BY <3>2 DEF Segments
      <4> QED
        BY <1>1, <4>1, DotPath
    <3> QED
      BY <1>6, <3>1, <3>2
  <2> QED
    BY <1>1, <1>6, <2>2, <2>3 DEF Triage!NormalizedPath
<1> QED
  BY <1>3, <1>4, <1>5, <1>6 DEF Triage!Workspaces

-----------------------------------------------------------------------------
(* The ranking of findings.  Worse facts do not lower a rank.              *)

Severities == {"critical", "high", "medium", "low", "info"}
Points(f) == Triage!SeverityScore[Triage!Severity(f)]

LEMMA PlainKinds == \A word : Triage!Plain(word) \in Severities
BY DEF Triage!Plain, Severities

LEMMA SeverityKinds == \A f : Triage!Severity(f) \in Severities
<1> SUFFICES ASSUME NEW f PROVE Triage!Severity(f) \in Severities
  OBVIOUS
<1>1. \A word : Triage!SemgrepSeverity(word) \in Severities
  BY PlainKinds DEF Triage!SemgrepSeverity, Severities
<1>2. \A cvss, word : Triage!OsvSeverity(cvss, word) \in Severities
  BY PlainKinds DEF Triage!OsvSeverity, Triage!ByScore, Severities
<1>3. \A texts : Triage!FirstWord(texts) \in Severities
  BY DEF Triage!FirstWord, Severities
<1>4. \A word : Triage!NmapSeverity(word) \in Severities
  BY DEF Triage!NmapSeverity, Severities
<1>5. \A word : Triage!SecureNowSeverity(word) \in Severities
  <2> SUFFICES ASSUME NEW word PROVE Triage!SecureNowSeverity(word) \in Severities
    OBVIOUS
  <2>1. CASE word = "info"
    BY <2>1 DEF Triage!SecureNowSeverity, Severities
  <2>2. CASE word # "info"
    BY <2>2, PlainKinds DEF Triage!SecureNowSeverity, Severities
  <2> QED
    BY <2>1, <2>2
<1>6. "critical" \in Severities
  BY DEF Severities
<1> QED
  BY PlainKinds, <1>1, <1>2, <1>3, <1>4, <1>5, <1>6 DEF Triage!Severity

LEMMA PointsOf ==
  ASSUME NEW f
  PROVE  /\ Points(f) \in {5, 15, 30, 55, 80}
         /\ Triage!Severity(f) = "critical" <=> Points(f) = 80
         /\ Triage!Severity(f) = "high" <=> Points(f) = 55
BY SeverityKinds DEF Points, Triage!SeverityScore, Severities

\* What comes after what.
LEMMA AfterInTuple ==
  ASSUME NEW s, NEW x, NEW y \in Triage!After(s, x)
  PROVE  \E i \in 1..(Len(s) - 1) : s[i] = x /\ s[i + 1] = y
BY DEF Triage!After

LEMMA CommonSteps ==
  ASSUME NEW s, s = <<"info", "low", "moderate", "high", "critical">>, NEW x, NEW y \in Triage!After(s, x)
  PROVE  \/ x = "info" /\ y = "low"
         \/ x = "low" /\ y = "moderate"
         \/ x = "moderate" /\ y = "high"
         \/ x = "high" /\ y = "critical"
<1>1. Len(s) = 5
  OBVIOUS
<1>2. PICK i \in 1..(Len(s) - 1) : s[i] = x /\ s[i + 1] = y
  BY ONLY AfterInTuple, y \in Triage!After(s, x)
<1>3. i = 1 \/ i = 2 \/ i = 3 \/ i = 4
  BY <1>1, <1>2
<1> QED
  BY <1>2, <1>3

LEMMA SemgrepSteps ==
  ASSUME NEW s, s = <<"info", "low", "warning", "medium", "error", "high", "critical">>, NEW x, NEW y \in Triage!After(s, x)
  PROVE  \/ x = "info" /\ y = "low"
         \/ x = "low" /\ y = "warning"
         \/ x = "warning" /\ y = "medium"
         \/ x = "medium" /\ y = "error"
         \/ x = "error" /\ y = "high"
         \/ x = "high" /\ y = "critical"
<1>1. Len(s) = 7
  OBVIOUS
<1>2. PICK i \in 1..(Len(s) - 1) : s[i] = x /\ s[i + 1] = y
  BY ONLY AfterInTuple, y \in Triage!After(s, x)
<1>3. i = 1 \/ i = 2 \/ i = 3 \/ i = 4 \/ i = 5 \/ i = 6
  BY <1>1, <1>2
<1> QED
  BY <1>2, <1>3

LEMMA TrivySteps ==
  ASSUME NEW s, s = <<"unknown", "negligible", "low", "medium", "high", "critical">>, NEW x, NEW y \in Triage!After(s, x)
  PROVE  \/ x = "unknown" /\ y = "negligible"
         \/ x = "negligible" /\ y = "low"
         \/ x = "low" /\ y = "medium"
         \/ x = "medium" /\ y = "high"
         \/ x = "high" /\ y = "critical"
<1>1. Len(s) = 6
  OBVIOUS
<1>2. PICK i \in 1..(Len(s) - 1) : s[i] = x /\ s[i + 1] = y
  BY ONLY AfterInTuple, y \in Triage!After(s, x)
<1>3. i = 1 \/ i = 2 \/ i = 3 \/ i = 4 \/ i = 5
  BY <1>1, <1>2
<1> QED
  BY <1>2, <1>3

LEMMA ZapSteps ==
  ASSUME NEW s, s = <<"informational", "low", "medium", "high">>, NEW x, NEW y \in Triage!After(s, x)
  PROVE  \/ x = "informational" /\ y = "low"
         \/ x = "low" /\ y = "medium"
         \/ x = "medium" /\ y = "high"
<1>1. Len(s) = 4
  OBVIOUS
<1>2. PICK i \in 1..(Len(s) - 1) : s[i] = x /\ s[i + 1] = y
  BY ONLY AfterInTuple, y \in Triage!After(s, x)
<1>3. i = 1 \/ i = 2 \/ i = 3
  BY <1>1, <1>2
<1> QED
  BY <1>2, <1>3

LEMMA NmapSteps ==
  ASSUME NEW s, s = <<"other", "admin", "risky">>, NEW x, NEW y \in Triage!After(s, x)
  PROVE  \/ x = "other" /\ y = "admin"
         \/ x = "admin" /\ y = "risky"
<1>1. Len(s) = 3
  OBVIOUS
<1>2. PICK i \in 1..(Len(s) - 1) : s[i] = x /\ s[i + 1] = y
  BY ONLY AfterInTuple, y \in Triage!After(s, x)
<1>3. i = 1 \/ i = 2
  BY <1>1, <1>2
<1> QED
  BY <1>2, <1>3

LEMMA RankSteps ==
  ASSUME NEW s, s = <<"low", "high", "critical">>, NEW x, NEW y \in Triage!After(s, x)
  PROVE  \/ x = "low" /\ y = "high"
         \/ x = "high" /\ y = "critical"
<1>1. Len(s) = 3
  OBVIOUS
<1>2. PICK i \in 1..(Len(s) - 1) : s[i] = x /\ s[i + 1] = y
  BY ONLY AfterInTuple, y \in Triage!After(s, x)
<1>3. i = 1 \/ i = 2
  BY <1>1, <1>2
<1> QED
  BY <1>2, <1>3

\* What a flaw is, as far as its rank depends on it.
AllWords == {"info", "low", "moderate", "high", "critical", "warning", "medium", "error", "unknown",
             "negligible", "informational", "other", "admin", "risky", "none"}
FlawStates == [tool : Triage!Tools, word : AllWords, type : {"secret", "dependency", "other"},
               exploit : BOOLEAN, known : BOOLEAN, cvss : Nat, confidence : {"low", "medium", "high", "none"}]
FlawOK(f) == f \in FlawStates /\ (f.tool \in {"zap", "nmap"} => f.word # "critical")

LEMMA WordsOf ==
  ASSUME NEW tool, NEW x \in Triage!Range(Triage!Words(tool))
  PROVE  x \in AllWords /\ (tool \in {"zap", "nmap"} => x # "critical")
<1>1. PICK s : s = Triage!Words(tool)
  OBVIOUS
<1>2. PICK i \in DOMAIN s : x = s[i]
  BY <1>1 DEF Triage!Range
<1>3. CASE tool = "semgrep"
  BY <1>1, <1>2, <1>3 DEF Triage!Words, AllWords
<1>4. CASE tool = "trivy"
  BY <1>1, <1>2, <1>4 DEF Triage!Words, AllWords
<1>5. CASE tool = "zap"
  BY <1>1, <1>2, <1>5 DEF Triage!Words, AllWords
<1>6. CASE tool = "nmap"
  BY <1>1, <1>2, <1>6 DEF Triage!Words, AllWords
<1>7. CASE tool = "gitleaks"
  BY <1>1, <1>2, <1>7 DEF Triage!Words, Triage!None, AllWords
<1>8. CASE tool \notin {"semgrep", "trivy", "zap", "nmap", "gitleaks"}
  <2>1. s = Triage!Common
    BY <1>1, <1>8 DEF Triage!Words
  <2> QED
    BY <1>2, <1>8, <2>1 DEF Triage!Common, AllWords
<1> QED
  BY <1>3, <1>4, <1>5, <1>6, <1>7, <1>8

LEMMA FlawsOK == \A f \in Triage!Flaws : FlawOK(f)
<1> SUFFICES ASSUME NEW f \in Triage!Flaws PROVE FlawOK(f)
  OBVIOUS
<1>1. PICK t \in Triage!Tools :
        f \in [tool : {t}, word : Triage!Range(Triage!Words(t)), type : Triage!Types(t),
               exploit : Triage!Flags(t), known : Triage!Flags(t),
               cvss : IF t = "osv" THEN {0} \cup {1, 39, 40, 69, 70, 89, 90, 100} ELSE {0},
               confidence : IF t = "zap" THEN {"low", "medium", "high"} ELSE {Triage!None}]
  BY DEF Triage!Flaws
<1>2. Triage!Types(t) \subseteq {"secret", "dependency", "other"} /\ Triage!Flags(t) \subseteq BOOLEAN
  BY DEF Triage!Types, Triage!Flags
<1>3. (IF t = "osv" THEN {0} \cup {1, 39, 40, 69, 70, 89, 90, 100} ELSE {0}) \subseteq Nat
  OBVIOUS
<1>4. (IF t = "zap" THEN {"low", "medium", "high"} ELSE {Triage!None}) \subseteq {"low", "medium", "high", "none"}
  BY DEF Triage!None
<1>5. f.word \in AllWords /\ (t \in {"zap", "nmap"} => f.word # "critical")
  BY <1>1, WordsOf
<1>6. f \in FlawStates /\ f.tool = t
  BY <1>1, <1>2, <1>3, <1>4, <1>5 DEF FlawStates
<1> QED
  BY <1>5, <1>6 DEF FlawOK

\* The next word of a tool is no less severe.
PointsFor(severity) == Triage!SeverityScore[severity]

LEMMA PointsAre ==
  /\ PointsFor("critical") = 80 /\ PointsFor("high") = 55 /\ PointsFor("medium") = 30
  /\ PointsFor("low") = 15 /\ PointsFor("info") = 5
BY DEF PointsFor, Triage!SeverityScore

LEMMA PlainWorse ==
  ASSUME NEW x, NEW y,
         \/ x = "info" /\ y = "low"
         \/ x = "low" /\ y \in {"moderate", "medium"}
         \/ x \in {"moderate", "medium"} /\ y = "high"
         \/ x = "high" /\ y = "critical"
         \/ x = "unknown" /\ y = "negligible"
         \/ x = "negligible" /\ y = "low"
  PROVE  PointsFor(Triage!Plain(x)) <= PointsFor(Triage!Plain(y))
BY PointsAre DEF Triage!Plain

LEMMA WordWorse ==
  ASSUME NEW f, FlawOK(f), f.cvss = 0, NEW x \in Triage!After(Triage!Words(f.tool), f.word),
         NEW g, g = [f EXCEPT !.word = x]
  PROVE  FlawOK(g) /\ Points(f) <= Points(g)
<1>1. /\ f \in FlawStates /\ g.tool = f.tool /\ g.word = x /\ g.cvss = 0 /\ g.confidence = f.confidence
      /\ (x \in AllWords => g \in FlawStates)
  BY DEF FlawOK, FlawStates
<1>2. PICK s : s = Triage!Words(f.tool) /\ x \in Triage!After(s, f.word)
  OBVIOUS
<1>3. PICK a, b : a = f.word /\ b = x
  OBVIOUS
<1>4. CASE f.tool = "semgrep"
  <2>1. \/ a = "info" /\ b = "low"
        \/ a = "low" /\ b = "warning"
        \/ a = "warning" /\ b = "medium"
        \/ a = "medium" /\ b = "error"
        \/ a = "error" /\ b = "high"
        \/ a = "high" /\ b = "critical"
    BY <1>2, <1>3, <1>4, SemgrepSteps DEF Triage!Words
  <2>2. PointsFor(Triage!SemgrepSeverity(a)) <= PointsFor(Triage!SemgrepSeverity(b))
    BY <2>1, PointsAre DEF Triage!SemgrepSeverity, Triage!Plain
  <2>3. b \in AllWords
    BY <2>1 DEF AllWords
  <2> QED
    BY <1>1, <1>3, <1>4, <2>2, <2>3 DEF Points, PointsFor, Triage!Severity, FlawOK
<1>5. CASE f.tool = "trivy"
  <2>1. \/ a = "unknown" /\ b = "negligible"
        \/ a = "negligible" /\ b = "low"
        \/ a = "low" /\ b = "medium"
        \/ a = "medium" /\ b = "high"
        \/ a = "high" /\ b = "critical"
    BY <1>2, <1>3, <1>5, TrivySteps DEF Triage!Words
  <2>2. PointsFor(Triage!Plain(a)) <= PointsFor(Triage!Plain(b))
    BY <2>1, PlainWorse
  <2>3. b \in AllWords
    BY <2>1 DEF AllWords
  <2> QED
    BY <1>1, <1>3, <1>5, <2>2, <2>3 DEF Points, PointsFor, Triage!Severity, FlawOK
<1>6. CASE f.tool = "zap"
  <2>1. \/ a = "informational" /\ b = "low"
        \/ a = "low" /\ b = "medium"
        \/ a = "medium" /\ b = "high"
    BY <1>2, <1>3, <1>6, ZapSteps DEF Triage!Words
  <2>2. PICK c : c = f.confidence
    OBVIOUS
  <2>3. PointsFor(Triage!FirstWord({a, c})) <= PointsFor(Triage!FirstWord({b, c}))
    <3>1. ASSUME NEW v
          PROVE  /\ v = "high" \/ c = "high" => Triage!FirstWord({v, c}) = "high"
                 /\ ~(v = "high" \/ c = "high") /\ (v = "medium" \/ c = "medium") =>
                      Triage!FirstWord({v, c}) = "medium"
                 /\ v \in {"low", "informational"} /\ c \notin {"high", "medium"} =>
                      Triage!FirstWord({v, c}) \in {"low", "info"}
                 /\ v = "low" /\ c \notin {"high", "medium"} => Triage!FirstWord({v, c}) = "low"
      <4>1. PICK t : t = {v, c}
        OBVIOUS
      <4>2. \A w : w \in t <=> w = v \/ w = c
        BY <4>1
      <4>3. "high" \in t => Triage!FirstWord(t) = "high"
        BY DEF Triage!FirstWord
      <4>4. "high" \notin t /\ "medium" \in t => Triage!FirstWord(t) = "medium"
        BY DEF Triage!FirstWord
      <4>5. "high" \notin t /\ "medium" \notin t /\ "low" \in t => Triage!FirstWord(t) = "low"
        BY DEF Triage!FirstWord
      <4>6. "high" \notin t /\ "medium" \notin t /\ "low" \notin t => Triage!FirstWord(t) = "info"
        BY DEF Triage!FirstWord
      <4> QED
        BY <4>1, <4>2, <4>3, <4>4, <4>5, <4>6
    <3>2. CASE c = "high"
      BY <3>1, <3>2, PointsAre
    <3>3. CASE c = "medium"
      BY <2>1, <3>1, <3>3, PointsAre
    <3>4. CASE c \notin {"high", "medium"}
      BY <2>1, <3>1, <3>4, PointsAre
    <3> QED
      BY <3>2, <3>3, <3>4
  <2>4. b \in AllWords /\ b # "critical"
    BY <2>1 DEF AllWords
  <2> QED
    BY <1>1, <1>3, <1>6, <2>2, <2>3, <2>4 DEF Points, PointsFor, Triage!Severity, FlawOK
<1>7. CASE f.tool = "nmap"
  <2>1. \/ a = "other" /\ b = "admin"
        \/ a = "admin" /\ b = "risky"
    BY <1>2, <1>3, <1>7, NmapSteps DEF Triage!Words
  <2>2. PointsFor(Triage!NmapSeverity(a)) <= PointsFor(Triage!NmapSeverity(b))
    BY <2>1, PointsAre DEF Triage!NmapSeverity
  <2>3. b \in AllWords /\ b # "critical"
    BY <2>1 DEF AllWords
  <2> QED
    BY <1>1, <1>3, <1>7, <2>2, <2>3 DEF Points, PointsFor, Triage!Severity, FlawOK
<1>8. CASE f.tool = "gitleaks"
  <2>1. PICK i \in 1..(Len(s) - 1) : s[i] = a /\ s[i + 1] = b
    BY <1>2, <1>3, AfterInTuple
  <2>2. Len(s) = 1
    BY <1>2, <1>8 DEF Triage!Words
  <2> QED
    BY <2>1, <2>2
<1>9. CASE f.tool \notin {"semgrep", "trivy", "zap", "nmap", "gitleaks"}
  <2>1. s = Triage!Common
    BY <1>2, <1>9 DEF Triage!Words
  <2>2. \/ a = "info" /\ b = "low"
        \/ a = "low" /\ b = "moderate"
        \/ a = "moderate" /\ b = "high"
        \/ a = "high" /\ b = "critical"
    BY <1>2, <1>3, <2>1, CommonSteps DEF Triage!Common
  <2>3. PointsFor(Triage!Plain(a)) <= PointsFor(Triage!Plain(b))
    BY <2>2, PlainWorse
  <2>4. b \in AllWords
    BY <2>2 DEF AllWords
  <2>5. CASE f.tool = "securenow"
    <3>1. \A w : w \in Triage!Range(Triage!Common) <=> w \in {"info", "low", "moderate", "high", "critical"}
      BY DEF Triage!Range, Triage!Common
    <3>2. Triage!SecureNowSeverity(a) = Triage!Plain(a) /\ Triage!SecureNowSeverity(b) = Triage!Plain(b)
      BY <2>2, <3>1 DEF Triage!SecureNowSeverity, Triage!Plain
    <3> QED
      BY <1>1, <1>3, <2>3, <2>4, <2>5, <3>2 DEF Points, PointsFor, Triage!Severity, FlawOK
  <2>6. CASE f.tool = "osv"
    <3>1. Triage!OsvSeverity(0, a) = Triage!Plain(a) /\ Triage!OsvSeverity(0, b) = Triage!Plain(b)
      BY DEF Triage!OsvSeverity
    <3> QED
      BY <1>1, <1>3, <2>3, <2>4, <2>6, <3>1 DEF Points, PointsFor, Triage!Severity, FlawOK
  <2>7. CASE f.tool \notin {"securenow", "osv"}
    BY <1>1, <1>3, <1>9, <2>3, <2>4, <2>7 DEF Points, PointsFor, Triage!Severity, FlawOK
  <2> QED
    BY <2>5, <2>6, <2>7
<1> QED
  BY <1>4, <1>5, <1>6, <1>7, <1>8, <1>9

\* A higher score of a report is no less severe.
LEMMA ScoreWorse ==
  ASSUME NEW f, FlawOK(f), f.cvss > 0, NEW n \in Nat, n > f.cvss, NEW g, g = [f EXCEPT !.cvss = n]
  PROVE  FlawOK(g) /\ Points(f) <= Points(g)
<1>1. /\ f \in FlawStates /\ g \in FlawStates /\ g.tool = f.tool /\ g.word = f.word /\ g.cvss = n
      /\ g.confidence = f.confidence /\ f.cvss \in Nat
  BY DEF FlawOK, FlawStates
<1>2. CASE f.tool = "osv"
  <2>1. PICK m \in Nat : m = f.cvss
    BY <1>1
  <2>2. \A w : Triage!OsvSeverity(m, w) = Triage!ByScore(m) /\ Triage!OsvSeverity(n, w) = Triage!ByScore(n)
    BY <2>1 DEF Triage!OsvSeverity
  <2>3. PointsFor(Triage!ByScore(m)) <= PointsFor(Triage!ByScore(n))
    BY <2>1, PointsAre DEF Triage!ByScore
  <2> QED
    BY <1>1, <1>2, <2>1, <2>2, <2>3 DEF Points, PointsFor, Triage!Severity, FlawOK
<1>3. CASE f.tool # "osv"
  <2>1. Triage!Severity(g) = Triage!Severity(f)
    BY <1>1, <1>3 DEF Triage!Severity
  <2>2. Points(f) \in Nat
    BY PointsOf
  <2> QED
    BY <1>1, <2>1, <2>2 DEF Points, FlawOK
<1> QED
  BY <1>2, <1>3

\* The parts of a rank.
Secrecy(f) == IF Triage!FindingType(f) = "secret" THEN 35 ELSE 0
Exposure(p) == IF p.asset.exposed THEN 15 ELSE 0
Context(p) == Triage!ContextScore(p.repo) + Triage!ContextScore(p.asset.rank) + Triage!ContextScore(p.asset.impact)
Sum(f, p) == Points(f) + Secrecy(f) + Triage!ExploitScore(f) + Exposure(p) + Context(p)

LEMMA ContextNat == \A rank : Triage!ContextScore(rank) \in Nat
BY DEF Triage!ContextScore

LEMMA SumIs ==
  ASSUME NEW f, NEW p
  PROVE  /\ Triage!SumOfFactors(f, p) = Sum(f, p) /\ Sum(f, p) \in Nat
         /\ Points(f) \in Nat /\ Secrecy(f) \in Nat /\ Triage!ExploitScore(f) \in Nat
         /\ Exposure(p) \in Nat /\ Context(p) \in Nat
<1>1. Points(f) \in Nat
  BY PointsOf
<1>2. Secrecy(f) \in Nat
  BY DEF Secrecy
<1>3. Triage!ExploitScore(f) \in Nat
  BY DEF Triage!ExploitScore
<1>4. Exposure(p) \in Nat
  BY DEF Exposure
<1>5. Context(p) \in Nat
  BY ContextNat DEF Context
<1>6. Sum(f, p) \in Nat
  BY <1>1, <1>2, <1>3, <1>4, <1>5 DEF Sum
<1>7. Triage!SumOfFactors(f, p) =
        Points(f) + Secrecy(f) + Triage!ExploitScore(f) + Exposure(p)
          + Triage!ContextScore(p.repo) + Triage!ContextScore(p.asset.rank) + Triage!ContextScore(p.asset.impact)
  BY DEF Triage!SumOfFactors, Points, Secrecy, Exposure
<1> QED
  BY <1>1, <1>2, <1>3, <1>4, <1>5, <1>6, <1>7, ContextNat DEF Sum, Context

\* The score and the priority of a sum, and what more of it brings.
Bounded(n) == IF n < 100 THEN n ELSE 100
Score(n, first) == IF first THEN (IF Bounded(n) < 80 THEN 80 ELSE Bounded(n)) ELSE Bounded(n)

LEMMA LesserOf == \A n \in Nat : Triage!Min({100, n}) = Bounded(n)
BY DEF Triage!Min, Bounded

LEMMA GreaterOf == \A n \in Nat : Triage!Max({n, 80}) = IF n < 80 THEN 80 ELSE n
BY DEF Triage!Max

LEMMA RiskIs ==
  ASSUME NEW f, NEW p
  PROVE  /\ Triage!AssessRisk(f, p).score = Score(Sum(f, p), Triage!Escalated(f, p))
         /\ Triage!AssessRisk(f, p).priority =
              Triage!PriorityFromScore(Score(Sum(f, p), Triage!Escalated(f, p)))
         /\ Score(Sum(f, p), Triage!Escalated(f, p)) \in 0..100
         /\ Triage!Escalated(f, p) => Triage!AssessRisk(f, p).priority = 1
<1>1. PICK n \in Nat : n = Sum(f, p)
  BY SumIs
<1>2. Triage!Min({100, Triage!SumOfFactors(f, p)}) = Bounded(n) /\ Bounded(n) \in 0..100
  BY <1>1, SumIs, LesserOf DEF Bounded
<1>3. Triage!Max({Bounded(n), 80}) = IF Bounded(n) < 80 THEN 80 ELSE Bounded(n)
  BY <1>2, GreaterOf
<1>4. CASE Triage!Escalated(f, p)
  <2>1. Triage!AssessRisk(f, p) = [priority |-> 1, score |-> Triage!Max({Bounded(n), 80})]
    BY <1>2, <1>4 DEF Triage!AssessRisk
  <2>2. Score(n, Triage!Escalated(f, p)) = IF Bounded(n) < 80 THEN 80 ELSE Bounded(n)
    BY <1>4 DEF Score
  <2>3. Triage!PriorityFromScore(IF Bounded(n) < 80 THEN 80 ELSE Bounded(n)) = 1
    BY <1>2 DEF Triage!PriorityFromScore
  <2> QED
    BY <1>1, <1>2, <1>3, <2>1, <2>2, <2>3
<1>5. CASE ~Triage!Escalated(f, p)
  <2>1. Triage!AssessRisk(f, p) = [priority |-> Triage!PriorityFromScore(Bounded(n)), score |-> Bounded(n)]
    BY <1>2, <1>5 DEF Triage!AssessRisk
  <2>2. Score(n, Triage!Escalated(f, p)) = Bounded(n)
    BY <1>5 DEF Score
  <2> QED
    BY <1>1, <1>2, <1>5, <2>1, <2>2
<1> QED
  BY <1>4, <1>5

LEMMA DueLater ==
  ASSUME NEW a \in 1..4, NEW b \in 1..4, a <= b
  PROVE  Triage!DueDays(a) <= Triage!DueDays(b)
<1>1. Triage!DueDays(1) = 7 /\ Triage!DueDays(2) = 15 /\ Triage!DueDays(3) = 30 /\ Triage!DueDays(4) = 60
  BY DEF Triage!DueDays
<1>2. a \in {1, 2, 3, 4} /\ b \in {1, 2, 3, 4}
  OBVIOUS
<1> QED
  BY <1>1, <1>2

LEMMA RiskGrows ==
  ASSUME NEW f, NEW p, NEW g, NEW q,
         Sum(f, p) <= Sum(g, q), Triage!Escalated(f, p) => Triage!Escalated(g, q)
  PROVE  /\ Triage!AssessRisk(f, p).score <= Triage!AssessRisk(g, q).score
         /\ Triage!AssessRisk(g, q).priority <= Triage!AssessRisk(f, p).priority
         /\ Triage!DueDays(Triage!AssessRisk(g, q).priority) <= Triage!DueDays(Triage!AssessRisk(f, p).priority)
<1>1. PICK n \in Nat, m \in Nat : n = Sum(f, p) /\ m = Sum(g, q) /\ n <= m
  BY SumIs
<1>2. PICK a \in 0..100, b \in 0..100 :
        a = Score(n, Triage!Escalated(f, p)) /\ b = Score(m, Triage!Escalated(g, q))
  BY <1>1, RiskIs
<1>3. a <= b
  <2>1. Bounded(n) <= Bounded(m) /\ Bounded(n) \in Nat /\ Bounded(m) \in Nat
    BY <1>1 DEF Bounded
  <2>2. CASE Triage!Escalated(f, p)
    BY <1>2, <2>1, <2>2 DEF Score
  <2>3. CASE ~Triage!Escalated(f, p)
    <3>1. a = Bounded(n)
      BY <1>2, <2>3 DEF Score
    <3>2. b = Bounded(m) \/ (b = IF Bounded(m) < 80 THEN 80 ELSE Bounded(m))
      BY <1>2 DEF Score
    <3> QED
      BY <2>1, <3>1, <3>2
  <2> QED
    BY <2>2, <2>3
<1>4. /\ Triage!PriorityFromScore(b) <= Triage!PriorityFromScore(a)
      /\ Triage!PriorityFromScore(a) \in 1..4 /\ Triage!PriorityFromScore(b) \in 1..4
  BY <1>3 DEF Triage!PriorityFromScore
<1>5. /\ Triage!AssessRisk(f, p).score = a /\ Triage!AssessRisk(g, q).score = b
      /\ Triage!AssessRisk(f, p).priority = Triage!PriorityFromScore(a)
      /\ Triage!AssessRisk(g, q).priority = Triage!PriorityFromScore(b)
  BY <1>1, <1>2, RiskIs
<1> QED
  BY <1>3, <1>4, <1>5, DueLater

\* One fact becomes worse.
Flagged(f, g) == g = [f EXCEPT !.exploit = TRUE] \/ g = [f EXCEPT !.known = TRUE]

LEMMA FlagWorse ==
  ASSUME NEW f, FlawOK(f), NEW g, Flagged(f, g)
  PROVE  /\ FlawOK(g) /\ Points(g) = Points(f) /\ g.tool = f.tool /\ g.type = f.type
         /\ Triage!ExploitScore(f) <= Triage!ExploitScore(g)
         /\ (f.known => g.known) /\ (f.exploit => g.exploit)
<1>1. f \in FlawStates
  BY DEF FlawOK
<1>2. /\ g \in FlawStates /\ g.tool = f.tool /\ g.type = f.type /\ g.word = f.word /\ g.cvss = f.cvss
      /\ g.confidence = f.confidence
  BY <1>1 DEF Flagged, FlawStates
<1>3. Points(g) = Points(f)
  BY <1>2 DEF Points, Triage!Severity
<1>4. CASE g = [f EXCEPT !.exploit = TRUE]
  <2>1. g.exploit /\ g.known = f.known
    BY <1>1, <1>4 DEF FlawStates
  <2>2. Triage!ExploitScore(f) <= Triage!ExploitScore(g)
    BY <2>1 DEF Triage!ExploitScore
  <2> QED
    BY <1>2, <1>3, <2>1, <2>2 DEF FlawOK
<1>5. CASE g = [f EXCEPT !.known = TRUE]
  <2>1. g.known /\ g.exploit = f.exploit
    BY <1>1, <1>5 DEF FlawStates
  <2>2. Triage!ExploitScore(f) <= Triage!ExploitScore(g)
    BY <2>1 DEF Triage!ExploitScore
  <2> QED
    BY <1>2, <1>3, <2>1, <2>2 DEF FlawOK
<1> QED
  BY <1>4, <1>5 DEF Flagged

LEMMA ReportGrows ==
  ASSUME NEW f, FlawOK(f), NEW g, NEW p,
         \/ f.cvss = 0 /\ \E x \in Triage!After(Triage!Words(f.tool), f.word) : g = [f EXCEPT !.word = x]
         \/ f.cvss > 0 /\ \E n \in Nat : n > f.cvss /\ g = [f EXCEPT !.cvss = n]
         \/ Flagged(f, g)
  PROVE  /\ FlawOK(g) /\ g.tool = f.tool /\ g.type = f.type
         /\ Sum(f, p) <= Sum(g, p) /\ (Triage!Escalated(f, p) => Triage!Escalated(g, p))
<1>1. f \in FlawStates
  BY DEF FlawOK
<1>2. /\ FlawOK(g) /\ g.tool = f.tool /\ g.type = f.type /\ Points(f) <= Points(g)
      /\ Triage!ExploitScore(f) <= Triage!ExploitScore(g)
      /\ (f.known => g.known) /\ (f.exploit => g.exploit)
  <2>1. CASE f.cvss = 0 /\ \E x \in Triage!After(Triage!Words(f.tool), f.word) : g = [f EXCEPT !.word = x]
    <3>1. g.tool = f.tool /\ g.type = f.type /\ g.known = f.known /\ g.exploit = f.exploit
      BY <1>1, <2>1 DEF FlawStates
    <3>2. FlawOK(g) /\ Points(f) <= Points(g)
      BY <2>1, WordWorse
    <3>3. Triage!ExploitScore(f) = Triage!ExploitScore(g)
      BY <3>1 DEF Triage!ExploitScore
    <3> QED
      BY <3>1, <3>2, <3>3, SumIs
  <2>2. CASE f.cvss > 0 /\ \E n \in Nat : n > f.cvss /\ g = [f EXCEPT !.cvss = n]
    <3>1. g.tool = f.tool /\ g.type = f.type /\ g.known = f.known /\ g.exploit = f.exploit
      BY <1>1, <2>2 DEF FlawStates
    <3>2. FlawOK(g) /\ Points(f) <= Points(g)
      BY <2>2, ScoreWorse
    <3>3. Triage!ExploitScore(f) = Triage!ExploitScore(g)
      BY <3>1 DEF Triage!ExploitScore
    <3> QED
      BY <3>1, <3>2, <3>3, SumIs
  <2>3. CASE Flagged(f, g)
    BY <2>3, FlagWorse, SumIs
  <2> QED
    BY <2>1, <2>2, <2>3
<1>3. Triage!FindingType(g) = Triage!FindingType(f) /\ Secrecy(g) = Secrecy(f)
  BY <1>2 DEF Triage!FindingType, Secrecy
<1>4. Sum(f, p) <= Sum(g, p)
  BY <1>2, <1>3, SumIs DEF Sum
<1>5. Triage!Severity(f) = "critical" => Triage!Severity(g) = "critical"
  BY <1>2, PointsOf
<1>6. Triage!Severity(f) = "high" => Triage!Severity(g) = "high" \/ Triage!Severity(g) = "critical"
  BY <1>2, PointsOf
<1>7. Triage!Escalated(f, p) => Triage!Escalated(g, p)
  BY <1>2, <1>3, <1>5, <1>6 DEF Triage!Escalated
<1> QED
  BY <1>2, <1>4, <1>7

Rankings == {"low", "high", "critical", "none"}
PlaceOK(p) == p \in [repo : Rankings, asset : [rank : Rankings, impact : Rankings, exposed : BOOLEAN]]

LEMMA PlacesOK == \A p \in Triage!Places : PlaceOK(p)
<1>1. \A x \in Triage!Range(<<"low", "high", "critical">>) : x \in Rankings /\ x # "none"
  BY DEF Triage!Range, Rankings
<1>2. "none" \in Rankings /\ FALSE \in BOOLEAN
  BY DEF Rankings
<1>3. PICK R : R = Triage!Range(<<"low", "high", "critical">>)
  OBVIOUS
<1>4. Triage!Places = [repo : R \cup {"none"},
                       asset : {Triage!NoAsset} \cup [rank : R, impact : R, exposed : BOOLEAN]]
  BY <1>3 DEF Triage!Places, Triage!None
<1>5. ASSUME NEW p \in Triage!Places
      PROVE  PlaceOK(p)
  <2>1. p = [repo |-> p.repo, asset |-> p.asset] /\ p.repo \in Rankings
    BY <1>1, <1>2, <1>3, <1>4, <1>5
  <2>2. p.asset \in [rank : Rankings, impact : Rankings, exposed : BOOLEAN]
    <3>1. Triage!NoAsset \in [rank : Rankings, impact : Rankings, exposed : BOOLEAN]
      BY <1>2 DEF Triage!NoAsset, Triage!None
    <3>2. \A a \in [rank : R, impact : R, exposed : BOOLEAN] :
             a \in [rank : Rankings, impact : Rankings, exposed : BOOLEAN]
      BY <1>1, <1>3
    <3> QED
      BY <1>4, <1>5, <3>1, <3>2
  <2> QED
    BY <2>1, <2>2 DEF PlaceOK
<1> QED
  BY <1>5

LEMMA ContextGrows ==
  ASSUME NEW x, NEW y \in Triage!After(<<"low", "high", "critical">>, x)
  PROVE  /\ Triage!ContextScore(x) <= Triage!ContextScore(y) /\ x # "critical" /\ x # "none" /\ y # "none"
         /\ y \in Rankings
<1>1. PICK s : s = <<"low", "high", "critical">> /\ y \in Triage!After(s, x)
  OBVIOUS
<1>2. \/ x = "low" /\ y = "high"
      \/ x = "high" /\ y = "critical"
  BY <1>1, RankSteps
<1>3. Triage!ContextScore("low") = 2 /\ Triage!ContextScore("high") = 12 /\ Triage!ContextScore("critical") = 20
  BY DEF Triage!ContextScore
<1> QED
  BY <1>2, <1>3 DEF Rankings

\* The asset or the repository counts for more.
Raised(p, q) ==
    \/ \E x \in Triage!After(<<"low", "high", "critical">>, p.repo) : q = [p EXCEPT !.repo = x]
    \/ \E x \in Triage!After(<<"low", "high", "critical">>, p.asset.rank) : q = [p EXCEPT !.asset.rank = x]
    \/ \E x \in Triage!After(<<"low", "high", "critical">>, p.asset.impact) : q = [p EXCEPT !.asset.impact = x]
    \/ p.asset # Triage!NoAsset /\ q = [p EXCEPT !.asset.exposed = TRUE]

LEMMA RaisedParts ==
  ASSUME NEW p, PlaceOK(p), NEW q, Raised(p, q)
  PROVE  /\ PlaceOK(q) /\ Context(p) <= Context(q)
         /\ (p.asset.exposed => q.asset.exposed)
         /\ (p.repo = "critical" => q.repo = "critical")
         /\ (p.asset.rank = "critical" => q.asset.rank = "critical")
         /\ (p.asset.impact = "critical" => q.asset.impact = "critical")
         /\ (p.repo = "none" <=> q.repo = "none")
         /\ (p.asset = Triage!NoAsset <=> q.asset = Triage!NoAsset)
<1>1. PICK a : a = p.asset
  OBVIOUS
<1>2. /\ p = [repo |-> p.repo, asset |-> a] /\ p.repo \in Rankings
      /\ a \in [rank : Rankings, impact : Rankings, exposed : BOOLEAN]
  BY <1>1 DEF PlaceOK
<1>3. a = [rank |-> a.rank, impact |-> a.impact, exposed |-> a.exposed]
  BY <1>2
<1>4. /\ Triage!ContextScore(p.repo) \in Nat /\ Triage!ContextScore(a.rank) \in Nat
      /\ Triage!ContextScore(a.impact) \in Nat
  BY ContextNat
<1>5. CASE \E x \in Triage!After(<<"low", "high", "critical">>, p.repo) : q = [p EXCEPT !.repo = x]
  <2>1. PICK x \in Triage!After(<<"low", "high", "critical">>, p.repo) : q = [p EXCEPT !.repo = x]
    BY <1>5
  <2>2. q = [repo |-> x, asset |-> a]
    BY <1>2, <2>1
  <2>3. /\ Triage!ContextScore(p.repo) <= Triage!ContextScore(x) /\ p.repo # "critical" /\ p.repo # "none"
        /\ x # "none" /\ x \in Rankings /\ Triage!ContextScore(x) \in Nat
    BY ContextGrows, ContextNat
  <2>4. q.repo = x /\ q.asset = a
    BY <2>2
  <2>5. Context(p) <= Context(q)
    BY <1>1, <1>4, <2>3, <2>4 DEF Context
  <2>6. PlaceOK(q)
    BY <1>2, <2>2, <2>3 DEF PlaceOK
  <2> QED
    BY <1>1, <2>3, <2>4, <2>5, <2>6
<1>6. CASE \E x \in Triage!After(<<"low", "high", "critical">>, p.asset.rank) : q = [p EXCEPT !.asset.rank = x]
  <2>1. PICK x \in Triage!After(<<"low", "high", "critical">>, a.rank) : q = [p EXCEPT !.asset.rank = x]
    BY <1>1, <1>6
  <2>2. PICK b : b = [rank |-> x, impact |-> a.impact, exposed |-> a.exposed]
    OBVIOUS
  <2>3. q = [repo |-> p.repo, asset |-> b]
    BY <1>1, <1>2, <1>3, <2>1, <2>2
  <2>4. /\ Triage!ContextScore(a.rank) <= Triage!ContextScore(x) /\ a.rank # "critical" /\ a.rank # "none"
        /\ x # "none" /\ x \in Rankings /\ Triage!ContextScore(x) \in Nat
    BY ContextGrows, ContextNat
  <2>5. q.repo = p.repo /\ q.asset = b /\ b.rank = x /\ b.impact = a.impact /\ b.exposed = a.exposed
    BY <2>2, <2>3
  <2>6. Context(p) <= Context(q)
    BY <1>1, <1>4, <2>4, <2>5 DEF Context
  <2>7. PlaceOK(q)
    <3>1. b \in [rank : Rankings, impact : Rankings, exposed : BOOLEAN]
      BY <1>2, <2>2, <2>4
    <3> QED
      BY <1>2, <2>3, <3>1 DEF PlaceOK
  <2>8. a # Triage!NoAsset /\ b # Triage!NoAsset
    BY <2>4, <2>5 DEF Triage!NoAsset, Triage!None
  <2> QED
    BY <1>1, <2>4, <2>5, <2>6, <2>7, <2>8
<1>7. CASE \E x \in Triage!After(<<"low", "high", "critical">>, p.asset.impact) : q = [p EXCEPT !.asset.impact = x]
  <2>1. PICK x \in Triage!After(<<"low", "high", "critical">>, a.impact) : q = [p EXCEPT !.asset.impact = x]
    BY <1>1, <1>7
  <2>2. PICK b : b = [rank |-> a.rank, impact |-> x, exposed |-> a.exposed]
    OBVIOUS
  <2>3. q = [repo |-> p.repo, asset |-> b]
    BY <1>1, <1>2, <1>3, <2>1, <2>2
  <2>4. /\ Triage!ContextScore(a.impact) <= Triage!ContextScore(x) /\ a.impact # "critical" /\ a.impact # "none"
        /\ x # "none" /\ x \in Rankings /\ Triage!ContextScore(x) \in Nat
    BY ContextGrows, ContextNat
  <2>5. q.repo = p.repo /\ q.asset = b /\ b.rank = a.rank /\ b.impact = x /\ b.exposed = a.exposed
    BY <2>2, <2>3
  <2>6. Context(p) <= Context(q)
    BY <1>1, <1>4, <2>4, <2>5 DEF Context
  <2>7. PlaceOK(q)
    <3>1. b \in [rank : Rankings, impact : Rankings, exposed : BOOLEAN]
      BY <1>2, <2>2, <2>4
    <3> QED
      BY <1>2, <2>3, <3>1 DEF PlaceOK
  <2>8. a # Triage!NoAsset /\ b # Triage!NoAsset
    BY <2>4, <2>5 DEF Triage!NoAsset, Triage!None
  <2> QED
    BY <1>1, <2>4, <2>5, <2>6, <2>7, <2>8
<1>8. CASE p.asset # Triage!NoAsset /\ q = [p EXCEPT !.asset.exposed = TRUE]
  <2>1. PICK b : b = [rank |-> a.rank, impact |-> a.impact, exposed |-> TRUE]
    OBVIOUS
  <2>2. q = [repo |-> p.repo, asset |-> b]
    BY <1>1, <1>2, <1>3, <1>8, <2>1
  <2>3. q.repo = p.repo /\ q.asset = b /\ b.rank = a.rank /\ b.impact = a.impact /\ b.exposed
    BY <2>1, <2>2
  <2>4. Context(p) <= Context(q)
    BY <1>1, <1>4, <2>3 DEF Context
  <2>5. PlaceOK(q)
    <3>1. b \in [rank : Rankings, impact : Rankings, exposed : BOOLEAN]
      BY <1>2, <2>1
    <3> QED
      BY <1>2, <2>2, <3>1 DEF PlaceOK
  <2>6. b # Triage!NoAsset
    BY <2>1 DEF Triage!NoAsset
  <2> QED
    BY <1>1, <1>8, <2>3, <2>4, <2>5, <2>6
<1> QED
  BY <1>5, <1>6, <1>7, <1>8 DEF Raised

LEMMA PlaceGrows ==
  ASSUME NEW f, NEW p, PlaceOK(p), NEW q, Raised(p, q)
  PROVE  /\ Sum(f, p) <= Sum(f, q) /\ (Triage!Escalated(f, p) => Triage!Escalated(f, q))
<1>1. Exposure(p) <= Exposure(q)
  BY RaisedParts DEF Exposure
<1>2. Sum(f, p) <= Sum(f, q)
  BY <1>1, RaisedParts, SumIs DEF Sum
<1>3. "critical" \in {p.repo, p.asset.rank, p.asset.impact} =>
        "critical" \in {q.repo, q.asset.rank, q.asset.impact}
  BY RaisedParts
<1>4. p.asset.exposed => q.asset.exposed
  BY RaisedParts
<1>5. Triage!Escalated(f, p) => Triage!Escalated(f, q)
  BY <1>3, <1>4 DEF Triage!Escalated
<1> QED
  BY <1>2, <1>5

-----------------------------------------------------------------------------
(* The ranking of findings.  The invariant.                                *)

ScopeOf(f, p) ==
    IF p.asset # Triage!NoAsset /\ (f.tool # "request" \/ p.repo = "none") THEN "asset"
    ELSE IF p.repo # "none" THEN "repository" ELSE "none"
KeyOf(f, p) ==
    [source |-> IF f.tool = "request" THEN "upload" ELSE f.tool, scope |-> ScopeOf(f, p),
     type |-> Triage!FindingType(f), path |-> Triage!File]

\* What a scan writes for the flaw f at the place p.
RowOf(f, p) ==
    [key |-> KeyOf(f, p), priority |-> Triage!AssessRisk(f, p).priority, score |-> Triage!AssessRisk(f, p).score,
     days |-> Triage!DueDays(Triage!AssessRisk(f, p).priority)]

\* The flaw of the row old is the one of the row new, and not less urgent there.
FoundAgain(old, new) ==
    /\ new.key = old.key
    /\ new.score >= old.score /\ new.priority <= old.priority /\ new.days <= old.days

TriageInv ==
    /\ FlawOK(flaw) /\ PlaceOK(place)
    /\ row # Triage!NoRow =>
         /\ FoundAgain(row, RowOf(flaw, place))
         /\ ~worse => row = RowOf(flaw, place)
         /\ row.priority = Triage!PriorityFromScore(row.score) /\ row.score \in 0..100
    /\ before # Triage!NoRow => FoundAgain(before, row)

LEMMA TriageInit ==
  ASSUME Triage!Init
  PROVE  TriageInv
BY FlawsOK, PlacesOK DEF Triage!Init, TriageInv

LEMMA RowFields ==
  ASSUME NEW f, NEW p
  PROVE  /\ RowOf(f, p).key = KeyOf(f, p)
         /\ RowOf(f, p).priority = Triage!AssessRisk(f, p).priority
         /\ RowOf(f, p).score = Triage!AssessRisk(f, p).score
         /\ RowOf(f, p).days = Triage!DueDays(Triage!AssessRisk(f, p).priority)
         /\ RowOf(f, p).priority = Triage!PriorityFromScore(RowOf(f, p).score)
         /\ RowOf(f, p).score \in 0..100
         /\ FoundAgain(RowOf(f, p), RowOf(f, p))
<1>1. /\ RowOf(f, p).key = KeyOf(f, p)
      /\ RowOf(f, p).priority = Triage!AssessRisk(f, p).priority
      /\ RowOf(f, p).score = Triage!AssessRisk(f, p).score
      /\ RowOf(f, p).days = Triage!DueDays(Triage!AssessRisk(f, p).priority)
  BY DEF RowOf
<1>2. /\ RowOf(f, p).priority = Triage!PriorityFromScore(RowOf(f, p).score)
      /\ RowOf(f, p).score \in 0..100
  BY <1>1, RiskIs
<1>3. PICK n \in 0..100 : n = RowOf(f, p).score
  BY <1>2
<1>4. Triage!PriorityFromScore(n) \in 1..4
  BY DEF Triage!PriorityFromScore
<1>5. PICK k \in 1..4 : k = RowOf(f, p).priority
  BY <1>2, <1>3, <1>4
<1>6. Triage!DueDays(k) <= Triage!DueDays(k)
  BY DueLater
<1> QED
  BY <1>1, <1>2, <1>3, <1>5, <1>6 DEF FoundAgain

LEMMA SaveStep ==
  ASSUME TriageInv, Triage!Save
  PROVE  TriageInv'
<1>1. PICK w \in Triage!Workspaces(flaw.tool) :
        /\ row' = [key |-> Triage!Key(w \o Triage!File), priority |-> Triage!AssessRisk(flaw, place).priority,
                    score |-> Triage!AssessRisk(flaw, place).score,
                    days |-> Triage!DueDays(Triage!AssessRisk(flaw, place).priority)]
        /\ before' = row /\ worse' = FALSE /\ flaw' = flaw /\ place' = place
  BY DEF Triage!Save
<1>2. Triage!Key(w \o Triage!File) = KeyOf(flaw, place)
  <2>1. Triage!NormalizedPath(flaw.tool, w \o Triage!File) = Triage!File
    BY FileFound
  <2>2. Triage!Scope(flaw.tool) = ScopeOf(flaw, place)
    BY DEF Triage!Scope, ScopeOf, Triage!None
  <2> QED
    BY <2>1, <2>2 DEF Triage!Key, KeyOf
<1>3. row' = RowOf(flaw, place)
  BY <1>1, <1>2 DEF RowOf
<1>4. PICK r : r = RowOf(flaw, place)
  OBVIOUS
<1>5. r.priority = Triage!PriorityFromScore(r.score) /\ r.score \in 0..100 /\ FoundAgain(r, r)
  BY <1>4, RowFields
<1>6. row # Triage!NoRow => FoundAgain(row, r)
  BY <1>4 DEF TriageInv
<1>7. row' = r /\ RowOf(flaw, place)' = r /\ before' = row
  BY <1>1, <1>3, <1>4
<1>8. FlawOK(flaw)' /\ PlaceOK(place)'
  BY <1>1 DEF TriageInv
<1> QED
  BY <1>5, <1>6, <1>7, <1>8 DEF TriageInv, Triage!NoRow

\* A fact becomes worse after the last scan.
LEMMA WorseStep ==
  ASSUME TriageInv, Triage!Worsens, FlawOK(flaw'), PlaceOK(place'),
         KeyOf(flaw', place') = KeyOf(flaw, place),
         Sum(flaw, place) <= Sum(flaw', place'),
         Triage!Escalated(flaw, place) => Triage!Escalated(flaw', place')
  PROVE  TriageInv'
<1>1. row # Triage!NoRow /\ row = RowOf(flaw, place) /\ row' = row /\ before' = before /\ worse' = TRUE
  BY DEF Triage!Worsens, TriageInv
<1>2. PICK r, n : r = RowOf(flaw, place) /\ n = RowOf(flaw', place')
  OBVIOUS
<1>3. FoundAgain(r, n)
  BY <1>2, RowFields, RiskGrows DEF FoundAgain
<1>4. r.priority = Triage!PriorityFromScore(r.score) /\ r.score \in 0..100
  BY <1>2, RowFields
<1>5. row' = r /\ RowOf(flaw, place)' = n /\ worse' = TRUE
  BY <1>1, <1>2
<1>6. (row # Triage!NoRow =>
         /\ FoundAgain(row, RowOf(flaw, place))
         /\ ~worse => row = RowOf(flaw, place)
         /\ row.priority = Triage!PriorityFromScore(row.score) /\ row.score \in 0..100)'
  BY <1>3, <1>4, <1>5
<1>7. (before # Triage!NoRow => FoundAgain(before, row))'
  BY <1>1 DEF TriageInv, Triage!NoRow
<1> QED
  BY <1>6, <1>7 DEF TriageInv

LEMMA TriageStep ==
  ASSUME TriageInv, [Triage!Next]_triageVars
  PROVE  TriageInv'
<1>1. CASE Triage!Save
  BY <1>1, SaveStep
<1>2. CASE Triage!ReportWorse
  <2>1. Triage!Worsens /\ place' = place
    BY <1>2 DEF Triage!ReportWorse
  <2>2. \/ flaw.cvss = 0 /\ \E x \in Triage!After(Triage!Words(flaw.tool), flaw.word) : flaw' = [flaw EXCEPT !.word = x]
        \/ flaw.cvss > 0 /\ \E n \in Nat : n > flaw.cvss /\ flaw' = [flaw EXCEPT !.cvss = n]
        \/ Flagged(flaw, flaw')
    BY <1>2 DEF Triage!ReportWorse, Flagged
  <2>3. /\ FlawOK(flaw') /\ flaw'.tool = flaw.tool /\ flaw'.type = flaw.type
        /\ Sum(flaw, place) <= Sum(flaw', place)
        /\ (Triage!Escalated(flaw, place) => Triage!Escalated(flaw', place))
    BY <2>2, ReportGrows DEF TriageInv
  <2>4. KeyOf(flaw', place) = KeyOf(flaw, place)
    BY <2>3 DEF KeyOf, ScopeOf, Triage!FindingType
  <2> QED
    BY <2>1, <2>3, <2>4, WorseStep DEF TriageInv
<1>3. CASE Triage!PlaceWorse
  <2>1. Triage!Worsens /\ flaw' = flaw
    BY <1>3 DEF Triage!PlaceWorse
  <2>2. Raised(place, place')
    BY <1>3 DEF Triage!PlaceWorse, Raised
  <2>3. /\ PlaceOK(place') /\ (place.repo = "none" <=> place'.repo = "none")
        /\ (place.asset = Triage!NoAsset <=> place'.asset = Triage!NoAsset)
    BY <2>2, RaisedParts DEF TriageInv
  <2>4. /\ Sum(flaw, place) <= Sum(flaw, place')
        /\ (Triage!Escalated(flaw, place) => Triage!Escalated(flaw, place'))
    BY <2>2, PlaceGrows DEF TriageInv
  <2>5. KeyOf(flaw, place') = KeyOf(flaw, place)
    BY <2>3 DEF KeyOf, ScopeOf
  <2> QED
    BY <2>1, <2>3, <2>4, <2>5, WorseStep DEF TriageInv
<1>4. CASE UNCHANGED triageVars
  BY <1>4 DEF triageVars, TriageInv, Triage!NoRow
<1> QED
  BY <1>1, <1>2, <1>3, <1>4 DEF Triage!Next

\* The words that make a flaw critical for every parser that has them.
LEMMA CriticalWord ==
  ASSUME NEW f, FlawOK(f), f.word = "critical", f.cvss = 0
  PROVE  Triage!Severity(f) = "critical"
<1>1. Triage!Plain("critical") = "critical"
  BY DEF Triage!Plain
<1>2. Triage!SemgrepSeverity("critical") = "critical"
  BY <1>1 DEF Triage!SemgrepSeverity
<1>3. Triage!OsvSeverity(0, "critical") = "critical"
  BY <1>1 DEF Triage!OsvSeverity
<1>4. Triage!SecureNowSeverity("critical") = "critical"
  BY <1>1 DEF Triage!SecureNowSeverity, Triage!Range, Triage!Common
<1> QED
  BY <1>1, <1>2, <1>3, <1>4 DEF Triage!Severity, FlawOK

LEMMA TriageGood ==
  ASSUME TriageInv
  PROVE  Triage!RescanAgrees /\ Triage!UrgentIsFirst
<1>1. Triage!RescanAgrees
  BY DEF TriageInv, FoundAgain, Triage!RescanAgrees
<1>2. ASSUME row # Triage!NoRow, ~worse,
             Triage!FindingType(flaw) = "secret" \/ flaw.known \/ (flaw.word = "critical" /\ flaw.cvss = 0)
      PROVE  row.priority = 1
  <2>1. Triage!Escalated(flaw, place)
    BY <1>2, CriticalWord DEF TriageInv, Triage!Escalated
  <2>2. row = RowOf(flaw, place)
    BY <1>2 DEF TriageInv
  <2> QED
    BY <2>1, <2>2, RowFields, RiskIs
<1>3. Triage!UrgentIsFirst
  BY <1>2 DEF TriageInv, Triage!UrgentIsFirst
<1> QED
  BY <1>1, <1>3

-----------------------------------------------------------------------------
(* The three together.                                                     *)

\* However requests overlap: the fields of a scan target agree with each other
\* and with its type, a repository's provider with its address; and a flaw
\* keeps its name, its rank only rises with worse facts, and what is urgent is
\* first.
THEOREM RecordsAreConsistent == Spec => []RecordsAgree
<1> DEFINE Inv == RepositoriesInv /\ TargetsInv /\ TriageInv
<1>1. Init => Inv
  BY RepositoriesInit, TargetsInit, TriageInit DEF Init
<1>2. Inv /\ [Next]_vars => Inv'
  BY PartSteps, RepositoriesStep, TargetsStep, TriageStep
<1>3. Inv => RecordsAgree
  BY RepositoriesGood, TargetsGood, TriageGood DEF RecordsAgree
<1> HIDE DEF Inv
<1> QED
  BY <1>1, <1>2, <1>3, PTL DEF Spec
=============================================================================
