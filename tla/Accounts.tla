------------------------------ MODULE Accounts ------------------------------
(* The documents of the people who may sign in, and the calls that create  *)
(* and change them: registration, creation by an administrator and by the  *)
(* tenant portal, login, refresh and logout, passwords, codes and second   *)
(* factors.  A call reads and writes the database one query at a time, and *)
(* the calls of two people interleave.  Some queries find a document by    *)
(* its _id, most by user_id, which no index keeps unique.                  *)
EXTENDS Naturals, Sequences, FiniteSets

CONSTANTS
    People,        \* their e-mail addresses
    Callers,       \* calls that can be under way at once
    Imported,      \* sequence of the people with a document from the old system
    PortalTenants, \* people who become the administrator of a new tenant
    MaxCalls,      \* bound: calls made
    MaxUsers,      \* bound: documents
    MaxTokens,     \* bound: pairs of tokens issued
    MaxCodes       \* bound: codes sent

VARIABLES
    users,         \* the collection users, in the order of insertion
    counter,       \* seq of the collection counters
    tenants,       \* tenants created, each named after its administrator
    frameworks,    \* how many userframeworks documents a person has
    tokens,        \* the pairs of tokens issued
    codes,         \* password_reset_otps and email_otps
    secrets,       \* totp_secrets: "none", "made" or "confirmed"
    call,          \* what each caller does, and where it is
    started,       \* how many calls were made
    minted,        \* how many passwords were made up
    told,          \* history: the last password chosen by or for each person
    proven,        \* history: what each person did to the own account
    sources,       \* history: where user ids came from
    mixed,         \* history: two creations overlapped, or two sources of ids were used
    stale,         \* history: people whose password changed during their login
    served         \* history: requests served, <<holder of the token, document>>

vars == <<users, counter, tenants, frameworks, tokens, codes, secrets, call, started, minted,
          told, proven, sources, mixed, stale, served>>

-----------------------------------------------------------------------------
Document(e, i, p, temp, roles) ==
    [email |-> e, id |-> i, pw |-> p, temp |-> temp, legacy |-> FALSE, roles |-> roles,
     changed |-> FALSE, sent |-> FALSE, verified |-> FALSE, mfa |-> FALSE, after |-> "unset"]
NoDocument == Document("none", 0, 0, 0, "none")
Idle == [op |-> "none", at |-> "none", who |-> "none", doc |-> 0, seen |-> NoDocument, pw |-> 0, n |-> 0, k |-> 0]

\* findOne: the first document that matches, 0 for none.
First(found) == IF found = {} THEN 0 ELSE CHOOSE d \in found : \A f \in found : d <= f
ByEmail(e) == First({d \in DOMAIN users : users[d].email = e})
ById(i)    == First({d \in DOMAIN users : users[d].id = i})
\* findUserFromJwtPayload: by user_id, and by e-mail when no document has it.
ByToken(t) == IF ById(tokens[t].id) # 0 THEN ById(tokens[t].id) ELSE ByEmail(tokens[t].email)

Creations == {"register", "create", "portal"}
Changes   == {"reset", "update", "first"}

Goto(c, at) == call' = [call EXCEPT ![c].at = at]
Done(c)     == call' = [call EXCEPT ![c] = Idle]
At(c, op, at) == call[c].op = op /\ call[c].at = at

Begin(c, r) ==
    /\ call[c] = Idle /\ started < MaxCalls
    /\ call' = [call EXCEPT ![c] = r]
    /\ started' = started + 1
    /\ LET others == {call[o] : o \in Callers \ {c}} IN
        /\ mixed' = (mixed \/ (r.op \in Creations /\ \E o \in others : o.op \in Creations))
        /\ stale' = IF \E o \in others : o.who = r.who /\ {o.op, r.op} \subseteq Changes \cup {"login"}
                    THEN stale \cup {r.who} ELSE stale
Now(op, at, who) == [Idle EXCEPT !.op = op, !.at = at, !.who = who]

UnchangedData == UNCHANGED <<users, counter, tenants, frameworks, tokens, codes, secrets, minted,
                             told, proven, sources, served>>
UnchangedCalls == UNCHANGED <<started, mixed, stale>>
\* A call whose one write depends on nothing that changes between its queries.
AtOnce == started < MaxCalls /\ started' = started + 1 /\ UNCHANGED <<call, mixed, stale>>
UnchangedRest  == UNCHANGED <<counter, tenants, frameworks, tokens, codes, secrets, minted, sources, served>>

-----------------------------------------------------------------------------
\* Creation of an account.

StartCreation(c, op, e) ==
    /\ op \in Creations
    /\ op = "portal" => e \in PortalTenants
    /\ Begin(c, Now(op, IF op = "portal" THEN "tenant" ELSE "look", e))
    /\ UnchangedData

\* createTenant refuses a tenant that exists, stores it and its mirror, and
\* goes on to its administrator; an error on the mirror is ignored.
StoreTenant(c) ==
    /\ At(c, "portal", "tenant")
    /\ IF call[c].who \in tenants
       THEN Done(c) /\ UNCHANGED tenants
       ELSE Goto(c, "look") /\ tenants' = tenants \cup {call[c].who}
    /\ UNCHANGED <<users, counter, frameworks, tokens, codes, secrets, minted, told, proven, sources, served>>
    /\ UnchangedCalls

LookForUser(c) ==
    /\ call[c].op \in Creations /\ call[c].at = "look"
    /\ IF ByEmail(call[c].who) # 0 THEN Done(c) ELSE Goto(c, "id")
    /\ UnchangedData /\ UnchangedCalls

\* As a mutant: the highest id itself.
NextUserIdHighest == IF users = <<>> THEN 1
                     ELSE CHOOSE i \in {users[d].id : d \in DOMAIN users} :
                              \A d \in DOMAIN users : users[d].id <= i
\* getNextUserId of the auth service: the highest id and one.
NextUserId == IF users = <<>> THEN 1
              ELSE 1 + (CHOOSE i \in {users[d].id : d \in DOMAIN users} :
                            \A d \in DOMAIN users : users[d].id <= i)

\* getNextUserId of the portal increments a counter of its own.
TakeId(c) ==
    /\ call[c].op \in Creations /\ call[c].at = "id"
    /\ LET portal == call[c].op = "portal"
           source == IF portal THEN "counter" ELSE "highest" IN
        /\ counter' = IF portal THEN counter + 1 ELSE counter
        /\ call' = [call EXCEPT ![c].at = "insert",
                                ![c].n = IF portal THEN counter + 1 ELSE NextUserId]
        /\ sources' = sources \cup {source}
        /\ mixed' = (mixed \/ sources' # {source})
    /\ UNCHANGED <<users, tenants, frameworks, tokens, codes, secrets, minted, told, proven,
                   served, started, stale>>

\* The person chooses the password of a registration; the others are made up
\* and reach the person by mail, or the answer when the mail fails.  An
\* insert that fails ends the call.
InsertUser(c) ==
    /\ call[c].op \in Creations /\ call[c].at = "insert" /\ Len(users) < MaxUsers
    /\ LET p == minted + 1
           registers == call[c].op = "register" IN
        /\ users' = Append(users, Document(call[c].who, call[c].n, p,
                                           IF registers THEN 0 ELSE p,
                                           IF registers THEN "asked" ELSE call[c].op))
        /\ minted' = p
        /\ told' = [told EXCEPT ![call[c].who] = p]
        /\ call' = [call EXCEPT ![c].at = IF call[c].op = "portal" THEN "mail" ELSE "framework",
                                ![c].doc = Len(users) + 1, ![c].seen = users'[Len(users) + 1]]
    /\ UNCHANGED <<counter, tenants, frameworks, tokens, codes, secrets, proven, sources, served>>
    /\ UnchangedCalls
InsertFails(c) ==
    /\ call[c].op \in Creations /\ call[c].at = "insert"
    /\ Done(c)
    /\ UnchangedData /\ UnchangedCalls

\* ensureUserFrameworksLikeDjango: a look, and an insert when there is none.
\* A registration has no handler for its errors; the other two ignore them.
NextAfterFrameworks(op) == CASE op = "register" -> "roles" [] op = "create" -> "mail" [] op = "login" -> "reread"
EnsureFrameworks(c) ==
    /\ call[c].at = "framework"
    /\ Goto(c, IF frameworks[call[c].seen.email] = 0 THEN "addFramework" ELSE NextAfterFrameworks(call[c].op))
    /\ UnchangedData /\ UnchangedCalls
AddFramework(c) ==
    /\ call[c].at = "addFramework"
    /\ \/ /\ frameworks' = [frameworks EXCEPT ![call[c].seen.email] = @ + 1]
          /\ Goto(c, NextAfterFrameworks(call[c].op))
       \/ /\ IF call[c].op = "register" THEN Done(c) ELSE Goto(c, NextAfterFrameworks(call[c].op))
          /\ UNCHANGED frameworks
    /\ UNCHANGED <<users, counter, tenants, tokens, codes, secrets, minted, told, proven, sources, served>>
    /\ UnchangedCalls

\* The roles worked out for the new document are written to the user_id, and
\* the document that has it is read back to sign its tokens.
WriteRoles(c) ==
    /\ At(c, "register", "roles")
    /\ LET d == ById(call[c].seen.id) IN
        /\ users' = [users EXCEPT ![d].roles = call[c].who]
        /\ call' = [call EXCEPT ![c].at = "sign"]
    /\ UNCHANGED <<told, proven>>
    /\ UnchangedRest /\ UnchangedCalls
ReadBack(c) ==
    /\ At(c, "register", "sign")
    /\ call' = [call EXCEPT ![c].at = "store", ![c].seen = users[ById(call[c].seen.id)]]
    /\ UnchangedData /\ UnchangedCalls

\* The mail with the temporary password, and credentialsSentAt when it left.
MailPassword(c) ==
    /\ call[c].op \in {"create", "portal"} /\ call[c].at = "mail"
    /\ \/ Goto(c, "sent")
       \/ Done(c)
    /\ UnchangedData /\ UnchangedCalls
MarkSent(c) ==
    /\ call[c].op \in {"create", "portal"} /\ call[c].at = "sent"
    /\ \/ users' = [users EXCEPT ![call[c].doc].sent = TRUE]
       \/ UNCHANGED users
    /\ Done(c)
    /\ UNCHANGED <<told, proven>>
    /\ UnchangedRest /\ UnchangedCalls

-----------------------------------------------------------------------------
\* Login, requests and logout.

StartLogin(c, e, p) == Begin(c, [Now("login", "find", e) EXCEPT !.pw = p]) /\ UnchangedData

\* loginLikeDjango answers 404 or 400 unless the password fits.
CheckPassword(c) ==
    /\ At(c, "login", "find")
    /\ LET d == ByEmail(call[c].who) IN
        IF d = 0 \/ users[d].pw # call[c].pw THEN Done(c)
        ELSE call' = [call EXCEPT ![c].at = IF users[d].legacy THEN "upgrade" ELSE "framework",
                                  ![c].doc = d, ![c].seen = users[d]]
    /\ UnchangedData /\ UnchangedCalls

\* A hash of the old system is replaced by one of the password that was just
\* verified, in the document with the user_id; errors are ignored.
UpgradeHash(c) ==
    /\ At(c, "login", "upgrade")
    /\ \/ users' = [users EXCEPT ![ById(call[c].seen.id)].pw = call[c].pw,
                                 ![ById(call[c].seen.id)].legacy = FALSE]
       \/ UNCHANGED users
    /\ Goto(c, "framework")
    /\ UNCHANGED <<told, proven>>
    /\ UnchangedRest /\ UnchangedCalls

Reread(c) ==
    /\ At(c, "login", "reread")
    /\ LET d == users[call[c].doc] IN
        call' = [call EXCEPT ![c].at = IF d.mfa THEN "factor" ELSE "store", ![c].seen = d]
    /\ UnchangedData /\ UnchangedCalls

\* afterLoginMfaVerified is one flag of the account, whatever its sessions.
AskFactor(c) ==
    /\ At(c, "login", "factor")
    /\ \/ users' = [users EXCEPT ![ById(call[c].seen.id)].after = "no"]
       \/ UNCHANGED users
    /\ Goto(c, "store")
    /\ UNCHANGED <<told, proven>>
    /\ UnchangedRest /\ UnchangedCalls

\* storeRefreshToken: a login hands out tokens it could not store, a
\* registration ends in an error.
StoreToken(c) ==
    /\ call[c].op \in {"register", "login"} /\ call[c].at = "store" /\ Len(tokens) < MaxTokens
    /\ \E state \in {"live", "unstored"} :
          tokens' = IF call[c].op = "register" /\ state = "unstored" THEN tokens
                    ELSE Append(tokens, [id |-> call[c].seen.id, email |-> call[c].seen.email,
                                         holder |-> call[c].who, state |-> state])
    /\ Done(c)
    /\ UNCHANGED <<users, counter, tenants, frameworks, codes, secrets, minted, told, proven, sources, served>>
    /\ UnchangedCalls

\* The middleware checks the access token and, when it has expired, asks for
\* one more with the refresh token, which must be stored and not revoked.
StartRequest(c, t) == Begin(c, [Now("request", "check", tokens[t].holder) EXCEPT !.n = t]) /\ UnchangedData
LoginCheck(c) ==
    /\ At(c, "request", "check")
    /\ LET d == ByToken(call[c].n) IN
        IF d = 0 THEN Done(c)
        ELSE call' = [call EXCEPT ![c].at = "enrich", ![c].seen = users[d]]
    /\ UnchangedData /\ UnchangedCalls
RefreshAccess(c) ==
    /\ At(c, "request", "check")
    /\ LET t == tokens[call[c].n]
           d == ByEmail(t.email) IN
        IF t.state # "live" \/ d = 0 THEN Done(c)
        ELSE call' = [call EXCEPT ![c].at = "enrich", ![c].seen = users[ById(users[d].id)]]
    /\ UnchangedData /\ UnchangedCalls

\* The roles come from the document with the e-mail address of the first.
Enrich(c) ==
    /\ At(c, "request", "enrich")
    /\ served' = served \cup {<<call[c].who, users[ByEmail(call[c].seen.email)].email>>}
    /\ Done(c)
    /\ UNCHANGED <<users, counter, tenants, frameworks, tokens, codes, secrets, minted, told, proven, sources>>
    /\ UnchangedCalls

Revoked(t) == IF t.state = "live" THEN [t EXCEPT !.state = "revoked"] ELSE t
Logout(t) ==
    /\ tokens' = [tokens EXCEPT ![t] = Revoked(@)]
    /\ UNCHANGED <<users, counter, tenants, frameworks, codes, secrets, minted, told, proven, sources, served>>
    /\ AtOnce

-----------------------------------------------------------------------------
\* Passwords.

SetPassword(d, temp) ==
    /\ users' = [users EXCEPT ![d].pw = minted + 1, ![d].temp = temp, ![d].legacy = FALSE,
                              ![d].changed = TRUE]
    /\ minted' = minted + 1

\* requestPasswordReset; the mail may fail, the code stays.
SendResetCode(e) ==
    /\ ByEmail(e) # 0 /\ Len(codes) < MaxCodes
    /\ codes' = Append(codes, [kind |-> "reset", email |-> e, open |-> TRUE])
    /\ UNCHANGED <<users, counter, tenants, frameworks, tokens, secrets, minted, told, proven, sources, served>>
    /\ AtOnce
Closed(k) == codes' = [codes EXCEPT ![k].open = FALSE]
CodeExpires(k) ==
    /\ codes[k].open /\ Closed(k)
    /\ UNCHANGED <<users, counter, tenants, frameworks, tokens, secrets, call, minted, told, proven, sources, served>>
    /\ UnchangedCalls

\* confirmPasswordReset: the document, the code, the password, the code again,
\* and the refresh tokens of the user_id.  An error on the way answers 500.
StartReset(c, e, k) == Begin(c, [Now("reset", "find", e) EXCEPT !.k = k]) /\ UnchangedData
CheckResetCode(c) ==
    /\ At(c, "reset", "find")
    /\ LET d == ByEmail(call[c].who)
           k == codes[call[c].k] IN
        IF d = 0 \/ ~k.open \/ k.kind # "reset" \/ k.email # call[c].who THEN Done(c)
        ELSE call' = [call EXCEPT ![c].at = "set", ![c].doc = d, ![c].seen = users[d]]
    /\ UnchangedData /\ UnchangedCalls
ResetPassword(c) ==
    /\ At(c, "reset", "set")
    /\ SetPassword(call[c].doc, 0)
    /\ told' = [told EXCEPT ![call[c].who] = minted + 1]
    /\ Goto(c, "use")
    /\ UNCHANGED <<counter, tenants, frameworks, tokens, codes, secrets, proven, sources, served>>
    /\ UnchangedCalls
UseResetCode(c) ==
    /\ At(c, "reset", "use")
    /\ Closed(call[c].k) /\ Goto(c, "revoke")
    /\ UNCHANGED <<users, counter, tenants, frameworks, tokens, secrets, minted, told, proven, sources, served>>
    /\ UnchangedCalls
RevokeTokens(c) ==
    /\ At(c, "reset", "revoke")
    /\ tokens' = [t \in DOMAIN tokens |->
                     IF tokens[t].id = call[c].seen.id THEN Revoked(tokens[t]) ELSE tokens[t]]
    /\ Done(c)
    /\ UNCHANGED <<users, counter, tenants, frameworks, codes, secrets, minted, told, proven, sources, served>>
    /\ UnchangedCalls
ResetFails(c) ==
    /\ call[c].op = "reset" /\ call[c].at \in {"set", "use", "revoke"}
    /\ Done(c)
    /\ UnchangedData /\ UnchangedCalls

\* updateUserTempPassword: an administrator names the account by user_id, as
\* the list of users shows it, or by e-mail.  The change is written to the
\* _id, and counts as changed by its owner; the mail about it may fail.
StartUpdate(c, d, byId) ==
    /\ Begin(c, [Now("update", "find", users[d].email) EXCEPT !.n = IF byId THEN users[d].id ELSE 0])
    /\ UnchangedData
FindForUpdate(c) ==
    /\ At(c, "update", "find")
    /\ LET d == IF call[c].n # 0 THEN ById(call[c].n) ELSE ByEmail(call[c].who) IN
        call' = [call EXCEPT ![c].at = "set", ![c].doc = d]
    /\ UnchangedData /\ UnchangedCalls
\* updatePasswordAfterFirstLogin: the document of the access token, or of an
\* e-mail address; the old password is its password, unless the hash is of
\* the old system, or its temporary one.
Accepted(u) == (IF u.legacy THEN {u.temp} ELSE {u.temp, u.pw}) \ {0}
StartFirst(c, e, t, p) == Begin(c, [Now("first", "find", e) EXCEPT !.n = t, !.pw = p]) /\ UnchangedData
FindForFirst(c) ==
    /\ At(c, "first", "find")
    /\ LET d == IF call[c].n # 0 THEN ByToken(call[c].n) ELSE ByEmail(call[c].who) IN
        IF d = 0 \/ call[c].pw \notin Accepted(users[d]) THEN Done(c)
        ELSE call' = [call EXCEPT ![c].at = "set", ![c].doc = d]
    /\ UnchangedData /\ UnchangedCalls
ChangePassword(c) ==
    /\ call[c].op \in {"update", "first"} /\ call[c].at = "set"
    /\ SetPassword(call[c].doc, IF call[c].op = "update" THEN minted + 1 ELSE 0)
    /\ told' = [told EXCEPT ![call[c].who] = minted + 1]
    /\ Done(c)
    /\ UNCHANGED <<counter, tenants, frameworks, tokens, codes, secrets, proven, sources, served>>
    /\ UnchangedCalls

-----------------------------------------------------------------------------
\* Second factors.  Every handler first finds the document of the token.

SendOtp(t) ==
    /\ ByToken(t) # 0 /\ Len(codes) < MaxCodes
    /\ codes' = Append(codes, [kind |-> "otp", email |-> users[ByToken(t)].email, open |-> TRUE])
    /\ UNCHANGED <<users, counter, tenants, frameworks, tokens, secrets, minted, told, proven, sources, served>>
    /\ AtOnce

StartOtp(c, t, k) == Begin(c, [Now("otp", "find", tokens[t].holder) EXCEPT !.n = t, !.k = k]) /\ UnchangedData
CheckOtp(c) ==
    /\ At(c, "otp", "find")
    /\ LET d == ByToken(call[c].n)
           k == codes[call[c].k] IN
        IF d = 0 \/ ~k.open \/ k.kind # "otp" \/ k.email # users[d].email THEN Done(c)
        ELSE call' = [call EXCEPT ![c].at = "use", ![c].seen = users[d]]
    /\ UnchangedData /\ UnchangedCalls
UseOtp(c) ==
    /\ At(c, "otp", "use")
    /\ Closed(call[c].k) /\ Goto(c, "mark")
    /\ UNCHANGED <<users, counter, tenants, frameworks, tokens, secrets, minted, told, proven, sources, served>>
    /\ UnchangedCalls
\* The device is confirmed, then the user_id is marked.
MarkVerified(c) ==
    /\ At(c, "otp", "mark")
    /\ LET d == ById(call[c].seen.id) IN
        users' = [users EXCEPT ![d].verified = TRUE,
                               ![d].after = IF call[c].seen.mfa THEN "yes" ELSE @]
    /\ proven' = [proven EXCEPT ![call[c].who] = @ \cup {"verified"}]
    /\ Done(c)
    /\ UNCHANGED told
    /\ UnchangedRest /\ UnchangedCalls

\* totpCreate makes a secret for a verified e-mail address without one.
CreateTotp(t) ==
    /\ ByToken(t) # 0
    /\ LET u == users[ByToken(t)] IN
        /\ u.verified /\ secrets[u.email] = "none"
        /\ secrets' = [secrets EXCEPT ![u.email] = "made"]
    /\ UNCHANGED <<users, counter, tenants, frameworks, tokens, codes, minted, told, proven, sources, served>>
    /\ AtOnce
StartTotp(c, t) == Begin(c, [Now("totp", "find", tokens[t].holder) EXCEPT !.n = t]) /\ UnchangedData
CheckTotp(c) ==
    /\ At(c, "totp", "find")
    /\ LET d == ByToken(call[c].n) IN
        IF d = 0 \/ secrets[users[d].email] = "none"
        THEN Done(c) /\ UNCHANGED secrets
        ELSE /\ call' = [call EXCEPT ![c].at = "mark", ![c].seen = users[d]]
             /\ secrets' = [secrets EXCEPT ![users[d].email] = "confirmed"]
    /\ UNCHANGED <<users, counter, tenants, frameworks, tokens, codes, minted, told, proven, sources, served>>
    /\ UnchangedCalls
EnableMfa(c) ==
    /\ At(c, "totp", "mark")
    /\ LET d == ById(call[c].seen.id) IN
        users' = [users EXCEPT ![d].mfa = TRUE, ![d].after = "yes"]
    /\ proven' = [proven EXCEPT ![call[c].who] = @ \cup {"mfa"}]
    /\ Done(c)
    /\ UNCHANGED told
    /\ UnchangedRest /\ UnchangedCalls
DisableMfa(t) ==
    /\ ByToken(t) # 0
    /\ LET d == ById(users[ByToken(t)].id) IN
        users' = [users EXCEPT ![d].mfa = FALSE, ![d].after = "unset"]
    /\ UNCHANGED <<told, proven>>
    /\ UnchangedRest /\ AtOnce

-----------------------------------------------------------------------------
IsImported(e) == \E d \in DOMAIN Imported : Imported[d] = e
Init ==
    /\ \E verified, mfa \in BOOLEAN :
          /\ mfa => verified
          /\ users = [d \in DOMAIN Imported |->
                         [Document(Imported[d], d, d, 0, Imported[d]) EXCEPT
                             !.legacy = TRUE, !.changed = TRUE, !.verified = verified, !.mfa = mfa]]
          /\ secrets = [e \in People |-> IF mfa /\ IsImported(e) THEN "confirmed" ELSE "none"]
          /\ proven = [e \in People |-> {m \in {"verified", "mfa"} : IsImported(e) /\ (IF m = "mfa" THEN mfa ELSE verified)}]
    /\ counter = 0
    /\ tenants = {}
    /\ frameworks = [e \in People |-> 0]
    /\ tokens = <<>>
    /\ codes = <<>>
    /\ call = [c \in Callers |-> Idle]
    /\ started = 0
    /\ minted = Len(Imported)
    /\ told = [e \in People |-> IF IsImported(e) THEN CHOOSE d \in DOMAIN Imported : Imported[d] = e ELSE 0]
    /\ sources = IF Imported = <<>> THEN {} ELSE {"highest"}
    /\ mixed = FALSE
    /\ stale = {}
    /\ served = {}

\* A caller who types a password types the last one chosen, or a wrong one.
Start(c) ==
    \/ \E op \in Creations, e \in People : StartCreation(c, op, e)
    \/ \E e \in People : \E p \in {told[e], 0} :
          \/ StartLogin(c, e, p)
          \/ \E t \in {0} \cup {i \in DOMAIN tokens : tokens[i].holder = e} : StartFirst(c, e, t, p)
    \/ \E e \in People, k \in DOMAIN codes : StartReset(c, e, k)
    \/ \E d \in DOMAIN users, byId \in BOOLEAN : StartUpdate(c, d, byId)
    \/ \E t \in DOMAIN tokens :
          StartRequest(c, t) \/ StartTotp(c, t) \/ \E k \in DOMAIN codes : StartOtp(c, t, k)

Step(c) ==
    \/ StoreTenant(c) \/ LookForUser(c) \/ TakeId(c) \/ InsertUser(c) \/ InsertFails(c)
    \/ EnsureFrameworks(c) \/ AddFramework(c) \/ WriteRoles(c) \/ ReadBack(c)
    \/ MailPassword(c) \/ MarkSent(c)
    \/ CheckPassword(c) \/ UpgradeHash(c) \/ Reread(c) \/ AskFactor(c) \/ StoreToken(c)
    \/ LoginCheck(c) \/ RefreshAccess(c) \/ Enrich(c)
    \/ CheckResetCode(c) \/ ResetPassword(c) \/ UseResetCode(c) \/ RevokeTokens(c) \/ ResetFails(c)
    \/ FindForUpdate(c) \/ FindForFirst(c) \/ ChangePassword(c)
    \/ CheckOtp(c) \/ UseOtp(c) \/ MarkVerified(c) \/ CheckTotp(c) \/ EnableMfa(c)

OneStep ==
    \/ \E e \in People : SendResetCode(e)
    \/ \E k \in DOMAIN codes : CodeExpires(k)
    \/ \E t \in DOMAIN tokens : Logout(t) \/ SendOtp(t) \/ CreateTotp(t) \/ DisableMfa(t)

Next == (\E c \in Callers : Start(c) \/ Step(c)) \/ OneStep

Spec == Init /\ [][Next]_vars

-----------------------------------------------------------------------------
\* Many queries find an account by user_id, and the ids are handed out by a
\* read and a later insert, and by a counter nothing else looks at.  As long
\* as creations do not overlap and one source hands out the ids, no account
\* takes what belongs to another, however the other calls interleave: nobody
\* shares an id or an address; a password is the last one chosen by or for
\* its owner, unless it changed while its owner was logging in; roles are those of the own
\* registration; tokens and requests stay with their person; the marks of a
\* second factor are there because the owner passed it.
Distinct == \A d, f \in DOMAIN users : d # f => users[d].email # users[f].email /\ users[d].id # users[f].id
PasswordLast == \A d \in DOMAIN users : users[d].email \in stale \/ users[d].pw = told[users[d].email]
RolesOwn == \A d \in DOMAIN users : users[d].roles \in {users[d].email, "asked", "create", "portal"}
TokensOwn == /\ \A t \in DOMAIN tokens : tokens[t].email = tokens[t].holder
             /\ \A s \in served : s[1] = s[2]
MarksOwn == \A d \in DOMAIN users :
               /\ users[d].verified => "verified" \in proven[users[d].email]
               /\ users[d].mfa => "mfa" \in proven[users[d].email]
AccountsApart == mixed \/ (Distinct /\ PasswordLast /\ RolesOwn /\ TokensOwn /\ MarksOwn)
=============================================================================
