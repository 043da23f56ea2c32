-------------------------- MODULE Accounts_proofs --------------------------
(***************************************************************************)
(* Nobody takes what belongs to another person, for any number of people,  *)
(* calls, documents and tokens, as long as creations do not overlap.       *)
(***************************************************************************)
EXTENDS MCRecords, SequenceTheorems, TLAPS

USE RecordsAssumption

-----------------------------------------------------------------------------
(* The invariant, as long as creations do not overlap.                     *)

Roles == People \cup {"asked", "create", "portal"}
Marks == {"verified", "mfa"}
DocStates ==
    [email : People \cup {"none"}, id : Nat, pw : Nat, temp : Nat, legacy : BOOLEAN,
     roles : Roles \cup {"none"}, changed : BOOLEAN, sent : BOOLEAN, verified : BOOLEAN,
     mfa : BOOLEAN, after : {"unset", "no", "yes"}]
TokenStates == [id : Nat, email : People, holder : People, state : {"live", "unstored", "revoked"}]
CodeStates == [kind : {"reset", "otp"}, email : People, open : BOOLEAN]
Ops == {"none", "register", "create", "portal", "reset", "update", "first", "login", "request", "otp", "totp"}
Places == {"none", "tenant", "look", "id", "insert", "framework", "addFramework", "roles", "sign", "store",
           "mail", "sent", "find", "upgrade", "reread", "factor", "check", "enrich", "set", "use", "revoke", "mark"}
CallStates ==
    [op : Ops, at : Places, who : People \cup {"none"}, doc : Nat, seen : DocStates, pw : Nat, n : Nat, k : Nat]

\* The document d is the one of the person e, and the token t was issued to e.
DocOf(U, d, e) == d \in DOMAIN U /\ U[d].email = e
TokenOf(T, t, e) == t \in DOMAIN T /\ T[t].holder = e

\* The documents are numbered in their order, one for a person.
UsersOK(U) ==
    /\ U \in Seq(DocStates)
    /\ \A d \in DOMAIN U : U[d].id = d /\ U[d].email \in People /\ U[d].roles \in {U[d].email, "asked", "create", "portal"}
    /\ \A d, f \in DOMAIN U : U[d].email = U[f].email => d = f
PasswordsOK(U, P, S) == \A d \in DOMAIN U : U[d].email \in S \/ U[d].pw = P[U[d].email]
MarksOK(U, V) ==
    \A d \in DOMAIN U : /\ U[d].verified => "verified" \in V[U[d].email]
                        /\ U[d].mfa => "mfa" \in V[U[d].email]
TokensOK(U, T) ==
    /\ T \in Seq(TokenStates)
    /\ \A t \in DOMAIN T : T[t].email = T[t].holder /\ DocOf(U, T[t].id, T[t].holder)
ServedOK(W) == \A s \in W : s[1] = s[2]

\* Where a call has found its document, and where it goes by what it has read of it.
AtDoc  == {"framework", "addFramework", "roles", "sign", "store", "mail", "sent", "upgrade", "reread",
           "factor", "set"}
AtSeen == (AtDoc \ {"set"}) \cup {"enrich", "mark"}

CallOK(k, U, T, P, S) ==
    /\ k \in CallStates
    /\ k.op # "none" => k.who \in People
    /\ k.at \in {"id", "insert"} => \A d \in DOMAIN U : U[d].email # k.who
    /\ k.at = "insert" => k.n = Len(U) + 1
    /\ k.at \in {"tenant", "look", "id", "insert"} => k.op \in Users!Creations
    /\ k.at \in {"framework", "addFramework"} => k.op \in {"register", "create", "login"}
    /\ k.at \in AtDoc => DocOf(U, k.doc, k.who)
    /\ k.at \in AtSeen \/ (k.at = "use" /\ k.op = "otp") => DocOf(U, k.seen.id, k.who) /\ k.seen.email = k.who
    /\ k.at = "upgrade" => k.op = "login" /\ (k.who \in S \/ k.pw = P[k.who])
    /\ k.op \in {"request", "otp", "totp"} => TokenOf(T, k.n, k.who)
    /\ k.op = "first" => k.n = 0 \/ TokenOf(T, k.n, k.who)
    /\ k.op = "update" /\ k.at = "find" =>
          /\ \E d \in DOMAIN U : U[d].email = k.who
          /\ k.n # 0 => DocOf(U, k.n, k.who)

Passwords == Users!Changes \cup {"login"}
PairOK(k, l, S) ==
    /\ ~(k.op \in Users!Creations /\ l.op \in Users!Creations)
    /\ k.who = l.who /\ k.op \in Passwords /\ l.op \in Passwords => k.who \in S

Data ==
    /\ UsersOK(users) /\ PasswordsOK(users, told, stale) /\ MarksOK(users, proven)
    /\ TokensOK(users, tokens) /\ ServedOK(served)
    /\ told \in [People -> Nat] /\ proven \in [People -> SUBSET Marks] /\ minted \in Nat
    /\ codes \in Seq(CodeStates) /\ sources = {"highest"}

Calls ==
    /\ call \in [Callers -> CallStates]
    /\ \A c \in Callers : CallOK(call[c], users, tokens, told, stale)
    /\ \A c, o \in Callers : c # o => PairOK(call[c], call[o], stale)

Apart == Data /\ Calls

AccountsInv == mixed \in BOOLEAN /\ (mixed \/ Apart)

-----------------------------------------------------------------------------
(* Queries.                                                                *)

LEMMA FirstOfOne == \A d \in Nat : Users!First({d}) = d
BY DEF Users!First

LEMMA FirstOfNone == Users!First({}) = 0
BY DEF Users!First

LEMMA FindById ==
  ASSUME UsersOK(users), NEW i
  PROVE  /\ i \in DOMAIN users => Users!ById(i) = i
         /\ i \notin DOMAIN users => Users!ById(i) = 0
<1>1. DOMAIN users \subseteq Nat
  BY LenProperties DEF UsersOK
<1>2. i \in DOMAIN users => {d \in DOMAIN users : users[d].id = i} = {i}
  BY DEF UsersOK
<1>3. i \notin DOMAIN users => {d \in DOMAIN users : users[d].id = i} = {}
  BY DEF UsersOK
<1> QED
  BY <1>1, <1>2, <1>3, FirstOfOne, FirstOfNone DEF Users!ById

LEMMA FindByEmail ==
  ASSUME UsersOK(users), NEW e
  PROVE  /\ \A d : DocOf(users, d, e) => Users!ByEmail(e) = d
         /\ Users!ByEmail(e) # 0 => DocOf(users, Users!ByEmail(e), e)
         /\ Users!ByEmail(e) = 0 => \A d \in DOMAIN users : users[d].email # e
<1>1. DOMAIN users \subseteq Nat /\ 0 \notin DOMAIN users
  BY LenProperties DEF UsersOK
<1>2. ASSUME NEW d, DocOf(users, d, e)
      PROVE  Users!ByEmail(e) = d
  <2>1. {f \in DOMAIN users : users[f].email = e} = {d}
    BY <1>2 DEF DocOf, UsersOK
  <2> QED
    BY <1>1, <1>2, <2>1, FirstOfOne DEF Users!ByEmail, DocOf
<1>3. ASSUME \A d \in DOMAIN users : users[d].email # e
      PROVE  Users!ByEmail(e) = 0
  <2>1. {f \in DOMAIN users : users[f].email = e} = {}
    BY <1>3
  <2> QED
    BY <2>1, FirstOfNone DEF Users!ByEmail
<1>4. Users!ByEmail(e) # 0 => DocOf(users, Users!ByEmail(e), e)
  BY <1>2, <1>3 DEF DocOf
<1>5. ASSUME NEW d \in DOMAIN users, users[d].email = e
      PROVE  Users!ByEmail(e) # 0
  BY <1>1, <1>2, <1>5 DEF DocOf
<1> QED
  BY <1>2, <1>4, <1>5

LEMMA FindByToken ==
  ASSUME UsersOK(users), TokensOK(users, tokens), NEW t, NEW e, TokenOf(tokens, t, e)
  PROVE  DocOf(users, Users!ByToken(t), e) /\ Users!ByToken(t) = tokens[t].id
<1>1. DocOf(users, tokens[t].id, e)
  BY DEF TokensOK, TokenOf
<1>2. 0 \notin DOMAIN users
  BY LenProperties DEF UsersOK
<1>3. Users!ById(tokens[t].id) = tokens[t].id /\ tokens[t].id # 0
  BY <1>1, <1>2, FindById DEF DocOf
<1> QED
  BY <1>1, <1>3 DEF Users!ByToken

LEMMA NextIdIs ==
  ASSUME UsersOK(users)
  PROVE  Users!NextUserId = Len(users) + 1
<1>1. Len(users) \in Nat /\ DOMAIN users = 1..Len(users)
  BY LenProperties DEF UsersOK
<1>2. CASE users = <<>>
  BY <1>2 DEF Users!NextUserId
<1>3. CASE users # <<>>
  <2>1. Len(users) \in DOMAIN users
    <3>1. Len(users) # 0
      BY <1>3, EmptySeq DEF UsersOK
    <3> QED
      BY <1>1, <3>1
  <2>2. \A i : i \in {users[d].id : d \in DOMAIN users} <=> i \in 1..Len(users)
    BY <1>1 DEF UsersOK
  <2>3. \A i : (\A d \in DOMAIN users : users[d].id <= i) <=> (\A d \in 1..Len(users) : d <= i)
    BY <1>1 DEF UsersOK
  <2>4. \A i \in 1..Len(users) : (\A d \in DOMAIN users : users[d].id <= i) <=> i = Len(users)
    <3>1. PICK n \in Nat : n = Len(users)
      BY <1>1
    <3>2. \A i \in 1..n : (\A d \in 1..n : d <= i) => n <= i
      BY <3>1
    <3>3. \A i \in 1..n : (\A d \in 1..n : d <= i) <=> i = n
      BY <3>1, <3>2
    <3> QED
      BY <1>1, <2>3, <3>1, <3>3
  <2>5. (CHOOSE i \in {users[d].id : d \in DOMAIN users} : \A d \in DOMAIN users : users[d].id <= i)
          = Len(users)
    BY <1>1, <2>1, <2>2, <2>4
  <2>6. Users!NextUserId = 1 + (CHOOSE i \in {users[d].id : d \in DOMAIN users} :
                                   \A d \in DOMAIN users : users[d].id <= i)
    BY ONLY <1>3 DEF Users!NextUserId
  <2>7. Users!NextUserId = 1 + Len(users)
    BY ONLY <2>5, <2>6
  <2> QED
    BY <1>1, <2>7
<1> QED
  BY <1>2, <1>3

-----------------------------------------------------------------------------
(* What a step leaves as it was.                                           *)

Extends(U, V) == \A d \in DOMAIN U : d \in DOMAIN V /\ V[d].email = U[d].email
Continues(T, W) == \A t \in DOMAIN T : t \in DOMAIN W /\ W[t].holder = T[t].holder

\* A call that another one interrupts: its document keeps its owner, and it
\* looks for none that was inserted meanwhile.
LEMMA CallFrame ==
  ASSUME NEW k, NEW U, NEW V, NEW T, NEW W, NEW P, NEW Q, NEW S, NEW R,
         CallOK(k, U, T, P, S), Extends(U, V), Continues(T, W), S \subseteq R,
         (DOMAIN V = DOMAIN U /\ Len(V) = Len(U)) \/ k.op \notin Users!Creations,
         k.at = "upgrade" => k.who \in R \/ Q[k.who] = P[k.who]
  PROVE  CallOK(k, V, W, Q, R)
<1>1. \A d : DocOf(U, d, k.who) => DocOf(V, d, k.who)
  BY DEF DocOf, Extends
<1>2. TokenOf(T, k.n, k.who) => TokenOf(W, k.n, k.who)
  BY DEF TokenOf, Continues
<1>3. k.at \in {"id", "insert"} => \A d \in DOMAIN V : V[d].email # k.who
  BY DEF CallOK, Extends
<1>4. k.at = "insert" => k.n = Len(V) + 1
  BY DEF CallOK
<1>5. k.at = "upgrade" => k.op = "login" /\ (k.who \in R \/ k.pw = Q[k.who])
  BY DEF CallOK
<1>6. k.op = "update" /\ k.at = "find" => \E d \in DOMAIN V : V[d].email = k.who
  BY DEF CallOK, Extends
<1> QED
  BY <1>1, <1>2, <1>3, <1>4, <1>5, <1>6 DEF CallOK

LEMMA StepKeeps ==
  ASSUME Apart, Data', stale' = stale, NEW c \in Callers, NEW k,
         call' = [call EXCEPT ![c] = k],
         k.op = "none" \/ (k.op = call[c].op /\ k.who = call[c].who),
         CallOK(k, users', tokens', told', stale'),
         Extends(users, users'), Continues(tokens, tokens'),
         (DOMAIN users' = DOMAIN users /\ Len(users') = Len(users)) \/ call[c].op \in Users!Creations,
         \A o \in Callers \ {c} :
             call[o].at = "upgrade" => call[o].who \in stale \/ told'[call[o].who] = told[call[o].who]
  PROVE  Apart'
<1>1. call' \in [Callers -> CallStates] /\ call'[c] = k /\ \A o \in Callers \ {c} : call'[o] = call[o]
  BY DEF Apart, Calls, CallOK
<1>2. ASSUME NEW o \in Callers \ {c}
      PROVE  CallOK(call[o], users', tokens', told', stale')
  <2>1. CallOK(call[o], users, tokens, told, stale) /\ PairOK(call[c], call[o], stale)
    BY DEF Apart, Calls
  <2>2. (DOMAIN users' = DOMAIN users /\ Len(users') = Len(users)) \/ call[o].op \notin Users!Creations
    BY <2>1 DEF PairOK
  <2> QED
    BY <2>1, <2>2, CallFrame
<1>3. ASSUME NEW o \in Callers \ {c}
      PROVE  PairOK(k, call[o], stale') /\ PairOK(call[o], k, stale')
  BY DEF Apart, Calls, PairOK, Passwords, Users!Creations, Users!Changes
<1>4. ASSUME NEW o \in Callers, NEW q \in Callers, o # q
      PROVE  PairOK(call'[o], call'[q], stale')
  <2>1. CASE o = c
    BY <1>1, <1>3, <1>4, <2>1
  <2>2. CASE q = c
    BY <1>1, <1>3, <1>4, <2>2
  <2>3. CASE o # c /\ q # c
    BY <1>1, <1>4, <2>3 DEF Apart, Calls
  <2> QED
    BY <2>1, <2>2, <2>3
<1>5. \A o \in Callers : CallOK(call'[o], users', tokens', told', stale')
  BY <1>1, <1>2
<1> QED
  BY <1>1, <1>4, <1>5 DEF Apart, Calls

LEMMA SameUsers == Extends(users, users) /\ Continues(tokens, tokens)
BY DEF Extends, Continues

LEMMA IdleOK == \A U, T, P, S : CallOK(Users!Idle, U, T, P, S)
<1>1. PICK k : k = Users!Idle
  OBVIOUS
<1>2. k \in CallStates /\ k.op = "none" /\ k.at = "none"
  BY <1>1 DEF Users!Idle, Users!NoDocument, Users!Document, CallStates, DocStates, Ops, Places, Roles
<1> QED
  BY <1>1, <1>2 DEF CallOK, AtDoc, AtSeen

\* A step that writes nothing an account depends on.
LEMMA StayKeeps ==
  ASSUME Apart, Data', UNCHANGED <<users, tokens, told, stale>>, NEW c \in Callers, NEW k,
         call' = [call EXCEPT ![c] = k],
         k = Users!Idle \/ (k.op = call[c].op /\ k.who = call[c].who /\ CallOK(k, users, tokens, told, stale))
  PROVE  Apart'
<1>1. k.op = "none" \/ (k.op = call[c].op /\ k.who = call[c].who)
  BY DEF Users!Idle
<1>2. CallOK(k, users, tokens, told, stale)
  BY IdleOK
<1> QED
  BY <1>1, <1>2, SameUsers, StepKeeps

LEMMA QuietData ==
  ASSUME Data, UNCHANGED <<users, tokens, minted, told, proven, sources, served, stale>>,
         codes' \in Seq(CodeStates)
  PROVE  Data'
BY DEF Data

LEMMA QuietCodes == ASSUME Data, UNCHANGED codes PROVE codes' \in Seq(CodeStates)
BY DEF Data

\* A step of no call that is under way.
LEMMA OneKeeps ==
  ASSUME Apart, Data', UNCHANGED <<call, told, stale>>, Extends(users, users'), Continues(tokens, tokens'),
         DOMAIN users' = DOMAIN users /\ Len(users') = Len(users)
  PROVE  Apart'
<1>1. ASSUME NEW c \in Callers
      PROVE  CallOK(call[c], users', tokens', told', stale')
  <2>1. CallOK(call[c], users, tokens, told, stale)
    BY DEF Apart, Calls
  <2>2. call[c].at = "upgrade" => call[c].who \in stale \/ told'[call[c].who] = told[call[c].who]
    OBVIOUS
  <2> QED
    BY <2>1, <2>2, CallFrame
<1> QED
  BY <1>1 DEF Apart, Calls

LEMMA IdleTyped ==
  /\ Users!Idle \in CallStates /\ Users!Idle.op = "none" /\ Users!Idle.n = 0
BY DEF Users!Idle, Users!NoDocument, Users!Document, CallStates, DocStates, Ops, Places, Roles

LEMMA NowTyped ==
  ASSUME NEW op \in Ops, NEW at \in Places, NEW e \in People
  PROVE  /\ Users!Now(op, at, e) \in CallStates /\ Users!Now(op, at, e).op = op
         /\ Users!Now(op, at, e).at = at /\ Users!Now(op, at, e).who = e /\ Users!Now(op, at, e).n = 0
<1>1. PICK i \in CallStates : i = Users!Idle /\ i.n = 0
  BY IdleTyped
<1> QED
  BY <1>1 DEF Users!Now, CallStates

\* A call begins: while another one changes the same person's password, or
\* signs the person in, the password is not to be relied on.
LEMMA BeginKeeps ==
  ASSUME Apart, ~mixed', NEW c \in Callers, NEW r, Users!Begin(c, r), Users!UnchangedData,
         r.op # "none", CallOK(r, users, tokens, told, stale)
  PROVE  Apart'
<1>1. /\ call' \in [Callers -> CallStates] /\ call'[c] = r
      /\ \A o \in Callers \ {c} : call'[o] = call[o]
  BY DEF Users!Begin, Apart, Calls, CallOK
<1>2. stale \subseteq stale'
  BY DEF Users!Begin
<1>3. Data'
  BY <1>2 DEF Apart, Data, Users!UnchangedData, PasswordsOK
<1>4. ASSUME NEW k, CallOK(k, users, tokens, told, stale)
      PROVE  CallOK(k, users', tokens', told', stale')
  <2>1. users' = users /\ tokens' = tokens /\ told' = told
    BY DEF Users!UnchangedData
  <2>2. k.at = "upgrade" => k.who \in stale' \/ told'[k.who] = told[k.who]
    BY <2>1
  <2> QED
    BY <1>2, <1>4, <2>1, <2>2, SameUsers, CallFrame
<1>5. ASSUME NEW o \in Callers \ {c}
      PROVE  PairOK(r, call[o], stale') /\ PairOK(call[o], r, stale')
  <2>1. ~(r.op \in Users!Creations /\ call[o].op \in Users!Creations)
    BY DEF Users!Begin
  <2>2. call[o].who = r.who /\ {call[o].op, r.op} \subseteq Users!Changes \cup {"login"} => r.who \in stale'
    BY DEF Users!Begin
  <2> QED
    BY <2>1, <2>2 DEF PairOK, Passwords
<1>6. ASSUME NEW o \in Callers, NEW q \in Callers, o # q
      PROVE  PairOK(call'[o], call'[q], stale')
  <2>1. CASE o = c
    BY <1>1, <1>5, <1>6, <2>1
  <2>2. CASE q = c
    BY <1>1, <1>5, <1>6, <2>2
  <2>3. CASE o # c /\ q # c
    BY <1>1, <1>2, <1>6, <2>3 DEF Apart, Calls, PairOK
  <2> QED
    BY <2>1, <2>2, <2>3
<1>7. \A o \in Callers : CallOK(call'[o], users', tokens', told', stale')
  BY <1>1, <1>4 DEF Apart, Calls
<1> QED
  BY <1>1, <1>3, <1>6, <1>7 DEF Apart, Calls

\* A step that writes one document.
LEMMA WriteData ==
  ASSUME Data, NEW d \in DOMAIN users, NEW u \in DocStates, users' = [users EXCEPT ![d] = u],
         u.id = d, u.email = users[d].email, u.roles \in {u.email, "asked", "create", "portal"},
         told' \in [People -> Nat], \A e \in People : e # u.email => told'[e] = told[e],
         u.email \in stale \/ u.pw = told'[u.email],
         proven' \in [People -> SUBSET Marks], \A e \in People : proven[e] \subseteq proven'[e],
         u.verified => "verified" \in proven'[u.email], u.mfa => "mfa" \in proven'[u.email],
         minted' \in Nat, UNCHANGED <<tokens, codes, sources, served, stale>>
  PROVE  /\ Data' /\ Extends(users, users')
         /\ DOMAIN users' = DOMAIN users /\ Len(users') = Len(users)
<1>0. users \in Seq(DocStates) /\ d \in 1..Len(users)
  BY LenProperties DEF Data, UsersOK
<1>1. users' \in Seq(DocStates) /\ Len(users') = Len(users)
  BY <1>0, ExceptSeq
<1>2. DOMAIN users' = DOMAIN users /\ Len(users') = Len(users)
  BY <1>0, <1>1, LenProperties
<1>3. users'[d] = u /\ \A f \in DOMAIN users : f # d => users'[f] = users[f]
  BY <1>0
<1>4. \A f \in DOMAIN users : users'[f].email = users[f].email /\ users'[f].id = f
  BY <1>3 DEF Data, UsersOK
<1>5. UsersOK(users')
  BY <1>1, <1>2, <1>3, <1>4 DEF Data, UsersOK
<1>6. PasswordsOK(users', told', stale')
  <2>1. \A f \in DOMAIN users : f # d => users[f].email # u.email /\ users[f].email \in People
    BY DEF Data, UsersOK
  <2> QED
    BY <1>2, <1>3, <2>1 DEF Data, PasswordsOK
<1>7. MarksOK(users', proven')
  <2>1. \A f \in DOMAIN users : users[f].email \in People
    BY DEF Data, UsersOK
  <2> QED
    BY <1>2, <1>3, <2>1 DEF Data, MarksOK
<1>8. TokensOK(users', tokens')
  BY <1>2, <1>4 DEF Data, TokensOK, DocOf
<1> QED
  BY <1>2, <1>4, <1>5, <1>6, <1>7, <1>8 DEF Data, Extends

-----------------------------------------------------------------------------
(* Calls that begin.                                                       *)

\* What is known of an account that a query found.
LEMMA DocIs ==
  ASSUME Data, NEW d, NEW e, DocOf(users, d, e)
  PROVE  /\ d \in DOMAIN users /\ d \in Nat /\ d # 0 /\ e \in People
         /\ users[d] \in DocStates /\ users[d].email = e /\ users[d].id = d
         /\ users[d].roles \in {e, "asked", "create", "portal"}
         /\ Users!ById(d) = d /\ Users!ByEmail(e) = d
<1>1. users \in Seq(DocStates) /\ d \in DOMAIN users
  BY DEF Data, UsersOK, DocOf
<1>2. d \in 1..Len(users) /\ Len(users) \in Nat /\ users[d] \in DocStates
  BY <1>1, LenProperties, ElementOfSeq
<1>3. users[d].email = e /\ users[d].id = d /\ e \in People /\ users[d].roles \in {e, "asked", "create", "portal"}
  BY <1>1 DEF Data, UsersOK, DocOf
<1>4. Users!ById(d) = d /\ Users!ByEmail(e) = d
  BY <1>1, FindById, FindByEmail DEF Data
<1> QED
  BY <1>1, <1>2, <1>3, <1>4

LEMMA CallIs ==
  ASSUME Apart, NEW c \in Callers
  PROVE  /\ call \in [Callers -> CallStates] /\ call[c] \in CallStates
         /\ CallOK(call[c], users, tokens, told, stale)
         /\ Data
BY DEF Apart, Calls

LEMMA StartCreationKeeps ==
  ASSUME Apart, ~mixed', NEW c \in Callers, NEW op \in Users!Creations, NEW e \in People,
         Users!StartCreation(c, op, e)
  PROVE  Apart'
<1>1. PICK at \in {"tenant", "look"} : Users!Begin(c, Users!Now(op, at, e)) /\ Users!UnchangedData
  BY DEF Users!StartCreation
<1>2. PICK r : r = Users!Now(op, at, e)
  OBVIOUS
<1>3. r \in CallStates /\ r.op = op /\ r.at = at /\ r.who = e
  BY <1>2, NowTyped DEF Ops, Places, Users!Creations
<1>4. CallOK(r, users, tokens, told, stale)
  BY <1>3 DEF CallOK, AtDoc, AtSeen, Users!Creations
<1>5. r.op # "none"
  BY <1>3 DEF Users!Creations
<1> QED
  BY <1>1, <1>2, <1>4, <1>5, BeginKeeps

LEMMA StartLoginKeeps ==
  ASSUME Apart, ~mixed', NEW c \in Callers, NEW e \in People, NEW p \in Nat, Users!StartLogin(c, e, p)
  PROVE  Apart'
<1>1. PICK i \in CallStates : i = Users!Now("login", "find", e) /\ i.op = "login" /\ i.at = "find" /\ i.who = e
  BY NowTyped DEF Ops, Places
<1>2. PICK r : r = [i EXCEPT !.pw = p]
  OBVIOUS
<1>3. r \in CallStates /\ r.op = "login" /\ r.at = "find" /\ r.who = e
  BY <1>1, <1>2 DEF CallStates
<1>4. CallOK(r, users, tokens, told, stale)
  BY <1>3 DEF CallOK, AtDoc, AtSeen, Users!Creations
<1> QED
  BY <1>1, <1>2, <1>3, <1>4, BeginKeeps DEF Users!StartLogin

LEMMA StartFirstKeeps ==
  ASSUME Apart, ~mixed', NEW c \in Callers, NEW e \in People, NEW p \in Nat,
         NEW t \in {0} \cup {i \in DOMAIN tokens : tokens[i].holder = e}, Users!StartFirst(c, e, t, p)
  PROVE  Apart'
<1>1. PICK i \in CallStates : i = Users!Now("first", "find", e) /\ i.op = "first" /\ i.at = "find" /\ i.who = e
  BY NowTyped DEF Ops, Places
<1>2. PICK r : r = [i EXCEPT !.n = t, !.pw = p]
  OBVIOUS
<1>3. t \in Nat /\ (t = 0 \/ TokenOf(tokens, t, e))
  BY LenProperties DEF Apart, Data, TokensOK, TokenOf
<1>4. r \in CallStates /\ r.op = "first" /\ r.at = "find" /\ r.who = e /\ r.n = t
  BY <1>1, <1>2, <1>3 DEF CallStates
<1>5. CallOK(r, users, tokens, told, stale)
  BY <1>3, <1>4 DEF CallOK, AtDoc, AtSeen, Users!Creations
<1> QED
  BY <1>1, <1>2, <1>4, <1>5, BeginKeeps DEF Users!StartFirst

LEMMA StartResetKeeps ==
  ASSUME Apart, ~mixed', NEW c \in Callers, NEW e \in People, NEW k \in DOMAIN codes, Users!StartReset(c, e, k)
  PROVE  Apart'
<1>1. PICK i \in CallStates : i = Users!Now("reset", "find", e) /\ i.op = "reset" /\ i.at = "find" /\ i.who = e
  BY NowTyped DEF Ops, Places
<1>2. PICK r : r = [i EXCEPT !.k = k]
  OBVIOUS
<1>3. k \in Nat
  BY LenProperties DEF Apart, Data
<1>4. r \in CallStates /\ r.op = "reset" /\ r.at = "find" /\ r.who = e
  BY <1>1, <1>2, <1>3 DEF CallStates
<1>5. CallOK(r, users, tokens, told, stale)
  BY <1>4 DEF CallOK, AtDoc, AtSeen, Users!Creations
<1> QED
  BY <1>1, <1>2, <1>4, <1>5, BeginKeeps DEF Users!StartReset

LEMMA StartUpdateKeeps ==
  ASSUME Apart, ~mixed', NEW c \in Callers, NEW d \in DOMAIN users, NEW byId \in BOOLEAN,
         Users!StartUpdate(c, d, byId)
  PROVE  Apart'
<1>0. PICK e : e = users[d].email
  OBVIOUS
<1>1. DocOf(users, d, e) /\ e \in People /\ users[d].id = d /\ d \in Nat
  BY <1>0, DocIs DEF DocOf, Apart
<1>2. PICK i \in CallStates : i = Users!Now("update", "find", e) /\ i.op = "update" /\ i.at = "find" /\ i.who = e
  BY <1>1, NowTyped DEF Ops, Places
<1>3. PICK n \in {0, d} : Users!Begin(c, [i EXCEPT !.n = n]) /\ Users!UnchangedData
  BY <1>0, <1>1, <1>2 DEF Users!StartUpdate
<1>4. PICK r : r = [i EXCEPT !.n = n]
  OBVIOUS
<1>5. r \in CallStates /\ r.op = "update" /\ r.at = "find" /\ r.who = e /\ r.n = n
  BY <1>1, <1>2, <1>4 DEF CallStates
<1>6. CallOK(r, users, tokens, told, stale)
  BY <1>1, <1>5 DEF CallOK, AtDoc, AtSeen, Users!Creations, DocOf
<1> QED
  BY <1>3, <1>4, <1>5, <1>6, BeginKeeps

\* The calls that show a token begin for the person who holds it.
LEMMA StartWithToken ==
  ASSUME Apart, ~mixed', NEW c \in Callers, NEW t \in DOMAIN tokens,
         \/ Users!StartRequest(c, t) \/ Users!StartTotp(c, t)
         \/ \E k \in DOMAIN codes : Users!StartOtp(c, t, k)
  PROVE  Apart'
<1>0. PICK e : e = tokens[t].holder
  OBVIOUS
<1>1. TokenOf(tokens, t, e) /\ t \in Nat
  BY <1>0, LenProperties DEF Apart, Data, TokensOK, TokenOf
<1>2. e \in People
  BY <1>1, DocIs DEF Apart, Data, TokensOK, TokenOf
<1>3. ASSUME NEW r, r \in CallStates, r.who = e, r.n = t, Users!Begin(c, r), Users!UnchangedData,
             (r.op = "request" /\ r.at = "check") \/ (r.op \in {"otp", "totp"} /\ r.at = "find")
      PROVE  Apart'
  <2>1. CallOK(r, users, tokens, told, stale)
    BY <1>1, <1>2, <1>3 DEF CallOK, AtDoc, AtSeen, Users!Creations
  <2> QED
    BY <1>3, <2>1, BeginKeeps
<1>4. CASE Users!StartRequest(c, t)
  <2>1. PICK i \in CallStates : /\ i = Users!Now("request", "check", e)
                                /\ i.op = "request" /\ i.at = "check" /\ i.who = e
    BY <1>2, NowTyped DEF Ops, Places
  <2>2. PICK r : r = [i EXCEPT !.n = t]
    OBVIOUS
  <2>3. r \in CallStates /\ r.op = "request" /\ r.at = "check" /\ r.who = e /\ r.n = t
    BY <1>1, <2>1, <2>2 DEF CallStates
  <2> QED
    BY <1>0, <1>3, <1>4, <2>1, <2>2, <2>3 DEF Users!StartRequest
<1>5. CASE Users!StartTotp(c, t)
  <2>1. PICK i \in CallStates : i = Users!Now("totp", "find", e) /\ i.op = "totp" /\ i.at = "find" /\ i.who = e
    BY <1>2, NowTyped DEF Ops, Places
  <2>2. PICK r : r = [i EXCEPT !.n = t]
    OBVIOUS
  <2>3. r \in CallStates /\ r.op = "totp" /\ r.at = "find" /\ r.who = e /\ r.n = t
    BY <1>1, <2>1, <2>2 DEF CallStates
  <2> QED
    BY <1>0, <1>3, <1>5, <2>1, <2>2, <2>3 DEF Users!StartTotp
<1>6. ASSUME NEW k \in DOMAIN codes, Users!StartOtp(c, t, k)
      PROVE  Apart'
  <2>0. k \in Nat
    BY LenProperties DEF Apart, Data
  <2>1. PICK i \in CallStates : i = Users!Now("otp", "find", e) /\ i.op = "otp" /\ i.at = "find" /\ i.who = e
    BY <1>2, NowTyped DEF Ops, Places
  <2>2. PICK r : r = [i EXCEPT !.n = t, !.k = k]
    OBVIOUS
  <2>3. r \in CallStates /\ r.op = "otp" /\ r.at = "find" /\ r.who = e /\ r.n = t
    BY <1>1, <2>0, <2>1, <2>2 DEF CallStates
  <2> QED
    BY <1>0, <1>3, <1>6, <2>1, <2>2, <2>3 DEF Users!StartOtp
<1> QED
  BY <1>4, <1>5, <1>6

LEMMA StartKeeps ==
  ASSUME Apart, ~mixed', NEW c \in Callers, Users!Start(c)
  PROVE  Apart'
<1>1. ASSUME NEW e \in People, NEW p \in {told[e], 0}
      PROVE  p \in Nat
  BY DEF Apart, Data
<1> QED
  BY <1>1, StartCreationKeeps, StartLoginKeeps, StartFirstKeeps, StartResetKeeps, StartUpdateKeeps,
     StartWithToken DEF Users!Start

-----------------------------------------------------------------------------
(* Creations.                                                              *)

LEMMA DoneKeeps ==
  ASSUME Apart, Data', UNCHANGED <<users, tokens, told, stale>>, NEW c \in Callers, Users!Done(c)
  PROVE  Apart'
BY StayKeeps DEF Users!Done

\* A call that goes on with what it knows.
LEMMA GoesOn ==
  ASSUME Apart, Data', UNCHANGED <<users, tokens, told, stale>>, NEW c \in Callers, NEW at \in Places,
         Users!Goto(c, at), at \notin {"tenant", "insert", "upgrade", "find"},
         at \in {"look", "id"} => call[c].op \in Users!Creations,
         at = "id" => \A d \in DOMAIN users : users[d].email # call[c].who,
         at \in {"framework", "addFramework"} => call[c].op \in {"register", "create", "login"},
         at \in AtDoc => DocOf(users, call[c].doc, call[c].who),
         at \in AtSeen \/ (at = "use" /\ call[c].op = "otp") =>
             DocOf(users, call[c].seen.id, call[c].who) /\ call[c].seen.email = call[c].who
  PROVE  Apart'
<1>1. PICK q \in CallStates : q = call[c] /\ CallOK(q, users, tokens, told, stale)
  BY CallIs
<1>2. PICK k : k = [q EXCEPT !.at = at]
  OBVIOUS
<1>3. /\ k \in CallStates /\ k.at = at
      /\ k.op = q.op /\ k.who = q.who /\ k.doc = q.doc /\ k.seen = q.seen /\ k.n = q.n
  BY <1>2 DEF CallStates
<1>4. call' = [call EXCEPT ![c] = k]
  BY <1>1, <1>2, CallIs DEF Users!Goto
<1>5. CallOK(k, users, tokens, told, stale)
  BY <1>1, <1>3 DEF CallOK
<1> QED
  BY <1>1, <1>3, <1>4, <1>5, StayKeeps

LEMMA StoreTenantKeeps ==
  ASSUME Apart, NEW c \in Callers, Users!StoreTenant(c)
  PROVE  Apart'
<1>1. UNCHANGED <<users, tokens, codes, minted, told, proven, sources, served, stale>>
  BY DEF Users!StoreTenant, Users!UnchangedCalls
<1>2. Data'
  BY <1>1, QuietData, QuietCodes DEF Apart
<1>3. Users!Done(c) \/ Users!Goto(c, "look")
  BY DEF Users!StoreTenant
<1>4. call[c].op \in Users!Creations
  BY DEF Users!StoreTenant, Users!At, Users!Creations
<1>5. "look" \in Places /\ "look" \notin AtDoc \cup AtSeen
  BY DEF Places, AtDoc, AtSeen
<1> QED
  BY <1>1, <1>2, <1>3, <1>4, <1>5, DoneKeeps, GoesOn

LEMMA LookKeeps ==
  ASSUME Apart, NEW c \in Callers, Users!LookForUser(c)
  PROVE  Apart'
<1>1. UNCHANGED <<users, tokens, codes, minted, told, proven, sources, served, stale>>
  BY DEF Users!LookForUser, Users!UnchangedData, Users!UnchangedCalls
<1>2. Data'
  BY <1>1, QuietData, QuietCodes DEF Apart
<1>3. CASE Users!Done(c)
  BY <1>1, <1>2, <1>3, DoneKeeps
<1>4. CASE Users!ByEmail(call[c].who) = 0 /\ Users!Goto(c, "id")
  <2>1. \A d \in DOMAIN users : users[d].email # call[c].who
    BY <1>4, FindByEmail DEF Apart, Data
  <2>2. "id" \in Places /\ "id" \notin AtDoc \cup AtSeen /\ call[c].op \in Users!Creations
    BY DEF Places, AtDoc, AtSeen, Users!LookForUser
  <2> QED
    BY <1>1, <1>2, <1>4, <2>1, <2>2, GoesOn
<1> QED
  BY <1>3, <1>4 DEF Users!LookForUser

\* The counter of the portal is a second source of ids.
LEMMA TakeIdKeeps ==
  ASSUME Apart, ~mixed', NEW c \in Callers, Users!TakeId(c)
  PROVE  Apart'
<1>1. UNCHANGED <<users, tokens, codes, minted, told, proven, served, stale>>
  BY DEF Users!TakeId
<1>2. call[c].op # "portal"
  <2>1. SUFFICES ASSUME call[c].op = "portal"
                 PROVE  FALSE
    OBVIOUS
  <2>2. sources' = {"highest"} \cup {"counter"}
    BY <2>1 DEF Users!TakeId, Apart, Data
  <2>3. "highest" \in sources'
    BY <2>2
  <2>4. sources' = {"counter"}
    BY <2>1 DEF Users!TakeId
  <2> QED
    BY <2>3, <2>4
<1>3. sources' = sources /\ call' = [call EXCEPT ![c].at = "insert", ![c].n = Users!NextUserId]
  BY <1>2 DEF Users!TakeId, Apart, Data
<1>4. Data'
  BY <1>1, <1>3, QuietData, QuietCodes DEF Apart
<1>5. PICK q \in CallStates : q = call[c] /\ CallOK(q, users, tokens, told, stale)
  BY CallIs
<1>6. PICK n \in Nat : n = Len(users) + 1 /\ n = Users!NextUserId
  BY NextIdIs, LenProperties DEF Apart, Data, UsersOK
<1>7. PICK k : k = [q EXCEPT !.at = "insert", !.n = n]
  OBVIOUS
<1>8. k \in CallStates /\ k.at = "insert" /\ k.op = q.op /\ k.who = q.who /\ k.n = n
  BY <1>7 DEF CallStates, Places
<1>9. call' = [call EXCEPT ![c] = k]
  BY <1>3, <1>5, <1>6, <1>7, CallIs DEF CallStates
<1>10. q.at = "id" /\ q.op \in {"register", "create"}
  BY <1>2, <1>5 DEF Users!TakeId, Users!Creations
<1>11. CallOK(k, users, tokens, told, stale)
  BY <1>5, <1>6, <1>8, <1>10 DEF CallOK, AtDoc, AtSeen
<1> QED
  BY <1>1, <1>4, <1>5, <1>8, <1>9, <1>11, StayKeeps

LEMMA InsertData ==
  ASSUME Data, NEW u \in DocStates, users' = Append(users, u), u.id = Len(users) + 1,
         u.email \in People, \A d \in DOMAIN users : users[d].email # u.email,
         u.roles \in {u.email, "asked", "create", "portal"}, ~u.verified, ~u.mfa,
         minted' = u.pw, told' = [told EXCEPT ![u.email] = u.pw],
         UNCHANGED <<tokens, codes, proven, sources, served, stale>>
  PROVE  /\ Data' /\ Extends(users, users') /\ users'[Len(users) + 1] = u
         /\ DocOf(users', Len(users) + 1, u.email)
<1>1. users \in Seq(DocStates) /\ Len(users) \in Nat /\ DOMAIN users = 1..Len(users)
  BY LenProperties DEF Data, UsersOK
<1>2. /\ users' \in Seq(DocStates) /\ Len(users') = Len(users) + 1 /\ users'[Len(users) + 1] = u
      /\ \A d \in 1..Len(users) : users'[d] = users[d]
  BY <1>1, AppendProperties
<1>3. DOMAIN users' = 1..(Len(users) + 1)
  BY <1>2, LenProperties
<1>4. PICK n \in Nat : n = Len(users) + 1 /\ n \notin DOMAIN users /\ DOMAIN users' = DOMAIN users \cup {n}
  BY <1>1, <1>3
<1>5. users'[n] = u /\ \A d \in DOMAIN users : users'[d] = users[d]
  BY <1>1, <1>2, <1>4
<1>6. Extends(users, users') /\ DocOf(users', n, u.email)
  BY <1>4, <1>5 DEF Extends, DocOf
<1>7. UsersOK(users')
  BY <1>2, <1>4, <1>5 DEF Data, UsersOK
<1>8. told' \in [People -> Nat] /\ told'[u.email] = u.pw /\ \A e \in People : e # u.email => told'[e] = told[e]
  BY DEF Data, DocStates
<1>9. PasswordsOK(users', told', stale')
  <2>1. \A d \in DOMAIN users : users[d].email # u.email /\ users[d].email \in People
    BY DEF Data, UsersOK
  <2> QED
    BY <1>4, <1>5, <1>8, <2>1 DEF Data, PasswordsOK
<1>10. MarksOK(users', proven')
  BY <1>4, <1>5 DEF Data, MarksOK
<1>11. TokensOK(users', tokens')
  BY <1>6 DEF Data, TokensOK, DocOf, Extends
<1>12. minted' \in Nat
  BY DEF DocStates
<1> QED
  BY <1>2, <1>4, <1>6, <1>7, <1>8, <1>9, <1>10, <1>11, <1>12 DEF Data

LEMMA InsertKeeps ==
  ASSUME Apart, NEW c \in Callers, Users!InsertUser(c)
  PROVE  Apart'
<1>1. PICK q \in CallStates : q = call[c] /\ CallOK(q, users, tokens, told, stale)
  BY CallIs
<1>2. q.op \in Users!Creations /\ q.at = "insert"
  BY <1>1 DEF Users!InsertUser
<1>3. /\ q.who \in People /\ q.n = Len(users) + 1 /\ q.n \in Nat
      /\ \A d \in DOMAIN users : users[d].email # q.who
  BY <1>1, <1>2 DEF CallOK, CallStates, Users!Creations
<1>4. PICK p \in Nat : p = minted + 1
  BY DEF Apart, Data
<1>5. PICK temp \in {0, p}, roles \in {"asked", "create", "portal"} :
          users' = Append(users, Users!Document(q.who, q.n, p, temp, roles))
  BY <1>1, <1>2, <1>4 DEF Users!InsertUser, Users!Creations
<1>6. PICK u : u = Users!Document(q.who, q.n, p, temp, roles)
  OBVIOUS
<1>7. /\ u \in DocStates /\ u.email = q.who /\ u.id = q.n /\ u.pw = p /\ u.roles = roles
      /\ ~u.verified /\ ~u.mfa
  BY <1>3, <1>6 DEF Users!Document, DocStates, Roles
<1>8. /\ minted' = u.pw /\ told' = [told EXCEPT ![u.email] = u.pw]
      /\ UNCHANGED <<tokens, codes, proven, sources, served, stale>>
  BY <1>1, <1>4, <1>7 DEF Users!InsertUser, Users!UnchangedCalls
<1>9. /\ Data' /\ Extends(users, users') /\ users'[Len(users) + 1] = u
      /\ DocOf(users', Len(users) + 1, q.who)
  BY <1>3, <1>5, <1>6, <1>7, <1>8, InsertData DEF Apart
<1>10. PICK at \in {"mail", "framework"} :
          /\ call' = [call EXCEPT ![c].at = at, ![c].doc = Len(users) + 1, ![c].seen = users'[Len(users) + 1]]
          /\ at = "framework" => q.op # "portal"
  BY <1>1 DEF Users!InsertUser
<1>11. PICK k : k = [q EXCEPT !.at = at, !.doc = q.n, !.seen = u]
  OBVIOUS
<1>12. /\ k \in CallStates /\ k.at = at /\ k.doc = q.n /\ k.seen = u
       /\ k.op = q.op /\ k.who = q.who
  BY <1>3, <1>7, <1>11 DEF CallStates, Places
<1>13. call' = [call EXCEPT ![c] = k]
  BY <1>1, <1>3, <1>9, <1>10, <1>11, CallIs DEF CallStates
<1>14. CallOK(k, users', tokens', told', stale')
  BY <1>2, <1>3, <1>7, <1>9, <1>10, <1>12 DEF CallOK, AtDoc, AtSeen, Users!Creations
<1>15. ASSUME NEW o \in Callers \ {c}, call[o].at = "upgrade"
       PROVE  told'[call[o].who] = told[call[o].who]
  <2>1. DocOf(users, call[o].doc, call[o].who)
    BY <1>15, CallIs DEF CallOK, AtDoc
  <2>2. call[o].who \in People /\ call[o].who # q.who
    BY <1>3, <2>1, DocIs DEF Apart, DocOf
  <2> QED
    BY <1>7, <1>8, <2>2 DEF Apart, Data
<1> QED
  BY <1>1, <1>2, <1>8, <1>9, <1>12, <1>13, <1>14, <1>15, SameUsers, StepKeeps

LEMMA InsertFailsKeeps ==
  ASSUME Apart, NEW c \in Callers, Users!InsertFails(c)
  PROVE  Apart'
BY DoneKeeps, QuietData, QuietCodes
   DEF Users!InsertFails, Apart, Users!UnchangedData, Users!UnchangedCalls

\* Where the frameworks are looked after, and what comes next.
LEMMA AfterFrameworks ==
  ASSUME NEW op \in {"register", "create", "login"}
  PROVE  Users!NextAfterFrameworks(op) \in {"roles", "mail", "reread"}
BY DEF Users!NextAfterFrameworks

LEMMA FrameworkKeeps ==
  ASSUME Apart, NEW c \in Callers, Users!EnsureFrameworks(c) \/ Users!AddFramework(c)
  PROVE  Apart'
<1>1. UNCHANGED <<users, tokens, codes, minted, told, proven, sources, served, stale>>
  BY DEF Users!EnsureFrameworks, Users!AddFramework, Users!UnchangedData, Users!UnchangedCalls
<1>2. Data'
  BY <1>1, QuietData, QuietCodes DEF Apart
<1>3. CallOK(call[c], users, tokens, told, stale) /\ call[c].at \in {"framework", "addFramework"}
  BY CallIs DEF Users!EnsureFrameworks, Users!AddFramework
<1>4. call[c].op \in {"register", "create", "login"}
  BY <1>3 DEF CallOK
<1>5. /\ DocOf(users, call[c].doc, call[c].who)
      /\ DocOf(users, call[c].seen.id, call[c].who) /\ call[c].seen.email = call[c].who
  BY <1>3 DEF CallOK, AtDoc, AtSeen
<1>6. Users!Done(c) \/ \E at \in {"addFramework", "roles", "mail", "reread"} : Users!Goto(c, at)
  BY <1>4, AfterFrameworks DEF Users!EnsureFrameworks, Users!AddFramework
<1>7. ASSUME NEW at \in {"addFramework", "roles", "mail", "reread"}, Users!Goto(c, at)
      PROVE  Apart'
  BY <1>1, <1>2, <1>4, <1>5, <1>7, GoesOn DEF Places
<1> QED
  BY <1>1, <1>2, <1>6, <1>7, DoneKeeps

\* A call that writes to its document and goes on, or ends.
LEMMA OwnWrite ==
  ASSUME Apart, NEW c \in Callers, NEW d \in DOMAIN users, NEW u \in DocStates,
         users' = [users EXCEPT ![d] = u], u.id = d, u.email = call[c].who, users[d].email = call[c].who,
         u.roles \in {u.email, "asked", "create", "portal"}, u.pw = users[d].pw,
         proven' \in [People -> SUBSET Marks], \A e \in People : proven[e] \subseteq proven'[e],
         u.verified => "verified" \in proven'[u.email], u.mfa => "mfa" \in proven'[u.email],
         UNCHANGED <<minted, told, tokens, codes, sources, served, stale>>,
         NEW k, call' = [call EXCEPT ![c] = k],
         k = Users!Idle \/ (k.op = call[c].op /\ k.who = call[c].who /\ CallOK(k, users, tokens, told, stale)
                              /\ k.at # "upgrade")
  PROVE  Apart'
<1>1. u.email \in stale \/ u.pw = told'[u.email]
  BY DEF Apart, Data, PasswordsOK
<1>2. /\ Data' /\ Extends(users, users')
      /\ DOMAIN users' = DOMAIN users /\ Len(users') = Len(users)
  BY <1>1, WriteData DEF Apart, Data
<1>3. k.op = "none" \/ (k.op = call[c].op /\ k.who = call[c].who)
  BY DEF Users!Idle
<1>4. CallOK(k, users', tokens', told', stale')
  <2>1. CASE k = Users!Idle
    BY <2>1, IdleOK
  <2>2. CASE k.at # "upgrade" /\ CallOK(k, users, tokens, told, stale)
    BY <1>2, <2>2, SameUsers, CallFrame
  <2> QED
    BY <2>1, <2>2
<1> QED
  BY <1>2, <1>3, <1>4, SameUsers, StepKeeps

LEMMA WriteRolesKeeps ==
  ASSUME Apart, NEW c \in Callers, Users!WriteRoles(c)
  PROVE  Apart'
<1>1. PICK q \in CallStates : q = call[c] /\ CallOK(q, users, tokens, told, stale) /\ q.op = "register" /\ q.at = "roles"
  BY CallIs DEF Users!WriteRoles, Users!At
<1>2. PICK d : d = q.seen.id /\ DocOf(users, d, q.who) /\ DocOf(users, q.doc, q.who) /\ q.seen.email = q.who
  BY <1>1 DEF CallOK, AtDoc, AtSeen
<1>3. /\ d \in DOMAIN users /\ users[d] \in DocStates /\ users[d].email = q.who /\ users[d].id = d
      /\ Users!ById(d) = d /\ q.who \in People
  BY <1>2, DocIs DEF Apart
<1>4. PICK u : u = [users[d] EXCEPT !.roles = q.who]
  OBVIOUS
<1>5. /\ u \in DocStates /\ u.id = d /\ u.email = q.who /\ u.roles = q.who /\ u.pw = users[d].pw
      /\ u.verified = users[d].verified /\ u.mfa = users[d].mfa
  BY <1>3, <1>4 DEF DocStates, Roles
<1>6. users' = [users EXCEPT ![d] = u]
  BY <1>1, <1>2, <1>3, <1>4 DEF Users!WriteRoles
<1>7. PICK k : k = [q EXCEPT !.at = "sign"]
  OBVIOUS
<1>8. /\ k \in CallStates /\ k.at = "sign" /\ k.op = q.op /\ k.who = q.who /\ k.doc = q.doc /\ k.seen = q.seen
  BY <1>7 DEF CallStates, Places
<1>9. call' = [call EXCEPT ![c] = k]
  BY <1>1, <1>7, CallIs DEF Users!WriteRoles
<1>10. CallOK(k, users, tokens, told, stale)
  BY <1>1, <1>2, <1>3, <1>8 DEF CallOK, AtDoc, AtSeen
<1>11. UNCHANGED <<minted, told, proven, tokens, codes, sources, served, stale>>
  BY DEF Users!WriteRoles, Users!UnchangedRest, Users!UnchangedCalls
<1>12. proven' \in [People -> SUBSET Marks] /\ \A e \in People : proven[e] \subseteq proven'[e]
  BY <1>11 DEF Apart, Data
<1>13. (u.verified => "verified" \in proven'[u.email]) /\ (u.mfa => "mfa" \in proven'[u.email])
  BY <1>3, <1>5, <1>11 DEF Apart, Data, MarksOK
<1> QED
  BY <1>1, <1>3, <1>5, <1>6, <1>8, <1>9, <1>10, <1>11, <1>12, <1>13, OwnWrite

LEMMA ReadBackKeeps ==
  ASSUME Apart, NEW c \in Callers, Users!ReadBack(c)
  PROVE  Apart'
<1>1. PICK q \in CallStates : q = call[c] /\ CallOK(q, users, tokens, told, stale) /\ q.op = "register" /\ q.at = "sign"
  BY CallIs DEF Users!ReadBack, Users!At
<1>2. PICK d : d = q.seen.id /\ DocOf(users, d, q.who) /\ DocOf(users, q.doc, q.who)
  BY <1>1 DEF CallOK, AtDoc, AtSeen
<1>3. /\ users[d] \in DocStates /\ users[d].email = q.who /\ users[d].id = d /\ Users!ById(d) = d /\ q.who \in People
  BY <1>2, DocIs DEF Apart
<1>4. PICK u : u = users[d]
  OBVIOUS
<1>5. PICK k : k = [q EXCEPT !.at = "store", !.seen = u]
  OBVIOUS
<1>6. /\ k \in CallStates /\ k.at = "store" /\ k.op = q.op /\ k.who = q.who /\ k.doc = q.doc /\ k.seen = u
  BY <1>3, <1>4, <1>5 DEF CallStates, Places
<1>7. call' = [call EXCEPT ![c] = k]
  BY <1>1, <1>2, <1>3, <1>4, <1>5, CallIs DEF Users!ReadBack, CallStates
<1>8. CallOK(k, users, tokens, told, stale)
  BY <1>1, <1>2, <1>3, <1>4, <1>6 DEF CallOK, AtDoc, AtSeen
<1>9. UNCHANGED <<users, tokens, codes, minted, told, proven, sources, served, stale>>
  BY DEF Users!ReadBack, Users!UnchangedData, Users!UnchangedCalls
<1> QED
  BY <1>1, <1>6, <1>7, <1>8, <1>9, StayKeeps, QuietData, QuietCodes DEF Apart

LEMMA MailKeeps ==
  ASSUME Apart, NEW c \in Callers, Users!MailPassword(c)
  PROVE  Apart'
<1>1. UNCHANGED <<users, tokens, codes, minted, told, proven, sources, served, stale>>
  BY DEF Users!MailPassword, Users!UnchangedData, Users!UnchangedCalls
<1>2. Data'
  BY <1>1, QuietData, QuietCodes DEF Apart
<1>3. CallOK(call[c], users, tokens, told, stale) /\ call[c].at = "mail"
  BY CallIs DEF Users!MailPassword
<1>4. /\ DocOf(users, call[c].doc, call[c].who)
      /\ DocOf(users, call[c].seen.id, call[c].who) /\ call[c].seen.email = call[c].who
  BY <1>3 DEF CallOK, AtDoc, AtSeen
<1>5. CASE Users!Goto(c, "sent")
  BY <1>1, <1>2, <1>4, <1>5, GoesOn DEF Places
<1> QED
  BY <1>1, <1>2, <1>5, DoneKeeps DEF Users!MailPassword

LEMMA MarkSentKeeps ==
  ASSUME Apart, NEW c \in Callers, Users!MarkSent(c)
  PROVE  Apart'
<1>1. PICK q \in CallStates : q = call[c] /\ CallOK(q, users, tokens, told, stale) /\ q.at = "sent"
  BY CallIs DEF Users!MarkSent
<1>2. PICK d : d = q.doc /\ DocOf(users, d, q.who)
  BY <1>1 DEF CallOK, AtDoc
<1>3. /\ d \in DOMAIN users /\ users[d] \in DocStates /\ users[d].email = q.who /\ users[d].id = d
      /\ users[d].roles \in {q.who, "asked", "create", "portal"}
  BY <1>2, DocIs DEF Apart
<1>4. UNCHANGED <<minted, told, proven, tokens, codes, sources, served, stale>>
  BY DEF Users!MarkSent, Users!UnchangedRest, Users!UnchangedCalls
<1>5. CASE UNCHANGED users
  BY <1>4, <1>5, DoneKeeps, QuietData, QuietCodes DEF Users!MarkSent, Apart
<1>6. CASE users' = [users EXCEPT ![call[c].doc].sent = TRUE]
  <2>1. PICK u : u = [users[d] EXCEPT !.sent = TRUE]
    OBVIOUS
  <2>2. /\ u \in DocStates /\ u.id = d /\ u.email = q.who /\ u.roles = users[d].roles /\ u.pw = users[d].pw
        /\ u.verified = users[d].verified /\ u.mfa = users[d].mfa
    BY <1>3, <2>1 DEF DocStates
  <2>3. users' = [users EXCEPT ![d] = u]
    BY <1>1, <1>2, <1>6, <2>1
  <2>4. proven' \in [People -> SUBSET Marks] /\ \A e \in People : proven[e] \subseteq proven'[e]
    BY <1>4 DEF Apart, Data
  <2>5. (u.verified => "verified" \in proven'[u.email]) /\ (u.mfa => "mfa" \in proven'[u.email])
    BY <1>3, <1>4, <2>2 DEF Apart, Data, MarksOK
  <2>6. call' = [call EXCEPT ![c] = Users!Idle]
    BY DEF Users!MarkSent, Users!Done
  <2> QED
    BY <1>1, <1>3, <1>4, <2>2, <2>3, <2>4, <2>5, <2>6, OwnWrite
<1> QED
  BY <1>5, <1>6 DEF Users!MarkSent

-----------------------------------------------------------------------------
(* Login, requests and logout.                                             *)

LEMMA CheckPasswordKeeps ==
  ASSUME Apart, NEW c \in Callers, Users!CheckPassword(c)
  PROVE  Apart'
<1>1. UNCHANGED <<users, tokens, codes, minted, told, proven, sources, served, stale>>
  BY DEF Users!CheckPassword, Users!UnchangedData, Users!UnchangedCalls
<1>2. Data'
  BY <1>1, QuietData, QuietCodes DEF Apart
<1>3. PICK q \in CallStates : q = call[c] /\ CallOK(q, users, tokens, told, stale) /\ q.op = "login" /\ q.at = "find"
  BY CallIs DEF Users!CheckPassword, Users!At
<1>4. PICK d : d = Users!ByEmail(q.who)
  OBVIOUS
<1>5. CASE Users!Done(c)
  BY <1>1, <1>2, <1>5, DoneKeeps
<1>6. CASE ~Users!Done(c)
  <2>1. /\ d # 0 /\ users[d].pw = q.pw
        /\ call' = [call EXCEPT ![c].at = IF users[d].legacy THEN "upgrade" ELSE "framework",
                                ![c].doc = d, ![c].seen = users[d]]
    BY <1>3, <1>4, <1>6 DEF Users!CheckPassword
  <2>2. PICK at \in {"upgrade", "framework"} :
            call' = [call EXCEPT ![c].at = at, ![c].doc = d, ![c].seen = users[d]]
    BY <2>1
  <2>3. DocOf(users, d, q.who)
    BY <1>4, <2>1, FindByEmail DEF Apart, Data
  <2>4. /\ users[d] \in DocStates /\ users[d].email = q.who /\ users[d].id = d /\ d \in Nat /\ q.who \in People
        /\ d \in DOMAIN users
    BY <2>3, DocIs DEF Apart
  <2>5. q.who \in stale \/ q.pw = told[q.who]
    BY <2>1, <2>4 DEF Apart, Data, PasswordsOK
  <2>6. PICK u : u = users[d]
    OBVIOUS
  <2>7. PICK k : k = [q EXCEPT !.at = at, !.doc = d, !.seen = u]
    OBVIOUS
  <2>8. /\ k \in CallStates /\ k.at = at /\ k.op = q.op /\ k.who = q.who /\ k.doc = d /\ k.seen = u /\ k.pw = q.pw
    BY <2>4, <2>6, <2>7 DEF CallStates, Places
  <2>9. call' = [call EXCEPT ![c] = k]
    BY <1>3, <2>2, <2>4, <2>6, <2>7, CallIs DEF CallStates
  <2>10. CallOK(k, users, tokens, told, stale)
    BY <1>3, <2>3, <2>4, <2>5, <2>6, <2>8 DEF CallOK, AtDoc, AtSeen
  <2> QED
    BY <1>1, <1>2, <1>3, <2>8, <2>9, <2>10, StayKeeps
<1> QED
  BY <1>5, <1>6

\* The hash is written from the password that was checked, which is the last
\* one unless somebody changed it meanwhile.
LEMMA UpgradeKeeps ==
  ASSUME Apart, NEW c \in Callers, Users!UpgradeHash(c)
  PROVE  Apart'
<1>1. UNCHANGED <<minted, told, proven, tokens, codes, sources, served, stale>>
  BY DEF Users!UpgradeHash, Users!UnchangedRest, Users!UnchangedCalls
<1>2. PICK q \in CallStates : q = call[c] /\ CallOK(q, users, tokens, told, stale) /\ q.op = "login" /\ q.at = "upgrade"
  BY CallIs DEF Users!UpgradeHash, Users!At
<1>3. PICK d : d = q.seen.id /\ DocOf(users, d, q.who) /\ DocOf(users, q.doc, q.who) /\ q.seen.email = q.who
  BY <1>2 DEF CallOK, AtDoc, AtSeen
<1>4. /\ d \in DOMAIN users /\ users[d] \in DocStates /\ users[d].email = q.who /\ users[d].id = d
      /\ users[d].roles \in {q.who, "asked", "create", "portal"} /\ Users!ById(d) = d /\ q.who \in People
  BY <1>3, DocIs DEF Apart
<1>5. q.who \in stale \/ q.pw = told[q.who]
  BY <1>2 DEF CallOK
<1>6. call' = [call EXCEPT ![c].at = "framework"] /\ Users!Goto(c, "framework")
  BY DEF Users!UpgradeHash, Users!Goto
<1>7. CASE UNCHANGED users
  BY <1>1, <1>2, <1>3, <1>6, <1>7, QuietData, QuietCodes, GoesOn DEF Apart, Places
<1>8. CASE users' = [users EXCEPT ![Users!ById(call[c].seen.id)].pw = call[c].pw,
                                  ![Users!ById(call[c].seen.id)].legacy = FALSE]
  <2>1. PICK u : u = [users[d] EXCEPT !.pw = q.pw, !.legacy = FALSE]
    OBVIOUS
  <2>2. /\ u \in DocStates /\ u.id = d /\ u.email = q.who /\ u.roles = users[d].roles /\ u.pw = q.pw
        /\ u.verified = users[d].verified /\ u.mfa = users[d].mfa
    BY <1>4, <2>1 DEF DocStates, CallStates
  <2>3. users' = [users EXCEPT ![d] = u]
    BY <1>2, <1>3, <1>4, <1>8, <2>1 DEF Apart, Data, UsersOK
  <2>4. /\ proven' \in [People -> SUBSET Marks] /\ \A e \in People : proven[e] \subseteq proven'[e]
        /\ told' \in [People -> Nat] /\ \A e \in People : told'[e] = told[e]
        /\ minted' \in Nat
    BY <1>1 DEF Apart, Data
  <2>5. (u.verified => "verified" \in proven'[u.email]) /\ (u.mfa => "mfa" \in proven'[u.email])
    BY <1>1, <1>4, <2>2 DEF Apart, Data, MarksOK
  <2>6. u.email \in stale \/ u.pw = told'[u.email]
    BY <1>1, <1>5, <2>2
  <2>7. /\ Data' /\ Extends(users, users')
        /\ DOMAIN users' = DOMAIN users /\ Len(users') = Len(users)
    BY <1>1, <1>4, <2>2, <2>3, <2>4, <2>5, <2>6, WriteData DEF Apart
  <2>8. PICK k : k = [q EXCEPT !.at = "framework"]
    OBVIOUS
  <2>9. /\ k \in CallStates /\ k.at = "framework" /\ k.op = q.op /\ k.who = q.who /\ k.doc = q.doc /\ k.seen = q.seen
    BY <2>8 DEF CallStates, Places
  <2>10. call' = [call EXCEPT ![c] = k]
    BY <1>2, <1>6, <2>8, CallIs
  <2>11. CallOK(k, users, tokens, told, stale)
    BY <1>2, <1>3, <1>4, <2>9 DEF CallOK, AtDoc, AtSeen
  <2>12. CallOK(k, users', tokens', told', stale')
    BY <1>1, <2>7, <2>9, <2>11, SameUsers, CallFrame
  <2> QED
    BY <1>1, <1>2, <2>7, <2>9, <2>10, <2>12, SameUsers, StepKeeps
<1> QED
  BY <1>7, <1>8 DEF Users!UpgradeHash

LEMMA RereadKeeps ==
  ASSUME Apart, NEW c \in Callers, Users!Reread(c)
  PROVE  Apart'
<1>1. UNCHANGED <<users, tokens, codes, minted, told, proven, sources, served, stale>>
  BY DEF Users!Reread, Users!UnchangedData, Users!UnchangedCalls
<1>2. PICK q \in CallStates : q = call[c] /\ CallOK(q, users, tokens, told, stale) /\ q.op = "login" /\ q.at = "reread"
  BY CallIs DEF Users!Reread, Users!At
<1>3. PICK d : d = q.doc /\ DocOf(users, d, q.who)
  BY <1>2 DEF CallOK, AtDoc
<1>4. users[d] \in DocStates /\ users[d].email = q.who /\ users[d].id = d /\ q.who \in People
  BY <1>3, DocIs DEF Apart
<1>5. PICK u : u = users[d]
  OBVIOUS
<1>6. PICK at \in {"factor", "store"} : call' = [call EXCEPT ![c].at = at, ![c].seen = u]
  BY <1>2, <1>3, <1>5 DEF Users!Reread
<1>7. PICK k : k = [q EXCEPT !.at = at, !.seen = u]
  OBVIOUS
<1>8. /\ k \in CallStates /\ k.at = at /\ k.op = q.op /\ k.who = q.who /\ k.doc = d /\ k.seen = u
  BY <1>3, <1>4, <1>5, <1>7 DEF CallStates, Places
<1>9. call' = [call EXCEPT ![c] = k]
  BY <1>2, <1>4, <1>5, <1>6, <1>7, CallIs DEF CallStates
<1>10. CallOK(k, users, tokens, told, stale)
  BY <1>2, <1>3, <1>4, <1>5, <1>8 DEF CallOK, AtDoc, AtSeen
<1> QED
  BY <1>1, <1>2, <1>8, <1>9, <1>10, StayKeeps, QuietData, QuietCodes DEF Apart

LEMMA AskFactorKeeps ==
  ASSUME Apart, NEW c \in Callers, Users!AskFactor(c)
  PROVE  Apart'
<1>1. UNCHANGED <<minted, told, proven, tokens, codes, sources, served, stale>>
  BY DEF Users!AskFactor, Users!UnchangedRest, Users!UnchangedCalls
<1>2. PICK q \in CallStates : q = call[c] /\ CallOK(q, users, tokens, told, stale) /\ q.op = "login" /\ q.at = "factor"
  BY CallIs DEF Users!AskFactor, Users!At
<1>3. PICK d : d = q.seen.id /\ DocOf(users, d, q.who) /\ DocOf(users, q.doc, q.who) /\ q.seen.email = q.who
  BY <1>2 DEF CallOK, AtDoc, AtSeen
<1>4. /\ d \in DOMAIN users /\ users[d] \in DocStates /\ users[d].email = q.who /\ users[d].id = d
      /\ users[d].roles \in {q.who, "asked", "create", "portal"} /\ Users!ById(d) = d /\ q.who \in People
  BY <1>3, DocIs DEF Apart
<1>5. Users!Goto(c, "store")
  BY DEF Users!AskFactor
<1>6. CASE UNCHANGED users
  BY <1>1, <1>2, <1>3, <1>5, <1>6, QuietData, QuietCodes, GoesOn DEF Apart, Places
<1>7. CASE users' = [users EXCEPT ![Users!ById(call[c].seen.id)].after = "no"]
  <2>1. PICK u : u = [users[d] EXCEPT !.after = "no"]
    OBVIOUS
  <2>2. /\ u \in DocStates /\ u.id = d /\ u.email = q.who /\ u.roles = users[d].roles /\ u.pw = users[d].pw
        /\ u.verified = users[d].verified /\ u.mfa = users[d].mfa
    BY <1>4, <2>1 DEF DocStates
  <2>3. users' = [users EXCEPT ![d] = u]
    BY <1>2, <1>3, <1>4, <1>7, <2>1
  <2>4. proven' \in [People -> SUBSET Marks] /\ \A e \in People : proven[e] \subseteq proven'[e]
    BY <1>1 DEF Apart, Data
  <2>5. (u.verified => "verified" \in proven'[u.email]) /\ (u.mfa => "mfa" \in proven'[u.email])
    BY <1>1, <1>4, <2>2 DEF Apart, Data, MarksOK
  <2>6. PICK k : k = [q EXCEPT !.at = "store"]
    OBVIOUS
  <2>7. /\ k \in CallStates /\ k.at = "store" /\ k.op = q.op /\ k.who = q.who /\ k.doc = q.doc /\ k.seen = q.seen
    BY <2>6 DEF CallStates, Places
  <2>8. call' = [call EXCEPT ![c] = k]
    BY <1>2, <1>5, <2>6, CallIs DEF Users!Goto
  <2>9. CallOK(k, users, tokens, told, stale)
    BY <1>2, <1>3, <1>4, <2>7 DEF CallOK, AtDoc, AtSeen
  <2> QED
    BY <1>1, <1>2, <1>4, <2>2, <2>3, <2>4, <2>5, <2>7, <2>8, <2>9, OwnWrite
<1> QED
  BY <1>6, <1>7 DEF Users!AskFactor

LEMMA StoreTokenKeeps ==
  ASSUME Apart, NEW c \in Callers, Users!StoreToken(c)
  PROVE  Apart'
<1>1. UNCHANGED <<users, codes, minted, told, proven, sources, served, stale>>
  BY DEF Users!StoreToken, Users!UnchangedCalls
<1>2. PICK q \in CallStates : q = call[c] /\ CallOK(q, users, tokens, told, stale) /\ q.at = "store"
  BY CallIs DEF Users!StoreToken
<1>3. DocOf(users, q.seen.id, q.who) /\ q.seen.email = q.who
  BY <1>2 DEF CallOK, AtSeen, AtDoc
<1>4. q.who \in People /\ q.seen.id \in Nat
  BY <1>3, DocIs DEF Apart
<1>5. tokens \in Seq(TokenStates) /\ Len(tokens) \in Nat /\ DOMAIN tokens = 1..Len(tokens)
  BY LenProperties DEF Apart, Data, TokensOK
<1>6. TokensOK(users', tokens') /\ Continues(tokens, tokens')
  <2>1. PICK state \in {"live", "unstored"} :
            tokens' = IF call[c].op = "register" /\ state = "unstored" THEN tokens
                      ELSE Append(tokens, [id |-> call[c].seen.id, email |-> call[c].seen.email,
                                           holder |-> call[c].who, state |-> state])
    BY DEF Users!StoreToken
  <2>2. PICK t : t = [id |-> q.seen.id, email |-> q.who, holder |-> q.who, state |-> state]
    OBVIOUS
  <2>3. t \in TokenStates /\ t.id = q.seen.id /\ t.email = q.who /\ t.holder = q.who
    BY <1>4, <2>2 DEF TokenStates
  <2>4. tokens' = tokens \/ tokens' = Append(tokens, t)
    BY <1>2, <1>3, <2>1, <2>2
  <2>5. CASE tokens' = tokens
    BY <1>1, <2>5, SameUsers DEF Apart, Data
  <2>6. CASE tokens' = Append(tokens, t)
    <3>1. /\ tokens' \in Seq(TokenStates) /\ Len(tokens') = Len(tokens) + 1 /\ tokens'[Len(tokens) + 1] = t
          /\ \A i \in 1..Len(tokens) : tokens'[i] = tokens[i]
      BY <1>5, <2>3, <2>6, AppendProperties
    <3>2. DOMAIN tokens' = 1..(Len(tokens) + 1)
      BY <3>1, LenProperties
    <3>3. \A i \in DOMAIN tokens' : i \in DOMAIN tokens \/ i = Len(tokens) + 1
      BY <1>5, <3>2
    <3>4. DOMAIN tokens \subseteq DOMAIN tokens'
      BY <1>5, <3>2
    <3>5. Continues(tokens, tokens')
      BY <1>5, <3>1, <3>4 DEF Continues
    <3>6. TokensOK(users, tokens')
      BY <1>3, <1>5, <2>3, <3>1, <3>3 DEF Apart, Data, TokensOK
    <3> QED
      BY <1>1, <3>5, <3>6
  <2> QED
    BY <2>4, <2>5, <2>6
<1>7. Data'
  BY <1>1, <1>6 DEF Apart, Data
<1>8. call' = [call EXCEPT ![c] = Users!Idle] /\ Users!Idle.op = "none"
  BY DEF Users!StoreToken, Users!Done, Users!Idle
<1> QED
  BY <1>1, <1>6, <1>7, <1>8, IdleOK, SameUsers, StepKeeps

\* What a request finds of its token is the document of its holder.
LEMMA LoginCheckKeeps ==
  ASSUME Apart, NEW c \in Callers, Users!LoginCheck(c) \/ Users!RefreshAccess(c)
  PROVE  Apart'
<1>1. UNCHANGED <<users, tokens, codes, minted, told, proven, sources, served, stale>>
  BY DEF Users!LoginCheck, Users!RefreshAccess, Users!UnchangedData, Users!UnchangedCalls
<1>2. Data'
  BY <1>1, QuietData, QuietCodes DEF Apart
<1>3. PICK q \in CallStates : /\ q = call[c] /\ CallOK(q, users, tokens, told, stale)
                              /\ q.op = "request" /\ q.at = "check"
  BY CallIs DEF Users!LoginCheck, Users!RefreshAccess, Users!At
<1>4. TokenOf(tokens, q.n, q.who)
  BY <1>3 DEF CallOK
<1>5. PICK d : d = tokens[q.n].id /\ DocOf(users, d, q.who) /\ Users!ByToken(q.n) = d
  BY <1>4, FindByToken DEF Apart, Data
<1>6. /\ users[d] \in DocStates /\ users[d].email = q.who /\ users[d].id = d /\ q.who \in People
      /\ Users!ById(d) = d /\ Users!ByEmail(q.who) = d
  BY <1>5, DocIs DEF Apart
<1>7. tokens[q.n].email = q.who
  BY <1>4 DEF Apart, Data, TokensOK, TokenOf
<1>8. PICK u : u = users[d]
  OBVIOUS
<1>9. Users!Done(c) \/ call' = [call EXCEPT ![c].at = "enrich", ![c].seen = u]
  <2>1. CASE Users!LoginCheck(c)
    BY <1>3, <1>5, <1>8, <2>1 DEF Users!LoginCheck
  <2>2. CASE Users!RefreshAccess(c)
    BY <1>3, <1>6, <1>7, <1>8, <2>2 DEF Users!RefreshAccess
  <2> QED
    BY <2>1, <2>2
<1>10. CASE call' = [call EXCEPT ![c].at = "enrich", ![c].seen = u]
  <2>1. PICK k : k = [q EXCEPT !.at = "enrich", !.seen = u]
    OBVIOUS
  <2>2. /\ k \in CallStates /\ k.at = "enrich" /\ k.op = q.op /\ k.who = q.who /\ k.seen = u /\ k.n = q.n
    BY <1>6, <1>8, <2>1 DEF CallStates, Places
  <2>3. call' = [call EXCEPT ![c] = k]
    BY <1>3, <1>10, <2>1, CallIs DEF CallStates
  <2>4. CallOK(k, users, tokens, told, stale)
    BY <1>3, <1>4, <1>5, <1>6, <1>8, <2>2 DEF CallOK, AtDoc, AtSeen
  <2> QED
    BY <1>1, <1>2, <1>3, <2>2, <2>3, <2>4, StayKeeps
<1> QED
  BY <1>1, <1>2, <1>9, <1>10, DoneKeeps

LEMMA EnrichKeeps ==
  ASSUME Apart, NEW c \in Callers, Users!Enrich(c)
  PROVE  Apart'
<1>1. UNCHANGED <<users, tokens, codes, minted, told, proven, sources, stale>> /\ Users!Done(c)
  BY DEF Users!Enrich, Users!UnchangedCalls
<1>2. PICK q \in CallStates : q = call[c] /\ CallOK(q, users, tokens, told, stale) /\ q.at = "enrich"
  BY CallIs DEF Users!Enrich, Users!At
<1>3. PICK d : DocOf(users, d, q.who) /\ q.seen.email = q.who
  BY <1>2 DEF CallOK, AtSeen
<1>4. users[Users!ByEmail(q.who)].email = q.who
  BY <1>3, DocIs DEF Apart
<1>5. served' = served \cup {<<q.who, q.who>>}
  BY <1>2, <1>3, <1>4 DEF Users!Enrich
<1>6. ServedOK(served')
  BY <1>5 DEF Apart, Data, ServedOK
<1>7. Data'
  BY <1>1, <1>6 DEF Apart, Data
<1> QED
  BY <1>1, <1>7, DoneKeeps

\* Tokens that only change their states.
LEMMA TokensRevoked ==
  ASSUME Data, NEW W, W \in Seq(TokenStates), DOMAIN W = DOMAIN tokens,
         \A t \in DOMAIN tokens : /\ W[t].id = tokens[t].id /\ W[t].email = tokens[t].email
                                  /\ W[t].holder = tokens[t].holder
  PROVE  TokensOK(users, W) /\ Continues(tokens, W)
BY DEF Data, TokensOK, Continues

LEMMA RevokedToken ==
  ASSUME NEW t \in TokenStates
  PROVE  /\ Users!Revoked(t) \in TokenStates /\ Users!Revoked(t).id = t.id
         /\ Users!Revoked(t).email = t.email /\ Users!Revoked(t).holder = t.holder
BY DEF Users!Revoked, TokenStates

LEMMA LogoutKeeps ==
  ASSUME Apart, NEW t \in DOMAIN tokens, Users!Logout(t)
  PROVE  Apart'
<1>1. UNCHANGED <<users, codes, minted, told, proven, sources, served, stale, call>>
  BY DEF Users!Logout, Users!AtOnce
<1>2. tokens \in Seq(TokenStates) /\ t \in 1..Len(tokens) /\ tokens[t] \in TokenStates
  BY LenProperties, ElementOfSeq DEF Apart, Data, TokensOK
<1>3. PICK r \in TokenStates : /\ r = Users!Revoked(tokens[t]) /\ r.id = tokens[t].id
                               /\ r.email = tokens[t].email /\ r.holder = tokens[t].holder
  BY <1>2, RevokedToken
<1>4. tokens' = [tokens EXCEPT ![t] = r]
  BY <1>3 DEF Users!Logout
<1>5. tokens' \in Seq(TokenStates) /\ DOMAIN tokens' = DOMAIN tokens
  BY <1>2, <1>4, ExceptSeq
<1>6. \A i \in DOMAIN tokens : /\ tokens'[i].id = tokens[i].id /\ tokens'[i].email = tokens[i].email
                               /\ tokens'[i].holder = tokens[i].holder
  BY <1>3, <1>4
<1>7. TokensOK(users, tokens') /\ Continues(tokens, tokens')
  BY <1>5, <1>6, TokensRevoked DEF Apart
<1>8. Data'
  BY <1>1, <1>7 DEF Apart, Data
<1> QED
  BY <1>1, <1>7, <1>8, SameUsers, OneKeeps

-----------------------------------------------------------------------------
(* Passwords and codes.                                                    *)

LEMMA ClosedCodes ==
  ASSUME Data, NEW k, Users!Closed(k)
  PROVE  codes' \in Seq(CodeStates)
<1>1. codes \in Seq(CodeStates) /\ DOMAIN codes = 1..Len(codes)
  BY LenProperties DEF Data
<1>2. CASE k \in DOMAIN codes
  <2>1. codes[k] \in CodeStates
    BY <1>1, <1>2, ElementOfSeq
  <2>2. PICK x : x = [codes[k] EXCEPT !.open = FALSE]
    OBVIOUS
  <2>3. x \in CodeStates
    BY <2>1, <2>2 DEF CodeStates
  <2>4. codes' = [codes EXCEPT ![k] = x]
    BY <2>2 DEF Users!Closed
  <2> QED
    BY <1>1, <1>2, <2>3, <2>4, ExceptSeq
<1>3. CASE k \notin DOMAIN codes
  <2>1. codes' = codes
    BY <1>1, <1>3 DEF Users!Closed
  <2> QED
    BY <1>1, <2>1
<1> QED
  BY <1>2, <1>3

LEMMA SentCode ==
  ASSUME Data, NEW kind \in {"reset", "otp"}, NEW e \in People,
         codes' = Append(codes, [kind |-> kind, email |-> e, open |-> TRUE])
  PROVE  codes' \in Seq(CodeStates)
<1>1. PICK x : x = [kind |-> kind, email |-> e, open |-> TRUE]
  OBVIOUS
<1>2. x \in CodeStates
  BY <1>1 DEF CodeStates
<1> QED
  BY <1>1, <1>2, AppendProperties DEF Data

\* What a token leads to is the document of its holder.
LEMMA TokenDoc ==
  ASSUME Data, NEW t \in DOMAIN tokens
  PROVE  DocOf(users, Users!ByToken(t), tokens[t].holder)
BY FindByToken DEF Data, TokenOf

LEMMA SendResetKeeps ==
  ASSUME Apart, NEW e \in People, Users!SendResetCode(e)
  PROVE  Apart'
<1>1. codes' \in Seq(CodeStates)
  BY SentCode DEF Users!SendResetCode, Apart
<1>2. UNCHANGED <<users, tokens, minted, told, proven, sources, served, stale, call>>
  BY DEF Users!SendResetCode, Users!AtOnce
<1> QED
  BY <1>1, <1>2, QuietData, OneKeeps, SameUsers DEF Apart

LEMMA CodeExpiresKeeps ==
  ASSUME Apart, NEW k \in DOMAIN codes, Users!CodeExpires(k)
  PROVE  Apart'
<1>1. codes' \in Seq(CodeStates)
  BY ClosedCodes DEF Users!CodeExpires, Apart
<1>2. UNCHANGED <<users, tokens, minted, told, proven, sources, served, stale, call>>
  BY DEF Users!CodeExpires, Users!UnchangedCalls
<1> QED
  BY <1>1, <1>2, QuietData, OneKeeps, SameUsers DEF Apart

LEMMA SendOtpKeeps ==
  ASSUME Apart, NEW t \in DOMAIN tokens, Users!SendOtp(t)
  PROVE  Apart'
<1>1. users[Users!ByToken(t)].email \in People
  BY TokenDoc, DocIs DEF Apart
<1>2. PICK e \in People : e = users[Users!ByToken(t)].email
  BY <1>1
<1>3. codes' = Append(codes, [kind |-> "otp", email |-> e, open |-> TRUE])
  BY <1>2 DEF Users!SendOtp
<1>4. codes' \in Seq(CodeStates)
  BY <1>3, SentCode DEF Apart
<1>5. UNCHANGED <<users, tokens, minted, told, proven, sources, served, stale, call>>
  BY DEF Users!SendOtp, Users!AtOnce
<1> QED
  BY <1>4, <1>5, QuietData, OneKeeps, SameUsers DEF Apart

LEMMA CreateTotpKeeps ==
  ASSUME Apart, NEW t \in DOMAIN tokens, Users!CreateTotp(t)
  PROVE  Apart'
<1>1. UNCHANGED <<users, tokens, codes, minted, told, proven, sources, served, stale, call>>
  BY DEF Users!CreateTotp, Users!AtOnce
<1> QED
  BY <1>1, QuietData, QuietCodes, OneKeeps, SameUsers DEF Apart

LEMMA CheckResetKeeps ==
  ASSUME Apart, NEW c \in Callers, Users!CheckResetCode(c)
  PROVE  Apart'
<1>1. UNCHANGED <<users, tokens, codes, minted, told, proven, sources, served, stale>>
  BY DEF Users!CheckResetCode, Users!UnchangedData, Users!UnchangedCalls
<1>2. Data'
  BY <1>1, QuietData, QuietCodes DEF Apart
<1>3. PICK q \in CallStates : q = call[c] /\ CallOK(q, users, tokens, told, stale) /\ q.op = "reset"
  BY CallIs DEF Users!CheckResetCode, Users!At
<1>4. PICK d : d = Users!ByEmail(q.who)
  OBVIOUS
<1>5. PICK u : u = users[d]
  OBVIOUS
<1>6. CASE d # 0 /\ call' = [call EXCEPT ![c].at = "set", ![c].doc = d, ![c].seen = u]
  <2>1. DocOf(users, d, q.who)
    BY <1>4, <1>6, FindByEmail DEF Apart, Data
  <2>2. u \in DocStates /\ d \in Nat /\ q.who \in People
    BY <1>5, <2>1, DocIs DEF Apart
  <2>3. PICK k : k = [q EXCEPT !.at = "set", !.doc = d, !.seen = u]
    OBVIOUS
  <2>4. k \in CallStates /\ k.at = "set" /\ k.op = q.op /\ k.who = q.who /\ k.doc = d
    BY <2>2, <2>3 DEF CallStates, Places
  <2>5. call' = [call EXCEPT ![c] = k]
    BY <1>3, <1>6, <2>2, <2>3, CallIs DEF CallStates
  <2>6. CallOK(k, users, tokens, told, stale)
    BY <1>3, <2>1, <2>2, <2>4 DEF CallOK, AtDoc, AtSeen
  <2> QED
    BY <1>1, <1>2, <1>3, <2>4, <2>5, <2>6, StayKeeps
<1>7. Users!Done(c) \/ (d # 0 /\ call' = [call EXCEPT ![c].at = "set", ![c].doc = d, ![c].seen = u])
  BY <1>3, <1>4, <1>5 DEF Users!CheckResetCode
<1> QED
  BY <1>1, <1>2, <1>6, <1>7, DoneKeeps

\* A new password in the document of the person it is for.
LEMMA NewPassword ==
  ASSUME Apart, NEW c \in Callers, NEW temp \in Nat, call[c].op \in Users!Changes, call[c].at = "set",
         Users!SetPassword(call[c].doc, temp), told' = [told EXCEPT ![call[c].who] = minted + 1],
         UNCHANGED <<tokens, codes, proven, sources, served, stale>>,
         NEW k, call' = [call EXCEPT ![c] = k],
         k = Users!Idle \/ (k.op = call[c].op /\ k.who = call[c].who /\ CallOK(k, users, tokens, told, stale)
                              /\ k.at # "upgrade")
  PROVE  Apart'
<1>1. PICK q \in CallStates : q = call[c] /\ CallOK(q, users, tokens, told, stale)
  BY CallIs
<1>2. PICK d : d = q.doc /\ DocOf(users, d, q.who)
  BY <1>1 DEF CallOK, AtDoc
<1>3. /\ d \in DOMAIN users /\ users[d] \in DocStates /\ users[d].email = q.who /\ users[d].id = d
      /\ users[d].roles \in {q.who, "asked", "create", "portal"} /\ q.who \in People
  BY <1>2, DocIs DEF Apart
<1>4. PICK p \in Nat : p = minted + 1
  BY DEF Apart, Data
<1>5. PICK u : u = [users[d] EXCEPT !.pw = p, !.temp = temp, !.legacy = FALSE, !.changed = TRUE]
  OBVIOUS
<1>6. /\ u \in DocStates /\ u.id = d /\ u.email = q.who /\ u.roles = users[d].roles /\ u.pw = p
      /\ u.verified = users[d].verified /\ u.mfa = users[d].mfa
  BY <1>3, <1>4, <1>5 DEF DocStates
<1>7. users' = [users EXCEPT ![d] = u] /\ minted' = p
  BY <1>1, <1>2, <1>3, <1>4, <1>5 DEF Users!SetPassword, Apart, Data, UsersOK
<1>8. told' \in [People -> Nat] /\ told'[q.who] = p /\ \A e \in People : e # q.who => told'[e] = told[e]
  BY <1>1, <1>3, <1>4 DEF Apart, Data
<1>9. proven' \in [People -> SUBSET Marks] /\ \A e \in People : proven[e] \subseteq proven'[e]
  BY DEF Apart, Data
<1>10. (u.verified => "verified" \in proven'[u.email]) /\ (u.mfa => "mfa" \in proven'[u.email])
  BY <1>3, <1>6 DEF Apart, Data, MarksOK
<1>11. /\ Data' /\ Extends(users, users')
       /\ DOMAIN users' = DOMAIN users /\ Len(users') = Len(users)
  <2>1. /\ u.pw = told'[u.email] /\ \A e \in People : e # u.email => told'[e] = told[e]
        /\ minted' \in Nat
    BY <1>6, <1>7, <1>8
  <2>2. Data /\ u.id = d /\ u.email = users[d].email /\ u.roles \in {u.email, "asked", "create", "portal"}
    BY <1>3, <1>6 DEF Apart
  <2> QED
    BY <1>3, <1>6, <1>7, <1>8, <1>9, <1>10, <2>1, <2>2, WriteData
<1>12. CallOK(k, users', tokens', told', stale')
  <2>1. CASE k = Users!Idle
    BY <2>1, IdleOK
  <2>2. CASE k.at # "upgrade" /\ CallOK(k, users, tokens, told, stale)
    BY <1>11, <2>2, SameUsers, CallFrame
  <2> QED
    BY <2>1, <2>2
<1>13. ASSUME NEW o \in Callers \ {c}, call[o].at = "upgrade"
       PROVE  call[o].who \in stale \/ told'[call[o].who] = told[call[o].who]
  <2>1. call[o].op = "login" /\ call[o].who \in People
    BY <1>13, CallIs DEF CallOK
  <2>2. CASE call[o].who = q.who
    BY <1>1, <2>1, <2>2 DEF Apart, Calls, PairOK, Passwords
  <2>3. CASE call[o].who # q.who
    BY <1>8, <2>1, <2>3
  <2> QED
    BY <2>2, <2>3
<1>14. k.op = "none" \/ (k.op = call[c].op /\ k.who = call[c].who)
  BY DEF Users!Idle
<1> QED
  BY <1>11, <1>12, <1>13, <1>14, SameUsers, StepKeeps

LEMMA ResetPasswordKeeps ==
  ASSUME Apart, NEW c \in Callers, Users!ResetPassword(c)
  PROVE  Apart'
<1>1. PICK q \in CallStates : /\ q = call[c] /\ CallOK(q, users, tokens, told, stale)
                              /\ q.op = "reset" /\ q.at = "set"
  BY CallIs DEF Users!ResetPassword, Users!At
<1>2. PICK k : k = [q EXCEPT !.at = "use"]
  OBVIOUS
<1>3. k \in CallStates /\ k.at = "use" /\ k.op = q.op /\ k.who = q.who
  BY <1>2 DEF CallStates, Places
<1>4. call' = [call EXCEPT ![c] = k]
  BY <1>1, <1>2, CallIs DEF Users!ResetPassword, Users!Goto
<1>5. CallOK(k, users, tokens, told, stale)
  BY <1>1, <1>3 DEF CallOK, AtDoc, AtSeen
<1>6. UNCHANGED <<tokens, codes, proven, sources, served, stale>>
  BY DEF Users!ResetPassword, Users!UnchangedCalls
<1>7. Users!SetPassword(call[c].doc, 0) /\ told' = [told EXCEPT ![call[c].who] = minted + 1]
  BY DEF Users!ResetPassword
<1> QED
  BY <1>1, <1>3, <1>4, <1>5, <1>6, <1>7, NewPassword DEF Users!Changes

LEMMA ChangePasswordKeeps ==
  ASSUME Apart, NEW c \in Callers, Users!ChangePassword(c)
  PROVE  Apart'
<1>1. UNCHANGED <<tokens, codes, proven, sources, served, stale>>
  BY DEF Users!ChangePassword, Users!UnchangedCalls
<1>2. PICK temp \in Nat : Users!SetPassword(call[c].doc, temp)
  BY DEF Users!ChangePassword, Apart, Data
<1>3. /\ told' = [told EXCEPT ![call[c].who] = minted + 1] /\ call' = [call EXCEPT ![c] = Users!Idle]
      /\ call[c].op \in Users!Changes /\ call[c].at = "set"
  BY DEF Users!ChangePassword, Users!Done, Users!Changes
<1> QED
  BY <1>1, <1>2, <1>3, NewPassword

LEMMA UseResetKeeps ==
  ASSUME Apart, NEW c \in Callers, Users!UseResetCode(c)
  PROVE  Apart'
<1>1. UNCHANGED <<users, tokens, minted, told, proven, sources, served, stale>>
  BY DEF Users!UseResetCode, Users!UnchangedCalls
<1>2. codes' \in Seq(CodeStates)
  BY ClosedCodes DEF Users!UseResetCode, Apart
<1>3. Data'
  BY <1>1, <1>2, QuietData DEF Apart
<1>4. Users!Goto(c, "revoke") /\ "revoke" \in Places /\ "revoke" \notin AtDoc \cup AtSeen
  BY DEF Users!UseResetCode, Places, AtDoc, AtSeen
<1> QED
  BY <1>1, <1>3, <1>4, GoesOn

LEMMA RevokeKeeps ==
  ASSUME Apart, NEW c \in Callers, Users!RevokeTokens(c)
  PROVE  Apart'
<1>1. UNCHANGED <<users, codes, minted, told, proven, sources, served, stale>>
  BY DEF Users!RevokeTokens, Users!UnchangedCalls
<1>2. tokens \in Seq(TokenStates) /\ DOMAIN tokens = 1..Len(tokens) /\ Len(tokens) \in Nat
  BY LenProperties DEF Apart, Data, TokensOK
<1>3. DOMAIN tokens' = DOMAIN tokens
  BY DEF Users!RevokeTokens
<1>4. ASSUME NEW t \in DOMAIN tokens
      PROVE  /\ tokens'[t] \in TokenStates /\ tokens'[t].id = tokens[t].id
             /\ tokens'[t].email = tokens[t].email /\ tokens'[t].holder = tokens[t].holder
  <2>1. tokens[t] \in TokenStates
    BY <1>2, <1>4, ElementOfSeq
  <2>2. tokens'[t] = tokens[t] \/ tokens'[t] = Users!Revoked(tokens[t])
    BY <1>4 DEF Users!RevokeTokens
  <2> QED
    BY <2>1, <2>2, RevokedToken
<1>5. tokens' \in Seq(TokenStates)
  <2>1. tokens' = [t \in 1..Len(tokens) |-> tokens'[t]]
    BY <1>2 DEF Users!RevokeTokens
  <2>2. tokens' \in [1..Len(tokens) -> TokenStates]
    BY <1>2, <1>4, <2>1
  <2> QED
    BY <1>2, <2>2, SeqDef
<1>6. TokensOK(users, tokens') /\ Continues(tokens, tokens')
  BY <1>3, <1>4, <1>5, TokensRevoked DEF Apart
<1>7. Data'
  BY <1>1, <1>6 DEF Apart, Data
<1>8. call' = [call EXCEPT ![c] = Users!Idle] /\ Users!Idle.op = "none"
  BY DEF Users!RevokeTokens, Users!Done, Users!Idle
<1> QED
  BY <1>1, <1>6, <1>7, <1>8, IdleOK, SameUsers, StepKeeps

LEMMA ResetFailsKeeps ==
  ASSUME Apart, NEW c \in Callers, Users!ResetFails(c)
  PROVE  Apart'
BY DoneKeeps, QuietData, QuietCodes
   DEF Users!ResetFails, Apart, Users!UnchangedData, Users!UnchangedCalls

LEMMA FindKeeps ==
  ASSUME Apart, NEW c \in Callers, Users!FindForUpdate(c) \/ Users!FindForFirst(c)
  PROVE  Apart'
<1>1. UNCHANGED <<users, tokens, codes, minted, told, proven, sources, served, stale>>
  BY DEF Users!FindForUpdate, Users!FindForFirst, Users!UnchangedData, Users!UnchangedCalls
<1>2. Data'
  BY <1>1, QuietData, QuietCodes DEF Apart
<1>3. PICK q \in CallStates : q = call[c] /\ CallOK(q, users, tokens, told, stale)
  BY CallIs
<1>4. ASSUME NEW d, DocOf(users, d, q.who), q.op \in {"update", "first"},
             call' = [call EXCEPT ![c].at = "set", ![c].doc = d]
      PROVE  Apart'
  <2>1. d \in Nat /\ q.who \in People
    BY <1>4, DocIs DEF Apart
  <2>2. PICK k : k = [q EXCEPT !.at = "set", !.doc = d]
    OBVIOUS
  <2>3. /\ k \in CallStates /\ k.at = "set" /\ k.op = q.op /\ k.who = q.who /\ k.doc = d /\ k.n = q.n
    BY <2>1, <2>2 DEF CallStates, Places
  <2>4. call' = [call EXCEPT ![c] = k]
    BY <1>3, <1>4, <2>1, <2>2, CallIs DEF CallStates
  <2>5. CallOK(k, users, tokens, told, stale)
    BY <1>3, <1>4, <2>1, <2>3 DEF CallOK, AtDoc, AtSeen
  <2> QED
    BY <1>1, <1>2, <1>3, <2>3, <2>4, <2>5, StayKeeps
<1>5. CASE Users!FindForUpdate(c)
  <2>1. q.op = "update" /\ q.at = "find"
    BY <1>3, <1>5 DEF Users!FindForUpdate, Users!At
  <2>2. PICK d : /\ d = (IF q.n # 0 THEN Users!ById(q.n) ELSE Users!ByEmail(q.who))
                 /\ call' = [call EXCEPT ![c].at = "set", ![c].doc = d]
    BY <1>3, <1>5 DEF Users!FindForUpdate
  <2>3. CASE q.n # 0
    BY <1>3, <1>4, <2>1, <2>2, <2>3, DocIs DEF CallOK, Apart
  <2>4. CASE q.n = 0
    <3>1. \E f \in DOMAIN users : users[f].email = q.who
      BY <1>3, <2>1 DEF CallOK
    <3>2. DocOf(users, d, q.who)
      BY <2>2, <2>4, <3>1, FindByEmail DEF Apart, Data
    <3> QED
      BY <1>4, <2>1, <2>2, <3>2
  <2> QED
    BY <2>3, <2>4
<1>6. CASE Users!FindForFirst(c)
  <2>1. q.op = "first" /\ q.at = "find"
    BY <1>3, <1>6 DEF Users!FindForFirst, Users!At
  <2>2. PICK d : d = (IF q.n # 0 THEN Users!ByToken(q.n) ELSE Users!ByEmail(q.who))
    OBVIOUS
  <2>3. Users!Done(c) \/ (d # 0 /\ call' = [call EXCEPT ![c].at = "set", ![c].doc = d])
    BY <1>3, <1>6, <2>2 DEF Users!FindForFirst
  <2>4. CASE d # 0 /\ call' = [call EXCEPT ![c].at = "set", ![c].doc = d]
    <3>1. CASE q.n # 0
      <4>1. DocOf(users, d, q.who)
        BY <1>3, <2>1, <2>2, <3>1, FindByToken DEF CallOK, Apart, Data
      <4> QED
        BY <1>4, <2>1, <2>4, <4>1
    <3>2. CASE q.n = 0
      <4>1. DocOf(users, d, q.who)
        BY <2>2, <2>4, <3>2, FindByEmail DEF Apart, Data
      <4> QED
        BY <1>4, <2>1, <2>4, <4>1
    <3> QED
      BY <3>1, <3>2
  <2> QED
    BY <1>1, <1>2, <2>3, <2>4, DoneKeeps
<1> QED
  BY <1>5, <1>6

-----------------------------------------------------------------------------
(* Second factors.                                                         *)

\* A code or a secret that fits is checked against the document of the token.
LEMMA FactorChecked ==
  ASSUME Apart, NEW c \in Callers, Users!CheckOtp(c) \/ Users!CheckTotp(c)
  PROVE  Apart'
<1>1. UNCHANGED <<users, tokens, codes, minted, told, proven, sources, served, stale>>
  BY DEF Users!CheckOtp, Users!CheckTotp, Users!UnchangedData, Users!UnchangedCalls
<1>2. Data'
  BY <1>1, QuietData, QuietCodes DEF Apart
<1>3. PICK q \in CallStates : q = call[c] /\ CallOK(q, users, tokens, told, stale) /\ q.op \in {"otp", "totp"}
  BY CallIs DEF Users!CheckOtp, Users!CheckTotp, Users!At
<1>4. TokenOf(tokens, q.n, q.who)
  BY <1>3 DEF CallOK
<1>5. PICK d : d = Users!ByToken(q.n) /\ DocOf(users, d, q.who)
  BY <1>4, FindByToken DEF Apart, Data
<1>6. PICK u : u = users[d]
  OBVIOUS
<1>7. u \in DocStates /\ u.email = q.who /\ u.id = d /\ q.who \in People
  BY <1>5, <1>6, DocIs DEF Apart
<1>8. Users!Done(c) \/ \E at \in {"use", "mark"} : call' = [call EXCEPT ![c].at = at, ![c].seen = u]
  BY <1>3, <1>5, <1>6 DEF Users!CheckOtp, Users!CheckTotp
<1>9. ASSUME NEW at \in {"use", "mark"}, call' = [call EXCEPT ![c].at = at, ![c].seen = u]
      PROVE  Apart'
  <2>1. PICK k : k = [q EXCEPT !.at = at, !.seen = u]
    OBVIOUS
  <2>2. k \in CallStates /\ k.at = at /\ k.op = q.op /\ k.who = q.who /\ k.seen = u /\ k.n = q.n
    BY <1>7, <2>1 DEF CallStates, Places
  <2>3. call' = [call EXCEPT ![c] = k]
    BY <1>3, <1>7, <1>9, <2>1, CallIs DEF CallStates
  <2>4. CallOK(k, users, tokens, told, stale)
    BY <1>3, <1>4, <1>5, <1>7, <2>2 DEF CallOK, AtDoc, AtSeen
  <2> QED
    BY <1>1, <1>2, <1>3, <2>2, <2>3, <2>4, StayKeeps
<1> QED
  BY <1>1, <1>2, <1>8, <1>9, DoneKeeps

LEMMA UseOtpKeeps ==
  ASSUME Apart, NEW c \in Callers, Users!UseOtp(c)
  PROVE  Apart'
<1>1. UNCHANGED <<users, tokens, minted, told, proven, sources, served, stale>>
  BY DEF Users!UseOtp, Users!UnchangedCalls
<1>2. codes' \in Seq(CodeStates)
  BY ClosedCodes DEF Users!UseOtp, Apart
<1>3. Data'
  BY <1>1, <1>2, QuietData DEF Apart
<1>4. CallOK(call[c], users, tokens, told, stale) /\ call[c].op = "otp" /\ call[c].at = "use"
  BY CallIs DEF Users!UseOtp, Users!At
<1>5. DocOf(users, call[c].seen.id, call[c].who) /\ call[c].seen.email = call[c].who
  BY <1>4 DEF CallOK
<1>6. Users!Goto(c, "mark") /\ "mark" \in Places /\ "mark" \notin AtDoc
  BY DEF Users!UseOtp, Places, AtDoc
<1> QED
  BY <1>1, <1>3, <1>5, <1>6, GoesOn

\* The mark goes to the person who passed the factor.
LEMMA MarkKeeps ==
  ASSUME Apart, NEW c \in Callers, Users!MarkVerified(c) \/ Users!EnableMfa(c)
  PROVE  Apart'
<1>1. UNCHANGED <<minted, told, tokens, codes, sources, served, stale>> /\ Users!Done(c)
  BY DEF Users!MarkVerified, Users!EnableMfa, Users!UnchangedRest, Users!UnchangedCalls
<1>2. PICK q \in CallStates : q = call[c] /\ CallOK(q, users, tokens, told, stale) /\ q.at = "mark"
  BY CallIs DEF Users!MarkVerified, Users!EnableMfa, Users!At
<1>3. PICK d : d = q.seen.id /\ DocOf(users, d, q.who)
  BY <1>2 DEF CallOK, AtSeen
<1>4. /\ d \in DOMAIN users /\ users[d] \in DocStates /\ users[d].email = q.who /\ users[d].id = d
      /\ users[d].roles \in {q.who, "asked", "create", "portal"} /\ Users!ById(d) = d /\ q.who \in People
  BY <1>3, DocIs DEF Apart
<1>5. proven \in [People -> SUBSET Marks] /\ MarksOK(users, proven)
  BY DEF Apart, Data
<1>6. call' = [call EXCEPT ![c] = Users!Idle]
  BY <1>1 DEF Users!Done
<1>7. ASSUME NEW mark \in Marks, proven' = [proven EXCEPT ![q.who] = @ \cup {mark}]
      PROVE  /\ proven' \in [People -> SUBSET Marks] /\ \A e \in People : proven[e] \subseteq proven'[e]
             /\ mark \in proven'[q.who]
  BY <1>4, <1>5, <1>7
<1>8. CASE Users!MarkVerified(c)
  <2>1. PICK after \in {users[d].after, "yes"} :
            users' = [users EXCEPT ![d].verified = TRUE, ![d].after = after]
    BY <1>2, <1>3, <1>4, <1>8 DEF Users!MarkVerified, Apart, Data, UsersOK
  <2>2. PICK u : u = [users[d] EXCEPT !.verified = TRUE, !.after = after]
    OBVIOUS
  <2>3. /\ u \in DocStates /\ u.id = d /\ u.email = q.who /\ u.roles = users[d].roles /\ u.pw = users[d].pw
        /\ u.mfa = users[d].mfa
    BY <1>4, <2>1, <2>2 DEF DocStates
  <2>4. users' = [users EXCEPT ![d] = u]
    BY <1>4, <2>1, <2>2 DEF Apart, Data, UsersOK
  <2>5. /\ proven' \in [People -> SUBSET Marks] /\ \A e \in People : proven[e] \subseteq proven'[e]
        /\ "verified" \in proven'[q.who]
    BY <1>2, <1>7, <1>8 DEF Users!MarkVerified, Marks
  <2>6. u.mfa => "mfa" \in proven'[u.email]
    BY <1>4, <1>5, <2>3, <2>5 DEF MarksOK
  <2> QED
    BY <1>1, <1>2, <1>4, <1>6, <2>3, <2>4, <2>5, <2>6, OwnWrite
<1>9. CASE Users!EnableMfa(c)
  <2>1. users' = [users EXCEPT ![d].mfa = TRUE, ![d].after = "yes"]
    BY <1>2, <1>3, <1>4, <1>9 DEF Users!EnableMfa
  <2>2. PICK u : u = [users[d] EXCEPT !.mfa = TRUE, !.after = "yes"]
    OBVIOUS
  <2>3. /\ u \in DocStates /\ u.id = d /\ u.email = q.who /\ u.roles = users[d].roles /\ u.pw = users[d].pw
        /\ u.verified = users[d].verified
    BY <1>4, <2>2 DEF DocStates
  <2>4. users' = [users EXCEPT ![d] = u]
    BY <1>4, <2>1, <2>2 DEF Apart, Data, UsersOK
  <2>5. /\ proven' \in [People -> SUBSET Marks] /\ \A e \in People : proven[e] \subseteq proven'[e]
        /\ "mfa" \in proven'[q.who]
    BY <1>2, <1>7, <1>9 DEF Users!EnableMfa, Marks
  <2>6. u.verified => "verified" \in proven'[u.email]
    BY <1>4, <1>5, <2>3, <2>5 DEF MarksOK
  <2> QED
    BY <1>1, <1>2, <1>4, <1>6, <2>3, <2>4, <2>5, <2>6, OwnWrite
<1> QED
  BY <1>8, <1>9

LEMMA DisableKeeps ==
  ASSUME Apart, NEW t \in DOMAIN tokens, Users!DisableMfa(t)
  PROVE  Apart'
<1>1. UNCHANGED <<minted, told, proven, tokens, codes, sources, served, stale, call>>
  BY DEF Users!DisableMfa, Users!UnchangedRest, Users!AtOnce
<1>2. PICK e, d : e = tokens[t].holder /\ d = Users!ByToken(t) /\ DocOf(users, d, e)
  BY TokenDoc DEF Apart
<1>3. /\ d \in DOMAIN users /\ users[d] \in DocStates /\ users[d].email = e /\ users[d].id = d
      /\ users[d].roles \in {e, "asked", "create", "portal"} /\ Users!ById(d) = d /\ e \in People
  BY <1>2, DocIs DEF Apart
<1>4. PICK u : u = [users[d] EXCEPT !.mfa = FALSE, !.after = "unset"]
  OBVIOUS
<1>5. /\ u \in DocStates /\ u.id = d /\ u.email = e /\ u.roles = users[d].roles /\ u.pw = users[d].pw
      /\ u.verified = users[d].verified /\ ~u.mfa
  BY <1>3, <1>4 DEF DocStates
<1>6. users' = [users EXCEPT ![d] = u]
  BY <1>2, <1>3, <1>4 DEF Users!DisableMfa, Apart, Data, UsersOK
<1>7. /\ proven' \in [People -> SUBSET Marks] /\ \A f \in People : proven[f] \subseteq proven'[f]
      /\ told' \in [People -> Nat] /\ \A f \in People : told'[f] = told[f]
      /\ minted' \in Nat
  BY <1>1 DEF Apart, Data
<1>8. (u.verified => "verified" \in proven'[u.email]) /\ (u.email \in stale \/ u.pw = told'[u.email])
  BY <1>1, <1>3, <1>5 DEF Apart, Data, MarksOK, PasswordsOK
<1>9. /\ Data' /\ Extends(users, users')
      /\ DOMAIN users' = DOMAIN users /\ Len(users') = Len(users)
  BY <1>1, <1>3, <1>5, <1>6, <1>7, <1>8, WriteData DEF Apart
<1> QED
  BY <1>1, <1>9, SameUsers, OneKeeps

-----------------------------------------------------------------------------
(* The beginning: one account from the old system, whose owner may already *)
(* have passed the factors it is marked with.                              *)

LEMMA ImportedAnn ==
  /\ DOMAIN Imported = {1} /\ Imported[1] = "ann" /\ Imported # <<>> /\ Len(Imported) = 1
  /\ \A e : Users!IsImported(e) <=> e = "ann"
BY DEF Imported, Users!IsImported

LEMMA AccountsInit ==
  ASSUME Users!Init
  PROVE  AccountsInv
<1>1. PICK verified \in BOOLEAN, mfa \in BOOLEAN :
          /\ users = [d \in DOMAIN Imported |->
                         [Users!Document(Imported[d], d, d, 0, Imported[d]) EXCEPT
                             !.legacy = TRUE, !.changed = TRUE, !.verified = verified, !.mfa = mfa]]
          /\ proven = [e \in People |-> {m \in {"verified", "mfa"} :
                          Users!IsImported(e) /\ (IF m = "mfa" THEN mfa ELSE verified)}]
  BY DEF Users!Init
<1>2. PICK a \in People : a = "ann"
  OBVIOUS
<1>3. PICK u : u = [Users!Document(a, 1, 1, 0, a) EXCEPT
                       !.legacy = TRUE, !.changed = TRUE, !.verified = verified, !.mfa = mfa]
  OBVIOUS
<1>4. /\ u \in DocStates /\ u.email = a /\ u.id = 1 /\ u.pw = 1 /\ u.roles = a
      /\ u.verified = verified /\ u.mfa = mfa
  <2>1. PICK v : v = Users!Document(a, 1, 1, 0, a)
    OBVIOUS
  <2>2. /\ v \in DocStates /\ v.email = a /\ v.id = 1 /\ v.pw = 1 /\ v.roles = a
    BY <2>1 DEF Users!Document, DocStates, Roles
  <2> QED
    BY <1>3, <2>1, <2>2 DEF DocStates
<1>5. DOMAIN users = {1} /\ users[1] = u
  BY <1>1, <1>2, <1>3, ImportedAnn
<1>6. users \in Seq(DocStates)
  <2>1. users = [d \in 1..1 |-> users[d]]
    BY <1>1, <1>5, ImportedAnn
  <2>2. users \in [1..1 -> DocStates]
    BY <1>4, <1>5, <2>1
  <2> QED
    BY <2>2, SeqDef
<1>7. UsersOK(users)
  BY <1>2, <1>4, <1>5, <1>6 DEF UsersOK
<1>8. told = [e \in People |-> IF Users!IsImported(e) THEN CHOOSE d \in DOMAIN Imported : Imported[d] = e ELSE 0]
  BY DEF Users!Init
<1>9. told[a] = 1
  BY <1>2, <1>8, ImportedAnn
<1>10. told \in [People -> Nat]
  BY <1>8, <1>9, <1>2, ImportedAnn
<1>11. PasswordsOK(users, told, stale)
  BY <1>4, <1>5, <1>9 DEF PasswordsOK
<1>12. proven \in [People -> SUBSET Marks]
  BY <1>1 DEF Marks
<1>13. (verified => "verified" \in proven[a]) /\ (mfa => "mfa" \in proven[a])
  BY <1>1, <1>2, ImportedAnn
<1>14. MarksOK(users, proven)
  BY <1>4, <1>5, <1>13 DEF MarksOK
<1>15. /\ tokens = <<>> /\ codes = <<>> /\ served = {} /\ minted = 1 /\ mixed = FALSE /\ sources = {"highest"}
       /\ call = [c \in Callers |-> Users!Idle]
  BY ImportedAnn DEF Users!Init
<1>16. tokens \in Seq(TokenStates) /\ DOMAIN tokens = {} /\ codes \in Seq(CodeStates)
  BY <1>15
<1>17. Data
  BY <1>7, <1>10, <1>11, <1>12, <1>14, <1>15, <1>16 DEF Data, TokensOK, ServedOK
<1>18. Calls
  <2>1. PICK i : i = Users!Idle
    OBVIOUS
  <2>2. i \in CallStates /\ i.op = "none" /\ \A U, T, P, S : CallOK(i, U, T, P, S)
    BY <2>1, IdleTyped, IdleOK
  <2>3. \A c \in Callers : call[c] = i
    BY <1>15, <2>1
  <2>4. call \in [Callers -> CallStates]
    BY <1>15, <2>1, <2>2
  <2> QED
    BY <2>2, <2>3, <2>4 DEF Calls, PairOK, Passwords, Users!Creations, Users!Changes
<1> QED
  BY <1>15, <1>17, <1>18 DEF AccountsInv, Apart

-----------------------------------------------------------------------------
(* Every step.                                                             *)

LEMMA StepsKeep ==
  ASSUME Apart, ~mixed', NEW c \in Callers, Users!Step(c)
  PROVE  Apart'
BY StoreTenantKeeps, LookKeeps, TakeIdKeeps, InsertKeeps, InsertFailsKeeps, FrameworkKeeps, WriteRolesKeeps,
   ReadBackKeeps, MailKeeps, MarkSentKeeps, CheckPasswordKeeps, UpgradeKeeps, RereadKeeps, AskFactorKeeps,
   StoreTokenKeeps, LoginCheckKeeps, EnrichKeeps, CheckResetKeeps, ResetPasswordKeeps, UseResetKeeps,
   RevokeKeeps, ResetFailsKeeps, FindKeeps, ChangePasswordKeeps, FactorChecked, UseOtpKeeps, MarkKeeps
   DEF Users!Step

LEMMA OneStepKeeps ==
  ASSUME Apart, Users!OneStep
  PROVE  Apart'
BY SendResetKeeps, CodeExpiresKeeps, LogoutKeeps, SendOtpKeeps, CreateTotpKeeps, DisableKeeps DEF Users!OneStep

LEMMA MixedCalls ==
  ASSUME mixed \in BOOLEAN, Users!UnchangedCalls \/ Users!AtOnce
  PROVE  mixed' = mixed
BY DEF Users!UnchangedCalls, Users!AtOnce

LEMMA MixedBegins ==
  ASSUME mixed \in BOOLEAN, NEW c \in Callers, NEW r, Users!Begin(c, r)
  PROVE  mixed' \in BOOLEAN /\ (mixed => mixed')
BY DEF Users!Begin

\* Ids that were mixed once stay so.
LEMMA MixedStays ==
  ASSUME mixed \in BOOLEAN, Users!Next
  PROVE  mixed' \in BOOLEAN /\ (mixed => mixed')
<1>1. ASSUME NEW c \in Callers, Users!Start(c)
      PROVE  \E r : Users!Begin(c, r)
  BY <1>1 DEF Users!Start, Users!StartCreation, Users!StartLogin, Users!StartFirst, Users!StartReset,
     Users!StartUpdate, Users!StartRequest, Users!StartTotp, Users!StartOtp
<1>2. ASSUME NEW c \in Callers, Users!TakeId(c)
      PROVE  mixed' \in BOOLEAN /\ (mixed => mixed')
  BY <1>2 DEF Users!TakeId
<1>3. ASSUME NEW c \in Callers, Users!Step(c)
      PROVE  Users!TakeId(c) \/ Users!UnchangedCalls
  BY <1>3 DEF Users!Step, Users!StoreTenant, Users!LookForUser, Users!InsertUser, Users!InsertFails,
     Users!EnsureFrameworks, Users!AddFramework, Users!WriteRoles, Users!ReadBack, Users!MailPassword,
     Users!MarkSent, Users!CheckPassword, Users!UpgradeHash, Users!Reread, Users!AskFactor,
     Users!StoreToken, Users!LoginCheck, Users!RefreshAccess, Users!Enrich, Users!CheckResetCode,
     Users!ResetPassword, Users!UseResetCode, Users!RevokeTokens, Users!ResetFails, Users!FindForUpdate,
     Users!FindForFirst, Users!ChangePassword, Users!CheckOtp, Users!UseOtp, Users!MarkVerified,
     Users!CheckTotp, Users!EnableMfa
<1>4. ASSUME Users!OneStep
      PROVE  Users!UnchangedCalls \/ Users!AtOnce
  BY <1>4 DEF Users!OneStep, Users!SendResetCode, Users!CodeExpires, Users!Logout, Users!SendOtp,
     Users!CreateTotp, Users!DisableMfa
<1> QED
  BY <1>1, <1>2, <1>3, <1>4, MixedCalls, MixedBegins DEF Users!Next

LEMMA AccountsStep ==
  ASSUME AccountsInv, [Users!Next]_accountVars
  PROVE  AccountsInv'
<1>1. CASE Users!Next
  <2>1. mixed' \in BOOLEAN /\ (mixed => mixed')
    BY <1>1, MixedStays DEF AccountsInv
  <2>2. ASSUME Apart, ~mixed'
        PROVE  Apart'
    BY <1>1, <2>2, StartKeeps, StepsKeep, OneStepKeeps DEF Users!Next
  <2> QED
    BY <2>1, <2>2 DEF AccountsInv
<1>2. CASE UNCHANGED accountVars
  <2>1. UNCHANGED <<users, tokens, codes, minted, told, proven, sources, served, stale, call, mixed>>
    BY <1>2 DEF accountVars
  <2>2. Apart => Apart'
    BY <2>1, QuietData, QuietCodes, OneKeeps, SameUsers DEF Apart
  <2> QED
    BY <2>1, <2>2 DEF AccountsInv
<1> QED
  BY <1>1, <1>2

LEMMA AccountsGood ==
  ASSUME AccountsInv
  PROVE  AccountsApart
<1>1. ASSUME Apart
      PROVE  Users!Distinct /\ Users!PasswordLast /\ Users!RolesOwn /\ Users!TokensOwn /\ Users!MarksOwn
  <2>1. Users!Distinct /\ Users!RolesOwn
    BY <1>1 DEF Apart, Data, UsersOK, Users!Distinct, Users!RolesOwn
  <2>2. Users!PasswordLast /\ Users!MarksOwn
    BY <1>1 DEF Apart, Data, PasswordsOK, MarksOK, Users!PasswordLast, Users!MarksOwn
  <2>3. Users!TokensOwn
    BY <1>1 DEF Apart, Data, TokensOK, ServedOK, Users!TokensOwn
  <2> QED
    BY <2>1, <2>2, <2>3
<1> QED
  BY <1>1 DEF AccountsInv, AccountsApart, Users!AccountsApart

LEMMA AccountSteps ==
  ASSUME [Next]_vars
  PROVE  [Users!Next]_accountVars
BY DEF Next, vars, accountVars

\* However the calls of several people interleave, as long as creations do not
\* overlap: nobody shares an id or an address, passwords and roles are the
\* owner's, and tokens, requests and marks of a second factor stay with the
\* person they belong to.
THEOREM AccountsStayApart == Spec => []AccountsApart
<1>1. Init => AccountsInv
  BY AccountsInit DEF Init
<1>2. AccountsInv /\ [Next]_vars => AccountsInv'
  BY AccountSteps, AccountsStep
<1>3. AccountsInv => AccountsApart
  BY AccountsGood
<1> QED
  BY <1>1, <1>2, <1>3, PTL DEF Spec
=============================================================================
