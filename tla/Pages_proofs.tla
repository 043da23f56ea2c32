---------------------------- MODULE Pages_proofs ----------------------------
(***************************************************************************)
(* Safety of the scripts that websites embed, for any number of tabs,      *)
(* submissions, cards, addresses, codes, languages and cookies.            *)
(***************************************************************************)
EXTENDS MCPages, FiniteSetTheorems, TLAPS

-----------------------------------------------------------------------------
(* Every step of the composition is a step of one part, or none of it.     *)

LEMMA PartSteps ==
  ASSUME [Next]_vars
  PROVE  /\ [Banner!Next]_bannerVars /\ [Store!Next]_storeVars
         /\ [Child!Next]_childVars /\ [Dsar!Next]_dsarVars
         /\ [Web!Next]_webVars /\ [Language!Next]_languageVars
BY DEF Next, vars, notBanner, notStore, notChild, notDsar, notWeb, notLanguage

-----------------------------------------------------------------------------
(* The store of what was submitted offline.                                *)

Fates == {"accepted", "refused", "expired", "aborted"}

SyncStates ==
    [pc : {"closed", "idle", "next", "sent", "answered"}, left : SUBSET Ids,
     id : Ids \cup {"none"}, req : {"none", "start", "post"},
     reply : {"none", "ok", "refused", "failed"}]

StoreTypeOK ==
    /\ form \in [Ids -> Store!Forms]
    /\ rec \in [Ids -> [place : {"none", "putting", "put", "kept", "gone"},
                        old : BOOLEAN, started : BOOLEAN]]
    /\ told \in SUBSET Ids
    /\ sync \in [Tabs -> [Store!Forms -> SyncStates]]
    /\ fate \in [Ids -> SUBSET Fates]

\* A sync handles the records of its own script, and what it takes for the
\* server's answer is recorded as that.
SyncTrue(s, f, own, became) ==
    /\ \A i \in s.left : own[i] = f
    /\ s.pc \in {"sent", "answered"} => s.id \in Ids /\ own[s.id] = f
    /\ s.pc = "answered" /\ s.reply = "ok" /\ s.req = "post" => "accepted" \in became[s.id]
    /\ s.pc = "answered" /\ s.reply = "refused" => "refused" \in became[s.id]

\* The visitor of a web form is not told before the commit.
ToldAfterCommit ==
    \A i \in told : form[i] = "webform" => rec[i].place \in {"kept", "gone"}

StillTrue(i) ==
    \/ rec[i].place \in {"put", "kept"}
    \/ "accepted" \in fate[i] \/ "expired" \in fate[i]
    \/ form[i] # "webform" /\ ("refused" \in fate[i] \/ "aborted" \in fate[i])

StoreInv ==
    /\ StoreTypeOK
    /\ \A t \in Tabs, f \in Store!Forms : SyncTrue(sync[t][f], f, form, fate)
    /\ ToldAfterCommit
    /\ \A i \in told : StillTrue(i)

LEMMA StoreInit ==
  ASSUME Store!Init
  PROVE  StoreInv
BY DEF Store!Init, StoreInv, StoreTypeOK, SyncStates, SyncTrue, ToldAfterCommit,
       Store!NoRec, Store!Closed, Store!Idle, Store!Forms, Fates

FateGrows == \A i \in Ids : fate[i] \subseteq fate'[i]

LEMMA Becoming ==
  ASSUME StoreInv, NEW i \in Ids, NEW what \in Fates, fate' = [fate EXCEPT ![i] = @ \cup {what}]
  PROVE  fate' \in [Ids -> SUBSET Fates] /\ FateGrows /\ what \in fate'[i]
BY DEF StoreInv, StoreTypeOK, FateGrows

LEMMA SyncsStay ==
  ASSUME StoreInv, UNCHANGED <<form, sync>>, FateGrows
  PROVE  \A t \in Tabs, f \in Store!Forms : SyncTrue(sync'[t][f], f, form', fate')
BY DEF StoreInv, StoreTypeOK, SyncTrue, FateGrows

\* Only what changed about one record is to be shown.
LEMMA OneRecord ==
  ASSUME StoreInv, NEW i \in Ids, UNCHANGED form, FateGrows,
         told' \in SUBSET (told \cup {i}),
         \A j \in Ids \ {i} : rec'[j] = rec[j],
         i \in told' => /\ form[i] = "webform" => rec'[i].place \in {"kept", "gone"}
                        /\ StillTrue(i)'
  PROVE  ToldAfterCommit' /\ \A j \in told' : StillTrue(j)'
<1>1. ASSUME NEW j \in told', j # i
      PROVE  /\ form'[j] = "webform" => rec'[j].place \in {"kept", "gone"}
             /\ StillTrue(j)'
  BY <1>1 DEF StoreInv, StoreTypeOK, ToldAfterCommit, StillTrue, FateGrows
<1> QED
  BY <1>1 DEF ToldAfterCommit

\* What happens to the records outside a sync.
LEMMA RecordStep ==
  ASSUME StoreInv, NEW i \in Ids,
         \/ Store!PutSucceeds(i) \/ Store!Commit(i) \/ Store!Abort(i) \/ Store!Age(i)
         \/ \E t \in Tabs : Store!Queue(t, i)
  PROVE  StoreInv'
<1> USE DEF Store!Become
<1>1. CASE Store!PutSucceeds(i)
  <2>1. StoreTypeOK' /\ FateGrows /\ UNCHANGED <<form, sync>>
    BY <1>1 DEF StoreInv, StoreTypeOK, Store!PutSucceeds, FateGrows
  <2>2. ToldAfterCommit' /\ \A j \in told' : StillTrue(j)'
    BY <1>1, <2>1, OneRecord DEF StoreInv, StoreTypeOK, ToldAfterCommit, StillTrue, Store!PutSucceeds
  <2> QED
    BY <2>1, <2>2, SyncsStay DEF StoreInv
<1>2. CASE Store!Commit(i)
  <2>1. StoreTypeOK' /\ FateGrows /\ UNCHANGED <<form, sync>>
    BY <1>2 DEF StoreInv, StoreTypeOK, Store!Commit, FateGrows
  <2>2. ToldAfterCommit' /\ \A j \in told' : StillTrue(j)'
    BY <1>2, <2>1, OneRecord DEF StoreInv, StoreTypeOK, StillTrue, Store!Commit
  <2> QED
    BY <2>1, <2>2, SyncsStay DEF StoreInv
<1>3. CASE Store!Abort(i)
  <2>1. StoreTypeOK' /\ FateGrows /\ UNCHANGED <<form, sync>>
    BY <1>3 DEF StoreInv, StoreTypeOK, Store!Abort, FateGrows, Fates
  <2>2. ToldAfterCommit' /\ \A j \in told' : StillTrue(j)'
    BY <1>3, <2>1, OneRecord DEF StoreInv, StoreTypeOK, ToldAfterCommit, StillTrue, Store!Abort
  <2> QED
    BY <2>1, <2>2, SyncsStay DEF StoreInv
<1>4. CASE Store!Age(i)
  <2>1. StoreTypeOK' /\ FateGrows /\ UNCHANGED <<form, sync>>
    BY <1>4 DEF StoreInv, StoreTypeOK, Store!Age, FateGrows
  <2>2. ToldAfterCommit' /\ \A j \in told' : StillTrue(j)'
    BY <1>4, <2>1, OneRecord DEF StoreInv, StoreTypeOK, ToldAfterCommit, StillTrue, Store!Age
  <2> QED
    BY <2>1, <2>2, SyncsStay DEF StoreInv
<1>5. ASSUME NEW t \in Tabs, Store!Queue(t, i) PROVE StoreInv'
  <2>0. UNCHANGED <<form, told, sync, fate>>
    BY <1>5 DEF Store!Queue
  <2>1. PICK started \in BOOLEAN :
          rec' = [rec EXCEPT ![i] = [place |-> "putting", old |-> FALSE, started |-> started]]
    BY <1>5 DEF Store!Queue, Store!NoRec
  <2>2. StoreTypeOK' /\ FateGrows
    BY <2>0, <2>1 DEF StoreInv, StoreTypeOK, FateGrows
  <2>3. rec[i].place = "none"
    BY <1>5 DEF Store!Queue
  <2>4. ToldAfterCommit' /\ \A j \in told' : StillTrue(j)'
    BY <2>0, <2>1, <2>2, <2>3, OneRecord DEF StoreInv, StoreTypeOK, ToldAfterCommit, StillTrue
  <2> QED
    BY <2>0, <2>2, <2>4, SyncsStay DEF StoreInv
<1> QED
  BY <1>1, <1>2, <1>3, <1>4, <1>5

\* A sync that starts has a list of records of its own script.
Listing(f) ==
    {[pc |-> "next", left |-> l, id |-> "none", req |-> "none", reply |-> "none"] :
        l \in SUBSET {i \in Ids : form[i] = f}}

LEMMA Listable ==
  ASSUME NEW f, NEW list \in SUBSET {i \in Ids : form[i] = f},
         NEW u, u = [Store!Idle EXCEPT !.pc = "next", !.left = list]
  PROVE  u \in Listing(f)
<1>1. u = [pc |-> "next", left |-> list, id |-> "none", req |-> "none", reply |-> "none"]
  BY DEF Store!Idle
<1> QED
  BY <1>1 DEF Listing

LEMMA Starting ==
  ASSUME NEW f, NEW recs, NEW fails \in BOOLEAN
  PROVE  [Store!Idle EXCEPT !.pc = "next", !.left = IF fails THEN {} ELSE Store!Listed(f, recs)]
            \in Listing(f)
<1>1. (IF fails THEN {} ELSE Store!Listed(f, recs)) \in SUBSET {i \in Ids : form[i] = f}
  BY DEF Store!Listed
<1> QED
  BY <1>1, Listable

LEMMA ListingTrue ==
  ASSUME NEW f, NEW s \in Listing(f), UNCHANGED form
  PROVE  s \in SyncStates /\ SyncTrue(s, f, form', fate')
BY DEF Listing, SyncStates, SyncTrue

\* The records and what the visitor was told stay.
LEMMA StoreGoOnline ==
  ASSUME StoreInv, Store!GoOnline
  PROVE  StoreInv'
<1>1. PICK failing :
        sync' = [t \in Tabs |-> [f \in Store!Forms |->
                    Store!Started(sync[t][f], f, TRUE, rec, f \in failing)]]
  BY DEF Store!GoOnline
<1>2. UNCHANGED <<form, rec, told, fate>>
  BY DEF Store!GoOnline
<1>3. ASSUME NEW t \in Tabs, NEW f \in Store!Forms
      PROVE  sync'[t][f] \in SyncStates /\ SyncTrue(sync'[t][f], f, form', fate')
  <2>1. sync'[t][f] = Store!Started(sync[t][f], f, TRUE, rec, f \in failing)
    BY <1>1
  <2>2. sync'[t][f] \in {sync[t][f]} \cup Listing(f)
    BY <2>1, Starting DEF Store!Started
  <2>3. CASE sync'[t][f] = sync[t][f]
    BY <1>2, <2>3 DEF StoreInv, StoreTypeOK, SyncTrue
  <2>4. CASE sync'[t][f] \in Listing(f)
    BY <1>2, <2>4, ListingTrue
  <2> QED
    BY <2>2, <2>3, <2>4
<1>4. sync' \in [Tabs -> [Store!Forms -> SyncStates]]
  BY <1>1, <1>3
<1> QED
  BY <1>2, <1>3, <1>4 DEF StoreInv, StoreTypeOK, ToldAfterCommit, StillTrue

\* Old records go, and requests of the page before may have been served.
LEMMA StoreLoad ==
  ASSUME StoreInv, NEW t \in Tabs, Store!Load(t)
  PROVE  StoreInv'
<1> DEFINE posted == {sync[t][f].id : f \in {g \in Store!Forms : sync[t][g].pc = "sent" /\ sync[t][g].req = "post"}}
<1>1. PICK gone \in SUBSET Store!Expired : \E served \in SUBSET posted :
        /\ rec' = [i \in Ids |-> IF i \in gone THEN [rec[i] EXCEPT !.place = "gone"] ELSE rec[i]]
        /\ fate' = [i \in Ids |-> fate[i] \cup (IF i \in gone THEN {"expired"} ELSE {})
                                          \cup (IF i \in served THEN {"accepted"} ELSE {})]
  BY DEF Store!Load
<1>2. PICK failing :
        sync' = [sync EXCEPT ![t] = [f \in Store!Forms |->
                    Store!Started(Store!Idle, f, online, rec', f \in failing)]]
  BY DEF Store!Load
<1>3. UNCHANGED <<form, told>>
  BY DEF Store!Load
<1>4. /\ rec' \in [Ids -> [place : {"none", "putting", "put", "kept", "gone"},
                           old : BOOLEAN, started : BOOLEAN]]
      /\ fate' \in [Ids -> SUBSET Fates] /\ FateGrows
  BY <1>1 DEF StoreInv, StoreTypeOK, Fates, FateGrows
<1>5. ASSUME NEW u \in Tabs, NEW f \in Store!Forms
      PROVE  sync'[u][f] \in SyncStates /\ SyncTrue(sync'[u][f], f, form', fate')
  <2>1. CASE u # t
    BY <1>2, <1>3, <1>4, <2>1 DEF StoreInv, StoreTypeOK, SyncTrue, SyncStates, FateGrows
  <2>2. CASE u = t
    <3>1. sync'[u][f] = Store!Started(Store!Idle, f, online, rec', f \in failing)
      BY <1>2, <2>2 DEF StoreInv, StoreTypeOK
    <3>2. sync'[u][f] \in {Store!Idle} \cup Listing(f)
      BY <3>1, Starting DEF Store!Started
    <3>3. Store!Idle \in SyncStates /\ SyncTrue(Store!Idle, f, form', fate')
      BY DEF Store!Idle, SyncStates, SyncTrue
    <3> QED
      BY <1>3, <3>2, <3>3, ListingTrue
  <2> QED
    BY <2>1, <2>2
<1>6. sync' \in [Tabs -> [Store!Forms -> SyncStates]]
  <2>1. sync' = [u \in Tabs |-> [f \in Store!Forms |-> sync'[u][f]]]
    BY <1>2 DEF StoreInv, StoreTypeOK
  <2> QED
    BY <1>5, <2>1
<1>7. ASSUME NEW i \in told'
      PROVE  /\ form'[i] = "webform" => rec'[i].place \in {"kept", "gone"}
             /\ StillTrue(i)'
  BY <1>1, <1>3, <1>4 DEF StoreInv, StoreTypeOK, ToldAfterCommit, StillTrue, FateGrows
<1> QED
  BY <1>3, <1>4, <1>5, <1>6, <1>7 DEF StoreInv, StoreTypeOK, ToldAfterCommit

\* A sync takes its next step: what it is then, it is truly.
LEMMA OneSync ==
  ASSUME StoreInv, NEW t \in Tabs, NEW f \in Store!Forms, NEW s \in SyncStates,
         sync' = [sync EXCEPT ![t][f] = s], UNCHANGED form, FateGrows, SyncTrue(s, f, form', fate')
  PROVE  /\ sync' \in [Tabs -> [Store!Forms -> SyncStates]]
         /\ \A u \in Tabs, g \in Store!Forms : SyncTrue(sync'[u][g], g, form', fate')
<1>1. sync' \in [Tabs -> [Store!Forms -> SyncStates]]
  BY DEF StoreInv, StoreTypeOK
<1>2. ASSUME NEW u \in Tabs, NEW g \in Store!Forms
      PROVE  SyncTrue(sync'[u][g], g, form', fate')
  <2>1. CASE u = t /\ g = f
    BY <2>1 DEF StoreInv, StoreTypeOK
  <2>2. CASE ~(u = t /\ g = f)
    <3>1. sync'[u][g] = sync[u][g]
      BY <2>2 DEF StoreInv, StoreTypeOK
    <3> QED
      BY <3>1 DEF StoreInv, StoreTypeOK, SyncStates, SyncTrue, FateGrows
  <2> QED
    BY <2>1, <2>2
<1> QED
  BY <1>1, <1>2

LEMMA ToldStays ==
  ASSUME StoreInv, UNCHANGED <<form, rec, told>>, FateGrows
  PROVE  ToldAfterCommit' /\ \A i \in told' : StillTrue(i)'
BY DEF StoreInv, StoreTypeOK, ToldAfterCommit, StillTrue, FateGrows

\* Both ways to go on after a record.
LEMMA Continuing ==
  ASSUME StoreInv, NEW t \in Tabs, NEW f \in Store!Forms, UNCHANGED form,
         Store!Continue(t, f) \/ Store!Finish(t, f)
  PROVE  \E s \in SyncStates : sync' = [sync EXCEPT ![t][f] = s] /\ SyncTrue(s, f, form', fate')
<1> DEFINE left == sync[t][f].left
           next == [Store!Idle EXCEPT !.pc = "next", !.left = left]
<1>1. left \in SUBSET Ids /\ \A i \in left : form[i] = f
  BY DEF StoreInv, StoreTypeOK, SyncStates, SyncTrue
<1>2. Store!Idle \in SyncStates /\ SyncTrue(Store!Idle, f, form', fate')
  BY DEF Store!Idle, SyncStates, SyncTrue
<1>3. next \in SyncStates /\ SyncTrue(next, f, form', fate')
  BY <1>1 DEF Store!Idle, SyncStates, SyncTrue
<1>4. sync' = [sync EXCEPT ![t][f] = Store!Idle] \/ sync' = [sync EXCEPT ![t][f] = next]
  BY DEF Store!Continue, Store!Finish
<1> QED
  BY <1>2, <1>3, <1>4

LEMMA StoreSyncStep ==
  ASSUME StoreInv, NEW t \in Tabs, NEW f \in Store!Forms, Store!SyncStep(t, f)
  PROVE  StoreInv'
<1> DEFINE s == sync[t][f]
<1>0. s \in SyncStates /\ SyncTrue(s, f, form, fate)
  BY DEF StoreInv, StoreTypeOK
<1>1. CASE Store!Post(t, f)
  <2>1. PICK i \in s.left, req \in {"start", "post"} :
          sync' = [sync EXCEPT ![t][f] = [s EXCEPT !.pc = "sent", !.left = @ \ {i}, !.id = i, !.req = req]]
    BY <1>1 DEF Store!Post
  <2>2. UNCHANGED <<form, rec, told, fate>> /\ FateGrows
    BY <1>1 DEF Store!Post, FateGrows
  <2> DEFINE u == [s EXCEPT !.pc = "sent", !.left = @ \ {i}, !.id = i, !.req = req]
  <2>3. u \in SyncStates /\ SyncTrue(u, f, form', fate')
    BY <1>0, <2>2 DEF SyncStates, SyncTrue
  <2>4. sync' = [sync EXCEPT ![t][f] = u]
    BY <2>1
  <2> HIDE DEF u
  <2> QED
    BY <2>2, <2>3, <2>4, OneSync, ToldStays DEF StoreInv, StoreTypeOK
<1>2. CASE Store!Lose(t, f)
  <2>1. fate' = fate \/ (fate' = [fate EXCEPT ![s.id] = @ \cup {"accepted"}])
    BY <1>2 DEF Store!Lose, Store!Become
  <2>2. s.id \in Ids /\ UNCHANGED <<form, rec, told>>
    BY <1>0, <1>2 DEF Store!Lose, SyncTrue
  <2>4. fate' \in [Ids -> SUBSET Fates] /\ FateGrows
    <3>1. CASE fate' = fate
      BY <3>1 DEF StoreInv, StoreTypeOK, FateGrows
    <3>2. CASE fate' = [fate EXCEPT ![s.id] = @ \cup {"accepted"}]
      BY <2>2, <3>2, Becoming DEF Fates
    <3> QED
      BY <2>1, <3>1, <3>2
  <2>3. PICK u \in SyncStates : sync' = [sync EXCEPT ![t][f] = u] /\ SyncTrue(u, f, form', fate')
    BY <1>2, <2>2, Continuing DEF Store!Lose
  <2> QED
    BY <2>2, <2>3, <2>4, OneSync, ToldStays DEF StoreInv, StoreTypeOK
<1>3. CASE Store!Finalize(t, f)
  <2> DEFINE u == [s EXCEPT !.pc = "sent", !.req = "post", !.reply = "none"]
  <2>1. sync' = [sync EXCEPT ![t][f] = u] /\ s.pc = "answered"
    BY <1>3 DEF Store!Finalize
  <2>2. UNCHANGED <<form, rec, told, fate>> /\ FateGrows
    BY <1>3 DEF Store!Finalize, FateGrows
  <2>3. u \in SyncStates /\ SyncTrue(u, f, form', fate')
    BY <1>0, <2>1, <2>2 DEF SyncStates, SyncTrue
  <2> QED
    BY <2>1, <2>2, <2>3, OneSync, ToldStays DEF StoreInv, StoreTypeOK
<1>4. ASSUME NEW reply \in {"ok", "refused", "failed"}, Store!Reply(t, f, reply)
      PROVE  StoreInv'
  <2> DEFINE u == [s EXCEPT !.pc = "answered", !.reply = reply]
             what == IF reply = "ok" THEN "accepted" ELSE "refused"
  <2>1. sync' = [sync EXCEPT ![t][f] = u] /\ UNCHANGED <<form, rec, told>> /\ s.pc = "sent"
    BY <1>4 DEF Store!Reply
  <2>2. s.id \in Ids /\ form[s.id] = f
    BY <1>0, <2>1 DEF SyncTrue
  <2>3. \/ fate' = fate /\ (reply = "failed" \/ (reply = "ok" /\ s.req = "start"))
        \/ fate' = [fate EXCEPT ![s.id] = @ \cup {what}] /\ reply # "failed"
    BY <1>4, <2>2 DEF Store!Reply, Store!Become
  <2>4. fate' \in [Ids -> SUBSET Fates] /\ FateGrows
    <3>1. CASE fate' = fate
      BY <3>1 DEF StoreInv, StoreTypeOK, FateGrows
    <3>2. CASE fate' = [fate EXCEPT ![s.id] = @ \cup {what}]
      BY <2>2, <3>2, Becoming DEF Fates
    <3> QED
      BY <2>3, <3>1, <3>2
  <2>5. u \in SyncStates
    BY <1>0 DEF SyncStates
  <2>6. SyncTrue(u, f, form', fate')
    BY <1>0, <2>1, <2>2, <2>3 DEF SyncStates, SyncTrue, StoreInv, StoreTypeOK
  <2> QED
    BY <2>1, <2>4, <2>5, <2>6, OneSync, ToldStays DEF StoreInv, StoreTypeOK
<1>5. CASE Store!KeepForLater(t, f)
  <2>1. UNCHANGED <<form, rec, told, fate>> /\ FateGrows
    BY <1>5 DEF Store!KeepForLater, FateGrows
  <2>2. PICK u \in SyncStates : sync' = [sync EXCEPT ![t][f] = u] /\ SyncTrue(u, f, form', fate')
    BY <1>5, <2>1, Continuing DEF Store!KeepForLater
  <2> QED
    BY <2>1, <2>2, OneSync, ToldStays DEF StoreInv, StoreTypeOK
<1>6. CASE Store!Remove(t, f)
  <2>1. UNCHANGED <<form, told, fate>> /\ FateGrows
    BY <1>6 DEF Store!Remove, FateGrows
  <2>2. PICK u \in SyncStates : sync' = [sync EXCEPT ![t][f] = u] /\ SyncTrue(u, f, form', fate')
    BY <1>6, <2>1, Continuing DEF Store!Remove
  <2>3. /\ s.id \in Ids /\ form[s.id] = f
        /\ "accepted" \in fate[s.id] \/ ("refused" \in fate[s.id] /\ f # "webform")
    BY <1>0, <1>6 DEF Store!Remove, Store!Done, SyncTrue
  <2>4. rec' = [rec EXCEPT ![s.id].place = "gone"]
    BY <1>6 DEF Store!Remove
  <2>5. rec' \in [Ids -> [place : {"none", "putting", "put", "kept", "gone"},
                          old : BOOLEAN, started : BOOLEAN]]
    BY <2>3, <2>4 DEF StoreInv, StoreTypeOK
  <2>6. ToldAfterCommit' /\ \A i \in told' : StillTrue(i)'
    BY <2>1, <2>3, <2>4, OneRecord DEF StoreInv, StoreTypeOK, StillTrue
  <2> QED
    BY <2>1, <2>2, <2>5, <2>6, OneSync DEF StoreInv, StoreTypeOK
<1>7. CASE Store!RemoveFails(t, f)
  <2>1. UNCHANGED <<form, rec, told, fate>> /\ FateGrows
    BY <1>7 DEF Store!RemoveFails, FateGrows
  <2>2. PICK u \in SyncStates : sync' = [sync EXCEPT ![t][f] = u] /\ SyncTrue(u, f, form', fate')
    BY <1>7, <2>1, Continuing DEF Store!RemoveFails
  <2> QED
    BY <2>1, <2>2, OneSync, ToldStays DEF StoreInv, StoreTypeOK
<1> QED
  BY <1>1, <1>2, <1>3, <1>4, <1>5, <1>6, <1>7 DEF Store!SyncStep

LEMMA StoreStep ==
  ASSUME StoreInv, [Store!Next]_storeVars
  PROVE  StoreInv'
<1>1. CASE \E i \in Ids : Store!PutSucceeds(i) \/ Store!Commit(i) \/ Store!Abort(i) \/ Store!Age(i)
  BY <1>1, RecordStep
<1>2. CASE \E t \in Tabs, i \in Ids : Store!Queue(t, i)
  BY <1>2, RecordStep
<1>3. CASE \E t \in Tabs : Store!Load(t)
  BY <1>3, StoreLoad
<1>4. CASE Store!GoOnline
  BY <1>4, StoreGoOnline
<1>5. CASE Store!GoOffline \/ Store!BecomeCalm \/ UNCHANGED storeVars
  <2>1. UNCHANGED <<form, rec, told, sync, fate>> /\ FateGrows
    BY <1>5 DEF Store!GoOffline, Store!BecomeCalm, storeVars, FateGrows
  <2> QED
    BY <2>1, SyncsStay, ToldStays DEF StoreInv, StoreTypeOK
<1>6. CASE \E t \in Tabs, f \in Store!Forms : Store!SyncStep(t, f)
  BY <1>6, StoreSyncStep
<1> QED
  BY <1>1, <1>2, <1>3, <1>4, <1>5, <1>6 DEF Store!Next

\* A visitor who was told that the form is saved has a record in the store,
\* unless it was accepted, 30 days went by or, for the two scripts that do
\* not wait for the commit, it was refused or not committed.
THEOREM ToldRecordsKept == Spec => []ToldIsKept
<1>1. Init => StoreInv
  BY StoreInit DEF Init
<1>2. StoreInv /\ [Next]_vars => StoreInv'
  BY PartSteps, StoreStep
<1>3. StoreInv => ToldIsKept
  BY DEF StoreInv, StillTrue, ToldIsKept, Store!ToldIsKept
<1> QED
  BY <1>1, <1>2, <1>3, PTL DEF Spec

-----------------------------------------------------------------------------
(* The data subject request form.                                          *)

RequestStates ==
    [kind : {"none", "send", "verify", "post", "queue"}, card : Nat, email : Nat]

CardStates ==
    [n : Nat, shown : BOOLEAN, locked : BOOLEAN, mayVerify : BOOLEAN,
     maySend : BOOLEAN, maySubmit : BOOLEAN]

DsarTypeOK ==
    /\ card \in CardStates /\ email \in Nat /\ typed \in Nat
    /\ otp \in [verified : BOOLEAN, requested : BOOLEAN, cooldown : BOOLEAN]
    /\ requests \in [Requests -> RequestStates]
    /\ mixed \in BOOLEAN

\* What a handler waits for was asked with the address there still is, and
\* what it asked for then was allowed.
AskedRight(q, address, confirmed) ==
    /\ q.kind = "verify" => q.email = address
    /\ q.kind \in {"post", "queue"} => q.email \in confirmed

\* While the visitor waits for each answer there is one request at most.
DsarInv ==
    /\ DsarTypeOK
    /\ ~mixed =>
         /\ \A r, s \in Requests : requests[r].kind # "none" /\ requests[s].kind # "none" => r = s
         /\ \A r \in Requests : AskedRight(requests[r], email, validated)
         /\ otp.verified => email \in validated
         /\ submitted \subseteq validated

LEMMA FreshType == Dsar!Fresh \in [verified : BOOLEAN, requested : BOOLEAN, cooldown : BOOLEAN]
BY DEF Dsar!Fresh

LEMMA DsarInit ==
  ASSUME Dsar!Init
  PROVE  DsarInv
BY DEF Dsar!Init, Dsar!NewCard, Dsar!Fresh, Dsar!NoRequest, Dsar!None,
       DsarInv, DsarTypeOK, CardStates, RequestStates, AskedRight

NothingAsked == \A r \in Requests : requests[r].kind = "none"

LEMMA ActsAlone ==
  ASSUME DsarInv, Dsar!Acts
  PROVE  mixed' \in BOOLEAN /\ (~mixed' => ~mixed /\ NothingAsked)
BY DEF Dsar!Acts, Dsar!None, DsarInv, DsarTypeOK, NothingAsked

\* A press of a button adds its request to those under way, in a free place.
LEMMA Asking ==
  ASSUME DsarInv, NEW kind \in {"send", "verify", "post", "queue"}, Dsar!Ask(kind)
  PROVE  \E r : requests' = [requests EXCEPT ![r] = [kind |-> kind, card |-> card.n, email |-> email]]
BY DEF Dsar!Ask

LEMMA PressStep ==
  ASSUME DsarInv, NEW kind \in {"send", "verify", "post", "queue"}, Dsar!Ask(kind), Dsar!Acts,
         kind \in {"post", "queue"} => otp.verified,
         card' \in CardStates, UNCHANGED <<email, typed, otp, validated, submitted>>
  PROVE  DsarInv'
<1>1. PICK r : requests' = [requests EXCEPT ![r] = [kind |-> kind, card |-> card.n, email |-> email]]
  BY Asking
<1>2. requests' \in [Requests -> RequestStates]
  BY <1>1 DEF DsarInv, DsarTypeOK, CardStates, RequestStates
<1>3. mixed' \in BOOLEAN /\ (~mixed' => ~mixed /\ NothingAsked)
  BY ActsAlone
<1>4. ASSUME ~mixed', NEW s \in Requests
      PROVE  /\ requests'[s].kind # "none" => s = r
             /\ AskedRight(requests'[s], email', validated')
  BY <1>1, <1>3, <1>4 DEF DsarInv, DsarTypeOK, RequestStates, NothingAsked, AskedRight
<1> QED
  BY <1>2, <1>3, <1>4 DEF DsarInv, DsarTypeOK

\* A change by the visitor that starts the confirmation over, or leaves it.
LEMMA VisitStep ==
  ASSUME DsarInv, Dsar!Acts, card' \in CardStates, email' \in Nat, typed' \in Nat,
         \/ otp' = Dsar!Fresh
         \/ UNCHANGED <<email, otp>>,
         UNCHANGED <<requests, validated, submitted>>
  PROVE  DsarInv'
<1>1. mixed' \in BOOLEAN /\ (~mixed' => ~mixed /\ NothingAsked)
  BY ActsAlone
<1>2. ASSUME ~mixed', NEW s \in Requests
      PROVE  requests'[s].kind = "none" /\ AskedRight(requests'[s], email', validated')
  BY <1>1, <1>2 DEF NothingAsked, AskedRight
<1>3. otp' \in [verified : BOOLEAN, requested : BOOLEAN, cooldown : BOOLEAN]
  BY FreshType DEF DsarInv, DsarTypeOK
<1>4. otp'.verified => otp.verified /\ UNCHANGED email
  BY DEF Dsar!Fresh
<1>5. DsarTypeOK'
  BY <1>1, <1>3 DEF DsarInv, DsarTypeOK
<1> QED
  BY <1>1, <1>2, <1>4, <1>5 DEF DsarInv

\* An answer: its request is not under way any more.
LEMMA AnswerStep ==
  ASSUME DsarInv, NEW r \in Requests, requests[r].kind # "none", Dsar!Answered(r),
         card' \in CardStates, UNCHANGED <<typed, mixed>>,
         \/ /\ otp'.verified = otp.verified /\ UNCHANGED <<email, validated, submitted>>
         \/ /\ requests[r].kind = "verify" /\ validated' = validated \cup {requests[r].email}
            /\ UNCHANGED <<email, submitted>>
         \/ /\ requests[r].kind \in {"post", "queue"} /\ otp' = Dsar!Fresh
            /\ submitted' = submitted \cup {requests[r].email}
            /\ email' \in Nat /\ UNCHANGED validated,
         otp' \in [verified : BOOLEAN, requested : BOOLEAN, cooldown : BOOLEAN]
  PROVE  DsarInv'
<1>1. requests' = [requests EXCEPT ![r] = [kind |-> "none", card |-> 0, email |-> 0]]
  BY DEF Dsar!Answered, Dsar!NoRequest, Dsar!None
<1>2. requests' \in [Requests -> RequestStates] /\ email' \in Nat
  BY <1>1 DEF DsarInv, DsarTypeOK, RequestStates
<1>3. ASSUME ~mixed, NEW s \in Requests
      PROVE  requests'[s].kind = "none"
  BY <1>1, <1>3 DEF DsarInv, DsarTypeOK, RequestStates
<1>4. ASSUME ~mixed
      PROVE  (otp'.verified => email' \in validated') /\ submitted' \subseteq validated'
  BY <1>4 DEF DsarInv, DsarTypeOK, AskedRight, Dsar!Fresh
<1> QED
  BY <1>2, <1>3, <1>4 DEF DsarInv, DsarTypeOK, AskedRight

LEMMA DsarStep ==
  ASSUME DsarInv, [Dsar!Next]_dsarVars
  PROVE  DsarInv'
<1>0. card \in CardStates /\ otp \in [verified : BOOLEAN, requested : BOOLEAN, cooldown : BOOLEAN]
  BY DEF DsarInv, DsarTypeOK
<1>1. CASE Dsar!TypeEmail
  <2>1. card' \in CardStates
    BY <1>0, <1>1 DEF Dsar!TypeEmail, CardStates
  <2> QED
    BY <1>1, <2>1, VisitStep DEF Dsar!TypeEmail, Dsar!ResetOtpFlow, DsarInv, DsarTypeOK
<1>2. CASE Dsar!PressSend
  <2>1. card' \in CardStates
    BY <1>0, <1>2 DEF Dsar!PressSend, CardStates
  <2> QED
    BY <1>2, <2>1, PressStep DEF Dsar!PressSend
<1>3. CASE Dsar!PressVerify
  <2>1. card' \in CardStates
    BY <1>0, <1>3 DEF Dsar!PressVerify, CardStates
  <2> QED
    BY <1>3, <2>1, PressStep DEF Dsar!PressVerify
<1>4. ASSUME NEW kind \in {"post", "queue"}, Dsar!PressSubmit(kind)
      PROVE  DsarInv'
  <2>1. card' \in CardStates
    BY <1>0, <1>4 DEF Dsar!PressSubmit, CardStates
  <2> QED
    BY <1>4, <2>1, PressStep DEF Dsar!PressSubmit
<1>5. CASE Dsar!Close
  <2>1. card' \in CardStates
    BY <1>0, <1>5 DEF Dsar!Close, CardStates
  <2> QED
    BY <1>5, <2>1, VisitStep DEF Dsar!Close, DsarInv, DsarTypeOK
<1>6. CASE Dsar!OpenModal
  <2>1. card' \in CardStates
    BY <1>0, <1>6 DEF Dsar!OpenModal, Dsar!NewCard, CardStates
  <2> QED
    BY <1>6, <2>1, VisitStep DEF Dsar!OpenModal, Dsar!ResetOtpFlow, DsarInv, DsarTypeOK
<1>7. CASE Dsar!Remount
  <2>1. card' \in CardStates
    <3>1. card' = [n |-> card.n + 1, shown |-> TRUE, locked |-> card.locked,
                   mayVerify |-> otp.requested /\ ~otp.verified,
                   maySend |-> ~otp.cooldown, maySubmit |-> TRUE]
      BY <1>7 DEF Dsar!Remount, Dsar!Restored, Dsar!NewCard
    <3> QED
      BY <1>0, <3>1 DEF CardStates
  <2> QED
    BY <1>7, <2>1, VisitStep DEF Dsar!Remount, DsarInv, DsarTypeOK
<1>8. ASSUME NEW r \in Requests, Dsar!SendAnswered(r)
      PROVE  DsarInv'
  <2>1. card' \in CardStates
    BY <1>0, <1>8 DEF Dsar!SendAnswered, Dsar!OnCard, CardStates
  <2>2. /\ otp' \in [verified : BOOLEAN, requested : BOOLEAN, cooldown : BOOLEAN]
        /\ otp'.verified = otp.verified
    BY <1>0, <1>8 DEF Dsar!SendAnswered
  <2> QED
    BY <1>8, <2>1, <2>2, AnswerStep DEF Dsar!SendAnswered
<1>9. ASSUME NEW r \in Requests, Dsar!VerifyAnswered(r)
      PROVE  DsarInv'
  <2>1. card' \in CardStates
    BY <1>0, <1>9 DEF Dsar!VerifyAnswered, Dsar!OnCard, CardStates
  <2>2. otp' \in [verified : BOOLEAN, requested : BOOLEAN, cooldown : BOOLEAN]
    BY <1>0, <1>9 DEF Dsar!VerifyAnswered
  <2> QED
    BY <1>9, <2>1, <2>2, AnswerStep DEF Dsar!VerifyAnswered
<1>10. ASSUME NEW r \in Requests, Dsar!SubmitAnswered(r)
       PROVE  DsarInv'
  <2>1. card' \in CardStates
    <3> DEFINE n == requests[r].card
               again == requests[r].kind = "post" \/ card.maySubmit
    <3>1. n \in Nat /\ again \in BOOLEAN
      BY <1>0 DEF DsarInv, DsarTypeOK, RequestStates, CardStates
    <3>2. \/ card' = card
          \/ card' = [Dsar!NewCard(n) EXCEPT !.shown = card.shown, !.maySubmit = again]
          \/ card' = [card EXCEPT !.maySubmit = again]
      BY <1>10 DEF Dsar!SubmitAnswered, Dsar!OnCard
    <3> HIDE DEF n, again
    <3>3. CASE card' = [Dsar!NewCard(n) EXCEPT !.shown = card.shown, !.maySubmit = again]
      <4>1. card' = [n |-> n, shown |-> card.shown, locked |-> FALSE, mayVerify |-> FALSE,
                     maySend |-> TRUE, maySubmit |-> again]
        BY <3>3 DEF Dsar!NewCard
      <4> QED
        BY <1>0, <3>1, <4>1 DEF CardStates
    <3>4. CASE card' = [card EXCEPT !.maySubmit = again]
      BY <1>0, <3>1, <3>4 DEF CardStates
    <3> QED
      BY <1>0, <3>2, <3>3, <3>4
  <2>2. otp' \in [verified : BOOLEAN, requested : BOOLEAN, cooldown : BOOLEAN]
    <3>1. otp' = Dsar!Fresh \/ otp' = otp
      BY <1>10 DEF Dsar!SubmitAnswered, Dsar!ResetOtpFlow
    <3> QED
      BY <1>0, <3>1, FreshType
  <2>3. email' \in Nat
    BY <1>10 DEF Dsar!SubmitAnswered, DsarInv, DsarTypeOK
  <2> QED
    BY <1>10, <2>1, <2>2, <2>3, AnswerStep DEF Dsar!SubmitAnswered, Dsar!ResetOtpFlow
<1>11. ASSUME NEW t \in Timers, Dsar!TimerEnds(t)
       PROVE  DsarInv'
  <2>1. card' \in CardStates
    BY <1>0, <1>11 DEF Dsar!TimerEnds, Dsar!OnCard, CardStates
  <2>2. /\ otp' \in [verified : BOOLEAN, requested : BOOLEAN, cooldown : BOOLEAN]
        /\ otp'.verified = otp.verified
    BY <1>0, <1>11 DEF Dsar!TimerEnds
  <2>3. UNCHANGED <<email, typed, requests, validated, submitted, mixed>>
    BY <1>11 DEF Dsar!TimerEnds
  <2> QED
    BY <2>1, <2>2, <2>3 DEF DsarInv, DsarTypeOK
<1>12. CASE UNCHANGED dsarVars
  BY <1>12 DEF dsarVars, DsarInv, DsarTypeOK
<1> QED
  BY <1>1, <1>2, <1>3, <1>4, <1>5, <1>6, <1>7, <1>8, <1>9, <1>10, <1>11, <1>12 DEF Dsar!Next

-----------------------------------------------------------------------------
(* The child consent form.                                                 *)

CallStates ==
    [pc : {"idle", "start", "send", "verify", "finalize", "queue"},
     sub : 0..MaxSubs, version : Nat]

SubStates == [version : Nat, confirmed : BOOLEAN, finals : SUBSET (1..MaxFills)]

ChildTypeOK ==
    /\ fill \in 1..MaxFills
    /\ branch \in {"unknown", "adult", "minor"}
    /\ details \in Nat \ {0}
    /\ submission \in 0..MaxSubs
    /\ verified \in BOOLEAN
    /\ calls \in [Child!Handlers -> CallStates]
    /\ subs \in [1..MaxSubs -> SubStates]
    /\ overlap \in BOOLEAN

\* What a handler waits for was asked with the card as it still is.
AsksForCard(c, sub, version, kind) ==
    /\ c.pc = "start" => sub = 0 /\ c.version = version
    /\ c.pc \in {"verify", "finalize"} => c.sub = sub /\ sub # 0
    /\ c.pc = "verify" => kind = "minor"

\* A submission that is not started has no forms, any other has one at most.
OneFinal(u) ==
    /\ u.version = 0 => u.finals = {}
    /\ \E f \in 1..MaxFills : u.finals \subseteq {f}

CardRight ==
    /\ \A s \in 1..MaxSubs : OneFinal(subs[s])
    /\ submission # 0 => /\ subs[submission].version # 0
                         /\ subs[submission].finals \subseteq {fill}
                         /\ branch = "minor" => subs[submission].version = details
    /\ verified => branch = "minor" /\ submission # 0 /\ subs[submission].confirmed

\* While the visitor waits for each answer one handler waits at most.
ChildInv ==
    /\ ChildTypeOK
    /\ ~overlap =>
         /\ \A k, l \in Child!Handlers : calls[k].pc # "idle" /\ calls[l].pc # "idle" => k = l
         /\ \A k \in Child!Handlers : AsksForCard(calls[k], submission, details, branch)
         /\ CardRight

LEMMA Bounds ==
  /\ 1 \in 1..MaxFills /\ 1 \in Nat \ {0} /\ 0 \in 0..MaxSubs
  /\ \A s \in 1..MaxSubs : s \in 0..MaxSubs /\ s # 0
BY PagesAssumption

LEMMA WaitingType == Child!Waiting \in CallStates /\ Child!Waiting.pc = "idle"
BY PagesAssumption DEF Child!Waiting, CallStates

LEMMA ChildInit ==
  ASSUME Child!Init
  PROVE  ChildInv
<1>0. Child!NoSub \in SubStates
  BY DEF Child!NoSub, SubStates
<1>1. ChildTypeOK
  <2>1. calls \in [Child!Handlers -> CallStates] /\ subs \in [1..MaxSubs -> SubStates]
    BY <1>0, WaitingType DEF Child!Init
  <2>2. fill = 1 /\ branch = "unknown" /\ details = 1 /\ submission = 0 /\ verified = FALSE /\ overlap = FALSE
    BY DEF Child!Init
  <2> QED
    BY <2>1, <2>2, Bounds DEF ChildTypeOK
<1>2. \A k \in Child!Handlers : calls[k].pc = "idle"
  BY WaitingType DEF Child!Init
<1>3. \A s \in 1..MaxSubs : OneFinal(subs[s])
  BY PagesAssumption DEF Child!Init, Child!NoSub, OneFinal
<1>4. submission = 0 /\ ~verified
  BY DEF Child!Init
<1> QED
  BY <1>1, <1>2, <1>3, <1>4 DEF ChildInv, CardRight, AsksForCard

NoHandlerWaits == \A k \in Child!Handlers : calls[k].pc = "idle"

LEMMA ChildActsAlone ==
  ASSUME ChildInv, Child!Acts
  PROVE  overlap' \in BOOLEAN /\ (~overlap' => ~overlap /\ NoHandlerWaits)
BY DEF Child!Acts, Child!Pending, ChildInv, ChildTypeOK, NoHandlerWaits

\* A button is pressed: one handler waits.
LEMMA ChildPress ==
  ASSUME ChildInv, NEW k \in Child!Handlers, NEW w \in CallStates,
         calls' = [calls EXCEPT ![k] = w], Child!Acts,
         AsksForCard(w, submission, details, branch),
         UNCHANGED <<fill, branch, details, submission, verified, subs>>
  PROVE  ChildInv'
<1>1. overlap' \in BOOLEAN /\ (~overlap' => ~overlap /\ NoHandlerWaits)
  BY ChildActsAlone
<1>2. calls' \in [Child!Handlers -> CallStates]
  BY DEF ChildInv, ChildTypeOK
<1>3. \A l \in Child!Handlers : calls'[l] = IF l = k THEN w ELSE calls[l]
  BY DEF ChildInv, ChildTypeOK
<1>4. ASSUME ~overlap', NEW l \in Child!Handlers
      PROVE  /\ calls'[l].pc # "idle" => l = k
             /\ AsksForCard(calls'[l], submission', details', branch')
  BY <1>1, <1>3, <1>4 DEF NoHandlerWaits, AsksForCard
<1>5. ChildTypeOK'
  BY <1>1, <1>2 DEF ChildInv, ChildTypeOK
<1> QED
  BY <1>1, <1>4, <1>5 DEF ChildInv, CardRight

\* The visitor changes the card: the verification starts over, or it stays as
\* it is on a form that is not a minor's.
LEMMA ChildType ==
  ASSUME ChildInv, Child!Acts, UNCHANGED <<calls, subs>>,
         fill' \in 1..MaxFills, branch' \in {"unknown", "adult", "minor"}, details' \in Nat \ {0},
         \/ submission' = 0 /\ verified' = FALSE
         \/ branch # "minor" /\ UNCHANGED <<fill, branch, submission, verified>>
  PROVE  ChildInv'
<1>1. overlap' \in BOOLEAN /\ (~overlap' => ~overlap /\ NoHandlerWaits)
  BY ChildActsAlone
<1>2. submission' \in 0..MaxSubs /\ verified' \in BOOLEAN
  BY Bounds DEF ChildInv, ChildTypeOK
<1>3. ChildTypeOK'
  BY <1>1, <1>2 DEF ChildInv, ChildTypeOK
<1>4. ASSUME ~overlap', NEW l \in Child!Handlers
      PROVE  /\ calls'[l].pc = "idle"
             /\ AsksForCard(calls'[l], submission', details', branch')
  BY <1>1, <1>4 DEF NoHandlerWaits, AsksForCard
<1>5. ASSUME ~overlap'
      PROVE  CardRight'
  <2>1. CASE submission' = 0 /\ verified' = FALSE
    BY <1>1, <1>5, <2>1 DEF ChildInv, CardRight
  <2>2. CASE branch # "minor" /\ UNCHANGED <<fill, branch, submission, verified>>
    BY <1>1, <1>5, <2>2 DEF ChildInv, CardRight
  <2> QED
    BY <2>1, <2>2
<1> QED
  BY <1>1, <1>3, <1>4, <1>5 DEF ChildInv

\* A handler goes on, or ends.
LEMMA ChildAnswer ==
  ASSUME ChildInv, NEW k \in Child!Handlers, NEW w \in CallStates, calls[k].pc # "idle",
         calls' = [calls EXCEPT ![k] = w], UNCHANGED overlap,
         fill' \in 1..MaxFills, branch' \in {"unknown", "adult", "minor"}, details' \in Nat \ {0},
         submission' \in 0..MaxSubs, verified' \in BOOLEAN,
         subs' \in [1..MaxSubs -> SubStates],
         ~overlap => AsksForCard(w, submission', details', branch') /\ CardRight'
  PROVE  ChildInv'
<1>1. calls' \in [Child!Handlers -> CallStates]
  BY DEF ChildInv, ChildTypeOK
<1>2. \A l \in Child!Handlers : calls'[l] = IF l = k THEN w ELSE calls[l]
  BY DEF ChildInv, ChildTypeOK
<1>3. ASSUME ~overlap, NEW l \in Child!Handlers
      PROVE  /\ calls'[l].pc # "idle" => l = k
             /\ AsksForCard(calls'[l], submission', details', branch')
  BY <1>2, <1>3 DEF ChildInv, AsksForCard
<1>4. ChildTypeOK'
  BY <1>1 DEF ChildInv, ChildTypeOK
<1> QED
  BY <1>3, <1>4 DEF ChildInv

\* Clearing the card leaves a submission to which nothing is added any more.
LEMMA Clearing ==
  ASSUME ChildInv, Child!ClearCard
  PROVE  /\ fill' \in 1..MaxFills /\ branch' = "unknown" /\ details' = 1
         /\ submission' = 0 /\ verified' = FALSE
         /\ branch' \in {"unknown", "adult", "minor"} /\ details' \in Nat \ {0}
         /\ submission' \in 0..MaxSubs /\ verified' \in BOOLEAN
<1>1. fill \in 1..MaxFills /\ fill < MaxFills /\ fill' = fill + 1
  BY DEF ChildInv, ChildTypeOK, Child!ClearCard
<1>2. fill' \in 1..MaxFills
  BY <1>1, PagesAssumption
<1>3. branch' = "unknown" /\ details' = 1 /\ submission' = 0 /\ verified' = FALSE
  BY DEF Child!ClearCard, Child!ResetVerification
<1> QED
  BY <1>2, <1>3, Bounds

\* A submission is started for the card as it is.
LEMMA StartingFor ==
  ASSUME ChildInv, NEW k \in Child!Handlers, calls[k].pc = "start", NEW s \in Child!Free,
         subs' = [subs EXCEPT ![s] = [Child!NoSub EXCEPT !.version = calls[k].version]],
         submission' = s, UNCHANGED <<fill, branch, details, verified>>
  PROVE  /\ s \in 1..MaxSubs /\ subs' \in [1..MaxSubs -> SubStates]
         /\ ~overlap => CardRight'
<1> DEFINE v == calls[k].version
<1>1. s \in 1..MaxSubs /\ v \in Nat
  BY DEF Child!Free, ChildInv, ChildTypeOK, CallStates
<1>2. PICK u : u = [Child!NoSub EXCEPT !.version = v]
  OBVIOUS
<1>3. u = [version |-> v, confirmed |-> FALSE, finals |-> {}]
  BY <1>2 DEF Child!NoSub
<1>4. subs' = [subs EXCEPT ![s] = u]
  BY <1>2
<1>5. subs' \in [1..MaxSubs -> SubStates]
  <2>1. u \in SubStates
    BY <1>1, <1>3 DEF SubStates
  <2> QED
    BY <1>1, <1>4, <2>1 DEF ChildInv, ChildTypeOK
<1>6. ASSUME ~overlap
      PROVE  CardRight'
  <2>1. submission = 0 /\ v = details /\ v # 0 /\ ~verified
    BY <1>6 DEF ChildInv, ChildTypeOK, AsksForCard, CardRight
  <2>2. subs'[s] = u /\ \A r \in (1..MaxSubs) \ {s} : subs'[r] = subs[r]
    BY <1>1, <1>4 DEF ChildInv, ChildTypeOK
  <2>3. OneFinal(u)
    BY <1>3, PagesAssumption DEF OneFinal
  <2>4. \A r \in 1..MaxSubs : OneFinal(subs'[r])
    BY <1>6, <2>2, <2>3 DEF ChildInv, CardRight
  <2> HIDE DEF v
  <2> QED
    BY <1>1, <1>3, <2>1, <2>2, <2>4 DEF CardRight
<1> QED
  BY <1>1, <1>5, <1>6

\* The form is finalized under the submission of the card.
LEMMA Finalizing ==
  ASSUME ChildInv, calls["submit"].pc = "finalize", Child!Finalized
  PROVE  /\ subs' \in [1..MaxSubs -> SubStates]
         /\ ~overlap =>
              /\ \A s \in 1..MaxSubs : OneFinal(subs'[s])
              /\ \A s \in 1..MaxSubs : /\ subs'[s].version = subs[s].version
                                       /\ subs'[s].confirmed = subs[s].confirmed
              /\ subs'[submission].finals \subseteq {fill}
<1> DEFINE sub == calls["submit"].sub
<1>1. sub \in 0..MaxSubs /\ fill \in 1..MaxFills /\ subs \in [1..MaxSubs -> SubStates]
  BY DEF ChildInv, ChildTypeOK, CallStates, Child!Handlers
<1>2. subs' = [subs EXCEPT ![sub].finals = @ \cup {fill}]
  BY DEF Child!Finalized
<1>3. subs' \in [1..MaxSubs -> SubStates]
  BY <1>1, <1>2 DEF SubStates
<1>4. ASSUME ~overlap
      PROVE  sub = submission /\ submission \in 1..MaxSubs /\ subs[submission].version # 0
             /\ subs[submission].finals \subseteq {fill}
  BY <1>1, <1>4 DEF ChildInv, ChildTypeOK, AsksForCard, CardRight, Child!Handlers
<1> HIDE DEF sub
<1>5. ASSUME ~overlap, NEW s \in 1..MaxSubs
      PROVE  /\ subs'[s].version = subs[s].version /\ subs'[s].confirmed = subs[s].confirmed
             /\ subs'[s].finals = IF s = sub THEN subs[s].finals \cup {fill} ELSE subs[s].finals
  BY <1>1, <1>2 DEF SubStates
<1>6. ASSUME ~overlap, NEW s \in 1..MaxSubs
      PROVE  OneFinal(subs'[s])
  <2>1. CASE s = sub
    BY <1>1, <1>4, <1>5, <1>6, <2>1 DEF OneFinal
  <2>2. CASE s # sub
    BY <1>5, <1>6, <2>2 DEF ChildInv, CardRight, OneFinal
  <2> QED
    BY <2>1, <2>2
<1> QED
  BY <1>3, <1>4, <1>5, <1>6

LEMMA ChildStep ==
  ASSUME ChildInv, [Child!Next]_childVars
  PROVE  ChildInv'
<1> USE DEF Child!cardVars, Child!Return, Child!Wait, Child!Press
<1>0. ChildTypeOK /\ {"send", "verify", "submit", "queue", "queueAgain"} = Child!Handlers
  BY DEF ChildInv, Child!Handlers
<1>1. ASSUME NEW b \in {"unknown", "adult", "minor"}, Child!SetBranch(b)
      PROVE  ChildInv'
  BY <1>0, <1>1, ChildType DEF Child!SetBranch, Child!ResetVerification, ChildTypeOK
<1>2. CASE Child!Edit
  <2>1. details' \in Nat \ {0}
    BY <1>0, <1>2 DEF Child!Edit, ChildTypeOK
  <2> QED
    BY <1>0, <1>2, <2>1, ChildType DEF Child!Edit, Child!ResetVerification, ChildTypeOK
<1>3. CASE Child!Remount
  <2>1. overlap' \in BOOLEAN /\ (~overlap' => ~overlap /\ NoHandlerWaits)
    BY <1>3, ChildActsAlone DEF Child!Remount
  <2>2. \A k \in Child!Handlers : calls'[k] \in CallStates /\ calls'[k].pc = "idle"
    BY <1>3, WaitingType DEF Child!Remount
  <2>3. calls' \in [Child!Handlers -> CallStates]
    BY <1>3, WaitingType DEF Child!Remount
  <2>4. subs' = subs \/ (calls["submit"].pc = "finalize" /\ Child!Finalized)
    BY <1>3 DEF Child!Remount, Child!Finalized
  <2>5. subs' \in [1..MaxSubs -> SubStates]
    BY <1>0, <2>4, Finalizing DEF ChildTypeOK
  <2>6. ~overlap' => subs' = subs
    BY <1>0, <2>1, <2>4 DEF NoHandlerWaits
  <2>7. /\ fill' \in 1..MaxFills /\ branch' = "unknown" /\ details' = 1
        /\ submission' = 0 /\ verified' = FALSE
        /\ branch' \in {"unknown", "adult", "minor"} /\ details' \in Nat \ {0}
        /\ submission' \in 0..MaxSubs /\ verified' \in BOOLEAN
    BY <1>3, Clearing DEF Child!Remount
  <2>8. ChildTypeOK'
    BY <2>1, <2>3, <2>5, <2>7 DEF ChildTypeOK
  <2>9. ~overlap' => CardRight'
    BY <2>1, <2>6, <2>7 DEF ChildInv, CardRight
  <2> QED
    BY <2>2, <2>8, <2>9 DEF ChildInv, AsksForCard
<1>4. CASE Child!PressSend
  <2> DEFINE w == IF submission = 0 THEN [Child!Waiting EXCEPT !.pc = "start", !.version = details]
                                    ELSE [Child!Waiting EXCEPT !.pc = "send"]
  <2>1. PICK u : u = w
    OBVIOUS
  <2>2. u = [pc |-> IF submission = 0 THEN "start" ELSE "send", sub |-> 0,
             version |-> IF submission = 0 THEN details ELSE 0]
    BY <2>1 DEF Child!Waiting
  <2>3. calls' = [calls EXCEPT !["send"] = u]
    BY <1>4, <2>1 DEF Child!PressSend
  <2>4. u \in CallStates /\ AsksForCard(u, submission, details, branch)
    BY <1>0, <2>2, Bounds DEF CallStates, AsksForCard, ChildTypeOK
  <2> HIDE DEF w
  <2> QED
    BY <1>0, <1>4, <2>3, <2>4, ChildPress DEF Child!PressSend
<1>5. CASE Child!SendStarted
  <2>1. /\ calls["send"].pc = "start" /\ UNCHANGED <<fill, branch, details, verified, overlap>>
        /\ {Child!Waiting, [pc |-> "send", sub |-> 0, version |-> 0]} \subseteq CallStates
    BY <1>5, WaitingType, Bounds DEF Child!SendStarted, CallStates
  <2>2. CASE UNCHANGED <<subs, submission>> /\ calls' = [calls EXCEPT !["send"] = Child!Waiting]
    <3>1. AsksForCard(Child!Waiting, submission', details', branch')
      BY WaitingType DEF AsksForCard
    <3>2. ~overlap => CardRight'
      BY <2>1, <2>2 DEF ChildInv, CardRight
    <3> QED
      BY <1>0, <2>1, <2>2, <3>1, <3>2, ChildAnswer DEF ChildTypeOK
  <2>3. ASSUME NEW s \in Child!Free, submission' = s,
               subs' = [subs EXCEPT ![s] = [Child!NoSub EXCEPT !.version = calls["send"].version]],
               calls' = [calls EXCEPT !["send"] = [Child!Waiting EXCEPT !.pc = "send"]]
        PROVE  ChildInv'
    <3>1. PICK u : u = [Child!Waiting EXCEPT !.pc = "send"]
      OBVIOUS
    <3>2. u = [pc |-> "send", sub |-> 0, version |-> 0]
      BY <3>1 DEF Child!Waiting
    <3>3. calls' = [calls EXCEPT !["send"] = u]
      BY <2>3, <3>1
    <3>4. u \in CallStates /\ AsksForCard(u, submission', details', branch')
      BY <2>1, <3>2 DEF AsksForCard
    <3>5. /\ s \in 1..MaxSubs /\ subs' \in [1..MaxSubs -> SubStates]
          /\ ~overlap => CardRight'
      BY <1>0, <2>1, <2>3, StartingFor
    <3> QED
      BY <1>0, <2>1, <2>3, <3>3, <3>4, <3>5, ChildAnswer, Bounds DEF ChildTypeOK
  <2> QED
    BY <1>5, <2>2, <2>3 DEF Child!SendStarted
<1>6. CASE Child!SendAnswered
  <2>1. ~overlap => CardRight'
    BY <1>6 DEF Child!SendAnswered, ChildInv, CardRight
  <2>2. /\ calls' = [calls EXCEPT !["send"] = Child!Waiting] /\ calls["send"].pc # "idle"
        /\ UNCHANGED <<fill, branch, details, submission, subs, overlap>>
        /\ verified' \in BOOLEAN
    BY <1>0, <1>6 DEF Child!SendAnswered, ChildTypeOK
  <2>3. AsksForCard(Child!Waiting, submission', details', branch')
    BY WaitingType DEF AsksForCard
  <2> QED
    BY <1>0, <2>1, <2>2, <2>3, ChildAnswer, WaitingType DEF ChildTypeOK
<1>7. CASE Child!PressVerify
  <2>1. PICK u : u = [Child!Waiting EXCEPT !.pc = "verify", !.sub = submission]
    OBVIOUS
  <2>2. u = [pc |-> "verify", sub |-> submission, version |-> 0]
    BY <2>1 DEF Child!Waiting
  <2>3. calls' = [calls EXCEPT !["verify"] = u]
    BY <1>7, <2>1 DEF Child!PressVerify
  <2>4. u \in CallStates /\ AsksForCard(u, submission, details, branch)
    BY <1>0, <1>7, <2>2 DEF Child!PressVerify, CallStates, AsksForCard, ChildTypeOK
  <2> QED
    BY <1>0, <1>7, <2>3, <2>4, ChildPress DEF Child!PressVerify
<1>8. CASE Child!VerifyAnswered
  <2> DEFINE sub == calls["verify"].sub
  <2>1. PICK confirmed \in BOOLEAN, ok \in BOOLEAN :
          /\ ok => confirmed
          /\ subs' = [subs EXCEPT ![sub].confirmed = @ \/ confirmed]
          /\ verified' = ok
    BY <1>8 DEF Child!VerifyAnswered
  <2>2. /\ calls' = [calls EXCEPT !["verify"] = Child!Waiting] /\ calls["verify"].pc = "verify"
        /\ UNCHANGED <<fill, branch, details, submission, overlap>>
    BY <1>8 DEF Child!VerifyAnswered
  <2>3. subs' \in [1..MaxSubs -> SubStates]
    BY <1>0, <2>1 DEF ChildTypeOK, SubStates
  <2>4. ~overlap => sub = submission /\ submission \in 1..MaxSubs /\ branch = "minor"
    BY <1>0, <2>2 DEF ChildInv, ChildTypeOK, AsksForCard
  <2> HIDE DEF sub
  <2>5. ASSUME NEW s \in 1..MaxSubs
        PROVE  /\ subs'[s].version = subs[s].version /\ subs'[s].finals = subs[s].finals
               /\ s = sub => subs'[s].confirmed = (subs[s].confirmed \/ confirmed)
    BY <1>0, <2>1 DEF ChildTypeOK, SubStates
  <2>6. ~overlap => CardRight'
    BY <2>1, <2>2, <2>4, <2>5 DEF ChildInv, CardRight, OneFinal
  <2>7. AsksForCard(Child!Waiting, submission', details', branch')
    BY WaitingType DEF AsksForCard
  <2> QED
    BY <1>0, <2>1, <2>2, <2>3, <2>6, <2>7, ChildAnswer, WaitingType DEF ChildTypeOK
<1>9. CASE Child!PressSubmit
  <2> DEFINE w == IF submission = 0 THEN [Child!Waiting EXCEPT !.pc = "start", !.version = details]
                                    ELSE [Child!Waiting EXCEPT !.pc = "finalize", !.sub = submission]
  <2>1. PICK u : u = w
    OBVIOUS
  <2>2. u = [pc |-> IF submission = 0 THEN "start" ELSE "finalize", sub |-> submission,
             version |-> IF submission = 0 THEN details ELSE 0]
    BY <2>1 DEF Child!Waiting
  <2>3. calls' = [calls EXCEPT !["submit"] = u]
    BY <1>9, <2>1 DEF Child!PressSubmit
  <2>4. u \in CallStates /\ AsksForCard(u, submission, details, branch)
    BY <1>0, <2>2 DEF CallStates, AsksForCard, ChildTypeOK
  <2> HIDE DEF w
  <2> QED
    BY <1>0, <1>9, <2>3, <2>4, ChildPress DEF Child!PressSubmit
<1>10. CASE Child!SubmitStarted
  <2>1. calls["submit"].pc = "start" /\ UNCHANGED <<fill, branch, details, verified, overlap>>
    BY <1>10 DEF Child!SubmitStarted
  <2>2. AsksForCard(Child!Waiting, submission', details', branch')
    BY WaitingType DEF AsksForCard
  <2>3. CASE UNCHANGED <<subs, submission>> /\ calls' = [calls EXCEPT !["submit"] = Child!Waiting]
    <3>1. ~overlap => CardRight'
      BY <2>1, <2>3 DEF ChildInv, CardRight
    <3> QED
      BY <1>0, <2>1, <2>2, <2>3, <3>1, ChildAnswer, WaitingType DEF ChildTypeOK
  <2>4. ASSUME NEW s \in Child!Free, submission' = s,
               subs' = [subs EXCEPT ![s] = [Child!NoSub EXCEPT !.version = calls["submit"].version]],
               \/ calls' = [calls EXCEPT !["submit"] = Child!Waiting]
               \/ calls' = [calls EXCEPT !["submit"] = [Child!Waiting EXCEPT !.pc = "finalize", !.sub = s]]
        PROVE  ChildInv'
    <3>1. PICK u : u = [Child!Waiting EXCEPT !.pc = "finalize", !.sub = s]
      OBVIOUS
    <3>2. u = [pc |-> "finalize", sub |-> s, version |-> 0]
      BY <3>1 DEF Child!Waiting
    <3>3. /\ s \in 1..MaxSubs /\ subs' \in [1..MaxSubs -> SubStates]
          /\ ~overlap => CardRight'
      BY <1>0, <2>1, <2>4, StartingFor
    <3>4. s \in 0..MaxSubs /\ s # 0
      BY <3>3, PagesAssumption
    <3>5. u \in CallStates /\ AsksForCard(u, submission', details', branch')
      BY <2>4, <3>2, <3>4 DEF AsksForCard, CallStates
    <3>6. calls' = [calls EXCEPT !["submit"] = Child!Waiting] \/ calls' = [calls EXCEPT !["submit"] = u]
      BY <2>4, <3>1
    <3> QED
      BY <1>0, <2>1, <2>2, <2>4, <3>3, <3>4, <3>5, <3>6, ChildAnswer, WaitingType DEF ChildTypeOK
  <2> QED
    BY <1>10, <2>3, <2>4 DEF Child!SubmitStarted
<1>11. CASE Child!FinalizeAnswered
  <2>1. /\ calls' = [calls EXCEPT !["submit"] = Child!Waiting] /\ calls["submit"].pc = "finalize"
        /\ UNCHANGED overlap
    BY <1>11 DEF Child!FinalizeAnswered
  <2>2. Child!Finalized \/ subs' = subs
    BY <1>11 DEF Child!FinalizeAnswered
  <2>3. \/ Child!ClearCard
        \/ UNCHANGED <<fill, branch, details, submission, verified>>
    BY <1>11 DEF Child!FinalizeAnswered
  <2>4. /\ fill' \in 1..MaxFills /\ branch' \in {"unknown", "adult", "minor"} /\ details' \in Nat \ {0}
        /\ submission' \in 0..MaxSubs /\ verified' \in BOOLEAN
    <3>1. CASE Child!ClearCard
      BY <3>1, Clearing
    <3>2. CASE UNCHANGED <<fill, branch, details, submission, verified>>
      BY <1>0, <3>2 DEF ChildTypeOK
    <3> QED
      BY <2>3, <3>1, <3>2
  <2>5. subs' \in [1..MaxSubs -> SubStates]
    BY <1>0, <2>1, <2>2, Finalizing DEF ChildTypeOK
  <2>6. ASSUME ~overlap
        PROVE  CardRight'
    <3>1. \A s \in 1..MaxSubs : /\ OneFinal(subs'[s])
                                /\ subs'[s].version = subs[s].version
                                /\ subs'[s].confirmed = subs[s].confirmed
      BY <2>1, <2>2, <2>6, Finalizing DEF ChildInv, CardRight
    <3>2. submission # 0 => submission \in 1..MaxSubs /\ subs'[submission].finals \subseteq {fill}
      <4>1. submission # 0 => submission \in 1..MaxSubs
        BY <1>0 DEF ChildTypeOK
      <4>2. CASE Child!Finalized
        BY <2>1, <2>6, <4>1, <4>2, Finalizing
      <4>3. CASE subs' = subs
        BY <2>6, <4>1, <4>3 DEF ChildInv, CardRight
      <4> QED
        BY <2>2, <4>1, <4>2, <4>3
    <3>3. CASE Child!ClearCard
      BY <3>1, <3>3, Clearing DEF CardRight
    <3>4. CASE UNCHANGED <<fill, branch, details, submission, verified>>
      BY <2>6, <3>1, <3>2, <3>4 DEF ChildInv, CardRight
    <3> QED
      BY <2>3, <3>3, <3>4
  <2>7. AsksForCard(Child!Waiting, submission', details', branch')
    BY WaitingType DEF AsksForCard
  <2> QED
    BY <1>0, <2>1, <2>4, <2>5, <2>6, <2>7, ChildAnswer, WaitingType
<1>12. CASE Child!PressOffline
  <2>1. PICK u : u = [Child!Waiting EXCEPT !.pc = "queue"]
    OBVIOUS
  <2>2. u = [pc |-> "queue", sub |-> 0, version |-> 0]
    BY <2>1 DEF Child!Waiting
  <2>3. PICK k \in {"queue", "queueAgain"} : calls' = [calls EXCEPT ![k] = u] /\ Child!Acts
    BY <1>12, <2>1 DEF Child!PressOffline
  <2>4. u \in CallStates /\ AsksForCard(u, submission, details, branch)
    BY <2>2, Bounds DEF CallStates, AsksForCard
  <2> QED
    BY <1>0, <1>12, <2>3, <2>4, ChildPress DEF Child!PressOffline
<1>13. ASSUME NEW k \in {"queue", "queueAgain"}, Child!Queued(k)
       PROVE  ChildInv'
  <2>1. /\ calls' = [calls EXCEPT ![k] = Child!Waiting] /\ calls[k].pc # "idle"
        /\ UNCHANGED <<subs, overlap>>
    BY <1>13 DEF Child!Queued
  <2>2. \/ Child!ClearCard
        \/ UNCHANGED <<fill, branch, details, submission, verified>>
    BY <1>13 DEF Child!Queued
  <2>3. /\ fill' \in 1..MaxFills /\ branch' \in {"unknown", "adult", "minor"} /\ details' \in Nat \ {0}
        /\ submission' \in 0..MaxSubs /\ verified' \in BOOLEAN
    <3>1. CASE Child!ClearCard
      BY <3>1, Clearing
    <3>2. CASE UNCHANGED <<fill, branch, details, submission, verified>>
      BY <1>0, <3>2 DEF ChildTypeOK
    <3> QED
      BY <2>2, <3>1, <3>2
  <2>4. ~overlap => CardRight'
    BY <2>1, <2>2, Clearing DEF ChildInv, CardRight
  <2>5. AsksForCard(Child!Waiting, submission', details', branch')
    BY WaitingType DEF AsksForCard
  <2> QED
    BY <1>0, <2>1, <2>3, <2>4, <2>5, ChildAnswer, WaitingType DEF ChildTypeOK
<1>14. CASE UNCHANGED childVars
  BY <1>14 DEF childVars, ChildInv, ChildTypeOK, CardRight
<1> QED
  BY <1>1, <1>2, <1>3, <1>4, <1>5, <1>6, <1>7, <1>8, <1>9, <1>10, <1>11, <1>12, <1>13, <1>14
  DEF Child!Next

-----------------------------------------------------------------------------
(* The codes that confirm a person.                                        *)

LEMMA SameCardinality ==
  ASSUME NEW S
  PROVE  Child!Cardinality(S) = Cardinality(S)
BY DEF Child!Cardinality, Cardinality

LEMMA OneAtMost ==
  ASSUME NEW S, NEW x, S \subseteq {x}
  PROVE  Cardinality(S) <= 1
<1>1. Cardinality({}) = 0 /\ Cardinality({x}) = 1
  BY FS_EmptySet, FS_Singleton
<1>2. CASE S = {}
  BY <1>1, <1>2
<1>3. CASE S = {x}
  BY <1>1, <1>3
<1> QED
  BY <1>2, <1>3

\* While the visitor waits for each answer, both forms count only what the
\* server confirmed, and a submission is finalised for one form.
THEOREM CodesAreConfirmed == Spec => []CodesConfirmed
<1> DEFINE Inv == DsarInv /\ ChildInv
<1>1. Init => Inv
  BY DsarInit, ChildInit DEF Init
<1>2. Inv /\ [Next]_vars => Inv'
  BY PartSteps, DsarStep, ChildStep
<1>3. Inv => CodesConfirmed
  <2>1. Inv => Dsar!SubmittedIsValidated
    BY DEF DsarInv, Dsar!SubmittedIsValidated
  <2>2. ASSUME Inv, ~overlap
        PROVE  verified => /\ branch = "minor" /\ submission # 0
                           /\ subs[submission].confirmed /\ subs[submission].version = details
    BY <2>2 DEF ChildInv, CardRight
  <2>3. ASSUME Inv, ~overlap, NEW s \in 1..MaxSubs
        PROVE  Cardinality(subs[s].finals) <= 1
    <3>1. PICK f \in 1..MaxFills : subs[s].finals \subseteq {f}
      BY <2>3 DEF ChildInv, CardRight, OneFinal
    <3> QED
      BY <3>1, OneAtMost
  <2>4. Inv => Child!VerifiedIsConfirmed
    BY <2>2, <2>3, SameCardinality DEF Child!VerifiedIsConfirmed
  <2> QED
    BY <2>1, <2>4 DEF CodesConfirmed
<1> HIDE DEF Inv
<1> QED
  BY <1>1, <1>2, <1>3, PTL DEF Spec

-----------------------------------------------------------------------------
(* The ids of the attempts.                                                *)

Used == UNION {attempts[f] : f \in 1..MaxFills}

\* The ids in use are numbered without a gap, and the current form has the
\* id of the card.
IdsInv ==
    /\ fill \in 1..MaxFills /\ clientId \in Nat
    /\ attempts \in [1..MaxFills -> SUBSET Nat]
    /\ \E n \in Nat : Used = 1..n
    /\ attempts[fill] = IF clientId = 0 THEN {} ELSE {clientId}
    /\ \A f \in 1..MaxFills :
          /\ f > fill => attempts[f] = {}
          /\ attempts[f] = {} \/ \E i \in Nat : attempts[f] = {i}
    /\ \A f, g \in 1..MaxFills : f # g => attempts[f] \cap attempts[g] = {}

LEMMA IdsInit ==
  ASSUME Child!Init
  PROVE  IdsInv
<1>1. fill = 1 /\ clientId = 0 /\ attempts = [f \in 1..MaxFills |-> {}]
  BY DEF Child!Init
<1>2. Used = {} /\ 1..0 = {}
  BY <1>1 DEF Used
<1> QED
  BY <1>1, <1>2, PagesAssumption DEF IdsInv

LEMMA ClientIdUsed ==
  ASSUME IdsInv, Child!UseClientId, UNCHANGED fill
  PROVE  IdsInv'
<1>1. PICK n \in Nat : Used = 1..n
  BY DEF IdsInv
<1>2. Cardinality(Used) = n
  <2>1. Cardinality(1..n) = IF 1 > n THEN 0 ELSE n - 1 + 1
    BY FS_Interval
  <2> QED
    BY <1>1, <2>1
<1>3. CASE clientId # 0
  <2>1. clientId' = clientId /\ attempts' = [attempts EXCEPT ![fill] = @ \cup {clientId}]
    BY <1>3 DEF Child!UseClientId
  <2>2. attempts' = attempts
    BY <1>3, <2>1 DEF IdsInv
  <2>3. Used' = Used
    BY <2>2 DEF Used
  <2> QED
    BY <2>1, <2>2, <2>3 DEF IdsInv
<1>4. CASE clientId = 0
  <2>1. clientId' = n + 1 /\ attempts' = [attempts EXCEPT ![fill] = @ \cup {n + 1}]
    <3>1. 1 + Cardinality(UNION {attempts[f] : f \in 1..MaxFills}) = n + 1
      BY <1>2 DEF Used
    <3> DEFINE next == 1 + Cardinality(UNION {attempts[f] : f \in 1..MaxFills})
    <3>2. clientId' = next /\ attempts' = [attempts EXCEPT ![fill] = @ \cup {next}]
      BY <1>4, SameCardinality DEF Child!UseClientId
    <3> HIDE DEF next
    <3>3. next = n + 1
      BY <3>1 DEF next
    <3> QED
      BY <3>2, <3>3
  <2>2. fill \in 1..MaxFills /\ attempts \in [1..MaxFills -> SUBSET Nat] /\ attempts[fill] = {}
    BY <1>4 DEF IdsInv
  <2>3. /\ attempts' \in [1..MaxFills -> SUBSET Nat] /\ attempts'[fill] = {n + 1}
        /\ \A f \in 1..MaxFills : f # fill => attempts'[f] = attempts[f]
    BY <2>1, <2>2
  <2>4. \A f \in 1..MaxFills : n + 1 \notin attempts[f]
    <3>1. n + 1 \notin Used
      BY <1>1
    <3> QED
      BY <3>1 DEF Used
  <2>5. Used' = Used \cup {n + 1}
    BY <2>2, <2>3 DEF Used
  <2>6. Used' = 1..(n + 1)
    BY <1>1, <2>5
  <2>7. \A f \in 1..MaxFills :
          /\ f > fill => attempts'[f] = {}
          /\ attempts'[f] = {} \/ \E i \in Nat : attempts'[f] = {i}
    BY <2>2, <2>3 DEF IdsInv
  <2>8. \A f, g \in 1..MaxFills : f # g => attempts'[f] \cap attempts'[g] = {}
    BY <2>3, <2>4 DEF IdsInv
  <2>9. n + 1 \in Nat /\ n + 1 # 0
    OBVIOUS
  <2>10. \E m \in Nat : Used' = 1..m
    BY <2>6, <2>9
  <2> QED
    BY <2>1, <2>2, <2>3, <2>7, <2>8, <2>9, <2>10 DEF IdsInv
<1> QED
  BY <1>3, <1>4

LEMMA IdsCleared ==
  ASSUME IdsInv, Child!ClearCard, UNCHANGED attempts
  PROVE  IdsInv'
<1>1. fill' = fill + 1 /\ fill' \in 1..MaxFills /\ clientId' = 0
  BY PagesAssumption DEF Child!ClearCard, IdsInv
<1>2. Used' = Used
  BY DEF Used
<1> QED
  BY <1>1, <1>2 DEF IdsInv

LEMMA IdsStep ==
  ASSUME IdsInv, [Child!Next]_childVars
  PROVE  IdsInv'
<1>1. ASSUME UNCHANGED <<fill, clientId, attempts>>
      PROVE  IdsInv'
  BY <1>1 DEF IdsInv, Used
<1>2. CASE Child!Remount \/ Child!FinalizeAnswered \/ \E k \in {"queue", "queueAgain"} : Child!Queued(k)
  BY <1>1, <1>2, IdsCleared DEF Child!Remount, Child!FinalizeAnswered, Child!Queued, Child!cardVars
<1>3. CASE Child!PressSubmit \/ Child!PressOffline
  BY <1>3, ClientIdUsed DEF Child!PressSubmit, Child!PressOffline
<1>4. CASE \/ Child!Edit \/ Child!PressSend \/ Child!SendStarted \/ Child!SendAnswered
           \/ Child!PressVerify \/ Child!VerifyAnswered \/ Child!SubmitStarted
           \/ \E b \in {"unknown", "adult", "minor"} : Child!SetBranch(b)
           \/ UNCHANGED childVars
  BY <1>1, <1>4 DEF Child!Edit, Child!PressSend, Child!SendStarted, Child!SendAnswered, Child!PressVerify,
                    Child!VerifyAnswered, Child!SubmitStarted, Child!SetBranch, Child!cardVars, childVars
<1> QED
  BY <1>2, <1>3, <1>4 DEF Child!Next

\* All attempts of a filled form carry one id, by which they differ from
\* those of any other form.
THEOREM FormsKeepTheirIds == Spec => []OneIdPerForm
<1>1. Init => IdsInv
  BY IdsInit DEF Init
<1>2. IdsInv /\ [Next]_vars => IdsInv'
  BY PartSteps, IdsStep
<1>3. IdsInv => OneIdPerForm
  <2>1. ASSUME IdsInv, NEW f \in 1..MaxFills
        PROVE  Cardinality(attempts[f]) <= 1
    <3>1. Cardinality({}) = 0 /\ \A i : Cardinality({i}) = 1
      BY FS_EmptySet, FS_Singleton
    <3>2. CASE attempts[f] = {}
      BY <3>1, <3>2
    <3>3. ASSUME NEW i \in Nat, attempts[f] = {i}
          PROVE  Cardinality(attempts[f]) <= 1
      <4>1. Cardinality({i}) = 1
        BY FS_Singleton
      <4> QED
        BY <3>3, <4>1
    <3> QED
      BY <2>1, <3>2, <3>3 DEF IdsInv
  <2>2. IdsInv => \A f, g \in 1..MaxFills : f # g => attempts[f] \cap attempts[g] = {}
    BY DEF IdsInv
  <2> SUFFICES ASSUME IdsInv
               PROVE  Child!OneIdPerForm
    BY DEF OneIdPerForm
  <2>3. \A f \in 1..MaxFills : Cardinality(attempts[f]) <= 1
    BY <2>1
  <2> QED
    BY <2>2, <2>3, SameCardinality DEF Child!OneIdPerForm
<1> QED
  BY <1>1, <1>2, <1>3, PTL DEF Spec

-----------------------------------------------------------------------------
(* The web form.                                                           *)

SheetStates ==
    [n : 1..MaxCards, answers : Nat, ticked : SUBSET Boxes, code : BOOLEAN,
     maySubmit : BOOLEAN, maySend : BOOLEAN]

SendingStates == [how : {"none", "post", "queue"}, answers : Nat]

WebTypeOK ==
    /\ sheet \in SheetStates
    /\ drafts \in Nat
    /\ sending \in [1..MaxCards -> SendingStates]

\* A card that is not built yet has nothing under way.
WebInv ==
    /\ WebTypeOK
    /\ AnswersKept
    /\ \A n \in 1..MaxCards : n > sheet.n => sending[n].how = "none"

LEMMA BlankType ==
  ASSUME NEW n \in 1..MaxCards
  PROVE  /\ Web!Blank(n) \in SheetStates /\ Web!Blank(n).n = n
         /\ Web!Blank(n).answers = 0
BY DEF Web!Blank, SheetStates

LEMMA WebInit ==
  ASSUME Web!Init
  PROVE  WebInv
<1>1. sheet = Web!Blank(1) /\ drafts = 0 /\ thanked = {} /\ kept = {} /\ dropped = {}
  BY DEF Web!Init
<1>2. 1 \in 1..MaxCards
  BY PagesAssumption
<1>3. sending \in [1..MaxCards -> SendingStates] /\ \A n \in 1..MaxCards : sending[n].how = "none"
  BY DEF Web!Init, Web!NotSending, SendingStates
<1>4. sheet \in SheetStates /\ sheet.n = 1
  BY <1>1, <1>2, BlankType
<1> QED
  BY <1>1, <1>2, <1>3, <1>4 DEF WebInv, WebTypeOK, AnswersKept, Web!AnswersKept

LEMMA WebStep ==
  ASSUME WebInv, [Web!Next]_webVars
  PROVE  WebInv'
<1> USE DEF WebInv, WebTypeOK, AnswersKept, Web!AnswersKept
<1>1. CASE Web!Fill
  <2>1. /\ drafts' = drafts + 1 /\ sheet' = [sheet EXCEPT !.answers = drafts + 1]
        /\ dropped' = dropped \cup ({sheet.answers} \ {0})
        /\ UNCHANGED <<sending, kept, thanked>>
    BY <1>1 DEF Web!Fill
  <2>2. sheet' \in SheetStates /\ sheet'.answers = drafts' /\ sheet'.n = sheet.n
        /\ sheet'.maySubmit = sheet.maySubmit
    BY <2>1 DEF SheetStates
  <2>3. \A v \in 1..drafts' : v \in thanked' \cup dropped' \/ sheet'.answers = v
    BY <2>1, <2>2
  <2> QED
    BY <2>1, <2>2, <2>3
<1>2. ASSUME NEW b \in Boxes, Web!Tick(b)
      PROVE  WebInv'
  <2>1. /\ sheet' \in SheetStates /\ sheet'.answers = sheet.answers /\ sheet'.n = sheet.n
        /\ sheet'.maySubmit = sheet.maySubmit
        /\ UNCHANGED <<drafts, sending, kept, thanked, dropped>>
    BY <1>2 DEF Web!Tick, SheetStates
  <2> QED
    BY <2>1
<1>3. CASE Web!TypeCode \/ Web!SendCode \/ Web!ChangeLine
  <2>1. /\ sheet' \in SheetStates /\ sheet'.answers = sheet.answers /\ sheet'.n = sheet.n
        /\ sheet'.maySubmit = sheet.maySubmit
        /\ UNCHANGED <<drafts, sending, kept, thanked, dropped>>
    BY <1>3 DEF Web!TypeCode, Web!SendCode, Web!ChangeLine, SheetStates
  <2> QED
    BY <2>1
<1>4. ASSUME NEW n \in 1..MaxCards, Web!CodeAnswered(n)
      PROVE  WebInv'
  <2>1. /\ sheet' \in SheetStates /\ sheet'.answers = sheet.answers /\ sheet'.n = sheet.n
        /\ sheet'.maySubmit = sheet.maySubmit
        /\ UNCHANGED <<drafts, sending, kept, thanked, dropped>>
    BY <1>4 DEF Web!CodeAnswered, Web!OnSheet, SheetStates
  <2> QED
    BY <2>1
<1>5. CASE Web!Rebuild
  <2>1. /\ sheet' = Web!Blank(sheet.n + 1) /\ dropped' = dropped \cup ({sheet.answers} \ {0})
        /\ UNCHANGED <<drafts, sending, kept, thanked>>
    BY <1>5 DEF Web!Rebuild
  <2>2. sheet.n + 1 \in 1..MaxCards /\ sheet.n + 1 > sheet.n
    BY <1>5, PagesAssumption DEF Web!Rebuild, SheetStates
  <2>3. sheet' \in SheetStates /\ sheet'.n = sheet.n + 1
    BY <2>1, <2>2, BlankType
  <2>4. \A v \in 1..drafts : v \in thanked \cup dropped'
    BY <2>1
  <2>5. sending[sheet.n + 1].how = "none"
    BY <2>2
  <2>6. \A n \in 1..MaxCards : n > sheet.n + 1 => sending[n].how = "none"
    BY DEF SheetStates
  <2> QED
    BY <2>1, <2>3, <2>4, <2>5, <2>6
<1>6. CASE Web!Submit
  <2>1. PICK h \in {"post", "queue"} :
          sending' = [sending EXCEPT ![sheet.n] = [how |-> h, answers |-> sheet.answers]]
    BY <1>6 DEF Web!Submit
  <2>2. /\ sheet' \in SheetStates /\ sheet'.answers = sheet.answers /\ sheet'.n = sheet.n
        /\ sheet'.maySubmit = FALSE /\ UNCHANGED <<drafts, kept, thanked, dropped>>
    BY <1>6 DEF Web!Submit, SheetStates
  <2>3. sheet.n \in 1..MaxCards /\ sheet.answers \in Nat
    BY DEF SheetStates
  <2>4. sending' \in [1..MaxCards -> SendingStates]
    BY <2>1, <2>3 DEF SendingStates
  <2> QED
    BY <2>1, <2>2, <2>3, <2>4
<1>7. ASSUME NEW n \in 1..MaxCards, Web!Succeed(n)
      PROVE  WebInv'
  <2>1. /\ sending' = [sending EXCEPT ![n] = [how |-> "none", answers |-> 0]]
        /\ kept' = kept \cup {sending[n].answers} /\ thanked' = thanked \cup {sending[n].answers}
        /\ UNCHANGED drafts
    BY <1>7 DEF Web!Succeed, Web!NotSending
  <2>2. sending' \in [1..MaxCards -> SendingStates]
    BY <2>1 DEF SendingStates
  <2>3. CASE sheet.n = n
    <3>1. /\ sheet' = Web!Cleared(sending[n].how)
          /\ dropped' = dropped \cup ({sheet.answers} \ {0, sending[n].answers})
      BY <1>7, <2>3 DEF Web!Succeed, Web!OnSheet
    <3>2. sheet' \in SheetStates /\ sheet'.n = sheet.n
      BY <3>1 DEF Web!Cleared, SheetStates
    <3>3. \A v \in 1..drafts : v \in thanked' \cup dropped'
      BY <2>1, <3>1
    <3> QED
      BY <2>1, <2>2, <2>3, <3>2, <3>3
  <2>4. CASE sheet.n # n
    BY <1>7, <2>1, <2>2, <2>4 DEF Web!Succeed, Web!OnSheet
  <2> QED
    BY <2>3, <2>4
<1>8. ASSUME NEW n \in 1..MaxCards, Web!FailToSend(n)
      PROVE  WebInv'
  <2>1. /\ sending' = [sending EXCEPT ![n] = [how |-> "none", answers |-> 0]]
        /\ kept \subseteq kept' /\ UNCHANGED <<drafts, thanked, dropped>>
    BY <1>8 DEF Web!FailToSend, Web!NotSending
  <2>2. sending' \in [1..MaxCards -> SendingStates]
    BY <2>1 DEF SendingStates
  <2>3. /\ sheet' \in SheetStates /\ sheet'.answers = sheet.answers /\ sheet'.n = sheet.n
        /\ sheet.n # n => sheet' = sheet
    BY <1>8 DEF Web!FailToSend, Web!OnSheet, SheetStates
  <2> QED
    BY <2>1, <2>2, <2>3
<1>9. CASE UNCHANGED webVars
  BY <1>9 DEF webVars
<1> QED
  BY <1>1, <1>2, <1>3, <1>4, <1>5, <1>6, <1>7, <1>8, <1>9 DEF Web!Next

\* What the visitor typed is on the card until the visitor replaces it,
\* leaves the card or is thanked, and thanks are for what was kept.
THEOREM AnswersAreKept == Spec => []AnswersKept
<1>1. Init => WebInv
  BY WebInit DEF Init
<1>2. WebInv /\ [Next]_vars => WebInv'
  BY PartSteps, WebStep
<1>3. WebInv => AnswersKept
  BY DEF WebInv
<1> QED
  BY <1>1, <1>2, <1>3, PTL DEF Spec

-----------------------------------------------------------------------------
(* The language menu.                                                      *)

\* The text the form is to show.
Right(lang, bad) == IF lang = "source" \/ bad THEN <<>> ELSE <<lang>>

\* Every translation starts from the source text; the newest request is for
\* the language chosen last, and unless it is pending the card is right.
LanguageInv ==
    script # "childConsent" =>
        /\ latest \in Nat
        /\ \A q \in asked : /\ q.from = <<>> /\ q.n \in 1..latest /\ q.lang # "source"
                            /\ q.n = latest => q.lang = active
        /\ latest = 0 => /\ face \in {Language!Nothing, merged}
                         /\ merged # Language!Nothing => merged = Right(active, failed)
        /\ face # Language!Nothing /\ ~reopened /\ (\A q \in asked : q.n # latest) =>
             face = Right(active, failed)

LEMMA LanguageInit ==
  ASSUME Language!Init
  PROVE  LanguageInv
BY DEF Language!Init, LanguageInv

LEMMA TranslatedOnce == \A lang : Language!Translated(<<>>, lang) = <<lang>>
BY DEF Language!Translated

LEMMA LanguageStep ==
  ASSUME LanguageInv, [Language!Next]_languageVars
  PROVE  LanguageInv'
<1> SUFFICES ASSUME script # "childConsent", UNCHANGED script
             PROVE  LanguageInv'
  BY DEF LanguageInv, Language!Next, Language!Boot, Language!Choose, Language!Answer,
         Language!OpenDialog, Language!CloseDialog, languageVars
<1> USE DEF LanguageInv, Language!Source
<1>1. CASE Language!Boot
  <2>1. asked = {} /\ latest = 0 /\ merged = Language!Nothing /\ face = Language!Nothing
    BY <1>1 DEF Language!Boot
  <2>2. PICK ok \in BOOLEAN :
          /\ merged' = IF active = "source" \/ ~ok THEN <<>> ELSE <<active>>
          /\ failed' = (active # "source" /\ ~ok)
    BY <1>1, TranslatedOnce DEF Language!Boot
  <2>3. merged' = Right(active, failed') /\ face' \in {Language!Nothing, merged'}
        /\ UNCHANGED <<active, latest, asked, reopened>>
    BY <1>1, <2>1, <2>2 DEF Language!Boot, Right
  <2> QED
    BY <2>1, <2>3
<1>2. ASSUME NEW lang \in Language!Menu, Language!Choose(lang)
      PROVE  LanguageInv'
  <2>1. /\ face # Language!Nothing /\ latest' = latest + 1 /\ active' = lang /\ failed' = FALSE
        /\ UNCHANGED reopened
    BY <1>2 DEF Language!Choose
  <2>2. Language!BaseText = <<>>
    BY DEF Language!BaseText
  <2>3. CASE lang = "source" \/ <<<<>>, lang>> \in cached
    <3>1. merged' = Right(lang, FALSE) /\ face' = merged' /\ asked' = asked
      BY <1>2, <2>1, <2>2, <2>3, TranslatedOnce DEF Language!Choose, Language!Remounted, Right
    <3>2. \A q \in asked' : q.from = <<>> /\ q.n \in 1..latest' /\ q.lang # "source" /\ q.n # latest'
      BY <2>1, <3>1
    <3>3. Right(lang, FALSE) = Right(active', failed')
      <4>1. active' = lang /\ failed' = FALSE
        BY <2>1
      <4> QED
        BY <4>1, Zenon
    <3>4. face' = Right(active', failed')
      BY <3>1, <3>3
    <3>5. latest' # 0
      BY <2>1
    <3> QED
      BY <2>1, <3>2, <3>4, <3>5
  <2>4. CASE lang # "source" /\ <<<<>>, lang>> \notin cached
    <3>1. asked' = asked \cup {[n |-> latest + 1, lang |-> lang, from |-> <<>>]}
      BY <1>2, <2>1, <2>2, <2>4 DEF Language!Choose
    <3>2. \A q \in asked : q.from = <<>> /\ q.n \in 1..latest' /\ q.lang # "source" /\ q.n # latest'
      BY <2>1
    <3>3. PICK q : q = [n |-> latest + 1, lang |-> lang, from |-> <<>>]
      OBVIOUS
    <3>4. q.from = <<>> /\ q.n \in 1..latest' /\ q.lang # "source" /\ q.n = latest' /\ q.lang = active'
      BY <2>1, <2>4, <3>3
    <3>5. asked' = asked \cup {q}
      BY <3>1, <3>3
    <3> QED
      BY <2>1, <3>2, <3>4, <3>5
  <2> QED
    BY <2>3, <2>4
<1>3. ASSUME NEW q \in asked, Language!Answer(q)
      PROVE  LanguageInv'
  <2>1. asked' = asked \ {q} /\ UNCHANGED <<modal, active, latest, reopened>>
    BY <1>3 DEF Language!Answer
  <2>2. latest # 0 /\ q.lang # "source"
    OBVIOUS
  <2>3. CASE q.n # latest
    BY <1>3, <2>1, <2>2, <2>3 DEF Language!Answer
  <2>4. CASE q.n = latest
    <3>1. PICK ok \in BOOLEAN : merged' = (IF ok THEN <<q.lang>> ELSE <<>>) /\ failed' = ~ok
      BY <1>3, <2>4, TranslatedOnce DEF Language!Answer
    <3>2. merged' = Right(active, failed')
      BY <2>2, <2>4, <3>1 DEF Right
    <3>3. face' = Language!Nothing \/ face' = merged'
      BY <1>3, <2>4 DEF Language!Answer, Language!Remounted
    <3> QED
      BY <2>1, <2>2, <3>2, <3>3
  <2> QED
    BY <2>3, <2>4
<1>4. CASE Language!OpenDialog
  <2>1. /\ merged # Language!Nothing /\ face' = merged
        /\ UNCHANGED <<active, latest, merged, asked, failed>>
    BY <1>4 DEF Language!OpenDialog
  <2>2. ~reopened' => ~(latest > 0)
    BY <1>4 DEF Language!OpenDialog
  <2>3. ~reopened' => latest = 0
    BY <2>2
  <2> QED
    BY <2>1, <2>3
<1>5. CASE Language!CloseDialog
  BY <1>5 DEF Language!CloseDialog
<1>6. CASE UNCHANGED languageVars
  BY <1>6 DEF languageVars
<1> QED
  BY <1>1, <1>2, <1>3, <1>4, <1>5, <1>6 DEF Language!Next

\* When no answer is pending the form shows the language chosen last,
\* whatever order the translations came in.
THEOREM LatestLanguageIsShown == Spec => []LatestLanguageShown
<1>1. Init => LanguageInv
  BY LanguageInit DEF Init
<1>2. LanguageInv /\ [Next]_vars => LanguageInv'
  BY PartSteps, LanguageStep
<1>3. LanguageInv => LatestLanguageShown
  BY DEF LanguageInv, Right, LatestLanguageShown, Language!LatestLanguageShown, Language!Source
<1> QED
  BY <1>1, <1>2, <1>3, PTL DEF Spec

-----------------------------------------------------------------------------
(* The consent banner.                                                     *)

Answers == [Cats -> {"unset", "yes", "no"}]

PostStates ==
    [st : {"free", "sent", "ok", "failed"}, how : {"all", "save", "inline"}, body : Answers]

UiStates == [banner : BOOLEAN, floating : BOOLEAN, prefs : BOOLEAN, built : BOOLEAN, inline : BOOLEAN]

BannerTypeOK ==
    /\ pc \in [Banner!Inits -> Banner!Pcs]
    /\ got \in [Banner!Inits -> Answers]
    /\ choices \in Answers /\ stored \in Answers
    /\ ui \in UiStates
    /\ scripts \in [Cats -> Banner!Places]
    /\ posts \in [Slots -> PostStates]

\* A request that no button waits for, as those of an earlier page.
NotAwaited(p) == p.st = "free" \/ (p.st = "sent" /\ p.how = "all")

\* Nothing is on the page before a call of init ends; from then on one handle
\* is, with banner-loader4u.js, which calls init once.
HandleInv ==
    /\ ~Banner!Ready => /\ ~ui.banner /\ ~ui.floating /\ ~ui.prefs /\ ~ui.built
                        /\ \A s \in Slots : NotAwaited(posts[s])
    /\ loader = "4u" => pc[2] = "off"
    /\ loader = "4u" /\ Banner!Ready => (ui.banner \/ ui.floating) /\ ~(ui.banner /\ ui.floating)

InEffect == ~ui.banner /\ ui.floating /\ \A c \in Cats : scripts[c] # "stash"

\* The request of an undisturbed press carries the choices, and is the only
\* one; the press took effect at once if it does not wait for the answer.
EffectInv ==
    quiet =>
        /\ Banner!Ready
        /\ \A s, t \in Slots : posts[s].st # "free" /\ posts[t].st # "free" => s = t
        /\ \A s \in Slots : posts[s].st # "free" =>
               /\ posts[s].body = choices /\ posts[s].st # "failed"
               /\ posts[s].st = "ok" => stored = choices
        /\ (\A s \in Slots : posts[s].st = "free" \/ posts[s].how = "all") => InEffect
        /\ Banner!NoPost => stored = choices

BannerInv == BannerTypeOK /\ HandleInv /\ EffectInv

LEMMA UiWrites ==
  ASSUME NEW u \in UiStates
  PROVE  /\ \A b \in BOOLEAN : [u EXCEPT !.inline = b] \in UiStates
         /\ \A b \in BOOLEAN : [u EXCEPT !.prefs = b] \in UiStates
         /\ Banner!RenderBanner(u) \in UiStates
         /\ Banner!RenderBanner(u).banner /\ ~Banner!RenderBanner(u).floating
         /\ Banner!RenderFloatingBtn(u) \in UiStates
         /\ Banner!RenderFloatingBtn(u).floating
         /\ Banner!RenderFloatingBtn(u).banner = u.banner
         /\ Banner!RemoveBanner(u) \in UiStates
         /\ ~Banner!RemoveBanner(u).banner /\ Banner!RemoveBanner(u).floating
BY DEF UiStates, Banner!RenderBanner, Banner!RenderFloatingBtn, Banner!RemoveBanner

LEMMA BannerInit ==
  ASSUME Banner!Init
  PROVE  BannerInv
<1>1. Banner!None \in Answers /\ Banner!NoUi \in UiStates /\ Banner!FreePost \in PostStates
  BY DEF Banner!None, Banner!NoUi, Banner!FreePost, Answers, UiStates, PostStates
<1>2. BannerTypeOK
  BY <1>1 DEF Banner!Init, BannerTypeOK, Banner!Inits, Banner!Pcs, Banner!Places
<1>3. HandleInv
  BY DEF Banner!Init, HandleInv, NotAwaited, Banner!FreePost, Banner!NoUi, Banner!Ready, Banner!Inits
<1> QED
  BY <1>2, <1>3 DEF BannerInv, EffectInv, Banner!Init

\* What a press does to the page.
LEMMA TakingEffect ==
  ASSUME BannerTypeOK, NEW ch, NEW closes \in BOOLEAN, Banner!TakeEffect(ch, closes)
  PROVE  /\ ui' \in UiStates /\ scripts' \in [Cats -> Banner!Places]
         /\ ~ui'.banner /\ ui'.floating /\ \A c \in Cats : scripts'[c] # "stash"
<1>1. scripts' = [c \in Cats |-> IF scripts[c] # "stash" THEN scripts[c]
                                 ELSE IF ch[c] = "yes" THEN "running" ELSE "refused"]
  BY DEF Banner!TakeEffect, Banner!Unblocked
<1>2. ui' = [Banner!RemoveBanner(ui) EXCEPT !.prefs = @ /\ ~closes]
  BY DEF Banner!TakeEffect
<1>3. ui \in UiStates /\ scripts \in [Cats -> Banner!Places]
  BY DEF BannerTypeOK
<1>4. PICK u \in UiStates : u = Banner!RemoveBanner(ui)
  BY <1>3, UiWrites
<1>5. ~u.banner /\ u.floating
  BY <1>3, <1>4, UiWrites
<1>6. ui' = [u EXCEPT !.prefs = u.prefs /\ ~closes]
  BY <1>2, <1>4
<1> QED
  BY <1>1, <1>3, <1>5, <1>6 DEF UiStates, Banner!Places

\* A press posts its choices; it is undisturbed if nothing else is posted.
LEMMA Posting ==
  ASSUME BannerTypeOK, NEW how \in {"all", "save", "inline"}, NEW ch \in Answers,
         Banner!SaveConsent(how, ch)
  PROVE  /\ posts' \in [Slots -> PostStates]
         /\ Banner!NoPost =>
              /\ \A s, t \in Slots : posts'[s].st # "free" /\ posts'[t].st # "free" => s = t
              /\ \A s \in Slots : posts'[s].st # "free" =>
                     posts'[s].body = ch /\ posts'[s].st = "sent" /\ posts'[s].how = how
              /\ \E s \in Slots : posts'[s].st = "sent"
<1>1. PICK s \in Slots : posts' = [posts EXCEPT ![s] = [st |-> "sent", how |-> how, body |-> ch]]
  BY DEF Banner!SaveConsent
<1>2. PICK p : p = [st |-> "sent", how |-> how, body |-> ch]
  OBVIOUS
<1>3. p \in PostStates /\ p.st = "sent" /\ p.how = how /\ p.body = ch
  BY <1>2 DEF PostStates
<1>4. posts' = [posts EXCEPT ![s] = p]
  BY <1>1, <1>2
<1> QED
  BY <1>3, <1>4 DEF BannerTypeOK, Banner!NoPost

LEMMA SeededType ==
  ASSUME BannerTypeOK, NEW i \in Banner!Inits
  PROVE  Banner!SeededChoices(i) \in Answers
BY DEF BannerTypeOK, Banner!SeededChoices, Answers

\* A call of init that goes on, or ends early.
LEMMA InitGoesOn ==
  ASSUME BannerInv, NEW i \in Banner!Inits, pc[i] # "ready",
         pc' \in [Banner!Inits -> Banner!Pcs], pc'[i] # "ready",
         \A j \in Banner!Inits : j # i => pc'[j] = pc[j],
         pc[i] = "off" => i \in Banner!InitsOf(loader),
         got' \in [Banner!Inits -> Answers],
         scripts' \in [Cats -> Banner!Places],
         scripts' = scripts \/ (loader = "4u" /\ pc[i] = "off"),
         ui' \in UiStates, ui'.banner = ui.banner, ui'.floating = ui.floating,
         ui'.prefs = ui.prefs, ui'.built = ui.built,
         UNCHANGED <<loader, choices, posts, stored, quiet>>
  PROVE  BannerInv'
<1>1. BannerTypeOK'
  BY DEF BannerInv, BannerTypeOK
<1>2. Banner!Ready' <=> Banner!Ready
  BY DEF Banner!Ready
<1>3. loader = "4u" => pc'[2] = "off" /\ pc[2] = "off"
  <2>1. CASE loader = "4u" /\ i = 2
    BY <2>1 DEF BannerInv, HandleInv, Banner!InitsOf
  <2>2. CASE loader = "4u" /\ i # 2
    BY <2>2 DEF BannerInv, HandleInv, Banner!Inits
  <2> QED
    BY <2>1, <2>2
<1>4. HandleInv'
  BY <1>2, <1>3 DEF BannerInv, HandleInv
<1>5. quiet => scripts' = scripts
  <2>1. quiet => Banner!Ready
    BY DEF BannerInv, EffectInv
  <2>2. loader = "4u" => i = 1 /\ ~Banner!Ready
    BY <1>3 DEF Banner!Ready, Banner!Inits, Banner!InitsOf, BannerInv, HandleInv
  <2> QED
    BY <2>1, <2>2
<1>6. quiet /\ InEffect => InEffect'
  BY <1>5 DEF InEffect
<1>7. Banner!NoPost' <=> Banner!NoPost
  BY DEF Banner!NoPost
<1>8. EffectInv'
  BY <1>2, <1>6, <1>7 DEF BannerInv, EffectInv
<1> QED
  BY <1>1, <1>4, <1>8 DEF BannerInv

\* A step that leaves the handles right, with no undisturbed press to speak of.
LEMMA Disturbed ==
  ASSUME BannerTypeOK', HandleInv', ~quiet'
  PROVE  BannerInv'
BY DEF BannerInv, EffectInv

LEMMA InitStepStep ==
  ASSUME BannerInv, NEW i \in Banner!Inits, Banner!InitStep(i)
  PROVE  BannerInv'
<1>1. BannerTypeOK /\ ui \in UiStates /\ pc \in [Banner!Inits -> Banner!Pcs]
      /\ got \in [Banner!Inits -> Answers] /\ scripts \in [Cats -> Banner!Places]
  BY DEF BannerInv, BannerTypeOK
<1>2. CASE Banner!StartInit(i)
  <2>1. /\ i \in Banner!InitsOf(loader) /\ pc[i] = "off"
        /\ UNCHANGED <<loader, got, choices, ui, posts, stored, quiet>>
    BY <1>2 DEF Banner!StartInit, Banner!requestVars
  <2>2. PICK next \in {"config", "failed"} : pc' = [pc EXCEPT ![i] = next]
    BY <1>2 DEF Banner!StartInit, Banner!Goto
  <2>3. scripts' \in [Cats -> Banner!Places] /\ (scripts' = scripts \/ loader = "4u")
    BY <1>1, <1>2 DEF Banner!StartInit, Banner!BlockScripts, Banner!Places
  <2> QED
    BY <1>1, <2>1, <2>2, <2>3, InitGoesOn DEF Banner!Pcs
<1>3. CASE Banner!FetchConfig(i)
  <2>1. /\ pc[i] = "config"
        /\ UNCHANGED <<loader, got, choices, scripts, posts, stored, quiet>>
    BY <1>3 DEF Banner!FetchConfig, Banner!requestVars
  <2>2. PICK next \in {"categories", "failed"} : pc' = [pc EXCEPT ![i] = next]
    BY <1>3 DEF Banner!FetchConfig, Banner!Goto
  <2>3. ui' = ui \/ \E inline \in BOOLEAN : ui' = [ui EXCEPT !.inline = inline]
    BY <1>3 DEF Banner!FetchConfig
  <2>4. /\ ui' \in UiStates /\ ui'.banner = ui.banner /\ ui'.floating = ui.floating
        /\ ui'.prefs = ui.prefs /\ ui'.built = ui.built
    BY <1>1, <2>3 DEF UiStates
  <2> QED
    BY <1>1, <2>1, <2>2, <2>4, InitGoesOn DEF Banner!Pcs
<1>4. CASE Banner!FetchCategories(i) \/ Banner!LoadRuntimeLists(i) \/ Banner!FetchConsent(i)
  <2>1. /\ pc[i] \in {"categories", "lists", "consent"}
        /\ UNCHANGED <<loader, choices, ui, scripts, posts, stored, quiet>>
    BY <1>4 DEF Banner!FetchCategories, Banner!LoadRuntimeLists, Banner!FetchConsent, Banner!requestVars
  <2>2. PICK next \in {"lists", "consent", "answered", "failed"} : pc' = [pc EXCEPT ![i] = next]
    BY <1>4 DEF Banner!FetchCategories, Banner!LoadRuntimeLists, Banner!FetchConsent, Banner!Goto
  <2>3. got' = got \/ \E answer \in {stored, Banner!None} : got' = [got EXCEPT ![i] = answer]
    BY <1>4 DEF Banner!FetchCategories, Banner!LoadRuntimeLists, Banner!FetchConsent
  <2>4. stored \in Answers /\ Banner!None \in Answers
    BY <1>1 DEF BannerTypeOK, Banner!None, Answers
  <2>5. got' \in [Banner!Inits -> Answers]
    BY <1>1, <2>3, <2>4
  <2> QED
    BY <1>1, <2>1, <2>2, <2>5, InitGoesOn DEF Banner!Pcs
<1>5. CASE Banner!FinishInit(i)
  <2>1. /\ pc[i] = "answered" /\ pc' = [pc EXCEPT ![i] = "ready"]
        /\ choices' = Banner!SeededChoices(i) /\ ~quiet'
        /\ UNCHANGED <<loader, got, posts, stored>>
    BY <1>5 DEF Banner!FinishInit, Banner!Goto, Banner!requestVars
  <2>2. Banner!StashedNow \in [Cats -> Banner!Places]
    BY <1>1 DEF Banner!StashedNow, Banner!Places
  <2>3. scripts' \in [Cats -> Banner!Places]
    BY <1>5, <2>2 DEF Banner!FinishInit, Banner!Unblocked, Banner!Places
  <2>4. \/ ui' = [Banner!RenderBanner(ui) EXCEPT !.built = TRUE]
        \/ ui' = [Banner!RenderFloatingBtn(ui) EXCEPT !.built = TRUE]
    BY <1>5 DEF Banner!FinishInit
  <2>5. ui' \in UiStates /\ (ui'.banner \/ ui'.floating)
        /\ (~ui.banner => ~(ui'.banner /\ ui'.floating))
    BY <1>1, <2>4 DEF UiStates, Banner!RenderBanner, Banner!RenderFloatingBtn
  <2>6. BannerTypeOK'
    BY <1>1, <2>1, <2>3, <2>5, SeededType DEF BannerTypeOK, Banner!Pcs
  <2>7. Banner!Ready'
    BY <1>1, <2>1 DEF Banner!Ready
  <2>8. loader = "4u" => pc[2] = "off" /\ pc'[2] = "off" /\ ~ui.banner
    <3>1. loader = "4u" => pc[2] = "off"
      BY DEF BannerInv, HandleInv
    <3>2. loader = "4u" => i = 1 /\ ~Banner!Ready
      BY <2>1, <3>1 DEF Banner!Ready, Banner!Inits
    <3>3. loader = "4u" => pc'[2] = "off"
      BY <1>1, <2>1, <3>1, <3>2 DEF Banner!Inits
    <3> QED
      BY <3>1, <3>2, <3>3 DEF BannerInv, HandleInv
  <2>9. HandleInv'
    BY <2>1, <2>5, <2>7, <2>8 DEF HandleInv
  <2> QED
    BY <2>1, <2>6, <2>9, Disturbed
<1> QED
  BY <1>2, <1>3, <1>4, <1>5 DEF Banner!InitStep

\* A press whose request is posted: it takes effect at once, or it waits.
LEMMA Pressing ==
  ASSUME BannerInv, NEW how \in {"all", "save", "inline"}, NEW ch \in Answers,
         Banner!SaveConsent(how, ch), choices' = ch, quiet' = Banner!NoPost,
         UNCHANGED <<loader, pc, got, stored>>, Banner!CanChoose,
         \/ Banner!TakeEffect(ch, TRUE)
         \/ how # "all" /\ UNCHANGED <<ui, scripts>>
  PROVE  BannerInv'
<1>1. BannerTypeOK
  BY DEF BannerInv
<1>2. Banner!Ready /\ Banner!Ready'
  BY DEF BannerInv, HandleInv, Banner!CanChoose, Banner!Ready
<1>3. \/ UNCHANGED <<ui, scripts>> /\ how # "all"
      \/ ui' \in UiStates /\ scripts' \in [Cats -> Banner!Places] /\ InEffect'
         /\ ui'.floating /\ ~ui'.banner
  BY <1>1, TakingEffect DEF InEffect
<1>4. BannerTypeOK'
  BY <1>1, <1>3, Posting DEF BannerTypeOK
<1>5. HandleInv'
  BY <1>2, <1>3 DEF BannerInv, HandleInv
<1>6. ASSUME quiet'
      PROVE  EffectInv'
  <2>1. /\ \A s, t \in Slots : posts'[s].st # "free" /\ posts'[t].st # "free" => s = t
        /\ \A s \in Slots : posts'[s].st # "free" =>
               posts'[s].body = ch /\ posts'[s].st = "sent" /\ posts'[s].how = how
        /\ \E s \in Slots : posts'[s].st = "sent"
    BY <1>1, <1>6, Posting
  <2>2. ~Banner!NoPost'
    BY <2>1 DEF Banner!NoPost
  <2>3. (\A s \in Slots : posts'[s].st = "free" \/ posts'[s].how = "all") => InEffect'
    <3>1. CASE how = "all"
      BY <1>3, <3>1
    <3>2. CASE how # "all"
      BY <2>1, <3>2
    <3> QED
      BY <3>1, <3>2
  <2> QED
    BY <1>2, <2>1, <2>2, <2>3 DEF EffectInv
<1>7. ~quiet' => EffectInv'
  BY DEF EffectInv
<1> QED
  BY <1>4, <1>5, <1>6, <1>7 DEF BannerInv

\* The steps of the banner and the preferences themselves.
LEMMA HandlesMove ==
  ASSUME BannerInv, Banner!Ready, ui' \in UiStates,
         UNCHANGED <<loader, pc, got, scripts, posts, stored>>,
         choices' \in Answers, quiet' = FALSE \/ (quiet' = quiet /\ choices' = choices),
         \/ ui'.banner = ui.banner /\ ui'.floating = ui.floating
         \/ ~ui'.banner /\ ui'.floating
         \/ ui'.banner /\ ~ui'.floating /\ quiet' = FALSE
  PROVE  BannerInv'
<1>1. BannerTypeOK'
  BY DEF BannerInv, BannerTypeOK
<1>2. Banner!Ready'
  BY DEF Banner!Ready
<1>3. HandleInv'
  BY <1>2 DEF BannerInv, HandleInv
<1>4. Banner!NoPost' <=> Banner!NoPost
  BY DEF Banner!NoPost
<1>5. CASE quiet' = FALSE
  BY <1>1, <1>3, <1>5, Disturbed
<1>6. CASE quiet' = quiet /\ choices' = choices /\ quiet
  <2>1. InEffect => InEffect'
    BY <1>6 DEF InEffect
  <2>2. EffectInv'
    BY <1>2, <1>4, <1>6, <2>1 DEF BannerInv, EffectInv
  <2> QED
    BY <1>1, <1>3, <2>2 DEF BannerInv
<1>7. CASE quiet' = quiet /\ ~quiet
  BY <1>1, <1>3, <1>7, Disturbed
<1> QED
  BY <1>5, <1>6, <1>7

LEMMA VisitorStep ==
  ASSUME BannerInv, Banner!Visitor
  PROVE  BannerInv'
<1>1. BannerTypeOK /\ ui \in UiStates /\ choices \in Answers
  BY DEF BannerInv, BannerTypeOK
<1>2. ASSUME NEW answer \in {"yes", "no"}, Banner!ChooseAll(answer)
      PROVE  BannerInv'
  <2>1. choices' \in Answers
    BY <1>2 DEF Banner!ChooseAll, Answers
  <2>2. /\ Banner!SaveConsent("all", choices') /\ Banner!TakeEffect(choices', TRUE)
        /\ quiet' = Banner!NoPost /\ UNCHANGED <<loader, pc, got, stored>> /\ Banner!CanChoose
    BY <1>2 DEF Banner!ChooseAll
  <2> QED
    BY <2>1, <2>2, Pressing
<1>3. ASSUME NEW how \in {"save", "inline"}, Banner!SavePreferences(how)
      PROVE  BannerInv'
  <2>1. /\ \/ Banner!SaveConsent(how, choices) /\ UNCHANGED <<ui, scripts>>
           \/ Banner!SaveConsent("all", choices) /\ Banner!TakeEffect(choices, TRUE)
        /\ choices' = choices /\ quiet' = Banner!NoPost /\ UNCHANGED <<loader, pc, got, stored>>
        /\ Banner!CanChoose
    BY <1>3 DEF Banner!SavePreferences, Banner!CanChoose
  <2> QED
    BY <1>1, <2>1, Pressing
<1>4. ASSUME NEW c \in Cats, Banner!Toggle(c)
      PROVE  BannerInv'
  <2>1. /\ ui.prefs \/ ui.banner
        /\ choices' = [choices EXCEPT ![c] = IF @ = "yes" THEN "no" ELSE "yes"]
        /\ quiet' = FALSE /\ UNCHANGED <<loader, pc, got, ui, scripts, posts, stored>>
    BY <1>4 DEF Banner!Toggle, Banner!requestVars
  <2>2. choices' \in Answers
    BY <1>1, <2>1 DEF Answers
  <2>3. Banner!Ready
    BY <2>1 DEF BannerInv, HandleInv
  <2> QED
    BY <1>1, <2>1, <2>2, <2>3, HandlesMove
<1>5. CASE Banner!ShowPreferences \/ Banner!ClosePreferences
  <2>1. /\ ui.built \/ ui.prefs
        /\ \E b \in BOOLEAN : ui' = [ui EXCEPT !.prefs = b]
        /\ UNCHANGED <<loader, pc, got, choices, scripts, posts, stored, quiet>>
    BY <1>5 DEF Banner!ShowPreferences, Banner!ClosePreferences, Banner!requestVars
  <2>2. Banner!Ready
    BY <2>1 DEF BannerInv, HandleInv
  <2>3. ui' \in UiStates /\ ui'.banner = ui.banner /\ ui'.floating = ui.floating
    BY <1>1, <2>1 DEF UiStates
  <2> QED
    BY <1>1, <2>1, <2>2, <2>3, HandlesMove
<1>6. CASE Banner!CloseBanner \/ Banner!FloatingBtnClick
  <2>1. /\ \/ ui.banner /\ ui' = Banner!RemoveBanner(ui) /\ quiet' = quiet
           \/ ui.floating /\ ui' = Banner!RenderBanner(ui) /\ quiet' = FALSE
        /\ UNCHANGED <<loader, pc, got, choices, scripts, posts, stored>>
    BY <1>6 DEF Banner!CloseBanner, Banner!FloatingBtnClick, Banner!requestVars
  <2>2. Banner!Ready
    BY <2>1 DEF BannerInv, HandleInv
  <2>3. CASE ui.banner /\ ui' = Banner!RemoveBanner(ui) /\ quiet' = quiet
    <3>1. ui' \in UiStates /\ ~ui'.banner /\ ui'.floating
      BY <1>1, <2>3, UiWrites
    <3> QED
      BY <1>1, <2>1, <2>2, <2>3, <3>1, HandlesMove
  <2>4. CASE ui.floating /\ ui' = Banner!RenderBanner(ui) /\ quiet' = FALSE
    <3>1. ui' \in UiStates /\ ui'.banner /\ ~ui'.floating
      BY <1>1, <2>4, UiWrites
    <3> QED
      BY <1>1, <2>1, <2>2, <2>4, <3>1, HandlesMove
  <2> QED
    BY <2>1, <2>3, <2>4
<1>7. CASE Banner!Reload
  <2>1. /\ pc' = [i \in Banner!Inits |-> "off"] /\ got' = [i \in Banner!Inits |-> Banner!None]
        /\ choices' = Banner!None /\ ui' = Banner!NoUi /\ scripts' = [c \in Cats |-> "page"]
        /\ quiet' = FALSE /\ UNCHANGED <<loader, stored>>
    BY <1>7 DEF Banner!Reload
  <2>2. PICK cancelled \in SUBSET Slots :
          posts' = [s \in Slots |-> IF posts[s].st # "sent" \/ s \in cancelled THEN Banner!FreePost
                                    ELSE [posts[s] EXCEPT !.how = "all"]]
    BY <1>7 DEF Banner!Reload
  <2>3. Banner!FreePost \in PostStates /\ Banner!None \in Answers /\ Banner!NoUi \in UiStates
    BY DEF Banner!FreePost, Banner!None, Banner!NoUi, PostStates, Answers, UiStates
  <2>4. posts \in [Slots -> PostStates]
    BY <1>1 DEF BannerTypeOK
  <2>5. \A p \in PostStates : [p EXCEPT !.how = "all"] \in PostStates
    BY DEF PostStates
  <2>6. posts' \in [Slots -> PostStates]
    BY <2>2, <2>3, <2>4, <2>5
  <2>7. BannerTypeOK'
    BY <1>1, <2>1, <2>3, <2>6 DEF BannerTypeOK, Banner!Pcs, Banner!Places
  <2>8. ~Banner!Ready' /\ pc'[2] = "off"
    BY <2>1 DEF Banner!Ready, Banner!Inits
  <2>9. \A s \in Slots : NotAwaited(posts'[s])
    BY <2>2, <2>4 DEF NotAwaited, Banner!FreePost, PostStates
  <2>10. HandleInv'
    BY <2>1, <2>8, <2>9 DEF HandleInv, Banner!NoUi
  <2> QED
    BY <2>1, <2>7, <2>10, Disturbed
<1> QED
  BY <1>2, <1>3, <1>4, <1>5, <1>6, <1>7 DEF Banner!Visitor, Banner!AcceptAll, Banner!RejectAll

\* A request that is served or refused.
LEMMA ServerStep ==
  ASSUME BannerInv, NEW s \in Slots, Banner!Serve(s) \/ Banner!Refuse(s)
  PROVE  BannerInv'
<1>1. BannerTypeOK /\ posts \in [Slots -> PostStates]
  BY DEF BannerInv, BannerTypeOK
<1>2. /\ posts[s].st = "sent" /\ stored' \in {stored, posts[s].body}
      /\ UNCHANGED <<loader, pc, got, choices, ui, scripts>>
  BY DEF Banner!Serve, Banner!Refuse
<1>3. PICK st \in {"ok", "failed"} :
        /\ posts' = [posts EXCEPT ![s] = IF @.how = "all" THEN Banner!FreePost ELSE [@ EXCEPT !.st = st]]
        /\ quiet' => quiet /\ st = "ok" /\ stored' = posts[s].body
  BY DEF Banner!Serve, Banner!Refuse
<1>4. PICK p : p = IF posts[s].how = "all" THEN Banner!FreePost ELSE [posts[s] EXCEPT !.st = st]
  OBVIOUS
<1>5. /\ p \in PostStates
      /\ IF posts[s].how = "all" THEN p.st = "free"
                                 ELSE p.st = st /\ p.how = posts[s].how /\ p.body = posts[s].body
  BY <1>1, <1>4 DEF PostStates, Banner!FreePost, Banner!None, Answers
<1>6. posts' = [posts EXCEPT ![s] = p]
  BY <1>1, <1>3, <1>4
<1>7. BannerTypeOK'
  BY <1>1, <1>2, <1>5, <1>6 DEF BannerTypeOK, PostStates
<1>8. Banner!Ready' <=> Banner!Ready
  BY <1>2 DEF Banner!Ready
<1>9. HandleInv'
  <2>1. ~Banner!Ready => \A t \in Slots : NotAwaited(posts'[t])
    BY <1>1, <1>2, <1>5, <1>6 DEF BannerInv, HandleInv, NotAwaited
  <2> QED
    BY <1>2, <1>8, <2>1 DEF BannerInv, HandleInv
<1>10. ASSUME quiet'
       PROVE  EffectInv'
  <2>1. quiet /\ stored' = choices /\ choices' = choices
    BY <1>2, <1>3, <1>10 DEF BannerInv, EffectInv
  <2>2. \A t \in Slots : t # s => posts[t].st = "free" /\ posts'[t] = posts[t]
    BY <1>1, <1>2, <1>6, <2>1 DEF BannerInv, EffectInv
  <2>3. posts'[s] = p
    BY <1>1, <1>6
  <2>4. p.st # "free" => p.body = choices /\ p.st = "ok" /\ p.how # "all"
    BY <1>2, <1>3, <1>5, <1>10, <2>1 DEF BannerInv, EffectInv
  <2>5. p.st = "free" => \A t \in Slots : posts[t].st = "free" \/ posts[t].how = "all"
    BY <1>3, <1>5, <2>2
  <2>6. InEffect => InEffect'
    BY <1>2 DEF InEffect
  <2>7. (\A t \in Slots : posts'[t].st = "free" \/ posts'[t].how = "all") => InEffect'
    BY <2>1, <2>3, <2>4, <2>5, <2>6 DEF BannerInv, EffectInv
  <2> QED
    BY <1>8, <2>1, <2>2, <2>3, <2>4, <2>7 DEF BannerInv, EffectInv
<1>11. CASE ~quiet'
  BY <1>7, <1>9, <1>11, Disturbed
<1> QED
  BY <1>7, <1>9, <1>10, <1>11 DEF BannerInv

LEMMA AnsweredStep ==
  ASSUME BannerInv, NEW s \in Slots, Banner!SaveAnswered(s)
  PROVE  BannerInv'
<1>1. BannerTypeOK /\ posts \in [Slots -> PostStates]
  BY DEF BannerInv, BannerTypeOK
<1>2. /\ posts[s].st \in {"ok", "failed"} /\ posts' = [posts EXCEPT ![s] = Banner!FreePost]
      /\ UNCHANGED <<loader, pc, got, choices, stored, quiet>>
  BY DEF Banner!SaveAnswered
<1>3. \/ UNCHANGED <<ui, scripts>> /\ posts[s].st = "failed"
      \/ ui' \in UiStates /\ scripts' \in [Cats -> Banner!Places] /\ InEffect'
         /\ ui'.floating /\ ~ui'.banner
  BY <1>1, <1>2, TakingEffect DEF InEffect, Banner!SaveAnswered
<1>4. Banner!FreePost \in PostStates /\ Banner!FreePost.st = "free"
  BY DEF Banner!FreePost, Banner!None, PostStates, Answers
<1>5. BannerTypeOK'
  BY <1>1, <1>2, <1>3, <1>4 DEF BannerTypeOK
<1>6. Banner!Ready /\ Banner!Ready'
  <2>1. Banner!Ready
    BY <1>2 DEF BannerInv, HandleInv, NotAwaited
  <2> QED
    BY <1>2, <2>1 DEF Banner!Ready
<1>7. HandleInv'
  BY <1>2, <1>3, <1>6 DEF BannerInv, HandleInv
<1>8. CASE quiet
  <2>1. posts[s].st = "ok" /\ stored = choices /\ \A t \in Slots : t # s => posts[t].st = "free"
    BY <1>2, <1>8 DEF BannerInv, EffectInv
  <2>2. \A t \in Slots : posts'[t].st = "free"
    BY <1>1, <1>2, <1>4, <2>1
  <2>3. EffectInv'
    BY <1>2, <1>3, <1>6, <2>1, <2>2 DEF EffectInv
  <2> QED
    BY <1>5, <1>7, <2>3 DEF BannerInv
<1>9. CASE ~quiet
  BY <1>2, <1>5, <1>7, <1>9, Disturbed
<1> QED
  BY <1>8, <1>9

LEMMA BannerStep ==
  ASSUME BannerInv, [Banner!Next]_bannerVars
  PROVE  BannerInv'
<1>1. ASSUME UNCHANGED <<loader, pc, got, choices, ui, scripts, posts, stored, quiet>>
      PROVE  BannerInv'
  BY <1>1 DEF BannerInv, BannerTypeOK, HandleInv, EffectInv, InEffect, Banner!Ready, Banner!NoPost
<1>2. CASE Banner!CookieStep \/ UNCHANGED bannerVars
  BY <1>1, <1>2 DEF Banner!CookieStep, Banner!WriteCookie, Banner!ReceiveCookie, Banner!ForgetHandled,
                    Banner!MonitorTick, Banner!Reapply, Banner!requestVars, bannerVars
<1> QED
  BY <1>2, InitStepStep, VisitorStep, ServerStep, AnsweredStep DEF Banner!Next

\* An undisturbed choice is what the page applied and the server stored, and
\* the page of banner-loader4u.js has one handle, whatever is pressed, closed,
\* reloaded or answered late.
THEOREM ChoicesTakeEffect == Spec => []ChoiceTakesEffect
<1>1. Init => BannerInv
  BY BannerInit DEF Init
<1>2. BannerInv /\ [Next]_vars => BannerInv'
  BY PartSteps, BannerStep
<1>3. BannerInv => ChoiceTakesEffect
  <2>1. ASSUME BannerInv
        PROVE  Banner!OneHandle
    <3>1. ui.banner \in BOOLEAN /\ ui.floating \in BOOLEAN
      BY <2>1 DEF BannerInv, BannerTypeOK, UiStates
    <3> QED
      BY <2>1, <3>1 DEF BannerInv, HandleInv, Banner!OneHandle
  <2>2. BannerInv => Banner!ChoiceTakesEffect
    BY DEF BannerInv, EffectInv, InEffect, Banner!ChoiceTakesEffect, Banner!NoPost
  <2> QED
    BY <2>1, <2>2 DEF ChoiceTakesEffect
<1> QED
  BY <1>1, <1>2, <1>3, PTL DEF Spec
=============================================================================
