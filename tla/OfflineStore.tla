---------------------------- MODULE OfflineStore ----------------------------
(* The forms a website embeds (src/public/form-runtime.js, dsar-runtime.js *)
(* and child-consent-runtime.js) keep what a visitor submits offline in    *)
(* one IndexedDB store of the site, which the scripts of every open tab    *)
(* fill, empty and clean on their own.                                     *)
(*                                                                         *)
(* A step is what a script does between two awaits, one transaction of the *)
(* database, or one answer of the server.                                  *)
EXTENDS Naturals, FiniteSets

CONSTANTS
    Ids,          \* clientSubmissionIds: a UUID for each submission
    Tabs          \* tabs that show pages of the site, with all three scripts

VARIABLES
    online,       \* navigator.onLine
    form,         \* the script that makes each submission
    rec,          \* the record of each id
    told,         \* ids whose visitor read that the form is saved
    sync,         \* the sync of each script in each tab
    calm,         \* nothing fails and nobody interrupts a sync from here on
    fate          \* history: what became of each id

vars == <<online, form, rec, told, sync, calm, fate>>

-----------------------------------------------------------------------------
Forms == {"webform", "dsar", "childConsent"}

\* "put" is a request that succeeded in a transaction yet to commit; started
\* says that a child consent has its submission on the server.
NoRec == [place |-> "none", old |-> FALSE, started |-> FALSE]

Idle == [pc |-> "idle", left |-> {}, id |-> "none", req |-> "none", reply |-> "none"]
Closed == [Idle EXCEPT !.pc = "closed"]

Open(t) == \E f \in Forms : sync[t][f].pc # "closed"

\* getAll and the filter on formType; a record without one is a webform's.
Listed(f, recs) == {i \in Ids : recs[i].place = "kept" /\ form[i] = f}

Become(i, what) == fate' = [fate EXCEPT ![i] = @ \cup {what}]

\* A sync starts unless one runs; form-runtime.js also checks that the
\* browser is online.  When getAll fails there is nothing to do.
Started(s, f, isOnline, recs, fails) ==
    LET list == IF fails THEN {} ELSE Listed(f, recs) IN
    IF s.pc # "idle" \/ (f = "webform" /\ ~isOnline) \/ list = {} THEN s
    ELSE [Idle EXCEPT !.pc = "next", !.left = list]

\* Mutant: the running flag stays when the list is done.
ContinueStayingBusy(t, f) ==
    sync' = [sync EXCEPT ![t][f] = [Idle EXCEPT !.pc = "next", !.left = sync[t][f].left]]

\* The sync goes on with the next record of its list, or is done.
Continue(t, f) ==
    LET left == sync[t][f].left IN
    sync' = [sync EXCEPT ![t][f] = IF left = {} THEN Idle ELSE [Idle EXCEPT !.pc = "next", !.left = left]]
Finish(t, f) == sync' = [sync EXCEPT ![t][f] = Idle]

-----------------------------------------------------------------------------
(* Submitting offline.                                                     *)

\* The form of tab t queues a record.  A verified minor's has a submission
\* on the server already, an adult's holds what starts one.
Queue(t, i) ==
    /\ ~online /\ Open(t)
    /\ rec[i].place = "none"
    /\ \E started \in (IF form[i] = "childConsent" THEN BOOLEAN ELSE {FALSE}) :
          rec' = [rec EXCEPT ![i] = [NoRec EXCEPT !.place = "putting", !.started = started]]
    /\ UNCHANGED <<online, form, told, sync, calm, fate>>

\* The put succeeds: dsar-runtime.js and child-consent-runtime.js tell the
\* visitor at once.
PutSucceeds(i) ==
    /\ rec[i].place = "putting"
    /\ rec' = [rec EXCEPT ![i].place = "put"]
    /\ told' = IF form[i] = "webform" THEN told ELSE told \cup {i}
    /\ UNCHANGED <<online, form, sync, calm, fate>>

\* The transaction commits: form-runtime.js tells the visitor now.
Commit(i) ==
    /\ rec[i].place = "put"
    /\ rec' = [rec EXCEPT ![i].place = "kept"]
    /\ told' = told \cup {i}
    /\ UNCHANGED <<online, form, sync, calm, fate>>

\* The request or the commit fails (quota, disk, a tab that is closed).
Abort(i) ==
    /\ rec[i].place \in {"putting", "put"}
    /\ rec' = [rec EXCEPT ![i].place = "gone"]
    /\ Become(i, "aborted")
    /\ UNCHANGED <<online, form, told, sync, calm>>

-----------------------------------------------------------------------------
(* The browser.                                                            *)

GoOnline ==
    /\ ~online
    /\ online' = TRUE
    /\ \E failing \in (IF calm THEN {{}} ELSE SUBSET Forms) :
          sync' = [t \in Tabs |-> [f \in Forms |-> Started(sync[t][f], f, TRUE, rec, f \in failing)]]
    /\ UNCHANGED <<form, rec, told, calm, fate>>

GoOffline ==
    /\ online /\ ~calm
    /\ online' = FALSE
    /\ UNCHANGED <<form, rec, told, sync, calm, fate>>

\* A record becomes older than 30 days.
Age(i) ==
    /\ rec[i].place = "kept" /\ ~rec[i].old
    /\ rec' = [rec EXCEPT ![i].old = TRUE]
    /\ UNCHANGED <<online, form, told, sync, calm, fate>>

\* What the scripts clean when they are loaded: form-runtime.js deletes the
\* old records of all three, and each cleaning may fail.
Expired == {i \in Ids : rec[i].place = "kept" /\ rec[i].old}

\* A page is loaded in a tab.  What the page before it had under way ends,
\* but its requests may still be served.
Load(t) ==
    /\ calm => \A f \in Forms : sync[t][f].pc \in {"closed", "idle"}
    /\ \E gone \in SUBSET Expired :
        \E served \in SUBSET {sync[t][f].id : f \in {g \in Forms : sync[t][g].pc = "sent" /\ sync[t][g].req = "post"}} :
          /\ rec' = [i \in Ids |-> IF i \in gone THEN [rec[i] EXCEPT !.place = "gone"] ELSE rec[i]]
          /\ fate' = [i \in Ids |-> fate[i] \cup (IF i \in gone THEN {"expired"} ELSE {})
                                            \cup (IF i \in served THEN {"accepted"} ELSE {})]
    /\ \E failing \in (IF calm THEN {{}} ELSE SUBSET Forms) :
          sync' = [sync EXCEPT ![t] = [f \in Forms |-> Started(Idle, f, online, rec', f \in failing)]]
    /\ UNCHANGED <<online, form, told, calm>>

-----------------------------------------------------------------------------
(* Syncing.                                                                *)

\* The next record of the list is sent, kept or not by now.  An adult's
\* child consent is started first; the submission that makes is not stored.
Post(t, f) ==
    LET s == sync[t][f] IN
    /\ s.pc = "next"
    /\ \E i \in s.left :
          sync' = [sync EXCEPT ![t][f] =
                      [s EXCEPT !.pc = "sent", !.left = @ \ {i}, !.id = i,
                                !.req = IF f = "childConsent" /\ ~rec[i].started THEN "start" ELSE "post"]]
    /\ UNCHANGED <<online, form, rec, told, calm, fate>>

\* The server accepts, refuses (4xx) or fails (5xx), and the answer arrives.
\* It accepts a form at the endpoint of that form only.
Reply(t, f, reply) ==
    LET s == sync[t][f] IN
    /\ online /\ s.pc = "sent"
    /\ calm => reply = "ok"
    /\ sync' = [sync EXCEPT ![t][f] = [@ EXCEPT !.pc = "answered", !.reply = reply]]
    /\ IF reply = "failed" \/ (reply = "ok" /\ (s.req = "start" \/ form[s.id] # f)) THEN UNCHANGED fate
       ELSE Become(s.id, IF reply = "ok" THEN "accepted" ELSE "refused")
    /\ UNCHANGED <<online, form, rec, told, calm>>

\* No answer: the request, or the answer of a request that was served, is
\* lost.  form-runtime.js stops, the others go on with the next record.
Lose(t, f) ==
    LET s == sync[t][f] IN
    /\ s.pc = "sent" /\ ~calm
    /\ UNCHANGED fate \/ (s.req = "post" /\ form[s.id] = f /\ Become(s.id, "accepted"))
    /\ IF f = "webform" THEN Finish(t, f) ELSE Continue(t, f)
    /\ UNCHANGED <<online, form, rec, told, calm>>

\* A child consent that is started now is finalized.
Finalize(t, f) ==
    /\ sync[t][f].pc = "answered" /\ sync[t][f].reply = "ok" /\ sync[t][f].req = "start"
    /\ sync' = [sync EXCEPT ![t][f] = [@ EXCEPT !.pc = "sent", !.req = "post", !.reply = "none"]]
    /\ UNCHANGED <<online, form, rec, told, calm, fate>>

\* Mutant: all three scripts take a 4xx for final.
DoneWhenRefused(t, f) ==
    /\ sync[t][f].pc = "answered"
    /\ \/ sync[t][f].reply = "ok" /\ sync[t][f].req = "post"
       \/ sync[t][f].reply = "refused"

\* dsar-runtime.js and child-consent-runtime.js take a 4xx for final.
Done(t, f) ==
    /\ sync[t][f].pc = "answered"
    /\ \/ sync[t][f].reply = "ok" /\ sync[t][f].req = "post"
       \/ sync[t][f].reply = "refused" /\ f # "webform"

KeepForLater(t, f) ==
    /\ sync[t][f].pc = "answered" /\ sync[t][f].reply # "ok" /\ ~Done(t, f)
    /\ Continue(t, f)
    /\ UNCHANGED <<online, form, rec, told, calm, fate>>

Remove(t, f) ==
    /\ Done(t, f)
    /\ rec' = [rec EXCEPT ![sync[t][f].id].place = "gone"]
    /\ Continue(t, f)
    /\ UNCHANGED <<online, form, told, calm, fate>>

\* The deletion fails: after a refusal the sync gives up.
RemoveFails(t, f) ==
    /\ Done(t, f) /\ ~calm
    /\ IF sync[t][f].reply = "refused" THEN Finish(t, f) ELSE Continue(t, f)
    /\ UNCHANGED <<online, form, rec, told, calm, fate>>

\* From some time on the visitor stays online, no request and no transaction
\* fails, and a page stays until its scripts are done.
BecomeCalm ==
    /\ ~calm
    /\ calm' = TRUE
    /\ UNCHANGED <<online, form, rec, told, sync, fate>>

-----------------------------------------------------------------------------
Init ==
    /\ online \in BOOLEAN
    /\ form \in [Ids -> Forms]
    /\ rec = [i \in Ids |-> NoRec]
    /\ told = {}
    /\ sync = [t \in Tabs |-> [f \in Forms |-> Closed]]
    /\ calm = FALSE
    /\ fate = [i \in Ids |-> {}]

SyncStep(t, f) ==
    \/ Post(t, f) \/ Lose(t, f) \/ Finalize(t, f)
    \/ (\E reply \in {"ok", "refused", "failed"} : Reply(t, f, reply))
    \/ KeepForLater(t, f) \/ Remove(t, f) \/ RemoveFails(t, f)

Next ==
    \/ \E i \in Ids : PutSucceeds(i) \/ Commit(i) \/ Abort(i) \/ Age(i)
    \/ \E t \in Tabs, i \in Ids : Queue(t, i)
    \/ \E t \in Tabs : Load(t)
    \/ GoOnline \/ GoOffline \/ BecomeCalm
    \/ \E t \in Tabs, f \in Forms : SyncStep(t, f)

Spec == Init /\ [][Next]_vars

\* The browser runs the scripts, and the visitor comes back.
FairSpec ==
    /\ Spec
    /\ WF_vars(GoOnline)
    /\ WF_vars(\E t \in Tabs : Load(t))
    /\ WF_vars(\E t \in Tabs, f \in Forms : SyncStep(t, f))

-----------------------------------------------------------------------------
(* Properties.                                                             *)

\* A visitor who was told that the form is saved has a record in the store,
\* unless the server has accepted it, 30 days went by, or, of the two
\* scripts that delete what is refused and that do not wait for the commit,
\* the server refused it or the commit failed.
ToldIsKept ==
    \A i \in told :
        \/ rec[i].place \in {"put", "kept"}
        \/ fate[i] \cap {"accepted", "expired"} # {}
        \/ form[i] # "webform" /\ fate[i] \cap {"refused", "aborted"} # {}

\* Whatever failed before, once the visitor is online and requests get
\* through every record leaves the store: no failure, interrupted sync,
\* second tab or other script leaves one behind for ever.
QueueDrains ==
    \A i \in Ids : (calm /\ rec[i].place = "kept") ~> rec[i].place # "kept"

=============================================================================
