-------------------------- MODULE ChildConsentForm --------------------------
(* The child consent form a website embeds (child-consent-runtime.js): an  *)
(* adult consents at once, a minor's guardian confirms a code first.  The  *)
(* handlers of the three buttons share the state object of the card, read  *)
(* it before an await and write it afterwards, while the visitor goes on   *)
(* typing and pressing.                                                    *)
(*                                                                         *)
(* A filled form is what the visitor types between two clearings of the    *)
(* card; its text is a version number.                                     *)
EXTENDS Naturals, FiniteSets

CONSTANTS
    RequireVerification,  \* settings.requireParentVerification
    MaxFills,             \* bound: filled forms
    MaxEdits,             \* bound: versions of the details
    MaxIds,               \* bound: clientSubmissionIds
    MaxSubs,              \* bound: submissions that the server starts
    MaxWaiting            \* bound: handlers waiting at a time

VARIABLES
    fill,         \* the number of the filled form
    branch,       \* state.isMinor, from the date of birth
    details,      \* version of the names, e-mails and guardian fields
    submission,   \* state.submissionId, 0 for null
    verified,     \* state.parentVerified
    clientId,     \* state.clientSubmissionId, 0 for null
    calls,        \* what each handler waits for
    subs,         \* the submissions of the server
    attempts,     \* history: the ids used for each filled form
    overlap       \* history: the visitor acted while a handler was waiting

vars == <<fill, branch, details, submission, verified, clientId, calls, subs, attempts, overlap>>
cardVars == <<fill, branch, details, submission, verified, clientId>>

-----------------------------------------------------------------------------
Handlers == {"send", "verify", "submit", "queue", "queueAgain"}

Waiting == [pc |-> "idle", sub |-> 0, version |-> 0]

Pending == {k \in Handlers : calls[k].pc # "idle"}

\* A submission of the server: what it was started with, whether the
\* guardian confirmed it and the filled forms that were finalized under it.
NoSub == [version |-> 0, confirmed |-> FALSE, finals |-> {}]
Free == {s \in 1..MaxSubs : subs[s].version = 0}

Wait(k, rec) == calls' = [calls EXCEPT ![k] = rec]
Return(k) == Wait(k, Waiting)

Acts == overlap' = (overlap \/ Pending # {})

\* A press of a button whose handler comes to wait.
Press(k, rec) ==
    /\ Cardinality(Pending) < MaxWaiting
    /\ Wait(k, rec)
    /\ Acts

\* Mutant: the verification outlives the submission.
ResetSubmissionOnly ==
    submission' = 0 /\ UNCHANGED verified

\* resetVerificationState and invalidateMinorVerification.
ResetVerification ==
    /\ submission' = 0 /\ verified' = FALSE

\* After a success every field is cleared, and with the date of birth the
\* branch.
ClearCard ==
    /\ fill < MaxFills
    /\ fill' = fill + 1 /\ branch' = "unknown" /\ details' = 1
    /\ clientId' = 0
    /\ ResetVerification

\* validateForm, for what the visitor can complete at will.
MayPass(require) == branch = "adult" \/ (branch = "minor" /\ (require => verified))

-----------------------------------------------------------------------------
(* The visitor types.                                                      *)

\* updateBranch: the date of birth moves between no age, adult and minor.
SetBranch(b) ==
    /\ b # branch
    /\ branch' = b
    /\ ResetVerification
    /\ Acts
    /\ UNCHANGED <<fill, details, clientId, calls, subs, attempts>>

\* Any other field: a minor's verification is void.
Edit ==
    /\ details < MaxEdits
    /\ details' = details + 1
    /\ IF branch = "minor" THEN ResetVerification ELSE UNCHANGED <<submission, verified>>
    /\ Acts
    /\ UNCHANGED <<fill, branch, clientId, calls, subs, attempts>>

\* A change of language builds a new card: the handlers of the old one go
\* on with the old state, and its requests may still be served.
Remount ==
    /\ ClearCard
    /\ calls' = [k \in Handlers |-> Waiting]
    /\ \E served \in BOOLEAN :
          subs' = IF served /\ calls["submit"].pc = "finalize"
                  THEN [subs EXCEPT ![calls["submit"].sub].finals = @ \cup {fill}] ELSE subs
    /\ Acts
    /\ UNCHANGED attempts

-----------------------------------------------------------------------------
(* The verification of the guardian.                                       *)

PressSend ==
    /\ calls["send"].pc = "idle" /\ branch = "minor"
    /\ Press("send", IF submission = 0 THEN [Waiting EXCEPT !.pc = "start", !.version = details]
                                       ELSE [Waiting EXCEPT !.pc = "send"])
    /\ UNCHANGED <<cardVars, subs, attempts>>

\* /start answers: the submission is kept, and a code is sent.
SendStarted ==
    /\ calls["send"].pc = "start"
    /\ \/ \E s \in Free :
             /\ \A u \in Free : s <= u
             /\ subs' = [subs EXCEPT ![s] = [NoSub EXCEPT !.version = calls["send"].version]]
             /\ submission' = s
             /\ Wait("send", [Waiting EXCEPT !.pc = "send"])
       \/ Return("send") /\ UNCHANGED <<subs, submission>>
    /\ UNCHANGED <<fill, branch, details, verified, clientId, attempts, overlap>>

SendAnswered ==
    /\ calls["send"].pc = "send"
    /\ verified' \in {FALSE, verified}
    /\ Return("send")
    /\ UNCHANGED <<fill, branch, details, submission, clientId, subs, attempts, overlap>>

PressVerify ==
    /\ calls["verify"].pc = "idle" /\ branch = "minor" /\ submission # 0
    /\ Press("verify", [Waiting EXCEPT !.pc = "verify", !.sub = submission])
    /\ UNCHANGED <<cardVars, subs, attempts>>

\* The server confirms the code, or not; the answer may be lost.
VerifyAnswered ==
    /\ calls["verify"].pc = "verify"
    /\ \E confirmed, ok \in BOOLEAN :
          /\ ok => confirmed
          /\ subs' = [subs EXCEPT ![calls["verify"].sub].confirmed = @ \/ confirmed]
          /\ verified' = ok
    /\ Return("verify")
    /\ UNCHANGED <<fill, branch, details, submission, clientId, attempts, overlap>>

-----------------------------------------------------------------------------
(* Submitting.                                                             *)

\* Mutant: a new id for every attempt.
UseNewClientId ==
    LET id == 1 + Cardinality(UNION {attempts[f] : f \in 1..MaxFills}) IN
    /\ id <= MaxIds
    /\ clientId' = id
    /\ attempts' = [attempts EXCEPT ![fill] = @ \cup {id}]

\* The id that all attempts of this filled form use.
UseClientId ==
    LET next == 1 + Cardinality(UNION {attempts[f] : f \in 1..MaxFills})
        id == IF clientId = 0 THEN next ELSE clientId IN
    /\ id <= MaxIds
    /\ clientId' = id
    /\ attempts' = [attempts EXCEPT ![fill] = @ \cup {id}]

\* Online: the button stays disabled until the handler is done.
PressSubmit ==
    /\ calls["submit"].pc = "idle" /\ MayPass(RequireVerification)
    /\ UseClientId
    /\ Press("submit", IF submission = 0 THEN [Waiting EXCEPT !.pc = "start", !.version = details]
                                         ELSE [Waiting EXCEPT !.pc = "finalize", !.sub = submission])
    /\ UNCHANGED <<fill, branch, details, submission, verified, subs>>

\* The form may have become a minor's meanwhile.
SubmitStarted ==
    /\ calls["submit"].pc = "start"
    /\ \/ \E s \in Free :
             /\ \A u \in Free : s <= u
             /\ subs' = [subs EXCEPT ![s] = [NoSub EXCEPT !.version = calls["submit"].version]]
             /\ submission' = s
             /\ IF branch = "minor" /\ ~verified /\ RequireVerification THEN Return("submit")
                ELSE Wait("submit", [Waiting EXCEPT !.pc = "finalize", !.sub = s])
       \/ Return("submit") /\ UNCHANGED <<subs, submission>>
    /\ UNCHANGED <<fill, branch, details, verified, clientId, attempts, overlap>>

Finalized == subs' = [subs EXCEPT ![calls["submit"].sub].finals = @ \cup {fill}]

\* A good answer clears the card; an error, after which the server may have
\* it all the same, leaves it for another try.
FinalizeAnswered ==
    /\ calls["submit"].pc = "finalize"
    /\ \/ Finalized /\ ClearCard
       \/ (Finalized \/ UNCHANGED subs) /\ UNCHANGED cardVars
    /\ Return("submit")
    /\ UNCHANGED <<attempts, overlap>>

\* Offline the button is not disabled: it may be pressed again while the
\* record is being written.
PressOffline ==
    /\ MayPass(RequireVerification)
    /\ UseClientId
    /\ \E k \in {"queue", "queueAgain"} :
          /\ calls[k].pc = "idle" /\ (k = "queueAgain" => calls["queue"].pc # "idle")
          /\ Press(k, [Waiting EXCEPT !.pc = "queue"])
    /\ UNCHANGED <<fill, branch, details, submission, verified, subs>>

Queued(k) ==
    /\ calls[k].pc = "queue"
    /\ ClearCard \/ UNCHANGED cardVars
    /\ Return(k)
    /\ UNCHANGED <<subs, attempts, overlap>>

-----------------------------------------------------------------------------
Init ==
    /\ fill = 1 /\ branch = "unknown" /\ details = 1
    /\ submission = 0 /\ verified = FALSE /\ clientId = 0
    /\ calls = [k \in Handlers |-> Waiting]
    /\ subs = [s \in 1..MaxSubs |-> NoSub]
    /\ attempts = [f \in 1..MaxFills |-> {}]
    /\ overlap = FALSE

Next ==
    \/ \E b \in {"unknown", "adult", "minor"} : SetBranch(b)
    \/ Edit \/ Remount
    \/ PressSend \/ SendStarted \/ SendAnswered
    \/ PressVerify \/ VerifyAnswered
    \/ PressSubmit \/ SubmitStarted \/ FinalizeAnswered
    \/ PressOffline \/ (\E k \in {"queue", "queueAgain"} : Queued(k))

Spec == Init /\ [][Next]_vars

-----------------------------------------------------------------------------
(* Properties.                                                             *)

\* However often a filled form is submitted, after errors, pressed twice,
\* offline and online, all its attempts carry one id, by which the server
\* can tell them from the attempts of any other form.
OneIdPerForm ==
    \A f, g \in 1..MaxFills :
        /\ Cardinality(attempts[f]) <= 1
        /\ f # g => attempts[f] \cap attempts[g] = {}

\* As long as the visitor waits for each answer, a form counts as verified
\* only while the guardian has confirmed the submission that was started
\* with these very details, and no two forms are finalized under one
\* submission.
VerifiedIsConfirmed ==
    ~overlap =>
        /\ verified => /\ branch = "minor" /\ submission # 0
                       /\ subs[submission].confirmed /\ subs[submission].version = details
        /\ \A s \in 1..MaxSubs : Cardinality(subs[s].finals) <= 1

=============================================================================
