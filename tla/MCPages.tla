------------------------------ MODULE MCPages -------------------------------
(* An instance for TLC of the scripts that websites embed.  They share no  *)
(* state but the store of OfflineStore, so a behaviour takes the steps of  *)
(* one of them: the part of the page that the initial state picks.         *)
EXTENDS Naturals, Sequences, FiniteSets, TLC

CONSTANTS
    Loaders, Cats, Cookies, Stuck, StyleCats, Slots,
    Ids, Tabs,
    RequireVerification, MaxFills, MaxEdits, MaxIds, MaxSubs, MaxWaiting,
    MaxCards, MaxEmails, Timers, Requests,
    Boxes, MaxAnswers,
    Langs, MaxChoices,
    ads, track

ASSUME PagesAssumption ==
    /\ MaxFills \in Nat \ {0} /\ MaxSubs \in Nat
    /\ MaxCards \in Nat \ {0}

CatOf == track :> ads
Defaults == ads :> TRUE

VARIABLES
    part,
    loader, pc, got, choices, ui, scripts, hooks, jar, handled, known, posts, stored, quiet,
    online, form, rec, told, sync, calm, fate,
    fill, branch, details, submission, verified, clientId, calls, subs, attempts, overlap,
    card, email, typed, otp, handle, timers, requests, validated, submitted, mixed,
    codeKind, line, sheet, drafts, sending, coding, kept, thanked, dropped,
    script, modal, active, latest, merged, cached, asked, face, failed, reopened

Banner   == INSTANCE ConsentBanner
Store    == INSTANCE OfflineStore
Child    == INSTANCE ChildConsentForm
Dsar     == INSTANCE DsarForm
Web      == INSTANCE WebForm
Language == INSTANCE LanguagePicker

Parts == {"banner", "store", "child", "dsar", "web", "language"}

bannerVars   == <<loader, pc, got, choices, ui, scripts, hooks, jar, handled, known, posts, stored, quiet>>
storeVars    == <<online, form, rec, told, sync, calm, fate>>
childVars    == <<fill, branch, details, submission, verified, clientId, calls, subs, attempts, overlap>>
dsarVars     == <<card, email, typed, otp, handle, timers, requests, validated, submitted, mixed>>
webVars      == <<codeKind, line, sheet, drafts, sending, coding, kept, thanked, dropped>>
languageVars == <<script, modal, active, latest, merged, cached, asked, face, failed, reopened>>

notBanner   == <<part, storeVars, childVars, dsarVars, webVars, languageVars>>
notStore    == <<part, bannerVars, childVars, dsarVars, webVars, languageVars>>
notChild    == <<part, bannerVars, storeVars, dsarVars, webVars, languageVars>>
notDsar     == <<part, bannerVars, storeVars, childVars, webVars, languageVars>>
notWeb      == <<part, bannerVars, storeVars, childVars, dsarVars, languageVars>>
notLanguage == <<part, bannerVars, storeVars, childVars, dsarVars, webVars>>

vars == <<part, bannerVars, storeVars, childVars, dsarVars, webVars, languageVars>>

\* The parts that take no step start in one of their initial states.
Init ==
    /\ part \in Parts
    /\ Banner!Init /\ Store!Init /\ Child!Init /\ Dsar!Init /\ Web!Init /\ Language!Init
    /\ part # "banner" => loader = (CHOOSE l \in Loaders : TRUE) /\ jar = {}
    /\ part # "store" => ~online /\ form = [i \in Ids |-> "webform"]
    /\ part # "web" => codeKind = "none" /\ ~line
    /\ part # "language" => script = "webform" /\ ~modal /\ active = Language!Source

Next ==
    \/ part = "banner" /\ Banner!Next /\ UNCHANGED notBanner
    \/ part = "store" /\ Store!Next /\ UNCHANGED notStore
    \/ part = "child" /\ Child!Next /\ UNCHANGED notChild
    \/ part = "dsar" /\ Dsar!Next /\ UNCHANGED notDsar
    \/ part = "web" /\ Web!Next /\ UNCHANGED notWeb
    \/ part = "language" /\ Language!Next /\ UNCHANGED notLanguage

Spec == Init /\ [][Next]_vars

\* The fairness of the three parts that state some.
FairSpec ==
    /\ Spec
    /\ WF_vars(part = "banner" /\ Banner!Reapply /\ UNCHANGED notBanner)
    /\ WF_vars(part = "store" /\ Store!GoOnline /\ UNCHANGED notStore)
    /\ WF_vars(part = "store" /\ (\E t \in Tabs : Store!Load(t)) /\ UNCHANGED notStore)
    /\ WF_vars(part = "store" /\ (\E t \in Tabs, f \in Store!Forms : Store!SyncStep(t, f)) /\ UNCHANGED notStore)
    /\ \A t \in Timers : WF_vars(part = "dsar" /\ Dsar!TimerEnds(t) /\ UNCHANGED notDsar)

\* The properties of the parts: see their modules.

\* What the visitor chose is what the page applied and the service stored, and
\* there is always one way to choose again.
ChoiceTakesEffect   == Banner!ChoiceTakesEffect /\ Banner!OneHandle
NoScriptLost        == Banner!NoScriptLost
DeclinedCookiesGo   == Banner!DeclinedCookiesGo
ToldIsKept          == Store!ToldIsKept
QueueDrains         == Store!QueueDrains
OneIdPerForm        == Child!OneIdPerForm
CooldownEnds        == Dsar!CooldownEnds
AnswersKept         == Web!AnswersKept
LatestLanguageShown == Language!LatestLanguageShown

\* Both forms that confirm a person by a code count only what the server
\* confirmed, as long as the visitor waits for each answer.
CodesConfirmed == Child!VerifiedIsConfirmed /\ Dsar!SubmittedIsValidated
=============================================================================
