------------------------------- MODULE WebForm ------------------------------
(* The web form a website embeds (form-runtime.js): the visitor fills it   *)
(* in, asks for a code when the form wants one, and submits; offline a     *)
(* form without a code is queued instead.                                  *)
(*                                                                         *)
(* The answers of a visitor are a version number; consents are the boxes   *)
(* of the notice.                                                          *)
EXTENDS Naturals, FiniteSets

CONSTANTS
    Boxes,        \* consent boxes of the form
    MaxAnswers,   \* bound: answers typed
    MaxCards      \* bound: cards built

VARIABLES
    codeKind,     \* the code the form's schema wants
    line,         \* navigator.onLine
    sheet,        \* the card: its number, answers, ticked boxes and buttons
    drafts,       \* how many answers were typed
    sending,      \* the submissions under way, by card
    coding,       \* the cards whose request for a code is under way
    kept,         \* answers that the server accepted or that are queued
    thanked,      \* history: answers the visitor was thanked for
    dropped       \* history: answers the visitor replaced or left

vars == <<codeKind, line, sheet, drafts, sending, coding, kept, thanked, dropped>>

-----------------------------------------------------------------------------
\* "beside": next to a field with otpEnabled, "required": with
\* otpRequiredForSubmit, "field": a required field of its own.
CodeKinds == {"none", "beside", "required", "field"}

\* formHasOtp.
FormHasOtp == codeKind # "none"

Blank(n) == [n |-> n, answers |-> 0, ticked |-> {}, code |-> FALSE,
             maySubmit |-> TRUE, maySend |-> TRUE]

NotSending == [how |-> "none", answers |-> 0]

OnSheet(n, changed) == sheet' = IF sheet.n = n THEN changed ELSE sheet

\* collectValues: what the form requires is there.
Complete == sheet.answers # 0 /\ (codeKind \in {"required", "field"} => sheet.code)

-----------------------------------------------------------------------------
Fill ==
    /\ drafts < MaxAnswers
    /\ drafts' = drafts + 1
    /\ sheet' = [sheet EXCEPT !.answers = drafts + 1]
    /\ dropped' = dropped \cup ({sheet.answers} \ {0})
    /\ UNCHANGED <<codeKind, line, sending, coding, kept, thanked>>

Tick(b) ==
    /\ sheet' = [sheet EXCEPT !.ticked = IF b \in @ THEN @ \ {b} ELSE @ \cup {b}]
    /\ UNCHANGED <<codeKind, line, drafts, sending, coding, kept, thanked, dropped>>

TypeCode ==
    /\ FormHasOtp /\ ~sheet.code
    /\ sheet' = [sheet EXCEPT !.code = TRUE]
    /\ UNCHANGED <<codeKind, line, drafts, sending, coding, kept, thanked, dropped>>

\* The button of the code is disabled until its answer, good or bad.
SendCode ==
    /\ FormHasOtp /\ sheet.maySend /\ sheet.answers # 0
    /\ sheet' = [sheet EXCEPT !.maySend = FALSE]
    /\ coding' = coding \cup {sheet.n}
    /\ UNCHANGED <<codeKind, line, drafts, sending, kept, thanked, dropped>>

CodeAnswered(n) ==
    /\ n \in coding
    /\ coding' = coding \ {n}
    /\ OnSheet(n, [sheet EXCEPT !.maySend = TRUE])
    /\ UNCHANGED <<codeKind, line, drafts, sending, kept, thanked, dropped>>

ChangeLine ==
    /\ line' = ~line
    /\ UNCHANGED <<codeKind, sheet, drafts, sending, coding, kept, thanked, dropped>>

\* The dialog is opened again, or the language changes: a new card.
Rebuild ==
    /\ sheet.n < MaxCards
    /\ sheet' = Blank(sheet.n + 1)
    /\ dropped' = dropped \cup ({sheet.answers} \ {0})
    /\ UNCHANGED <<codeKind, line, drafts, sending, coding, kept, thanked>>

\* Submit: the button is disabled first.  Offline a form with a code is
\* refused and the button is back.
Submit ==
    /\ sheet.maySubmit /\ Complete
    /\ line \/ ~FormHasOtp
    /\ sheet' = [sheet EXCEPT !.maySubmit = FALSE]
    /\ sending' = [sending EXCEPT ![sheet.n] = [how |-> IF line THEN "post" ELSE "queue",
                                                answers |-> sheet.answers]]
    /\ UNCHANGED <<codeKind, line, drafts, coding, kept, thanked, dropped>>

\* What a success clears: the fields of the schema; posting also the consent
\* boxes.  A code beside a field stays.
Cleared(how) ==
    [sheet EXCEPT !.answers = 0, !.maySubmit = TRUE,
                  !.code = @ /\ codeKind # "field",
                  !.ticked = IF how = "post" THEN {} ELSE @]

Succeed(n) ==
    LET s == sending[n] IN
    /\ s.how # "none"
    /\ kept' = kept \cup {s.answers}
    /\ thanked' = thanked \cup {s.answers}
    /\ OnSheet(n, Cleared(s.how))
    /\ dropped' = IF sheet.n = n THEN dropped \cup ({sheet.answers} \ {0, s.answers}) ELSE dropped
    /\ sending' = [sending EXCEPT ![n] = NotSending]
    /\ UNCHANGED <<codeKind, line, drafts, coding>>

\* Mutant: the card is cleared after an error too.
FailToSendAndClear(n) ==
    LET s == sending[n] IN
    /\ s.how # "none"
    /\ kept' \in {kept} \cup (IF s.how = "post" THEN {kept \cup {s.answers}} ELSE {})
    /\ OnSheet(n, Cleared(s.how))
    /\ sending' = [sending EXCEPT ![n] = NotSending]
    /\ UNCHANGED <<codeKind, line, drafts, coding, thanked, dropped>>

\* An error, after which the server may have the form all the same.
FailToSend(n) ==
    LET s == sending[n] IN
    /\ s.how # "none"
    /\ kept' \in {kept} \cup (IF s.how = "post" THEN {kept \cup {s.answers}} ELSE {})
    /\ OnSheet(n, [sheet EXCEPT !.maySubmit = TRUE])
    /\ sending' = [sending EXCEPT ![n] = NotSending]
    /\ UNCHANGED <<codeKind, line, drafts, coding, thanked, dropped>>

Init ==
    /\ codeKind \in CodeKinds /\ line \in BOOLEAN
    /\ sheet = Blank(1) /\ drafts = 0
    /\ sending = [n \in 1..MaxCards |-> NotSending]
    /\ coding = {} /\ kept = {} /\ thanked = {} /\ dropped = {}

Next ==
    \/ Fill \/ TypeCode \/ SendCode \/ ChangeLine \/ Rebuild \/ Submit
    \/ \E b \in Boxes : Tick(b)
    \/ \E n \in 1..MaxCards : CodeAnswered(n) \/ Succeed(n) \/ FailToSend(n)

Spec == Init /\ [][Next]_vars

-----------------------------------------------------------------------------
(* Properties.                                                             *)

\* No answers are lost and none are taken for sent: what the visitor typed is
\* on the card until the visitor replaces it, leaves the card or is thanked,
\* and the visitor is thanked only for what the server or the queue has.
AnswersKept ==
    /\ thanked \subseteq kept
    /\ \A v \in 1..drafts : v \in thanked \cup dropped \/ sheet.answers = v
    /\ sheet.maySubmit => sending[sheet.n].how = "none"

=============================================================================
