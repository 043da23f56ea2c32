--------------------------- MODULE LanguagePicker ---------------------------
(* The language menu of the three embedded forms (form-runtime.js,         *)
(* dsar-runtime.js, child-consent-runtime.js): the handler asks the        *)
(* translation service, keeps what it answers for the next card, and shows *)
(* a new card unless another language was chosen meanwhile.                *)
(*                                                                         *)
(* A text is the sequence of translations it went through; <<>> is the     *)
(* text as the site's owner wrote it.                                      *)
EXTENDS Naturals, Sequences, FiniteSets

CONSTANTS
    Langs,        \* the languages of the menu but the source language
    MaxChoices    \* bound: languages chosen

Source == "source"
Menu == Langs \cup {Source}

VARIABLES
    script,       \* which of the three scripts
    modal,        \* showModal: the form opens in a dialog
    active,       \* activeLanguage, which localStorage keeps too
    latest,       \* translateFormRequestId
    merged,       \* the text of the next card
    cached,       \* formTranslationCache: texts and languages translated
    asked,        \* the requests the service has not answered
    face,         \* the text of the card shown
    failed,       \* history: the translation into the active language failed
    reopened      \* history: a dialog was opened again

vars == <<script, modal, active, latest, merged, cached, asked, face, failed, reopened>>

-----------------------------------------------------------------------------
Scripts == {"webform", "dsar", "childConsent"}
Nothing == <<"nothing">>

\* What a translation starts from.  form-runtime.js and dsar-runtime.js keep
\* the source text; child-consent-runtime.js has only the current one.
BaseText == IF script = "childConsent" THEN merged ELSE <<>>

Translated(text, lang) == Append(text, lang)

\* remountFormUI: an open dialog or an inline form gets a new card.
Remounted(text) == IF modal /\ face = Nothing THEN face ELSE text

-----------------------------------------------------------------------------
\* The script starts with the language stored; when its translation fails
\* the source text is shown.
Boot ==
    /\ latest = 0 /\ merged = Nothing
    /\ \E ok \in BOOLEAN :
          /\ merged' = IF active = Source \/ ~ok THEN <<>> ELSE Translated(<<>>, active)
          /\ cached' = IF active = Source \/ ~ok THEN {} ELSE {<<<<>>, active>>}
          /\ failed' = (active # Source /\ ~ok)
    /\ face' = IF modal THEN face ELSE merged'
    /\ UNCHANGED <<script, modal, active, latest, asked, reopened>>

\* A language is chosen on the card: the source language and a cached
\* translation are shown at once.
Choose(lang) ==
    LET from == BaseText IN
    /\ face # Nothing /\ latest < MaxChoices
    /\ latest' = latest + 1
    /\ active' = lang
    /\ failed' = FALSE
    /\ IF lang = Source \/ <<from, lang>> \in cached
       THEN /\ merged' = IF lang = Source THEN from ELSE Translated(from, lang)
            /\ face' = Remounted(merged')
            /\ UNCHANGED asked
       ELSE /\ asked' = asked \cup {[n |-> latest', lang |-> lang, from |-> from]}
            /\ UNCHANGED <<merged, face>>
    /\ UNCHANGED <<script, modal, cached, reopened>>

\* Mutant: every answer is shown.
AnswerLate(q) ==
    /\ asked' = asked \ {q}
    /\ \E ok \in BOOLEAN :
          /\ merged' = IF ok THEN Translated(q.from, q.lang) ELSE q.from
          /\ cached' = IF ok THEN cached \cup {<<q.from, q.lang>>} ELSE cached
          /\ failed' = IF q.n = latest THEN ~ok ELSE failed
    /\ face' = Remounted(merged')
    /\ UNCHANGED <<script, modal, active, latest, reopened>>

\* The service answers, or fails: the text is kept for the next card in any
\* case, and shown if no language was chosen since.
Answer(q) ==
    /\ asked' = asked \ {q}
    /\ \E ok \in BOOLEAN :
          /\ merged' = IF ok THEN Translated(q.from, q.lang) ELSE q.from
          /\ cached' = IF ok THEN cached \cup {<<q.from, q.lang>>} ELSE cached
          /\ failed' = IF q.n = latest THEN ~ok ELSE failed
    /\ face' = IF q.n = latest THEN Remounted(merged') ELSE face
    /\ UNCHANGED <<script, modal, active, latest, reopened>>

\* The trigger of the dialog builds a card from the text kept.
OpenDialog ==
    /\ modal /\ face = Nothing /\ merged # Nothing
    /\ face' = merged
    /\ reopened' = (reopened \/ latest > 0)
    /\ UNCHANGED <<script, modal, active, latest, merged, cached, asked, failed>>

CloseDialog ==
    /\ modal /\ face # Nothing
    /\ face' = Nothing
    /\ UNCHANGED <<script, modal, active, latest, merged, cached, asked, failed, reopened>>

Init ==
    /\ script \in Scripts /\ modal \in BOOLEAN
    /\ active \in Menu
    /\ latest = 0 /\ merged = Nothing /\ face = Nothing
    /\ cached = {} /\ asked = {}
    /\ failed = FALSE /\ reopened = FALSE

Next ==
    \/ Boot
    \/ \E lang \in Menu : Choose(lang)
    \/ \E q \in asked : Answer(q)
    \/ OpenDialog \/ CloseDialog

Spec == Init /\ [][Next]_vars

-----------------------------------------------------------------------------
(* Properties.                                                             *)

\* Whatever order the service answers in, when no answer is pending the form
\* shows the language chosen last, or the source text if that translation
\* failed.  A dialog that was opened again is left out, for a late answer
\* replaces the text it opens with, and so is child-consent-runtime.js, which
\* translates what is already translated.
LatestLanguageShown ==
    (asked = {} /\ face # Nothing /\ ~reopened /\ script # "childConsent") =>
        face = IF active = Source \/ failed THEN <<>> ELSE <<active>>

=============================================================================
