------------------------------ MODULE DsarForm ------------------------------
(* The data subject request form a website embeds (dsar-runtime.js).  The  *)
(* visitor confirms the e-mail address by a code before submitting.  The   *)
(* flags of that confirmation belong to the script, and so do the cooldown *)
(* of the send button and the handle of its timer; the fields and buttons  *)
(* belong to the card, which is built anew when the dialog opens and when  *)
(* the language changes.  Handlers of an earlier card still change the     *)
(* flags.                                                                  *)
EXTENDS Naturals, FiniteSets

CONSTANTS
    MaxCards,     \* bound: cards built
    MaxEmails,    \* bound: addresses typed
    Timers,       \* bound: cooldown timers running, numbers from 1 on
    Requests      \* bound: requests under way

VARIABLES
    card,         \* the card shown: its number, fields and buttons
    email,        \* the address in its field, 0 for none
    typed,        \* how many addresses were typed
    otp,          \* otpRequested, otpVerified, resendCooldown
    handle,       \* resendInterval: a timer, or 0 for null
    timers,       \* the timers that run, each with the card it was made for
    requests,     \* what handlers wait for
    validated,    \* history: addresses whose code the server accepted
    submitted,    \* history: addresses submitted or queued
    mixed         \* history: the visitor acted while a handler was waiting

vars == <<card, email, typed, otp, handle, timers, requests, validated, submitted, mixed>>

-----------------------------------------------------------------------------
None == "none"
NoRequest == [kind |-> None, card |-> 0, email |-> 0]
Fresh == [verified |-> FALSE, requested |-> FALSE, cooldown |-> FALSE]

\* A card as buildDsarCard makes it.
NewCard(n) == [n |-> n, shown |-> TRUE, locked |-> FALSE, mayVerify |-> FALSE,
               maySend |-> TRUE, maySubmit |-> TRUE]

\* restoreFormValues, on the card that replaces old.
Restored(old) == [NewCard(old.n + 1) EXCEPT !.locked = old.locked, !.maySend = ~otp.cooldown,
                                            !.mayVerify = otp.requested /\ ~otp.verified]

Acts == mixed' = (mixed \/ \E r \in Requests : requests[r].kind # None)

\* The first one not in use: which one does not matter.
FirstFree(free) == CHOOSE n \in free : \A m \in free : n <= m

Ask(kind) ==
    LET free == {r \in Requests : requests[r].kind = None}
        r == FirstFree(free) IN
        /\ free # {}
        /\ requests' = [requests EXCEPT ![r] = [kind |-> kind, card |-> card.n, email |-> email]]
Answered(r) == requests' = [requests EXCEPT ![r] = NoRequest]

\* clearInterval(resendInterval) stops the timer the handle names now.
Without(h) == [t \in Timers |-> IF t = h THEN 0 ELSE timers[t]]
StopTimer == timers' = Without(handle) /\ handle' = 0

\* What a handler does to its card is seen on the card shown, if it is that.
OnCard(n, changed) == card' = IF card.n = n THEN changed ELSE card

\* resetOtpFlowState.
ResetOtpFlow == otp' = Fresh /\ StopTimer

-----------------------------------------------------------------------------
(* The visitor.                                                            *)

\* The listener of the e-mail field: everything about the code starts over.
TypeEmail ==
    /\ card.shown /\ ~card.locked /\ typed < MaxEmails
    /\ typed' = typed + 1 /\ email' = typed + 1
    /\ ResetOtpFlow
    /\ card' = [card EXCEPT !.maySend = TRUE, !.mayVerify = FALSE]
    /\ Acts
    /\ UNCHANGED <<requests, validated, submitted>>

\* During the cooldown the click is answered with a message.
PressSend ==
    /\ card.shown /\ card.maySend /\ email # 0 /\ ~otp.cooldown
    /\ Ask("send")
    /\ card' = [card EXCEPT !.maySend = FALSE]
    /\ Acts
    /\ UNCHANGED <<email, typed, otp, handle, timers, validated, submitted>>

PressVerify ==
    /\ card.shown /\ card.mayVerify
    /\ Ask("verify")
    /\ card' = [card EXCEPT !.mayVerify = FALSE]
    /\ Acts
    /\ UNCHANGED <<email, typed, otp, handle, timers, validated, submitted>>

\* Online the address must be verified and the button is disabled; offline it
\* must be verified too, and the button stays as it is.
PressSubmit(kind) ==
    /\ card.shown /\ card.maySubmit /\ email # 0
    /\ otp.verified /\ (kind = "post" => otp.requested)
    /\ Ask(kind)
    /\ card' = [card EXCEPT !.maySubmit = (kind = "queue")]
    /\ Acts
    /\ UNCHANGED <<email, typed, otp, handle, timers, validated, submitted>>

\* The dialog closes; its trigger opens it with a new card.
Close ==
    /\ card.shown
    /\ card' = [card EXCEPT !.shown = FALSE]
    /\ Acts
    /\ UNCHANGED <<email, typed, otp, handle, timers, requests, validated, submitted>>

OpenModal ==
    /\ card.n < MaxCards
    /\ ~card.shown
    /\ card' = NewCard(card.n + 1) /\ email' = 0
    /\ ResetOtpFlow
    /\ Acts
    /\ UNCHANGED <<typed, requests, validated, submitted>>

\* A change of language: a new card gets the values of the one before it, and
\* its buttons follow the flags.
Remount ==
    /\ card.shown /\ card.n < MaxCards
    /\ card' = Restored(card)
    /\ Acts
    /\ UNCHANGED <<email, typed, otp, handle, timers, requests, validated, submitted>>

-----------------------------------------------------------------------------
(* Answers and timers.                                                     *)

\* The code is sent: a timer starts, and the handle names it from now on.
SendAnswered(r) ==
    /\ requests[r].kind = "send"
    /\ \/ /\ otp' = [otp EXCEPT !.requested = TRUE, !.cooldown = TRUE]
          /\ LET idle == {t \in Timers : timers[t] = 0}
                 t == FirstFree(idle) IN
             /\ idle # {}
             /\ timers' = [timers EXCEPT ![t] = requests[r].card]
             /\ handle' = t
          /\ OnCard(requests[r].card, [card EXCEPT !.mayVerify = TRUE])
       \/ /\ OnCard(requests[r].card, [card EXCEPT !.maySend = TRUE])
          /\ UNCHANGED <<otp, handle, timers>>
    /\ Answered(r)
    /\ UNCHANGED <<email, typed, validated, submitted, mixed>>

VerifyAnswered(r) ==
    /\ requests[r].kind = "verify"
    /\ \/ /\ otp' = [otp EXCEPT !.verified = TRUE]
          /\ validated' = validated \cup {requests[r].email}
          /\ OnCard(requests[r].card, [card EXCEPT !.locked = TRUE])
       \/ /\ OnCard(requests[r].card, [card EXCEPT !.mayVerify = TRUE])
          /\ UNCHANGED <<otp, validated>>
    /\ Answered(r)
    /\ UNCHANGED <<email, typed, handle, timers, submitted, mixed>>

\* A submission that is posted or queued clears its form and the flags.
SubmitAnswered(r) ==
    LET n == requests[r].card
        again == requests[r].kind = "post" \/ card.maySubmit IN
    /\ requests[r].kind \in {"post", "queue"}
    /\ \/ /\ submitted' = submitted \cup {requests[r].email}
          /\ ResetOtpFlow
          /\ OnCard(n, [NewCard(n) EXCEPT !.shown = card.shown, !.maySubmit = again])
          /\ email' = IF card.n = n THEN 0 ELSE email
       \/ /\ OnCard(n, [card EXCEPT !.maySubmit = again])
          /\ UNCHANGED <<submitted, otp, handle, timers, email>>
    /\ Answered(r)
    /\ UNCHANGED <<typed, validated, mixed>>

\* Mutant: a timer ends the cooldown of its own card only.
TimerEndsForItsCard(t) ==
    /\ timers[t] # 0
    /\ otp' = [otp EXCEPT !.cooldown = @ /\ timers[t] # card.n]
    /\ timers' = Without(handle) /\ handle' = 0
    /\ OnCard(timers[t], [card EXCEPT !.maySend = TRUE])
    /\ UNCHANGED <<email, typed, requests, validated, submitted, mixed>>

\* A timer at the end of its 30 seconds, and at every second after that when
\* it is still there: it stops the timer that the handle names.
TimerEnds(t) ==
    /\ timers[t] # 0
    /\ otp' = [otp EXCEPT !.cooldown = FALSE]
    /\ timers' = Without(handle) /\ handle' = 0
    /\ OnCard(timers[t], [card EXCEPT !.maySend = TRUE])
    /\ UNCHANGED <<email, typed, requests, validated, submitted, mixed>>

-----------------------------------------------------------------------------
Init ==
    /\ card = NewCard(1) /\ email = 0 /\ typed = 0
    /\ otp = Fresh /\ handle = 0
    /\ timers = [t \in Timers |-> 0]
    /\ requests = [r \in Requests |-> NoRequest]
    /\ validated = {} /\ submitted = {} /\ mixed = FALSE

Next ==
    \/ TypeEmail \/ PressSend \/ PressVerify
    \/ (\E kind \in {"post", "queue"} : PressSubmit(kind))
    \/ Close \/ OpenModal \/ Remount
    \/ \E r \in Requests : SendAnswered(r) \/ VerifyAnswered(r) \/ SubmitAnswered(r)
    \/ \E t \in Timers : TimerEnds(t)

Spec == Init /\ [][Next]_vars

\* Timers fire.
FairSpec == Spec /\ \A t \in Timers : WF_vars(TimerEnds(t))

-----------------------------------------------------------------------------
(* Properties.                                                             *)

\* The cooldown of the send button ends, whichever card started it, however
\* many timers run and whichever of them the handle names.
CooldownEnds == otp.cooldown ~> ~otp.cooldown

\* As long as the visitor waits for each answer, only addresses whose code
\* the server accepted are submitted, through closed dialogs, changes of
\* language, of the address and of the connection.
SubmittedIsValidated == ~mixed => submitted \subseteq validated

=============================================================================
