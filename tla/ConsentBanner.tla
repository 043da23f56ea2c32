---------------------------- MODULE ConsentBanner ----------------------------
(* The cookie banner a website embeds (src/public/banner-loader4u.js and   *)
(* banner-loader3.js): one CMP object per page load that stashes scripts   *)
(* away, asks the visitor, posts the answer, runs the scripts of accepted  *)
(* categories and keeps deleting the cookies of declined ones.             *)
(*                                                                         *)
(* banner-loader3.js holds the whole program twice: the second copy's      *)
(* object replaces the first one in window.CMP before either copy calls    *)
(* init, so init runs twice on that object.                                *)
(*                                                                         *)
(* A step is what the page does between two awaits, or one firing of a     *)
(* timer.  The necessary category, which nobody can decline, is left out.  *)
EXTENDS Naturals, FiniteSets

CONSTANTS
    Loaders,      \* subset of {"4u", "3"}: the files a page may include
    Cats,         \* the optional categories; each has one blocked script
    Cookies,      \* the cookies that the categories list
    CatOf,        \* [Cookies -> Cats]
    Stuck,        \* cookies that a script cannot delete (HttpOnly, another path)
    Defaults,     \* [Cats -> BOOLEAN]
    StyleCats,    \* the categories of the style template (banner-loader3.js)
    Slots         \* bound: POSTs of the consent in flight

VARIABLES
    loader,       \* the file this page includes
    pc,           \* where each call of init is
    got,          \* the stored consent each call of init was answered
    choices,      \* this.choices: "unset", "yes" or "no"
    ui,           \* banner, floating button, preferences and their builder
    scripts,      \* where the blocked script of each category is
    hooks,        \* timers, listeners and the cookie interceptor are installed
    jar,          \* the cookies the browser holds
    handled,      \* _lastHandledCookie
    known,        \* previousNames of the cookie monitor
    posts,        \* POST /cmp/consent requests
    stored,       \* what the server has stored for this visitor
    quiet         \* history: nothing has disturbed the last press of a button

vars == <<loader, pc, got, choices, ui, scripts, hooks, jar, handled, known, posts, stored, quiet>>
cookieVars == <<hooks, jar, handled, known>>
requestVars == <<posts, stored>>

-----------------------------------------------------------------------------
Inits == {1, 2}

\* autoInit: how many calls of init a page load makes.
InitsOf(l) == IF l = "3" THEN {1, 2} ELSE {1}

Asked(answers) == [Cats -> answers]
None == [c \in Cats |-> "unset"]

Pcs == {"off", "config", "categories", "lists", "consent", "answered", "ready", "failed"}

\* "page": an inert element of the page; "stash": in this._blocked;
\* "refused": skipped by _unblockScripts; "lost": in no list any more.
Places == {"page", "stash", "running", "refused", "lost"}

NoUi == [banner |-> FALSE, floating |-> FALSE, prefs |-> FALSE, built |-> FALSE, inline |-> FALSE]
FreePost == [st |-> "free", how |-> "all", body |-> None]

Ready == \E i \in Inits : pc[i] = "ready"

Declined(ch) == {k \in Cookies : ch[CatOf[k]] = "no"}

(* Helpers of the class.  Each gives the next value of what it changes.    *)

\* Mutant: names handled a moment ago are passed over here too.
ApplyAllowedCookiesOnce(ch, hooked) ==
    /\ jar' = jar \ (Declined(ch) \ (Stuck \cup handled))
    /\ handled' = IF hooked THEN handled \cup Declined(ch) ELSE handled

\* _applyAllowedCookies: every deletion is a cookie write that the installed
\* interceptor takes note of.
ApplyAllowedCookies(ch, hooked) ==
    /\ jar' = jar \ (Declined(ch) \ Stuck)
    /\ handled' = IF hooked THEN handled \cup Declined(ch) ELSE handled

\* _blockScripts: the list is replaced by what the page still holds.
BlockScripts ==
    scripts' = [c \in Cats |-> CASE scripts[c] = "page" -> "stash"
                                 [] scripts[c] = "stash" -> "lost"
                                 [] OTHER -> scripts[c]]

\* _unblockScripts: run what is accepted, and empty the list.
Unblocked(place, ch) ==
    [c \in Cats |-> IF place[c] # "stash" THEN place[c]
                    ELSE IF ch[c] = "yes" THEN "running" ELSE "refused"]

RenderBanner(u) == [u EXCEPT !.banner = TRUE, !.floating = FALSE]
RenderFloatingBtn(u) == [u EXCEPT !.floating = TRUE]
RemoveBanner(u) == [RenderFloatingBtn(u) EXCEPT !.banner = FALSE]

\* Mutant: the choices are posted as they were before the press.
SaveConsentOfBefore(how, ch) ==
    \E s \in Slots :
        /\ posts[s].st = "free"
        /\ posts' = [posts EXCEPT ![s] = [st |-> "sent", how |-> how, body |-> choices]]

\* _saveConsent posts a copy of the choices.
SaveConsent(how, ch) ==
    \E s \in Slots :
        /\ posts[s].st = "free"
        /\ posts' = [posts EXCEPT ![s] = [st |-> "sent", how |-> how, body |-> ch]]

NoPost == \A s \in Slots : posts[s].st = "free"

-----------------------------------------------------------------------------
(* init.                                                                   *)

Goto(i, next) == pc' = [pc EXCEPT ![i] = next]

\* autoInit has its parameters and calls init, or the lookup fails.
\* banner-loader4u.js stashes the scripts at once.
StartInit(i) ==
    /\ i \in InitsOf(loader) /\ pc[i] = "off"
    /\ \/ /\ Goto(i, "config")
          /\ IF loader = "4u" THEN BlockScripts ELSE UNCHANGED scripts
       \/ Goto(i, "failed") /\ UNCHANGED scripts
    /\ UNCHANGED <<loader, got, choices, ui, cookieVars, requestVars, quiet>>

\* The banner's configuration: anything but a good answer ends init.
FetchConfig(i) ==
    /\ pc[i] = "config"
    /\ \E inline \in (IF loader = "4u" THEN BOOLEAN ELSE {FALSE}) :
          \/ Goto(i, "categories") /\ ui' = [ui EXCEPT !.inline = inline]
          \/ Goto(i, "failed") /\ UNCHANGED ui
    /\ UNCHANGED <<loader, got, choices, scripts, cookieVars, requestVars, quiet>>

FetchCategories(i) ==
    /\ pc[i] = "categories"
    /\ \E next \in {"lists", "failed"} : Goto(i, next)
    /\ UNCHANGED <<loader, got, choices, ui, scripts, cookieVars, requestVars, quiet>>

\* The vendor and cookie lists, whose errors are swallowed (4u), or the
\* translation service, whose failure ends init (3).
LoadRuntimeLists(i) ==
    /\ pc[i] = "lists"
    /\ \E next \in {"consent"} \cup (IF loader = "3" THEN {"failed"} ELSE {}) : Goto(i, next)
    /\ UNCHANGED <<loader, got, choices, ui, scripts, cookieVars, requestVars, quiet>>

\* GET /cmp/consent: the server answers with what it has, with an error, or
\* not at all.
FetchConsent(i) ==
    /\ pc[i] = "consent"
    /\ \/ \E answer \in {stored, None} :
             Goto(i, "answered") /\ got' = [got EXCEPT ![i] = answer]
       \/ Goto(i, "failed") /\ UNCHANGED got
    /\ UNCHANGED <<loader, choices, ui, scripts, cookieVars, requestVars, quiet>>

\* The choices once the answer is in: the server's over those there are, and
\* the defaults for the rest (of the template only, in banner-loader3.js).
SeededChoices(i) ==
    [c \in Cats |->
        IF got[i][c] # "unset" THEN got[i][c]
        ELSE IF choices[c] # "unset" THEN choices[c]
        ELSE IF loader = "3" /\ c \notin StyleCats THEN "unset"
        ELSE IF Defaults[c] THEN "yes" ELSE "no"]

\* Whether the visitor is asked: nothing stored (4u), or a category without
\* an answer or a default (3).
MustAsk(i) ==
    IF loader = "4u" THEN got[i] = None
                     ELSE \E c \in Cats : SeededChoices(i)[c] = "unset"

\* banner-loader3.js stashes the scripts only now.
StashedNow ==
    IF loader = "4u" THEN scripts
    ELSE [c \in Cats |-> CASE scripts[c] = "page" -> "stash"
                           [] scripts[c] = "stash" -> "lost"
                           [] OTHER -> scripts[c]]

\* The rest of init runs without interruption.
FinishInit(i) ==
    /\ pc[i] = "answered"
    /\ Goto(i, "ready")
    /\ choices' = SeededChoices(i)
    /\ hooks' = TRUE
    /\ IF MustAsk(i)
       THEN /\ ui' = [RenderBanner(ui) EXCEPT !.built = TRUE]
            /\ scripts' = StashedNow
            /\ UNCHANGED <<jar, handled>>
       ELSE /\ ui' = [RenderFloatingBtn(ui) EXCEPT !.built = TRUE]
            /\ scripts' = Unblocked(StashedNow, choices')
            /\ ApplyAllowedCookies(choices', hooks)
    /\ known' = IF hooks THEN known ELSE jar'
    /\ quiet' = FALSE
    /\ UNCHANGED <<loader, got, requestVars>>

-----------------------------------------------------------------------------
(* The visitor.                                                            *)

CanChoose == ui.banner \/ ui.prefs

\* What follows a choice: cookies, listeners, the banner away, scripts.
TakeEffect(ch, closes) ==
    /\ ApplyAllowedCookies(ch, hooks)
    /\ ui' = [RemoveBanner(ui) EXCEPT !.prefs = @ /\ ~closes]
    /\ scripts' = Unblocked(scripts, ch)

\* _acceptAll and _rejectAll, from the banner or the preferences: the POST is
\* not awaited.
ChooseAll(answer) ==
    /\ CanChoose
    /\ choices' = [c \in Cats |-> answer]
    /\ SaveConsent("all", choices')
    /\ TakeEffect(choices', TRUE)
    /\ quiet' = NoPost
    /\ UNCHANGED <<loader, pc, got, hooks, known, stored>>

AcceptAll == ChooseAll("yes")
RejectAll == ChooseAll("no")

\* The save button of the preferences or of the inline panel, which has no
\* overlay to close: banner-loader4u.js waits for the answer.
SavePreferences(how) ==
    /\ IF how = "save" THEN ui.prefs ELSE ui.inline /\ ui.banner
    /\ IF loader = "4u"
       THEN SaveConsent(how, choices) /\ UNCHANGED <<ui, scripts, jar, handled>>
       ELSE SaveConsent("all", choices) /\ TakeEffect(choices, TRUE)
    /\ quiet' = NoPost
    /\ UNCHANGED <<loader, pc, got, choices, hooks, known, stored>>

\* A toggle changes the choice at once; nothing is saved.
Toggle(c) ==
    /\ ui.prefs \/ (ui.inline /\ ui.banner)
    /\ loader = "3" => ~Defaults[c]
    /\ choices' = [choices EXCEPT ![c] = IF @ = "yes" THEN "no" ELSE "yes"]
    /\ quiet' = FALSE
    /\ UNCHANGED <<loader, pc, got, ui, scripts, cookieVars, requestVars>>

ShowPreferences ==
    /\ ui.built /\ ~ui.prefs
    /\ ui' = [ui EXCEPT !.prefs = TRUE]
    /\ UNCHANGED <<loader, pc, got, choices, scripts, cookieVars, requestVars, quiet>>

ClosePreferences ==
    /\ ui.prefs
    /\ ui' = [ui EXCEPT !.prefs = FALSE]
    /\ UNCHANGED <<loader, pc, got, choices, scripts, cookieVars, requestVars, quiet>>

CloseBanner ==
    /\ ui.banner
    /\ ui' = RemoveBanner(ui)
    /\ UNCHANGED <<loader, pc, got, choices, scripts, cookieVars, requestVars, quiet>>

FloatingBtnClick ==
    /\ ui.floating
    /\ ui' = RenderBanner(ui)
    /\ quiet' = FALSE
    /\ UNCHANGED <<loader, pc, got, choices, scripts, cookieVars, requestVars>>

\* The visitor reloads: the page starts anew, the requests are on their way
\* or are cancelled.
Reload ==
    /\ \E i \in Inits : pc[i] # "off"
    /\ pc' = [i \in Inits |-> "off"]
    /\ got' = [i \in Inits |-> None]
    /\ choices' = None /\ ui' = NoUi /\ hooks' = FALSE
    /\ scripts' = [c \in Cats |-> "page"]
    /\ handled' = {} /\ known' = {} /\ quiet' = FALSE
    /\ \E cancelled \in SUBSET Slots :
          posts' = [s \in Slots |-> IF posts[s].st # "sent" \/ s \in cancelled THEN FreePost
                                    ELSE [posts[s] EXCEPT !.how = "all"]]
    /\ UNCHANGED <<loader, jar, stored>>

-----------------------------------------------------------------------------
(* The consent server: requests are served in any order, or fail, and the *)
(* answer to one that was served may be lost.                              *)

Serve(s) ==
    /\ posts[s].st = "sent"
    /\ stored' = posts[s].body
    /\ \E st \in {"ok", "failed"} :
          /\ posts' = [posts EXCEPT ![s] = IF @.how = "all" THEN FreePost ELSE [@ EXCEPT !.st = st]]
          /\ quiet' = (quiet /\ st = "ok")
    /\ UNCHANGED <<loader, pc, got, choices, ui, scripts, cookieVars>>

Refuse(s) ==
    /\ posts[s].st = "sent"
    /\ posts' = [posts EXCEPT ![s] = IF @.how = "all" THEN FreePost ELSE [@ EXCEPT !.st = "failed"]]
    /\ quiet' = FALSE
    /\ UNCHANGED <<loader, pc, got, choices, ui, scripts, cookieVars, stored>>

\* The save button goes on when its answer comes; after an error everything
\* stays as it is.
SaveAnswered(s) ==
    /\ posts[s].st \in {"ok", "failed"}
    /\ posts' = [posts EXCEPT ![s] = FreePost]
    /\ IF posts[s].st = "ok" THEN TakeEffect(choices, posts[s].how = "save")
                             ELSE UNCHANGED <<ui, scripts, jar, handled>>
    /\ UNCHANGED <<loader, pc, got, choices, hooks, known, stored, quiet>>

-----------------------------------------------------------------------------
(* Cookies.                                                                *)

\* A script of the page writes a cookie.  The interceptor deletes it when its
\* category is declined, unless it handled that name a moment ago.
WriteCookie(k) ==
    /\ IF hooks /\ k \notin handled
       THEN /\ handled' = handled \cup {k}
            /\ jar' = IF k \in Declined(choices) \ Stuck THEN jar \ {k} ELSE jar \cup {k}
       ELSE jar' = jar \cup {k} /\ UNCHANGED handled
    /\ UNCHANGED <<loader, pc, got, choices, ui, scripts, hooks, known, requestVars, quiet>>

\* A cookie comes with an HTTP answer: no script sees it.
ReceiveCookie(k) ==
    /\ k \notin jar
    /\ jar' = jar \cup {k}
    /\ UNCHANGED <<loader, pc, got, choices, ui, scripts, hooks, handled, known, requestVars, quiet>>

\* 500 ms later a name may be handled again.
ForgetHandled(k) ==
    /\ k \in handled
    /\ handled' = handled \ {k}
    /\ UNCHANGED <<loader, pc, got, choices, ui, scripts, hooks, jar, known, requestVars, quiet>>

\* The monitor's tick looks at the names that were not there at the last one.
MonitorTick ==
    /\ hooks
    /\ LET added == (jar \ known) \cap Declined(choices) IN
       jar' = jar \ (added \ Stuck) /\ handled' = handled \cup added
    /\ known' = jar
    /\ UNCHANGED <<loader, pc, got, choices, ui, scripts, hooks, requestVars, quiet>>

\* The periodic timer, a navigation inside the page, or a page that settles.
\* A navigation also restarts the monitor from the names there are.
Reapply ==
    /\ hooks
    /\ ApplyAllowedCookies(choices, TRUE)
    /\ known' \in {known, jar'}
    /\ UNCHANGED <<loader, pc, got, choices, ui, scripts, hooks, requestVars, quiet>>

-----------------------------------------------------------------------------
Init ==
    /\ loader \in Loaders
    /\ pc = [i \in Inits |-> "off"]
    /\ got = [i \in Inits |-> None]
    /\ choices = None /\ ui = NoUi /\ hooks = FALSE
    /\ scripts = [c \in Cats |-> "page"]
    /\ jar \in SUBSET Cookies /\ handled = {} /\ known = {}
    /\ posts = [s \in Slots |-> FreePost]
    /\ stored = None
    /\ quiet = FALSE

InitStep(i) ==
    \/ StartInit(i) \/ FetchConfig(i) \/ FetchCategories(i)
    \/ LoadRuntimeLists(i) \/ FetchConsent(i) \/ FinishInit(i)

Visitor ==
    \/ AcceptAll \/ RejectAll
    \/ (\E how \in {"save", "inline"} : SavePreferences(how))
    \/ (\E c \in Cats : Toggle(c))
    \/ ShowPreferences \/ ClosePreferences \/ CloseBanner \/ FloatingBtnClick \/ Reload

CookieStep ==
    \/ \E k \in Cookies : WriteCookie(k) \/ ReceiveCookie(k) \/ ForgetHandled(k)
    \/ MonitorTick \/ Reapply

Next ==
    \/ \E i \in Inits : InitStep(i)
    \/ Visitor
    \/ \E s \in Slots : Serve(s) \/ Refuse(s) \/ SaveAnswered(s)
    \/ CookieStep

Spec == Init /\ [][Next]_vars

\* The browser fires the page's timers.  Nothing is asked of the network.
FairSpec == Spec /\ WF_vars(Reapply)

-----------------------------------------------------------------------------
(* Properties.                                                             *)

\* Once banner-loader4u.js is ready the visitor always has one way back to
\* the choices, the banner or the floating button, and never both: whatever
\* is pressed, closed or answered late.
OneHandle == loader = "4u" /\ Ready => (ui.banner # ui.floating)

\* A script that was stashed away runs, is refused by the visitor, or is
\* still in the stash: none disappears.
NoScriptLost == \A c \in Cats : scripts[c] # "lost"

\* A choice that nothing disturbed (no other press, toggle or request, no
\* error) ends in agreement: the server has stored what the page applies, no
\* script waits and, but for those beyond a script's reach, each cookie of a
\* declined category has been deleted since.
ChoiceTakesEffect ==
    quiet /\ NoPost =>
        /\ stored = choices
        /\ ~ui.banner /\ ui.floating
        /\ \A c \in Cats : scripts[c] # "stash"

\* While a category is declined its cookies do not stay, however they come
\* and however often: they are deleted again, until the choice changes or
\* the page goes away.
DeclinedCookiesGo ==
    \A k \in Cookies \ Stuck :
        (hooks /\ k \in Declined(choices) /\ k \in jar)
            ~> (~hooks \/ k \notin Declined(choices) \/ k \notin jar)
=============================================================================
