------------------------------ MODULE Session ------------------------------
(* Who a browser is: the session it stores, the one its page shows, and    *)
(* the preferences of that person (apps/web/src/identity,                  *)
(* SettingsPage.tsx). The page asks and goes on: what it sent is served,   *)
(* and its answer taken, at any later moment. A session is named by its    *)
(* place in signIns. Of the preferences, one stands for all: the Theme.    *)
(* The promise `loading` only saves a second first read and is left out.   *)
EXTENDS Absent, Naturals, Sequences

CONSTANTS
    Accounts, Administrator, Guest,   \* who may sign in, one of them the Administrator
    Themes, DefaultTheme,
    MaxSignIns, MaxSent, MaxAway      \* bounds: sessions, requests, ends and losses

ASSUME SessionAssumption ==
    /\ Administrator \in Accounts /\ Guest \notin Accounts
    /\ DefaultTheme \in Themes
    /\ {MaxSignIns, MaxSent, MaxAway} \subseteq Nat /\ None \notin Nat \cup [ok : BOOLEAN]

VARIABLES
    signIns,   \* the server's sessions: whose, by whom if an Impersonation, live, over
    themes,    \* the server's Theme of each person
    store,     \* what every page of the browser reads: its token, the Administrator's
    shownAs,   \* the page: loading, an error, or whose session it shows and how
    inFlight,  \* requests, sent or served, and how many there have been
    changes,   \* changes of preferences waiting for the one before
    ghost      \* who is to come back, and what may have gone wrong

sessionVars == <<signIns, themes, store, shownAs, inFlight, changes, ghost>>

----------------------------------------------------------------------------
(* The server, as far as one browser sees it.                              *)

Works(t) == signIns[t].live /\ ~signIns[t].over
ByWhom(t) == signIns[t].by
SignedIn(who, by) == [who |-> who, by |-> by, live |-> TRUE, over |-> FALSE]
Ended(t) == [signIns EXCEPT ![t].live = FALSE]
Spare(n) == Len(signIns) + n <= MaxSignIns

Ready(t, theme) == [state |-> "ready", token |-> t, theme |-> theme]
Nobody == Ready(None, DefaultTheme)
IsReady == shownAs.state = "ready" /\ shownAs.token # None
IsAccount == IsReady /\ signIns[shownAs.token].who \in Accounts

\* A request: what for, with which token, and what its closure holds.
Asked(what, token, with) ==
    [id |-> inFlight.asked + 1, what |-> what, token |-> token, with |-> with, mine |-> TRUE, reply |-> None]
SendWith(what, token, with) ==
    /\ inFlight.asked < MaxSent
    /\ inFlight' = [calls |-> inFlight.calls \cup {Asked(what, token, with)}, asked |-> inFlight.asked + 1]
Quietly == inFlight.calls = {} /\ changes = <<>>
Busy(kinds) == \E c \in inFlight.calls : c.mine /\ c.what \in kinds
HandsOver == {"read", "google", "password", "adopt", "join", "impersonate"}
Changing == changes # <<>> \/ Busy({"change"})

\* A session handed over while a change is under way may hold it or not.
Mixed(now) == ghost' = [ghost EXCEPT !.unsure = @ \/ now]

----------------------------------------------------------------------------
(* What the person does.                                                   *)

\* A first read, of the token stored; with none there is nothing to ask.
OpenPage ==
    /\ IF store.token = None
       THEN shownAs' = Nobody /\ inFlight' = [inFlight EXCEPT !.calls = {[c EXCEPT !.mine = FALSE] : c \in @}]
       ELSE /\ inFlight.asked < MaxSent
            /\ shownAs' = [state |-> "loading", token |-> None, theme |-> DefaultTheme]
            /\ inFlight' = [calls |-> {[c EXCEPT !.mine = FALSE] : c \in inFlight.calls}
                                      \cup {Asked("read", store.token, "open")},
                            asked |-> inFlight.asked + 1]
    /\ changes' = <<>>
    /\ Mixed(Changing)
    /\ UNCHANGED <<signIns, themes, store>>

Retry ==
    /\ shownAs.state = "error"
    /\ OpenPage

\* Google's button or a password: the login page is for anyone without an
\* Account. In a Room the Account takes the place of the anonymous identity.
SignInWith(who, how) ==
    /\ shownAs.state = "ready" /\ ~IsAccount /\ ~Busy({"password"}) /\ Spare(1)
    /\ how = "place" => shownAs.token # None
    /\ SendWith(IF how = "password" THEN how ELSE "google", IF how = "place" THEN shownAs.token ELSE None,
                [who |-> who, behind |-> IF how = "place" THEN None ELSE shownAs.token])
    /\ Mixed(Changing)
    /\ UNCHANGED <<signIns, themes, store, shownAs, changes>>

\* An Invitation accepted, or a password reset, signs this browser in.
Adopt(who) ==
    /\ shownAs.state = "ready" /\ ~Busy({"adopt"}) /\ Spare(1)
    /\ SendWith("adopt", None, [who |-> who, behind |-> None])
    /\ Mixed(Changing)
    /\ UNCHANGED <<signIns, themes, store, shownAs, changes>>

JoinAnonymously ==
    /\ shownAs.state = "ready" /\ shownAs.token = None /\ Spare(1)
    /\ ~Busy({"join"}) /\ \A t \in DOMAIN signIns : signIns[t].who # Guest
    /\ SendWith("join", None, [who |-> Guest, behind |-> None])
    /\ Mixed(Changing)
    /\ UNCHANGED <<signIns, themes, store, shownAs, changes>>

StartImpersonation(who) ==
    /\ IsReady /\ signIns[shownAs.token].who = Administrator /\ ByWhom(shownAs.token) = None /\ Spare(1)
    /\ who # Administrator /\ ~Busy({"impersonate"})
    /\ SendWith("impersonate", shownAs.token, [who |-> who, behind |-> None])
    /\ Mixed(Changing)
    /\ UNCHANGED <<signIns, themes, store, shownAs, changes>>

EndSignIn ==
    /\ IsAccount /\ ~Busy({"end"})
    /\ SendWith("end", shownAs.token, "sign-out")
    /\ UNCHANGED <<signIns, themes, store, shownAs, changes, ghost>>

\* The banner's button, or the hour is over. One after the other finds the
\* Administrator's token gone: asking is remembered.
StopImpersonating ==
    /\ IsReady /\ ByWhom(shownAs.token) # None
    /\ ~Busy({"end"}) \/ signIns[shownAs.token].over
    /\ SendWith("end", shownAs.token, "stop")
    /\ ghost' = [ghost EXCEPT !.twice = @ \/ ghost.stopped = shownAs.token, !.stopped = shownAs.token]
    /\ UNCHANGED <<signIns, themes, store, shownAs, changes>>

\* Its Room closed: the page is told and forgets the identity that ended.
ForgetEnded ==
    /\ IsReady /\ signIns[shownAs.token].who = Guest /\ ~signIns[shownAs.token].live
    /\ store' = [store EXCEPT !.token = None]
    /\ shownAs' = Nobody
    /\ Mixed(Changing)
    /\ UNCHANGED <<signIns, themes, inFlight, changes>>

\* Applied at once; sent when every change before it has settled.
ChangePreferences(theme) ==
    /\ IsReady /\ theme # shownAs.theme
    /\ inFlight.asked + Len(changes) < MaxSent
    /\ changes' = Append(changes, [token |-> shownAs.token, theme |-> theme, before |-> shownAs.theme])
    /\ shownAs' = [shownAs EXCEPT !.theme = theme]
    /\ Mixed(Busy(HandsOver))
    /\ UNCHANGED <<signIns, themes, store, inFlight>>

SendChange_AtOnce ==
    /\ changes # <<>>
    /\ SendWith("change", Head(changes).token, Head(changes))
    /\ changes' = Tail(changes)
    /\ UNCHANGED <<signIns, themes, store, shownAs, ghost>>
SendChange ==
    /\ changes # <<>> /\ ~Busy({"change"})
    /\ SendWith("change", Head(changes).token, Head(changes))
    /\ changes' = Tail(changes)
    /\ UNCHANGED <<signIns, themes, store, shownAs, ghost>>

----------------------------------------------------------------------------
(* The server's part of each request.                                      *)

Reply(c, what) == inFlight' = [inFlight EXCEPT !.calls = (@ \ {c}) \cup {[c EXCEPT !.reply = what]}]

\* The Preferences an identity has, and with some of them changed.
PreferencesOf(t) == themes[signIns[t].who]
WithChanged(t, theme) == [themes EXCEPT ![signIns[t].who] = theme]

Answers(c) ==
    /\ c.reply = None
    /\ \/ /\ c.what = "read"
          /\ Reply(c, IF Works(c.token) THEN [ok |-> TRUE, theme |-> PreferencesOf(c.token)] ELSE [ok |-> FALSE])
          /\ UNCHANGED <<signIns, themes>>
       \/ /\ c.what = "end"
          /\ Reply(c, [ok |-> TRUE])   \* already over is all the same to the page
          /\ signIns' = Ended(c.token)
          /\ UNCHANGED themes
       \/ /\ c.what = "change"
          /\ Reply(c, [ok |-> Works(c.token)])
          /\ themes' = IF Works(c.token) THEN WithChanged(c.token, c.with.theme) ELSE themes
          /\ UNCHANGED signIns
       \/ /\ c.what \in {"google", "password", "adopt", "join", "impersonate"} /\ Spare(1)
          /\ c.what = "join" => \A t \in DOMAIN signIns : signIns[t].who # Guest   \* one Guest at most
          /\ IF c.what = "impersonate" /\ ~Works(c.token)
             THEN Reply(c, [ok |-> FALSE]) /\ UNCHANGED <<signIns, themes>>
             ELSE /\ signIns' = Append(IF c.what = "google" /\ c.token # None THEN Ended(c.token) ELSE signIns,
                                       SignedIn(c.with.who, IF c.what = "impersonate" THEN c.token ELSE None))
                  /\ themes' = IF c.what = "join" THEN [themes EXCEPT ![Guest] = DefaultTheme] ELSE themes
                  /\ Reply(c, [ok |-> TRUE, token |-> Len(signIns) + 1, theme |-> themes'[c.with.who]])
    /\ UNCHANGED <<store, shownAs, changes, ghost>>

\* Elsewhere: a session ends (signed out, reset, suspended, its Room closed)
\* or an Impersonation's hour passes.
EndElsewhere(t) ==
    /\ ghost.away < MaxAway /\ signIns[t].live
    /\ \/ ByWhom(t) = None /\ signIns' = Ended(t)
       \/ ByWhom(t) # None /\ ~signIns[t].over /\ signIns' = [signIns EXCEPT ![t].over = TRUE]
    /\ ghost' = [ghost EXCEPT !.away = @ + 1]
    /\ UNCHANGED <<themes, store, shownAs, inFlight, changes>>

----------------------------------------------------------------------------
(* What the page makes of an answer. The read of a token no longer known   *)
(* forgets it and goes back to the Administrator's own, if one is kept.    *)

Without(c) == [inFlight EXCEPT !.calls = @ \ {c}]

FetchSession_Forgets(c) ==
    /\ shownAs' = IF c.reply.ok THEN Ready(c.token, c.reply.theme) ELSE Nobody
    /\ store' = IF c.reply.ok THEN store ELSE [store EXCEPT !.token = None]
    /\ inFlight' = Without(c)
FetchSession(c) ==
    IF c.reply.ok THEN shownAs' = Ready(c.token, c.reply.theme) /\ inFlight' = Without(c) /\ UNCHANGED store
    ELSE IF store.administrator = None
    THEN store' = [store EXCEPT !.token = None] /\ shownAs' = Nobody /\ inFlight' = Without(c)
    ELSE /\ store' = [token |-> store.administrator, administrator |-> None]
         /\ inFlight' = [Without(c) EXCEPT !.calls = @ \cup {[c EXCEPT !.token = store.administrator, !.reply = None]}]
         /\ UNCHANGED shownAs

\* The session handed over is the browser's own from now on; the one it left
\* behind is ended in the background.
KeepSession(c) ==
    /\ store' = [token |-> c.reply.token,
                 administrator |-> IF c.what = "impersonate" THEN c.token ELSE store.administrator]
    /\ shownAs' = Ready(c.reply.token, c.reply.theme)
    /\ inFlight' = IF c.with.behind = None THEN Without(c)
                   ELSE [Without(c) EXCEPT !.calls = @ \cup {[c EXCEPT !.what = "end", !.token = c.with.behind,
                                                                       !.with = "behind", !.reply = None]}]

\* Whatever token is stored by then goes, the one it ended or another.
EndSession(c) ==
    /\ store' = [store EXCEPT !.token = None]
    /\ shownAs' = IF c.with = "sign-out" THEN Nobody ELSE shownAs
    /\ inFlight' = Without(c)

\* Back to the Administrator's own token, and to whoever it belongs to.
EndImpersonation(c) ==
    /\ store' = [token |-> store.administrator, administrator |-> None]
    /\ IF store.administrator = None THEN shownAs' = Nobody /\ inFlight' = Without(c)
       ELSE /\ inFlight' = [Without(c) EXCEPT !.calls = @ \cup {[c EXCEPT !.what = "read", !.token = store.administrator,
                                                                          !.with = "stop", !.reply = None]}]
            /\ UNCHANGED shownAs

\* A refusal puts it back to what it was, unless something changed it again.
Revert(c) ==
    /\ shownAs' = IF ~c.reply.ok /\ IsReady /\ shownAs.theme = c.with.theme
                  THEN [shownAs EXCEPT !.theme = c.with.before] ELSE shownAs
    /\ inFlight' = Without(c)
    /\ UNCHANGED store

\* A change refused while another waits, or once someone else is shown, may
\* leave on screen what the server never kept.
Crossed(c) ==
    c.what = "change" /\ ~c.reply.ok /\ (changes # <<>> \/ shownAs.token # c.with.token)

TakesAnswer(c) ==
    /\ c.reply # None
    /\ IF ~c.mine THEN inFlight' = Without(c) /\ UNCHANGED <<store, shownAs, ghost>>
       ELSE /\ CASE c.what = "read" -> FetchSession(c)
                 [] c.what = "end" -> IF c.with = "stop" THEN EndImpersonation(c) ELSE EndSession(c)
                 [] c.what = "change" -> Revert(c)
                 [] OTHER -> IF c.reply.ok THEN KeepSession(c) ELSE inFlight' = Without(c) /\ UNCHANGED <<store, shownAs>>
            /\ ghost' = [ghost EXCEPT
                   !.comesBack = IF c.what = "impersonate" /\ c.reply.ok THEN c.token
                                 ELSE IF c.what \in {"google", "password", "adopt", "join"}
                                         \/ (c.what = "end" /\ c.with = "sign-out") THEN None ELSE @,
                   !.late = IF c.what = "impersonate" /\ c.reply.ok THEN FALSE
                            ELSE @ \/ (c.what \in {"read", "end"} /\ c.token # store.token),
                   !.unsure = @ \/ Crossed(c) \/ (c.what # "change" /\ Changing)]
    /\ UNCHANGED <<signIns, themes, changes>>

\* The network fails it, before or after the server's part. The page says so
\* and stays as it was; a first read becomes an error with a way to retry.
LoseCall(c) ==
    /\ ghost.away < MaxAway
    /\ inFlight' = Without(c)
    /\ shownAs' = IF ~c.mine THEN shownAs
                  ELSE IF c.what = "read" /\ c.with = "open" THEN [shownAs EXCEPT !.state = "error"]
                  ELSE IF c.what = "change" /\ IsReady /\ shownAs.theme = c.with.theme
                       THEN [shownAs EXCEPT !.theme = c.with.before] ELSE shownAs
    /\ ghost' = [ghost EXCEPT !.away = @ + 1,
                              !.unsure = @ \/ (c.what = "change" /\ (c.reply # None \/ Crossed([c EXCEPT !.reply = [ok |-> FALSE]])))]
    /\ UNCHANGED <<signIns, themes, store, changes>>

----------------------------------------------------------------------------
SessionInit ==
    /\ themes = [p \in Accounts \cup {Guest} |-> DefaultTheme]
    /\ \E who \in Accounts \cup {Guest} : signIns = <<SignedIn(who, None)>>
    /\ store = [token |-> 1, administrator |-> None]
    /\ shownAs = Ready(1, DefaultTheme)
    /\ inFlight = [calls |-> {}, asked |-> 0]
    /\ changes = <<>>
    /\ ghost = [comesBack |-> None, stopped |-> None, twice |-> FALSE, late |-> FALSE, unsure |-> FALSE, away |-> 0]

SessionNext ==
    \/ OpenPage \/ Retry \/ JoinAnonymously \/ EndSignIn \/ StopImpersonating \/ ForgetEnded \/ SendChange
    \/ \E who \in Accounts : Adopt(who) \/ StartImpersonation(who) \/ \E how \in {"google", "place", "password"} : SignInWith(who, how)
    \/ \E theme \in Themes : ChangePreferences(theme)
    \/ \E c \in inFlight.calls : Answers(c) \/ TakesAnswer(c) \/ LoseCall(c)
    \/ \E t \in DOMAIN signIns : EndElsewhere(t)

SessionSpec == SessionInit /\ [][SessionNext]_sessionVars

----------------------------------------------------------------------------
Ways(t) == {t} \cup {i \in DOMAIN signIns : ByWhom(i) = t}

(* An Impersonation always leads back: with nothing under way, the page of *)
(* an Administrator whose own Sign-in still works shows it or the          *)
(* Impersonation, and the browser keeps the way to it. It may not once an  *)
(* answer came about another session than the one stored by then: the way  *)
(* out asked for twice, a read or the end of a session left meanwhile.     *)
LeadsBack ==
    (/\ shownAs # None /\ Quietly /\ shownAs.state = "ready" /\ ghost.comesBack # None /\ ~ghost.late)
        => \/ /\ shownAs.token \in Ways(ghost.comesBack) /\ store.token \in Ways(ghost.comesBack)
              /\ store.token # ghost.comesBack => store.administrator = ghost.comesBack
           \/ ~Works(ghost.comesBack)

(* Changes reach the server in the order they were made: once all are      *)
(* answered the page shows what the server keeps, for a change refused     *)
(* too, unless another had been made meanwhile.                            *)
ShowsWhatIsKept ==
    (shownAs # None /\ Quietly /\ IsReady /\ ~ghost.unsure /\ Works(shownAs.token))
        => shownAs.theme = themes[signIns[shownAs.token].who]

(* A session the server has just handed this browser is its own from now   *)
(* on: with nothing under way, the session the page shows is the one the   *)
(* next page will find.                                                    *)
SignInKept ==
    (shownAs # None /\ Quietly /\ IsReady /\ Works(shownAs.token) /\ ~ghost.twice) => store.token = shownAs.token
=============================================================================
