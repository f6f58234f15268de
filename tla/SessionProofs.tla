---------------------------- MODULE SessionProofs ----------------------------
(***************************************************************************)
(* A browser's session: the way back from an Impersonation, and the        *)
(* Preferences it shows, for any number of sessions and requests.          *)
(*                                                                         *)
(* Both are about a browser with nothing under way, and rest on what each  *)
(* request under way may still bring: what its token is and, once it is    *)
(* answered, what the answer says (CallOK).  LeadsBack follows as an       *)
(* answer about the session stored leads to another way back (BackOK).     *)
(* ShowsWhatIsKept follows as the changes under way are a chain, from what *)
(* the server keeps to what the page shows (ChainOK).                      *)
(***************************************************************************)
EXTENDS Session, TLAPS

People  == Accounts \cup {Guest}
Token   == Nat \cup {None}
SignIn  == [who : People, by : Token, live : BOOLEAN, over : BOOLEAN]
Page    == [state : {"loading", "ready", "error"}, token : Token, theme : Themes]
PrefChange == [token : Token, theme : Themes, before : Themes]
Ghost   == [comesBack : Token, stopped : Token, twice : BOOLEAN, late : BOOLEAN,
            unsure : BOOLEAN, away : Nat]

(* What a request is for, what it holds and what it is answered.           *)
Handing == {"google", "password", "adopt", "join", "impersonate"}
With    == {"open", "stop", "sign-out", "behind"}
           \cup [who : People, behind : Token] \cup PrefChange
Answer  == [ok : BOOLEAN] \cup [ok : {TRUE}, theme : Themes]
           \cup [ok : {TRUE}, token : Nat, theme : Themes]
Call    == [id : Nat, what : Handing \cup {"read", "end", "change"}, token : Token,
            with : With, mine : BOOLEAN, reply : Answer \cup {None}]

WorksIn(s, t) == s[t].live /\ ~s[t].over

(* A request, among the sessions s there are by now.                       *)
CallOK(c, s) ==
    /\ c.what \in Handing =>
         /\ c.with \in [who : People, behind : Token]
         /\ c.what = "google" /\ c.token # None => c.token \in DOMAIN s
         /\ c.with.behind # None => /\ c.what \in {"google", "password"}
                                    /\ c.with.behind \in DOMAIN s /\ s[c.with.behind].who = Guest
         /\ c.what = "impersonate" =>
              /\ c.token \in DOMAIN s /\ c.with.who \in Accounts
              /\ s[c.token].who = Administrator /\ s[c.token].by = None
         /\ c.reply # None => c.reply.ok \in BOOLEAN
         /\ c.reply # None /\ c.reply.ok =>
              /\ c.reply.token \in DOMAIN s /\ c.reply.theme \in Themes
              /\ s[c.reply.token].who = c.with.who
              /\ c.what = "impersonate" => s[c.reply.token].by = c.token
    /\ c.what = "read" =>
         /\ c.token \in DOMAIN s /\ c.with \in {"open", "stop"}
         /\ c.reply # None => /\ c.reply.ok \in BOOLEAN
                              /\ c.reply.ok => c.reply.theme \in Themes
                              /\ ~c.reply.ok => ~WorksIn(s, c.token)
    /\ c.what = "end" =>
         /\ c.token \in DOMAIN s /\ c.with \in {"stop", "sign-out", "behind"}
         /\ c.with = "behind" => s[c.token].who = Guest
         /\ c.with = "stop" => s[c.token].by # None
    /\ c.what = "change" =>
         /\ c.with \in PrefChange /\ c.token = c.with.token /\ c.token \in DOMAIN s
         /\ c.reply # None => /\ c.reply.ok \in BOOLEAN
                              /\ ~c.reply.ok => ~WorksIn(s, c.token)

Known(t, s) == t # None => t \in DOMAIN s

Typed ==
    /\ signIns \in Seq(SignIn)
    /\ \A t \in DOMAIN signIns : ByWhom(t) # None => signIns[t].who \in Accounts
    /\ themes \in [People -> Themes]
    /\ store \in [token : Token, administrator : Token]
    /\ Known(store.token, signIns) /\ Known(store.administrator, signIns)
    /\ shownAs \in Page /\ Known(shownAs.token, signIns)
    /\ inFlight \in [calls : SUBSET Call, asked : Nat]
    /\ \A c \in inFlight.calls : CallOK(c, signIns)
    /\ changes \in Seq(PrefChange)
    /\ \A i \in DOMAIN changes : changes[i].token \in DOMAIN signIns
    /\ ghost \in Ghost

(* Where the browser stands on the way back to the Administrator's a.      *)
WayBack(a, s, st, page) ==
    /\ \/ st.token = a /\ st.administrator = None
       \/ st.token \in DOMAIN s /\ s[st.token].by = a /\ st.administrator = a
    /\ page.state = "ready" => page.token = a \/ (page.token \in DOMAIN s /\ s[page.token].by = a)

BackOK(s, st, page, g) ==
    g.comesBack # None =>
      LET a == g.comesBack IN
      /\ a \in DOMAIN s /\ s[a].who = Administrator /\ s[a].by = None
      /\ g.late \/ ~WorksIn(s, a) \/ WayBack(a, s, st, page)

(* The changes lead from the Theme x to the Theme y.                       *)
Leads(queue, x, y) ==
    /\ queue = <<>> => x = y
    /\ queue # <<>> => queue[1].before = x /\ queue[Len(queue)].theme = y
    /\ \A i \in 1 .. (Len(queue) - 1) : queue[i].theme = queue[i + 1].before

ChangesUnder(calls) == {c \in calls : c.what = "change"}

(* From what the server keeps to what the page shows.                      *)
ChainOK(s, th, page, calls, queue) ==
    (page.token # None /\ WorksIn(s, page.token)) =>
      LET kept == th[s[page.token].who] IN
      /\ ChangesUnder(calls) = {} => Leads(queue, kept, page.theme)
      /\ \A c \in ChangesUnder(calls) :
           /\ Leads(queue, c.with.theme, page.theme)
           /\ c.reply = None => kept = c.with.before
           /\ c.reply # None => kept = c.with.theme

(* An answer that hands a session over has the Theme the server keeps.     *)
HandedOK(c, s, th) ==
    (c.mine /\ c.what \in HandsOver /\ c.reply # None /\ c.reply.ok) =>
        c.reply.theme = th[s[IF c.what = "read" THEN c.token ELSE c.reply.token].who]

KeptOK(s, th, page, calls, queue) ==
    /\ \A c \in ChangesUnder(calls) : c.mine /\ c.token = page.token
    /\ \A c, d \in ChangesUnder(calls) : c = d
    /\ \A i \in DOMAIN queue : queue[i].token = page.token
    /\ (ChangesUnder(calls) # {} \/ queue # <<>>) =>
         /\ page.state = "ready"
         /\ ~ \E c \in calls : c.mine /\ c.what \in HandsOver
    /\ \A c \in calls : HandedOK(c, s, th)
    /\ ChainOK(s, th, page, calls, queue)

Back == BackOK(signIns, store, shownAs, ghost)
Kept == ~ghost.unsure => KeptOK(signIns, themes, shownAs, inFlight.calls, changes)
IInv == Typed /\ Back /\ Kept

-----------------------------------------------------------------------------
(* What a step does to the sessions there are: they only stop working.     *)
Grows(s, s2) ==
    /\ DOMAIN s \subseteq DOMAIN s2
    /\ \A t \in DOMAIN s : /\ s2[t].who = s[t].who /\ s2[t].by = s[t].by
                           /\ WorksIn(s2, t) => WorksIn(s, t)

LEMMA SameGrows == \A s : Grows(s, s)
BY DEF Grows

LEMMA EndedGrows ==
    ASSUME NEW s \in Seq(SignIn), NEW t
    PROVE  LET s2 == [s EXCEPT ![t].live = FALSE] IN
           /\ s2 \in Seq(SignIn) /\ Len(s2) = Len(s) /\ Grows(s, s2)
           /\ t \in DOMAIN s => ~WorksIn(s2, t)
<1> DEFINE s2 == [s EXCEPT ![t].live = FALSE]
<1>1. s \in [1 .. Len(s) -> SignIn] /\ Len(s) \in Nat
  OBVIOUS
<1>2. \A u \in 1 .. Len(s) : s2[u] = IF u = t THEN [s[u] EXCEPT !.live = FALSE] ELSE s[u]
  BY <1>1
<1>3. \A u \in 1 .. Len(s) : s2[u] \in SignIn /\ s2[u].who = s[u].who /\ s2[u].by = s[u].by
                             /\ s2[u].over = s[u].over
                             /\ s2[u].live = IF u = t THEN FALSE ELSE s[u].live
  BY <1>1, <1>2 DEF SignIn
<1>4. s2 \in [1 .. Len(s) -> SignIn]
  BY <1>1, <1>3
<1>5. s2 \in Seq(SignIn) /\ Len(s2) = Len(s)
  BY <1>1, <1>4
<1> HIDE DEF s2
<1>6. Grows(s, s2)
  BY <1>1, <1>3, <1>4 DEF Grows, WorksIn
<1> QED  BY <1>1, <1>3, <1>5, <1>6 DEF s2, WorksIn

LEMMA OverGrows ==
    ASSUME NEW s \in Seq(SignIn), NEW t
    PROVE  LET s2 == [s EXCEPT ![t].over = TRUE] IN
           s2 \in Seq(SignIn) /\ Len(s2) = Len(s) /\ Grows(s, s2)
<1> DEFINE s2 == [s EXCEPT ![t].over = TRUE]
<1>1. s \in [1 .. Len(s) -> SignIn] /\ Len(s) \in Nat
  OBVIOUS
<1>2. \A u \in 1 .. Len(s) : s2[u] = IF u = t THEN [s[u] EXCEPT !.over = TRUE] ELSE s[u]
  BY <1>1
<1>3. \A u \in 1 .. Len(s) : s2[u] \in SignIn /\ s2[u].who = s[u].who /\ s2[u].by = s[u].by
                             /\ s2[u].live = s[u].live
                             /\ s2[u].over = IF u = t THEN TRUE ELSE s[u].over
  BY <1>1, <1>2 DEF SignIn
<1>4. s2 \in [1 .. Len(s) -> SignIn]
  BY <1>1, <1>3
<1>5. s2 \in Seq(SignIn) /\ Len(s2) = Len(s)
  BY <1>1, <1>4
<1> HIDE DEF s2
<1>6. Grows(s, s2)
  BY <1>1, <1>3, <1>4 DEF Grows, WorksIn
<1> QED  BY <1>5, <1>6 DEF s2

LEMMA AddedGrows ==
    ASSUME NEW s \in Seq(SignIn), NEW x \in SignIn
    PROVE  LET s2 == Append(s, x) IN
           /\ s2 \in Seq(SignIn) /\ Len(s2) = Len(s) + 1 /\ Grows(s, s2)
           /\ s2[Len(s) + 1] = x /\ Len(s) + 1 \in DOMAIN s2
           /\ \A t \in DOMAIN s2 : t = Len(s) + 1 \/ (t \in DOMAIN s /\ s2[t] = s[t])
BY DEF Grows, WorksIn

LEMMA GrowsOn ==
    ASSUME NEW s, NEW s2, NEW s3, Grows(s, s2), Grows(s2, s3)
    PROVE  Grows(s, s3)
BY DEF Grows

(* What is known of a request stays so.                                    *)
LEMMA OldCall ==
    ASSUME NEW s, NEW s2, Grows(s, s2), NEW c, CallOK(c, s)
    PROVE  CallOK(c, s2)
<1>1. /\ \A t : t \in DOMAIN s => t \in DOMAIN s2
      /\ \A t \in DOMAIN s : /\ s2[t].who = s[t].who /\ s2[t].by = s[t].by
                             /\ WorksIn(s2, t) => WorksIn(s, t)
  BY DEF Grows
<1>2. CASE c.what \in Handing
  <2>1. c.what \notin {"read", "end", "change"}
    BY <1>2 DEF Handing
  <2> QED  BY <1>1, <1>2, <2>1 DEF CallOK
<1>3. CASE c.what = "read"
  BY <1>1, <1>3 DEF CallOK, Handing
<1>4. CASE c.what = "end"
  BY <1>1, <1>4 DEF CallOK, Handing
<1>5. CASE c.what = "change"
  BY <1>1, <1>5 DEF CallOK, Handing
<1>6. CASE c.what \notin Handing \cup {"read", "end", "change"}
  BY <1>6 DEF CallOK
<1> QED  BY <1>2, <1>3, <1>4, <1>5, <1>6

LEMMA StillKnown ==
    ASSUME NEW s, NEW s2, Grows(s, s2), NEW t, Known(t, s)
    PROVE  Known(t, s2)
BY DEF Grows, Known

(* The way back is still there as long as nobody leaves it.                *)
LEMMA BackStays ==
    ASSUME NEW s, NEW s2, Grows(s, s2), NEW st, NEW page, NEW page2, NEW g, NEW g2,
           BackOK(s, st, page, g), g2.comesBack = g.comesBack, g2.late = g.late,
           page2.state = "ready" => page.state = "ready" /\ page2.token = page.token
    PROVE  BackOK(s2, st, page2, g2)
BY DEF BackOK, WayBack, Grows

(* So are the changes, and what is handed over, where the Themes stay.     *)
LEMMA HandedStays ==
    ASSUME NEW s, NEW s2, Grows(s, s2), NEW th, NEW c, CallOK(c, s), HandedOK(c, s, th)
    PROVE  HandedOK(c, s2, th)
<1>1. CASE c.what = "read"
  BY <1>1 DEF CallOK, HandedOK, Grows
<1>2. CASE c.what \in Handing
  BY <1>2 DEF CallOK, HandedOK, Grows, Handing
<1>3. CASE c.what \notin Handing \cup {"read"}
  BY <1>3 DEF HandedOK, Handing, HandsOver
<1> QED  BY <1>1, <1>2, <1>3

LEMMA KeptStays ==
    ASSUME NEW s, NEW s2, Grows(s, s2), NEW th, NEW page, Known(page.token, s), NEW calls,
           \A c \in calls : CallOK(c, s), NEW queue, KeptOK(s, th, page, calls, queue)
    PROVE  KeptOK(s2, th, page, calls, queue)
<1>1. \A c \in calls : HandedOK(c, s2, th)
  BY HandedStays DEF KeptOK
<1>2. page.token # None => page.token \in DOMAIN s
  BY DEF Known
<1>3. page.token # None /\ WorksIn(s2, page.token) =>
        WorksIn(s, page.token) /\ s2[page.token].who = s[page.token].who
  BY <1>2 DEF Grows
<1>4. ChainOK(s2, th, page, calls, queue)
  BY <1>3 DEF ChainOK, KeptOK
<1> QED  BY <1>1, <1>4 DEF KeptOK

(* Requests that come and go, but for the changes.                         *)
LEMMA CallsKept ==
    ASSUME NEW s, NEW th, NEW page, NEW calls, NEW queue, KeptOK(s, th, page, calls, queue),
           NEW calls2, ChangesUnder(calls2) = ChangesUnder(calls),
           \A c \in calls2 : \/ c \in calls
                             \/ /\ HandedOK(c, s, th)
                                /\ c.mine /\ c.what \in HandsOver =>
                                     ChangesUnder(calls) = {} /\ queue = <<>>
    PROVE  KeptOK(s, th, page, calls2, queue)
<1>1. \A c \in calls2 : HandedOK(c, s, th)
  BY DEF KeptOK
<1>2. (ChangesUnder(calls2) # {} \/ queue # <<>>) =>
        page.state = "ready" /\ ~ \E c \in calls2 : c.mine /\ c.what \in HandsOver
  BY DEF KeptOK
<1>3. ChainOK(s, th, page, calls2, queue)
  BY DEF KeptOK, ChainOK
<1> QED  BY <1>1, <1>2, <1>3 DEF KeptOK

(* With no change under way, it is what the page shows that counts.        *)
LEMMA NoneUnder ==
    ASSUME NEW s, NEW th, NEW page, NEW calls, ChangesUnder(calls) = {},
           \A c \in calls : HandedOK(c, s, th),
           page.token # None /\ WorksIn(s, page.token) => th[s[page.token].who] = page.theme
    PROVE  KeptOK(s, th, page, calls, <<>>)
<1>1. Leads(<<>>, page.theme, page.theme)
  <2>1. Len(<<>>) = 0 /\ 1 .. (0 - 1) = {}
    OBVIOUS
  <2> QED  BY <2>1 DEF Leads
<1> QED  BY <1>1 DEF KeptOK, ChainOK

LEMMA MixedIs ==
    ASSUME ghost \in Ghost, NEW now \in BOOLEAN, Mixed(now)
    PROVE  /\ ghost' \in Ghost /\ ghost'.comesBack = ghost.comesBack /\ ghost'.late = ghost.late
           /\ ~ghost'.unsure => ~ghost.unsure /\ ~now
BY DEF Mixed, Ghost

(* Changing, where it is known whose the changes are.                      *)
LEMMA NotChanging ==
    ASSUME ~Changing, NEW s, NEW th, NEW page, KeptOK(s, th, page, inFlight.calls, changes)
    PROVE  ChangesUnder(inFlight.calls) = {} /\ changes = <<>>
BY DEF Changing, Busy, KeptOK, ChangesUnder

-----------------------------------------------------------------------------
(* What the person does.                                                   *)

LEMMA AskedIs ==
    ASSUME inFlight.asked \in Nat, NEW what \in Handing \cup {"read", "end", "change"},
           NEW token \in Token, NEW with \in With
    PROVE  LET c == Asked(what, token, with) IN
           /\ c \in Call /\ c.what = what /\ c.token = token /\ c.with = with
           /\ c.mine /\ c.reply = None
BY DEF Asked, Call

LEMMA HandingAsked ==
    ASSUME inFlight.asked \in Nat, NEW what \in Handing, NEW token \in Token,
           NEW with \in [who : People, behind : Token], NEW s,
           what = "google" /\ token # None => token \in DOMAIN s,
           with.behind # None => /\ what \in {"google", "password"}
                                 /\ with.behind \in DOMAIN s /\ s[with.behind].who = Guest,
           what = "impersonate" => /\ token \in DOMAIN s /\ with.who \in Accounts
                                   /\ s[token].who = Administrator /\ s[token].by = None
    PROVE  CallOK(Asked(what, token, with), s)
<1> DEFINE c == Asked(what, token, with)
<1>1. c.what = what /\ c.token = token /\ c.with = with /\ c.reply = None
  <2>1. with \in With /\ what \in Handing \cup {"read", "end", "change"}
    BY DEF With
  <2> QED  BY <2>1, AskedIs
<1> HIDE DEF c
<1>2. what \notin {"read", "end", "change"}
  BY DEF Handing
<1>3. CallOK(c, s)
  BY <1>1, <1>2 DEF CallOK
<1> QED  BY <1>3 DEF c

LEMMA SentTyped ==
    ASSUME Typed, NEW what \in Handing \cup {"read", "end", "change"}, NEW token \in Token,
           NEW with \in With, SendWith(what, token, with),
           CallOK(Asked(what, token, with), signIns),
           UNCHANGED <<signIns, themes, store, shownAs>>, ghost' \in Ghost,
           changes' \in Seq(PrefChange),
           \A i \in DOMAIN changes' : changes'[i].token \in DOMAIN signIns
    PROVE  Typed'
<1>1. inFlight \in [calls : SUBSET Call, asked : Nat]
  BY DEF Typed
<1>2. Asked(what, token, with) \in Call
  BY <1>1, AskedIs
<1>3. /\ inFlight' \in [calls : SUBSET Call, asked : Nat]
      /\ inFlight'.calls = inFlight.calls \cup {Asked(what, token, with)}
  BY <1>1, <1>2 DEF SendWith
<1>4. \A c \in inFlight'.calls : CallOK(c, signIns')
  BY <1>3 DEF Typed
<1> QED  BY <1>3, <1>4 DEF Typed, ByWhom

LEMMA SentKept ==
    ASSUME IInv, NEW what \in Handing \cup {"read", "end"}, NEW token \in Token,
           NEW with \in With, SendWith(what, token, with),
           UNCHANGED <<signIns, themes, store, shownAs, changes>>,
           ghost'.comesBack = ghost.comesBack, ghost'.late = ghost.late,
           ~ghost'.unsure => ~ghost.unsure /\ (what \in HandsOver => ~Changing)
    PROVE  Back' /\ Kept'
<1> DEFINE new == Asked(what, token, with)
<1>1. inFlight \in [calls : SUBSET Call, asked : Nat]
  BY DEF IInv, Typed
<1>2. new.what = what /\ new.reply = None /\ what # "change"
  BY <1>1, AskedIs DEF Handing
<1>3. inFlight'.calls = inFlight.calls \cup {new}
  BY <1>1 DEF SendWith
<1> HIDE DEF new
<1>4. Back'
  BY SameGrows, BackStays DEF IInv, Back
<1>5. ASSUME ~ghost'.unsure
      PROVE  KeptOK(signIns, themes, shownAs, inFlight'.calls, changes)
  <2>1. KeptOK(signIns, themes, shownAs, inFlight.calls, changes)
    BY <1>5 DEF IInv, Kept
  <2>2. ChangesUnder(inFlight'.calls) = ChangesUnder(inFlight.calls)
    BY <1>2, <1>3 DEF ChangesUnder
  <2>3. HandedOK(new, signIns, themes)
    BY <1>2 DEF HandedOK
  <2>4. new.what \in HandsOver => ChangesUnder(inFlight.calls) = {} /\ changes = <<>>
    BY <1>2, <1>5, <2>1, NotChanging
  <2> QED  BY <1>3, <2>1, <2>2, <2>3, <2>4, CallsKept
<1>6. Kept'
  BY <1>5 DEF Kept
<1> QED  BY <1>4, <1>6

LEMMA HandOverAsked ==
    ASSUME IInv,
           \/ \E who \in Accounts : \/ Adopt(who) \/ StartImpersonation(who)
                                    \/ \E how \in {"google", "place", "password"} : SignInWith(who, how)
           \/ JoinAnonymously
    PROVE  IInv'
<1>1. /\ ghost \in Ghost /\ shownAs \in Page /\ Known(shownAs.token, signIns)
      /\ signIns \in Seq(SignIn) /\ inFlight.asked \in Nat
      /\ changes \in Seq(PrefChange)
      /\ \A i \in DOMAIN changes : changes[i].token \in DOMAIN signIns
  BY DEF IInv, Typed
<1>2. Changing \in BOOLEAN
  BY DEF Changing, Busy
<1>3. SUFFICES ASSUME NEW what \in Handing, NEW token \in Token,
                      NEW with \in [who : People, behind : Token],
                      SendWith(what, token, with), CallOK(Asked(what, token, with), signIns),
                      UNCHANGED <<signIns, themes, store, shownAs, changes>>, Mixed(Changing)
               PROVE  IInv'
  <2>1. ASSUME NEW who \in Accounts, Adopt(who)  PROVE IInv'
    <3> DEFINE with == [who |-> who, behind |-> None]
    <3>1. with \in [who : People, behind : Token]
      BY DEF People, Token
    <3>2. CallOK(Asked("adopt", None, with), signIns)
      <4>1. with.behind = None /\ "adopt" \in Handing /\ None \in Token
        BY DEF Handing, Token
      <4> QED  BY <1>1, <3>1, <4>1, HandingAsked
    <3> QED  BY <1>3, <2>1, <3>1, <3>2 DEF Adopt, Handing, Token
  <2>2. ASSUME NEW who \in Accounts, StartImpersonation(who)  PROVE IInv'
    <3> DEFINE with == [who |-> who, behind |-> None]
    <3>1. with \in [who : People, behind : Token]
      BY DEF People, Token
    <3>2. /\ shownAs.token \in Token /\ shownAs.token \in DOMAIN signIns
          /\ signIns[shownAs.token].who = Administrator /\ signIns[shownAs.token].by = None
      BY <1>1, <2>2 DEF StartImpersonation, IsReady, Known, ByWhom, Page
    <3>3. CallOK(Asked("impersonate", shownAs.token, with), signIns)
      <4>1. with.behind = None /\ with.who \in Accounts /\ "impersonate" \in Handing
        BY DEF Handing
      <4> QED  BY <1>1, <3>1, <3>2, <4>1, HandingAsked
    <3> QED  BY <1>3, <2>2, <3>1, <3>2, <3>3 DEF StartImpersonation, Handing
  <2>3. ASSUME NEW who \in Accounts, NEW how \in {"google", "place", "password"},
               SignInWith(who, how)
        PROVE  IInv'
    <3> DEFINE what == IF how = "password" THEN how ELSE "google"
               token == IF how = "place" THEN shownAs.token ELSE None
               with == [who |-> who, behind |-> IF how = "place" THEN None ELSE shownAs.token]
    <3>1. /\ with \in [who : People, behind : Token] /\ token \in Token
          /\ what \in {"google", "password"}
      BY <1>1 DEF People, Token, Page
    <3>2. token # None => token \in DOMAIN signIns
      BY <1>1 DEF Known
    <3>3. with.behind # None => with.behind \in DOMAIN signIns /\ signIns[with.behind].who = Guest
      <4>1. with.behind # None => with.behind = shownAs.token /\ shownAs.token \in DOMAIN signIns
        BY <1>1 DEF Known
      <4>2. ASSUME NEW t \in DOMAIN signIns  PROVE signIns[t].who \in People
        <5>1. signIns[t] \in SignIn
          BY <1>1
        <5> QED  BY <5>1 DEF SignIn
      <4> QED  BY <2>3, <4>1, <4>2 DEF SignInWith, IsAccount, IsReady, People
    <3> HIDE DEF what, token, with
    <3>4. CallOK(Asked(what, token, with), signIns)
      <4>1. what \in Handing /\ what # "impersonate"
        BY <3>1 DEF Handing
      <4> QED  BY <1>1, <3>1, <3>2, <3>3, <4>1, HandingAsked
    <3>5. /\ SendWith(what, token, with) /\ Mixed(Changing)
          /\ UNCHANGED <<signIns, themes, store, shownAs, changes>>
      BY <2>3 DEF SignInWith, what, token, with
    <3> QED  BY <1>3, <3>1, <3>4, <3>5 DEF Handing
  <2>4. CASE JoinAnonymously
    <3> DEFINE with == [who |-> Guest, behind |-> None]
    <3>1. with \in [who : People, behind : Token]
      BY DEF People, Token
    <3>2. CallOK(Asked("join", None, with), signIns)
      <4>1. with.behind = None /\ "join" \in Handing /\ None \in Token
        BY DEF Handing, Token
      <4> QED  BY <1>1, <3>1, <4>1, HandingAsked
    <3> QED  BY <1>3, <2>4, <3>1, <3>2 DEF JoinAnonymously, Handing, Token
  <2> QED  BY <2>1, <2>2, <2>3, <2>4
<1>4. with \in With
  BY DEF With
<1>5. /\ ghost' \in Ghost /\ ghost'.comesBack = ghost.comesBack /\ ghost'.late = ghost.late
      /\ ~ghost'.unsure => ~ghost.unsure /\ ~Changing
  BY <1>1, <1>2, <1>3, MixedIs
<1>6. Typed'
  BY <1>1, <1>3, <1>4, <1>5, SentTyped DEF IInv
<1>7. Back' /\ Kept'
  BY <1>3, <1>4, <1>5, SentKept
<1> QED  BY <1>6, <1>7 DEF IInv

LEMMA EndAsked ==
    ASSUME IInv, EndSignIn \/ StopImpersonating
    PROVE  IInv'
<1>1. /\ ghost \in Ghost /\ shownAs \in Page /\ Known(shownAs.token, signIns)
      /\ inFlight.asked \in Nat /\ changes \in Seq(PrefChange)
      /\ \A i \in DOMAIN changes : changes[i].token \in DOMAIN signIns
  BY DEF IInv, Typed
<1>2. SUFFICES ASSUME NEW with \in {"sign-out", "stop"}, SendWith("end", shownAs.token, with),
                      shownAs.token \in DOMAIN signIns,
                      with = "stop" => signIns[shownAs.token].by # None,
                      UNCHANGED <<signIns, themes, store, shownAs, changes>>, ghost' \in Ghost,
                      ghost'.comesBack = ghost.comesBack, ghost'.late = ghost.late,
                      ghost'.unsure = ghost.unsure
               PROVE  IInv'
  <2>1. CASE EndSignIn
    BY <1>1, <1>2, <2>1 DEF EndSignIn, IsAccount, IsReady, Known
  <2>2. CASE StopImpersonating
    <3>1. shownAs.token \in DOMAIN signIns /\ shownAs.token \in Token
      BY <1>1, <2>2 DEF StopImpersonating, IsReady, Known, Page
    <3>2. ghost' = [ghost EXCEPT !.twice = @ \/ ghost.stopped = shownAs.token,
                                 !.stopped = shownAs.token]
      BY <2>2 DEF StopImpersonating
    <3>3. /\ ghost' \in Ghost /\ ghost'.comesBack = ghost.comesBack /\ ghost'.late = ghost.late
          /\ ghost'.unsure = ghost.unsure
      BY <1>1, <3>1, <3>2 DEF Ghost
    <3> QED  BY <1>2, <2>2, <3>1, <3>3 DEF StopImpersonating, ByWhom
  <2> QED  BY <2>1, <2>2
<1>3. with \in With /\ shownAs.token \in Token
  BY <1>1 DEF With, Page
<1>4. CallOK(Asked("end", shownAs.token, with), signIns)
  BY <1>1, <1>2, <1>3, AskedIs DEF CallOK, Handing
<1>5. Typed'
  BY <1>1, <1>2, <1>3, <1>4, SentTyped DEF IInv
<1>6. Back' /\ Kept'
  BY <1>2, <1>3, SentKept DEF HandsOver
<1> QED  BY <1>5, <1>6 DEF IInv

(* The requests of a page that is gone.                                    *)
Disowned(calls) == {[c EXCEPT !.mine = FALSE] : c \in calls}

LEMMA DisownedOK ==
    ASSUME NEW s, NEW calls \in SUBSET Call, \A c \in calls : CallOK(c, s)
    PROVE  /\ Disowned(calls) \in SUBSET Call
           /\ \A c \in Disowned(calls) : CallOK(c, s) /\ ~c.mine
           /\ ChangesUnder(calls) = {} => ChangesUnder(Disowned(calls)) = {}
<1>1. ASSUME NEW c \in calls
      PROVE  LET d == [c EXCEPT !.mine = FALSE] IN
             /\ d \in Call /\ ~d.mine /\ d.what = c.what /\ d.token = c.token
             /\ d.with = c.with /\ d.reply = c.reply
  BY DEF Call
<1>2. ASSUME NEW d \in Disowned(calls)
      PROVE  d \in Call /\ CallOK(d, s) /\ ~d.mine /\ \E c \in calls : d.what = c.what
  <2>1. PICK c \in calls : d = [c EXCEPT !.mine = FALSE]
    BY DEF Disowned
  <2> QED  BY <1>1, <2>1 DEF CallOK
<1> QED  BY <1>2 DEF ChangesUnder

LEMMA PageOpened ==
    ASSUME IInv, OpenPage
    PROVE  IInv'
<1> DEFINE old == Disowned(inFlight.calls)
           new == Asked("read", store.token, "open")
<1>1. /\ inFlight \in [calls : SUBSET Call, asked : Nat] /\ ghost \in Ghost
      /\ \A c \in inFlight.calls : CallOK(c, signIns)
      /\ store.token \in Token /\ Known(store.token, signIns)
      /\ signIns \in Seq(SignIn)
  BY DEF IInv, Typed
<1>2. /\ UNCHANGED <<signIns, themes, store>> /\ changes' = <<>>
      /\ ghost' \in Ghost /\ ghost'.comesBack = ghost.comesBack /\ ghost'.late = ghost.late
      /\ ~ghost'.unsure => ~ghost.unsure /\ ~Changing
  <2>1. Changing \in BOOLEAN
    BY DEF Changing, Busy
  <2> QED  BY <1>1, <2>1, MixedIs DEF OpenPage
<1>3. /\ old \in SUBSET Call /\ \A c \in old : CallOK(c, signIns) /\ ~c.mine
      /\ ChangesUnder(inFlight.calls) = {} => ChangesUnder(old) = {}
  BY <1>1, DisownedOK
<1>4. /\ new.what = "read" /\ new.token = store.token /\ new.with = "open" /\ new.reply = None
      /\ new \in Call
  <2>1. "open" \in With /\ inFlight.asked \in Nat
    BY <1>1 DEF With
  <2>2. "read" \in Handing \cup {"read", "end", "change"} /\ store.token \in Token
    BY <1>1
  <2> QED  BY <2>1, <2>2, AskedIs
<1>5. store.token # None => CallOK(new, signIns)
  BY <1>1, <1>4 DEF CallOK, Handing, Known
<1>6. CASE store.token = None
  <2>1. shownAs' = Nobody /\ inFlight' = [inFlight EXCEPT !.calls = old]
    BY <1>6 DEF OpenPage, Disowned
  <2>2. /\ shownAs' \in Page /\ shownAs'.token = None /\ shownAs'.state = "ready"
        /\ inFlight' \in [calls : SUBSET Call, asked : Nat] /\ inFlight'.calls = old
    BY <1>1, <1>3, <2>1, SessionAssumption DEF Nobody, Ready, Page, Token
  <2> HIDE DEF old
  <2>3. Typed'
    BY <1>1, <1>2, <1>3, <2>2 DEF IInv, Typed, ByWhom, Known
  <2>4. Back'
    <3>1. None \notin DOMAIN signIns
      BY <1>1, SessionAssumption
    <3>2. BackOK(signIns, store, shownAs, ghost)
      BY DEF IInv, Back
    <3>3. BackOK(signIns, store, shownAs', ghost')
      BY <1>2, <1>6, <3>1, <3>2 DEF BackOK, WayBack
    <3> QED  BY <1>2, <3>3 DEF Back
  <2>5. Kept'
    <3>1. ASSUME ~ghost'.unsure  PROVE KeptOK(signIns, themes, shownAs', old, <<>>)
      <4>1. ChangesUnder(inFlight.calls) = {}
        BY <1>2, <3>1, NotChanging DEF IInv, Kept
      <4>2. \A c \in old : HandedOK(c, signIns, themes)
        BY <1>3 DEF HandedOK
      <4> QED  BY <1>3, <2>2, <4>1, <4>2, NoneUnder
    <3> QED  BY <1>2, <2>2, <3>1 DEF Kept
  <2> QED  BY <2>3, <2>4, <2>5 DEF IInv
<1>7. CASE store.token # None
  <2>1. /\ shownAs' = [state |-> "loading", token |-> None, theme |-> DefaultTheme]
        /\ inFlight' = [calls |-> old \cup {new}, asked |-> inFlight.asked + 1]
    BY <1>7 DEF OpenPage, Disowned
  <2> HIDE DEF old, new
  <2>2. /\ shownAs' \in Page /\ shownAs'.token = None /\ shownAs'.state = "loading"
        /\ inFlight' \in [calls : SUBSET Call, asked : Nat] /\ inFlight'.calls = old \cup {new}
    BY <1>1, <1>3, <1>4, <2>1, SessionAssumption DEF Page, Token
  <2>3. Typed'
    BY <1>1, <1>2, <1>3, <1>5, <1>7, <2>2 DEF IInv, Typed, ByWhom, Known
  <2>4. Back'
    <3>1. BackOK(signIns, store, shownAs, ghost)
      BY DEF IInv, Back
    <3>2. BackOK(signIns, store, shownAs', ghost')
      BY <1>2, <2>2, <3>1, SameGrows, BackStays
    <3> QED  BY <1>2, <3>2 DEF Back
  <2>5. Kept'
    <3>1. ASSUME ~ghost'.unsure  PROVE KeptOK(signIns, themes, shownAs', old \cup {new}, <<>>)
      <4>1. ChangesUnder(old \cup {new}) = {}
        BY <1>2, <1>3, <1>4, <3>1, NotChanging DEF IInv, Kept, ChangesUnder
      <4>2. \A c \in old \cup {new} : HandedOK(c, signIns, themes)
        BY <1>3, <1>4 DEF HandedOK
      <4> QED  BY <2>2, <4>1, <4>2, NoneUnder
    <3> QED  BY <1>2, <2>2, <3>1 DEF Kept
  <2> QED  BY <2>3, <2>4, <2>5 DEF IInv
<1> QED  BY <1>6, <1>7

LEMMA EndedForgotten ==
    ASSUME IInv, ForgetEnded
    PROVE  IInv'
<1>1. /\ UNCHANGED <<signIns, themes, inFlight, changes>> /\ shownAs' = Nobody
      /\ store' = [store EXCEPT !.token = None] /\ Mixed(Changing)
      /\ IsReady /\ signIns[shownAs.token].who = Guest
  BY DEF ForgetEnded
<1>2. /\ ghost' \in Ghost /\ ghost'.comesBack = ghost.comesBack /\ ghost'.late = ghost.late
      /\ ~ghost'.unsure => ~ghost.unsure /\ ~Changing
  <2>1. Changing \in BOOLEAN
    BY DEF Changing, Busy
  <2> QED  BY <1>1, <2>1, MixedIs DEF IInv, Typed
<1>3. shownAs' \in Page /\ shownAs'.token = None /\ shownAs'.state = "ready"
  BY <1>1, SessionAssumption DEF Nobody, Ready, Page, Token
<1>4. /\ store' \in [token : Token, administrator : Token]
      /\ store'.token = None /\ store'.administrator = store.administrator
  BY <1>1 DEF IInv, Typed, Token
<1>5. Typed'
  BY <1>1, <1>2, <1>3, <1>4 DEF IInv, Typed, ByWhom, Known
(* A Guest is nobody's Impersonation.                                      *)
<1>6. Back'
  <2>1. /\ shownAs.token \in DOMAIN signIns /\ shownAs.state = "ready"
        /\ signIns[shownAs.token].by # None => signIns[shownAs.token].who \in Accounts
    BY <1>1 DEF IInv, Typed, IsReady, Known, ByWhom
  <2>2. ~ WayBack(ghost.comesBack, signIns, store, shownAs) \/ ghost.comesBack = None
                \/ signIns[ghost.comesBack].who # Administrator
    BY <1>1, <2>1, SessionAssumption DEF WayBack
  <2> QED  BY <1>1, <1>2, <2>2 DEF IInv, Back, BackOK
<1>7. Kept'
  <2>1. ASSUME ~ghost'.unsure  PROVE KeptOK(signIns, themes, shownAs', inFlight.calls, changes)
    <3>1. /\ ChangesUnder(inFlight.calls) = {} /\ changes = <<>>
          /\ \A c \in inFlight.calls : HandedOK(c, signIns, themes)
      BY <1>2, <2>1, NotChanging DEF IInv, Kept, KeptOK
    <3> QED  BY <1>3, <3>1, NoneUnder
  <2> QED  BY <1>1, <2>1 DEF Kept
<1> QED  BY <1>5, <1>6, <1>7 DEF IInv

LEMMA LeadsOn ==
    ASSUME NEW queue \in Seq(PrefChange), NEW x, NEW y, Leads(queue, x, y),
           NEW p \in PrefChange, p.before = y
    PROVE  Leads(Append(queue, p), x, p.theme)
<1> DEFINE more == Append(queue, p)
<1>1. /\ Len(queue) \in Nat /\ Len(more) = Len(queue) + 1 /\ more # <<>>
      /\ more[Len(queue) + 1] = p /\ \A i \in 1 .. Len(queue) : more[i] = queue[i]
      /\ queue # <<>> => Len(queue) > 0
      /\ queue = <<>> => Len(queue) = 0
  OBVIOUS
<1> HIDE DEF more
<1>2. more[1].before = x /\ more[Len(more)].theme = p.theme
  BY <1>1 DEF Leads
<1>3. ASSUME NEW i \in 1 .. (Len(more) - 1)  PROVE more[i].theme = more[i + 1].before
  <2>1. CASE i \in 1 .. (Len(queue) - 1)
    <3>1. i \in 1 .. Len(queue) /\ i + 1 \in 1 .. Len(queue)
      BY <1>1, <2>1
    <3> QED  BY <1>1, <2>1, <3>1 DEF Leads
  <2>2. CASE i = Len(queue)
    <3>1. queue # <<>> /\ i \in 1 .. Len(queue)
      BY <1>1, <2>2
    <3> QED  BY <1>1, <2>2, <3>1 DEF Leads
  <2> QED  BY <1>1, <2>1, <2>2
<1>4. Leads(more, x, p.theme)
  BY <1>1, <1>2, <1>3 DEF Leads
<1> QED  BY <1>4 DEF more

LEMMA LeadsAway ==
    ASSUME NEW queue \in Seq(PrefChange), queue # <<>>, NEW x, NEW y, Leads(queue, x, y)
    PROVE  Head(queue).before = x /\ Leads(Tail(queue), Head(queue).theme, y)
<1> DEFINE rest == Tail(queue)
<1>1. /\ Len(queue) \in Nat \ {0} /\ Len(rest) = Len(queue) - 1 /\ Head(queue) = queue[1]
      /\ \A i \in 1 .. (Len(queue) - 1) : rest[i] = queue[i + 1]
      /\ rest \in Seq(PrefChange)
  OBVIOUS
<1>2. rest = <<>> <=> Len(rest) = 0
  <2>1. \A r \in Seq(PrefChange) : r = <<>> <=> Len(r) = 0
    OBVIOUS
  <2> QED  BY <1>1, <2>1
<1> HIDE DEF rest
<1>3. rest = <<>> => queue[1].theme = y
  <2>1. rest = <<>> => Len(queue) = 1
    BY <1>1, <1>2
  <2> QED  BY <2>1 DEF Leads
<1>4. rest # <<>> => rest[1].before = queue[1].theme /\ rest[Len(rest)].theme = y
  <2> SUFFICES ASSUME rest # <<>>  PROVE rest[1].before = queue[1].theme /\ rest[Len(rest)].theme = y
    OBVIOUS
  <2>1. /\ 1 \in 1 .. (Len(queue) - 1) /\ Len(rest) \in 1 .. (Len(queue) - 1)
        /\ Len(rest) + 1 = Len(queue) /\ 1 + 1 = 2
    BY <1>1, <1>2
  <2>2. rest[1] = queue[2] /\ rest[Len(rest)] = queue[Len(queue)]
    BY <1>1, <2>1
  <2>3. queue[1].theme = queue[1 + 1].before /\ queue[Len(queue)].theme = y
    BY <2>1 DEF Leads
  <2> QED  BY <2>1, <2>2, <2>3
<1>5. ASSUME NEW i \in 1 .. (Len(rest) - 1)  PROVE rest[i].theme = rest[i + 1].before
  <2>1. i \in 1 .. (Len(queue) - 1) /\ i + 1 \in 1 .. (Len(queue) - 1)
    BY <1>1
  <2>2. rest[i] = queue[i + 1] /\ rest[i + 1] = queue[(i + 1) + 1]
    BY <1>1, <2>1
  <2> QED  BY <2>1, <2>2 DEF Leads
<1>6. Leads(rest, queue[1].theme, y)
  BY <1>3, <1>4, <1>5 DEF Leads
<1> QED  BY <1>1, <1>6 DEF Leads, rest

LEMMA ThemeChosen ==
    ASSUME IInv, NEW theme \in Themes, ChangePreferences(theme)
    PROVE  IInv'
<1> DEFINE p == [token |-> shownAs.token, theme |-> theme, before |-> shownAs.theme]
<1>1. /\ UNCHANGED <<signIns, themes, store, inFlight>> /\ IsReady
      /\ changes' = Append(changes, p) /\ shownAs' = [shownAs EXCEPT !.theme = theme]
      /\ Mixed(Busy(HandsOver)) /\ changes \in Seq(PrefChange) /\ shownAs \in Page
  BY DEF ChangePreferences, IInv, Typed
<1>2. /\ ghost' \in Ghost /\ ghost'.comesBack = ghost.comesBack /\ ghost'.late = ghost.late
      /\ ~ghost'.unsure => ~ghost.unsure /\ ~Busy(HandsOver)
  <2>1. Busy(HandsOver) \in BOOLEAN
    BY DEF Busy
  <2> QED  BY <1>1, <2>1, MixedIs DEF IInv, Typed
<1>3. /\ shownAs' \in Page /\ shownAs'.token = shownAs.token /\ shownAs'.state = shownAs.state
      /\ shownAs'.theme = theme
  BY <1>1 DEF Page
<1>4. /\ p \in PrefChange /\ p.token = shownAs.token /\ p.theme = theme
      /\ p.before = shownAs.theme /\ shownAs.token \in DOMAIN signIns
  BY <1>1 DEF Page, PrefChange, IInv, Typed, IsReady, Known
<1> HIDE DEF p
<1>5. changes' \in Seq(PrefChange) /\ \A i \in DOMAIN changes' : changes'[i] = p \/
                                          (i \in DOMAIN changes /\ changes'[i] = changes[i])
  BY <1>1, <1>4
<1>6. Typed'
  BY <1>1, <1>2, <1>3, <1>4, <1>5 DEF IInv, Typed, ByWhom
<1>7. Back'
  BY <1>1, <1>2, <1>3, SameGrows, BackStays DEF IInv, Back
<1>8. Kept'
  <2>1. ASSUME ~ghost'.unsure  PROVE KeptOK(signIns, themes, shownAs', inFlight.calls, changes')
    <3>1. KeptOK(signIns, themes, shownAs, inFlight.calls, changes)
      BY <1>2, <2>1 DEF IInv, Kept
    <3>2. ASSUME NEW x, Leads(changes, x, shownAs.theme)  PROVE Leads(changes', x, shownAs'.theme)
      BY <1>1, <1>3, <1>4, <3>2, LeadsOn
    <3>3. ChainOK(signIns, themes, shownAs', inFlight.calls, changes')
      BY <1>3, <3>1, <3>2 DEF KeptOK, ChainOK
    <3> QED  BY <1>1, <1>2, <1>3, <1>4, <1>5, <2>1, <3>1, <3>3 DEF KeptOK, Busy, IsReady
  <2> QED  BY <1>1, <2>1 DEF Kept
<1> QED  BY <1>6, <1>7, <1>8 DEF IInv

LEMMA ThemeSent ==
    ASSUME IInv, SendChange
    PROVE  IInv'
<1> DEFINE p == Head(changes)
           c == Asked("change", p.token, p)
<1>1. /\ UNCHANGED <<signIns, themes, store, shownAs, ghost>> /\ changes # <<>>
      /\ ~Busy({"change"}) /\ SendWith("change", p.token, p) /\ changes' = Tail(changes)
      /\ changes \in Seq(PrefChange) /\ inFlight \in [calls : SUBSET Call, asked : Nat]
      /\ ghost \in Ghost /\ \A i \in DOMAIN changes : changes[i].token \in DOMAIN signIns
  BY DEF SendChange, IInv, Typed
<1>2. /\ p \in PrefChange /\ changes' \in Seq(PrefChange) /\ p = changes[1] /\ 1 \in DOMAIN changes
      /\ \A i \in DOMAIN changes' : i + 1 \in DOMAIN changes /\ changes'[i] = changes[i + 1]
  BY <1>1
<1> HIDE DEF p
<1>3. c \in Call /\ c.what = "change" /\ c.token = p.token /\ c.with = p /\ c.mine /\ c.reply = None
  <2>1. p \in With /\ p.token \in Token /\ inFlight.asked \in Nat
    BY <1>1, <1>2 DEF With, PrefChange
  <2>2. "change" \in Handing \cup {"read", "end", "change"}
    OBVIOUS
  <2> QED  BY <2>1, <2>2, AskedIs
<1>4. inFlight'.calls = inFlight.calls \cup {c}
  BY <1>1 DEF SendWith
<1>5. CallOK(c, signIns)
  BY <1>1, <1>2, <1>3 DEF CallOK, Handing
<1>6. Typed'
  <2>1. p \in With /\ p.token \in Token
    BY <1>2 DEF With, PrefChange
  <2>2. \A i \in DOMAIN changes' : changes'[i].token \in DOMAIN signIns
    BY <1>1, <1>2
  <2> QED  BY <1>1, <1>2, <1>5, <2>1, <2>2, SentTyped DEF IInv
<1> HIDE DEF c
<1>7. Back'
  BY <1>1 DEF IInv, Back
<1>8. Kept'
  <2>1. ASSUME ~ghost.unsure
        PROVE  KeptOK(signIns, themes, shownAs, inFlight.calls \cup {c}, changes')
    <3>1. KeptOK(signIns, themes, shownAs, inFlight.calls, changes)
      BY <2>1 DEF IInv, Kept
    <3>2. /\ ChangesUnder(inFlight.calls) = {}
          /\ ChangesUnder(inFlight.calls \cup {c}) = {c}
      BY <1>1, <1>3, <3>1 DEF KeptOK, Busy, ChangesUnder
    <3>3. ChainOK(signIns, themes, shownAs, inFlight.calls \cup {c}, changes')
      <4> SUFFICES ASSUME shownAs.token # None, WorksIn(signIns, shownAs.token)
                   PROVE  /\ Leads(changes', p.theme, shownAs.theme)
                          /\ themes[signIns[shownAs.token].who] = p.before
        BY <1>3, <3>2 DEF ChainOK
      <4>1. Leads(changes, themes[signIns[shownAs.token].who], shownAs.theme)
        BY <3>1, <3>2 DEF KeptOK, ChainOK
      <4> QED  BY <1>1, <4>1, LeadsAway DEF p
    <3>4. HandedOK(c, signIns, themes)
      BY <1>3 DEF HandedOK
    <3>5. ~ \E d \in inFlight.calls \cup {c} : d.mine /\ d.what \in HandsOver
      BY <1>1, <1>3, <3>1 DEF KeptOK, HandsOver
    <3>6. p.token = shownAs.token /\ \A i \in DOMAIN changes' : changes'[i].token = shownAs.token
      BY <1>2, <3>1 DEF KeptOK
    <3> QED  BY <1>1, <1>3, <3>1, <3>2, <3>3, <3>4, <3>5, <3>6 DEF KeptOK
  <2> QED  BY <1>1, <1>4, <2>1 DEF Kept
<1> QED  BY <1>6, <1>7, <1>8 DEF IInv

-----------------------------------------------------------------------------
(* The server's part.                                                      *)

LEMMA SessionsGrown ==
    ASSUME Typed, signIns' \in Seq(SignIn), Grows(signIns, signIns'),
           \A t \in DOMAIN signIns' : signIns'[t].by # None => signIns'[t].who \in Accounts,
           themes' \in [People -> Themes], UNCHANGED <<store, shownAs, changes>>, ghost' \in Ghost,
           inFlight' \in [calls : SUBSET Call, asked : Nat],
           \A c \in inFlight'.calls : c \in inFlight.calls \/ CallOK(c, signIns')
    PROVE  Typed'
<1>1. \A c \in inFlight'.calls : CallOK(c, signIns')
  BY OldCall DEF Typed
<1>2. DOMAIN signIns \subseteq DOMAIN signIns'
  BY DEF Grows
<1> QED  BY <1>1, <1>2, StillKnown DEF Typed, ByWhom

LEMMA EndedElsewhere ==
    ASSUME IInv, NEW t \in DOMAIN signIns, EndElsewhere(t)
    PROVE  IInv'
<1>1. /\ signIns \in Seq(SignIn) /\ ghost \in Ghost /\ themes \in [People -> Themes]
      /\ \A u \in DOMAIN signIns : signIns[u].by # None => signIns[u].who \in Accounts
      /\ inFlight \in [calls : SUBSET Call, asked : Nat]
      /\ \A c \in inFlight.calls : CallOK(c, signIns)
      /\ Known(shownAs.token, signIns)
  BY DEF IInv, Typed, ByWhom
<1>2. /\ UNCHANGED <<themes, store, shownAs, inFlight, changes>>
      /\ ghost' = [ghost EXCEPT !.away = @ + 1]
      /\ \/ signIns' = [signIns EXCEPT ![t].live = FALSE]
         \/ signIns' = [signIns EXCEPT ![t].over = TRUE]
  BY DEF EndElsewhere, Ended
<1>3. /\ signIns' \in Seq(SignIn) /\ Len(signIns') = Len(signIns) /\ Grows(signIns, signIns')
  BY <1>1, <1>2, EndedGrows, OverGrows
<1>4. /\ ghost' \in Ghost /\ ghost'.comesBack = ghost.comesBack /\ ghost'.late = ghost.late
      /\ ghost'.unsure = ghost.unsure
  BY <1>1, <1>2 DEF Ghost
<1>5. \A u \in DOMAIN signIns' : signIns'[u].by # None => signIns'[u].who \in Accounts
  <2>1. DOMAIN signIns' = DOMAIN signIns
    BY <1>1, <1>3
  <2> QED  BY <1>1, <1>3, <2>1 DEF Grows
<1>6. Typed'
  <2>1. /\ themes' \in [People -> Themes] /\ UNCHANGED <<store, shownAs, changes>>
        /\ inFlight' \in [calls : SUBSET Call, asked : Nat]
        /\ \A c \in inFlight'.calls : c \in inFlight.calls \/ CallOK(c, signIns')
    BY <1>1, <1>2
  <2>2. Typed
    BY DEF IInv
  <2> QED  BY <1>3, <1>4, <1>5, <2>1, <2>2, SessionsGrown
<1>7. Back'
  <2>1. BackOK(signIns, store, shownAs, ghost)
    BY DEF IInv, Back
  <2>2. BackOK(signIns', store, shownAs, ghost')
    BY <1>3, <1>4, <2>1, BackStays
  <2> QED  BY <1>2, <2>2 DEF Back
<1>8. Kept'
  <2>1. ASSUME ~ghost.unsure  PROVE KeptOK(signIns', themes, shownAs, inFlight.calls, changes)
    BY <1>1, <1>3, <2>1, KeptStays DEF IInv, Kept
  <2> QED  BY <1>2, <1>4, <2>1 DEF Kept
<1> QED  BY <1>6, <1>7, <1>8 DEF IInv

LEMMA RepliedIs ==
    ASSUME Typed, NEW c \in inFlight.calls, NEW answer \in Answer, Reply(c, answer)
    PROVE  LET d == [c EXCEPT !.reply = answer] IN
           /\ inFlight' \in [calls : SUBSET Call, asked : Nat]
           /\ inFlight'.calls = (inFlight.calls \ {c}) \cup {d}
           /\ d.what = c.what /\ d.token = c.token /\ d.with = c.with /\ d.mine = c.mine
           /\ d.reply = answer
<1>1. inFlight \in [calls : SUBSET Call, asked : Nat] /\ c \in Call
  BY DEF Typed
<1>2. [c EXCEPT !.reply = answer] \in Call
  BY <1>1 DEF Call
<1> QED  BY <1>1, <1>2 DEF Reply, Call

LEMMA ThemesStay ==
    ASSUME NEW s, NEW th, NEW th2, \A t \in DOMAIN s : th2[s[t].who] = th[s[t].who],
           NEW page, Known(page.token, s), NEW calls, \A c \in calls : CallOK(c, s),
           NEW queue, KeptOK(s, th, page, calls, queue)
    PROVE  KeptOK(s, th2, page, calls, queue)
<1>1. ASSUME NEW c \in calls  PROVE HandedOK(c, s, th2)
  <2>1. HandedOK(c, s, th)
    BY DEF KeptOK
  <2>2. CASE c.what = "read"
    BY <2>1, <2>2 DEF CallOK, HandedOK
  <2>3. CASE c.what \in Handing
    BY <2>1, <2>3 DEF CallOK, HandedOK, Handing
  <2>4. CASE c.what \notin Handing \cup {"read"}
    BY <2>4 DEF HandedOK, Handing, HandsOver
  <2> QED  BY <2>2, <2>3, <2>4
<1>2. page.token # None => page.token \in DOMAIN s
  BY DEF Known
<1>3. page.token # None => th2[s[page.token].who] = th[s[page.token].who]
  BY <1>2
<1>4. ChainOK(s, th2, page, calls, queue)
  BY <1>3 DEF ChainOK, KeptOK
<1> QED  BY <1>1, <1>4 DEF KeptOK

(* A request is answered, in all but what it says of a change.             *)
LEMMA RepliedKept ==
    ASSUME IInv, NEW c \in inFlight.calls, c.what # "change", NEW d, d.what = c.what, d.mine = c.mine,
           inFlight'.calls = (inFlight.calls \ {c}) \cup {d}, HandedOK(d, signIns', themes'),
           Grows(signIns, signIns'), \A t \in DOMAIN signIns : themes'[signIns[t].who] = themes[signIns[t].who],
           UNCHANGED <<store, shownAs, changes, ghost>>
    PROVE  Back' /\ Kept'
<1>1. Back'
  BY BackStays DEF IInv, Back
<1>2. ASSUME ~ghost.unsure  PROVE KeptOK(signIns', themes', shownAs, inFlight'.calls, changes)
  <2>1. KeptOK(signIns, themes, shownAs, inFlight.calls, changes)
    BY <1>2 DEF IInv, Kept
  <2>2. /\ Known(shownAs.token, signIns) /\ \A e \in inFlight.calls : CallOK(e, signIns)
    BY DEF IInv, Typed
  <2>3. KeptOK(signIns, themes', shownAs, inFlight.calls, changes)
    BY <2>1, <2>2, ThemesStay
  <2>4. KeptOK(signIns', themes', shownAs, inFlight.calls, changes)
    BY <2>2, <2>3, KeptStays
  <2>5. ChangesUnder(inFlight'.calls) = ChangesUnder(inFlight.calls)
    BY DEF ChangesUnder
  <2>6. d.mine /\ d.what \in HandsOver => ChangesUnder(inFlight.calls) = {} /\ changes = <<>>
    BY <2>1 DEF KeptOK
  <2> QED  BY <2>4, <2>5, <2>6, CallsKept
<1>3. Kept'
  BY <1>2 DEF Kept
<1> QED  BY <1>1, <1>3

LEMMA ReadAnswered ==
    ASSUME IInv, NEW c \in inFlight.calls, c.what = "read", UNCHANGED <<signIns, themes>>,
           Reply(c, IF Works(c.token) THEN [ok |-> TRUE, theme |-> PreferencesOf(c.token)]
                    ELSE [ok |-> FALSE]),
           UNCHANGED <<store, shownAs, changes, ghost>>
    PROVE  IInv'
<1> DEFINE answer == IF Works(c.token) THEN [ok |-> TRUE, theme |-> PreferencesOf(c.token)]
                     ELSE [ok |-> FALSE]
           d == [c EXCEPT !.reply = answer]
<1>1. /\ CallOK(c, signIns) /\ signIns \in Seq(SignIn) /\ themes \in [People -> Themes]
      /\ c.token \in DOMAIN signIns /\ c.with \in {"open", "stop"}
  BY DEF IInv, Typed, CallOK
<1>2. signIns[c.token] \in SignIn
  BY <1>1
<1>3. PreferencesOf(c.token) \in Themes
  BY <1>1, <1>2 DEF PreferencesOf, SignIn
<1>4. /\ answer \in Answer /\ answer.ok \in BOOLEAN
      /\ answer.ok => answer.theme = themes[signIns[c.token].who] /\ answer.theme \in Themes
      /\ ~answer.ok => ~WorksIn(signIns, c.token)
  BY <1>3 DEF Answer, Works, WorksIn, PreferencesOf
<1> HIDE DEF answer
<1>5. /\ inFlight' \in [calls : SUBSET Call, asked : Nat]
      /\ inFlight'.calls = (inFlight.calls \ {c}) \cup {d}
      /\ d.what = "read" /\ d.token = c.token /\ d.with = c.with /\ d.mine = c.mine
      /\ d.reply = answer
  BY <1>4, RepliedIs DEF IInv, answer
<1> HIDE DEF d
<1>6. CallOK(d, signIns)
  BY <1>1, <1>4, <1>5 DEF CallOK, Handing
<1>7. HandedOK(d, signIns, themes)
  BY <1>4, <1>5 DEF HandedOK
<1>8. Typed'
  BY <1>5, <1>6 DEF IInv, Typed, ByWhom
<1>9. Back' /\ Kept'
  BY <1>5, <1>7, SameGrows, RepliedKept
<1> QED  BY <1>8, <1>9 DEF IInv

LEMMA EndAnswered ==
    ASSUME IInv, NEW c \in inFlight.calls, c.what = "end", UNCHANGED themes,
           signIns' = Ended(c.token), Reply(c, [ok |-> TRUE]),
           UNCHANGED <<store, shownAs, changes, ghost>>
    PROVE  IInv'
<1> DEFINE d == [c EXCEPT !.reply = [ok |-> TRUE]]
<1>1. /\ CallOK(c, signIns) /\ signIns \in Seq(SignIn) /\ themes \in [People -> Themes]
      /\ ghost \in Ghost
      /\ \A u \in DOMAIN signIns : signIns[u].by # None => signIns[u].who \in Accounts
  BY DEF IInv, Typed, ByWhom
<1>2. /\ signIns' \in Seq(SignIn) /\ Len(signIns') = Len(signIns) /\ Grows(signIns, signIns')
  BY <1>1, EndedGrows DEF Ended
<1>3. [ok |-> TRUE] \in Answer
  BY DEF Answer
<1>4. /\ inFlight' \in [calls : SUBSET Call, asked : Nat]
      /\ inFlight'.calls = (inFlight.calls \ {c}) \cup {d}
      /\ d.what = "end" /\ d.token = c.token /\ d.with = c.with /\ d.mine = c.mine
  BY <1>3, RepliedIs DEF IInv
<1> HIDE DEF d
<1>5. CallOK(d, signIns)
  BY <1>1, <1>4 DEF CallOK, Handing
<1>6. HandedOK(d, signIns', themes')
  BY <1>4 DEF HandedOK, HandsOver
<1>7. \A u \in DOMAIN signIns' : signIns'[u].by # None => signIns'[u].who \in Accounts
  <2>1. DOMAIN signIns' = DOMAIN signIns
    BY <1>1, <1>2
  <2> QED  BY <1>1, <1>2, <2>1 DEF Grows
<1>8. Typed'
  <2>1. \A e \in inFlight'.calls : e \in inFlight.calls \/ CallOK(e, signIns')
    BY <1>2, <1>4, <1>5, OldCall
  <2> QED  BY <1>1, <1>2, <1>4, <1>7, <2>1, SessionsGrown DEF IInv
<1>9. Back' /\ Kept'
  <2>1. \A t \in DOMAIN signIns : themes'[signIns[t].who] = themes[signIns[t].who]
    OBVIOUS
  <2> QED  BY <1>2, <1>4, <1>6, <2>1, RepliedKept
<1> QED  BY <1>8, <1>9 DEF IInv

LEMMA ChangeAnswered ==
    ASSUME IInv, NEW c \in inFlight.calls, c.what = "change", c.reply = None, UNCHANGED signIns,
           Reply(c, [ok |-> Works(c.token)]),
           themes' = IF Works(c.token) THEN WithChanged(c.token, c.with.theme) ELSE themes,
           UNCHANGED <<store, shownAs, changes, ghost>>
    PROVE  IInv'
<1> DEFINE d == [c EXCEPT !.reply = [ok |-> Works(c.token)]]
           who == signIns[c.token].who
<1>1. /\ CallOK(c, signIns) /\ signIns \in Seq(SignIn) /\ themes \in [People -> Themes]
      /\ c.token \in DOMAIN signIns /\ c.with \in PrefChange /\ c.token = c.with.token
  BY DEF IInv, Typed, CallOK, Handing
<1>2. signIns[c.token] \in SignIn
  BY <1>1
<1>3. Works(c.token) \in BOOLEAN /\ (Works(c.token) <=> WorksIn(signIns, c.token)) /\ who \in People
  BY <1>2 DEF Works, WorksIn, SignIn
<1>4. [ok |-> Works(c.token)] \in Answer
  BY <1>3 DEF Answer
<1>5. /\ inFlight' \in [calls : SUBSET Call, asked : Nat]
      /\ inFlight'.calls = (inFlight.calls \ {c}) \cup {d}
      /\ d.what = "change" /\ d.token = c.token /\ d.with = c.with /\ d.mine = c.mine
      /\ d.reply = [ok |-> Works(c.token)]
  BY <1>4, RepliedIs DEF IInv
<1>6. d.reply.ok = Works(c.token) /\ d.reply # None
  <2>1. [ok |-> Works(c.token)] # None
    BY <1>3, SessionAssumption
  <2> QED  BY <1>5, <2>1
<1> HIDE DEF d
<1>7. themes' \in [People -> Themes] /\ (Works(c.token) => themes'[who] = c.with.theme)
  BY <1>1, <1>3 DEF WithChanged, PrefChange
<1> HIDE DEF who
<1>8. CallOK(d, signIns)
  BY <1>1, <1>3, <1>5, <1>6 DEF CallOK, Handing
<1>9. Typed'
  BY <1>5, <1>7, <1>8 DEF IInv, Typed, ByWhom
<1>10. Back'
  BY DEF IInv, Back
<1>11. ASSUME ~ghost.unsure
       PROVE  KeptOK(signIns, themes', shownAs, inFlight'.calls, changes)
  <2>1. KeptOK(signIns, themes, shownAs, inFlight.calls, changes)
    BY <1>11 DEF IInv, Kept
  <2>2. ChangesUnder(inFlight.calls) = {c} /\ ChangesUnder(inFlight'.calls) = {d}
    BY <1>5, <2>1 DEF KeptOK, ChangesUnder
  <2>3. ~ \E e \in inFlight'.calls : e.mine /\ e.what \in HandsOver
    BY <1>5, <2>1, <2>2 DEF KeptOK, HandsOver
  <2>4. \A e \in inFlight'.calls : HandedOK(e, signIns, themes')
    BY <2>3 DEF HandedOK
  <2>5. c.mine /\ c.token = shownAs.token
    BY <2>1, <2>2 DEF KeptOK
  <2>6. ChainOK(signIns, themes', shownAs, inFlight'.calls, changes)
    <3>1. ASSUME shownAs.token # None, WorksIn(signIns, shownAs.token)
          PROVE  /\ Leads(changes, d.with.theme, shownAs.theme)
                 /\ themes'[signIns[shownAs.token].who] = d.with.theme
      <4>1. Leads(changes, c.with.theme, shownAs.theme)
        BY <2>1, <2>2, <3>1 DEF KeptOK, ChainOK
      <4>2. Works(c.token) /\ signIns[shownAs.token].who = who
        BY <1>3, <2>5, <3>1 DEF who
      <4> QED  BY <1>5, <1>7, <4>1, <4>2
    <3> QED  BY <1>6, <2>2, <3>1 DEF ChainOK
  <2> QED  BY <1>5, <2>1, <2>2, <2>3, <2>4, <2>5, <2>6 DEF KeptOK
<1>12. Kept'
  BY <1>11 DEF Kept
<1> QED  BY <1>9, <1>10, <1>12 DEF IInv

(* A request that hands a session over, in what it has of its answer.      *)
LEMMA HandingAnswered ==
    ASSUME IInv, NEW c \in inFlight.calls, c.what \in Handing, NEW answer \in Answer, Reply(c, answer),
           signIns' \in Seq(SignIn), Grows(signIns, signIns'),
           \A t \in DOMAIN signIns' : signIns'[t].by # None => signIns'[t].who \in Accounts,
           themes' \in [People -> Themes],
           \A t \in DOMAIN signIns : themes'[signIns[t].who] = themes[signIns[t].who],
           answer.ok \in BOOLEAN,
           answer.ok => /\ answer.token \in DOMAIN signIns' /\ answer.theme \in Themes
                        /\ signIns'[answer.token].who = c.with.who
                        /\ c.what = "impersonate" => signIns'[answer.token].by = c.token
                        /\ answer.theme = themes'[c.with.who],
           UNCHANGED <<store, shownAs, changes, ghost>>
    PROVE  IInv'
<1> DEFINE d == [c EXCEPT !.reply = answer]
<1>1. /\ inFlight' \in [calls : SUBSET Call, asked : Nat]
      /\ inFlight'.calls = (inFlight.calls \ {c}) \cup {d}
      /\ d.what = c.what /\ d.token = c.token /\ d.with = c.with /\ d.mine = c.mine
      /\ d.reply = answer
  BY RepliedIs DEF IInv
<1> HIDE DEF d
<1>2. CallOK(c, signIns) /\ ghost \in Ghost /\ Typed
  BY DEF IInv, Typed
<1>3. CallOK(c, signIns')
  BY <1>2, OldCall
<1>4. c.what \notin {"read", "end", "change"}
  BY DEF Handing
<1>5. CallOK(d, signIns')
  BY <1>1, <1>3, <1>4 DEF CallOK
<1>6. HandedOK(d, signIns', themes')
  BY <1>1, <1>4 DEF HandedOK
<1>7. Typed'
  <2>1. \A e \in inFlight'.calls : e \in inFlight.calls \/ CallOK(e, signIns')
    BY <1>1, <1>5
  <2> QED  BY <1>1, <1>2, <2>1, SessionsGrown
<1>8. Back' /\ Kept'
  BY <1>1, <1>4, <1>6, RepliedKept
<1> QED  BY <1>7, <1>8 DEF IInv

LEMMA HandOverAnswered ==
    ASSUME IInv, NEW c \in inFlight.calls, c.what \in Handing, Answers(c)
    PROVE  IInv'
<1> DEFINE s == IF c.what = "google" /\ c.token # None THEN Ended(c.token) ELSE signIns
           x == SignedIn(c.with.who, IF c.what = "impersonate" THEN c.token ELSE None)
           n == Len(signIns) + 1
           answer == [ok |-> TRUE, token |-> n, theme |-> themes'[c.with.who]]
<1>1. /\ CallOK(c, signIns) /\ signIns \in Seq(SignIn) /\ themes \in [People -> Themes]
      /\ \A t \in DOMAIN signIns : signIns[t].by # None => signIns[t].who \in Accounts
  BY DEF IInv, Typed, ByWhom
<1>2. /\ c.what \notin {"read", "end", "change"} /\ c.with \in [who : People, behind : Token]
      /\ c.what = "impersonate" => c.token \in DOMAIN signIns /\ c.with.who \in Accounts
  BY <1>1 DEF CallOK, Handing
<1>3. UNCHANGED <<store, shownAs, changes, ghost>>
  BY DEF Answers
<1>4. CASE Reply(c, [ok |-> FALSE]) /\ UNCHANGED <<signIns, themes>>
  <2>1. [ok |-> FALSE] \in Answer
    BY DEF Answer
  <2>2. \A t \in DOMAIN signIns' : signIns'[t].by # None => signIns'[t].who \in Accounts
    BY <1>1, <1>4
  <2>3. /\ signIns' \in Seq(SignIn) /\ Grows(signIns, signIns') /\ themes' \in [People -> Themes]
        /\ \A t \in DOMAIN signIns : themes'[signIns[t].who] = themes[signIns[t].who]
    BY <1>1, <1>4, SameGrows
  <2> QED  BY <1>3, <1>4, <2>1, <2>2, <2>3, HandingAnswered
<1>5. CASE /\ signIns' = Append(s, x) /\ Reply(c, answer)
           /\ themes' = IF c.what = "join" THEN [themes EXCEPT ![Guest] = DefaultTheme] ELSE themes
           /\ c.what = "join" => \A t \in DOMAIN signIns : signIns[t].who # Guest
  <2>1. s \in Seq(SignIn) /\ Len(s) = Len(signIns) /\ Grows(signIns, s)
    BY <1>1, EndedGrows, SameGrows DEF Ended
  <2>2. /\ x \in SignIn /\ x.who = c.with.who /\ x.by = IF c.what = "impersonate" THEN c.token ELSE None
    BY <1>1, <1>2 DEF SignedIn, SignIn, Token
  <2> HIDE DEF s, x
  <2>3. /\ signIns' \in Seq(SignIn) /\ Grows(s, signIns') /\ n \in DOMAIN signIns'
        /\ signIns'[n] = x /\ \A t \in DOMAIN signIns' : t = n \/ (t \in DOMAIN s /\ signIns'[t] = s[t])
    BY <1>5, <2>1, <2>2, AddedGrows
  <2>4. Grows(signIns, signIns')
    BY <2>1, <2>3, GrowsOn
  <2>5. \A t \in DOMAIN signIns' : signIns'[t].by # None => signIns'[t].who \in Accounts
    <3>1. \A t \in DOMAIN s : s[t].by = signIns[t].by /\ s[t].who = signIns[t].who /\ t \in DOMAIN signIns
      BY <1>1, <2>1 DEF Grows
    <3> QED  BY <1>1, <1>2, <2>2, <2>3, <3>1
  <2>6. themes' \in [People -> Themes]
    BY <1>1, <1>5, SessionAssumption
  <2>7. \A t \in DOMAIN signIns : themes'[signIns[t].who] = themes[signIns[t].who]
    BY <1>1, <1>5
  <2>8. /\ answer \in Answer /\ answer.ok \in BOOLEAN /\ answer.token = n
        /\ answer.theme \in Themes /\ answer.theme = themes'[c.with.who]
    <3>1. themes'[c.with.who] \in Themes /\ n \in Nat
      BY <1>1, <1>2, <2>6
    <3> QED  BY <3>1 DEF Answer
  <2> HIDE DEF answer, n
  <2> QED  BY <1>3, <1>5, <2>2, <2>3, <2>4, <2>5, <2>6, <2>7, <2>8, HandingAnswered
<1> QED  BY <1>2, <1>4, <1>5 DEF Answers

LEMMA AnswersStays ==
    ASSUME IInv, NEW c \in inFlight.calls, Answers(c)
    PROVE  IInv'
<1>1. UNCHANGED <<store, shownAs, changes, ghost>> /\ c.reply = None
  BY DEF Answers
<1>2. CASE c.what = "read"
  BY <1>1, <1>2, ReadAnswered DEF Answers
<1>3. CASE c.what = "end"
  BY <1>1, <1>3, EndAnswered DEF Answers
<1>4. CASE c.what = "change"
  BY <1>1, <1>4, ChangeAnswered DEF Answers
<1>5. CASE c.what \in Handing
  BY <1>5, HandOverAnswered
<1> QED  BY <1>2, <1>3, <1>4, <1>5 DEF Answers, Handing

-----------------------------------------------------------------------------
(* What the page makes of an answer.                                       *)

LEMMA TakenTyped ==
    ASSUME Typed, UNCHANGED <<signIns, themes, changes>>,
           store' \in [token : Token, administrator : Token],
           Known(store'.token, signIns), Known(store'.administrator, signIns),
           shownAs' \in Page, Known(shownAs'.token, signIns), ghost' \in Ghost,
           inFlight' \in [calls : SUBSET Call, asked : Nat],
           \A d \in inFlight'.calls : d \in inFlight.calls \/ CallOK(d, signIns)
    PROVE  Typed'
BY DEF Typed, ByWhom

(* Nothing is taken on, but an answer about a change, while one waits.     *)
LEMMA TakenKept ==
    ASSUME IInv, UNCHANGED <<signIns, themes, changes>>,
           ~ghost'.unsure => ~ghost.unsure /\ ~Changing,
           \A d \in inFlight'.calls : d \in inFlight.calls \/ (d.what # "change" /\ d.reply = None),
           \/ shownAs'.token = shownAs.token /\ shownAs'.theme = shownAs.theme
           \/ shownAs'.token = None
           \/ ~ghost.unsure => shownAs'.theme = themes[signIns[shownAs'.token].who]
    PROVE  Kept'
<1>1. ASSUME ~ghost'.unsure
      PROVE  KeptOK(signIns, themes, shownAs', inFlight'.calls, changes)
  <2>1. KeptOK(signIns, themes, shownAs, inFlight.calls, changes)
    BY <1>1 DEF IInv, Kept
  <2>2. ChangesUnder(inFlight.calls) = {} /\ changes = <<>>
    BY <1>1, <2>1, NotChanging
  <2>3. ChangesUnder(inFlight'.calls) = {}
    BY <2>2 DEF ChangesUnder
  <2>4. \A d \in inFlight'.calls : HandedOK(d, signIns, themes)
    BY <2>1 DEF KeptOK, HandedOK
  <2>5. shownAs.token # None /\ WorksIn(signIns, shownAs.token) =>
          themes[signIns[shownAs.token].who] = shownAs.theme
    BY <2>1, <2>2 DEF KeptOK, ChainOK, Leads
  <2>6. shownAs'.token # None /\ WorksIn(signIns, shownAs'.token) =>
          themes[signIns[shownAs'.token].who] = shownAs'.theme
    BY <1>1, <2>5
  <2> QED  BY <2>2, <2>3, <2>4, <2>6, NoneUnder
<1> QED  BY <1>1 DEF Kept

LEMMA WithoutIs ==
    ASSUME inFlight \in [calls : SUBSET Call, asked : Nat], NEW c, inFlight' = Without(c)
    PROVE  /\ inFlight' \in [calls : SUBSET Call, asked : Nat]
           /\ inFlight'.calls = inFlight.calls \ {c}
BY DEF Without

LEMMA FollowedBy ==
    ASSUME inFlight \in [calls : SUBSET Call, asked : Nat], NEW c, NEW d \in Call,
           inFlight' = [Without(c) EXCEPT !.calls = @ \cup {d}]
    PROVE  /\ inFlight' \in [calls : SUBSET Call, asked : Nat]
           /\ inFlight'.calls = (inFlight.calls \ {c}) \cup {d}
BY DEF Without

LEMMA TakenGhost ==
    ASSUME Typed, NEW c \in inFlight.calls, c.mine, TakesAnswer(c)
    PROVE  /\ ghost' \in Ghost
           /\ c.what = "impersonate" /\ c.reply.ok => ghost'.comesBack = c.token
           /\ c.what \in Handing \ {"impersonate"} \/ (c.what = "end" /\ c.with = "sign-out") =>
                ghost'.comesBack = None
           /\ c.what \in {"read", "change"} \/ (c.what = "end" /\ c.with # "sign-out")
                 \/ (c.what = "impersonate" /\ ~c.reply.ok) => ghost'.comesBack = ghost.comesBack
           /\ c.what = "change" \/ (c.what = "impersonate" /\ ~c.reply.ok) => ghost'.late = ghost.late
           /\ c.what \in {"read", "end"} => (~ghost'.late => ~ghost.late /\ c.token = store.token)
           /\ ~ghost'.unsure => /\ ~ghost.unsure /\ ~Crossed(c)
                                /\ c.what # "change" => ~Changing
<1>1. ghost \in Ghost /\ c \in Call
  BY DEF Typed
<1>2. c.token \in Token /\ c.what \in Handing \cup {"read", "end", "change"}
  BY <1>1 DEF Call
<1> DEFINE back == IF c.what = "impersonate" /\ c.reply.ok THEN c.token
                   ELSE IF c.what \in {"google", "password", "adopt", "join"}
                           \/ (c.what = "end" /\ c.with = "sign-out") THEN None ELSE ghost.comesBack
           late == IF c.what = "impersonate" /\ c.reply.ok THEN FALSE
                   ELSE ghost.late \/ (c.what \in {"read", "end"} /\ c.token # store.token)
           unsure == ghost.unsure \/ Crossed(c) \/ (c.what # "change" /\ Changing)
<1>3. ghost' = [ghost EXCEPT !.comesBack = back, !.late = late, !.unsure = unsure]
  BY DEF TakesAnswer
<1>4. back \in Token /\ late \in BOOLEAN /\ unsure \in BOOLEAN
  BY <1>1, <1>2 DEF Ghost, Token
<1> HIDE DEF back, late, unsure
<1>5. /\ ghost' \in Ghost /\ ghost'.comesBack = back /\ ghost'.late = late
      /\ ghost'.unsure = unsure
  BY <1>1, <1>3, <1>4 DEF Ghost
<1>6. c.what = "impersonate" /\ c.reply.ok => back = c.token
  BY DEF back
<1>7. c.what \in Handing \ {"impersonate"} \/ (c.what = "end" /\ c.with = "sign-out") => back = None
  BY DEF back, Handing
<1>8. c.what \in {"read", "change"} \/ (c.what = "end" /\ c.with # "sign-out")
        \/ (c.what = "impersonate" /\ ~c.reply.ok) => back = ghost.comesBack
  BY DEF back
<1>9. c.what = "change" \/ (c.what = "impersonate" /\ ~c.reply.ok) => (late <=> ghost.late)
  BY DEF late
<1>10. c.what \in {"read", "end"} => (~late => ~ghost.late /\ c.token = store.token)
  BY DEF late
<1>11. ~unsure => ~ghost.unsure /\ ~Crossed(c) /\ (c.what # "change" => ~Changing)
  BY DEF unsure
<1>12. ghost.late \in BOOLEAN
  BY <1>1 DEF Ghost
<1> QED  BY <1>4, <1>5, <1>6, <1>7, <1>8, <1>9, <1>10, <1>11, <1>12

LEMMA DisownedTaken ==
    ASSUME IInv, NEW c \in inFlight.calls, ~c.mine, inFlight' = Without(c),
           UNCHANGED <<signIns, themes, store, shownAs, changes, ghost>>
    PROVE  IInv'
<1>1. inFlight \in [calls : SUBSET Call, asked : Nat]
  BY DEF IInv, Typed
<1>2. /\ inFlight' \in [calls : SUBSET Call, asked : Nat]
      /\ inFlight'.calls = inFlight.calls \ {c}
  BY <1>1, WithoutIs
<1>3. Typed'
  BY <1>2 DEF IInv, Typed, ByWhom
<1>4. Back'
  BY DEF IInv, Back
<1>5. ASSUME ~ghost.unsure  PROVE KeptOK(signIns, themes, shownAs, inFlight'.calls, changes)
  <2>1. KeptOK(signIns, themes, shownAs, inFlight.calls, changes)
    BY <1>5 DEF IInv, Kept
  <2>2. ChangesUnder(inFlight'.calls) = ChangesUnder(inFlight.calls)
    BY <1>2, <2>1 DEF KeptOK, ChangesUnder
  <2>3. \A d \in inFlight'.calls : d \in inFlight.calls
    BY <1>2
  <2> QED  BY <2>1, <2>2, <2>3, CallsKept
<1>6. Kept'
  BY <1>5 DEF Kept
<1> QED  BY <1>3, <1>4, <1>6 DEF IInv

LEMMA ReadTaken ==
    ASSUME IInv, NEW c \in inFlight.calls, c.mine, c.what = "read", TakesAnswer(c)
    PROVE  IInv'
<1> DEFINE d == [c EXCEPT !.token = store.administrator, !.reply = None]
<1>1. /\ inFlight \in [calls : SUBSET Call, asked : Nat] /\ c \in Call /\ CallOK(c, signIns)
      /\ store \in [token : Token, administrator : Token] /\ Typed
      /\ Known(store.token, signIns) /\ Known(store.administrator, signIns)
      /\ shownAs \in Page /\ Known(shownAs.token, signIns)
      /\ BackOK(signIns, store, shownAs, ghost)
  BY DEF IInv, Typed, Back
<1>2. /\ c.token \in DOMAIN signIns /\ c.with \in {"open", "stop"} /\ c.token \in Token
      /\ c.reply # None => /\ c.reply.ok \in BOOLEAN
                           /\ c.reply.ok => c.reply.theme \in Themes
                           /\ ~c.reply.ok => ~WorksIn(signIns, c.token)
  BY <1>1 DEF CallOK, Handing, Call
<1>3. /\ ghost' \in Ghost /\ ghost'.comesBack = ghost.comesBack
      /\ ~ghost'.late => ~ghost.late /\ c.token = store.token
      /\ ~ghost'.unsure => ~ghost.unsure /\ ~Changing
  BY <1>1, TakenGhost
<1>4. UNCHANGED <<signIns, themes, changes>> /\ c.reply # None /\ FetchSession(c)
  BY DEF TakesAnswer
<1>5. None \notin Nat
  BY SessionAssumption
<1>6. CASE c.reply.ok
  <2>1. /\ shownAs' = Ready(c.token, c.reply.theme) /\ inFlight' = Without(c) /\ UNCHANGED store
    BY <1>4, <1>6 DEF FetchSession
  <2>2. /\ shownAs' \in Page /\ shownAs'.token = c.token /\ shownAs'.theme = c.reply.theme
    BY <1>2, <1>4, <1>6, <2>1 DEF Ready, Page
  <2>3. /\ inFlight' \in [calls : SUBSET Call, asked : Nat]
        /\ inFlight'.calls = inFlight.calls \ {c}
    BY <1>1, <2>1, WithoutIs
  <2>4. Typed'
    BY <1>1, <1>2, <1>3, <1>4, <2>1, <2>2, <2>3, TakenTyped DEF Known
  <2>5. BackOK(signIns, store, shownAs', ghost')
    BY <1>1, <1>2, <1>3, <2>2 DEF BackOK, WayBack
  <2>6. ~ghost.unsure => shownAs'.theme = themes[signIns[shownAs'.token].who]
    <3>1. ~ghost.unsure => HandedOK(c, signIns, themes)
      BY DEF IInv, Kept, KeptOK
    <3> QED  BY <1>4, <1>6, <2>2, <3>1 DEF HandedOK, HandsOver
  <2>7. Kept'
    BY <1>3, <1>4, <2>3, <2>6, TakenKept
  <2> QED  BY <1>4, <2>1, <2>4, <2>5, <2>7 DEF IInv, Back
<1>7. CASE ~c.reply.ok /\ store.administrator = None
  <2>1. /\ store' = [store EXCEPT !.token = None] /\ shownAs' = Nobody /\ inFlight' = Without(c)
    BY <1>4, <1>7 DEF FetchSession
  <2>2. /\ shownAs' \in Page /\ shownAs'.token = None
    BY <2>1, SessionAssumption DEF Nobody, Ready, Page, Token
  <2>3. /\ inFlight' \in [calls : SUBSET Call, asked : Nat]
        /\ inFlight'.calls = inFlight.calls \ {c}
    BY <1>1, <2>1, WithoutIs
  <2>4. /\ store' \in [token : Token, administrator : Token]
        /\ store'.token = None /\ store'.administrator = None
    BY <1>1, <1>7, <2>1 DEF Token
  <2>5. Typed'
    BY <1>1, <1>3, <1>4, <2>2, <2>3, <2>4, TakenTyped DEF Known
  <2>6. BackOK(signIns, store', shownAs', ghost')
    BY <1>1, <1>2, <1>3, <1>4, <1>7 DEF BackOK, WayBack
  <2>7. Kept'
    BY <1>3, <1>4, <2>2, <2>3, TakenKept
  <2> QED  BY <1>4, <2>5, <2>6, <2>7 DEF IInv, Back
<1>8. CASE ~c.reply.ok /\ store.administrator # None
  <2>1. /\ store' = [token |-> store.administrator, administrator |-> None] /\ UNCHANGED shownAs
        /\ inFlight' = [Without(c) EXCEPT !.calls = @ \cup {d}]
    BY <1>4, <1>8 DEF FetchSession
  <2>2. /\ d \in Call /\ d.what = "read" /\ d.token = store.administrator
        /\ d.with = c.with /\ d.reply = None
    BY <1>1 DEF Call
  <2> HIDE DEF d
  <2>3. /\ inFlight' \in [calls : SUBSET Call, asked : Nat]
        /\ inFlight'.calls = (inFlight.calls \ {c}) \cup {d}
    BY <1>1, <2>1, <2>2, FollowedBy
  <2>4. CallOK(d, signIns)
    BY <1>1, <1>2, <1>8, <2>2 DEF CallOK, Handing, Known
  <2>5. /\ store' \in [token : Token, administrator : Token]
        /\ store'.token = store.administrator /\ store'.administrator = None
    BY <1>1, <2>1 DEF Token
  <2>6. Typed'
    <3>1. Known(store'.administrator, signIns) /\ Known(store'.token, signIns)
      BY <1>1, <2>5 DEF Known
    <3> QED  BY <1>1, <1>3, <1>4, <2>1, <2>3, <2>4, <2>5, <3>1, TakenTyped
  <2>7. BackOK(signIns, store', shownAs, ghost')
    BY <1>1, <1>3, <1>8, <2>5 DEF BackOK, WayBack
  <2>8. Kept'
    BY <1>3, <1>4, <2>1, <2>2, <2>3, TakenKept
  <2> QED  BY <1>4, <2>1, <2>6, <2>7, <2>8 DEF IInv, Back
<1> QED  BY <1>6, <1>7, <1>8

LEMMA EndTaken ==
    ASSUME IInv, NEW c \in inFlight.calls, c.mine, c.what = "end", TakesAnswer(c)
    PROVE  IInv'
<1> DEFINE d == [c EXCEPT !.what = "read", !.token = store.administrator, !.with = "stop",
                          !.reply = None]
<1>1. /\ inFlight \in [calls : SUBSET Call, asked : Nat] /\ c \in Call /\ CallOK(c, signIns)
      /\ store \in [token : Token, administrator : Token] /\ Typed
      /\ Known(store.token, signIns) /\ Known(store.administrator, signIns)
      /\ shownAs \in Page /\ Known(shownAs.token, signIns)
      /\ BackOK(signIns, store, shownAs, ghost)
      /\ \A u \in DOMAIN signIns : signIns[u].by # None => signIns[u].who \in Accounts
  BY DEF IInv, Typed, Back, ByWhom
<1>2. /\ c.token \in DOMAIN signIns /\ c.with \in {"stop", "sign-out", "behind"}
      /\ c.with = "behind" => signIns[c.token].who = Guest
      /\ c.with = "stop" => signIns[c.token].by # None
  BY <1>1 DEF CallOK, Handing
<1>3. /\ ghost' \in Ghost
      /\ c.with = "sign-out" => ghost'.comesBack = None
      /\ c.with # "sign-out" => ghost'.comesBack = ghost.comesBack
      /\ ~ghost'.late => ~ghost.late /\ c.token = store.token
      /\ ~ghost'.unsure => ~ghost.unsure /\ ~Changing
  BY <1>1, TakenGhost
<1>4. /\ UNCHANGED <<signIns, themes, changes>>
      /\ IF c.with = "stop" THEN EndImpersonation(c) ELSE EndSession(c)
  BY DEF TakesAnswer
<1>5. None \notin Nat /\ Administrator # Guest /\ Guest \notin Accounts
  BY SessionAssumption
<1>6. CASE c.with = "stop" /\ store.administrator # None
  <2>1. /\ store' = [token |-> store.administrator, administrator |-> None] /\ UNCHANGED shownAs
        /\ inFlight' = [Without(c) EXCEPT !.calls = @ \cup {d}]
    BY <1>4, <1>6 DEF EndImpersonation
  <2>2. /\ d \in Call /\ d.what = "read" /\ d.token = store.administrator
        /\ d.with = "stop" /\ d.reply = None
    BY <1>1 DEF Call, With
  <2> HIDE DEF d
  <2>3. /\ inFlight' \in [calls : SUBSET Call, asked : Nat]
        /\ inFlight'.calls = (inFlight.calls \ {c}) \cup {d}
    BY <1>1, <2>1, <2>2, FollowedBy
  <2>4. CallOK(d, signIns)
    BY <1>1, <1>6, <2>2 DEF CallOK, Handing, Known
  <2>5. /\ store' \in [token : Token, administrator : Token]
        /\ store'.token = store.administrator /\ store'.administrator = None
    BY <1>1, <2>1 DEF Token
  <2>6. Typed'
    <3>1. Known(store'.administrator, signIns) /\ Known(store'.token, signIns)
      BY <1>1, <2>5 DEF Known
    <3> QED  BY <1>1, <1>3, <1>4, <2>1, <2>3, <2>4, <2>5, <3>1, TakenTyped
  <2>7. BackOK(signIns, store', shownAs, ghost')
    BY <1>1, <1>2, <1>3, <1>6, <2>5 DEF BackOK, WayBack
  <2>8. Kept'
    BY <1>3, <1>4, <2>1, <2>2, <2>3, TakenKept
  <2> QED  BY <1>4, <2>1, <2>6, <2>7, <2>8 DEF IInv, Back
<1>7. CASE c.with = "stop" /\ store.administrator = None
  <2>1. /\ store' = [token |-> store.administrator, administrator |-> None]
        /\ shownAs' = Nobody /\ inFlight' = Without(c)
    BY <1>4, <1>7 DEF EndImpersonation
  <2>2. /\ shownAs' \in Page /\ shownAs'.token = None
    BY <2>1, SessionAssumption DEF Nobody, Ready, Page, Token
  <2>3. /\ inFlight' \in [calls : SUBSET Call, asked : Nat]
        /\ inFlight'.calls = inFlight.calls \ {c}
    BY <1>1, <2>1, WithoutIs
  <2>4. /\ store' \in [token : Token, administrator : Token]
        /\ store'.token = None /\ store'.administrator = None
    BY <1>7, <2>1 DEF Token
  <2>5. Typed'
    BY <1>1, <1>3, <1>4, <2>2, <2>3, <2>4, TakenTyped DEF Known
  <2>6. BackOK(signIns, store', shownAs', ghost')
    BY <1>1, <1>2, <1>3, <1>7 DEF BackOK, WayBack
  <2>7. Kept'
    BY <1>3, <1>4, <2>2, <2>3, TakenKept
  <2> QED  BY <1>4, <2>5, <2>6, <2>7 DEF IInv, Back
<1>8. CASE c.with # "stop"
  <2>1. /\ store' = [store EXCEPT !.token = None] /\ inFlight' = Without(c)
        /\ shownAs' = IF c.with = "sign-out" THEN Nobody ELSE shownAs
    BY <1>4, <1>8 DEF EndSession
  <2>2. /\ shownAs' \in Page /\ Known(shownAs'.token, signIns)
        /\ shownAs'.token = None \/ shownAs' = shownAs
    BY <1>1, <2>1, SessionAssumption DEF Nobody, Ready, Page, Token, Known
  <2>3. /\ inFlight' \in [calls : SUBSET Call, asked : Nat]
        /\ inFlight'.calls = inFlight.calls \ {c}
    BY <1>1, <2>1, WithoutIs
  <2>4. /\ store' \in [token : Token, administrator : Token]
        /\ store'.token = None /\ store'.administrator = store.administrator
    BY <1>1, <2>1 DEF Token
  <2>5. Typed'
    <3>1. Known(store'.administrator, signIns) /\ Known(store'.token, signIns)
      BY <1>1, <2>4 DEF Known
    <3> QED  BY <1>1, <1>3, <1>4, <2>2, <2>3, <2>4, <3>1, TakenTyped
  <2>6. BackOK(signIns, store', shownAs', ghost')
    <3>1. CASE c.with = "sign-out"
      BY <1>3, <3>1 DEF BackOK
    <3>2. CASE c.with = "behind"
      BY <1>1, <1>2, <1>3, <1>5, <3>2 DEF BackOK, WayBack
    <3> QED  BY <1>2, <1>8, <3>1, <3>2
  <2>7. Kept'
    BY <1>3, <1>4, <2>2, <2>3, TakenKept
  <2> QED  BY <1>4, <2>5, <2>6, <2>7 DEF IInv, Back
<1> QED  BY <1>6, <1>7, <1>8

LEMMA HandOverTaken ==
    ASSUME IInv, NEW c \in inFlight.calls, c.mine, c.what \in Handing, TakesAnswer(c)
    PROVE  IInv'
<1> DEFINE d == [c EXCEPT !.what = "end", !.token = c.with.behind, !.with = "behind", !.reply = None]
<1>1. /\ inFlight \in [calls : SUBSET Call, asked : Nat] /\ c \in Call /\ CallOK(c, signIns)
      /\ store \in [token : Token, administrator : Token] /\ Typed
      /\ Known(store.token, signIns) /\ Known(store.administrator, signIns)
      /\ shownAs \in Page /\ Known(shownAs.token, signIns)
      /\ BackOK(signIns, store, shownAs, ghost) /\ signIns \in Seq(SignIn)
  BY DEF IInv, Typed, Back
<1>2. c.what \notin {"read", "end", "change"} /\ c.reply # None
  BY DEF Handing, TakesAnswer
<1>3. /\ c.with \in [who : People, behind : Token] /\ c.reply.ok \in BOOLEAN
      /\ c.with.behind # None => /\ c.with.behind \in DOMAIN signIns
                                 /\ signIns[c.with.behind].who = Guest
      /\ c.what = "impersonate" =>
           /\ c.token \in DOMAIN signIns
           /\ signIns[c.token].who = Administrator /\ signIns[c.token].by = None
      /\ c.reply.ok => /\ c.reply.token \in DOMAIN signIns /\ c.reply.theme \in Themes
                       /\ c.what = "impersonate" => signIns[c.reply.token].by = c.token
  BY <1>1, <1>2 DEF CallOK
<1>4. /\ ghost' \in Ghost
      /\ c.what = "impersonate" /\ c.reply.ok => ghost'.comesBack = c.token
      /\ c.what # "impersonate" => ghost'.comesBack = None
      /\ c.what = "impersonate" /\ ~c.reply.ok =>
           ghost'.comesBack = ghost.comesBack /\ ghost'.late = ghost.late
      /\ ~ghost'.unsure => ~ghost.unsure /\ ~Changing
  BY <1>1, <1>2, TakenGhost
<1>5. /\ UNCHANGED <<signIns, themes, changes>>
      /\ IF c.reply.ok THEN KeepSession(c) ELSE inFlight' = Without(c) /\ UNCHANGED <<store, shownAs>>
  BY <1>2 DEF TakesAnswer
<1>6. CASE ~c.reply.ok
  <2>1. /\ inFlight' \in [calls : SUBSET Call, asked : Nat]
        /\ inFlight'.calls = inFlight.calls \ {c}
    BY <1>1, <1>5, <1>6, WithoutIs
  <2>2. UNCHANGED <<store, shownAs>>
    BY <1>5, <1>6
  <2>3. Typed'
    BY <1>1, <1>4, <1>5, <2>1, <2>2, TakenTyped
  <2>4. BackOK(signIns, store, shownAs, ghost')
    BY <1>1, <1>4, <1>6 DEF BackOK
  <2>5. Kept'
    BY <1>4, <1>5, <2>1, <2>2, TakenKept
  <2> QED  BY <1>5, <2>2, <2>3, <2>4, <2>5 DEF IInv, Back
<1>7. CASE c.reply.ok
  <2>1. /\ store' = [token |-> c.reply.token,
                     administrator |-> IF c.what = "impersonate" THEN c.token ELSE store.administrator]
        /\ shownAs' = Ready(c.reply.token, c.reply.theme)
        /\ inFlight' = IF c.with.behind = None THEN Without(c)
                       ELSE [Without(c) EXCEPT !.calls = @ \cup {d}]
    BY <1>5, <1>7 DEF KeepSession
  <2>2. c.reply.token \in Token /\ c.token \in Token
    BY <1>1, <1>3, <1>7 DEF Token, Call
  <2>3. /\ shownAs' \in Page /\ shownAs'.token = c.reply.token /\ shownAs'.theme = c.reply.theme
    BY <1>3, <1>7, <2>1, <2>2 DEF Ready, Page
  <2>4. /\ store' \in [token : Token, administrator : Token] /\ store'.token = c.reply.token
        /\ store'.administrator = IF c.what = "impersonate" THEN c.token ELSE store.administrator
    BY <1>1, <2>1, <2>2
  <2>5. /\ inFlight' \in [calls : SUBSET Call, asked : Nat]
        /\ \A e \in inFlight'.calls : e \in inFlight.calls
                 \/ (e.what # "change" /\ e.reply = None /\ CallOK(e, signIns))
    <3>1. CASE c.with.behind = None
      BY <1>1, <2>1, <3>1, WithoutIs
    <3>2. CASE c.with.behind # None
      <4>1. /\ d \in Call /\ d.what = "end" /\ d.token = c.with.behind
            /\ d.with = "behind" /\ d.reply = None
        BY <1>1, <1>3 DEF Call, With
      <4>2. inFlight' = [Without(c) EXCEPT !.calls = @ \cup {d}]
        BY <2>1, <3>2
      <4> HIDE DEF d
      <4>3. CallOK(d, signIns)
        BY <1>3, <3>2, <4>1 DEF CallOK, Handing
      <4> QED  BY <1>1, <4>1, <4>2, <4>3, FollowedBy
    <3> QED  BY <3>1, <3>2
  <2> HIDE DEF d
  <2>6. Typed'
    <3>1. /\ Known(store'.administrator, signIns) /\ Known(store'.token, signIns)
          /\ Known(shownAs'.token, signIns)
      BY <1>1, <1>3, <1>7, <2>3, <2>4 DEF Known
    <3> QED  BY <1>1, <1>4, <1>5, <2>3, <2>4, <2>5, <3>1, TakenTyped
  <2>7. BackOK(signIns, store', shownAs', ghost')
    BY <1>3, <1>4, <1>7, <2>3, <2>4 DEF BackOK, WayBack
  <2>8. Kept'
    <3>1. ~ghost.unsure => HandedOK(c, signIns, themes)
      BY DEF IInv, Kept, KeptOK
    <3>2. ~ghost.unsure => shownAs'.theme = themes[signIns[shownAs'.token].who]
      BY <1>2, <1>7, <2>3, <3>1 DEF HandedOK, HandsOver, Handing
    <3> QED  BY <1>4, <1>5, <2>5, <3>2, TakenKept
  <2> QED  BY <1>5, <2>6, <2>7, <2>8 DEF IInv, Back
<1> QED  BY <1>3, <1>6, <1>7

(* The one change under way is over: the page has what it shows from it.   *)
LEMMA ChangeOver ==
    ASSUME IInv, NEW c \in inFlight.calls, c.what = "change",
           UNCHANGED <<signIns, themes, changes>>, inFlight'.calls = inFlight.calls \ {c},
           shownAs'.token = shownAs.token, shownAs'.state = shownAs.state,
           \/ c.reply # None /\ shownAs'.theme = shownAs.theme
           \/ changes = <<>> /\ ~WorksIn(signIns, shownAs.token)
           \/ /\ changes = <<>> /\ c.reply = None
              /\ shownAs.token # None /\ shownAs.state = "ready" /\ shownAs.theme = c.with.theme =>
                   shownAs'.theme = c.with.before,
           ~ghost'.unsure => ~ghost.unsure
    PROVE  Kept'
<1>1. ASSUME ~ghost.unsure
      PROVE  KeptOK(signIns, themes, shownAs', inFlight'.calls, changes)
  <2>1. KeptOK(signIns, themes, shownAs, inFlight.calls, changes)
    BY <1>1 DEF IInv, Kept
  <2>2. ChangesUnder(inFlight.calls) = {c} /\ ChangesUnder(inFlight'.calls) = {}
    BY <2>1 DEF KeptOK, ChangesUnder
  <2>3. ASSUME shownAs.token # None, WorksIn(signIns, shownAs.token)
        PROVE  Leads(changes, themes[signIns[shownAs.token].who], shownAs'.theme)
    <3>1. /\ Leads(changes, c.with.theme, shownAs.theme)
          /\ c.reply = None => themes[signIns[shownAs.token].who] = c.with.before
          /\ c.reply # None => themes[signIns[shownAs.token].who] = c.with.theme
          /\ shownAs.state = "ready"
      BY <2>1, <2>2, <2>3 DEF KeptOK, ChainOK
    <3>2. CASE c.reply # None /\ shownAs'.theme = shownAs.theme
      BY <3>1, <3>2
    <3>3. CASE /\ changes = <<>> /\ c.reply = None
               /\ shownAs.token # None /\ shownAs.state = "ready" /\ shownAs.theme = c.with.theme =>
                    shownAs'.theme = c.with.before
      <4>1. shownAs'.theme = themes[signIns[shownAs.token].who]
        BY <2>3, <3>1, <3>3 DEF Leads
      <4>2. Len(<<>>) = 0 /\ 1 .. (0 - 1) = {}
        OBVIOUS
      <4> QED  BY <3>3, <4>1, <4>2 DEF Leads
    <3> QED  BY <2>3, <3>2, <3>3
  <2>4. ChainOK(signIns, themes, shownAs', inFlight'.calls, changes)
    BY <2>2, <2>3 DEF ChainOK
  <2>5. \A e \in inFlight'.calls : e \in inFlight.calls
    OBVIOUS
  <2> QED  BY <2>1, <2>2, <2>4, <2>5 DEF KeptOK
<1> QED  BY <1>1 DEF Kept

LEMMA ChangeTaken ==
    ASSUME IInv, NEW c \in inFlight.calls, c.mine, c.what = "change", TakesAnswer(c)
    PROVE  IInv'
<1>1. /\ inFlight \in [calls : SUBSET Call, asked : Nat] /\ CallOK(c, signIns) /\ Typed
      /\ shownAs \in Page /\ Known(shownAs.token, signIns)
      /\ BackOK(signIns, store, shownAs, ghost)
      /\ store \in [token : Token, administrator : Token]
      /\ Known(store.token, signIns) /\ Known(store.administrator, signIns)
  BY DEF IInv, Typed, Back
<1>2. /\ UNCHANGED <<signIns, themes, changes, store>> /\ Revert(c) /\ c.reply # None
      /\ inFlight' = Without(c)
  BY DEF TakesAnswer, Revert
<1>3. /\ c.with \in PrefChange /\ c.token = c.with.token /\ c.reply.ok \in BOOLEAN
      /\ ~c.reply.ok => ~WorksIn(signIns, c.token)
  BY <1>1, <1>2 DEF CallOK, Handing
<1>4. /\ ghost' \in Ghost /\ ghost'.comesBack = ghost.comesBack /\ ghost'.late = ghost.late
      /\ ~ghost'.unsure => ~ghost.unsure /\ ~Crossed(c)
  BY <1>1, TakenGhost
<1>5. /\ shownAs' \in Page /\ shownAs'.token = shownAs.token /\ shownAs'.state = shownAs.state
      /\ c.reply.ok => shownAs'.theme = shownAs.theme
  BY <1>1, <1>2, <1>3 DEF Revert, Page, PrefChange
<1>6. /\ inFlight' \in [calls : SUBSET Call, asked : Nat]
      /\ inFlight'.calls = inFlight.calls \ {c}
  BY <1>1, <1>2, WithoutIs
<1>7. Typed'
  BY <1>1, <1>2, <1>4, <1>5, <1>6, TakenTyped
<1>8. BackOK(signIns, store, shownAs', ghost')
  BY <1>1, <1>4, <1>5, SameGrows, BackStays
<1>9. ASSUME ~ghost'.unsure  PROVE Kept'
  <2>1. CASE c.reply.ok
    BY <1>2, <1>4, <1>5, <1>6, <2>1, ChangeOver
  <2>2. CASE ~c.reply.ok
    <3>1. changes = <<>> /\ shownAs.token = c.with.token
      BY <1>4, <1>9, <2>2 DEF Crossed
    <3> QED  BY <1>2, <1>3, <1>4, <1>5, <1>6, <2>2, <3>1, ChangeOver
  <2> QED  BY <1>3, <2>1, <2>2
<1>10. Kept'
  BY <1>9 DEF Kept
<1> QED  BY <1>2, <1>7, <1>8, <1>10 DEF IInv, Back

LEMMA AnswerTaken ==
    ASSUME IInv, NEW c \in inFlight.calls, TakesAnswer(c)
    PROVE  IInv'
<1>1. CASE ~c.mine
  BY <1>1, DisownedTaken DEF TakesAnswer
<1>2. CASE c.mine
  <2>1. c.what \in Handing \cup {"read", "end", "change"}
    BY DEF IInv, Typed, Call
  <2> QED  BY <1>2, <2>1, ReadTaken, EndTaken, ChangeTaken, HandOverTaken
<1> QED  BY <1>1, <1>2

LEMMA GhostLost ==
    ASSUME NEW g \in Ghost, NEW u \in BOOLEAN, NEW n \in Nat
    PROVE  LET h == [g EXCEPT !.away = n, !.unsure = u] IN
           h \in Ghost /\ h.comesBack = g.comesBack /\ h.late = g.late /\ h.unsure = u
BY DEF Ghost

(* A change lost is answered to the page as one refused.                   *)
LEMMA CallLost ==
    ASSUME IInv, NEW c \in inFlight.calls, LoseCall(c)
    PROVE  IInv'
<1> DEFINE unsure == ghost.unsure \/ (c.what = "change" /\ (c.reply # None
                        \/ Crossed([c EXCEPT !.reply = [ok |-> FALSE]])))
<1>1. /\ inFlight \in [calls : SUBSET Call, asked : Nat] /\ CallOK(c, signIns) /\ Typed
      /\ shownAs \in Page /\ Known(shownAs.token, signIns) /\ c \in Call
      /\ BackOK(signIns, store, shownAs, ghost) /\ ghost \in Ghost
      /\ store \in [token : Token, administrator : Token]
      /\ Known(store.token, signIns) /\ Known(store.administrator, signIns)
  BY DEF IInv, Typed, Back
<1>2. /\ UNCHANGED <<signIns, themes, store, changes>> /\ inFlight' = Without(c)
      /\ ghost' = [ghost EXCEPT !.away = @ + 1, !.unsure = unsure]
      /\ shownAs' = IF ~c.mine THEN shownAs
                    ELSE IF c.what = "read" /\ c.with = "open" THEN [shownAs EXCEPT !.state = "error"]
                    ELSE IF c.what = "change" /\ IsReady /\ shownAs.theme = c.with.theme
                         THEN [shownAs EXCEPT !.theme = c.with.before] ELSE shownAs
  BY DEF LoseCall
<1>3. unsure \in BOOLEAN
  BY <1>1 DEF Ghost
<1>4. ~unsure => /\ ~ghost.unsure
                 /\ c.what = "change" => /\ c.reply = None /\ changes = <<>>
                                         /\ shownAs.token = c.with.token
  <2>1. LET lost == [c EXCEPT !.reply = [ok |-> FALSE]] IN
        lost.what = c.what /\ ~lost.reply.ok /\ lost.with = c.with
    BY <1>1 DEF Call
  <2> QED  BY <2>1 DEF Crossed, unsure
<1> HIDE DEF unsure
<1>5. /\ ghost' \in Ghost /\ ghost'.comesBack = ghost.comesBack /\ ghost'.late = ghost.late
      /\ ghost'.unsure = unsure
  <2>1. ghost.away + 1 \in Nat
    BY <1>1 DEF Ghost
  <2>2. ghost' = [ghost EXCEPT !.away = ghost.away + 1, !.unsure = unsure]
    BY <1>2
  <2>3. ghost \in Ghost
    BY <1>1
  <2> DEFINE h(g, n, u) == [g EXCEPT !.away = n, !.unsure = u]
  <2>4. \A n \in Nat : LET g2 == h(ghost, n, unsure) IN
          /\ g2 \in Ghost /\ g2.comesBack = ghost.comesBack /\ g2.late = ghost.late
          /\ g2.unsure = unsure
    BY <1>3, <2>3, GhostLost
  <2> QED  BY <2>1, <2>2, <2>4
<1>6. c.what = "change" => c.with \in PrefChange /\ c.token = c.with.token
  BY <1>1 DEF CallOK, Handing
<1>7. /\ shownAs' \in Page /\ shownAs'.token = shownAs.token
      /\ c.what # "read" => shownAs'.state = shownAs.state
      /\ c.what # "change" => shownAs'.theme = shownAs.theme
      /\ shownAs'.state = "ready" => shownAs.state = "ready"
      /\ ~c.mine => shownAs' = shownAs
  BY <1>1, <1>2, <1>6 DEF Page, PrefChange
<1>8. /\ inFlight' \in [calls : SUBSET Call, asked : Nat]
      /\ inFlight'.calls = inFlight.calls \ {c}
  BY <1>1, <1>2, WithoutIs
<1>9. Typed'
  BY <1>1, <1>2, <1>5, <1>7, <1>8, TakenTyped
<1>10. BackOK(signIns, store, shownAs', ghost')
  BY <1>1, <1>5, <1>7, SameGrows, BackStays
<1>11. ASSUME ~unsure  PROVE Kept'
  <2>1. KeptOK(signIns, themes, shownAs, inFlight.calls, changes)
    BY <1>4, <1>11 DEF IInv, Kept
  <2>2. CASE c.what = "change"
    <3>1. c.mine /\ changes = <<>> /\ c.reply = None
      BY <1>4, <1>11, <2>1, <2>2 DEF KeptOK, ChangesUnder
    <3>2. shownAs.token # None /\ shownAs.state = "ready" /\ shownAs.theme = c.with.theme =>
            shownAs'.theme = c.with.before
      BY <1>1, <1>2, <2>2, <3>1 DEF IsReady, Page
    <3> QED  BY <1>2, <1>4, <1>5, <1>7, <1>8, <1>11, <2>2, <3>1, <3>2, ChangeOver
  <2>3. CASE c.what # "change" /\ (ChangesUnder(inFlight.calls) # {} \/ changes # <<>>)
    <3>1. ~(c.mine /\ c.what = "read")
      BY <2>1, <2>3 DEF KeptOK, HandsOver
    <3>2. shownAs' = shownAs
      BY <1>2, <2>3, <3>1
    <3>3. ChangesUnder(inFlight'.calls) = ChangesUnder(inFlight.calls)
      BY <1>8, <2>3 DEF ChangesUnder
    <3>4. KeptOK(signIns, themes, shownAs, inFlight'.calls, changes)
      BY <1>8, <2>1, <3>3, CallsKept
    <3> QED  BY <1>2, <3>2, <3>4 DEF Kept
  <2>4. CASE c.what # "change" /\ ChangesUnder(inFlight.calls) = {} /\ changes = <<>>
    <3>1. ChangesUnder(inFlight'.calls) = {}
      BY <1>8, <2>4 DEF ChangesUnder
    <3>2. \A e \in inFlight'.calls : HandedOK(e, signIns, themes)
      BY <1>8, <2>1 DEF KeptOK
    <3>3. shownAs'.token # None /\ WorksIn(signIns, shownAs'.token) =>
            themes[signIns[shownAs'.token].who] = shownAs'.theme
      BY <1>7, <2>1, <2>4 DEF KeptOK, ChainOK, Leads
    <3>4. KeptOK(signIns, themes, shownAs', inFlight'.calls, <<>>)
      BY <3>1, <3>2, <3>3, NoneUnder
    <3> QED  BY <1>2, <2>4, <3>4 DEF Kept
  <2> QED  BY <2>2, <2>3, <2>4
<1>12. Kept'
  BY <1>5, <1>11 DEF Kept
<1> QED  BY <1>2, <1>9, <1>10, <1>12 DEF IInv, Back

-----------------------------------------------------------------------------
LEMMA IInvInit == SessionInit => IInv
<1> SUFFICES ASSUME SessionInit  PROVE IInv
  OBVIOUS
<1> DEFINE s(who) == SignedIn(who, None)
<1>1. PICK who \in People : signIns = <<SignedIn(who, None)>>
  BY DEF SessionInit, People
<1>2. SignedIn(who, None) \in SignIn /\ SignedIn(who, None).by = None
  BY DEF SignedIn, SignIn, Token
<1>3. signIns \in Seq(SignIn) /\ DOMAIN signIns = {1} /\ signIns[1].by = None /\ signIns[1].who = who
  BY <1>1, <1>2 DEF SignedIn
<1>4. /\ themes = [p \in People |-> DefaultTheme] /\ store = [token |-> 1, administrator |-> None]
      /\ shownAs = [state |-> "ready", token |-> 1, theme |-> DefaultTheme]
      /\ inFlight = [calls |-> {}, asked |-> 0] /\ changes = <<>>
      /\ ghost = [comesBack |-> None, stopped |-> None, twice |-> FALSE, late |-> FALSE,
                  unsure |-> FALSE, away |-> 0]
  BY DEF SessionInit, People, Ready
<1>5. Typed
  <2>1. /\ themes \in [People -> Themes] /\ store \in [token : Token, administrator : Token]
        /\ shownAs \in Page /\ inFlight \in [calls : SUBSET Call, asked : Nat]
        /\ changes \in Seq(PrefChange) /\ ghost \in Ghost
    BY <1>4, SessionAssumption DEF Token, Page, Ghost
  <2>2. Known(store.token, signIns) /\ Known(store.administrator, signIns) /\ Known(shownAs.token, signIns)
    BY <1>3, <1>4 DEF Known
  <2>3. \A t \in DOMAIN signIns : ByWhom(t) # None => signIns[t].who \in Accounts
    BY <1>3 DEF ByWhom
  <2>4. \A i \in DOMAIN changes : changes[i].token \in DOMAIN signIns
    BY <1>4
  <2> QED  BY <1>3, <1>4, <2>1, <2>2, <2>3, <2>4 DEF Typed
<1>6. Back
  BY <1>4 DEF Back, BackOK
<1>7. KeptOK(signIns, themes, shownAs, {}, <<>>)
  <2>1. ChangesUnder({}) = {} /\ themes[who] = DefaultTheme
    BY <1>4 DEF ChangesUnder
  <2>2. shownAs.token = 1 /\ shownAs.theme = DefaultTheme
    BY <1>4
  <2> QED  BY <1>3, <2>1, <2>2, NoneUnder
<1> QED  BY <1>4, <1>5, <1>6, <1>7 DEF IInv, Kept

LEMMA IInvStays == IInv /\ [SessionNext]_sessionVars => IInv'
<1> SUFFICES ASSUME IInv, [SessionNext]_sessionVars  PROVE IInv'
  OBVIOUS
<1>1. CASE OpenPage \/ Retry
  BY <1>1, PageOpened DEF Retry
<1>2. CASE \/ \E who \in Accounts : \/ Adopt(who) \/ StartImpersonation(who)
                                      \/ \E how \in {"google", "place", "password"} : SignInWith(who, how)
           \/ JoinAnonymously
  BY <1>2, HandOverAsked
<1>3. CASE EndSignIn \/ StopImpersonating
  BY <1>3, EndAsked
<1>4. CASE ForgetEnded
  BY <1>4, EndedForgotten
<1>5. CASE SendChange
  BY <1>5, ThemeSent
<1>6. CASE \E theme \in Themes : ChangePreferences(theme)
  BY <1>6, ThemeChosen
<1>7. CASE \E c \in inFlight.calls : Answers(c) \/ TakesAnswer(c) \/ LoseCall(c)
  BY <1>7, AnswersStays, AnswerTaken, CallLost
<1>8. CASE \E t \in DOMAIN signIns : EndElsewhere(t)
  BY <1>8, EndedElsewhere
<1>9. CASE UNCHANGED sessionVars
  BY <1>9 DEF sessionVars, IInv, Typed, Back, Kept, ByWhom
<1> QED  BY <1>1, <1>2, <1>3, <1>4, <1>5, <1>6, <1>7, <1>8, <1>9 DEF SessionNext

(* An Impersonation always leads back to the Administrator's own Sign-in,  *)
(* however many are started, and whatever else ends meanwhile: for         *)
(* fetchSession and endImpersonation of identity.ts.                       *)
THEOREM WayBackKept == SessionSpec => []LeadsBack
<1>1. IInv => LeadsBack
  BY DEF IInv, Back, BackOK, WayBack, WorksIn, LeadsBack, Works, Ways, ByWhom
<1> QED  BY <1>1, IInvInit, IInvStays, PTL DEF SessionSpec

(* Once every change of preferences is answered the page shows what the    *)
(* server keeps, whoever it shows by then: for changePreferences of        *)
(* SessionProvider.tsx and its queue, of any length.                       *)
THEOREM ThemeIsKept == SessionSpec => []ShowsWhatIsKept
<1>1. IInv => ShowsWhatIsKept
  <2> SUFFICES ASSUME IInv, Quietly, IsReady, ~ghost.unsure, Works(shownAs.token)
               PROVE  shownAs.theme = themes[signIns[shownAs.token].who]
    BY DEF ShowsWhatIsKept
  <2>1. ChangesUnder(inFlight.calls) = {} /\ changes = <<>>
    BY DEF Quietly, ChangesUnder
  <2> QED  BY <2>1 DEF IInv, Kept, KeptOK, ChainOK, Leads, Works, WorksIn, IsReady
<1> QED  BY <1>1, IInvInit, IInvStays, PTL DEF SessionSpec
=============================================================================
