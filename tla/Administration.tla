--------------------------- MODULE Administration ---------------------------
(***************************************************************************)
(* The Administrator's panel (apps/web/src/admin, admin.controller.ts): its *)
(* Invitations, Accounts and Rooms, each a list the server draws up, read  *)
(* again after whatever the Administrator does from it. A request answers  *)
(* later, in any order, perhaps after another tab was opened, or is lost;  *)
(* and other people change the site meanwhile. What an act does inside the *)
(* server, statement by statement, is in Accounts and RoomLive.            *)
(***************************************************************************)
EXTENDS Absent, Naturals, Sequences, FiniteSets
LOCAL Ext == INSTANCE SequencesExt

CONSTANTS
    Mail,            \* the Account each email is of, or would be once invited
    Administrators,  \* Accounts never suspended nor impersonated, whoever looks among them
    Columns,         \* what the Accounts are sorted by, each with the Accounts in its order
    Named,           \* what may be searched, each with the Accounts it finds
    Stalest,         \* the Rooms, by their last activity
    AlreadyThere,    \* the Accounts, Invitations and Rooms there are at first
    PanelPage,       \* how many rows to a page
    MaxTouches, MaxMishaps   \* bounds: what the Administrator does; answers lost and what others do

Mails == DOMAIN Mail
Tabs == {"invitations", "accounts", "rooms"}

ASSUME PanelAssumption ==
    /\ PanelPage \in Nat \ {0}
    /\ {MaxTouches, MaxMishaps} \subseteq Nat
    /\ {"email", "lastActiveAt"} \subseteq DOMAIN Columns /\ "" \in DOMAIN Named /\ None \notin Tabs

\* What the server never breaks: an Invitation, the last one sent first, is named by a number
\* of its own, and no email has two open; whoever has access to the panel is not suspended.
Standing == {"pending", "expired"}
Invitation == [id : Nat, email : Mails, status : Standing \cup {"accepted", "cancelled"}]
OneEach(list) ==
    /\ list \in Seq(Invitation)
    /\ \A j, k \in 1 .. Len(list) :
          /\ list[j].id \in 1 .. Len(list)
          /\ j # k => list[j].id # list[k].id
          /\ j # k /\ {list[j].status, list[k].status} \subseteq Standing => list[j].email # list[k].email
SiteOK(s) ==
    /\ DOMAIN s = {"accounts", "suspended", "open", "live", "invitations"}
    /\ s.suspended \cap Administrators = {}
    /\ OneEach(s.invitations)

ASSUME SiteAssumption == SiteOK(AlreadyThere)

VARIABLES
    site,    \* what the server holds: Accounts, Invitations, Rooms
    panel,   \* the tab that is open and all it keeps
    asking,  \* its requests under way, and how many there have been
    beyond   \* what changed otherwise, for the property; for the bounds

adminVars == <<site, panel, asking, beyond>>

----------------------------------------------------------------------------
(* The lists, of the site as it is now. A row is who or what it is of and   *)
(* its status.                                                             *)

Matches(s, id) == {k \in 1 .. Len(s.invitations) : s.invitations[k].id = id}
InvitationAt(s, id) == CHOOSE k \in Matches(s, id) : TRUE
InvitationOf(s, id) == s.invitations[InvitationAt(s, id)]
AccountStatus(s, a) == IF a \in s.suspended THEN "suspended" ELSE "active"
RoomStatus(s, r) == IF r \notin s.open THEN "closed" ELSE IF r \in s.live THEN "live" ELSE "free-review"
StatusOf(s, tab, id) ==
    CASE tab = "accounts" -> AccountStatus(s, id)
      [] tab = "rooms" -> RoomStatus(s, id)
      [] tab = "invitations" -> InvitationOf(s, id).status

\* The Accounts that match, in the order asked; the Rooms open, or all.
InOrder(dir, ids) == IF dir = "asc" THEN ids ELSE Ext!Reverse(ids)
AccountsAsked(s, query) ==
    InOrder(query.dir, SelectSeq(Columns[query.by], LAMBDA a : a \in Named[query.only] \cap s.accounts))
RoomsAsked(s, query) == InOrder(query.dir, SelectSeq(Stalest, LAMBDA r : query.only = "all" \/ r \in s.open))
AllInvitations(s) == [k \in 1 .. Len(s.invitations) |-> s.invitations[k].id]
Listed(s, tab, query) ==
    CASE tab = "accounts" -> AccountsAsked(s, query)
      [] tab = "rooms" -> RoomsAsked(s, query)
      [] tab = "invitations" -> AllInvitations(s)

\* One page of it; Invitations have no pages.
Least(a, b) == IF a < b THEN a ELSE b
OnPage(tab, ids, page) ==
    IF tab = "invitations" THEN ids
    ELSE SubSeq(ids, (page - 1) * PanelPage + 1, Least(page * PanelPage, Len(ids)))
RowsOf(s, tab, query) ==
    LET ids == OnPage(tab, Listed(s, tab, query), query.page) IN
    [k \in DOMAIN ids |-> [id |-> ids[k], status |-> StatusOf(s, tab, ids[k])]]

Totals(s) == [accounts |-> Cardinality(s.accounts), suspended |-> Cardinality(s.suspended),
                pending |-> Len(SelectSeq(s.invitations, LAMBDA i : i.status = "pending")),
                open |-> Cardinality(s.open), closed |-> Len(Stalest) - Cardinality(s.open)]

\* The Accounts' tab asks for the totals by a request of their own.
PartsOf(tab) == IF tab = "accounts" THEN {"totals", "list"} ELSE {"list"}
PartOf(s, tab, query, part) ==
    IF part = "totals" THEN Totals(s)
    ELSE [query |-> query, rows |-> RowsOf(s, tab, query), total |-> Len(Listed(s, tab, query))]

----------------------------------------------------------------------------
(* What a tab keeps: its query, the answer on screen, what went wrong and  *)
(* what it asks of the person. `newest` and `astray` are for the property: *)
(* the last read that answered, and an answer shown out of turn.           *)

FirstQuery(tab) ==
    CASE tab = "accounts" -> [only |-> "", by |-> "lastActiveAt", dir |-> "desc", page |-> 1]
      [] tab = "rooms" -> [only |-> "open", by |-> "lastActivityAt", dir |-> "asc", page |-> 1]
      [] tab = "invitations" -> [only |-> "", by |-> "sentAt", dir |-> "desc", page |-> 1]
Fresh(tab) ==
    [tab |-> tab, visit |-> panel.visit + 1, query |-> FirstQuery(tab), shown |-> None, totals |-> None,
     failure |-> FALSE, confirming |-> None, busy |-> FALSE, notice |-> None, newest |-> 0, astray |-> FALSE]
Elsewhere == [panel EXCEPT !.tab = None, !.visit = @ + 1]

Here(c) == panel.tab # None /\ c.visit = panel.visit
Served(c) == [asking EXCEPT !.calls = @ \ {c}]

\* A read of `query` by the tab `now`, after whatever is left of the requests.
Reads(left, kept, query) ==
    asking' = [calls |-> left.calls \cup {[id |-> left.asked + 1, visit |-> kept.visit, tab |-> kept.tab, query |-> query,
                                           again |-> query # kept.query, got |-> [p \in PartsOf(kept.tab) |-> None]]},
               asked |-> left.asked + 1]
Performs(what, on) ==
    asking' = [calls |-> asking.calls \cup {[id |-> asking.asked + 1, visit |-> panel.visit, tab |-> panel.tab, what |-> what, on |-> on,
                                             query |-> panel.query, at |-> "sent", why |-> None, of |-> None]},
               asked |-> asking.asked + 1]

Touch == beyond.touches < MaxTouches /\ beyond' = [beyond EXCEPT !.touches = @ + 1]
On(tab) == panel.tab = tab

\* A tab opened begins anew, whatever it was; a query changed is asked at once.
OpenTab(tab) ==
    /\ panel.tab # tab /\ Touch
    /\ panel' = Fresh(tab)
    /\ Reads(asking, Fresh(tab), FirstQuery(tab))
    /\ UNCHANGED site
LeavePanel == panel.tab # None /\ panel' = Elsewhere /\ UNCHANGED <<site, asking, beyond>>
Requery(query) ==
    /\ panel.confirming = None /\ query # panel.query /\ Touch
    /\ panel' = [panel EXCEPT !.query = query]
    /\ Reads(asking, panel', query)
    /\ UNCHANGED site

Search(text) == On("accounts") /\ Requery([panel.query EXCEPT !.only = text, !.page = 1])
Flipped(dir) == IF dir = "asc" THEN "desc" ELSE "asc"
SortBy(by) ==
    On("accounts") /\ Requery([panel.query EXCEPT !.page = 1, !.by = by,
        !.dir = IF panel.query.by = by THEN Flipped(@) ELSE IF by \in {"email", "displayName"} THEN "asc" ELSE "desc"])
ShowRooms(status) == On("rooms") /\ Requery([panel.query EXCEPT !.only = status, !.page = 1])
TurnOrder == On("rooms") /\ Requery([panel.query EXCEPT !.dir = Flipped(@)])

\* From the page on screen, whatever has been asked for since.
PagesOf(list) == (list.total + PanelPage - 1) \div PanelPage
GoTo(page) ==
    /\ panel.tab \in {"accounts", "rooms"} /\ panel.shown # None /\ panel.shown.rows # <<>>
    /\ \/ page = panel.shown.query.page - 1 /\ panel.shown.query.page > 1
       \/ page = panel.shown.query.page + 1 /\ panel.shown.query.page < PagesOf(panel.shown)
    /\ Requery([panel.query EXCEPT !.page = page])

----------------------------------------------------------------------------
(* What each row offers, asked before it is done.                          *)

AccountOffers(row) ==
    IF row.id \in Administrators THEN {} ELSE IF row.status = "suspended" THEN {"lift"} ELSE {"suspend", "impersonate"}
RoomOffers(row) ==
    (IF row.status = "live" THEN {"endLive"} ELSE {}) \cup (IF row.status = "closed" THEN {} ELSE {"close"})
InvitationOffers(row) ==
    (IF row.status \in {"pending", "expired"} THEN {"resend"} ELSE {}) \cup (IF row.status = "pending" THEN {"cancel"} ELSE {})
Offers(tab, row) ==
    CASE tab = "accounts" -> AccountOffers(row)
      [] tab = "rooms" -> RoomOffers(row)
      [] tab = "invitations" -> InvitationOffers(row)
Ask ==
    /\ panel.tab # None /\ panel.confirming = None /\ panel.shown # None
    /\ \E k \in DOMAIN panel.shown.rows : \E what \in Offers(panel.tab, panel.shown.rows[k]) :
          panel' = [panel EXCEPT !.confirming = [what |-> what, on |-> panel.shown.rows[k].id]]
    /\ UNCHANGED <<site, asking, beyond>>
Dismiss ==
    /\ panel.tab # None /\ panel.confirming # None
    /\ panel' = [panel EXCEPT !.confirming = None]
    /\ UNCHANGED <<site, asking, beyond>>
ConfirmAct ==
    /\ panel.tab # None /\ panel.confirming # None /\ Touch
    /\ Performs(panel.confirming.what, panel.confirming.on)
    /\ panel' = [panel EXCEPT !.confirming = None]
    /\ UNCHANGED site
SendInvitation(mail) ==
    /\ On("invitations") /\ panel.confirming = None /\ ~panel.busy /\ Touch
    /\ Performs("invite", mail)
    /\ panel' = [panel EXCEPT !.busy = TRUE, !.notice = None]
    /\ UNCHANGED site

\* The notice of the last one sent offers to send it again, or to lift a Suspension.
TakeNotice ==
    /\ On("invitations") /\ panel.confirming = None /\ panel.notice # None /\ Touch
    /\ \/ panel.notice.kind \in {"not-sent", "pending"} /\ Performs("resend", panel.notice.on)
       \/ panel.notice.kind = "account-suspended" /\ Performs("lift", panel.notice.on)
    /\ UNCHANGED <<site, panel>>

----------------------------------------------------------------------------
(* The server: each act is refused, or changes the site.                   *)

Replies(c, at, why, of) ==
    asking' = [asking EXCEPT !.calls = (@ \ {c}) \cup {[c EXCEPT !.at = at, !.why = why, !.of = of]}]
Refuses(c, why, on) == Replies(c, "refused", why, on) /\ UNCHANGED <<site, beyond>>
\* Done for a tab that is no longer there: nobody reads the list again for it.
Unseen(c) == beyond' = IF Here(c) THEN beyond ELSE [beyond EXCEPT !.changed = TRUE]
Does(c, next, on) == site' = next /\ Replies(c, "done", None, on) /\ Unseen(c)

ServePart(c, part) ==
    /\ "got" \in DOMAIN c /\ c.got[part] = None
    /\ asking' = [asking EXCEPT !.calls = (@ \ {c}) \cup {[c EXCEPT !.got[part] = PartOf(site, c.tab, c.query, part)]}]
    /\ UNCHANGED <<site, panel, beyond>>

Suspended(c) ==
    /\ c.what = "suspend"
    /\ IF c.on \in Administrators THEN Refuses(c, "administrator", None)
       ELSE Does(c, [site EXCEPT !.suspended = @ \cup {c.on}], c.on)
Lifted(c) == c.what = "lift" /\ Does(c, [site EXCEPT !.suspended = @ \ {c.on}], c.on)
Impersonated(c) ==
    /\ c.what = "impersonate"
    /\ IF c.on \in Administrators \cup site.suspended THEN Refuses(c, "suspended", None) ELSE Does(c, site, c.on)
ClosedRoom(c) ==
    /\ c.what = "close"
    /\ IF c.on \in site.open THEN Does(c, [site EXCEPT !.open = @ \ {c.on}, !.live = @ \ {c.on}], c.on)
       ELSE Refuses(c, "not-found", None)
EndedLive(c) ==
    /\ c.what = "endLive"
    /\ IF c.on \in site.live THEN Does(c, [site EXCEPT !.live = @ \ {c.on}], c.on) ELSE Refuses(c, "not-live", None)

\* Sent, or sent again: pending for another week, and the first of the list, before the rest.
SentNow(invitation, rest) ==
    [site EXCEPT !.invitations = <<[invitation EXCEPT !.status = "pending"]>> \o rest]
Rest(k) == SubSeq(site.invitations, 1, k - 1) \o SubSeq(site.invitations, k + 1, Len(site.invitations))
Reopened(c, id) ==
    IF Matches(site, id) = {} THEN Refuses(c, "not-found", None)
    ELSE IF InvitationOf(site, id).status \notin Standing THEN Refuses(c, InvitationOf(site, id).status, None)
    ELSE Does(c, SentNow(InvitationOf(site, id), Rest(InvitationAt(site, id))), id)
OpenFor(mail) == {site.invitations[k].id : k \in {j \in 1 .. Len(site.invitations) :
                     site.invitations[j].email = mail /\ site.invitations[j].status \in Standing}}

Invited(c) ==
    /\ c.what = "invite"
    /\ IF Mail[c.on] \in site.accounts
       THEN Refuses(c, IF Mail[c.on] \in site.suspended THEN "account-suspended" ELSE "account-exists", Mail[c.on])
       ELSE IF OpenFor(c.on) = {}
       THEN LET id == Len(site.invitations) + 1 IN
            Does(c, SentNow([id |-> id, email |-> c.on, status |-> "pending"], site.invitations), id)
       ELSE \E id \in OpenFor(c.on) :
               IF InvitationOf(site, id).status = "pending" THEN Refuses(c, "pending", id) ELSE Reopened(c, id)
Resent(c) == c.what = "resend" /\ Reopened(c, c.on)
Restated(id, status) == [site EXCEPT !.invitations[InvitationAt(site, id)].status = status]
Cancelled(c) ==
    /\ c.what = "cancel"
    /\ IF Matches(site, c.on) = {} THEN Refuses(c, "not-found", None)
       ELSE IF InvitationOf(site, c.on).status # "pending" THEN Refuses(c, InvitationOf(site, c.on).status, None)
       ELSE Does(c, Restated(c.on, "cancelled"), c.on)

ServeAct(c) ==
    /\ "what" \in DOMAIN c /\ c.at = "sent"
    /\ \/ Suspended(c) \/ Lifted(c) \/ Impersonated(c) \/ ClosedRoom(c) \/ EndedLive(c)
       \/ Invited(c) \/ Resent(c) \/ Cancelled(c)
    /\ UNCHANGED panel

----------------------------------------------------------------------------
(* What the tab makes of the answers.                                      *)

Newest(c) == IF c.id > panel.newest THEN c.id ELSE panel.newest
TakeRead(c) ==
    /\ "got" \in DOMAIN c /\ \A p \in DOMAIN c.got : c.got[p] # None
    /\ asking' = Served(c)
    /\ panel' =
         IF ~Here(c) THEN panel
         ELSE [panel EXCEPT !.failure = FALSE, !.newest = Newest(c), !.astray = c.again \/ c.id < panel.newest,
                            !.totals = IF c.tab = "accounts" THEN c.got["totals"] ELSE @,
                            !.shown = c.got["list"]]
    /\ UNCHANGED <<site, beyond>>

Noted(kind, on) == [kind |-> kind, on |-> on]
NoticeOf(c, mailed) ==
    IF c.at = "refused"
    THEN IF c.what = "invite" THEN Noted(c.why, c.of) ELSE Noted("failed", None)
    ELSE IF c.what = "lift" THEN Noted("lifted", None)
    ELSE IF c.what = "cancel" THEN panel.notice
    ELSE Noted(IF mailed THEN "sent" ELSE "not-sent", c.of)

\* Bug: only Rooms are read again once something was done.
ReadAgain_Rooms(c) == c.at = "done" /\ c.tab = "rooms"
ReadAgain(c) == c.at = "done" /\ ~(c.tab = "invitations" /\ c.what = "lift")

\* The list is read again, by the query there was as the act was confirmed.
TakeAct(c, mailed) ==
    /\ "what" \in DOMAIN c /\ c.at # "sent"
    /\ IF c.what = "impersonate" /\ c.at = "done"
       THEN panel' = Elsewhere /\ asking' = Served(c)
       ELSE IF ~Here(c) THEN UNCHANGED panel /\ asking' = Served(c)
       ELSE /\ panel' = IF c.tab = "invitations"
                        THEN [panel EXCEPT !.notice = NoticeOf(c, mailed), !.busy = IF c.what = "invite" THEN FALSE ELSE @]
                        ELSE [panel EXCEPT !.failure = @ \/ c.at = "refused"]
            /\ IF ReadAgain(c) THEN Reads(Served(c), panel, c.query) ELSE asking' = Served(c)
    /\ UNCHANGED <<site, beyond>>

\* Lost on its way there, or back.
Miss(c) ==
    /\ beyond.mishaps < MaxMishaps
    /\ beyond' = [beyond EXCEPT !.mishaps = @ + 1, !.changed = @ \/ "what" \in DOMAIN c]
    /\ asking' = Served(c)
    /\ panel' =
         IF ~Here(c) THEN panel
         ELSE IF "what" \in DOMAIN c /\ c.tab = "invitations"
         THEN [panel EXCEPT !.notice = Noted("failed", None), !.busy = IF c.what = "invite" THEN FALSE ELSE @]
         ELSE [panel EXCEPT !.failure = TRUE, !.newest = IF "got" \in DOMAIN c THEN Newest(c) ELSE @]
    /\ UNCHANGED site

----------------------------------------------------------------------------
(* Anybody else: other Administrators, Masters, whoever was invited, and   *)
(* the week an Invitation lasts.                                           *)

Others ==
    /\ beyond.mishaps < MaxMishaps
    /\ beyond' = [beyond EXCEPT !.mishaps = @ + 1, !.changed = TRUE]
    /\ \/ \E a \in site.accounts \ (Administrators \cup site.suspended) : site' = [site EXCEPT !.suspended = @ \cup {a}]
       \/ \E a \in site.suspended : site' = [site EXCEPT !.suspended = @ \ {a}]
       \/ \E r \in site.open : site' = [site EXCEPT !.open = @ \ {r}, !.live = @ \ {r}]
       \/ \E r \in site.open \ site.live : site' = [site EXCEPT !.live = @ \cup {r}]
       \/ \E k \in 1 .. Len(site.invitations) :
             /\ site.invitations[k].status = "pending"
             /\ \/ \E status \in {"expired", "cancelled"} : site' = Restated(site.invitations[k].id, status)
                \/ site' = [Restated(site.invitations[k].id, "accepted") EXCEPT !.accounts = @ \cup {Mail[site.invitations[k].email]}]
    /\ UNCHANGED <<panel, asking>>

----------------------------------------------------------------------------
PanelInit ==
    /\ site = AlreadyThere
    /\ panel = [tab |-> None, visit |-> 0]
    /\ asking = [calls |-> {}, asked |-> 0]
    /\ beyond = [changed |-> FALSE, touches |-> 0, mishaps |-> 0]

PanelNext ==
    \/ LeavePanel \/ TurnOrder \/ Ask \/ Dismiss \/ ConfirmAct \/ TakeNotice \/ Others
    \/ \E tab \in Tabs : OpenTab(tab)
    \/ \E text \in DOMAIN Named : Search(text)
    \/ \E by \in DOMAIN Columns : SortBy(by)
    \/ \E status \in {"open", "all"} : ShowRooms(status)
    \/ \E page \in 1 .. MaxTouches : GoTo(page)
    \/ \E mail \in Mails : SendInvitation(mail)
    \/ \E c \in asking.calls : \/ \E part \in PartsOf(c.tab) : ServePart(c, part)
                               \/ ServeAct(c) \/ TakeRead(c) \/ Miss(c)
                               \/ \E mailed \in BOOLEAN : TakeAct(c, mailed)

PanelSpec == PanelInit /\ [][PanelNext]_adminVars

----------------------------------------------------------------------------
(* With nothing under way, an open tab shows what the server holds, the    *)
(* Administrator's own acts included, for the query on screen: unless      *)
(* something failed, which it says, an answer was shown out of turn, or    *)
(* somebody else changed the site. And nobody is invited twice at once,    *)
(* nor any Administrator suspended (admin/*.tsx, accounts.service.ts).     *)
PanelTellsTheSite ==
    panel # None =>
        /\ site.suspended \cap Administrators = {}
        /\ \A mail \in Mails : Cardinality(OpenFor(mail)) <= 1
        /\ (/\ panel.tab # None /\ ~panel.failure /\ ~panel.astray /\ ~beyond.changed
            /\ \A c \in asking.calls : ~Here(c)) =>
              /\ panel.shown.query = panel.query
              /\ panel.shown.rows = RowsOf(site, panel.tab, panel.query)
              /\ panel.tab = "accounts" => panel.totals = Totals(site)

(* Once every answer has come and nothing failed, the list on screen is of *)
(* the filter, order and page on screen (Functionality.md H10.2, H10.4).   *)
ShowsItsQuery ==
    (panel # None /\ panel.tab # None /\ ~panel.failure /\ \A c \in asking.calls : ~Here(c)) =>
        panel.shown.query = panel.query
=============================================================================
