---------------------------- MODULE ImportDialog ---------------------------
(***************************************************************************)
(* Importing from a Room's page (ImportDialog.tsx, importBatch.ts, and     *)
(* RoomScreen.tsx where it is opened and pasted into): files and pastes    *)
(* are read by the server into previews it keeps for an hour               *)
(* (imports.service.ts), a format is picked for one not recognised, a Hero *)
(* is added to one's Screen Names, and the batch is confirmed, each        *)
(* preview once. Every answer comes later, perhaps after the item, or the  *)
(* dialog, has gone; or it is lost. Each import makes the page forget the  *)
(* Hands it had fetched, which may have got their Hand History back.       *)
(***************************************************************************)
EXTENDS Absent, Naturals, Sequences, FiniteSets, TLC
LOCAL Ext == INSTANCE SequencesExt

CONSTANTS
    Texts,      \* what may be added; "huge" is over the limit
    Formats,    \* the formats tried
    Reading,    \* the Hands of a text read as a format, or as it detects, and how many it leaves out
    OwnNames,   \* the Importer's Screen Names to start with
    OthersNames,   \* the Screen Names other Participants go by
    Before,     \* the Queue to start with: Hands stored without their Hand History
    MaxAdded, MaxAsked, MaxFailed, MaxDialogs   \* bounds of the exploration

ASSUME ImportAssumption ==
    /\ DOMAIN Reading = Texts \X (Formats \cup {None})
    /\ \A x \in DOMAIN Reading : Reading[x].format \in Formats \cup {None}
    /\ {MaxAdded, MaxAsked, MaxFailed, MaxDialogs} \subseteq Nat

VARIABLES
    dialog,   \* whether it is open, which one it is, the next key, whether it is confirming or could not,
              \* the item whose discards it shows
    items,    \* the batch
    claims,   \* the Hero being added, what is said of the last ones, the Screen Names the page knows
    sent,     \* requests on their way, and how many there have been
    server,   \* the Importer's Screen Names, the previews kept, the Room's Queue, the Hands with their text
    page,     \* what the Room's page says of the last import, the Hands it fetched and whether with their text
    imports   \* for the bounds and the properties

importVars == <<dialog, items, claims, sent, server, page, imports>>

SetOf(s) == {s[k] : k \in DOMAIN s}

----------------------------------------------------------------------------
(* The batch, and what the dialog derives from it.                         *)

IsRead(item) == item.state = "read"
Ready(item) == IF IsRead(item) THEN item.preview.hands ELSE <<>>
BatchHands == Ext!FoldLeft(LAMBDA all, item : all \o Ready(item), <<>>, items)
LeftOut == Ext!FoldLeft(LAMBDA sum, item : sum + (IF IsRead(item) THEN item.preview.discarded ELSE 0), 0, items)
StillReading == \E k \in DOMAIN items : items[k].state = "reading"

\* The previews with Hands, as listed in the order the files were added.
PreviewIds == {items[k].preview.id : k \in {j \in DOMAIN items : Ready(items[j]) # <<>>}}
Earlier(i, j) ==
    \E k, l \in DOMAIN items : k < l /\ IsRead(items[k]) /\ IsRead(items[l]) /\ items[k].preview.id = i /\ items[l].preview.id = j
Listings ==
    {ids \in [1 .. Cardinality(PreviewIds) -> PreviewIds] : \A k, l \in DOMAIN ids : k < l => Earlier(ids[k], ids[l])}

\* The Heroes nobody is recognised as; one the Poker Site leaves unnamed never is.
UnmatchedHeroes == {hand.hero : hand \in {h \in SetOf(BatchHands) : h.hero # None /\ ~h.matched}}

\* An answer for an item removed meanwhile finds nothing to update.
Updated(key, Next(_)) == [k \in DOMAIN items |-> IF items[k].key = key THEN Next(items[k]) ELSE items[k]]
ScreenNameAdded(name) ==
    [k \in DOMAIN items |->
        IF ~IsRead(items[k]) THEN items[k]
        ELSE [items[k] EXCEPT !.preview.hands =
                [j \in DOMAIN @ |-> IF @[j].hero = name THEN [@[j] EXCEPT !.matched = TRUE] ELSE @[j]]]]

----------------------------------------------------------------------------
(* The server: Screen Names, the Queue, and what is kept of each reading.  *)

\* Whose Hand it would be: the Importer's when the Hero is a name of theirs,
\* another Participant's when it is one of theirs only, else the Importer's.
Attributed(read) ==
    read @@ [matched |-> read.hero # None /\ read.hero \in server.names \cup OthersNames,
             author |-> IF read.hero # None /\ read.hero \in OthersNames \ server.names THEN "another" ELSE "importer"]

\* The Hands not in the Queue, each once, in the order they were read; the rest are duplicates.
Queueing(read) ==
    LET plan(all, x) ==
            IF x.hand \in SetOf(server.queue) \cup {all[k].hand : k \in DOMAIN all} THEN all ELSE Append(all, Attributed(x))
    IN  Ext!FoldLeft(plan, <<>>, read)
Duplicates(read) == Len(read) - Len(Queueing(read))
InQueue(read) == {read[k].hand : k \in DOMAIN read} \cap SetOf(server.queue)

\* What the Importer is told of a reading, and what is kept of it until taken or an hour old. A Hand
\* already in the Queue without its Hand History gets it here: it never reaches the confirmation.
Previewed(c) ==
    LET read == Reading[<<c.with.text, c.with.format>>] IN
    [id |-> c.id, format |-> read.format, hands |-> Queueing(read.hands),
     discarded |-> read.discarded + Duplicates(read.hands)]
Keeps(c) == [id |-> c.id, hands |-> Previewed(c).hands]
KeptIds == {p.id : p \in server.previews}
HandsOf(id) == (CHOOSE p \in server.previews : p.id = id).hands
Taken(ids) == Ext!FoldLeft(LAMBDA all, id : all \o HandsOf(id), <<>>, ids)

\* What the Queue is after an import, and which Hands have their text.
Appended(read) ==
    [server EXCEPT !.queue = @ \o [k \in DOMAIN Queueing(read) |-> Queueing(read)[k].hand],
                   !.texts = @ \cup {read[k].hand : k \in DOMAIN read}]

----------------------------------------------------------------------------
(* Requests. Each knows the dialog it was sent from.                       *)

Call(n, what, key, with) ==
    [id |-> sent.asked + n, from |-> dialog.number, what |-> what, key |-> key, with |-> with, status |-> "asked", reply |-> None]
Sending(calls, n) ==
    /\ sent.asked + n <= MaxAsked
    /\ sent' = [calls |-> sent.calls \cup calls, asked |-> sent.asked + n]
Posts(what, key, with) == Sending({Call(1, what, key, with)}, 1)
Settled(c) == [sent EXCEPT !.calls = @ \ {c}]
Responds(c, status, reply) == sent' = [sent EXCEPT !.calls = (@ \ {c}) \cup {[c EXCEPT !.status = status, !.reply = reply]}]
Answers(c, reply) == Responds(c, "answered", reply)
TurnsDown(c) == Responds(c, "refused", None)
Awaits(c, what) == c.what = what /\ c.status = "asked"
Waited(what) == \E c \in sent.calls : c.what = what
Done(imported, discarded) == [imported |-> imported, discarded |-> discarded]

ServeReading(c) ==
    /\ Awaits(c, "read")
    /\ server' = [server EXCEPT !.previews = @ \cup {Keeps(c)},
                                !.texts = @ \cup InQueue(Reading[<<c.with.text, c.with.format>>].hands)]
    /\ Answers(c, Previewed(c))
    /\ UNCHANGED <<dialog, items, claims, page, imports>>

\* All the previews asked for, or none of them.
ServeConfirmation(c) ==
    /\ Awaits(c, "confirm")
    /\ IF SetOf(c.with.ids) \subseteq KeptIds
       THEN /\ server' = [Appended(Taken(c.with.ids)) EXCEPT !.previews = {p \in @ : p.id \notin SetOf(c.with.ids)}]
            /\ Answers(c, Done(Len(Queueing(Taken(c.with.ids))), c.with.discarded))
       ELSE UNCHANGED server /\ TurnsDown(c)
    /\ UNCHANGED <<dialog, items, claims, page, imports>>

ServePaste(c) ==
    /\ Awaits(c, "paste")
    /\ LET read == Reading[<<c.with.text, None>>] IN
       /\ server' = Appended(read.hands)
       /\ Answers(c, Done(Len(Queueing(read.hands)), read.discarded + Duplicates(read.hands)))
    /\ UNCHANGED <<dialog, items, claims, page, imports>>

\* The whole list at once.
SetScreenNames(c) ==
    /\ Awaits(c, "claim")
    /\ server' = [server EXCEPT !.names = c.with.names]
    /\ Answers(c, Done(0, 0))
    /\ UNCHANGED <<dialog, items, claims, page, imports>>

HourPasses ==
    /\ imports.failed < MaxFailed
    /\ \E old \in SUBSET server.previews \ {{}} :
          /\ server' = [server EXCEPT !.previews = @ \ old]
          /\ imports' = [imports EXCEPT !.failed = @ + 1, !.gone = @ \cup {p.id : p \in old}]
    /\ UNCHANGED <<dialog, items, claims, sent, page>>

----------------------------------------------------------------------------
(* The dialog.                                                             *)

\* Mounted anew each time, with nothing of the one before.
OpenDialog ==
    /\ ~dialog.open /\ dialog.number < MaxDialogs
    /\ dialog' = [open |-> TRUE, number |-> dialog.number + 1, nextKey |-> 0, confirming |-> FALSE, failed |-> FALSE,
                  discardedOf |-> None]
    /\ items' = <<>>
    /\ claims' = [claims EXCEPT !.claiming = None, !.claimed = None, !.failed = FALSE]
    /\ imports' = [imports EXCEPT !.crossed = @ \/ Waited("claim")]
    /\ UNCHANGED <<sent, server, page>>
CloseDialog ==
    /\ dialog.open
    /\ dialog' = [dialog EXCEPT !.open = FALSE]
    /\ items' = <<>>
    /\ UNCHANGED <<claims, sent, server, page, imports>>

\* Files dropped or chosen together, or one paste. A file over the limit is refused here, without being
\* sent. `asked` and `shown`, the requests an item waits for and shows, are for the property.
TooLarge(text) == text = "huge"
Item(n, text) ==
    [key |-> dialog.nextKey + n, text |-> text, preview |-> None, shown |-> 0,
     state |-> IF TooLarge(text) THEN "failed" ELSE "reading", asked |-> IF TooLarge(text) THEN 0 ELSE sent.asked + n]
AddItems(added) ==
    /\ dialog.open /\ imports.added + Len(added) <= MaxAdded
    /\ items' = items \o [n \in DOMAIN added |-> Item(n, added[n])]
    /\ dialog' = [dialog EXCEPT !.nextKey = @ + Len(added), !.failed = FALSE]
    /\ Sending({Call(n, "read", dialog.nextKey + n, [text |-> added[n], format |-> None]) :
                    n \in {m \in DOMAIN added : ~TooLarge(added[m])}}, Len(added))
    /\ imports' = [imports EXCEPT !.added = @ + Len(added)]
    /\ UNCHANGED <<claims, server, page>>

\* Bug: the format can be picked again while it is being read with another.
Pickable_Always(item) == ~TooLarge(item.text)
Pickable(item) == IsRead(item) /\ item.preview.format = None

\* Its discards are no longer what is shown.
PutAway(key) == IF dialog.discardedOf = key THEN None ELSE dialog.discardedOf

Reread(k, format) ==
    /\ dialog.open /\ Pickable(items[k])
    /\ Posts("read", items[k].key, [text |-> items[k].text, format |-> format])
    /\ items' = Updated(items[k].key, LAMBDA item : [item EXCEPT !.state = "reading", !.preview = None, !.asked = sent.asked + 1])
    /\ dialog' = [dialog EXCEPT !.discardedOf = PutAway(items[k].key)]
    /\ UNCHANGED <<claims, server, page, imports>>
RemoveItem(k) ==
    /\ dialog.open
    /\ items' = [j \in 1 .. (Len(items) - 1) |-> IF j < k THEN items[j] ELSE items[j + 1]]
    /\ dialog' = [dialog EXCEPT !.discardedOf = PutAway(items[k].key)]
    /\ UNCHANGED <<claims, sent, server, page, imports>>
ShowDiscarded(k) ==
    /\ dialog.open /\ IsRead(items[k]) /\ items[k].preview.discarded > 0
    /\ dialog' = [dialog EXCEPT !.discardedOf = items[k].key]
    /\ UNCHANGED <<items, claims, sent, server, page, imports>>
BackFromDiscarded ==
    /\ dialog.open /\ dialog.discardedOf # None
    /\ dialog' = [dialog EXCEPT !.discardedOf = None]
    /\ UNCHANGED <<items, claims, sent, server, page, imports>>

\* One Hero at a time, along with all the Screen Names the page knows.
Claim(hero) ==
    /\ dialog.open /\ claims.claiming = None
    /\ Posts("claim", 0, [names |-> claims.known \cup {hero}, hero |-> hero])
    /\ claims' = [claims EXCEPT !.claiming = hero, !.failed = FALSE]
    /\ UNCHANGED <<dialog, items, server, page, imports>>

ConfirmBatch ==
    /\ dialog.open /\ ~dialog.confirming /\ ~StillReading /\ PreviewIds # {}
    /\ \E ids \in Listings : Posts("confirm", 0, [ids |-> ids, discarded |-> LeftOut])
    /\ dialog' = [dialog EXCEPT !.confirming = TRUE, !.failed = FALSE]
    /\ UNCHANGED <<items, claims, server, page, imports>>

\* Anywhere in the Room but a field, whatever its size, while the dialog is not open.
PasteInRoom(text) ==
    /\ ~dialog.open /\ Posts("paste", 0, [text |-> text, format |-> None])
    /\ UNCHANGED <<dialog, items, claims, server, page, imports>>

----------------------------------------------------------------------------
(* What is made of the answers.                                            *)

Answered(c, what) == c.what = what /\ c.status = "answered"

\* A dialog unmounted takes nothing more.
IsOf(c) == dialog.open /\ c.from = dialog.number

\* Bug: the Hands fetched before are still shown as they were.
ForgetHands_Never(now) == now
ForgetHands(now) == [now EXCEPT !.fetched = {}]
Reports(now, outcome) == [now EXCEPT !.outcome = outcome]
DoneAs(c) == [state |-> "done", imported |-> c.reply.imported, discarded |-> c.reply.discarded]

ReadAs(item, c) == [item EXCEPT !.state = "read", !.preview = c.reply, !.shown = c.id]
TakeReading(c) ==
    /\ Answered(c, "read")
    /\ items' = IF IsOf(c) THEN Updated(c.key, LAMBDA item : ReadAs(item, c)) ELSE items
    /\ sent' = Settled(c)
    /\ page' = ForgetHands(page)
    /\ UNCHANGED <<dialog, claims, server, imports>>

TakeClaim(c) ==
    /\ Answered(c, "claim")
    /\ claims' = IF IsOf(c) THEN [claims EXCEPT !.known = c.with.names, !.claiming = None, !.claimed = c.with.hero]
                 ELSE [claims EXCEPT !.known = c.with.names]
    /\ items' = IF IsOf(c) THEN ScreenNameAdded(c.with.hero) ELSE items
    /\ imports' = [imports EXCEPT !.names = @ \cup {c.with.hero}]
    /\ sent' = Settled(c)
    /\ UNCHANGED <<dialog, server, page>>

\* A batch taken closes the dialog: whichever is open by then.
TakeConfirmation(c) ==
    /\ Answered(c, "confirm")
    /\ dialog' = [dialog EXCEPT !.open = FALSE]
    /\ items' = <<>>
    /\ page' = Reports(ForgetHands(page), DoneAs(c))
    /\ sent' = Settled(c)
    /\ UNCHANGED <<claims, server, imports>>

TakePaste(c) ==
    /\ Answered(c, "paste")
    /\ page' = Reports(ForgetHands(page), DoneAs(c))
    /\ sent' = Settled(c)
    /\ UNCHANGED <<dialog, items, claims, server, imports>>

\* Lost, before or after the server's part (a Room closed or a file that cannot be read refuse like the
\* first): what a confirmation asked for may be taken, and texts given back that the page is not told of.
Lost(c) ==
    /\ imports.failed < MaxFailed
    /\ imports' = [imports EXCEPT !.failed = @ + 1, !.gone = IF c.what = "confirm" THEN @ \cup SetOf(c.with.ids) ELSE @,
                                  !.untold = @ \/ c.what # "claim"]
Turned(c) == c.status = "refused" /\ UNCHANGED imports

FailedAs(item, c) == [item EXCEPT !.state = "failed", !.preview = None, !.shown = c.id]

\* Each failure is said in its place, while that place is still there.
Fail(c) ==
    /\ Lost(c) \/ Turned(c)
    /\ sent' = Settled(c)
    /\ items' = IF c.what = "read" /\ IsOf(c)
                THEN Updated(c.key, LAMBDA item : FailedAs(item, c)) ELSE items
    /\ claims' = IF c.what = "claim" /\ IsOf(c) THEN [claims EXCEPT !.claiming = None, !.failed = TRUE] ELSE claims
    /\ dialog' = IF c.what = "confirm" /\ IsOf(c) THEN [dialog EXCEPT !.confirming = FALSE, !.failed = TRUE] ELSE dialog
    /\ page' = IF c.what = "paste" THEN Reports(page, [state |-> "failed"]) ELSE page
    /\ UNCHANGED server

----------------------------------------------------------------------------
(* The rest of the page: what is said of an import passes, and a Hand of   *)
(* the Queue is fetched once, with its text or without.                    *)

OutcomePasses ==
    /\ page.outcome # None
    /\ page' = Reports(page, None)
    /\ UNCHANGED <<dialog, items, claims, sent, server, imports>>
FetchHandOf(k) ==
    LET h == Before[k] IN
    /\ \A x \in page.fetched : x.hand # h
    /\ page' = [page EXCEPT !.fetched = @ \cup {[hand |-> h, text |-> h \in server.texts]}]
    /\ UNCHANGED <<dialog, items, claims, sent, server, imports>>

----------------------------------------------------------------------------
ImportInit ==
    /\ dialog = [open |-> FALSE, number |-> 0, nextKey |-> 0, confirming |-> FALSE, failed |-> FALSE, discardedOf |-> None]
    /\ items = <<>>
    /\ claims = [claiming |-> None, claimed |-> None, failed |-> FALSE, known |-> OwnNames]
    /\ sent = [calls |-> {}, asked |-> 0]
    /\ server = [names |-> OwnNames, previews |-> {}, queue |-> Before, texts |-> {}]
    /\ page = [outcome |-> None, fetched |-> {}]
    /\ imports = [names |-> {}, crossed |-> FALSE, gone |-> {}, untold |-> FALSE, added |-> 0, failed |-> 0]

Additions == {<<x>> : x \in Texts} \cup {<<x, y>> : x, y \in Texts}

ImportNext ==
    \/ OpenDialog \/ CloseDialog \/ ConfirmBatch \/ HourPasses \/ BackFromDiscarded \/ OutcomePasses
    \/ \E added \in Additions : AddItems(added)
    \/ \E text \in Texts : PasteInRoom(text)
    \/ \E k \in DOMAIN items : RemoveItem(k) \/ ShowDiscarded(k) \/ \E format \in Formats : Reread(k, format)
    \/ \E hero \in UnmatchedHeroes : Claim(hero)
    \/ \E c \in sent.calls : ServeReading(c) \/ ServeConfirmation(c) \/ ServePaste(c) \/ SetScreenNames(c)
    \/ \E c \in sent.calls : TakeReading(c) \/ TakeClaim(c) \/ TakeConfirmation(c) \/ TakePaste(c) \/ Fail(c)
    \/ \E k \in DOMAIN Before : FetchHandOf(k)

ImportSpec == ImportInit /\ [][ImportNext]_importVars

----------------------------------------------------------------------------
(* What each item shows is the last reading asked for it, and nothing is   *)
(* being read once all have answered; discards shown are of a reading      *)
(* there is; a Screen Name added stays added, whichever is added next;     *)
(* what can be confirmed the server still has, but for previews an hour    *)
(* old or sent with a confirmation whose answer was lost; and a Hand the   *)
(* page has without the text the server has for it is forgotten by the     *)
(* answer, unless that was lost (importBatch.ts, ClaimHeroes, take in      *)
(* imports.service.ts, forgetHands). A dialog opened while the one before  *)
(* was still adding a name may undo it; one whose former confirmation is   *)
(* still under way shows nothing of that one's.                            *)
Unanswered(item) == \E c \in sent.calls : IsOf(c) /\ c.what = "read" /\ c.key = item.key
ItemsAreLast ==
    \A k \in DOMAIN items : ~Unanswered(items[k]) => items[k].state # "reading" /\ items[k].shown = items[k].asked
DiscardsAreRead ==
    (dialog.open /\ dialog.discardedOf # None) => \E k \in DOMAIN items : items[k].key = dialog.discardedOf /\ IsRead(items[k])
NamesStay == imports.crossed \/ imports.names \subseteq server.names
StillConfirmable == (dialog.open /\ ~dialog.confirming) => PreviewIds \subseteq KeptIds \cup imports.gone
Outdated == \E x \in page.fetched : ~x.text /\ x.hand \in server.texts
TextsAreTold ==
    Outdated => imports.untold \/ \E c \in sent.calls : c.what # "claim" /\ Answered(c, c.what)

ShowsTheLastReading ==
    dialog # None => ItemsAreLast /\ DiscardsAreRead /\ NamesStay /\ StillConfirmable /\ TextsAreTold
=============================================================================
