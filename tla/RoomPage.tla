------------------------------ MODULE RoomPage ------------------------------
(***************************************************************************)
(* The page of a Room (apps/web/src/room: RoomPage.tsx, RoomScreen.tsx,    *)
(* pendingUndo.ts, useHand.ts, hand.ts): the way in, and what the screen   *)
(* keeps of its own while the Room moves under it. What the client knows   *)
(* of the Room changes by news, whoever they come from; a command is sent  *)
(* and forgotten, and its effect is more news. React draws the screen anew *)
(* after each: every action ends in Renders.                               *)
(***************************************************************************)
EXTENDS Absent, Naturals, Sequences, SequencesExt, FiniteSets

CONSTANTS
    HandIn,      \* what the Queue may hold: the Hand of each Entry
    NotesAbout,  \* the Notes there may be, and the Hand each is on
    MaxVisitSteps, MaxFetches   \* bounds: news and what the person does; Hands asked for

ASSUME PageAssumption ==
    /\ {MaxVisitSteps, MaxFetches} \subseteq Nat
    /\ DOMAIN HandIn # {} /\ None \notin DOMAIN HandIn /\ \A e \in DOMAIN HandIn : HandIn[e] # None
    /\ None \notin DOMAIN NotesAbout /\ \A n \in DOMAIN NotesAbout : NotesAbout[n] # None

VARIABLES
    door,     \* the way in: the name confirmed, who the browser is, what the code gives
    room,     \* what the client holds of the Room
    screen,   \* the last Entry seen on the table, the filter, what is asked of the person
    noting,   \* the Notes panel: the Hand it is about, its draft, the Note being edited
    offers,   \* the removals that can be taken back, of the Queue and of Notes
    hands,    \* Hands asked of the server, kept, awaited and on the table
    lastSeen, \* for the property: the last Entry on the queue for the Hand shown
    spent     \* how much of the first bound, and the removals among it

pageVars == <<door, room, screen, noting, offers, hands, lastSeen, spent>>

EntryIds == DOMAIN HandIn
NoteIds == DOMAIN NotesAbout
RoomHandIds == {HandIn[e] : e \in EntryIds}

ASSUME NoneIsNoAnswer == None \notin [hand : RoomHandIds, loaded : BOOLEAN]

----------------------------------------------------------------------------
(* What follows from the Room.                                             *)

\* While Live everyone sees the Master's table; in Free Review their own.
ShownHand(r) == IF r.live THEN r.playback ELSE r.own
LoadedIndex(r) ==
    IF \E k \in DOMAIN r.queue : HandIn[r.queue[k]] = ShownHand(r)
    THEN CHOOSE k \in DOMAIN r.queue : HandIn[r.queue[k]] = ShownHand(r) ELSE 0
LoadedEntry(r) == IF LoadedIndex(r) = 0 THEN None ELSE r.queue[LoadedIndex(r)]
Drives(r) == r.live => r.master

\* With the loaded Hand gone from the Queue, the last Entry seen for it: an
\* Entry is remembered when its id is new.
DetailsOf(r, last) ==
    IF LoadedEntry(r) # None THEN LoadedEntry(r)
    ELSE IF last # None /\ HandIn[last] = ShownHand(r) THEN last ELSE None
HandOn(entry) == IF entry = None THEN None ELSE HandIn[entry]

Visible == {e \in ToSet(room.queue) : screen.filter = None \/ HandIn[e] = screen.filter}
NotesHere == {n \in room.notes : NotesAbout[n] = noting.for}

----------------------------------------------------------------------------
(* What was just removed and may be taken back, each offer with its timer. *)
(* `due` and `n` are for the property: the removal whose time is not over. *)

NoOffer == [pending |-> None, timers |-> <<>>, due |-> 0]

\* Bug: the timer of the removal before goes on.
Offered_Piled(o, id, n) == [pending |-> id, timers |-> Append(o.timers, n), due |-> n]
Offered(o, id, n) == [pending |-> id, timers |-> <<n>>, due |-> n]
Withdrawn(o) ==
    [pending |-> None, timers |-> Tail(o.timers), due |-> IF o.due = Head(o.timers) THEN 0 ELSE o.due]

----------------------------------------------------------------------------
(* The Hand on the table, asked once for the page until an import forgets  *)
(* all: what is kept is the answer, or the promise of one.                 *)

Promise(now, h) == [id |-> now.asked + 1, hand |-> h, imports |-> now.imports, answered |-> FALSE]

\* Bug: the answer of the Hand shown before is still waited for.
Awaiting_All(now, h, id) == now.awaits \cup {[hand |-> h, id |-> id]}
Awaiting(now, h, id) == {[hand |-> h, id |-> id]}

FetchHand(now, h) ==
    LET known == now.kept[h] IN
    IF known = None
    THEN [now EXCEPT !.kept[h] = Promise(now, h), !.calls = @ \cup {Promise(now, h)}, !.asked = @ + 1,
                     !.awaits = Awaiting(now, h, now.asked + 1), !.for = h]
    ELSE IF known.answered
    THEN [now EXCEPT !.load = [hand |-> h, loaded |-> TRUE], !.awaits = Awaiting(now, h, 0), !.for = h]
    ELSE [now EXCEPT !.awaits = Awaiting(now, h, known.id), !.for = h]

HandsFor(now, h) ==
    IF h = now.for THEN now ELSE IF h = None THEN [now EXCEPT !.awaits = {}, !.for = None] ELSE FetchHand(now, h)

\* A result for the previous Hand never shows under the new one.
LoadShown ==
    IF hands.load # None /\ hands.load.hand = ShownHand(room)
    THEN IF hands.load.loaded THEN "loaded" ELSE "failed" ELSE "loading"

----------------------------------------------------------------------------
(* The screen drawn anew. Another Hand in the panel takes with it the      *)
(* draft, the edit and the undo of the one before; without an Entry to     *)
(* show there is no panel. Out of the screen nothing of it is left, but    *)
(* for the Hands kept.                                                     *)

Panel(on) == [for |-> on, draft |-> None, editing |-> None]
NoScreen == [on |-> FALSE, last |-> None, filter |-> None, decision |-> None, leavingTo |-> None]
NoOffers == [queue |-> NoOffer, notes |-> NoOffer]
Blank(now) == [now EXCEPT !.awaits = {}, !.for = None, !.load = None]

\* Bug: the undo of a Note outlives the Hand it was on.
NotesOffer_Kept(o, n, on) == o
NotesOffer(o, n, on) == IF on = n.for THEN o ELSE NoOffer

Renders(r, s, n, o, h) ==
    IF ~s.on \/ r.phase # "in-room" \/ (s.leavingTo # None /\ ~r.master)
    THEN /\ room' = [r EXCEPT !.phase = IF s.leavingTo # None /\ ~r.master THEN "home" ELSE @]
         /\ screen' = NoScreen /\ noting' = Panel(None) /\ offers' = NoOffers /\ hands' = Blank(h)
         /\ lastSeen' = None
    ELSE LET last == IF LoadedEntry(r) # None THEN LoadedEntry(r) ELSE s.last
             on == HandOn(DetailsOf(r, last)) IN
         /\ room' = r
         /\ screen' = [s EXCEPT !.last = last]
         /\ noting' = IF on = n.for THEN n ELSE Panel(on)
         /\ offers' = [o EXCEPT !.notes = NotesOffer(@, n, on)]
         /\ HandsFor(h, ShownHand(r)).asked <= MaxFetches
         /\ hands' = HandsFor(h, ShownHand(r))
         /\ lastSeen' = IF LoadedEntry(r) # None THEN LoadedEntry(r)
                        ELSE IF ShownHand(r) = ShownHand(room) THEN lastSeen ELSE None

Spend(removals) ==
    /\ spent.steps < MaxVisitSteps
    /\ spent' = [steps |-> spent.steps + 1, removals |-> spent.removals + removals]
Step == Spend(0)
InRoom == room.phase = "in-room"
OnScreen == InRoom /\ screen.on

RoomIs(r) == Renders(r, screen, noting, offers, hands) /\ UNCHANGED door
ScreenIs(s) == Renders(room, s, noting, offers, hands) /\ UNCHANGED door
NotingIs(n) == Renders(room, screen, n, offers, hands) /\ UNCHANGED door
OffersAre(o) == Renders(room, screen, noting, o, hands) /\ UNCHANGED door
HandsAre(h) == Renders(room, screen, noting, offers, h) /\ UNCHANGED door

----------------------------------------------------------------------------
(* The way in: whoever can go in as they are goes straight in; anyone else *)
(* signs in at the door, or enters without an Account.                     *)

CanEnter == door.identity # None
EnterAs == door.identity \in {"account", "anonymous"}
Card ==
    CASE room.phase \in {"in-room", "closed", "kicked", "left", "disconnected", "home"} -> room.phase
      [] room.phase = "misnamed" /\ door.lookup = "found" -> "confirm"
      [] room.phase \in {"misnamed", "rejected"} -> "unavailable"
      [] OTHER -> IF door.named \/ EnterAs \/ door.lookup = "loading" THEN "status"
                  ELSE IF door.lookup = "failed" THEN "unavailable"
                  ELSE IF CanEnter THEN "confirm" ELSE "door"

\* A name confirmed opens the connection, which joins under it.
DoorIs(d) == door' = d /\ UNCHANGED <<screen, noting, offers, hands, lastSeen, spent>>
Joining == room' = [room EXCEPT !.phase = "joining"]
Look ==
    /\ door.lookup = "loading" /\ \E found \in {"found", "failed"} : DoorIs([door EXCEPT !.lookup = found])
    /\ UNCHANGED room
ConfirmName == Card = "confirm" /\ DoorIs([door EXCEPT !.named = TRUE]) /\ Joining
EnterWithoutAccount ==
    Card = "door" /\ DoorIs([door EXCEPT !.identity = "anonymous", !.named = TRUE, !.lookup = "loading"]) /\ Joining
SignInAtDoor ==
    Card = "door" /\ DoorIs([door EXCEPT !.identity = "account", !.named = TRUE, !.lookup = "loading"]) /\ Joining
Joined ==
    /\ room.phase = "joining"
    /\ \/ /\ \E phase \in {"misnamed", "rejected", "disconnected"} : room' = [room EXCEPT !.phase = phase]
          /\ DoorIs(door)
       \/ /\ \E master \in BOOLEAN, queue \in {<<>>, <<CHOOSE e \in EntryIds : TRUE>>} :
                Renders([room EXCEPT !.phase = "in-room", !.master = master, !.queue = queue],
                        [NoScreen EXCEPT !.on = TRUE], noting, offers, hands)
          /\ UNCHANGED <<door, spent>>

----------------------------------------------------------------------------
(* News of the Room.                                                       *)

\* An Entry moved one place among all of the Queue, filtered or not.
Moved(queue, k) == [queue EXCEPT ![k] = queue[k + 1], ![k + 1] = queue[k]]

News ==
    /\ InRoom /\ Step
    /\ \/ \E e \in EntryIds : /\ \A k \in DOMAIN room.queue : HandIn[room.queue[k]] # HandIn[e]
                              /\ RoomIs([room EXCEPT !.queue = Append(@, e)])
       \/ \E k \in DOMAIN room.queue : RoomIs([room EXCEPT !.queue = RemoveAt(@, k)])
       \/ \E k \in 1 .. (Len(room.queue) - 1) : RoomIs([room EXCEPT !.queue = Moved(@, k)])
       \/ \E n \in NoteIds \ room.notes : /\ \E e \in ToSet(room.queue) : HandIn[e] = NotesAbout[n]
                                          /\ RoomIs([room EXCEPT !.notes = @ \cup {n}])
       \/ \E n \in room.notes : RoomIs([room EXCEPT !.notes = @ \ {n}])
       \/ RoomIs([room EXCEPT !.master = ~@])
       \/ RoomIs([room EXCEPT !.offline = ~@])
       \/ ~room.live /\ \E h \in RoomHandIds \cup {None} : RoomIs([room EXCEPT !.live = TRUE, !.playback = h])
       \/ room.live /\ \E h \in RoomHandIds : RoomIs([room EXCEPT !.playback = h])
       \/ room.live /\ RoomIs([room EXCEPT !.live = FALSE, !.own = IF room.playback = None THEN @ ELSE room.playback])
       \/ \E phase \in {"closed", "kicked", "left", "disconnected"} : RoomIs([room EXCEPT !.phase = phase])

----------------------------------------------------------------------------
(* What the person does.                                                   *)

\* Their own table opens at once; everyone's, when the Room says so.
Open(h) == ~room.live /\ Step /\ RoomIs([room EXCEPT !.own = h])
OpenEntry(e) == OnScreen /\ Drives(room) /\ e \in Visible /\ Open(HandIn[e])
\* J and K; with no Hand loaded, or the loaded one gone, K opens the first.
StepThroughQueue ==
    /\ OnScreen /\ Drives(room) /\ ~(room.live /\ room.offline)
    /\ \E k \in {LoadedIndex(room) - 1, LoadedIndex(room) + 1} \cap DOMAIN room.queue : Open(HandIn[room.queue[k]])
Filter ==
    OnScreen /\ \E f \in RoomHandIds \cup {None} : ScreenIs([screen EXCEPT !.filter = f]) /\ Step

RemoveOffering(kind, id) ==
    /\ OnScreen /\ Spend(1)
    /\ OffersAre([offers EXCEPT ![kind] = Offered(@, id, spent.removals + 1)])
RemoveEntry(e) == room.master /\ e \in Visible /\ RemoveOffering("queue", e)
RemoveNote(n) == n \in NotesHere \ {noting.editing} /\ RemoveOffering("notes", n)
TakeBack(kind) ==
    /\ OnScreen /\ offers[kind].pending # None /\ (kind = "queue" => room.master)
    /\ OffersAre([offers EXCEPT ![kind] = NoOffer]) /\ UNCHANGED spent
OfferPasses(kind) ==
    /\ OnScreen /\ offers[kind].timers # <<>>
    /\ OffersAre([offers EXCEPT ![kind] = Withdrawn(@)]) /\ UNCHANGED spent

\* Only its writer, or the Master, may change a Note: here all are theirs.
Draft == OnScreen /\ noting.for # None /\ NotingIs([noting EXCEPT !.draft = noting.for]) /\ Step
WriteNote == OnScreen /\ noting.draft # None /\ NotingIs([noting EXCEPT !.draft = None]) /\ Step
EditNote(n) == OnScreen /\ n \in NotesHere /\ NotingIs([noting EXCEPT !.editing = n]) /\ Step
EndEdit == OnScreen /\ noting.editing \in NotesHere /\ NotingIs([noting EXCEPT !.editing = None]) /\ Step

\* A Guest just leaves. The Master hands the role on, and walks out once it
\* has moved, or closes the Room.
Leave ==
    /\ OnScreen /\ Step
    /\ IF room.master THEN ScreenIs([screen EXCEPT !.decision = "leave"]) ELSE RoomIs([room EXCEPT !.phase = "home"])
AskKick == OnScreen /\ room.master /\ Step /\ ScreenIs([screen EXCEPT !.decision = "kick"])
AskClose == OnScreen /\ screen.decision = "leave" /\ ScreenIs([screen EXCEPT !.decision = "close"]) /\ Step
Decide ==
    /\ OnScreen /\ screen.decision \in {"kick", "close"}
    /\ ScreenIs([screen EXCEPT !.decision = None]) /\ Step
HandOverTo(p) ==
    /\ OnScreen /\ screen.decision = "leave" /\ screen.leavingTo = None
    /\ ScreenIs([screen EXCEPT !.leavingTo = p]) /\ Step
Dismiss == OnScreen /\ screen.decision # None /\ ScreenIs([screen EXCEPT !.decision = None]) /\ Step

\* Settings, or the Library to pick Hands, keep the Room but not its screen.
StepOut == OnScreen /\ Step /\ ScreenIs([screen EXCEPT !.on = FALSE])
ComeBack == InRoom /\ ~screen.on /\ ScreenIs([screen EXCEPT !.on = TRUE]) /\ UNCHANGED spent

----------------------------------------------------------------------------
(* Hands and imports.                                                      *)

\* A failed Hand is not remembered, whichever asked for it.
FetchAnswers(c, ok) ==
    /\ HandsAre([hands EXCEPT
            !.calls = @ \ {c},
            !.kept[c.hand] = IF ~ok THEN None ELSE IF @ # None /\ @.id = c.id THEN [@ EXCEPT !.answered = TRUE] ELSE @,
            !.load = IF \E a \in hands.awaits : a.id = c.id THEN [hand |-> c.hand, loaded |-> ok] ELSE @,
            !.awaits = {a \in @ : a.id # c.id}])
    /\ UNCHANGED spent
Retry ==
    /\ OnScreen /\ LoadShown = "failed"
    /\ hands.awaits = {}
    /\ FetchHand(hands, hands.for).asked <= MaxFetches
    /\ HandsAre(FetchHand(hands, hands.for)) /\ UNCHANGED spent

\* Hands pasted in the Room have been taken, be its screen still there or
\* not: the next fetch of any goes out.
PasteAnswered ==
    /\ InRoom /\ Step
    /\ HandsAre([hands EXCEPT !.kept = [h \in RoomHandIds |-> None], !.imports = @ + 1])

----------------------------------------------------------------------------
\* The way in is explored to its end, and what happens then from one of them.
PageInit ==
    /\ \/ \E identity \in {None, "nameless"} :
            /\ door = [identity |-> identity, named |-> FALSE, lookup |-> "loading"]
            /\ spent = [steps |-> MaxVisitSteps, removals |-> 0]
       \/ /\ door = [identity |-> "account", named |-> TRUE, lookup |-> "found"]
          /\ spent = [steps |-> 0, removals |-> 0]
    /\ room = [phase |-> IF EnterAs THEN "joining" ELSE "door", queue |-> <<>>, notes |-> {}, master |-> FALSE,
               live |-> FALSE, playback |-> None, own |-> None, offline |-> FALSE]
    /\ screen = NoScreen /\ noting = Panel(None) /\ offers = NoOffers /\ lastSeen = None
    /\ hands = [kept |-> [h \in RoomHandIds |-> None], calls |-> {}, awaits |-> {}, for |-> None, load |-> None,
                asked |-> 0, imports |-> 0]

PageNext ==
    \/ Look \/ ConfirmName \/ EnterWithoutAccount \/ SignInAtDoor \/ Joined \/ News
    \/ StepThroughQueue \/ Filter \/ Draft \/ WriteNote \/ EndEdit
    \/ Leave \/ AskKick \/ AskClose \/ Decide \/ Dismiss \/ HandOverTo("other") \/ StepOut \/ ComeBack
    \/ Retry \/ PasteAnswered
    \/ \E e \in EntryIds : OpenEntry(e) \/ RemoveEntry(e)
    \/ \E n \in NoteIds : EditNote(n) \/ RemoveNote(n)
    \/ \E kind \in {"queue", "notes"} : TakeBack(kind) \/ OfferPasses(kind)
    \/ \E c \in hands.calls, ok \in BOOLEAN : FetchAnswers(c, ok)

----------------------------------------------------------------------------
(* A removal can be taken back for its whole time, however many are made   *)
(* one after another, and no longer (pendingUndo.ts): only another Hand in *)
(* the panel, or leaving the screen, gives the offer up sooner.            *)
OfferLasts ==
    door # None => \A kind \in {"queue", "notes"} : offers[kind].due # 0 <=> offers[kind].pending # None

(* The panel is of the Hand on the table: the last Entry seen for it stays *)
(* once removed, and a draft, an edit and an undo are of that Hand, on     *)
(* whatever Hand the Room goes next (RoomScreen.tsx, HandNotes).           *)
PanelIsOfTheHand ==
    (door # None /\ OnScreen) =>
        /\ lastSeen # None => DetailsOf(room, screen.last) = lastSeen
        /\ noting.draft # None => noting.draft = ShownHand(room)
        /\ noting.editing # None => NotesAbout[noting.editing] = ShownHand(room)
        /\ offers.notes.pending # None => NotesAbout[offers.notes.pending] = ShownHand(room)

(* Once nothing is asked for, the table has the Hand it should show or why *)
(* it has not, never waiting for an answer already taken by another Hand;  *)
(* and no Hand read before the last import is kept (useHand.ts, hand.ts).  *)
HandKeepsUp ==
    door # None =>
        /\ (OnScreen /\ ShownHand(room) # None /\ hands.calls = {}) => LoadShown # "loading"
        /\ \A h \in RoomHandIds : hands.kept[h] # None => hands.kept[h].imports = hands.imports
=============================================================================
