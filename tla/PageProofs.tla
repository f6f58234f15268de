----------------------------- MODULE PageProofs -----------------------------
(***************************************************************************)
(* What the page of a Room keeps of its own is of the Room as it is now,   *)
(* whatever news, answers and clicks came in whatever order: the panel and *)
(* its draft, the removals that can be taken back, and the Hand on the     *)
(* table.                                                                  *)
(*                                                                         *)
(* Every action draws the screen anew (Renders), so that one lemma about   *)
(* it carries what matters (DrawnAnew): each action has only to show that  *)
(* what it draws is well formed (Fits).                                    *)
(*                                                                         *)
(* Then, of the same Room, how its Participants are seen to follow it.     *)
(***************************************************************************)
EXTENDS RoomPage, Presence, SequenceTheorems, WellFoundedInduction, TLAPS

PageSpec == PageInit /\ [][PageNext]_pageVars

HandOrNone == RoomHandIds \cup {None}

RoomOK(r) ==
    r \in [phase : {r.phase}, queue : Seq(EntryIds), notes : {r.notes}, master : {r.master},
           live : {r.live}, playback : HandOrNone, own : HandOrNone, offline : {r.offline}]

ScreenOK(s) ==
    s \in [on : {s.on}, last : {s.last}, filter : {s.filter}, decision : {s.decision},
           leavingTo : {s.leavingTo}]

(* The panel, and the removed Note that can be taken back: all of one Hand.*)
PanelOK(n, offer) ==
    /\ n \in [for : {n.for}, draft : {n.draft}, editing : {n.editing}]
    /\ n.draft # None => n.for # None /\ n.draft = n.for
    /\ n.editing # None => n.for # None /\ NotesAbout[n.editing] = n.for
    /\ offer.pending # None => n.for # None /\ NotesAbout[offer.pending] = n.for

(* An offer has one timer, that of its removal.                            *)
OfferOK(o) ==
    \/ o = NoOffer
    \/ o.pending # None /\ o.due # 0 /\ o = [pending |-> o.pending, timers |-> <<o.due>>, due |-> o.due]

OffersOK(o) ==
    o = [queue |-> o.queue, notes |-> o.notes] /\ OfferOK(o.queue) /\ OfferOK(o.notes)

(* Every Hand kept is as of the last import, and its answer, if there is   *)
(* none yet, is on its way.                                                *)
KeptOK(h) ==
    \A x \in RoomHandIds : h.kept[x] # None =>
        /\ h.kept[x] = [id |-> h.kept[x].id, hand |-> x, imports |-> h.imports,
                        answered |-> h.kept[x].answered]
        /\ ~h.kept[x].answered => \E c \in h.calls : c.id = h.kept[x].id /\ c.hand = x

CallsOK(h) ==
    /\ \A c \in h.calls : c.id \in 1 .. h.asked /\ c.hand \in RoomHandIds
    /\ \A c, d \in h.calls : c.id = d.id => c.hand = d.hand

(* The Hand that is to be shown has been loaded, or is waited for.         *)
AwaitedOK(h) ==
    /\ h.load # None => h.load.hand \in RoomHandIds
    /\ \A a \in h.awaits, c \in h.calls : a.id = c.id => c.hand = h.for
    /\ h.for # None => \/ h.load # None /\ h.load.hand = h.for
                       \/ \E a \in h.awaits, c \in h.calls : a.id = c.id

HandsOK(h) ==
    /\ h = [kept |-> h.kept, calls |-> h.calls, awaits |-> h.awaits, for |-> h.for,
            load |-> h.load, asked |-> h.asked, imports |-> h.imports]
    /\ DOMAIN h.kept = RoomHandIds /\ h.kept = [x \in RoomHandIds |-> h.kept[x]]
    /\ h.asked \in Nat /\ h.for \in HandOrNone
    /\ KeptOK(h) /\ CallsOK(h) /\ AwaitedOK(h)

Fits(r, s, n, o, h) ==
    RoomOK(r) /\ ScreenOK(s) /\ PanelOK(n, o.notes) /\ OffersOK(o) /\ HandsOK(h)

Shown(r, s) == r.phase = "in-room" /\ s.on

(* On the screen, all is of the Hand shown; off it, nothing is left.       *)
OfTheHand ==
    /\ Shown(room, screen) =>
        /\ noting.for # None => noting.for = ShownHand(room)
        /\ hands.for = ShownHand(room)
    /\ ~Shown(room, screen) => lastSeen = None /\ hands.for = None /\ noting.for = None
    /\ lastSeen # None =>
        /\ screen.last = lastSeen /\ HandIn[lastSeen] = ShownHand(room)
        /\ DetailsOf(room, screen.last) = lastSeen

Drawn == Fits(room, screen, noting, offers, hands) /\ OfTheHand
SpentOK == spent = [steps |-> spent.steps, removals |-> spent.removals] /\ spent.removals \in Nat
PageInv == Drawn /\ SpentOK

-----------------------------------------------------------------------------
(* The Hand shown, and what is on the Queue for it.                        *)

LEMMA ShownHandOK ==
    ASSUME NEW r, RoomOK(r)
    PROVE  ShownHand(r) \in HandOrNone
BY DEF RoomOK, ShownHand

LEMMA LoadedIsShown ==
    ASSUME NEW r, LoadedEntry(r) # None
    PROVE  HandIn[LoadedEntry(r)] = ShownHand(r)
<1> DEFINE Of(k) == HandIn[r.queue[k]] = ShownHand(r)
           i == CHOOSE k \in DOMAIN r.queue : Of(k)
<1>1. (\E k \in DOMAIN r.queue : Of(k)) /\ LoadedIndex(r) = i
  BY DEF LoadedEntry, LoadedIndex
<1>2. Of(i)
  BY <1>1
<1> QED  BY <1>1, <1>2 DEF LoadedEntry

LEMMA DetailsAreShown ==
    ASSUME NEW r, NEW last, DetailsOf(r, last) # None
    PROVE  HandOn(DetailsOf(r, last)) = ShownHand(r)
BY LoadedIsShown DEF DetailsOf, HandOn

-----------------------------------------------------------------------------
(* A Hand asked for.                                                       *)

LEMMA FetchHandOK ==
    ASSUME NEW h, HandsOK(h), NEW x \in RoomHandIds
    PROVE  HandsOK(FetchHand(h, x)) /\ FetchHand(h, x).for = x
<1> SUFFICES ASSUME NEW g, g = FetchHand(h, x)
             PROVE  HandsOK(g) /\ g.for = x
  OBVIOUS
<1> DEFINE p == Promise(h, x)
<1>1. /\ h.asked \in Nat /\ DOMAIN h.kept = RoomHandIds /\ KeptOK(h) /\ CallsOK(h) /\ AwaitedOK(h)
      /\ p = [id |-> h.asked + 1, hand |-> x, imports |-> h.imports, answered |-> FALSE]
  BY DEF HandsOK, Promise
<1> HIDE DEF p
<1>2. CASE h.kept[x] = None
  <2>1. g = [kept |-> [h.kept EXCEPT ![x] = p], calls |-> h.calls \cup {p},
             awaits |-> {[hand |-> x, id |-> h.asked + 1]}, for |-> x,
             load |-> h.load, asked |-> h.asked + 1, imports |-> h.imports]
    BY <1>2 DEF FetchHand, Awaiting, HandsOK, p
  <2>2. KeptOK(g)
    <3> SUFFICES ASSUME NEW y \in RoomHandIds, g.kept[y] # None
                 PROVE  /\ g.kept[y] = [id |-> g.kept[y].id, hand |-> y, imports |-> g.imports,
                                        answered |-> g.kept[y].answered]
                        /\ ~g.kept[y].answered =>
                             \E c \in g.calls : c.id = g.kept[y].id /\ c.hand = y
      BY DEF KeptOK
    <3>1. CASE y = x
      <4>1. g.kept[y] = p /\ g.imports = h.imports /\ p \in g.calls
        BY <1>1, <2>1, <3>1
      <4> QED  BY <1>1, <3>1, <4>1
    <3>2. CASE y # x
      <4>1. g.kept[y] = h.kept[y] /\ g.imports = h.imports /\ h.calls \subseteq g.calls
        BY <1>1, <2>1, <3>2
      <4> QED  BY <1>1, <4>1 DEF KeptOK
    <3> QED  BY <3>1, <3>2
  <2>3. CallsOK(g)
    BY <1>1, <2>1 DEF CallsOK
  <2>4. AwaitedOK(g)
    <3>1. \A c \in h.calls : c.id # h.asked + 1
      BY <1>1 DEF CallsOK
    <3>2. p.id = h.asked + 1 /\ p.hand = x
      BY <1>1
    <3>3. g.for = x /\ g.load = h.load /\ g.calls = h.calls \cup {p}
          /\ g.awaits = {[hand |-> x, id |-> h.asked + 1]}
      BY <2>1
    <3>4. \A a \in g.awaits, c \in g.calls : a.id = c.id => c.hand = x
      BY <3>1, <3>2, <3>3
    <3>5. \E a \in g.awaits, c \in g.calls : a.id = c.id
      BY <3>2, <3>3
    <3> QED  BY <1>1, <3>3, <3>4, <3>5 DEF AwaitedOK, HandOrNone
  <2>5. /\ DOMAIN g.kept = RoomHandIds /\ g.kept = [y \in RoomHandIds |-> g.kept[y]]
    <3>1. h.kept = [y \in RoomHandIds |-> h.kept[y]]
      BY DEF HandsOK
    <3>2. g.kept = [y \in RoomHandIds |-> IF y = x THEN p ELSE h.kept[y]]
      BY <2>1, <3>1
    <3> QED  BY <3>2
  <2>7. g.asked \in Nat /\ g.for = x /\ x \in HandOrNone
    BY <1>1, <2>1 DEF HandOrNone
  <2>6. g = [kept |-> g.kept, calls |-> g.calls, awaits |-> g.awaits, for |-> g.for,
             load |-> g.load, asked |-> g.asked, imports |-> g.imports]
    BY <2>1
  <2> QED  BY <2>2, <2>3, <2>4, <2>5, <2>6, <2>7 DEF HandsOK
<1>3. CASE h.kept[x] # None /\ h.kept[x].answered
  <2>1. g = [kept |-> h.kept, calls |-> h.calls, awaits |-> {[hand |-> x, id |-> 0]}, for |-> x,
             load |-> [hand |-> x, loaded |-> TRUE], asked |-> h.asked, imports |-> h.imports]
    BY <1>3 DEF FetchHand, Awaiting, HandsOK
  <2>2. KeptOK(g) /\ CallsOK(g)
    BY <1>1, <2>1 DEF KeptOK, CallsOK
  <2>3. AwaitedOK(g)
    <3>1. \A c \in h.calls : c.id # 0
      BY <1>1 DEF CallsOK
    <3>2. /\ g.for = x /\ g.load = [hand |-> x, loaded |-> TRUE] /\ g.calls = h.calls
          /\ g.awaits = {[hand |-> x, id |-> 0]}
      BY <2>1
    <3>3. g.load.hand = x
      BY <3>2
    <3>4. \A a \in g.awaits : a.id = 0
      BY <3>2
    <3>5. [hand |-> x, loaded |-> TRUE] \in [hand : RoomHandIds, loaded : BOOLEAN]
      OBVIOUS
    <3>6. g.load # None
      BY <3>2, <3>5, NoneIsNoAnswer
    <3> QED  BY <3>1, <3>2, <3>3, <3>4, <3>6 DEF AwaitedOK
  <2>4. g.kept = h.kept /\ g.asked = h.asked /\ g.for = x /\ x \in HandOrNone
    BY <2>1 DEF HandOrNone
  <2>5. g = [kept |-> g.kept, calls |-> g.calls, awaits |-> g.awaits, for |-> g.for,
             load |-> g.load, asked |-> g.asked, imports |-> g.imports]
    BY <2>1
  <2> QED  BY <2>2, <2>3, <2>4, <2>5 DEF HandsOK
<1>4. CASE h.kept[x] # None /\ ~h.kept[x].answered
  <2>1. g = [kept |-> h.kept, calls |-> h.calls, awaits |-> {[hand |-> x, id |-> h.kept[x].id]},
             for |-> x, load |-> h.load, asked |-> h.asked, imports |-> h.imports]
    BY <1>4 DEF FetchHand, Awaiting, HandsOK
  <2>2. KeptOK(g) /\ CallsOK(g)
    BY <1>1, <2>1 DEF KeptOK, CallsOK
  <2>3. AwaitedOK(g)
    <3>1. PICK c \in h.calls : c.id = h.kept[x].id /\ c.hand = x
      BY <1>1, <1>4 DEF KeptOK
    <3>2. \A d \in h.calls : d.id = h.kept[x].id => d.hand = x
      BY <1>1, <3>1 DEF CallsOK
    <3>3. /\ g.for = x /\ g.load = h.load /\ g.calls = h.calls
          /\ g.awaits = {[hand |-> x, id |-> h.kept[x].id]}
      BY <2>1
    <3>4. \A a \in g.awaits : a.id = h.kept[x].id
      BY <3>3
    <3>5. \E a \in g.awaits, d \in g.calls : a.id = d.id
      BY <3>1, <3>3
    <3> QED  BY <1>1, <3>2, <3>3, <3>4, <3>5 DEF AwaitedOK
  <2>4. g.kept = h.kept /\ g.asked = h.asked /\ g.for = x /\ x \in HandOrNone
    BY <2>1 DEF HandOrNone
  <2>5. g = [kept |-> g.kept, calls |-> g.calls, awaits |-> g.awaits, for |-> g.for,
             load |-> g.load, asked |-> g.asked, imports |-> g.imports]
    BY <2>1
  <2> QED  BY <2>2, <2>3, <2>4, <2>5 DEF HandsOK
<1> QED  BY <1>2, <1>3, <1>4

LEMMA HandsForOK ==
    ASSUME NEW h, HandsOK(h), NEW x \in HandOrNone
    PROVE  HandsOK(HandsFor(h, x)) /\ HandsFor(h, x).for = x
<1>1. CASE x = h.for
  BY <1>1 DEF HandsFor
<1>2. CASE x # h.for /\ x = None
  <2> PICK g : g = [h EXCEPT !.awaits = {}, !.for = None]
    OBVIOUS
  <2>1. g = [kept |-> h.kept, calls |-> h.calls, awaits |-> {}, for |-> None,
             load |-> h.load, asked |-> h.asked, imports |-> h.imports]
    BY DEF HandsOK
  <2>2. HandsFor(h, x) = g
    BY <1>2 DEF HandsFor
  <2>3. KeptOK(g) /\ CallsOK(g) /\ AwaitedOK(g)
    BY <2>1 DEF HandsOK, KeptOK, CallsOK, AwaitedOK
  <2> QED  BY <1>2, <2>1, <2>2, <2>3 DEF HandsOK
<1>3. CASE x # h.for /\ x # None
  BY <1>3, FetchHandOK DEF HandsFor, HandOrNone
<1> QED  BY <1>1, <1>2, <1>3

LEMMA BlankOK ==
    ASSUME NEW h, HandsOK(h)
    PROVE  HandsOK(Blank(h)) /\ Blank(h).for = None
<1> SUFFICES ASSUME NEW g, g = Blank(h)
             PROVE  HandsOK(g) /\ g.for = None
  OBVIOUS
<1>1. g = [kept |-> h.kept, calls |-> h.calls, awaits |-> {}, for |-> None,
           load |-> None, asked |-> h.asked, imports |-> h.imports]
  BY DEF HandsOK, Blank
<1>2. KeptOK(g) /\ CallsOK(g) /\ AwaitedOK(g)
  BY <1>1 DEF HandsOK, KeptOK, CallsOK, AwaitedOK
<1> QED  BY <1>1, <1>2 DEF HandsOK, HandOrNone

-----------------------------------------------------------------------------
(* Whatever is drawn, all of it is of the Hand shown.                      *)

LEMMA DrawnAnew ==
    ASSUME PageInv, NEW r, NEW s, NEW n, NEW o, NEW h, Fits(r, s, n, o, h),
           lastSeen # None => s.last = screen.last, Renders(r, s, n, o, h)
    PROVE  Drawn'
<1> SUFFICES Fits(room', screen', noting', offers', hands') /\ OfTheHand'
  BY DEF Drawn
<1> USE DEF Fits
<1>1. CASE ~s.on \/ r.phase # "in-room" \/ (s.leavingTo # None /\ ~r.master)
  <2>1. /\ room' = [r EXCEPT !.phase = IF s.leavingTo # None /\ ~r.master THEN "home" ELSE @]
        /\ screen' = NoScreen /\ noting' = Panel(None) /\ offers' = NoOffers /\ hands' = Blank(h)
        /\ lastSeen' = None
    BY <1>1 DEF Renders
  <2>2. RoomOK(room')
    BY <2>1 DEF RoomOK
  <2>3. ScreenOK(screen') /\ ~screen'.on
    BY <2>1 DEF ScreenOK, NoScreen
  <2>4. PanelOK(noting', offers'.notes) /\ noting'.for = None
    BY <2>1 DEF PanelOK, Panel, NoOffers, NoOffer
  <2>5. OffersOK(offers')
    BY <2>1 DEF OffersOK, OfferOK, NoOffers
  <2>6. HandsOK(hands') /\ hands'.for = None
    BY <2>1, BlankOK
  <2>7. OfTheHand'
    BY <2>1, <2>3, <2>4, <2>6 DEF OfTheHand, Shown
  <2> QED  BY <2>2, <2>3, <2>4, <2>5, <2>6, <2>7
<1>2. CASE ~(~s.on \/ r.phase # "in-room" \/ (s.leavingTo # None /\ ~r.master))
  <2> DEFINE last == IF LoadedEntry(r) # None THEN LoadedEntry(r) ELSE s.last
             on == HandOn(DetailsOf(r, last))
             g == HandsFor(h, ShownHand(r))
  <2>1. /\ room' = r /\ screen' = [s EXCEPT !.last = last]
        /\ noting' = IF on = n.for THEN n ELSE Panel(on)
        /\ offers' = [o EXCEPT !.notes = NotesOffer(o.notes, n, on)]
        /\ hands' = g
        /\ lastSeen' = IF LoadedEntry(r) # None THEN LoadedEntry(r)
                       ELSE IF ShownHand(r) = ShownHand(room) THEN lastSeen ELSE None
    BY <1>2 DEF Renders
  <2>2. on # None => on = ShownHand(r)
    BY DetailsAreShown DEF HandOn
  <2>3. HandsOK(hands') /\ hands'.for = ShownHand(r)
    BY <2>1, ShownHandOK, HandsForOK
  <2>4. lastSeen' # None => /\ last = lastSeen' /\ HandIn[lastSeen'] = ShownHand(r)
                            /\ DetailsOf(r, last) = lastSeen'
    <3>1. CASE LoadedEntry(r) # None
      BY <2>1, <3>1, LoadedIsShown DEF DetailsOf
    <3>2. CASE LoadedEntry(r) = None
      BY <2>1, <3>2 DEF DetailsOf, PageInv, Drawn, OfTheHand
    <3> QED  BY <3>1, <3>2
  <2> HIDE DEF last, on, g
  <2>5. ScreenOK(screen') /\ screen'.on /\ screen'.last = last
    BY <1>2, <2>1 DEF ScreenOK
  <2>6. OffersOK(offers') /\ offers'.notes = NotesOffer(o.notes, n, on)
    BY <2>1 DEF OffersOK, OfferOK, NotesOffer
  <2>7. PanelOK(noting', offers'.notes) /\ noting'.for = on
    <3>1. CASE on = n.for
      BY <2>1, <2>6, <3>1 DEF NotesOffer
    <3>2. CASE on # n.for
      BY <2>1, <2>6, <3>2 DEF NotesOffer, NoOffer, Panel, PanelOK
    <3> QED  BY <3>1, <3>2
  <2>8. OfTheHand'
    <3>1. Shown(room', screen')
      BY <1>2, <2>1, <2>5 DEF Shown
    <3>2. ShownHand(room') = ShownHand(r)
      BY <2>1
    <3> QED  BY <2>1, <2>2, <2>3, <2>4, <2>5, <2>7, <3>1, <3>2 DEF OfTheHand
  <2> QED  BY <2>1, <2>3, <2>5, <2>6, <2>7, <2>8
<1> QED  BY <1>1, <1>2

LEMMA RoomDrawn ==
    ASSUME PageInv, NEW r, RoomOK(r), RoomIs(r)
    PROVE  Drawn'
<1>1. Fits(r, screen, noting, offers, hands) /\ (lastSeen # None => screen.last = screen.last)
  BY DEF PageInv, Drawn, Fits
<1> QED  BY <1>1, DrawnAnew DEF RoomIs

LEMMA ScreenDrawn ==
    ASSUME PageInv, NEW s, ScreenOK(s), s.last = screen.last, ScreenIs(s)
    PROVE  Drawn'
<1>1. Fits(room, s, noting, offers, hands)
  BY DEF PageInv, Drawn, Fits
<1> QED  BY <1>1, DrawnAnew DEF ScreenIs

LEMMA NotingDrawn ==
    ASSUME PageInv, NEW n, PanelOK(n, offers.notes), NotingIs(n)
    PROVE  Drawn'
<1>1. Fits(room, screen, n, offers, hands) /\ (lastSeen # None => screen.last = screen.last)
  BY DEF PageInv, Drawn, Fits
<1> QED  BY <1>1, DrawnAnew DEF NotingIs

LEMMA OffersDrawn ==
    ASSUME PageInv, NEW o, OffersOK(o), PanelOK(noting, o.notes), OffersAre(o)
    PROVE  Drawn'
<1>1. Fits(room, screen, noting, o, hands) /\ (lastSeen # None => screen.last = screen.last)
  BY DEF PageInv, Drawn, Fits
<1> QED  BY <1>1, DrawnAnew DEF OffersAre

LEMMA HandsDrawn ==
    ASSUME PageInv, NEW h, HandsOK(h), HandsAre(h)
    PROVE  Drawn'
<1>1. Fits(room, screen, noting, offers, h) /\ (lastSeen # None => screen.last = screen.last)
  BY DEF PageInv, Drawn, Fits
<1> QED  BY <1>1, DrawnAnew DEF HandsAre

LEMMA StillOutside ==
    ASSUME PageInv, room.phase # "in-room", RoomOK(room'), room'.phase # "in-room",
           UNCHANGED <<screen, noting, offers, hands, lastSeen>>
    PROVE  Drawn'
BY DEF PageInv, Drawn, Fits, OfTheHand, Shown

LEMMA Spends ==
    ASSUME PageInv
    PROVE  Step \/ Spend(1) \/ UNCHANGED spent => SpentOK'
BY DEF PageInv, SpentOK, Step, Spend

-----------------------------------------------------------------------------
(* The way in.                                                             *)

LEMMA DoorKeeps ==
    ASSUME PageInv, Look \/ ConfirmName \/ EnterWithoutAccount \/ SignInAtDoor
    PROVE  PageInv'
<1>1. RoomOK(room) /\ UNCHANGED <<screen, noting, offers, hands, lastSeen, spent>>
  BY DEF PageInv, Drawn, Fits, Look, ConfirmName, EnterWithoutAccount, SignInAtDoor, DoorIs
<1>2. SpentOK'
  BY <1>1 DEF PageInv, SpentOK
<1>3. CASE Look
  <2>1. UNCHANGED room
    BY <1>3 DEF Look
  <2> QED  BY <1>1, <1>2, <2>1 DEF PageInv, Drawn, Fits, OfTheHand
<1>4. CASE ConfirmName \/ EnterWithoutAccount \/ SignInAtDoor
  <2>1. (Card = "confirm" \/ Card = "door") /\ Joining
    BY <1>4 DEF ConfirmName, EnterWithoutAccount, SignInAtDoor
  <2>2. room.phase # "in-room"
    BY <2>1 DEF Card
  <2>3. RoomOK(room') /\ room'.phase = "joining"
    BY <1>1, <2>1 DEF Joining, RoomOK
  <2> QED  BY <1>1, <1>2, <2>2, <2>3, StillOutside DEF PageInv
<1> QED  BY <1>3, <1>4

LEMMA JoinedKeeps ==
    ASSUME PageInv, Joined
    PROVE  PageInv'
<1>1. RoomOK(room) /\ room.phase = "joining"
  BY DEF PageInv, Drawn, Fits, Joined
<1>2. CASE /\ \E phase \in {"misnamed", "rejected", "disconnected"} : room' = [room EXCEPT !.phase = phase]
           /\ DoorIs(door)
  <2>1. RoomOK(room') /\ room'.phase # "in-room"
    BY <1>1, <1>2 DEF RoomOK
  <2> QED  BY <1>1, <1>2, <2>1, StillOutside DEF DoorIs, PageInv, SpentOK
<1>3. ASSUME NEW master \in BOOLEAN, NEW queue \in {<<>>, <<CHOOSE e \in EntryIds : TRUE>>},
             Renders([room EXCEPT !.phase = "in-room", !.master = master, !.queue = queue],
                     [NoScreen EXCEPT !.on = TRUE], noting, offers, hands),
             UNCHANGED spent
      PROVE  PageInv'
  <2>1. PICK r, s : /\ r = [room EXCEPT !.phase = "in-room", !.master = master, !.queue = queue]
                    /\ s = [NoScreen EXCEPT !.on = TRUE]
    OBVIOUS
  <2>2. queue \in Seq(EntryIds)
    <3>1. PICK e : e = CHOOSE x \in EntryIds : TRUE
      OBVIOUS
    <3>2. e \in EntryIds
      BY <3>1, PageAssumption DEF EntryIds
    <3>3. queue = <<>> \/ queue = <<e>>
      BY <3>1
    <3>4. <<>> \in Seq(EntryIds) /\ <<e>> \in Seq(EntryIds)
      BY <3>2
    <3> QED  BY <3>3, <3>4
  <2>3. RoomOK(r)
    BY <1>1, <2>1, <2>2 DEF RoomOK
  <2>4. ScreenOK(s)
    BY <2>1 DEF ScreenOK, NoScreen
  <2>5. lastSeen = None
    BY <1>1 DEF PageInv, Drawn, OfTheHand, Shown
  <2>6. Fits(r, s, noting, offers, hands) /\ Renders(r, s, noting, offers, hands)
    BY <1>3, <2>1, <2>3, <2>4 DEF PageInv, Drawn, Fits
  <2> QED  BY <1>3, <2>5, <2>6, DrawnAnew, Spends DEF PageInv
<1> QED  BY <1>2, <1>3 DEF Joined

-----------------------------------------------------------------------------
(* News of the Room.                                                       *)

LEMMA RemovedOK ==
    ASSUME NEW q \in Seq(EntryIds), NEW k \in DOMAIN q
    PROVE  RemoveAt(q, k) \in Seq(EntryIds)
<1>1. k \in 1 .. Len(q)
  OBVIOUS
<1>2. SubSeq(q, 1, k - 1) \in Seq(EntryIds) /\ SubSeq(q, k + 1, Len(q)) \in Seq(EntryIds)
  BY <1>1
<1> QED  BY <1>2 DEF RemoveAt

LEMMA MovedOK ==
    ASSUME NEW q \in Seq(EntryIds), NEW k \in 1 .. (Len(q) - 1)
    PROVE  Moved(q, k) \in Seq(EntryIds)
<1>1. k \in 1 .. Len(q) /\ k + 1 \in 1 .. Len(q)
  OBVIOUS
<1>2. q[k] \in EntryIds /\ q[k + 1] \in EntryIds
  BY <1>1
<1>3. [q EXCEPT ![k] = q[k + 1]] \in Seq(EntryIds) /\ Len([q EXCEPT ![k] = q[k + 1]]) = Len(q)
  BY <1>1, <1>2
<1> QED  BY <1>1, <1>2, <1>3 DEF Moved

LEMMA HandInOK ==
    ASSUME NEW e \in EntryIds
    PROVE  HandIn[e] \in RoomHandIds
BY DEF RoomHandIds

LEMMA NewsKeeps ==
    ASSUME PageInv, News
    PROVE  PageInv'
<1>1. RoomOK(room) /\ SpentOK'
  BY Spends DEF News, PageInv, Drawn, Fits
<1> SUFFICES Drawn'
  BY <1>1 DEF PageInv
<1>2. room.queue \in Seq(EntryIds)
  BY <1>1 DEF RoomOK
<1>3. ASSUME NEW e \in EntryIds, RoomIs([room EXCEPT !.queue = Append(@, e)])
      PROVE  Drawn'
  <2>1. RoomOK([room EXCEPT !.queue = Append(@, e)])
    BY <1>1, <1>2 DEF RoomOK
  <2> QED  BY <1>3, <2>1, RoomDrawn
<1>4. ASSUME NEW k \in DOMAIN room.queue, RoomIs([room EXCEPT !.queue = RemoveAt(@, k)])
      PROVE  Drawn'
  <2>1. PICK q : q = RemoveAt(room.queue, k)
    OBVIOUS
  <2>2. RoomOK([room EXCEPT !.queue = q])
    BY <1>1, <1>2, <2>1, RemovedOK DEF RoomOK
  <2> QED  BY <1>4, <2>1, <2>2, RoomDrawn
<1>5. ASSUME NEW k \in 1 .. (Len(room.queue) - 1), RoomIs([room EXCEPT !.queue = Moved(@, k)])
      PROVE  Drawn'
  <2>1. PICK q : q = Moved(room.queue, k)
    OBVIOUS
  <2>2. RoomOK([room EXCEPT !.queue = q])
    BY <1>1, <1>2, <2>1, MovedOK DEF RoomOK
  <2> QED  BY <1>5, <2>1, <2>2, RoomDrawn
<1>6. ASSUME NEW n, RoomIs([room EXCEPT !.notes = @ \cup {n}]) \/ RoomIs([room EXCEPT !.notes = @ \ {n}])
      PROVE  Drawn'
  <2>1. RoomOK([room EXCEPT !.notes = @ \cup {n}]) /\ RoomOK([room EXCEPT !.notes = @ \ {n}])
    BY <1>1 DEF RoomOK
  <2> QED  BY <1>6, <2>1, RoomDrawn
<1>7. CASE RoomIs([room EXCEPT !.master = ~@]) \/ RoomIs([room EXCEPT !.offline = ~@])
  <2>1. RoomOK([room EXCEPT !.master = ~@]) /\ RoomOK([room EXCEPT !.offline = ~@])
    BY <1>1 DEF RoomOK
  <2> QED  BY <1>7, <2>1, RoomDrawn
<1>8. ASSUME NEW h \in HandOrNone,
             \/ RoomIs([room EXCEPT !.live = TRUE, !.playback = h])
             \/ RoomIs([room EXCEPT !.playback = h])
      PROVE  Drawn'
  <2>1. RoomOK([room EXCEPT !.live = TRUE, !.playback = h]) /\ RoomOK([room EXCEPT !.playback = h])
    BY <1>1 DEF RoomOK
  <2> QED  BY <1>8, <2>1, RoomDrawn
<1>9. CASE RoomIs([room EXCEPT !.live = FALSE, !.own = IF room.playback = None THEN @ ELSE room.playback])
  <2>1. RoomOK([room EXCEPT !.live = FALSE, !.own = IF room.playback = None THEN @ ELSE room.playback])
    BY <1>1 DEF RoomOK
  <2> QED  BY <1>9, <2>1, RoomDrawn
<1>10. ASSUME NEW phase, RoomIs([room EXCEPT !.phase = phase])
       PROVE  Drawn'
  <2>1. RoomOK([room EXCEPT !.phase = phase])
    BY <1>1 DEF RoomOK
  <2> QED  BY <1>10, <2>1, RoomDrawn
<1> QED  BY <1>3, <1>4, <1>5, <1>6, <1>7, <1>8, <1>9, <1>10 DEF News, HandOrNone

-----------------------------------------------------------------------------
(* What the person does.                                                   *)

LEMMA OpenKeeps ==
    ASSUME PageInv, NEW h \in RoomHandIds, Open(h)
    PROVE  PageInv'
<1>1. RoomOK([room EXCEPT !.own = h])
  BY DEF PageInv, Drawn, Fits, RoomOK, HandOrNone
<1> QED  BY <1>1, RoomDrawn, Spends DEF Open, PageInv

LEMMA StepsKeep ==
    ASSUME PageInv, StepThroughQueue \/ \E e \in EntryIds : OpenEntry(e)
    PROVE  PageInv'
<1>1. CASE StepThroughQueue
  <2>1. PICK k \in DOMAIN room.queue : Open(HandIn[room.queue[k]])
    BY <1>1 DEF StepThroughQueue
  <2>2. room.queue \in Seq(EntryIds)
    BY DEF PageInv, Drawn, Fits, RoomOK
  <2>3. HandIn[room.queue[k]] \in RoomHandIds
    BY <2>2, HandInOK
  <2> QED  BY <2>1, <2>3, OpenKeeps
<1>2. ASSUME NEW e \in EntryIds, OpenEntry(e)
      PROVE  PageInv'
  BY <1>2, HandInOK, OpenKeeps DEF OpenEntry
<1> QED  BY <1>1, <1>2

LEMMA ScreenKeeps ==
    ASSUME PageInv, NEW s, ScreenOK(s), s.last = screen.last, ScreenIs(s),
           Step \/ UNCHANGED spent
    PROVE  PageInv'
BY ScreenDrawn, Spends DEF PageInv

LEMMA AskedKeeps ==
    ASSUME PageInv,
           \/ Filter \/ Leave \/ AskKick \/ AskClose \/ Decide \/ Dismiss
           \/ HandOverTo("other") \/ StepOut \/ ComeBack
    PROVE  PageInv'
<1>1. ScreenOK(screen) /\ RoomOK(room)
  BY DEF PageInv, Drawn, Fits
<1>2. ASSUME NEW d, \/ ScreenIs([screen EXCEPT !.decision = d])
                    \/ ScreenIs([screen EXCEPT !.filter = d])
                    \/ ScreenIs([screen EXCEPT !.leavingTo = d])
                    \/ ScreenIs([screen EXCEPT !.on = d]),
             Step \/ UNCHANGED spent
      PROVE  PageInv'
  <2>1. PICK s : /\ ScreenIs(s)
                 /\ \/ s = [screen EXCEPT !.decision = d]
                    \/ s = [screen EXCEPT !.filter = d]
                    \/ s = [screen EXCEPT !.leavingTo = d]
                    \/ s = [screen EXCEPT !.on = d]
    BY <1>2
  <2>2. ScreenOK(s) /\ s.last = screen.last
    BY <1>1, <2>1 DEF ScreenOK
  <2> QED  BY <1>2, <2>1, <2>2, ScreenKeeps
<1>3. ASSUME RoomIs([room EXCEPT !.phase = "home"]), Step
      PROVE  PageInv'
  <2>1. RoomOK([room EXCEPT !.phase = "home"])
    BY <1>1 DEF RoomOK
  <2> QED  BY <1>3, <2>1, RoomDrawn, Spends DEF PageInv
<1> QED  BY <1>2, <1>3 DEF Filter, Leave, AskKick, AskClose, Decide, Dismiss, HandOverTo, StepOut,
                           ComeBack

LEMMA NotingKeeps ==
    ASSUME PageInv, Draft \/ WriteNote \/ EndEdit \/ \E n \in NoteIds : EditNote(n)
    PROVE  PageInv'
<1>1. PanelOK(noting, offers.notes)
  BY DEF PageInv, Drawn, Fits
<1>2. ASSUME NEW n, PanelOK(n, offers.notes), NotingIs(n), Step
      PROVE  PageInv'
  BY <1>2, NotingDrawn, Spends DEF PageInv
<1>3. CASE Draft
  <2>1. PICK n : n = [noting EXCEPT !.draft = noting.for]
    OBVIOUS
  <2>2. PanelOK(n, offers.notes)
    BY <1>1, <1>3, <2>1 DEF PanelOK, Draft
  <2> QED  BY <1>2, <1>3, <2>1, <2>2 DEF Draft
<1>4. CASE WriteNote
  <2>1. PICK n : n = [noting EXCEPT !.draft = None]
    OBVIOUS
  <2>2. PanelOK(n, offers.notes)
    BY <1>1, <2>1 DEF PanelOK
  <2> QED  BY <1>2, <1>4, <2>1, <2>2 DEF WriteNote
<1>5. CASE EndEdit
  <2>1. PICK n : n = [noting EXCEPT !.editing = None]
    OBVIOUS
  <2>2. PanelOK(n, offers.notes)
    BY <1>1, <2>1 DEF PanelOK
  <2> QED  BY <1>2, <1>5, <2>1, <2>2 DEF EndEdit
<1>6. ASSUME NEW m \in NoteIds, EditNote(m)
      PROVE  PageInv'
  <2>1. PICK n : n = [noting EXCEPT !.editing = m]
    OBVIOUS
  <2>2. NotesAbout[m] = noting.for /\ noting.for # None
    BY <1>6, PageAssumption DEF EditNote, NotesHere, NoteIds
  <2>3. PanelOK(n, offers.notes)
    BY <1>1, <2>1, <2>2 DEF PanelOK
  <2> QED  BY <1>2, <1>6, <2>1, <2>3 DEF EditNote
<1> QED  BY <1>3, <1>4, <1>5, <1>6

-----------------------------------------------------------------------------
(* Removals, and what takes them back.                                     *)

LEMMA OfferPassed ==
    ASSUME NEW o, OfferOK(o), o.timers # <<>>
    PROVE  Withdrawn(o) = NoOffer
<1>1. CASE o = NoOffer
  BY <1>1 DEF NoOffer
<1>2. CASE o.timers = <<o.due>>
  <2>1. Head(o.timers) = o.due /\ Tail(o.timers) = <<>>
    BY <1>2
  <2> QED  BY <2>1 DEF Withdrawn, NoOffer
<1> QED  BY <1>1, <1>2 DEF OfferOK

LEMMA OffersKeep ==
    ASSUME PageInv,
           \/ \E e \in EntryIds : RemoveEntry(e)
           \/ \E n \in NoteIds : RemoveNote(n)
           \/ \E kind \in {"queue", "notes"} : TakeBack(kind) \/ OfferPasses(kind)
    PROVE  PageInv'
<1>1. PanelOK(noting, offers.notes) /\ OffersOK(offers) /\ spent.removals \in Nat
  BY DEF PageInv, Drawn, Fits, SpentOK
<1>2. ASSUME NEW o, OffersOK(o), PanelOK(noting, o.notes), OffersAre(o), Spend(1) \/ UNCHANGED spent
      PROVE  PageInv'
  BY <1>2, OffersDrawn, Spends DEF PageInv
<1>3. PanelOK(noting, NoOffer) /\ OfferOK(NoOffer)
  BY <1>1 DEF PanelOK, NoOffer, OfferOK
<1>4. ASSUME NEW id, id # None
      PROVE  OfferOK(Offered(None, id, spent.removals + 1))
  BY <1>1, <1>4 DEF OfferOK, Offered
<1>5. ASSUME NEW e \in EntryIds, RemoveEntry(e)
      PROVE  PageInv'
  <2>1. PICK o : o = [offers EXCEPT !.queue = Offered(@, e, spent.removals + 1)]
    OBVIOUS
  <2>2. OffersAre(o) /\ Spend(1)
    BY <1>5, <2>1 DEF RemoveEntry, RemoveOffering
  <2>3. o.notes = offers.notes /\ o.queue = Offered(None, e, spent.removals + 1)
        /\ o = [queue |-> o.queue, notes |-> o.notes]
    BY <1>1, <2>1 DEF OffersOK, Offered
  <2>4. e # None
    BY PageAssumption DEF EntryIds
  <2>5. OffersOK(o)
    BY <1>1, <1>4, <2>3, <2>4 DEF OffersOK
  <2> QED  BY <1>1, <1>2, <2>2, <2>3, <2>5
<1>6. ASSUME NEW n \in NoteIds, RemoveNote(n)
      PROVE  PageInv'
  <2>1. PICK o : o = [offers EXCEPT !.notes = Offered(@, n, spent.removals + 1)]
    OBVIOUS
  <2>2. OffersAre(o) /\ Spend(1) /\ NotesAbout[n] = noting.for
    BY <1>6, <2>1 DEF RemoveNote, RemoveOffering, NotesHere
  <2>3. o.queue = offers.queue /\ o.notes = Offered(None, n, spent.removals + 1)
        /\ o = [queue |-> o.queue, notes |-> o.notes]
    BY <1>1, <2>1 DEF OffersOK, Offered
  <2>4. n # None /\ NotesAbout[n] # None
    BY PageAssumption DEF NoteIds
  <2>5. OffersOK(o)
    BY <1>1, <1>4, <2>3, <2>4 DEF OffersOK
  <2>6. PanelOK(noting, o.notes)
    BY <1>1, <2>2, <2>3, <2>4 DEF PanelOK, Offered
  <2> QED  BY <1>2, <2>2, <2>5, <2>6
<1>7. ASSUME NEW kind \in {"queue", "notes"}, TakeBack(kind) \/ OfferPasses(kind)
      PROVE  PageInv'
  <2>1. PICK o : o = [offers EXCEPT ![kind] = NoOffer]
    OBVIOUS
  <2>2. OffersAre(o) /\ UNCHANGED spent
    <3>1. CASE TakeBack(kind)
      BY <2>1, <3>1 DEF TakeBack
    <3>2. CASE OfferPasses(kind)
      <4>1. OfferOK(offers[kind])
        BY <1>1 DEF OffersOK
      <4>2. Withdrawn(offers[kind]) = NoOffer
        BY <3>2, <4>1, OfferPassed DEF OfferPasses
      <4> QED  BY <2>1, <3>2, <4>2 DEF OfferPasses
    <3> QED  BY <1>7, <3>1, <3>2
  <2>3. OffersOK(o) /\ PanelOK(noting, o.notes)
    <3>1. CASE kind = "queue"
      <4>1. o.notes = offers.notes /\ o.queue = NoOffer /\ o = [queue |-> o.queue, notes |-> o.notes]
        BY <1>1, <2>1, <3>1 DEF OffersOK
      <4> QED  BY <1>1, <1>3, <4>1 DEF OffersOK
    <3>2. CASE kind = "notes"
      <4>1. o.notes = NoOffer /\ o.queue = offers.queue /\ o = [queue |-> o.queue, notes |-> o.notes]
        BY <1>1, <2>1, <3>2 DEF OffersOK
      <4> QED  BY <1>1, <1>3, <4>1 DEF OffersOK
    <3> QED  BY <3>1, <3>2
  <2> QED  BY <1>2, <2>2, <2>3
<1> QED  BY <1>5, <1>6, <1>7

-----------------------------------------------------------------------------
(* Hands and imports.                                                      *)

LEMMA HandsFields ==
    ASSUME NEW kept, NEW calls, NEW awaits, NEW for, NEW load, NEW asked, NEW seen, NEW g,
           g = [kept |-> kept, calls |-> calls, awaits |-> awaits, for |-> for, load |-> load,
                asked |-> asked, imports |-> seen]
    PROVE  /\ g.kept = kept /\ g.calls = calls /\ g.awaits = awaits /\ g.for = for
           /\ g.load = load /\ g.asked = asked /\ g.imports = seen
OBVIOUS

(* What is kept of a Hand once one of its calls is answered.                *)
Answer(promise, c, ok) ==
    IF ~ok THEN None
    ELSE IF promise # None /\ promise.id = c.id THEN [promise EXCEPT !.answered = TRUE] ELSE promise

LEMMA AnswerKept ==
    ASSUME NEW k, NEW y, NEW i, NEW c, NEW ok \in BOOLEAN, k = None \/
           k = [id |-> k.id, hand |-> y, imports |-> i, answered |-> k.answered],
           NEW new, new = Answer(k, c, ok), new # None
    PROVE  /\ new = [id |-> new.id, hand |-> y, imports |-> i, answered |-> new.answered]
           /\ k # None
           /\ ~new.answered => new = k /\ k.id # c.id
<1>1. CASE k # None /\ k.id = c.id
  <2>1. PICK yes : yes = TRUE
    OBVIOUS
  <2>2. new = [k EXCEPT !.answered = yes]
    BY <1>1, <2>1 DEF Answer
  <2>3. new = [id |-> k.id, hand |-> y, imports |-> i, answered |-> yes]
    BY <1>1, <2>2
  <2> QED  BY <1>1, <2>1, <2>3
<1>2. CASE ~(k # None /\ k.id = c.id)
  BY <1>2 DEF Answer
<1> QED  BY <1>1, <1>2

LEMMA AnswerOK ==
    ASSUME NEW h, HandsOK(h), NEW c \in h.calls, NEW ok \in BOOLEAN,
           NEW new, new = Answer(h.kept[c.hand], c, ok),
           NEW load, load = IF \E a \in h.awaits : a.id = c.id
                            THEN [hand |-> c.hand, loaded |-> ok] ELSE h.load,
           NEW awaits, awaits = {a \in h.awaits : a.id # c.id},
           NEW kept, kept = [h.kept EXCEPT ![c.hand] = new],
           NEW calls, calls = h.calls \ {c},
           NEW g, g = [kept |-> kept, calls |-> calls, awaits |-> awaits, for |-> h.for, load |-> load,
                       asked |-> h.asked, imports |-> h.imports]
    PROVE  HandsOK(g)
<1>1. /\ h.asked \in Nat /\ DOMAIN h.kept = RoomHandIds /\ KeptOK(h) /\ CallsOK(h) /\ AwaitedOK(h)
      /\ h.for \in HandOrNone /\ h.kept = [x \in RoomHandIds |-> h.kept[x]]
  BY DEF HandsOK
<1>2. c.hand \in RoomHandIds
  BY <1>1 DEF CallsOK
<1>3. g = [kept |-> g.kept, calls |-> g.calls, awaits |-> g.awaits, for |-> g.for,
           load |-> g.load, asked |-> g.asked, imports |-> g.imports]
  OBVIOUS
<1>4. /\ g.kept = [x \in RoomHandIds |-> IF x = c.hand THEN new ELSE h.kept[x]]
      /\ g.calls = h.calls \ {c} /\ g.awaits = awaits /\ g.for = h.for /\ g.load = load
      /\ g.asked = h.asked /\ g.imports = h.imports
  <2>1. kept = [x \in RoomHandIds |-> IF x = c.hand THEN new ELSE h.kept[x]]
    BY <1>1
  <2>2. /\ g.kept = kept /\ g.calls = calls /\ g.awaits = awaits /\ g.for = h.for
        /\ g.load = load /\ g.asked = h.asked /\ g.imports = h.imports
    BY HandsFields, Zenon
  <2> QED  BY <2>1, <2>2, Zenon
<1>5. KeptOK(g)
  <2> SUFFICES ASSUME NEW y \in RoomHandIds, g.kept[y] # None
               PROVE  /\ g.kept[y] = [id |-> g.kept[y].id, hand |-> y, imports |-> g.imports,
                                      answered |-> g.kept[y].answered]
                      /\ ~g.kept[y].answered =>
                           \E d \in g.calls : d.id = g.kept[y].id /\ d.hand = y
    BY DEF KeptOK
  <2>1. CASE y # c.hand
    <3>1. g.kept[y] = h.kept[y]
      BY <1>4, <2>1
    <3> QED  BY <1>1, <1>4, <2>1, <3>1 DEF KeptOK
  <2>2. CASE y = c.hand
    <3>1. PICK k : k = h.kept[y]
      OBVIOUS
    <3>2. g.kept[y] = new /\ new = Answer(k, c, ok) /\ new # None
      BY <1>4, <2>2, <3>1
    <3>3. k # None => /\ k = [id |-> k.id, hand |-> y, imports |-> h.imports, answered |-> k.answered]
                      /\ ~k.answered => \E d \in h.calls : d.id = k.id /\ d.hand = y
      BY <1>1, <3>1, Zenon DEF KeptOK
    <3>4. k = None \/ k = [id |-> k.id, hand |-> y, imports |-> h.imports, answered |-> k.answered]
      BY <3>3
    <3>5. /\ new = [id |-> new.id, hand |-> y, imports |-> h.imports, answered |-> new.answered]
          /\ k # None
          /\ ~new.answered => new = k /\ k.id # c.id
      BY <3>2, <3>4, AnswerKept
    <3>6. ~new.answered => \E d \in g.calls : d.id = new.id /\ d.hand = y
      BY <1>4, <3>3, <3>5
    <3> QED  BY <1>4, <3>2, <3>5, <3>6
  <2> QED  BY <2>1, <2>2
<1>6. CallsOK(g)
  BY <1>1, <1>4 DEF CallsOK
<1>7. AwaitedOK(g)
  <2>1. \A a \in g.awaits, d \in g.calls : a.id = d.id => d.hand = g.for
    BY <1>1, <1>4 DEF AwaitedOK
  <2>2. CASE \E a \in h.awaits : a.id = c.id
    <3>1. c.hand = h.for
      BY <1>1, <2>2 DEF AwaitedOK
    <3>2. load = [hand |-> c.hand, loaded |-> ok]
      BY <2>2
    <3>3. load \in [hand : RoomHandIds, loaded : BOOLEAN] /\ load.hand = c.hand
      BY <1>2, <3>2
    <3>4. load # None
      BY <3>3, NoneIsNoAnswer
    <3> QED  BY <1>2, <1>4, <2>1, <3>1, <3>3, <3>4 DEF AwaitedOK
  <2>3. CASE ~ \E a \in h.awaits : a.id = c.id
    <3>1. load = h.load
      BY <2>3
    <3>2. awaits = h.awaits
      BY <2>3
    <3>3. \A a \in h.awaits, d \in h.calls : a.id = d.id => d \in g.calls
      BY <1>4, <2>3
    <3> QED  BY <1>1, <1>4, <2>1, <3>1, <3>2, <3>3 DEF AwaitedOK
  <2> QED  BY <2>2, <2>3
<1>8. DOMAIN g.kept = RoomHandIds /\ g.kept = [x \in RoomHandIds |-> g.kept[x]]
  BY <1>4
<1> QED  BY <1>1, <1>3, <1>4, <1>5, <1>6, <1>7, <1>8 DEF HandsOK

LEMMA AnswersKeep ==
    ASSUME PageInv, NEW c \in hands.calls, NEW ok \in BOOLEAN, FetchAnswers(c, ok)
    PROVE  PageInv'
<1>1. HandsOK(hands)
  BY DEF PageInv, Drawn, Fits
<1>2. PICK new, load, awaits, kept, calls :
          /\ new = Answer(hands.kept[c.hand], c, ok)
          /\ load = IF \E a \in hands.awaits : a.id = c.id
                    THEN [hand |-> c.hand, loaded |-> ok] ELSE hands.load
          /\ awaits = {a \in hands.awaits : a.id # c.id}
          /\ kept = [hands.kept EXCEPT ![c.hand] = new]
          /\ calls = hands.calls \ {c}
  OBVIOUS
<1>3. PICK g : /\ g = [hands EXCEPT !.calls = calls, !.kept = kept, !.load = load, !.awaits = awaits]
               /\ HandsAre(g) /\ UNCHANGED spent
  BY <1>2 DEF FetchAnswers, Answer
<1>4. g = [kept |-> kept, calls |-> calls, awaits |-> awaits, for |-> hands.for, load |-> load,
           asked |-> hands.asked, imports |-> hands.imports]
  BY <1>1, <1>3 DEF HandsOK
<1>5. HandsOK(g)
  BY <1>1, <1>2, <1>4, AnswerOK
<1> QED  BY <1>3, <1>5, HandsDrawn, Spends DEF PageInv

LEMMA RetryKeeps ==
    ASSUME PageInv, Retry
    PROVE  PageInv'
<1>1. HandsOK(hands)
  BY DEF PageInv, Drawn, Fits
<1>2. hands.load # None /\ hands.load.hand = ShownHand(room) /\ Shown(room, screen)
  BY DEF Retry, LoadShown, OnScreen, InRoom, Shown
<1>3. hands.for \in RoomHandIds
  BY <1>1, <1>2 DEF PageInv, Drawn, OfTheHand, HandsOK, AwaitedOK
<1>4. HandsOK(FetchHand(hands, hands.for))
  BY <1>1, <1>3, FetchHandOK
<1> QED  BY <1>4, HandsDrawn, Spends DEF Retry, PageInv

LEMMA PasteKeeps ==
    ASSUME PageInv, PasteAnswered
    PROVE  PageInv'
<1>1. HandsOK(hands)
  BY DEF PageInv, Drawn, Fits
<1>2. PICK kept, n : kept = [h \in RoomHandIds |-> None] /\ n = hands.imports + 1
  OBVIOUS
<1>3. PICK g : g = [hands EXCEPT !.kept = kept, !.imports = n] /\ HandsAre(g)
  BY <1>2 DEF PasteAnswered
<1>4. g = [kept |-> kept, calls |-> hands.calls, awaits |-> hands.awaits, for |-> hands.for,
           load |-> hands.load, asked |-> hands.asked, imports |-> n]
  BY <1>1, <1>3 DEF HandsOK
<1>5. /\ g.kept = kept /\ g.calls = hands.calls /\ g.awaits = hands.awaits /\ g.for = hands.for
      /\ g.load = hands.load /\ g.asked = hands.asked
      /\ g = [kept |-> g.kept, calls |-> g.calls, awaits |-> g.awaits, for |-> g.for,
              load |-> g.load, asked |-> g.asked, imports |-> g.imports]
  BY <1>4
<1>6. KeptOK(g) /\ CallsOK(g) /\ AwaitedOK(g)
  BY <1>1, <1>2, <1>5 DEF HandsOK, KeptOK, CallsOK, AwaitedOK
<1>7. DOMAIN g.kept = RoomHandIds /\ g.kept = [h \in RoomHandIds |-> g.kept[h]]
  BY <1>2, <1>5
<1>8. HandsOK(g)
  BY <1>1, <1>5, <1>6, <1>7 DEF HandsOK
<1> QED  BY <1>3, <1>8, HandsDrawn, Spends DEF PasteAnswered, PageInv

-----------------------------------------------------------------------------
LEMMA PageStarts == PageInit => PageInv
<1> SUFFICES ASSUME PageInit PROVE PageInv
  OBVIOUS
<1>1. SpentOK
  BY DEF PageInit, SpentOK
<1>2. RoomOK(room) /\ room.phase # "in-room"
  BY DEF PageInit, RoomOK, HandOrNone
<1>3. ScreenOK(screen) /\ PanelOK(noting, offers.notes) /\ noting.for = None
  BY DEF PageInit, ScreenOK, NoScreen, PanelOK, Panel, NoOffers, NoOffer
<1>4. OffersOK(offers)
  BY DEF PageInit, OffersOK, OfferOK, NoOffers
<1>5. PICK kept : /\ kept = [h \in RoomHandIds |-> None]
                  /\ hands = [kept |-> kept, calls |-> {}, awaits |-> {}, for |-> None, load |-> None,
                              asked |-> 0, imports |-> 0]
  BY DEF PageInit
<1>6. /\ hands.kept = kept /\ hands.calls = {} /\ hands.awaits = {} /\ hands.for = None
      /\ hands.load = None /\ hands.asked = 0
      /\ hands = [kept |-> hands.kept, calls |-> hands.calls, awaits |-> hands.awaits,
                  for |-> hands.for, load |-> hands.load, asked |-> hands.asked,
                  imports |-> hands.imports]
  BY <1>5
<1>7. HandsOK(hands)
  <2>1. KeptOK(hands) /\ CallsOK(hands) /\ AwaitedOK(hands)
    BY <1>5, <1>6 DEF KeptOK, CallsOK, AwaitedOK
  <2>2. DOMAIN hands.kept = RoomHandIds /\ hands.kept = [h \in RoomHandIds |-> hands.kept[h]]
    BY <1>5, <1>6
  <2> QED  BY <1>6, <2>1, <2>2 DEF HandsOK, HandOrNone
<1> QED  BY <1>1, <1>2, <1>3, <1>4, <1>6, <1>7 DEF PageInv, Drawn, Fits, OfTheHand, Shown, PageInit

LEMMA PageKeeps == PageInv /\ [PageNext]_pageVars => PageInv'
<1> SUFFICES ASSUME PageInv, [PageNext]_pageVars PROVE PageInv'
  OBVIOUS
<1>1. CASE UNCHANGED pageVars
  BY <1>1 DEF pageVars, PageInv, Drawn, Fits, OfTheHand, SpentOK
<1>2. CASE Look \/ ConfirmName \/ EnterWithoutAccount \/ SignInAtDoor
  BY <1>2, DoorKeeps
<1>3. CASE Joined
  BY <1>3, JoinedKeeps
<1>4. CASE News
  BY <1>4, NewsKeeps
<1>5. CASE StepThroughQueue \/ \E e \in EntryIds : OpenEntry(e)
  BY <1>5, StepsKeep
<1>6. CASE \/ Filter \/ Leave \/ AskKick \/ AskClose \/ Decide \/ Dismiss
           \/ HandOverTo("other") \/ StepOut \/ ComeBack
  BY <1>6, AskedKeeps
<1>7. CASE Draft \/ WriteNote \/ EndEdit \/ \E n \in NoteIds : EditNote(n)
  BY <1>7, NotingKeeps
<1>8. CASE \/ \E e \in EntryIds : RemoveEntry(e)
           \/ \E n \in NoteIds : RemoveNote(n)
           \/ \E kind \in {"queue", "notes"} : TakeBack(kind) \/ OfferPasses(kind)
  BY <1>8, OffersKeep
<1>9. CASE Retry
  BY <1>9, RetryKeeps
<1>10. CASE PasteAnswered
  BY <1>10, PasteKeeps
<1>11. CASE \E c \in hands.calls, ok \in BOOLEAN : FetchAnswers(c, ok)
  BY <1>11, AnswersKeep
<1> QED  BY <1>1, <1>2, <1>3, <1>4, <1>5, <1>6, <1>7, <1>8, <1>9, <1>10, <1>11 DEF PageNext

LEMMA PageStays == PageSpec => []PageInv
BY PageStarts, PageKeeps, PTL DEF PageSpec

-----------------------------------------------------------------------------
(* A removal can be taken back for its whole time and no longer: an offer  *)
(* has one timer, and it is that of its own removal (pendingUndo.ts).      *)
THEOREM OfferLastsItsTime == PageSpec => []OfferLasts
<1>1. PageInv => OfferLasts
  <2> SUFFICES ASSUME PageInv, NEW kind \in {"queue", "notes"}
               PROVE  offers[kind].due # 0 <=> offers[kind].pending # None
    BY DEF OfferLasts
  <2>1. OfferOK(offers[kind])
    BY DEF PageInv, Drawn, Fits, OffersOK
  <2> QED  BY <2>1 DEF OfferOK, NoOffer
<1> QED  BY <1>1, PageStays, PTL

(* The panel is of the Hand on the table, and so are the draft, the edit   *)
(* and the removed Note, whatever the Room goes through meanwhile; and the *)
(* Entry last seen for that Hand is still the one shown.                   *)
THEOREM PanelFollowsTheHand == PageSpec => []PanelIsOfTheHand
<1>1. PageInv => PanelIsOfTheHand
  BY DEF PageInv, Drawn, Fits, PanelOK, OfTheHand, PanelIsOfTheHand, OnScreen, InRoom, Shown
<1> QED  BY <1>1, PageStays, PTL

(* With nothing left to answer, the Hand to be shown is loaded or failed,  *)
(* never waited for; and nothing is kept from before the last import.      *)
THEOREM HandIsNeverMissed == PageSpec => []HandKeepsUp
<1>1. PageInv => HandKeepsUp
  <2> SUFFICES ASSUME PageInv
               PROVE  /\ (OnScreen /\ ShownHand(room) # None /\ hands.calls = {}) => LoadShown # "loading"
                      /\ \A h \in RoomHandIds : hands.kept[h] # None => hands.kept[h].imports = hands.imports
    BY DEF HandKeepsUp
  <2>1. KeptOK(hands) /\ AwaitedOK(hands)
    BY DEF PageInv, Drawn, Fits, HandsOK
  <2>2. ASSUME OnScreen, ShownHand(room) # None, hands.calls = {}
        PROVE  LoadShown # "loading"
    <3>1. hands.for = ShownHand(room)
      BY <2>2 DEF PageInv, Drawn, OfTheHand, Shown, OnScreen, InRoom
    <3>2. hands.load # None /\ hands.load.hand = ShownHand(room)
      BY <2>1, <2>2, <3>1 DEF AwaitedOK
    <3> QED  BY <3>2 DEF LoadShown
  <2>3. ASSUME NEW h \in RoomHandIds, hands.kept[h] # None
        PROVE  hands.kept[h].imports = hands.imports
    <3>1. PICK k : k = hands.kept[h]
      OBVIOUS
    <3>2. k = [id |-> k.id, hand |-> h, imports |-> hands.imports, answered |-> k.answered]
      BY <2>1, <2>3, <3>1 DEF KeptOK
    <3> QED  BY <3>1, <3>2
  <2> QED  BY <2>2, <2>3
<1> QED  BY <1>1, PageStays, PTL

-----------------------------------------------------------------------------
(***************************************************************************)
(* How everyone in a Room is seen to follow it. What a tab shows, or will  *)
(* when all on its way has come, is what the Room was last told (ToldOK);  *)
(* what was told differs from what was worked out by less than would be    *)
(* told (WorkedOK); and what was worked out is exact, but for the tabs     *)
(* that are due to beat again (Owing), which it will be once they have.    *)
(***************************************************************************)
PresenceSpec == PresenceInit /\ [][PresenceNext]_presenceVars

Lists == UNION {[S -> Reading] : S \in SUBSET People}
ToTab == [type : {"change"}, revision : Nat]
          \cup [type : {"snapshot"}, revision : Nat, shown : Lists] \cup [type : {"presence"}, shown : Lists]
FromTab == [type : {"beat"}, latency : Measure, revision : Nat] \cup [type : {"resync"}]
Tab == [open : BOOLEAN, in : BOOLEAN, revision : Nat, seen : Nat, awaiting : BOOLEAN, shown : Lists,
        latency : Measure, recent : BOOLEAN, soon : BOOLEAN, beating : BOOLEAN]

PresenceTypes ==
    /\ heard \in [Tabs -> Heartbeat \cup {None}] /\ revisions \in Nat /\ presenceTold \in Lists
    /\ answering \in [Tabs -> Nat \cup {None}]
    /\ incoming \in [Tabs -> Seq(ToTab)] /\ outgoing \in [Tabs -> Seq(FromTab)] /\ tabs \in [Tabs -> Tab]
    /\ known \in [worked : Lists, closed : BOOLEAN, fresher : SUBSET Tabs]

Snapshots == {m \in ToTab : m.type = "snapshot"}
Reports == {m \in ToTab : m.type # "change"}
BeatsSaid == {m \in FromTab : m.type = "beat"}
Telling(list) == {m \in Reports : m.shown = list}
Standing(revision) == {m \in BeatsSaid : m.revision = revision}

NoneOf(s, K) == \A k \in DOMAIN s : s[k] \notin K
LastIn(s, K, M) == \E k \in DOMAIN s : s[k] \in K \cap M /\ \A j \in DOMAIN s : j > k => s[j] \notin K

(* A tab is due to beat again: the server owes it the Room, or it has the  *)
(* Room to take or a beat to send, or one is on its way.                   *)
Owing(a, i, o, c) == a # None \/ ~NoneOf(i, Snapshots) \/ c.soon \/ ~NoneOf(o, BeatsSaid)

(* A tab, by its heartbeat at the server (b), the snapshot being drawn for *)
(* it (a), what is on its way to it (i) and from it (o), and itself (c).   *)
TabOK(b, a, i, o, c) ==
    /\ c.open <=> b # None
    /\ ~c.open => i = <<>> /\ o = <<>> /\ a = None /\ ~c.soon
    /\ b # None /\ a = None /\ NoneOf(i, Snapshots) => c.in
    /\ c.soon \/ NoneOf(o, BeatsSaid) \/ LastIn(o, BeatsSaid, Standing(c.revision))
    /\ b # None => Owing(a, i, o, c) \/ b.revision = c.revision

(* What the tab shows, or will when all on its way has come, was told.     *)
ToldOK(b, a, i, c, told) ==
    b # None /\ a = None => \/ NoneOf(i, Reports) /\ c.shown = told
                            \/ LastIn(i, Reports, Telling(told))

PresentIn(h) == {p \in People : InRoomOf(h, p) # {}}
Exact(h, revision, list) ==
    \A p \in DOMAIN list : list[p].inSync <=> \E t \in InRoomOf(h, p) : h[t].revision >= revision

WorkedOK(h, told, list) == ~PresenceChanged(told, list) /\ DOMAIN list = PresentIn(h)

PresenceInv ==
    /\ PresenceTypes
    /\ \A t \in Tabs : TabOK(heard[t], answering[t], incoming[t], outgoing[t], tabs[t])
    /\ \A t \in Tabs \ known.fresher : ToldOK(heard[t], answering[t], incoming[t], tabs[t], presenceTold)
    /\ WorkedOK(heard, presenceTold, known.worked)
    /\ \/ known.closed
       \/ \E t \in Tabs : Owing(answering[t], incoming[t], outgoing[t], tabs[t])
       \/ Exact(heard, revisions, known.worked)

-----------------------------------------------------------------------------
(* What is still to come, as one more is sent and the first is taken.      *)

LEMMA SentAnother ==
  ASSUME NEW S, NEW s \in Seq(S), NEW m \in S, NEW K, NEW M, m \notin K
  PROVE  /\ NoneOf(Append(s, m), K) <=> NoneOf(s, K)
         /\ LastIn(s, K, M) => LastIn(Append(s, m), K, M)
<1>1. /\ Append(s, m) \in Seq(S) /\ DOMAIN Append(s, m) = 1 .. Len(s) + 1 /\ DOMAIN s = 1 .. Len(s) /\ Len(s) \in Nat
      /\ \A k \in 1 .. Len(s) : Append(s, m)[k] = s[k]
      /\ Append(s, m)[Len(s) + 1] = m
  BY AppendProperties, LenProperties
<1>2. NoneOf(Append(s, m), K) <=> NoneOf(s, K)
  BY <1>1 DEF NoneOf
<1>3. ASSUME LastIn(s, K, M)
      PROVE  LastIn(Append(s, m), K, M)
  BY <1>1, <1>3 DEF LastIn
<1> QED  BY <1>2, <1>3

LEMMA SentLast ==
  ASSUME NEW S, NEW s \in Seq(S), NEW m \in S, NEW K, NEW M, m \in K \cap M
  PROVE  LastIn(Append(s, m), K, M) /\ ~NoneOf(Append(s, m), K)
<1>1. /\ Append(s, m) \in Seq(S) /\ DOMAIN Append(s, m) = 1 .. Len(s) + 1 /\ Len(s) \in Nat
      /\ Append(s, m)[Len(s) + 1] = m
  BY AppendProperties, LenProperties
<1>2. Len(s) + 1 \in DOMAIN Append(s, m)
  BY <1>1
<1>3. \A j \in DOMAIN Append(s, m) : ~(j > Len(s) + 1)
  BY <1>1
<1> QED  BY <1>1, <1>2, <1>3 DEF NoneOf, LastIn

LEMMA TakenFirst ==
  ASSUME NEW S, NEW s \in Seq(S), s # <<>>, NEW K, NEW M
  PROVE  /\ Tail(s) \in Seq(S) /\ Head(s) \in S
         /\ NoneOf(s, K) <=> Head(s) \notin K /\ NoneOf(Tail(s), K)
         /\ LastIn(s, K, M) => \/ LastIn(Tail(s), K, M)
                               \/ NoneOf(Tail(s), K) /\ Head(s) \in K \cap M
<1>1. /\ Tail(s) \in Seq(S) /\ Head(s) \in S /\ Head(s) = s[1] /\ Len(s) \in Nat \ {0}
      /\ DOMAIN s = 1 .. Len(s) /\ DOMAIN Tail(s) = 1 .. Len(s) - 1
      /\ \A k \in 1 .. Len(s) - 1 : Tail(s)[k] = s[k + 1]
  BY HeadTailProperties, LenProperties, EmptySeq
<1>2. NoneOf(s, K) <=> Head(s) \notin K /\ NoneOf(Tail(s), K)
  <2>1. ASSUME NoneOf(s, K)
        PROVE  Head(s) \notin K /\ NoneOf(Tail(s), K)
    BY <1>1, <2>1 DEF NoneOf
  <2>2. ASSUME Head(s) \notin K, NoneOf(Tail(s), K), NEW k \in DOMAIN s
        PROVE  s[k] \notin K
    <3>1. CASE k = 1
      BY <1>1, <2>2, <3>1
    <3>2. CASE k # 1
      <4>1. k - 1 \in DOMAIN Tail(s) /\ Tail(s)[k - 1] = s[k]
        BY <1>1, <2>2, <3>2
      <4> QED  BY <2>2, <4>1 DEF NoneOf
    <3> QED  BY <3>1, <3>2
  <2> QED  BY <2>1, <2>2 DEF NoneOf
<1>3. ASSUME LastIn(s, K, M)
      PROVE  LastIn(Tail(s), K, M) \/ (NoneOf(Tail(s), K) /\ Head(s) \in K \cap M)
  <2>1. PICK k \in DOMAIN s : s[k] \in K \cap M /\ \A j \in DOMAIN s : j > k => s[j] \notin K
    BY <1>3 DEF LastIn
  <2>2. CASE k = 1
    <3>1. NoneOf(Tail(s), K)
      <4> SUFFICES ASSUME NEW j \in DOMAIN Tail(s)
                   PROVE  Tail(s)[j] \notin K
        BY DEF NoneOf
      <4>1. j + 1 \in DOMAIN s /\ j + 1 > k /\ Tail(s)[j] = s[j + 1]
        BY <1>1, <2>2
      <4> QED  BY <2>1, <4>1
    <3> QED  BY <1>1, <2>1, <2>2, <3>1
  <2>3. CASE k # 1
    <3>1. k - 1 \in DOMAIN Tail(s) /\ Tail(s)[k - 1] = s[k]
      BY <1>1, <2>3
    <3>2. ASSUME NEW j \in DOMAIN Tail(s), j > k - 1
          PROVE  Tail(s)[j] \notin K
      <4>1. j + 1 \in DOMAIN s /\ j + 1 > k /\ Tail(s)[j] = s[j + 1]
        BY <1>1, <3>2
      <4> QED  BY <2>1, <4>1
    <3> QED  BY <2>1, <3>1, <3>2 DEF LastIn
  <2> QED  BY <2>2, <2>3
<1> QED  BY <1>1, <1>2, <1>3

LEMMA NothingSent ==
  ASSUME NEW K
  PROVE  NoneOf(<<>>, K)
BY DEF NoneOf

LEMMA LastIsThere ==
  ASSUME NEW s, NEW K, NEW M, LastIn(s, K, M)
  PROVE  ~NoneOf(s, K)
BY DEF NoneOf, LastIn

-----------------------------------------------------------------------------
(* How everyone follows, worked out: well formed, and no news to itself.   *)

LEMMA LeastIsThere ==
  ASSUME NEW S, S \subseteq Nat, S # {}
  PROVE  Shortest(S) \in S
<1>1. \E x \in S : \A y \in S : ~(<<y, x>> \in OpToRel(<, Nat))
  BY NatLessThanWellFounded, WFMin, Zenon
<1>2. \E x \in S : \A y \in S : x <= y
  <2>1. PICK x \in S : \A y \in S : ~(<<y, x>> \in OpToRel(<, Nat))
    BY <1>1
  <2>2. ASSUME NEW y \in S
        PROVE  x <= y
    <3>1. x \in Nat /\ y \in Nat
      OBVIOUS
    <3>2. <<y, x>> \in Nat \X Nat /\ <<y, x>>[1] = y /\ <<y, x>>[2] = x
      BY <3>1
    <3>3. ~(y < x)
      BY <2>1, <3>2 DEF OpToRel
    <3> QED  BY <3>1, <3>3
  <2> QED  BY <2>2
<1> QED  BY <1>2 DEF Shortest

LEMMA ItsTabs ==
  ASSUME PresenceAssumption, NEW t \in Tabs
  PROVE  OwnerOf(t) \in People /\ \A p \in People : t \in TabsOf[p] <=> p = OwnerOf(t)
<1>1. \E p \in People : t \in TabsOf[p]
  BY DEF Tabs
<1>2. OwnerOf(t) \in People /\ t \in TabsOf[OwnerOf(t)]
  BY <1>1 DEF OwnerOf
<1>3. ASSUME NEW p \in People, t \in TabsOf[p], p # OwnerOf(t)
      PROVE  FALSE
  BY <1>2, <1>3 DEF PresenceAssumption
<1> QED  BY <1>2, <1>3

LEMMA InRoomTabs ==
  ASSUME NEW h, NEW p \in People
  PROVE  /\ InRoomOf(h, p) \subseteq Tabs
         /\ \A t \in InRoomOf(h, p) : t \in TabsOf[p] /\ h[t] # None
BY DEF InRoomOf, Tabs

LEMMA ReadingFits ==
  ASSUME PresenceAssumption, NoneIsNoReading, NEW h \in [Tabs -> Heartbeat \cup {None}],
         NEW p \in People, NEW revision \in Nat
  PROVE  ReadingOf(h, p, revision) \in Reading
<1> DEFINE beats == {h[t] : t \in InRoomOf(h, p)}
           silence == Shortest({b.age : b \in beats})
           measured == {b.latency : b \in beats} \ {None}
           heardIn == \E b \in beats : b.revision >= revision
           word == IF silence >= AwayAfter THEN "away" ELSE IF silence >= UnstableAfter THEN "unstable" ELSE "connected"
           latency == IF measured = {} THEN None ELSE Shortest(measured)
<1>1. beats \subseteq Heartbeat
  BY InRoomTabs
<1>2. measured \subseteq Nat
  BY <1>1 DEF Heartbeat, Measure
<1>3. latency \in Measure
  BY <1>2, LeastIsThere DEF Measure
<1>4. word \in {"connected", "unstable", "away"}
  OBVIOUS
<1>5. heardIn \in BOOLEAN
  OBVIOUS
<1>6. ReadingOf(h, p, revision) = [presence |-> word, latency |-> latency, inSync |-> heardIn]
  BY DEF ReadingOf
<1> HIDE DEF word, latency, heardIn
<1> QED  BY <1>3, <1>4, <1>5, <1>6 DEF Reading

LEMMA FollowingFits ==
  ASSUME PresenceAssumption, NoneIsNoReading, NEW h \in [Tabs -> Heartbeat \cup {None}], NEW revision \in Nat
  PROVE  /\ FollowingIn(h, revision) \in Lists
         /\ DOMAIN FollowingIn(h, revision) = PresentIn(h)
         /\ Exact(h, revision, FollowingIn(h, revision))
<1> DEFINE list == FollowingIn(h, revision)
<1>1. list = [p \in PresentIn(h) |-> ReadingOf(h, p, revision)]
  BY DEF FollowingIn, PresentIn
<1>2. PresentIn(h) \subseteq People
  BY DEF PresentIn
<1>3. list \in [PresentIn(h) -> Reading]
  BY <1>1, <1>2, ReadingFits
<1>4. list \in Lists
  BY <1>2, <1>3 DEF Lists
<1>5. ASSUME NEW p \in PresentIn(h)
      PROVE  list[p].inSync <=> \E t \in InRoomOf(h, p) : h[t].revision >= revision
  <2>1. list[p].inSync = ReadingOf(h, p, revision).inSync
    BY <1>1
  <2>2. ReadingOf(h, p, revision).inSync <=> \E b \in {h[t] : t \in InRoomOf(h, p)} : b.revision >= revision
    BY DEF ReadingOf
  <2> QED  BY <2>1, <2>2
<1>6. DOMAIN list = PresentIn(h)
  BY <1>1
<1> QED  BY <1>4, <1>5, <1>6 DEF Exact

LEMMA NoNewsToItself ==
  ASSUME PresenceAssumption, NoneIsNoReading, NEW list \in Lists
  PROVE  ~PresenceChanged(list, list)
<1>1. PICK S \in SUBSET People : list \in [S -> Reading]
  BY DEF Lists
<1>2. list # None
  BY <1>1 DEF NoneIsNoReading
<1>3. ASSUME NEW p \in DOMAIN list
      PROVE  ~Differs(list[p], list[p])
  <2>1. list[p] \in Reading
    BY <1>1, <1>3
  <2>2. list[p].latency \in Measure
    BY <2>1 DEF Reading
  <2>3. PICK l : l = list[p].latency
    OBVIOUS
  <2>4. l # None => ~(LatencyStep <= Longer(l - l, l - l))
    BY <2>2, <2>3 DEF PresenceAssumption, Measure, Longer
  <2> QED  BY <2>3, <2>4 DEF Differs, Shifted
<1> QED  BY <1>2, <1>3 DEF PresenceChanged

-----------------------------------------------------------------------------
(* The server reports: what was worked out is told, or little has changed. *)

LEMMA NewsToTell ==
  ASSUME NEW list \in Lists
  PROVE  [type |-> "presence", shown |-> list] \in Reports \cap Telling(list)
         /\ [type |-> "presence", shown |-> list] \in ToTab \ Snapshots
BY DEF Reports, Telling, ToTab, Snapshots

(* After a report: what reached each tab that was to be sent `sends`, and  *)
(* whoever was to show what had been told is to show what has been now.    *)
ToldTypes ==
    /\ presenceTold' \in Lists /\ incoming' \in [Tabs -> Seq(ToTab)]
    /\ known' \in [worked : Lists, closed : BOOLEAN, fresher : SUBSET Tabs]
Reached(h, sends) ==
    \A t \in Tabs : /\ h[t] = None => incoming'[t] = sends[t]
                    /\ NoneOf(incoming'[t], Snapshots) <=> NoneOf(sends[t], Snapshots)
PassedOn(h, sends) ==
    \A t \in Tabs \ known'.fresher : \A a, c :
        (t \in Tabs \ known.fresher => ToldOK(h[t], a, sends[t], c, presenceTold))
           => ToldOK(h[t], a, incoming'[t], c, presenceTold')

LEMMA ReportTells ==
  ASSUME PresenceAssumption, NoneIsNoReading, PresenceTypes,
         NEW h \in [Tabs -> Heartbeat \cup {None}], NEW sends \in [Tabs -> Seq(ToTab)], NEW now \in Lists,
         ReportPresence(h, sends, now)
  PROVE  /\ ToldTypes /\ known'.worked = now /\ ~PresenceChanged(presenceTold', now)
         /\ Reached(h, sends) /\ PassedOn(h, sends)
<1> DEFINE changed == PresenceChanged(presenceTold, now)
           m == [type |-> "presence", shown |-> now]
<1>1. changed \in BOOLEAN
  BY DEF PresenceChanged
<1>2. /\ presenceTold' = IF changed THEN now ELSE presenceTold
      /\ incoming' = [t \in Tabs |-> sends[t] \o Says(h, changed, now, t)]
      /\ known' = [known EXCEPT !.worked = now, !.closed = FALSE, !.fresher = IF changed THEN {} ELSE @]
  BY DEF ReportPresence, WorkedOut
<1>3. m \in Reports \cap Telling(now) /\ m \in ToTab \ Snapshots
  BY NewsToTell
<1> HIDE DEF changed, m
<1>4. ASSUME NEW t \in Tabs
      PROVE  incoming'[t] = IF changed /\ h[t] # None THEN Append(sends[t], m) ELSE sends[t]
  <2>1. sends[t] \in Seq(ToTab) /\ incoming'[t] = sends[t] \o Says(h, changed, now, t)
    BY <1>2
  <2>2. CASE changed /\ h[t] # None
    <3>1. Says(h, changed, now, t) = <<m>>
      BY <2>2 DEF Says, m
    <3>2. Append(sends[t], m) = sends[t] \o <<m>>
      BY <1>3, <2>1, AppendIsConcat
    <3> QED  BY <2>1, <2>2, <3>1, <3>2
  <2>3. CASE ~(changed /\ h[t] # None)
    <3>1. Says(h, changed, now, t) = <<>>
      BY <2>3 DEF Says
    <3> QED  BY <2>1, <2>3, <3>1, ConcatEmptySeq
  <2> QED  BY <2>2, <2>3
<1>5. presenceTold' \in Lists /\ known' \in [worked : Lists, closed : BOOLEAN, fresher : SUBSET Tabs]
  BY <1>2 DEF PresenceTypes
<1>6. incoming' \in [Tabs -> Seq(ToTab)]
  <2>1. ASSUME NEW t \in Tabs
        PROVE  incoming'[t] \in Seq(ToTab)
    <3>1. sends[t] \in Seq(ToTab) /\ Append(sends[t], m) \in Seq(ToTab)
      BY <1>3, AppendProperties
    <3> QED  BY <1>4, <3>1
  <2>2. incoming' = [t \in Tabs |-> incoming'[t]]
    BY <1>2
  <2> QED  BY <2>1, <2>2
<1>7. known'.worked = now /\ known'.fresher = IF changed THEN {} ELSE known.fresher
  BY <1>2 DEF PresenceTypes
<1>8. ~PresenceChanged(presenceTold', now)
  <2>1. CASE changed
    BY <1>2, <2>1, NoNewsToItself
  <2>2. CASE ~changed
    BY <1>2, <2>2 DEF changed
  <2> QED  BY <2>1, <2>2
<1>9. ASSUME NEW t \in Tabs
      PROVE  /\ h[t] = None => incoming'[t] = sends[t]
             /\ NoneOf(incoming'[t], Snapshots) <=> NoneOf(sends[t], Snapshots)
  <2>1. NoneOf(Append(sends[t], m), Snapshots) <=> NoneOf(sends[t], Snapshots)
    BY <1>3, SentAnother
  <2> QED  BY <1>4, <2>1
<1>10. ASSUME NEW t \in Tabs \ known'.fresher, NEW a, NEW c,
              t \in Tabs \ known.fresher => ToldOK(h[t], a, sends[t], c, presenceTold)
       PROVE  ToldOK(h[t], a, incoming'[t], c, presenceTold')
  <2>1. CASE changed
    <3>1. LastIn(Append(sends[t], m), Reports, Telling(now))
      BY <1>3, SentLast
    <3> QED  BY <1>2, <1>4, <2>1, <3>1 DEF ToldOK
  <2>2. CASE ~changed
    BY <1>2, <1>4, <1>7, <1>10, <2>2
  <2> QED  BY <2>1, <2>2
<1>11. Reached(h, sends)
  BY <1>9 DEF Reached
<1>12. PassedOn(h, sends)
  BY <1>10 DEF PassedOn
<1> QED  BY <1>5, <1>6, <1>7, <1>8, <1>11, <1>12 DEF ToldTypes

-----------------------------------------------------------------------------
(* A tab beats: at once or soon, and it says where the tab then stands.    *)

LEMMA BeatSays ==
  ASSUME PresenceTypes, NEW t \in Tabs, NEW c \in Tab, Beats(t, c)
  PROVE  \E d \in Tab :
            /\ tabs' = [tabs EXCEPT ![t] = d]
            /\ d.open = c.open /\ d.in = c.in /\ d.revision = c.revision /\ d.shown = c.shown
            /\ outgoing' \in [Tabs -> Seq(FromTab)] /\ \A u \in Tabs \ {t} : outgoing'[u] = outgoing[u]
            /\ d.soon \/ LastIn(outgoing'[t], BeatsSaid, Standing(d.revision))
<1>1. CASE c.recent
  <2> DEFINE d == [c EXCEPT !.soon = TRUE]
  <2>1. d \in Tab /\ d.open = c.open /\ d.in = c.in /\ d.revision = c.revision /\ d.shown = c.shown /\ d.soon
    BY DEF Tab
  <2>2. tabs' = [tabs EXCEPT ![t] = d] /\ outgoing' = outgoing
    BY <1>1 DEF Beats
  <2> HIDE DEF d
  <2> QED  BY <2>1, <2>2 DEF PresenceTypes
<1>2. CASE ~c.recent
  <2> DEFINE d == [c EXCEPT !.recent = TRUE, !.soon = FALSE]
             m == BeatOf(c)
  <2>1. d \in Tab /\ d.open = c.open /\ d.in = c.in /\ d.revision = c.revision /\ d.shown = c.shown
    BY DEF Tab
  <2>2. tabs' = [tabs EXCEPT ![t] = d] /\ outgoing' = [outgoing EXCEPT ![t] = Append(@, m)]
    BY <1>2 DEF Beats
  <2>3. m \in FromTab /\ m \in BeatsSaid \cap Standing(d.revision)
    BY <2>1 DEF BeatOf, FromTab, BeatsSaid, Standing, Tab
  <2> HIDE DEF d, m
  <2>4. outgoing[t] \in Seq(FromTab) /\ outgoing \in [Tabs -> Seq(FromTab)]
    BY DEF PresenceTypes
  <2>5. Append(outgoing[t], m) \in Seq(FromTab)
    BY <2>3, <2>4, AppendProperties
  <2>6. LastIn(Append(outgoing[t], m), BeatsSaid, Standing(d.revision))
    BY <2>3, <2>4, SentLast
  <2>7. outgoing' \in [Tabs -> Seq(FromTab)] /\ outgoing'[t] = Append(outgoing[t], m)
        /\ \A u \in Tabs \ {t} : outgoing'[u] = outgoing[u]
    BY <2>2, <2>4, <2>5
  <2> QED  BY <2>1, <2>2, <2>6, <2>7
<1> QED  BY <1>1, <1>2

-----------------------------------------------------------------------------
(* A step that is one tab's, and a step that tells everyone.               *)

LEMMA OneTab ==
  ASSUME PresenceInv, PresenceTypes', NEW t \in Tabs,
         revisions' = revisions, presenceTold' = presenceTold,
         known'.worked = known.worked, known.closed => known'.closed, known.fresher \subseteq known'.fresher,
         \A u \in Tabs \ {t} : /\ heard'[u] = heard[u] /\ answering'[u] = answering[u] /\ tabs'[u] = tabs[u]
                               /\ incoming'[u] = incoming[u] /\ outgoing'[u] = outgoing[u],
         TabOK(heard'[t], answering'[t], incoming'[t], outgoing'[t], tabs'[t]),
         t \notin known'.fresher => ToldOK(heard'[t], answering'[t], incoming'[t], tabs'[t], presenceTold),
         PresentIn(heard') = PresentIn(heard),
         \/ known'.closed \/ Owing(answering'[t], incoming'[t], outgoing'[t], tabs'[t])
         \/ heard' = heard /\ ~Owing(answering[t], incoming[t], outgoing[t], tabs[t])
  PROVE  PresenceInv'
<1>1. ASSUME NEW u \in Tabs
      PROVE  TabOK(heard'[u], answering'[u], incoming'[u], outgoing'[u], tabs'[u])
  <2>1. CASE u = t
    BY <2>1
  <2>2. CASE u # t
    <3>1. TabOK(heard[u], answering[u], incoming[u], outgoing[u], tabs[u])
      BY DEF PresenceInv
    <3> QED  BY <2>2, <3>1
  <2> QED  BY <2>1, <2>2
<1>2. ASSUME NEW u \in Tabs \ known'.fresher
      PROVE  ToldOK(heard'[u], answering'[u], incoming'[u], tabs'[u], presenceTold')
  <2>1. CASE u = t
    BY <1>2, <2>1
  <2>2. CASE u # t
    <3>1. ToldOK(heard[u], answering[u], incoming[u], tabs[u], presenceTold)
      BY <1>2 DEF PresenceInv
    <3> QED  BY <2>2, <3>1
  <2> QED  BY <2>1, <2>2
<1>3. WorkedOK(heard', presenceTold', known'.worked)
  BY DEF PresenceInv, WorkedOK
<1>4. \/ known'.closed
      \/ \E u \in Tabs : Owing(answering'[u], incoming'[u], outgoing'[u], tabs'[u])
      \/ Exact(heard', revisions', known'.worked)
  <2>1. CASE known'.closed \/ Owing(answering'[t], incoming'[t], outgoing'[t], tabs'[t])
    BY <2>1
  <2>2. CASE ~known'.closed /\ heard' = heard /\ ~Owing(answering[t], incoming[t], outgoing[t], tabs[t])
    <3>1. CASE Exact(heard, revisions, known.worked)
      BY <2>2, <3>1
    <3>2. CASE \E u \in Tabs : Owing(answering[u], incoming[u], outgoing[u], tabs[u])
      <4>1. PICK u \in Tabs : Owing(answering[u], incoming[u], outgoing[u], tabs[u])
        BY <3>2
      <4>2. u # t
        BY <2>2, <4>1
      <4>3. Owing(answering'[u], incoming'[u], outgoing'[u], tabs'[u])
        BY <4>1, <4>2
      <4> QED  BY <4>3
    <3>3. ~known.closed
      BY <2>2
    <3> QED  BY <3>1, <3>2, <3>3 DEF PresenceInv
  <2> QED  BY <2>1, <2>2
<1> QED  BY <1>1, <1>2, <1>3, <1>4 DEF PresenceInv

(* Everyone in the Room was told how all follow it, after `sends`.         *)
AllTold(h, sends, revision) ==
    /\ ToldTypes /\ Reached(h, sends) /\ PassedOn(h, sends)
    /\ WorkedOK(h, presenceTold', known'.worked) /\ Exact(h, revision, known'.worked)

LEMMA TabToldToo ==
  ASSUME NEW b, NEW a, NEW i, NEW o, NEW c, NEW i2, TabOK(b, a, i, o, c),
         b = None => i2 = i, NoneOf(i2, Snapshots) <=> NoneOf(i, Snapshots)
  PROVE  TabOK(b, a, i2, o, c)
BY DEF TabOK, Owing

LEMMA TellingKeeps ==
  ASSUME PresenceTypes', NEW sends, AllTold(heard', sends, revisions'),
         \A u \in Tabs : TabOK(heard'[u], answering'[u], sends[u], outgoing'[u], tabs'[u]),
         \A u \in Tabs \ known.fresher : ToldOK(heard'[u], answering'[u], sends[u], tabs'[u], presenceTold)
  PROVE  PresenceInv'
<1>1. ASSUME NEW u \in Tabs
      PROVE  TabOK(heard'[u], answering'[u], incoming'[u], outgoing'[u], tabs'[u])
  <2>1. /\ heard'[u] = None => incoming'[u] = sends[u]
        /\ NoneOf(incoming'[u], Snapshots) <=> NoneOf(sends[u], Snapshots)
    BY DEF AllTold, Reached
  <2> QED  BY <2>1, TabToldToo
<1>2. ASSUME NEW u \in Tabs \ known'.fresher
      PROVE  ToldOK(heard'[u], answering'[u], incoming'[u], tabs'[u], presenceTold')
  BY <1>2 DEF AllTold, PassedOn
<1> QED  BY <1>1, <1>2 DEF AllTold, PresenceInv

LEMMA AllAreTold ==
  ASSUME PresenceAssumption, NoneIsNoReading, PresenceTypes,
         NEW h \in [Tabs -> Heartbeat \cup {None}], NEW sends \in [Tabs -> Seq(ToTab)], NEW revision \in Nat,
         ReportPresence(h, sends, FollowingIn(h, revision))
  PROVE  AllTold(h, sends, revision)
<1> DEFINE now == FollowingIn(h, revision)
<1>1. now \in Lists /\ DOMAIN now = PresentIn(h) /\ Exact(h, revision, now)
  BY FollowingFits
<1> HIDE DEF now
<1>2. ReportPresence(h, sends, now)
  BY DEF now
<1>3. /\ ToldTypes /\ known'.worked = now /\ ~PresenceChanged(presenceTold', now)
      /\ Reached(h, sends) /\ PassedOn(h, sends)
  BY <1>1, <1>2, ReportTells
<1>4. WorkedOK(h, presenceTold', known'.worked) /\ Exact(h, revision, known'.worked)
  BY <1>1, <1>3 DEF WorkedOK
<1> QED  BY <1>3, <1>4 DEF AllTold

LEMMA BroadcastTells ==
  ASSUME PresenceAssumption, NoneIsNoReading, PresenceTypes,
         NEW h \in [Tabs -> Heartbeat \cup {None}], NEW in \in [Tabs -> Seq(ToTab)], NEW except,
         BroadcastTo(h, in, except)
  PROVE  revisions' \in Nat /\ AllTold(h, in, revisions')
<1> DEFINE m == [type |-> "change", revision |-> revisions + 1]
           sends == [t \in Tabs |-> IF h[t] # None /\ OwnerOf(t) # except THEN Append(in[t], m) ELSE in[t]]
<1>1. revisions' = revisions + 1 /\ revisions' \in Nat
  BY DEF BroadcastTo, PresenceTypes
<1>2. m \in ToTab /\ m \notin Snapshots /\ m \notin Reports
  BY <1>1 DEF ToTab, Snapshots, Reports
<1>3. ReportPresence(h, sends, FollowingIn(h, revisions'))
  BY <1>1 DEF BroadcastTo
<1> HIDE DEF m
<1>9. /\ sends = [t \in Tabs |-> sends[t]]
      /\ \A t \in Tabs : sends[t] = IF h[t] # None /\ OwnerOf(t) # except THEN Append(in[t], m) ELSE in[t]
  OBVIOUS
<1> HIDE DEF sends
<1>4. ASSUME NEW t \in Tabs
      PROVE  /\ sends[t] \in Seq(ToTab) /\ (h[t] = None => sends[t] = in[t])
             /\ NoneOf(sends[t], Snapshots) <=> NoneOf(in[t], Snapshots)
             /\ NoneOf(sends[t], Reports) <=> NoneOf(in[t], Reports)
             /\ LastIn(in[t], Reports, Telling(presenceTold)) => LastIn(sends[t], Reports, Telling(presenceTold))
  <2>1. CASE h[t] # None /\ OwnerOf(t) # except
    <3>1. sends[t] = Append(in[t], m)
      BY <1>9, <2>1
    <3>2. /\ Append(in[t], m) \in Seq(ToTab)
          /\ NoneOf(Append(in[t], m), Snapshots) <=> NoneOf(in[t], Snapshots)
          /\ NoneOf(Append(in[t], m), Reports) <=> NoneOf(in[t], Reports)
          /\ LastIn(in[t], Reports, Telling(presenceTold)) => LastIn(Append(in[t], m), Reports, Telling(presenceTold))
      BY <1>2, SentAnother, AppendProperties
    <3> QED  BY <2>1, <3>1, <3>2
  <2>2. CASE ~(h[t] # None /\ OwnerOf(t) # except)
    <3>1. sends[t] = in[t]
      BY <1>9, <2>2
    <3> QED  BY <3>1
  <2> QED  BY <2>1, <2>2
<1>5. sends \in [Tabs -> Seq(ToTab)]
  BY <1>4, <1>9
<1>6. AllTold(h, sends, revisions')
  BY <1>1, <1>3, <1>5, AllAreTold
<1>7. ASSUME NEW t \in Tabs, NEW a, NEW c, ToldOK(h[t], a, in[t], c, presenceTold)
      PROVE  ToldOK(h[t], a, sends[t], c, presenceTold)
  BY <1>4, <1>7 DEF ToldOK
<1>8. AllTold(h, in, revisions')
  <2>1. Reached(h, in)
    BY <1>4, <1>6 DEF AllTold, Reached
  <2>2. PassedOn(h, in)
    <3> SUFFICES ASSUME NEW t \in Tabs \ known'.fresher, NEW a, NEW c,
                        t \in Tabs \ known.fresher => ToldOK(h[t], a, in[t], c, presenceTold)
                 PROVE  ToldOK(h[t], a, incoming'[t], c, presenceTold')
      BY DEF PassedOn
    <3>1. t \in Tabs \ known.fresher => ToldOK(h[t], a, sends[t], c, presenceTold)
      BY <1>7
    <3> QED  BY <1>6, <3>1 DEF AllTold, PassedOn
  <2> QED  BY <1>6, <2>1, <2>2 DEF AllTold
<1> QED  BY <1>1, <1>8

-----------------------------------------------------------------------------
(* Each step.                                                              *)

LEMMA FirstTold ==
  ASSUME PresenceAssumption, NoneIsNoReading, PresenceInit
  PROVE  PresenceInv
<1> DEFINE first == [t \in Tabs |-> IF t \in FirstTabs THEN Shortest(RoundTrips[t]) ELSE None]
           h == [t \in Tabs |-> IF t \in FirstTabs THEN [age |-> 0, latency |-> first[t], revision |-> 0] ELSE None]
           list == FollowingIn(h, 0)
           tab(t) == [open |-> t \in FirstTabs, in |-> t \in FirstTabs, revision |-> 0, seen |-> 0, awaiting |-> FALSE,
                      shown |-> list, latency |-> first[t],
                      recent |-> FALSE, soon |-> FALSE, beating |-> t \in FirstTabs]
<1>1. ASSUME NEW t \in Tabs
      PROVE  first[t] \in Measure
  <2>1. CASE t \in FirstTabs
    <3>1. RoundTrips[t] \subseteq Nat /\ RoundTrips[t] # {}
      BY DEF PresenceAssumption
    <3> QED  BY <2>1, <3>1, LeastIsThere DEF Measure
  <2> QED  BY <2>1 DEF Measure
<1> HIDE DEF first
<1>2. ASSUME NEW t \in Tabs
      PROVE  /\ h[t] \in Heartbeat \cup {None} /\ (h[t] # None <=> t \in FirstTabs)
             /\ h[t] # None => h[t].revision = 0
  <2>1. [age |-> 0, latency |-> first[t], revision |-> 0] \in Heartbeat
    BY <1>1 DEF Heartbeat
  <2>2. [age |-> 0, latency |-> first[t], revision |-> 0] # None
    BY <2>1 DEF NoneIsNoReading
  <2> QED  BY <2>1, <2>2
<1>3. h \in [Tabs -> Heartbeat \cup {None}]
  BY <1>2
<1>4. /\ heard = h /\ revisions = 0 /\ presenceTold = list /\ answering = [t \in Tabs |-> None]
      /\ incoming = [t \in Tabs |-> <<>>] /\ outgoing = [t \in Tabs |-> <<>>]
      /\ tabs = [t \in Tabs |-> tab(t)]
      /\ known = [worked |-> list, closed |-> FALSE, fresher |-> {}]
  BY DEF PresenceInit, first
<1> HIDE DEF h
<1>5. list \in Lists /\ DOMAIN list = PresentIn(h) /\ Exact(h, 0, list)
  BY <1>3, FollowingFits
<1> HIDE DEF list
<1>6. ASSUME NEW t \in Tabs
      PROVE  tab(t) \in Tab
  BY <1>1, <1>5 DEF Tab
<1>7. PresenceTypes
  <2>1. <<>> \in Seq(ToTab) /\ <<>> \in Seq(FromTab)
    OBVIOUS
  <2>2. tabs \in [Tabs -> Tab]
    BY <1>4, <1>6
  <2>3. answering \in [Tabs -> Nat \cup {None}] /\ incoming \in [Tabs -> Seq(ToTab)] /\ outgoing \in [Tabs -> Seq(FromTab)]
    BY <1>4, <2>1
  <2>4. known \in [worked : Lists, closed : BOOLEAN, fresher : SUBSET Tabs]
    BY <1>4, <1>5
  <2> QED  BY <1>3, <1>4, <1>5, <2>2, <2>3, <2>4 DEF PresenceTypes
<1>8. ASSUME NEW t \in Tabs
      PROVE  /\ TabOK(heard[t], answering[t], incoming[t], outgoing[t], tabs[t])
             /\ ToldOK(heard[t], answering[t], incoming[t], tabs[t], presenceTold)
  <2>1. heard[t] = h[t] /\ answering[t] = None /\ incoming[t] = <<>> /\ outgoing[t] = <<>> /\ tabs[t] = tab(t)
    BY <1>4
  <2>2. NoneOf(<<>>, BeatsSaid) /\ NoneOf(<<>>, Reports)
    BY NothingSent
  <2> QED  BY <1>2, <1>4, <2>1, <2>2 DEF TabOK, ToldOK
<1>9. WorkedOK(heard, presenceTold, known.worked) /\ Exact(heard, revisions, known.worked)
  BY <1>4, <1>5, NoNewsToItself DEF WorkedOK
<1> QED  BY <1>7, <1>8, <1>9 DEF PresenceInv

LEMMA ChangeFits ==
  ASSUME NEW c \in Tab, NEW revision \in Nat
  PROVE  LET d == TakesChange(c, revision)
         IN d \in Tab /\ d.open = c.open /\ d.in = c.in /\ d.shown = c.shown /\ d.soon = c.soon
<1> DEFINE seen == [c EXCEPT !.seen = Longer(@, revision)]
<1>1. seen \in Tab /\ seen.open = c.open /\ seen.in = c.in /\ seen.shown = c.shown /\ seen.soon = c.soon
  BY DEF Tab, Longer
<1> HIDE DEF seen
<1>2. LET d == [seen EXCEPT !.awaiting = TRUE]
      IN d \in Tab /\ d.open = c.open /\ d.in = c.in /\ d.shown = c.shown /\ d.soon = c.soon
  BY <1>1 DEF Tab
<1>3. LET d == [seen EXCEPT !.revision = revision]
      IN d \in Tab /\ d.open = c.open /\ d.in = c.in /\ d.shown = c.shown /\ d.soon = c.soon
  BY <1>1 DEF Tab
<1>4. TakesChange(c, revision) = IF ~c.in THEN c
         ELSE IF c.awaiting \/ revision <= c.revision THEN seen
         ELSE IF revision > c.revision + 1 THEN [seen EXCEPT !.awaiting = TRUE]
         ELSE [seen EXCEPT !.revision = revision]
  BY DEF TakesChange, seen
<1> QED  BY <1>1, <1>2, <1>3, <1>4

LEMMA RoomFits ==
  ASSUME NEW c \in Tab, NEW m \in Snapshots
  PROVE  LET d == TakesRoom(c, m)
         IN d \in Tab /\ d.open = c.open /\ d.in /\ d.shown = m.shown
<1>1. m.revision \in Nat /\ m.shown \in Lists
  BY DEF Snapshots, ToTab
<1>2. PICK seen : seen = Longer(IF c.in THEN c.seen ELSE 0, m.revision)
  OBVIOUS
<1>3. seen \in Nat
  BY <1>1, <1>2 DEF Longer, Tab
<1>4. TakesRoom(c, m) = [c EXCEPT !.in = TRUE, !.revision = m.revision, !.seen = seen, !.awaiting = m.revision < seen,
                                  !.shown = m.shown, !.beating = TRUE]
  BY <1>2 DEF TakesRoom
<1>5. (m.revision < seen) \in BOOLEAN
  OBVIOUS
<1> QED  BY <1>1, <1>3, <1>4, <1>5 DEF Tab

LEMMA TakeKeeps ==
  ASSUME PresenceInv, NEW t \in Tabs, TakeMessage(t)
  PROVE  PresenceInv'
<1> DEFINE i == incoming[t]
           c == tabs[t]
           m == Head(i)
           a == answering[t]
           b == heard[t]
           o == outgoing[t]
<1>1. /\ i # <<>> /\ incoming' = [incoming EXCEPT ![t] = Tail(i)]
      /\ heard' = heard /\ revisions' = revisions /\ presenceTold' = presenceTold
      /\ answering' = answering /\ known' = known
  BY DEF TakeMessage
<1>2. /\ i \in Seq(ToTab) /\ c \in Tab /\ incoming \in [Tabs -> Seq(ToTab)] /\ tabs \in [Tabs -> Tab]
      /\ TabOK(b, a, i, o, c) /\ (t \notin known.fresher => ToldOK(b, a, i, c, presenceTold))
  BY DEF PresenceInv, PresenceTypes
<1>3. /\ Tail(i) \in Seq(ToTab) /\ m \in ToTab
      /\ NoneOf(i, Snapshots) <=> m \notin Snapshots /\ NoneOf(Tail(i), Snapshots)
      /\ NoneOf(i, Reports) <=> m \notin Reports /\ NoneOf(Tail(i), Reports)
      /\ LastIn(i, Reports, Telling(presenceTold)) =>
            \/ LastIn(Tail(i), Reports, Telling(presenceTold))
            \/ NoneOf(Tail(i), Reports) /\ m \in Reports \cap Telling(presenceTold)
  BY <1>1, <1>2, TakenFirst
<1>4. incoming' \in [Tabs -> Seq(ToTab)] /\ incoming'[t] = Tail(i) /\ \A u \in Tabs \ {t} : incoming'[u] = incoming[u]
  BY <1>1, <1>2, <1>3
<1>5. c.open /\ b # None
  BY <1>1, <1>2 DEF TabOK
<1>6. outgoing \in [Tabs -> Seq(FromTab)]
  BY DEF PresenceInv, PresenceTypes
<1> HIDE DEF m, c, i, a, b, o
<1>7. ASSUME NEW d \in Tab, tabs' = [tabs EXCEPT ![t] = d], outgoing' \in [Tabs -> Seq(FromTab)],
             \A u \in Tabs \ {t} : outgoing'[u] = outgoing[u],
             TabOK(b, a, Tail(i), outgoing'[t], d), t \notin known.fresher => ToldOK(b, a, Tail(i), d, presenceTold),
             Owing(a, Tail(i), outgoing'[t], d) \/ ~Owing(a, i, o, c)
      PROVE  PresenceInv'
  <2>1. tabs' \in [Tabs -> Tab] /\ tabs'[t] = d /\ \A u \in Tabs \ {t} : tabs'[u] = tabs[u]
    BY <1>2, <1>7
  <2>2. PresenceTypes'
    BY <1>1, <1>4, <1>7, <2>1 DEF PresenceInv, PresenceTypes
  <2>3. \A u \in Tabs \ {t} : /\ heard'[u] = heard[u] /\ answering'[u] = answering[u] /\ tabs'[u] = tabs[u]
                               /\ incoming'[u] = incoming[u] /\ outgoing'[u] = outgoing[u]
    BY <1>1, <1>4, <1>7, <2>1
  <2>4. /\ TabOK(heard'[t], answering'[t], incoming'[t], outgoing'[t], tabs'[t])
        /\ t \notin known'.fresher => ToldOK(heard'[t], answering'[t], incoming'[t], tabs'[t], presenceTold)
    BY <1>1, <1>4, <1>7, <2>1 DEF a, b
  <2>5. \/ Owing(answering'[t], incoming'[t], outgoing'[t], tabs'[t])
        \/ heard' = heard /\ ~Owing(answering[t], incoming[t], outgoing[t], tabs[t])
    BY <1>1, <1>4, <1>7, <2>1 DEF a, i, o, c
  <2> QED  BY <1>1, <2>2, <2>3, <2>4, <2>5, OneTab
<1>8. ASSUME NEW d0 \in Tab, Beats(t, d0), d0.open = c.open, d0.in \/ (m \notin Snapshots /\ d0.in = c.in),
             t \notin known.fresher => ToldOK(b, a, Tail(i), d0, presenceTold)
      PROVE  PresenceInv'
  <2>1. PICK d \in Tab :
            /\ tabs' = [tabs EXCEPT ![t] = d]
            /\ d.open = d0.open /\ d.in = d0.in /\ d.revision = d0.revision /\ d.shown = d0.shown
            /\ outgoing' \in [Tabs -> Seq(FromTab)] /\ \A u \in Tabs \ {t} : outgoing'[u] = outgoing[u]
            /\ d.soon \/ LastIn(outgoing'[t], BeatsSaid, Standing(d.revision))
    BY <1>8, BeatSays DEF PresenceInv
  <2>2. Owing(a, Tail(i), outgoing'[t], d)
    BY <2>1, LastIsThere DEF Owing
  <2>3. TabOK(b, a, Tail(i), outgoing'[t], d)
    BY <1>2, <1>3, <1>5, <1>8, <2>1, <2>2 DEF TabOK
  <2>4. t \notin known.fresher => ToldOK(b, a, Tail(i), d, presenceTold)
    BY <1>8, <2>1 DEF ToldOK
  <2> QED  BY <1>7, <2>1, <2>2, <2>3, <2>4
<1>9. CASE m.type = "change"
  <2> DEFINE d == TakesChange(c, m.revision)
  <2>1. m \notin Snapshots /\ m \notin Reports /\ m.revision \in Nat
    BY <1>3, <1>9 DEF Snapshots, Reports, ToTab
  <2>2. d \in Tab /\ d.open = c.open /\ d.in = c.in /\ d.shown = c.shown /\ d.soon = c.soon
    BY <1>2, <2>1, ChangeFits
  <2>3. IF d.revision # c.revision THEN Beats(t, d) ELSE tabs' = [tabs EXCEPT ![t] = d] /\ outgoing' = outgoing
    BY <1>9 DEF TakeMessage, m, i, c
  <2> HIDE DEF d
  <2>4. t \notin known.fresher => ToldOK(b, a, Tail(i), d, presenceTold)
    BY <1>2, <1>3, <2>1, <2>2 DEF ToldOK
  <2>5. CASE d.revision # c.revision
    BY <1>8, <2>1, <2>2, <2>3, <2>4, <2>5
  <2>6. CASE d.revision = c.revision
    <3>1. tabs' = [tabs EXCEPT ![t] = d] /\ outgoing' = outgoing /\ outgoing'[t] = o
      BY <2>3, <2>6 DEF o
    <3>2. TabOK(b, a, Tail(i), o, d) /\ (Owing(a, Tail(i), o, d) <=> Owing(a, i, o, c))
      BY <1>2, <1>3, <1>5, <2>1, <2>2, <2>6 DEF TabOK, Owing
    <3> QED  BY <1>6, <1>7, <2>2, <2>4, <3>1, <3>2
  <2> QED  BY <2>5, <2>6
<1>10. CASE m.type = "snapshot"
  <2> DEFINE d == TakesRoom(c, m)
  <2>1. m \in Snapshots /\ m \in Reports
    BY <1>3, <1>10 DEF Snapshots, Reports
  <2>2. d \in Tab /\ d.open = c.open /\ d.in /\ d.shown = m.shown
    BY <1>2, <2>1, RoomFits
  <2>3. Beats(t, d)
    BY <1>10 DEF TakeMessage, m, i, c
  <2> HIDE DEF d
  <2>4. t \notin known.fresher => ToldOK(b, a, Tail(i), d, presenceTold)
    BY <1>2, <1>3, <2>1, <2>2 DEF ToldOK, Telling
  <2> QED  BY <1>8, <2>2, <2>3, <2>4
<1>11. CASE m.type = "presence"
  <2>1. m \notin Snapshots /\ m \in Reports /\ m.shown \in Lists
    BY <1>3, <1>11 DEF Snapshots, Reports, ToTab
  <2>2. tabs' = (IF c.in THEN [tabs EXCEPT ![t].shown = m.shown] ELSE tabs) /\ outgoing' = outgoing /\ outgoing'[t] = o
    BY <1>11 DEF TakeMessage, m, i, c, o
  <2>3. CASE c.in
    <3> DEFINE d == [c EXCEPT !.shown = m.shown]
    <3>1. /\ d \in Tab /\ d.open = c.open /\ d.in = c.in /\ d.shown = m.shown /\ d.soon = c.soon
          /\ d.revision = c.revision
      BY <1>2, <2>1 DEF Tab
    <3>2. tabs' = [tabs EXCEPT ![t] = d]
      BY <2>2, <2>3 DEF c
    <3> HIDE DEF d
    <3>3. t \notin known.fresher => ToldOK(b, a, Tail(i), d, presenceTold)
      BY <1>2, <1>3, <2>1, <3>1 DEF ToldOK, Telling
    <3>4. TabOK(b, a, Tail(i), o, d) /\ (Owing(a, Tail(i), o, d) <=> Owing(a, i, o, c))
      BY <1>2, <1>3, <1>5, <2>1, <3>1 DEF TabOK, Owing
    <3> QED  BY <1>6, <1>7, <2>2, <3>1, <3>2, <3>3, <3>4
  <2>4. CASE ~c.in
    <3>1. tabs' = [tabs EXCEPT ![t] = c]
      BY <1>2, <2>2, <2>4 DEF c
    <3>2. TabOK(b, a, Tail(i), o, c) /\ (Owing(a, Tail(i), o, c) <=> Owing(a, i, o, c))
      BY <1>2, <1>3, <1>5, <2>1 DEF TabOK, Owing
    <3>3. ASSUME t \notin known.fresher, a = None
          PROVE  LastIn(Tail(i), Reports, Telling(presenceTold))
      <4>1. ~NoneOf(Tail(i), Snapshots)
        BY <1>2, <1>3, <1>5, <2>1, <2>4, <3>3 DEF TabOK
      <4>2. ~NoneOf(Tail(i), Reports)
        BY <4>1 DEF NoneOf, Snapshots, Reports
      <4> QED  BY <1>2, <1>3, <1>5, <2>1, <3>3, <4>2 DEF ToldOK
    <3>4. t \notin known.fresher => ToldOK(b, a, Tail(i), c, presenceTold)
      BY <3>3 DEF ToldOK
    <3> QED  BY <1>2, <1>6, <1>7, <2>2, <3>1, <3>2, <3>4
  <2> QED  BY <2>3, <2>4
<1>12. m.type = "change" \/ m.type = "snapshot" \/ m.type = "presence"
  BY <1>3 DEF ToTab
<1> QED  BY <1>9, <1>10, <1>11, <1>12

(* A beat by the clock, or after the shortest gap: only the tab's own.     *)
LEMMA BeatKeeps ==
  ASSUME PresenceInv, NEW t \in Tabs, NEW c \in Tab, Beats(t, c), tabs[t].open,
         c.open = tabs[t].open, c.in = tabs[t].in, c.shown = tabs[t].shown,
         UNCHANGED <<heard, revisions, presenceTold, answering, incoming, known>>
  PROVE  PresenceInv'
<1>1. PICK d \in Tab :
        /\ tabs' = [tabs EXCEPT ![t] = d]
        /\ d.open = c.open /\ d.in = c.in /\ d.revision = c.revision /\ d.shown = c.shown
        /\ outgoing' \in [Tabs -> Seq(FromTab)] /\ \A u \in Tabs \ {t} : outgoing'[u] = outgoing[u]
        /\ d.soon \/ LastIn(outgoing'[t], BeatsSaid, Standing(d.revision))
  BY BeatSays DEF PresenceInv
<1>2. /\ TabOK(heard[t], answering[t], incoming[t], outgoing[t], tabs[t])
      /\ t \notin known.fresher => ToldOK(heard[t], answering[t], incoming[t], tabs[t], presenceTold)
  BY DEF PresenceInv
<1>3. tabs' \in [Tabs -> Tab] /\ tabs'[t] = d /\ \A u \in Tabs \ {t} : tabs'[u] = tabs[u]
  BY <1>1 DEF PresenceInv, PresenceTypes
<1>4. Owing(answering[t], incoming[t], outgoing'[t], d)
  BY <1>1, LastIsThere DEF Owing
<1>5. TabOK(heard[t], answering[t], incoming[t], outgoing'[t], d)
  BY <1>1, <1>2, <1>4 DEF TabOK
<1>6. t \notin known.fresher => ToldOK(heard[t], answering[t], incoming[t], d, presenceTold)
  BY <1>1, <1>2 DEF ToldOK
<1>7. PresenceTypes'
  BY <1>1, <1>3 DEF PresenceInv, PresenceTypes
<1> QED  BY <1>1, <1>3, <1>4, <1>5, <1>6, <1>7, OneTab

LEMMA GapKeeps ==
  ASSUME PresenceInv, NEW t \in Tabs, GapPasses(t)
  PROVE  PresenceInv'
<1> DEFINE c == [tabs[t] EXCEPT !.recent = FALSE]
<1>1. tabs \in [Tabs -> Tab] /\ tabs[t] \in Tab
  BY DEF PresenceInv, PresenceTypes
<1>2. /\ c \in Tab /\ c.open = tabs[t].open /\ c.in = tabs[t].in /\ c.shown = tabs[t].shown
      /\ c.soon = tabs[t].soon /\ c.revision = tabs[t].revision
  BY <1>1 DEF Tab
<1>3. /\ IF tabs[t].soon THEN Beats(t, c) ELSE tabs' = [tabs EXCEPT ![t] = c] /\ outgoing' = outgoing
      /\ UNCHANGED <<heard, revisions, presenceTold, answering, incoming, known>>
  BY DEF GapPasses
<1> HIDE DEF c
<1>4. /\ TabOK(heard[t], answering[t], incoming[t], outgoing[t], tabs[t])
      /\ t \notin known.fresher => ToldOK(heard[t], answering[t], incoming[t], tabs[t], presenceTold)
  BY DEF PresenceInv
<1>5. CASE tabs[t].soon
  <2>1. tabs[t].open
    BY <1>4, <1>5 DEF TabOK
  <2> QED  BY <1>2, <1>3, <1>5, <2>1, BeatKeeps
<1>6. CASE ~tabs[t].soon
  <2>1. tabs' = [tabs EXCEPT ![t] = c] /\ outgoing' = outgoing
    BY <1>3, <1>6
  <2>2. tabs' \in [Tabs -> Tab] /\ tabs'[t] = c /\ \A u \in Tabs \ {t} : tabs'[u] = tabs[u]
    BY <1>1, <1>2, <2>1
  <2>3. PresenceTypes'
    BY <1>3, <2>1, <2>2 DEF PresenceInv, PresenceTypes
  <2>4. /\ TabOK(heard[t], answering[t], incoming[t], outgoing[t], c)
        /\ t \notin known.fresher => ToldOK(heard[t], answering[t], incoming[t], c, presenceTold)
        /\ Owing(answering[t], incoming[t], outgoing[t], c) <=> Owing(answering[t], incoming[t], outgoing[t], tabs[t])
    BY <1>2, <1>4 DEF TabOK, ToldOK, Owing
  <2> QED  BY <1>3, <2>1, <2>2, <2>3, <2>4, OneTab
<1> QED  BY <1>5, <1>6

LEMMA AskKeeps ==
  ASSUME PresenceInv, NEW t \in Tabs, AskAfresh(t)
  PROVE  PresenceInv'
<1> DEFINE m == [type |-> "resync"]
<1>1. /\ outgoing' = [outgoing EXCEPT ![t] = Append(@, m)] /\ tabs[t].open
      /\ UNCHANGED <<heard, revisions, presenceTold, answering, incoming, tabs, known>>
  BY DEF AskAfresh
<1>2. m \in FromTab /\ m \notin BeatsSaid
  BY DEF FromTab, BeatsSaid
<1> HIDE DEF m
<1>3. outgoing \in [Tabs -> Seq(FromTab)] /\ outgoing[t] \in Seq(FromTab)
  BY DEF PresenceInv, PresenceTypes
<1>4. Append(outgoing[t], m) \in Seq(FromTab)
  BY <1>2, <1>3, AppendProperties
<1>5. /\ NoneOf(Append(outgoing[t], m), BeatsSaid) <=> NoneOf(outgoing[t], BeatsSaid)
      /\ LastIn(outgoing[t], BeatsSaid, Standing(tabs[t].revision))
            => LastIn(Append(outgoing[t], m), BeatsSaid, Standing(tabs[t].revision))
  BY <1>2, <1>3, SentAnother
<1>6. outgoing' \in [Tabs -> Seq(FromTab)] /\ outgoing'[t] = Append(outgoing[t], m)
      /\ \A u \in Tabs \ {t} : outgoing'[u] = outgoing[u]
  BY <1>1, <1>3, <1>4
<1>7. /\ TabOK(heard[t], answering[t], incoming[t], outgoing[t], tabs[t])
      /\ t \notin known.fresher => ToldOK(heard[t], answering[t], incoming[t], tabs[t], presenceTold)
  BY DEF PresenceInv
<1>8. /\ TabOK(heard[t], answering[t], incoming[t], outgoing'[t], tabs[t])
      /\ Owing(answering[t], incoming[t], outgoing'[t], tabs[t]) <=> Owing(answering[t], incoming[t], outgoing[t], tabs[t])
  BY <1>1, <1>5, <1>6, <1>7 DEF TabOK, Owing
<1>9. PresenceTypes'
  BY <1>1, <1>6 DEF PresenceInv, PresenceTypes
<1> QED  BY <1>1, <1>6, <1>7, <1>8, <1>9, OneTab

-----------------------------------------------------------------------------
(* Who is in the Room, as a tab comes or goes.                             *)

LEMMA SameHeard ==
  ASSUME NEW h, NEW g, \A u \in Tabs : g[u] # None <=> h[u] # None
  PROVE  /\ PresentIn(g) = PresentIn(h)
         /\ \A p \in People : InRoomOf(g, p) = InRoomOf(h, p)
<1>1. ASSUME NEW p \in People
      PROVE  InRoomOf(g, p) = InRoomOf(h, p)
  <2>1. TabsOf[p] \subseteq Tabs
    BY DEF Tabs
  <2> QED  BY <2>1 DEF InRoomOf
<1> QED  BY <1>1 DEF PresentIn

LEMMA OtherOfTheirs ==
  ASSUME PresenceAssumption, NEW t \in Tabs, NEW h, NEW g, \A u \in Tabs \ {t} : g[u] = h[u],
         InRoomOf(h, OwnerOf(t)) # {}, InRoomOf(g, OwnerOf(t)) # {}
  PROVE  PresentIn(g) = PresentIn(h)
<1>1. ASSUME NEW p \in People, p # OwnerOf(t)
      PROVE  InRoomOf(g, p) = InRoomOf(h, p)
  <2>1. t \notin TabsOf[p] /\ TabsOf[p] \subseteq Tabs
    BY <1>1, ItsTabs DEF Tabs
  <2> QED  BY <2>1 DEF InRoomOf
<1>2. ASSUME NEW p \in People
      PROVE  InRoomOf(g, p) # {} <=> InRoomOf(h, p) # {}
  BY <1>1
<1> QED  BY <1>2 DEF PresentIn

LEMMA ArriveKeeps ==
  ASSUME PresenceAssumption, NoneIsNoReading, PresenceInv, NEW t \in Tabs, Arrive(t)
  PROVE  PresenceInv'
<1> DEFINE b == [age |-> 0, latency |-> None, revision |-> 0]
           h == [heard EXCEPT ![t] = b]
           c == [tabs[t] EXCEPT !.open = TRUE, !.awaiting = tabs[t].in]
<1>1. PresenceTypes /\ TabOK(heard[t], answering[t], incoming[t], outgoing[t], tabs[t])
  BY DEF PresenceInv
<1>2. b \in Heartbeat /\ b # None
  BY DEF Heartbeat, Measure, NoneIsNoReading
<1>3. tabs[t] \in Tab /\ tabs \in [Tabs -> Tab] /\ answering \in [Tabs -> Nat \cup {None}] /\ revisions \in Nat
      /\ heard \in [Tabs -> Heartbeat \cup {None}] /\ incoming \in [Tabs -> Seq(ToTab)]
  BY <1>1 DEF PresenceTypes
<1>4. c \in Tab /\ c.open /\ c.soon = tabs[t].soon
  BY <1>3 DEF Tab
<1>5. /\ ~tabs[t].open /\ tabs' = [tabs EXCEPT ![t] = c] /\ heard' = h /\ outgoing' = outgoing
      /\ IF InRoomOf(heard, OwnerOf(t)) = {}
         THEN BroadcastTo(h, incoming, OwnerOf(t)) /\ answering' = [answering EXCEPT ![t] = revisions + 1]
         ELSE /\ answering' = [answering EXCEPT ![t] = revisions]
              /\ UNCHANGED <<revisions, presenceTold, incoming, known>>
  BY DEF Arrive
<1>14. h = [heard EXCEPT ![t] = b]
  OBVIOUS
<1> HIDE DEF b, c, h
<1>6. h \in [Tabs -> Heartbeat \cup {None}] /\ h[t] = b /\ \A u \in Tabs \ {t} : h[u] = heard[u]
  BY <1>2, <1>3, <1>14
<1>7. incoming[t] = <<>> /\ outgoing[t] = <<>> /\ ~tabs[t].soon
  BY <1>1, <1>5 DEF TabOK
<1>8. PICK n \in Nat : n = (IF InRoomOf(heard, OwnerOf(t)) = {} THEN revisions + 1 ELSE revisions)
  <2>1. revisions + 1 \in Nat
    BY <1>3
  <2> QED  BY <1>3, <2>1
<1>9. answering' = [answering EXCEPT ![t] = n] /\ n # None
  BY <1>5, <1>8 DEF NoneIsNoReading
<1>10. /\ answering' \in [Tabs -> Nat \cup {None}] /\ answering'[t] = n /\ \A u \in Tabs \ {t} : answering'[u] = answering[u]
       /\ tabs' \in [Tabs -> Tab] /\ tabs'[t] = c /\ \A u \in Tabs \ {t} : tabs'[u] = tabs[u]
  BY <1>3, <1>4, <1>5, <1>9
<1>11. TabOK(b, n, <<>>, <<>>, c) /\ Owing(n, <<>>, <<>>, c) /\ ToldOK(b, n, <<>>, c, presenceTold)
  BY <1>2, <1>4, <1>9, NothingSent DEF TabOK, Owing, ToldOK
<1>12. CASE InRoomOf(heard, OwnerOf(t)) = {}
  <2>1. revisions' \in Nat /\ AllTold(h, incoming, revisions')
    BY <1>1, <1>3, <1>5, <1>6, <1>12, BroadcastTells
  <2>2. PresenceTypes'
    BY <1>1, <1>5, <1>6, <1>10, <2>1 DEF PresenceTypes, AllTold, ToldTypes
  <2>3. ASSUME NEW u \in Tabs
        PROVE  TabOK(heard'[u], answering'[u], incoming[u], outgoing'[u], tabs'[u])
    <3>1. CASE u = t
      BY <1>5, <1>6, <1>7, <1>10, <1>11, <3>1
    <3>2. CASE u # t
      BY <1>5, <1>6, <1>10, <3>2 DEF PresenceInv
    <3> QED  BY <3>1, <3>2
  <2>4. ASSUME NEW u \in Tabs \ known.fresher
        PROVE  ToldOK(heard'[u], answering'[u], incoming[u], tabs'[u], presenceTold)
    <3>1. CASE u = t
      BY <1>5, <1>6, <1>7, <1>10, <1>11, <3>1
    <3>2. CASE u # t
      BY <1>5, <1>6, <1>10, <2>4, <3>2 DEF PresenceInv
    <3> QED  BY <3>1, <3>2
  <2>5. AllTold(heard', incoming, revisions')
    BY <1>5, <2>1
  <2> QED  BY <2>2, <2>3, <2>4, <2>5, TellingKeeps
<1>13. CASE InRoomOf(heard, OwnerOf(t)) # {}
  <2>1. UNCHANGED <<revisions, presenceTold, incoming, known>>
    BY <1>5, <1>13
  <2>2. PresenceTypes'
    BY <1>1, <1>5, <1>6, <1>10, <2>1 DEF PresenceTypes
  <2>3. InRoomOf(h, OwnerOf(t)) # {}
    <3>1. t \in TabsOf[OwnerOf(t)]
      BY ItsTabs
    <3> QED  BY <1>2, <1>6, <3>1 DEF InRoomOf
  <2>4. PresentIn(heard') = PresentIn(heard)
    BY <1>5, <1>6, <1>13, <2>3, OtherOfTheirs
  <2> QED  BY <1>5, <1>6, <1>7, <1>10, <1>11, <2>1, <2>2, <2>4, OneTab
<1> QED  BY <1>12, <1>13

LEMMA DepartKeeps ==
  ASSUME PresenceAssumption, NoneIsNoReading, PresenceInv, NEW t \in Tabs, Depart(t)
  PROVE  PresenceInv'
<1> DEFINE h == [heard EXCEPT ![t] = None]
           i == [incoming EXCEPT ![t] = <<>>]
           c == [tabs[t] EXCEPT !.open = FALSE, !.beating = FALSE, !.soon = FALSE, !.awaiting = tabs[t].in]
<1>1. PresenceTypes
  BY DEF PresenceInv
<1>2. tabs[t] \in Tab /\ tabs \in [Tabs -> Tab] /\ answering \in [Tabs -> Nat \cup {None}]
      /\ heard \in [Tabs -> Heartbeat \cup {None}] /\ incoming \in [Tabs -> Seq(ToTab)] /\ outgoing \in [Tabs -> Seq(FromTab)]
      /\ known \in [worked : Lists, closed : BOOLEAN, fresher : SUBSET Tabs]
  BY <1>1 DEF PresenceTypes
<1>3. c \in Tab /\ ~c.open /\ ~c.soon
  BY <1>2 DEF Tab
<1>4. /\ tabs[t].open /\ tabs' = [tabs EXCEPT ![t] = c] /\ heard' = h
      /\ outgoing' = [outgoing EXCEPT ![t] = <<>>] /\ answering' = [answering EXCEPT ![t] = None]
      /\ IF InRoomOf(h, OwnerOf(t)) = {} THEN BroadcastTo(h, i, OwnerOf(t))
         ELSE /\ incoming' = i /\ known' = [known EXCEPT !.closed = TRUE]
              /\ UNCHANGED <<revisions, presenceTold>>
  BY DEF Depart
<1>12. h = [heard EXCEPT ![t] = None]
  OBVIOUS
<1> HIDE DEF c, h
<1>5. h \in [Tabs -> Heartbeat \cup {None}] /\ h[t] = None /\ \A u \in Tabs \ {t} : h[u] = heard[u]
  BY <1>2, <1>12
<1>6. <<>> \in Seq(ToTab) /\ <<>> \in Seq(FromTab)
  OBVIOUS
<1>7. i \in [Tabs -> Seq(ToTab)] /\ i[t] = <<>> /\ \A u \in Tabs \ {t} : i[u] = incoming[u]
  BY <1>2, <1>6
<1> HIDE DEF i
<1>8. /\ answering' \in [Tabs -> Nat \cup {None}] /\ answering'[t] = None /\ \A u \in Tabs \ {t} : answering'[u] = answering[u]
      /\ tabs' \in [Tabs -> Tab] /\ tabs'[t] = c /\ \A u \in Tabs \ {t} : tabs'[u] = tabs[u]
      /\ outgoing' \in [Tabs -> Seq(FromTab)] /\ outgoing'[t] = <<>> /\ \A u \in Tabs \ {t} : outgoing'[u] = outgoing[u]
  BY <1>2, <1>3, <1>4, <1>6
<1>9. TabOK(None, None, <<>>, <<>>, c) /\ ToldOK(None, None, <<>>, c, presenceTold)
  BY <1>3, NothingSent DEF TabOK, ToldOK
<1>10. CASE InRoomOf(h, OwnerOf(t)) = {}
  <2>1. revisions' \in Nat /\ AllTold(h, i, revisions')
    BY <1>1, <1>4, <1>5, <1>7, <1>10, BroadcastTells
  <2>2. PresenceTypes'
    BY <1>1, <1>4, <1>5, <1>8, <2>1 DEF PresenceTypes, AllTold, ToldTypes
  <2>3. ASSUME NEW u \in Tabs
        PROVE  TabOK(heard'[u], answering'[u], i[u], outgoing'[u], tabs'[u])
    <3>1. CASE u = t
      BY <1>4, <1>5, <1>7, <1>8, <1>9, <3>1
    <3>2. CASE u # t
      BY <1>4, <1>5, <1>7, <1>8, <3>2 DEF PresenceInv
    <3> QED  BY <3>1, <3>2
  <2>4. ASSUME NEW u \in Tabs \ known.fresher
        PROVE  ToldOK(heard'[u], answering'[u], i[u], tabs'[u], presenceTold)
    <3>1. CASE u = t
      BY <1>4, <1>5, <1>7, <1>8, <1>9, <3>1
    <3>2. CASE u # t
      BY <1>4, <1>5, <1>7, <1>8, <2>4, <3>2 DEF PresenceInv
    <3> QED  BY <3>1, <3>2
  <2>5. AllTold(heard', i, revisions')
    BY <1>4, <2>1
  <2> QED  BY <2>2, <2>3, <2>4, <2>5, TellingKeeps
<1>11. CASE InRoomOf(h, OwnerOf(t)) # {}
  <2>1. incoming' = i /\ known' = [known EXCEPT !.closed = TRUE] /\ revisions' = revisions /\ presenceTold' = presenceTold
    BY <1>4, <1>11
  <2>2. /\ known' \in [worked : Lists, closed : BOOLEAN, fresher : SUBSET Tabs]
        /\ known'.worked = known.worked /\ known'.closed /\ known'.fresher = known.fresher
    BY <1>2, <2>1
  <2>3. PresenceTypes'
    BY <1>1, <1>4, <1>5, <1>7, <1>8, <2>1, <2>2 DEF PresenceTypes
  <2>4. InRoomOf(heard, OwnerOf(t)) # {}
    <3>1. \A u \in InRoomOf(h, OwnerOf(t)) : u \in InRoomOf(heard, OwnerOf(t))
      BY <1>5, ItsTabs DEF InRoomOf, Tabs
    <3> QED  BY <1>11, <3>1
  <2>5. PresentIn(heard') = PresentIn(heard)
    BY <1>4, <1>5, <1>11, <2>4, OtherOfTheirs
  <2> QED  BY <1>4, <1>5, <1>7, <1>8, <1>9, <2>1, <2>2, <2>3, <2>5, OneTab
<1> QED  BY <1>10, <1>11

LEMMA ChangeKeeps ==
  ASSUME PresenceAssumption, NoneIsNoReading, PresenceInv, RoomChanges
  PROVE  PresenceInv'
<1>1. PresenceTypes
  BY DEF PresenceInv
<1>2. BroadcastTo(heard, incoming, None) /\ UNCHANGED <<heard, answering, outgoing, tabs>>
  BY DEF RoomChanges
<1>3. revisions' \in Nat /\ AllTold(heard, incoming, revisions')
  BY <1>1, <1>2, BroadcastTells DEF PresenceTypes
<1>4. PresenceTypes'
  BY <1>1, <1>2, <1>3 DEF PresenceTypes, AllTold, ToldTypes
<1>5. /\ \A u \in Tabs : TabOK(heard'[u], answering'[u], incoming[u], outgoing'[u], tabs'[u])
      /\ \A u \in Tabs \ known.fresher : ToldOK(heard'[u], answering'[u], incoming[u], tabs'[u], presenceTold)
  BY <1>2 DEF PresenceInv
<1>6. AllTold(heard', incoming, revisions')
  BY <1>2, <1>3
<1> QED  BY <1>4, <1>5, <1>6, TellingKeeps

(* A heartbeat heard is told; a request for the Room is to be answered.    *)
LEMMA HearKeeps ==
  ASSUME PresenceAssumption, NoneIsNoReading, PresenceInv, NEW t \in Tabs, Hear(t)
  PROVE  PresenceInv'
<1> DEFINE o == outgoing[t]
           m == Head(o)
           c == tabs[t]
           i == incoming[t]
           a == answering[t]
<1>1. PresenceTypes /\ TabOK(heard[t], a, i, o, c)
      /\ (t \notin known.fresher => ToldOK(heard[t], a, i, c, presenceTold))
  BY DEF PresenceInv
<1>2. /\ o \in Seq(FromTab) /\ c \in Tab /\ heard \in [Tabs -> Heartbeat \cup {None}] /\ incoming \in [Tabs -> Seq(ToTab)]
      /\ revisions \in Nat /\ tabs \in [Tabs -> Tab] /\ outgoing \in [Tabs -> Seq(FromTab)]
      /\ answering \in [Tabs -> Nat \cup {None}]
  BY <1>1 DEF PresenceTypes
<1>3. o # <<>> /\ outgoing' = [outgoing EXCEPT ![t] = Tail(o)] /\ revisions' = revisions
  BY DEF Hear
<1>4. /\ Tail(o) \in Seq(FromTab) /\ m \in FromTab
      /\ NoneOf(o, BeatsSaid) <=> m \notin BeatsSaid /\ NoneOf(Tail(o), BeatsSaid)
      /\ LastIn(o, BeatsSaid, Standing(c.revision)) =>
            \/ LastIn(Tail(o), BeatsSaid, Standing(c.revision))
            \/ NoneOf(Tail(o), BeatsSaid) /\ m \in BeatsSaid \cap Standing(c.revision)
  BY <1>2, <1>3, TakenFirst
<1>5. outgoing' \in [Tabs -> Seq(FromTab)] /\ outgoing'[t] = Tail(o) /\ \A u \in Tabs \ {t} : outgoing'[u] = outgoing[u]
  BY <1>2, <1>3, <1>4
<1>6. c.open /\ heard[t] # None
  BY <1>1, <1>3 DEF TabOK
<1>7. CASE m.type = "beat"
  <2> DEFINE b == [age |-> 0, latency |-> m.latency, revision |-> m.revision]
             h == [heard EXCEPT ![t] = b]
  <2>1. m \in BeatsSaid /\ m.latency \in Measure /\ m.revision \in Nat
    BY <1>4, <1>7 DEF BeatsSaid, FromTab
  <2>2. b \in Heartbeat /\ b # None /\ b.revision = m.revision
    BY <2>1 DEF Heartbeat, NoneIsNoReading
  <2>3. heard' = h /\ ReportPresence(h, incoming, FollowingIn(h, revisions)) /\ answering' = answering
        /\ \E l \in RoundTrips[t] : tabs' = [tabs EXCEPT ![t].latency = l]
    BY <1>7 DEF Hear
  <2>4. PICK l \in RoundTrips[t] : tabs' = [tabs EXCEPT ![t].latency = l]
    BY <2>3
  <2> DEFINE d == [c EXCEPT !.latency = l]
  <2>5. l \in Measure
    BY DEF PresenceAssumption, Measure
  <2>6. /\ d \in Tab /\ d.open = c.open /\ d.in = c.in /\ d.soon = c.soon /\ d.shown = c.shown
        /\ d.revision = c.revision
    BY <1>2, <2>5 DEF Tab
  <2>7. tabs' = [tabs EXCEPT ![t] = d]
    BY <2>4
  <2> HIDE DEF b, d
  <2>8. h \in [Tabs -> Heartbeat \cup {None}] /\ h[t] = b /\ \A u \in Tabs \ {t} : h[u] = heard[u]
    BY <1>2, <2>2
  <2> HIDE DEF h
  <2>9. tabs' \in [Tabs -> Tab] /\ tabs'[t] = d /\ \A u \in Tabs \ {t} : tabs'[u] = tabs[u]
    BY <1>2, <2>6, <2>7
  <2>10. AllTold(h, incoming, revisions)
    BY <1>1, <1>2, <2>3, <2>8, AllAreTold
  <2>11. PresenceTypes'
    BY <1>1, <1>3, <1>5, <2>3, <2>8, <2>9, <2>10 DEF PresenceTypes, AllTold, ToldTypes
  <2> HIDE DEF a, i, o, c, m
  <2>12. \/ Owing(a, i, Tail(o), d) \/ m.revision = d.revision
    <3>1. ~NoneOf(o, BeatsSaid)
      BY <1>4, <2>1
    <3>2. CASE c.soon
      BY <2>6, <3>2 DEF Owing
    <3>3. CASE LastIn(Tail(o), BeatsSaid, Standing(c.revision))
      BY <3>3, LastIsThere DEF Owing
    <3>4. CASE m \in Standing(c.revision)
      BY <2>6, <3>4 DEF Standing
    <3> QED  BY <1>1, <1>4, <3>1, <3>2, <3>3, <3>4 DEF TabOK
  <2>13. TabOK(b, a, i, Tail(o), d)
    BY <1>1, <1>4, <1>6, <2>1, <2>2, <2>6, <2>12, LastIsThere DEF TabOK
  <2>14. t \notin known.fresher => ToldOK(b, a, i, d, presenceTold)
    BY <1>1, <1>6, <2>6 DEF ToldOK
  <2>15. ASSUME NEW u \in Tabs
         PROVE  TabOK(heard'[u], answering'[u], incoming[u], outgoing'[u], tabs'[u])
    <3>1. CASE u = t
      BY <1>5, <2>3, <2>8, <2>9, <2>13, <3>1 DEF a, i
    <3>2. CASE u # t
      BY <1>5, <2>3, <2>8, <2>9, <3>2 DEF PresenceInv
    <3> QED  BY <3>1, <3>2
  <2>16. ASSUME NEW u \in Tabs \ known.fresher
         PROVE  ToldOK(heard'[u], answering'[u], incoming[u], tabs'[u], presenceTold)
    <3>1. CASE u = t
      BY <2>3, <2>8, <2>9, <2>14, <2>16, <3>1 DEF a, i
    <3>2. CASE u # t
      BY <2>3, <2>8, <2>9, <2>16, <3>2 DEF PresenceInv
    <3> QED  BY <3>1, <3>2
  <2>17. AllTold(heard', incoming, revisions')
    BY <1>3, <2>3, <2>10
  <2> QED  BY <2>11, <2>15, <2>16, <2>17, TellingKeeps
<1>8. CASE m.type = "resync"
  <2>1. /\ answering' = [answering EXCEPT ![t] = revisions]
        /\ UNCHANGED <<heard, presenceTold, incoming, known, tabs>>
    BY <1>8 DEF Hear
  <2>2. m \notin BeatsSaid /\ revisions # None
    BY <1>2, <1>8 DEF BeatsSaid, NoneIsNoReading
  <2>3. /\ answering' \in [Tabs -> Nat \cup {None}] /\ answering'[t] = revisions
        /\ \A u \in Tabs \ {t} : answering'[u] = answering[u]
    BY <1>2, <2>1
  <2>4. PresenceTypes'
    BY <1>1, <1>3, <1>5, <2>1, <2>3 DEF PresenceTypes
  <2> HIDE DEF a, i, o, c, m
  <2>5. /\ TabOK(heard[t], revisions, i, Tail(o), c) /\ Owing(revisions, i, Tail(o), c)
        /\ ToldOK(heard[t], revisions, i, c, presenceTold)
    BY <1>1, <1>4, <1>6, <2>2 DEF TabOK, Owing, ToldOK
  <2>6. /\ TabOK(heard'[t], answering'[t], incoming'[t], outgoing'[t], tabs'[t])
        /\ ToldOK(heard'[t], answering'[t], incoming'[t], tabs'[t], presenceTold)
        /\ Owing(answering'[t], incoming'[t], outgoing'[t], tabs'[t])
    BY <1>5, <2>1, <2>3, <2>5 DEF i, c
  <2> QED  BY <1>3, <1>5, <2>1, <2>3, <2>4, <2>6, OneTab
<1>9. m.type = "beat" \/ m.type = "resync"
  BY <1>4 DEF FromTab
<1> QED  BY <1>7, <1>8, <1>9

LEMMA SendKeeps ==
  ASSUME PresenceAssumption, NoneIsNoReading, PresenceInv, NEW t \in Tabs, SendRoom(t)
  PROVE  PresenceInv'
<1> DEFINE a == answering[t]
           c == tabs[t]
           b == [heard[t] EXCEPT !.age = 0, !.revision = a]
           h == [heard EXCEPT ![t] = b]
           now == FollowingIn(h, revisions)
           m == [type |-> "snapshot", revision |-> a, shown |-> now]
<1>1. PresenceTypes /\ TabOK(heard[t], a, incoming[t], outgoing[t], c)
  BY DEF PresenceInv
<1>2. /\ heard \in [Tabs -> Heartbeat \cup {None}] /\ incoming \in [Tabs -> Seq(ToTab)] /\ revisions \in Nat
      /\ answering \in [Tabs -> Nat \cup {None}] /\ tabs \in [Tabs -> Tab]
      /\ known \in [worked : Lists, closed : BOOLEAN, fresher : SUBSET Tabs]
  BY <1>1 DEF PresenceTypes
<1>3. /\ a # None /\ answering' = [answering EXCEPT ![t] = None] /\ heard' = h
      /\ incoming' = [incoming EXCEPT ![t] = Append(@, m)]
      /\ known' = IF now = presenceTold THEN known ELSE [known EXCEPT !.fresher = @ \cup {t}]
      /\ UNCHANGED <<revisions, presenceTold, outgoing, tabs>>
  BY DEF SendRoom
<1>4. c.open /\ heard[t] # None
  BY <1>1, <1>3 DEF TabOK
<1>5. a \in Nat /\ heard[t] \in Heartbeat
  BY <1>2, <1>3, <1>4
<1>6. b \in Heartbeat
  BY <1>5 DEF Heartbeat
<1>7. b # None
  BY <1>6 DEF NoneIsNoReading
<1>8. h = [heard EXCEPT ![t] = b]
  OBVIOUS
<1> HIDE DEF b, h
<1>9. h \in [Tabs -> Heartbeat \cup {None}] /\ h[t] = b /\ \A u \in Tabs \ {t} : h[u] = heard[u]
  BY <1>2, <1>6, <1>8
<1>11. PresentIn(h) = PresentIn(heard)
  <2>1. \A u \in Tabs : h[u] # None <=> heard[u] # None
    BY <1>4, <1>7, <1>9
  <2> QED  BY <2>1, SameHeard
<1>12. now \in Lists
  BY <1>2, <1>9, FollowingFits
<1> HIDE DEF now
<1>13. m \in ToTab /\ m \in Snapshots /\ m \in Reports /\ m.shown = now
  BY <1>5, <1>12 DEF ToTab, Snapshots, Reports
<1> HIDE DEF m
<1>14. Append(incoming[t], m) \in Seq(ToTab) /\ incoming[t] \in Seq(ToTab)
  BY <1>2, <1>13, AppendProperties
<1>15. incoming' \in [Tabs -> Seq(ToTab)] /\ incoming'[t] = Append(incoming[t], m)
       /\ \A u \in Tabs \ {t} : incoming'[u] = incoming[u]
  BY <1>2, <1>3, <1>14
<1>16. ~NoneOf(incoming'[t], Snapshots)
  <2>1. LastIn(incoming'[t], Snapshots, Snapshots)
    BY <1>13, <1>14, <1>15, SentLast
  <2> QED  BY <2>1, LastIsThere
<1>17. /\ answering' \in [Tabs -> Nat \cup {None}] /\ answering'[t] = None
       /\ \A u \in Tabs \ {t} : answering'[u] = answering[u]
  BY <1>2, <1>3
<1>18. /\ known' \in [worked : Lists, closed : BOOLEAN, fresher : SUBSET Tabs]
       /\ known'.worked = known.worked /\ known'.closed = known.closed /\ known.fresher \subseteq known'.fresher
       /\ t \notin known'.fresher => now = presenceTold
  BY <1>2, <1>3
<1>19. PresenceTypes'
  BY <1>1, <1>3, <1>9, <1>15, <1>17, <1>18 DEF PresenceTypes
<1>20. Owing(answering'[t], incoming'[t], outgoing'[t], tabs'[t])
  BY <1>16 DEF Owing
<1>21. TabOK(heard'[t], answering'[t], incoming'[t], outgoing'[t], tabs'[t])
  <2>1. tabs'[t] = c /\ outgoing'[t] = outgoing[t] /\ heard'[t] = b
    BY <1>3, <1>9
  <2> HIDE DEF c, a
  <2> QED  BY <1>1, <1>4, <1>7, <1>16, <1>20, <2>1 DEF TabOK
<1>22. t \notin known'.fresher => ToldOK(heard'[t], answering'[t], incoming'[t], tabs'[t], presenceTold)
  <2> SUFFICES ASSUME t \notin known'.fresher
               PROVE  LastIn(incoming'[t], Reports, Telling(presenceTold))
    BY DEF ToldOK
  <2>1. m \in Reports \cap Telling(presenceTold)
    BY <1>13, <1>18 DEF Telling
  <2> QED  BY <1>13, <1>14, <1>15, <2>1, SentLast
<1>23. \A u \in Tabs \ {t} : /\ heard'[u] = heard[u] /\ answering'[u] = answering[u] /\ tabs'[u] = tabs[u]
                              /\ incoming'[u] = incoming[u] /\ outgoing'[u] = outgoing[u]
  BY <1>3, <1>9, <1>15, <1>17
<1>24. PresentIn(heard') = PresentIn(heard)
  BY <1>3, <1>11
<1> QED  BY <1>3, <1>18, <1>19, <1>20, <1>21, <1>22, <1>23, <1>24, OneTab

LEMMA TimeKeeps ==
  ASSUME PresenceAssumption, NoneIsNoReading, PresenceInv, TimePasses
  PROVE  PresenceInv'
<1>1. PresenceTypes
  BY DEF PresenceInv
<1>2. /\ heard' = [t \in Tabs |-> IF heard[t] = None THEN None
                                  ELSE [heard[t] EXCEPT !.age = IF @ < AwayAfter THEN @ + 1 ELSE @]]
      /\ UNCHANGED <<revisions, presenceTold, answering, incoming, outgoing, tabs, known>>
  BY DEF TimePasses
<1>3. ASSUME NEW t \in Tabs
      PROVE  /\ heard'[t] \in Heartbeat \cup {None} /\ (heard'[t] # None <=> heard[t] # None)
             /\ heard[t] # None => heard'[t].revision = heard[t].revision
  <2>1. CASE heard[t] = None
    BY <1>2, <2>1
  <2>2. CASE heard[t] # None
    <3>1. heard[t] \in Heartbeat
      BY <1>1, <2>2 DEF PresenceTypes
    <3>2. PICK n : n = IF heard[t].age < AwayAfter THEN heard[t].age + 1 ELSE heard[t].age
      OBVIOUS
    <3>3. heard[t].age \in Nat /\ n \in Nat
      BY <3>1, <3>2 DEF Heartbeat
    <3>4. heard'[t] = [heard[t] EXCEPT !.age = n]
      BY <1>2, <2>2, <3>2
    <3>5. heard'[t] \in Heartbeat /\ heard'[t].revision = heard[t].revision
      BY <3>1, <3>3, <3>4 DEF Heartbeat
    <3> QED  BY <2>2, <3>5 DEF NoneIsNoReading
  <2> QED  BY <2>1, <2>2
<1>4. heard' \in [Tabs -> Heartbeat \cup {None}]
  BY <1>2, <1>3
<1>5. PresenceTypes'
  BY <1>1, <1>2, <1>4 DEF PresenceTypes
<1>6. ASSUME NEW p \in People
      PROVE  InRoomOf(heard', p) = InRoomOf(heard, p)
  BY <1>3, <1>6, SameHeard
<1>7. PresentIn(heard') = PresentIn(heard)
  BY <1>3, SameHeard
<1>8. ASSUME NEW t \in Tabs
      PROVE  /\ TabOK(heard'[t], answering'[t], incoming'[t], outgoing'[t], tabs'[t])
             /\ t \notin known'.fresher => ToldOK(heard'[t], answering'[t], incoming'[t], tabs'[t], presenceTold')
  <2>1. /\ TabOK(heard[t], answering[t], incoming[t], outgoing[t], tabs[t])
        /\ t \notin known.fresher => ToldOK(heard[t], answering[t], incoming[t], tabs[t], presenceTold)
    BY DEF PresenceInv
  <2> QED  BY <1>2, <1>3, <2>1 DEF TabOK, ToldOK
<1>9. WorkedOK(heard', presenceTold', known'.worked)
  BY <1>2, <1>7 DEF PresenceInv, WorkedOK
<1>10. ASSUME Exact(heard, revisions, known.worked)
       PROVE  Exact(heard', revisions', known'.worked)
  <2> SUFFICES ASSUME NEW p \in DOMAIN known.worked
               PROVE  known.worked[p].inSync <=> \E t \in InRoomOf(heard', p) : heard'[t].revision >= revisions
    BY <1>2 DEF Exact
  <2>1. p \in People
    BY DEF PresenceInv, WorkedOK, PresentIn
  <2>2. \A t \in InRoomOf(heard, p) : heard'[t].revision = heard[t].revision
    BY <1>3, <2>1, InRoomTabs
  <2> QED  BY <1>6, <1>10, <2>1, <2>2 DEF Exact
<1> QED  BY <1>2, <1>5, <1>8, <1>9, <1>10 DEF PresenceInv

LEMMA StillPresence ==
  ASSUME PresenceInv, UNCHANGED presenceVars
  PROVE  PresenceInv'
BY DEF PresenceInv, PresenceTypes, presenceVars

LEMMA PresenceStays == PresenceSpec => []PresenceInv
<1>1. PresenceInit => PresenceInv
  BY FirstTold, PresenceAssumption, NoneIsNoReading
<1>2. ASSUME PresenceInv, [PresenceNext]_presenceVars
      PROVE  PresenceInv'
  <2>1. CASE \E t \in Tabs : TakeMessage(t)
    BY <1>2, <2>1, TakeKeeps
  <2>2. CASE \E t \in Tabs : GapPasses(t)
    BY <1>2, <2>2, GapKeeps
  <2>3. CASE \E t \in Tabs : BeatAgain(t)
    <3>1. PICK t \in Tabs : BeatAgain(t)
      BY <2>3
    <3>2. tabs[t] \in Tab
      BY <1>2 DEF PresenceInv, PresenceTypes
    <3> QED  BY <1>2, <3>1, <3>2, BeatKeeps DEF BeatAgain
  <2>4. CASE \E t \in Tabs : AskAfresh(t)
    BY <1>2, <2>4, AskKeeps
  <2>5. CASE \E t \in Tabs : Arrive(t)
    BY <1>2, <2>5, ArriveKeeps, PresenceAssumption, NoneIsNoReading
  <2>6. CASE \E t \in Tabs : Depart(t)
    BY <1>2, <2>6, DepartKeeps, PresenceAssumption, NoneIsNoReading
  <2>7. CASE \E t \in Tabs : Hear(t)
    BY <1>2, <2>7, HearKeeps, PresenceAssumption, NoneIsNoReading
  <2>8. CASE \E t \in Tabs : SendRoom(t)
    BY <1>2, <2>8, SendKeeps, PresenceAssumption, NoneIsNoReading
  <2>9. CASE RoomChanges
    BY <1>2, <2>9, ChangeKeeps, PresenceAssumption, NoneIsNoReading
  <2>10. CASE TimePasses
    BY <1>2, <2>10, TimeKeeps, PresenceAssumption, NoneIsNoReading
  <2>11. CASE UNCHANGED presenceVars
    BY <1>2, <2>11, StillPresence
  <2> QED  BY <1>2, <2>1, <2>2, <2>3, <2>4, <2>5, <2>6, <2>7, <2>8, <2>9, <2>10, <2>11 DEF PresenceNext
<1> QED  BY <1>1, <1>2, PTL DEF PresenceSpec

(* With nothing on its way every tab shows each Participant present as the *)
(* server last worked them out, and reads as in sync the Guests one of     *)
(* whose tabs has applied the Room's Revision (room-presence.ts,           *)
(* syncView.ts), however many tabs come, go, beat and fall behind.         *)
THEOREM FollowingIsTold == PresenceSpec => []FollowingIsTrue
<1>1. PresenceInv => FollowingIsTrue
  <2> SUFFICES ASSUME PresenceInv, Settled, NEW t \in Tabs, heard[t] # None, t \notin known.fresher
               PROVE  /\ ~PresenceChanged(tabs[t].shown, known.worked)
                      /\ known.closed \/ GuestsFollowing(tabs[t].shown).inSync = UpToDate \ {Master}
    BY DEF FollowingIsTrue
  <2>1. ASSUME NEW u \in Tabs
        PROVE  /\ ~Owing(answering[u], incoming[u], outgoing[u], tabs[u])
               /\ heard[u] # None => heard[u].revision = tabs[u].revision
    <3>1. incoming[u] = <<>> /\ outgoing[u] = <<>> /\ answering[u] = None /\ ~tabs[u].soon
      BY DEF Settled
    <3>2. ~Owing(answering[u], incoming[u], outgoing[u], tabs[u])
      BY <3>1, NothingSent DEF Owing
    <3>3. TabOK(heard[u], answering[u], incoming[u], outgoing[u], tabs[u])
      BY DEF PresenceInv
    <3> QED  BY <3>2, <3>3 DEF TabOK
  <2>2. tabs[t].shown = presenceTold
    <3>1. ToldOK(heard[t], answering[t], incoming[t], tabs[t], presenceTold)
      BY DEF PresenceInv
    <3>2. incoming[t] = <<>> /\ answering[t] = None
      BY DEF Settled
    <3>3. ~LastIn(incoming[t], Reports, Telling(presenceTold))
      BY <3>2, LastIsThere, NothingSent
    <3> QED  BY <3>1, <3>2, <3>3 DEF ToldOK
  <2>3. ~PresenceChanged(tabs[t].shown, known.worked) /\ DOMAIN known.worked = PresentIn(heard)
    BY <2>2 DEF PresenceInv, WorkedOK
  <2>4. ASSUME ~known.closed
        PROVE  GuestsFollowing(tabs[t].shown).inSync = UpToDate \ {Master}
    <3> DEFINE shown == tabs[t].shown
    <3>1. Exact(heard, revisions, known.worked)
      BY <2>1, <2>4 DEF PresenceInv
    <3>2. DOMAIN shown = PresentIn(heard) /\ \A p \in PresentIn(heard) : shown[p].inSync = known.worked[p].inSync
      BY <2>3 DEF PresenceChanged, Differs
    <3> HIDE DEF shown
    <3>3. ASSUME NEW p \in PresentIn(heard)
          PROVE  shown[p].inSync <=> p \in UpToDate
      <4>1. p \in People
        BY DEF PresentIn
      <4>2. known.worked[p].inSync <=> \E u \in InRoomOf(heard, p) : heard[u].revision >= revisions
        BY <2>3, <3>1 DEF Exact
      <4>3. \A u \in InRoomOf(heard, p) : heard[u].revision = tabs[u].revision
        BY <2>1, <4>1, InRoomTabs
      <4> QED  BY <3>2, <4>1, <4>2, <4>3 DEF UpToDate
    <3>4. UpToDate \subseteq PresentIn(heard)
      BY DEF UpToDate, PresentIn
    <3>5. GuestsFollowing(shown).inSync = {p \in DOMAIN shown \ {Master} : shown[p].inSync}
      BY DEF GuestsFollowing
    <3>6. {p \in DOMAIN shown \ {Master} : shown[p].inSync} = UpToDate \ {Master}
      BY <3>2, <3>3, <3>4
    <3> QED  BY <3>5, <3>6 DEF shown
  <2> QED  BY <2>3, <2>4
<1> QED  BY <1>1, PresenceStays, PTL
=============================================================================
