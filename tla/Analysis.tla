------------------------------ MODULE Analysis ------------------------------
(***************************************************************************)
(* The Lab's Analysis (LabAnalysisPage.tsx, AnalysisSideSection.tsx,       *)
(* BoardPicker.tsx, lab.ts): one Range or two, a Board dealt Street by     *)
(* Street, the Categories marked on each and the Narrowings they become.   *)
(*                                                                         *)
(* What is on screen is written to the address a moment after the last     *)
(* change; an address changed from outside is taken as it is. Loading a    *)
(* saved Range takes a while, and nothing gives it up.                     *)
(*                                                                         *)
(* A Range is a matrix, one of a few. A Narrowing is [kept, on]: the       *)
(* Categories, and the Board they were marked on, which the program does   *)
(* not keep: it is there for the properties.                               *)
(***************************************************************************)
EXTENDS Routing, FiniteSetsExt

CONSTANTS Cards, Categories,
          Matrices, Blank,   \* the Ranges that may be painted, and the empty one
          Sources,           \* the saved Ranges, each with its matrix
          TypedBoards,       \* the Boards typed or dealt at random
          MaxTurns, MaxLoads \* bounds of the exploration

VARIABLES
    entries,  \* the browser's history: addresses of the Analysis, or Away
    analysis, \* [sides, board, dead]: what is on screen
    picked,   \* the Categories marked on each side on this Street
    written,  \* the address last written or taken
    timer,    \* the address is about to be written
    loads,    \* saved Ranges being loaded: [side, id, left], with what was on screen if left since
    stray,    \* an address a screen left behind is about to write, or None
    gone,     \* saved Ranges deleted meanwhile
    reading, known, \* sides reading the saved Range their address names, and those read
    wanted,   \* where the person last went: Away or not
    late,     \* a load was under way when the person left
    turns, loaded \* what has been used of each bound

analysisVars == <<entries, analysis, picked, written, timer, loads, stray, gone, reading, known, wanted, late, turns, loaded>>

----------------------------------------------------------------------------
FlopCards == 3
MaxBoard == 5
MaxDead == 2
StreetsBefore(cards) == Max({0, cards - FlopCards})

EmptySide == [range |-> Blank, source |-> None, narrowings |-> <<>>]
EmptyAnalysis == [sides |-> <<EmptySide>>, board |-> <<>>, dead |-> <<>>]
Unmarked(sides) == [i \in DOMAIN sides |-> {}]

\* Streets at the end with nothing kept are not written.
Trimmed(narrowings) ==
    LET last == Max({0} \cup {i \in DOMAIN narrowings : narrowings[i].kept # {}})
    IN [i \in 1..last |-> narrowings[i].kept]

Address(a) ==
    [sides |-> [i \in DOMAIN a.sides |-> [a.sides[i] EXCEPT !.narrowings = Trimmed(@)]],
     board |-> a.board, dead |-> a.dead]

\* The Narrowings of an address, on this Board: no more than it has Streets before its own.
ReadNarrowings(kept, board) ==
    [i \in 1..Min({Len(kept), StreetsBefore(Len(board))}) |->
        [kept |-> kept[i], on |-> SubSeq(board, 1, FlopCards + i - 1)]]

\* With two sides, or on the Board, Dead Cards are none.
StateFrom(address) ==
    [sides |-> [i \in DOMAIN address.sides |->
                   [address.sides[i] EXCEPT !.narrowings = ReadNarrowings(@, address.board)]],
     board |-> address.board,
     dead |-> IF Len(address.sides) > 1 \/ ToSet(address.dead) \cap ToSet(address.board) # {}
              THEN <<>> ELSE address.dead]

Bare == Address(EmptyAnalysis)

----------------------------------------------------------------------------
(* Moving along the Board (moveAlongBoard). *)

Common(before, board) ==
    Max({n \in 0..Min({Len(before), Len(board)}) : SubSeq(before, 1, n) = SubSeq(board, 1, n)})

DealtOn(before, board) == Common(before, board) = Len(before) /\ Len(before) >= FlopCards
TakenOff(before, board) == Common(before, board) = Len(board) /\ Len(board) >= FlopCards

Made(before, kept) == [kept |-> kept, on |-> before]
\* Every Street before this one, and this one narrowed to what was marked on it.
Narrowed(narrowings, before, marked) ==
    [i \in 1..StreetsBefore(Len(before)) |->
        IF i \in DOMAIN narrowings THEN narrowings[i] ELSE Made(SubSeq(before, 1, FlopCards + i - 1), {})]
    \o <<Made(before, marked)>>

\* Bug: only the Streets the Board has left are counted, not the cards that changed.
Standing_BySize(narrowings, before, board) ==
    SubSeq(narrowings, 1, Min({StreetsBefore(Len(board)), Len(narrowings)}))

\* Only what was marked on cards still there, in the same place, is kept.
StillStanding(narrowings, before, board) ==
    SubSeq(narrowings, 1, Min({StreetsBefore(Common(before, board) + 1), StreetsBefore(Len(board)), Len(narrowings)}))

MovedAlong(a, board, marked) ==
    [a EXCEPT !.board = board,
              !.sides = [i \in DOMAIN a.sides |-> [a.sides[i] EXCEPT !.narrowings =
                  IF DealtOn(a.board, board) THEN Narrowed(@, a.board, marked[i])
                  ELSE StillStanding(@, a.board, board)]]]

\* What a card taken off brings back as marked: the Narrowing it was dealt on.
BroughtBack(a, board) ==
    LET street == StreetsBefore(Len(board)) + 1 IN
    [i \in DOMAIN a.sides |->
        IF TakenOff(a.board, board) /\ street \in DOMAIN a.sides[i].narrowings
        THEN a.sides[i].narrowings[street].kept ELSE {}]

----------------------------------------------------------------------------
(* Changes apply at once, and the address follows. *)

Onscreen == entries.now # Away
Turn == turns < MaxTurns /\ turns' = turns + 1

ChangeTo(a, marked) ==
    /\ analysis' = a /\ picked' = marked
    /\ timer' = TRUE
    \* Each side reads its own source: one no longer named is not read.
    /\ reading' = {r \in reading : r.side \in DOMAIN a.sides /\ a.sides[r.side].source = r.id}

Known(r) == {k \in known : k.side # r.side} \cup {r}

SetSide(i, side) == [analysis EXCEPT !.sides[i] = side]
Locked(side) == \E i \in DOMAIN side.narrowings : side.narrowings[i].kept # {}

ChangedHere == UNCHANGED <<entries, written, loads, stray, gone, known, wanted, late, loaded>>

Paint ==
    /\ Onscreen /\ Turn
    /\ \E i \in DOMAIN analysis.sides, m \in Matrices :
           /\ ~Locked(analysis.sides[i]) /\ m # analysis.sides[i].range
           /\ ChangeTo(SetSide(i, [analysis.sides[i] EXCEPT !.range = m]), Unmarked(analysis.sides))
    /\ ChangedHere

ClearSide ==
    /\ Onscreen /\ Turn
    /\ \E i \in DOMAIN analysis.sides :
           ChangeTo(SetSide(i, [analysis.sides[i] EXCEPT !.range = Blank, !.narrowings = <<>>]), Unmarked(analysis.sides))
    /\ ChangedHere

\* A second side takes the Dead Cards away.
AddSide ==
    /\ Onscreen /\ Len(analysis.sides) = 1 /\ Turn
    /\ LET sides == Append(analysis.sides, EmptySide)
       IN ChangeTo([analysis EXCEPT !.sides = sides, !.dead = <<>>], Unmarked(sides))
    /\ ChangedHere

RemoveSide ==
    /\ Onscreen /\ Len(analysis.sides) = 2 /\ Turn
    /\ ChangeTo([analysis EXCEPT !.sides = SubSeq(@, 1, 1)], <<{}>>)
    /\ known' = {k \in known : k.side = 1}
    /\ UNCHANGED <<entries, written, loads, stray, gone, wanted, late, loaded>>

WithoutCard(cards, c) == SelectSeq(cards, LAMBDA each : each # c)
NextBoards ==
    LET board == analysis.board IN
    {WithoutCard(board, c) : c \in ToSet(board)}
    \cup (IF Len(board) < MaxBoard THEN {Append(board, c) : c \in Cards \ ToSet(board \o analysis.dead)} ELSE {})
    \cup {b \in TypedBoards : ToSet(b) \cap ToSet(analysis.dead) = {}}
    \cup {<<>>}

ChangeBoard ==
    /\ Onscreen /\ Turn
    /\ \E board \in NextBoards \ {analysis.board} :
           ChangeTo(MovedAlong(analysis, board, picked), BroughtBack(analysis, board))
    /\ ChangedHere

ToggleDead ==
    /\ Onscreen /\ Len(analysis.sides) = 1 /\ Turn
    /\ \/ \E c \in ToSet(analysis.dead) : ChangeTo([analysis EXCEPT !.dead = WithoutCard(@, c)], <<{}>>)
       \/ \E c \in Cards \ ToSet(analysis.dead \o analysis.board) :
              Len(analysis.dead) < MaxDead /\ ChangeTo([analysis EXCEPT !.dead = Append(@, c)], <<{}>>)
    /\ ChangedHere

RemoveNarrowing ==
    /\ Onscreen /\ Turn
    /\ \E i \in DOMAIN analysis.sides : \E street \in DOMAIN analysis.sides[i].narrowings :
           /\ analysis.sides[i].narrowings[street].kept # {}
           /\ LET left == [analysis.sides[i].narrowings EXCEPT ![street].kept = {}]
                  last == Max({0} \cup {k \in DOMAIN left : left[k].kept # {}})
              IN ChangeTo(SetSide(i, [analysis.sides[i] EXCEPT !.narrowings = SubSeq(left, 1, last)]), picked)
    /\ ChangedHere

\* Marking Categories changes nothing the address holds.
MarkCategory ==
    /\ Onscreen /\ Len(analysis.board) >= FlopCards /\ Turn
    /\ \/ \E i \in DOMAIN picked, c \in Categories :
              picked' = [picked EXCEPT ![i] = IF c \in @ THEN @ \ {c} ELSE @ \cup {c}]
       \/ picked' = Unmarked(analysis.sides)
    /\ UNCHANGED <<analysis, timer, reading>> /\ ChangedHere

----------------------------------------------------------------------------
(* Saved Ranges: loaded into a side, and read for the name of its source.  *)

StartLoad ==
    /\ Onscreen /\ loaded < MaxLoads
    /\ \E i \in DOMAIN analysis.sides, id \in DOMAIN Sources : loads' = loads \cup {[side |-> i, id |-> id, left |-> None]}
    /\ loaded' = loaded + 1
    /\ UNCHANGED <<entries, analysis, picked, written, timer, stray, gone, reading, known, wanted, late, turns>>

\* It goes into the side of that number there is by now, and starts it over Street by Street.
WithLoaded(a, l) ==
    IF l.side \notin DOMAIN a.sides THEN a
    ELSE [a EXCEPT !.sides[l.side] = [range |-> Sources[l.id], source |-> l.id, narrowings |-> <<>>]]

\* On a screen left behind, the state it was left with; its address is written all the same.
LoadAnswers(l) ==
    /\ loads' = loads \ {l}
    /\ IF l.id \in gone THEN UNCHANGED <<analysis, picked, timer, reading, known, stray>>
       ELSE IF l.left # None
       THEN stray' = Address(WithLoaded(l.left, l)) /\ UNCHANGED <<analysis, picked, timer, reading, known>>
       ELSE /\ ChangeTo(WithLoaded(analysis, l), IF l.side \in DOMAIN analysis.sides THEN Unmarked(analysis.sides) ELSE picked)
            /\ known' = Known([side |-> l.side, id |-> l.id])
            /\ UNCHANGED stray
    /\ UNCHANGED <<entries, written, gone, wanted, late, turns, loaded>>

\* No longer this Account's: the Combos stay, without a name to compare them with.
ReadSource(r) ==
    /\ IF r.id \in gone
       THEN /\ analysis' = SetSide(r.side, [analysis.sides[r.side] EXCEPT !.source = None])
            /\ timer' = TRUE
            /\ UNCHANGED known
       ELSE known' = Known(r) /\ UNCHANGED <<analysis, timer>>
    /\ reading' = reading \ {r}
    /\ UNCHANGED <<entries, picked, written, loads, gone, stray, wanted, late, turns, loaded>>

DeletedElsewhere ==
    /\ Turn
    /\ \E id \in DOMAIN Sources \ gone : gone' = gone \cup {id}
    /\ UNCHANGED <<entries, analysis, picked, written, timer, loads, reading, known, stray, wanted, late, loaded>>

----------------------------------------------------------------------------
(* The address. *)

WriteAddress ==
    /\ timer /\ timer' = FALSE
    /\ entries' = Redirect(entries, Address(analysis))
    /\ written' = Address(analysis)
    /\ UNCHANGED <<analysis, picked, loads, gone, reading, known, stray, wanted, late, turns, loaded>>

\* Bug: leaving does not stop the address from being written.
Stopped_Late == timer

\* Written after leaving, it would replace another screen's address.
Stopped == FALSE

Named(a) == {[side |-> i, id |-> a.sides[i].source] : i \in {i \in DOMAIN a.sides : a.sides[i].source # None}}

\* The screen at this address, opened afresh or, if it is on already, as the address says.
TakenFrom(e, done) ==
    /\ analysis' = StateFrom(e) /\ picked' = Unmarked(e.sides)
    /\ written' = e /\ timer' = FALSE
    /\ known' = {k \in done : k.side \in DOMAIN e.sides}
    /\ reading' = Named(e) \ done

ArriveAt(h) ==
    /\ entries' = h
    /\ IF h.now = Away
       THEN /\ timer' = Stopped /\ reading' = {} /\ known' = {}
            /\ loads' = {[l EXCEPT !.left = IF @ = None THEN analysis ELSE @] : l \in loads}
            /\ late' = (late \/ loads # {})
            /\ UNCHANGED <<analysis, picked, written>>
       ELSE /\ IF ~Onscreen THEN TakenFrom(h.now, {})
               ELSE IF h.now = written THEN UNCHANGED <<analysis, picked, written, timer, reading, known>>
               ELSE TakenFrom(h.now, known)
            /\ UNCHANGED <<loads, late>>

Goes(h) == /\ Turn /\ ArriveAt(h) /\ wanted' = (h.now # Away) /\ UNCHANGED <<gone, stray, loaded>>

Leave == Onscreen /\ Goes(Navigate(entries, Away))
\* The Lab's own link, or a Range opened in the Analysis with its Combos.
OpenAt(e) == entries.now # e /\ Goes(Navigate(entries, e))
OpenAnalysis ==
    \/ OpenAt(Bare)
    \/ ~Onscreen /\ \E id \in DOMAIN Sources :
           OpenAt([Bare EXCEPT !.sides[1] = [range |-> Sources[id], source |-> id, narrowings |-> <<>>]])
AnalysisBack == CanGoBack(entries) /\ Goes(GoBack(entries))

\* The write a screen left behind still had coming.
WriteStray ==
    /\ stray # None /\ stray' = None
    /\ ArriveAt(Redirect(entries, stray))
    /\ UNCHANGED <<gone, wanted, turns, loaded>>

AnalysisInit ==
    /\ entries = [past |-> <<Away>>, now |-> Bare, ahead |-> <<>>]
    /\ analysis = EmptyAnalysis /\ picked = <<{}>> /\ written = Bare /\ timer = FALSE
    /\ loads = {} /\ gone = {} /\ reading = {} /\ known = {} /\ stray = None
    /\ wanted = TRUE /\ late = FALSE /\ turns = 0 /\ loaded = 0

AnalysisNext ==
    \/ Paint \/ ClearSide \/ AddSide \/ RemoveSide \/ ChangeBoard \/ ToggleDead \/ RemoveNarrowing \/ MarkCategory
    \/ StartLoad \/ DeletedElsewhere \/ WriteAddress \/ WriteStray \/ Leave \/ OpenAnalysis \/ AnalysisBack
    \/ \E l \in loads : LoadAnswers(l)
    \/ \E r \in reading : ReadSource(r)

----------------------------------------------------------------------------
(* Whatever cards are dealt, taken off, typed or picked again, on one side *)
(* or two: every Narrowing was made on the first cards of the Board as it  *)
(* stands; no card is both on it and dead; and dealing a card on and       *)
(* taking it off again brings back what was marked and what was kept       *)
(* before (lab.ts, moveAlongBoard).                                        *)
NarrowingsFollowTheBoard ==
    entries # None /\ Onscreen =>
        /\ ToSet(analysis.board) \cap ToSet(analysis.dead) = {}
        /\ \A i \in DOMAIN analysis.sides : LET narrowings == analysis.sides[i].narrowings IN
               /\ Len(narrowings) <= StreetsBefore(Len(analysis.board))
               /\ \A k \in DOMAIN narrowings : narrowings[k].on = SubSeq(analysis.board, 1, FlopCards + k - 1)
        /\ FlopCards <= Len(analysis.board) /\ Len(analysis.board) < MaxBoard =>
               \A c \in Cards \ ToSet(analysis.board \o analysis.dead) :
                   LET dealt == MovedAlong(analysis, Append(analysis.board, c), picked) IN
                   /\ BroughtBack(dealt, analysis.board) = picked
                   /\ Address(MovedAlong(dealt, analysis.board, Unmarked(analysis.sides))) = Address(analysis)

(* The address on screen, reloaded or gone back to, gives back what is     *)
(* being studied, as soon as it has been written; and it is never written  *)
(* over the address of a screen the person went to since, unless a saved   *)
(* Range was being loaded as they left (LabAnalysisPage.tsx).              *)
AddressGivesItBack ==
    entries # None /\ ~late =>
        /\ Onscreen = wanted
        /\ Onscreen /\ ~timer => /\ entries.now = Address(analysis)
                                 /\ Address(StateFrom(entries.now)) = entries.now
                                 /\ StateFrom(entries.now).dead = analysis.dead

(* Both: of the Analysis, on a Board that changes and in an address that   *)
(* follows it, nothing is lost or left behind.                             *)
AnalysisIsKept == NarrowingsFollowTheBoard /\ AddressGivesItBack
=============================================================================
