----------------------------- MODULE TableView -----------------------------
(***************************************************************************)
(* What the table draws at one point of Playback (web's room/tableView.ts):*)
(* each seat with its chips, its move and what it won, the pots, the log   *)
(* and the counters. How a quantity is written is left out, and so are the *)
(* cards; whether a chip takes a second line, and what share of which pot  *)
(* it says, are not.                                                       *)
(*                                                                         *)
(* A point is a place among the Timeline's states, from 0.                 *)
(***************************************************************************)
EXTENDS Stats

LogLength == 6

\* Hide Opponent Names: a player who is nobody's in the Room goes by their Position.
Hidden(p, naming) == naming.hide /\ p \notin naming.own
NameOf(hand, p, naming) ==
    IF Hidden(p, naming) THEN [position |-> PositionOf(hand, p)] ELSE [screenName |-> p]

StateAt(states, point) == states[point + 1]
\* Out of bounds it is the first or the last one.
PointAt(states, asked) == Min({Max({asked, 0}), Len(states) - 1})

\* The points this Street's Actions up to this one led to, in order.
StreetActions(states, point) ==
    LET street == StateAt(states, point).street
        on(i) == StateAt(states, i).action # None /\ StateAt(states, i).action.street = street
    IN SelectSeq([i \in 1 .. point |-> i], LAMBDA i : \A j \in i .. point : on(j))

\* Where a player's latest Action on this Street led, or 0.
LatestOf(states, point, p) ==
    Max({0} \cup {i \in Range(StreetActions(states, point)) : StateAt(states, i).action.who = p})

MoveOf(states, point, p) ==
    LET latest == LatestOf(states, point, p) IN
    IF latest = 0 \/ StateAt(states, latest).action.type = "fold" THEN None
    ELSE IF p \in StateAt(states, latest).table.allIn THEN "all-in"
    ELSE StateAt(states, latest).action.type

\* Bug: the pot with the bet already in it.
PotFaced_After(states, latest, p) == StateAt(states, latest).pot

\* The pot a player faced, their own chips on this Street left out.
PotFaced(states, latest, p) ==
    LET before == StateAt(states, latest - 1) IN before.pot - before.table.bet[p]

\* A bet or a raise says what share of the pot it is; calls, posts and all-ins do not.
ChipOf(states, point, p, potPercentage) ==
    LET t == StateAt(states, point).table
        latest == LatestOf(states, point, p)
        sizing == /\ potPercentage /\ latest > 0 /\ p \notin t.allIn
                  /\ StateAt(states, latest).action.type \in {"bet", "raise"}
    IN IF t.bet[p] = 0 THEN None
       ELSE [kind |-> IF p \in t.allIn THEN "all-in" ELSE "bet", amount |-> t.bet[p],
             of |-> IF sizing THEN PotFaced(states, latest, p) ELSE None]

\* Lines a bet can take on this Hand's table, so that none shifts mid-Hand.
BetLines(states, potPercentage) ==
    IF \/ potPercentage
       \/ \E k \in DOMAIN states : \E p \in states[k].table.allIn : states[k].table.bet[p] > 0
    THEN 2 ELSE 1

Winnings(result, p) ==
    FoldLeft(LAMBDA sum, pot :
                FoldLeft(LAMBDA s, w : s + (IF w.who = p THEN w.amount ELSE 0), sum, pot.winners), 0, result)
WonBy(result, p) ==
    IF result # None /\ \E k \in DOMAIN result : Winner(result[k].winners, p) # {} THEN Winnings(result, p) ELSE None

Slots(hand) == Max(Seats(hand) \cup {hand.button})
SeatView(hand, states, point, hero, p, potPercentage) ==
    LET state == StateAt(states, point)
        t == state.table
        won == WonBy(state.result, p)
    IN [who |-> p, slot |-> (p - hero + Slots(hand)) % Slots(hand), stack |-> t.stack[p],
        chip |-> IF state.result = None THEN ChipOf(states, point, p, potPercentage) ELSE None,
        move |-> IF state.result = None THEN MoveOf(states, point, p) ELSE None,
        allIn |-> IF p \in t.allIn /\ won = None THEN t.committed[p] ELSE None,
        folded |-> p \in t.folded, toAct |-> state.toAct = p, dealer |-> p = hand.button,
        net |-> IF won = None THEN None ELSE won - t.committed[p]]

\* Seats by slot, the Hero's first.
SeatViews(hand, states, point, hero, potPercentage) ==
    LET views == {SeatView(hand, states, point, hero, p, potPercentage) : p \in Seats(hand)}
    IN SetToSortSeq(views, LAMBDA a, b : a.slot < b.slot)

\* What is said beside the pot: the part gathered and the part in play, when there are both.
PotDetail(state) ==
    LET gathered == InTheMiddle(state.pots)
        inPlay == Sum(state.table.bet)
    IN IF gathered > 0 /\ inPlay > 0 THEN [gathered |-> gathered, inPlay |-> inPlay] ELSE None

\* A pot's name among so many.
PotName(k, count) == IF count = 1 THEN "only" ELSE IF k = 1 THEN "main" ELSE IF count = 2 THEN "side" ELSE <<"side", k - 1>>
SidePots(hand, state, naming) ==
    IF Len(state.pots) < 2 THEN <<>>
    ELSE [k \in DOMAIN state.pots |->
            [label |-> PotName(k, Len(state.pots)), amount |-> state.pots[k].amount,
             names |-> IF Cardinality(state.pots[k].contestants) > 2 THEN {}
                       ELSE {NameOf(hand, p, naming) : p \in state.pots[k].contestants}]]

ActionNumber(states, point) == Cardinality({k \in 2 .. (point + 1) : states[k].action # None})

\* What led here, as the line under the counter says.
LastAction(hand, states, point, naming) ==
    LET state == StateAt(states, point)
        about(said, names) == [said |-> said, names |-> names]
    IN IF state.action # None THEN about(state.action.type, {NameOf(hand, state.action.who, naming)})
       ELSE IF state.result # None THEN about(IF hand.showdown THEN "showdown over" ELSE "hand over", {})
       ELSE about(IF point = 0 THEN "blinds posted" ELSE "dealt", {})

\* The latest Actions on the Street, whoever is to act and, at the end, the winners.
Log(hand, states, point, naming) ==
    LET state == StateAt(states, point)
        acts == StreetActions(states, point)
        latest == SubSeq(acts, Max({1, Len(acts) - LogLength + 1}), Len(acts))
        shown == IF state.result # None /\ hand.showdown THEN <<>> ELSE latest
        winners == SetToSortSeq({p \in Seats(hand) : WonBy(state.result, p) # None}, <)
        entry(tone, p) == [tone |-> tone, name |-> NameOf(hand, p, naming)]
    IN [k \in DOMAIN shown |->
            entry(IF shown[k] = point THEN "latest" ELSE "past", StateAt(states, shown[k]).action.who)]
       \o (IF state.toAct = None THEN <<>> ELSE <<entry("pending", state.toAct)>>)
       \o [k \in DOMAIN winners |-> entry("winner", winners[k])]

\* What each pot paid, after Rake.
Payout(state) ==
    [k \in DOMAIN state.result |->
        FoldLeft(LAMBDA sum, w : sum + w.amount, 0, state.result[k].winners)]

ViewOf(hand, states, asked, hero, potPercentage, naming) ==
    LET point == PointAt(states, asked)
        state == StateAt(states, point)
    IN [seats |-> SeatViews(hand, states, point, hero, potPercentage), pot |-> state.pot,
        potDetail |-> PotDetail(state), sidePots |-> SidePots(hand, state, naming),
        betLines |-> BetLines(states, potPercentage), payout |-> IF state.result = None THEN <<>> ELSE Payout(state),
        actionNumber |-> ActionNumber(states, point), actionCount |-> ActionNumber(states, Len(states) - 1),
        canGoBack |-> point > 0, canGoForward |-> point < Len(states) - 1,
        lastAction |-> LastAction(hand, states, point, naming), log |-> Log(hand, states, point, naming)]

----------------------------------------------------------------------------
(* At every point of a Hand and for every Hero: the seats are apart, the   *)
(* chips drawn and what the pots hold are the pot said; a move shown next  *)
(* to a player is sized as the chips in front of them, and its share is of *)
(* what everybody else had put in; nobody who is out or all in is to act;  *)
(* no chip takes more lines than the table keeps room for; what a winner   *)
(* is said to be up is their Result; and the counters, the log and what    *)
(* each pot paid tell the whole Hand.                                      *)
SeatsAgree(hand, view, point, states) ==
    LET seats == view.seats
        state == StateAt(states, point)
        chips == FoldLeft(LAMBDA sum, s : sum + (IF s.chip = None THEN 0 ELSE s.chip.amount), 0, seats)
    IN /\ Len(seats) = Cardinality(Seats(hand)) /\ seats[1].slot = 0
       /\ \A j, k \in DOMAIN seats : j < k => seats[j].slot < seats[k].slot
       /\ state.result = None => chips + InTheMiddle(state.pots) = view.pot
       /\ \A k \in DOMAIN seats : LET s == seats[k] IN
            /\ s.toAct => ~s.folded /\ s.allIn = None
            /\ s.chip # None /\ s.chip.of # None =>
                  /\ s.chip.of > 0 /\ view.betLines = 2
                  /\ LET latest == LatestOf(states, point, s.who)
                         others == Seats(hand) \ {s.who}
                     IN s.chip.of = hand.splash + StateAt(states, latest).table.committed[s.who] - s.chip.amount
                                    + Sum([p \in others |-> StateAt(states, latest).table.committed[p]])
            /\ s.chip # None /\ s.chip.kind = "all-in" => view.betLines = 2 /\ s.stack = 0
            /\ s.move \in {"bet", "raise"} =>
                  LET said == StateAt(states, LatestOf(states, point, s.who)).action IN
                  s.chip.amount = IF said.type = "raise" THEN said.to ELSE said.amount

NamesIn(view) ==
    view.lastAction.names \cup {view.log[k].name : k \in DOMAIN view.log}
        \cup UNION {view.sidePots[k].names : k \in DOMAIN view.sidePots}

TellsTheHand(hand, states, hero) ==
    LET last == Len(states) - 1
        naming == [hide |-> TRUE, own |-> {hero}]
        view == [point \in 0 .. last |-> ViewOf(hand, states, point, hero, TRUE, naming)]
        end == view[last]
    IN /\ \A point \in 0 .. last :
            /\ SeatsAgree(hand, view[point], point, states)
            /\ \A p \in Seats(hand) \ {hero} : [screenName |-> p] \notin NamesIn(view[point])
            /\ point < last => view[point].canGoForward /\ view[point].actionNumber <= view[point + 1].actionNumber
       /\ end.actionNumber = Len(hand.actions) /\ end.actionCount = Len(hand.actions)
       /\ end.seats[1].net # None => end.seats[1].net = Result(hand, states, hero).result
       /\ FoldLeft(+, 0, end.payout) = end.pot - hand.rake
=============================================================================
