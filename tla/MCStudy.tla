------------------------------ MODULE MCStudy ------------------------------
EXTENDS HandHistory, LabBoard

----------------------------------------------------------------------------
(* Games: seats, blinds and stacks that make the cases come up.            *)

Post(p, kind, n) == [who |-> p, kind |-> kind, amount |-> n]
Small(p) == Post(p, "small-blind", 1)
Big(p) == Post(p, "big-blind", 2)

Game(stacks, button, first, posts, splash) ==
    [stacks |-> stacks, button |-> button, first |-> first, splash |-> splash, rake |-> 1,
     posts |-> posts]

\* A short stack, and one that cannot make a full raise: side pots.
Short == Game(<<7, 5, 9>>, 1, 1, <<Small(2), Big(3)>>, 3)
HeadsUp == Game(<<9, 12>>, 1, 1, <<Small(1), Big(2)>>, 0)
\* The button is dead, and seat 4 posts the big blind to come in.
DeadButton == Game(<<6, 6, 6, 6>>, 5, 3, <<Small(1), Big(2), Big(4)>>, 0)
\* Antes, and a straddle that acts last.
WithStraddle == Game(<<8, 8, 12>>, 1, 2, <<Post(1, "ante", 1), Post(2, "ante", 1), Post(3, "ante", 1),
                                        Small(2), Big(3), Post(1, "straddle", 4)>>, 2)
\* Both blinds posted at once by a player coming back: the small one is dead.
ComingBack == Game(<<40, 40, 40>>, 1, 1,
                   <<Small(2), Big(3), Post(1, "small-and-big-blinds", 3)>>, 0)
SomeGames == {Short, HeadsUp, DeadButton, WithStraddle, ComingBack}

\* A Screen Name may begin another's, whoever sits first.
SomeNames ==
    <<<<"al">>, <<"al", "der">>, <<"birch">>, <<"birch", "woods">>, <<"cal">>, <<"dov">>, <<"eve">>, <<"fay">>, <<"al", "der", "ney">>>>

----------------------------------------------------------------------------
(* Cards: enough of one suit for straights and flushes, and enough of some *)
(* ranks for two pair, trips twice over and quads.                         *)

Card(r, s) == [rank |-> r, suit |-> s]
SomeCards == {Card(r, "c") : r \in {12, 0, 1, 2, 3, 4}}
             \cup {Card(12, s) : s \in {"d", "h", "s"}} \cup {Card(3, s) : s \in {"d", "h"}}
             \cup {Card(2, "d"), Card(0, "d")}

Aces == {{Card(12, "d"), Card(12, "h")}, {Card(12, "d"), Card(12, "c")}}
MyRange == [c \in Aces \cup {{Card(3, "c"), Card(4, "c")}} |-> IF c \in Aces THEN 1 ELSE 2]
TheirRange == [c \in {{Card(12, "c"), Card(12, "h")}, {Card(3, "d"), Card(3, "h")},
                      {Card(4, "c"), Card(0, "d")}, {Card(12, "s"), Card(12, "h")}}
                |-> IF Card(3, "d") \in c THEN 3 ELSE 1]
FirstFlop == {Card(0, "c"), Card(1, "c"), Card(2, "d")}
Boards == {FirstFlop, FirstFlop \cup {Card(2, "c")}, FirstFlop \cup {Card(2, "c"), Card(12, "s")}}

\* Combos of every kind, on Boards with pairs, straights and flushes to come.
WideRange == [c \in kSubset(2, {Card(12, "c"), Card(12, "d"), Card(4, "c"), Card(3, "d"), Card(2, "c"), Card(0, "d"), Card(1, "c")})
                 |-> IF Card(12, "d") \in c THEN 50 ELSE 100]
Turned == {<<Card(3, "c"), Card(1, "c"), Card(0, "c"), Card(4, "c"), Card(2, "c")>>,
           <<Card(3, "c"), Card(3, "h"), Card(2, "d"), Card(12, "s"), Card(2, "c")>>,
           <<Card(2, "d"), Card(1, "c"), Card(0, "c"), Card(12, "s"), Card(2, "c")>>,
           <<Card(12, "h"), Card(3, "h"), Card(2, "d"), Card(4, "c"), Card(2, "c")>>}
SomeDead == {{}, {Card(12, "c"), Card(3, "d")}}
SomeNarrowings == {<<{"top-pair", "flush-draw"}, {"two-pair", "trips", "gutshot-pair"}>>}

SomeQuestions ==
    [about : {"cards"}, cards : kSubset(7, SomeCards) \cup kSubset(5, SomeCards)]
    \cup [about : {"ranges"}, mine : {MyRange}, theirs : {TheirRange}, board : Boards]
    \cup [about : {"board"}, range : {WideRange}, board : Turned, dead : SomeDead, narrowings : SomeNarrowings]

----------------------------------------------------------------------------
\* The table is played, or a question is asked.
Nothing == [about |-> "nothing"]
NoHand == [collected |-> <<>>]
StudyInit ==
    \/ TableInit /\ asked = Nothing
    \/ PokerInit /\ hand = NoHand /\ table = None /\ was = <<>>
       /\ replay = <<>> /\ paying = [table |-> None, pots |-> None] /\ stats = None
StudyNext == asked = Nothing /\ TableNext /\ UNCHANGED asked
=============================================================================
