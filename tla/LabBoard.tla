------------------------------ MODULE LabBoard ------------------------------
(***************************************************************************)
(* How a Range hits a Board (lab/board.ts): the Categories of its Combos,  *)
(* Made Hands and Draws, and what each Street's Narrowing keeps of it.     *)
(*                                                                         *)
(* A Combo is two cards; a Range gives each of its Combos a Frequency, and *)
(* shares are left as counts. A Board is a sequence where the Streets      *)
(* matter, and otherwise its cards.                                        *)
(***************************************************************************)
EXTENDS Poker

Flop == 3
FullBoard == 5

CardsOf(board) == Range(board)
IsLive(combo, out) == combo \cap out = {}
Weigh(range, combos) == FoldSet(LAMBDA c, sum : sum + range[c], 0, combos)
LiveCombos(range, out) == Weigh(range, {c \in DOMAIN range : IsLive(c, out)})

----------------------------------------------------------------------------
(* Made Hands, best first.                                                 *)

MadeHands == <<"straight-flush", "quads", "full-house", "flush", "straight", "set", "trips", "two-pair",
               "overpair", "top-pair", "below-top-card", "middle-pair", "below-second-card", "bottom-pair",
               "below-board", "ace-high", "nothing">>
OnePair == {"overpair", "top-pair", "below-top-card", "middle-pair", "below-second-card", "bottom-pair", "below-board"}
IsBelow(made, target) ==
    LET place(m) == CHOOSE k \in DOMAIN MadeHands : MadeHands[k] = m IN place(made) > place(target)

\* What the evaluator names, whatever the Combo's cards add.
MadeByEvaluator ==
    [c \in {"straight-flush", "four-of-a-kind", "full-house", "flush", "straight"} |->
        IF c = "four-of-a-kind" THEN "quads" ELSE c]

\* A pocket pair, by how many of the Board's ranks are above it.
PocketPair(rank, board) ==
    LET ranks == Down(RanksOf(board)) IN
    IF rank \in RanksOf(board) THEN "set"
    ELSE IF rank > ranks[1] THEN "overpair"
    ELSE IF Len(ranks) > 1 /\ rank > ranks[2] THEN "below-top-card"
    ELSE IF rank > ranks[Len(ranks)] THEN "below-second-card" ELSE "below-board"

\* Two cards of different ranks, by the ones the Board pairs.
Unpaired(hole, board) ==
    LET paired == RanksOf(hole) \cap RanksOf(board) IN
    IF Cardinality(paired) = 2 THEN "two-pair"
    ELSE IF paired = {} THEN IF Ace \in RanksOf(hole) THEN "ace-high" ELSE "nothing"
    ELSE LET rank == Max(paired) IN
         IF HowMany(board, rank) > 1 THEN "trips"
         ELSE IF rank = Max(RanksOf(board)) THEN "top-pair"
         ELSE IF rank = Min(RanksOf(board)) THEN "bottom-pair" ELSE "middle-pair"

MadeHandNamed(category, hole, board) ==
    IF category \in DOMAIN MadeByEvaluator THEN MadeByEvaluator[category]
    ELSE IF Cardinality(RanksOf(hole)) = 1 THEN PocketPair(Max(RanksOf(hole)), board)
    ELSE Unpaired(hole, board)
MadeHandOf(hole, board) == MadeHandNamed(CategoryOf(Strength(hole \cup board)), hole, board)

----------------------------------------------------------------------------
(* Draws, on a flop or a turn.                                             *)

Draws == <<"flush-draw", "open-ended-two-cards", "open-ended-one-card", "gutshot-two-cards",
           "gutshot-one-card", "overcards", "backdoor-two-cards", "backdoor-one-card">>
CombinationDraws == <<"flush-draw-pair", "flush-draw-open-ended", "flush-draw-gutshot",
                      "flush-draw-overcards", "open-ended-pair", "gutshot-pair">>

\* The lowest rank of the highest straight, an ace also counting as -1; -2 for none.
HighestStraight(ranks) ==
    LET all == IF Ace \in ranks THEN ranks \cup {-1} ELSE ranks
        lows == {low \in -1 .. 8 : low .. (low + 4) \subseteq all}
    IN IF lows = {} THEN -2 ELSE Max(lows)

\* Bug: a straight on the Board with that card counts.
StraightOuts_Shared(hole, board) ==
    {rank \in 0 .. Ace : HighestStraight(RanksOf(hole \cup board) \cup {rank}) > -2}

\* Only a straight above the one the Board and that card make.
StraightOuts(hole, board) ==
    {rank \in 0 .. Ace : HighestStraight(RanksOf(hole \cup board) \cup {rank})
                           > HighestStraight(RanksOf(board) \cup {rank})}

\* Some suit has this many cards, this many of them the Combo's.
ToFlush(hole, board, count, owned) ==
    \E s \in Suit :
        /\ Cardinality({c \in hole \cup board : c.suit = s}) = count
        /\ Cardinality({c \in hole : c.suit = s}) \in owned

DrawsWith(made, hole, board, oneCardBackdoors) ==
    LET flushDraw == IsBelow(made, "flush") /\ ToFlush(hole, board, 4, {1, 2})
        outs == Cardinality(StraightOuts(hole, board))
        oneCard(needed) == \E c \in hole : Cardinality(StraightOuts({c}, board)) >= needed
        backdoors == Cardinality(board) = Flop /\ ~flushDraw
        straights == IF ~IsBelow(made, "straight") THEN {}
                     ELSE IF outs >= 2 THEN {IF oneCard(2) THEN "open-ended-one-card" ELSE "open-ended-two-cards"}
                     ELSE IF outs = 1 THEN {IF oneCard(1) THEN "gutshot-one-card" ELSE "gutshot-two-cards"}
                     ELSE {}
    IN straights
       \cup {d \in {"flush-draw"} : flushDraw}
       \cup {d \in {"overcards"} : made \in {"ace-high", "nothing"} /\ Min(RanksOf(hole)) > Max(RanksOf(board))}
       \cup {d \in {"backdoor-two-cards"} : backdoors /\ ToFlush(hole, board, 3, {2})}
       \cup {d \in {"backdoor-one-card"} : backdoors /\ oneCardBackdoors /\ ToFlush(hole, board, 3, {1})}
DrawsOf(hole, board, oneCardBackdoors) == DrawsWith(MadeHandOf(hole, board), hole, board, oneCardBackdoors)

OpenEnded == {"open-ended-two-cards", "open-ended-one-card"}
Gutshots == {"gutshot-two-cards", "gutshot-one-card"}

Combined(has, pair) ==
    LET flushDraw == "flush-draw" \in has
    IN {d \in Range(CombinationDraws) :
          CASE d = "flush-draw-pair" -> flushDraw /\ pair
            [] d = "flush-draw-open-ended" -> flushDraw /\ has \cap OpenEnded # {}
            [] d = "flush-draw-gutshot" -> flushDraw /\ has \cap Gutshots # {}
            [] d = "flush-draw-overcards" -> flushDraw /\ "overcards" \in has
            [] d = "open-ended-pair" -> pair /\ has \cap OpenEnded # {}
            [] d = "gutshot-pair" -> pair /\ has \cap Gutshots # {}}
CombinationDrawsOf(hole, board) == Combined(DrawsOf(hole, board, FALSE), MadeHandOf(hole, board) \in OnePair)

----------------------------------------------------------------------------
(* The tables: a row for each Category some Combo of the deck can be in.   *)

Possible(board, dead) == {c \in kSubset(2, Deck) : IsLive(c, board \cup dead)}

\* `categories` has those of each Combo possible.
RowsOf(range, order, categories) ==
    LET within(category) == {c \in DOMAIN categories : category \in categories[c]}
        row(category) ==
            LET members == within(category) \cap DOMAIN range IN
            [category |-> category, combos |-> Weigh(range, members), members |-> members]
        shown == SelectSeq(order, LAMBDA category : within(category) # {})
    IN [k \in DOMAIN shown |-> row(shown[k])]

MadeHandRows(range, board, dead) ==
    IF Cardinality(board) < Flop THEN <<>>
    ELSE RowsOf(range, MadeHands, [c \in Possible(board, dead) |-> {MadeHandOf(c, board)}])

Drawing(board) == Flop <= Cardinality(board) /\ Cardinality(board) < FullBoard
DrawRows(range, board, dead, options) ==
    IF ~Drawing(board) THEN <<>>
    ELSE RowsOf(range, Draws, [c \in Possible(board, dead) |-> DrawsOf(c, board, options)])
CombinationDrawRows(range, board, dead) ==
    IF ~Drawing(board) THEN <<>>
    ELSE RowsOf(range, CombinationDraws,
                [c \in Possible(board, dead) |-> CombinationDrawsOf(c, board)])

CategoryRows(range, board, dead, options) ==
    MadeHandRows(range, board, dead) \o DrawRows(range, board, dead, options)
        \o CombinationDrawRows(range, board, dead)

\* The Combos some rows hold, each once.
SelectionOf(range, rows) == Restrict(range, UNION {r.members : r \in rows})

----------------------------------------------------------------------------
(* Street by Street: each Narrowing keeps what its Categories hold on the  *)
(* Board as it stood; a Street not narrowed keeps everything.              *)

KeptOn(range, street, dead, kept, options) ==
    IF kept = {} THEN range
    ELSE LET rows == Range(CategoryRows(range, street, dead, options))
         IN SelectionOf(range, {r \in rows : r.category \in kept})

RangesOnStreets(range, board, dead, narrowings, options) ==
    LET streets[i \in 0 .. Max({0, Len(board) - Flop})] ==
            IF i = 0 THEN <<range>>
            ELSE Append(streets[i - 1],
                        KeptOn(streets[i - 1][i], CardsOf(SubSeq(board, 1, Flop + i - 1)), dead,
                               IF i \in DOMAIN narrowings THEN narrowings[i] ELSE {}, options))
    IN streets[Max({0, Len(board) - Flop})]

----------------------------------------------------------------------------
(* The own Combo two Dead Cards make, against the Range.                   *)

Ahead(range, hole, board, outcome) ==
    Weigh(range, {c \in DOMAIN range : IsLive(c, board \cup hole) /\ Outcome(hole, c, board) = outcome})

OwnCombo(range, hole, board) ==
    [madeHand |-> MadeHandOf(hole, board),
     draws |-> IF Drawing(board) THEN DrawsOf(hole, board, FALSE) ELSE {},
     ahead |-> Ahead(range, hole, board, "win"), tied |-> Ahead(range, hole, board, "tie"),
     behind |-> Ahead(range, hole, board, "loss")]

----------------------------------------------------------------------------
\* A card of this rank and of no suit of the deck: it helps no flush.
Plain(rank) == [rank |-> rank, suit |-> "none"]
Hand(cards) == CategoryOf(Strength(cards))
Flushes == {"flush", "straight-flush"}

\* Whether a rank still to come makes a straight the Board does not make as good.
MakesStraight(hole, board, rank) ==
    LET come == board \cup {Plain(rank)} IN
    Hand(hole \cup come) = "straight" /\ Strength(come) < Strength(hole \cup come)
\* Whether a card of a suit the Combo has makes a flush.
MakesFlush(hole, board) ==
    \E c \in [rank : 0 .. Ace, suit : {h.suit : h \in hole}] \ (hole \cup board) :
        Hand(hole \cup board \cup {c}) \in Flushes

(* The Draws are told from ranks and suits alone, not by dealing the cards *)
(* to come: they agree with what the evaluator says once they are dealt,   *)
(* for any two cards. Every live Combo has one Made Hand, so a table adds  *)
(* up to the Range; on a flop the tables' order is that of strength (with  *)
(* more cards it is not: see README); no Combo a Street's Narrowing leaves *)
(* out is back on a later Street; and what the own Combo beats, ties with  *)
(* and loses to is all there is (lab/board.ts).                            *)
CategoriesAgree ==
    asked.about = "board" =>
        \A n \in Flop .. Len(asked.board) :
            LET street == SubSeq(asked.board, 1, n)
                board == CardsOf(street)
                rows == MadeHandRows(asked.range, board, asked.dead)
                streets == RangesOnStreets(asked.range, street, asked.dead, asked.narrowings, FALSE)
                total == LiveCombos(asked.range, board \cup asked.dead)
                strength == [c \in DOMAIN asked.range |-> Strength(c \cup board)]
            IN
            /\ FoldLeft(LAMBDA sum, row : sum + row.combos, 0, rows) = total
            /\ n = Flop =>
                 \A j, k \in DOMAIN rows : j < k =>
                    \A a \in rows[j].members, b \in rows[k].members : strength[a] >= strength[b]
            /\ n < FullBoard =>
                 \A c \in {c \in DOMAIN asked.range : IsLive(c, board)} :
                    LET draws == DrawsOf(c, board, TRUE)
                        outs == {r \in 0 .. Ace : MakesStraight(c, board, r)}
                        made == MadeHandOf(c, board)
                    IN /\ ("flush-draw" \in draws) = (IsBelow(made, "flush") /\ MakesFlush(c, board))
                       /\ IsBelow(made, "straight") =>
                            /\ (draws \cap OpenEnded # {}) = (Cardinality(outs) >= 2)
                            /\ (draws \cap Gutshots # {}) = (Cardinality(outs) = 1)
            /\ \A k \in 1 .. (Len(streets) - 1) :
                 /\ DOMAIN streets[k + 1] \subseteq DOMAIN streets[k]
                 /\ \A c \in DOMAIN streets[k + 1] : streets[k + 1][c] = asked.range[c]
            /\ Cardinality(asked.dead) = 2 =>
                 LET own == OwnCombo(asked.range, asked.dead, board)
                 IN own.ahead + own.tied + own.behind = total
=============================================================================
