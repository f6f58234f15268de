------------------------------- MODULE Poker -------------------------------
(***************************************************************************)
(* Hold'em hands and the Equity of one Range against another               *)
(* (packages/poker, and the pots' shares of hands/replay/equity.ts).       *)
(*                                                                         *)
(* The best hand among some cards is worked out twice in the code: by      *)
(* looking at every five of them (bestHand), and straight from how many of *)
(* each rank and suit there are (strength). Equity is too: by counting     *)
(* every deal (enumerate), and by drawing deals at random (sample).        *)
(*                                                                         *)
(* A card is a rank, 0 for the 2 up to 12 for the ace, and a suit. Shares  *)
(* of a pot are kept as counts of deals, never as quotients.               *)
(***************************************************************************)
EXTENDS Integers, Sequences, FiniteSets, FiniteSetsExt, SequencesExt, Functions

CONSTANTS
    Deck,       \* the cards that may be dealt: all there are, but for the dead ones
    Questions   \* bound: what is asked of the evaluator and of Equity

VARIABLES
    asked       \* what is asked

Ace == 12
Suit == {c.suit : c \in Deck}

HandCategories == <<"high-card", "pair", "two-pair", "three-of-a-kind", "straight",
                "flush", "full-house", "four-of-a-kind", "straight-flush">>

RanksOf(cards) == {c.rank : c \in cards}
HowMany(cards, r) == Cardinality({c \in cards : c.rank = r})
Down(ranks) == SetToSortSeq(ranks, LAMBDA a, b : a > b)

\* A category and the ranks that break its ties, four bits apiece.
ScoreOf(hand) ==
    FoldLeft(LAMBDA score, k : 16 * score + (IF k \in DOMAIN hand[2] THEN hand[2][k] + 1 ELSE 0),
             (CHOOSE k \in DOMAIN HandCategories : HandCategories[k] = hand[1]) - 1,
             <<1, 2, 3, 4, 5>>)

----------------------------------------------------------------------------
(* bestHand: the best of every five cards.                                 *)

\* The ranks, the ones there are most of first, then the highest.
Groups(cards) ==
    SetToSortSeq(RanksOf(cards),
        LAMBDA a, b : \/ HowMany(cards, a) > HowMany(cards, b)
                      \/ HowMany(cards, a) = HowMany(cards, b) /\ a > b)

\* The rank a straight of five cards goes up to; -1 when they make none.
StraightTop(cards) ==
    LET ranks == RanksOf(cards) IN
    IF Cardinality(ranks) # 5 THEN -1
    ELSE IF Max(ranks) - Min(ranks) = 4 THEN Max(ranks)
    ELSE IF ranks = {Ace, 0, 1, 2, 3} THEN 3 ELSE -1

Evaluate(cards) ==
    LET groups == Groups(cards)
        big(k) == IF k \in DOMAIN groups THEN HowMany(cards, groups[k]) ELSE 0
        flush == Cardinality(cards) = 5 /\ \A c, d \in cards : c.suit = d.suit
        top == StraightTop(cards)
        category ==
            CASE top >= 0 -> IF flush THEN "straight-flush" ELSE "straight"
              [] top < 0 /\ big(1) = 4 -> "four-of-a-kind"
              [] top < 0 /\ big(1) = 3 /\ big(2) = 2 -> "full-house"
              [] top < 0 /\ big(1) < 3 /\ flush -> "flush"
              [] top < 0 /\ big(1) = 3 /\ big(2) < 2 -> "three-of-a-kind"
              [] top < 0 /\ big(1) = 2 /\ big(2) = 2 -> "two-pair"
              [] top < 0 /\ big(1) = 2 /\ big(2) < 2 -> "pair"
              [] OTHER -> "high-card"
    IN [category |-> category,
        score |-> ScoreOf(<<category, IF top >= 0 THEN <<top>> ELSE groups>>)]

BestHand(cards) ==
    LET fives == {Evaluate(five) : five \in kSubset(Min({5, Cardinality(cards)}), cards)} IN
    CHOOSE best \in fives : \A e \in fives : e.score <= best.score

----------------------------------------------------------------------------
(* strength: the same order as one number, from the counts.                *)

UpTo(ranks, n) == SubSeq(ranks, 1, Min({n, Len(ranks)}))
Highest(ranks, n, except) == UpTo(Down(ranks \ except), n)

\* The top of the highest straight among the ranks; an ace also plays low.
\* Bug: it only plays high.
StraightTopOf_AceHigh(ranks) ==
    LET tops == {t \in 4 .. Ace : (t - 4) .. t \subseteq ranks} IN
    IF tops = {} THEN -1 ELSE Max(tops)

StraightTopOf(ranks) ==
    LET low == IF Ace \in ranks THEN ranks \cup {-1} ELSE ranks
        tops == {t \in 3 .. Ace : (t - 4) .. t \subseteq low}
    IN IF tops = {} THEN -1 ELSE Max(tops)

\* From the ranks there are four, three and two of, the highest first, those of
\* a flush, and the tops of the straights; -1 for none.
Ranked(ranks, quads, trips, pairs, flush, straightFlush, straight) ==
    IF straightFlush >= 0 THEN <<"straight-flush", <<straightFlush>>>>
    ELSE IF quads # <<>> THEN <<"four-of-a-kind", <<quads[1]>> \o Highest(ranks, 1, {quads[1]})>>
    ELSE IF trips # <<>> /\ Len(trips) + Len(pairs) > 1 THEN
        <<"full-house", <<trips[1], Max(Range(Tail(trips) \o pairs))>>>>
    ELSE IF flush # {} THEN <<"flush", Highest(flush, 5, {})>>
    ELSE IF straight >= 0 THEN <<"straight", <<straight>>>>
    ELSE IF trips # <<>> THEN <<"three-of-a-kind", <<trips[1]>> \o Highest(ranks, 2, {trips[1]})>>
    ELSE IF Len(pairs) > 1 THEN
        <<"two-pair", SubSeq(pairs, 1, 2) \o Highest(ranks, 1, {pairs[1], pairs[2]})>>
    ELSE IF Len(pairs) = 1 THEN <<"pair", <<pairs[1]>> \o Highest(ranks, 3, {pairs[1]})>>
    ELSE <<"high-card", Highest(ranks, 5, {})>>

Strength(cards) ==
    LET ranks == RanksOf(cards)
        ofCount(n) == Down({r \in ranks : HowMany(cards, r) = n})
        flushes == {s \in Suit : Cardinality({c \in cards : c.suit = s}) >= 5}
        flush == RanksOf({c \in cards : c.suit \in flushes})
    IN ScoreOf(Ranked(ranks, ofCount(4), ofCount(3), ofCount(2), flush,
                      IF flush = {} THEN -1 ELSE StraightTopOf(flush), StraightTopOf(ranks)))

CategoryOf(strength) == HandCategories[(strength \div (16 * 16 * 16 * 16 * 16)) + 1]

----------------------------------------------------------------------------
(* Equity: a Range gives each of its Combos, two cards, a Frequency.       *)

HandClass(combo) ==
    [ranks |-> RanksOf(combo), suited |-> \A c, d \in combo : c.suit = d.suit]

\* The Combos of a Range that hold none of the cards out.
CombosOf(range, out) == {c \in DOMAIN range : range[c] > 0 /\ c \subseteq Deck \ out}

Outcome(mine, theirs, board) ==
    LET a == Strength(mine \cup board)
        b == Strength(theirs \cup board)
    IN IF a > b THEN "win" ELSE IF a < b THEN "loss" ELSE "tie"

\* The deals enumerate counts: pairs of Combos that can meet, on every board
\* they leave room for.
\* Bug: a Combo may meet one that shares a card with it.
Counted_Sharing(mine, theirs, board, deck) ==
    {<<a, b, board \cup completion>> :
        <<a, b, completion>> \in
            {d \in CombosOf(mine, board) \X CombosOf(theirs, board)
                     \X kSubset(5 - Cardinality(board), deck) :
                d[1] \cap d[3] = {} /\ d[2] \cap d[3] = {}}}

Counted(mine, theirs, board, deck) ==
    {<<a, b, board \cup completion>> :
        <<a, b, completion>> \in
            {d \in CombosOf(mine, board) \X CombosOf(theirs, board)
                     \X kSubset(5 - Cardinality(board), deck) :
                /\ d[1] \cap d[3] = {} /\ d[2] \cap d[3] = {}
                /\ d[1] \cap d[2] = {}}}

\* How much of these deals come out this way, each by the Frequency of both Combos.
Weight(deals, mine, theirs, outcome) ==
    FoldSet(LAMBDA d, sum : sum + mine[d[1]] * theirs[d[2]], 0,
                          {d \in deals : Outcome(d[1], d[2], d[3]) = outcome})

Tally(deals, mine, theirs) ==
    [o \in {"win", "tie", "loss"} |-> Weight(deals, mine, theirs, o)]

Equity(mine, theirs, board) ==
    LET deals == Counted(mine, theirs, board, Deck \ board)
        classes == {HandClass(c) : c \in CombosOf(mine, board)}
    IN [side |-> Tally(deals, mine, theirs),
        classes |-> [k \in classes |->
            Tally({d \in deals : HandClass(d[1]) = k}, mine, theirs)]]

\* The deals sample may draw: a Combo for each side, thrown back when they
\* share a card, then one card after another that nobody holds yet, each as
\* likely as the next.
Drawn(mine, theirs, board) ==
    LET pairs == {p \in CombosOf(mine, board) \X CombosOf(theirs, board) : p[1] \cap p[2] = {}} IN
    UNION {{<<p[1], p[2], board \cup rest>> :
              rest \in kSubset(5 - Cardinality(board), Deck \ (board \cup p[1] \cup p[2]))} :
              p \in pairs}

----------------------------------------------------------------------------
(* potShares: what a player can expect of each pot with the board to come, *)
(* in sixths of a board, so that a split three ways is a whole number.     *)

Whole == 6

PotShare(player, holes, board, contestants) ==
    LET known == board \cup UNION Range(holes)
        runouts == kSubset(5 - Cardinality(board), Deck \ known)
        strongest(runout, names) ==
            LET s(n) == Strength(holes[n] \cup board \cup runout) IN
            {n \in names : \A m \in names : s(m) <= s(n)}
        won(runout) ==
            LET best == strongest(runout, contestants) IN
            IF player \in best THEN Whole \div Cardinality(best) ELSE 0
    IN FoldSet(LAMBDA r, sum : sum + won(r), 0, runouts)

----------------------------------------------------------------------------
(* Questions: cards to name the hand of, or two Ranges and a board.        *)

PokerInit == asked \in Questions

(* Whatever cards a player has, strength gives the hand bestHand finds the *)
(* very rank it has among all the others: All-in EV and Equity rank hands  *)
(* by the first, what is shown on the table is named by the second         *)
(* (evaluator.ts).                                                         *)
StrengthIsBestHand ==
    asked.about = "cards" =>
        LET best == BestHand(asked.cards) IN
        /\ Strength(asked.cards) = best.score
        /\ CategoryOf(Strength(asked.cards)) = best.category

Swapped(tally) == [win |-> tally.loss, tie |-> tally.tie, loss |-> tally.win]
All(tally) == tally.win + tally.tie + tally.loss

(* What one side wins the other loses; the Hand Classes of a side add up   *)
(* to it; a pair of Combos has the deals that can happen and no others, so *)
(* that sampling them tends to the count of them all; and a Combo against  *)
(* a Combo takes what the share of a pot between the two says, which All-in*)
(* EV is worked out from (equity.ts, in packages/poker and in the server). *)
EquityAddsUp ==
    asked.about = "ranges" =>
        LET mine == asked.mine
            theirs == asked.theirs
            board == asked.board
            here == Equity(mine, theirs, board)
            there == Equity(theirs, mine, board)
            counted(a, b) == {d \in Counted(mine, theirs, board, Deck \ board) : d[1] = a /\ d[2] = b}
        IN /\ there.side = Swapped(here.side)
           /\ All(here.side) = FoldFunction(LAMBDA t, sum : sum + All(t), 0, here.classes)
           /\ \A a \in CombosOf(mine, board), b \in CombosOf(theirs, board) :
                LET each == Tally(counted(a, b), mine, theirs)
                    share == PotShare("mine", [mine |-> a, theirs |-> b], board, {"mine", "theirs"})
                IN /\ counted(a, b) = {d \in Drawn(mine, theirs, board) : d[1] = a /\ d[2] = b}
                   /\ a \cap b = {} =>
                        Whole * each.win + (Whole \div 2) * each.tie = share * mine[a] * theirs[b]

(* Hands are ranked one way, however they are asked about, and equity is    *)
(* counted from it: the two above together (evaluator.ts, equity.ts).      *)
PokerAgrees == StrengthIsBestHand /\ EquityAddsUp

=============================================================================
