----------------------------- MODULE RangeText -----------------------------
(***************************************************************************)
(* A Range as the Lab edits and writes it (lab/range.ts, RangeControls.tsx)*)
(* the brush over the matrix, the top of all Hand Classes, and the Range   *)
(* as text, to copy and to import.                                         *)
(*                                                                         *)
(* A rank is its place from the ace, 1, down; a text is its pieces, each   *)
(* already told apart: what it names, and the Frequency after its colon in *)
(* hundredths of what is written (0.5 is 50, 50 is 5000).                  *)
(***************************************************************************)
EXTENDS Absent, Integers, Sequences, FiniteSets, FiniteSetsExt, SequencesExt, Functions

CONSTANTS
    LastRank,     \* the lowest rank: 13 in the Lab
    Suits,        \* spades, hearts, diamonds, clubs, as numbers in the order they are listed
    ByEquity,     \* the Hand Classes from the strongest down
    Brushes,      \* bound: the Frequencies of the brush
    Pasted,       \* bound: the texts imported
    TopPercents,  \* bound: the shares of all Combos asked for
    MaxEdits      \* bound of the exploration

VARIABLES
    combos,   \* the Range on screen: a Frequency for each Combo it holds
    brush,    \* the Frequency it paints
    stroke,   \* [frequency, last]: the stroke under way, or None
    refused,  \* the last text imported was not understood
    edits     \* how many of the bound have been used

rangeVars == <<combos, brush, stroke, refused, edits>>

Ranks == 1 .. LastRank

----------------------------------------------------------------------------
(* The matrix.                                                             *)

HandClassKinds == {"pair", "suited", "offsuit"}
Class(high, low, kind) == [high |-> high, low |-> low, kind |-> kind]
HandClasses == {c \in [high : Ranks, low : Ranks, kind : HandClassKinds] :
                   IF c.kind = "pair" THEN c.high = c.low ELSE c.high < c.low}
CombosIn(c) ==
    {d \in [high : {c.high}, low : {c.low}, suits : Suits \X Suits] :
        CASE c.kind = "pair" -> d.suits[1] < d.suits[2]
          [] c.kind = "suited" -> d.suits[1] = d.suits[2]
          [] c.kind = "offsuit" -> d.suits[1] # d.suits[2]}
AllCombos == UNION {CombosIn(c) : c \in HandClasses}

FrequencyIn(range, combo) == IF combo \in DOMAIN range THEN range[combo] ELSE 0
FrequenciesOf(range, c) == {FrequencyIn(range, combo) : combo \in CombosIn(c)}
Mixed(range, c) == Cardinality(FrequenciesOf(range, c)) > 1
ClassFrequency(range, c) == CHOOSE f \in FrequenciesOf(range, c) : TRUE

WithCombos(range, held, frequency) ==
    IF frequency = 0 THEN Restrict(range, DOMAIN range \ held)
    ELSE [combo \in DOMAIN range \cup held |-> IF combo \in held THEN frequency ELSE range[combo]]
WithHandClass(range, c, frequency) == WithCombos(range, CombosIn(c), frequency)

EmptyRange == [combo \in {} |-> 0]

\* Whole Hand Classes, the strongest first, while each brings the total nearer.
TopRange(percent) ==
    LET target == percent * Cardinality(AllCombos)
        held(n) == 100 * FoldLeft(LAMBDA sum, c : sum + Cardinality(CombosIn(c)), 0, SubSeq(ByEquity, 1, n))
        gap(n) == IF held(n) > target THEN held(n) - target ELSE target - held(n)
        stop == Min({n \in 0 .. Len(ByEquity) : n = Len(ByEquity) \/ gap(n + 1) >= gap(n)})
    IN FoldLeft(LAMBDA range, c : WithHandClass(range, c, 100), EmptyRange, SubSeq(ByEquity, 1, stop))

----------------------------------------------------------------------------
(* Reading a text.                                                         *)

\* What is not understood.
Unknown == None
\* Two ranks in either order, of one kind or, unsaid, of both.
HandClassesNamed(first, second, kind) ==
    IF first = second THEN IF kind = "any" THEN <<Class(first, first, "pair")>> ELSE Unknown
    ELSE LET high == Min({first, second})
             low == Max({first, second})
         IN IF kind = "any" THEN <<Class(high, low, "suited"), Class(high, low, "offsuit")>>
            ELSE <<Class(high, low, kind)>>
RanksBetween(first, second) ==
    LET from == Min({first, second}) IN [k \in 1 .. (Max({first, second}) - from + 1) |-> from + k - 1]
PairsBetween(first, second) == LET ranks == RanksBetween(first, second) IN [k \in DOMAIN ranks |-> Class(ranks[k], ranks[k], "pair")]
Kickers(high, ranks, kind) == FlattenSeq([k \in DOMAIN ranks |-> HandClassesNamed(high, ranks[k], kind)])

HandClassesOf(piece) ==
    CASE piece.form = "one" -> HandClassesNamed(piece.high, piece.low, piece.kind)
      [] piece.form = "above" ->
            IF piece.high = piece.low
            THEN IF piece.kind = "any" THEN PairsBetween(1, piece.high) ELSE Unknown
            ELSE IF piece.high > piece.low THEN Unknown
            ELSE Kickers(piece.high, RanksBetween(piece.high + 1, piece.low), piece.kind)
      [] piece.form = "run" ->
            LET kickers == RanksBetween(piece.low, piece.other.low) IN
            IF piece.high = piece.low /\ piece.other.high = piece.other.low /\ piece.kind = "any" /\ piece.other.kind = "any"
            THEN PairsBetween(piece.high, piece.other.high)
            ELSE IF piece.high # piece.other.high \/ piece.kind # piece.other.kind \/ kickers[1] <= piece.high THEN Unknown
            ELSE Kickers(piece.high, kickers, piece.kind)
      [] OTHER -> Unknown

Rounded(hundredths) == (hundredths + 50) \div 100
\* A fraction up to 1, or a percentage above it.
FrequencyOf(written) ==
    IF written > 10000 THEN Unknown ELSE IF written <= 100 THEN written ELSE Rounded(written)

\* Inside a block its percentage stands for each piece, which carries none.
FrequencyRead(piece) ==
    IF piece.block # None
    THEN IF piece.block > 10000 \/ piece.frequency # None THEN Unknown ELSE Rounded(piece.block)
    ELSE IF piece.frequency = None THEN 100 ELSE FrequencyOf(piece.frequency)

\* One exact Combo, its two cards in either order.
ComboRead(piece) ==
    LET swapped == [high |-> piece.low, low |-> piece.high, suits |-> <<piece.suits[2], piece.suits[1]>>]
        given == [high |-> piece.high, low |-> piece.low, suits |-> piece.suits]
    IN IF given \in AllCombos THEN {given} ELSE IF swapped \in AllCombos THEN {swapped} ELSE Unknown

HeldBy(piece) ==
    IF piece.form = "combo" THEN ComboRead(piece)
    ELSE LET classes == HandClassesOf(piece) IN
         IF classes = Unknown THEN Unknown ELSE UNION {CombosIn(c) : c \in ToSet(classes)}

\* Pieces apply in order; any one not understood refuses the whole text.
ParseRange(text) ==
    FoldLeft(LAMBDA range, piece :
                IF range = Unknown \/ FrequencyRead(piece) = Unknown \/ HeldBy(piece) = Unknown THEN Unknown
                ELSE WithCombos(range, HeldBy(piece), FrequencyRead(piece)),
             EmptyRange, text)

----------------------------------------------------------------------------
(* Writing one.                                                            *)

Suffix(frequency) == IF frequency = 100 THEN None ELSE frequency
Piece(form, c, other, frequency) ==
    [form |-> form, high |-> c.high, low |-> c.low, kind |-> IF c.kind = "pair" THEN "any" ELSE c.kind,
     other |-> [high |-> other.high, low |-> other.low, kind |-> IF other.kind = "pair" THEN "any" ELSE other.kind],
     block |-> None, frequency |-> Suffix(frequency)]

\* Bug: a run below the top of its line is written as one from the top.
Run_FromTop(line, first, last, frequency) ==
    IF first = last THEN Piece("one", line[first], line[first], frequency)
    ELSE Piece("above", line[last], line[last], frequency)

Run(line, first, last, frequency) ==
    IF first = last THEN Piece("one", line[first], line[first], frequency)
    ELSE IF first = 1 THEN Piece("above", line[last], line[last], frequency)
    ELSE Piece("run", line[first], line[last], frequency)

\* The runs of one Frequency along a line of the matrix, Mixed classes left out.
LinePieces(line, range) ==
    LET same(j, k) == /\ ~Mixed(range, line[j]) /\ ~Mixed(range, line[k])
                      /\ ClassFrequency(range, line[j]) = ClassFrequency(range, line[k])
        starts == {k \in DOMAIN line : ~Mixed(range, line[k]) /\ ClassFrequency(range, line[k]) > 0
                                        /\ (k > 1 => ~same(k - 1, k))}
        end(k) == Max({j \in k .. Len(line) : \A i \in (k + 1) .. j : same(i - 1, i)})
    IN [i \in 1 .. Cardinality(starts) |->
            LET k == SetToSortSeq(starts, <)[i] IN Run(line, k, end(k), ClassFrequency(range, line[k]))]

Line(high, kind) == [k \in 1 .. (LastRank - high) |-> Class(high, high + k, kind)]
MatrixLines == <<[k \in Ranks |-> Class(k, k, "pair")]>>
             \o [high \in 1 .. (LastRank - 1) |-> Line(high, "suited")]
             \o [high \in 1 .. (LastRank - 1) |-> Line(high, "offsuit")]

FormatRange(range) ==
    LET left == SetToSeq({combo \in DOMAIN range : \E c \in HandClasses : combo \in CombosIn(c) /\ Mixed(range, c)})
    IN FlattenSeq([k \in DOMAIN MatrixLines |-> LinePieces(MatrixLines[k], range)])
       \o [k \in DOMAIN left |-> left[k] @@ [form |-> "combo", block |-> None, frequency |-> Suffix(range[left[k]])]]

----------------------------------------------------------------------------
(* Editing.                                                                *)

EditOnce == edits < MaxEdits /\ edits' = edits + 1

SetBrush ==
    /\ EditOnce
    /\ \E f \in Brushes \ {brush} : brush' = f
    /\ UNCHANGED <<combos, stroke, refused>>

\* A class already at the brush's Frequency is taken out; a mixed one is painted.
StrokeFrequency(c) ==
    IF ~Mixed(combos, c) /\ ClassFrequency(combos, c) = brush THEN 0 ELSE brush

PaintClass(c, frequency) == combos' = WithHandClass(combos, c, frequency) /\ UNCHANGED <<brush, refused>>

Press(c) ==
    /\ EditOnce /\ stroke = None
    /\ PaintClass(c, StrokeFrequency(c))
    /\ stroke' = [frequency |-> StrokeFrequency(c), last |-> c]

\* A tap, or a key, paints its one class.
Tap(c) == EditOnce /\ stroke = None /\ PaintClass(c, StrokeFrequency(c)) /\ UNCHANGED stroke

\* The pointer walked onto another class.
Cross(c) ==
    /\ EditOnce /\ stroke # None /\ c # stroke.last
    /\ PaintClass(c, stroke.frequency)
    /\ stroke' = [stroke EXCEPT !.last = c]

Release == stroke # None /\ stroke' = None /\ UNCHANGED <<combos, brush, refused, edits>>

ImportPasted(text) ==
    /\ EditOnce
    /\ LET read == ParseRange(text) IN
       IF read = Unknown THEN refused' = TRUE /\ UNCHANGED combos
       ELSE combos' = read /\ refused' = FALSE
    /\ UNCHANGED <<brush, stroke>>

SetTopPercent(percent) ==
    /\ EditOnce /\ combos' = TopRange(percent)
    /\ UNCHANGED <<brush, stroke, refused>>

RangeInit == combos = EmptyRange /\ brush = 100 /\ stroke = None /\ refused = FALSE /\ edits = 0

RangeNext ==
    \/ SetBrush \/ Release
    \/ \E c \in HandClasses : Press(c) \/ Tap(c) \/ Cross(c)
    \/ \E text \in Pasted : ImportPasted(text)
    \/ \E percent \in TopPercents : SetTopPercent(percent)

----------------------------------------------------------------------------
(* Whatever is painted, imported or asked for, the text the Lab writes of  *)
(* the Range, runs shortened and mixed Hand Classes Combo by Combo, is     *)
(* read back as the very same Range (lab/range.ts, formatRange).           *)
TextGivesItBack == combos # None => ParseRange(FormatRange(combos)) = combos
=============================================================================
