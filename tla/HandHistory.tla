----------------------------- MODULE HandHistory ----------------------------
(***************************************************************************)
(* Hand History text, and the Hands an import reads from it (hands/import: *)
(* upload.ts, import.ts, stars-layout.ts, reading.ts, coinpoker.ts and the *)
(* headers of pokerstars.ts, ggpoker.ts, winamax.ts).                      *)
(*                                                                         *)
(* What a Poker Site writes of a Hand is taken from the repository's       *)
(* fixtures, for the Hands played in PokerTable. A text is its blocks, the *)
(* runs of lines with no blank line inside; a block is its header, its     *)
(* table line and the lines after, each a record of what it says. An       *)
(* Amount or a card that cannot be read is a line not `readable`. A Screen *)
(* Name is its syllables: one may begin another. Cards, dates and          *)
(* currencies are left out, and so are the encodings of a file.            *)
(***************************************************************************)
EXTENDS PokerTable, TLC

CONSTANTS
    ScreenNames,    \* what each seat is called
    MaxText         \* MAX_TEXT_BYTES

MaxSeats == 9

----------------------------------------------------------------------------
(* Written by the Poker Sites.                                             *)

PokerSites == <<"pokerstars", "ggpoker", "winamax", "coinpoker">>

Absentee == MaxSeats      \* sits at the table, and is dealt no cards
HeroSeat == Min(Chair)

Marker(name, cards) == [is |-> "marker", name |-> name, cards |-> cards]
SeatLine(p, stack, out) == [is |-> "seat", seat |-> p, who |-> ScreenNames[p], stack |-> stack, out |-> out]
DealtTo(p, cards) == [is |-> "dealt", who |-> ScreenNames[p], cards |-> cards]
Says(p, verb, kind, amount, to, allIn) ==
    [is |-> "says", who |-> ScreenNames[p], verb |-> verb, kind |-> kind, amount |-> amount, to |-> to, allIn |-> allIn,
     readable |-> TRUE]

SeatLines(site) ==
    LET inOrder == SetToSortSeq(Chair, LAMBDA p, q : IF site = "coinpoker" THEN p > q ELSE p < q)
    IN  <<SeatLine(Absentee, 5, TRUE)>> \o [k \in DOMAIN inOrder |-> SeatLine(inOrder[k], hand.stacks[inOrder[k]], FALSE)]

\* CoinPoker straddles once the cards are dealt, and says so in its own way,
\* as it does of whoever posts a big blind to come in.
PostLine(site, k) ==
    LET post == hand.posts[k]
        later == post.kind = "big-blind" /\ \E j \in 1 .. (k - 1) : hand.posts[j].kind = "big-blind"
    IN  IF site = "coinpoker" /\ post.kind = "straddle" THEN Says(post.who, "STRADDLE", None, post.amount, 0, FALSE)
        ELSE IF site = "coinpoker" /\ later THEN Says(post.who, "posts", "auto-big-blind", post.amount, 0, FALSE)
        ELSE Says(post.who, "posts", post.kind, post.amount, 0, FALSE)
PostLines(site, straddles) ==
    LET chosen == SelectSeq([k \in DOMAIN hand.posts |-> k], LAMBDA k : (hand.posts[k].kind = "straddle") = straddles)
    IN  [k \in DOMAIN chosen |-> PostLine(site, chosen[k])]

HoleCards(site) ==
    LET others == SetToSortSeq(IF site \in {"ggpoker", "coinpoker"} THEN Chair \ {HeroSeat} ELSE {}, <)
        dealt == [k \in DOMAIN others |-> DealtTo(others[k], FALSE)] \o <<DealtTo(HeroSeat, TRUE)>>
    IN  CASE site = "winamax" ->
                <<Marker("ANTE/BLINDS", 0)>> \o PostLines(site, FALSE) \o PostLines(site, TRUE) \o dealt \o <<Marker("PRE-FLOP", 0)>>
          [] site = "coinpoker" -> PostLines(site, FALSE) \o <<Marker("HOLE CARDS", 0)>> \o dealt \o PostLines(site, TRUE)
          [] OTHER -> PostLines(site, FALSE) \o PostLines(site, TRUE) \o <<Marker("HOLE CARDS", 0)>> \o dealt

\* What an Action put in, and whether it was all they had.
PutIn(k) == LET a == hand.actions[k] IN IF a.type = "raise" THEN a.to - was[k].bet[a.who] ELSE a.amount
AllInAt(k) == hand.actions[k].type \in {"call", "bet", "raise"} /\ PutIn(k) = was[k].stack[hand.actions[k].who]

VerbOf(type) == CASE type = "fold" -> "folds" [] type = "check" -> "checks" [] type = "call" -> "calls"
                  [] type = "bet" -> "bets" [] type = "raise" -> "raises"
ActionLine(site, k) ==
    LET a == hand.actions[k] IN
    IF site = "coinpoker" /\ AllInAt(k) THEN Says(a.who, "ALLIN", None, PutIn(k), 0, FALSE)
    ELSE Says(a.who, VerbOf(a.type), None, a.amount, a.to, AllInAt(k))
StreetLines(site, street) ==
    LET acts == SelectSeq([k \in DOMAIN hand.actions |-> k], LAMBDA k : hand.actions[k].street = street)
        lines == [k \in DOMAIN acts |-> ActionLine(site, acts[k])]
        out == BoardSize(street) - (IF street = "flop" THEN 0 ELSE BoardSize(Streets[Nth(street) - 1]))
    IN  IF street = "preflop" THEN lines
        ELSE IF BoardSize(street) > hand.board THEN <<>>
        ELSE <<Marker(street, out)>> \o lines

\* Winamax has no line for a bet nobody matched.
ReturnLines(site) ==
    LET line(back) == IF site = "coinpoker" THEN Says(back.who, "RETURN", None, back.amount, 0, FALSE)
                      ELSE [is |-> "uncalled", who |-> ScreenNames[back.who], amount |-> back.amount]
    IN  IF site = "winamax" THEN <<>> ELSE [k \in DOMAIN hand.returned |-> line(hand.returned[k])]

\* GGPoker and CoinPoker mark a Showdown in every Hand.
Shows(site) == SetToSortSeq(IF hand.showdown \/ site = "ggpoker" THEN Playing ELSE {}, <)
Numbered(pots) == pots > 2
CollectedLines ==
    LET pots == 1 + Max({IF c.pot = None THEN 0 ELSE c.pot : c \in Range(hand.collected)})
        line(c) == [is |-> "collected", who |-> ScreenNames[c.who], amount |-> c.amount,
                    from |-> IF c.pot = None THEN "pot" ELSE IF c.pot = 0 THEN "main" ELSE "side",
                    number |-> IF c.pot = None \/ ~Numbered(pots) THEN None ELSE c.pot]
    IN  [k \in DOMAIN hand.collected |-> line(hand.collected[k])]
ShowdownLines(site) ==
    (IF hand.showdown \/ site \in {"ggpoker", "coinpoker"}
     THEN <<Marker(IF site \in {"ggpoker", "coinpoker"} THEN "SHOWDOWN" ELSE "SHOW DOWN", 0)>> ELSE <<>>)
    \o [k \in DOMAIN Shows(site) |-> Says(Shows(site)[k], "shows", None, 0, 0, FALSE)] \o CollectedLines

\* GGPoker takes a Fee of its own; a seat is summed up in a line much like the seat's.
TakesFee(site) == site = "ggpoker"
SummaryLines(site) ==
    <<Marker("SUMMARY", 0),
      [is |-> "total", taken |-> <<[kind |-> "Rake", amount |-> IF TakesFee(site) THEN 0 ELSE hand.rake],
                                   [kind |-> "Jackpot", amount |-> IF TakesFee(site) THEN hand.rake ELSE 0]>>],
      [is |-> "run", times |-> 1], SeatLine(HeroSeat, None, FALSE)>>

Block(site) ==
    [layout |-> site, game |-> "cash", table |-> [readable |-> TRUE, size |-> MaxSeats, money |-> "real", button |-> hand.button],
     lines |-> SeatLines(site) \o HoleCards(site)
                \o (IF site = "coinpoker" /\ hand.splash > 0 THEN <<[is |-> "splash", amount |-> hand.splash]>> ELSE <<>>)
                \o StreetLines(site, "preflop") \o StreetLines(site, "flop") \o StreetLines(site, "turn") \o StreetLines(site, "river")
                \o ReturnLines(site) \o ShowdownLines(site) \o SummaryLines(site)]

----------------------------------------------------------------------------
(* Read (stars-layout.ts, reading.ts). What cannot be read makes the whole *)
(* Hand malformed.                                                         *)

Unread(reason) == [reason |-> reason, hand |-> None]
ReadAs(read) == [reason |-> None, hand |-> read]

\* Everything up to the first marker.
BeforeMarkers(lines) ==
    LET markers == {k \in DOMAIN lines : lines[k].is = "marker"}
    IN  IF markers = {} THEN lines ELSE SubSeq(lines, 1, Min(markers) - 1)
ReadSeats(lines) ==
    LET taken == SelectSeq(BeforeMarkers(lines), LAMBDA line : line.is = "seat")
        seat(line) == [seat |-> line.seat, who |-> line.who, stack |-> line.stack, out |-> line.out]
    IN  SortSeq([k \in DOMAIN taken |-> seat(taken[k])], LAMBDA s, t : s.seat < t.seat)

\* Others are dealt to as well, without cards.
ReadHero(lines) == SelectSeq(lines, LAMBDA line : line.is = "dealt" /\ line.cards)

\* Whose line it is: longest first, so a name that begins another can't steal its lines.
\* Bug: in the order they sit.
LongestFirst_Seated(names) == names
LongestFirst(names) == SortSeq(names, LAMBDA m, n : Len(m) > Len(n))
OwnerOf(line, names) ==
    LET candidates == SelectSeq(LongestFirst(names), LAMBDA name : IsPrefix(name, line.who))
    IN  IF candidates = <<>> THEN None ELSE candidates[1]

PostKinds == {"small-blind", "big-blind", "small-and-big-blinds", "straddle", "ante"}
PreflopMarkers == {"HOLE CARDS", "ANTE/BLINDS", "PRE-FLOP"}
TypeOf == [folds |-> "fold", checks |-> "check", calls |-> "call", bets |-> "bet", raises |-> "raise"]

NothingRead ==
    [posts |-> <<>>, actions |-> <<>>, board |-> 0, returned |-> <<>>, shown |-> <<>>, collected |-> <<>>, rake |-> 0, fees |-> 0,
     street |-> "preflop", inSummary |-> FALSE, showdownMarker |-> FALSE, malformed |-> FALSE]
Malformed(r) == [r EXCEPT !.malformed = TRUE]

AtMarker(r, line) ==
    CASE line.name = "SUMMARY" -> [r EXCEPT !.inSummary = TRUE]
      [] line.name \in {"SHOW DOWN", "SHOWDOWN"} -> [r EXCEPT !.showdownMarker = TRUE]
      [] line.name \in {"flop", "turn", "river"} ->
            IF line.cards = 0 THEN Malformed(r) ELSE [r EXCEPT !.street = line.name, !.board = @ + line.cards]
      [] OTHER -> IF line.name \in PreflopMarkers THEN r ELSE Malformed(r)

\* The Rake, and the Fees added together.
Itemised(r, taken) ==
    FoldLeft(LAMBDA q, t : IF t.kind = "Rake" THEN [q EXCEPT !.rake = @ + t.amount] ELSE [q EXCEPT !.fees = @ + t.amount], r, taken)

ActionRead(r, line) ==
    [street |-> r.street, who |-> line.who, type |-> TypeOf[line.verb], amount |-> line.amount, to |-> line.to, allIn |-> line.allIn]

\* What looks like an Action and is not one that can be read is not skipped.
AtStatement(r, line) ==
    CASE line.verb = "posts" ->
            IF line.kind \notin PostKinds \/ ~line.readable THEN Malformed(r)
            ELSE [r EXCEPT !.posts = Append(@, [who |-> line.who, kind |-> line.kind, amount |-> line.amount])]
      [] line.verb = "shows" -> IF line.readable THEN [r EXCEPT !.shown = Append(@, line.who)] ELSE Malformed(r)
      [] line.verb \in DOMAIN TypeOf ->
            IF line.readable THEN [r EXCEPT !.actions = Append(@, ActionRead(r, line))] ELSE Malformed(r)
      [] OTHER -> r

CollectedRead(line) ==
    [who |-> line.who, amount |-> line.amount,
     pot |-> IF line.from # "side" THEN 0 ELSE IF line.number = None THEN 1 ELSE line.number]

AtLine(r, line, names) ==
    CASE line.is = "marker" -> AtMarker(r, line)
      [] r.inSummary -> IF line.is = "total" THEN Itemised(r, line.taken) ELSE r
      [] line.is = "uncalled" -> [r EXCEPT !.returned = Append(@, [who |-> line.who, amount |-> line.amount])]
      [] line.is \in {"says", "collected"} ->
            IF OwnerOf(line, names) # line.who THEN r
            ELSE IF line.is = "collected" THEN [r EXCEPT !.collected = Append(@, CollectedRead(line))]
            ELSE AtStatement(r, line)
      [] OTHER -> r

\* Who took part and never folded.
StillIn(r) ==
    ({p.who : p \in Range(r.posts)} \cup {a.who : a \in Range(r.actions)}) \ {a.who : a \in {b \in Range(r.actions) : b.type = "fold"}}
ReadPlay(lines, names) == FoldLeft(LAMBDA r, line : AtLine(r, line, names), NothingRead, lines)

\* For layouts that don't print them: on each Street whoever put in the most gets back what the next
\* biggest bet didn't cover.
BetsOn(street, r) ==
    LET players == {p.who : p \in Range(r.posts)} \cup {a.who : a \in Range(r.actions)}
        posted == IF street # "preflop" THEN [p \in players |-> 0]
                  ELSE FoldLeft(LAMBDA bets, post : [bets EXCEPT ![post.who] = @ + Live(post)], [p \in players |-> 0], r.posts)
        next(bets, a) == IF a.type \in {"call", "bet"} THEN [bets EXCEPT ![a.who] = @ + a.amount]
                         ELSE IF a.type = "raise" THEN [bets EXCEPT ![a.who] = a.to] ELSE bets
    IN  FoldLeft(next, posted, SelectSeq(r.actions, LAMBDA a : a.street = street))
UncalledOn(street, r) ==
    LET bets == BetsOn(street, r)
        most == {p \in DOMAIN bets : bets[p] = Max(Range(bets))}
        second == Max({0} \cup {bets[p] : p \in DOMAIN bets \ most})
    IN  IF Cardinality(most) = 1 THEN {[who |-> p, amount |-> bets[p] - second] : p \in most} ELSE {}
UncalledBets(r) ==
    FoldLeft(LAMBDA all, street : all \o SetToSeq(UncalledOn(street, r)), <<>>, Streets)

HandRead(seats, heroes, play, layout, site) ==
    CASE layout.size > MaxSeats \/ Len(seats) > MaxSeats -> Unread("too-many-seats")
      [] seats = <<>> -> Unread("malformed")
      [] heroes = <<>> -> Unread("no-hero")
      [] play.malformed -> Unread("malformed")
      [] OTHER -> ReadAs(
            [site |-> site, tableSize |-> layout.size, button |-> layout.button, seats |-> seats, hero |-> heroes[1].who,
             posts |-> play.posts, actions |-> play.actions, board |-> play.board,
             returned |-> IF play.returned # <<>> THEN play.returned ELSE UncalledBets(play),
             showdown |-> play.showdownMarker /\ Cardinality(StillIn(play)) >= 2, shown |-> play.shown,
             collected |-> play.collected, rake |-> play.rake, fees |-> play.fees, splash |-> 0])
ReadHand(lines, layout, site) ==
    LET play(seats) == ReadPlay(lines, [k \in DOMAIN seats |-> seats[k].who])
        read(seats) == HandRead(seats, ReadHero(lines), play(seats), layout, site)
    IN  read(ReadSeats(lines))

----------------------------------------------------------------------------
(* CoinPoker's own lines, written the way PokerStars writes them. An ALLIN *)
(* gives only the chips added: what it is follows from the bets already on *)
(* the Street.                                                             *)

NoBets == [name \in Range(ScreenNames) |-> 0]
Rewritten(line, verb, amount, to) ==
    [line EXCEPT !.verb = verb, !.amount = amount, !.to = to, !.allIn = TRUE]

\* One line: the bets after it, and what is written of it.
Restated(bets, line) ==
    LET name == line.who
        facing == Max(Range(bets))
        to == bets[name] + line.amount
        onto == [bets EXCEPT ![name] = to]
        states(after, written) == [bets |-> after, line |-> written]
    IN  CASE line.verb = "ALLIN" ->
                states(onto, IF facing = 0 THEN Rewritten(line, "bets", line.amount, 0)
                             ELSE IF to <= facing THEN Rewritten(line, "calls", line.amount, 0)
                             ELSE Rewritten(line, "raises", to - facing, to))
          [] line.verb = "RETURN" -> states(bets, [is |-> "uncalled", who |-> name, amount |-> line.amount])
          [] line.verb = "STRADDLE" -> states(onto, [line EXCEPT !.verb = "posts", !.kind = "straddle"])
          [] line.verb = "posts" -> states(onto, IF line.kind = "auto-big-blind" THEN [line EXCEPT !.kind = "big-blind"] ELSE line)
          [] line.verb \in {"calls", "bets"} -> states(onto, line)
          [] line.verb = "raises" -> states([bets EXCEPT ![name] = line.to], line)
          [] OTHER -> states(bets, line)

AsPokerStars(lines) ==
    LET next(r, line) ==
            CASE line.is = "splash" -> r
              [] line.is = "says" ->
                    LET restated == Restated(r.bets, line) IN [bets |-> restated.bets, lines |-> Append(r.lines, restated.line)]
              [] OTHER -> [bets |-> IF line.is = "marker" /\ line.name \in {"flop", "turn", "river"} THEN NoBets ELSE r.bets,
                           lines |-> Append(r.lines, line)]
    IN  FoldLeft(next, [bets |-> NoBets, lines |-> <<>>], lines).lines

Splash(lines) == FoldLeft(LAMBDA sum, line : sum + (IF line.is = "splash" THEN line.amount ELSE 0), 0, lines)
RunAgain(lines) == \E k \in DOMAIN lines : lines[k].is = "run" /\ lines[k].times > 1

----------------------------------------------------------------------------
(* The layouts, each with a header of its own.                             *)

UnreadGame(block) == IF block.game = "garbled" THEN "malformed" ELSE "not-cash-holdem"
HeaderFault(block, format) ==
    CASE block.layout # format -> "malformed"
      [] block.game # "cash" -> UnreadGame(block)
      [] ~block.table.readable -> "malformed"
      [] OTHER -> None

PokerStarsFault(block) == HeaderFault(block, "pokerstars")
GGPokerFault(block) == HeaderFault(block, "ggpoker")
\* Not with play money.
WinamaxFault(block) ==
    IF HeaderFault(block, "winamax") = None /\ block.table.money # "real" THEN "not-cash-holdem" ELSE HeaderFault(block, "winamax")
\* Not with its board run more than once.
CoinPokerFault(block) ==
    IF HeaderFault(block, "coinpoker") = None /\ RunAgain(block.lines) THEN "run-it-twice" ELSE HeaderFault(block, "coinpoker")

FaultOf(block, format) ==
    CASE format = "pokerstars" -> PokerStarsFault(block) [] format = "ggpoker" -> GGPokerFault(block)
      [] format = "winamax" -> WinamaxFault(block) [] format = "coinpoker" -> CoinPokerFault(block)
WrittenLines(block, format) == IF format = "coinpoker" THEN AsPokerStars(block.lines) ELSE block.lines
Splashed(read, block) == IF read.reason = None THEN ReadAs([read.hand EXCEPT !.splash = Splash(block.lines)]) ELSE read
Parse(block, format) ==
    IF FaultOf(block, format) # None THEN Unread(FaultOf(block, format))
    ELSE Splashed(ReadHand(WrittenLines(block, format), block.table, format), block)

----------------------------------------------------------------------------
(* A text: each block's format is detected on its own, unless one was      *)
(* picked (import.ts); and a file, zipped or not (upload.ts).              *)

Detected(block) == IF block.layout \in Range(PokerSites) THEN block.layout ELSE None

\* Consecutive pieces that aren't Hands are one discarded entry, not many.
Flushed(r) ==
    IF r.unrecognised = None THEN r
    ELSE [r EXCEPT !.discarded = Append(@, [from |-> r.unrecognised[1], to |-> r.unrecognised[2], reason |-> "unrecognised-format"]),
                   !.unrecognised = None]
Extended(r, k) == [r EXCEPT !.unrecognised = IF @ = None THEN <<k, k>> ELSE <<@[1], k>>]
BlockRead(r, k, format, parsed) ==
    LET flushed == [Flushed(r) EXCEPT !.detected = Append(@, format)] IN
    IF parsed.reason = None THEN [flushed EXCEPT !.hands = Append(@, parsed.hand), !.texts = Append(@, k)]
    ELSE [flushed EXCEPT !.discarded = Append(@, [from |-> k, to |-> k, reason |-> parsed.reason])]

\* The one most Hands were detected in, the first of them.
MostDetected(detected) ==
    LET times(format) == Cardinality({k \in DOMAIN detected : detected[k] = format})
        most == {k \in DOMAIN detected : \A j \in DOMAIN detected : times(detected[j]) <= times(detected[k])}
    IN  IF most = {} THEN None ELSE detected[Min(most)]

ImportHandHistory(text, picked) ==
    LET next(r, k) ==
            LET format == IF picked # None THEN picked ELSE Detected(text[k])
            IN  IF format = None THEN Extended(r, k) ELSE BlockRead(r, k, format, Parse(text[k], format))
        start == [hands |-> <<>>, texts |-> <<>>, discarded |-> <<>>, detected |-> <<>>, unrecognised |-> None]
        all == Flushed(FoldLeft(next, start, [k \in DOMAIN text |-> k]))
    IN  [format |-> IF picked # None THEN picked ELSE MostDetected(all.detected),
         hands |-> all.hands, texts |-> all.texts, discarded |-> all.discarded]

\* A text as is, or every Hand History inside a zip, in order, a blank line between; both what a zip
\* declares and what it unpacks to are limited.
ReadUpload(upload) ==
    LET entries == SelectSeq(upload.entries, LAMBDA entry : entry.history)
        total(sizes) == FoldLeft(+, 0, sizes)
        text == FoldLeft(LAMBDA all, entry : all \o entry.text, <<>>, entries)
    IN  IF ~upload.zip THEN [refused |-> None, text |-> upload.entries[1].text]
        ELSE IF ~upload.sound THEN [refused |-> "not-a-zip", text |-> <<>>]
        ELSE IF \/ total([k \in DOMAIN entries |-> entries[k].declared]) > MaxText
                \/ total([k \in DOMAIN entries |-> entries[k].unpacked]) > MaxText THEN [refused |-> "too-large", text |-> <<>>]
        ELSE [refused |-> None, text |-> text]

----------------------------------------------------------------------------
(* What an import should read of the Hand played.                          *)
AsPlayed(site) ==
    LET seats == SetToSortSeq(Chair, <)
        name(p) == ScreenNames[p]
        seat(p) == [seat |-> p, who |-> name(p), stack |-> hand.stacks[p], out |-> FALSE]
        named(records) == [k \in DOMAIN records |-> [records[k] EXCEPT !.who = name(@)]]
    IN  [site |-> site, tableSize |-> MaxSeats, button |-> hand.button,
         seats |-> [k \in DOMAIN seats |-> seat(seats[k])]
                    \o <<[seat |-> Absentee, who |-> name(Absentee), stack |-> 5, out |-> TRUE]>>,
         hero |-> name(HeroSeat), posts |-> named(hand.posts),
         actions |-> named([k \in DOMAIN hand.actions |-> hand.actions[k] @@ [allIn |-> AllInAt(k)]]),
         board |-> hand.board, returned |-> named(hand.returned), showdown |-> hand.showdown,
         shown |-> [k \in DOMAIN Shows(site) |-> name(Shows(site)[k])],
         collected |-> named([k \in DOMAIN hand.collected |-> [hand.collected[k] EXCEPT !.pot = IF @ = None THEN 0 ELSE @]]),
         rake |-> IF TakesFee(site) THEN 0 ELSE hand.rake, fees |-> IF TakesFee(site) THEN hand.rake ELSE 0,
         splash |-> IF site = "coinpoker" THEN hand.splash ELSE 0]

JustRecorded == hand # None /\ Recorded /\ replay = <<>>
ReadBack(site, block) == Parse(block, site) = ReadAs(AsPlayed(site))
DeadPosts == \E k \in DOMAIN hand.posts : Live(hand.posts[k]) < hand.posts[k].amount
PreflopAllIn == \E k \in DOMAIN hand.actions : hand.actions[k].street = "preflop" /\ AllInAt(k)

\* What is wrong with a block, and what is said of it.
Faults(site, block) ==
    LET without(kind) == SelectSeq(block.lines, LAMBDA line : line.is # kind)
        also(line) == [block EXCEPT !.lines = SubSeq(@, 1, Len(@) - 4) \o <<line>> \o SubSeq(@, Len(@) - 3, Len(@))]
        act == Says(HeroSeat, "raises", None, 1, 2, FALSE)
    IN  <<<<[block EXCEPT !.game = "tournament"], "not-cash-holdem">>, <<[block EXCEPT !.game = "garbled"], "malformed">>,
          <<[block EXCEPT !.table.readable = FALSE], "malformed">>, <<[block EXCEPT !.table.size = 10], "too-many-seats">>,
          <<[block EXCEPT !.lines = without("seat")], "malformed">>, <<[block EXCEPT !.lines = without("dealt")], "no-hero">>,
          <<also(Marker("SECOND FLOP", 3)), "malformed">>, <<also([act EXCEPT !.readable = FALSE]), "malformed">>>>
        \o (IF site = "winamax" THEN <<<<[block EXCEPT !.table.money = "play"], "not-cash-holdem">>>> ELSE <<>>)
        \o (IF site = "coinpoker" THEN <<<<also([is |-> "run", times |-> 2]), "run-it-twice">>>> ELSE <<>>)

Noise == [layout |-> "none", game |-> "garbled", table |-> None, lines |-> <<>>]

\* A zip of two files with Hands, faulty ones and pieces of other text, and a copy macOS adds.
Upload(block, faults) ==
    LET entry(history, text) == [history |-> history, declared |-> 1, unpacked |-> 1, text |-> text]
        faulty == [k \in DOMAIN faults |-> faults[k][1]]
    IN  [zip |-> TRUE, sound |-> TRUE,
         entries |-> <<entry(TRUE, <<Noise, Noise, block>> \o faulty \o <<Noise>>), entry(FALSE, <<block>>),
                       entry(TRUE, <<Noise, block>>)>>]

\* What is read of it, its format detected, picked, or picked wrongly.
ReadWhole(site, other, faults, alone, imported) ==
    LET n == Len(faults)
        entry(from, to, reason) == [from |-> from, to |-> to, reason |-> reason]
        faulty == [k \in 1 .. n |-> entry(k + 3, k + 3, faults[k][2])]
    IN  /\ imported[None] = [format |-> site, hands |-> <<alone, alone>>, texts |-> <<3, n + 6>>,
                             discarded |-> <<entry(1, 2, "unrecognised-format")>> \o faulty
                                            \o <<entry(n + 4, n + 5, "unrecognised-format")>>]
        /\ imported[site].hands = <<alone, alone>> /\ Len(imported[site].discarded) = n + 4
        /\ imported[other].hands = <<>> /\ Len(imported[other].discarded) = n + 6
TextIsReadWhole(site, block) ==
    \A other \in {CHOOSE s \in Range(PokerSites) : s # site}, faults \in {Faults(site, block)} :
        \A text \in {ReadUpload(Upload(block, faults)).text} :
            ReadWhole(site, other, faults, Parse(block, site).hand,
                      [picked \in {None, site, other} |-> ImportHandHistory(text, picked)])

(* A Hand played is read back as it was, from what any of the Poker Sites  *)
(* writes of it: who put in what on which Street, all in or not; the bets  *)
(* nobody matched, printed or worked out; who showed and who collected     *)
(* from which pot; a Showdown only where two are left. And in a text with  *)
(* others (here, where nobody saw a flop) it is found, once, and whatever  *)
(* cannot be read is told and hides nothing (stars-layout.ts,              *)
(* coinpoker.ts, import.ts). CoinPoker's ALLIN before the flop is left out *)
(* where there are antes: AllInsPayOut is about those.                     *)
HandsAreReadBack ==
    JustRecorded =>
        \A site \in Range(PokerSites) : \A block \in {Block(site)} :
            /\ ReadBack(site, block) \/ (site = "coinpoker" /\ DeadPosts /\ PreflopAllIn)
            /\ hand.board = 0 => TextIsReadWhole(site, block)

(* "Every Hand that is read must also replay to the end and pay out        *)
(* exactly what was put in" (fixtures/README.md), CoinPoker's with antes   *)
(* among them: the posts, what each Action read adds to the bets of its    *)
(* Street, and the Splash are what is returned, collected and taken.       *)
PaysOut(read) ==
    LET sum(records) == FoldLeft(LAMBDA total, r : total + r.amount, 0, records)
        streetBets(street) == FoldFunction(+, 0, BetsOn(street, read))
        live == FoldLeft(LAMBDA total, post : total + Live(post), 0, read.posts)
        bet == FoldLeft(LAMBDA total, street : total + streetBets(street), 0, Streets)
    IN  sum(read.posts) - live + bet + read.splash = sum(read.returned) + sum(read.collected) + read.rake + read.fees
AllInsPayOut == JustRecorded => PaysOut(Parse(Block("coinpoker"), "coinpoker").hand)
=============================================================================
