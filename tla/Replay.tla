------------------------------- MODULE Replay -------------------------------
(***************************************************************************)
(* What a Hand is turned into to be stepped through and summed up          *)
(* (hands/replay: timeline.ts, hero-result.ts, overview.ts, the Streets of *)
(* hand-summary.ts; the web's streetProgress.ts).                          *)
(*                                                                         *)
(* A Hand is the record an import reads of one poker hand. A player stands *)
(* for their seat. Cards are left out: the board is how many cards are     *)
(* out, and a showdown is who collected what.                              *)
(***************************************************************************)
EXTENDS Absent, Integers, Sequences, FiniteSets, FiniteSetsExt, SequencesExt, Functions

CONSTANTS SmallBlind, BigBlind

Streets == <<"preflop", "flop", "turn", "river">>
Nth(street) == CHOOSE k \in DOMAIN Streets : Streets[k] = street
BoardSize(street) == <<0, 3, 4, 5>>[Nth(street)]

Sum(f) == FoldFunction(+, 0, f)

----------------------------------------------------------------------------
(* The table as the replay has it: what is in front of each player.        *)

Seats(hand) == DOMAIN hand.stacks

Seated(hand) ==
    [stack |-> hand.stacks, bet |-> [p \in Seats(hand) |-> 0],
     committed |-> [p \in Seats(hand) |-> 0], folded |-> {}, allIn |-> {}]

Pay(t, p, amount, live) ==
    [t EXCEPT !.stack[p] = @ - amount, !.bet[p] = @ + live, !.committed[p] = @ + amount,
              !.allIn = IF t.stack[p] = amount THEN @ \cup {p} ELSE @ \ {p}]

\* Antes and the dead part of a small-and-big post go straight to the pot.
Live(post) ==
    CASE post.kind = "ante" -> 0
      [] post.kind = "small-and-big-blinds" -> post.amount - SmallBlind
      [] OTHER -> post.amount

Posted(hand) ==
    FoldLeft(LAMBDA t, post : Pay(t, post.who, post.amount, Live(post)), Seated(hand), hand.posts)

Paid(t, action) ==
    CASE action.type \in {"call", "bet"} -> action.amount
      [] action.type = "raise" -> action.to - t.bet[action.who]
      [] OTHER -> 0

Acted(t, action) ==
    LET paid == Paid(t, action) IN
    IF action.type = "fold" THEN [t EXCEPT !.folded = @ \cup {action.who}]
    ELSE IF paid > 0 THEN Pay(t, action.who, paid, paid) ELSE t

\* Bets go into the middle, uncalled ones back to their owners first.
\* Bug: nothing is handed back.
Gather_Kept(t, returned) == [t EXCEPT !.bet = [p \in DOMAIN @ |-> 0]]

Gather(t, returned) ==
    LET back == FoldLeft(LAMBDA u, r : Pay(u, r.who, -r.amount, -r.amount), t, returned)
    IN [back EXCEPT !.bet = [p \in DOMAIN @ |-> 0]]

SecondDeepest(stacks, among) ==
    IF Cardinality(among) < 2 THEN None
    ELSE SetToSortSeq(among, LAMBDA p, q : \/ stacks[p] > stacks[q]
                                           \/ stacks[p] = stacks[q] /\ p < q)[2]

\* The effective stack: preflop, with what is in front of them.
Effective(t, preflop) ==
    LET has == [p \in DOMAIN t.stack |-> t.stack[p] + (IF preflop THEN t.bet[p] ELSE 0)]
        second == SecondDeepest(has, DOMAIN has \ t.folded)
    IN IF second = None THEN None ELSE has[second]

----------------------------------------------------------------------------
(* Pots: a main pot, and a side pot above each player all in for less.     *)

\* A cap of None is no cap at all.
Contestants(t, gathered, floor, cap) ==
    {p \in DOMAIN gathered : /\ p \notin t.folded
                             /\ IF cap = None THEN gathered[p] > floor ELSE gathered[p] >= cap}

PotsOf(t, splash) ==
    LET gathered == [p \in DOMAIN t.bet |-> t.committed[p] - t.bet[p]]
        caps == SetToSortSeq({t.committed[p] : p \in {q \in t.allIn \ t.folded : t.bet[q] = 0}},
                             LAMBDA a, b : a < b)
        levels == Append(caps, None)
        floor(k) == IF k = 1 THEN 0 ELSE levels[k - 1]
        below(a, k) == IF levels[k] = None \/ a < levels[k] THEN a ELSE levels[k]
        layer(k) == [p \in DOMAIN gathered |-> Max({0, below(gathered[p], k) - floor(k)})]
        main(k) == k = 1 /\ splash > 0
        pot(k) == [amount |-> Sum(layer(k)) + (IF main(k) THEN splash ELSE 0),
                   contestants |-> IF main(k) THEN DOMAIN gathered \ t.folded
                                   ELSE Contestants(t, gathered, floor(k), levels[k])]
    IN SelectSeq([k \in DOMAIN levels |-> pot(k)], LAMBDA each : each.amount > 0)

InTheMiddle(pots) == FoldLeft(LAMBDA sum, pot : sum + pot.amount, 0, pots)

----------------------------------------------------------------------------
(* The result: the pots paid out.                                          *)

Winner(winners, p) == {k \in DOMAIN winners : winners[k].who = p}

Won(winners, p, amount) ==
    IF Winner(winners, p) = {} THEN Append(winners, [who |-> p, amount |-> amount])
    ELSE [winners EXCEPT ![CHOOSE k \in Winner(winners, p) : TRUE].amount = @ + amount]

\* A Hand says which pot each winner took from; one pot has no number.
Matches(hand, worked) ==
    \A k \in DOMAIN hand.collected :
        LET pot == hand.collected[k].pot IN
        IF pot = None THEN Len(worked) = 1 ELSE pot < Len(worked)

PaidPots(hand, worked) ==
    LET matches == Matches(hand, worked)
        empty == IF matches THEN [k \in DOMAIN worked |-> worked[k] @@ [winners |-> <<>>]]
                 ELSE <<[amount |-> InTheMiddle(worked), winners |-> <<>>,
                         contestants |-> IF worked = <<>> THEN {} ELSE worked[1].contestants]>>
        at(c) == IF matches /\ c.pot # None THEN c.pot + 1 ELSE 1
        paid == FoldLeft(LAMBDA pots, c :
                            [pots EXCEPT ![at(c)].winners = Won(@, c.who, c.amount)],
                         empty, hand.collected)
        first == IF paid = <<>> THEN <<>> ELSE paid[1].winners
        tookMain == {k \in DOMAIN first : \E j \in DOMAIN hand.collected :
                        hand.collected[j].who = first[k].who /\ hand.collected[j].pot = 0}
        sharing == IF tookMain = {} THEN DOMAIN first ELSE tookMain
        share == hand.splash \div Cardinality(sharing)
        odd == hand.splash - share * Cardinality(sharing)
        splashed == [k \in DOMAIN first |->
                        IF k \notin sharing THEN first[k]
                        ELSE [first[k] EXCEPT !.amount =
                                @ + share + (IF k = Min(sharing) THEN odd ELSE 0)]]
    IN IF sharing = {} THEN paid ELSE [paid EXCEPT ![1].winners = splashed]

PaidOut(t, pots) ==
    FoldLeft(LAMBDA u, pot :
                FoldLeft(LAMBDA v, w : [v EXCEPT !.stack[w.who] = @ + w.amount], u, pot.winners),
             t, pots)

----------------------------------------------------------------------------
(* The Timeline: the states the table goes through, one Action at a time.  *)

StreetOf(size) == Streets[CHOOSE k \in 1 .. 4 : <<0, 3, 4, 5>>[k] = size]

State(hand, t, street, board, toAct, action, effective) ==
    [street |-> street, board |-> board, toAct |-> toAct, action |-> action,
     table |-> t, pot |-> Sum(t.committed) + hand.splash, pots |-> PotsOf(t, hand.splash),
     effective |-> effective, result |-> None]

Dealt(hand, t, street, toAct) ==
    State(hand, t, street, Min({hand.board, BoardSize(street)}), toAct, None, Effective(t, FALSE))

\* One Action, and the deal of the Street the next one is on.
Stepped(hand, states, k) ==
    LET action == hand.actions[k]
        before == Last(states)
        t == Acted(before.table, action)
        next == IF k < Len(hand.actions) THEN hand.actions[k + 1] ELSE None
        closes == next = None \/ next.street # action.street
        after == State(hand, t, action.street, before.board, IF closes THEN None ELSE next.who,
                       action, IF action.street = "preflop" THEN Effective(t, TRUE)
                               ELSE before.effective)
    IN states \o <<after>> \o
       (IF next # None /\ closes
        THEN <<Dealt(hand, Gather(t, <<>>), next.street, next.who)>> ELSE <<>>)

\* At the end uncalled bets go back, what the board still holds is dealt
\* Street by Street, and the pots are paid out.
RanOut(hand, states, t) ==
    LET reached == IF hand.actions = <<>> THEN 1 ELSE Nth(Last(hand.actions).street)
        left == SelectSeq(Streets, LAMBDA s : Nth(s) > reached /\ BoardSize(s) <= hand.board)
    IN states \o [k \in DOMAIN left |-> Dealt(hand, t, left[k], None)]

Finished(hand, states, t, pots) ==
    LET end == State(hand, t, StreetOf(hand.board), hand.board, None, None, Last(states).effective)
    IN Append(states, [end EXCEPT !.result = pots])

OpeningFrame(hand, t) ==
    State(hand, t, "preflop", 0, IF hand.actions = <<>> THEN None ELSE hand.actions[1].who, None,
          Effective(t, TRUE))

----------------------------------------------------------------------------
(* The Hero's Result, and how much of it was luck.                         *)

Result(hand, states, hero) ==
    LET end == Last(states).table IN
    [result |-> end.stack[hero] - hand.stacks[hero],
     putIn |-> end.committed[hero],
     reachedShowdown |-> hand.showdown /\ hero \notin end.folded]

\* The Hero's share of the Rake, to the nearest whole.
RakeGenerated(hand, states, hero) ==
    LET putIn == Last(states).table.committed IN
    IF hand.rake = 0 \/ Sum(putIn) = 0 THEN 0
    ELSE (2 * hand.rake * putIn[hero] + Sum(putIn)) \div (2 * Sum(putIn))

\* Whether the betting was over before the river, so that what the Hero took
\* counts by their equity instead.
AllInDecided(hand, states, hero) ==
    LET end == Last(states).table
        stillIn == DOMAIN end.stack \ end.folded
    IN /\ Cardinality(stillIn \ end.allIn) <= 1 /\ Cardinality(stillIn) >= 2
       /\ hero \in stillIn
       /\ (IF hand.actions = <<>> THEN 0 ELSE Min({hand.board, BoardSize(Last(hand.actions).street)})) < 5

----------------------------------------------------------------------------
(* The same bets added up twice more: for the Queue's list and the Summary.*)

\* overview.ts: a raise adds what takes the bet to its total.
FinalPot(hand) ==
    LET posted == FoldLeft(LAMBDA acc, post :
                              [acc EXCEPT !.pot = @ + post.amount, !.bet[post.who] = @ + Live(post)],
                           [pot |-> hand.splash, bet |-> [p \in Seats(hand) |-> 0],
                            street |-> "preflop"], hand.posts)
        counted == FoldLeft(LAMBDA acc, a :
                       LET bet == IF a.street # acc.street THEN [p \in Seats(hand) |-> 0] ELSE acc.bet
                           to == CASE a.type \in {"call", "bet"} -> bet[a.who] + a.amount
                                   [] a.type = "raise" -> a.to
                                   [] OTHER -> bet[a.who]
                       IN [pot |-> acc.pot + to - bet[a.who], street |-> a.street,
                           bet |-> [bet EXCEPT ![a.who] = to]],
                       posted, hand.actions)
    IN FoldLeft(LAMBDA pot, r : pot - r.amount, counted.pot, hand.returned)

\* Who took part: the Hero first if they did, then in the order they act.
Involved(hand, order, hero) ==
    LET took == SelectSeq(order, LAMBDA p : \E k \in DOMAIN hand.actions :
                              hand.actions[k].who = p /\ hand.actions[k].type # "fold")
    IN IF hero \in Range(took) THEN <<hero>> \o SelectSeq(took, LAMBDA p : p # hero) ELSE took

\* hand-summary.ts: what each Action on a Street is said to be to, and
\* whether it is a raise, a 3bet and so on.
SummaryOf(hand, street) ==
    LET start == IF street = "preflop"
                 THEN FoldLeft(LAMBDA bet, post : [bet EXCEPT ![post.who] = @ + Live(post)],
                               [p \in Seats(hand) |-> 0], hand.posts)
                 ELSE [p \in Seats(hand) |-> 0]
        said == FoldLeft(LAMBDA acc, a :
                    LET to == CASE a.type \in {"call", "bet"} -> acc.bet[a.who] + a.amount
                                [] a.type = "raise" -> a.to
                                [] OTHER -> None
                        level == acc.level + (IF a.type = "raise" THEN 1 ELSE 0)
                    IN [bet |-> IF to = None THEN acc.bet ELSE [acc.bet EXCEPT ![a.who] = to],
                        level |-> level,
                        says |-> Append(acc.says, [who |-> a.who, to |-> to, level |-> level])],
                    [bet |-> start, level |-> 1, says |-> <<>>],
                    SelectSeq(hand.actions, LAMBDA a : a.street = street))
    IN said.says

----------------------------------------------------------------------------
(* The progress bar: where each Street starts, and where jumps go.         *)

Stops == Append(Streets, "showdown")

\* Where a jump to each Street, and to Showdown, goes: -1 when never reached.
Targets(hand, states) ==
    LET final == Nth(Last(states).street) IN
    [k \in DOMAIN Stops |->
        IF k = 5 THEN (IF hand.showdown THEN Len(states) - 1 ELSE -1)
        ELSE IF k > final THEN -1
        ELSE Min({i \in DOMAIN states : Nth(states[i].street) >= k}) - 1]

Starts(hand, states) == Range(Targets(hand, states)) \ {-1}

PreviousStreet(hand, states, i) ==
    LET before == {s \in Starts(hand, states) : s < i} IN
    IF before = {} THEN -1 ELSE Max(before)

NextStreet(hand, states, i) ==
    LET after == {s \in Starts(hand, states) : s > i} IN
    IF after = {} THEN -1 ELSE Min(after)

=============================================================================
