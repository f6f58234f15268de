------------------------------- MODULE Stats -------------------------------
(***************************************************************************)
(* Positions at the table and the Hero's Stats in one Hand                 *)
(* (hands/replay: positions.ts, hero-stats.ts).                            *)
(*                                                                         *)
(* A Stat is how many chances the Hero had to make a decision and how many *)
(* times they made it. Each is read off the Hand's Actions and the states  *)
(* of its Timeline, from the Hero's seat; any player can stand for the     *)
(* Hero here, so that what one is said to have done can be held against    *)
(* what the others are.                                                    *)
(***************************************************************************)
EXTENDS Replay

----------------------------------------------------------------------------
(* Positions: named from the button, or from the big blind when the button *)
(* is dead.                                                                *)

ByPlayersDealt ==
    [n \in 2 .. 9 |->
        LET early == CASE n <= 4 -> <<>>
                       [] n = 5 -> <<"HJ">> [] n = 6 -> <<"UTG", "HJ">>
                       [] n = 7 -> <<"UTG", "LJ", "HJ">>
                       [] n = 8 -> <<"UTG", "UTG+1", "LJ", "HJ">>
                       [] n = 9 -> <<"UTG", "UTG+1", "MP", "LJ", "HJ">>
        IN CASE n = 2 -> <<"BTN", "BB">> [] n = 3 -> <<"BTN", "SB", "BB">>
             [] n > 3 -> early \o <<"CO", "BTN", "SB", "BB">>]

Clockwise(seats, first) ==
    SetToSortSeq({s \in seats : s >= first}, <) \o SetToSortSeq({s \in seats : s < first}, <)

PostersOf(hand, kind) ==
    SelectSeq(hand.posts, LAMBDA post : post.kind = kind /\ post.who \in Seats(hand))

\* The first big blind clockwise after the small blind: others may post one
\* to come in.
BigBlindSeat(hand) ==
    LET posters == PostersOf(hand, "big-blind")
        small == PostersOf(hand, "small-blind")
        after(s) == IF s > small[1].who THEN s - small[1].who ELSE s + 100
    IN IF posters = <<>> THEN None
       ELSE IF small = <<>> \/ Len(posters) < 2 THEN posters[1].who
       ELSE LET seats == {posters[k].who : k \in DOMAIN posters} IN
            CHOOSE s \in seats : \A r \in seats : after(s) <= after(r)

\* Bug: the button is taken to be a seat that was dealt in.
ActingOrder_LiveButton(hand) ==
    LET names == ByPlayersDealt[Cardinality(Seats(hand))]
        button == CHOOSE k \in DOMAIN names : names[k] = "BTN"
        from == Clockwise(Seats(hand), hand.button)
        turn == (Len(names) - button) + 1
    IN SubSeq(from, turn + 1, Len(from)) \o SubSeq(from, 1, turn)

\* Who acts first preflop, and so on; the big blind is last.
ActingOrder(hand) ==
    LET names == ByPlayersDealt[Cardinality(Seats(hand))]
        button == CHOOSE k \in DOMAIN names : names[k] = "BTN"
        from == Clockwise(Seats(hand), hand.button)
        turn == (Len(names) - button) + 1
        big == BigBlindSeat(hand)
    IN IF hand.button \in Seats(hand) \/ big = None
       THEN SubSeq(from, turn + 1, Len(from)) \o SubSeq(from, 1, turn)
       ELSE Clockwise(Seats(hand), big + 1)

PositionOf(hand, p) ==
    LET order == ActingOrder(hand) IN
    ByPlayersDealt[Len(order)][CHOOSE k \in DOMAIN order : order[k] = p]

----------------------------------------------------------------------------
(* The Hero's decisions.                                                   *)

Count(chance, made) == [opportunities |-> IF chance THEN 1 ELSE 0,
                        taken |-> IF chance /\ made THEN 1 ELSE 0]
NoCount == Count(FALSE, FALSE)

Raising(action) == action.type \in {"bet", "raise"}

\* Where in the Timeline a player acts on a Street.
DecisionsOn(street, p, states) ==
    SelectSeq([i \in DOMAIN states |-> i],
              LAMBDA i : /\ states[i].action # None /\ states[i].action.street = street
                         /\ states[i].action.who = p)

Level(t) == Max(Range(t.bet))

CouldRaise(t, p) ==
    /\ t.stack[p] + t.bet[p] > Level(t)
    /\ DOMAIN t.stack \ (t.folded \cup t.allIn \cup {p}) # {}

----------------------------------------------------------------------------
(* Preflop: every Action with how the betting stood for it.                *)

\* What a full raise adds to begin with: the big blind, or the straddle.
FullRaise(states) == Max({Level(states[1].table), BigBlind})

\* Whether the betting is open to a raise from someone who last acted then.
Reopened(last, level) == last = None \/ level - last.level >= last.full

Preflop(hand, states) ==
    LET step(acc, i) ==
          IF states[i].action = None \/ states[i].action.street # "preflop" THEN acc
          ELSE LET action == states[i].action
                   before == states[i - 1].table
                   added == Level(states[i].table) - Level(before)
                   full == IF Raising(action) /\ added >= acc.full THEN added ELSE acc.full
               IN [decisions |-> Append(acc.decisions,
                      [action |-> action, before |-> before, raisers |-> acc.raisers,
                       callers |-> acc.callers,
                       reopened |-> Reopened(acc.last[action.who], Level(before))]),
                   full |-> full,
                   raisers |-> IF Raising(action) THEN Append(acc.raisers, action.who) ELSE acc.raisers,
                   callers |-> IF Raising(action) THEN 0
                               ELSE acc.callers + (IF action.type = "call" /\ acc.raisers # <<>>
                                                   THEN 1 ELSE 0),
                   last |-> [acc.last EXCEPT ![action.who] =
                                [level |-> Level(states[i].table), full |-> full]]]
    IN FoldLeft(step, [decisions |-> <<>>, full |-> FullRaise(states), raisers |-> <<>>,
                       callers |-> 0, last |-> [p \in Seats(hand) |-> None]],
                [i \in DOMAIN states |-> i]).decisions

FirstOf(decisions, Test(_)) ==
    LET found == SelectSeq(decisions, Test) IN IF found = <<>> THEN None ELSE found[1]

ReRaise(hero, decision) ==
    IF decision = None THEN NoCount
    ELSE IF Raising(decision.action) THEN Count(TRUE, TRUE)
    ELSE Count(decision.reopened /\ CouldRaise(decision.before, hero), FALSE)

FoldTo(decision) ==
    IF decision = None THEN NoCount ELSE Count(TRUE, decision.action.type = "fold")

ReRaiseStats(hand, states, hero) ==
    LET mine == SelectSeq(Preflop(hand, states), LAMBDA d : d.action.who = hero)
        facingOpen == FirstOf(mine, LAMBDA d : Len(d.raisers) = 1)
        facingThreeBet == FirstOf(mine, LAMBDA d : Len(d.raisers) = 2)
        squeezing == IF facingOpen # None /\ facingOpen.callers > 0 THEN facingOpen ELSE None
        threeBetOn == IF facingThreeBet # None /\ facingThreeBet.raisers[1] = hero
                      THEN facingThreeBet ELSE None
    IN [threeBet |-> ReRaise(hero, facingOpen), squeeze |-> ReRaise(hero, squeezing),
        fourBet |-> ReRaise(hero, facingThreeBet), foldToThreeBet |-> FoldTo(threeBetOn),
        foldToFourBet |-> FoldTo(FirstOf(mine, LAMBDA d : Len(d.raisers) >= 3 /\ d.raisers[2] = hero))]

\* Steals, Fold BB to Steal and Cold Call: off the Hero's first decision.
StealStats(hand, states, hero) ==
    LET preflop == SelectSeq(hand.actions, LAMBDA a : a.street = "preflop")
        mine == {k \in DOMAIN preflop : preflop[k].who = hero}
        before == SubSeq(preflop, 1, Min(mine) - 1)
        first == preflop[Min(mine)]
        table == states[DecisionsOn("preflop", hero, states)[1] - 1].table
        putIn == SelectSeq(before, LAMBDA a : a.type \notin {"fold", "check"})
        stealing(p) == PositionOf(hand, p) \in {"CO", "BTN", "SB"}
        chance == stealing(hero) /\ putIn = <<>> /\ CouldRaise(table, hero)
        stolenFrom == /\ PositionOf(hand, hero) = "BB" /\ Len(putIn) = 1
                      /\ Raising(putIn[1]) /\ stealing(putIn[1].who)
        blind == \E k \in DOMAIN hand.posts :
                    hand.posts[k].who = hero /\ hand.posts[k].kind # "ante"
        cold == Len(SelectSeq(before, Raising)) >= (IF blind THEN 2 ELSE 1)
    IN [steal |-> Count(chance, Raising(first)),
        foldToSteal |-> Count(stolenFrom, first.type = "fold"),
        coldCall |-> Count(cold, first.type = "call")]

PreflopStats(hand, states, hero) ==
    LET mine == DecisionsOn("preflop", hero, states)
        did(types) == \E k \in DOMAIN mine : states[mine[k]].action.type \in types
        could == did({"bet", "raise"}) \/ CouldRaise(states[mine[1] - 1].table, hero)
        none == [k \in {"vpip", "pfr", "threeBet", "squeeze", "fourBet", "foldToThreeBet",
                        "foldToFourBet", "steal", "foldToSteal", "coldCall"} |-> NoCount]
    IN IF mine = <<>> THEN none
       ELSE [vpip |-> Count(TRUE, did({"call", "bet", "raise"})),
             pfr |-> Count(could, did({"bet", "raise"}))]
            @@ ReRaiseStats(hand, states, hero) @@ StealStats(hand, states, hero)

----------------------------------------------------------------------------
(* Postflop and Showdown.                                                  *)

\* The continuation bets of whoever raised last preflop, from either side of
\* them: on a Street they can bet first, and on the next only having bet.
CBets(hand, hero) ==
    LET raises == SelectSeq(hand.actions, LAMBDA a : a.street = "preflop" /\ Raising(a))
        aggressor == Last(raises).who
        on(street) == SelectSeq(hand.actions, LAMBDA a : a.street = street)
        at(street, p) == {k \in DOMAIN on(street) : on(street)[k].who = p}
        bets(street) == {k \in DOMAIN on(street) : Raising(on(street)[k])}
        chance(street) == /\ at(street, aggressor) # {}
                          /\ \A b \in bets(street) : b >= Min(at(street, aggressor))
        made(street) == chance(street) /\ Min(at(street, aggressor)) \in bets(street)
        reached(street) == \A k \in 2 .. (Nth(street) - 1) : made(Streets[k])
        answers(street) == {k \in at(street, hero) : k > Min(bets(street))}
        raised(street) == {k \in bets(street) : k > Min(bets(street))}
        facing(street) == /\ made(street) /\ answers(street) # {}
                          /\ \A k \in raised(street) : Min(answers(street)) <= k
        none == [s \in {"flop", "turn", "river"} |-> NoCount]
    IN IF raises = <<>> THEN [cbet |-> none, foldToCbet |-> none]
       ELSE [cbet |-> [s \in {"flop", "turn", "river"} |->
                 Count(hero = aggressor /\ reached(s) /\ chance(s), made(s))],
             foldToCbet |-> [s \in {"flop", "turn", "river"} |->
                 IF reached(s) /\ facing(s)
                 THEN Count(TRUE, on(s)[Min(answers(s))].type = "fold") ELSE NoCount]]

CheckRaiseFlop(states, hero) ==
    LET mine == DecisionsOn("flop", hero, states)
        faced == /\ Len(mine) > 1 /\ states[mine[1]].action.type = "check"
                 /\ CouldRaise(states[mine[2] - 1].table, hero)
    IN IF faced THEN Count(TRUE, states[mine[2]].action.type = "raise") ELSE NoCount

\* Counted per Action, the one Stat of which a Hand may add more than one.
Aggression(hand, hero) ==
    LET mine == SelectSeq(hand.actions,
                    LAMBDA a : a.street # "preflop" /\ a.who = hero /\ a.type # "check")
    IN [opportunities |-> Len(mine), taken |-> Len(SelectSeq(mine, Raising))]

ShowdownStats(hand, hero) ==
    LET folds == SelectSeq(hand.actions, LAMBDA a : a.who = hero /\ a.type = "fold")
        sawFlop == hand.board >= 3 /\ (folds # <<>> => folds[1].street # "preflop")
        reached == hand.showdown /\ folds = <<>>
        won == \E k \in DOMAIN hand.collected :
                  hand.collected[k].who = hero /\ hand.collected[k].amount > 0
    IN [wtsd |-> [opportunities |-> IF sawFlop THEN 1 ELSE 0, taken |-> IF reached THEN 1 ELSE 0],
        wsd |-> Count(reached, won), wwsf |-> Count(sawFlop, won)]

HeroStats(hand, states, hero) ==
    PreflopStats(hand, states, hero) @@ CBets(hand, hero) @@ ShowdownStats(hand, hero)
    @@ [checkRaiseFlop |-> CheckRaiseFlop(states, hero), afq |-> Aggression(hand, hero)]

=============================================================================
