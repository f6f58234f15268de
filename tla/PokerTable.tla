----------------------------- MODULE PokerTable -----------------------------
(***************************************************************************)
(* A poker table, and the Hand recorded of what is played at it.           *)
(*                                                                         *)
(* The table is the poker site's: who may act, for how much, what is       *)
(* handed back and who collects what are the rules of hold'em, so that the *)
(* Hand it leaves (hand.ts) is one an import may read. What the server     *)
(* then makes of the Hand is Replay and Stats; here it is held against     *)
(* what happened at the table.                                             *)
(***************************************************************************)
EXTENDS TableView

CONSTANTS
    Games,          \* the games that may be dealt: seats, posts, Splash, Rake
    MaxActions,     \* bound: the Actions of a Hand
    MaxBet          \* bound: what a player bets in a Street

VARIABLES
    hand,       \* the Hand as recorded so far
    table,      \* the table itself
    was,        \* what each player had, and whether they could raise, at each Action
    replay,     \* the states of the Timeline so far
    paying,     \* what is in the middle once nobody acts: the table, and its pots
    stats       \* what each player's Stats say, had they been the Hero

tableVars == <<hand, table, was, replay, paying, stats>>
told == <<replay, paying, stats>>

Chair == DOMAIN hand.stacks
Playing == Chair \ table.folded
WithChips == {p \in Playing : table.stack[p] > 0}

Top(bets) == Max(Range(bets))

\* Those with a say, in turn, from this seat on.
InTurnFrom(p) ==
    SelectSeq(Clockwise(Chair, p), LAMBDA q : q \in WithChips)

----------------------------------------------------------------------------
Put(t, post) ==
    LET live == Live(post) IN
    [t EXCEPT !.stack[post.who] = @ - post.amount, !.bet[post.who] = @ + live,
              !.put[post.who] = @ + live, !.dead = @ + post.amount - live]

\* The blinds and antes are in; the first to act has the floor.
Seat(g) ==
    LET empty == [street |-> "preflop", stack |-> g.stacks, folded |-> {},
                  bet |-> [p \in DOMAIN g.stacks |-> 0], put |-> [p \in DOMAIN g.stacks |-> 0],
                  dead |-> 0, queue |-> <<>>, said |-> {}, grown |-> [p \in DOMAIN g.stacks |-> 0],
                  full |-> Max({BigBlind} \cup {g.posts[k].amount : k \in
                                   {j \in DOMAIN g.posts : g.posts[j].kind = "straddle"}}),
                  dealing |-> FALSE]
        posted == FoldLeft(Put, empty, g.posts)
    IN [posted EXCEPT !.queue = SelectSeq(Clockwise(DOMAIN g.stacks, g.first),
                                          LAMBDA p : posted.stack[p] > 0)]

TableInit ==
    \E g \in Games :
        /\ hand = [stacks |-> g.stacks, button |-> g.button, posts |-> g.posts, actions |-> <<>>,
                   board |-> 0, returned |-> <<>>, showdown |-> FALSE, collected |-> <<>>,
                   rake |-> g.rake, splash |-> g.splash]
        /\ table = Seat(g)
        /\ was = <<>>
        /\ replay = <<>> /\ paying = [table |-> None, pots |-> None] /\ stats = None

----------------------------------------------------------------------------
(* Acting: the next in the queue, who still has something to answer or     *)
(* someone to raise against.                                               *)

ToAct == Head(table.queue)
Facing == Top(table.bet) - table.bet[ToAct]

HasTheFloor ==
    /\ table.queue # <<>> /\ Cardinality(Playing) > 1 /\ ~table.dealing
    /\ Facing > 0 \/ Cardinality(WithChips) > 1

\* A raise is open to who has not spoken since the last full one.
MayRaise ==
    /\ table.stack[ToAct] > Facing /\ WithChips \ {ToAct} # {}
    /\ ToAct \in table.said => table.grown[ToAct] >= table.full

Speak(type, amount, to, next) ==
    LET p == ToAct
        paid == IF type = "raise" THEN to - table.bet[p] ELSE amount IN
    /\ HasTheFloor /\ Len(hand.actions) < MaxActions
    /\ hand' = [hand EXCEPT !.actions = Append(@, [street |-> table.street, who |-> p, type |-> type,
                                                   amount |-> amount, to |-> to])]
    /\ was' = Append(was, [stack |-> table.stack, bet |-> table.bet, mayRaise |-> MayRaise])
    /\ table' = [next EXCEPT !.stack[p] = @ - paid, !.bet[p] = @ + paid, !.put[p] = @ + paid,
                             !.said = @ \cup {p}, !.grown[p] = 0]
    /\ UNCHANGED told

Fold ==
    /\ HasTheFloor /\ Facing > 0
    /\ Speak("fold", 0, 0, [table EXCEPT !.folded = @ \cup {ToAct}, !.queue = Tail(@)])

Check ==
    /\ HasTheFloor /\ Facing = 0
    /\ Speak("check", 0, 0, [table EXCEPT !.queue = Tail(@)])

CallBet ==
    /\ HasTheFloor /\ Facing > 0
    /\ Speak("call", Min({Facing, table.stack[ToAct]}), 0, [table EXCEPT !.queue = Tail(@)])

\* Up to the smallest raise there may be, or with everything.
Raise ==
    /\ HasTheFloor /\ MayRaise
    /\ \E to \in {Top(table.bet) + table.full, table.bet[ToAct] + table.stack[ToAct]} :
        LET added == to - Top(table.bet)
            others == SelectSeq(InTurnFrom(ToAct), LAMBDA p : p # ToAct)
            raised == [table EXCEPT !.queue = others,
                         !.full = IF added >= @ THEN added ELSE @,
                         !.grown = [p \in DOMAIN @ |-> @[p] + added]]
        IN /\ to <= Min({MaxBet, table.bet[ToAct] + table.stack[ToAct]}) /\ added > 0
           /\ IF Top(table.bet) = 0 THEN Speak("bet", to, 0, raised)
              ELSE Speak("raise", added, to, raised)

\* The Street is over: the bets go in, and the next one is dealt.
Deal ==
    /\ ~HasTheFloor /\ Cardinality(Playing) > 1 /\ hand.board < 5
    /\ LET next == Streets[Nth(table.street) + 1]
           in == [p \in Chair |-> 0]
           over == Cardinality(WithChips) <= 1
           top == Top(table.bet)
           alone == {p \in Chair : table.bet[p] = top}
           second == Max({0} \cup {table.bet[p] : p \in Chair \ alone})
           back == IF Cardinality(alone) = 1 THEN top - second ELSE 0
           owner == CHOOSE p \in alone : TRUE
       IN /\ hand' = [hand EXCEPT !.board = BoardSize(next),
                                  !.returned = IF back > 0 THEN <<[who |-> owner, amount |-> back]>>
                                               ELSE @]
          /\ table' = [table EXCEPT !.street = next, !.bet = in, !.said = {}, !.full = BigBlind,
                         !.grown = in, !.dealing = over,
                         !.stack[owner] = @ + back, !.put[owner] = @ - back,
                         !.queue = IF over THEN <<>> ELSE InTurnFrom(hand.button + 1)]
    /\ UNCHANGED <<was, told>>

----------------------------------------------------------------------------
(* The end: the pots as the site counts them, and who collects each.       *)

\* What is put in dead is in the main pot. Above what each player still in
\* has bet, only those who bet more can win.
SitePots(put) ==
    LET levels == SetToSortSeq({put[p] : p \in Playing}, <)
        floor(k) == IF k = 1 THEN 0 ELSE levels[k - 1]
        in(p, k) == Max({0, Min({put[p], levels[k]}) - floor(k)})
    IN [k \in DOMAIN levels |-> [amount |-> Sum([p \in Chair |-> in(p, k)])
                                             + (IF k = 1 THEN table.dead ELSE 0),
                                 contestants |-> {p \in Playing : put[p] >= levels[k]}]]

\* What the pot gives up: the Rake, from the main pot.
Collects(pots, taker) ==
    LET number(k) == IF Len(pots) = 1 THEN None ELSE k - 1
        net(k) == pots[k].amount - (IF k = 1 THEN hand.rake ELSE 0)
        share(k, p) == LET n == Cardinality(taker[k]) IN
            (net(k) \div n) + (IF p = Min(taker[k]) THEN net(k) % n ELSE 0)
        of(k) == [j \in 1 .. Cardinality(taker[k]) |->
                    LET p == SetToSortSeq(taker[k], <)[j] IN
                    [who |-> p, amount |-> share(k, p), pot |-> number(k)]]
    IN FoldLeft(LAMBDA all, k : all \o of(k), <<>>, [k \in DOMAIN pots |-> k])

\* An uncalled bet, if the last Street's betting left one.
Uncalled ==
    LET top == Top(table.bet)
        alone == {p \in Chair : table.bet[p] = top}
        second == Max({0} \cup {table.bet[p] : p \in Chair \ alone})
    IN IF Cardinality(alone) = 1 /\ top > second
       THEN <<[who |-> CHOOSE p \in alone : TRUE, amount |-> top - second]>> ELSE <<>>

End ==
    /\ ~HasTheFloor /\ hand.collected = <<>>
    /\ Cardinality(Playing) = 1 \/ hand.board = 5
    /\ LET back == Uncalled
           put == [p \in Chair |-> table.put[p] -
                     (IF back # <<>> /\ back[1].who = p THEN back[1].amount ELSE 0)]
           pots == SitePots(put)
       IN \E taker \in [DOMAIN pots -> SUBSET Playing \ {{}}] :
            /\ \A k \in DOMAIN pots : taker[k] \subseteq pots[k].contestants
            /\ hand' = [hand EXCEPT !.returned = @ \o back,
                                    !.showdown = Cardinality(Playing) > 1,
                                    !.collected = Collects(pots, taker)]
            /\ table' = [table EXCEPT !.put = put, !.bet = [p \in Chair |-> 0], !.queue = <<>>]
    /\ UNCHANGED <<was, told>>

----------------------------------------------------------------------------
(* What the server makes of the Hand once it is read: the Timeline step by *)
(* step, and the Stats off it.                                             *)

Recorded == hand.collected # <<>>
Acts == {i \in DOMAIN replay : replay[i].action # None}

Import ==
    /\ Recorded /\ replay = <<>>
    /\ replay' = <<OpeningFrame(hand, Posted(hand))>>
    /\ UNCHANGED <<hand, table, was, paying, stats>>

ReplayAction ==
    /\ replay # <<>> /\ Cardinality(Acts) < Len(hand.actions)
    /\ replay' = Stepped(hand, replay, Cardinality(Acts) + 1)
    /\ UNCHANGED <<hand, table, was, paying, stats>>

GatherLast ==
    /\ replay # <<>> /\ Cardinality(Acts) = Len(hand.actions) /\ paying.table = None
    /\ paying' = [paying EXCEPT !.table = Gather(Last(replay).table, hand.returned)]
    /\ UNCHANGED <<hand, table, was, replay, stats>>

RunOut ==
    /\ paying.table # None /\ paying.pots = None
    /\ replay' = RanOut(hand, replay, paying.table)
    /\ paying' = [paying EXCEPT !.pots = PotsOf(paying.table, hand.splash)]
    /\ UNCHANGED <<hand, table, was, stats>>

PayOut ==
    /\ paying.pots # None /\ Last(replay).result = None
    /\ \E pots \in {PaidPots(hand, paying.pots)} :
           replay' = Finished(hand, replay, PaidOut(paying.table, pots), pots)
    /\ UNCHANGED <<hand, table, was, paying, stats>>

CountStats ==
    /\ replay # <<>> /\ Last(replay).result # None /\ stats = None
    /\ stats' = [p \in Chair |-> HeroStats(hand, replay, p)]
    /\ UNCHANGED <<hand, table, was, replay, paying>>

TableNext ==
    \/ Fold \/ Check \/ CallBet \/ Raise \/ Deal \/ End
    \/ Import \/ ReplayAction \/ GatherLast \/ RunOut \/ PayOut \/ CountStats

Told == stats # None
ActionAt(states, k) ==
    CHOOSE i \in DOMAIN states :
        /\ states[i].action # None
        /\ Cardinality({j \in 1 .. i : states[j].action # None}) = k

ConservedAt(s) ==
    LET t == s.table IN
    /\ InTheMiddle(s.pots) + Sum(t.bet) = s.pot
    /\ s.result = None => Sum(t.stack) + s.pot = Sum(hand.stacks) + hand.splash
    /\ s.result # None => Sum(t.stack) + hand.rake = Sum(hand.stacks) + hand.splash
    /\ \A p \in Chair : t.stack[p] >= 0 /\ t.bet[p] >= 0

PotsAsPaid ==
    LET site == SitePots(table.put)
        paid == Last(replay).result
    IN /\ Len(paid) = Len(site)
       /\ \A k \in DOMAIN paid :
            /\ paid[k].contestants = site[k].contestants
            /\ paid[k].amount = site[k].amount + (IF k = 1 THEN hand.splash ELSE 0)
            /\ \A j \in DOMAIN paid[k].winners : paid[k].winners[j].who \in paid[k].contestants
            /\ FoldLeft(LAMBDA sum, w : sum + w.amount, 0, paid[k].winners)
                    = paid[k].amount - (IF k = 1 THEN hand.rake ELSE 0)

(* No chip is lost or made up between one state of the Timeline and the    *)
(* next, each player has at each Action what they had at the table, and    *)
(* the three places that add the bets up (timeline.ts, overview.ts,        *)
(* hand-summary.ts) and the Heroes' Results agree; the pots shown at the    *)
(* end are the ones the site paid: as many, with what they held, won by    *)
(* players in them, with the Splash in the main pot.                       *)
ChipsAddUp ==
    Told =>
        LET end == Last(replay)
            at(k) == replay[ActionAt(replay, k)].table
            said(street) == SummaryOf(hand, street)
            onStreet(street) == SelectSeq([k \in DOMAIN hand.actions |-> k],
                                          LAMBDA k : hand.actions[k].street = street)
        IN /\ \A i \in DOMAIN replay : ConservedAt(replay[i])
           /\ \A k \in DOMAIN was :
                LET before == replay[ActionAt(replay, k) - 1].table IN
                before.stack = was[k].stack /\ before.bet = was[k].bet
           /\ end.pot = FinalPot(hand)
           /\ \A street \in Range(Streets) : \A j \in DOMAIN said(street) :
                said(street)[j].to # None =>
                    said(street)[j].to = at(onStreet(street)[j]).bet[said(street)[j].who]
           /\ Sum([p \in Chair |-> Result(hand, replay, p).result]) = hand.splash - hand.rake
           /\ Sum([p \in Chair |-> RakeGenerated(hand, replay, p)]) - hand.rake
                \in -Cardinality(Chair) .. Cardinality(Chair)
           /\ PotsAsPaid

----------------------------------------------------------------------------
Took(key) == {p \in Chair : stats[p][key].taken > 0}
Faced(key) == {p \in Chair : stats[p][key].opportunities > 0}

\* Who raised preflop, in order.
Raisers ==
    LET raises == SelectSeq(hand.actions, LAMBDA a : a.street = "preflop" /\ Raising(a))
    IN [k \in DOMAIN raises |-> raises[k].who]

RaisedNth(n) == IF Len(Raisers) >= n THEN {Raisers[n]} ELSE {}

PreflopAgrees ==
    /\ Took("threeBet") = RaisedNth(2) /\ Took("fourBet") \subseteq RaisedNth(3)
    /\ Took("squeeze") \subseteq Took("threeBet")
    /\ Took("pfr") = Range(Raisers) /\ Took("pfr") \subseteq Took("vpip")
    /\ Took("steal") \subseteq RaisedNth(1)
    /\ Faced("foldToSteal") # {} => Took("steal") = RaisedNth(1)
    /\ Faced("foldToThreeBet") \subseteq RaisedNth(1)
    /\ Faced("foldToFourBet") \subseteq RaisedNth(2)
    /\ Took("coldCall") \cap RaisedNth(1) = {}

PostflopAgrees ==
    LET cbet(s) == {p \in Chair : stats[p].cbet[s].taken > 0}
        facedCbet(s) == {p \in Chair : stats[p].foldToCbet[s].opportunities > 0}
    IN /\ \A s \in {"flop", "turn", "river"} :
            /\ cbet(s) \subseteq (IF Raisers = <<>> THEN {} ELSE {Last(Raisers)})
            /\ facedCbet(s) # {} => cbet(s) # {} /\ facedCbet(s) \cap cbet(s) = {}
       /\ cbet("turn") \subseteq cbet("flop") /\ cbet("river") \subseteq cbet("turn")
       /\ Took("checkRaiseFlop") \subseteq Took("afq")

ShowdownAgrees ==
    /\ Cardinality(Took("wtsd")) # 1
    /\ Took("wtsd") # {} => Took("wtsd") \subseteq Faced("wtsd")
                                   /\ Took("wsd") # {}
    /\ hand.board >= 3 => Took("wwsf") # {} /\ Took("wwsf") \subseteq Faced("wtsd")

\* Who spoke preflop, each where they first did, the way they are seated.
Spoke ==
    LET preflop == SelectSeq(hand.actions, LAMBDA a : a.street = "preflop")
        firsts == SelectSeq([k \in DOMAIN preflop |-> k],
                            LAMBDA k : \A j \in 1 .. (k - 1) : preflop[j].who # preflop[k].who)
    IN [k \in DOMAIN firsts |-> preflop[firsts[k]].who]

Straddled == \E k \in DOMAIN hand.posts : hand.posts[k].kind = "straddle"

(* The Stats of everyone in a Hand tell one story: who is said to have     *)
(* made the 3-bet is who raised second, nobody folds to a continuation bet *)
(* nobody made, Positions are in the order players really spoke, even with *)
(* a dead button, and a raise is said to have been possible exactly when   *)
(* the table allowed one (couldRaise, reopened); All-in EV is worked out   *)
(* when, and only when, the cards were dealt with the betting over.        *)
StatsAgree ==
    Told =>
        LET preflop == Preflop(hand, replay)
        IN /\ PreflopAgrees /\ PostflopAgrees /\ ShowdownAgrees
           /\ Straddled \/ IsPrefix(Spoke, ActingOrder(hand))
           /\ \A p \in Chair : /\ AllInDecided(hand, replay, p) = (table.dealing /\ p \in Playing)
                              /\ Took("vpip") \subseteq Range(Involved(hand, ActingOrder(hand), p))
           /\ \A k \in DOMAIN preflop :
                was[k].mayRaise = /\ preflop[k].reopened
                                  /\ CouldRaise(preflop[k].before, preflop[k].action.who)

JumpsReachEveryStreet ==
    LET starts == Starts(hand, replay)
    IN /\ 0 \in starts
       /\ \A k \in 1 .. Nth(StreetOf(hand.board)) : \E s \in starts :
            Nth(replay[s + 1].street) = k \/ replay[s + 1].board > BoardSize(Streets[k])
       /\ \A i \in 0 .. (Len(replay) - 1) :
            LET back == PreviousStreet(hand, replay, i)
                on == NextStreet(hand, replay, i)
            IN /\ i > 0 => back >= 0 /\ back < i
               /\ \A s \in starts : ~(back < s /\ s < i) /\ (on >= 0 => ~(i < s /\ s < on))

(* At every point of a Hand the table drawn and its log agree with one     *)
(* another and with the Hand (see TellsTheHand); and from its start,       *)
(* jumping to the next Street until there is none reaches every Street     *)
(* that was played, and back again: no jump skips the start of a Street    *)
(* (tableView.ts, streetProgress.ts).                                      *)
TableTellsTheHand == Told => TellsTheHand(hand, replay, Max(Chair)) /\ JumpsReachEveryStreet

=============================================================================
