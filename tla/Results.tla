------------------------------- MODULE Results -------------------------------
(***************************************************************************)
(* The numbers under the Results Graph: the running sums over the Hands a  *)
(* filter keeps, in played order, downsampled, and for a Zoom only a       *)
(* stretch of them (results.service.ts); and what a press and a release of *)
(* the mouse on the graph ask for (graphGesture.ts, ResultsGraph.tsx).     *)
(*                                                                         *)
(* A Hand is [result, allInEv, showdown, bigBlind, currency]. Amounts are  *)
(* whole; big blinds are counted in hundredths, as the database rounds     *)
(* them.                                                                   *)
(***************************************************************************)
EXTENDS Routing, FiniteSetsExt

CONSTANTS Series, MaxPoints
    \* The series of Hands asked about, and how many points may be asked for.

VARIABLE graph \* What is asked of the graph, its answer, and a drag over it with its answer:
               \* [hands, points, from, to, here, drag, zoomed].

Summed == {"result", "allInEv", "showdown"}
Lines == Summed \cup {"nonShowdown"}

\* An amount as hundredths of a big blind, of the Hands' sum: halves go away from zero.
Hundredths(parts) ==
    LET all == FoldSeq(LAMBDA p, m : m * p.of, 1, parts)
        sum == FoldSeq(LAMBDA p, s : s + 100 * p.amount * (all \div p.of), 0, parts)
        size == IF sum < 0 THEN -sum ELSE sum
        whole == (2 * size + all) \div (2 * all)
    IN IF sum < 0 THEN -whole ELSE whole

Amount(hand, line) ==
    IF line = "showdown" THEN IF hand.showdown THEN hand.result ELSE 0 ELSE hand[line]

RunningAmount(hands, n, line) == FoldSeq(LAMBDA h, s : s + Amount(h, line), 0, SubSeq(hands, 1, n))
RunningBlinds(hands, n, line) ==
    Hundredths([i \in 1..n |-> [amount |-> Amount(hands[i], line), of |-> hands[i].bigBlind]])

\* The Non-showdown Result is what the Showdown Result leaves of the Result.
LinesOf(running) ==
    [line \in Lines |-> IF line = "nonShowdown" THEN running["result"] - running["showdown"]
                                                ELSE running[line]]

OneCurrency(hands) == Cardinality({hands[i].currency : i \in DOMAIN hands}) = 1

\* Where the lines stand after n Hands.
Standing(hands, n) ==
    LET amount == [line \in Summed |-> RunningAmount(hands, n, line)]
        blinds == [line \in Summed |-> RunningBlinds(hands, n, line)]
    IN [hand |-> n, bigBlinds |-> LinesOf(blinds),
        amounts |-> IF OneCurrency(hands) THEN LinesOf(amount) ELSE None]

Between(start, end) ==
    LET minus(later, earlier) == [line \in Lines |-> later[line] - earlier[line]] IN
    [bigBlinds |-> minus(end.bigBlinds, start.bigBlinds),
     amounts |-> IF end.amounts # None /\ start.amounts # None
                 THEN minus(end.amounts, start.amounts) ELSE None]

\* The Zoom asked for, clamped to the Hands there are; none for fewer than two.
ZoomOf(from, to, count) ==
    LET first == IF from = None \/ from < 1 THEN 1 ELSE from
        last == IF to = None \/ to > count THEN count ELSE to
    IN IF from = None \/ to = None \/ last - first + 1 < 2 THEN None ELSE [from |-> first, to |-> last]

\* Bug: the first Hand of each.
IsKept_First(hand, from, span, points) ==
    ((hand - from) * points) \div span > ((hand - from - 1) * points) \div span

\* The last Hand of each of `points` even stretches; with fewer Hands, each of them.
IsKept(hand, from, span, points) ==
    ((hand - (from - 1)) * points) \div span > ((hand - from) * points) \div span

ResultsOf(hands, points, from, to) ==
    LET count == Len(hands)
        zoom == ZoomOf(from, to, count)
        first == IF zoom = None THEN 1 ELSE zoom.from
        last == IF zoom = None THEN count ELSE zoom.to
        span == last - first + 1
        kept == SetToSortSeq({h \in first..last : IsKept(h, first, span, points)}, <)
        start == Standing(hands, first - 1)
        end == Standing(hands, IF kept = <<>> THEN 0 ELSE kept[Len(kept)])
    IN [hands |-> span, zoom |-> zoom, start |-> start, totals |-> Between(start, end),
        points |-> [i \in DOMAIN kept |-> Standing(hands, kept[i])]]

----------------------------------------------------------------------------
\* The graph's mouse: a point drawn, or none, under the press and the release.

ClickThreshold == 4

GraphGesture(press, release, moved) ==
    IF moved < ClickThreshold
    THEN IF press = None THEN [kind |-> "nothing"] ELSE [kind |-> "open", hand |-> press]
    ELSE IF press = None \/ release = None \/ press = release THEN [kind |-> "nothing"]
    ELSE [kind |-> "zoom", from |-> Min({press, release}), to |-> Max({press, release})]

\* The start the lines are drawn from is a point without a Hand.
HandUnder(results, at) == IF \E i \in DOMAIN results.points : results.points[i].hand = at THEN at ELSE None

\* A drag goes on past the chart: the last Hand it was over is where it ends.
Dragged(results, press, release, over, moved) ==
    LET pressed == HandUnder(results, press)
        released == HandUnder(results, release)
    IN GraphGesture(pressed, IF released = None THEN over ELSE released, moved)

----------------------------------------------------------------------------
GraphInit ==
    graph \in [hands : Series, points : 2..MaxPoints, from : {None} \cup -1..6, to : {None} \cup 0..8,
              here : {None}, drag : {None}, zoomed : {None}]

AnswerGraph ==
    /\ graph.here = None /\ graph.hands # <<>>
    /\ graph' = [graph EXCEPT !.here = ResultsOf(graph.hands, graph.points, graph.from, graph.to)]

\* A press over one point, or none, and a release over another, or past the chart.
DragOver ==
    /\ graph.here # None /\ graph.drag = None
    /\ \E i, j \in 0..Len(graph.here.points), moved \in {0, ClickThreshold} :
           LET at(k) == IF k = 0 THEN graph.here.start.hand ELSE graph.here.points[k].hand IN
           graph' = [graph EXCEPT !.drag = Dragged(graph.here, at(i), at(j), None, moved)]

ZoomIn ==
    /\ graph.drag # None /\ graph.drag.kind = "zoom" /\ graph.zoomed = None
    /\ graph' = [graph EXCEPT !.zoomed = ResultsOf(graph.hands, graph.points, graph.drag.from, graph.drag.to)]

GraphNext == AnswerGraph \/ DragOver \/ ZoomIn

\* Where the graph draws the lines after n Hands, if it draws a point there.
DrawnAt(results, n) ==
    IF n = results.start.hand THEN results.start
    ELSE LET drawn == SelectSeq(results.points, LAMBDA p : p.hand = n)
         IN IF drawn = <<>> THEN None ELSE drawn[1]

(* Whatever is asked, the graph ends at its last Hand and has no more      *)
(* points than asked; the Non-showdown line is what the other leaves of    *)
(* the Result at every point; any drag from one point to another asks for  *)
(* a Zoom that holds Hands and is granted as asked; and what the Zoom won  *)
(* is what the lines it was dragged over say between its ends, so Zooms    *)
(* that meet add up (results.service.ts, graphGesture.ts).                 *)
ZoomsAddUp ==
    graph # None /\ graph.here # None =>
        LET here == graph.here
            last == here.points[Len(here.points)]
        IN  /\ Len(here.points) = Min({graph.points, here.hands})
            /\ last.hand = (IF here.zoom = None THEN Len(graph.hands) ELSE here.zoom.to)
            /\ \A i \in DOMAIN here.points : LET at == here.points[i].bigBlinds IN
                   at["nonShowdown"] + at["showdown"] = at["result"]
            /\ here.totals = Between(here.start, last)
            /\ graph.zoomed # None =>
                   /\ graph.zoomed.zoom = [from |-> graph.drag.from, to |-> graph.drag.to]
                   /\ LET start == DrawnAt(here, graph.drag.from - 1)
                          end == DrawnAt(here, graph.drag.to)
                      IN start # None /\ end # None => graph.zoomed.totals = Between(start, end)
=============================================================================
