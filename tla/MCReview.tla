------------------------------ MODULE MCReview ------------------------------
(* A Room's server and what one browser shows of its Hands; or, apart, the *)
(* page of a Room; or how those in the Room are seen to follow it. Each    *)
(* starts with its own variables and leaves those of the others at None.   *)
EXTENDS Review, RoomPage, Presence, TLC

CONSTANTS aces, kings, n1, old, new, t1, t2

AcesFirst == <<aces, kings>>
KingsLonger == aces :> 1 @@ kings :> 2
OnAces == n1 :> aces

Alike == Permutations(Task) \cup Permutations(Body)

\* Two Hands, one of them imported again under another Entry, and a Note on each.
SomeEntries == [e \in {"e1", "e2", "e3"} |-> IF e = "e2" THEN "kings" ELSE "aces"]
SomeNotes == [n \in {"note1", "note2"} |-> IF n = "note1" THEN "aces" ELSE "kings"]

OneAndTwoTabs == [p \in {"Marta", "Gus"} |-> IF p = "Marta" THEN {"m1"} ELSE {"g1", "g2"}]
SomeRoundTrips == [t \in {"m1", "g1", "g2"} |-> IF t = "g1" THEN {40, 46, 52} ELSE {46}]

reviewVars == <<db, task, turn, revision, wire, drawing, view, asked, drawn, crossed>>

NoReview ==
    /\ db = None /\ task = None /\ turn = None /\ revision = None /\ wire = None
    /\ drawing = None /\ view = None /\ asked = None /\ drawn = None
    /\ crossed = None
NoPage ==
    /\ door = None /\ room = None /\ screen = None /\ noting = None
    /\ offers = None /\ hands = None /\ lastSeen = None /\ spent = None
NoPresence ==
    /\ heard = None /\ revisions = None /\ presenceTold = None /\ answering = None
    /\ incoming = None /\ outgoing = None /\ tabs = None /\ known = None /\ counted = None

AllInit ==
    \/ Init /\ NoPage /\ NoPresence
    \/ NoReview /\ PageInit /\ NoPresence
    \/ NoReview /\ NoPage /\ PresenceInit
AllNext ==
    \/ db # None /\ Next /\ UNCHANGED <<pageVars, presenceVars>>
    \/ door # None /\ PageNext /\ UNCHANGED <<reviewVars, presenceVars>>
    \/ heard # None /\ PresenceNext /\ UNCHANGED <<reviewVars, pageVars>>

AllSpec == AllInit /\ [][AllNext]_<<reviewVars, pageVars, presenceVars>>
=============================================================================
