------------------------------ MODULE Presence ------------------------------
(* How each Participant is following a Room, as everyone in it is shown:   *)
(* what their tabs report in heartbeats (roomConnection.ts), what the      *)
(* server makes of it and tells (room-presence.ts, room.gateway.ts) and    *)
(* the readout of the Master (syncView.ts). A tab stands at one Revision,  *)
(* its reducer's and its connection's; what the Revisions change is        *)
(* RoomSync's. Nothing is lost on the way, and a socket that closes is     *)
(* noticed at once by both sides. The Master stays the Master.             *)
EXTENDS Absent, Integers, Sequences, FiniteSets

CONSTANTS
    TabsOf,             \* the Participants, and the tabs each of them may have open
    Master,             \* which of them is the Master
    FirstTabs,          \* the tabs in the Room to begin with
    SlowTabs,           \* the tabs whose messages may wait; others take theirs first
    UnstableAfter, AwayAfter,   \* how long a silence reads as unstable, as away
    RoundTrips, LatencyStep,    \* what each tab may measure; how far one has to move
    MaxPresenceSteps    \* bound: beats by the clock, tabs opened and closed, changes, time

People == DOMAIN TabsOf
Tabs == UNION {TabsOf[p] : p \in People}
OwnerOf(t) == CHOOSE p \in People : t \in TabsOf[p]

ASSUME PresenceAssumption ==
    /\ \A p, q \in People : p # q => TabsOf[p] \cap TabsOf[q] = {}
    /\ Master \in People /\ FirstTabs \cup SlowTabs \subseteq Tabs
    /\ RoundTrips \in [Tabs -> (SUBSET Nat) \ {{}}]
    /\ {UnstableAfter, AwayAfter, MaxPresenceSteps} \subseteq Nat /\ LatencyStep \in Nat \ {0}

\* What a heartbeat says, how a Participant follows: neither is ever absent.
Measure == Nat \cup {None}
Heartbeat == [age : Nat, latency : Measure, revision : Nat]
Reading == [presence : {"connected", "unstable", "away"}, latency : Measure, inSync : BOOLEAN]
ASSUME NoneIsNoReading ==
    None \notin Nat \cup Heartbeat /\ \A S \in SUBSET People : None \notin [S -> Reading]

VARIABLES
    heard,          \* the server's last heartbeat of each tab in the Room: its age too
    revisions,      \* the Room's Revision
    presenceTold,   \* the last presence the Room was told
    answering,      \* the Revision of the snapshot being drawn for each tab
    incoming,       \* messages to each tab
    outgoing,       \* heartbeats and requests from each tab
    tabs,           \* each tab: its socket, where it stands, what it shows
    known,          \* history: the last presence worked out, who was sent another since
    counted         \* steps taken that MaxPresenceSteps bounds

presenceVars == <<heard, revisions, presenceTold, answering, incoming, outgoing, tabs, known, counted>>

Longer(a, b) == IF a > b THEN a ELSE b
Shortest(S) == CHOOSE x \in S : \A y \in S : x <= y
Longest(S) == CHOOSE x \in S : \A y \in S : x >= y

----------------------------------------------------------------------------
(* The server: each reading comes from whichever tab answers it best.      *)

InRoomOf(h, p) == {t \in TabsOf[p] : h[t] # None}

ReadingOf(h, p, revision) ==
    LET beats == {h[t] : t \in InRoomOf(h, p)}
        silence == Shortest({b.age : b \in beats})
        measured == {b.latency : b \in beats} \ {None}
    IN [presence |-> IF silence >= AwayAfter THEN "away" ELSE IF silence >= UnstableAfter THEN "unstable" ELSE "connected",
        latency |-> IF measured = {} THEN None ELSE Shortest(measured),
        inSync |-> \E b \in beats : b.revision >= revision]

\* By Participant: the list is in the order they joined, which never changes, so
\* that two lists of the same Participants compare place by place.
FollowingIn(h, revision) ==
    [p \in {q \in People : InRoomOf(h, q) # {}} |-> ReadingOf(h, p, revision)]

\* Only what somebody could act on travels: a latency has to really move.
Shifted(a, b) ==
    \/ (a.latency = None) # (b.latency = None)
    \/ a.latency # None /\ b.latency # None /\ LatencyStep <= Longer(a.latency - b.latency, b.latency - a.latency)
Differs(a, b) == a.presence # b.presence \/ a.inSync # b.inSync \/ Shifted(a, b)
PresenceChanged(before, after) ==
    \/ before = None
    \/ DOMAIN before # DOMAIN after \/ \E p \in DOMAIN after : Differs(before[p], after[p])

\* Tells the Room, after the messages `sends`, how everyone follows it. Mutant
\* first: what was worked out is kept even if nobody is told.
Says(h, changed, now, t) == IF changed /\ h[t] # None THEN <<[type |-> "presence", shown |-> now]>> ELSE <<>>
WorkedOut(changed, now) ==
    known' = [known EXCEPT !.worked = now, !.closed = FALSE, !.fresher = IF changed THEN {} ELSE @]

ReportPresence_Kept(h, sends, now) ==
    LET changed == PresenceChanged(presenceTold, now)
    IN /\ presenceTold' = now
       /\ incoming' = [t \in Tabs |-> sends[t] \o Says(h, changed, now, t)]
       /\ WorkedOut(changed, now)
ReportPresence(h, sends, now) ==
    LET changed == PresenceChanged(presenceTold, now)
    IN /\ presenceTold' = IF changed THEN now ELSE presenceTold
       /\ incoming' = [t \in Tabs |-> sends[t] \o Says(h, changed, now, t)]
       /\ WorkedOut(changed, now)

\* A change takes the next Revision and goes to everyone in the Room but one.
BroadcastTo(h, in, except) ==
    /\ revisions' = revisions + 1
    /\ ReportPresence(h, [t \in Tabs |-> IF h[t] # None /\ OwnerOf(t) # except
                                         THEN Append(in[t], [type |-> "change", revision |-> revisions + 1])
                                         ELSE in[t]],
                      FollowingIn(h, revisions + 1))

Counting == counted < MaxPresenceSteps /\ counted' = counted + 1

----------------------------------------------------------------------------
(* A tab beats: at once, or as soon as the shortest gap has gone by.       *)

BeatOf(c) == [type |-> "beat", latency |-> c.latency, revision |-> c.revision]
Beats(t, c) ==
    IF c.recent THEN tabs' = [tabs EXCEPT ![t] = [c EXCEPT !.soon = TRUE]] /\ UNCHANGED outgoing
    ELSE /\ tabs' = [tabs EXCEPT ![t] = [c EXCEPT !.recent = TRUE, !.soon = FALSE]]
         /\ outgoing' = [outgoing EXCEPT ![t] = Append(@, BeatOf(c))]

\* The reducer stands where the change leaves it, and says so.
TakesChange(c, revision) ==
    LET seen == [c EXCEPT !.seen = Longer(@, revision)]
    IN IF ~c.in THEN c
       ELSE IF c.awaiting \/ revision <= c.revision THEN seen
       ELSE IF revision > c.revision + 1 THEN [seen EXCEPT !.awaiting = TRUE]
       ELSE [seen EXCEPT !.revision = revision]

TakesRoom(c, m) ==
    LET seen == Longer(IF c.in THEN c.seen ELSE 0, m.revision)
    IN [c EXCEPT !.in = TRUE, !.revision = m.revision, !.seen = seen, !.awaiting = m.revision < seen,
                 !.shown = m.shown, !.beating = TRUE]

TakeMessage(t) ==
    /\ incoming[t] # <<>>
    /\ incoming' = [incoming EXCEPT ![t] = Tail(@)]
    /\ LET m == Head(incoming[t])
           c == tabs[t]
       IN \/ /\ m.type = "change"
             /\ IF TakesChange(c, m.revision).revision # c.revision THEN Beats(t, TakesChange(c, m.revision))
                ELSE tabs' = [tabs EXCEPT ![t] = TakesChange(c, m.revision)] /\ UNCHANGED outgoing
          \/ m.type = "snapshot" /\ Beats(t, TakesRoom(c, m))
          \/ /\ m.type = "presence"
             /\ tabs' = IF c.in THEN [tabs EXCEPT ![t].shown = m.shown] ELSE tabs
             /\ UNCHANGED outgoing
    /\ UNCHANGED <<heard, revisions, presenceTold, answering, known, counted>>

\* The shortest gap is over; or the heartbeat of every few seconds is due.
GapPasses(t) ==
    /\ tabs[t].recent
    /\ IF tabs[t].soon THEN Beats(t, [tabs[t] EXCEPT !.recent = FALSE])
       ELSE tabs' = [tabs EXCEPT ![t].recent = FALSE] /\ UNCHANGED outgoing
    /\ UNCHANGED <<heard, revisions, presenceTold, answering, incoming, known, counted>>
BeatAgain(t) ==
    /\ Counting /\ tabs[t].open /\ tabs[t].beating /\ ~tabs[t].recent /\ Beats(t, tabs[t])
    /\ UNCHANGED <<heard, revisions, presenceTold, answering, incoming, known>>
AskAfresh(t) ==
    /\ Counting /\ tabs[t].open /\ tabs[t].in /\ tabs[t].awaiting
    /\ outgoing' = [outgoing EXCEPT ![t] = Append(@, [type |-> "resync"])]
    /\ UNCHANGED <<heard, revisions, presenceTold, answering, incoming, tabs, known>>

----------------------------------------------------------------------------
(* The Room: a tab opened, or back after a drop; a tab gone; any change.   *)

Arrive(t) ==
    /\ Counting /\ ~tabs[t].open
    /\ tabs' = [tabs EXCEPT ![t] = [@ EXCEPT !.open = TRUE, !.awaiting = tabs[t].in]]
    /\ LET h == [heard EXCEPT ![t] = [age |-> 0, latency |-> None, revision |-> 0]]
       IN /\ heard' = h
          /\ IF InRoomOf(heard, OwnerOf(t)) = {}
             THEN BroadcastTo(h, incoming, OwnerOf(t)) /\ answering' = [answering EXCEPT ![t] = revisions + 1]
             ELSE /\ answering' = [answering EXCEPT ![t] = revisions]
                  /\ UNCHANGED <<revisions, presenceTold, incoming, known>>
    /\ UNCHANGED outgoing

Depart(t) ==
    /\ Counting /\ tabs[t].open
    /\ tabs' = [tabs EXCEPT ![t] = [@ EXCEPT !.open = FALSE, !.beating = FALSE, !.soon = FALSE, !.awaiting = tabs[t].in]]
    /\ outgoing' = [outgoing EXCEPT ![t] = <<>>]
    /\ answering' = [answering EXCEPT ![t] = None]
    /\ LET h == [heard EXCEPT ![t] = None]
       IN /\ heard' = h
          /\ IF InRoomOf(h, OwnerOf(t)) = {}
             THEN BroadcastTo(h, [incoming EXCEPT ![t] = <<>>], OwnerOf(t))
             ELSE /\ incoming' = [incoming EXCEPT ![t] = <<>>]
                  /\ known' = [known EXCEPT !.closed = TRUE]
                  /\ UNCHANGED <<revisions, presenceTold>>

RoomChanges == Counting /\ BroadcastTo(heard, incoming, None) /\ UNCHANGED <<heard, answering, outgoing, tabs>>

----------------------------------------------------------------------------
(* The server takes a heartbeat, tells the Room and acknowledges it, which *)
(* the tab measures before it beats again; or it begins the snapshot asked *)
(* for, and sends it once it is drawn.                                     *)

Hear(t) ==
    /\ outgoing[t] # <<>>
    /\ outgoing' = [outgoing EXCEPT ![t] = Tail(@)]
    /\ LET m == Head(outgoing[t])
       IN \/ /\ m.type = "beat"
             /\ LET h == [heard EXCEPT ![t] = [age |-> 0, latency |-> m.latency, revision |-> m.revision]]
                    now == FollowingIn(h, revisions)
                IN /\ heard' = h
                   /\ ReportPresence(h, incoming, now)
                   /\ \E l \in RoundTrips[t] : tabs' = [tabs EXCEPT ![t].latency = l]
                   /\ answering' = answering
          \/ /\ m.type = "resync" /\ answering[t] = None
             /\ answering' = [answering EXCEPT ![t] = revisions]
             /\ UNCHANGED <<heard, presenceTold, incoming, known, tabs>>
    /\ UNCHANGED <<revisions, counted>>

SendRoom(t) ==
    /\ answering[t] # None
    /\ answering' = [answering EXCEPT ![t] = None]
    /\ LET h == [heard EXCEPT ![t] = [@ EXCEPT !.age = 0, !.revision = answering[t]]]
           now == FollowingIn(h, revisions)
       IN /\ heard' = h
          /\ incoming' = [incoming EXCEPT ![t] = Append(@, [type |-> "snapshot", revision |-> answering[t], shown |-> now])]
          /\ known' = IF now = presenceTold THEN known ELSE [known EXCEPT !.fresher = @ \cup {t}]
    /\ UNCHANGED <<revisions, presenceTold, outgoing, tabs, counted>>

TimePasses ==
    /\ Counting
    /\ heard' = [t \in Tabs |-> IF heard[t] = None THEN None
                               ELSE [heard[t] EXCEPT !.age = IF @ < AwayAfter THEN @ + 1 ELSE @]]
    /\ UNCHANGED <<revisions, presenceTold, answering, incoming, outgoing, tabs, known>>

----------------------------------------------------------------------------
PresenceInit ==
    LET first == [t \in Tabs |-> IF t \in FirstTabs THEN Shortest(RoundTrips[t]) ELSE None]
        h == [t \in Tabs |-> IF t \in FirstTabs THEN [age |-> 0, latency |-> first[t], revision |-> 0] ELSE None]
    IN /\ heard = h
       /\ revisions = 0
       /\ presenceTold = FollowingIn(h, 0)
       /\ answering = [t \in Tabs |-> None]
       /\ incoming = [t \in Tabs |-> <<>>] /\ outgoing = [t \in Tabs |-> <<>>]
       /\ tabs = [t \in Tabs |->
                    [open |-> t \in FirstTabs, in |-> t \in FirstTabs, revision |-> 0, seen |-> 0, awaiting |-> FALSE,
                     shown |-> FollowingIn(h, 0), latency |-> first[t],
                     recent |-> FALSE, soon |-> FALSE, beating |-> t \in FirstTabs]]
       /\ known = [worked |-> FollowingIn(h, 0), closed |-> FALSE, fresher |-> {}]
       /\ counted = 0

Waiting == \E t \in Tabs \ SlowTabs : incoming[t] # <<>>
PresenceNext ==
    \/ \E t \in Tabs : TakeMessage(t)
    \/ /\ ~Waiting
       /\ \/ \E t \in Tabs : \/ GapPasses(t) \/ BeatAgain(t) \/ AskAfresh(t)
                            \/ Arrive(t) \/ Depart(t) \/ Hear(t) \/ SendRoom(t)
          \/ RoomChanges \/ TimePasses

----------------------------------------------------------------------------
(* What the Master reads of the Guests: how many stand with the Room, and  *)
(* the slowest round trip among them.                                      *)

GuestsFollowing(shown) ==
    LET guests == DOMAIN shown \ {Master}
        measured == {shown[p].latency : p \in guests} \ {None}
    IN [total |-> Cardinality(guests), inSync |-> {p \in guests : shown[p].inSync},
        latency |-> IF measured = {} THEN None ELSE Longest(measured)]

Settled ==
    \A t \in Tabs : incoming[t] = <<>> /\ outgoing[t] = <<>> /\ answering[t] = None /\ ~tabs[t].soon

\* Whose tabs stand at the Room's Revision.
UpToDate == {p \in People : \E t \in InRoomOf(heard, p) : tabs[t].revision >= revisions}

(* With nothing on its way, every tab shows each Participant present as    *)
(* the server last worked them out, a latency less than one step from it,  *)
(* and the Guests it reads as in sync are those one of whose tabs has      *)
(* applied the Room's Revision. A tab closed since may have been the one;  *)
(* a snapshot may have brought a tab fresher news than the Room was told.  *)
FollowingIsTrue ==
    (heard # None /\ Settled) => \A t \in Tabs :
        heard[t] # None /\ t \notin known.fresher =>
            /\ ~PresenceChanged(tabs[t].shown, known.worked)
            /\ known.closed \/ GuestsFollowing(tabs[t].shown).inSync = UpToDate \ {Master}
=============================================================================
