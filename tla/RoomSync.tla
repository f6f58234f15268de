------------------------------ MODULE RoomSync ------------------------------
(***************************************************************************)
(* How a Room's shared state reaches the browsers in it.                   *)
(*                                                                         *)
(* Every change is committed to the database, takes the Room's next        *)
(* revision and is sent to each socket in the Room (room.gateway.ts        *)
(* broadcast).  A browser applies changes in the order of their revisions, *)
(* drops one it already has and, on a hole or a reconnection, waits for a  *)
(* snapshot (roomClient.ts reduceRoom).  A snapshot is drawn over several  *)
(* awaits: the door is checked, the revision is read, the database is      *)
(* read, the answer is sent -- and anything may happen in between.         *)
(*                                                                         *)
(* The shared state is one register, the Playback: its commands run one at *)
(* a time (room.gateway.ts inOrder), so its value is the number of         *)
(* commands committed.  Every other broadcast (someone joined, someone     *)
(* left) spends a revision and leaves the register alone.  One browser     *)
(* has one socket; presence reports and heartbeats carry no revision and   *)
(* are left out.                                                           *)
(***************************************************************************)
EXTENDS Integers, Sequences, FiniteSets

CONSTANTS
    Client,       \* the browsers
    Newcomer,     \* those that have not been in the Room yet
    Slot,         \* snapshots one browser may have on their way: a bound
    MaxChanges,   \* Playback commands: a bound
    MaxDrops,     \* sockets broken: a bound
    MaxRestarts,  \* restarts of the server: a bound
    MayClose      \* whether the Master ever closes the Room

ASSUME ClientsAssumption == Newcomer \subseteq Client
ASSUME BoundsAssumption  == /\ MaxChanges \in Nat
                            /\ MaxDrops \in Nat
                            /\ MaxRestarts \in Nat
                            /\ MayClose \in BOOLEAN

VARIABLES
    db,        \* the Playback as committed
    unsent,    \* a command has committed and is not broadcast yet
    rev,       \* the Room's revision, in the server's memory
    told,      \* history: what the changes up to each revision add up to
    room,      \* "open", "closed" in the database, or "gone" from memory too
    inside,    \* the browsers whose socket is in the Room
    drawing,   \* the snapshots being drawn for each browser
    sock,      \* each browser's socket: "down", "open", or "dead" unnoticed
    toServer,  \* commands on the wire
    toClient,  \* messages on the wire
    view,      \* what each browser shows
    drops,     \* sockets broken so far
    restarts   \* restarts so far

server == <<db, unsent, rev, told, room, inside, drawing, restarts>>
wire   == <<sock, toServer, toClient, drops>>
vars   == <<server, wire, view>>

-----------------------------------------------------------------------------
NoDrawing == [stage |-> "none", join |-> FALSE, rev |-> 0, val |-> 0]

Drawing == [stage : {"none", "admitted", "reading", "read"},
            join : BOOLEAN, rev : Nat, val : Nat]

Message == [type : {"change", "other", "closed", "snapshot", "rejected"},
            rev : Nat, val : Nat]

View == [phase : {"joining", "in-room", "rejected", "closed"},
         held : Nat, revision : Nat, seen : Nat, awaiting : BOOLEAN]

(* What a browser starts from, and what one in a quiet Room shows.         *)
Joining   == [phase |-> "joining", held |-> 0, revision |-> 0, seen |-> 0,
              awaiting |-> FALSE]
Following == [Joining EXCEPT !.phase = "in-room"]

Larger(a, b) == IF a > b THEN a ELSE b

(* The revision of the Room is spent on one more change, after which those *)
(* who applied everything hold `value`.                                    *)
Spend(value) ==
    /\ rev' = rev + 1
    /\ told' = [r \in 0 .. rev + 1 |-> IF r <= rev THEN told[r] ELSE value]

(* room.gateway.ts broadcast: the message goes to every socket in the Room *)
(* but those of `except`.                                                  *)
Broadcast(type, value, except) ==
    toClient' = [c \in Client |->
        IF c \in inside \ except
        THEN Append(toClient[c], [type |-> type, rev |-> rev + 1, val |-> value])
        ELSE toClient[c]]

-----------------------------------------------------------------------------
(* The browser's reducer.                                                  *)

(* Mutants: the snapshot taken at its word; one just as new as what was    *)
(* seen still not enough.                                                  *)
TakeSnapshot_Trusting(v, m) ==
    [phase |-> "in-room", held |-> m.val, revision |-> m.rev,
     seen |-> Larger(v.seen, m.rev), awaiting |-> FALSE]

TakeSnapshot_NeverEnough(v, m) ==
    [TakeSnapshot_Trusting(v, m) EXCEPT !.awaiting = m.rev <= Larger(v.seen, m.rev)]

(* Held is dropped for what the snapshot says; one drawn before a change   *)
(* this browser has already seen go past leaves another snapshot owed.     *)
TakeSnapshot(v, m) ==
    LET seen == Larger(IF v.phase = "in-room" THEN v.seen ELSE 0, m.rev)
    IN [phase |-> "in-room", held |-> m.val, revision |-> m.rev,
        seen |-> seen, awaiting |-> m.rev < seen]

(* Mutants: nothing heard while a snapshot is owed; a hole not noticed.    *)
ApplyChange_DeafWhileOwed(v, m) ==
    IF v.phase # "in-room" \/ v.awaiting \/ m.rev <= v.revision THEN v
    ELSE IF m.type = "closed" THEN [v EXCEPT !.phase = "closed"]
    ELSE [v EXCEPT !.revision = m.rev, !.seen = m.rev,
                   !.held = IF m.type = "change" THEN m.val ELSE @]

(* A change in its place in the run of revisions.  Nothing is heard before *)
(* the first snapshot; the end of the Room is heard whatever is owed.      *)
ApplyChange(v, m) ==
    LET seen == [v EXCEPT !.seen = Larger(@, m.rev)]
    IN IF v.phase # "in-room" THEN v
       ELSE IF m.type = "closed" THEN [seen EXCEPT !.phase = "closed"]
       ELSE IF v.awaiting \/ m.rev <= v.revision THEN seen
       ELSE IF m.rev > v.revision + 1 THEN [seen EXCEPT !.awaiting = TRUE]
       ELSE IF m.type = "change" THEN [seen EXCEPT !.held = m.val, !.revision = m.rev]
       ELSE [seen EXCEPT !.revision = m.rev]

Reduce(v, m) ==
    CASE m.type = "snapshot" -> TakeSnapshot(v, m)
      [] m.type = "rejected" -> [v EXCEPT !.phase = "rejected"]
      [] OTHER               -> ApplyChange(v, m)

(* The socket opened, or broke: what is on screen is no longer the Room.   *)
Owed(v) == IF v.phase = "in-room" THEN [v EXCEPT !.awaiting = TRUE] ELSE v

-----------------------------------------------------------------------------
(* A Room everyone but the Newcomers has been following quietly.           *)
Init ==
    /\ db = 0 /\ unsent = FALSE /\ rev = 0 /\ told = [r \in 0 .. 0 |-> 0]
    /\ room = "open"
    /\ inside = Client \ Newcomer
    /\ drawing = [c \in Client |-> [k \in Slot |-> NoDrawing]]
    /\ sock = [c \in Client |-> IF c \in Newcomer THEN "down" ELSE "open"]
    /\ toServer = [c \in Client |-> <<>>]
    /\ toClient = [c \in Client |-> <<>>]
    /\ view = [c \in Client |-> IF c \in Newcomer THEN Joining ELSE Following]
    /\ drops = 0 /\ restarts = 0

(* A Playback command commits.  The next one waits for this one's          *)
(* broadcast; a Room already closed refuses it.                            *)
Commit ==
    /\ ~unsent /\ room = "open" /\ db < MaxChanges
    /\ db' = db + 1 /\ unsent' = TRUE
    /\ UNCHANGED <<rev, told, room, inside, drawing, restarts, wire, view>>

(* ... and is broadcast at the next revision.                              *)
Publish ==
    /\ unsent
    /\ unsent' = FALSE
    /\ Spend(db) /\ Broadcast("change", db, {})
    /\ UNCHANGED <<db, room, inside, drawing, restarts, sock, toServer, drops, view>>

(* The Master closes the Room: the database first ...                      *)
Close ==
    /\ MayClose /\ room = "open"
    /\ room' = "closed"
    /\ UNCHANGED <<db, unsent, rev, told, inside, drawing, restarts, wire, view>>

(* ... then everyone in it is told, nobody is left in it and its revisions *)
(* are forgotten.                                                          *)
CloseDone ==
    /\ room = "closed"
    /\ room' = "gone"
    /\ Broadcast("closed", db, {})
    /\ inside' = {} /\ rev' = 0 /\ told' = [r \in 0 .. 0 |-> db]
    /\ UNCHANGED <<db, unsent, drawing, restarts, sock, toServer, drops, view>>

(* The server takes a command: a join is let in while the Room is open and *)
(* refused afterwards; a resync also has to come from inside the Room, and *)
(* its refusal says nothing to the reducer.                                *)
Serve(c) ==
    /\ sock[c] = "open" /\ toServer[c] # <<>>
    /\ toServer' = [toServer EXCEPT ![c] = Tail(@)]
    /\ LET join == Head(toServer[c]) = "join"
       IN \/ /\ room = "open" /\ (join \/ c \in inside)
             /\ \E k \in Slot :
                  /\ drawing[c][k] = NoDrawing
                  /\ drawing' = [drawing EXCEPT ![c][k] =
                         [NoDrawing EXCEPT !.stage = "admitted", !.join = join]]
             /\ UNCHANGED toClient
          \/ /\ room # "open" /\ join
             /\ toClient' = [toClient EXCEPT ![c] =
                    Append(@, [type |-> "rejected", rev |-> 0, val |-> 0])]
             /\ UNCHANGED drawing
          \/ /\ ~join /\ (room # "open" \/ c \notin inside)
             /\ UNCHANGED <<drawing, toClient>>
    /\ UNCHANGED <<db, unsent, rev, told, room, inside, restarts, sock, drops, view>>

(* The joiner enters and the others hear of it; then, in the same turn,    *)
(* the revision the snapshot will carry is read.                           *)
Enter(c, k) ==
    /\ drawing[c][k].stage = "admitted" /\ drawing[c][k].join
    /\ Spend(told[rev]) /\ Broadcast("other", 0, {c})
    /\ inside' = inside \cup {c}
    /\ drawing' = [drawing EXCEPT ![c][k] = [@ EXCEPT !.stage = "reading", !.rev = rev + 1]]
    /\ UNCHANGED <<db, unsent, room, restarts, sock, toServer, drops, view>>

(* Someone already in it only has the revision read.                       *)
Reenter(c, k) ==
    /\ drawing[c][k].stage = "admitted" /\ ~drawing[c][k].join
    /\ drawing' = [drawing EXCEPT ![c][k] = [@ EXCEPT !.stage = "reading", !.rev = rev]]
    /\ UNCHANGED <<db, unsent, rev, told, room, inside, restarts, wire, view>>

(* The database is read: by now it may hold more than that revision.       *)
Read(c, k) ==
    /\ drawing[c][k].stage = "reading"
    /\ drawing' = [drawing EXCEPT ![c][k] = [@ EXCEPT !.stage = "read", !.val = db]]
    /\ UNCHANGED <<db, unsent, rev, told, room, inside, restarts, wire, view>>

(* Mutant: the revision is read as the answer goes out.                    *)
Answer_LateRevision(c, k) ==
    /\ drawing[c][k].stage = "read"
    /\ drawing' = [drawing EXCEPT ![c][k] = NoDrawing]
    /\ toClient' = [toClient EXCEPT ![c] = Append(@,
           [type |-> "snapshot", rev |-> rev, val |-> drawing[c][k].val])]
    /\ UNCHANGED <<db, unsent, rev, told, room, inside, restarts, sock, toServer, drops, view>>

(* The answer goes out behind whatever was broadcast meanwhile.            *)
Answer(c, k) ==
    /\ drawing[c][k].stage = "read"
    /\ drawing' = [drawing EXCEPT ![c][k] = NoDrawing]
    /\ toClient' = [toClient EXCEPT ![c] = Append(@,
           [type |-> "snapshot", rev |-> drawing[c][k].rev, val |-> drawing[c][k].val])]
    /\ UNCHANGED <<db, unsent, rev, told, room, inside, restarts, sock, toServer, drops, view>>

(* A socket breaks: all on its way is lost, its snapshots have nobody to   *)
(* go to, and whoever is still in the Room hears that this one left.       *)
Drop(c) ==
    /\ drops < MaxDrops /\ sock[c] = "open"
    /\ drops' = drops + 1
    /\ sock' = [sock EXCEPT ![c] = "dead"]
    /\ toServer' = [toServer EXCEPT ![c] = <<>>]
    /\ drawing' = [drawing EXCEPT ![c] = [k \in Slot |-> NoDrawing]]
    /\ inside' = inside \ {c}
    /\ IF c \in inside THEN Spend(told[rev]) ELSE UNCHANGED <<rev, told>>
    /\ toClient' = [d \in Client |->
          IF d = c THEN <<>>
          ELSE IF c \in inside /\ d \in inside
               THEN Append(toClient[d], [type |-> "other", rev |-> rev + 1, val |-> 0])
               ELSE toClient[d]]
    /\ UNCHANGED <<db, unsent, room, restarts, view>>

(* The server goes down and comes back: what was only in its memory is     *)
(* gone -- the Room starts again at revision 0 -- and every socket with it.*)
Restart ==
    /\ restarts < MaxRestarts
    /\ restarts' = restarts + 1
    /\ rev' = 0 /\ told' = [r \in 0 .. 0 |-> db] /\ unsent' = FALSE
    /\ room' = IF room = "closed" THEN "gone" ELSE room
    /\ inside' = {}
    /\ drawing' = [c \in Client |-> [k \in Slot |-> NoDrawing]]
    /\ sock' = [c \in Client |-> IF sock[c] = "open" THEN "dead" ELSE sock[c]]
    /\ toServer' = [c \in Client |-> <<>>]
    /\ toClient' = [c \in Client |-> <<>>]
    /\ UNCHANGED <<db, drops, view>>

(* The browser hears that its socket broke, ...                            *)
Notice(c) ==
    /\ sock[c] = "dead"
    /\ sock' = [sock EXCEPT ![c] = "down"]
    /\ view' = [view EXCEPT ![c] = Owed(@)]
    /\ UNCHANGED <<server, toServer, toClient, drops>>

(* ... and, however often that takes, opens another and joins again.       *)
Connect(c) ==
    /\ sock[c] = "down"
    /\ sock' = [sock EXCEPT ![c] = "open"]
    /\ view' = [view EXCEPT ![c] = Owed(@)]
    /\ toServer' = [toServer EXCEPT ![c] = <<"join">>]
    /\ UNCHANGED <<server, toClient, drops>>

(* The commands and snapshots on their way from or to a browser.           *)
Asked(c) == Len(toServer[c]) + Cardinality({k \in Slot : drawing[c][k] # NoDrawing})
            + Len(SelectSeq(toClient[c], LAMBDA m : m.type = "snapshot"))

(* Owed a snapshot, it asks, and asks again every two seconds; at most as  *)
(* many asks are under way at once as there are slots.                     *)
Resync(c) ==
    /\ sock[c] = "open" /\ view[c].phase = "in-room" /\ view[c].awaiting
    /\ Asked(c) < Cardinality(Slot)
    /\ toServer' = [toServer EXCEPT ![c] = Append(@, "resync")]
    /\ UNCHANGED <<server, sock, toClient, drops, view>>

(* The next message reaches the browser's reducer.                         *)
Receive(c) ==
    /\ sock[c] = "open" /\ toClient[c] # <<>>
    /\ view' = [view EXCEPT ![c] = Reduce(@, Head(toClient[c]))]
    /\ toClient' = [toClient EXCEPT ![c] = Tail(@)]
    /\ UNCHANGED <<server, sock, toServer, drops>>

Draw(c, k) == Enter(c, k) \/ Reenter(c, k) \/ Read(c, k) \/ Answer(c, k)

Browser(c) == Notice(c) \/ Connect(c) \/ Resync(c) \/ Receive(c)

Next ==
    \/ Commit \/ Publish \/ Close \/ CloseDone \/ Restart
    \/ \E c \in Client :
         \/ Serve(c) \/ Drop(c) \/ Browser(c)
         \/ \E k \in Slot : Draw(c, k)

Spec == Init /\ [][Next]_vars

(* A command half-way is finished, a wire that stays up delivers, a        *)
(* browser without a socket tries again and one owed a snapshot asks       *)
(* again.  Nothing makes anyone change the Room, drop or close it.         *)
Fairness ==
    /\ WF_vars(Publish) /\ WF_vars(CloseDone)
    /\ \A c \in Client :
         /\ WF_vars(Serve(c)) /\ WF_vars(Notice(c)) /\ WF_vars(Connect(c))
         /\ WF_vars(Resync(c)) /\ WF_vars(Receive(c))
         /\ \A k \in Slot : WF_vars(Draw(c, k))

FairSpec == Spec /\ Fairness

-----------------------------------------------------------------------------
(* Type correctness: what the variables hold is what the wire format and   *)
(* the reducer's types (roomClient.ts RoomView) allow.                     *)
TypeOK ==
    /\ db \in Nat /\ unsent \in BOOLEAN /\ rev \in Nat
    /\ told \in [0 .. rev -> Nat]
    /\ room \in {"open", "closed", "gone"}
    /\ inside \subseteq Client
    /\ drawing \in [Client -> [Slot -> Drawing]]
    /\ sock \in [Client -> {"down", "open", "dead"}]
    /\ toServer \in [Client -> Seq({"join", "resync"})]
    /\ toClient \in [Client -> Seq(Message)]
    /\ view \in [Client -> View]
    /\ drops \in Nat /\ restarts \in Nat

(* A browser on a working socket that tells its Participant "synced".      *)
Synced(c) == sock[c] = "open" /\ view[c].phase = "in-room" /\ ~view[c].awaiting

(* What a synced browser shows is never older than the revision it says it *)
(* is at, and never anything the Room has not committed: whatever was      *)
(* lost, reordered by a late snapshot or renumbered by a restart.          *)
NeverOlder ==
    room # "gone" =>
        \A c \in Client : Synced(c) =>
            /\ view[c].revision <= rev
            /\ told[view[c].revision] <= view[c].held
            /\ view[c].held <= db

(* "Synced" means it (Functionality.md H5.3): at the Room's own revision,  *)
(* with no command between its commit and its broadcast, a synced browser  *)
(* shows exactly what the database holds.                                  *)
Agreement ==
    room # "gone" /\ ~unsent =>
        \A c \in Client :
            Synced(c) /\ view[c].revision = rev => view[c].held = db

(* The revisions on their way to a browser.                                *)
OnTheWay(c) ==
    {toClient[c][i].rev : i \in {j \in DOMAIN toClient[c] :
                                    toClient[c][j].type # "snapshot"}}

(* Every revision a synced browser has not applied is still on its way.    *)
NoHole(c) ==
    room # "gone" /\ Synced(c) => (view[c].revision + 1) .. rev \subseteq OnTheWay(c)

(* A browser that has been in the Room before never loses a change without *)
(* knowing: the reducer's seenRevision makes a snapshot overtaken by a     *)
(* change be asked for again (roomClient.ts:261-265).                      *)
NoSilentHole == \A c \in Client \ Newcomer : NoHole(c)

(* The same of everyone, as room.gateway.ts:393-396 promises of a snapshot *)
(* ("a change landing mid-read is one the snapshot may already hold but    *)
(* the client is sent anyway").  The code breaks it for a first join.      *)
NoSilentHoleForAnyone == \A c \in Client : NoHole(c)

(* On one connection a synced browser never steps back to an earlier       *)
(* revision, though an older snapshot may arrive after a newer one.        *)
NeverGoesBack ==
    [][\A c \in Client : Synced(c) /\ Synced(c)' =>
           view'[c].revision >= view[c].revision]_vars

(* The Room has ended for whoever was told so: no snapshot says otherwise  *)
(* afterwards (roomClient.ts:354-356).  The code breaks it.                *)
ClosedForGood ==
    [][\A c \in Client : view[c].phase = "closed" => view'[c].phase # "in-room"]_vars

(* Once it shows the Room, a browser ends up synced, at the Room's own     *)
(* revision and showing what the database holds, whatever dropped on the   *)
(* way and without anyone reloading (Functionality.md H5.4), unless the    *)
(* Room ends.                                                              *)
InStep(c) ==
    view[c].phase = "in-room" =>
        Synced(c) /\ view[c].revision = rev /\ view[c].held = db

CatchesUp == \A c \in Client \ Newcomer : <>[](InStep(c) \/ room # "open")

(* Whoever is in the Room as it closes, and stays connected, is shown that *)
(* it closed, even while waiting for a snapshot that will never come.      *)
EndReachesEveryone ==
    \A c \in Client \ Newcomer :
        (c \in inside /\ room = "closed") ~>
            (view[c].phase = "closed" \/ sock[c] # "open")
=============================================================================
