------------------------------- MODULE Review -------------------------------
(***************************************************************************)
(* Reviewing Hands in a Room: Live and its Playback, the Notes on the      *)
(* Hands, and what one browser shows of both (playback.service.ts,         *)
(* notes.service.ts, room.gateway.ts, roomClient.ts, useRoom.ts).          *)
(*                                                                         *)
(* A command is a task of the server: it checks, writes and publishes,     *)
(* with awaits in between. The gateway takes the commands about Playback   *)
(* one after another (inOrder); the others run side by side. A snapshot is *)
(* drawn table by table while they do, and lands where the changes do.     *)
(*                                                                         *)
(* Who asks is left out: someone the command is allowed to. A Hand stands  *)
(* for its Queue Entry too; where they go in the Queue is Queue's subject. *)
(***************************************************************************)
EXTENDS Absent, Naturals, Sequences, FiniteSets

CONSTANTS
    Hand,
    Order,          \* the Hands in the order of the Queue
    Steps,          \* how many states the Timeline of each has
    Note, About,    \* the Notes there may be, and the Hand each is on
    Body,           \* what a Note may say
    Task,           \* the commands that may run at once
    Commands,       \* what may be asked
    MaxCommands, MaxSnapshots   \* bounds

ASSUME OrderAssumption ==
    /\ Order \in Seq(Hand)
    /\ \A h \in Hand : \E k \in DOMAIN Order : Order[k] = h
ASSUME StepsAssumption == Steps \in [Hand -> Nat \ {0}]
ASSUME NotesAssumption ==
    About \in [Note -> Hand] /\ None \notin Hand \cup Body \cup [body : Body, removed : BOOLEAN]
ASSUME BoundsAssumption ==
    MaxCommands \in Nat /\ MaxSnapshots \in Nat

VARIABLES
    db,         \* the Room in the database
    task,       \* the commands under way
    turn,       \* those about Playback, in the order they arrived
    revision,   \* the Room's last revision
    wire,       \* what is on its way to the browser
    drawing,    \* the snapshot being drawn, if one is
    view,       \* what the browser shows
    asked, drawn,   \* commands and snapshots so far
    crossed         \* history: the Hands that several commands changed at once

vars == <<db, task, turn, revision, wire, drawing, view, asked, drawn, crossed>>

----------------------------------------------------------------------------
AnyStep == 0 .. 1   \* steps a command may name: not every Hand has both
Shared == {"start", "end", "load", "goTo", "hide"}          \* about Playback
OnNotes == {"write", "edit", "drop", "undo"}                \* from the Room
FromLibrary == {"libraryWrite", "libraryEdit", "libraryDrop", "libraryUndo"}

OnHand == OnNotes \cup FromLibrary \cup {"remove", "restore"}

Command ==
         [kind : {"start"}, hand : Hand \cup {None}, step : AnyStep]
    \cup [kind : {"end"}]
    \cup [kind : {"load", "open", "remove", "restore"}, hand : Hand]
    \cup [kind : {"goTo"}, step : AnyStep]
    \cup [kind : {"hide"}, hidden : BOOLEAN]
    \cup [kind : {"write", "edit", "libraryWrite", "libraryEdit"}, note : Note, body : Body]
    \cup [kind : {"drop", "undo", "libraryDrop", "libraryUndo"}, note : Note]

Nothing == [at |-> "idle", does |-> None]

HandOf(c) == IF c.kind \in OnNotes \cup FromLibrary THEN About[c.note] ELSE c.hand

Standing(d, n) == d.note[n] # None /\ ~d.note[n].removed

\* What is read of the Notes on these Hands: what each that stands says.
NotesOn(d, hands) ==
    [n \in Note |-> IF Standing(d, n) /\ About[n] \in hands THEN d.note[n].body ELSE None]

First(queue) ==
    IF queue = {} THEN None
    ELSE Order[CHOOSE k \in DOMAIN Order :
                  Order[k] \in queue /\ \A j \in 1 .. (k - 1) : Order[j] \notin queue]

At(hand) == [hand |-> hand, step |-> 0, hidden |-> FALSE]

\* Where a snapshot leaves this person: on what was on screen, on the Hand the
\* Room keeps for them, or on the Queue's first.
OwnAfterSnapshot(held, yours, queue) ==
    IF held # None /\ held.hand \in queue THEN held
    ELSE IF yours \in queue THEN At(yours)
    ELSE IF queue # {} THEN At(First(queue)) ELSE None

Fresh(held, arriving) ==
    [n \in Note |-> IF held[n] # None THEN held[n] ELSE arriving[n]]

----------------------------------------------------------------------------
(* The browser: a change applied to what it holds.                         *)

AppliedToPlayback(v, m) ==
    CASE m.type = "liveStarted" -> [v EXCEPT !.live = TRUE, !.play = m.play]
      [] m.type = "liveEnded" -> [v EXCEPT !.live = FALSE, !.play = None,
                                           !.own = IF v.play # None THEN v.play ELSE @]
      [] m.type = "playbackChanged" -> [v EXCEPT !.play = m.play]

\* An Entry that goes leaves its Notes behind; one that is held stays as it is
\* when the Entry is back (withNotes).
AppliedToQueue(v, m) ==
    CASE m.type = "entryRemoved" -> [v EXCEPT !.queue = @ \ {m.hand}]
      [] m.type = "entryRestored" -> [v EXCEPT !.queue = @ \cup {m.hand},
                                               !.notes = Fresh(@, m.notes)]

AppliedToNotes(v, m) ==
    CASE m.type = "noteWritten" -> [v EXCEPT !.notes[m.note] = IF @ # None THEN @ ELSE m.body]
      [] m.type = "noteEdited" -> [v EXCEPT !.notes[m.note] = IF @ # None THEN m.body ELSE @]
      [] m.type = "noteRemoved" -> [v EXCEPT !.notes[m.note] = None]
      [] m.type = "noteRestored" -> [v EXCEPT !.notes[m.note] = m.body]

Applied(v, m) ==
    IF m.type \in {"liveStarted", "liveEnded", "playbackChanged"} THEN AppliedToPlayback(v, m)
    ELSE IF m.type \in {"entryRemoved", "entryRestored"} THEN AppliedToQueue(v, m)
    ELSE AppliedToNotes(v, m)

\* A change in its place in the run of revisions; out of it, a snapshot is owed.
Change(v, rev, m) ==
    LET seen == [v EXCEPT !.seen = IF rev > @ THEN rev ELSE @] IN
    IF v.owed \/ rev <= v.rev THEN seen
    ELSE IF rev > v.rev + 1 THEN [seen EXCEPT !.owed = TRUE]
    ELSE [Applied(seen, m) EXCEPT !.rev = rev]

Snapshot(v, rev, s) ==
    LET seen == IF rev > v.seen THEN rev ELSE v.seen IN
    [live |-> s.live, play |-> s.play, queue |-> s.queue, notes |-> s.notes,
     own |-> OwnAfterSnapshot(IF v.live THEN None ELSE v.own, s.yours, s.queue),
     rev |-> rev, seen |-> seen, owed |-> rev < seen]

Shown(v) == IF v.live THEN v.play ELSE v.own

Receive ==
    /\ wire # <<>>
    /\ LET rev == Head(wire).rev
           m == Head(wire).says IN
       view' = IF m.type = "snapshot" THEN Snapshot(view, rev, m) ELSE Change(view, rev, m)
    /\ wire' = Tail(wire)
    /\ UNCHANGED <<db, task, turn, revision, drawing, asked, drawn, crossed>>

\* In Free Review this person steps through the Hand on their own table.
OwnWentTo(s) ==
    /\ ~view.live /\ view.own # None
    /\ s < Steps[view.own.hand]
    /\ view' = [view EXCEPT !.own.step = s]
    /\ UNCHANGED <<db, task, turn, revision, wire, drawing, asked, drawn, crossed>>

----------------------------------------------------------------------------
Init ==
    /\ db = [live |-> FALSE, play |-> None, queue |-> Hand, yours |-> None,
             note |-> [n \in Note |-> None]]
    /\ task = [t \in Task |-> Nothing]
    /\ turn = <<>> /\ wire = <<>> /\ drawing = None
    /\ revision = 0 /\ asked = 0 /\ drawn = 0 /\ crossed = {}
    /\ view = [live |-> FALSE, play |-> None, queue |-> Hand,
               notes |-> [n \in Note |-> None],
               own |-> OwnAfterSnapshot(None, None, Hand),
               rev |-> 0, seen |-> 0, owed |-> FALSE]

(* The server's commands: asked, checked, written and published.           *)

\* A command about a Hand's Notes or Entry while another is under way, or from a
\* Library while the Hand is out of the Queue: nothing in the code orders the two.
Crosses(c) ==
    /\ c.kind \in OnHand
    /\ \/ c.kind \in FromLibrary /\ HandOf(c) \notin db.queue
       \/ \E u \in Task : /\ task[u] # Nothing /\ task[u].does.kind \in OnHand
                           /\ HandOf(task[u].does) = HandOf(c)

Ask(t, c) ==
    /\ task[t] = Nothing /\ asked < MaxCommands /\ c.kind \in Commands
    /\ asked' = asked + 1
    /\ task' = [task EXCEPT ![t] = [at |-> "asked", does |-> c]]
    /\ turn' = IF c.kind \in Shared THEN Append(turn, t) ELSE turn
    /\ crossed' = IF Crosses(c) THEN crossed \cup {HandOf(c)} ELSE crossed
    /\ UNCHANGED <<db, revision, wire, drawing, drawn>>

\* In Free Review a Hand is opened on the spot, and the Room told of it.
Opens(t, h) ==
    /\ IF view.live THEN Ask(t, [kind |-> "load", hand |-> h]) /\ UNCHANGED view
       ELSE /\ Ask(t, [kind |-> "open", hand |-> h])
            /\ view' = [view EXCEPT !.own = At(h)]

\* Live starts from the Hand and step on this person's table.
StartsLive(t) ==
    /\ Ask(t, [kind |-> "start", hand |-> IF view.own = None THEN None ELSE view.own.hand,
               step |-> IF view.own = None THEN 0 ELSE view.own.step])
    /\ UNCHANGED view

\* Any other command, from this tab or from someone else's.
Asks(t) ==
    /\ \E c \in Command : Ask(t, c)
    /\ UNCHANGED view

\* One about Playback is the first of them by the time it is over.
Finished(t) ==
    /\ task' = [task EXCEPT ![t] = Nothing]
    /\ turn' = IF task[t].does.kind \in Shared THEN Tail(turn) ELSE turn

\* Bug: the commands about Playback run side by side too.
InTurn_AtOnce(t) == TRUE

InTurn(t) == task[t].does.kind \in Shared => t = Head(turn)

Valid(c) ==
    CASE c.kind = "start" ->
            ~db.live /\ (c.hand # None => c.hand \in db.queue /\ c.step < Steps[c.hand])
      [] c.kind = "end" -> TRUE
      [] c.kind = "load" -> db.live /\ c.hand \in db.queue
      [] c.kind = "goTo" -> db.live /\ db.play # None /\ c.step < Steps[db.play.hand]
      [] c.kind = "hide" -> db.live
      [] c.kind \in {"open", "remove"} -> c.hand \in db.queue
      [] c.kind = "restore" -> c.hand \notin db.queue
      [] c.kind = "write" -> db.note[c.note] = None /\ About[c.note] \in db.queue
      [] c.kind \in {"edit", "drop"} -> Standing(db, c.note) /\ About[c.note] \in db.queue
      [] c.kind = "undo" -> /\ db.note[c.note] # None /\ db.note[c.note].removed
                            /\ About[c.note] \in db.queue
      [] c.kind = "libraryWrite" -> db.note[c.note] = None
      [] c.kind \in {"libraryEdit", "libraryDrop"} -> Standing(db, c.note)
      [] c.kind = "libraryUndo" -> db.note[c.note] # None /\ db.note[c.note].removed

\* A command is refused when its check fails, or its ten seconds are over.
Check(t) ==
    LET c == task[t].does IN
    /\ task[t].at = "asked" /\ InTurn(t)
    /\ \/ Valid(c) /\ task' = [task EXCEPT ![t].at = "checked"] /\ UNCHANGED turn
       \/ /\ Valid(c) => c.kind \in {"undo", "libraryUndo", "restore"}
          /\ Finished(t)
    /\ UNCHANGED <<db, revision, wire, drawing, view, asked, drawn, crossed>>

\* The Hand it ended on is where everyone comes back to, if it is still queued.
Ended(d) ==
    [d EXCEPT !.live = FALSE, !.play = None,
              !.yours = IF d.play # None /\ d.play.hand \in d.queue THEN d.play.hand ELSE @]

Written(d, c) ==
    CASE c.kind = "start" ->
            [d EXCEPT !.live = TRUE,
                      !.play = IF c.hand = None THEN @
                               ELSE [hand |-> c.hand, step |-> c.step, hidden |-> FALSE]]
      [] c.kind = "end" -> Ended(d)
      [] c.kind = "load" -> [d EXCEPT !.play = At(c.hand)]
      [] c.kind = "goTo" -> [d EXCEPT !.play.step = c.step]
      [] c.kind = "hide" -> [d EXCEPT !.play.hidden = c.hidden]
      [] c.kind = "open" -> [d EXCEPT !.yours = c.hand]
      [] c.kind = "remove" -> [d EXCEPT !.queue = @ \ {c.hand}]
      [] c.kind = "restore" -> [d EXCEPT !.queue = @ \cup {c.hand}]
      [] c.kind \in {"write", "libraryWrite"} ->
            [d EXCEPT !.note[c.note] = [body |-> c.body, removed |-> FALSE]]
      [] c.kind \in {"edit", "libraryEdit"} -> [d EXCEPT !.note[c.note].body = c.body]
      [] c.kind \in {"drop", "libraryDrop"} -> [d EXCEPT !.note[c.note].removed = TRUE]
      [] c.kind \in {"undo", "libraryUndo"} -> [d EXCEPT !.note[c.note].removed = FALSE]

\* Whether there is a row to write: no Live to end, or nothing loaded, is a refusal.
HasRow(c) ==
    /\ c.kind = "end" => db.live
    /\ c.kind \in {"goTo", "hide"} => db.play # None

Write(t) ==
    LET c == task[t].does IN
    /\ task[t].at = "checked"
    /\ IF ~HasRow(c) THEN Finished(t) /\ UNCHANGED db
       ELSE /\ db' = Written(db, c)
            /\ IF c.kind = "open" THEN Finished(t)
               ELSE task' = [task EXCEPT ![t].at = "written"] /\ UNCHANGED turn
    /\ UNCHANGED <<revision, wire, drawing, view, asked, drawn, crossed>>

\* What is published once written: read back from the row as it is by then.
Told(c) ==
    CASE c.kind = "start" -> [type |-> "liveStarted", play |-> IF c.hand = None THEN None ELSE db.play]
      [] c.kind = "end" -> [type |-> "liveEnded"]
      [] c.kind \in {"load", "goTo", "hide"} -> [type |-> "playbackChanged", play |-> db.play]
      [] c.kind = "remove" -> [type |-> "entryRemoved", hand |-> c.hand]
      [] c.kind = "restore" -> [type |-> "entryRestored", hand |-> c.hand,
                                notes |-> NotesOn(db, {c.hand})]
      [] c.kind \in {"write", "libraryWrite"} ->
            [type |-> "noteWritten", note |-> c.note, body |-> db.note[c.note].body]
      [] c.kind \in {"edit", "libraryEdit"} ->
            [type |-> "noteEdited", note |-> c.note, body |-> db.note[c.note].body]
      [] c.kind \in {"drop", "libraryDrop"} -> [type |-> "noteRemoved", note |-> c.note]
      [] c.kind \in {"undo", "libraryUndo"} ->
            [type |-> "noteRestored", note |-> c.note, body |-> db.note[c.note].body]

\* A change made from a Library is told to the Rooms that queue the Hand now.
Publish(t) ==
    LET c == task[t].does IN
    /\ task[t].at = "written"
    /\ IF c.kind \in FromLibrary /\ About[c.note] \notin db.queue
       THEN UNCHANGED <<revision, wire>>
       ELSE /\ revision' = revision + 1
            /\ wire' = Append(wire, [rev |-> revision + 1, says |-> Told(c)])
    /\ Finished(t)
    /\ UNCHANGED <<db, drawing, view, asked, drawn, crossed>>

----------------------------------------------------------------------------
(* A snapshot: the revision first, then its tables in any order, the state *)
(* before the Playback that depends on it.                                 *)

Draw ==
    /\ drawing = None /\ drawn < MaxSnapshots
    /\ drawing' = [rev |-> revision, left |-> {"state", "queue", "notes", "yours"},
                   says |-> [type |-> "snapshot", live |-> FALSE, play |-> None,
                             queue |-> {}, notes |-> NotesOn(db, {}), yours |-> None]]
    /\ drawn' = drawn + 1
    /\ UNCHANGED <<db, task, turn, revision, wire, view, asked, crossed>>

Read(table) ==
    /\ drawing # None /\ table \in drawing.left
    /\ LET next == IF table = "state" /\ db.live THEN {"playback"} ELSE {} IN
       drawing' = [drawing EXCEPT !.left = (@ \ {table}) \cup next,
          !.says = CASE table = "state" -> [@ EXCEPT !.live = db.live]
                     [] table = "playback" -> [@ EXCEPT !.play = db.play]
                     [] table = "queue" -> [@ EXCEPT !.queue = db.queue]
                     [] table = "notes" -> [@ EXCEPT !.notes = NotesOn(db, db.queue)]
                     [] table = "yours" -> [@ EXCEPT !.yours =
                                               IF db.yours \in db.queue THEN db.yours ELSE None]]
    /\ UNCHANGED <<db, task, turn, revision, wire, view, asked, drawn, crossed>>

\* Bug: the revision is read once everything else has been.
Send_LateRevision ==
    /\ drawing # None /\ drawing.left = {}
    /\ wire' = Append(wire, [rev |-> revision, says |-> drawing.says])
    /\ drawing' = None
    /\ UNCHANGED <<db, task, turn, revision, view, asked, drawn, crossed>>

Send ==
    /\ drawing # None /\ drawing.left = {}
    /\ wire' = Append(wire, [rev |-> drawing.rev, says |-> drawing.says])
    /\ drawing' = None
    /\ UNCHANGED <<db, task, turn, revision, view, asked, drawn, crossed>>

Next ==
    \/ Receive
    \/ \E s \in AnyStep : OwnWentTo(s)
    \/ \E t \in Task :
        \/ \E h \in Hand : Opens(t, h)
        \/ StartsLive(t) \/ Asks(t)
        \/ Check(t) \/ Write(t) \/ Publish(t)
    \/ Draw \/ Send
    \/ \E table \in {"state", "playback", "queue", "notes", "yours"} : Read(table)

Spec == Init /\ [][Next]_vars

----------------------------------------------------------------------------
(* Playback is always at a step the Timeline of its Hand has, on the       *)
(* server and on the browser's table, and there is none outside Live: a    *)
(* step checked against one Hand is never written over another             *)
(* (validActionIndex, inOrder).                                            *)
StepsExist == db # None =>
    /\ db.play # None => db.live /\ db.play.step < Steps[db.play.hand]
    /\ Shown(view) # None => Shown(view).step < Steps[Shown(view).hand]

Quiet ==
    /\ \A t \in Task : task[t] # Nothing => task[t].at = "asked"
    /\ wire = <<>> /\ drawing = None /\ ~view.owed

(* Once everything written has been told, the browser shows the Room as it *)
(* is, Live or not and at its Playback, whatever snapshots were drawn while *)
(* it changed; and so its Queue and the Notes on each Hand, but for those  *)
(* where commands crossed (reduceRoom, snapshot, inOrder).                 *)
ShowsTheRoom ==
    (db # None /\ Quiet) =>
        /\ view.live = db.live /\ view.play = db.play
        /\ \A h \in Hand \ crossed : h \in view.queue <=> h \in db.queue
        /\ \A n \in Note : About[n] \in db.queue \ crossed =>
               view.notes[n] = NotesOn(db, db.queue)[n]

(* A Hand that is back in the Queue is shown with the Notes it has by then *)
(* (undoRemoval: "Its Notes went with it when it was removed; they come    *)
(* back with it.").                                                        *)
NotesComeBack ==
    (db # None /\ Quiet) =>
        \A n \in Note : About[n] \in db.queue \cap view.queue =>
            view.notes[n] = NotesOn(db, db.queue)[n]

=============================================================================
