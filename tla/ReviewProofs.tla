---------------------------- MODULE ReviewProofs ----------------------------
(***************************************************************************)
(* Playback is at a step its Hand has, for any number of Hands, Notes and  *)
(* commands, and however they interleave with snapshots.                   *)
(*                                                                         *)
(* A step is checked against the Hand on the table and written later, so   *)
(* that StepsExist rests on nothing about Playback coming in between.  The *)
(* invariant says why nothing does: a command about Playback is past its   *)
(* check only when it is the first in turn (TurnOK), and what it checked   *)
(* still holds (Due).  The rest says what there is of everything the       *)
(* browser is yet to be told (Typed).                                      *)
(*                                                                         *)
(* And the browser comes to show the Room: ShowsTheRoom rests on what the  *)
(* browser will be once all that is on its way has come (Comes).  Each     *)
(* part of that is as the database has it, or a command that has written   *)
(* is about to tell of that part (UpToDate), and so it is of what a        *)
(* snapshot has read, as long as nothing was told since (DrawnAs).  Of the *)
(* Hands on which commands crossed (crossed) nothing of that is said.      *)
(***************************************************************************)
EXTENDS Review, WellFoundedInduction, TLAPS

(* What each part of the state is made of.                                 *)
Playback == {p \in [hand : Hand, step : Nat, hidden : BOOLEAN] : p.step < Steps[p.hand]}
Table    == Playback \cup {None}
Row      == [body : Body, removed : BOOLEAN]
Held     == [Note -> Body \cup {None}]

Room == [live : BOOLEAN, play : Table, queue : SUBSET Hand, yours : Hand \cup {None},
         note : [Note -> Row \cup {None}]]

Wanted == Command \cup [kind : {"start"}, hand : Hand \cup {None}, step : Nat]
Running == [at : {"idle"}, does : {None}]
      \cup [at : {"asked", "checked", "written"}, does : Wanted]

Drawn == [type : {"snapshot"}, live : BOOLEAN, play : Table, queue : SUBSET Hand,
          notes : Held, yours : Hand \cup {None}]
Message ==
         [type : {"liveStarted", "playbackChanged"}, play : Table]
    \cup [type : {"liveEnded"}]
    \cup [type : {"entryRemoved"}, hand : Hand]
    \cup [type : {"entryRestored"}, hand : Hand, notes : Held]
    \cup [type : {"noteWritten", "noteEdited", "noteRestored"}, note : Note, body : Body]
    \cup [type : {"noteRemoved"}, note : Note]
    \cup Drawn

Parcel == [rev : Nat, says : Message]

Drawing == [rev : Nat, left : SUBSET {"state", "playback", "queue", "notes", "yours"},
            says : Drawn]

Browser == [live : BOOLEAN, play : Table, queue : SUBSET Hand, notes : Held, own : Table,
            rev : Nat, seen : Nat, owed : BOOLEAN]

Typed ==
    /\ db \in Room
    /\ task \in [Task -> Running]
    /\ turn \in Seq(Task)
    /\ revision \in Nat
    /\ wire \in Seq(Parcel)
    /\ drawing \in Drawing \cup {None}
    /\ view \in Browser

(* The commands about Playback, and they alone, are in turn, each once;    *)
(* one that is past its check is the first.                                *)
TurnOK(k, queue) ==
    /\ \A i, j \in DOMAIN queue : queue[i] = queue[j] => i = j
    /\ \A i \in DOMAIN queue : k[queue[i]].at # "idle" /\ k[queue[i]].does.kind \in Shared
    /\ \A t \in Task : (k[t].at # "idle" /\ k[t].does.kind \in Shared) =>
         /\ \E i \in DOMAIN queue : queue[i] = t
         /\ k[t].at # "asked" => t = queue[1]

(* What a command saw of the Room d when it was checked, until it writes,  *)
(* and the Note it is about once it has.                                   *)
Due(k, d) ==
    LET c == k.does IN
    /\ k.at = "checked" /\ c.kind = "start" /\ c.hand # None => c.step < Steps[c.hand]
    /\ k.at = "checked" /\ c.kind = "load" => d.live
    /\ k.at = "checked" /\ c.kind = "goTo" /\ d.play # None => c.step < Steps[d.play.hand]
    /\ k.at = "checked" /\ c.kind \in {"edit", "drop", "undo", "libraryEdit", "libraryDrop",
                                       "libraryUndo"} => d.note[c.note] \in Row
    /\ k.at = "written" /\ c.kind \in OnNotes \cup FromLibrary => d.note[c.note] \in Row
    /\ k.at = "written" => c.kind # "open"

IInv ==
    /\ Typed /\ TurnOK(task, turn)
    /\ db.play # None => db.live
    /\ \A t \in Task : Due(task[t], db)

-----------------------------------------------------------------------------
(* What the operators of the model give.                                   *)

(* The first Hand of a Queue that has any is one of it.                    *)
LEMMA FirstIsQueued ==
    ASSUME NEW Q \in SUBSET Hand, Q # {}
    PROVE  First(Q) \in Q
<1> DEFINE T == {k \in DOMAIN Order : Order[k] \in Q}
<1>1. Order \in Seq(Hand) /\ DOMAIN Order = 1 .. Len(Order) /\ Len(Order) \in Nat
  BY OrderAssumption
<1>2. T \subseteq Nat /\ T # {}
  BY <1>1, OrderAssumption
<1>3. PICK k \in T : \A j \in T : ~(<<j, k>> \in OpToRel(<, Nat))
  BY <1>2, WFMin, NatLessThanWellFounded
<1>4. \A j \in 1 .. (k - 1) : Order[j] \notin Q
  <2> SUFFICES ASSUME NEW j \in 1 .. (k - 1), Order[j] \in Q  PROVE FALSE
    OBVIOUS
  <2>1. j \in T /\ j < k /\ j \in Nat /\ k \in Nat
    BY <1>1
  <2>2. <<j, k>> \in OpToRel(<, Nat)
    BY <2>1 DEF OpToRel
  <2> QED  BY <1>3, <2>1, <2>2
<1>5. \E n \in DOMAIN Order : Order[n] \in Q /\ \A j \in 1 .. (n - 1) : Order[j] \notin Q
  BY <1>4
<1> QED  BY <1>5 DEF First

LEMMA AtIsPlayback == \A h \in Hand : At(h) \in Playback
BY StepsAssumption DEF At, Playback

LEMMA OwnTyped ==
    ASSUME NEW held \in Table, NEW yours \in Hand \cup {None}, NEW Q \in SUBSET Hand
    PROVE  OwnAfterSnapshot(held, yours, Q) \in Table
BY FirstIsQueued, AtIsPlayback DEF OwnAfterSnapshot, Table

LEMMA NotesTyped ==
    ASSUME NEW d \in Room, NEW hands
    PROVE  NotesOn(d, hands) \in Held
<1>1. d.note \in [Note -> Row \cup {None}]
  BY DEF Room
<1>2. ASSUME NEW n \in Note, Standing(d, n)  PROVE d.note[n].body \in Body
  BY <1>1, <1>2 DEF Standing, Row
<1> QED  BY <1>2 DEF NotesOn, Held

(* What a command asks for, by its kind.                                   *)
LEMMA WantedHas ==
    ASSUME NEW c \in Wanted
    PROVE  /\ c.kind = "start" => c.hand \in Hand \cup {None} /\ c.step \in Nat
           /\ c.kind \in {"load", "open", "remove", "restore"} => c.hand \in Hand
           /\ c.kind = "goTo" => c.step \in Nat
           /\ c.kind = "hide" => c.hidden \in BOOLEAN
           /\ c.kind \in OnNotes \cup FromLibrary => c.note \in Note
           /\ c.kind \in {"write", "edit", "libraryWrite", "libraryEdit"} => c.body \in Body
           /\ c.kind \in Shared \cup {"open", "remove", "restore"} \cup OnNotes \cup FromLibrary
BY DEF Wanted, Command, AnyStep, OnNotes, FromLibrary, Shared

LEMMA RunningIs ==
    ASSUME NEW k \in Running
    PROVE  /\ k.at \in {"idle", "asked", "checked", "written"}
           /\ k.at # "idle" => k.does \in Wanted /\ k = [at |-> k.at, does |-> k.does]
           /\ k.at = "idle" => k = Nothing
BY DEF Running, Nothing

(* What a message says, by its type.                                       *)
LEMMA MessageSays ==
    ASSUME NEW m \in Message
    PROVE  /\ m.type \in {"liveStarted", "playbackChanged"} => m.play \in Table
           /\ m.type \in {"entryRemoved", "entryRestored"} => m.hand \in Hand
           /\ m.type = "entryRestored" => m.notes \in Held
           /\ m.type \in {"noteWritten", "noteEdited", "noteRestored"} =>
                  m.note \in Note /\ m.body \in Body
           /\ m.type = "noteRemoved" => m.note \in Note
           /\ m.type = "snapshot" => m \in Drawn
           /\ m.type \in {"liveStarted", "playbackChanged", "liveEnded", "entryRemoved",
                          "entryRestored", "noteWritten", "noteEdited", "noteRestored",
                          "noteRemoved", "snapshot"}
BY DEF Message, Drawn
-----------------------------------------------------------------------------
(* The browser.                                                            *)

LEMMA PlaybackApplied ==
    ASSUME NEW v \in Browser, NEW m \in Message,
           m.type \in {"liveStarted", "liveEnded", "playbackChanged"}
    PROVE  Applied(v, m) \in Browser
<1>1. Applied(v, m) = AppliedToPlayback(v, m)
  BY DEF Applied
<1>2. CASE m.type = "liveStarted"
  BY <1>1, <1>2, MessageSays DEF AppliedToPlayback, Browser
<1>3. CASE m.type = "liveEnded"
  <2>1. AppliedToPlayback(v, m) = [v EXCEPT !.live = FALSE, !.play = None,
                                            !.own = IF v.play # None THEN v.play ELSE @]
    BY <1>3 DEF AppliedToPlayback
  <2> QED  BY <1>1, <2>1 DEF Browser, Table
<1>4. CASE m.type = "playbackChanged"
  <2>1. AppliedToPlayback(v, m) = [v EXCEPT !.play = m.play]
    BY <1>4 DEF AppliedToPlayback
  <2> QED  BY <1>1, <1>4, <2>1, MessageSays DEF Browser
<1> QED  BY <1>2, <1>3, <1>4

LEMMA QueueApplied ==
    ASSUME NEW v \in Browser, NEW m \in Message, m.type \in {"entryRemoved", "entryRestored"}
    PROVE  Applied(v, m) \in Browser
<1>1. Applied(v, m) = AppliedToQueue(v, m) /\ m.hand \in Hand
  BY MessageSays DEF Applied
<1>2. CASE m.type = "entryRemoved"
  <2>1. AppliedToQueue(v, m) = [v EXCEPT !.queue = @ \ {m.hand}]
    BY <1>2 DEF AppliedToQueue
  <2> QED  BY <1>1, <2>1 DEF Browser
<1>3. CASE m.type = "entryRestored"
  <2>1. AppliedToQueue(v, m) = [v EXCEPT !.queue = @ \cup {m.hand},
                                         !.notes = Fresh(@, m.notes)]
    BY <1>3 DEF AppliedToQueue
  <2>2. v.notes \in Held /\ m.notes \in Held
    BY <1>3, MessageSays DEF Browser
  <2>3. Fresh(v.notes, m.notes) \in Held
    BY <2>2 DEF Fresh, Held
  <2>4. v.queue \cup {m.hand} \in SUBSET Hand
    BY <1>1 DEF Browser
  <2>5. AppliedToQueue(v, m) = [v EXCEPT !.queue = v.queue \cup {m.hand},
                                         !.notes = Fresh(v.notes, m.notes)]
    BY <2>1
  <2> QED  BY <1>1, <2>3, <2>4, <2>5 DEF Browser
<1> QED  BY <1>2, <1>3

LEMMA NotesApplied ==
    ASSUME NEW v \in Browser, NEW m \in Message,
           m.type \in {"noteWritten", "noteEdited", "noteRestored", "noteRemoved"}
    PROVE  Applied(v, m) \in Browser
<1>1. Applied(v, m) = AppliedToNotes(v, m) /\ m.note \in Note /\ v.notes \in Held
  BY MessageSays DEF Applied, Browser
<1>2. \A x \in Body \cup {None} : [v.notes EXCEPT ![m.note] = x] \in Held
  BY <1>1 DEF Held
<1>3. ASSUME NEW x \in Body \cup {None}
      PROVE  [v EXCEPT !.notes[m.note] = x] \in Browser
  BY <1>2 DEF Browser
<1>4. v.notes[m.note] \in Body \cup {None}
  BY <1>1 DEF Held
<1>5. CASE m.type = "noteWritten"
  <2>1. AppliedToNotes(v, m) = [v EXCEPT !.notes[m.note] = IF @ # None THEN @ ELSE m.body]
    BY <1>5 DEF AppliedToNotes
  <2> QED  BY <1>1, <1>3, <1>4, <1>5, <2>1, MessageSays
<1>6. CASE m.type = "noteEdited"
  <2>1. AppliedToNotes(v, m) = [v EXCEPT !.notes[m.note] = IF @ # None THEN m.body ELSE @]
    BY <1>6 DEF AppliedToNotes
  <2> QED  BY <1>1, <1>3, <1>4, <1>6, <2>1, MessageSays
<1>7. CASE m.type = "noteRemoved"
  <2>1. AppliedToNotes(v, m) = [v EXCEPT !.notes[m.note] = None]
    BY <1>7 DEF AppliedToNotes
  <2> QED  BY <1>1, <1>3, <2>1
<1>8. CASE m.type = "noteRestored"
  <2>1. AppliedToNotes(v, m) = [v EXCEPT !.notes[m.note] = m.body]
    BY <1>8 DEF AppliedToNotes
  <2> QED  BY <1>1, <1>3, <1>8, <2>1, MessageSays
<1> QED  BY <1>5, <1>6, <1>7, <1>8

LEMMA ChangeTyped ==
    ASSUME NEW v \in Browser, NEW m \in Message, NEW rev \in Nat, m.type # "snapshot"
    PROVE  Change(v, rev, m) \in Browser
<1> DEFINE seen == [v EXCEPT !.seen = IF rev > @ THEN rev ELSE @]
<1>1. seen \in Browser
  <2>1. (IF rev > v.seen THEN rev ELSE v.seen) \in Nat
    BY DEF Browser
  <2>2. seen = [v EXCEPT !.seen = IF rev > v.seen THEN rev ELSE v.seen]
    OBVIOUS
  <2> QED  BY <2>1, <2>2 DEF Browser
<1>2. Applied(seen, m) \in Browser
  <2> HIDE DEF seen
  <2> QED  BY <1>1, PlaybackApplied, QueueApplied, NotesApplied, MessageSays
<1>3. [seen EXCEPT !.owed = TRUE] \in Browser
  <2> HIDE DEF seen
  <2> QED  BY <1>1 DEF Browser
<1>4. [Applied(seen, m) EXCEPT !.rev = rev] \in Browser
  <2> HIDE DEF seen
  <2> QED  BY <1>2 DEF Browser
<1> QED  BY <1>1, <1>3, <1>4 DEF Change

LEMMA SnapshotTyped ==
    ASSUME NEW v \in Browser, NEW s \in Drawn, NEW rev \in Nat
    PROVE  Snapshot(v, rev, s) \in Browser
<1>1. /\ s.live \in BOOLEAN /\ s.play \in Table /\ s.queue \in SUBSET Hand
      /\ s.notes \in Held /\ s.yours \in Hand \cup {None}
  BY DEF Drawn
<1>2. v.seen \in Nat /\ v.own \in Table /\ None \in Table
  BY DEF Browser, Table
<1>3. OwnAfterSnapshot(IF v.live THEN None ELSE v.own, s.yours, s.queue) \in Table
  BY <1>1, <1>2, OwnTyped
<1> QED  BY <1>1, <1>2, <1>3 DEF Snapshot, Browser

LEMMA ReceiveTyped ==
    ASSUME Typed, Receive
    PROVE  view' \in Browser /\ wire' \in Seq(Parcel)
<1>1. wire # <<>> /\ wire \in Seq(Parcel) /\ view \in Browser
  BY DEF Typed, Receive
<1>2. Head(wire) \in Parcel /\ Tail(wire) \in Seq(Parcel)
  BY <1>1
<1>3. Head(wire).rev \in Nat /\ Head(wire).says \in Message
  BY <1>2 DEF Parcel
<1>4. CASE Head(wire).says.type = "snapshot"
  <2>1. view' = Snapshot(view, Head(wire).rev, Head(wire).says)
    BY <1>4 DEF Receive
  <2> QED  BY <1>1, <1>2, <1>3, <1>4, <2>1, MessageSays, SnapshotTyped DEF Receive
<1>5. CASE Head(wire).says.type # "snapshot"
  <2>1. view' = Change(view, Head(wire).rev, Head(wire).says)
    BY <1>5 DEF Receive
  <2> QED  BY <1>1, <1>2, <1>3, <1>5, <2>1, ChangeTyped DEF Receive
<1> QED  BY <1>4, <1>5

LEMMA OwnWentToTyped ==
    ASSUME Typed, NEW s \in AnyStep, OwnWentTo(s)
    PROVE  view' \in Browser
<1>1. /\ view \in Browser /\ view.own \in Playback /\ s \in Nat /\ s < Steps[view.own.hand]
      /\ view' = [view EXCEPT !.own.step = s]
  BY DEF Typed, OwnWentTo, Browser, Table, AnyStep
<1>2. [view.own EXCEPT !.step = s] \in Playback
  BY <1>1 DEF Playback
<1> QED  BY <1>1, <1>2 DEF Browser, Table
-----------------------------------------------------------------------------
(* The server's writes.                                                    *)

(* What the check of a command finds is what it is due.                    *)
LEMMA ValidIsDue ==
    ASSUME NEW c \in Wanted, db \in Room, Valid(c)
    PROVE  Due([at |-> "checked", does |-> c], db)
<1>1. c.kind = "start" /\ c.hand # None => c.step < Steps[c.hand]
  BY DEF Valid
<1>2. c.kind = "load" => db.live
  BY DEF Valid
<1>3. c.kind = "goTo" => c.step < Steps[db.play.hand]
  BY DEF Valid
<1>4. c.kind \in {"edit", "drop", "undo", "libraryEdit", "libraryDrop", "libraryUndo"} =>
        db.note[c.note] # None
  BY DEF Valid, Standing
<1>5. c.kind \in OnNotes \cup FromLibrary => db.note[c.note] \in Row \cup {None}
  BY WantedHas DEF Room
<1> QED  BY <1>1, <1>2, <1>3, <1>4, <1>5 DEF Due, OnNotes, FromLibrary

(* Writing a command about Playback.                                       *)
LEMMA PlaybackWritten ==
    ASSUME NEW c \in Wanted, NEW d \in Room, c.kind \in Shared,
           Due([at |-> "checked", does |-> c], d), d.play # None => d.live,
           c.kind \in {"goTo", "hide"} => d.play # None
    PROVE  /\ Written(d, c) \in Room
           /\ Written(d, c).play # None => Written(d, c).live
           /\ Written(d, c).note = d.note
<1>1. /\ d.live \in BOOLEAN /\ d.play \in Table /\ d.queue \in SUBSET Hand
      /\ d.yours \in Hand \cup {None} /\ None \in Table
  BY DEF Room, Table
<1>2. CASE c.kind = "start"
  <2> DEFINE p == IF c.hand = None THEN d.play
                  ELSE [hand |-> c.hand, step |-> c.step, hidden |-> FALSE]
  <2>1. p \in Table
    BY <1>1, <1>2, WantedHas DEF Due, Table, Playback
  <2>2. Written(d, c) = [d EXCEPT !.live = TRUE, !.play = p]
    BY <1>2 DEF Written
  <2> HIDE DEF p
  <2> QED  BY <2>1, <2>2 DEF Room
<1>3. CASE c.kind = "end"
  <2> DEFINE y == IF d.play # None /\ d.play.hand \in d.queue THEN d.play.hand ELSE d.yours
  <2>1. y \in Hand \cup {None}
    BY <1>1 DEF Table, Playback
  <2>2. Written(d, c) = [d EXCEPT !.live = FALSE, !.play = None, !.yours = y]
    BY <1>3 DEF Written, Ended
  <2> HIDE DEF y
  <2> QED  BY <1>1, <2>1, <2>2 DEF Room
<1>4. CASE c.kind = "load"
  <2>1. At(c.hand) \in Table /\ d.live
    BY <1>4, WantedHas, AtIsPlayback DEF Due, Table
  <2>2. Written(d, c) = [d EXCEPT !.play = At(c.hand)]
    BY <1>4 DEF Written
  <2> QED  BY <2>1, <2>2 DEF Room
<1>5. CASE c.kind = "goTo"
  <2>1. d.play \in Playback /\ c.step \in Nat /\ c.step < Steps[d.play.hand] /\ d.live
    BY <1>1, <1>5, WantedHas DEF Due, Table
  <2>2. [d.play EXCEPT !.step = c.step] \in Table
    BY <2>1 DEF Playback, Table
  <2>3. Written(d, c) = [d EXCEPT !.play = [d.play EXCEPT !.step = c.step]]
    BY <1>5 DEF Written
  <2> QED  BY <2>1, <2>2, <2>3 DEF Room
<1>6. CASE c.kind = "hide"
  <2>1. d.play \in Playback /\ c.hidden \in BOOLEAN /\ d.live
    BY <1>1, <1>6, WantedHas DEF Table
  <2>2. [d.play EXCEPT !.hidden = c.hidden] \in Table
    BY <2>1 DEF Playback, Table
  <2>3. Written(d, c) = [d EXCEPT !.play = [d.play EXCEPT !.hidden = c.hidden]]
    BY <1>6 DEF Written
  <2> QED  BY <2>1, <2>2, <2>3 DEF Room
<1> QED  BY <1>2, <1>3, <1>4, <1>5, <1>6 DEF Shared

(* Writing about an Entry.                                                 *)
LEMMA EntryWritten ==
    ASSUME NEW c \in Wanted, NEW d \in Room, c.kind \in {"open", "remove", "restore"}
    PROVE  /\ Written(d, c) \in Room
           /\ Written(d, c).play = d.play /\ Written(d, c).live = d.live
           /\ Written(d, c).note = d.note
<1>1. c.hand \in Hand /\ d.queue \in SUBSET Hand
  BY WantedHas DEF Room
<1>2. CASE c.kind = "open"
  <2>1. Written(d, c) = [d EXCEPT !.yours = c.hand]
    BY <1>2 DEF Written
  <2> QED  BY <1>1, <2>1 DEF Room
<1>3. CASE c.kind = "remove"
  <2>1. Written(d, c) = [d EXCEPT !.queue = d.queue \ {c.hand}]
    BY <1>3 DEF Written
  <2> QED  BY <1>1, <2>1 DEF Room
<1>4. CASE c.kind = "restore"
  <2>1. Written(d, c) = [d EXCEPT !.queue = d.queue \cup {c.hand}]
    BY <1>4 DEF Written
  <2>2. d.queue \cup {c.hand} \in SUBSET Hand
    BY <1>1
  <2> QED  BY <2>1, <2>2 DEF Room
<1> QED  BY <1>2, <1>3, <1>4

(* Writing a Note: the one it is about is there, and no other goes.        *)
LEMMA NoteWritten ==
    ASSUME NEW c \in Wanted, NEW d \in Room, c.kind \in OnNotes \cup FromLibrary,
           Due([at |-> "checked", does |-> c], d)
    PROVE  /\ Written(d, c) \in Room
           /\ Written(d, c).play = d.play /\ Written(d, c).live = d.live
           /\ Written(d, c).note[c.note] \in Row
           /\ \A n \in Note : d.note[n] \in Row => Written(d, c).note[n] \in Row
<1>1. c.note \in Note /\ d.note \in [Note -> Row \cup {None}]
  BY WantedHas DEF Room
<1>2. ASSUME NEW x \in Row, Written(d, c) = [d EXCEPT !.note = [d.note EXCEPT ![c.note] = x]]
      PROVE  /\ Written(d, c) \in Room
             /\ Written(d, c).play = d.play /\ Written(d, c).live = d.live
             /\ Written(d, c).note[c.note] \in Row
             /\ \A n \in Note : d.note[n] \in Row => Written(d, c).note[n] \in Row
  <2> DEFINE notes == [d.note EXCEPT ![c.note] = x]
  <2>1. /\ notes \in [Note -> Row \cup {None}] /\ notes[c.note] \in Row
        /\ \A n \in Note : d.note[n] \in Row => notes[n] \in Row
    BY <1>1
  <2>2. Written(d, c) = [d EXCEPT !.note = notes]
    BY <1>2
  <2> HIDE DEF notes
  <2> QED  BY <2>1, <2>2 DEF Room
<1>3. CASE c.kind \in {"write", "libraryWrite"}
  <2>1. Written(d, c) = [d EXCEPT !.note[c.note] = [body |-> c.body, removed |-> FALSE]]
    BY <1>3 DEF Written
  <2>2. [body |-> c.body, removed |-> FALSE] \in Row
    BY <1>3, WantedHas DEF Row
  <2> QED  BY <1>2, <2>1, <2>2
<1>4. CASE c.kind \in {"edit", "libraryEdit"}
  <2>1. Written(d, c) = [d EXCEPT !.note[c.note].body = c.body]
    BY <1>4 DEF Written
  <2>2. [d.note[c.note] EXCEPT !.body = c.body] \in Row
    BY <1>4, WantedHas DEF Due, Row
  <2> QED  BY <1>2, <2>1, <2>2
<1>5. CASE c.kind \in {"drop", "libraryDrop"}
  <2>1. Written(d, c) = [d EXCEPT !.note[c.note].removed = TRUE]
    BY <1>5 DEF Written
  <2>2. [d.note[c.note] EXCEPT !.removed = TRUE] \in Row
    BY <1>5 DEF Due, Row
  <2> QED  BY <1>2, <2>1, <2>2
<1>6. CASE c.kind \in {"undo", "libraryUndo"}
  <2>1. Written(d, c) = [d EXCEPT !.note[c.note].removed = FALSE]
    BY <1>6 DEF Written
  <2>2. [d.note[c.note] EXCEPT !.removed = FALSE] \in Row
    BY <1>6 DEF Due, Row
  <2> QED  BY <1>2, <2>1, <2>2
<1> QED  BY <1>3, <1>4, <1>5, <1>6 DEF OnNotes, FromLibrary

(* What is told of a command that was written is a message.                *)
LEMMA ToldTyped ==
    ASSUME NEW c \in Wanted, db \in Room, c.kind # "open",
           Due([at |-> "written", does |-> c], db)
    PROVE  Told(c) \in Message
<1>1. db.play \in Table /\ None \in Table /\ NotesOn(db, {c.hand}) \in Held
  BY NotesTyped DEF Room, Table
<1>2. CASE c.kind = "start"
  <2>1. Told(c) = [type |-> "liveStarted", play |-> IF c.hand = None THEN None ELSE db.play]
    BY <1>2 DEF Told
  <2> QED  BY <1>1, <2>1 DEF Message
<1>3. CASE c.kind = "end"
  BY <1>3 DEF Told, Message
<1>4. CASE c.kind \in {"load", "goTo", "hide"}
  <2>1. Told(c) = [type |-> "playbackChanged", play |-> db.play]
    BY <1>4 DEF Told
  <2> QED  BY <1>1, <2>1 DEF Message
<1>5. CASE c.kind = "remove"
  <2>1. Told(c) = [type |-> "entryRemoved", hand |-> c.hand]
    BY <1>5 DEF Told
  <2> QED  BY <1>5, <2>1, WantedHas DEF Message
<1>6. CASE c.kind = "restore"
  <2>1. Told(c) = [type |-> "entryRestored", hand |-> c.hand, notes |-> NotesOn(db, {c.hand})]
    BY <1>6 DEF Told
  <2>2. c.hand \in Hand
    BY <1>6, WantedHas
  <2> QED  BY <1>1, <2>1, <2>2 DEF Message
<1>7. CASE c.kind \in OnNotes \cup FromLibrary
  <2>1. c.note \in Note /\ db.note[c.note].body \in Body
    BY <1>7, WantedHas DEF Due, Row
  <2>2. \/ \E type \in {"noteWritten", "noteEdited", "noteRestored"} :
             Told(c) = [type |-> type, note |-> c.note, body |-> db.note[c.note].body]
        \/ Told(c) = [type |-> "noteRemoved", note |-> c.note]
    BY <1>7 DEF Told, OnNotes, FromLibrary
  <2> QED  BY <2>1, <2>2 DEF Message
<1> QED  BY <1>2, <1>3, <1>4, <1>5, <1>6, <1>7, WantedHas DEF Shared
-----------------------------------------------------------------------------
(* The turn of the commands about Playback.                                *)

LEMMA TurnJoined ==
    ASSUME NEW k \in [Task -> Running], NEW queue \in Seq(Task), TurnOK(k, queue),
           NEW t \in Task, k[t].at = "idle", NEW c \in Wanted,
           NEW k2, k2 = [k EXCEPT ![t] = [at |-> "asked", does |-> c]],
           NEW queue2, queue2 = IF c.kind \in Shared THEN Append(queue, t) ELSE queue
    PROVE  queue2 \in Seq(Task) /\ TurnOK(k2, queue2)
<1>1. /\ Len(queue) \in Nat /\ DOMAIN queue = 1 .. Len(queue)
      /\ \A i \in 1 .. Len(queue) : queue[i] \in Task
      /\ queue2 \in Seq(Task)
  OBVIOUS
<1>2. \A i \in 1 .. Len(queue) : queue[i] # t
  BY <1>1 DEF TurnOK
<1>3. /\ k2[t] = [at |-> "asked", does |-> c]
      /\ \A u \in Task \ {t} : k2[u] = k[u]
  OBVIOUS
<1>4. k2[t].at = "asked" /\ k2[t].does = c
  BY <1>3
<1>5. CASE c.kind \notin Shared
  <2>1. queue2 = queue
    BY <1>5
  <2> QED  BY <1>1, <1>2, <1>3, <1>4, <1>5, <2>1 DEF TurnOK
<1>6. CASE c.kind \in Shared
  <2>1. /\ DOMAIN queue2 = 1 .. Len(queue) + 1
        /\ \A i \in 1 .. Len(queue) : queue2[i] = queue[i]
        /\ queue2[Len(queue) + 1] = t
    BY <1>1, <1>6
  <2>2. \A i \in DOMAIN queue2 : i \in 1 .. Len(queue) \/ i = Len(queue) + 1
    BY <1>1, <2>1
  <2>3. \A i, j \in DOMAIN queue2 : queue2[i] = queue2[j] => i = j
    BY <1>1, <1>2, <2>1, <2>2 DEF TurnOK
  <2>4. \A i \in DOMAIN queue2 : k2[queue2[i]].at # "idle" /\ k2[queue2[i]].does.kind \in Shared
    BY <1>1, <1>2, <1>3, <1>4, <1>6, <2>1, <2>2 DEF TurnOK
  <2>5. ASSUME NEW u \in Task, k2[u].at # "idle", k2[u].does.kind \in Shared
        PROVE  /\ \E i \in DOMAIN queue2 : queue2[i] = u
               /\ k2[u].at # "asked" => u = queue2[1]
    <3>1. CASE u = t
      <4>1. Len(queue) + 1 \in DOMAIN queue2
        BY <1>1, <2>1
      <4> QED  BY <1>4, <2>1, <3>1, <4>1
    <3>2. CASE u # t
      <4>1. PICK i \in 1 .. Len(queue) : queue[i] = u
        BY <1>1, <1>3, <2>5, <3>2 DEF TurnOK
      <4>2. i \in DOMAIN queue2 /\ 1 \in 1 .. Len(queue)
        BY <1>1, <2>1
      <4>3. queue2[i] = u /\ queue2[1] = queue[1]
        BY <2>1, <4>1, <4>2
      <4>4. k[u].at # "asked" => u = queue[1]
        BY <1>3, <2>5, <3>2 DEF TurnOK
      <4> QED  BY <1>3, <3>2, <4>2, <4>3, <4>4
    <3> QED  BY <3>1, <3>2
  <2> QED  BY <1>1, <2>3, <2>4, <2>5 DEF TurnOK
<1> QED  BY <1>5, <1>6

(* Whoever is past the check, or in turn for it, moves on.                 *)
LEMMA TurnMoved ==
    ASSUME NEW k \in [Task -> Running], NEW queue \in Seq(Task), TurnOK(k, queue),
           NEW t \in Task, k[t].at # "idle", NEW at \in {"checked", "written"},
           k[t].does.kind \in Shared => t = queue[1]
    PROVE  TurnOK([k EXCEPT ![t].at = at], queue)
<1> DEFINE k2 == [k EXCEPT ![t].at = at]
<1>1. k[t] = [at |-> k[t].at, does |-> k[t].does]
  BY RunningIs
<1>2. /\ k2[t] = [k[t] EXCEPT !.at = at]
      /\ \A u \in Task \ {t} : k2[u] = k[u]
  OBVIOUS
<1>3. k2[t].at = at /\ k2[t].does = k[t].does
  BY <1>1, <1>2
<1>4. \A i \in DOMAIN queue : queue[i] \in Task
  OBVIOUS
<1> HIDE DEF k2
<1> QED  BY <1>2, <1>3, <1>4 DEF TurnOK

(* One that is over leaves the others as they were.                        *)
LEMMA TurnLeft ==
    ASSUME NEW k \in [Task -> Running], NEW queue \in Seq(Task), TurnOK(k, queue),
           NEW t \in Task, k[t].at # "idle", k[t].does.kind \in Shared => t = queue[1],
           NEW k2, k2 = [k EXCEPT ![t] = Nothing],
           NEW queue2, queue2 = IF k[t].does.kind \in Shared THEN Tail(queue) ELSE queue
    PROVE  queue2 \in Seq(Task) /\ TurnOK(k2, queue2)
<1>1. /\ Len(queue) \in Nat /\ DOMAIN queue = 1 .. Len(queue)
      /\ \A i \in 1 .. Len(queue) : queue[i] \in Task
  OBVIOUS
<1>2. k2[t].at = "idle" /\ \A u \in Task \ {t} : k2[u] = k[u]
  BY DEF Nothing
<1>3. CASE k[t].does.kind \notin Shared
  <2>1. queue2 = queue /\ \A i \in DOMAIN queue : queue[i] # t
    BY <1>3 DEF TurnOK
  <2>2. \A i \in DOMAIN queue : k2[queue[i]] = k[queue[i]]
    BY <1>1, <1>2, <2>1
  <2>3. \A u \in Task : k2[u].at # "idle" => k2[u] = k[u]
    BY <1>2
  <2> QED  BY <2>1, <2>2, <2>3 DEF TurnOK
<1>4. CASE k[t].does.kind \in Shared
  <2>1. queue # <<>> /\ t = queue[1] /\ 1 \in DOMAIN queue
    BY <1>1, <1>4 DEF TurnOK
  <2>2. /\ queue2 \in Seq(Task) /\ Len(queue2) = Len(queue) - 1
        /\ \A i \in 1 .. Len(queue) - 1 : queue2[i] = queue[i + 1]
    BY <1>1, <1>4, <2>1
  <2>3. DOMAIN queue2 = 1 .. Len(queue) - 1
    <3>1. \A s \in Seq(Task) : DOMAIN s = 1 .. Len(s)
      OBVIOUS
    <3> QED  BY <2>2, <3>1
  <2>4. \A i \in 1 .. Len(queue) - 1 : i + 1 \in DOMAIN queue /\ i + 1 # 1
    BY <1>1
  <2>5. ASSUME NEW i \in DOMAIN queue2, NEW j \in DOMAIN queue2, queue2[i] = queue2[j]
        PROVE  i = j
    <3>1. queue[i + 1] = queue[j + 1] /\ i + 1 \in DOMAIN queue /\ j + 1 \in DOMAIN queue
      BY <2>2, <2>3, <2>4, <2>5
    <3>2. i + 1 = j + 1
      BY <3>1 DEF TurnOK
    <3> QED  BY <1>1, <2>3, <3>2
  <2>6. \A i \in DOMAIN queue2 : queue2[i] # t /\ queue2[i] \in Task
    <3> SUFFICES ASSUME NEW i \in DOMAIN queue2  PROVE queue2[i] # t /\ queue2[i] \in Task
      OBVIOUS
    <3>1. queue2[i] = queue[i + 1] /\ i + 1 \in DOMAIN queue /\ i + 1 # 1
      BY <2>2, <2>3, <2>4
    <3> QED  BY <1>1, <2>1, <3>1 DEF TurnOK
  <2>7. \A i \in DOMAIN queue2 : k2[queue2[i]].at # "idle" /\ k2[queue2[i]].does.kind \in Shared
    BY <1>2, <2>2, <2>3, <2>4, <2>6 DEF TurnOK
  <2>8. ASSUME NEW u \in Task, k2[u].at # "idle", k2[u].does.kind \in Shared
        PROVE  /\ \E i \in DOMAIN queue2 : queue2[i] = u
               /\ k2[u].at = "asked"
    <3>1. u # t /\ k2[u] = k[u]
      BY <1>2, <2>8
    <3>2. PICK i \in DOMAIN queue : queue[i] = u
      BY <2>8, <3>1 DEF TurnOK
    <3>3. i - 1 \in 1 .. Len(queue) - 1 /\ (i - 1) + 1 = i
      BY <1>1, <2>1, <3>1, <3>2
    <3> QED  BY <2>1, <2>2, <2>3, <2>8, <3>1, <3>2, <3>3 DEF TurnOK
  <2> QED  BY <2>2, <2>5, <2>6, <2>7, <2>8 DEF TurnOK
<1> QED  BY <1>3, <1>4
-----------------------------------------------------------------------------
(* The steps.                                                              *)

LEMMA NothingIsDue == \A d : Due(Nothing, d)
BY DEF Due, Nothing

(* What was due of one Room is due of another with the same Playback, if   *)
(* that is what it is about, and the Notes that were there.                *)
LEMMA StillDue ==
    ASSUME NEW k \in Running, NEW d, NEW e, Due(k, d),
           k.at = "checked" /\ k.does.kind \in Shared => e.play = d.play /\ e.live = d.live,
           \A n \in Note : d.note[n] \in Row => e.note[n] \in Row
    PROVE  Due(k, e)
<1>1. k.at # "idle" /\ k.does.kind \in OnNotes \cup FromLibrary => k.does.note \in Note
  BY RunningIs, WantedHas
<1> QED  BY <1>1 DEF Due, Shared, OnNotes, FromLibrary

(* A command that is over leaves what is asked of the others.              *)
LEMMA Settles ==
    ASSUME Typed, TurnOK(task, turn), NEW t \in Task, task[t].at # "idle", Finished(t),
           task[t].does.kind \in Shared => t = turn[1]
    PROVE  /\ task' \in [Task -> Running] /\ turn' \in Seq(Task) /\ TurnOK(task', turn')
           /\ task'[t] = Nothing /\ \A u \in Task \ {t} : task'[u] = task[u]
<1>1. /\ task \in [Task -> Running] /\ turn \in Seq(Task) /\ Nothing \in Running
      /\ task' = [task EXCEPT ![t] = Nothing]
      /\ turn' = IF task[t].does.kind \in Shared THEN Tail(turn) ELSE turn
  BY DEF Typed, Finished, Running, Nothing
<1>2. turn' \in Seq(Task) /\ TurnOK(task', turn')
  BY <1>1, TurnLeft
<1> QED  BY <1>1, <1>2

(* A command that goes on.                                                 *)
LEMMA GoesOn ==
    ASSUME Typed, TurnOK(task, turn), NEW t \in Task, task[t].at # "idle",
           NEW at \in {"checked", "written"}, task' = [task EXCEPT ![t].at = at],
           UNCHANGED turn, task[t].does.kind \in Shared => t = turn[1]
    PROVE  /\ task' \in [Task -> Running] /\ turn' \in Seq(Task) /\ TurnOK(task', turn')
           /\ task'[t] = [at |-> at, does |-> task[t].does]
           /\ \A u \in Task \ {t} : task'[u] = task[u]
<1>1. task \in [Task -> Running] /\ turn \in Seq(Task) /\ turn' = turn
  BY DEF Typed
<1>2. /\ task[t].does \in Wanted /\ task[t] = [at |-> task[t].at, does |-> task[t].does]
  BY <1>1, RunningIs
<1>3. /\ task'[t] = [task[t] EXCEPT !.at = at]
      /\ \A u \in Task \ {t} : task'[u] = task[u]
  BY <1>1
<1>4. task'[t] = [at |-> at, does |-> task[t].does]
  BY <1>2, <1>3
<1>5. task'[t] \in Running
  BY <1>2, <1>4 DEF Running
<1>6. TurnOK(task', turn')
  BY <1>1, TurnMoved
<1> QED  BY <1>1, <1>3, <1>4, <1>5, <1>6

(* A step of the browser's or of a snapshot's leaves the commands be.      *)
LEMMA LooksOnly ==
    ASSUME IInv, UNCHANGED <<db, task, turn>>,
           revision' \in Nat, wire' \in Seq(Parcel), drawing' \in Drawing \cup {None},
           view' \in Browser
    PROVE  IInv'
BY DEF IInv, Typed, TurnOK, Due

LEMMA AskSteps ==
    ASSUME IInv, NEW t \in Task, NEW c \in Wanted, Ask(t, c), view' \in Browser
    PROVE  IInv'
<1>1. /\ task[t] = Nothing /\ task \in [Task -> Running] /\ turn \in Seq(Task)
      /\ TurnOK(task, turn) /\ \A u \in Task : Due(task[u], db)
      /\ task' = [task EXCEPT ![t] = [at |-> "asked", does |-> c]]
      /\ turn' = IF c.kind \in Shared THEN Append(turn, t) ELSE turn
      /\ UNCHANGED <<db, revision, wire, drawing>>
  BY DEF IInv, Typed, Ask
<1>2. task[t].at = "idle"
  BY <1>1 DEF Nothing
<1>3. [at |-> "asked", does |-> c] \in Running
  BY DEF Running
<1>4. task' \in [Task -> Running]
  BY <1>1, <1>3
<1>5. turn' \in Seq(Task) /\ TurnOK(task', turn')
  BY <1>1, <1>2, TurnJoined
<1>6. Due([at |-> "asked", does |-> c], db)
  BY DEF Due
<1>7. \A u \in Task : Due(task'[u], db)
  BY <1>1, <1>6
<1> QED  BY <1>1, <1>4, <1>5, <1>7 DEF IInv, Typed

LEMMA CheckSteps ==
    ASSUME IInv, NEW t \in Task, Check(t)
    PROVE  IInv'
<1> DEFINE c == task[t].does
<1>1. /\ Typed /\ TurnOK(task, turn) /\ \A u \in Task : Due(task[u], db)
      /\ task[t].at = "asked" /\ InTurn(t) /\ task[t] \in Running
      /\ UNCHANGED <<db, revision, wire, drawing, view>>
  BY DEF IInv, Check, Typed
<1>2. c \in Wanted
  BY <1>1, RunningIs
<1>3. c.kind \in Shared => t = turn[1]
  <2>1. c.kind \in Shared => turn # <<>>
    BY <1>1 DEF TurnOK
  <2> QED  BY <1>1, <2>1 DEF InTurn, Typed
<1>4. /\ task' \in [Task -> Running] /\ turn' \in Seq(Task) /\ TurnOK(task', turn')
      /\ \A u \in Task : Due(task'[u], db)
  <2>1. CASE Finished(t)
    <3>1. /\ task' \in [Task -> Running] /\ turn' \in Seq(Task) /\ TurnOK(task', turn')
          /\ task'[t] = Nothing /\ \A u \in Task \ {t} : task'[u] = task[u]
      BY <1>1, <1>3, <2>1, Settles
    <3> QED  BY <1>1, <3>1, NothingIsDue
  <2>2. CASE Valid(c) /\ task' = [task EXCEPT ![t].at = "checked"] /\ UNCHANGED turn
    <3>1. /\ task' \in [Task -> Running] /\ turn' \in Seq(Task) /\ TurnOK(task', turn')
          /\ task'[t] = [at |-> "checked", does |-> task[t].does]
          /\ \A u \in Task \ {t} : task'[u] = task[u]
      BY <1>1, <1>3, <2>2, GoesOn
    <3>2. Due(task'[t], db)
      BY <1>1, <1>2, <2>2, <3>1, ValidIsDue DEF Typed
    <3> QED  BY <1>1, <3>1, <3>2
  <2> QED  BY <2>1, <2>2 DEF Check
<1> QED  BY <1>1, <1>4 DEF IInv, Typed

(* Of a command past its check: it is the first in turn, if it is in turn. *)
LEMMA PastTheCheck ==
    ASSUME IInv, NEW t \in Task, task[t].at \in {"checked", "written"}
    PROVE  /\ task[t].does \in Wanted /\ task[t] = [at |-> task[t].at, does |-> task[t].does]
           /\ task[t].does.kind \in Shared => t = turn[1]
<1>1. task[t] \in Running
  BY DEF IInv, Typed
<1> QED  BY <1>1, RunningIs DEF IInv, TurnOK

(* What a write leaves of the Room, whichever command it is.               *)
LEMMA WriteKeeps ==
    ASSUME IInv, NEW t \in Task, task[t].at = "checked", HasRow(task[t].does),
           db' = Written(db, task[t].does)
    PROVE  /\ db' \in Room
           /\ db'.play # None => db'.live
           /\ \A u \in Task \ {t} : Due(task[u], db')
           /\ task[t].does.kind # "open" => Due([at |-> "written", does |-> task[t].does], db')
<1> DEFINE c == task[t].does
<1>1. /\ db \in Room /\ (db.play # None => db.live)
      /\ c \in Wanted /\ Due([at |-> "checked", does |-> c], db)
      /\ \A u \in Task : task[u] \in Running /\ Due(task[u], db)
  BY PastTheCheck DEF IInv, Typed
<1>2. CASE c.kind \in Shared
  <2>1. c.kind \in {"goTo", "hide"} => db.play # None
    BY DEF HasRow
  <2>2. db' \in Room /\ (db'.play # None => db'.live) /\ db'.note = db.note
    BY <1>1, <1>2, <2>1, PlaybackWritten
  <2>3. \A u \in Task \ {t} : ~(task[u].at = "checked" /\ task[u].does.kind \in Shared)
    BY <1>2, PastTheCheck
  <2>4. \A u \in Task \ {t} : Due(task[u], db')
    BY <1>1, <2>2, <2>3, StillDue
  <2>5. Due([at |-> "written", does |-> c], db')
    BY <1>2 DEF Due, Shared, OnNotes, FromLibrary
  <2> QED  BY <2>2, <2>4, <2>5
<1>3. CASE c.kind \in {"open", "remove", "restore"}
  <2>1. db' \in Room /\ db'.play = db.play /\ db'.live = db.live /\ db'.note = db.note
    BY <1>1, <1>3, EntryWritten
  <2>2. \A u \in Task \ {t} : Due(task[u], db')
    BY <1>1, <2>1, StillDue
  <2>3. c.kind # "open" => Due([at |-> "written", does |-> c], db')
    BY <1>3 DEF Due, OnNotes, FromLibrary
  <2> QED  BY <1>1, <2>1, <2>2, <2>3
<1>4. CASE c.kind \in OnNotes \cup FromLibrary
  <2>1. /\ db' \in Room /\ db'.play = db.play /\ db'.live = db.live
        /\ db'.note[c.note] \in Row
        /\ \A n \in Note : db.note[n] \in Row => db'.note[n] \in Row
    BY <1>1, <1>4, NoteWritten
  <2>2. \A u \in Task \ {t} : Due(task[u], db')
    BY <1>1, <2>1, StillDue
  <2>3. Due([at |-> "written", does |-> c], db')
    BY <1>4, <2>1 DEF Due, OnNotes, FromLibrary
  <2> QED  BY <1>1, <2>1, <2>2, <2>3
<1> QED  BY <1>1, <1>2, <1>3, <1>4, WantedHas

LEMMA WriteSteps ==
    ASSUME IInv, NEW t \in Task, Write(t)
    PROVE  IInv'
<1> DEFINE c == task[t].does
<1>1. /\ Typed /\ TurnOK(task, turn) /\ \A u \in Task : Due(task[u], db)
      /\ task[t].at = "checked" /\ UNCHANGED <<revision, wire, drawing, view>>
      /\ c.kind \in Shared => t = turn[1]
  BY PastTheCheck DEF IInv, Write
<1>2. CASE ~HasRow(c)
  <2>1. Finished(t) /\ UNCHANGED db
    BY <1>2 DEF Write
  <2>2. /\ task' \in [Task -> Running] /\ turn' \in Seq(Task) /\ TurnOK(task', turn')
        /\ task'[t] = Nothing /\ \A u \in Task \ {t} : task'[u] = task[u]
    BY <1>1, <2>1, Settles
  <2>3. \A u \in Task : Due(task'[u], db')
    BY <1>1, <2>1, <2>2, NothingIsDue
  <2> QED  BY <1>1, <2>1, <2>2, <2>3 DEF IInv, Typed
<1>3. CASE HasRow(c)
  <2>1. db' = Written(db, c)
    BY <1>3 DEF Write
  <2>2. /\ db' \in Room /\ (db'.play # None => db'.live)
        /\ \A u \in Task \ {t} : Due(task[u], db')
        /\ c.kind # "open" => Due([at |-> "written", does |-> c], db')
    BY <1>1, <1>3, <2>1, WriteKeeps
  <2>3. /\ task' \in [Task -> Running] /\ turn' \in Seq(Task) /\ TurnOK(task', turn')
        /\ \/ task'[t] = Nothing
           \/ c.kind # "open" /\ task'[t] = [at |-> "written", does |-> c]
        /\ \A u \in Task \ {t} : task'[u] = task[u]
    <3>1. CASE Finished(t)
      BY <1>1, <3>1, Settles
    <3>2. CASE /\ c.kind # "open" /\ UNCHANGED turn
               /\ task' = [task EXCEPT ![t].at = "written"]
      BY <1>1, <3>2, GoesOn
    <3> QED  BY <1>3, <3>1, <3>2 DEF Write
  <2>4. \A u \in Task : Due(task'[u], db')
    BY <2>2, <2>3, NothingIsDue
  <2> QED  BY <1>1, <2>2, <2>3, <2>4 DEF IInv, Typed
<1> QED  BY <1>2, <1>3

LEMMA PublishSteps ==
    ASSUME IInv, NEW t \in Task, Publish(t)
    PROVE  IInv'
<1> DEFINE c == task[t].does
<1>1. /\ Typed /\ TurnOK(task, turn) /\ \A u \in Task : Due(task[u], db)
      /\ task[t].at = "written" /\ Finished(t) /\ UNCHANGED <<db, drawing, view>>
  BY DEF IInv, Publish
<1>2. /\ c \in Wanted /\ Due([at |-> "written", does |-> c], db)
      /\ c.kind \in Shared => t = turn[1]
      /\ c.kind # "open"
  BY <1>1, PastTheCheck DEF Due
<1>3. /\ task' \in [Task -> Running] /\ turn' \in Seq(Task) /\ TurnOK(task', turn')
      /\ task'[t] = Nothing /\ \A u \in Task \ {t} : task'[u] = task[u]
  BY <1>1, <1>2, Settles
<1>4. \A u \in Task : Due(task'[u], db')
  BY <1>1, <1>3, NothingIsDue
<1>5. revision' \in Nat /\ wire' \in Seq(Parcel)
  <2>1. revision \in Nat /\ wire \in Seq(Parcel)
    BY <1>1 DEF Typed
  <2>2. CASE UNCHANGED <<revision, wire>>
    BY <2>1, <2>2
  <2>3. CASE /\ revision' = revision + 1
             /\ wire' = Append(wire, [rev |-> revision + 1, says |-> Told(c)])
    <3>1. [rev |-> revision + 1, says |-> Told(c)] \in Parcel
      BY <1>1, <1>2, <2>1, ToldTyped DEF Typed, Parcel
    <3> QED  BY <2>1, <2>3, <3>1
  <2> QED  BY <2>2, <2>3 DEF Publish
<1> QED  BY <1>1, <1>3, <1>4, <1>5 DEF IInv, Typed

LEMMA CommandSteps ==
    ASSUME IInv, NEW t \in Task,
           (\E h \in Hand : Opens(t, h)) \/ StartsLive(t) \/ Asks(t)
    PROVE  IInv'
<1>1. view \in Browser /\ view.own \in Table /\ Command \subseteq Wanted
  BY DEF IInv, Typed, Browser, Wanted
<1>2. ASSUME NEW h \in Hand, Opens(t, h)  PROVE IInv'
  <2>1. /\ [kind |-> "load", hand |-> h] \in Wanted
        /\ [kind |-> "open", hand |-> h] \in Wanted
    BY DEF Wanted, Command
  <2>2. [view EXCEPT !.own = At(h)] \in Browser
    BY <1>1, AtIsPlayback DEF Browser, Table
  <2>3. CASE view.live
    BY <1>1, <1>2, <2>1, <2>3, AskSteps DEF Opens
  <2>4. CASE ~view.live
    BY <1>2, <2>1, <2>2, <2>4, AskSteps DEF Opens
  <2> QED  BY <2>3, <2>4
<1>3. CASE StartsLive(t)
  <2> DEFINE hand == IF view.own = None THEN None ELSE view.own.hand
             step == IF view.own = None THEN 0 ELSE view.own.step
  <2>1. hand \in Hand \cup {None} /\ step \in Nat
    BY <1>1 DEF Table, Playback
  <2>2. [kind |-> "start", hand |-> hand, step |-> step] \in Wanted
    BY <2>1 DEF Wanted
  <2>3. Ask(t, [kind |-> "start", hand |-> hand, step |-> step]) /\ UNCHANGED view
    BY <1>3 DEF StartsLive
  <2> QED  BY <1>1, <2>2, <2>3, AskSteps
<1>4. CASE Asks(t)
  <2>1. PICK c \in Command : Ask(t, c)
    BY <1>4 DEF Asks
  <2>2. view' = view
    BY <1>4 DEF Asks
  <2> QED  BY <1>1, <2>1, <2>2, AskSteps
<1> QED  BY <1>2, <1>3, <1>4

LEMMA SnapshotSteps ==
    ASSUME IInv,
           \/ Draw \/ Send
           \/ \E table \in {"state", "playback", "queue", "notes", "yours"} : Read(table)
    PROVE  IInv'
<1>1. /\ db \in Room /\ revision \in Nat /\ wire \in Seq(Parcel)
      /\ drawing \in Drawing \cup {None} /\ view \in Browser
  BY DEF IInv, Typed
<1>2. CASE Draw
  <2>1. /\ drawing' = [rev |-> revision, left |-> {"state", "queue", "notes", "yours"},
                       says |-> [type |-> "snapshot", live |-> FALSE, play |-> None,
                                 queue |-> {}, notes |-> NotesOn(db, {}), yours |-> None]]
        /\ UNCHANGED <<db, task, turn, revision, wire, view>>
    BY <1>2 DEF Draw
  <2>2. drawing' \in Drawing
    BY <1>1, <2>1, NotesTyped DEF Drawing, Drawn, Table
  <2> QED  BY <1>1, <2>1, <2>2, LooksOnly
<1>3. CASE Send
  <2>1. /\ drawing \in Drawing /\ drawing' = None
        /\ wire' = Append(wire, [rev |-> drawing.rev, says |-> drawing.says])
        /\ UNCHANGED <<db, task, turn, revision, view>>
    BY <1>1, <1>3 DEF Send
  <2>2. [rev |-> drawing.rev, says |-> drawing.says] \in Parcel
    BY <2>1 DEF Drawing, Parcel, Message
  <2>3. wire' \in Seq(Parcel)
    BY <1>1, <2>1, <2>2
  <2> QED  BY <1>1, <2>1, <2>3, LooksOnly
<1>4. ASSUME NEW table \in {"state", "playback", "queue", "notes", "yours"}, Read(table)
      PROVE  IInv'
  <2> DEFINE s == drawing.says
             left == (drawing.left \ {table})
                       \cup (IF table = "state" /\ db.live THEN {"playback"} ELSE {})
             says == CASE table = "state" -> [s EXCEPT !.live = db.live]
                       [] table = "playback" -> [s EXCEPT !.play = db.play]
                       [] table = "queue" -> [s EXCEPT !.queue = db.queue]
                       [] table = "notes" -> [s EXCEPT !.notes = NotesOn(db, db.queue)]
                       [] table = "yours" -> [s EXCEPT !.yours =
                                                IF db.yours \in db.queue THEN db.yours ELSE None]
  <2>1. drawing \in Drawing /\ UNCHANGED <<db, task, turn, revision, wire, view>>
    BY <1>1, <1>4 DEF Read
  <2>2. s \in Drawn /\ left \in SUBSET {"state", "playback", "queue", "notes", "yours"}
    BY <2>1 DEF Drawing
  <2>3. /\ db.live \in BOOLEAN /\ db.play \in Table /\ db.queue \in SUBSET Hand
        /\ db.yours \in Hand \cup {None} /\ NotesOn(db, db.queue) \in Held
    BY <1>1, NotesTyped DEF Room
  <2>4. says \in Drawn
    <3> HIDE DEF s
    <3>1. CASE table = "state"
      BY <2>2, <2>3, <3>1 DEF Drawn
    <3>2. CASE table = "playback"
      BY <2>2, <2>3, <3>2 DEF Drawn
    <3>3. CASE table = "queue"
      BY <2>2, <2>3, <3>3 DEF Drawn
    <3>4. CASE table = "notes"
      BY <2>2, <2>3, <3>4 DEF Drawn
    <3>5. CASE table = "yours"
      BY <2>2, <2>3, <3>5 DEF Drawn
    <3> QED  BY <3>1, <3>2, <3>3, <3>4, <3>5
  <2>5. drawing' = [drawing EXCEPT !.left = left, !.says = says]
    BY <1>4 DEF Read
  <2>6. drawing' \in Drawing
    <3> HIDE DEF s, left, says
    <3> QED  BY <2>1, <2>2, <2>4, <2>5 DEF Drawing
  <2> QED  BY <1>1, <2>1, <2>6, LooksOnly
<1> QED  BY <1>2, <1>3, <1>4

LEMMA StepInv ==
    ASSUME IInv, [Next]_vars
    PROVE  IInv'
<1>1. /\ revision \in Nat /\ wire \in Seq(Parcel) /\ drawing \in Drawing \cup {None}
      /\ view \in Browser
  BY DEF IInv, Typed
<1>2. CASE UNCHANGED vars
  BY <1>1, <1>2, LooksOnly DEF vars
<1>3. CASE Receive
  <2>1. view' \in Browser /\ wire' \in Seq(Parcel)
    BY <1>3, ReceiveTyped DEF IInv
  <2>2. UNCHANGED <<db, task, turn, revision, drawing>>
    BY <1>3 DEF Receive
  <2> QED  BY <1>1, <2>1, <2>2, LooksOnly
<1>4. ASSUME NEW s \in AnyStep, OwnWentTo(s)  PROVE IInv'
  <2>1. view' \in Browser
    BY <1>4, OwnWentToTyped DEF IInv
  <2>2. UNCHANGED <<db, task, turn, revision, wire, drawing>>
    BY <1>4 DEF OwnWentTo
  <2> QED  BY <1>1, <2>1, <2>2, LooksOnly
<1>5. ASSUME NEW t \in Task,
             (\E h \in Hand : Opens(t, h)) \/ StartsLive(t) \/ Asks(t)
      PROVE  IInv'
  BY <1>5, CommandSteps
<1>6. ASSUME NEW t \in Task, Check(t) \/ Write(t) \/ Publish(t)  PROVE IInv'
  BY <1>6, CheckSteps, WriteSteps, PublishSteps
<1>7. CASE \/ Draw \/ Send
           \/ \E table \in {"state", "playback", "queue", "notes", "yours"} : Read(table)
  BY <1>7, SnapshotSteps
<1> QED
  BY <1>2, <1>3, <1>4, <1>5, <1>6, <1>7 DEF Next

LEMMA InitInv == Init => IInv
<1> SUFFICES ASSUME Init  PROVE IInv
  OBVIOUS
<1>1. [n \in Note |-> None] \in Held /\ [n \in Note |-> None] \in [Note -> Row \cup {None}]
  BY DEF Held
<1>2. OwnAfterSnapshot(None, None, Hand) \in Table
  BY OwnTyped DEF Table
<1>3. db \in Room /\ db.play = None
  BY <1>1 DEF Init, Room, Table
<1>4. view \in Browser
  BY <1>1, <1>2 DEF Init, Browser, Table
<1>5. task \in [Task -> Running] /\ \A t \in Task : task[t] = Nothing
  BY DEF Init, Nothing, Running
<1>6. TurnOK(task, turn)
  BY <1>5 DEF Init, TurnOK, Nothing
<1> QED
  BY <1>3, <1>4, <1>5, <1>6, NothingIsDue DEF Init, IInv, Typed

LEMMA InvSteps == IInv => StepsExist
BY DEF IInv, Typed, StepsExist, Shown, Room, Browser, Table, Playback

(* Playback is always at a step the Timeline of its Hand has, on the       *)
(* server and on the browser's table, and there is none outside Live,      *)
(* whichever commands run side by side and however late a snapshot comes   *)
(* (playback.service.ts goTo, room.gateway.ts inOrder).                    *)
THEOREM PlaybackIsAtAStep == Spec => []StepsExist
BY InitInv, StepInv, InvSteps, PTL DEF Spec

-----------------------------------------------------------------------------
(* The browser shows the Room, and each Hand no two commands crossed on.   *)
OnWrite    == {"write", "libraryWrite"}
OnEdit     == {"edit", "libraryEdit"}
OnDrop     == {"drop", "libraryDrop"}
AboutNotes == OnNotes \cup FromLibrary

(* What a command past its check found in the Room d, or left in it, on a  *)
(* Hand where none crossed (they did on those of z).                       *)
Stands(k, d, z) ==
    LET c == k.does IN
    /\ k.at = "checked" /\ c.kind = "start" => ~d.live
    /\ k.at = "written" =>
         /\ c.kind = "start" => d.live /\ (c.hand = None => d.play = None)
         /\ c.kind = "end" => ~d.live
    /\ c.kind \in OnHand /\ HandOf(c) \notin z =>
         /\ k.at = "checked" =>
              /\ c.kind \in OnWrite => d.note[c.note] = None
              /\ c.kind \in OnEdit \cup OnDrop => Standing(d, c.note)
         /\ k.at = "written" =>
              /\ c.kind = "remove" => c.hand \notin d.queue
              /\ c.kind = "restore" => c.hand \in d.queue
              /\ c.kind \in AboutNotes => (Standing(d, c.note) <=> c.kind \notin OnDrop)
         /\ \/ k.at # "idle" /\ c.kind \in FromLibrary
            \/ k.at \in {"checked", "written"} /\ c.kind \in OnNotes
            => About[c.note] \in d.queue

(* Commands about a Hand's Notes or Entry that are under way at once are   *)
(* on different Hands, or on one of z.                                     *)
ByHand(k, z) ==
    \A t, u \in Task :
        /\ t # u /\ k[t].at # "idle" /\ k[u].at # "idle"
        /\ k[t].does.kind \in OnHand /\ k[u].does.kind \in OnHand
        /\ HandOf(k[t].does) = HandOf(k[u].does)
        => HandOf(k[t].does) \in z

Saying(d, n) == IF Standing(d, n) THEN d.note[n].body ELSE None

(* A written command k that is about to tell of the Queue's place for h,   *)
(* or of the Note n where it is y so far.                                  *)
Requeues(k, h) == k.at = "written" /\ k.does.kind \in {"remove", "restore"} /\ k.does.hand = h
Restores(k, h) == k.at = "written" /\ k.does.kind = "restore" /\ k.does.hand = h
Rewrites(k, n, y) ==
    /\ k.at = "written" /\ k.does.kind \in AboutNotes /\ k.does.note = n
    /\ k.does.kind \in OnWrite => y = None
    /\ k.does.kind \in OnEdit => y # None

(* What is shown of each part is what the Room d has, or a command is      *)
(* about to tell of that part.                                             *)
LiveAs(x, d, k) ==
    x = d.live \/ \E t \in Task : k[t].at = "written" /\ k[t].does.kind \in {"start", "end"}
PlayAs(x, d, k) ==
    x = d.play \/ \E t \in Task : k[t].at = "written" /\ k[t].does.kind \in Shared
HandAs(x, d, k, h) ==
    (h \in x <=> h \in d.queue) \/ \E t \in Task : Requeues(k[t], h)
NoteAs(y, d, k, n) ==
    \/ y = Saying(d, n)
    \/ y = None /\ (About[n] \notin d.queue \/ \E t \in Task : Restores(k[t], About[n]))
    \/ \E t \in Task : Rewrites(k[t], n, y)
QueueAs(x, d, k, z) == \A h \in Hand \ z : HandAs(x, d, k, h)
NotesAs(x, d, k, z) == \A n \in Note : About[n] \notin z => NoteAs(x[n], d, k, n)

(* A browser that has had everything up to the revision r.                 *)
UpToDate(e, r, d, k, z) ==
    /\ e.seen = r
    /\ ~e.owed => /\ e.rev = r
                  /\ LiveAs(e.live, d, k) /\ PlayAs(e.play, d, k)
                  /\ QueueAs(e.queue, d, k, z) /\ NotesAs(e.notes, d, k, z)

(* A snapshot being drawn; what it has read holds if nothing was told since. *)
DrawnAs(w, r, d, k, z) ==
    w # None =>
      /\ w.rev <= r
      /\ "state" \in w.left => w.says.play = None /\ "playback" \notin w.left
      /\ w.rev = r =>
           /\ "state" \notin w.left => LiveAs(w.says.live, d, k)
           /\ {"state", "playback"} \cap w.left = {} => PlayAs(w.says.play, d, k)
           /\ "queue" \notin w.left => QueueAs(w.says.queue, d, k, z)
           /\ "notes" \notin w.left => NotesAs(w.says.notes, d, k, z)

(* Alike in all but what a person does at their own table.                 *)
SameRoom(v, w) ==
    v.live = w.live /\ v.play = w.play /\ v.queue = w.queue /\ v.notes = w.notes
LooksLike(v, w) ==
    /\ SameRoom(v, w)
    /\ v.rev = w.rev /\ v.seen = w.seen /\ v.owed = w.owed

Took(v, p) ==
    IF p.says.type = "snapshot" THEN Snapshot(v, p.rev, p.says) ELSE Change(v, p.rev, p.says)

(* The browser v comes to look like e once it took all that is on the wire *)
(* w: next[i] is what it is after the first i.                             *)
Comes(v, w, e) ==
    \E next \in [Nat -> Browser] :
        /\ LooksLike(v, next[0]) /\ next[Len(w)] = e
        /\ \A i \in 1 .. Len(w) : LooksLike(Took(next[i - 1], w[i]), next[i])

SInv ==
    /\ \A t \in Task : Stands(task[t], db, crossed)
    /\ ByHand(task, crossed)
    /\ \E e \in Browser : Comes(view, wire, e) /\ UpToDate(e, revision, db, task, crossed)
    /\ DrawnAs(drawing, revision, db, task, crossed)

(* A browser's next state, whatever is on its own table.                   *)
LEMMA TookTyped ==
    ASSUME NEW v \in Browser, NEW p \in Parcel
    PROVE  Took(v, p) \in Browser
<1>1. p.rev \in Nat /\ p.says \in Message
  BY DEF Parcel
<1> QED  BY <1>1, MessageSays, SnapshotTyped, ChangeTyped DEF Took

(* What a is to a browser v once the message m is applied.                *)
Shows(a, v, m) ==
    /\ a.rev = v.rev /\ a.seen = v.seen /\ a.owed = v.owed
    /\ m.type = "liveStarted" => a.live = TRUE /\ a.play = m.play
    /\ m.type = "liveEnded" => a.live = FALSE /\ a.play = None
    /\ m.type = "playbackChanged" => a.live = v.live /\ a.play = m.play
    /\ m.type \notin {"liveStarted", "liveEnded", "playbackChanged"} =>
         a.live = v.live /\ a.play = v.play
    /\ m.type = "entryRemoved" => a.queue = v.queue \ {m.hand}
    /\ m.type = "entryRestored" =>
         a.queue = v.queue \cup {m.hand} /\ a.notes = Fresh(v.notes, m.notes)
    /\ m.type \notin {"entryRemoved", "entryRestored"} => a.queue = v.queue
    /\ m.type = "noteWritten" =>
         a.notes = [v.notes EXCEPT ![m.note] = IF @ # None THEN @ ELSE m.body]
    /\ m.type = "noteEdited" =>
         a.notes = [v.notes EXCEPT ![m.note] = IF @ # None THEN m.body ELSE @]
    /\ m.type = "noteRemoved" => a.notes = [v.notes EXCEPT ![m.note] = None]
    /\ m.type = "noteRestored" => a.notes = [v.notes EXCEPT ![m.note] = m.body]
    /\ m.type \notin {"entryRestored", "noteWritten", "noteEdited", "noteRemoved",
                      "noteRestored"} => a.notes = v.notes

LEMMA AppliedShows ==
    ASSUME NEW v \in Browser, NEW m \in Message, m.type # "snapshot"
    PROVE  Shows(Applied(v, m), v, m)
<1>1. CASE m.type = "liveStarted"
  <2>1. Applied(v, m) = [v EXCEPT !.live = TRUE, !.play = m.play]
    BY <1>1 DEF Applied, AppliedToPlayback
  <2> QED  BY <1>1, <2>1 DEF Browser, Shows
<1>2. CASE m.type = "liveEnded"
  <2>1. Applied(v, m) = [v EXCEPT !.live = FALSE, !.play = None,
                                  !.own = IF v.play # None THEN v.play ELSE @]
    BY <1>2 DEF Applied, AppliedToPlayback
  <2> QED  BY <1>2, <2>1 DEF Browser, Shows
<1>3. CASE m.type = "playbackChanged"
  <2>1. Applied(v, m) = [v EXCEPT !.play = m.play]
    BY <1>3 DEF Applied, AppliedToPlayback
  <2> QED  BY <1>3, <2>1 DEF Browser, Shows
<1>4. CASE m.type = "entryRemoved"
  <2>1. Applied(v, m) = [v EXCEPT !.queue = @ \ {m.hand}]
    BY <1>4 DEF Applied, AppliedToQueue
  <2> QED  BY <1>4, <2>1 DEF Browser, Shows
<1>5. CASE m.type = "entryRestored"
  <2>1. Applied(v, m) = [v EXCEPT !.queue = @ \cup {m.hand}, !.notes = Fresh(@, m.notes)]
    BY <1>5 DEF Applied, AppliedToQueue
  <2> QED  BY <1>5, <2>1 DEF Browser, Shows
<1>6. CASE m.type = "noteWritten"
  <2>1. Applied(v, m) = [v EXCEPT !.notes[m.note] = IF @ # None THEN @ ELSE m.body]
    BY <1>6 DEF Applied, AppliedToNotes
  <2> QED  BY <1>6, <2>1 DEF Browser, Shows
<1>7. CASE m.type = "noteEdited"
  <2>1. Applied(v, m) = [v EXCEPT !.notes[m.note] = IF @ # None THEN m.body ELSE @]
    BY <1>7 DEF Applied, AppliedToNotes
  <2> QED  BY <1>7, <2>1 DEF Browser, Shows
<1>8. CASE m.type = "noteRemoved"
  <2>1. Applied(v, m) = [v EXCEPT !.notes[m.note] = None]
    BY <1>8 DEF Applied, AppliedToNotes
  <2> QED  BY <1>8, <2>1 DEF Browser, Shows
<1>9. CASE m.type = "noteRestored"
  <2>1. Applied(v, m) = [v EXCEPT !.notes[m.note] = m.body]
    BY <1>9 DEF Applied, AppliedToNotes
  <2> QED  BY <1>9, <2>1 DEF Browser, Shows
<1> QED  BY <1>1, <1>2, <1>3, <1>4, <1>5, <1>6, <1>7, <1>8, <1>9, MessageSays

(* A change in its place is applied; out of it, nothing shown changes.     *)
LEMMA AppliedAlike ==
    ASSUME NEW v \in Browser, NEW w \in Browser, NEW m \in Message, m.type # "snapshot",
           SameRoom(v, w)
    PROVE  SameRoom(Applied(v, m), Applied(w, m))
<1> DEFINE a == Applied(v, m)
           b == Applied(w, m)
<1>1. Shows(a, v, m) /\ Shows(b, w, m)
  BY AppliedShows
<1>2. v.live = w.live /\ v.play = w.play /\ v.queue = w.queue /\ v.notes = w.notes
  BY DEF SameRoom
<1> HIDE DEF a, b
<1>3. a.live = b.live /\ a.play = b.play
  BY <1>1, <1>2, MessageSays DEF Shows
<1>4. a.queue = b.queue
  BY <1>1, <1>2, MessageSays DEF Shows
<1>5. a.notes = b.notes
  BY <1>1, <1>2, MessageSays DEF Shows
<1> QED  BY <1>3, <1>4, <1>5 DEF a, b, SameRoom

LEMMA ChangeShows ==
    ASSUME NEW v \in Browser, NEW m \in Message, NEW r \in Nat, m.type # "snapshot"
    PROVE  LET o == Change(v, r, m)
           IN /\ o.seen = IF r > v.seen THEN r ELSE v.seen
              /\ o.owed = (v.owed \/ r > v.rev + 1)
              /\ o.rev = IF v.owed \/ r <= v.rev \/ r > v.rev + 1 THEN v.rev ELSE r
              /\ SameRoom(o, IF v.owed \/ r <= v.rev \/ r > v.rev + 1 THEN v ELSE Applied(v, m))
<1> DEFINE s == IF r > v.seen THEN r ELSE v.seen
           w == [v EXCEPT !.seen = s]
           o == Change(v, r, m)
<1>1. v.rev \in Nat /\ v.owed \in BOOLEAN
  BY DEF Browser
<1>2. w \in Browser /\ SameRoom(w, v) /\ w.rev = v.rev /\ w.owed = v.owed /\ w.seen = s
  BY DEF Browser, SameRoom
<1>3. o = IF v.owed \/ r <= v.rev THEN w
          ELSE IF r > v.rev + 1 THEN [w EXCEPT !.owed = TRUE]
          ELSE [Applied(w, m) EXCEPT !.rev = r]
  BY DEF Change
<1> HIDE DEF w, s, o
<1>4. CASE v.owed \/ r <= v.rev
  <2>1. o = w
    BY <1>3, <1>4
  <2>2. v.owed \/ r > v.rev + 1 <=> v.owed
    BY <1>1, <1>4
  <2>3. o.owed = (v.owed \/ r > v.rev + 1)
    BY <1>1, <1>2, <2>1, <2>2
  <2> QED  BY <1>2, <1>4, <2>1, <2>3 DEF o, s
<1>5. CASE ~v.owed /\ ~(r <= v.rev) /\ r > v.rev + 1
  <2>1. o = [w EXCEPT !.owed = TRUE]
    BY <1>3, <1>5
  <2>2. o.owed = TRUE /\ o.rev = v.rev /\ o.seen = s /\ SameRoom(o, v)
    BY <1>2, <2>1 DEF Browser, SameRoom
  <2> QED  BY <1>5, <2>2 DEF o, s
<1>6. CASE ~v.owed /\ ~(r <= v.rev) /\ ~(r > v.rev + 1)
  <2>1. o = [Applied(w, m) EXCEPT !.rev = r]
    BY <1>3, <1>6
  <2>2. Applied(w, m) \in Browser
    BY <1>2, PlaybackApplied, QueueApplied, NotesApplied, MessageSays
  <2>3. SameRoom(Applied(w, m), Applied(v, m))
    BY <1>2, AppliedAlike
  <2>4. Applied(w, m).seen = s /\ Applied(w, m).owed = FALSE
    BY <1>1, <1>2, <1>6, AppliedShows DEF Shows
  <2>5. o.rev = r /\ o.seen = s /\ o.owed = FALSE /\ SameRoom(o, Applied(w, m))
    BY <2>1, <2>2, <2>4 DEF Browser, SameRoom
  <2>6. SameRoom(o, Applied(v, m))
    BY <2>3, <2>5 DEF SameRoom
  <2> QED  BY <1>6, <2>5, <2>6 DEF o, s
<1> QED  BY <1>4, <1>5, <1>6

LEMMA SnapshotShows ==
    ASSUME NEW v \in Browser, NEW s \in Drawn, NEW r \in Nat
    PROVE  LET o == Snapshot(v, r, s)
           IN /\ o.seen = (IF r > v.seen THEN r ELSE v.seen) /\ o.rev = r
              /\ o.owed = (r < o.seen) /\ SameRoom(o, s)
BY DEF Snapshot, SameRoom

(* What is on its own table makes no difference to what it takes.          *)
LEMMA TookAlike ==
    ASSUME NEW v \in Browser, NEW w \in Browser, LooksLike(v, w), NEW p \in Parcel
    PROVE  LooksLike(Took(v, p), Took(w, p))
<1> DEFINE m == p.says
           r == p.rev
<1>1. r \in Nat /\ m \in Message /\ SameRoom(v, w)
  BY DEF Parcel, LooksLike
<1>2. v.seen = w.seen /\ v.rev = w.rev /\ v.owed = w.owed
  BY DEF LooksLike
<1>3. CASE m.type = "snapshot"
  <2>1. m \in Drawn
    BY <1>1, <1>3, MessageSays
  <2>2. Took(v, p) = Snapshot(v, r, m) /\ Took(w, p) = Snapshot(w, r, m)
    BY <1>3 DEF Took
  <2> QED  BY <1>1, <1>2, <2>1, <2>2, SnapshotShows DEF LooksLike, SameRoom
<1>4. CASE m.type # "snapshot"
  <2>1. Took(v, p) = Change(v, r, m) /\ Took(w, p) = Change(w, r, m)
    BY <1>4 DEF Took
  <2>2. SameRoom(Applied(v, m), Applied(w, m))
    BY <1>1, <1>4, AppliedAlike
  <2>3. SameRoom(Change(v, r, m), Change(w, r, m))
    <3>1. CASE v.owed \/ r <= v.rev \/ r > v.rev + 1
      <4>1. SameRoom(Change(v, r, m), v)
        BY <1>1, <1>4, <3>1, ChangeShows
      <4>2. SameRoom(Change(w, r, m), w)
        BY <1>1, <1>2, <1>4, <3>1, ChangeShows
      <4> QED  BY <1>1, <4>1, <4>2 DEF SameRoom
    <3>2. CASE ~(v.owed \/ r <= v.rev \/ r > v.rev + 1)
      <4>1. SameRoom(Change(v, r, m), Applied(v, m))
        BY <1>1, <1>4, <3>2, ChangeShows
      <4>2. SameRoom(Change(w, r, m), Applied(w, m))
        BY <1>1, <1>2, <1>4, <3>2, ChangeShows
      <4> QED  BY <2>2, <4>1, <4>2 DEF SameRoom
    <3> QED  BY <3>1, <3>2
  <2>4. /\ Change(v, r, m).seen = Change(w, r, m).seen
        /\ Change(v, r, m).owed = Change(w, r, m).owed
        /\ Change(v, r, m).rev = Change(w, r, m).rev
    BY <1>1, <1>2, <1>4, ChangeShows
  <2> QED  BY <2>1, <2>3, <2>4 DEF LooksLike
<1> QED  BY <1>3, <1>4

-----------------------------------------------------------------------------
(* All that is on the wire.                                                *)

LEMMA NothingComes ==
    ASSUME NEW v \in Browser
    PROVE  /\ Comes(v, <<>>, v)
           /\ \A e : Comes(v, <<>>, e) => LooksLike(v, e)
<1>1. Len(<<>>) = 0
  OBVIOUS
<1>2. Comes(v, <<>>, v)
  <2> DEFINE next == [i \in Nat |-> v]
  <2>1. next \in [Nat -> Browser] /\ next[0] = v /\ 1 .. 0 = {}
    OBVIOUS
  <2>2. LooksLike(v, v)
    BY DEF LooksLike, SameRoom
  <2> QED  BY <1>1, <2>1, <2>2 DEF Comes
<1> QED  BY <1>1, <1>2 DEF Comes

LEMMA OwnTableComes ==
    ASSUME NEW v, NEW w, LooksLike(v, w), NEW ps, NEW e, Comes(v, ps, e)
    PROVE  Comes(w, ps, e)
BY DEF Comes, LooksLike, SameRoom

LEMMA FirstComes ==
    ASSUME NEW v \in Browser, NEW ps \in Seq(Parcel), ps # <<>>, NEW e, Comes(v, ps, e)
    PROVE  Comes(Took(v, Head(ps)), Tail(ps), e)
<1>1. PICK next \in [Nat -> Browser] :
        /\ LooksLike(v, next[0]) /\ next[Len(ps)] = e
        /\ \A i \in 1 .. Len(ps) : LooksLike(Took(next[i - 1], ps[i]), next[i])
  BY DEF Comes
<1>2. /\ Len(ps) \in Nat \ {0} /\ Len(Tail(ps)) = Len(ps) - 1 /\ Head(ps) = ps[1]
      /\ \A i \in 1 .. Len(ps) - 1 : Tail(ps)[i] = ps[i + 1]
      /\ ps[1] \in Parcel
  OBVIOUS
<1> DEFINE rest == [i \in Nat |-> next[i + 1]]
<1>3. rest \in [Nat -> Browser] /\ \A i \in Nat : rest[i] = next[i + 1]
  OBVIOUS
<1> HIDE DEF rest
<1>4. LooksLike(Took(v, Head(ps)), rest[0])
  <2>1. next[0] \in Browser /\ rest[0] = next[1]
    BY <1>3
  <2>2. LooksLike(Took(v, ps[1]), Took(next[0], ps[1]))
    BY <1>1, <1>2, <2>1, TookAlike
  <2>3. LooksLike(Took(next[0], ps[1]), next[1])
    <3>1. 1 \in 1 .. Len(ps) /\ 1 - 1 = 0
      BY <1>2
    <3> QED  BY <1>1, <3>1
  <2> QED  BY <1>2, <2>1, <2>2, <2>3 DEF LooksLike, SameRoom
<1>5. rest[Len(Tail(ps))] = e
  <2>1. Len(Tail(ps)) \in Nat /\ Len(Tail(ps)) + 1 = Len(ps)
    BY <1>2
  <2> QED  BY <1>1, <1>3, <2>1
<1>6. ASSUME NEW i \in 1 .. Len(Tail(ps))
      PROVE  LooksLike(Took(rest[i - 1], Tail(ps)[i]), rest[i])
  <2>1. /\ i + 1 \in 1 .. Len(ps) /\ i \in Nat /\ i - 1 \in Nat /\ (i - 1) + 1 = i
        /\ (i + 1) - 1 = i /\ i \in 1 .. Len(ps) - 1
    BY <1>2
  <2>2. rest[i - 1] = next[i] /\ rest[i] = next[i + 1] /\ Tail(ps)[i] = ps[i + 1]
    BY <1>2, <1>3, <2>1
  <2>3. LooksLike(Took(next[(i + 1) - 1], ps[i + 1]), next[i + 1])
    BY <1>1, <2>1
  <2> QED  BY <2>1, <2>2, <2>3
<1> QED  BY <1>3, <1>4, <1>5, <1>6 DEF Comes

LEMMA LastComes ==
    ASSUME NEW v, NEW ps \in Seq(Parcel), NEW p \in Parcel, NEW e \in Browser, Comes(v, ps, e)
    PROVE  Comes(v, Append(ps, p), Took(e, p))
<1>1. PICK next \in [Nat -> Browser] :
        /\ LooksLike(v, next[0]) /\ next[Len(ps)] = e
        /\ \A i \in 1 .. Len(ps) : LooksLike(Took(next[i - 1], ps[i]), next[i])
  BY DEF Comes
<1> DEFINE n == Len(ps)
           qs == Append(ps, p)
<1>2. /\ n \in Nat /\ Len(qs) = n + 1 /\ qs[n + 1] = p
      /\ \A i \in 1 .. n : qs[i] = ps[i]
  OBVIOUS
<1>3. Took(e, p) \in Browser
  BY TookTyped
<1> DEFINE more == [next EXCEPT ![n + 1] = Took(e, p)]
<1>4. /\ more \in [Nat -> Browser] /\ more[n + 1] = Took(e, p)
      /\ \A i \in 0 .. n : more[i] = next[i]
  BY <1>2, <1>3
<1> HIDE DEF more, qs, n
<1>5. LooksLike(v, more[0])
  BY <1>1, <1>2, <1>4
<1>6. ASSUME NEW i \in 1 .. Len(qs)  PROVE LooksLike(Took(more[i - 1], qs[i]), more[i])
  <2>1. CASE i \in 1 .. n
    <3>1. i \in 0 .. n /\ i - 1 \in 0 .. n
      BY <1>2, <2>1
    <3>2. LooksLike(Took(next[i - 1], ps[i]), next[i])
      BY <1>1, <2>1 DEF n
    <3> QED  BY <1>2, <1>4, <2>1, <3>1, <3>2
  <2>2. CASE i = n + 1
    <3>1. i - 1 = n /\ n \in 0 .. n
      BY <1>2, <2>2
    <3>2. more[i - 1] = e
      BY <1>1, <1>4, <3>1 DEF n
    <3> QED  BY <1>2, <1>4, <2>2, <3>2 DEF LooksLike, SameRoom
  <2> QED  BY <1>2, <2>1, <2>2
<1> QED  BY <1>2, <1>4, <1>5, <1>6 DEF Comes, qs

-----------------------------------------------------------------------------
(* What the server writes.                                                 *)

(* Whatever is so shown in one state of the server is so in another.       *)
Keeps(d, k, z, d2, k2, z2) ==
    /\ z \subseteq z2
    /\ \A x : LiveAs(x, d, k) => LiveAs(x, d2, k2)
    /\ \A x : PlayAs(x, d, k) => PlayAs(x, d2, k2)
    /\ \A x : \A h \in Hand \ z2 : HandAs(x, d, k, h) => HandAs(x, d2, k2, h)
    /\ \A x : \A n \in Note : About[n] \notin z2 => (NoteAs(x, d, k, n) => NoteAs(x, d2, k2, n))

LEMMA KeepsShown ==
    ASSUME NEW d, NEW k, NEW z, NEW d2, NEW k2, NEW z2,
           Keeps(d, k, z, d2, k2, z2), NEW r
    PROVE  /\ \A e : UpToDate(e, r, d, k, z) => UpToDate(e, r, d2, k2, z2)
           /\ \A w : DrawnAs(w, r, d, k, z) => DrawnAs(w, r, d2, k2, z2)
<1>1. \A x : QueueAs(x, d, k, z) => QueueAs(x, d2, k2, z2)
  BY DEF Keeps, QueueAs
<1>2. \A x : NotesAs(x, d, k, z) => NotesAs(x, d2, k2, z2)
  BY DEF Keeps, NotesAs
<1>3. /\ \A x : LiveAs(x, d, k) => LiveAs(x, d2, k2)
      /\ \A x : PlayAs(x, d, k) => PlayAs(x, d2, k2)
  BY DEF Keeps
<1>4. \A e : UpToDate(e, r, d, k, z) => UpToDate(e, r, d2, k2, z2)
  BY <1>1, <1>2, <1>3 DEF UpToDate
<1>5. \A w : DrawnAs(w, r, d, k, z) => DrawnAs(w, r, d2, k2, z2)
  BY <1>1, <1>2, <1>3 DEF DrawnAs
<1> QED  BY <1>4, <1>5

(* A step that neither writes nor tells.                                   *)
LEMMA NoneTold ==
    ASSUME NEW d, NEW k, NEW k2, \A t \in Task : k[t].at = "written" => k2[t] = k[t],
           NEW z, NEW z2, z \subseteq z2
    PROVE  Keeps(d, k, z, d, k2, z2)
BY DEF Keeps, LiveAs, PlayAs, HandAs, NoteAs, Requeues, Restores, Rewrites

LEMMA WrittenIs ==
    ASSUME NEW c \in Wanted, NEW d \in Room,
           c.kind \in AboutNotes \ OnWrite => d.note[c.note] \in Row
    PROVE  LET w == Written(d, c) IN
           /\ c.kind = "start" => w.live = TRUE /\ (c.hand = None => w.play = d.play)
           /\ c.kind = "end" => w.live = FALSE
           /\ c.kind \notin {"start", "end"} => w.live = d.live
           /\ c.kind \notin Shared => w.play = d.play
           /\ c.kind = "remove" => w.queue = d.queue \ {c.hand}
           /\ c.kind = "restore" => w.queue = d.queue \cup {c.hand}
           /\ c.kind \notin {"remove", "restore"} => w.queue = d.queue
           /\ c.kind \notin AboutNotes => w.note = d.note
           /\ c.kind \in AboutNotes =>
                /\ \A n \in Note \ {c.note} : w.note[n] = d.note[n]
                /\ w.note[c.note] \in Row
                /\ c.kind \in OnEdit => w.note[c.note].removed = d.note[c.note].removed
                /\ c.kind \in OnDrop => w.note[c.note].removed = TRUE
                /\ c.kind \notin OnEdit \cup OnDrop => w.note[c.note].removed = FALSE
<1> USE DEF AboutNotes, OnWrite, OnEdit, OnDrop, Shared, OnNotes, FromLibrary
<1>1. CASE c.kind = "start"
  <2>1. Written(d, c) = [d EXCEPT !.live = TRUE,
                           !.play = IF c.hand = None THEN @
                                    ELSE [hand |-> c.hand, step |-> c.step, hidden |-> FALSE]]
    BY <1>1 DEF Written
  <2> QED  BY <1>1, <2>1 DEF Room
<1>2. CASE c.kind = "end"
  <2>1. Written(d, c) = [d EXCEPT !.live = FALSE, !.play = None,
              !.yours = IF d.play # None /\ d.play.hand \in d.queue THEN d.play.hand ELSE @]
    BY <1>2 DEF Written, Ended
  <2> QED  BY <1>2, <2>1 DEF Room
<1>3. CASE c.kind \in {"load", "goTo", "hide"}
  <2>1. \E x : Written(d, c) = [d EXCEPT !.play = x]
    <3>1. CASE c.kind = "load"
      BY <3>1 DEF Written
    <3>2. CASE c.kind = "goTo"
      BY <3>2 DEF Written
    <3>3. CASE c.kind = "hide"
      BY <3>3 DEF Written
    <3> QED  BY <1>3, <3>1, <3>2, <3>3
  <2> QED  BY <1>3, <2>1 DEF Room
<1>4. CASE c.kind = "open"
  <2>1. Written(d, c) = [d EXCEPT !.yours = c.hand]
    BY <1>4 DEF Written
  <2> QED  BY <1>4, <2>1 DEF Room
<1>5. CASE c.kind = "remove"
  <2>1. Written(d, c) = [d EXCEPT !.queue = @ \ {c.hand}]
    BY <1>5 DEF Written
  <2> QED  BY <1>5, <2>1 DEF Room
<1>6. CASE c.kind = "restore"
  <2>1. Written(d, c) = [d EXCEPT !.queue = @ \cup {c.hand}]
    BY <1>6 DEF Written
  <2> QED  BY <1>6, <2>1 DEF Room
<1>7. CASE c.kind \in AboutNotes
  <2>1. c.note \in Note /\ d.note \in [Note -> Row \cup {None}]
    BY <1>7, WantedHas DEF Room
  <2>2. ASSUME NEW x \in Row,
               Written(d, c) = [d EXCEPT !.note = [d.note EXCEPT ![c.note] = x]]
        PROVE  LET w == Written(d, c) IN
               /\ w.live = d.live /\ w.play = d.play /\ w.queue = d.queue
               /\ w.note[c.note] = x
               /\ \A n \in Note \ {c.note} : w.note[n] = d.note[n]
    BY <2>1, <2>2 DEF Room
  <2>3. CASE c.kind \in OnWrite
    <3>1. Written(d, c) = [d EXCEPT !.note[c.note] = [body |-> c.body, removed |-> FALSE]]
      BY <2>3 DEF Written
    <3>2. [body |-> c.body, removed |-> FALSE] \in Row
      BY <2>3, WantedHas DEF Row
    <3>3. [body |-> c.body, removed |-> FALSE].removed = FALSE
      OBVIOUS
    <3> QED  BY <1>7, <2>2, <2>3, <3>1, <3>2, <3>3
  <2>4. CASE c.kind \in OnEdit
    <3>1. Written(d, c) = [d EXCEPT !.note[c.note].body = c.body]
      BY <2>4 DEF Written
    <3>2. /\ [d.note[c.note] EXCEPT !.body = c.body] \in Row
          /\ [d.note[c.note] EXCEPT !.body = c.body].removed = d.note[c.note].removed
      BY <2>4, WantedHas DEF Row
    <3> QED  BY <2>2, <2>4, <3>1, <3>2
  <2>5. CASE c.kind \in OnDrop
    <3>1. Written(d, c) = [d EXCEPT !.note[c.note].removed = TRUE]
      BY <2>5 DEF Written
    <3>2. /\ [d.note[c.note] EXCEPT !.removed = TRUE] \in Row
          /\ [d.note[c.note] EXCEPT !.removed = TRUE].removed = TRUE
      BY <2>5 DEF Row
    <3> QED  BY <2>2, <2>5, <3>1, <3>2
  <2>6. CASE c.kind \in {"undo", "libraryUndo"}
    <3>1. Written(d, c) = [d EXCEPT !.note[c.note].removed = FALSE]
      BY <2>6 DEF Written
    <3>2. /\ [d.note[c.note] EXCEPT !.removed = FALSE] \in Row
          /\ [d.note[c.note] EXCEPT !.removed = FALSE].removed = FALSE
      BY <2>6 DEF Row
    <3> QED  BY <2>2, <2>6, <3>1, <3>2
  <2> QED  BY <1>7, <2>3, <2>4, <2>5, <2>6
<1> QED  BY <1>1, <1>2, <1>3, <1>4, <1>5, <1>6, <1>7, WantedHas

(* Whoever else is under way on a Hand where none crossed.                 *)
LEMMA Elsewhere ==
    ASSUME IInv, SInv, NEW t \in Task, NEW u \in Task \ {t}, task[t].at # "idle", task[u].at # "idle",
           task[t].does.kind \in OnHand, task[u].does.kind \in OnHand,
           HandOf(task[t].does) = HandOf(task[u].does)
    PROVE  HandOf(task[t].does) \in crossed
BY DEF SInv, ByHand

LEMMA KindsApart ==
    /\ Shared \cap AboutNotes = {} /\ {"open", "remove", "restore"} \cap (Shared \cup AboutNotes) = {}
    /\ {"start", "end"} \subseteq Shared
    /\ OnWrite \cup OnEdit \cup OnDrop \subseteq AboutNotes
    /\ OnWrite \cap OnEdit = {} /\ (OnWrite \cup OnEdit) \cap OnDrop = {}
    /\ OnHand = AboutNotes \cup {"remove", "restore"}
BY DEF OnHand, Shared, AboutNotes, OnNotes, FromLibrary, OnWrite, OnEdit, OnDrop

LEMMA WriteKeepsShown ==
    ASSUME IInv, SInv, NEW t \in Task, task[t].at = "checked", HasRow(task[t].does),
           db' = Written(db, task[t].does), crossed' = crossed,
           \A u \in Task \ {t} : task'[u] = task[u],
           task[t].does.kind # "open" => task'[t] = [at |-> "written", does |-> task[t].does]
    PROVE  Keeps(db, task, crossed, db', task', crossed')
<1> DEFINE c == task[t].does
<1>1. /\ c \in Wanted /\ db \in Room /\ Stands(task[t], db, crossed) /\ Due(task[t], db)
      /\ c.kind \in Shared => t = turn[1]
  BY PastTheCheck DEF IInv, SInv, Typed
<1>2. c.kind \in AboutNotes \ OnWrite => db.note[c.note] \in Row
  BY <1>1 DEF Due, AboutNotes, OnWrite, OnNotes, FromLibrary
<1> DEFINE w == Written(db, c)
<1>0. /\ c.kind \notin {"start", "end"} => w.live = db.live
      /\ c.kind \notin Shared => w.play = db.play
      /\ c.kind = "remove" => w.queue = db.queue \ {c.hand}
      /\ c.kind = "restore" => w.queue = db.queue \cup {c.hand}
      /\ c.kind \notin {"remove", "restore"} => w.queue = db.queue
      /\ c.kind \notin AboutNotes => w.note = db.note
      /\ c.kind \in AboutNotes => \A n \in Note \ {c.note} : w.note[n] = db.note[n]
  BY <1>1, <1>2, WrittenIs
<1> HIDE DEF w
<1>3. /\ c.kind \notin {"start", "end"} => db'.live = db.live
      /\ c.kind \notin Shared => db'.play = db.play
      /\ c.kind = "remove" => db'.queue = db.queue \ {c.hand}
      /\ c.kind = "restore" => db'.queue = db.queue \cup {c.hand}
      /\ c.kind \notin {"remove", "restore"} => db'.queue = db.queue
      /\ c.kind \notin AboutNotes => db'.note = db.note
      /\ c.kind \in AboutNotes => \A n \in Note \ {c.note} : db'.note[n] = db.note[n]
  <2>1. db' = w
    BY DEF w
  <2> QED  BY <1>0, <2>1
<1>4. \A u \in Task : task[u].at = "written" => u # t /\ task'[u] = task[u]
  OBVIOUS
<1>5. c.kind # "open" => task'[t].at = "written" /\ task'[t].does = c
  OBVIOUS
<1>6. \A x : LiveAs(x, db, task) => LiveAs(x, db', task')
  <2>1. CASE c.kind \in {"start", "end"}
    BY <1>5, <2>1 DEF LiveAs
  <2>2. CASE c.kind \notin {"start", "end"}
    BY <1>3, <1>4, <2>2 DEF LiveAs
  <2> QED  BY <2>1, <2>2
<1>7. \A x : PlayAs(x, db, task) => PlayAs(x, db', task')
  <2>1. CASE c.kind \in Shared
    BY <1>5, <2>1, KindsApart DEF PlayAs
  <2>2. CASE c.kind \notin Shared
    BY <1>3, <1>4, <2>2 DEF PlayAs
  <2> QED  BY <2>1, <2>2
<1>8. ASSUME NEW x, NEW h \in Hand, HandAs(x, db, task, h)  PROVE HandAs(x, db', task', h)
  <2>1. CASE c.kind \in {"remove", "restore"} /\ c.hand = h
    BY <1>5, <2>1 DEF HandAs, Requeues
  <2>2. CASE ~(c.kind \in {"remove", "restore"} /\ c.hand = h)
    <3>1. h \in db'.queue <=> h \in db.queue
      BY <1>3, <2>2
    <3> QED  BY <1>4, <1>8, <3>1 DEF HandAs, Requeues
  <2> QED  BY <2>1, <2>2
<1>9. ASSUME NEW y, NEW n \in Note, About[n] \notin crossed, NoteAs(y, db, task, n)
      PROVE  NoteAs(y, db', task', n)
  <2>1. \A u \in Task : /\ Rewrites(task[u], n, y) => Rewrites(task'[u], n, y)
                        /\ Restores(task[u], About[n]) => Restores(task'[u], About[n])
    BY <1>4 DEF Rewrites, Restores
  <2>2. CASE c.kind \notin AboutNotes
    <3>1. Saying(db', n) = Saying(db, n)
      BY <1>3, <2>2 DEF Saying, Standing
    <3>2. CASE c.kind = "restore" /\ c.hand = About[n]
      <4>1. Restores(task'[t], About[n])
        BY <1>5, <3>2 DEF Restores
      <4> QED  BY <1>9, <2>1, <3>1, <4>1 DEF NoteAs
    <3>3. CASE ~(c.kind = "restore" /\ c.hand = About[n])
      <4>1. About[n] \notin db.queue => About[n] \notin db'.queue
        BY <1>3, <3>3
      <4> QED  BY <1>9, <2>1, <3>1, <4>1 DEF NoteAs
    <3> QED  BY <3>2, <3>3
  <2>3. CASE c.kind \in AboutNotes /\ n # c.note
    <3>1. Saying(db', n) = Saying(db, n) /\ db'.queue = db.queue
      BY <1>3, <2>3, KindsApart DEF Saying, Standing
    <3> QED  BY <1>9, <2>1, <3>1 DEF NoteAs
  <2>4. CASE c.kind \in AboutNotes /\ n = c.note
    <3>1. HandOf(c) = About[n] /\ c.kind \in OnHand /\ About[n] \in db.queue
      <4>1. HandOf(c) = About[n] /\ c.kind \in OnHand
        BY <2>4, KindsApart DEF HandOf, AboutNotes
      <4> QED  BY <1>1, <1>9, <2>4, <4>1 DEF Stands, AboutNotes
    <3>2. ASSUME NEW u \in Task  PROVE ~Rewrites(task[u], n, y) /\ ~Restores(task[u], About[n])
      <4>1. task[u].at = "written" => u # t
        BY <1>4
      <4>2. Rewrites(task[u], n, y) => task[u].does.kind \in OnHand /\ HandOf(task[u].does) = About[n]
        BY KindsApart DEF Rewrites, HandOf, AboutNotes
      <4>3. Restores(task[u], About[n]) => task[u].does.kind \in OnHand /\ HandOf(task[u].does) = About[n]
        BY KindsApart DEF Restores, HandOf, AboutNotes
      <4>4. Rewrites(task[u], n, y) \/ Restores(task[u], About[n]) => task[u].at = "written"
        BY DEF Rewrites, Restores
      <4> QED  BY <1>9, <3>1, <4>1, <4>2, <4>3, <4>4, Elsewhere
    <3>3. y = Saying(db, n)
      BY <1>9, <3>1, <3>2 DEF NoteAs
    <3>4. c.kind \in OnWrite => y = None
      BY <1>1, <1>9, <2>4, <3>1, <3>3 DEF Stands, Saying, Standing
    <3>5. c.kind \in OnEdit => y # None
      <4>1. db.note[n] \in Row \cup {None} /\ None \notin Body
        BY <1>1, NotesAssumption DEF Room
      <4> QED  BY <1>1, <1>9, <2>4, <3>1, <3>3, <4>1 DEF Stands, Saying, Standing, Row
    <3>6. Rewrites(task'[t], n, y)
      BY <1>5, <2>4, <3>4, <3>5, KindsApart DEF Rewrites
    <3> QED  BY <3>6 DEF NoteAs
  <2> QED  BY <2>2, <2>3, <2>4
<1> QED  BY <1>6, <1>7, <1>8, <1>9 DEF Keeps

LEMMA WriteStands ==
    ASSUME IInv, SInv, NEW t \in Task, task[t].at = "checked", HasRow(task[t].does),
           db' = Written(db, task[t].does), crossed' = crossed
    PROVE  /\ \A u \in Task \ {t} : Stands(task[u], db', crossed')
           /\ Stands([at |-> "written", does |-> task[t].does], db', crossed')
<1> DEFINE c == task[t].does
<1>1. /\ c \in Wanted /\ db \in Room /\ Stands(task[t], db, crossed) /\ Due(task[t], db)
      /\ c.kind \in Shared => t = turn[1]
      /\ db.play # None => db.live
  BY PastTheCheck DEF IInv, SInv, Typed
<1>2. c.kind \in AboutNotes \ OnWrite => db.note[c.note] \in Row
  BY <1>1 DEF Due, AboutNotes, OnWrite, OnNotes, FromLibrary
<1> DEFINE w == Written(db, c)
<1>3. /\ c.kind = "start" => w.live = TRUE /\ (c.hand = None => w.play = db.play)
      /\ c.kind = "end" => w.live = FALSE
      /\ c.kind \notin {"start", "end"} => w.live = db.live
      /\ c.kind \notin Shared => w.play = db.play
      /\ c.kind = "remove" => w.queue = db.queue \ {c.hand}
      /\ c.kind = "restore" => w.queue = db.queue \cup {c.hand}
      /\ c.kind \notin {"remove", "restore"} => w.queue = db.queue
      /\ c.kind \notin AboutNotes => w.note = db.note
      /\ c.kind \in AboutNotes =>
           /\ \A n \in Note \ {c.note} : w.note[n] = db.note[n]
           /\ w.note[c.note] \in Row
           /\ c.kind \in OnEdit => w.note[c.note].removed = db.note[c.note].removed
           /\ c.kind \in OnDrop => w.note[c.note].removed = TRUE
           /\ c.kind \notin OnEdit \cup OnDrop => w.note[c.note].removed = FALSE
  BY <1>1, <1>2, WrittenIs
<1> HIDE DEF w
<1>4. None \notin Row
  BY NotesAssumption DEF Row
<1>5. c.kind \notin Shared => w.live = db.live /\ w.play = db.play
  BY <1>3, KindsApart
<1>6. c.kind \in AboutNotes /\ HandOf(c) \notin crossed =>
        (Standing(w, c.note) <=> c.kind \notin OnDrop)
  <2> SUFFICES ASSUME c.kind \in AboutNotes, HandOf(c) \notin crossed
               PROVE  Standing(w, c.note) <=> c.kind \notin OnDrop
    OBVIOUS
  <2>1. CASE c.kind \in OnEdit
    <3>1. ~db.note[c.note].removed
      BY <1>1, <2>1, KindsApart DEF Stands, Standing
    <3> QED  BY <1>3, <1>4, <2>1, <3>1, KindsApart DEF Standing
  <2>2. CASE c.kind \notin OnEdit
    BY <1>3, <1>4, <2>2 DEF Standing
  <2> QED  BY <2>1, <2>2
<1>7. Stands([at |-> "written", does |-> c], w, crossed)
  <2>1. c.kind = "start" => w.live /\ (c.hand = None => w.play = None)
    <3>1. c.kind = "start" => db.play = None
      BY <1>1 DEF Stands
    <3> QED  BY <1>3, <3>1
  <2>2. /\ c.kind = "end" => ~w.live
        /\ c.kind = "remove" => c.hand \notin w.queue
        /\ c.kind = "restore" => c.hand \in w.queue
    BY <1>3
  <2>3. c.kind \in AboutNotes /\ HandOf(c) \notin crossed => About[c.note] \in w.queue
    BY <1>1, <1>3, KindsApart DEF Stands, AboutNotes
  <2> QED  BY <1>6, <2>1, <2>2, <2>3, KindsApart DEF Stands, AboutNotes
<1>8. ASSUME NEW u \in Task \ {t}  PROVE Stands(task[u], w, crossed)
  <2> DEFINE k == task[u]
             b == k.does
  <2>1. Stands(k, db, crossed) /\ k \in Running
    BY DEF SInv, IInv, Typed
  <2>2. b.kind \in Shared /\ c.kind \in Shared => k.at \in {"idle", "asked"}
    BY <1>1, <2>1, PastTheCheck, RunningIs
  <2>3. CASE k.at = "idle"
    BY <2>3 DEF Stands
  <2>4. CASE k.at # "idle" /\ b.kind \in Shared
    <3>1. k.at \in {"checked", "written"} => w.live = db.live /\ w.play = db.play
      BY <1>5, <2>2, <2>4
    <3> QED  BY <2>1, <2>4, <3>1, KindsApart DEF Stands
  <2>5. CASE b.kind \notin Shared /\ (b.kind \notin OnHand \/ HandOf(b) \in crossed)
    BY <2>5, KindsApart DEF Stands
  <2>6. CASE k.at # "idle" /\ b.kind \in OnHand /\ HandOf(b) \notin crossed
    <3>1. c.kind \in OnHand => HandOf(c) # HandOf(b)
      BY <2>6, Elsewhere
    <3>2. b.kind \in {"remove", "restore"} => (b.hand \in w.queue <=> b.hand \in db.queue)
      BY <1>3, <3>1, KindsApart DEF HandOf, AboutNotes
    <3>3. b.kind \in AboutNotes => /\ b.note \in Note /\ w.note[b.note] = db.note[b.note]
                                   /\ About[b.note] \in db.queue => About[b.note] \in w.queue
      <4>1. b.kind \in AboutNotes => b.note \in Note
        BY <2>1, <2>6, RunningIs, WantedHas DEF AboutNotes
      <4>2. b.kind \in AboutNotes /\ c.kind \in AboutNotes => b.note # c.note
        BY <3>1, KindsApart DEF HandOf, AboutNotes
      <4>3. b.kind \in AboutNotes /\ c.kind = "remove" => About[b.note] # c.hand
        BY <3>1, KindsApart DEF HandOf, AboutNotes
      <4> QED  BY <1>3, <4>1, <4>2, <4>3
    <3>4. b.kind \notin {"start", "end"}
      BY <2>6, KindsApart
    <3> QED  BY <2>1, <2>6, <3>2, <3>3, <3>4, KindsApart DEF Stands, Standing, AboutNotes
  <2> QED  BY <2>3, <2>4, <2>5, <2>6
<1> QED  BY <1>7, <1>8 DEF w

-----------------------------------------------------------------------------
(* What the server tells.                                                  *)

LEMMA ToldIs ==
    ASSUME NEW c \in Wanted
    PROVE  LET m == Told(c) IN
           /\ c.kind = "start" => m.type = "liveStarted" /\ m.play = IF c.hand = None THEN None ELSE db.play
           /\ c.kind = "end" => m.type = "liveEnded"
           /\ c.kind \in {"load", "goTo", "hide"} => m.type = "playbackChanged" /\ m.play = db.play
           /\ c.kind = "remove" => m.type = "entryRemoved" /\ m.hand = c.hand
           /\ c.kind = "restore" => /\ m.type = "entryRestored" /\ m.hand = c.hand
                                    /\ m.notes = NotesOn(db, {c.hand})
           /\ c.kind \in AboutNotes => /\ m.note = c.note
                                       /\ c.kind \notin OnDrop => m.body = db.note[c.note].body
           /\ c.kind \in OnWrite => m.type = "noteWritten"
           /\ c.kind \in OnEdit => m.type = "noteEdited"
           /\ c.kind \in OnDrop => m.type = "noteRemoved"
           /\ c.kind \in {"undo", "libraryUndo"} => m.type = "noteRestored"
<1> USE DEF AboutNotes, OnWrite, OnEdit, OnDrop, OnNotes, FromLibrary
<1>1. CASE c.kind = "start"
  BY <1>1 DEF Told
<1>2. CASE c.kind = "end"
  BY <1>2 DEF Told
<1>3. CASE c.kind \in {"load", "goTo", "hide"}
  BY <1>3 DEF Told
<1>4. CASE c.kind = "remove"
  BY <1>4 DEF Told
<1>5. CASE c.kind = "restore"
  BY <1>5 DEF Told
<1>6. CASE c.kind \in OnWrite
  BY <1>6 DEF Told
<1>7. CASE c.kind \in OnEdit
  BY <1>7 DEF Told
<1>8. CASE c.kind \in OnDrop
  BY <1>8 DEF Told
<1>9. CASE c.kind \in {"undo", "libraryUndo"}
  BY <1>9 DEF Told
<1> QED  BY <1>1, <1>2, <1>3, <1>4, <1>5, <1>6, <1>7, <1>8, <1>9

(* A command about Playback tells the Room of it all.                      *)
LEMMA PlaybackTold ==
    ASSUME IInv, SInv, NEW t \in Task, task[t].at = "written", task'[t] = Nothing,
           \A u \in Task \ {t} : task'[u] = task[u], task[t].does.kind \in Shared,
           NEW e \in Browser, NEW f, Shows(f, e, Told(task[t].does)),
           LiveAs(e.live, db, task), PlayAs(e.play, db, task),
           QueueAs(e.queue, db, task, crossed), NotesAs(e.notes, db, task, crossed)
    PROVE  /\ LiveAs(f.live, db, task') /\ PlayAs(f.play, db, task')
           /\ QueueAs(f.queue, db, task', crossed) /\ NotesAs(f.notes, db, task', crossed)
<1> DEFINE c == task[t].does
           m == Told(c)
<1>1. /\ c \in Wanted /\ Stands(task[t], db, crossed) /\ (db.play # None => db.live) /\ t = turn[1]
      /\ db.live \in BOOLEAN
  BY PastTheCheck DEF IInv, SInv, Typed, Room
<1>2. \A u \in Task : task[u].at = "written" /\ task[u].does.kind \in Shared => u = t
  BY <1>1, PastTheCheck
<1>3. /\ c.kind = "start" => m.type = "liveStarted" /\ m.play = IF c.hand = None THEN None ELSE db.play
      /\ c.kind = "end" => m.type = "liveEnded"
      /\ c.kind \in {"load", "goTo", "hide"} => m.type = "playbackChanged" /\ m.play = db.play
  BY <1>1, ToldIs
<1> HIDE DEF m
<1>4. f.live = db.live
  <2>1. CASE c.kind = "start"
    BY <1>1, <1>3, <2>1 DEF Shows, Stands, m
  <2>2. CASE c.kind = "end"
    BY <1>1, <1>3, <2>2 DEF Shows, Stands, m
  <2>3. CASE c.kind \in {"load", "goTo", "hide"}
    <3>1. e.live = db.live
      BY <1>2, <2>3, KindsApart DEF LiveAs
    <3> QED  BY <1>3, <2>3, <3>1 DEF Shows, m
  <2> QED  BY <2>1, <2>2, <2>3 DEF Shared
<1>5. f.play = db.play
  BY <1>1, <1>3 DEF Shows, Stands, m, Shared
<1>6. f.queue = e.queue /\ f.notes = e.notes
  BY <1>3 DEF Shows, m, Shared
<1>7. \A h \in Hand : HandAs(e.queue, db, task, h) => HandAs(e.queue, db, task', h)
  BY KindsApart DEF HandAs, Requeues
<1>8. \A n \in Note : NoteAs(e.notes[n], db, task, n) => NoteAs(e.notes[n], db, task', n)
  BY KindsApart DEF NoteAs, Rewrites, Restores
<1> QED  BY <1>4, <1>5, <1>6, <1>7, <1>8 DEF LiveAs, PlayAs, QueueAs, NotesAs

(* One about an Entry of its place in the Queue.                           *)
LEMMA EntryTold ==
    ASSUME IInv, SInv, NEW t \in Task, task[t].at = "written", task'[t] = Nothing,
           \A u \in Task \ {t} : task'[u] = task[u], task[t].does.kind \in {"remove", "restore"},
           NEW e \in Browser, NEW f, Shows(f, e, Told(task[t].does)),
           LiveAs(e.live, db, task), PlayAs(e.play, db, task),
           QueueAs(e.queue, db, task, crossed), NotesAs(e.notes, db, task, crossed)
    PROVE  /\ LiveAs(f.live, db, task') /\ PlayAs(f.play, db, task')
           /\ QueueAs(f.queue, db, task', crossed) /\ NotesAs(f.notes, db, task', crossed)
<1> DEFINE c == task[t].does
           m == Told(c)
<1>1. c \in Wanted /\ Stands(task[t], db, crossed) /\ c.hand \in Hand
  BY PastTheCheck, WantedHas DEF IInv, SInv, Typed
<1>2. /\ c.kind = "remove" => m.type = "entryRemoved" /\ m.hand = c.hand
      /\ c.kind = "restore" => /\ m.type = "entryRestored" /\ m.hand = c.hand
                               /\ m.notes = NotesOn(db, {c.hand})
  BY <1>1, ToldIs
<1> HIDE DEF m
<1>3. /\ f.live = e.live /\ f.play = e.play
      /\ c.kind = "remove" => f.queue = e.queue \ {c.hand} /\ f.notes = e.notes
      /\ c.kind = "restore" => f.queue = e.queue \cup {c.hand} /\ f.notes = Fresh(e.notes, m.notes)
  BY <1>2 DEF Shows, m
<1>4. LiveAs(f.live, db, task') /\ PlayAs(f.play, db, task')
  BY <1>3, KindsApart DEF LiveAs, PlayAs
<1>5. ASSUME NEW h \in Hand \ crossed  PROVE HandAs(f.queue, db, task', h)
  <2>1. HandAs(e.queue, db, task, h)
    BY <1>5 DEF QueueAs
  <2>2. CASE h = c.hand
    <3>1. c.kind \in OnHand /\ HandOf(c) = h
      BY <2>2, KindsApart DEF HandOf, AboutNotes
    <3> QED  BY <1>1, <1>3, <1>5, <2>2, <3>1 DEF HandAs, Stands
  <2>3. CASE h # c.hand
    <3>1. h \in f.queue <=> h \in e.queue
      BY <1>3, <2>3
    <3> QED  BY <2>1, <2>3, <3>1 DEF HandAs, Requeues
  <2> QED  BY <2>2, <2>3
<1>6. ASSUME NEW n \in Note, About[n] \notin crossed  PROVE NoteAs(f.notes[n], db, task', n)
  <2> DEFINE y == e.notes[n]
  <2>1. NoteAs(y, db, task, n)
    BY <1>6 DEF NotesAs
  <2>2. \A u \in Task : Rewrites(task[u], n, y) => Rewrites(task'[u], n, y)
    BY KindsApart DEF Rewrites
  <2>3. c.kind = "remove" \/ About[n] # c.hand =>
          \A u \in Task : Restores(task[u], About[n]) => Restores(task'[u], About[n])
    BY DEF Restores
  <2>4. CASE c.kind = "remove"
    <3>1. f.notes[n] = y
      BY <1>3, <2>4
    <3> QED  BY <2>1, <2>2, <2>3, <2>4, <3>1 DEF NoteAs
  <2>5. CASE c.kind = "restore"
    <3>1. f.notes[n] = IF y # None THEN y ELSE NotesOn(db, {c.hand})[n]
      BY <1>2, <1>3, <2>5 DEF Fresh
    <3>2. CASE About[n] # c.hand
      <4>1. NotesOn(db, {c.hand})[n] = None
        BY <3>2 DEF NotesOn
      <4>2. f.notes[n] = y
        BY <3>1, <4>1
      <4> QED  BY <2>1, <2>2, <2>3, <3>2, <4>2 DEF NoteAs
    <3>3. CASE About[n] = c.hand
      <4>1. NotesOn(db, {c.hand})[n] = Saying(db, n)
        BY <3>3 DEF NotesOn, Saying
      <4>2. ASSUME NEW u \in Task  PROVE ~Rewrites(task[u], n, y)
        <5>1. Rewrites(task[u], n, y) => /\ task[u].does.kind \in OnHand /\ u # t
                                         /\ HandOf(task[u].does) = About[n]
                                         /\ task[u].at = "written"
          BY <2>5, KindsApart DEF Rewrites, HandOf, AboutNotes
        <5>2. HandOf(c) = About[n] /\ c.kind \in OnHand
          BY <2>5, <3>3, KindsApart DEF HandOf, AboutNotes
        <5> QED  BY <1>6, <5>1, <5>2, Elsewhere
      <4>3. y = Saying(db, n) \/ y = None
        BY <2>1, <4>2 DEF NoteAs
      <4> QED  BY <3>1, <4>1, <4>3 DEF NoteAs
    <3> QED  BY <3>2, <3>3
  <2> QED  BY <2>4, <2>5
<1> QED  BY <1>4, <1>5, <1>6 DEF QueueAs, NotesAs

(* One about a Note of what it says.                                       *)
LEMMA NoteTold ==
    ASSUME IInv, SInv, NEW t \in Task, task[t].at = "written", task'[t] = Nothing,
           \A u \in Task \ {t} : task'[u] = task[u], task[t].does.kind \in AboutNotes,
           NEW e \in Browser, NEW f, Shows(f, e, Told(task[t].does)),
           LiveAs(e.live, db, task), PlayAs(e.play, db, task),
           QueueAs(e.queue, db, task, crossed), NotesAs(e.notes, db, task, crossed)
    PROVE  /\ LiveAs(f.live, db, task') /\ PlayAs(f.play, db, task')
           /\ QueueAs(f.queue, db, task', crossed) /\ NotesAs(f.notes, db, task', crossed)
<1> DEFINE c == task[t].does
           m == Told(c)
<1>1. /\ c \in Wanted /\ Stands(task[t], db, crossed) /\ c.note \in Note
      /\ e.notes \in [Note -> Body \cup {None}]
  BY PastTheCheck, WantedHas DEF IInv, SInv, Typed, AboutNotes, Browser, Held
<1>2. /\ m.note = c.note
      /\ c.kind \notin OnDrop => m.body = db.note[c.note].body
      /\ c.kind \in OnWrite => m.type = "noteWritten"
      /\ c.kind \in OnEdit => m.type = "noteEdited"
      /\ c.kind \in OnDrop => m.type = "noteRemoved"
      /\ c.kind \notin OnWrite \cup OnEdit \cup OnDrop => m.type = "noteRestored"
  <2>1. c.kind \notin OnWrite \cup OnEdit \cup OnDrop => c.kind \in {"undo", "libraryUndo"}
    BY DEF AboutNotes, OnNotes, FromLibrary, OnWrite, OnEdit, OnDrop
  <2> QED  BY <1>1, <2>1, ToldIs
<1> HIDE DEF m
<1>3. f.live = e.live /\ f.play = e.play /\ f.queue = e.queue
  BY <1>2 DEF Shows, m
<1>4. /\ \A n \in Note \ {c.note} : f.notes[n] = e.notes[n]
      /\ c.kind \in OnWrite => f.notes[c.note] = IF e.notes[c.note] # None THEN e.notes[c.note] ELSE m.body
      /\ c.kind \in OnEdit => f.notes[c.note] = IF e.notes[c.note] # None THEN m.body ELSE e.notes[c.note]
      /\ c.kind \in OnDrop => f.notes[c.note] = None
      /\ c.kind \notin OnWrite \cup OnEdit \cup OnDrop => f.notes[c.note] = m.body
  <2>1. CASE c.kind \in OnWrite
    BY <1>1, <1>2, <2>1, KindsApart DEF Shows, m
  <2>2. CASE c.kind \in OnEdit
    BY <1>1, <1>2, <2>2, KindsApart DEF Shows, m
  <2>3. CASE c.kind \in OnDrop
    BY <1>1, <1>2, <2>3, KindsApart DEF Shows, m
  <2>4. CASE c.kind \notin OnWrite \cup OnEdit \cup OnDrop
    BY <1>1, <1>2, <2>4 DEF Shows, m
  <2> QED  BY <2>1, <2>2, <2>3, <2>4
<1>5. LiveAs(f.live, db, task') /\ PlayAs(f.play, db, task')
  BY <1>3, KindsApart DEF LiveAs, PlayAs
<1>6. QueueAs(f.queue, db, task', crossed)
  BY <1>3, KindsApart DEF QueueAs, HandAs, Requeues
<1>7. ASSUME NEW n \in Note, About[n] \notin crossed  PROVE NoteAs(f.notes[n], db, task', n)
  <2> DEFINE y == e.notes[n]
  <2>1. NoteAs(y, db, task, n)
    BY <1>7 DEF NotesAs
  <2>2. CASE n # c.note
    <3>1. \A u \in Task : /\ Rewrites(task[u], n, y) => Rewrites(task'[u], n, y)
                          /\ Restores(task[u], About[n]) => Restores(task'[u], About[n])
      BY <2>2, KindsApart DEF Rewrites, Restores
    <3> QED  BY <1>4, <2>1, <2>2, <3>1 DEF NoteAs
  <2>3. CASE n = c.note
    <3>1. HandOf(c) = About[n] /\ c.kind \in OnHand /\ About[n] \in db.queue
      <4>1. HandOf(c) = About[n] /\ c.kind \in OnHand
        BY <2>3, KindsApart DEF HandOf, AboutNotes
      <4> QED  BY <1>1, <1>7, <2>3, <4>1 DEF Stands, AboutNotes
    <3>2. ASSUME NEW u \in Task
          PROVE  ~Restores(task[u], About[n]) /\ (Rewrites(task[u], n, y) => u = t)
      <4>1. Rewrites(task[u], n, y) => /\ task[u].does.kind \in OnHand
                                       /\ HandOf(task[u].does) = About[n] /\ task[u].at = "written"
        BY KindsApart DEF Rewrites, HandOf, AboutNotes
      <4>2. Restores(task[u], About[n]) =>
              /\ task[u].does.kind \in OnHand /\ u # t
              /\ HandOf(task[u].does) = About[n] /\ task[u].at = "written"
        BY KindsApart DEF Restores, HandOf, AboutNotes
      <4> QED  BY <1>7, <3>1, <4>1, <4>2, Elsewhere
    <3>3. y = Saying(db, n) \/ Rewrites(task[t], n, y)
      BY <2>1, <3>1, <3>2 DEF NoteAs
    <3>4. c.kind \notin OnDrop => Saying(db, n) = m.body /\ m.body # None
      <4>1. db.note[n] \in Row \cup {None} /\ None \notin Body
        BY NotesAssumption DEF IInv, Typed, Room
      <4>2. c.kind \notin OnDrop => Standing(db, n)
        BY <1>1, <1>7, <2>3, <3>1 DEF Stands
      <4> QED  BY <1>2, <2>3, <4>1, <4>2 DEF Saying, Standing, Row
    <3>5. c.kind \in OnDrop => Saying(db, n) = None
      BY <1>1, <1>7, <2>3, <3>1 DEF Stands, Saying
    <3>6. f.notes[n] = Saying(db, n)
      <4>1. CASE c.kind \in OnWrite
        BY <1>4, <2>3, <3>3, <3>4, <4>1, KindsApart DEF Rewrites
      <4>2. CASE c.kind \in OnEdit
        BY <1>4, <2>3, <3>3, <3>4, <4>2, KindsApart DEF Rewrites
      <4>3. CASE c.kind \notin OnWrite \cup OnEdit
        BY <1>4, <2>3, <3>4, <3>5, <4>3
      <4> QED  BY <4>1, <4>2, <4>3
    <3> QED  BY <3>6 DEF NoteAs
  <2> QED  BY <2>2, <2>3
<1> QED  BY <1>5, <1>6, <1>7 DEF NotesAs

-----------------------------------------------------------------------------
(* The steps.                                                              *)

LEMMA NothingStands == \A d, z : Nothing.at = "idle" /\ Stands(Nothing, d, z)
<1>1. Nothing.at = "idle"
  BY DEF Nothing
<1> QED  BY <1>1 DEF Stands

LEMMA PublishTold ==
    ASSUME IInv, SInv, NEW t \in Task, Publish(t),
           task[t].does.kind \in FromLibrary => About[task[t].does.note] \in db.queue
    PROVE  SInv'
<1> DEFINE c == task[t].does
           p == [rev |-> revision + 1, says |-> Told(c)]
<1>1. /\ task[t].at = "written" /\ Finished(t) /\ UNCHANGED <<db, drawing, view, crossed>>
      /\ db \in Room /\ revision \in Nat /\ wire \in Seq(Parcel) /\ task \in [Task -> Running]
      /\ Stands(task[t], db, crossed) /\ drawing \in Drawing \cup {None}
  BY DEF IInv, SInv, Typed, Publish
<1>2. /\ c \in Wanted /\ Due([at |-> "written", does |-> c], db) /\ c.kind # "open"
  BY <1>1, PastTheCheck DEF Due, IInv
<1>3. task'[t] = Nothing /\ \A u \in Task \ {t} : task'[u] = task[u]
  BY <1>1 DEF Finished
<1>4. revision' = revision + 1 /\ wire' = Append(wire, p)
  BY DEF Publish
<1>5. Told(c) \in Message /\ Told(c).type # "snapshot" /\ p \in Parcel
  <2>1. Told(c) \in Message
    BY <1>1, <1>2, ToldTyped
  <2>2. Told(c).type # "snapshot"
    BY <1>2, ToldIs, WantedHas DEF Shared, AboutNotes, OnNotes, FromLibrary, OnWrite, OnEdit, OnDrop
  <2> QED  BY <1>1, <2>1, <2>2 DEF Parcel
<1>6. PICK e \in Browser : Comes(view, wire, e) /\ UpToDate(e, revision, db, task, crossed)
  BY DEF SInv
<1> DEFINE o == Took(e, p)
<1>7. o = Change(e, revision + 1, Told(c)) /\ o \in Browser
  BY <1>5, TookTyped DEF Took
<1>8. Comes(view', wire', o)
  BY <1>1, <1>4, <1>5, <1>6, LastComes
<1>9. UpToDate(o, revision', db', task', crossed')
  <2>1. /\ e.seen = revision /\ e.owed \in BOOLEAN /\ e.rev \in Nat
        /\ ~e.owed => e.rev = revision
    BY <1>6 DEF UpToDate, Browser
  <2>2. /\ o.seen = IF revision + 1 > e.seen THEN revision + 1 ELSE e.seen
        /\ o.owed = (e.owed \/ revision + 1 > e.rev + 1)
        /\ o.rev = IF e.owed \/ revision + 1 <= e.rev \/ revision + 1 > e.rev + 1 THEN e.rev ELSE revision + 1
        /\ SameRoom(o, IF e.owed \/ revision + 1 <= e.rev \/ revision + 1 > e.rev + 1
                       THEN e ELSE Applied(e, Told(c)))
    BY <1>1, <1>5, <1>7, ChangeShows
  <2> HIDE DEF o
  <2>3. o.seen = revision + 1
    BY <1>1, <2>1, <2>2
  <2>4. CASE e.owed
    BY <1>4, <2>2, <2>3, <2>4 DEF UpToDate
  <2>5. CASE ~e.owed
    <3> DEFINE f == Applied(e, Told(c))
    <3>1. o.rev = revision + 1 /\ SameRoom(o, f)
      BY <1>1, <2>1, <2>2, <2>5
    <3>2. Shows(f, e, Told(c))
      BY <1>5, AppliedShows
    <3>3. /\ LiveAs(e.live, db, task) /\ PlayAs(e.play, db, task)
          /\ QueueAs(e.queue, db, task, crossed) /\ NotesAs(e.notes, db, task, crossed)
      BY <1>6, <2>5 DEF UpToDate
    <3> HIDE DEF f
    <3>4. /\ LiveAs(f.live, db, task') /\ PlayAs(f.play, db, task')
          /\ QueueAs(f.queue, db, task', crossed) /\ NotesAs(f.notes, db, task', crossed)
      <4>1. CASE c.kind \in Shared
        BY <1>1, <1>3, <3>2, <3>3, <4>1, PlaybackTold
      <4>2. CASE c.kind \in {"remove", "restore"}
        BY <1>1, <1>3, <3>2, <3>3, <4>2, EntryTold
      <4>3. CASE c.kind \in AboutNotes
        BY <1>1, <1>3, <3>2, <3>3, <4>3, NoteTold
      <4> QED  BY <1>2, <4>1, <4>2, <4>3, WantedHas DEF AboutNotes
    <3> QED  BY <1>1, <1>4, <2>3, <3>1, <3>4 DEF UpToDate, SameRoom
  <2> QED  BY <2>4, <2>5
<1>10. DrawnAs(drawing', revision', db', task', crossed')
  <2>1. drawing # None => drawing.rev \in Nat
    BY <1>1 DEF Drawing
  <2>2. drawing' # None => drawing'.rev <= revision /\ drawing'.rev <= revision'
                           /\ drawing'.rev # revision'
    BY <1>1, <1>4, <2>1 DEF SInv, DrawnAs
  <2> QED  BY <1>1, <2>2 DEF SInv, DrawnAs
<1>11. (\A u \in Task : Stands(task'[u], db', crossed')) /\ ByHand(task', crossed')
  <2>1. \A u \in Task : task'[u] = task[u] \/ task'[u] = Nothing
    BY <1>3
  <2>2. Nothing.at = "idle" /\ Stands(Nothing, db, crossed)
    BY NothingStands
  <2>3. \A u \in Task : task'[u].at # "idle" => task'[u] = task[u]
    BY <2>1, <2>2
  <2> QED  BY <1>1, <2>1, <2>2, <2>3 DEF SInv, ByHand
<1> QED  BY <1>7, <1>8, <1>9, <1>10, <1>11 DEF SInv

LEMMA SameLooks == \A v : LooksLike(v, v)
BY DEF LooksLike, SameRoom

(* The rest of the server's steps: nothing is told.                        *)
LEMMA ServerStays ==
    ASSUME SInv, UNCHANGED <<revision, wire, drawing>>, LooksLike(view, view'),
           Keeps(db, task, crossed, db', task', crossed'), \A t \in Task : Stands(task'[t], db', crossed'), ByHand(task', crossed')
    PROVE  SInv'
<1>1. PICK e \in Browser : Comes(view, wire, e) /\ UpToDate(e, revision, db, task, crossed)
  BY DEF SInv
<1>2. Comes(view', wire', e)
  BY <1>1, OwnTableComes
<1>3. UpToDate(e, revision', db', task', crossed') /\ DrawnAs(drawing', revision', db', task', crossed')
  BY <1>1, KeepsShown DEF SInv
<1> QED  BY <1>2, <1>3 DEF SInv

(* A change made from a Library that no Room is told of: the Hand is out of *)
(* the Queue, so commands crossed on it.                                   *)
LEMMA UntoldStays ==
    ASSUME IInv, SInv, NEW t \in Task, Publish(t), task[t].does.kind \in FromLibrary,
           About[task[t].does.note] \notin db.queue
    PROVE  SInv'
<1> DEFINE c == task[t].does
<1>1. /\ task[t].at = "written" /\ UNCHANGED <<db, revision, wire, drawing, view, crossed>>
      /\ task \in [Task -> Running] /\ \A u \in Task : Stands(task[u], db, crossed)
      /\ task'[t] = Nothing /\ \A u \in Task \ {t} : task'[u] = task[u]
  BY DEF IInv, SInv, Typed, Publish, Finished
<1>2. c.kind \in AboutNotes /\ HandOf(c) = About[c.note] /\ About[c.note] \in crossed
  <2>1. c.kind \in AboutNotes /\ c.kind \in OnHand /\ HandOf(c) = About[c.note]
    BY KindsApart DEF AboutNotes, HandOf
  <2> QED  BY <1>1, <2>1 DEF Stands
<1>3. ByHand(task', crossed')
  <2>1. \A u \in Task : task'[u].at # "idle" => task'[u] = task[u]
    BY <1>1, NothingStands
  <2> QED  BY <1>1, <2>1 DEF SInv, ByHand
<1>4. \A u \in Task : Stands(task'[u], db', crossed')
  BY <1>1, NothingStands
<1>5. \A u \in Task : task[u].at = "written" /\ task'[u] # task[u] => u = t
  BY <1>1
<1>6. Keeps(db, task, crossed, db', task', crossed')
  <2>1. \A x : LiveAs(x, db, task) => LiveAs(x, db', task')
    BY <1>1, <1>2, <1>5, KindsApart DEF LiveAs
  <2>2. \A x : PlayAs(x, db, task) => PlayAs(x, db', task')
    BY <1>1, <1>2, <1>5, KindsApart DEF PlayAs
  <2>3. ASSUME NEW x, NEW h \in Hand, HandAs(x, db, task, h)  PROVE HandAs(x, db', task', h)
    <3>1. \A u \in Task : Requeues(task[u], h) => task'[u] = task[u]
      BY <1>2, <1>5, KindsApart DEF Requeues
    <3> QED  BY <1>1, <2>3, <3>1 DEF HandAs
  <2>4. ASSUME NEW y, NEW n \in Note, About[n] \notin crossed, NoteAs(y, db, task, n)
        PROVE  NoteAs(y, db', task', n)
    <3>1. \A u \in Task : /\ Restores(task[u], About[n]) => task'[u] = task[u]
                          /\ Rewrites(task[u], n, y) => task'[u] = task[u]
      BY <1>2, <1>5, <2>4, KindsApart DEF Restores, Rewrites
    <3> QED  BY <1>1, <2>4, <3>1 DEF NoteAs, Saying, Standing
  <2> QED  BY <1>1, <2>1, <2>2, <2>3, <2>4 DEF Keeps
<1> QED  BY <1>1, <1>3, <1>4, <1>6, ServerStays, SameLooks

LEMMA WriteStays ==
    ASSUME IInv, SInv, NEW t \in Task, Write(t)
    PROVE  SInv'
<1> DEFINE c == task[t].does
<1>1. /\ task[t].at = "checked" /\ UNCHANGED <<revision, wire, drawing, view, crossed>>
      /\ task \in [Task -> Running] /\ \A u \in Task : Stands(task[u], db, crossed)
      /\ task[t] = [at |-> task[t].at, does |-> c]
  BY PastTheCheck DEF IInv, SInv, Typed, Write
<1>2. /\ \A u \in Task \ {t} : task'[u] = task[u]
      /\ task'[t] = Nothing \/ task'[t] = [at |-> "written", does |-> c]
      /\ HasRow(c) /\ c.kind # "open" => task'[t] = [at |-> "written", does |-> c]
  BY <1>1 DEF Write, Finished
<1>3. ByHand(task', crossed')
  <2>1. \A u \in Task : task'[u].at # "idle" => task[u].at # "idle" /\ task'[u].does = task[u].does
    BY <1>1, <1>2, NothingStands
  <2> QED  BY <1>1, <2>1 DEF SInv, ByHand
<1>4. CASE ~HasRow(c)
  <2>1. task'[t] = Nothing /\ db' = db
    BY <1>1, <1>4 DEF Write, Finished
  <2>2. Keeps(db, task, crossed, db', task', crossed')
    BY <1>1, <1>2, <2>1, NoneTold
  <2>3. \A u \in Task : Stands(task'[u], db', crossed')
    BY <1>1, <1>2, <2>1, NothingStands
  <2> QED  BY <1>1, <1>3, <2>2, <2>3, ServerStays, SameLooks
<1>5. CASE HasRow(c)
  <2>1. db' = Written(db, c)
    BY <1>5 DEF Write
  <2>2. Keeps(db, task, crossed, db', task', crossed')
    BY <1>1, <1>2, <1>5, <2>1, WriteKeepsShown
  <2>3. /\ \A u \in Task \ {t} : Stands(task[u], db', crossed')
        /\ Stands([at |-> "written", does |-> c], db', crossed')
    BY <1>1, <1>5, <2>1, WriteStands
  <2>4. \A u \in Task : Stands(task'[u], db', crossed')
    BY <1>2, <2>3, NothingStands
  <2> QED  BY <1>1, <1>3, <2>2, <2>4, ServerStays, SameLooks
<1> QED  BY <1>4, <1>5

LEMMA CheckStays ==
    ASSUME IInv, SInv, NEW t \in Task, Check(t)
    PROVE  SInv'
<1> DEFINE c == task[t].does
<1>1. /\ task[t].at = "asked" /\ UNCHANGED <<db, revision, wire, drawing, view, crossed>>
      /\ task \in [Task -> Running] /\ \A u \in Task : Stands(task[u], db, crossed)
      /\ task[t] = [at |-> task[t].at, does |-> c] /\ c \in Wanted
  BY RunningIs DEF IInv, SInv, Typed, Check
<1>2. /\ \A u \in Task \ {t} : task'[u] = task[u]
      /\ task'[t] = Nothing \/ (Valid(c) /\ task'[t] = [at |-> "checked", does |-> c])
  BY <1>1 DEF Check, Finished
<1>3. ByHand(task', crossed')
  <2>1. \A u \in Task : task'[u].at # "idle" => task[u].at # "idle" /\ task'[u].does = task[u].does
    BY <1>1, <1>2, NothingStands
  <2> QED  BY <1>1, <2>1 DEF SInv, ByHand
<1>4. Valid(c) => Stands([at |-> "checked", does |-> c], db, crossed)
  <2>1. c.kind = "start" /\ Valid(c) => ~db.live
    BY DEF Valid
  <2>2. c.kind \in OnWrite /\ Valid(c) => db.note[c.note] = None
    BY DEF Valid, OnWrite
  <2>3. c.kind \in OnEdit \cup OnDrop /\ Valid(c) => Standing(db, c.note)
    BY DEF Valid, OnEdit, OnDrop
  <2>4. c.kind \in OnNotes /\ Valid(c) => About[c.note] \in db.queue
    BY DEF Valid, OnNotes
  <2>5. c.kind \in FromLibrary /\ c.kind \in OnHand /\ HandOf(c) \notin crossed
          => About[c.note] \in db.queue
    BY <1>1 DEF Stands
  <2> QED  BY <2>1, <2>2, <2>3, <2>4, <2>5 DEF Stands
<1>5. \A u \in Task : Stands(task'[u], db', crossed')
  BY <1>1, <1>2, <1>4, NothingStands
<1>6. Keeps(db, task, crossed, db', task', crossed')
  BY <1>1, <1>2, NoneTold
<1> QED  BY <1>1, <1>3, <1>5, <1>6, ServerStays, SameLooks

LEMMA AskStays ==
    ASSUME IInv, SInv, NEW t \in Task, NEW c \in Wanted, Ask(t, c),
           LooksLike(view, view')
    PROVE  SInv'
<1>1. /\ task[t] = Nothing /\ task \in [Task -> Running] /\ UNCHANGED <<db, revision, wire, drawing>>
      /\ task'[t] = [at |-> "asked", does |-> c] /\ \A u \in Task \ {t} : task'[u] = task[u]
      /\ \A u \in Task : Stands(task[u], db, crossed)
      /\ crossed' = IF Crosses(c) THEN crossed \cup {HandOf(c)} ELSE crossed
  BY DEF IInv, SInv, Typed, Ask
<1>2. crossed \subseteq crossed'
  BY <1>1
<1>3. c.kind \in OnHand /\ HandOf(c) \notin crossed' =>
        /\ c.kind \in FromLibrary => About[c.note] \in db.queue
        /\ \A u \in Task : task[u] # Nothing /\ task[u].does.kind \in OnHand
                            => HandOf(task[u].does) # HandOf(c)
  <2>1. c.kind \in FromLibrary => HandOf(c) = About[c.note]
    BY DEF HandOf
  <2> QED  BY <1>1, <2>1 DEF Crosses
<1>4. ByHand(task', crossed')
  <2>1. \A u \in Task \ {t} : /\ task'[u] = task[u]
                              /\ task[u].at # "idle" => task[u] # Nothing
    BY <1>1, NothingStands
  <2>2. task'[t].does = c
    BY <1>1
  <2>3. ASSUME NEW u \in Task \ {t}, task[u].at # "idle", task[u].does.kind \in OnHand,
               c.kind \in OnHand, HandOf(task[u].does) = HandOf(c)
        PROVE  HandOf(c) \in crossed'
    BY <1>3, <2>1, <2>3
  <2>4. \A u, v \in Task \ {t} :
          /\ u # v /\ task[u].at # "idle" /\ task[v].at # "idle"
          /\ task[u].does.kind \in OnHand /\ task[v].does.kind \in OnHand
          /\ HandOf(task[u].does) = HandOf(task[v].does)
          => HandOf(task[u].does) \in crossed'
    BY <1>2 DEF SInv, ByHand
  <2> QED  BY <2>1, <2>2, <2>3, <2>4 DEF ByHand
<1>5. \A u \in Task : Stands(task'[u], db', crossed')
  <2>1. Stands([at |-> "asked", does |-> c], db, crossed')
    BY <1>3 DEF Stands
  <2>2. \A u \in Task : Stands(task[u], db, crossed')
    BY <1>1, <1>2 DEF Stands
  <2> QED  BY <1>1, <2>1, <2>2
<1>6. Keeps(db, task, crossed, db', task', crossed')
  <2>1. \A u \in Task : task[u].at = "written" => task'[u] = task[u]
    BY <1>1, NothingStands
  <2> QED  BY <1>1, <1>2, <2>1, NoneTold
<1> QED  BY <1>1, <1>4, <1>5, <1>6, ServerStays

LEMMA CommandStays ==
    ASSUME IInv, SInv, NEW t \in Task,
           (\E h \in Hand : Opens(t, h)) \/ StartsLive(t) \/ Asks(t)
    PROVE  SInv'
<1>1. view \in Browser /\ view.own \in Table /\ Command \subseteq Wanted
  BY DEF IInv, Typed, Browser, Wanted
<1>2. ASSUME NEW h \in Hand, Opens(t, h)  PROVE SInv'
  <2>1. /\ [kind |-> "load", hand |-> h] \in Wanted
        /\ [kind |-> "open", hand |-> h] \in Wanted
    BY DEF Wanted, Command
  <2>2. LooksLike(view, [view EXCEPT !.own = At(h)])
    BY <1>1 DEF LooksLike, SameRoom, Browser
  <2>3. CASE view.live
    BY <1>2, <2>1, <2>3, AskStays, SameLooks DEF Opens
  <2>4. CASE ~view.live
    BY <1>2, <2>1, <2>2, <2>4, AskStays DEF Opens
  <2> QED  BY <2>3, <2>4
<1>3. CASE StartsLive(t)
  <2> DEFINE hand == IF view.own = None THEN None ELSE view.own.hand
             step == IF view.own = None THEN 0 ELSE view.own.step
  <2>1. hand \in Hand \cup {None} /\ step \in Nat
    BY <1>1 DEF Table, Playback
  <2>2. [kind |-> "start", hand |-> hand, step |-> step] \in Wanted
    BY <2>1 DEF Wanted
  <2>3. Ask(t, [kind |-> "start", hand |-> hand, step |-> step]) /\ UNCHANGED view
    BY <1>3 DEF StartsLive
  <2> QED  BY <2>2, <2>3, AskStays, SameLooks
<1>4. CASE Asks(t)
  <2>1. PICK c \in Command : Ask(t, c)
    BY <1>4 DEF Asks
  <2>2. view' = view
    BY <1>4 DEF Asks
  <2> QED  BY <1>1, <2>1, <2>2, AskStays, SameLooks
<1> QED  BY <1>2, <1>3, <1>4

(* What the browser does, and the snapshots.                               *)
LEMMA TakingStays ==
    ASSUME IInv, SInv, Receive \/ \E s \in AnyStep : OwnWentTo(s)
    PROVE  SInv'
<1>1. view \in Browser /\ wire \in Seq(Parcel)
  BY DEF IInv, Typed
<1>2. CASE Receive
  <2>1. /\ wire # <<>> /\ view' = Took(view, Head(wire)) /\ wire' = Tail(wire)
        /\ UNCHANGED <<db, task, revision, drawing, crossed>>
    BY <1>2 DEF Receive, Took
  <2>2. PICK e \in Browser : Comes(view, wire, e) /\ UpToDate(e, revision, db, task, crossed)
    BY DEF SInv
  <2>3. Comes(view', wire', e)
    BY <1>1, <2>1, <2>2, FirstComes
  <2> QED  BY <2>1, <2>2, <2>3 DEF SInv, ByHand
<1>3. ASSUME NEW s \in AnyStep, OwnWentTo(s)  PROVE SInv'
  <2>1. /\ view' = [view EXCEPT !.own.step = s]
        /\ UNCHANGED <<db, task, revision, wire, drawing, crossed>>
    BY <1>3 DEF OwnWentTo
  <2>2. LooksLike(view, view')
    BY <1>1, <2>1 DEF LooksLike, SameRoom, Browser
  <2>3. Keeps(db, task, crossed, db', task', crossed')
    BY <2>1, NoneTold
  <2> QED  BY <2>1, <2>2, <2>3, ServerStays DEF SInv, ByHand
<1> QED  BY <1>2, <1>3

LEMMA DrawStays ==
    ASSUME IInv, SInv, Draw
    PROVE  SInv'
<1>1. /\ drawing' # None => /\ drawing'.rev = revision
                            /\ drawing'.left = {"state", "queue", "notes", "yours"}
                            /\ drawing'.says.play = None
      /\ UNCHANGED <<db, task, revision, wire, view, crossed>> /\ revision \in Nat
  BY DEF Draw, IInv, Typed
<1>2. DrawnAs(drawing', revision', db', task', crossed')
  BY <1>1 DEF DrawnAs
<1> QED  BY <1>1, <1>2 DEF SInv, ByHand

(* The Notes read stand as they are, or are on no Hand of the Queue.       *)
LEMMA NotesReadAs ==
    ASSUME NEW d, NEW k, NEW z
    PROVE  NotesAs(NotesOn(d, d.queue), d, k, z)
BY DEF NotesAs, NoteAs, NotesOn, Saying

LEMMA ReadStays ==
    ASSUME IInv, SInv, NEW table \in {"state", "playback", "queue", "notes", "yours"}, Read(table)
    PROVE  SInv'
<1> DEFINE w == drawing
           o == drawing'
           next == IF table = "state" /\ db.live THEN {"playback"} ELSE {}
<1>1. /\ w # None /\ table \in w.left /\ w \in Drawing
      /\ UNCHANGED <<db, task, revision, wire, view, crossed>>
      /\ DrawnAs(w, revision, db, task, crossed)
  BY DEF Read, IInv, SInv, Typed
<1>2. /\ o.rev = w.rev /\ o.left = (w.left \ {table}) \cup next
      /\ table = "state" => o.says = [w.says EXCEPT !.live = db.live]
      /\ table = "playback" => o.says = [w.says EXCEPT !.play = db.play]
      /\ table = "queue" => o.says = [w.says EXCEPT !.queue = db.queue]
      /\ table = "notes" => o.says = [w.says EXCEPT !.notes = NotesOn(db, db.queue)]
      /\ table = "yours" => o.says = [w.says EXCEPT !.yours =
                                        IF db.yours \in db.queue THEN db.yours ELSE None]
  BY <1>1 DEF Read, Drawing
<1>3. w.says \in Drawn
  BY <1>1 DEF Drawing
<1> HIDE DEF w, o
<1>4. /\ o.says.live = IF table = "state" THEN db.live ELSE w.says.live
      /\ o.says.play = IF table = "playback" THEN db.play ELSE w.says.play
      /\ o.says.queue = IF table = "queue" THEN db.queue ELSE w.says.queue
      /\ o.says.notes = IF table = "notes" THEN NotesOn(db, db.queue) ELSE w.says.notes
  BY <1>2, <1>3 DEF Drawn
<1>5. /\ w.rev <= revision
      /\ "state" \in w.left => w.says.play = None /\ "playback" \notin w.left
  BY <1>1 DEF DrawnAs
<1>6. "state" \in o.left => o.says.play = None /\ "playback" \notin o.left
  BY <1>1, <1>2, <1>4, <1>5
<1>7. ASSUME w.rev = revision
      PROVE  /\ "state" \notin o.left => LiveAs(o.says.live, db, task)
             /\ {"state", "playback"} \cap o.left = {} => PlayAs(o.says.play, db, task)
             /\ "queue" \notin o.left => QueueAs(o.says.queue, db, task, crossed)
             /\ "notes" \notin o.left => NotesAs(o.says.notes, db, task, crossed)
  <2>1. /\ "state" \notin w.left => LiveAs(w.says.live, db, task)
        /\ {"state", "playback"} \cap w.left = {} => PlayAs(w.says.play, db, task)
        /\ "queue" \notin w.left => QueueAs(w.says.queue, db, task, crossed)
        /\ "notes" \notin w.left => NotesAs(w.says.notes, db, task, crossed)
    BY <1>1, <1>7 DEF DrawnAs
  <2>2. "state" \notin o.left => LiveAs(o.says.live, db, task)
    BY <1>2, <1>4, <2>1 DEF LiveAs
  <2>3. {"state", "playback"} \cap o.left = {} => PlayAs(o.says.play, db, task)
    <3>1. CASE table = "state"
      <4>1. ~db.live \/ "playback" \in o.left
        BY <1>2, <3>1
      <4>2. ~db.live => w.says.play = db.play
        BY <1>1, <1>5, <3>1 DEF IInv
      <4> QED  BY <1>4, <3>1, <4>1, <4>2 DEF PlayAs
    <3>2. CASE table = "playback"
      BY <1>4, <3>2 DEF PlayAs
    <3>3. CASE table \notin {"state", "playback"}
      BY <1>2, <1>4, <2>1, <3>3
    <3> QED  BY <3>1, <3>2, <3>3
  <2>4. "queue" \notin o.left => QueueAs(o.says.queue, db, task, crossed)
    <3>1. QueueAs(db.queue, db, task, crossed)
      BY DEF QueueAs, HandAs
    <3> QED  BY <1>2, <1>4, <2>1, <3>1
  <2>5. "notes" \notin o.left => NotesAs(o.says.notes, db, task, crossed)
    BY <1>2, <1>4, <2>1, NotesReadAs
  <2> QED  BY <2>2, <2>3, <2>4, <2>5
<1>8. DrawnAs(o, revision, db, task, crossed)
  BY <1>2, <1>5, <1>6, <1>7 DEF DrawnAs
<1> QED  BY <1>1, <1>8 DEF SInv, ByHand, o

LEMMA SendStays ==
    ASSUME IInv, SInv, Send
    PROVE  SInv'
<1> DEFINE w == drawing
           p == [rev |-> drawing.rev, says |-> drawing.says]
<1>1. /\ w # None /\ w.left = {} /\ w \in Drawing /\ drawing' = None
      /\ wire' = Append(wire, p) /\ wire \in Seq(Parcel)
      /\ UNCHANGED <<db, task, revision, view, crossed>>
      /\ DrawnAs(w, revision, db, task, crossed) /\ revision \in Nat
  BY DEF Send, IInv, SInv, Typed
<1>2. PICK e \in Browser : Comes(view, wire, e) /\ UpToDate(e, revision, db, task, crossed)
  BY DEF SInv
<1>3. w.says \in Drawn /\ w.rev \in Nat /\ w.says.type = "snapshot" /\ p \in Parcel
  BY <1>1 DEF Drawing, Drawn, Parcel, Message
<1> DEFINE o == Took(e, p)
<1>4. o \in Browser /\ Comes(view', wire', o)
  BY <1>1, <1>2, <1>3, TookTyped, LastComes
<1>5. o = Snapshot(e, w.rev, w.says)
  BY <1>3 DEF Took
<1>6. /\ o.seen = (IF w.rev > e.seen THEN w.rev ELSE e.seen) /\ o.rev = w.rev
      /\ o.owed = (w.rev < o.seen) /\ SameRoom(o, w.says)
  BY <1>3, <1>5, SnapshotShows
<1> HIDE DEF w, o, p
<1>7. o.seen = revision /\ w.rev <= revision
  BY <1>1, <1>2, <1>3, <1>6 DEF UpToDate, DrawnAs
<1>8. ~o.owed => /\ o.rev = revision
                 /\ LiveAs(o.live, db, task) /\ PlayAs(o.play, db, task)
                 /\ QueueAs(o.queue, db, task, crossed) /\ NotesAs(o.notes, db, task, crossed)
  <2>1. ~o.owed => w.rev = revision
    <3>1. w.rev = revision \/ w.rev < revision
      BY <1>1, <1>3, <1>7
    <3> QED  BY <1>6, <1>7, <3>1
  <2>2. w.rev = revision => /\ LiveAs(w.says.live, db, task) /\ PlayAs(w.says.play, db, task)
                            /\ QueueAs(w.says.queue, db, task, crossed)
                            /\ NotesAs(w.says.notes, db, task, crossed)
    BY <1>1 DEF DrawnAs
  <2> QED  BY <1>6, <2>1, <2>2 DEF SameRoom
<1>9. UpToDate(o, revision', db', task', crossed')
  BY <1>1, <1>7, <1>8 DEF UpToDate
<1>10. DrawnAs(drawing', revision', db', task', crossed')
  BY <1>1 DEF DrawnAs
<1> QED  BY <1>1, <1>4, <1>9, <1>10 DEF SInv, ByHand

LEMMA NextShows ==
    ASSUME IInv, SInv, [Next]_vars
    PROVE  SInv'
<1>1. ASSUME NEW t \in Task, (\E h \in Hand : Opens(t, h)) \/ StartsLive(t) \/ Asks(t)
      PROVE  SInv'
  BY <1>1, CommandStays
<1>2. ASSUME NEW t \in Task, Check(t) \/ Write(t) \/ Publish(t)  PROVE SInv'
  BY <1>2, CheckStays, WriteStays, PublishTold, UntoldStays
<1>3. CASE Receive \/ \E s \in AnyStep : OwnWentTo(s)
  BY <1>3, TakingStays
<1>4. CASE \/ Draw \/ Send
           \/ \E table \in {"state", "playback", "queue", "notes", "yours"} : Read(table)
  BY <1>4, DrawStays, ReadStays, SendStays
<1>5. CASE UNCHANGED vars
  <2>1. UNCHANGED <<db, task, revision, wire, drawing, view, crossed>>
    BY <1>5 DEF vars
  <2>2. Keeps(db, task, crossed, db', task', crossed')
    BY <2>1, NoneTold
  <2>3. LooksLike(view, view')
    BY <2>1, SameLooks
  <2>4. (\A t \in Task : Stands(task'[t], db', crossed')) /\ ByHand(task', crossed')
    BY <2>1 DEF SInv
  <2> QED  BY <2>1, <2>2, <2>3, <2>4, ServerStays
<1> QED  BY <1>1, <1>2, <1>3, <1>4, <1>5 DEF Next

LEMMA InitShows == Init => SInv
<1> SUFFICES ASSUME Init  PROVE SInv
  OBVIOUS
<1>1. view \in Browser
  BY InitInv DEF IInv, Typed
<1>2. /\ wire = <<>> /\ drawing = None /\ revision = 0 /\ \A t \in Task : task[t] = Nothing
      /\ view.live = db.live /\ view.play = db.play /\ view.queue = db.queue
      /\ view.rev = 0 /\ view.seen = 0
      /\ \A n \in Note : view.notes[n] = None /\ db.note[n] = None
  BY DEF Init
<1>3. Comes(view, wire, view)
  BY <1>1, <1>2, NothingComes
<1>4. UpToDate(view, revision, db, task, crossed)
  <2>1. \A n \in Note : Saying(db, n) = None
    BY <1>2 DEF Saying, Standing
  <2> QED  BY <1>2, <2>1 DEF UpToDate, LiveAs, PlayAs, QueueAs, HandAs, NotesAs, NoteAs
<1>5. DrawnAs(drawing, revision, db, task, crossed)
  BY <1>2 DEF DrawnAs
<1>6. (\A t \in Task : Stands(task[t], db, crossed)) /\ ByHand(task, crossed)
  BY <1>2, NothingStands DEF ByHand
<1> QED  BY <1>1, <1>3, <1>4, <1>5, <1>6 DEF SInv

LEMMA InvShows == IInv /\ SInv => ShowsTheRoom
<1> SUFFICES ASSUME IInv, SInv, Quiet
             PROVE  /\ view.live = db.live /\ view.play = db.play
                    /\ \A h \in Hand \ crossed : h \in view.queue <=> h \in db.queue
                    /\ \A n \in Note : About[n] \in db.queue \ crossed =>
                          view.notes[n] = NotesOn(db, db.queue)[n]
  BY DEF ShowsTheRoom
<1>1. PICK e \in Browser : Comes(view, wire, e) /\ UpToDate(e, revision, db, task, crossed)
  BY DEF SInv
<1>2. view \in Browser /\ db \in Room
  BY DEF IInv, Typed
<1>3. LooksLike(view, e) /\ ~e.owed
  BY <1>1, <1>2, NothingComes DEF Quiet, LooksLike
<1>4. \A t \in Task : task[t].at # "written"
  BY NothingStands DEF Quiet
<1>5. /\ LiveAs(e.live, db, task) /\ PlayAs(e.play, db, task)
      /\ QueueAs(e.queue, db, task, crossed) /\ NotesAs(e.notes, db, task, crossed)
  BY <1>1, <1>3 DEF UpToDate
<1>6. e.live = db.live /\ e.play = db.play
  BY <1>4, <1>5 DEF LiveAs, PlayAs
<1>7. \A h \in Hand \ crossed : h \in e.queue <=> h \in db.queue
  BY <1>4, <1>5 DEF QueueAs, HandAs, Requeues
<1>8. \A n \in Note : About[n] \in db.queue \ crossed => e.notes[n] = NotesOn(db, db.queue)[n]
  BY <1>4, <1>5 DEF NotesAs, NoteAs, Restores, Rewrites, Saying, NotesOn
<1> QED  BY <1>3, <1>6, <1>7, <1>8 DEF LooksLike, SameRoom

(* Once everything written has been told, the browser shows the Room as it *)
(* is, whatever snapshots were drawn while it changed (reduceRoom in       *)
(* roomClient.ts; notes.service.ts, playback.service.ts), for any number   *)
(* of Hands, Notes and commands: Live and its Playback always, and the     *)
(* Queue and the Notes on each Hand but those where commands crossed.      *)
THEOREM RoomIsShown == Spec => []ShowsTheRoom
<1>1. Init => IInv /\ SInv
  BY InitInv, InitShows
<1>2. IInv /\ SInv /\ [Next]_vars => IInv' /\ SInv'
  BY StepInv, NextShows
<1>3. IInv /\ SInv => ShowsTheRoom
  BY InvShows
<1> QED  BY <1>1, <1>2, <1>3, PTL DEF Spec
=============================================================================
