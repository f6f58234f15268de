----------------------------- MODULE RoomHands ------------------------------
(***************************************************************************)
(* Hands shared by Rooms and Libraries, and the closing of a Room that     *)
(* discards those nobody else keeps.                                       *)
(*                                                                         *)
(* Each command is a transaction of Postgres at READ COMMITTED: a          *)
(* statement sees what is committed as it starts, and what the transaction *)
(* itself wrote.  Rows are locked: the Room's by whoever appends to its    *)
(* Queue or closes it, a Hand's by a closing (FOR UPDATE) and, shared, by  *)
(* whatever has just referred to it.  A step is one statement, or several  *)
(* that no other transaction can tell apart.                               *)
(*                                                                         *)
(* One Hand to an import.  Entries removed from a Queue still refer to     *)
(* their Hand, so removals make no difference here.                        *)
(***************************************************************************)
EXTENDS Naturals

CONSTANTS
    Hand, Room, Person,
    Tx,          \* the connections commands run on
    MaxCommands  \* commands altogether: a bound

ASSUME BoundAssumption == MaxCommands \in Nat

VARIABLES
    stored, library, queue, open,  \* what is committed, as in KeptHands
    version,   \* how many times each Hand has been stored, its row's identity
    tx,        \* what each connection is doing
    lost,      \* history: Hands nobody keeps, through no closing's doing
    commands   \* commands so far

tables   == <<stored, library, queue, open, version, lost>>
handsVars == <<stored, library, queue, open, version, tx, lost, commands>>

Keeping == INSTANCE KeptHands WITH
               stored <- stored, library <- library, queue <- queue, open <- open

-----------------------------------------------------------------------------
(* A transaction: its command, how far it is, the Room, Person and Hand it *)
(* is about, the row it found (0 for none), and the Hands a closing has    *)
(* locked and is to discard.                                               *)
Free == [kind |-> "idle", stage |-> "idle"]

Appending(k, r, p, h, row) ==
    [kind |-> k, stage |-> "begun", room |-> r, who |-> p, hand |-> h, row |-> row]

Collecting(p, h) == [kind |-> "collect", stage |-> "planning", who |-> p, hand |-> h, row |-> 0]

Closing(r) == [kind |-> "close", stage |-> "marked", room |-> r, held |-> {}, gone |-> {}]

Into(t)  == tx[t].kind \in {"import", "share"}
At(t, s) == tx[t].stage = s

Closes(t)    == tx[t].kind = "close"
Refers(t, h) == At(t, "referred") /\ tx[t].hand = h

HoldsRoom(t, r) == ((Into(t) /\ ~At(t, "begun")) \/ Closes(t)) /\ tx[t].room = r

(* Rows others wait for.                                                   *)
RoomLocked(r) == \E t \in Tx : HoldsRoom(t, r)
HandLocked(h) == \E t \in Tx : Closes(t) /\ h \in tx[t].held
HandShared(h) == \E t \in Tx : Refers(t, h) /\ tx[t].row # 0
HandComing(h) == \E t \in Tx : Refers(t, h) /\ tx[t].row = 0

Row(h)     == IF h \in stored THEN version[h] ELSE 0
Queued(r)  == {h \in Hand : <<r, h>> \in queue}
Elsewhere(r, h) == \/ \E p \in Person : <<p, h>> \in library
                   \/ \E other \in open \ {r} : <<other, h>> \in queue

(* Somebody keeps the Hand, of a Library l and a Queue q.                  *)
KeptBy(l, q, h) == \/ \E p \in Person : <<p, h>> \in l
                   \/ \E r \in open : <<r, h>> \in q
Kept(h)         == KeptBy(library, queue, h)

Goes(t, s)  == tx' = [tx EXCEPT ![t].stage = s]
Ends(t)     == tx' = [tx EXCEPT ![t] = Free]
Begins(t, command) ==
    /\ tx[t] = Free /\ commands < MaxCommands
    /\ tx' = [tx EXCEPT ![t] = command]
    /\ commands' = commands + 1
    /\ UNCHANGED tables

-----------------------------------------------------------------------------
HandsInit ==
    /\ stored = {} /\ library = {} /\ queue = {} /\ open = Room
    /\ version = [h \in Hand |-> 0]
    /\ tx = [t \in Tx |-> Free]
    /\ lost = {} /\ commands = 0

(* Pasting, or confirming an import, into an open Room.                    *)
Import(t, r, p, h) == r \in open /\ Begins(t, Appending("import", r, p, h, 0))

(* A Hand of someone's own Library goes into a Room.                       *)
AddFromLibrary(t, r, p, h) ==
    /\ r \in open /\ <<p, h>> \in library
    /\ Begins(t, Appending("share", r, p, h, version[h]))

(* Confirming an import into a Library.                                    *)
ImportIntoLibrary(t, p, h) == Begins(t, Collecting(p, h))

(* The Room's row is locked, whether or not it has closed meanwhile.       *)
LockRoom(t) ==
    /\ Into(t) /\ At(t, "begun") /\ ~RoomLocked(tx[t].room)
    /\ Goes(t, "planning") /\ UNCHANGED <<tables, commands>>

(* A Hand already in the Queue or the Library is a duplicate; of the       *)
(* others, those stored already are found.                                 *)
Plan(t) ==
    /\ At(t, "planning")
    /\ LET h == tx[t].hand
           duplicate == IF tx[t].kind = "collect" THEN <<tx[t].who, h>> \in library
                        ELSE <<tx[t].room, h>> \in queue
       IN \/ duplicate /\ Ends(t)
          \/ /\ ~duplicate
             /\ tx' = [tx EXCEPT ![t].stage = "storing",
                                 ![t].row = IF tx[t].kind = "share" THEN @ ELSE Row(h)]
    /\ UNCHANGED <<tables, commands>>

(* The Hand is stored, unless someone else just did, and an Entry refers   *)
(* to it: that waits for whoever has locked it or is storing it, and fails *)
(* if the row found is gone.                                               *)
Refer(t) ==
    /\ At(t, "storing")
    /\ LET h == tx[t].hand
       IN /\ ~HandLocked(h) /\ ~HandComing(h)
          /\ \/ tx[t].row \notin {0, Row(h)} /\ Ends(t)
             \/ /\ tx[t].row \in {0, Row(h)}
                /\ tx' = [tx EXCEPT ![t].stage = "referred", ![t].row = Row(h)]
    /\ UNCHANGED <<tables, commands>>

CommitTx(t) ==
    /\ At(t, "referred")
    /\ LET h == tx[t].hand
       IN /\ stored' = stored \cup {h}
          /\ version' = IF tx[t].row = 0 THEN [version EXCEPT ![h] = @ + 1] ELSE version
          /\ IF tx[t].kind = "collect"
             THEN library' = library \cup {<<tx[t].who, h>>} /\ UNCHANGED queue
             ELSE queue' = queue \cup {<<tx[t].room, h>>} /\ UNCHANGED library
          /\ lost' = IF KeptBy(library', queue', h) THEN lost \ {h} ELSE lost \cup {h}
    /\ Ends(t) /\ UNCHANGED <<open, commands>>

(* A transaction may fail at any statement, or with its connection.        *)
Rollback(t) == tx[t] # Free /\ Ends(t) /\ UNCHANGED <<tables, commands>>

(* A closing has seen it kept, and will leave it.                          *)
CountedOn(h) == \E t \in Tx :
    Closes(t) /\ At(t, "looked") /\ h \in Queued(tx[t].room) \ tx[t].gone

RemoveFromLibrary(p, h) ==
    /\ <<p, h>> \in library /\ commands < MaxCommands
    /\ library' = library \ {<<p, h>>}
    /\ lost' = IF KeptBy(library', queue, h) /\ ~CountedOn(h) THEN lost ELSE lost \cup {h}
    /\ commands' = commands + 1
    /\ UNCHANGED <<stored, queue, open, version, tx>>

-----------------------------------------------------------------------------
(* A Room closes: by its Master, an Administrator or the sweep.            *)
CloseRoom(t, r) == r \in open /\ ~RoomLocked(r) /\ Begins(t, Closing(r))

(* Its Hands are locked, after whoever has just referred to one commits.   *)
LockHands(t) ==
    /\ Closes(t) /\ At(t, "marked")
    /\ LET held == Queued(tx[t].room)
       IN /\ \A h \in held : ~HandShared(h) /\ ~HandLocked(h)
          /\ tx' = [tx EXCEPT ![t].stage = "locked", ![t].held = held]
    /\ UNCHANGED <<tables, commands>>

(* Mutant: any other Room that has the Hand keeps it, closed or not.       *)
Look_AnyRoom(t) ==
    /\ Closes(t) /\ At(t, "locked")
    /\ tx' = [tx EXCEPT ![t].stage = "looked",
                        ![t].gone = {h \in Queued(tx[t].room) :
                            /\ ~ \E p \in Person : <<p, h>> \in library
                            /\ ~ \E r \in Room \ {tx[t].room} : <<r, h>> \in queue}]
    /\ UNCHANGED <<tables, commands>>

(* Those in no Library and in no other open Room's Queue are to go.        *)
Look(t) ==
    /\ Closes(t) /\ At(t, "locked")
    /\ tx' = [tx EXCEPT ![t].stage = "looked",
                        ![t].gone = {h \in Queued(tx[t].room) : ~Elsewhere(tx[t].room, h)}]
    /\ UNCHANGED <<tables, commands>>

(* Mutant: the others' Entries for them stay behind.                       *)
Discard_OwnEntries(t) ==
    /\ Closes(t) /\ At(t, "looked")
    /\ open' = open \ {tx[t].room}
    /\ queue' = queue \ ({tx[t].room} \X tx[t].gone)
    /\ stored' = stored \ tx[t].gone
    /\ lost' = lost \ tx[t].gone
    /\ Ends(t) /\ UNCHANGED <<library, version, commands>>

(* They go, with every Entry for them, and the Room has closed.  A Library *)
(* that has one would make the whole closing fail.                         *)
Discard(t) ==
    /\ Closes(t) /\ At(t, "looked")
    /\ \A h \in tx[t].gone : ~HandShared(h)
    /\ IF \E h \in tx[t].gone, p \in Person : <<p, h>> \in library
       THEN UNCHANGED tables
       ELSE /\ open' = open \ {tx[t].room}
            /\ queue' = queue \ (Room \X tx[t].gone)
            /\ stored' = stored \ tx[t].gone
            /\ lost' = lost \ tx[t].gone
            /\ UNCHANGED <<library, version>>
    /\ Ends(t) /\ UNCHANGED commands

-----------------------------------------------------------------------------
HandsNext ==
    \/ \E t \in Tx :
         \/ LockRoom(t) \/ Plan(t) \/ Refer(t) \/ CommitTx(t) \/ Rollback(t)
         \/ LockHands(t) \/ Look(t) \/ Discard(t)
         \/ \E r \in Room : CloseRoom(t, r)
         \/ \E p \in Person, h \in Hand :
              \/ ImportIntoLibrary(t, p, h)
              \/ \E r \in Room : Import(t, r, p, h) \/ AddFromLibrary(t, r, p, h)
    \/ \E p \in Person, h \in Hand : RemoveFromLibrary(p, h)

HandsSpec == HandsInit /\ [][HandsNext]_handsVars

-----------------------------------------------------------------------------
Appendings ==
    [kind : {"import", "share"}, stage : {"begun", "planning", "storing", "referred"},
     room : Room, who : Person, hand : Hand, row : Nat]
Collectings ==
    [kind : {"collect"}, stage : {"planning", "storing", "referred"},
     who : Person, hand : Hand, row : Nat]
Closings ==
    [kind : {"close"}, stage : {"marked", "locked", "looked"},
     room : Room, held : SUBSET Hand, gone : SUBSET Hand]
Command == {Free} \cup Appendings \cup Collectings \cup Closings

HandsTyped ==
    /\ stored \subseteq Hand /\ lost \subseteq Hand
    /\ library \subseteq Person \X Hand /\ queue \subseteq Room \X Hand
    /\ open \subseteq Room
    /\ version \in [Hand -> Nat]
    /\ tx \in [Tx -> Command]
    /\ commands \in Nat

(* What a closing is about to discard nobody else keeps: an import that    *)
(* already has a Hand lands before the closing looks, and one that comes   *)
(* later fails (rooms.service.ts discardRoomHands).                        *)
DiscardsNothingKept ==
    \A t \in Tx : Closes(t) =>
        \A h \in tx[t].gone : ~Elsewhere(tx[t].room, h)

(* A Room Hand of several Rooms goes with the last of them to close        *)
(* (Functionality.md H1.9), even if they close at once: nothing stored is  *)
(* left that nobody keeps, Hands apart that were taken out of a Library as *)
(* or after their Room closed, or imported into a Room that had closed     *)
(* meanwhile, which the code leaves behind.                                *)
NothingLeftOver == \A h \in stored : Kept(h) \/ h \in lost

(* The same of every Hand a Room has queued, as Functionality.md H1.9 has  *)
(* it: it is discarded, unless another open Room's Queue still holds it.   *)
RoomHandsGo == \A h \in stored : (\E r \in Room : <<r, h>> \in queue) => Kept(h)

(* The transactions do what KeptHands promises: nothing anybody keeps is   *)
(* ever discarded.                                                         *)
KeepsHands == Keeping!Spec
=============================================================================
