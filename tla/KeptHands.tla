----------------------------- MODULE KeptHands ------------------------------
(***************************************************************************)
(* What Runout promises about the Hands it stores (CONTEXT.md, Library and *)
(* Room Hand): a Hand in someone's Library or in an open Room's Queue is   *)
(* kept.  Only a Room's closing discards Hands, and only those of its own  *)
(* Queue nobody else keeps.  RoomHands does this with transactions.        *)
(***************************************************************************)
CONSTANTS Hand, Room, Person

VARIABLES
    stored,   \* the Hands there are
    library,  \* <<p, h>>: Person p has Hand h in their Library
    queue,    \* <<r, h>>: Room r's Queue refers to Hand h
    open      \* the Rooms that have not closed

kept == <<stored, library, queue, open>>

Elsewhere(r, h) == \/ \E p \in Person : <<p, h>> \in library
                   \/ \E other \in open \ {r} : <<other, h>> \in queue

Init == stored = {} /\ library = {} /\ queue = {} /\ open = Room

Enqueue(r, h) ==
    /\ stored' = stored \cup {h} /\ queue' = queue \cup {<<r, h>>}
    /\ UNCHANGED <<library, open>>

Collect(p, h) ==
    /\ stored' = stored \cup {h} /\ library' = library \cup {<<p, h>>}
    /\ UNCHANGED <<queue, open>>

GiveUp(p, h) ==
    /\ library' = library \ {<<p, h>>}
    /\ UNCHANGED <<stored, queue, open>>

Close(r) ==
    \E gone \in SUBSET {h \in stored : <<r, h>> \in queue /\ ~Elsewhere(r, h)} :
       /\ r \in open /\ open' = open \ {r}
       /\ stored' = stored \ gone
       /\ queue' = queue \ (Room \X gone)
       /\ UNCHANGED library

Next ==
    \/ \E r \in Room : Close(r) \/ \E h \in Hand : Enqueue(r, h)
    \/ \E p \in Person, h \in Hand : Collect(p, h) \/ GiveUp(p, h)

Spec == Init /\ [][Next]_kept
=============================================================================
