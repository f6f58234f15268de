------------------------------ MODULE MCRooms ------------------------------
(* A browser following a Room; or, apart, two Rooms and a Library with two *)
(* Hands. What takes no part stays as it was at first.                     *)
EXTENDS MCRoomSync, RoomHands

CONSTANTS ana, aces, kings, red, blue, t1, t2, t3

Alike == Permutations(Slot) \cup Permutations(Hand)

RoomsInit == Init /\ HandsInit
RoomsNext ==
    \/ commands = 0 /\ Next /\ UNCHANGED handsVars
    \/ Init /\ HandsNext /\ UNCHANGED vars

RoomsSpec == RoomsInit /\ [][RoomsNext]_<<vars, handsVars>>
=============================================================================
