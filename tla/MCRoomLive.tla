----------------------------- MODULE MCRoomLive -----------------------------
(* Small Rooms for TLC: a Master, Marta, and Guests, Gus and Hugo.         *)
EXTENDS RoomLive

CONSTANTS Marta, Gus, Hugo

MasterAndGuest == <<Marta, Gus>>
=============================================================================
