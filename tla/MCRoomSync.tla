----------------------------- MODULE MCRoomSync -----------------------------
(* A browser a that has been in the Room before and a newcomer n.          *)
EXTENDS RoomSync, TLC

CONSTANTS a, n, k1, k2

\* The server stays up: revisions would begin again at 0.
SteadyNext == Next /\ UNCHANGED restarts
SteadySpec == Init /\ [][SteadyNext]_vars /\ Fairness
=============================================================================
