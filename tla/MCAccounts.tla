----------------------------- MODULE MCAccounts ----------------------------
(* The server, with a founder, an Invitation already sent and a few        *)
(* requests at once; or, apart, one browser of a person who signs in.      *)
EXTENDS Accounts, Session, TLC

CONSTANTS r1, r2, r3, r4, ana, mail, post, side, g1

OneThenTwo == <<1, 2>>

Alike == Permutations(Request)

NoBrowser ==
    /\ signIns = None /\ themes = None /\ store = None /\ shownAs = None
    /\ inFlight = None /\ changes = None /\ ghost = None

AllInit == Init /\ (NoBrowser \/ SessionInit)
AllNext ==
    \/ shownAs = None /\ Next /\ UNCHANGED sessionVars
    \/ shownAs # None /\ SessionNext /\ UNCHANGED vars

AllSpec == AllInit /\ [][AllNext]_<<vars, sessionVars>>
=============================================================================
