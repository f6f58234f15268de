------------------------------ MODULE MCQueue ------------------------------
(* Small Queues for TLC: Hands a to e, and two Participants who are alike, *)
(* as the Queue asks of nobody whether they are the Master; or, apart, the *)
(* dialog that imports into one; or what an Administrator does from the    *)
(* panel. What takes no part is left at None, the Queue as it was at first. *)
EXTENDS Queue, ImportDialog, Administration

CONSTANTS a, b, c, d, e, Ana, Luis

Two     == <<a, b>>
Three   == <<a, b, c>>

Oldest == <<1>>

Alike == Permutations({Ana, Luis})

Of(hand, hero) == [hand |-> hand, hero |-> hero]

\* A text with a Hero who is nobody's and one another Participant goes by; one only read once a format is
\* picked, its first Hand in the other text too, the second of a Hero unnamed; one over the limit.
Readings ==
    [x \in {"played", "odd", "huge"} \X {"f1", "f2", None} |->
        IF x[1] = "played" THEN [format |-> "f1", hands |-> <<Of(1, "x"), Of(2, "y"), Of(3, "z")>>, discarded |-> 0]
        ELSE IF x[2] = "f2" THEN [format |-> "f2", hands |-> <<Of(1, "x"), Of(4, None)>>, discarded |-> 1]
        ELSE [format |-> None, hands |-> <<>>, discarded |-> 1]]

\* Of the accounts u1 to u4, u3 is suspended and u4's Invitation is pending. One Room of three is Live.
MailOf == [m \in {"luis", "eva", "iker"} |-> IF m = "luis" THEN "u3" ELSE IF m = "eva" THEN "u4" ELSE "iker"]
ByColumn == [s \in {"email", "lastActiveAt"} |-> IF s = "email" THEN <<"u2", "u1", "u4", "u3">> ELSE <<"u3", "u2", "u4", "u1">>]
Found == [s \in {"", "a"} |-> IF s = "" THEN {"u1", "u2", "u3", "u4"} ELSE {"u2", "u4"}]
Rooms == <<"r1", "r2", "r3">>
Site == [accounts |-> {"u1", "u2", "u3"}, suspended |-> {"u3"}, open |-> {"r1", "r2", "r3"}, live |-> {"r2"},
         invitations |-> <<[id |-> 1, email |-> "eva", status |-> "pending"]>>]

NoImport == dialog = None /\ items = None /\ claims = None /\ sent = None /\ server = None /\ page = None /\ imports = None
NoPanel == site = None /\ panel = None /\ asking = None /\ beyond = None

AllInit ==
    /\ Init
    /\ \/ NoImport /\ NoPanel
       \/ ImportInit /\ NoPanel
       \/ NoImport /\ PanelInit
AllNext ==
    \/ dialog = None /\ panel = None /\ Next /\ UNCHANGED <<importVars, adminVars>>
    \/ dialog # None /\ ImportNext /\ UNCHANGED <<vars, adminVars>>
    \/ panel # None /\ PanelNext /\ UNCHANGED <<vars, importVars>>
AllSpec == AllInit /\ [][AllNext]_<<vars, importVars, adminVars>>

\* The Queue alone.
QueueInit == Init /\ NoImport /\ NoPanel
QueueNext == Next /\ UNCHANGED <<importVars, adminVars>>
QueueSpec == QueueInit /\ [][QueueNext]_<<vars, importVars, adminVars>>
=============================================================================
