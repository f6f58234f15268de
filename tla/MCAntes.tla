------------------------------ MODULE MCAntes ------------------------------
(* A table with antes, as CoinPoker's are from NL25 up: three players, the *)
(* second of them short.                                                   *)
EXTENDS HandHistory

Post(p, kind, n) == [who |-> p, kind |-> kind, amount |-> n]
AnteGame ==
    [stacks |-> <<16, 6, 16>>, button |-> 1, first |-> 1, splash |-> 0, rake |-> 1,
     posts |-> <<Post(1, "ante", 1), Post(2, "ante", 1), Post(3, "ante", 1), Post(2, "small-blind", 1), Post(3, "big-blind", 2)>>]
AnteGames == {AnteGame}

FirstName(p) == <<"a", "b", "c", "d", "e", "f", "g", "h", "i">>[p]
OwnNames == [p \in 1 .. MaxSeats |-> <<FirstName(p)>>]

Spec == TableInit /\ [][TableNext]_tableVars
=============================================================================
