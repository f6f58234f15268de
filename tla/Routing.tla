------------------------------- MODULE Routing -------------------------------
(***************************************************************************)
(* The browser's history, as routing.ts uses it: the entries gone through, *)
(* the one shown and the ones a Back left ahead. An entry is whatever an   *)
(* address and its state hold.                                             *)
(***************************************************************************)
EXTENDS Absent, Integers, Sequences, SequencesExt

CONSTANT Away \* the history entry of any other page

OpenedAt(entry) == [past |-> <<>>, now |-> entry, ahead |-> <<>>]

\* A new entry after this one; what was ahead is gone.
Navigate(history, entry) ==
    [past |-> Append(history.past, history.now), now |-> entry, ahead |-> <<>>]

\* The entry shown is replaced: going back skips it.
Redirect(history, entry) == [history EXCEPT !.now = entry]

CanGoBack(history) == history.past # <<>>
GoBack(history) ==
    [past |-> Front(history.past), now |-> Last(history.past),
     ahead |-> <<history.now>> \o history.ahead]

\* A Back that unsaved work holds up: the browser has gone by then, so the
\* address shown is put back after the one reached, with nothing in its state.
HeldBack(history, bare) ==
    [past |-> history.past, now |-> bare, ahead |-> <<>>]
=============================================================================
