------------------------------- MODULE Queue -------------------------------
(***************************************************************************)
(* A Room's Queue: the Hands it is going to review, in order.              *)
(*                                                                         *)
(* The Queue is a table of Entries (queue.service.ts).  Its commands run   *)
(* in transactions that lock the Room's row, all but a removal's two       *)
(* statements and a change of Author.  Once committed, each is published   *)
(* to the Room on its own: nothing keeps two of them in the order they     *)
(* committed.  A browser keeps a Queue of its own, from a snapshot and the *)
(* changes that came after it (roomClient.ts applied).                     *)
(*                                                                         *)
(* One Room, and one browser following it without a hole: RoomSync is      *)
(* about that.  The commands may come from any tab of the Master's, so     *)
(* they are not tied to what this browser shows.  An Entry is a row's      *)
(* number; a Hand is a name; time is counted in ticks.                     *)
(*                                                                         *)
(* Two variables only remember, for the properties: no action reads them.  *)
(***************************************************************************)
EXTENDS Integers, Sequences, FiniteSets

CONSTANTS
    Hand, Person,
    Already,     \* the Hands queued at first, each by an import of its own
    Commands,    \* what may happen
    Window,      \* UNDO_WINDOW_MS in ticks
    MaxBatch,    \* Hands read by one import: a bound
    MaxUndos,    \* removals taken back: a bound
    MaxChanges   \* commands altogether: a bound

Kinds == {"preview", "add", "reorder", "remove", "undo", "author", "open", "snapshot"}

ASSUME AlreadyAssumption  ==
    /\ Already \in Seq(Hand)
    /\ \A i, j \in DOMAIN Already : Already[i] = Already[j] => i = j
ASSUME CommandsAssumption == Commands \subseteq Kinds
ASSUME BoundsAssumption   ==
    /\ Window \in Nat /\ MaxBatch \in Nat /\ MaxUndos \in Nat /\ MaxChanges \in Nat

VARIABLES
    rows,      \* the Entries ever added, in the order they were
    landing,   \* the Entry each Person comes back to, 0 when there is none
    previews,  \* the imports read and not confirmed yet
    opening,   \* who is half-way through opening which Entry
    unsent,    \* the changes committed and not published, as they committed
    view,      \* the Queue the browser shows
    undos,     \* removals taken back so far
    changes,   \* commands so far
    astray,    \* how the browser's order may have gone wrong since it was last given it
    overtaken  \* who was half-way through opening which Entry as it was removed

vars == <<rows, landing, previews, opening, unsent, view, undos, changes, astray, overtaken>>

-----------------------------------------------------------------------------
Never == -1   \* not removed

(* `added` orders the imports, `removed` is how long ago it was removed.   *)
Row == [hand : Hand, author : Person, position : Nat \ {0}, added : Nat,
        removed : Never .. Window + 1]

Shown == [id : Nat \ {0}, hand : Hand, author : Person, position : Nat]

Ids       == DOMAIN rows
Active    == {i \in Ids : rows[i].removed = Never}
Queued(h) == \E i \in Active : rows[i].hand = h

(* What a browser is told of an Entry.                                     *)
Entry(r, i) == [id |-> i, hand |-> r[i].hand, author |-> r[i].author,
                position |-> r[i].position]

(* The orders a set can be put in, and the place each member gets.         *)
Orders(S) == {s \in [1 .. Cardinality(S) -> S] :
                 \A i \in S : \E k \in DOMAIN s : s[k] = i}
Place(order, i) == CHOOSE k \in DOMAIN order : order[k] = i

Renumber(r, order) ==
    [i \in DOMAIN r |-> IF \E k \in DOMAIN order : order[k] = i
                        THEN [r[i] EXCEPT !.position = Place(order, i)] ELSE r[i]]

-----------------------------------------------------------------------------
(* The browser's Queue.                                                    *)

Has(v, i)     == \E k \in DOMAIN v : v[k].id = i
Without(v, i) == SelectSeq(v, LAMBDA e : e.id # i)

(* By position; of two at one position, the first stays first.             *)
Sorted(v) ==
    LET Ahead(k) == {l \in DOMAIN v : \/ v[l].position < v[k].position
                                      \/ /\ v[l].position = v[k].position
                                         /\ l < k}
    IN [n \in DOMAIN v |-> v[CHOOSE k \in DOMAIN v : Cardinality(Ahead(k)) = n - 1]]

Reordered(v, order) ==
    LET kept == SelectSeq(order, LAMBDA i : Has(v, i))
    IN [n \in DOMAIN kept |->
          [v[CHOOSE k \in DOMAIN v : v[k].id = kept[n]] EXCEPT !.position = n]]

(* Bug: an Entry taken back goes to the end.                               *)
Restored_AtTheEnd(v, entry) == Append(Without(v, entry.id), entry)
Restored(v, entry) == Sorted(Append(Without(v, entry.id), entry))

Apply(v, m) ==
    CASE m.type = "added"     -> v \o SelectSeq(m.entries, LAMBDA e : ~Has(v, e.id))
      [] m.type = "author"    -> [k \in DOMAIN v |-> IF v[k].hand = m.hand
                                     THEN [v[k] EXCEPT !.author = m.author] ELSE v[k]]
      [] m.type = "reordered" -> Reordered(v, m.order)
      [] m.type = "removed"   -> Without(v, m.id)
      [] m.type = "restored"  -> Restored(v, m.entry)

(* The Queue as the database has it (entries): the active Entries by their *)
(* positions, whichever comes first of two that share one.                 *)
Snapshots(r) ==
    LET active == {i \in DOMAIN r : r[i].removed = Never}
    IN {[n \in DOMAIN order |-> Entry(r, order[n])] : order \in
           {o \in Orders(active) :
               \A k, l \in DOMAIN o : k < l => r[o[k]].position <= r[o[l]].position}}

-----------------------------------------------------------------------------
Init ==
    /\ \E p \in Person :
         rows = [i \in DOMAIN Already |->
                   [hand |-> Already[i], author |-> p, position |-> i, added |-> i,
                    removed |-> Never]]
    /\ landing = [p \in Person |-> 0]
    /\ previews = {} /\ opening = {} /\ unsent = <<>>
    /\ view \in Snapshots(rows)
    /\ undos = 0 /\ changes = 0
    /\ astray = {} /\ overtaken = {}

Command(kind) ==
    /\ kind \in Commands /\ changes < MaxChanges
    /\ changes' = changes + 1

Publishes(m) == unsent' = Append(unsent, m)

(* The Hands one import may read.                                          *)
Batches == UNION {[1 .. n -> Hand] : n \in 1 .. MaxBatch}

(* Of the Hands read, those that are not in the Queue, each once, as they  *)
(* were read: the only member of this set (planImport).                    *)
Planned(read) ==
    LET new == {k \in DOMAIN read : /\ ~Queued(read[k])
                                    /\ \A l \in DOMAIN read : l < k => read[l] # read[k]}
        inOrder == {s \in Orders(new) : \A k, l \in DOMAIN s : k < l => s[k] < s[l]}
    IN {[k \in DOMAIN s |-> read[s[k]]] : s \in inOrder}

(* The last position there ever was, removed Entries included.             *)
IsLast(last) ==
    /\ last = 0 \/ \E i \in Ids : rows[i].position = last
    /\ \A i \in Ids : rows[i].position <= last

(* Entries for these Hands after the last one (insertEntries).             *)
Insert(hands, author) ==
    /\ hands # <<>>
    /\ \E last \in {0} \cup {rows[i].position : i \in Ids} :
         LET n     == Len(rows)
             grown == [i \in 1 .. n + Len(hands) |->
                         IF i <= n THEN rows[i]
                         ELSE [hand |-> hands[i - n], author |-> author,
                               position |-> last + (i - n), added |-> n + 1,
                               removed |-> Never]]
         IN /\ IsLast(last)
            /\ rows' = grown
            /\ Publishes([type |-> "added",
                          entries |-> [k \in 1 .. Len(hands) |-> Entry(grown, n + k)]])
    /\ UNCHANGED <<landing, opening, view, undos, astray, overtaken>>

(* Pasted text, or Hands of someone's Library.                             *)
Add(read, author) ==
    /\ Command("add")
    /\ \E hands \in Planned(read) : Insert(hands, author)
    /\ UNCHANGED previews

(* An import in two steps: what is not in the Queue is kept to be looked   *)
(* at, ...                                                                 *)
Preview(read) ==
    /\ Command("preview")
    /\ \E kept \in Planned(read) : previews' = previews \cup {kept}
    /\ UNCHANGED <<rows, landing, opening, unsent, view, undos, astray, overtaken>>

(* Mutant: what was kept is added as it was.                               *)
Confirm_AsPreviewed(kept, more, author) ==
    /\ previews' = previews \ {kept, more} /\ UNCHANGED changes
    /\ Insert(kept \o more, author)

(* ... then one or two imports are confirmed, or what of them nobody has   *)
(* queued since.                                                           *)
Confirm(kept, more, author) ==
    /\ previews' = previews \ {kept, more} /\ UNCHANGED changes
    /\ \E hands \in Planned(kept \o more) :
         \/ Insert(hands, author)
         \/ hands = <<>> /\ UNCHANGED <<rows, landing, opening, unsent, view, undos, astray, overtaken>>

-----------------------------------------------------------------------------
(* The Master's commands.                                                  *)
Reorder(order) ==
    /\ Command("reorder")
    /\ rows' = Renumber(rows, order)
    /\ Publishes([type |-> "reordered", order |-> order])
    /\ UNCHANGED <<landing, previews, opening, view, undos, astray, overtaken>>

(* An Entry is removed; its Hand stays.                                    *)
Remove(i) ==
    /\ Command("remove") /\ i \in Active
    /\ rows' = [rows EXCEPT ![i].removed = 0]
    /\ Publishes([type |-> "removed", id |-> i, cleared |-> FALSE])
    /\ overtaken' = overtaken \cup {o \in opening : o[2] = i}
    /\ UNCHANGED <<landing, previews, opening, view, undos, astray>>

Clearing(n) == n \in DOMAIN unsent /\ unsent[n].type = "removed" /\ ~unsent[n].cleared

(* Mutant: whoever was on the Entry stays on it.                           *)
Cleared_StayOn(n) ==
    /\ Clearing(n)
    /\ unsent' = [unsent EXCEPT ![n].cleared = TRUE]
    /\ UNCHANGED <<rows, landing, previews, opening, view, undos, changes, astray, overtaken>>

(* Then nobody comes back to it any more, wherever it is by now.           *)
Cleared(n) ==
    /\ Clearing(n)
    /\ landing' = [p \in Person |-> IF landing[p] = unsent[n].id THEN 0 ELSE landing[p]]
    /\ unsent' = [unsent EXCEPT ![n].cleared = TRUE]
    /\ UNCHANGED <<rows, previews, opening, view, undos, changes, astray, overtaken>>

Undoable(i) == undos < MaxUndos /\ i \in Ids /\ rows[i].removed \in 0 .. Window

TakesBack(i, restored) ==
    /\ Command("undo") /\ Undoable(i)
    /\ rows' = restored
    /\ Publishes([type |-> "restored", entry |-> Entry(restored, i)])
    /\ undos' = undos + 1
    /\ astray' = astray \cup {"place" : j \in {k \in Active : rows[k].position = rows[i].position}}
    /\ UNCHANGED <<landing, previews, opening, view, overtaken>>

(* Mutant: the Entry takes back the position it had.                       *)
Undo_AsItWas(i, order) == TakesBack(i, [rows EXCEPT ![i].removed = Never])

(* A removal is taken back: the Entry goes by the position it had, the     *)
(* older one first of two that now share it, and all are numbered afresh.  *)
Undo(i, order) ==
    /\ \A k, l \in DOMAIN order : k < l =>
         LET one   == rows[order[k]]
             other == rows[order[l]]
         IN \/ one.position < other.position
            \/ one.position = other.position /\ one.added <= other.added
    /\ TakesBack(i, Renumber([rows EXCEPT ![i].removed = Never], order))

ReassignAuthor(i, p) ==
    /\ Command("author") /\ i \in Active
    /\ rows' = [rows EXCEPT ![i].author = p]
    /\ Publishes([type |-> "author", hand |-> rows[i].hand, author |-> p])
    /\ UNCHANGED <<landing, previews, opening, view, undos, astray, overtaken>>

-----------------------------------------------------------------------------
(* Someone opens a Hand of the Queue in Free Review: it is looked for, ... *)
Open(p, i) ==
    /\ Command("open") /\ i \in Active
    /\ opening' = opening \cup {<<p, i>>}
    /\ UNCHANGED <<rows, landing, previews, unsent, view, undos, astray, overtaken>>

(* ... and remembered, to bring them back to it.                           *)
OpenDone(p, i) ==
    /\ <<p, i>> \in opening
    /\ opening' = opening \ {<<p, i>>}
    /\ landing' = [landing EXCEPT ![p] = i]
    /\ UNCHANGED <<rows, previews, unsent, view, undos, changes, astray, overtaken>>

(* Two changes that may be told in either order: of different Hands, not   *)
(* both additions, neither a new order.                                    *)
HandsTold(m) ==
    CASE m.type = "added"    -> {m.entries[k].hand : k \in DOMAIN m.entries}
      [] m.type = "author"   -> {m.hand}
      [] m.type = "removed"  -> {rows[m.id].hand}
      [] m.type = "restored" -> {m.entry.hand}
Apart(one, other) ==
    /\ "reordered" \notin {one.type, other.type}
    /\ {one.type, other.type} # {"added"}
    /\ HandsTold(one) \cap HandsTold(other) = {}

(* A change reaches the Room, a removal's once its second statement ended. *)
Publish(n) ==
    /\ n \in DOMAIN unsent /\ ~Clearing(n)
    /\ view' = Apply(view, unsent[n])
    /\ unsent' = SubSeq(unsent, 1, n - 1) \o SubSeq(unsent, n + 1, Len(unsent))
    /\ astray' = astray \cup {"turn" : m \in {k \in 1 .. n - 1 : ~Apart(unsent[k], unsent[n])}}
    /\ UNCHANGED <<rows, landing, previews, opening, undos, changes, overtaken>>

(* The browser is given the Queue as it stands: what is still to be        *)
(* published reaches it once more.                                         *)
Snapshot ==
    /\ Command("snapshot")
    /\ view' \in Snapshots(rows)
    /\ astray' = IF unsent = <<>> THEN {}
                 ELSE astray \cup {"turn" : n \in {k \in DOMAIN unsent : unsent[k].type = "reordered"}}
    /\ UNCHANGED <<rows, landing, previews, opening, unsent, undos, overtaken>>

(* Time passes over the removals.                                          *)
Tick ==
    /\ \E i \in Ids : rows[i].removed \in 0 .. Window
    /\ rows' = [i \in Ids |-> IF rows[i].removed \in 0 .. Window
                              THEN [rows[i] EXCEPT !.removed = @ + 1] ELSE rows[i]]
    /\ UNCHANGED <<landing, previews, opening, unsent, view, undos, changes, astray, overtaken>>

-----------------------------------------------------------------------------
Next ==
    \/ \E n \in DOMAIN unsent : Cleared(n) \/ Publish(n)
    \/ Snapshot \/ Tick
    \/ \E hands \in Batches :
         Preview(hands) \/ \E p \in Person : Add(hands, p)
    \/ \E kept \in previews, more \in previews \cup {<<>>}, p \in Person :
         kept # more /\ Confirm(kept, more, p)
    \/ \E order \in Orders(Active) : Reorder(order)
    \/ \E i \in Ids :
         \/ Remove(i)
         \/ \E order \in Orders(Active \cup {i}) : Undo(i, order)
         \/ \E p \in Person : ReassignAuthor(i, p) \/ Open(p, i) \/ OpenDone(p, i)

Spec == Init /\ [][Next]_vars

-----------------------------------------------------------------------------
TypeOK ==
    /\ rows \in Seq(Row)
    /\ landing \in [Person -> 0 .. Len(rows)]
    /\ previews \subseteq Seq(Hand)
    /\ opening \subseteq Person \X Ids
    /\ \A n \in DOMAIN unsent :
         unsent[n].type \in {"added", "author", "reordered", "removed", "restored"}
    /\ view \in Seq(Shown)
    /\ undos \in Nat /\ changes \in Nat
    /\ astray \subseteq {"turn", "place"} /\ overtaken \subseteq Person \X Ids

(* Two Entries never share a position (queue.service.ts insertEntries and  *)
(* undoRemoval), so the Queue has one order, whatever was reordered while  *)
(* which Entry was removed.                                                *)
PositionsDistinct ==
    \A i, j \in Active : rows[i].position = rows[j].position => i = j

(* No Hand is in the Queue twice: one already there is a duplicate.        *)
NoHandTwice == \A i, j \in Active : rows[i].hand = rows[j].hand => i = j

(* The Queue in the database, without the numbers.                         *)
Told(v) == [n \in DOMAIN v |-> <<v[n].id, v[n].author>>]

(* Once every change is published, the browser shows the Queue's order and *)
(* its Authors, the same for everyone (roomClient.ts applied): removals    *)
(* told late, Entries put back where they were, snapshots drawn in         *)
(* between.  But changes that cross may be told the wrong way round, and   *)
(* an Entry may come back to a place another has taken: see below.         *)
ViewAgrees == unsent = <<>> /\ astray = {} => \E s \in Snapshots(rows) : Told(view) = Told(s)

(* Once an Entry is removed and everyone on it cleared, nobody is on it    *)
(* (queue.service.ts remove), whatever was removed, taken back, opened and *)
(* removed again, but whoever was opening it meanwhile.                    *)
NobodyLeftOn ==
    \A i \in Ids, p \in Person :
        rows[i].removed # Never /\ landing[p] = i =>
            \/ <<p, i>> \in overtaken
            \/ \E n \in DOMAIN unsent : Clearing(n) /\ unsent[n].id = i

-----------------------------------------------------------------------------
(* What the code says, and does not keep.                                  *)

(* The order is the same for everyone once all is told                     *)
(* (room.gateway.ts reorder), whichever of two changes is told first.      *)
OrderIsShared == unsent = <<>> => \E s \in Snapshots(rows) : Told(view) = Told(s)

(* A removal undone puts the Entry back where it was, for everyone         *)
(* (roomClient.ts entryRestored), with changes told as they committed.     *)
UndoRestores ==
    unsent = <<>> /\ "turn" \notin astray => \E s \in Snapshots(rows) : Told(view) = Told(s)

(* Nobody comes back to an Entry that was removed, even if the removal is  *)
(* undone, once the removal is over (queue.service.ts remove).             *)
NobodyBack ==
    [][\A i \in Ids :
         /\ rows[i].removed # Never /\ rows'[i].removed = Never
         /\ \A n \in DOMAIN unsent : Clearing(n) => unsent[n].id # i
         => \A p \in Person : landing'[p] # i]_vars
=============================================================================
