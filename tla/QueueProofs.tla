---------------------------- MODULE QueueProofs ----------------------------
(***************************************************************************)
(* What holds of every Queue: two Entries never share a position; where no *)
(* removal is taken back, no Hand is queued twice; nobody stays on an      *)
(* Entry that was removed but who was opening it meanwhile. And of every   *)
(* import into one: what its dialog shows is the last that was read.       *)
(***************************************************************************)
EXTENDS Queue, ImportDialog, FiniteSetTheorems, SequenceTheorems, TLAPS

(* All the argument needs to know of the state.                            *)
Typed ==
    /\ rows \in Seq(Row)
    /\ previews \subseteq Seq(Hand)

-----------------------------------------------------------------------------
(* Orders and renumbering.                                                 *)

(* An order is a sequence, and every member has a place of its own.        *)
LEMMA OrderPlaces ==
    ASSUME NEW S, IsFiniteSet(S), NEW order \in Orders(S)
    PROVE  /\ order \in Seq(S)
           /\ \A i \in S : /\ Place(order, i) \in 1 .. Len(order)
                           /\ order[Place(order, i)] = i
<1>1. Cardinality(S) \in Nat
  BY FS_CardinalityType
<1>2. order \in [1 .. Cardinality(S) -> S] /\ \A i \in S : \E k \in DOMAIN order : order[k] = i
  BY DEF Orders
<1>3. order \in Seq(S) /\ DOMAIN order = 1 .. Len(order)
  BY <1>1, <1>2
<1>4. ASSUME NEW i \in S
      PROVE  /\ Place(order, i) \in 1 .. Len(order)
             /\ order[Place(order, i)] = i
  BY <1>2, <1>3 DEF Place
<1> QED
  BY <1>3, <1>4

LEMMA ActiveFinite ==
    ASSUME Typed
    PROVE  /\ Active \subseteq 1 .. Len(rows)
           /\ \A S \in SUBSET Ids : IsFiniteSet(S)
<1>1. Len(rows) \in Nat /\ Ids = 1 .. Len(rows)
  BY DEF Typed, Ids
<1>2. IsFiniteSet(Ids)
  BY <1>1, FS_Interval
<1>3. Active \subseteq Ids
  BY DEF Active
<1> QED
  BY <1>1, <1>2, <1>3, FS_Subset

(* Renumbering gives each Entry of the order its place as a position, and  *)
(* changes nothing else.                                                   *)
LEMMA RenumberShape ==
    ASSUME NEW r \in Seq(Row), NEW S \in SUBSET (1 .. Len(r)), NEW order \in Orders(S),
           IsFiniteSet(S)
    PROVE  /\ Renumber(r, order) \in Seq(Row)
           /\ Len(Renumber(r, order)) = Len(r)
           /\ \A i \in 1 .. Len(r) :
                /\ Renumber(r, order)[i].removed = r[i].removed
                /\ Renumber(r, order)[i].hand = r[i].hand
                /\ i \in S => Renumber(r, order)[i].position = Place(order, i)
<1> DEFINE q == Renumber(r, order)
           n == Len(r)
<1>1. n \in Nat /\ DOMAIN r = 1 .. n /\ \A i \in 1 .. n : r[i] \in Row
  OBVIOUS
<1>2. /\ order \in Seq(S)
      /\ \A i \in S : Place(order, i) \in 1 .. Len(order) /\ order[Place(order, i)] = i
  BY OrderPlaces
<1>3. \A i : (\E k \in DOMAIN order : order[k] = i) <=> i \in S
  <2>1. DOMAIN order = 1 .. Len(order) /\ \A k \in DOMAIN order : order[k] \in S
    BY <1>2
  <2> QED
    BY <1>2, <2>1
<1>4. q = [i \in 1 .. n |-> IF i \in S THEN [r[i] EXCEPT !.position = Place(order, i)]
                            ELSE r[i]]
  BY <1>1, <1>3, Zenon DEF Renumber
<1> HIDE DEF q
<1>5. ASSUME NEW i \in 1 .. n
      PROVE  /\ q[i] \in Row
             /\ q[i].removed = r[i].removed
             /\ q[i].hand = r[i].hand
             /\ i \in S => q[i].position = Place(order, i)
  <2> DEFINE place == Place(order, i)
  <2>1. CASE i \in S
    <3>1. place \in Nat \ {0}
      BY <1>2, <2>1
    <3> HIDE DEF place
    <3>2. q[i] = [r[i] EXCEPT !.position = place]
      BY <1>4, <2>1 DEF place
    <3> QED
      BY <3>1, <3>2, <1>1 DEF Row, place
  <2>2. CASE i \notin S
    BY <1>1, <1>4, <2>2
  <2> QED
    BY <2>1, <2>2
<1>6. q \in Seq(Row) /\ Len(q) = n
  <2>1. DOMAIN q = 1 .. n /\ q = [i \in 1 .. n |-> q[i]]
    BY <1>4
  <2> QED
    BY <2>1, <1>1, <1>5
<1> QED
  BY <1>5, <1>6 DEF q

(* Entries that a renumbering all put in an order have no position in      *)
(* common.                                                                 *)
LEMMA RenumberDistinct ==
    ASSUME NEW r \in Seq(Row), NEW S \in SUBSET (1 .. Len(r)), NEW order \in Orders(S),
           IsFiniteSet(S), NEW i \in S, NEW j \in S,
           Renumber(r, order)[i].position = Renumber(r, order)[j].position
    PROVE  i = j
<1>1. Place(order, i) = Place(order, j)
  BY RenumberShape
<1>2. order[Place(order, i)] = i /\ order[Place(order, j)] = j
  BY OrderPlaces
<1> QED
  BY <1>1, <1>2

-----------------------------------------------------------------------------
(* Imports.                                                                *)

(* What an import plans to add is new to the Queue, and no Hand of it      *)
(* comes twice.                                                            *)
LEMMA PlannedIsNew ==
    ASSUME NEW read \in Seq(Hand), NEW hands \in Planned(read)
    PROVE  /\ hands \in Seq(Hand)
           /\ \A k \in 1 .. Len(hands) : ~Queued(hands[k])
           /\ \A k, l \in 1 .. Len(hands) : hands[k] = hands[l] => k = l
<1> DEFINE new == {k \in DOMAIN read : /\ ~Queued(read[k])
                                       /\ \A l \in DOMAIN read : l < k => read[l] # read[k]}
<1>1. PICK s \in Orders(new) : /\ \A k, l \in DOMAIN s : k < l => s[k] < s[l]
                               /\ hands = [k \in DOMAIN s |-> read[s[k]]]
  BY Zenon DEF Planned
<1>2. new \subseteq 1 .. Len(read) /\ Len(read) \in Nat
  OBVIOUS
<1>3. IsFiniteSet(new)
  BY <1>2, FS_Interval, FS_Subset
<1>4. s \in Seq(new)
  BY <1>3, OrderPlaces
<1>5. Len(s) \in Nat /\ DOMAIN s = 1 .. Len(s) /\ \A k \in 1 .. Len(s) : s[k] \in new
  BY <1>4
<1>6. hands \in Seq(Hand) /\ Len(hands) = Len(s)
  BY <1>1, <1>5, <1>2
<1>7. \A k \in 1 .. Len(hands) : hands[k] = read[s[k]]
  BY <1>1, <1>5, <1>6
<1>8. \A k \in 1 .. Len(hands) : ~Queued(hands[k])
  BY <1>5, <1>6, <1>7
<1>9. ASSUME NEW k \in 1 .. Len(hands), NEW l \in 1 .. Len(hands), k < l
      PROVE  hands[k] # hands[l]
  <2>1. s[k] < s[l] /\ s[k] \in new /\ s[l] \in new
    BY <1>1, <1>5, <1>6, <1>9
  <2>2. read[s[k]] # read[s[l]]
    BY <2>1
  <2> QED
    BY <2>2, <1>7
<1> QED
  BY <1>5, <1>6, <1>8, <1>9

(* New Entries come after all there are, which stay as they were.          *)
LEMMA InsertShape ==
    ASSUME Typed, NEW hands \in Seq(Hand), NEW author \in Person, Insert(hands, author)
    PROVE  /\ rows' \in Seq(Row)
           /\ Len(rows') = Len(rows) + Len(hands)
           /\ \A i \in 1 .. Len(rows) : rows'[i] = rows[i]
           /\ \A k \in 1 .. Len(hands) :
                /\ rows'[Len(rows) + k].hand = hands[k]
                /\ rows'[Len(rows) + k].removed = Never
                /\ \A i \in 1 .. Len(rows) + k - 1 :
                     rows'[i].position < rows'[Len(rows) + k].position
<1> DEFINE n == Len(rows)
           m == Len(hands)
<1>1. /\ n \in Nat /\ Ids = 1 .. n /\ \A i \in 1 .. n : rows[i] \in Row
      /\ m \in Nat /\ \A k \in 1 .. m : hands[k] \in Hand
  BY DEF Typed, Ids
<1>2. PICK last \in {0} \cup {rows[i].position : i \in Ids} :
        /\ IsLast(last)
        /\ rows' = [i \in 1 .. n + m |->
                      IF i <= n THEN rows[i]
                      ELSE [hand |-> hands[i - n], author |-> author,
                            position |-> last + (i - n), added |-> n + 1,
                            removed |-> Never]]
  BY Zenon DEF Insert
<1>3. last \in Nat
  BY <1>1 DEF Row
<1>4. \A i \in 1 .. n : rows[i].position \in Nat /\ rows[i].position <= last
  BY <1>1, <1>2 DEF IsLast, Row
<1>5. \A i \in 1 .. n : rows'[i] = rows[i]
  BY <1>1, <1>2
<1>6. ASSUME NEW i \in n + 1 .. n + m
      PROVE  /\ rows'[i] = [hand |-> hands[i - n], author |-> author,
                            position |-> last + (i - n), added |-> n + 1,
                            removed |-> Never]
             /\ rows'[i] \in Row
  <2>1. rows'[i] = [hand |-> hands[i - n], author |-> author,
                    position |-> last + (i - n), added |-> n + 1, removed |-> Never]
    BY <1>1, <1>2
  <2>2. /\ hands[i - n] \in Hand /\ last + (i - n) \in Nat \ {0} /\ n + 1 \in Nat
        /\ Never \in Never .. Window + 1
    BY <1>1, <1>3, BoundsAssumption DEF Never
  <2> QED
    BY <2>1, <2>2 DEF Row
<1>7. rows' \in Seq(Row) /\ Len(rows') = n + m
  <2>1. ASSUME NEW i \in 1 .. n + m PROVE rows'[i] \in Row
    <3>1. CASE i \in 1 .. n
      BY <3>1, <1>1, <1>5
    <3>2. CASE i \in n + 1 .. n + m
      BY <3>2, <1>6
    <3> QED
      BY <3>1, <3>2, <1>1
  <2>2. rows' = [i \in 1 .. n + m |-> rows'[i]]
    BY <1>2
  <2> QED
    BY <2>1, <2>2, <1>1
<1>8. ASSUME NEW k \in 1 .. m
      PROVE  /\ rows'[n + k].hand = hands[k]
             /\ rows'[n + k].removed = Never
             /\ rows'[n + k].position = last + k
  <2>1. n + k \in n + 1 .. n + m /\ (n + k) - n = k
    BY <1>1
  <2>2. rows'[n + k] = [hand |-> hands[k], author |-> author, position |-> last + k,
                        added |-> n + 1, removed |-> Never]
    BY <2>1, <1>6
  <2> QED
    BY <2>2
<1>9. ASSUME NEW k \in 1 .. m, NEW i \in 1 .. n + k - 1
      PROVE  rows'[i].position < rows'[n + k].position
  <2>1. CASE i \in 1 .. n
    <3>1. rows'[i] = rows[i] /\ rows[i].position \in Nat /\ rows[i].position <= last
      BY <2>1, <1>4, <1>5
    <3>2. rows'[n + k].position = last + k
      BY <1>8
    <3> QED
      BY <3>1, <3>2, <1>1, <1>3
  <2>2. CASE i \notin 1 .. n
    <3>1. i - n \in 1 .. m /\ i - n < k
      BY <2>2, <1>1
    <3>2. rows'[n + (i - n)].position = last + (i - n)
      BY <3>1, <1>8
    <3> QED
      BY <3>1, <3>2, <1>1, <1>3, <1>8
  <2> QED
    BY <2>1, <2>2
<1> QED
  BY <1>5, <1>7, <1>8, <1>9

(* What one step may do to the Entries: nothing, an import, a renumbering  *)
(* of the Queue with perhaps an Entry taken back into it, a removal,       *)
(* another Author, or time passing over the removals.                      *)
Imports ==
    \E read \in Seq(Hand), author \in Person :
        \E hands \in Planned(read) : Insert(hands, author)
Renumbers ==
    \/ \E order \in Orders(Active) : rows' = Renumber(rows, order)
    \/ \E i \in Ids : \E order \in Orders(Active \cup {i}) :
         /\ "undo" \in Commands
         /\ rows' = Renumber([rows EXCEPT ![i].removed = Never], order)
Removes == \E i \in Active : rows' = [rows EXCEPT ![i].removed = 0]
Attributes == \E i \in Active, p \in Person : rows' = [rows EXCEPT ![i].author = p]
Ages ==
    rows' = [i \in Ids |-> IF rows[i].removed \in 0 .. Window
                           THEN [rows[i] EXCEPT !.removed = @ + 1] ELSE rows[i]]

LEMMA BatchesAreSequences == Batches \subseteq Seq(Hand)
BY BoundsAssumption DEF Batches

LEMMA StepOnRows ==
    ASSUME Typed, [Next]_vars
    PROVE  UNCHANGED rows \/ Imports \/ Renumbers \/ Removes \/ Attributes \/ Ages
<1>1. CASE UNCHANGED vars
  BY <1>1 DEF vars
<1>2. ASSUME NEW n \in DOMAIN unsent, Cleared(n) \/ Publish(n) PROVE UNCHANGED rows
  BY <1>2 DEF Cleared, Publish
<1>3. CASE Snapshot
  BY <1>3 DEF Snapshot
<1>4. CASE Tick
  BY <1>4 DEF Tick, Ages
<1>5. ASSUME NEW hands \in Batches, Preview(hands) PROVE UNCHANGED rows
  BY <1>5 DEF Preview
<1>6. ASSUME NEW read \in Batches, NEW p \in Person, Add(read, p) PROVE Imports
  <2>1. read \in Seq(Hand)
    BY BatchesAreSequences
  <2>2. PICK hands \in Planned(read) : Insert(hands, p)
    BY <1>6 DEF Add
  <2> QED
    BY <2>1, <2>2 DEF Imports
<1>7. ASSUME NEW kept \in previews, NEW more \in previews \cup {<<>>}, NEW p \in Person,
             Confirm(kept, more, p)
      PROVE  UNCHANGED rows \/ Imports
  <2>1. kept \o more \in Seq(Hand)
    <3>1. previews \subseteq Seq(Hand) /\ <<>> \in Seq(Hand)
      BY DEF Typed
    <3>2. kept \in Seq(Hand) /\ more \in Seq(Hand)
      BY <3>1, Zenon
    <3> QED
      BY <3>2
  <2>2. PICK hands \in Planned(kept \o more) : Insert(hands, p) \/ UNCHANGED rows
    BY <1>7 DEF Confirm
  <2> QED
    BY <2>1, <2>2 DEF Imports
<1>8. ASSUME NEW order \in Orders(Active), Reorder(order) PROVE Renumbers
  BY <1>8 DEF Reorder, Renumbers
<1>9. ASSUME NEW i \in Ids, Remove(i) PROVE Removes
  BY <1>9 DEF Remove, Removes
<1>10. ASSUME NEW i \in Ids, NEW order \in Orders(Active \cup {i}), Undo(i, order)
       PROVE  Renumbers
  BY <1>10 DEF Undo, TakesBack, Command, Renumbers
<1>11. ASSUME NEW i \in Ids, NEW p \in Person, ReassignAuthor(i, p) PROVE Attributes
  BY <1>11 DEF ReassignAuthor, Attributes
<1>12. ASSUME NEW i \in Ids, NEW p \in Person, Open(p, i) \/ OpenDone(p, i)
       PROVE  UNCHANGED rows
  BY <1>12 DEF Open, OpenDone
<1> QED
  BY <1>1, <1>2, <1>3, <1>4, <1>5, <1>6, <1>7, <1>8, <1>9, <1>10, <1>11, <1>12, Zenon
  DEF Next

-----------------------------------------------------------------------------
(* Types.                                                                  *)

LEMMA InitTyped == Init => Typed
<1> SUFFICES ASSUME Init PROVE Typed
  OBVIOUS
<1>1. PICK p \in Person :
        rows = [i \in DOMAIN Already |->
                  [hand |-> Already[i], author |-> p, position |-> i, added |-> i,
                   removed |-> Never]]
  BY DEF Init
<1>2. /\ Len(Already) \in Nat /\ DOMAIN Already = 1 .. Len(Already)
      /\ \A i \in DOMAIN Already : Already[i] \in Hand
  BY AlreadyAssumption
<1>3. Never \in Never .. Window + 1
  BY BoundsAssumption DEF Never
<1>4. \A i \in DOMAIN Already : rows[i] \in Row
  BY <1>1, <1>2, <1>3 DEF Row
<1>5. rows \in Seq(Row)
  BY <1>1, <1>2, <1>4
<1> QED
  BY <1>5 DEF Init, Typed

(* Putting back, removing or attributing an Entry leaves rows.             *)
LEMMA RowsUpdated ==
    ASSUME NEW r \in Seq(Row), NEW i \in 1 .. Len(r)
    PROVE  /\ [r EXCEPT ![i].removed = Never] \in Seq(Row)
           /\ Len([r EXCEPT ![i].removed = Never]) = Len(r)
           /\ [r EXCEPT ![i].removed = 0] \in Seq(Row)
           /\ \A p \in Person : [r EXCEPT ![i].author = p] \in Seq(Row)
<1>1. r[i] \in Row
  OBVIOUS
<1>2. Never \in Never .. Window + 1 /\ 0 \in Never .. Window + 1
  BY BoundsAssumption DEF Never
<1>3. /\ [r[i] EXCEPT !.removed = Never] \in Row
      /\ [r[i] EXCEPT !.removed = 0] \in Row
      /\ \A p \in Person : [r[i] EXCEPT !.author = p] \in Row
  BY <1>1, <1>2 DEF Row
<1>4. \A row \in Row : [r EXCEPT ![i] = row] \in Seq(Row) /\ Len([r EXCEPT ![i] = row]) = Len(r)
  OBVIOUS
<1> QED
  BY <1>3, <1>4

LEMMA RowsTyped ==
    ASSUME Typed, [Next]_vars
    PROVE  rows' \in Seq(Row)
<1>1. CASE UNCHANGED rows
  BY <1>1 DEF Typed
<1>2. CASE Imports
  BY <1>2, InsertShape, PlannedIsNew DEF Imports
<1>3. CASE Renumbers
  <2>1. CASE \E order \in Orders(Active) : rows' = Renumber(rows, order)
    BY <2>1, RenumberShape, ActiveFinite DEF Typed, Ids
  <2>2. ASSUME NEW i \in Ids, NEW order \in Orders(Active \cup {i}),
               rows' = Renumber([rows EXCEPT ![i].removed = Never], order)
        PROVE  rows' \in Seq(Row)
    <3> DEFINE back == [rows EXCEPT ![i].removed = Never]
    <3>1. Ids = 1 .. Len(rows) /\ rows \in Seq(Row)
      BY DEF Typed, Ids
    <3>2. back \in Seq(Row) /\ Len(back) = Len(rows)
      BY <3>1, RowsUpdated
    <3>3. Active \cup {i} \subseteq Ids /\ IsFiniteSet(Active \cup {i})
      BY ActiveFinite DEF Active
    <3> HIDE DEF back
    <3>4. Renumber(back, order) \in Seq(Row)
      BY <3>1, <3>2, <3>3, RenumberShape
    <3> QED
      BY <2>2, <3>4 DEF back
  <2> QED
    BY <1>3, <2>1, <2>2 DEF Renumbers
<1>4. CASE Removes
  <2>1. PICK i \in Active : rows' = [rows EXCEPT ![i].removed = 0]
    BY <1>4 DEF Removes
  <2> QED
    BY <2>1, RowsUpdated, ActiveFinite DEF Typed
<1>5. CASE Attributes
  <2>1. PICK i \in Active, p \in Person : rows' = [rows EXCEPT ![i].author = p]
    BY <1>5 DEF Attributes
  <2> QED
    BY <2>1, RowsUpdated, ActiveFinite DEF Typed
<1>6. CASE Ages
  <2>1. Len(rows) \in Nat /\ Ids = 1 .. Len(rows) /\ \A i \in Ids : rows[i] \in Row
    BY DEF Typed, Ids
  <2>2. ASSUME NEW i \in Ids, rows[i].removed \in 0 .. Window
        PROVE  [rows[i] EXCEPT !.removed = @ + 1] \in Row
    <3>1. rows[i].removed + 1 \in Never .. Window + 1
      BY <2>2, BoundsAssumption DEF Never
    <3> QED
      BY <2>1, <3>1 DEF Row
  <2>3. \A i \in Ids : rows'[i] \in Row
    BY <1>6, <2>1, <2>2 DEF Ages
  <2>4. rows' = [i \in 1 .. Len(rows) |-> rows'[i]]
    BY <1>6, <2>1 DEF Ages
  <2> QED
    BY <2>1, <2>3, <2>4
<1> QED
  BY <1>1, <1>2, <1>3, <1>4, <1>5, <1>6, StepOnRows

LEMMA PreviewsTyped ==
    ASSUME Typed, [Next]_vars
    PROVE  previews' \subseteq Seq(Hand)
<1>1. ASSUME NEW read \in Batches, Preview(read) PROVE previews' \subseteq Seq(Hand)
  BY <1>1, BatchesAreSequences, PlannedIsNew DEF Preview, Typed
<1>2. ASSUME NEW kept \in previews, NEW more \in previews \cup {<<>>}, NEW p \in Person,
             Confirm(kept, more, p)
      PROVE  previews' \subseteq Seq(Hand)
  BY <1>2 DEF Confirm, Typed
<1>3. ASSUME \/ \E n \in DOMAIN unsent : Cleared(n) \/ Publish(n)
             \/ Snapshot \/ Tick
             \/ \E read \in Batches, p \in Person : Add(read, p)
             \/ \E order \in Orders(Active) : Reorder(order)
             \/ \E i \in Ids : \/ Remove(i)
                               \/ \E order \in Orders(Active \cup {i}) : Undo(i, order)
                               \/ \E p \in Person :
                                    ReassignAuthor(i, p) \/ Open(p, i) \/ OpenDone(p, i)
             \/ UNCHANGED vars
      PROVE  UNCHANGED previews
  BY <1>3, Zenon DEF Cleared, Publish, Snapshot, Tick, Add, Reorder, Remove, Undo, TakesBack,
                     ReassignAuthor, Open, OpenDone, vars
<1> QED
  BY <1>1, <1>2, <1>3, Zenon DEF Next, Typed

LEMMA StepTyped == Typed /\ [Next]_vars => Typed'
BY RowsTyped, PreviewsTyped DEF Typed

-----------------------------------------------------------------------------
(* Positions.                                                              *)

LEMMA ImportKeepsDistinct ==
    ASSUME Typed, PositionsDistinct, Imports
    PROVE  PositionsDistinct'
<1> DEFINE n == Len(rows)
<1>1. PICK read \in Seq(Hand), author \in Person :
        \E hands \in Planned(read) : Insert(hands, author)
  BY DEF Imports
<1>2. PICK hands \in Planned(read) : Insert(hands, author)
  BY <1>1
<1>3. /\ hands \in Seq(Hand)
      /\ rows' \in Seq(Row)
      /\ Len(rows') = n + Len(hands)
      /\ \A i \in 1 .. n : rows'[i] = rows[i]
      /\ \A k \in 1 .. Len(hands) : \A i \in 1 .. n + k - 1 :
           rows'[i].position < rows'[n + k].position
  <2>1. hands \in Seq(Hand)
    BY PlannedIsNew
  <2> QED
    BY <2>1, <1>2, InsertShape
<1>4. /\ n \in Nat /\ Len(hands) \in Nat /\ Ids = 1 .. n /\ Ids' = 1 .. n + Len(hands)
      /\ \A i \in Ids' : rows'[i].position \in Nat
  <2>1. n \in Nat /\ Len(hands) \in Nat /\ Ids = 1 .. n /\ Ids' = 1 .. n + Len(hands)
    BY <1>3 DEF Typed, Ids
  <2>2. \A i \in Ids' : rows'[i] \in Row
    BY <1>3, <2>1
  <2> QED
    BY <2>1, <2>2 DEF Row
<1>5. ASSUME NEW i \in Ids', NEW j \in Ids', i < j, j > n
      PROVE  rows'[i].position # rows'[j].position
  <2>1. j - n \in 1 .. Len(hands) /\ i \in 1 .. n + (j - n) - 1 /\ n + (j - n) = j
    BY <1>4, <1>5
  <2>2. rows'[i].position < rows'[n + (j - n)].position
    BY <2>1, <1>3
  <2> QED
    BY <2>1, <2>2, <1>4
<1>6. ASSUME NEW i \in Active', NEW j \in Active', rows'[i].position = rows'[j].position
      PROVE  i = j
  <2>1. i \in Ids' /\ j \in Ids' /\ i \in Nat /\ j \in Nat
    BY <1>4 DEF Active
  <2>2. CASE i \in 1 .. n /\ j \in 1 .. n
    <3>1. rows'[i] = rows[i] /\ rows'[j] = rows[j]
      BY <2>2, <1>3
    <3>2. i \in Active /\ j \in Active
      BY <3>1, <2>2, <1>4 DEF Active
    <3> QED
      BY <3>1, <3>2, <1>6 DEF PositionsDistinct
  <2>3. CASE i > n \/ j > n
    BY <2>1, <2>3, <1>4, <1>5, <1>6
  <2> QED
    BY <2>1, <2>2, <2>3, <1>4
<1> QED
  BY <1>6 DEF PositionsDistinct

LEMMA RenumberingMakesDistinct ==
    ASSUME Typed, Renumbers
    PROVE  PositionsDistinct'
<1>1. rows \in Seq(Row) /\ Len(rows) \in Nat /\ Ids = 1 .. Len(rows)
  BY DEF Typed, Ids
<1>2. CASE \E order \in Orders(Active) : rows' = Renumber(rows, order)
  <2>1. PICK order \in Orders(Active) : rows' = Renumber(rows, order)
    BY <1>2
  <2>2. Active \subseteq Ids /\ IsFiniteSet(Active)
    BY ActiveFinite DEF Active
  <2>3. /\ rows' \in Seq(Row) /\ Len(rows') = Len(rows)
        /\ \A i \in 1 .. Len(rows) : rows'[i].removed = rows[i].removed
    BY <1>1, <2>1, <2>2, RenumberShape
  <2>4. Active' = Active
    BY <1>1, <2>3 DEF Active, Ids
  <2>5. \A i, j \in Active : rows'[i].position = rows'[j].position => i = j
    BY <1>1, <2>1, <2>2, RenumberDistinct
  <2> QED
    BY <2>4, <2>5 DEF PositionsDistinct
<1>3. ASSUME NEW b \in Ids, NEW order \in Orders(Active \cup {b}),
             rows' = Renumber([rows EXCEPT ![b].removed = Never], order)
      PROVE  PositionsDistinct'
  <2> DEFINE back == [rows EXCEPT ![b].removed = Never]
             queue == Active \cup {b}
  <2>1. back \in Seq(Row) /\ Len(back) = Len(rows)
    BY <1>1, RowsUpdated
  <2>2. \A i \in Ids \ {b} : back[i] = rows[i]
    BY <1>1
  <2>3. queue \subseteq Ids /\ IsFiniteSet(queue)
    BY ActiveFinite DEF Active
  <2> HIDE DEF back
  <2>4. /\ rows' \in Seq(Row) /\ Len(rows') = Len(rows)
        /\ \A i \in 1 .. Len(rows) : rows'[i].removed = back[i].removed
    <3>1. rows' = Renumber(back, order)
      BY <1>3 DEF back
    <3> QED
      BY <3>1, <1>1, <2>1, <2>3, RenumberShape
  <2>5. Active' \subseteq queue
    BY <1>1, <2>2, <2>4 DEF Active, Ids
  <2>6. \A i, j \in queue : rows'[i].position = rows'[j].position => i = j
    <3>1. rows' = Renumber(back, order)
      BY <1>3 DEF back
    <3> QED
      BY <3>1, <1>1, <2>1, <2>3, RenumberDistinct
  <2> QED
    BY <2>5, <2>6 DEF PositionsDistinct
<1> QED
  BY <1>2, <1>3 DEF Renumbers

(* A removal, another Author and the passing of time move no position and  *)
(* put nothing in the Queue.                                               *)
LEMMA QueueOnlyShrinks ==
    ASSUME Typed, Removes \/ Attributes \/ Ages
    PROVE  /\ Active' \subseteq Active
           /\ \A i \in Active' : /\ rows'[i].position = rows[i].position
                                 /\ rows'[i].hand = rows[i].hand
<1>1. /\ rows \in Seq(Row) /\ DOMAIN rows = 1 .. Len(rows) /\ Ids = DOMAIN rows
      /\ \A i \in Ids : rows[i] \in Row
  BY DEF Typed, Ids
<1>2. CASE Removes
  <2>1. PICK b \in Active : rows' = [rows EXCEPT ![b].removed = 0]
    BY <1>2 DEF Removes
  <2>2. \A i \in Ids : rows'[i] = IF i = b THEN [rows[b] EXCEPT !.removed = 0] ELSE rows[i]
    BY <1>1, <2>1
  <2>3. [rows[b] EXCEPT !.removed = 0].removed = 0
    BY <1>1 DEF Row, Active
  <2>4. Ids' = Ids
    BY <1>1, <2>1 DEF Ids
  <2>5. b \notin Active'
    <3>1. rows'[b].removed = 0
      BY <2>2, <2>3 DEF Active
    <3> QED
      BY <3>1 DEF Active, Never
  <2> QED
    BY <2>2, <2>4, <2>5 DEF Active
<1>3. CASE Attributes
  <2>1. PICK b \in Active, p \in Person : rows' = [rows EXCEPT ![b].author = p]
    BY <1>3 DEF Attributes
  <2> DEFINE row == [rows[b] EXCEPT !.author = p]
  <2>2. /\ row.removed = rows[b].removed
        /\ row.position = rows[b].position
        /\ row.hand = rows[b].hand
    BY <1>1 DEF Row, Active
  <2>3. \A i \in Ids : rows'[i] = IF i = b THEN row ELSE rows[i]
    BY <1>1, <2>1
  <2> HIDE DEF row
  <2>4. Ids' = Ids
    BY <1>1, <2>1 DEF Ids
  <2> QED
    BY <2>2, <2>3, <2>4 DEF Active
<1>4. CASE Ages
  <2>1. Ids' = Ids
    BY <1>4 DEF Ages, Ids
  <2>2. ASSUME NEW i \in Active'
        PROVE  rows'[i] = rows[i]
    <3>1. i \in Ids /\ rows'[i].removed = Never
      BY <2>1 DEF Active
    <3>2. CASE rows[i].removed \in 0 .. Window
      <4>1. rows'[i] = [rows[i] EXCEPT !.removed = @ + 1]
        BY <1>4, <3>1, <3>2 DEF Ages
      <4>2. rows'[i].removed = rows[i].removed + 1
        BY <4>1, <3>1, <1>1 DEF Row
      <4> QED
        BY <4>2, <3>1, <3>2, BoundsAssumption DEF Never
    <3>3. CASE rows[i].removed \notin 0 .. Window
      BY <1>4, <3>1, <3>3 DEF Ages
    <3> QED
      BY <3>2, <3>3
  <2> QED
    BY <2>1, <2>2 DEF Active
<1> QED
  BY <1>2, <1>3, <1>4

LEMMA InitDistinct == Init => PositionsDistinct
<1> SUFFICES ASSUME Init PROVE PositionsDistinct
  OBVIOUS
<1>1. PICK p \in Person :
        rows = [i \in DOMAIN Already |->
                  [hand |-> Already[i], author |-> p, position |-> i, added |-> i,
                   removed |-> Never]]
  BY DEF Init
<1>2. \A i \in Ids : rows[i].position = i
  BY <1>1 DEF Ids
<1> QED
  BY <1>2 DEF PositionsDistinct, Active

LEMMA StepDistinct == Typed /\ PositionsDistinct /\ [Next]_vars => PositionsDistinct'
<1> SUFFICES ASSUME Typed, PositionsDistinct, [Next]_vars PROVE PositionsDistinct'
  OBVIOUS
<1>1. CASE UNCHANGED rows
  BY <1>1 DEF PositionsDistinct, Active, Ids
<1>2. CASE Imports
  BY <1>2, ImportKeepsDistinct
<1>3. CASE Renumbers
  BY <1>3, RenumberingMakesDistinct
<1>4. CASE Removes \/ Attributes \/ Ages
  BY <1>4, QueueOnlyShrinks DEF PositionsDistinct
<1> QED
  BY <1>1, <1>2, <1>3, <1>4, StepOnRows

(* Two Entries never share a position, whatever is imported, reordered,    *)
(* removed and taken back in whatever order: the Queue has one order, as   *)
(* queue.service.ts says of undoRemoval.                                   *)
THEOREM PositionsApart == Spec => []PositionsDistinct
<1>1. Init => Typed /\ PositionsDistinct
  BY InitTyped, InitDistinct
<1>2. Typed /\ PositionsDistinct /\ [Next]_vars => Typed' /\ PositionsDistinct'
  BY StepTyped, StepDistinct
<1> QED
  BY <1>1, <1>2, PTL DEF Spec

-----------------------------------------------------------------------------
(* Duplicates.                                                             *)

LEMMA InitOnce == Init => NoHandTwice
<1> SUFFICES ASSUME Init PROVE NoHandTwice
  OBVIOUS
<1>1. PICK p \in Person :
        rows = [i \in DOMAIN Already |->
                  [hand |-> Already[i], author |-> p, position |-> i, added |-> i,
                   removed |-> Never]]
  BY DEF Init
<1>2. Ids = DOMAIN Already /\ \A i \in Ids : rows[i].hand = Already[i]
  BY <1>1 DEF Ids
<1> QED
  BY <1>2, AlreadyAssumption DEF NoHandTwice, Active

LEMMA ImportAddsOnce ==
    ASSUME Typed, NoHandTwice, Imports
    PROVE  NoHandTwice'
<1> DEFINE n == Len(rows)
<1>1. PICK read \in Seq(Hand), author \in Person :
        \E hands \in Planned(read) : Insert(hands, author)
  BY DEF Imports
<1>2. PICK hands \in Planned(read) : Insert(hands, author)
  BY <1>1
<1>3. /\ hands \in Seq(Hand)
      /\ \A k \in 1 .. Len(hands) : ~Queued(hands[k])
      /\ \A k, l \in 1 .. Len(hands) : hands[k] = hands[l] => k = l
  BY PlannedIsNew
<1>4. /\ rows' \in Seq(Row)
      /\ Len(rows') = n + Len(hands)
      /\ \A i \in 1 .. n : rows'[i] = rows[i]
      /\ \A k \in 1 .. Len(hands) : rows'[n + k].hand = hands[k]
  BY <1>2, <1>3, InsertShape
<1>5. n \in Nat /\ Len(hands) \in Nat /\ Ids = 1 .. n /\ Ids' = 1 .. n + Len(hands)
  BY <1>3, <1>4 DEF Typed, Ids
<1>6. \A i \in n + 1 .. n + Len(hands) :
        i - n \in 1 .. Len(hands) /\ rows'[i].hand = hands[i - n]
  <2>1. ASSUME NEW i \in n + 1 .. n + Len(hands)
        PROVE  i - n \in 1 .. Len(hands) /\ n + (i - n) = i
    BY <1>5
  <2> QED
    BY <2>1, <1>4
<1>7. \A i \in Active' : i \in 1 .. n => i \in Active /\ rows'[i] = rows[i]
  BY <1>4, <1>5 DEF Active
<1>8. ASSUME NEW i \in Active', NEW j \in Active', i \in 1 .. n, j \notin 1 .. n
      PROVE  rows'[i].hand # rows'[j].hand
  <2>1. i \in Active /\ rows'[i].hand = rows[i].hand
    BY <1>7, <1>8
  <2>2. j \in n + 1 .. n + Len(hands)
    BY <1>5, <1>8 DEF Active
  <2>3. rows'[j].hand = hands[j - n] /\ ~Queued(hands[j - n])
    BY <2>2, <1>3, <1>6
  <2> QED
    BY <2>1, <2>3 DEF Queued
<1>9. ASSUME NEW i \in Active', NEW j \in Active', i \notin 1 .. n, j \notin 1 .. n,
             rows'[i].hand = rows'[j].hand
      PROVE  i = j
  <2>1. i \in n + 1 .. n + Len(hands) /\ j \in n + 1 .. n + Len(hands)
    BY <1>5, <1>9 DEF Active
  <2>2. i - n = j - n
    BY <2>1, <1>3, <1>6, <1>9
  <2> QED
    BY <2>1, <2>2, <1>5
<1> QED
  BY <1>7, <1>8, <1>9 DEF NoHandTwice

LEMMA StepOnce ==
    ASSUME "undo" \notin Commands, Typed, NoHandTwice, [Next]_vars
    PROVE  NoHandTwice'
<1>1. CASE UNCHANGED rows
  BY <1>1 DEF NoHandTwice, Active, Ids
<1>2. CASE Imports
  BY <1>2, ImportAddsOnce
<1>3. CASE Renumbers
  <2>1. PICK order \in Orders(Active) : rows' = Renumber(rows, order)
    BY <1>3 DEF Renumbers
  <2>2. rows \in Seq(Row) /\ Ids = 1 .. Len(rows) /\ Active \subseteq Ids /\ IsFiniteSet(Active)
    BY ActiveFinite DEF Typed, Ids, Active
  <2>3. /\ rows' \in Seq(Row) /\ Len(rows') = Len(rows)
        /\ \A i \in 1 .. Len(rows) : /\ rows'[i].removed = rows[i].removed
                                     /\ rows'[i].hand = rows[i].hand
    BY <2>1, <2>2, RenumberShape
  <2> QED
    BY <2>2, <2>3 DEF NoHandTwice, Active, Ids
<1>4. CASE Removes \/ Attributes \/ Ages
  BY <1>4, QueueOnlyShrinks DEF NoHandTwice
<1> QED
  BY <1>1, <1>2, <1>3, <1>4, StepOnRows

(* Where no removal is taken back, no Hand is in the Queue twice, however  *)
(* imports are read early and confirmed late (queue.service.ts append      *)
(* plans again under the lock).                                            *)
THEOREM NoDuplicates ==
    ASSUME "undo" \notin Commands
    PROVE  Spec => []NoHandTwice
<1>1. Init => Typed /\ NoHandTwice
  BY InitTyped, InitOnce
<1>2. Typed /\ NoHandTwice /\ [Next]_vars => Typed' /\ NoHandTwice'
  BY StepTyped, StepOnce
<1> QED
  BY <1>1, <1>2, PTL DEF Spec

-----------------------------------------------------------------------------
(* Coming back.                                                            *)

(* A removal of Entry i is still to clear whoever is on it.                *)
Awaited(i) == \E n \in DOMAIN unsent : Clearing(n) /\ unsent[n].id = i

(* Whoever is on an Entry that is removed, or about to be, was opening it  *)
(* as it was, or is to be cleared.                                         *)
Landed ==
    /\ landing \in [Person -> Nat]
    /\ opening \subseteq Person \X Nat
    /\ \E S : unsent \in Seq(S)
    /\ \A i \in Ids, p \in Person : rows[i].removed # Never =>
         /\ <<p, i>> \in opening => <<p, i>> \in overtaken
         /\ landing[p] = i => <<p, i>> \in overtaken \/ Awaited(i)

(* One more change to be published takes no removal's place.               *)
LEMMA MoreUnsent ==
    ASSUME \E S : unsent \in Seq(S), \/ UNCHANGED unsent
                                     \/ \E m : unsent' = Append(unsent, m)
    PROVE  /\ \E S : unsent' \in Seq(S)
           /\ \A i : Awaited(i) => Awaited(i)'
<1>1. CASE UNCHANGED unsent
  BY <1>1 DEF Awaited, Clearing
<1>2. ASSUME NEW m, unsent' = Append(unsent, m)
      PROVE  /\ \E S : unsent' \in Seq(S)
             /\ \A i : Awaited(i) => Awaited(i)'
  <2>1. PICK S : unsent \in Seq(S)
    OBVIOUS
  <2>2. unsent \in Seq(S \cup {m}) /\ m \in S \cup {m}
    BY <2>1
  <2>3. unsent' \in Seq(S \cup {m})
    BY <1>2, <2>2
  <2>4. \A n \in DOMAIN unsent : n \in DOMAIN unsent' /\ unsent'[n] = unsent[n]
    BY <1>2, <2>1
  <2> QED  BY <2>3, <2>4 DEF Awaited, Clearing
<1> QED  BY <1>1, <1>2

(* A change published is no removal that is still to clear anyone.         *)
LEMMA LessUnsent ==
    ASSUME \E S : unsent \in Seq(S), NEW n \in DOMAIN unsent, Publish(n)
    PROVE  /\ \E S : unsent' \in Seq(S)
           /\ \A i : Awaited(i) => Awaited(i)'
<1> DEFINE before == SubSeq(unsent, 1, n - 1)
           after  == SubSeq(unsent, n + 1, Len(unsent))
<1>1. PICK S : unsent \in Seq(S)
  OBVIOUS
<1>2. /\ Len(unsent) \in Nat /\ DOMAIN unsent = 1 .. Len(unsent)
      /\ n \in 1 .. Len(unsent)
  BY <1>1
<1>3. /\ before \in Seq(S) /\ Len(before) = n - 1
      /\ \A k \in 1 .. n - 1 : before[k] = unsent[k]
  BY <1>1, <1>2
<1>4. /\ after \in Seq(S) /\ Len(after) = Len(unsent) - n
      /\ \A k \in 1 .. Len(unsent) - n : after[k] = unsent[n + k]
  BY <1>1, <1>2
<1>5. unsent' = before \o after
  BY DEF Publish
<1> HIDE DEF before, after
<1>6. /\ unsent' \in Seq(S) /\ Len(unsent') = (n - 1) + (Len(unsent) - n)
      /\ \A j \in 1 .. (n - 1) + (Len(unsent) - n) :
           unsent'[j] = IF j <= n - 1 THEN before[j] ELSE after[j - (n - 1)]
  <2>1. /\ before \o after \in Seq(S) /\ Len(before \o after) = Len(before) + Len(after)
        /\ \A j \in 1 .. Len(before) + Len(after) :
             (before \o after)[j] = IF j <= Len(before) THEN before[j]
                                    ELSE after[j - Len(before)]
    BY <1>3, <1>4, ConcatProperties
  <2> QED  BY <1>3, <1>4, <1>5, <2>1
<1>7. ASSUME NEW k \in DOMAIN unsent, k # n
      PROVE  \E j \in DOMAIN unsent' : unsent'[j] = unsent[k]
  <2>1. CASE k < n
    <3>1. /\ k \in 1 .. n - 1 /\ k <= n - 1 /\ k \in DOMAIN unsent'
          /\ k \in 1 .. (n - 1) + (Len(unsent) - n)
      BY <1>2, <1>6, <2>1
    <3>2. unsent'[k] = before[k]
      BY <1>6, <3>1
    <3>3. before[k] = unsent[k]
      BY <1>3, <3>1
    <3> QED  BY <3>1, <3>2, <3>3
  <2>2. CASE k > n
    <3>1. /\ k - n \in 1 .. Len(unsent) - n /\ n + (k - n) = k
          /\ k - 1 \in 1 .. (n - 1) + (Len(unsent) - n)
          /\ ~(k - 1 <= n - 1) /\ (k - 1) - (n - 1) = k - n
      BY <1>2, <2>2
    <3>2. unsent'[k - 1] = after[k - n]
      BY <1>6, <3>1
    <3>3. after[k - n] = unsent[n + (k - n)]
      BY <1>4, <3>1
    <3>4. k - 1 \in DOMAIN unsent'
      BY <1>6, <3>1
    <3> QED  BY <3>1, <3>2, <3>3, <3>4
  <2> QED  BY <1>2, <1>7, <2>1, <2>2
<1>8. ~Clearing(n)
  BY DEF Publish
<1> QED  BY <1>6, <1>7, <1>8 DEF Awaited, Clearing

(* Once a removal has cleared its Entry, only that Entry may be awaited    *)
(* no more.                                                                *)
LEMMA ClearedUnsent ==
    ASSUME \E S : unsent \in Seq(S), NEW n \in DOMAIN unsent, Cleared(n)
    PROVE  /\ \E S : unsent' \in Seq(S)
           /\ \A i : Awaited(i) /\ i # unsent[n].id => Awaited(i)'
<1> DEFINE done == [unsent[n] EXCEPT !.cleared = TRUE]
<1>1. PICK S : unsent \in Seq(S)
  OBVIOUS
<1>2. unsent' = [unsent EXCEPT ![n] = done]
  BY DEF Cleared
<1> HIDE DEF done
<1>3. unsent \in Seq(S \cup {done})
  BY <1>1
<1>4. unsent' \in Seq(S \cup {done}) /\ DOMAIN unsent' = DOMAIN unsent
      /\ \A k \in DOMAIN unsent : k # n => unsent'[k] = unsent[k]
  BY <1>1, <1>2, <1>3
<1> QED  BY <1>4 DEF Awaited, Clearing

(* A step of no one's coming back, that leaves no Entry removed that was   *)
(* not.                                                                    *)
LEMMA LandedStays ==
    ASSUME Typed, Landed, UNCHANGED <<landing, opening, overtaken>>,
           \E S : unsent' \in Seq(S), \A i : Awaited(i) => Awaited(i)',
           \A i \in Ids' : rows'[i].removed # Never => i \in Ids /\ rows[i].removed # Never
    PROVE  Landed'
<1>1. ASSUME NEW i \in Ids', NEW p \in Person, rows'[i].removed # Never
      PROVE  /\ <<p, i>> \in opening' => <<p, i>> \in overtaken'
             /\ landing'[p] = i => <<p, i>> \in overtaken' \/ Awaited(i)'
  BY <1>1 DEF Landed
<1> QED  BY <1>1 DEF Landed

(* Of the Entries, only a removal and the passing of time leave any        *)
(* removed, and the passing of time only those that were.                  *)
LEMMA StillRemoved ==
    ASSUME Typed, Imports \/ Renumbers \/ Attributes \/ Ages,
           NEW i \in Ids', rows'[i].removed # Never
    PROVE  i \in Ids /\ rows[i].removed # Never
<1>1. Len(rows) \in Nat /\ Ids = 1 .. Len(rows) /\ \A j \in Ids : rows[j] \in Row
  BY DEF Typed, Ids
<1>2. CASE Imports
  <2>1. PICK read \in Seq(Hand), author \in Person :
          \E hands \in Planned(read) : Insert(hands, author)
    BY <1>2 DEF Imports
  <2>2. PICK hands \in Planned(read) : Insert(hands, author)
    BY <2>1
  <2>3. hands \in Seq(Hand) /\ Len(hands) \in Nat
    BY PlannedIsNew
  <2>4. /\ rows' \in Seq(Row) /\ Len(rows') = Len(rows) + Len(hands)
        /\ \A j \in 1 .. Len(rows) : rows'[j] = rows[j]
        /\ \A k \in 1 .. Len(hands) : rows'[Len(rows) + k].removed = Never
    BY <2>2, <2>3, InsertShape
  <2>5. i \in 1 .. Len(rows) + Len(hands)
    BY <2>4 DEF Ids
  <2>6. CASE i > Len(rows)
    <3>1. i - Len(rows) \in 1 .. Len(hands) /\ Len(rows) + (i - Len(rows)) = i
      BY <1>1, <2>3, <2>5, <2>6
    <3> QED  BY <2>4, <3>1
  <2>7. CASE ~(i > Len(rows))
    BY <1>1, <2>4, <2>5, <2>7
  <2> QED  BY <2>6, <2>7
<1>3. CASE \E order \in Orders(Active) : rows' = Renumber(rows, order)
  <2>1. Active \subseteq 1 .. Len(rows) /\ IsFiniteSet(Active)
    BY <1>1, ActiveFinite
  <2>2. /\ Len(rows') = Len(rows) /\ rows' \in Seq(Row)
        /\ \A j \in 1 .. Len(rows) : rows'[j].removed = rows[j].removed
    BY <1>3, <2>1, RenumberShape DEF Typed
  <2> QED  BY <1>1, <2>2 DEF Ids
<1>4. ASSUME NEW b \in Ids, NEW order \in Orders(Active \cup {b}),
             rows' = Renumber([rows EXCEPT ![b].removed = Never], order)
      PROVE  i \in Ids /\ rows[i].removed # Never
  <2> DEFINE back == [rows EXCEPT ![b].removed = Never]
  <2>1. back \in Seq(Row) /\ Len(back) = Len(rows)
    BY <1>1, RowsUpdated DEF Typed
  <2>2. /\ \A j \in Ids \ {b} : back[j] = rows[j]
        /\ back[b].removed = Never
    BY <1>1 DEF Typed, Row
  <2>3. Active \cup {b} \subseteq 1 .. Len(back) /\ IsFiniteSet(Active \cup {b})
    BY <1>1, <2>1, ActiveFinite
  <2>4. rows' = Renumber(back, order)
    BY <1>4
  <2> HIDE DEF back
  <2>5. Active \cup {b} \in SUBSET (1 .. Len(back))
    BY <2>3
  <2>6. /\ Renumber(back, order) \in Seq(Row) /\ Len(Renumber(back, order)) = Len(back)
        /\ \A j \in 1 .. Len(back) : Renumber(back, order)[j].removed = back[j].removed
    BY <2>1, <2>3, <2>5, RenumberShape
  <2> QED  BY <1>1, <2>1, <2>2, <2>4, <2>6 DEF Ids
<1>5. CASE Attributes
  <2>1. PICK b \in Active, p \in Person : rows' = [rows EXCEPT ![b].author = p]
    BY <1>5 DEF Attributes
  <2>2. [rows[b] EXCEPT !.author = p].removed = rows[b].removed
    BY <1>1 DEF Row, Active
  <2> QED  BY <1>1, <2>1, <2>2 DEF Typed, Ids, Active
<1>6. CASE Ages
  <2>1. i \in Ids
    BY <1>6 DEF Ages, Ids
  <2>2. rows[i].removed \in 0 .. Window => rows[i].removed # Never
    BY BoundsAssumption DEF Never
  <2> QED  BY <1>6, <2>1, <2>2 DEF Ages
<1> QED  BY <1>2, <1>3, <1>4, <1>5, <1>6 DEF Renumbers

LEMMA RemoveLands ==
    ASSUME Typed, Landed, NEW b \in Ids, Remove(b)
    PROVE  Landed'
<1> DEFINE m == [type |-> "removed", id |-> b, cleared |-> FALSE]
<1>1. /\ rows' = [rows EXCEPT ![b].removed = 0]
      /\ unsent' = Append(unsent, m)
      /\ overtaken' = overtaken \cup {o \in opening : o[2] = b}
      /\ landing' = landing /\ opening' = opening
  BY DEF Remove, Publishes
<1>2. Ids = 1 .. Len(rows) /\ Len(rows) \in Nat /\ Ids' = Ids
  BY <1>1 DEF Typed, Ids
<1>3. (\E S : unsent' \in Seq(S)) /\ \A i : Awaited(i) => Awaited(i)'
  BY <1>1, MoreUnsent DEF Landed
<1>4. Awaited(b)'
  <2>1. PICK S : unsent \in Seq(S)
    BY DEF Landed
  <2>2. Len(unsent) + 1 \in DOMAIN unsent' /\ unsent'[Len(unsent) + 1] = m
    BY <1>1, <2>1
  <2> QED  BY <2>2 DEF Awaited, Clearing
<1>5. ASSUME NEW i \in Ids, NEW p \in Person, rows'[i].removed # Never
      PROVE  /\ <<p, i>> \in opening' => <<p, i>> \in overtaken'
             /\ landing'[p] = i => <<p, i>> \in overtaken' \/ Awaited(i)'
  <2>1. CASE i = b
    BY <1>1, <1>4, <2>1
  <2>2. CASE i # b
    <3>1. rows'[i] = rows[i]
      BY <1>1, <1>2, <2>2 DEF Typed
    <3> QED  BY <1>1, <1>3, <1>5, <3>1 DEF Landed
  <2> QED  BY <2>1, <2>2
<1> QED  BY <1>1, <1>2, <1>3, <1>5 DEF Landed

LEMMA ClearedLands ==
    ASSUME Typed, Landed, NEW n \in DOMAIN unsent, Cleared(n)
    PROVE  Landed'
<1> DEFINE b == unsent[n].id
<1>1. /\ landing' = [p \in Person |-> IF landing[p] = b THEN 0 ELSE landing[p]]
      /\ UNCHANGED <<rows, opening, overtaken>>
  BY DEF Cleared
<1>2. (\E S : unsent' \in Seq(S)) /\ \A i : Awaited(i) /\ i # b => Awaited(i)'
  BY ClearedUnsent DEF Landed
<1> HIDE DEF b
<1>3. landing' \in [Person -> Nat]
  BY <1>1 DEF Landed
<1>4. Ids' = Ids /\ \A i \in Ids : i # 0
  BY <1>1 DEF Typed, Ids
<1>5. ASSUME NEW i \in Ids, NEW p \in Person, landing'[p] = i
      PROVE  landing[p] = i /\ i # b
  BY <1>1, <1>4, <1>5
<1> QED  BY <1>1, <1>2, <1>3, <1>4, <1>5 DEF Landed

LEMMA OpenLands ==
    ASSUME Typed, Landed, NEW b \in Ids, NEW q \in Person, Open(q, b) \/ OpenDone(q, b)
    PROVE  Landed'
<1>1. UNCHANGED <<rows, unsent, overtaken>> /\ b \in Nat
  BY DEF Open, OpenDone, Typed, Ids
<1>2. Ids' = Ids /\ \A i : Awaited(i)' <=> Awaited(i)
  BY <1>1 DEF Ids, Awaited, Clearing
<1>3. CASE Open(q, b)
  <2>1. /\ rows[b].removed = Never /\ opening' = opening \cup {<<q, b>>}
        /\ landing' = landing
    BY <1>3 DEF Open, Active
  <2>2. opening' \subseteq Person \X Nat
    BY <1>1, <2>1 DEF Landed
  <2> QED  BY <1>1, <1>2, <2>1, <2>2 DEF Landed
<1>4. CASE OpenDone(q, b)
  <2>1. /\ <<q, b>> \in opening /\ opening' = opening \ {<<q, b>>}
        /\ landing' = [landing EXCEPT ![q] = b]
    BY <1>4 DEF OpenDone
  <2>2. rows[b].removed # Never => <<q, b>> \in overtaken
    BY <2>1 DEF Landed
  <2>3. /\ landing' \in [Person -> Nat]
        /\ \A p \in Person : landing'[p] = IF p = q THEN b ELSE landing[p]
    BY <1>1, <2>1 DEF Landed
  <2> QED  BY <1>1, <1>2, <2>1, <2>2, <2>3 DEF Landed
<1> QED  BY <1>3, <1>4

LEMMA StepLands ==
    ASSUME Typed, Landed, [Next]_vars
    PROVE  Landed'
<1>1. ASSUME NEW i \in Ids, Remove(i)  PROVE Landed'
  BY <1>1, RemoveLands
<1>2. ASSUME NEW i \in Ids, NEW p \in Person, Open(p, i) \/ OpenDone(p, i)  PROVE Landed'
  BY <1>2, OpenLands
<1>3. ASSUME UNCHANGED <<landing, opening, overtaken>>,
             UNCHANGED unsent \/ \E m : unsent' = Append(unsent, m),
             UNCHANGED rows \/ Imports \/ Renumbers \/ Attributes \/ Ages
      PROVE  Landed'
  <2>1. \A i \in Ids' : rows'[i].removed # Never => i \in Ids /\ rows[i].removed # Never
    BY <1>3, StillRemoved DEF Ids
  <2>2. (\E S : unsent' \in Seq(S)) /\ \A i : Awaited(i) => Awaited(i)'
    BY <1>3, MoreUnsent DEF Landed
  <2> QED  BY <1>3, <2>1, <2>2, LandedStays
<1>4. ASSUME NEW n \in DOMAIN unsent, Cleared(n)  PROVE Landed'
  BY <1>4, ClearedLands
<1>5. CASE UNCHANGED vars
  BY <1>3, <1>5 DEF vars
<1>6. ASSUME NEW n \in DOMAIN unsent, Publish(n)  PROVE Landed'
  <2>1. UNCHANGED <<landing, opening, overtaken, rows>>
    BY <1>6 DEF Publish
  <2>2. (\E S : unsent' \in Seq(S)) /\ \A i : Awaited(i) => Awaited(i)'
    BY <1>6, LessUnsent DEF Landed
  <2>3. \A i \in Ids' : rows'[i].removed # Never => i \in Ids /\ rows[i].removed # Never
    BY <2>1 DEF Ids
  <2> QED  BY <2>1, <2>2, <2>3, LandedStays
<1>7. CASE Snapshot
  BY <1>3, <1>7 DEF Snapshot
<1>8. CASE Tick
  BY <1>3, <1>8 DEF Tick, Ages
<1>9. ASSUME NEW read \in Batches, Preview(read)  PROVE Landed'
  BY <1>3, <1>9 DEF Preview
<1>10. ASSUME NEW read \in Batches, NEW p \in Person, Add(read, p)  PROVE Landed'
  <2>1. PICK hands \in Planned(read) : Insert(hands, p)
    BY <1>10 DEF Add
  <2>2. Imports
    BY <2>1, BatchesAreSequences DEF Imports
  <2> QED  BY <1>3, <2>1, <2>2 DEF Insert, Publishes
<1>11. ASSUME NEW kept \in previews, NEW more \in previews \cup {<<>>}, NEW p \in Person,
              Confirm(kept, more, p)
       PROVE  Landed'
  <2>1. PICK hands \in Planned(kept \o more) :
          Insert(hands, p) \/ UNCHANGED <<rows, landing, opening, unsent, overtaken>>
    BY <1>11 DEF Confirm
  <2>2. kept \o more \in Seq(Hand)
    <3>1. previews \subseteq Seq(Hand) /\ <<>> \in Seq(Hand)
      BY DEF Typed
    <3>2. kept \in Seq(Hand) /\ more \in Seq(Hand)
      BY <3>1, Zenon
    <3> QED
      BY <3>2
  <2>3. CASE Insert(hands, p)
    <3>1. Imports
      BY <2>2, <2>3 DEF Imports
    <3> QED  BY <1>3, <2>3, <3>1 DEF Insert, Publishes
  <2> QED  BY <1>3, <2>1, <2>3
<1>12. ASSUME NEW order \in Orders(Active), Reorder(order)  PROVE Landed'
  <2>1. Renumbers
    BY <1>12 DEF Reorder, Renumbers
  <2> QED  BY <1>3, <1>12, <2>1 DEF Reorder, Publishes
<1>13. ASSUME NEW i \in Ids, NEW order \in Orders(Active \cup {i}), Undo(i, order)
       PROVE  Landed'
  <2>1. Renumbers
    BY <1>13 DEF Undo, TakesBack, Command, Renumbers
  <2> QED  BY <1>3, <1>13, <2>1 DEF Undo, TakesBack, Publishes
<1>14. ASSUME NEW i \in Ids, NEW p \in Person, ReassignAuthor(i, p)  PROVE Landed'
  <2>1. Attributes
    BY <1>14 DEF ReassignAuthor, Attributes
  <2> QED  BY <1>3, <1>14, <2>1 DEF ReassignAuthor, Publishes
<1> QED
  BY <1>1, <1>2, <1>4, <1>5, <1>6, <1>7, <1>8, <1>9, <1>10, <1>11, <1>12, <1>13, <1>14, Zenon
  DEF Next

(* Once an Entry is removed and everyone on it cleared, nobody is on it    *)
(* but who was opening it as it was removed (queue.service.ts remove,      *)
(* rooms.service.ts openHand), however often it is taken back and removed. *)
THEOREM NobodyStays == Spec => []NobodyLeftOn
<1>1. Init => Typed /\ Landed
  <2> SUFFICES ASSUME Init  PROVE Landed
    BY InitTyped
  <2>1. Ids \subseteq Nat \ {0}
    BY InitTyped DEF Typed, Ids
  <2>2. unsent \in Seq({})
    BY DEF Init
  <2> QED  BY <2>1, <2>2 DEF Init, Landed
<1>2. Typed /\ Landed /\ [Next]_vars => Typed' /\ Landed'
  BY StepTyped, StepLands
<1>3. Landed => NobodyLeftOn
  BY DEF Landed, NobodyLeftOn, Awaited
<1> QED
  BY <1>1, <1>2, <1>3, PTL DEF Spec

-----------------------------------------------------------------------------
(***************************************************************************)
(* The import dialog. An item being read waits for one request and no      *)
(* other, and requests of a dialog gone concern nothing of the one there   *)
(* is: so what an item shows is the last reading asked for it, and what    *)
(* can be confirmed is kept, gone with the hour, or being confirmed.       *)
(***************************************************************************)

(* What is read of a text, an item of the batch and a request.             *)
IsPreview(p) ==
    p = [id |-> p.id, format |-> p.format, hands |-> p.hands, discarded |-> p.discarded]
IsItem(item) ==
    /\ item = [key |-> item.key, text |-> item.text, preview |-> item.preview, shown |-> item.shown,
               state |-> item.state, asked |-> item.asked]
    /\ item.key \in 1 .. dialog.nextKey /\ item.asked \in 0 .. sent.asked
    /\ item.state \in {"reading", "read", "failed"}
    /\ item.state # "reading" => item.shown = item.asked
    /\ item.state = "read" => IsPreview(item.preview) /\ item.preview.id = item.asked /\ item.asked # 0
IsCall(c) ==
    /\ c = [id |-> c.id, from |-> c.from, what |-> c.what, key |-> c.key, with |-> c.with,
            status |-> c.status, reply |-> c.reply]
    /\ c.id \in 1 .. sent.asked /\ c.from \in 0 .. dialog.number
    /\ (c.what = "read" /\ c.status = "answered") => IsPreview(c.reply) /\ c.reply.id = c.id

ImportShapes ==
    /\ dialog = [open |-> dialog.open, number |-> dialog.number, nextKey |-> dialog.nextKey,
                 confirming |-> dialog.confirming, failed |-> dialog.failed, discardedOf |-> dialog.discardedOf]
    /\ dialog.number \in Nat /\ dialog.nextKey \in Nat /\ dialog.open \in BOOLEAN /\ dialog.confirming \in BOOLEAN
    /\ sent = [calls |-> sent.calls, asked |-> sent.asked] /\ sent.asked \in Nat
    /\ claims = [claiming |-> claims.claiming, claimed |-> claims.claimed, failed |-> claims.failed, known |-> claims.known]
    /\ server = [names |-> server.names, previews |-> server.previews, queue |-> server.queue, texts |-> server.texts]
    /\ page = [outcome |-> page.outcome, fetched |-> page.fetched]
    /\ imports = [names |-> imports.names, crossed |-> imports.crossed, gone |-> imports.gone,
                  untold |-> imports.untold, added |-> imports.added, failed |-> imports.failed]
    /\ items \in Seq(SetOf(items))
    /\ ~dialog.open => items = <<>>

(* Requests of a kind sent from the dialog there is, open or not.          *)
Ours(what) == {c \in sent.calls : c.what = what /\ c.from = dialog.number}

ImportCalls ==
    /\ \A c \in sent.calls : IsCall(c)
    /\ \A c, d \in sent.calls : c.id = d.id => c = d
    /\ \A c \in Ours("read") : c.key \in 1 .. dialog.nextKey

BatchSound ==
    /\ \A k \in DOMAIN items : IsItem(items[k])
    /\ \A j, k \in DOMAIN items : items[j].key = items[k].key => j = k
    /\ \A k \in DOMAIN items, c \in Ours("read") :
          c.key = items[k].key => items[k].state = "reading" /\ c.id = items[k].asked
    /\ \A k \in DOMAIN items : items[k].state = "reading" => \E c \in Ours("read") : c.key = items[k].key

(* A name once added is in every list sent and kept since, and one claim   *)
(* at most is under way, unless a dialog was opened while one was.         *)
NamesSound ==
    imports.crossed \/
        /\ imports.names \subseteq claims.known /\ imports.names \subseteq server.names
        /\ \A c \in sent.calls : c.what = "claim" =>
              /\ c.from = dialog.number
              /\ imports.names \subseteq c.with.names /\ c.with.hero \in c.with.names
              /\ c.status = "answered" => server.names = c.with.names
              /\ dialog.open => claims.claiming # None
              /\ \A d \in sent.calls : d.what = "claim" => d = c

(* The previews taken by a confirmation of this dialog not yet answered.   *)
BeingConfirmed == UNION {SetOf(c.with.ids) : c \in {d \in Ours("confirm") : Answered(d, "confirm")}}
KeptOrGone == KeptIds \cup imports.gone \cup BeingConfirmed
ConfirmsSound ==
    /\ dialog.open => \A c \in Ours("confirm") : dialog.confirming
    /\ \A c, d \in Ours("confirm") : c = d
    /\ PreviewIds \subseteq KeptOrGone
    /\ dialog.open => \A c \in Ours("read") : c.status = "answered" => c.id \in KeptOrGone
    /\ \A d \in sent.calls : d.what = "confirm" =>
          /\ SetOf(d.with.ids) \subseteq 1 .. sent.asked
          /\ d.from # dialog.number => /\ \A k \in DOMAIN items : items[k].asked \notin SetOf(d.with.ids)
                                       /\ \A c \in Ours("read") : c.id \notin SetOf(d.with.ids)

ImportInv ==
    /\ ImportShapes /\ ImportCalls /\ BatchSound /\ DiscardsAreRead
    /\ NamesSound /\ ConfirmsSound /\ TextsAreTold

-----------------------------------------------------------------------------
(* Sequences written as functions, and what the steps make of requests.    *)

LEMMA AsSequence ==
    ASSUME NEW f, NEW n \in Nat, f = [k \in 1 .. n |-> f[k]]
    PROVE  f \in Seq(SetOf(f)) /\ DOMAIN f = 1 .. n /\ Len(f) = n
<1>1. DOMAIN f = 1 .. n
  OBVIOUS
<1>2. f \in [1 .. n -> SetOf(f)]
  BY <1>1 DEF SetOf
<1>3. f \in Seq(SetOf(f))
  BY <1>2
<1> QED
  BY <1>1, <1>3

LEMMA OwnSequence ==
    ASSUME NEW S, NEW f \in Seq(S)
    PROVE  f \in Seq(SetOf(f))
<1>1. f \in [1 .. Len(f) -> S] /\ Len(f) \in Nat
  OBVIOUS
<1>2. f \in [1 .. Len(f) -> SetOf(f)]
  BY <1>1 DEF SetOf
<1> QED
  BY <1>1, <1>2

LEMMA BatchIndices ==
    ASSUME ImportShapes
    PROVE  Len(items) \in Nat /\ DOMAIN items = 1 .. Len(items)
  BY DEF ImportShapes

LEMMA Concatenated ==
    ASSUME NEW s, NEW t, s \in Seq(SetOf(s)), t \in Seq(SetOf(t))
    PROVE  /\ s \o t \in Seq(SetOf(s \o t))
           /\ DOMAIN (s \o t) = 1 .. (Len(s) + Len(t))
           /\ \A k \in 1 .. Len(s) : (s \o t)[k] = s[k]
           /\ \A k \in 1 .. Len(t) : (s \o t)[Len(s) + k] = t[k]
<1> DEFINE S == SetOf(s) \cup SetOf(t)
<1>1. s \in Seq(S) /\ t \in Seq(S) /\ Len(s) \in Nat /\ Len(t) \in Nat
  OBVIOUS
<1> HIDE DEF S
<1>2. s \o t \in Seq(S) /\ Len(s \o t) = Len(s) + Len(t)
  BY <1>1
<1>3. DOMAIN (s \o t) = 1 .. (Len(s) + Len(t))
  BY <1>1, <1>2
<1>4. \A k \in 1 .. Len(s) : (s \o t)[k] = s[k]
  BY <1>1
<1>5. \A k \in 1 .. Len(t) : (s \o t)[Len(s) + k] = t[k]
  <2>1. \A i \in 1 .. (Len(s) + Len(t)) : (s \o t)[i] = IF i <= Len(s) THEN s[i] ELSE t[i - Len(s)]
    BY <1>1, ConcatProperties
  <2>2. \A k \in 1 .. Len(t) : Len(s) + k \in 1 .. (Len(s) + Len(t)) /\ ~(Len(s) + k <= Len(s)) /\ Len(s) + k - Len(s) = k
    BY <1>1
  <2> QED
    BY <2>1, <2>2
<1>6. s \o t \in Seq(SetOf(s \o t))
  BY <1>2, OwnSequence
<1> QED
  BY <1>3, <1>4, <1>5, <1>6

(* A preview answered to a reading is one.                                 *)
LEMMA PreviewedIsPreview ==
    ASSUME NEW c
    PROVE  IsPreview(Previewed(c)) /\ Previewed(c).id = c.id
  BY DEF IsPreview, Previewed

(* Nothing about the requests and the batch changes with what is neither.  *)
LEMMA RequestsFrame ==
    ASSUME ImportCalls, BatchSound, UNCHANGED <<items, sent>>, dialog'.number = dialog.number, dialog'.nextKey = dialog.nextKey
    PROVE  ImportCalls' /\ BatchSound' /\ \A what : Ours(what)' = Ours(what)
<1>1. \A what : Ours(what)' = Ours(what)
  BY DEF Ours
<1>2. \A c : IsCall(c)' <=> IsCall(c)
  BY DEF IsCall, IsPreview
<1>3. \A item : IsItem(item)' <=> IsItem(item)
  BY DEF IsItem, IsPreview
<1>4. ImportCalls'
  BY <1>1, <1>2 DEF ImportCalls
<1>5. BatchSound'
  BY <1>1, <1>3 DEF BatchSound
<1> QED
  BY <1>1, <1>4, <1>5

LEMMA ConfirmsFrame ==
    ASSUME ConfirmsSound, UNCHANGED <<items, sent, server>>, \A what : Ours(what)' = Ours(what),
           dialog'.number = dialog.number, dialog'.open = dialog.open, dialog'.confirming = dialog.confirming,
           imports.gone \subseteq imports'.gone
    PROVE  ConfirmsSound'
<1>1. KeptIds' = KeptIds /\ BeingConfirmed' = BeingConfirmed /\ PreviewIds' = PreviewIds
  BY DEF KeptIds, BeingConfirmed, Answered, PreviewIds, Ready, IsRead
<1>2. KeptOrGone \subseteq KeptOrGone'
  BY <1>1 DEF KeptOrGone
<1> QED
  BY <1>1, <1>2 DEF ConfirmsSound

LEMMA NamesFrame ==
    ASSUME NamesSound, UNCHANGED sent, server'.names = server.names, dialog'.number = dialog.number, dialog'.open = dialog.open,
           claims'.known = claims.known, claims'.claiming = claims.claiming,
           imports'.names = imports.names, imports'.crossed = imports.crossed
    PROVE  NamesSound'
  BY DEF NamesSound

-----------------------------------------------------------------------------
(* What neither sends nor takes anything.                                  *)

LEMMA ShapesFrame ==
    ASSUME ImportShapes, UNCHANGED <<items, sent, claims, server>>,
           dialog' = dialog \/ \E key : dialog' = [dialog EXCEPT !.discardedOf = key],
           page' = page \/ (\E f : page' = [page EXCEPT !.fetched = f]) \/ (\E o : page' = [page EXCEPT !.outcome = o]),
           imports' = imports
    PROVE  ImportShapes' /\ dialog'.number = dialog.number /\ dialog'.nextKey = dialog.nextKey
              /\ dialog'.open = dialog.open /\ dialog'.confirming = dialog.confirming
<1>1. /\ dialog' = [open |-> dialog.open, number |-> dialog.number, nextKey |-> dialog.nextKey,
                    confirming |-> dialog.confirming, failed |-> dialog.failed, discardedOf |-> dialog'.discardedOf]
  BY DEF ImportShapes
<1>2. page' = [outcome |-> page'.outcome, fetched |-> page'.fetched]
  BY DEF ImportShapes
<1> QED
  BY <1>1, <1>2 DEF ImportShapes

LEMMA ShowDiscardedSound ==
    ASSUME ImportInv, NEW k \in DOMAIN items, ShowDiscarded(k)
    PROVE  ImportInv'
<1>1. /\ UNCHANGED <<items, claims, sent, server, page, imports>>
      /\ dialog' = [dialog EXCEPT !.discardedOf = items[k].key] /\ IsRead(items[k])
  BY DEF ShowDiscarded
<1>2. ImportShapes' /\ dialog'.number = dialog.number /\ dialog'.nextKey = dialog.nextKey
         /\ dialog'.open = dialog.open /\ dialog'.confirming = dialog.confirming
  BY <1>1, ShapesFrame DEF ImportInv
<1>3. ImportCalls' /\ BatchSound' /\ \A what : Ours(what)' = Ours(what)
  BY <1>1, <1>2, RequestsFrame DEF ImportInv
<1>4. ConfirmsSound'
  BY <1>1, <1>2, <1>3, ConfirmsFrame DEF ImportInv
<1>5. NamesSound'
  BY <1>1, <1>2, NamesFrame DEF ImportInv
<1>6. dialog'.discardedOf = items[k].key
  BY <1>1 DEF ImportInv, ImportShapes
<1>7. DiscardsAreRead'
  BY <1>1, <1>6 DEF DiscardsAreRead, IsRead
<1>8. TextsAreTold'
  BY <1>1 DEF ImportInv, TextsAreTold, Outdated, Answered
<1> QED
  BY <1>2, <1>3, <1>4, <1>5, <1>7, <1>8 DEF ImportInv

LEMMA BackFromDiscardedSound ==
    ASSUME ImportInv, BackFromDiscarded
    PROVE  ImportInv'
<1>1. UNCHANGED <<items, claims, sent, server, page, imports>> /\ dialog' = [dialog EXCEPT !.discardedOf = None]
  BY DEF BackFromDiscarded
<1>2. ImportShapes' /\ dialog'.number = dialog.number /\ dialog'.nextKey = dialog.nextKey
         /\ dialog'.open = dialog.open /\ dialog'.confirming = dialog.confirming
  BY <1>1, ShapesFrame DEF ImportInv
<1>3. ImportCalls' /\ BatchSound' /\ \A what : Ours(what)' = Ours(what)
  BY <1>1, <1>2, RequestsFrame DEF ImportInv
<1>4. ConfirmsSound'
  BY <1>1, <1>2, <1>3, ConfirmsFrame DEF ImportInv
<1>5. NamesSound'
  BY <1>1, <1>2, NamesFrame DEF ImportInv
<1>6. DiscardsAreRead'
  BY <1>1 DEF DiscardsAreRead, ImportInv, ImportShapes
<1>7. TextsAreTold'
  BY <1>1 DEF ImportInv, TextsAreTold, Outdated, Answered
<1> QED
  BY <1>2, <1>3, <1>4, <1>5, <1>6, <1>7 DEF ImportInv

LEMMA OutcomePassesSound ==
    ASSUME ImportInv, OutcomePasses
    PROVE  ImportInv'
<1>1. UNCHANGED <<dialog, items, claims, sent, server, imports>> /\ page' = [page EXCEPT !.outcome = None]
  BY DEF OutcomePasses, Reports
<1>2. ImportShapes' /\ dialog'.number = dialog.number /\ dialog'.nextKey = dialog.nextKey
         /\ dialog'.open = dialog.open /\ dialog'.confirming = dialog.confirming
  BY <1>1, ShapesFrame DEF ImportInv
<1>3. ImportCalls' /\ BatchSound' /\ \A what : Ours(what)' = Ours(what)
  BY <1>1, <1>2, RequestsFrame DEF ImportInv
<1>4. ConfirmsSound'
  BY <1>1, <1>2, <1>3, ConfirmsFrame DEF ImportInv
<1>5. NamesSound'
  BY <1>1, <1>2, NamesFrame DEF ImportInv
<1>6. DiscardsAreRead'
  BY <1>1 DEF DiscardsAreRead, ImportInv, IsRead
<1>7. page'.fetched = page.fetched
  BY <1>1 DEF ImportInv, ImportShapes
<1>8. TextsAreTold'
  BY <1>1, <1>7 DEF ImportInv, TextsAreTold, Outdated, Answered
<1> QED
  BY <1>2, <1>3, <1>4, <1>5, <1>6, <1>8 DEF ImportInv

(* A Hand fetched now comes with the text there is by now.                 *)
LEMMA FetchHandOfSound ==
    ASSUME ImportInv, NEW k \in DOMAIN Before, FetchHandOf(k)
    PROVE  ImportInv'
<1> DEFINE h == Before[k]
           f == page.fetched \cup {[hand |-> h, text |-> h \in server.texts]}
<1>1. UNCHANGED <<dialog, items, claims, sent, server, imports>> /\ page' = [page EXCEPT !.fetched = f]
  BY DEF FetchHandOf
<1>2. ImportShapes' /\ dialog'.number = dialog.number /\ dialog'.nextKey = dialog.nextKey
         /\ dialog'.open = dialog.open /\ dialog'.confirming = dialog.confirming
  BY <1>1, ShapesFrame DEF ImportInv
<1>3. ImportCalls' /\ BatchSound' /\ \A what : Ours(what)' = Ours(what)
  BY <1>1, <1>2, RequestsFrame DEF ImportInv
<1>4. ConfirmsSound'
  BY <1>1, <1>2, <1>3, ConfirmsFrame DEF ImportInv
<1>5. NamesSound'
  BY <1>1, <1>2, NamesFrame DEF ImportInv
<1>6. DiscardsAreRead'
  BY <1>1 DEF DiscardsAreRead, ImportInv, IsRead
<1>7. page'.fetched = f
  BY <1>1 DEF ImportInv, ImportShapes
<1>8. server'.texts = server.texts
  BY <1>1
<1>9. Outdated' => Outdated
  <2> SUFFICES ASSUME NEW x \in page'.fetched, ~x.text, x.hand \in server'.texts
               PROVE  Outdated
    BY DEF Outdated
  <2>1. CASE x \in page.fetched
    BY <1>8, <2>1 DEF Outdated
  <2>2. CASE x = [hand |-> h, text |-> h \in server.texts]
    <3>1. x.hand = h /\ x.text = (h \in server.texts)
      BY <2>2
    <3>2. h \notin server.texts
      BY <3>1, Zenon
    <3> QED
      BY <1>8, <3>1, <3>2
  <2> QED
    BY <1>7, <2>1, <2>2
<1>10. TextsAreTold'
  BY <1>1, <1>9 DEF ImportInv, TextsAreTold, Answered
<1> QED
  BY <1>2, <1>3, <1>4, <1>5, <1>6, <1>10 DEF ImportInv

(* A preview an hour old is gone.                                          *)
LEMMA HourPassesSound ==
    ASSUME ImportInv, HourPasses
    PROVE  ImportInv'
<1>1. PICK old \in SUBSET server.previews :
          /\ server' = [server EXCEPT !.previews = @ \ old]
          /\ imports' = [imports EXCEPT !.failed = @ + 1, !.gone = @ \cup {p.id : p \in old}]
          /\ UNCHANGED <<dialog, items, claims, sent, page>>
  BY DEF HourPasses
<1>2. /\ server' = [names |-> server.names, previews |-> server.previews \ old, queue |-> server.queue, texts |-> server.texts]
      /\ imports' = [names |-> imports.names, crossed |-> imports.crossed, gone |-> imports.gone \cup {p.id : p \in old},
                     untold |-> imports.untold, added |-> imports.added, failed |-> imports.failed + 1]
  BY <1>1 DEF ImportInv, ImportShapes
<1>3. ImportShapes'
  BY <1>1, <1>2 DEF ImportInv, ImportShapes
<1>4. ImportCalls' /\ BatchSound' /\ \A what : Ours(what)' = Ours(what)
  BY <1>1, RequestsFrame DEF ImportInv
<1>5. NamesSound'
  BY <1>1, <1>2, NamesFrame DEF ImportInv
<1>6. DiscardsAreRead'
  BY <1>1 DEF DiscardsAreRead, ImportInv, IsRead
<1>7. TextsAreTold'
  <2>1. imports'.untold = imports.untold /\ server'.texts = server.texts
    BY <1>2
  <2> QED
    BY <1>1, <2>1 DEF ImportInv, TextsAreTold, Outdated, Answered
<1>8. KeptIds \subseteq KeptIds' \cup imports'.gone /\ imports.gone \subseteq imports'.gone
  <2>1. server'.previews = server.previews \ old /\ imports'.gone = imports.gone \cup {p.id : p \in old}
    BY <1>2
  <2> QED
    BY <2>1 DEF KeptIds
<1>9. BeingConfirmed' = BeingConfirmed /\ PreviewIds' = PreviewIds
  BY <1>1, <1>4 DEF BeingConfirmed, Answered, PreviewIds, Ready, IsRead
<1>10. KeptOrGone \subseteq KeptOrGone'
  BY <1>8, <1>9 DEF KeptOrGone
<1>11. ConfirmsSound'
  BY <1>1, <1>4, <1>9, <1>10 DEF ImportInv, ConfirmsSound
<1> QED
  BY <1>3, <1>4, <1>5, <1>6, <1>7, <1>11 DEF ImportInv

-----------------------------------------------------------------------------
(* The batch put away, or one of it.                                       *)

LEMMA NoItems ==
    ASSUME items' = <<>>
    PROVE  items' \in Seq(SetOf(items)') /\ DOMAIN items' = {} /\ PreviewIds' = {}
<1>1. DOMAIN items' = {}
  BY DEF SetOf
<1>2. items' \in Seq(SetOf(items)')
  OBVIOUS
<1> QED
  BY <1>1, <1>2 DEF PreviewIds

(* A dialog opened anew: what was sent before is not of it.                *)
LEMMA OpenDialogSound ==
    ASSUME ImportInv, OpenDialog
    PROVE  ImportInv'
<1>1. /\ dialog' = [open |-> TRUE, number |-> dialog.number + 1, nextKey |-> 0, confirming |-> FALSE, failed |-> FALSE,
                    discardedOf |-> None]
      /\ items' = <<>> /\ UNCHANGED <<sent, server, page>>
  BY DEF OpenDialog
<1>2. /\ claims' = [claiming |-> None, claimed |-> None, failed |-> FALSE, known |-> claims.known]
      /\ imports' = [names |-> imports.names, crossed |-> imports.crossed \/ Waited("claim"), gone |-> imports.gone,
                     untold |-> imports.untold, added |-> imports.added, failed |-> imports.failed]
  BY DEF OpenDialog, ImportInv, ImportShapes
<1>3. DOMAIN items' = {} /\ PreviewIds' = {} /\ items' \in Seq(SetOf(items)')
  BY <1>1, NoItems
<1>4. ImportShapes'
  BY <1>1, <1>2, <1>3 DEF ImportInv, ImportShapes
<1>5. dialog'.number = dialog.number + 1 /\ dialog.number \in Nat /\ dialog'.open /\ dialog'.nextKey = 0 /\ ~dialog'.confirming
  BY <1>1 DEF ImportInv, ImportShapes
<1>6. \A c \in sent.calls : IsCall(c) /\ c.from \in 0 .. dialog.number
  BY DEF ImportInv, ImportCalls, IsCall
<1>7. \A what, c : c \notin Ours(what)'
  <2>1. \A c \in sent.calls : c.from # dialog'.number
    BY <1>5, <1>6
  <2>2. sent'.calls = sent.calls
    BY <1>1
  <2>3. ASSUME NEW what, NEW c \in Ours(what)' PROVE FALSE
    <3>1. c \in sent'.calls /\ c.from = dialog'.number
      BY DEF Ours
    <3> QED
      BY <2>1, <2>2, <3>1
  <2> QED
    BY <2>3 DEF Ours
<1>8. \A c \in sent.calls : IsCall(c)'
  <2> TAKE c \in sent.calls
  <2>1. c.from \in 0 .. dialog'.number
    BY <1>5, <1>6
  <2> QED
    BY <1>1, <1>6, <2>1 DEF IsCall, IsPreview
<1>9. ImportCalls'
  BY <1>1, <1>7, <1>8 DEF ImportInv, ImportCalls
<1>10. BatchSound'
  BY <1>3 DEF BatchSound
<1>11. DiscardsAreRead'
  BY <1>1 DEF DiscardsAreRead
<1>12. NamesSound'
  <2>1. CASE imports.crossed \/ Waited("claim")
    BY <1>2, <2>1 DEF NamesSound
  <2>2. CASE ~(imports.crossed \/ Waited("claim"))
    <3>1. \A c \in sent.calls : c.what # "claim"
      BY <2>2 DEF Waited
    <3>2. imports'.names = imports.names /\ claims'.known = claims.known
      BY <1>2
    <3>3. imports.names \subseteq claims.known /\ imports.names \subseteq server.names
      BY <2>2 DEF ImportInv, NamesSound
    <3> QED
      BY <1>1, <3>1, <3>2, <3>3 DEF NamesSound
  <2> QED
    BY <2>1, <2>2
<1>13. ConfirmsSound'
  <2>1. \A d \in sent.calls : d.what = "confirm" => SetOf(d.with.ids) \subseteq 1 .. sent.asked
    BY DEF ImportInv, ConfirmsSound
  <2> QED
    BY <1>1, <1>3, <1>7, <2>1 DEF ConfirmsSound
<1>14. TextsAreTold'
  <2>1. imports'.untold = imports.untold
    BY <1>2
  <2> QED
    BY <1>1, <2>1 DEF ImportInv, TextsAreTold, Outdated, Answered
<1> QED
  BY <1>4, <1>9, <1>10, <1>11, <1>12, <1>13, <1>14 DEF ImportInv

(* Closed, nothing of the batch is left.                                   *)
LEMMA ClosedSound ==
    ASSUME ImportInv, UNCHANGED <<sent, server, imports, claims>>, dialog' = [dialog EXCEPT !.open = FALSE], items' = <<>>
    PROVE  /\ ImportShapes' \/ page' # page
           /\ ImportCalls' /\ BatchSound' /\ DiscardsAreRead' /\ NamesSound' /\ ConfirmsSound'
<1>1. dialog' = [open |-> FALSE, number |-> dialog.number, nextKey |-> dialog.nextKey, confirming |-> dialog.confirming,
                 failed |-> dialog.failed, discardedOf |-> dialog.discardedOf]
  BY DEF ImportInv, ImportShapes
<1>2. DOMAIN items' = {} /\ PreviewIds' = {} /\ items' \in Seq(SetOf(items)')
  BY NoItems
<1>3. dialog'.number = dialog.number /\ dialog'.nextKey = dialog.nextKey /\ ~dialog'.open /\ dialog'.confirming = dialog.confirming
  BY <1>1
<1>4. ImportShapes' \/ page' # page
  BY <1>1, <1>2 DEF ImportInv, ImportShapes
<1>5. \A what : Ours(what)' = Ours(what)
  BY <1>3 DEF Ours
<1>6. \A c : IsCall(c)' <=> IsCall(c)
  BY <1>3 DEF IsCall, IsPreview
<1>7. ImportCalls'
  BY <1>3, <1>5, <1>6 DEF ImportInv, ImportCalls
<1>8. BatchSound'
  BY <1>2 DEF BatchSound
<1>9. DiscardsAreRead'
  BY <1>3 DEF DiscardsAreRead
<1>10. NamesSound'
  BY <1>3 DEF ImportInv, NamesSound
<1>11. KeptOrGone' = KeptOrGone
  BY <1>5 DEF KeptOrGone, KeptIds, BeingConfirmed, Answered
<1>12. ConfirmsSound'
  BY <1>2, <1>3, <1>5, <1>11 DEF ImportInv, ConfirmsSound
<1> QED
  BY <1>4, <1>7, <1>8, <1>9, <1>10, <1>12

LEMMA CloseDialogSound ==
    ASSUME ImportInv, CloseDialog
    PROVE  ImportInv'
<1>1. UNCHANGED <<claims, sent, server, page, imports>> /\ dialog' = [dialog EXCEPT !.open = FALSE] /\ items' = <<>>
  BY DEF CloseDialog
<1>2. ImportShapes' /\ ImportCalls' /\ BatchSound' /\ DiscardsAreRead' /\ NamesSound' /\ ConfirmsSound'
  BY <1>1, ClosedSound
<1>3. TextsAreTold'
  BY <1>1 DEF ImportInv, TextsAreTold, Outdated, Answered
<1> QED
  BY <1>2, <1>3 DEF ImportInv

(* One item fewer.                                                         *)
LEMMA RemoveItemSound ==
    ASSUME ImportInv, NEW k \in DOMAIN items, RemoveItem(k)
    PROVE  ImportInv'
<1> DEFINE from(j) == IF j < k THEN j ELSE j + 1
<1>1. /\ UNCHANGED <<claims, sent, server, page, imports>>
      /\ items' = [j \in 1 .. (Len(items) - 1) |-> IF j < k THEN items[j] ELSE items[j + 1]]
      /\ dialog' = [dialog EXCEPT !.discardedOf = PutAway(items[k].key)]
  BY DEF RemoveItem
<1>2. Len(items) \in Nat /\ DOMAIN items = 1 .. Len(items) /\ k \in 1 .. Len(items)
  BY BatchIndices DEF ImportInv
<1>3. Len(items) - 1 \in Nat /\ DOMAIN items' = 1 .. (Len(items) - 1) /\ items' \in Seq(SetOf(items)')
  <2>1. Len(items) - 1 \in Nat
    BY <1>2
  <2>2. items' = [j \in 1 .. (Len(items) - 1) |-> items'[j]]
    BY <1>1
  <2>3. items' \in Seq(SetOf(items'))
    BY <2>1, <2>2, AsSequence
  <2>4. SetOf(items)' = SetOf(items')
    BY DEF SetOf
  <2> QED
    BY <1>1, <2>1, <2>3, <2>4
<1>4. \A j \in DOMAIN items' : from(j) \in DOMAIN items /\ from(j) # k /\ items'[j] = items[from(j)]
  BY <1>1, <1>2, <1>3
<1>5. \A i, j \in DOMAIN items' : from(i) = from(j) => i = j
  BY <1>2, <1>3
<1>6. \A i \in DOMAIN items : i # k => \E j \in DOMAIN items' : from(j) = i
  <2> SUFFICES ASSUME NEW i \in DOMAIN items, i # k
               PROVE  \E j \in DOMAIN items' : from(j) = i
    OBVIOUS
  <2>1. CASE i < k
    BY <1>2, <1>3, <2>1
  <2>2. CASE i > k
    <3>1. i - 1 \in DOMAIN items' /\ from(i - 1) = i
      BY <1>2, <1>3, <2>2
    <3> QED
      BY <3>1
  <2> QED
    BY <1>2, <2>1, <2>2
<1> HIDE DEF from
<1>7. dialog' = [open |-> dialog.open, number |-> dialog.number, nextKey |-> dialog.nextKey, confirming |-> dialog.confirming,
                 failed |-> dialog.failed, discardedOf |-> PutAway(items[k].key)]
  BY <1>1 DEF ImportInv, ImportShapes
<1>8. dialog'.number = dialog.number /\ dialog'.nextKey = dialog.nextKey /\ dialog'.open = dialog.open
        /\ dialog'.confirming = dialog.confirming /\ dialog'.discardedOf = PutAway(items[k].key)
  BY <1>7
<1>9. dialog.open
  BY DEF RemoveItem
<1>10. ImportShapes'
  BY <1>1, <1>3, <1>7, <1>8, <1>9 DEF ImportInv, ImportShapes
<1>11. \A what : Ours(what)' = Ours(what)
  BY <1>1, <1>8 DEF Ours
<1>12. (\A c : IsCall(c)' <=> IsCall(c)) /\ (\A item : IsItem(item)' <=> IsItem(item))
  BY <1>1, <1>8 DEF IsCall, IsItem, IsPreview
<1>13. ImportCalls'
  BY <1>1, <1>8, <1>11, <1>12 DEF ImportInv, ImportCalls
<1>14. BatchSound'
  <2>1. \A j \in DOMAIN items' : IsItem(items[j])'
    <3> TAKE j \in DOMAIN items'
    <3>1. PICK item : item = items'[j]
      OBVIOUS
    <3>2. IsItem(item)'
      BY <1>4, <1>12, <3>1 DEF ImportInv, BatchSound
    <3> QED
      BY <3>1, <3>2
  <2>2. \A i, j \in DOMAIN items' : items'[i].key = items'[j].key => i = j
    BY <1>4, <1>5 DEF ImportInv, BatchSound
  <2>3. \A j \in DOMAIN items', c \in Ours("read") :
           c.key = items'[j].key => items'[j].state = "reading" /\ c.id = items'[j].asked
    BY <1>4 DEF ImportInv, BatchSound
  <2>4. \A j \in DOMAIN items' : items'[j].state = "reading" => \E c \in Ours("read") : c.key = items'[j].key
    BY <1>4 DEF ImportInv, BatchSound
  <2> QED
    BY <1>11, <2>1, <2>2, <2>3, <2>4 DEF BatchSound, Ours
<1>15. DiscardsAreRead'
  <2> SUFFICES ASSUME dialog'.open, dialog'.discardedOf # None
               PROVE  \E j \in DOMAIN items' : items'[j].key = dialog'.discardedOf /\ IsRead(items'[j])
    BY DEF DiscardsAreRead, IsRead
  <2>1. dialog'.discardedOf = dialog.discardedOf /\ dialog.discardedOf # items[k].key /\ dialog.discardedOf # None
    BY <1>8 DEF PutAway
  <2>2. PICK i \in DOMAIN items : items[i].key = dialog.discardedOf /\ IsRead(items[i])
    BY <1>9, <2>1 DEF ImportInv, DiscardsAreRead
  <2>3. PICK j \in DOMAIN items' : from(j) = i
    BY <1>6, <2>1, <2>2
  <2> QED
    BY <1>4, <2>1, <2>2, <2>3
<1>16. NamesSound'
  BY <1>1, <1>8, NamesFrame DEF ImportInv
<1>17. KeptOrGone' = KeptOrGone
  BY <1>1, <1>11 DEF KeptOrGone, KeptIds, BeingConfirmed, Answered
<1>18. PreviewIds' \subseteq PreviewIds
  BY <1>4 DEF PreviewIds, Ready, IsRead
<1>19. ConfirmsSound'
  <2>1. PreviewIds' \subseteq KeptOrGone'
    BY <1>17, <1>18 DEF ImportInv, ConfirmsSound
  <2>2. \A d \in sent.calls : d.what = "confirm" =>
          /\ SetOf(d.with.ids) \subseteq 1 .. sent.asked
          /\ d.from # dialog.number => /\ \A j \in DOMAIN items' : items'[j].asked \notin SetOf(d.with.ids)
                                       /\ \A c \in Ours("read") : c.id \notin SetOf(d.with.ids)
    BY <1>4 DEF ImportInv, ConfirmsSound
  <2> QED
    BY <1>1, <1>8, <1>11, <1>17, <2>1, <2>2 DEF ImportInv, ConfirmsSound
<1>20. TextsAreTold'
  BY <1>1 DEF ImportInv, TextsAreTold, Outdated, Answered
<1> QED
  BY <1>10, <1>13, <1>14, <1>15, <1>16, <1>19, <1>20 DEF ImportInv

-----------------------------------------------------------------------------
(* The server's part: a request answered is the same request.              *)

Same(d, e) == d.id = e.id /\ d.from = e.from /\ d.what = e.what /\ d.key = e.key /\ d.with = e.with

LEMMA Served ==
    ASSUME ImportInv, NEW c \in sent.calls, NEW status, NEW reply, Responds(c, status, reply),
           UNCHANGED <<dialog, items, claims, page, imports>>,
           (c.what = "read" /\ status = "answered") => IsPreview(reply) /\ reply.id = c.id,
           server' = [names |-> server'.names, previews |-> server'.previews, queue |-> server'.queue, texts |-> server'.texts]
    PROVE  /\ ImportShapes' /\ ImportCalls' /\ BatchSound' /\ DiscardsAreRead'
           /\ \E d \in sent'.calls : d.status = status /\ d.reply = reply /\ Same(d, c)
           /\ \A d \in sent'.calls : \/ d \in sent.calls /\ d # c
                                     \/ d.status = status /\ d.reply = reply /\ Same(d, c)
           /\ \A d \in sent.calls : d # c => d \in sent'.calls
           /\ sent'.asked = sent.asked
           /\ \A what : \A d \in Ours(what)' : \E e \in Ours(what) : Same(d, e)
<1>1. IsCall(c)
  BY DEF ImportInv, ImportCalls
<1> PICK d1 : d1 = [c EXCEPT !.status = status, !.reply = reply]
  OBVIOUS
<1>2. d1 = [id |-> c.id, from |-> c.from, what |-> c.what, key |-> c.key, with |-> c.with, status |-> status,
            reply |-> reply]
  BY <1>1 DEF IsCall
<1>3. d1.status = status /\ d1.reply = reply /\ Same(d1, c)
  BY <1>2 DEF Same
<1>4. sent' = [calls |-> (sent.calls \ {c}) \cup {d1}, asked |-> sent.asked]
  BY DEF Responds, ImportInv, ImportShapes
<1>5. sent'.calls = (sent.calls \ {c}) \cup {d1} /\ sent'.asked = sent.asked
  BY <1>4
<1>6. IsCall(d1)
  BY <1>1, <1>2, <1>3 DEF IsCall, Same
<1>7. \A d \in sent'.calls : \/ d \in sent.calls /\ d # c
                             \/ d.status = status /\ d.reply = reply /\ Same(d, c) /\ d = d1
  BY <1>3, <1>5
<1>8. \A d : IsCall(d)' <=> IsCall(d)
  BY <1>5 DEF IsCall, IsPreview
<1>9. \A what : \A d \in Ours(what)' : \E e \in Ours(what) : Same(d, e)
  <2> SUFFICES ASSUME NEW what, NEW d \in Ours(what)'
               PROVE  \E e \in Ours(what) : Same(d, e)
    OBVIOUS
  <2>1. d \in sent'.calls /\ d.what = what /\ d.from = dialog.number
    BY DEF Ours
  <2>2. CASE d \in sent.calls
    BY <2>1, <2>2 DEF Ours, Same
  <2>3. CASE Same(d, c)
    BY <2>1, <2>3 DEF Ours, Same
  <2> QED
    BY <1>7, <2>1, <2>2, <2>3
<1>10. \A what : \A e \in Ours(what) : \E d \in Ours(what)' : Same(d, e)
  <2> SUFFICES ASSUME NEW what, NEW e \in Ours(what)
               PROVE  \E d \in Ours(what)' : Same(d, e)
    OBVIOUS
  <2>1. e \in sent.calls /\ e.what = what /\ e.from = dialog.number
    BY DEF Ours
  <2>2. CASE e # c
    BY <1>5, <2>1, <2>2 DEF Ours, Same
  <2>3. CASE e = c
    <3>1. d1 \in Ours(what)'
      BY <1>3, <1>5, <2>1, <2>3 DEF Ours, Same
    <3> QED
      BY <1>3, <2>3, <3>1
  <2> QED
    BY <2>2, <2>3
<1>11. ImportShapes'
  BY <1>4, <1>5 DEF ImportInv, ImportShapes
<1>12. ImportCalls'
  <2>1. \A d \in sent'.calls : IsCall(d)'
    BY <1>5, <1>6, <1>8 DEF ImportInv, ImportCalls
  <2>2. ASSUME NEW d \in sent'.calls, NEW e \in sent'.calls, d.id = e.id
        PROVE  d = e
    BY <1>7, <2>2 DEF ImportInv, ImportCalls, Same
  <2>3. \A d \in Ours("read")' : d.key \in 1 .. dialog'.nextKey
    BY <1>9 DEF ImportInv, ImportCalls, Same
  <2> QED
    BY <2>1, <2>2, <2>3 DEF ImportCalls
<1>13. BatchSound'
  <2>1. \A item : IsItem(item)' <=> IsItem(item)
    BY <1>5 DEF IsItem, IsPreview
  <2>2. \A k \in DOMAIN items, d \in Ours("read")' : d.key = items[k].key => items[k].state = "reading" /\ d.id = items[k].asked
    BY <1>9 DEF ImportInv, BatchSound, Same
  <2>3. \A k \in DOMAIN items : items[k].state = "reading" => \E d \in Ours("read")' : d.key = items[k].key
    BY <1>10 DEF ImportInv, BatchSound, Same
  <2> QED
    BY <2>1, <2>2, <2>3 DEF ImportInv, BatchSound
<1>14. DiscardsAreRead'
  BY DEF ImportInv, DiscardsAreRead, IsRead
<1> QED
  BY <1>3, <1>5, <1>7, <1>9, <1>11, <1>12, <1>13, <1>14

LEMMA ServedNames ==
    ASSUME ImportInv, NEW c \in sent.calls, c.what # "claim", UNCHANGED <<dialog, claims, imports>>, server'.names = server.names,
           \A d \in sent'.calls : d \in sent.calls \/ Same(d, c)
    PROVE  NamesSound'
<1>1. CASE imports.crossed
  BY <1>1 DEF NamesSound
<1>2. CASE ~imports.crossed
  <2>1. \A d \in sent'.calls : d.what = "claim" => d \in sent.calls
    BY DEF Same
  <2> QED
    BY <1>2, <2>1 DEF ImportInv, NamesSound
<1> QED
  BY <1>1, <1>2

(* What is answered to anything but a claim is told to the page.           *)
LEMMA ServedTexts ==
    ASSUME NEW d \in sent'.calls, d.what # "claim", d.status = "answered"
    PROVE  TextsAreTold'
  BY DEF TextsAreTold, Answered

LEMMA ServeReadingSound ==
    ASSUME ImportInv, NEW c \in sent.calls, ServeReading(c)
    PROVE  ImportInv'
<1> DEFINE reply == Previewed(c)
           more == InQueue(Reading[<<c.with.text, c.with.format>>].hands)
<1>1. /\ UNCHANGED <<dialog, items, claims, page, imports>> /\ Responds(c, "answered", reply)
      /\ server' = [server EXCEPT !.previews = @ \cup {Keeps(c)}, !.texts = @ \cup more] /\ c.what = "read" /\ c.status = "asked"
  BY DEF ServeReading, Awaits, Answers
<1>2. IsPreview(reply) /\ reply.id = c.id
  BY PreviewedIsPreview
<1> HIDE DEF reply, more
<1>3. server' = [names |-> server.names, previews |-> server.previews \cup {Keeps(c)}, queue |-> server.queue,
                 texts |-> server.texts \cup more]
  BY <1>1 DEF ImportInv, ImportShapes
<1>4. server'.names = server.names /\ server'.previews = server.previews \cup {Keeps(c)}
  BY <1>3
<1>5. server' = [names |-> server'.names, previews |-> server'.previews, queue |-> server'.queue, texts |-> server'.texts]
  BY <1>3
<1>6. /\ ImportShapes' /\ ImportCalls' /\ BatchSound' /\ DiscardsAreRead'
      /\ \E d \in sent'.calls : d.status = "answered" /\ d.reply = reply /\ Same(d, c)
      /\ \A d \in sent'.calls : \/ d \in sent.calls /\ d # c
                                \/ d.status = "answered" /\ d.reply = reply /\ Same(d, c)
      /\ \A d \in sent.calls : d # c => d \in sent'.calls
      /\ sent'.asked = sent.asked
      /\ \A what : \A d \in Ours(what)' : \E e \in Ours(what) : Same(d, e)
  BY <1>1, <1>2, <1>5, Served
<1>7. NamesSound'
  BY <1>1, <1>4, <1>6, ServedNames
<1>8. TextsAreTold'
  <2>1. PICK d \in sent'.calls : d.status = "answered" /\ d.reply = reply /\ Same(d, c)
    BY <1>6
  <2> QED
    BY <1>1, <2>1, ServedTexts DEF Same
<1>9. KeptIds' = KeptIds \cup {c.id}
  <2>1. Keeps(c).id = c.id
    BY DEF Keeps
  <2> QED
    BY <1>4, <2>1 DEF KeptIds
<1>10. /\ PreviewIds' = PreviewIds
       /\ \A d : d \in sent'.calls /\ d.what = "confirm" <=> d \in sent.calls /\ d.what = "confirm"
  <2>1. PreviewIds' = PreviewIds
    BY <1>1 DEF PreviewIds, Ready, IsRead
  <2>2. \A d : d \in sent'.calls /\ d.what = "confirm" <=> d \in sent.calls /\ d.what = "confirm"
    BY <1>1, <1>6 DEF Same
  <2> QED
    BY <2>1, <2>2
<1>11. Ours("confirm")' = Ours("confirm")
  BY <1>1, <1>10 DEF Ours
<1>12. KeptOrGone' = KeptOrGone \cup {c.id}
  BY <1>1, <1>9, <1>11 DEF KeptOrGone, BeingConfirmed, Answered
<1>13. ASSUME NEW d \in Ours("read")', d.status = "answered", dialog'.open
       PROVE  d.id \in KeptOrGone'
  <2>1. CASE d \in sent.calls
    <3>1. d \in Ours("read")
      BY <1>1, <2>1 DEF Ours
    <3> QED
      BY <1>1, <1>12, <1>13, <3>1 DEF ImportInv, ConfirmsSound
  <2>2. CASE Same(d, c)
    BY <1>12, <2>2 DEF Same
  <2>3. d \in sent'.calls
    BY DEF Ours
  <2> QED
    BY <1>6, <2>1, <2>2, <2>3
<1>14. ConfirmsSound'
  <2>1. \A d \in Ours("read")' : \E e \in Ours("read") : d.id = e.id
    BY <1>6 DEF Same
  <2>2. \A d \in sent'.calls : d.what = "confirm" =>
          /\ SetOf(d.with.ids) \subseteq 1 .. sent'.asked
          /\ d.from # dialog'.number => /\ \A k \in DOMAIN items' : items'[k].asked \notin SetOf(d.with.ids)
                                        /\ \A e \in Ours("read")' : e.id \notin SetOf(d.with.ids)
    BY <1>1, <1>6, <1>10, <2>1 DEF ImportInv, ConfirmsSound
  <2> QED
    BY <1>1, <1>10, <1>11, <1>12, <1>13, <2>2 DEF ImportInv, ConfirmsSound
<1> QED
  BY <1>6, <1>7, <1>8, <1>14 DEF ImportInv

(* What was kept stays so, but for what another dialog's confirmation takes: none of it is here. *)
LEMMA ServedConfirms ==
    ASSUME ImportInv, NEW c \in sent.calls, c.what # "read", UNCHANGED <<dialog, items>>, ImportCalls', sent'.asked = sent.asked,
           \A d \in sent'.calls : (d \in sent.calls /\ d # c) \/ Same(d, c),
           \A d \in sent.calls : d # c => d \in sent'.calls,
           \A i \in KeptOrGone : \/ i \in KeptOrGone'
                                 \/ c.what = "confirm" /\ c.from # dialog.number /\ i \in SetOf(c.with.ids)
    PROVE  ConfirmsSound'
<1>1. Ours("read")' = Ours("read")
  BY DEF Ours, Same
<1>2. \A d \in Ours("confirm")' : \E e \in Ours("confirm") : Same(d, e)
  <2> SUFFICES ASSUME NEW d \in Ours("confirm")'
               PROVE  \E e \in Ours("confirm") : Same(d, e)
    OBVIOUS
  <2>1. d \in sent'.calls /\ d.what = "confirm" /\ d.from = dialog.number
    BY DEF Ours
  <2>2. CASE d \in sent.calls
    BY <2>1, <2>2 DEF Ours, Same
  <2>3. CASE Same(d, c)
    BY <2>1, <2>3 DEF Ours, Same
  <2> QED
    BY <2>1, <2>2, <2>3
<1>3. PreviewIds' = PreviewIds
  BY DEF PreviewIds, Ready, IsRead
<1>4. \A i \in PreviewIds : \E k \in DOMAIN items : items[k].asked = i
  BY DEF PreviewIds, Ready, IsRead, ImportInv, BatchSound, IsItem
<1>5. PreviewIds' \subseteq KeptOrGone'
  BY <1>3, <1>4 DEF ImportInv, ConfirmsSound
<1>6. dialog.open => \A d \in Ours("read") : d.status = "answered" => d.id \in KeptOrGone'
  BY DEF ImportInv, ConfirmsSound
<1>7. \A d, e \in Ours("confirm")' : d = e
  <2> TAKE d, e \in Ours("confirm")'
  <2>1. d.id = e.id
    BY <1>2 DEF ImportInv, ConfirmsSound, Same
  <2> QED
    BY <2>1 DEF ImportCalls, Ours
<1>8. \A d \in sent'.calls : d.what = "confirm" => \E e \in sent.calls : e.what = "confirm" /\ Same(d, e)
  BY DEF Same
<1>9. \A d \in sent'.calls : d.what = "confirm" =>
          /\ SetOf(d.with.ids) \subseteq 1 .. sent.asked
          /\ d.from # dialog.number => /\ \A k \in DOMAIN items : items[k].asked \notin SetOf(d.with.ids)
                                       /\ \A e \in Ours("read") : e.id \notin SetOf(d.with.ids)
  BY <1>8 DEF ImportInv, ConfirmsSound, Same
<1>10. dialog.open => \A d \in Ours("confirm")' : dialog.confirming
  BY <1>2 DEF ImportInv, ConfirmsSound
<1> QED
  BY <1>1, <1>5, <1>6, <1>7, <1>9, <1>10 DEF ConfirmsSound

(* What the answered confirmations of this dialog asked for stays among what is being confirmed. *)
LEMMA ServedConfirming ==
    ASSUME NEW c \in sent.calls, ~Answered(c, "confirm"), UNCHANGED dialog,
           \A d \in sent.calls : d # c => d \in sent'.calls
    PROVE  BeingConfirmed \subseteq BeingConfirmed'
<1> SUFFICES ASSUME NEW i \in BeingConfirmed
             PROVE  i \in BeingConfirmed'
  OBVIOUS
<1>1. PICK d \in Ours("confirm") : Answered(d, "confirm") /\ i \in SetOf(d.with.ids)
  BY DEF BeingConfirmed
<1>2. d \in Ours("confirm")' /\ Answered(d, "confirm")
  BY <1>1 DEF Ours
<1> QED
  BY <1>1, <1>2 DEF BeingConfirmed

LEMMA ServePasteSound ==
    ASSUME ImportInv, NEW c \in sent.calls, ServePaste(c)
    PROVE  ImportInv'
<1> DEFINE more == Reading[<<c.with.text, None>>].hands
           reply == Done(Len(Queueing(more)), Reading[<<c.with.text, None>>].discarded + Duplicates(more))
           queue == server.queue \o [k \in DOMAIN Queueing(more) |-> Queueing(more)[k].hand]
           texts == server.texts \cup {more[k].hand : k \in DOMAIN more}
<1>1. /\ UNCHANGED <<dialog, items, claims, page, imports>> /\ Responds(c, "answered", reply)
      /\ server' = [server EXCEPT !.queue = queue, !.texts = texts] /\ c.what = "paste" /\ c.status = "asked"
  BY DEF ServePaste, Awaits, Answers, Appended
<1> HIDE DEF reply, more, queue, texts
<1>2. server' = [names |-> server.names, previews |-> server.previews, queue |-> queue, texts |-> texts]
  BY <1>1 DEF ImportInv, ImportShapes
<1>3. server'.names = server.names /\ server'.previews = server.previews
  BY <1>2
<1>4. server' = [names |-> server'.names, previews |-> server'.previews, queue |-> server'.queue, texts |-> server'.texts]
  BY <1>2
<1>5. /\ ImportShapes' /\ ImportCalls' /\ BatchSound' /\ DiscardsAreRead'
      /\ \E d \in sent'.calls : d.status = "answered" /\ d.reply = reply /\ Same(d, c)
      /\ \A d \in sent'.calls : \/ d \in sent.calls /\ d # c
                                \/ d.status = "answered" /\ d.reply = reply /\ Same(d, c)
      /\ \A d \in sent.calls : d # c => d \in sent'.calls
      /\ sent'.asked = sent.asked
  BY <1>1, <1>4, Served
<1>6. NamesSound'
  BY <1>1, <1>3, <1>5, ServedNames
<1>7. TextsAreTold'
  <2>1. PICK d \in sent'.calls : d.status = "answered" /\ Same(d, c)
    BY <1>5
  <2> QED
    BY <1>1, <2>1, ServedTexts DEF Same
<1>8. KeptOrGone \subseteq KeptOrGone'
  BY <1>1, <1>3, <1>5, ServedConfirming DEF KeptOrGone, KeptIds, Answered
<1>9. ConfirmsSound'
  BY <1>1, <1>5, <1>8, ServedConfirms
<1> QED
  BY <1>5, <1>6, <1>7, <1>9 DEF ImportInv

(* What a confirmation takes is kept no longer: it is being confirmed, if it is this dialog's. *)
LEMMA ServeConfirmationSound ==
    ASSUME ImportInv, NEW c \in sent.calls, ServeConfirmation(c)
    PROVE  ImportInv'
<1> DEFINE ids == SetOf(c.with.ids)
           more == Taken(c.with.ids)
           queue == server.queue \o [k \in DOMAIN Queueing(more) |-> Queueing(more)[k].hand]
           texts == server.texts \cup {more[k].hand : k \in DOMAIN more}
<1>1. /\ UNCHANGED <<dialog, items, claims, page, imports>> /\ c.what = "confirm" /\ c.status = "asked"
  BY DEF ServeConfirmation, Awaits
<1>2. PICK status, reply :
          /\ Responds(c, status, reply)
          /\ \/ status = "answered" /\ server' = [Appended(more) EXCEPT !.previews = {p \in @ : p.id \notin ids}]
             \/ status = "refused" /\ UNCHANGED server
  BY DEF ServeConfirmation, Answers, TurnsDown
<1>3. Appended(more) = [server EXCEPT !.queue = queue, !.texts = texts]
  BY DEF Appended
<1> HIDE DEF more, queue, texts, ids
<1>4. PICK added : added = Appended(more)
  OBVIOUS
<1>5. added = [names |-> server.names, previews |-> server.previews, queue |-> queue, texts |-> texts]
  BY <1>3, <1>4 DEF ImportInv, ImportShapes
<1>6. status = "answered" => server' = [names |-> server.names, previews |-> {p \in server.previews : p.id \notin ids},
                                        queue |-> queue, texts |-> texts]
  <2>1. status = "answered" => server' = [added EXCEPT !.previews = {p \in added.previews : p.id \notin ids}]
    BY <1>2, <1>4
  <2>2. added.previews = server.previews
    BY <1>5
  <2> QED
    BY <1>5, <2>1, <2>2
<1>7. server' = [names |-> server'.names, previews |-> server'.previews, queue |-> server'.queue, texts |-> server'.texts]
  BY <1>2, <1>6 DEF ImportInv, ImportShapes
<1>8. server'.names = server.names /\ (status = "answered" => server'.previews = {p \in server.previews : p.id \notin ids})
  BY <1>2, <1>6
<1>9. /\ ImportShapes' /\ ImportCalls' /\ BatchSound' /\ DiscardsAreRead'
      /\ \E d \in sent'.calls : d.status = status /\ d.reply = reply /\ Same(d, c)
      /\ \A d \in sent'.calls : \/ d \in sent.calls /\ d # c
                                \/ d.status = status /\ d.reply = reply /\ Same(d, c)
      /\ \A d \in sent.calls : d # c => d \in sent'.calls
      /\ sent'.asked = sent.asked
  BY <1>1, <1>2, <1>7, Served
<1>10. NamesSound'
  BY <1>1, <1>8, <1>9, ServedNames
<1>11. PICK e \in sent'.calls : e.status = status /\ Same(e, c)
  BY <1>9
<1>12. TextsAreTold'
  <2>1. CASE status = "answered"
    BY <1>1, <1>11, <2>1, ServedTexts DEF Same
  <2>2. CASE status = "refused"
    <3>1. \A d \in sent.calls : Answered(d, d.what) => d \in sent'.calls
      BY <1>1, <1>9 DEF Answered
    <3> QED
      BY <1>1, <1>2, <2>2, <3>1 DEF ImportInv, TextsAreTold, Outdated, Answered
  <2> QED
    BY <1>2, <2>1, <2>2
<1>13. BeingConfirmed \subseteq BeingConfirmed'
  BY <1>1, <1>9, ServedConfirming DEF Answered
<1>14. \A i \in KeptOrGone : \/ i \in KeptOrGone'
                             \/ c.what = "confirm" /\ c.from # dialog.number /\ i \in SetOf(c.with.ids)
  <2>1. CASE status = "answered"
    <3>1. \A i \in KeptIds : i \in KeptIds' \/ i \in ids
      BY <1>8, <2>1 DEF KeptIds
    <3>2. c.from = dialog.number => ids \subseteq BeingConfirmed'
      <4>1. SUFFICES ASSUME c.from = dialog.number
                     PROVE  ids \subseteq BeingConfirmed'
        OBVIOUS
      <4>2. e \in Ours("confirm")' /\ e.what = "confirm" /\ SetOf(e.with.ids) = ids
        BY <1>1, <1>11, <4>1 DEF Ours, Same, ids
      <4>3. Answered(e, "confirm")
        BY <1>11, <2>1, <4>2 DEF Answered
      <4> QED
        BY <4>2, <4>3 DEF BeingConfirmed
    <3> QED
      BY <1>1, <1>13, <3>1, <3>2 DEF KeptOrGone, ids
  <2>2. CASE status = "refused"
    BY <1>1, <1>2, <1>13, <2>2 DEF KeptOrGone, KeptIds
  <2> QED
    BY <1>2, <2>1, <2>2
<1>15. ConfirmsSound'
  BY <1>1, <1>9, <1>14, ServedConfirms
<1> QED
  BY <1>9, <1>10, <1>12, <1>15 DEF ImportInv

(* The list sent with a claim becomes the Importer's, and holds every name added before. *)
LEMMA SetScreenNamesSound ==
    ASSUME ImportInv, NEW c \in sent.calls, SetScreenNames(c)
    PROVE  ImportInv'
<1> DEFINE reply == Done(0, 0)
<1>1. /\ UNCHANGED <<dialog, items, claims, page, imports>> /\ Responds(c, "answered", reply)
      /\ server' = [server EXCEPT !.names = c.with.names] /\ c.what = "claim" /\ c.status = "asked"
  BY DEF SetScreenNames, Awaits, Answers
<1> HIDE DEF reply
<1>2. server' = [names |-> c.with.names, previews |-> server.previews, queue |-> server.queue, texts |-> server.texts]
  BY <1>1 DEF ImportInv, ImportShapes
<1>3. server'.names = c.with.names /\ server'.previews = server.previews /\ server'.texts = server.texts
  BY <1>2
<1>4. server' = [names |-> server'.names, previews |-> server'.previews, queue |-> server'.queue, texts |-> server'.texts]
  BY <1>2
<1>5. /\ ImportShapes' /\ ImportCalls' /\ BatchSound' /\ DiscardsAreRead'
      /\ \E d \in sent'.calls : d.status = "answered" /\ d.reply = reply /\ Same(d, c)
      /\ \A d \in sent'.calls : \/ d \in sent.calls /\ d # c
                                \/ d.status = "answered" /\ d.reply = reply /\ Same(d, c)
      /\ \A d \in sent.calls : d # c => d \in sent'.calls
      /\ sent'.asked = sent.asked
  BY <1>1, <1>4, Served
<1>6. NamesSound'
  <2>1. CASE imports.crossed
    BY <1>1, <2>1 DEF NamesSound
  <2>2. CASE ~imports.crossed
    <3>1. /\ imports.names \subseteq claims.known
          /\ c.from = dialog.number /\ imports.names \subseteq c.with.names /\ c.with.hero \in c.with.names
          /\ dialog.open => claims.claiming # None
          /\ \A d \in sent.calls : d.what = "claim" => d = c
      BY <1>1, <2>2 DEF ImportInv, NamesSound
    <3>2. \A d \in sent'.calls : d.what = "claim" => Same(d, c)
      BY <1>5, <3>1
    <3>3. \A d, e \in sent'.calls : d.what = "claim" /\ e.what = "claim" => d = e
      BY <1>5, <3>2 DEF ImportCalls, Same
    <3>4. \A d \in sent'.calls : d.what = "claim" =>
              /\ d.from = dialog.number
              /\ imports.names \subseteq d.with.names /\ d.with.hero \in d.with.names
              /\ server'.names = d.with.names
              /\ dialog.open => claims.claiming # None
      BY <1>3, <3>1, <3>2 DEF Same
    <3> QED
      BY <1>1, <1>3, <3>1, <3>3, <3>4 DEF NamesSound
  <2> QED
    BY <2>1, <2>2
<1>7. TextsAreTold'
  <2>1. \A d \in sent.calls : Answered(d, d.what) => d \in sent'.calls
    BY <1>1, <1>5 DEF Answered
  <2> QED
    BY <1>1, <1>3, <2>1 DEF ImportInv, TextsAreTold, Outdated, Answered
<1>8. KeptOrGone \subseteq KeptOrGone'
  BY <1>1, <1>3, <1>5, ServedConfirming DEF KeptOrGone, KeptIds, Answered
<1>9. ConfirmsSound'
  BY <1>1, <1>5, <1>8, ServedConfirms
<1> QED
  BY <1>5, <1>6, <1>7, <1>9 DEF ImportInv

-----------------------------------------------------------------------------
(* What is made of the answers: the request taken is gone.                 *)

LEMMA Settling ==
    ASSUME ImportInv, NEW c \in sent.calls, sent' = Settled(c), dialog'.number = dialog.number, dialog'.nextKey = dialog.nextKey
    PROVE  /\ sent' = [calls |-> sent.calls \ {c}, asked |-> sent.asked]
           /\ sent'.calls = sent.calls \ {c} /\ sent'.asked = sent.asked
           /\ ImportCalls'
           /\ \A what : Ours(what)' = Ours(what) \ {c}
           /\ \A item : IsItem(item)' <=> IsItem(item)
<1>1. sent' = [calls |-> sent.calls \ {c}, asked |-> sent.asked]
  BY DEF Settled, ImportInv, ImportShapes
<1>2. sent'.calls = sent.calls \ {c} /\ sent'.asked = sent.asked
  BY <1>1
<1>3. \A what : Ours(what)' = Ours(what) \ {c}
  BY <1>2 DEF Ours
<1>4. (\A d : IsCall(d)' <=> IsCall(d)) /\ (\A item : IsItem(item)' <=> IsItem(item))
  BY <1>2 DEF IsCall, IsItem, IsPreview
<1>5. ImportCalls'
  BY <1>2, <1>3, <1>4 DEF ImportInv, ImportCalls
<1> QED
  BY <1>1, <1>2, <1>3, <1>4, <1>5

(* Taken, a request for anything but a reading leaves the items waiting as they were. *)
LEMMA OtherSettled ==
    ASSUME ImportInv, NEW c \in sent.calls, c.what # "read", sent' = Settled(c), UNCHANGED items,
           dialog'.number = dialog.number, dialog'.nextKey = dialog.nextKey
    PROVE  BatchSound'
<1>1. /\ \A what : Ours(what)' = Ours(what) \ {c}
      /\ \A item : IsItem(item)' <=> IsItem(item)
  BY Settling
<1>2. Ours("read")' = Ours("read")
  BY <1>1 DEF Ours
<1> QED
  BY <1>1, <1>2 DEF ImportInv, BatchSound

(* The names, when no claim is taken.                                      *)
LEMMA NamesSettled ==
    ASSUME ImportInv, sent'.calls \subseteq sent.calls, server'.names = server.names,
           dialog'.number = dialog.number, dialog'.open => dialog.open,
           claims'.known = claims.known, claims'.claiming = claims.claiming,
           imports'.names = imports.names, imports'.crossed = imports.crossed
    PROVE  NamesSound'
<1>1. CASE imports.crossed
  BY <1>1 DEF NamesSound
<1>2. CASE ~imports.crossed
  <2>1. \A d \in sent'.calls : d \in sent.calls
    OBVIOUS
  <2> QED
    BY <1>2, <2>1 DEF ImportInv, NamesSound
<1> QED
  BY <1>1, <1>2

(* What can be confirmed, when a request is taken: `gone` has what a confirmation whose answer is lost asked for. *)
LEMMA ConfirmsSettled ==
    ASSUME ImportInv, NEW c \in sent.calls, sent' = Settled(c), UNCHANGED server, imports.gone \subseteq imports'.gone,
           dialog'.number = dialog.number, dialog'.nextKey = dialog.nextKey, dialog'.open => dialog.open,
           dialog'.confirming = dialog.confirming \/ c \in Ours("confirm"),
           \A k \in DOMAIN items' : \E j \in DOMAIN items : items[j].asked = items'[k].asked,
           \A i \in PreviewIds' : i \in PreviewIds \/ \E d \in Ours("read") : d.status = "answered" /\ i = d.id /\ dialog.open,
           Answered(c, "confirm") => SetOf(c.with.ids) \subseteq imports'.gone
    PROVE  ConfirmsSound'
<1>1. /\ sent'.calls = sent.calls \ {c} /\ sent'.asked = sent.asked
      /\ \A what : Ours(what)' = Ours(what) \ {c}
  BY Settling
<1>2. \A i \in BeingConfirmed : i \in BeingConfirmed' \/ i \in imports'.gone
  <2> SUFFICES ASSUME NEW i \in BeingConfirmed, i \notin imports'.gone
               PROVE  i \in BeingConfirmed'
    OBVIOUS
  <2>1. PICK d \in Ours("confirm") : Answered(d, "confirm") /\ i \in SetOf(d.with.ids)
    BY DEF BeingConfirmed
  <2>2. d # c
    BY <2>1
  <2>3. d \in Ours("confirm")' /\ Answered(d, "confirm")
    BY <1>1, <2>1, <2>2
  <2> QED
    BY <2>1, <2>3 DEF BeingConfirmed
<1>3. KeptOrGone \subseteq KeptOrGone'
  BY <1>2 DEF KeptOrGone, KeptIds
<1>4. dialog.open => \A d \in Ours("read") : d.status = "answered" => d.id \in KeptOrGone'
  BY <1>3 DEF ImportInv, ConfirmsSound
<1>5. PreviewIds' \subseteq KeptOrGone'
  BY <1>3, <1>4 DEF ImportInv, ConfirmsSound
<1>6. dialog'.open => \A d \in Ours("confirm")' : dialog'.confirming
  <2> SUFFICES ASSUME dialog'.open, NEW d \in Ours("confirm") \ {c}
               PROVE  dialog'.confirming
    BY <1>1
  <2>1. dialog.confirming
    BY DEF ImportInv, ConfirmsSound
  <2>2. c \notin Ours("confirm")
    BY DEF ImportInv, ConfirmsSound
  <2> QED
    BY <2>1, <2>2
<1>7. \A d, e \in Ours("confirm")' : d = e
  BY <1>1 DEF ImportInv, ConfirmsSound
<1>8. \A d \in sent.calls : d.what = "confirm" =>
          /\ SetOf(d.with.ids) \subseteq 1 .. sent.asked
          /\ d.from # dialog.number => /\ \A k \in DOMAIN items' : items'[k].asked \notin SetOf(d.with.ids)
                                       /\ \A e \in Ours("read") : e.id \notin SetOf(d.with.ids)
  BY DEF ImportInv, ConfirmsSound
<1> QED
  BY <1>1, <1>4, <1>5, <1>6, <1>7, <1>8 DEF ConfirmsSound

(* An answer or a failure settles the item it is for, and no other.        *)
LEMMA ItemSettled ==
    ASSUME ImportInv, NEW c \in sent.calls, c.what = "read", sent' = Settled(c), UNCHANGED dialog, NEW next,
           items' = IF IsOf(c) THEN [k \in DOMAIN items |-> IF items[k].key = c.key THEN next[k] ELSE items[k]] ELSE items,
           IsOf(c) => \A k \in DOMAIN items :
              items[k].key = c.key =>
                 /\ IsItem(next[k]) /\ next[k].key = c.key /\ next[k].asked = items[k].asked /\ next[k].state # "reading"
                 /\ next[k].state = "read" => c.status = "answered"
    PROVE  /\ BatchSound' /\ DiscardsAreRead'
           /\ items' \in Seq(SetOf(items)') /\ (~dialog.open => items' = <<>>)
           /\ \A k \in DOMAIN items' : \E j \in DOMAIN items : items[j].asked = items'[k].asked
           /\ \A i \in PreviewIds' : i \in PreviewIds \/ \E d \in Ours("read") : d.status = "answered" /\ i = d.id /\ dialog.open
<1>1. /\ sent'.calls = sent.calls \ {c} /\ sent'.asked = sent.asked
      /\ \A what : Ours(what)' = Ours(what) \ {c}
      /\ \A item : IsItem(item)' <=> IsItem(item)
  BY Settling
<1>2. Len(items) \in Nat /\ DOMAIN items = 1 .. Len(items)
  BY BatchIndices DEF ImportInv
<1>3. CASE ~IsOf(c)
  <2>1. items' = items
    BY <1>3
  <2>2. DOMAIN items # {} => c \notin Ours("read")
    <3>1. items = <<>> => DOMAIN items = {}
      OBVIOUS
    <3> QED
      BY <1>3, <3>1 DEF ImportInv, ImportShapes, IsOf, Ours
  <2>3. BatchSound'
    BY <1>1, <2>1, <2>2 DEF ImportInv, BatchSound
  <2>4. DiscardsAreRead'
    BY <2>1 DEF ImportInv, DiscardsAreRead, IsRead
  <2>5. PreviewIds' = PreviewIds
    BY <2>1 DEF PreviewIds, Ready, IsRead
  <2>6. SetOf(items)' = SetOf(items)
    BY <2>1 DEF SetOf
  <2> QED
    BY <2>1, <2>3, <2>4, <2>5, <2>6 DEF ImportInv, ImportShapes
<1>4. CASE IsOf(c)
  <2>1. items' = [k \in DOMAIN items |-> IF items[k].key = c.key THEN next[k] ELSE items[k]]
    BY <1>4
  <2>2. DOMAIN items' = DOMAIN items
    BY <2>1
  <2>3. \A k \in DOMAIN items : items[k].key # c.key => items'[k] = items[k]
    BY <2>1
  <2>4. \A k \in DOMAIN items : items[k].key = c.key =>
           /\ items'[k] = next[k] /\ IsItem(next[k]) /\ next[k].key = c.key /\ next[k].asked = items[k].asked
           /\ next[k].state # "reading" /\ (next[k].state = "read" => c.status = "answered")
    BY <1>4, <2>1
  <2>5. c \in Ours("read") /\ dialog.open
    BY <1>4 DEF IsOf, Ours
  <2>6. \A k \in DOMAIN items : items'[k].key = items[k].key /\ items'[k].asked = items[k].asked
    BY <2>3, <2>4
  <2>7. \A k \in DOMAIN items : IsItem(items'[k])
    BY <2>3, <2>4 DEF ImportInv, BatchSound
  <2>8. \A k \in DOMAIN items : items[k].key = c.key => items[k].state = "reading" /\ items[k].asked = c.id
    BY <2>5 DEF ImportInv, BatchSound
  <2>9. BatchSound'
    <3>1. \A k \in DOMAIN items' : IsItem(items[k])'
      <4> TAKE k \in DOMAIN items'
      <4>1. PICK item : item = items'[k]
        OBVIOUS
      <4>2. IsItem(item)'
        BY <1>1, <2>2, <2>7, <4>1
      <4> QED
        BY <4>1, <4>2
    <3>2. \A j, k \in DOMAIN items' : items'[j].key = items'[k].key => j = k
      BY <2>2, <2>6 DEF ImportInv, BatchSound
    <3>3. \A k \in DOMAIN items', d \in Ours("read")' :
             d.key = items'[k].key => items'[k].state = "reading" /\ d.id = items'[k].asked
      <4> SUFFICES ASSUME NEW k \in DOMAIN items, NEW d \in Ours("read") \ {c}, d.key = items[k].key
                   PROVE  items'[k].state = "reading" /\ d.id = items'[k].asked
        BY <1>1, <2>2, <2>6
      <4>1. items[k].state = "reading" /\ d.id = items[k].asked
        BY DEF ImportInv, BatchSound
      <4>2. items[k].key # c.key
        <5> SUFFICES ASSUME items[k].key = c.key
                     PROVE  FALSE
          OBVIOUS
        <5>1. c.id = d.id
          BY <2>8, <4>1
        <5> QED
          BY <5>1 DEF ImportInv, ImportCalls, Ours
      <4> QED
        BY <2>3, <4>1, <4>2
    <3>4. \A k \in DOMAIN items' : items'[k].state = "reading" => \E d \in Ours("read")' : d.key = items'[k].key
      <4> SUFFICES ASSUME NEW k \in DOMAIN items, items'[k].state = "reading"
                   PROVE  \E d \in Ours("read") \ {c} : d.key = items[k].key
        BY <1>1, <2>2, <2>6
      <4>1. items[k].key # c.key /\ items'[k] = items[k]
        BY <2>3, <2>4
      <4>2. PICK d \in Ours("read") : d.key = items[k].key
        BY <4>1 DEF ImportInv, BatchSound
      <4> QED
        BY <4>1, <4>2
    <3> QED
      BY <3>1, <3>2, <3>3, <3>4 DEF BatchSound
  <2>10. DiscardsAreRead'
    <3> SUFFICES ASSUME dialog.open, dialog.discardedOf # None
                 PROVE  \E k \in DOMAIN items : items'[k].key = dialog.discardedOf /\ items'[k].state = "read"
      BY <2>2 DEF DiscardsAreRead, IsRead
    <3>1. PICK k \in DOMAIN items : items[k].key = dialog.discardedOf /\ items[k].state = "read"
      BY DEF ImportInv, DiscardsAreRead, IsRead
    <3>2. items[k].key # c.key
      BY <2>8, <3>1
    <3> QED
      BY <2>3, <3>1, <3>2
  <2>11. items' \in Seq(SetOf(items)')
    <3>1. items' = [k \in 1 .. Len(items) |-> items'[k]]
      BY <1>2, <2>1
    <3>2. items' \in Seq(SetOf(items'))
      BY <1>2, <3>1, AsSequence
    <3>3. SetOf(items)' = SetOf(items')
      BY DEF SetOf
    <3> QED
      BY <3>2, <3>3
  <2>12. \A i \in PreviewIds' : i \in PreviewIds \/ \E d \in Ours("read") : d.status = "answered" /\ i = d.id /\ dialog.open
    <3> SUFFICES ASSUME NEW i \in PreviewIds'
                 PROVE  i \in PreviewIds \/ \E d \in Ours("read") : d.status = "answered" /\ i = d.id /\ dialog.open
      OBVIOUS
    <3>1. PICK k \in DOMAIN items : Ready(items'[k]) # <<>> /\ items'[k].state = "read" /\ i = items'[k].preview.id
      BY <2>2 DEF PreviewIds, Ready, IsRead
    <3>2. CASE items[k].key # c.key
      <4>1. items'[k] = items[k]
        BY <2>3, <3>2
      <4> QED
        BY <3>1, <4>1 DEF PreviewIds
    <3>3. CASE items[k].key = c.key
      <4>1. c.status = "answered"
        BY <2>4, <3>1, <3>3
      <4>2. items'[k].preview.id = items'[k].asked
        BY <2>7, <3>1 DEF IsItem
      <4>3. items'[k].asked = c.id
        BY <2>6, <2>8, <3>3
      <4> QED
        BY <2>5, <3>1, <4>1, <4>2, <4>3
    <3> QED
      BY <3>2, <3>3
  <2> QED
    BY <2>2, <2>5, <2>6, <2>9, <2>10, <2>11, <2>12
<1> QED
  BY <1>3, <1>4

LEMMA ReadItem ==
    ASSUME NEW item, IsItem(item), NEW c, IsCall(c), c.id = item.asked, c.what = "read", c.status = "answered"
    PROVE  LET read == ReadAs(item, c) IN
           IsItem(read) /\ read.key = item.key /\ read.asked = item.asked /\ read.state = "read"
<1>1. PICK read : read = [item EXCEPT !.state = "read", !.preview = c.reply, !.shown = c.id]
  OBVIOUS
<1>2. read = [key |-> item.key, text |-> item.text, preview |-> c.reply, shown |-> c.id, state |-> "read", asked |-> item.asked]
  BY <1>1 DEF IsItem
<1>3. IsPreview(c.reply) /\ c.reply.id = c.id
  BY DEF IsCall
<1>4. read.key = item.key /\ read.text = item.text /\ read.preview = c.reply /\ read.shown = c.id /\ read.state = "read"
         /\ read.asked = item.asked
  BY <1>2
<1>5. item.asked # 0
  BY DEF IsCall
<1>6. IsItem(read)
  BY <1>2, <1>3, <1>4, <1>5 DEF IsItem
<1> QED
  BY <1>1, <1>4, <1>6 DEF ReadAs

LEMMA FailedItem ==
    ASSUME NEW item, IsItem(item), NEW c, c.id = item.asked
    PROVE  LET failed == FailedAs(item, c) IN
           IsItem(failed) /\ failed.key = item.key /\ failed.asked = item.asked /\ failed.state = "failed"
<1>1. PICK failed : failed = [item EXCEPT !.state = "failed", !.preview = None, !.shown = c.id]
  OBVIOUS
<1>2. failed = [key |-> item.key, text |-> item.text, preview |-> None, shown |-> c.id, state |-> "failed", asked |-> item.asked]
  BY <1>1 DEF IsItem
<1>3. failed.key = item.key /\ failed.text = item.text /\ failed.preview = None /\ failed.shown = c.id /\ failed.state = "failed"
         /\ failed.asked = item.asked
  BY <1>2
<1>4. IsItem(failed)
  BY <1>2, <1>3 DEF IsItem
<1> QED
  BY <1>1, <1>3, <1>4 DEF FailedAs

(* A page that forgot its Hands shows none as it was.                      *)
LEMMA Forgotten ==
    ASSUME page'.fetched = {}
    PROVE  TextsAreTold'
  BY DEF TextsAreTold, Outdated

LEMMA Expected ==
    ASSUME ImportInv, NEW c \in sent.calls, c.what = "read", IsOf(c), NEW k \in DOMAIN items, items[k].key = c.key
    PROVE  IsItem(items[k]) /\ IsCall(c) /\ c.id = items[k].asked
  BY DEF ImportInv, ImportCalls, BatchSound, Ours, IsOf

LEMMA TakeReadingSound ==
    ASSUME ImportInv, NEW c \in sent.calls, TakeReading(c)
    PROVE  ImportInv'
<1> DEFINE next == [k \in DOMAIN items |-> ReadAs(items[k], c)]
<1>1. /\ UNCHANGED <<dialog, claims, server, imports>> /\ sent' = Settled(c) /\ page' = [page EXCEPT !.fetched = {}]
      /\ c.what = "read" /\ c.status = "answered"
      /\ items' = IF IsOf(c) THEN [k \in DOMAIN items |-> IF items[k].key = c.key THEN ReadAs(items[k], c) ELSE items[k]] ELSE items
  BY DEF TakeReading, Answered, ForgetHands, Updated
<1>2. items' = IF IsOf(c) THEN [k \in DOMAIN items |-> IF items[k].key = c.key THEN next[k] ELSE items[k]] ELSE items
  <2>1. [k \in DOMAIN items |-> IF items[k].key = c.key THEN ReadAs(items[k], c) ELSE items[k]]
          = [k \in DOMAIN items |-> IF items[k].key = c.key THEN next[k] ELSE items[k]]
    OBVIOUS
  <2> QED
    BY <1>1, <2>1
<1>3. IsOf(c) => \A k \in DOMAIN items : items[k].key = c.key =>
         /\ IsItem(next[k]) /\ next[k].key = c.key /\ next[k].asked = items[k].asked /\ next[k].state # "reading"
         /\ (next[k].state = "read" => c.status = "answered")
  BY <1>1, Expected, ReadItem
<1> HIDE DEF next
<1>4. /\ BatchSound' /\ DiscardsAreRead'
      /\ items' \in Seq(SetOf(items)') /\ (~dialog.open => items' = <<>>)
      /\ \A k \in DOMAIN items' : \E j \in DOMAIN items : items[j].asked = items'[k].asked
      /\ \A i \in PreviewIds' : i \in PreviewIds \/ \E d \in Ours("read") : d.status = "answered" /\ i = d.id /\ dialog.open
  BY <1>1, <1>2, <1>3, ItemSettled
<1>5. /\ sent' = [calls |-> sent.calls \ {c}, asked |-> sent.asked]
      /\ sent'.calls = sent.calls \ {c} /\ sent'.asked = sent.asked /\ ImportCalls'
  BY <1>1, Settling
<1>6. page' = [outcome |-> page.outcome, fetched |-> {}] /\ page'.fetched = {}
  BY <1>1 DEF ImportInv, ImportShapes
<1>7. ImportShapes'
  BY <1>1, <1>4, <1>5, <1>6 DEF ImportInv, ImportShapes
<1>8. NamesSound'
  BY <1>1, <1>5, NamesSettled
<1>9. ConfirmsSound'
  BY <1>1, <1>4, ConfirmsSettled DEF Answered
<1>10. TextsAreTold'
  BY <1>6, Forgotten
<1> QED
  BY <1>4, <1>5, <1>7, <1>8, <1>9, <1>10 DEF ImportInv

LEMMA TakePasteSound ==
    ASSUME ImportInv, NEW c \in sent.calls, TakePaste(c)
    PROVE  ImportInv'
<1>1. /\ UNCHANGED <<dialog, items, claims, server, imports>> /\ sent' = Settled(c) /\ c.what = "paste"
      /\ page' = [[page EXCEPT !.fetched = {}] EXCEPT !.outcome = DoneAs(c)]
  BY DEF TakePaste, Answered, ForgetHands, Reports
<1>2. page' = [outcome |-> DoneAs(c), fetched |-> {}] /\ page'.fetched = {}
  <2>1. PICK forgot : forgot = [page EXCEPT !.fetched = {}]
    OBVIOUS
  <2>2. forgot = [outcome |-> page.outcome, fetched |-> {}]
    BY <2>1 DEF ImportInv, ImportShapes
  <2>3. page' = [forgot EXCEPT !.outcome = DoneAs(c)]
    BY <1>1, <2>1
  <2> QED
    BY <2>2, <2>3
<1>3. /\ sent' = [calls |-> sent.calls \ {c}, asked |-> sent.asked]
      /\ sent'.calls = sent.calls \ {c} /\ sent'.asked = sent.asked /\ ImportCalls'
  BY <1>1, Settling
<1>4. BatchSound'
  BY <1>1, OtherSettled
<1>5. ImportShapes'
  BY <1>1, <1>2, <1>3 DEF ImportInv, ImportShapes
<1>6. NamesSound'
  BY <1>1, <1>3, NamesSettled
<1>7. DiscardsAreRead'
  BY <1>1 DEF ImportInv, DiscardsAreRead, IsRead
<1>8. PreviewIds' = PreviewIds
  BY <1>1 DEF PreviewIds, Ready, IsRead
<1>9. ConfirmsSound'
  BY <1>1, <1>8, ConfirmsSettled DEF Answered
<1>10. TextsAreTold'
  BY <1>2, Forgotten
<1> QED
  BY <1>3, <1>4, <1>5, <1>6, <1>7, <1>9, <1>10 DEF ImportInv

LEMMA TakeConfirmationSound ==
    ASSUME ImportInv, NEW c \in sent.calls, TakeConfirmation(c)
    PROVE  ImportInv'
<1>1. /\ UNCHANGED <<claims, server, imports>> /\ sent' = Settled(c) /\ c.what = "confirm"
      /\ dialog' = [dialog EXCEPT !.open = FALSE] /\ items' = <<>>
      /\ page' = [[page EXCEPT !.fetched = {}] EXCEPT !.outcome = DoneAs(c)]
  BY DEF TakeConfirmation, Answered, ForgetHands, Reports
<1>2. page' = [outcome |-> DoneAs(c), fetched |-> {}] /\ page'.fetched = {}
  <2>1. PICK forgot : forgot = [page EXCEPT !.fetched = {}]
    OBVIOUS
  <2>2. forgot = [outcome |-> page.outcome, fetched |-> {}]
    BY <2>1 DEF ImportInv, ImportShapes
  <2>3. page' = [forgot EXCEPT !.outcome = DoneAs(c)]
    BY <1>1, <2>1
  <2> QED
    BY <2>2, <2>3
<1>3. dialog' = [open |-> FALSE, number |-> dialog.number, nextKey |-> dialog.nextKey, confirming |-> dialog.confirming,
                 failed |-> dialog.failed, discardedOf |-> dialog.discardedOf]
  BY <1>1 DEF ImportInv, ImportShapes
<1>4. dialog'.number = dialog.number /\ dialog'.nextKey = dialog.nextKey /\ ~dialog'.open
  BY <1>3
<1>5. /\ sent' = [calls |-> sent.calls \ {c}, asked |-> sent.asked]
      /\ sent'.calls = sent.calls \ {c} /\ sent'.asked = sent.asked /\ ImportCalls'
      /\ \A what : Ours(what)' = Ours(what) \ {c}
  BY <1>1, <1>4, Settling
<1>6. DOMAIN items' = {} /\ PreviewIds' = {} /\ items' \in Seq(SetOf(items)')
  BY <1>1, NoItems
<1>7. BatchSound'
  BY <1>6 DEF BatchSound
<1>8. ImportShapes'
  BY <1>1, <1>2, <1>3, <1>5, <1>6 DEF ImportInv, ImportShapes
<1>9. NamesSound'
  BY <1>1, <1>4, <1>5, NamesSettled
<1>10. DiscardsAreRead'
  BY <1>4 DEF DiscardsAreRead
<1>11. ConfirmsSound'
  BY <1>4, <1>5, <1>6 DEF ImportInv, ConfirmsSound
<1>12. TextsAreTold'
  BY <1>2, Forgotten
<1> QED
  BY <1>5, <1>7, <1>8, <1>9, <1>10, <1>11, <1>12 DEF ImportInv

(* A Screen Name added changes whose the Hands of an item are, not which.  *)
LEMMA NamedItem ==
    ASSUME NEW item, IsItem(item), item.state = "read", NEW hands,
           NEW named, named = [item EXCEPT !.preview.hands = hands]
    PROVE  /\ IsItem(named) /\ named.key = item.key /\ named.asked = item.asked /\ named.state = "read"
           /\ named.preview.id = item.preview.id /\ named.preview.hands = hands
<1>1. PICK told : told = [item.preview EXCEPT !.hands = hands]
  OBVIOUS
<1>2. named = [item EXCEPT !.preview = told]
  BY <1>1
<1>4. IsPreview(item.preview) /\ item.preview.id = item.asked
  BY DEF IsItem
<1>5. told = [id |-> item.preview.id, format |-> item.preview.format, hands |-> hands, discarded |-> item.preview.discarded]
  BY <1>1, <1>4 DEF IsPreview
<1>6. told.id = item.preview.id /\ told.format = item.preview.format /\ told.hands = hands /\ told.discarded = item.preview.discarded
  BY <1>5
<1>7. IsPreview(told)
  BY <1>5, <1>6 DEF IsPreview
<1>8. named = [key |-> item.key, text |-> item.text, preview |-> told, shown |-> item.shown, state |-> item.state, asked |-> item.asked]
  BY <1>2 DEF IsItem
<1>9. named.key = item.key /\ named.text = item.text /\ named.preview = told /\ named.shown = item.shown /\ named.state = "read"
         /\ named.asked = item.asked
  BY <1>8
<1>10. IsItem(named)
  BY <1>4, <1>6, <1>7, <1>8, <1>9 DEF IsItem
<1> QED
  BY <1>6, <1>9, <1>10

LEMMA Renamed ==
    ASSUME ImportInv, NEW hero, items' = ScreenNameAdded(hero)
    PROVE  /\ DOMAIN items' = DOMAIN items /\ items' \in Seq(SetOf(items)') /\ (items = <<>> => items' = <<>>)
           /\ \A k \in DOMAIN items :
                 /\ IsItem(items'[k]) /\ items'[k].key = items[k].key /\ items'[k].asked = items[k].asked
                 /\ items'[k].state = items[k].state
           /\ PreviewIds' \subseteq PreviewIds
<1> DEFINE Same1(h) == IF h.hero = hero THEN [h EXCEPT !.matched = TRUE] ELSE h
<1>1. items' = [k \in DOMAIN items |->
                   IF items[k].state # "read" THEN items[k]
                   ELSE [items[k] EXCEPT !.preview.hands = [j \in DOMAIN @ |-> Same1(@[j])]]]
  BY DEF ScreenNameAdded, IsRead
<1>2. DOMAIN items' = DOMAIN items
  BY <1>1
<1>3. Len(items) \in Nat /\ DOMAIN items = 1 .. Len(items)
  BY BatchIndices DEF ImportInv
<1>4. items' \in Seq(SetOf(items)') /\ (items = <<>> => items' = <<>>)
  <2>1. items' = [k \in 1 .. Len(items) |-> items'[k]]
    BY <1>1, <1>3
  <2>2. items' \in Seq(SetOf(items')) /\ Len(items') = Len(items)
    BY <1>3, <2>1, AsSequence
  <2>3. SetOf(items)' = SetOf(items')
    BY DEF SetOf
  <2>4. items = <<>> => Len(items') = 0
    BY <2>2
  <2>5. Len(items') = 0 => items' = <<>>
    BY <2>2
  <2> QED
    BY <2>2, <2>3, <2>4, <2>5
<1>5. \A k \in DOMAIN items :
         /\ IsItem(items'[k]) /\ items'[k].key = items[k].key /\ items'[k].asked = items[k].asked /\ items'[k].state = items[k].state
         /\ items'[k].state = "read" => items'[k].preview.id = items[k].preview.id
         /\ items'[k].state = "read" => (items[k].preview.hands = <<>> => items'[k].preview.hands = <<>>)
  <2> TAKE k \in DOMAIN items
  <2>1. IsItem(items[k])
    BY DEF ImportInv, BatchSound
  <2>2. CASE items[k].state # "read"
    BY <1>1, <2>1, <2>2
  <2>3. CASE items[k].state = "read"
    <3>1. PICK f : f = [j \in DOMAIN items[k].preview.hands |-> Same1(items[k].preview.hands[j])]
      OBVIOUS
    <3>2. items'[k] = [items[k] EXCEPT !.preview.hands = [j \in DOMAIN @ |-> Same1(@[j])]]
      BY <1>1, <2>3
    <3>3. items'[k] = [items[k] EXCEPT !.preview.hands = f]
      BY <3>1, <3>2
    <3>4. items[k].preview.hands = <<>> => f = <<>>
      <4>1. SUFFICES ASSUME items[k].preview.hands = <<>>
                     PROVE  f = <<>>
        OBVIOUS
      <4>2. DOMAIN items[k].preview.hands = {}
        BY <4>1
      <4>3. [j \in {} |-> Same1(items[k].preview.hands[j])] = <<>>
        BY SMT
      <4> QED
        BY <3>1, <4>2, <4>3
    <3> HIDE DEF Same1
    <3>5. PICK item, named : item = items[k] /\ named = items'[k]
      OBVIOUS
    <3>6. named = [item EXCEPT !.preview.hands = f]
      BY <3>3, <3>5
    <3>7. /\ IsItem(named) /\ named.key = item.key /\ named.asked = item.asked /\ named.state = "read"
          /\ named.preview.id = item.preview.id /\ named.preview.hands = f
      BY <2>1, <2>3, <3>5, <3>6, NamedItem
    <3> QED
      BY <2>3, <3>4, <3>5, <3>7
  <2> QED
    BY <2>2, <2>3
<1>6. PreviewIds' \subseteq PreviewIds
  <2> SUFFICES ASSUME NEW i \in PreviewIds'
               PROVE  i \in PreviewIds
    OBVIOUS
  <2>1. PICK k \in DOMAIN items : items'[k].state = "read" /\ items'[k].preview.hands # <<>> /\ i = items'[k].preview.id
    BY <1>2 DEF PreviewIds, Ready, IsRead
  <2>2. items[k].state = "read" /\ items[k].preview.hands # <<>> /\ i = items[k].preview.id
    BY <1>5, <2>1
  <2> QED
    BY <2>2 DEF PreviewIds, Ready, IsRead
<1> QED
  BY <1>2, <1>4, <1>5, <1>6

LEMMA TakeClaimSound ==
    ASSUME ImportInv, NEW c \in sent.calls, TakeClaim(c)
    PROVE  ImportInv'
<1>1. /\ UNCHANGED <<dialog, server, page>> /\ sent' = Settled(c) /\ c.what = "claim" /\ c.status = "answered"
      /\ claims' = (IF IsOf(c) THEN [claims EXCEPT !.known = c.with.names, !.claiming = None, !.claimed = c.with.hero]
                    ELSE [claims EXCEPT !.known = c.with.names])
      /\ items' = items \/ items' = ScreenNameAdded(c.with.hero)
      /\ imports' = [imports EXCEPT !.names = @ \cup {c.with.hero}]
  BY DEF TakeClaim, Answered
<1>2. /\ claims' = [claiming |-> claims'.claiming, claimed |-> claims'.claimed, failed |-> claims'.failed, known |-> claims'.known]
      /\ claims'.known = c.with.names
  BY <1>1 DEF ImportInv, ImportShapes
<1>3. imports' = [names |-> imports.names \cup {c.with.hero}, crossed |-> imports.crossed, gone |-> imports.gone,
                  untold |-> imports.untold, added |-> imports.added, failed |-> imports.failed]
  BY <1>1 DEF ImportInv, ImportShapes
<1>4. /\ imports'.names = imports.names \cup {c.with.hero} /\ imports'.crossed = imports.crossed
      /\ imports'.gone = imports.gone /\ imports'.untold = imports.untold
  BY <1>3
<1>5. /\ sent' = [calls |-> sent.calls \ {c}, asked |-> sent.asked]
      /\ sent'.calls = sent.calls \ {c} /\ sent'.asked = sent.asked /\ ImportCalls'
      /\ \A what : Ours(what)' = Ours(what) \ {c}
      /\ \A item : IsItem(item)' <=> IsItem(item)
  BY <1>1, Settling
<1>6. /\ DOMAIN items' = DOMAIN items /\ items' \in Seq(SetOf(items)') /\ (items = <<>> => items' = <<>>)
      /\ \A k \in DOMAIN items :
            /\ IsItem(items'[k]) /\ items'[k].key = items[k].key /\ items'[k].asked = items[k].asked
            /\ items'[k].state = items[k].state
      /\ PreviewIds' \subseteq PreviewIds
  <2>1. CASE items' = items
    <3>1. SetOf(items)' = SetOf(items) /\ PreviewIds' = PreviewIds
      BY <2>1 DEF SetOf, PreviewIds, Ready, IsRead
    <3> QED
      BY <2>1, <3>1 DEF ImportInv, ImportShapes, BatchSound
  <2>2. CASE items' = ScreenNameAdded(c.with.hero)
    BY <2>2, Renamed
  <2> QED
    BY <1>1, <2>1, <2>2
<1>7. ImportShapes'
  BY <1>1, <1>2, <1>3, <1>5, <1>6 DEF ImportInv, ImportShapes
<1>8. BatchSound'
  <2>1. Ours("read")' = Ours("read")
    BY <1>1, <1>5 DEF Ours
  <2>2. \A k \in DOMAIN items' : IsItem(items[k])'
    <3> TAKE k \in DOMAIN items'
    <3>1. PICK item : item = items'[k]
      OBVIOUS
    <3>2. IsItem(item)'
      BY <1>5, <1>6, <3>1
    <3> QED
      BY <3>1, <3>2
  <2>3. \A j, k \in DOMAIN items' : items'[j].key = items'[k].key => j = k
    BY <1>6 DEF ImportInv, BatchSound
  <2>4. \A k \in DOMAIN items', d \in Ours("read") : d.key = items'[k].key => items'[k].state = "reading" /\ d.id = items'[k].asked
    BY <1>6 DEF ImportInv, BatchSound
  <2>5. \A k \in DOMAIN items' : items'[k].state = "reading" => \E d \in Ours("read") : d.key = items'[k].key
    BY <1>6 DEF ImportInv, BatchSound
  <2> QED
    BY <2>1, <2>2, <2>3, <2>4, <2>5 DEF BatchSound
<1>9. DiscardsAreRead'
  BY <1>1, <1>6 DEF ImportInv, DiscardsAreRead, IsRead
<1>10. NamesSound'
  <2>1. CASE imports.crossed
    BY <1>4, <2>1 DEF NamesSound
  <2>2. CASE ~imports.crossed
    <3>1. /\ imports.names \subseteq c.with.names /\ c.with.hero \in c.with.names /\ server.names = c.with.names
          /\ \A d \in sent.calls : d.what = "claim" => d = c
      BY <1>1, <2>2 DEF ImportInv, NamesSound
    <3>2. \A d \in sent'.calls : d.what # "claim"
      BY <1>5, <3>1
    <3> QED
      BY <1>1, <1>2, <1>4, <3>1, <3>2 DEF NamesSound
  <2> QED
    BY <2>1, <2>2
<1>11. ConfirmsSound'
  BY <1>1, <1>4, <1>6, ConfirmsSettled DEF Answered
<1>12. TextsAreTold'
  BY <1>1, <1>4, <1>5 DEF ImportInv, TextsAreTold, Outdated, Answered
<1> QED
  BY <1>5, <1>7, <1>8, <1>9, <1>10, <1>11, <1>12 DEF ImportInv

(* A failure is said, and what its answer would have told of is remembered as lost. *)
LEMMA FailSound ==
    ASSUME ImportInv, NEW c \in sent.calls, Fail(c)
    PROVE  ImportInv'
<1> DEFINE next == [k \in DOMAIN items |-> FailedAs(items[k], c)]
<1>1. /\ UNCHANGED server /\ sent' = Settled(c) /\ (Lost(c) \/ Turned(c))
      /\ items' = IF c.what = "read" /\ IsOf(c)
                  THEN [k \in DOMAIN items |-> IF items[k].key = c.key THEN FailedAs(items[k], c) ELSE items[k]] ELSE items
      /\ claims' = IF c.what = "claim" /\ IsOf(c) THEN [claims EXCEPT !.claiming = None, !.failed = TRUE] ELSE claims
      /\ dialog' = IF c.what = "confirm" /\ IsOf(c) THEN [dialog EXCEPT !.confirming = FALSE, !.failed = TRUE] ELSE dialog
      /\ page' = IF c.what = "paste" THEN [page EXCEPT !.outcome = [state |-> "failed"]] ELSE page
  BY DEF Fail, Updated, Reports
<1>2. /\ imports' = [names |-> imports.names, crossed |-> imports.crossed, gone |-> imports'.gone, untold |-> imports'.untold,
                     added |-> imports.added, failed |-> imports'.failed]
      /\ imports.gone \subseteq imports'.gone /\ (imports.untold => imports'.untold)
      /\ \/ c.status = "refused"
         \/ (c.what = "confirm" => SetOf(c.with.ids) \subseteq imports'.gone) /\ (c.what # "claim" => imports'.untold)
  <2>1. CASE Turned(c)
    BY <2>1 DEF Turned, ImportInv, ImportShapes
  <2>2. CASE Lost(c)
    <3>1. PICK gone, untold, failed :
             /\ imports' = [imports EXCEPT !.failed = failed, !.gone = gone, !.untold = untold]
             /\ gone = (IF c.what = "confirm" THEN imports.gone \cup SetOf(c.with.ids) ELSE imports.gone)
             /\ untold = (imports.untold \/ c.what # "claim")
      BY <2>2 DEF Lost
    <3>2. imports' = [names |-> imports.names, crossed |-> imports.crossed, gone |-> gone, untold |-> untold,
                      added |-> imports.added, failed |-> failed]
      BY <3>1 DEF ImportInv, ImportShapes
    <3>3. imports'.gone = gone /\ imports'.untold = untold /\ imports'.failed = failed
      BY <3>2
    <3>4. imports.gone \subseteq gone /\ (c.what = "confirm" => SetOf(c.with.ids) \subseteq gone)
      BY <3>1
    <3>5. (imports.untold => untold) /\ (c.what # "claim" => untold)
      BY <3>1, Zenon
    <3> QED
      BY <3>2, <3>3, <3>4, <3>5
  <2> QED
    BY <1>1, <2>1, <2>2
<1>3. imports'.names = imports.names /\ imports'.crossed = imports.crossed
  BY <1>2
<1>4. /\ dialog' = [open |-> dialog.open, number |-> dialog.number, nextKey |-> dialog.nextKey,
                    confirming |-> dialog'.confirming, failed |-> dialog'.failed, discardedOf |-> dialog.discardedOf]
      /\ dialog'.confirming \in BOOLEAN
      /\ dialog'.confirming = dialog.confirming \/ c \in Ours("confirm")
  <2>1. CASE ~(c.what = "confirm" /\ IsOf(c))
    BY <1>1, <2>1 DEF ImportInv, ImportShapes
  <2>2. CASE c.what = "confirm" /\ IsOf(c)
    <3>1. dialog' = [dialog EXCEPT !.confirming = FALSE, !.failed = TRUE]
      BY <1>1, <2>2
    <3>2. dialog' = [open |-> dialog.open, number |-> dialog.number, nextKey |-> dialog.nextKey,
                     confirming |-> FALSE, failed |-> TRUE, discardedOf |-> dialog.discardedOf]
      BY <3>1 DEF ImportInv, ImportShapes
    <3>3. c \in Ours("confirm")
      BY <2>2 DEF Ours, IsOf
    <3> QED
      BY <3>2, <3>3
  <2> QED
    BY <2>1, <2>2
<1>5. dialog'.number = dialog.number /\ dialog'.nextKey = dialog.nextKey /\ dialog'.open = dialog.open
        /\ dialog'.discardedOf = dialog.discardedOf
  BY <1>4
<1>6. /\ sent' = [calls |-> sent.calls \ {c}, asked |-> sent.asked]
      /\ sent'.calls = sent.calls \ {c} /\ sent'.asked = sent.asked /\ ImportCalls'
  BY <1>1, <1>5, Settling
<1>7. /\ BatchSound' /\ DiscardsAreRead'
      /\ items' \in Seq(SetOf(items)') /\ (~dialog.open => items' = <<>>)
      /\ \A k \in DOMAIN items' : \E j \in DOMAIN items : items[j].asked = items'[k].asked
      /\ \A i \in PreviewIds' : i \in PreviewIds \/ \E d \in Ours("read") : d.status = "answered" /\ i = d.id /\ dialog.open
  <2>1. CASE c.what = "read"
    <3>1. [k \in DOMAIN items |-> IF items[k].key = c.key THEN FailedAs(items[k], c) ELSE items[k]]
            = [k \in DOMAIN items |-> IF items[k].key = c.key THEN next[k] ELSE items[k]]
      OBVIOUS
    <3>2. items' = IF IsOf(c) THEN [k \in DOMAIN items |-> IF items[k].key = c.key THEN next[k] ELSE items[k]] ELSE items
      BY <1>1, <2>1, <3>1
    <3>3. IsOf(c) => \A k \in DOMAIN items : items[k].key = c.key =>
             /\ IsItem(next[k]) /\ next[k].key = c.key /\ next[k].asked = items[k].asked /\ next[k].state # "reading"
             /\ (next[k].state = "read" => c.status = "answered")
      BY <2>1, Expected, FailedItem
    <3>4. dialog' = dialog
      BY <1>1, <2>1
    <3> HIDE DEF next
    <3> QED
      BY <1>1, <2>1, <3>4, <3>2, <3>3, ItemSettled
  <2>2. CASE c.what # "read"
    <3>1. items' = items
      BY <1>1, <2>2
    <3>2. BatchSound'
      BY <1>1, <1>5, <2>2, <3>1, OtherSettled
    <3>3. DiscardsAreRead'
      BY <1>5, <3>1 DEF ImportInv, DiscardsAreRead, IsRead
    <3>4. PreviewIds' = PreviewIds /\ SetOf(items)' = SetOf(items)
      BY <3>1 DEF PreviewIds, Ready, IsRead, SetOf
    <3> QED
      BY <3>1, <3>2, <3>3, <3>4 DEF ImportInv, ImportShapes
  <2> QED
    BY <2>1, <2>2
<1> HIDE DEF next
<1>8. /\ claims' = [claiming |-> claims'.claiming, claimed |-> claims.claimed, failed |-> claims'.failed, known |-> claims.known]
      /\ claims'.claiming = claims.claiming \/ c.what = "claim"
  <2>1. CASE ~(c.what = "claim" /\ IsOf(c))
    BY <1>1, <2>1 DEF ImportInv, ImportShapes
  <2>2. CASE c.what = "claim" /\ IsOf(c)
    <3>1. claims' = [claims EXCEPT !.claiming = None, !.failed = TRUE]
      BY <1>1, <2>2
    <3>2. claims' = [claiming |-> None, claimed |-> claims.claimed, failed |-> TRUE, known |-> claims.known]
      BY <3>1 DEF ImportInv, ImportShapes
    <3> QED
      BY <2>2, <3>2
  <2> QED
    BY <2>1, <2>2
<1>9. page' = [outcome |-> page'.outcome, fetched |-> page.fetched]
  BY <1>1 DEF ImportInv, ImportShapes
<1>10. claims'.known = claims.known /\ page'.fetched = page.fetched
  BY <1>8, <1>9
<1>11. ImportShapes'
  <2>1. /\ dialog' = [open |-> dialog'.open, number |-> dialog'.number, nextKey |-> dialog'.nextKey,
                      confirming |-> dialog'.confirming, failed |-> dialog'.failed, discardedOf |-> dialog'.discardedOf]
        /\ dialog'.number \in Nat /\ dialog'.nextKey \in Nat /\ dialog'.open \in BOOLEAN /\ dialog'.confirming \in BOOLEAN
    BY <1>4, <1>5 DEF ImportInv, ImportShapes
  <2>2. sent' = [calls |-> sent'.calls, asked |-> sent'.asked] /\ sent'.asked \in Nat
    BY <1>6 DEF ImportInv, ImportShapes
  <2>3. /\ claims' = [claiming |-> claims'.claiming, claimed |-> claims'.claimed, failed |-> claims'.failed, known |-> claims'.known]
        /\ page' = [outcome |-> page'.outcome, fetched |-> page'.fetched]
    BY <1>8, <1>9
  <2>4. imports' = [names |-> imports'.names, crossed |-> imports'.crossed, gone |-> imports'.gone, untold |-> imports'.untold,
                    added |-> imports'.added, failed |-> imports'.failed]
    BY <1>2
  <2>5. server' = [names |-> server'.names, previews |-> server'.previews, queue |-> server'.queue, texts |-> server'.texts]
    BY <1>1 DEF ImportInv, ImportShapes
  <2> QED
    BY <1>5, <1>7, <2>1, <2>2, <2>3, <2>4, <2>5 DEF ImportShapes
<1>12. NamesSound'
  <2>1. CASE c.what # "claim"
    BY <1>1, <1>3, <1>5, <1>6, <1>8, <1>10, <2>1, NamesSettled
  <2>2. CASE c.what = "claim" /\ imports.crossed
    BY <1>3, <2>2 DEF NamesSound
  <2>3. CASE c.what = "claim" /\ ~imports.crossed
    <3>1. /\ \A d \in sent.calls : d.what = "claim" => d = c
          /\ imports.names \subseteq claims.known /\ imports.names \subseteq server.names
      BY <2>3 DEF ImportInv, NamesSound
    <3>2. \A d \in sent'.calls : d.what # "claim"
      BY <1>6, <3>1
    <3> QED
      BY <1>1, <1>3, <1>10, <3>1, <3>2 DEF NamesSound
  <2> QED
    BY <2>1, <2>2, <2>3
<1>13. ConfirmsSound'
  <2>1. Answered(c, "confirm") => SetOf(c.with.ids) \subseteq imports'.gone
    BY <1>2 DEF Answered
  <2> QED
    BY <1>1, <1>2, <1>4, <1>5, <1>7, <2>1, ConfirmsSettled
<1>14. TextsAreTold'
  <2>1. CASE imports'.untold
    BY <2>1 DEF TextsAreTold
  <2>2. CASE ~imports'.untold
    <3>1. c.status = "refused" \/ c.what = "claim"
      BY <1>2, <2>2
    <3>2. ~imports.untold
      BY <1>2, <2>2
    <3>3. \A d \in sent.calls : d.what # "claim" /\ Answered(d, d.what) => d \in sent'.calls
      BY <1>6, <3>1 DEF Answered
    <3>4. Outdated' => Outdated
      BY <1>1, <1>10 DEF Outdated
    <3> QED
      BY <3>2, <3>3, <3>4 DEF ImportInv, TextsAreTold, Answered
  <2> QED
    BY <2>1, <2>2
<1> QED
  BY <1>6, <1>7, <1>11, <1>12, <1>13, <1>14 DEF ImportInv

-----------------------------------------------------------------------------
(* What is sent: requests with numbers of their own, of the dialog there is. *)

LEMMA Posting ==
    ASSUME ImportInv, NEW calls, NEW n \in Nat, sent' = [calls |-> sent.calls \cup calls, asked |-> sent.asked + n],
           dialog'.number = dialog.number, dialog'.nextKey \in Nat, dialog.nextKey <= dialog'.nextKey,
           \A c \in calls :
              /\ c = [id |-> c.id, from |-> c.from, what |-> c.what, key |-> c.key, with |-> c.with,
                      status |-> c.status, reply |-> c.reply]
              /\ c.id \in (sent.asked + 1) .. (sent.asked + n) /\ c.from = dialog.number /\ c.status = "asked"
              /\ c.what = "read" => c.key \in 1 .. dialog'.nextKey,
           \A c, d \in calls : c.id = d.id => c = d
    PROVE  /\ sent'.calls = sent.calls \cup calls /\ sent'.asked = sent.asked + n
           /\ ImportCalls'
           /\ \A what : Ours(what)' = Ours(what) \cup {c \in calls : c.what = what}
           /\ \A item : IsItem(item) => IsItem(item)'
<1>1. sent'.calls = sent.calls \cup calls /\ sent'.asked = sent.asked + n
  OBVIOUS
<1>2. \A what : Ours(what)' = Ours(what) \cup {c \in calls : c.what = what}
  BY <1>1 DEF Ours
<1>3. sent.asked \in Nat /\ dialog.number \in Nat /\ dialog.nextKey \in Nat
  BY DEF ImportInv, ImportShapes
<1>4. 0 .. sent.asked \subseteq 0 .. sent'.asked /\ 1 .. sent.asked \subseteq 1 .. sent'.asked
        /\ 1 .. dialog.nextKey \subseteq 1 .. dialog'.nextKey
  BY <1>1, <1>3
<1>5. \A item : IsItem(item) => IsItem(item)'
  BY <1>4 DEF IsItem, IsPreview
<1>6. \A c \in sent.calls : IsCall(c)'
  <2> TAKE c \in sent.calls
  <2>1. IsCall(c)
    BY DEF ImportInv, ImportCalls
  <2> QED
    BY <1>4, <2>1 DEF IsCall, IsPreview
<1>7. \A c \in calls : IsCall(c)'
  <2> TAKE c \in calls
  <2>1. c.id \in 1 .. sent'.asked
    BY <1>1, <1>3
  <2>2. c.from \in 0 .. dialog'.number
    BY <1>3
  <2> QED
    BY <2>1, <2>2 DEF IsCall
<1>8. \A c \in sent.calls, d \in calls : c.id # d.id
  <2> TAKE c \in sent.calls, d \in calls
  <2>1. c.id \in 1 .. sent.asked /\ d.id \in (sent.asked + 1) .. (sent.asked + n)
    BY DEF ImportInv, ImportCalls, IsCall
  <2> QED
    BY <1>3, <2>1
<1>9. \A c, d \in sent'.calls : c.id = d.id => c = d
  BY <1>1, <1>8 DEF ImportInv, ImportCalls
<1>10. \A c \in Ours("read")' : c.key \in 1 .. dialog'.nextKey
  BY <1>2, <1>4 DEF ImportInv, ImportCalls
<1>11. ImportCalls'
  BY <1>1, <1>6, <1>7, <1>9, <1>10 DEF ImportCalls
<1> QED
  BY <1>1, <1>2, <1>5, <1>11

(* What is sent, unless it is a confirmation, asks for nothing kept.       *)
LEMMA ConfirmsPosted ==
    ASSUME ImportInv, NEW calls, NEW n \in Nat, sent'.calls = sent.calls \cup calls, sent'.asked = sent.asked + n,
           \A what : Ours(what)' = Ours(what) \cup {c \in calls : c.what = what},
           \A c \in calls : c.what # "confirm" /\ c.status = "asked" /\ c.id \in (sent.asked + 1) .. (sent.asked + n),
           UNCHANGED server, dialog'.number = dialog.number, dialog'.open = dialog.open, dialog'.confirming = dialog.confirming,
           imports'.gone = imports.gone, PreviewIds' \subseteq PreviewIds,
           \A k \in DOMAIN items' : \/ \E j \in DOMAIN items : items[j].asked = items'[k].asked
                                    \/ items'[k].asked \notin 1 .. sent.asked
    PROVE  ConfirmsSound'
<1>1. Ours("confirm")' = Ours("confirm")
  OBVIOUS
<1>2. KeptOrGone' = KeptOrGone
  BY <1>1 DEF KeptOrGone, KeptIds, BeingConfirmed, Answered
<1>3. sent.asked \in Nat
  BY DEF ImportInv, ImportShapes
<1>4. 1 .. sent.asked \subseteq 1 .. sent'.asked /\ \A c \in calls : c.id \notin 1 .. sent.asked
  BY <1>3
<1>5. \A d \in sent'.calls : d.what = "confirm" => d \in sent.calls
  OBVIOUS
<1>6. \A d \in sent.calls : d.what = "confirm" =>
          /\ SetOf(d.with.ids) \subseteq 1 .. sent'.asked
          /\ d.from # dialog.number => /\ \A k \in DOMAIN items' : items'[k].asked \notin SetOf(d.with.ids)
                                       /\ \A c \in Ours("read")' : c.id \notin SetOf(d.with.ids)
  <2> SUFFICES ASSUME NEW d \in sent.calls, d.what = "confirm"
               PROVE  /\ SetOf(d.with.ids) \subseteq 1 .. sent'.asked
                      /\ d.from # dialog.number => /\ \A k \in DOMAIN items' : items'[k].asked \notin SetOf(d.with.ids)
                                                   /\ \A c \in Ours("read")' : c.id \notin SetOf(d.with.ids)
    OBVIOUS
  <2>1. /\ SetOf(d.with.ids) \subseteq 1 .. sent.asked
        /\ d.from # dialog.number => /\ \A k \in DOMAIN items : items[k].asked \notin SetOf(d.with.ids)
                                     /\ \A c \in Ours("read") : c.id \notin SetOf(d.with.ids)
    BY DEF ImportInv, ConfirmsSound
  <2>2. \A c \in Ours("read")' : c \in Ours("read") \/ c.id \notin 1 .. sent.asked
    BY <1>4
  <2> QED
    BY <1>4, <2>1, <2>2
<1>7. \A c \in Ours("read")' : c.status = "answered" => c \in Ours("read")
  OBVIOUS
<1>8. dialog'.open => \A c \in Ours("read")' : c.status = "answered" => c.id \in KeptOrGone'
  BY <1>2, <1>7 DEF ImportInv, ConfirmsSound
<1>9. /\ dialog'.open => \A c \in Ours("confirm")' : dialog'.confirming
      /\ \A c, d \in Ours("confirm")' : c = d
      /\ PreviewIds' \subseteq KeptOrGone'
  BY <1>1, <1>2 DEF ImportInv, ConfirmsSound
<1> QED
  BY <1>5, <1>6, <1>8, <1>9 DEF ConfirmsSound

LEMMA NamesPosted ==
    ASSUME ImportInv, NEW calls, sent'.calls = sent.calls \cup calls, \A c \in calls : c.what # "claim",
           UNCHANGED <<server, claims>>, dialog'.number = dialog.number, dialog'.open = dialog.open,
           imports'.names = imports.names, imports'.crossed = imports.crossed
    PROVE  NamesSound'
<1>1. \A d \in sent'.calls : d.what = "claim" => d \in sent.calls
  OBVIOUS
<1> QED
  BY <1>1 DEF ImportInv, NamesSound

LEMMA TextsPosted ==
    ASSUME ImportInv, NEW calls, sent'.calls = sent.calls \cup calls, UNCHANGED <<server, page>>, imports'.untold = imports.untold
    PROVE  TextsAreTold'
  BY DEF ImportInv, TextsAreTold, Outdated, Answered

(* One request sent.                                                       *)
LEMMA PostedOne ==
    ASSUME ImportInv, NEW what, NEW key, NEW with, Posts(what, key, with)
    PROVE  LET c == Call(1, what, key, with) IN
           /\ sent' = [calls |-> sent.calls \cup {c}, asked |-> sent.asked + 1]
           /\ c.id = sent.asked + 1 /\ c.from = dialog.number /\ c.what = what /\ c.key = key /\ c.with = with /\ c.status = "asked"
           /\ c = [id |-> c.id, from |-> c.from, what |-> c.what, key |-> c.key, with |-> c.with, status |-> c.status, reply |-> c.reply]
           /\ c.id \in (sent.asked + 1) .. (sent.asked + 1)
<1>1. sent.asked \in Nat
  BY DEF ImportInv, ImportShapes
<1> QED
  BY <1>1 DEF Posts, Sending, Call

LEMMA PostingOne ==
    ASSUME ImportInv, NEW c, sent' = [calls |-> sent.calls \cup {c}, asked |-> sent.asked + 1],
           dialog'.number = dialog.number, dialog'.nextKey = dialog.nextKey,
           c = [id |-> c.id, from |-> c.from, what |-> c.what, key |-> c.key, with |-> c.with, status |-> c.status, reply |-> c.reply],
           c.id \in (sent.asked + 1) .. (sent.asked + 1), c.from = dialog.number, c.status = "asked",
           c.what = "read" => c.key \in 1 .. dialog.nextKey
    PROVE  /\ sent'.calls = sent.calls \cup {c} /\ sent'.asked = sent.asked + 1 /\ sent'.asked \in Nat
           /\ ImportCalls'
           /\ \A what : Ours(what)' = Ours(what) \cup {d \in {c} : d.what = what}
           /\ \A item : IsItem(item) => IsItem(item)'
<1>1. PICK calls, n : calls = {c} /\ n = 1
  OBVIOUS
<1>2. n \in Nat /\ sent' = [calls |-> sent.calls \cup calls, asked |-> sent.asked + n]
  BY <1>1
<1>3. sent.asked \in Nat /\ dialog'.nextKey \in Nat /\ dialog.nextKey <= dialog'.nextKey
  BY DEF ImportInv, ImportShapes
<1>4. \A d \in calls :
         /\ d = [id |-> d.id, from |-> d.from, what |-> d.what, key |-> d.key, with |-> d.with, status |-> d.status, reply |-> d.reply]
         /\ d.id \in (sent.asked + 1) .. (sent.asked + n) /\ d.from = dialog.number /\ d.status = "asked"
         /\ d.what = "read" => d.key \in 1 .. dialog'.nextKey
  <2>1. \A d \in calls : d = c
    BY <1>1
  <2> QED
    BY <1>1, <2>1
<1>5. \A d, e \in calls : d.id = e.id => d = e
  BY <1>1
<1>6. /\ sent'.calls = sent.calls \cup calls /\ sent'.asked = sent.asked + n
      /\ ImportCalls'
      /\ \A what : Ours(what)' = Ours(what) \cup {d \in calls : d.what = what}
      /\ \A item : IsItem(item) => IsItem(item)'
  BY <1>2, <1>3, <1>4, <1>5, Posting
<1> QED
  BY <1>1, <1>3, <1>6

LEMMA PasteInRoomSound ==
    ASSUME ImportInv, NEW text, PasteInRoom(text)
    PROVE  ImportInv'
<1>1. PICK c : c = Call(1, "paste", 0, [text |-> text, format |-> None])
  OBVIOUS
<1>2. UNCHANGED <<dialog, items, claims, server, page, imports>>
  BY DEF PasteInRoom
<1>3. /\ sent' = [calls |-> sent.calls \cup {c}, asked |-> sent.asked + 1]
      /\ c.from = dialog.number /\ c.what = "paste" /\ c.status = "asked"
      /\ c = [id |-> c.id, from |-> c.from, what |-> c.what, key |-> c.key, with |-> c.with, status |-> c.status, reply |-> c.reply]
      /\ c.id \in (sent.asked + 1) .. (sent.asked + 1)
  BY <1>1, PostedOne DEF PasteInRoom
<1>4. sent.asked \in Nat /\ dialog.nextKey \in Nat /\ 1 \in Nat
  BY DEF ImportInv, ImportShapes
<1>5. /\ sent'.calls = sent.calls \cup {c} /\ sent'.asked = sent.asked + 1 /\ sent'.asked \in Nat
      /\ ImportCalls'
      /\ \A what : Ours(what)' = Ours(what) \cup {d \in {c} : d.what = what}
      /\ \A item : IsItem(item) => IsItem(item)'
  BY <1>2, <1>3, PostingOne
<1>6. ImportShapes'
  BY <1>2, <1>3, <1>4, <1>5 DEF ImportInv, ImportShapes
<1>7. BatchSound'
  <2>1. Ours("read")' = Ours("read")
    BY <1>3, <1>5
  <2> QED
    BY <1>2, <1>5, <2>1 DEF ImportInv, BatchSound
<1>8. DiscardsAreRead'
  BY <1>2 DEF ImportInv, DiscardsAreRead, IsRead
<1>9. NamesSound'
  BY <1>2, <1>3, <1>5, NamesPosted
<1>10. PreviewIds' = PreviewIds
  BY <1>2 DEF PreviewIds, Ready, IsRead
<1>11. ConfirmsSound'
  BY <1>2, <1>3, <1>4, <1>5, <1>10, ConfirmsPosted
<1>12. TextsAreTold'
  BY <1>2, <1>5, TextsPosted
<1> QED
  BY <1>5, <1>6, <1>7, <1>8, <1>9, <1>11, <1>12 DEF ImportInv

(* One claim at a time, with every name the page knows.                    *)
LEMMA ClaimSound ==
    ASSUME ImportInv, NEW hero \in UnmatchedHeroes, Claim(hero)
    PROVE  ImportInv'
<1> DEFINE with == [names |-> claims.known \cup {hero}, hero |-> hero]
<1>1. PICK c : c = Call(1, "claim", 0, with)
  OBVIOUS
<1>2. UNCHANGED <<dialog, items, server, page, imports>> /\ claims' = [claims EXCEPT !.claiming = hero, !.failed = FALSE]
        /\ dialog.open /\ claims.claiming = None
  BY DEF Claim
<1>3. /\ sent' = [calls |-> sent.calls \cup {c}, asked |-> sent.asked + 1]
      /\ c.from = dialog.number /\ c.what = "claim" /\ c.with = with /\ c.status = "asked"
      /\ c = [id |-> c.id, from |-> c.from, what |-> c.what, key |-> c.key, with |-> c.with, status |-> c.status, reply |-> c.reply]
      /\ c.id \in (sent.asked + 1) .. (sent.asked + 1)
  BY <1>1, PostedOne DEF Claim
<1>4. sent.asked \in Nat /\ dialog.nextKey \in Nat /\ 1 \in Nat
  BY DEF ImportInv, ImportShapes
<1>5. /\ sent'.calls = sent.calls \cup {c} /\ sent'.asked = sent.asked + 1 /\ sent'.asked \in Nat
      /\ ImportCalls'
      /\ \A what : Ours(what)' = Ours(what) \cup {d \in {c} : d.what = what}
      /\ \A item : IsItem(item) => IsItem(item)'
  BY <1>2, <1>3, PostingOne
<1>6. claims' = [claiming |-> hero, claimed |-> claims.claimed, failed |-> FALSE, known |-> claims.known]
  BY <1>2 DEF ImportInv, ImportShapes
<1>7. claims'.claiming = hero /\ claims'.known = claims.known
  BY <1>6
<1>8. ImportShapes'
  BY <1>2, <1>3, <1>4, <1>5, <1>6, <1>7 DEF ImportInv, ImportShapes
<1>9. BatchSound'
  <2>1. Ours("read")' = Ours("read")
    BY <1>3, <1>5
  <2> QED
    BY <1>2, <1>5, <2>1 DEF ImportInv, BatchSound
<1>10. DiscardsAreRead'
  BY <1>2 DEF ImportInv, DiscardsAreRead, IsRead
<1>11. NamesSound'
  <2>1. CASE imports.crossed
    BY <1>2, <2>1 DEF NamesSound
  <2>2. CASE ~imports.crossed
    <3>1. /\ imports.names \subseteq claims.known /\ imports.names \subseteq server.names
          /\ \A d \in sent.calls : d.what # "claim"
      BY <1>2, <2>2 DEF ImportInv, NamesSound
    <3>2. c.with.names = claims.known \cup {hero} /\ c.with.hero = hero
      BY <1>3
    <3>3. \A d \in sent'.calls : d.what = "claim" => d = c
      BY <1>5, <3>1
    <3>4. hero # None
      BY DEF UnmatchedHeroes
    <3> QED
      BY <1>2, <1>3, <1>7, <3>1, <3>2, <3>3, <3>4 DEF NamesSound
  <2> QED
    BY <2>1, <2>2
<1>12. PreviewIds' = PreviewIds
  BY <1>2 DEF PreviewIds, Ready, IsRead
<1>13. ConfirmsSound'
  BY <1>2, <1>3, <1>4, <1>5, <1>12, ConfirmsPosted
<1>14. TextsAreTold'
  BY <1>2, <1>5, TextsPosted
<1> QED
  BY <1>5, <1>8, <1>9, <1>10, <1>11, <1>13, <1>14 DEF ImportInv

(* The batch confirmed asks for what its items were read into.             *)
LEMMA ConfirmBatchSound ==
    ASSUME ImportInv, ConfirmBatch
    PROVE  ImportInv'
<1>1. PICK ids \in Listings : Posts("confirm", 0, [ids |-> ids, discarded |-> LeftOut])
  BY DEF ConfirmBatch
<1>2. PICK left : left = LeftOut
  OBVIOUS
<1> DEFINE with == [ids |-> ids, discarded |-> left]
<1>3. PICK c : c = Call(1, "confirm", 0, with)
  OBVIOUS
<1>4. UNCHANGED <<items, claims, server, page, imports>> /\ dialog' = [dialog EXCEPT !.confirming = TRUE, !.failed = FALSE]
        /\ dialog.open /\ ~dialog.confirming
  BY DEF ConfirmBatch
<1>5. /\ sent' = [calls |-> sent.calls \cup {c}, asked |-> sent.asked + 1]
      /\ c.from = dialog.number /\ c.what = "confirm" /\ c.with = with /\ c.status = "asked"
      /\ c = [id |-> c.id, from |-> c.from, what |-> c.what, key |-> c.key, with |-> c.with, status |-> c.status, reply |-> c.reply]
      /\ c.id \in (sent.asked + 1) .. (sent.asked + 1)
  BY <1>1, <1>2, <1>3, PostedOne
<1>6. sent.asked \in Nat /\ dialog.nextKey \in Nat /\ 1 \in Nat
  BY DEF ImportInv, ImportShapes
<1>7. dialog' = [open |-> dialog.open, number |-> dialog.number, nextKey |-> dialog.nextKey,
                 confirming |-> TRUE, failed |-> FALSE, discardedOf |-> dialog.discardedOf]
  BY <1>4 DEF ImportInv, ImportShapes
<1>8. dialog'.open = dialog.open /\ dialog'.number = dialog.number /\ dialog'.nextKey = dialog.nextKey /\ dialog'.confirming
        /\ dialog'.discardedOf = dialog.discardedOf
  BY <1>7
<1>9. /\ sent'.calls = sent.calls \cup {c} /\ sent'.asked = sent.asked + 1 /\ sent'.asked \in Nat
      /\ ImportCalls'
      /\ \A what : Ours(what)' = Ours(what) \cup {d \in {c} : d.what = what}
      /\ \A item : IsItem(item) => IsItem(item)'
  BY <1>5, <1>8, PostingOne
<1>10. ImportShapes'
  BY <1>4, <1>5, <1>6, <1>7, <1>8, <1>9 DEF ImportInv, ImportShapes
<1>11. Ours("read")' = Ours("read")
  BY <1>5, <1>9
<1>12. BatchSound'
  BY <1>4, <1>9, <1>11 DEF ImportInv, BatchSound
<1>13. DiscardsAreRead'
  BY <1>4, <1>8 DEF ImportInv, DiscardsAreRead, IsRead
<1>14. NamesSound'
  BY <1>4, <1>5, <1>8, <1>9, NamesPosted
<1>15. TextsAreTold'
  BY <1>4, <1>9, TextsPosted
<1>16. PreviewIds' = PreviewIds /\ KeptIds' = KeptIds
  BY <1>4 DEF PreviewIds, Ready, IsRead, KeptIds
<1>17. BeingConfirmed \subseteq BeingConfirmed'
  <2>1. Ours("confirm") \subseteq Ours("confirm")'
    BY <1>9
  <2> QED
    BY <2>1 DEF BeingConfirmed, Answered
<1>18. KeptOrGone \subseteq KeptOrGone'
  BY <1>4, <1>16, <1>17 DEF KeptOrGone
<1>19. SetOf(ids) \subseteq 1 .. sent.asked
  <2>1. \A k \in DOMAIN ids : ids[k] \in PreviewIds
    BY DEF Listings
  <2>2. PreviewIds \subseteq 1 .. sent.asked
    <3> SUFFICES ASSUME NEW i \in PreviewIds
                 PROVE  i \in 1 .. sent.asked
      OBVIOUS
    <3>1. PICK k \in DOMAIN items : items[k].state = "read" /\ i = items[k].preview.id
      BY DEF PreviewIds, Ready, IsRead
    <3>2. i = items[k].asked /\ items[k].asked \in 0 .. sent.asked /\ items[k].asked # 0
      BY <3>1 DEF ImportInv, BatchSound, IsItem
    <3> QED
      BY <1>6, <3>2
  <2> QED
    BY <2>1, <2>2 DEF SetOf
<1>20. 1 .. sent.asked \subseteq 1 .. sent'.asked
  BY <1>6, <1>9
<1>21. Ours("confirm")' = {c}
  BY <1>4, <1>5, <1>9 DEF ImportInv, ConfirmsSound
<1>22. SetOf(c.with.ids) \subseteq 1 .. sent'.asked
  BY <1>5, <1>19, <1>20
<1>23. \A d \in sent'.calls : d.what = "confirm" =>
          /\ SetOf(d.with.ids) \subseteq 1 .. sent'.asked
          /\ d.from # dialog.number => /\ \A k \in DOMAIN items : items[k].asked \notin SetOf(d.with.ids)
                                       /\ \A e \in Ours("read") : e.id \notin SetOf(d.with.ids)
  <2>1. \A d \in sent.calls : d.what = "confirm" =>
          /\ SetOf(d.with.ids) \subseteq 1 .. sent'.asked
          /\ d.from # dialog.number => /\ \A k \in DOMAIN items : items[k].asked \notin SetOf(d.with.ids)
                                       /\ \A e \in Ours("read") : e.id \notin SetOf(d.with.ids)
    BY <1>20 DEF ImportInv, ConfirmsSound
  <2> QED
    BY <1>5, <1>9, <1>22, <2>1
<1>24. ConfirmsSound'
  <2>1. dialog'.open => \A d \in Ours("read")' : d.status = "answered" => d.id \in KeptOrGone'
    BY <1>8, <1>11, <1>18 DEF ImportInv, ConfirmsSound
  <2>2. PreviewIds' \subseteq KeptOrGone'
    BY <1>16, <1>18 DEF ImportInv, ConfirmsSound
  <2> QED
    BY <1>4, <1>8, <1>11, <1>21, <1>23, <2>1, <2>2 DEF ConfirmsSound
<1> QED
  BY <1>9, <1>10, <1>12, <1>13, <1>14, <1>15, <1>24 DEF ImportInv

(* Read in another format, an item waits for that reading alone.           *)
LEMMA RereadSound ==
    ASSUME ImportInv, NEW k \in DOMAIN items, NEW format, Reread(k, format)
    PROVE  ImportInv'
<1> DEFINE with == [text |-> items[k].text, format |-> format]
<1>1. PICK key, next : key = items[k].key /\ next = sent.asked + 1
  OBVIOUS
<1>2. PICK c : c = Call(1, "read", key, with)
  OBVIOUS
<1>3. /\ dialog.open /\ IsRead(items[k]) /\ UNCHANGED <<claims, server, page, imports>>
      /\ items' = [j \in DOMAIN items |->
                      IF items[j].key = key THEN [items[j] EXCEPT !.state = "reading", !.preview = None, !.asked = sent.asked + 1]
                      ELSE items[j]]
      /\ dialog' = [dialog EXCEPT !.discardedOf = PutAway(key)]
  BY <1>1 DEF Reread, Pickable, Updated
<1>4. /\ sent' = [calls |-> sent.calls \cup {c}, asked |-> sent.asked + 1]
      /\ c.from = dialog.number /\ c.what = "read" /\ c.key = key /\ c.status = "asked" /\ c.id = sent.asked + 1
      /\ c = [id |-> c.id, from |-> c.from, what |-> c.what, key |-> c.key, with |-> c.with, status |-> c.status, reply |-> c.reply]
      /\ c.id \in (sent.asked + 1) .. (sent.asked + 1)
  BY <1>1, <1>2, PostedOne DEF Reread
<1>5. sent.asked \in Nat /\ dialog.nextKey \in Nat /\ 1 \in Nat
  BY DEF ImportInv, ImportShapes
<1>6. dialog' = [open |-> dialog.open, number |-> dialog.number, nextKey |-> dialog.nextKey,
                 confirming |-> dialog.confirming, failed |-> dialog.failed, discardedOf |-> PutAway(key)]
  BY <1>3 DEF ImportInv, ImportShapes
<1>7. dialog'.open = dialog.open /\ dialog'.number = dialog.number /\ dialog'.nextKey = dialog.nextKey
        /\ dialog'.confirming = dialog.confirming /\ dialog'.discardedOf = PutAway(key)
  BY <1>6
<1>8. c.key \in 1 .. dialog.nextKey
  BY <1>1, <1>4 DEF ImportInv, BatchSound, IsItem
<1>9. /\ sent'.calls = sent.calls \cup {c} /\ sent'.asked = sent.asked + 1 /\ sent'.asked \in Nat
      /\ ImportCalls'
      /\ \A what : Ours(what)' = Ours(what) \cup {d \in {c} : d.what = what}
      /\ \A item : IsItem(item) => IsItem(item)'
  BY <1>4, <1>7, <1>8, PostingOne
<1>10. Len(items) \in Nat /\ DOMAIN items = 1 .. Len(items)
  BY BatchIndices DEF ImportInv
<1>11. DOMAIN items' = DOMAIN items /\ \A j \in DOMAIN items : j # k => items[j].key # key /\ items'[j] = items[j]
  <2>1. \A j \in DOMAIN items : j # k => items[j].key # key
    BY <1>1 DEF ImportInv, BatchSound
  <2> QED
    BY <1>3, <2>1
<1>12. PICK again : again = [items[k] EXCEPT !.state = "reading", !.preview = None, !.asked = sent.asked + 1]
  OBVIOUS
<1>13. items'[k] = again
  BY <1>1, <1>3, <1>12
<1>14. IsItem(items[k])
  BY DEF ImportInv, BatchSound
<1>15. /\ again = [key |-> key, text |-> items[k].text, preview |-> None, shown |-> items[k].shown, state |-> "reading",
                   asked |-> next]
       /\ again.key = key /\ again.text = items[k].text /\ again.preview = None /\ again.shown = items[k].shown
       /\ again.state = "reading" /\ again.asked = next
  <2>1. PICK item : item = items[k]
    OBVIOUS
  <2>2. IsItem(item) /\ again = [item EXCEPT !.state = "reading", !.preview = None, !.asked = next]
    BY <1>1, <1>12, <1>14, <2>1
  <2>3. again = [key |-> item.key, text |-> item.text, preview |-> None, shown |-> item.shown, state |-> "reading", asked |-> next]
    BY <2>2 DEF IsItem
  <2> QED
    BY <1>1, <2>1, <2>3
<1>16. ImportShapes'
  <2>1. items' = [j \in 1 .. Len(items) |-> items'[j]]
    BY <1>3, <1>10
  <2>2. items' \in Seq(SetOf(items'))
    BY <1>10, <2>1, AsSequence
  <2>3. SetOf(items)' = SetOf(items')
    BY DEF SetOf
  <2> QED
    BY <1>3, <1>4, <1>5, <1>6, <1>7, <1>9, <2>2, <2>3 DEF ImportInv, ImportShapes
<1>17. IsItem(again)'
  <2>1. next \in 0 .. sent'.asked
    BY <1>1, <1>5, <1>9
  <2>2. key \in 1 .. dialog'.nextKey
    BY <1>4, <1>7, <1>8
  <2> QED
    BY <1>15, <2>1, <2>2 DEF IsItem
<1>18. Ours("read")' = Ours("read") \cup {c}
  BY <1>4, <1>9
<1>19. \A d \in Ours("read") : d.key # key
  BY <1>1, <1>3 DEF ImportInv, BatchSound, IsRead
<1>20. BatchSound'
  <2>1. \A j \in DOMAIN items' : IsItem(items[j])'
    <3> TAKE j \in DOMAIN items'
    <3>1. PICK item : item = items'[j]
      OBVIOUS
    <3>2. IsItem(item)'
      BY <1>9, <1>11, <1>13, <1>17, <3>1 DEF ImportInv, BatchSound
    <3> QED
      BY <3>1, <3>2
  <2>2. \A j \in DOMAIN items : items'[j].key = items[j].key
    BY <1>1, <1>11, <1>13, <1>15
  <2>3. \A i, j \in DOMAIN items' : items'[i].key = items'[j].key => i = j
    BY <1>11, <2>2 DEF ImportInv, BatchSound
  <2>4. \A j \in DOMAIN items', d \in Ours("read")' : d.key = items'[j].key => items'[j].state = "reading" /\ d.id = items'[j].asked
    <3> SUFFICES ASSUME NEW j \in DOMAIN items, NEW d \in Ours("read") \cup {c}, d.key = items[j].key
                 PROVE  items'[j].state = "reading" /\ d.id = items'[j].asked
      BY <1>11, <1>18, <2>2
    <3>1. CASE j = k
      <4>1. d = c
        BY <1>1, <1>19, <3>1
      <4> QED
        BY <1>1, <1>4, <1>13, <1>15, <3>1, <4>1
    <3>2. CASE j # k
      <4>1. d # c
        BY <1>4, <1>11, <3>2
      <4> QED
        BY <1>11, <3>2, <4>1 DEF ImportInv, BatchSound
    <3> QED
      BY <3>1, <3>2
  <2>5. \A j \in DOMAIN items' : items'[j].state = "reading" => \E d \in Ours("read")' : d.key = items'[j].key
    <3> SUFFICES ASSUME NEW j \in DOMAIN items, items'[j].state = "reading"
                 PROVE  \E d \in Ours("read") \cup {c} : d.key = items[j].key
      BY <1>11, <1>18, <2>2
    <3>1. CASE j = k
      BY <1>1, <1>4, <3>1
    <3>2. CASE j # k
      BY <1>11, <3>2 DEF ImportInv, BatchSound
    <3> QED
      BY <3>1, <3>2
  <2> QED
    BY <2>1, <2>3, <2>4, <2>5 DEF BatchSound
<1>21. DiscardsAreRead'
  <2> SUFFICES ASSUME dialog.open, PutAway(key) # None
               PROVE  \E j \in DOMAIN items' : items'[j].key = PutAway(key) /\ items'[j].state = "read"
    BY <1>7 DEF DiscardsAreRead, IsRead
  <2>1. PutAway(key) = dialog.discardedOf /\ dialog.discardedOf # key /\ dialog.discardedOf # None
    BY DEF PutAway
  <2>2. PICK j \in DOMAIN items : items[j].key = dialog.discardedOf /\ items[j].state = "read"
    BY <2>1 DEF ImportInv, DiscardsAreRead, IsRead
  <2>3. j # k
    BY <1>1, <2>1, <2>2
  <2> QED
    BY <1>11, <2>1, <2>2, <2>3
<1>22. NamesSound'
  BY <1>3, <1>4, <1>7, <1>9, NamesPosted
<1>23. TextsAreTold'
  BY <1>3, <1>9, TextsPosted
<1>24. PreviewIds' \subseteq PreviewIds
  <2> SUFFICES ASSUME NEW i \in PreviewIds'
               PROVE  i \in PreviewIds
    OBVIOUS
  <2>1. PICK j \in DOMAIN items : items'[j].state = "read" /\ items'[j].preview.hands # <<>> /\ i = items'[j].preview.id
    BY <1>11 DEF PreviewIds, Ready, IsRead
  <2>2. j # k
    BY <1>13, <1>15, <2>1
  <2>3. items'[j] = items[j]
    BY <1>11, <2>2
  <2> QED
    BY <2>1, <2>3 DEF PreviewIds, Ready, IsRead
<1>25. ConfirmsSound'
  <2>1. \A j \in DOMAIN items' : \/ \E i \in DOMAIN items : items[i].asked = items'[j].asked
                                 \/ items'[j].asked \notin 1 .. sent.asked
    <3>1. next \notin 1 .. sent.asked
      BY <1>1, <1>5
    <3> QED
      BY <1>11, <1>13, <1>15, <3>1
  <2>2. \A d \in {c} : d.what # "confirm" /\ d.status = "asked" /\ d.id \in (sent.asked + 1) .. (sent.asked + 1)
    BY <1>4
  <2>3. UNCHANGED server /\ imports'.gone = imports.gone
    BY <1>3
  <2> QED
    BY <1>5, <1>7, <1>9, <1>24, <2>1, <2>2, <2>3, ConfirmsPosted
<1> QED
  BY <1>9, <1>16, <1>20, <1>21, <1>22, <1>23, <1>25 DEF ImportInv

(* Files added wait each for a request of its own, but for those too large. *)
LEMMA AddItemsSound ==
    ASSUME ImportInv, NEW added \in Seq(Texts), AddItems(added)
    PROVE  ImportInv'
<1>1. PICK M : M = Len(added)
  OBVIOUS
<1> DEFINE wanted == {m \in DOMAIN added : ~TooLarge(added[m])}
           calls == {Call(n, "read", dialog.nextKey + n, [text |-> added[n], format |-> None]) : n \in wanted}
           more == [n \in DOMAIN added |-> Item(n, added[n])]
<1>2. M \in Nat /\ DOMAIN added = 1 .. M
  BY <1>1
<1>3. sent.asked \in Nat /\ dialog.nextKey \in Nat
  BY DEF ImportInv, ImportShapes
<1>4. /\ dialog.open /\ UNCHANGED <<claims, server, page>> /\ items' = items \o more
      /\ dialog' = [dialog EXCEPT !.nextKey = @ + M, !.failed = FALSE]
      /\ sent' = [calls |-> sent.calls \cup calls, asked |-> sent.asked + M]
      /\ imports' = [imports EXCEPT !.added = @ + M]
  BY <1>1 DEF AddItems, Sending
<1>5. dialog' = [open |-> dialog.open, number |-> dialog.number, nextKey |-> dialog.nextKey + M,
                 confirming |-> dialog.confirming, failed |-> FALSE, discardedOf |-> dialog.discardedOf]
  BY <1>4 DEF ImportInv, ImportShapes
<1>6. dialog'.open = dialog.open /\ dialog'.number = dialog.number /\ dialog'.nextKey = dialog.nextKey + M
        /\ dialog'.confirming = dialog.confirming /\ dialog'.discardedOf = dialog.discardedOf
  BY <1>5
<1>7. imports' = [names |-> imports.names, crossed |-> imports.crossed, gone |-> imports.gone,
                  untold |-> imports.untold, added |-> imports.added + M, failed |-> imports.failed]
  BY <1>4 DEF ImportInv, ImportShapes
<1>8. imports'.names = imports.names /\ imports'.crossed = imports.crossed /\ imports'.gone = imports.gone
        /\ imports'.untold = imports.untold
  BY <1>7
<1>9. \A n \in wanted :
         LET c == Call(n, "read", dialog.nextKey + n, [text |-> added[n], format |-> None]) IN
         /\ c.id = sent.asked + n /\ c.from = dialog.number /\ c.what = "read" /\ c.key = dialog.nextKey + n /\ c.status = "asked"
         /\ c = [id |-> c.id, from |-> c.from, what |-> c.what, key |-> c.key, with |-> c.with, status |-> c.status, reply |-> c.reply]
  BY DEF Call
<1>10. \A c \in calls : \E n \in wanted :
         /\ c.id = sent.asked + n /\ c.from = dialog.number /\ c.what = "read" /\ c.key = dialog.nextKey + n /\ c.status = "asked"
         /\ c = [id |-> c.id, from |-> c.from, what |-> c.what, key |-> c.key, with |-> c.with, status |-> c.status, reply |-> c.reply]
  BY <1>9
<1>11. \A n \in wanted : \E c \in calls : c.id = sent.asked + n /\ c.key = dialog.nextKey + n /\ c.what = "read"
  BY <1>9
<1>12. \A c, d \in calls : c.id = d.id => c = d
  <2> SUFFICES ASSUME NEW m \in wanted, NEW n \in wanted,
                      Call(m, "read", dialog.nextKey + m, [text |-> added[m], format |-> None]).id
                        = Call(n, "read", dialog.nextKey + n, [text |-> added[n], format |-> None]).id
               PROVE  m = n
    OBVIOUS
  <2>1. sent.asked + m = sent.asked + n
    BY <1>9
  <2> QED
    BY <1>2, <1>3, <2>1
<1>13. \A n \in DOMAIN added :
         LET item == Item(n, added[n]) IN
         /\ item = [key |-> item.key, text |-> item.text, preview |-> item.preview, shown |-> item.shown,
                    state |-> item.state, asked |-> item.asked]
         /\ item.key = dialog.nextKey + n /\ item.preview = None /\ item.shown = 0
         /\ (n \in wanted => item.state = "reading" /\ item.asked = sent.asked + n)
         /\ (n \notin wanted => item.state = "failed" /\ item.asked = 0)
  BY DEF Item
<1>14. \A n \in DOMAIN added : more[n] = Item(n, added[n])
  OBVIOUS
<1>15. DOMAIN more = 1 .. M /\ more = [n \in 1 .. M |-> more[n]]
  BY <1>2
<1> HIDE DEF calls, more, wanted
<1>16. more \in Seq(SetOf(more)) /\ Len(more) = M
  BY <1>2, <1>15, AsSequence
<1>17. /\ sent'.calls = sent.calls \cup calls /\ sent'.asked = sent.asked + M
       /\ ImportCalls'
       /\ \A what : Ours(what)' = Ours(what) \cup {c \in calls : c.what = what}
       /\ \A item : IsItem(item) => IsItem(item)'
  <2>1. wanted \subseteq 1 .. M
    BY <1>2 DEF wanted
  <2>2. \A c \in calls :
           /\ c = [id |-> c.id, from |-> c.from, what |-> c.what, key |-> c.key, with |-> c.with, status |-> c.status, reply |-> c.reply]
           /\ c.id \in (sent.asked + 1) .. (sent.asked + M) /\ c.from = dialog.number /\ c.status = "asked"
           /\ c.what = "read" => c.key \in 1 .. dialog'.nextKey
    <3> TAKE c \in calls
    <3>1. PICK n \in wanted :
             /\ c.id = sent.asked + n /\ c.from = dialog.number /\ c.what = "read" /\ c.key = dialog.nextKey + n /\ c.status = "asked"
             /\ c = [id |-> c.id, from |-> c.from, what |-> c.what, key |-> c.key, with |-> c.with, status |-> c.status, reply |-> c.reply]
      BY <1>10
    <3>2. n \in 1 .. M
      BY <2>1
    <3>3. sent.asked + n \in (sent.asked + 1) .. (sent.asked + M) /\ dialog.nextKey + n \in 1 .. dialog.nextKey + M
      BY <1>2, <1>3, <3>2
    <3> QED
      BY <1>6, <3>1, <3>3
  <2>3. dialog'.nextKey \in Nat /\ dialog.nextKey <= dialog'.nextKey
    BY <1>2, <1>3, <1>6
  <2> QED
    BY <1>2, <1>4, <1>6, <1>12, <2>2, <2>3, Posting
<1>18. PICK L : L = Len(items) /\ L \in Nat /\ DOMAIN items = 1 .. L
  BY BatchIndices DEF ImportInv
<1>19. /\ items' \in Seq(SetOf(items')) /\ DOMAIN items' = 1 .. (L + M)
       /\ \A k \in 1 .. L : items'[k] = items[k]
       /\ \A n \in 1 .. M : items'[L + n] = more[n]
  BY <1>4, <1>16, <1>18, Concatenated DEF ImportInv, ImportShapes
<1>20. \A k \in DOMAIN items' : k \in 1 .. L \/ \E n \in 1 .. M : k = L + n
  <2> SUFFICES ASSUME NEW k \in 1 .. (L + M), k \notin 1 .. L
               PROVE  \E n \in 1 .. M : k = L + n
    BY <1>19
  <2>1. k - L \in 1 .. M /\ k = L + (k - L)
    BY <1>2, <1>18
  <2> QED
    BY <2>1
<1>21. \A n \in 1 .. M :
         /\ items'[L + n].key = dialog.nextKey + n /\ items'[L + n].shown = 0
         /\ (n \in wanted => items'[L + n].state = "reading" /\ items'[L + n].asked = sent.asked + n)
         /\ (n \notin wanted => items'[L + n].state = "failed" /\ items'[L + n].asked = 0)
  BY <1>2, <1>13, <1>14, <1>19
<1>22. \A k \in 1 .. L : items[k].key \in 1 .. dialog.nextKey /\ IsItem(items[k])
  BY <1>18 DEF ImportInv, BatchSound, IsItem
<1>23. ImportShapes'
  <2>1. dialog'.nextKey \in Nat /\ sent'.asked \in Nat
    BY <1>2, <1>3, <1>6, <1>17
  <2>2. SetOf(items)' = SetOf(items')
    BY DEF SetOf
  <2> QED
    BY <1>4, <1>5, <1>6, <1>7, <1>8, <1>17, <1>19, <2>1, <2>2 DEF ImportInv, ImportShapes
<1>24. \A k \in DOMAIN items' : IsItem(items[k])'
  <2> TAKE k \in DOMAIN items'
  <2>1. PICK item : item = items'[k]
    OBVIOUS
  <2>2. CASE k \in 1 .. L
    BY <1>17, <1>19, <1>22, <2>1, <2>2
  <2>3. ASSUME NEW n \in 1 .. M, k = L + n
        PROVE  IsItem(item)'
    <3>1. /\ item = [key |-> item.key, text |-> item.text, preview |-> item.preview, shown |-> item.shown,
                     state |-> item.state, asked |-> item.asked]
          /\ item.key = dialog.nextKey + n /\ item.shown = 0
          /\ (n \in wanted => item.state = "reading" /\ item.asked = sent.asked + n)
          /\ (n \notin wanted => item.state = "failed" /\ item.asked = 0)
      BY <1>2, <1>13, <1>14, <1>19, <2>1, <2>3
    <3>2. dialog.nextKey + n \in 1 .. dialog'.nextKey /\ sent.asked + n \in 0 .. sent'.asked /\ 0 \in 0 .. sent'.asked
      BY <1>2, <1>3, <1>6, <1>17
    <3> QED
      BY <3>1, <3>2 DEF IsItem
  <2>4. IsItem(item)'
    BY <1>20, <2>1, <2>2, <2>3
  <2> QED
    BY <2>1, <2>4
<1>25. \A j, k \in DOMAIN items' : items'[j].key = items'[k].key => j = k
  <2> SUFFICES ASSUME NEW j \in DOMAIN items', NEW k \in DOMAIN items', items'[j].key = items'[k].key
               PROVE  j = k
    OBVIOUS
  <2>1. CASE j \in 1 .. L /\ k \in 1 .. L
    BY <1>18, <1>19, <2>1 DEF ImportInv, BatchSound
  <2>2. ASSUME NEW n \in 1 .. M, NEW i \in 1 .. L
        PROVE  items'[L + n].key # items'[i].key
    <3>1. items'[L + n].key = dialog.nextKey + n /\ items'[i].key \in 1 .. dialog.nextKey
      BY <1>19, <1>21, <1>22
    <3> QED
      BY <1>2, <1>3, <3>1
  <2>3. ASSUME NEW m \in 1 .. M, NEW n \in 1 .. M, items'[L + m].key = items'[L + n].key
        PROVE  m = n
    BY <1>2, <1>3, <1>21, <2>3
  <2> QED
    BY <1>20, <2>1, <2>2, <2>3
<1>26. Ours("read")' = Ours("read") \cup calls
  BY <1>10, <1>17
<1>27. \A d \in Ours("read") : d.key \in 1 .. dialog.nextKey
  BY DEF ImportInv, ImportCalls
<1>28. \A k \in DOMAIN items', d \in Ours("read")' : d.key = items'[k].key => items'[k].state = "reading" /\ d.id = items'[k].asked
  <2> SUFFICES ASSUME NEW k \in DOMAIN items', NEW d \in Ours("read") \cup calls, d.key = items'[k].key
               PROVE  items'[k].state = "reading" /\ d.id = items'[k].asked
    BY <1>26
  <2>1. CASE d \in Ours("read") /\ k \in 1 .. L
    BY <1>18, <1>19, <2>1 DEF ImportInv, BatchSound
  <2>2. CASE d \in Ours("read") /\ k \notin 1 .. L
    <3>1. PICK n \in 1 .. M : k = L + n
      BY <1>20, <2>2
    <3>2. d.key = dialog.nextKey + n /\ d.key \in 1 .. dialog.nextKey
      BY <1>21, <1>27, <2>2, <3>1
    <3> QED
      BY <1>2, <1>3, <3>2
  <2>3. CASE d \in calls
    <3>1. PICK n \in wanted : d.id = sent.asked + n /\ d.key = dialog.nextKey + n
      BY <1>10, <2>3
    <3>2. n \in 1 .. M
      BY <1>2 DEF wanted
    <3>3. k \notin 1 .. L
      <4>1. SUFFICES ASSUME k \in 1 .. L
                     PROVE  FALSE
        OBVIOUS
      <4>2. items'[k].key \in 1 .. dialog.nextKey
        BY <1>19, <1>22, <4>1
      <4> QED
        BY <1>2, <1>3, <3>1, <3>2, <4>2
    <3>4. PICK m \in 1 .. M : k = L + m
      BY <1>20, <3>3
    <3>5. items'[k].key = dialog.nextKey + m
      BY <1>21, <3>4
    <3>6. dialog.nextKey + m = dialog.nextKey + n
      BY <2>3, <3>1, <3>5
    <3>7. m = n
      BY <1>2, <1>3, <3>2, <3>6
    <3> QED
      BY <1>21, <3>1, <3>2, <3>4, <3>7
  <2> QED
    BY <2>1, <2>2, <2>3
<1>29. \A k \in DOMAIN items' : items'[k].state = "reading" => \E d \in Ours("read")' : d.key = items'[k].key
  <2> SUFFICES ASSUME NEW k \in DOMAIN items', items'[k].state = "reading"
               PROVE  \E d \in Ours("read") \cup calls : d.key = items'[k].key
    BY <1>26
  <2>1. CASE k \in 1 .. L
    BY <1>18, <1>19, <2>1 DEF ImportInv, BatchSound
  <2>2. CASE k \notin 1 .. L
    <3>1. PICK n \in 1 .. M : k = L + n
      BY <1>20, <2>2
    <3>2. n \in wanted /\ items'[k].key = dialog.nextKey + n
      BY <1>21, <3>1
    <3> QED
      BY <1>11, <3>2
  <2> QED
    BY <2>1, <2>2
<1>30. BatchSound'
  BY <1>24, <1>25, <1>28, <1>29 DEF BatchSound
<1>31. DiscardsAreRead'
  <2> SUFFICES ASSUME dialog.open, dialog.discardedOf # None
               PROVE  \E k \in DOMAIN items' : items'[k].key = dialog.discardedOf /\ items'[k].state = "read"
    BY <1>6 DEF DiscardsAreRead, IsRead
  <2>1. PICK k \in 1 .. L : items[k].key = dialog.discardedOf /\ items[k].state = "read"
    BY <1>18 DEF ImportInv, DiscardsAreRead, IsRead
  <2>2. k \in 1 .. (L + M)
    BY <1>2, <1>18
  <2> QED
    BY <1>19, <2>1, <2>2
<1>32. NamesSound'
  <2>1. \A c \in calls : c.what # "claim"
    BY <1>10
  <2> QED
    BY <1>4, <1>6, <1>8, <1>17, <2>1, NamesPosted
<1>33. TextsAreTold'
  BY <1>4, <1>8, <1>17, TextsPosted
<1>34. PreviewIds' \subseteq PreviewIds
  <2> SUFFICES ASSUME NEW i \in PreviewIds'
               PROVE  i \in PreviewIds
    OBVIOUS
  <2>1. PICK k \in DOMAIN items' : items'[k].state = "read" /\ items'[k].preview.hands # <<>> /\ i = items'[k].preview.id
    BY DEF PreviewIds, Ready, IsRead
  <2>2. k \in 1 .. L
    <3>1. \A n \in 1 .. M : items'[L + n].state # "read"
      BY <1>21
    <3> QED
      BY <1>20, <2>1, <3>1
  <2>3. items'[k] = items[k] /\ k \in DOMAIN items
    BY <1>18, <1>19, <2>2
  <2> QED
    BY <2>1, <2>3 DEF PreviewIds, Ready, IsRead
<1>35. \A k \in DOMAIN items' : \/ \E j \in DOMAIN items : items[j].asked = items'[k].asked
                                \/ items'[k].asked \notin 1 .. sent.asked
  <2> TAKE k \in DOMAIN items'
  <2>1. CASE k \in 1 .. L
    BY <1>18, <1>19, <2>1
  <2>2. CASE k \notin 1 .. L
    <3>1. PICK n \in 1 .. M : k = L + n
      BY <1>20, <2>2
    <3>2. items'[k].asked = sent.asked + n \/ items'[k].asked = 0
      BY <1>21, <3>1
    <3>3. sent.asked + n \notin 1 .. sent.asked /\ 0 \notin 1 .. sent.asked
      BY <1>2, <1>3
    <3> QED
      BY <3>2, <3>3
  <2> QED
    BY <2>1, <2>2
<1>36. ConfirmsSound'
  <2>1. \A c \in calls : c.what # "confirm" /\ c.status = "asked" /\ c.id \in (sent.asked + 1) .. (sent.asked + M)
    <3> TAKE c \in calls
    <3>1. PICK n \in wanted : c.what = "read" /\ c.status = "asked" /\ c.id = sent.asked + n
      BY <1>10
    <3>2. n \in 1 .. M
      BY <1>2 DEF wanted
    <3>3. sent.asked + n \in (sent.asked + 1) .. (sent.asked + M)
      BY <1>2, <1>3, <3>2
    <3> QED
      BY <3>1, <3>3
  <2>2. UNCHANGED server
    BY <1>4
  <2> QED
    BY <1>2, <1>6, <1>8, <1>17, <1>34, <1>35, <2>1, <2>2, ConfirmsPosted
<1> QED
  BY <1>17, <1>23, <1>30, <1>31, <1>32, <1>33, <1>36 DEF ImportInv

-----------------------------------------------------------------------------
LEMMA ImportStarts ==
    ASSUME ImportInit
    PROVE  ImportInv
<1>1. /\ dialog = [open |-> FALSE, number |-> 0, nextKey |-> 0, confirming |-> FALSE, failed |-> FALSE, discardedOf |-> None]
      /\ items = <<>>
      /\ claims = [claiming |-> None, claimed |-> None, failed |-> FALSE, known |-> OwnNames]
      /\ sent = [calls |-> {}, asked |-> 0]
      /\ server = [names |-> OwnNames, previews |-> {}, queue |-> Before, texts |-> {}]
      /\ page = [outcome |-> None, fetched |-> {}]
      /\ imports = [names |-> {}, crossed |-> FALSE, gone |-> {}, untold |-> FALSE, added |-> 0, failed |-> 0]
  BY DEF ImportInit
<1>2. DOMAIN items = {} /\ PreviewIds = {} /\ items \in Seq(SetOf(items))
  BY <1>1 DEF SetOf, PreviewIds
<1>3. ImportShapes
  BY <1>1, <1>2 DEF ImportShapes
<1>4. sent.calls = {} /\ \A what : Ours(what) = {}
  BY <1>1 DEF Ours
<1>5. ImportCalls /\ BatchSound /\ DiscardsAreRead /\ ConfirmsSound
  BY <1>1, <1>2, <1>4 DEF ImportCalls, BatchSound, DiscardsAreRead, ConfirmsSound
<1>6. NamesSound /\ TextsAreTold
  BY <1>1, <1>4 DEF NamesSound, TextsAreTold, Outdated
<1> QED
  BY <1>3, <1>5, <1>6 DEF ImportInv

LEMMA AdditionsAreSequences ==
    ASSUME NEW added \in Additions
    PROVE  added \in Seq(Texts)
<1>1. CASE added \in {<<x>> : x \in Texts}
  <2>1. PICK x \in Texts : added = <<x>>
    BY <1>1
  <2> QED
    BY <2>1
<1>2. CASE added \in {<<x, y>> : x, y \in Texts}
  <2>1. PICK x \in Texts, y \in Texts : added = <<x, y>>
    BY <1>2
  <2> QED
    BY <2>1
<1> QED
  BY <1>1, <1>2 DEF Additions

LEMMA ImportSteps ==
    ASSUME ImportInv, [ImportNext]_importVars
    PROVE  ImportInv'
<1>1. CASE UNCHANGED importVars
  <2>1. UNCHANGED <<dialog, items, claims, sent, server, page, imports>>
    BY <1>1 DEF importVars
  <2>2. ImportCalls' /\ BatchSound' /\ \A what : Ours(what)' = Ours(what)
    BY <2>1, RequestsFrame DEF ImportInv
  <2>3. ConfirmsSound' /\ NamesSound'
    BY <2>1, <2>2, ConfirmsFrame, NamesFrame DEF ImportInv
  <2>4. ImportShapes'
    BY <2>1 DEF ImportInv, ImportShapes, SetOf
  <2>5. DiscardsAreRead' /\ TextsAreTold'
    BY <2>1 DEF ImportInv, DiscardsAreRead, IsRead, TextsAreTold, Outdated, Answered
  <2> QED
    BY <2>2, <2>3, <2>4, <2>5 DEF ImportInv
<1>2. CASE OpenDialog
  BY <1>2, OpenDialogSound
<1>3. CASE CloseDialog
  BY <1>3, CloseDialogSound
<1>4. CASE ConfirmBatch
  BY <1>4, ConfirmBatchSound
<1>5. CASE HourPasses
  BY <1>5, HourPassesSound
<1>6. CASE BackFromDiscarded
  BY <1>6, BackFromDiscardedSound
<1>7. CASE OutcomePasses
  BY <1>7, OutcomePassesSound
<1>8. ASSUME NEW added \in Additions, AddItems(added)
      PROVE  ImportInv'
  BY <1>8, AdditionsAreSequences, AddItemsSound
<1>9. ASSUME NEW text \in Texts, PasteInRoom(text)
      PROVE  ImportInv'
  BY <1>9, PasteInRoomSound
<1>10. ASSUME NEW k \in DOMAIN items, RemoveItem(k) \/ ShowDiscarded(k) \/ \E format \in Formats : Reread(k, format)
       PROVE  ImportInv'
  BY <1>10, RemoveItemSound, ShowDiscardedSound, RereadSound
<1>11. ASSUME NEW hero \in UnmatchedHeroes, Claim(hero)
       PROVE  ImportInv'
  BY <1>11, ClaimSound
<1>12. ASSUME NEW c \in sent.calls, ServeReading(c) \/ ServeConfirmation(c) \/ ServePaste(c) \/ SetScreenNames(c)
       PROVE  ImportInv'
  BY <1>12, ServeReadingSound, ServeConfirmationSound, ServePasteSound, SetScreenNamesSound
<1>13. ASSUME NEW c \in sent.calls, TakeReading(c) \/ TakeClaim(c) \/ TakeConfirmation(c) \/ TakePaste(c) \/ Fail(c)
       PROVE  ImportInv'
  BY <1>13, TakeReadingSound, TakeClaimSound, TakeConfirmationSound, TakePasteSound, FailSound
<1>14. ASSUME NEW k \in DOMAIN Before, FetchHandOf(k)
       PROVE  ImportInv'
  BY <1>14, FetchHandOfSound
<1> QED
  BY <1>1, <1>2, <1>3, <1>4, <1>5, <1>6, <1>7, <1>8, <1>9, <1>10, <1>11, <1>12, <1>13, <1>14 DEF ImportNext

LEMMA ImportInvShows ==
    ASSUME ImportInv
    PROVE  ShowsTheLastReading
<1>1. ItemsAreLast
  <2> SUFFICES ASSUME NEW k \in DOMAIN items, ~Unanswered(items[k])
               PROVE  items[k].state # "reading" /\ items[k].shown = items[k].asked
    BY DEF ItemsAreLast
  <2>1. dialog.open
    <3>1. items = <<>> => DOMAIN items = {}
      OBVIOUS
    <3> QED
      BY <3>1 DEF ImportInv, ImportShapes
  <2>2. items[k].state # "reading"
    BY <2>1 DEF ImportInv, BatchSound, Unanswered, IsOf, Ours
  <2> QED
    BY <2>2 DEF ImportInv, BatchSound, IsItem
<1>2. NamesStay
  BY DEF ImportInv, NamesSound, NamesStay
<1>3. StillConfirmable
  <2> SUFFICES ASSUME dialog.open, ~dialog.confirming
               PROVE  PreviewIds \subseteq KeptIds \cup imports.gone
    BY DEF StillConfirmable
  <2>1. Ours("confirm") = {}
    BY DEF ImportInv, ConfirmsSound
  <2>2. BeingConfirmed = {}
    BY <2>1 DEF BeingConfirmed
  <2> QED
    BY <2>2 DEF ImportInv, ConfirmsSound, KeptOrGone
<1> QED
  BY <1>1, <1>2, <1>3 DEF ImportInv, ShowsTheLastReading

(* What the dialog shows of an item is the last reading asked for it; the discards shown are of a reading there is; *)
(* a name added stays; what can be confirmed the server has kept, but for the previews known to be gone; and Hands  *)
(* fetched before they got their text are forgotten: for every text, format, Queue and bound.                       *)
THEOREM DialogShowsTheLastReading == ImportSpec => []ShowsTheLastReading
<1>1. ImportInit => ImportInv
  BY ImportStarts
<1>2. ImportInv /\ [ImportNext]_importVars => ImportInv'
  BY ImportSteps
<1>3. ImportInv => ShowsTheLastReading
  BY ImportInvShows
<1> QED
  BY <1>1, <1>2, <1>3, PTL DEF ImportSpec
=============================================================================
