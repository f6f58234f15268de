---------------------------- MODULE RoomsProofs -----------------------------
(***************************************************************************)
(* A browser that says "synced" tells the truth, for any number of         *)
(* browsers, changes, drops and restarts, whenever the Room closes.        *)
(*                                                                         *)
(* NeverOlder is not inductive: it has to be known of everything a browser *)
(* may yet receive.  So the invariant says it of the messages on the wire  *)
(* (WireOK) and of the snapshots being drawn (DrawingOK) too, and says how *)
(* the history told to the Room grows (ToldOK).  The order of the wire is  *)
(* never used: a message is right whenever it arrives.                     *)
(*                                                                         *)
(* Nor does a browser that has been in the Room before miss a change       *)
(* unawares (NoSilentHole).  That rests on a browser joining once on each  *)
(* connection and on snapshots reaching only those in the Room, and so     *)
(* told of all that follows: Seat says so of each browser by itself.       *)
(*                                                                         *)
(* No closing discards a Hand somebody keeps or leaves one nobody does,    *)
(* for any Hands, Rooms and people and any number of transactions under    *)
(* way; and so the transactions do what KeptHands promises.                *)
(*                                                                         *)
(* There the invariant says of each transaction what a closing holds       *)
(* and what an import has referred to (ClosingOK, ReferringOK), and of any *)
(* two of them what the locks keep apart (Apart).                          *)
(***************************************************************************)
EXTENDS RoomSync, RoomHands, TLAPS

(* What the Room was told never shrinks, never exceeds the database, and   *)
(* between two commands is exactly the database.                           *)
ToldOK ==
    /\ \A r \in 0 .. rev : told[r] <= db
    /\ \A r, s \in 0 .. rev : r <= s => told[r] <= told[s]
    /\ ~unsent => told[rev] = db

(* Against revision n, history h and database d: a value v shown at        *)
(* revision r is no older than r, and a message says what h says.          *)
Sound(r, v, n, h, d) == r \in 0 .. n /\ h[r] <= v /\ v <= d

Good(m, n, h, d) ==
    /\ m.type = "change" => m.rev \in 1 .. n /\ m.val = h[m.rev]
    /\ m.type = "other" => m.rev \in 1 .. n /\ h[m.rev] = h[m.rev - 1]
    /\ m.type = "closed" => FALSE
    /\ m.type = "snapshot" => Sound(m.rev, m.val, n, h, d)

WireOK ==
    room # "gone" =>
        \A c \in Client : \A i \in 1 .. Len(toClient[c]) :
            Good(toClient[c][i], rev, told, db)

DrawingOK ==
    room # "gone" =>
        \A c \in Client, k \in Slot :
            /\ drawing[c][k].stage = "reading" => drawing[c][k].rev \in 0 .. rev
            /\ drawing[c][k].stage = "read" =>
                   Sound(drawing[c][k].rev, drawing[c][k].val, rev, told, db)

IInv == TypeOK /\ ToldOK /\ WireOK /\ DrawingOK /\ NeverOlder

-----------------------------------------------------------------------------
(* Appending to a well-typed wire keeps it so, and adds only that message. *)
LEMMA AppendWire ==
    ASSUME NEW S, NEW s \in Seq(S), NEW e \in S
    PROVE  /\ Append(s, e) \in Seq(S)
           /\ Len(Append(s, e)) = Len(s) + 1
           /\ \A i \in 1 .. Len(s) : Append(s, e)[i] = s[i]
           /\ Append(s, e)[Len(s) + 1] = e
  OBVIOUS

(* Taking from a wire keeps it well typed; what is left was there before.  *)
LEMMA TailWire ==
    ASSUME NEW S, NEW s \in Seq(S), s # <<>>
    PROVE  /\ Tail(s) \in Seq(S) /\ Head(s) \in S /\ Head(s) = s[1]
           /\ Len(s) \in Nat /\ Len(s) >= 1
           /\ Len(Tail(s)) = Len(s) - 1
           /\ \A i \in 1 .. Len(Tail(s)) : Tail(s)[i] = s[i + 1]
  OBVIOUS

(* The reducer keeps its types (roomClient.ts reduceRoom).                 *)
LEMMA ReduceType ==
    ASSUME NEW v \in View, NEW m \in Message
    PROVE  Reduce(v, m) \in View
<1> DEFINE seen == [v EXCEPT !.seen = Larger(@, m.rev)]
           refused == [v EXCEPT !.phase = "rejected"]
<1>1. seen \in View /\ seen.revision = v.revision
  BY DEF Larger, View, Message
<1>2. TakeSnapshot(v, m) \in View
  BY DEF TakeSnapshot, Larger, View, Message
<1>3. refused \in View
  BY DEF View
<1>4. /\ [seen EXCEPT !.phase = "closed"] \in View
      /\ [seen EXCEPT !.awaiting = TRUE] \in View
      /\ [seen EXCEPT !.held = m.val, !.revision = m.rev] \in View
      /\ [seen EXCEPT !.revision = m.rev] \in View
  <2> HIDE DEF seen
  <2> QED  BY <1>1 DEF View, Message
<1>5. ApplyChange(v, m) \in View
  <2>1. \/ ApplyChange(v, m) = v
        \/ ApplyChange(v, m) = seen
        \/ ApplyChange(v, m) = [seen EXCEPT !.phase = "closed"]
        \/ ApplyChange(v, m) = [seen EXCEPT !.awaiting = TRUE]
        \/ ApplyChange(v, m) = [seen EXCEPT !.held = m.val, !.revision = m.rev]
        \/ ApplyChange(v, m) = [seen EXCEPT !.revision = m.rev]
    BY DEF ApplyChange
  <2> HIDE DEF seen
  <2> QED  BY <1>1, <1>4, <2>1
<1>6. \/ Reduce(v, m) = TakeSnapshot(v, m)
      \/ Reduce(v, m) = refused
      \/ Reduce(v, m) = ApplyChange(v, m)
  BY DEF Reduce
<1> HIDE DEF seen, refused
<1> QED  BY <1>2, <1>3, <1>5, <1>6

LEMMA OwedType ==
    ASSUME NEW v \in View
    PROVE  Owed(v) \in View
  BY DEF Owed, View

(* The steps of drawing a snapshot keep its type (room.gateway.ts          *)
(* snapshot).                                                              *)
LEMMA DrawingType ==
    /\ NoDrawing \in Drawing
    /\ \A j \in BOOLEAN : [NoDrawing EXCEPT !.stage = "admitted", !.join = j] \in Drawing
    /\ \A d \in Drawing, n \in Nat :
         /\ [d EXCEPT !.stage = "reading", !.rev = n] \in Drawing
         /\ [d EXCEPT !.stage = "read", !.val = n] \in Drawing
  BY DEF NoDrawing, Drawing

(* Changing one slot of one browser changes nothing else.                  *)
LEMMA PutDrawing ==
    ASSUME NEW f \in [Client -> [Slot -> Drawing]], NEW c \in Client, NEW k \in Slot,
           NEW d \in Drawing
    PROVE  /\ [f EXCEPT ![c][k] = d] \in [Client -> [Slot -> Drawing]]
           /\ [f EXCEPT ![c][k] = d][c][k] = d
           /\ \A b \in Client, j \in Slot :
                b # c \/ j # k => [f EXCEPT ![c][k] = d][b][j] = f[b][j]
  OBVIOUS

LEMMA EmptyWire == ASSUME NEW S PROVE <<>> \in Seq(S)
  OBVIOUS

(* The initial state is well typed.                                        *)
LEMMA InitType == Init => TypeOK
<1> SUFFICES ASSUME Init PROVE TypeOK
  OBVIOUS
<1>1. Joining \in View /\ Following \in View
  BY DEF Joining, Following, View
<1>2. drawing \in [Client -> [Slot -> Drawing]]
  BY DrawingType DEF Init
<1>3. view \in [Client -> View]
  BY <1>1 DEF Init
<1>4. toServer \in [Client -> Seq({"join", "resync"})] /\ toClient \in [Client -> Seq(Message)]
  BY EmptyWire DEF Init
<1>5. told \in [0 .. rev -> Nat]
  BY DEF Init
<1> QED  BY ClientsAssumption, <1>2, <1>3, <1>4, <1>5 DEF Init, TypeOK

(* Type correctness is preserved by every step.                            *)
LEMMA NextType == TypeOK /\ [Next]_vars => TypeOK'
<1> SUFFICES ASSUME TypeOK, [Next]_vars PROVE TypeOK'
  OBVIOUS
<1> USE DEF TypeOK
<1>1. CASE Commit
  BY <1>1 DEF Commit, wire
<1>2. CASE Publish
  <2>1. [type |-> "change", rev |-> rev + 1, val |-> db] \in Message
    BY DEF Message
  <2>2. toClient' \in [Client -> Seq(Message)]
    BY <1>2, <2>1, AppendWire DEF Publish, Broadcast
  <2>3. rev' \in Nat /\ told' \in [0 .. rev' -> Nat]
    BY <1>2 DEF Publish, Spend
  <2> QED  BY <1>2, <2>2, <2>3 DEF Publish
<1>3. CASE Close
  BY <1>3 DEF Close, wire
<1>4. CASE CloseDone
  <2>1. [type |-> "closed", rev |-> rev + 1, val |-> db] \in Message
    BY DEF Message
  <2>2. toClient' \in [Client -> Seq(Message)]
    BY <1>4, <2>1, AppendWire DEF CloseDone, Broadcast
  <2> QED  BY <1>4, <2>2 DEF CloseDone
<1>5. CASE Restart
  <2>1. drawing' \in [Client -> [Slot -> Drawing]]
    BY <1>5, DrawingType DEF Restart
  <2>2. toServer' \in [Client -> Seq({"join", "resync"})] /\ toClient' \in [Client -> Seq(Message)]
    BY <1>5, EmptyWire DEF Restart
  <2>3. told' \in [0 .. rev' -> Nat]
    BY <1>5 DEF Restart
  <2>4. sock' \in [Client -> {"down", "open", "dead"}]
    BY <1>5 DEF Restart
  <2>5. restarts' \in Nat /\ room' \in {"open", "closed", "gone"} /\ inside' \subseteq Client
    BY <1>5 DEF Restart
  <2> QED  BY <1>5, <2>1, <2>2, <2>3, <2>4, <2>5 DEF Restart
<1>6. ASSUME NEW c \in Client, Serve(c) PROVE TypeOK'
  <2>1. toServer' \in [Client -> Seq({"join", "resync"})]
    BY <1>6, TailWire DEF Serve
  <2>2. [type |-> "rejected", rev |-> 0, val |-> 0] \in Message
    BY DEF Message
  <2>3. toClient' \in [Client -> Seq(Message)]
    <3>1. Append(toClient[c], [type |-> "rejected", rev |-> 0, val |-> 0]) \in Seq(Message)
      BY <2>2, AppendWire
    <3>2. \/ toClient' = toClient
          \/ toClient' = [toClient EXCEPT ![c] =
                 Append(@, [type |-> "rejected", rev |-> 0, val |-> 0])]
      BY <1>6 DEF Serve
    <3> QED  BY <3>1, <3>2
  <2>4. drawing' \in [Client -> [Slot -> Drawing]]
    <3> DEFINE new == [NoDrawing EXCEPT !.stage = "admitted",
                                        !.join = Head(toServer[c]) = "join"]
    <3>1. new \in Drawing
      BY DEF NoDrawing, Drawing
    <3>2. \/ UNCHANGED drawing
          \/ \E k \in Slot : drawing' = [drawing EXCEPT ![c][k] = new]
      BY <1>6 DEF Serve
    <3> HIDE DEF new
    <3>3. drawing \in [Client -> [Slot -> Drawing]]
      OBVIOUS
    <3>4. ASSUME NEW k \in Slot PROVE [drawing EXCEPT ![c][k] = new] \in [Client -> [Slot -> Drawing]]
      BY <3>1, <3>3, PutDrawing
    <3> HIDE DEF TypeOK
    <3> QED  BY <3>2, <3>3, <3>4
  <2> QED  BY <1>6, <2>1, <2>3, <2>4 DEF Serve
<1>7. ASSUME NEW c \in Client, NEW k \in Slot, Enter(c, k) PROVE TypeOK'
  <2>1. [type |-> "other", rev |-> rev + 1, val |-> 0] \in Message
    BY DEF Message
  <2>2. toClient' \in [Client -> Seq(Message)]
    BY <1>7, <2>1, AppendWire DEF Enter, Broadcast
  <2>3. rev' \in Nat /\ told' \in [0 .. rev' -> Nat]
    BY <1>7 DEF Enter, Spend
  <2>4. drawing' \in [Client -> [Slot -> Drawing]]
    <3>1. rev + 1 \in Nat
      OBVIOUS
    <3>2. [drawing[c][k] EXCEPT !.stage = "reading", !.rev = rev + 1] \in Drawing
      <4>1. drawing[c][k] \in Drawing
        OBVIOUS
      <4> HIDE DEF TypeOK
      <4> QED  BY <3>1, <4>1 DEF Drawing
    <3> QED  BY <1>7, <3>2, PutDrawing DEF Enter
  <2> QED  BY <1>7, <2>2, <2>3, <2>4 DEF Enter
<1>8. ASSUME NEW c \in Client, NEW k \in Slot, Reenter(c, k) PROVE TypeOK'
  <2>1. drawing' \in [Client -> [Slot -> Drawing]]
    BY <1>8, DrawingType DEF Reenter
  <2> QED  BY <1>8, <2>1 DEF Reenter, wire
<1>9. ASSUME NEW c \in Client, NEW k \in Slot, Read(c, k) PROVE TypeOK'
  <2>1. drawing' \in [Client -> [Slot -> Drawing]]
    BY <1>9, DrawingType DEF Read
  <2> QED  BY <1>9, <2>1 DEF Read, wire
<1>10. ASSUME NEW c \in Client, NEW k \in Slot, Answer(c, k) PROVE TypeOK'
  <2>1. [type |-> "snapshot", rev |-> drawing[c][k].rev, val |-> drawing[c][k].val]
            \in Message
    BY DEF Message, Drawing
  <2>2. toClient' \in [Client -> Seq(Message)]
    BY <1>10, <2>1, AppendWire DEF Answer
  <2>3. drawing' \in [Client -> [Slot -> Drawing]]
    BY <1>10, DrawingType DEF Answer
  <2> QED  BY <1>10, <2>2, <2>3 DEF Answer
<1>11. ASSUME NEW c \in Client, Drop(c) PROVE TypeOK'
  <2>1. [type |-> "other", rev |-> rev + 1, val |-> 0] \in Message
    BY DEF Message
  <2>2. toClient' \in [Client -> Seq(Message)]
    BY <1>11, <2>1, AppendWire DEF Drop
  <2>3. rev' \in Nat /\ told' \in [0 .. rev' -> Nat]
    <3>1. CASE c \in inside
      BY <1>11, <3>1 DEF Drop, Spend
    <3>2. CASE c \notin inside
      BY <1>11, <3>2 DEF Drop
    <3> QED  BY <3>1, <3>2
  <2>4. drawing' \in [Client -> [Slot -> Drawing]]
    BY <1>11, DrawingType DEF Drop
  <2> QED  BY <1>11, <2>2, <2>3, <2>4 DEF Drop
<1>12. ASSUME NEW c \in Client, Notice(c) \/ Connect(c) PROVE TypeOK'
  <2>1. view' \in [Client -> View]
    <3>1. Owed(view[c]) \in View
      BY OwedType
    <3> QED  BY <1>12, <3>1 DEF Notice, Connect
  <2>2. sock' \in [Client -> {"down", "open", "dead"}]
    BY <1>12 DEF Notice, Connect
  <2>3. toServer' \in [Client -> Seq({"join", "resync"})]
    <3>1. <<"join">> \in Seq({"join", "resync"})
      OBVIOUS
    <3> QED  BY <1>12, <3>1 DEF Notice, Connect
  <2> QED  BY <1>12, <2>1, <2>2, <2>3 DEF Notice, Connect, server
<1>13. ASSUME NEW c \in Client, Resync(c) PROVE TypeOK'
  <2>1. toServer' \in [Client -> Seq({"join", "resync"})]
    BY <1>13, AppendWire DEF Resync
  <2> QED  BY <1>13, <2>1 DEF Resync, server
<1>14. ASSUME NEW c \in Client, Receive(c) PROVE TypeOK'
  <2>1. view' \in [Client -> View]
    BY <1>14, TailWire, ReduceType DEF Receive
  <2>2. toClient' \in [Client -> Seq(Message)]
    BY <1>14, TailWire DEF Receive
  <2> QED  BY <1>14, <2>1, <2>2 DEF Receive, server
<1>15. CASE UNCHANGED vars
  BY <1>15 DEF vars, server, wire
<1> QED
  BY <1>1, <1>2, <1>3, <1>4, <1>5, <1>6, <1>7, <1>8, <1>9, <1>10, <1>11, <1>12,
     <1>13, <1>14, <1>15 DEF Next, Browser, Draw

(* Every value the variables take is of the kind the code gives them.      *)
THEOREM TypeCorrect == Spec => []TypeOK
<1> QED  BY InitType, NextType, PTL DEF Spec

-----------------------------------------------------------------------------
(* Unless the server restarts or the Room closes, the history only grows.  *)
Grows ==
    /\ rev' \in Nat /\ rev <= rev' /\ db' \in Nat /\ db <= db'
    /\ \A r \in 0 .. rev : told'[r] = told[r]

(* Spending a revision extends the history by one entry.                   *)
LEMMA SpendGrows ==
    ASSUME TypeOK, NEW v \in Nat, Spend(v)
    PROVE  /\ rev' = rev + 1 /\ rev' \in Nat
           /\ told'[rev + 1] = v
           /\ \A r \in 0 .. rev : told'[r] = told[r]
  BY DEF TypeOK, Spend

LEMMA NextGrows ==
    ASSUME TypeOK, [Next]_vars, room' # "gone", ~Restart
    PROVE  Grows /\ room # "gone"
<1>1. CASE UNCHANGED <<db, rev, told, room>>
  BY <1>1 DEF TypeOK, Grows
<1>2. CASE Commit
  BY <1>2 DEF Commit, TypeOK, Grows
<1>3. CASE Publish
  BY <1>3, SpendGrows DEF Publish, TypeOK, Grows
<1>4. CASE Close
  BY <1>4 DEF Close, TypeOK, Grows
<1>5. CASE CloseDone
  BY <1>5 DEF CloseDone
<1>6. ASSUME NEW c \in Client, NEW k \in Slot, Enter(c, k) PROVE Grows /\ room # "gone"
  <2>1. told[rev] \in Nat /\ Spend(told[rev]) /\ UNCHANGED <<db, room>>
    BY <1>6 DEF Enter, TypeOK
  <2> QED  BY <2>1, SpendGrows DEF TypeOK, Grows
<1>7. ASSUME NEW c \in Client, Drop(c) PROVE Grows /\ room # "gone"
  <2>1. UNCHANGED <<db, room>> /\ (Spend(told[rev]) \/ UNCHANGED <<rev, told>>)
    BY <1>7 DEF Drop
  <2>2. told[rev] \in Nat
    BY DEF TypeOK
  <2> QED  BY <2>1, <2>2, SpendGrows DEF TypeOK, Grows
<1> QED
  BY <1>1, <1>2, <1>3, <1>4, <1>5, <1>6, <1>7
     DEF Next, Browser, Draw, Serve, Reenter, Read, Answer, Notice, Connect, Resync,
         Receive, server, vars

(* The history keeps its shape (ToldOK).                                   *)
LEMMA ToldNext == TypeOK /\ ToldOK /\ [Next]_vars => ToldOK'
<1> SUFFICES ASSUME TypeOK, ToldOK, [Next]_vars PROVE ToldOK'
  OBVIOUS
<1>1. ASSUME NEW v \in Nat, Spend(v), db' = db, told[rev] <= v, v <= db,
             unsent' = unsent \/ v = db, v = told[rev] \/ v = db
      PROVE  ToldOK'
  BY <1>1, SpendGrows DEF TypeOK, ToldOK
<1>2. CASE UNCHANGED <<db, unsent, rev, told>>
  BY <1>2 DEF ToldOK
<1>3. CASE Commit
  BY <1>3 DEF Commit, TypeOK, ToldOK
<1>4. CASE Publish
  <2>1. Spend(db) /\ db' = db /\ db \in Nat /\ told[rev] <= db
    BY <1>4 DEF Publish, TypeOK, ToldOK
  <2> QED  BY <1>1, <2>1 DEF TypeOK
<1>5. CASE CloseDone \/ Restart
  BY <1>5 DEF CloseDone, Restart, TypeOK, ToldOK
<1>6. ASSUME NEW c \in Client, NEW k \in Slot, Enter(c, k) PROVE ToldOK'
  BY <1>1, <1>6 DEF Enter, TypeOK, ToldOK
<1>7. ASSUME NEW c \in Client, Drop(c) PROVE ToldOK'
  <2>1. CASE c \in inside
    BY <1>1, <1>7, <2>1 DEF Drop, TypeOK, ToldOK
  <2>2. CASE c \notin inside
    BY <1>2, <1>7, <2>2 DEF Drop
  <2> QED  BY <2>1, <2>2
<1> QED
  BY <1>2, <1>3, <1>4, <1>5, <1>6, <1>7
     DEF Next, Browser, Draw, Close, Serve, Reenter, Read, Answer, Notice, Connect,
         Resync, Receive, server, vars

-----------------------------------------------------------------------------
(* What was right about the Room stays right while the history grows.      *)
LEMMA SoundStays ==
    ASSUME TypeOK, ToldOK, Grows, NEW r, NEW v, Sound(r, v, rev, told, db), v \in Nat
    PROVE  Sound(r, v, rev', told', db')
  BY DEF Sound, TypeOK, Grows

LEMMA GoodStays ==
    ASSUME TypeOK, ToldOK, Grows, NEW m \in Message, Good(m, rev, told, db)
    PROVE  Good(m, rev', told', db')
<1>1. m.rev \in Nat /\ m.val \in Nat
  BY DEF Message
<1>2. m.type = "change" => m.rev \in 1 .. rev' /\ m.val = told'[m.rev]
  BY <1>1 DEF Good, Grows, TypeOK
<1>3. m.type = "other" => m.rev \in 1 .. rev' /\ told'[m.rev] = told'[m.rev - 1]
  BY <1>1 DEF Good, Grows, TypeOK
<1>4. m.type = "snapshot" => Sound(m.rev, m.val, rev', told', db')
  BY <1>1, SoundStays DEF Good
<1> QED  BY <1>2, <1>3, <1>4 DEF Good

(* A wire with old messages and good new ones on it is right.              *)
LEMMA WireStays ==
    ASSUME TypeOK, ToldOK, WireOK, Grows, room # "gone",
           \A c \in Client : \A i \in 1 .. Len(toClient'[c]) :
               \/ \E j \in 1 .. Len(toClient[c]) : toClient'[c][i] = toClient[c][j]
               \/ Good(toClient'[c][i], rev', told', db')
    PROVE  WireOK'
<1> SUFFICES ASSUME NEW c \in Client, NEW i \in 1 .. Len(toClient'[c])
             PROVE  Good(toClient'[c][i], rev', told', db')
  BY DEF WireOK
<1>1. ASSUME NEW j \in 1 .. Len(toClient[c]) PROVE Good(toClient[c][j], rev', told', db')
  <2>1. toClient[c][j] \in Message /\ Good(toClient[c][j], rev, told, db)
    BY DEF TypeOK, WireOK
  <2> QED  BY <2>1, GoodStays
<1> QED  BY <1>1

(* Broadcasting a good message leaves every wire right.                    *)
LEMMA BroadcastStays ==
    ASSUME TypeOK, NEW type, NEW value, NEW except, Broadcast(type, value, except),
           [type |-> type, rev |-> rev + 1, val |-> value] \in Message,
           NEW c \in Client, NEW i \in 1 .. Len(toClient'[c])
    PROVE  \/ \E j \in 1 .. Len(toClient[c]) : toClient'[c][i] = toClient[c][j]
           \/ toClient'[c][i] = [type |-> type, rev |-> rev + 1, val |-> value]
<1> DEFINE m == [type |-> type, rev |-> rev + 1, val |-> value]
<1>1. toClient[c] \in Seq(Message)
  BY DEF TypeOK
<1>2. toClient'[c] = toClient[c] \/ toClient'[c] = Append(toClient[c], m)
  BY DEF Broadcast
<1> HIDE DEF m
<1>3. m \in Message
  BY DEF m
<1>4. CASE toClient'[c] = toClient[c]
  BY <1>4
<1>5. CASE toClient'[c] = Append(toClient[c], m)
  <2>1. /\ Len(toClient'[c]) = Len(toClient[c]) + 1 /\ Len(toClient[c]) \in Nat
        /\ \A j \in 1 .. Len(toClient[c]) : toClient'[c][j] = toClient[c][j]
        /\ toClient'[c][Len(toClient[c]) + 1] = m
    BY <1>1, <1>3, <1>5, AppendWire
  <2> QED  BY <2>1 DEF m
<1> QED  BY <1>2, <1>4, <1>5

(* The wire stays right (WireOK).                                          *)
LEMMA WireNext == TypeOK /\ ToldOK /\ WireOK /\ DrawingOK /\ [Next]_vars => WireOK'
<1> SUFFICES ASSUME TypeOK, ToldOK, WireOK, DrawingOK, [Next]_vars, room' # "gone"
             PROVE  WireOK'
  BY DEF WireOK
<1> DEFINE Old(c, i) == \E j \in 1 .. Len(toClient[c]) : toClient'[c][i] = toClient[c][j]
           New(c, i) == Good(toClient'[c][i], rev', told', db')
           Arrivals == \A c \in Client : \A i \in 1 .. Len(toClient'[c]) : Old(c, i) \/ New(c, i)
<1>1. CASE Restart
  BY <1>1 DEF Restart, WireOK
<1>2. ASSUME ~Restart, Arrivals PROVE WireOK'
  BY <1>2, NextGrows, WireStays
<1>3. ASSUME toClient' = toClient PROVE Arrivals
  BY <1>3
<1>4. CASE Publish
  <2>1. ~Restart
    BY <1>4 DEF Publish, Restart, Spend, TypeOK
  <2>2. [type |-> "change", rev |-> rev + 1, val |-> db] \in Message
    BY DEF Message, TypeOK
  <2>3. rev' = rev + 1 /\ told'[rev + 1] = db /\ db' = db
    BY <1>4, SpendGrows DEF Publish, TypeOK
  <2>4. Good([type |-> "change", rev |-> rev + 1, val |-> db], rev', told', db')
    BY <2>3 DEF Good, TypeOK
  <2>5. Arrivals
    BY <1>4, <2>2, <2>4, BroadcastStays DEF Publish
  <2> QED  BY <1>2, <2>1, <2>5
<1>5. ASSUME NEW c \in Client, Serve(c) PROVE ~Restart => Arrivals
  <2> DEFINE no == [type |-> "rejected", rev |-> 0, val |-> 0]
  <2>1. no \in Message /\ Good(no, rev', told', db')
    BY DEF Message, Good
  <2>2. toClient' = toClient \/ toClient' = [toClient EXCEPT ![c] = Append(@, no)]
    BY <1>5 DEF Serve
  <2>3. toClient[c] \in Seq(Message)
    BY DEF TypeOK
  <2> HIDE DEF no
  <2>4. /\ Len(Append(toClient[c], no)) = Len(toClient[c]) + 1
        /\ \A i \in 1 .. Len(toClient[c]) : Append(toClient[c], no)[i] = toClient[c][i]
        /\ Append(toClient[c], no)[Len(toClient[c]) + 1] = no
        /\ Len(toClient[c]) \in Nat
    BY <2>1, <2>3, AppendWire
  <2>5. ASSUME NEW d \in Client
        PROVE  toClient'[d] = toClient[d] \/ (d = c /\ toClient'[d] = Append(toClient[c], no))
    BY <2>2 DEF TypeOK
  <2> QED  BY <2>1, <2>4, <2>5
<1>6. ASSUME NEW c \in Client, NEW k \in Slot, Enter(c, k) PROVE Arrivals
  <2>1. [type |-> "other", rev |-> rev + 1, val |-> 0] \in Message
    BY DEF Message, TypeOK
  <2>2. told[rev] \in Nat /\ Spend(told[rev]) /\ db' = db
    BY <1>6 DEF Enter, TypeOK
  <2>3. rev' = rev + 1 /\ told'[rev + 1] = told[rev] /\ told'[rev] = told[rev]
    BY <2>2, SpendGrows DEF TypeOK
  <2>4. Good([type |-> "other", rev |-> rev + 1, val |-> 0], rev', told', db')
    BY <2>3 DEF Good, TypeOK
  <2> QED  BY <1>6, <2>1, <2>4, BroadcastStays DEF Enter
<1>7. ASSUME NEW c \in Client, NEW k \in Slot, Answer(c, k) PROVE Arrivals
  <2> DEFINE m == [type |-> "snapshot", rev |-> drawing[c][k].rev, val |-> drawing[c][k].val]
  <2>1. m \in Message
    BY DEF Message, Drawing, TypeOK
  <2>2. UNCHANGED <<rev, told, db, room>>
    BY <1>7 DEF Answer
  <2>3. Sound(drawing[c][k].rev, drawing[c][k].val, rev, told, db)
    BY <1>7, <2>2 DEF Answer, DrawingOK
  <2>4. Good(m, rev', told', db')
    BY <2>2, <2>3 DEF Good
  <2>5. toClient' = [toClient EXCEPT ![c] = Append(@, m)]
    BY <1>7 DEF Answer
  <2>6. toClient[c] \in Seq(Message)
    BY DEF TypeOK
  <2> HIDE DEF m
  <2>7. /\ Len(Append(toClient[c], m)) = Len(toClient[c]) + 1
        /\ \A i \in 1 .. Len(toClient[c]) : Append(toClient[c], m)[i] = toClient[c][i]
        /\ Append(toClient[c], m)[Len(toClient[c]) + 1] = m
        /\ Len(toClient[c]) \in Nat
    BY <2>1, <2>6, AppendWire
  <2> QED  BY <2>4, <2>5, <2>7 DEF TypeOK
<1>8. ASSUME NEW c \in Client, Drop(c) PROVE Arrivals
  <2> DEFINE m == [type |-> "other", rev |-> rev + 1, val |-> 0]
  <2>1. m \in Message
    BY DEF Message, TypeOK
  <2>2. ASSUME c \in inside PROVE Good(m, rev', told', db')
    <3>1. told[rev] \in Nat /\ Spend(told[rev]) /\ db' = db
      BY <1>8, <2>2 DEF Drop, TypeOK
    <3>2. rev' = rev + 1 /\ told'[rev + 1] = told[rev] /\ told'[rev] = told[rev]
      BY <3>1, SpendGrows DEF TypeOK
    <3> QED  BY <3>2 DEF Good, TypeOK
  <2>3. ASSUME NEW d \in Client
        PROVE  \/ toClient'[d] = <<>>
               \/ toClient'[d] = toClient[d]
               \/ c \in inside /\ toClient'[d] = Append(toClient[d], m)
    BY <1>8 DEF Drop
  <2> HIDE DEF m
  <2>4. ASSUME NEW d \in Client
        PROVE  /\ Len(Append(toClient[d], m)) = Len(toClient[d]) + 1
               /\ \A i \in 1 .. Len(toClient[d]) : Append(toClient[d], m)[i] = toClient[d][i]
               /\ Append(toClient[d], m)[Len(toClient[d]) + 1] = m
               /\ Len(toClient[d]) \in Nat
    <3>1. toClient[d] \in Seq(Message)
      BY DEF TypeOK
    <3> QED  BY <2>1, <3>1, AppendWire
  <2> QED  BY <2>2, <2>3, <2>4
<1>9. ASSUME NEW c \in Client, Receive(c) PROVE Arrivals
  <2>1. toClient[c] \in Seq(Message) /\ toClient[c] # <<>>
    BY <1>9 DEF TypeOK, Receive
  <2>2. toClient' = [toClient EXCEPT ![c] = Tail(@)]
    BY <1>9 DEF Receive
  <2>3. /\ Len(toClient[c]) \in Nat /\ Len(Tail(toClient[c])) = Len(toClient[c]) - 1
        /\ \A i \in 1 .. Len(Tail(toClient[c])) : Tail(toClient[c])[i] = toClient[c][i + 1]
    BY <2>1, TailWire
  <2>4. ASSUME NEW i \in 1 .. Len(Tail(toClient[c]))
        PROVE  \E j \in 1 .. Len(toClient[c]) : Tail(toClient[c])[i] = toClient[c][j]
    BY <2>3
  <2>5. ASSUME NEW d \in Client, NEW i \in 1 .. Len(toClient'[d]) PROVE Old(d, i)
    <3>1. CASE d = c
      <4>1. toClient'[d] = Tail(toClient[c])
        BY <2>2, <3>1 DEF TypeOK
      <4> QED  BY <2>4, <3>1, <4>1
    <3>2. CASE d # c
      <4>1. toClient'[d] = toClient[d]
        BY <2>2, <3>2 DEF TypeOK
      <4> QED  BY <4>1
    <3> QED  BY <3>1, <3>2
  <2> QED  BY <2>5
<1>10. CASE CloseDone
  BY <1>10 DEF CloseDone
<1> QED
  <2> HIDE DEF Arrivals
  <2>1. toClient' = toClient => Arrivals
    BY <1>3
  <2> QED
    BY <1>1, <1>2, <1>4, <1>5, <1>6, <1>7, <1>8, <1>9, <1>10, <2>1
       DEF Next, Browser, Draw, Commit, Close, Reenter, Read, Notice, Connect, Resync,
           server, wire, vars

(* Snapshots being drawn stay sound (DrawingOK).                           *)
LEMMA DrawingNext == TypeOK /\ ToldOK /\ DrawingOK /\ [Next]_vars => DrawingOK'
<1> SUFFICES ASSUME TypeOK, ToldOK, DrawingOK, [Next]_vars, room' # "gone",
                    NEW c \in Client, NEW k \in Slot
             PROVE  /\ drawing'[c][k].stage = "reading" => drawing'[c][k].rev \in 0 .. rev'
                    /\ drawing'[c][k].stage = "read" =>
                           Sound(drawing'[c][k].rev, drawing'[c][k].val, rev', told', db')
  BY DEF DrawingOK
<1> DEFINE OK(d) == /\ d.stage = "reading" => d.rev \in 0 .. rev'
                    /\ d.stage = "read" => Sound(d.rev, d.val, rev', told', db')
<1>1. CASE drawing'[c][k] = NoDrawing
  BY <1>1 DEF NoDrawing
<1>2. CASE ~Restart /\ drawing'[c][k] = drawing[c][k]
  <2>1. Grows /\ room # "gone"
    BY <1>2, NextGrows
  <2>2. drawing[c][k].rev \in Nat /\ drawing[c][k].val \in Nat
    BY DEF TypeOK, Drawing
  <2>3. drawing[c][k].stage = "reading" => drawing[c][k].rev \in 0 .. rev'
    BY <2>1 DEF DrawingOK, Grows, TypeOK
  <2>4. drawing[c][k].stage = "read" =>
            Sound(drawing[c][k].rev, drawing[c][k].val, rev', told', db')
    BY <2>1, <2>2, SoundStays DEF DrawingOK
  <2> QED  BY <1>2, <2>3, <2>4
<1>3. CASE Restart
  BY <1>1, <1>3 DEF Restart
<1>4. ASSUME NEW b \in Client, NEW j \in Slot, NEW d \in Drawing,
             drawing' = [drawing EXCEPT ![b][j] = d], OK(d)
      PROVE  ~Restart => OK(drawing'[c][k])
  <2>1. drawing'[c][k] = d \/ drawing'[c][k] = drawing[c][k]
    BY <1>4, PutDrawing DEF TypeOK
  <2> QED  BY <1>2, <1>4, <2>1
<1>5. ASSUME NEW b \in Client, Serve(b) PROVE ~Restart => OK(drawing'[c][k])
  <2> DEFINE new == [NoDrawing EXCEPT !.stage = "admitted",
                                      !.join = Head(toServer[b]) = "join"]
  <2>1. new \in Drawing /\ OK(new)
    BY DEF NoDrawing, Drawing
  <2>2. \/ UNCHANGED drawing
        \/ \E j \in Slot : drawing' = [drawing EXCEPT ![b][j] = new]
    BY <1>5 DEF Serve
  <2> HIDE DEF new
  <2> QED  BY <1>2, <1>4, <2>1, <2>2
<1>6. ASSUME NEW b \in Client, NEW j \in Slot, Enter(b, j) \/ Reenter(b, j)
      PROVE  ~Restart => OK(drawing'[c][k])
  <2>1. drawing' = [drawing EXCEPT ![b][j] = [drawing[b][j] EXCEPT !.stage = "reading", !.rev = rev']]
    BY <1>6 DEF Enter, Reenter, Spend
  <2>2. rev' \in Nat
    BY <1>6 DEF Enter, Reenter, Spend, TypeOK
  <2> DEFINE d == [drawing[b][j] EXCEPT !.stage = "reading", !.rev = rev']
  <2>3. drawing[b][j] \in Drawing
    BY DEF TypeOK
  <2>4. d \in Drawing /\ d.stage = "reading" /\ d.rev = rev'
    BY <2>2, <2>3 DEF Drawing
  <2> HIDE DEF d
  <2>5. drawing' = [drawing EXCEPT ![b][j] = d]
    BY <2>1 DEF d
  <2>6. OK(d)
    BY <2>2, <2>4
  <2> QED  BY <1>4, <2>4, <2>5, <2>6
<1>7. ASSUME NEW b \in Client, NEW j \in Slot, Read(b, j)
      PROVE  ~Restart => OK(drawing'[c][k])
  <2> DEFINE d == [drawing[b][j] EXCEPT !.stage = "read", !.val = db]
  <2>1. drawing[b][j] \in Drawing
    BY DEF TypeOK
  <2>2. d \in Drawing /\ d.rev = drawing[b][j].rev /\ d.val = db /\ d.stage = "read"
    BY <2>1 DEF Drawing, TypeOK
  <2>3. UNCHANGED <<rev, told, db, room>> /\ drawing[b][j].stage = "reading"
    BY <1>7 DEF Read
  <2>4. drawing[b][j].rev \in 0 .. rev
    BY <2>3 DEF DrawingOK
  <2>5. Sound(drawing[b][j].rev, db, rev, told, db)
    BY <2>4 DEF Sound, ToldOK, TypeOK
  <2> HIDE DEF d
  <2>6. OK(d)
    BY <2>2, <2>3, <2>5
  <2>7. drawing' = [drawing EXCEPT ![b][j] = d]
    BY <1>7 DEF Read, d
  <2> QED  BY <1>4, <2>2, <2>6, <2>7
<1>8. ASSUME NEW b \in Client, NEW j \in Slot, Answer(b, j)
      PROVE  ~Restart => OK(drawing'[c][k])
  <2>1. NoDrawing \in Drawing /\ OK(NoDrawing)
    BY DrawingType DEF NoDrawing
  <2>2. drawing' = [drawing EXCEPT ![b][j] = NoDrawing]
    BY <1>8 DEF Answer
  <2> QED  BY <1>4, <2>1, <2>2
<1>9. ASSUME NEW b \in Client, Drop(b) PROVE ~Restart => OK(drawing'[c][k])
  <2>1. drawing' = [drawing EXCEPT ![b] = [j \in Slot |-> NoDrawing]]
    BY <1>9 DEF Drop
  <2>2. drawing'[c][k] = NoDrawing \/ drawing'[c][k] = drawing[c][k]
    BY <2>1 DEF TypeOK
  <2> QED  BY <1>1, <1>2, <2>2
<1> QED
  <2>1. drawing' = drawing /\ ~Restart => OK(drawing'[c][k])
    BY <1>2
  <2>3. Restart => OK(drawing'[c][k])
    BY <1>3
  <2> HIDE DEF OK
  <2>2. OK(drawing'[c][k])
    BY <2>3, <1>5, <1>6, <1>7, <1>8, <1>9, <2>1
       DEF Next, Browser, Draw, Commit, Publish, Close, CloseDone, Notice, Connect, Resync,
           Receive, server, vars
  <2> QED  BY <2>2 DEF OK

(* The reducer: applying a good message to a view no older than its        *)
(* revision leaves it no older than its new one.                           *)
LEMMA ReduceSound ==
    ASSUME TypeOK, ToldOK, NEW v \in View, NEW m \in Message, Good(m, rev, told, db),
           v.phase = "in-room" /\ ~v.awaiting => Sound(v.revision, v.held, rev, told, db),
           Reduce(v, m).phase = "in-room", ~Reduce(v, m).awaiting
    PROVE  Sound(Reduce(v, m).revision, Reduce(v, m).held, rev, told, db)
<1>1. CASE m.type = "snapshot"
  <2>1. Reduce(v, m) = TakeSnapshot(v, m)
    BY <1>1 DEF Reduce
  <2>2. Reduce(v, m).revision = m.rev /\ Reduce(v, m).held = m.val
    BY <2>1 DEF TakeSnapshot
  <2> QED  BY <1>1, <2>2 DEF Good
<1>2. CASE m.type = "rejected"
  <2>1. Reduce(v, m) = [v EXCEPT !.phase = "rejected"]
    BY <1>2 DEF Reduce
  <2> QED  BY <2>1 DEF View
<1>3. CASE m.type = "change" \/ m.type = "other"
  <2> DEFINE seen    == [v EXCEPT !.seen = Larger(@, m.rev)]
             behind  == [seen EXCEPT !.awaiting = TRUE]
             changed == [seen EXCEPT !.held = m.val, !.revision = m.rev]
             other   == [seen EXCEPT !.revision = m.rev]
             ended   == [seen EXCEPT !.phase = "closed"]
  <2>1. /\ seen \in View /\ seen.phase = v.phase /\ seen.awaiting = v.awaiting
        /\ seen.revision = v.revision /\ seen.held = v.held
    BY DEF Larger, View, Message
  <2>2. /\ v.phase # "in-room" => Reduce(v, m) = v
        /\ v.phase = "in-room" /\ v.awaiting => Reduce(v, m) = seen
        /\ v.phase = "in-room" /\ ~v.awaiting =>
              /\ m.rev <= v.revision => Reduce(v, m) = seen
              /\ m.rev > v.revision + 1 => Reduce(v, m) = behind
              /\ m.rev = v.revision + 1 =>
                    /\ m.type = "change" => Reduce(v, m) = changed
                    /\ m.type # "change" => Reduce(v, m) = other
    <3>1. Reduce(v, m) = ApplyChange(v, m) /\ m.type # "closed"
      BY <1>3 DEF Reduce
    <3>2. ApplyChange(v, m) =
            IF v.phase # "in-room" THEN v
            ELSE IF m.type = "closed" THEN ended
            ELSE IF v.awaiting \/ m.rev <= v.revision THEN seen
            ELSE IF m.rev > v.revision + 1 THEN behind
            ELSE IF m.type = "change" THEN changed ELSE other
      BY Zenon DEF ApplyChange
    <3> HIDE DEF seen, behind, changed, other, ended
    <3>3. v.revision \in Nat /\ m.rev \in Nat
      BY DEF View, Message
    <3> QED  BY <3>1, <3>2, <3>3
  <2>3. /\ behind.awaiting
        /\ changed.held = m.val /\ changed.revision = m.rev
        /\ other.held = v.held /\ other.revision = m.rev
    <3> HIDE DEF seen
    <3> QED  BY <2>1 DEF View
  <2> HIDE DEF seen, behind, changed, other, ended
  <2>4. v.phase = "in-room" /\ v.awaiting \in BOOLEAN
    <3>1. v.phase # "in-room" => Reduce(v, m) = v
      BY <2>2
    <3> QED  BY <3>1 DEF View
  <2>5. ~v.awaiting
    <3>1. v.awaiting => Reduce(v, m) = seen
      BY <2>2, <2>4
    <3> QED  BY <2>1, <3>1
  <2>6. Sound(v.revision, v.held, rev, told, db) /\ v.revision \in Nat /\ m.rev \in Nat
    BY <2>4, <2>5 DEF View, Message
  <2>7. CASE m.rev <= v.revision
    <3>1. Reduce(v, m) = seen
      BY <2>2, <2>4, <2>5, <2>7
    <3> QED  BY <2>1, <2>6, <3>1
  <2>8. ~(m.rev > v.revision + 1)
    <3>1. m.rev > v.revision + 1 => ~(m.rev <= v.revision)
      BY <2>6
    <3>2. m.rev > v.revision + 1 => Reduce(v, m) = behind
      BY <2>2, <2>4, <2>5, <3>1
    <3> QED  BY <2>3, <3>2
  <2>9. CASE m.rev = v.revision + 1 /\ m.type = "change"
    <3>1. ~(m.rev <= v.revision)
      BY <2>6, <2>9
    <3>2. Reduce(v, m) = changed
      BY <2>2, <2>4, <2>5, <2>8, <2>9, <3>1
    <3>3. Reduce(v, m).revision = m.rev /\ Reduce(v, m).held = m.val
      BY <2>3, <3>2
    <3> QED  BY <2>9, <3>3 DEF Good, Sound, ToldOK, TypeOK
  <2>10. CASE m.rev = v.revision + 1 /\ m.type = "other"
    <3>1. ~(m.rev <= v.revision) /\ m.type # "change"
      BY <2>6, <2>10
    <3>2. Reduce(v, m) = other
      BY <2>2, <2>4, <2>5, <2>10, <3>1
    <3>3. Reduce(v, m).revision = m.rev /\ Reduce(v, m).held = v.held
      BY <2>3, <3>2
    <3>4. told[m.rev] = told[v.revision] /\ m.rev \in 1 .. rev
      BY <2>6, <2>10 DEF Good
    <3> QED  BY <2>6, <3>3, <3>4 DEF Sound
  <2> QED  BY <1>3, <2>6, <2>7, <2>8, <2>9, <2>10
<1> QED  BY <1>1, <1>2, <1>3 DEF Message, Good

(* A synced view stays no older than its revision (NeverOlder).            *)
LEMMA ViewNext ==
    TypeOK /\ ToldOK /\ WireOK /\ NeverOlder /\ [Next]_vars => NeverOlder'
<1> SUFFICES ASSUME TypeOK, ToldOK, WireOK, NeverOlder, [Next]_vars, room' # "gone",
                    NEW c \in Client, Synced(c)'
             PROVE  Sound(view'[c].revision, view'[c].held, rev', told', db')
  BY DEF NeverOlder, Sound
<1>1. CASE Restart
  BY <1>1 DEF Restart, Synced, TypeOK
<1>2. CASE ~Restart /\ sock[c] = "open" /\ view'[c] = view[c]
  <2>1. Grows /\ room # "gone"
    BY <1>2, NextGrows
  <2>2. Synced(c)
    BY <1>2 DEF Synced
  <2>3. view[c].revision \in Nat /\ view[c].held \in Nat
    BY DEF TypeOK, View
  <2>4. Sound(view[c].revision, view[c].held, rev, told, db)
    BY <2>1, <2>2, <2>3 DEF NeverOlder, Sound, TypeOK
  <2>5. Sound(view[c].revision, view[c].held, rev', told', db')
    BY <2>1, <2>3, <2>4, SoundStays
  <2> QED  BY <1>2, <2>5
<1>3. CASE \E b \in Client : Receive(b)
  <2>1. PICK b \in Client : Receive(b)
    BY <1>3
  <2>2. UNCHANGED <<db, unsent, rev, told, room, sock>>
    BY <2>1 DEF Receive, server
  <2>3. toClient[b] \in Seq(Message) /\ toClient[b] # <<>>
    BY <2>1 DEF Receive, TypeOK
  <2>4. Head(toClient[b]) \in Message /\ Head(toClient[b]) = toClient[b][1]
        /\ 1 \in 1 .. Len(toClient[b])
    BY <2>3, TailWire
  <2>5. Good(Head(toClient[b]), rev, told, db)
    BY <2>2, <2>4 DEF WireOK
  <2>6. CASE b = c
    <3>1. view[c] \in View /\ sock[c] = "open"
      BY <2>1, <2>6 DEF TypeOK, Receive
    <3>2. view'[c] = Reduce(view[c], Head(toClient[c]))
      BY <2>1, <2>6 DEF TypeOK, Receive
    <3>3. view[c].phase = "in-room" /\ ~view[c].awaiting =>
              Sound(view[c].revision, view[c].held, rev, told, db)
      <4>1. room # "gone"
        BY <2>2
      <4>2. view[c].revision \in Nat
        BY <3>1 DEF View
      <4> QED  BY <3>1, <4>1, <4>2 DEF NeverOlder, Synced, Sound, TypeOK
    <3>4. /\ Reduce(view[c], Head(toClient[c])).phase = "in-room"
          /\ ~Reduce(view[c], Head(toClient[c])).awaiting
      BY <3>2 DEF Synced
    <3>5. Sound(Reduce(view[c], Head(toClient[c])).revision,
                Reduce(view[c], Head(toClient[c])).held, rev, told, db)
      BY <2>4, <2>5, <2>6, <3>1, <3>3, <3>4, ReduceSound
    <3> QED  BY <2>2, <3>2, <3>5
  <2>7. CASE b # c
    <3>1. view'[c] = view[c] /\ ~Restart
      BY <2>1, <2>7, <2>2 DEF Receive, TypeOK, Restart, server
    <3>2. sock[c] = "open"
      BY <2>2 DEF Synced
    <3> QED  BY <1>2, <3>1, <3>2
  <2> QED  BY <2>6, <2>7
<1>4. ASSUME NEW b \in Client, Notice(b) \/ Connect(b)
      PROVE  ~Restart => Sound(view'[c].revision, view'[c].held, rev', told', db')
  <2>1. CASE b = c
    <3>1. view'[c] = Owed(view[c])
      BY <1>4, <2>1 DEF Notice, Connect, TypeOK
    <3>2. ~(view'[c].phase = "in-room" /\ ~view'[c].awaiting)
      <4>1. view[c] \in View
        BY DEF TypeOK
      <4> QED  BY <3>1, <4>1 DEF Owed, View
    <3> QED  BY <3>2 DEF Synced
  <2>2. CASE b # c
    <3>1. view'[c] = view[c] /\ sock'[c] = sock[c]
      BY <1>4, <2>2 DEF Notice, Connect, TypeOK
    <3> QED  BY <1>2, <3>1 DEF Synced
  <2> QED  BY <2>1, <2>2
<1>5. ASSUME NEW b \in Client, Drop(b)
      PROVE  ~Restart => Sound(view'[c].revision, view'[c].held, rev', told', db')
  <2>1. view'[c] = view[c] /\ (sock'[c] = sock[c] \/ sock'[c] = "dead")
    BY <1>5 DEF Drop, TypeOK
  <2> QED  BY <1>2, <2>1 DEF Synced
<1> QED
  <2>1. view' = view /\ sock' = sock /\ ~Restart =>
            Sound(view'[c].revision, view'[c].held, rev', told', db')
    BY <1>2 DEF Synced
  <2>2. Restart => Sound(view'[c].revision, view'[c].held, rev', told', db')
    BY <1>1
  <2> QED
    BY <1>3, <1>4, <1>5, <2>1, <2>2
       DEF Next, Browser, Draw, Commit, Publish, Close, CloseDone, Serve, Enter, Reenter,
           Read, Answer, Resync, server, wire, vars
-----------------------------------------------------------------------------
LEMMA InitIInv == Init => IInv
<1> SUFFICES ASSUME Init PROVE IInv
  OBVIOUS
<1>1. TypeOK
  BY InitType
<1>2. ToldOK
  BY DEF Init, ToldOK
<1>3. WireOK
  BY DEF Init, WireOK
<1>4. DrawingOK
  BY DEF Init, DrawingOK, NoDrawing
<1>5. NeverOlder
  BY DEF Init, NeverOlder, Synced, Following, Joining
<1> QED  BY <1>1, <1>2, <1>3, <1>4, <1>5 DEF IInv

LEMMA NextIInv == IInv /\ [Next]_vars => IInv'
  BY NextType, ToldNext, WireNext, DrawingNext, ViewNext DEF IInv

(* A synced browser is never older than the revision it reports, whatever  *)
(* is dropped, restarted or drawn late (NeverOlder).                       *)
THEOREM SyncedNeverOlder == Spec => []NeverOlder
<1>1. IInv => NeverOlder
  BY DEF IInv
<1> QED  BY <1>1, InitIInv, NextIInv, PTL DEF Spec

(* A synced browser at the Room's revision shows what the database holds,  *)
(* unless a command is between its commit and its broadcast (Agreement).   *)
THEOREM SyncedMeansAgreement == Spec => []Agreement
<1>1. IInv => Agreement
  BY DEF IInv, TypeOK, View, ToldOK, NeverOlder, Agreement
<1> QED  BY <1>1, InitIInv, NextIInv, PTL DEF Spec

-----------------------------------------------------------------------------
(* A message, other than a snapshot, that is on its way with revision r.   *)
Coming(w, r) == \E i \in 1 .. Len(w) : w[i].type # "snapshot" /\ w[i].rev = r

(* Whatever a snapshot at revision s lacks of the first n has been seen, or *)
(* is on its way.                                                          *)
Covered(v, w, n, s) == \A r \in s + 1 .. n : r <= v.seen \/ Coming(w, r)

Undrawn(d) == \A k \in Slot : d[k].stage = "none"

Joins(d) == d.stage = "admitted" /\ d.join

(* A socket that is not open has nothing on its way.                       *)
SocketOK(c, ins, d, sk, q, w) ==
    sk # "open" => c \notin ins /\ q = <<>> /\ w = <<>> /\ Undrawn(d)

(* A browser joins once on each connection, first of all, and outside.     *)
JoinOK(c, ins, d, q) ==
    /\ \A i \in 1 .. Len(q) : q[i] = "join" => i = 1 /\ c \notin ins /\ Undrawn(d)
    /\ \A k \in Slot : Joins(d[k]) =>
           c \notin ins /\ \A j \in Slot \ {k} : d[j].stage = "none"

(* Outside the Room no snapshot is on its way, nor held good.              *)
OutsideOK(c, ins, d, sk, w, v) ==
    c \notin ins =>
        /\ \A k \in Slot : d[k].stage = "none" \/ Joins(d[k])
        /\ \A i \in 1 .. Len(w) : w[i].type # "snapshot"
        /\ sk = "open" /\ v.phase = "in-room" => v.awaiting

(* Whoever has been in the Room is refused only as it ends, and outside.   *)
RefusedOK(c, ins, rm, d, w, v) ==
    /\ v.phase \in {"in-room", "rejected"}
    /\ \A i \in 1 .. Len(w) : w[i].type # "closed"
    /\ v.phase = "rejected" \/ (\E i \in 1 .. Len(w) : w[i].type = "rejected") =>
           rm = "closed" /\ c \notin ins /\ Undrawn(d)

(* What a snapshot lacks is not lost, nor what a synced browser has not    *)
(* applied.                                                                *)
CoveredOK(d, sk, w, v, n) ==
    /\ \A i \in 1 .. Len(w) : w[i].type = "snapshot" => Covered(v, w, n, w[i].rev)
    /\ \A k \in Slot : d[k].stage \in {"reading", "read"} => Covered(v, w, n, d[k].rev)
    /\ sk = "open" /\ v.phase = "in-room" /\ ~v.awaiting =>
           \A r \in v.revision + 1 .. n : Coming(w, r)

Seat(c, ins, rm, d, sk, q, w, v, n) ==
    /\ SocketOK(c, ins, d, sk, q, w)
    /\ JoinOK(c, ins, d, q)
    /\ OutsideOK(c, ins, d, sk, w, v)
    /\ RefusedOK(c, ins, rm, d, w, v)
    /\ CoveredOK(d, sk, w, v, n)

SeatOf(c) == Seat(c, inside, room, drawing[c], sock[c], toServer[c], toClient[c], view[c], rev)

Seated == room # "gone" => \A c \in Client \ Newcomer : SeatOf(c)

(* No browser has applied a revision it has not seen.                      *)
SeenOK(v) == v.phase = "in-room" => v.revision <= v.seen

-----------------------------------------------------------------------------
(* The reducer, on a change and on a snapshot (roomClient.ts reduceRoom).  *)
LEMMA ReduceChange ==
    ASSUME NEW v \in View, NEW m \in Message, m.type \in {"change", "other"}
    PROVE  /\ v.phase # "in-room" => Reduce(v, m) = v
           /\ v.phase = "in-room" =>
                 /\ Reduce(v, m).phase = "in-room"
                 /\ Reduce(v, m).seen = Larger(v.seen, m.rev)
                 /\ \/ Reduce(v, m).revision = v.revision
                    \/ Reduce(v, m).revision = m.rev /\ m.rev = v.revision + 1
                 /\ ~Reduce(v, m).awaiting =>
                       /\ ~v.awaiting
                       /\ \/ Reduce(v, m).revision = v.revision /\ m.rev <= v.revision
                          \/ Reduce(v, m).revision = m.rev /\ m.rev = v.revision + 1
<1> DEFINE seen    == [v EXCEPT !.seen = Larger(@, m.rev)]
           behind  == [seen EXCEPT !.awaiting = TRUE]
           changed == [seen EXCEPT !.held = m.val, !.revision = m.rev]
           other   == [seen EXCEPT !.revision = m.rev]
           ended   == [seen EXCEPT !.phase = "closed"]
<1>1. /\ seen \in View /\ seen.phase = v.phase /\ seen.awaiting = v.awaiting
      /\ seen.revision = v.revision /\ seen.seen = Larger(v.seen, m.rev)
  BY DEF Larger, View, Message
<1>2. Reduce(v, m) = ApplyChange(v, m) /\ m.type # "closed"
  BY DEF Reduce
<1>3. ApplyChange(v, m) =
        IF v.phase # "in-room" THEN v
        ELSE IF m.type = "closed" THEN ended
        ELSE IF v.awaiting \/ m.rev <= v.revision THEN seen
        ELSE IF m.rev > v.revision + 1 THEN behind
        ELSE IF m.type = "change" THEN changed ELSE other
  BY Zenon DEF ApplyChange
<1> HIDE DEF seen
<1>4. /\ behind.phase = seen.phase /\ behind.seen = seen.seen
      /\ behind.revision = seen.revision /\ behind.awaiting
      /\ changed.phase = seen.phase /\ changed.seen = seen.seen
      /\ changed.revision = m.rev /\ changed.awaiting = seen.awaiting
      /\ other.phase = seen.phase /\ other.seen = seen.seen
      /\ other.revision = m.rev /\ other.awaiting = seen.awaiting
  BY <1>1 DEF View
<1> HIDE DEF behind, changed, other, ended
<1>5. v.revision \in Nat /\ m.rev \in Nat
  BY DEF View, Message
<1>6. v.phase = "in-room" =>
        \/ Reduce(v, m) = seen /\ (~seen.awaiting => m.rev <= v.revision)
        \/ Reduce(v, m) = behind
        \/ /\ Reduce(v, m) \in {changed, other}
           /\ ~v.awaiting /\ m.rev = v.revision + 1
  BY <1>1, <1>2, <1>3, <1>5
<1>7. v.phase # "in-room" => Reduce(v, m) = v
  BY <1>2, <1>3
<1>8. CASE v.phase = "in-room"
  <2>1. CASE Reduce(v, m) = seen /\ (~seen.awaiting => m.rev <= v.revision)
    BY <1>1, <1>8, <2>1
  <2>2. CASE Reduce(v, m) = behind
    BY <1>1, <1>4, <1>8, <2>2
  <2>3. CASE Reduce(v, m) = changed /\ ~v.awaiting /\ m.rev = v.revision + 1
    BY <1>1, <1>4, <1>8, <2>3
  <2>4. CASE Reduce(v, m) = other /\ ~v.awaiting /\ m.rev = v.revision + 1
    BY <1>1, <1>4, <1>8, <2>4
  <2> QED  BY <1>6, <1>8, <2>1, <2>2, <2>3, <2>4
<1> QED  BY <1>7, <1>8

LEMMA ReduceSnapshot ==
    ASSUME NEW v \in View, NEW m \in Message, m.type = "snapshot"
    PROVE  /\ Reduce(v, m).phase = "in-room" /\ Reduce(v, m).revision = m.rev
           /\ Reduce(v, m).seen >= m.rev
           /\ v.phase = "in-room" => Reduce(v, m).seen = Larger(v.seen, m.rev)
           /\ ~Reduce(v, m).awaiting => Reduce(v, m).seen = m.rev
<1> DEFINE seen == Larger(IF v.phase = "in-room" THEN v.seen ELSE 0, m.rev)
           u(s) == [phase |-> "in-room", held |-> m.val, revision |-> m.rev,
                    seen |-> s, awaiting |-> m.rev < s]
<1>1. TakeSnapshot(v, m) = u(seen)
  BY DEF TakeSnapshot
<1>2. Reduce(v, m) = TakeSnapshot(v, m)
  BY DEF Reduce
<1>3. ASSUME NEW s
      PROVE  /\ u(s).phase = "in-room" /\ u(s).revision = m.rev /\ u(s).seen = s
             /\ u(s).awaiting <=> m.rev < s
  OBVIOUS
<1>4. m.rev \in Nat /\ v.seen \in Nat
  BY DEF View, Message
<1>5. seen >= m.rev /\ seen \in Nat
  BY <1>4 DEF Larger
<1>6. v.phase = "in-room" => seen = Larger(v.seen, m.rev)
  OBVIOUS
<1> HIDE DEF u, seen
<1>7. /\ Reduce(v, m).phase = "in-room" /\ Reduce(v, m).revision = m.rev
      /\ Reduce(v, m).seen = seen
      /\ Reduce(v, m).awaiting <=> m.rev < seen
  BY <1>1, <1>2, <1>3
<1> QED  BY <1>4, <1>5, <1>6, <1>7

-----------------------------------------------------------------------------
(* Putting a message on the wire, or taking one off it.                    *)
LEMMA ComingAppend ==
    ASSUME NEW w \in Seq(Message), NEW e \in Message
    PROVE  /\ \A r : Coming(w, r) => Coming(Append(w, e), r)
           /\ e.type # "snapshot" => Coming(Append(w, e), e.rev)
<1> DEFINE z == Append(w, e)
<1>1. /\ Len(w) \in Nat /\ Len(z) = Len(w) + 1
      /\ \A i \in 1 .. Len(w) : z[i] = w[i]
      /\ z[Len(w) + 1] = e
  BY AppendWire
<1> HIDE DEF z
<1>2. /\ \A r : Coming(w, r) => Coming(z, r)
      /\ e.type # "snapshot" => Coming(z, e.rev)
  BY <1>1 DEF Coming
<1> QED  BY <1>2 DEF z

LEMMA ComingTail ==
    ASSUME NEW w \in Seq(Message), w # <<>>, NEW r, Coming(w, r)
    PROVE  \/ Coming(Tail(w), r)
           \/ Head(w).type # "snapshot" /\ Head(w).rev = r
<1>1. /\ Head(w) = w[1] /\ Len(w) \in Nat /\ Len(Tail(w)) = Len(w) - 1
      /\ \A i \in 1 .. Len(Tail(w)) : Tail(w)[i] = w[i + 1]
  BY TailWire
<1>2. PICK i \in 1 .. Len(w) : w[i].type # "snapshot" /\ w[i].rev = r
  BY DEF Coming
<1>3. CASE i = 1
  BY <1>1, <1>2, <1>3
<1>4. CASE i # 1
  <2>1. i - 1 \in 1 .. Len(Tail(w)) /\ Tail(w)[i - 1] = w[i]
    BY <1>1, <1>2, <1>4
  <2> QED  BY <1>2, <2>1 DEF Coming
<1> QED  BY <1>3, <1>4

-----------------------------------------------------------------------------
(* Everyone in the Room is told of its next revision; whoever is not has   *)
(* nothing that could lack it.                                             *)
LEMMA SeatTold ==
    ASSUME NEW c, NEW ins, NEW rm, NEW d \in [Slot -> Drawing], NEW sk, NEW q,
           NEW w \in Seq(Message), NEW v \in View, NEW n \in Nat, Seat(c, ins, rm, d, sk, q, w, v, n),
           NEW ins2, c \in ins2 <=> c \in ins,
           NEW e \in Message, e.type \in {"change", "other"}, e.rev = n + 1
    PROVE  /\ c \in ins => Seat(c, ins2, rm, d, sk, q, Append(w, e), v, n + 1)
           /\ c \notin ins => Seat(c, ins2, rm, d, sk, q, w, v, n + 1)
<1> DEFINE z == Append(w, e)
<1>1. /\ Len(w) \in Nat /\ Len(z) = Len(w) + 1
      /\ \A i \in 1 .. Len(w) : z[i] = w[i]
      /\ z[Len(w) + 1] = e
  BY AppendWire
<1>2. /\ \A r : Coming(w, r) => Coming(z, r)
      /\ Coming(z, n + 1)
  BY ComingAppend
<1> HIDE DEF z
<1>3. \A i \in 1 .. Len(z) : z[i] = e \/ \E j \in 1 .. Len(w) : z[i] = w[j]
  BY <1>1
<1>4. c \in ins => sk = "open"
  BY DEF Seat, SocketOK
<1>5. SocketOK(c, ins2, d, sk, q, w) /\ JoinOK(c, ins2, d, q)
  BY DEF Seat, SocketOK, JoinOK
<1>6. CASE c \in ins
  <2>1. SocketOK(c, ins2, d, sk, q, z)
    BY <1>4, <1>6 DEF SocketOK
  <2>2. OutsideOK(c, ins2, d, sk, z, v)
    BY <1>6 DEF OutsideOK
  <2>3. RefusedOK(c, ins2, rm, d, z, v)
    BY <1>3, <1>6 DEF Seat, RefusedOK
  <2>4. ASSUME NEW s \in Nat, Covered(v, w, n, s)  PROVE Covered(v, z, n + 1, s)
    BY <1>2, <2>4 DEF Covered
  <2>5. CoveredOK(d, sk, z, v, n + 1)
    <3>1. ASSUME NEW i \in 1 .. Len(z), z[i].type = "snapshot"
          PROVE  Covered(v, z, n + 1, z[i].rev)
      <4>1. PICK j \in 1 .. Len(w) : z[i] = w[j]
        BY <1>3, <3>1
      <4>2. w[j] \in Message
        BY <1>1, <4>1
      <4>3. w[j].rev \in Nat
        BY <4>2 DEF Message
      <4> QED  BY <2>4, <3>1, <4>1, <4>3 DEF Seat, CoveredOK
    <3>2. ASSUME NEW k \in Slot, d[k].stage \in {"reading", "read"}
          PROVE  Covered(v, z, n + 1, d[k].rev)
      <4>1. d[k].rev \in Nat
        BY DEF Drawing
      <4> QED  BY <2>4, <3>2, <4>1 DEF Seat, CoveredOK
    <3>3. ASSUME sk = "open", v.phase = "in-room", ~v.awaiting,
                 NEW r \in v.revision + 1 .. n + 1
          PROVE  Coming(z, r)
      <4>1. r \in v.revision + 1 .. n \/ r = n + 1
        BY DEF View
      <4> QED  BY <1>2, <3>3, <4>1 DEF Seat, CoveredOK
    <3> QED  BY <3>1, <3>2, <3>3 DEF CoveredOK
  <2> QED  BY <1>5, <1>6, <2>1, <2>2, <2>3, <2>5 DEF Seat, z
<1>7. CASE c \notin ins
  <2>1. CoveredOK(d, sk, w, v, n + 1)
    BY <1>7 DEF Seat, OutsideOK, CoveredOK, Joins
  <2> QED  BY <1>5, <1>7, <2>1 DEF Seat, OutsideOK, RefusedOK
<1> QED  BY <1>6, <1>7

(* A Room that closes, until it is gone, changes nobody's seat.            *)
LEMMA SeatClosing ==
    ASSUME NEW c, NEW ins, NEW d, NEW sk, NEW q, NEW w, NEW v, NEW n,
           Seat(c, ins, "open", d, sk, q, w, v, n)
    PROVE  Seat(c, ins, "closed", d, sk, q, w, v, n)
  BY DEF Seat, RefusedOK

(* A broken socket leaves nothing on its way; whatever is owed then.       *)
LEMMA SeatBroken ==
    ASSUME NEW c, NEW ins, NEW rm, NEW d, NEW sk, NEW q, NEW w, NEW v, NEW n,
           Seat(c, ins, rm, d, sk, q, w, v, n),
           NEW ins2, c \notin ins2, NEW d2, Undrawn(d2), NEW sk2, sk2 # "open",
           NEW v2, v2.phase = v.phase, NEW n2
    PROVE  Seat(c, ins2, rm, d2, sk2, <<>>, <<>>, v2, n2)
<1>1. Len(<<>>) = 0
  OBVIOUS
<1>2. SocketOK(c, ins2, d2, sk2, <<>>, <<>>)
  BY DEF SocketOK
<1>3. JoinOK(c, ins2, d2, <<>>)
  BY <1>1 DEF JoinOK, Undrawn, Joins
<1>4. OutsideOK(c, ins2, d2, sk2, <<>>, v2)
  BY <1>1 DEF OutsideOK, Undrawn
<1>5. RefusedOK(c, ins2, rm, d2, <<>>, v2)
  BY <1>1 DEF Seat, RefusedOK
<1>6. CoveredOK(d2, sk2, <<>>, v2, n2)
  BY <1>1 DEF CoveredOK, Undrawn
<1> QED  BY <1>2, <1>3, <1>4, <1>5, <1>6 DEF Seat

(* The socket opens: the browser joins, and holds nothing good till then.  *)
LEMMA SeatConnect ==
    ASSUME NEW c, NEW ins, NEW rm, NEW d, NEW q, NEW w, NEW v \in View, NEW n,
           Seat(c, ins, rm, d, "down", q, w, v, n)
    PROVE  Seat(c, ins, rm, d, "open", <<"join">>, w, Owed(v), n)
<1>1. Len(<<>>) = 0 /\ Len(<<"join">>) = 1
  OBVIOUS
<1>2. /\ Owed(v).phase = v.phase
      /\ v.phase = "in-room" => Owed(v).awaiting
  BY DEF Owed, View
<1>3. c \notin ins /\ w = <<>> /\ Undrawn(d)
  BY DEF Seat, SocketOK
<1>4. JoinOK(c, ins, d, <<"join">>)
  BY <1>1, <1>3 DEF JoinOK, Undrawn, Joins
<1>5. OutsideOK(c, ins, d, "open", w, Owed(v))
  BY <1>1, <1>2, <1>3 DEF OutsideOK, Undrawn
<1>6. RefusedOK(c, ins, rm, d, w, Owed(v))
  BY <1>2 DEF Seat, RefusedOK
<1>7. CoveredOK(d, "open", w, Owed(v), n)
  BY <1>1, <1>2, <1>3 DEF CoveredOK, Undrawn
<1> QED  BY <1>4, <1>5, <1>6, <1>7 DEF Seat, SocketOK

(* It asks for a snapshot; or the server takes a command of its.           *)
LEMMA SeatAsks ==
    ASSUME NEW c, NEW ins, NEW rm, NEW d, NEW q \in Seq({"join", "resync"}), NEW w,
           NEW v, NEW n, Seat(c, ins, rm, d, "open", q, w, v, n)
    PROVE  /\ Seat(c, ins, rm, d, "open", Append(q, "resync"), w, v, n)
           /\ q # <<>> => /\ Seat(c, ins, rm, d, "open", Tail(q), w, v, n)
                          /\ \A i \in 1 .. Len(Tail(q)) : Tail(q)[i] # "join"
<1>1. JoinOK(c, ins, d, Append(q, "resync"))
  <2>1. /\ Len(q) \in Nat /\ Len(Append(q, "resync")) = Len(q) + 1
        /\ \A i \in 1 .. Len(q) : Append(q, "resync")[i] = q[i]
        /\ Append(q, "resync")[Len(q) + 1] = "resync"
    BY AppendWire
  <2>2. \A i \in 1 .. Len(q) + 1 : i \in 1 .. Len(q) \/ i = Len(q) + 1
    BY <2>1
  <2> QED  BY <2>1, <2>2 DEF Seat, JoinOK
<1>2. ASSUME q # <<>>  PROVE \A i \in 1 .. Len(Tail(q)) : Tail(q)[i] # "join"
  <2>1. /\ Len(q) \in Nat /\ Len(Tail(q)) = Len(q) - 1
        /\ \A i \in 1 .. Len(Tail(q)) : Tail(q)[i] = q[i + 1]
    BY <1>2, TailWire
  <2>2. \A i \in 1 .. Len(q) : q[i] = "join" => i = 1
    BY DEF Seat, JoinOK
  <2> QED  BY <2>1, <2>2
<1>3. ASSUME q # <<>>  PROVE JoinOK(c, ins, d, Tail(q))
  BY <1>2, <1>3 DEF Seat, JoinOK
<1> QED  BY <1>1, <1>2, <1>3 DEF Seat, SocketOK

-----------------------------------------------------------------------------
(* The drawing in slot k becomes e.                                        *)
Redrawn(d, k, e, d2) == d2[k] = e /\ \A j \in Slot \ {k} : d2[j] = d[j]

(* A browser is admitted to a snapshot: it joins from outside, or is in.   *)
LEMMA SeatAdmitted ==
    ASSUME NEW c, NEW ins, NEW d, NEW q, NEW w, NEW v, NEW n,
           Seat(c, ins, "open", d, "open", q, w, v, n),
           \A i \in 1 .. Len(q) : q[i] # "join",
           NEW k \in Slot, NEW e, NEW d2, Redrawn(d, k, e, d2), e.stage = "admitted",
           IF e.join THEN c \notin ins /\ Undrawn(d) ELSE c \in ins
    PROVE  Seat(c, ins, "open", d2, "open", q, w, v, n)
<1>1. JoinOK(c, ins, d2, q)
  BY DEF Seat, JoinOK, Redrawn, Undrawn, Joins
<1>2. OutsideOK(c, ins, d2, "open", w, v)
  BY DEF Seat, OutsideOK, Redrawn, Joins
<1>3. RefusedOK(c, ins, "open", d2, w, v)
  BY DEF Seat, RefusedOK
<1>4. CoveredOK(d2, "open", w, v, n)
  BY DEF Seat, CoveredOK, Redrawn
<1> QED  BY <1>1, <1>2, <1>3, <1>4 DEF Seat, SocketOK

(* A join is refused as the Room ends.                                     *)
LEMMA SeatRefused ==
    ASSUME NEW c, NEW ins, NEW d, NEW q, NEW w \in Seq(Message), NEW v, NEW n,
           Seat(c, ins, "closed", d, "open", q, w, v, n),
           c \notin ins, Undrawn(d), NEW e \in Message, e.type = "rejected"
    PROVE  Seat(c, ins, "closed", d, "open", q, Append(w, e), v, n)
<1> DEFINE z == Append(w, e)
<1>1. /\ Len(w) \in Nat /\ Len(z) = Len(w) + 1
      /\ \A i \in 1 .. Len(w) : z[i] = w[i]
      /\ z[Len(w) + 1] = e
  BY AppendWire
<1>2. \A r : Coming(w, r) => Coming(z, r)
  BY ComingAppend
<1> HIDE DEF z
<1>3. \A i \in 1 .. Len(z) : z[i] = e \/ \E j \in 1 .. Len(w) : z[i] = w[j]
  BY <1>1
<1>4. \A i \in 1 .. Len(z) : z[i].type # "snapshot" /\ z[i].type # "closed"
  BY <1>3 DEF Seat, OutsideOK, RefusedOK
<1>5. OutsideOK(c, ins, d, "open", z, v) /\ RefusedOK(c, ins, "closed", d, z, v)
  BY <1>4 DEF Seat, OutsideOK, RefusedOK
<1>6. CoveredOK(d, "open", z, v, n)
  BY <1>2, <1>4 DEF Seat, OutsideOK, CoveredOK, Undrawn
<1> QED  BY <1>5, <1>6 DEF Seat, SocketOK, z

(* The joiner enters, at a revision the snapshot will have.                *)
LEMMA SeatEntered ==
    ASSUME NEW c, NEW ins, NEW rm, NEW d, NEW sk, NEW q, NEW w, NEW v, NEW n \in Nat,
           Seat(c, ins, rm, d, sk, q, w, v, n),
           NEW k \in Slot, Joins(d[k]), NEW ins2, c \in ins2,
           NEW e, NEW d2, Redrawn(d, k, e, d2), e.stage = "reading", e.rev = n + 1
    PROVE  Seat(c, ins2, rm, d2, sk, q, w, v, n + 1)
<1>1. /\ c \notin ins /\ sk = "open" /\ ~Undrawn(d)
      /\ \A j \in Slot \ {k} : d[j].stage = "none"
      /\ \A i \in 1 .. Len(q) : q[i] # "join"
  BY DEF Seat, SocketOK, JoinOK, Undrawn, Joins
<1>2. JoinOK(c, ins2, d2, q)
  BY <1>1 DEF JoinOK, Redrawn, Joins
<1>3. RefusedOK(c, ins2, rm, d2, w, v)
  BY <1>1 DEF Seat, RefusedOK
<1>4. CoveredOK(d2, sk, w, v, n + 1)
  <2>1. Covered(v, w, n + 1, n + 1)
    BY DEF Covered
  <2> QED  BY <1>1, <2>1 DEF Seat, OutsideOK, CoveredOK, Redrawn
<1> QED  BY <1>1, <1>2, <1>3, <1>4 DEF Seat, SocketOK, OutsideOK

(* The revision is read, or the database.                                  *)
LEMMA SeatRead ==
    ASSUME NEW c, NEW ins, NEW rm, NEW d, NEW sk, NEW q, NEW w, NEW v, NEW n,
           Seat(c, ins, rm, d, sk, q, w, v, n),
           NEW k \in Slot, d[k].stage # "none", ~Joins(d[k]),
           NEW e, NEW d2, Redrawn(d, k, e, d2), e.stage \in {"reading", "read"},
           Covered(v, w, n, e.rev)
    PROVE  Seat(c, ins, rm, d2, sk, q, w, v, n)
<1>1. c \in ins /\ sk = "open" /\ ~Undrawn(d)
  BY DEF Seat, SocketOK, OutsideOK, Undrawn
<1>2. JoinOK(c, ins, d2, q)
  BY <1>1 DEF Seat, JoinOK, Redrawn, Joins
<1>3. RefusedOK(c, ins, rm, d2, w, v)
  BY <1>1 DEF Seat, RefusedOK
<1>4. CoveredOK(d2, sk, w, v, n)
  BY DEF Seat, CoveredOK, Redrawn
<1> QED  BY <1>1, <1>2, <1>3, <1>4 DEF Seat, SocketOK, OutsideOK

(* The snapshot goes out, behind all it may lack.                          *)
LEMMA SeatAnswered ==
    ASSUME NEW c, NEW ins, NEW rm, NEW d, NEW sk, NEW q, NEW w \in Seq(Message), NEW v,
           NEW n, Seat(c, ins, rm, d, sk, q, w, v, n),
           NEW k \in Slot, d[k].stage = "read",
           NEW f, NEW d2, Redrawn(d, k, f, d2), f.stage = "none",
           NEW e \in Message, e.type = "snapshot", e.rev = d[k].rev
    PROVE  Seat(c, ins, rm, d2, sk, q, Append(w, e), v, n)
<1> DEFINE z == Append(w, e)
<1>1. /\ Len(w) \in Nat /\ Len(z) = Len(w) + 1
      /\ \A i \in 1 .. Len(w) : z[i] = w[i]
      /\ z[Len(w) + 1] = e
  BY AppendWire
<1>2. \A r : Coming(w, r) => Coming(z, r)
  BY ComingAppend
<1> HIDE DEF z
<1>3. \A i \in 1 .. Len(z) : z[i] = e \/ \E j \in 1 .. Len(w) : z[i] = w[j]
  BY <1>1
<1>4. c \in ins /\ sk = "open" /\ ~Undrawn(d)
  BY DEF Seat, SocketOK, OutsideOK, Undrawn, Joins
<1>5. JoinOK(c, ins, d2, q)
  BY <1>4 DEF Seat, JoinOK, Redrawn, Joins
<1>6. RefusedOK(c, ins, rm, d2, z, v)
  BY <1>3, <1>4 DEF Seat, RefusedOK
<1>7. \A s : Covered(v, w, n, s) => Covered(v, z, n, s)
  BY <1>2 DEF Covered
<1>8. CoveredOK(d2, sk, z, v, n)
  <2>1. Covered(v, w, n, e.rev)
    BY DEF Seat, CoveredOK
  <2> QED  BY <1>2, <1>3, <1>7, <2>1 DEF Seat, CoveredOK, Redrawn
<1> QED  BY <1>4, <1>5, <1>6, <1>8 DEF Seat, SocketOK, OutsideOK, z

-----------------------------------------------------------------------------
(* The next message reaches the reducer: nothing it takes off the wire is  *)
(* lost, and a snapshot leaves it synced only if what it lacks is coming.  *)
LEMMA SeatReceived ==
    ASSUME NEW c, NEW ins, NEW rm, NEW d \in [Slot -> Drawing], NEW q,
           NEW w \in Seq(Message), w # <<>>, NEW v \in View, NEW n \in Nat,
           Seat(c, ins, rm, d, "open", q, w, v, n)
    PROVE  Seat(c, ins, rm, d, "open", q, Tail(w), Reduce(v, Head(w)), n)
<1> DEFINE m == Head(w)
           z == Tail(w)
           u == Reduce(v, m)
<1>1. /\ m \in Message /\ m = w[1] /\ z \in Seq(Message)
      /\ Len(w) \in Nat /\ Len(w) >= 1 /\ Len(z) = Len(w) - 1
      /\ \A i \in 1 .. Len(z) : z[i] = w[i + 1]
  BY TailWire
<1>2. \A r : Coming(w, r) => Coming(z, r) \/ (m.type # "snapshot" /\ m.rev = r)
  BY ComingTail
<1>3. u \in View
  BY <1>1, ReduceType
<1> HIDE DEF m, z, u
<1>4. \A i \in 1 .. Len(z) : \E j \in 1 .. Len(w) : z[i] = w[j]
  BY <1>1
<1>5. v.phase \in {"in-room", "rejected"} /\ m.type # "closed"
  BY <1>1 DEF Seat, RefusedOK
<1>6. m.rev \in Nat /\ v.seen \in Nat
  BY <1>1 DEF Message, View
<1>7. CASE m.type \in {"change", "other"} /\ v.phase = "in-room"
  <2>1. /\ u.phase = "in-room" /\ u.seen = Larger(v.seen, m.rev)
        /\ ~u.awaiting =>
              /\ ~v.awaiting
              /\ \/ u.revision = v.revision /\ m.rev <= v.revision
                 \/ u.revision = m.rev /\ m.rev = v.revision + 1
    BY <1>1, <1>7, ReduceChange DEF u
  <2>2. u.seen >= v.seen /\ u.seen >= m.rev /\ u.seen \in Nat
    BY <1>6, <2>1 DEF Larger
  <2>3. ASSUME NEW s \in Nat, Covered(v, w, n, s)  PROVE Covered(u, z, n, s)
    <3> SUFFICES ASSUME NEW r \in s + 1 .. n  PROVE r <= u.seen \/ Coming(z, r)
      BY DEF Covered
    <3>1. r <= v.seen \/ Coming(z, r) \/ r = m.rev
      BY <1>2, <2>3 DEF Covered
    <3> QED  BY <1>6, <2>2, <3>1
  <2>4. \A i \in 1 .. Len(z) : z[i].type = "snapshot" => Covered(u, z, n, z[i].rev)
    <3> SUFFICES ASSUME NEW i \in 1 .. Len(z), z[i].type = "snapshot"
                 PROVE  Covered(u, z, n, z[i].rev)
      OBVIOUS
    <3>1. PICK j \in 1 .. Len(w) : z[i] = w[j]
      BY <1>4
    <3>2. w[j] \in Message
      BY <1>1, <3>1
    <3>3. w[j].rev \in Nat
      BY <3>2 DEF Message
    <3> QED  BY <2>3, <3>1, <3>3 DEF Seat, CoveredOK
  <2>5. \A k \in Slot : d[k].stage \in {"reading", "read"} => Covered(u, z, n, d[k].rev)
    <3>1. \A k \in Slot : d[k].rev \in Nat
      BY DEF Drawing
    <3> QED  BY <2>3, <3>1 DEF Seat, CoveredOK
  <2>6. ASSUME ~u.awaiting, NEW r \in u.revision + 1 .. n  PROVE Coming(z, r)
    <3>1. v.revision \in Nat
      BY DEF View
    <3>2. r \in v.revision + 1 .. n /\ r # m.rev
      BY <1>6, <2>1, <2>6, <3>1
    <3>3. Coming(w, r)
      BY <1>7, <2>1, <2>6, <3>2 DEF Seat, CoveredOK
    <3> QED  BY <1>2, <3>2, <3>3
  <2>7. CoveredOK(d, "open", z, u, n)
    BY <2>4, <2>5, <2>6 DEF CoveredOK
  <2>8. OutsideOK(c, ins, d, "open", z, u)
    BY <1>4, <1>7, <2>1 DEF Seat, OutsideOK
  <2>9. RefusedOK(c, ins, rm, d, z, u)
    BY <1>4, <2>1 DEF Seat, RefusedOK
  <2> QED  BY <2>7, <2>8, <2>9 DEF Seat, SocketOK, m, z, u
<1>8. CASE m.type \in {"change", "other"} /\ v.phase = "rejected"
  <2>1. u = v
    BY <1>1, <1>8, ReduceChange DEF u
  <2>2. c \notin ins /\ Undrawn(d)
    BY <1>8 DEF Seat, RefusedOK
  <2>3. \A i \in 1 .. Len(z) : z[i].type # "snapshot"
    BY <1>4, <2>2 DEF Seat, OutsideOK
  <2>4. CoveredOK(d, "open", z, u, n)
    BY <1>8, <2>1, <2>2, <2>3 DEF CoveredOK, Undrawn
  <2>5. OutsideOK(c, ins, d, "open", z, u) /\ RefusedOK(c, ins, rm, d, z, u)
    BY <1>4, <2>1, <2>3 DEF Seat, OutsideOK, RefusedOK
  <2> QED  BY <2>4, <2>5 DEF Seat, SocketOK, m, z, u
<1>9. CASE m.type = "rejected"
  <2>1. u = [v EXCEPT !.phase = "rejected"]
    BY <1>9 DEF Reduce, u
  <2>2. u.phase = "rejected"
    BY <2>1 DEF View
  <2>3. rm = "closed" /\ c \notin ins /\ Undrawn(d)
    BY <1>1, <1>9 DEF Seat, RefusedOK
  <2>4. \A i \in 1 .. Len(z) : z[i].type # "snapshot" /\ z[i].type # "closed"
    BY <1>4, <2>3 DEF Seat, OutsideOK, RefusedOK
  <2>5. CoveredOK(d, "open", z, u, n)
    BY <2>2, <2>3, <2>4 DEF CoveredOK, Undrawn
  <2>6. OutsideOK(c, ins, d, "open", z, u) /\ RefusedOK(c, ins, rm, d, z, u)
    BY <2>2, <2>3, <2>4 DEF Seat, OutsideOK, RefusedOK
  <2> QED  BY <2>5, <2>6 DEF Seat, SocketOK, m, z, u
<1>10. CASE m.type = "snapshot"
  <2>1. c \in ins /\ v.phase = "in-room"
    BY <1>1, <1>5, <1>10 DEF Seat, OutsideOK, RefusedOK
  <2>2. /\ u.phase = "in-room" /\ u.revision = m.rev /\ u.seen = Larger(v.seen, m.rev)
        /\ ~u.awaiting => u.seen = m.rev
    BY <1>1, <1>10, <2>1, ReduceSnapshot DEF u
  <2>3. u.seen >= v.seen /\ u.seen >= m.rev /\ u.seen \in Nat
    BY <1>6, <2>2 DEF Larger
  <2>4. ASSUME NEW s \in Nat, Covered(v, w, n, s)  PROVE Covered(u, z, n, s)
    <3> SUFFICES ASSUME NEW r \in s + 1 .. n  PROVE r <= u.seen \/ Coming(z, r)
      BY DEF Covered
    <3>1. r <= v.seen \/ Coming(z, r)
      BY <1>2, <1>10, <2>4 DEF Covered
    <3> QED  BY <1>6, <2>3, <3>1
  <2>5. \A i \in 1 .. Len(z) : z[i].type = "snapshot" => Covered(u, z, n, z[i].rev)
    <3> SUFFICES ASSUME NEW i \in 1 .. Len(z), z[i].type = "snapshot"
                 PROVE  Covered(u, z, n, z[i].rev)
      OBVIOUS
    <3>1. PICK j \in 1 .. Len(w) : z[i] = w[j]
      BY <1>4
    <3>2. w[j] \in Message
      BY <1>1, <3>1
    <3>3. w[j].rev \in Nat
      BY <3>2 DEF Message
    <3> QED  BY <2>4, <3>1, <3>3 DEF Seat, CoveredOK
  <2>6. \A k \in Slot : d[k].stage \in {"reading", "read"} => Covered(u, z, n, d[k].rev)
    <3>1. \A k \in Slot : d[k].rev \in Nat
      BY DEF Drawing
    <3> QED  BY <2>4, <3>1 DEF Seat, CoveredOK
  <2>7. ASSUME ~u.awaiting, NEW r \in u.revision + 1 .. n  PROVE Coming(z, r)
    <3>1. Covered(v, w, n, m.rev)
      BY <1>1, <1>10 DEF Seat, CoveredOK
    <3>2. Covered(u, z, n, m.rev)
      BY <1>6, <2>4, <3>1
    <3>3. r \in m.rev + 1 .. n /\ ~(r <= u.seen)
      BY <1>6, <2>2, <2>7
    <3> QED  BY <3>2, <3>3 DEF Covered
  <2>8. CoveredOK(d, "open", z, u, n)
    BY <2>5, <2>6, <2>7 DEF CoveredOK
  <2>9. RefusedOK(c, ins, rm, d, z, u)
    BY <1>4, <2>1, <2>2 DEF Seat, RefusedOK
  <2> QED  BY <2>1, <2>8, <2>9 DEF Seat, SocketOK, OutsideOK, m, z, u
<1> QED  BY <1>1, <1>5, <1>7, <1>8, <1>9, <1>10 DEF Message

-----------------------------------------------------------------------------
(* Nothing of a browser's own changes, nor the Room's revision.            *)
LEMMA SeatStays ==
    ASSUME NEW c, SeatOf(c), c \in inside' <=> c \in inside,
           UNCHANGED <<room, drawing[c], sock[c], toServer[c], toClient[c], view[c], rev>>
    PROVE  SeatOf(c)'
  BY DEF SeatOf, Seat, SocketOK, JoinOK, OutsideOK, RefusedOK, CoveredOK

(* The Room's next revision is spent on a change everyone in it hears of,  *)
(* and nothing else of a browser's own changes.                            *)
LEMMA SeatSpent ==
    ASSUME TypeOK, NEW c \in Client, SeatOf(c), c \in inside' <=> c \in inside,
           UNCHANGED <<room, drawing[c], sock[c], toServer[c], view[c]>>, rev' = rev + 1,
           NEW type \in {"change", "other"}, NEW val \in Nat,
           toClient'[c] = IF c \in inside
                          THEN Append(toClient[c],
                                      [type |-> type, rev |-> rev + 1, val |-> val])
                          ELSE toClient[c]
    PROVE  SeatOf(c)'
<1> DEFINE e == [type |-> type, rev |-> rev + 1, val |-> val]
<1>1. e \in Message /\ e.type \in {"change", "other"} /\ e.rev = rev + 1 /\ rev \in Nat
  BY DEF Message, TypeOK
<1>2. /\ drawing[c] \in [Slot -> Drawing] /\ toClient[c] \in Seq(Message)
      /\ view[c] \in View
  BY DEF TypeOK
<1>3. toClient'[c] = IF c \in inside THEN Append(toClient[c], e) ELSE toClient[c]
  OBVIOUS
<1> HIDE DEF e
<1>4. CASE c \in inside
  <2>1. Seat(c, inside', room, drawing[c], sock[c], toServer[c], Append(toClient[c], e),
             view[c], rev + 1)
    BY <1>1, <1>2, <1>4, SeatTold DEF SeatOf
  <2> QED  BY <1>3, <1>4, <2>1 DEF SeatOf
<1>5. CASE c \notin inside
  <2>1. Seat(c, inside', room, drawing[c], sock[c], toServer[c], toClient[c],
             view[c], rev + 1)
    BY <1>1, <1>2, <1>5, SeatTold DEF SeatOf
  <2> QED  BY <1>3, <1>5, <2>1 DEF SeatOf
<1> QED  BY <1>4, <1>5

LEMMA SeatServe ==
    ASSUME TypeOK, NEW c \in Client, SeatOf(c), room # "gone", Serve(c)
    PROVE  SeatOf(c)'
<1> DEFINE q == toServer[c]
           join == Head(q) = "join"
<1>1. /\ sock[c] = "open" /\ q # <<>> /\ toServer'[c] = Tail(q)
      /\ UNCHANGED <<room, inside, sock, view, rev>>
  BY DEF Serve, TypeOK
<1>2. q \in Seq({"join", "resync"}) /\ toClient[c] \in Seq(Message)
  BY DEF TypeOK
<1>3. /\ Head(q) = q[1] /\ 1 \in 1 .. Len(q)
      /\ join => c \notin inside /\ Undrawn(drawing[c])
  <2>1. Head(q) = q[1] /\ 1 \in 1 .. Len(q)
    BY <1>1, <1>2, TailWire
  <2>2. JoinOK(c, inside, drawing[c], q)
    BY DEF SeatOf, Seat
  <2> QED  BY <2>1, <2>2 DEF JoinOK
<1>4. /\ Seat(c, inside, room, drawing[c], "open", Tail(q), toClient[c], view[c], rev)
      /\ \A i \in 1 .. Len(Tail(q)) : Tail(q)[i] # "join"
  <2>1. Seat(c, inside, room, drawing[c], "open", q, toClient[c], view[c], rev)
    BY <1>1 DEF SeatOf
  <2> HIDE DEF q
  <2> QED  BY <1>1, <1>2, <2>1, SeatAsks
<1>5. CASE UNCHANGED <<drawing, toClient>>
  BY <1>1, <1>4, <1>5 DEF SeatOf
<1>6. ASSUME room = "open", join \/ c \in inside, UNCHANGED toClient, NEW k \in Slot,
             drawing[c][k] = NoDrawing,
             drawing' = [drawing EXCEPT ![c][k] =
                            [NoDrawing EXCEPT !.stage = "admitted", !.join = join]]
      PROVE  SeatOf(c)'
  <2> DEFINE e == [NoDrawing EXCEPT !.stage = "admitted", !.join = join]
  <2>1. e \in Drawing /\ e.stage = "admitted" /\ (e.join <=> join)
    BY DEF NoDrawing, Drawing
  <2>2. drawing' = [drawing EXCEPT ![c][k] = e]
    BY <1>6
  <2> HIDE DEF e, q, join
  <2>3. Redrawn(drawing[c], k, e, drawing'[c])
    BY <2>1, <2>2, PutDrawing DEF TypeOK, Redrawn
  <2>4. IF e.join THEN c \notin inside /\ Undrawn(drawing[c]) ELSE c \in inside
    BY <1>3, <1>6, <2>1
  <2>5. Seat(c, inside, "open", drawing'[c], "open", Tail(q), toClient[c], view[c], rev)
    BY <1>4, <1>6, <2>1, <2>3, <2>4, SeatAdmitted
  <2> QED  BY <1>1, <1>6, <2>5 DEF SeatOf, q
<1>7. ASSUME room # "open", join, UNCHANGED drawing,
             toClient' = [toClient EXCEPT ![c] =
                 Append(@, [type |-> "rejected", rev |-> 0, val |-> 0])]
      PROVE  SeatOf(c)'
  <2> DEFINE e == [type |-> "rejected", rev |-> 0, val |-> 0]
  <2>1. e \in Message /\ e.type = "rejected"
    BY DEF Message
  <2>2. toClient'[c] = Append(toClient[c], e)
    BY <1>7 DEF TypeOK
  <2>3. room = "closed"
    BY <1>7 DEF TypeOK
  <2> HIDE DEF e, q, join
  <2>4. Seat(c, inside, "closed", drawing[c], "open", Tail(q), Append(toClient[c], e),
             view[c], rev)
    BY <1>2, <1>3, <1>4, <1>7, <2>1, <2>3, SeatRefused
  <2> QED  BY <1>1, <1>7, <2>2, <2>3, <2>4 DEF SeatOf, q
<1> QED  BY <1>5, <1>6, <1>7 DEF Serve

LEMMA SeatEnter ==
    ASSUME TypeOK, NEW c \in Client, SeatOf(c), NEW k \in Slot, Enter(c, k)
    PROVE  SeatOf(c)'
<1> DEFINE e == [drawing[c][k] EXCEPT !.stage = "reading", !.rev = rev + 1]
<1>1. /\ Joins(drawing[c][k]) /\ rev' = rev + 1 /\ inside' = inside \cup {c}
      /\ drawing' = [drawing EXCEPT ![c][k] = e]
      /\ UNCHANGED <<room, sock, toServer, view>> /\ toClient'[c] = toClient[c]
  BY DEF Enter, Joins, Spend, Broadcast
<1>2. drawing[c][k] \in Drawing /\ rev \in Nat /\ rev + 1 \in Nat
  BY DEF TypeOK
<1>3. e \in Drawing /\ e.stage = "reading" /\ e.rev = rev + 1
  BY <1>2 DEF Drawing
<1> HIDE DEF e
<1>4. Redrawn(drawing[c], k, e, drawing'[c])
  BY <1>1, <1>3, PutDrawing DEF TypeOK, Redrawn
<1>5. Seat(c, inside', room, drawing'[c], sock[c], toServer[c], toClient[c], view[c], rev + 1)
  <2>1. c \in inside'
    BY <1>1
  <2> QED  BY <1>1, <1>2, <1>3, <1>4, <2>1, SeatEntered DEF SeatOf
<1> QED  BY <1>1, <1>5 DEF SeatOf

LEMMA SeatReads ==
    ASSUME TypeOK, NEW c \in Client, SeatOf(c), NEW k \in Slot, Reenter(c, k) \/ Read(c, k)
    PROVE  SeatOf(c)'
<1> DEFINE e == IF drawing[c][k].stage = "reading"
                THEN [drawing[c][k] EXCEPT !.stage = "read", !.val = db]
                ELSE [drawing[c][k] EXCEPT !.stage = "reading", !.rev = rev]
<1>1. /\ drawing[c][k].stage # "none" /\ ~Joins(drawing[c][k])
      /\ drawing' = [drawing EXCEPT ![c][k] = e]
      /\ UNCHANGED <<room, inside, sock, toServer, toClient, view, rev>>
  BY DEF Reenter, Read, Joins, wire
<1>2. drawing[c][k] \in Drawing /\ rev \in Nat /\ db \in Nat
  BY DEF TypeOK
<1>3. /\ e \in Drawing /\ e.stage \in {"reading", "read"}
      /\ \/ e.rev = rev
         \/ drawing[c][k].stage = "reading" /\ e.rev = drawing[c][k].rev
  BY <1>2 DEF Drawing
<1> HIDE DEF e
<1>4. Redrawn(drawing[c], k, e, drawing'[c])
  BY <1>1, <1>3, PutDrawing DEF TypeOK, Redrawn
<1>5. Covered(view[c], toClient[c], rev, e.rev)
  <2>1. Covered(view[c], toClient[c], rev, rev)
    BY <1>2 DEF Covered
  <2> QED  BY <1>3, <2>1 DEF SeatOf, Seat, CoveredOK
<1>6. Seat(c, inside, room, drawing'[c], sock[c], toServer[c], toClient[c], view[c], rev)
  BY <1>1, <1>3, <1>4, <1>5, SeatRead DEF SeatOf
<1> QED  BY <1>1, <1>6 DEF SeatOf

LEMMA SeatAnswer ==
    ASSUME TypeOK, NEW c \in Client, SeatOf(c), NEW k \in Slot, Answer(c, k)
    PROVE  SeatOf(c)'
<1> DEFINE e == [type |-> "snapshot", rev |-> drawing[c][k].rev, val |-> drawing[c][k].val]
<1>1. /\ drawing[c][k].stage = "read"
      /\ drawing' = [drawing EXCEPT ![c][k] = NoDrawing]
      /\ toClient' = [toClient EXCEPT ![c] = Append(@, e)]
      /\ UNCHANGED <<room, inside, sock, toServer, view, rev>>
  BY DEF Answer
<1>2. drawing[c][k] \in Drawing /\ toClient[c] \in Seq(Message)
  BY DEF TypeOK
<1>3. e \in Message /\ e.type = "snapshot" /\ e.rev = drawing[c][k].rev
  BY <1>2 DEF Drawing, Message
<1> HIDE DEF e
<1>4. NoDrawing \in Drawing /\ NoDrawing.stage = "none"
  BY DEF NoDrawing, Drawing
<1>5. Redrawn(drawing[c], k, NoDrawing, drawing'[c])
  BY <1>1, <1>4, PutDrawing DEF TypeOK, Redrawn
<1>6. toClient'[c] = Append(toClient[c], e)
  BY <1>1 DEF TypeOK
<1>7. Seat(c, inside, room, drawing'[c], sock[c], toServer[c], Append(toClient[c], e),
           view[c], rev)
  BY <1>1, <1>2, <1>3, <1>4, <1>5, SeatAnswered DEF SeatOf
<1> QED  BY <1>1, <1>6, <1>7 DEF SeatOf

LEMMA SeatDrop ==
    ASSUME TypeOK, NEW c \in Client, SeatOf(c), NEW b \in Client, Drop(b)
    PROVE  SeatOf(c)'
<1>1. /\ sock' = [sock EXCEPT ![b] = "dead"] /\ toServer' = [toServer EXCEPT ![b] = <<>>]
      /\ drawing' = [drawing EXCEPT ![b] = [k \in Slot |-> NoDrawing]]
      /\ inside' = inside \ {b} /\ UNCHANGED <<room, view>>
      /\ rev' = IF b \in inside THEN rev + 1 ELSE rev
      /\ toClient'[c] = IF c = b THEN <<>>
                        ELSE IF b \in inside /\ c \in inside
                        THEN Append(toClient[c], [type |-> "other", rev |-> rev + 1, val |-> 0])
                        ELSE toClient[c]
  BY DEF Drop, Spend
<1>2. CASE c = b
  <2>1. /\ sock'[c] = "dead" /\ toServer'[c] = <<>> /\ toClient'[c] = <<>>
        /\ drawing'[c] = [k \in Slot |-> NoDrawing] /\ c \notin inside'
    BY <1>1, <1>2 DEF TypeOK
  <2>2. Undrawn(drawing'[c])
    BY <2>1 DEF Undrawn, NoDrawing
  <2>3. Seat(c, inside', room, drawing'[c], "dead", <<>>, <<>>, view[c], rev')
    BY <2>1, <2>2, SeatBroken DEF SeatOf
  <2> QED  BY <1>1, <2>1, <2>3 DEF SeatOf
<1>3. CASE c # b
  <2>1. /\ UNCHANGED <<room, drawing[c], sock[c], toServer[c], view[c]>>
        /\ c \in inside' <=> c \in inside
    BY <1>1, <1>3 DEF TypeOK
  <2>2. CASE b \in inside
    BY <1>1, <1>3, <2>1, <2>2, SeatSpent
  <2>3. CASE b \notin inside
    <3>1. toClient'[c] = toClient[c] /\ rev' = rev
      BY <1>1, <1>3, <2>3
    <3> QED  BY <2>1, <3>1, SeatStays
  <2> QED  BY <2>2, <2>3
<1> QED  BY <1>2, <1>3

LEMMA SeatBrowser ==
    ASSUME TypeOK, NEW c \in Client, SeatOf(c), Browser(c)
    PROVE  SeatOf(c)'
<1>1. /\ view[c] \in View /\ toServer[c] \in Seq({"join", "resync"})
      /\ toClient[c] \in Seq(Message) /\ drawing[c] \in [Slot -> Drawing] /\ rev \in Nat
  BY DEF TypeOK
<1>2. CASE Notice(c)
  <2>1. /\ sock[c] # "open" /\ sock'[c] = "down" /\ view'[c] = Owed(view[c])
        /\ UNCHANGED <<room, inside, drawing, toServer, toClient, rev>>
    BY <1>2 DEF Notice, TypeOK, server
  <2>2. c \notin inside /\ toServer[c] = <<>> /\ toClient[c] = <<>> /\ Undrawn(drawing[c])
    BY <2>1 DEF SeatOf, Seat, SocketOK
  <2>3. Owed(view[c]).phase = view[c].phase
    BY <1>1 DEF Owed, View
  <2>4. Seat(c, inside, room, drawing[c], "down", <<>>, <<>>, Owed(view[c]), rev)
    BY <2>2, <2>3, SeatBroken DEF SeatOf
  <2> QED  BY <2>1, <2>2, <2>4 DEF SeatOf
<1>3. CASE Connect(c)
  <2>1. /\ sock[c] = "down" /\ sock'[c] = "open" /\ view'[c] = Owed(view[c])
        /\ toServer'[c] = <<"join">>
        /\ UNCHANGED <<room, inside, drawing, toClient, rev>>
    BY <1>3 DEF Connect, TypeOK, server
  <2>2. Seat(c, inside, room, drawing[c], "open", <<"join">>, toClient[c], Owed(view[c]), rev)
    BY <1>1, <2>1, SeatConnect DEF SeatOf
  <2> QED  BY <2>1, <2>2 DEF SeatOf
<1>4. CASE Resync(c)
  <2>1. /\ sock[c] = "open" /\ toServer'[c] = Append(toServer[c], "resync")
        /\ UNCHANGED <<room, inside, drawing, sock, view, toClient, rev>>
    BY <1>4 DEF Resync, TypeOK, server
  <2>2. Seat(c, inside, room, drawing[c], "open", Append(toServer[c], "resync"),
             toClient[c], view[c], rev)
    BY <1>1, <2>1, SeatAsks DEF SeatOf
  <2> QED  BY <2>1, <2>2 DEF SeatOf
<1>5. CASE Receive(c)
  <2>1. /\ sock[c] = "open" /\ toClient[c] # <<>> /\ toClient'[c] = Tail(toClient[c])
        /\ view'[c] = Reduce(view[c], Head(toClient[c]))
        /\ UNCHANGED <<room, inside, drawing, sock, toServer, rev>>
    BY <1>5 DEF Receive, TypeOK, server
  <2>2. Seat(c, inside, room, drawing[c], "open", toServer[c], Tail(toClient[c]),
             Reduce(view[c], Head(toClient[c])), rev)
    BY <1>1, <2>1, SeatReceived DEF SeatOf
  <2> QED  BY <2>1, <2>2 DEF SeatOf
<1> QED  BY <1>2, <1>3, <1>4, <1>5 DEF Browser

LEMMA SeatRestart ==
    ASSUME TypeOK, NEW c \in Client, SeatOf(c), room # "gone", room' # "gone", Restart
    PROVE  SeatOf(c)'
<1>1. /\ room' = room /\ inside' = {} /\ toServer'[c] = <<>> /\ toClient'[c] = <<>>
      /\ drawing'[c] = [k \in Slot |-> NoDrawing] /\ UNCHANGED view
      /\ sock'[c] # "open"
  BY DEF Restart, TypeOK
<1>2. Undrawn(drawing'[c]) /\ c \notin inside' /\ sock'[c] # "open"
  BY <1>1 DEF Undrawn, NoDrawing
<1>3. Seat(c, inside', room, drawing'[c], sock'[c], <<>>, <<>>, view[c], rev')
  <2>1. Seat(c, inside, room, drawing[c], sock[c], toServer[c], toClient[c], view[c], rev)
    BY DEF SeatOf
  <2> QED  BY <1>2, <2>1, SeatBroken
<1> QED  BY <1>1, <1>3 DEF SeatOf

(* Every step keeps everyone's seat.                                       *)
LEMMA SeatedNext == TypeOK /\ Seated /\ [Next]_vars => Seated'
<1> SUFFICES ASSUME TypeOK, Seated, [Next]_vars, room' # "gone", NEW c \in Client \ Newcomer
             PROVE  SeatOf(c)'
  BY DEF Seated, SeatOf
<1>1. room # "gone"
  BY DEF Next, Commit, Publish, Close, CloseDone, Restart, Serve, Drop, Browser, Draw,
         Enter, Reenter, Read, Answer, Notice, Connect, Resync, Receive, server, vars
<1>2. SeatOf(c)
  BY <1>1 DEF Seated
<1>3. CASE UNCHANGED vars \/ Commit
  <2>1. UNCHANGED <<room, inside, drawing, sock, toServer, toClient, view, rev>>
    BY <1>3 DEF vars, server, wire, Commit
  <2> QED  BY <1>2, <2>1, SeatStays
<1>4. CASE Publish
  <2>1. /\ UNCHANGED <<room, inside, drawing, sock, toServer, view>> /\ rev' = rev + 1
        /\ db \in Nat
        /\ toClient'[c] = IF c \in inside
                          THEN Append(toClient[c], [type |-> "change", rev |-> rev + 1, val |-> db])
                          ELSE toClient[c]
    BY <1>4 DEF Publish, Spend, Broadcast, TypeOK
  <2> QED  BY <1>2, <2>1, SeatSpent
<1>5. CASE Close
  <2>1. /\ UNCHANGED <<inside, drawing, sock, toServer, toClient, view, rev>>
        /\ room = "open" /\ room' = "closed"
    BY <1>5 DEF Close, wire
  <2>2. Seat(c, inside, "closed", drawing[c], sock[c], toServer[c], toClient[c], view[c], rev)
    BY <1>2, <2>1, SeatClosing DEF SeatOf
  <2> QED  BY <2>1, <2>2 DEF SeatOf
<1>6. CASE CloseDone
  BY <1>6 DEF CloseDone
<1>7. CASE Restart
  BY <1>1, <1>2, <1>7, SeatRestart
<1>8. ASSUME NEW b \in Client, Serve(b)  PROVE SeatOf(c)'
  <2>1. CASE b = c
    BY <1>1, <1>2, <1>8, <2>1, SeatServe
  <2>2. CASE b # c
    <3>1. UNCHANGED <<room, inside, sock, view, rev>> /\ UNCHANGED <<toServer[c], toClient[c]>>
      BY <1>8, <2>2 DEF Serve, TypeOK
    <3>2. UNCHANGED drawing[c]
      BY <1>8, <2>2 DEF Serve, TypeOK
    <3> QED  BY <1>2, <3>1, <3>2, SeatStays
  <2> QED  BY <2>1, <2>2
<1>9. ASSUME NEW b \in Client, Drop(b)  PROVE SeatOf(c)'
  BY <1>2, <1>9, SeatDrop
<1>10. ASSUME NEW b \in Client, Browser(b)  PROVE SeatOf(c)'
  <2>1. CASE b = c
    BY <1>2, <1>10, <2>1, SeatBrowser
  <2>2. CASE b # c
    <3>1. /\ UNCHANGED <<room, inside, drawing, rev>>
          /\ UNCHANGED <<sock[c], toServer[c], toClient[c], view[c]>>
      BY <1>10, <2>2 DEF Browser, Notice, Connect, Resync, Receive, TypeOK, server
    <3> QED  BY <1>2, <3>1, SeatStays
  <2> QED  BY <2>1, <2>2
<1>11. ASSUME NEW b \in Client, NEW k \in Slot, Draw(b, k)  PROVE SeatOf(c)'
  <2>1. CASE b = c
    BY <1>2, <1>11, <2>1, SeatEnter, SeatReads, SeatAnswer DEF Draw
  <2>2. CASE b # c /\ Enter(b, k)
    <3>1. /\ UNCHANGED <<room, sock, toServer, view>> /\ rev' = rev + 1
          /\ c \in inside' <=> c \in inside
          /\ toClient'[c] = IF c \in inside
                            THEN Append(toClient[c], [type |-> "other", rev |-> rev + 1, val |-> 0])
                            ELSE toClient[c]
      BY <2>2 DEF Enter, Spend, Broadcast
    <3>2. UNCHANGED drawing[c]
      BY <2>2 DEF Enter, TypeOK
    <3> QED  BY <1>2, <3>1, <3>2, SeatSpent
  <2>3. CASE b # c /\ (Reenter(b, k) \/ Read(b, k) \/ Answer(b, k))
    <3>1. UNCHANGED <<room, inside, sock, toServer, view, rev>>
      BY <2>3 DEF Reenter, Read, Answer, wire
    <3>2. UNCHANGED <<drawing[c], toClient[c]>>
      BY <2>3 DEF Reenter, Read, Answer, wire, TypeOK
    <3> QED  BY <1>2, <3>1, <3>2, SeatStays
  <2> QED  BY <1>11, <2>1, <2>2, <2>3 DEF Draw
<1> QED
  BY <1>3, <1>4, <1>5, <1>6, <1>7, <1>8, <1>9, <1>10, <1>11 DEF Next

LEMMA SeatedInit == Init => Seated
<1> SUFFICES ASSUME Init, NEW c \in Client \ Newcomer  PROVE SeatOf(c)
  BY DEF Seated
<1>1. /\ c \in inside /\ room = "open" /\ sock[c] = "open" /\ rev = 0
      /\ toServer[c] = <<>> /\ toClient[c] = <<>> /\ view[c] = Following
      /\ drawing[c] = [k \in Slot |-> NoDrawing]
  BY ClientsAssumption DEF Init
<1>2. Len(<<>>) = 0
  OBVIOUS
<1>3. SocketOK(c, inside, drawing[c], sock[c], toServer[c], toClient[c])
  BY <1>1 DEF SocketOK
<1>4. JoinOK(c, inside, drawing[c], toServer[c])
  BY <1>1, <1>2 DEF JoinOK, Joins, NoDrawing
<1>5. OutsideOK(c, inside, drawing[c], sock[c], toClient[c], view[c])
  BY <1>1 DEF OutsideOK
<1>6. RefusedOK(c, inside, room, drawing[c], toClient[c], view[c])
  BY <1>1, <1>2 DEF RefusedOK, Following, Joining
<1>7. CoveredOK(drawing[c], sock[c], toClient[c], view[c], rev)
  BY <1>1, <1>2 DEF CoveredOK, Following, Joining, NoDrawing
<1> QED  BY <1>3, <1>4, <1>5, <1>6, <1>7 DEF SeatOf, Seat

(* Every revision a synced browser has not applied is still on its way     *)
(* (roomClient.ts:261-265).                                                *)
THEOREM NothingSilentlyMissed == Spec => []NoSilentHole
<1>1. TypeOK /\ Seated => NoSilentHole
  <2> SUFFICES ASSUME TypeOK, Seated, room # "gone", NEW c \in Client \ Newcomer, Synced(c),
                      NEW r \in (view[c].revision + 1) .. rev
               PROVE  r \in OnTheWay(c)
    BY DEF NoSilentHole, NoHole
  <2>1. Coming(toClient[c], r)
    BY DEF Seated, SeatOf, Seat, CoveredOK, Synced
  <2>2. DOMAIN toClient[c] = 1 .. Len(toClient[c])
    BY DEF TypeOK
  <2> QED  BY <2>1, <2>2 DEF Coming, OnTheWay
<1> QED  BY <1>1, InitType, NextType, SeatedInit, SeatedNext, PTL DEF Spec

-----------------------------------------------------------------------------
AllSeen == \A c \in Client : SeenOK(view[c])

(* The reducer never applies what it has not seen.                         *)
LEMMA ReduceSeen ==
    ASSUME NEW v \in View, NEW m \in Message, SeenOK(v)
    PROVE  SeenOK(Reduce(v, m))
<1>1. v.revision \in Nat /\ v.seen \in Nat /\ m.rev \in Nat
  BY DEF View, Message
<1>2. CASE m.type = "snapshot"
  BY <1>1, <1>2, ReduceSnapshot DEF SeenOK
<1>3. CASE m.type = "rejected"
  <2>1. Reduce(v, m) = [v EXCEPT !.phase = "rejected"]
    BY <1>3 DEF Reduce
  <2> QED  BY <2>1 DEF SeenOK, View
<1>4. CASE m.type \in {"change", "other"}
  <2>1. Larger(v.seen, m.rev) >= v.seen /\ Larger(v.seen, m.rev) >= m.rev
        /\ Larger(v.seen, m.rev) \in Nat
    BY <1>1 DEF Larger
  <2>2. CASE v.phase = "in-room"
    BY <1>1, <1>4, <2>1, <2>2, ReduceChange DEF SeenOK
  <2>3. CASE v.phase # "in-room"
    BY <1>4, <2>3, ReduceChange
  <2> QED  BY <2>2, <2>3
<1>5. CASE m.type = "closed"
  <2> DEFINE seen  == [v EXCEPT !.seen = Larger(@, m.rev)]
             ended == [seen EXCEPT !.phase = "closed"]
  <2>1. Reduce(v, m) = ApplyChange(v, m)
    BY <1>5 DEF Reduce
  <2>2. ApplyChange(v, m) = IF v.phase # "in-room" THEN v ELSE ended
    BY <1>5 DEF ApplyChange
  <2>3. ended.phase = "closed"
    BY DEF View
  <2> HIDE DEF ended, seen
  <2> QED  BY <2>1, <2>2, <2>3 DEF SeenOK
<1> QED  BY <1>2, <1>3, <1>4, <1>5 DEF Message

LEMMA AllSeenNext == TypeOK /\ AllSeen /\ [Next]_vars => AllSeen'
<1> SUFFICES ASSUME TypeOK, AllSeen, [Next]_vars, NEW c \in Client  PROVE SeenOK(view'[c])
  BY DEF AllSeen, SeenOK
<1>1. view[c] \in View /\ SeenOK(view[c])
  BY DEF TypeOK, AllSeen
<1>2. view'[c] = view[c] => SeenOK(view'[c])
  BY <1>1
<1>3. ASSUME NEW b \in Client, Notice(b) \/ Connect(b)  PROVE SeenOK(view'[c])
  <2>1. view'[c] \in {view[c], Owed(view[c])}
    BY <1>3 DEF Notice, Connect, TypeOK
  <2>2. SeenOK(Owed(view[c]))
    BY <1>1 DEF SeenOK, Owed, View
  <2> QED  BY <1>1, <2>1, <2>2
<1>4. ASSUME NEW b \in Client, Receive(b)  PROVE SeenOK(view'[c])
  <2>1. CASE b = c
    <3>1. Head(toClient[c]) \in Message
      BY <1>4, <2>1, TailWire DEF Receive, TypeOK
    <3>2. view'[c] = Reduce(view[c], Head(toClient[c]))
      BY <1>4, <2>1 DEF Receive, TypeOK
    <3> QED  BY <1>1, <3>1, <3>2, ReduceSeen
  <2>2. CASE b # c
    BY <1>2, <1>4, <2>2 DEF Receive, TypeOK
  <2> QED  BY <2>1, <2>2
<1>5. UNCHANGED view => SeenOK(view'[c])
  BY <1>2
<1> QED
  BY <1>3, <1>4, <1>5
     DEF Next, Browser, Draw, Commit, Publish, Close, CloseDone, Restart, Serve, Drop, Enter,
         Reenter, Read, Answer, Resync, vars

(* On one connection a synced browser never steps back to an earlier       *)
(* revision, whatever snapshots arrive late (roomClient.ts reduceRoom).    *)
THEOREM SyncedNeverGoesBack == Spec => NeverGoesBack
<1>1. Init => AllSeen
  BY DEF Init, AllSeen, SeenOK, Following, Joining
<1>2. TypeOK /\ AllSeen /\ [Next]_vars =>
          \A c \in Client : Synced(c) /\ Synced(c)' => view'[c].revision >= view[c].revision
  <2> SUFFICES ASSUME TypeOK, AllSeen, [Next]_vars, NEW c \in Client, Synced(c), Synced(c)'
               PROVE  view'[c].revision >= view[c].revision
    OBVIOUS
  <2>1. view[c] \in View /\ view[c].revision \in Nat /\ view[c].seen \in Nat
    BY DEF TypeOK, View
  <2>2. UNCHANGED view[c] => view'[c].revision >= view[c].revision
    BY <2>1
  <2>3. ASSUME NEW b \in Client, Notice(b) \/ Connect(b)  PROVE UNCHANGED view[c]
    BY <2>3 DEF Notice, Connect, Synced, TypeOK
  <2>4. ASSUME NEW b \in Client, Receive(b)  PROVE view'[c].revision >= view[c].revision
    <3>1. CASE b = c
      <4> DEFINE m == Head(toClient[c])
      <4>1. m \in Message
        BY <2>4, <3>1, TailWire DEF Receive, TypeOK
      <4>2. view'[c] = Reduce(view[c], m)
        BY <2>4, <3>1 DEF Receive, TypeOK
      <4> HIDE DEF m
      <4>3. /\ view[c].phase = "in-room" /\ ~view'[c].awaiting
            /\ view'[c].phase = "in-room" /\ view[c].revision <= view[c].seen
        BY DEF Synced, AllSeen, SeenOK
      <4>4. m.rev \in Nat
        BY <4>1 DEF Message
      <4>5. CASE m.type = "snapshot"
        <5>1. /\ view'[c].revision = m.rev /\ view'[c].seen = Larger(view[c].seen, m.rev)
              /\ view'[c].seen = m.rev
          BY <2>1, <4>1, <4>2, <4>3, <4>5, ReduceSnapshot
        <5> QED  BY <2>1, <4>3, <4>4, <5>1 DEF Larger
      <4>6. CASE m.type \in {"change", "other"}
        <5>1. \/ view'[c].revision = view[c].revision
              \/ view'[c].revision = m.rev /\ m.rev = view[c].revision + 1
          BY <2>1, <4>1, <4>2, <4>3, <4>6, ReduceChange
        <5> QED  BY <2>1, <5>1
      <4>7. m.type # "rejected"
        <5>1. m.type = "rejected" => view'[c] = [view[c] EXCEPT !.phase = "rejected"]
          BY <4>2 DEF Reduce
        <5> QED  BY <2>1, <4>3, <5>1 DEF View
      <4>8. m.type # "closed"
        <5>1. m.type = "closed" => Reduce(view[c], m) = ApplyChange(view[c], m)
          BY DEF Reduce
        <5>2. m.type = "closed" => ApplyChange(view[c], m).phase = "closed"
          BY <2>1, <4>3 DEF ApplyChange, View
        <5> QED  BY <4>2, <4>3, <5>1, <5>2
      <4> QED  BY <4>1, <4>5, <4>6, <4>7, <4>8 DEF Message
    <3>2. CASE b # c
      BY <2>2, <2>4, <3>2 DEF Receive, TypeOK
    <3> QED  BY <3>1, <3>2
  <2>5. UNCHANGED view => UNCHANGED view[c]
    OBVIOUS
  <2> QED
    BY <2>2, <2>3, <2>4, <2>5
       DEF Next, Browser, Draw, Commit, Publish, Close, CloseDone, Restart, Serve, Drop,
           Enter, Reenter, Read, Answer, Resync, vars
<1> QED  BY <1>1, <1>2, InitType, NextType, AllSeenNext, PTL DEF Spec, NeverGoesBack

----------------------------------------------------------------------------
(* The Hands two Rooms and a Library keep, by the transactions under way.  *)

HasRoom(d) == (d.kind \in {"import", "share"} /\ d.stage # "begun") \/ d.kind = "close"

(* A closing's Room is open; it holds every Hand its Queue refers to, once *)
(* locked, and what it is to discard is of those and kept nowhere else.    *)
ClosingOK(d) ==
    d.kind = "close" =>
        /\ d.room \in open
        /\ d.held = IF d.stage = "marked" THEN {} ELSE Queued(d.room)
        /\ d.gone \subseteq d.held
        /\ d.stage # "looked" => d.gone = {}
        /\ \A h \in d.gone : ~Elsewhere(d.room, h)

(* A Hand referred to is stored, unless it is this import that stores it.  *)
ReferringOK(d) ==
    d.stage = "referred" => (d.row = 0 <=> d.hand \notin stored)

(* Two transactions never have the same Room, no two closings have a Hand  *)
(* locked, none has one an import has referred to, and only one import     *)
(* stores a Hand.                                                          *)
Apart(d, e) ==
    /\ HasRoom(d) /\ HasRoom(e) => d.room # e.room
    /\ d.kind = "close" /\ e.kind = "close" => d.held \cap e.held = {}
    /\ d.kind = "close" /\ e.stage = "referred" => e.hand \notin d.held
    /\ d.stage = "referred" /\ e.stage = "referred" /\ d.hand = e.hand => d.row # 0

StoredOK ==
    /\ \A h \in stored : version[h] > 0
    /\ \A r \in Room, h \in Hand : <<r, h>> \in queue => h \in stored

HandsInv ==
    /\ HandsTyped
    /\ StoredOK
    /\ \A t \in Tx : ClosingOK(tx[t]) /\ ReferringOK(tx[t])
    /\ \A t, u \in Tx : t # u => Apart(tx[t], tx[u])

-----------------------------------------------------------------------------
(* What a transaction is, by its command.                                  *)
LEMMA Kinds ==
    ASSUME NEW d \in Command
    PROVE  /\ d.kind \in {"idle", "import", "share", "collect", "close"}
           /\ d.kind = "idle" => d = Free /\ d.stage = "idle"
           /\ d.kind \in {"import", "share"} => d \in Appendings
           /\ d.kind = "collect" => d \in Collectings
           /\ d.kind = "close" => d \in Closings
           /\ d.stage = "referred" => d \in Appendings \cup Collectings
  BY DEF Command, Free, Appendings, Collectings, Closings

(* A connection with nothing to do breaks nothing.                         *)
LEMMA IdleOK ==
    /\ Free \in Command
    /\ ClosingOK(Free) /\ ReferringOK(Free)
    /\ \A e : e \in Command => Apart(Free, e) /\ Apart(e, Free)
  BY DEF Command, Free, ClosingOK, ReferringOK, Apart, HasRoom

(* One transaction moves to d and nothing is committed.                    *)
LEMMA Moves ==
    ASSUME HandsInv, NEW t \in Tx, NEW d \in Command,
           tx' = [tx EXCEPT ![t] = d], UNCHANGED tables, commands' \in Nat,
           ClosingOK(d), ReferringOK(d),
           \A u \in Tx \ {t} : Apart(d, tx[u]) /\ Apart(tx[u], d)
    PROVE  HandsInv'
<1>1. tx \in [Tx -> Command]
  BY DEF HandsInv, HandsTyped
<1>2. /\ tx' \in [Tx -> Command] /\ tx'[t] = d
      /\ \A u \in Tx \ {t} : tx'[u] = tx[u]
  BY <1>1
<1>3. HandsTyped'
  BY <1>2 DEF HandsInv, HandsTyped, tables
<1>4. StoredOK'
  BY DEF HandsInv, StoredOK, tables
<1>5. ASSUME NEW u \in Tx  PROVE ClosingOK(tx[u])' /\ ReferringOK(tx[u])'
  <2>1. ClosingOK(tx'[u]) /\ ReferringOK(tx'[u])
    BY <1>2 DEF HandsInv
  <2> QED  BY <2>1 DEF ClosingOK, ReferringOK, tables, Queued, Elsewhere
<1>6. ASSUME NEW u \in Tx, NEW v \in Tx, u # v  PROVE Apart(tx[u], tx[v])'
  <2>1. Apart(tx'[u], tx'[v])
    BY <1>2, <1>6 DEF HandsInv
  <2> QED  BY <2>1 DEF Apart, HasRoom
<1> QED  BY <1>3, <1>4, <1>5, <1>6 DEF HandsInv

(* A command ends, or its transaction fails, with nothing committed.       *)
LEMMA EndsOK ==
    ASSUME HandsInv, NEW t \in Tx, Ends(t), UNCHANGED <<tables, commands>>
    PROVE  HandsInv'
<1>1. \A u \in Tx : tx[u] \in Command
  BY DEF HandsInv, HandsTyped
<1>2. commands' \in Nat
  BY DEF HandsInv, HandsTyped
<1>3. tx' = [tx EXCEPT ![t] = Free]
  BY DEF Ends
<1>4. UNCHANGED tables
  OBVIOUS
<1> QED  BY <1>1, <1>2, <1>3, <1>4, IdleOK, Moves

(* A command begins.                                                       *)
LEMMA BeginsOK ==
    ASSUME HandsInv, NEW t \in Tx, NEW d \in Command, Begins(t, d),
           ClosingOK(d), d.stage # "referred",
           HasRoom(d) => ~RoomLocked(d.room),
           d.kind = "close" => d.held = {}
    PROVE  HandsInv'
<1>1. \A u \in Tx : tx[u] \in Command
  BY DEF HandsInv, HandsTyped
<1>2. commands' \in Nat /\ tx' = [tx EXCEPT ![t] = d] /\ UNCHANGED tables
  BY DEF Begins, HandsInv, HandsTyped
<1>3. ReferringOK(d)
  BY DEF ReferringOK
<1>4. ASSUME NEW u \in Tx \ {t}  PROVE Apart(d, tx[u]) /\ Apart(tx[u], d)
  <2>1. HasRoom(d) /\ HasRoom(tx[u]) => d.room # tx[u].room
    BY DEF RoomLocked, HoldsRoom, HasRoom, Into, At, Closes
  <2> QED  BY <2>1 DEF Apart
<1> QED  BY <1>2, <1>3, <1>4, Moves

-----------------------------------------------------------------------------
(* The commands as they begin (rooms.service.ts markClosed, imports and    *)
(* additions from a Library).                                              *)
LEMMA BeginImport ==
    ASSUME HandsInv, NEW t \in Tx, NEW k \in {"import", "share"}, NEW r \in Room,
           NEW p \in Person, NEW h \in Hand, NEW n \in Nat,
           Begins(t, Appending(k, r, p, h, n))
    PROVE  HandsInv'
<1> DEFINE d == Appending(k, r, p, h, n)
<1>1. /\ d \in Appendings /\ d.kind \in {"import", "share"} /\ d.stage = "begun"
      /\ d.kind # "close"
  BY DEF Appending, Appendings
<1>2. d \in Command /\ ClosingOK(d) /\ ~HasRoom(d)
  BY <1>1 DEF Command, ClosingOK, HasRoom
<1> HIDE DEF d
<1> QED  BY <1>1, <1>2, BeginsOK DEF d

LEMMA BeginCollect ==
    ASSUME HandsInv, NEW t \in Tx, NEW p \in Person, NEW h \in Hand, ImportIntoLibrary(t, p, h)
    PROVE  HandsInv'
<1> DEFINE d == Collecting(p, h)
<1>1. d \in Collectings /\ d.kind = "collect" /\ d.stage = "planning"
  BY DEF Collecting, Collectings
<1>2. d \in Command /\ ClosingOK(d) /\ ~HasRoom(d)
  BY <1>1 DEF Command, ClosingOK, HasRoom
<1>3. Begins(t, d)
  BY DEF ImportIntoLibrary
<1> HIDE DEF d
<1> QED  BY <1>1, <1>2, <1>3, BeginsOK

LEMMA BeginClose ==
    ASSUME HandsInv, NEW t \in Tx, NEW r \in Room, CloseRoom(t, r)
    PROVE  HandsInv'
<1> DEFINE d == Closing(r)
<1>1. /\ d \in Closings /\ d.kind = "close" /\ d.stage = "marked" /\ d.room = r
      /\ d.held = {} /\ d.gone = {}
  BY DEF Closing, Closings
<1>2. d \in Command
  BY <1>1 DEF Command
<1>3. Begins(t, d) /\ r \in open /\ ~RoomLocked(r)
  BY DEF CloseRoom
<1> HIDE DEF d
<1>4. ClosingOK(d)
  BY <1>1, <1>3 DEF ClosingOK
<1> QED  BY <1>1, <1>2, <1>3, <1>4, BeginsOK

-----------------------------------------------------------------------------
(* The Room's row is locked (queue.service.ts lockRoom).                   *)
LEMMA LockRoomOK ==
    ASSUME HandsInv, NEW t \in Tx, LockRoom(t)
    PROVE  HandsInv'
<1> DEFINE d == [tx[t] EXCEPT !.stage = "planning"]
<1>1. \A u \in Tx : tx[u] \in Command
  BY DEF HandsInv, HandsTyped
<1>2. tx[t] \in Appendings
  BY <1>1, Kinds DEF LockRoom, Into
<1>3. /\ d \in Appendings /\ d.stage = "planning" /\ d.kind # "close"
      /\ d.room = tx[t].room
  BY <1>2 DEF Appendings
<1>4. tx' = [tx EXCEPT ![t] = d] /\ UNCHANGED tables /\ commands' \in Nat
  BY DEF LockRoom, Goes, HandsInv, HandsTyped
<1>5. \A u \in Tx : HasRoom(tx[u]) => tx[u].room # tx[t].room
  BY DEF LockRoom, RoomLocked, HoldsRoom, HasRoom, Into, At, Closes
<1> HIDE DEF d
<1>6. d \in Command /\ ClosingOK(d) /\ ReferringOK(d)
  BY <1>3 DEF Command, ClosingOK, ReferringOK
<1>7. \A u \in Tx \ {t} : Apart(d, tx[u]) /\ Apart(tx[u], d)
  BY <1>3, <1>5 DEF Apart
<1> QED  BY <1>4, <1>6, <1>7, Moves

(* What is to be imported is compared with what there is (planImport).     *)
LEMMA PlanOK ==
    ASSUME HandsInv, NEW t \in Tx, Plan(t)
    PROVE  HandsInv'
<1> DEFINE n == IF tx[t].kind = "share" THEN tx[t].row ELSE Row(tx[t].hand)
           d == [tx[t] EXCEPT !.stage = "storing", !.row = n]
<1>1. \A u \in Tx : tx[u] \in Command
  BY DEF HandsInv, HandsTyped
<1>2. tx[t].stage = "planning"
  BY DEF Plan, At
<1>3. tx[t] \in Appendings \/ tx[t] \in Collectings
  BY <1>1, <1>2 DEF Command, Free, Closings, Appendings, Collectings
<1>4. tx[t].hand \in Hand /\ tx[t].row \in Nat
  BY <1>3 DEF Appendings, Collectings
<1>5. n \in Nat
  BY <1>4 DEF Row, HandsInv, HandsTyped
<1>6. /\ d \in Appendings \cup Collectings
      /\ d.stage = "storing" /\ d.kind = tx[t].kind /\ d.kind # "close"
      /\ d.kind \in {"import", "share"} => d.room = tx[t].room
  <2> HIDE DEF n
  <2> QED  BY <1>3, <1>5 DEF Appendings, Collectings
<1>7. Ends(t) \/ tx' = [tx EXCEPT ![t] = d]
  <2>1. Ends(t) \/ tx' = [tx EXCEPT ![t].stage = "storing", ![t].row = n]
    BY DEF Plan
  <2> HIDE DEF n
  <2>2. tx \in [Tx -> Command]
    BY DEF HandsInv, HandsTyped
  <2> QED  BY <2>1, <2>2
<1>8. UNCHANGED <<tables, commands>> /\ UNCHANGED tables /\ commands' \in Nat
  BY DEF Plan, HandsInv, HandsTyped
<1> HIDE DEF d, n
<1>9. d \in Command /\ ClosingOK(d) /\ ReferringOK(d)
  BY <1>6 DEF Command, ClosingOK, ReferringOK
<1>10. ASSUME NEW u \in Tx \ {t}  PROVE Apart(d, tx[u]) /\ Apart(tx[u], d)
  <2>1. HasRoom(d) => HasRoom(tx[t]) /\ d.room = tx[t].room
    BY <1>2, <1>6 DEF HasRoom
  <2>2. Apart(tx[t], tx[u]) /\ Apart(tx[u], tx[t])
    BY DEF HandsInv
  <2> QED  BY <1>6, <2>1, <2>2 DEF Apart
<1> QED  BY <1>7, <1>8, <1>9, <1>10, EndsOK, Moves

(* The Hand is stored and referred to (storeHands, insertEntries).         *)
LEMMA ReferOK ==
    ASSUME HandsInv, NEW t \in Tx, Refer(t)
    PROVE  HandsInv'
<1> DEFINE h == tx[t].hand
           d == [tx[t] EXCEPT !.stage = "referred", !.row = Row(h)]
<1>1. \A u \in Tx : tx[u] \in Command
  BY DEF HandsInv, HandsTyped
<1>2. tx[t].stage = "storing" /\ ~HandLocked(h) /\ ~HandComing(h)
  BY DEF Refer, At
<1>3. tx[t] \in Appendings \/ tx[t] \in Collectings
  BY <1>1, <1>2 DEF Command, Free, Closings, Appendings, Collectings
<1>4. h \in Hand
  BY <1>3 DEF Appendings, Collectings
<1>5. Row(h) \in Nat /\ (Row(h) = 0 <=> h \notin stored)
  <2>1. version[h] \in Nat /\ (h \in stored => version[h] > 0)
    BY <1>4 DEF HandsInv, HandsTyped, StoredOK
  <2> QED  BY <2>1 DEF Row
<1>6. /\ d \in Appendings \cup Collectings
      /\ d.stage = "referred" /\ d.kind = tx[t].kind /\ d.kind # "close"
      /\ d.kind \in {"import", "share"} => d.room = tx[t].room
      /\ d.hand = h /\ d.row = Row(h)
  BY <1>3, <1>5 DEF Appendings, Collectings
<1>7. Ends(t) \/ tx' = [tx EXCEPT ![t] = d]
  BY DEF Refer, HandsInv, HandsTyped
<1>8. UNCHANGED <<tables, commands>> /\ UNCHANGED tables /\ commands' \in Nat
  BY DEF Refer, HandsInv, HandsTyped
<1> HIDE DEF d
<1>9. d \in Command /\ ClosingOK(d) /\ ReferringOK(d)
  BY <1>5, <1>6 DEF Command, ClosingOK, ReferringOK
<1>10. ASSUME NEW u \in Tx \ {t}  PROVE Apart(d, tx[u]) /\ Apart(tx[u], d)
  <2>1. HasRoom(d) => HasRoom(tx[t]) /\ d.room = tx[t].room
    BY <1>2, <1>6 DEF HasRoom
  <2>2. Apart(tx[t], tx[u]) /\ Apart(tx[u], tx[t]) /\ ReferringOK(tx[u])
    BY DEF HandsInv
  <2>3. tx[u].kind = "close" => h \notin tx[u].held
    BY <1>2 DEF HandLocked, Closes
  <2>4. tx[u].stage = "referred" /\ tx[u].hand = h => tx[u].row # 0 /\ h \in stored
    BY <1>2, <2>2 DEF HandComing, Refers, At, ReferringOK
  <2>5. HasRoom(d) /\ HasRoom(tx[u]) => d.room # tx[u].room
    BY <2>1, <2>2 DEF Apart
  <2> QED  BY <1>5, <1>6, <2>3, <2>4, <2>5 DEF Apart
<1> QED  BY <1>7, <1>8, <1>9, <1>10, EndsOK, Moves

(* What is committed changes, and t is done with.                          *)
LEMMA Done ==
    ASSUME HandsInv, NEW t \in Tx, Ends(t), HandsTyped', StoredOK',
           \A u \in Tx \ {t} : (ClosingOK(tx[u]) /\ ReferringOK(tx[u]))'
    PROVE  HandsInv'
<1>1. \A u \in Tx : tx[u] \in Command
  BY DEF HandsInv, HandsTyped
<1>2. tx'[t] = Free /\ \A u \in Tx \ {t} : tx'[u] = tx[u]
  BY DEF Ends, HandsInv, HandsTyped
<1>3. ASSUME NEW u \in Tx  PROVE ClosingOK(tx[u])' /\ ReferringOK(tx[u])'
  <2>1. CASE u = t
    BY <1>2, <2>1 DEF ClosingOK, ReferringOK, Free
  <2>2. CASE u # t
    BY <2>2
  <2> QED  BY <2>1, <2>2
<1>4. ASSUME NEW u \in Tx, NEW v \in Tx, u # v  PROVE Apart(tx[u], tx[v])'
  <2>1. Apart(tx'[u], tx'[v])
    BY <1>1, <1>2, <1>4, IdleOK DEF HandsInv
  <2> QED  BY <2>1 DEF Apart, HasRoom
<1> QED  BY <1>3, <1>4 DEF HandsInv

-----------------------------------------------------------------------------
(* An import commits (queue.service.ts append, library.service.ts add).    *)
LEMMA CommitOK ==
    ASSUME HandsInv, NEW t \in Tx, CommitTx(t)
    PROVE  HandsInv'
<1> DEFINE h == tx[t].hand
<1>1. \A u \in Tx : tx[u] \in Command
  BY DEF HandsInv, HandsTyped
<1>2. tx[t].stage = "referred" /\ Ends(t) /\ UNCHANGED <<open, commands>>
  BY DEF CommitTx, At
<1>3. /\ h \in Hand /\ tx[t].kind \in {"import", "share", "collect"}
      /\ tx[t].kind = "collect" => tx[t].who \in Person
      /\ tx[t].kind # "collect" => tx[t].room \in Room /\ HasRoom(tx[t])
  <2>1. tx[t] \in Appendings \/ tx[t] \in Collectings
    BY <1>1, <1>2, Kinds
  <2> QED  BY <1>2, <2>1 DEF Appendings, Collectings, HasRoom
<1>4. /\ stored' = stored \cup {h}
      /\ version' = IF tx[t].row = 0 THEN [version EXCEPT ![h] = @ + 1] ELSE version
      /\ tx[t].kind = "collect" => library' = library \cup {<<tx[t].who, h>>} /\ queue' = queue
      /\ tx[t].kind # "collect" => queue' = queue \cup {<<tx[t].room, h>>} /\ library' = library
      /\ lost' \in {lost \ {h}, lost \cup {h}}
  BY DEF CommitTx
<1>5. ReferringOK(tx[t]) /\ (tx[t].row = 0 <=> h \notin stored)
  BY <1>2 DEF HandsInv, ReferringOK
<1>6. tx' \in [Tx -> Command]
  BY <1>2, IdleOK DEF Ends, HandsInv, HandsTyped
<1> HIDE DEF h
<1>7. HandsTyped'
  <2>1. version' \in [Hand -> Nat]
    BY <1>3, <1>4 DEF HandsInv, HandsTyped
  <2> QED  BY <1>2, <1>3, <1>4, <1>6, <2>1 DEF HandsInv, HandsTyped
<1>8. StoredOK'
  <2>1. \A g \in stored' : version'[g] > 0
    BY <1>3, <1>4, <1>5 DEF HandsInv, HandsTyped, StoredOK
  <2>2. \A r \in Room, g \in Hand : <<r, g>> \in queue' => g \in stored'
    BY <1>3, <1>4 DEF HandsInv, StoredOK
  <2> QED  BY <2>1, <2>2 DEF StoredOK
<1>9. ASSUME NEW u \in Tx \ {t}  PROVE (ClosingOK(tx[u]) /\ ReferringOK(tx[u]))'
  <2>0. PICK d \in Command : d = tx[u]
    BY <1>1
  <2>1. tx'[u] = d
    BY <1>2, <2>0 DEF Ends, HandsInv, HandsTyped
  <2>2. ClosingOK(d) /\ ReferringOK(d) /\ Apart(d, tx[t]) /\ Apart(tx[t], d)
    BY <2>0 DEF HandsInv
  <2>3. ClosingOK(d)'
    <3>1. CASE d.kind = "close"
      <4>1. h \notin d.held /\ h \notin d.gone
        BY <1>2, <2>2, <3>1 DEF Apart, ClosingOK, h
      <4>2. Queued(d.room)' = Queued(d.room)
        <5>1. tx[t].kind # "collect" => tx[t].room # d.room
          BY <1>3, <2>2, <3>1 DEF Apart, HasRoom
        <5> QED  BY <1>4, <5>1 DEF Queued
      <4>3. \A g \in d.gone : ~Elsewhere(d.room, g)'
        <5>1. \A g \in d.gone : g # h /\ ~Elsewhere(d.room, g)
          BY <2>2, <3>1, <4>1 DEF ClosingOK
        <5>2. open' = open
          BY <1>2
        <5>3. ASSUME NEW g \in d.gone  PROVE ~Elsewhere(d.room, g)'
          <6>1. g # h /\ ~Elsewhere(d.room, g)
            BY <5>1
          <6>2. \A x : /\ <<x, g>> \in queue' => <<x, g>> \in queue
                       /\ <<x, g>> \in library' => <<x, g>> \in library
            BY <1>3, <1>4, <6>1
          <6>3. /\ \A p \in Person : <<p, g>> \notin library
                /\ \A r \in open \ {d.room} : <<r, g>> \notin queue
            BY <6>1 DEF Elsewhere
          <6> QED  BY <5>2, <6>2, <6>3 DEF Elsewhere
        <5> QED  BY <5>3
      <4> QED  BY <1>2, <2>2, <4>2, <4>3 DEF ClosingOK
    <3>2. CASE d.kind # "close"
      BY <3>2 DEF ClosingOK
    <3> QED  BY <3>1, <3>2
  <2>4. ReferringOK(d)'
    <3>1. d.stage = "referred" /\ d.hand = h => d.row # 0
      BY <1>2, <2>2 DEF Apart, h
    <3> QED  BY <1>4, <2>2, <3>1 DEF ReferringOK
  <2> QED  BY <2>1, <2>3, <2>4 DEF ClosingOK, ReferringOK, Queued, Elsewhere
<1> QED  BY <1>2, <1>7, <1>8, <1>9, Done

(* A Hand is taken out of a Library (library.service.ts remove).           *)
LEMMA RemoveOK ==
    ASSUME HandsInv, NEW p \in Person, NEW h \in Hand, RemoveFromLibrary(p, h)
    PROVE  HandsInv'
<1>1. /\ library' = library \ {<<p, h>>} /\ commands' = commands + 1
      /\ UNCHANGED <<stored, queue, open, version, tx>>
      /\ lost' \in {lost, lost \cup {h}}
  BY DEF RemoveFromLibrary
<1>2. HandsTyped' /\ StoredOK'
  BY <1>1 DEF HandsInv, HandsTyped, StoredOK
<1>3. ASSUME NEW u \in Tx  PROVE ClosingOK(tx[u])' /\ ReferringOK(tx[u])'
  <2>1. ClosingOK(tx[u]) /\ ReferringOK(tx[u])
    BY DEF HandsInv
  <2> QED  BY <1>1, <2>1 DEF ClosingOK, ReferringOK, Queued, Elsewhere
<1>4. \A u, v \in Tx : u # v => Apart(tx[u], tx[v])'
  BY <1>1 DEF HandsInv, Apart, HasRoom
<1> QED  BY <1>2, <1>3, <1>4 DEF HandsInv

-----------------------------------------------------------------------------
(* A closing locks the Hands of its Queue (discardRoomHands).              *)
LEMMA LockHandsOK ==
    ASSUME HandsInv, NEW t \in Tx, LockHands(t)
    PROVE  HandsInv'
<1> DEFINE held == Queued(tx[t].room)
           d == [tx[t] EXCEPT !.stage = "locked", !.held = held]
<1>1. /\ tx[t] \in Closings /\ tx[t].stage = "marked" /\ tx[t].kind = "close"
      /\ \A u \in Tx : tx[u] \in Command
  BY Kinds DEF LockHands, Closes, At, HandsInv, HandsTyped
<1>2. /\ \A h \in held : ~HandShared(h) /\ ~HandLocked(h)
      /\ tx' = [tx EXCEPT ![t] = d] /\ UNCHANGED tables /\ commands' \in Nat
  BY DEF LockHands, HandsInv, HandsTyped
<1>3. held \subseteq Hand /\ \A h \in held : h \in stored
  BY <1>1 DEF Queued, HandsInv, StoredOK, Closings
<1>4. ClosingOK(tx[t]) /\ tx[t].gone = {} /\ tx[t].room \in open
  BY <1>1 DEF HandsInv, ClosingOK
<1> HIDE DEF held
<1>5. /\ d \in Closings /\ d.kind = "close" /\ d.stage = "locked"
      /\ d.room = tx[t].room /\ d.held = held /\ d.gone = {}
  BY <1>1, <1>3, <1>4 DEF Closings
<1> HIDE DEF d
<1>6. d \in Command /\ ClosingOK(d) /\ ReferringOK(d)
  BY <1>4, <1>5 DEF Command, ClosingOK, ReferringOK, held
<1>7. ASSUME NEW u \in Tx \ {t}  PROVE Apart(d, tx[u]) /\ Apart(tx[u], d)
  <2>1. Apart(tx[t], tx[u]) /\ Apart(tx[u], tx[t]) /\ ReferringOK(tx[u])
    BY DEF HandsInv
  <2>2. HasRoom(tx[u]) => tx[u].room # d.room
    BY <1>1, <1>5, <2>1 DEF Apart, HasRoom
  <2>3. tx[u].kind = "close" => tx[u].held \cap held = {}
    BY <1>2 DEF HandLocked, Closes
  <2>4. tx[u].stage = "referred" => tx[u].hand \notin held
    BY <1>2, <1>3, <2>1 DEF ReferringOK, HandShared, Refers, At
  <2> QED  BY <1>5, <2>2, <2>3, <2>4 DEF Apart
<1> QED  BY <1>2, <1>6, <1>7, Moves

(* It looks which of them nobody else keeps (roomHandsOf).                 *)
LEMMA LookOK ==
    ASSUME HandsInv, NEW t \in Tx, Look(t)
    PROVE  HandsInv'
<1> DEFINE gone == {h \in Queued(tx[t].room) : ~Elsewhere(tx[t].room, h)}
           d == [tx[t] EXCEPT !.stage = "looked", !.gone = gone]
<1>1. /\ tx[t] \in Closings /\ tx[t].stage = "locked" /\ tx[t].kind = "close"
      /\ \A u \in Tx : tx[u] \in Command
  BY Kinds DEF Look, Closes, At, HandsInv, HandsTyped
<1>2. tx' = [tx EXCEPT ![t] = d] /\ UNCHANGED tables /\ commands' \in Nat
  BY DEF Look, HandsInv, HandsTyped
<1>3. ClosingOK(tx[t]) /\ tx[t].held = Queued(tx[t].room) /\ tx[t].room \in open
  BY <1>1 DEF HandsInv, ClosingOK
<1>4. /\ gone \subseteq Hand /\ gone \subseteq tx[t].held
      /\ \A h \in gone : ~Elsewhere(tx[t].room, h)
  BY <1>3 DEF Queued
<1> HIDE DEF gone
<1>5. /\ d \in Closings /\ d.kind = "close" /\ d.stage = "looked"
      /\ d.room = tx[t].room /\ d.held = tx[t].held /\ d.gone = gone
  BY <1>1, <1>4 DEF Closings
<1> HIDE DEF d
<1>6. d \in Command /\ ClosingOK(d) /\ ReferringOK(d)
  BY <1>3, <1>4, <1>5 DEF Command, ClosingOK, ReferringOK
<1>7. ASSUME NEW u \in Tx \ {t}  PROVE Apart(d, tx[u]) /\ Apart(tx[u], d)
  <2>1. Apart(tx[t], tx[u]) /\ Apart(tx[u], tx[t])
    BY DEF HandsInv
  <2> QED  BY <1>1, <1>5, <2>1 DEF Apart, HasRoom
<1> QED  BY <1>2, <1>6, <1>7, Moves

(* They go, and the Room has closed.                                       *)
LEMMA DiscardOK ==
    ASSUME HandsInv, NEW t \in Tx, Discard(t)
    PROVE  HandsInv'
<1>1. PICK c \in Closings : c = tx[t] /\ c.kind = "close" /\ c.stage = "looked"
  BY Kinds DEF Discard, Closes, At, HandsInv, HandsTyped
<1>2. /\ ClosingOK(c) /\ c.room \in open /\ c.gone \subseteq c.held
      /\ c.held = Queued(c.room)
  BY <1>1 DEF HandsInv, ClosingOK
<1>3. Ends(t) /\ commands' = commands /\ \A h \in c.gone : ~HandShared(h)
  BY <1>1 DEF Discard
<1>4. CASE UNCHANGED tables
  BY <1>3, <1>4, EndsOK
<1>5. CASE ~UNCHANGED tables
  <2>1. /\ open' = open \ {c.room} /\ queue' = queue \ (Room \X c.gone)
        /\ stored' = stored \ c.gone /\ lost' = lost \ c.gone
        /\ library' = library /\ version' = version
    BY <1>1, <1>5 DEF Discard
  <2>2. tx' \in [Tx -> Command]
    BY <1>3, IdleOK DEF Ends, HandsInv, HandsTyped
  <2>3. HandsTyped'
    BY <1>3, <2>1, <2>2 DEF HandsInv, HandsTyped
  <2>4. StoredOK'
    BY <2>1 DEF HandsInv, StoredOK
  <2>5. ASSUME NEW u \in Tx \ {t}  PROVE (ClosingOK(tx[u]) /\ ReferringOK(tx[u]))'
    <3>1. PICK d \in Command : d = tx[u]
      BY DEF HandsInv, HandsTyped
    <3>2. tx'[u] = d
      BY <1>3, <3>1 DEF Ends, HandsInv, HandsTyped
    <3>3. ClosingOK(d) /\ ReferringOK(d) /\ Apart(c, d)
      BY <1>1, <3>1 DEF HandsInv
    <3>4. ClosingOK(d)'
      <4>1. CASE d.kind = "close"
        <5>1. d.room # c.room /\ d.held \cap c.gone = {}
          BY <1>1, <1>2, <3>3, <4>1 DEF Apart, HasRoom
        <5>2. d.stage # "marked" => Queued(d.room)' = Queued(d.room)
          <6>1. d.stage # "marked" => \A h \in Hand : <<d.room, h>> \in queue => h \notin c.gone
            BY <3>3, <4>1, <5>1 DEF ClosingOK, Queued
          <6> QED  BY <2>1, <6>1 DEF Queued
        <5>3. \A h \in d.gone : ~Elsewhere(d.room, h)'
          <6>1. \A h \in d.gone : ~Elsewhere(d.room, h)
            BY <3>3, <4>1 DEF ClosingOK
          <6> QED  BY <2>1, <6>1 DEF Elsewhere
        <5>4. d.room \in open'
          BY <2>1, <3>3, <4>1, <5>1 DEF ClosingOK
        <5> QED  BY <3>3, <4>1, <5>2, <5>3, <5>4 DEF ClosingOK
      <4>2. CASE d.kind # "close"
        BY <4>2 DEF ClosingOK
      <4> QED  BY <4>1, <4>2
    <3>5. ReferringOK(d)'
      <4>1. d.stage = "referred" => d.hand \notin c.gone
        BY <1>1, <1>2, <3>3 DEF Apart
      <4> QED  BY <2>1, <3>3, <4>1 DEF ReferringOK
    <3> QED  BY <3>2, <3>4, <3>5 DEF ClosingOK, ReferringOK, Queued, Elsewhere
  <2> QED  BY <1>3, <2>3, <2>4, <2>5, Done
<1> QED  BY <1>4, <1>5

-----------------------------------------------------------------------------
(* The invariant holds at first and every step keeps it.                   *)
THEOREM Invariant == HandsSpec => []HandsInv
<1>1. HandsInit => HandsInv
  <2> SUFFICES ASSUME HandsInit  PROVE HandsInv
    OBVIOUS
  <2>1. HandsTyped
    BY IdleOK, BoundAssumption DEF HandsInit, HandsTyped
  <2>2. \A t \in Tx : tx[t] = Free
    BY DEF HandsInit
  <2> QED  BY <2>1, <2>2, IdleOK DEF HandsInit, HandsInv, StoredOK
<1>2. HandsInv /\ [HandsNext]_handsVars => HandsInv'
  <2> SUFFICES ASSUME HandsInv, [HandsNext]_handsVars  PROVE HandsInv'
    OBVIOUS
  <2>1. ASSUME NEW t \in Tx, Rollback(t)  PROVE HandsInv'
    BY <2>1, EndsOK DEF Rollback
  <2>2. ASSUME NEW t \in Tx, NEW r \in Room, NEW p \in Person, NEW h \in Hand,
               Import(t, r, p, h) \/ AddFromLibrary(t, r, p, h)
        PROVE  HandsInv'
    <3>1. version[h] \in Nat
      BY DEF HandsInv, HandsTyped
    <3> QED  BY <2>2, <3>1, BeginImport DEF Import, AddFromLibrary
  <2>3. CASE UNCHANGED handsVars
    <3>1. UNCHANGED <<stored, library, queue, open, version, tx, lost, commands>>
      BY <2>3 DEF handsVars
    <3>2. \A t \in Tx : (ClosingOK(tx[t]) /\ ReferringOK(tx[t]))'
      BY <3>1 DEF HandsInv, ClosingOK, ReferringOK, Queued, Elsewhere
    <3>3. \A t, u \in Tx : t # u => Apart(tx[t], tx[u])'
      BY <3>1 DEF HandsInv, Apart, HasRoom
    <3> QED  BY <3>1, <3>2, <3>3 DEF HandsInv, HandsTyped, StoredOK
  <2>4. CASE HandsNext
    BY <2>1, <2>2, <2>4, LockRoomOK, PlanOK, ReferOK, CommitOK, LockHandsOK, LookOK,
       DiscardOK, BeginClose, BeginCollect, RemoveOK DEF HandsNext
  <2> QED  BY <2>3, <2>4
<1> QED  BY <1>1, <1>2, PTL DEF HandsSpec

(* No closing is ever about to discard a Hand somebody else keeps          *)
(* (rooms.service.ts discardRoomHands).                                    *)
THEOREM NothingKeptGoes == HandsSpec => []DiscardsNothingKept
<1>1. HandsInv => DiscardsNothingKept
  BY DEF HandsInv, ClosingOK, DiscardsNothingKept, Closes
<1> QED  BY <1>1, Invariant, PTL

(* The transactions implement KeptHands: an import's commit enqueues or    *)
(* collects, a closing's discarding closes, and nothing else is seen.      *)
THEOREM Implements == HandsSpec => KeepsHands
<1>1. HandsInit => Keeping!Init
  BY DEF HandsInit, Keeping!Init
<1>2. HandsInv /\ [HandsNext]_handsVars => [Keeping!Next]_(Keeping!kept)
  <2> SUFFICES ASSUME HandsInv, [HandsNext]_handsVars  PROVE [Keeping!Next]_(Keeping!kept)
    OBVIOUS
  <2>1. ASSUME UNCHANGED tables  PROVE UNCHANGED Keeping!kept
    BY <2>1 DEF tables, Keeping!kept
  <2>2. ASSUME NEW t \in Tx, CommitTx(t)  PROVE Keeping!Next
    <3>1. tx[t] \in Appendings \cup Collectings
      BY <2>2, Kinds DEF CommitTx, At, HandsInv, HandsTyped
    <3>2. /\ tx[t].hand \in Hand
          /\ tx[t].kind = "collect" => tx[t].who \in Person
          /\ tx[t].kind # "collect" => tx[t].room \in Room
      BY <3>1 DEF Appendings, Collectings
    <3>3. CASE tx[t].kind = "collect"
      <4>1. Keeping!Collect(tx[t].who, tx[t].hand)
        BY <2>2, <3>3 DEF CommitTx, Keeping!Collect
      <4> QED  BY <3>2, <3>3, <4>1 DEF Keeping!Next
    <3>4. CASE tx[t].kind # "collect"
      <4>1. Keeping!Enqueue(tx[t].room, tx[t].hand)
        BY <2>2, <3>4 DEF CommitTx, Keeping!Enqueue
      <4> QED  BY <3>2, <3>4, <4>1 DEF Keeping!Next
    <3> QED  BY <3>3, <3>4
  <2>3. ASSUME NEW t \in Tx, Discard(t), ~UNCHANGED tables  PROVE Keeping!Next
    <3>1. PICK c \in Closings : c = tx[t] /\ c.kind = "close" /\ c.stage = "looked"
      BY <2>3, Kinds DEF Discard, Closes, At, HandsInv, HandsTyped
    <3>2. /\ c.room \in open /\ c.room \in Room
          /\ \A h \in c.gone : /\ <<c.room, h>> \in queue /\ h \in Hand
                              /\ ~Elsewhere(c.room, h)
      BY <3>1 DEF HandsInv, ClosingOK, Queued, HandsTyped
    <3>3. /\ open' = open \ {c.room} /\ queue' = queue \ (Room \X c.gone)
          /\ stored' = stored \ c.gone /\ library' = library
      BY <2>3, <3>1 DEF Discard
    <3>4. c.gone \in SUBSET {h \in stored : <<c.room, h>> \in queue
                                          /\ ~Keeping!Elsewhere(c.room, h)}
      BY <3>2 DEF HandsInv, StoredOK, Elsewhere, Keeping!Elsewhere
    <3>5. Keeping!Close(c.room)
      BY <3>2, <3>3, <3>4 DEF Keeping!Close
    <3> QED  BY <3>2, <3>5 DEF Keeping!Next
  <2>4. ASSUME NEW p \in Person, NEW h \in Hand, RemoveFromLibrary(p, h)  PROVE Keeping!Next
    <3>1. Keeping!GiveUp(p, h)
      BY <2>4 DEF RemoveFromLibrary, Keeping!GiveUp
    <3> QED  BY <3>1 DEF Keeping!Next
  <2>5. ASSUME NEW t \in Tx,
               \/ LockRoom(t) \/ Plan(t) \/ Refer(t) \/ Rollback(t)
               \/ LockHands(t) \/ Look(t)
        PROVE  UNCHANGED tables
    BY <2>5 DEF LockRoom, Plan, Refer, Rollback, LockHands, Look
  <2>6. ASSUME NEW t \in Tx, NEW r \in Room, NEW p \in Person, NEW h \in Hand,
               \/ Import(t, r, p, h) \/ AddFromLibrary(t, r, p, h)
        PROVE  UNCHANGED tables
    BY <2>6 DEF Import, AddFromLibrary, Begins
  <2>7. CASE UNCHANGED handsVars
    BY <2>7, <2>1 DEF handsVars, tables
  <2>8. ASSUME NEW t \in Tx, NEW r \in Room, CloseRoom(t, r)  PROVE UNCHANGED tables
    BY <2>8 DEF CloseRoom, Begins
  <2>9. ASSUME NEW t \in Tx, NEW p \in Person, NEW h \in Hand, ImportIntoLibrary(t, p, h)
        PROVE  UNCHANGED tables
    BY <2>9 DEF ImportIntoLibrary, Begins
  <2>10. CASE HandsNext
    BY <2>10, <2>1, <2>2, <2>3, <2>4, <2>5, <2>6, <2>8, <2>9 DEF HandsNext
  <2> QED  BY <2>7, <2>10
<1> QED  BY <1>1, <1>2, Invariant, PTL DEF HandsSpec, KeepsHands, Keeping!Spec

-----------------------------------------------------------------------------
(* What a closing leaves, having looked, is kept elsewhere, or is one of   *)
(* those the code leaves behind.                                           *)
LeftOK(d) ==
    d.kind = "close" /\ d.stage = "looked" =>
        \A h \in Queued(d.room) \ d.gone : Elsewhere(d.room, h) \/ h \in lost

Left == NothingLeftOver /\ \A t \in Tx : LeftOK(tx[t])

(* One transaction moves to d and nothing is committed.                    *)
LEMMA MovesLeft ==
    ASSUME HandsInv, Left, NEW t \in Tx, NEW d, tx' = [tx EXCEPT ![t] = d], UNCHANGED tables, LeftOK(d)
    PROVE  Left'
<1>1. tx'[t] = d /\ \A u \in Tx \ {t} : tx'[u] = tx[u]
  BY DEF HandsInv, HandsTyped
<1>2. NothingLeftOver'
  BY DEF Left, NothingLeftOver, Kept, KeptBy, tables
<1>3. ASSUME NEW u \in Tx  PROVE LeftOK(tx[u])'
  <2>1. LeftOK(tx'[u])
    BY <1>1 DEF Left
  <2> QED  BY <2>1 DEF LeftOK, tables, Queued, Elsewhere
<1> QED  BY <1>2, <1>3 DEF Left

(* Until a closing has looked nothing is counted on.                       *)
LEMMA QuietLeft ==
    ASSUME HandsInv, Left, NEW t \in Tx,
           \/ LockRoom(t) \/ Plan(t) \/ Refer(t) \/ Rollback(t) \/ LockHands(t)
           \/ \E r \in Room : CloseRoom(t, r)
           \/ \E p \in Person, h \in Hand :
                \/ ImportIntoLibrary(t, p, h)
                \/ \E r \in Room : Import(t, r, p, h) \/ AddFromLibrary(t, r, p, h)
    PROVE  Left'
<1>1. tx[t] \in Command /\ tx \in [Tx -> Command]
  BY DEF HandsInv, HandsTyped
<1>2. UNCHANGED tables
  BY DEF LockRoom, Plan, Refer, Rollback, LockHands, CloseRoom, Begins, ImportIntoLibrary,
         Import, AddFromLibrary
<1>3. \E d : d.stage # "looked" /\ tx' = [tx EXCEPT ![t] = d]
  <2>1. Free.stage # "looked"
    BY DEF Free
  <2>2. CASE Ends(t)
    BY <2>1, <2>2 DEF Ends
  <2>3. CASE LockRoom(t)
    BY <1>1, <2>3, Kinds DEF LockRoom, Into, Goes, Appendings
  <2>4. CASE Plan(t) /\ ~Ends(t)
    <3>1. PICK n : tx' = [tx EXCEPT ![t].stage = "storing", ![t].row = n]
      BY <2>4 DEF Plan
    <3> QED  BY <1>1, <2>4, <3>1 DEF Plan, At, Command, Free, Appendings, Collectings, Closings
  <2>5. CASE Refer(t) /\ ~Ends(t)
    BY <1>1, <2>5, Kinds DEF Refer, At, Command, Free, Appendings, Collectings, Closings
  <2>6. CASE LockHands(t)
    <3>1. tx[t] \in Closings
      BY <1>1, <2>6, Kinds DEF LockHands, Closes
    <3>2. PICK held : tx' = [tx EXCEPT ![t].stage = "locked", ![t].held = held]
      BY <2>6 DEF LockHands
    <3> QED  BY <1>1, <3>1, <3>2 DEF Closings
  <2>7. CASE \E r \in Room : CloseRoom(t, r)
    BY <2>7 DEF CloseRoom, Begins, Closing
  <2>8. CASE \E p \in Person, h \in Hand : ImportIntoLibrary(t, p, h)
    BY <2>8 DEF ImportIntoLibrary, Begins, Collecting
  <2>9. CASE \E p \in Person, h \in Hand, r \in Room :
                 Import(t, r, p, h) \/ AddFromLibrary(t, r, p, h)
    BY <2>9 DEF Import, AddFromLibrary, Begins, Appending
  <2> QED  BY <2>2, <2>3, <2>4, <2>5, <2>6, <2>7, <2>8, <2>9 DEF Rollback
<1> QED  BY <1>2, <1>3, MovesLeft DEF LeftOK

(* A closing leaves exactly what is kept elsewhere as it looks.            *)
LEMMA LookLeft ==
    ASSUME HandsInv, Left, NEW t \in Tx, Look(t)
    PROVE  Left'
<1> DEFINE gone == {h \in Queued(tx[t].room) : ~Elsewhere(tx[t].room, h)}
           d == [tx[t] EXCEPT !.stage = "looked", !.gone = gone]
<1>1. tx[t] \in Closings /\ tx' = [tx EXCEPT ![t] = d] /\ UNCHANGED tables
  BY Kinds DEF Look, Closes, At, HandsInv, HandsTyped
<1>2. d.room = tx[t].room /\ d.gone = gone
  BY <1>1 DEF Closings
<1>3. LeftOK(d)
  <2> HIDE DEF d
  <2> QED  BY <1>2 DEF LeftOK
<1> HIDE DEF d
<1> QED  BY <1>1, <1>3, MovesLeft

(* A Hand committed is not one a closing holds; and if nobody keeps it,    *)
(* its Room having closed, the code leaves it behind.                      *)
LEMMA CommitLeft ==
    ASSUME HandsInv, Left, NEW t \in Tx, CommitTx(t)
    PROVE  Left'
<1> DEFINE h == tx[t].hand
<1>1. /\ tx[t].stage = "referred" /\ tx' = [tx EXCEPT ![t] = Free] /\ open' = open
      /\ stored' = stored \cup {h} /\ library \subseteq library' /\ queue \subseteq queue'
      /\ lost' = IF KeptBy(library', queue', h) THEN lost \ {h} ELSE lost \cup {h}
      /\ queue' \in {queue, queue \cup {<<tx[t].room, h>>}}
      /\ tx[t].kind = "collect" => queue' = queue
  BY DEF CommitTx, At, Ends
<1>2. tx'[t] = Free /\ \A u \in Tx \ {t} : tx'[u] = tx[u]
  BY <1>1 DEF HandsInv, HandsTyped
<1>3. NothingLeftOver'
  <2> SUFFICES ASSUME NEW g \in stored'  PROVE KeptBy(library', queue', g) \/ g \in lost'
    BY <1>1 DEF NothingLeftOver, Kept, KeptBy
  <2>1. CASE g = h
    BY <1>1, <2>1
  <2>2. CASE g # h
    <3>1. KeptBy(library, queue, g) \/ g \in lost
      BY <1>1, <2>2 DEF Left, NothingLeftOver, Kept
    <3> QED  BY <1>1, <2>2, <3>1 DEF KeptBy
  <2> QED  BY <2>1, <2>2
<1>4. ASSUME NEW u \in Tx  PROVE LeftOK(tx[u])'
  <2>1. CASE u = t
    BY <1>2, <2>1 DEF LeftOK, Free
  <2>2. CASE u # t
    <3>1. LeftOK(tx[u]) /\ ClosingOK(tx[u]) /\ Apart(tx[u], tx[t]) /\ tx'[u] = tx[u]
      BY <1>2, <2>2 DEF HandsInv, Left
    <3>2. SUFFICES ASSUME tx[u].kind = "close", tx[u].stage = "looked",
                          NEW g \in Queued(tx[u].room)' \ tx[u].gone
                   PROVE  Elsewhere(tx[u].room, g)' \/ g \in lost'
      BY <3>1 DEF LeftOK, Queued, Elsewhere
    <3>3. tx[t].kind # "collect" => HasRoom(tx[t])
      <4>1. tx[t] \in Command
        BY DEF HandsInv, HandsTyped
      <4> QED  BY <1>1, <4>1, Kinds DEF HasRoom, Free, Closings, Command
    <3>4. tx[t].kind # "collect" => tx[t].room # tx[u].room
      BY <3>1, <3>2, <3>3 DEF Apart, HasRoom
    <3>5. g \in Queued(tx[u].room)
      BY <1>1, <3>2, <3>4 DEF Queued
    <3>6. g # h
      BY <1>1, <3>1, <3>2, <3>5 DEF Apart, ClosingOK
    <3>7. Elsewhere(tx[u].room, g) \/ g \in lost
      BY <3>1, <3>2, <3>5 DEF LeftOK
    <3>8. g \in lost => g \in lost'
      BY <1>1, <3>6
    <3> QED  BY <1>1, <3>1, <3>7, <3>8 DEF Elsewhere
  <2> QED  BY <2>1, <2>2
<1> QED  BY <1>3, <1>4 DEF Left

(* Taken out of a Library while a closing counts on it, the Hand is one    *)
(* the code leaves behind.                                                 *)
LEMMA RemoveLeft ==
    ASSUME HandsInv, Left, NEW p \in Person, NEW h \in Hand, RemoveFromLibrary(p, h)
    PROVE  Left'
<1>1. /\ library' = library \ {<<p, h>>} /\ UNCHANGED <<stored, queue, open, tx>>
      /\ lost' = IF KeptBy(library', queue, h) /\ ~CountedOn(h) THEN lost ELSE lost \cup {h}
  BY DEF RemoveFromLibrary
<1>2. NothingLeftOver'
  <2> SUFFICES ASSUME NEW g \in stored  PROVE KeptBy(library', queue', g) \/ g \in lost'
    BY <1>1 DEF NothingLeftOver, Kept, KeptBy
  <2>1. KeptBy(library, queue, g) \/ g \in lost
    BY DEF Left, NothingLeftOver, Kept
  <2> QED  BY <1>1, <2>1 DEF KeptBy
<1>3. ASSUME NEW u \in Tx  PROVE LeftOK(tx[u])'
  <2>1. SUFFICES ASSUME tx[u].kind = "close", tx[u].stage = "looked",
                        NEW g \in Queued(tx[u].room) \ tx[u].gone
                 PROVE  Elsewhere(tx[u].room, g)' \/ g \in lost'
    BY <1>1 DEF LeftOK, Queued, Elsewhere
  <2>2. Elsewhere(tx[u].room, g) \/ g \in lost
    BY <2>1 DEF Left, LeftOK
  <2>3. g = h => h \in lost'
    BY <1>1, <2>1 DEF CountedOn, Closes, At
  <2> QED  BY <1>1, <2>2, <2>3 DEF Elsewhere
<1> QED  BY <1>2, <1>3 DEF Left

(* What one closing discards no other holds, so no other counts on the     *)
(* Room that has closed for a Hand of its own.                             *)
LEMMA DiscardLeft ==
    ASSUME HandsInv, Left, NEW t \in Tx, Discard(t)
    PROVE  Left'
<1>1. PICK c \in Closings : c = tx[t] /\ c.kind = "close" /\ c.stage = "looked"
  BY Kinds DEF Discard, Closes, At, HandsInv, HandsTyped
<1>2. /\ ClosingOK(c) /\ LeftOK(c) /\ c.room \in open /\ c.gone \subseteq c.held
      /\ c.held = Queued(c.room)
  BY <1>1 DEF HandsInv, Left, ClosingOK
<1>3. tx' = [tx EXCEPT ![t] = Free]
  BY DEF Discard, Ends
<1>4. CASE UNCHANGED tables
  <2>1. LeftOK(Free)
    BY DEF LeftOK, Free
  <2> QED  BY <1>3, <1>4, <2>1, MovesLeft
<1>5. CASE ~UNCHANGED tables
  <2>1. /\ open' = open \ {c.room} /\ queue' = queue \ (Room \X c.gone)
        /\ stored' = stored \ c.gone /\ lost' = lost \ c.gone /\ library' = library
    BY <1>1, <1>5 DEF Discard
  <2>2. NothingLeftOver'
    <3> SUFFICES ASSUME NEW h \in stored, h \notin c.gone
                 PROVE  Kept(h)' \/ h \in lost
      BY <2>1 DEF NothingLeftOver
    <3>0. h \in Hand
      BY DEF HandsInv, HandsTyped
    <3>1. Kept(h) \/ h \in lost
      BY DEF Left, NothingLeftOver
    <3>2. CASE h \in Queued(c.room)
      <4>1. Elsewhere(c.room, h) \/ h \in lost
        BY <1>1, <1>2, <3>2 DEF LeftOK
      <4> QED  BY <2>1, <3>0, <4>1 DEF Elsewhere, Kept, KeptBy
    <3>3. CASE h \notin Queued(c.room)
      <4>1. <<c.room, h>> \notin queue
        BY <3>0, <3>3 DEF Queued
      <4> QED  BY <2>1, <3>0, <3>1, <4>1 DEF Kept, KeptBy
    <3> QED  BY <3>2, <3>3
  <2>3. ASSUME NEW u \in Tx  PROVE LeftOK(tx[u])'
    <3>1. CASE u = t
      <4>1. tx'[u] = Free
        BY <1>3, <3>1 DEF HandsInv, HandsTyped
      <4> QED  BY <4>1 DEF LeftOK, Free
    <3>2. CASE u # t
      <4>1. /\ tx'[u] = tx[u] /\ LeftOK(tx[u]) /\ ClosingOK(tx[u])
            /\ Apart(tx[u], c)
        BY <1>1, <1>3, <3>2 DEF HandsInv, Left, HandsTyped
      <4>2. SUFFICES ASSUME tx[u].kind = "close", tx[u].stage = "looked",
                            NEW h \in Queued(tx[u].room)' \ tx[u].gone
                     PROVE  Elsewhere(tx[u].room, h)' \/ h \in lost'
        BY <4>1 DEF LeftOK, Queued, Elsewhere
      <4>3. h \in Queued(tx[u].room) /\ h \in Hand /\ h \notin tx[u].gone
        BY <2>1, <4>1, <4>2 DEF Queued
      <4>4. h \notin Queued(c.room)
        BY <1>1, <1>2, <4>1, <4>2, <4>3 DEF Apart, ClosingOK
      <4>5. <<c.room, h>> \notin queue /\ h \notin c.gone
        BY <1>2, <4>3, <4>4 DEF Queued
      <4>6. Elsewhere(tx[u].room, h) \/ h \in lost
        BY <4>1, <4>2, <4>3 DEF LeftOK
      <4> QED  BY <2>1, <4>1, <4>3, <4>5, <4>6 DEF Elsewhere
    <3> QED  BY <3>1, <3>2
  <2> QED  BY <2>2, <2>3 DEF Left
<1> QED  BY <1>4, <1>5

(* However many Rooms close at once, nothing stored is left that nobody    *)
(* keeps, but for what the code leaves behind (rooms.service.ts            *)
(* discardRoomHands, library.service.ts remove).                           *)
THEOREM NothingIsLeftOver == HandsSpec => []NothingLeftOver
<1>1. HandsInit => Left
  BY DEF HandsInit, Left, NothingLeftOver, LeftOK, Free
<1>2. HandsInv /\ Left /\ [HandsNext]_handsVars => Left'
  <2> SUFFICES ASSUME HandsInv, Left, [HandsNext]_handsVars  PROVE Left'
    OBVIOUS
  <2>1. CASE UNCHANGED handsVars
    BY <2>1 DEF handsVars, Left, NothingLeftOver, Kept, KeptBy, LeftOK, Queued, Elsewhere
  <2>2. CASE HandsNext
    BY <2>2, QuietLeft, LookLeft, CommitLeft, RemoveLeft, DiscardLeft DEF HandsNext
  <2> QED  BY <2>1, <2>2
<1>3. Left => NothingLeftOver
  BY DEF Left
<1> QED  BY <1>1, <1>2, <1>3, Invariant, PTL DEF HandsSpec
=============================================================================
