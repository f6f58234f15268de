--------------------------- MODULE RoomLiveProofs ---------------------------
(***************************************************************************)
(* What the memory of a Room says of the database, for any number of       *)
(* people and tabs, any commands and whatever crosses whatever.            *)
(*                                                                         *)
(* Memory follows the database one await later, so that no agreement of    *)
(* the two is right by itself.  Each has its own account of who is about   *)
(* to put it right: a command half-way that has written the Master role    *)
(* (RoleKnown), the first in Live's turn (LiveKnown), a command that puts  *)
(* somebody out (Belongs), or the end of Live that the timeout is waiting  *)
(* for (Clocked, Written).                                                 *)
(***************************************************************************)
EXTENDS RoomLive, TLAPS

(* What a command half-way was given.                                      *)
Sound(t) ==
    /\ t \in Task
    /\ t.kind = "join" =>
         t.sock \in Socket /\ (t.stage \in {"found", "admitted", "entered"} => t.saw \in Identity)
    /\ t.stage \in {"passing", "passed"} => t.to \in Identity
    /\ t.kind \in {"kick", "leaveRoom", "suspend", "takeOver"} => t.to \in Identity
    /\ t.kind = "takeOver" => t.saw \in Anonymous /\ t.to \in Identity \ Anonymous

(* The Master role has moved, and the memory is about to be told.          *)
Moved(t) == t.stage = "passed" \/ (t.kind = "takeOver" /\ t.stage = "done" /\ t.flag)

(* What the first in Live's turn has written, or found, of the Room d; the *)
(* end that the timeout asks for is not checked first.                     *)
HeadKnows(q, d) ==
    /\ \A i \in DOMAIN q : /\ q[i].stage \in {"done", "missed"} => i = 1
                           /\ q[i].stage = "waiting" => q[i].kind # "autoEnd"
    /\ q # <<>> /\ Head(q).stage = "done" => d.live = (Head(q).kind = "startLive")
    /\ q # <<>> /\ Head(q).stage = "missed" => ~d.live

RoleKnown ==
    "role" \notin late /\ mem.inside # {} =>
        mem.master = db.master \/ \E t \in tasks : Moved(t) /\ t.to = db.master

LiveKnown ==
    "live" \notin late => mem.live = db.live \/ (turn # <<>> /\ Head(turn).stage = "done")

MInv == TypeOK /\ (\A t \in tasks : Sound(t)) /\ HeadKnows(turn, db) /\ RoleKnown /\ LiveKnown

-----------------------------------------------------------------------------
(* The memory's operations, of which each field matters.                   *)

Same(m, n) == n \in Memory /\ n.inside = m.inside /\ n.master = m.master /\ n.live = m.live
Less(m, n) ==
    /\ n \in Memory /\ n.inside \subseteq m.inside /\ n.live = m.live
    /\ n.inside # {} => n.master = m.master

LEMMA MemoryFields ==
    ASSUME NEW m \in Memory
    PROVE  /\ \A x \in Ages(Grace + 1) : Same(m, [m EXCEPT !.failover = x])
           /\ \A x \in Ages(Timeout) : /\ Same(m, [m EXCEPT !.timeout = x])
                                       /\ Same(m, RecordMasterAway(m, x))
           /\ \A x \in BOOLEAN : /\ [m EXCEPT !.live = x] \in Memory
                                 /\ [m EXCEPT !.live = x].live = x
                                 /\ [m EXCEPT !.live = x].inside = m.inside
                                 /\ [m EXCEPT !.live = x].master = m.master
           /\ \A S \in SUBSET Socket, x \in Identity \cup {NoOne} :
                 /\ [m EXCEPT !.inside = S, !.master = x] \in Memory
                 /\ [m EXCEPT !.inside = S, !.master = x].inside = S
                 /\ [m EXCEPT !.inside = S, !.master = x].master = x
                 /\ [m EXCEPT !.inside = S, !.master = x].live = m.live
<1>1. \A x \in Ages(Timeout) : Same(m, RecordMasterAway(m, x))
  <2> SUFFICES ASSUME NEW x \in Ages(Timeout)  PROVE Same(m, RecordMasterAway(m, x))
    OBVIOUS
  <2>1. Append(m.writes, x) \in Seq(Ages(Timeout))
    BY DEF Memory
  <2> QED  BY <2>1 DEF RecordMasterAway, Same, Memory
<1> QED  BY <1>1 DEF Memory, Same

LEMMA TimersSame ==
    ASSUME NEW m \in Memory
    PROVE  /\ Same(m, m) /\ Same(m, Watch(m)) /\ Same(m, StopFailover(m))
           /\ Same(m, NoMaster(m)) /\ Same(m, MasterBack(m)) /\ Same(m, MasterAway(m))
<1>1. /\ 0 \in Ages(Grace + 1) /\ Off \in Ages(Grace + 1)
      /\ 0 \in Ages(Timeout) /\ Off \in Ages(Timeout) /\ Never \in Ages(Timeout)
  BY TimeAssumption DEF Ages, Off, Never
<1>2. \A n, o : Same(m, n) /\ Same(n, o) => Same(m, o)
  BY DEF Same
<1>3. Same(m, m)
  BY DEF Same
<1>4. Same(m, Watch(m))
  BY <1>1, <1>3, MemoryFields DEF Watch
<1>5. Same(m, StopFailover(m))
  BY <1>1, MemoryFields DEF StopFailover
<1>6. \A n : Same(m, n) => Same(m, NoMaster(n))
  <2> SUFFICES ASSUME NEW n, Same(m, n)  PROVE Same(m, NoMaster(n))
    OBVIOUS
  <2> DEFINE o == [n EXCEPT !.timeout = 0]
  <2>1. n \in Memory /\ Same(n, o)
    BY <1>1, MemoryFields DEF Same
  <2>2. NoMaster(n) \in {n, RecordMasterAway(o, 0)}
    BY DEF NoMaster
  <2> HIDE DEF o
  <2>3. Same(o, RecordMasterAway(o, 0))
    <3>1. o \in Memory
      BY <2>1 DEF Same
    <3> QED  BY <1>1, <3>1, MemoryFields
  <2> QED  BY <1>2, <2>1, <2>2, <2>3
<1>7. Same(m, MasterBack(m))
  <2> DEFINE o == [m EXCEPT !.timeout = Off]
  <2>1. Same(m, o)
    BY <1>1, MemoryFields
  <2>2. MasterBack(m) \in {m, RecordMasterAway(o, Never)}
    BY DEF MasterBack
  <2> HIDE DEF o
  <2>3. Same(o, RecordMasterAway(o, Never))
    BY <1>1, <2>1, MemoryFields DEF Same
  <2> QED  BY <1>2, <1>3, <2>1, <2>2, <2>3
<1>8. Same(m, NoMaster(m)) /\ Same(m, MasterAway(m))
  BY <1>3, <1>4, <1>6 DEF MasterAway
<1> QED  BY <1>3, <1>4, <1>5, <1>7, <1>8

LEMMA WithoutLess ==
    ASSUME NEW m \in Memory, NEW gone
    PROVE  Less(m, Without(m, gone)) /\ Without(m, gone).inside = m.inside \ gone
<1> DEFINE left == m.inside \ gone
           named == IF left = {} THEN NoOne ELSE m.master
<1>1. left \in SUBSET Socket /\ named \in Identity \cup {NoOne}
  BY DEF Memory
<1>2. Without(m, gone) = [m EXCEPT !.inside = left, !.master = named]
  BY DEF Without
<1>3. left # {} => named = m.master
  OBVIOUS
<1>4. left \subseteq m.inside
  OBVIOUS
<1> HIDE DEF left, named
<1>5. /\ Without(m, gone) \in Memory /\ Without(m, gone).inside = left
      /\ Without(m, gone).master = named /\ Without(m, gone).live = m.live
  BY <1>1, <1>2 DEF Memory
<1> QED  BY <1>3, <1>4, <1>5 DEF Less, left

LEMMA OutsLess ==
    ASSUME NEW m \in Memory
    PROVE  \A x : Less(m, Evict(m, x)) /\ Less(m, Leave(m, x))
<1> SUFFICES ASSUME NEW x  PROVE Less(m, Evict(m, x)) /\ Less(m, Leave(m, x))
  OBVIOUS
<1> DEFINE out == Without(m, {x})
<1>1. Less(m, out)
  BY WithoutLess
<1>2. Same(out, MasterAway(out))
  BY <1>1, TimersSame DEF Less
<1>3. Leave(m, x) \in {out, MasterAway(out)}
  BY DEF Leave
<1>4. Less(m, Evict(m, x))
  BY WithoutLess DEF Evict
<1> HIDE DEF out
<1> QED  BY <1>1, <1>2, <1>3, <1>4 DEF Same, Less

LEMMA ChangedTyped ==
    ASSUME NEW m \in Memory, NEW to \in Identity
    PROVE  /\ MasterChanged(m, to) \in Memory
           /\ MasterChanged(m, to).inside = m.inside /\ MasterChanged(m, to).live = m.live
           /\ m.inside # {} => MasterChanged(m, to).master = to
<1> DEFINE name == IF m.inside = {} THEN NoOne ELSE to
           named == [m EXCEPT !.master = name]
           moved == StopFailover(named)
<1>1. name \in Identity \cup {NoOne} /\ (m.inside # {} => name = to)
  OBVIOUS
<1>2. named \in Memory /\ named.inside = m.inside /\ named.live = m.live /\ named.master = name
  <2> HIDE DEF name
  <2> QED  BY <1>1 DEF Memory
<1>3. Same(named, moved)
  <2> HIDE DEF named
  <2> QED  BY <1>2, TimersSame
<1>4. MasterChanged(m, to) \in {MasterBack(moved), MasterAway(moved)}
  BY DEF MasterChanged
<1> HIDE DEF moved, named, name
<1>5. moved \in Memory
  BY <1>3 DEF Same
<1>6. Same(moved, MasterChanged(m, to))
  BY <1>4, <1>5, TimersSame
<1> QED  BY <1>1, <1>2, <1>3, <1>6 DEF Same

LEMMA EndedTyped ==
    ASSUME NEW m \in Memory
    PROVE  /\ LiveEnded(m) \in Memory /\ LiveEnded(m).live = FALSE
           /\ LiveEnded(m).inside = m.inside /\ LiveEnded(m).master = m.master
           /\ RoomClosed(m) \in Memory /\ RoomClosed(m).inside = {}
<1>1. Off \in Ages(Grace + 1) /\ Off \in Ages(Timeout)
  BY TimeAssumption DEF Ages, Off
<1>2. /\ LiveEnded(m) \in Memory /\ LiveEnded(m).live = FALSE
      /\ LiveEnded(m).inside = m.inside /\ LiveEnded(m).master = m.master
  BY <1>1 DEF LiveEnded, Memory
<1>3. Less(LiveEnded(m), RoomClosed(m)) /\ RoomClosed(m).inside = {}
  BY <1>2, WithoutLess DEF RoomClosed
<1> QED  BY <1>2, <1>3 DEF Less

LEMMA EmptyTyped == Empty \in Memory /\ Empty.inside = {} /\ Empty.live = FALSE
<1>1. Off \in Ages(Grace + 1) /\ Off \in Ages(Timeout)
  BY TimeAssumption DEF Ages, Off
<1>2. <<>> \in Seq(Ages(Timeout))
  OBVIOUS
<1> QED  BY <1>1, <1>2 DEF Empty, Memory

LEMMA LoadsTyped ==
    ASSUME db \in Database
    PROVE  /\ LoadLiveRooms \in Memory /\ LoadLiveRooms.inside = {}
           /\ LoadLiveRooms.live = (db.open /\ db.live)
<1> DEFINE m == [Empty EXCEPT !.live = TRUE]
           early == IF db.awaySince < Grace THEN db.awaySince ELSE Grace
<1>1. m \in Memory /\ m.inside = {} /\ m.live = TRUE
  BY EmptyTyped, MemoryFields
<1>2. db.awaySince \in Ages(Timeout) /\ early \in Ages(Grace + 1)
  BY TimeAssumption DEF Database, Ages
<1>3. \/ LoadLiveRooms = Empty /\ ~(db.open /\ db.live)
      \/ LoadLiveRooms = NoMaster(Watch(m)) /\ db.open /\ db.live
      \/ /\ LoadLiveRooms = [m EXCEPT !.timeout = db.awaySince, !.failover = early]
         /\ db.open /\ db.live
  BY DEF LoadLiveRooms
<1> HIDE DEF early, m
<1>4. CASE LoadLiveRooms = Empty /\ ~(db.open /\ db.live)
  BY <1>4, EmptyTyped
<1>5. CASE LoadLiveRooms = NoMaster(Watch(m)) /\ db.open /\ db.live
  <2>1. Same(m, Watch(m)) /\ Watch(m) \in Memory
    BY <1>1, TimersSame DEF Same
  <2>2. Same(Watch(m), NoMaster(Watch(m)))
    BY <2>1, TimersSame
  <2> QED  BY <1>1, <1>5, <2>1, <2>2 DEF Same
<1>6. CASE /\ LoadLiveRooms = [m EXCEPT !.timeout = db.awaySince, !.failover = early]
           /\ db.open /\ db.live
  BY <1>1, <1>2, <1>6 DEF Memory
<1> QED  BY <1>3, <1>4, <1>5, <1>6

LEMMA BesidesTyped ==
    ASSUME NEW S, NEW s \in Seq(S), NEW p
    PROVE  Besides(s, p) \in Seq(S)
<1> DEFINE at == CHOOSE i \in DOMAIN s : s[i] = p
           f == [i \in 1 .. Len(s) - 1 |-> IF i < at THEN s[i] ELSE s[i + 1]]
<1>1. CASE \A i \in DOMAIN s : s[i] # p
  BY <1>1 DEF Besides
<1>2. CASE \E i \in DOMAIN s : s[i] = p
  <2>1. Len(s) - 1 \in Nat
    BY <1>2
  <2>2. \A i \in 1 .. Len(s) - 1 : s[i] \in S /\ s[i + 1] \in S
    OBVIOUS
  <2>3. f \in [1 .. Len(s) - 1 -> S]
    BY <2>2
  <2>4. f \in Seq(S)
    BY <2>1, <2>3
  <2> QED  BY <1>2, <2>4 DEF Besides
<1> QED  BY <1>1, <1>2

LEMMA InPlaceTyped ==
    ASSUME db \in Database, NEW p, NEW q \in Identity
    PROVE  InPlace(p, q) \in Seq(Identity)
<1> DEFINE rest == Besides(db.joined, q)
           f == [i \in DOMAIN rest |-> IF rest[i] = p THEN q ELSE rest[i]]
<1>1. rest \in Seq(Identity) /\ Besides(db.joined, p) \in Seq(Identity)
  BY BesidesTyped DEF Database
<1>2. f \in Seq(Identity)
  <2> HIDE DEF rest
  <2>1. f \in [1 .. Len(rest) -> Identity]
    BY <1>1
  <2> QED  BY <1>1, <2>1
<1>3. InPlace(p, q) \in {Besides(db.joined, p), f}
  BY DEF InPlace
<1> HIDE DEF f, rest
<1> QED  BY <1>1, <1>2, <1>3

-----------------------------------------------------------------------------
(* The steps of a command.                                                 *)

-----------------------------------------------------------------------------
(* What a step needs to keep MInv: the Master it makes known, and Live.    *)

RoleStep ==
    \/ mem'.inside = {}
    \/ \E u \in tasks' : Moved(u) /\ u.to = db'.master
    \/ /\ db'.master = db.master
       /\ \A t \in tasks : Moved(t) => t \in tasks' \/ mem'.master = t.to

LiveStep ==
    \/ mem'.live = db'.live \/ phase' = "down"
    \/ turn' # <<>> /\ Head(turn').stage = "done"
    \/ db'.live = db.live /\ ~(turn # <<>> /\ Head(turn).stage = "done")

LEMMA NotedSays ==
    ASSUME Noted
    PROVE  /\ strays' = Strays
           /\ late' \subseteq {"role", "live", "clock", "absence"}
           /\ "role" \in late' <=> RoleStray
           /\ "live" \in late' <=> LiveStray
           /\ "clock" \in late' <=> ClockStray
           /\ "absence" \in late' <=> AbsenceStray
<1> HIDE DEF RoleStray, LiveStray, ClockStray, AbsenceStray, Strays
<1> QED  BY DEF Noted

LEMMA NextNoted ==
    ASSUME Next
    PROVE  Noted
<1>1. ASSUME NEW t \in tasks, TaskStep(t)  PROVE Noted
  BY <1>1 DEF TaskStep, JoinAdmit, JoinEntered, JoinEnter, SnapshotRead, SnapshotAnswer,
     PassTake, PassDone, ExitDone, KickWrite, KickDone, LeaveRoomWrite, LeaveRoomDone,
     SuspendDone, CloseWrite, CloseDone, TakeOverWrite, TakeOverDone, SweepWrite
<1>2. CASE TurnStep
  BY <1>2 DEF TurnStep, TurnCheck, TurnWrite, LiveStarted, LiveStopped, LiveMissed
<1>3. CASE FailoverFires \/ TimeoutFires \/ WriteLands \/ Stop \/ Restart
  BY <1>3 DEF FailoverFires, TimeoutFires, WriteLands, Stop, Restart
<1>4. CASE \/ Tick \/ Crash \/ Shutdown \/ RestartBlind
           \/ CloseAsAdministrator \/ EndLiveAsAdministrator \/ Idles \/ Sweep
  BY <1>4 DEF Tick, Crash, Shutdown, RestartBlind, CloseAsAdministrator,
     EndLiveAsAdministrator, Idles, Sweep
<1>5. ASSUME NEW s \in Socket,
             \/ Connect(s) \/ Disconnect(s) \/ Resync(s) \/ Exit(s)
             \/ Close(s) \/ StartLive(s) \/ EndLive(s)
             \/ \E p \in Identity : HandOver(s, p) \/ Kick(s, p)
      PROVE  Noted
  BY <1>5 DEF Connect, Disconnect, Resync, Exit, Close, StartLive, EndLive, HandOver, Kick
<1>6. ASSUME NEW p \in Identity,
             LeaveRoom(p) \/ Suspend(p) \/ \E q \in Identity : TakeOver(p, q)
      PROVE  Noted
  BY <1>6 DEF LeaveRoom, Suspend, TakeOver
<1> QED  BY <1>1, <1>2, <1>3, <1>4, <1>5, <1>6 DEF Next, Server

LEMMA Settles ==
    ASSUME MInv, Noted, \A v \in tasks' : Sound(v),
           db' \in Database, mem' \in Memory, phase' \in {"up", "stopping", "down"},
           sockets' \subseteq Socket, turn' \in Seq(Turn), events' \in Nat,
           HeadKnows(turn', db'), RoleStep, LiveStep
    PROVE  MInv'
<1>1. strays' \subseteq Socket
  BY NotedSays DEF Strays, Memory
<1>2. tasks' \subseteq Task
  BY DEF Sound
<1>3. TypeOK'
  BY <1>1, <1>2, NotedSays DEF TypeOK
<1>4. RoleKnown'
  <2> SUFFICES ASSUME "role" \notin late', mem'.inside # {}, mem'.master # db'.master
               PROVE  \E t \in tasks' : Moved(t) /\ t.to = db'.master
    BY DEF RoleKnown
  <2>1. "role" \notin late /\ mem'.master = mem.master /\ mem.inside # {}
    BY NotedSays DEF RoleStray
  <2> QED  BY <2>1 DEF RoleStep, MInv, RoleKnown
<1>5. LiveKnown'
  <2> SUFFICES ASSUME "live" \notin late', mem'.live # db'.live
               PROVE  turn' # <<>> /\ Head(turn').stage = "done"
    BY DEF LiveKnown
  <2>1. "live" \notin late /\ mem'.live = mem.live /\ phase' # "down"
    BY NotedSays DEF LiveStray
  <2> QED  BY <2>1 DEF LiveStep, MInv, LiveKnown
<1> QED  BY <1>3, <1>4, <1>5 DEF MInv

(* A step of the command t, which goes on as u or ends.                    *)
LEMMA TaskSettles ==
    ASSUME MInv, Noted, NEW t, NEW u, UNCHANGED <<phase, turn>>,
           sockets' \subseteq Socket, events' \in Nat,
           tasks \ {t} \subseteq tasks', tasks' \subseteq (tasks \ {t}) \cup {u},
           u \in tasks' => Sound(u),
           db' \in Database, mem' \in Memory, db'.live = db.live,
           \/ mem'.inside = {}
           \/ db'.master = db.master /\ (Moved(t) => mem'.master = t.to)
           \/ u \in tasks' /\ Moved(u) /\ u.to = db'.master
    PROVE  MInv'
<1>1. phase' \in {"up", "stopping", "down"} /\ turn' \in Seq(Turn) /\ HeadKnows(turn', db')
  BY DEF MInv, TypeOK, HeadKnows
<1>2. \A v \in tasks' : Sound(v)
  BY DEF MInv
<1>3. RoleStep
  BY DEF RoleStep
<1>4. LiveStep
  BY DEF LiveStep
<1> QED  BY <1>1, <1>2, <1>3, <1>4, Settles

LEMMA JobTyped ==
    ASSUME NEW kind \in Kinds \cup {"join", "failover"},
           NEW stage \in {"found", "admitted", "entered", "passing", "passed", "refused",
                          "drawing", "drawn", "checked", "done"},
           NEW s \in Socket \cup {NoSocket}, NEW saw \in Identity \cup {NoOne},
           NEW to \in Identity \cup {NoOne}, NEW flag \in BOOLEAN
    PROVE  /\ Job(kind, stage, s) \in Task
           /\ [Job(kind, stage, s) EXCEPT !.to = to] \in Task
           /\ [Job(kind, stage, s) EXCEPT !.saw = saw] \in Task
           /\ [Job(kind, stage, s) EXCEPT !.saw = saw, !.to = to] \in Task
           /\ [Job(kind, stage, s) EXCEPT !.to = to, !.flag = flag] \in Task
BY DEF Job, Task

-----------------------------------------------------------------------------
(* The steps of a command.                                                 *)

LEMMA JoinKnows ==
    ASSUME MInv, Noted, NEW t \in tasks, JoinAdmit(t) \/ JoinEntered(t)
    PROVE  MInv'
<1>1. /\ db \in Database /\ mem \in Memory /\ sockets \subseteq Socket /\ events \in Nat
      /\ Sound(t) /\ t \in Task /\ t.kind = "join" /\ t.stage \in {"found", "admitted"}
      /\ mem' = mem /\ UNCHANGED <<phase, sockets, turn, events>> /\ ~Moved(t)
  BY DEF MInv, TypeOK, JoinAdmit, JoinEntered, At, Moved
<1>2. /\ db' \in Database /\ db'.live = db.live /\ db'.master = db.master
      /\ \/ tasks' = tasks \ {t}
         \/ \E stage \in {"admitted", "entered"} :
              tasks' = (tasks \ {t}) \cup {[t EXCEPT !.stage = stage]}
  <2>1. CASE JoinEntered(t)
    BY <1>1, <2>1 DEF JoinEntered, Goes, Become, Database
  <2>2. CASE JoinAdmit(t)
    <3> DEFINE p == t.sock[1]
               joined == IF db.member[p] = "in" THEN db.joined
                         ELSE Append(Besides(db.joined, p), p)
    <3>1. p \in Identity
      BY <1>1 DEF Sound, Socket
    <3>2. joined \in Seq(Identity)
      <4>1. Besides(db.joined, p) \in Seq(Identity) /\ db.joined \in Seq(Identity)
        BY <1>1, BesidesTyped DEF Database
      <4> QED  BY <3>1, <4>1
    <3>3. \/ db' = db
          \/ db' = [db EXCEPT !.member = [db.member EXCEPT ![p] = "in"], !.joined = joined]
      BY <2>2 DEF JoinAdmit
    <3>4. db' \in Database /\ db'.live = db.live /\ db'.master = db.master
      <4> HIDE DEF joined
      <4> QED  BY <1>1, <3>2, <3>3 DEF Database
    <3> QED  BY <2>2, <3>4 DEF JoinAdmit, Finish, Goes, Become
  <2> QED  BY <2>1, <2>2, <1>1
<1>3. CASE tasks' = tasks \ {t}
  BY <1>1, <1>2, <1>3, TaskSettles
<1>4. ASSUME NEW stage \in {"admitted", "entered"},
             tasks' = (tasks \ {t}) \cup {[t EXCEPT !.stage = stage]}
      PROVE  MInv'
  <2> DEFINE u == [t EXCEPT !.stage = stage]
  <2>1. u \in Task /\ u.kind = "join" /\ u.stage = stage /\ u.sock = t.sock /\ u.saw = t.saw
    BY <1>1 DEF Task
  <2> HIDE DEF u
  <2>2. Sound(u)
    BY <1>1, <2>1 DEF Sound
  <2>3. tasks' = (tasks \ {t}) \cup {u}
    BY <1>4 DEF u
  <2> QED  BY <1>1, <1>2, <2>2, <2>3, TaskSettles
<1> QED  BY <1>2, <1>3, <1>4

(* passOnMaster, from whoever calls it.                                    *)
LEMMA PassesOn ==
    ASSUME NEW m \in Memory, NEW t, Sound(t), PassOnMaster(m, t), t.kind \in {"join", "failover"}
    PROVE  /\ Same(m, mem')
           /\ \/ tasks' = tasks \ {t}
              \/ \E u : tasks' = (tasks \ {t}) \cup {u} /\ Sound(u)
<1>1. CASE m.master \in Present(m)
  <2>1. Same(m, mem')
    BY <1>1, TimersSame DEF PassOnMaster
  <2>2. CASE tasks' = tasks \ {t}
    BY <2>1, <2>2
  <2>3. CASE tasks' = (tasks \ {t}) \cup {[t EXCEPT !.stage = "drawing"]} /\ t.kind = "join"
    <3> DEFINE u == [t EXCEPT !.stage = "drawing"]
    <3>1. u \in Task /\ u.kind = "join" /\ u.stage = "drawing" /\ u.sock = t.sock
      BY <2>3 DEF Task, Sound
    <3> HIDE DEF u
    <3>2. Sound(u)
      BY <2>3, <3>1 DEF Sound
    <3> QED  BY <2>1, <2>3, <3>2 DEF u
  <2> QED  BY <1>1, <2>2, <2>3 DEF PassOnMaster, Proceed, Goes, Become, Finish
<1>2. CASE m.master \notin Present(m)
  <2>1. PICK p \in Successors(m) :
          tasks' = (tasks \ {t})
              \cup {[t EXCEPT !.stage = "passing", !.saw = m.master, !.to = p]}
    BY <1>2 DEF PassOnMaster, Become
  <2>2. p \in Identity /\ m.master \in Identity \cup {NoOne}
    BY DEF Successors, Present, Memory, Socket
  <2> DEFINE u == [t EXCEPT !.stage = "passing", !.saw = m.master, !.to = p]
  <2>3. /\ u \in Task /\ u.kind = t.kind /\ u.stage = "passing" /\ u.sock = t.sock
        /\ u.to = p
    BY <2>2 DEF Task, Sound
  <2> HIDE DEF u
  <2>4. Sound(u)
    BY <2>2, <2>3 DEF Sound
  <2>5. Same(m, mem')
    BY <1>2, TimersSame DEF PassOnMaster
  <2> QED  BY <2>1, <2>4, <2>5 DEF u
<1> QED  BY <1>1, <1>2

LEMMA EnterKnows ==
    ASSUME MInv, Noted, NEW t \in tasks, JoinEnter(t)
    PROVE  MInv'
<1> DEFINE in == [mem EXCEPT !.inside = @ \cup {t.sock},
                             !.master = IF mem.inside = {} THEN t.saw ELSE @]
<1>1. /\ db \in Database /\ mem \in Memory /\ sockets \subseteq Socket /\ events \in Nat
      /\ Sound(t) /\ t \in Task /\ t.kind = "join" /\ t.stage = "entered" /\ ~Moved(t)
      /\ db' = db /\ UNCHANGED <<phase, sockets, turn, events>>
  BY DEF MInv, TypeOK, JoinEnter, At, Moved
<1>2. t.sock \in Socket /\ t.saw \in Identity
  BY <1>1 DEF Sound
<1>3. in \in Memory
  <2>1. mem.inside \cup {t.sock} \in SUBSET Socket
    BY <1>1, <1>2 DEF Memory
  <2> QED  BY <1>1, <1>2, <2>1 DEF Memory
<1>4. CASE t.sock \notin sockets
  <2>1. tasks' = tasks \ {t} /\ mem' = mem
    BY <1>4 DEF JoinEnter, Finish
  <2> QED  BY <1>1, <2>1, TaskSettles
<1>5. CASE t.sock \in sockets
  <2>1. \/ mem' \in {in, MasterBack(StopFailover(in))} /\ Goes(t, "drawing")
        \/ PassOnMaster(in, t)
    BY <1>5 DEF JoinEnter, in
  <2> HIDE DEF in
  <2>2. CASE mem' \in {in, MasterBack(StopFailover(in))} /\ Goes(t, "drawing")
    <3> DEFINE u == [t EXCEPT !.stage = "drawing"]
    <3>1. u \in Task /\ u.kind = "join" /\ u.stage = "drawing" /\ u.sock = t.sock
      BY <1>1 DEF Task
    <3>2. tasks' = (tasks \ {t}) \cup {u}
      BY <2>2 DEF Goes, Become
    <3> HIDE DEF u
    <3>3. Sound(u)
      BY <1>2, <3>1 DEF Sound
    <3>4. Same(in, StopFailover(in)) /\ Same(in, in) /\ StopFailover(in) \in Memory
      BY <1>3, TimersSame DEF Same
    <3>5. Same(StopFailover(in), MasterBack(StopFailover(in)))
      BY <3>4, TimersSame
    <3>6. mem' \in Memory
      BY <2>2, <3>4, <3>5 DEF Same
    <3> QED  BY <1>1, <3>2, <3>3, <3>6, TaskSettles
  <2>3. CASE PassOnMaster(in, t)
    <3>1. /\ mem' \in Memory
          /\ \/ tasks' = tasks \ {t}
             \/ \E u : tasks' = (tasks \ {t}) \cup {u} /\ Sound(u)
      BY <1>1, <1>3, <2>3, PassesOn DEF Same
    <3>2. CASE tasks' = tasks \ {t}
      BY <1>1, <3>1, <3>2, TaskSettles
    <3>3. ASSUME NEW u, tasks' = (tasks \ {t}) \cup {u}, Sound(u)  PROVE MInv'
      BY <1>1, <3>1, <3>3, TaskSettles
    <3> QED  BY <3>1, <3>2, <3>3
  <2> QED  BY <2>1, <2>2, <2>3
<1> QED  BY <1>4, <1>5

LEMMA SnapshotKnows ==
    ASSUME MInv, Noted, NEW t \in tasks, SnapshotRead(t) \/ SnapshotAnswer(t)
    PROVE  MInv'
<1>1. /\ db \in Database /\ mem \in Memory /\ sockets \subseteq Socket /\ events \in Nat
      /\ Sound(t) /\ t \in Task /\ t.kind \in {"join", "resync"} /\ ~Moved(t)
      /\ t.stage \in {"drawing", "drawn"}
      /\ db' = db /\ UNCHANGED <<phase, sockets, turn, events>>
  BY DEF MInv, TypeOK, SnapshotRead, SnapshotAnswer, At, Moved
<1>2. CASE SnapshotRead(t)
  <2> DEFINE u == [t EXCEPT !.stage = "drawn", !.flag = db.live]
  <2>1. tasks' = (tasks \ {t}) \cup {u} /\ mem' = mem
    BY <1>2 DEF SnapshotRead, Become
  <2>2. u \in Task /\ u.kind = t.kind /\ u.sock = t.sock /\ u.stage = "drawn"
    BY <1>1 DEF Task, Database
  <2> HIDE DEF u
  <2>3. Sound(u)
    BY <1>1, <2>2 DEF Sound
  <2> QED  BY <1>1, <2>1, <2>3, TaskSettles
<1>3. CASE SnapshotAnswer(t)
  <2>1. tasks' = tasks \ {t} /\ mem' = [mem EXCEPT !.live = t.flag]
    BY <1>1, <1>3 DEF SnapshotAnswer, Finish
  <2>2. mem' \in Memory
    BY <1>1, <2>1 DEF Memory, Task
  <2> QED  BY <1>1, <2>1, <2>2, TaskSettles
<1> QED  BY <1>2, <1>3

LEMMA PassKnows ==
    ASSUME MInv, Noted, NEW t \in tasks, PassTake(t) \/ PassDone(t)
    PROVE  MInv'
<1>1. /\ db \in Database /\ mem \in Memory /\ sockets \subseteq Socket /\ events \in Nat
      /\ Sound(t) /\ t \in Task /\ t.kind \in {"join", "handOver", "failover"}
      /\ t.stage \in {"passing", "passed", "refused"}
      /\ UNCHANGED <<phase, sockets, turn, events>>
  BY DEF MInv, TypeOK, PassTake, PassDone, At
<1>2. CASE PassTake(t)
  <2>1. t.stage = "passing" /\ mem' = mem /\ t.to \in Identity /\ ~Moved(t)
    BY <1>1, <1>2 DEF PassTake, At, Sound, Moved
  <2>2. CASE Driving(t.saw)
    <3> DEFINE u == [t EXCEPT !.stage = "passed"]
    <3>1. db' = [db EXCEPT !.master = t.to] /\ tasks' = (tasks \ {t}) \cup {u}
      BY <1>2, <2>2 DEF PassTake, Goes, Become
    <3>2. /\ u \in Task /\ u.kind = t.kind /\ u.sock = t.sock /\ u.stage = "passed"
          /\ u.to = t.to
      BY <1>1 DEF Task
    <3> HIDE DEF u
    <3>3. db' \in Database /\ db'.live = db.live /\ db'.master = t.to
      BY <1>1, <2>1, <3>1 DEF Database
    <3>4. Sound(u) /\ Moved(u)
      BY <1>1, <2>1, <3>2 DEF Sound, Moved
    <3> QED  BY <1>1, <2>1, <3>1, <3>2, <3>3, <3>4, TaskSettles
  <2>3. CASE ~Driving(t.saw)
    <3> DEFINE u == [t EXCEPT !.stage = "refused"]
    <3>1. db' = db /\ tasks' \in {tasks \ {t}, (tasks \ {t}) \cup {u}}
      BY <1>2, <2>3 DEF PassTake, Goes, Become, Finish
    <3>2. u \in Task /\ u.kind = t.kind /\ u.sock = t.sock /\ u.stage = "refused"
      BY <1>1 DEF Task
    <3> HIDE DEF u
    <3>3. Sound(u)
      BY <1>1, <3>2 DEF Sound
    <3>4. tasks \ {t} \subseteq tasks' /\ tasks' \subseteq (tasks \ {t}) \cup {u}
      BY <3>1
    <3> QED  BY <1>1, <2>1, <3>1, <3>3, <3>4, TaskSettles
  <2> QED  BY <2>2, <2>3
<1>3. CASE PassDone(t)
  <2> DEFINE u == [t EXCEPT !.stage = "drawing"]
  <2>1. /\ db' = db /\ t.stage \in {"passed", "refused"}
        /\ \/ tasks' = tasks \ {t}
           \/ t.kind = "join" /\ tasks' = (tasks \ {t}) \cup {u}
    BY <1>3 DEF PassDone, At, Proceed, Goes, Become, Finish
  <2>2. mem' \in Memory /\ (mem'.inside = {} \/ ~Moved(t) \/ mem'.master = t.to)
    <3>1. CASE t.stage = "passed"
      <4>1. t.to \in Identity /\ mem' = MasterChanged(mem, t.to)
        BY <1>1, <1>3, <3>1 DEF Sound, PassDone, At
      <4> QED  BY <1>1, <4>1, ChangedTyped
    <3>2. CASE t.stage = "refused"
      <4>1. mem' = StopFailover(mem) /\ ~Moved(t)
        BY <1>1, <1>3, <3>2 DEF Moved, PassDone, At
      <4> QED  BY <1>1, <4>1, TimersSame DEF Same
    <3> QED  BY <2>1, <3>1, <3>2
  <2>3. t.kind = "join" => u \in Task /\ u.kind = "join" /\ u.sock = t.sock /\ u.stage = "drawing"
    BY <1>1 DEF Task
  <2> HIDE DEF u
  <2>4. t.kind = "join" => Sound(u)
    BY <1>1, <2>3 DEF Sound
  <2>5. CASE tasks' = tasks \ {t}
    BY <1>1, <2>1, <2>2, <2>5, TaskSettles
  <2>6. CASE t.kind = "join" /\ tasks' = (tasks \ {t}) \cup {u}
    BY <1>1, <2>1, <2>2, <2>4, <2>6, TaskSettles
  <2> QED  BY <2>1, <2>5, <2>6
<1> QED  BY <1>2, <1>3

(* What is written of a membership, or of the Room's end.                  *)
LEMMA ClosedTyped ==
    ASSUME db \in Database
    PROVE  Closed \in Database /\ Closed.live = db.live /\ Closed.master = db.master
<1>1. db.ended \cup (IF db.open THEN Anonymous ELSE {}) \in SUBSET Identity
  BY IdentityAssumption DEF Database
<1> QED  BY <1>1 DEF Closed, Database

LEMMA WriteKnows ==
    ASSUME MInv, Noted, NEW t \in tasks,
           KickWrite(t) \/ LeaveRoomWrite(t) \/ CloseWrite(t) \/ SweepWrite(t)
    PROVE  MInv'
<1> DEFINE u == [t EXCEPT !.stage = "done"]
<1>1. /\ db \in Database /\ mem \in Memory /\ sockets \subseteq Socket /\ events \in Nat
      /\ Sound(t) /\ t \in Task /\ mem' = mem /\ ~Moved(t)
      /\ t.kind \in {"kick", "leaveRoom", "close", "adminClose", "sweep"} /\ t.stage = "checked"
      /\ UNCHANGED <<phase, sockets, turn, events>>
  BY DEF MInv, TypeOK, KickWrite, LeaveRoomWrite, CloseWrite, SweepWrite, At, Moved
<1>2. tasks' = tasks \ {t} \/ tasks' = (tasks \ {t}) \cup {u}
  BY <1>1 DEF KickWrite, LeaveRoomWrite, CloseWrite, SweepWrite, Goes, Become, Finish
<1>3. \/ db' = db \/ db' = Closed
      \/ \E said \in {"none", "kicked"} : db' = [db EXCEPT !.member[t.to] = said]
  BY DEF KickWrite, LeaveRoomWrite, CloseWrite, SweepWrite
<1>4. db' \in Database /\ db'.live = db.live /\ db'.master = db.master
  <2>1. CASE db' = db \/ db' = Closed
    BY <1>1, <2>1, ClosedTyped
  <2>2. ASSUME NEW said \in {"none", "kicked"}, db' = [db EXCEPT !.member[t.to] = said]
        PROVE  db' \in Database /\ db'.live = db.live /\ db'.master = db.master
    <3>1. [db.member EXCEPT ![t.to] = said] \in [Identity -> {"none", "in", "kicked"}]
      BY <1>1 DEF Database
    <3> QED  BY <1>1, <2>2, <3>1 DEF Database
  <2> QED  BY <1>3, <2>1, <2>2
<1>5. u \in Task /\ u.kind = t.kind /\ u.stage = "done" /\ u.to = t.to
  BY <1>1 DEF Task
<1> HIDE DEF u
<1>6. Sound(u)
  BY <1>1, <1>5 DEF Sound
<1> QED  BY <1>1, <1>2, <1>4, <1>6, TaskSettles

LEMMA TakeOverKnows ==
    ASSUME MInv, Noted, NEW t \in tasks, TakeOverWrite(t)
    PROVE  MInv'
<1> DEFINE p == t.saw
           q == t.to
           u == [t EXCEPT !.stage = "done", !.flag = db'.master # db.master]
           master == IF db.open /\ db.master = p THEN q ELSE db.master
           member == [[db.member EXCEPT ![p] = "none"] EXCEPT ![q] = "in"]
           left == [db.member EXCEPT ![p] = IF @ = "in" THEN "none" ELSE @]
           ended == db.ended \cup {p}
<1>1. /\ db \in Database /\ mem \in Memory /\ sockets \subseteq Socket /\ events \in Nat
      /\ Sound(t) /\ t \in Task /\ mem' = mem /\ ~Moved(t)
      /\ t.kind = "takeOver" /\ t.stage = "checked"
      /\ UNCHANGED <<phase, sockets, turn, events>>
      /\ tasks' = (tasks \ {t}) \cup {u}
  BY DEF MInv, TypeOK, TakeOverWrite, At, Become, Moved
<1>2. p \in Identity /\ q \in Identity
  BY <1>1, IdentityAssumption DEF Sound
<1>3. \/ db' = [db EXCEPT !.member = member, !.joined = InPlace(p, q), !.ended = ended,
                          !.master = master]
      \/ db' = [db EXCEPT !.member = left, !.ended = ended]
  BY DEF TakeOverWrite
<1>4. /\ member \in [Identity -> {"none", "in", "kicked"}]
      /\ left \in [Identity -> {"none", "in", "kicked"}]
      /\ ended \in SUBSET Identity /\ master \in Identity
      /\ InPlace(p, q) \in Seq(Identity)
  BY <1>1, <1>2, InPlaceTyped DEF Database
<1>5. master \in {db.master, q}
  OBVIOUS
<1>6. db' \in Database /\ db'.live = db.live /\ db'.master \in {db.master, q}
  <2> HIDE DEF member, left, ended, master
  <2> QED  BY <1>1, <1>3, <1>4, <1>5 DEF Database
<1>7. /\ u \in Task /\ u.kind = "takeOver" /\ u.stage = "done" /\ u.to = q /\ u.saw = p
      /\ u.flag = (db'.master # db.master)
  BY <1>1 DEF Task
<1> HIDE DEF u
<1>8. Sound(u) /\ (db'.master # db.master => Moved(u))
  BY <1>1, <1>7 DEF Sound, Moved
<1> QED  BY <1>1, <1>6, <1>7, <1>8, TaskSettles

(* The memory lets go of whoever is out.                                   *)
LEMMA LeftKnows ==
    ASSUME MInv, Noted, NEW t \in tasks,
           ExitDone(t) \/ KickDone(t) \/ LeaveRoomDone(t) \/ SuspendDone(t)
    PROVE  MInv'
<1>1. /\ db \in Database /\ mem \in Memory /\ sockets \subseteq Socket /\ events \in Nat
      /\ db' = db /\ tasks' = tasks \ {t} /\ ~Moved(t)
      /\ UNCHANGED <<phase, sockets, turn, events>>
  BY DEF MInv, TypeOK, ExitDone, KickDone, LeaveRoomDone, SuspendDone, At, Finish, Moved
<1> DEFINE out == Evict(mem, t.to)
<1>2. Leave(mem, t.sock) \in Memory /\ out \in Memory
  BY <1>1, OutsLess DEF Less
<1>3. \/ mem' \in {Leave(mem, t.sock), out}
      \/ mem' \in {MasterAway(out), NoMaster(Watch(out)), Watch(out)}
  BY DEF ExitDone, KickDone, LeaveRoomDone, SuspendDone
<1> HIDE DEF out
<1>4. MasterAway(out) \in Memory /\ Watch(out) \in Memory
  BY <1>2, TimersSame DEF Same
<1>5. NoMaster(Watch(out)) \in Memory
  BY <1>4, TimersSame DEF Same
<1> QED  BY <1>1, <1>2, <1>3, <1>4, <1>5, TaskSettles

LEMMA TakenOverKnows ==
    ASSUME MInv, Noted, NEW t \in tasks, TakeOverDone(t)
    PROVE  MInv'
<1> DEFINE out == Evict(mem, t.saw)
<1>1. /\ db \in Database /\ mem \in Memory /\ sockets \subseteq Socket /\ events \in Nat
      /\ db' = db /\ tasks' = tasks \ {t} /\ Sound(t)
      /\ t.kind = "takeOver" /\ t.stage = "done"
      /\ UNCHANGED <<phase, sockets, turn, events>>
      /\ mem' = IF t.flag THEN MasterChanged(out, t.to) ELSE out
  BY DEF MInv, TypeOK, TakeOverDone, At, Finish
<1>2. out \in Memory
  BY <1>1, OutsLess DEF Less
<1> HIDE DEF out
<1>3. CASE t.flag
  <2>1. mem' \in Memory /\ (mem'.inside # {} => mem'.master = t.to)
    BY <1>1, <1>2, <1>3, ChangedTyped DEF Sound
  <2> QED  BY <1>1, <2>1, TaskSettles
<1>4. CASE ~t.flag
  BY <1>1, <1>2, <1>4, TaskSettles DEF Moved
<1> QED  BY <1>3, <1>4

LEMMA ClosedKnows ==
    ASSUME MInv, Noted, NEW t \in tasks, CloseDone(t)
    PROVE  MInv'
<1>1. /\ db \in Database /\ mem \in Memory /\ sockets \subseteq Socket /\ events \in Nat
      /\ db' = db /\ tasks' = tasks \ {t} /\ mem' = RoomClosed(mem)
      /\ UNCHANGED <<phase, sockets, turn, events>>
  BY DEF MInv, TypeOK, CloseDone, At, Finish
<1> QED  BY <1>1, EndedTyped, TaskSettles

-----------------------------------------------------------------------------
(* What begins a command.                                                  *)

LEMMA AskSettles ==
    ASSUME MInv, Noted, NEW u, tasks \subseteq tasks', tasks' \subseteq tasks \cup {u},
           u \in tasks' => Sound(u), UNCHANGED <<phase, turn>>,
           sockets' \subseteq Socket, events' \in Nat, db' \in Database, mem' \in Memory,
           db'.live = db.live, db'.master = db.master
    PROVE  MInv'
<1>1. /\ phase' \in {"up", "stopping", "down"} /\ turn' \in Seq(Turn)
      /\ HeadKnows(turn', db') /\ \A v \in tasks' : Sound(v)
  BY DEF MInv, TypeOK, HeadKnows
<1>2. RoleStep /\ LiveStep
  BY DEF RoleStep, LiveStep
<1> QED  BY <1>1, <1>2, Settles

LEMMA RequestKnows ==
    ASSUME MInv, Noted,
           \/ Sweep \/ Idles \/ CloseAsAdministrator
           \/ \E p \in Identity :
                LeaveRoom(p) \/ Suspend(p) \/ \E q \in Identity : TakeOver(p, q)
    PROVE  MInv'
<1>1. /\ db \in Database /\ mem \in Memory /\ sockets \subseteq Socket /\ events \in Nat
      /\ db.master \in Identity
  BY DEF MInv, TypeOK, Database
<1>2. ASSUME NEW kind, Requests(kind)
      PROVE  UNCHANGED <<phase, turn, mem>> /\ events' \in Nat /\ sockets' \subseteq Socket
  BY <1>1, <1>2 DEF Requests, Happens
<1>3. ASSUME NEW kind, Requests(kind), NEW u, tasks' = tasks \cup {u}, Sound(u), db' = db
      PROVE  MInv'
  BY <1>1, <1>2, <1>3, AskSettles
<1>4. CASE Sweep \/ CloseAsAdministrator
  <2>1. ASSUME NEW kind \in {"adminClose", "sweep"}
        PROVE  Sound(Job(kind, "checked", NoSocket))
    <3>1. Job(kind, "checked", NoSocket) \in Task
      BY DEF Job, Task, Kinds
    <3> QED  BY <3>1 DEF Job, Sound
  <2> QED  BY <1>3, <1>4, <2>1 DEF Sweep, CloseAsAdministrator
<1>5. CASE Idles
  <2>1. db' \in Database /\ db'.live = db.live /\ db'.master = db.master /\ tasks' = tasks
    BY <1>1, <1>5 DEF Idles, Database
  <2>2. tasks' = {} /\ Requests("sweep")
    BY <1>5 DEF Idles
  <2> QED  BY <1>1, <1>2, <2>1, <2>2, AskSettles
<1>6. ASSUME NEW p \in Identity, LeaveRoom(p)  PROVE MInv'
  <2> DEFINE u == [Job("leaveRoom", "checked", NoSocket) EXCEPT !.to = p]
  <2>1. tasks' = tasks \cup {u} /\ db' = db /\ Requests("leaveRoom")
    BY <1>6 DEF LeaveRoom
  <2>2. u \in Task
    BY JobTyped DEF Kinds
  <2>3. u.kind = "leaveRoom" /\ u.stage = "checked" /\ u.to = p
    BY DEF Job
  <2> HIDE DEF u
  <2>4. Sound(u)
    BY <2>2, <2>3 DEF Sound
  <2> QED  BY <1>3, <2>1, <2>4
<1>7. ASSUME NEW p \in Identity, NEW q \in Identity, TakeOver(p, q)  PROVE MInv'
  <2> DEFINE u == [Job("takeOver", "checked", NoSocket) EXCEPT !.saw = p, !.to = q]
  <2>1. /\ tasks' = tasks \cup {u} /\ db' = db /\ Requests("takeOver")
        /\ p \in Anonymous /\ q \notin Anonymous
    BY <1>7 DEF TakeOver
  <2>2. u \in Task
    BY JobTyped DEF Kinds
  <2>3. u.kind = "takeOver" /\ u.stage = "checked" /\ u.saw = p /\ u.to = q
    BY DEF Job
  <2> HIDE DEF u
  <2>4. Sound(u)
    BY <2>1, <2>2, <2>3 DEF Sound
  <2> QED  BY <1>3, <2>1, <2>4
<1>8. ASSUME NEW p \in Identity, Suspend(p)  PROVE MInv'
  <2> DEFINE u == [Job("suspend", "done", NoSocket) EXCEPT !.to = p, !.flag = (db.master = p)]
  <2>1. tasks' = tasks \cup {u} /\ Requests("suspend")
    BY <1>8 DEF Suspend
  <2>2. u \in Task
    BY DEF Job, Task, Kinds
  <2>3. u.kind = "suspend" /\ u.stage = "done" /\ u.to = p
    BY DEF Job
  <2> HIDE DEF u
  <2>4. Sound(u)
    BY <2>2, <2>3 DEF Sound
  <2>5. db' \in Database /\ db'.live = db.live /\ db'.master = db.master
    BY <1>1, <1>8 DEF Suspend, Database
  <2> QED  BY <1>1, <1>2, <2>1, <2>4, <2>5, AskSettles
<1> QED  BY <1>4, <1>5, <1>6, <1>7, <1>8

LEMMA AskKnows ==
    ASSUME MInv, Noted, NEW s \in Socket,
           \/ Connect(s) \/ Resync(s) \/ Exit(s) \/ Close(s)
           \/ \E p \in Identity : HandOver(s, p) \/ Kick(s, p)
    PROVE  MInv'
<1>1. /\ db \in Database /\ mem \in Memory /\ sockets \subseteq Socket /\ events \in Nat
      /\ db.master \in Identity /\ s[1] \in Identity
  BY DEF MInv, TypeOK, Database, Socket
<1>2. ASSUME NEW kind, Asks(kind, s), UNCHANGED turn, NEW u, tasks' = tasks \cup {u}, Sound(u)
      PROVE  MInv'
  BY <1>1, <1>2, AskSettles DEF Asks, Happens
<1>3. ASSUME Connect(s)  PROVE MInv'
  <2> DEFINE u == [Job("join", "found", s) EXCEPT !.saw = db.master]
  <2>1. /\ tasks' \in {tasks, tasks \cup {u}} /\ sockets' \subseteq Socket /\ events' \in Nat
        /\ UNCHANGED <<db, phase, mem, turn>>
    BY <1>1, <1>3 DEF Connect
  <2>2. u \in Task
    BY <1>1, JobTyped
  <2>3. u.kind = "join" /\ u.stage = "found" /\ u.sock = s /\ u.saw = db.master
    BY DEF Job
  <2> HIDE DEF u
  <2>4. Sound(u)
    BY <1>1, <2>2, <2>3 DEF Sound
  <2> QED  BY <1>1, <2>1, <2>4, AskSettles
<1>4. CASE Resync(s) \/ Exit(s) \/ Close(s)
  <2>1. Sound(Job("resync", "drawing", s))
    <3>1. Job("resync", "drawing", s) \in Task
      BY DEF Job, Task, Kinds
    <3> QED  BY <3>1 DEF Job, Sound
  <2>2. ASSUME NEW kind \in {"exit", "close"}  PROVE Sound(Job(kind, "checked", s))
    <3>1. Job(kind, "checked", s) \in Task
      BY DEF Job, Task, Kinds
    <3> QED  BY <3>1 DEF Job, Sound
  <2> QED  BY <1>2, <1>4, <2>1, <2>2 DEF Resync, Exit, Close, MasterAsks
<1>5. ASSUME NEW p \in Identity, HandOver(s, p)  PROVE MInv'
  <2> DEFINE u == [Job("handOver", "passing", s) EXCEPT !.saw = s[1], !.to = p]
  <2>1. tasks' = tasks \cup {u} /\ Asks("handOver", s) /\ UNCHANGED turn
    BY <1>5 DEF HandOver, MasterAsks
  <2>2. u \in Task
    BY <1>1, JobTyped DEF Kinds
  <2>3. u.kind = "handOver" /\ u.stage = "passing" /\ u.to = p
    BY DEF Job
  <2> HIDE DEF u
  <2>4. Sound(u)
    BY <2>2, <2>3 DEF Sound
  <2> QED  BY <1>2, <2>1, <2>4
<1>6. ASSUME NEW p \in Identity, Kick(s, p)  PROVE MInv'
  <2> DEFINE u == [Job("kick", "checked", s) EXCEPT !.to = p]
  <2>1. tasks' = tasks \cup {u} /\ Asks("kick", s) /\ UNCHANGED turn
    BY <1>6 DEF Kick, MasterAsks
  <2>2. u \in Task
    BY JobTyped DEF Kinds
  <2>3. u.kind = "kick" /\ u.stage = "checked" /\ u.to = p
    BY DEF Job
  <2> HIDE DEF u
  <2>4. Sound(u)
    BY <2>2, <2>3 DEF Sound
  <2> QED  BY <1>2, <2>1, <2>4
<1> QED  BY <1>3, <1>4, <1>5, <1>6

LEMMA FiredKnows ==
    ASSUME MInv, Noted, FailoverFires
    PROVE  MInv'
<1> DEFINE fired == [mem EXCEPT !.failover = Grace + 1]
           t == Job("failover", "passing", NoSocket)
<1>1. /\ db \in Database /\ mem \in Memory /\ sockets \subseteq Socket /\ events \in Nat
      /\ db' = db /\ UNCHANGED <<phase, sockets, turn, events>>
  BY DEF MInv, TypeOK, FailoverFires
<1>2. fired \in Memory
  <2>1. Grace + 1 \in Ages(Grace + 1)
    BY TimeAssumption DEF Ages
  <2> QED  BY <1>1, <2>1, MemoryFields DEF Same
<1>3. \/ mem' = fired /\ tasks' = tasks
      \/ PassOnMaster(fired, t)
  BY DEF FailoverFires
<1>4. CASE mem' = fired /\ tasks' = tasks
  <2>1. MInv /\ tasks \subseteq tasks' /\ \A u \in tasks' : Sound(u)
    BY <1>4 DEF MInv
  <2> HIDE DEF fired, t
  <2> QED  BY <1>1, <1>2, <1>4, <2>1, AskSettles
<1>5. CASE PassOnMaster(fired, t)
  <2>1. t \in Task /\ t.kind = "failover" /\ t.stage = "passing"
    BY DEF Job, Task
  <2> HIDE DEF t, fired
  <2>2. CASE fired.master \in Present(fired)
    <3>1. mem' = StopFailover(fired) /\ tasks' = tasks \ {t}
      BY <1>5, <2>1, <2>2 DEF PassOnMaster, Proceed, Finish
    <3>2. mem' \in Memory
      BY <1>2, <3>1, TimersSame DEF Same
    <3>3. ~Moved(t)
      BY <2>1 DEF Moved
    <3> QED  BY <1>1, <3>1, <3>2, <3>3, TaskSettles
  <2>3. CASE fired.master \notin Present(fired)
    <3>1. PICK p \in Successors(fired) :
            tasks' = (tasks \ {t})
                \cup {[t EXCEPT !.stage = "passing", !.saw = fired.master, !.to = p]}
      BY <1>5, <2>3 DEF PassOnMaster, Become
    <3> DEFINE u == [t EXCEPT !.stage = "passing", !.saw = fired.master, !.to = p]
    <3>2. p \in Identity /\ fired.master \in Identity \cup {NoOne}
      BY <1>2 DEF Successors, Present, Memory, Socket
    <3>3. u \in Task /\ u.kind = "failover" /\ u.stage = "passing" /\ u.to = p
      BY <2>1, <3>2 DEF Task
    <3> HIDE DEF u
    <3>4. Sound(u)
      BY <3>2, <3>3 DEF Sound
    <3>5. mem' = fired /\ ~Moved(t)
      BY <1>5, <2>1, <2>3 DEF PassOnMaster, Moved
    <3> QED  BY <1>1, <1>2, <3>1, <3>4, <3>5, TaskSettles DEF u
  <2> QED  BY <2>2, <2>3
<1> QED  BY <1>3, <1>4, <1>5

-----------------------------------------------------------------------------
(* Live's turn.                                                            *)

(* The timeout has fired, and the end of Live is waiting for its turn.     *)
Ending(q) == \E i \in DOMAIN q : q[i].kind = "autoEnd"

Ordered(q) ==
    \A i \in DOMAIN q : /\ q[i].stage \in {"done", "missed"} => i = 1
                        /\ q[i].stage = "waiting" => q[i].kind # "autoEnd"

(* One more at the end.                                                    *)
LEMMA Lasts ==
    ASSUME turn \in Seq(Turn), Ordered(turn), NEW r \in Turn, r.stage \in {"waiting", "checked"},
           r.stage = "waiting" => r.kind # "autoEnd"
    PROVE  LET q == Append(turn, r)
           IN /\ q \in Seq(Turn) /\ q # <<>> /\ Ordered(q)
              /\ turn # <<>> => Head(q) = Head(turn)
              /\ turn = <<>> => Head(q) = r
              /\ Ending(turn) \/ r.kind = "autoEnd" => Ending(q)
<1> DEFINE q == Append(turn, r)
<1>1. /\ q \in Seq(Turn) /\ Len(q) = Len(turn) + 1 /\ q # <<>>
      /\ \A i \in DOMAIN turn : i \in DOMAIN q /\ q[i] = turn[i]
      /\ Len(q) \in DOMAIN q /\ q[Len(q)] = r
      /\ \A i \in DOMAIN q : i \in DOMAIN turn \/ i = Len(q)
  OBVIOUS
<1>2. (turn # <<>> => Head(q) = Head(turn)) /\ (turn = <<>> => Head(q) = r)
  OBVIOUS
<1> HIDE DEF q
<1>3. Ordered(q)
  <2> SUFFICES ASSUME NEW i \in DOMAIN q
               PROVE  /\ q[i].stage \in {"done", "missed"} => i = 1
                      /\ q[i].stage = "waiting" => q[i].kind # "autoEnd"
    BY DEF Ordered
  <2>1. CASE i \in DOMAIN turn
    BY <1>1, <2>1 DEF Ordered
  <2>2. CASE i = Len(q)
    BY <1>1, <2>2
  <2> QED  BY <1>1, <2>1, <2>2
<1>4. Ending(turn) \/ r.kind = "autoEnd" => Ending(q)
  BY <1>1 DEF Ending
<1> QED  BY <1>1, <1>2, <1>3, <1>4 DEF q

(* The head goes on, or goes.                                              *)
LEMMA Heads ==
    ASSUME turn \in Seq(Turn), turn # <<>>, Ordered(turn)
    PROVE  /\ Head(turn).kind \in {"startLive", "endLive", "adminEnd", "autoEnd"}
           /\ Tail(turn) \in Seq(Turn) /\ Ordered(Tail(turn))
           /\ Tail(turn) # <<>> => Head(Tail(turn)).stage \notin {"done", "missed"}
           /\ Ending(turn) => Ending(Tail(turn)) \/ Head(turn).kind = "autoEnd"
           /\ Head(turn).stage = "waiting" => Head(turn).kind # "autoEnd"
           /\ \A stage \in {"checked", "done", "missed"} :
                LET q == [turn EXCEPT ![1].stage = stage]
                IN /\ q \in Seq(Turn) /\ q # <<>> /\ Ordered(q)
                   /\ Head(q).stage = stage /\ Head(q).kind = Head(turn).kind
                   /\ Ending(turn) => Ending(q)
<1>1. Head(turn) \in Turn /\ Head(turn) = turn[1] /\ 1 \in DOMAIN turn
  OBVIOUS
<1>2. /\ Tail(turn) \in Seq(Turn)
      /\ \A i \in DOMAIN Tail(turn) :
           i + 1 \in DOMAIN turn /\ i + 1 # 1 /\ Tail(turn)[i] = turn[i + 1]
      /\ \A i \in DOMAIN turn : i # 1 => i - 1 \in DOMAIN Tail(turn) /\ Tail(turn)[i - 1] = turn[i]
  OBVIOUS
<1>3. \A i \in DOMAIN Tail(turn) : Tail(turn)[i].stage \notin {"done", "missed"}
  BY <1>2 DEF Ordered
<1>4. Ordered(Tail(turn))
  BY <1>2, <1>3 DEF Ordered
<1>5. Tail(turn) # <<>> => Head(Tail(turn)).stage \notin {"done", "missed"}
  <2>1. Tail(turn) # <<>> => 1 \in DOMAIN Tail(turn) /\ Head(Tail(turn)) = Tail(turn)[1]
    BY <1>2
  <2> QED  BY <1>3, <2>1
<1>6. Ending(turn) => Ending(Tail(turn)) \/ Head(turn).kind = "autoEnd"
  <2> SUFFICES ASSUME NEW i \in DOMAIN turn, turn[i].kind = "autoEnd", i # 1
               PROVE  Ending(Tail(turn))
    BY <1>1 DEF Ending
  <2> QED  BY <1>2 DEF Ending
<1>7. ASSUME NEW stage \in {"checked", "done", "missed"}
      PROVE  LET q == [turn EXCEPT ![1].stage = stage]
             IN /\ q \in Seq(Turn) /\ q # <<>> /\ Ordered(q)
                /\ Head(q).stage = stage /\ Head(q).kind = Head(turn).kind
                /\ Ending(turn) => Ending(q)
  <2> DEFINE first == [turn[1] EXCEPT !.stage = stage]
             q == [turn EXCEPT ![1] = first]
  <2>1. first \in Turn /\ first.stage = stage /\ first.kind = turn[1].kind
    BY <1>1 DEF Turn
  <2> HIDE DEF first
  <2>2. q \in Seq(Turn) /\ Len(q) = Len(turn)
    BY <2>1
  <2>3. q[1] = first /\ \A i \in DOMAIN q : i # 1 => q[i] = turn[i]
    BY <1>1
  <2>4. q # <<>> /\ Head(q) = first /\ DOMAIN q = DOMAIN turn
    BY <1>1, <2>2, <2>3
  <2>5. [turn EXCEPT ![1].stage = stage] = q
    BY DEF first
  <2> HIDE DEF q
  <2>6. Ordered(q)
    BY <2>1, <2>3, <2>4 DEF Ordered
  <2>7. Ending(turn) => Ending(q)
    <3> SUFFICES ASSUME NEW i \in DOMAIN turn, turn[i].kind = "autoEnd"  PROVE q[i].kind = "autoEnd"
      BY <2>4 DEF Ending
    <3> QED  BY <2>1, <2>3, <2>4
  <2> QED  BY <1>1, <2>1, <2>2, <2>4, <2>5, <2>6, <2>7
<1>8. Head(turn).stage = "waiting" => Head(turn).kind # "autoEnd"
  BY <1>1 DEF Ordered
<1> QED  BY <1>1, <1>2, <1>4, <1>5, <1>6, <1>7, <1>8 DEF Turn

LEMMA QueuedKnows ==
    ASSUME MInv, Noted,
           EndLiveAsAdministrator \/ TimeoutFires \/ \E s \in Socket : StartLive(s) \/ EndLive(s)
    PROVE  MInv'
<1>1. /\ db \in Database /\ mem \in Memory /\ sockets \subseteq Socket /\ events \in Nat
      /\ phase \in {"up", "stopping", "down"} /\ turn \in Seq(Turn)
      /\ HeadKnows(turn, db) /\ Ordered(turn) /\ \A v \in tasks : Sound(v)
  BY DEF MInv, TypeOK, HeadKnows, Ordered
<1>2. UNCHANGED <<db, phase, sockets, tasks>> /\ events' \in Nat
  BY <1>1 DEF EndLiveAsAdministrator, TimeoutFires, StartLive, EndLive, MasterAsks, Asks, Happens
<1>3. Same(mem, mem')
  <2>1. Off \in Ages(Timeout)
    BY TimeAssumption DEF Ages, Off
  <2>2. mem' = mem \/ mem' = [mem EXCEPT !.timeout = Off]
    BY DEF EndLiveAsAdministrator, TimeoutFires, StartLive, EndLive, MasterAsks, Asks
  <2>3. Same(mem, mem) /\ Same(mem, [mem EXCEPT !.timeout = Off])
    BY <1>1, <2>1, MemoryFields DEF Same
  <2> QED  BY <2>2, <2>3
<1>4. PICK r : /\ r \in Turn /\ r.stage \in {"waiting", "checked"} /\ turn' = Append(turn, r)
               /\ r.stage = "waiting" => r.kind # "autoEnd"
  <2>1. ASSUME NEW kind \in {"startLive", "endLive", "adminEnd", "autoEnd"},
               NEW by \in Identity \cup {NoOne}, NEW stage \in {"waiting", "checked"}
        PROVE  LET r == [kind |-> kind, stage |-> stage, by |-> by]
               IN r \in Turn /\ r.stage = stage /\ r.kind = kind
    BY DEF Turn
  <2>2. \A s \in Socket : s[1] \in Identity
    BY DEF Socket
  <2> QED  BY <2>1, <2>2 DEF EndLiveAsAdministrator, TimeoutFires, StartLive, EndLive, Queue
<1>5. /\ turn' \in Seq(Turn) /\ turn' # <<>> /\ Ordered(turn')
      /\ turn # <<>> => Head(turn') = Head(turn)
      /\ turn = <<>> => Head(turn') = r
  BY <1>1, <1>4, Lasts
<1>6. HeadKnows(turn', db')
  BY <1>1, <1>2, <1>4, <1>5 DEF HeadKnows, Ordered
<1>7. RoleStep /\ LiveStep
  BY <1>2, <1>5 DEF RoleStep, LiveStep
<1> QED  BY <1>1, <1>2, <1>3, <1>5, <1>6, <1>7, Settles DEF Same

LEMMA TurnKnows ==
    ASSUME MInv, Noted, TurnStep
    PROVE  MInv'
<1> DEFINE head == Head(turn)
<1>1. /\ db \in Database /\ mem \in Memory /\ sockets \subseteq Socket /\ events \in Nat
      /\ phase \in {"up", "stopping", "down"} /\ turn \in Seq(Turn)
      /\ HeadKnows(turn, db) /\ Ordered(turn) /\ \A v \in tasks : Sound(v)
  BY DEF MInv, TypeOK, HeadKnows, Ordered
<1>2. turn # <<>> /\ UNCHANGED <<phase, sockets, tasks, events>>
  BY DEF TurnStep, TurnCheck, TurnWrite, LiveStarted, LiveStopped, LiveMissed, Next1
<1>3. /\ Tail(turn) \in Seq(Turn) /\ \A d : HeadKnows(Tail(turn), d)
      /\ \A stage \in {"checked", "done", "missed"} :
           LET q == [turn EXCEPT ![1].stage = stage]
           IN /\ q \in Seq(Turn) /\ q # <<>> /\ Ordered(q)
              /\ Head(q).stage = stage /\ Head(q).kind = head.kind
  BY <1>1, <1>2, Heads DEF HeadKnows, Ordered
<1>4. ASSUME db' \in Database, db'.master = db.master, mem' \in Memory,
             turn' \in Seq(Turn), HeadKnows(turn', db'), LiveStep
      PROVE  MInv'
  <2>1. RoleStep
    BY <1>2, <1>4 DEF RoleStep
  <2>2. \A v \in tasks' : Sound(v)
    BY <1>1, <1>2
  <2> QED  BY <1>1, <1>2, <1>4, <2>1, <2>2, Settles
<1> HIDE DEF head
<1>5. CASE TurnCheck
  <2>1. /\ db' = db /\ mem' = mem /\ head.stage = "waiting"
        /\ turn' \in {Tail(turn), [turn EXCEPT ![1].stage = "checked"]}
    BY <1>5 DEF TurnCheck, Next1, TurnGoes, head
  <2>2. turn' \in Seq(Turn) /\ HeadKnows(turn', db)
    BY <1>3, <2>1 DEF HeadKnows, Ordered
  <2>3. LiveStep
    BY <2>1 DEF LiveStep, head
  <2> QED  BY <1>1, <1>4, <2>1, <2>2, <2>3
<1>6. CASE TurnWrite
  <2>1. mem' = mem /\ head.stage = "checked"
    BY <1>6 DEF TurnWrite, Next1, head
  <2>2. Never \in Ages(Timeout)
    BY TimeAssumption DEF Ages, Never
  <2>3. CASE head.kind = "startLive"
    <3>1. db' = [db EXCEPT !.live = TRUE] /\ turn' = [turn EXCEPT ![1].stage = "done"]
      BY <1>6, <2>3 DEF TurnWrite, TurnGoes, head
    <3>2. db' \in Database /\ db'.live = TRUE /\ db'.master = db.master
      BY <1>1, <3>1 DEF Database
    <3>3. /\ turn' \in Seq(Turn) /\ turn' # <<>> /\ Head(turn').stage = "done"
          /\ Head(turn').kind = head.kind /\ Ordered(turn')
      BY <1>3, <3>1
    <3>4. HeadKnows(turn', db') /\ LiveStep
      BY <2>3, <3>2, <3>3 DEF HeadKnows, LiveStep, Ordered
    <3> QED  BY <1>1, <1>4, <2>1, <3>2, <3>3, <3>4
  <2>4. CASE head.kind # "startLive" /\ db.live
    <3>1. /\ db' = [db EXCEPT !.live = FALSE, !.awaySince = Never]
          /\ turn' = [turn EXCEPT ![1].stage = "done"]
      BY <1>6, <2>4 DEF TurnWrite, TurnGoes, head
    <3>2. db' \in Database /\ db'.live = FALSE /\ db'.master = db.master
      BY <1>1, <2>2, <3>1 DEF Database
    <3>3. /\ turn' \in Seq(Turn) /\ turn' # <<>> /\ Head(turn').stage = "done"
          /\ Head(turn').kind = head.kind /\ Ordered(turn')
      BY <1>3, <3>1
    <3>4. HeadKnows(turn', db') /\ LiveStep
      BY <2>4, <3>2, <3>3 DEF HeadKnows, LiveStep, Ordered
    <3> QED  BY <1>1, <1>4, <2>1, <3>2, <3>3, <3>4
  <2>5. CASE head.kind # "startLive" /\ ~db.live
    <3>1. db' = db /\ turn' = [turn EXCEPT ![1].stage = "missed"]
      BY <1>6, <2>5 DEF TurnWrite, TurnGoes, head
    <3>2. turn' \in Seq(Turn) /\ turn' # <<>> /\ Head(turn').stage = "missed" /\ Ordered(turn')
      BY <1>3, <3>1
    <3>3. HeadKnows(turn', db')
      BY <2>5, <3>1, <3>2 DEF HeadKnows, Ordered
    <3>4. LiveStep
      BY <2>1, <3>1 DEF LiveStep, head
    <3> QED  BY <1>1, <1>4, <2>1, <3>1, <3>2, <3>3, <3>4
  <2> QED  BY <2>3, <2>4, <2>5
<1>7. ASSUME db' = db, mem' \in Memory, turn' = Tail(turn),
             head.stage = "done" => mem'.live = db.live
      PROVE  MInv'
  <2>1. LiveStep
    BY <1>7 DEF LiveStep, head
  <2> QED  BY <1>1, <1>3, <1>4, <1>7, <2>1
<1>8. CASE LiveStarted
  <2> DEFINE on == [mem EXCEPT !.live = TRUE]
  <2>1. /\ db' = db /\ mem' = MasterBack(on) /\ turn' = Tail(turn)
        /\ head.stage = "done" /\ head.kind = "startLive"
    BY <1>8 DEF LiveStarted, Next1, head
  <2>2. db.live = TRUE
    BY <1>1, <1>2, <2>1 DEF HeadKnows, head, Database
  <2>3. on \in Memory /\ on.live = TRUE
    BY <1>1, MemoryFields
  <2> HIDE DEF on
  <2>4. Same(on, MasterBack(on))
    BY <2>3, TimersSame
  <2> QED  BY <1>7, <2>1, <2>2, <2>3, <2>4 DEF Same
<1>9. CASE LiveStopped
  <2>1. /\ db' = db /\ mem' = LiveEnded(mem) /\ turn' = Tail(turn)
        /\ head.stage = "done" /\ head.kind # "startLive"
    BY <1>9 DEF LiveStopped, Next1, head
  <2>2. db.live = FALSE
    BY <1>1, <1>2, <2>1 DEF HeadKnows, head, Database
  <2> QED  BY <1>1, <1>7, <2>1, <2>2, EndedTyped
<1>10. CASE LiveMissed
  <2>1. /\ db' = db /\ turn' = Tail(turn) /\ head.stage = "missed"
        /\ mem' \in {mem, [mem EXCEPT !.live = FALSE]}
    BY <1>10 DEF LiveMissed, Next1, head
  <2>2. mem' \in Memory
    BY <1>1, <2>1 DEF Memory
  <2> QED  BY <1>7, <2>1, <2>2
<1> QED  BY <1>5, <1>6, <1>8, <1>9, <1>10 DEF TurnStep

-----------------------------------------------------------------------------
(* Whoever disconnects, the clock, and the process ending and coming back. *)
LEMMA ElsewhereKnows ==
    ASSUME MInv, Noted,
           \/ \E s \in Socket : Disconnect(s)
           \/ WriteLands \/ Tick \/ Shutdown \/ Crash \/ Stop \/ Restart \/ RestartBlind
    PROVE  MInv'
<1>1. /\ db \in Database /\ mem \in Memory /\ sockets \subseteq Socket /\ events \in Nat
      /\ phase \in {"up", "stopping", "down"} /\ turn \in Seq(Turn)
      /\ HeadKnows(turn, db) /\ \A v \in tasks : Sound(v)
      /\ mem.writes \in Seq(Ages(Timeout))
  BY DEF MInv, TypeOK, Memory
<1>2. ASSUME UNCHANGED <<tasks, turn>>, sockets' \subseteq Socket, events' \in Nat,
             phase' \in {"up", "stopping", "down"}, db' \in Database,
             db'.live = db.live, db'.master = db.master, mem' \in Memory
      PROVE  MInv'
  <2>1. HeadKnows(turn', db') /\ RoleStep /\ LiveStep /\ \A v \in tasks' : Sound(v)
    BY <1>1, <1>2 DEF HeadKnows, RoleStep, LiveStep
  <2> QED  BY <1>1, <1>2, <2>1, Settles
<1>3. ASSUME NEW s \in Socket, Disconnect(s)  PROVE MInv'
  BY <1>1, <1>2, <1>3, OutsLess DEF Disconnect, Less
<1>4. CASE WriteLands
  <2>1. Head(mem.writes) \in Ages(Timeout) /\ Tail(mem.writes) \in Seq(Ages(Timeout))
    BY <1>1, <1>4 DEF WriteLands
  <2>2. /\ db' = [db EXCEPT !.awaySince = Head(mem.writes)]
        /\ mem' = [mem EXCEPT !.writes = Tail(mem.writes)]
        /\ UNCHANGED <<phase, sockets, tasks, turn, events>>
    BY <1>4 DEF WriteLands
  <2>3. db' \in Database /\ db'.live = db.live /\ db'.master = db.master
    BY <1>1, <2>1, <2>2 DEF Database
  <2>4. mem' \in Memory
    BY <1>1, <2>1, <2>2 DEF Memory
  <2> QED  BY <1>1, <1>2, <2>2, <2>3, <2>4
<1>5. CASE Shutdown
  <2>1. 0 \in Ages(Timeout)
    BY TimeAssumption DEF Ages
  <2>2. Same(mem, RecordMasterAway(mem, 0)) /\ mem' \in {mem, RecordMasterAway(mem, 0)}
    BY <1>1, <1>5, <2>1, MemoryFields DEF Shutdown
  <2>3. /\ UNCHANGED <<db, sockets, tasks, turn>> /\ phase' = "stopping" /\ events' \in Nat
    BY <1>1, <1>5 DEF Shutdown, Happens
  <2> QED  BY <1>1, <1>2, <2>2, <2>3 DEF Same
<1>6. CASE Tick
  <2>1. \A limit \in Nat : \A age \in Ages(limit) : Older(age, limit) \in Ages(limit)
    BY DEF Older, Ages
  <2>2. ASSUME NEW age \in Ages(Grace + 1)  PROVE Older(age, Grace) \in Ages(Grace + 1)
    BY TimeAssumption DEF Older, Ages
  <2>3. /\ Older(mem.failover, Grace) \in Ages(Grace + 1)
        /\ Older(mem.timeout, Timeout) \in Ages(Timeout)
        /\ Older(db.awaySince, Timeout) \in Ages(Timeout)
    BY <1>1, <2>1, <2>2, TimeAssumption DEF Memory, Database
  <2>4. /\ mem' = [mem EXCEPT !.failover = Older(mem.failover, Grace),
                              !.timeout = Older(mem.timeout, Timeout)]
        /\ db' = [db EXCEPT !.awaySince = Older(db.awaySince, Timeout)]
        /\ UNCHANGED <<phase, sockets, tasks, turn, events>>
    BY <1>6 DEF Tick
  <2>5. db' \in Database /\ db'.live = db.live /\ db'.master = db.master
    BY <1>1, <2>3, <2>4 DEF Database
  <2>6. mem' \in Memory
    BY <1>1, <2>3, <2>4 DEF Memory
  <2> QED  BY <1>1, <1>2, <2>4, <2>5, <2>6
<1>7. CASE Crash \/ Stop
  <2>1. /\ phase' = "down" /\ sockets' = {} /\ mem' = Empty /\ tasks' = {} /\ turn' = <<>>
        /\ db' = db /\ events' \in Nat
    BY <1>1, <1>7 DEF Crash, Stop, Ends, Happens
  <2>2. HeadKnows(turn', db') /\ turn' \in Seq(Turn) /\ RoleStep /\ LiveStep
    BY <2>1, EmptyTyped DEF HeadKnows, RoleStep, LiveStep
  <2> QED  BY <1>1, <2>1, <2>2, EmptyTyped, Settles
<1>8. CASE Restart \/ RestartBlind
  <2>1. /\ phase' = "up" /\ mem' \in {LoadLiveRooms, Empty}
        /\ UNCHANGED <<db, sockets, tasks, turn, events>>
    BY <1>8 DEF Restart, RestartBlind
  <2>2. mem' \in Memory
    BY <1>1, <2>1, LoadsTyped, EmptyTyped
  <2> QED  BY <1>1, <1>2, <2>1, <2>2
<1> QED  BY <1>3, <1>4, <1>5, <1>6, <1>7, <1>8

LEMMA StutterKnows ==
    ASSUME MInv, UNCHANGED vars
    PROVE  MInv'
BY DEF vars, MInv, TypeOK, HeadKnows, RoleKnown, LiveKnown

LEMMA InitKnows == Init => MInv
<1> SUFFICES ASSUME Init  PROVE MInv
  OBVIOUS
<1>1. /\ Arrived \in Seq(Identity) /\ Arrived[1] \in Identity
      /\ \A i \in DOMAIN Arrived : Arrived[i] \in Identity
  BY ArrivedAssumption
<1>2. {<<Arrived[i], 1>> : i \in DOMAIN Arrived} \in SUBSET Socket
  BY <1>1, ArrivedAssumption DEF Socket
<1>3. Never \in Ages(Timeout)
  BY TimeAssumption DEF Ages, Never
<1>4. db \in Database /\ db.live = FALSE /\ db.master = Arrived[1]
  BY <1>1, <1>3 DEF Init, Database
<1>5. mem \in Memory /\ mem.live = FALSE /\ mem.master = Arrived[1]
  <2> DEFINE S == {<<Arrived[i], 1>> : i \in DOMAIN Arrived}
  <2>1. mem = [Empty EXCEPT !.inside = S, !.master = Arrived[1]]
    BY DEF Init
  <2>2. S \in SUBSET Socket
    BY <1>2
  <2> HIDE DEF S
  <2> QED  BY <1>1, <2>1, <2>2, EmptyTyped DEF Memory
<1>6. sockets \subseteq Socket /\ tasks = {} /\ turn = <<>> /\ turn \in Seq(Turn) /\ events = 0
      /\ phase = "up" /\ late = {} /\ strays = {}
  BY <1>2 DEF Init
<1>7. HeadKnows(turn, db)
  BY <1>6 DEF HeadKnows
<1> QED  BY <1>4, <1>5, <1>6, <1>7 DEF MInv, TypeOK, RoleKnown, LiveKnown

LEMMA NextKnows ==
    ASSUME MInv, [Next]_vars
    PROVE  MInv'
<1> SUFFICES ASSUME Next  PROVE MInv'
  BY StutterKnows
<1>1. Noted
  BY NextNoted
<1>2. ASSUME NEW t \in tasks, TaskStep(t)  PROVE MInv'
  BY <1>1, <1>2, JoinKnows, EnterKnows, SnapshotKnows, PassKnows, WriteKnows, TakeOverKnows,
     LeftKnows, TakenOverKnows, ClosedKnows DEF TaskStep
<1>3. CASE \/ Sweep \/ Idles \/ CloseAsAdministrator
           \/ \E p \in Identity :
                LeaveRoom(p) \/ Suspend(p) \/ \E q \in Identity : TakeOver(p, q)
  BY <1>1, <1>3, RequestKnows
<1>4. ASSUME NEW s \in Socket,
             \/ Connect(s) \/ Resync(s) \/ Exit(s) \/ Close(s)
             \/ \E p \in Identity : HandOver(s, p) \/ Kick(s, p)
      PROVE  MInv'
  BY <1>1, <1>4, AskKnows
<1>5. CASE EndLiveAsAdministrator \/ TimeoutFires \/ \E s \in Socket : StartLive(s) \/ EndLive(s)
  BY <1>1, <1>5, QueuedKnows
<1>6. CASE TurnStep
  BY <1>1, <1>6, TurnKnows
<1>7. CASE FailoverFires
  BY <1>1, <1>7, FiredKnows
<1>8. CASE \/ \E s \in Socket : Disconnect(s)
           \/ WriteLands \/ Tick \/ Shutdown \/ Crash \/ Stop \/ Restart \/ RestartBlind
  BY <1>1, <1>8, ElsewhereKnows
<1> QED  BY <1>2, <1>3, <1>4, <1>5, <1>6, <1>7, <1>8 DEF Next, Server

(* What the server holds in memory is well formed, and with nothing        *)
(* half-way it names the Master the database has and takes the Room for    *)
(* Live exactly when it is, whichever commands, connections, timers,       *)
(* crashes and restarts crossed, unless it was told so too late and has    *)
(* not been told again (room.gateway.ts join, snapshot, masterChanged).    *)
THEOREM MemoryFollows == Spec => []MemoryAgrees
<1>1. MInv => MemoryAgrees
  BY DEF MInv, MemoryAgrees, RoleAgrees, LiveAgrees, RoleKnown, LiveKnown,
     Idle, OnTime
<1> QED  BY <1>1, InitKnows, NextKnows, PTL DEF Spec

-----------------------------------------------------------------------------
(* Who is inside.                                                          *)

(* t has written that p is out, and is about to put them out.              *)
PutsOut(t, p) ==
    /\ t.stage = "done"
    /\ \/ t.kind \in {"kick", "leaveRoom", "suspend"} /\ t.to = p
       \/ t.kind = "takeOver" /\ t.saw = p
       \/ t.kind \in {"close", "adminClose", "sweep"}

Belongs ==
    \A s \in mem.inside \ strays : Entitled(db, s[1]) \/ \E t \in tasks : PutsOut(t, s[1])

(* While nobody has entered the Room since the cutoff, nobody is about to, *)
(* and the sweep has seen that nobody is in it.                            *)
Asleep ==
    db.idle => \A t \in tasks :
        /\ ~(t.kind = "join" /\ t.stage = "entered")
        /\ t.kind = "sweep" /\ t.stage = "checked" => mem.inside = {}

SameRoom ==
    db'.member = db.member /\ db'.open = db.open /\ db'.ended = db.ended /\ db'.idle = db.idle

(* Nobody enters but by the last step of a join.                           *)
LEMMA Insides ==
    ASSUME MInv, Next
    PROVE  mem'.inside \subseteq mem.inside \/ \E t \in tasks : JoinEnter(t)
<1>1. mem \in Memory /\ db \in Database /\ \A t \in tasks : Sound(t)
  BY DEF MInv, TypeOK
<1>2. Same(mem, mem) /\ Less(mem, mem)
  BY <1>1 DEF Same, Less
<1>3. ASSUME NEW t \in tasks, TaskStep(t), ~JoinEnter(t)  PROVE mem'.inside \subseteq mem.inside
  <2>1. CASE \/ JoinAdmit(t) \/ JoinEntered(t) \/ SnapshotRead(t) \/ PassTake(t) \/ KickWrite(t)
             \/ LeaveRoomWrite(t) \/ CloseWrite(t) \/ TakeOverWrite(t) \/ SweepWrite(t)
    <3>1. mem' = mem
      BY <2>1 DEF JoinAdmit, JoinEntered, SnapshotRead, PassTake, KickWrite, LeaveRoomWrite,
         CloseWrite, TakeOverWrite, SweepWrite
    <3> QED  BY <3>1
  <2>2. CASE SnapshotAnswer(t)
    <3>1. mem' = [mem EXCEPT !.live = t.flag]
      BY <2>2 DEF SnapshotAnswer
    <3> QED  BY <1>1, <3>1 DEF Memory
  <2>3. CASE PassDone(t)
    <3>1. t.stage = "passed" => t.to \in Identity
      BY <1>1 DEF Sound
    <3>2. \/ mem' = MasterChanged(mem, t.to) /\ t.to \in Identity
          \/ mem' = StopFailover(mem)
      BY <2>3, <3>1 DEF PassDone, At
    <3> QED  BY <1>1, <3>2, ChangedTyped, TimersSame DEF Same
  <2>4. CASE ExitDone(t) \/ KickDone(t) \/ LeaveRoomDone(t) \/ SuspendDone(t)
    <3> DEFINE out == Evict(mem, t.to)
    <3>1. \/ mem' \in {Leave(mem, t.sock), out}
          \/ mem' \in {MasterAway(out), NoMaster(Watch(out)), Watch(out)}
      BY <2>4 DEF ExitDone, KickDone, LeaveRoomDone, SuspendDone
    <3>2. Less(mem, Leave(mem, t.sock)) /\ Less(mem, out) /\ out \in Memory
      BY <1>1, OutsLess DEF Less
    <3> HIDE DEF out
    <3>3. Same(out, MasterAway(out)) /\ Same(out, Watch(out)) /\ Watch(out) \in Memory
      BY <3>2, TimersSame DEF Same
    <3>4. Same(Watch(out), NoMaster(Watch(out)))
      BY <3>3, TimersSame
    <3> QED  BY <3>1, <3>2, <3>3, <3>4 DEF Same, Less
  <2>5. CASE CloseDone(t)
    BY <1>1, <2>5, EndedTyped DEF CloseDone
  <2>6. CASE TakeOverDone(t)
    <3> DEFINE out == Evict(mem, t.saw)
    <3>1. mem' \in {out, MasterChanged(out, t.to)} /\ t.to \in Identity
      BY <1>1, <2>6 DEF TakeOverDone, At, Sound
    <3>2. Less(mem, out) /\ out \in Memory
      BY <1>1, OutsLess DEF Less
    <3> HIDE DEF out
    <3> QED  BY <3>1, <3>2, ChangedTyped DEF Less
  <2> QED  BY <1>3, <2>1, <2>2, <2>3, <2>4, <2>5, <2>6 DEF TaskStep
<1>4. CASE TurnStep
  <2> DEFINE on == [mem EXCEPT !.live = TRUE]
  <2>1. \/ mem' = mem \/ mem' = LiveEnded(mem) \/ mem' = MasterBack(on)
        \/ mem' = [mem EXCEPT !.live = FALSE]
    BY <1>4 DEF TurnStep, TurnCheck, TurnWrite, LiveStarted, LiveStopped, LiveMissed
  <2>2. on \in Memory /\ on.inside = mem.inside /\ [mem EXCEPT !.live = FALSE].inside = mem.inside
    BY <1>1 DEF Memory
  <2> HIDE DEF on
  <2> QED  BY <1>1, <2>1, <2>2, TimersSame, EndedTyped DEF Same
<1>5. CASE FailoverFires
  <2> DEFINE fired == [mem EXCEPT !.failover = Grace + 1]
  <2>1. mem' \in {fired, StopFailover(fired)}
    BY <1>5 DEF FailoverFires, PassOnMaster
  <2>2. fired \in Memory /\ fired.inside = mem.inside
    <3>1. Grace + 1 \in Ages(Grace + 1)
      BY TimeAssumption DEF Ages
    <3> QED  BY <1>1, <3>1, MemoryFields DEF Same
  <2> HIDE DEF fired
  <2> QED  BY <2>1, <2>2, TimersSame DEF Same
<1>6. CASE TimeoutFires \/ WriteLands \/ Tick \/ Shutdown
  BY <1>1, <1>6 DEF TimeoutFires, WriteLands, Tick, Shutdown, RecordMasterAway, Memory
<1>7. CASE Stop \/ Crash \/ Restart \/ RestartBlind
  BY <1>1, <1>7, EmptyTyped, LoadsTyped DEF Stop, Crash, Ends, Restart, RestartBlind
<1>8. CASE \/ CloseAsAdministrator \/ EndLiveAsAdministrator \/ Idles \/ Sweep
           \/ \E p \in Identity :
                LeaveRoom(p) \/ Suspend(p) \/ \E q \in Identity : TakeOver(p, q)
  <2>1. mem' = mem
    BY <1>8 DEF CloseAsAdministrator, EndLiveAsAdministrator, Idles, Sweep, LeaveRoom, Suspend,
       TakeOver, Requests
  <2> QED  BY <2>1
<1>9. ASSUME NEW s \in Socket,
             \/ Connect(s) \/ Disconnect(s) \/ Resync(s) \/ Exit(s)
             \/ Close(s) \/ StartLive(s) \/ EndLive(s)
             \/ \E p \in Identity : HandOver(s, p) \/ Kick(s, p)
      PROVE  mem'.inside \subseteq mem.inside
  <2>1. mem' = mem \/ mem' = Leave(mem, s)
    BY <1>9 DEF Connect, Disconnect, Resync, Exit, Close, StartLive, EndLive, HandOver, Kick,
       MasterAsks, Asks
  <2> QED  BY <1>1, <2>1, OutsLess DEF Less
<1> QED  BY <1>3, <1>4, <1>5, <1>6, <1>7, <1>8, <1>9 DEF Next, Server

(* A command goes on, or ends, only by a step of its own.                  *)
LEMMA OthersStay ==
    ASSUME Next, NEW t \in tasks, t \notin tasks'
    PROVE  \/ TaskStep(t) \/ mem' = Empty
           \/ t.kind = "failover" /\ t.stage = "passing"
<1>1. ASSUME NEW v \in tasks, TaskStep(v), v # t  PROVE FALSE
  <2>1. \A u : ~Become(v, u) /\ ~Finish(v)
    BY <1>1 DEF Become, Finish
  <2>2. \A stage : ~Goes(v, stage)
    BY <2>1 DEF Goes
  <2>3. ~Proceed(v) /\ \A m : ~PassOnMaster(m, v)
    BY <2>1, <2>2 DEF Proceed, PassOnMaster
  <2> QED  BY <1>1, <2>1, <2>2, <2>3
      DEF TaskStep, JoinAdmit, JoinEntered, JoinEnter, SnapshotRead, SnapshotAnswer,
          PassTake, PassDone, ExitDone, KickWrite, KickDone, LeaveRoomWrite, LeaveRoomDone,
          SuspendDone, CloseWrite, CloseDone, TakeOverWrite, TakeOverDone, SweepWrite
<1>2. CASE TurnStep
  BY <1>2 DEF TurnStep, TurnCheck, TurnWrite, LiveStarted, LiveStopped, LiveMissed, Next1
<1>3. CASE FailoverFires
  <2> DEFINE v == Job("failover", "passing", NoSocket)
  <2>1. t = v
    BY <1>3 DEF FailoverFires, PassOnMaster, Proceed, Goes, Become, Finish
  <2> QED  BY <2>1 DEF Job
<1>4. CASE TimeoutFires \/ WriteLands \/ Tick \/ Shutdown \/ Restart \/ RestartBlind
  BY <1>4 DEF TimeoutFires, WriteLands, Tick, Shutdown, Restart, RestartBlind
<1>5. CASE Stop \/ Crash
  BY <1>5 DEF Stop, Crash, Ends
<1>6. CASE \/ CloseAsAdministrator \/ EndLiveAsAdministrator \/ Idles \/ Sweep
           \/ \E p \in Identity :
                LeaveRoom(p) \/ Suspend(p) \/ \E q \in Identity : TakeOver(p, q)
  BY <1>6 DEF CloseAsAdministrator, EndLiveAsAdministrator, Idles, Sweep, LeaveRoom, Suspend,
     TakeOver, Requests
<1>7. ASSUME NEW s \in Socket,
             \/ Connect(s) \/ Disconnect(s) \/ Resync(s) \/ Exit(s)
             \/ Close(s) \/ StartLive(s) \/ EndLive(s)
             \/ \E p \in Identity : HandOver(s, p) \/ Kick(s, p)
      PROVE  FALSE
  BY <1>7 DEF Connect, Disconnect, Resync, Exit, Close, StartLive, EndLive, HandOver, Kick,
     MasterAsks
<1> QED  BY <1>1, <1>2, <1>3, <1>4, <1>5, <1>6, <1>7 DEF Next, Server

Writes(t) ==
    \/ JoinAdmit(t) \/ JoinEntered(t) \/ KickWrite(t) \/ LeaveRoomWrite(t)
    \/ CloseWrite(t) \/ SweepWrite(t) \/ TakeOverWrite(t)

(* Who writes that somebody is in, or out, or that the Room is closed.     *)
LEMMA Quiet ==
    ASSUME MInv, Next
    PROVE  \/ SameRoom \/ Idles \/ (\E p \in Identity : Suspend(p)) \/ \E t \in tasks : Writes(t)
<1>1. db \in Database
  BY DEF MInv, TypeOK
<1>2. \/ db' = db \/ db' \in {[db EXCEPT !.live = TRUE], [db EXCEPT !.live = FALSE, !.awaySince = Never]}
      \/ \E x : db' = [db EXCEPT !.awaySince = x]
      \/ \E x : db' = [db EXCEPT !.master = x]
      => SameRoom
  BY <1>1 DEF SameRoom, Database
<1>3. ASSUME NEW t \in tasks, TaskStep(t), ~Writes(t)  PROVE SameRoom
  <2>1. CASE PassTake(t)
    BY <1>2, <2>1 DEF PassTake
  <2> QED  BY <1>2, <1>3, <2>1
      DEF TaskStep, Writes, JoinEnter, SnapshotRead, SnapshotAnswer, PassDone, ExitDone,
          KickDone, LeaveRoomDone, SuspendDone, CloseDone, TakeOverDone
<1>4. CASE TurnStep
  BY <1>2, <1>4 DEF TurnStep, TurnCheck, TurnWrite, LiveStarted, LiveStopped, LiveMissed
<1>5. CASE FailoverFires \/ TimeoutFires \/ WriteLands \/ Tick \/ Shutdown \/ Restart \/ RestartBlind
  BY <1>2, <1>5 DEF FailoverFires, TimeoutFires, WriteLands, Tick, Shutdown, Restart, RestartBlind
<1>6. CASE Stop \/ Crash
  BY <1>2, <1>6 DEF Stop, Crash, Ends
<1>7. CASE \/ CloseAsAdministrator \/ EndLiveAsAdministrator \/ Sweep
           \/ \E p \in Identity : LeaveRoom(p) \/ \E q \in Identity : TakeOver(p, q)
  BY <1>2, <1>7 DEF CloseAsAdministrator, EndLiveAsAdministrator, Sweep, LeaveRoom, TakeOver
<1>8. ASSUME NEW s \in Socket,
             \/ Connect(s) \/ Disconnect(s) \/ Resync(s) \/ Exit(s)
             \/ Close(s) \/ StartLive(s) \/ EndLive(s)
             \/ \E p \in Identity : HandOver(s, p) \/ Kick(s, p)
      PROVE  SameRoom
  BY <1>2, <1>8 DEF Connect, Disconnect, Resync, Exit, Close, StartLive, EndLive, HandOver, Kick,
     MasterAsks, Asks
<1> QED  BY <1>3, <1>4, <1>5, <1>6, <1>7, <1>8 DEF Next, Server

(* The Room's end, as it is written.                                       *)
LEMMA ClosedSays ==
    ASSUME db \in Database
    PROVE  /\ Closed.member = db.member /\ Closed.idle = db.idle /\ Closed.open = FALSE
BY DEF Closed, Database

(* What each of those writes.                                              *)
LEMMA WritesSay ==
    ASSUME MInv, NEW t \in tasks, Writes(t)
    PROVE  /\ db'.idle => db.idle /\ ~JoinEntered(t)
           /\ \A p \in Identity : db.member[p] = "kicked" => db'.member[p] = "kicked"
           /\ db.open /\ ~db'.open /\ t.kind = "sweep" => t.stage = "checked" /\ db.idle
           /\ \A p \in Identity :
                Entitled(db, p) => Entitled(db', p) \/ \E u \in tasks' : PutsOut(u, p)
<1>1. db \in Database /\ t \in Task /\ Sound(t)
  BY DEF MInv, TypeOK
<1> DEFINE u == [t EXCEPT !.stage = "done"]
<1>2. u.stage = "done" /\ u.kind = t.kind /\ u.to = t.to /\ u.saw = t.saw
  BY <1>1 DEF Task
<1>3. Goes(t, "done") => u \in tasks'
  BY DEF Goes, Become
<1> HIDE DEF u
<1>4. CASE JoinAdmit(t)
  <2> DEFINE p == t.sock[1]
             joined == IF db.member[p] = "in" THEN db.joined
                       ELSE Append(Besides(db.joined, p), p)
  <2>1. p \in Identity
    BY <1>1, <1>4 DEF Sound, Socket, JoinAdmit, At
  <2>2. \/ db' = db
        \/ /\ db' = [db EXCEPT !.member = [db.member EXCEPT ![p] = "in"], !.joined = joined]
           /\ db.member[p] # "kicked"
    BY <1>4 DEF JoinAdmit
  <2>3. t.kind = "join" /\ t.stage = "found"
    BY <1>4 DEF JoinAdmit, At
  <2> HIDE DEF joined, p
  <2>4. /\ db'.idle = db.idle /\ db'.open = db.open /\ db'.ended = db.ended
        /\ \A q \in Identity : /\ db.member[q] = "kicked" => db'.member[q] = "kicked"
                               /\ db.member[q] = "in" => db'.member[q] = "in"
    BY <1>1, <2>1, <2>2 DEF Database
  <2>5. ~JoinEntered(t)
    BY <2>3 DEF JoinEntered, At
  <2> QED  BY <2>4, <2>5 DEF Entitled
<1>5. CASE JoinEntered(t)
  <2>1. /\ db'.idle = FALSE /\ db'.member = db.member /\ db'.open = db.open
        /\ db'.ended = db.ended
    BY <1>1, <1>5 DEF JoinEntered, Database
  <2> QED  BY <2>1 DEF Entitled
<1>6. CASE KickWrite(t)
  <2>1. t.kind = "kick" /\ t.to \in Identity
    BY <1>1, <1>6 DEF KickWrite, At, Sound
  <2>2. \/ db' = db
        \/ db' = [db EXCEPT !.member = [db.member EXCEPT ![t.to] = "kicked"]] /\ u \in tasks'
    BY <1>3, <1>6 DEF KickWrite
  <2>3. /\ db'.idle = db.idle /\ db'.open = db.open /\ db'.ended = db.ended
        /\ \A q \in Identity : /\ db.member[q] = "kicked" => db'.member[q] = "kicked"
                               /\ q # t.to => db'.member[q] = db.member[q]
        /\ db' = db \/ u \in tasks'
    BY <1>1, <2>1, <2>2 DEF Database
  <2>4. PutsOut(u, t.to) /\ ~JoinEntered(t)
    BY <1>2, <2>1 DEF PutsOut, JoinEntered, At
  <2> QED  BY <2>3, <2>4 DEF Entitled
<1>7. CASE LeaveRoomWrite(t)
  <2>1. t.kind = "leaveRoom" /\ t.to \in Identity /\ u \in tasks'
    BY <1>1, <1>3, <1>7 DEF LeaveRoomWrite, At, Sound
  <2>2. \/ db' = db
        \/ /\ db' = [db EXCEPT !.member = [db.member EXCEPT ![t.to] = "none"]]
           /\ db.member[t.to] = "in"
    BY <1>7 DEF LeaveRoomWrite
  <2>3. /\ db'.idle = db.idle /\ db'.open = db.open /\ db'.ended = db.ended
        /\ \A q \in Identity : /\ db.member[q] = "kicked" => db'.member[q] = "kicked"
                               /\ q # t.to => db'.member[q] = db.member[q]
    BY <1>1, <2>1, <2>2 DEF Database
  <2>4. PutsOut(u, t.to) /\ ~JoinEntered(t)
    BY <1>2, <2>1 DEF PutsOut, JoinEntered, At
  <2> QED  BY <2>1, <2>3, <2>4 DEF Entitled
<1>8. CASE CloseWrite(t) \/ SweepWrite(t)
  <2>1. /\ t.kind \in {"close", "adminClose", "sweep"} /\ t.stage = "checked"
        /\ db' = db \/ (db' = Closed /\ (~db.open \/ u \in tasks'))
        /\ t.kind = "sweep" => db' = db \/ db.idle
    BY <1>3, <1>8 DEF CloseWrite, SweepWrite, At
  <2>2. /\ db'.idle = db.idle /\ db'.member = db.member
        /\ db' = db \/ ~db.open \/ u \in tasks'
    BY <1>1, <2>1, ClosedSays
  <2>3. (\A p : PutsOut(u, p)) /\ ~JoinEntered(t)
    BY <1>2, <2>1 DEF PutsOut, JoinEntered, At
  <2> QED  BY <2>1, <2>2, <2>3 DEF Entitled
<1>9. CASE TakeOverWrite(t)
  <2> DEFINE p == t.saw
             q == t.to
             v == [t EXCEPT !.stage = "done", !.flag = db'.master # db.master]
             master == IF db.open /\ db.master = p THEN q ELSE db.master
             member == [[db.member EXCEPT ![p] = "none"] EXCEPT ![q] = "in"]
             left == [db.member EXCEPT ![p] = IF @ = "in" THEN "none" ELSE @]
             ended == db.ended \cup {p}
  <2>1. t.kind = "takeOver" /\ p \in Identity /\ q \in Identity /\ v \in tasks' /\ p # q
    BY <1>1, <1>9, IdentityAssumption DEF TakeOverWrite, At, Sound, Become
  <2>2. v.kind = "takeOver" /\ v.stage = "done" /\ v.saw = p
    BY <1>1, <2>1 DEF Task
  <2>3. \/ /\ db' = [db EXCEPT !.member = member, !.joined = InPlace(p, q), !.ended = ended,
                               !.master = master]
           /\ db.member[p] = "in" /\ db.member[q] # "kicked"
        \/ db' = [db EXCEPT !.member = left, !.ended = ended]
    BY <1>9 DEF TakeOverWrite
  <2>4. /\ db.member[p] = "in" /\ db.member[q] # "kicked" =>
             \A x \in Identity : /\ db.member[x] = "kicked" => member[x] = "kicked"
                                 /\ x # p /\ db.member[x] = "in" => member[x] = "in"
        /\ \A x \in Identity : /\ db.member[x] = "kicked" => left[x] = "kicked"
                               /\ x # p => left[x] = db.member[x]
        /\ \A x : x # p => (x \in ended <=> x \in db.ended)
    BY <1>1, <2>1 DEF Database
  <2> HIDE DEF v, master, member, left, ended
  <2>5. /\ db'.idle = db.idle /\ db'.open = db.open
        /\ \A x \in Identity : /\ db.member[x] = "kicked" => db'.member[x] = "kicked"
                               /\ x # p /\ db.member[x] = "in" => db'.member[x] = "in"
        /\ \A x : x # p => (x \in db'.ended <=> x \in db.ended)
    <3>1. CASE db' = [db EXCEPT !.member = left, !.ended = ended]
      <4>1. /\ db'.idle = db.idle /\ db'.open = db.open
            /\ db'.member = left /\ db'.ended = ended
        BY <1>1, <3>1 DEF Database
      <4> QED  BY <2>4, <4>1
    <3>2. CASE /\ db' = [db EXCEPT !.member = member, !.joined = InPlace(p, q), !.ended = ended,
                                   !.master = master]
               /\ db.member[p] = "in" /\ db.member[q] # "kicked"
      <4>1. /\ db'.idle = db.idle /\ db'.open = db.open
            /\ db'.member = member /\ db'.ended = ended
        BY <1>1, <3>2 DEF Database
      <4> QED  BY <2>4, <3>2, <4>1
    <3> QED  BY <2>3, <3>1, <3>2
  <2>6. PutsOut(v, p) /\ ~JoinEntered(t)
    BY <2>1, <2>2 DEF PutsOut, JoinEntered, At
  <2> QED  BY <2>1, <2>5, <2>6 DEF Entitled
<1> QED  BY <1>4, <1>5, <1>6, <1>7, <1>8, <1>9 DEF Writes

LEMMA Fields ==
    ASSUME NEW v \in Task
    PROVE  \A a, b, c :
             /\ [v EXCEPT !.stage = a, !.saw = b, !.to = c].kind = v.kind
             /\ [v EXCEPT !.stage = a, !.saw = b, !.to = c].stage = a
             /\ [v EXCEPT !.stage = a, !.flag = b].kind = v.kind
             /\ [v EXCEPT !.stage = a, !.flag = b].stage = a
BY DEF Task

LEMMA JobFields ==
    \A kind, stage, s, a, b :
       /\ Job(kind, stage, s).kind = kind /\ Job(kind, stage, s).stage = stage
       /\ [Job(kind, stage, s) EXCEPT !.to = a].kind = kind
       /\ [Job(kind, stage, s) EXCEPT !.to = a].stage = stage
       /\ [Job(kind, stage, s) EXCEPT !.saw = a].kind = kind
       /\ [Job(kind, stage, s) EXCEPT !.saw = a].stage = stage
       /\ [Job(kind, stage, s) EXCEPT !.saw = a, !.to = b].kind = kind
       /\ [Job(kind, stage, s) EXCEPT !.saw = a, !.to = b].stage = stage
       /\ [Job(kind, stage, s) EXCEPT !.to = a, !.flag = b].kind = kind
       /\ [Job(kind, stage, s) EXCEPT !.to = a, !.flag = b].stage = stage
BY DEF Job

LEMMA NextAsleep ==
    ASSUME MInv, Asleep, Next
    PROVE  Asleep'
<1> SUFFICES ASSUME db'.idle, NEW t \in tasks'
             PROVE  /\ ~(t.kind = "join" /\ t.stage = "entered")
                    /\ t.kind = "sweep" /\ t.stage = "checked" => mem'.inside = {}
  BY DEF Asleep
<1>1. CASE Idles
  BY <1>1 DEF Idles
<1>2. CASE ~Idles
  <2>1. db.idle /\ \A v \in tasks : ~JoinEntered(v)
    <3>1. CASE \E p \in Identity : Suspend(p)
      <4>1. db'.idle = db.idle
        BY <3>1 DEF Suspend, MInv, TypeOK, Database
      <4>2. \A v \in tasks : JoinEntered(v) => v \notin tasks'
        BY DEF JoinEntered, Goes, Become, At, MInv, TypeOK, Task
      <4>3. tasks \subseteq tasks'
        BY <3>1 DEF Suspend
      <4> QED  BY <4>1, <4>2, <4>3
    <3>2. ASSUME NEW v \in tasks, JoinEntered(v)  PROVE FALSE
      BY <3>2, WritesSay DEF Writes
    <3>3. ASSUME NEW v \in tasks, Writes(v)  PROVE db.idle
      BY <3>3, WritesSay
    <3> QED  BY <1>2, <3>1, <3>2, <3>3, Quiet DEF SameRoom
  <2>2. CASE t \in tasks
    <3>1. ~(t.kind = "join" /\ t.stage = "entered")
      BY <2>1, <2>2 DEF Asleep
    <3>2. \A v \in tasks : ~JoinEnter(v)
      BY <2>1 DEF Asleep, JoinEnter, At
    <3>3. mem'.inside \subseteq mem.inside
      BY <3>2, Insides
    <3> QED  BY <2>1, <2>2, <3>1, <3>3 DEF Asleep
  <2>3. CASE t \notin tasks
    <3>1. ASSUME NEW v \in tasks, TaskStep(v)
          PROVE  t.kind = v.kind /\ t.stage \in {"admitted", "drawing", "drawn", "passing",
                                                 "passed", "refused", "done"}
      <4>1. v \in Task
        BY DEF MInv, TypeOK
      <4>2. \A stage : Goes(v, stage) => t.kind = v.kind /\ t.stage = stage
        BY <2>3, <4>1 DEF Goes, Become, Task
      <4>3. ~Finish(v)
        BY <2>3 DEF Finish
      <4>4. Proceed(v) => t.kind = v.kind /\ t.stage = "drawing"
        BY <4>2, <4>3 DEF Proceed
      <4>5. ASSUME NEW m, PassOnMaster(m, v)
            PROVE  t.kind = v.kind /\ t.stage \in {"drawing", "passing"}
        <5>1. CASE m.master \in Present(m)
          BY <4>4, <4>5, <5>1 DEF PassOnMaster
        <5>2. CASE m.master \notin Present(m)
          <6>1. PICK p \in Successors(m) :
                  Become(v, [v EXCEPT !.stage = "passing", !.saw = m.master, !.to = p])
            BY <4>5, <5>2 DEF PassOnMaster
          <6> DEFINE u == [v EXCEPT !.stage = "passing", !.saw = m.master, !.to = p]
          <6>2. u.kind = v.kind /\ u.stage = "passing"
            BY <4>1, Fields
          <6>3. t = u
            BY <2>3, <6>1 DEF Become
          <6> QED  BY <6>2, <6>3
        <5> QED  BY <5>1, <5>2
      <4>6. CASE JoinEnter(v)
        BY <4>2, <4>3, <4>5, <4>6 DEF JoinEnter
      <4>7. CASE TakeOverWrite(v) \/ SnapshotRead(v)
        <5>4. PICK stage \in {"done", "drawn"} :
                \E flag : Become(v, [v EXCEPT !.stage = stage, !.flag = flag])
          BY <4>7 DEF TakeOverWrite, SnapshotRead
        <5>1. PICK flag : Become(v, [v EXCEPT !.stage = stage, !.flag = flag])
          BY <5>4
        <5> DEFINE u == [v EXCEPT !.stage = stage, !.flag = flag]
        <5>2. u.kind = v.kind /\ u.stage = stage
          BY <4>1, Fields
        <5>3. t = u
          BY <2>3, <5>1 DEF Become
        <5> QED  BY <5>2, <5>3
      <4>8. ~JoinEntered(v)
        BY <2>1
      <4> QED  BY <3>1, <4>2, <4>3, <4>4, <4>6, <4>7, <4>8
          DEF TaskStep, JoinAdmit, SnapshotAnswer, PassTake, PassDone, ExitDone, KickWrite,
              KickDone, LeaveRoomWrite, LeaveRoomDone, SuspendDone, CloseWrite, CloseDone,
              TakeOverDone, SweepWrite
    <3>2. CASE Sweep
      BY <2>3, <3>2, JobFields DEF Sweep, Requests
    <3>3. CASE FailoverFires
      <4> DEFINE v == Job("failover", "passing", NoSocket)
      <4>1. v \in Task /\ v.kind = "failover"
        BY DEF Job, Task
      <4>2. ~Finish(v) /\ tasks' # tasks
        BY <2>3 DEF Finish
      <4> HIDE DEF v
      <4>3. t.kind = "failover"
        <5>1. PICK m : PassOnMaster(m, v) /\ tasks' # tasks
          BY <3>3, <4>2 DEF FailoverFires, v
        <5>2. ~Proceed(v)
          BY <4>1, <4>2 DEF Proceed
        <5>3. PICK p \in Successors(m) :
                Become(v, [v EXCEPT !.stage = "passing", !.saw = m.master, !.to = p])
          BY <5>1, <5>2 DEF PassOnMaster
        <5> DEFINE u == [v EXCEPT !.stage = "passing", !.saw = m.master, !.to = p]
        <5>4. u.kind = v.kind
          BY <4>1, Fields
        <5>5. t = u
          BY <2>3, <5>3 DEF Become
        <5> QED  BY <4>1, <5>4, <5>5
      <4> QED  BY <4>3
    <3>4. CASE TurnStep
      BY <2>3, <3>4 DEF TurnStep, TurnCheck, TurnWrite, LiveStarted, LiveStopped, LiveMissed, Next1
    <3>5. CASE \/ TimeoutFires \/ WriteLands \/ Tick \/ Shutdown \/ Restart \/ RestartBlind
               \/ Stop \/ Crash
      BY <2>3, <3>5 DEF TimeoutFires, WriteLands, Tick, Shutdown, Restart, RestartBlind, Stop,
         Crash, Ends
    <3>6. ASSUME NEW u, tasks' \subseteq tasks \cup {u}, u.stage # "entered", u.kind # "sweep"
          PROVE  t.stage # "entered" /\ t.kind # "sweep"
      BY <2>3, <3>6
    <3>7. CASE \/ CloseAsAdministrator \/ EndLiveAsAdministrator
               \/ \E p \in Identity :
                    LeaveRoom(p) \/ Suspend(p) \/ \E q \in Identity : TakeOver(p, q)
      <4>1. ASSUME NEW p \in Identity, LeaveRoom(p)  PROVE t.stage # "entered" /\ t.kind # "sweep"
        <5> DEFINE u == [Job("leaveRoom", "checked", NoSocket) EXCEPT !.to = p]
        <5>1. u.stage # "entered" /\ u.kind # "sweep"
          BY JobFields
        <5>2. tasks' \subseteq tasks \cup {u}
          BY <4>1 DEF LeaveRoom
        <5> HIDE DEF u
        <5> QED  BY <3>6, <5>1, <5>2
      <4>2. ASSUME NEW p \in Identity, Suspend(p)  PROVE t.stage # "entered" /\ t.kind # "sweep"
        <5> DEFINE u == [Job("suspend", "done", NoSocket) EXCEPT !.to = p, !.flag = db.master = p]
        <5>1. u.stage # "entered" /\ u.kind # "sweep"
          BY JobFields
        <5>2. tasks' \subseteq tasks \cup {u}
          BY <4>2 DEF Suspend
        <5> HIDE DEF u
        <5> QED  BY <3>6, <5>1, <5>2
      <4>3. ASSUME NEW p \in Identity, NEW q \in Identity, TakeOver(p, q)
            PROVE t.stage # "entered" /\ t.kind # "sweep"
        <5> DEFINE u == [Job("takeOver", "checked", NoSocket) EXCEPT !.saw = p, !.to = q]
        <5>1. u.stage # "entered" /\ u.kind # "sweep"
          BY JobFields
        <5>2. tasks' \subseteq tasks \cup {u}
          BY <4>3 DEF TakeOver
        <5> HIDE DEF u
        <5> QED  BY <3>6, <5>1, <5>2
      <4>4. CASE CloseAsAdministrator
        <5> DEFINE u == Job("adminClose", "checked", NoSocket)
        <5>1. u.stage # "entered" /\ u.kind # "sweep"
          BY JobFields
        <5>2. tasks' \subseteq tasks \cup {u}
          BY <4>4 DEF CloseAsAdministrator
        <5> HIDE DEF u
        <5> QED  BY <3>6, <5>1, <5>2
      <4>5. ~EndLiveAsAdministrator
        BY <2>3 DEF EndLiveAsAdministrator
      <4> QED  BY <3>7, <4>1, <4>2, <4>3, <4>4, <4>5
    <3>8. ASSUME NEW s \in Socket,
                 \/ Connect(s) \/ Disconnect(s) \/ Resync(s) \/ Exit(s)
                 \/ Close(s) \/ StartLive(s) \/ EndLive(s)
                 \/ \E p \in Identity : HandOver(s, p) \/ Kick(s, p)
          PROVE  t.stage # "entered" /\ t.kind # "sweep"
      <4>1. CASE Connect(s)
        <5> DEFINE u == [Job("join", "found", s) EXCEPT !.saw = db.master]
        <5>1. u.stage # "entered" /\ u.kind # "sweep"
          BY JobFields
        <5>2. tasks' \subseteq tasks \cup {u}
          BY <4>1 DEF Connect
        <5> HIDE DEF u
        <5> QED  BY <3>6, <5>1, <5>2
      <4>2. CASE Resync(s)
        <5> DEFINE u == Job("resync", "drawing", s)
        <5>1. u.stage # "entered" /\ u.kind # "sweep"
          BY JobFields
        <5>2. tasks' \subseteq tasks \cup {u}
          BY <4>2 DEF Resync
        <5> HIDE DEF u
        <5> QED  BY <3>6, <5>1, <5>2
      <4>3. CASE Exit(s)
        <5> DEFINE u == Job("exit", "checked", s)
        <5>1. u.stage # "entered" /\ u.kind # "sweep"
          BY JobFields
        <5>2. tasks' \subseteq tasks \cup {u}
          BY <4>3 DEF Exit
        <5> HIDE DEF u
        <5> QED  BY <3>6, <5>1, <5>2
      <4>4. CASE Close(s)
        <5> DEFINE u == Job("close", "checked", s)
        <5>1. u.stage # "entered" /\ u.kind # "sweep"
          BY JobFields
        <5>2. tasks' \subseteq tasks \cup {u}
          BY <4>4 DEF Close
        <5> HIDE DEF u
        <5> QED  BY <3>6, <5>1, <5>2
      <4>5. ASSUME NEW p \in Identity, HandOver(s, p)  PROVE t.stage # "entered" /\ t.kind # "sweep"
        <5> DEFINE u == [Job("handOver", "passing", s) EXCEPT !.saw = s[1], !.to = p]
        <5>1. u.stage # "entered" /\ u.kind # "sweep"
          BY JobFields
        <5>2. tasks' \subseteq tasks \cup {u}
          BY <4>5 DEF HandOver
        <5> HIDE DEF u
        <5> QED  BY <3>6, <5>1, <5>2
      <4>6. ASSUME NEW p \in Identity, Kick(s, p)  PROVE t.stage # "entered" /\ t.kind # "sweep"
        <5> DEFINE u == [Job("kick", "checked", s) EXCEPT !.to = p]
        <5>1. u.stage # "entered" /\ u.kind # "sweep"
          BY JobFields
        <5>2. tasks' \subseteq tasks \cup {u}
          BY <4>6 DEF Kick
        <5> HIDE DEF u
        <5> QED  BY <3>6, <5>1, <5>2
      <4>7. ~Disconnect(s) /\ ~StartLive(s) /\ ~EndLive(s)
        BY <2>3 DEF Disconnect, StartLive, EndLive, MasterAsks
      <4> QED  BY <3>8, <4>1, <4>2, <4>3, <4>4, <4>5, <4>6, <4>7
    <3>9. CASE \E v \in tasks : TaskStep(v)
      <4>1. PICK v \in tasks : TaskStep(v)
        BY <3>9
      <4>2. t.kind = v.kind /\ t.stage \in {"admitted", "drawing", "drawn", "passing",
                                            "passed", "refused", "done"}
        BY <3>1, <4>1
      <4> QED  BY <4>2
    <3> QED  BY <1>2, <3>2, <3>3, <3>4, <3>5, <3>7, <3>8, <3>9 DEF Next, Server
  <2> QED  BY <2>2, <2>3
<1> QED  BY <1>1, <1>2

Undoes ==
    \/ \E p \in Identity : db.member[p] = "kicked" /\ db'.member[p] # "kicked"
    \/ Swept /\ db.open /\ ~db'.open /\ mem.inside # {}

LEMMA NextUndoes ==
    ASSUME MInv, Asleep, [Next]_vars
    PROVE  ~Undoes
<1>1. CASE UNCHANGED vars
  BY <1>1 DEF vars, Undoes
<1>2. CASE SameRoom \/ Idles
  BY <1>2 DEF SameRoom, Undoes, Idles, MInv, TypeOK, Database
<1>3. ASSUME NEW p \in Identity, Suspend(p)  PROVE ~Undoes
  <2>1. db'.open = db.open /\ \A q \in Identity : db.member[q] = "kicked" => db'.member[q] = "kicked"
    BY <1>3 DEF Suspend, MInv, TypeOK, Database
  <2> QED  BY <2>1 DEF Undoes
<1>4. ASSUME NEW t \in tasks, Writes(t), Next  PROVE ~Undoes
  <2>1. ASSUME Swept, db.open, ~db'.open  PROVE mem.inside = {}
    <3>1. PICK v \in tasks : v.kind = "sweep" /\ v \notin tasks'
      BY <2>1 DEF Swept
    <3>2. v = t
      BY <1>4, <3>1 DEF Writes, JoinAdmit, JoinEntered, KickWrite, LeaveRoomWrite, CloseWrite,
         SweepWrite, TakeOverWrite, Finish, Goes, Become
    <3> QED  BY <1>4, <2>1, <3>1, <3>2, WritesSay DEF Asleep
  <2>2. \A p \in Identity : db.member[p] = "kicked" => db'.member[p] = "kicked"
    BY <1>4, WritesSay
  <2> QED  BY <2>1, <2>2 DEF Undoes
<1> QED  BY <1>1, <1>2, <1>3, <1>4, Quiet

LEMMA InitAsleep == Init => Asleep
BY DEF Init, Asleep

(* A kick is for good: neither joining again, nor leaving, nor signing in  *)
(* from inside the Room gets them back in; and the sweep never closes a    *)
(* Room on anyone who entered it while it was deciding, whatever else is   *)
(* half-way (rooms.service.ts join, takeOver, closeAbandoned).             *)
THEOREM KicksLast == Spec => NeverUndone
<1>1. Init => MInv /\ Asleep
  BY InitKnows, InitAsleep
<1>2. MInv /\ Asleep /\ [Next]_vars => (MInv /\ Asleep)'
  <2>1. MInv /\ Asleep /\ UNCHANGED vars => Asleep'
    BY DEF vars, Asleep
  <2> QED  BY <2>1, NextKnows, NextAsleep
<1>3. MInv /\ Asleep /\ [Next]_vars => [~Undoes]_vars
  BY NextUndoes
<1>4. [~Undoes]_vars =>
        [/\ \A p \in Identity : db.member[p] = "kicked" => db'.member[p] = "kicked"
         /\ Swept /\ db.open /\ ~db'.open => mem.inside = {}]_vars
  BY DEF Undoes
<1> QED  BY <1>1, <1>2, <1>3, <1>4, PTL DEF Spec, NeverUndone

LEMMA NextBelongs ==
    ASSUME MInv, Belongs, Next
    PROVE  Belongs'
<1> SUFFICES ASSUME NEW s \in mem'.inside \ strays', ~Entitled(db', s[1])
             PROVE  \E t \in tasks' : PutsOut(t, s[1])
  BY DEF Belongs, Entitled
<1>1. mem \in Memory /\ db \in Database /\ mem' \in Memory /\ \A t \in tasks : Sound(t)
  BY NextKnows DEF MInv, TypeOK
<1>2. s \in mem.inside \ strays /\ s[1] \in Identity
  <2>1. strays' = Strays
    BY NextNoted, NotedSays
  <2> QED  BY <1>1, <2>1 DEF Strays, Memory, Socket
<1>3. CASE Entitled(db, s[1])
  <2>1. ~SameRoom
    BY <1>3 DEF SameRoom, Entitled
  <2>2. ~Idles
    BY <1>1, <1>3 DEF Idles, Entitled, Database
  <2>3. ASSUME NEW p \in Identity, Suspend(p)  PROVE \E t \in tasks' : PutsOut(t, s[1])
    <3> DEFINE u == [Job("suspend", "done", NoSocket) EXCEPT !.to = p, !.flag = (db.master = p)]
    <3>1. u \in tasks' /\ PutsOut(u, p)
      BY <2>3 DEF Suspend, Job, PutsOut
    <3>2. db'.open = db.open /\ db'.ended = db.ended /\ \A q \in Identity : q # p => db'.member[q] = db.member[q]
      BY <1>1, <2>3 DEF Suspend, Database
    <3> QED  BY <1>2, <1>3, <3>1, <3>2 DEF Entitled
  <2>4. ASSUME NEW t \in tasks, Writes(t)  PROVE \E u \in tasks' : PutsOut(u, s[1])
    BY <1>2, <1>3, <2>4, WritesSay
  <2> QED  BY <2>1, <2>2, <2>3, <2>4, Quiet
<1>4. ASSUME NEW t \in tasks, PutsOut(t, s[1]), t \notin tasks'  PROVE FALSE
  <2>1. t.stage = "done" /\ mem' # Empty /\ TaskStep(t)
    BY <1>4, OthersStay, EmptyTyped DEF PutsOut
  <2>2. ASSUME NEW p, Less(Evict(mem, p), mem')  PROVE s[1] # p
    <3>1. s \in Evict(mem, p).inside /\ Evict(mem, p).inside = mem.inside \ {x \in mem.inside : x[1] = p}
      BY <1>1, <2>2, WithoutLess DEF Evict, Less
    <3> QED  BY <3>1
  <2>3. CASE t.kind \in {"kick", "leaveRoom", "suspend"}
    <3> DEFINE out == Evict(mem, t.to)
    <3>1. mem' \in {out, MasterAway(out), NoMaster(Watch(out)), Watch(out)}
      BY <2>1, <2>3 DEF TaskStep, JoinAdmit, JoinEntered, JoinEnter, SnapshotRead,
         SnapshotAnswer, PassTake, PassDone, ExitDone, KickWrite, KickDone, LeaveRoomWrite,
         LeaveRoomDone, SuspendDone, CloseWrite, CloseDone, TakeOverWrite, TakeOverDone,
         SweepWrite, At
    <3>2. out \in Memory
      BY <1>1, OutsLess DEF Less
    <3> HIDE DEF out
    <3>3. /\ Same(out, out) /\ Same(out, MasterAway(out)) /\ Same(out, Watch(out))
          /\ Watch(out) \in Memory
      BY <3>2, TimersSame DEF Same
    <3>4. Same(Watch(out), NoMaster(Watch(out)))
      BY <3>3, TimersSame
    <3>5. Less(out, mem')
      BY <3>1, <3>3, <3>4 DEF Same, Less
    <3> QED  BY <1>4, <2>2, <2>3, <3>5 DEF PutsOut, out
  <2>4. CASE t.kind = "takeOver"
    <3> DEFINE out == Evict(mem, t.saw)
    <3>1. mem' \in {out, MasterChanged(out, t.to)} /\ t.to \in Identity
      BY <1>1, <2>1, <2>4 DEF Sound, TaskStep, JoinAdmit, JoinEntered, JoinEnter, SnapshotRead,
         SnapshotAnswer, PassTake, PassDone, ExitDone, KickWrite, KickDone, LeaveRoomWrite,
         LeaveRoomDone, SuspendDone, CloseWrite, CloseDone, TakeOverWrite, TakeOverDone,
         SweepWrite, At
    <3>2. Less(mem, out) /\ out \in Memory /\ out.inside = mem.inside \ {x \in mem.inside : x[1] = t.saw}
      BY <1>1, OutsLess, WithoutLess DEF Less, Evict
    <3> HIDE DEF out
    <3>3. mem'.inside = out.inside
      BY <3>1, <3>2, ChangedTyped
    <3> QED  BY <1>4, <2>4, <3>2, <3>3 DEF PutsOut
  <2>5. CASE t.kind \in {"close", "adminClose", "sweep"}
    <3>1. mem' = RoomClosed(mem)
      BY <2>1, <2>5 DEF TaskStep, JoinAdmit, JoinEntered, JoinEnter, SnapshotRead,
         SnapshotAnswer, PassTake, PassDone, ExitDone, KickWrite, KickDone, LeaveRoomWrite,
         LeaveRoomDone, SuspendDone, CloseWrite, CloseDone, TakeOverWrite, TakeOverDone,
         SweepWrite, At
    <3> QED  BY <1>1, <3>1, EndedTyped
  <2> QED  BY <1>4, <2>3, <2>4, <2>5 DEF PutsOut
<1> QED  BY <1>2, <1>3, <1>4 DEF Belongs

(* With nothing half-way, nobody is inside who is not a Participant of the *)
(* open Room under an identity somebody holds, unless their join was       *)
(* half-way as that ceased to be so (room.gateway.ts join, kick,           *)
(* closeRoom; rooms.service.ts takeOver).                                  *)
THEOREM NobodyWronglyInside == Spec => []NoneInsideWrongly
<1>1. Init => MInv /\ Belongs
  <2>1. ASSUME Init  PROVE Belongs
    <3>1. \A i \in DOMAIN Arrived : Arrived[i] \in Identity
      BY ArrivedAssumption
    <3> SUFFICES ASSUME NEW s \in mem.inside  PROVE Entitled(db, s[1])
      BY DEF Belongs
    <3>2. mem.inside = {<<Arrived[i], 1>> : i \in DOMAIN Arrived}
      BY <2>1 DEF Init, Empty
    <3>3. PICK i \in DOMAIN Arrived : s = <<Arrived[i], 1>>
      BY <3>2
    <3>4. /\ db.open /\ db.ended = {}
          /\ db.member = [p \in Identity |->
                            IF \E j \in DOMAIN Arrived : Arrived[j] = p THEN "in" ELSE "none"]
      BY <2>1 DEF Init
    <3> QED  BY <3>1, <3>3, <3>4 DEF Entitled
  <2> QED  BY <2>1, InitKnows
<1>2. MInv /\ Belongs /\ [Next]_vars => (MInv /\ Belongs)'
  <2>1. Belongs /\ UNCHANGED vars => Belongs'
    BY DEF vars, Belongs, Entitled
  <2> QED  BY <2>1, NextKnows, NextBelongs
<1>3. Belongs => NoneInsideWrongly
  BY DEF Belongs, NoneInsideWrongly, Idle
<1> QED  BY <1>1, <1>2, <1>3, PTL DEF Spec

-----------------------------------------------------------------------------
(* For how long the Master has been away.                                  *)

(* The timers of a Live Room, where the end of Live may be on its way.     *)
Timed(m, q) ==
    /\ m.timeout # Off => AwayIn(m)
    /\ AwayIn(m) => m.timeout # Off \/ Ending(q)
    /\ m.failover # Off <=> AwayIn(m)

Clocked == phase = "up" /\ mem.live /\ "clock" \notin late => Timed(mem, turn)

(* Live has ended in the database, and the memory is about to be told.     *)
Ended(q) == q # <<>> /\ Head(q).stage = "done" /\ Head(q).kind # "startLive"

Written ==
    "absence" \notin late /\ phase = "up" =>
        Recorded(db, mem) = mem.timeout \/ (mem.live /\ (Ending(turn) \/ Ended(turn)))

(* What was noticed of the absence in m is, in n, what will be written.    *)
Noticed(m, n) ==
    /\ n \in Memory /\ n.live = m.live
    /\ \A d : Recorded(d, m) = m.timeout => Recorded(d, n) = n.timeout

LEMMA RecordFields ==
    ASSUME NEW m \in Memory
    PROVE  /\ \A x \in Ages(Timeout) : \A d :
                LET n == RecordMasterAway([m EXCEPT !.timeout = x], x)
                IN n \in Memory /\ n.timeout = x /\ n.failover = m.failover /\ n.live = m.live
                   /\ Recorded(d, n) = x
<1> SUFFICES ASSUME NEW x \in Ages(Timeout), NEW d
             PROVE  LET n == RecordMasterAway([m EXCEPT !.timeout = x], x)
                    IN n \in Memory /\ n.timeout = x /\ n.failover = m.failover /\ n.live = m.live
                       /\ Recorded(d, n) = x
  OBVIOUS
<1> DEFINE w == Append(m.writes, x)
           n == [m EXCEPT !.timeout = x, !.writes = w]
<1>1. RecordMasterAway([m EXCEPT !.timeout = x], x) = n
  BY DEF RecordMasterAway, Memory
<1>2. w \in Seq(Ages(Timeout)) /\ w # <<>> /\ w[Len(w)] = x
  BY DEF Memory
<1> HIDE DEF w
<1>3. /\ n \in Memory /\ n.timeout = x /\ n.failover = m.failover /\ n.live = m.live
      /\ n.writes = w
  BY <1>2 DEF Memory
<1> HIDE DEF n
<1> QED  BY <1>1, <1>2, <1>3 DEF Recorded

LEMMA TimerFields ==
    ASSUME NEW m \in Memory
    PROVE  /\ Watch(m).failover # Off /\ Watch(m).timeout = m.timeout
           /\ StopFailover(m).failover = Off /\ StopFailover(m).timeout = m.timeout
           /\ NoMaster(m).timeout # Off /\ NoMaster(m).failover = m.failover
           /\ MasterBack(m).timeout = Off /\ MasterBack(m).failover = m.failover
           /\ Noticed(m, m) /\ Noticed(m, Watch(m)) /\ Noticed(m, StopFailover(m))
           /\ Noticed(m, NoMaster(m)) /\ Noticed(m, MasterBack(m))
<1>1. /\ 0 \in Ages(Timeout) /\ Off \in Ages(Timeout) /\ Never = Off /\ Off # 0
      /\ 0 \in Ages(Grace + 1) /\ Off \in Ages(Grace + 1)
  BY TimeAssumption DEF Ages, Off, Never
<1>2. Noticed(m, m)
  BY DEF Noticed
<1>3. ASSUME NEW x \in Ages(Grace + 1)
      PROVE  LET n == [m EXCEPT !.failover = x]
             IN n.failover = x /\ n.timeout = m.timeout /\ Noticed(m, n)
  <2> DEFINE n == [m EXCEPT !.failover = x]
  <2>1. /\ n \in Memory /\ n.failover = x /\ n.timeout = m.timeout /\ n.live = m.live
        /\ n.writes = m.writes
    BY DEF Memory
  <2> HIDE DEF n
  <2>2. Noticed(m, n)
    BY <2>1 DEF Noticed, Recorded
  <2> QED  BY <2>1, <2>2 DEF n
<1>4. /\ Watch(m).failover # Off /\ Watch(m).timeout = m.timeout /\ Noticed(m, Watch(m))
  BY <1>1, <1>2, <1>3 DEF Watch
<1>5. /\ StopFailover(m).failover = Off /\ StopFailover(m).timeout = m.timeout
      /\ Noticed(m, StopFailover(m))
  BY <1>1, <1>3 DEF StopFailover
<1>6. NoMaster(m).timeout # Off /\ NoMaster(m).failover = m.failover /\ Noticed(m, NoMaster(m))
  BY <1>1, <1>2, RecordFields DEF NoMaster, Noticed
<1>7. MasterBack(m).timeout = Off /\ MasterBack(m).failover = m.failover /\ Noticed(m, MasterBack(m))
  BY <1>1, <1>2, RecordFields DEF MasterBack, Noticed
<1> QED  BY <1>2, <1>4, <1>5, <1>6, <1>7

LEMMA AwayFields ==
    ASSUME NEW m \in Memory
    PROVE  /\ Noticed(m, MasterAway(m))
           /\ phase # "stopping" /\ m.live =>
                MasterAway(m).timeout # Off /\ MasterAway(m).failover # Off
<1>1. Noticed(m, m) /\ Noticed(m, Watch(m)) /\ Watch(m).failover # Off /\ Watch(m) \in Memory
  BY TimerFields DEF Noticed
<1>2. /\ Noticed(Watch(m), NoMaster(Watch(m))) /\ NoMaster(Watch(m)).timeout # Off
      /\ NoMaster(Watch(m)).failover # Off
  BY <1>1, TimerFields
<1> QED  BY <1>1, <1>2 DEF MasterAway, Noticed

LEMMA WithoutFields ==
    ASSUME NEW m \in Memory, NEW gone
    PROVE  LET n == Without(m, gone)
           IN /\ n.timeout = m.timeout /\ n.failover = m.failover /\ Noticed(m, n)
              /\ n.inside = m.inside \ gone /\ n.master = IF n.inside = {} THEN NoOne ELSE m.master
<1> DEFINE left == m.inside \ gone
           named == IF left = {} THEN NoOne ELSE m.master
           n == [m EXCEPT !.inside = left, !.master = named]
<1>1. Without(m, gone) = n
  BY DEF Without
<1>2. left \in SUBSET Socket /\ named \in Identity \cup {NoOne}
  BY DEF Memory
<1> HIDE DEF left, named
<1>3. /\ n \in Memory /\ n.inside = left /\ n.master = named /\ n.live = m.live
      /\ n.timeout = m.timeout /\ n.failover = m.failover /\ n.writes = m.writes
  BY <1>2 DEF Memory
<1> HIDE DEF n
<1>4. Noticed(m, n)
  BY <1>3 DEF Noticed, Recorded
<1> QED  BY <1>1, <1>3, <1>4 DEF left, named

(* Whoever goes, the Master is as far away as before while a socket of     *)
(* theirs stays.                                                           *)
LEMMA AwayWithout ==
    ASSUME NEW m \in Memory, NEW gone,
           m.master \in Present(m) => \E x \in m.inside \ gone : x[1] = m.master
    PROVE  AwayIn(Without(m, gone)) <=> AwayIn(m)
<1> DEFINE n == Without(m, gone)
<1>1. n.inside = m.inside \ gone /\ n.master = IF n.inside = {} THEN NoOne ELSE m.master
  BY WithoutFields
<1> HIDE DEF n
<1>2. CASE m.master \in Present(m)
  BY <1>1, <1>2 DEF AwayIn, Present, n
<1>3. CASE m.master \notin Present(m)
  BY <1>1, <1>3 DEF AwayIn, Present, n
<1> QED  BY <1>2, <1>3

LEMMA GoneWithout ==
    ASSUME NEW m \in Memory, NEW gone, \A x \in m.inside \ gone : x[1] # m.master
    PROVE  AwayIn(Without(m, gone))
<1> DEFINE n == Without(m, gone)
<1>1. n.inside = m.inside \ gone /\ n.master = IF n.inside = {} THEN NoOne ELSE m.master
  BY WithoutFields
<1> HIDE DEF n
<1> QED  BY <1>1 DEF AwayIn, Present, n

LEMMA SameAway ==
    ASSUME NEW m, NEW n, Same(m, n)
    PROVE  AwayIn(n) <=> AwayIn(m)
BY DEF Same, AwayIn, Present

(* Once the Master is told away, or is known not to be, the timers are     *)
(* right.                                                                  *)
LEMMA ToldAway ==
    ASSUME NEW m \in Memory, AwayIn(m), phase = "up"
    PROVE  ~Odd(MasterAway(m)) /\ Noticed(m, MasterAway(m))
<1>1. Same(m, MasterAway(m)) /\ (AwayIn(MasterAway(m)) <=> AwayIn(m))
  BY TimersSame, SameAway
<1> QED  BY <1>1, AwayFields DEF Odd, Same

LEMMA ToldBack ==
    ASSUME NEW m \in Memory, ~AwayIn(m)
    PROVE  LET n == MasterBack(StopFailover(m)) IN ~Odd(n) /\ Noticed(m, n)
<1> DEFINE o == StopFailover(m)
           n == MasterBack(o)
<1>1. Same(m, o) /\ o \in Memory /\ Noticed(m, o) /\ o.failover = Off
  BY TimersSame, TimerFields DEF Same
<1> HIDE DEF o
<1>2. Same(o, n) /\ Noticed(o, n) /\ n.failover = Off /\ n.timeout = Off
  BY <1>1, TimersSame, TimerFields
<1> HIDE DEF n
<1>3. AwayIn(n) <=> AwayIn(m)
  BY <1>1, <1>2, SameAway
<1>4. ~Odd(n) /\ Noticed(m, n)
  <2>1. ~AwayIn(n)
    BY <1>3
  <2>2. ~Odd(n)
    BY <1>2, <2>1 DEF Odd, AwayIn
  <2> QED  BY <1>1, <1>2, <2>2 DEF Noticed
<1> QED  BY <1>4 DEF o, n

LEMMA Changed ==
    ASSUME NEW m \in Memory, NEW to \in Identity, phase = "up"
    PROVE  ~Odd(MasterChanged(m, to)) /\ Noticed(m, MasterChanged(m, to))
<1> DEFINE name == IF m.inside = {} THEN NoOne ELSE to
           named == [m EXCEPT !.master = name]
           moved == StopFailover(named)
<1>1. name \in Identity \cup {NoOne}
  OBVIOUS
<1>2. /\ named \in Memory /\ named.inside = m.inside /\ named.live = m.live /\ named.master = name
      /\ named.timeout = m.timeout /\ named.writes = m.writes
  <2> HIDE DEF name
  <2> QED  BY <1>1 DEF Memory
<1>3. Noticed(m, named)
  <2> HIDE DEF named
  <2> QED  BY <1>2 DEF Noticed, Recorded
<1>4. MasterChanged(m, to) = IF to \in Present(m) THEN MasterBack(moved) ELSE MasterAway(moved)
  BY DEF MasterChanged
<1>5. Present(named) = Present(m)
  BY <1>2 DEF Present
<1> HIDE DEF named
<1>6. CASE to \in Present(m)
  <2>1. name = to
    BY <1>6 DEF Present
  <2>2. ~AwayIn(named)
    BY <1>2, <1>5, <1>6, <2>1 DEF AwayIn
  <2> QED  BY <1>2, <1>3, <1>4, <1>6, <2>2, ToldBack DEF Noticed
<1>7. CASE to \notin Present(m)
  <2>1. AwayIn(named)
    BY <1>2, <1>5, <1>7 DEF AwayIn, Present
  <2>2. Same(named, moved) /\ moved \in Memory /\ Noticed(named, moved)
    BY <1>2, TimersSame, TimerFields DEF Same
  <2> HIDE DEF moved, name
  <2>3. AwayIn(moved)
    BY <2>1, <2>2, SameAway
  <2> QED  BY <1>3, <1>4, <1>7, <2>2, <2>3, ToldAway DEF Noticed
<1> QED  BY <1>6, <1>7

(* Whoever leaves: their socket, or all of them but the Master's.          *)
LEMMA LeaveTimed ==
    ASSUME NEW m \in Memory, NEW s, phase = "up"
    PROVE  LET n == Leave(m, s)
           IN /\ Noticed(m, n)
              /\ \/ ~Odd(n)
                 \/ n.timeout = m.timeout /\ n.failover = m.failover /\ (AwayIn(n) <=> AwayIn(m))
<1> DEFINE out == Without(m, {s})
           n == Leave(m, s)
<1>1. /\ out \in Memory /\ Noticed(m, out) /\ out.timeout = m.timeout
      /\ out.failover = m.failover /\ out.inside = m.inside \ {s}
  BY WithoutFields DEF Noticed
<1>2. CASE s \in m.inside /\ s[1] = m.master /\ s[1] \notin Present(out)
  <2>1. AwayIn(out)
    <3>1. \A x \in m.inside \ {s} : x[1] # m.master
      BY <1>1, <1>2 DEF Present
    <3> QED  BY <3>1, GoneWithout
  <2>2. n = MasterAway(out)
    BY <1>2 DEF Leave
  <2> HIDE DEF out, n
  <2> QED  BY <1>1, <2>1, <2>2, ToldAway DEF Noticed, n
<1>3. CASE ~(s \in m.inside /\ s[1] = m.master /\ s[1] \notin Present(out))
  <2>1. m.master \in Present(m) => \E x \in m.inside \ {s} : x[1] = m.master
    BY <1>1, <1>3 DEF Present
  <2>2. AwayIn(out) <=> AwayIn(m)
    BY <2>1, AwayWithout
  <2>3. n = out
    BY <1>3 DEF Leave
  <2> HIDE DEF out, n
  <2> QED  BY <1>1, <2>2, <2>3 DEF n
<1> QED  BY <1>2, <1>3

LEMMA LeaveRoomTimed ==
    ASSUME NEW m \in Memory, NEW p \in Identity, phase = "up",
           NEW n, n = IF m.master = p THEN MasterAway(Evict(m, p)) ELSE Evict(m, p)
    PROVE  /\ Noticed(m, n)
           /\ \/ ~Odd(n)
              \/ n.timeout = m.timeout /\ n.failover = m.failover /\ (AwayIn(n) <=> AwayIn(m))
<1> DEFINE gone == {s \in m.inside : s[1] = p}
           out == Without(m, gone)
<1>1. Evict(m, p) = out
  BY DEF Evict
<1>2. /\ out \in Memory /\ Noticed(m, out) /\ out.timeout = m.timeout
      /\ out.failover = m.failover
  BY WithoutFields DEF Noticed
<1>3. CASE m.master = p
  <2>1. AwayIn(out)
    BY <1>3, GoneWithout
  <2> HIDE DEF out
  <2> QED  BY <1>1, <1>2, <1>3, <2>1, ToldAway DEF Noticed
<1>4. CASE m.master # p
  <2>1. m.master \in Present(m) => \E x \in m.inside \ gone : x[1] = m.master
    BY <1>4 DEF Present
  <2>2. AwayIn(out) <=> AwayIn(m)
    BY <2>1, AwayWithout
  <2> HIDE DEF out
  <2> QED  BY <1>1, <1>2, <1>4, <2>2
<1> QED  BY <1>3, <1>4

-----------------------------------------------------------------------------
(* What a step needs to keep Clocked, and Written.                         *)

(* The end of Live is on its way, or has just been written.                *)
Owed(q) == Ending(q) \/ Ended(q)

ClockStep == ~Odd(mem') \/ Unlooked \/ (Timed(mem, turn) => Timed(mem', turn'))

WriteStep ==
    mem'.live /\ (Recorded(db, mem) = mem.timeout \/ Owed(turn)) =>
        Recorded(db', mem') = mem'.timeout \/ Owed(turn')

LEMMA StepTimed ==
    ASSUME Noted, Clocked, Written, ClockStep, WriteStep, phase = "up"
    PROVE  Clocked' /\ Written'
<1>1. Clocked'
  <2> SUFFICES ASSUME mem'.live, "clock" \notin late'  PROVE Timed(mem', turn')
    BY DEF Clocked
  <2>1. ~Odd(mem') \/ ("clock" \notin late /\ ~Unlooked)
    BY NotedSays DEF ClockStray
  <2>2. CASE ~Odd(mem')
    BY <2>2 DEF Odd, Timed, AwayIn
  <2>3. CASE Odd(mem') /\ "clock" \notin late /\ ~Unlooked
    <3>1. mem.live
      BY <2>3 DEF Unlooked
    <3> QED  BY <2>3, <3>1 DEF Clocked, ClockStep
  <2> QED  BY <2>1, <2>2, <2>3
<1>2. Written'
  <2> SUFFICES ASSUME "absence" \notin late', Recorded(db', mem') # mem'.timeout
               PROVE  mem'.live /\ Owed(turn')
    BY DEF Written, Owed
  <2>1. "absence" \notin late /\ mem'.live
    BY NotedSays DEF AbsenceStray
  <2>2. Recorded(db, mem) = mem.timeout \/ Owed(turn)
    BY <2>1 DEF Written, Owed
  <2> QED  BY <2>1, <2>2 DEF WriteStep
<1> QED  BY <1>1, <1>2

(* The memory as it was.                                                   *)
AsTimed(m, n) ==
    n.timeout = m.timeout /\ n.failover = m.failover /\ (AwayIn(n) <=> AwayIn(m))

LEMMA TimedStays ==
    ASSUME NEW m, NEW n, NEW q, NEW r, AsTimed(m, n), Ending(q) => Ending(r), Timed(m, q)
    PROVE  Timed(n, r)
BY DEF AsTimed, Timed, AwayIn

LEMMA NoticedWrites ==
    ASSUME Noticed(mem, mem'), db'.awaySince = db.awaySince, Owed(turn) => Owed(turn')
    PROVE  WriteStep
<1>1. Recorded(db', mem) = Recorded(db, mem)
  BY DEF Recorded
<1> QED  BY <1>1 DEF WriteStep, Noticed

(* The memory is let be, and Live's turn too, or it is waited for.         *)
LEMMA LetBe ==
    ASSUME mem' = mem, db'.awaySince = db.awaySince,
           Ending(turn) => Ending(turn'), Ended(turn) => Ended(turn')
    PROVE  ClockStep /\ WriteStep
<1>1. AsTimed(mem, mem')
  BY DEF AsTimed, AwayIn, Present
<1>2. ClockStep
  BY <1>1, TimedStays DEF ClockStep
<1>3. Recorded(db', mem') = Recorded(db, mem)
  BY DEF Recorded
<1> QED  BY <1>2, <1>3 DEF WriteStep, Owed

LEMMA TaskAbsence ==
    ASSUME MInv, NEW t \in tasks, TaskStep(t)
    PROVE  db'.awaySince = db.awaySince /\ turn' = turn /\ phase' = phase
<1>1. db \in Database
  BY DEF MInv, TypeOK
<1>2. ASSUME \/ db' = db \/ db' = [db EXCEPT !.idle = FALSE]
             \/ \E x : db' = [db EXCEPT !.master = x] \/ db' = [db EXCEPT !.member = x]
             \/ \E x, y : db' = [db EXCEPT !.member = x, !.joined = y]
                          \/ db' = [db EXCEPT !.member = x, !.ended = y]
                          \/ db' = [db EXCEPT !.open = x, !.ended = y]
             \/ \E x, y, z, w : db' = [db EXCEPT !.member = x, !.joined = y, !.ended = z,
                                                 !.master = w]
      PROVE  db'.awaySince = db.awaySince
  BY <1>1, <1>2 DEF Database
<1>3. CASE JoinAdmit(t) \/ JoinEntered(t) \/ PassTake(t) \/ KickWrite(t) \/ LeaveRoomWrite(t)
  BY <1>1, <1>3 DEF JoinAdmit, JoinEntered, PassTake, KickWrite, LeaveRoomWrite, At, Database
<1>4. CASE CloseWrite(t) \/ SweepWrite(t)
  BY <1>2, <1>4 DEF CloseWrite, SweepWrite, Closed, At
<1>5. CASE TakeOverWrite(t)
  BY <1>2, <1>5 DEF TakeOverWrite, At
<1>6. CASE \/ JoinEnter(t) \/ SnapshotRead(t) \/ SnapshotAnswer(t) \/ PassDone(t) \/ ExitDone(t)
           \/ KickDone(t) \/ LeaveRoomDone(t) \/ SuspendDone(t) \/ CloseDone(t)
           \/ TakeOverDone(t)
  BY <1>6 DEF JoinEnter, SnapshotRead, SnapshotAnswer, PassDone, ExitDone, KickDone,
     LeaveRoomDone, SuspendDone, CloseDone, TakeOverDone, At
<1> QED  BY <1>3, <1>4, <1>5, <1>6 DEF TaskStep

LEMMA EnterTimed ==
    ASSUME MInv, NEW t \in tasks, JoinEnter(t), phase = "up"
    PROVE  ClockStep /\ WriteStep
<1> DEFINE named == IF mem.inside = {} THEN t.saw ELSE mem.master
           in == [mem EXCEPT !.inside = mem.inside \cup {t.sock}, !.master = named]
<1>1. mem \in Memory /\ Sound(t) /\ t.kind = "join" /\ t.stage = "entered" /\ turn' = turn
  BY DEF MInv, TypeOK, JoinEnter, At
<1>2. t.sock \in Socket /\ t.saw \in Identity /\ db'.awaySince = db.awaySince
  BY <1>1 DEF Sound, JoinEnter
<1>3. mem.inside \cup {t.sock} \in SUBSET Socket /\ named \in Identity \cup {NoOne}
  BY <1>1, <1>2 DEF Memory
<1>4. \/ t.sock \notin sockets /\ mem' = mem
      \/ t.sock[1] = in.master /\ mem' = MasterBack(StopFailover(in))
      \/ t.sock[1] # in.master /\ in.failover >= Grace /\ PassOnMaster(in, t)
      \/ t.sock[1] # in.master /\ mem' = in
  BY DEF JoinEnter
<1>5. /\ in \in Memory /\ in.inside = mem.inside \cup {t.sock} /\ in.master = named
      /\ in.live = mem.live /\ in.timeout = mem.timeout /\ in.failover = mem.failover
      /\ in.writes = mem.writes
  <2> HIDE DEF named
  <2> QED  BY <1>1, <1>3 DEF Memory
<1> HIDE DEF in
<1>6. Noticed(mem, in)
  BY <1>5 DEF Noticed, Recorded
<1>7. t.sock \in in.inside /\ t.sock[1] \in Present(in)
  BY <1>5 DEF Present
<1>8. t.sock[1] # in.master => (AwayIn(in) <=> mem.inside = {} \/ AwayIn(mem))
  BY <1>5 DEF AwayIn, Present
<1>9. CASE t.sock \notin sockets /\ mem' = mem
  BY <1>1, <1>2, <1>9, LetBe
<1>10. CASE t.sock[1] = in.master /\ mem' = MasterBack(StopFailover(in))
  <2>1. ~AwayIn(in)
    BY <1>7, <1>10 DEF AwayIn
  <2>2. ~Odd(mem') /\ Noticed(in, mem')
    BY <1>5, <1>10, <2>1, ToldBack
  <2>3. Noticed(mem, mem')
    BY <1>6, <2>2 DEF Noticed
  <2> QED  BY <1>1, <1>2, <2>2, <2>3, NoticedWrites DEF ClockStep
<1>11. ASSUME t.sock[1] # in.master, mem' = in  PROVE ClockStep /\ WriteStep
  <2>1. AwayIn(mem') <=> AwayIn(mem)
    BY <1>8, <1>11 DEF AwayIn, Present
  <2>2. AsTimed(mem, mem') /\ Noticed(mem, mem')
    BY <1>5, <1>6, <1>11, <2>1 DEF AsTimed
  <2>3. Timed(mem, turn) => Timed(mem', turn')
    BY <1>1, <2>2, TimedStays
  <2> QED  BY <1>1, <1>2, <2>2, <2>3, NoticedWrites DEF ClockStep
<1>12. CASE t.sock[1] # in.master /\ in.failover >= Grace /\ PassOnMaster(in, t)
  <2>1. CASE in.master \in Present(in)
    <3>1. mem' = StopFailover(in)
      BY <1>12, <2>1 DEF PassOnMaster
    <3>2. Noticed(in, mem')
      BY <1>5, <3>1, TimerFields
    <3>3. Noticed(mem, mem')
      BY <1>6, <3>2 DEF Noticed
    <3>4. ~AwayIn(mem)
      BY <1>8, <1>12, <2>1 DEF AwayIn
    <3>5. ~Timed(mem, turn)
      BY <1>5, <1>12, <3>4, TimeAssumption DEF Timed, Off
    <3> QED  BY <1>1, <1>2, <3>3, <3>5, NoticedWrites DEF ClockStep
  <2>2. CASE in.master \notin Present(in)
    BY <1>12, <1>11, <2>2 DEF PassOnMaster
  <2> QED  BY <2>1, <2>2
<1> QED  BY <1>4, <1>9, <1>10, <1>12, <1>11

LEMMA TaskTimed ==
    ASSUME MInv, NEW t \in tasks, TaskStep(t), phase = "up"
    PROVE  ClockStep /\ WriteStep
<1>1. mem \in Memory /\ Sound(t) /\ t \in Task
  BY DEF MInv, TypeOK
<1>2. db'.awaySince = db.awaySince /\ turn' = turn
  BY TaskAbsence
<1>3. (Ending(turn) => Ending(turn')) /\ (Ended(turn) => Ended(turn')) /\ (Owed(turn) => Owed(turn'))
  BY <1>2
(* Nothing is told, or all that was to be.                                 *)
<1>4. ASSUME AsTimed(mem, mem'), Noticed(mem, mem')  PROVE ClockStep /\ WriteStep
  <2>1. Timed(mem, turn) => Timed(mem', turn')
    BY <1>3, <1>4, TimedStays
  <2> QED  BY <1>2, <1>3, <1>4, <2>1, NoticedWrites DEF ClockStep
<1>5. ASSUME ~Odd(mem') \/ Unlooked, Noticed(mem, mem')  PROVE ClockStep /\ WriteStep
  BY <1>2, <1>3, <1>5, NoticedWrites DEF ClockStep
<1>6. CASE \/ JoinAdmit(t) \/ JoinEntered(t) \/ SnapshotRead(t) \/ PassTake(t) \/ KickWrite(t)
           \/ LeaveRoomWrite(t) \/ CloseWrite(t) \/ TakeOverWrite(t) \/ SweepWrite(t)
  <2>1. mem' = mem
    BY <1>6 DEF JoinAdmit, JoinEntered, SnapshotRead, PassTake, KickWrite, LeaveRoomWrite,
       CloseWrite, TakeOverWrite, SweepWrite
  <2> QED  BY <1>2, <1>3, <2>1, LetBe
<1>7. CASE SnapshotAnswer(t)
  <2>1. mem' = [mem EXCEPT !.live = t.flag]
    BY <1>7 DEF SnapshotAnswer
  <2>2. /\ mem'.inside = mem.inside /\ mem'.master = mem.master /\ mem'.timeout = mem.timeout
        /\ mem'.failover = mem.failover /\ mem'.writes = mem.writes
    BY <1>1, <2>1 DEF Memory
  <2>3. AsTimed(mem, mem')
    BY <2>2 DEF AsTimed, AwayIn, Present
  <2>4. ClockStep
    BY <1>3, <2>3, TimedStays DEF ClockStep
  <2>5. Recorded(db', mem') = Recorded(db, mem)
    BY <1>2, <2>2 DEF Recorded
  <2> QED  BY <1>3, <2>2, <2>4, <2>5 DEF WriteStep
<1>8. CASE PassDone(t)
  <2>1. CASE t.stage = "passed"
    <3>1. t.to \in Identity /\ mem' = MasterChanged(mem, t.to)
      BY <1>1, <1>8, <2>1 DEF PassDone, At, Sound
    <3> QED  BY <1>1, <1>5, <3>1, Changed
  <2>2. CASE t.stage = "refused"
    <3>1. mem' = StopFailover(mem)
      BY <1>8, <2>2 DEF PassDone, At
    <3>2. t \notin tasks'
      <4>1. [t EXCEPT !.stage = "drawing"].stage = "drawing"
        BY <1>1 DEF Task
      <4> QED  BY <1>8, <2>2, <4>1 DEF PassDone, Proceed, Goes, Become, Finish
    <3>3. Unlooked
      BY <2>2, <3>2 DEF Unlooked
    <3> QED  BY <1>1, <1>5, <3>1, <3>3, TimerFields
  <2> QED  BY <1>8, <2>1, <2>2 DEF PassDone, At
<1>9. CASE ExitDone(t)
  <2>1. mem' = Leave(mem, t.sock)
    BY <1>9 DEF ExitDone
  <2> QED  BY <1>1, <1>4, <1>5, <2>1, LeaveTimed DEF AsTimed
<1>10. CASE LeaveRoomDone(t)
  <2>1. /\ mem' = IF mem.master = t.to THEN MasterAway(Evict(mem, t.to)) ELSE Evict(mem, t.to)
        /\ t.to \in Identity
    BY <1>1, <1>10 DEF LeaveRoomDone, At, Sound
  <2> QED  BY <1>1, <1>4, <1>5, <2>1, LeaveRoomTimed DEF AsTimed
<1>11. CASE KickDone(t) \/ SuspendDone(t) \/ TakeOverDone(t)
  <2>1. t \in tasks \ tasks' /\ t.kind \in {"kick", "suspend", "takeOver"} /\ t.stage = "done"
    BY <1>11 DEF KickDone, SuspendDone, TakeOverDone, At, Finish
  <2>2. Unlooked
    BY <2>1 DEF Unlooked
  <2>3. \A p : Noticed(mem, Evict(mem, p)) /\ Evict(mem, p) \in Memory
    BY <1>1, WithoutFields DEF Evict, Noticed
  <2>4. CASE KickDone(t) \/ SuspendDone(t)
    <3> DEFINE out == Evict(mem, t.to)
    <3>1. mem' \in {out, Watch(out), NoMaster(Watch(out))}
      BY <2>4 DEF KickDone, SuspendDone
    <3>2. Noticed(mem, out) /\ out \in Memory
      BY <2>3
    <3> HIDE DEF out
    <3>3. Noticed(out, Watch(out)) /\ Watch(out) \in Memory
      BY <3>2, TimerFields DEF Noticed
    <3>4. Noticed(Watch(out), NoMaster(Watch(out)))
      BY <3>3, TimerFields
    <3>5. Noticed(mem, mem')
      BY <3>1, <3>2, <3>3, <3>4 DEF Noticed
    <3> QED  BY <1>5, <2>2, <3>5
  <2>5. CASE TakeOverDone(t)
    <3> DEFINE out == Evict(mem, t.saw)
    <3>1. mem' \in {out, MasterChanged(out, t.to)} /\ t.to \in Identity
      BY <1>1, <2>1, <2>5 DEF TakeOverDone, At, Sound
    <3>2. Noticed(mem, out) /\ out \in Memory
      BY <2>3
    <3> HIDE DEF out
    <3>3. Noticed(out, MasterChanged(out, t.to))
      BY <3>1, <3>2, Changed
    <3>4. Noticed(mem, mem')
      BY <3>1, <3>2, <3>3 DEF Noticed
    <3> QED  BY <1>5, <2>2, <3>4
  <2> QED  BY <1>11, <2>4, <2>5
<1>12. CASE CloseDone(t)
  <2>1. ~mem'.live
    <3>1. mem' = RoomClosed(mem) /\ LiveEnded(mem) \in Memory /\ LiveEnded(mem).live = FALSE
      BY <1>1, <1>12, EndedTyped DEF CloseDone
    <3> QED  BY <3>1, WithoutLess DEF RoomClosed, Less
  <2> QED  BY <2>1 DEF ClockStep, Odd, WriteStep
<1>13. CASE JoinEnter(t)
  BY <1>13, EnterTimed
<1> QED  BY <1>6, <1>7, <1>8, <1>9, <1>10, <1>11, <1>12, <1>13 DEF TaskStep

LEMMA TurnTimed ==
    ASSUME MInv, TurnStep
    PROVE  ClockStep /\ WriteStep
<1> DEFINE head == Head(turn)
<1>1. mem \in Memory /\ db \in Database /\ turn \in Seq(Turn) /\ Ordered(turn)
  BY DEF MInv, TypeOK, HeadKnows, Ordered
<1>2. turn # <<>>
  BY DEF TurnStep, TurnCheck, TurnWrite, LiveStarted, LiveStopped, LiveMissed, Next1
<1>3. /\ Ending(turn) => Ending(Tail(turn)) \/ head.kind = "autoEnd"
      /\ head.stage = "waiting" => head.kind # "autoEnd"
      /\ \A stage \in {"checked", "done", "missed"} :
           LET q == [turn EXCEPT ![1].stage = stage]
           IN /\ q # <<>> /\ Head(q).stage = stage /\ Head(q).kind = head.kind
              /\ Ending(turn) => Ending(q)
  BY <1>1, <1>2, Heads
<1>4. Ended(turn) <=> head.stage = "done" /\ head.kind # "startLive"
  BY <1>2 DEF Ended
<1> HIDE DEF head
<1>5. CASE TurnCheck
  <2>1. /\ head.stage = "waiting" /\ mem' = mem /\ db' = db
        /\ turn' \in {Tail(turn), [turn EXCEPT ![1].stage = "checked"]}
    BY <1>5 DEF TurnCheck, Next1, TurnGoes, head
  <2>2. (Ending(turn) => Ending(turn')) /\ ~Ended(turn)
    BY <1>3, <1>4, <2>1
  <2> QED  BY <2>1, <2>2, LetBe
<1>6. CASE TurnWrite
  <2>1. /\ head.stage = "checked" /\ mem' = mem
        /\ \/ db'.awaySince = db.awaySince
           \/ turn' = [turn EXCEPT ![1].stage = "done"] /\ head.kind # "startLive"
        /\ turn' \in {[turn EXCEPT ![1].stage = "done"], [turn EXCEPT ![1].stage = "missed"]}
    BY <1>1, <1>6 DEF TurnWrite, Next1, TurnGoes, head, Database
  <2>2. (Ending(turn) => Ending(turn')) /\ ~Ended(turn)
    BY <1>3, <1>4, <2>1
  <2>3. CASE db'.awaySince = db.awaySince
    BY <2>1, <2>2, <2>3, LetBe
  <2>4. CASE turn' = [turn EXCEPT ![1].stage = "done"] /\ head.kind # "startLive"
    <3>1. Ended(turn')
      BY <1>3, <2>4 DEF Ended
    <3>2. AsTimed(mem, mem')
      BY <2>1 DEF AsTimed, AwayIn, Present
    <3>3. ClockStep
      BY <2>2, <3>2, TimedStays DEF ClockStep
    <3> QED  BY <3>1, <3>3 DEF WriteStep, Owed
  <2> QED  BY <2>1, <2>3, <2>4
<1>7. CASE LiveStarted
  <2> DEFINE on == [mem EXCEPT !.live = TRUE]
  <2>1. /\ head.stage = "done" /\ head.kind = "startLive" /\ mem' = MasterBack(on) /\ db' = db
        /\ turn' = Tail(turn)
    BY <1>7 DEF LiveStarted, Next1, head
  <2>2. Unlooked
    BY <1>2, <2>1 DEF Unlooked, head
  <2>3. on \in Memory /\ on.timeout = mem.timeout /\ on.writes = mem.writes
    BY <1>1 DEF Memory
  <2> HIDE DEF on
  <2>4. Noticed(on, mem') /\ \A d : Recorded(d, on) = Recorded(d, mem)
    BY <2>1, <2>3, TimerFields DEF Recorded
  <2>5. Owed(turn) => Owed(turn')
    BY <1>3, <1>4, <2>1 DEF Owed
  <2>6. Recorded(db, mem) = mem.timeout => Recorded(db', mem') = mem'.timeout
    BY <2>1, <2>3, <2>4 DEF Noticed
  <2> QED  BY <2>2, <2>5, <2>6 DEF ClockStep, WriteStep
<1>8. CASE LiveStopped
  <2>1. ~mem'.live
    BY <1>1, <1>8, EndedTyped DEF LiveStopped
  <2> QED  BY <2>1 DEF ClockStep, Odd, WriteStep
<1>9. CASE LiveMissed
  <2>1. /\ head.stage = "missed" /\ db' = db /\ turn' = Tail(turn)
        /\ IF head.kind = "autoEnd" THEN mem' = [mem EXCEPT !.live = FALSE] ELSE mem' = mem
    BY <1>9 DEF LiveMissed, Next1, head
  <2>2. CASE head.kind = "autoEnd"
    <3>1. ~mem'.live
      BY <1>1, <2>1, <2>2 DEF Memory
    <3> QED  BY <3>1 DEF ClockStep, Odd, WriteStep
  <2>3. CASE head.kind # "autoEnd"
    <3>1. (Ending(turn) => Ending(turn')) /\ ~Ended(turn)
      BY <1>3, <1>4, <2>1, <2>3
    <3> QED  BY <2>1, <2>3, <3>1, LetBe
  <2> QED  BY <2>2, <2>3
<1> QED  BY <1>5, <1>6, <1>7, <1>8, <1>9 DEF TurnStep

LEMMA QueuedTimed ==
    ASSUME MInv,
           EndLiveAsAdministrator \/ TimeoutFires \/ \E s \in Socket : StartLive(s) \/ EndLive(s)
    PROVE  ClockStep /\ WriteStep
<1>1. mem \in Memory /\ turn \in Seq(Turn) /\ Ordered(turn) /\ db' = db
  BY DEF MInv, TypeOK, HeadKnows, Ordered, EndLiveAsAdministrator, TimeoutFires, StartLive,
     EndLive, MasterAsks, Asks
<1>2. PICK r : /\ r \in Turn /\ r.stage \in {"waiting", "checked"} /\ turn' = Append(turn, r)
               /\ r.stage = "waiting" => r.kind # "autoEnd"
               /\ mem' = mem \/ (mem' = [mem EXCEPT !.timeout = Off] /\ r.kind = "autoEnd"
                                 /\ mem.timeout = Timeout)
  <2>1. ASSUME NEW kind \in {"startLive", "endLive", "adminEnd", "autoEnd"},
               NEW by \in Identity \cup {NoOne}, NEW stage \in {"waiting", "checked"}
        PROVE  LET r == [kind |-> kind, stage |-> stage, by |-> by]
               IN r \in Turn /\ r.stage = stage /\ r.kind = kind
    BY DEF Turn
  <2>2. \A s \in Socket : s[1] \in Identity
    BY DEF Socket
  <2>3. ASSUME NEW s \in Socket, StartLive(s) \/ EndLive(s)
        PROVE  \E r \in Turn : r.stage = "waiting" /\ r.kind # "autoEnd" /\ turn' = Append(turn, r)
                              /\ mem' = mem
    BY <2>1, <2>2, <2>3 DEF StartLive, EndLive, Queue, MasterAsks, Asks
  <2>4. CASE EndLiveAsAdministrator
    BY <2>1, <2>4 DEF EndLiveAsAdministrator, Queue
  <2>5. CASE TimeoutFires
    BY <2>1, <2>5 DEF TimeoutFires, Queue
  <2> QED  BY <2>3, <2>4, <2>5
<1>3. /\ turn' # <<>> /\ (turn # <<>> => Head(turn') = Head(turn))
      /\ Ending(turn) \/ r.kind = "autoEnd" => Ending(turn')
  BY <1>1, <1>2, Lasts
<1>4. Ended(turn) => Ended(turn')
  BY <1>3 DEF Ended
<1>5. CASE mem' = mem
  BY <1>1, <1>3, <1>4, <1>5, LetBe
<1>6. CASE mem' = [mem EXCEPT !.timeout = Off] /\ r.kind = "autoEnd" /\ mem.timeout = Timeout
  <2>1. /\ mem'.timeout = Off /\ mem'.failover = mem.failover /\ mem'.inside = mem.inside
        /\ mem'.master = mem.master
    BY <1>1, <1>6 DEF Memory
  <2>2. AwayIn(mem') <=> AwayIn(mem)
    BY <2>1 DEF AwayIn, Present
  <2>3. Ending(turn')
    BY <1>3, <1>6
  <2> QED  BY <2>1, <2>2, <2>3 DEF ClockStep, Timed, WriteStep, Owed
<1> QED  BY <1>2, <1>5, <1>6

LEMMA FiredTimed ==
    ASSUME MInv, FailoverFires
    PROVE  ClockStep /\ WriteStep
<1> DEFINE fired == [mem EXCEPT !.failover = Grace + 1]
<1>1. mem \in Memory /\ turn' = turn /\ db' = db /\ mem.failover = Grace
  BY DEF MInv, TypeOK, FailoverFires
<1>2. Grace + 1 \in Ages(Grace + 1) /\ Grace # Off /\ Grace + 1 # Off
  BY TimeAssumption DEF Ages, Off
<1>3. /\ fired \in Memory /\ fired.inside = mem.inside /\ fired.master = mem.master
      /\ fired.live = mem.live /\ fired.timeout = mem.timeout /\ fired.writes = mem.writes
      /\ fired.failover = Grace + 1
  BY <1>1, <1>2 DEF Memory
<1>4. mem' = fired \/ (fired.master \in Present(fired) /\ mem' = StopFailover(fired))
  BY DEF FailoverFires, PassOnMaster
<1> HIDE DEF fired
<1>5. AwayIn(fired) <=> AwayIn(mem)
  BY <1>3 DEF AwayIn, Present
<1>6. Noticed(mem, fired) /\ Noticed(fired, StopFailover(fired))
  <2>1. Noticed(mem, fired)
    BY <1>3 DEF Noticed, Recorded
  <2> QED  BY <1>3, <2>1, TimerFields
<1>7. Noticed(mem, mem')
  BY <1>4, <1>6 DEF Noticed
<1>8. Timed(mem, turn) => Timed(mem', turn')
  <2>1. CASE mem' = fired
    BY <1>1, <1>2, <1>3, <1>5, <2>1 DEF Timed, AwayIn
  <2>2. CASE fired.master \in Present(fired)
    <3>1. ~AwayIn(mem)
      BY <1>5, <2>2 DEF AwayIn
    <3> QED  BY <1>1, <1>2, <3>1 DEF Timed
  <2> QED  BY <1>4, <2>1, <2>2
<1> QED  BY <1>1, <1>7, <1>8, NoticedWrites DEF ClockStep

LEMMA ClockTimed ==
    ASSUME MInv, WriteLands \/ Tick \/ \E s \in Socket : phase = "up" /\ Disconnect(s)
    PROVE  ClockStep /\ WriteStep
<1>1. /\ mem \in Memory /\ db \in Database /\ turn' = turn
      /\ mem.writes \in Seq(Ages(Timeout)) /\ db.awaySince \in Ages(Timeout)
      /\ mem.timeout \in Ages(Timeout) /\ mem.failover \in Ages(Grace + 1)
  BY DEF MInv, TypeOK, Memory, Database, WriteLands, Tick, Disconnect
<1>2. (Ending(turn) => Ending(turn')) /\ (Owed(turn) => Owed(turn'))
  BY <1>1
<1>3. ASSUME NEW s \in Socket, phase = "up", Disconnect(s)  PROVE ClockStep /\ WriteStep
  <2>1. mem' = Leave(mem, s) /\ db' = db
    BY <1>3 DEF Disconnect
  <2>2. Noticed(mem, mem') /\ (~Odd(mem') \/ AsTimed(mem, mem'))
    BY <1>1, <1>3, <2>1, LeaveTimed DEF AsTimed
  <2>3. WriteStep
    BY <1>2, <2>1, <2>2, NoticedWrites
  <2> QED  BY <1>2, <2>2, <2>3, TimedStays DEF ClockStep
<1>4. CASE WriteLands
  <2> DEFINE w == mem.writes
  <2>1. /\ db' = [db EXCEPT !.awaySince = Head(w)] /\ mem' = [mem EXCEPT !.writes = Tail(w)]
        /\ w # <<>>
    BY <1>4 DEF WriteLands
  <2>2. /\ db'.awaySince = Head(w) /\ mem'.writes = Tail(w) /\ mem'.timeout = mem.timeout
        /\ mem'.failover = mem.failover /\ mem'.inside = mem.inside /\ mem'.master = mem.master
    BY <1>1, <2>1 DEF Memory, Database
  <2>3. IF Tail(w) = <<>> THEN Head(w) = w[Len(w)] ELSE Tail(w)[Len(Tail(w))] = w[Len(w)]
    <3>1. w \in Seq(Ages(Timeout)) /\ w # <<>>
      BY <1>1, <2>1
    <3> HIDE DEF w
    <3>2. Len(w) \in Nat \ {0} /\ Len(Tail(w)) = Len(w) - 1 /\ Head(w) = w[1]
          /\ \A i \in 1 .. Len(w) - 1 : Tail(w)[i] = w[i + 1]
      BY <3>1
    <3>3. CASE Len(w) = 1
      <4>1. Tail(w) \in Seq(Ages(Timeout)) /\ Len(Tail(w)) = 0
        BY <3>1, <3>2, <3>3
      <4>2. \A v \in Seq(Ages(Timeout)) : Len(v) = 0 => v = <<>>
        OBVIOUS
      <4>3. Tail(w) = <<>>
        BY <4>1, <4>2
      <4> QED  BY <3>2, <3>3, <4>3
    <3>4. CASE Len(w) # 1
      <4>1. Len(Tail(w)) # 0 /\ Len(w) - 1 \in 1 .. Len(w) - 1
        BY <3>2, <3>4
      <4>2. Tail(w) # <<>>
        BY <4>1
      <4> QED  BY <3>2, <4>1, <4>2
    <3> QED  BY <3>3, <3>4
  <2> HIDE DEF w
  <2>4. Recorded(db', mem') = Recorded(db, mem)
    BY <2>1, <2>2, <2>3 DEF Recorded, w
  <2>5. AsTimed(mem, mem')
    BY <2>2 DEF AsTimed, AwayIn, Present
  <2> QED  BY <1>2, <2>2, <2>4, <2>5, TimedStays DEF ClockStep, WriteStep
<1>5. CASE Tick
  <2>1. /\ mem' = [mem EXCEPT !.failover = Older(mem.failover, Grace),
                              !.timeout = Older(mem.timeout, Timeout)]
        /\ db' = [db EXCEPT !.awaySince = Older(db.awaySince, Timeout)]
        /\ turn = <<>> /\ mem.writes = <<>>
    BY <1>5 DEF Tick
  <2>2. /\ mem'.failover = Older(mem.failover, Grace) /\ mem'.timeout = Older(mem.timeout, Timeout)
        /\ mem'.inside = mem.inside /\ mem'.master = mem.master /\ mem'.writes = mem.writes
        /\ db'.awaySince = Older(db.awaySince, Timeout)
    BY <1>1, <2>1 DEF Memory, Database
  <2>3. \A age \in Ages(Timeout) : Older(age, Timeout) # Off <=> age # Off
    BY TimeAssumption DEF Older, Ages, Off
  <2>4. \A age \in Ages(Grace + 1) : Older(age, Grace) # Off <=> age # Off
    BY TimeAssumption DEF Older, Ages, Off
  <2>5. AwayIn(mem') <=> AwayIn(mem)
    BY <2>2 DEF AwayIn, Present
  <2>6. Timed(mem, turn) => Timed(mem', turn')
    BY <1>1, <2>2, <2>3, <2>4, <2>5 DEF Timed, AwayIn
  <2>7. ~Owed(turn)
    BY <2>1 DEF Owed, Ending, Ended
  <2>8. Recorded(db, mem) = mem.timeout => Recorded(db', mem') = mem'.timeout
    BY <2>1, <2>2 DEF Recorded
  <2> QED  BY <2>6, <2>7, <2>8 DEF ClockStep, WriteStep
<1> QED  BY <1>3, <1>4, <1>5

LEMMA RequestTimed ==
    ASSUME MInv,
           \/ Sweep \/ Idles \/ CloseAsAdministrator
           \/ \E p \in Identity :
                LeaveRoom(p) \/ Suspend(p) \/ \E q \in Identity : TakeOver(p, q)
           \/ \E s \in Socket :
                \/ Connect(s) \/ Resync(s) \/ Exit(s) \/ Close(s)
                \/ \E p \in Identity : HandOver(s, p) \/ Kick(s, p)
    PROVE  ClockStep /\ WriteStep
<1>1. db \in Database
  BY DEF MInv, TypeOK
<1>2. /\ mem' = mem /\ turn' = turn
      /\ \/ db' = db \/ db' = [db EXCEPT !.idle = TRUE]
         \/ \E p \in Identity : db' = [db EXCEPT !.member[p] = "kicked"]
  BY DEF Sweep, Idles, CloseAsAdministrator, LeaveRoom, Suspend, TakeOver, Requests, Connect,
     Resync, Exit, Close, HandOver, Kick, MasterAsks, Asks
<1>3. db'.awaySince = db.awaySince
  BY <1>1, <1>2 DEF Database
<1> QED  BY <1>2, <1>3, LetBe

(* A Room that is Live when Runout comes back has no Master connected.     *)
LEMMA RestartTimed ==
    ASSUME MInv, Noted, Restart \/ RestartBlind
    PROVE  Clocked' /\ Written'
<1>1. db \in Database /\ db' = db
  BY DEF MInv, TypeOK, Restart, RestartBlind
<1>2. CASE mem'.live
  <2> DEFINE m == [Empty EXCEPT !.live = TRUE]
             early == IF db.awaySince < Grace THEN db.awaySince ELSE Grace
  <2>1. mem' = LoadLiveRooms /\ db.open /\ db.live
    BY <1>1, <1>2, EmptyTyped, LoadsTyped DEF Restart, RestartBlind
  <2>2. m \in Memory /\ m.writes = <<>> /\ m.timeout = Off /\ m.failover = Off /\ m.inside = {}
    BY EmptyTyped DEF Empty, Memory
  <2>3. \/ db.awaySince = Never /\ mem' = NoMaster(Watch(m))
        \/ db.awaySince # Never /\ mem' = [m EXCEPT !.timeout = db.awaySince, !.failover = early]
    BY <2>1 DEF LoadLiveRooms
  <2>4. db.awaySince \in Ages(Timeout) /\ (db.awaySince # Never => early # Off)
    BY <1>1, TimeAssumption DEF Database, Ages, Off, Never
  <2>5. mem'.inside = {}
    BY <1>1, <2>1, LoadsTyped
  <2> HIDE DEF m, early
  <2>6. mem'.timeout # Off /\ mem'.failover # Off /\ Recorded(db, mem') = mem'.timeout
    <3>1. CASE db.awaySince = Never /\ mem' = NoMaster(Watch(m))
      <4>1. Watch(m) \in Memory /\ Noticed(m, Watch(m)) /\ Watch(m).failover # Off
        BY <2>2, TimerFields DEF Noticed
      <4>2. /\ NoMaster(Watch(m)).timeout # Off /\ NoMaster(Watch(m)).failover # Off
            /\ Noticed(Watch(m), NoMaster(Watch(m)))
        BY <4>1, TimerFields
      <4>3. Recorded(db, m) = m.timeout
        BY <2>2, <3>1 DEF Recorded, Never, Off
      <4> QED  BY <3>1, <4>1, <4>2, <4>3 DEF Noticed
    <3>2. CASE /\ db.awaySince # Never
               /\ mem' = [m EXCEPT !.timeout = db.awaySince, !.failover = early]
      <4>1. mem'.timeout = db.awaySince /\ mem'.failover = early /\ mem'.writes = <<>>
        BY <2>2, <3>2 DEF Memory
      <4> QED  BY <2>4, <3>2, <4>1 DEF Recorded, Never, Off
    <3> QED  BY <2>3, <3>1, <3>2
  <2>7. Timed(mem', turn')
    BY <2>5, <2>6 DEF Timed, AwayIn, Present
  <2> QED  BY <1>1, <2>6, <2>7 DEF Clocked, Written
<1>3. CASE ~mem'.live
  <2>1. "absence" \notin late' => Recorded(db', mem') = mem'.timeout
    BY <1>3, NotedSays DEF AbsenceStray
  <2> QED  BY <1>3, <2>1 DEF Clocked, Written
<1> QED  BY <1>2, <1>3

LEMMA NextTimed ==
    ASSUME MInv, Clocked, Written, Next
    PROVE  Clocked' /\ Written'
<1>1. Noted
  BY NextNoted
<1>2. CASE phase' # "up"
  BY <1>2 DEF Clocked, Written
<1>3. CASE Restart \/ RestartBlind
  BY <1>1, <1>3, RestartTimed
<1>4. CASE phase' = "up" /\ ~Restart /\ ~RestartBlind
  <2>1. ~Stop /\ ~Crash /\ ~Shutdown
    BY <1>4 DEF Stop, Crash, Shutdown, Ends
  <2>2. ASSUME NEW t \in tasks, TaskStep(t)  PROVE phase = "up" /\ ClockStep /\ WriteStep
    BY <1>4, <2>2, TaskAbsence, TaskTimed
  <2>3. CASE TurnStep
    <3>1. phase = "up"
      BY <1>4, <2>3 DEF TurnStep, TurnCheck, TurnWrite, LiveStarted, LiveStopped, LiveMissed, Next1
    <3> QED  BY <1>1, <2>3, <3>1, TurnTimed, StepTimed
  <2>4. CASE EndLiveAsAdministrator \/ TimeoutFires \/ \E s \in Socket : StartLive(s) \/ EndLive(s)
    <3>1. phase = "up"
      BY <1>4, <2>4 DEF EndLiveAsAdministrator, TimeoutFires, StartLive, EndLive, MasterAsks, Asks
    <3> QED  BY <1>1, <2>4, <3>1, QueuedTimed, StepTimed
  <2>5. CASE FailoverFires
    <3>1. phase = "up"
      BY <1>4, <2>5 DEF FailoverFires
    <3> QED  BY <1>1, <2>5, <3>1, FiredTimed, StepTimed
  <2>6. CASE WriteLands \/ Tick \/ \E s \in Socket : Disconnect(s)
    <3>1. phase = "up"
      BY <1>4, <2>6 DEF WriteLands, Tick, Disconnect
    <3> QED  BY <1>1, <2>6, <3>1, ClockTimed, StepTimed
  <2>7. CASE \/ Sweep \/ Idles \/ CloseAsAdministrator
             \/ \E p \in Identity :
                  LeaveRoom(p) \/ Suspend(p) \/ \E q \in Identity : TakeOver(p, q)
             \/ \E s \in Socket :
                  \/ Connect(s) \/ Resync(s) \/ Exit(s) \/ Close(s)
                  \/ \E p \in Identity : HandOver(s, p) \/ Kick(s, p)
    <3>1. phase = "up"
      BY <1>4, <2>7 DEF Sweep, Idles, CloseAsAdministrator, LeaveRoom, Suspend, TakeOver, Requests,
         Connect, Resync, Exit, Close, HandOver, Kick, MasterAsks, Asks
    <3> QED  BY <1>1, <2>7, <3>1, RequestTimed, StepTimed
  <2> QED  BY <1>1, <1>4, <2>1, <2>2, <2>3, <2>4, <2>5, <2>6, <2>7, StepTimed DEF Next, Server
<1> QED  BY <1>2, <1>3, <1>4

LEMMA InitTimed == Init => Clocked /\ Written
BY DEF Init, Clocked, Written, Recorded, Empty, Never, Off

(* While a Live Room has no Master connected, and only then, the 30        *)
(* minutes are running and so is, or has run out, the grace period; and    *)
(* once written, the absence in the database is the one being timed.  So   *)
(* whichever commands, connections, timers, crashes and restarts crossed,  *)
(* but where the memory was told too late, or was not told at all, that    *)
(* the Master is there or not (room.gateway.ts masterAway, masterBack,     *)
(* liveStarted, loadLiveRooms; live-timeout.ts; master-failover.ts).       *)
THEOREM AwayTimed == Spec => []AwayIsTimed
<1>1. Init => MInv /\ Clocked /\ Written
  BY InitKnows, InitTimed
<1>2. MInv /\ Clocked /\ Written /\ [Next]_vars => (MInv /\ Clocked /\ Written)'
  <2>1. Clocked /\ Written /\ UNCHANGED vars => (Clocked /\ Written)'
    BY DEF vars, Clocked, Written, Timed, Recorded, AwayIn, Present, Ending, Ended
  <2> QED  BY <2>1, NextKnows, NextTimed
<1>3. MInv /\ Clocked /\ Written => AwayIsTimed
  <2> SUFFICES ASSUME MInv, Clocked, Written  PROVE AwayIsTimed
    OBVIOUS
  <2>1. Idle => ~Ending(turn) /\ ~Ended(turn)
    BY DEF Idle, Ending, Ended
  <2>2. Idle /\ db.live /\ OnTime({"live"}) => mem.live
    BY DEF MInv, LiveKnown, Idle, OnTime, TypeOK, Database, Memory
  <2>3. GraceWhileAway
    <3> SUFFICES ASSUME Idle, Live, OnTime({"role", "live", "clock"})
                 PROVE  (mem.timeout # Off <=> Away) /\ (mem.failover # Off <=> Away)
      BY DEF GraceWhileAway
    <3>1. mem.live /\ Timed(mem, turn)
      BY <2>2 DEF Clocked, OnTime, Idle, Live
    <3>2. mem.inside # {} => mem.master = db.master
      BY DEF MInv, RoleKnown, OnTime, Idle
    <3>3. Away <=> AwayIn(mem)
      BY <3>2 DEF Away, AwayIn, Present
    <3> QED  BY <2>1, <3>1, <3>3 DEF Timed
  <2>4. AbsenceKept
    BY <2>1 DEF AbsenceKept, Written, OnTime, Idle, Recorded
  <2> QED  BY <2>3, <2>4 DEF AwayIsTimed
<1> QED  BY <1>1, <1>2, <1>3, PTL DEF Spec

=============================================================================
