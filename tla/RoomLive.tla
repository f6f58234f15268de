------------------------------ MODULE RoomLive ------------------------------
(***************************************************************************)
(* Who drives a Room, and for how long it stays Live.                      *)
(*                                                                         *)
(* The database holds whether the Room is open and Live, who its Master    *)
(* and its Participants are, and since when a Live Room has been without   *)
(* its Master.  The server's memory holds who is connected, whom it takes  *)
(* for the Master, whether it takes the Room for Live, and two timers:     *)
(* after a grace period the role passes on (master-failover.ts), after a   *)
(* longer one Live ends (live-timeout.ts).  Every command reads or writes  *)
(* the database over several awaits, and whatever other command, socket or *)
(* timer is due runs in between (room.gateway.ts).                         *)
(*                                                                         *)
(* One Room, on one server.  A step of a task is one query (the checks a   *)
(* command opens with count as one), or all the code that runs after its   *)
(* answer up to the next.  A socket is a pair of an identity and a tab.    *)
(* Time is counted in ticks, and ages stop growing where nothing tells     *)
(* them apart any more; the two weeks nobody has entered the Room for      *)
(* (room-sweep.ts) are `idle`.                                             *)
(***************************************************************************)
EXTENDS Integers, Sequences

CONSTANTS
    Identity, Tab,
    Anonymous,      \* the identities issued for this Room; the others are Accounts
    NoOne,          \* not an identity
    Arrived,        \* who is connected at first; the first of them created the Room
    Commands,       \* what may happen besides coming and going
    Grace, Timeout, \* MASTER_GRACE_MS and LIVE_WITHOUT_MASTER_MS, in ticks
    MaxEvents       \* connections, disconnections, commands and crashes: a bound

Kinds == {"startLive", "endLive", "adminEnd", "handOver", "exit", "kick", "leaveRoom",
          "suspend", "close", "adminClose", "takeOver", "sweep", "resync", "crash",
          "shutdown", "databaseAway"}

ASSUME IdentityAssumption == NoOne \notin Identity /\ Anonymous \subseteq Identity
ASSUME ArrivedAssumption  ==
    /\ Arrived \in Seq(Identity) /\ Arrived # <<>>
    /\ \A i, j \in DOMAIN Arrived : Arrived[i] = Arrived[j] => i = j
    /\ 1 \in Tab
ASSUME TimeAssumption     == Grace \in Nat \ {0} /\ Timeout \in Nat \ {0} /\ MaxEvents \in Nat
ASSUME CommandsAssumption == Commands \subseteq Kinds

VARIABLES
    db,      \* the database
    phase,   \* the server is "up", "stopping" or "down"
    sockets, \* the open sockets
    mem,     \* the server's memory
    tasks,   \* the commands half-way
    turn,    \* the tasks that run one at a time (inOrder), in their order
    events,  \* how much has happened so far
    late,    \* what was told too late and has not been put right since,
    strays   \* and the sockets that entered too late: no action reads either

vars == <<db, phase, sockets, mem, tasks, turn, events, late, strays>>

-----------------------------------------------------------------------------
Socket   == Identity \X Tab
NoSocket == <<NoOne, NoOne>>

Off   == -1   \* a timer that is not running
Never == -1   \* no absence recorded

Ages(limit) == -1 .. limit

Database == [open : BOOLEAN, live : BOOLEAN, master : Identity,
             awaySince : Ages(Timeout),
             member : [Identity -> {"none", "in", "kicked"}],
             joined : Seq(Identity),
             idle : BOOLEAN,               \* nobody has entered it since the cutoff
             ended : SUBSET Identity]      \* the identities nobody holds any more

(* `failover` stays at Grace + 1 once it has fired with nobody to take the *)
(* role; `writes` are the absences still to be written.                    *)
Memory == [inside : SUBSET Socket, master : Identity \cup {NoOne}, live : BOOLEAN,
           failover : Ages(Grace + 1), timeout : Ages(Timeout),
           writes : Seq(Ages(Timeout))]

Empty == [inside |-> {}, master |-> NoOne, live |-> FALSE,
          failover |-> Off, timeout |-> Off, writes |-> <<>>]

Task == [kind : Kinds \cup {"join", "failover"},
         stage : {"found", "admitted", "entered", "passing", "passed", "refused", "drawing",
                  "drawn", "checked", "done"},
         sock : Socket \cup {NoSocket},
         saw : Identity \cup {NoOne},  \* the Master it read
         to : Identity \cup {NoOne},   \* whom it is about
         flag : BOOLEAN]               \* what else it read

Turn == [kind : {"startLive", "endLive", "adminEnd", "autoEnd"},
         stage : {"waiting", "checked", "done", "missed"},
         by : Identity \cup {NoOne}]

Job(kind, stage, s) == [kind |-> kind, stage |-> stage, sock |-> s,
                        saw |-> NoOne, to |-> NoOne, flag |-> FALSE]

Become(t, u) == tasks' = (tasks \ {t}) \cup {u}
Goes(t, stage) == Become(t, [t EXCEPT !.stage = stage])
Finish(t)    == tasks' = tasks \ {t}

-----------------------------------------------------------------------------
(* What the gateway does to its memory between two awaits.                 *)

Present(m) == {s[1] : s \in m.inside}

Watch(m) == IF m.failover = Off THEN [m EXCEPT !.failover = 0] ELSE m
StopFailover(m) == [m EXCEPT !.failover = Off]

RecordMasterAway(m, since) == [m EXCEPT !.writes = Append(@, since)]

NoMaster(m) ==
    IF m.timeout = Off THEN RecordMasterAway([m EXCEPT !.timeout = 0], 0) ELSE m

(* Mutant: the Master is back and nothing is written.                      *)
MasterBack_Unwritten(m) == [m EXCEPT !.timeout = Off]

MasterBack(m) ==
    IF m.timeout # Off THEN RecordMasterAway([m EXCEPT !.timeout = Off], Never) ELSE m

(* Mutant: the Live timeout is not started.                                *)
MasterAway_NoTimeout(m) == IF phase = "stopping" \/ ~m.live THEN m ELSE Watch(m)

MasterAway(m) ==
    IF phase = "stopping" \/ ~m.live THEN m ELSE NoMaster(Watch(m))

(* Presence forgets a Room with nobody in it, its Master too.              *)
Without(m, gone) ==
    LET left == m.inside \ gone
    IN [m EXCEPT !.inside = left, !.master = IF left = {} THEN NoOne ELSE @]

Evict(m, p) == Without(m, {s \in m.inside : s[1] = p})

Leave(m, s) ==
    LET out == Without(m, {s})
    IN IF s \in m.inside /\ s[1] = m.master /\ s[1] \notin Present(out)
       THEN MasterAway(out) ELSE out

(* Mutant: presence is not told.                                           *)
MasterChanged_Untold(m, to) ==
    IF to \in Present(m) THEN MasterBack(StopFailover(m)) ELSE MasterAway(StopFailover(m))

MasterChanged(m, to) ==
    LET moved == StopFailover([m EXCEPT !.master = IF m.inside = {} THEN NoOne ELSE to])
    IN IF to \in Present(m) THEN MasterBack(moved) ELSE MasterAway(moved)

LiveEnded(m) == [m EXCEPT !.live = FALSE, !.timeout = Off, !.failover = Off]

RoomClosed(m) == Without(LiveEnded(m), m.inside)

(* Whoever of those present joined the Room first.                         *)
JoinedBefore(p, q) ==
    \E i \in DOMAIN db.joined :
        db.joined[i] = p /\ \A j \in 1 .. i - 1 : db.joined[j] # q
Successors(m) ==
    {p \in Present(m) : \A q \in Present(m) \ {p} : ~JoinedBefore(q, p)}

-----------------------------------------------------------------------------
(* What is said once and never again: a step that tells the memory what it *)
(* read some awaits ago, or that lets the timers be, may come after it has *)
(* ceased to hold.  `late` has it until the two agree again, and `strays`  *)
(* who entered like that, until they leave.                                *)

AwayIn(m) == m.master \notin Present(m)

(* The timers of a Live Room are not those of a Master who is away, or not. *)
Odd(m) == m.live /\ \/ (m.timeout # Off) # AwayIn(m)
                    \/ (m.failover # Off) # AwayIn(m)

(* Where the code does not look whether the Master is there: Live takes    *)
(* hold, somebody is put out, or a role that moved on stops the grace.     *)
Unlooked ==
    \/ phase = "up" /\ ~mem.live /\ mem'.live
    \/ turn # <<>> /\ turn' = Tail(turn) /\ Head(turn).kind = "startLive"
       /\ Head(turn).stage = "done"
    \/ \E t \in tasks \ tasks' : t.kind \in {"kick", "suspend", "takeOver"} /\ t.stage = "done"
    \/ \E t \in tasks : t.stage = "refused" /\ t \notin tasks'

(* The absence the database will have once the writes on their way landed. *)
Recorded(d, m) == IF m.writes = <<>> THEN d.awaySince ELSE m.writes[Len(m.writes)]

Entitled(d, p) == d.open /\ d.member[p] = "in" /\ p \notin d.ended

Strays == {s \in mem'.inside : s \in strays \/ (s \notin mem.inside /\ ~Entitled(db', s[1]))}

RoleStray ==
    /\ mem'.inside # {} /\ mem'.master # db'.master
    /\ "role" \in late \/ mem'.master # mem.master \/ mem.inside = {}

LiveStray ==
    /\ mem'.live # db'.live
    /\ "live" \in late \/ mem'.live # mem.live \/ phase' = "down"

ClockStray == Odd(mem') /\ ("clock" \in late \/ Unlooked)

AbsenceStray ==
    /\ Recorded(db', mem') # mem'.timeout
    /\ "absence" \in late \/ ~mem'.live

Noted ==
    /\ strays' = Strays
    /\ late' = (IF RoleStray THEN {"role"} ELSE {}) \cup (IF LiveStray THEN {"live"} ELSE {})
                \cup (IF ClockStray THEN {"clock"} ELSE {})
                \cup (IF AbsenceStray THEN {"absence"} ELSE {})

-----------------------------------------------------------------------------
(* A Room in Free Review with those who Arrived in it.                     *)
Init ==
    /\ db = [open |-> TRUE, live |-> FALSE, master |-> Arrived[1], awaySince |-> Never,
             member |-> [p \in Identity |->
                            IF \E i \in DOMAIN Arrived : Arrived[i] = p THEN "in" ELSE "none"],
             joined |-> Arrived, idle |-> FALSE, ended |-> {}]
    /\ phase = "up"
    /\ sockets = {<<Arrived[i], 1>> : i \in DOMAIN Arrived}
    /\ mem = [Empty EXCEPT !.inside = {<<Arrived[i], 1>> : i \in DOMAIN Arrived},
                           !.master = Arrived[1]]
    /\ tasks = {} /\ turn = <<>> /\ events = 0 /\ late = {} /\ strays = {}

Happens(kind) ==
    /\ kind \in Commands /\ phase # "down"
    /\ events < MaxEvents /\ events' = events + 1

(* A command from inside the Room, a request from outside it, and either's *)
(* continuation.                                                           *)
Asks(kind, s) == Happens(kind) /\ s \in mem.inside /\ UNCHANGED <<db, phase, sockets, mem>>
Requests(kind) == Happens(kind) /\ UNCHANGED <<phase, sockets, mem, turn>>

At(t, kinds, stage) ==
    /\ t.kind \in kinds /\ t.stage = stage
    /\ UNCHANGED <<phase, sockets, turn, events>>

Driving(p) == db.open /\ db.master = p

(* The Master's commands are only offered to whoever is shown as Master.   *)
MasterAsks(kind, s) == Asks(kind, s) /\ mem.master = s[1]

-----------------------------------------------------------------------------
(* Joining: the open Room is found, with its Master of the moment ...      *)
Connect(s) ==
    /\ phase # "down" /\ events < MaxEvents /\ events' = events + 1
    /\ s \notin sockets /\ \A t \in tasks : t.sock # s
    /\ s[1] \notin db.ended
    /\ sockets' = sockets \cup {s}
    /\ tasks' = IF db.open THEN tasks \cup {[Job("join", "found", s) EXCEPT !.saw = db.master]}
                ELSE tasks
    /\ UNCHANGED <<db, phase, mem, turn>> /\ Noted

(* Everyone joined once: the others, in their order, without p.            *)
Besides(joined, p) ==
    IF \A i \in DOMAIN joined : joined[i] # p THEN joined
    ELSE LET at == CHOOSE i \in DOMAIN joined : joined[i] = p
         IN [i \in 1 .. Len(joined) - 1 |-> IF i < at THEN joined[i] ELSE joined[i + 1]]

(* ... the membership is written, unless they were kicked ...              *)
JoinAdmit(t) ==
    /\ At(t, {"join"}, "found")
    /\ LET p == t.sock[1]
       IN IF db.member[p] = "kicked" THEN Finish(t) /\ UNCHANGED db
          ELSE /\ Goes(t, "admitted")
               /\ db' = [db EXCEPT !.member[p] = "in",
                            !.joined = IF db.member[p] = "in" THEN @
                                       ELSE Append(Besides(@, p), p)]
    /\ UNCHANGED mem /\ Noted

(* ... the Room has been entered just now ...                              *)
JoinEntered(t) ==
    /\ At(t, {"join"}, "admitted")
    /\ db' = [db EXCEPT !.idle = FALSE]
    /\ Goes(t, "entered") /\ UNCHANGED mem /\ Noted

(* passOnMaster up to its query, which the task then makes; a join goes on *)
(* to its snapshot.                                                        *)
Proceed(t) == IF t.kind = "join" THEN Goes(t, "drawing") ELSE Finish(t)

PassOnMaster(m, t) ==
    IF m.master \in Present(m) THEN mem' = StopFailover(m) /\ Proceed(t)
    ELSE /\ mem' = m
         /\ \E p \in Successors(m) :
              Become(t, [t EXCEPT !.stage = "passing", !.saw = m.master, !.to = p])

(* ... and they enter, if their socket is still there.  The first one in   *)
(* brings the Master their join found.                                     *)
JoinEnter(t) ==
    /\ At(t, {"join"}, "entered")
    /\ LET in == [mem EXCEPT !.inside = @ \cup {t.sock},
                             !.master = IF mem.inside = {} THEN t.saw ELSE @]
       IN IF t.sock \notin sockets THEN Finish(t) /\ UNCHANGED mem
          ELSE IF t.sock[1] = in.master
               THEN mem' = MasterBack(StopFailover(in)) /\ Goes(t, "drawing")
          ELSE IF in.failover >= Grace THEN PassOnMaster(in, t)
          ELSE mem' = in /\ Goes(t, "drawing")
    /\ UNCHANGED db /\ Noted

(* A snapshot reads whether the Room is Live ...                           *)
SnapshotRead(t) ==
    /\ At(t, {"join", "resync"}, "drawing")
    /\ Become(t, [t EXCEPT !.stage = "drawn", !.flag = db.live])
    /\ UNCHANGED <<db, mem>> /\ Noted

(* ... and, answered, sets what the memory says.                           *)
SnapshotAnswer(t) ==
    /\ At(t, {"join", "resync"}, "drawn")
    /\ mem' = [mem EXCEPT !.live = t.flag]
    /\ Finish(t) /\ UNCHANGED db /\ Noted

Resync(s) ==
    /\ Asks("resync", s) /\ db.open
    /\ tasks' = tasks \cup {Job("resync", "drawing", s)} /\ UNCHANGED turn /\ Noted

Disconnect(s) ==
    /\ phase # "down" /\ events < MaxEvents /\ events' = events + 1
    /\ s \in sockets
    /\ sockets' = sockets \ {s} /\ mem' = Leave(mem, s)
    /\ UNCHANGED <<db, phase, tasks, turn>> /\ Noted

-----------------------------------------------------------------------------
(* Passing the role on: the Master hands it over to a Participant, or the  *)
(* grace period runs out.                                                  *)
HandOver(s, to) ==
    /\ MasterAsks("handOver", s) /\ Driving(s[1]) /\ to # s[1] /\ db.member[to] = "in"
    /\ tasks' = tasks \cup {[Job("handOver", "passing", s) EXCEPT !.saw = s[1], !.to = to]}
    /\ UNCHANGED turn /\ Noted

FailoverFires ==
    /\ phase # "down" /\ mem.failover = Grace
    /\ LET fired == [mem EXCEPT !.failover = Grace + 1]
       IN IF mem.master = NoOne THEN mem' = fired /\ UNCHANGED tasks
          ELSE PassOnMaster(fired, Job("failover", "passing", NoSocket))
    /\ UNCHANGED <<db, phase, sockets, turn, events>> /\ Noted

(* The role moves only while the one it is taken from still holds it.      *)
PassTake(t) ==
    /\ At(t, {"join", "failover", "handOver"}, "passing")
    /\ LET moves == Driving(t.saw)
       IN /\ db' = IF moves THEN [db EXCEPT !.master = t.to] ELSE db
          /\ IF moves THEN Goes(t, "passed")
             ELSE IF t.kind = "handOver" THEN Finish(t) ELSE Goes(t, "refused")
    /\ UNCHANGED mem /\ Noted

PassDone(t) ==
    /\ \/ At(t, {"join", "failover", "handOver"}, "passed") /\ mem' = MasterChanged(mem, t.to)
       \/ At(t, {"join", "failover"}, "refused") /\ mem' = StopFailover(mem)
    /\ Proceed(t) /\ UNCHANGED db /\ Noted

-----------------------------------------------------------------------------
(* Leaving for a while (anyone but the Master), or for good.               *)
Exit(s) ==
    /\ Asks("exit", s) /\ ~Driving(s[1])
    /\ tasks' = tasks \cup {Job("exit", "checked", s)} /\ UNCHANGED turn /\ Noted

ExitDone(t) ==
    /\ At(t, {"exit"}, "checked")
    /\ mem' = Leave(mem, t.sock) /\ Finish(t) /\ UNCHANGED db /\ Noted

Kick(s, p) ==
    /\ MasterAsks("kick", s) /\ Driving(s[1]) /\ p # s[1]
    /\ tasks' = tasks \cup {[Job("kick", "checked", s) EXCEPT !.to = p]} /\ UNCHANGED turn
    /\ Noted

KickWrite(t) ==
    /\ At(t, {"kick"}, "checked")
    /\ IF db.member[t.to] = "in"
       THEN db' = [db EXCEPT !.member[t.to] = "kicked"] /\ Goes(t, "done")
       ELSE Finish(t) /\ UNCHANGED db
    /\ UNCHANGED mem /\ Noted

KickDone(t) ==
    /\ At(t, {"kick"}, "done")
    /\ mem' = Evict(mem, t.to) /\ Finish(t) /\ UNCHANGED db /\ Noted

LeaveRoom(p) ==
    /\ Requests("leaveRoom") /\ p \notin Anonymous /\ db.open /\ db.master # p
    /\ tasks' = tasks \cup {[Job("leaveRoom", "checked", NoSocket) EXCEPT !.to = p]}
    /\ UNCHANGED db /\ Noted

LeaveRoomWrite(t) ==
    /\ At(t, {"leaveRoom"}, "checked")
    /\ db' = IF db.member[t.to] = "in" THEN [db EXCEPT !.member[t.to] = "none"] ELSE db
    /\ Goes(t, "done") /\ UNCHANGED mem /\ Noted

LeaveRoomDone(t) ==
    /\ At(t, {"leaveRoom"}, "done")
    /\ mem' = IF mem.master = t.to THEN MasterAway(Evict(mem, t.to)) ELSE Evict(mem, t.to)
    /\ Finish(t) /\ UNCHANGED db /\ Noted

(* A suspended Account is out of the Room as if kicked, whether it was its *)
(* Master or not.                                                          *)
Suspend(p) ==
    /\ Requests("suspend") /\ p \notin Anonymous /\ db.open /\ db.member[p] = "in"
    /\ db' = [db EXCEPT !.member[p] = "kicked"]
    /\ tasks' = tasks \cup {[Job("suspend", "done", NoSocket) EXCEPT
                                !.to = p, !.flag = db.master = p]} /\ Noted

SuspendDone(t) ==
    /\ At(t, {"suspend"}, "done")
    /\ LET out == Evict(mem, t.to)
       IN mem' = IF ~t.flag THEN out
                 ELSE IF out.live THEN NoMaster(Watch(out)) ELSE Watch(out)
    /\ Finish(t) /\ UNCHANGED db /\ Noted

-----------------------------------------------------------------------------
(* Someone in the Room as anonymous, p, signs in: their Account, q, takes  *)
(* p's place in it, the Master role too, unless q was kicked from it.      *)
TakeOver(p, q) ==
    /\ Requests("takeOver") /\ db.open
    /\ p \in Anonymous \ db.ended /\ q \notin Anonymous
    /\ tasks' = tasks \cup {[Job("takeOver", "checked", NoSocket) EXCEPT
                                !.saw = p, !.to = q]}
    /\ UNCHANGED db /\ Noted

(* The Account has been in the Room since the earlier of the two joined.   *)
InPlace(p, q) ==
    LET rest == Besides(db.joined, q)
    IN IF JoinedBefore(q, p) THEN Besides(db.joined, p)
       ELSE [i \in DOMAIN rest |-> IF rest[i] = p THEN q ELSE rest[i]]

(* Mutant: the membership is placed anew, whether they were kicked or not. *)
TakeOverWrite_Kicked(t) ==
    LET p == t.saw
        q == t.to
    IN /\ At(t, {"takeOver"}, "checked")
       /\ db' = IF db.member[p] = "in"
                THEN [db EXCEPT !.member[p] = "none", !.member[q] = "in",
                                !.joined = InPlace(p, q), !.ended = @ \cup {p},
                                !.master = IF db.open /\ @ = p THEN q ELSE @]
                ELSE [db EXCEPT !.ended = @ \cup {p}]
       /\ Become(t, [t EXCEPT !.stage = "done", !.flag = db'.master # db.master])
       /\ UNCHANGED mem /\ Noted

TakeOverWrite(t) ==
    LET p == t.saw
        q == t.to
        placed == db.member[p] = "in" /\ db.member[q] # "kicked"
    IN /\ At(t, {"takeOver"}, "checked")
       /\ db' = IF placed
                THEN [db EXCEPT !.member[p] = "none", !.member[q] = "in",
                                !.joined = InPlace(p, q), !.ended = @ \cup {p},
                                !.master = IF db.open /\ @ = p THEN q ELSE @]
                ELSE [db EXCEPT !.member[p] = IF @ = "in" THEN "none" ELSE @,
                                !.ended = @ \cup {p}]
       /\ Become(t, [t EXCEPT !.stage = "done", !.flag = db'.master # db.master])
       /\ UNCHANGED mem /\ Noted

(* Mutant: the anonymous identity's sockets stay in the Room.              *)
TakeOverDone_LeftIn(t) ==
    /\ At(t, {"takeOver"}, "done")
    /\ mem' = IF t.flag THEN MasterChanged(mem, t.to) ELSE mem
    /\ Finish(t) /\ UNCHANGED db /\ Noted

TakeOverDone(t) ==
    /\ At(t, {"takeOver"}, "done")
    /\ LET out == Evict(mem, t.saw)
       IN mem' = IF t.flag THEN MasterChanged(out, t.to) ELSE out
    /\ Finish(t) /\ UNCHANGED db /\ Noted

-----------------------------------------------------------------------------
(* The sweep: a Room nobody has entered for two weeks and nobody is in.    *)
Idles ==
    /\ Requests("sweep") /\ db.open /\ ~db.idle /\ tasks = {}
    /\ db' = [db EXCEPT !.idle = TRUE] /\ UNCHANGED tasks /\ Noted

Sweep ==
    /\ Requests("sweep") /\ db.open /\ db.idle /\ mem.inside = {}
    /\ tasks' = tasks \cup {Job("sweep", "checked", NoSocket)} /\ UNCHANGED db /\ Noted

Closed == [db EXCEPT !.open = FALSE, !.ended = @ \cup IF db.open THEN Anonymous ELSE {}]

SweepWrite(t) ==
    /\ At(t, {"sweep"}, "checked")
    /\ IF db.open /\ db.idle THEN db' = Closed /\ Goes(t, "done")
       ELSE Finish(t) /\ UNCHANGED db
    /\ UNCHANGED mem /\ Noted

-----------------------------------------------------------------------------
(* Closing, by the Master or by an Administrator.  The identities issued   *)
(* for the Room end with it.                                               *)
Close(s) ==
    /\ MasterAsks("close", s) /\ Driving(s[1])
    /\ tasks' = tasks \cup {Job("close", "checked", s)} /\ UNCHANGED turn /\ Noted

CloseAsAdministrator ==
    /\ Requests("adminClose") /\ db.open
    /\ tasks' = tasks \cup {Job("adminClose", "checked", NoSocket)} /\ UNCHANGED db
    /\ Noted

CloseWrite(t) ==
    /\ At(t, {"close", "adminClose"}, "checked")
    /\ db' = Closed
    /\ IF ~db.open /\ t.kind = "adminClose" THEN Finish(t) ELSE Goes(t, "done")
    /\ UNCHANGED mem /\ Noted

CloseDone(t) ==
    /\ At(t, {"close", "adminClose", "sweep"}, "done")
    /\ mem' = RoomClosed(mem) /\ Finish(t) /\ UNCHANGED db /\ Noted

-----------------------------------------------------------------------------
(* Starting and ending Live, one at a time.                                *)
Queue(kind, by, stage) == turn' = Append(turn, [kind |-> kind, stage |-> stage, by |-> by])

StartLive(s) ==
    MasterAsks("startLive", s) /\ Queue("startLive", s[1], "waiting") /\ UNCHANGED tasks /\ Noted
EndLive(s) ==
    MasterAsks("endLive", s) /\ Queue("endLive", s[1], "waiting") /\ UNCHANGED tasks /\ Noted

EndLiveAsAdministrator ==
    /\ Happens("adminEnd") /\ Queue("adminEnd", NoOne, "checked")
    /\ UNCHANGED <<db, phase, sockets, mem, tasks>> /\ Noted

TimeoutFires ==
    /\ phase # "down" /\ mem.timeout = Timeout
    /\ mem' = [mem EXCEPT !.timeout = Off] /\ Queue("autoEnd", NoOne, "checked")
    /\ UNCHANGED <<db, phase, sockets, tasks, events>> /\ Noted

Next1(stage) ==
    /\ turn # <<>> /\ Head(turn).stage = stage
    /\ UNCHANGED <<phase, sockets, tasks, events>>
TurnGoes(stage) == turn' = [turn EXCEPT ![1].stage = stage]

TurnCheck ==
    /\ Next1("waiting")
    /\ IF Driving(Head(turn).by) /\ (Head(turn).kind = "startLive" => ~db.live)
       THEN TurnGoes("checked") ELSE turn' = Tail(turn)
    /\ UNCHANGED <<db, mem>> /\ Noted

TurnWrite ==
    /\ Next1("checked")
    /\ IF Head(turn).kind = "startLive"
       THEN db' = [db EXCEPT !.live = TRUE] /\ TurnGoes("done")
       ELSE IF db.live
       THEN db' = [db EXCEPT !.live = FALSE, !.awaySince = Never] /\ TurnGoes("done")
       ELSE UNCHANGED db /\ TurnGoes("missed")
    /\ UNCHANGED mem /\ Noted

LiveStarted ==
    /\ Next1("done") /\ Head(turn).kind = "startLive"
    /\ mem' = MasterBack([mem EXCEPT !.live = TRUE])
    /\ turn' = Tail(turn) /\ UNCHANGED db /\ Noted

LiveStopped ==
    /\ Next1("done") /\ Head(turn).kind # "startLive"
    /\ mem' = LiveEnded(mem)
    /\ turn' = Tail(turn) /\ UNCHANGED db /\ Noted

(* Live had ended already: only the timeout takes the memory's word back.  *)
LiveMissed ==
    /\ Next1("missed")
    /\ mem' = IF Head(turn).kind = "autoEnd" THEN [mem EXCEPT !.live = FALSE] ELSE mem
    /\ turn' = Tail(turn) /\ UNCHANGED db /\ Noted

-----------------------------------------------------------------------------
(* Absences are written in the order they were noticed.                    *)
WriteLands ==
    /\ phase # "down" /\ mem.writes # <<>>
    /\ db' = [db EXCEPT !.awaySince = Head(mem.writes)]
    /\ mem' = [mem EXCEPT !.writes = Tail(@)]
    /\ UNCHANGED <<phase, sockets, tasks, turn, events>> /\ Noted

Older(age, limit) == IF age \in 0 .. limit - 1 THEN age + 1 ELSE age

(* Time passes: what is due goes first, and no query takes a whole tick.   *)
Tick ==
    /\ tasks = {} /\ turn = <<>> /\ mem.writes = <<>>
    /\ mem.failover # Grace /\ mem.timeout # Timeout
    /\ mem' = [mem EXCEPT !.failover = Older(@, Grace), !.timeout = Older(@, Timeout)]
    /\ db' = [db EXCEPT !.awaySince = Older(@, Timeout)]
    /\ UNCHANGED <<phase, sockets, tasks, turn, events>> /\ Noted

(* The process ends, and all it had in memory.                             *)
Ends ==
    /\ phase' = "down" /\ sockets' = {} /\ mem' = Empty /\ tasks' = {} /\ turn' = <<>>
    /\ UNCHANGED db

Crash == Happens("crash") /\ Ends /\ Noted

(* Going down in order: a Master still connected is written down as away   *)
(* from now, and the writes on their way land first.                       *)
Shutdown ==
    /\ Happens("shutdown") /\ phase = "up"
    /\ phase' = "stopping"
    /\ mem' = IF mem.live /\ mem.master \in Present(mem) THEN RecordMasterAway(mem, 0) ELSE mem
    /\ UNCHANGED <<db, sockets, tasks, turn>> /\ Noted

Stop ==
    /\ phase = "stopping" /\ mem.writes = <<>>
    /\ Ends /\ UNCHANGED events /\ Noted

(* Coming back: a Live Room has no Master connected, since the absence the *)
(* database has or from now.                                               *)
LoadLiveRooms ==
    LET m == [Empty EXCEPT !.live = TRUE]
    IN IF ~(db.open /\ db.live) THEN Empty
       ELSE IF db.awaySince = Never THEN NoMaster(Watch(m))
       ELSE [m EXCEPT !.timeout = db.awaySince,
                      !.failover = IF db.awaySince < Grace THEN db.awaySince ELSE Grace]

Restart ==
    /\ phase = "down" /\ phase' = "up" /\ mem' = LoadLiveRooms
    /\ UNCHANGED <<db, sockets, tasks, turn, events>> /\ Noted

(* ... with the database away: nothing is loaded.                          *)
RestartBlind ==
    /\ "databaseAway" \in Commands
    /\ phase = "down" /\ phase' = "up" /\ mem' = Empty
    /\ UNCHANGED <<db, sockets, tasks, turn, events>> /\ Noted

-----------------------------------------------------------------------------
TaskStep(t) ==
    \/ JoinAdmit(t) \/ JoinEntered(t) \/ JoinEnter(t) \/ SnapshotRead(t) \/ SnapshotAnswer(t)
    \/ PassTake(t) \/ PassDone(t) \/ ExitDone(t)
    \/ KickWrite(t) \/ KickDone(t) \/ LeaveRoomWrite(t) \/ LeaveRoomDone(t)
    \/ SuspendDone(t) \/ CloseWrite(t) \/ CloseDone(t)
    \/ TakeOverWrite(t) \/ TakeOverDone(t) \/ SweepWrite(t)

TurnStep == TurnCheck \/ TurnWrite \/ LiveStarted \/ LiveStopped \/ LiveMissed

Server == \/ TurnStep \/ FailoverFires \/ TimeoutFires \/ WriteLands
          \/ Stop \/ Restart \/ \E t \in tasks : TaskStep(t)

Next ==
    \/ Server \/ Tick \/ Crash \/ Shutdown \/ RestartBlind
    \/ CloseAsAdministrator \/ EndLiveAsAdministrator \/ Idles \/ Sweep
    \/ \E s \in Socket :
         \/ Connect(s) \/ Disconnect(s) \/ Resync(s) \/ Exit(s)
         \/ Close(s) \/ StartLive(s) \/ EndLive(s)
         \/ \E p \in Identity : HandOver(s, p) \/ Kick(s, p)
    \/ \E p \in Identity :
         \/ LeaveRoom(p) \/ Suspend(p)
         \/ \E q \in Identity : TakeOver(p, q)

Spec == Init /\ [][Next]_vars

(* The server finishes what it began, its clock runs and it comes back; no *)
(* one has to come, go or ask for anything.                                *)
FairSpec == Spec /\ WF_vars(Server) /\ WF_vars(Tick)

-----------------------------------------------------------------------------
TypeOK ==
    /\ db \in Database /\ mem \in Memory
    /\ phase \in {"up", "stopping", "down"}
    /\ sockets \subseteq Socket
    /\ tasks \subseteq Task /\ turn \in Seq(Turn)
    /\ events \in Nat
    /\ late \subseteq {"role", "live", "clock", "absence"} /\ strays \subseteq Socket

(* No command is half-way: what the properties below are about.            *)
Idle == phase = "up" /\ tasks = {} /\ turn = <<>>

Live == db.open /\ db.live
Away == db.master \notin Present(mem)

OnTime(kinds) == late \cap kinds = {}

(* Everyone connected is shown the Master the database has, unless a join, *)
(* a passing or a take-over wrote a Master it had known before             *)
(* (room.gateway.ts join, masterChanged).                                  *)
RoleAgrees == Idle /\ mem.inside # {} /\ OnTime({"role"}) => mem.master = db.master

(* The memory takes the Room for Live exactly when it is, unless a         *)
(* snapshot answered what it had read before, or a start found no database *)
(* (room.gateway.ts snapshot, onApplicationBootstrap).                     *)
LiveAgrees == Idle /\ db.open /\ OnTime({"live"}) => mem.live = db.live

(* What the server holds in memory is well formed and agrees with the      *)
(* database, whichever commands, connections and timers crossed.           *)
MemoryAgrees == TypeOK /\ RoleAgrees /\ LiveAgrees

(* While a Live Room has no Master connected, and only then, the 30        *)
(* minutes are running and so is, or has run out, the grace period, which  *)
(* is over first unless nobody is there to take the role.  The exceptions  *)
(* are in `late`.                                                          *)
GraceWhileAway ==
    Idle /\ Live /\ OnTime({"role", "live", "clock"}) =>
        /\ mem.timeout # Off <=> Away
        /\ mem.failover # Off <=> Away

(* Live's end across a restart (ADR 0009): once written, the absence in    *)
(* the database is the one being timed, unless one written late outlived   *)
(* the Live it was of (room.gateway.ts write, liveEnded).                  *)
AbsenceKept ==
    Idle /\ Live /\ OnTime({"live", "absence"}) /\ mem.writes = <<>> =>
        db.awaySince = mem.timeout

(* The Master's absence is timed while it lasts, and kept for a restart.   *)
AwayIsTimed == GraceWhileAway /\ AbsenceKept

(* Nobody is inside who should not be (in a closed Room, kicked, or as an  *)
(* identity that has ended), but for sockets whose join was half-way as it *)
(* happened (room.gateway.ts join, rooms.service.ts takeOver).             *)
NoneInsideWrongly == Idle => \A s \in mem.inside \ strays : Entitled(db, s[1])

Swept == \E t \in tasks : t.kind = "sweep" /\ t \notin tasks'

(* Kicked, they are out for good: neither joining again, nor leaving, nor  *)
(* signing in from inside the Room as anonymous gets them back in; and the *)
(* sweep never closes a Room on anyone who entered it while it was         *)
(* deciding (rooms.service.ts).                                            *)
NeverUndone ==
    [][/\ \A p \in Identity : db.member[p] = "kicked" => db'.member[p] = "kicked"
       /\ Swept /\ db.open /\ ~db'.open => mem.inside = {}]_vars

(* Live does not outlast its Master's absence for ever, unless the timers  *)
(* or what they are started by came late.                                  *)
LiveEnds == Live ~> (~Live \/ ~Away \/ ~OnTime({"role", "live", "clock"}))

-----------------------------------------------------------------------------
(* What the comments and documents promise without exception, and the code *)
(* breaks in the interleavings that `late` and `strays` name.              *)

(* "a forgotten Live never strands the Room" (ADR 0009)                    *)
NeverStranded == Live ~> (~Live \/ ~Away)

(* "Live ends on its own across restarts too" (ADR 0009)                   *)
EndsAcrossRestarts == (phase = "down" /\ Live) ~> (~Live \/ ~Away)

(* "Who holds the Master role of a Room, while anyone is present in it"    *)
(* (room-presence.ts masterOf)                                             *)
MasterIsKnown == Idle /\ mem.inside # {} => mem.master = db.master

(* "The Rooms that are Live right now. The database says so too"           *)
(* (room.gateway.ts liveRooms)                                             *)
LiveIsKnown == Idle /\ db.open => mem.live = db.live

(* "They are out of the Room at once, whatever they have open"             *)
(* (room.gateway.ts kick)                                                  *)
KickedAreOut == Idle => \A p \in Present(mem) : db.member[p] # "kicked"

(* "The Master gives the role to another Participant of the Room, kicked   *)
(* ones apart" (master.service.ts handOver)                                *)
RoleToParticipants == [][db'.master # db.master => db'.member[db'.master] = "in"]_vars

(* "Records since when the Live Room has had no Master connected, or that  *)
(* it has one again" (playback.service.ts masterAway): once written, and   *)
(* where nothing else came late                                            *)
AbsenceIsTrue ==
    Idle /\ Live /\ OnTime({"role", "live", "clock"}) /\ mem.writes = <<>>
         /\ db.awaySince # Never => Away

(* "The Rooms whose Master is not connected. Each one is given the grace   *)
(* period to come back" (master-failover.ts), where the memory has the     *)
(* Master and Live right                                                   *)
GraceIsGiven ==
    Idle /\ Live /\ Away /\ OnTime({"role", "live"}) /\ mem.timeout # Off =>
        mem.failover # Off
=============================================================================
