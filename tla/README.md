# Runout in TLA+

Runout is a place to review poker hands together: a *Room* has a *Queue* of
*Hands*, a *Master* who drives a shared *Playback* of them while the Room is
*Live*, and *Guests* who follow it or read on their own in *Free Review*
(`CONTEXT.md` defines the words, `Functionality.md` what each must do). Around it
each person has a *Library* of their Hands with Results and Stats, and a *Lab*
of Ranges. It is a NestJS server over Postgres (`apps/server`), a React client
(`apps/web`) and a package of poker arithmetic (`packages/poker`).

What is hard in it is of two kinds. One is what happens between an `await` and
the code after it: every command reads and writes the database over several
awaits, in one process that also keeps who is connected, whether the Room is
Live, two timers and a revision in memory, while browsers come, go, fall behind
and catch up, and while pages go on being used before their requests are
answered. The other is arithmetic that is done twice by different algorithms and
has to agree: pots, Stats, hand strengths, equities, categories of a Range, and
Hands read from text that each Poker Site writes in its own way.

## Inventory

| Component | State | Operations | Talks to |
|---|---|---|---|
| Room gateway (`rooms/room.gateway.ts`) | `liveRooms`, presence, timers, the writes still to land | the WebSocket commands, `broadcast`, `snapshot`, `inOrder` | every service below; the room client |
| Revisions (`rooms/room-revisions.ts`) | one counter per Room, in memory | `next`, `current` | gateway |
| Presence (`rooms/room-presence.ts`) | who is in which Room on which sockets, who is its Master, heartbeats | `enter`, `exit`, `evict`, `heard`, `presence` | gateway |
| Master (`rooms/master.service.ts`, `master-failover.ts`) | `rooms.masterId`; a timer per Room | `handOver`, `failOver`; `watch`, `stop` | gateway, presence |
| Live and Playback (`rooms/playback.service.ts`, `live-timeout.ts`) | `rooms.state`, `masterAwaySince`, `playbacks`; a timer per Room | `startLive`, `endLive`, load, go to a step, hide names | gateway |
| Rooms and membership (`rooms/rooms.service.ts`, `rooms.controller.ts`, `room-sweep.ts`) | `rooms`, `roomMemberships` | create, join, kick, leave, close, sweep, take over, expel | gateway, identity, hands |
| Queue (`rooms/queue.service.ts`) | `queueEntries` | import, add, reorder, remove, undo, reassign | gateway, hands, library, imports |
| Notes and Marks (`rooms/notes.service.ts`, `marks.service.ts`) | `notes`, `marks` | write, edit, delete, undo, mark | gateway, queue |
| Imports (`imports/imports.service.ts`) | `importPreviews` | preview, confirm | queue, library |
| Hands (`hands/hand-store.ts`, `hands.service.ts`, `hands/replay`) | `hands`, `handStats` | store once, read, replay, summarise | queue, library |
| Hand History parsers (`hands/import`) | none | unzip, split, detect, parse each Poker Site's layout, discard with a reason | imports, hands |
| Library, Tags, Results (`library/*`) | `libraryEntries`, `tags`, `tagLinks` | add, remove, tag, filter, sum up | imports, hands, gateway |
| Identity and Invitations (`identity/*`) | `identities`, sessions, resets, invitations, attempts | sign in, accept, reset, change, invite | rooms, mail, admin |
| Administration (`admin/*`, `web/src/admin`) | suspensions, impersonations; each tab's query, list and notice | suspend, lift, impersonate, close a Room, end Live; filter, sort, page, invite | identity, gateway |
| Lab (`lab/*`, `packages/poker`) | saved Ranges and their Tags; none | save, copy, delete; evaluator, equity | web lab |
| Room client (`web/src/room/roomClient.ts`, `roomConnection.ts`, `useRoom.ts`) | the view, its revision, what is owed, the socket and its timers | `reduceRoom`, connect, heartbeat, resync | gateway |
| Room's page and import dialog (`RoomPage.tsx`, `RoomScreen.tsx`, `ImportDialog.tsx`, `pendingUndo.ts`, `useHand.ts`) | what is asked of the person, drafts, offers to undo, the batch | the way in, opening Hands, Notes, removals, import | room client, HTTP |
| Browser's session (`SessionProvider.tsx`, `identity.ts`) | tokens in storage, the session on screen, changes waiting | sign in and out, impersonate and back, Preferences | identity |
| Library's pages (`web/src/library`) | the address, reads wanted, selection | filter, sort, page, Zoom, Tags, remove, replay a list | library, routing |
| Lab's pages (`web/src/lab`) | drafts, the Analysis, its address | edit, save, paste a Range; Boards, Narrowings | lab, routing |

The hard behaviours, and what correctness means for each:

- **Synchronisation.** Broadcasts stop at a broken socket; a snapshot is drawn
  over several awaits; a restart forgets the revision. A browser that says
  *synced* shows what the database has, loses no change without knowing, and
  catches up.
- **Live and the Master.** Two timers race the Master's return, handovers, kicks,
  closings and crashes. A Live Room whose Master is away is timed, exactly once,
  and ends; memory and database agree; nobody thrown out stays in, and nothing
  that threw them out is undone.
- **Queue.** Imports are planned early and applied late, removals are undone after
  reorderings, and each change is published on its own. Positions are distinct,
  no Hand is queued twice, and everyone sees the same order.
- **Closing a Room** deletes its Room Hands while other Rooms and Libraries may be
  taking them: nothing somebody keeps is deleted and nothing is left over.
- **Review.** Playback goes on while Entries are removed and Notes are written from
  Rooms and from Libraries: Playback is at a step its Hand has, and once all is told
  the browser shows the Room's Playback, Queue and Notes.
- **Following.** Heartbeats, reports of presence and snapshots cross: once all is
  told, every tab reads each Participant as the server does.
- **Accounts.** A link works once, guessing waits, whoever was signed out is out, an
  Impersonation leads back.
- **Pages.** Every answer may come after the person has moved on: what is on screen
  is of what they last asked for, and their work is not lost.
- **Pure algorithms.** Each agrees with a simple definition of the same thing, or
  with the other algorithm for it.

`PROJECT.json` lists each component with its status and each hazard at the line
where it bites.

## Modules

Each module takes one of these and leaves the others out of sight: what `RoomSync`
follows is a register, `RoomLive` has no Queue, `Queue`'s browser misses nothing,
`RoomHands` knows Rooms only by their Hands. `MC*` modules name the model values
and, where several small parts are checked by one run, put them side by side:
each behaviour then starts one part with the variables of the others at `None`,
and only that part moves. `Absent` declares the one constant they share, `None`.

### RoomSync: how shared state reaches the browsers

The state a Room shares is one register, the Playback, whose commands run one at
a time (`inOrder`), so its value is how many have committed (`db`). Every
other broadcast spends a revision (`Spend`) and leaves the register alone. The
server has `rev`, `inside` (the sockets in the Room) and `drawing` (snapshots
half-way, with what they have read); each browser has a socket (`sock`, "dead"
when it is broken and nobody has noticed), two queues of messages and `view`,
the fields of `RoomView` that matter: `phase`, the value `held`, `revision`,
`seen` (`seenRevision`) and `awaiting` (`awaitingSnapshot`). `told` is a history
variable: the value after each revision.

| Action | Code |
|---|---|
| `Commit`, `Publish` | a Playback command: database, then `publish` (`changePlayback`) |
| `Close`, `CloseDone` | `closeRoom`, then `roomClosed` |
| `Serve`, `Enter`, `Reenter`, `Read`, `Answer` | `join` and `resync`: the checks, entering presence and being announced, reading the revision and the database, answering |
| `Drop`, `Restart` | `leave` of a socket; a new process, its memory empty |
| `Notice`, `Connect`, `Resync`, `Receive` | `roomConnection.ts` closing and reopening its socket, `useRoom.ts` asking for an owed snapshot, `reduceRoom` on each message |

### RoomLive: who drives, how long Live lasts, who is inside

`db` is the row of the Room and its memberships, `mem` the gateway's memory
(presence, `liveRooms`, the two timers as ages in ticks, the absences still to
be written), `tasks` the commands half-way, `turn` those that run one at a time.
A step is one query, or all the code between an answer and the next query.

`Connect`…`JoinEnter` is `join`; `SnapshotRead`, `SnapshotAnswer` and `Resync`
the snapshot; `Disconnect` is `leave`, with `MasterAway` and `MasterBack`
setting both timers; `HandOver`, `FailoverFires`, `PassTake` and `PassDone` are
`master.service.ts` and `passOnMaster`; `Exit`, `Kick*`, `LeaveRoom*`,
`Suspend*`, `TakeOver*`, `Sweep*`, `Close*` the commands of those names;
`StartLive`, `EndLive`, `EndLiveAsAdministrator`, `TimeoutFires` queue a turn that
`TurnCheck`, `TurnWrite` and `Live*` carry out; `WriteLands` writes the next
absence; `Crash`, `Shutdown`, `Stop`, `Restart` and `RestartBlind` (the database
away as the server starts) are the process's life.

Between any two awaits anything else may happen. Where the code then tells the memory
what has ceased to hold, or leaves the timers be, a history variable has it: `late` names
what is not right since (`"role"`, `"live"`, the timers' `"clock"`, the `"absence"`), until
it agrees again, and `strays` the sockets that entered after they were put out, until they
leave. `Noted` keeps both, no action reads them, and `MemoryAgrees`, `AwayIsTimed`,
`NoneInsideWrongly` and `LiveEnds` are asked of the rest. What comments and documents promise
(`NeverStranded` and the seven properties after it) is stated too, and the code violates it
("Findings").

### Queue: the Hands to review, in order

`rows` are the Entries in the order they were inserted, with position, import
(`added`) and how long ago each was removed; `landing` is
`roomMemberships.currentEntryId`; `previews` the imports read and not confirmed;
`unsent` the changes committed and not yet published; `view` what a browser
shows, changed by `Apply`, which is the Queue's part of `applied` in
`roomClient.ts`. `Planned` is `planImport`: the Hands not in the Queue, each once,
in order. `Remove` takes an Entry out and `Cleared` everyone off it, two statements with
anything in between. `Undo` restores an Entry and renumbers the whole Queue, and the browser
only hears of the Entry. A change is published whenever its own awaits are over
(`Publish(n)`), in any order. History: `astray` says how the browser's order may be wrong
since a snapshot last gave it (`"turn"`: two changes about the same Entries were told the
other way round; `"place"`: an Entry came back to a place another had), and `overtaken` who
was half-way through opening an Entry as it was removed.

### RoomHands, KeptHands: what a closing discards

`KeptHands` is the promise: a Hand in a Library or in an open Room's Queue is kept,
and a closing discards only Hands of its own Room that nobody else keeps, in one
step. `RoomHands` is how it is done: `tx` is the transaction of each connection,
`stored`, `library`, `queue` and `open` what is committed. An import locks the
Room (`LockRoom`), plans (`Plan`), stores the Hand and refers to it (`Refer`) and
commits; a closing marks the Room (`Close`), locks its Hands (`LockHands`), looks
who else keeps them (`Look`) and deletes the rest (`Discard`). Rows are waited for
as Postgres does at READ COMMITTED; `version` tells a Hand stored anew from the row
an import found before. `lost` is a history variable: the Hands that nobody
keeps and that the code leaves behind.

### Review: Live, Playback and Notes, and what one browser shows of them

A command is a task: it checks (`Check`), writes (`Write`) and publishes
(`Publish`), with awaits in between; those about Playback wait for their turn
(`InTurn`), the others run side by side. A snapshot is drawn table by table (`Draw`,
`Read`, `Send`) while they do. `Receive` is `reduceRoom`'s part about Playback, Queue
and Notes; `OwnWentTo` is a person reading on their own in Free Review.
Nothing makes commands about one Hand wait for one another: `crossed`, a history variable,
has the Hands on which two were at once, or whose Notes changed while out of the Queue.

### Presence: how everyone is seen to follow the Room

`heard` is the server's last heartbeat of each tab, with its age and latency;
`presenceTold` what the Room was last told; `tabs` what each tab shows and where it
stands. `Hear` is a heartbeat or a request arriving at the server, `TakeMessage` a
change, a report or a snapshot arriving at a tab, `ReportPresence` the server's
`reportPresence`, `TimePasses` the ages growing past unstable and away. A list of how
everyone follows is a function of the Participant: it is in the order they joined, which
does not change. `known` is history: what the server last worked out, and whether somebody
was sent another reading since.

### RoomPage, ImportDialog: the Room's screen

`RoomPage` has the way in (`door`: name, Invitation, anonymous or signed in) and,
inside, what the screen keeps of its own while the Room moves under it: the Entry
last seen, the filter, the question being asked (`screen`), the Notes panel with its
draft (`noting`), the offers to undo counting down (`offers`) and Hands fetched and
kept (`hands`). React draws anew after each change: every action ends in `Renders`,
which is all effects of `RoomScreen.tsx` in their order.

`ImportDialog` is the batch and the part of the server it speaks to. `items` are the files
and pastes (`AddItem`, `Reread`, `RemoveItem`), `claims` the Heroes added to one's Screen
Names (`Claim`), `sent` the requests under way, each asked, then answered or refused by the
server, then taken. `server` has the previews
`imports.service.ts` keeps (`ServeReading`) for an hour (`HourPasses`), each confirmed
once and all of a batch or none (`ServeConfirmation`), the Screen Names, the Queue, and
which Hands have their Hand History: one queued without it gets it from a reading. `page`
is the rest of the Room's page: the Hands it fetched (`FetchHandOf`), forgotten with each
import (`ForgetHands`), and what it says of the last one;
`TakeReading`, `TakeClaim`, `TakeConfirmation` and `Fail` are what the dialog makes of an
answer, late, lost, or for a dialog that was closed. `PasteInRoom` imports with no preview.
`imports` is history: the names added, and the previews that an hour or a lost answer took.

### Accounts, Session: who someone is

`Accounts` is the server. Every request is a task of its own, so what it read before
an await may be stale when it writes; a transaction is one step unless another's steps
between its statements matter. `AcceptPassword`/`Accept` and `CompleteReset`/`CompleteWrite`
look at a link before the password is hashed and again, under a lock, after; `Attempt`,
`AttemptLock`, `AttemptRight`, `AttemptWrong` hold the row of an email while a password is
verified, `Forgotten` deletes that row from under whoever waits for it; `Suspend*`,
`Change*`, `ResetDone` end Sign-ins; `Impersonate*` and `SignOut*` begin and end an
Impersonation; `Fail` is a request that stops half-way. `wrong` and the fields `out` and
`from` are history.

`Session` is one browser: its storage (`store`), the page over it (`shownAs`), the
requests in flight and the Preferences changed one at a time (`changes`). Signing in by each
way, joining without an Account, adopting a session, impersonating and coming back are
actions that send requests; `TakesAnswer` runs whatever awaited one.

### Administration: the Administrator's panel

`site` is what the server holds of Accounts, Invitations and Rooms; `panel` the tab that
is open, with its query, the list on screen, the question asked (`confirming`) and the
notice; `asking` the requests under way. Opening a tab, a search, a sort, a filter or a
page (`OpenTab`, `Search`, `SortBy`, `ShowRooms`, `TurnOrder`, `GoTo`) asks for the list
(`Reads`); an act is offered by a row, confirmed and sent (`Ask`, `ConfirmAct`,
`SendInvitation`, `TakeNotice`), done or refused by the server (`ServeAct`), and answered
(`TakeAct`), which reads the list again. `ServePart` draws up an answer, `TakeRead` shows it,
`Miss` loses one; `Others` is everybody else. `newest`, `astray` and `beyond.changed` are history. The
same acts, statement by statement, are in `Accounts` and `RoomLive`.

### Library, Results, Routing: a person's Hands

Everything `LibraryPage.tsx` shows hangs from the address, read by `ReadFilter`; each change
of it (`ChangeFilter`, `ChangeSort`, `GoToPage`, `ShowView`, `OpenStat`, `ZoomTo`) or of the
Library (`Send*`, `Land`) asks for the reads again and stops wanting the ones before
(`Rerun`). Answers land in any order, fail, or are lost; another tab changes the Library;
midnight moves "today". `Results` is the downsampled running sums and what a press, a drag
and a release on the graph ask for. `Routing` is the browser's history as `routing.ts` uses
it, shared with the Lab.

### LabRanges, RangeText, Analysis, LabBoard, Poker: the Lab

`LabRanges` is the page that edits saved Ranges and the server that keeps them: drafts,
openings (`Openings`, `Wanted`), saves, copies, deletions and Tags, each answering after
the person may have opened another Range or left. `RangeText` is the matrix painted
(`PaintClass`, `Cross`), a Range written as text (`FormatRange`) and read (`ParseRange`).
`Analysis` is one Range or two, a Board dealt Street by Street, Categories and the
Narrowings they become, all written to the address a moment later (`WriteAddress`).
`LabBoard` is what a Board makes of a Range (`board.ts`); `Poker` both rankings of a hand
(`BestHand` over every five cards, `Strength` from counts) and equity by enumeration.

### PokerTable, HandHistory, Replay, Stats, TableView: Hands played again

`PokerTable` is a poker site's table, by the rules of hold'em: it plays whole games and
leaves the Hand an import should read. `HandHistory` is what each Poker Site writes of it
and what the import makes of that. The first part (`Block`) is external: lines as records,
after the repository's fixtures (who is dealt to, where straddles and dead blinds are
posted, who prints a bet nobody matched, CoinPoker's `ALLIN`, GGPoker's Fee). The second is
the code: `ReadHand` is `stars-layout.ts` and `reading.ts` line by line, `AsPokerStars`
CoinPoker's own lines rewritten, `PokerStarsFault`…`CoinPokerFault` what each header may be
refused for, `ImportHandHistory` a text split, detected, parsed and discarded block by block,
`ReadUpload` a file or a zip. `Replay` is what the server makes of it (`timeline.ts`,
`hero-result.ts`, `overview.ts`), `Stats` Positions and every Hero Stat, `TableView` what
the replayer draws at each step.

## Runs

Bounds are small because each question needs few actors: races here are
between two commands, or a command and a timer, and one more party only adds
copies.

| Run | What it asks | Bounds |
|---|---|---|
| `sync` (`MCRooms`) | `Agreement`: synced at the Room's revision, a browser shows what the database holds; `NoSilentHole`: what it was not told it is owed; `NeverGoesBack`: no message takes it to an older value. Of `RoomHands`, `NothingLeftOver`: a closing leaves nothing nobody keeps; `KeepsHands`: it implements `KeptHands` | one browser, two snapshots at once, three changes, two drops, one restart, a closing; two Hands, two Rooms, one person, three transactions at once, 6 commands |
| `live` | `CatchesUp`: whoever stays ends synced and equal (fair); `EndReachesEveryone`: the end of the Room reaches who is in it (fair) | two browsers, one of them new, one change, one drop, a closing, no restart |
| `core` | `MemoryAgrees`: with nothing half-way, memory and database agree about Master and Live; `AwayIsTimed`: both timers run exactly while a Live Room's Master is away, with the absence of the database; `LiveEnds`: Live without its Master ends or gets one (fair); all three but for what was told late. `NoneInsideWrongly`: nobody kicked, suspended, signed out or closed upon stays inside, but for sockets half-way through joining; `NeverUndone`: no kick is undone, and the sweep closes a Room on nobody | a Master, a Guest who is anonymous and their Account; every command, 4 events, grace 1 tick, timeout 2 |
| `order` | `NoHandTwice` of `Queue`; `ShowsTheLastReading` of `ImportDialog`: what an item shows is the last reading asked for, what can be confirmed is still kept, a Screen Name added is not lost, and a Hand on the page has its Hand History if the server has it; `PanelTellsTheSite` of `Administration`: with all answered, the list, its query and the totals on screen are the server's, and no email has two open Invitations | four Hands, two queued, imports of two, 3 changes, no undo; two dialogs, 3 requests, two items, one of them lost or an hour passing; in the panel three Accounts, three Rooms, three emails, pages of two, three things done, one lost or done by others |
| `undo` | `ViewAgrees`: the browser shows the database's order, removals taken back among reorderings and changes told late; `PositionsDistinct`: no two Entries share a position; `NobodyLeftOn`: nobody is on an Entry that was removed and cleared | two queued, imports of one, 4 changes, two undos |
| `accounts` | `LinkUsedOnce`, `GuessesWait`, `SignedOutStaysOut` of `Accounts`; `LeadsBack` (an Impersonation always leads back), `ShowsWhatIsKept` (Preferences, once all is answered) of `Session` | four requests, three emails, one Google account, times 0 to 2, waits 1 and 2 after one free failure; in the browser two Accounts, 3 sign-ins, 3 Preferences sent, one connection lost |
| `review` | `StepsExist`, `ShowsTheRoom` of `Review`; `OfferLasts`, `PanelIsOfTheHand`, `HandKeepsUp` of `RoomPage`; `FollowingIsTrue` of `Presence` | two commands at once, 3 in all, one snapshot; 4 steps of a visit; two tabs of one person beside another's, 3 steps |
| `pages` | eleven agreements, one or two for each part, listed below | below |
| `stranded`, `crossedOrders`, `signIn`, `antes` | each expected to be violated, see "Findings" | the fewest that show it: one Room and one command of `RoomLive`, two of `Queue`; two Accounts, 3 sign-ins; one game of three players with antes |

Grace 1 and timeout 2 keep the code's order (2 minutes before 30). In `RoomLive` an event is
a connection, a disconnection, a command or a crash: queries, timers and writes are free.
Four are starting Live, losing the Master, and two more to meet the timers half-way; the four
safety properties are proved for any number of them. Three
commands are enough for the Queue: a plan that went stale needs one between
preview and confirmation, an undo that meets a reordering needs three. Two
queued Hands can be exchanged while a third, added before, is out of the Queue, and it
comes back among them: four changes. Two closings of Rooms that share a Hand while an import takes it are
three transactions, and queueing it twice before makes five commands. In
`accounts` four requests are two that contend, the one that made what they contend
for, and the sign-in of whoever is to be thrown out. In `review` two commands of
one subject and the snapshot that reads between them are every order
there is to publish in.

`pages` puts side by side what one person studies:

| Property | What agrees with what | Bounds |
|---|---|---|
| `ChipsAddUp` | the states of the Timeline with one another and with the table, its pots with what the site paid | five games of two to four players, every way eight Actions allow, blinds 1 and 2 |
| `StatsAgree` | the Stats of everyone in a Hand with one another and with what the table allowed | the same |
| `TableTellsTheHand` | the table drawn at each step with the Hand itself | the same |
| `HandsAreReadBack` | a Hand with what is read of it in the text of each Poker Site; a text of many blocks, zipped, with its Hands and what it discards | the same games, Screen Names that begin one another's, every fault once in each text where no flop was seen |
| `PokerAgrees` | `StrengthIsBestHand`: the two rankings of a hand; `EquityAddsUp`: what one side wins with what the other loses, sampled deals with all there are, Combos with shares of a pot | every five and seven of thirteen cards; two Ranges on three boards |
| `CategoriesAgree` | what a Board makes of a Range with each combo's ranking | the Ranges and boards of `PokerAgrees` |
| `ShowsWhatIsAsked` | what the Library page shows with what its address asks of the Library | four Hands, 3 moves, one call and one mishap |
| `ZoomsAddUp` | a Zoom with the lines it was dragged over | five series, up to four points |
| `KeepsTheWork` | the draft and its "unsaved" with the person's work and what the server has | three Ranges, 4 steps, one fault |
| `AnalysisIsKept` | `NarrowingsFollowTheBoard`: Narrowings with the Streets dealt, and a card taken off with the Board before it; `AddressGivesItBack`: the Analysis with its address, read again | 4 turns, one Range loaded |
| `TextGivesItBack` | a Range with its text, read again | 3 edits with two brushes, five texts pasted |

The games are a short stack that makes side pots, heads-up blinds, a dead button,
antes with a straddle, and a player back with a dead blind. A filter, a page and a
call in flight are what a stale answer needs.

Deadlock is not checked in any run: each model may stop, its events spent, the Room
closed, nothing left to ask.

### Fairness

- `RoomSync.FairSpec` (in `live`, `SteadySpec`: the same of a server that stays up): what the
  server began it finishes, messages on a working
  socket arrive, a broken socket is noticed (the heartbeat of
  `roomConnection.ts`), a browser reconnects and asks for owed snapshots (its
  retry timer). Nobody is obliged to change anything, and drops are bounded.
- `RoomLive.FairSpec`: the server finishes what it began, its timers and its
  clock run, and it is started again. Nobody has to come back or ask anything.

The other modules state safety only.

### Findings

Each of these runs checks one thing the repository says and finds the code violating it.
`PROJECT.json` quotes what is said and where.

| Run | Violated | What happens |
|---|---|---|
| `stranded` | `NeverStranded` (fair) | the Master's socket drops while starting Live is at the database; the Room is Live, nothing is timed and Live never ends (`room.gateway.ts:534`) |
| `crossedOrders` | `OrderIsShared` | two reorderings are told in the opposite order they committed in (`room.gateway.ts:1102`) |
| `signIn` | `SignInKept` | someone signs in over an anonymous session; the new token is kept and the old session ended in the background; answered, that removes the token there is by then, the new one (`identity.ts:211`) |
| `antes` | `AllInsPayOut` | CoinPoker's `ALLIN` before the flop counts the antes among the bets, so it is read as a raise to more than the player has, and the Hand pays out less than was put in (`coinpoker.ts:124`). Antes without such an `ALLIN`, and such an `ALLIN` without antes or dead blinds, read back (`HandsAreReadBack`, run `pages`) |

Other promises of the comments and documents are stated in the modules and broken by the code
in the same way. No run is kept for them: to see one, change a `.cfg` as said, and leave it no
other property. The rest of a passing run's properties says what is left: what holds in the
same interleavings when just that case, which a history variable names, is set aside.

| Change | Broken | What happens |
|---|---|---|
| `core`: two people; `startLive`, `crash`, `databaseAway`; 2 events | `EndsAcrossRestarts` (fair) | a server that starts without its database knows of no Live Room, and never looks again (`room.gateway.ts:244`) |
| `core`: two people; `handOver`; 5 events | `MasterIsKnown` | a join enters an empty Room with the Master its first query read (`:327`) |
| `core`: two people; `startLive`, `resync`; 2 events | `LiveIsKnown` | a snapshot's answer puts back in memory what it read before Live started (`:414`) |
| `core`: two people; `kick`; 3 events | `KickedAreOut` | a join past its checks enters after the kick (`:322`); after a closing or a suspension likewise |
| `core`: two people; `kick`, `handOver`; 4 events | `RoleToParticipants` | the new Master is kicked between the check of a handover and its write (`master.service.ts:44-49`) |
| `core`: two people; `startLive`, `endLive`; 6 events | `AbsenceIsTrue` | an absence still to be written lands after Live's end, and the next Live inherits it (`room.gateway.ts:938`) |
| `core`: two people; `startLive`, `handOver`; 6 events | `GraceIsGiven` | a failover refused stops the grace period of the Master the role had gone to (`:1045`) |
| `undo`: `Already <- Three`; `reorder`, `remove`, `undo` | `UndoRestores` | an Entry restored after a reordering is sorted among positions the browser has not renumbered (`roomClient.ts:450`) |
| `undo`: `add`, `remove`, `undo` | `NoHandTwice` | a Hand removed, added again and its removal taken back is queued twice (`queue.service.ts:682`) |
| `undo`: `open`, `remove`, `undo` | `NobodyBack` | a removal lands between the two statements of `openHand`, and the restored Entry has somebody on it (`rooms.service.ts:254`) |
| `order`: no `Commands`, no dialog, 2 readings | `ShowsItsQuery` | a list of a former filter answers last and stays (`RoomsTab.tsx:31`) |
| `review`: `write`, `libraryEdit`, `remove`, `restore`, one at a time; 4 commands | `NotesComeBack` | a Note changed in a Library while its Entry is out comes back with it in its old text (`roomClient.ts:504`) |
| `live`: `Client = {n}`; no drop, restart or closing; `Spec` | `NoSilentHoleForAnyone` | a change broadcast while a first snapshot is drawn is dropped, and the browser thinks itself synced (`roomClient.ts:352`) |
| `live`: `Client = {a}`; no restart; `Spec` | `ClosedForGood` | a snapshot answered after the end revives the Room (`roomClient.ts:256`) |
| `live`: `Client = {a}`; two changes, no drop or closing; `FairSpec` | `CatchesUp` (fair) | revisions begin again at 0 with the server, and every snapshot looks overtaken (`roomClient.ts:261`) |
| `sync`: one Hand, one Room, two transactions, 2 commands | `RoomHandsGo` | an import into a Room that closed meanwhile leaves its Hands behind (`queue.service.ts:284`) |

### What the properties leave aside

No passing run of the Room's modules forbids an interleaving: where the code leaves more than
one outcome, a history variable names the case and the property is not asked of it. No action
does anything else because of one. Each such property has a mutant that breaks it all the same.

- `late` in `RoomLive` says what was told the memory after it had ceased to hold, until it
  agrees again: `"role"` (a join or a snapshot with what it read before, the process learning
  late what the database did: `MasterIsKnown`), `"live"` (`LiveIsKnown`, `EndsAcrossRestarts`), `"clock"`
  (Live takes hold, somebody is put out or a refused failover stops the grace without a look at
  whether the Master is there: `NeverStranded`, `GraceIsGiven`; a suspended Account taking the place of
  an anonymous Master, `:841-861`, is one of them), `"absence"` (one written after the Live it was
  of: `AbsenceIsTrue`).
- `strays` in `RoomLive`: the sockets that entered though kicked, suspended or closed upon as
  their join was half-way (`KickedAreOut`), until they leave.
- Nothing is said in a passing run of whom the role goes to (`RoleToParticipants`): a successor kicked meanwhile is
  written by a failover too, and one may be an anonymous identity whose Account has just taken its
  place.
- `astray` in `Queue`: what was told the wrong way round (`OrderIsShared`), or restored to a
  place another had taken (`UndoRestores`), until the next snapshot. `overtaken`: who was
  opening an Entry as it was removed (`NobodyBack`).
- `NoHandTwice` is asked where no removal is taken back.
- `crossed` in `Review`: the Hands on which two commands were at once, from then on (two edits of
  one Note published in the opposite order they committed in; a Note published of an Entry that
  is being removed), or whose Notes changed in a Library while they were out of the Queue
  (`NotesComeBack`). Live and Playback are asked in any case.
- `NoSilentHole` is of browsers that were in the Room before (`NoSilentHoleForAnyone`), `CatchesUp` in `live`
  of a server that stays up.

`NothingLeftOver` leaves out the Hands in `lost`:
those whose last Library lets go of them after their Room closed, or after its closing
looked, and those imported into a Room that closed meanwhile (`RoomHandsGo`).

Other modules step aside in the same way: what the page
no longer knows (`ghost` in `Session`, `unsure` in `LabRanges`, `outdated`, `strayed`
and `turned` in `Library`), an answer for what was left (`late` in `Analysis`, `crossed`
in `ImportDialog`), a list shown out of turn or changed by others (`astray` and `beyond.changed` in
`Administration`; `ShowsItsQuery`), a report that is not owed (`known.fresher` in `Presence`). Read there,
they are these:

*Server.*
- An attempt waiting for the row a right password deletes finds none, and answers
  with an error (`identity.service.ts:408-412`).
- A sign-in whose password was verified before a reset, a change or a suspension still
  begins after it; an Impersonation checked before a suspension likewise.
- A change of password under way may overwrite a reset's (571-595), and ends an
  Impersonation's session without recording its end (579-594).
- Two resets asked for at once leave two links that work; an Invitation read before it
  was accepted is cancelled or sent again after (`invitations.service.ts:157`, `:174`).
- A take-over by an Account kicked before, while its anonymous identity is the Master,
  leaves the Room to a Master no longer in it (`rooms.service.ts:398`).
- A removal taken back after its window is refused without a word.
- A Mark or a Hand added to the Library is told to the person's tabs without a revision,
  and a snapshot read before and answered after hides it.
- A Note edited in one Room is not told to another Room that queues the same Hand.
- A snapshot shows a second tab a presence the Room was never told
  (`room.gateway.ts:432`). If the others are then read as they were last told, no
  report follows, and that tab keeps its reading until something else changes, though
  `:1195-1197` counts on a few seconds. A tab closed while another of the same
  person stays is not reported until the next heartbeat.
- A dead blind counts as a bet its player made (`timeline.ts:272`): beside a player all
  in, a pot may be drawn that the site does not pay.

*Browser.*
- Two refused changes of the same Preference leave on screen a value the server never
  had; one left over from a former session is put back on the next one's screen
  (`SessionProvider.tsx:88-96`).
- Asking twice for the way out of an Impersonation signs the Administrator out
  (`identity.ts:126-140`), as may the answer about a session left meanwhile: a refusal
  forgets whatever token is stored by then (`:71-84`); signing out while impersonating leaves their token aside, and a
  later session's refusal brings them back.
- `RoomScreen` keeps `leavingTo` after a refused handover, and knows the Entry last
  loaded by its id alone: its Author, reassigned since, is the former one on the panel.
- `useHand` does not fetch again the Hand on screen when what it keeps is forgotten:
  whether it has a Hand History stays as it was.
- An import dialog closed while it confirms and opened again is closed by the former
  answer. Heroes read before a Screen Name was added are offered again; a name added
  from a dialog opened again can drop the one before. The batch lets a preview over an
  hour old be confirmed, and is refused as a whole.
- A page of the Library beyond the last is blank. Only a removal steps back from one
  (`LibraryPage.tsx:234-239`), and by the total on screen when it was pressed: going back to
  a page since emptied, a view changed or a filter left while a removal is under way, a Mark
  or Tag taken off, or midnight leads to one. Its total and its rows come from two queries;
  two removals that cross leave a blank page; "next page" pressed while the list
  is of the former filter turns that one's page.
- The panel reads a list again, after an act, by the query of when it was confirmed, and
  takes answers in any order (`RoomsTab.tsx:29-58`): what is listed may be of a former
  filter, sort or page. The last Room of a last page, closed, leaves a blank page with
  no way back but the filter; an act answered after its tab was left reads nothing again; an
  Impersonation answered late takes the person away from whatever tab they opened.
- Deleting a Tag or removing what is selected puts back the filter of when it was
  pressed; "Today" is not worked out again at midnight.
- A Range saved as *New* is pressed makes the next save overwrite it
  (`LabRangesPage.tsx:241-272`); edits made while a Range opens (180-196) or is copied
  (274-295) are lost; the answer to a first save navigates back whoever left.
- An Analysis left while a Range loads writes its address over another screen's
  (`LabAnalysisPage.tsx:92-93` says it does not); a Range loaded for a side that was
  removed lands in the side added since; loads answered out of order show the one
  picked first.
- *Made Hands* are in order of strength on a flop, not always on a turn or a river.

## Proofs

`RoomsProofs` proves of every set of browsers and every bound

- `TypeCorrect`: `Spec => []TypeOK`;
- `SyncedNeverOlder`: `Spec => []NeverOlder`;
- `SyncedMeansAgreement`: `Spec => []Agreement`;
- `NothingSilentlyMissed`: `Spec => []NoSilentHole`;
- `SyncedNeverGoesBack`: `Spec => NeverGoesBack`.

`NeverOlder` is not inductive: it has to be known of everything a browser may yet
receive. The invariant `IInv` says it of the messages on the wire (`WireOK`: each
says what was told at its revision, a snapshot nothing older) and of the
snapshots being drawn (`DrawingOK`), and says how what the Room was told grows
(`ToldOK`: never shrinking, never beyond the database, and equal to it between
two commands). The order of the wire is never used: a message is right whenever
it arrives. `Agreement` follows, as a browser at the Room's own revision holds
at least `told[rev]`, which is `db`. For `NoSilentHole` the order does count: `Seated`
says of each browser where its socket stands, what is on its way, and that every revision after what it has applied
is among that (`CoveredOK`). `NeverGoesBack` needs that nobody applies a revision they have
not seen (`AllSeen`). Assumptions: `ClientsAssumption`,
`BoundsAssumption`.

and, of the Hands that Rooms share, whatever the Hands, Rooms, people and transactions

- `NothingKeptGoes`: `HandsSpec => []DiscardsNothingKept`;
- `Implements`: `HandsSpec => KeepsHands`, that `RoomHands` implements `KeptHands`;
- `NothingIsLeftOver`: `HandsSpec => []NothingLeftOver`.

`DiscardsNothingKept` says what one closing is about to do; it holds because of
what all the others cannot do meanwhile. So `HandsInv` says of each transaction what it
knows (`ClosingOK`: once locked, a closing holds every Hand of its Queue;
`ReferringOK`: a Hand referred to is stored, or this import stores it) and of each
two what the locks keep apart (`Apart`). A step that commits nothing is then
`Moves`: only the transaction that moved and its pairs with the others are looked
at. For `Implements`, a commit is `Enqueue` or `Collect`, `Discard` is `Close`, and
what it discards is of its own Queue by `ClosingOK`. `LeftOK` says that what
a closing leaves, having looked, is kept elsewhere or is among `lost`.

`QueueProofs` proves of every set of Hands and Participants, window and bound

- `PositionsApart`: `Spec => []PositionsDistinct`;
- `NoDuplicates`: `Spec => []NoHandTwice` when `"undo"` is not among `Commands`;
- `NobodyStays`: `Spec => []NobodyLeftOn`;

and, of the dialog that fills the Queue, whatever is in the files and whichever requests
are lost or refused,

- `DialogShowsTheLastReading`: `ImportSpec => []ShowsTheLastReading`.

What a step does to the rows comes down to six shapes (`StepOnRows`): nothing, an
import, a renumbering, a removal, a change of Author, time passing. An import's
positions lie beyond every earlier one (`InsertShape`), a renumbering puts every
active Entry in a place of its own (`RenumberDistinct`), the others move no
position. For duplicates, what is planned is new and distinct (`PlannedIsNew`).
With `Typed` the two properties are inductive as they stand. `NobodyLeftOn` is not: `Landed`
adds of each Entry that is removed that whoever is on it is to be cleared from it by the
removal that has still to (`Awaited`), or was half-way through opening it as it was removed
(`overtaken`), and that whoever is still half-way is among the latter. `Planned`, `Orders`
and `IsLast` are written as sets and predicates and not with `SelectSeq` or a
recursive definition, which the provers know nothing of. Assumptions:
`AlreadyAssumption`, `BoundsAssumption`.

For the dialog, `ShowsTheLastReading` is of items, Screen Names, confirmations and fetched
Hands, and none of the four is inductive alone. `ImportInv` says of every request which dialog
and which item it is of (`ImportCalls`, `BatchSound`: an item being read waits for exactly
one, and one that is not waits for none); that what the discards are shown of is read
(`DiscardsAreRead`); that a list of Screen Names sent holds every name added before
(`NamesSound`); that what can be confirmed is kept, gone with an hour, or in the one
confirmation under way (`ConfirmsSound`); and that a Hand shown without a text the
server has is about to be forgotten by an answer on its way (`TextsAreTold`). What a reading
contains is never looked into, so folds over it stay closed. Assumption: `ImportAssumption`.

`AccountsProofs` proves of every number of requests, emails, Google accounts and waits

- `TypeCorrect`: `Spec => []TypeOK`;
- `WaitsAreKept`: `Spec => []GuessesWait`;
- `SignedOutForGood`: `Spec => []SignedOutStaysOut`;
- `LinksWorkOnce`: `Spec => LinkUsedOnce`.

`Typed` adds to the types that what a row or a task refers to is there: only links
for a reset and attempts are ever deleted. `Guessing` adds who holds the row of an email
(`LockOK`: whoever verifies holds it and may try, whoever waits has one to wait for) and
what the row says of the passwords typed (`CountOK`: how many wrong ones, and a wait
no shorter than the last of them earned). `GuessesWait` then follows at `AttemptWrong`, the only step that types one.
For the other two every name has to be new when it is made: a token is made as its
request ends (`TokensOK`), an Account just before its Sign-in starts (`AccountsOK`), an
Invitation by the request it is named after (`InvitedOK`). A change of
password keeps a Sign-in of the same Account (`Keeps`); an Account that came from an
Invitation says it is accepted (`FromOK`), and a reset has one user (`UsedOK`).
`Kept` is their conjunction and is inductive, and each of its steps is a `LinkStep`.
Assumptions: `NamesAreApart`, `MailsAreKnown`, `TimesAreNumbers`, `NoneIsNoRow`.

and, of the panel over them, whatever the Accounts, Rooms, searches and orders and whatever
is done, lost or overtaken,

- `PanelTellsTheTruth`: `PanelSpec => []PanelTellsTheSite`.

What is on screen is right, or something is still to come that will be shown after it
(`ScreenOK`): an act done whose answer makes the tab read again (`Due`), or a reading begun
after the last one that answered. Readings cross, so of each one under way it takes as much
(`ReadsOK`): every part that has its answer is of the site as it is and of the query on
screen, unless something is `Coming` after it, or it was `again` for a former query, which
marks what it shows as out of turn. A reading that answers then passes on what was known of
it, and an act the server does changes the site only with something `Due` for it, but for a
Suspension lifted from the Invitations' tab, whose list is of nothing else
(`ListOfInvitations`). `SiteOK` is kept by every act: one sent again goes first and leaves the
rest as they were (`SentAgainOK`), and a first one finds none open (`SentFirstOK`).
Assumptions: `PanelAssumption` and `SiteAssumption`, that the site is so at first, which the
database's unique index has it be.

`SessionProofs` proves of every set of Accounts and Themes, and any number of sessions,
requests and losses

- `WayBackKept`: `SessionSpec => []LeadsBack`;
- `ThemeIsKept`: `SessionSpec => []ShowsWhatIsKept`.

Both speak of a browser with nothing under way, so `IInv` says of each request what its
answer may still bring (`CallOK`: whose session its token is, what has been answered and
that a refused token works no more). `LeadsBack` follows as the browser is on one of two
steps of the way back (`WayBack`: at the Administrator's own, or at an Impersonation of
theirs with their token kept), and an answer about the session stored leads from one to
the other. It is asked of a browser for which no answer was `late`. `ShowsWhatIsKept`
follows as the changes under way lead, each from the one before, from what the server
keeps to what the page shows (`ChainOK`); a session handed over has the server's Theme
(`HandedOK`) and finds no change under way, unless `unsure`.
Assumption: `SessionAssumption`.

`ReviewProofs` proves of every set of Hands, Notes and commands at once

- `PlaybackIsAtAStep`: `Spec => []StepsExist`;
- `RoomIsShown`: `Spec => []ShowsTheRoom`.

A step is checked against the Hand on the table and
written later. What it checked still holds then (`Due`) since a command about Playback
is past its check only when it is the first in turn (`TurnOK`), and each message and
snapshot on its way to the browser is well formed (`Typed`).
For `RoomIsShown` the invariant `SInv` speaks of the browser as it will be once all that is
on the wire has come (`Comes`): it owes itself a snapshot, or it has the last revision and each
part of it, down to a single Hand or Note, is as in the database or is what a command that
has written is about to tell (`UpToDate`). So is what a snapshot has read, if nothing
was told since its revision (`DrawnAs`). A write may then break a part only while it
owes the news of it, and each message mends the part it is about. On a Hand that is not
`crossed` one command about its Notes or Entry is under way at a time (`ByHand`), which finds
what it left (`Stands`); of the others nothing is asked but of Live and Playback.
Assumptions: `OrderAssumption`, `StepsAssumption`, `NotesAssumption`.

`RoomLiveProofs` proves of every set of people, sockets and commands

- `MemoryFollows`: `Spec => []MemoryAgrees`;
- `KicksLast`: `Spec => NeverUndone`;
- `NobodyWronglyInside`: `Spec => []NoneInsideWrongly`;
- `AwayTimed`: `Spec => []AwayIsTimed`.

Any command may be given, any number of times, with anything in between any two awaits,
crashes and restarts without the database included. Memory follows the database one await
later, so the invariants say who is about to put right what does not agree. `MInv` has it of
the role, unless it is among `late`: it has moved and the command that moved it is about to say
so (`RoleKnown`); and of Live: it has begun or ended and the first in turn is about to say so
(`LiveKnown`, `HeadKnows`). Whether a step makes its part `late` is for `Noted` to say, which
looks only at what became of memory and database: so each action is shown to keep the two
agreeing, or to be one that `Noted` notes (`RoleStep`, `LiveStep`, `Settles`), and the joins and
snapshots that tell what they read before are among those.

`Belongs` has it of whoever is inside: they are a Participant, or the command that wrote that
they are not is about to put them out (`PutsOut`), or their socket is among `strays`, to which
only the last step of a join adds one (`Insides`). For `KicksLast` no step writes over a kick
(`Undoes`), and the sweep closes a Room only while nobody is about to enter it (`Asleep`).

For `AwayTimed`, both timers run exactly while the Master is away, or Live's end is on its way
(`Clocked`, `Timed`), and the last absence still to be written, or the one in the database if
none is, is what is being timed (`Written`, `Recorded`). A step that notices somebody come or
go starts or stops both and says so in one go (`Noticed`, `Changed`, `LeaveTimed`); one that
does not look is noted (`Unlooked`). Nothing is assumed of `Grace` and `Timeout` but that they
are positive. Assumptions: `IdentityAssumption`, `ArrivedAssumption`, `TimeAssumption`,
`CommandsAssumption`.

`PageProofs` proves of every set of Hands, Entries and people, whatever the Room's news

- `OfferLastsItsTime`: `PageSpec => []OfferLasts`;
- `PanelFollowsTheHand`: `PageSpec => []PanelIsOfTheHand`;
- `HandIsNeverMissed`: `PageSpec => []HandKeepsUp`;
- `FollowingIsTold`: `PresenceSpec => []FollowingIsTrue`, of any people, tabs, silences and
  latencies.

`PageInv` says that what is on screen fits (`Fits`: each part by itself) and is of the
Hand on the table (`OfTheHand`), and that an offer is spent with its time (`SpentOK`).
Every action ends in `Renders`, so one lemma, `DrawnAnew`, says that drawing what fits
again leaves what holds; an action has only to show that what it draws fits.
Assumptions: `PageAssumption`, `NoneIsNoAnswer`.

`PresenceInv` joins three facts that none alone keeps. What a tab shows, or will show once
all on its way has come, is what the Room was last told (`ToldOK`: the last report or
snapshot on its way carries it). What was told differs from what was last worked out by
less than would be told (`WorkedOK`). And what was worked out is exact, unless a tab has
gone since or some tab is due to beat again (`Owing`): a snapshot changes what the server
has heard of a tab and tells nobody, but it makes the tab beat, and that beat is told.
Beside them, what a tab last said is where it stands (`TabOK`). Assumptions:
`PresenceAssumption`, where a latency of no difference is not news (`LatencyStep` is not 0,
with which every report would be told for ever), and `NoneIsNoReading`.

`LibraryLabProofs` proves of every set of Ranges, Hands, Tags and people's wishes, any number
of steps and whatever is lost or refused

- `WorkIsKept`: `LabSpec => []KeepsTheWork`;
- `WhatIsAsked`: `LibrarySpec => []ShowsWhatIsAsked`, of any page size.

For `WorkIsKept`: whether a draft is of what the server keeps is known only from what it answered before,
and between the two a Range may be deleted, a Tag may go from it, an answer may be lost.
So `LabSound` says of each reading and request under way what its answer will be of
(`ReadsOK`, `RequestsOK`), that one saving, copying or deleting is under way at a time
(`AloneOK`), and of each value the page will take for the server's, that it is what the
server holds: what was last saved (`BaselineKept`), what a Range being opened has read
(`OpeningsKept`), what an answer on its way says (`AnswersKept`). Each may differ by the Tags
deleted since, which are told to the draft as well, and by the one request under way that
will change it. Beside these, that the work last done is on the page and nothing is being
opened over it (`WorkIsThere`). Nothing is said of a page that is `unsure`: whose
request was lost and may have been done. Assumptions: `LabAssumption` and `NoneIsNoRange`.

For `WhatIsAsked` the invariant, `LibSound`, says of each read in flight that it is of the
filter, the sort and the page of the address, and that its answer, once it has one, is what
the server would answer now (`AskRight`); what is shown is that too, or is being read
(`ListRight`, `ResultsRight`, `StatsRight`). Neither is asked while something changed behind
that read (`outdated`), or while a change already made waits to be answered, which will read
all of it again (`Pending`). A page steps back far enough after a removal because the page it
was on is one of its filter's (`PageRight`), the total it counts from is no more than there
are (`TotalsRight`: a total too small leads to a page that is there all the same), and what a
removal in flight counts on is still so (`RemovalsRight`, `RemovalOK`); other changes only
add to what a filter keeps (`ChangeGrows`), or the page is `strayed`. Stated without it
the property is false: it was the proof that found the cases a run of three moves does not
reach, such as a page gone back to after the removal that emptied it ("What the
properties leave aside"). Assumption: `LibraryAssumption`.

Only model-checked: liveness (`CatchesUp`, `EndReachesEveryone`, `LiveEnds`), which the
provers do not reach; `ViewAgrees` of `Queue`, which compares two orders built with
`SelectSeq`, a recursive definition; the Analysis (`NarrowingsFollowTheBoard`,
`AddressGivesItBack`), which has no proof yet. `ChipsAddUp`, `StatsAgree`, `TableTellsTheHand`,
`HandsAreReadBack`, `PokerAgrees`, `CategoriesAgree`, `ZoomsAddUp` and `TextGivesItBack` are
of what `Replay`, `Stats`, `TableView`, `HandHistory`, `Poker`, `LabBoard`, `Results` and
`RangeText` compute by induction over cards, lines or Actions, which the provers do not reach.

## What is abstracted

- Hands, names, Notes' text: model values, or left out.
- Checks a command opens with (authenticate, is a Participant, is the Master)
  count as one query, unless a race between two of them matters.
- `RoomLive`: a connection's name is used again once nothing of it is under way;
  `join`'s own `leave` of an earlier Room never has one to leave, as this
  program's browsers join only on opening a socket; no query takes a whole tick;
  commands of the Master's are offered to whoever is shown as Master.
- `RoomSync`: one socket per browser; presence reports and heartbeats carry no
  revision and are left to `Presence`.
- `Queue`: one Author for all the Hands of an import (`attribute` chooses by
  Screen Name); clocks never tie across imports; previews expire in `ImportDialog` only.
- `RoomHands`: one Hand to an import; storing it, reading back one stored by
  someone else and referring to it are one step; a closing's Hands are locked
  together, so its Hands are never locked in part; entries removed from a Queue
  still refer to their Hand and are not told apart; what hangs off a Hand (Notes,
  Marks, Tags, Stats, Playbacks) goes with it.
- `Presence`: nothing is lost within a socket, and a closed one is noticed at once by
  both sides; a heartbeat is acknowledged before the tab beats again; joining is one
  step; a tab draws one snapshot at a time; the Master stays Master and nobody is
  kicked. Of the tabs one is slow (`SlowTabs`) and the others take their messages first;
  round trips differ by less and by more than what is worth telling.
- `Accounts`: passwords are right or wrong; tokens and links are the names of the
  requests that made them; an hour, a day and a week are one unit of time each.
- `Session`: one tab of one browser; one anonymous identity at most.
- `Administration`: a list's total and rows are one step, though two queries; the Rooms keep
  their order of activity; an act is one step of the server; whoever comes back from an
  Impersonation opens the panel anew.
- `RoomPage`: Entries, Notes and Playback change under the page in any way a Room's
  may; Playback's own steps are in `Review`.
- `Library`, `LabRanges`, `Analysis`: the fields of a filter, the cells of a Range and
  the Categories are few and stand for the rest; text is left out but where it is
  read back.
- `ImportDialog`: the tabs of the dialog and the list it previews; what a file says is the
  Hands and discards of each reading.
- `HandHistory`: a line is a record of what it says; how an Amount, a card, a date or a
  currency is spelt, and the encodings of a file, are a line that can be read or cannot.
  Board cards are counted. Hands run twice are refused by CoinPoker's parser, and not
  written otherwise.
- `PokerTable`: hold'em with a Board run once; `Poker` and
  `LabBoard`: a short deck of the same structure.

Where documents and code differ the code is followed: the successor of a
Master is whoever of those present became a Participant of the Room first
(`joinedAt` of the membership), and a Room closes after 14 days (ADR 0009).

## Not modelled

- The spelling of Hand Histories (regular expressions, dates, currencies, encodings),
  summaries of Hands and run-it-twice Boards.
- Mail: wording and an external service.
- Marks on a Room's page: private messages that carry no revision; their one race is
  told above.
- The deadlock of two imports that store the same Hands in opposite orders
  (`hand-store.ts:164`): Postgres ends it with an error of one of them.
- The list of one's own Rooms, copies of Hands, filling in lost Hand Histories: single
  statements.
- Landing, settings, header, design system, translations: forms
  over single requests, and presentation. Two tabs of one browser that share storage.

## Plan

Done: `RoomSync`, `Queue`, `RoomHands`, `Accounts`, `Session`, `Review`, `RoomLive`,
`RoomPage`, `Presence`, `ImportDialog`, `Administration`, `LabRanges` and `Library` with
proofs; the rest of the Lab, Hand Histories and the arithmetic of Hands, checked.

Left, in order:

1. A proof of `AddressGivesItBack`.
2. `Session` with two tabs over one storage.
3. `Review` implementing the register of `RoomSync`, its Playback.
4. `RoomHands` with several Hands to an import, and the order they are stored in.
5. Marks of a Room's page against snapshots.
