------------------------------- MODULE Library -------------------------------
(***************************************************************************)
(* One person's Library, on the server (library.service.ts,                *)
(* tags.service.ts) and on their screen (LibraryPage.tsx, and the list of  *)
(* Hands being replayed in LibraryHandPage.tsx).                           *)
(*                                                                         *)
(* Everything the page shows hangs from the address: the filter, the sort, *)
(* the page and the Zoom. Each change of it, and each change of the        *)
(* Library made here, reads the list again, and the Results or the Stats   *)
(* if those are shown; the reads before it are no longer wanted, and their *)
(* answers are dropped. Another tab may change the same Library, and       *)
(* midnight moves what "today" means.                                      *)
(*                                                                         *)
(* Hands are numbers in played order. Poker Site stands for the three      *)
(* parts of the filter that work alike (Poker Sites, Heroes and Stakes).   *)
(***************************************************************************)
EXTENDS Results

CONSTANTS Failed,       \* an answer that did not come
          Filtered,     \* the replay of every Hand a filter keeps
          Hands,        \* the Hands there are
          At,           \* when each was played: two instants to a day, 2d is day d's midnight
          Site, Pot,    \* each Hand's Poker Site, and its pot in big blinds
          Taken,        \* the Hands behind the Stat asked about
          Since,        \* the first day of a day's week, month and year
          FirstDay,     \* the day the page is opened
          TagIds, Names,
          Ranges,       \* the quick ranges the person tries
          PageSize,
          MaxMoves, MaxCalls, MaxMishaps \* bounds of the exploration

ASSUME LibraryAssumption ==
    /\ IsFiniteSet(Hands) /\ PageSize \in Nat \ {0}
    /\ FirstDay \in Nat /\ None # FirstDay /\ None # FirstDay + 1

VARIABLES
    library, marks, tags, links, \* the server's: Hands, Marks, Tags by id, <<Tag, Hand>>
    today,
    history,      \* the browser's: entries [view, search, hand, replay, from]
    filter,       \* the filter read from the address when it last changed
    load, results, summary, \* what has been read: None, Failed or the answer
    selected,     \* the Hands ticked
    asks,         \* reads in flight whose answer is still wanted
    calls,        \* changes in flight, each with what its closure holds
    lastFiltered, \* the filtered list fetched last, kept between pages
    outdated,     \* the kinds of reads something changed behind, without asking again
    strayed,      \* the page may lie past the end for a reason removals don't handle
    turned,       \* midnight has passed since the address was read
    spent         \* what has been used of each bound

server == <<library, marks, tags, links>>
screen == <<history, filter, load, results, summary, selected>>
ghosts == <<outdated, strayed, turned>>
libraryVars == <<server, today, screen, asks, calls, lastFiltered, ghosts, spent>>

----------------------------------------------------------------------------
(* The filter and the address. *)

Newest == [by |-> "date", dir |-> "desc"]
QuickRanges == <<"today", "yesterday", "this-week", "this-month", "this-year", "all-time">>

QuickRange(range, day) ==
    CASE range = "today" -> [from |-> day, to |-> day]
      [] range = "yesterday" -> [from |-> day - 1, to |-> day - 1]
      [] range = "all-time" -> [from |-> None, to |-> None]
      [] OTHER -> [from |-> Since[range][day], to |-> day]

WithPeriod(f, days) == [f EXCEPT !.from = days.from, !.to = days.to]
Days(f) == [from |-> f.from, to |-> f.to]

EmptyFilter == [from |-> None, to |-> None, sites |-> {}, marked |-> FALSE, tags |-> {}, stat |-> FALSE]
DefaultFilter(day) == WithPeriod(EmptyFilter, QuickRange("today", day))
IsDefaultBesidesPeriod(f) == WithPeriod(f, Days(EmptyFilter)) = EmptyFilter

\* Days two quick ranges share are named by the shorter.
PeriodOf(days, day) ==
    LET named == {i \in DOMAIN QuickRanges : QuickRange(QuickRanges[i], day) = days}
    IN IF named = {} THEN "custom" ELSE QuickRanges[Min(named)]

\* An address: the default period is left out, and all time has a word of its own.
LibrarySearch(f, day) ==
    [from |-> IF Days(f) = QuickRange("today", day) THEN None ELSE f.from,
     to |-> IF Days(f) = QuickRange("today", day) THEN None ELSE f.to,
     all |-> f.from = None /\ f.to = None,
     sites |-> f.sites, marked |-> f.marked, tags |-> f.tags, stat |-> f.stat,
     sort |-> Newest, page |-> 1, zoom |-> None]

ReadFilter(search, day) ==
    LET days == IF search.from # None \/ search.to # None \/ search.all
                THEN Days(search) ELSE QuickRange("today", day)
    IN [from |-> days.from, to |-> days.to, sites |-> search.sites,
        marked |-> search.marked, tags |-> search.tags, stat |-> search.stat]

FilteredBy(search) == [search EXCEPT !.page = 1, !.zoom = None]

NextSort(current, by) ==
    [by |-> by, dir |-> IF current.by = by /\ current.dir = "desc" THEN "asc" ELSE "desc"]

----------------------------------------------------------------------------
(* What the server answers. *)

Keeps(f) ==
    {h \in library :
        /\ f.from # None => At[h] >= 2 * f.from
        /\ f.to # None => At[h] < 2 * (f.to + 1)
        /\ f.sites = {} \/ Site[h] \in f.sites
        /\ f.marked => h \in marks
        /\ f.tags = {} \/ \E t \in f.tags : <<t, h>> \in links
        /\ f.stat => h \in Taken}

\* Ties are broken newest first, whichever way the column goes.
Before(sort, a, b) ==
    LET key(h) == IF sort.by = "date" THEN h ELSE Pot[h]
    IN IF key(a) = key(b) THEN a > b
       ELSE IF sort.dir = "desc" THEN key(a) > key(b) ELSE key(a) < key(b)

InOrder(hands, sort) ==
    [i \in 1..Cardinality(hands) |->
        CHOOSE h \in hands : Cardinality({g \in hands : Before(sort, g, h)}) = i - 1]

Rows(f, sort, page) ==
    LET all == InOrder(Keeps(f), sort)
        shown == SubSeq(all, (page - 1) * PageSize + 1, Min({page * PageSize, Len(all)}))
    IN [i \in DOMAIN shown |-> [id |-> shown[i], marked |-> shown[i] \in marks,
                                tags |-> {t \in TagIds : <<t, shown[i]>> \in links}]]

\* Five queries, each on its own: the total first here, the rest together.
Total(f) == Cardinality(Keeps(f))
Page(f, sort, page, total) ==
    [total |-> total, page |-> page, hands |-> Rows(f, sort, page), tags |-> tags,
     sites |-> {Site[h] : h \in library},
     all |-> Cardinality(library), marked |-> Cardinality(marks \cap library)]

Pages(total) == Max({1, (total + PageSize - 1) \div PageSize})

----------------------------------------------------------------------------
(* Reads: of the list always, of the Results and the Stats when shown. *)

Kinds == {"list", "results", "stats"}
Shown(view) == {"list"} \cup (IF view = "graph" THEN {"results"} ELSE IF view = "stats" THEN {"stats"} ELSE {})

Ask(kind, search, f) ==
    [kind |-> kind, filter |-> f, sort |-> search.sort, page |-> search.page, zoom |-> search.zoom,
     total |-> None, answer |-> None]

\* Bug: the reads before it are still taken when they come.
Rerun_Late(kinds, view, search, f) ==
    asks \cup {Ask(k, search, f) : k \in kinds \cap Shown(view)}

\* The effects of these kinds run again: the answers they waited for are not wanted any more.
Rerun(kinds, view, search, f) ==
    {a \in asks : a.kind \notin kinds} \cup {Ask(k, search, f) : k \in kinds \cap Shown(view)}

OnLibrary == history.now.view # "hand"
Here == history.now
Reading == \E a \in asks : a.kind = "list"
Loaded == OnLibrary /\ load \notin {None, Failed}
Removing == \E c \in calls : c.kind = "remove"

\* The list on screen, if there is one and no other is coming, has no such page.
Beyond(page) == /\ page > 1 /\ page # Here.search.page
                /\ Reading \/ ~Loaded \/ page > Pages(load.total)

LibraryAt(view, search) == [view |-> view, search |-> search, hand |-> None, replay |-> None, from |-> None]

\* The history moves, and the page follows the address: a new one when a Hand was left for it.
Arrive(h) ==
    LET e == h.now
        stays == OnLibrary /\ e.view # "hand"
        sameSearch == stays /\ Here.search = e.search
        f == IF sameSearch THEN filter ELSE ReadFilter(e.search, today)
        rerun == IF ~sameSearch THEN Kinds
                 ELSE IF Here.view = e.view THEN {} ELSE {"results", "stats"}
        sameHands == stays /\ FilteredBy(Here.search) = FilteredBy(e.search)
    IN /\ history' = h
       /\ filter' = (IF e.view = "hand" THEN None ELSE f)
       /\ load' = (IF stays THEN load ELSE None)
       /\ results' = (IF sameHands THEN results ELSE None)
       /\ summary' = (IF sameHands THEN summary ELSE None)
       /\ asks' = (IF e.view = "hand"
                   THEN IF e.replay = Filtered /\ (lastFiltered = None \/ lastFiltered.search # e.search)
                        THEN {a \in asks : a.kind = "ids"} \cup {Ask("ids", e.search, ReadFilter(e.search, today))}
                        ELSE {a \in asks : a.kind = "ids"}
                   ELSE Rerun(rerun, e.view, e.search, f))
       /\ outdated' = outdated \ (rerun \cap Shown(e.view))
       /\ turned' = (IF sameSearch THEN turned ELSE FALSE)
       /\ strayed' = (IF sameHands THEN strayed \/ Beyond(e.search.page)
                      ELSE e.search.page > 1 \/ (strayed /\ Removing))

\* A change made here is read again wherever the person is; the page that asked may be gone.
Bump(h) ==
    /\ asks' = (IF h.now.view = "hand" THEN asks ELSE Rerun(Kinds, h.now.view, h.now.search, filter))
    /\ outdated' = outdated \ Shown(h.now.view)

Move == /\ spent.moves + spent.mishaps < MaxMoves
        /\ spent' = [spent EXCEPT !.moves = @ + 1]

RowIds == {load.hands[i].id : i \in DOMAIN load.hands}
SelectedHands == IF Loaded THEN selected \cap RowIds ELSE {}

WithSort(search, sort) == [search EXCEPT !.sort = sort]
ChangeFilterFrom(e, next) == LibraryAt(e.view, WithSort(LibrarySearch(next, today), e.search.sort))

----------------------------------------------------------------------------
(* The controls: collections, tags, quick ranges, the way out of nothing.  *)

Toggled(set, x) == IF x \in set THEN set \ {x} ELSE set \cup {x}

Offered ==
    {[filter EXCEPT !.marked = m] : m \in BOOLEAN}
    \cup (IF ~Loaded THEN {} ELSE
            {[filter EXCEPT !.tags = Toggled(@, t)] : t \in DOMAIN load.tags}
            \cup (IF load.all = 0 THEN {} ELSE
                    {WithPeriod(filter, QuickRange(r, today)) : r \in Ranges}
                    \cup {[filter EXCEPT !.sites = Toggled(@, s)] : s \in load.sites}
                    \cup {[filter EXCEPT !.stat = FALSE]})
            \cup (IF load.total # 0 \/ load.all = 0 THEN {} ELSE
                    LET period == PeriodOf(Days(filter), today)
                    IN IF IsDefaultBesidesPeriod(filter) /\ period \notin {"custom", "all-time"}
                       THEN {EmptyFilter} ELSE {DefaultFilter(today)}))

ChangeFilter ==
    /\ OnLibrary /\ Move
    /\ \E next \in Offered : Arrive(Redirect(history, ChangeFilterFrom(Here, next)))
    /\ selected' = (IF FilteredBy(history'.now.search) = FilteredBy(Here.search) THEN selected ELSE {})
    /\ UNCHANGED <<server, today, calls, lastFiltered>>

ChangeSort ==
    /\ Loaded /\ Here.view = "list" /\ load.hands # <<>> /\ Move
    /\ \E by \in {"date", "pot"} :
           Arrive(Redirect(history, LibraryAt("list",
               [Here.search EXCEPT !.sort = NextSort(@, by), !.page = 1])))
    /\ selected' = {}
    /\ UNCHANGED <<server, today, calls, lastFiltered>>

GoToPage ==
    /\ Loaded /\ Here.view = "list" /\ load.hands # <<>> /\ Move
    /\ \E n \in {load.page - 1, load.page + 1} \cap 1..Pages(load.total) :
           Arrive(Redirect(history, LibraryAt("list", [Here.search EXCEPT !.page = n])))
    /\ selected' = {}
    /\ UNCHANGED <<server, today, calls, lastFiltered>>

ShowView ==
    /\ OnLibrary /\ Move
    /\ \E view \in {"list", "graph", "stats"} \ {Here.view} :
           Arrive(Navigate(history, LibraryAt(view, Here.search)))
    /\ selected' = {}
    /\ UNCHANGED <<server, today, calls, lastFiltered>>

\* A Stat's figure leads to the Hands behind it.
OpenStat ==
    /\ Loaded /\ Here.view = "stats" /\ load.total > 0 /\ summary \notin {None, Failed} /\ summary.hands # {}
    /\ Move
    /\ Arrive(Navigate(history, [ChangeFilterFrom(Here, [filter EXCEPT !.stat = TRUE]) EXCEPT !.view = "list"]))
    /\ selected' = {}
    /\ UNCHANGED <<server, today, calls, lastFiltered>>

ZoomTo(zoom) ==
    /\ Arrive(Redirect(history, LibraryAt("graph", [Here.search EXCEPT !.zoom = zoom])))
    /\ UNCHANGED <<server, today, selected, calls, lastFiltered>>

GraphShown == Loaded /\ Here.view = "graph" /\ load.total > 0 /\ results # None /\ results.hands # {}
Zoom ==
    /\ GraphShown /\ Cardinality(results.hands) > 1 /\ Move
    /\ ZoomTo([from |-> 1, to |-> 2])
LeaveZoom == GraphShown /\ results.zoom # None /\ Move /\ ZoomTo(None)

Select ==
    /\ Loaded /\ Here.view = "list" /\ Move
    /\ \E h \in RowIds : selected' = Toggled(selected, h)
    /\ UNCHANGED <<server, today, history, filter, load, results, summary, asks, calls, lastFiltered, ghosts>>

----------------------------------------------------------------------------
(* Opening Hands: one, the ones selected, or every one the filter keeps.   *)

HandEntry(hand, replay, search, from) ==
    [view |-> "hand", search |-> search, hand |-> hand, replay |-> replay, from |-> from]

Open(hand, replay, search) ==
    Arrive(Navigate(history, HandEntry(hand, replay, search, Here.search)))

OpenHand ==
    /\ Loaded /\ Here.view = "list" /\ Move
    /\ \E h \in RowIds : Open(h, None, Here.search)
    /\ selected' = {}
    /\ UNCHANGED <<server, today, calls, lastFiltered>>

PlaySelected ==
    /\ Loaded /\ SelectedHands # {} /\ Move
    /\ LET ids == SelectSeq([i \in DOMAIN load.hands |-> load.hands[i].id], LAMBDA h : h \in selected)
       IN Open(ids[1], ids, Here.search)
    /\ selected' = {}
    /\ UNCHANGED <<server, today, calls, lastFiltered>>

\* The list is asked for, and its first Hand opened once it is there.
Call(kind) == [kind |-> kind, at |-> Here, filter |-> filter, hands |-> {}, tag |-> None, name |-> None,
               on |-> TRUE, total |-> IF Loaded THEN load.total ELSE 0, done |-> "sent", ids |-> <<>>]
Send(call) ==
    /\ Cardinality(calls) < MaxCalls
    /\ Move
    /\ calls' = calls \cup {call}
    /\ strayed' = (strayed \/ (call.kind = "remove" /\ (Reading \/ Removing)))
    /\ UNCHANGED <<server, today, screen, asks, lastFiltered, outdated, turned>>

PlayFiltered == Loaded /\ load.total > 0 /\ SelectedHands = {} /\ Send(Call("play"))

ReplayIds == IF Here.replay # Filtered THEN IF Here.replay = None THEN <<>> ELSE Here.replay
             ELSE IF lastFiltered # None /\ lastFiltered.search = Here.search THEN lastFiltered.ids ELSE <<>>

\* J and K: a Hand no longer in the list leads to its start.
ReplayNext ==
    /\ ~OnLibrary /\ Move
    /\ LET at == IF \E i \in DOMAIN ReplayIds : ReplayIds[i] = Here.hand
                 THEN CHOOSE i \in DOMAIN ReplayIds : ReplayIds[i] = Here.hand ELSE 0
       IN \E to \in {at - 1, at + 1} \cap DOMAIN ReplayIds :
              history' = Redirect(history, [Here EXCEPT !.hand = ReplayIds[to]])
    /\ UNCHANGED <<server, today, filter, load, results, summary, selected, asks, calls, lastFiltered, ghosts>>

Back ==
    /\ CanGoBack(history) /\ Move
    /\ Arrive(GoBack(history))
    /\ selected' = (IF OnLibrary /\ history'.now.view # "hand"
                       /\ FilteredBy(history'.now.search) = FilteredBy(Here.search) THEN selected ELSE {})
    /\ UNCHANGED <<server, today, calls, lastFiltered>>

----------------------------------------------------------------------------
(* Changes: sent with what the page shows now, applied when the server     *)
(* gets to them, and answered by the closure they were sent with.          *)

SendMark == Loaded /\ Here.view = "list" /\ \E i \in DOMAIN load.hands :
    Send([Call("mark") EXCEPT !.hands = {load.hands[i].id}, !.on = ~load.hands[i].marked])
SendCreateTag == Loaded /\ \E n \in Names : Send([Call("create") EXCEPT !.name = n])
SendRenameTag == Loaded /\ \E t \in DOMAIN load.tags, n \in Names :
    Send([Call("rename") EXCEPT !.tag = t, !.name = n])
SendDeleteTag == Loaded /\ \E t \in DOMAIN load.tags : Send([Call("delete") EXCEPT !.tag = t])
SendSetTag == Loaded /\ SelectedHands # {} /\ \E t \in DOMAIN load.tags, on \in BOOLEAN :
    Send([Call("tag") EXCEPT !.tag = t, !.hands = SelectedHands, !.on = on])
SendRemove == Loaded /\ SelectedHands # {} /\ Send([Call("remove") EXCEPT !.hands = SelectedHands])
SendImport == OnLibrary /\ \E h \in Hands : Send([Call("import") EXCEPT !.hands = {h}])

Free == TagIds \ DOMAIN tags
\* What each change does to the Library, and whether it is refused.
Refused(c) ==
    \/ c.kind \in {"mark", "tag", "remove"} /\ ~(c.hands \subseteq library)
    \/ c.kind \in {"rename", "delete", "tag"} /\ c.tag \notin DOMAIN tags
    \/ c.kind = "create" /\ \E t \in DOMAIN tags : tags[t] = c.name
    \/ c.kind = "rename" /\ \E t \in DOMAIN tags \ {c.tag} : tags[t] = c.name

Change(c) ==
    /\ library' = CASE c.kind = "remove" -> library \ c.hands
                    [] c.kind = "import" -> library \cup c.hands
                    [] OTHER -> library
    /\ marks' = CASE c.kind = "mark" /\ c.on -> marks \cup c.hands
                  [] c.kind = "mark" /\ ~c.on -> marks \ c.hands
                  [] OTHER -> marks
    /\ links' = CASE c.kind = "remove" -> {l \in links : l[2] \notin c.hands}
                  [] c.kind = "delete" -> {l \in links : l[1] # c.tag}
                  [] c.kind = "tag" /\ c.on -> links \cup ({c.tag} \X c.hands)
                  [] c.kind = "tag" /\ ~c.on -> links \ ({c.tag} \X c.hands)
                  [] OTHER -> links
    /\ tags' = CASE c.kind = "create" ->
                        [t \in DOMAIN tags \cup {CHOOSE t \in Free : TRUE} |->
                            IF t \in DOMAIN tags THEN tags[t] ELSE c.name]
                 [] c.kind = "rename" -> [tags EXCEPT ![c.tag] = c.name]
                 [] c.kind = "delete" -> [t \in DOMAIN tags \ {c.tag} |-> tags[t]]
                 [] OTHER -> tags

\* A Hand that leaves the filter without a removal may leave the page past the end.
Narrows(c) == c.kind \in {"delete", "rename"} \/ (c.kind \in {"mark", "tag"} /\ ~c.on)

Serve(c) ==
    /\ c.done = "sent"
    /\ c.kind = "create" => Free # {}
    /\ IF c.kind = "play" THEN UNCHANGED server
       ELSE IF Refused(c) THEN UNCHANGED server
       ELSE Change(c)
    /\ calls' = (calls \ {c}) \cup
           {[c EXCEPT !.done = IF c.kind # "play" /\ Refused(c) THEN "refused" ELSE "done",
                      !.ids = IF c.kind = "play" THEN InOrder(Keeps(c.filter), c.at.search.sort) ELSE <<>>,
                      !.hands = IF c.kind = "import" THEN @ \ library ELSE @]}
    /\ strayed' = (strayed \/ (~Refused(c) /\ Narrows(c)))
    /\ UNCHANGED <<today, screen, asks, lastFiltered, outdated, turned, spent>>

\* After a removal the page steps back to the last one its closure leaves.
SteppedBack(c) ==
    Min({c.at.search.page, Max({1, (c.total - Cardinality(c.hands) + PageSize - 1) \div PageSize})})

\* The answer, handled by the closure: the address it goes to, if any, and a read of everything.
Lands(c) == \/ c.kind = "remove"
            \/ c.kind = "import" /\ c.hands # {}
            \/ c.kind = "delete" /\ c.tag \in c.filter.tags
LandsOn(c) ==
    CASE c.kind = "remove" -> LibraryAt(c.at.view, [c.at.search EXCEPT !.page = SteppedBack(c)])
      [] c.kind = "import" -> LibraryAt(c.at.view, [c.at.search EXCEPT !.page = 1])
      [] OTHER -> ChangeFilterFrom(c.at, [c.filter EXCEPT !.tags = @ \ {c.tag}])

Land(c, e) ==
    LET h == Redirect(history, e)
        stays == OnLibrary /\ Here.search = e.search
        f == IF stays THEN filter ELSE ReadFilter(e.search, today)
        sameHands == OnLibrary /\ FilteredBy(Here.search) = FilteredBy(e.search)
    IN /\ history' = h
       /\ filter' = f
       /\ load' = (IF OnLibrary THEN load ELSE None)
       /\ results' = (IF sameHands THEN results ELSE None)
       /\ summary' = (IF sameHands THEN summary ELSE None)
       /\ selected' = (IF c.kind \in {"remove", "import"} \/ ~sameHands THEN {} ELSE selected)
       /\ asks' = Rerun(Kinds, e.view, e.search, f)
       /\ outdated' = outdated \ Shown(e.view)
       /\ turned' = (IF stays THEN turned ELSE FALSE)
       \* A closure older than the filter on screen knows another total.
       /\ strayed' = (strayed \/ ~sameHands)

Settled(c) ==
    /\ c.done # "sent"
    /\ calls' = calls \ {c}
    /\ LET ok == c.done = "done" IN
       IF ok /\ Lands(c) THEN Land(c, LandsOn(c))
       ELSE IF c.kind = "play" THEN
            IF c.ids # <<>>
            THEN /\ Arrive(Navigate(history, HandEntry(c.ids[1], Filtered, [c.at.search EXCEPT !.page = 1],
                                                      c.at.search)))
                 /\ selected' = {}
            ELSE UNCHANGED <<screen, asks, ghosts>>
       ELSE IF ok \/ c.kind \in {"mark", "remove", "import"}
       THEN Bump(history) /\ UNCHANGED <<screen, strayed, turned>>
       ELSE UNCHANGED <<screen, asks, ghosts>>
    /\ UNCHANGED <<server, today, lastFiltered, spent>>

\* A lost answer, another tab, midnight.
Mishap == /\ spent.mishaps < MaxMishaps /\ spent.moves + spent.mishaps < MaxMoves
          /\ spent' = [spent EXCEPT !.mishaps = @ + 1]

\* The answer is lost: a Mark and a removal read again all the same, a Tag's change does not.
LoseAnswer(c) ==
    /\ Mishap
    /\ calls' = calls \ {c}
    /\ IF c.kind \in {"mark", "remove", "import"}
       THEN /\ Bump(history)
            /\ strayed' = (strayed \/ c.kind = "remove")
            /\ UNCHANGED <<screen, turned>>
       ELSE /\ outdated' = (IF c.kind = "play" THEN outdated ELSE Kinds)
            /\ UNCHANGED <<screen, asks, strayed, turned>>
    /\ c.done # "sent"
    /\ UNCHANGED <<server, today, lastFiltered>>

----------------------------------------------------------------------------
(* Answers to reads. *)

ReadTotal(a) ==
    /\ a.kind = "list" /\ a.total = None
    /\ asks' = (asks \ {a}) \cup {[a EXCEPT !.total = Total(a.filter)]}
    /\ UNCHANGED <<server, today, screen, calls, lastFiltered, ghosts, spent>>

ReadAnswer(a) ==
    /\ a.answer = None /\ (a.kind = "list" => a.total # None)
    /\ asks' = (asks \ {a}) \cup {[a EXCEPT !.answer =
           CASE a.kind = "list" -> Page(a.filter, a.sort, a.page, a.total)
             [] a.kind = "ids" -> [ids |-> InOrder(Keeps(a.filter), a.sort)]
             [] a.kind = "results" -> [of |-> a.filter, hands |-> Keeps(a.filter),
                    zoom |-> IF a.zoom = None THEN None
                             ELSE ZoomOf(a.zoom.from, a.zoom.to, Cardinality(Keeps(a.filter)))]
             [] OTHER -> [of |-> a.filter, hands |-> Keeps(a.filter)]]}
    /\ UNCHANGED <<server, today, screen, calls, lastFiltered, ghosts, spent>>

Take(a, answer) ==
    /\ asks' = asks \ {a}
    /\ load' = (IF a.kind = "list" THEN answer ELSE load)
    /\ results' = (IF a.kind = "results" THEN IF answer = Failed THEN None ELSE answer ELSE results)
    /\ summary' = (IF a.kind = "stats" THEN answer ELSE summary)
    /\ lastFiltered' = (IF a.kind = "ids" /\ answer # Failed
                        THEN [search |-> [Here.search EXCEPT !.sort = a.sort], ids |-> answer.ids] ELSE lastFiltered)
    /\ UNCHANGED <<server, today, history, filter, selected, calls, ghosts>>

TakeAnswer(a) == a.answer # None /\ Take(a, a.answer) /\ UNCHANGED spent
ReadFails(a) == a.answer = None /\ Mishap /\ Take(a, Failed)

----------------------------------------------------------------------------
\* Another tab of the same Account removes a Hand or Marks one; midnight passes.
Elsewhere ==
    /\ Mishap
    /\ \E h \in library :
           \/ library' = library \ {h} /\ links' = {l \in links : l[2] # h} /\ UNCHANGED marks
           \/ marks' = Toggled(marks, h) /\ UNCHANGED <<library, links>>
    /\ outdated' = Kinds
    /\ strayed' = TRUE
    /\ UNCHANGED <<tags, today, screen, asks, calls, lastFiltered, turned>>

Midnight ==
    /\ today = FirstDay /\ Mishap
    /\ today' = today + 1
    /\ turned' = TRUE /\ strayed' = TRUE
    /\ UNCHANGED <<server, screen, asks, calls, lastFiltered, outdated>>

LibraryInit ==
    /\ library = Hands \ {Max(Hands)} /\ marks = {Min(Hands)}
    /\ LET t == CHOOSE t \in TagIds : TRUE
       IN tags = [x \in {t} |-> CHOOSE n \in Names : TRUE] /\ links = {t} \X library
    /\ today = FirstDay
    /\ \E f \in {EmptyFilter, DefaultFilter(FirstDay)}, page \in 1..2 :
           LET search == [LibrarySearch(f, today) EXCEPT !.page = page] IN
           /\ history = OpenedAt(LibraryAt("list", search))
           /\ filter = f
           /\ asks = {Ask("list", search, f)}
           /\ strayed = (page > Pages(Total(f)))
    /\ load = None /\ results = None /\ summary = None /\ selected = {}
    /\ calls = {} /\ lastFiltered = None
    /\ outdated = {} /\ turned = FALSE
    /\ spent = [moves |-> 0, mishaps |-> 0]

LibraryNext ==
    \/ ChangeFilter \/ ChangeSort \/ GoToPage \/ ShowView \/ OpenStat \/ Zoom \/ LeaveZoom \/ Select
    \/ OpenHand \/ PlaySelected \/ PlayFiltered \/ ReplayNext \/ Back
    \/ SendMark \/ SendCreateTag \/ SendRenameTag \/ SendDeleteTag \/ SendSetTag \/ SendRemove \/ SendImport
    \/ \E c \in calls : Serve(c) \/ Settled(c) \/ LoseAnswer(c)
    \/ \E a \in asks : ReadTotal(a) \/ ReadAnswer(a) \/ TakeAnswer(a) \/ ReadFails(a)
    \/ Elsewhere \/ Midnight

LibrarySpec == LibraryInit /\ [][LibraryNext]_libraryVars

----------------------------------------------------------------------------
Quiet == asks = {} /\ calls = {}

\* Nothing steps back for a Mark or a Tag taken off, another tab, midnight, two
\* removals at once, one whose filter was left meanwhile, a page gone back to, or
\* one chosen while the list shown is still of another filter.
StepsBack == Quiet /\ Loaded /\ ~strayed /\ outdated = {} => load.hands # <<>> \/ load.total = 0

(* Whatever was clicked, sent, lost or answered late, the Results and the  *)
(* Stats on screen are of the filter the list is read with (but across     *)
(* midnight, when the same address asks for other days); once nothing      *)
(* is in flight and no other tab has changed it, all three say what the    *)
(* server would say now; and the address gives the same Hands back, all    *)
(* its quick ranges included, to a reload the same day. Taking Hands out   *)
(* never leaves the list on a page with none while there are some on an    *)
(* earlier one: it steps back (LibraryPage.tsx).                           *)
ShowsWhatIsAsked ==
    library # None /\ OnLibrary =>
        /\ StepsBack
        /\ today = FirstDay /\ results # None => results.of = filter
        /\ today = FirstDay /\ summary \notin {None, Failed} => summary.of = filter
        /\ ~turned => ReadFilter(Here.search, today) = filter
        /\ \A i \in DOMAIN QuickRanges :
               LET f == WithPeriod(filter, QuickRange(QuickRanges[i], today))
               IN ReadFilter(LibrarySearch(f, today), today) = f
        /\ Quiet /\ load # Failed /\ "list" \notin outdated =>
               load = Page(filter, Here.search.sort, Here.search.page, Total(filter))
        /\ Quiet /\ Here.view = "graph" /\ results # None /\ "results" \notin outdated =>
               results.hands = Keeps(filter)
        /\ Quiet /\ Here.view = "stats" /\ summary # Failed /\ "stats" \notin outdated =>
               summary.hands = Keeps(filter)
=============================================================================
