------------------------------ MODULE LabRanges ------------------------------
(***************************************************************************)
(* The Lab's Ranges: the saved ones on the server (ranges.service.ts,      *)
(* lab-tags.service.ts), and the page that edits one of them               *)
(* (LabRangesPage.tsx).                                                    *)
(*                                                                         *)
(* The address says which Range is open. The page holds a draft and what   *)
(* the Range was last saved as; whatever would throw the draft away asks   *)
(* first. A save, a duplicate or a deletion is one at a time on a page,    *)
(* but the person may open another Range, or leave, before its answer.     *)
(*                                                                         *)
(* A Range is [name, tags, combos]: Tags by id, whose names are left out,  *)
(* and Combos one of a few. Leaving for the Analysis stands for leaving    *)
(* for any other page.                                                     *)
(***************************************************************************)
EXTENDS Routing, FiniteSetsExt

CONSTANTS RangeIds, LabTagIds, RangeNames, Combos,
          NoCombos, \* the empty matrix, in Combos
          MaxSteps, MaxFaults \* bounds of the exploration

ASSUME LabAssumption ==
    /\ RangeIds # {} /\ LabTagIds # {} /\ RangeNames # {}
    /\ NoCombos \in Combos /\ Combos # {NoCombos}
    /\ Away # None /\ None \notin RangeIds \cup LabTagIds /\ Away \notin RangeIds

VARIABLES
    ranges, labTags, \* the server's: saved Ranges by id, and Tags
    minted,          \* ids ever given, to Ranges and to Tags
    trail,           \* the browser's history: a Range's id, None for a new one, or Away
    draft, baseline, \* what the page edits, and [id, draft] it was last saved as
    unopened,        \* the Range at this address could not be opened
    busy,            \* a save, duplicate or deletion of this page is under way
    pendingLeave,    \* where the person was going when asked, or None
    list, seenTags, chosen, \* the side column: Ranges, Tags, and the Tags filtered by
    reads,           \* reads in flight whose answer is still wanted
    requests,        \* changes in flight, each with what its closure holds
    mine,            \* what the person last made of the draft, until saved or given up
    unsure,          \* answers unsure, one was lost, or another tab changed something
    faults, steps    \* what has been used of each bound

saved == <<ranges, labTags, minted>>
page == <<draft, baseline, unopened, busy, pendingLeave, list, seenTags, chosen>>
labVars == <<saved, trail, page, reads, requests, mine, unsure, faults, steps>>

----------------------------------------------------------------------------
\* What is edited, and what a Range is saved as.
Drafts == [name : RangeNames \cup {None}, tags : SUBSET LabTagIds, combos : Combos]
SavedRange == [id : RangeIds, draft : Drafts]
ASSUME NoneIsNoRange == None \notin SavedRange

NewDraft == [name |-> None, tags |-> {}, combos |-> NoCombos]
NewBaseline == [id |-> None, draft |-> NewDraft]
OpenId == trail.now
OnRanges == OpenId # Away

\* Bug: a Range's Tags are not compared.
Dirty_NoTags == draft.name # baseline.draft.name \/ draft.combos # baseline.draft.combos

\* Whether something would be lost: the name, the Tags or the Combos.
Dirty == draft # baseline.draft

Opening == OpenId # None /\ OpenId # baseline.id /\ ~unopened

\* The side column: the Ranges carrying any of the Tags chosen.
Listed(tags) == {id \in DOMAIN ranges : tags = {} \/ ranges[id].tags \cap tags # {}}
Read(kind, of) == [kind |-> kind, of |-> of, answer |-> None]

\* Its Ranges and its Tags, read again when something changed here; answers still to come are dropped.
Side(changed, tags) ==
    IF changed THEN {Read("side", tags)} ELSE {r \in reads : r.kind = "side"}
Openings == {r \in reads : r.kind = "open"}

\* Opening another Range gives up the one being opened; one already open is not read.
Wanted(e, already) == IF already \/ e = None THEN {} ELSE {Read("open", e)}

\* A save of the Range being opened, or a Tag's deletion, is still on its way.
Underway(id) == \E q \in requests : q.id = id \/ q.tag # None

----------------------------------------------------------------------------
(* Where the history goes, the page follows. `wanted` are the reads kept,  *)
(* `base` and `work` the baseline and the draft as the caller leaves them. *)

Given(asked) == mine' = (IF asked \/ mine = baseline.draft THEN None ELSE mine)

Unmount ==
    /\ draft' = NewDraft /\ baseline' = NewBaseline /\ unopened' = FALSE /\ busy' = FALSE
    /\ pendingLeave' = None /\ list' = None /\ seenTags' = {} /\ chosen' = {}

Abandoned == {[q EXCEPT !.dead = TRUE] : q \in requests}

\* The page is opened afresh, by its address.
Mount(e) ==
    /\ Unmount
    /\ reads' = {Read("side", {})} \cup Wanted(e, FALSE)

\* The page is at h's address, its baseline and draft as the caller leaves them.
Enter(h, base, work, changed) ==
    LET e == h.now
        already == e # None /\ e = base.id
        stays == e = OpenId \/ already
    IN /\ trail' = h
       /\ draft' = (IF stays THEN work ELSE NewDraft)
       /\ baseline' = (IF stays THEN base ELSE NewBaseline)
       /\ unopened' = (unopened /\ stays)
       /\ reads' = Side(changed, chosen) \cup (IF e = OpenId THEN Openings ELSE Wanted(e, already))
       /\ unsure' = (unsure \/ (~stays /\ Underway(e)) \/ (stays /\ base.id # e))
       /\ UNCHANGED <<list, seenTags, chosen>>

\* Going on, nothing holding the page up any more.
Go(h, asked) ==
    /\ Given(asked)
    /\ IF h.now = Away
       THEN /\ Unmount /\ trail' = h /\ reads' = {} /\ requests' = Abandoned
            /\ unsure' = (unsure \/ requests # {})
       ELSE IF ~OnRanges
       THEN Mount(h.now) /\ trail' = h /\ UNCHANGED <<requests, unsure>>
       ELSE Enter(h, baseline, draft, FALSE) /\ pendingLeave' = None /\ UNCHANGED <<busy, requests>>

\* Unsaved changes ask first.
AskFirst(go) ==
    /\ pendingLeave' = go
    /\ UNCHANGED <<draft, baseline, unopened, busy, list, seenTags, chosen, reads, mine, unsure>>

Step == faults + steps < MaxSteps /\ steps' = steps + 1 /\ UNCHANGED faults
Fault == faults < MaxFaults /\ faults + steps < MaxSteps /\ faults' = faults + 1 /\ UNCHANGED steps

NavigateTo(e) ==
    IF Dirty
    THEN AskFirst([kind |-> "navigate", to |-> e]) /\ UNCHANGED <<trail, requests>>
    ELSE Go(Navigate(trail, e), FALSE)

OpenRange ==
    /\ OnRanges /\ list # None /\ Step
    /\ \E id \in list : id # OpenId /\ NavigateTo(id)
    /\ UNCHANGED saved

LeavePage == OnRanges /\ Step /\ NavigateTo(Away) /\ UNCHANGED saved

\* The Combos go along in the address: only a changed name or Tags ask.
Analyse ==
    /\ OnRanges /\ Step
    /\ IF draft.name = baseline.draft.name /\ draft.tags = baseline.draft.tags
       THEN Go(Navigate(trail, Away), TRUE)
       ELSE NavigateTo(Away)
    /\ UNCHANGED saved

\* From another page, a link to the Ranges.
ComeBack == ~OnRanges /\ Step /\ Go(Navigate(trail, None), FALSE) /\ UNCHANGED saved

\* The browser has gone back by the time the page is asked: a Back held up is put back.
LabBack ==
    /\ CanGoBack(trail) /\ Step
    /\ IF OnRanges /\ Dirty
       THEN /\ AskFirst([kind |-> "back", to |-> Last(trail.past)])
            /\ trail' = HeldBack(trail, OpenId)
            /\ UNCHANGED requests
       ELSE Go(GoBack(trail), FALSE)
    /\ UNCHANGED saved

StartOver(asked) ==
    LET h == IF OpenId = None THEN trail ELSE Navigate(trail, None) IN
    /\ Given(asked)
    /\ trail' = h
    /\ draft' = NewDraft /\ baseline' = NewBaseline /\ unopened' = FALSE
    /\ pendingLeave' = None
    /\ reads' = Side(FALSE, chosen)
    /\ UNCHANGED <<busy, list, seenTags, chosen, requests, unsure>>

StartNew ==
    /\ OnRanges /\ Step
    /\ IF Dirty THEN AskFirst([kind |-> "new", to |-> None]) /\ UNCHANGED <<trail, requests>> ELSE StartOver(FALSE)
    /\ UNCHANGED saved

Discard ==
    /\ pendingLeave # None
    /\ IF pendingLeave.kind = "new" THEN StartOver(TRUE)
       ELSE Go(Navigate(trail, pendingLeave.to), TRUE)
    /\ UNCHANGED <<saved, faults, steps>>

Stay ==
    /\ pendingLeave # None /\ pendingLeave' = None
    /\ UNCHANGED <<saved, trail, draft, baseline, unopened, busy, list, seenTags, chosen, reads, requests,
                   mine, unsure, faults, steps>>

----------------------------------------------------------------------------
(* Editing. A Range still opening, or a copy or a deletion under way,      *)
(* takes the place of what is edited meanwhile.                            *)

Replaced == Openings # {} \/ \E q \in requests : ~q.dead /\ q.kind \in {"duplicate", "delete"}

Edited(d) ==
    /\ draft' = d
    /\ mine' = (IF Replaced THEN None ELSE d)

Edit ==
    /\ OnRanges /\ pendingLeave = None /\ Step
    /\ \/ \E n \in RangeNames \cup {None} : n # draft.name /\ Edited([draft EXCEPT !.name = n])
       \/ \E c \in Combos : c # draft.combos /\ Edited([draft EXCEPT !.combos = c])
       \/ \E t \in seenTags \ draft.tags : Edited([draft EXCEPT !.tags = @ \cup {t}])
       \/ \E t \in draft.tags : Edited([draft EXCEPT !.tags = @ \ {t}])
    /\ UNCHANGED <<saved, trail, baseline, unopened, busy, pendingLeave, list, seenTags, chosen, reads, requests, unsure>>

ChooseTag ==
    /\ OnRanges /\ pendingLeave = None /\ Step
    /\ \E t \in seenTags \cup chosen :
           /\ chosen' = (IF t \in chosen THEN chosen \ {t} ELSE chosen \cup {t})
           /\ reads' = Openings \cup Side(TRUE, chosen')
    /\ UNCHANGED <<saved, trail, draft, baseline, unopened, busy, pendingLeave, list, seenTags, requests, mine, unsure>>

----------------------------------------------------------------------------
(* Changes, each sent with what the page holds now.                        *)

Request(kind) ==
    [kind |-> kind, id |-> IF kind \in {"save", "duplicate", "delete"} THEN baseline.id ELSE None,
     sent |-> IF kind = "save" THEN draft ELSE None, tag |-> None, onDraft |-> FALSE,
     dead |-> FALSE, done |-> "sent", answer |-> None]
SendRequest(q) ==
    /\ OnRanges /\ pendingLeave = None /\ Step
    /\ requests' = requests \cup {q}
    /\ unsure' = (unsure \/ (q.kind = "save" /\ Openings # {}))
    /\ UNCHANGED <<saved, trail, draft, baseline, unopened, pendingLeave, list, seenTags, chosen, reads, mine>>

Idle == ~busy /\ ~Opening
Save == Idle /\ draft.name # None /\ SendRequest(Request("save")) /\ busy' = TRUE
\* With changes unsaved, both are asked first.
Duplicate == Idle /\ baseline.id # None /\ SendRequest(Request("duplicate")) /\ busy' = TRUE
RemoveRange == Idle /\ baseline.id # None /\ SendRequest(Request("delete")) /\ busy' = TRUE
CreateTag == \E onDraft \in BOOLEAN : SendRequest([Request("createTag") EXCEPT !.onDraft = onDraft]) /\ UNCHANGED busy
DeleteTag == \E t \in seenTags : SendRequest([Request("deleteTag") EXCEPT !.tag = t]) /\ UNCHANGED busy

FreeIds == RangeIds \ minted
NameTaken(name, but) == \E id \in DOMAIN ranges \ {but} : ranges[id].name = name
RangesWith(id, range) == [i \in DOMAIN ranges \cup {id} |-> IF i = id THEN range ELSE ranges[i]]
RangesWithout(id) == [i \in DOMAIN ranges \ {id} |-> ranges[i]]
\* The first name a copy finds free.
CopyNames == {n \in RangeNames : ~NameTaken(n, None)}

\* What the server makes of a request: the Ranges and Tags after it, and its answer.
Done(q, now, tags, answer) ==
    /\ ranges' = now /\ labTags' = tags
    /\ minted' = minted \cup DOMAIN now \cup tags
    /\ requests' = (requests \ {q}) \cup {[q EXCEPT !.done = "done", !.answer = answer]}
Refuse(q) == /\ requests' = (requests \ {q}) \cup {[q EXCEPT !.done = "refused"]} /\ UNCHANGED saved

SaveRange(q) ==
    /\ q.kind = "save"
    /\ IF (q.id # None /\ q.id \notin DOMAIN ranges) \/ NameTaken(q.sent.name, q.id) \/ ~(q.sent.tags \subseteq labTags)
       THEN Refuse(q)
       ELSE \E id \in IF q.id # None THEN {q.id} ELSE {CHOOSE i \in FreeIds : TRUE} :
                Done(q, RangesWith(id, q.sent), labTags, [id |-> id, draft |-> q.sent])

DuplicateRange(q) ==
    /\ q.kind = "duplicate"
    /\ IF q.id \notin DOMAIN ranges THEN Refuse(q)
       ELSE /\ CopyNames # {} /\ FreeIds # {}
            /\ LET id == CHOOSE i \in FreeIds : TRUE
                   copy == [ranges[q.id] EXCEPT !.name = CHOOSE n \in CopyNames : TRUE]
               IN Done(q, RangesWith(id, copy), labTags, [id |-> id, draft |-> copy])

\* Deleted elsewhere already: gone either way.
DeleteRange(q) == q.kind = "delete" /\ Done(q, RangesWithout(q.id), labTags, None)

ChangeTags(q) ==
    \/ /\ q.kind = "createTag" /\ LabTagIds \ minted # {}
       /\ LET t == CHOOSE t \in LabTagIds \ minted : TRUE
          IN Done(q, ranges, labTags \cup {t}, t)
    \/ /\ q.kind = "deleteTag"
       /\ IF q.tag \notin labTags THEN Refuse(q)
          ELSE Done(q, [i \in DOMAIN ranges |-> [ranges[i] EXCEPT !.tags = @ \ {q.tag}]], labTags \ {q.tag}, q.tag)

ServeRequest(q) ==
    /\ q.done = "sent"
    /\ (q.kind = "save" /\ q.id = None) => FreeIds # {}
    /\ SaveRange(q) \/ DuplicateRange(q) \/ DeleteRange(q) \/ ChangeTags(q)
    /\ UNCHANGED <<trail, page, reads, mine, unsure, faults, steps>>

----------------------------------------------------------------------------
(* Answers, handled by the closure. On a page left behind only its         *)
(* navigation is felt, and that asks whatever page is there now.           *)

Target(q) == IF q.kind = "delete" THEN None ELSE q.answer.id

Stray(q) ==
    /\ q.dead
    /\ IF q.done = "done" /\ (q.kind \in {"duplicate", "delete"} \/ (q.kind = "save" /\ q.id = None))
       THEN IF OnRanges /\ Dirty
            THEN AskFirst([kind |-> "navigate", to |-> Target(q)]) /\ UNCHANGED trail
            ELSE /\ Given(FALSE)
                 /\ IF OnRanges
                    THEN Enter(Navigate(trail, Target(q)), baseline, draft, FALSE) /\ UNCHANGED <<busy, pendingLeave>>
                    ELSE trail' = Navigate(trail, Target(q)) /\ Mount(Target(q)) /\ UNCHANGED unsure
       ELSE UNCHANGED <<trail, page, reads, mine, unsure>>

\* Edits made while it saved stay, still unsaved.
SaveSettles(q) ==
    LET h == IF q.id = None THEN Navigate(trail, q.answer.id) ELSE trail IN
    /\ Enter(h, q.answer, IF draft = q.sent THEN q.answer.draft ELSE draft, TRUE)
    /\ mine' = (IF mine = q.sent THEN None ELSE mine)
    /\ UNCHANGED pendingLeave

\* The copy is opened, or the empty matrix, with nothing left to fetch.
Replace(q) ==
    LET base == IF q.kind = "delete" THEN NewBaseline ELSE q.answer IN
    /\ Enter(Navigate(trail, base.id), base, base.draft, TRUE)
    /\ mine' = None
    /\ UNCHANGED pendingLeave

\* A new Tag typed on the Range goes on the draft there is by now.
TagCreated(q) ==
    /\ seenTags' = seenTags \cup {q.answer}
    /\ IF q.onDraft THEN Edited([draft EXCEPT !.tags = @ \cup {q.answer}]) ELSE UNCHANGED <<draft, mine>>
    /\ UNCHANGED <<trail, baseline, unopened, pendingLeave, list, chosen, reads, unsure>>

WithoutTag(range, t) == [range EXCEPT !.tags = @ \ {t}]

Carries(answer, t) == answer # None /\ t \in answer.draft.tags

\* The server took it off the saved Range as well, so this is no unsaved change.
TagDeleted(q) ==
    /\ baseline' = [baseline EXCEPT !.draft = WithoutTag(@, q.tag)]
    /\ draft' = [draft EXCEPT !.tags = @ \ {q.tag}]
    /\ mine' = (IF mine = None THEN None ELSE [mine EXCEPT !.tags = @ \ {q.tag}])
    /\ chosen' = chosen \ {q.tag}
    /\ reads' = Openings \cup Side(TRUE, chosen')
    \* A Range read before the deletion may arrive after it.
    /\ unsure' = (unsure \/ (\E r \in Openings : Carries(r.answer, q.tag))
                         \/ \E p \in requests : p.kind \in {"save", "duplicate"} /\ Carries(p.answer, q.tag))
    /\ UNCHANGED <<trail, unopened, pendingLeave, list, seenTags>>

Unbusy(q) == busy' = (busy /\ (q.dead \/ q.kind \notin {"save", "duplicate", "delete"}))

Settle(q) ==
    /\ q.done # "sent"
    /\ requests' = requests \ {q}
    /\ IF q.dead THEN Stray(q)
       ELSE /\ Unbusy(q)
            /\ IF q.done = "refused"
               THEN UNCHANGED <<trail, draft, baseline, unopened, pendingLeave, list, seenTags, chosen, reads, mine, unsure>>
               ELSE CASE q.kind = "save" -> SaveSettles(q)
                      [] q.kind \in {"duplicate", "delete"} -> Replace(q)
                      [] q.kind = "createTag" -> TagCreated(q)
                      [] OTHER -> TagDeleted(q)
    /\ UNCHANGED <<saved, faults, steps>>

\* The page is told it failed, whatever the server did.
LoseRequest(q) ==
    /\ q.done = "done" /\ Fault
    /\ requests' = requests \ {q}
    /\ Unbusy(q)
    /\ unsure' = TRUE
    /\ UNCHANGED <<saved, trail, draft, baseline, unopened, pendingLeave, list, seenTags, chosen, reads, mine>>

----------------------------------------------------------------------------
(* Reads. *)

AnswerRead(r) ==
    /\ r.answer = None
    /\ r.kind = "open" => r.of \in DOMAIN ranges
    /\ reads' = (reads \ {r}) \cup {[r EXCEPT !.answer =
           IF r.kind = "open" THEN [id |-> r.of, draft |-> ranges[r.of]]
           ELSE [list |-> Listed(r.of), tags |-> labTags]]}
    /\ UNCHANGED <<saved, trail, page, requests, mine, unsure, faults, steps>>

TakeRead(r) ==
    /\ r.answer # None
    /\ reads' = reads \ {r}
    /\ IF r.kind = "open" THEN baseline' = r.answer /\ draft' = r.answer.draft
       ELSE UNCHANGED <<baseline, draft>>
    /\ list' = (IF r.kind = "side" THEN r.answer.list ELSE list)
    /\ seenTags' = (IF r.kind = "side" THEN r.answer.tags ELSE seenTags)
    /\ UNCHANGED <<saved, trail, unopened, busy, pendingLeave, chosen, requests, mine, unsure, faults, steps>>

\* Not there any more, or no answer.
FailRead(r) ==
    /\ r.answer = None
    /\ IF r.kind = "open" /\ r.of \notin DOMAIN ranges THEN UNCHANGED <<faults, steps>> ELSE Fault
    /\ reads' = reads \ {r}
    /\ unopened' = (unopened \/ r.kind = "open")
    /\ list' = (IF r.kind = "side" THEN None ELSE list)
    /\ UNCHANGED <<saved, trail, draft, baseline, busy, pendingLeave, seenTags, chosen, requests, mine, unsure>>

\* Another tab of the Account deletes a Range.
LabElsewhere ==
    /\ Fault
    /\ \E id \in DOMAIN ranges : ranges' = RangesWithout(id)
    /\ unsure' = TRUE
    /\ UNCHANGED <<labTags, minted, trail, page, reads, requests, mine>>

----------------------------------------------------------------------------
LabInit ==
    /\ LET t == {CHOOSE t \in LabTagIds : TRUE}
           id == CHOOSE id \in RangeIds : TRUE
       IN /\ labTags = t
          /\ minted = {id} \cup t
          /\ ranges = [i \in {id} |-> [name |-> CHOOSE n \in RangeNames : TRUE, tags |-> t,
                                       combos |-> CHOOSE c \in Combos : c # NoCombos]]
          /\ trail = OpenedAt(id)
          /\ reads = {Read("side", {}), Read("open", id)}
    /\ draft = NewDraft /\ baseline = NewBaseline
    /\ unopened = FALSE /\ busy = FALSE /\ pendingLeave = None
    /\ list = None /\ seenTags = {} /\ chosen = {}
    /\ requests = {} /\ mine = None /\ unsure = FALSE
    /\ faults = 0 /\ steps = 0

LabNext ==
    \/ OpenRange \/ LeavePage \/ Analyse \/ ComeBack \/ LabBack \/ StartNew \/ Discard \/ Stay
    \/ Edit \/ ChooseTag \/ Save \/ Duplicate \/ RemoveRange \/ CreateTag \/ DeleteTag
    \/ \E q \in requests : ServeRequest(q) \/ Settle(q) \/ LoseRequest(q)
    \/ \E r \in reads : AnswerRead(r) \/ TakeRead(r) \/ FailRead(r)
    \/ LabElsewhere

LabSpec == LabInit /\ [][LabNext]_labVars

----------------------------------------------------------------------------
(* Once nothing is in flight, and no two answers about one Range crossed,  *)
(* the open Range is the address's, what it was last saved as is what the  *)
(* server holds, and the side column lists what the server would list.     *)
UnsavedIsTrue ==
    OnRanges /\ ~unsure /\ requests = {} /\ reads = {} =>
        /\ ~unopened => baseline.id = OpenId
        /\ baseline.id # None => baseline.draft = ranges[baseline.id]
        /\ list # None => list = Listed(chosen)

(* Whatever is opened, saved, copied, deleted or answered late, the page   *)
(* still holds what the person last made of the draft, until they save it, *)
(* give it up when asked, or it is no different from what is saved; and it *)
(* says "unsaved" exactly of what the server does not have. Not claimed    *)
(* for what is edited while a Range is opening or while a copy or a        *)
(* deletion is under way (LabRangesPage.tsx).                              *)
KeepsTheWork ==
    /\ mine # None => OnRanges /\ draft = mine
    /\ trail # None => UnsavedIsTrue
=============================================================================
