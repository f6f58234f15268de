-------------------------- MODULE LibraryLabProofs --------------------------
(***************************************************************************)
(* The Lab's page keeps what the person made of the Range, and says        *)
(* "unsaved" of just what the server does not have, for any Ranges, Tags   *)
(* and Combos, any number of requests and reads in flight.                 *)
(*                                                                         *)
(* KeepsTheWork speaks of a page with nothing in flight.  The invariant    *)
(* says what every request and read in flight will find when it lands.  A  *)
(* page does one save, copy or deletion at a time (AloneOK); what it last  *)
(* saved, what is being opened and what a save answers are what the server *)
(* holds, but for a deletion or a save on its way back and for the Tags    *)
(* deleted since (BaselineKept, OpeningsKept, AnswersKept); and the column *)
(* lists what the server would, or is being read again (SideOK).  All of   *)
(* that while no two answers about one Range crossed; the work itself is   *)
(* there whatever happened (WorkIsThere).                                  *)
(*                                                                         *)
(* The Library's page shows what is asked, for any Library, any number of  *)
(* moves, changes and reads in flight.  ShowsWhatIsAsked speaks of a page  *)
(* with nothing in flight.  The invariant, LibSound, says what each read   *)
(* in flight will bring: the filter's own list, as the server has it,      *)
(* unless something changed behind it (outdated) or a change already made  *)
(* is still to be answered, and so to be read again (Pending); what is     *)
(* shown is that, or is being read.  For a removal to step back far enough *)
(* it says more: the page is one of the filter's (PageRight), what the     *)
(* page believes the total to be is no more than it is (TotalsRight), and  *)
(* so is what a removal in flight will leave (RemovalsRight), but where    *)
(* strayed says nothing steps back.                                        *)
(***************************************************************************)
EXTENDS Library, LabRanges, FiniteSetTheorems, TLAPS

(* A Range's own changes: while one is under way the page starts no other. *)
AloneKinds == {"save", "duplicate", "delete"}

LabTyped ==
    /\ DOMAIN ranges \subseteq RangeIds /\ DOMAIN ranges \subseteq minted
    /\ \A i \in DOMAIN ranges : ranges[i] \in Drafts /\ ranges[i].tags \subseteq labTags
    /\ labTags \subseteq LabTagIds /\ labTags \subseteq minted
    /\ draft \in Drafts
    /\ baseline \in [id : RangeIds \cup {None}, draft : Drafts] /\ baseline.id \in minted \cup {None}
    /\ unopened \in BOOLEAN /\ busy \in BOOLEAN /\ unsure \in BOOLEAN
    /\ seenTags \subseteq LabTagIds

LabReadOK(r) ==
    /\ r = [kind |-> r.kind, of |-> r.of, answer |-> r.answer] /\ r.kind \in {"side", "open"}
    /\ r.kind = "open" =>
          /\ r.of = OpenId /\ r.of # None
          /\ r.answer # None => r.answer \in SavedRange /\ r.answer.id = r.of /\ r.of \in minted
    /\ r.kind = "side" =>
          /\ r.of = chosen
          /\ r.answer # None => r.answer.tags \subseteq LabTagIds

LabRequestOK(q) ==
    /\ q = [kind |-> q.kind, id |-> q.id, sent |-> q.sent, tag |-> q.tag, onDraft |-> q.onDraft,
            dead |-> q.dead, done |-> q.done, answer |-> q.answer]
    /\ q.kind \in AloneKinds \cup {"createTag", "deleteTag"} /\ q.dead \in BOOLEAN /\ (~q.dead => OnRanges)
    /\ q.done \in {"sent", "done", "refused"}
    /\ q.kind \in {"duplicate", "delete"} => q.id \in RangeIds
    /\ q.kind = "save" => q.id \in RangeIds \cup {None} /\ q.sent \in Drafts
    /\ q.kind = "deleteTag" => q.tag \in LabTagIds
    /\ q.done = "done" =>
          /\ q.kind \in {"save", "duplicate"} => q.answer \in SavedRange /\ q.answer.id \in minted
          /\ q.kind = "save" => q.answer.draft = q.sent /\ (q.id # None => q.answer.id = q.id)
          /\ q.kind = "createTag" => q.answer \in LabTagIds
          /\ q.kind = "deleteTag" => q.tag \in minted \ labTags

SideReads == {r \in reads : r.kind = "side"}
ReadsOK == \A r \in reads : LabReadOK(r)
RequestsOK == \A q \in requests : LabRequestOK(q)
WorkIsThere == mine # None => OnRanges /\ draft = mine /\ Openings = {}

(* What of the server's part is done and not yet answered here.            *)
DoneOf(kind) == {q \in requests : q.kind = kind /\ q.done = "done"}
TagsGone == {q.tag : q \in DoneOf("deleteTag")}
IsSavedAs(d, id) ==
    /\ id \in DOMAIN ranges
    /\ ranges[id] = [name |-> d.name, tags |-> d.tags \ TagsGone, combos |-> d.combos]
BeingDeleted(id) == \E q \in DoneOf("delete") : q.id = id
BeingSaved(id) == \E q \in DoneOf("save") : q.id = id
SideToCome == \E q \in requests : q.done = "done" /\ q.kind # "createTag"

AloneOK ==
    /\ ~OnRanges => requests = {}
    /\ \A q \in requests : ~q.dead
    /\ \A q \in requests : q.kind \in AloneKinds => busy /\ \A p \in requests : p.kind \in AloneKinds => p = q
OpenOK ==
    /\ OnRanges => unopened \/ baseline.id = OpenId \/ Openings # {}
    /\ \A q \in requests, r \in Openings : q.kind = "save" => q.id # r.of
BaselineKept == baseline.id # None => BeingDeleted(baseline.id) \/ BeingSaved(baseline.id) \/ IsSavedAs(baseline.draft, baseline.id)
OpeningsKept == \A r \in Openings : r.answer # None => BeingDeleted(r.of) \/ IsSavedAs(r.answer.draft, r.of)
AnswersKept == \A q \in DoneOf("save") \cup DoneOf("duplicate") : IsSavedAs(q.answer.draft, q.answer.id)
SideOK ==
    SideToCome \/
        /\ \A r \in SideReads : r.answer # None => r.answer.list = Listed(chosen)
        /\ SideReads = {} /\ list # None => list = Listed(chosen)
SureOf == AloneOK /\ OpenOK /\ BaselineKept /\ OpeningsKept /\ AnswersKept /\ SideOK

LabSound == LabTyped /\ WorkIsThere /\ ReadsOK /\ RequestsOK /\ (unsure \/ SureOf)

-----------------------------------------------------------------------------
LEMMA NewIsTyped ==
    /\ NewDraft \in Drafts /\ NewBaseline \in [id : RangeIds \cup {None}, draft : Drafts]
    /\ NewBaseline.id = None /\ NewBaseline.draft = NewDraft
  BY LabAssumption DEF NewDraft, NewBaseline, Drafts

LEMMA ReadsApart ==
    ASSUME ReadsOK
    PROVE  reads = Openings \cup SideReads
  BY DEF ReadsOK, LabReadOK, Openings, SideReads

LEMMA EnterFacts ==
    ASSUME NEW h, NEW base, NEW work, NEW changed \in BOOLEAN, Enter(h, base, work, changed),
           ReadsOK, unopened \in BOOLEAN, unsure \in BOOLEAN
    PROVE  /\ trail' = h /\ UNCHANGED <<list, seenTags, chosen>>
           /\ SideReads' = Side(changed, chosen) /\ reads' = SideReads' \cup Openings'
           /\ unsure' \in BOOLEAN
           /\ \/ /\ h.now = OpenId \/ (h.now # None /\ h.now = base.id)
                 /\ draft' = work /\ baseline' = base /\ unopened' = unopened
                 /\ Openings' = IF h.now = OpenId THEN Openings ELSE {}
                 /\ ~unsure' => ~unsure /\ base.id = h.now
              \/ /\ h.now # OpenId /\ ~(h.now # None /\ h.now = base.id)
                 /\ draft' = NewDraft /\ baseline' = NewBaseline /\ unopened' = FALSE
                 /\ Openings' = Wanted(h.now, FALSE)
                 /\ ~unsure' => ~unsure /\ ~Underway(h.now)
<1> DEFINE e == h.now
           already == e # None /\ e = base.id
           stays == e = OpenId \/ already
           kept == IF e = OpenId THEN Openings ELSE Wanted(e, already)
<1>1. /\ trail' = h /\ UNCHANGED <<list, seenTags, chosen>>
      /\ draft' = (IF stays THEN work ELSE NewDraft) /\ baseline' = (IF stays THEN base ELSE NewBaseline)
      /\ unopened' = (unopened /\ stays) /\ reads' = Side(changed, chosen) \cup kept
      /\ unsure' = (unsure \/ (~stays /\ Underway(e)) \/ (stays /\ base.id # e))
  BY DEF Enter
<1>2. \A r \in kept : r.kind = "open"
  BY DEF Openings, Wanted, Read
<1>3. \A r \in Side(changed, chosen) : r.kind = "side"
  BY DEF Side, Read
<1>4. Openings' = kept /\ SideReads' = Side(changed, chosen)
  BY <1>1, <1>2, <1>3 DEF Openings, SideReads
<1>5. CASE stays
  <2>1. kept = IF h.now = OpenId THEN Openings ELSE {}
    BY <1>5 DEF Wanted
  <2> QED  BY <1>1, <1>4, <1>5, <2>1
<1>6. CASE ~stays
  <2>1. kept = Wanted(h.now, FALSE)
    BY <1>6
  <2> QED  BY <1>1, <1>4, <1>6, <2>1
<1> QED  BY <1>5, <1>6

(* The reads kept, and those begun, are of where the page now is.          *)
LEMMA EnterReads ==
    ASSUME NEW h, NEW base, NEW work, NEW changed \in BOOLEAN, Enter(h, base, work, changed),
           ReadsOK, unopened \in BOOLEAN, unsure \in BOOLEAN, UNCHANGED minted
    PROVE  ReadsOK'
<1>1. SUFFICES ASSUME NEW r \in reads' PROVE LabReadOK(r)'
  BY DEF ReadsOK
<1>2. /\ trail' = h /\ chosen' = chosen /\ SideReads' = Side(changed, chosen) /\ reads' = SideReads' \cup Openings'
      /\ \/ Openings' = IF h.now = OpenId THEN Openings ELSE {}
         \/ Openings' = Wanted(h.now, FALSE)
  BY EnterFacts
<1>3. CASE r \in Side(changed, chosen)
  <2>1. r = Read("side", chosen) \/ (r \in reads /\ r.kind = "side")
    BY <1>3 DEF Side
  <2> QED  BY <1>2, <2>1 DEF ReadsOK, LabReadOK, Read
<1>4. CASE r \in Openings /\ h.now = OpenId
  BY <1>2, <1>4 DEF Openings, ReadsOK, LabReadOK, OpenId
<1>5. CASE r \in Wanted(h.now, FALSE)
  <2>1. r = Read("open", h.now) /\ h.now # None
    BY <1>5 DEF Wanted
  <2> QED  BY <1>2, <2>1 DEF LabReadOK, Read, OpenId
<1> QED  BY <1>2, <1>3, <1>4, <1>5

(* What the server did and has not answered decides what is kept.          *)
LEMMA KeptFrame ==
    ASSUME ranges' = ranges,
           \A q : q.done = "done" /\ q.kind # "createTag" => (q \in requests' <=> q \in requests)
    PROVE  /\ AnswersKept => AnswersKept'
           /\ baseline' = baseline /\ BaselineKept => BaselineKept'
           /\ Openings' \subseteq Openings /\ OpeningsKept => OpeningsKept'
           /\ SideToCome' <=> SideToCome
<1>1. /\ DoneOf("save")' = DoneOf("save") /\ DoneOf("duplicate")' = DoneOf("duplicate")
      /\ DoneOf("delete")' = DoneOf("delete") /\ DoneOf("deleteTag")' = DoneOf("deleteTag")
  BY DEF DoneOf
<1>2. TagsGone' = TagsGone
  BY <1>1 DEF TagsGone
<1>3. AnswersKept => AnswersKept'
  BY <1>1, <1>2 DEF AnswersKept, IsSavedAs
<1>4. ASSUME baseline' = baseline, BaselineKept PROVE BaselineKept'
  BY <1>1, <1>2, <1>4 DEF BaselineKept, IsSavedAs, BeingDeleted, BeingSaved
<1>5. ASSUME Openings' \subseteq Openings, OpeningsKept PROVE OpeningsKept'
  BY <1>1, <1>2, <1>5 DEF OpeningsKept, IsSavedAs, BeingDeleted
<1>6. SideToCome' <=> SideToCome
  BY DEF SideToCome
<1> QED  BY <1>3, <1>4, <1>5, <1>6

LEMMA SideFrame ==
    ASSUME SideOK, UNCHANGED <<ranges, chosen, list>>, SideReads' = SideReads, SideToCome => SideToCome'
    PROVE  SideOK'
  BY DEF SideOK, Listed

(* The column is being read again.                                         *)
LEMMA SideAgain ==
    ASSUME SideReads' = {Read("side", chosen')}
    PROVE  SideOK'
<1>1. \A r \in SideReads' : r.answer = None
  BY DEF Read
<1>2. SideReads' # {}
  OBVIOUS
<1> QED  BY <1>1, <1>2 DEF SideOK

LEMMA RequestsFrame ==
    ASSUME RequestsOK, requests' \subseteq requests, labTags' = labTags, minted \subseteq minted', OnRanges => OnRanges'
    PROVE  RequestsOK'
  BY DEF RequestsOK, LabRequestOK

LEMMA ReadsFrame ==
    ASSUME ReadsOK, reads' \subseteq reads, OpenId' = OpenId, chosen' = chosen, minted \subseteq minted'
    PROVE  ReadsOK'
  BY DEF ReadsOK, LabReadOK

LEMMA UnmountTyped ==
    ASSUME LabTyped, Unmount, UNCHANGED saved, unsure' \in BOOLEAN
    PROVE  LabTyped' /\ baseline'.id = None /\ ~busy' /\ list' = None
<1>1. /\ draft' = NewDraft /\ baseline' = NewBaseline /\ unopened' = FALSE /\ busy' = FALSE /\ list' = None /\ seenTags' = {}
      /\ UNCHANGED <<ranges, labTags, minted>>
  BY DEF Unmount, saved
<1> QED  BY <1>1, NewIsTyped DEF LabTyped

(* Going on leaves nothing of what the page held but what is asked for.    *)
LEMMA GoSound ==
    ASSUME LabSound, NEW h, NEW asked \in BOOLEAN, Go(h, asked), UNCHANGED saved, asked \/ ~Dirty \/ ~OnRanges
    PROVE  LabSound'
<1>1. LabTyped /\ WorkIsThere /\ ReadsOK /\ RequestsOK /\ UNCHANGED <<ranges, labTags, minted>>
  BY DEF LabSound, saved
<1>2. mine' = (IF asked \/ mine = baseline.draft THEN None ELSE mine)
  BY DEF Go, Given
<1>3. mine' = None
  BY <1>1, <1>2 DEF WorkIsThere, Dirty
<1>4. WorkIsThere'
  BY <1>3 DEF WorkIsThere
<1>5. CASE h.now = Away
  <2>1. /\ Unmount /\ trail' = h /\ reads' = {} /\ requests' = Abandoned
        /\ unsure' = (unsure \/ requests # {})
    BY <1>5 DEF Go
  <2>2. unsure' \in BOOLEAN
    BY <2>1
  <2>3. LabTyped' /\ baseline'.id = None /\ list' = None
    BY <1>1, <2>1, <2>2, UnmountTyped
  <2>4. ReadsOK' /\ Openings' = {} /\ SideReads' = {}
    BY <2>1 DEF ReadsOK, Openings, SideReads
  <2>5. RequestsOK'
    <3>1. SUFFICES ASSUME NEW q \in requests PROVE LabRequestOK([q EXCEPT !.dead = TRUE])'
      BY <2>1 DEF RequestsOK, Abandoned
    <3>2. LabRequestOK(q)
      BY <1>1 DEF RequestsOK
    <3>3. PICK p : p = [q EXCEPT !.dead = TRUE]
      OBVIOUS
    <3>4. p = [kind |-> q.kind, id |-> q.id, sent |-> q.sent, tag |-> q.tag, onDraft |-> q.onDraft,
               dead |-> TRUE, done |-> q.done, answer |-> q.answer]
      BY <3>2, <3>3 DEF LabRequestOK
    <3>5. LabRequestOK(p)'
      BY <1>1, <3>2, <3>4 DEF LabRequestOK
    <3> QED  BY <3>3, <3>5
  <2>6. ~OnRanges'
    BY <1>5, <2>1 DEF OnRanges, OpenId
  <2>7. ASSUME ~unsure' PROVE SureOf'
    <3>1. requests' = {}
      BY <2>1, <2>7 DEF Abandoned
    <3>2. AloneOK' /\ OpenOK'
      BY <2>4, <2>6, <3>1 DEF AloneOK, OpenOK
    <3>3. BaselineKept' /\ OpeningsKept' /\ AnswersKept'
      BY <2>3, <2>4, <3>1 DEF BaselineKept, OpeningsKept, AnswersKept, DoneOf
    <3>4. SideOK'
      BY <2>3, <2>4 DEF SideOK
    <3> QED  BY <3>2, <3>3, <3>4 DEF SureOf
  <2> QED  BY <1>4, <2>3, <2>4, <2>5, <2>7 DEF LabSound
<1>6. CASE h.now # Away /\ ~OnRanges
  <2>1. /\ Unmount /\ trail' = h /\ UNCHANGED <<requests, unsure>> /\ reads' = {Read("side", {})} \cup Wanted(h.now, FALSE)
    BY <1>6 DEF Go, Mount
  <2>2. LabTyped' /\ baseline'.id = None /\ list' = None /\ chosen' = {}
    BY <1>1, <2>1, UnmountTyped DEF LabTyped, Unmount
  <2>3. Openings' = Wanted(h.now, FALSE) /\ SideReads' = {Read("side", {})}
    BY <2>1 DEF Openings, SideReads, Wanted, Read
  <2>4. ReadsOK'
    BY <2>1, <2>2 DEF ReadsOK, LabReadOK, Wanted, Read, OpenId
  <2>5. RequestsOK'
    BY <1>1, <1>6, <2>1, RequestsFrame DEF OnRanges, OpenId
  <2>6. ASSUME ~unsure' PROVE SureOf'
    <3>1. requests' = {} /\ OnRanges' /\ OpenId' = h.now
      BY <1>6, <2>1, <2>6 DEF LabSound, SureOf, AloneOK, OnRanges, OpenId
    <3>2. AloneOK'
      BY <3>1 DEF AloneOK
    <3>3. OpenOK'
      BY <2>2, <2>3, <3>1 DEF OpenOK, Wanted
    <3>4. BaselineKept' /\ AnswersKept'
      BY <2>2, <3>1 DEF BaselineKept, AnswersKept, DoneOf
    <3>5. OpeningsKept'
      BY <2>3 DEF OpeningsKept, Wanted, Read
    <3>6. SideOK'
      BY <2>2, <2>3 DEF SideOK, Read
    <3> QED  BY <3>2, <3>3, <3>4, <3>5, <3>6 DEF SureOf
  <2> QED  BY <1>4, <2>2, <2>4, <2>5, <2>6 DEF LabSound
<1>7. CASE h.now # Away /\ OnRanges
  <2>1. Enter(h, baseline, draft, FALSE) /\ UNCHANGED <<busy, requests>>
    BY <1>7 DEF Go
  <2>2. /\ trail' = h /\ UNCHANGED <<list, seenTags, chosen>>
        /\ SideReads' = Side(FALSE, chosen) /\ reads' = SideReads' \cup Openings'
        /\ unsure' \in BOOLEAN
        /\ \/ /\ h.now = OpenId \/ (h.now # None /\ h.now = baseline.id)
              /\ draft' = draft /\ baseline' = baseline /\ unopened' = unopened
              /\ Openings' = IF h.now = OpenId THEN Openings ELSE {}
              /\ ~unsure' => ~unsure /\ baseline.id = h.now
           \/ /\ h.now # OpenId /\ draft' = NewDraft /\ baseline' = NewBaseline /\ unopened' = FALSE
              /\ Openings' = Wanted(h.now, FALSE)
              /\ ~unsure' => ~unsure /\ ~Underway(h.now)
    BY <1>1, <2>1, EnterFacts DEF LabTyped
  <2>3. LabTyped'
    BY <1>1, <2>1, <2>2, NewIsTyped DEF LabTyped
  <2>4. ReadsOK'
    BY <1>1, <2>1, EnterReads DEF LabTyped
  <2>5. RequestsOK'
    BY <1>1, <1>7, <2>1, <2>2, RequestsFrame DEF OnRanges, OpenId
  <2>6. ASSUME ~unsure' PROVE SureOf'
    <3>1. SureOf /\ OnRanges' /\ OpenId' = h.now
      BY <1>7, <2>2, <2>6 DEF LabSound, OnRanges, OpenId
    <3>2. AloneOK'
      BY <2>1, <3>1 DEF SureOf, AloneOK
    <3>3. ASSUME baseline' = baseline, unopened' = unopened, Openings' \subseteq Openings, baseline.id = h.now
          PROVE  OpenOK' /\ BaselineKept' /\ OpeningsKept' /\ AnswersKept'
      <4>1. OpenOK'
        BY <2>1, <3>1, <3>3 DEF SureOf, OpenOK
      <4>2. BaselineKept' /\ OpeningsKept' /\ AnswersKept'
        BY <1>1, <2>1, <3>1, <3>3, KeptFrame DEF SureOf
      <4> QED  BY <4>1, <4>2
    <3>4. ASSUME baseline' = NewBaseline, Openings' = Wanted(h.now, FALSE), ~Underway(h.now)
          PROVE  OpenOK' /\ BaselineKept' /\ OpeningsKept' /\ AnswersKept'
      <4>1. OpenOK'
        <5>1. OnRanges' => unopened' \/ baseline'.id = OpenId' \/ Openings' # {}
          BY <3>1, <3>4, NewIsTyped DEF Wanted
        <5>2. \A q \in requests', r \in Openings' : q.kind = "save" => q.id # r.of
          BY <2>1, <3>4 DEF Wanted, Read, Underway
        <5> QED  BY <5>1, <5>2 DEF OpenOK
      <4>2. BaselineKept' /\ OpeningsKept'
        BY <3>4, NewIsTyped DEF BaselineKept, OpeningsKept, Wanted, Read
      <4>3. AnswersKept'
        BY <1>1, <2>1, <3>1, KeptFrame DEF SureOf
      <4> QED  BY <4>1, <4>2, <4>3
    <3>5. SideOK'
      <4>1. SideReads' = SideReads
        BY <2>2 DEF Side, SideReads
      <4>2. SideToCome' <=> SideToCome
        BY <1>1, <2>1, KeptFrame
      <4> QED  BY <1>1, <2>2, <3>1, <4>1, <4>2, SideFrame DEF SureOf
    <3>6. OpenOK' /\ BaselineKept' /\ OpeningsKept' /\ AnswersKept'
      BY <2>2, <2>6, <3>3, <3>4
    <3> QED  BY <3>2, <3>5, <3>6 DEF SureOf
  <2> QED  BY <1>4, <2>3, <2>4, <2>5, <2>6 DEF LabSound
<1> QED  BY <1>5, <1>6, <1>7

(* Asking changes nothing but the question.                                *)
LEMMA HeldSound ==
    ASSUME LabSound, OpenId' = OpenId, UNCHANGED saved, UNCHANGED requests,
           UNCHANGED <<draft, baseline, unopened, busy, list, seenTags, chosen, reads, mine, unsure>>
    PROVE  LabSound'
<1>1. LabTyped /\ WorkIsThere /\ ReadsOK /\ RequestsOK /\ UNCHANGED <<ranges, labTags, minted>>
  BY DEF LabSound, saved
<1>2. LabTyped'
  BY <1>1 DEF LabTyped
<1>3. WorkIsThere' /\ (OnRanges' <=> OnRanges) /\ Openings' = Openings /\ SideReads' = SideReads
  BY <1>1 DEF WorkIsThere, OnRanges, Openings, SideReads
<1>4. ReadsOK' /\ RequestsOK'
  BY <1>1, <1>3, ReadsFrame, RequestsFrame
<1>5. ASSUME SureOf PROVE SureOf'
  <2>1. AloneOK' /\ OpenOK'
    BY <1>3, <1>5 DEF SureOf, AloneOK, OpenOK
  <2>2. BaselineKept' /\ OpeningsKept' /\ AnswersKept' /\ (SideToCome' <=> SideToCome)
    BY <1>1, <1>3, <1>5, KeptFrame DEF SureOf
  <2>3. SideOK'
    BY <1>1, <1>3, <1>5, <2>2, SideFrame DEF SureOf
  <2> QED  BY <2>1, <2>2, <2>3 DEF SureOf
<1> QED  BY <1>2, <1>3, <1>4, <1>5 DEF LabSound

(* A new Range keeps the column and what is in flight.                     *)
LEMMA StartOverSound ==
    ASSUME LabSound, NEW asked \in BOOLEAN, StartOver(asked), UNCHANGED saved, asked \/ ~Dirty
    PROVE  LabSound'
<1>1. LabTyped /\ WorkIsThere /\ ReadsOK /\ RequestsOK /\ UNCHANGED <<ranges, labTags, minted>>
  BY DEF LabSound, saved
<1>2. /\ mine' = (IF asked \/ mine = baseline.draft THEN None ELSE mine)
      /\ trail' = IF OpenId = None THEN trail ELSE Navigate(trail, None)
      /\ draft' = NewDraft /\ baseline' = NewBaseline /\ unopened' = FALSE
      /\ reads' = Side(FALSE, chosen)
      /\ UNCHANGED <<busy, list, seenTags, chosen, requests, unsure>>
  BY DEF StartOver, Given
<1>3. OpenId' = None /\ OnRanges'
  BY <1>2, LabAssumption DEF OpenId, Navigate, OnRanges
<1>4. reads' = SideReads /\ SideReads' = SideReads /\ Openings' = {}
  BY <1>2 DEF Side, SideReads, Openings
<1>5. WorkIsThere'
  BY <1>1, <1>2 DEF WorkIsThere, Dirty
<1>6. LabTyped'
  BY <1>1, <1>2, NewIsTyped DEF LabTyped
<1>7. RequestsOK'
  BY <1>1, <1>2, <1>3, RequestsFrame
<1>8. ReadsOK'
  BY <1>1, <1>2, <1>4 DEF ReadsOK, LabReadOK, SideReads
<1>9. ASSUME SureOf PROVE SureOf'
  <2>1. AloneOK' /\ OpenOK'
    BY <1>2, <1>3, <1>4, <1>9, NewIsTyped DEF SureOf, AloneOK, OpenOK
  <2>2. AnswersKept' /\ (SideToCome' <=> SideToCome)
    BY <1>1, <1>2, <1>9, KeptFrame DEF SureOf
  <2>3. BaselineKept' /\ OpeningsKept'
    BY <1>2, <1>4, NewIsTyped DEF BaselineKept, OpeningsKept
  <2>4. SideOK'
    BY <1>1, <1>2, <1>4, <1>9, <2>2, SideFrame DEF SureOf
  <2> QED  BY <2>1, <2>2, <2>3, <2>4 DEF SureOf
<1> QED  BY <1>2, <1>5, <1>6, <1>7, <1>8, <1>9 DEF LabSound

(* Going elsewhere, with the question where it is called for.              *)
LEMMA NavigateToSound ==
    ASSUME LabSound, NEW e, NavigateTo(e), UNCHANGED saved
    PROVE  LabSound'
<1>1. CASE Dirty
  <2>1. UNCHANGED <<trail, requests>>
    BY <1>1 DEF NavigateTo
  <2>2. UNCHANGED <<draft, baseline, unopened, busy, list, seenTags, chosen, reads, mine, unsure>>
    BY <1>1 DEF NavigateTo, AskFirst
  <2> QED  BY <2>1, <2>2, HeldSound DEF OpenId
<1>2. CASE ~Dirty
  BY <1>2, GoSound DEF NavigateTo
<1> QED  BY <1>1, <1>2

LEMMA GoingSound ==
    ASSUME LabSound, OpenRange \/ LeavePage \/ Analyse \/ ComeBack \/ LabBack \/ StartNew \/ Discard \/ Stay
    PROVE  LabSound'
<1>1. CASE OpenRange \/ LeavePage
  BY <1>1, NavigateToSound DEF OpenRange, LeavePage
<1>2. CASE Analyse
  <2>1. UNCHANGED saved /\ (Go(Navigate(trail, Away), TRUE) \/ NavigateTo(Away))
    BY <1>2 DEF Analyse
  <2> QED  BY <2>1, NavigateToSound, GoSound
<1>3. CASE ComeBack
  BY <1>3, GoSound DEF ComeBack
<1>4. CASE LabBack
  <2>1. CASE OnRanges /\ Dirty
    <3>1. UNCHANGED saved /\ trail' = HeldBack(trail, OpenId) /\ UNCHANGED requests
      BY <1>4, <2>1 DEF LabBack
    <3>2. UNCHANGED <<draft, baseline, unopened, busy, list, seenTags, chosen, reads, mine, unsure>>
      BY <1>4, <2>1 DEF LabBack, AskFirst
    <3>3. OpenId' = OpenId
      BY <3>1 DEF HeldBack, OpenId
    <3> QED  BY <3>1, <3>2, <3>3, HeldSound
  <2>2. CASE ~(OnRanges /\ Dirty)
    BY <1>4, <2>2, GoSound DEF LabBack
  <2> QED  BY <2>1, <2>2
<1>5. CASE StartNew
  <2>1. CASE Dirty
    <3>1. UNCHANGED <<saved, trail, requests>>
      BY <1>5, <2>1 DEF StartNew
    <3>2. UNCHANGED <<draft, baseline, unopened, busy, list, seenTags, chosen, reads, mine, unsure>>
      BY <1>5, <2>1 DEF StartNew, AskFirst
    <3> QED  BY <3>1, <3>2, HeldSound DEF OpenId
  <2>2. CASE ~Dirty
    BY <1>5, <2>2, StartOverSound DEF StartNew
  <2> QED  BY <2>1, <2>2
<1>6. CASE Discard
  <2>1. UNCHANGED saved /\ (StartOver(TRUE) \/ Go(Navigate(trail, pendingLeave.to), TRUE))
    BY <1>6 DEF Discard
  <2> QED  BY <2>1, StartOverSound, GoSound
<1>7. CASE Stay
  BY <1>7, HeldSound DEF Stay, OpenId
<1> QED  BY <1>1, <1>2, <1>3, <1>4, <1>5, <1>6, <1>7

(* A draft with another name, other Combos or other Tags.                  *)
LEMMA DraftChanged ==
    ASSUME NEW d \in Drafts
    PROVE  /\ \A n \in RangeNames \cup {None} : [d EXCEPT !.name = n] \in Drafts
           /\ \A c \in Combos : [d EXCEPT !.combos = c] \in Drafts
           /\ \A t \in LabTagIds : [d EXCEPT !.tags = @ \cup {t}] \in Drafts
  BY DEF Drafts

LEMMA TagTakenOff ==
    ASSUME NEW d \in Drafts, NEW t
    PROVE  /\ [d EXCEPT !.tags = @ \ {t}] = [name |-> d.name, tags |-> d.tags \ {t}, combos |-> d.combos]
           /\ [d EXCEPT !.tags = @ \ {t}] \in Drafts
<1>1. PICK e : e = [d EXCEPT !.tags = @ \ {t}]
  OBVIOUS
<1>2. e = [name |-> d.name, tags |-> d.tags \ {t}, combos |-> d.combos] /\ e \in Drafts
  BY <1>1 DEF Drafts
<1> QED  BY <1>1, <1>2

LEMMA EditSound ==
    ASSUME LabSound, Edit
    PROVE  LabSound'
<1>1. LabTyped /\ WorkIsThere /\ ReadsOK /\ RequestsOK
  BY DEF LabSound
<1>2. /\ OnRanges /\ UNCHANGED <<ranges, labTags, minted>>
      /\ UNCHANGED <<trail, baseline, unopened, busy, list, seenTags, chosen, reads, requests, unsure>>
  BY DEF Edit, saved
<1>3. PICK d \in Drafts : Edited(d)
  <2>1. draft \in Drafts /\ seenTags \subseteq LabTagIds
    BY <1>1 DEF LabTyped
  <2>2. CASE \E n \in RangeNames \cup {None} : Edited([draft EXCEPT !.name = n])
    BY <2>1, <2>2, DraftChanged
  <2>3. CASE \E c \in Combos : Edited([draft EXCEPT !.combos = c])
    BY <2>1, <2>3, DraftChanged
  <2>4. CASE \E t \in seenTags : Edited([draft EXCEPT !.tags = @ \cup {t}])
    BY <2>1, <2>4, DraftChanged
  <2>5. CASE \E t : Edited([draft EXCEPT !.tags = @ \ {t}])
    BY <2>1, <2>5, TagTakenOff
  <2> QED  BY <2>2, <2>3, <2>4, <2>5 DEF Edit
<1>4. draft' = d /\ mine' = (IF Replaced THEN None ELSE d)
  BY <1>3 DEF Edited
<1>5. OpenId' = OpenId /\ OnRanges' /\ Openings' = Openings /\ SideReads' = SideReads
  BY <1>2 DEF OpenId, OnRanges, Openings, SideReads
<1>6. WorkIsThere'
  BY <1>4, <1>5 DEF WorkIsThere, Replaced
<1>7. LabTyped'
  BY <1>1, <1>2, <1>4 DEF LabTyped
<1>8. ReadsOK' /\ RequestsOK'
  BY <1>1, <1>2, <1>5, ReadsFrame, RequestsFrame
<1>9. ASSUME SureOf PROVE SureOf'
  <2>1. AloneOK' /\ OpenOK'
    BY <1>2, <1>5, <1>9 DEF SureOf, AloneOK, OpenOK
  <2>2. BaselineKept' /\ OpeningsKept' /\ AnswersKept' /\ (SideToCome' <=> SideToCome)
    BY <1>2, <1>5, <1>9, KeptFrame DEF SureOf
  <2>3. SideOK'
    BY <1>2, <1>5, <1>9, <2>2, SideFrame DEF SureOf
  <2> QED  BY <2>1, <2>2, <2>3 DEF SureOf
<1> QED  BY <1>1, <1>2, <1>6, <1>7, <1>8, <1>9 DEF LabSound

LEMMA ChooseTagSound ==
    ASSUME LabSound, ChooseTag
    PROVE  LabSound'
<1>1. LabTyped /\ WorkIsThere /\ ReadsOK /\ RequestsOK
  BY DEF LabSound
<1>2. /\ OnRanges /\ UNCHANGED <<ranges, labTags, minted>>
      /\ UNCHANGED <<trail, draft, baseline, unopened, busy, list, seenTags, requests, mine, unsure>>
      /\ reads' = Openings \cup {Read("side", chosen')}
  BY DEF ChooseTag, saved, Side
<1>3. OpenId' = OpenId /\ OnRanges' /\ Openings' = Openings /\ SideReads' = {Read("side", chosen')}
  BY <1>2 DEF OpenId, OnRanges, Openings, SideReads, Read
<1>4. WorkIsThere' /\ LabTyped'
  BY <1>1, <1>2, <1>3 DEF WorkIsThere, LabTyped
<1>5. RequestsOK'
  BY <1>1, <1>2, <1>3, RequestsFrame
<1>6. ReadsOK'
  <2>1. SUFFICES ASSUME NEW r \in reads' PROVE LabReadOK(r)'
    BY DEF ReadsOK
  <2>2. CASE r = Read("side", chosen')
    BY <2>2 DEF LabReadOK, Read
  <2>3. CASE r \in Openings
    BY <1>1, <1>2, <1>3, <2>3 DEF Openings, ReadsOK, LabReadOK
  <2> QED  BY <1>2, <2>1, <2>2, <2>3
<1>7. ASSUME SureOf PROVE SureOf'
  <2>1. AloneOK' /\ OpenOK'
    BY <1>2, <1>3, <1>7 DEF SureOf, AloneOK, OpenOK
  <2>2. BaselineKept' /\ OpeningsKept' /\ AnswersKept'
    BY <1>2, <1>3, <1>7, KeptFrame DEF SureOf
  <2> QED  BY <1>3, <2>1, <2>2, SideAgain DEF SureOf
<1> QED  BY <1>1, <1>2, <1>4, <1>5, <1>6, <1>7 DEF LabSound

(* A change sent: the page does one save, duplicate or deletion at a time. *)
LEMMA SendSound ==
    ASSUME LabSound, NEW q, SendRequest(q), LabRequestOK(q)', q.done = "sent", ~q.dead,
           q.kind \in AloneKinds => ~busy /\ busy' = TRUE, q.kind \notin AloneKinds => busy' = busy
    PROVE  LabSound'
<1>1. LabTyped /\ WorkIsThere /\ ReadsOK /\ RequestsOK
  BY DEF LabSound
<1>2. /\ OnRanges /\ UNCHANGED <<ranges, labTags, minted>> /\ requests' = requests \cup {q}
      /\ UNCHANGED <<trail, draft, baseline, unopened, list, seenTags, chosen, reads, mine>>
      /\ unsure' = (unsure \/ (q.kind = "save" /\ Openings # {}))
  BY DEF SendRequest, saved
<1>3. OpenId' = OpenId /\ OnRanges' /\ Openings' = Openings /\ SideReads' = SideReads
  BY <1>2 DEF OpenId, OnRanges, Openings, SideReads
<1>4. WorkIsThere' /\ LabTyped'
  <2>1. busy' \in BOOLEAN
    BY <1>1 DEF LabTyped
  <2> QED  BY <1>1, <1>2, <1>3, <2>1 DEF WorkIsThere, LabTyped
<1>5. ReadsOK'
  BY <1>1, <1>2, <1>3, ReadsFrame
<1>6. RequestsOK'
  <2>1. \A p \in requests : LabRequestOK(p)'
    BY <1>1, <1>2, <1>3 DEF RequestsOK, LabRequestOK
  <2> QED  BY <1>2, <2>1 DEF RequestsOK
<1>7. ASSUME ~unsure' PROVE SureOf'
  <2>1. SureOf /\ (q.kind = "save" => Openings = {})
    BY <1>1, <1>2, <1>7 DEF LabSound
  <2>2. AloneOK'
    BY <1>2, <1>3, <2>1 DEF SureOf, AloneOK
  <2>3. OpenOK'
    BY <1>2, <1>3, <2>1 DEF SureOf, OpenOK
  <2>4. BaselineKept' /\ OpeningsKept' /\ AnswersKept' /\ (SideToCome' <=> SideToCome)
    BY <1>2, <1>3, <2>1, KeptFrame DEF SureOf
  <2>5. SideOK'
    BY <1>2, <1>3, <2>1, <2>4, SideFrame DEF SureOf
  <2> QED  BY <2>2, <2>3, <2>4, <2>5 DEF SureOf
<1>8. unsure' \in BOOLEAN
  BY <1>1, <1>2 DEF LabTyped
<1> QED  BY <1>4, <1>5, <1>6, <1>7 DEF LabSound

LEMMA SendingSound ==
    ASSUME LabSound, Save \/ Duplicate \/ RemoveRange \/ CreateTag \/ DeleteTag
    PROVE  LabSound'
<1>1. LabTyped
  BY DEF LabSound
<1>2. CASE Save \/ Duplicate \/ RemoveRange
  <2>1. PICK kind \in AloneKinds : /\ SendRequest(Request(kind)) /\ ~busy /\ busy' = TRUE
                                   /\ kind \in {"duplicate", "delete"} => baseline.id # None
    BY <1>2 DEF Save, Duplicate, RemoveRange, Idle, AloneKinds
  <2>2. PICK q : q = Request(kind)
    OBVIOUS
  <2>3. /\ q = [kind |-> kind, id |-> baseline.id, sent |-> IF kind = "save" THEN draft ELSE None, tag |-> None,
                onDraft |-> FALSE, dead |-> FALSE, done |-> "sent", answer |-> None]
    BY <2>1, <2>2 DEF Request, AloneKinds
  <2>4. OnRanges'
    BY <2>1 DEF SendRequest, OnRanges, OpenId
  <2>5. LabRequestOK(q)'
    <3>1. baseline.id \in RangeIds \cup {None} /\ draft \in Drafts
      BY <1>1 DEF LabTyped
    <3>2. kind \in {"save", "duplicate", "delete"}
      BY DEF AloneKinds
    <3>3. kind \in {"duplicate", "delete"} => baseline.id \in RangeIds
      BY <2>1, <3>1
    <3> QED  BY <2>3, <2>4, <3>1, <3>2, <3>3 DEF LabRequestOK, AloneKinds
  <2>6. SendRequest(q) /\ q.kind \in AloneKinds /\ q.done = "sent" /\ ~q.dead /\ ~busy /\ busy' = TRUE
    BY <2>1, <2>2, <2>3
  <2> QED  BY <2>5, <2>6, SendSound
<1>3. CASE CreateTag
  <2>1. PICK onDraft \in BOOLEAN : SendRequest([Request("createTag") EXCEPT !.onDraft = onDraft]) /\ busy' = busy
    BY <1>3 DEF CreateTag
  <2>2. PICK q : q = [Request("createTag") EXCEPT !.onDraft = onDraft]
    OBVIOUS
  <2>3. q = [kind |-> "createTag", id |-> None, sent |-> None, tag |-> None, onDraft |-> onDraft,
             dead |-> FALSE, done |-> "sent", answer |-> None]
    BY <2>2 DEF Request
  <2>4. OnRanges'
    BY <2>1 DEF SendRequest, OnRanges, OpenId
  <2>5. LabRequestOK(q)'
    BY <2>3, <2>4 DEF LabRequestOK
  <2> QED  BY <2>1, <2>2, <2>3, <2>5, SendSound DEF AloneKinds
<1>4. CASE DeleteTag
  <2>1. PICK t \in seenTags : SendRequest([Request("deleteTag") EXCEPT !.tag = t]) /\ busy' = busy
    BY <1>4 DEF DeleteTag
  <2>2. PICK q : q = [Request("deleteTag") EXCEPT !.tag = t]
    OBVIOUS
  <2>3. q = [kind |-> "deleteTag", id |-> None, sent |-> None, tag |-> t, onDraft |-> FALSE,
             dead |-> FALSE, done |-> "sent", answer |-> None]
    BY <2>2 DEF Request
  <2>4. OnRanges' /\ t \in LabTagIds
    BY <1>1, <2>1 DEF SendRequest, OnRanges, OpenId, LabTyped
  <2>5. LabRequestOK(q)'
    BY <2>3, <2>4 DEF LabRequestOK
  <2> QED  BY <2>1, <2>2, <2>3, <2>5, SendSound DEF AloneKinds
<1> QED  BY <1>2, <1>3, <1>4

(* The server at work: the page is as it was, the request is answered.     *)
LEMMA AnswerShape ==
    ASSUME NEW q, LabRequestOK(q), NEW done, NEW answer
    PROVE  [q EXCEPT !.done = done, !.answer = answer] =
               [kind |-> q.kind, id |-> q.id, sent |-> q.sent, tag |-> q.tag, onDraft |-> q.onDraft,
                dead |-> q.dead, done |-> done, answer |-> answer]
<1>1. PICK p : p = [q EXCEPT !.done = done, !.answer = answer]
  OBVIOUS
<1>2. p = [kind |-> q.kind, id |-> q.id, sent |-> q.sent, tag |-> q.tag, onDraft |-> q.onDraft,
           dead |-> q.dead, done |-> done, answer |-> answer]
  BY <1>1 DEF LabRequestOK
<1> QED  BY <1>1, <1>2

LEMMA ServedFrame ==
    ASSUME LabSound, NEW q \in requests, NEW p, p.kind = q.kind, p.id = q.id, p.dead = q.dead,
           requests' = (requests \ {q}) \cup {p}, UNCHANGED <<trail, page, reads, mine, unsure>>, minted \subseteq minted'
    PROVE  /\ UNCHANGED <<trail, draft, baseline, unopened, busy, list, seenTags, chosen, reads, mine, unsure>>
           /\ OpenId' = OpenId /\ (OnRanges' <=> OnRanges) /\ Openings' = Openings /\ SideReads' = SideReads
           /\ WorkIsThere' /\ ReadsOK'
           /\ SureOf => AloneOK' /\ OpenOK'
<1>1. UNCHANGED <<trail, draft, baseline, unopened, busy, list, seenTags, chosen, reads, mine, unsure>>
  BY DEF page
<1>2. OpenId' = OpenId /\ (OnRanges' <=> OnRanges) /\ Openings' = Openings /\ SideReads' = SideReads
  BY <1>1 DEF OpenId, OnRanges, Openings, SideReads
<1>3. WorkIsThere' /\ ReadsOK'
  <2>1. WorkIsThere /\ ReadsOK
    BY DEF LabSound
  <2> QED  BY <1>1, <1>2, <2>1, ReadsFrame DEF WorkIsThere
<1>4. ASSUME SureOf PROVE AloneOK' /\ OpenOK'
  BY <1>1, <1>2, <1>4 DEF SureOf, AloneOK, OpenOK
<1> QED  BY <1>1, <1>2, <1>3, <1>4

LEMMA RefuseSound ==
    ASSUME LabSound, NEW q \in requests, q.done = "sent", Refuse(q), UNCHANGED <<trail, page, reads, mine, unsure>>
    PROVE  LabSound'
<1>1. LabTyped /\ RequestsOK /\ LabRequestOK(q)
  BY DEF LabSound, RequestsOK
<1>2. PICK p : p = [q EXCEPT !.done = "refused"]
  OBVIOUS
<1>3. p = [kind |-> q.kind, id |-> q.id, sent |-> q.sent, tag |-> q.tag, onDraft |-> q.onDraft,
           dead |-> q.dead, done |-> "refused", answer |-> q.answer]
  BY <1>1, <1>2 DEF LabRequestOK
<1>4. requests' = (requests \ {q}) \cup {p} /\ UNCHANGED <<ranges, labTags, minted>>
  BY <1>2 DEF Refuse, saved
<1>5. p.kind = q.kind /\ p.id = q.id /\ p.dead = q.dead /\ p.done = "refused"
  BY <1>3
<1>6. /\ UNCHANGED <<trail, draft, baseline, unopened, busy, list, seenTags, chosen, reads, mine, unsure>>
      /\ OnRanges' <=> OnRanges
      /\ Openings' = Openings /\ SideReads' = SideReads
      /\ WorkIsThere' /\ ReadsOK'
      /\ SureOf => AloneOK' /\ OpenOK'
  BY <1>4, <1>5, ServedFrame
<1>7. LabTyped'
  BY <1>1, <1>4, <1>6 DEF LabTyped
<1>8. RequestsOK'
  <2>1. LabRequestOK(p)'
    BY <1>1, <1>3, <1>4, <1>6 DEF LabRequestOK
  <2>2. \A r \in requests : LabRequestOK(r)'
    BY <1>1, <1>4, <1>6 DEF RequestsOK, LabRequestOK
  <2> QED  BY <1>4, <2>1, <2>2 DEF RequestsOK
<1>9. ASSUME SureOf PROVE SureOf'
  <2>1. \A r : r.done = "done" /\ r.kind # "createTag" => (r \in requests' <=> r \in requests)
    BY <1>4, <1>5
  <2>2. BaselineKept' /\ OpeningsKept' /\ AnswersKept' /\ (SideToCome' <=> SideToCome)
    BY <1>4, <1>6, <1>9, <2>1, KeptFrame DEF SureOf
  <2>3. SideOK'
    BY <1>4, <1>6, <1>9, <2>2, SideFrame DEF SureOf
  <2> QED  BY <1>6, <1>9, <2>2, <2>3 DEF SureOf
<1> QED  BY <1>6, <1>7, <1>8, <1>9 DEF LabSound

(* The Ranges with one put in or taken out.                                *)
LEMMA PutTyped ==
    ASSUME LabTyped, NEW id \in RangeIds, NEW d \in Drafts, d.tags \subseteq labTags, ranges' = RangesWith(id, d),
           labTags' = labTags, minted' = minted \cup DOMAIN ranges' \cup labTags,
           UNCHANGED <<draft, baseline, unopened, busy, seenTags, unsure>>
    PROVE  /\ LabTyped' /\ minted \subseteq minted' /\ id \in minted'
           /\ DOMAIN ranges' = DOMAIN ranges \cup {id} /\ ranges'[id] = d
           /\ \A i \in DOMAIN ranges \ {id} : ranges'[i] = ranges[i]
<1>1. /\ DOMAIN ranges' = DOMAIN ranges \cup {id} /\ ranges'[id] = d
      /\ \A i \in DOMAIN ranges \ {id} : ranges'[i] = ranges[i]
  BY DEF RangesWith
<1>2. \A i \in DOMAIN ranges' : ranges'[i] \in Drafts /\ ranges'[i].tags \subseteq labTags'
  BY <1>1 DEF LabTyped
<1> QED  BY <1>1, <1>2 DEF LabTyped

LEMMA TakeOutTyped ==
    ASSUME LabTyped, NEW id, ranges' = RangesWithout(id),
           labTags' = labTags, minted \subseteq minted', minted' = minted \cup DOMAIN ranges' \cup labTags \/ minted' = minted,
           UNCHANGED <<draft, baseline, unopened, busy, seenTags>>, unsure' \in BOOLEAN
    PROVE  /\ LabTyped' /\ DOMAIN ranges' = DOMAIN ranges \ {id}
           /\ \A i \in DOMAIN ranges \ {id} : ranges'[i] = ranges[i]
<1>1. /\ DOMAIN ranges' = DOMAIN ranges \ {id}
      /\ \A i \in DOMAIN ranges \ {id} : ranges'[i] = ranges[i]
  BY DEF RangesWithout
<1>2. \A i \in DOMAIN ranges' : ranges'[i] \in Drafts /\ ranges'[i].tags \subseteq labTags'
  BY <1>1 DEF LabTyped
<1> QED  BY <1>1, <1>2 DEF LabTyped

(* A Tag whose deletion is on its way back is on no Range any more.        *)
LEMMA TagsGoneApart ==
    ASSUME RequestsOK, NEW kept, kept \subseteq labTags
    PROVE  kept \ TagsGone = kept
  BY DEF RequestsOK, LabRequestOK, TagsGone, DoneOf

LEMMA DraftShape ==
    ASSUME NEW d \in Drafts
    PROVE  d = [name |-> d.name, tags |-> d.tags, combos |-> d.combos]
  BY DEF Drafts

(* Only one change of the Range itself is on its way, and this is it.      *)
LEMMA NothingElseDone ==
    ASSUME AloneOK, NEW q \in requests, q.done = "sent", q.kind \in AloneKinds
    PROVE  DoneOf("save") = {} /\ DoneOf("duplicate") = {} /\ DoneOf("delete") = {}
<1>1. ASSUME NEW p \in requests, p.kind \in AloneKinds PROVE p.done # "done"
  BY <1>1 DEF AloneOK
<1>2. "save" \in AloneKinds /\ "duplicate" \in AloneKinds /\ "delete" \in AloneKinds
  BY DEF AloneKinds
<1> QED  BY <1>1, <1>2 DEF DoneOf

(* A Range saved, or a copy made.                                          *)
LEMMA PutSound ==
    ASSUME LabSound, NEW q \in requests, q.done = "sent", q.kind \in {"save", "duplicate"},
           NEW id \in RangeIds, NEW d \in Drafts, d.tags \subseteq labTags,
           Done(q, RangesWith(id, d), labTags, [id |-> id, draft |-> d]),
           q.kind = "save" => d = q.sent, id \notin minted \/ (q.kind = "save" /\ q.id = id),
           q.kind = "save" /\ q.id # None => id = q.id,
           UNCHANGED <<trail, page, reads, mine, unsure>>
    PROVE  LabSound'
<1>1. LabTyped /\ ReadsOK /\ RequestsOK /\ LabRequestOK(q)
  BY DEF LabSound, RequestsOK
<1>2. PICK a : a = [id |-> id, draft |-> d]
  OBVIOUS
<1>3. PICK p : p = [q EXCEPT !.done = "done", !.answer = a]
  OBVIOUS
<1>4. p = [kind |-> q.kind, id |-> q.id, sent |-> q.sent, tag |-> q.tag, onDraft |-> q.onDraft,
           dead |-> q.dead, done |-> "done", answer |-> a]
  BY <1>1, <1>3, AnswerShape
<1>5. p.kind = q.kind /\ p.id = q.id /\ p.dead = q.dead /\ p.done = "done" /\ p.answer = a /\ p.sent = q.sent
  BY <1>4
<1>6. /\ ranges' = RangesWith(id, d) /\ labTags' = labTags /\ minted' = minted \cup DOMAIN ranges' \cup labTags
      /\ requests' = (requests \ {q}) \cup {p}
  BY <1>2, <1>3 DEF Done
<1>7. /\ UNCHANGED <<trail, draft, baseline, unopened, busy, list, seenTags, chosen, reads, mine, unsure>>
      /\ OnRanges' <=> OnRanges
      /\ Openings' = Openings /\ SideReads' = SideReads
      /\ WorkIsThere' /\ ReadsOK'
      /\ SureOf => AloneOK' /\ OpenOK'
  <2>1. minted \subseteq minted'
    BY <1>6
  <2> QED  BY <1>5, <1>6, <2>1, ServedFrame
<1>8. /\ LabTyped' /\ minted \subseteq minted' /\ id \in minted'
      /\ DOMAIN ranges' = DOMAIN ranges \cup {id} /\ ranges'[id] = d
      /\ \A i \in DOMAIN ranges \ {id} : ranges'[i] = ranges[i]
  BY <1>1, <1>6, <1>7, PutTyped
<1>9. RequestsOK'
  <2>1. a \in SavedRange /\ a.id = id /\ a.draft = d
    BY <1>2 DEF SavedRange
  <2>2. LabRequestOK(p)'
    <3>1. p = [kind |-> p.kind, id |-> p.id, sent |-> p.sent, tag |-> p.tag, onDraft |-> p.onDraft,
               dead |-> p.dead, done |-> p.done, answer |-> p.answer]
      BY <1>4
    <3> QED  BY <1>1, <1>5, <1>7, <1>8, <2>1, <3>1 DEF LabRequestOK
  <2>3. \A r \in requests : LabRequestOK(r)'
    BY <1>1, <1>6, <1>7, <1>8 DEF RequestsOK, LabRequestOK
  <2> QED  BY <1>6, <2>2, <2>3 DEF RequestsOK
<1>10. ASSUME SureOf PROVE SureOf'
  <2>1. DoneOf("save") = {} /\ DoneOf("duplicate") = {} /\ DoneOf("delete") = {}
    BY <1>10, NothingElseDone DEF SureOf, AloneKinds
  <2>2. /\ DoneOf("save")' \cup DoneOf("duplicate")' = {p}
        /\ q.kind = "save" => p \in DoneOf("save")'
    BY <1>5, <1>6, <2>1 DEF DoneOf
  <2>3. TagsGone' = TagsGone
    BY <1>5, <1>6 DEF TagsGone, DoneOf
  <2>4. BaselineKept'
    <3>1. SUFFICES ASSUME baseline.id # None PROVE BeingSaved(baseline.id)' \/ IsSavedAs(baseline.draft, baseline.id)'
      BY <1>7 DEF BaselineKept
    <3>2. IsSavedAs(baseline.draft, baseline.id)
      BY <1>10, <2>1, <3>1 DEF SureOf, BaselineKept, BeingDeleted, BeingSaved
    <3>3. ASSUME id = baseline.id PROVE BeingSaved(baseline.id)'
      <4>1. baseline.id \in minted
        BY <1>1, <3>1 DEF LabTyped
      <4>2. q.kind = "save" /\ p.id = baseline'.id
        BY <1>5, <1>7, <3>3, <4>1
      <4> QED  BY <2>2, <4>2 DEF BeingSaved
    <3>4. ASSUME id # baseline.id PROVE IsSavedAs(baseline.draft, baseline.id)'
      BY <1>7, <1>8, <2>3, <3>2, <3>4 DEF IsSavedAs
    <3> QED  BY <3>3, <3>4
  <2>5. OpeningsKept'
    <3>1. SUFFICES ASSUME NEW r \in Openings, r.answer # None PROVE IsSavedAs(r.answer.draft, r.of)'
      BY <1>7 DEF OpeningsKept
    <3>2. IsSavedAs(r.answer.draft, r.of)
      BY <1>10, <2>1, <3>1 DEF SureOf, OpeningsKept, BeingDeleted
    <3>3. r.of \in minted
      BY <1>1, <3>1 DEF ReadsOK, LabReadOK, Openings
    <3>4. q.kind = "save" => q.id # r.of
      BY <1>10 DEF SureOf, OpenOK
    <3> QED  BY <1>8, <2>3, <3>2, <3>3, <3>4 DEF IsSavedAs
  <2>6. AnswersKept'
    <3>1. d.tags \ TagsGone = d.tags /\ d = [name |-> d.name, tags |-> d.tags, combos |-> d.combos]
      BY <1>1, TagsGoneApart, DraftShape
    <3>2. IsSavedAs(d, id)'
      BY <1>8, <2>3, <3>1 DEF IsSavedAs
    <3>3. p.answer.draft = d /\ p.answer.id = id
      BY <1>2, <1>5
    <3>4. \A r \in (DoneOf("save") \cup DoneOf("duplicate"))' : r = p
      BY <2>2
    <3> QED  BY <3>2, <3>3, <3>4 DEF AnswersKept
  <2>7. SideOK'
    <3>1. SideToCome'
      BY <1>5, <1>6 DEF SideToCome
    <3> QED  BY <3>1 DEF SideOK
  <2> QED  BY <1>7, <1>10, <2>4, <2>5, <2>6, <2>7 DEF SureOf
<1> QED  BY <1>7, <1>8, <1>9, <1>10 DEF LabSound

LEMMA DeleteSound ==
    ASSUME LabSound, NEW q \in requests, q.done = "sent", DeleteRange(q), UNCHANGED <<trail, page, reads, mine, unsure>>
    PROVE  LabSound'
<1>1. LabTyped /\ RequestsOK /\ LabRequestOK(q) /\ q.kind = "delete"
  BY DEF LabSound, RequestsOK, DeleteRange
<1>2. PICK p : p = [q EXCEPT !.done = "done", !.answer = None]
  OBVIOUS
<1>3. p = [kind |-> q.kind, id |-> q.id, sent |-> q.sent, tag |-> q.tag, onDraft |-> q.onDraft,
           dead |-> q.dead, done |-> "done", answer |-> None]
  BY <1>1, <1>2, AnswerShape
<1>4. p.kind = "delete" /\ p.id = q.id /\ p.dead = q.dead /\ p.done = "done"
  BY <1>1, <1>3
<1>5. /\ ranges' = RangesWithout(q.id) /\ labTags' = labTags /\ minted' = minted \cup DOMAIN ranges' \cup labTags
      /\ requests' = (requests \ {q}) \cup {p}
  BY <1>2 DEF DeleteRange, Done
<1>6. /\ UNCHANGED <<trail, draft, baseline, unopened, busy, list, seenTags, chosen, reads, mine, unsure>>
      /\ OnRanges' <=> OnRanges
      /\ Openings' = Openings /\ SideReads' = SideReads
      /\ WorkIsThere' /\ ReadsOK'
      /\ SureOf => AloneOK' /\ OpenOK'
  <2>1. minted \subseteq minted'
    BY <1>5
  <2> QED  BY <1>1, <1>4, <1>5, <2>1, ServedFrame
<1>7. /\ LabTyped' /\ minted \subseteq minted' /\ DOMAIN ranges' = DOMAIN ranges \ {q.id}
      /\ \A i \in DOMAIN ranges \ {q.id} : ranges'[i] = ranges[i]
  <2>1. unsure' \in BOOLEAN /\ minted \subseteq minted'
    BY <1>1, <1>5, <1>6 DEF LabTyped
  <2> QED  BY <1>1, <1>5, <1>6, <2>1, TakeOutTyped
<1>8. RequestsOK'
  <2>1. LabRequestOK(p)'
    BY <1>1, <1>3, <1>6 DEF LabRequestOK
  <2>2. \A r \in requests : LabRequestOK(r)'
    BY <1>1, <1>5, <1>6, <1>7 DEF RequestsOK, LabRequestOK
  <2> QED  BY <1>5, <2>1, <2>2 DEF RequestsOK
<1>9. ASSUME SureOf PROVE SureOf'
  <2>1. DoneOf("save") = {} /\ DoneOf("duplicate") = {} /\ DoneOf("delete") = {}
    BY <1>1, <1>9, NothingElseDone DEF SureOf, AloneKinds
  <2>2. (DoneOf("save") \cup DoneOf("duplicate"))' = {} /\ p \in DoneOf("delete")' /\ TagsGone' = TagsGone
    BY <1>1, <1>4, <1>5, <2>1 DEF DoneOf, TagsGone
  <2>3. BeingDeleted(q.id)'
    BY <1>4, <2>2 DEF BeingDeleted
  <2>4. BaselineKept'
    <3>1. SUFFICES ASSUME baseline.id # None
                   PROVE  BeingDeleted(baseline.id)' \/ IsSavedAs(baseline.draft, baseline.id)'
      BY <1>6 DEF BaselineKept
    <3>2. IsSavedAs(baseline.draft, baseline.id)
      BY <1>9, <2>1, <3>1 DEF SureOf, BaselineKept, BeingDeleted, BeingSaved
    <3> QED  BY <1>6, <1>7, <2>2, <2>3, <3>2 DEF IsSavedAs, BeingDeleted
  <2>5. OpeningsKept'
    <3>1. SUFFICES ASSUME NEW r \in Openings, r.answer # None
                   PROVE  BeingDeleted(r.of)' \/ IsSavedAs(r.answer.draft, r.of)'
      BY <1>6 DEF OpeningsKept
    <3>2. IsSavedAs(r.answer.draft, r.of)
      BY <1>9, <2>1, <3>1 DEF SureOf, OpeningsKept, BeingDeleted
    <3> QED  BY <1>7, <2>2, <2>3, <3>2 DEF IsSavedAs
  <2>6. AnswersKept'
    BY <2>2 DEF AnswersKept
  <2>7. SideOK'
    <3>1. SideToCome'
      BY <1>4, <1>5 DEF SideToCome
    <3> QED  BY <3>1 DEF SideOK
  <2> QED  BY <1>6, <1>9, <2>4, <2>5, <2>6, <2>7 DEF SureOf
<1> QED  BY <1>6, <1>7, <1>8, <1>9 DEF LabSound

LEMMA CreatedSound ==
    ASSUME LabSound, NEW q \in requests, q.done = "sent", q.kind = "createTag",
           NEW t \in LabTagIds \ minted, NEW kept, kept = labTags \cup {t},
           Done(q, ranges, kept, t), UNCHANGED <<trail, page, reads, mine, unsure>>
    PROVE  LabSound'
<1>1. LabTyped /\ RequestsOK /\ LabRequestOK(q)
  BY DEF LabSound, RequestsOK
<1>2. PICK p : p = [q EXCEPT !.done = "done", !.answer = t]
  OBVIOUS
<1>3. p = [kind |-> q.kind, id |-> q.id, sent |-> q.sent, tag |-> q.tag, onDraft |-> q.onDraft,
           dead |-> q.dead, done |-> "done", answer |-> t]
  BY <1>1, <1>2, AnswerShape
<1>4. p.kind = "createTag" /\ p.id = q.id /\ p.dead = q.dead /\ p.done = "done"
  BY <1>3
<1>5. /\ ranges' = ranges /\ labTags' = labTags \cup {t} /\ minted' = minted \cup DOMAIN ranges \cup labTags'
      /\ requests' = (requests \ {q}) \cup {p}
  BY <1>2 DEF Done
<1>6. /\ UNCHANGED <<trail, draft, baseline, unopened, busy, list, seenTags, chosen, reads, mine, unsure>>
      /\ OnRanges' <=> OnRanges
      /\ Openings' = Openings /\ SideReads' = SideReads
      /\ WorkIsThere' /\ ReadsOK'
      /\ SureOf => AloneOK' /\ OpenOK'
  <2>1. minted \subseteq minted'
    BY <1>5
  <2> QED  BY <1>4, <1>5, <2>1, ServedFrame
<1>7. LabTyped'
  BY <1>1, <1>5, <1>6 DEF LabTyped
<1>8. RequestsOK'
  <2>1. LabRequestOK(p)'
    BY <1>1, <1>3, <1>6 DEF LabRequestOK
  <2>2. \A r \in requests : LabRequestOK(r)'
    BY <1>1, <1>5, <1>6 DEF RequestsOK, LabRequestOK
  <2> QED  BY <1>5, <2>1, <2>2 DEF RequestsOK
<1>9. ASSUME SureOf PROVE SureOf'
  <2>1. \A r : r.done = "done" /\ r.kind # "createTag" => (r \in requests' <=> r \in requests)
    BY <1>4, <1>5
  <2>2. BaselineKept' /\ OpeningsKept' /\ AnswersKept' /\ (SideToCome' <=> SideToCome)
    BY <1>5, <1>6, <1>9, <2>1, KeptFrame DEF SureOf
  <2>3. SideOK'
    BY <1>5, <1>6, <1>9, <2>2, SideFrame DEF SureOf
  <2> QED  BY <1>6, <1>9, <2>2, <2>3 DEF SureOf
<1>10. unsure' \/ SureOf'
  BY <1>6, <1>9 DEF LabSound
<1> QED  BY <1>6, <1>7, <1>8, <1>10 DEF LabSound

(* A Tag taken off every Range on the server, the page told later.         *)
LEMMA DeletedTagSound ==
    ASSUME LabSound, NEW q \in requests, q.done = "sent", q.kind = "deleteTag", q.tag \in labTags,
           NEW now, now = [i \in DOMAIN ranges |-> [ranges[i] EXCEPT !.tags = @ \ {q.tag}]],
           NEW kept, kept = labTags \ {q.tag}, Done(q, now, kept, q.tag),
           UNCHANGED <<trail, page, reads, mine, unsure>>
    PROVE  LabSound'
<1>1. LabTyped /\ RequestsOK /\ LabRequestOK(q)
  BY DEF LabSound, RequestsOK
<1>2. PICK p : p = [q EXCEPT !.done = "done", !.answer = q.tag]
  OBVIOUS
<1>3. p = [kind |-> q.kind, id |-> q.id, sent |-> q.sent, tag |-> q.tag, onDraft |-> q.onDraft,
           dead |-> q.dead, done |-> "done", answer |-> q.tag]
  BY <1>1, <1>2, AnswerShape
<1>4. p.kind = "deleteTag" /\ p.id = q.id /\ p.dead = q.dead /\ p.done = "done" /\ p.tag = q.tag
  BY <1>3
<1>5. /\ ranges' = [i \in DOMAIN ranges |-> [ranges[i] EXCEPT !.tags = @ \ {q.tag}]]
      /\ labTags' = labTags \ {q.tag} /\ minted' = minted \cup DOMAIN ranges' \cup labTags'
      /\ requests' = (requests \ {q}) \cup {p}
  BY <1>2 DEF Done
<1>6. /\ UNCHANGED <<trail, draft, baseline, unopened, busy, list, seenTags, chosen, reads, mine, unsure>>
      /\ OnRanges' <=> OnRanges
      /\ Openings' = Openings /\ SideReads' = SideReads
      /\ WorkIsThere' /\ ReadsOK'
      /\ SureOf => AloneOK' /\ OpenOK'
  <2>1. minted \subseteq minted'
    BY <1>5
  <2> QED  BY <1>4, <1>5, <2>1, ServedFrame
<1>7. /\ DOMAIN ranges' = DOMAIN ranges
      /\ \A i \in DOMAIN ranges :
            /\ ranges'[i] = [name |-> ranges[i].name, tags |-> ranges[i].tags \ {q.tag}, combos |-> ranges[i].combos]
            /\ ranges'[i] \in Drafts
  <2>1. \A i \in DOMAIN ranges : ranges[i] \in Drafts
    BY <1>1 DEF LabTyped
  <2>2. DOMAIN ranges' = DOMAIN ranges /\ \A i \in DOMAIN ranges : ranges'[i] = [ranges[i] EXCEPT !.tags = @ \ {q.tag}]
    BY <1>5
  <2>3. SUFFICES ASSUME NEW i \in DOMAIN ranges
                 PROVE  /\ ranges'[i] = [name |-> ranges[i].name, tags |-> ranges[i].tags \ {q.tag},
                                          combos |-> ranges[i].combos]
                        /\ ranges'[i] \in Drafts
    BY <2>2
  <2>4. PICK d \in Drafts : d = ranges[i]
    BY <2>1
  <2>5. ranges'[i] = [d EXCEPT !.tags = @ \ {q.tag}]
    BY <2>2, <2>4
  <2>6. PICK t : t = q.tag
    OBVIOUS
  <2>7. PICK e : e = ranges'[i]
    OBVIOUS
  <2>8. e = [d EXCEPT !.tags = @ \ {t}]
    BY <2>5, <2>6, <2>7
  <2>9. e = [name |-> d.name, tags |-> d.tags \ {t}, combos |-> d.combos] /\ e \in Drafts
    BY <2>8 DEF Drafts
  <2> QED  BY <2>4, <2>6, <2>7, <2>9
<1>8. LabTyped'
  <2>1. \A i \in DOMAIN ranges' : ranges'[i] \in Drafts /\ ranges'[i].tags \subseteq labTags'
    <3>1. \A i \in DOMAIN ranges : ranges'[i].tags = ranges[i].tags \ {q.tag}
      BY <1>7
    <3>2. \A i \in DOMAIN ranges : ranges[i].tags \subseteq labTags
      BY <1>1 DEF LabTyped
    <3>3. \A i \in DOMAIN ranges : ranges'[i].tags \subseteq labTags'
      BY <1>5, <3>1, <3>2
    <3> QED  BY <1>7, <3>3
  <2> QED  BY <1>1, <1>5, <1>6, <1>7, <2>1 DEF LabTyped
<1>9. RequestsOK'
  <2>1. q.tag \in minted' \ labTags'
    BY <1>1, <1>5 DEF LabTyped
  <2>2. LabRequestOK(p)'
    BY <1>1, <1>3, <1>6, <2>1 DEF LabRequestOK
  <2>3. \A r \in requests : LabRequestOK(r)'
    BY <1>1, <1>5, <1>6 DEF RequestsOK, LabRequestOK
  <2> QED  BY <1>5, <2>2, <2>3 DEF RequestsOK
<1>10. ASSUME SureOf PROVE SureOf'
  <2>1. /\ DoneOf("save")' = DoneOf("save") /\ DoneOf("duplicate")' = DoneOf("duplicate")
        /\ DoneOf("delete")' = DoneOf("delete") /\ TagsGone' = TagsGone \cup {q.tag}
    BY <1>4, <1>5 DEF DoneOf, TagsGone
  <2>2. \A d, i : IsSavedAs(d, i) => IsSavedAs(d, i)'
    <3>1. SUFFICES ASSUME NEW d, NEW i, IsSavedAs(d, i) PROVE IsSavedAs(d, i)'
      OBVIOUS
    <3>2. i \in DOMAIN ranges /\ ranges[i] = [name |-> d.name, tags |-> d.tags \ TagsGone, combos |-> d.combos]
      BY <3>1 DEF IsSavedAs
    <3>3. ranges[i].name = d.name /\ ranges[i].tags = d.tags \ TagsGone /\ ranges[i].combos = d.combos
      BY <3>2
    <3>4. ranges'[i] = [name |-> ranges[i].name, tags |-> ranges[i].tags \ {q.tag}, combos |-> ranges[i].combos]
      BY <1>7, <3>2
    <3>5. ranges'[i] = [name |-> d.name, tags |-> (d.tags \ TagsGone) \ {q.tag}, combos |-> d.combos]
      BY <3>3, <3>4
    <3>6. (d.tags \ TagsGone) \ {q.tag} = d.tags \ (TagsGone \cup {q.tag})
      OBVIOUS
    <3> QED  BY <1>7, <2>1, <3>2, <3>5, <3>6 DEF IsSavedAs
  <2>3. BaselineKept'
    BY <1>6, <1>10, <2>1, <2>2 DEF SureOf, BaselineKept, BeingDeleted, BeingSaved
  <2>4. OpeningsKept'
    BY <1>6, <1>10, <2>1, <2>2 DEF SureOf, OpeningsKept, BeingDeleted
  <2>5. AnswersKept'
    BY <1>10, <2>1, <2>2 DEF SureOf, AnswersKept
  <2>6. SideOK'
    <3>1. SideToCome'
      BY <1>4, <1>5 DEF SideToCome
    <3> QED  BY <3>1 DEF SideOK
  <2> QED  BY <1>6, <1>10, <2>3, <2>4, <2>5, <2>6 DEF SureOf
<1>11. unsure' \/ SureOf'
  BY <1>6, <1>10 DEF LabSound
<1> QED  BY <1>6, <1>8, <1>9, <1>11 DEF LabSound

LEMMA ServeSound ==
    ASSUME LabSound, NEW q \in requests, ServeRequest(q)
    PROVE  LabSound'
<1>1. /\ q.done = "sent" /\ (q.kind = "save" /\ q.id = None => FreeIds # {})
      /\ UNCHANGED <<trail, page, reads, mine, unsure>>
      /\ SaveRange(q) \/ DuplicateRange(q) \/ DeleteRange(q) \/ ChangeTags(q)
  BY DEF ServeRequest
<1>2. LabTyped /\ LabRequestOK(q)
  BY DEF LabSound, RequestsOK
<1>3. CASE Refuse(q)
  BY <1>1, <1>3, RefuseSound
<1>4. CASE SaveRange(q) /\ ~Refuse(q)
  <2>1. q.kind = "save" /\ q.sent.tags \subseteq labTags
    BY <1>4 DEF SaveRange
  <2>2. PICK id \in IF q.id # None THEN {q.id} ELSE {CHOOSE i \in FreeIds : TRUE} :
           Done(q, RangesWith(id, q.sent), labTags, [id |-> id, draft |-> q.sent])
    BY <1>4 DEF SaveRange
  <2>3. q.id \in RangeIds \cup {None} /\ q.sent \in Drafts
    BY <1>2, <2>1 DEF LabRequestOK
  <2>4. q.id = None => id \in RangeIds \ minted
    BY <1>1, <2>1, <2>2 DEF FreeIds
  <2>5. q.id # None => id = q.id
    BY <2>2
  <2>6. id \in RangeIds /\ (id \notin minted \/ q.id = id)
    BY <2>3, <2>4, <2>5
  <2> QED  BY <1>1, <2>1, <2>2, <2>3, <2>5, <2>6, PutSound
<1>5. CASE DuplicateRange(q) /\ ~Refuse(q)
  <2>1. q.kind = "duplicate" /\ q.id \in DOMAIN ranges /\ CopyNames # {} /\ FreeIds # {}
    BY <1>5 DEF DuplicateRange
  <2>2. PICK id : id = CHOOSE i \in FreeIds : TRUE
    OBVIOUS
  <2>3. PICK d : d = [ranges[q.id] EXCEPT !.name = CHOOSE n \in CopyNames : TRUE]
    OBVIOUS
  <2>4. Done(q, RangesWith(id, d), labTags, [id |-> id, draft |-> d])
    BY <1>5, <2>1, <2>2, <2>3 DEF DuplicateRange
  <2>5. id \in RangeIds \ minted
    BY <2>1, <2>2 DEF FreeIds
  <2>6. ranges[q.id] \in Drafts /\ ranges[q.id].tags \subseteq labTags
    BY <1>2, <2>1 DEF LabTyped
  <2>7. (CHOOSE n \in CopyNames : TRUE) \in RangeNames
    BY <2>1 DEF CopyNames
  <2>8. d \in Drafts /\ d.tags \subseteq labTags
    BY <2>3, <2>6, <2>7 DEF Drafts
  <2> QED  BY <1>1, <2>1, <2>4, <2>5, <2>8, PutSound
<1>6. CASE DeleteRange(q)
  BY <1>1, <1>6, DeleteSound
<1>7. CASE ChangeTags(q) /\ ~Refuse(q)
  <2>1. CASE q.kind = "createTag"
    <3>1. PICK t \in LabTagIds \ minted : Done(q, ranges, labTags \cup {t}, t)
      BY <1>7, <2>1 DEF ChangeTags
    <3>2. PICK kept : kept = labTags \cup {t}
      OBVIOUS
    <3>3. Done(q, ranges, kept, t)
      BY <3>1, <3>2
    <3> QED  BY <1>1, <2>1, <3>2, <3>3, CreatedSound
  <2>2. CASE q.kind = "deleteTag"
    <3>1. /\ q.tag \in labTags
          /\ Done(q, [i \in DOMAIN ranges |-> [ranges[i] EXCEPT !.tags = @ \ {q.tag}]], labTags \ {q.tag}, q.tag)
      BY <1>7, <2>2 DEF ChangeTags
    <3>2. PICK now : now = [i \in DOMAIN ranges |-> [ranges[i] EXCEPT !.tags = @ \ {q.tag}]]
      OBVIOUS
    <3>3. PICK kept : kept = labTags \ {q.tag}
      OBVIOUS
    <3>4. Done(q, now, kept, q.tag)
      BY <3>1, <3>2, <3>3
    <3> QED  BY <1>1, <2>2, <3>1, <3>2, <3>3, <3>4, DeletedTagSound
  <2> QED  BY <1>7, <2>1, <2>2 DEF ChangeTags
<1> QED  BY <1>1, <1>3, <1>4, <1>5, <1>6, <1>7

(* Where an answer takes the page is on the Ranges.                        *)
LEMMA TargetOnRanges ==
    ASSUME NEW q, LabRequestOK(q), q.done = "done", q.kind \in {"save", "duplicate", "delete"}
    PROVE  Target(q) # Away /\ (q.kind # "delete" => q.answer \in SavedRange /\ q.answer.id \in RangeIds /\ q.answer.draft \in Drafts)
<1>1. q.kind # "delete" => q.answer \in SavedRange
  BY DEF LabRequestOK
<1>2. q.kind # "delete" => q.answer.id \in RangeIds /\ q.answer.draft \in Drafts
  BY <1>1 DEF SavedRange
<1> QED  BY <1>1, <1>2, LabAssumption DEF Target

(* The page left behind: what it answers takes the page there is now.      *)
LEMMA StraySound ==
    ASSUME LabSound, NEW q \in requests, q.done # "sent", q.dead, Stray(q), requests' = requests \ {q}, UNCHANGED saved
    PROVE  LabSound'
<1>1. LabTyped /\ WorkIsThere /\ ReadsOK /\ RequestsOK /\ LabRequestOK(q) /\ UNCHANGED <<ranges, labTags, minted>>
  BY DEF LabSound, RequestsOK, saved
<1>2. unsure = TRUE
  <2>1. ~AloneOK
    BY DEF AloneOK
  <2>2. unsure \in BOOLEAN /\ (unsure \/ SureOf)
    BY DEF LabSound, LabTyped
  <2> QED  BY <2>1, <2>2 DEF SureOf
<1>3. CASE q.done = "done" /\ (q.kind \in {"duplicate", "delete"} \/ (q.kind = "save" /\ q.id = None))
  <2>1. Target(q) # Away
    BY <1>1, <1>3, TargetOnRanges
  <2>2. PICK h : h = Navigate(trail, Target(q))
    OBVIOUS
  <2>3. h.now = Target(q)
    BY <2>2 DEF Navigate
  <2>4. CASE OnRanges /\ Dirty
    <3>1. UNCHANGED <<trail, draft, baseline, unopened, busy, list, seenTags, chosen, reads, mine, unsure>>
      BY <1>3, <2>4 DEF Stray, AskFirst
    <3>2. OpenId' = OpenId /\ Openings' = Openings /\ (OnRanges' <=> OnRanges)
      BY <3>1 DEF OpenId, Openings, OnRanges
    <3>3. ReadsOK' /\ RequestsOK'
      BY <1>1, <3>1, <3>2, ReadsFrame, RequestsFrame
    <3>4. LabTyped' /\ WorkIsThere'
      BY <1>1, <3>1, <3>2 DEF LabTyped, WorkIsThere
    <3> QED  BY <1>2, <3>1, <3>3, <3>4 DEF LabSound
  <2>5. CASE OnRanges /\ ~Dirty
    <3>1. Given(FALSE) /\ Enter(h, baseline, draft, FALSE) /\ UNCHANGED busy
      BY <1>3, <2>2, <2>5 DEF Stray
    <3>2. mine' = None
      BY <1>1, <2>5, <3>1 DEF Given, WorkIsThere, Dirty
    <3>3. ReadsOK'
      BY <1>1, <3>1, EnterReads DEF LabTyped
    <3>4. trail' = h /\ UNCHANGED seenTags
      BY <3>1 DEF Enter
    <3>5. RequestsOK'
      BY <1>1, <2>1, <2>3, <3>4, RequestsFrame DEF OnRanges, OpenId
    <3>6. /\ draft' \in {draft, NewDraft} /\ baseline' \in {baseline, NewBaseline} /\ unopened' \in BOOLEAN
          /\ unsure' = TRUE
      BY <1>1, <1>2, <3>1 DEF Enter, LabTyped
    <3>7. LabTyped'
      BY <1>1, <3>1, <3>4, <3>6, NewIsTyped DEF LabTyped
    <3>8. WorkIsThere'
      BY <3>2 DEF WorkIsThere
    <3> QED  BY <3>3, <3>5, <3>6, <3>7, <3>8 DEF LabSound
  <2>6. CASE ~OnRanges
    <3>1. Given(FALSE) /\ trail' = h /\ Unmount /\ reads' = {Read("side", {})} \cup Wanted(h.now, FALSE) /\ unsure' = unsure
      BY <1>3, <2>2, <2>3, <2>6 DEF Stray, Mount
    <3>2. mine' = None
      BY <1>1, <2>6, <3>1 DEF Given, WorkIsThere
    <3>3. LabTyped' /\ chosen' = {}
      BY <1>1, <1>2, <3>1, UnmountTyped DEF Unmount
    <3>4. ReadsOK'
      BY <3>1, <3>3 DEF ReadsOK, LabReadOK, Wanted, Read, OpenId
    <3>5. RequestsOK'
      BY <1>1, <2>6, RequestsFrame
    <3>6. WorkIsThere'
      BY <3>2 DEF WorkIsThere
    <3> QED  BY <1>2, <3>1, <3>3, <3>4, <3>5, <3>6 DEF LabSound
  <2> QED  BY <2>4, <2>5, <2>6
<1>4. CASE ~(q.done = "done" /\ (q.kind \in {"duplicate", "delete"} \/ (q.kind = "save" /\ q.id = None)))
  <2>1. UNCHANGED <<trail, draft, baseline, unopened, busy, list, seenTags, chosen, reads, mine, unsure>>
    BY <1>4 DEF Stray, page
  <2>2. OpenId' = OpenId /\ Openings' = Openings /\ (OnRanges' <=> OnRanges)
    BY <2>1 DEF OpenId, Openings, OnRanges
  <2>3. ReadsOK' /\ RequestsOK'
    BY <1>1, <2>1, <2>2, ReadsFrame, RequestsFrame
  <2>4. LabTyped' /\ WorkIsThere'
    BY <1>1, <2>1, <2>2 DEF LabTyped, WorkIsThere
  <2> QED  BY <1>2, <2>1, <2>3, <2>4 DEF LabSound
<1> QED  BY <1>3, <1>4

(* An answer that changes nothing here but that it came, or none at all.   *)
LEMMA NoAnswerSound ==
    ASSUME LabSound, NEW q \in requests, requests' = requests \ {q}, UNCHANGED saved, Unbusy(q),
           UNCHANGED <<trail, draft, baseline, unopened, list, seenTags, chosen, reads, mine>>,
           unsure' = TRUE \/ (unsure' = unsure /\ q.done # "done")
    PROVE  LabSound'
<1>1. LabTyped /\ WorkIsThere /\ ReadsOK /\ RequestsOK /\ UNCHANGED <<ranges, labTags, minted>>
  BY DEF LabSound, saved
<1>2. busy' = (busy /\ (q.dead \/ q.kind \notin AloneKinds)) /\ busy' \in BOOLEAN
  BY <1>1 DEF Unbusy, AloneKinds
<1>3. OpenId' = OpenId /\ Openings' = Openings /\ SideReads' = SideReads /\ (OnRanges' <=> OnRanges)
  BY DEF OpenId, Openings, SideReads, OnRanges
<1>4. ReadsOK' /\ RequestsOK'
  BY <1>1, <1>3, ReadsFrame, RequestsFrame
<1>5. LabTyped' /\ WorkIsThere'
  BY <1>1, <1>2, <1>3 DEF LabTyped, WorkIsThere
<1>6. ASSUME ~unsure' PROVE SureOf'
  <2>1. SureOf /\ q.done # "done"
    BY <1>6 DEF LabSound
  <2>2. AloneOK'
    BY <1>2, <1>3, <2>1 DEF SureOf, AloneOK
  <2>3. OpenOK'
    BY <1>3, <2>1 DEF SureOf, OpenOK
  <2>4. \A r : r.done = "done" /\ r.kind # "createTag" => (r \in requests' <=> r \in requests)
    BY <2>1
  <2>5. BaselineKept' /\ OpeningsKept' /\ AnswersKept' /\ (SideToCome' <=> SideToCome)
    BY <1>1, <1>3, <2>1, <2>4, KeptFrame DEF SureOf
  <2>6. SideOK'
    BY <1>1, <1>3, <2>1, <2>5, SideFrame DEF SureOf
  <2> QED  BY <2>2, <2>3, <2>5, <2>6 DEF SureOf
<1> QED  BY <1>4, <1>5, <1>6 DEF LabSound

(* The answer of the one change of the Range that was under way, sure.     *)
LEMMA AloneAnswered ==
    ASSUME SureOf, NEW q \in requests, q.kind \in AloneKinds, q.done = "done", requests' = requests \ {q},
           UNCHANGED <<ranges, labTags, minted>>
    PROVE  /\ OnRanges /\ ~q.dead
           /\ \A p \in requests' : p.kind \notin AloneKinds /\ ~p.dead
           /\ AnswersKept' /\ (\A r \in Openings' : r.answer # None => ~BeingDeleted(r.of)')
           /\ q.kind # "delete" => \A r \in Openings : r.answer # None => IsSavedAs(r.answer.draft, r.of)'
           /\ q.kind # "delete" => IsSavedAs(q.answer.draft, q.answer.id)'
<1>1. AloneOK /\ AnswersKept /\ OpeningsKept
  BY DEF SureOf
<1>2. OnRanges /\ ~q.dead /\ \A p \in requests' : p.kind \notin AloneKinds /\ ~p.dead
  BY <1>1 DEF AloneOK
<1>3. /\ DoneOf("save")' = {} /\ DoneOf("duplicate")' = {} /\ DoneOf("delete")' = {}
      /\ DoneOf("deleteTag")' = DoneOf("deleteTag")
  <2>1. /\ "save" \in AloneKinds /\ "duplicate" \in AloneKinds /\ "delete" \in AloneKinds
        /\ q.kind # "deleteTag"
    BY DEF AloneKinds
  <2> QED  BY <1>2, <2>1 DEF DoneOf
<1>4. TagsGone' = TagsGone
  BY <1>3 DEF TagsGone
<1>5. AnswersKept' /\ (\A r \in Openings' : r.answer # None => ~BeingDeleted(r.of)')
  BY <1>3 DEF AnswersKept, BeingDeleted
<1>6. ASSUME q.kind # "delete" PROVE IsSavedAs(q.answer.draft, q.answer.id)'
  <2>1. q \in DoneOf("save") \cup DoneOf("duplicate")
    BY <1>6 DEF AloneKinds, DoneOf
  <2>2. IsSavedAs(q.answer.draft, q.answer.id)
    BY <1>1, <2>1 DEF AnswersKept
  <2> QED  BY <1>4, <2>2 DEF IsSavedAs
<1>7. ASSUME q.kind # "delete", NEW r \in Openings, r.answer # None PROVE IsSavedAs(r.answer.draft, r.of)'
  <2>1. ~BeingDeleted(r.of)
    <3>1. \A p \in requests : p.kind \in AloneKinds => p = q
      BY <1>1 DEF AloneOK
    <3> QED  BY <1>7, <3>1 DEF BeingDeleted, DoneOf, AloneKinds
  <2>2. IsSavedAs(r.answer.draft, r.of)
    BY <1>1, <1>7, <2>1 DEF OpeningsKept
  <2> QED  BY <1>4, <2>2 DEF IsSavedAs
<1> QED  BY <1>2, <1>5, <1>6, <1>7

LEMMA SavedSound ==
    ASSUME LabSound, NEW q \in requests, q.done = "done", q.kind = "save", ~q.dead, SaveSettles(q),
           requests' = requests \ {q}, Unbusy(q), UNCHANGED saved
    PROVE  LabSound'
<1>1. LabTyped /\ WorkIsThere /\ ReadsOK /\ RequestsOK /\ LabRequestOK(q) /\ UNCHANGED <<ranges, labTags, minted>>
  BY DEF LabSound, RequestsOK, saved
<1>2. /\ q.answer \in SavedRange /\ q.answer.id \in RangeIds /\ q.answer.draft \in Drafts /\ q.answer.id \in minted
      /\ OnRanges /\ q.answer.draft = q.sent
  BY <1>1, TargetOnRanges DEF LabRequestOK
<1>3. PICK h : h = IF q.id = None THEN Navigate(trail, q.answer.id) ELSE trail
  OBVIOUS
<1>4. PICK work : work = IF draft = q.sent THEN q.answer.draft ELSE draft
  OBVIOUS
<1>5. Enter(h, q.answer, work, TRUE) /\ mine' = (IF mine = q.sent THEN None ELSE mine) /\ busy' = FALSE
  BY <1>3, <1>4 DEF SaveSettles, Unbusy
<1>6. (h.now = OpenId \/ h.now = q.answer.id) /\ h.now # Away
  BY <1>2, <1>3, LabAssumption DEF Navigate, OpenId, OnRanges
<1>7. q.answer.id # None /\ work \in Drafts /\ (draft # q.sent => work = draft)
  BY <1>1, <1>2, <1>4, LabAssumption DEF LabTyped
<1>8. /\ trail' = h /\ UNCHANGED <<list, seenTags, chosen>>
      /\ SideReads' = Side(TRUE, chosen) /\ unsure' \in BOOLEAN
      /\ draft' = work /\ baseline' = q.answer /\ unopened' = unopened
      /\ Openings' = IF h.now = OpenId THEN Openings ELSE {}
      /\ ~unsure' => ~unsure /\ q.answer.id = h.now
  <2>1. unopened \in BOOLEAN /\ unsure \in BOOLEAN
    BY <1>1 DEF LabTyped
  <2>2. /\ trail' = h /\ UNCHANGED <<list, seenTags, chosen>>
        /\ SideReads' = Side(TRUE, chosen) /\ unsure' \in BOOLEAN
        /\ \/ /\ h.now = OpenId \/ (h.now # None /\ h.now = q.answer.id)
              /\ draft' = work /\ baseline' = q.answer /\ unopened' = unopened
              /\ Openings' = IF h.now = OpenId THEN Openings ELSE {}
              /\ ~unsure' => ~unsure /\ q.answer.id = h.now
           \/ h.now # OpenId /\ ~(h.now # None /\ h.now = q.answer.id)
    BY <1>1, <1>5, <2>1, EnterFacts
  <2> QED  BY <1>6, <1>7, <2>2
<1>9. OpenId' = h.now /\ OnRanges'
  BY <1>6, <1>8 DEF OpenId, OnRanges
<1>10. LabTyped'
  <2>1. q.answer \in [id : RangeIds \cup {None}, draft : Drafts]
    BY <1>2 DEF SavedRange
  <2> QED  BY <1>1, <1>2, <1>5, <1>7, <1>8, <2>1 DEF LabTyped
<1>11. ReadsOK'
  <2>1. unopened \in BOOLEAN /\ unsure \in BOOLEAN
    BY <1>1 DEF LabTyped
  <2> QED  BY <1>1, <1>5, <2>1, EnterReads
<1>12. RequestsOK'
  BY <1>1, <1>9, RequestsFrame
<1>13. WorkIsThere'
  BY <1>1, <1>5, <1>7, <1>8, <1>9 DEF WorkIsThere
<1>14. ASSUME ~unsure' PROVE SureOf'
  <2>1. SureOf /\ q.answer.id = h.now
    BY <1>8, <1>14 DEF LabSound
  <2>2. /\ \A p \in requests' : p.kind \notin AloneKinds /\ ~p.dead
        /\ AnswersKept' /\ (\A r \in Openings : r.answer # None => IsSavedAs(r.answer.draft, r.of)')
        /\ IsSavedAs(q.answer.draft, q.answer.id)'
    BY <1>1, <2>1, AloneAnswered DEF AloneKinds
  <2>3. AloneOK'
    BY <1>9, <2>2 DEF AloneOK
  <2>4. OpenOK'
    BY <1>8, <1>9, <2>1, <2>2 DEF OpenOK, AloneKinds
  <2>5. BaselineKept'
    BY <1>8, <2>2 DEF BaselineKept
  <2>6. OpeningsKept'
    BY <1>8, <2>2 DEF OpeningsKept
  <2>7. SideOK'
    BY <1>8, SideAgain DEF Side
  <2> QED  BY <2>2, <2>3, <2>4, <2>5, <2>6, <2>7 DEF SureOf
<1> QED  BY <1>10, <1>11, <1>12, <1>13, <1>14 DEF LabSound

LEMMA ReplacedSound ==
    ASSUME LabSound, NEW q \in requests, q.done = "done", q.kind \in {"duplicate", "delete"}, ~q.dead, Replace(q),
           requests' = requests \ {q}, Unbusy(q), UNCHANGED saved
    PROVE  LabSound'
<1>1. LabTyped /\ WorkIsThere /\ ReadsOK /\ RequestsOK /\ LabRequestOK(q) /\ UNCHANGED <<ranges, labTags, minted>>
  BY DEF LabSound, RequestsOK, saved
<1>2. q.kind # "delete" => /\ q.answer \in SavedRange /\ q.answer.id \in RangeIds /\ q.answer.draft \in Drafts
                           /\ q.answer.id \in minted
  BY <1>1, TargetOnRanges DEF LabRequestOK
<1>3. PICK base : base = IF q.kind = "delete" THEN NewBaseline ELSE q.answer
  OBVIOUS
<1>4. PICK h : h = Navigate(trail, base.id)
  OBVIOUS
<1>5. PICK work : work = base.draft
  OBVIOUS
<1>6. Enter(h, base, work, TRUE) /\ mine' = None /\ busy' = FALSE
  BY <1>3, <1>4, <1>5 DEF Replace, Unbusy
<1>7. /\ h.now = base.id /\ base.id # Away /\ base.id \in minted \cup {None}
      /\ base \in [id : RangeIds \cup {None}, draft : Drafts] /\ work \in Drafts
  <2>1. h.now = base.id
    BY <1>4 DEF Navigate
  <2>2. CASE q.kind = "delete"
    BY <1>3, <1>5, <2>1, <2>2, NewIsTyped, LabAssumption
  <2>3. CASE q.kind # "delete"
    <3>1. base \in SavedRange /\ base.id \in RangeIds /\ base.draft \in Drafts /\ base.id \in minted
      BY <1>2, <1>3, <2>3
    <3> QED  BY <1>5, <2>1, <3>1, LabAssumption DEF SavedRange
  <2> QED  BY <2>2, <2>3
<1>8. /\ trail' = h /\ UNCHANGED <<list, seenTags, chosen>>
      /\ SideReads' = Side(TRUE, chosen) /\ unsure' \in BOOLEAN /\ (~unsure' => ~unsure)
      /\ baseline' = base \/ (h.now = None /\ baseline' = NewBaseline)
      /\ draft' \in Drafts /\ unopened' \in BOOLEAN
      /\ Openings' \subseteq Openings /\ (h.now = None => Openings' = {})
  <2>1. unopened \in BOOLEAN /\ unsure \in BOOLEAN
    BY <1>1 DEF LabTyped
  <2>2. /\ trail' = h /\ UNCHANGED <<list, seenTags, chosen>>
        /\ SideReads' = Side(TRUE, chosen) /\ unsure' \in BOOLEAN
        /\ \/ /\ draft' = work /\ baseline' = base /\ unopened' = unopened
              /\ Openings' = IF h.now = OpenId THEN Openings ELSE {}
              /\ ~unsure' => ~unsure
           \/ /\ ~(h.now # None /\ h.now = base.id) /\ draft' = NewDraft /\ baseline' = NewBaseline /\ unopened' = FALSE
              /\ Openings' = Wanted(h.now, FALSE)
              /\ ~unsure' => ~unsure
    BY <1>1, <1>6, <2>1, EnterFacts
  <2>3. OpenId = None => Openings = {}
    BY <1>1 DEF ReadsOK, LabReadOK, Openings
  <2>4. Wanted(None, FALSE) = {}
    BY DEF Wanted
  <2> QED  BY <1>7, <2>1, <2>2, <2>3, <2>4, NewIsTyped
<1>9. OpenId' = h.now /\ OnRanges'
  BY <1>7, <1>8 DEF OpenId, OnRanges
<1>10. baseline'.id = h.now /\ baseline' \in [id : RangeIds \cup {None}, draft : Drafts]
  BY <1>7, <1>8, NewIsTyped
<1>11. LabTyped'
  BY <1>1, <1>6, <1>7, <1>8, <1>10 DEF LabTyped
<1>12. ReadsOK'
  <2>1. unopened \in BOOLEAN /\ unsure \in BOOLEAN
    BY <1>1 DEF LabTyped
  <2> QED  BY <1>1, <1>6, <2>1, EnterReads
<1>13. RequestsOK' /\ WorkIsThere'
  BY <1>1, <1>6, <1>9, RequestsFrame DEF WorkIsThere
<1>14. ASSUME ~unsure' PROVE SureOf'
  <2>1. SureOf
    BY <1>8, <1>14 DEF LabSound
  <2>2. /\ \A p \in requests' : p.kind \notin AloneKinds /\ ~p.dead
        /\ AnswersKept'
        /\ q.kind # "delete" => \A r \in Openings : r.answer # None => IsSavedAs(r.answer.draft, r.of)'
        /\ q.kind # "delete" => IsSavedAs(q.answer.draft, q.answer.id)'
    BY <1>1, <2>1, AloneAnswered DEF AloneKinds
  <2>3. AloneOK'
    BY <1>9, <2>2 DEF AloneOK
  <2>4. OpenOK'
    BY <1>9, <1>10, <2>2 DEF OpenOK, AloneKinds
  <2>5. BaselineKept' /\ OpeningsKept'
    <3>1. CASE q.kind = "delete"
      <4>1. h.now = None
        BY <1>3, <1>7, <3>1, NewIsTyped
      <4> QED  BY <1>8, <1>10, <4>1 DEF BaselineKept, OpeningsKept
    <3>2. CASE q.kind # "delete"
      <4>1. h.now # None /\ baseline' = q.answer
        BY <1>2, <1>3, <1>7, <1>8, <3>2, LabAssumption
      <4> QED  BY <1>8, <2>2, <3>2, <4>1 DEF BaselineKept, OpeningsKept
    <3> QED  BY <3>1, <3>2
  <2>6. SideOK'
    BY <1>8, SideAgain DEF Side
  <2> QED  BY <2>2, <2>3, <2>4, <2>5, <2>6 DEF SureOf
<1> QED  BY <1>11, <1>12, <1>13, <1>14 DEF LabSound

LEMMA TagCreatedSound ==
    ASSUME LabSound, NEW q \in requests, q.done = "done", q.kind = "createTag", ~q.dead, TagCreated(q),
           requests' = requests \ {q}, Unbusy(q), UNCHANGED saved
    PROVE  LabSound'
<1>1. /\ LabTyped /\ WorkIsThere /\ ReadsOK /\ RequestsOK /\ LabRequestOK(q) /\ UNCHANGED <<ranges, labTags, minted>>
      /\ q.answer \in LabTagIds /\ OnRanges
  BY DEF LabSound, RequestsOK, LabRequestOK, saved
<1>2. /\ seenTags' = seenTags \cup {q.answer} /\ UNCHANGED <<trail, baseline, unopened, list, chosen, reads, unsure>>
      /\ busy' = busy
  BY <1>1 DEF TagCreated, Unbusy, LabTyped
<1>3. PICK d : d = [draft EXCEPT !.tags = @ \cup {q.answer}]
  OBVIOUS
<1>4. d \in Drafts
  BY <1>1, <1>3, DraftChanged DEF LabTyped
<1>5. (draft' = d /\ mine' \in {None, d} /\ (mine' # None => Openings = {})) \/ UNCHANGED <<draft, mine>>
  BY <1>3 DEF TagCreated, Edited, Replaced
<1>6. OpenId' = OpenId /\ OnRanges' /\ Openings' = Openings /\ SideReads' = SideReads
  BY <1>1, <1>2 DEF OpenId, OnRanges, Openings, SideReads
<1>7. LabTyped' /\ WorkIsThere'
  BY <1>1, <1>2, <1>4, <1>5, <1>6 DEF LabTyped, WorkIsThere
<1>8. ReadsOK' /\ RequestsOK'
  BY <1>1, <1>2, <1>6, ReadsFrame, RequestsFrame
<1>9. ASSUME SureOf PROVE SureOf'
  <2>1. AloneOK' /\ OpenOK'
    BY <1>2, <1>6, <1>9 DEF SureOf, AloneOK, OpenOK
  <2>2. \A r : r.done = "done" /\ r.kind # "createTag" => (r \in requests' <=> r \in requests)
    OBVIOUS
  <2>3. BaselineKept' /\ OpeningsKept' /\ AnswersKept' /\ (SideToCome' <=> SideToCome)
    BY <1>1, <1>2, <1>6, <1>9, <2>2, KeptFrame DEF SureOf
  <2>4. SideOK'
    BY <1>1, <1>2, <1>6, <1>9, <2>3, SideFrame DEF SureOf
  <2> QED  BY <2>1, <2>3, <2>4 DEF SureOf
<1>10. unsure' \/ SureOf'
  BY <1>2, <1>9 DEF LabSound
<1> QED  BY <1>7, <1>8, <1>10 DEF LabSound

(* The page takes the Tag off what it edits and what it last saved.        *)
LEMMA TagDeletedSound ==
    ASSUME LabSound, NEW q \in requests, q.done = "done", q.kind = "deleteTag", ~q.dead, TagDeleted(q),
           requests' = requests \ {q}, Unbusy(q), UNCHANGED saved
    PROVE  LabSound'
<1>1. /\ LabTyped /\ WorkIsThere /\ ReadsOK /\ RequestsOK /\ UNCHANGED <<ranges, labTags, minted>>
  BY DEF LabSound, saved
<1>2. PICK t : t = q.tag
  OBVIOUS
<1>3. /\ baseline' = [baseline EXCEPT !.draft = WithoutTag(@, t)]
      /\ draft' = [draft EXCEPT !.tags = @ \ {t}]
      /\ mine' = (IF mine = None THEN None ELSE [mine EXCEPT !.tags = @ \ {t}])
      /\ chosen' = chosen \ {t} /\ reads' = Openings \cup {Read("side", chosen')}
      /\ unsure' = (unsure \/ (\E r \in Openings : Carries(r.answer, t))
                           \/ \E p \in requests : p.kind \in {"save", "duplicate"} /\ Carries(p.answer, t))
      /\ UNCHANGED <<trail, unopened, list, seenTags>> /\ busy' = busy
  <2>1. busy' = busy
    BY <1>1 DEF Unbusy, LabTyped
  <2>2. Side(TRUE, chosen') = {Read("side", chosen')}
    BY DEF Side
  <2> QED  BY <1>2, <2>1, <2>2 DEF TagDeleted
<1>4. draft' \in Drafts /\ (mine # None => mine' = draft')
  BY <1>1, <1>3, TagTakenOff DEF LabTyped, WorkIsThere
<1>5. PICK old \in Drafts : old = baseline.draft
  BY <1>1 DEF LabTyped
<1>6. /\ baseline'.id = baseline.id
      /\ baseline'.draft = [name |-> old.name, tags |-> old.tags \ {t}, combos |-> old.combos]
      /\ baseline' \in [id : RangeIds \cup {None}, draft : Drafts]
  <2>1. PICK new : new = WithoutTag(old, t)
    OBVIOUS
  <2>2. new = [name |-> old.name, tags |-> old.tags \ {t}, combos |-> old.combos] /\ new \in Drafts
    BY <1>5, <2>1 DEF Drafts, WithoutTag
  <2>3. baseline' = [baseline EXCEPT !.draft = new]
    BY <1>3, <1>5, <2>1
  <2>4. baseline = [id |-> baseline.id, draft |-> baseline.draft] /\ baseline.id \in RangeIds \cup {None}
    BY <1>1 DEF LabTyped
  <2>5. baseline' = [id |-> baseline.id, draft |-> new]
    BY <2>3, <2>4
  <2> QED  BY <2>2, <2>4, <2>5
<1>7. OpenId' = OpenId /\ (OnRanges' <=> OnRanges) /\ Openings' = Openings /\ SideReads' = {Read("side", chosen')}
  BY <1>3 DEF OpenId, OnRanges, Openings, SideReads, Read
<1>8. LabTyped'
  <2>1. unsure' \in BOOLEAN
    BY <1>3
  <2> QED  BY <1>1, <1>3, <1>4, <1>6, <2>1 DEF LabTyped
<1>9. WorkIsThere'
  BY <1>1, <1>3, <1>4, <1>7 DEF WorkIsThere
<1>10. RequestsOK'
  BY <1>1, <1>7, RequestsFrame
<1>11. ReadsOK'
  <2>1. SUFFICES ASSUME NEW r \in reads' PROVE LabReadOK(r)'
    BY DEF ReadsOK
  <2>2. CASE r = Read("side", chosen')
    BY <2>2 DEF LabReadOK, Read
  <2>3. CASE r \in Openings
    BY <1>1, <1>7, <2>3 DEF Openings, ReadsOK, LabReadOK
  <2> QED  BY <1>3, <2>1, <2>2, <2>3
<1>12. ASSUME ~unsure' PROVE SureOf'
  <2>1. SureOf /\ \A r \in Openings : ~Carries(r.answer, t)
    BY <1>3, <1>12 DEF LabSound
  <2>2. \A p \in requests : p.kind \in {"save", "duplicate"} => ~Carries(p.answer, t)
    BY <1>3, <1>12
  <2>3. /\ DoneOf("save")' = DoneOf("save") /\ DoneOf("duplicate")' = DoneOf("duplicate")
        /\ DoneOf("delete")' = DoneOf("delete")
    BY DEF DoneOf
  <2>4. TagsGone = TagsGone' \cup {t}
    BY <1>2 DEF TagsGone, DoneOf
  <2>5. \A d, i : IsSavedAs(d, i) /\ t \notin d.tags => IsSavedAs(d, i)'
    <3>1. SUFFICES ASSUME NEW d, NEW i, IsSavedAs(d, i), t \notin d.tags PROVE IsSavedAs(d, i)'
      OBVIOUS
    <3>2. d.tags \ TagsGone = d.tags \ TagsGone'
      BY <2>4, <3>1
    <3> QED  BY <1>1, <3>1, <3>2 DEF IsSavedAs
  <2>6. AloneOK'
    <3>1. AloneOK
      BY <2>1 DEF SureOf
    <3> QED  BY <1>3, <1>7, <3>1 DEF AloneOK
  <2>7. OpenOK'
    BY <1>3, <1>6, <1>7, <2>1 DEF SureOf, OpenOK
  <2>8. BaselineKept'
    <3>1. SUFFICES ASSUME baseline'.id # None
                   PROVE  BeingDeleted(baseline.id)' \/ BeingSaved(baseline.id)' \/ IsSavedAs(baseline.draft, baseline.id)'
      BY DEF BaselineKept
    <3>2. BeingDeleted(baseline.id) \/ BeingSaved(baseline.id) \/ IsSavedAs(old, baseline.id)
      BY <1>5, <1>6, <2>1, <3>1 DEF SureOf, BaselineKept
    <3>3. ASSUME IsSavedAs(old, baseline.id) PROVE IsSavedAs(baseline.draft, baseline.id)'
      <4>1. old.tags \ TagsGone = (old.tags \ {t}) \ TagsGone'
        BY <2>4
      <4>2. /\ baseline'.draft.name = old.name /\ baseline'.draft.tags = old.tags \ {t}
            /\ baseline'.draft.combos = old.combos
        BY <1>6
      <4> QED  BY <1>1, <1>6, <3>3, <4>1, <4>2 DEF IsSavedAs
    <3> QED  BY <1>6, <2>3, <3>2, <3>3 DEF BeingDeleted, BeingSaved
  <2>9. OpeningsKept'
    <3>1. SUFFICES ASSUME NEW r \in Openings, r.answer # None
                   PROVE  BeingDeleted(r.of)' \/ IsSavedAs(r.answer.draft, r.of)'
      BY <1>7 DEF OpeningsKept
    <3>2. t \notin r.answer.draft.tags
      BY <2>1, <3>1 DEF Carries
    <3>3. BeingDeleted(r.of) \/ IsSavedAs(r.answer.draft, r.of)
      BY <2>1, <3>1 DEF SureOf, OpeningsKept
    <3> QED  BY <2>3, <2>5, <3>2, <3>3 DEF BeingDeleted
  <2>10. AnswersKept'
    <3>1. SUFFICES ASSUME NEW p \in DoneOf("save") \cup DoneOf("duplicate") PROVE IsSavedAs(p.answer.draft, p.answer.id)'
      BY <2>3 DEF AnswersKept
    <3>2. p \in requests /\ p.kind \in {"save", "duplicate"} /\ p.done = "done"
      BY <3>1 DEF DoneOf
    <3>3. p.answer \in SavedRange
      BY <1>1, <3>2 DEF RequestsOK, LabRequestOK
    <3>4. t \notin p.answer.draft.tags
      BY <2>2, <3>2, <3>3, NoneIsNoRange DEF Carries
    <3>5. IsSavedAs(p.answer.draft, p.answer.id)
      BY <2>1, <3>1 DEF SureOf, AnswersKept
    <3> QED  BY <2>5, <3>4, <3>5
  <2>11. SideOK'
    BY <1>7, SideAgain
  <2> QED  BY <2>6, <2>7, <2>8, <2>9, <2>10, <2>11 DEF SureOf
<1> QED  BY <1>8, <1>9, <1>10, <1>11, <1>12 DEF LabSound

LEMMA SettleSound ==
    ASSUME LabSound, NEW q \in requests, Settle(q) \/ LoseRequest(q)
    PROVE  LabSound'
<1>1. CASE LoseRequest(q)
  BY <1>1, NoAnswerSound DEF LoseRequest
<1>2. CASE Settle(q)
  <2>1. q.done # "sent" /\ requests' = requests \ {q} /\ UNCHANGED saved
    BY <1>2 DEF Settle
  <2>2. CASE q.dead
    <3>1. Stray(q)
      BY <1>2, <2>2 DEF Settle
    <3> QED  BY <2>1, <2>2, <3>1, StraySound
  <2>3. CASE ~q.dead /\ q.done = "refused"
    BY <1>2, <2>1, <2>3, NoAnswerSound DEF Settle
  <2>4. CASE ~q.dead /\ q.done # "refused"
    <3>1. q.done = "done" /\ q.kind \in {"save", "duplicate", "delete", "createTag", "deleteTag"}
      BY <2>1, <2>4 DEF LabSound, RequestsOK, LabRequestOK, AloneKinds
    <3>2. /\ Unbusy(q)
          /\ CASE q.kind = "save" -> SaveSettles(q)
               [] q.kind \in {"duplicate", "delete"} -> Replace(q)
               [] q.kind = "createTag" -> TagCreated(q)
               [] OTHER -> TagDeleted(q)
      BY <1>2, <2>4 DEF Settle
    <3>3. CASE q.kind = "save"
      BY <2>1, <2>4, <3>1, <3>2, <3>3, SavedSound
    <3>4. CASE q.kind \in {"duplicate", "delete"}
      BY <2>1, <2>4, <3>1, <3>2, <3>4, ReplacedSound
    <3>5. CASE q.kind = "createTag"
      BY <2>1, <2>4, <3>1, <3>2, <3>5, TagCreatedSound
    <3>6. CASE q.kind = "deleteTag"
      BY <2>1, <2>4, <3>1, <3>2, <3>6, TagDeletedSound
    <3> QED  BY <3>1, <3>3, <3>4, <3>5, <3>6
  <2> QED  BY <2>2, <2>3, <2>4
<1> QED  BY <1>1, <1>2

(* Reads: what is read is what the server has, but for what is on its way. *)
LEMMA AnswerReadSound ==
    ASSUME LabSound, NEW r \in reads, AnswerRead(r)
    PROVE  LabSound'
<1>1. LabTyped /\ WorkIsThere /\ ReadsOK /\ RequestsOK /\ LabReadOK(r)
  BY DEF LabSound, ReadsOK
<1>2. PICK answer : answer = IF r.kind = "open" THEN [id |-> r.of, draft |-> ranges[r.of]]
                             ELSE [list |-> Listed(r.of), tags |-> labTags]
  OBVIOUS
<1>3. PICK s : s = [r EXCEPT !.answer = answer]
  OBVIOUS
<1>4. s = [kind |-> r.kind, of |-> r.of, answer |-> answer]
  BY <1>1, <1>3 DEF LabReadOK
<1>5. s.kind = r.kind /\ s.of = r.of /\ s.answer = answer /\ s = [kind |-> s.kind, of |-> s.of, answer |-> s.answer]
  BY <1>4
<1>6. /\ r.answer = None /\ (r.kind = "open" => r.of \in DOMAIN ranges) /\ reads' = (reads \ {r}) \cup {s}
      /\ UNCHANGED <<ranges, labTags, minted>> /\ UNCHANGED <<trail, requests, mine, unsure>>
      /\ UNCHANGED <<draft, baseline, unopened, busy, list, seenTags, chosen>>
  BY <1>2, <1>3 DEF AnswerRead, saved, page
<1>7. OpenId' = OpenId /\ (OnRanges' <=> OnRanges)
  BY <1>6 DEF OpenId, OnRanges
<1>8. /\ r.kind = "open" => Openings' = (Openings \ {r}) \cup {s} /\ SideReads' = SideReads
      /\ r.kind = "side" => Openings' = Openings /\ SideReads' = (SideReads \ {r}) \cup {s}
      /\ r.kind = "open" => r \in Openings
      /\ r.kind = "side" => r \in SideReads
  BY <1>5, <1>6 DEF Openings, SideReads
<1>9. LabTyped' /\ WorkIsThere' /\ RequestsOK'
  <2>1. LabTyped' /\ RequestsOK'
    BY <1>1, <1>6, <1>7, RequestsFrame DEF LabTyped
  <2>2. WorkIsThere'
    <3>1. r.kind \in {"side", "open"}
      BY <1>1 DEF LabReadOK
    <3> QED  BY <1>1, <1>6, <1>7, <1>8, <3>1 DEF WorkIsThere
  <2> QED  BY <2>1, <2>2
<1>10. r.kind = "open" => /\ answer = [id |-> r.of, draft |-> ranges[r.of]] /\ answer \in SavedRange
                          /\ answer.id = r.of /\ answer.draft = ranges[r.of] /\ r.of \in minted
  BY <1>1, <1>2, <1>6 DEF LabTyped, SavedRange
<1>11. r.kind = "side" => answer.list = Listed(chosen) /\ answer.tags \subseteq LabTagIds
  BY <1>1, <1>2 DEF LabReadOK, LabTyped
<1>12. ReadsOK'
  <2>1. LabReadOK(s)'
    BY <1>1, <1>5, <1>6, <1>7, <1>10, <1>11 DEF LabReadOK
  <2>2. \A o \in reads : LabReadOK(o)'
    BY <1>1, <1>6, <1>7 DEF ReadsOK, LabReadOK
  <2> QED  BY <1>6, <2>1, <2>2 DEF ReadsOK
<1>13. ASSUME SureOf PROVE SureOf'
  <2>1. r.kind \in {"side", "open"}
    BY <1>1 DEF LabReadOK
  <2>2. AloneOK'
    BY <1>6, <1>7, <1>13 DEF SureOf, AloneOK
  <2>3. OpenOK'
    BY <1>5, <1>6, <1>7, <1>8, <1>13, <2>1 DEF SureOf, OpenOK
  <2>4. /\ BaselineKept' /\ AnswersKept' /\ (SideToCome' <=> SideToCome)
        /\ Openings' \subseteq Openings => OpeningsKept'
    BY <1>6, <1>13, KeptFrame DEF SureOf
  <2>5. OpeningsKept'
    <3>1. CASE r.kind = "open"
      <4>1. ASSUME NEW o \in Openings, o.answer # None PROVE BeingDeleted(o.of)' \/ IsSavedAs(o.answer.draft, o.of)'
        BY <1>6, <1>13, <4>1 DEF SureOf, OpeningsKept, BeingDeleted, IsSavedAs, TagsGone, DoneOf
      <4>2. IsSavedAs(s.answer.draft, s.of)'
        <5>1. ranges[r.of] \in Drafts /\ ranges[r.of].tags \subseteq labTags
          BY <1>1, <1>6, <3>1 DEF LabTyped
        <5>2. PICK d : d = ranges[r.of]
          OBVIOUS
        <5>3. d.tags \ TagsGone = d.tags /\ d = [name |-> d.name, tags |-> d.tags, combos |-> d.combos]
          BY <1>1, <5>1, <5>2, TagsGoneApart, DraftShape
        <5>4. s.answer.draft = d /\ s.of = r.of /\ r.of \in DOMAIN ranges
          BY <1>5, <1>6, <1>10, <3>1, <5>2
        <5>5. TagsGone' = TagsGone /\ ranges' = ranges
          BY <1>6 DEF TagsGone, DoneOf
        <5> QED  BY <5>2, <5>3, <5>4, <5>5 DEF IsSavedAs
      <4> QED  BY <1>8, <3>1, <4>1, <4>2 DEF OpeningsKept
    <3>2. CASE r.kind = "side"
      BY <1>8, <2>4, <3>2
    <3> QED  BY <2>1, <3>1, <3>2
  <2>6. SideOK'
    <3>1. CASE r.kind = "open"
      BY <1>6, <1>8, <1>13, <2>4, <3>1, SideFrame DEF SureOf
    <3>2. CASE r.kind = "side"
      <4>1. Listed(chosen)' = Listed(chosen)
        BY <1>6 DEF Listed
      <4>2. SideToCome \/ \A o \in SideReads : o.answer # None => o.answer.list = Listed(chosen)
        BY <1>13 DEF SureOf, SideOK
      <4>3. SideReads' # {} /\ s.answer.list = Listed(chosen)
        BY <1>5, <1>8, <1>11, <3>2
      <4>4. SideToCome' \/ \A o \in SideReads' : o.answer # None => o.answer.list = Listed(chosen)'
        BY <1>8, <2>4, <3>2, <4>1, <4>2, <4>3
      <4> QED  BY <4>3, <4>4 DEF SideOK
    <3> QED  BY <2>1, <3>1, <3>2
  <2> QED  BY <2>2, <2>3, <2>4, <2>5, <2>6 DEF SureOf
<1>14. unsure' \/ SureOf'
  BY <1>6, <1>13 DEF LabSound
<1> QED  BY <1>9, <1>12, <1>14 DEF LabSound

LEMMA TakeReadSound ==
    ASSUME LabSound, NEW r \in reads, TakeRead(r)
    PROVE  LabSound'
<1>1. LabTyped /\ WorkIsThere /\ ReadsOK /\ RequestsOK /\ LabReadOK(r) /\ r.kind \in {"side", "open"}
  BY DEF LabSound, ReadsOK, LabReadOK
<1>2. /\ r.answer # None /\ reads' = reads \ {r}
      /\ UNCHANGED <<ranges, labTags, minted>> /\ UNCHANGED <<trail, requests, mine, unsure, unopened, busy, chosen>>
      /\ r.kind = "open" => baseline' = r.answer /\ draft' = r.answer.draft /\ UNCHANGED <<list, seenTags>>
      /\ r.kind = "side" => UNCHANGED <<baseline, draft>> /\ list' = r.answer.list /\ seenTags' = r.answer.tags
  BY DEF TakeRead, saved
<1>3. OpenId' = OpenId /\ (OnRanges' <=> OnRanges)
  BY <1>2 DEF OpenId, OnRanges
<1>4. /\ r.kind = "open" => Openings' \subseteq Openings /\ SideReads' = SideReads /\ r \in Openings
      /\ r.kind = "side" => Openings' = Openings /\ SideReads' = SideReads \ {r} /\ r \in SideReads
  BY <1>2 DEF Openings, SideReads
<1>5. r.kind = "open" => /\ r.answer \in SavedRange /\ r.answer.id = OpenId /\ r.of = OpenId /\ r.of \in minted
                         /\ r.answer \in [id : RangeIds \cup {None}, draft : Drafts] /\ r.answer.draft \in Drafts
  BY <1>1, <1>2 DEF LabReadOK, SavedRange
<1>6. r.kind = "side" => r.answer.tags \subseteq LabTagIds
  BY <1>1, <1>2 DEF LabReadOK
<1>7. LabTyped'
  BY <1>1, <1>2, <1>5, <1>6 DEF LabTyped
<1>8. WorkIsThere'
  BY <1>1, <1>2, <1>3, <1>4 DEF WorkIsThere
<1>9. ReadsOK' /\ RequestsOK'
  BY <1>1, <1>2, <1>3, ReadsFrame, RequestsFrame
<1>10. ASSUME SureOf PROVE SureOf'
  <2>1. AloneOK'
    BY <1>2, <1>3, <1>10 DEF SureOf, AloneOK
  <2>2. Openings' \subseteq Openings
    BY <1>1, <1>4
  <2>3. OpenOK'
    <3>1. OnRanges' => unopened' \/ baseline'.id = OpenId' \/ Openings' # {}
      BY <1>1, <1>2, <1>3, <1>4, <1>5, <1>10 DEF SureOf, OpenOK
    <3> QED  BY <1>2, <1>10, <2>2, <3>1 DEF SureOf, OpenOK
  <2>4. AnswersKept' /\ OpeningsKept' /\ (SideToCome' <=> SideToCome) /\ (baseline' = baseline => BaselineKept')
    BY <1>2, <1>10, <2>2, KeptFrame DEF SureOf
  <2>5. BaselineKept'
    <3>1. CASE r.kind = "open"
      <4>1. BeingDeleted(r.of) \/ IsSavedAs(r.answer.draft, r.of)
        BY <1>2, <1>4, <1>10, <3>1 DEF SureOf, OpeningsKept
      <4>2. BeingDeleted(r.of)' \/ IsSavedAs(r.answer.draft, r.of)'
        BY <1>2, <4>1 DEF BeingDeleted, IsSavedAs, TagsGone, DoneOf
      <4>3. baseline' = r.answer /\ baseline'.id = r.of
        BY <1>2, <1>5, <3>1
      <4> QED  BY <4>2, <4>3 DEF BaselineKept
    <3>2. CASE r.kind = "side"
      BY <1>2, <2>4, <3>2
    <3> QED  BY <1>1, <3>1, <3>2
  <2>6. SideOK'
    <3>1. CASE r.kind = "open"
      BY <1>2, <1>4, <1>10, <2>4, <3>1, SideFrame DEF SureOf
    <3>2. CASE r.kind = "side"
      <4>1. Listed(chosen)' = Listed(chosen)
        BY <1>2 DEF Listed
      <4>2. SideToCome \/ \A o \in SideReads : o.answer # None => o.answer.list = Listed(chosen)
        BY <1>10 DEF SureOf, SideOK
      <4>3. SideToCome' \/ (/\ \A o \in SideReads' : o.answer # None => o.answer.list = Listed(chosen)'
                            /\ list' = Listed(chosen)')
        BY <1>2, <1>4, <2>4, <3>2, <4>1, <4>2
      <4> QED  BY <4>3 DEF SideOK
    <3> QED  BY <1>1, <3>1, <3>2
  <2> QED  BY <2>1, <2>3, <2>4, <2>5, <2>6 DEF SureOf
<1>11. unsure' \/ SureOf'
  BY <1>2, <1>10 DEF LabSound
<1> QED  BY <1>7, <1>8, <1>9, <1>11 DEF LabSound

LEMMA FailReadSound ==
    ASSUME LabSound, NEW r \in reads, FailRead(r)
    PROVE  LabSound'
<1>1. LabTyped /\ WorkIsThere /\ ReadsOK /\ RequestsOK /\ r.kind \in {"side", "open"}
  BY DEF LabSound, ReadsOK, LabReadOK
<1>2. /\ reads' = reads \ {r} /\ unopened' = (unopened \/ r.kind = "open")
      /\ list' = (IF r.kind = "side" THEN None ELSE list)
      /\ UNCHANGED <<ranges, labTags, minted>>
      /\ UNCHANGED <<trail, draft, baseline, busy, seenTags, chosen, requests, mine, unsure>>
  BY DEF FailRead, saved
<1>3. OpenId' = OpenId /\ (OnRanges' <=> OnRanges)
  BY <1>2 DEF OpenId, OnRanges
<1>4. /\ r.kind = "open" => Openings' \subseteq Openings /\ SideReads' = SideReads
      /\ r.kind = "side" => Openings' = Openings /\ SideReads' \subseteq SideReads
  BY <1>2 DEF Openings, SideReads
<1>5. LabTyped' /\ WorkIsThere'
  BY <1>1, <1>2, <1>3, <1>4 DEF LabTyped, WorkIsThere
<1>6. ReadsOK' /\ RequestsOK'
  BY <1>1, <1>2, <1>3, ReadsFrame, RequestsFrame
<1>7. ASSUME SureOf PROVE SureOf'
  <2>1. Openings' \subseteq Openings
    BY <1>1, <1>4
  <2>2. AloneOK' /\ OpenOK'
    BY <1>1, <1>2, <1>3, <1>4, <1>7 DEF SureOf, AloneOK, OpenOK
  <2>3. AnswersKept' /\ OpeningsKept' /\ BaselineKept' /\ (SideToCome' <=> SideToCome)
    BY <1>2, <1>7, <2>1, KeptFrame DEF SureOf
  <2>4. SideOK'
    <3>1. CASE r.kind = "open"
      BY <1>2, <1>4, <1>7, <2>3, <3>1, SideFrame DEF SureOf
    <3>2. CASE r.kind = "side"
      <4>1. Listed(chosen)' = Listed(chosen)
        BY <1>2 DEF Listed
      <4> QED  BY <1>2, <1>4, <1>7, <2>3, <3>2, <4>1 DEF SureOf, SideOK
    <3> QED  BY <1>1, <3>1, <3>2
  <2> QED  BY <2>2, <2>3, <2>4 DEF SureOf
<1>8. unsure' \/ SureOf'
  BY <1>2, <1>7 DEF LabSound
<1> QED  BY <1>5, <1>6, <1>8 DEF LabSound

LEMMA LabElsewhereSound ==
    ASSUME LabSound, LabElsewhere
    PROVE  LabSound'
<1>1. LabTyped /\ WorkIsThere /\ ReadsOK /\ RequestsOK
  BY DEF LabSound
<1>2. /\ unsure' = TRUE /\ UNCHANGED <<labTags, minted, trail, reads, requests, mine>>
      /\ UNCHANGED <<draft, baseline, unopened, busy, list, seenTags, chosen>>
  BY DEF LabElsewhere, page
<1>3. PICK id : ranges' = RangesWithout(id)
  BY DEF LabElsewhere
<1>4. LabTyped'
  BY <1>1, <1>2, <1>3, TakeOutTyped
<1>5. OpenId' = OpenId /\ (OnRanges' <=> OnRanges) /\ Openings' = Openings
  BY <1>2 DEF OpenId, OnRanges, Openings
<1>6. WorkIsThere' /\ ReadsOK' /\ RequestsOK'
  BY <1>1, <1>2, <1>5, ReadsFrame, RequestsFrame DEF WorkIsThere
<1> QED  BY <1>2, <1>4, <1>6 DEF LabSound

LEMMA LabStarts ==
    ASSUME LabInit
    PROVE  LabSound
<1>1. PICK t, id, n, c : /\ t = CHOOSE x \in LabTagIds : TRUE
                         /\ id = CHOOSE x \in RangeIds : TRUE
                         /\ n = CHOOSE x \in RangeNames : TRUE
                         /\ c = CHOOSE x \in Combos : x # NoCombos
  OBVIOUS
<1>2. t \in LabTagIds /\ id \in RangeIds /\ n \in RangeNames /\ c \in Combos
  <2>1. \E x \in Combos : x # NoCombos
    BY LabAssumption
  <2> QED  BY <1>1, <2>1, LabAssumption
<1>3. /\ labTags = {t} /\ minted = {id} \cup {t}
      /\ ranges = [i \in {id} |-> [name |-> n, tags |-> {t}, combos |-> c]]
      /\ trail = OpenedAt(id) /\ reads = {Read("side", {}), Read("open", id)}
      /\ draft = NewDraft /\ baseline = NewBaseline /\ unopened = FALSE /\ busy = FALSE
      /\ list = None /\ seenTags = {} /\ chosen = {} /\ requests = {} /\ mine = None /\ unsure = FALSE
  BY <1>1 DEF LabInit
<1>4. OpenId = id /\ id # None
  BY <1>2, <1>3, LabAssumption DEF OpenId, OpenedAt
<1>5. LabTyped
  <2>1. DOMAIN ranges = {id} /\ ranges[id] = [name |-> n, tags |-> {t}, combos |-> c]
    BY <1>3
  <2>2. ranges[id] \in Drafts /\ ranges[id].tags = {t}
    BY <1>2, <2>1 DEF Drafts
  <2> QED  BY <1>2, <1>3, <2>1, <2>2, NewIsTyped DEF LabTyped
<1>6. WorkIsThere /\ RequestsOK
  BY <1>3 DEF WorkIsThere, RequestsOK
<1>7. Read("open", id) \in Openings /\ \A r \in reads : r.answer = None
  BY <1>3 DEF Openings, Read
<1>8. ReadsOK
  BY <1>3, <1>4 DEF ReadsOK, LabReadOK, Read
<1>9. SureOf
  <2>1. AloneOK /\ OpenOK /\ BaselineKept /\ AnswersKept
    BY <1>3, <1>7, NewIsTyped DEF AloneOK, OpenOK, BaselineKept, AnswersKept, DoneOf
  <2>2. OpeningsKept /\ SideOK
    BY <1>3, <1>7 DEF OpeningsKept, SideOK, Openings, SideReads
  <2> QED  BY <2>1, <2>2 DEF SureOf
<1> QED  BY <1>5, <1>6, <1>8, <1>9 DEF LabSound

LEMMA LabSteps ==
    ASSUME LabSound, [LabNext]_labVars
    PROVE  LabSound'
<1>1. CASE OpenRange \/ LeavePage \/ Analyse \/ ComeBack \/ LabBack \/ StartNew \/ Discard \/ Stay
  BY <1>1, GoingSound
<1>2. CASE Edit \/ ChooseTag
  BY <1>2, EditSound, ChooseTagSound
<1>3. CASE Save \/ Duplicate \/ RemoveRange \/ CreateTag \/ DeleteTag
  BY <1>3, SendingSound
<1>4. CASE \E q \in requests : ServeRequest(q) \/ Settle(q) \/ LoseRequest(q)
  BY <1>4, ServeSound, SettleSound
<1>5. CASE \E r \in reads : AnswerRead(r) \/ TakeRead(r) \/ FailRead(r)
  BY <1>5, AnswerReadSound, TakeReadSound, FailReadSound
<1>6. CASE LabElsewhere
  BY <1>6, LabElsewhereSound
<1>7. CASE UNCHANGED labVars
  BY <1>7, HeldSound DEF labVars, page, saved, OpenId
<1> QED  BY <1>1, <1>2, <1>3, <1>4, <1>5, <1>6, <1>7 DEF LabNext

LEMMA SoundIsEnough ==
    ASSUME LabSound
    PROVE  KeepsTheWork
<1>1. LabTyped /\ WorkIsThere /\ (unsure \/ SureOf)
  BY DEF LabSound
<1>2. ASSUME OnRanges, ~unsure, requests = {}, reads = {}
      PROVE  /\ ~unopened => baseline.id = OpenId
             /\ baseline.id # None => baseline.draft = ranges[baseline.id]
             /\ list # None => list = Listed(chosen)
  <2>1. OpenOK /\ BaselineKept /\ SideOK /\ Openings = {} /\ SideReads = {} /\ TagsGone = {}
    BY <1>1, <1>2 DEF SureOf, Openings, SideReads, TagsGone, DoneOf
  <2>2. ~unopened => baseline.id = OpenId
    BY <1>2, <2>1 DEF OpenOK
  <2>3. ASSUME baseline.id # None PROVE baseline.draft = ranges[baseline.id]
    <3>1. IsSavedAs(baseline.draft, baseline.id)
      BY <1>2, <2>1, <2>3 DEF BaselineKept, BeingDeleted, BeingSaved, DoneOf
    <3>2. PICK d \in Drafts : d = baseline.draft
      BY <1>1 DEF LabTyped
    <3>3. d.tags \ {} = d.tags
      OBVIOUS
    <3>4. d = [name |-> d.name, tags |-> d.tags, combos |-> d.combos]
      BY DraftShape
    <3> QED  BY <2>1, <3>1, <3>2, <3>3, <3>4 DEF IsSavedAs
  <2>4. list # None => list = Listed(chosen)
    BY <1>2, <2>1 DEF SideOK, SideToCome
  <2> QED  BY <2>2, <2>3, <2>4
<1>3. UnsavedIsTrue
  BY <1>2 DEF UnsavedIsTrue
<1> QED  BY <1>1, <1>3 DEF KeepsTheWork, WorkIsThere

(* The work kept, whoever else saves, copies, deletes or answers late.     *)
THEOREM WorkIsKept == LabSpec => []KeepsTheWork
<1>1. LabInit => LabSound
  BY LabStarts
<1>2. LabSound /\ [LabNext]_labVars => LabSound'
  BY LabSteps
<1>3. LabSound => KeepsTheWork
  BY SoundIsEnough
<1> QED  BY <1>1, <1>2, <1>3, PTL DEF LabSpec

-----------------------------------------------------------------------------
(* The shapes of a filter, an address, an entry and a history.             *)
FilterOK(f) == f = [from |-> f.from, to |-> f.to, sites |-> f.sites, marked |-> f.marked, tags |-> f.tags, stat |-> f.stat]
SearchOK(s) ==
    /\ s = [from |-> s.from, to |-> s.to, all |-> s.all, sites |-> s.sites, marked |-> s.marked, tags |-> s.tags,
            stat |-> s.stat, sort |-> s.sort, page |-> s.page, zoom |-> s.zoom]
    /\ s.page \in Nat \ {0}
EntryOK(e) ==
    /\ e = [view |-> e.view, search |-> e.search, hand |-> e.hand, replay |-> e.replay, from |-> e.from]
    /\ SearchOK(e.search)
HistoryOK(h) ==
    /\ h = [past |-> h.past, now |-> h.now, ahead |-> h.ahead] /\ EntryOK(h.now)
    /\ Len(h.past) \in Nat /\ h.past = [i \in 1..Len(h.past) |-> h.past[i]]
    /\ \A i \in 1..Len(h.past) : EntryOK(h.past[i])

(* Changes in flight: removals; one made but not answered; one asked for.   *)
Removals == {c \in calls : c.kind = "remove"}
Removed == \E c \in Removals : c.done = "done"
Pending == \E c \in calls : c.done = "done" /\ c.kind # "play"
CallOK(c) ==
    /\ c = [kind |-> c.kind, at |-> c.at, filter |-> c.filter, hands |-> c.hands, tag |-> c.tag, name |-> c.name,
            on |-> c.on, total |-> c.total, done |-> c.done, ids |-> c.ids]
    /\ EntryOK(c.at) /\ c.at.view # "hand" /\ c.total \in Nat /\ c.done \in {"sent", "done", "refused"}
    /\ c.kind \in {"play", "mark", "create", "rename", "delete", "tag", "remove", "import"}
    /\ c.kind = "import" => c.hands \subseteq Hands
    /\ c.kind = "remove" /\ c.done = "done" => c.hands \subseteq Hands
(* Reads in flight: the total is read first, an answer is of its filter.   *)
AskOK(a) ==
    /\ a = [kind |-> a.kind, filter |-> a.filter, sort |-> a.sort, page |-> a.page, zoom |-> a.zoom,
            total |-> a.total, answer |-> a.answer]
    /\ a.kind \in Kinds \cup {"ids"}
    /\ a.kind = "list" => /\ a.total # None => a.total \in Nat
                          /\ a.answer # None => a.total # None /\ a.answer.total = a.total
    /\ a.kind \in {"results", "stats"} /\ a.answer # None => a.answer.of = a.filter
LibTyped ==
    /\ library \subseteq Hands /\ today \in {FirstDay, FirstDay + 1}
    /\ HistoryOK(history) /\ \A c \in calls : CallOK(c)
    /\ \A a \in asks : AskOK(a)
    /\ outdated \subseteq Kinds /\ strayed \in BOOLEAN /\ turned \in BOOLEAN
    /\ turned => strayed /\ today # FirstDay
    /\ OnLibrary => FilterOK(filter) /\ (Loaded => load.total \in Nat)

(* What is shown, and what each read in flight will show.                  *)
Excused(kind) == kind \in outdated \/ Pending
AskRight(a) ==
    /\ a.filter = filter
    /\ a.kind = "list" => a.sort = Here.search.sort /\ a.page = Here.search.page
    /\ a.kind = "list" /\ ~Excused("list") =>
           /\ a.total # None => a.total = Total(filter)
           /\ a.answer # None => a.answer = Page(filter, a.sort, a.page, a.total)
    /\ a.kind \in {"results", "stats"} /\ ~Excused(a.kind) /\ a.answer # None => a.answer.hands = Keeps(filter)
AsksRight == \A a \in asks : a.kind \in Kinds => AskRight(a)
Asked(kind) == \E a \in asks : a.kind = kind
AddressRight == ~turned => ReadFilter(Here.search, today) = filter
ListRight ==
    Asked("list") \/ load = Failed \/ Excused("list")
        \/ load = Page(filter, Here.search.sort, Here.search.page, Total(filter))
ResultsRight ==
    results # None => /\ today = FirstDay => results.of = filter
                      /\ Here.view = "graph" /\ ~Asked("results") /\ ~Excused("results") => results.hands = Keeps(filter)
StatsRight ==
    /\ summary \notin {None, Failed} /\ today = FirstDay => summary.of = filter
    /\ Here.view = "stats" /\ ~Asked("stats") /\ ~Excused("stats") /\ summary # Failed => summary.hands = Keeps(filter)
(* Stepping back: the page is there, and no total is more than there are.  *)
PageRight == strayed \/ Removed \/ Here.search.page <= Pages(Total(filter))
TotalsRight ==
    strayed \/ Removed \/
        /\ Loaded /\ ~Reading => load.total <= Total(filter)
        /\ \A a \in asks : a.kind = "list" /\ a.total # None => a.total <= Total(filter)
OnScreen == AsksRight /\ AddressRight /\ ListRight /\ ResultsRight /\ StatsRight /\ PageRight /\ TotalsRight
RemovalOK(c) ==
    /\ c.filter = ReadFilter(c.at.search, today)
    /\ c.done = "sent" => c.total <= Total(c.filter)
    /\ c.done = "done" => c.total - Cardinality(c.hands) <= Total(c.filter)
RemovalsRight ==
    strayed \/
        /\ \A c, d \in Removals : c = d
        /\ \A c \in Removals : RemovalOK(c)
LibSound == LibTyped /\ (OnLibrary => OnScreen) /\ RemovalsRight

-----------------------------------------------------------------------------
(* The larger of two numbers, and the smaller.                             *)
LEMMA LibMaxOfTwo ==
    ASSUME NEW a \in Int, NEW b \in Int
    PROVE  Max({a, b}) \in {a, b} /\ Max({a, b}) >= a /\ Max({a, b}) >= b
<1>1. \E x \in {a, b} : \A y \in {a, b} : x >= y
  OBVIOUS
<1> QED  BY <1>1 DEF Max

LEMMA LibMinOfTwo ==
    ASSUME NEW a \in Int, NEW b \in Int
    PROVE  Min({a, b}) \in {a, b} /\ Min({a, b}) <= a /\ Min({a, b}) <= b
<1>1. \E x \in {a, b} : \A y \in {a, b} : x <= y
  OBVIOUS
<1> QED  BY <1>1 DEF Min

(* Whole pages: more Hands are on no fewer.                                *)
LEMMA DivFacts ==
    ASSUME NEW n \in Int, NEW p \in Nat \ {0}
    PROVE  n \div p \in Int /\ p * (n \div p) <= n /\ n < p * (n \div p) + p
  OBVIOUS

(* More Hands are on no fewer pages.                                       *)
LEMMA PagesGrow ==
    ASSUME NEW m \in Int, NEW n \in Int, m <= n
    PROVE  Pages(m) \in Nat \ {0} /\ Pages(m) <= Pages(n)
<1>1. PageSize \in Nat \ {0}
  BY LibraryAssumption
<1> DEFINE a == (m + PageSize - 1) \div PageSize
           b == (n + PageSize - 1) \div PageSize
<1>2. /\ a \in Int /\ PageSize * a <= m + PageSize - 1
      /\ b \in Int /\ n + PageSize - 1 < PageSize * b + PageSize
  <2>1. m + PageSize - 1 \in Int /\ n + PageSize - 1 \in Int
    BY <1>1
  <2> QED  BY <1>1, <2>1, DivFacts
<1> HIDE DEF a, b
<1>3. a <= b
  <2>1. SUFFICES ASSUME a >= b + 1 PROVE FALSE
    BY <1>2
  <2>2. PageSize * a >= PageSize * (b + 1)
    BY <1>1, <1>2, <2>1
  <2>3. PageSize * (b + 1) = PageSize * b + PageSize
    BY <1>1, <1>2
  <2>4. PageSize * a \in Int /\ PageSize * b \in Int
    BY <1>1, <1>2
  <2> QED  BY <1>1, <1>2, <2>2, <2>3, <2>4
<1>4. Pages(m) = Max({1, a}) /\ Pages(n) = Max({1, b})
  BY DEF Pages, a, b
<1>5. 1 \in Int /\ a \in Int /\ b \in Int
  BY <1>2
<1>6. Max({1, a}) \in {1, a} /\ Max({1, a}) >= 1
  BY <1>5, LibMaxOfTwo, Zenon
<1>7. Max({1, b}) \in {1, b} /\ Max({1, b}) >= 1 /\ Max({1, b}) >= b
  BY <1>5, LibMaxOfTwo, Zenon
<1> QED  BY <1>2, <1>3, <1>4, <1>6, <1>7

-----------------------------------------------------------------------------
(* What the server keeps is of a finite Library.                           *)
LEMMA TotalIsNat ==
    ASSUME library \subseteq Hands, NEW f
    PROVE  IsFiniteSet(Keeps(f)) /\ Total(f) \in Nat
<1>1. Keeps(f) \subseteq Hands
  BY DEF Keeps
<1>2. IsFiniteSet(Keeps(f))
  BY <1>1, LibraryAssumption, FS_Subset
<1> QED  BY <1>2, FS_CardinalityType DEF Total

(* The same after a step.                                                  *)
LEMMA TotalIsNatAfter ==
    ASSUME library' \subseteq Hands, NEW f
    PROVE  IsFiniteSet(Keeps(f)') /\ Total(f)' \in Nat
<1>1. Keeps(f)' \subseteq Hands
  BY DEF Keeps
<1>2. IsFiniteSet(Keeps(f)')
  BY <1>1, LibraryAssumption, FS_Subset
<1> QED  BY <1>2, FS_CardinalityType DEF Total

(* A page there is has Hands, when any are kept.                           *)
LEMMA RowsAreThere ==
    ASSUME library \subseteq Hands, NEW f, NEW sort, NEW nth \in Nat \ {0},
           Total(f) # 0, nth <= Pages(Total(f))
    PROVE  Rows(f, sort, nth) # <<>>
<1> DEFINE all == InOrder(Keeps(f), sort)
           n == Total(f)
           shown == SubSeq(all, (nth - 1) * PageSize + 1, Min({nth * PageSize, Len(all)}))
<1>1. n \in Nat /\ n >= 1 /\ PageSize \in Nat \ {0}
  BY TotalIsNat, LibraryAssumption
<1>2. all \in Seq({all[i] : i \in 1..n}) /\ Len(all) = n
  <2>1. DOMAIN all = 1..n
    BY DEF InOrder, Total
  <2>2. all = [i \in 1..n |-> all[i]]
    BY <2>1 DEF InOrder, Total
  <2> HIDE DEF all, n
  <2>3. \A i \in 1..n : all[i] \in {all[j] : j \in 1..n}
    OBVIOUS
  <2> DEFINE S == {all[j] : j \in 1..n}
  <2> HIDE DEF S
  <2>4. all \in [1..n -> S]
    BY <2>2, <2>3 DEF S
  <2>5. all \in Seq(S)
    BY <1>1, <2>4
  <2> QED  BY <1>1, <2>1, <2>5 DEF S
<1>3. (nth - 1) * PageSize + 1 <= n
  <2> DEFINE q == (n + PageSize - 1) \div PageSize
  <2>1. q \in Int /\ PageSize * q <= n + PageSize - 1
    <3>1. n + PageSize - 1 \in Int
      BY <1>1
    <3> QED  BY <1>1, <3>1, DivFacts
  <2>2. Pages(n) = Max({1, q})
    BY DEF Pages
  <2> HIDE DEF q, n
  <2>3. nth <= 1 \/ nth <= q
    <3>1. Max({1, q}) \in {1, q}
      <4>1. 1 \in Int /\ q \in Int
        BY <2>1
      <4> QED  BY <4>1, LibMaxOfTwo, Zenon
    <3> QED  BY <2>2, <3>1 DEF n
  <2>4. CASE nth <= 1
    BY <1>1, <2>4
  <2>5. CASE nth <= q
    <3>1. PageSize * nth <= PageSize * q
      BY <1>1, <2>1, <2>5
    <3>2. (nth - 1) * PageSize = PageSize * nth - PageSize
      BY <1>1
    <3>3. PageSize * nth \in Int /\ PageSize * q \in Int
      BY <1>1, <2>1
    <3> QED  BY <1>1, <2>1, <3>1, <3>2, <3>3
  <2> QED  BY <2>3, <2>4, <2>5
<1>4. /\ (nth - 1) * PageSize + 1 \in Nat \ {0} /\ nth * PageSize \in Nat
      /\ (nth - 1) * PageSize + 1 <= nth * PageSize
  <2>1. nth * PageSize = (nth - 1) * PageSize + PageSize
    BY <1>1
  <2>2. (nth - 1) * PageSize \in Nat
    BY <1>1
  <2> QED  BY <1>1, <2>1, <2>2
<1> DEFINE last == Min({nth * PageSize, Len(all)})
<1>5. last \in Nat /\ last >= (nth - 1) * PageSize + 1 /\ last <= n
  <2>1. nth * PageSize \in Int /\ n \in Int
    BY <1>1, <1>4
  <2>2. last \in {nth * PageSize, n} /\ last <= n
    BY <1>2, <2>1, LibMinOfTwo, Zenon
  <2> QED  BY <1>1, <1>3, <1>4, <2>2
<1> DEFINE first == (nth - 1) * PageSize + 1
<1>6. 1 \in DOMAIN shown
  <2>1. PICK S : all \in Seq(S)
    BY <1>2
  <2>2. first \in Nat \ {0} /\ first <= last /\ last <= Len(all)
    BY <1>2, <1>4, <1>5
  <2> HIDE DEF n, all, first, last
  <2>3. DOMAIN SubSeq(all, first, last) = 1..(last - first + 1)
    BY <1>5, <2>1, <2>2
  <2> QED  BY <1>5, <2>2, <2>3 DEF first, last
<1>7. DOMAIN Rows(f, sort, nth) = DOMAIN shown
  BY DEF Rows
<1> HIDE DEF shown
<1> QED  BY <1>6, <1>7

(* Nothing of it changes as long as the server's part does not.            *)
PageOf(lib, mk, tg, lk, f, sort, nth, total) ==
    LET kept == {h \in lib :
                    /\ f.from # None => At[h] >= 2 * f.from
                    /\ f.to # None => At[h] < 2 * (f.to + 1)
                    /\ f.sites = {} \/ Site[h] \in f.sites
                    /\ f.marked => h \in mk
                    /\ f.tags = {} \/ \E t \in f.tags : <<t, h>> \in lk
                    /\ f.stat => h \in Taken}
        all == InOrder(kept, sort)
        shown == SubSeq(all, (nth - 1) * PageSize + 1, Min({nth * PageSize, Len(all)}))
    IN [total |-> total, page |-> nth,
        hands |-> [i \in DOMAIN shown |-> [id |-> shown[i], marked |-> shown[i] \in mk,
                                          tags |-> {t \in TagIds : <<t, shown[i]>> \in lk}]],
        tags |-> tg, sites |-> {Site[h] : h \in lib},
        all |-> Cardinality(lib), marked |-> Cardinality(mk \cap lib)]

(* A step that leaves the server alone leaves its answers.                 *)
LEMMA SameServer ==
    ASSUME UNCHANGED server
    PROVE  \A f : /\ Keeps(f)' = Keeps(f) /\ Total(f)' = Total(f)
                 /\ \A sort, nth, total : Page(f, sort, nth, total)' = Page(f, sort, nth, total)
<1>1. UNCHANGED library /\ UNCHANGED marks /\ UNCHANGED tags /\ UNCHANGED links
  BY DEF server
<1>2. SUFFICES ASSUME NEW f
               PROVE  /\ Keeps(f)' = Keeps(f) /\ Total(f)' = Total(f)
                      /\ \A sort, nth, total : Page(f, sort, nth, total)' = Page(f, sort, nth, total)
  OBVIOUS
<1>3. Keeps(f)' = Keeps(f)
  BY <1>1 DEF Keeps
<1>4. Total(f)' = Total(f)
  BY <1>3 DEF Total
<1>5. ASSUME NEW sort, NEW nth, NEW total
      PROVE  Page(f, sort, nth, total)' = Page(f, sort, nth, total)
  <2>1. Page(f, sort, nth, total) = PageOf(library, marks, tags, links, f, sort, nth, total)
    BY DEF Page, PageOf, Rows, Keeps
  <2>2. Page(f, sort, nth, total)' = PageOf(library', marks', tags', links', f, sort, nth, total)
    BY DEF Page, PageOf, Rows, Keeps
  <2> QED  BY <1>1, <2>1, <2>2
<1> QED  BY <1>3, <1>4, <1>5

-----------------------------------------------------------------------------
(* The browser's history stays one of entries, whatever moves it.          *)
LEMMA RedirectIsHistory ==
    ASSUME NEW h, HistoryOK(h), NEW e, EntryOK(e)
    PROVE  HistoryOK(Redirect(h, e)) /\ Redirect(h, e).now = e
<1> DEFINE r == Redirect(h, e)
<1>1. h = [past |-> h.past, now |-> h.now, ahead |-> h.ahead]
  BY DEF HistoryOK
<1>2. r = [past |-> h.past, now |-> e, ahead |-> h.ahead]
  BY <1>1 DEF Redirect
<1> HIDE DEF r
<1>3. r.past = h.past /\ r.now = e /\ r.ahead = h.ahead
  BY <1>2
<1>4. HistoryOK(r)
  BY <1>2, <1>3 DEF HistoryOK
<1> QED  BY <1>3, <1>4 DEF r

(* A new entry leaves a history of entries.                                *)
LEMMA NavigateIsHistory ==
    ASSUME NEW h, HistoryOK(h), NEW e, EntryOK(e)
    PROVE  HistoryOK(Navigate(h, e)) /\ Navigate(h, e).now = e
<1> DEFINE r == Navigate(h, e)
           S == {h.past[i] : i \in 1..Len(h.past)} \cup {h.now}
<1>1. /\ EntryOK(h.now) /\ Len(h.past) \in Nat /\ h.past = [i \in 1..Len(h.past) |-> h.past[i]]
      /\ \A i \in 1..Len(h.past) : EntryOK(h.past[i])
  BY DEF HistoryOK
<1>2. r = [past |-> Append(h.past, h.now), now |-> e, ahead |-> <<>>]
  BY DEF Navigate
<1>3. \A i \in 1..Len(h.past) : h.past[i] \in S
  OBVIOUS
<1>4. h.now \in S /\ \A s \in S : EntryOK(s)
  BY <1>1
<1> HIDE DEF r, S
<1>5. h.past \in [1..Len(h.past) -> S]
  BY <1>1, <1>3
<1>6. h.past \in Seq(S)
  BY <1>1, <1>5
<1>7. r.past \in Seq(S) /\ r.now = e /\ r.ahead = <<>>
  BY <1>2, <1>4, <1>6
<1>8. Len(r.past) \in Nat /\ r.past = [i \in 1..Len(r.past) |-> r.past[i]] /\ \A i \in 1..Len(r.past) : r.past[i] \in S
  BY <1>7
<1>9. HistoryOK(r)
  BY <1>2, <1>4, <1>7, <1>8 DEF HistoryOK
<1> QED  BY <1>7, <1>9 DEF r

(* So does going back.                                                     *)
LEMMA GoBackIsHistory ==
    ASSUME NEW h, HistoryOK(h), CanGoBack(h)
    PROVE  HistoryOK(GoBack(h))
<1> DEFINE r == GoBack(h)
           S == {h.past[i] : i \in 1..Len(h.past)}
<1>1. /\ EntryOK(h.now) /\ Len(h.past) \in Nat /\ h.past = [i \in 1..Len(h.past) |-> h.past[i]]
      /\ \A i \in 1..Len(h.past) : EntryOK(h.past[i])
  BY DEF HistoryOK
<1>2. r = [past |-> Front(h.past), now |-> Last(h.past), ahead |-> <<h.now>> \o h.ahead]
  BY DEF GoBack
<1>3. \A i \in 1..Len(h.past) : h.past[i] \in S
  OBVIOUS
<1>4. \A s \in S : EntryOK(s)
  BY <1>1
<1>5. h.past # <<>>
  BY DEF CanGoBack
<1> HIDE DEF r, S
<1>6. h.past \in [1..Len(h.past) -> S]
  BY <1>1, <1>3
<1>7. h.past \in Seq(S)
  BY <1>1, <1>6
<1>8. Front(h.past) \in Seq(S) /\ Last(h.past) \in S
  BY <1>5, <1>7 DEF Front, Last
<1>9. r.past \in Seq(S) /\ r.now \in S /\ r.ahead = <<h.now>> \o h.ahead
  BY <1>2, <1>8
<1>10. Len(r.past) \in Nat /\ r.past = [i \in 1..Len(r.past) |-> r.past[i]] /\ \A i \in 1..Len(r.past) : r.past[i] \in S
  BY <1>9
<1>11. r = [past |-> r.past, now |-> r.now, ahead |-> r.ahead]
  BY <1>2
<1>12. HistoryOK(r)
  BY <1>4, <1>9, <1>10, <1>11 DEF HistoryOK
<1> QED  BY <1>12 DEF r

(* What an address says, in the words of the filter it is read as.         *)
LEMMA LibraryAtIsEntry ==
    ASSUME NEW view, NEW s, SearchOK(s)
    PROVE  EntryOK(LibraryAt(view, s)) /\ LibraryAt(view, s).search = s /\ LibraryAt(view, s).view = view
<1> DEFINE e == LibraryAt(view, s)
<1>1. e = [view |-> view, search |-> s, hand |-> None, replay |-> None, from |-> None]
  BY DEF LibraryAt
<1> HIDE DEF e
<1>2. e.view = view /\ e.search = s /\ e.hand = None /\ e.replay = None /\ e.from = None
  BY <1>1
<1> QED  BY <1>1, <1>2 DEF EntryOK, e

(* The entry of a Hand being replayed.                                     *)
LEMMA HandIsEntry ==
    ASSUME NEW hand, NEW replay, NEW s, NEW from, SearchOK(s)
    PROVE  EntryOK(HandEntry(hand, replay, s, from)) /\ HandEntry(hand, replay, s, from).view = "hand"
<1> DEFINE e == HandEntry(hand, replay, s, from)
<1>1. e = [view |-> "hand", search |-> s, hand |-> hand, replay |-> replay, from |-> from]
  BY DEF HandEntry
<1> HIDE DEF e
<1>2. e.view = "hand" /\ e.search = s /\ e.hand = hand /\ e.replay = replay /\ e.from = from
  BY <1>1
<1> QED  BY <1>1, <1>2 DEF EntryOK, e

(* Every address is read as a filter.                                      *)
LEMMA FilterIsRead ==
    ASSUME NEW s, NEW day
    PROVE  FilterOK(ReadFilter(s, day))
<1> DEFINE f == ReadFilter(s, day)
<1>1. PICK days : f = [from |-> days.from, to |-> days.to, sites |-> s.sites, marked |-> s.marked,
                       tags |-> s.tags, stat |-> s.stat]
  BY DEF ReadFilter
<1> HIDE DEF f
<1>2. f = [from |-> f.from, to |-> f.to, sites |-> f.sites, marked |-> f.marked, tags |-> f.tags, stat |-> f.stat]
  BY <1>1
<1> QED  BY <1>2 DEF FilterOK, f

(* The page and the Zoom of an address are no part of its filter.          *)
LEMMA FilteredReads ==
    ASSUME NEW s, SearchOK(s), NEW day
    PROVE  ReadFilter(FilteredBy(s), day) = ReadFilter(s, day)
<1>1. PICK u : u = FilteredBy(s)
  OBVIOUS
<1>2. u = [from |-> s.from, to |-> s.to, all |-> s.all, sites |-> s.sites, marked |-> s.marked,
           tags |-> s.tags, stat |-> s.stat, sort |-> s.sort, page |-> 1, zoom |-> None]
  BY <1>1 DEF SearchOK, FilteredBy
<1>3. ReadFilter(u, day) = ReadFilter(s, day)
  BY <1>2 DEF ReadFilter, Days
<1> QED  BY <1>1, <1>3

(* Addresses that ask for the same Hands are read as the same filter.      *)
LEMMA SameFilter ==
    ASSUME NEW s, NEW t, SearchOK(s), SearchOK(t), FilteredBy(s) = FilteredBy(t), NEW day
    PROVE  ReadFilter(s, day) = ReadFilter(t, day)
  BY FilteredReads

(* Another page, Zoom or sort asks for the same Hands.                     *)
LEMMA SearchAtPage ==
    ASSUME NEW s, SearchOK(s), NEW n \in Nat \ {0}
    PROVE  /\ SearchOK([s EXCEPT !.page = n]) /\ [s EXCEPT !.page = n].page = n
           /\ \A day : ReadFilter([s EXCEPT !.page = n], day) = ReadFilter(s, day)
<1>1. PICK u : u = [s EXCEPT !.page = n]
  OBVIOUS
<1>2. u = [from |-> s.from, to |-> s.to, all |-> s.all, sites |-> s.sites, marked |-> s.marked,
           tags |-> s.tags, stat |-> s.stat, sort |-> s.sort, page |-> n, zoom |-> s.zoom]
  BY <1>1 DEF SearchOK
<1>3. SearchOK(u) /\ u.page = n
  BY <1>2 DEF SearchOK
<1>4. \A day : ReadFilter(u, day) = ReadFilter(s, day)
  BY <1>2 DEF ReadFilter, Days
<1> QED  BY <1>1, <1>3, <1>4

(* A Zoom makes an address.                                                *)
LEMMA SearchZoomed ==
    ASSUME NEW s, SearchOK(s), NEW zoom
    PROVE  SearchOK([s EXCEPT !.zoom = zoom])
<1>1. PICK v : v = [s EXCEPT !.zoom = zoom]
  OBVIOUS
<1>2. v = [from |-> s.from, to |-> s.to, all |-> s.all, sites |-> s.sites, marked |-> s.marked,
           tags |-> s.tags, stat |-> s.stat, sort |-> s.sort, page |-> s.page, zoom |-> zoom]
  BY <1>1 DEF SearchOK
<1>3. SearchOK(v)
  BY <1>2 DEF SearchOK
<1> QED  BY <1>1, <1>3

(* A sort makes an address.                                                *)
LEMMA SearchSorted ==
    ASSUME NEW s, SearchOK(s)
    PROVE  \A by : SearchOK([s EXCEPT !.sort = NextSort(@, by), !.page = 1])
<1>1. SUFFICES ASSUME NEW by PROVE SearchOK([s EXCEPT !.sort = NextSort(@, by), !.page = 1])
  OBVIOUS
<1>2. PICK w : w = [s EXCEPT !.sort = NextSort(@, by), !.page = 1]
  OBVIOUS
<1>3. w = [from |-> s.from, to |-> s.to, all |-> s.all, sites |-> s.sites, marked |-> s.marked,
           tags |-> s.tags, stat |-> s.stat, sort |-> NextSort(s.sort, by), page |-> 1, zoom |-> s.zoom]
  BY <1>2 DEF SearchOK
<1>4. SearchOK(w)
  BY <1>3 DEF SearchOK
<1> QED  BY <1>2, <1>4

(* A filter written in an address is read back the same that day.          *)
LEMMA SearchIsRead ==
    ASSUME NEW f, FilterOK(f), NEW day, None # day
    PROVE  /\ SearchOK(LibrarySearch(f, day)) /\ LibrarySearch(f, day).page = 1
           /\ ReadFilter(LibrarySearch(f, day), day) = f
<1>1. PICK s : s = LibrarySearch(f, day)
  OBVIOUS
<1>2. s = [from |-> IF Days(f) = QuickRange("today", day) THEN None ELSE f.from,
           to |-> IF Days(f) = QuickRange("today", day) THEN None ELSE f.to,
           all |-> f.from = None /\ f.to = None,
           sites |-> f.sites, marked |-> f.marked, tags |-> f.tags, stat |-> f.stat,
           sort |-> Newest, page |-> 1, zoom |-> None]
  BY <1>1 DEF LibrarySearch
<1>3. SearchOK(s) /\ s.page = 1
  BY <1>2 DEF SearchOK
<1>4. f = [from |-> f.from, to |-> f.to, sites |-> f.sites, marked |-> f.marked, tags |-> f.tags, stat |-> f.stat]
  BY DEF FilterOK
<1>5. QuickRange("today", day) = [from |-> day, to |-> day]
  BY DEF QuickRange
<1>6. /\ s.sites = f.sites /\ s.marked = f.marked /\ s.tags = f.tags /\ s.stat = f.stat
      /\ s.all = (f.from = None /\ f.to = None)
  BY <1>2
<1>7. CASE Days(f) = QuickRange("today", day)
  <2>1. f.from = day /\ f.to = day
    BY <1>5, <1>7 DEF Days
  <2>2. s.from = None /\ s.to = None /\ ~s.all
    BY <1>2, <1>6, <1>7, <2>1
  <2>3. ReadFilter(s, day) = [from |-> day, to |-> day, sites |-> f.sites, marked |-> f.marked,
                              tags |-> f.tags, stat |-> f.stat]
    BY <1>5, <1>6, <2>2 DEF ReadFilter
  <2> QED  BY <1>1, <1>3, <1>4, <2>1, <2>3
<1>8. CASE Days(f) # QuickRange("today", day)
  <2>1. s.from = f.from /\ s.to = f.to
    BY <1>2, <1>8
  <2>2. s.from # None \/ s.to # None \/ s.all
    BY <1>6, <2>1
  <2>3. ReadFilter(s, day) = [from |-> f.from, to |-> f.to, sites |-> f.sites, marked |-> f.marked,
                              tags |-> f.tags, stat |-> f.stat]
    BY <1>6, <2>1, <2>2 DEF ReadFilter, Days
  <2> QED  BY <1>1, <1>3, <1>4, <2>3
<1> QED  BY <1>7, <1>8

(* A filter of other days is one.                                          *)
LEMMA PeriodsAreFilters ==
    ASSUME NEW f, FilterOK(f), NEW days
    PROVE  FilterOK(WithPeriod(f, days))
<1>1. PICK g : g = WithPeriod(f, days)
  OBVIOUS
<1>2. g = [from |-> days.from, to |-> days.to, sites |-> f.sites, marked |-> f.marked, tags |-> f.tags, stat |-> f.stat]
  BY <1>1 DEF WithPeriod, FilterOK
<1>3. FilterOK(g)
  BY <1>2 DEF FilterOK
<1> QED  BY <1>1, <1>3

(* What a control asks for: a filter on the first page, in the same order. *)
LEMMA ChangesAreEntries ==
    ASSUME NEW e, NEW f
    PROVE  EntryOK(ChangeFilterFrom(e, f)) /\ ChangeFilterFrom(e, f).search.page = 1
           /\ ChangeFilterFrom(e, f).view = e.view
<1>1. PICK s : s = LibrarySearch(f, today)
  OBVIOUS
<1>2. SearchOK(s) /\ s.page = 1
  BY <1>1 DEF LibrarySearch, SearchOK
<1>3. PICK t : t = WithSort(s, e.search.sort)
  OBVIOUS
<1>4. t = [from |-> s.from, to |-> s.to, all |-> s.all, sites |-> s.sites, marked |-> s.marked,
           tags |-> s.tags, stat |-> s.stat, sort |-> e.search.sort, page |-> s.page, zoom |-> s.zoom]
  BY <1>2, <1>3 DEF WithSort, SearchOK
<1>5. SearchOK(t) /\ t.page = 1
  BY <1>2, <1>4 DEF SearchOK
<1>6. ChangeFilterFrom(e, f) = LibraryAt(e.view, t)
  BY <1>1, <1>3 DEF ChangeFilterFrom
<1> QED  BY <1>5, <1>6, LibraryAtIsEntry

-----------------------------------------------------------------------------
(* Reads begun again, and those kept.                                      *)
LEMMA AskIsFresh ==
    ASSUME NEW k \in Kinds \cup {"ids"}, NEW s, NEW f
    PROVE  /\ AskOK(Ask(k, s, f)) /\ Ask(k, s, f).kind = k /\ Ask(k, s, f).filter = f
           /\ Ask(k, s, f).sort = s.sort /\ Ask(k, s, f).page = s.page
           /\ Ask(k, s, f).total = None /\ Ask(k, s, f).answer = None
<1>1. PICK a : a = Ask(k, s, f)
  OBVIOUS
<1>2. a = [kind |-> k, filter |-> f, sort |-> s.sort, page |-> s.page, zoom |-> s.zoom, total |-> None, answer |-> None]
  BY <1>1 DEF Ask
<1>3. /\ a.kind = k /\ a.filter = f /\ a.sort = s.sort /\ a.page = s.page /\ a.zoom = s.zoom
      /\ a.total = None /\ a.answer = None
  BY <1>2
<1>4. AskOK(a)
  BY <1>2, <1>3 DEF AskOK
<1> QED  BY <1>1, <1>3, <1>4

(* What is in flight once reads begin again.                               *)
LEMMA RerunFacts ==
    ASSUME NEW kinds \in SUBSET Kinds, NEW view, NEW s, NEW f
    PROVE  /\ \A a \in Rerun(kinds, view, s, f) :
                  \/ a \in asks /\ a.kind \notin kinds
                  \/ \E k \in kinds \cap Shown(view) : a = Ask(k, s, f)
           /\ \A a \in asks : a.kind \notin kinds => a \in Rerun(kinds, view, s, f)
           /\ \A k \in kinds \cap Shown(view) : Ask(k, s, f) \in Rerun(kinds, view, s, f)
  BY DEF Rerun

(* The list is always read; the Results and the Stats when shown.          *)
LEMMA ShownKinds ==
    ASSUME NEW view
    PROVE  /\ "list" \in Shown(view) /\ Shown(view) \subseteq Kinds
           /\ view = "graph" => "results" \in Shown(view)
           /\ view = "stats" => "stats" \in Shown(view)
  BY DEF Shown, Kinds

(* A list asked for to be played is no change of the Library.              *)
LEMMA SameRemovals ==
    ASSUME UNCHANGED <<server, today>>, calls' \subseteq calls, \A c \in calls : c.kind # "play" => c \in calls'
    PROVE  /\ Removals' = Removals /\ (Removed' <=> Removed) /\ (Pending' <=> Pending) /\ (Removing' <=> Removing)
           /\ \A c : RemovalOK(c)' <=> RemovalOK(c)
<1>1. Removals' = Removals
  BY DEF Removals
<1>2. (Removed' <=> Removed) /\ (Pending' <=> Pending) /\ (Removing' <=> Removing)
  BY <1>1 DEF Removed, Pending, Removing
<1>3. UNCHANGED server /\ UNCHANGED today
  OBVIOUS
<1>4. ASSUME NEW c PROVE RemovalOK(c)' <=> RemovalOK(c)
  <2>1. Total(c.filter)' = Total(c.filter)
    BY <1>3, SameServer
  <2> QED  BY <1>3, <2>1 DEF RemovalOK
<1> QED  BY <1>1, <1>2, <1>4

(* Whatever reads all of it again shows, or will show, what is asked.      *)
LEMMA RereadIsRight ==
    ASSUME LibTyped, OnLibrary => OnScreen, NEW h, HistoryOK(h), h.now.view # "hand", history' = h,
           UNCHANGED <<server, today>>, turned' \in BOOLEAN,
           asks' = Rerun(Kinds, h.now.view, h.now.search, filter'),
           \/ filter' = ReadFilter(h.now.search, today)
           \/ OnLibrary /\ UNCHANGED <<filter, turned>> /\ Here.search = h.now.search,
           \/ results' = None
           \/ OnLibrary /\ UNCHANGED results /\ FilteredBy(Here.search) = FilteredBy(h.now.search),
           \/ summary' = None
           \/ OnLibrary /\ UNCHANGED summary /\ FilteredBy(Here.search) = FilteredBy(h.now.search)
    PROVE  AsksRight' /\ AddressRight' /\ ListRight' /\ ResultsRight' /\ StatsRight' /\ TotalsRight'
<1> DEFINE e == h.now
<1>1. Here' = e
  BY DEF Here
<1>2. AddressRight'
  BY <1>1 DEF AddressRight, OnScreen, LibTyped
<1>3. ASSUME OnLibrary, FilteredBy(Here.search) = FilteredBy(e.search), today = FirstDay
      PROVE  filter' = filter
  <2>1. ~turned /\ SearchOK(Here.search) /\ SearchOK(e.search)
    BY <1>3 DEF LibTyped, HistoryOK, EntryOK, Here
  <2>2. filter = ReadFilter(Here.search, today)
    BY <1>3, <2>1 DEF OnScreen, AddressRight
  <2>3. ReadFilter(Here.search, today) = ReadFilter(e.search, today)
    BY <1>3, <2>1, SameFilter
  <2> QED  BY <2>2, <2>3
<1>4. ASSUME NEW a \in asks', a.kind \in Kinds
      PROVE  /\ a.filter = filter' /\ a.sort = e.search.sort /\ a.page = e.search.page
             /\ a.total = None /\ a.answer = None
  <2>1. PICK k \in Kinds \cap Shown(e.view) : a = Ask(k, e.search, filter')
    BY <1>4, RerunFacts
  <2> QED  BY <2>1, AskIsFresh
<1>5. AsksRight'
  <2>1. SUFFICES ASSUME NEW a \in asks', a.kind \in Kinds PROVE AskRight(a)'
    BY DEF AsksRight
  <2> QED  BY <1>1, <1>4, <2>1 DEF AskRight
<1>6. \A k \in Shown(e.view) : Asked(k)'
  <2>1. SUFFICES ASSUME NEW k \in Shown(e.view) PROVE \E a \in asks' : a.kind = k
    BY DEF Asked
  <2>2. k \in Kinds /\ Ask(k, e.search, filter') \in asks'
    BY <2>1, ShownKinds, RerunFacts
  <2> QED  BY <2>2, AskIsFresh
<1>7. ListRight'
  BY <1>6, ShownKinds DEF ListRight
<1>8. ResultsRight'
  BY <1>1, <1>3, <1>6, ShownKinds DEF ResultsRight, OnScreen
<1>9. StatsRight'
  BY <1>1, <1>3, <1>6, ShownKinds DEF StatsRight, OnScreen
<1>10. TotalsRight'
  <2>1. Reading'
    BY <1>6, ShownKinds DEF Asked, Reading
  <2>2. \A a \in asks' : a.kind = "list" => a.total = None
    BY <1>4 DEF Kinds
  <2> QED  BY <2>1, <2>2 DEF TotalsRight
<1> QED  BY <1>2, <1>5, <1>7, <1>8, <1>9, <1>10

(* Where a move of the history leads, and what it leaves.                  *)
LEMMA ArriveFacts ==
    ASSUME NEW h, Arrive(h), h.now.view # "hand"
    PROVE  /\ history' = h
           /\ \/ /\ OnLibrary /\ Here.search = h.now.search /\ UNCHANGED <<filter, load, results, summary, turned>>
                 /\ strayed' = (strayed \/ Beyond(h.now.search.page))
                 /\ \E kinds \in {{}, {"results", "stats"}} :
                        /\ kinds = {} => Here.view = h.now.view
                        /\ asks' = Rerun(kinds, h.now.view, h.now.search, filter)
                        /\ outdated' = outdated \ (kinds \cap Shown(h.now.view))
              \/ /\ filter' = ReadFilter(h.now.search, today) /\ turned' = FALSE
                 /\ asks' = Rerun(Kinds, h.now.view, h.now.search, filter')
                 /\ outdated' \subseteq outdated
                 /\ load' = load \/ load' = None
                 /\ ~OnLibrary => load' = None
                 /\ \/ /\ OnLibrary /\ FilteredBy(Here.search) = FilteredBy(h.now.search)
                       /\ UNCHANGED <<results, summary>>
                       /\ strayed' = (strayed \/ Beyond(h.now.search.page))
                    \/ /\ results' = None /\ summary' = None
                       /\ strayed' = (h.now.search.page > 1 \/ (strayed /\ Removing))
<1> DEFINE e == h.now
           stays == OnLibrary /\ e.view # "hand"
           sameSearch == stays /\ Here.search = e.search
           f == IF sameSearch THEN filter ELSE ReadFilter(e.search, today)
           rerun == IF ~sameSearch THEN Kinds ELSE IF Here.view = e.view THEN {} ELSE {"results", "stats"}
           sameHands == stays /\ FilteredBy(Here.search) = FilteredBy(e.search)
<1>1. /\ history' = h /\ filter' = f /\ load' = (IF stays THEN load ELSE None)
      /\ results' = (IF sameHands THEN results ELSE None) /\ summary' = (IF sameHands THEN summary ELSE None)
      /\ asks' = Rerun(rerun, e.view, e.search, f)
      /\ outdated' = outdated \ (rerun \cap Shown(e.view))
      /\ turned' = (IF sameSearch THEN turned ELSE FALSE)
      /\ strayed' = (IF sameHands THEN strayed \/ Beyond(e.search.page) ELSE e.search.page > 1 \/ (strayed /\ Removing))
  BY DEF Arrive
<1>2. CASE sameSearch
  <2>1. sameHands /\ f = filter /\ OnLibrary
    BY <1>2
  <2>2. rerun \in {{}, {"results", "stats"}} /\ (rerun = {} => Here.view = e.view)
    BY <1>2
  <2> HIDE DEF f, rerun
  <2> QED  BY <1>1, <1>2, <2>1, <2>2
<1>3. CASE ~sameSearch
  <2>1. f = ReadFilter(e.search, today) /\ rerun = Kinds
    BY <1>3
  <2> HIDE DEF f, rerun, sameSearch
  <2> QED  BY <1>1, <1>3, <2>1
<1> QED  BY <1>2, <1>3

(* A page asked for is there, if the one before it was.                    *)
LEMMA ArriveAtAPage ==
    ASSUME LibTyped, OnLibrary, OnScreen, ~strayed, ~Removed,
           NEW nth \in Nat \ {0}, ~Beyond(nth)
    PROVE  nth <= Pages(Total(filter))
<1>1. Total(filter) \in Nat
  BY TotalIsNat DEF LibTyped
<1>2. CASE nth = Here.search.page
  BY <1>2 DEF OnScreen, PageRight
<1>3. CASE nth <= 1
  <2>1. 0 \in Int /\ Total(filter) \in Int /\ 0 <= Total(filter)
    BY <1>1
  <2>2. Pages(0) \in Nat \ {0} /\ Pages(0) <= Pages(Total(filter)) /\ Pages(Total(filter)) \in Nat \ {0}
    BY <2>1, PagesGrow
  <2> QED  BY <1>3, <2>2
<1>4. CASE nth > 1 /\ nth # Here.search.page
  <2>1. Loaded /\ ~Reading /\ nth <= Pages(load.total)
    <3>1. ~Reading /\ Loaded /\ ~(nth > Pages(load.total))
      BY <1>4 DEF Beyond
    <3>2. load.total \in Int
      BY <3>1 DEF LibTyped
    <3>3. Pages(load.total) \in Nat
      BY <3>2, PagesGrow
    <3> QED  BY <3>1, <3>3
  <2>2. load.total \in Nat /\ load.total <= Total(filter)
    BY <2>1 DEF LibTyped, OnScreen, TotalsRight
  <2>3. Pages(load.total) \in Nat \ {0} /\ Pages(load.total) <= Pages(Total(filter))
    BY <1>1, <2>2, PagesGrow
  <2>4. Pages(Total(filter)) \in Nat \ {0}
    BY <1>1, PagesGrow
  <2> QED  BY <2>1, <2>3, <2>4
<1> QED  BY <1>2, <1>3, <1>4

(* Wherever the history leads in the Library, what is shown is right.      *)
LEMMA ArriveOnScreen ==
    ASSUME LibSound, NEW h, HistoryOK(h), Arrive(h), h.now.view # "hand", UNCHANGED <<server, today>>,
           calls' \subseteq calls, \A c \in calls : c.kind # "play" => c \in calls'
    PROVE  OnScreen'
<1> DEFINE e == h.now
<1>1. LibTyped /\ (OnLibrary => OnScreen) /\ history' = h /\ Here' = e /\ EntryOK(e) /\ e.search.page \in Nat \ {0}
  BY ArriveFacts DEF LibSound, Here, HistoryOK, EntryOK, SearchOK
<1>2. /\ (Removed' <=> Removed) /\ (Pending' <=> Pending)
  BY SameRemovals
<1>3. \A f : /\ Keeps(f)' = Keeps(f) /\ Total(f)' = Total(f)
             /\ \A sort, nth, total : Page(f, sort, nth, total)' = Page(f, sort, nth, total)
  BY SameServer
<1>4. SearchOK(e.search) /\ turned \in BOOLEAN /\ strayed \in BOOLEAN /\ (turned => strayed)
  BY <1>1 DEF EntryOK, LibTyped
<1>5. ASSUME OnLibrary, Here.search = e.search, UNCHANGED <<filter, load, results, summary, turned>>,
             strayed' = (strayed \/ Beyond(e.search.page)),
             NEW kinds \in {{}, {"results", "stats"}}, kinds = {} => Here.view = e.view,
             asks' = Rerun(kinds, e.view, e.search, filter),
             outdated' = outdated \ (kinds \cap Shown(e.view))
      PROVE  OnScreen'
  <2>1. OnScreen
    BY <1>1, <1>5
  <2>2. kinds \in SUBSET Kinds /\ "list" \notin kinds
    BY DEF Kinds
  <2>3. \A k : k \notin kinds \cap Shown(e.view) => (Excused(k)' <=> Excused(k))
    BY <1>2, <1>5 DEF Excused
  <2>4. ASSUME NEW a \in asks', a.kind \in Kinds
        PROVE  AskRight(a)' /\ (a.kind = "list" => a \in asks)
    <3>1. CASE a \in asks /\ a.kind \notin kinds
      <4>1. AskRight(a)
        BY <2>1, <2>4, <3>1 DEF OnScreen, AsksRight
      <4>2. Excused(a.kind)' <=> Excused(a.kind)
        BY <2>3, <3>1
      <4> QED  BY <1>1, <1>3, <1>5, <3>1, <4>1, <4>2 DEF AskRight
    <3>2. ASSUME NEW k \in kinds \cap Shown(e.view), a = Ask(k, e.search, filter) PROVE AskRight(a)' /\ a.kind # "list"
      <4>1. /\ a.kind = k /\ a.filter = filter /\ a.sort = e.search.sort /\ a.page = e.search.page
            /\ a.total = None /\ a.answer = None
        BY <2>2, <3>2, AskIsFresh
      <4> QED  BY <1>1, <1>5, <2>2, <4>1 DEF AskRight
    <3> QED  BY <1>5, <2>2, <2>4, <3>1, <3>2, RerunFacts
  <2>5. AsksRight'
    BY <2>4 DEF AsksRight
  <2>6. AddressRight'
    BY <1>1, <1>5, <2>1 DEF OnScreen, AddressRight
  <2>7. /\ \A k : k \notin kinds => (Asked(k) => Asked(k)')
        /\ \A k \in kinds \cap Shown(e.view) : Asked(k)'
        /\ Reading' <=> Reading
    <3>1. ASSUME NEW k, k \notin kinds, Asked(k) PROVE Asked(k)'
      BY <1>5, <2>2, <3>1, RerunFacts DEF Asked
    <3>2. ASSUME NEW k \in kinds \cap Shown(e.view) PROVE Asked(k)'
      <4>1. Ask(k, e.search, filter) \in asks' /\ k \in Kinds
        BY <1>5, <2>2, <3>2, RerunFacts
      <4> QED  BY <4>1, AskIsFresh DEF Asked
    <3>3. Reading => Reading'
      BY <2>2, <3>1 DEF Reading, Asked
    <3>4. Reading' => Reading
      BY <2>4 DEF Reading, Kinds
    <3> QED  BY <3>1, <3>2, <3>3, <3>4
  <2>8. ListRight'
    <3>1. Excused("list")' <=> Excused("list")
      BY <2>2, <2>3
    <3> QED  BY <1>1, <1>3, <1>5, <2>1, <2>2, <2>7, <3>1 DEF OnScreen, ListRight
  <2>9. CASE kinds = {}
    <3>1. \A k : Excused(k)' <=> Excused(k)
      BY <2>3, <2>9
    <3>2. ResultsRight' /\ StatsRight'
      BY <1>1, <1>3, <1>5, <2>1, <2>7, <2>9, <3>1 DEF OnScreen, ResultsRight, StatsRight
    <3> QED  BY <3>2, <2>5, <2>6, <2>8, <1>1, <1>2, <1>3, <1>4, <1>5, <2>1, <2>4, <2>7
             DEF OnScreen, PageRight, TotalsRight, Loaded, OnLibrary, Kinds
  <2>10. CASE kinds = {"results", "stats"}
    <3>1. /\ e.view = "graph" => Asked("results")'
          /\ e.view = "stats" => Asked("stats")'
      BY <2>7, <2>10, ShownKinds
    <3>2. ResultsRight' /\ StatsRight'
      BY <1>1, <1>5, <2>1, <3>1 DEF OnScreen, ResultsRight, StatsRight
    <3> QED  BY <3>2, <2>5, <2>6, <2>8, <1>1, <1>2, <1>3, <1>4, <1>5, <2>1, <2>4, <2>7
             DEF OnScreen, PageRight, TotalsRight, Loaded, OnLibrary, Kinds
  <2> QED  BY <2>9, <2>10
<1>6. ASSUME filter' = ReadFilter(e.search, today), turned' = FALSE,
             asks' = Rerun(Kinds, e.view, e.search, filter'),
             \/ /\ OnLibrary /\ FilteredBy(Here.search) = FilteredBy(e.search)
                /\ UNCHANGED <<results, summary>>
                /\ strayed' = (strayed \/ Beyond(e.search.page))
             \/ /\ results' = None /\ summary' = None
                /\ strayed' = (e.search.page > 1 \/ (strayed /\ Removing))
      PROVE  OnScreen'
  <2>1. AsksRight' /\ AddressRight' /\ ListRight' /\ ResultsRight' /\ StatsRight' /\ TotalsRight'
    BY <1>1, <1>6, RereadIsRight
  <2>2. PageRight'
    <3>1. SUFFICES ASSUME ~strayed', ~Removed PROVE e.search.page <= Pages(Total(filter))'
      BY <1>1, <1>2 DEF PageRight
    <3>2. Total(filter)' \in Nat /\ Total(filter)' = Total(filter')
      <4>1. library' \subseteq Hands
        BY <1>1 DEF LibTyped, server
      <4> QED  BY <4>1, <1>3, TotalIsNatAfter
    <3>3. CASE OnLibrary /\ FilteredBy(Here.search) = FilteredBy(e.search) /\ strayed' = (strayed \/ Beyond(e.search.page))
      <4>1. ~strayed /\ ~Beyond(e.search.page) /\ ~turned
        BY <1>4, <3>1, <3>3
      <4>2. filter = ReadFilter(Here.search, today)
        BY <1>1, <3>3, <4>1 DEF OnScreen, AddressRight
      <4>3. filter' = filter
        BY <1>1, <1>4, <1>6, <3>3, <4>2, SameFilter DEF LibTyped, HistoryOK, EntryOK, Here
      <4>4. e.search.page <= Pages(Total(filter))
        BY <1>1, <3>1, <3>3, <4>1, ArriveAtAPage
      <4> QED  BY <3>2, <4>3, <4>4 DEF Pages
    <3>4. CASE strayed' = (e.search.page > 1 \/ (strayed /\ Removing))
      <4> HIDE DEF e
      <4>0. ~(e.search.page > 1)
        BY <3>1, <3>4, Zenon
      <4>1. e.search.page = 1
        BY <1>1, <4>0
      <4>2. Total(filter') \in Int
        BY <3>2
      <4>3. Pages(Total(filter')) \in Nat \ {0}
        BY <4>2, PagesGrow
      <4> QED  BY <3>2, <4>1, <4>3 DEF Pages
    <3> QED  BY <1>6, <3>3, <3>4
  <2> QED  BY <2>1, <2>2 DEF OnScreen
<1>7. \/ /\ OnLibrary /\ Here.search = e.search /\ UNCHANGED <<filter, load, results, summary, turned>>
         /\ strayed' = (strayed \/ Beyond(e.search.page))
         /\ \E kinds \in {{}, {"results", "stats"}} :
                /\ kinds = {} => Here.view = e.view
                /\ asks' = Rerun(kinds, e.view, e.search, filter)
                /\ outdated' = outdated \ (kinds \cap Shown(e.view))
      \/ /\ filter' = ReadFilter(e.search, today) /\ turned' = FALSE
         /\ asks' = Rerun(Kinds, e.view, e.search, filter')
         /\ \/ /\ OnLibrary /\ FilteredBy(Here.search) = FilteredBy(e.search)
               /\ UNCHANGED <<results, summary>>
               /\ strayed' = (strayed \/ Beyond(e.search.page))
            \/ /\ results' = None /\ summary' = None
               /\ strayed' = (e.search.page > 1 \/ (strayed /\ Removing))
  BY ArriveFacts
<1> HIDE DEF e
<1> QED  BY <1>5, <1>6, <1>7

(* The shapes of things survive a move of the history.                     *)
LEMMA ArriveTyped ==
    ASSUME LibSound, NEW h, HistoryOK(h), Arrive(h), UNCHANGED <<server, today>>, calls' \subseteq calls
    PROVE  LibTyped' /\ (~strayed' => ~strayed \/ ~Removing)
<1> DEFINE e == h.now
           stays == OnLibrary /\ e.view # "hand"
           sameSearch == stays /\ Here.search = e.search
           f == IF sameSearch THEN filter ELSE ReadFilter(e.search, today)
           rerun == IF ~sameSearch THEN Kinds ELSE IF Here.view = e.view THEN {} ELSE {"results", "stats"}
           sameHands == stays /\ FilteredBy(Here.search) = FilteredBy(e.search)
<1>1. /\ history' = h /\ filter' = (IF e.view = "hand" THEN None ELSE f) /\ load' = (IF stays THEN load ELSE None)
      /\ asks' = (IF e.view = "hand"
                  THEN IF e.replay = Filtered /\ (lastFiltered = None \/ lastFiltered.search # e.search)
                       THEN {a \in asks : a.kind = "ids"} \cup {Ask("ids", e.search, ReadFilter(e.search, today))}
                       ELSE {a \in asks : a.kind = "ids"}
                  ELSE Rerun(rerun, e.view, e.search, f))
      /\ outdated' = outdated \ (rerun \cap Shown(e.view))
      /\ turned' = (IF sameSearch THEN turned ELSE FALSE)
      /\ strayed' = (IF sameHands THEN strayed \/ Beyond(e.search.page) ELSE e.search.page > 1 \/ (strayed /\ Removing))
  BY DEF Arrive
<1>2. LibTyped
  BY DEF LibSound
<1>3. library' \subseteq Hands /\ today' \in {FirstDay, FirstDay + 1} /\ \A c \in calls' : CallOK(c)
  BY <1>2 DEF LibTyped, server
<1>4. \A a \in asks' : AskOK(a)
  <2>1. "ids" \in Kinds \cup {"ids"}
    OBVIOUS
  <2>2. CASE e.view = "hand"
    BY <1>1, <1>2, <2>1, <2>2, AskIsFresh DEF LibTyped
  <2>3. CASE e.view # "hand"
    <3>1. rerun \in SUBSET Kinds
      BY DEF Kinds
    <3> HIDE DEF rerun, f
    <3>2. asks' = Rerun(rerun, e.view, e.search, f)
      BY <1>1, <2>3
    <3>3. SUFFICES ASSUME NEW a \in asks' PROVE AskOK(a)
      OBVIOUS
    <3>4. a \in asks \/ \E k \in Kinds \cup {"ids"} : a = Ask(k, e.search, f)
      BY <3>1, <3>2, RerunFacts
    <3> QED  BY <1>2, <3>4, AskIsFresh DEF LibTyped
  <2> QED  BY <2>2, <2>3
<1>5. OnLibrary' => FilterOK(filter')
  <2>1. SUFFICES ASSUME e.view # "hand" PROVE FilterOK(filter')
    BY <1>1 DEF OnLibrary
  <2>2. CASE sameSearch
    <3>1. OnLibrary /\ filter' = filter
      BY <1>1, <2>1, <2>2
    <3> QED  BY <1>2, <3>1 DEF LibTyped
  <2>3. CASE ~sameSearch
    <3>1. filter' = ReadFilter(e.search, today)
      BY <1>1, <2>1, <2>3
    <3> QED  BY <3>1, FilterIsRead
  <2> QED  BY <2>2, <2>3
<1>6. OnLibrary' => (Loaded' => load'.total \in Nat)
  <2>1. SUFFICES ASSUME Loaded' PROVE load'.total \in Nat
    OBVIOUS
  <2>2. load' # None /\ load' # Failed
    BY <2>1 DEF Loaded
  <2>3. stays /\ load' = load
    BY <1>1, <2>2
  <2> QED  BY <1>2, <2>2, <2>3 DEF LibTyped, Loaded
<1> HIDE DEF stays, sameSearch, f, rerun, sameHands
<1>7. outdated' \subseteq Kinds
  BY <1>1, <1>2 DEF LibTyped
<1>8. turned \in BOOLEAN /\ strayed \in BOOLEAN /\ (turned => strayed) /\ (turned => today # FirstDay)
  BY <1>2 DEF LibTyped
<1>9. strayed' \in BOOLEAN /\ turned' \in BOOLEAN
  <2>1. (strayed \/ Beyond(e.search.page)) \in BOOLEAN /\ (e.search.page > 1 \/ (strayed /\ Removing)) \in BOOLEAN
    OBVIOUS
  <2> QED  BY <1>1, <1>8, <2>1
<1>10. turned' => strayed' /\ today' # FirstDay
  <2>1. SUFFICES ASSUME turned' PROVE strayed' /\ today # FirstDay
    OBVIOUS
  <2>2. sameSearch /\ turned
    BY <1>1, <2>1, Zenon
  <2>3. sameHands
    BY <2>2 DEF sameSearch, sameHands
  <2> QED  BY <1>1, <1>8, <2>2, <2>3, Zenon
<1>11. ~strayed' => ~strayed \/ ~Removing
  BY <1>1, Zenon
<1> QED  BY <1>1, <1>3, <1>4, <1>5, <1>6, <1>7, <1>9, <1>10, <1>11 DEF LibTyped

(* A move of the history keeps the invariant.                              *)
LEMMA ArriveKeeps ==
    ASSUME LibSound, NEW h, HistoryOK(h), Arrive(h), UNCHANGED <<server, today>>,
           calls' \subseteq calls, \A c \in calls : c.kind # "play" => c \in calls'
    PROVE  LibSound'
<1>1. LibTyped' /\ (~strayed' => ~strayed \/ ~Removing)
  BY ArriveTyped
<1>2. history' = h
  BY DEF Arrive
<1>3. OnLibrary' => OnScreen'
  BY <1>2, ArriveOnScreen DEF OnLibrary
<1>4. RemovalsRight'
  <2>1. Removals' = Removals /\ \A c : RemovalOK(c)' <=> RemovalOK(c)
    BY SameRemovals
  <2>2. ~Removing => Removals = {}
    BY DEF Removing, Removals
  <2> QED  BY <1>1, <2>1, <2>2 DEF LibSound, RemovalsRight
<1> QED  BY <1>1, <1>3, <1>4 DEF LibSound

(* A change made here, answered, reads again where the person is.          *)
LEMMA BumpKeeps ==
    ASSUME LibSound, NEW c \in calls, calls' = calls \ {c}, Bump(history),
           UNCHANGED <<server, today, history, filter, load, results, summary, turned>>,
           strayed' \in BOOLEAN, strayed => strayed', c.kind = "remove" /\ c.done = "done" => strayed'
    PROVE  LibSound'
<1>1. LibTyped /\ (OnLibrary => OnScreen) /\ HistoryOK(history) /\ (OnLibrary' <=> OnLibrary) /\ Here' = Here
  BY DEF LibSound, LibTyped, OnLibrary, Here
<1>2. UNCHANGED server /\ UNCHANGED today
  OBVIOUS
<1>3. \A f : Keeps(f)' = Keeps(f) /\ Total(f)' = Total(f)
  BY <1>2, SameServer
<1>4. /\ asks' = (IF history.now.view = "hand" THEN asks
                  ELSE Rerun(Kinds, history.now.view, history.now.search, filter))
      /\ outdated' = outdated \ Shown(history.now.view)
  BY DEF Bump
<1>5. ASSUME OnLibrary PROVE OnScreen'
  <2>1. asks' = Rerun(Kinds, history.now.view, history.now.search, filter') /\ history.now.view # "hand"
    BY <1>4, <1>5 DEF OnLibrary
  <2>2. history' = history /\ turned' \in BOOLEAN /\ UNCHANGED filter /\ UNCHANGED turned /\ UNCHANGED results
        /\ UNCHANGED summary /\ Here.search = history.now.search
    BY <1>1 DEF LibTyped, Here
  <2>3. AsksRight' /\ AddressRight' /\ ListRight' /\ ResultsRight' /\ StatsRight' /\ TotalsRight'
    BY <1>1, <1>2, <1>5, <2>1, <2>2, RereadIsRight
  <2>4. PageRight'
    <3>1. SUFFICES ASSUME ~strayed' PROVE Removed' \/ Here.search.page <= Pages(Total(filter)')
      BY <1>1 DEF PageRight, Pages
    <3>2. Removed \/ Here.search.page <= Pages(Total(filter))
      BY <1>1, <1>5, <3>1 DEF OnScreen, PageRight
    <3>3. Removed => Removed'
      BY <3>1 DEF Removed, Removals
    <3>4. Total(filter)' = Total(filter)
      BY <1>3
    <3> QED  BY <3>2, <3>3, <3>4
  <2> QED  BY <2>3, <2>4 DEF OnScreen
<1>6. RemovalsRight'
  <2>1. Removals' \subseteq Removals
    BY DEF Removals
  <2>2. ASSUME NEW d, RemovalOK(d) PROVE RemovalOK(d)'
    <3>1. Total(d.filter)' = Total(d.filter)
      BY <1>3
    <3> QED  BY <1>2, <2>2, <3>1 DEF RemovalOK
  <2>3. strayed' \/ (RemovalsRight /\ ~strayed)
    BY DEF LibSound
  <2> QED  BY <2>1, <2>2, <2>3 DEF RemovalsRight
<1>7. LibTyped'
  <2>1. \A a \in asks' : AskOK(a)
    <3>1. SUFFICES ASSUME NEW a \in asks' PROVE AskOK(a)
      OBVIOUS
    <3>2. a \in asks \/ \E k \in Kinds \cup {"ids"} : a = Ask(k, history.now.search, filter)
      BY <1>4, RerunFacts
    <3> QED  BY <1>1, <3>2, AskIsFresh DEF LibTyped
  <2>2. Loaded' <=> Loaded
    BY <1>1 DEF Loaded
  <2>3. /\ library' = library /\ today' = today /\ history' = history /\ filter' = filter /\ load' = load
        /\ turned' = turned /\ outdated' \subseteq outdated /\ calls' \subseteq calls
    BY <1>4 DEF server
  <2> QED  BY <1>1, <2>1, <2>2, <2>3 DEF LibTyped
<1> QED  BY <1>1, <1>5, <1>6, <1>7 DEF LibSound

(* After a removal: on the last page it leaves, of the filter it was of.   *)
LEMMA SteppedBackFacts ==
    ASSUME NEW c, CallOK(c), c.kind = "remove", c.done = "done"
    PROVE  /\ Cardinality(c.hands) \in Nat /\ c.total - Cardinality(c.hands) \in Int
           /\ SteppedBack(c) \in Nat \ {0} /\ SteppedBack(c) <= Pages(c.total - Cardinality(c.hands))
<1>1. Cardinality(c.hands) \in Nat
  <2>1. IsFiniteSet(c.hands)
    BY LibraryAssumption, FS_Subset DEF CallOK
  <2> QED  BY <2>1, FS_CardinalityType
<1> DEFINE left == c.total - Cardinality(c.hands)
<1>2. left \in Int /\ c.at.search.page \in Nat \ {0}
  BY <1>1 DEF CallOK, EntryOK, SearchOK
<1>3. SteppedBack(c) = Min({c.at.search.page, Pages(left)})
  BY DEF SteppedBack, Pages
<1> HIDE DEF left
<1>4. Pages(left) \in Nat \ {0}
  BY <1>2, PagesGrow
<1>5. c.at.search.page \in Int /\ Pages(left) \in Int
  BY <1>2, <1>4
<1>6. SteppedBack(c) \in {c.at.search.page, Pages(left)} /\ SteppedBack(c) <= Pages(left)
  BY <1>3, <1>5, LibMinOfTwo, Zenon
<1> QED  BY <1>1, <1>2, <1>4, <1>6 DEF left

(* Where the answer to a change leads: to the page stepped back to, or to  *)
(* the first.                                                              *)
LEMMA LandsOnEntry ==
    ASSUME LibTyped, NEW c \in calls, Lands(c), c.done = "done"
    PROVE  /\ EntryOK(LandsOn(c)) /\ LandsOn(c).view # "hand"
           /\ c.kind # "remove" => LandsOn(c).search.page = 1
           /\ c.kind = "remove" => /\ LandsOn(c).search.page = SteppedBack(c)
                                   /\ \A day : ReadFilter(LandsOn(c).search, day) = ReadFilter(c.at.search, day)
<1>1. /\ CallOK(c) /\ EntryOK(c.at) /\ c.at.view # "hand" /\ SearchOK(c.at.search)
      /\ c.at.search.page \in Nat \ {0} /\ 1 \in Nat \ {0}
  BY DEF LibTyped, CallOK, EntryOK, SearchOK
<1>2. CASE c.kind = "remove"
  <2>1. LandsOn(c) = LibraryAt(c.at.view, [c.at.search EXCEPT !.page = SteppedBack(c)])
    BY <1>2 DEF LandsOn
  <2>2. SteppedBack(c) \in Nat \ {0}
    BY <1>1, <1>2, SteppedBackFacts
  <2>3. PICK s : s = [c.at.search EXCEPT !.page = SteppedBack(c)]
    OBVIOUS
  <2>4. SearchOK(s) /\ s.page = SteppedBack(c) /\ \A day : ReadFilter(s, day) = ReadFilter(c.at.search, day)
    BY <1>1, <2>2, <2>3, SearchAtPage
  <2>5. LandsOn(c) = LibraryAt(c.at.view, s)
    BY <2>1, <2>3
  <2> QED  BY <1>1, <1>2, <2>4, <2>5, LibraryAtIsEntry
<1>3. CASE c.kind = "import"
  <2>1. LandsOn(c) = LibraryAt(c.at.view, [c.at.search EXCEPT !.page = 1])
    BY <1>3 DEF LandsOn
  <2>2. PICK s : s = [c.at.search EXCEPT !.page = 1]
    OBVIOUS
  <2>3. SearchOK(s) /\ s.page = 1
    BY <1>1, <2>2, SearchAtPage
  <2>4. LandsOn(c) = LibraryAt(c.at.view, s)
    BY <2>1, <2>2
  <2> QED  BY <1>1, <1>3, <2>3, <2>4, LibraryAtIsEntry
<1>4. CASE c.kind = "delete"
  <2>1. LandsOn(c) = ChangeFilterFrom(c.at, [c.filter EXCEPT !.tags = @ \ {c.tag}])
    BY <1>4 DEF LandsOn
  <2> QED  BY <1>1, <1>4, <2>1, ChangesAreEntries
<1> QED  BY <1>2, <1>3, <1>4 DEF Lands

(* The page stepped back to is there, if the person still looks at that    *)
(* filter.                                                                 *)
LEMMA LandKeeps ==
    ASSUME LibSound, NEW c \in calls, c.done = "done", Lands(c), calls' = calls \ {c},
           Land(c, LandsOn(c)), UNCHANGED <<server, today>>
    PROVE  LibSound'
<1>1. PICK e : e = LandsOn(c)
  OBVIOUS
<1>2. LibTyped /\ (OnLibrary => OnScreen) /\ HistoryOK(history) /\ CallOK(c)
  BY DEF LibSound, LibTyped
<1>3. /\ EntryOK(e) /\ e.view # "hand" /\ SearchOK(e.search) /\ e.search.page \in Nat \ {0}
      /\ c.kind # "remove" => e.search.page = 1
      /\ c.kind = "remove" => e.search.page = SteppedBack(c) /\ \A day : ReadFilter(e.search, day) = ReadFilter(c.at.search, day)
  BY <1>1, <1>2, LandsOnEntry DEF EntryOK, SearchOK
<1>4. PICK h : h = Redirect(history, e)
  OBVIOUS
<1>5. HistoryOK(h) /\ h.now = e
  BY <1>2, <1>3, <1>4, RedirectIsHistory
<1> DEFINE stays == OnLibrary /\ Here.search = e.search
           sameHands == OnLibrary /\ FilteredBy(Here.search) = FilteredBy(e.search)
<1>6. /\ history' = h
      /\ filter' = (IF stays THEN filter ELSE ReadFilter(e.search, today))
      /\ load' = (IF OnLibrary THEN load ELSE None)
      /\ results' = (IF sameHands THEN results ELSE None)
      /\ summary' = (IF sameHands THEN summary ELSE None)
      /\ asks' = Rerun(Kinds, e.view, e.search, filter')
      /\ outdated' = outdated \ Shown(e.view)
      /\ turned' = (IF stays THEN turned ELSE FALSE)
      /\ strayed' = (strayed \/ ~sameHands)
  BY <1>1, <1>4 DEF Land
<1>7. /\ strayed \in BOOLEAN /\ turned \in BOOLEAN /\ (turned => strayed /\ today # FirstDay)
      /\ stays => sameHands
  BY <1>2 DEF LibTyped
<1>8. /\ filter' = ReadFilter(e.search, today) \/ (stays /\ UNCHANGED <<filter, turned>>)
      /\ results' = None \/ (sameHands /\ UNCHANGED results)
      /\ summary' = None \/ (sameHands /\ UNCHANGED summary)
      /\ turned' \in BOOLEAN /\ strayed' \in BOOLEAN /\ (turned' => turned /\ stays)
      /\ ~strayed' => ~strayed /\ sameHands /\ ~turned
  <2>1. CASE stays
    <3>1. UNCHANGED filter /\ UNCHANGED turned /\ UNCHANGED results /\ UNCHANGED summary /\ strayed' = strayed
      BY <1>6, <1>7, <2>1
    <3> QED  BY <1>7, <2>1, <3>1
  <2>2. CASE ~stays /\ sameHands
    <3>1. filter' = ReadFilter(e.search, today) /\ turned' = FALSE /\ UNCHANGED results /\ UNCHANGED summary /\ strayed' = strayed
      BY <1>6, <1>7, <2>2
    <3> QED  BY <1>7, <2>2, <3>1
  <2>3. CASE ~stays /\ ~sameHands
    <3>1. filter' = ReadFilter(e.search, today) /\ turned' = FALSE /\ results' = None /\ summary' = None /\ strayed' = TRUE
      BY <1>6, <2>3
    <3> QED  BY <3>1
  <2> QED  BY <1>7, <2>1, <2>2, <2>3
<1> HIDE DEF stays, sameHands
<1>9. UNCHANGED server /\ UNCHANGED today
  OBVIOUS
<1>10. \A f : Total(f)' = Total(f)
  BY <1>9, SameServer
<1>11. ASSUME NEW d, RemovalOK(d) PROVE RemovalOK(d)'
  <2>1. Total(d.filter)' = Total(d.filter)
    BY <1>10
  <2> QED  BY <1>9, <1>11, <2>1 DEF RemovalOK
<1>12. RemovalsRight'
  <2>1. Removals' \subseteq Removals
    BY DEF Removals
  <2> QED  BY <1>8, <1>11, <2>1 DEF RemovalsRight, LibSound
<1>13. AsksRight' /\ AddressRight' /\ ListRight' /\ ResultsRight' /\ StatsRight' /\ TotalsRight'
  <2>1. h.now.view # "hand" /\ asks' = Rerun(Kinds, h.now.view, h.now.search, filter')
    BY <1>3, <1>5, <1>6
  <2>2. \/ filter' = ReadFilter(h.now.search, today)
        \/ OnLibrary /\ UNCHANGED <<filter, turned>> /\ Here.search = h.now.search
    BY <1>5, <1>8 DEF stays
  <2>3. /\ \/ results' = None
           \/ OnLibrary /\ UNCHANGED results /\ FilteredBy(Here.search) = FilteredBy(h.now.search)
        /\ \/ summary' = None
           \/ OnLibrary /\ UNCHANGED summary /\ FilteredBy(Here.search) = FilteredBy(h.now.search)
    BY <1>5, <1>8 DEF sameHands
  <2> QED  BY <1>2, <1>5, <1>6, <1>8, <1>9, <2>1, <2>2, <2>3, RereadIsRight
<1>14. PageRight'
  <2>1. Here' = e
    BY <1>5, <1>6 DEF Here
  <2>2. SUFFICES ASSUME ~strayed' PROVE e.search.page <= Pages(Total(filter)')
    BY <2>1 DEF PageRight, Pages
  <2>3. Total(filter)' = Total(filter') /\ Total(filter') \in Nat
    BY <1>2, <1>10, TotalIsNat DEF LibTyped
  <2>4. Pages(Total(filter')) \in Nat \ {0}
    BY <2>3, PagesGrow
  <2>5. CASE c.kind # "remove"
    BY <1>3, <2>3, <2>4, <2>5
  <2>6. CASE c.kind = "remove"
    <3>1. ~strayed /\ sameHands /\ ~turned
      BY <1>8, <2>2
    <3>2. RemovalOK(c)
      BY <2>6, <3>1 DEF LibSound, RemovalsRight, Removals
    <3>3. c.filter = ReadFilter(e.search, today)
      BY <1>3, <2>6, <3>2 DEF RemovalOK
    <3>4. filter' = ReadFilter(e.search, today)
      <4>1. CASE stays /\ UNCHANGED filter
        <5>1. OnLibrary /\ Here.search = e.search
          BY <4>1 DEF stays
        <5> QED  BY <1>2, <3>1, <4>1, <5>1 DEF OnScreen, AddressRight
      <4> QED  BY <1>8, <4>1
    <3>5. PICK left : left = c.total - Cardinality(c.hands)
      OBVIOUS
    <3>6. left \in Int /\ SteppedBack(c) \in Nat \ {0} /\ SteppedBack(c) <= Pages(left)
      BY <1>2, <2>6, <3>5, SteppedBackFacts
    <3>7. left <= Total(filter')
      BY <3>2, <3>3, <3>4, <3>5 DEF RemovalOK
    <3>8. Pages(left) \in Nat /\ Pages(left) <= Pages(Total(filter'))
      BY <2>3, <3>6, <3>7, PagesGrow
    <3>9. e.search.page = SteppedBack(c)
      BY <1>3, <2>6
    <3> QED  BY <2>3, <2>4, <3>6, <3>8, <3>9
  <2> QED  BY <2>5, <2>6
<1>15. LibTyped'
  <2>1. \A a \in asks' : AskOK(a)
    <3>1. SUFFICES ASSUME NEW a \in asks' PROVE AskOK(a)
      OBVIOUS
    <3>2. PICK f : f = filter'
      OBVIOUS
    <3>3. a \in Rerun(Kinds, e.view, e.search, f)
      BY <1>6, <3>1, <3>2
    <3>4. a \in asks \/ \E k \in Kinds \cup {"ids"} : a = Ask(k, e.search, f)
      BY <3>3, RerunFacts
    <3> QED  BY <1>2, <3>4, AskIsFresh DEF LibTyped
  <2>2. FilterOK(filter')
    <3>1. CASE stays /\ UNCHANGED filter
      BY <1>2, <3>1 DEF LibTyped, stays
    <3> QED  BY <1>8, <3>1, FilterIsRead
  <2>3. Loaded' => load'.total \in Nat
    <3>1. SUFFICES ASSUME Loaded' PROVE load'.total \in Nat
      OBVIOUS
    <3>2. load' # None /\ load' # Failed
      BY <3>1 DEF Loaded
    <3>3. OnLibrary /\ load' = load
      BY <1>6, <3>2
    <3> QED  BY <1>2, <3>2, <3>3 DEF LibTyped, Loaded
  <2>4. /\ library' = library /\ today' = today /\ outdated' \subseteq outdated /\ calls' \subseteq calls
        /\ turned' => strayed' /\ today # FirstDay
    BY <1>6, <1>7, <1>8 DEF server
  <2> QED  BY <1>2, <1>5, <1>6, <1>8, <2>1, <2>2, <2>3, <2>4 DEF LibTyped
<1> QED  BY <1>12, <1>13, <1>14, <1>15 DEF LibSound, OnScreen

-----------------------------------------------------------------------------
(* What is sent says what was on screen.                                   *)
LEMMA SendKeeps ==
    ASSUME LibSound, NEW call, CallOK(call), call.done = "sent", calls' = calls \cup {call},
           strayed' = (strayed \/ (call.kind = "remove" /\ (Reading \/ Removing))),
           call.kind = "remove" => Loaded /\ call.total = load.total /\ call.at = Here /\ call.filter = filter,
           UNCHANGED <<server, today, history, filter, load, results, summary, asks, outdated, turned>>
    PROVE  LibSound'
<1>1. LibTyped /\ (OnLibrary => OnScreen) /\ strayed \in BOOLEAN /\ (OnLibrary' <=> OnLibrary) /\ Here' = Here
  BY DEF LibSound, LibTyped, OnLibrary, Here
<1>2. UNCHANGED server /\ UNCHANGED today /\ UNCHANGED history /\ UNCHANGED filter /\ UNCHANGED load
      /\ UNCHANGED results /\ UNCHANGED summary /\ UNCHANGED asks /\ UNCHANGED outdated /\ UNCHANGED turned
  OBVIOUS
<1>3. \A f : /\ Keeps(f)' = Keeps(f) /\ Total(f)' = Total(f)
             /\ \A sort, nth, total : Page(f, sort, nth, total)' = Page(f, sort, nth, total)
  BY <1>2, SameServer
<1>4. (Removed' <=> Removed) /\ (Pending' <=> Pending) /\ (Loaded' <=> Loaded) /\ (Reading' <=> Reading)
  BY <1>1, <1>2 DEF Removed, Removals, Pending, Loaded, Reading
<1>5. /\ strayed' \in BOOLEAN /\ (strayed => strayed')
      /\ ~strayed' => ~strayed /\ ~(call.kind = "remove" /\ (Reading \/ Removing))
  <2>1. (strayed \/ (call.kind = "remove" /\ (Reading \/ Removing))) \in BOOLEAN
    OBVIOUS
  <2> QED  BY <1>1, <2>1, Zenon
<1>6. /\ \A k : Excused(k)' <=> Excused(k)
      /\ \A k : Asked(k)' <=> Asked(k)
  BY <1>2, <1>4 DEF Excused, Asked
<1>7. ASSUME OnLibrary PROVE OnScreen'
  <2>1. \A a \in asks : AskRight(a)' <=> AskRight(a)
    BY <1>1, <1>2, <1>3, <1>6 DEF AskRight
  <2>2. AsksRight' /\ AddressRight'
    BY <1>1, <1>2, <1>7, <2>1 DEF OnScreen, AsksRight, AddressRight
  <2>3. ListRight' /\ ResultsRight' /\ StatsRight'
    BY <1>1, <1>2, <1>3, <1>6, <1>7 DEF OnScreen, ListRight, ResultsRight, StatsRight
  <2>4. PageRight' /\ TotalsRight'
    BY <1>1, <1>2, <1>3, <1>4, <1>5, <1>7 DEF OnScreen, PageRight, TotalsRight
  <2> QED  BY <2>2, <2>3, <2>4 DEF OnScreen
<1>8. LibTyped'
  BY <1>1, <1>2, <1>4, <1>5 DEF LibTyped, server
<1>9. RemovalsRight'
  <2>1. SUFFICES ASSUME ~strayed'
                 PROVE  (\A c, d \in Removals' : c = d) /\ \A c \in Removals' : RemovalOK(c)'
    BY DEF RemovalsRight
  <2>2. ASSUME NEW d, RemovalOK(d) PROVE RemovalOK(d)'
    <3>1. Total(d.filter)' = Total(d.filter)
      BY <1>3
    <3> QED  BY <1>2, <2>2, <3>1 DEF RemovalOK
  <2>3. (\A c, d \in Removals : c = d) /\ \A c \in Removals : RemovalOK(c)
    BY <1>5, <2>1 DEF LibSound, RemovalsRight
  <2>4. CASE call.kind # "remove"
    <3>1. Removals' = Removals
      BY <2>4 DEF Removals
    <3> QED  BY <2>2, <2>3, <3>1
  <2>5. CASE call.kind = "remove"
    <3>1. Removals' = {call}
      BY <1>5, <2>1, <2>5 DEF Removals, Removing
    <3>2. ~Removed /\ OnLibrary /\ Loaded /\ ~Reading /\ ~turned /\ ~strayed
      BY <1>1, <1>5, <2>1, <2>5 DEF Removed, Removals, Removing, LibTyped, Loaded
    <3>3. filter = ReadFilter(Here.search, today) /\ load.total <= Total(filter)
      BY <1>1, <3>2 DEF OnScreen, AddressRight, TotalsRight
    <3>4. RemovalOK(call)
      BY <2>5, <3>3 DEF RemovalOK
    <3> QED  BY <2>2, <3>1, <3>4
  <2> QED  BY <2>4, <2>5
<1> QED  BY <1>1, <1>7, <1>8, <1>9 DEF LibSound

(* What a change of the Library does to what a filter keeps.               *)
LEMMA ChangeGrows ==
    ASSUME LibTyped, NEW c, CallOK(c), c.kind # "remove", ~Narrows(c), Change(c), NEW f
    PROVE  library' \subseteq Hands /\ Total(f)' \in Nat /\ Total(f) \in Nat /\ Total(f) <= Total(f)'
<1>a. ASSUME c.kind = "import"
      PROVE  library \subseteq library' /\ marks \subseteq marks' /\ links \subseteq links'
             /\ (library' = library \/ (c.kind = "import" /\ library' = library \cup c.hands))
  <2>1. library' = library \cup c.hands /\ marks' = marks /\ links' = links
    BY <1>a DEF Change
  <2> QED  BY <1>a, <2>1
<1>b. ASSUME c.kind = "mark"
      PROVE  library \subseteq library' /\ marks \subseteq marks' /\ links \subseteq links'
             /\ (library' = library \/ (c.kind = "import" /\ library' = library \cup c.hands))
  <2>1. c.on
    BY <1>b DEF Narrows
  <2>2. library' = library /\ links' = links /\ marks' = marks \cup c.hands
    BY <1>b, <2>1 DEF Change
  <2> QED  BY <1>b, <2>2
<1>c. ASSUME c.kind = "tag"
      PROVE  library \subseteq library' /\ marks \subseteq marks' /\ links \subseteq links'
             /\ (library' = library \/ (c.kind = "import" /\ library' = library \cup c.hands))
  <2>1. c.on
    BY <1>c DEF Narrows
  <2>2. library' = library /\ marks' = marks /\ links' = links \cup ({c.tag} \X c.hands)
    BY <1>c, <2>1 DEF Change
  <2> QED  BY <1>c, <2>2
<1>d. ASSUME c.kind \in {"play", "create"}
      PROVE  library \subseteq library' /\ marks \subseteq marks' /\ links \subseteq links'
             /\ (library' = library \/ (c.kind = "import" /\ library' = library \cup c.hands))
  <2>1. library' = library /\ marks' = marks /\ links' = links
    BY <1>d DEF Change
  <2> QED  BY <1>d, <2>1
<1>1. library \subseteq library' /\ marks \subseteq marks' /\ links \subseteq links'
      /\ (library' = library \/ (c.kind = "import" /\ library' = library \cup c.hands))
  <2>1. c.kind \in {"play", "create", "import", "mark", "tag"}
    BY DEF CallOK, Narrows
  <2> QED  BY <2>1, <1>a, <1>b, <1>c, <1>d
<1>2. library \subseteq Hands /\ library' \subseteq Hands
  BY <1>1 DEF LibTyped, CallOK
<1>3. Keeps(f) \subseteq Keeps(f)'
  BY <1>1 DEF Keeps
<1>4. IsFiniteSet(Keeps(f)') /\ Total(f)' \in Nat /\ Total(f) \in Nat
  BY <1>2, TotalIsNat, TotalIsNatAfter
<1> QED  BY <1>2, <1>3, <1>4, FS_Subset DEF Total

(* A removal takes no more than the Hands it was asked to.                 *)
LEMMA RemovalTakes ==
    ASSUME LibTyped, NEW c, c.kind = "remove", c.hands \subseteq library, Change(c), NEW f
    PROVE  /\ library' \subseteq Hands /\ Total(f)' \in Nat /\ Total(f) \in Nat /\ Cardinality(c.hands) \in Nat
           /\ Total(f) - Cardinality(c.hands) <= Total(f)'
<1>a. library' = library \ c.hands
  BY DEF Change
<1>b. marks' = marks
  BY DEF Change
<1>c. links' = {l \in links : l[2] \notin c.hands}
  BY DEF Change
<1>1. library' = library \ c.hands /\ marks' = marks /\ links' = {l \in links : l[2] \notin c.hands}
  BY <1>a, <1>b, <1>c
<1>2. library \subseteq Hands /\ library' \subseteq Hands /\ c.hands \subseteq Hands
  BY <1>1 DEF LibTyped
<1>3. Keeps(f) \subseteq Keeps(f)' \cup c.hands
  <2>1. \A t, h : <<t, h>> \in links /\ h \notin c.hands => <<t, h>> \in links'
    BY <1>1
  <2> QED  BY <1>1, <2>1 DEF Keeps
<1>4. IsFiniteSet(Keeps(f)') /\ Total(f)' \in Nat /\ Total(f) \in Nat /\ IsFiniteSet(c.hands) /\ Cardinality(c.hands) \in Nat
  BY <1>2, TotalIsNat, TotalIsNatAfter, FS_Subset, LibraryAssumption, FS_CardinalityType
<1>5. PICK K : K = Keeps(f)'
  OBVIOUS
<1>6. /\ IsFiniteSet(K \cup c.hands) /\ Cardinality(K \cup c.hands) = Cardinality(K) + Cardinality(c.hands) - Cardinality(K \cap c.hands)
      /\ IsFiniteSet(K \cap c.hands)
  BY <1>4, <1>5, FS_Union, FS_Subset
<1>7. Cardinality(K \cap c.hands) \in Nat /\ Cardinality(K) \in Nat /\ Cardinality(K) = Total(f)'
  BY <1>4, <1>5, <1>6, FS_CardinalityType DEF Total
<1>8. Total(f) <= Cardinality(K \cup c.hands)
  BY <1>3, <1>5, <1>6, FS_Subset DEF Total
<1> QED  BY <1>2, <1>4, <1>6, <1>7, <1>8

(* A call that is neither a change done nor news of one leaves what is     *)
(* known of the screen.                                                    *)
LEMMA OnScreenStays ==
    ASSUME LibTyped, OnLibrary, OnScreen, strayed => strayed',
           UNCHANGED <<server, today, history, filter, load, results, summary, asks, outdated, turned>>,
           Removed => strayed' \/ Removed', Pending => Pending'
    PROVE  OnScreen'
<1>1. UNCHANGED server /\ UNCHANGED today /\ UNCHANGED history /\ UNCHANGED filter /\ UNCHANGED load
      /\ UNCHANGED results /\ UNCHANGED summary /\ UNCHANGED asks /\ UNCHANGED outdated /\ UNCHANGED turned
      /\ Here' = Here /\ (OnLibrary' <=> OnLibrary)
  BY DEF Here, OnLibrary
<1>2. \A f : /\ Keeps(f)' = Keeps(f) /\ Total(f)' = Total(f)
             /\ \A sort, nth, total : Page(f, sort, nth, total)' = Page(f, sort, nth, total)
  BY <1>1, SameServer
<1>3. (Loaded' <=> Loaded) /\ (Reading' <=> Reading)
  BY <1>1 DEF Loaded, Reading
<1>4. /\ \A k : Excused(k) => Excused(k)'
      /\ \A k : Asked(k)' <=> Asked(k)
  BY <1>1 DEF Excused, Asked
<1>5. \A a \in asks : AskRight(a) => AskRight(a)'
  BY <1>1, <1>2, <1>4 DEF AskRight
<1>6. AsksRight' /\ AddressRight'
  BY <1>1, <1>5 DEF OnScreen, AsksRight, AddressRight
<1>7. ListRight' /\ ResultsRight' /\ StatsRight'
  BY <1>1, <1>2, <1>4 DEF OnScreen, ListRight, ResultsRight, StatsRight
<1>8. PageRight' /\ TotalsRight'
  BY <1>1, <1>2, <1>3 DEF OnScreen, PageRight, TotalsRight
<1> QED  BY <1>6, <1>7, <1>8 DEF OnScreen

(* The server serves a change: what is shown is excused until its answer   *)
(* comes.                                                                  *)
LEMMA ServeKeeps ==
    ASSUME LibSound, NEW c \in calls, Serve(c)
    PROVE  LibSound'
<1>1. PICK d : d = [c EXCEPT !.done = IF c.kind # "play" /\ Refused(c) THEN "refused" ELSE "done",
                            !.ids = IF c.kind = "play" THEN InOrder(Keeps(c.filter), c.at.search.sort) ELSE <<>>,
                            !.hands = IF c.kind = "import" THEN @ \ library ELSE @]
  OBVIOUS
<1>2. /\ c.done = "sent" /\ calls' = (calls \ {c}) \cup {d}
      /\ strayed' = (strayed \/ (~Refused(c) /\ Narrows(c)))
      /\ UNCHANGED today /\ UNCHANGED history /\ UNCHANGED filter /\ UNCHANGED load
      /\ UNCHANGED results /\ UNCHANGED summary /\ UNCHANGED asks /\ UNCHANGED outdated /\ UNCHANGED turned
  BY <1>1 DEF Serve, screen
<1>3. LibTyped /\ (OnLibrary => OnScreen) /\ CallOK(c) /\ strayed \in BOOLEAN /\ library \subseteq Hands
  BY DEF LibSound, LibTyped
<1>4. /\ d.kind = c.kind /\ d.at = c.at /\ d.filter = c.filter /\ d.total = c.total
      /\ d.done = (IF c.kind # "play" /\ Refused(c) THEN "refused" ELSE "done")
      /\ d.hands = (IF c.kind = "import" THEN c.hands \ library ELSE c.hands)
      /\ d = [kind |-> d.kind, at |-> d.at, filter |-> d.filter, hands |-> d.hands, tag |-> d.tag, name |-> d.name,
              on |-> d.on, total |-> d.total, done |-> d.done, ids |-> d.ids]
  <2>1. PICK done, ids, hands :
            /\ done = (IF c.kind # "play" /\ Refused(c) THEN "refused" ELSE "done")
            /\ ids = (IF c.kind = "play" THEN InOrder(Keeps(c.filter), c.at.search.sort) ELSE <<>>)
            /\ hands = (IF c.kind = "import" THEN c.hands \ library ELSE c.hands)
    OBVIOUS
  <2>2. d = [kind |-> c.kind, at |-> c.at, filter |-> c.filter, hands |-> hands, tag |-> c.tag, name |-> c.name,
             on |-> c.on, total |-> c.total, done |-> done, ids |-> ids]
    BY <1>1, <1>3, <2>1 DEF CallOK
  <2> QED  BY <2>1, <2>2
<1>5. CallOK(d)
  <2>1. c.kind = "remove" /\ d.done = "done" => c.hands \subseteq library
    BY <1>4 DEF Refused
  <2> QED  BY <1>3, <1>4, <2>1 DEF CallOK
<1>6. /\ strayed' \in BOOLEAN /\ (strayed => strayed')
      /\ ~strayed' => ~strayed /\ (Refused(c) \/ ~Narrows(c))
  <2>1. (strayed \/ (~Refused(c) /\ Narrows(c))) \in BOOLEAN
    OBVIOUS
  <2> QED  BY <1>2, <1>3, <2>1, Zenon
<1>7. /\ OnLibrary' <=> OnLibrary
      /\ Here' = Here /\ (Loaded' <=> Loaded) /\ (Reading' <=> Reading)
  BY <1>2 DEF OnLibrary, Here, Loaded, Reading
<1>8. LibTyped' <=> library' \subseteq Hands
  BY <1>2, <1>3, <1>5, <1>6, <1>7 DEF LibTyped
<1>9. /\ Removals' = IF c.kind = "remove" THEN (Removals \ {c}) \cup {d} ELSE Removals
      /\ c.kind = "remove" => c \in Removals
  BY <1>2, <1>4 DEF Removals
<1>10. CASE c.kind = "play" \/ Refused(c)
  <2>1. UNCHANGED server
    BY <1>10 DEF Serve
  <2>2. library' = library
    BY <2>1 DEF server
  <2>3. c.kind = "remove" => d.done = "refused"
    BY <1>4, <1>10
  <2>4. Removed => Removed'
    BY <1>2, <1>9 DEF Removed
  <2>5. Pending => Pending'
    BY <1>2 DEF Pending
  <2>6. OnLibrary => OnScreen'
    BY <1>2, <1>3, <1>6, <2>1, <2>4, <2>5, OnScreenStays
  <2>7. ASSUME NEW r, RemovalOK(r) PROVE RemovalOK(r)'
    <3>1. Total(r.filter)' = Total(r.filter)
      BY <2>1, SameServer
    <3> QED  BY <1>2, <2>7, <3>1 DEF RemovalOK
  <2>8. RemovalsRight'
    <3>1. SUFFICES ASSUME ~strayed'
                   PROVE  (\A r, s \in Removals' : r = s) /\ \A r \in Removals' : RemovalOK(r)'
      BY DEF RemovalsRight
    <3>2. (\A r, s \in Removals : r = s) /\ \A r \in Removals : RemovalOK(r)
      BY <1>6, <3>1 DEF LibSound, RemovalsRight
    <3>3. c.kind = "remove" => RemovalOK(d)'
      <4>1. SUFFICES ASSUME c.kind = "remove" PROVE RemovalOK(d)'
        OBVIOUS
      <4>2. RemovalOK(c)
        BY <1>9, <3>2, <4>1
      <4> QED  BY <1>2, <1>4, <2>3, <4>1, <4>2 DEF RemovalOK
    <3> QED  BY <1>9, <2>7, <3>2, <3>3
  <2> QED  BY <1>7, <1>8, <1>3, <2>2, <2>6, <2>8 DEF LibSound
<1>11. CASE ~(c.kind = "play" \/ Refused(c))
  <2>1. Change(c) /\ d.done = "done"
    BY <1>4, <1>11 DEF Serve
  <2>2. Pending'
    BY <1>2, <1>4, <1>11, <2>1 DEF Pending
  <2>3. c.kind = "remove" => c.hands \subseteq library
    BY <1>11 DEF Refused
  <2>4. ~strayed' => ~strayed /\ ~Narrows(c)
    BY <1>6, <1>11
  <2>5. ASSUME ~strayed', c.kind # "remove", NEW f
        PROVE  library' \subseteq Hands /\ Total(f)' \in Nat /\ Total(f) \in Nat /\ Total(f) <= Total(f)'
    BY <1>3, <2>1, <2>4, <2>5, ChangeGrows
  <2>6. library' \subseteq Hands
    BY <1>3, <2>1 DEF Change, CallOK
  <2>7. ASSUME OnLibrary PROVE OnScreen'
    <3>1. \A k : Excused(k)'
      BY <2>2 DEF Excused
    <3>2. OnScreen
      BY <1>3, <2>7
    <3>3. AsksRight' /\ AddressRight'
      BY <1>2, <1>7, <3>1, <3>2 DEF OnScreen, AsksRight, AskRight, AddressRight
    <3>4. ListRight' /\ ResultsRight' /\ StatsRight'
      BY <1>2, <1>7, <3>1, <3>2 DEF OnScreen, ListRight, ResultsRight, StatsRight
    <3>5. PageRight' /\ TotalsRight'
      <4>1. CASE strayed'
        BY <4>1 DEF PageRight, TotalsRight
      <4>2. CASE c.kind = "remove"
        <5>1. Removed'
          BY <1>4, <1>9, <2>1, <4>2 DEF Removed
        <5> QED  BY <5>1 DEF PageRight, TotalsRight
      <4>3. CASE ~strayed' /\ c.kind # "remove"
        <5>1. Removed' <=> Removed
          BY <1>9, <4>3 DEF Removed
        <5>2. CASE Removed
          BY <5>1, <5>2 DEF PageRight, TotalsRight
        <5>3. CASE ~Removed
          <6>1. ~strayed
            BY <2>4, <4>3
          <6>2. PICK f : f = filter
            OBVIOUS
          <6>3. Total(f)' \in Nat /\ Total(f) \in Nat /\ Total(f) <= Total(f)' /\ Total(filter)' = Total(f)'
            BY <1>2, <2>5, <4>3, <6>2
          <6>4. PICK m, n : m = Total(f) /\ n = Total(f)'
            OBVIOUS
          <6>5. Pages(m) \in Nat \ {0} /\ Pages(n) \in Nat \ {0} /\ Pages(m) <= Pages(n)
            BY <6>3, <6>4, PagesGrow
          <6>6. Here.search.page \in Nat
            BY <1>3 DEF LibTyped, HistoryOK, EntryOK, SearchOK, Here
          <6>7. PageRight'
            <7>1. Here.search.page <= Pages(m)
              BY <3>2, <5>3, <6>1, <6>2, <6>4 DEF OnScreen, PageRight
            <7>2. Here.search.page <= Pages(n)
              BY <6>5, <6>6, <7>1
            <7>3. Pages(Total(filter))' = Pages(n)
              BY <6>3, <6>4 DEF Pages
            <7> QED  BY <1>7, <7>2, <7>3 DEF PageRight
          <6>8. TotalsRight'
            <7>1. /\ Loaded /\ ~Reading => load.total <= m
                  /\ \A a \in asks : a.kind = "list" /\ a.total # None => a.total <= m
              BY <3>2, <5>3, <6>1, <6>2, <6>4 DEF OnScreen, TotalsRight
            <7>2. /\ Loaded => load.total \in Nat
                  /\ \A a \in asks : a.kind = "list" /\ a.total # None => a.total \in Nat
              BY <1>3, <2>7 DEF LibTyped, AskOK
            <7>3. /\ Loaded /\ ~Reading => load.total <= n
                  /\ \A a \in asks : a.kind = "list" /\ a.total # None => a.total <= n
              BY <6>3, <6>4, <7>1, <7>2
            <7> QED  BY <1>2, <1>7, <6>3, <6>4, <7>3 DEF TotalsRight
          <6> QED  BY <6>7, <6>8
        <5> QED  BY <5>2, <5>3
      <4> QED  BY <4>1, <4>2, <4>3
    <3> QED  BY <3>3, <3>4, <3>5 DEF OnScreen
  <2>8. RemovalsRight'
    <3>1. SUFFICES ASSUME ~strayed'
                   PROVE  (\A r, s \in Removals' : r = s) /\ \A r \in Removals' : RemovalOK(r)'
      BY DEF RemovalsRight
    <3>2. (\A r, s \in Removals : r = s) /\ \A r \in Removals : RemovalOK(r)
      BY <1>6, <3>1 DEF LibSound, RemovalsRight
    <3>3. CASE c.kind = "remove"
      <4>1. Removals' = {d}
        BY <1>9, <3>2, <3>3
      <4>2. RemovalOK(c)
        BY <1>9, <3>2, <3>3
      <4>3. PICK f : f = c.filter
        OBVIOUS
      <4>4. /\ Total(f)' \in Nat /\ Total(f) \in Nat /\ Cardinality(c.hands) \in Nat
            /\ Total(f) - Cardinality(c.hands) <= Total(f)'
        BY <1>3, <2>1, <2>3, <3>3, RemovalTakes
      <4>5. c.total <= Total(f) /\ c.total \in Nat
        BY <1>2, <1>3, <4>2, <4>3 DEF RemovalOK, CallOK
      <4>6. d.total - Cardinality(d.hands) <= Total(f)'
        BY <1>4, <3>3, <4>4, <4>5
      <4>7. RemovalOK(d)'
        BY <1>2, <1>4, <2>1, <4>2, <4>3, <4>6 DEF RemovalOK
      <4> QED  BY <4>1, <4>7
    <3>4. CASE c.kind # "remove"
      <4>1. Removals' = Removals
        BY <1>9, <3>4
      <4>2. ASSUME NEW r \in Removals PROVE RemovalOK(r)'
        <5>1. RemovalOK(r) /\ CallOK(r) /\ r.kind = "remove"
          BY <1>3, <3>2 DEF LibTyped, Removals
        <5>2. PICK f : f = r.filter
          OBVIOUS
        <5>3. Total(f)' \in Nat /\ Total(f) \in Nat /\ Total(f) <= Total(f)'
          BY <2>5, <3>1, <3>4
        <5>4. r.done = "sent" => r.total <= Total(f)'
          BY <5>1, <5>2, <5>3 DEF RemovalOK, CallOK
        <5>5. r.done = "done" => r.total - Cardinality(r.hands) <= Total(f)'
          <6>1. SUFFICES ASSUME r.done = "done" PROVE r.total - Cardinality(r.hands) <= Total(f)'
            OBVIOUS
          <6>2. r.total - Cardinality(r.hands) \in Int /\ r.total - Cardinality(r.hands) <= Total(f)
            BY <5>1, <5>2, <6>1, SteppedBackFacts DEF RemovalOK
          <6> QED  BY <5>3, <6>2
        <5> QED  BY <1>2, <5>1, <5>2, <5>4, <5>5 DEF RemovalOK
      <4> QED  BY <4>1, <4>2, <3>2
    <3> QED  BY <3>3, <3>4
  <2> QED  BY <1>7, <1>8, <2>6, <2>7, <2>8 DEF LibSound
<1> QED  BY <1>10, <1>11

-----------------------------------------------------------------------------
(* What happens elsewhere, or to nothing but what has been sent.           *)
LEMMA FrameKeeps ==
    ASSUME LibSound, UNCHANGED <<history, filter, load, results, summary, asks>>, calls' \subseteq calls,
           library' \subseteq Hands, today' \in {FirstDay, FirstDay + 1},
           outdated \subseteq outdated', outdated' \subseteq Kinds, strayed' \in BOOLEAN, turned' \in BOOLEAN,
           strayed => strayed', turned => turned', turned' => strayed' /\ today' # FirstDay,
           UNCHANGED server \/ (outdated' = Kinds /\ strayed'),
           today' = today \/ (turned' /\ strayed' /\ today' # FirstDay),
           Pending => outdated' = Kinds \/ Pending', Removed => strayed' \/ Removed'
    PROVE  LibSound'
<1>1. /\ LibTyped /\ (OnLibrary => OnScreen) /\ (OnLibrary' <=> OnLibrary) /\ Here' = Here
      /\ (Loaded' <=> Loaded) /\ (Reading' <=> Reading)
      /\ UNCHANGED history /\ UNCHANGED filter /\ UNCHANGED load /\ UNCHANGED results /\ UNCHANGED summary
      /\ UNCHANGED asks
  BY DEF LibSound, OnLibrary, Here, Loaded, Reading
<1>2. LibTyped'
  BY <1>1 DEF LibTyped
<1>3. UNCHANGED server => \A f : /\ Keeps(f)' = Keeps(f) /\ Total(f)' = Total(f)
                                 /\ \A sort, nth, total : Page(f, sort, nth, total)' = Page(f, sort, nth, total)
  BY SameServer
<1>4. /\ \A k \in Kinds : Excused(k) => Excused(k)'
      /\ \A k \in Kinds : Excused(k)' \/ UNCHANGED server
      /\ \A k : Asked(k)' <=> Asked(k)
  BY <1>1 DEF Excused, Asked
<1>5. {"list", "results", "stats"} \subseteq Kinds
  BY DEF Kinds
<1>6. ASSUME OnLibrary PROVE OnScreen'
  <2>1. \A a \in asks : a.kind \in Kinds /\ AskRight(a) => AskRight(a)'
    <3>1. SUFFICES ASSUME NEW a \in asks, a.kind \in Kinds, AskRight(a) PROVE AskRight(a)'
      OBVIOUS
    <3>2. CASE UNCHANGED server
      BY <1>1, <1>3, <1>4, <1>5, <3>1, <3>2 DEF AskRight
    <3>3. CASE ~UNCHANGED server
      BY <1>1, <1>4, <1>5, <3>1, <3>3 DEF AskRight
    <3> QED  BY <3>2, <3>3
  <2>2. AsksRight'
    BY <1>1, <1>6, <2>1 DEF OnScreen, AsksRight
  <2>3. AddressRight'
    BY <1>1, <1>6 DEF OnScreen, AddressRight
  <2>4. CASE UNCHANGED server
    <3>1. ListRight' /\ ResultsRight' /\ StatsRight'
      BY <1>1, <1>3, <1>4, <1>5, <1>6, <2>4 DEF OnScreen, ListRight, ResultsRight, StatsRight
    <3>2. PageRight' /\ TotalsRight'
      BY <1>1, <1>3, <1>6, <2>4 DEF OnScreen, PageRight, TotalsRight
    <3> QED  BY <2>2, <2>3, <3>1, <3>2 DEF OnScreen
  <2>5. CASE ~UNCHANGED server
    <3>1. ListRight' /\ ResultsRight' /\ StatsRight'
      BY <1>1, <1>4, <1>5, <1>6, <2>5 DEF OnScreen, ListRight, ResultsRight, StatsRight
    <3>2. PageRight' /\ TotalsRight'
      BY <2>5 DEF PageRight, TotalsRight
    <3> QED  BY <2>2, <2>3, <3>1, <3>2 DEF OnScreen
  <2> QED  BY <2>4, <2>5
<1>7. RemovalsRight'
  <2>1. SUFFICES ASSUME ~strayed'
                 PROVE  (\A r, s \in Removals' : r = s) /\ \A r \in Removals' : RemovalOK(r)'
    BY DEF RemovalsRight
  <2>2. ~strayed /\ UNCHANGED server /\ today' = today
    BY <2>1
  <2>3. (\A r, s \in Removals : r = s) /\ \A r \in Removals : RemovalOK(r)
    BY <2>2 DEF LibSound, RemovalsRight
  <2>4. ASSUME NEW r, RemovalOK(r) PROVE RemovalOK(r)'
    <3>1. Total(r.filter)' = Total(r.filter)
      BY <1>3, <2>2
    <3> QED  BY <2>2, <2>4, <3>1 DEF RemovalOK
  <2>5. Removals' \subseteq Removals
    BY DEF Removals
  <2> QED  BY <2>3, <2>4, <2>5
<1> QED  BY <1>1, <1>2, <1>6, <1>7 DEF LibSound

(* The answer to a change comes.                                           *)
LEMMA SettledKeeps ==
    ASSUME LibSound, NEW c \in calls, Settled(c)
    PROVE  LibSound'
<1>1. /\ c.done # "sent" /\ calls' = calls \ {c} /\ UNCHANGED <<server, today>>
      /\ UNCHANGED server /\ UNCHANGED today
  BY DEF Settled
<1>2. /\ LibTyped /\ CallOK(c) /\ c.done \in {"done", "refused"} /\ HistoryOK(history) /\ library' \subseteq Hands
      /\ today \in {FirstDay, FirstDay + 1} /\ outdated \subseteq Kinds /\ strayed \in BOOLEAN /\ turned \in BOOLEAN
      /\ (turned => strayed /\ today # FirstDay)
  BY <1>1 DEF LibSound, LibTyped, CallOK, server
<1>3. ASSUME UNCHANGED <<screen, asks, ghosts>>, c.kind = "play" \/ c.done # "done" PROVE LibSound'
  <2>1. UNCHANGED <<history, filter, load, results, summary, asks>>
    BY <1>3 DEF screen
  <2>2. UNCHANGED outdated /\ UNCHANGED strayed /\ UNCHANGED turned
    BY <1>3 DEF ghosts
  <2>3. (Pending => Pending') /\ (Removed => Removed')
    BY <1>1, <1>3 DEF Pending, Removed, Removals
  <2> QED  BY <1>1, <1>2, <2>1, <2>2, <2>3, FrameKeeps
<1>4. CASE c.done = "done" /\ Lands(c)
  <2>1. Land(c, LandsOn(c))
    BY <1>4 DEF Settled
  <2> QED  BY <1>1, <1>4, <2>1, LandKeeps
<1>5. CASE ~(c.done = "done" /\ Lands(c)) /\ c.kind = "play"
  <2>1. CASE c.ids # <<>>
    <3>1. Arrive(Navigate(history, HandEntry(c.ids[1], Filtered, [c.at.search EXCEPT !.page = 1], c.at.search)))
      BY <1>5, <2>1 DEF Settled
    <3>2. PICK s : s = [c.at.search EXCEPT !.page = 1]
      OBVIOUS
    <3>3. SearchOK(s)
      <4>1. 1 \in Nat \ {0} /\ SearchOK(c.at.search)
        BY <1>2 DEF CallOK, EntryOK
      <4> QED  BY <3>2, <4>1, SearchAtPage
    <3>4. PICK e : e = HandEntry(c.ids[1], Filtered, s, c.at.search)
      OBVIOUS
    <3>5. EntryOK(e)
      BY <3>3, <3>4, HandIsEntry
    <3>6. PICK h : h = Navigate(history, e)
      OBVIOUS
    <3>7. HistoryOK(h) /\ Arrive(h)
      BY <1>2, <3>1, <3>2, <3>4, <3>5, <3>6, NavigateIsHistory
    <3> QED  BY <1>1, <1>5, <3>7, ArriveKeeps
  <2>2. CASE c.ids = <<>>
    <3>1. UNCHANGED <<screen, asks, ghosts>>
      BY <1>5, <2>2 DEF Settled
    <3> QED  BY <1>3, <1>5, <3>1
  <2> QED  BY <2>1, <2>2
<1>6. CASE ~(c.done = "done" /\ Lands(c)) /\ c.kind # "play" /\ (c.done = "done" \/ c.kind \in {"mark", "remove", "import"})
  <2>1. Bump(history) /\ UNCHANGED <<screen, strayed, turned>>
    BY <1>6 DEF Settled
  <2>2. ~(c.kind = "remove" /\ c.done = "done")
    BY <1>6 DEF Lands
  <2>3. UNCHANGED <<server, today, history, filter, load, results, summary, turned>> /\ UNCHANGED strayed
    BY <1>1, <2>1 DEF screen
  <2> QED  BY <1>1, <1>2, <2>1, <2>2, <2>3, BumpKeeps
<1>7. CASE ~(c.done = "done" /\ Lands(c)) /\ c.kind # "play" /\ ~(c.done = "done" \/ c.kind \in {"mark", "remove", "import"})
  <2>1. UNCHANGED <<screen, asks, ghosts>>
    BY <1>7 DEF Settled
  <2> QED  BY <1>3, <1>7, <2>1
<1> QED  BY <1>4, <1>5, <1>6, <1>7

(* Or is lost.                                                             *)
LEMMA LoseAnswerKeeps ==
    ASSUME LibSound, NEW c \in calls, LoseAnswer(c)
    PROVE  LibSound'
<1>1. /\ c.done # "sent" /\ calls' = calls \ {c} /\ UNCHANGED <<server, today>>
      /\ UNCHANGED server /\ UNCHANGED today
  BY DEF LoseAnswer
<1>2. /\ LibTyped /\ CallOK(c) /\ library' \subseteq Hands
      /\ today \in {FirstDay, FirstDay + 1} /\ outdated \subseteq Kinds /\ strayed \in BOOLEAN /\ turned \in BOOLEAN
      /\ (turned => strayed /\ today # FirstDay)
  BY <1>1 DEF LibSound, LibTyped, server
<1>3. CASE c.kind \in {"mark", "remove", "import"}
  <2>1. Bump(history) /\ strayed' = (strayed \/ c.kind = "remove") /\ UNCHANGED <<screen, turned>>
    BY <1>3 DEF LoseAnswer
  <2>2. UNCHANGED <<server, today, history, filter, load, results, summary, turned>>
    BY <1>1, <2>1 DEF screen
  <2>3. strayed' \in BOOLEAN /\ (strayed => strayed') /\ (c.kind = "remove" /\ c.done = "done" => strayed')
    <3>1. (strayed \/ c.kind = "remove") \in BOOLEAN
      OBVIOUS
    <3> QED  BY <2>1, <3>1, Zenon
  <2> QED  BY <1>1, <2>1, <2>2, <2>3, BumpKeeps
<1>4. CASE c.kind \notin {"mark", "remove", "import"}
  <2>1. outdated' = (IF c.kind = "play" THEN outdated ELSE Kinds) /\ UNCHANGED <<screen, asks, strayed, turned>>
    BY <1>4 DEF LoseAnswer
  <2>2. UNCHANGED <<history, filter, load, results, summary, asks>> /\ UNCHANGED strayed /\ UNCHANGED turned
    BY <2>1 DEF screen
  <2>3. (Pending => outdated' = Kinds \/ Pending') /\ (Removed => Removed')
    BY <1>1, <1>4, <2>1 DEF Pending, Removed, Removals
  <2>4. outdated \subseteq outdated' /\ outdated' \subseteq Kinds
    BY <1>2, <2>1
  <2> QED  BY <1>1, <1>2, <2>2, <2>3, <2>4, FrameKeeps
<1> QED  BY <1>3, <1>4

(* Another tab changes the Library, or midnight passes.                    *)
LEMMA ElsewhereKeeps ==
    ASSUME LibSound, Elsewhere \/ Midnight
    PROVE  LibSound'
<1>1. /\ LibTyped /\ library \subseteq Hands /\ FirstDay \in Nat
      /\ today \in {FirstDay, FirstDay + 1} /\ outdated \subseteq Kinds /\ strayed \in BOOLEAN /\ turned \in BOOLEAN
      /\ (turned => strayed /\ today # FirstDay)
  BY LibraryAssumption DEF LibSound, LibTyped
<1>2. CASE Elsewhere
  <2>1. /\ outdated' = Kinds /\ strayed' = TRUE /\ UNCHANGED <<screen, asks>> /\ UNCHANGED calls /\ UNCHANGED today
        /\ UNCHANGED turned
    BY <1>2 DEF Elsewhere
  <2>2. UNCHANGED <<history, filter, load, results, summary, asks>>
    BY <2>1 DEF screen
  <2>3. library' \subseteq library
    BY <1>2 DEF Elsewhere
  <2> QED  BY <1>1, <2>1, <2>2, <2>3, FrameKeeps
<1>3. CASE Midnight
  <2>1. /\ turned' = TRUE /\ strayed' = TRUE /\ today' = FirstDay + 1 /\ UNCHANGED server /\ UNCHANGED <<screen, asks>>
        /\ UNCHANGED calls /\ UNCHANGED outdated
    BY <1>3 DEF Midnight
  <2>2. UNCHANGED <<history, filter, load, results, summary, asks>>
    BY <2>1 DEF screen
  <2>3. library' \subseteq Hands /\ (Pending => Pending')
    BY <1>1, <2>1 DEF server, Pending
  <2>4. today' # FirstDay
    BY <1>1, <2>1
  <2> QED  BY <1>1, <2>1, <2>2, <2>3, <2>4, FrameKeeps
<1> QED  BY <1>2, <1>3

(* Ticking a Hand changes nothing of this.                                 *)
LEMMA SelectKeeps ==
    ASSUME LibSound, Select
    PROVE  LibSound'
<1>1. LibTyped /\ library \subseteq Hands /\ today \in {FirstDay, FirstDay + 1} /\ outdated \subseteq Kinds
      /\ strayed \in BOOLEAN /\ turned \in BOOLEAN /\ (turned => strayed /\ today # FirstDay)
  BY DEF LibSound, LibTyped
<1>2. UNCHANGED server /\ UNCHANGED <<history, filter, load, results, summary, asks>> /\ UNCHANGED calls
      /\ UNCHANGED today /\ UNCHANGED outdated /\ UNCHANGED strayed /\ UNCHANGED turned
  BY DEF Select, ghosts
<1>3. library' = library /\ (Pending => Pending') /\ (Removed => Removed')
  BY <1>2 DEF server, Pending, Removed, Removals
<1> QED  BY <1>1, <1>2, <1>3, FrameKeeps

(* J and K stay among the Hands being replayed.                            *)
LEMMA ReplayNextKeeps ==
    ASSUME LibSound, ReplayNext
    PROVE  LibSound'
<1>1. /\ ~OnLibrary /\ UNCHANGED server /\ UNCHANGED today /\ UNCHANGED filter /\ UNCHANGED load /\ UNCHANGED asks
      /\ UNCHANGED calls /\ UNCHANGED outdated /\ UNCHANGED strayed /\ UNCHANGED turned
  BY DEF ReplayNext, ghosts
<1>2. PICK hand : history' = Redirect(history, [Here EXCEPT !.hand = hand])
  BY DEF ReplayNext
<1>3. LibTyped /\ HistoryOK(history) /\ EntryOK(Here) /\ Here.view = "hand"
  BY <1>1 DEF LibSound, LibTyped, HistoryOK, Here, OnLibrary
<1>4. PICK e : e = [Here EXCEPT !.hand = hand]
  OBVIOUS
<1>5. e = [view |-> "hand", search |-> Here.search, hand |-> hand, replay |-> Here.replay, from |-> Here.from]
  BY <1>3, <1>4 DEF EntryOK
<1>6. EntryOK(e) /\ e.view = "hand"
  BY <1>3, <1>5 DEF EntryOK
<1>7. PICK h : h = Redirect(history, e)
  OBVIOUS
<1>8. HistoryOK(h) /\ h.now = e /\ history' = h
  BY <1>2, <1>3, <1>4, <1>6, <1>7, RedirectIsHistory
<1>9. ~OnLibrary'
  BY <1>6, <1>8 DEF OnLibrary
<1>10. LibTyped'
  BY <1>1, <1>3, <1>8, <1>9 DEF LibTyped, server
<1>11. Removals' = Removals /\ \A c : RemovalOK(c)' <=> RemovalOK(c)
  BY <1>1, SameRemovals
<1>12. RemovalsRight'
  BY <1>1, <1>11 DEF LibSound, RemovalsRight
<1> QED  BY <1>9, <1>10, <1>12 DEF LibSound

-----------------------------------------------------------------------------
(* Answers to reads.                                                       *)
LEMMA ReadKeeps ==
    ASSUME LibSound, NEW a \in asks, NEW b, asks' = (asks \ {a}) \cup {b},
           AskOK(b), b.kind = a.kind, b.filter = a.filter, b.sort = a.sort, b.page = a.page,
           b.kind = "list" /\ b.total # None => b.total = a.total \/ b.total = Total(b.filter),
           a.total # None => b.total = a.total,
           b.answer # None =>
               /\ b.kind = "list" => b.answer = Page(b.filter, b.sort, b.page, b.total)
               /\ b.kind \in {"results", "stats"} => b.answer.hands = Keeps(b.filter),
           UNCHANGED <<server, today, history, filter, load, results, summary, calls, outdated, strayed, turned>>
    PROVE  LibSound'
<1>1. /\ UNCHANGED server /\ UNCHANGED today /\ UNCHANGED history /\ UNCHANGED filter /\ UNCHANGED load
      /\ UNCHANGED results /\ UNCHANGED summary /\ UNCHANGED calls /\ UNCHANGED outdated /\ UNCHANGED strayed
      /\ UNCHANGED turned
  OBVIOUS
<1>2. /\ LibTyped /\ (OnLibrary => OnScreen) /\ (OnLibrary' <=> OnLibrary) /\ Here' = Here /\ (Loaded' <=> Loaded)
      /\ AskOK(a)
  BY <1>1 DEF LibSound, LibTyped, OnLibrary, Here, Loaded
<1>3. \A f : /\ Keeps(f)' = Keeps(f) /\ Total(f)' = Total(f)
             /\ \A sort, nth, total : Page(f, sort, nth, total)' = Page(f, sort, nth, total)
  BY <1>1, SameServer
<1>4. Removals' = Removals /\ (Removed' <=> Removed) /\ (\A c : RemovalOK(c)' <=> RemovalOK(c)) /\ (Pending' <=> Pending)
  BY <1>1, SameRemovals
<1>5. /\ \A k : Excused(k)' <=> Excused(k)
      /\ \A k : Asked(k)' <=> Asked(k)
      /\ Reading' <=> Reading
  BY <1>1, <1>4 DEF Excused, Asked, Reading
<1>6. LibTyped'
  BY <1>1, <1>2 DEF LibTyped, server
<1>7. RemovalsRight'
  BY <1>1, <1>4 DEF LibSound, RemovalsRight
<1>8. ASSUME OnLibrary PROVE OnScreen'
  <2>1. OnScreen
    BY <1>2, <1>8
  <2>2. \A r \in asks : AskRight(r) => AskRight(r)'
    BY <1>1, <1>2, <1>3, <1>5 DEF AskRight
  <2>3. b.kind \in Kinds => AskRight(b)'
    <3>1. SUFFICES ASSUME b.kind \in Kinds PROVE AskRight(b)'
      OBVIOUS
    <3>2. AskRight(a)
      BY <2>1, <3>1 DEF OnScreen, AsksRight
    <3>3. b.filter = filter /\ (b.kind = "list" => b.sort = Here.search.sort /\ b.page = Here.search.page)
      BY <3>2 DEF AskRight
    <3>4. b.kind = "list" /\ ~Excused("list") /\ b.total # None => b.total = Total(filter)
      BY <3>2, <3>3 DEF AskRight
    <3>5. b.kind = "list" /\ b.answer # None => b.total # None
      BY DEF AskOK
    <3> QED  BY <1>1, <1>2, <1>3, <1>5, <3>3, <3>4, <3>5 DEF AskRight
  <2>4. AsksRight'
    BY <2>1, <2>2, <2>3 DEF OnScreen, AsksRight
  <2>5. AddressRight' /\ ListRight' /\ ResultsRight' /\ StatsRight'
    BY <1>1, <1>2, <1>3, <1>5, <2>1 DEF OnScreen, AddressRight, ListRight, ResultsRight, StatsRight
  <2>6. PageRight'
    BY <1>1, <1>2, <1>3, <1>4, <2>1 DEF OnScreen, PageRight
  <2>7. TotalsRight'
    <3>1. CASE strayed \/ Removed
      BY <1>1, <1>4, <3>1 DEF TotalsRight
    <3>2. CASE ~(strayed \/ Removed)
      <4>1. /\ Loaded /\ ~Reading => load.total <= Total(filter)
            /\ \A r \in asks : r.kind = "list" /\ r.total # None => r.total <= Total(filter)
        BY <2>1, <3>2 DEF OnScreen, TotalsRight
      <4>2. ASSUME b.kind = "list", b.total # None PROVE b.total <= Total(filter)
        <5>1. AskRight(a) /\ Total(filter) \in Nat
          BY <1>2, <2>1, <4>2, TotalIsNat DEF OnScreen, AsksRight, Kinds, LibTyped
        <5>2. a.filter = filter
          BY <5>1 DEF AskRight
        <5>3. CASE b.total = a.total
          BY <4>1, <4>2, <5>3
        <5>4. CASE b.total = Total(b.filter)
          BY <5>1, <5>2, <5>4
        <5> QED  BY <4>2, <5>3, <5>4
      <4>3. \A r \in asks' : r.kind = "list" /\ r.total # None => r.total <= Total(filter)
        BY <4>1, <4>2
      <4>4. Total(filter)' = Total(filter)
        BY <1>1, <1>3
      <4> QED  BY <1>1, <1>2, <1>5, <4>1, <4>3, <4>4 DEF TotalsRight
    <3> QED  BY <3>1, <3>2
  <2> QED  BY <2>4, <2>5, <2>6, <2>7 DEF OnScreen
<1> QED  BY <1>2, <1>6, <1>7, <1>8 DEF LibSound

(* The server counts.                                                      *)
LEMMA ReadTotalKeeps ==
    ASSUME LibSound, NEW a \in asks, ReadTotal(a)
    PROVE  LibSound'
<1>1. PICK b : b = [a EXCEPT !.total = Total(a.filter)]
  OBVIOUS
<1>2. /\ asks' = (asks \ {a}) \cup {b} /\ a.kind = "list" /\ a.total = None
      /\ UNCHANGED <<server, today, history, filter, load, results, summary, calls, outdated, strayed, turned>>
  BY <1>1 DEF ReadTotal, screen, ghosts
<1>3. AskOK(a) /\ library \subseteq Hands
  BY DEF LibSound, LibTyped
<1>4. PICK total : total = Total(a.filter)
  OBVIOUS
<1>5. b = [kind |-> a.kind, filter |-> a.filter, sort |-> a.sort, page |-> a.page, zoom |-> a.zoom,
           total |-> total, answer |-> a.answer]
  BY <1>1, <1>3, <1>4 DEF AskOK
<1>6. total \in Nat
  BY <1>3, <1>4, TotalIsNat
<1>7. a.answer = None
  BY <1>2, <1>3 DEF AskOK
<1>8. AskOK(b) /\ b.kind = a.kind /\ b.filter = a.filter /\ b.sort = a.sort /\ b.page = a.page /\ b.total = total
      /\ b.answer = None
  BY <1>2, <1>3, <1>5, <1>6, <1>7 DEF AskOK
<1> QED  BY <1>2, <1>4, <1>8, ReadKeeps

(* The server answers a read.                                              *)
LEMMA ReadAnswerKeeps ==
    ASSUME LibSound, NEW a \in asks, ReadAnswer(a)
    PROVE  LibSound'
<1>1. PICK answer : answer =
           CASE a.kind = "list" -> Page(a.filter, a.sort, a.page, a.total)
             [] a.kind = "ids" -> [ids |-> InOrder(Keeps(a.filter), a.sort)]
             [] a.kind = "results" -> [of |-> a.filter, hands |-> Keeps(a.filter),
                    zoom |-> IF a.zoom = None THEN None
                             ELSE ZoomOf(a.zoom.from, a.zoom.to, Cardinality(Keeps(a.filter)))]
             [] OTHER -> [of |-> a.filter, hands |-> Keeps(a.filter)]
  OBVIOUS
<1>2. PICK b : b = [a EXCEPT !.answer = answer]
  OBVIOUS
<1>3. /\ asks' = (asks \ {a}) \cup {b} /\ (a.kind = "list" => a.total # None)
      /\ UNCHANGED <<server, today, history, filter, load, results, summary, calls, outdated, strayed, turned>>
  BY <1>1, <1>2 DEF ReadAnswer, screen, ghosts
<1>4. AskOK(a)
  BY DEF LibSound, LibTyped
<1>5. b = [kind |-> a.kind, filter |-> a.filter, sort |-> a.sort, page |-> a.page, zoom |-> a.zoom,
           total |-> a.total, answer |-> answer]
  BY <1>2, <1>4 DEF AskOK
<1>6. /\ b.kind = a.kind /\ b.filter = a.filter /\ b.sort = a.sort /\ b.page = a.page /\ b.total = a.total
      /\ b.answer = answer
  BY <1>5
<1>7. a.kind = "list" => answer = Page(a.filter, a.sort, a.page, a.total) /\ answer.total = a.total
  <2>1. a.kind = "list" => answer = Page(a.filter, a.sort, a.page, a.total)
    BY <1>1
  <2>2. \A f, sort, nth, total : Page(f, sort, nth, total).total = total
    BY DEF Page
  <2> QED  BY <2>1, <2>2
<1>8. a.kind \in {"results", "stats"} => answer.of = a.filter /\ answer.hands = Keeps(a.filter)
  <2>1. CASE a.kind = "results"
    <3>1. PICK zoom : answer = [of |-> a.filter, hands |-> Keeps(a.filter), zoom |-> zoom]
      BY <1>1, <2>1
    <3> QED  BY <3>1
  <2>2. CASE a.kind = "stats"
    <3>1. answer = [of |-> a.filter, hands |-> Keeps(a.filter)]
      BY <1>1, <2>2
    <3> QED  BY <3>1
  <2> QED  BY <2>1, <2>2
<1>9. AskOK(b)
  BY <1>3, <1>4, <1>5, <1>6, <1>7, <1>8 DEF AskOK
<1> QED  BY <1>3, <1>6, <1>7, <1>8, <1>9, ReadKeeps

(* The answer to a read is shown, or it failed.                            *)
LEMMA TakeKeeps ==
    ASSUME LibSound, NEW a \in asks, NEW answer, Take(a, answer),
           \/ a.answer # None /\ answer = a.answer
           \/ answer = Failed
    PROVE  LibSound'
<1>1. /\ asks' = asks \ {a}
      /\ load' = (IF a.kind = "list" THEN answer ELSE load)
      /\ results' = (IF a.kind = "results" THEN IF answer = Failed THEN None ELSE answer ELSE results)
      /\ summary' = (IF a.kind = "stats" THEN answer ELSE summary)
      /\ UNCHANGED server /\ UNCHANGED today /\ UNCHANGED history /\ UNCHANGED filter
      /\ UNCHANGED calls /\ UNCHANGED outdated /\ UNCHANGED strayed /\ UNCHANGED turned
  BY DEF Take, ghosts
<1>2. /\ LibTyped /\ (OnLibrary => OnScreen) /\ (OnLibrary' <=> OnLibrary) /\ Here' = Here /\ AskOK(a)
  BY <1>1 DEF LibSound, LibTyped, OnLibrary, Here
<1>3. \A f : /\ Keeps(f)' = Keeps(f) /\ Total(f)' = Total(f)
             /\ \A sort, nth, total : Page(f, sort, nth, total)' = Page(f, sort, nth, total)
  BY <1>1, SameServer
<1>4. Removals' = Removals /\ (Removed' <=> Removed) /\ (\A c : RemovalOK(c)' <=> RemovalOK(c)) /\ (Pending' <=> Pending)
  BY <1>1, SameRemovals
<1>5. /\ \A k : Excused(k)' <=> Excused(k)
      /\ \A k : k # a.kind => (Asked(k)' <=> Asked(k))
      /\ \A k : Asked(k)' => Asked(k)
  BY <1>1, <1>4 DEF Excused, Asked
<1>6. Loaded' => load'.total \in Nat
  <2>1. SUFFICES ASSUME Loaded' PROVE load'.total \in Nat
    OBVIOUS
  <2>2. OnLibrary /\ load' # None /\ load' # Failed
    BY <1>2, <2>1 DEF Loaded
  <2>3. CASE a.kind = "list"
    <3>1. load' = a.answer /\ a.answer # None
      BY <1>1, <2>2, <2>3
    <3> QED  BY <1>2, <2>3, <3>1 DEF AskOK
  <2>4. CASE a.kind # "list"
    BY <1>1, <1>2, <2>2, <2>4 DEF LibTyped, Loaded
  <2> QED  BY <2>3, <2>4
<1>7. LibTyped'
  BY <1>1, <1>2, <1>6 DEF LibTyped, server
<1>8. RemovalsRight'
  BY <1>1, <1>4 DEF LibSound, RemovalsRight
<1>9. ASSUME OnLibrary PROVE OnScreen'
  <2>1. OnScreen /\ (a.kind \in Kinds => AskRight(a))
    BY <1>2, <1>9 DEF OnScreen, AsksRight
  <2>2. \A r \in asks : AskRight(r) => AskRight(r)'
    BY <1>1, <1>2, <1>3, <1>5 DEF AskRight
  <2>3. AsksRight' /\ AddressRight'
    BY <1>1, <1>2, <2>1, <2>2 DEF OnScreen, AsksRight, AddressRight
  <2>4. ListRight'
    <3>1. CASE a.kind # "list"
      BY <1>1, <1>2, <1>3, <1>5, <2>1, <3>1 DEF OnScreen, ListRight
    <3>2. CASE a.kind = "list" /\ answer = Failed
      BY <1>1, <3>2 DEF ListRight
    <3>3. CASE a.kind = "list" /\ a.answer # None /\ answer = a.answer
      <4>1. a.total # None
        BY <1>2, <3>3 DEF AskOK
      <4>2. Excused("list") \/ load' = Page(filter, Here.search.sort, Here.search.page, Total(filter))
        <5>1. a.kind \in Kinds
          BY <3>3 DEF Kinds
        <5>2. Page(filter, a.sort, a.page, a.total) = Page(filter, Here.search.sort, Here.search.page, a.total)
          BY <2>1, <3>3, <5>1 DEF AskRight
        <5> QED  BY <1>1, <2>1, <3>3, <4>1, <5>1, <5>2 DEF AskRight
      <4> QED  BY <1>1, <1>2, <1>3, <1>5, <4>2 DEF ListRight
    <3> QED  BY <3>1, <3>2, <3>3
  <2>5. ResultsRight'
    <3>1. CASE a.kind # "results"
      BY <1>1, <1>2, <1>3, <1>5, <2>1, <3>1 DEF OnScreen, ResultsRight
    <3>2. CASE a.kind = "results"
      <4>1. SUFFICES ASSUME results' # None PROVE ResultsRight'
        BY DEF ResultsRight
      <4>2. results' = a.answer /\ a.answer # None
        BY <1>1, <3>2, <4>1
      <4>3. a.answer.of = a.filter /\ a.filter = filter /\ (~Excused("results") => a.answer.hands = Keeps(filter))
        BY <1>2, <2>1, <3>2, <4>2 DEF AskOK, AskRight, Kinds
      <4> QED  BY <1>1, <1>2, <1>3, <1>5, <4>2, <4>3 DEF ResultsRight
    <3> QED  BY <3>1, <3>2
  <2>6. StatsRight'
    <3>1. CASE a.kind # "stats"
      BY <1>1, <1>2, <1>3, <1>5, <2>1, <3>1 DEF OnScreen, StatsRight
    <3>2. CASE a.kind = "stats" /\ answer = Failed
      BY <1>1, <3>2 DEF StatsRight
    <3>3. CASE a.kind = "stats" /\ a.answer # None /\ answer = a.answer
      <4>1. summary' = a.answer
        BY <1>1, <3>3
      <4>2. a.answer.of = a.filter /\ a.filter = filter /\ (~Excused("stats") => a.answer.hands = Keeps(filter))
        BY <1>2, <2>1, <3>3 DEF AskOK, AskRight, Kinds
      <4> QED  BY <1>1, <1>2, <1>3, <1>5, <4>1, <4>2 DEF StatsRight
    <3> QED  BY <3>1, <3>2, <3>3
  <2>7. PageRight'
    BY <1>1, <1>2, <1>3, <1>4, <2>1 DEF OnScreen, PageRight
  <2>8. TotalsRight'
    <3>1. CASE strayed \/ Removed
      BY <1>1, <1>4, <3>1 DEF TotalsRight
    <3>2. CASE ~(strayed \/ Removed)
      <4>1. /\ Loaded /\ ~Reading => load.total <= Total(filter)
            /\ \A r \in asks : r.kind = "list" /\ r.total # None => r.total <= Total(filter)
        BY <2>1, <3>2 DEF OnScreen, TotalsRight
      <4>2. Loaded' /\ ~Reading' => load'.total <= Total(filter)
        <5>1. SUFFICES ASSUME Loaded', ~Reading' PROVE load'.total <= Total(filter)
          OBVIOUS
        <5>2. load' # None /\ load' # Failed
          BY <5>1 DEF Loaded
        <5>3. CASE a.kind = "list"
          <6>1. load' = a.answer /\ a.answer # None
            BY <1>1, <5>2, <5>3
          <6>2. a.total # None /\ a.answer.total = a.total
            BY <1>2, <5>3, <6>1 DEF AskOK
          <6> QED  BY <4>1, <5>3, <6>1, <6>2
        <5>4. CASE a.kind # "list"
          <6>1. load' = load /\ Loaded
            BY <1>1, <1>2, <5>1, <5>4 DEF Loaded
          <6>2. ~Reading
            BY <1>1, <5>1, <5>4 DEF Reading
          <6> QED  BY <4>1, <6>1, <6>2
        <5> QED  BY <5>3, <5>4
      <4>3. Total(filter)' = Total(filter)
        BY <1>1, <1>3
      <4> QED  BY <1>1, <4>1, <4>2, <4>3 DEF TotalsRight
    <3> QED  BY <3>1, <3>2
  <2> QED  BY <2>3, <2>4, <2>5, <2>6, <2>7, <2>8 DEF OnScreen
<1> QED  BY <1>2, <1>7, <1>8, <1>9 DEF LibSound

-----------------------------------------------------------------------------
(* The changes, as they are sent.                                          *)
LEMMA CallIsOK ==
    ASSUME LibTyped, OnLibrary, NEW kind,
           kind \in {"play", "mark", "create", "rename", "delete", "tag", "remove", "import"}
    PROVE  /\ CallOK(Call(kind)) /\ Call(kind).kind = kind /\ Call(kind).at = Here /\ Call(kind).filter = filter
           /\ Call(kind).done = "sent" /\ (Loaded => Call(kind).total = load.total)
<1>1. PICK c, at, total : /\ c = Call(kind) /\ at = Here /\ total = (IF Loaded THEN load.total ELSE 0)
  OBVIOUS
<1>2. c = [kind |-> kind, at |-> at, filter |-> filter, hands |-> {}, tag |-> None, name |-> None,
           on |-> TRUE, total |-> total, done |-> "sent", ids |-> <<>>]
  BY <1>1 DEF Call
<1>3. /\ c.kind = kind /\ c.at = at /\ c.filter = filter /\ c.hands = {} /\ c.tag = None /\ c.name = None
      /\ c.on = TRUE /\ c.total = total /\ c.done = "sent" /\ c.ids = <<>>
  BY <1>2
<1>4. total \in Nat /\ EntryOK(at) /\ at.view # "hand"
  BY <1>1 DEF LibTyped, HistoryOK, Here, OnLibrary
<1>5. CallOK(c)
  BY <1>2, <1>3, <1>4 DEF CallOK
<1> QED  BY <1>1, <1>3, <1>5

(* Any of them, with whatever it carries.                                  *)
LEMMA SentKeeps ==
    ASSUME LibSound, OnLibrary, NEW call, Send(call),
           NEW kind, kind \in {"play", "mark", "create", "rename", "delete", "tag", "remove", "import"},
           kind = "import" => call.hands \subseteq Hands, kind = "remove" => Loaded,
           NEW c, c = Call(kind),
           call = [kind |-> c.kind, at |-> c.at, filter |-> c.filter, hands |-> call.hands, tag |-> call.tag,
                   name |-> call.name, on |-> call.on, total |-> c.total, done |-> c.done, ids |-> c.ids]
    PROVE  LibSound'
<1>1. LibTyped
  BY DEF LibSound
<1>2. /\ CallOK(c) /\ c.kind = kind /\ c.at = Here /\ c.filter = filter /\ c.done = "sent"
      /\ (Loaded => c.total = load.total)
  BY <1>1, CallIsOK
<1>3. /\ call.kind = c.kind /\ call.at = c.at /\ call.filter = c.filter
      /\ call.total = c.total /\ call.done = c.done /\ call.ids = c.ids
  OBVIOUS
<1>4. CallOK(call)
  BY <1>2, <1>3 DEF CallOK
<1>5. /\ calls' = calls \cup {call}
      /\ strayed' = (strayed \/ (call.kind = "remove" /\ (Reading \/ Removing)))
      /\ UNCHANGED <<server, today, history, filter, load, results, summary, asks, outdated, turned>>
  BY DEF Send, screen
<1> QED  BY <1>2, <1>3, <1>4, <1>5, SendKeeps

(* Each of them.                                                           *)
LEMMA SendsKeep ==
    ASSUME LibSound,
           \/ PlayFiltered \/ SendMark \/ SendCreateTag \/ SendRenameTag \/ SendDeleteTag \/ SendSetTag
           \/ SendRemove \/ SendImport
    PROVE  LibSound'
<1>1. LibTyped /\ (Loaded => OnLibrary)
  BY DEF Loaded, LibSound
<1>2. \A kind \in {"play", "mark", "create", "rename", "delete", "tag", "remove", "import"} :
         OnLibrary => CallOK(Call(kind))
  BY <1>1, CallIsOK
<1>3. CASE PlayFiltered
  <2>1. PICK c : c = Call("play")
    OBVIOUS
  <2>2. PICK call : Loaded /\ call = c /\ Send(call)
    BY <1>3, <2>1 DEF PlayFiltered
  <2>3. call = [kind |-> c.kind, at |-> c.at, filter |-> c.filter, hands |-> c.hands, tag |-> c.tag,
               name |-> c.name, on |-> c.on, total |-> c.total, done |-> c.done, ids |-> c.ids]
    <3>1. CallOK(c)
      BY <1>1, <1>2, <2>1, <2>2
    <3> QED  BY <2>2, <3>1 DEF CallOK
  <2>4. call = [kind |-> c.kind, at |-> c.at, filter |-> c.filter, hands |-> call.hands, tag |-> call.tag,
               name |-> call.name, on |-> call.on, total |-> c.total, done |-> c.done, ids |-> c.ids]
    BY <2>3
  <2> QED  BY <1>1, <2>1, <2>2, <2>4, SentKeeps
<1>4. CASE SendMark
  <2>1. PICK c : c = Call("mark")
    OBVIOUS
  <2>2. PICK hands, on, call : Loaded /\ call = [c EXCEPT !.hands = hands, !.on = on] /\ Send(call)
    BY <1>4, <2>1 DEF SendMark
  <2>3. call = [kind |-> c.kind, at |-> c.at, filter |-> c.filter, hands |-> hands, tag |-> c.tag,
               name |-> c.name, on |-> on, total |-> c.total, done |-> c.done, ids |-> c.ids]
    <3>1. CallOK(c)
      BY <1>1, <1>2, <2>1, <2>2
    <3> QED  BY <2>2, <3>1 DEF CallOK
  <2>4. call = [kind |-> c.kind, at |-> c.at, filter |-> c.filter, hands |-> call.hands, tag |-> call.tag,
               name |-> call.name, on |-> call.on, total |-> c.total, done |-> c.done, ids |-> c.ids]
    BY <2>3
  <2> QED  BY <1>1, <2>1, <2>2, <2>4, SentKeeps
<1>5. CASE SendCreateTag
  <2>1. PICK c : c = Call("create")
    OBVIOUS
  <2>2. PICK name, call : Loaded /\ call = [c EXCEPT !.name = name] /\ Send(call)
    BY <1>5, <2>1 DEF SendCreateTag
  <2>3. call = [kind |-> c.kind, at |-> c.at, filter |-> c.filter, hands |-> c.hands, tag |-> c.tag,
               name |-> name, on |-> c.on, total |-> c.total, done |-> c.done, ids |-> c.ids]
    <3>1. CallOK(c)
      BY <1>1, <1>2, <2>1, <2>2
    <3> QED  BY <2>2, <3>1 DEF CallOK
  <2>4. call = [kind |-> c.kind, at |-> c.at, filter |-> c.filter, hands |-> call.hands, tag |-> call.tag,
               name |-> call.name, on |-> call.on, total |-> c.total, done |-> c.done, ids |-> c.ids]
    BY <2>3
  <2> QED  BY <1>1, <2>1, <2>2, <2>4, SentKeeps
<1>6. CASE SendRenameTag
  <2>1. PICK c : c = Call("rename")
    OBVIOUS
  <2>2. PICK tag, name, call : Loaded /\ call = [c EXCEPT !.tag = tag, !.name = name] /\ Send(call)
    BY <1>6, <2>1 DEF SendRenameTag
  <2>3. call = [kind |-> c.kind, at |-> c.at, filter |-> c.filter, hands |-> c.hands, tag |-> tag,
               name |-> name, on |-> c.on, total |-> c.total, done |-> c.done, ids |-> c.ids]
    <3>1. CallOK(c)
      BY <1>1, <1>2, <2>1, <2>2
    <3> QED  BY <2>2, <3>1 DEF CallOK
  <2>4. call = [kind |-> c.kind, at |-> c.at, filter |-> c.filter, hands |-> call.hands, tag |-> call.tag,
               name |-> call.name, on |-> call.on, total |-> c.total, done |-> c.done, ids |-> c.ids]
    BY <2>3
  <2> QED  BY <1>1, <2>1, <2>2, <2>4, SentKeeps
<1>7. CASE SendDeleteTag
  <2>1. PICK c : c = Call("delete")
    OBVIOUS
  <2>2. PICK tag, call : Loaded /\ call = [c EXCEPT !.tag = tag] /\ Send(call)
    BY <1>7, <2>1 DEF SendDeleteTag
  <2>3. call = [kind |-> c.kind, at |-> c.at, filter |-> c.filter, hands |-> c.hands, tag |-> tag,
               name |-> c.name, on |-> c.on, total |-> c.total, done |-> c.done, ids |-> c.ids]
    <3>1. CallOK(c)
      BY <1>1, <1>2, <2>1, <2>2
    <3> QED  BY <2>2, <3>1 DEF CallOK
  <2>4. call = [kind |-> c.kind, at |-> c.at, filter |-> c.filter, hands |-> call.hands, tag |-> call.tag,
               name |-> call.name, on |-> call.on, total |-> c.total, done |-> c.done, ids |-> c.ids]
    BY <2>3
  <2> QED  BY <1>1, <2>1, <2>2, <2>4, SentKeeps
<1>8. CASE SendSetTag
  <2>1. PICK c : c = Call("tag")
    OBVIOUS
  <2>2. PICK tag, hands, on, call : Loaded /\ call = [c EXCEPT !.tag = tag, !.hands = hands, !.on = on] /\ Send(call)
    BY <1>8, <2>1 DEF SendSetTag
  <2>3. call = [kind |-> c.kind, at |-> c.at, filter |-> c.filter, hands |-> hands, tag |-> tag,
               name |-> c.name, on |-> on, total |-> c.total, done |-> c.done, ids |-> c.ids]
    <3>1. CallOK(c)
      BY <1>1, <1>2, <2>1, <2>2
    <3> QED  BY <2>2, <3>1 DEF CallOK
  <2>4. call = [kind |-> c.kind, at |-> c.at, filter |-> c.filter, hands |-> call.hands, tag |-> call.tag,
               name |-> call.name, on |-> call.on, total |-> c.total, done |-> c.done, ids |-> c.ids]
    BY <2>3
  <2> QED  BY <1>1, <2>1, <2>2, <2>4, SentKeeps
<1>9. CASE SendRemove
  <2>1. PICK c : c = Call("remove")
    OBVIOUS
  <2>2. PICK hands, call : Loaded /\ call = [c EXCEPT !.hands = hands] /\ Send(call)
    BY <1>9, <2>1 DEF SendRemove
  <2>3. call = [kind |-> c.kind, at |-> c.at, filter |-> c.filter, hands |-> hands, tag |-> c.tag,
               name |-> c.name, on |-> c.on, total |-> c.total, done |-> c.done, ids |-> c.ids]
    <3>1. CallOK(c)
      BY <1>1, <1>2, <2>1, <2>2
    <3> QED  BY <2>2, <3>1 DEF CallOK
  <2>4. call = [kind |-> c.kind, at |-> c.at, filter |-> c.filter, hands |-> call.hands, tag |-> call.tag,
               name |-> call.name, on |-> call.on, total |-> c.total, done |-> c.done, ids |-> c.ids]
    BY <2>3
  <2> QED  BY <1>1, <2>1, <2>2, <2>4, SentKeeps
<1>10. CASE SendImport
  <2>1. PICK c : c = Call("import")
    OBVIOUS
  <2>2. PICK h \in Hands : OnLibrary /\ Send([c EXCEPT !.hands = {h}])
    BY <1>10, <2>1 DEF SendImport
  <2>3. PICK hands, call : hands = {h} /\ call = [c EXCEPT !.hands = hands]
    OBVIOUS
  <2>4. OnLibrary /\ Send(call) /\ hands \subseteq Hands
    BY <2>2, <2>3
  <2>5. call = [kind |-> c.kind, at |-> c.at, filter |-> c.filter, hands |-> hands, tag |-> c.tag,
               name |-> c.name, on |-> c.on, total |-> c.total, done |-> c.done, ids |-> c.ids]
    <3>1. CallOK(c)
      BY <1>1, <1>2, <2>1, <2>4
    <3> QED  BY <2>3, <3>1 DEF CallOK
  <2>6. call = [kind |-> c.kind, at |-> c.at, filter |-> c.filter, hands |-> call.hands, tag |-> call.tag,
               name |-> call.name, on |-> call.on, total |-> c.total, done |-> c.done, ids |-> c.ids]
        /\ call.hands = hands
    BY <2>5, <2>3
  <2> QED  BY <1>1, <2>1, <2>4, <2>6, SentKeeps
<1> QED  BY <1>3, <1>4, <1>5, <1>6, <1>7, <1>8, <1>9, <1>10

-----------------------------------------------------------------------------
(* The moves of the person.                                                *)
LEMMA MoveKeeps ==
    ASSUME LibSound, NEW h, HistoryOK(h), Arrive(h), UNCHANGED <<server, today, calls>>
    PROVE  LibSound'
<1>1. UNCHANGED <<server, today>> /\ calls' = calls
  OBVIOUS
<1> QED  BY <1>1, ArriveKeeps

(* Each of them leads to an entry.                                         *)
LEMMA MovesKeep ==
    ASSUME LibSound,
           \/ ChangeFilter \/ ChangeSort \/ GoToPage \/ ShowView \/ OpenStat \/ Zoom \/ LeaveZoom
           \/ OpenHand \/ PlaySelected \/ Back
    PROVE  LibSound'
<1>1. LibTyped /\ HistoryOK(history) /\ EntryOK(Here) /\ SearchOK(Here.search) /\ 1 \in Nat \ {0}
  BY DEF LibSound, LibTyped, HistoryOK, EntryOK, Here
<1>2. CASE ChangeFilter
  <2>1. PICK next : Arrive(Redirect(history, ChangeFilterFrom(Here, next)))
    BY <1>2 DEF ChangeFilter
  <2>2. PICK e, h : e = ChangeFilterFrom(Here, next) /\ h = Redirect(history, e)
    OBVIOUS
  <2>3. Arrive(h) /\ HistoryOK(h)
    BY <1>1, <2>1, <2>2, ChangesAreEntries, RedirectIsHistory
  <2>4. UNCHANGED <<server, today, calls>>
    BY <1>2 DEF ChangeFilter
  <2> QED  BY <2>3, <2>4, MoveKeeps
<1>3. CASE ChangeSort
  <2>1. PICK by : Arrive(Redirect(history, LibraryAt("list", [Here.search EXCEPT !.sort = NextSort(@, by), !.page = 1])))
    BY <1>3 DEF ChangeSort
  <2>2. PICK s, e, h : /\ s = [Here.search EXCEPT !.sort = NextSort(@, by), !.page = 1]
                       /\ e = LibraryAt("list", s) /\ h = Redirect(history, e)
    OBVIOUS
  <2>3. SearchOK(s)
    BY <1>1, <2>2, SearchSorted
  <2>4. EntryOK(e)
    BY <2>2, <2>3, LibraryAtIsEntry
  <2>5. Arrive(h) /\ HistoryOK(h)
    BY <1>1, <2>1, <2>2, <2>4, RedirectIsHistory
  <2>6. UNCHANGED <<server, today, calls>>
    BY <1>3 DEF ChangeSort
  <2> QED  BY <2>5, <2>6, MoveKeeps
<1>4. CASE GoToPage
  <2>1. PICK n \in 1..Pages(load.total) : Arrive(Redirect(history, LibraryAt("list", [Here.search EXCEPT !.page = n])))
    BY <1>4 DEF GoToPage
  <2>2. load.total \in Int
    BY <1>1, <1>4 DEF GoToPage, Loaded, LibTyped
  <2>3. Pages(load.total) \in Nat
    BY <2>2, PagesGrow
  <2>4. n \in Nat \ {0}
    BY <2>3
  <2>5. PICK s, e, h : /\ s = [Here.search EXCEPT !.page = n]
                       /\ e = LibraryAt("list", s) /\ h = Redirect(history, e)
    OBVIOUS
  <2>6. SearchOK(s)
    BY <1>1, <2>4, <2>5, SearchAtPage
  <2>7. EntryOK(e)
    BY <2>5, <2>6, LibraryAtIsEntry
  <2>8. Arrive(h) /\ HistoryOK(h)
    BY <1>1, <2>1, <2>5, <2>7, RedirectIsHistory
  <2>9. UNCHANGED <<server, today, calls>>
    BY <1>4 DEF GoToPage
  <2> QED  BY <2>8, <2>9, MoveKeeps
<1>5. CASE ShowView
  <2>1. PICK view : Arrive(Navigate(history, LibraryAt(view, Here.search)))
    BY <1>5 DEF ShowView
  <2>2. PICK e, h : e = LibraryAt(view, Here.search) /\ h = Navigate(history, e)
    OBVIOUS
  <2>3. EntryOK(e)
    BY <1>1, <2>2, LibraryAtIsEntry
  <2>4. Arrive(h) /\ HistoryOK(h)
    BY <1>1, <2>1, <2>2, <2>3, NavigateIsHistory
  <2>5. UNCHANGED <<server, today, calls>>
    BY <1>5 DEF ShowView
  <2> QED  BY <2>4, <2>5, MoveKeeps
<1>6. CASE OpenStat
  <2>1. PICK next : Arrive(Navigate(history, [ChangeFilterFrom(Here, next) EXCEPT !.view = "list"]))
    BY <1>6 DEF OpenStat
  <2>2. PICK d, e, h : d = ChangeFilterFrom(Here, next) /\ e = [d EXCEPT !.view = "list"] /\ h = Navigate(history, e)
    OBVIOUS
  <2>3. EntryOK(d)
    BY <2>2, ChangesAreEntries
  <2>4. e = [view |-> "list", search |-> d.search, hand |-> d.hand, replay |-> d.replay, from |-> d.from]
    BY <2>2, <2>3 DEF EntryOK
  <2>5. EntryOK(e)
    BY <2>3, <2>4 DEF EntryOK
  <2>6. Arrive(h) /\ HistoryOK(h)
    BY <1>1, <2>1, <2>2, <2>5, NavigateIsHistory
  <2>7. UNCHANGED <<server, today, calls>>
    BY <1>6 DEF OpenStat
  <2> QED  BY <2>6, <2>7, MoveKeeps
<1>7. CASE Zoom \/ LeaveZoom
  <2>1. PICK zoom : ZoomTo(zoom)
    BY <1>7 DEF Zoom, LeaveZoom
  <2>2. Arrive(Redirect(history, LibraryAt("graph", [Here.search EXCEPT !.zoom = zoom])))
    BY <2>1 DEF ZoomTo
  <2>3. PICK s, e, h : /\ s = [Here.search EXCEPT !.zoom = zoom]
                       /\ e = LibraryAt("graph", s) /\ h = Redirect(history, e)
    OBVIOUS
  <2>4. SearchOK(s)
    BY <1>1, <2>3, SearchZoomed
  <2>5. EntryOK(e)
    BY <2>3, <2>4, LibraryAtIsEntry
  <2>6. Arrive(h) /\ HistoryOK(h)
    BY <1>1, <2>2, <2>3, <2>5, RedirectIsHistory
  <2>7. UNCHANGED <<server, today, calls>>
    BY <2>1 DEF ZoomTo
  <2> QED  BY <2>6, <2>7, MoveKeeps
<1>8. CASE OpenHand \/ PlaySelected
  <2>1. PICK hand, replay : Open(hand, replay, Here.search)
    BY <1>8 DEF OpenHand, PlaySelected
  <2>2. Arrive(Navigate(history, HandEntry(hand, replay, Here.search, Here.search)))
    BY <2>1 DEF Open
  <2>3. PICK s, e, h : /\ s = Here.search /\ e = HandEntry(hand, replay, s, s) /\ h = Navigate(history, e)
    OBVIOUS
  <2>4. EntryOK(e)
    BY <1>1, <2>3, HandIsEntry
  <2>5. Arrive(h) /\ HistoryOK(h)
    BY <1>1, <2>2, <2>3, <2>4, NavigateIsHistory
  <2>6. UNCHANGED <<server, today, calls>>
    BY <1>8 DEF OpenHand, PlaySelected
  <2> QED  BY <2>5, <2>6, MoveKeeps
<1>9. CASE Back
  <2>1. PICK h : h = GoBack(history)
    OBVIOUS
  <2>2. Arrive(h) /\ CanGoBack(history) /\ UNCHANGED <<server, today, calls>>
    BY <1>9, <2>1 DEF Back
  <2>3. HistoryOK(h)
    BY <1>1, <2>1, <2>2, GoBackIsHistory
  <2> QED  BY <2>2, <2>3, MoveKeeps
<1> QED  BY <1>2, <1>3, <1>4, <1>5, <1>6, <1>7, <1>8, <1>9

(* Every step keeps the invariant.                                         *)
LEMMA LibNextKeeps ==
    ASSUME LibSound, LibraryNext
    PROVE  LibSound'
<1>1. ASSUME NEW c \in calls, Serve(c) \/ Settled(c) \/ LoseAnswer(c) PROVE LibSound'
  BY <1>1, ServeKeeps, SettledKeeps, LoseAnswerKeeps
<1>2. ASSUME NEW a \in asks, ReadTotal(a) \/ ReadAnswer(a) \/ TakeAnswer(a) \/ ReadFails(a) PROVE LibSound'
  <2>1. CASE TakeAnswer(a)
    BY <2>1, TakeKeeps DEF TakeAnswer
  <2>2. CASE ReadFails(a)
    BY <2>2, TakeKeeps DEF ReadFails
  <2> QED  BY <1>2, <2>1, <2>2, ReadTotalKeeps, ReadAnswerKeeps
<1>3. ASSUME \/ ChangeFilter \/ ChangeSort \/ GoToPage \/ ShowView \/ OpenStat \/ Zoom \/ LeaveZoom
             \/ OpenHand \/ PlaySelected \/ Back
      PROVE  LibSound'
  BY <1>3, MovesKeep
<1>4. ASSUME \/ PlayFiltered \/ SendMark \/ SendCreateTag \/ SendRenameTag \/ SendDeleteTag \/ SendSetTag
             \/ SendRemove \/ SendImport
      PROVE  LibSound'
  BY <1>4, SendsKeep
<1>5. ASSUME Select \/ ReplayNext \/ Elsewhere \/ Midnight PROVE LibSound'
  BY <1>5, SelectKeeps, ReplayNextKeeps, ElsewhereKeeps
<1> QED  BY <1>1, <1>2, <1>3, <1>4, <1>5 DEF LibraryNext

(* So does a step of something else.                                       *)
LEMMA LibStutters ==
    ASSUME LibSound, UNCHANGED libraryVars
    PROVE  LibSound'
<1>1. UNCHANGED server /\ UNCHANGED today /\ UNCHANGED <<history, filter, load, results, summary, asks>>
      /\ UNCHANGED calls /\ UNCHANGED outdated /\ UNCHANGED strayed /\ UNCHANGED turned
  BY DEF libraryVars, screen, ghosts
<1>2. LibTyped /\ library' = library /\ (Pending => Pending') /\ (Removed => Removed')
  BY <1>1 DEF LibSound, server, Pending, Removed, Removals
<1> QED  BY <1>1, <1>2, FrameKeeps DEF LibTyped

(* The page as it is first opened, at whichever page of the list.          *)
LEMMA LibInitIsSound == LibraryInit => LibSound
<1>1. SUFFICES ASSUME LibraryInit PROVE LibSound
  OBVIOUS
<1>2. PICK f \in {EmptyFilter, DefaultFilter(FirstDay)}, nth \in 1..2 :
           LET search == [LibrarySearch(f, today) EXCEPT !.page = nth] IN
           /\ history = OpenedAt(LibraryAt("list", search))
           /\ filter = f
           /\ asks = {Ask("list", search, f)}
           /\ strayed = (nth > Pages(Total(f)))
  BY <1>1 DEF LibraryInit
<1>3. /\ library \subseteq Hands /\ today = FirstDay /\ None # today
      /\ load = None /\ results = None /\ summary = None /\ calls = {} /\ outdated = {} /\ turned = FALSE
  BY <1>1, LibraryAssumption DEF LibraryInit
<1>4. FilterOK(f)
  <2>1. FilterOK(EmptyFilter)
    <3>1. PICK g : g = EmptyFilter
      OBVIOUS
    <3>2. g = [from |-> None, to |-> None, sites |-> {}, marked |-> FALSE, tags |-> {}, stat |-> FALSE]
      BY <3>1 DEF EmptyFilter
    <3>3. FilterOK(g)
      BY <3>2 DEF FilterOK
    <3> QED  BY <3>1, <3>3
  <2>2. FilterOK(DefaultFilter(FirstDay))
    BY <2>1, PeriodsAreFilters DEF DefaultFilter
  <2> QED  BY <2>1, <2>2
<1>5. PICK t, s, e, h : /\ t = LibrarySearch(f, today) /\ s = [t EXCEPT !.page = nth]
                        /\ e = LibraryAt("list", s) /\ h = OpenedAt(e)
  OBVIOUS
<1>6. SearchOK(t) /\ ReadFilter(t, today) = f
  BY <1>3, <1>4, <1>5, SearchIsRead
<1>7. SearchOK(s) /\ s.page = nth /\ ReadFilter(s, today) = f
  <2>1. nth \in Nat \ {0}
    OBVIOUS
  <2> QED  BY <1>5, <1>6, <2>1, SearchAtPage
<1>8. EntryOK(e) /\ e.search = s /\ e.view = "list"
  BY <1>5, <1>7, LibraryAtIsEntry
<1>9. HistoryOK(h) /\ h.now = e
  <2>1. h = [past |-> <<>>, now |-> e, ahead |-> <<>>]
    BY <1>5 DEF OpenedAt
  <2>2. h.past = <<>> /\ h.now = e
    BY <2>1
  <2>3. h.past \in Seq({e}) /\ Len(h.past) = 0
    BY <2>2
  <2>4. h.past = [i \in 1..Len(h.past) |-> h.past[i]]
    BY <2>3
  <2> QED  BY <1>8, <2>1, <2>2, <2>3, <2>4 DEF HistoryOK
<1>10. history = h /\ filter = f /\ asks = {Ask("list", s, f)} /\ strayed = (nth > Pages(Total(f)))
  BY <1>2, <1>5
<1>11. Here = e /\ ~(load \notin {None, Failed})
  BY <1>3, <1>9, <1>10 DEF Here
<1>12. PICK a : a = Ask("list", s, f)
  OBVIOUS
<1>13. /\ AskOK(a) /\ a.kind = "list" /\ a.filter = f /\ a.sort = s.sort /\ a.page = s.page
       /\ a.total = None /\ a.answer = None
  <2>1. "list" \in Kinds \cup {"ids"}
    BY DEF Kinds
  <2> QED  BY <1>12, <2>1, AskIsFresh
<1>14. LibTyped
  <2>1. (nth > Pages(Total(f))) \in BOOLEAN
    OBVIOUS
  <2>2. strayed \in BOOLEAN
    BY <1>10, <2>1, Zenon
  <2> QED  BY <1>3, <1>4, <1>9, <1>10, <1>11, <1>12, <1>13, <2>2 DEF LibTyped, Loaded
<1>15. OnScreen
  <2>1. AsksRight
    BY <1>7, <1>8, <1>10, <1>11, <1>12, <1>13 DEF AsksRight, AskRight
  <2>2. AddressRight
    BY <1>7, <1>8, <1>10, <1>11 DEF AddressRight
  <2>3. Asked("list") /\ ~Asked("stats") /\ Reading
    BY <1>10, <1>12, <1>13 DEF Asked, Reading
  <2>4. ListRight /\ ResultsRight /\ StatsRight
    BY <1>3, <1>8, <1>11, <2>3 DEF ListRight, ResultsRight, StatsRight
  <2>5. PageRight
    <3>1. SUFFICES ASSUME ~strayed PROVE nth <= Pages(Total(f))
      BY <1>7, <1>8, <1>10, <1>11 DEF PageRight
    <3>2. Total(f) \in Nat
      BY <1>3, TotalIsNat
    <3>3. Total(f) \in Int
      BY <3>2
    <3>4. Pages(Total(f)) \in Nat
      BY <3>3, PagesGrow
    <3>5. ~(nth > Pages(Total(f)))
      BY <1>10, <3>1
    <3> QED  BY <3>4, <3>5
  <2>6. TotalsRight
    BY <1>10, <1>12, <1>13, <2>3 DEF TotalsRight
  <2> QED  BY <2>1, <2>2, <2>4, <2>5, <2>6 DEF OnScreen
<1>16. RemovalsRight
  BY <1>3 DEF RemovalsRight, Removals
<1> QED  BY <1>14, <1>15, <1>16 DEF LibSound

(* The invariant gives what is asked of the page.                          *)
LEMMA SoundShowsWhatIsAsked == LibSound => ShowsWhatIsAsked
<1>1. SUFFICES ASSUME LibSound, OnLibrary PROVE ShowsWhatIsAsked
  BY DEF ShowsWhatIsAsked
<1>2. LibTyped /\ OnScreen /\ library \subseteq Hands /\ FilterOK(filter) /\ None # today
  BY <1>1, LibraryAssumption DEF LibSound, LibTyped
<1>3. StepsBack
  <2>1. SUFFICES ASSUME Quiet, Loaded, ~strayed, outdated = {}, load.total # 0 PROVE load.hands # <<>>
    BY DEF StepsBack
  <2>2. ~Asked("list") /\ ~Excused("list") /\ ~Removed /\ load # Failed
    BY <2>1 DEF Quiet, Asked, Excused, Pending, Removed, Removals, Loaded
  <2>3. load = Page(filter, Here.search.sort, Here.search.page, Total(filter))
    BY <1>2, <2>2 DEF OnScreen, ListRight
  <2>4. load.total = Total(filter) /\ load.hands = Rows(filter, Here.search.sort, Here.search.page)
    BY <2>3 DEF Page
  <2>5. Here.search.page \in Nat \ {0} /\ Here.search.page <= Pages(Total(filter))
    BY <1>2, <2>1, <2>2 DEF OnScreen, PageRight, LibTyped, HistoryOK, EntryOK, SearchOK, Here
  <2> QED  BY <1>2, <2>1, <2>4, <2>5, RowsAreThere
<1>4. /\ today = FirstDay /\ results # None => results.of = filter
      /\ today = FirstDay /\ summary \notin {None, Failed} => summary.of = filter
      /\ ~turned => ReadFilter(Here.search, today) = filter
  BY <1>2 DEF OnScreen, ResultsRight, StatsRight, AddressRight
<1>5. ASSUME NEW i \in DOMAIN QuickRanges
      PROVE  LET f == WithPeriod(filter, QuickRange(QuickRanges[i], today))
             IN ReadFilter(LibrarySearch(f, today), today) = f
  <2>1. PICK f : f = WithPeriod(filter, QuickRange(QuickRanges[i], today))
    OBVIOUS
  <2>2. FilterOK(f)
    BY <1>2, <2>1, PeriodsAreFilters
  <2> QED  BY <1>2, <2>1, <2>2, SearchIsRead
<1>6. ASSUME Quiet PROVE ~Pending /\ \A k : ~Asked(k)
  BY <1>6 DEF Quiet, Pending, Asked
<1>7. /\ Quiet /\ load # Failed /\ "list" \notin outdated =>
             load = Page(filter, Here.search.sort, Here.search.page, Total(filter))
      /\ Quiet /\ Here.view = "graph" /\ results # None /\ "results" \notin outdated =>
             results.hands = Keeps(filter)
      /\ Quiet /\ Here.view = "stats" /\ summary # Failed /\ "stats" \notin outdated =>
             summary.hands = Keeps(filter)
  BY <1>2, <1>6 DEF OnScreen, ListRight, ResultsRight, StatsRight, Excused
<1> QED  BY <1>3, <1>4, <1>5, <1>7 DEF ShowsWhatIsAsked

(* At any Library, page size and number of moves and changes in flight,    *)
(* what the page shows once nothing is in flight is what the address asks  *)
(* for and the server would answer, a filter written in the address is     *)
(* read back the same, and taking Hands out never leaves the list past its *)
(* end (LibraryPage.tsx, library.service.ts).                              *)
THEOREM WhatIsAsked == LibrarySpec => []ShowsWhatIsAsked
<1>1. LibSound /\ [LibraryNext]_libraryVars => LibSound'
  BY LibNextKeeps, LibStutters
<1> QED  BY <1>1, LibInitIsSound, SoundShowsWhatIsAsked, PTL DEF LibrarySpec
=============================================================================
