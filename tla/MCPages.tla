------------------------------ MODULE MCPages ------------------------------
(* The pages of one person, one at a time: each starts with its own        *)
(* variables and leaves those of the others at None.                       *)
EXTENDS MCStudy, Library, LabRanges, Analysis, RangeText

\* Four Hands on three days; the page is opened on the second.
Instants == <<2, 4, 4, 5>>
Sites == <<"a", "a", "b", "a">>
Pots == <<5, 9, 5, 5>>
FirstDays == [r \in {"this-week", "this-month", "this-year"} |->
                 [d \in 0..3 |-> IF r = "this-week" /\ d > 1 THEN 2 ELSE IF r = "this-month" THEN 1 ELSE 0]]

\* Hands of two currencies and three stakes.
Gained(result, allInEv, showdown, bigBlind, currency) ==
    [result |-> result, allInEv |-> allInEv, showdown |-> showdown, bigBlind |-> bigBlind, currency |-> currency]
Gain == Gained(7, 5, TRUE, 2, "USD")
Lost == Gained(-4, -4, FALSE, 3, "USD")
Euros == Gained(1, -1, FALSE, 7, "EUR")
SomeSeries == {<<>>, <<Gain>>, <<Lost, Gain, Lost>>, <<Gain, Lost, Euros, Gain>>, <<Lost, Gain, Gain, Lost, Gain, Lost>>}

\* Two saved Ranges; a flop and a whole Board to type.
SavedRanges == [s \in {"first", "second"} |-> IF s = "first" THEN "wide" ELSE "narrow"]
SomeBoards == {<<1, 2, 3>>, <<4, 3, 2, 1>>}

\* Hand Classes of four ranks from the strongest down; texts of every form, one
\* of them not understood.
RanksOrder ==
    <<Class(1, 1, "pair"), Class(2, 2, "pair"), Class(1, 2, "suited"), Class(3, 3, "pair"), Class(1, 2, "offsuit"),
      Class(1, 3, "suited"), Class(1, 3, "offsuit"), Class(2, 3, "suited"), Class(4, 4, "pair"), Class(1, 4, "suited"),
      Class(2, 3, "offsuit"), Class(1, 4, "offsuit"), Class(2, 4, "suited"), Class(3, 4, "suited"),
      Class(2, 4, "offsuit"), Class(3, 4, "offsuit")>>
Spanning(high, low, kind, otherHigh, otherLow, otherKind, frequency) ==
    [form |-> "run", high |-> high, low |-> low, kind |-> kind, frequency |-> frequency, block |-> None,
     other |-> [high |-> otherHigh, low |-> otherLow, kind |-> otherKind]]
Piecewise(form, high, low, kind, frequency, block) ==
    [Spanning(high, low, kind, high, low, kind, frequency) EXCEPT !.form = form, !.block = block]
Exact(high, low, suits, frequency) ==
    [form |-> "combo", high |-> high, low |-> low, suits |-> suits, frequency |-> frequency, block |-> None]
SomeTexts ==
    {<<Piecewise("above", 3, 3, "any", None, None), Piecewise("one", 1, 2, "suited", 50, None)>>,
     <<Spanning(1, 3, "offsuit", 1, 4, "offsuit", None), Piecewise("one", 2, 1, "any", None, 2500)>>,
     <<Spanning(2, 2, "any", 4, 4, "any", 7250), Exact(1, 2, <<1, 2>>, 25)>>,
     <<Exact(4, 3, <<2, 1>>, None), Piecewise("above", 1, 3, "suited", None, 10000)>>,
     <<Piecewise("one", 1, 1, "any", None, None), Piecewise("above", 2, 1, "suited", None, None)>>}

NoLibrary ==
    /\ library = None /\ marks = None /\ tags = None /\ links = None /\ today = None /\ history = None
    /\ filter = None /\ load = None /\ results = None /\ summary = None /\ selected = None /\ asks = None
    /\ calls = None /\ lastFiltered = None /\ outdated = None /\ strayed = None /\ turned = None /\ spent = None
NoLab ==
    /\ ranges = None /\ labTags = None /\ minted = None /\ trail = None /\ draft = None /\ baseline = None
    /\ unopened = None /\ busy = None /\ pendingLeave = None /\ list = None /\ seenTags = None /\ chosen = None
    /\ reads = None /\ requests = None /\ mine = None /\ unsure = None /\ faults = None /\ steps = None

NoAnalysis ==
    /\ entries = None /\ analysis = None /\ picked = None /\ written = None /\ timer = None /\ loads = None
    /\ stray = None /\ gone = None /\ reading = None /\ known = None /\ wanted = None /\ late = None
    /\ turns = None /\ loaded = None

NoRange == combos = None /\ brush = None /\ stroke = None /\ refused = None /\ edits = None

NoStudy ==
    /\ asked = Nothing /\ hand = None /\ table = None /\ was = None
    /\ replay = None /\ paying = None /\ stats = None

Init ==
    \/ StudyInit /\ NoLibrary /\ NoLab /\ NoAnalysis /\ NoRange /\ graph = None
    \/ LibraryInit /\ NoStudy /\ NoLab /\ NoAnalysis /\ NoRange /\ graph = None
    \/ LabInit /\ NoStudy /\ NoLibrary /\ NoAnalysis /\ NoRange /\ graph = None
    \/ AnalysisInit /\ NoStudy /\ NoLibrary /\ NoLab /\ NoRange /\ graph = None
    \/ RangeInit /\ NoStudy /\ NoLibrary /\ NoLab /\ NoAnalysis /\ graph = None
    \/ GraphInit /\ NoStudy /\ NoLibrary /\ NoLab /\ NoAnalysis /\ NoRange

Next ==
    \/ hand # None /\ StudyNext /\ UNCHANGED <<libraryVars, labVars, analysisVars, rangeVars, graph>>
    \/ library # None /\ LibraryNext /\ UNCHANGED <<tableVars, asked, labVars, analysisVars, rangeVars, graph>>
    \/ trail # None /\ LabNext /\ UNCHANGED <<tableVars, asked, libraryVars, analysisVars, rangeVars, graph>>
    \/ entries # None /\ AnalysisNext /\ UNCHANGED <<tableVars, asked, libraryVars, labVars, rangeVars, graph>>
    \/ combos # None /\ RangeNext /\ UNCHANGED <<tableVars, asked, libraryVars, labVars, analysisVars, graph>>
    \/ graph # None /\ GraphNext /\ UNCHANGED <<tableVars, asked, libraryVars, labVars, analysisVars, rangeVars>>

vars == <<tableVars, asked, libraryVars, labVars, analysisVars, rangeVars, graph>>
Spec == Init /\ [][Next]_vars
=============================================================================
