-------------------------- MODULE DashboardsProofs --------------------------
(* Proofs about Dashboards for every set of events the streams may deliver,  *)
(* in every order and number, with snapshots built and events refused        *)
(* anywhere in between.                                                      *)
EXTENDS Dashboards, TLAPS

Invariants == SectionsAreLatest /\ SourceIsLatest /\ AnalysisIsOneRun

LEMMA EventFacts ==
  ASSUME NEW e \in Events
  PROVE  /\ e.stream \in Streams /\ e.symbol \in Symbols
         /\ e.ts \in Nat \ {0} /\ e.run \in Nat \ {0} /\ e # NoEvent
  BY EventsAssumption DEF Symbols

-----------------------------------------------------------------------------
(* Types.                                                                    *)

LEMMA InitTypes == Init => TypeOK
<1>. SUFFICES ASSUME Init  PROVE TypeOK
  OBVIOUS
<1>1. analysis \in [Symbols -> [ts : Nat, run : Nat, items : SUBSET Items]]
  BY DEF Init, NoRun
<1>2. source \in [ts : Nat, run : Nat]
  BY DEF Init
<1>3. /\ view.system \in Statuses /\ view.components \in [Streams -> Statuses]
      /\ view.belief \in [Symbols -> Trends]
      /\ view.confidence \in [Symbols -> Trends]
  BY DEF Init, NoView, Statuses, Trends
<1>4. heard \subseteq Streams /\ failed \in BOOLEAN /\ delivered \subseteq Events
  BY DEF Init
<1>5. /\ shown \in [Symbols -> [Sections -> Events \cup {NoEvent}]]
      /\ base \in [Symbols -> Events \cup {NoEvent}]
      /\ previous \in
           [Symbols -> [{"hysteresis", "belief"} -> Events \cup {NoEvent}]]
  BY DEF Init
<1>. QED  BY <1>1, <1>2, <1>3, <1>4, <1>5 DEF TypeOK

LEMMA AcceptTypes ==
  ASSUME TypeOK, NEW e \in Events, Accept(e)
  PROVE  /\ shown' \in [Symbols -> [Sections -> Events \cup {NoEvent}]]
         /\ heard' \subseteq Streams /\ delivered' \subseteq Events
<1>1. Show(e) \in [Sections -> Events \cup {NoEvent}]
  <2>1. shown[e.symbol] \in [Sections -> Events \cup {NoEvent}]
    BY EventFacts DEF TypeOK
  <2>2. \A x \in Sections : shown[e.symbol][x] \in Events \cup {NoEvent}
    BY <2>1
  <2>. QED  BY <2>2 DEF Show
<1>2. shown' \in [Symbols -> [Sections -> Events \cup {NoEvent}]]
  BY <1>1 DEF Accept, TypeOK
<1>. QED  BY <1>2, EventFacts DEF Accept, TypeOK

LEMMA TrackTypes ==
  ASSUME TypeOK, NEW e \in Events, Track(e)
  PROVE  source' \in [ts : Nat, run : Nat]
  BY EventFacts DEF Track, TypeOK

LEMMA AddTypes ==
  ASSUME NEW e \in Events,
         NEW a \in [ts : Nat, run : Nat, items : SUBSET Items]
  PROVE  Add(a, e) \in [ts : Nat, run : Nat, items : SUBSET Items]
<1>1. e.items \subseteq Items
  BY DEF Items
<1>2. [a EXCEPT !.items = @ \cup e.items]
        \in [ts : Nat, run : Nat, items : SUBSET Items]
  BY <1>1
<1>3. [ts |-> e.ts, run |-> e.run, items |-> e.items]
        \in [ts : Nat, run : Nat, items : SUBSET Items]
  BY <1>1, EventFacts
<1>. QED  BY <1>2, <1>3 DEF Add

LEMMA SnapshotTypes ==
  /\ Snapshot.system \in Statuses
  /\ Snapshot.components \in [Streams -> Statuses]
  /\ Snapshot.belief \in [Symbols -> Trends]
  /\ Snapshot.confidence \in [Symbols -> Trends]
<1>1. \A a, b : Compare(a, b) \in Trends
  BY DEF Compare, Trends
<1>2. \A s \in Symbols : BeliefTrend(s) \in Trends
  BY <1>1 DEF BeliefTrend, Trends
<1>3. \A s \in Symbols : ConfidenceTrend(s) \in Trends
  BY <1>1 DEF ConfidenceTrend, Trends
<1>4. Status \in Statuses
  BY DEF Status, Statuses
<1>5. \A stream \in Streams : ComponentStatus(stream) \in Statuses
  BY DEF ComponentStatus, Statuses
<1>. QED  BY <1>2, <1>3, <1>4, <1>5 DEF Snapshot

LEMMA StepTypes == TypeOK /\ [Next]_vars => TypeOK'
<1>. SUFFICES ASSUME TypeOK, [Next]_vars  PROVE TypeOK'
  OBVIOUS
<1>1. ASSUME NEW e \in Events, IngestOrchestrator(e) \/ IngestStateGate(e)
      PROVE  TypeOK'
  <2>1. Accept(e) /\ LookBack(e) /\ UNCHANGED <<analysis, failed, previous, view>>
    BY <1>1 DEF IngestOrchestrator, IngestStateGate
  <2>2. source' \in [ts : Nat, run : Nat]
    BY <1>1, TrackTypes DEF IngestOrchestrator, IngestStateGate, TypeOK
  <2>3. base' \in [Symbols -> Events \cup {NoEvent}]
    <3>1. previous[e.symbol]["belief"] \in Events \cup {NoEvent}
      BY EventFacts DEF TypeOK
    <3>. QED  BY <2>1, <3>1 DEF LookBack, TypeOK
  <2>. QED  BY <2>1, <2>2, <2>3, AcceptTypes DEF TypeOK
<1>2. ASSUME NEW e \in Events, IngestAnalysis(e)  PROVE TypeOK'
  <2>1. Accept(e) /\ Track(e) /\ UNCHANGED <<base, failed, previous, view>>
    BY <1>2 DEF IngestAnalysis
  <2>2. analysis' = [analysis EXCEPT ![e.symbol] = Add(analysis[e.symbol], e)]
    BY <1>2 DEF IngestAnalysis
  <2>3. Add(analysis[e.symbol], e) \in [ts : Nat, run : Nat, items : SUBSET Items]
    BY AddTypes, EventFacts DEF TypeOK
  <2>. QED  BY <2>1, <2>2, <2>3, AcceptTypes, TrackTypes DEF TypeOK
<1>3. CASE Refuse
  BY <1>3 DEF Refuse, TypeOK
<1>4. CASE Build
  <2>1. previous' \in
          [Symbols -> [{"hysteresis", "belief"} -> Events \cup {NoEvent}]]
    <3>1. \A s \in Symbols : \A x \in {"hysteresis", "belief"} :
            shown[s][x] \in Events \cup {NoEvent}
      BY DEF TypeOK, Sections
    <3>. QED  BY <1>4, <3>1 DEF Build
  <2>2. view' = Snapshot /\ UNCHANGED <<shown, base, analysis, source, heard, failed, delivered>>
    BY <1>4 DEF Build
  <2>. QED  BY <2>1, <2>2, SnapshotTypes DEF TypeOK
<1>5. CASE UNCHANGED vars
  BY <1>5 DEF vars, TypeOK
<1>. QED  BY <1>1, <1>2, <1>3, <1>4, <1>5 DEF Next

(* A dashboard keeps its types: what it shows are events that were delivered *)
(* and the words of the contract.                                            *)
THEOREM TypeCorrect == Spec => []TypeOK
<1>. QED  BY InitTypes, StepTypes, PTL DEF Spec

-----------------------------------------------------------------------------
(* The sections.                                                             *)

Carriers(s, x) == {e \in delivered : e.symbol = s /\ Carries(e, x)}

LatestOf(all, shownEvent) ==
  /\ all = {} <=> shownEvent = NoEvent
  /\ all # {} => shownEvent \in all /\ \A e \in all : e.ts <= shownEvent.ts

(* A belief is of the state shown, or of an older one if that has none.      *)
Paired(state, belief) ==
  belief # NoEvent => /\ state # NoEvent /\ belief.ts <= state.ts
                      /\ HasBelief(state) => belief = state

LEMMA SectionsUnfolded ==
  SectionsAreLatest <=>
    \A s \in Symbols :
      /\ \A x \in Sections : LatestOf(Carriers(s, x), shown[s][x])
      /\ Paired(shown[s]["hysteresis"], shown[s]["belief"])
  BY DEF SectionsAreLatest, LatestOf, Carriers, Paired

(* An event that is shown if it is due keeps the latest on display.          *)
LEMMA LatestKept ==
  ASSUME NEW all, all \subseteq Events, NEW old, LatestOf(all, old),
         NEW e \in Events
  PROVE  LatestOf(all \cup {e}, IF Due(e, old) THEN e ELSE old)
<1>1. CASE old = NoEvent
  <2>1. all = {}
    BY <1>1 DEF LatestOf
  <2>. QED  BY <1>1, <2>1, EventFacts DEF LatestOf, Due
<1>2. CASE old # NoEvent
  <2>1. old \in all /\ \A f \in all : f.ts <= old.ts
    BY <1>2 DEF LatestOf
  <2>2. old.ts \in Nat /\ e.ts \in Nat /\ \A f \in all : f.ts \in Nat
    BY <2>1, EventFacts
  <2>3. CASE e.ts >= old.ts
    <3>1. \A f \in all \cup {e} : f.ts <= e.ts
      BY <2>1, <2>2, <2>3
    <3>. QED  BY <2>3, <3>1, <1>2, EventFacts DEF LatestOf, Due
  <2>4. CASE ~(e.ts >= old.ts)
    <3>1. \A f \in all \cup {e} : f.ts <= old.ts
      BY <2>1, <2>2, <2>4
    <3>. QED  BY <2>1, <2>4, <3>1, <1>2 DEF LatestOf, Due
  <2>. QED  BY <2>3, <2>4
<1>. QED  BY <1>1, <1>2

(* An event replaces the state, and the belief if it has one.                *)
LEMMA PairKept ==
  ASSUME NEW state \in Events \cup {NoEvent}, NEW belief \in Events \cup {NoEvent},
         NEW e \in Events, HasState(e), Paired(state, belief),
         state # NoEvent /\ HasBelief(state) => belief = state
  PROVE  Paired(IF Due(e, state) THEN e ELSE state,
                IF HasBelief(e) /\ Due(e, belief) THEN e ELSE belief)
<1>1. /\ e.ts \in Nat /\ e # NoEvent
      /\ state # NoEvent => state.ts \in Nat
      /\ belief # NoEvent => belief.ts \in Nat
  BY EventFacts
<1>2. CASE Due(e, state)
  <2>1. Due(e, belief)
    BY <1>1, <1>2 DEF Due, Paired
  <2>2. belief # NoEvent => belief.ts <= e.ts
    BY <1>1, <2>1 DEF Due
  <2>. QED  BY <1>1, <1>2, <2>1, <2>2 DEF Paired
<1>3. CASE ~Due(e, state)
  <2>1. state # NoEvent /\ e.ts < state.ts
    BY <1>1, <1>3 DEF Due
  <2>2. CASE HasBelief(state)
    <3>1. belief = state
      BY <2>1, <2>2
    <3>. QED  BY <1>3, <3>1, <2>1, <1>1 DEF Paired
  <2>3. CASE ~HasBelief(state)
    BY <1>1, <1>3, <2>1, <2>3 DEF Paired
  <2>. QED  BY <2>2, <2>3
<1>. QED  BY <1>2, <1>3

LEMMA AcceptSections ==
  ASSUME TypeOK, SectionsAreLatest, NEW e \in Events, Accept(e)
  PROVE  SectionsAreLatest'
<1>1. delivered' = delivered \cup {e} /\ delivered \subseteq Events
  BY DEF Accept, TypeOK
<1>2. shown' = [shown EXCEPT ![e.symbol] = Show(e)]
  BY DEF Accept
<1>3. ASSUME NEW s \in Symbols
      PROVE  /\ \A x \in Sections : LatestOf(Carriers(s, x)', shown'[s][x])
             /\ Paired(shown'[s]["hysteresis"], shown'[s]["belief"])
  <2>1. /\ \A x \in Sections : LatestOf(Carriers(s, x), shown[s][x])
        /\ Paired(shown[s]["hysteresis"], shown[s]["belief"])
    BY SectionsUnfolded
  <2>2. CASE s # e.symbol
    <3>1. shown'[s] = shown[s]
      BY <1>2, <2>2 DEF TypeOK
    <3>2. \A x \in Sections : Carriers(s, x)' = Carriers(s, x)
      BY <1>1, <2>2 DEF Carriers, Carries, HasState, HasBelief, Effective
    <3>. QED  BY <2>1, <3>1, <3>2
  <2>3. CASE s = e.symbol
    <3>1. shown'[s] = Show(e)
      BY <1>2, <2>3 DEF TypeOK
    <3>2. ASSUME NEW x \in Sections
          PROVE  LatestOf(Carriers(s, x)', shown'[s][x])
      <4>1. CASE Carries(e, x)
        <5>1. Carriers(s, x)' = Carriers(s, x) \cup {e}
          BY <1>1, <2>3, <4>1 DEF Carriers, Carries, HasState, HasBelief, Effective
        <5>2. shown'[s][x] = IF Due(e, shown[s][x]) THEN e ELSE shown[s][x]
          BY <3>1, <2>3, <4>1 DEF Show
        <5>3. Carriers(s, x) \subseteq Events
          BY <1>1 DEF Carriers
        <5>. QED  BY <2>1, <5>1, <5>2, <5>3, LatestKept
      <4>2. CASE ~Carries(e, x)
        <5>1. Carriers(s, x)' = Carriers(s, x)
          BY <1>1, <4>2 DEF Carriers, Carries, HasState, HasBelief, Effective
        <5>2. shown'[s][x] = shown[s][x]
          BY <3>1, <2>3, <4>2 DEF Show
        <5>. QED  BY <2>1, <5>1, <5>2
      <4>. QED  BY <4>1, <4>2
    <3>3. Paired(shown'[s]["hysteresis"], shown'[s]["belief"])
      <4>. PICK state, belief : state = shown[s]["hysteresis"] /\ belief = shown[s]["belief"]
        OBVIOUS
      <4>1. /\ state \in Events \cup {NoEvent} /\ belief \in Events \cup {NoEvent}
            /\ Paired(state, belief)
        BY <2>1 DEF TypeOK, Sections
      <4>2. /\ shown'[s]["hysteresis"] =
                 IF HasState(e) /\ Due(e, state) THEN e ELSE state
            /\ shown'[s]["belief"] =
                 IF HasBelief(e) /\ Due(e, belief) THEN e ELSE belief
        BY <2>3, <3>1 DEF Show, Sections, Carries
      <4>3. CASE HasState(e)
        <5>1. state # NoEvent /\ HasBelief(state) => belief = state
          <6>. SUFFICES ASSUME state # NoEvent, HasBelief(state)  PROVE belief = state
            OBVIOUS
          <6>1. state \in Carriers(s, "hysteresis")
            BY <2>1 DEF LatestOf, Sections
          <6>2. state \in Carriers(s, "belief")
            BY <6>1 DEF Carriers, Carries
          <6>3. belief # NoEvent
            BY <2>1, <6>2 DEF LatestOf, Sections
          <6>. QED  BY <4>1, <6>3 DEF Paired
        <5>. QED  BY <4>1, <4>2, <4>3, <5>1, PairKept
      <4>4. CASE ~HasState(e)
        BY <4>1, <4>2, <4>4 DEF HasBelief
      <4>. QED  BY <4>3, <4>4
    <3>. QED  BY <3>2, <3>3
  <2>. QED  BY <2>2, <2>3
<1>. QED  BY <1>3 DEF SectionsAreLatest, LatestOf, Carriers, Paired, HasBelief, HasState

-----------------------------------------------------------------------------
(* The source and the analysis section: both follow the order of runs.       *)

Tracked == {e \in delivered : Tracks(e)}

LEMMA TrackedSource ==
  ASSUME TypeOK, SourceIsLatest, NEW e \in Events, Accept(e), Tracks(e), Track(e)
  PROVE  SourceIsLatest'
<1>1. Tracked' = Tracked \cup {e} /\ Tracked \subseteq Events
  BY DEF Accept, Tracked, Tracks, TypeOK
<1>2. /\ \A f \in Tracked : ~Before(source, f)
      /\ Tracked # {} => \E f \in Tracked : source = [ts |-> f.ts, run |-> f.run]
      /\ Tracked = {} => source = [ts |-> 0, run |-> 0]
  BY DEF SourceIsLatest, Tracked
<1>3. source.ts \in Nat /\ source.run \in Nat
  BY DEF TypeOK
<1>4. CASE Before(source, e)
  <2>1. source' = [ts |-> e.ts, run |-> e.run]
    BY <1>4 DEF Track
  <2>2. \A f \in Tracked' : ~Before(source', f)
    BY <1>1, <1>2, <1>3, <1>4, <2>1, EventFacts DEF Before
  <2>. QED  BY <1>1, <2>1, <2>2 DEF SourceIsLatest, Tracked
<1>5. CASE ~Before(source, e)
  <2>1. source' = source
    BY <1>5 DEF Track
  <2>2. \A f \in Tracked' : ~Before(source', f)
    BY <1>1, <1>2, <1>5, <2>1
  <2>3. Tracked # {}
    BY <1>2, <1>5, EventFacts DEF Before
  <2>. QED  BY <1>1, <1>2, <2>1, <2>2, <2>3 DEF SourceIsLatest, Tracked
<1>. QED  BY <1>4, <1>5

LEMMA UntrackedSource ==
  ASSUME SourceIsLatest, NEW e \in Events, Accept(e), ~Tracks(e), UNCHANGED source
  PROVE  SourceIsLatest'
<1>1. Tracked' = Tracked
  BY DEF Accept, Tracked, Tracks
<1>. QED  BY <1>1 DEF SourceIsLatest, Tracked

Analysed(s) == {e \in delivered : e.stream = "analysis_engine" /\ e.symbol = s}

OfRun(all, a) == {e \in all : e.ts = a.ts /\ e.run = a.run}

OneRun(all, a) ==
  /\ all = {} => a = NoRun
  /\ all # {} => OfRun(all, a) # {}
  /\ \A e \in all : ~Before(a, e)
  /\ a.items = UNION {e.items : e \in OfRun(all, a)}

LEMMA AnalysisUnfolded ==
  AnalysisIsOneRun <=> \A s \in Symbols : OneRun(Analysed(s), analysis[s])
  BY DEF AnalysisIsOneRun, OneRun, Analysed, OfRun

(* Adding an event keeps the section to one run, the latest of all.          *)
LEMMA OneRunKept ==
  ASSUME NEW all, all \subseteq Events, NEW e \in Events,
         NEW a \in [ts : Nat, run : Nat, items : SUBSET Items], OneRun(all, a)
  PROVE  OneRun(all \cup {e}, Add(a, e))
<1>. DEFINE more == all \cup {e}
            b == Add(a, e)
<1>1. /\ a.ts \in Nat /\ a.run \in Nat
      /\ \A f \in more : f.ts \in Nat \ {0} /\ f.run \in Nat \ {0}
  BY EventFacts
<1>2. \A f \in all : ~Before(a, f)
  BY DEF OneRun
<1>3. CASE e.ts = a.ts /\ e.run = a.run
  <2>1. b = [a EXCEPT !.items = @ \cup e.items]
    BY <1>3 DEF Add
  <2>2. b.ts = a.ts /\ b.run = a.run /\ b.items = a.items \cup e.items
    BY <2>1
  <2>3. OfRun(more, b) = OfRun(all, a) \cup {e}
    BY <1>3, <2>2 DEF OfRun
  <2>4. UNION {f.items : f \in OfRun(more, b)}
          = (UNION {f.items : f \in OfRun(all, a)}) \cup e.items
    BY <2>3
  <2>5. \A f \in more : ~Before(b, f)
    BY <1>1, <1>2, <1>3, <2>2 DEF Before
  <2>. QED  BY <2>2, <2>3, <2>4, <2>5 DEF OneRun
<1>4. CASE ~(e.ts = a.ts /\ e.run = a.run) /\ Before(e, a)
  <2>1. b = a
    BY <1>4 DEF Add
  <2>2. OfRun(more, a) = OfRun(all, a)
    BY <1>4 DEF OfRun
  <2>3. all # {}
    BY <1>1, <1>4 DEF OneRun, NoRun, Before
  <2>4. ~Before(a, e)
    BY <1>1, <1>4 DEF Before
  <2>. QED  BY <2>1, <2>2, <2>3, <2>4, <1>2 DEF OneRun
<1>5. CASE ~(e.ts = a.ts /\ e.run = a.run) /\ ~Before(e, a)
  <2>1. b = [ts |-> e.ts, run |-> e.run, items |-> e.items]
    BY <1>5 DEF Add
  <2>2. Before(a, e)
    BY <1>1, <1>5 DEF Before
  <2>3. \A f \in all : ~(f.ts = e.ts /\ f.run = e.run)
    BY <1>1, <1>2, <2>2 DEF Before
  <2>4. OfRun(more, b) = {e}
    BY <2>1, <2>3 DEF OfRun
  <2>5. \A f \in more : ~Before(b, f)
    BY <1>1, <1>2, <2>1, <2>2 DEF Before
  <2>6. b.items = UNION {f.items : f \in OfRun(more, b)}
    <3>1. UNION {f.items : f \in {e}} = e.items
      OBVIOUS
    <3>2. b.items = e.items
      BY <2>1
    <3>. QED  BY <2>4, <3>1, <3>2
  <2>7. more # {} /\ OfRun(more, b) # {}
    BY <2>4
  <2>. QED  BY <2>5, <2>6, <2>7 DEF OneRun
<1>. QED  BY <1>3, <1>4, <1>5

LEMMA AnalysisKept ==
  ASSUME TypeOK, AnalysisIsOneRun, NEW e \in Events, IngestAnalysis(e)
  PROVE  AnalysisIsOneRun'
<1>1. /\ delivered' = delivered \cup {e} /\ delivered \subseteq Events
      /\ e.stream = "analysis_engine"
      /\ analysis' = [analysis EXCEPT ![e.symbol] = Add(analysis[e.symbol], e)]
  BY DEF IngestAnalysis, Accept, TypeOK
<1>2. ASSUME NEW s \in Symbols  PROVE OneRun(Analysed(s)', analysis'[s])
  <2>1. OneRun(Analysed(s), analysis[s])
    BY AnalysisUnfolded
  <2>2. CASE s = e.symbol
    <3>1. Analysed(s)' = Analysed(s) \cup {e} /\ Analysed(s) \subseteq Events
      BY <1>1, <2>2 DEF Analysed
    <3>2. analysis'[s] = Add(analysis[s], e)
      BY <1>1, <2>2 DEF TypeOK
    <3>3. analysis[s] \in [ts : Nat, run : Nat, items : SUBSET Items]
      BY DEF TypeOK
    <3>. QED  BY <2>1, <3>1, <3>2, <3>3, OneRunKept
  <2>3. CASE s # e.symbol
    <3>1. Analysed(s)' = Analysed(s)
      BY <1>1, <2>3 DEF Analysed
    <3>2. analysis'[s] = analysis[s]
      BY <1>1, <2>3 DEF TypeOK
    <3>. QED  BY <2>1, <3>1, <3>2
  <2>. QED  BY <2>2, <2>3
<1>. QED  BY <1>2 DEF AnalysisIsOneRun, OneRun, Analysed, OfRun

-----------------------------------------------------------------------------
LEMMA InitInvariants == Init => Invariants
<1>. SUFFICES ASSUME Init  PROVE Invariants
  OBVIOUS
<1>1. delivered = {} /\ \A s \in Symbols : analysis[s] = NoRun
  BY DEF Init
<1>2. SectionsAreLatest
  BY <1>1 DEF Init, SectionsAreLatest, Sections
<1>3. SourceIsLatest
  BY <1>1 DEF Init, SourceIsLatest
<1>4. AnalysisIsOneRun
  <2>1. NoRun.items = {}
    BY DEF NoRun
  <2>. QED  BY <1>1, <2>1 DEF AnalysisIsOneRun
<1>. QED  BY <1>2, <1>3, <1>4 DEF Invariants

LEMMA StepInvariants == TypeOK /\ Invariants /\ [Next]_vars => Invariants'
<1>. SUFFICES ASSUME TypeOK, Invariants, [Next]_vars  PROVE Invariants'
  OBVIOUS
<1>. USE DEF Invariants
<1>1. ASSUME NEW e \in Events, IngestOrchestrator(e) \/ IngestStateGate(e)
      PROVE  Invariants'
  <2>1. Accept(e) /\ e.stream # "analysis_engine" /\ UNCHANGED analysis
    BY <1>1 DEF IngestOrchestrator, IngestStateGate
  <2>2. SectionsAreLatest'
    BY <2>1, AcceptSections
  <2>3. SourceIsLatest'
    BY <1>1, <2>1, TrackedSource, UntrackedSource
    DEF IngestOrchestrator, IngestStateGate, Tracks
  <2>4. AnalysisIsOneRun'
    <3>1. \A s \in Symbols : Analysed(s)' = Analysed(s)
      BY <2>1 DEF Analysed, Accept
    <3>. QED  BY <2>1, <3>1 DEF AnalysisIsOneRun, Analysed
  <2>. QED  BY <2>2, <2>3, <2>4
<1>2. ASSUME NEW e \in Events, IngestAnalysis(e)  PROVE Invariants'
  <2>1. Accept(e) /\ Track(e) /\ Tracks(e)
    BY <1>2 DEF IngestAnalysis, Tracks
  <2>. QED  BY <1>2, <2>1, AcceptSections, TrackedSource, AnalysisKept
<1>3. ASSUME UNCHANGED <<shown, source, analysis, delivered>>
      PROVE  Invariants'
  <2>1. SectionsAreLatest'
    BY <1>3 DEF SectionsAreLatest
  <2>2. SourceIsLatest'
    BY <1>3 DEF SourceIsLatest
  <2>3. AnalysisIsOneRun'
    BY <1>3 DEF AnalysisIsOneRun
  <2>. QED  BY <2>1, <2>2, <2>3
<1>. QED  BY <1>1, <1>2, <1>3 DEF Next, Refuse, Build, vars

LEMMA InductiveInvariant == Spec => [](TypeOK /\ Invariants)
<1>1. Init => TypeOK /\ Invariants
  BY InitTypes, InitInvariants
<1>2. (TypeOK /\ Invariants) /\ [Next]_vars => (TypeOK /\ Invariants)'
  BY StepTypes, StepInvariants
<1>. QED  BY <1>1, <1>2, PTL DEF Spec

(* For any events delivered in any order and number, every section shows one *)
(* of its events of the latest timestamp, the belief is never newer than the *)
(* hysteresis and of the same event if that has one, and the view names the  *)
(* latest run as its source.                                                 *)
THEOREM ViewIsLatest == Spec => []LatestIsShown
<1>1. TypeOK /\ Invariants => LatestIsShown
  BY DEF Invariants, LatestIsShown
<1>. QED  BY <1>1, InductiveInvariant, PTL

(* For any events delivered in any order and number, the analysis section    *)
(* shows all that was delivered of the latest run and nothing else.          *)
THEOREM AnalysisOfOneRun == Spec => []AnalysisIsOneRun
<1>1. TypeOK /\ Invariants => AnalysisIsOneRun
  BY DEF Invariants
<1>. QED  BY <1>1, InductiveInvariant, PTL

-----------------------------------------------------------------------------
(* The trends.  What a trend looks back to is an event that was delivered, no *)
(* newer than the one that is shown.                                         *)

IsOlder(s, now, f) ==
  f # NoEvent => /\ f \in delivered /\ f.symbol = s
                 /\ now # NoEvent /\ f.ts <= now.ts

LooksBack ==
  /\ \A stream \in heard : \E e \in delivered : e.stream = stream
  /\ \A s \in Symbols :
       /\ \A f \in {base[s], previous[s]["belief"]} :
            IsOlder(s, shown[s]["belief"], f) /\ (f # NoEvent => HasBelief(f))
       /\ LET f == previous[s]["hysteresis"] IN
          IsOlder(s, shown[s]["hysteresis"], f) /\ (f # NoEvent => HasState(f))

LEMMA InitLooksBack == Init => LooksBack
BY DEF Init, LooksBack, IsOlder

(* An accepted event puts no older one in the place of the one shown.          *)
LEMMA ShownIsNewer ==
  ASSUME TypeOK, NEW e \in Events, Accept(e), NEW s \in Symbols, NEW x \in Sections
  PROVE  \A f : IsOlder(s, shown[s][x], f) => IsOlder(s, shown[s][x], f)'
<1>. PICK old, new : old = shown[s][x] /\ new = shown'[s][x]  OBVIOUS
<1>1. old \in Events \cup {NoEvent}  BY DEF TypeOK
<1>2. new = old \/ (new = e /\ Due(e, old))
  <2>1. CASE s # e.symbol
    <3>1. shown'[s] = shown[s]  BY <2>1 DEF Accept, TypeOK
    <3>. QED  BY <3>1
  <2>2. CASE s = e.symbol
    <3>1. shown'[s] = Show(e)  BY <2>2 DEF Accept, TypeOK
    <3>. QED  BY <2>2, <3>1 DEF Show
  <2>. QED  BY <2>1, <2>2
<1>3. new \in Events \cup {NoEvent} /\ (old # NoEvent => new # NoEvent /\ old.ts <= new.ts)
  <2>1. CASE new = old  BY <1>1, <2>1, EventFacts
  <2>2. CASE new = e /\ Due(e, old)
    <3>1. e # NoEvent /\ e.ts \in Nat /\ (old # NoEvent => old.ts \in Nat /\ e.ts >= old.ts)
      BY <1>1, <2>2, EventFacts DEF Due
    <3>. QED  BY <2>2, <3>1
  <2>. QED  BY <1>2, <2>1, <2>2
<1>4. ASSUME NEW f, IsOlder(s, shown[s][x], f)  PROVE IsOlder(s, shown[s][x], f)'
  <2>. SUFFICES ASSUME f # NoEvent
                PROVE  f \in delivered' /\ f.symbol = s /\ new # NoEvent /\ f.ts <= new.ts
    BY DEF IsOlder
  <2>1. f \in delivered /\ f.symbol = s /\ old # NoEvent /\ f.ts <= old.ts
    BY <1>4 DEF IsOlder
  <2>2. f \in Events /\ delivered' = delivered \cup {e}  BY <2>1 DEF Accept, TypeOK
  <2>3. f.ts \in Nat /\ old.ts \in Nat /\ new.ts \in Nat  BY <1>1, <1>3, <2>1, <2>2, EventFacts
  <2>. QED  BY <1>3, <2>1, <2>2, <2>3
<1>. QED  BY <1>4

LEMMA StepLooksBack ==
  TypeOK /\ Invariants /\ LooksBack /\ [Next]_vars => LooksBack'
<1>. SUFFICES ASSUME TypeOK, Invariants, LooksBack, [Next]_vars  PROVE LooksBack'
  OBVIOUS
<1>1. ASSUME NEW e \in Events, Accept(e), UNCHANGED previous, LookBack(e) \/ UNCHANGED base
      PROVE  LooksBack'
  <2>1. \A stream \in heard' : \E f \in delivered' : f.stream = stream
    BY <1>1 DEF Accept, LooksBack
  <2>2. ASSUME NEW s \in Symbols
        PROVE  /\ \A f \in {base'[s], previous'[s]["belief"]} :
                    IsOlder(s, shown[s]["belief"], f)' /\ (f # NoEvent => HasBelief(f))
               /\ \A f \in {previous'[s]["hysteresis"]} :
                    IsOlder(s, shown[s]["hysteresis"], f)' /\ (f # NoEvent => HasState(f))
    <3>. PICK b, c, h : b = base[s] /\ c = previous[s]["belief"] /\ h = previous[s]["hysteresis"]
      OBVIOUS
    <3>1. /\ \A f \in {b, c} :
               IsOlder(s, shown[s]["belief"], f) /\ (f # NoEvent => HasBelief(f))
          /\ IsOlder(s, shown[s]["hysteresis"], h) /\ (h # NoEvent => HasState(h))
      BY DEF LooksBack
    <3>2. \A f \in {b, c} : IsOlder(s, shown[s]["belief"], f)'
      BY <1>1, <3>1, ShownIsNewer DEF Sections
    <3>3. IsOlder(s, shown[s]["hysteresis"], h)'
      BY <1>1, <3>1, ShownIsNewer DEF Sections
    <3>4. previous'[s]["belief"] = c /\ previous'[s]["hysteresis"] = h  BY <1>1
    <3>5. base'[s] = b \/ base'[s] = c
      <4>1. CASE UNCHANGED base  BY <4>1
      <4>2. CASE LookBack(e)
        <5>1. CASE s = e.symbol  BY <4>2, <5>1 DEF LookBack, TypeOK
        <5>2. CASE s # e.symbol  BY <4>2, <5>2 DEF LookBack, TypeOK
        <5>. QED  BY <5>1, <5>2
      <4>. QED  BY <1>1, <4>1, <4>2
    <3>. QED  BY <3>1, <3>2, <3>3, <3>4, <3>5
  <2>. QED  BY <2>1, <2>2 DEF LooksBack, IsOlder, HasBelief, HasState
<1>2. ASSUME NEW e \in Events, IngestOrchestrator(e) \/ IngestStateGate(e) \/ IngestAnalysis(e)
      PROVE  LooksBack'
  BY <1>1, <1>2 DEF IngestOrchestrator, IngestStateGate, IngestAnalysis
<1>3. CASE Build
  <2>1. UNCHANGED <<shown, base, heard, delivered>>  BY <1>3 DEF Build
  <2>2. ASSUME NEW s \in Symbols, NEW x \in {"hysteresis", "belief"}
        PROVE  /\ IsOlder(s, shown[s][x], previous[s][x])'
               /\ previous'[s][x] # NoEvent => Carries(previous'[s][x], x)
    <3>. PICK now : now = shown[s][x]  OBVIOUS
    <3>1. LatestOf(Carriers(s, x), now)
      BY SectionsUnfolded DEF Invariants, Sections
    <3>2. previous'[s][x] = now
      BY <1>3 DEF Build
    <3>3. now # NoEvent => now \in delivered /\ now.symbol = s /\ Carries(now, x)
      BY <3>1 DEF LatestOf, Carriers
    <3>4. now # NoEvent => now.ts \in Nat  BY <3>3, EventFacts DEF TypeOK
    <3>5. IsOlder(s, now, now)  BY <3>3, <3>4 DEF IsOlder
    <3>. QED  BY <2>1, <3>2, <3>3, <3>5 DEF IsOlder
  <2>3. ASSUME NEW s \in Symbols
        PROVE  IsOlder(s, shown[s]["belief"], base[s])' /\ (base'[s] # NoEvent => HasBelief(base'[s]))
    BY <2>1 DEF LooksBack, IsOlder
  <2>4. \A stream \in heard' : \E e \in delivered' : e.stream = stream
    BY <2>1 DEF LooksBack
  <2>5. ASSUME NEW s \in Symbols
        PROVE  /\ IsOlder(s, shown[s]["belief"], previous[s]["belief"])'
               /\ previous'[s]["belief"] # NoEvent => HasBelief(previous'[s]["belief"])
               /\ IsOlder(s, shown[s]["hysteresis"], previous[s]["hysteresis"])'
               /\ previous'[s]["hysteresis"] # NoEvent => HasState(previous'[s]["hysteresis"])
    BY <2>2 DEF Carries, IsOlder
  <2>. QED  BY <2>3, <2>4, <2>5 DEF LooksBack, IsOlder, HasBelief, HasState
<1>4. ASSUME UNCHANGED <<shown, base, heard, previous, delivered>>  PROVE LooksBack'
  BY <1>4 DEF LooksBack, IsOlder
<1>. QED  BY <1>2, <1>3, <1>4 DEF Next, Refuse, vars

(* What a snapshot says, from what it looks back to.                          *)
LEMMA StepIsHonest == Invariants /\ LooksBack /\ [Next]_vars => HonestStep
<1>. SUFFICES ASSUME Invariants, LooksBack, [Next]_vars, view' # view  PROVE HonestStep
  BY DEF HonestStep
<1>1. Build
  BY DEF Next, IngestOrchestrator, IngestStateGate, IngestAnalysis, Refuse, vars
<1>2. view' = Snapshot  BY <1>1 DEF Build
<1>3. /\ view'.system = Status
      /\ \A s \in Symbols : view'.belief[s] = BeliefTrend(s) /\ view'.confidence[s] = ConfidenceTrend(s)
  BY <1>2 DEF Snapshot
<1>4. ASSUME view'.system = "OK"
      PROVE  ~failed /\ \A stream \in Streams : \E e \in delivered : e.stream = stream
  BY <1>3, <1>4 DEF Status, Stale, LooksBack
<1>5. \A a, b : /\ Compare(a, b) = "RISING" => b > a
                /\ Compare(a, b) = "FALLING" => b < a
  BY DEF Compare
<1>6. ASSUME NEW s \in Symbols
      PROVE  LET now == shown[s]["belief"]
                 state == shown[s]["hysteresis"]
                 Upto(f) == {e \in delivered : e.symbol = s /\ e.ts <= f.ts}
                 Beliefs == {e \in Upto(now) : HasBelief(e)}
                 States == {e \in Upto(state) : HasState(e)}
                 Mass(e) == e.belief[Anchor(now.belief)]
             IN /\ view'.belief[s] = "RISING" =>
                     \E e \in Beliefs : Mass(e) < Mass(now)
                /\ view'.belief[s] = "FALLING" =>
                     \E e \in Beliefs : Mass(e) > Mass(now)
                /\ view'.confidence[s] = "RISING" =>
                     \E e \in States : Confidence(e) < Confidence(state)
                /\ view'.confidence[s] = "FALLING" =>
                     \E e \in States : Confidence(e) > Confidence(state)
  <2>. PICK now, state, b, h : /\ now = shown[s]["belief"] /\ b = base[s]
                              /\ state = shown[s]["hysteresis"]
                              /\ h = previous[s]["hysteresis"]
    OBVIOUS
  <2>. DEFINE Upto(f) == {e \in delivered : e.symbol = s /\ e.ts <= f.ts}
              Beliefs == {e \in Upto(now) : HasBelief(e)}
              States == {e \in Upto(state) : HasState(e)}
              r == Anchor(now.belief)
  <2>1. (b # NoEvent => b \in Beliefs) /\ (h # NoEvent => h \in States)
    BY DEF LooksBack, IsOlder
  <2>2. BeliefTrend(s) = IF now = NoEvent \/ b = NoEvent THEN "UNKNOWN"
                         ELSE Compare(b.belief[r], now.belief[r])
    BY DEF BeliefTrend
  <2>3. ConfidenceTrend(s) = IF h = NoEvent THEN "FLAT" ELSE Compare(Confidence(h), Confidence(state))
    BY DEF ConfidenceTrend
  <2>. HIDE DEF Beliefs, States, r
  <2>4. /\ BeliefTrend(s) = "RISING" => \E e \in Beliefs : e.belief[r] < now.belief[r]
        /\ BeliefTrend(s) = "FALLING" => \E e \in Beliefs : e.belief[r] > now.belief[r]
    BY <1>5, <2>1, <2>2
  <2>5. /\ ConfidenceTrend(s) = "RISING" => \E e \in States : Confidence(e) < Confidence(state)
        /\ ConfidenceTrend(s) = "FALLING" => \E e \in States : Confidence(e) > Confidence(state)
    BY <1>5, <2>1, <2>3
  <2>. QED  BY <1>3, <2>4, <2>5 DEF Beliefs, States, r
<1>. QED  BY <1>4, <1>6 DEF HonestStep

(* For any events delivered in any order and number, a snapshot is "OK" only  *)
(* if every stream was heard and nothing refused, and a trend it shows is that *)
(* from an event that was delivered and is no newer than the one shown.        *)
THEOREM ViewStaysHonest == Spec => ViewIsHonest
<1>1. Init => TypeOK /\ Invariants /\ LooksBack
  BY InitTypes, InitInvariants, InitLooksBack
<1>2. (TypeOK /\ Invariants /\ LooksBack) /\ [Next]_vars => (TypeOK /\ Invariants /\ LooksBack)'
  BY StepTypes, StepInvariants, StepLooksBack
<1>3. (TypeOK /\ Invariants /\ LooksBack) /\ [Next]_vars => [HonestStep]_vars
  BY StepIsHonest
<1>. QED  BY <1>1, <1>2, <1>3, PTL DEF Spec, ViewIsHonest
=============================================================================
