---- MODULE ComputationProofs ----
(* Proofs about the computation of a run, for all thresholds, windows and sets   *)
(* of symbols, whatever the messages: numbers, evidence, the published regime,     *)
(* and the way of every record from its message to the features of a run.           *)
(*                                                                                 *)
(* There are two inductive invariants.  EvidenceInv is about what a run publishes;   *)
(* there features enter as they are, and what observers find that is no number      *)
(* counts for none.  ComputedInv says that the records of the buffer are those of    *)
(* the messages received, and that what a run computed is still what its cut gives.  *)
(* In between are the lemmas about sums, orders and cardinalities that the latter     *)
(* is used with.                                                                    *)
EXTENDS Computation, HysteresisRulesProofs, WellFoundedInduction, FiniteSetTheorems, SequenceTheorems

LEMMA RegimesAreNine == Regime = 1..9
BY RegimesAssumption DEF Regime

LEMMA UnitsAreNumbers == \A x \in 0..Unit : x \in Int
BY DEF Unit

LEMMA ClampBounds ==
  ASSUME NEW x \in Int  PROVE  Clamp(x) \in 0..Unit
BY DEF Clamp, Unit

LEMMA AvailabilityBounds ==
  ASSUME NEW n \in {1, 2, 5}, NEW p \in 0..n  PROVE  Availability(p, n) \in 0..Unit
BY DEF Availability, Unit

LEMMA PresentBounds ==
  ASSUME NEW fs, NEW key  PROVE  Present(fs, key) \in 0..1
BY DEF Present

LEMMA NumberType ==
  ASSUME NEW fs, NEW key  PROVE  Number(fs, key) \in Int \cup {None}
BY DEF Number, IsNumber

LEMMA SizeType ==
  ASSUME NEW n \in Int  PROVE  Size(n) \in Nat
BY DEF Size

(* The ratio is an integer or none, whatever the features are. *)
LEMMA FlowRatioType ==
  ASSUME NEW fs  PROVE  FlowRatio(fs) \in Int \cup {None}
<1>. DEFINE cvd == Number(fs, "cvd")
            oi == Number(fs, "open_interest")
<1>1. cvd \in Int \cup {None} /\ oi \in Int \cup {None}  BY NumberType
<1>. HIDE DEF cvd, oi
<1>2. ASSUME cvd # None, oi # None, oi > 0
      PROVE  (1000 * Size(cvd)) \div oi \in Int
  <2>1. cvd \in Int /\ oi \in Nat \ {0}  BY <1>1, <1>2
  <2>2. 1000 * Size(cvd) \in Int  BY <2>1, SizeType
  <2>. QED  BY <2>1, <2>2
<1>. QED  BY <1>1, <1>2 DEF FlowRatio, cvd, oi

LEMMA TrendSignType ==
  ASSUME NEW fs  PROVE  TrendSign(fs) \in {-1, 0, 1} \cup {None}
BY DEF TrendSign

LEMMA TimesType ==
  ASSUME NEW m \in Int, NEW n \in Int  PROVE  Times(m, n) \in Int
<1>1. m * n \in Int  OBVIOUS
<1>. QED  BY <1>1 DEF Times, Unit

LEMMA LevelsType ==
  ASSUME NEW v \in Int \cup {None}, NEW f \in Int \cup {None}
  PROVE  /\ VolLevel(v) \in Int /\ HighVol(v) \in Int
         /\ LowFlow(f) \in Int /\ MedFlow(f) \in Int /\ HighFlow(f) \in Int
<1>1. \A x \in Int : Clamp(x) \in Int  BY ClampBounds, UnitsAreNumbers
<1>2. FlowSize(f) \in Int
  <2>1. CASE f = None  BY <2>1 DEF FlowSize
  <2>2. CASE f # None  BY <2>2, SizeType DEF FlowSize
  <2>. QED  BY <2>1, <2>2
<1>3. LowFlow(f) \in Int /\ MedFlow(f) \in Int /\ HighFlow(f) \in Int
  <2>1. /\ 600 * (10 - FlowSize(f)) \in Int /\ 300 * FlowSize(f) \in Int
        /\ 120 * FlowSize(f) \in Int
    BY <1>2
  <2>. QED  BY <1>1, <2>1 DEF LowFlow, MedFlow, HighFlow
<1>4. CASE v = None  BY <1>3, <1>4 DEF VolLevel, HighVol
<1>5. CASE v # None
  <2>1. 100 * (v + 20) \in Int /\ 150 * (v - 20) \in Int  BY <1>5
  <2>. QED  BY <1>1, <1>3, <1>5, <2>1 DEF VolLevel, HighVol
<1>. QED  BY <1>4, <1>5

LEMMA ScoreType ==
  ASSUME NEW r \in Regime, NEW v \in Int \cup {None}, NEW f \in Int \cup {None}, NEW ts
  PROVE  ClassicalScore(r, v, f, ts) \in Int
<1>1. Unit - VolLevel(v) \in Int  BY LevelsType DEF Unit
<1>2. /\ Times(Unit - VolLevel(v), LowFlow(f)) \in Int
      /\ Times(VolLevel(v), LowFlow(f)) \in Int
      /\ Times(VolLevel(v), MedFlow(f)) \in Int
      /\ Times(HighVol(v), LowFlow(f)) \in Int
      /\ Times(HighVol(v), MedFlow(f)) \in Int
      /\ Times(HighVol(v), HighFlow(f)) \in Int
  BY <1>1, LevelsType, TimesType
<1>3. /\ r = ChopBalanced \/ r = ChopStophunt \/ r = LiquidationUp \/ r = LiquidationDown
         \/ r = SqueezeUp \/ r = SqueezeDown \/ r = TrendBuildUp \/ r = TrendBuildDown
         \/ r = TrendExhaustion
  BY RegimesAreNine DEF ChopBalanced, ChopStophunt, LiquidationUp, LiquidationDown, SqueezeUp,
     SqueezeDown, TrendBuildUp, TrendBuildDown, TrendExhaustion
<1>. QED
  BY <1>2, <1>3 DEF ClassicalScore, ChopBalanced, ChopStophunt, LiquidationUp, LiquidationDown,
     SqueezeUp, SqueezeDown, TrendBuildUp, TrendBuildDown, TrendExhaustion

(* Every score is between none and all. *)
LEMMA ScoresType ==
  ASSUME NEW fs  PROVE  ClassicalScores(fs) \in [Regime -> 0..Unit]
<1>1. \A r \in Regime :
        Clamp(ClassicalScore(r, Number(fs, "atr_z"), FlowRatio(fs), TrendSign(fs))) \in 0..Unit
  BY ScoreType, NumberType, FlowRatioType, ClampBounds
<1>. QED  BY <1>1 DEF ClassicalScores

(* One of finitely many scores is the greatest, and the first of those. *)
LEMMA TopOfScores ==
  ASSUME NEW b \in [Regime -> 0..Unit]
  PROVE  /\ TopRegime(b) \in Regime
         /\ \A q \in Regime : \/ b[q] < b[TopRegime(b)]
                              \/ b[q] = b[TopRegime(b)] /\ TopRegime(b) <= q
<1>. DEFINE Over(r, q) == b[q] < b[r] \/ (b[q] = b[r] /\ r <= q)
            Top(n) == \E r \in 1..n : \A q \in 1..n : Over(r, q)
<1>1. \A r \in 1..9 : b[r] \in Int  BY RegimesAreNine, UnitsAreNumbers
<1>2. Top(1)  BY <1>1
<1>3. ASSUME NEW n \in 1..8, Top(n)  PROVE  Top(n + 1)
  <2>1. PICK r \in 1..n : \A q \in 1..n : Over(r, q)  BY <1>3
  <2>2. CASE Over(r, n + 1)
    <3>1. \A q \in 1..(n + 1) : Over(r, q)  BY <2>1, <2>2
    <3>. QED  BY <3>1
  <2>3. CASE ~Over(r, n + 1)
    <3>1. b[r] < b[n + 1]  BY <1>1, <2>3
    <3>2. \A q \in 1..(n + 1) : Over(n + 1, q)  BY <1>1, <2>1, <3>1
    <3>. QED  BY <3>2
  <2>. QED  BY <2>2, <2>3
<1>4. Top(9)
  <2>. HIDE DEF Top
  <2>1. Top(2) /\ Top(3) /\ Top(4) /\ Top(5)  BY <1>2, <1>3
  <2>2. Top(6) /\ Top(7) /\ Top(8)  BY <2>1, <1>3
  <2>. QED  BY <2>2, <1>3
<1>. QED  BY <1>4, RegimesAreNine DEF TopRegime
-----------------------------------------------------------------------------
(* What the observers say always names a regime and stays within its bounds. *)
LEMMA ClassicalType ==
  ASSUME NEW fs
  PROVE  \E o \in EngineOpinions : Classical(fs) = {o}
<1>. DEFINE scores == ClassicalScores(fs)
            winner == TopRegime(scores)
            present == Present(fs, "price") + Present(fs, "vwap") + Present(fs, "atr_z")
                         + Present(fs, "cvd") + Present(fs, "open_interest")
            o == EvidenceOpinion(winner, scores[winner], Availability(present, 5), "classical")
<1>1. winner \in Regime /\ scores[winner] \in 0..Unit  BY ScoresType, TopOfScores
<1>2. present \in 0..5  BY PresentBounds
<1>. HIDE DEF present, winner, scores
<1>3. Availability(present, 5) \in 0..Unit  BY <1>2, AvailabilityBounds
<1>4. o \in EngineOpinions  BY <1>1, <1>3 DEF EvidenceOpinion, EngineOpinions, Observers
<1>5. Classical(fs) = {o}  BY DEF Classical, present, winner, scores
<1>. QED  BY <1>4, <1>5

LEMMA FlowPressureType ==
  ASSUME NEW fs
  PROVE  FlowPressure(fs) = {} \/ \E o \in EngineOpinions : FlowPressure(fs) = {o}
<1>. DEFINE f == FlowRatio(fs)
            v == Number(fs, "atr_z")
            present == Present(fs, "cvd") + Present(fs, "open_interest")
            o == EvidenceOpinion(FlowRegime(f, v), Clamp(300 * Size(f)),
                                 Availability(present, 2), "flow_pressure")
<1>1. CASE f = None  BY <1>1 DEF FlowPressure
<1>2. CASE f # None /\ Size(f) < 2  BY <1>2 DEF FlowPressure
<1>3. CASE f # None /\ ~(Size(f) < 2)
  <2>1. FlowPressure(fs) = {o}  BY <1>3 DEF FlowPressure
  <2>2. f \in Int  BY <1>3, FlowRatioType
  <2>3. present \in 0..2  BY PresentBounds
  <2>. HIDE DEF f, v, present
  <2>4. 300 * Size(f) \in Int  BY <2>2, SizeType
  <2>5. Clamp(300 * Size(f)) \in 0..Unit  BY <2>4, ClampBounds
  <2>6. Availability(present, 2) \in 0..Unit  BY <2>3, AvailabilityBounds
  <2>7. FlowRegime(f, v) \in Regime
    BY RegimesAreNine DEF FlowRegime, LiquidationUp, LiquidationDown, SqueezeUp, SqueezeDown,
       TrendBuildUp, TrendBuildDown
  <2>8. o \in EngineOpinions  BY <2>5, <2>6, <2>7 DEF EvidenceOpinion, EngineOpinions, Observers
  <2>. QED  BY <2>1, <2>8
<1>. QED  BY <1>1, <1>2, <1>3

LEMMA VolatilityContextType ==
  ASSUME NEW fs
  PROVE  VolatilityContext(fs) = {} \/ \E o \in EngineOpinions : VolatilityContext(fs) = {o}
<1>. DEFINE v == Number(fs, "atr_z")
            regime == VolatilityRegime(v, TrendSign(fs))
            present == Present(fs, "atr_z")
            o == EvidenceOpinion(regime, Clamp(150 * (v - 4)), Availability(present, 1),
                                 "volatility_context")
<1>1. CASE v = None \/ regime = NoRegime  BY <1>1 DEF VolatilityContext
<1>2. CASE v # None /\ regime # NoRegime
  <2>1. VolatilityContext(fs) = {o}  BY <1>2 DEF VolatilityContext
  <2>2. v \in Int  BY <1>2, NumberType
  <2>3. regime \in Regime
    BY <1>2, RegimesAreNine DEF VolatilityRegime, ChopBalanced, ChopStophunt, TrendExhaustion,
       SqueezeUp, SqueezeDown
  <2>4. present \in 0..1  BY PresentBounds
  <2>. HIDE DEF v, regime, present
  <2>5. 150 * (v - 4) \in Int  BY <2>2
  <2>6. Clamp(150 * (v - 4)) \in 0..Unit  BY <2>5, ClampBounds
  <2>7. Availability(present, 1) \in 0..Unit  BY <2>4, AvailabilityBounds
  <2>8. o \in EngineOpinions  BY <2>3, <2>6, <2>7 DEF EvidenceOpinion, EngineOpinions, Observers
  <2>. QED  BY <2>1, <2>8
<1>. QED  BY <1>1, <1>2

(* One opinion goes before another: by strength, confidence, order of regimes. *)
Before(o, p) ==
  \/ o.strength > p.strength
  \/ o.strength = p.strength /\ o.confidence > p.confidence
  \/ o.strength = p.strength /\ o.confidence = p.confidence /\ o.regime <= p.regime

HasFirst(S) == S \subseteq EngineOpinions /\ \E o \in S : \A p \in S : Before(o, p)

LEMMA OpinionNumbers ==
  ASSUME NEW o \in EngineOpinions
  PROVE  /\ o.strength \in Int /\ o.confidence \in Int /\ o.regime \in Int
         /\ o.regime # NoRegime
  BY UnitsAreNumbers, RegimesAreNine DEF EngineOpinions, NoRegime

LEMMA OneMoreHasFirst ==
  ASSUME NEW S, HasFirst(S), NEW q \in EngineOpinions
  PROVE  HasFirst(S \cup {q})
<1>1. PICK o \in S : \A p \in S : Before(o, p)  BY DEF HasFirst
<1>2. o \in EngineOpinions  BY <1>1 DEF HasFirst
<1>3. Before(q, q)  BY OpinionNumbers DEF Before
<1>4. CASE Before(o, q)
  BY <1>1, <1>4 DEF HasFirst
<1>5. CASE ~Before(o, q)
  <2>1. Before(q, o)  BY <1>2, <1>5, OpinionNumbers DEF Before
  <2>2. ASSUME NEW p \in S  PROVE  Before(q, p)
    <3>1. Before(o, p) /\ p \in EngineOpinions  BY <1>1 DEF HasFirst
    <3>. QED  BY <2>1, <3>1, <1>2, OpinionNumbers DEF Before
  <2>. QED  BY <1>3, <2>2 DEF HasFirst
<1>. QED  BY <1>4, <1>5

LEMMA OpinionsHaveFirst ==
  ASSUME NEW fs  PROVE  HasFirst(Opinions(fs))
<1>. DEFINE A == Classical(fs)
            B == FlowPressure(fs)
            C == VolatilityContext(fs)
<1>1. HasFirst(A)
  <2>1. PICK o \in EngineOpinions : A = {o}  BY ClassicalType
  <2>2. Before(o, o)  BY OpinionNumbers DEF Before
  <2>. QED  BY <2>1, <2>2 DEF HasFirst
<1>. HIDE DEF A, B, C
<1>2. HasFirst(A \cup B)
  <2>1. CASE B = {}  BY <1>1, <2>1
  <2>2. CASE B # {}
    <3>1. PICK o \in EngineOpinions : B = {o}  BY <2>2, FlowPressureType DEF B
    <3>. QED  BY <1>1, <3>1, OneMoreHasFirst
  <2>. QED  BY <2>1, <2>2
<1>3. HasFirst((A \cup B) \cup C)
  <2>1. CASE C = {}  BY <1>2, <2>1
  <2>2. CASE C # {}
    <3>1. PICK o \in EngineOpinions : C = {o}  BY <2>2, VolatilityContextType DEF C
    <3>. QED  BY <1>2, <3>1, OneMoreHasFirst
  <2>. QED  BY <2>1, <2>2
<1>. QED  BY <1>3 DEF Opinions, A, B, C

(* The regime that is selected is that of a first opinion; none outweighs it. *)
LEMMA SelectedIsFirst ==
  ASSUME NEW S, HasFirst(S)
  PROVE  \E o \in S : o.regime = Selected(S) /\ \A p \in S : Before(o, p)
<1>. DEFINE first == CHOOSE o \in S : \A p \in S : Before(o, p)
<1>1. first \in S /\ \A p \in S : Before(first, p)  BY DEF HasFirst
<1>2. S # {} /\ Selected(S) = first.regime  BY <1>1 DEF Selected, Before
<1>. HIDE DEF first
<1>. QED  BY <1>1, <1>2

LEMMA SelectedIsHeld ==
  ASSUME NEW S, HasFirst(S)
  PROVE  /\ Selected(S) \in Regime
         /\ \E o \in S : o.regime = Selected(S) /\ \A p \in S : p.strength <= o.strength
<1>1. PICK o \in S : o.regime = Selected(S) /\ \A p \in S : Before(o, p)  BY SelectedIsFirst
<1>2. \A p \in S : p \in EngineOpinions  BY DEF HasFirst
<1>3. o.regime \in Regime  BY <1>1, <1>2 DEF EngineOpinions
<1>4. \A p \in S : p.strength <= o.strength
  BY <1>1, <1>2, OpinionNumbers DEF Before
<1>. QED  BY <1>1, <1>3, <1>4
-----------------------------------------------------------------------------
(* What the engine is given is the evidence of the run, whatever the cut brought. *)
LEMMA EvidenceIsEmbedded ==
  ASSUME NEW s \in Symbols, NEW t \in Int
  PROVE  LET ev == EvidenceSnapshot(FeatureSnapshot(Cut(s), s, t), s, t)
         IN  /\ Snapshot(s, t) = [symbol |-> s, timestamp |-> t, embedded |-> ev]
             /\ ev # None
<1>. DEFINE fs == FeatureSnapshot(Cut(s), s, t)
            ev == EvidenceSnapshot(fs, s, t)
            shell == Shell(Cut(s), s, t)
<1>1. HasFirst(Opinions(fs))  BY OpinionsHaveFirst
<1>2. ev = [symbol |-> s, timestamp |-> t, opinions |-> Opinions(fs)]  BY DEF EvidenceSnapshot
<1>3. ev.opinions # {} /\ ev.opinions \subseteq EngineOpinions  BY <1>1, <1>2 DEF HasFirst
<1>4. ev # None
  BY <1>2, <1>3, ComputationAssumption
<1>5. \E e : shell = [symbol |-> s, timestamp |-> t, embedded |-> e]  BY DEF Shell
<1>. HIDE DEF fs, ev, shell
<1>6. Snapshot(s, t) = Embed(shell, ev)  BY DEF Snapshot, fs, ev, shell
<1>7. Embed(shell, ev) = [symbol |-> s, timestamp |-> t, embedded |-> ev]
  BY <1>3, <1>5 DEF Embed
<1>. QED  BY <1>4, <1>6, <1>7 DEF ev, fs

(* The engine reads all of it back, and publishes the regime it selects.  *)
LEMMA RunIsEvident ==
  ASSUME NEW s \in Symbols, NEW t \in Int
  PROVE  LET spoken == Opinions(FeatureSnapshot(Cut(s), s, t))
             out == RunPipeline(Snapshot(s, t))
         IN  /\ out.regime = Selected(spoken)
             /\ out.drivers = {o.source : o \in spoken}
             /\ out.invalidations = {}
             /\ out.symbol = s /\ out.timestamp = t
             /\ RunOpinion(Snapshot(s, t)) = out.regime
             /\ Explained(out)
<1>. DEFINE spoken == Opinions(FeatureSnapshot(Cut(s), s, t))
            ev == EvidenceSnapshot(FeatureSnapshot(Cut(s), s, t), s, t)
            snapshot == [symbol |-> s, timestamp |-> t, embedded |-> ev]
            read == Extract(snapshot)
<1>1. Snapshot(s, t) = snapshot /\ ev # None  BY EvidenceIsEmbedded
<1>2. HasFirst(spoken)  BY OpinionsHaveFirst
<1>3. ev.symbol = s /\ ev.timestamp = t /\ ev.opinions = spoken  BY DEF EvidenceSnapshot
<1>. HIDE DEF spoken, ev
<1>4. /\ spoken # {}
      /\ \A o \in spoken : o.regime \in Regime /\ o.strength \in 0..Unit /\ o.confidence \in 0..Unit
  BY <1>2 DEF HasFirst, EngineOpinions
<1>5. read = [opinions |-> spoken, drivers |-> {o.source : o \in spoken}, invalidations |-> {}]
  <2>. DEFINE good == {o \in ev.opinions : Named(o) /\ Bounded(o)}
  <2>1. good = spoken  BY <1>3, <1>4 DEF Named, Bounded
  <2>2. ev.opinions \ good = {}  BY <1>3, <2>1
  <2>. HIDE DEF good
  <2>3. snapshot.embedded = ev /\ snapshot.symbol = s /\ snapshot.timestamp = t  OBVIOUS
  <2>. HIDE DEF snapshot
  <2>. QED  BY <1>3, <1>4, <2>1, <2>2, <2>3 DEF Extract, good
<1>6. Selected(spoken) \in Regime  BY <1>2, SelectedIsHeld
<1>7. Projected(Selected(spoken)) = Selected(spoken)
  BY <1>6, TopRegimeType, RegimesAreNine DEF Projected, Opinion, NoRegime
<1>8. \E c : RunPipeline(snapshot) = EvidenceOutput(snapshot, read, c)
  BY <1>1 DEF RunPipeline
<1>9. RunOpinion(snapshot) = Selected(read.opinions)  BY <1>1 DEF RunOpinion
<1>10. PICK c : RunPipeline(snapshot) = EvidenceOutput(snapshot, read, c)  BY <1>8
<1>. HIDE DEF read
<1>11. \E d : RunPipeline(snapshot) =
         Output(snapshot, Projected(Selected(read.opinions)), d, read.drivers, read.invalidations)
  BY <1>10 DEF EvidenceOutput
<1>12. PICK d : RunPipeline(snapshot) =
         Output(snapshot, Selected(spoken), d, {o.source : o \in spoken}, {})
  BY <1>5, <1>7, <1>11
<1>13. /\ RunPipeline(snapshot).regime = Selected(spoken)
       /\ RunPipeline(snapshot).drivers = {o.source : o \in spoken}
       /\ RunPipeline(snapshot).invalidations = {}
       /\ RunPipeline(snapshot).symbol = s /\ RunPipeline(snapshot).timestamp = t
       /\ RunPipeline(snapshot).permissions # {}
  BY <1>6, <1>12, RegimesAreNine DEF Output, NoRegime
<1>14. Selected(spoken) # NoRegime  BY <1>6, RegimesAreNine DEF NoRegime
<1>15. {o.source : o \in spoken} # {}  BY <1>4
<1>16. Explained(RunPipeline(snapshot))  BY <1>13, <1>14, <1>15 DEF Explained
<1>. HIDE DEF snapshot
<1>. QED  BY <1>1, <1>5, <1>9, <1>13, <1>16 DEF spoken
-----------------------------------------------------------------------------
(* The inductive invariant.  Each run says what its evidence says and was        *)
(* explained; its anchor, and what the memory of its symbol keeps, are regimes   *)
(* some run of the symbol published.  The property speaks of anchors only; it is  *)
(* the memory that says where the next one comes from.                           *)
Published(s) == {runs[s][k].output.regime : k \in 1..Len(runs[s])}

RunIsRight(s, k) ==
  LET out == runs[s][k].output
      spoken == Opinions(runs[s][k].features)
  IN  /\ \E o \in spoken : o.regime = out.regime /\ \A p \in spoken : p.strength <= o.strength
      /\ out.drivers = {o.source : o \in spoken}
      /\ out.invalidations = {}
      /\ out.symbol = s /\ out.timestamp = runs[s][k].ts
      /\ Explained(out)

AnchorIsPublished(s, k) == \E j \in 1..k : runs[s][k].anchor = runs[s][j].output.regime

MemoryIsPublished(s) ==
  \/ memory[s] = NoState /\ runs[s] = <<>>
  \/ /\ memory[s] \in HState
     /\ memory[s].anchor \in Published(s)
     /\ memory[s].candidate \in {NoRegime} \cup Published(s)

SymbolInv(s) ==
  /\ \E R : runs[s] \in Seq(R)
  /\ \A k \in 1..Len(runs[s]) : RunIsRight(s, k) /\ AnchorIsPublished(s, k)
  /\ MemoryIsPublished(s)

EvidenceInv ==
  /\ clock \in Nat
  /\ DOMAIN runs = Symbols /\ DOMAIN memory = Symbols
  /\ \A s \in Symbols : SymbolInv(s)

LEMMA EvidenceInit == Init => EvidenceInv
<1>. SUFFICES ASSUME Init  PROVE EvidenceInv  OBVIOUS
<1>. USE DEF Init
<1>1. ASSUME NEW s \in Symbols  PROVE SymbolInv(s)
  <2>1. runs[s] = <<>> /\ memory[s] = NoState  OBVIOUS
  <2>2. runs[s] \in Seq({}) /\ Len(runs[s]) = 0  BY <2>1
  <2>3. MemoryIsPublished(s)  BY <2>1 DEF MemoryIsPublished
  <2>. QED  BY <2>2, <2>3 DEF SymbolInv
<1>. QED  BY <1>1 DEF EvidenceInv

(* What one more run adds to the runs of its symbol. *)
LEMMA RunJoins ==
  ASSUME EvidenceInv, NEW s \in Symbols, NEW t \in Int,
         runs'[s] = Append(runs[s], RunOf(s, t)), memory'[s] = Stepped(s, t)
  PROVE  SymbolInv(s)'
<1>. DEFINE run == RunOf(s, t)
            old == runs[s]
            new == runs'[s]
            o == RunOpinion(Snapshot(s, t))
            h == memory[s]
<1>1. SymbolInv(s)  BY DEF EvidenceInv
<1>2. PICK R : old \in Seq(R)  BY <1>1 DEF SymbolInv
<1>n. PICK n \in Nat : n = Len(old) + 1  BY <1>2
<1>. DEFINE R1 == R \cup {run}
<1>3. old \in Seq(R1) /\ run \in R1  BY <1>2
<1>4. /\ new \in Seq(R1) /\ Len(new) = n /\ n >= 1 /\ new[n] = run
      /\ \A k \in 1..Len(old) : new[k] = old[k]
      /\ 1..n = 1..Len(old) \cup {n}
  <2>. HIDE DEF run, R1
  <2>. QED  BY <1>n, <1>3 DEF run
<1>5. /\ run.ts = t /\ run.features = FeatureSnapshot(Cut(s), s, t)
      /\ run.output = RunPipeline(Snapshot(s, t)) /\ run.anchor = Stepped(s, t).anchor
  BY DEF RunOf
<1>6. /\ o = run.output.regime /\ o = Selected(Opinions(run.features))
      /\ HasFirst(Opinions(run.features))
      /\ run.output.drivers = {p.source : p \in Opinions(run.features)}
      /\ run.output.invalidations = {}
      /\ run.output.symbol = s /\ run.output.timestamp = run.ts
      /\ Explained(run.output)
  <2>. HIDE DEF run
  <2>. QED  BY <1>5, RunIsEvident, OpinionsHaveFirst
<1>7. o \in Regime /\ o \in Opinion /\ o # NoRegime /\ TopRegime(Belief(o)) = o
  <2>1. o \in Regime  BY <1>6, SelectedIsHeld
  <2>. QED  BY <2>1, TopRegimeType, RegimesAreNine DEF Opinion, NoRegime
<1>8. Stepped(s, t) = Advance(h, o, HysteresisWindow)
  BY <1>5, <1>6 DEF Stepped
<1>. HIDE DEF run, R1
<1>9. RunIsRight(s, n)'
  <2>1. \E p \in Opinions(run.features) :
          p.regime = run.output.regime /\ \A q \in Opinions(run.features) : q.strength <= p.strength
    BY <1>6, SelectedIsHeld
  <2>. QED  BY <1>4, <1>6, <2>1 DEF RunIsRight
<1>10. Published(s)' = Published(s) \cup {o}
  <2>. HIDE DEF o
  <2>1. Published(s)' = {new[k].output.regime : k \in 1..n}  BY <1>4 DEF Published
  <2>2. {new[k].output.regime : k \in 1..n}
          = {new[k].output.regime : k \in 1..Len(old)} \cup {new[n].output.regime}
    BY <1>4
  <2>3. {new[k].output.regime : k \in 1..Len(old)} = Published(s)  BY <1>4 DEF Published
  <2>. QED  BY <1>4, <1>6, <2>1, <2>2, <2>3
<1>11. /\ h \in HState \cup {NoState}
       /\ AnchorOf(h, o) \in Published(s) \cup {o}
       /\ h.candidate \in {NoRegime} \cup Published(s)
  <2>1. CASE h = NoState
    BY <1>7, <2>1 DEF AnchorOf, RunAnchor, NoState
  <2>2. CASE h # NoState
    BY <1>1, <2>2 DEF SymbolInv, MemoryIsPublished, AnchorOf
  <2>. QED  BY <2>1, <2>2
<1>12. /\ Stepped(s, t) \in HState
       /\ Stepped(s, t).anchor \in {AnchorOf(h, o), h.candidate, o}
       /\ Stepped(s, t).candidate \in {NoRegime, h.candidate, o}
  <2>. DEFINE a == Advance(h, o, HysteresisWindow)
  <2>1. HysteresisWindow \in Nat  BY ComputationAssumption
  <2>2. a \in HState  BY <1>7, <1>11, <2>1, AdvanceType
  <2>3. /\ a.anchor \in {AnchorOf(h, o), h.candidate, TopRegime(Belief(o))}
        /\ a.candidate \in {NoRegime, h.candidate, TopRegime(Belief(o))}
    BY <1>7, <1>11, <2>1, AdvanceInvents
  <2>. QED  BY <1>7, <1>8, <2>2, <2>3
<1>13. Stepped(s, t).anchor # NoRegime
  BY <1>12, RegimesAreNine DEF HState, NoRegime
<1>14. /\ Stepped(s, t).anchor \in Published(s)'
       /\ Stepped(s, t).candidate \in {NoRegime} \cup Published(s)'
  BY <1>10, <1>11, <1>12, <1>13
<1>15. MemoryIsPublished(s)'
  BY <1>12, <1>14 DEF MemoryIsPublished
<1>16. AnchorIsPublished(s, n)'
  BY <1>4, <1>5, <1>14 DEF AnchorIsPublished, Published
<1>17. ASSUME NEW k \in 1..Len(old)  PROVE (RunIsRight(s, k) /\ AnchorIsPublished(s, k))'
  <2>1. RunIsRight(s, k) /\ AnchorIsPublished(s, k)  BY <1>1 DEF SymbolInv
  <2>2. new[k] = old[k] /\ \A j \in 1..k : new[j] = old[j]  BY <1>4
  <2>. QED  BY <2>1, <2>2 DEF RunIsRight, AnchorIsPublished
<1>18. \A k \in 1..Len(new) : k = n \/ k \in 1..Len(old)  BY <1>4
<1>. QED  BY <1>4, <1>9, <1>15, <1>16, <1>17, <1>18 DEF SymbolInv

LEMMA EvidenceStep == EvidenceInv /\ [Next]_vars => EvidenceInv'
<1>. SUFFICES ASSUME EvidenceInv, [Next]_vars  PROVE EvidenceInv'  OBVIOUS
<1>1. ASSUME NEW s \in Symbols, runs'[s] = runs[s], memory'[s] = memory[s]
      PROVE  SymbolInv(s)'
  BY <1>1 DEF EvidenceInv, SymbolInv, RunIsRight, AnchorIsPublished, MemoryIsPublished, Published
<1>2. CASE UNCHANGED <<clock, runs, memory>>
  BY <1>1, <1>2 DEF EvidenceInv
<1>3. CASE Tick
  <2>. DEFINE t == Cadence * clock'
  <2>1. clock' \in Nat  BY <1>3 DEF Tick, EvidenceInv
  <2>2. t \in Int  BY <2>1, ComputationAssumption
  <2>3. DOMAIN runs' = Symbols /\ DOMAIN memory' = Symbols  BY <1>3 DEF Tick
  <2>4. ASSUME NEW s \in Symbols  PROVE SymbolInv(s)'
    <3>1. \/ runs'[s] = runs[s] /\ memory'[s] = memory[s]
          \/ runs'[s] = Append(runs[s], RunOf(s, t)) /\ memory'[s] = Stepped(s, t)
      BY <1>3 DEF Tick
    <3>. HIDE DEF t
    <3>. QED  BY <1>1, <2>2, <3>1, RunJoins
  <2>. QED  BY <2>1, <2>3, <2>4 DEF EvidenceInv
<1>4. CASE \E l \in Lanes : Receive(l)  BY <1>2, <1>4 DEF Receive
<1>5. CASE Done  BY <1>2, <1>5 DEF Done, vars
<1>6. CASE UNCHANGED vars  BY <1>2, <1>6 DEF vars
<1>. QED  BY <1>3, <1>4, <1>5, <1>6 DEF Next

LEMMA EvidenceImplies == EvidenceInv => EvidenceReachesTheOutput
<1>. SUFFICES ASSUME EvidenceInv, NEW x \in AllRuns
     PROVE  LET out == Run(x).output
                spoken == Opinions(Run(x).features)
            IN  /\ \E o \in spoken : o.regime = out.regime /\ \A p \in spoken : p.strength <= o.strength
                /\ out.drivers = {o.source : o \in spoken}
                /\ out.invalidations = {}
                /\ <<out.symbol, out.timestamp>> = <<x[1], Run(x).ts>>
                /\ \E k \in 1..x[2] : Run(x).anchor = Run(<<x[1], k>>).output.regime
  BY DEF EvidenceReachesTheOutput
<1>. DEFINE s == x[1]
            k == x[2]
<1>1. s \in Symbols /\ k \in 1..Len(runs[s])
  BY ComputationAssumption DEF AllRuns
<1>2. RunIsRight(s, k) /\ AnchorIsPublished(s, k)  BY <1>1 DEF EvidenceInv, SymbolInv
<1>3. \A j \in 1..k : Run(<<s, j>>) = runs[s][j]  BY DEF Run
<1>4. Run(x) = runs[s][k]  BY DEF Run
<1>. HIDE DEF s, k
<1>. QED  BY <1>2, <1>3, <1>4 DEF RunIsRight, AnchorIsPublished, s, k

(* What a run publishes is what its own features are evidence for, whatever       *)
(* messages came and whatever a snapshot in the cut brought along; the anchor      *)
(* hysteresis keeps is a regime that was published for the symbol.                 *)
THEOREM EvidenceAlwaysReaches == Spec => []EvidenceReachesTheOutput
<1>. QED  BY EvidenceInit, EvidenceStep, EvidenceImplies, PTL DEF Spec

(* Every output can be explained: the engine's last check, which would raise and   *)
(* leave the run without hysteresis, never fails on evidence of the composer.      *)
EveryOutputIsExplained == \A s \in Symbols : \A k \in 1..Len(runs[s]) : Explained(runs[s][k].output)

(* No run of any symbol ever publishes an output that validation would refuse.     *)
THEOREM OutputsStayExplained == Spec => []EveryOutputIsExplained
<1>1. EvidenceInv => EveryOutputIsExplained
  BY DEF EvidenceInv, SymbolInv, RunIsRight, EveryOutputIsExplained
<1>. QED  BY <1>1, EvidenceInit, EvidenceStep, PTL DEF Spec
-----------------------------------------------------------------------------
LEMMA DoubleProduct ==
  ASSUME NEW p \in Int, NEW q \in Int  PROVE  p * q \in Int
OBVIOUS

(* Upside down the same features are there; the flow and the trend turn round. *)
LEMMA MirroredFeatures ==
  ASSUME NEW fs \in FeatureRecord
  PROVE  LET ms == Mirrored(fs)
         IN  /\ \A key \in DOMAIN Canonical : Present(ms, key) = Present(fs, key)
             /\ \A key \in {"price", "atr_z", "open_interest"} : Number(ms, key) = Number(fs, key)
             /\ Number(fs, "cvd") = None => Number(ms, "cvd") = None
             /\ Number(fs, "cvd") # None => Number(ms, "cvd") = -Number(fs, "cvd")
             /\ TrendSign(fs) = None => TrendSign(ms) = None
             /\ TrendSign(fs) # None => TrendSign(ms) = -TrendSign(fs)
<1>. DEFINE ms == Mirrored(fs)
            p == fs.price_last
            v == fs.vwap_3m
            w == IF v = None \/ p = None THEN v
                 ELSE [v EXCEPT !.notional = 2 * (p * v.quantity) - v.notional]
            c == IF fs.cvd_3m = None THEN None ELSE -fs.cvd_3m
<1>1. /\ p \in Int \cup {None} /\ fs.cvd_3m \in Int \cup {None}
      /\ v \in [notional : Int, quantity : Int] \cup {None}
      /\ fs.atr_z_50 \in Int \cup {None} /\ fs.open_interest_latest \in Int \cup {None}
  BY DEF FeatureRecord
<1>2. /\ ms.price_last = p /\ ms.vwap_3m = w /\ ms.atr_14 = fs.atr_14
      /\ ms.atr_z_50 = fs.atr_z_50 /\ ms.cvd_3m = c
      /\ ms.open_interest_latest = fs.open_interest_latest
  <2>1. Mirrored(fs) = [fs EXCEPT !.cvd_3m = c, !.vwap_3m = w]  BY DEF Mirrored, MirroredFlow, MirroredVwap
  <2>. HIDE DEF c, w
  <2>. QED  BY <2>1 DEF FeatureRecord
<1>3. c \in Int \cup {None} /\ (c = None <=> fs.cvd_3m = None)
  BY <1>1, NoneAssumption
<1>4. /\ w \in [notional : Int, quantity : Int] \cup {None} /\ (w = None <=> v = None)
      /\ v # None /\ p # None => /\ w.quantity = v.quantity
                                /\ w.notional = 2 * (p * v.quantity) - v.notional
      /\ v # None /\ p # None => p * v.quantity \in Int
  <2>1. CASE v = None \/ p = None  BY <1>1, <2>1
  <2>2. CASE v # None /\ p # None
    <3>1. p \in Int /\ v.quantity \in Int /\ v.notional \in Int  BY <1>1, <2>2
    <3>2. p * v.quantity \in Int  BY <3>1, DoubleProduct
    <3>3. 2 * (p * v.quantity) - v.notional \in Int  BY <3>1, <3>2
    <3>4. w = [v EXCEPT !.notional = 2 * (p * v.quantity) - v.notional]  BY <2>2, <3>2
    <3>5. w \in [notional : Int, quantity : Int]  BY <1>1, <2>2, <3>3, <3>4
    <3>6. w # None  BY <3>5, AverageAssumption
    <3>7. w.quantity = v.quantity /\ w.notional = 2 * (p * v.quantity) - v.notional
      BY <1>1, <2>2, <3>4
    <3>. QED  BY <2>2, <3>2, <3>5, <3>6, <3>7
  <2>. QED  BY <2>1, <2>2
<1>5. \A rs : /\ Feature(rs, "price") = rs.price_last /\ Feature(rs, "vwap") = rs.vwap_3m
              /\ Feature(rs, "atr") = rs.atr_14 /\ Feature(rs, "atr_z") = rs.atr_z_50
              /\ Feature(rs, "cvd") = rs.cvd_3m
              /\ Feature(rs, "open_interest") = rs.open_interest_latest
  BY DEF Feature, Canonical
<1>. HIDE DEF ms, p, v, w, c
<1>6. \A key \in DOMAIN Canonical : Present(ms, key) = Present(fs, key)
  BY <1>2, <1>3, <1>4, <1>5 DEF Present, Canonical, p, v
<1>7. \A key \in {"price", "atr_z", "open_interest"} : Number(ms, key) = Number(fs, key)
  BY <1>2, <1>5 DEF Number, p
<1>8. /\ Number(fs, "cvd") = fs.cvd_3m /\ Number(ms, "cvd") = c
      /\ Number(fs, "price") = p /\ Number(ms, "price") = p
  BY <1>1, <1>2, <1>3, <1>5, NoneAssumption DEF Number, IsNumber, p
<1>9. /\ fs.cvd_3m = None => c = None
      /\ fs.cvd_3m # None => c = -fs.cvd_3m
  BY DEF c
<1>10. /\ TrendSign(fs) = None => TrendSign(ms) = None
       /\ TrendSign(fs) # None => TrendSign(ms) = -TrendSign(fs)
  <2>1. Feature(fs, "vwap") = v /\ Feature(ms, "vwap") = w  BY <1>2, <1>5 DEF v
  <2>2. CASE v = None \/ p = None  BY <1>4, <1>8, <2>1, <2>2 DEF TrendSign
  <2>3. CASE v # None /\ p # None
    <3>1. p * v.quantity \in Int /\ v.notional \in Int  BY <1>1, <1>4, <2>3
    <3>2. p * w.quantity = p * v.quantity /\ w.notional = 2 * (p * v.quantity) - v.notional
      BY <1>4, <2>3
    <3>. DEFINE x == p * v.quantity
    <3>3. /\ TrendSign(fs) = IF x > v.notional THEN 1 ELSE IF x < v.notional THEN -1 ELSE 0
          /\ TrendSign(ms) = IF x > 2 * x - v.notional THEN 1
                             ELSE IF x < 2 * x - v.notional THEN -1 ELSE 0
      BY <1>4, <1>8, <2>1, <2>3, <3>2 DEF TrendSign
    <3>. HIDE DEF x
    <3>4. x \in Int  BY <3>1 DEF x
    <3>5. TrendSign(fs) # None  BY <3>3, NoneAssumption
    <3>. QED  BY <3>1, <3>3, <3>4, <3>5
  <2>. QED  BY <2>2, <2>3
<1>. QED  BY <1>6, <1>7, <1>8, <1>9, <1>10 DEF ms

LEMMA MirroredFlowRatio ==
  ASSUME NEW fs \in FeatureRecord
  PROVE  LET f == FlowRatio(fs)
             g == FlowRatio(Mirrored(fs))
         IN  /\ f = None => g = None
             /\ f # None => g = -f
             /\ FlowSize(g) = FlowSize(f)
<1>. DEFINE c == Number(fs, "cvd")
            d == Number(Mirrored(fs), "cvd")
            oi == Number(fs, "open_interest")
            size == (1000 * Size(c)) \div oi
<1>1. /\ c \in Int \cup {None} /\ oi \in Int \cup {None}
      /\ c = None => d = None
      /\ c # None => d = -c
      /\ Number(Mirrored(fs), "open_interest") = oi
  BY NumberType, MirroredFeatures
<1>2. CASE c = None \/ oi = None \/ oi <= 0
  BY <1>1, <1>2, NoneAssumption DEF FlowRatio, FlowSize
<1>3. CASE ~(c = None \/ oi = None \/ oi <= 0)
  <2>1. c \in Int /\ oi \in Int /\ oi > 0 /\ d = -c /\ d \in Int  BY <1>1, <1>3
  <2>2. Size(d) = Size(c)  BY <2>1 DEF Size
  <2>3. size \in Nat /\ (c = 0 => size = 0)
    <3>1. 1000 * Size(c) \in Nat /\ (c = 0 => 1000 * Size(c) = 0)  BY <2>1, SizeType DEF Size
    <3>. QED  BY <2>1, <3>1
  <2>4. /\ FlowRatio(fs) = IF c > 0 THEN size ELSE -size
        /\ FlowRatio(Mirrored(fs)) = IF d > 0 THEN size ELSE -size
    <3>1. d # None  BY <2>1, NoneAssumption
    <3>. QED  BY <1>1, <1>3, <2>2, <3>1 DEF FlowRatio
  <2>. HIDE DEF c, d, oi, size
  <2>5. FlowRatio(fs) \in Int /\ FlowRatio(Mirrored(fs)) = -FlowRatio(fs)  BY <2>1, <2>3, <2>4
  <2>6. FlowSize(FlowRatio(Mirrored(fs))) = FlowSize(FlowRatio(fs))
    BY <2>5, NoneAssumption DEF FlowSize, Size
  <2>. QED  BY <2>5, <2>6, NoneAssumption
<1>. QED  BY <1>2, <1>3

LEMMA MirroredRegimeType ==
  ASSUME NEW r \in Regime
  PROVE  MirroredRegime(r) \in Regime /\ MirroredRegime(MirroredRegime(r)) = r
<1>1. r \in 1..9  BY RegimesAreNine
<1>2. MirroredRegime(r) = IF r \in {3, 5, 7} THEN r + 1 ELSE IF r \in {4, 6, 8} THEN r - 1 ELSE r
  BY <1>1 DEF MirroredRegime, LiquidationUp, LiquidationDown, SqueezeUp, SqueezeDown, TrendBuildUp, TrendBuildDown
<1>. QED
  BY <1>1, RegimesAreNine DEF MirroredRegime, LiquidationUp, LiquidationDown, SqueezeUp, SqueezeDown, TrendBuildUp, TrendBuildDown

(* What scores for one direction scores as much for the other upside down. *)
LEMMA MirroredScores ==
  ASSUME NEW fs \in FeatureRecord, NEW r \in Regime
  PROVE  ClassicalScores(Mirrored(fs))[MirroredRegime(r)] = ClassicalScores(fs)[r]
<1>. DEFINE v == Number(fs, "atr_z")
            f == FlowRatio(fs)
            g == FlowRatio(Mirrored(fs))
            ts == TrendSign(fs)
            us == TrendSign(Mirrored(fs))
<1>1. /\ Number(Mirrored(fs), "atr_z") = v
      /\ ts = None => us = None
      /\ ts # None => us = -ts
      /\ f = None => g = None
      /\ f # None => g = -f
      /\ FlowSize(g) = FlowSize(f)
      /\ f \in Int \cup {None} /\ ts \in {-1, 0, 1} \cup {None}
  BY MirroredFeatures, MirroredFlowRatio, FlowRatioType, TrendSignType
<1>. HIDE DEF v, f, g, ts, us
<1>2. LowFlow(g) = LowFlow(f) /\ MedFlow(g) = MedFlow(f) /\ HighFlow(g) = HighFlow(f)
  BY <1>1 DEF LowFlow, MedFlow, HighFlow
<1>3. /\ (Flowing(g, 1) <=> Flowing(f, -1)) /\ (Flowing(g, -1) <=> Flowing(f, 1))
      /\ (us = 1 <=> ts = -1) /\ (us = -1 <=> ts = 1)
  BY <1>1, NoneAssumption DEF Flowing
<1>4. ClassicalScore(MirroredRegime(r), v, g, us) = ClassicalScore(r, v, f, ts)
  <2>1. r \in 1..9  BY RegimesAreNine
  <2>. USE DEF MirroredRegime, ChopBalanced, ChopStophunt, LiquidationUp, LiquidationDown, SqueezeUp,
       SqueezeDown, TrendBuildUp, TrendBuildDown, TrendExhaustion
  <2>2. CASE r = 1  BY <1>2, <2>2 DEF ClassicalScore
  <2>3. CASE r = 2  BY <1>2, <2>3 DEF ClassicalScore
  <2>4. CASE r = 3  BY <1>2, <1>3, <2>4 DEF ClassicalScore
  <2>5. CASE r = 4  BY <1>2, <1>3, <2>5 DEF ClassicalScore
  <2>6. CASE r = 5  BY <1>2, <1>3, <2>6 DEF ClassicalScore
  <2>7. CASE r = 6  BY <1>2, <1>3, <2>7 DEF ClassicalScore
  <2>8. CASE r = 7  BY <1>2, <1>3, <2>8 DEF ClassicalScore
  <2>9. CASE r = 8  BY <1>2, <1>3, <2>9 DEF ClassicalScore
  <2>10. CASE r = 9  BY <1>2, <2>10 DEF ClassicalScore
  <2>. QED  BY <2>1, <2>2, <2>3, <2>4, <2>5, <2>6, <2>7, <2>8, <2>9, <2>10
<1>5. MirroredRegime(r) \in Regime  BY MirroredRegimeType
<1>. QED  BY <1>1, <1>4, <1>5 DEF ClassicalScores, v, f, g, ts, us

(* Both directions cannot score at once, so what wins without being nothing wins  *)
(* alone in its pair.                                                            *)
LEMMA OneDirection ==
  ASSUME NEW fs, NEW r \in {LiquidationUp, SqueezeUp, TrendBuildUp}
  PROVE  ClassicalScores(fs)[r] = 0 \/ ClassicalScores(fs)[r + 1] = 0
<1>. DEFINE v == Number(fs, "atr_z")
            f == FlowRatio(fs)
            ts == TrendSign(fs)
<1>. USE DEF LiquidationUp, LiquidationDown, SqueezeUp, SqueezeDown, TrendBuildUp, TrendBuildDown,
     ChopBalanced, ChopStophunt, TrendExhaustion
<1>1. r \in Regime /\ r + 1 \in Regime  BY RegimesAreNine
<1>2. f \in Int \cup {None}  BY FlowRatioType
<1>. HIDE DEF v, f, ts
<1>3. ~Flowing(f, 1) \/ ~Flowing(f, -1)  BY <1>2 DEF Flowing
<1>4. Clamp(0) = 0  BY DEF Clamp
<1>5. ClassicalScore(r, v, f, ts) = 0 \/ ClassicalScore(r + 1, v, f, ts) = 0
  <2>1. CASE r = 3  BY <1>3, <2>1 DEF ClassicalScore
  <2>2. CASE r = 5  BY <2>2 DEF ClassicalScore
  <2>3. CASE r = 7  BY <2>3 DEF ClassicalScore
  <2>. QED  BY <2>1, <2>2, <2>3
<1>. QED  BY <1>1, <1>4, <1>5 DEF ClassicalScores, v, f, ts

(* So the best score changes direction with the market. *)
LEMMA MirroredTop ==
  ASSUME NEW fs \in FeatureRecord
  PROVE  TopRegime(ClassicalScores(Mirrored(fs))) = MirroredRegime(TopRegime(ClassicalScores(fs)))
<1>. DEFINE b == ClassicalScores(fs)
            c == ClassicalScores(Mirrored(fs))
            Top(x, r) == \A q \in Regime : x[q] < x[r] \/ (x[q] = x[r] /\ r <= q)
            w == TopRegime(b)
            m == MirroredRegime(w)
<1>1. b \in [Regime -> 0..Unit] /\ c \in [Regime -> 0..Unit]  BY ScoresType
<1>2. \A r \in Regime : b[r] \in Nat /\ c[r] \in Nat
  <2>1. 0..Unit \subseteq Nat  BY DEF Unit
  <2>. QED  BY <1>1, <2>1
<1>3. w \in Regime /\ Top(b, w)
  BY <1>1, TopOfScores
<1>4. \A r \in Regime : c[MirroredRegime(r)] = b[r] /\ c[r] = b[MirroredRegime(r)]
  BY MirroredScores, MirroredRegimeType
<1>5. \A r \in {3, 5, 7} : b[r] = 0 \/ b[r + 1] = 0
  BY OneDirection DEF LiquidationUp, SqueezeUp, TrendBuildUp
<1>6. \A r \in 1..9 : MirroredRegime(r) = IF r \in {3, 5, 7} THEN r + 1
                                         ELSE IF r \in {4, 6, 8} THEN r - 1 ELSE r
  BY DEF MirroredRegime, LiquidationUp, LiquidationDown, SqueezeUp, SqueezeDown, TrendBuildUp, TrendBuildDown
<1>. HIDE DEF b, c, w
<1>7. m \in Regime  BY <1>3, MirroredRegimeType
<1>8. Top(c, m)
  <2>1. \A q \in 1..9 : c[q] = b[IF q \in {3, 5, 7} THEN q + 1 ELSE IF q \in {4, 6, 8} THEN q - 1 ELSE q]
    BY <1>4, <1>6, RegimesAreNine
  <2>2. c[m] = b[w]  BY <1>3, <1>4
  <2>3. w \in 1..9 /\ \A q \in 1..9 : b[q] \in Nat /\ (b[q] < b[w] \/ (b[q] = b[w] /\ w <= q))
    BY <1>2, <1>3, RegimesAreNine
  <2>4. ASSUME NEW q \in 1..9  PROVE c[q] < c[m] \/ (c[q] = c[m] /\ m <= q)
    <3>. DEFINE n == MirroredRegime(q)
    <3>1. n = (IF q \in {3, 5, 7} THEN q + 1 ELSE IF q \in {4, 6, 8} THEN q - 1 ELSE q) /\ n \in 1..9
      BY <1>6
    <3>2. m = IF w \in {3, 5, 7} THEN w + 1 ELSE IF w \in {4, 6, 8} THEN w - 1 ELSE w
      BY <1>6, <2>3
    <3>3. c[q] = b[n] /\ (b[n] < b[w] \/ (b[n] = b[w] /\ w <= n))
      BY <1>4, <2>3, <3>1, RegimesAreNine
    <3>. HIDE DEF n, m
    <3>4. CASE b[n] < b[w]  BY <2>2, <3>3, <3>4
    <3>5. CASE b[n] = b[w] /\ w <= n
      <4>1. CASE m <= q  BY <2>2, <3>3, <3>5, <4>1
      <4>2. CASE ~(m <= q)
        <5>1. w \in {3, 5, 7} /\ n = w + 1  BY <2>3, <3>1, <3>2, <3>5, <4>2
        <5>2. b[w] = 0  BY <1>5, <3>5, <5>1
        <5>3. b[1] = 0 /\ w <= 1  BY <2>3, <5>2
        <5>. QED  BY <5>1, <5>3
      <4>. QED  BY <4>1, <4>2
    <3>. QED  BY <3>3, <3>4, <3>5
  <2>. QED  BY <2>4, RegimesAreNine
<1>9. \A r \in Regime : Top(c, r) => r = m
  BY <1>2, <1>7, <1>8, RegimesAreNine
<1>. HIDE DEF m
<1>10. TopRegime(c) = m  BY <1>7, <1>8, <1>9 DEF TopRegime
<1>. QED  BY <1>10 DEF b, c, w, m

Turned(o) == EvidenceOpinion(MirroredRegime(o.regime), o.strength, o.confidence, o.source)

LEMMA TurnedIs ==
  ASSUME NEW o \in EngineOpinions
  PROVE  /\ Turned(o) = [o EXCEPT !.regime = MirroredRegime(@)]
         /\ Turned(o) \in EngineOpinions
         /\ Turned(o).regime = MirroredRegime(o.regime)
         /\ Turned(o).strength = o.strength /\ Turned(o).confidence = o.confidence
<1>1. MirroredRegime(o.regime) \in Regime  BY MirroredRegimeType DEF EngineOpinions
<1>. QED  BY <1>1 DEF Turned, EvidenceOpinion, EngineOpinions

LEMMA MirroredClassical ==
  ASSUME NEW fs \in FeatureRecord
  PROVE  \E o \in EngineOpinions : Classical(fs) = {o} /\ Classical(Mirrored(fs)) = {Turned(o)}
<1>. DEFINE ms == Mirrored(fs)
            w == TopRegime(ClassicalScores(fs))
            m == TopRegime(ClassicalScores(ms))
            score(xs, r) == ClassicalScores(xs)[r]
            present(xs) == Present(xs, "price") + Present(xs, "vwap") + Present(xs, "atr_z")
                             + Present(xs, "cvd") + Present(xs, "open_interest")
            o == EvidenceOpinion(w, score(fs, w), Availability(present(fs), 5), "classical")
<1>1. Classical(fs) = {o} /\ o \in EngineOpinions  BY ClassicalType DEF Classical
<1>2. Classical(ms) = {EvidenceOpinion(m, score(ms, m), Availability(present(ms), 5), "classical")}
  BY DEF Classical
<1>3. w \in Regime  BY ScoresType, TopOfScores
<1>4. m = MirroredRegime(w)  BY MirroredTop
<1>5. score(ms, m) = score(fs, w)  BY <1>3, <1>4, MirroredScores
<1>6. present(ms) = present(fs)
  <2>1. \A key \in DOMAIN Canonical : Present(ms, key) = Present(fs, key)  BY MirroredFeatures
  <2>2. {"price", "vwap", "atr_z", "cvd", "open_interest"} \subseteq DOMAIN Canonical  BY DEF Canonical
  <2>. HIDE DEF ms
  <2>. QED  BY <2>1, <2>2
<1>. HIDE DEF ms, w, m, score, present
<1>7. Turned(o) = EvidenceOpinion(MirroredRegime(w), score(fs, w), Availability(present(fs), 5), "classical")
  BY DEF Turned, EvidenceOpinion
<1>. QED  BY <1>1, <1>2, <1>4, <1>5, <1>6, <1>7 DEF ms

LEMMA MirroredFlowPressure ==
  ASSUME NEW fs \in FeatureRecord
  PROVE  \/ FlowPressure(fs) = {} /\ FlowPressure(Mirrored(fs)) = {}
         \/ \E o \in EngineOpinions : FlowPressure(fs) = {o} /\ FlowPressure(Mirrored(fs)) = {Turned(o)}
<1>. DEFINE ms == Mirrored(fs)
            f == FlowRatio(fs)
            g == FlowRatio(ms)
            v == Number(fs, "atr_z")
            present(xs) == Present(xs, "cvd") + Present(xs, "open_interest")
            said(x, n) == EvidenceOpinion(FlowRegime(x, v), Clamp(300 * Size(x)), Availability(n, 2), "flow_pressure")
<1>1. /\ f \in Int \cup {None}
      /\ f = None => g = None
      /\ f # None => g = -f
      /\ Number(ms, "atr_z") = v
  BY FlowRatioType, MirroredFlowRatio, MirroredFeatures
<1>2. present(ms) = present(fs)
  <2>1. \A key \in DOMAIN Canonical : Present(ms, key) = Present(fs, key)  BY MirroredFeatures
  <2>2. {"cvd", "open_interest"} \subseteq DOMAIN Canonical  BY DEF Canonical
  <2>. HIDE DEF ms
  <2>. QED  BY <2>1, <2>2
<1>3. CASE f = None  BY <1>1, <1>3 DEF FlowPressure
<1>4. CASE f # None
  <2>1. f \in Int /\ g = -f /\ g # None  BY <1>1, <1>4, NoneAssumption
  <2>2. Size(g) = Size(f)  BY <2>1 DEF Size
  <2>3. CASE Size(f) < 2  BY <1>4, <2>1, <2>2, <2>3 DEF FlowPressure
  <2>4. CASE ~(Size(f) < 2)
    <3>1. FlowPressure(fs) = {said(f, present(fs))}  BY <1>4, <2>4 DEF FlowPressure
    <3>2. FlowPressure(ms) = {said(g, present(fs))}  BY <1>1, <1>2, <2>1, <2>2, <2>4 DEF FlowPressure
    <3>3. said(f, present(fs)) \in EngineOpinions  BY <3>1, FlowPressureType
    <3>. HIDE DEF f, g, v, present, ms
    <3>4. FlowRegime(g, v) = MirroredRegime(FlowRegime(f, v))
      BY <2>1, <2>4 DEF FlowRegime, Size, MirroredRegime, LiquidationUp, LiquidationDown, SqueezeUp,
         SqueezeDown, TrendBuildUp, TrendBuildDown
    <3>5. said(g, present(fs)) = Turned(said(f, present(fs)))
      BY <2>2, <3>4 DEF Turned, EvidenceOpinion
    <3>. QED  BY <3>1, <3>2, <3>3, <3>5 DEF ms
  <2>. QED  BY <2>3, <2>4
<1>. QED  BY <1>3, <1>4

LEMMA MirroredVolatilityContext ==
  ASSUME NEW fs \in FeatureRecord
  PROVE  \/ VolatilityContext(fs) = {} /\ VolatilityContext(Mirrored(fs)) = {}
         \/ \E o \in EngineOpinions :
              VolatilityContext(fs) = {o} /\ VolatilityContext(Mirrored(fs)) = {Turned(o)}
<1>. DEFINE ms == Mirrored(fs)
            v == Number(fs, "atr_z")
            ts == TrendSign(fs)
            us == TrendSign(ms)
            r == VolatilityRegime(v, ts)
            q == VolatilityRegime(v, us)
            n == Present(fs, "atr_z")
            said(x) == EvidenceOpinion(x, Clamp(150 * (v - 4)), Availability(n, 1), "volatility_context")
<1>1. /\ ts \in {-1, 0, 1} \cup {None}
      /\ ts = None => us = None
      /\ ts # None => us = -ts
      /\ Number(ms, "atr_z") = v
      /\ Present(ms, "atr_z") = n
  BY TrendSignType, MirroredFeatures DEF Canonical
<1>. HIDE DEF ms, v, ts, us, n
<1>2. q = IF r = NoRegime THEN NoRegime ELSE MirroredRegime(r)
  BY <1>1, NoneAssumption DEF VolatilityRegime, MirroredRegime, ChopBalanced, ChopStophunt, LiquidationUp,
     LiquidationDown, SqueezeUp, SqueezeDown, TrendBuildUp, TrendBuildDown, TrendExhaustion, NoRegime
<1>3. r = NoRegime \/ r \in Regime
  BY RegimesAreNine DEF VolatilityRegime, ChopBalanced, ChopStophunt, TrendExhaustion, SqueezeUp, SqueezeDown, NoRegime
<1>. HIDE DEF r, q
<1>4. q = NoRegime <=> r = NoRegime  BY <1>2, <1>3, MirroredRegimeType, RegimesAreNine DEF NoRegime
<1>5. CASE v = None \/ r = NoRegime
  <2>1. VolatilityContext(fs) = {}  BY <1>5 DEF VolatilityContext, v, ts, r
  <2>2. v = None \/ q = NoRegime  BY <1>4, <1>5
  <2>3. VolatilityContext(ms) = {}  BY <1>1, <2>2 DEF VolatilityContext, us, q
  <2>. QED  BY <2>1, <2>3 DEF ms
<1>6. CASE ~(v = None \/ r = NoRegime)
  <2>1. VolatilityContext(fs) = {said(r)}  BY <1>6 DEF VolatilityContext, v, ts, r, n
  <2>2. VolatilityContext(ms) = {said(q)}
    BY <1>1, <1>4, <1>6 DEF VolatilityContext, us, q
  <2>3. said(r) \in EngineOpinions  BY <2>1, VolatilityContextType
  <2>4. said(q) = Turned(said(r))  BY <1>2, <1>6 DEF Turned, EvidenceOpinion
  <2>. QED  BY <2>1, <2>2, <2>3, <2>4 DEF ms
<1>. QED  BY <1>5, <1>6

LEMMA OpinionsTurn ==
  ASSUME NEW fs \in FeatureRecord
  PROVE  Opinions(Mirrored(fs)) = {Turned(o) : o \in Opinions(fs)}
<1>. DEFINE ms == Mirrored(fs)
<1>1. Classical(ms) = {Turned(o) : o \in Classical(fs)}  BY MirroredClassical
<1>2. FlowPressure(ms) = {Turned(o) : o \in FlowPressure(fs)}  BY MirroredFlowPressure
<1>3. VolatilityContext(ms) = {Turned(o) : o \in VolatilityContext(fs)}  BY MirroredVolatilityContext
<1>. HIDE DEF ms
<1>. QED  BY <1>1, <1>2, <1>3 DEF Opinions, ms

(* The observers have no bias for rising or falling markets, whatever the features *)
(* of a run: turned upside down they say the same of the other direction, and so   *)
(* does the regime that is selected unless equal opinions disagree.                *)
THEOREM ObserversHaveNoBias ==
  ASSUME NEW fs \in FeatureRecord  PROVE  FairOn(fs)
<1>. DEFINE spoken == Opinions(fs)
            turned == Opinions(Mirrored(fs))
<1>1. turned = {Turned(o) : o \in spoken}  BY OpinionsTurn
<1>2. HasFirst(spoken) /\ HasFirst(turned)  BY OpinionsHaveFirst
<1>3. spoken \subseteq EngineOpinions  BY <1>2 DEF HasFirst
<1>. HIDE DEF spoken, turned
<1>4. {Turned(o) : o \in spoken} = {[o EXCEPT !.regime = MirroredRegime(@)] : o \in spoken}
  BY <1>3, TurnedIs
<1>5. ASSUME \A o, p \in spoken :
               o.strength = p.strength /\ o.confidence = p.confidence => o.regime = p.regime
      PROVE  Selected(turned) = MirroredRegime(Selected(spoken))
  <2>1. PICK o \in spoken : Selected(spoken) = o.regime /\ \A p \in spoken : Before(o, p)
    BY <1>2, SelectedIsFirst
  <2>2. PICK n \in turned : Selected(turned) = n.regime /\ \A p \in turned : Before(n, p)
    BY <1>2, SelectedIsFirst
  <2>3. PICK q \in spoken : n = Turned(q)  BY <1>1, <2>2
  <2>4. o \in EngineOpinions /\ q \in EngineOpinions /\ Turned(o) \in turned  BY <1>1, <1>3, <2>1, <2>3
  <2>5. Before(o, q) /\ Before(n, Turned(o))  BY <2>1, <2>2, <2>3, <2>4
  <2>6. o.strength = q.strength /\ o.confidence = q.confidence
    <3>1. /\ n.strength = q.strength /\ n.confidence = q.confidence
          /\ Turned(o).strength = o.strength /\ Turned(o).confidence = o.confidence
      BY <2>3, <2>4, TurnedIs
    <3>. QED  BY <2>4, <2>5, <3>1, OpinionNumbers DEF Before
  <2>7. o.regime = q.regime  BY <1>5, <2>1, <2>3, <2>6
  <2>. QED  BY <2>1, <2>2, <2>3, <2>4, <2>7, TurnedIs
<1>. QED  BY <1>1, <1>4, <1>5 DEF FairOn, spoken, turned

-----------------------------------------------------------------------------
(* Sums.  What a function adds up to over a finite set is computed by a recursive   *)
(* function that takes an element at a time.  That there is such a function, and   *)
(* that it does not matter which element is taken, goes by induction over finite    *)
(* sets, stated of sets of sets so that it is a fact like any other.                *)
LEMMA NatSetInduction ==
  ASSUME NEW S, 0 \in S, \A n \in Nat : n \in S => n + 1 \in S
  PROVE  Nat \subseteq S
<1>. DEFINE R == {p \in Nat \X Nat : p[1] < p[2]}
<1>1. IsWellFoundedOn(R, Nat)
  <2>1. OpToRel(<, Nat) = R  BY DEF OpToRel
  <2>. QED  BY <2>1, NatLessThanWellFounded
<1>2. \A m, n \in Nat : <<m, n>> \in R <=> m < n  OBVIOUS
<1>. HIDE DEF R
<1>. SUFFICES ASSUME Nat \ S # {}  PROVE FALSE  OBVIOUS
<1>3. PICK n \in Nat \ S : \A m \in Nat \ S : ~(<<m, n>> \in R)  BY <1>1, WFMin
<1>4. n # 0 /\ n - 1 \in Nat  BY <1>3
<1>5. <<n - 1, n>> \in R  BY <1>2, <1>3, <1>4
<1>6. n - 1 \in S  BY <1>3, <1>4, <1>5
<1>. QED  BY <1>3, <1>4, <1>6

(* Sets of which {} is one, and with each set every set with one element more. *)
LEMMA FiniteSetInduction ==
  ASSUME NEW U, IsFiniteSet(U), NEW P,
         {} \in P, \A s \in SUBSET U : s \in P => \A x \in U \ s : s \cup {x} \in P
  PROVE  SUBSET U \subseteq P
<1>. DEFINE T == {n \in Nat : \A s \in SUBSET U : Cardinality(s) = n => s \in P}
<1>0. \A s \in SUBSET U : IsFiniteSet(s) /\ Cardinality(s) \in Nat
  BY FS_Subset, FS_CardinalityType
<1>1. 0 \in T  BY <1>0, FS_EmptySet
<1>2. ASSUME NEW n \in Nat, n \in T  PROVE n + 1 \in T
  <2>. SUFFICES ASSUME NEW s \in SUBSET U, Cardinality(s) = n + 1  PROVE s \in P
    OBVIOUS
  <2>0. IsFiniteSet(s) /\ s # {}  BY <1>0, FS_EmptySet
  <2>1. PICK x \in s : TRUE  BY <2>0
  <2>2. Cardinality(s \ {x}) = Cardinality(s) - 1  BY <2>0, <2>1, FS_RemoveElement
  <2>3. s \ {x} \in P /\ s \ {x} \in SUBSET U  BY <1>0, <1>2, <2>2
  <2>4. x \in U \ (s \ {x}) /\ (s \ {x}) \cup {x} = s  OBVIOUS
  <2>. QED  BY <2>3, <2>4
<1>. HIDE DEF T
<1>3. Nat \subseteq T  BY <1>1, <1>2, NatSetInduction
<1>. QED  BY <1>0, <1>3 DEF T

One(s) == CHOOSE x \in s : TRUE
Adds(F, q, s) == IF s = {} THEN 0 ELSE q[One(s)] + F[s \ {One(s)}]
Sums(q, S) == CHOOSE F : F = [s \in SUBSET S |-> Adds(F, q, s)]

LEMMA SumIsSums ==
  ASSUME NEW q, NEW S  PROVE SumOver(q, S) = Sums(q, S)[S]
BY DEF SumOver, MapThenSumSet, MapThenFoldSet, Sums, Adds, One

LEMMA SumsExist ==
  ASSUME NEW S, IsFiniteSet(S), NEW q, \A i \in S : q[i] \in Int
  PROVE  /\ Sums(q, S) = [s \in SUBSET S |-> Adds(Sums(q, S), q, s)]
         /\ \A s \in SUBSET S : Sums(q, S)[s] \in Int
<1>. DEFINE Upto(F, n) == \A s \in SUBSET S : Cardinality(s) <= n => F[s] = Adds(F, q, s)
            T == {n \in Nat : \E F \in [SUBSET S -> Int] : Upto(F, n)}
            Is(F) == F = [s \in SUBSET S |-> Adds(F, q, s)]
<1>0. \A s \in SUBSET S : IsFiniteSet(s) /\ Cardinality(s) \in Nat
  BY FS_Subset, FS_CardinalityType
<1>1. \A s \in SUBSET S : s # {} => One(s) \in s /\ s \ {One(s)} \in SUBSET S
  BY DEF One
<1>2. \A F \in [SUBSET S -> Int], s \in SUBSET S : Adds(F, q, s) \in Int
  BY <1>1 DEF Adds
<1>3. 0 \in T
  <2>. DEFINE F == [s \in SUBSET S |-> 0]
  <2>1. F \in [SUBSET S -> Int]  OBVIOUS
  <2>2. \A s \in SUBSET S : Cardinality(s) <= 0 => F[s] = Adds(F, q, s)
    BY <1>0, FS_EmptySet DEF Adds
  <2>. HIDE DEF F
  <2>. QED  BY <2>1, <2>2
<1>4. ASSUME NEW n \in Nat, n \in T  PROVE n + 1 \in T
  <2>1. PICK F \in [SUBSET S -> Int] : Upto(F, n)  BY <1>4
  <2>. DEFINE G == [s \in SUBSET S |-> Adds(F, q, s)]
  <2>2. G \in [SUBSET S -> Int]  BY <1>2
  <2>3. ASSUME NEW s \in SUBSET S, Cardinality(s) <= n + 1  PROVE G[s] = Adds(G, q, s)
    <3>1. CASE s = {}  BY <3>1 DEF Adds
    <3>2. CASE s # {}
      <4>. DEFINE r == s \ {One(s)}
      <4>1. r \in SUBSET S /\ Cardinality(r) <= n
        BY <1>0, <1>1, <2>3, <3>2, FS_RemoveElement
      <4>2. F[r] = Adds(F, q, r)  BY <2>1, <4>1
      <4>3. G[r] = F[r]  BY <4>1, <4>2
      <4>. HIDE DEF G
      <4>4. Adds(F, q, s) = Adds(G, q, s)  BY <3>2, <4>3 DEF Adds
      <4>. QED  BY <4>4 DEF G
    <3>. QED  BY <3>1, <3>2
  <2>. HIDE DEF G
  <2>4. Upto(G, n + 1)  BY <2>3
  <2>. QED  BY <2>2, <2>4
<1>. HIDE DEF T, Upto
<1>5. Cardinality(S) \in T  BY <1>0, <1>3, <1>4, NatSetInduction
<1>6. PICK F \in [SUBSET S -> Int] : Upto(F, Cardinality(S))  BY <1>5 DEF T
<1>7. \A s \in SUBSET S : F[s] = Adds(F, q, s)
  BY <1>0, <1>6, FS_Subset DEF Upto
<1>8. Is(F)
  <2>. DEFINE G == [s \in SUBSET S |-> Adds(F, q, s)]
  <2>1. \A s \in SUBSET S : F[s] = G[s]  BY <1>7
  <2>2. G = [s \in SUBSET S |-> G[s]]  OBVIOUS
  <2>. HIDE DEF G
  <2>3. F = G  BY <2>1, <2>2
  <2>. QED  BY <2>3 DEF G
<1>9. Is(Sums(q, S))
  <2>. HIDE DEF Is
  <2>1. \E G : Is(G)  BY <1>8
  <2>2. Is(CHOOSE G : Is(G))  BY <2>1
  <2>. QED  BY <2>2 DEF Is, Sums
<1>. DEFINE A == Sums(q, S)
<1>10. \A s \in SUBSET S : A[s] = Adds(A, q, s)
  <2>. DEFINE B == [s \in SUBSET S |-> Adds(A, q, s)]
  <2>1. A = B  BY <1>9
  <2>2. \A s \in SUBSET S : B[s] = Adds(A, q, s)  OBVIOUS
  <2>. HIDE DEF A, B
  <2>. QED  BY <2>1, <2>2
<1>11. \A s \in SUBSET S : A[s] \in Int
  <2>. DEFINE M == {n \in Nat : \A s \in SUBSET S : Cardinality(s) = n => A[s] \in Int}
  <2>. HIDE DEF A
  <2>1. 0 \in M
    <3>1. A[{}] = 0  BY <1>10 DEF Adds
    <3>2. \A s \in SUBSET S : Cardinality(s) = 0 => s = {}  BY <1>0, FS_EmptySet
    <3>3. \A s \in SUBSET S : Cardinality(s) = 0 => A[s] \in Int
      <4>. SUFFICES ASSUME NEW s \in SUBSET S, Cardinality(s) = 0  PROVE A[s] \in Int
        OBVIOUS
      <4>1. s = {}  BY <3>2
      <4>. QED  BY <3>1, <4>1
    <3>. QED  BY <3>3
  <2>2. ASSUME NEW n \in Nat, n \in M  PROVE n + 1 \in M
    <3>. SUFFICES ASSUME NEW s \in SUBSET S, Cardinality(s) = n + 1  PROVE A[s] \in Int
      OBVIOUS
    <3>0. IsFiniteSet(s) /\ Cardinality(s) # 0  BY <1>0
    <3>1. s # {}  BY <3>0, FS_EmptySet
    <3>2. One(s) \in s /\ s \ {One(s)} \in SUBSET S  BY <1>1, <3>1
    <3>3. Cardinality(s \ {One(s)}) = Cardinality(s) - 1  BY <3>0, <3>2, FS_RemoveElement
    <3>4. A[s \ {One(s)}] \in Int  BY <1>0, <2>2, <3>2, <3>3
    <3>. QED  BY <1>10, <3>1, <3>2, <3>4 DEF Adds
  <2>. HIDE DEF M
  <2>3. Nat \subseteq M  BY <2>1, <2>2, NatSetInduction
  <2>. QED  BY <1>0, <2>3 DEF M
<1>. QED  BY <1>9, <1>11

(* A sum over part of a set is what the set's own sums say of that part. *)
LEMMA SumsAgree ==
  ASSUME NEW U, IsFiniteSet(U), NEW q, \A i \in U : q[i] \in Int
  PROVE  \A S \in SUBSET U : \A s \in SUBSET S : Sums(q, S)[s] = SumOver(q, s)
<1>. DEFINE P == {s \in SUBSET U : \A S \in SUBSET U : s \subseteq S => Sums(q, S)[s] = SumOver(q, s)}
            M == {n \in Nat : \A s \in SUBSET U : Cardinality(s) = n => s \in P}
<1>0. \A s \in SUBSET U : IsFiniteSet(s) /\ Cardinality(s) \in Nat
  BY FS_Subset, FS_CardinalityType
<1>1. ASSUME NEW S \in SUBSET U, NEW s \in SUBSET S
      PROVE  Sums(q, S)[s] = Adds(Sums(q, S), q, s)
  <2>1. Sums(q, S) = [r \in SUBSET S |-> Adds(Sums(q, S), q, r)]  BY <1>0, SumsExist
  <2>. DEFINE A == Sums(q, S)
              B == [r \in SUBSET S |-> Adds(A, q, r)]
  <2>2. A = B /\ B[s] = Adds(A, q, s)  BY <2>1
  <2>. HIDE DEF B
  <2>. QED  BY <2>2
<1>2. 0 \in M
  <2>. SUFFICES ASSUME NEW s \in SUBSET U, Cardinality(s) = 0, NEW S \in SUBSET U, s \subseteq S
                PROVE  Sums(q, S)[s] = SumOver(q, s)
    OBVIOUS
  <2>1. s = {}  BY <1>0, FS_EmptySet
  <2>2. Sums(q, S)[s] = 0  BY <1>1, <2>1 DEF Adds
  <2>3. Sums(q, s)[s] = 0  BY <1>1, <2>1 DEF Adds
  <2>. QED  BY <2>2, <2>3, SumIsSums
<1>3. ASSUME NEW n \in Nat, n \in M  PROVE n + 1 \in M
  <2>. SUFFICES ASSUME NEW s \in SUBSET U, Cardinality(s) = n + 1, NEW S \in SUBSET U, s \subseteq S
                PROVE  Sums(q, S)[s] = SumOver(q, s)
    OBVIOUS
  <2>. DEFINE x == One(s)
              r == s \ {x}
  <2>0. IsFiniteSet(s) /\ Cardinality(s) # 0  BY <1>0
  <2>1. s # {}  BY <2>0, FS_EmptySet
  <2>2. x \in s /\ r \in SUBSET U  BY <2>1 DEF One
  <2>3. Cardinality(r) = n  BY <1>0, <2>0, <2>2, FS_RemoveElement
  <2>4. r \in P  BY <1>3, <2>2, <2>3
  <2>5. Sums(q, S)[r] = SumOver(q, r) /\ Sums(q, s)[r] = SumOver(q, r)  BY <2>4
  <2>. HIDE DEF r
  <2>6. Sums(q, S)[s] = q[x] + Sums(q, S)[r]  BY <1>1, <2>1 DEF Adds, r
  <2>7. Sums(q, s)[s] = q[x] + Sums(q, s)[r]  BY <1>1, <2>1 DEF Adds, r
  <2>. QED  BY <2>5, <2>6, <2>7, SumIsSums
<1>. HIDE DEF M
<1>4. Nat \subseteq M  BY <1>2, <1>3, NatSetInduction
<1>5. SUBSET U \subseteq P  BY <1>0, <1>4 DEF M
<1>6. ASSUME NEW S \in SUBSET U, NEW s \in SUBSET S  PROVE Sums(q, S)[s] = SumOver(q, s)
  <2>1. s \in P  BY <1>5
  <2>. QED  BY <2>1
<1>. QED  BY <1>6

(* Whichever element is taken first, the others add up to the rest. *)
LEMMA SumStep ==
  ASSUME NEW U, IsFiniteSet(U), NEW q, \A i \in U : q[i] \in Int
  PROVE  /\ SumOver(q, {}) = 0
         /\ \A S \in SUBSET U : SumOver(q, S) \in Int
         /\ \A S \in SUBSET U : \A x \in S : SumOver(q, S) = q[x] + SumOver(q, S \ {x})
<1>. DEFINE A == Sums(q, U)
            M == {n \in Nat : \A s \in SUBSET U : Cardinality(s) = n =>
                                \A x \in s : A[s] = q[x] + A[s \ {x}]}
<1>0. \A s \in SUBSET U : IsFiniteSet(s) /\ Cardinality(s) \in Nat
  BY FS_Subset, FS_CardinalityType
<1>1. \A s \in SUBSET U : A[s] = SumOver(q, s)  BY SumsAgree
<1>2. \A s \in SUBSET U : A[s] \in Int  BY SumsExist
<1>3. ASSUME NEW s \in SUBSET U  PROVE A[s] = Adds(A, q, s)
  <2>1. A = [r \in SUBSET U |-> Adds(A, q, r)]  BY SumsExist
  <2>. DEFINE B == [r \in SUBSET U |-> Adds(A, q, r)]
  <2>2. A = B /\ B[s] = Adds(A, q, s)  BY <2>1
  <2>. HIDE DEF A, B
  <2>. QED  BY <2>2
<1>. HIDE DEF A
<1>4. 0 \in M
  <2>. SUFFICES ASSUME NEW s \in SUBSET U, Cardinality(s) = 0, NEW x \in s  PROVE FALSE
    OBVIOUS
  <2>. QED  BY <1>0, FS_EmptySet
<1>5. ASSUME NEW n \in Nat, n \in M  PROVE n + 1 \in M
  <2>. SUFFICES ASSUME NEW s \in SUBSET U, Cardinality(s) = n + 1, NEW x \in s
                PROVE  A[s] = q[x] + A[s \ {x}]
    OBVIOUS
  <2>. DEFINE c == One(s)
  <2>1. c \in s  BY DEF One
  <2>2. A[s] = q[c] + A[s \ {c}]  BY <1>3 DEF Adds
  <2>3. CASE x = c  BY <2>2, <2>3
  <2>4. CASE x # c
    <3>. DEFINE rest == (s \ {c}) \ {x}
    <3>0. /\ IsFiniteSet(s) /\ Cardinality(s) - 1 = n  BY <1>0
    <3>a. Cardinality(s \ {c}) = Cardinality(s) - 1  BY <3>0, <2>1, FS_RemoveElement
    <3>b. Cardinality(s \ {x}) = Cardinality(s) - 1  BY <3>0, FS_RemoveElement
    <3>c. x \in s \ {c} /\ c \in s \ {x}  BY <2>1, <2>4
    <3>1. /\ s \ {c} \in SUBSET U /\ Cardinality(s \ {c}) = n /\ x \in s \ {c}
          /\ s \ {x} \in SUBSET U /\ Cardinality(s \ {x}) = n /\ c \in s \ {x}
      BY <3>0, <3>a, <3>b, <3>c
    <3>2. A[s \ {c}] = q[x] + A[rest]  BY <1>5, <3>1
    <3>3. A[s \ {x}] = q[c] + A[(s \ {x}) \ {c}]  BY <1>5, <3>1
    <3>4. (s \ {x}) \ {c} = rest /\ rest \in SUBSET U  OBVIOUS
    <3>5. q[x] \in Int /\ q[c] \in Int /\ A[rest] \in Int  BY <1>2, <2>1, <3>4
    <3>6. A[(s \ {x}) \ {c}] = A[rest]  BY <3>4
    <3>. HIDE DEF rest, c
    <3>. QED  BY <2>2, <3>2, <3>3, <3>5, <3>6
  <2>. QED  BY <2>3, <2>4
<1>. HIDE DEF M
<1>6. Nat \subseteq M  BY <1>4, <1>5, NatSetInduction
<1>7. ASSUME NEW S \in SUBSET U, NEW x \in S  PROVE SumOver(q, S) = q[x] + SumOver(q, S \ {x})
  <2>1. A[S] = q[x] + A[S \ {x}]  BY <1>0, <1>6 DEF M
  <2>2. S \ {x} \in SUBSET U  OBVIOUS
  <2>. QED  BY <1>1, <2>1, <2>2
<1>8. SumOver(q, {}) = 0
  <2>1. A[{}] = 0  BY <1>3 DEF Adds
  <2>. QED  BY <1>1, <2>1
<1>. QED  BY <1>1, <1>2, <1>7, <1>8

(* q has a number at every place of S. *)
NumbersOn(q, S) == \A i \in S : q[i] \in Int

LEMMA SumTaken ==
  ASSUME NEW U, IsFiniteSet(U), NEW q, NumbersOn(q, U), NEW S, S \subseteq U, NEW x, x \in S
  PROVE  SumOver(q, S) = q[x] + SumOver(q, S \ {x})
<1>1. \A i \in U : q[i] \in Int  BY DEF NumbersOn
<1>2. S \in SUBSET U  OBVIOUS
<1>. QED  BY <1>1, <1>2, SumStep

LEMMA SumType ==
  ASSUME NEW S, IsFiniteSet(S), NEW q, NumbersOn(q, S)
  PROVE  SumOver(q, S) \in Int
<1>1. \A i \in S : q[i] \in Int  BY DEF NumbersOn
<1>. QED  BY <1>1, SumStep

LEMMA SumOfNone == ASSUME NEW q  PROVE SumOver(q, {}) = 0
<1>1. IsFiniteSet({})  BY FS_EmptySet
<1>. QED  BY <1>1, SumStep

(* One element more adds its own value. *)
LEMMA SumJoined ==
  ASSUME NEW U, IsFiniteSet(U), NEW q, NumbersOn(q, U), NEW S, S \subseteq U, NEW x, x \in U, x \notin S
  PROVE  /\ SumOver(q, S \cup {x}) = q[x] + SumOver(q, S)
         /\ SumOver(q, S) \in Int
         /\ q[x] \in Int
<1>. DEFINE T == S \cup {x}
<1>1. T \subseteq U /\ x \in T /\ T \ {x} = S  OBVIOUS
<1>. HIDE DEF T
<1>2. SumOver(q, T) = q[x] + SumOver(q, T \ {x})  BY <1>1, SumTaken
<1>3. IsFiniteSet(S) /\ NumbersOn(q, S)  BY FS_Subset DEF NumbersOn
<1>4. SumOver(q, S) \in Int  BY <1>3, SumType
<1>5. q[x] \in Int  BY DEF NumbersOn
<1>. QED  BY <1>1, <1>2, <1>4, <1>5 DEF T

LEMMA SumEqual ==
  ASSUME NEW S, IsFiniteSet(S), NEW f, NEW g, NumbersOn(f, S), \A i \in S : f[i] = g[i]
  PROVE  SumOver(f, S) = SumOver(g, S)
<1>. DEFINE P == {s \in SUBSET S : SumOver(f, s) = SumOver(g, s)}
<1>. HIDE DEF P
<1>1. {} \in P  BY SumOfNone DEF P
<1>2. ASSUME NEW s \in SUBSET S, s \in P, NEW x \in S \ s  PROVE s \cup {x} \in P
  <2>1. SumOver(f, s \cup {x}) = f[x] + SumOver(f, s)  BY SumJoined
  <2>2. SumOver(g, s \cup {x}) = g[x] + SumOver(g, s)
    <3>1. NumbersOn(g, S)  BY DEF NumbersOn
    <3>. QED  BY <3>1, SumJoined
  <2>. QED  BY <1>2, <2>1, <2>2 DEF P
<1>3. SUBSET S \subseteq P  BY <1>1, <1>2, FiniteSetInduction
<1>4. S \in P  BY <1>3
<1>. QED  BY <1>4 DEF P

LEMMA Distributes ==
  ASSUME NEW c \in Int, NEW a \in Int, NEW b \in Int
  PROVE  c * (a + b) = c * a + c * b /\ c * a \in Int
OBVIOUS

(* What is true of each is true of the sum: no less, or no more, than c times. *)
LEMMA SumAtLeast ==
  ASSUME NEW S, IsFiniteSet(S), NEW c \in Int, NEW f, NEW g,
         NumbersOn(f, S), NumbersOn(g, S), \A i \in S : f[i] >= c * g[i]
  PROVE  SumOver(f, S) >= c * SumOver(g, S)
<1>. DEFINE P == {s \in SUBSET S : SumOver(f, s) >= c * SumOver(g, s)}
<1>. HIDE DEF P
<1>1. {} \in P  BY SumOfNone DEF P
<1>2. ASSUME NEW s \in SUBSET S, s \in P, NEW x \in S \ s  PROVE s \cup {x} \in P
  <2>1. SumOver(f, s \cup {x}) = f[x] + SumOver(f, s) /\ SumOver(f, s) \in Int  BY SumJoined
  <2>2. SumOver(g, s \cup {x}) = g[x] + SumOver(g, s) /\ SumOver(g, s) \in Int  BY SumJoined
  <2>a. g[x] \in Int  BY DEF NumbersOn
  <2>b. c * (g[x] + SumOver(g, s)) = c * g[x] + c * SumOver(g, s)  BY <2>a, <2>2, Distributes
  <2>c. c * g[x] \in Int /\ c * SumOver(g, s) \in Int  BY <2>a, <2>2, Distributes
  <2>d. SumOver(g, s \cup {x}) = g[x] + SumOver(g, s)  BY <2>2
  <2>3. /\ c * SumOver(g, s \cup {x}) = c * g[x] + c * SumOver(g, s)
        /\ c * g[x] \in Int /\ c * SumOver(g, s) \in Int
    BY <2>b, <2>c, <2>d
  <2>4. f[x] >= c * g[x] /\ SumOver(f, s) >= c * SumOver(g, s) /\ f[x] \in Int  BY <1>2 DEF P, NumbersOn
  <2>. QED  BY <2>1, <2>3, <2>4 DEF P
<1>3. SUBSET S \subseteq P  BY <1>1, <1>2, FiniteSetInduction
<1>4. S \in P  BY <1>3
<1>. QED  BY <1>4 DEF P

LEMMA SumAtMost ==
  ASSUME NEW S, IsFiniteSet(S), NEW c \in Int, NEW f, NEW g,
         NumbersOn(f, S), NumbersOn(g, S), \A i \in S : f[i] <= c * g[i]
  PROVE  SumOver(f, S) <= c * SumOver(g, S)
<1>. DEFINE P == {s \in SUBSET S : SumOver(f, s) <= c * SumOver(g, s)}
<1>. HIDE DEF P
<1>1. {} \in P  BY SumOfNone DEF P
<1>2. ASSUME NEW s \in SUBSET S, s \in P, NEW x \in S \ s  PROVE s \cup {x} \in P
  <2>1. SumOver(f, s \cup {x}) = f[x] + SumOver(f, s) /\ SumOver(f, s) \in Int  BY SumJoined
  <2>2. SumOver(g, s \cup {x}) = g[x] + SumOver(g, s) /\ SumOver(g, s) \in Int  BY SumJoined
  <2>a. g[x] \in Int  BY DEF NumbersOn
  <2>b. c * (g[x] + SumOver(g, s)) = c * g[x] + c * SumOver(g, s)  BY <2>a, <2>2, Distributes
  <2>c. c * g[x] \in Int /\ c * SumOver(g, s) \in Int  BY <2>a, <2>2, Distributes
  <2>d. SumOver(g, s \cup {x}) = g[x] + SumOver(g, s)  BY <2>2
  <2>3. /\ c * SumOver(g, s \cup {x}) = c * g[x] + c * SumOver(g, s)
        /\ c * g[x] \in Int /\ c * SumOver(g, s) \in Int
    BY <2>b, <2>c, <2>d
  <2>4. f[x] <= c * g[x] /\ SumOver(f, s) <= c * SumOver(g, s) /\ f[x] \in Int  BY <1>2 DEF P, NumbersOn
  <2>. QED  BY <2>1, <2>3, <2>4 DEF P
<1>3. SUBSET S \subseteq P  BY <1>1, <1>2, FiniteSetInduction
<1>4. S \in P  BY <1>3
<1>. QED  BY <1>4 DEF P

LEMMA SumOfBoth ==
  ASSUME NEW A, NEW B, IsFiniteSet(A), IsFiniteSet(B), A \cap B = {},
         NEW q, NumbersOn(q, A \cup B)
  PROVE  SumOver(q, A \cup B) = SumOver(q, A) + SumOver(q, B)
<1>. DEFINE P == {s \in SUBSET B : SumOver(q, A \cup s) = SumOver(q, A) + SumOver(q, s)}
            U == A \cup B
<1>0. IsFiniteSet(U) /\ NumbersOn(q, U)  BY FS_Union
<1>a. NumbersOn(q, A)  BY DEF NumbersOn
<1>. HIDE DEF P
<1>1. {} \in P
  <2>1. SumOver(q, A) \in Int  BY <1>a, SumType
  <2>. QED  BY <2>1, SumOfNone DEF P
<1>2. ASSUME NEW s \in SUBSET B, s \in P, NEW x \in B \ s  PROVE s \cup {x} \in P
  <2>. DEFINE t == A \cup s
  <2>0. s \subseteq U /\ t \subseteq U /\ x \in U /\ x \notin s /\ x \notin t  OBVIOUS
  <2>. HIDE DEF t, U
  <2>1. SumOver(q, s \cup {x}) = q[x] + SumOver(q, s)  BY <1>0, <2>0, SumJoined
  <2>a. SumOver(q, s) \in Int /\ q[x] \in Int  BY <1>0, <2>0, SumJoined
  <2>2. SumOver(q, t \cup {x}) = q[x] + SumOver(q, t)  BY <1>0, <2>0, SumJoined
  <2>3. t \cup {x} = A \cup (s \cup {x})  BY DEF t
  <2>4. SumOver(q, A) \in Int  BY <1>a, SumType
  <2>5. SumOver(q, A \cup (s \cup {x})) = q[x] + SumOver(q, A \cup s)  BY <2>2, <2>3 DEF t
  <2>6. SumOver(q, A \cup s) = SumOver(q, A) + SumOver(q, s)  BY <1>2 DEF P
  <2>7. SumOver(q, A \cup (s \cup {x})) = SumOver(q, A) + SumOver(q, s \cup {x})
    BY <2>1, <2>a, <2>4, <2>5, <2>6
  <2>. QED  BY <2>7 DEF P
<1>3. SUBSET B \subseteq P  BY <1>1, <1>2, FiniteSetInduction
<1>4. B \in P  BY <1>3
<1>. QED  BY <1>4 DEF P

Moved(m, S) == {m[i] : i \in S}

(* Moving the places, no two to the same one, leaves the sum as it is. *)
LEMMA SumMoved ==
  ASSUME NEW S, IsFiniteSet(S), NEW m, \A i, j \in S : m[i] = m[j] => i = j,
         NEW f, NEW g, NumbersOn(f, S), \A i \in S : g[m[i]] = f[i]
  PROVE  SumOver(g, Moved(m, S)) = SumOver(f, S)
<1>. DEFINE P == {s \in SUBSET S : SumOver(g, Moved(m, s)) = SumOver(f, s)}
            N == Moved(m, S)
<1>0. IsFiniteSet(N) /\ NumbersOn(g, N)
  <2>. DEFINE k == [i \in S |-> m[i]]
  <2>1. k \in Surjection(S, N)  BY DEF Surjection, Moved
  <2>2. IsFiniteSet(N)  BY <2>1, FS_Surjection
  <2>3. ASSUME NEW j \in N  PROVE g[j] \in Int
    <3>1. PICK i \in S : j = m[i]  BY DEF Moved
    <3>. QED  BY <3>1 DEF NumbersOn
  <2>. QED  BY <2>2, <2>3 DEF NumbersOn
<1>. HIDE DEF P
<1>1. {} \in P
  <2>1. Moved(m, {}) = {}  BY DEF Moved
  <2>. QED  BY <2>1, SumOfNone DEF P
<1>2. ASSUME NEW s \in SUBSET S, s \in P, NEW x \in S \ s  PROVE s \cup {x} \in P
  <2>. DEFINE y == m[x]
              M == Moved(m, s)
  <2>1. Moved(m, s \cup {x}) = M \cup {y}  BY DEF Moved
  <2>2. y \in N /\ y \notin M /\ M \subseteq N  BY DEF Moved
  <2>3. g[y] = f[x]  OBVIOUS
  <2>. HIDE DEF y, M, N
  <2>4. SumOver(g, M \cup {y}) = g[y] + SumOver(g, M)  BY <1>0, <2>2, SumJoined
  <2>a. s \subseteq S /\ x \in S /\ x \notin s /\ IsFiniteSet(S) /\ NumbersOn(f, S)  OBVIOUS
  <2>5. SumOver(f, s \cup {x}) = f[x] + SumOver(f, s)  BY ONLY <2>a, SumJoined
  <2>6. SumOver(g, M) = SumOver(f, s)  BY <1>2 DEF P, M
  <2>7. SumOver(g, Moved(m, s \cup {x})) = SumOver(f, s \cup {x})
    BY <2>1, <2>3, <2>4, <2>5, <2>6
  <2>. QED  BY <2>7 DEF P
<1>3. SUBSET S \subseteq P  BY <1>1, <1>2, FiniteSetInduction
<1>4. S \in P  BY <1>3
<1>. QED  BY <1>4 DEF P

(* A finite set of numbers has a greatest and a least. *)
LEMMA MaxIs ==
  ASSUME NEW S, IsFiniteSet(S), S \subseteq Int, S # {}
  PROVE  Max(S) \in S /\ \A y \in S : Max(S) >= y
<1>. DEFINE P == {s \in SUBSET S : s # {} => \E x \in s : \A y \in s : x >= y}
<1>1. {} \in P  OBVIOUS
<1>2. ASSUME NEW s \in SUBSET S, s \in P, NEW z \in S \ s  PROVE s \cup {z} \in P
  <2>1. CASE s = {}  BY <2>1
  <2>2. CASE s # {}
    <3>1. PICK x \in s : \A y \in s : x >= y  BY <1>2, <2>2
    <3>2. CASE x >= z  BY <3>1, <3>2
    <3>3. CASE ~(x >= z)
      <4>1. x \in Int /\ z \in Int /\ \A y \in s : y \in Int  OBVIOUS
      <4>2. \A y \in s \cup {z} : z >= y  BY <3>1, <3>3, <4>1
      <4>. QED  BY <4>2
    <3>. QED  BY <3>2, <3>3
  <2>. QED  BY <2>1, <2>2
<1>. HIDE DEF P
<1>3. SUBSET S \subseteq P  BY <1>1, <1>2, FiniteSetInduction
<1>4. S \in P  BY <1>3
<1>. QED  BY <1>4 DEF P, Max

LEMMA MinIs ==
  ASSUME NEW S, IsFiniteSet(S), S \subseteq Int, S # {}
  PROVE  Min(S) \in S /\ \A y \in S : Min(S) <= y
<1>. DEFINE P == {s \in SUBSET S : s # {} => \E x \in s : \A y \in s : x <= y}
<1>1. {} \in P  OBVIOUS
<1>2. ASSUME NEW s \in SUBSET S, s \in P, NEW z \in S \ s  PROVE s \cup {z} \in P
  <2>1. CASE s = {}  BY <2>1
  <2>2. CASE s # {}
    <3>1. PICK x \in s : \A y \in s : x <= y  BY <1>2, <2>2
    <3>2. CASE x <= z  BY <3>1, <3>2
    <3>3. CASE ~(x <= z)
      <4>1. x \in Int /\ z \in Int /\ \A y \in s : y \in Int  OBVIOUS
      <4>2. \A y \in s \cup {z} : z <= y  BY <3>1, <3>3, <4>1
      <4>. QED  BY <4>2
    <3>. QED  BY <3>2, <3>3
  <2>. QED  BY <2>1, <2>2
<1>. HIDE DEF P
<1>3. SUBSET S \subseteq P  BY <1>1, <1>2, FiniteSetInduction
<1>4. S \in P  BY <1>3
<1>. QED  BY <1>4 DEF P, Min

(* In a finite set with an order every rank is somebody's, and nobody else's. *)
Prior(R, C, i) == {j \in C : <<j, i>> \in R}
IsTotalOrder(R, C) ==
  /\ \A i \in C : <<i, i>> \notin R
  /\ \A i, j \in C : i # j => <<i, j>> \in R \/ <<j, i>> \in R
  /\ \A i, j, k \in C : <<i, j>> \in R /\ <<j, k>> \in R => <<i, k>> \in R

LEMMA Ranks ==
  ASSUME NEW C, IsFiniteSet(C), NEW R, IsTotalOrder(R, C)
  PROVE  /\ \A i, j \in C : Cardinality(Prior(R, C, i)) = Cardinality(Prior(R, C, j)) => i = j
         /\ \A k \in 1..Cardinality(C) : \E i \in C : Cardinality(Prior(R, C, i)) = k - 1
<1>. DEFINE n == Cardinality(C)
            f == [i \in C |-> Cardinality(Prior(R, C, i))]
            T == 0..(n - 1)
<1>0. n \in Nat  BY FS_CardinalityType
<1>1. ASSUME NEW i \in C
      PROVE  /\ IsFiniteSet(Prior(R, C, i)) /\ Cardinality(Prior(R, C, i)) \in Nat
             /\ Prior(R, C, i) \subseteq C \ {i}
  BY FS_Subset, FS_CardinalityType DEF Prior, IsTotalOrder
<1>2. ASSUME NEW i \in C  PROVE Cardinality(Prior(R, C, i)) \in T
  <2>1. IsFiniteSet(C \ {i}) /\ Cardinality(C \ {i}) = n - 1  BY FS_RemoveElement
  <2>2. Cardinality(Prior(R, C, i)) <= n - 1  BY <1>1, <2>1, FS_Subset
  <2>. QED  BY <1>0, <1>1, <2>2
<1>3. ASSUME NEW i \in C, NEW j \in C, <<j, i>> \in R
      PROVE  Cardinality(Prior(R, C, j)) < Cardinality(Prior(R, C, i))
  <2>1. Prior(R, C, j) \cup {j} \subseteq Prior(R, C, i)  BY <1>3 DEF Prior, IsTotalOrder
  <2>2. j \notin Prior(R, C, j)  BY DEF Prior, IsTotalOrder
  <2>3. Cardinality(Prior(R, C, j) \cup {j}) = Cardinality(Prior(R, C, j)) + 1
    BY <1>1, <2>2, FS_AddElement
  <2>4. Cardinality(Prior(R, C, j) \cup {j}) <= Cardinality(Prior(R, C, i))
    BY <1>1, <2>1, FS_Subset
  <2>5. Cardinality(Prior(R, C, j)) \in Nat /\ Cardinality(Prior(R, C, i)) \in Nat  BY <1>1
  <2>. QED  BY <2>3, <2>4, <2>5
<1>4. ASSUME NEW i \in C, NEW j \in C, i # j
      PROVE  Cardinality(Prior(R, C, i)) # Cardinality(Prior(R, C, j))
  <2>0. Cardinality(Prior(R, C, j)) \in Nat /\ Cardinality(Prior(R, C, i)) \in Nat  BY <1>1
  <2>1. <<i, j>> \in R \/ <<j, i>> \in R  BY <1>4 DEF IsTotalOrder
  <2>2. CASE <<i, j>> \in R
    <3>1. Cardinality(Prior(R, C, i)) < Cardinality(Prior(R, C, j))  BY <1>3, <2>2
    <3>. QED  BY <2>0, <3>1
  <2>3. CASE <<j, i>> \in R
    <3>1. Cardinality(Prior(R, C, j)) < Cardinality(Prior(R, C, i))  BY <1>3, <2>3
    <3>. QED  BY <2>0, <3>1
  <2>. QED  BY <2>1, <2>2, <2>3
<1>5. f \in Injection(C, T)
  <2>1. f \in [C -> T]  BY <1>2
  <2>2. \A i, j \in C : f[i] = f[j] => i = j  BY <1>4
  <2>. QED  BY <2>1, <2>2 DEF Injection, IsInjective
<1>6. IsFiniteSet(T) /\ Cardinality(T) = n
  <2>1. 0 \in Int /\ n - 1 \in Int  BY <1>0
  <2>2. IsFiniteSet(T)  BY <2>1, FS_Interval
  <2>3. Cardinality(T) = IF 0 > n - 1 THEN 0 ELSE (n - 1) - 0 + 1  BY <2>1, FS_Interval
  <2>. QED  BY <1>0, <2>2, <2>3
<1>. HIDE DEF T
<1>7. f \in Surjection(C, T)  BY <1>5, <1>6, FS_Injection
<1>8. ASSUME NEW k \in 1..n  PROVE \E i \in C : Cardinality(Prior(R, C, i)) = k - 1
  <2>1. k - 1 \in T  BY <1>0 DEF T
  <2>2. \E i \in C : f[i] = k - 1  BY <1>7, <2>1 DEF Surjection
  <2>. QED  BY <2>2
<1>. QED  BY <1>4, <1>8

-----------------------------------------------------------------------------
(* Features.  All they ask of the records of a cut is that there are finitely    *)
(* many, at places that are numbers, and that an exchange time is one or none.      *)
Readings(es) ==
  /\ IsFiniteSet(DOMAIN es) /\ DOMAIN es \subseteq Int
  /\ \A i \in DOMAIN es : es[i].ts \in Int \cup {None}

LEMMA NthIs ==
  ASSUME NEW S, IsFiniteSet(S), S \subseteq Int
  PROVE  \A k \in 1..Cardinality(S) : Nth(S, k) \in S
<1>. DEFINE R == {p \in S \X S : p[1] < p[2]}
<1>1. \A i \in S : Prior(R, S, i) = {j \in S : j < i}  BY DEF Prior
<1>2. IsTotalOrder(R, S)
  <2>1. \A i, j \in S : <<i, j>> \in R <=> i < j  OBVIOUS
  <2>2. \A i \in S : i \in Int  OBVIOUS
  <2>. HIDE DEF R
  <2>. QED  BY <2>1, <2>2 DEF IsTotalOrder
<1>. HIDE DEF R
<1>3. ASSUME NEW k \in 1..Cardinality(S)  PROVE Nth(S, k) \in S
  <2>1. PICK i \in S : Cardinality(Prior(R, S, i)) = k - 1  BY <1>2, Ranks
  <2>2. \E i1 \in S : Cardinality({j \in S : j < i1}) = k - 1  BY <1>1, <2>1
  <2>. QED  BY <2>2 DEF Nth
<1>. QED  BY <1>3

(* The order candles are taken in is one: no two have the same place in it. *)
TimeOrder(es, C) ==
  {p \in C \X C : es[p[1]].ts < es[p[2]].ts \/ (es[p[1]].ts = es[p[2]].ts /\ p[1] < p[2])}

LEMMA TimeIsAnOrder ==
  ASSUME NEW es, NEW C, IsFiniteSet(C), C \subseteq Int, \A i \in C : es[i].ts \in Int
  PROVE  /\ IsTotalOrder(TimeOrder(es, C), C)
         /\ \A i \in C : Prior(TimeOrder(es, C), C, i) = Earlier(es, C, i)
<1>. DEFINE R == TimeOrder(es, C)
<1>1. \A i, j \in C : <<i, j>> \in R <=> es[i].ts < es[j].ts \/ (es[i].ts = es[j].ts /\ i < j)
  BY DEF TimeOrder
<1>2. \A i \in C : i \in Int  OBVIOUS
<1>. HIDE DEF R
<1>3. IsTotalOrder(R, C)
  <2>1. \A i \in C : <<i, i>> \notin R  BY <1>1, <1>2
  <2>2. \A i, j \in C : i # j => <<i, j>> \in R \/ <<j, i>> \in R  BY <1>1, <1>2
  <2>3. \A i, j, k \in C : <<i, j>> \in R /\ <<j, k>> \in R => <<i, k>> \in R  BY <1>1, <1>2
  <2>. QED  BY <2>1, <2>2, <2>3 DEF IsTotalOrder
<1>4. \A i \in C : Prior(R, C, i) = Earlier(es, C, i)  BY <1>1 DEF Prior, Earlier
<1>. QED  BY <1>3, <1>4 DEF R

Ranked(es, C, k) == CHOOSE i \in C : Cardinality(Earlier(es, C, i)) = k - 1

LEMMA RankedIs ==
  ASSUME NEW es, NEW C, IsFiniteSet(C), C \subseteq Int, \A i \in C : es[i].ts \in Int,
         NEW k \in 1..Cardinality(C)
  PROVE  /\ Ranked(es, C, k) \in C
         /\ Cardinality(Earlier(es, C, Ranked(es, C, k))) = k - 1
         /\ \A i \in C : Cardinality(Earlier(es, C, i)) = k - 1 => i = Ranked(es, C, k)
<1>. DEFINE R == TimeOrder(es, C)
<1>1. IsTotalOrder(R, C) /\ \A i \in C : Prior(R, C, i) = Earlier(es, C, i)  BY TimeIsAnOrder
<1>. HIDE DEF R
<1>a. IsFiniteSet(C) /\ IsTotalOrder(R, C)  BY <1>1
<1>b. \A m \in 1..Cardinality(C) : \E i \in C : Cardinality(Prior(R, C, i)) = m - 1
  BY ONLY <1>a, Ranks
<1>2. PICK i \in C : Cardinality(Prior(R, C, i)) = k - 1  BY <1>b
<1>3. \E j \in C : Cardinality(Earlier(es, C, j)) = k - 1  BY <1>1, <1>2
<1>. DEFINE r == Ranked(es, C, k)
<1>4. r \in C /\ Cardinality(Earlier(es, C, r)) = k - 1  BY <1>3 DEF Ranked
<1>. HIDE DEF r
<1>5. \A m, j \in C : Cardinality(Prior(R, C, m)) = Cardinality(Prior(R, C, j)) => m = j
  BY ONLY <1>a, Ranks
<1>6. ASSUME NEW m \in C, Cardinality(Earlier(es, C, m)) = k - 1  PROVE m = r
  <2>1. Cardinality(Prior(R, C, m)) = Cardinality(Prior(R, C, r))  BY <1>1, <1>4, <1>6
  <2>. QED  BY <1>4, <1>5, <2>1
<1>. QED  BY <1>4, <1>6 DEF r

LEMMA CandlesAre ==
  ASSUME NEW es, NEW s, NEW t \in Int, Readings(es)
  PROVE  LET C == FinalCandles(es, s, t)
             cs == Candles(es, s, t)
         IN  /\ IsFiniteSet(C) /\ C \subseteq Int /\ \A i \in C : es[i].ts \in Int
             /\ Cardinality(C) \in Nat
             /\ DOMAIN cs = 1..Cardinality(C) /\ Len(cs) = Cardinality(C)
             /\ \A k \in 1..Cardinality(C) : cs[k] = Ranked(es, C, k) /\ cs[k] \in C
<1>. DEFINE C == FinalCandles(es, s, t)
            n == Cardinality(C)
            cs == Candles(es, s, t)
<1>1. C \subseteq DOMAIN es /\ \A i \in C : es[i].ts # None  BY DEF FinalCandles, OfType
<1>2. IsFiniteSet(C) /\ C \subseteq Int /\ \A i \in C : es[i].ts \in Int
  BY <1>1, FS_Subset DEF Readings
<1>3. n \in Nat  BY <1>2, FS_CardinalityType
<1>4. cs = [k \in 1..n |-> Ranked(es, C, k)]  BY DEF Candles, Ranked
<1>. HIDE DEF C, cs
<1>5. \A k \in 1..n : Ranked(es, C, k) \in C  BY <1>2, RankedIs
<1>. HIDE DEF n
<1>6. DOMAIN cs = 1..n /\ \A k \in 1..n : cs[k] = Ranked(es, C, k)  BY <1>4
<1>7. Len(cs) = n
  <2>1. cs \in [1..n -> C]  BY <1>4, <1>5
  <2>2. cs \in Seq(C)  BY <1>3, <2>1
  <2>. QED  BY <1>3, <1>6, <2>2, LenProperties
<1>. QED  BY <1>2, <1>3, <1>5, <1>6, <1>7 DEF C, n, cs

LEMMA MaxOfThree ==
  ASSUME NEW a \in Int, NEW b \in Int, NEW c \in Int  PROVE Max({a, b, c}) \in Int
<1>1. IsFiniteSet({a}) /\ IsFiniteSet({a} \cup {b}) /\ IsFiniteSet(({a} \cup {b}) \cup {c})
  BY FS_EmptySet, FS_AddElement
<1>2. ({a} \cup {b}) \cup {c} = {a, b, c}  OBVIOUS
<1>3. IsFiniteSet({a, b, c}) /\ {a, b, c} \subseteq Int /\ {a, b, c} # {}  BY <1>1, <1>2
<1>4. Max({a, b, c}) \in {a, b, c}  BY <1>3, MaxIs
<1>. QED  BY <1>3, <1>4

LEMMA RangesAre ==
  ASSUME NEW es, NEW s, NEW t \in Int, Readings(es)
  PROVE  LET cs == Candles(es, s, t)
             rs == TrueRanges(es, cs)
         IN  /\ DOMAIN rs = 1..Len(rs) /\ Len(rs) = Cardinality(FinalCandles(es, s, t))
             /\ Len(rs) \in Nat
             /\ \A k \in 1..Len(rs) : rs[k] \in Int
<1>. DEFINE C == FinalCandles(es, s, t)
            cs == Candles(es, s, t)
            rs == TrueRanges(es, cs)
            n == Cardinality(C)
            R(k) == IF k = 1 THEN es[cs[k]].body.high - es[cs[k]].body.low
                    ELSE Max({es[cs[k]].body.high - es[cs[k]].body.low,
                              Distance(es[cs[k]].body.high, es[cs[k - 1]].body.close),
                              Distance(es[cs[k]].body.low, es[cs[k - 1]].body.close)})
<1>1. n \in Nat /\ Len(cs) = n /\ \A k \in 1..n : cs[k] \in C  BY CandlesAre
<1>2. \A i \in C : es[i].body.high \in Int /\ es[i].body.low \in Int /\ es[i].body.close \in Int
  BY DEF FinalCandles, IsNumber
<1>3. rs = [k \in 1..n |-> R(k)]
  <2>1. rs = [k \in 1..Len(cs) |-> R(k)]  BY DEF TrueRanges
  <2>. QED  BY <1>1, <2>1
<1>. HIDE DEF rs, cs, C, n
<1>4. ASSUME NEW k \in 1..n  PROVE R(k) \in Int
  <2>1. k \in Int /\ cs[k] \in C  BY <1>1
  <2>. DEFINE h == es[cs[k]].body.high
              l == es[cs[k]].body.low
              b == es[cs[k - 1]].body.close
  <2>2. h \in Int /\ l \in Int  BY <1>2, <2>1
  <2>3. CASE k = 1  BY <2>2, <2>3
  <2>4. CASE k # 1
    <3>1. k - 1 \in 1..n  BY <1>1, <2>4
    <3>2. b \in Int  BY <1>1, <1>2, <3>1
    <3>. HIDE DEF h, l, b
    <3>3. h - l \in Int /\ Distance(h, b) \in Int /\ Distance(l, b) \in Int
      BY <2>2, <3>2 DEF Distance
    <3>4. Max({h - l, Distance(h, b), Distance(l, b)}) \in Int  BY <3>3, MaxOfThree
    <3>. QED  BY <2>4, <3>4 DEF h, l, b
  <2>. QED  BY <2>3, <2>4
<1>. HIDE DEF R
<1>5. DOMAIN rs = 1..n /\ \A k \in 1..n : rs[k] \in Int  BY <1>3, <1>4
<1>6. Len(rs) = n
  <2>1. rs \in [1..n -> Int]  BY <1>3, <1>4
  <2>2. rs \in Seq(Int)  BY <1>1, <2>1
  <2>. QED  BY <1>1, <1>5, <2>2, LenProperties
<1>. QED  BY <1>1, <1>5, <1>6 DEF rs, cs, C, n

LEMMA RangeSums ==
  ASSUME NEW rs, NEW n \in Nat, \A k \in 1..n : rs[k] \in Int,
         NEW a \in Int, NEW b \in Int, a >= 1, b <= n
  PROVE  SumOver(rs, a..b) \in Int
<1>1. IsFiniteSet(a..b)  BY FS_Interval
<1>2. NumbersOn(rs, a..b)
  <2>1. \A k \in a..b : k \in 1..n  OBVIOUS
  <2>. QED  BY <2>1 DEF NumbersOn
<1>. QED  BY <1>1, <1>2, SumType

LEMMA Square == ASSUME NEW x \in Int, NEW y \in Int  PROVE 0 * 0 * y <= 100 * x * x
<1>1. x * x \in Int /\ x * x >= 0  OBVIOUS
<1>2. 100 * x * x = 100 * (x * x)  OBVIOUS
<1>3. 0 * 0 * y = 0  OBVIOUS
<1>. QED  BY <1>1, <1>2, <1>3

LEMMA AtrType ==
  ASSUME NEW rs, Len(rs) \in Nat, \A k \in 1..Len(rs) : rs[k] \in Int
  PROVE  Atr(rs) \in Int \cup {None} /\ AtrZ(rs) \in Int \cup {None}
<1>. DEFINE n == Len(rs)
            w == AtrWindow
            z == AtrZWindow
            last == n - w + 1
            series == AtrSeries(rs)
<1>0. n \in Nat /\ w \in Nat \ {0} /\ z \in Nat \ {0}  BY AtrAssumption
<1>1. ASSUME n >= w  PROVE Atr(rs) \in Int
  <2>1. SumOver(rs, (n - w + 1)..n) \in Int
    <3>1. n - w + 1 \in Int /\ n - w + 1 >= 1 /\ n \in Int /\ n <= n  BY <1>0, <1>1
    <3>. QED  BY <1>0, <3>1, RangeSums
  <2>. QED  BY <1>0, <1>1, <2>1 DEF Atr
<1>2. ASSUME n >= w
      PROVE  /\ last \in Nat /\ Len(series) = last
             /\ \A k \in 1..last : series[k] \in Int
  <2>1. last \in Nat  BY <1>0, <1>2
  <2>2. ASSUME NEW k \in 1..last  PROVE SumOver(rs, k..(k + w - 1)) \in Int
    <3>1. k \in Int /\ k + w - 1 \in Int /\ k >= 1 /\ k + w - 1 <= n  BY <1>0, <2>1
    <3>. QED  BY <1>0, <3>1, RangeSums
  <2>3. series = [k \in 1..last |-> SumOver(rs, k..(k + w - 1))]  BY DEF AtrSeries
  <2>. HIDE DEF series, last
  <2>4. series \in [1..last -> Int]  BY <2>2, <2>3
  <2>5. series \in Seq(Int)  BY <2>1, <2>4
  <2>6. Len(series) = last  BY <2>1, <2>4, <2>5, LenProperties
  <2>. QED  BY <2>1, <2>4, <2>6
<1>. DEFINE first == last - z + 1
            total == SumOver(series, first..last)
            sq == [k \in first..last |-> series[k] * series[k]]
            squares == SumOver(sq, first..last)
            spread == z * squares - total * total
            above == z * series[last] - total
            K == {k \in 0..(10 * z) : k * k * spread <= 100 * above * above}
            tenths == Max(K)
            size == 2 * tenths + IF tenths * tenths * spread = 100 * above * above THEN 0 ELSE 1
<1>3. ASSUME n >= w, last >= z  PROVE size \in Int
  <2>0. last \in Nat /\ \A k \in 1..last : series[k] \in Int  BY <1>2, <1>3
  <2>1. first \in Int /\ first >= 1 /\ last \in Int /\ last <= last /\ last \in 1..last
    BY <1>0, <1>3, <2>0
  <2>. HIDE DEF series, last
  <2>2. total \in Int
    <3>. HIDE DEF first
    <3>. QED  BY <2>0, <2>1, RangeSums
  <2>3. squares \in Int
    <3>. HIDE DEF first
    <3>1. IsFiniteSet(first..last)  BY <2>1, FS_Interval
    <3>2. ASSUME NEW k \in first..last  PROVE series[k] * series[k] \in Int
      <4>1. k \in 1..last  BY <2>1
      <4>2. series[k] \in Int  BY <2>0, <4>1
      <4>. QED  BY <4>2
    <3>3. NumbersOn(sq, first..last)  BY <3>2 DEF NumbersOn
    <3>. HIDE DEF sq
    <3>. QED  BY <3>1, <3>3, SumType
  <2>4. series[last] \in Int  BY <2>0, <2>1
  <2>. HIDE DEF total, squares
  <2>5. spread \in Int /\ above \in Int  BY <1>0, <2>2, <2>3, <2>4
  <2>. HIDE DEF spread, above
  <2>6. IsFiniteSet(K) /\ K \subseteq Int /\ 0 \in K
    <3>1. 10 * z \in Int /\ 10 * z >= 0  BY <1>0
    <3>2. IsFiniteSet(0..(10 * z))  BY <3>1, FS_Interval
    <3>3. IsFiniteSet(K)  BY <3>2, FS_Subset
    <3>4. 0 * 0 * spread <= 100 * above * above  BY <2>5, Square
    <3>5. 0 \in 0..(10 * z)  BY <3>1
    <3>6. 0 \in K  BY <3>4, <3>5
    <3>. QED  BY <3>3, <3>6
  <2>. HIDE DEF K
  <2>7. tenths \in Int  BY <2>6, MaxIs
  <2>. HIDE DEF tenths
  <2>. QED  BY <2>7
<1>4. CASE n < w  BY <1>4 DEF Atr, AtrZ
<1>5. CASE n >= w
  <2>1. ~(n < w) /\ Len(series) = last  BY <1>0, <1>2, <1>5
  <2>2. AtrZ(rs) = IF last < z THEN None
                   ELSE IF spread = 0 THEN None ELSE IF above >= 0 THEN size ELSE -size
    BY <2>1 DEF AtrZ
  <2>3. CASE last < z  BY <1>1, <1>5, <2>2, <2>3
  <2>4. CASE ~(last < z)
    <3>1. last >= z  BY <1>0, <1>2, <1>5, <2>4
    <3>2. size \in Int  BY <1>3, <1>5, <3>1
    <3>. HIDE DEF size, spread, above, last
    <3>3. AtrZ(rs) \in Int \cup {None}  BY <2>2, <3>2
    <3>. QED  BY <1>1, <1>5, <3>3
  <2>. QED  BY <2>3, <2>4
<1>. QED  BY <1>0, <1>4, <1>5

LEMMA QuantityType ==
  ASSUME NEW es, NEW T, IsFiniteSet(T), \A i \in T : es[i].body.quantity \in Int
  PROVE  Quantity(es, T) \in Int
<1>. DEFINE q == [i \in T |-> es[i].body.quantity]
<1>1. NumbersOn(q, T)  BY DEF NumbersOn
<1>. HIDE DEF q
<1>2. SumOver(q, T) \in Int  BY <1>1, SumType
<1>. QED  BY <1>2 DEF Quantity, q

(* The open interests of a cut, and those of them with the latest time. *)
Interest(es, s) == {i \in OfType(es, s, "OpenInterest") : IsNumber(es[i].body.open_interest)}
TimedOf(es, I) == {i \in I : es[i].ts # None}
LatestOf(es, I) ==
  IF TimedOf(es, I) = {} THEN I
  ELSE {i \in TimedOf(es, I) : \A j \in TimedOf(es, I) : es[j].ts <= es[i].ts}

LEMMA InterestIsLatest ==
  ASSUME NEW es, NEW s
  PROVE  OpenInterestLatest(es, s) =
           IF Interest(es, s) = {} THEN None
           ELSE es[Max(LatestOf(es, Interest(es, s)))].body.open_interest
BY DEF OpenInterestLatest, Interest, LatestOf, TimedOf

LEMMA LatestIs ==
  ASSUME NEW es, NEW s, Readings(es)
  PROVE  LET I == Interest(es, s)
             W == LatestOf(es, I)
         IN  W \subseteq I /\ (I # {} => Max(W) \in W)
<1>. DEFINE D == DOMAIN es
            I == Interest(es, s)
            timed == TimedOf(es, I)
            latest == {i \in timed : \A j \in timed : es[j].ts <= es[i].ts}
            W == LatestOf(es, I)
<1>0. \A T \in SUBSET D : IsFiniteSet(T) /\ T \subseteq Int  BY FS_Subset DEF Readings
<1>1. I \subseteq D /\ timed \subseteq I  BY DEF OfType, Interest, TimedOf
<1>2. latest \subseteq timed  OBVIOUS
<1>3. \A i \in timed : es[i].ts \in Int  BY <1>1 DEF Readings, TimedOf
<1>4. timed # {} => latest # {}
  <2>. SUFFICES ASSUME timed # {}  PROVE latest # {}  OBVIOUS
  <2>. DEFINE m == [i \in timed |-> es[i].ts]
              times == {m[i] : i \in timed}
  <2>1. IsFiniteSet(timed)  BY <1>0, <1>1
  <2>2. m \in Surjection(timed, times)  BY DEF Surjection
  <2>3. IsFiniteSet(times)  BY <2>1, <2>2, FS_Surjection
  <2>4. \A i \in timed : m[i] = es[i].ts /\ m[i] \in Int  BY <1>3
  <2>. HIDE DEF m, timed
  <2>5. times \subseteq Int /\ times # {}  BY <2>4
  <2>6. Max(times) \in times /\ \A y \in times : Max(times) >= y  BY <2>3, <2>5, MaxIs
  <2>7. PICK i \in timed : Max(times) = m[i]  BY <2>6
  <2>8. \A j \in timed : m[j] \in times  OBVIOUS
  <2>9. \A j \in timed : m[i] >= m[j]  BY <2>6, <2>7, <2>8
  <2>10. \A j \in timed : es[j].ts <= es[i].ts  BY <2>4, <2>9
  <2>. QED  BY <2>10
<1>5. W = IF timed = {} THEN I ELSE latest  BY DEF LatestOf
<1>. HIDE DEF I, timed, latest, W, D
<1>6. W \subseteq I /\ (I # {} => W # {})  BY <1>1, <1>2, <1>4, <1>5
<1>7. IsFiniteSet(W) /\ W \subseteq Int  BY <1>0, <1>1, <1>6
<1>8. I # {} => Max(W) \in W  BY <1>6, <1>7, MaxIs
<1>. QED  BY <1>6, <1>8 DEF W, I

(* Features are numbers, averages of numbers, or none, whatever was read. *)
LEMMA FeaturesType ==
  ASSUME NEW es, NEW s, NEW t \in Int, Readings(es)
  PROVE  FeatureSnapshot(es, s, t) \in FeatureRecord
<1>. DEFINE D == DOMAIN es
<1>0. \A T \in SUBSET D : IsFiniteSet(T) /\ T \subseteq Int  BY FS_Subset DEF Readings
<1>s. Sized(es, Trades(es, s, t)) \subseteq D  BY DEF Sized, Trades, OfType
<1>1. PriceLast(es, s, t) \in Int \cup {None}
  <2>. DEFINE P == {i \in OfType(es, s, "TradeTick") :
                      es[i].ts # None /\ es[i].ts <= t /\ IsNumber(es[i].body.price)}
  <2>1. P \subseteq D  BY DEF OfType
  <2>2. IsFiniteSet(P) /\ P \subseteq Int  BY <1>0, <2>1
  <2>3. \A i \in P : es[i].body.price \in Int  BY DEF IsNumber
  <2>4. PriceLast(es, s, t) = IF P = {} THEN None ELSE es[Max(P)].body.price  BY DEF PriceLast
  <2>. HIDE DEF P
  <2>5. P # {} => Max(P) \in P  BY <2>2, MaxIs
  <2>. QED  BY <2>3, <2>4, <2>5
<1>2. Vwap(es, s, t) \in [notional : Int, quantity : Int] \cup {None}
  <2>. DEFINE T == {i \in Sized(es, Trades(es, s, t)) : IsNumber(es[i].body.price)}
              p == [i \in T |-> es[i].body.price * es[i].body.quantity]
  <2>1. IsFiniteSet(T)  BY <1>0, <1>s
  <2>2. \A i \in T : es[i].body.price \in Int /\ es[i].body.quantity \in Int
    BY DEF IsNumber, Sized
  <2>3. NumbersOn(p, T)  BY <2>2 DEF NumbersOn
  <2>4. Vwap(es, s, t) = IF T = {} THEN None
                         ELSE [notional |-> SumOver(p, T), quantity |-> Quantity(es, T)]
    BY DEF Vwap
  <2>. HIDE DEF T, p
  <2>5. SumOver(p, T) \in Int /\ Quantity(es, T) \in Int  BY <2>1, <2>2, <2>3, SumType, QuantityType
  <2>. QED  BY <2>4, <2>5
<1>3. /\ Cvd(es, s, t) \in Int \cup {None}
      /\ AggressiveRatio(es, s, t) \in [bought : Int, traded : Int] \cup {None}
  <2>. DEFINE T == Sided(es, s, t)
              A == OfSide(es, T, 1)
              B == OfSide(es, T, -1)
  <2>1. T \subseteq D /\ A \subseteq T /\ B \subseteq T  BY <1>s DEF Sided, OfSide
  <2>2. \A i \in T : es[i].body.quantity \in Int  BY DEF Sided, Sized, IsNumber
  <2>3. /\ Cvd(es, s, t) = IF T = {} THEN None ELSE Quantity(es, A) - Quantity(es, B)
        /\ AggressiveRatio(es, s, t) =
             IF T = {} THEN None ELSE [bought |-> Quantity(es, A), traded |-> Quantity(es, T)]
    BY DEF Cvd, AggressiveRatio
  <2>. HIDE DEF T, A, B, D
  <2>4. IsFiniteSet(T) /\ IsFiniteSet(A) /\ IsFiniteSet(B)  BY <1>0, <2>1
  <2>5. Quantity(es, T) \in Int  BY <2>2, <2>4, QuantityType
  <2>6. Quantity(es, A) \in Int  BY <2>1, <2>2, <2>4, QuantityType
  <2>7. Quantity(es, B) \in Int  BY <2>1, <2>2, <2>4, QuantityType
  <2>. QED  BY <2>3, <2>5, <2>6, <2>7
<1>4. LET rs == TrueRanges(es, Candles(es, s, t))
      IN  Atr(rs) \in Int \cup {None} /\ AtrZ(rs) \in Int \cup {None}
  <2>. DEFINE rs == TrueRanges(es, Candles(es, s, t))
  <2>1. Len(rs) \in Nat /\ \A k \in 1..Len(rs) : rs[k] \in Int  BY RangesAre
  <2>. HIDE DEF rs
  <2>2. Atr(rs) \in Int \cup {None} /\ AtrZ(rs) \in Int \cup {None}  BY <2>1, AtrType
  <2>. QED  BY <2>2 DEF rs
<1>5. OpenInterestLatest(es, s) \in Int \cup {None}
  <2>. PICK I, W : I = Interest(es, s) /\ W = LatestOf(es, I)  OBVIOUS
  <2>1. \A i \in I : es[i].body.open_interest \in Int  BY DEF Interest, IsNumber
  <2>2. W \subseteq I /\ (I # {} => Max(W) \in W)  BY LatestIs
  <2>. QED  BY <2>1, <2>2, InterestIsLatest
<1>. DEFINE rs == TrueRanges(es, Candles(es, s, t))
<1>6. FeatureSnapshot(es, s, t) =
        [price_last |-> PriceLast(es, s, t), vwap_3m |-> Vwap(es, s, t),
         atr_14 |-> Atr(rs), atr_z_50 |-> AtrZ(rs), cvd_3m |-> Cvd(es, s, t),
         aggressive_volume_ratio_3m |-> AggressiveRatio(es, s, t),
         open_interest_latest |-> OpenInterestLatest(es, s)]
  BY DEF FeatureSnapshot
<1>. QED  BY <1>1, <1>2, <1>3, <1>4, <1>5, <1>6 DEF FeatureRecord

-----------------------------------------------------------------------------
(* Decoding.  Whatever stream a message is of, its layout has events, and each of   *)
(* them the keys the contract asks for; only two streams have trades.               *)
PartIsGood(part) ==
  part.type \in DOMAIN RequiredKeys /\ RequiredKeys[part.type] \subseteq DOMAIN part.body

LayoutIsGood(l) ==
  /\ Len(l.times) \in Nat
  /\ Len(l.parts) \in Nat \ {0} /\ DOMAIN l.parts = 1..Len(l.parts)
  /\ \A i \in 1..Len(l.parts) : PartIsGood(l.parts[i])

Tradeless(l) == \A i \in 1..Len(l.parts) : l.parts[i].type # "TradeTick"

LEMMA RequiredAre ==
  /\ DOMAIN RequiredKeys =
       {"TradeTick", "BookTop", "BookDelta", "Candle", "FundingRate", "OpenInterest", "MarkPrice",
        "IndexPrice", "LiquidationPrint", "SnapshotInputs", "DecodeFailure"}
  /\ RequiredKeys["TradeTick"] = {"price", "quantity", "side"}
  /\ RequiredKeys["BookTop"] =
       {"best_bid_price", "best_bid_quantity", "best_ask_price", "best_ask_quantity"}
  /\ RequiredKeys["BookDelta"] = {"bids", "asks"}
  /\ RequiredKeys["Candle"] =
       {"open", "high", "low", "close", "volume", "interval_ms", "is_final"}
  /\ RequiredKeys["FundingRate"] = {"funding_rate"}
  /\ RequiredKeys["OpenInterest"] = {"open_interest"}
  /\ RequiredKeys["MarkPrice"] = {"mark_price"}
  /\ RequiredKeys["IndexPrice"] = {"index_price"}
  /\ RequiredKeys["LiquidationPrint"] = {"price", "quantity", "side"}
  /\ RequiredKeys["SnapshotInputs"] = {"timestamp_ms"}
  /\ RequiredKeys["DecodeFailure"] = {"error_kind", "error_detail"}
BY DEF RequiredKeys

(* A layout of one event. *)
LEMMA OneEvent ==
  ASSUME NEW needs, NEW times, Len(times) \in Nat, NEW timed, NEW part, PartIsGood(part)
  PROVE  LayoutIsGood(Layout(needs, times, timed, <<part>>))
BY DEF LayoutIsGood, Layout

LEMMA VendorLayoutsAreGood ==
  /\ LayoutIsGood(AggTrade) /\ LayoutIsGood(Kline) /\ LayoutIsGood(BookTicker)
  /\ LayoutIsGood(Depth) /\ LayoutIsGood(MarkPrice) /\ LayoutIsGood(ForceOrder)
  /\ LayoutIsGood(OpenInterestPoll)
<1>. USE RequiredAre DEF PartIsGood
<1>1. LayoutIsGood(AggTrade)  BY OneEvent DEF AggTrade
<1>2. LayoutIsGood(Kline)  BY OneEvent DEF Kline
<1>3. LayoutIsGood(BookTicker)  BY OneEvent DEF BookTicker
<1>4. LayoutIsGood(Depth)  BY OneEvent DEF Depth
<1>5. LayoutIsGood(MarkPrice)  BY DEF MarkPrice, LayoutIsGood, Layout
<1>6. LayoutIsGood(ForceOrder)  BY OneEvent DEF ForceOrder
<1>7. LayoutIsGood(OpenInterestPoll)  BY OneEvent DEF OpenInterestPoll
<1>. QED  BY <1>1, <1>2, <1>3, <1>4, <1>5, <1>6, <1>7

Traded == [price |-> From("price", "number"), quantity |-> From("quantity", "number"),
           side |-> From("side", "side")]

LEMMA OwnIsGood ==
  ASSUME NEW type, NEW body, PartIsGood([type |-> type, body |-> body])
  PROVE  LayoutIsGood(Own(type, body))
<1>1. Len(<<>>) \in Nat  OBVIOUS
<1>. QED  BY <1>1, OneEvent DEF Own

LEMMA OwnIsTradeless ==
  ASSUME NEW type, type # "TradeTick", NEW body
  PROVE  Tradeless(Own(type, body))
BY DEF Tradeless, Own, Layout

LEMMA OwnLayoutsAre ==
  /\ DOMAIN OwnLayouts =
       {"TradeTick", "LiquidationPrint", "BookTop", "BookDelta", "Candle", "FundingRate",
        "OpenInterest", "MarkPrice", "IndexPrice", "SnapshotInputs"}
  /\ OwnLayouts["TradeTick"] = Own("TradeTick", Traded)
  /\ \A via \in DOMAIN OwnLayouts :
       LayoutIsGood(OwnLayouts[via]) /\ (via # "TradeTick" => Tradeless(OwnLayouts[via]))
<1>. USE RequiredAre DEF PartIsGood
<1>. DEFINE Fits(l, type) == LayoutIsGood(l) /\ (type # "TradeTick" => Tradeless(l))
<1>. DEFINE Book == Numbers({"best_bid_price", "best_bid_quantity", "best_ask_price", "best_ask_quantity"})
            Delta == [bids |-> From("bids", "pairs"), asks |-> From("asks", "pairs")]
            Candle == [open |-> From("open", "number"), high |-> From("high", "number"),
                       low |-> From("low", "number"), close |-> From("close", "number"),
                       volume |-> From("volume", "number"),
                       interval_ms |-> From("interval_ms", "integer"),
                       is_final |-> From("is_final", "flagOrNone")]
            Inputs == [timestamp_ms |-> From("timestamp_ms", "integer"),
                       market |-> From("market", "mapOrNone"),
                       derivatives |-> From("derivatives", "mapOrNone"),
                       flow |-> From("flow", "mapOrNone"),
                       context |-> From("context", "mapOrNone")]
<1>0. \A keys : DOMAIN Numbers(keys) = keys  BY DEF Numbers
<1>1. Fits(Own("TradeTick", Traded), "TradeTick")  BY OwnIsGood DEF Traded
<1>2. Fits(Own("LiquidationPrint", Traded), "LiquidationPrint")
  BY OwnIsGood, OwnIsTradeless DEF Traded
<1>3. Fits(Own("BookTop", Book), "BookTop")  BY <1>0, OwnIsGood, OwnIsTradeless
<1>4. Fits(Own("BookDelta", Delta), "BookDelta")  BY OwnIsGood, OwnIsTradeless
<1>5. Fits(Own("Candle", Candle), "Candle")  BY OwnIsGood, OwnIsTradeless
<1>6. Fits(Own("FundingRate", Numbers({"funding_rate"})), "FundingRate")
  BY <1>0, OwnIsGood, OwnIsTradeless
<1>7. Fits(Own("OpenInterest", Numbers({"open_interest"})), "OpenInterest")
  BY <1>0, OwnIsGood, OwnIsTradeless
<1>8. Fits(Own("MarkPrice", Numbers({"mark_price"})), "MarkPrice")
  BY <1>0, OwnIsGood, OwnIsTradeless
<1>9. Fits(Own("IndexPrice", Numbers({"index_price"})), "IndexPrice")
  BY <1>0, OwnIsGood, OwnIsTradeless
<1>10. Fits(Own("SnapshotInputs", Inputs), "SnapshotInputs")  BY OwnIsGood, OwnIsTradeless
<1>. HIDE DEF Fits, PartIsGood
<1>11. OwnLayouts =
         [TradeTick |-> Own("TradeTick", Traded), LiquidationPrint |-> Own("LiquidationPrint", Traded),
          BookTop |-> Own("BookTop", Book), BookDelta |-> Own("BookDelta", Delta),
          Candle |-> Own("Candle", Candle), FundingRate |-> Own("FundingRate", Numbers({"funding_rate"})),
          OpenInterest |-> Own("OpenInterest", Numbers({"open_interest"})),
          MarkPrice |-> Own("MarkPrice", Numbers({"mark_price"})),
          IndexPrice |-> Own("IndexPrice", Numbers({"index_price"})),
          SnapshotInputs |-> Own("SnapshotInputs", Inputs)]
  BY DEF OwnLayouts, Traded
<1>. HIDE DEF Book, Delta, Candle, Inputs
<1>12. DOMAIN OwnLayouts =
         {"TradeTick", "LiquidationPrint", "BookTop", "BookDelta", "Candle", "FundingRate",
          "OpenInterest", "MarkPrice", "IndexPrice", "SnapshotInputs"}
       /\ OwnLayouts["TradeTick"] = Own("TradeTick", Traded)
  BY ONLY <1>11
<1>13. \A via \in DOMAIN OwnLayouts : Fits(OwnLayouts[via], via)
  <2>. SUFFICES ASSUME NEW via \in DOMAIN OwnLayouts  PROVE Fits(OwnLayouts[via], via)
    OBVIOUS
  <2>1. /\ Fits(OwnLayouts["TradeTick"], "TradeTick")
        /\ Fits(OwnLayouts["LiquidationPrint"], "LiquidationPrint")
        /\ Fits(OwnLayouts["BookTop"], "BookTop")
        /\ Fits(OwnLayouts["BookDelta"], "BookDelta")
        /\ Fits(OwnLayouts["Candle"], "Candle")
        /\ Fits(OwnLayouts["FundingRate"], "FundingRate")
        /\ Fits(OwnLayouts["OpenInterest"], "OpenInterest")
        /\ Fits(OwnLayouts["MarkPrice"], "MarkPrice")
        /\ Fits(OwnLayouts["IndexPrice"], "IndexPrice")
        /\ Fits(OwnLayouts["SnapshotInputs"], "SnapshotInputs")
    BY ONLY <1>1, <1>2, <1>3, <1>4, <1>5, <1>6, <1>7, <1>8, <1>9, <1>10, <1>11
  <2>. QED  BY ONLY <1>12, <2>1, via \in DOMAIN OwnLayouts
<1>14. \A via \in DOMAIN OwnLayouts :
         LayoutIsGood(OwnLayouts[via]) /\ (via # "TradeTick" => Tradeless(OwnLayouts[via]))
  BY ONLY <1>13 DEF Fits
<1>. QED  BY ONLY <1>12, <1>14

LEMMA VendorLayoutsAre ==
  /\ DOMAIN VendorLayouts =
       {"aggTrade", "kline", "bookTicker", "depth", "markPrice", "forceOrder", "openInterest"}
  /\ VendorLayouts["aggTrade"] = AggTrade
  /\ \A via \in DOMAIN VendorLayouts :
       LayoutIsGood(VendorLayouts[via]) /\ (via # "aggTrade" => Tradeless(VendorLayouts[via]))
<1>1. /\ Tradeless(Kline) /\ Tradeless(BookTicker) /\ Tradeless(Depth) /\ Tradeless(MarkPrice)
      /\ Tradeless(ForceOrder) /\ Tradeless(OpenInterestPoll)
  BY DEF Tradeless, Layout, Kline, BookTicker, Depth, MarkPrice, ForceOrder, OpenInterestPoll
<1>2. /\ DOMAIN VendorLayouts =
           {"aggTrade", "kline", "bookTicker", "depth", "markPrice", "forceOrder", "openInterest"}
      /\ VendorLayouts["aggTrade"] = AggTrade /\ VendorLayouts["kline"] = Kline
      /\ VendorLayouts["bookTicker"] = BookTicker /\ VendorLayouts["depth"] = Depth
      /\ VendorLayouts["markPrice"] = MarkPrice /\ VendorLayouts["forceOrder"] = ForceOrder
      /\ VendorLayouts["openInterest"] = OpenInterestPoll
  BY DEF VendorLayouts
<1>. QED  BY <1>1, <1>2, VendorLayoutsAreGood

(* What there is to know of the layout of a message that has one. *)
LEMMA LayoutsAre ==
  ASSUME NEW m, HasLayout(m)
  PROVE  /\ LayoutIsGood(LayoutOf(m))
         /\ m.via = "aggTrade" => LayoutOf(m) = AggTrade
         /\ m.via = "TradeTick" => LayoutOf(m) = Own("TradeTick", Traded)
         /\ m.via \notin {"aggTrade", "TradeTick"} => Tradeless(LayoutOf(m))
<1>1. CASE m.via \in DOMAIN VendorLayouts
  <2>1. LayoutOf(m) = VendorLayouts[m.via] /\ m.via # "TradeTick"
    BY <1>1, VendorLayoutsAre DEF LayoutOf
  <2>. QED  BY <1>1, <2>1, VendorLayoutsAre
<1>2. CASE m.via \notin DOMAIN VendorLayouts
  <2>1. m.via \in DOMAIN OwnLayouts /\ LayoutOf(m) = OwnLayouts[m.via] /\ m.via # "aggTrade"
    BY <1>2, VendorLayoutsAre DEF LayoutOf, HasLayout
  <2>. QED  BY <2>1, OwnLayoutsAre
<1>. QED  BY <1>1, <1>2

LEMMA TimeType ==
  ASSUME NEW m, IsMessage(m), Readable(m)
  PROVE  Time(LayoutOf(m), m) \in Int \cup {None}
<1>. DEFINE l == LayoutOf(m)
            G == Given(l, m)
            first == CHOOSE i \in G : \A j \in G : i <= j
            key == l.times[first]
<1>1. TimeReads(l, m) /\ HasLayout(m)  BY DEF Readable
<1>2. CASE G = {}  BY <1>2 DEF Time, IsMessage
<1>3. CASE G # {}
  <2>1. Len(l.times) \in Nat  BY <1>1, LayoutsAre DEF LayoutIsGood
  <2>2. G \subseteq 1..Len(l.times)  BY DEF Given
  <2>3. IsFiniteSet(1..Len(l.times))  BY <2>1, FS_Interval
  <2>4. IsFiniteSet(G) /\ G \subseteq Int  BY <2>1, <2>2, <2>3, FS_Subset
  <2>. HIDE DEF G
  <2>5. Min(G) \in G /\ \A y \in G : Min(G) <= y  BY <1>3, <2>4, MinIs
  <2>6. first \in G  BY <2>5
  <2>7. FirstGiven(l, m) = key  BY DEF FirstGiven, G
  <2>8. Accepts(From(key, "int"), m)  BY <1>1, <1>3, <2>7 DEF TimeReads, G
  <2>. HIDE DEF key
  <2>9. Value(m, key).is \in {"int", "whole", "intText"}
    BY <2>8 DEF Accepts, From, VendorAccepts
  <2>10. key \in DOMAIN m.fields /\ Value(m, key) = m.fields[key]
    BY <2>9 DEF Value, Absent
  <2>11. Value(m, key).n \in Int  BY <2>9, <2>10 DEF IsMessage, IsValue
  <2>. QED  BY <1>3, <2>7, <2>11 DEF Time, G
<1>. QED  BY <1>2, <1>3

(* A record of a message: a failure, or one of the events of its layout. *)
IsEventOf(e, m) ==
  Readable(m) /\ \E i \in 1..Len(LayoutOf(m).parts) :
                   Decodes(LayoutOf(m).parts[i], m) /\ e = Event(LayoutOf(m).parts[i], m)
IsRecordOf(e, m) == e = Failure(m) \/ IsEventOf(e, m)

RecordCount(m) == IF Readable(m) THEN Len(LayoutOf(m).parts) ELSE 1

LEMMA RecordsAreValid ==
  ASSUME NEW m, IsMessage(m), NEW e, IsRecordOf(e, m)
  PROVE  Valid(e) /\ e.ts \in Int \cup {None}
<1>1. CASE e = Failure(m)
  <2>1. e.type = "DecodeFailure" /\ DOMAIN e.body = {"error_kind", "error_detail"} /\ e.ts = m.at
    BY <1>1 DEF Failure
  <2>. QED  BY <2>1, RequiredAre DEF Valid, IsMessage
<1>2. CASE IsEventOf(e, m)
  <2>. DEFINE l == LayoutOf(m)
  <2>1. PICK i \in 1..Len(l.parts) : e = Event(l.parts[i], m)  BY <1>2 DEF IsEventOf
  <2>2. HasLayout(m) /\ Readable(m)  BY <1>2 DEF IsEventOf, Readable
  <2>3. PartIsGood(l.parts[i])  BY <2>2, LayoutsAre DEF LayoutIsGood
  <2>. DEFINE part == l.parts[i]
  <2>. HIDE DEF part
  <2>4. e.type = part.type /\ DOMAIN e.body = DOMAIN part.body /\ e.ts = Time(LayoutOf(m), m)
    BY <2>1 DEF Event, part
  <2>. QED  BY <2>2, <2>3, <2>4, TimeType DEF Valid, PartIsGood, part
<1>. QED  BY <1>1, <1>2 DEF IsRecordOf

(* The records of a message, as many as it has events, or one; none is refused. *)
LEMMA DecodedAre ==
  ASSUME NEW m, IsMessage(m)
  PROVE  /\ RecordCount(m) \in Nat \ {0}
         /\ Len(Decoded(m)) = RecordCount(m) /\ Written(Decoded(m)) = RecordCount(m)
         /\ \A k \in 1..RecordCount(m) : IsRecordOf(Decoded(m)[k], m)
<1>1. CASE ~Readable(m)
  <2>1. Decoded(m) = <<Failure(m)>> /\ RecordCount(m) = 1  BY <1>1 DEF Decoded, RecordCount
  <2>2. Len(Decoded(m)) = 1 /\ Decoded(m)[1] = Failure(m)  BY <2>1
  <2>3. \A k \in 1..1 : Decoded(m)[k] = Failure(m)  BY <2>2
  <2>4. \A k \in 1..1 : Valid(Decoded(m)[k])  BY <2>3, RecordsAreValid DEF IsRecordOf
  <2>. QED  BY <2>1, <2>2, <2>3, <2>4 DEF Written, IsRecordOf
<1>2. CASE Readable(m)
  <2>. DEFINE parts == LayoutOf(m).parts
              n == Len(parts)
              good == {i \in DOMAIN parts : Decodes(parts[i], m)}
              bad == Cardinality(DOMAIN parts \ good)
              E(k) == IF k <= bad THEN Failure(m) ELSE Event(parts[Nth(good, k - bad)], m)
              es == [k \in 1..n |-> E(k)]
  <2>0. HasLayout(m)  BY <1>2 DEF Readable
  <2>1. n \in Nat \ {0} /\ DOMAIN parts = 1..n  BY <2>0, LayoutsAre DEF LayoutIsGood
  <2>2. IsFiniteSet(1..n) /\ Cardinality(1..n) = n  BY <2>1, FS_Interval
  <2>3. IsFiniteSet(good) /\ good \subseteq Int /\ good \subseteq 1..n  BY <2>1, <2>2, FS_Subset
  <2>4. Decoded(m) = es  BY <1>2 DEF Decoded
  <2>. HIDE DEF n
  <2>5. bad = n - Cardinality(good) /\ bad \in Nat /\ Cardinality(good) \in Nat
    <3>. HIDE DEF good
    <3>1. IsFiniteSet(1..n \ good)  BY <2>2, FS_Subset
    <3>2. (1..n \ good) \cap good = {} /\ (1..n \ good) \cup good = 1..n  BY <2>3
    <3>3. /\ Cardinality(1..n \ good) \in Nat /\ Cardinality(good) \in Nat
      BY <2>3, <3>1, FS_CardinalityType
    <3>. DEFINE rest == 1..n \ good
    <3>a. IsFiniteSet(rest) /\ IsFiniteSet(good) /\ rest \cap good = {} /\ rest \cup good = 1..n
      BY <2>3, <3>1, <3>2
    <3>. HIDE DEF rest
    <3>b. Cardinality(rest \cup good) =
            Cardinality(rest) + Cardinality(good) - Cardinality(rest \cap good)
      BY ONLY <3>a, FS_Union
    <3>c. Cardinality({}) = 0  BY FS_EmptySet
    <3>4. Cardinality(1..n \ good) + Cardinality(good) = n
      <4>1. Cardinality(rest \cap good) = 0 /\ Cardinality(rest \cup good) = n
        BY <2>2, <3>a, <3>c
      <4>2. Cardinality(rest) \in Nat /\ Cardinality(good) \in Nat  BY <3>3 DEF rest
      <4>3. Cardinality(rest) + Cardinality(good) = n  BY <2>1, <3>b, <4>1, <4>2
      <4>. QED  BY <4>3 DEF rest
    <3>. QED  BY <2>1, <3>3, <3>4
  <2>. HIDE DEF bad, es
  <2>6. ASSUME NEW k \in 1..n  PROVE IsRecordOf(E(k), m)
    <3>1. CASE k <= bad  BY <3>1 DEF IsRecordOf
    <3>2. CASE ~(k <= bad)
      <4>1. k - bad \in 1..Cardinality(good)  BY <2>1, <2>5, <3>2
      <4>2. Nth(good, k - bad) \in good  BY <2>3, <4>1, NthIs
      <4>. QED  BY <1>2, <2>1, <2>3, <3>2, <4>2 DEF IsRecordOf, IsEventOf, n
    <3>. QED  BY <3>1, <3>2
  <2>. HIDE DEF E, good
  <2>7. \A k \in 1..n : es[k] = E(k)  BY DEF es
  <2>8. \A k \in 1..n : IsRecordOf(es[k], m)  BY <2>6, <2>7
  <2>9. \A k \in 1..n : Valid(es[k])  BY <2>8, RecordsAreValid
  <2>10. Len(es) = n
    <3>. DEFINE T == {E(k) : k \in 1..n}
    <3>1. es \in [1..n -> T]  BY DEF es
    <3>. HIDE DEF T
    <3>2. es \in Seq(T) /\ DOMAIN es = 1..n  BY <2>1, <3>1
    <3>. QED  BY <2>1, <3>2, LenProperties
  <2>11. Written(es) = n  BY <2>9, <2>10 DEF Written
  <2>12. RecordCount(m) = n  BY <1>2 DEF RecordCount, n
  <2>. QED  BY <2>1, <2>4, <2>8, <2>10, <2>11, <2>12
<1>. QED  BY <1>1, <1>2

-----------------------------------------------------------------------------
(* The second inductive invariant.  Every record of the buffer is one of a message  *)
(* that was received, and every message has all of its own; what a run computed it   *)
(* would compute from the buffer as it is now, for a buffer only grows.             *)
Plain(b) == [type |-> b.type, ts |-> b.ts, body |-> b.body]

IsRecordAt(b, l, n) ==
  /\ b.message = <<l, n>> /\ b.symbol = feed[l][n].symbol
  /\ IsRecordOf(Plain(b), feed[l][n])

BufferInv ==
  /\ feed \in Feeds
  /\ DOMAIN taken = Lanes /\ \A l \in Lanes : taken[l] \in 0..Len(feed[l])
  /\ \E R : buffer \in Seq(R)
  /\ \A i \in 1..Len(buffer) : \E l \in Lanes : \E n \in 1..taken[l] : IsRecordAt(buffer[i], l, n)
  /\ \A l \in Lanes : \A n \in 1..taken[l] : Cardinality(RecordsOf(l, n)) = RecordCount(feed[l][n])

LEMMA MessagesAre ==
  ASSUME feed \in Feeds, NEW l \in Lanes
  PROVE  Len(feed[l]) \in Nat /\ \A n \in 1..Len(feed[l]) : IsMessage(feed[l][n])
BY ComputationAssumption DEF Lanes

LEMMA BufferStarts == Init => BufferInv
<1>. SUFFICES ASSUME Init  PROVE BufferInv  OBVIOUS
<1>1. buffer = <<>> /\ feed \in Feeds /\ taken = [l \in Lanes |-> 0]  BY DEF Init, Lanes
<1>2. buffer \in Seq({}) /\ Len(buffer) = 0  BY <1>1
<1>3. DOMAIN taken = Lanes /\ \A l \in Lanes : taken[l] \in 0..Len(feed[l])
  BY <1>1, MessagesAre
<1>. QED  BY <1>1, <1>2, <1>3 DEF BufferInv

(* The records a message adds. *)
Added(l, n) ==
  LET m == feed[l][n]
      es == Decoded(m)
  IN  [i \in 1..Written(es) |->
         [symbol |-> m.symbol, type |-> es[i].type, ts |-> es[i].ts, body |-> es[i].body,
          message |-> <<l, n>>]]

LEMMA AddedAre ==
  ASSUME NEW l, NEW n, IsMessage(feed[l][n])
  PROVE  LET c == RecordCount(feed[l][n])
         IN  /\ Added(l, n) = [i \in 1..c |-> Added(l, n)[i]]
             /\ \A i \in 1..c : IsRecordAt(Added(l, n)[i], l, n)
<1>. DEFINE m == feed[l][n]
            c == RecordCount(m)
            es == Decoded(m)
            B(i) == [symbol |-> m.symbol, type |-> es[i].type, ts |-> es[i].ts, body |-> es[i].body,
                     message |-> <<l, n>>]
            A == Added(l, n)
<1>1. Written(es) = c /\ \A i \in 1..c : IsRecordOf(es[i], m)  BY DecodedAre
<1>2. A = [i \in 1..c |-> B(i)]  BY <1>1 DEF Added
<1>3. ASSUME NEW i \in 1..c  PROVE IsRecordAt(B(i), l, n)
  <2>1. IsRecordOf(es[i], m)  BY <1>1
  <2>2. es[i] = [type |-> es[i].type, ts |-> es[i].ts, body |-> es[i].body]
    <3>1. CASE es[i] = Failure(m)  BY <3>1 DEF Failure
    <3>2. CASE IsEventOf(es[i], m)  BY <3>2 DEF IsEventOf, Event
    <3>. QED  BY <2>1, <3>1, <3>2 DEF IsRecordOf
  <2>3. Plain(B(i)) = es[i]  BY <2>2 DEF Plain
  <2>4. B(i).message = <<l, n>> /\ B(i).symbol = m.symbol  OBVIOUS
  <2>. HIDE DEF B, es
  <2>. QED  BY <2>1, <2>3, <2>4 DEF IsRecordAt
<1>. HIDE DEF A, B, c
<1>4. \A i \in 1..c : A[i] = B(i)  BY <1>2
<1>5. A = [i \in 1..c |-> A[i]]  BY <1>2
<1>6. \A i \in 1..c : IsRecordAt(A[i], l, n)  BY <1>3, <1>4
<1>. QED  BY <1>5, <1>6 DEF A, c

LEMMA BufferGrows ==
  ASSUME BufferInv, NEW l \in Lanes, Receive(l)
  PROVE  LET n == taken[l] + 1
             c == RecordCount(feed[l][n])
         IN  /\ n \in 1..Len(feed[l]) /\ IsMessage(feed[l][n])
             /\ \E R : buffer' \in Seq(R)
             /\ Len(buffer) \in Nat /\ c \in Nat \ {0} /\ Len(buffer') = Len(buffer) + c
             /\ \A i \in 1..Len(buffer) : buffer'[i] = buffer[i]
             /\ \A i \in (Len(buffer) + 1)..Len(buffer') : IsRecordAt(buffer'[i], l, n)
<1>. DEFINE k == taken[l] + 1
            A == Added(l, k)
            d == RecordCount(feed[l][k])
<1>1. k \in 1..Len(feed[l]) /\ IsMessage(feed[l][k])
  <2>1. feed \in Feeds /\ taken[l] \in 0..Len(feed[l]) /\ taken[l] < Len(feed[l])
    BY DEF BufferInv, Receive
  <2>2. Len(feed[l]) \in Nat /\ \A j \in 1..Len(feed[l]) : IsMessage(feed[l][j])
    BY <2>1, MessagesAre
  <2>. QED  BY <2>1, <2>2
<1>2. d \in Nat \ {0}  BY <1>1, DecodedAre
<1>3. A = [i \in 1..d |-> A[i]] /\ \A i \in 1..d : IsRecordAt(A[i], l, k)  BY <1>1, AddedAre
<1>4. buffer' = buffer \o A  BY DEF Receive, Added
<1>5. PICK R : buffer \in Seq(R)  BY DEF BufferInv
<1>. HIDE DEF A, d, k
<1>. DEFINE T == {A[i] : i \in 1..d}
            U == R \cup T
<1>6. A \in Seq(U) /\ Len(A) = d
  <2>. DEFINE F == [i \in 1..d |-> A[i]]
  <2>1. F \in [1..d -> U]  OBVIOUS
  <2>2. A = F /\ DOMAIN A = 1..d  BY <1>3
  <2>. HIDE DEF F, U
  <2>3. A \in Seq(U)  BY <1>2, <2>1, <2>2
  <2>. QED  BY <1>2, <2>2, <2>3, LenProperties
<1>7. buffer \in Seq(U)  BY <1>5
<1>. HIDE DEF U, T
<1>8. Len(buffer) \in Nat  BY <1>7, LenProperties
<1>9. /\ buffer \o A \in Seq(U) /\ Len(buffer \o A) = Len(buffer) + d
      /\ \A i \in 1..(Len(buffer) + d) :
           (buffer \o A)[i] = IF i <= Len(buffer) THEN buffer[i] ELSE A[i - Len(buffer)]
  BY <1>6, <1>7, ConcatProperties
<1>10. /\ buffer' \in Seq(U) /\ Len(buffer') = Len(buffer) + d
       /\ \A i \in 1..(Len(buffer) + d) :
            buffer'[i] = IF i <= Len(buffer) THEN buffer[i] ELSE A[i - Len(buffer)]
  BY <1>4, <1>9
<1>11. \A i \in 1..Len(buffer) : buffer'[i] = buffer[i]  BY <1>2, <1>8, <1>10
<1>12. ASSUME NEW i \in (Len(buffer) + 1)..Len(buffer')  PROVE IsRecordAt(buffer'[i], l, k)
  <2>1. i \in 1..(Len(buffer) + d) /\ ~(i <= Len(buffer)) /\ i - Len(buffer) \in 1..d
    BY <1>2, <1>8, <1>10
  <2>2. buffer'[i] = A[i - Len(buffer)]  BY <1>10, <2>1
  <2>. QED  BY <1>3, <2>1, <2>2
<1>. QED  BY <1>1, <1>2, <1>8, <1>10, <1>11, <1>12 DEF k, d

LEMMA BufferReceives ==
  ASSUME BufferInv, NEW l \in Lanes, Receive(l)  PROVE BufferInv'
<1>. PICK n : n = taken[l] + 1  OBVIOUS
<1>. PICK L : L = Len(buffer)  OBVIOUS
<1>. DEFINE m == feed[l][n]
<1>c. PICK c : c = RecordCount(m)  OBVIOUS
<1>0. feed' = feed /\ taken' = [taken EXCEPT ![l] = @ + 1]  BY DEF Receive
<1>1. /\ n \in 1..Len(feed[l]) /\ IsMessage(feed[l][n])
      /\ L \in Nat /\ c \in Nat \ {0} /\ Len(buffer') = L + c
      /\ \A i \in 1..L : buffer'[i] = buffer[i]
      /\ \A i \in (L + 1)..(L + c) : IsRecordAt(buffer'[i], l, n)
  BY <1>c, BufferGrows
<1>2. PICK R : buffer' \in Seq(R)  BY BufferGrows
<1>3. PICK R0 : buffer \in Seq(R0)  BY DEF BufferInv
<1>4. DOMAIN buffer' = 1..(L + c) /\ DOMAIN buffer = 1..L
  BY <1>1, <1>2, <1>3, LenProperties
<1>5. /\ DOMAIN taken = Lanes /\ \A k \in Lanes : taken[k] \in 0..Len(feed[k])
      /\ \A i \in 1..L : \E k \in Lanes : \E j \in 1..taken[k] : IsRecordAt(buffer[i], k, j)
      /\ \A k \in Lanes : \A j \in 1..taken[k] : Cardinality(RecordsOf(k, j)) = RecordCount(feed[k][j])
      /\ feed \in Feeds
  BY DEF BufferInv
<1>6. /\ DOMAIN taken' = Lanes /\ taken'[l] = n
      /\ \A k \in Lanes \ {l} : taken'[k] = taken[k]
  BY <1>0, <1>5
<1>. HIDE DEF m
<1>7. \A k \in Lanes : taken'[k] \in 0..Len(feed[k])
  BY <1>1, <1>5, <1>6
<1>8. \A k \in Lanes : \A j \in 1..taken[k] : j \in 1..taken'[k]
  <2>1. \A k \in Lanes : taken[k] \in Int  BY <1>5
  <2>. QED  BY <1>6, <2>1
<1>9. \A i \in 1..(L + c) : \E k \in Lanes : \E j \in 1..taken'[k] : IsRecordAt(buffer'[i], k, j)
  <2>. SUFFICES ASSUME NEW i \in 1..(L + c)
                PROVE  \E k \in Lanes : \E j \in 1..taken'[k] : IsRecordAt(buffer'[i], k, j)
    OBVIOUS
  <2>1. CASE i \in 1..L
    <3>0. PICK k \in Lanes : \E j \in 1..taken[k] : IsRecordAt(buffer[i], k, j)  BY <1>5, <2>1
    <3>1. PICK j \in 1..taken[k] : IsRecordAt(buffer[i], k, j)  BY <3>0
    <3>2. j \in 1..taken'[k] /\ IsRecordAt(buffer'[i], k, j)  BY <1>1, <1>8, <2>1, <3>1
    <3>. QED  BY <3>2
  <2>2. CASE i \notin 1..L
    <3>1. i \in (L + 1)..(L + c)  BY <1>1, <2>2
    <3>2. IsRecordAt(buffer'[i], l, n)  BY <1>1, <3>1
    <3>3. n \in 1..taken'[l]  BY <1>1, <1>6
    <3>. QED  BY <3>2, <3>3
  <2>. QED  BY <2>1, <2>2
<1>10. \A k \in Lanes : \A j \in 1..taken'[k] :
         Cardinality(RecordsOf(k, j)') = RecordCount(feed[k][j])
  <2>. SUFFICES ASSUME NEW k \in Lanes, NEW j \in 1..taken'[k]
                PROVE  Cardinality(RecordsOf(k, j)') = RecordCount(feed[k][j])
    OBVIOUS
  <2>0. /\ RecordsOf(k, j)' = {i \in 1..(L + c) : buffer'[i].message = <<k, j>>}
        /\ RecordsOf(k, j) = {i \in 1..L : buffer[i].message = <<k, j>>}
    BY <1>4 DEF RecordsOf
  <2>a. \A i \in (L + 1)..(L + c) : buffer'[i].message = <<l, n>>  BY <1>1 DEF IsRecordAt
  <2>1. CASE k = l /\ j = n
    <3>1. ASSUME NEW i \in 1..L  PROVE buffer'[i].message # <<l, n>>
      <4>0. PICK k1 \in Lanes : \E j1 \in 1..taken[k1] : IsRecordAt(buffer[i], k1, j1)  BY <1>5
      <4>1. PICK j1 \in 1..taken[k1] : IsRecordAt(buffer[i], k1, j1)  BY <4>0
      <4>2. buffer'[i].message = <<k1, j1>>  BY <1>1, <4>1 DEF IsRecordAt
      <4>3. ASSUME k1 = l, j1 = n  PROVE FALSE
        <5>1. taken[l] \in Int  BY <1>5
        <5>. QED  BY <4>3, <5>1
      <4>. QED  BY <4>2, <4>3
    <3>2. RecordsOf(k, j)' = (L + 1)..(L + c)
      <4>1. \A i \in 1..(L + c) : i \in 1..L \/ i \in (L + 1)..(L + c)  BY <1>1
      <4>2. \A i \in (L + 1)..(L + c) : i \in 1..(L + c) /\ i \notin 1..L  BY <1>1
      <4>. QED  BY <2>0, <2>a, <2>1, <3>1, <4>1, <4>2
    <3>3. Cardinality((L + 1)..(L + c)) = c
      <4>1. L + 1 \in Int /\ L + c \in Int /\ ~(L + 1 > L + c) /\ (L + c) - (L + 1) + 1 = c
        BY <1>1
      <4>. QED  BY <4>1, FS_Interval
    <3>. QED  BY <1>c, <2>1, <3>2, <3>3 DEF m
  <2>2. CASE ~(k = l /\ j = n)
    <3>1. j \in 1..taken[k]
      <4>1. taken[l] \in Int  BY <1>5
      <4>2. CASE k = l
        <5>1. j \in 1..n /\ j # n  BY <1>6, <2>2, <4>2
        <5>. QED  BY <4>1, <4>2, <5>1
      <4>3. CASE k # l  BY <1>6, <4>3
      <4>. QED  BY <4>2, <4>3
    <3>2. \A i \in (L + 1)..(L + c) : buffer'[i].message # <<k, j>>  BY <2>a, <2>2
    <3>3. \A i \in 1..(L + c) : i \in 1..L \/ i \in (L + 1)..(L + c)  BY <1>1
    <3>4. \A i \in 1..L : i \in 1..(L + c) /\ buffer'[i] = buffer[i]  BY <1>1
    <3>5. RecordsOf(k, j)' = RecordsOf(k, j)  BY <2>0, <3>2, <3>3, <3>4
    <3>. QED  BY <1>5, <3>1, <3>5
  <2>. QED  BY <2>1, <2>2
<1>11. Lanes' = Lanes  BY <1>0 DEF Lanes

<1>12. \A i \in 1..Len(buffer') : \E k \in Lanes' : \E j \in 1..taken'[k] : IsRecordAt(buffer[i], k, j)'
  BY <1>0, <1>1, <1>9, <1>11 DEF IsRecordAt
<1>13. \A k \in Lanes' : \A j \in 1..taken'[k] : Cardinality(RecordsOf(k, j))' = RecordCount(feed[k][j])'
  BY <1>0, <1>10, <1>11
<1>. QED  BY <1>0, <1>2, <1>5, <1>6, <1>7, <1>11, <1>12, <1>13 DEF BufferInv

LEMMA BufferStep == BufferInv /\ [Next]_vars => BufferInv'
<1>. SUFFICES ASSUME BufferInv, [Next]_vars  PROVE BufferInv'  OBVIOUS
<1>1. ASSUME UNCHANGED <<feed, taken, buffer>>  PROVE BufferInv'
  BY <1>1 DEF BufferInv, IsRecordAt, RecordsOf, Lanes
<1>2. CASE \E l \in Lanes : Receive(l)  BY <1>2, BufferReceives
<1>3. CASE Tick  BY <1>1, <1>3 DEF Tick
<1>4. CASE Done  BY <1>1, <1>4 DEF Done, vars
<1>5. CASE UNCHANGED vars  BY <1>1, <1>5 DEF vars
<1>. QED  BY <1>2, <1>3, <1>4, <1>5 DEF Next

(* No message is lost on the way in, whatever the sources send: what a message      *)
(* leaves in the buffer is one record for each event of its stream, or one that     *)
(* says it could not be read, and ingest never raises on a record of a decoder.      *)
THEOREM MessagesStayOnRecord == Spec => []MessagesAreOnRecord
<1>1. BufferInv => MessagesAreOnRecord  BY DEF BufferInv, MessagesAreOnRecord, RecordCount
<1>. QED  BY <1>1, BufferStarts, BufferStep, PTL DEF Spec

LEMMA ThreePillars == Cardinality({"market", "flow", "derivatives"}) = 3
<1>. DEFINE A == {"market"}
            B == A \cup {"flow"}
            C == B \cup {"derivatives"}
<1>1. IsFiniteSet({}) /\ Cardinality({}) = 0  BY FS_EmptySet
<1>2. IsFiniteSet({} \cup {"market"}) /\ Cardinality({} \cup {"market"}) = 0 + 1
  BY <1>1, FS_AddElement
<1>3. A = {} \cup {"market"} /\ "flow" \notin A  OBVIOUS
<1>4. IsFiniteSet(A) /\ Cardinality(A) = 1  BY <1>2, <1>3
<1>. HIDE DEF A
<1>5. IsFiniteSet(B) /\ Cardinality(B) = 1 + 1  BY <1>3, <1>4, FS_AddElement
<1>6. "derivatives" \notin B  BY DEF A
<1>. HIDE DEF B
<1>7. Cardinality(C) = 2 + 1  BY <1>5, <1>6, FS_AddElement
<1>8. C = {"market", "flow", "derivatives"}  BY DEF B, A
<1>. QED  BY <1>7, <1>8

(* No rule vetoes and no score is better than another, so the winner is the first   *)
(* regime, the runner-up the second, and confidence half.                          *)
LEMMA ConfidenceIsHalf ==
  ASSUME NEW snapshot  PROVE Confidence(Resolution(snapshot)) = 50
<1>. DEFINE res == Resolution(snapshot)
<1>1. Vetoes(snapshot) = {}
  BY DEF Vetoes, AcceptanceIsHigh, OiIsContracting, OiIsFlat, AtrIsExpanding, AtrIsCompressed
<1>2. Best(Regime) = 1
  BY RegimesAreNine DEF Best, Score
<1>3. Best(Regime \ {1}) = 2
  BY RegimesAreNine DEF Best, Score
<1>. DEFINE eligible == Regime \ {x.regime : x \in Vetoes(snapshot)}
            winner == IF eligible = {} THEN NoRegime ELSE Best(eligible)
            rest == eligible \ {winner}
<1>4. eligible = Regime /\ Regime # {}  BY <1>1, RegimesAreNine
<1>. HIDE DEF eligible
<1>5. winner = 1  BY <1>2, <1>4
<1>. HIDE DEF winner
<1>6. rest = Regime \ {1} /\ rest # {}  BY <1>4, <1>5, RegimesAreNine
<1>7. res.winner = winner /\ res.runnerUp = IF rest = {} THEN NoRegime ELSE Best(rest)
  BY DEF Resolution, eligible, winner
<1>. HIDE DEF rest
<1>8. res.winner = 1 /\ res.runnerUp = 2  BY <1>3, <1>5, <1>6, <1>7
<1>. HIDE DEF res
<1>. DEFINE W == {"market", "flow", "derivatives"}
<1>9. Pillars(1) = W /\ Pillars(2) = W
  BY DEF Pillars, TrendBuildUp, TrendBuildDown, TrendExhaustion
<1>10. Pillars(1) \cap Pillars(2) = W /\ Pillars(1) \cup Pillars(2) = W  BY <1>9
<1>11. /\ Cardinality(Pillars(1) \cap Pillars(2)) = 3 /\ Cardinality(Pillars(1) \cup Pillars(2)) = 3
  BY <1>10, ThreePillars
<1>12. Lesser(Score(1) - Score(2), 1) = 0  BY DEF Lesser, Score
<1>13. Confidence(res) = (50 * Cardinality(Pillars(1) \cap Pillars(2)))
                           \div Cardinality(Pillars(1) \cup Pillars(2))
                           + 50 * Lesser(Score(1) - Score(2), 1)
  BY <1>8 DEF Confidence, NoRegime
<1>14. (50 * 3) \div 3 + 50 * 0 = 50  OBVIOUS
<1>. QED  BY <1>11, <1>12, <1>13, <1>14 DEF res

LEMMA ConfidenceBounds ==
  ASSUME NEW snapshot  PROVE RunPipeline(snapshot).confidence = 50
<1>1. 50 # None  BY NoneAssumption
<1>. QED
  BY <1>1, ConfidenceIsHalf DEF RunPipeline, ClassicalOutput, EvidenceOutput, Output

(* The cut of a run, of a buffer that holds records of messages. *)
LEMMA CutIsReadings ==
  ASSUME BufferInv, NEW s, NEW first \in Int, NEW last \in Int, first >= 1, last <= Len(buffer)
  PROVE  Readings(CutOf(s, first, last))
<1>. DEFINE es == CutOf(s, first, last)
            D == {k \in first..last : buffer[k].symbol = s}
<1>1. DOMAIN es = D /\ \A i \in D : es[i] = buffer[i]  BY DEF CutOf
<1>2. IsFiniteSet(D) /\ D \subseteq Int
  <2>1. IsFiniteSet(first..last)  BY FS_Interval
  <2>. QED  BY <2>1, FS_Subset
<1>3. Len(buffer) \in Nat  BY LenProperties DEF BufferInv
<1>4. ASSUME NEW i \in D  PROVE buffer[i].ts \in Int \cup {None}
  <2>1. i \in 1..Len(buffer)  BY <1>3
  <2>2. PICK l \in Lanes : \E n \in 1..taken[l] : IsRecordAt(buffer[i], l, n)
    BY <2>1 DEF BufferInv
  <2>3. PICK n \in 1..taken[l] : IsRecordAt(buffer[i], l, n)  BY <2>2
  <2>4. IsMessage(feed[l][n])
    <3>1. feed \in Feeds /\ taken[l] \in 0..Len(feed[l])  BY DEF BufferInv
    <3>2. Len(feed[l]) \in Nat /\ \A j \in 1..Len(feed[l]) : IsMessage(feed[l][j])
      BY <3>1, MessagesAre
    <3>. QED  BY <3>1, <3>2
  <2>5. IsRecordOf(Plain(buffer[i]), feed[l][n])  BY <2>3 DEF IsRecordAt
  <2>6. Plain(buffer[i]).ts \in Int \cup {None}  BY <2>4, <2>5, RecordsAreValid
  <2>. QED  BY <2>6 DEF Plain
<1>. HIDE DEF D
<1>. QED  BY <1>1, <1>2, <1>4 DEF Readings

(* What a run says it computed is what the buffer still says.  *)
RunInv(s, k) ==
  LET r == runs[s][k]
  IN  /\ r.ts \in Int /\ r.first \in Nat \ {0} /\ r.last \in 0..Len(buffer)
      /\ r.features = FeatureSnapshot(CutOf(s, r.first, r.last), s, r.ts)
      /\ r.output.confidence = 50

ComputedInv ==
  /\ BufferInv
  /\ EvidenceInv
  /\ clock \in 0..MaxTick
  /\ \A s \in Symbols : \A k \in 1..Len(runs[s]) : RunInv(s, k)

LEMMA ComputedStarts == Init => ComputedInv
<1>. SUFFICES ASSUME Init  PROVE ComputedInv  OBVIOUS
<1>1. BufferInv /\ EvidenceInv  BY BufferStarts, EvidenceInit
<1>2. clock \in 0..MaxTick  BY ComputationAssumption DEF Init
<1>3. \A s \in Symbols : Len(runs[s]) = 0  BY DEF Init
<1>. QED  BY <1>1, <1>2, <1>3 DEF ComputedInv

(* The buffer only grows, so a cut stays what it was. *)
LEMMA CutStays ==
  ASSUME NEW L \in Nat, L = Len(buffer), \A i \in 1..L : buffer'[i] = buffer[i],
         NEW s, NEW first \in Nat \ {0}, NEW last \in 0..L
  PROVE  CutOf(s, first, last)' = CutOf(s, first, last)
<1>1. \A k \in first..last : buffer'[k] = buffer[k]  OBVIOUS
<1>2. CutOf(s, first, last)' = [i \in {k \in first..last : buffer'[k].symbol = s} |-> buffer'[i]]
  BY DEF CutOf
<1>3. {k \in first..last : buffer'[k].symbol = s} = {k \in first..last : buffer[k].symbol = s}
  BY <1>1
<1>4. [i \in {k \in first..last : buffer'[k].symbol = s} |-> buffer'[i]]
        = [i \in {k \in first..last : buffer[k].symbol = s} |-> buffer[i]]
  BY <1>1, <1>3
<1>. QED  BY <1>2, <1>4 DEF CutOf

LEMMA RunStays ==
  ASSUME NEW L \in Nat, L = Len(buffer), \A i \in 1..L : buffer'[i] = buffer[i],
         Len(buffer') \in Nat, L <= Len(buffer'),
         NEW s, NEW k, RunInv(s, k), runs'[s][k] = runs[s][k]
  PROVE  RunInv(s, k)'
<1>. PICK r : r = runs[s][k]  OBVIOUS
<1>1. /\ r.ts \in Int /\ r.first \in Nat \ {0} /\ r.last \in 0..L
      /\ r.features = FeatureSnapshot(CutOf(s, r.first, r.last), s, r.ts)
      /\ r.output.confidence = 50
  BY DEF RunInv
<1>2. CutOf(s, r.first, r.last)' = CutOf(s, r.first, r.last)
  <2>. PICK first, last : first = r.first /\ last = r.last  OBVIOUS
  <2>1. first \in Nat \ {0} /\ last \in 0..L  BY <1>1
  <2>2. CutOf(s, first, last)' = CutOf(s, first, last)  BY <2>1, CutStays
  <2>. QED  BY <2>2
<1>3. FeatureSnapshot(CutOf(s, r.first, r.last), s, r.ts)'
        = FeatureSnapshot(CutOf(s, r.first, r.last), s, r.ts)
  <2>. PICK C : C = CutOf(s, r.first, r.last)  OBVIOUS
  <2>1. CutOf(s, r.first, r.last)' = C  BY <1>2
  <2>. QED  BY <2>1
<1>. QED  BY <1>1, <1>3 DEF RunInv

LEMMA ComputedStep == ComputedInv /\ [Next]_vars => ComputedInv'
<1>. SUFFICES ASSUME ComputedInv, [Next]_vars  PROVE ComputedInv'  OBVIOUS
<1>1. BufferInv' /\ EvidenceInv'  BY BufferStep, EvidenceStep DEF ComputedInv
<1>. PICK L : L = Len(buffer)  OBVIOUS
<1>2. L \in Nat  BY LenProperties DEF ComputedInv, BufferInv
<1>3. ASSUME UNCHANGED buffer  PROVE Len(buffer') \in Nat /\ L <= Len(buffer') /\ \A i \in 1..L : buffer'[i] = buffer[i]
  BY <1>2, <1>3
<1>4. ASSUME NEW l \in Lanes, Receive(l)  PROVE ComputedInv'
  <2>1. runs' = runs /\ clock' = clock  BY <1>4 DEF Receive
  <2>. PICK c : c = RecordCount(feed[l][taken[l] + 1])  OBVIOUS
  <2>2. c \in Nat \ {0} /\ Len(buffer') = L + c /\ \A i \in 1..L : buffer'[i] = buffer[i]
    BY <1>4, BufferGrows DEF ComputedInv
  <2>3. ASSUME NEW s \in Symbols, NEW k \in 1..Len(runs[s])  PROVE RunInv(s, k)'
    <3>1. RunInv(s, k)  BY DEF ComputedInv
    <3>2. Len(buffer') \in Nat /\ L <= Len(buffer')  BY <1>2, <2>2
    <3>. QED  BY <1>2, <2>1, <2>2, <3>1, <3>2, RunStays
  <2>. QED  BY <1>1, <2>1, <2>3 DEF ComputedInv
<1>5. CASE Tick
  <2>. PICK t : t = Cadence * clock'  OBVIOUS
  <2>0. UNCHANGED buffer  BY <1>5 DEF Tick
  <2>1. clock' \in 0..MaxTick
    <3>1. clock < MaxTick /\ clock' = clock + 1  BY <1>5 DEF Tick
    <3>. QED  BY <3>1, ComputationAssumption DEF ComputedInv
  <2>2. t \in Int  BY <2>1, ComputationAssumption
  <2>3. ASSUME NEW s \in Symbols, NEW k \in 1..Len(runs'[s])  PROVE RunInv(s, k)'
    <3>1. PICK R : runs[s] \in Seq(R)  BY DEF ComputedInv, EvidenceInv, SymbolInv
    <3>2. ASSUME k \in 1..Len(runs[s]), runs'[s][k] = runs[s][k]  PROVE RunInv(s, k)'
      <4>1. RunInv(s, k)  BY <3>2 DEF ComputedInv
      <4>2. Len(buffer') \in Nat /\ L <= Len(buffer') /\ \A i \in 1..L : buffer'[i] = buffer[i]
        BY <1>3, <2>0
      <4>. QED  BY <1>2, <3>2, <4>1, <4>2, RunStays
    <3>3. \/ runs'[s] = runs[s]
          \/ runs'[s] = Append(runs[s], RunOf(s, t))
      BY <1>5 DEF Tick
    <3>4. CASE runs'[s] = runs[s]  BY <3>2, <3>4
    <3>5. CASE runs'[s] = Append(runs[s], RunOf(s, t))
      <4>. PICK r : r = RunOf(s, t)  OBVIOUS
      <4>. PICK n : n = Len(runs[s])  OBVIOUS
      <4>. DEFINE R1 == R \cup {r}
      <4>1. runs[s] \in Seq(R1) /\ r \in R1  BY <3>1
      <4>. HIDE DEF R1
      <4>2. /\ n \in Nat /\ Len(Append(runs[s], r)) = n + 1
            /\ \A i \in 1..n : Append(runs[s], r)[i] = runs[s][i]
            /\ Append(runs[s], r)[n + 1] = r
        BY <4>1, AppendProperties, LenProperties
      <4>3. runs'[s] = Append(runs[s], r)  BY <3>5
      <4>4. CASE k \in 1..n
        <5>1. runs'[s][k] = runs[s][k]  BY <4>2, <4>3, <4>4
        <5>. QED  BY <3>2, <4>4, <5>1
      <4>5. CASE k \notin 1..n
        <5>1. k = n + 1 /\ runs'[s][k] = r  BY <4>2, <4>3, <4>5
        <5>2. LastRead(s) \in 0..L
          <6>1. CASE runs[s] = <<>>  BY <1>2, <6>1 DEF LastRead
          <6>2. CASE runs[s] # <<>>
            <7>1. n \in 1..n  BY <3>1, <4>2, <6>2, EmptySeq
            <7>2. RunInv(s, n)  BY <7>1 DEF ComputedInv
            <7>. QED  BY <6>2, <7>2 DEF RunInv, LastRead
          <6>. QED  BY <6>1, <6>2
        <5>3. /\ r.ts = t /\ r.first = LastRead(s) + 1 /\ r.last = L
              /\ r.features = FeatureSnapshot(Cut(s), s, t)
              /\ r.output = RunPipeline(Snapshot(s, t))
          BY DEF RunOf
        <5>4. Cut(s) = CutOf(s, r.first, r.last)  BY <5>3 DEF Cut
        <5>5. CutOf(s, r.first, r.last)' = CutOf(s, r.first, r.last)  BY <2>0 DEF CutOf
        <5>6. r.features = FeatureSnapshot(CutOf(s, r.first, r.last), s, t)'
          <6>. PICK C : C = CutOf(s, r.first, r.last)  OBVIOUS
          <6>1. CutOf(s, r.first, r.last)' = C  BY <5>5
          <6>2. r.features = FeatureSnapshot(C, s, t)  BY <5>3, <5>4
          <6>. QED  BY <6>1, <6>2
        <5>7. r.first \in Nat \ {0} /\ r.last \in 0..Len(buffer)' /\ r.ts \in Int
          BY <1>2, <2>0, <2>2, <5>2, <5>3
        <5>8. r.output.confidence = 50  BY <5>3, ConfidenceBounds
        <5>. QED  BY <5>1, <5>3, <5>6, <5>7, <5>8 DEF RunInv
      <4>. QED  BY <4>4, <4>5
    <3>. QED  BY <3>3, <3>4, <3>5
  <2>. QED  BY <1>1, <2>1, <2>3 DEF ComputedInv
<1>6. ASSUME UNCHANGED <<buffer, runs, clock>>  PROVE ComputedInv'
  <2>1. ASSUME NEW s \in Symbols, NEW k \in 1..Len(runs[s])  PROVE RunInv(s, k)'
    <3>1. RunInv(s, k)  BY DEF ComputedInv
    <3>2. Len(buffer') \in Nat /\ L <= Len(buffer') /\ \A i \in 1..L : buffer'[i] = buffer[i]
      BY <1>3, <1>6
    <3>. QED  BY <1>2, <1>6, <3>1, <3>2, RunStays
  <2>. QED  BY <1>1, <1>6, <2>1 DEF ComputedInv
<1>7. CASE Done  BY <1>6, <1>7 DEF Done, vars
<1>8. CASE UNCHANGED vars  BY <1>6, <1>8 DEF vars
<1>. QED  BY <1>4, <1>5, <1>7, <1>8 DEF Next

LEMMA RunIsOfASymbol ==
  ASSUME NEW x \in AllRuns
  PROVE  x[1] \in Symbols /\ x[2] \in 1..Len(runs[x[1]]) /\ Run(x) = runs[x[1]][x[2]]
BY ComputationAssumption DEF AllRuns, Run

LEMMA OpinionsAreBounded ==
  ASSUME NEW fs, NEW o \in Opinions(fs)  PROVE Named(o) /\ Bounded(o)
<1>1. o \in EngineOpinions  BY OpinionsHaveFirst DEF HasFirst
<1>. QED  BY <1>1 DEF EngineOpinions, Named, Bounded

LEMMA ComputedType == ComputedInv => TypeOK
<1>. SUFFICES ASSUME ComputedInv  PROVE TypeOK  OBVIOUS
<1>1. BufferInv /\ EvidenceInv  BY DEF ComputedInv
<1>2. ASSUME NEW s \in Symbols  PROVE memory[s] = NoState \/ memory[s] \in HState
  BY <1>1 DEF EvidenceInv, SymbolInv, MemoryIsPublished
<1>3. ASSUME NEW x \in AllRuns
      PROVE  /\ Run(x).features \in FeatureRecord
             /\ \A o \in Opinions(Run(x).features) : Named(o) /\ Bounded(o)
             /\ Explained(Run(x).output)
             /\ Run(x).output.confidence \in 0..100
  <2>. PICK s, k : s = x[1] /\ k = x[2]  OBVIOUS
  <2>1. s \in Symbols /\ k \in 1..Len(runs[s]) /\ Run(x) = runs[s][k]  BY RunIsOfASymbol
  <2>. PICK r : r = runs[s][k]  OBVIOUS
  <2>2. RunIsRight(s, k) /\ RunInv(s, k)  BY <2>1 DEF ComputedInv, EvidenceInv, SymbolInv
  <2>3. /\ r.ts \in Int /\ r.first \in Nat \ {0} /\ r.last \in 0..Len(buffer)
        /\ r.features = FeatureSnapshot(CutOf(s, r.first, r.last), s, r.ts)
        /\ r.output.confidence = 50
    BY <2>2 DEF RunInv
  <2>4. Len(buffer) \in Nat  BY <1>1, LenProperties DEF BufferInv
  <2>5. /\ r.first \in Int /\ r.last \in Int /\ r.first >= 1 /\ r.last <= Len(buffer)
    BY <2>3, <2>4
  <2>6. Readings(CutOf(s, r.first, r.last))
    <3>. PICK first, last : first = r.first /\ last = r.last  OBVIOUS
    <3>1. first \in Int /\ last \in Int /\ first >= 1 /\ last <= Len(buffer)  BY <2>5
    <3>2. Readings(CutOf(s, first, last))  BY <1>1, <3>1, CutIsReadings
    <3>. QED  BY <3>2
  <2>7. r.features \in FeatureRecord
    <3>. PICK es : es = CutOf(s, r.first, r.last)  OBVIOUS
    <3>. PICK t : t = r.ts  OBVIOUS
    <3>1. t \in Int /\ Readings(es)  BY <2>3, <2>6
    <3>2. FeatureSnapshot(es, s, t) \in FeatureRecord  BY <3>1, FeaturesType
    <3>. QED  BY <2>3, <3>2
  <2>8. Explained(r.output)  BY <2>2 DEF RunIsRight
  <2>. QED  BY <2>1, <2>3, <2>7, <2>8, OpinionsAreBounded
<1>. QED  BY <1>1, <1>2, <1>3 DEF TypeOK, BufferInv, ComputedInv

(* Whatever the sources send: the features of a run are numbers or none, its        *)
(* opinions keep their bounds and its output can be explained.                      *)
THEOREM NumbersStayNumbers == Spec => []TypeOK
<1>. QED  BY ComputedStarts, ComputedStep, ComputedType, PTL DEF Spec

(* So the observers, which have no bias on any features that are numbers, have none *)
(* on those of any run.                                                            *)
THEOREM ObserversStayFair == Spec => []ObserversAreFair
<1>1. TypeOK => ObserversAreFair
  BY ObserversHaveNoBias DEF TypeOK, ObserversAreFair
<1>. QED  BY <1>1, ComputedStarts, ComputedStep, ComputedType, PTL DEF Spec

-----------------------------------------------------------------------------
(* Trades.  A record that is a trade holds what its message said.  *)
NumberKinds == {"int", "whole", "fraction", "intText", "numText", "bool"}

LEMMA NumberRead ==
  ASSUME NEW m, IsMessage(m), NEW key, Value(m, key).is \in NumberKinds
  PROVE  Value(m, key).n \in Int \cup {NaN}
<1>1. key \in DOMAIN m.fields /\ Value(m, key) = m.fields[key]
  BY DEF Value, Absent, NumberKinds
<1>2. IsValue(m.fields[key])  BY <1>1 DEF IsMessage
<1>. QED  BY <1>1, <1>2 DEF IsValue, NumberKinds

LEMMA ValueRead ==
  ASSUME NEW m, IsMessage(m), NEW key
  PROVE  IsValue(Value(m, key))
<1>1. CASE key \in DOMAIN m.fields  BY <1>1 DEF Value, IsMessage
<1>2. CASE key \notin DOMAIN m.fields  BY <1>2 DEF Value, Absent, IsValue
<1>. QED  BY <1>1, <1>2

LEMMA AsNumber ==
  ASSUME NEW m, NEW key, NEW as \in {"float", "number"}, Accepts(From(key, as), m)
  PROVE  /\ Value(m, key).is \in NumberKinds
         /\ Parsed(From(key, as), m) = Value(m, key).n
<1>1. CASE as = "float"
  BY <1>1 DEF Accepts, From, Parsed, VendorAccepts, NumberKinds
<1>2. CASE as = "number"
  <2>1. "number" \notin DOMAIN VendorAccepts /\ OwnAccepts["number"] = NumberKinds
    BY DEF VendorAccepts, OwnAccepts, NumberKinds
  <2>. QED  BY <1>2, <2>1 DEF Accepts, From, Parsed
<1>. QED  BY <1>1, <1>2

LEMMA MakerRead ==
  ASSUME NEW m, IsMessage(m), NEW key
  PROVE  LET v == Value(m, key)
             side == Parsed(From(key, "maker"), m)
         IN  /\ v.is \notin {"bool", "boolText"} => side \notin {1, -1}
             /\ v.is \in {"bool", "boolText"} /\ v.n = 1 => side = -1
             /\ v.is \in {"bool", "boolText"} /\ v.n # 1 => side = 1
<1>1. IsValue(Value(m, key))  BY ValueRead
<1>2. None \notin {1, -1}  BY NoneAssumption
<1>. QED  BY <1>1, <1>2 DEF Parsed, From, IsValue

LEMMA SideRead ==
  ASSUME NEW m, IsMessage(m), NEW key, Accepts(From(key, "side"), m)
  PROVE  LET v == Value(m, key)
             side == Parsed(From(key, "side"), m)
         IN  /\ v.is # "sideText" => side \notin {1, -1}
             /\ v.is = "sideText" /\ v.n = -1 => side = -1
             /\ v.is = "sideText" /\ v.n # -1 => side = 1
<1>1. IsValue(Value(m, key))  BY ValueRead
<1>2. None \notin {1, -1}  BY NoneAssumption
<1>3. "side" \notin DOMAIN VendorAccepts /\ OwnAccepts["side"] = {"none", "sideText"}
  BY DEF VendorAccepts, OwnAccepts
<1>4. Value(m, key).is \in {"none", "sideText"}  BY <1>3 DEF Accepts, From
<1>5. Parsed(From(key, "side"), m) = Value(m, key).n  BY DEF Parsed, From
<1>. QED  BY <1>1, <1>2, <1>4, <1>5 DEF IsValue

SaidOf(m) ==
  IF m.via = "aggTrade"
  THEN [quantity |-> Value(m, "q").n, price |-> Value(m, "p").n, time |-> Value(m, "T").n,
        side |-> IF Value(m, "m").is \notin {"bool", "boolText"} THEN "unknown"
                 ELSE IF Value(m, "m").n = 1 THEN "sold" ELSE "bought"]
  ELSE [quantity |-> Value(m, "quantity").n, price |-> Value(m, "price").n, time |-> m.at,
        side |-> IF Value(m, "side").is # "sideText" THEN "unknown"
                 ELSE IF Value(m, "side").n = -1 THEN "sold" ELSE "bought"]

(* e is the trade that said tells of. *)
Tells(e, said) ==
  /\ e.ts = said.time /\ said.time \in Int \cup {None}
  /\ e.body.price = said.price /\ said.price \in Int \cup {NaN}
  /\ e.body.quantity = said.quantity /\ said.quantity \in Int \cup {NaN}
  /\ said.side \in {"bought", "sold", "unknown"}
  /\ e.body.side = 1 <=> said.side = "bought"
  /\ e.body.side = -1 <=> said.side = "sold"
  /\ e.body.side \in {1, -1} <=> said.side # "unknown"

LEMMA AggTradeTells ==
  ASSUME NEW m, IsMessage(m), m.via = "aggTrade", Readable(m), LayoutOf(m) = AggTrade,
         Decodes(AggTrade.parts[1], m)
  PROVE  Tells(Event(AggTrade.parts[1], m), SaidOf(m))
<1>. DEFINE part == AggTrade.parts[1]
            e == Event(part, m)
            said == SaidOf(m)
<1>1. part.body = [price |-> From("p", "float"), quantity |-> From("q", "float"),
                   side |-> From("m", "maker")]
  BY DEF AggTrade, Layout
<1>2. /\ Accepts(From("p", "float"), m) /\ Accepts(From("q", "float"), m)
  <2>1. DOMAIN part.body = {"price", "quantity", "side"} /\ part.body["price"] = From("p", "float")
        /\ part.body["quantity"] = From("q", "float")
    BY <1>1
  <2>2. \A k \in DOMAIN part.body : Accepts(part.body[k], m)  BY DEF Decodes
  <2>. HIDE DEF part
  <2>3. Accepts(part.body["price"], m) /\ Accepts(part.body["quantity"], m)  BY <2>1, <2>2
  <2>. QED  BY <2>1, <2>3
<1>3. /\ e.body.price = Parsed(From("p", "float"), m)
      /\ e.body.quantity = Parsed(From("q", "float"), m)
      /\ e.body.side = Parsed(From("m", "maker"), m)
  <2>1. e.body = [k \in DOMAIN part.body |-> Parsed(part.body[k], m)]  BY DEF Event
  <2>. HIDE DEF part, e
  <2>2. DOMAIN part.body = {"price", "quantity", "side"}  BY <1>1
  <2>3. /\ e.body["price"] = Parsed(part.body["price"], m)
        /\ e.body["quantity"] = Parsed(part.body["quantity"], m)
        /\ e.body["side"] = Parsed(part.body["side"], m)
    BY <2>1, <2>2
  <2>. QED  BY <1>1, <2>3
<1>4. /\ said.price = Value(m, "p").n /\ said.quantity = Value(m, "q").n
      /\ said.time = Value(m, "T").n
      /\ said.side = IF Value(m, "m").is \notin {"bool", "boolText"} THEN "unknown"
                     ELSE IF Value(m, "m").n = 1 THEN "sold" ELSE "bought"
  BY DEF SaidOf
<1>5. e.ts = Value(m, "T").n
  <2>1. AggTrade.times = <<"T">> /\ AggTrade.timed = TRUE  BY DEF AggTrade, Layout
  <2>2. TimeReads(AggTrade, m)  BY DEF Readable
  <2>3. Given(AggTrade, m) # {}  BY <2>1, <2>2 DEF TimeReads
  <2>4. Given(AggTrade, m) = {1}  BY <2>1, <2>3 DEF Given
  <2>5. FirstGiven(AggTrade, m) = "T"  BY <2>1, <2>4 DEF FirstGiven
  <2>6. e.ts = Time(AggTrade, m)  BY DEF Event
  <2>. QED  BY <2>3, <2>5, <2>6 DEF Time
<1>6. e.ts \in Int \cup {None}
  <2>1. e.ts = Time(LayoutOf(m), m)  BY DEF Event
  <2>. QED  BY <2>1, TimeType
<1>. HIDE DEF e, part, said
<1>7. /\ e.body.price = said.price /\ said.price \in Int \cup {NaN}
      /\ e.body.quantity = said.quantity /\ said.quantity \in Int \cup {NaN}
  BY <1>2, <1>3, <1>4, AsNumber, NumberRead
<1>8. /\ said.side \in {"bought", "sold", "unknown"}
      /\ e.body.side = 1 <=> said.side = "bought"
      /\ e.body.side = -1 <=> said.side = "sold"
      /\ e.body.side \in {1, -1} <=> said.side # "unknown"
  BY <1>3, <1>4, MakerRead
<1>. QED  BY <1>4, <1>5, <1>6, <1>7, <1>8 DEF Tells, e, said, part

LEMMA OwnTradeTells ==
  ASSUME NEW m, IsMessage(m), m.via = "TradeTick", Readable(m),
         LayoutOf(m) = Own("TradeTick", Traded), Decodes([type |-> "TradeTick", body |-> Traded], m)
  PROVE  Tells(Event([type |-> "TradeTick", body |-> Traded], m), SaidOf(m))
<1>. DEFINE part == [type |-> "TradeTick", body |-> Traded]
            e == Event(part, m)
            said == SaidOf(m)
<1>1. part.body = [price |-> From("price", "number"), quantity |-> From("quantity", "number"),
                   side |-> From("side", "side")]
  BY DEF Traded
<1>2. /\ Accepts(From("price", "number"), m) /\ Accepts(From("quantity", "number"), m)
      /\ Accepts(From("side", "side"), m)
  <2>1. DOMAIN part.body = {"price", "quantity", "side"} /\ part.body["price"] = From("price", "number")
        /\ part.body["quantity"] = From("quantity", "number") /\ part.body["side"] = From("side", "side")
    BY <1>1
  <2>2. \A k \in DOMAIN part.body : Accepts(part.body[k], m)  BY DEF Decodes
  <2>. HIDE DEF part
  <2>3. /\ Accepts(part.body["price"], m) /\ Accepts(part.body["quantity"], m)
        /\ Accepts(part.body["side"], m)
    BY <2>1, <2>2
  <2>. QED  BY <2>1, <2>3
<1>3. /\ e.body.price = Parsed(From("price", "number"), m)
      /\ e.body.quantity = Parsed(From("quantity", "number"), m)
      /\ e.body.side = Parsed(From("side", "side"), m)
  <2>1. e.body = [k \in DOMAIN part.body |-> Parsed(part.body[k], m)]  BY DEF Event
  <2>. HIDE DEF part, e
  <2>2. DOMAIN part.body = {"price", "quantity", "side"}  BY <1>1
  <2>3. /\ e.body["price"] = Parsed(part.body["price"], m)
        /\ e.body["quantity"] = Parsed(part.body["quantity"], m)
        /\ e.body["side"] = Parsed(part.body["side"], m)
    BY <2>1, <2>2
  <2>. QED  BY <1>1, <2>3
<1>4. /\ said.price = Value(m, "price").n /\ said.quantity = Value(m, "quantity").n
      /\ said.time = m.at
      /\ said.side = IF Value(m, "side").is # "sideText" THEN "unknown"
                     ELSE IF Value(m, "side").n = -1 THEN "sold" ELSE "bought"
  BY DEF SaidOf
<1>5. e.ts = m.at
  <2>. DEFINE l == Own("TradeTick", Traded)
  <2>1. l.times = <<>>  BY DEF Own, Layout
  <2>2. Given(l, m) = {}  BY <2>1 DEF Given
  <2>3. e.ts = Time(l, m)  BY DEF Event
  <2>. QED  BY <2>2, <2>3 DEF Time
<1>6. e.ts \in Int \cup {None}  BY <1>5 DEF IsMessage
<1>. HIDE DEF e, part, said
<1>7. /\ e.body.price = said.price /\ said.price \in Int \cup {NaN}
      /\ e.body.quantity = said.quantity /\ said.quantity \in Int \cup {NaN}
  BY <1>2, <1>3, <1>4, AsNumber, NumberRead
<1>8. /\ said.side \in {"bought", "sold", "unknown"}
      /\ e.body.side = 1 <=> said.side = "bought"
      /\ e.body.side = -1 <=> said.side = "sold"
      /\ e.body.side \in {1, -1} <=> said.side # "unknown"
  BY <1>2, <1>3, <1>4, SideRead
<1>. QED  BY <1>4, <1>5, <1>6, <1>7, <1>8 DEF Tells, e, said, part

(* A trade in the buffer is one of its message. *)
LEMMA TradeIsSaid ==
  ASSUME BufferInv, NEW i \in 1..Len(buffer), buffer[i].type = "TradeTick"
  PROVE  Tells(buffer[i], Said(i))
<1>1. PICK l \in Lanes : \E n \in 1..taken[l] : IsRecordAt(buffer[i], l, n)  BY DEF BufferInv
<1>2. PICK n \in 1..taken[l] : IsRecordAt(buffer[i], l, n)  BY <1>1
<1>. PICK m : m = feed[l][n]  OBVIOUS
<1>3. MessageOf(i) = m /\ IsRecordOf(Plain(buffer[i]), m)  BY <1>2 DEF MessageOf, IsRecordAt
<1>4. IsMessage(m)
  <2>1. feed \in Feeds /\ taken[l] \in 0..Len(feed[l])  BY DEF BufferInv
  <2>2. Len(feed[l]) \in Nat /\ \A j \in 1..Len(feed[l]) : IsMessage(feed[l][j])
    BY <2>1, MessagesAre
  <2>. QED  BY <2>1, <2>2
<1>5. Said(i) = SaidOf(m)  BY <1>3 DEF Said, Sent, SaidOf
<1>. PICK e : e = Plain(buffer[i])  OBVIOUS
<1>6. e.type = "TradeTick" /\ e.ts = buffer[i].ts /\ e.body = buffer[i].body  BY DEF Plain
<1>7. IsEventOf(e, m)
  <2>1. Failure(m).type = "DecodeFailure"  BY DEF Failure
  <2>. QED  BY <1>3, <1>6, <2>1 DEF IsRecordOf
<1>8. PICK j \in 1..Len(LayoutOf(m).parts) :
        Decodes(LayoutOf(m).parts[j], m) /\ e = Event(LayoutOf(m).parts[j], m)
  BY <1>7 DEF IsEventOf
<1>9. Readable(m) /\ HasLayout(m)  BY <1>7 DEF IsEventOf, Readable
<1>10. LayoutOf(m).parts[j].type = "TradeTick"
  <2>. PICK part : part = LayoutOf(m).parts[j]  OBVIOUS
  <2>1. e = Event(part, m)  BY <1>8
  <2>2. Event(part, m).type = part.type  BY DEF Event
  <2>3. part.type = "TradeTick"  BY <1>6, <2>1, <2>2
  <2>. QED  BY <2>3
<1>11. m.via \in {"aggTrade", "TradeTick"}  BY <1>9, <1>10, LayoutsAre DEF Tradeless
<1>12. CASE m.via = "aggTrade"
  <2>1. LayoutOf(m) = AggTrade  BY <1>9, <1>12, LayoutsAre
  <2>2. Len(AggTrade.parts) = 1  BY DEF AggTrade, Layout
  <2>3. j = 1  BY <2>1, <2>2
  <2>4. Tells(e, SaidOf(m))  BY <1>4, <1>8, <1>9, <1>12, <2>1, <2>3, AggTradeTells
  <2>. QED  BY <1>5, <1>6, <2>4 DEF Tells
<1>13. CASE m.via = "TradeTick"
  <2>1. LayoutOf(m) = Own("TradeTick", Traded)  BY <1>9, <1>13, LayoutsAre
  <2>2. /\ Len(Own("TradeTick", Traded).parts) = 1
        /\ Own("TradeTick", Traded).parts[1] = [type |-> "TradeTick", body |-> Traded]
    BY DEF Own, Layout
  <2>b. Len(LayoutOf(m).parts) = 1
    <3>. PICK o : o = Own("TradeTick", Traded)  OBVIOUS
    <3>1. LayoutOf(m) = o /\ Len(o.parts) = 1  BY <2>1, <2>2
    <3>. QED  BY <3>1
  <2>a. j = 1
    <3>1. j \in 1..1  BY <2>b
    <3>. QED  BY <3>1
  <2>3. j = 1 /\ LayoutOf(m).parts[j] = [type |-> "TradeTick", body |-> Traded]
    BY <2>a, <2>1, <2>2
  <2>4. Tells(e, SaidOf(m))  BY <1>4, <1>8, <1>9, <1>13, <2>1, <2>3, OwnTradeTells
  <2>. QED  BY <1>5, <1>6, <2>4 DEF Tells
<1>. QED  BY <1>11, <1>12, <1>13

(* The trades of a cut that have a size, by what was said of them. *)
TradesSaid(s, t, first, last) ==
  {i \in first..last :
     /\ buffer[i].symbol = s /\ buffer[i].type = "TradeTick"
     /\ Said(i).quantity \in Nat \ {0}
     /\ Said(i).time # None /\ t - Said(i).time \in 0..Window}

LEMMA SizedAreTraded ==
  ASSUME BufferInv, NEW s, NEW t \in Int, NEW first \in Nat \ {0}, NEW last \in 0..Len(buffer)
  PROVE  LET es == CutOf(s, first, last)
             D == TradesSaid(s, t, first, last)
         IN  /\ Sized(es, Trades(es, s, t)) = D
             /\ IsFiniteSet(D) /\ D \subseteq 1..Len(buffer)
             /\ \A i \in D : es[i] = buffer[i] /\ Tells(buffer[i], Said(i))
<1>. DEFINE es == CutOf(s, first, last)
            B == {k \in first..last : buffer[k].symbol = s}
            D == {i \in first..last :
                    /\ buffer[i].symbol = s /\ buffer[i].type = "TradeTick"
                    /\ Said(i).quantity \in Nat \ {0}
                    /\ Said(i).time # None /\ t - Said(i).time \in 0..Window}
            Z == Sized(es, Trades(es, s, t))
<1>0. Len(buffer) \in Nat  BY LenProperties DEF BufferInv
<1>1. DOMAIN es = B /\ \A i \in B : es[i] = buffer[i]  BY DEF CutOf
<1>. HIDE DEF es
<1>2. first..last \subseteq 1..Len(buffer)  BY <1>0
<1>3. \A i \in Z : i \in B /\ es[i].type = "TradeTick"  BY <1>1 DEF Sized, Trades, OfType
<1>4. \A i \in first..last : buffer[i].type = "TradeTick" => Tells(buffer[i], Said(i))
  BY <1>2, TradeIsSaid
<1>5. ASSUME NEW i \in B, buffer[i].type = "TradeTick"
      PROVE  i \in Z <=> i \in D
  <2>1. /\ buffer[i].ts = Said(i).time /\ Said(i).time \in Int \cup {None}
        /\ buffer[i].body.quantity = Said(i).quantity /\ Said(i).quantity \in Int \cup {NaN}
    BY <1>4, <1>5 DEF Tells
  <2>2. i \in Z <=> /\ buffer[i].ts # None
                    /\ buffer[i].ts >= t - Window /\ buffer[i].ts <= t
                    /\ buffer[i].body.quantity \in Int /\ buffer[i].body.quantity > 0
    BY <1>1, <1>5 DEF Sized, Trades, OfType, IsNumber
  <2>3. i \in D <=> /\ Said(i).quantity \in Nat \ {0}
                    /\ Said(i).time # None /\ t - Said(i).time \in 0..Window
    BY <1>5
  <2>4. NaN \notin Nat /\ None \notin Int /\ Window \in Int  BY NoneAssumption, WindowAssumption
  <2>. PICK q, u : q = Said(i).quantity /\ u = Said(i).time  OBVIOUS
  <2>5. (q \in Nat \ {0}) <=> (q \in Int /\ q > 0)  BY <2>1, <2>4
  <2>6. (u # None /\ t - u \in 0..Window) <=> (u # None /\ u >= t - Window /\ u <= t)
    BY <2>1, <2>4
  <2>. HIDE DEF Z, D
  <2>. QED  BY <2>1, <2>2, <2>3, <2>5, <2>6
<1>6. \A i \in D : i \in B /\ buffer[i].type = "TradeTick" /\ i \in first..last  OBVIOUS
<1>7. Z = D
  <2>. HIDE DEF Z, D, B
  <2>. QED  BY <1>1, <1>3, <1>5, <1>6
<1>8. IsFiniteSet(D)
  <2>1. IsFiniteSet(first..last)  BY <1>0, FS_Interval
  <2>2. D \in SUBSET (first..last)  OBVIOUS
  <2>. HIDE DEF D
  <2>. QED  BY <2>1, <2>2, FS_Subset
<1>9. \A i \in D : es[i] = buffer[i] /\ Tells(buffer[i], Said(i))
  <2>. HIDE DEF D, B
  <2>. QED  BY <1>1, <1>4, <1>6
<1>. HIDE DEF D, Z
<1>10. D \subseteq 1..Len(buffer)  BY <1>2, <1>6
<1>. QED  BY <1>7, <1>8, <1>9, <1>10 DEF D, Z, es, TradesSaid

LEMMA VolumeIsQuantity ==
  ASSUME NEW es, NEW S, IsFiniteSet(S),
         \A i \in S : es[i] = buffer[i] /\ Tells(buffer[i], Said(i)) /\ Said(i).quantity \in Int
  PROVE  Quantity(es, S) = Volume(S) /\ Volume(S) \in Int
<1>. DEFINE f == [i \in S |-> Said(i).quantity]
            g == [i \in S |-> es[i].body.quantity]
<1>1. NumbersOn(f, S)  BY DEF NumbersOn
<1>2. \A i \in S : f[i] = g[i]  BY DEF Tells
<1>. HIDE DEF f, g
<1>3. SumOver(f, S) = SumOver(g, S)  BY <1>1, <1>2, SumEqual
<1>4. SumOver(f, S) \in Int  BY <1>1, SumType
<1>. QED  BY <1>3, <1>4 DEF Quantity, Volume, f, g

(* The average price of trades lies among their prices. *)
LEMMA VwapAmong ==
  ASSUME NEW es, NEW T, IsFiniteSet(T), T # {},
         \A i \in T : es[i].body.price \in Int /\ es[i].body.quantity \in Nat
  PROVE  LET prices == {es[i].body.price : i \in T}
             notional == SumOver([i \in T |-> es[i].body.price * es[i].body.quantity], T)
         IN  /\ notional >= Min(prices) * Quantity(es, T)
             /\ notional <= Max(prices) * Quantity(es, T)
<1>. DEFINE p == [i \in T |-> es[i].body.price]
            prices == {es[i].body.price : i \in T}
            f == [i \in T |-> es[i].body.price * es[i].body.quantity]
            g == [i \in T |-> es[i].body.quantity]
<1>1. p \in Surjection(T, prices)  BY DEF Surjection
<1>2. IsFiniteSet(prices)  BY <1>1, FS_Surjection
<1>3. prices \subseteq Int /\ prices # {}  OBVIOUS
<1>4. \A i \in T : es[i].body.price \in prices  OBVIOUS
<1>. HIDE DEF p, prices
<1>5. /\ Min(prices) \in prices /\ \A y \in prices : Min(prices) <= y
      /\ Max(prices) \in prices /\ \A y \in prices : Max(prices) >= y
  BY <1>2, <1>3, MinIs, MaxIs
<1>. PICK lo, hi : lo = Min(prices) /\ hi = Max(prices)  OBVIOUS
<1>6. lo \in Int /\ hi \in Int  BY <1>3, <1>5
<1>7. ASSUME NEW c \in Int, NEW x \in Int, NEW y \in Nat
      PROVE  (c <= x => x * y >= c * y) /\ (c >= x => x * y <= c * y)
  OBVIOUS
<1>8. ASSUME NEW i \in T
      PROVE  f[i] \in Int /\ g[i] \in Int /\ f[i] >= lo * g[i] /\ f[i] <= hi * g[i]
  <2>. PICK x, y : x = es[i].body.price /\ y = es[i].body.quantity  OBVIOUS
  <2>1. x \in Int /\ y \in Nat /\ lo <= x /\ hi >= x  BY <1>4, <1>5
  <2>2. f[i] = x * y /\ g[i] = y  OBVIOUS
  <2>. HIDE DEF f, g
  <2>3. x * y >= lo * y /\ x * y <= hi * y  BY <1>6, <1>7, <2>1
  <2>. QED  BY <2>1, <2>2, <2>3
<1>. HIDE DEF f, g
<1>9. NumbersOn(f, T) /\ NumbersOn(g, T)  BY <1>8 DEF NumbersOn
<1>10. SumOver(f, T) >= lo * SumOver(g, T)
  <2>1. \A i \in T : f[i] >= lo * g[i]  BY <1>8
  <2>. QED  BY <1>6, <1>9, <2>1, SumAtLeast
<1>11. SumOver(f, T) <= hi * SumOver(g, T)
  <2>1. \A i \in T : f[i] <= hi * g[i]  BY <1>8
  <2>. QED  BY <1>6, <1>9, <2>1, SumAtMost
<1>. QED  BY <1>10, <1>11 DEF Quantity, f, g, prices

FlowOf(x) ==
  LET fs == Run(x).features
      T == Counted3m(x)
      bought == Volume({i \in T : Said(i).side = "bought"})
      sold == Volume({i \in T : Said(i).side = "sold"})
      prices == {Said(i).price : i \in Traded3m(x)} \ {NaN}
  IN  /\ fs.cvd_3m = IF T = {} THEN None ELSE bought - sold
      /\ fs.aggressive_volume_ratio_3m =
           IF T = {} THEN None ELSE [bought |-> bought, traded |-> bought + sold]
      /\ prices # {} =>
           /\ fs.vwap_3m.notional >= Min(prices) * fs.vwap_3m.quantity
           /\ fs.vwap_3m.notional <= Max(prices) * fs.vwap_3m.quantity

LEMMA FlowOfRun ==
  ASSUME ComputedInv, NEW x \in AllRuns  PROVE FlowOf(x)
<1>. PICK r : r = Run(x)  OBVIOUS
<1>. PICK s, t : s = x[1] /\ t = r.ts  OBVIOUS
<1>. PICK first, last : first = r.first /\ last = r.last  OBVIOUS
<1>. PICK es : es = CutOf(s, first, last)  OBVIOUS
<1>0. BufferInv  BY DEF ComputedInv
<1>1. /\ t \in Int /\ first \in Nat \ {0} /\ last \in 0..Len(buffer)
      /\ r.features = FeatureSnapshot(es, s, t)
  <2>. PICK k : k = x[2]  OBVIOUS
  <2>1. s \in Symbols /\ k \in 1..Len(runs[s]) /\ r = runs[s][k]  BY RunIsOfASymbol
  <2>2. RunInv(s, k)  BY <2>1 DEF ComputedInv
  <2>. QED  BY <2>1, <2>2 DEF RunInv
<1>2. /\ r.features.cvd_3m = Cvd(es, s, t)
      /\ r.features.aggressive_volume_ratio_3m = AggressiveRatio(es, s, t)
      /\ r.features.vwap_3m = Vwap(es, s, t)
  BY <1>1 DEF FeatureSnapshot
<1>. PICK Z : Z = Traded3m(x)  OBVIOUS
<1>. PICK T : T = Counted3m(x)  OBVIOUS
<1>3. Z = TradesSaid(s, t, first, last)  BY DEF Traded3m, TradesSaid
<1>4. /\ Sized(es, Trades(es, s, t)) = Z
      /\ IsFiniteSet(Z) /\ Z \subseteq 1..Len(buffer)
      /\ \A i \in Z : es[i] = buffer[i] /\ Tells(buffer[i], Said(i))
  BY <1>0, <1>1, <1>3, SizedAreTraded
<1>5. \A i \in Z : Said(i).quantity \in Nat \ {0}  BY <1>3 DEF TradesSaid
<1>6. T = {i \in Z : Said(i).side # "unknown"}  BY DEF Counted3m
<1>. DEFINE A == {i \in T : Said(i).side = "bought"}
            B == {i \in T : Said(i).side = "sold"}
<1>7. Sided(es, s, t) = T
  <2>1. Sided(es, s, t) = {i \in Z : es[i].body.side \in {1, -1}}  BY <1>4 DEF Sided
  <2>2. \A i \in Z : es[i].body.side \in {1, -1} <=> Said(i).side # "unknown"
    BY <1>4 DEF Tells
  <2>. QED  BY <1>6, <2>1, <2>2
<1>8. OfSide(es, T, 1) = A /\ OfSide(es, T, -1) = B
  <2>1. \A i \in T : /\ es[i].body.side = 1 <=> Said(i).side = "bought"
                     /\ es[i].body.side = -1 <=> Said(i).side = "sold"
    BY <1>4, <1>6 DEF Tells
  <2>. QED  BY <2>1 DEF OfSide
<1>9. A \cup B = T /\ A \cap B = {} /\ A \subseteq T /\ B \subseteq T
  <2>1. \A i \in T : Said(i).side \in {"bought", "sold"}  BY <1>4, <1>6 DEF Tells
  <2>. QED  BY <2>1
<1>10. \A S \in SUBSET Z : IsFiniteSet(S) /\ Quantity(es, S) = Volume(S) /\ Volume(S) \in Int
  <2>. SUFFICES ASSUME NEW S \in SUBSET Z
                PROVE  IsFiniteSet(S) /\ Quantity(es, S) = Volume(S) /\ Volume(S) \in Int
    OBVIOUS
  <2>1. IsFiniteSet(S)  BY <1>4, FS_Subset
  <2>2. \A i \in S : es[i] = buffer[i] /\ Tells(buffer[i], Said(i)) /\ Said(i).quantity \in Int
    BY <1>4, <1>5
  <2>. QED  BY <2>1, <2>2, VolumeIsQuantity
<1>. HIDE DEF A, B
<1>11. A \in SUBSET Z /\ B \in SUBSET Z /\ T \in SUBSET Z  BY <1>6, <1>9
<1>12. Quantity(es, T) = Volume(A) + Volume(B)
  <2>. DEFINE q == [i \in T |-> es[i].body.quantity]
  <2>1. Quantity(es, T) = SumOver(q, T)  BY DEF Quantity
  <2>2. \A i \in T : q[i] \in Int
    BY <1>4, <1>5, <1>11 DEF Tells
  <2>3. NumbersOn(q, A \cup B)  BY <1>9, <2>2 DEF NumbersOn
  <2>4. IsFiniteSet(A) /\ IsFiniteSet(B)  BY <1>10, <1>11
  <2>5. SumOver(q, A) = Quantity(es, A) /\ SumOver(q, B) = Quantity(es, B)
    <3>. DEFINE a == [i \in A |-> es[i].body.quantity]
                b == [i \in B |-> es[i].body.quantity]
    <3>1. NumbersOn(a, A) /\ NumbersOn(b, B)  BY <1>9, <2>2 DEF NumbersOn
    <3>2. (\A i \in A : a[i] = q[i]) /\ \A i \in B : b[i] = q[i]  BY <1>9
    <3>. HIDE DEF a, b, q
    <3>3. SumOver(a, A) = SumOver(q, A)  BY <2>4, <3>1, <3>2, SumEqual
    <3>4. SumOver(b, B) = SumOver(q, B)  BY <2>4, <3>1, <3>2, SumEqual
    <3>. QED  BY <3>3, <3>4 DEF Quantity, a, b
  <2>. HIDE DEF q
  <2>6. SumOver(q, A \cup B) = SumOver(q, A) + SumOver(q, B)
    BY <1>9, <2>3, <2>4, SumOfBoth
  <2>7. Quantity(es, A) = Volume(A) /\ Quantity(es, B) = Volume(B)  BY <1>10, <1>11
  <2>. QED  BY <1>9, <2>1, <2>5, <2>6, <2>7
<1>13. Quantity(es, A) = Volume(A) /\ Quantity(es, B) = Volume(B)  BY <1>10, <1>11
<1>14. r.features.cvd_3m = IF T = {} THEN None ELSE Volume(A) - Volume(B)
  BY <1>2, <1>7, <1>8, <1>13 DEF Cvd
<1>15. r.features.aggressive_volume_ratio_3m =
         IF T = {} THEN None ELSE [bought |-> Volume(A), traded |-> Volume(A) + Volume(B)]
  BY <1>2, <1>7, <1>8, <1>12, <1>13 DEF AggressiveRatio
<1>. DEFINE prices == {Said(i).price : i \in Z} \ {NaN}
<1>16. ASSUME prices # {}
       PROVE  /\ r.features.vwap_3m.notional >= Min(prices) * r.features.vwap_3m.quantity
              /\ r.features.vwap_3m.notional <= Max(prices) * r.features.vwap_3m.quantity
  <2>. DEFINE P == {i \in Sized(es, Trades(es, s, t)) : IsNumber(es[i].body.price)}
              n == SumOver([i \in P |-> es[i].body.price * es[i].body.quantity], P)
              among == {es[i].body.price : i \in P}
  <2>1. P = {i \in Z : es[i].body.price \in Int}  BY <1>4 DEF IsNumber
  <2>2. \A i \in Z : es[i].body.price = Said(i).price /\ Said(i).price \in Int \cup {NaN}
    BY <1>4 DEF Tells
  <2>3. Vwap(es, s, t) = IF P = {} THEN None ELSE [notional |-> n, quantity |-> Quantity(es, P)]
    BY DEF Vwap
  <2>. HIDE DEF P
  <2>4. among = prices
    <3>1. \A i \in P : Said(i).price \in prices /\ es[i].body.price = Said(i).price
      BY <2>1, <2>2, NoneAssumption
    <3>2. \A i \in Z : Said(i).price # NaN => i \in P /\ es[i].body.price = Said(i).price
      BY <2>1, <2>2
    <3>3. among \subseteq prices  BY <3>1
    <3>4. prices \subseteq among  BY <3>2
    <3>. QED  BY <3>3, <3>4
  <2>5. P # {}  BY <1>16, <2>4
  <2>6. P \in SUBSET Z  BY <2>1
  <2>7. IsFiniteSet(P)  BY <1>10, <2>6
  <2>8. \A i \in P : es[i].body.price \in Int /\ es[i].body.quantity \in Nat
    <3>1. \A i \in Z : es[i].body.quantity = Said(i).quantity  BY <1>4 DEF Tells
    <3>. QED  BY <1>5, <2>1, <2>6, <3>1
  <2>9. n >= Min(among) * Quantity(es, P) /\ n <= Max(among) * Quantity(es, P)
    BY <2>5, <2>7, <2>8, VwapAmong
  <2>. HIDE DEF n, among, prices
  <2>10. r.features.vwap_3m = [notional |-> n, quantity |-> Quantity(es, P)]  BY <1>2, <2>3, <2>5
  <2>11. r.features.vwap_3m.notional = n /\ r.features.vwap_3m.quantity = Quantity(es, P)  BY <2>10
  <2>. QED  BY <2>4, <2>9, <2>11
<1>. HIDE DEF prices
<1>. QED  BY <1>14, <1>15, <1>16 DEF FlowOf, A, B, prices

(* The flow of every run is what its trade messages say, bought less sold, of those *)
(* of the window and no other, whatever the sources send and in whatever order; the  *)
(* vwap lies among the prices that were paid.                                       *)
THEOREM FlowStaysTheTrades == Spec => []FlowIsTheTrades
<1>1. ComputedInv => FlowIsTheTrades  BY FlowOfRun DEF FlowIsTheTrades, FlowOf
<1>. QED  BY <1>1, ComputedStarts, ComputedStep, PTL DEF Spec

-----------------------------------------------------------------------------
(* Order.  The records the features of s at t can depend on. *)
Matters(es, s, t) ==
  {i \in DOMAIN es : /\ es[i].symbol = s
                     /\ es[i].ts = None \/ es[i].ts <= t \/ es[i].type = "OpenInterest"}

LEMMA OnlyWhatMatters ==
  ASSUME NEW es, NEW gs, NEW s, NEW t \in Int, Readings(es), Readings(gs),
         Matters(es, s, t) = Matters(gs, s, t), \A i \in Matters(es, s, t) : es[i] = gs[i]
  PROVE  FeatureSnapshot(es, s, t) = FeatureSnapshot(gs, s, t)
<1>. DEFINE M == Matters(es, s, t)
<1>0. ASSUME NEW i
      PROVE  /\ i \in M => i \in DOMAIN es /\ i \in DOMAIN gs /\ es[i] = gs[i] /\ es[i].symbol = s
             /\ \A type : /\ i \in OfType(es, s, type) => i \in DOMAIN es /\ es[i].symbol = s /\ es[i].type = type
                          /\ i \in OfType(gs, s, type) => i \in DOMAIN gs /\ gs[i].symbol = s /\ gs[i].type = type
                          /\ i \in M => (i \in OfType(es, s, type) <=> es[i].type = type)
                          /\ i \in M => (i \in OfType(gs, s, type) <=> es[i].type = type)
  BY DEF Matters, OfType
<1>1. Trades(es, s, t) = Trades(gs, s, t) /\ Trades(es, s, t) \subseteq M
  BY DEF Trades, OfType, Matters
<1>2. Sized(es, Trades(es, s, t)) = Sized(gs, Trades(gs, s, t)) /\ Sized(es, Trades(es, s, t)) \subseteq M
  BY <1>0, <1>1 DEF Sized
<1>. DEFINE Z == Sized(es, Trades(es, s, t))
<1>3. \A T \in SUBSET M : Quantity(es, T) = Quantity(gs, T)
  <2>. SUFFICES ASSUME NEW T \in SUBSET M  PROVE Quantity(es, T) = Quantity(gs, T)
    OBVIOUS
  <2>1. \A i \in T : es[i] = gs[i]  BY <1>0
  <2>2. [i \in T |-> es[i].body.quantity] = [i \in T |-> gs[i].body.quantity]  BY <2>1
  <2>. QED  BY <2>2 DEF Quantity
<1>4. PriceLast(es, s, t) = PriceLast(gs, s, t)
  <2>. DEFINE P(hs) == {i \in OfType(hs, s, "TradeTick") :
                          hs[i].ts # None /\ hs[i].ts <= t /\ IsNumber(hs[i].body.price)}
  <2>1. P(es) = P(gs) /\ P(es) \subseteq M  BY DEF OfType, Matters
  <2>2. \A hs : PriceLast(hs, s, t) = IF P(hs) = {} THEN None ELSE hs[Max(P(hs))].body.price
    BY DEF PriceLast
  <2>3. IsFiniteSet(P(es)) /\ P(es) \subseteq Int
    <3>1. P(es) \subseteq DOMAIN es  BY DEF OfType
    <3>. QED  BY <3>1, FS_Subset DEF Readings
  <2>. HIDE DEF P
  <2>4. P(es) # {} => Max(P(es)) \in P(es)  BY <2>3, MaxIs
  <2>5. P(es) # {} => es[Max(P(es))] = gs[Max(P(es))]  BY <1>0, <2>1, <2>4
  <2>. QED  BY <2>1, <2>2, <2>5
<1>5. Vwap(es, s, t) = Vwap(gs, s, t)
  <2>. DEFINE T == {i \in Z : IsNumber(es[i].body.price)}
              U == {i \in Sized(gs, Trades(gs, s, t)) : IsNumber(gs[i].body.price)}
  <2>1. T = U /\ T \subseteq M  BY <1>0, <1>2
  <2>. HIDE DEF Z
  <2>2. [i \in T |-> es[i].body.price * es[i].body.quantity]
          = [i \in T |-> gs[i].body.price * gs[i].body.quantity]
    <3>1. \A i \in T : es[i] = gs[i]  BY <1>0, <2>1
    <3>. HIDE DEF T
    <3>. QED  BY <3>1
  <2>3. Quantity(es, T) = Quantity(gs, T)  BY <1>3, <2>1
  <2>4. Vwap(es, s, t) = IF T = {} THEN None
          ELSE [notional |-> SumOver([i \in T |-> es[i].body.price * es[i].body.quantity], T),
                quantity |-> Quantity(es, T)]
    BY DEF Vwap, Z
  <2>5. Vwap(gs, s, t) = IF U = {} THEN None
          ELSE [notional |-> SumOver([i \in U |-> gs[i].body.price * gs[i].body.quantity], U),
                quantity |-> Quantity(gs, U)]
    BY DEF Vwap
  <2>. HIDE DEF T, U
  <2>. QED  BY <2>1, <2>2, <2>3, <2>4, <2>5
<1>6. Cvd(es, s, t) = Cvd(gs, s, t) /\ AggressiveRatio(es, s, t) = AggressiveRatio(gs, s, t)
  <2>1. Sided(es, s, t) = Sided(gs, s, t) /\ Sided(es, s, t) \subseteq M
    BY <1>0, <1>2 DEF Sided
  <2>. DEFINE T == Sided(es, s, t)
  <2>2. \A side : OfSide(es, T, side) = OfSide(gs, T, side) /\ OfSide(es, T, side) \subseteq M
    BY <1>0, <2>1 DEF OfSide
  <2>. HIDE DEF T, M
  <2>3. /\ Quantity(es, OfSide(es, T, 1)) = Quantity(gs, OfSide(gs, T, 1))
        /\ Quantity(es, OfSide(es, T, -1)) = Quantity(gs, OfSide(gs, T, -1))
        /\ Quantity(es, T) = Quantity(gs, T)
    BY <1>3, <2>1, <2>2 DEF T
  <2>. QED  BY <2>1, <2>3 DEF Cvd, AggressiveRatio, T
<1>7. TrueRanges(es, Candles(es, s, t)) = TrueRanges(gs, Candles(gs, s, t))
  <2>. DEFINE C == FinalCandles(es, s, t)
              cs == Candles(es, s, t)
  <2>1. FinalCandles(gs, s, t) = C /\ C \subseteq M  BY DEF FinalCandles, OfType, Matters
  <2>2. \A i \in C : es[i] = gs[i]  BY <1>0, <2>1
  <2>3. \A i \in C : Earlier(es, C, i) = Earlier(gs, C, i)
    <3>. HIDE DEF C
    <3>. QED  BY <2>2 DEF Earlier
  <2>4. Candles(gs, s, t) = cs
    <3>1. \A k : Ranked(es, C, k) = Ranked(gs, C, k)
      <4>. SUFFICES ASSUME NEW k  PROVE Ranked(es, C, k) = Ranked(gs, C, k)  OBVIOUS
      <4>. HIDE DEF C
      <4>1. \A i \in C : Cardinality(Earlier(es, C, i)) = k - 1 <=> Cardinality(Earlier(gs, C, i)) = k - 1
        BY <2>3
      <4>2. (CHOOSE i \in C : Cardinality(Earlier(es, C, i)) = k - 1)
              = (CHOOSE i \in C : Cardinality(Earlier(gs, C, i)) = k - 1)
        BY <4>1
      <4>. QED  BY <4>2 DEF Ranked
    <3>2. cs = [k \in 1..Cardinality(C) |-> Ranked(es, C, k)]  BY DEF Candles, Ranked
    <3>3. Candles(gs, s, t) = [k \in 1..Cardinality(C) |-> Ranked(gs, C, k)]
      BY <2>1 DEF Candles, Ranked
    <3>. HIDE DEF C, cs
    <3>. QED  BY <3>1, <3>2, <3>3
  <2>5. \A k \in 1..Len(cs) : cs[k] \in C  BY CandlesAre
  <2>6. Len(cs) \in Nat  BY CandlesAre
  <2>. HIDE DEF cs, C
  <2>7. TrueRanges(es, cs) = TrueRanges(gs, cs)
    <3>. DEFINE R(hs, k) ==
           LET b == hs[cs[k]].body
           IN  IF k = 1 THEN b.high - b.low
               ELSE LET before == hs[cs[k - 1]].body.close
                    IN  Max({b.high - b.low, Distance(b.high, before), Distance(b.low, before)})
    <3>1. ASSUME NEW k \in 1..Len(cs)  PROVE R(es, k) = R(gs, k)
      <4>1. es[cs[k]] = gs[cs[k]]  BY <2>2, <2>5
      <4>2. CASE k = 1  BY <4>1, <4>2
      <4>3. CASE k # 1
        <5>1. k - 1 \in 1..Len(cs)  BY <2>6, <4>3
        <5>2. es[cs[k - 1]] = gs[cs[k - 1]]  BY <2>2, <2>5, <5>1
        <5>. QED  BY <4>1, <5>2
      <4>. QED  BY <4>2, <4>3
    <3>2. TrueRanges(es, cs) = [k \in 1..Len(cs) |-> R(es, k)]  BY DEF TrueRanges
    <3>3. TrueRanges(gs, cs) = [k \in 1..Len(cs) |-> R(gs, k)]  BY DEF TrueRanges
    <3>. HIDE DEF R
    <3>. QED  BY <3>1, <3>2, <3>3
  <2>. QED  BY <2>4, <2>7 DEF cs
<1>8. OpenInterestLatest(es, s) = OpenInterestLatest(gs, s)
  <2>. PICK I : I = Interest(es, s)  OBVIOUS
  <2>1. Interest(gs, s) = I /\ I \subseteq M  BY DEF Interest, OfType, Matters
  <2>2. \A i \in I : es[i] = gs[i]  BY <1>0, <2>1
  <2>3. TimedOf(es, I) = TimedOf(gs, I) /\ TimedOf(es, I) \subseteq I  BY <2>2 DEF TimedOf
  <2>4. LatestOf(es, I) = LatestOf(gs, I)
    <3>. PICK T : T = TimedOf(es, I)  OBVIOUS
    <3>1. \A i \in T : es[i] = gs[i]  BY <2>2, <2>3
    <3>2. {i \in T : \A j \in T : es[j].ts <= es[i].ts} = {i \in T : \A j \in T : gs[j].ts <= gs[i].ts}
      BY <3>1
    <3>. QED  BY <2>3, <3>2 DEF LatestOf
  <2>5. I # {} => Max(LatestOf(es, I)) \in I  BY LatestIs
  <2>. QED  BY <2>1, <2>2, <2>4, <2>5, InterestIsLatest
<1>. HIDE DEF Z, M
<1>. QED  BY <1>4, <1>5, <1>6, <1>7, <1>8 DEF FeatureSnapshot

(* Two cuts with the same records at other places: m says where a place of es went, *)
(* w where one of rs was.                                                            *)
IsMoved(rs, es, m, w) ==
  /\ DOMAIN rs \subseteq Int /\ DOMAIN es \subseteq Int /\ IsFiniteSet(DOMAIN es)
  /\ \A i \in DOMAIN es : m[i] \in DOMAIN rs /\ w[m[i]] = i /\ rs[m[i]] = es[i]
  /\ \A j \in DOMAIN rs : w[j] \in DOMAIN es /\ m[w[j]] = j /\ rs[j] = es[w[j]]

LEMMA MovedIs ==
  ASSUME NEW rs, NEW es, NEW m, NEW w, IsMoved(rs, es, m, w),
         NEW S, S \subseteq DOMAIN es, NEW T, T \subseteq DOMAIN rs,
         \A j \in DOMAIN rs : j \in T <=> w[j] \in S
  PROVE  T = Moved(m, S)
<1>1. ASSUME NEW j \in T  PROVE j \in Moved(m, S)
  <2>1. w[j] \in S /\ j = m[w[j]]  BY DEF IsMoved
  <2>. QED  BY <2>1 DEF Moved
<1>2. ASSUME NEW j \in Moved(m, S)  PROVE j \in T
  <2>1. PICK i \in S : j = m[i]  BY DEF Moved
  <2>2. j \in DOMAIN rs /\ w[j] = i  BY <2>1 DEF IsMoved
  <2>. QED  BY <2>2
<1>. QED  BY <1>1, <1>2

LEMMA MovedHas ==
  ASSUME NEW rs, NEW es, NEW m, NEW w, IsMoved(rs, es, m, w), NEW S, S \subseteq DOMAIN es
  PROVE  /\ Moved(m, S) \subseteq DOMAIN rs
         /\ \A j \in DOMAIN rs : j \in Moved(m, S) <=> w[j] \in S
<1>1. Moved(m, S) \subseteq DOMAIN rs  BY DEF Moved, IsMoved
<1>2. ASSUME NEW j \in DOMAIN rs  PROVE j \in Moved(m, S) <=> w[j] \in S
  <2>1. ASSUME j \in Moved(m, S)  PROVE w[j] \in S
    <3>1. PICK i \in S : j = m[i]  BY <2>1 DEF Moved
    <3>. QED  BY <3>1 DEF IsMoved
  <2>2. ASSUME w[j] \in S  PROVE j \in Moved(m, S)
    <3>1. j = m[w[j]]  BY DEF IsMoved
    <3>. QED  BY <2>2, <3>1 DEF Moved
  <2>. QED  BY <2>1, <2>2
<1>. QED  BY <1>1, <1>2

LEMMA MovedSize ==
  ASSUME NEW S, IsFiniteSet(S), NEW m, \A i, j \in S : m[i] = m[j] => i = j
  PROVE  IsFiniteSet(Moved(m, S)) /\ Cardinality(Moved(m, S)) = Cardinality(S)
<1>. DEFINE k == [i \in S |-> m[i]]
<1>1. k \in Surjection(S, Moved(m, S))  BY DEF Surjection, Moved
<1>2. \A i, j \in S : k[i] = k[j] => i = j  OBVIOUS
<1>3. k \in Injection(S, Moved(m, S))  BY <1>1, <1>2 DEF Surjection, Injection, IsInjective
<1>. QED  BY <1>1, <1>3, FS_Surjection

(* An order takes no place twice, so what it puts anywhere came from one place. *)
LEMMA RearrangedIsMoved ==
  ASSUME NEW es, Readings(es), NEW p, IsOrder(p, DOMAIN es)
  PROVE  Readings(Rearranged(es, p)) /\ \E m : IsMoved(Rearranged(es, p), es, m, p)
<1>. DEFINE D == DOMAIN es
            rs == Rearranged(es, p)
            m == [i \in D |-> CHOOSE j \in D : p[j] = i]
<1>1. D \subseteq Int /\ IsFiniteSet(D)  BY DEF Readings
<1>2. p \in [D -> D] /\ \A j \in D : \E i \in D : p[i] = j  BY DEF IsOrder
<1>3. DOMAIN rs = D /\ \A i \in D : rs[i] = es[p[i]]  BY DEF Rearranged
<1>4. \A i, j \in D : p[i] = p[j] => i = j
  <2>1. p \in Surjection(D, D)  BY <1>2 DEF Surjection
  <2>2. p \in Injection(D, D)  BY <1>1, <2>1, FS_Surjection
  <2>. QED  BY <2>2 DEF Injection, IsInjective
<1>5. \A i \in D : m[i] \in D /\ p[m[i]] = i  BY <1>2
<1>. HIDE DEF D, rs, m
<1>6. \A j \in D : p[j] \in D /\ m[p[j]] = j  BY <1>2, <1>4, <1>5
<1>7. \A i \in D : rs[m[i]] = es[i]  BY <1>3, <1>5
<1>8. IsMoved(rs, es, m, p)  BY <1>1, <1>3, <1>5, <1>6, <1>7 DEF IsMoved, D
<1>9. ASSUME NEW i \in D  PROVE rs[i].ts \in Int \cup {None}
  <2>1. p[i] \in D /\ rs[i] = es[p[i]]  BY <1>3, <1>6
  <2>. QED  BY <2>1 DEF Readings, D
<1>10. Readings(rs)  BY <1>1, <1>3, <1>9 DEF Readings
<1>. QED  BY <1>8, <1>10 DEF rs

(* The places of one cut are those of the other, moved. *)
LEMMA MovedType ==
  ASSUME NEW rs, NEW es, NEW m, NEW w, IsMoved(rs, es, m, w), NEW s, NEW type
  PROVE  /\ OfType(rs, s, type) = Moved(m, OfType(es, s, type))
         /\ OfType(es, s, type) \subseteq DOMAIN es
<1>1. OfType(es, s, type) \subseteq DOMAIN es /\ OfType(rs, s, type) \subseteq DOMAIN rs
  BY DEF OfType
<1>2. \A j \in DOMAIN rs : j \in OfType(rs, s, type) <=> w[j] \in OfType(es, s, type)
  BY DEF OfType, IsMoved
<1>. QED  BY <1>1, <1>2, MovedIs

LEMMA MovedTrades ==
  ASSUME NEW rs, NEW es, NEW m, NEW w, IsMoved(rs, es, m, w), NEW s, NEW t
  PROVE  /\ Sized(rs, Trades(rs, s, t)) = Moved(m, Sized(es, Trades(es, s, t)))
         /\ Sized(es, Trades(es, s, t)) \subseteq DOMAIN es
<1>. PICK A, B : A = Sized(rs, Trades(rs, s, t)) /\ B = Sized(es, Trades(es, s, t))  OBVIOUS
<1>. DEFINE Fits(e) == /\ e.symbol = s /\ e.type = "TradeTick"
                       /\ e.ts # None /\ e.ts >= t - Window /\ e.ts <= t
                       /\ IsNumber(e.body.quantity) /\ e.body.quantity > 0
<1>0. A = {j \in DOMAIN rs : Fits(rs[j])} /\ B = {i \in DOMAIN es : Fits(es[i])}
  BY DEF OfType, Trades, Sized
<1>. HIDE DEF Fits
<1>1. B \subseteq DOMAIN es /\ A \subseteq DOMAIN rs  BY <1>0
<1>2. ASSUME NEW j \in DOMAIN rs  PROVE j \in A <=> w[j] \in B
  <2>1. w[j] \in DOMAIN es /\ rs[j] = es[w[j]]  BY DEF IsMoved
  <2>. QED  BY <1>0, <2>1
<1>3. A = Moved(m, B)  BY ONLY IsMoved(rs, es, m, w), <1>1, <1>2, MovedIs
<1>. QED  BY <1>1, <1>3

LEMMA MovedQuantity ==
  ASSUME NEW rs, NEW es, NEW m, NEW w, IsMoved(rs, es, m, w), NEW S, S \subseteq DOMAIN es,
         \A i \in S : es[i].body.quantity \in Int
  PROVE  Quantity(rs, Moved(m, S)) = Quantity(es, S)
<1>. DEFINE f == [i \in S |-> es[i].body.quantity]
            g == [i \in Moved(m, S) |-> rs[i].body.quantity]
<1>1. IsFiniteSet(S) /\ \A i, j \in S : m[i] = m[j] => i = j  BY FS_Subset DEF IsMoved
<1>2. NumbersOn(f, S)  BY DEF NumbersOn
<1>3. ASSUME NEW i \in S  PROVE g[m[i]] = f[i]
  <2>1. m[i] \in Moved(m, S)  BY DEF Moved
  <2>2. rs[m[i]] = es[i]  BY DEF IsMoved
  <2>. QED  BY <2>1, <2>2
<1>4. Quantity(rs, Moved(m, S)) = SumOver(g, Moved(m, S)) /\ Quantity(es, S) = SumOver(f, S)
  BY DEF Quantity
<1>. HIDE DEF f, g
<1>. QED  BY <1>1, <1>2, <1>3, <1>4, SumMoved

(* A place of S is moved to a place of its own, and says the same there. *)
LEMMA MovedPlaces ==
  ASSUME NEW rs, NEW es, NEW m, NEW w, IsMoved(rs, es, m, w), NEW S, S \subseteq DOMAIN es
  PROVE  /\ S \subseteq Int /\ IsFiniteSet(S)
         /\ \A i \in S : m[i] \in Moved(m, S) /\ rs[m[i]] = es[i] /\ w[m[i]] = i
         /\ \A j \in Moved(m, S) : j \in Int /\ w[j] \in S /\ rs[j] = es[w[j]] /\ m[w[j]] = j
         /\ \A i, j \in S : m[i] = m[j] => i = j
         /\ Moved(m, S) \subseteq DOMAIN rs
<1>1. S \subseteq Int /\ IsFiniteSet(S)  BY FS_Subset DEF IsMoved
<1>2. \A i \in S : m[i] \in Moved(m, S) /\ rs[m[i]] = es[i] /\ w[m[i]] = i
  BY DEF Moved, IsMoved
<1>3. Moved(m, S) \subseteq DOMAIN rs /\ \A j \in DOMAIN rs : j \in Moved(m, S) <=> w[j] \in S
  BY MovedHas
<1>4. \A j \in Moved(m, S) : j \in Int /\ w[j] \in S /\ rs[j] = es[w[j]] /\ m[w[j]] = j
  BY <1>3 DEF IsMoved
<1>. QED  BY <1>1, <1>2, <1>3, <1>4

LEMMA MovedFlow ==
  ASSUME NEW rs, NEW es, NEW m, NEW w, IsMoved(rs, es, m, w), NEW s, NEW t
  PROVE  /\ Vwap(rs, s, t) = Vwap(es, s, t)
         /\ Cvd(rs, s, t) = Cvd(es, s, t)
         /\ AggressiveRatio(rs, s, t) = AggressiveRatio(es, s, t)
<1>. PICK Z : Z = Sized(es, Trades(es, s, t))  OBVIOUS
<1>1. Sized(rs, Trades(rs, s, t)) = Moved(m, Z) /\ Z \subseteq DOMAIN es  BY MovedTrades
<1>2. \A i \in Z : es[i].body.quantity \in Int  BY DEF Sized, IsNumber
<1>3. /\ Z \subseteq Int /\ IsFiniteSet(Z)
      /\ \A i \in Z : m[i] \in Moved(m, Z) /\ rs[m[i]] = es[i] /\ w[m[i]] = i
      /\ \A j \in Moved(m, Z) : w[j] \in Z /\ rs[j] = es[w[j]]
      /\ \A i, j \in Z : m[i] = m[j] => i = j
      /\ Moved(m, Z) \subseteq DOMAIN rs
  BY <1>1, MovedPlaces
<1>4. ASSUME NEW S, S \subseteq Z
      PROVE  /\ Quantity(rs, Moved(m, S)) = Quantity(es, S)
             /\ Moved(m, S) = {} <=> S = {}
  <2>1. S \subseteq DOMAIN es /\ \A i \in S : es[i].body.quantity \in Int  BY <1>1, <1>2, <1>4
  <2>2. Quantity(rs, Moved(m, S)) = Quantity(es, S)  BY ONLY IsMoved(rs, es, m, w), <2>1, MovedQuantity
  <2>3. Moved(m, S) = {} <=> S = {}  BY DEF Moved
  <2>. QED  BY <2>2, <2>3
<1>5. ASSUME NEW S, S \subseteq Z, NEW T, T \subseteq Moved(m, Z),
             \A j \in Moved(m, Z) : j \in T <=> w[j] \in S
      PROVE  T = Moved(m, S)
  <2>1. S \subseteq DOMAIN es /\ T \subseteq DOMAIN rs  BY <1>1, <1>3, <1>5
  <2>2. ASSUME NEW j \in DOMAIN rs  PROVE j \in T <=> w[j] \in S
    <3>1. CASE j \in Moved(m, Z)  BY <1>5, <3>1
    <3>2. CASE j \notin Moved(m, Z)
      <4>1. w[j] \notin Z  BY <1>1, <3>2, MovedHas
      <4>. QED  BY <1>5, <3>2, <4>1
    <3>. QED  BY <3>1, <3>2
  <2>. QED  BY <2>1, <2>2, MovedIs
<1>6. Vwap(rs, s, t) = Vwap(es, s, t)
  <2>. DEFINE S == {i \in Z : IsNumber(es[i].body.price)}
              T == {i \in Moved(m, Z) : IsNumber(rs[i].body.price)}
              f == [i \in S |-> es[i].body.price * es[i].body.quantity]
              g == [i \in T |-> rs[i].body.price * rs[i].body.quantity]
  <2>1. S \subseteq Z  OBVIOUS
  <2>2. T = Moved(m, S)
    <3>1. T \subseteq Moved(m, Z)  OBVIOUS
    <3>2. \A j \in Moved(m, Z) : j \in T <=> w[j] \in S  BY <1>3
    <3>. HIDE DEF S, T
    <3>. QED  BY <1>5, <2>1, <3>1, <3>2
  <2>3. Vwap(es, s, t) = IF S = {} THEN None ELSE [notional |-> SumOver(f, S), quantity |-> Quantity(es, S)]
    BY DEF Vwap
  <2>4. Vwap(rs, s, t) = IF T = {} THEN None ELSE [notional |-> SumOver(g, T), quantity |-> Quantity(rs, T)]
    BY <1>1 DEF Vwap
  <2>5. \A i \in S : f[i] = es[i].body.price * es[i].body.quantity /\ f[i] \in Int
    BY <1>2 DEF IsNumber
  <2>6. \A i \in T : g[i] = rs[i].body.price * rs[i].body.quantity  OBVIOUS
  <2>. HIDE DEF S, T, f, g
  <2>7. \A i \in S : g[m[i]] = f[i]
    <3>. SUFFICES ASSUME NEW i \in S  PROVE g[m[i]] = f[i]  OBVIOUS
    <3>1. i \in Z  BY <2>1
    <3>2. m[i] \in T  BY <2>2 DEF Moved
    <3>. QED  BY <1>3, <2>5, <2>6, <3>1, <3>2
  <2>8. IsFiniteSet(S) /\ \A i, j \in S : m[i] = m[j] => i = j  BY <1>3, <2>1, FS_Subset
  <2>9. NumbersOn(f, S)  BY <2>5 DEF NumbersOn
  <2>10. SumOver(g, Moved(m, S)) = SumOver(f, S)  BY ONLY <2>7, <2>8, <2>9, SumMoved
  <2>11. Quantity(rs, Moved(m, S)) = Quantity(es, S) /\ (Moved(m, S) = {} <=> S = {})  BY <1>4, <2>1
  <2>. QED  BY <2>2, <2>3, <2>4, <2>10, <2>11
<1>7. Cvd(rs, s, t) = Cvd(es, s, t) /\ AggressiveRatio(rs, s, t) = AggressiveRatio(es, s, t)
  <2>. PICK S, T : S = Sided(es, s, t) /\ T = Sided(rs, s, t)  OBVIOUS
  <2>1. S = {i \in Z : es[i].body.side \in {1, -1}} /\ T = {i \in Moved(m, Z) : rs[i].body.side \in {1, -1}}
    BY <1>1 DEF Sided
  <2>2. T = Moved(m, S)
    <3>1. S \subseteq Z /\ T \subseteq Moved(m, Z)  BY <2>1
    <3>2. \A j \in Moved(m, Z) : j \in T <=> w[j] \in S  BY <1>3, <2>1
    <3>. QED  BY <1>5, <3>1, <3>2
  <2>3. ASSUME NEW side
        PROVE  OfSide(rs, T, side) = Moved(m, OfSide(es, S, side)) /\ OfSide(es, S, side) \subseteq Z
    <3>. PICK A, B : A = OfSide(rs, T, side) /\ B = OfSide(es, S, side)  OBVIOUS
    <3>0. A = {i \in T : rs[i].body.side = side} /\ B = {i \in S : es[i].body.side = side}
      BY DEF OfSide
    <3>1. B \subseteq Z /\ A \subseteq Moved(m, Z)  BY <2>1, <3>0
    <3>2. \A j \in Moved(m, Z) : j \in A <=> w[j] \in B  BY <1>3, <2>1, <3>0
    <3>. QED  BY <1>5, <3>1, <3>2
  <2>4. S \subseteq Z  BY <2>1
  <2>5. Quantity(rs, T) = Quantity(es, S) /\ (T = {} <=> S = {})  BY <1>4, <2>2, <2>4
  <2>6. /\ Quantity(rs, OfSide(rs, T, 1)) = Quantity(es, OfSide(es, S, 1))
        /\ Quantity(rs, OfSide(rs, T, -1)) = Quantity(es, OfSide(es, S, -1))
    BY <1>4, <2>3
  <2>. QED  BY <2>5, <2>6 DEF Cvd, AggressiveRatio
<1>. QED  BY <1>6, <1>7

LEMMA MovedCandles ==
  ASSUME NEW rs, NEW es, NEW m, NEW w, IsMoved(rs, es, m, w), NEW s, NEW t
  PROVE  FinalCandles(rs, s, t) = Moved(m, FinalCandles(es, s, t)) /\ FinalCandles(es, s, t) \subseteq DOMAIN es
<1>. PICK A, B : A = FinalCandles(rs, s, t) /\ B = FinalCandles(es, s, t)  OBVIOUS
<1>1. B \subseteq DOMAIN es /\ A \subseteq DOMAIN rs  BY DEF OfType, FinalCandles
<1>2. ASSUME NEW j \in DOMAIN rs  PROVE j \in A <=> w[j] \in B
  <2>1. w[j] \in DOMAIN es /\ rs[j] = es[w[j]]  BY DEF IsMoved
  <2>. QED  BY <2>1 DEF OfType, FinalCandles
<1>. QED  BY <1>1, <1>2, MovedIs

(* Without ties the candles come in the same order. *)
LEMMA MovedRanks ==
  ASSUME NEW rs, NEW es, NEW m, NEW w, IsMoved(rs, es, m, w), NEW C, C \subseteq DOMAIN es,
         \A i \in C : es[i].ts \in Int, \A i, j \in C : i # j => es[i].ts # es[j].ts
  PROVE  \A k \in 1..Cardinality(C) : Ranked(rs, Moved(m, C), k) = m[Ranked(es, C, k)]
<1>. PICK N : N = Moved(m, C)  OBVIOUS
<1>1. /\ C \subseteq Int /\ IsFiniteSet(C)
      /\ \A i \in C : m[i] \in N /\ rs[m[i]] = es[i] /\ w[m[i]] = i
      /\ \A j \in N : j \in Int /\ w[j] \in C /\ rs[j] = es[w[j]] /\ m[w[j]] = j
      /\ \A i, j \in C : m[i] = m[j] => i = j
      /\ N \subseteq DOMAIN rs
  BY MovedPlaces
<1>2. IsFiniteSet(N) /\ Cardinality(N) = Cardinality(C) /\ N \subseteq Int  BY <1>1, MovedSize
<1>3. \A j \in N : rs[j].ts \in Int  BY <1>1
<1>4. ASSUME NEW i \in C  PROVE Cardinality(Earlier(rs, N, m[i])) = Cardinality(Earlier(es, C, i))
  <2>. PICK E, F : E = Earlier(es, C, i) /\ F = Earlier(rs, N, m[i])  OBVIOUS
  <2>1. E = {j \in C : es[j].ts < es[i].ts}
    <3>1. \A j \in C : j \in Int /\ (j = i \/ es[j].ts # es[i].ts)  BY <1>1
    <3>. QED  BY <3>1 DEF Earlier
  <2>2. F = {j \in N : rs[j].ts < es[i].ts}
    <3>1. \A j \in N : j \in Int /\ (w[j] = i \/ es[w[j]].ts # es[i].ts)  BY <1>1
    <3>2. \A j \in N : w[j] = i => j = m[i]  BY <1>1
    <3>3. \A j \in N : j = m[i] \/ rs[j].ts # es[i].ts  BY <1>1, <3>1, <3>2
    <3>4. m[i] \in Int /\ rs[m[i]] = es[i]  BY <1>1
    <3>5. F = {j \in N : rs[j].ts < rs[m[i]].ts \/ (rs[j].ts = rs[m[i]].ts /\ j < m[i])}  BY DEF Earlier
    <3>6. ~(m[i] < m[i])  BY <3>4
    <3>7. ASSUME NEW j \in N
          PROVE  ~(rs[j].ts = rs[m[i]].ts /\ j < m[i])
      <4>1. CASE j = m[i]  BY <3>6, <4>1
      <4>2. CASE j # m[i]  BY <3>3, <3>4, <4>2
      <4>. QED  BY <4>1, <4>2
    <3>. QED  BY <3>4, <3>5, <3>7
  <2>3. F \subseteq DOMAIN rs /\ E \subseteq DOMAIN es  BY <1>1, <2>1, <2>2
  <2>4. ASSUME NEW j \in DOMAIN rs  PROVE j \in F <=> w[j] \in E
    <3>1. j \in N <=> w[j] \in C  BY MovedHas
    <3>. QED  BY <1>1, <2>1, <2>2, <3>1
  <2>5. F = Moved(m, E)  BY <2>3, <2>4, MovedIs
  <2>6. IsFiniteSet(E) /\ \A k, j \in E : m[k] = m[j] => k = j  BY <1>1, <2>1, FS_Subset
  <2>. QED  BY <2>5, <2>6, MovedSize
<1>5. ASSUME NEW k \in 1..Cardinality(C)  PROVE Ranked(rs, N, k) = m[Ranked(es, C, k)]
  <2>. PICK i : i = Ranked(es, C, k)  OBVIOUS
  <2>1. i \in C /\ Cardinality(Earlier(es, C, i)) = k - 1  BY <1>1, RankedIs
  <2>2. m[i] \in N /\ Cardinality(Earlier(rs, N, m[i])) = k - 1  BY <1>1, <1>4, <2>1
  <2>3. k \in 1..Cardinality(N)  BY <1>2
  <2>4. \A j \in N : Cardinality(Earlier(rs, N, j)) = k - 1 => j = Ranked(rs, N, k)
    BY ONLY <1>2, <1>3, <2>3, RankedIs
  <2>. QED  BY <2>2, <2>4
<1>. QED  BY <1>5

LEMMA MovedRanges ==
  ASSUME NEW rs, NEW es, NEW m, NEW w, IsMoved(rs, es, m, w),
         Readings(rs), Readings(es), NEW s, NEW t \in Int,
         ~Tied(es, s, "Candle")
  PROVE  TrueRanges(rs, Candles(rs, s, t)) = TrueRanges(es, Candles(es, s, t))
<1>. PICK C, N : C = FinalCandles(es, s, t) /\ N = FinalCandles(rs, s, t)  OBVIOUS
<1>. PICK cs, ns : cs = Candles(es, s, t) /\ ns = Candles(rs, s, t)  OBVIOUS
<1>. PICK n : n = Cardinality(C)  OBVIOUS
<1>1. N = Moved(m, C) /\ C \subseteq DOMAIN es  BY MovedCandles
<1>2. /\ C \subseteq Int /\ IsFiniteSet(C)
      /\ \A i \in C : m[i] \in N /\ rs[m[i]] = es[i]
      /\ \A i, j \in C : m[i] = m[j] => i = j
  BY <1>1, MovedPlaces
<1>3. Cardinality(N) = n  BY <1>1, <1>2, MovedSize
<1>4. /\ \A i \in C : es[i].ts \in Int
      /\ n \in Nat /\ Len(cs) = n /\ \A k \in 1..n : cs[k] = Ranked(es, C, k) /\ cs[k] \in C
  BY CandlesAre
<1>5. Len(ns) = n /\ \A k \in 1..n : ns[k] = Ranked(rs, N, k)
  <2>1. /\ Len(ns) = Cardinality(N)
        /\ \A k \in 1..Cardinality(N) : ns[k] = Ranked(rs, N, k)
    BY CandlesAre
  <2>. QED  BY <1>3, <2>1
<1>6. \A i, j \in C : i # j => es[i].ts # es[j].ts
  <2>1. C \subseteq OfType(es, s, "Candle")  BY DEF FinalCandles
  <2>. QED  BY <2>1 DEF Tied
<1>7. \A k \in 1..n : Ranked(rs, N, k) = m[Ranked(es, C, k)]
  BY <1>1, <1>4, <1>6, MovedRanks
<1>8. \A k \in 1..n : rs[ns[k]] = es[cs[k]]  BY <1>2, <1>4, <1>5, <1>7
<1>. DEFINE R(hs, ds, k) ==
       LET b == hs[ds[k]].body
       IN  IF k = 1 THEN b.high - b.low
           ELSE LET before == hs[ds[k - 1]].body.close
                IN  Max({b.high - b.low, Distance(b.high, before), Distance(b.low, before)})
<1>9. ASSUME NEW k \in 1..n  PROVE R(rs, ns, k) = R(es, cs, k)
  <2>1. rs[ns[k]] = es[cs[k]]  BY <1>8
  <2>2. CASE k = 1  BY <2>1, <2>2
  <2>3. CASE k # 1
    <3>1. k - 1 \in 1..n  BY <1>4, <2>3
    <3>2. rs[ns[k - 1]] = es[cs[k - 1]]  BY <1>8, <3>1
    <3>. QED  BY <2>1, <3>2
  <2>. QED  BY <2>2, <2>3
<1>10. TrueRanges(es, cs) = [k \in 1..n |-> R(es, cs, k)]  BY <1>4 DEF TrueRanges
<1>11. TrueRanges(rs, ns) = [k \in 1..n |-> R(rs, ns, k)]  BY <1>5 DEF TrueRanges
<1>. HIDE DEF R
<1>. QED  BY <1>9, <1>10, <1>11

LEMMA MovedInterest ==
  ASSUME NEW rs, NEW es, NEW m, NEW w, IsMoved(rs, es, m, w),
         Readings(rs), Readings(es), NEW s,
         ~Tied(es, s, "OpenInterest")
  PROVE  OpenInterestLatest(rs, s) = OpenInterestLatest(es, s)
<1>. PICK I, J : I = Interest(es, s) /\ J = Interest(rs, s)  OBVIOUS
<1>. PICK V, W : V = LatestOf(rs, J) /\ W = LatestOf(es, I)  OBVIOUS
<1>. PICK T, U : T = TimedOf(es, I) /\ U = TimedOf(rs, J)  OBVIOUS
<1>1. J = Moved(m, I) /\ I \subseteq DOMAIN es
  <2>1. I \subseteq DOMAIN es /\ J \subseteq DOMAIN rs  BY DEF OfType, Interest
  <2>2. ASSUME NEW j \in DOMAIN rs  PROVE j \in J <=> w[j] \in I
    <3>1. w[j] \in DOMAIN es /\ rs[j] = es[w[j]]  BY DEF IsMoved
    <3>. QED  BY <3>1 DEF OfType, Interest
  <2>. QED  BY <2>1, <2>2, MovedIs
<1>2. /\ I \subseteq Int
      /\ \A i \in I : m[i] \in J /\ rs[m[i]] = es[i] /\ w[m[i]] = i
      /\ \A j \in J : j \in Int /\ w[j] \in I /\ rs[j] = es[w[j]] /\ m[w[j]] = j
  BY <1>1, MovedPlaces
<1>3. \A i, j \in I : i # j => es[i].ts # es[j].ts
  <2>1. I \subseteq OfType(es, s, "OpenInterest")  BY DEF Interest
  <2>. QED  BY <2>1 DEF Tied
<1>4. \A i \in T : es[i].ts \in Int  BY <1>1 DEF TimedOf, Readings
<1>5. /\ T \subseteq I /\ U \subseteq J
      /\ \A i \in I : i \in T <=> es[i].ts # None
      /\ \A j \in J : j \in U <=> rs[j].ts # None
  BY DEF TimedOf
<1>6. /\ W = IF T = {} THEN I ELSE {i \in T : \A j \in T : es[j].ts <= es[i].ts}
      /\ V = IF U = {} THEN J ELSE {i \in U : \A j \in U : rs[j].ts <= rs[i].ts}
  BY DEF LatestOf
<1>7. ASSUME NEW i \in W, NEW j \in W  PROVE i = j
  <2>1. CASE T = {}
    <3>1. i \in I /\ j \in I /\ es[i].ts = None /\ es[j].ts = None  BY <1>5, <1>6, <2>1
    <3>. QED  BY <1>3, <3>1
  <2>2. CASE T # {}
    <3>1. i \in T /\ j \in T /\ es[i].ts <= es[j].ts /\ es[j].ts <= es[i].ts  BY <1>6, <2>2
    <3>2. es[i].ts = es[j].ts  BY <1>4, <3>1
    <3>. QED  BY <1>3, <1>5, <3>1, <3>2
  <2>. QED  BY <2>1, <2>2
<1>8. ASSUME NEW v \in V  PROVE w[v] \in W
  <2>1. ASSUME NEW i \in T  PROVE m[i] \in U /\ rs[m[i]] = es[i]
    <3>1. i \in I /\ es[i].ts # None  BY <1>5
    <3>2. m[i] \in J /\ rs[m[i]] = es[i]  BY <1>2, <3>1
    <3>. QED  BY <1>5, <3>1, <3>2
  <2>2. \A j \in U : w[j] \in T /\ rs[j] = es[w[j]]  BY <1>2, <1>5
  <2>3. T = {} <=> U = {}  BY <2>1, <2>2
  <2>4. CASE T = {}  BY <1>2, <1>6, <2>3, <2>4
  <2>5. CASE T # {}
    <3>1. v \in U /\ \A j \in U : rs[j].ts <= rs[v].ts  BY <1>6, <2>3, <2>5
    <3>2. w[v] \in T /\ rs[v] = es[w[v]]  BY <2>2, <3>1
    <3>3. \A j \in T : es[j].ts <= es[w[v]].ts  BY <2>1, <3>1, <3>2
    <3>. QED  BY <1>6, <2>5, <3>2, <3>3
  <2>. QED  BY <2>4, <2>5
<1>9. (I # {} => Max(W) \in W) /\ W \subseteq I  BY LatestIs
<1>10. (J # {} => Max(V) \in V) /\ V \subseteq J  BY LatestIs
<1>11. I = {} <=> J = {}  BY <1>2
<1>12. ASSUME I # {}  PROVE rs[Max(V)] = es[Max(W)]
  <2>. PICK v : v = Max(V)  OBVIOUS
  <2>1. v \in V /\ v \in J  BY <1>10, <1>11, <1>12
  <2>2. w[v] = Max(W)  BY <1>7, <1>8, <1>9, <1>12, <2>1
  <2>3. rs[v] = es[w[v]]  BY <1>2, <2>1
  <2>. QED  BY <2>2, <2>3
<1>13. OpenInterestLatest(es, s) = IF I = {} THEN None ELSE es[Max(W)].body.open_interest
  BY InterestIsLatest
<1>14. OpenInterestLatest(rs, s) = IF J = {} THEN None ELSE rs[Max(V)].body.open_interest
  BY InterestIsLatest
<1>. QED  BY <1>11, <1>12, <1>13, <1>14

(* What remains when the records of a cut are put in another order. *)
LEMMA MovedFeatures ==
  ASSUME NEW rs, NEW es, NEW m, NEW w, IsMoved(rs, es, m, w),
         Readings(rs), Readings(es), NEW s, NEW t \in Int
  PROVE  LET fs == FeatureSnapshot(es, s, t)
             gs == FeatureSnapshot(rs, s, t)
         IN  /\ gs.vwap_3m = fs.vwap_3m /\ gs.cvd_3m = fs.cvd_3m
             /\ gs.aggressive_volume_ratio_3m = fs.aggressive_volume_ratio_3m
             /\ Tied(es, s, "Candle") \/ (gs.atr_14 = fs.atr_14 /\ gs.atr_z_50 = fs.atr_z_50)
             /\ Tied(es, s, "OpenInterest") \/ gs.open_interest_latest = fs.open_interest_latest
<1>1. /\ Vwap(rs, s, t) = Vwap(es, s, t) /\ Cvd(rs, s, t) = Cvd(es, s, t)
      /\ AggressiveRatio(rs, s, t) = AggressiveRatio(es, s, t)
  BY MovedFlow
<1>2. Tied(es, s, "Candle") \/ TrueRanges(rs, Candles(rs, s, t)) = TrueRanges(es, Candles(es, s, t))
  BY MovedRanges
<1>3. Tied(es, s, "OpenInterest") \/ OpenInterestLatest(rs, s) = OpenInterestLatest(es, s)
  BY MovedInterest
<1>4. ASSUME NEW hs
      PROVE  LET f == FeatureSnapshot(hs, s, t)
                 ranges == TrueRanges(hs, Candles(hs, s, t))
             IN  /\ f.vwap_3m = Vwap(hs, s, t) /\ f.cvd_3m = Cvd(hs, s, t)
                 /\ f.aggressive_volume_ratio_3m = AggressiveRatio(hs, s, t)
                 /\ f.atr_14 = Atr(ranges) /\ f.atr_z_50 = AtrZ(ranges)
                 /\ f.open_interest_latest = OpenInterestLatest(hs, s)
  BY DEF FeatureSnapshot
<1>. PICK fs, gs : fs = FeatureSnapshot(es, s, t) /\ gs = FeatureSnapshot(rs, s, t)  OBVIOUS
<1>. PICK c, d : c = TrueRanges(es, Candles(es, s, t)) /\ d = TrueRanges(rs, Candles(rs, s, t))  OBVIOUS
<1>5. /\ fs.vwap_3m = Vwap(es, s, t) /\ fs.cvd_3m = Cvd(es, s, t)
      /\ fs.aggressive_volume_ratio_3m = AggressiveRatio(es, s, t)
      /\ fs.atr_14 = Atr(c) /\ fs.atr_z_50 = AtrZ(c)
      /\ fs.open_interest_latest = OpenInterestLatest(es, s)
  BY <1>4
<1>6. /\ gs.vwap_3m = Vwap(rs, s, t) /\ gs.cvd_3m = Cvd(rs, s, t)
      /\ gs.aggressive_volume_ratio_3m = AggressiveRatio(rs, s, t)
      /\ gs.atr_14 = Atr(d) /\ gs.atr_z_50 = AtrZ(d)
      /\ gs.open_interest_latest = OpenInterestLatest(rs, s)
  BY <1>4
<1>7. Tied(es, s, "Candle") \/ (gs.atr_14 = fs.atr_14 /\ gs.atr_z_50 = fs.atr_z_50)
  BY <1>2, <1>5, <1>6
<1>. QED  BY <1>1, <1>3, <1>5, <1>6, <1>7

(* What the features of a cut are does not depend on the order of the buffer. *)
LEMMA OrderOfRun ==
  ASSUME BufferInv, NEW s, NEW r,
         r.ts \in Int, r.first \in Nat \ {0}, r.last \in 0..Len(buffer),
         r.features = FeatureSnapshot(CutOf(s, r.first, r.last), s, r.ts)
  PROVE  OrderBreaksTies(s, r)
<1>. DEFINE t == r.ts
            fs == r.features
            first == r.first
            last == r.last
<1>. PICK es : es = CutOf(s, first, last)  OBVIOUS
<1>0. BufferInv  OBVIOUS
<1>1. /\ t \in Int /\ first \in Nat \ {0} /\ last \in 0..Len(buffer)
      /\ fs = FeatureSnapshot(es, s, t)
  OBVIOUS
<1>. HIDE DEF t, fs, first, last
<1>. DEFINE B == first..last
            K == {i \in B : buffer[i].ts = None \/ buffer[i].ts <= t \/ buffer[i].type = "OpenInterest"}
            slice == [i \in B |-> buffer[i]]
            known == [i \in {j \in DOMAIN slice : \/ slice[j].ts = None \/ slice[j].ts <= t
                                                 \/ slice[j].type = "OpenInterest"} |-> buffer[i]]
<1>2. Len(buffer) \in Nat  BY <1>0, LenProperties DEF BufferInv
<1>3. ASSUME NEW i \in B  PROVE buffer[i].ts \in Int \cup {None}
  <2>. PICK c : c = buffer[i].symbol  OBVIOUS
  <2>1. i \in Int /\ i >= 1 /\ i <= Len(buffer)  BY <1>1, <1>2
  <2>2. Readings(CutOf(c, i, i))  BY <1>0, <2>1, CutIsReadings
  <2>3. i \in DOMAIN CutOf(c, i, i) /\ CutOf(c, i, i)[i] = buffer[i]  BY <2>1 DEF CutOf
  <2>. QED  BY <2>2, <2>3 DEF Readings
<1>4. known = [i \in K |-> buffer[i]]
  <2>1. {j \in DOMAIN slice : slice[j].ts = None \/ slice[j].ts <= t \/ slice[j].type = "OpenInterest"} = K
    OBVIOUS
  <2>. QED  BY <2>1
<1>5. IsFiniteSet(B) /\ B \subseteq Int
  <2>1. first \in Int /\ last \in Int  BY <1>1, <1>2
  <2>2. IsFiniteSet(first..last)  BY <2>1, FS_Interval
  <2>. QED  BY <2>2
<1>6. Readings(known)
  <2>1. IsFiniteSet(K) /\ K \subseteq Int  BY <1>5, FS_Subset
  <2>2. DOMAIN known = K /\ \A i \in K : known[i] = buffer[i]  BY <1>4
  <2>3. K \subseteq B  OBVIOUS
  <2>. HIDE DEF K, B, known
  <2>. QED  BY <1>3, <2>1, <2>2, <2>3 DEF Readings
<1>7. Readings(es)
  <2>1. last <= Len(buffer) /\ first >= 1 /\ first \in Int /\ last \in Int  BY <1>1, <1>2
  <2>. QED  BY <1>0, <2>1, CutIsReadings
<1>8. es = [i \in {k \in B : buffer[k].symbol = s} |-> buffer[i]]  BY DEF CutOf
<1>9. /\ DOMAIN es = {k \in B : buffer[k].symbol = s} /\ \A i \in DOMAIN es : es[i] = buffer[i]
      /\ DOMAIN known = K /\ \A i \in K : known[i] = buffer[i]
      /\ DOMAIN slice = B /\ \A i \in B : slice[i] = buffer[i]
  BY <1>4, <1>8
<1>. HIDE DEF known, slice
<1>10. FeatureSnapshot(known, s, t) = fs
  <2>1. Matters(known, s, t) = Matters(es, s, t)  BY <1>9 DEF Matters
  <2>2. \A i \in Matters(known, s, t) : known[i] = es[i]  BY <1>9, <2>1 DEF Matters
  <2>3. FeatureSnapshot(known, s, t) = FeatureSnapshot(es, s, t)
    BY ONLY <1>1, <1>6, <1>7, <2>1, <2>2, OnlyWhatMatters
  <2>. QED  BY <1>1, <2>3
<1>11. ASSUME NEW type, ~Tied(slice, s, type)  PROVE ~Tied(known, s, type)
  <2>1. \A i \in OfType(known, s, type) : i \in OfType(slice, s, type) /\ known[i] = slice[i]
    BY <1>9 DEF OfType
  <2>. QED  BY <1>11, <2>1 DEF Tied
<1>. DEFINE same == {"vwap_3m", "cvd_3m", "aggressive_volume_ratio_3m"}
                      \cup (IF Tied(slice, s, "Candle") THEN {} ELSE {"atr_14", "atr_z_50"})
                      \cup (IF Tied(slice, s, "OpenInterest") THEN {} ELSE {"open_interest_latest"})
<1>12. ASSUME NEW p, IsOrder(p, DOMAIN known), NEW key \in same
       PROVE  FeatureSnapshot(Rearranged(known, p), s, t)[key] = fs[key]
  <2>. PICK gs : gs = FeatureSnapshot(Rearranged(known, p), s, t)  OBVIOUS
  <2>1. PICK m : IsMoved(Rearranged(known, p), known, m, p)  BY <1>6, <1>12, RearrangedIsMoved
  <2>2. Readings(Rearranged(known, p))  BY <1>6, <1>12, RearrangedIsMoved
  <2>3. /\ gs.vwap_3m = fs.vwap_3m /\ gs.cvd_3m = fs.cvd_3m
        /\ gs.aggressive_volume_ratio_3m = fs.aggressive_volume_ratio_3m
        /\ Tied(known, s, "Candle") \/ (gs.atr_14 = fs.atr_14 /\ gs.atr_z_50 = fs.atr_z_50)
        /\ Tied(known, s, "OpenInterest") \/ gs.open_interest_latest = fs.open_interest_latest
    BY ONLY gs = FeatureSnapshot(Rearranged(known, p), s, t), <1>1, <1>6, <1>10, <2>1, <2>2, MovedFeatures
  <2>4. CASE key \in {"vwap_3m", "cvd_3m", "aggressive_volume_ratio_3m"}  BY <2>3, <2>4
  <2>5. CASE ~Tied(slice, s, "Candle") /\ key \in {"atr_14", "atr_z_50"}  BY <1>11, <2>3, <2>5
  <2>6. CASE ~Tied(slice, s, "OpenInterest") /\ key = "open_interest_latest"
    BY <1>11, <2>3, <2>6
  <2>. QED  BY <2>4, <2>5, <2>6
<1>. HIDE DEF same
<1>13. \A p \in Orders(DOMAIN known) : IsOrder(p, DOMAIN known) => \A key \in same :
         FeatureSnapshot(Rearranged(known, p), s, t)[key] = fs[key]
  BY <1>12
<1>. QED
  BY ONLY <1>10, <1>13 DEF OrderBreaksTies, same, known, slice, B, t, fs, first, last

(* In whatever order its records came in, a run computes the same features, but     *)
(* for the last price and for what has records of one exchange time to choose from; *)
(* and what is of another symbol or after the run has no part in them.  Orders may   *)
(* be any set of orders, that of all of them too.                                    *)
THEOREM OrderStaysImmaterial == Spec => OrderOnlyBreaksTies
<1>1. ASSUME ComputedInv, ComputedInv', [Next]_vars,
             NEW s \in Symbols, NEW k \in Len(runs[s]) + 1..Len(runs'[s])
      PROVE  OrderBreaksTies(s, runs'[s][k])
  <2>. PICK r : r = runs'[s][k]  OBVIOUS
  <2>1. PICK R, R1 : runs[s] \in Seq(R) /\ runs'[s] \in Seq(R1)
    BY <1>1 DEF ComputedInv, EvidenceInv, SymbolInv
  <2>2. Len(runs[s]) \in Nat /\ Len(runs'[s]) \in Nat  BY <2>1, LenProperties
  <2>3. k \in 1..Len(runs'[s]) /\ runs'[s] # runs[s]  BY <2>2
  <2>4. UNCHANGED buffer
    <3>1. Next  BY <1>1, <2>3 DEF vars
    <3>2. ~Done /\ \A l \in Lanes : ~Receive(l)  BY <2>3 DEF Done, Receive, vars
    <3>. QED  BY <3>1, <3>2 DEF Next, Tick
  <2>5. RunInv(s, k)'  BY <1>1, <2>3 DEF ComputedInv
  <2>6. /\ r.ts \in Int /\ r.first \in Nat \ {0} /\ r.last \in 0..Len(buffer)
        /\ r.features = FeatureSnapshot(CutOf(s, r.first, r.last), s, r.ts)'
    BY <2>4, <2>5 DEF RunInv
  <2>7. CutOf(s, r.first, r.last)' = CutOf(s, r.first, r.last)  BY <2>4 DEF CutOf
  <2>8. r.features = FeatureSnapshot(CutOf(s, r.first, r.last), s, r.ts)
    <3>. PICK C : C = CutOf(s, r.first, r.last)  OBVIOUS
    <3>1. CutOf(s, r.first, r.last)' = C  BY <2>7
    <3>. QED  BY <2>6, <3>1
  <2>9. BufferInv  BY <1>1 DEF ComputedInv
  <2>. QED  BY ONLY r = runs'[s][k], <2>6, <2>8, <2>9, OrderOfRun
<1>2. ComputedInv /\ ComputedInv' /\ [Next]_vars =>
        \A s \in Symbols : \A r \in {runs'[s][k] : k \in Len(runs[s]) + 1..Len(runs'[s])} :
          OrderBreaksTies(s, r)
  BY <1>1
<1>. QED  BY <1>2, ComputedStarts, ComputedStep, PTL DEF Spec, OrderOnlyBreaksTies
====
