---- MODULE Evidence ----
(* From the features of a run to the evidence its regime is read from:          *)
(* composer/engine_evidence, composer/legacy_snapshot/builder.py and            *)
(* regime_engine/state/embedded_evidence.py.                                    *)
(*                                                                             *)
(* Strengths and confidences are 0..Unit for 0.0..1.0.  A flow ratio is in      *)
(* thousandths, cut off, a volatility in twentieths as Features has it, so that *)
(* every threshold of the observers is met exactly where the code meets it; the *)
(* strengths in between are those of the rounded values.  An opinion is         *)
(* [regime, strength, confidence, source]; the order opinions are listed in     *)
(* decides nothing, so they are kept as a set.                                  *)
EXTENDS HysteresisRules, Features

ASSUME RegimesAssumption == NRegimes = 9

ChopBalanced == 1
ChopStophunt == 2
LiquidationUp == 3
LiquidationDown == 4
SqueezeUp == 5
SqueezeDown == 6
TrendBuildUp == 7
TrendBuildDown == 8
TrendExhaustion == 9

Unit == 6000

\* Mutant: the volatility that leaves no doubt is not cut to one.
ClampBelow(x) == IF x <= 0 THEN 0 ELSE x

Clamp(x) == IF x <= 0 THEN 0 ELSE IF x >= Unit THEN Unit ELSE x

\* The observers ask for features by their short names.
Canonical ==
  [price |-> "price_last", vwap |-> "vwap_3m", atr |-> "atr_14", atr_z |-> "atr_z_50",
   cvd |-> "cvd_3m", open_interest |-> "open_interest_latest"]

Feature(fs, key) == fs[Canonical[key]]

Number(fs, key) == IF IsNumber(Feature(fs, key)) THEN Feature(fs, key) ELSE None

Present(fs, key) == IF Feature(fs, key) # None THEN 1 ELSE 0

\* The share of the features an observer asks for that are there.
Availability(present, required) == (Unit * present) \div required

Size(n) == IF n >= 0 THEN n ELSE -n

\* Signed volume by open interest, in thousandths; none without an open interest.
FlowRatio(fs) ==
  LET cvd == Number(fs, "cvd")
      oi == Number(fs, "open_interest")
  IN  IF cvd = None \/ oi = None \/ oi <= 0 THEN None
      ELSE LET size == (1000 * Size(cvd)) \div oi IN IF cvd > 0 THEN size ELSE -size

\* The price against the vwap.
TrendSign(fs) ==
  LET p == Number(fs, "price")
      v == Feature(fs, "vwap")
  IN  IF p = None \/ v = None THEN None
      ELSE IF p * v.quantity > v.notional THEN 1
      ELSE IF p * v.quantity < v.notional THEN -1 ELSE 0

\* The observers there are, and the opinions they may have.
Observers == {"classical", "flow_pressure", "volatility_context"}
EngineOpinions == [regime : Regime, strength : 0..Unit, confidence : 0..Unit, source : Observers]

EvidenceOpinion(regime, strength, confidence, source) ==
  [regime |-> regime, strength |-> strength, confidence |-> confidence, source |-> source]

Times(a, b) == (a * b) \div Unit

\* The levels the classical observer scores by.  A volatility or a flow that is
\* missing counts as none.
VolLevel(v) == IF v = None THEN 0 ELSE Clamp(100 * (v + 20))
HighVol(v) == IF v = None THEN 0 ELSE Clamp(150 * (v - 20))
FlowSize(f) == IF f = None THEN 0 ELSE Size(f)
LowFlow(f) == Clamp(600 * (10 - FlowSize(f)))
MedFlow(f) == Clamp(300 * FlowSize(f))
HighFlow(f) == Clamp(120 * FlowSize(f))

\* Which way volume flows and the price lies, where there is a way.
Flowing(f, d) == f # None /\ IF d = 1 THEN f > 0 ELSE f < 0

\* Chop while the flow is weak, liquidation and squeeze with high volatility, a
\* trend with some of both.
ClassicalScore(r, v, f, ts) ==
  CASE r = ChopBalanced -> Times(Unit - VolLevel(v), LowFlow(f))
    [] r = ChopStophunt -> Times(VolLevel(v), LowFlow(f))
    [] r = LiquidationUp -> IF Flowing(f, 1) THEN Times(HighVol(v), HighFlow(f)) ELSE 0
    [] r = LiquidationDown -> IF Flowing(f, -1) THEN Times(HighVol(v), HighFlow(f)) ELSE 0
    [] r = SqueezeUp -> IF ts = 1 THEN Times(HighVol(v), MedFlow(f)) ELSE 0
    [] r = SqueezeDown -> IF ts = -1 THEN Times(HighVol(v), MedFlow(f)) ELSE 0
    [] r = TrendBuildUp -> IF ts = 1 THEN Times(VolLevel(v), MedFlow(f)) ELSE 0
    [] r = TrendBuildDown -> IF ts = -1 THEN Times(VolLevel(v), MedFlow(f)) ELSE 0
    [] r = TrendExhaustion -> Times(HighVol(v), LowFlow(f))

ClassicalScores(fs) ==
  [r \in Regime |-> Clamp(ClassicalScore(r, Number(fs, "atr_z"), FlowRatio(fs), TrendSign(fs)))]

\* Always one opinion, for the best score and the first regime declared on ties.
Classical(fs) ==
  LET scores == ClassicalScores(fs)
      winner == TopRegime(scores)
      present == Present(fs, "price") + Present(fs, "vwap") + Present(fs, "atr_z")
                   + Present(fs, "cvd") + Present(fs, "open_interest")
  IN  {EvidenceOpinion(winner, scores[winner], Availability(present, 5), "classical")}

\* Mutant: a squeeze is always one upwards.
FlowRegimeUpwards(f, v) ==
  LET up == f > 0
  IN  IF v # None /\ v >= 30 /\ Size(f) >= 20 THEN IF up THEN LiquidationUp ELSE LiquidationDown
      ELSE IF v # None /\ v >= 20 THEN SqueezeUp
      ELSE IF up THEN TrendBuildUp ELSE TrendBuildDown

FlowRegime(f, v) ==
  LET up == f > 0
  IN  IF v # None /\ v >= 30 /\ Size(f) >= 20 THEN IF up THEN LiquidationUp ELSE LiquidationDown
      ELSE IF v # None /\ v >= 20 THEN IF up THEN SqueezeUp ELSE SqueezeDown
      ELSE IF up THEN TrendBuildUp ELSE TrendBuildDown

\* Silent while the flow is below two thousandths of the open interest.
FlowPressure(fs) ==
  LET f == FlowRatio(fs)
      present == Present(fs, "cvd") + Present(fs, "open_interest")
  IN  IF f = None THEN {}
      ELSE IF Size(f) < 2 THEN {}
      ELSE {EvidenceOpinion(FlowRegime(f, Number(fs, "atr_z")), Clamp(300 * Size(f)),
                            Availability(present, 2), "flow_pressure")}

VolatilityRegime(v, ts) ==
  IF v <= 4 THEN ChopBalanced
  ELSE IF v <= 16 THEN ChopStophunt
  ELSE IF v >= 36 THEN TrendExhaustion
  ELSE IF ts = 1 THEN SqueezeUp ELSE IF ts = -1 THEN SqueezeDown ELSE NoRegime

\* Between quiet and exhausted a volatility says nothing without a trend.
VolatilityContext(fs) ==
  LET v == Number(fs, "atr_z")
      regime == VolatilityRegime(v, TrendSign(fs))
  IN  IF v = None THEN {}
      ELSE IF regime = NoRegime THEN {}
      ELSE {EvidenceOpinion(regime, Clamp(150 * (v - 4)),
                            Availability(Present(fs, "atr_z"), 1), "volatility_context")}

Opinions(fs) == Classical(fs) \cup FlowPressure(fs) \cup VolatilityContext(fs)

\* compute_engine_evidence_snapshot; embedded, this is also the payload.
EvidenceSnapshot(fs, s, t) == [symbol |-> s, timestamp |-> t, opinions |-> Opinions(fs)]

\* The snapshot the engine runs on: of its many fields the engine reads the
\* evidence embedded in market.structure_levels, and nothing else.
\* It is built on a SnapshotInputs record of the cut that names this engine
\* timestamp, the last one, and may bring evidence of its own; without one the
\* features fill it.
Shell(es, s, t) ==
  LET I == {i \in OfType(es, s, "SnapshotInputs") : es[i].body.timestamp_ms = t}
  IN  [symbol |-> s, timestamp |-> t,
       embedded |-> IF I = {} THEN None ELSE es[Max(I)].body.market]

\* Mutant: what a shell brought is kept.
EmbedUnlessThere(shell, ev) ==
  IF ev.opinions = {} THEN [shell EXCEPT !.embedded = None]
  ELSE [shell EXCEPT !.embedded = IF @ = None THEN ev ELSE @]

\* Evidence takes the place of what was embedded; without opinions that is
\* taken out.
Embed(shell, ev) ==
  [shell EXCEPT !.embedded = IF ev.opinions = {} THEN None ELSE ev]

\* An opinion the engine reads back must name a regime and stay within bounds.
Named(o) == o.regime \in Regime
Bounded(o) == o.strength \in 0..Unit /\ o.confidence \in 0..Unit

NoDriver == "DRIVER_NO_CANONICAL_EVIDENCE"

\* extract_embedded_evidence, of a snapshot that carries some: evidence of another
\* symbol or time is dropped as a whole, else the opinions that are no good.
Extract(snapshot) ==
  LET ev == snapshot.embedded
      foreign == (IF ev.symbol # snapshot.symbol THEN {"SYMBOL_MISMATCH"} ELSE {})
                   \cup (IF ev.timestamp # snapshot.timestamp THEN {"TIMESTAMP_MISMATCH"} ELSE {})
      good == {o \in ev.opinions : Named(o) /\ Bounded(o)}
      dropped == {IF Named(o) THEN "BOUNDS" ELSE "REGIME" : o \in ev.opinions \ good}
  IN  IF foreign # {}
      THEN [opinions |-> {}, drivers |-> {NoDriver}, invalidations |-> foreign]
      ELSE [opinions |-> good,
            drivers |-> IF good = {} THEN {NoDriver} ELSE {o.source : o \in good},
            invalidations |-> dropped]
====
