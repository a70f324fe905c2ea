---- MODULE RegimeEngine ----
(* regime_engine/pipeline.py: one run of the engine on a snapshot.  Scoring,    *)
(* vetoes, resolution and confidence come first; the regime that is published   *)
(* is the projection of the belief, which the embedded evidence sets when the   *)
(* snapshot carries some, and the resolution when it does not.                  *)
(*                                                                             *)
(* Every score is 0 and every veto predicate FALSE in this version of the code; *)
(* what is built on them is modelled as it stands.  Confidence is in percent.   *)
EXTENDS Evidence

\* score_all: one score per regime, with the pillars its contributors belong to.
Score(r) == 0

Pillars(r) ==
  {"market", "flow", "derivatives"}
    \cup IF r \in {TrendBuildUp, TrendBuildDown, TrendExhaustion} THEN {"context"} ELSE {}

AcceptanceIsHigh(snapshot) == FALSE
OiIsContracting(snapshot) == FALSE
OiIsFlat(snapshot) == FALSE
AtrIsExpanding(snapshot) == FALSE
AtrIsCompressed(snapshot) == FALSE

\* What each rule of the registry vetoes, with its reason.
Vetoes(snapshot) ==
  LET Rule(b, regimes, reason) == IF b THEN {[regime |-> r, reason |-> reason] : r \in regimes} ELSE {}
      fading == OiIsContracting(snapshot) /\ AtrIsExpanding(snapshot)
  IN  Rule(AcceptanceIsHigh(snapshot), {LiquidationUp, LiquidationDown}, "acceptance_liquidation")
        \cup Rule(AcceptanceIsHigh(snapshot), {ChopBalanced, ChopStophunt}, "acceptance_chop")
        \cup Rule(fading, {TrendBuildUp, TrendBuildDown}, "contracting_trend_build")
        \cup Rule(OiIsFlat(snapshot) /\ AtrIsCompressed(snapshot), Regime \ {ChopBalanced}, "flat_chop")

\* The eligible regime with the greatest score, the first declared on ties.
Best(regimes) ==
  CHOOSE r \in regimes : \A q \in regimes : Score(q) < Score(r) \/ (Score(q) = Score(r) /\ r <= q)

\* resolve_regime: winner and runner-up among the regimes without a veto.
Resolution(snapshot) ==
  LET vetoes == Vetoes(snapshot)
      eligible == Regime \ {x.regime : x \in vetoes}
      winner == IF eligible = {} THEN NoRegime ELSE Best(eligible)
      rest == eligible \ {winner}
  IN  [winner |-> winner, runnerUp |-> IF rest = {} THEN NoRegime ELSE Best(rest), vetoes |-> vetoes]

\* synthesize_confidence: half from the spread of the scores, half from the
\* pillars winner and runner-up share; None without a winner.
Confidence(res) ==
  IF res.winner = NoRegime THEN None
  ELSE IF res.runnerUp = NoRegime THEN 0
  ELSE LET w == Pillars(res.winner)
           u == Pillars(res.runnerUp)
           spread == Score(res.winner) - Score(res.runnerUp)
       IN  (50 * Cardinality(w \cap u)) \div Cardinality(w \cup u) + 50 * Lesser(spread, 1)

\* _select_opinion: by strength, then confidence, then the order of the regimes.
Selected(opinions) ==
  IF opinions = {} THEN NoRegime
  ELSE (CHOOSE o \in opinions : \A p \in opinions :
          \/ o.strength > p.strength
          \/ o.strength = p.strength /\ o.confidence > p.confidence
          \/ o.strength = p.strength /\ o.confidence = p.confidence /\ o.regime <= p.regime).regime

\* The belief of a run has no memory: it starts from the uniform prior.
Projected(o) == TopRegime(Belief(o))

Output(snapshot, regime, confidence, drivers, invalidations) ==
  [symbol |-> snapshot.symbol, timestamp |-> snapshot.timestamp, regime |-> regime,
   confidence |-> confidence, drivers |-> drivers, invalidations |-> invalidations,
   permissions |-> IF regime = NoRegime THEN {} ELSE {regime}]

\* With embedded evidence drivers and invalidations come from it.
EvidenceOutput(snapshot, ev, confidence) ==
  Output(snapshot, Projected(Selected(ev.opinions)), IF confidence = None THEN 0 ELSE confidence,
         ev.drivers, ev.invalidations)

\* Without, the winner of the resolution is the one opinion there is, and what
\* contributed to its score drives it.
ClassicalOutput(snapshot, res, confidence) ==
  Output(snapshot, IF res.winner = NoRegime THEN NoRegime ELSE Projected(res.winner), confidence,
         IF res.winner = NoRegime THEN {} ELSE Pillars(res.winner), {x.reason : x \in res.vetoes})

\* validate_explainability raises on an output without a regime or a driver.
Explained(output) == output.regime # NoRegime /\ output.drivers # {} /\ output.permissions # {}

RunPipeline(snapshot) ==
  LET res == Resolution(snapshot)
  IN  IF snapshot.embedded = None THEN ClassicalOutput(snapshot, res, Confidence(res))
      ELSE EvidenceOutput(snapshot, Extract(snapshot), Confidence(res))

\* What the run's state carries on to the hysteresis step: the selected opinion.
RunOpinion(snapshot) ==
  IF snapshot.embedded = None THEN Resolution(snapshot).winner
  ELSE Selected(Extract(snapshot).opinions)
====
