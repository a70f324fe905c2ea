---------------------------- MODULE Dashboards ----------------------------
(***************************************************************************)
(* DashboardBuilder (src/src/consumers/dashboards/builder.py): the view    *)
(* model built from the events of the orchestrator, the state gate and the *)
(* analysis engine.  The contract is delivery at least once in any order   *)
(* (Planning/consumers/dashboards/spec.md), so any of Events may be        *)
(* ingested at any time and any number of times, an event may be refused,  *)
(* and a snapshot may be built in between.                                 *)
(*                                                                         *)
(* What a section of the view shows is a function of one event, so the     *)
(* model keeps that event.  Timestamps and runs are positive, 0 stands for *)
(* None; runs are numbered in the order of their ids.                      *)
(***************************************************************************)
EXTENDS Naturals

CONSTANTS Events,     \* the events the streams may deliver
          NoEvent     \* nothing shown yet

Streams == {"orchestrator", "state_gate", "analysis_engine"}

(* What a symbol shows; "run" is its last run, which every event carries.  *)
Sections == {"run", "truth", "hysteresis", "belief", "gate", "effective"}

Types == {"EngineRunStarted", "EngineRunFailed", "EngineRunCompleted",
          "HysteresisStatePublished", "GateEvaluated", "StateReset",
          "StateGateHalted", "Analysis"}

(* An event: its mode, whether its payload has a regime output (with what  *)
(* confidence) and a hysteresis state, with what belief, <<>> if the state *)
(* has no debug or no belief in it, and what an analysis event adds to the *)
(* highlights and artifacts.                                               *)
ASSUME EventsAssumption ==
  /\ NoEvent \notin Events
  /\ \A e \in Events :
       /\ e.stream \in Streams /\ e.type \in Types
       /\ e.ts \in Nat \ {0} /\ e.run \in Nat \ {0}

VARIABLES
  shown,      \* per symbol and section, the event it is taken from
  base,       \* per symbol, the event whose belief the trend looks back to
  analysis,   \* per symbol, the run of the analysis section and its items
  source,     \* _latest_source
  heard,      \* the streams with a last event timestamp
  failed,     \* _ingest_failure_codes is not empty
  previous,   \* per symbol, the hysteresis and belief of the last snapshot
  view,       \* the last snapshot: status and trends
  delivered   \* history: the events ingested so far

vars == <<shown, base, analysis, source, heard, failed, previous, view,
          delivered>>

Symbols == {e.symbol : e \in Events}

Items == UNION {e.items : e \in Events}

NoRun == [ts |-> 0, run |-> 0, items |-> {}]

(* (ts, run) pairs in the order _track_source and the analysis section use. *)
Before(a, b) == a.ts < b.ts \/ (a.ts = b.ts /\ a.run < b.run)
-----------------------------------------------------------------------------
(* The sections an event carries.  A gate event in hysteresis mode has an  *)
(* effective regime only if it has both a state and an output.             *)
Effective(e) ==
  /\ e.type = "GateEvaluated" /\ e.output
  /\ e.mode = "truth" \/ (e.mode = "hysteresis" /\ e.state)

HasState(e) ==
  \/ e.type = "HysteresisStatePublished"
  \/ e.type = "GateEvaluated" /\ e.state

HasBelief(e) == HasState(e) /\ e.belief # <<>>

Carries(e, x) ==
  \/ x = "run"
  \/ x = "truth" /\ e.type = "EngineRunCompleted"
  \/ x = "hysteresis" /\ HasState(e)
  \/ x = "belief" /\ HasBelief(e)
  \/ x = "gate" /\ e.stream = "state_gate"
  \/ x = "effective" /\ Effective(e)

(* Mutant: the event that comes last is shown, whatever its timestamp. *)
DueAlways(e, old) == old = NoEvent \/ e.ts > 0

(* A section takes an event that is no older than the one it shows. *)
Due(e, old) == old = NoEvent \/ e.ts >= old.ts

Show(e) ==
  [x \in Sections |->
     IF Carries(e, x) /\ Due(e, shown[e.symbol][x])
     THEN e ELSE shown[e.symbol][x]]

Track(e) ==
  source' = IF Before(source, e) THEN [ts |-> e.ts, run |-> e.run] ELSE source

(* The highest mass, and the first in the order of Regime among equals. *)
Anchor(b) ==
  CHOOSE r \in DOMAIN b : \A q \in DOMAIN b :
    b[q] < b[r] \/ (b[q] = b[r] /\ r <= q)

Compare(old, new) ==
  IF new > old THEN "RISING" ELSE IF new < old THEN "FALLING" ELSE "FLAT"

BeliefTrend(s) ==
  IF shown[s]["belief"] = NoEvent \/ base[s] = NoEvent THEN "UNKNOWN"
  ELSE LET r == Anchor(shown[s]["belief"].belief)
       IN Compare(base[s].belief[r], shown[s]["belief"].belief[r])

(* Only a gate event with an output has a confidence; the orchestrator's   *)
(* HysteresisStatePublished puts 0 in its place.                           *)
Confidence(e) ==
  IF e.stream = "state_gate" /\ e.output THEN e.confidence ELSE 0

ConfidenceTrend(s) ==
  IF previous[s]["hysteresis"] = NoEvent THEN "FLAT"
  ELSE Compare(Confidence(previous[s]["hysteresis"]),
               Confidence(shown[s]["hysteresis"]))
-----------------------------------------------------------------------------
(* Mutant: a refused event leaves no trace in the telemetry. *)
StaleUnlessRefused == heard # Streams

(* Some stream is missing, no symbol was seen, or an event was refused.    *)
Stale ==
  \/ heard # Streams
  \/ \A s \in Symbols : shown[s]["run"] = NoEvent
  \/ failed

Status ==
  IF heard = {} THEN "UNKNOWN" ELSE IF Stale THEN "DEGRADED" ELSE "OK"

(* Mutant: the word of the telemetry instead of the contract's. *)
ComponentStatusStale(stream) ==
  IF stream \notin heard THEN "UNKNOWN"
  ELSE IF Stale THEN "STALE" ELSE "OK"

ComponentStatus(stream) ==
  IF stream \notin heard THEN "UNKNOWN"
  ELSE IF Stale THEN "DEGRADED" ELSE "OK"

Snapshot ==
  [system     |-> Status,
   components |-> [stream \in Streams |-> ComponentStatus(stream)],
   belief     |-> [s \in Symbols |-> BeliefTrend(s)],
   confidence |-> [s \in Symbols |-> ConfidenceTrend(s)]]

NoView ==
  [system     |-> "UNKNOWN",
   components |-> [stream \in Streams |-> "UNKNOWN"],
   belief     |-> [s \in Symbols |-> "UNKNOWN"],
   confidence |-> [s \in Symbols |-> "FLAT"]]

Init ==
  /\ shown = [s \in Symbols |-> [x \in Sections |-> NoEvent]]
  /\ base = [s \in Symbols |-> NoEvent]
  /\ analysis = [s \in Symbols |-> NoRun]
  /\ source = [ts |-> 0, run |-> 0]
  /\ heard = {} /\ failed = FALSE
  /\ previous =
       [s \in Symbols |-> [x \in {"hysteresis", "belief"} |-> NoEvent]]
  /\ view = NoView /\ delivered = {}

(* What every handler does with an event it accepts. *)
Accept(e) ==
  /\ heard' = heard \cup {e.stream}
  /\ shown' = [shown EXCEPT ![e.symbol] = Show(e)]
  /\ delivered' = delivered \cup {e}

(* A belief that is shown looks back to the belief of the last snapshot. *)
LookBack(e) ==
  base' = IF HasBelief(e) /\ Due(e, shown[e.symbol]["belief"])
          THEN [base EXCEPT ![e.symbol] = previous[e.symbol]["belief"]]
          ELSE base

(* ingest_orchestrator_event: only a completed run is a source. *)
IngestOrchestrator(e) ==
  /\ e.stream = "orchestrator"
  /\ Accept(e) /\ LookBack(e)
  /\ IF e.type = "EngineRunCompleted" THEN Track(e) ELSE UNCHANGED source
  /\ UNCHANGED <<analysis, failed, previous, view>>

(* ingest_state_gate_event. *)
IngestStateGate(e) ==
  /\ e.stream = "state_gate"
  /\ Accept(e) /\ LookBack(e) /\ Track(e)
  /\ UNCHANGED <<analysis, failed, previous, view>>

(* Mutant: runs of one timestamp share the section. *)
AddByTime(a, e) ==
  IF e.ts = a.ts
  THEN [a EXCEPT !.items = @ \cup e.items]
  ELSE IF e.ts < a.ts THEN a
  ELSE [ts |-> e.ts, run |-> e.run, items |-> e.items]

(* The section belongs to one run: the same run adds to it, a later run,   *)
(* or one of the same timestamp and a higher id, begins it anew, and what  *)
(* is older is passed over.                                                *)
Add(a, e) ==
  IF e.ts = a.ts /\ e.run = a.run
  THEN [a EXCEPT !.items = @ \cup e.items]
  ELSE IF Before(e, a) THEN a
  ELSE [ts |-> e.ts, run |-> e.run, items |-> e.items]

(* ingest_analysis_engine_event. *)
IngestAnalysis(e) ==
  /\ e.stream = "analysis_engine"
  /\ Accept(e) /\ Track(e)
  /\ analysis' = [analysis EXCEPT ![e.symbol] = Add(@, e)]
  /\ UNCHANGED <<base, failed, previous, view>>

(* An event of another schema or version, or an analysis event of no known *)
(* type.  The code is never cleared.  The handlers' "except" branches, which *)
(* leave a code too, are left out: no event the contracts allow raises.    *)
Refuse ==
  /\ failed' = TRUE
  /\ UNCHANGED <<shown, base, analysis, source, heard, previous, view,
                 delivered>>

(* build_snapshot.  What it shows is what the next one looks back to. *)
Build ==
  /\ view' = Snapshot
  /\ previous' =
       [s \in Symbols |-> [x \in {"hysteresis", "belief"} |-> shown[s][x]]]
  /\ UNCHANGED <<shown, base, analysis, source, heard, failed, delivered>>

Next ==
  \/ \E e \in Events :
       IngestOrchestrator(e) \/ IngestStateGate(e) \/ IngestAnalysis(e)
  \/ Refuse
  \/ Build

Spec == Init /\ [][Next]_vars
-----------------------------------------------------------------------------
(***************************************************************************)
(* Properties                                                              *)
(***************************************************************************)
Trends == {"UNKNOWN", "RISING", "FALLING", "FLAT"}
Statuses == {"UNKNOWN", "DEGRADED", "OK"}

TypeOK ==
  /\ shown \in [Symbols -> [Sections -> Events \cup {NoEvent}]]
  /\ base \in [Symbols -> Events \cup {NoEvent}]
  /\ analysis \in [Symbols -> [ts : Nat, run : Nat, items : SUBSET Items]]
  /\ source \in [ts : Nat, run : Nat]
  /\ heard \subseteq Streams /\ failed \in BOOLEAN
  /\ previous \in
       [Symbols -> [{"hysteresis", "belief"} -> Events \cup {NoEvent}]]
  /\ view.system \in Statuses
  /\ view.components \in [Streams -> Statuses]
  /\ view.belief \in [Symbols -> Trends]
  /\ view.confidence \in [Symbols -> Trends]
  /\ delivered \subseteq Events

(* Whatever the order and however often events come, every section shows   *)
(* an event of the latest timestamp of all that carry it; which of several *)
(* of that timestamp is up to the order, the last delivered being shown.   *)
(* The belief of a symbol is never newer than its hysteresis, and both are *)
(* of one event if the state that is shown has a belief.                   *)
SectionsAreLatest ==
  \A s \in Symbols :
    /\ \A x \in Sections :
         LET all == {e \in delivered : e.symbol = s /\ Carries(e, x)} IN
         /\ all = {} <=> shown[s][x] = NoEvent
         /\ all # {} => /\ shown[s][x] \in all
                        /\ \A e \in all : e.ts <= shown[s][x].ts
    /\ LET state == shown[s]["hysteresis"]
           belief == shown[s]["belief"] IN
       belief # NoEvent => /\ state # NoEvent /\ belief.ts <= state.ts
                           /\ HasBelief(state) => belief = state

(* Of the orchestrator's events only EngineRunCompleted is a source. *)
Tracks(e) == e.stream # "orchestrator" \/ e.type = "EngineRunCompleted"

(* The source is the latest completed, gated or analysed run of all. *)
SourceIsLatest ==
  LET all == {e \in delivered : Tracks(e)} IN
  /\ all = {} => source = [ts |-> 0, run |-> 0]
  /\ \A e \in all : ~Before(source, e)
  /\ all # {} => \E e \in all : source = [ts |-> e.ts, run |-> e.run]

(* However the events are delivered, late, twice or out of order, the view *)
(* falls behind no event that was: its sections are of the latest times    *)
(* there are, and the run it names as its source is the latest of all.     *)
(* What one timestamp has several events for is the last delivered one's.  *)
LatestIsShown == SectionsAreLatest /\ SourceIsLatest

(* The analysis section shows exactly what was delivered of the latest     *)
(* run, nothing of another run, nothing missing, in any order of delivery. *)
AnalysisIsOneRun ==
  \A s \in Symbols :
    LET all == {e \in delivered : e.stream = "analysis_engine" /\ e.symbol = s}
        Same == {e \in all : e.ts = analysis[s].ts /\ e.run = analysis[s].run}
    IN /\ all = {} => analysis[s] = NoRun
       /\ all # {} => Same # {}
       /\ \A e \in all : ~Before(analysis[s], e)
       /\ analysis[s].items = UNION {e.items : e \in Same}

(* What a step that changes the view may show.                             *)
HonestStep ==
  view' # view =>
    /\ view'.system = "OK" =>
         /\ ~failed
         /\ \A stream \in Streams : \E e \in delivered : e.stream = stream
    /\ \A s \in Symbols :
         LET now == shown[s]["belief"]
             state == shown[s]["hysteresis"]
             Upto(f) == {e \in delivered : e.symbol = s /\ e.ts <= f.ts}
             Beliefs == {e \in Upto(now) : HasBelief(e)}
             States == {e \in Upto(state) : HasState(e)}
             Mass(e) == e.belief[Anchor(now.belief)]
         IN /\ view'.belief[s] = "RISING" =>
                 \E e \in Beliefs : Mass(e) < Mass(now)
            /\ view'.belief[s] = "FALLING" =>
                 \E e \in Beliefs : Mass(e) > Mass(now)
            /\ view'.confidence[s] = "RISING" =>
                 \E e \in States : Confidence(e) < Confidence(state)
            /\ view'.confidence[s] = "FALLING" =>
                 \E e \in States : Confidence(e) > Confidence(state)

(* A snapshot says no more than was delivered: it is "OK" only if every    *)
(* stream was heard and no event refused, and where it shows a belief or a *)
(* confidence that rose or fell, an event no newer than the one shown had  *)
(* the lower or higher value.                                              *)
ViewIsHonest == [][HonestStep]_vars
=============================================================================
