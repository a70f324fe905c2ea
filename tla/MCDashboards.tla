--------------------------- MODULE MCDashboards ---------------------------
(* Events for Dashboards.  One symbol has an early run and two runs of one *)
(* later timestamp, and then a state that brings no belief; another has a  *)
(* completed run and a later one in truth mode.                            *)
EXTENDS Dashboards

Event(stream, type, ts, run) ==
  [stream |-> stream, type |-> type, symbol |-> "BTC", ts |-> ts, run |-> run,
   mode |-> "hysteresis", output |-> FALSE, state |-> FALSE,
   belief |-> <<>>, confidence |-> 0, items |-> {}]

Completed(ts, run) == Event("orchestrator", "EngineRunCompleted", ts, run)

Published(ts, run, belief) ==
  [Event("orchestrator", "HysteresisStatePublished", ts, run)
     EXCEPT !.belief = belief]

Gate(ts, run) == Event("state_gate", "GateEvaluated", ts, run)

GateWith(ts, run, belief, confidence) ==
  [Gate(ts, run) EXCEPT !.state = TRUE, !.belief = belief,
                        !.output = TRUE, !.confidence = confidence]

Analysed(ts, run, items) ==
  [Event("analysis_engine", "Analysis", ts, run) EXCEPT !.items = items]

MCEvents ==
  { Published(2, 2, <<70, 30>>),
    GateWith(1, 1, <<60, 40>>, 5),
    GateWith(2, 3, <<55, 45>>, 7),
    GateWith(3, 4, <<>>, 6),
    [Completed(1, 1) EXCEPT !.symbol = "ETH"],
    [Gate(2, 4) EXCEPT !.symbol = "ETH", !.mode = "truth", !.output = TRUE],
    Analysed(1, 1, {"a"}), Analysed(2, 2, {"a"}), Analysed(2, 2, {"b"}),
    Analysed(2, 3, {"c"}) }
=============================================================================
