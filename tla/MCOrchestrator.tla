---- MODULE MCOrchestrator ----
EXTENDS Orchestrator

\* Symbol 1 sends events no snapshot can be built from as well, symbol 2 does not.
MCBuildFails == {[symbol |-> 1, kind |-> "fine"], [symbol |-> 1, kind |-> "unbuildable"],
                 [symbol |-> 2, kind |-> "fine"]}
MCEngineFails == {[symbol |-> 1, kind |-> "fine"], [symbol |-> 1, kind |-> "crashing"]}
MCFine == [symbol : {1, 2}, kind : {"fine"}]
====
