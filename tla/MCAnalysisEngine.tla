---- MODULE MCAnalysisEngine ----
EXTENDS AnalysisEngine

RunOf(i, s, g) == [id |-> i, symbol |-> s, gate |-> g]

\* All registries of three modules in the first two stages, some of them
\* enabled; one run, which is enough for the plan.
MCRegistries ==
  [stage : [Module -> {1, 2}], deps : [Module -> SUBSET Module], stateful : {{}},
   enabled : {{1, 2}, Module}]
MCPlans == [reg : MCRegistries, runs : {{RunOf(1, "BTC", "OPEN")}}]

\* A stateful module that needs another's artifact, a stage of its own that
\* stays empty, and the runs of two symbols, one of which the gate halts at.
MCThreads ==
  [reg : {[stage |-> [m \in Module |-> IF m = 3 THEN 4 ELSE 2],
           deps |-> [m \in Module |-> IF m = 1 THEN {2} ELSE {}],
           stateful |-> {1}, enabled |-> {1, 2}]},
   runs : {{RunOf(1, "BTC", "OPEN"), RunOf(2, "ETH", "OPEN"), RunOf(3, "BTC", "OPEN"),
            RunOf(4, "BTC", "CLOSED"), RunOf(3, "BTC", "HALTED")}}]

MCLoad == MCPlans \cup MCThreads
====
