---- MODULE AnalysisPlan ----
(* How the analysis engine checks its registry of modules and plans their       *)
(* execution (consumers/analysis_engine/registry.py and planning.py).  Modules  *)
(* are numbered in the lexicographic order of their ids, stages in STAGE_ORDER. *)
EXTENDS Integers, Sequences, FiniteSets

CONSTANT NModules
ASSUME NModulesAssumption == NModules \in Nat

Module == 1..NModules
Stage == 1..4

\* The modules, what each is and needs, which of them keep state, and the
\* enabled_modules of the configuration.
Registry ==
  [stage : [Module -> Stage], deps : [Module -> SUBSET Module],
   stateful : SUBSET Module, enabled : SUBSET Module]

\* _validate_missing_dependencies
DependenciesEnabled(reg) == \A m \in reg.enabled : reg.deps[m] \subseteq reg.enabled

\* _validate_cycles finds a way back to a module exactly if some modules all
\* depend on one another.
Acyclic(reg) ==
  \A S \in (SUBSET reg.enabled) \ {{}} : \E m \in S : reg.deps[m] \cap S = {}

\* _validate_stage_dependencies
StagesRespected(reg) ==
  \A m \in reg.enabled : \A d \in reg.deps[m] : reg.stage[d] <= reg.stage[m]

Accepted(reg) == DependenciesEnabled(reg) /\ Acyclic(reg) /\ StagesRespected(reg)

\* Mutant: the queue is sorted the other way round.
FirstReversed(S) == CHOOSE m \in S : \A n \in S : m >= n

First(S) == CHOOSE m \in S : \A n \in S : m <= n

OfStage(reg, g) == {m \in reg.enabled : reg.stage[m] = g}

\* Mutant: the modules of a stage are taken in the order of their ids alone.
StageOrderById(reg, g) ==
  LET S == OfStage(reg, g)
      From[done \in SUBSET S] ==
        IF done = S THEN <<>>
        ELSE <<First(S \ done)>> \o From[done \cup {First(S \ done)}]
  IN  From[{}]

\* _order_stage: of the modules whose dependencies within the stage are all
\* behind them, the first by id is next; a stage that gets stuck raises.
StageOrder(reg, g) ==
  LET S == OfStage(reg, g)
      From[done \in SUBSET S] ==
        LET ready == {m \in S \ done : reg.deps[m] \cap S \subseteq done}
        IN  IF ready = {} THEN <<>>
            ELSE <<First(ready)>> \o From[done \cup {First(ready)}]
  IN  From[{}]

Plan(reg) ==
  StageOrder(reg, 1) \o StageOrder(reg, 2) \o StageOrder(reg, 3) \o StageOrder(reg, 4)
====
