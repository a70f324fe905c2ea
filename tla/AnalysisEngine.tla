---- MODULE AnalysisEngine ----
(* The analysis engine (consumers/analysis_engine): it runs the enabled modules *)
(* for every run the state gate opens, hands each module the artifacts and the  *)
(* state it depends on, and contains the modules' failures.                     *)
(*                                                                              *)
(* consume is synchronous and nothing runs beside it; it is taken apart here at *)
(* the modules, whose results are the environment's choice.  Gate events may be *)
(* delivered again; an engine may be replaced by one on the same stores.        *)
EXTENDS AnalysisPlan

CONSTANTS
  Load,         \* what to run: a registry with the runs that will be offered
  MaxRestarts   \* bound on the restarts

ASSUME AnalysisEngineAssumption ==
  /\ \A l \in Load :
       /\ l.reg \in Registry
       /\ \A r \in l.runs : /\ DOMAIN r = {"id", "symbol", "gate"}
                            /\ r.gate \in {"OPEN", "CLOSED", "HALTED"}
  /\ MaxRestarts \in Nat

VARIABLES
  reg,        \* the registry and enabled_modules
  runs,       \* what the gate has to say: it decided on a run, or halted at it
  phase,      \* starting, up, refused
  processed,  \* IdempotencyStore.processed_run_ids
  states,     \* ModuleStateStore.records, with the state each was computed from
  halted,     \* EngineState.halted_symbols
  run,        \* the run consume is in, or NoRun
  pos,        \* the next step of its plan
  artifacts,  \* the modules in the run's ArtifactStore
  failures,   \* module_failures
  log,        \* the events returned so far
  restarts    \* history: how often the engine was replaced

vars == <<reg, runs, phase, processed, states, halted, run, pos, artifacts, failures, log,
          restarts>>

NoRun == [id |-> "none"]
NoState == 0

Init ==
  /\ \E l \in Load : reg = l.reg /\ runs = l.runs
  /\ phase = "starting"
  /\ processed = {}
  /\ states = <<>>
  /\ halted = {}
  /\ run = NoRun
  /\ pos = 1
  /\ artifacts = {}
  /\ failures = {}
  /\ log = <<>>
  /\ restarts = 0

Event(type, r, m) == [type |-> type, run |-> r, modules |-> m]
Emit(type, r, m) == log' = Append(log, Event(type, r, m))

\* AnalysisEngine.__init__ builds the plans, or raises.
StartUp ==
  /\ phase = "starting"
  /\ phase' = IF Accepted(reg) THEN "up" ELSE "refused"
  /\ UNCHANGED <<reg, runs, processed, states, halted, run, pos, artifacts, failures, log, restarts>>

Idle == phase = "up" /\ run = NoRun

\* A halted symbol's events and those of a processed run are dropped.
Ignore(r) ==
  /\ Idle
  /\ r.symbol \in halted \/ (r.gate # "HALTED" /\ r.id \in processed)
  /\ UNCHANGED vars

\* StateGateHalted, which names the run the gate was at.
HaltSymbol(r) ==
  /\ Idle
  /\ r.gate = "HALTED"
  /\ r.symbol \notin halted
  /\ halted' = halted \cup {r.symbol}
  /\ Emit("AnalysisRunFailed", r, {})
  /\ UNCHANGED <<reg, runs, phase, processed, states, run, pos, artifacts, failures, restarts>>

\* Mutant: a run is marked only once it has completed.
UnprocessedUntilDone(r) ==
  /\ r.symbol \notin halted
  /\ \A i \in 1..Len(log) : log[i].type = "AnalysisRunCompleted" => log[i].run.id # r.id

Unprocessed(r) == r.symbol \notin halted /\ r.id \notin processed

Skip(r) ==
  /\ Idle
  /\ Unprocessed(r)
  /\ r.gate = "CLOSED"
  /\ processed' = processed \cup {r.id}
  /\ Emit("AnalysisRunSkipped", r, {})
  /\ UNCHANGED <<reg, runs, phase, states, halted, run, pos, artifacts, failures, restarts>>

\* Mutant: the artifacts of the run before are still there.
NoArtifactsStale == artifacts

NoArtifacts == {}

\* Mutant: steps are counted from zero.
FirstStepZero == 0

FirstStep == 1

Begin(r) ==
  /\ Idle
  /\ Unprocessed(r)
  /\ r.gate = "OPEN"
  /\ processed' = processed \cup {r.id}
  /\ Emit("AnalysisRunStarted", r, {})
  /\ run' = r
  /\ pos' = FirstStep
  /\ artifacts' = NoArtifacts
  /\ failures' = {}
  /\ UNCHANGED <<reg, runs, phase, states, halted, restarts>>

----
\* The steps of the plan

Step == Plan(reg)[pos]

AtStep ==
  /\ run # NoRun
  /\ pos <= Len(Plan(reg))

Available == reg.deps[Step] \subseteq artifacts

FailStep(type) ==
  /\ failures' = failures \cup {Step}
  /\ Emit(type, run, {Step})
  /\ pos' = pos + 1
  /\ UNCHANGED <<reg, runs, phase, processed, states, halted, run, artifacts, restarts>>

\* A dependency left no artifact in this run: ModuleFailed, missing_dependency.
MissDependency ==
  /\ AtStep
  /\ ~Available
  /\ FailStep("missing_dependency")

\* The module raises, or returns an artifact of another kind than its stage's:
\* ModuleFailed, exception.  Nothing it returned is kept.
ModuleRaises ==
  /\ AtStep
  /\ Available
  /\ FailStep("exception")

\* Mutant: the latest state of the module, whoever the symbol.
LatestStateOfModule(s, m) == {i \in 1..Len(states) : states[i].module = m}

StatesOf(s, m) == {i \in 1..Len(states) : states[i].symbol = s /\ states[i].module = m}

\* latest_by_symbol_and_module, the position of the record.
LatestState(s, m) ==
  IF StatesOf(s, m) = {} THEN NoState
  ELSE CHOOSE i \in StatesOf(s, m) : \A j \in StatesOf(s, m) : j <= i

\* The module returns artifacts, or none, and if it is stateful perhaps a state.
ModuleReturns(artifact, state) ==
  /\ AtStep
  /\ Available
  /\ artifacts' = IF artifact THEN artifacts \cup {Step} ELSE artifacts
  /\ IF artifact THEN Emit("ArtifactEmitted", run, {Step}) ELSE UNCHANGED log
  /\ state => Step \in reg.stateful
  /\ states' = IF state
               THEN Append(states, [symbol |-> run.symbol, module |-> Step, run |-> run.id,
                                    from |-> LatestState(run.symbol, Step)])
               ELSE states
  /\ pos' = pos + 1
  /\ UNCHANGED <<reg, runs, phase, processed, halted, run, failures, restarts>>

\* AnalysisRunCompleted: SUCCESS without module failures, else PARTIAL.
Complete ==
  /\ run # NoRun
  /\ pos > Len(Plan(reg))
  /\ Emit("AnalysisRunCompleted", run, failures)
  /\ run' = NoRun
  /\ pos' = FirstStep
  /\ artifacts' = NoArtifacts
  /\ failures' = {}
  /\ UNCHANGED <<reg, runs, phase, processed, states, halted, restarts>>

\* A new engine on the same stores: the halts are forgotten, the rest is not.
Restart ==
  /\ Idle
  /\ restarts < MaxRestarts
  /\ restarts' = restarts + 1
  /\ halted' = {}
  /\ UNCHANGED <<reg, runs, phase, processed, states, run, pos, artifacts, failures, log>>

Next ==
  \/ StartUp
  \/ Restart
  \/ \E r \in runs : Ignore(r) \/ HaltSymbol(r) \/ Skip(r) \/ Begin(r)
  \/ MissDependency
  \/ ModuleRaises
  \/ \E artifact, state \in BOOLEAN : ModuleReturns(artifact, state)
  \/ Complete

Spec == Init /\ [][Next]_vars
----
EventTypes ==
  {"AnalysisRunStarted", "AnalysisRunSkipped", "AnalysisRunFailed", "AnalysisRunCompleted",
   "ArtifactEmitted", "missing_dependency", "exception"}
RunIds == {r.id : r \in runs}
Symbols == {r.symbol : r \in runs}

TypeOK ==
  /\ reg \in Registry
  /\ phase \in {"starting", "up", "refused"}
  /\ processed \subseteq RunIds
  /\ states \in Seq([symbol : Symbols, module : Module, run : RunIds, from : Nat])
  /\ halted \subseteq Symbols
  /\ run \in runs \cup {NoRun}
  /\ pos \in Nat \ {0}
  /\ artifacts \subseteq Module
  /\ failures \subseteq Module
  /\ log \in Seq([type : EventTypes, run : runs, modules : SUBSET Module])
  /\ restarts \in 0..MaxRestarts

Events == {log[i] : i \in 1..Len(log)}
Emitted(r, m) == Event("ArtifactEmitted", r, {m}) \in Events
Missed(r, m) == Event("missing_dependency", r, {m}) \in Events
Raised(r, m) == Event("exception", r, {m}) \in Events

\* The plan of a registry that was accepted has every enabled module once,
\* stages in order and dependencies first; only a dependency that is still to
\* come within the stage puts a module behind one with a later id.
PlanIsLeast ==
  phase = "up" =>
    LET plan == Plan(reg)
    IN  /\ Len(plan) = Cardinality(reg.enabled)
        /\ {plan[i] : i \in 1..Len(plan)} = reg.enabled
        /\ \A i, j \in 1..Len(plan) : i < j =>
             /\ reg.stage[plan[i]] <= reg.stage[plan[j]]
             /\ plan[j] \notin reg.deps[plan[i]]
             /\ reg.stage[plan[i]] = reg.stage[plan[j]] /\ plan[i] > plan[j] =>
                  \E k \in i..(j - 1) : plan[k] \in reg.deps[plan[j]]

\* A module that is reported for want of a dependency is so because another
\* module of the run raised or returned nothing, never because of the order the
\* modules ran in or of the configuration: a run whose modules all deliver ends
\* in SUCCESS.
FailuresHaveACause ==
  \A e \in Events :
    e.type = "AnalysisRunCompleted" /\ e.modules # {} =>
      \E m \in reg.enabled :
        /\ ~Emitted(e.run, m)
        /\ ~Missed(e.run, m)

\* No artifact is made from another run's: everything a module's artifact
\* depends on was emitted before it, for the same run.
ArtifactsAreOwn ==
  \A i \in 1..Len(log) :
    log[i].type = "ArtifactEmitted" =>
      \A m \in log[i].modules : \A d \in reg.deps[m] :
        \E j \in 1..(i - 1) : log[j] = Event("ArtifactEmitted", log[i].run, {d})

\* Modules are isolated: what one of them does in a run reaches the others by its
\* artifact of this run and by nothing else, and so does its failure.
ModulesAreIsolated == FailuresHaveACause /\ ArtifactsAreOwn

\* A run is analysed or skipped at most once, and completed at most once,
\* whatever the gate delivers again, to this engine or the next.
AnalysedOnce ==
  \A i, j \in 1..Len(log) :
    i < j /\ log[i].run.id = log[j].run.id =>
      /\ log[j].type \in {"AnalysisRunStarted", "AnalysisRunSkipped"} =>
           log[i].type = "AnalysisRunFailed"
      /\ log[j].type = "AnalysisRunCompleted" => log[i].type # "AnalysisRunCompleted"

\* A module's states form one thread for each symbol: each was computed from the
\* one before it, by a run that has no other and in which the module did not fail.
StateIsThreaded ==
  \A j \in 1..Len(states) :
    LET x == states[j]
        Earlier == {i \in 1..(j - 1) : states[i].symbol = x.symbol /\ states[i].module = x.module}
    IN  /\ x.from \in Earlier \cup {NoState}
        /\ \A i \in Earlier : i <= x.from /\ states[i].run # x.run
        /\ \A r \in runs : r.id = x.run => ~Raised(r, x.module) /\ ~Missed(r, x.module)
====
