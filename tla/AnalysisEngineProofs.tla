---- MODULE AnalysisEngineProofs ----
(* Theorems about the analysis engine, for every registry, every set of runs    *)
(* and whatever the modules do.                                                 *)
EXTENDS AnalysisEngine, WellFoundedInduction, SequenceTheorems, FiniteSetTheorems, TLAPS

\* What a plan may name as a step, whatever the plan.
PlanSteps == {Plan(reg)[k] : k \in Nat}
LogEvent == [type : EventTypes, run : runs, modules : SUBSET (PlanSteps \cup Module)]

LogType ==
  /\ log \in Seq(LogEvent)
  /\ run \in runs \cup {NoRun}
  /\ pos \in Nat
  /\ failures \subseteq PlanSteps \cup Module

\* What was announced of a run, but for a halt, was announced after it was marked.
Marked ==
  \A i \in 1..Len(log) : log[i].type = "AnalysisRunFailed" \/ log[i].run.id \in processed

\* The run consume is in has been marked, and is not completed yet.
RunIsOpen ==
  run # NoRun =>
    /\ run.id \in processed
    /\ \A i \in 1..Len(log) : log[i].type = "AnalysisRunCompleted" => log[i].run.id # run.id

OnceInv == LogType /\ Marked /\ RunIsOpen /\ AnalysedOnce

\* An event may follow those that are there if nothing like it did before.
MayFollow(e) ==
  \A i \in 1..Len(log) : log[i].run.id = e.run.id =>
    /\ e.type \in {"AnalysisRunStarted", "AnalysisRunSkipped"} =>
         log[i].type = "AnalysisRunFailed"
    /\ e.type = "AnalysisRunCompleted" => log[i].type # "AnalysisRunCompleted"

LEMMA LogAppended ==
  ASSUME log \in Seq(LogEvent), NEW e \in LogEvent, log' = Append(log, e)
  PROVE  /\ Len(log) \in Nat
         /\ log' \in Seq(LogEvent)
         /\ Len(log') = Len(log) + 1
         /\ \A i \in 1..Len(log) : log'[i] = log[i]
         /\ log'[Len(log) + 1] = e
BY AppendProperties, LenProperties

LEMMA OnceAppended ==
  ASSUME log \in Seq(LogEvent), AnalysedOnce, NEW e \in LogEvent, MayFollow(e),
         log' = Append(log, e)
  PROVE  AnalysedOnce'
<1> DEFINE n == Len(log)
<1>1. /\ n \in Nat
      /\ Len(log') = n + 1
      /\ \A i \in 1..n : log'[i] = log[i]
      /\ log'[n + 1] = e
  BY LogAppended
<1> SUFFICES ASSUME NEW i \in 1..Len(log'), NEW j \in 1..Len(log'), i < j,
                    log'[i].run.id = log'[j].run.id
             PROVE  /\ log'[j].type \in {"AnalysisRunStarted", "AnalysisRunSkipped"} =>
                         log'[i].type = "AnalysisRunFailed"
                    /\ log'[j].type = "AnalysisRunCompleted" =>
                         log'[i].type # "AnalysisRunCompleted"
  BY DEF AnalysedOnce
<1>2. i \in 1..n /\ log'[i] = log[i]
  BY <1>1
<1>3. CASE j \in 1..n
  BY <1>1, <1>2, <1>3 DEF AnalysedOnce
<1>4. CASE j = n + 1
  BY <1>1, <1>2, <1>4 DEF MayFollow
<1>5. QED BY <1>1, <1>3, <1>4

LEMMA MarkedAppended ==
  ASSUME log \in Seq(LogEvent), Marked, NEW e \in LogEvent, log' = Append(log, e),
         processed \subseteq processed',
         e.type = "AnalysisRunFailed" \/ e.run.id \in processed'
  PROVE  Marked'
<1>1. /\ Len(log) \in Nat
      /\ Len(log') = Len(log) + 1
      /\ \A i \in 1..Len(log) : log'[i] = log[i]
      /\ log'[Len(log) + 1] = e
  BY LogAppended
<1> SUFFICES ASSUME NEW i \in 1..Len(log')
             PROVE  log'[i].type = "AnalysisRunFailed" \/ log'[i].run.id \in processed'
  BY DEF Marked
<1>2. CASE i \in 1..Len(log)
  BY <1>1, <1>2 DEF Marked
<1>3. CASE i = Len(log) + 1
  BY <1>1, <1>3
<1>4. QED BY <1>1, <1>2, <1>3

\* An event that neither begins nor completes a run leaves the open run open.
LEMMA OpenAppended ==
  ASSUME log \in Seq(LogEvent), RunIsOpen, NEW e \in LogEvent, log' = Append(log, e),
         e.type # "AnalysisRunCompleted", run' = run, processed' = processed
  PROVE  RunIsOpen'
<1>1. /\ Len(log) \in Nat
      /\ Len(log') = Len(log) + 1
      /\ \A i \in 1..Len(log) : log'[i] = log[i]
      /\ log'[Len(log) + 1] = e
  BY LogAppended
<1> SUFFICES ASSUME run # NoRun, NEW i \in 1..Len(log'),
                    log'[i].type = "AnalysisRunCompleted"
             PROVE  log'[i].run.id # run.id
  BY DEF RunIsOpen
<1>2. i \in 1..Len(log)
  BY <1>1
<1>3. QED BY <1>1, <1>2 DEF RunIsOpen

LEMMA OnceInit == ASSUME Init PROVE OnceInv
<1>1. log = <<>> /\ Len(log) = 0 /\ run = NoRun /\ pos = 1 /\ failures = {}
  BY EmptySeq DEF Init
<1>2. LogType
  BY <1>1, EmptySeq DEF LogType
<1>3. Marked /\ RunIsOpen /\ AnalysedOnce
  BY <1>1 DEF Marked, RunIsOpen, AnalysedOnce
<1>4. QED BY <1>2, <1>3 DEF OnceInv

\* A step of a run's plan that announces something, or nothing.
LEMMA OnceWithinRun ==
  ASSUME OnceInv, AtStep, NEW type \in {"missing_dependency", "exception", "ArtifactEmitted"},
         \/ Emit(type, run, {Step})
         \/ UNCHANGED log,
         UNCHANGED <<reg, runs, run, processed>>
  PROVE  log' \in Seq(LogEvent) /\ Marked' /\ RunIsOpen' /\ AnalysedOnce'
<1> USE DEF OnceInv, LogType
<1>1. run \in runs /\ run # NoRun /\ run.id \in processed
  BY DEF AtStep, RunIsOpen
<1>2. LogEvent' = LogEvent
  BY DEF LogEvent, PlanSteps
<1>3. CASE UNCHANGED log
  BY <1>2, <1>3 DEF Marked, RunIsOpen, AnalysedOnce
<1>4. CASE Emit(type, run, {Step})
  <2> DEFINE e == Event(type, run, {Step})
  <2>1. Step \in PlanSteps
    BY DEF Step, PlanSteps
  <2>2. e \in LogEvent /\ e.type = type /\ e.run = run /\ log' = Append(log, e)
    BY <1>1, <1>4, <2>1 DEF Event, Emit, LogEvent, EventTypes
  <2>3. MayFollow(e)
    BY <2>2 DEF MayFollow
  <2> HIDE DEF e
  <2>4. log' \in Seq(LogEvent)
    BY <2>2, LogAppended
  <2>5. AnalysedOnce'
    BY <2>2, <2>3, OnceAppended
  <2>6. Marked'
    BY <1>1, <2>2, MarkedAppended
  <2>7. RunIsOpen'
    BY <2>2, OpenAppended
  <2>8. QED BY <2>4, <2>5, <2>6, <2>7
<1>5. QED BY <1>3, <1>4

LEMMA OnceStep == ASSUME OnceInv, [Next]_vars PROVE OnceInv'
<1> USE DEF OnceInv, LogType
<1>1. ASSUME UNCHANGED <<reg, runs, processed, run, pos, failures, log>> PROVE OnceInv'
  BY <1>1 DEF LogEvent, PlanSteps, Marked, RunIsOpen, AnalysedOnce
<1>2. CASE UNCHANGED vars
  BY <1>1, <1>2 DEF vars
<1>3. CASE StartUp
  BY <1>1, <1>3 DEF StartUp
<1>4. CASE Restart
  BY <1>1, <1>4 DEF Restart
<1>5. ASSUME NEW r \in runs, HaltSymbol(r) PROVE OnceInv'
  <2> DEFINE e == Event("AnalysisRunFailed", r, {})
  <2>1. e \in LogEvent /\ e.type = "AnalysisRunFailed" /\ log' = Append(log, e)
    BY <1>5 DEF HaltSymbol, Event, Emit, LogEvent, EventTypes
  <2>2. LogEvent' = LogEvent /\ UNCHANGED <<runs, processed, run, pos, failures>>
        /\ PlanSteps' = PlanSteps
    BY <1>5 DEF HaltSymbol, LogEvent, PlanSteps
  <2>3. MayFollow(e)
    BY <2>1 DEF MayFollow
  <2> HIDE DEF e
  <2>4. log' \in Seq(LogEvent) /\ AnalysedOnce'
    BY <2>1, <2>3, LogAppended, OnceAppended
  <2>5. Marked' /\ RunIsOpen'
    BY <2>1, <2>2, MarkedAppended, OpenAppended
  <2>6. QED BY <2>2, <2>4, <2>5
<1>6. ASSUME NEW r \in runs, NEW type \in {"AnalysisRunSkipped", "AnalysisRunStarted"},
             Unprocessed(r), Emit(type, r, {}), processed' = processed \cup {r.id},
             UNCHANGED <<reg, runs>>, run' \in {r, NoRun}, Idle
      PROVE  log' \in Seq(LogEvent) /\ AnalysedOnce' /\ Marked' /\ RunIsOpen'
             /\ LogEvent' = LogEvent
  <2> DEFINE e == Event(type, r, {})
  <2>1. e \in LogEvent /\ e.type = type /\ e.run = r /\ log' = Append(log, e)
    BY <1>6 DEF Event, Emit, LogEvent, EventTypes
  <2>2. LogEvent' = LogEvent
    BY <1>6 DEF LogEvent, PlanSteps
  <2>3. \A i \in 1..Len(log) : log[i].run.id = r.id => log[i].type = "AnalysisRunFailed"
    BY <1>6 DEF Unprocessed, Marked
  <2>4. MayFollow(e)
    BY <2>1, <2>3 DEF MayFollow
  <2> HIDE DEF e
  <2>5. log' \in Seq(LogEvent) /\ AnalysedOnce'
    BY <2>1, <2>4, LogAppended, OnceAppended
  <2>6. Marked'
    BY <1>6, <2>1, MarkedAppended
  <2>7. RunIsOpen'
    <3> SUFFICES ASSUME run' # NoRun
                 PROVE  /\ r.id \in processed'
                        /\ \A i \in 1..Len(log') :
                             log'[i].type = "AnalysisRunCompleted" => log'[i].run.id # r.id
      BY <1>6 DEF RunIsOpen
    <3>1. /\ Len(log) \in Nat
          /\ Len(log') = Len(log) + 1
          /\ \A i \in 1..Len(log) : log'[i] = log[i]
          /\ log'[Len(log) + 1] = e
      BY <2>1, LogAppended
    <3>2. ASSUME NEW i \in 1..Len(log'), log'[i].type = "AnalysisRunCompleted"
          PROVE  log'[i].run.id # r.id
      <4>1. i # Len(log) + 1
        BY <1>6, <2>1, <3>1, <3>2
      <4>2. i \in 1..Len(log) /\ log'[i] = log[i]
        BY <3>1, <4>1
      <4>3. QED BY <2>3, <3>2, <4>2
    <3>3. QED BY <1>6, <3>2
  <2>8. QED BY <2>2, <2>5, <2>6, <2>7
<1>7. ASSUME NEW r \in runs, Ignore(r) \/ Skip(r) \/ Begin(r) PROVE OnceInv'
  <2>1. CASE Ignore(r)
    BY <1>1, <2>1 DEF Ignore, vars
  <2>2. CASE Skip(r)
    <3>1. /\ Unprocessed(r) /\ Idle /\ Emit("AnalysisRunSkipped", r, {})
          /\ processed' = processed \cup {r.id}
          /\ UNCHANGED <<reg, runs, run, pos, failures>>
      BY <2>2 DEF Skip
    <3>2. run' = NoRun
      BY <3>1 DEF Idle
    <3>3. log' \in Seq(LogEvent') /\ AnalysedOnce' /\ Marked' /\ RunIsOpen'
      BY <1>6, <3>1, <3>2
    <3>4. PlanSteps' = PlanSteps
      BY <3>1 DEF PlanSteps
    <3>5. QED BY <3>1, <3>2, <3>3, <3>4
  <2>3. CASE Begin(r)
    <3>1. /\ Unprocessed(r) /\ Idle /\ Emit("AnalysisRunStarted", r, {})
          /\ processed' = processed \cup {r.id}
          /\ run' = r /\ pos' = 1 /\ failures' = {}
          /\ UNCHANGED <<reg, runs>>
      BY <2>3 DEF Begin, FirstStep
    <3>2. log' \in Seq(LogEvent') /\ AnalysedOnce' /\ Marked' /\ RunIsOpen'
      BY <1>6, <3>1
    <3>3. QED BY <3>1, <3>2
  <2>4. QED BY <1>7, <2>1, <2>2, <2>3
<1>8. CASE MissDependency \/ ModuleRaises
  <2>1. PICK type \in {"missing_dependency", "exception"} : AtStep /\ FailStep(type)
    BY <1>8 DEF MissDependency, ModuleRaises
  <2>2. Step \in PlanSteps
    BY DEF Step, PlanSteps
  <2>3. /\ Emit(type, run, {Step}) /\ failures' = failures \cup {Step} /\ pos' = pos + 1
        /\ UNCHANGED <<reg, runs, run, processed>>
    BY <2>1 DEF FailStep
  <2>4. log' \in Seq(LogEvent) /\ Marked' /\ RunIsOpen' /\ AnalysedOnce'
    BY <2>1, <2>3, OnceWithinRun
  <2>5. PlanSteps' = PlanSteps /\ LogEvent' = LogEvent
    BY <2>3 DEF PlanSteps, LogEvent
  <2>6. QED BY <2>2, <2>3, <2>4, <2>5
<1>9. ASSUME NEW artifact \in BOOLEAN, NEW state \in BOOLEAN, ModuleReturns(artifact, state)
      PROVE  OnceInv'
  <2>1. /\ AtStep
        /\ Emit("ArtifactEmitted", run, {Step}) \/ UNCHANGED log
        /\ pos' = pos + 1
        /\ UNCHANGED <<reg, runs, run, processed, failures>>
    BY <1>9 DEF ModuleReturns
  <2>2. log' \in Seq(LogEvent) /\ Marked' /\ RunIsOpen' /\ AnalysedOnce'
    BY <1>9, <2>1, OnceWithinRun DEF ModuleReturns
  <2>3. PlanSteps' = PlanSteps /\ LogEvent' = LogEvent
    BY <2>1 DEF PlanSteps, LogEvent
  <2>4. QED BY <2>1, <2>2, <2>3
<1>10. CASE Complete
  <2> DEFINE e == Event("AnalysisRunCompleted", run, failures)
  <2>1. run \in runs /\ run.id \in processed
    BY <1>10 DEF Complete, RunIsOpen
  <2>2. e \in LogEvent /\ e.type = "AnalysisRunCompleted" /\ e.run = run /\ log' = Append(log, e)
    BY <1>10, <2>1 DEF Complete, Event, Emit, LogEvent, EventTypes
  <2>3. MayFollow(e)
    BY <1>10, <2>2 DEF MayFollow, RunIsOpen, Complete
  <2> HIDE DEF e
  <2>4. log' \in Seq(LogEvent) /\ AnalysedOnce'
    BY <2>2, <2>3, LogAppended, OnceAppended
  <2>5. Marked'
    BY <1>10, <2>1, <2>2, MarkedAppended DEF Complete
  <2>6. RunIsOpen'
    BY <1>10 DEF Complete, RunIsOpen
  <2>7. run' = NoRun /\ pos' = 1 /\ failures' = {} /\ UNCHANGED <<reg, runs>>
    BY <1>10 DEF Complete, FirstStep
  <2>8. LogEvent' = LogEvent
    BY <2>7 DEF LogEvent, PlanSteps
  <2>9. QED BY <2>4, <2>5, <2>6, <2>7, <2>8
<1>11. QED BY <1>2, <1>3, <1>4, <1>5, <1>7, <1>8, <1>9, <1>10 DEF Next

\* Whatever the gate delivers again, to this engine or to one that replaces it,
\* a run is analysed or skipped at most once and completed at most once.
THEOREM RunsAnalysedOnce == Spec => []AnalysedOnce
<1>1. Init => OnceInv BY OnceInit
<1>2. OnceInv /\ [Next]_vars => OnceInv' BY OnceStep
<1>3. OnceInv => AnalysedOnce BY DEF OnceInv
<1>4. QED BY <1>1, <1>2, <1>3, PTL DEF Spec

----
\* What a plan is, for every registry
\*
\* The order of a stage is computed by a recursive function.  That there is such
\* a function, and what it returns, goes by induction over how many modules are
\* left, stated of sets of naturals so that it is a fact like any other.

(* Every set of naturals that is not empty has a least element. *)
LEMMA LeastNat ==
  ASSUME NEW S \in SUBSET Nat, S # {}
  PROVE  \E n \in S : \A m \in S : n <= m
<1>. DEFINE R == {p \in Nat \X Nat : p[1] < p[2]}
<1>1. OpToRel(<, Nat) = R  BY DEF OpToRel
<1>2. IsWellFoundedOn(OpToRel(<, Nat), Nat)  BY NatLessThanWellFounded
<1>3. IsWellFoundedOn(R, Nat)  BY <1>1, <1>2
<1>4. \A m, n \in Nat : <<m, n>> \in R <=> m < n  OBVIOUS
<1>. HIDE DEF R
<1>5. PICK n \in S : \A m \in S : ~(<<m, n>> \in R)  BY <1>3, WFMin
<1>6. \A m \in S : n <= m
  <2>. SUFFICES ASSUME NEW m \in S PROVE n <= m  OBVIOUS
  <2>1. m \in Nat /\ n \in Nat  OBVIOUS
  <2>2. ~(m < n)  BY <1>4, <1>5, <2>1
  <2>. QED  BY <2>1, <2>2
<1>. QED  BY <1>6

(* A set that has 0, and with every natural the next one, has all of them. *)
LEMMA NatSetInduction ==
  ASSUME NEW S, 0 \in S, \A n \in Nat : n \in S => n + 1 \in S
  PROVE  Nat \subseteq S
<1>. SUFFICES ASSUME Nat \ S # {}  PROVE FALSE  OBVIOUS
<1>1. PICK n \in Nat \ S : \A m \in Nat \ S : n <= m  BY LeastNat
<1>2. n # 0 /\ n - 1 \in Nat /\ n - 1 \in S  BY <1>1
<1>. QED  BY <1>1, <1>2

ReadyAt(registry, g, done) ==
  {m \in OfStage(registry, g) \ done : registry.deps[m] \cap OfStage(registry, g) \subseteq done}

\* What comes after `done` in the order of stage g, if F gives what comes after more.
After(F, registry, g, done) ==
  IF ReadyAt(registry, g, done) = {} THEN <<>>
  ELSE <<First(ReadyAt(registry, g, done))>> \o F[done \cup {First(ReadyAt(registry, g, done))}]

IsOrder(F, registry, g) ==
  F = [done \in SUBSET OfStage(registry, g) |-> After(F, registry, g, done)]

LEMMA FirstIsLeast ==
  ASSUME NEW S \in SUBSET Nat, S # {}
  PROVE  First(S) \in S /\ \A n \in S : First(S) <= n
<1>1. \E m \in S : \A n \in S : m <= n
  BY LeastNat
<1>2. QED BY <1>1 DEF First

LEMMA StageIsFinite ==
  ASSUME NEW registry \in Registry, NEW g
  PROVE  /\ OfStage(registry, g) \subseteq registry.enabled
         /\ OfStage(registry, g) \subseteq Module /\ Module \subseteq Nat
         /\ \A T \in SUBSET Module : IsFiniteSet(T) /\ Cardinality(T) \in Nat
<1>1. registry.enabled \subseteq Module /\ Module \subseteq Nat
  BY NModulesAssumption DEF Registry, Module
<1>2. IsFiniteSet(Module)
  BY NModulesAssumption, FS_Interval DEF Module
<1>3. QED BY <1>1, <1>2, FS_Subset, FS_CardinalityType DEF OfStage

LEMMA ReadyAdvances ==
  ASSUME NEW registry \in Registry, NEW g, NEW done \in SUBSET OfStage(registry, g),
         ReadyAt(registry, g, done) # {}
  PROVE  LET S == OfStage(registry, g)
             x == First(ReadyAt(registry, g, done))
         IN  /\ x \in S \ done /\ x \in ReadyAt(registry, g, done)
             /\ \A y \in ReadyAt(registry, g, done) : x <= y
             /\ done \cup {x} \in SUBSET S
             /\ S \ (done \cup {x}) = (S \ done) \ {x}
             /\ Cardinality(S \ (done \cup {x})) = Cardinality(S \ done) - 1
<1> DEFINE S == OfStage(registry, g)
           R == ReadyAt(registry, g, done)
           x == First(R)
<1>1. R \subseteq S \ done /\ S \subseteq Nat /\ IsFiniteSet(S \ done)
  BY StageIsFinite DEF ReadyAt
<1>2. x \in R /\ \A y \in R : x <= y
  BY <1>1, FirstIsLeast
<1> HIDE DEF x
<1>3. x \in S \ done /\ S \ (done \cup {x}) = (S \ done) \ {x}
  BY <1>1, <1>2
<1>4. Cardinality((S \ done) \ {x}) = Cardinality(S \ done) - 1
  BY <1>1, <1>3, FS_RemoveElement
<1>5. QED BY <1>2, <1>3, <1>4 DEF x

\* The recursion of _order_stage is well defined: it ends, because every step
\* leaves fewer modules.
LEMMA OrderExists ==
  ASSUME NEW registry \in Registry, NEW g
  PROVE  \E F : IsOrder(F, registry, g)
<1> DEFINE S == OfStage(registry, g)
           UpTo(F, n) == \A done \in SUBSET S :
             Cardinality(S \ done) <= n => F[done] = After(F, registry, g, done)
           P == {n \in Nat : \E F : UpTo(F, n)}
<1>1. \A T \in SUBSET S : IsFiniteSet(S \ T) /\ Cardinality(S \ T) \in Nat
  BY StageIsFinite
<1>2. 0 \in P
  <2> DEFINE F == [done \in SUBSET S |-> <<>>]
  <2>1. ASSUME NEW done \in SUBSET S, Cardinality(S \ done) <= 0
        PROVE  F[done] = After(F, registry, g, done)
    <3>1. S \ done = {}
      BY <1>1, <2>1, FS_EmptySet
    <3>2. ReadyAt(registry, g, done) = {}
      BY <3>1 DEF ReadyAt
    <3>3. QED BY <3>2 DEF After
  <2>2. UpTo(F, 0)
    BY <2>1
  <2>3. QED BY <2>2
<1>3. ASSUME NEW n \in Nat, n \in P PROVE n + 1 \in P
  <2>1. PICK F : UpTo(F, n)
    BY <1>3
  <2> DEFINE G == [done \in SUBSET S |-> After(F, registry, g, done)]
  <2>2. ASSUME NEW done \in SUBSET S, Cardinality(S \ done) <= n + 1
        PROVE  G[done] = After(G, registry, g, done)
    <3> DEFINE R == ReadyAt(registry, g, done)
               x == First(R)
    <3>1. CASE R = {}
      BY <3>1 DEF After
    <3>2. CASE R # {}
      <4>1. /\ done \cup {x} \in SUBSET S
            /\ Cardinality(S \ (done \cup {x})) = Cardinality(S \ done) - 1
        BY <3>2, ReadyAdvances
      <4>2. Cardinality(S \ (done \cup {x})) <= n
        BY <1>1, <2>2, <4>1
      <4>3. F[done \cup {x}] = After(F, registry, g, done \cup {x})
        BY <2>1, <4>1, <4>2
      <4>4. G[done \cup {x}] = F[done \cup {x}]
        BY <4>1, <4>3
      <4>5. G[done] = After(F, registry, g, done)
        OBVIOUS
      <4> HIDE DEF G
      <4>6. QED BY <3>2, <4>4, <4>5 DEF After
    <3>3. QED BY <3>1, <3>2
  <2> HIDE DEF G
  <2>3. UpTo(G, n + 1)
    BY <2>2
  <2> HIDE DEF UpTo
  <2>4. \E H : UpTo(H, n + 1)
    BY <2>3
  <2>5. QED BY <2>4
<1>4. Nat \subseteq P
  <2> HIDE DEF P
  <2>1. QED BY <1>2, <1>3, NatSetInduction
<1>5. PICK F : UpTo(F, Cardinality(S))
  <2>1. Cardinality(S) \in Nat
    BY StageIsFinite
  <2>2. QED BY <1>4, <2>1
<1> DEFINE G == [done \in SUBSET S |-> After(F, registry, g, done)]
<1>6. ASSUME NEW done \in SUBSET S PROVE F[done] = After(F, registry, g, done)
  <2>1. Cardinality(S \ done) <= Cardinality(S)
    BY StageIsFinite, FS_Subset
  <2>2. QED BY <1>5, <2>1
<1>7. ASSUME NEW done \in SUBSET S PROVE After(G, registry, g, done) = After(F, registry, g, done)
  <2> DEFINE x == First(ReadyAt(registry, g, done))
  <2>1. CASE ReadyAt(registry, g, done) = {}
    BY <2>1 DEF After
  <2>2. CASE ReadyAt(registry, g, done) # {}
    <3>1. done \cup {x} \in SUBSET S
      BY <2>2, ReadyAdvances
    <3>2. G[done \cup {x}] = F[done \cup {x}]
      BY <1>6, <3>1
    <3> HIDE DEF G
    <3>3. QED BY <3>2 DEF After
  <2>3. QED BY <2>1, <2>2
<1>8. IsOrder(G, registry, g)
  BY <1>7 DEF IsOrder
<1>9. QED BY <1>8

LEMMA StageOrderUnfolds ==
  ASSUME NEW registry \in Registry, NEW g
  PROVE  \E F : IsOrder(F, registry, g) /\ StageOrder(registry, g) = F[{}]
<1> DEFINE F == CHOOSE F : IsOrder(F, registry, g)
<1>1. IsOrder(F, registry, g)
  BY OrderExists
<1>2. StageOrder(registry, g) = F[{}]
  BY DEF StageOrder, IsOrder, After, ReadyAt
<1> HIDE DEF F
<1>3. QED BY <1>1, <1>2

\* p is an order of the modules of M: each once, stages in order, dependencies
\* first, and by id but for dependencies within the stage that come in between.
Ordered(registry, p, M) ==
  /\ p \in Seq(Module)
  /\ Len(p) = Cardinality(M)
  /\ {p[i] : i \in 1..Len(p)} = M
  /\ \A i, j \in 1..Len(p) : i < j =>
       /\ registry.stage[p[i]] <= registry.stage[p[j]]
       /\ p[j] \notin registry.deps[p[i]]
       /\ registry.stage[p[i]] = registry.stage[p[j]] /\ p[i] > p[j] =>
            \E k \in i..(j - 1) : p[k] \in registry.deps[p[j]]

\* A module that is ready may come before the rest of its stage.
LEMMA Prepended ==
  ASSUME NEW registry \in Registry, NEW M \in SUBSET Module, NEW x \in M, NEW p,
         Ordered(registry, p, M \ {x}),
         NEW g \in Stage, \A y \in M : registry.stage[y] = g,
         \A y \in M : y \notin registry.deps[x] /\ y \notin registry.deps[y],
         \A y \in M : y < x => \E d \in M : d \in registry.deps[y]
  PROVE  Ordered(registry, <<x>> \o p, M)
<1> DEFINE q == <<x>> \o p
<1>1. /\ p \in Seq(Module) /\ <<x>> \in Seq(Module)
      /\ Len(p) \in Nat /\ Len(<<x>>) = 1 /\ <<x>>[1] = x
  BY LenProperties DEF Ordered
<1>2. /\ q \in Seq(Module)
      /\ Len(q) = 1 + Len(p)
      /\ \A i \in 1..1 + Len(p) : q[i] = IF i <= 1 THEN <<x>>[i] ELSE p[i - 1]
  BY <1>1, ConcatProperties
<1> HIDE DEF q
<1>3. q[1] = x /\ \A i \in 1..Len(q) : i # 1 => i - 1 \in 1..Len(p) /\ q[i] = p[i - 1]
  BY <1>1, <1>2
<1>4. {p[i] : i \in 1..Len(p)} = M \ {x} /\ Len(p) = Cardinality(M \ {x})
  BY DEF Ordered
<1>4a. \A i, j \in 1..Len(p) : i < j =>
         /\ p[j] \notin registry.deps[p[i]]
         /\ registry.stage[p[i]] = registry.stage[p[j]] /\ p[i] > p[j] =>
              \E k \in i..(j - 1) : p[k] \in registry.deps[p[j]]
  BY DEF Ordered
<1>4b. Module \subseteq Nat
  BY StageIsFinite
<1>5. Len(q) = Cardinality(M)
  <2>1. IsFiniteSet(M) /\ Cardinality(M) \in Nat
    BY StageIsFinite
  <2>2. Cardinality(M \ {x}) = Cardinality(M) - 1
    BY <2>1, FS_RemoveElement
  <2>3. QED BY <1>2, <1>4, <2>1, <2>2
<1>6. \A i \in 1..Len(q) : q[i] \in M
  <2>1. SUFFICES ASSUME NEW i \in 1..Len(q) PROVE q[i] \in M
    OBVIOUS
  <2>2. CASE i = 1
    BY <1>3, <2>2
  <2>3. CASE i # 1
    <3>1. q[i] \in {p[k] : k \in 1..Len(p)}
      BY <1>3, <2>3
    <3>2. QED BY <1>4, <3>1
  <2>4. QED BY <2>2, <2>3
<1>7. \A y \in M : \E i \in 1..Len(q) : q[i] = y
  <2>1. SUFFICES ASSUME NEW y \in M PROVE \E i \in 1..Len(q) : q[i] = y
    OBVIOUS
  <2>2. CASE y = x
    <3>1. 1 \in 1..Len(q)
      BY <1>1, <1>2
    <3>2. QED BY <1>3, <2>2, <3>1
  <2>3. CASE y # x
    <3>0. y \in {p[k] : k \in 1..Len(p)}
      BY <1>4, <2>3
    <3>1. PICK k \in 1..Len(p) : p[k] = y
      BY <3>0
    <3>2. k + 1 \in 1..Len(q) /\ k + 1 # 1 /\ (k + 1) - 1 = k
      BY <1>1, <1>2
    <3>3. q[k + 1] = y
      BY <1>3, <3>1, <3>2
    <3>4. QED BY <3>2, <3>3
  <2>4. QED BY <2>2, <2>3
<1>8. {q[i] : i \in 1..Len(q)} = M
  BY <1>6, <1>7
<1>9. ASSUME NEW i \in 1..Len(q), NEW j \in 1..Len(q), i < j
      PROVE  q[j] \notin registry.deps[q[i]]
  <2>1. CASE i = 1
    BY <1>3, <1>6, <2>1
  <2>2. CASE i # 1
    <3>1. /\ i - 1 \in 1..Len(p) /\ j - 1 \in 1..Len(p) /\ i - 1 < j - 1
          /\ q[i] = p[i - 1] /\ q[j] = p[j - 1]
      BY <1>1, <1>2, <1>3, <1>9, <2>2
    <3>2. QED BY <1>4a, <3>1
  <2>3. QED BY <2>1, <2>2
<1>10. ASSUME NEW i \in 1..Len(q), NEW j \in 1..Len(q), i < j, q[i] > q[j]
       PROVE  \E k \in i..(j - 1) : q[k] \in registry.deps[q[j]]
  <2>1. CASE i = 1
    <3>1. q[j] \in M /\ q[j] < x
      <4>1. q[j] \in M /\ q[j] \in Nat /\ x \in Nat
        BY <1>6, <1>4b
      <4>2. QED BY <1>3, <1>10, <2>1, <4>1
    <3>2. PICK d \in M : d \in registry.deps[q[j]]
      BY <3>1
    <3>3. PICK k \in 1..Len(q) : q[k] = d
      BY <1>7
    <3>4. ~(j < k)
      BY <1>9, <3>2, <3>3
    <3>5. k # j
      BY <1>6, <3>2, <3>3
    <3>6. k \in i..(j - 1)
      BY <1>1, <1>2, <2>1, <3>4, <3>5
    <3>7. QED BY <3>2, <3>3, <3>6
  <2>2. CASE i # 1
    <3>1. /\ i - 1 \in 1..Len(p) /\ j - 1 \in 1..Len(p) /\ i - 1 < j - 1
          /\ q[i] = p[i - 1] /\ q[j] = p[j - 1]
      BY <1>1, <1>2, <1>3, <1>10, <2>2
    <3>2. registry.stage[p[i - 1]] = registry.stage[p[j - 1]]
      BY <1>6, <3>1
    <3>3. PICK k \in (i - 1)..((j - 1) - 1) : p[k] \in registry.deps[p[j - 1]]
      BY <1>10, <1>4a, <3>1, <3>2
    <3>4. k + 1 \in i..(j - 1) /\ k + 1 \in 1..Len(q) /\ k + 1 # 1 /\ (k + 1) - 1 = k
      BY <1>1, <1>2, <2>2
    <3>5. q[k + 1] = p[k]
      BY <1>3, <3>4
    <3>6. QED BY <3>1, <3>3, <3>4, <3>5
  <2>3. QED BY <2>1, <2>2
<1>11. \A i \in 1..Len(q) : registry.stage[q[i]] = g /\ g <= g
  BY <1>6 DEF Stage
<1>12. Ordered(registry, q, M)
  BY <1>2, <1>5, <1>8, <1>9, <1>10, <1>11 DEF Ordered
<1>13. QED BY <1>12 DEF q

\* Modules that depend on nothing in a set of modules that is not empty.
LEMMA AcyclicIsIrreflexive ==
  ASSUME NEW registry \in Registry, Acyclic(registry), NEW m \in registry.enabled
  PROVE  m \notin registry.deps[m]
<1>1. {m} \in (SUBSET registry.enabled) \ {{}}
  OBVIOUS
<1>2. registry.deps[m] \cap {m} = {}
  BY <1>1 DEF Acyclic
<1>3. QED BY <1>2

\* Every stage of an accepted registry is ordered without getting stuck.
LEMMA StageIsOrdered ==
  ASSUME NEW registry \in Registry, Accepted(registry), NEW g \in Stage
  PROVE  Ordered(registry, StageOrder(registry, g), OfStage(registry, g))
<1> DEFINE S == OfStage(registry, g)
<1>1. PICK F : IsOrder(F, registry, g) /\ StageOrder(registry, g) = F[{}]
  BY StageOrderUnfolds
<1>2. \A done \in SUBSET S : F[done] = After(F, registry, g, done)
  BY <1>1 DEF IsOrder
<1> DEFINE P == {n \in Nat : \A done \in SUBSET S :
                   Cardinality(S \ done) = n => Ordered(registry, F[done], S \ done)}
<1>3. /\ S \subseteq registry.enabled /\ S \subseteq Module /\ Module \subseteq Nat
      /\ \A T \in SUBSET S : IsFiniteSet(S \ T) /\ Cardinality(S \ T) \in Nat
  BY StageIsFinite
<1>4. 0 \in P
  <2>1. ASSUME NEW done \in SUBSET S, Cardinality(S \ done) = 0
        PROVE  Ordered(registry, F[done], S \ done)
    <3>1. S \ done = {}
      BY <1>3, <2>1, FS_EmptySet
    <3>2. ReadyAt(registry, g, done) = {}
      BY <3>1 DEF ReadyAt
    <3>3. F[done] = <<>>
      BY <1>2, <3>2 DEF After
    <3>4. <<>> \in Seq(Module) /\ Len(<<>>) = 0
      BY EmptySeq
    <3>5. QED BY <2>1, <3>1, <3>3, <3>4 DEF Ordered
  <2>2. QED BY <2>1
<1>5. ASSUME NEW n \in Nat, n \in P PROVE n + 1 \in P
  <2>1. ASSUME NEW done \in SUBSET S, Cardinality(S \ done) = n + 1
        PROVE  Ordered(registry, F[done], S \ done)
    <3> DEFINE M == S \ done
               R == ReadyAt(registry, g, done)
               x == First(R)
    <3>1. M # {}
      BY <2>1, FS_EmptySet
    <3>2. R # {}
      <4>1. M \in (SUBSET registry.enabled) \ {{}}
        BY <1>3, <3>1
      <4>2. PICK m \in M : registry.deps[m] \cap M = {}
        BY <4>1 DEF Accepted, Acyclic
      <4>3. m \in R
        BY <4>2 DEF ReadyAt
      <4>4. QED BY <4>3
    <3>3. /\ x \in M /\ x \in R /\ \A y \in R : x <= y
          /\ done \cup {x} \in SUBSET S
          /\ S \ (done \cup {x}) = M \ {x}
          /\ Cardinality(S \ (done \cup {x})) = Cardinality(M) - 1
      BY <3>2, ReadyAdvances
    <3>4. Cardinality(S \ (done \cup {x})) = n
      BY <2>1, <3>3
    <3>5. Ordered(registry, F[done \cup {x}], M \ {x})
      BY <1>5, <3>3, <3>4
    <3>6. F[done] = <<x>> \o F[done \cup {x}]
      BY <1>2, <3>2 DEF After
    <3>7. \A y \in M : y \notin registry.deps[x] /\ y \notin registry.deps[y]
      BY <1>3, <3>3, AcyclicIsIrreflexive DEF ReadyAt, Accepted
    <3>8. ASSUME NEW y \in M, y < x PROVE \E d \in M : d \in registry.deps[y]
      <4>1. y \notin R
        <5>1. y \in Nat /\ x \in Nat
          BY <1>3, <3>3
        <5>2. QED BY <3>3, <3>8, <5>1
      <4>2. QED BY <4>1 DEF ReadyAt
    <3>9. \A y \in M : registry.stage[y] = g
      BY DEF OfStage
    <3>10. M \in SUBSET Module
      BY <1>3
    <3> HIDE DEF M, x, R
    <3>11. Ordered(registry, <<x>> \o F[done \cup {x}], M)
      BY <3>3, <3>5, <3>7, <3>8, <3>9, <3>10, Prepended
    <3>12. QED BY <3>6, <3>11 DEF M
  <2>2. QED BY <2>1
<1>6. Nat \subseteq P
  <2> HIDE DEF P
  <2>1. QED BY <1>4, <1>5, NatSetInduction
<1>7. Cardinality(S) \in Nat /\ {} \in SUBSET S /\ S \ {} = S
  BY <1>3, StageIsFinite
<1>8. Ordered(registry, F[{}], S)
  BY <1>6, <1>7
<1>9. QED BY <1>1, <1>8

\* One order after another orders the modules of both, if those of the second
\* belong to later stages and the first's depend on none of them.
LEMMA Joined ==
  ASSUME NEW registry \in Registry, NEW M \in SUBSET Module, NEW N \in SUBSET Module,
         NEW p, NEW q, Ordered(registry, p, M), Ordered(registry, q, N),
         M \cap N = {},
         \A x \in M, y \in N : registry.stage[x] < registry.stage[y] /\ y \notin registry.deps[x]
  PROVE  Ordered(registry, p \o q, M \cup N)
<1> DEFINE r == p \o q
<1>1. /\ p \in Seq(Module) /\ q \in Seq(Module)
      /\ Len(p) \in Nat /\ Len(q) \in Nat
      /\ Len(p) = Cardinality(M) /\ Len(q) = Cardinality(N)
      /\ {p[i] : i \in 1..Len(p)} = M /\ {q[i] : i \in 1..Len(q)} = N
  BY LenProperties DEF Ordered
<1>2. /\ r \in Seq(Module)
      /\ Len(r) = Len(p) + Len(q)
      /\ \A i \in 1..Len(p) + Len(q) : r[i] = IF i <= Len(p) THEN p[i] ELSE q[i - Len(p)]
  BY <1>1, ConcatProperties
<1> HIDE DEF r
<1>3. \A i \in 1..Len(r) : i <= Len(p) => i \in 1..Len(p) /\ r[i] = p[i] /\ r[i] \in M
  BY <1>1, <1>2
<1>4. \A i \in 1..Len(r) : i > Len(p) =>
        i - Len(p) \in 1..Len(q) /\ r[i] = q[i - Len(p)] /\ r[i] \in N
  BY <1>1, <1>2
<1>5. Len(r) = Cardinality(M \cup N)
  <2>1. IsFiniteSet(M) /\ IsFiniteSet(N)
    BY StageIsFinite
  <2>2. Cardinality(M \cup N) = Cardinality(M) + Cardinality(N) - Cardinality(M \cap N)
    BY <2>1, FS_Union
  <2>3. Cardinality(M \cap N) = 0
    BY FS_EmptySet
  <2>4. QED BY <1>1, <1>2, <2>2, <2>3
<1>6. {r[i] : i \in 1..Len(r)} = M \cup N
  <2>1. ASSUME NEW i \in 1..Len(r) PROVE r[i] \in M \cup N
    BY <1>1, <1>2, <1>3, <1>4
  <2>2. ASSUME NEW y \in M PROVE \E i \in 1..Len(r) : r[i] = y
    <3>1. y \in {p[i] : i \in 1..Len(p)}
      BY <1>1
    <3>2. PICK i \in 1..Len(p) : p[i] = y
      BY <3>1
    <3>3. QED BY <1>1, <1>2, <3>2
  <2>3. ASSUME NEW y \in N PROVE \E i \in 1..Len(r) : r[i] = y
    <3>1. y \in {q[i] : i \in 1..Len(q)}
      BY <1>1
    <3>2. PICK i \in 1..Len(q) : q[i] = y
      BY <3>1
    <3>3. /\ i + Len(p) \in 1..Len(r) /\ i + Len(p) > Len(p)
          /\ i + Len(p) - Len(p) = i
      BY <1>1, <1>2
    <3>4. r[i + Len(p)] = q[i]
      BY <1>1, <1>4, <3>3
    <3>5. QED BY <3>2, <3>3, <3>4
  <2>4. QED BY <2>1, <2>2, <2>3
<1>7. ASSUME NEW i \in 1..Len(r), NEW j \in 1..Len(r), i < j
      PROVE  /\ registry.stage[r[i]] <= registry.stage[r[j]]
             /\ r[j] \notin registry.deps[r[i]]
             /\ registry.stage[r[i]] = registry.stage[r[j]] /\ r[i] > r[j] =>
                  \E k \in i..(j - 1) : r[k] \in registry.deps[r[j]]
  <2>1. CASE j <= Len(p)
    <3>1. /\ i \in 1..Len(p) /\ j \in 1..Len(p) /\ r[i] = p[i] /\ r[j] = p[j]
      BY <1>1, <1>2, <1>3, <1>7, <2>1
    <3>2. /\ registry.stage[p[i]] <= registry.stage[p[j]]
          /\ p[j] \notin registry.deps[p[i]]
          /\ registry.stage[p[i]] = registry.stage[p[j]] /\ p[i] > p[j] =>
               \E k \in i..(j - 1) : p[k] \in registry.deps[p[j]]
      BY <1>7, <3>1 DEF Ordered
    <3>3. \A k \in i..(j - 1) : r[k] = p[k]
      BY <1>1, <1>2, <1>3, <3>1
    <3>4. QED BY <3>1, <3>2, <3>3
  <2>2. CASE i > Len(p)
    <3> DEFINE a == i - Len(p)
               b == j - Len(p)
    <3>1. /\ a \in 1..Len(q) /\ b \in 1..Len(q) /\ r[i] = q[a] /\ r[j] = q[b] /\ a < b
      BY <1>1, <1>2, <1>4, <1>7, <2>2
    <3>1a. \A k \in a..(b - 1) : k + Len(p) \in i..(j - 1)
      BY <1>1, <1>2, <1>7, <2>2
    <3>1b. \A k \in a..(b - 1) : r[k + Len(p)] = q[k]
      <4>1. ASSUME NEW k \in a..(b - 1) PROVE r[k + Len(p)] = q[k]
        <5>1. k \in Int /\ k >= 1 /\ k <= Len(q)
          BY <1>1, <1>2, <3>1
        <5>2. /\ k + Len(p) \in 1..Len(r) /\ k + Len(p) > Len(p)
              /\ k + Len(p) - Len(p) = k
          BY <1>1, <1>2, <5>1
        <5>3. r[k + Len(p)] = q[k + Len(p) - Len(p)]
          BY <1>4, <5>2
        <5>4. QED BY <5>2, <5>3
      <4>2. QED BY <4>1
    <3> HIDE DEF a, b
    <3>2. /\ registry.stage[q[a]] <= registry.stage[q[b]]
          /\ q[b] \notin registry.deps[q[a]]
          /\ registry.stage[q[a]] = registry.stage[q[b]] /\ q[a] > q[b] =>
               \E k \in a..(b - 1) : q[k] \in registry.deps[q[b]]
      BY <3>1 DEF Ordered
    <3>3. ASSUME registry.stage[r[i]] = registry.stage[r[j]], r[i] > r[j]
          PROVE  \E k \in i..(j - 1) : r[k] \in registry.deps[r[j]]
      <4>1. PICK k \in a..(b - 1) : q[k] \in registry.deps[q[b]]
        BY <3>1, <3>2, <3>3
      <4>2. k + Len(p) \in i..(j - 1) /\ r[k + Len(p)] \in registry.deps[r[j]]
        BY <3>1, <3>1a, <3>1b, <4>1
      <4>3. QED BY <4>2
    <3>4. QED BY <3>1, <3>2, <3>3
  <2>3. CASE i <= Len(p) /\ j > Len(p)
    <3>1. r[i] \in M /\ r[j] \in N
      BY <1>3, <1>4, <2>3
    <3>2. registry.stage[r[i]] < registry.stage[r[j]] /\ r[j] \notin registry.deps[r[i]]
      BY <3>1
    <3>3. registry.stage[r[i]] \in Int /\ registry.stage[r[j]] \in Int
      BY <3>1 DEF Registry, Stage
    <3>4. QED BY <3>2, <3>3
  <2>4. QED BY <1>1, <1>2, <1>7, <2>1, <2>2, <2>3
<1>8. Ordered(registry, r, M \cup N)
  BY <1>2, <1>5, <1>6, <1>7 DEF Ordered
<1>9. QED BY <1>8 DEF r

\* The plan of a registry that was accepted orders its enabled modules.
LEMMA PlanIsOrdered ==
  ASSUME NEW registry \in Registry, Accepted(registry)
  PROVE  Ordered(registry, Plan(registry), registry.enabled)
<1> DEFINE S(g) == OfStage(registry, g)
<1>1. /\ registry.enabled \subseteq Module /\ \A m \in Module : registry.stage[m] \in 1..4
      /\ 1 \in Stage /\ 2 \in Stage /\ 3 \in Stage /\ 4 \in Stage
  BY DEF Registry, Stage
<1>2. \A g \in Stage : Ordered(registry, StageOrder(registry, g), S(g)) /\ S(g) \subseteq Module
  BY <1>1, StageIsOrdered DEF OfStage
<1>3. \A g, h \in Stage : g < h =>
        /\ S(g) \cap S(h) = {}
        /\ \A x \in S(g), y \in S(h) :
             registry.stage[x] < registry.stage[y] /\ y \notin registry.deps[x]
  BY <1>1 DEF OfStage, Accepted, StagesRespected, Stage
<1> HIDE DEF S
<1>4. Ordered(registry, StageOrder(registry, 1) \o StageOrder(registry, 2), S(1) \cup S(2))
  <2>1. /\ S(1) \cap S(2) = {}
        /\ \A x \in S(1), y \in S(2) :
             registry.stage[x] < registry.stage[y] /\ y \notin registry.deps[x]
    BY <1>1, <1>3
  <2>2. QED BY <1>1, <1>2, <2>1, Joined
<1>5. Ordered(registry,
              StageOrder(registry, 1) \o StageOrder(registry, 2) \o StageOrder(registry, 3),
              S(1) \cup S(2) \cup S(3))
  <2>1. /\ (S(1) \cup S(2)) \cap S(3) = {}
        /\ \A x \in S(1) \cup S(2), y \in S(3) :
             registry.stage[x] < registry.stage[y] /\ y \notin registry.deps[x]
    BY <1>1, <1>3
  <2>2. S(1) \cup S(2) \subseteq Module /\ S(3) \subseteq Module
    BY <1>1, <1>2
  <2>3. QED BY <1>1, <1>2, <1>4, <2>1, <2>2, Joined
<1>6. Ordered(registry, Plan(registry), S(1) \cup S(2) \cup S(3) \cup S(4))
  <2>1. /\ (S(1) \cup S(2) \cup S(3)) \cap S(4) = {}
        /\ \A x \in S(1) \cup S(2) \cup S(3), y \in S(4) :
             registry.stage[x] < registry.stage[y] /\ y \notin registry.deps[x]
    BY <1>1, <1>3
  <2>2. S(1) \cup S(2) \cup S(3) \subseteq Module /\ S(4) \subseteq Module
    BY <1>1, <1>2
  <2>3. QED BY <1>1, <1>2, <1>5, <2>1, <2>2, Joined DEF Plan
<1>7. S(1) \cup S(2) \cup S(3) \cup S(4) = registry.enabled
  BY <1>1 DEF S, OfStage
<1>8. QED BY <1>6, <1>7

\* The plan of a registry that the engine is up with.
RegistryInv == reg \in Registry /\ (phase = "up" => Accepted(reg))

LEMMA RegistryIsAccepted == Spec => []RegistryInv
<1>1. Init => RegistryInv
  BY AnalysisEngineAssumption DEF Init, RegistryInv
<1>2. ASSUME RegistryInv, [Next]_vars  PROVE RegistryInv'
  <2>1. CASE StartUp
    BY <1>2, <2>1 DEF RegistryInv, StartUp
  <2>2. CASE Restart
    BY <1>2, <2>2 DEF RegistryInv, Restart
  <2>3. CASE UNCHANGED <<reg, phase>>
    BY <1>2, <2>3 DEF RegistryInv
  <2>4. ASSUME NEW r \in runs, Ignore(r) \/ HaltSymbol(r) \/ Skip(r) \/ Begin(r)
        PROVE  UNCHANGED <<reg, phase>>
    BY <2>4 DEF Ignore, HaltSymbol, Skip, Begin, vars
  <2>5. ASSUME NEW artifact \in BOOLEAN, NEW state \in BOOLEAN, ModuleReturns(artifact, state)
        PROVE  UNCHANGED <<reg, phase>>
    BY <2>5 DEF ModuleReturns
  <2>6. ASSUME MissDependency \/ ModuleRaises \/ Complete  PROVE UNCHANGED <<reg, phase>>
    BY <2>6 DEF MissDependency, ModuleRaises, Complete, FailStep
  <2>7. CASE UNCHANGED vars
    BY <2>3, <2>7 DEF vars
  <2>. QED  BY <1>2, <2>1, <2>2, <2>3, <2>4, <2>5, <2>6, <2>7 DEF Next
<1>. QED  BY <1>1, <1>2, PTL DEF Spec

\* Whatever the registry, if the engine accepts it, the plan of the engine has
\* every enabled module once, stage by stage, dependencies first, and is the
\* least such order: a module comes before another with a lower id of its stage
\* only if something the other depends on comes in between.
THEOREM PlansAreLeast == Spec => []PlanIsLeast
<1>1. RegistryInv => PlanIsLeast
  <2>. SUFFICES ASSUME RegistryInv, phase = "up"  PROVE Ordered(reg, Plan(reg), reg.enabled)
    BY DEF PlanIsLeast, Ordered
  <2>. QED  BY PlanIsOrdered DEF RegistryInv
<1>. QED  BY <1>1, RegistryIsAccepted, PTL

----
\* Modules in their plan

\* The modules whose steps lie behind, and the types of what is said of a step.
Taken == {Plan(reg)[k] : k \in 1..(pos - 1)}
StepTypes == {"ArtifactEmitted", "missing_dependency", "exception"}

\* What is said of the run consume is in is about the steps that lie behind.
SaidIsBehind ==
  run # NoRun =>
    \A i \in 1..Len(log) :
      log[i].run.id = run.id /\ log[i].type \in StepTypes => log[i].modules \subseteq Taken

\* The artifacts at hand are of this run, and no module that failed left one.
HandIsOwn ==
  /\ \A d \in artifacts : Emitted(run, d)
  /\ run # NoRun => artifacts \subseteq Taken /\ failures \subseteq Taken \ artifacts
  /\ run = NoRun => failures = {}

\* A step that left no artifact has one at its root that did not miss any.
CauseIsBehind ==
  run # NoRun =>
    \A m \in Taken \ artifacts : \E c \in Taken : ~Emitted(run, c) /\ ~Missed(run, c)

\* States are of runs that have been marked, those of this run of steps behind,
\* and of each thread there is a latest.
StatesAreBehind ==
  /\ \A j \in 1..Len(states) :
       /\ states[j].run \in processed
       /\ run # NoRun /\ states[j].run = run.id => states[j].module \in Taken
  /\ \A s \in Symbols, m \in Module :
       StatesOf(s, m) = {} \/ \E i \in StatesOf(s, m) : \A j \in StatesOf(s, m) : j <= i

UpIsAccepted ==
  /\ phase = "up" => Accepted(reg)
  /\ run # NoRun => phase = "up" /\ pos <= Len(Plan(reg)) + 1

EngineInv ==
  /\ OnceInv /\ TypeOK /\ UpIsAccepted
  /\ SaidIsBehind /\ HandIsOwn /\ CauseIsBehind /\ FailuresHaveACause /\ ArtifactsAreOwn
  /\ StatesAreBehind /\ StateIsThreaded

\* A least plan has no module twice and every dependency before its module.
LEMMA PlanFacts ==
  ASSUME reg \in Registry, phase = "up", Accepted(reg), PlanIsLeast
  PROVE  /\ Len(Plan(reg)) \in Nat
         /\ reg.enabled \subseteq Module
         /\ \A k \in 1..Len(Plan(reg)) : Plan(reg)[k] \in reg.enabled
         /\ \A i, j \in 1..Len(Plan(reg)) : Plan(reg)[i] = Plan(reg)[j] => i = j
         /\ \A k \in 1..Len(Plan(reg)) : \A d \in reg.deps[Plan(reg)[k]] :
              \E j \in 1..(k - 1) : Plan(reg)[j] = d
<1>. DEFINE P == Plan(reg)
            n == Len(P)
            f == [i \in 1..n |-> P[i]]
<1>1. reg.enabled \subseteq Module /\ reg.deps \in [Module -> SUBSET Module]
  BY DEF Registry
<1>2. /\ n = Cardinality(reg.enabled)
      /\ {P[i] : i \in 1..n} = reg.enabled
      /\ \A i, j \in 1..n : i < j => P[j] \notin reg.deps[P[i]]
  BY DEF PlanIsLeast
<1>3. IsFiniteSet(Module) /\ IsFiniteSet(reg.enabled) /\ n \in Nat
  <2>1. IsFiniteSet(Module)  BY NModulesAssumption, FS_Interval DEF Module
  <2>2. IsFiniteSet(reg.enabled)  BY <1>1, <2>1, FS_Subset
  <2>. QED  BY <1>2, <2>1, <2>2, FS_CardinalityType
<1>. HIDE DEF P, n
<1>4. f \in Surjection(1..n, reg.enabled)
  BY <1>2 DEF Surjection
<1>5. IsFiniteSet(1..n) /\ Cardinality(1..n) = n
  BY <1>3, FS_Interval
<1>6. f \in Injection(1..n, reg.enabled)
  BY <1>2, <1>4, <1>5, FS_SurjSameCardinalityImpliesInj
<1>7. \A i, j \in 1..n : P[i] = P[j] => i = j
  BY <1>6 DEF Injection, IsInjective
<1>8. ASSUME NEW k \in 1..n, NEW d \in reg.deps[P[k]]
      PROVE  \E j \in 1..(k - 1) : P[j] = d
  <2>1. P[k] \in reg.enabled  BY <1>2
  <2>2. d \in reg.enabled  BY <1>8, <2>1 DEF Accepted, DependenciesEnabled
  <2>3. PICK j \in 1..n : P[j] = d  BY <1>2, <2>2
  <2>4. ~(k < j)  BY <1>2, <1>8, <2>3
  <2>5. j # k
    <3>1. {P[k]} \in (SUBSET reg.enabled) \ {{}}  BY <2>1
    <3>2. P[k] \notin reg.deps[P[k]]  BY <3>1 DEF Accepted, Acyclic
    <3>. QED  BY <1>8, <2>3, <3>2
  <2>. QED  BY <1>3, <2>3, <2>4, <2>5
<1>. QED  BY <1>1, <1>2, <1>3, <1>7, <1>8 DEF P, n

LEMMA StepFacts ==
  ASSUME EngineInv, PlanIsLeast, AtStep
  PROVE  /\ Step \in Module /\ Step \notin Taken
         /\ Taken \subseteq reg.enabled
         /\ Taken \subseteq Module
         /\ reg.deps[Step] \subseteq Taken
         /\ run \in runs /\ run # NoRun
<1>1. /\ run # NoRun /\ run \in runs /\ pos \in Nat \ {0} /\ pos <= Len(Plan(reg))
      /\ reg \in Registry /\ phase = "up" /\ Accepted(reg)
  BY DEF AtStep, EngineInv, TypeOK, UpIsAccepted
<1>. DEFINE P == Plan(reg)
            n == Len(P)
<1>2. /\ n \in Nat
      /\ reg.enabled \subseteq Module
      /\ \A k \in 1..n : P[k] \in reg.enabled
      /\ \A i, j \in 1..n : P[i] = P[j] => i = j
      /\ \A k \in 1..n : \A d \in reg.deps[P[k]] : \E j \in 1..(k - 1) : P[j] = d
  BY <1>1, PlanFacts
<1>3. Step = P[pos] /\ Taken = {P[k] : k \in 1..(pos - 1)} /\ pos <= n
  BY <1>1 DEF Step, Taken
<1>. HIDE DEF P, n
<1>4. pos \in 1..n /\ \A k \in 1..(pos - 1) : k \in 1..n /\ k # pos
  BY <1>1, <1>2, <1>3
<1>5. Step \notin Taken  BY <1>2, <1>3, <1>4
<1>6. Taken \subseteq reg.enabled  BY <1>2, <1>3, <1>4
<1>7. reg.deps[Step] \subseteq Taken  BY <1>2, <1>3, <1>4
<1>. QED  BY <1>1, <1>2, <1>3, <1>4, <1>5, <1>6, <1>7

LEMMA NextTaken ==
  ASSUME pos \in Nat \ {0}, reg' = reg, pos' = pos + 1
  PROVE  Taken' = Taken \cup {Step}
<1>1. 1..(pos' - 1) = 1..(pos - 1) \cup {pos}  OBVIOUS
<1>. QED  BY <1>1 DEF Taken, Step

\* What an event adds to what has been said.
LEMMA EventsGrow ==
  ASSUME log \in Seq(LogEvent), NEW e \in LogEvent, log' = Append(log, e)
  PROVE  Events' = Events \cup {e}
<1>1. /\ Len(log) \in Nat
      /\ Len(log') = Len(log) + 1
      /\ \A i \in 1..Len(log) : log'[i] = log[i]
      /\ log'[Len(log) + 1] = e
  BY LogAppended
<1>2. 1..Len(log') = 1..Len(log) \cup {Len(log) + 1}  BY <1>1
<1>. QED  BY <1>1, <1>2 DEF Events

LEMMA CauseKept ==
  ASSUME log \in Seq(LogEvent), FailuresHaveACause, NEW e \in LogEvent, log' = Append(log, e),
         reg' = reg,
         e.type = "AnalysisRunCompleted" /\ e.modules # {} =>
           \E m \in reg.enabled : ~Emitted(e.run, m) /\ ~Missed(e.run, m),
         e.type \in StepTypes =>
           \A i \in 1..Len(log) : log[i].type = "AnalysisRunCompleted" => log[i].run # e.run
  PROVE  FailuresHaveACause'
<1>1. Events' = Events \cup {e}  BY EventsGrow
<1>. SUFFICES ASSUME NEW d \in Events', d.type = "AnalysisRunCompleted", d.modules # {}
     PROVE  \E m \in reg.enabled : ~Emitted(d.run, m)' /\ ~Missed(d.run, m)'
  BY DEF FailuresHaveACause, Emitted, Missed, Events
<1>2. PICK m \in reg.enabled : ~Emitted(d.run, m) /\ ~Missed(d.run, m)
  BY <1>1 DEF FailuresHaveACause
<1>3. e # Event("ArtifactEmitted", d.run, {m}) /\ e # Event("missing_dependency", d.run, {m})
  <2>1. CASE d = e  BY <2>1 DEF Event
  <2>2. CASE d \in Events  BY <2>2 DEF Event, Events, StepTypes
  <2>. QED  BY <1>1, <2>1, <2>2
<1>. QED  BY <1>1, <1>2, <1>3 DEF Emitted, Missed

LEMMA OwnKept ==
  ASSUME log \in Seq(LogEvent), ArtifactsAreOwn, NEW e \in LogEvent, log' = Append(log, e),
         reg' = reg,
         e.type = "ArtifactEmitted" =>
           \A m \in e.modules : \A d \in reg.deps[m] : Emitted(e.run, d)
  PROVE  ArtifactsAreOwn'
<1>1. /\ Len(log) \in Nat
      /\ Len(log') = Len(log) + 1
      /\ \A i \in 1..Len(log) : log'[i] = log[i]
      /\ log'[Len(log) + 1] = e
  BY LogAppended
<1>. SUFFICES ASSUME NEW i \in 1..Len(log'), log'[i].type = "ArtifactEmitted",
                     NEW m \in log'[i].modules, NEW d \in reg.deps[m]
     PROVE  \E j \in 1..(i - 1) : log'[j] = Event("ArtifactEmitted", log'[i].run, {d})
  BY DEF ArtifactsAreOwn, Event
<1>2. CASE i \in 1..Len(log)
  <2>1. PICK j \in 1..(i - 1) : log[j] = Event("ArtifactEmitted", log[i].run, {d})
    BY <1>1, <1>2 DEF ArtifactsAreOwn
  <2>2. j \in 1..Len(log)  BY <1>1, <1>2
  <2>. QED  BY <1>1, <1>2, <2>1, <2>2
<1>3. CASE i = Len(log) + 1
  <2>1. Emitted(e.run, d)  BY <1>1, <1>3
  <2>2. PICK j \in 1..Len(log) : log[j] = Event("ArtifactEmitted", e.run, {d})
    BY <2>1 DEF Emitted, Events
  <2>. QED  BY <1>1, <1>3, <2>2
<1>4. i \in 1..Len(log) \/ i = Len(log) + 1  BY <1>1
<1>. QED  BY <1>2, <1>3, <1>4

\* A step of which something is said: its module emits, raises, or misses an artifact.
LEMMA StepSaid ==
  ASSUME EngineInv, PlanIsLeast, AtStep, NEW type \in StepTypes, Emit(type, run, {Step}),
         UNCHANGED <<reg, runs, run>>, pos' = pos + 1,
         \/ /\ type = "ArtifactEmitted" /\ Available
            /\ artifacts' = artifacts \cup {Step} /\ failures' = failures
         \/ /\ type = "exception"
            /\ artifacts' = artifacts /\ failures' = failures \cup {Step}
         \/ /\ type = "missing_dependency" /\ ~Available
            /\ artifacts' = artifacts /\ failures' = failures \cup {Step}
  PROVE  SaidIsBehind' /\ HandIsOwn' /\ CauseIsBehind' /\ FailuresHaveACause' /\ ArtifactsAreOwn'
<1>. DEFINE e == Event(type, run, {Step})
<1>1. /\ Step \in Module /\ Step \notin Taken
      /\ Taken \subseteq reg.enabled
      /\ reg.deps[Step] \subseteq Taken
      /\ run \in runs /\ run # NoRun
  BY StepFacts
<1>2. /\ log \in Seq(LogEvent) /\ pos \in Nat \ {0}
      /\ SaidIsBehind /\ HandIsOwn /\ CauseIsBehind /\ FailuresHaveACause /\ ArtifactsAreOwn
      /\ RunIsOpen
  BY DEF EngineInv, OnceInv, LogType, TypeOK
<1>3. Taken' = Taken \cup {Step}  BY <1>2, NextTaken
<1>4. /\ e \in LogEvent /\ log' = Append(log, e)
      /\ e.type = type /\ e.run = run /\ e.modules = {Step}
  <2>1. Step \in PlanSteps  BY <1>2 DEF Step, PlanSteps
  <2>. QED  BY <1>1, <2>1 DEF Emit, Event, LogEvent, EventTypes, StepTypes
<1>5. /\ Len(log) \in Nat
      /\ Len(log') = Len(log) + 1
      /\ \A i \in 1..Len(log) : log'[i] = log[i]
      /\ log'[Len(log) + 1] = e
  BY <1>2, <1>4, LogAppended
<1>6. Events' = Events \cup {e}  BY <1>2, <1>4, EventsGrow
<1>7. \A m \in Module : m # Step =>
        /\ Emitted(run, m)' <=> Emitted(run, m)
        /\ Missed(run, m)' <=> Missed(run, m)
  BY <1>4, <1>6 DEF Emitted, Missed, Event
<1>8. ~Emitted(run, Step) /\ ~Missed(run, Step)
  BY <1>1, <1>2, <1>5 DEF SaidIsBehind, Emitted, Missed, Events, Event, StepTypes
<1>. PICK here : here = Step  OBVIOUS
<1>9. SaidIsBehind'
  <2>. SUFFICES ASSUME NEW i \in 1..Len(log'), log'[i].run.id = run.id,
                       log'[i].type \in StepTypes
       PROVE  log'[i].modules \subseteq Taken'
    BY DEF SaidIsBehind
  <2>1. CASE i \in 1..Len(log)  BY <1>1, <1>2, <1>3, <1>5, <2>1 DEF SaidIsBehind
  <2>2. CASE i = Len(log) + 1  BY <1>3, <1>4, <1>5, <2>2
  <2>. QED  BY <1>5, <2>1, <2>2
<1>10. HandIsOwn'
  <2>1. \A d \in artifacts : Emitted(run, d)'  BY <1>2, <1>6 DEF HandIsOwn, Emitted
  <2>2. type = "ArtifactEmitted" => Emitted(run, here)'
    BY <1>6 DEF Emitted
  <2>3. \A d \in artifacts' : Emitted(run, d)'  BY <2>1, <2>2
  <2>4. artifacts \subseteq Taken /\ failures \subseteq Taken \ artifacts
    BY <1>1, <1>2 DEF HandIsOwn
  <2>5. artifacts' \subseteq Taken' /\ failures' \subseteq Taken' \ artifacts'
    BY <1>1, <1>3, <2>4
  <2>. QED  BY <1>1, <2>3, <2>5 DEF HandIsOwn, Emitted
<1>11. CauseIsBehind'
  <2>. SUFFICES ASSUME NEW m \in Taken' \ artifacts'
       PROVE  \E c \in Taken' : ~Emitted(run, c)' /\ ~Missed(run, c)'
    BY DEF CauseIsBehind, Emitted, Missed
  <2>1. ASSUME NEW d \in Taken \ artifacts
        PROVE  \E c \in Taken' : ~Emitted(run, c)' /\ ~Missed(run, c)'
    <3>1. PICK c \in Taken : ~Emitted(run, c) /\ ~Missed(run, c)
      BY <1>1, <1>2, <2>1 DEF CauseIsBehind
    <3>2. c \in Taken' /\ c # Step /\ c \in Module
      BY <1>1, <1>3, <3>1, StepFacts
    <3>. QED  BY <1>7, <3>1, <3>2
  <2>2. CASE type = "ArtifactEmitted"
    <3>1. m \in Taken \ artifacts  BY <1>3, <2>2
    <3>. QED  BY <2>1, <3>1
  <2>3. CASE type = "missing_dependency"
    <3>1. PICK d \in reg.deps[Step] : d \notin artifacts  BY <2>3 DEF Available
    <3>2. d \in Taken \ artifacts  BY <1>1, <3>1
    <3>. QED  BY <2>1, <3>2
  <2>4. CASE type = "exception"
    <3>1. ~Emitted(run, here)' /\ ~Missed(run, here)'
      BY <1>4, <1>6, <1>8, <2>4 DEF Emitted, Missed, Event
    <3>. QED  BY <1>3, <3>1
  <2>. QED  BY <2>2, <2>3, <2>4
<1>12. FailuresHaveACause'
  <2>1. \A i \in 1..Len(log) : log[i].type = "AnalysisRunCompleted" => log[i].run # e.run
    BY <1>1, <1>2, <1>4 DEF RunIsOpen
  <2>2. e.type # "AnalysisRunCompleted"  BY <1>4 DEF StepTypes
  <2>. HIDE DEF e
  <2>. QED  BY <1>2, <1>4, <2>1, <2>2, CauseKept
<1>13. ArtifactsAreOwn'
  <2>1. ASSUME e.type = "ArtifactEmitted", NEW m \in e.modules, NEW d \in reg.deps[m]
        PROVE  Emitted(e.run, d)
    <3>1. m = Step /\ Available  BY <1>4, <2>1
    <3>2. d \in artifacts  BY <2>1, <3>1 DEF Available
    <3>. QED  BY <1>2, <1>4, <3>2 DEF HandIsOwn
  <2>. HIDE DEF e
  <2>. QED  BY <1>2, <1>4, <2>1, OwnKept
<1>. QED  BY <1>9, <1>10, <1>11, <1>12, <1>13

\* A step of which nothing is said: its module returned nothing.
LEMMA StepUnsaid ==
  ASSUME EngineInv, PlanIsLeast, AtStep, UNCHANGED <<reg, runs, run, log, artifacts, failures>>,
         pos' = pos + 1
  PROVE  SaidIsBehind' /\ HandIsOwn' /\ CauseIsBehind' /\ FailuresHaveACause' /\ ArtifactsAreOwn'
<1>1. /\ Step \in Module /\ Step \notin Taken
      /\ run \in runs /\ run # NoRun
  BY StepFacts
<1>2. /\ log \in Seq(LogEvent) /\ pos \in Nat \ {0}
      /\ SaidIsBehind /\ HandIsOwn /\ CauseIsBehind /\ FailuresHaveACause /\ ArtifactsAreOwn
  BY DEF EngineInv, OnceInv, LogType, TypeOK
<1>3. Taken' = Taken \cup {Step}  BY <1>2, NextTaken
<1>4. ~Emitted(run, Step) /\ ~Missed(run, Step)
  BY <1>1, <1>2 DEF SaidIsBehind, Emitted, Missed, Events, Event, StepTypes
<1>5. SaidIsBehind'  BY <1>2, <1>3 DEF SaidIsBehind
<1>6. HandIsOwn'  BY <1>1, <1>2, <1>3 DEF HandIsOwn, Emitted, Events, Event
<1>7. CauseIsBehind'  BY <1>3, <1>4 DEF CauseIsBehind, Emitted, Missed, Events, Event
<1>8. FailuresHaveACause'
  <2>1. Events' = Events  BY DEF Events
  <2>. QED  BY <1>2, <2>1 DEF FailuresHaveACause, Emitted, Missed, Event
<1>9. ArtifactsAreOwn'  BY <1>2 DEF ArtifactsAreOwn, Event
<1>. QED  BY <1>5, <1>6, <1>7, <1>8, <1>9

\* States as they are: what is said of a step behind concerns no state of this run.
LEMMA StatesKept ==
  ASSUME EngineInv, PlanIsLeast, AtStep, UNCHANGED <<reg, runs, run, states, processed>>,
         pos' = pos + 1,
         \/ UNCHANGED log
         \/ \E type \in StepTypes : Emit(type, run, {Step})
  PROVE  StatesAreBehind' /\ StateIsThreaded'
<1>1. /\ Step \in Module /\ Step \notin Taken
      /\ run \in runs /\ run # NoRun
  BY StepFacts
<1>2. log \in Seq(LogEvent) /\ pos \in Nat \ {0} /\ StatesAreBehind /\ StateIsThreaded
  BY DEF EngineInv, OnceInv, LogType, TypeOK
<1>3. Taken' = Taken \cup {Step}  BY <1>2, NextTaken
<1>4. StatesAreBehind'
  <2>1. Symbols' = Symbols /\ \A k, m : StatesOf(k, m)' = StatesOf(k, m)
    BY DEF Symbols, StatesOf
  <2>. QED  BY <1>2, <1>3, <2>1 DEF StatesAreBehind
<1>5. ASSUME NEW j \in 1..Len(states), NEW r \in runs, r.id = states[j].run
      PROVE  ~Raised(r, states[j].module)' /\ ~Missed(r, states[j].module)'
  <2>1. ~Raised(r, states[j].module) /\ ~Missed(r, states[j].module)
    BY <1>2, <1>5 DEF StateIsThreaded
  <2>2. r = run => states[j].module # Step
    BY <1>1, <1>2, <1>5 DEF StatesAreBehind
  <2>3. CASE UNCHANGED log
    BY <2>1, <2>3 DEF Raised, Missed, Events, Event
  <2>4. ASSUME NEW type \in StepTypes, Emit(type, run, {Step})
        PROVE  ~Raised(r, states[j].module)' /\ ~Missed(r, states[j].module)'
    <3>. DEFINE e == Event(type, run, {Step})
    <3>1. Step \in PlanSteps  BY <1>2 DEF Step, PlanSteps
    <3>2. e \in LogEvent /\ log' = Append(log, e)
      BY <1>1, <2>4, <3>1 DEF Emit, Event, LogEvent, EventTypes, StepTypes
    <3>3. Events' = Events \cup {e}  BY <1>2, <3>2, EventsGrow
    <3>. QED  BY <2>1, <2>2, <3>3 DEF Raised, Missed, Event
  <2>. QED  BY <2>3, <2>4
<1>6. StateIsThreaded'
  BY <1>2, <1>5 DEF StateIsThreaded, Raised, Missed, Events, Event
<1>. QED  BY <1>4, <1>6

\* A module's new state continues its thread.
LEMMA StateReturned ==
  ASSUME EngineInv, PlanIsLeast, AtStep, UNCHANGED <<reg, runs, run, processed>>, pos' = pos + 1,
         UNCHANGED log \/ Emit("ArtifactEmitted", run, {Step}),
         states' = Append(states, [symbol |-> run.symbol, module |-> Step, run |-> run.id,
                                   from |-> LatestState(run.symbol, Step)])
  PROVE  StatesAreBehind' /\ StateIsThreaded'
<1>. PICK here : here = Step  OBVIOUS
<1>. DEFINE x == [symbol |-> run.symbol, module |-> here, run |-> run.id,
                  from |-> LatestState(run.symbol, here)]
            n == Len(states)
            State == [symbol : Symbols, module : Module, run : RunIds, from : Nat]
<1>1. /\ here \in Module /\ here \notin Taken
      /\ run \in runs /\ run # NoRun /\ run.symbol \in Symbols /\ run.id \in RunIds
  BY StepFacts DEF Symbols, RunIds
<1>2. /\ log \in Seq(LogEvent) /\ pos \in Nat \ {0} /\ StatesAreBehind /\ StateIsThreaded
      /\ SaidIsBehind /\ RunIsOpen /\ states \in Seq(State)
  BY DEF EngineInv, OnceInv, LogType, TypeOK
<1>3. Taken' = Taken \cup {here}  BY <1>2, NextTaken
<1>4. /\ StatesOf(run.symbol, here) \subseteq 1..n
      /\ \/ StatesOf(run.symbol, here) = {} /\ x.from = 0
         \/ /\ x.from \in StatesOf(run.symbol, here)
            /\ \A j \in StatesOf(run.symbol, here) : j <= x.from
  <2>1. StatesOf(run.symbol, here) \subseteq 1..n  BY DEF StatesOf
  <2>2. \/ StatesOf(run.symbol, here) = {}
        \/ \E i \in StatesOf(run.symbol, here) : \A j \in StatesOf(run.symbol, here) : j <= i
    BY <1>1, <1>2 DEF StatesAreBehind
  <2>3. x.from = LatestState(run.symbol, here)  OBVIOUS
  <2>. HIDE DEF x
  <2>. QED  BY <2>1, <2>2, <2>3 DEF LatestState, NoState
<1>5. n \in Nat /\ x.from \in Nat
  BY <1>2, <1>4, LenProperties
<1>6. x \in State /\ x.symbol = run.symbol /\ x.module = here /\ x.run = run.id
  BY <1>1, <1>5
<1>7. states' = Append(states, x)  OBVIOUS
<1>. HIDE DEF x
<1>8. /\ Len(states') = n + 1
      /\ \A i \in 1..n : states'[i] = states[i]
      /\ states'[n + 1] = x
  BY <1>2, <1>6, <1>7, AppendProperties
<1>9. ASSUME NEW k, NEW m
      PROVE  StatesOf(k, m)' = IF k = run.symbol /\ m = here THEN StatesOf(k, m) \cup {n + 1}
                               ELSE StatesOf(k, m)
  <2>1. 1..Len(states') = 1..n \cup {n + 1} /\ n + 1 \notin 1..n  BY <1>5, <1>8
  <2>. QED  BY <1>6, <1>8, <2>1 DEF StatesOf
<1>10. \A j \in 1..Len(states') : j \in 1..n \/ j = n + 1  BY <1>5, <1>8
<1>11. StatesAreBehind'
  <2>1. ASSUME NEW j \in 1..Len(states')
        PROVE  /\ states'[j].run \in processed'
               /\ run' # NoRun /\ states'[j].run = run'.id => states'[j].module \in Taken'
    <3>1. CASE j \in 1..n  BY <1>2, <1>3, <1>8, <3>1 DEF StatesAreBehind
    <3>2. CASE j = n + 1  BY <1>1, <1>2, <1>3, <1>6, <1>8, <3>2 DEF RunIsOpen
    <3>. QED  BY <1>10, <3>1, <3>2
  <2>2. ASSUME NEW k \in Symbols', NEW m \in Module
        PROVE  \/ StatesOf(k, m)' = {}
               \/ \E i \in StatesOf(k, m)' : \A j \in StatesOf(k, m)' : j <= i
    <3>1. k \in Symbols  BY DEF Symbols
    <3>2. CASE k = run.symbol /\ m = here
      <4>1. StatesOf(k, m)' = StatesOf(k, m) \cup {n + 1}  BY <1>9, <3>2
      <4>2. \A j \in StatesOf(k, m) : j <= n + 1  BY <1>4, <1>5, <3>2
      <4>3. n + 1 \in StatesOf(k, m)' /\ \A j \in StatesOf(k, m)' : j <= n + 1
        BY <1>5, <4>1, <4>2
      <4>. QED  BY <4>3
    <3>3. CASE ~(k = run.symbol /\ m = here)
      <4>1. StatesOf(k, m)' = StatesOf(k, m)  BY <1>9, <3>3
      <4>. QED  BY <1>2, <3>1, <4>1 DEF StatesAreBehind
    <3>. QED  BY <3>2, <3>3
  <2>. QED  BY <2>1, <2>2 DEF StatesAreBehind
<1>12. ASSUME NEW r, NEW m
       PROVE  (Raised(r, m)' <=> Raised(r, m)) /\ (Missed(r, m)' <=> Missed(r, m))
  <2>1. CASE UNCHANGED log  BY <2>1 DEF Raised, Missed, Events, Event
  <2>2. CASE Emit("ArtifactEmitted", run, {Step})
    <3>. DEFINE e == Event("ArtifactEmitted", run, {here})
    <3>1. here \in PlanSteps  BY <1>2 DEF Step, PlanSteps
    <3>2. e \in LogEvent /\ log' = Append(log, e)
      BY <1>1, <2>2, <3>1 DEF Emit, Event, LogEvent, EventTypes
    <3>3. Events' = Events \cup {e}  BY <1>2, <3>2, EventsGrow
    <3>. QED  BY <3>3 DEF Raised, Missed, Event
  <2>. QED  BY <2>1, <2>2
<1>13. ASSUME NEW r \in runs, r.id = run.id  PROVE ~Raised(r, here) /\ ~Missed(r, here)
  <2>1. ASSUME NEW type \in StepTypes, Event(type, r, {here}) \in Events  PROVE FALSE
    <3>1. PICK i \in 1..Len(log) : log[i] = Event(type, r, {here})  BY <2>1 DEF Events
    <3>2. log[i].run = r /\ log[i].type = type /\ log[i].modules = {here}
      BY <3>1 DEF Event
    <3>. QED  BY <1>1, <1>2, <1>13, <2>1, <3>2 DEF SaidIsBehind
  <2>. QED  BY <2>1 DEF Raised, Missed, StepTypes
<1>14. ASSUME NEW j \in 1..Len(states')
       PROVE  LET y == states'[j]
                  Before == {i \in 1..(j - 1) : states'[i].symbol = y.symbol
                                                  /\ states'[i].module = y.module}
              IN  /\ y.from \in Before \cup {NoState}
                  /\ \A i \in Before : i <= y.from /\ states'[i].run # y.run
                  /\ \A r \in runs : r.id = y.run => ~Raised(r, y.module) /\ ~Missed(r, y.module)
  <2>1. CASE j \in 1..n
    <3>1. states'[j] = states[j] /\ \A i \in 1..(j - 1) : states'[i] = states[i]
      BY <1>5, <1>8, <2>1
    <3>. QED  BY <1>2, <2>1, <3>1 DEF StateIsThreaded
  <2>2. CASE j = n + 1
    <3>. DEFINE Before == {i \in 1..(j - 1) : states'[i].symbol = x.symbol
                                                /\ states'[i].module = x.module}
    <3>1. states'[j] = x /\ j - 1 = n  BY <1>5, <1>8, <2>2
    <3>2. Before = StatesOf(run.symbol, here)
      BY <1>6, <1>8, <3>1 DEF StatesOf
    <3>3. \A i \in Before : states'[i].run # run.id
      BY <1>1, <1>2, <1>8, <3>1, <3>2 DEF StatesAreBehind, StatesOf
    <3>4. x.from \in Before \cup {NoState} /\ \A i \in Before : i <= x.from
      BY <1>4, <3>2 DEF NoState
    <3>. HIDE DEF Before
    <3>5. /\ x.from \in Before \cup {NoState}
          /\ \A i \in Before : i <= x.from /\ states'[i].run # x.run
          /\ \A r \in runs : r.id = x.run => ~Raised(r, x.module) /\ ~Missed(r, x.module)
      BY <1>6, <1>13, <3>3, <3>4
    <3>. QED  BY <3>1, <3>5 DEF Before
  <2>. QED  BY <1>10, <2>1, <2>2
<1>15. StateIsThreaded'
  BY <1>12, <1>14 DEF StateIsThreaded
<1>. QED  BY <1>11, <1>15

\* An event that is no module's keeps what was said of the modules.
LEMMA OtherSaid ==
  ASSUME EngineInv, NEW e \in LogEvent, e.type \notin StepTypes, log' = Append(log, e),
         UNCHANGED <<reg, runs, states>>,
         e.type = "AnalysisRunCompleted" /\ e.modules # {} =>
           \E m \in reg.enabled : ~Emitted(e.run, m) /\ ~Missed(e.run, m)
  PROVE  /\ \A r, m : /\ Emitted(r, m)' <=> Emitted(r, m)
                      /\ Missed(r, m)' <=> Missed(r, m)
                      /\ Raised(r, m)' <=> Raised(r, m)
         /\ FailuresHaveACause' /\ ArtifactsAreOwn' /\ StateIsThreaded'
<1>1. /\ log \in Seq(LogEvent) /\ FailuresHaveACause /\ ArtifactsAreOwn /\ StateIsThreaded
  BY DEF EngineInv, OnceInv, LogType
<1>2. Events' = Events \cup {e}  BY <1>1, EventsGrow
<1>3. ASSUME NEW r, NEW m
      PROVE  /\ Emitted(r, m)' <=> Emitted(r, m)
             /\ Missed(r, m)' <=> Missed(r, m)
             /\ Raised(r, m)' <=> Raised(r, m)
  BY <1>2 DEF Emitted, Missed, Raised, Event, StepTypes
<1>4. FailuresHaveACause'  BY <1>1, CauseKept
<1>5. ArtifactsAreOwn'  BY <1>1, OwnKept DEF StepTypes
<1>6. StateIsThreaded'  BY <1>1, <1>3 DEF StateIsThreaded
<1>. QED  BY <1>3, <1>4, <1>5, <1>6

\* Outside a run: what is halted or skipped.
LEMMA Outside ==
  ASSUME EngineInv, Idle, NEW r \in runs,
         NEW type \in {"AnalysisRunFailed", "AnalysisRunSkipped"}, Emit(type, r, {}),
         processed \subseteq processed',
         UNCHANGED <<reg, runs, phase, states, run, pos, artifacts, failures>>
  PROVE  /\ UpIsAccepted' /\ SaidIsBehind' /\ HandIsOwn' /\ CauseIsBehind'
         /\ FailuresHaveACause' /\ ArtifactsAreOwn' /\ StatesAreBehind' /\ StateIsThreaded'
<1>. DEFINE e == Event(type, r, {})
<1>1. e \in LogEvent /\ log' = Append(log, e) /\ e.type = type
  BY DEF Emit, Event, LogEvent, EventTypes
<1>2. type \notin StepTypes /\ type # "AnalysisRunCompleted"  BY DEF StepTypes
<1>3. run = NoRun /\ run' = NoRun  BY DEF Idle
<1>. HIDE DEF e
<1>4. /\ \A q, m : Emitted(q, m)' <=> Emitted(q, m)
      /\ FailuresHaveACause' /\ ArtifactsAreOwn' /\ StateIsThreaded'
  BY <1>1, <1>2, OtherSaid
<1>5. UpIsAccepted' /\ SaidIsBehind' /\ CauseIsBehind'
  BY <1>3 DEF EngineInv, UpIsAccepted, SaidIsBehind, CauseIsBehind
<1>6. HandIsOwn'
  BY <1>3, <1>4 DEF EngineInv, HandIsOwn
<1>7. StatesAreBehind'
  <2>1. Symbols' = Symbols /\ \A k, m : StatesOf(k, m)' = StatesOf(k, m)
    BY DEF Symbols, StatesOf
  <2>. QED  BY <1>3, <2>1 DEF EngineInv, StatesAreBehind
<1>. QED  BY <1>4, <1>5, <1>6, <1>7

LEMMA RunBegins ==
  ASSUME EngineInv, PlanIsLeast, NEW r \in runs, Begin(r)
  PROVE  /\ UpIsAccepted' /\ SaidIsBehind' /\ HandIsOwn' /\ CauseIsBehind'
         /\ FailuresHaveACause' /\ ArtifactsAreOwn' /\ StatesAreBehind' /\ StateIsThreaded'
<1>. DEFINE e == Event("AnalysisRunStarted", r, {})
<1>1. /\ e \in LogEvent /\ log' = Append(log, e) /\ e.type = "AnalysisRunStarted" /\ e.run = r
      /\ Idle /\ r.id \notin processed /\ processed \subseteq processed'
      /\ run' = r /\ pos' = 1 /\ artifacts' = {} /\ failures' = {}
      /\ UNCHANGED <<reg, runs, phase, states>>
  BY DEF Begin, Unprocessed, FirstStep, NoArtifacts, Emit, Event, LogEvent, EventTypes
<1>2. "AnalysisRunStarted" \notin StepTypes  BY DEF StepTypes
<1>. HIDE DEF e
<1>3. FailuresHaveACause' /\ ArtifactsAreOwn' /\ StateIsThreaded'
  BY <1>1, <1>2, OtherSaid
<1>4. Taken' = {}
  <2>1. 1..(pos' - 1) = {}  BY <1>1
  <2>. QED  BY <2>1 DEF Taken
<1>5. UpIsAccepted'
  <2>1. phase = "up" /\ Accepted(reg) /\ reg \in Registry
    BY <1>1 DEF Idle, EngineInv, UpIsAccepted, TypeOK
  <2>2. Len(Plan(reg)) \in Nat  BY <2>1, PlanFacts
  <2>. QED  BY <1>1, <2>1, <2>2 DEF UpIsAccepted
<1>6. SaidIsBehind'
  <2>1. /\ Len(log) \in Nat
        /\ Len(log') = Len(log) + 1
        /\ \A i \in 1..Len(log) : log'[i] = log[i]
        /\ log'[Len(log) + 1] = e
    BY <1>1, LogAppended DEF EngineInv, OnceInv, LogType
  <2>. SUFFICES ASSUME NEW i \in 1..Len(log'), log'[i].run.id = r.id, log'[i].type \in StepTypes
       PROVE  FALSE
    BY <1>1 DEF SaidIsBehind
  <2>2. i \in 1..Len(log)  BY <1>1, <1>2, <2>1
  <2>. QED  BY <1>1, <2>1, <2>2 DEF EngineInv, OnceInv, Marked, StepTypes
<1>7. HandIsOwn' /\ CauseIsBehind'
  BY <1>1, <1>4 DEF HandIsOwn, CauseIsBehind
<1>8. StatesAreBehind'
  <2>1. Symbols' = Symbols /\ \A k, m : StatesOf(k, m)' = StatesOf(k, m)
    BY <1>1 DEF Symbols, StatesOf
  <2>. QED  BY <1>1, <2>1 DEF EngineInv, StatesAreBehind
<1>. QED  BY <1>3, <1>5, <1>6, <1>7, <1>8

LEMMA RunCompletes ==
  ASSUME EngineInv, PlanIsLeast, Complete
  PROVE  /\ UpIsAccepted' /\ SaidIsBehind' /\ HandIsOwn' /\ CauseIsBehind'
         /\ FailuresHaveACause' /\ ArtifactsAreOwn' /\ StatesAreBehind' /\ StateIsThreaded'
<1>. DEFINE e == Event("AnalysisRunCompleted", run, failures)
<1>1. /\ run # NoRun /\ run \in runs /\ log' = Append(log, e)
      /\ e.type = "AnalysisRunCompleted" /\ e.run = run /\ e.modules = failures
      /\ run' = NoRun /\ artifacts' = {} /\ failures' = {}
      /\ UNCHANGED <<reg, runs, phase, states, processed>>
  BY DEF Complete, NoArtifacts, Emit, Event, EngineInv, TypeOK
<1>2. e \in LogEvent
  BY <1>1 DEF EngineInv, OnceInv, LogType, LogEvent, Event, EventTypes
<1>3. failures # {} => \E m \in reg.enabled : ~Emitted(run, m) /\ ~Missed(run, m)
  <2>1. Taken \subseteq reg.enabled
    <3>1. /\ phase = "up" /\ Accepted(reg) /\ reg \in Registry
          /\ pos \in Nat \ {0} /\ pos <= Len(Plan(reg)) + 1
      BY <1>1 DEF EngineInv, UpIsAccepted, TypeOK
    <3>2. Len(Plan(reg)) \in Nat /\ \A k \in 1..Len(Plan(reg)) : Plan(reg)[k] \in reg.enabled
      BY <3>1, PlanFacts
    <3>3. 1..(pos - 1) \subseteq 1..Len(Plan(reg))  BY <3>1, <3>2
    <3>. QED  BY <3>2, <3>3 DEF Taken
  <2>2. failures \subseteq Taken \ artifacts /\ CauseIsBehind
    BY <1>1 DEF EngineInv, HandIsOwn
  <2>. QED  BY <1>1, <2>1, <2>2 DEF CauseIsBehind
<1>4. "AnalysisRunCompleted" \notin StepTypes  BY DEF StepTypes
<1>. HIDE DEF e
<1>5. FailuresHaveACause' /\ ArtifactsAreOwn' /\ StateIsThreaded'
  BY <1>1, <1>2, <1>3, <1>4, OtherSaid
<1>6. UpIsAccepted' /\ SaidIsBehind' /\ HandIsOwn' /\ CauseIsBehind'
  BY <1>1 DEF EngineInv, UpIsAccepted, SaidIsBehind, HandIsOwn, CauseIsBehind
<1>7. StatesAreBehind'
  <2>1. Symbols' = Symbols /\ \A k, m : StatesOf(k, m)' = StatesOf(k, m)
    BY <1>1 DEF Symbols, StatesOf
  <2>. QED  BY <1>1, <2>1 DEF EngineInv, StatesAreBehind
<1>. QED  BY <1>5, <1>6, <1>7

----
\* Types, and the invariant as a whole

LEMMA EngineTypes == ASSUME EngineInv, PlanIsLeast, [Next]_vars PROVE TypeOK'
<1>. DEFINE Entry == [type : EventTypes, run : runs, modules : SUBSET Module]
            State == [symbol : Symbols, module : Module, run : RunIds, from : Nat]
<1>1. TypeOK /\ log \in Seq(Entry) /\ states \in Seq(State)
  BY DEF EngineInv, TypeOK
<1>2. ASSUME NEW type \in EventTypes, NEW r \in runs, NEW S \in SUBSET Module, Emit(type, r, S)
      PROVE  log' \in Seq(Entry)
  <2>1. Event(type, r, S) \in Entry  BY DEF Event
  <2>. HIDE DEF Entry
  <2>. QED  BY <1>1, <1>2, <2>1, AppendProperties DEF Emit
<1>3. runs' = runs => Entry' = Entry /\ State' = State /\ RunIds' = RunIds /\ Symbols' = Symbols
  BY DEF RunIds, Symbols
<1>4. CASE UNCHANGED vars  BY <1>1, <1>3, <1>4 DEF TypeOK, vars
<1>5. CASE StartUp  BY <1>1, <1>3, <1>5 DEF TypeOK, StartUp
<1>6. CASE Restart  BY <1>1, <1>3, <1>6, AnalysisEngineAssumption DEF TypeOK, Restart
<1>7. ASSUME NEW r \in runs, Ignore(r)  PROVE TypeOK'
  BY <1>1, <1>3, <1>7 DEF TypeOK, Ignore, vars
<1>8. ASSUME NEW r \in runs, HaltSymbol(r)  PROVE TypeOK'
  <2>0. {} \in SUBSET Module  OBVIOUS
  <2>1. log' \in Seq(Entry)  BY <1>2, <1>8, <2>0 DEF HaltSymbol, EventTypes
  <2>2. r.symbol \in Symbols  BY DEF Symbols
  <2>. QED  BY <1>1, <1>3, <1>8, <2>1, <2>2 DEF TypeOK, HaltSymbol
<1>9. ASSUME NEW r \in runs, Skip(r)  PROVE TypeOK'
  <2>0. {} \in SUBSET Module  OBVIOUS
  <2>1. log' \in Seq(Entry)  BY <1>2, <1>9, <2>0 DEF Skip, EventTypes
  <2>2. r.id \in RunIds  BY DEF RunIds
  <2>. QED  BY <1>1, <1>3, <1>9, <2>1, <2>2 DEF TypeOK, Skip
<1>10. ASSUME NEW r \in runs, Begin(r)  PROVE TypeOK'
  <2>0. {} \in SUBSET Module  OBVIOUS
  <2>1. log' \in Seq(Entry)  BY <1>2, <1>10, <2>0 DEF Begin, EventTypes
  <2>2. r.id \in RunIds  BY DEF RunIds
  <2>. QED  BY <1>1, <1>3, <1>10, <2>1, <2>2 DEF TypeOK, Begin, FirstStep, NoArtifacts
<1>11. AtStep => Step \in Module /\ run \in runs
  BY StepFacts
<1>12. CASE MissDependency \/ ModuleRaises
  <2>1. PICK type \in {"missing_dependency", "exception"} : AtStep /\ FailStep(type)
    BY <1>12 DEF MissDependency, ModuleRaises
  <2>2. {Step} \in SUBSET Module  BY <1>11, <2>1
  <2>3. log' \in Seq(Entry)  BY <1>2, <1>11, <2>1, <2>2 DEF FailStep, EventTypes
  <2>. QED  BY <1>1, <1>3, <1>11, <2>1, <2>3 DEF TypeOK, FailStep
<1>13. ASSUME NEW artifact \in BOOLEAN, NEW state \in BOOLEAN, ModuleReturns(artifact, state)
       PROVE  TypeOK'
  <2>1. Step \in Module /\ run \in runs  BY <1>11, <1>13 DEF ModuleReturns
  <2>2. log' \in Seq(Entry)
    <3>1. Emit("ArtifactEmitted", run, {Step}) \/ UNCHANGED log  BY <1>13 DEF ModuleReturns
    <3>2. {Step} \in SUBSET Module  BY <2>1
    <3>. QED  BY <1>1, <1>2, <2>1, <3>1, <3>2 DEF EventTypes
  <2>3. states' \in Seq(State)
    <3>. DEFINE x == [symbol |-> run.symbol, module |-> Step, run |-> run.id,
                      from |-> LatestState(run.symbol, Step)]
    <3>1. run.symbol \in Symbols /\ run.id \in RunIds  BY <2>1 DEF Symbols, RunIds
    <3>2. LatestState(run.symbol, Step) \in Nat
      <4>1. StatesOf(run.symbol, Step) \subseteq Nat  BY DEF StatesOf
      <4>2. \/ StatesOf(run.symbol, Step) = {}
            \/ \E i \in StatesOf(run.symbol, Step) : \A j \in StatesOf(run.symbol, Step) : j <= i
        BY <2>1, <3>1 DEF EngineInv, StatesAreBehind
      <4>. QED  BY <4>1, <4>2 DEF LatestState, NoState
    <3>3. x \in State  BY <2>1, <3>1, <3>2
    <3>4. states' = Append(states, x) \/ states' = states  BY <1>13 DEF ModuleReturns
    <3>. HIDE DEF x, State
    <3>. QED  BY <1>1, <3>3, <3>4, AppendProperties
  <2>. QED  BY <1>1, <1>3, <1>13, <2>1, <2>2, <2>3 DEF TypeOK, ModuleReturns
<1>14. CASE Complete
  <2>1. run \in runs /\ failures \in SUBSET Module  BY <1>1, <1>14 DEF TypeOK, Complete
  <2>2. log' \in Seq(Entry)  BY <1>2, <1>14, <2>1 DEF Complete, EventTypes
  <2>. QED  BY <1>1, <1>3, <1>14, <2>2 DEF TypeOK, Complete, FirstStep, NoArtifacts
<1>. QED  BY <1>4, <1>5, <1>6, <1>7, <1>8, <1>9, <1>10, <1>12, <1>13, <1>14 DEF Next

LEMMA EngineInit == ASSUME Init PROVE EngineInv
<1>1. OnceInv  BY OnceInit
<1>2. /\ Len(log) = 0 /\ Len(states) = 0 /\ log = <<>> /\ states = <<>>
      /\ run = NoRun /\ phase = "starting" /\ artifacts = {} /\ failures = {}
  BY EmptySeq DEF Init
<1>3. TypeOK
  <2>1. reg \in Registry  BY AnalysisEngineAssumption DEF Init
  <2>2. restarts \in 0..MaxRestarts  BY AnalysisEngineAssumption DEF Init
  <2>. QED  BY <1>2, <2>1, <2>2, EmptySeq DEF Init, TypeOK
<1>4. UpIsAccepted /\ SaidIsBehind /\ HandIsOwn /\ CauseIsBehind
  BY <1>2 DEF UpIsAccepted, SaidIsBehind, HandIsOwn, CauseIsBehind
<1>5. FailuresHaveACause /\ ArtifactsAreOwn /\ StateIsThreaded
  BY <1>2 DEF FailuresHaveACause, ArtifactsAreOwn, StateIsThreaded, Events
<1>6. StatesAreBehind
  BY <1>2 DEF StatesAreBehind, StatesOf
<1>. QED  BY <1>1, <1>3, <1>4, <1>5, <1>6 DEF EngineInv

LEMMA EngineStep == ASSUME EngineInv, PlanIsLeast, [Next]_vars PROVE EngineInv'
<1>1. OnceInv'  BY OnceStep DEF EngineInv
<1>2. TypeOK'  BY EngineTypes
<1>3. ASSUME UNCHANGED <<reg, runs, states, run, pos, artifacts, failures, log, processed>>,
             UpIsAccepted'
      PROVE  EngineInv'
  <2>1. Taken' = Taken /\ Events' = Events /\ Symbols' = Symbols
        /\ \A k, m : StatesOf(k, m)' = StatesOf(k, m)
    BY <1>3 DEF Taken, Events, Symbols, StatesOf
  <2>2. SaidIsBehind' /\ HandIsOwn' /\ CauseIsBehind' /\ StatesAreBehind'
    BY <1>3, <2>1 DEF EngineInv, SaidIsBehind, HandIsOwn, CauseIsBehind, StatesAreBehind,
                      Emitted, Missed, Event
  <2>3. FailuresHaveACause' /\ ArtifactsAreOwn' /\ StateIsThreaded'
    BY <1>3, <2>1 DEF EngineInv, FailuresHaveACause, ArtifactsAreOwn, StateIsThreaded,
                      Emitted, Missed, Raised, Event
  <2>. QED  BY <1>1, <1>2, <1>3, <2>2, <2>3 DEF EngineInv
<1>4. CASE UNCHANGED vars
  BY <1>3, <1>4 DEF vars, EngineInv, UpIsAccepted
<1>5. CASE StartUp
  <2>1. run = NoRun  BY <1>5 DEF StartUp, EngineInv, UpIsAccepted
  <2>2. UpIsAccepted'  BY <1>5, <2>1 DEF StartUp, UpIsAccepted
  <2>. QED  BY <1>3, <1>5, <2>2 DEF StartUp
<1>6. CASE Restart
  BY <1>3, <1>6 DEF Restart, EngineInv, UpIsAccepted
<1>7. ASSUME NEW r \in runs, Ignore(r) \/ HaltSymbol(r) \/ Skip(r) \/ Begin(r)
      PROVE  EngineInv'
  <2>1. CASE Ignore(r)
    BY <1>3, <2>1 DEF Ignore, vars, EngineInv, UpIsAccepted
  <2>2. CASE HaltSymbol(r)
    <3>1. /\ Idle /\ Emit("AnalysisRunFailed", r, {}) /\ processed \subseteq processed'
          /\ UNCHANGED <<reg, runs, phase, states, run, pos, artifacts, failures>>
      BY <2>2 DEF HaltSymbol
    <3>. QED  BY <1>1, <1>2, <3>1, Outside DEF EngineInv
  <2>3. CASE Skip(r)
    <3>1. /\ Idle /\ Emit("AnalysisRunSkipped", r, {}) /\ processed \subseteq processed'
          /\ UNCHANGED <<reg, runs, phase, states, run, pos, artifacts, failures>>
      BY <2>3 DEF Skip
    <3>. QED  BY <1>1, <1>2, <3>1, Outside DEF EngineInv
  <2>4. CASE Begin(r)
    BY <1>1, <1>2, <2>4, RunBegins DEF EngineInv
  <2>. QED  BY <1>7, <2>1, <2>2, <2>3, <2>4
<1>8. ASSUME AtStep, pos' = pos + 1, UNCHANGED <<reg, runs, phase, run>>  PROVE UpIsAccepted'
  <2>1. pos \in Nat \ {0} /\ phase = "up" /\ Accepted(reg) /\ reg \in Registry
    BY <1>8 DEF EngineInv, TypeOK, UpIsAccepted, AtStep
  <2>2. Len(Plan(reg)) \in Nat  BY <2>1, PlanFacts
  <2>. QED  BY <1>8, <2>1, <2>2 DEF UpIsAccepted, AtStep
<1>9. CASE MissDependency \/ ModuleRaises
  <2>1. PICK type \in {"missing_dependency", "exception"} :
          /\ AtStep /\ FailStep(type)
          /\ type = "missing_dependency" => ~Available
    BY <1>9 DEF MissDependency, ModuleRaises
  <2>2. /\ type \in StepTypes /\ Emit(type, run, {Step}) /\ failures' = failures \cup {Step}
        /\ pos' = pos + 1
        /\ UNCHANGED <<reg, runs, phase, processed, states, run, artifacts>>
    BY <2>1 DEF FailStep, StepTypes
  <2>3. SaidIsBehind' /\ HandIsOwn' /\ CauseIsBehind' /\ FailuresHaveACause' /\ ArtifactsAreOwn'
    BY <2>1, <2>2, StepSaid
  <2>4. StatesAreBehind' /\ StateIsThreaded'
    BY <2>1, <2>2, StatesKept
  <2>. QED  BY <1>1, <1>2, <1>8, <2>1, <2>2, <2>3, <2>4 DEF EngineInv
<1>10. ASSUME NEW artifact \in BOOLEAN, NEW state \in BOOLEAN, ModuleReturns(artifact, state)
       PROVE  EngineInv'
  <2>1. /\ AtStep /\ Available /\ pos' = pos + 1
        /\ UNCHANGED <<reg, runs, phase, processed, run, failures>>
    BY <1>10 DEF ModuleReturns
  <2>2. SaidIsBehind' /\ HandIsOwn' /\ CauseIsBehind' /\ FailuresHaveACause' /\ ArtifactsAreOwn'
    <3>1. CASE artifact
      <4>1. Emit("ArtifactEmitted", run, {Step}) /\ artifacts' = artifacts \cup {Step}
        BY <1>10, <3>1 DEF ModuleReturns
      <4>2. "ArtifactEmitted" \in StepTypes  BY DEF StepTypes
      <4>. QED  BY <2>1, <4>1, <4>2, StepSaid
    <3>2. CASE ~artifact
      <4>1. UNCHANGED <<log, artifacts>>  BY <1>10, <3>2 DEF ModuleReturns
      <4>. QED  BY <2>1, <4>1, StepUnsaid
    <3>. QED  BY <3>1, <3>2
  <2>3. UNCHANGED log \/ Emit("ArtifactEmitted", run, {Step})
    BY <1>10 DEF ModuleReturns
  <2>4. StatesAreBehind' /\ StateIsThreaded'
    <3>1. CASE state
      <4>1. states' = Append(states, [symbol |-> run.symbol, module |-> Step, run |-> run.id,
                                      from |-> LatestState(run.symbol, Step)])
        BY <1>10, <3>1 DEF ModuleReturns
      <4>. QED  BY <2>1, <2>3, <4>1, StateReturned
    <3>2. CASE ~state
      <4>1. states' = states  BY <1>10, <3>2 DEF ModuleReturns
      <4>2. UNCHANGED log \/ \E type \in StepTypes : Emit(type, run, {Step})
        BY <2>3 DEF StepTypes
      <4>. QED  BY <2>1, <4>1, <4>2, StatesKept
    <3>. QED  BY <3>1, <3>2
  <2>. QED  BY <1>1, <1>2, <1>8, <2>1, <2>2, <2>4 DEF EngineInv
<1>11. CASE Complete
  BY <1>1, <1>2, <1>11, RunCompletes DEF EngineInv
<1>. QED  BY <1>4, <1>5, <1>6, <1>7, <1>9, <1>10, <1>11 DEF Next

\* The engine keeps its types: steps are modules of the registry.
THEOREM TypeCorrect == Spec => []TypeOK
<1>1. Init => EngineInv  BY EngineInit
<1>2. EngineInv /\ PlanIsLeast /\ [Next]_vars => EngineInv'  BY EngineStep
<1>3. EngineInv => TypeOK  BY DEF EngineInv
<1>. QED  BY <1>1, <1>2, <1>3, PlansAreLeast, PTL DEF Spec

\* Modules are isolated whatever they do: an artifact
\* has been made from artifacts of its own run, and a run in which something
\* failed has a module at the root of it that raised or returned nothing.
THEOREM ModulesStayIsolated == Spec => []ModulesAreIsolated
<1>1. Init => EngineInv  BY EngineInit
<1>2. EngineInv /\ PlanIsLeast /\ [Next]_vars => EngineInv'  BY EngineStep
<1>3. EngineInv => ModulesAreIsolated  BY DEF EngineInv, ModulesAreIsolated
<1>. QED  BY <1>1, <1>2, <1>3, PlansAreLeast, PTL DEF Spec

\* A module's states are one thread for each symbol, through failures, redelivery and restarts.
THEOREM StatesStayThreaded == Spec => []StateIsThreaded
<1>1. Init => EngineInv  BY EngineInit
<1>2. EngineInv /\ PlanIsLeast /\ [Next]_vars => EngineInv'  BY EngineStep
<1>3. EngineInv => StateIsThreaded  BY DEF EngineInv
<1>. QED  BY <1>1, <1>2, <1>3, PlansAreLeast, PTL DEF Spec
====
