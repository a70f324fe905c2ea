---- MODULE StateGateProofs ----
(* Theorems about the state gate, for any set of runs and any configuration.    *)
EXTENDS StateGate, SequenceTheorems, TLAPS

\* What consume appends to the records for one run: nothing, one event, or a
\* reset and the decision it is for.
RunEvents(r) ==
  {<<>>} \cup {<<e>> : e \in {x \in StateEvent : x.run = r}}
         \cup {<<Reset(r), g>> : g \in {x \in StateEvent : x.run = r /\ IsGate(x)}}

\* The events made for a run are of that run and well formed.
LEMMA EventsOfRun ==
  ASSUME NEW r \in Run, NEW p
  PROVE  /\ Reset(r) \in StateEvent /\ Reset(r).run = r
         /\ Halted(r) \in StateEvent /\ Halted(r).run = r
         /\ Evaluate(r, p) \in StateEvent /\ Evaluate(r, p).run = r /\ IsGate(Evaluate(r, p))
BY DEF Reset, Halted, Evaluate, Evaluated, StateEvent, IsGate

LEMMA TwoEvents ==
  ASSUME NEW a, NEW b
  PROVE  /\ <<a>> \o <<b>> = <<a, b>>
         /\ SubSeq(<<a, b>>, 1, 1) = <<a>>
         /\ Len(<<a, b>>) = 2 /\ Len(<<a>>) = 1
<1> DEFINE S == {a, b}
           one == <<a>>
           two == <<a, b>>
           sub == SubSeq(two, 1, 1)
           app == Append(one, b)
<1>1. one \in Seq(S) /\ two \in Seq(S) /\ a \in S /\ b \in S
  OBVIOUS
<1>2. Len(one) = 1 /\ one[1] = a /\ Len(two) = 2 /\ two[1] = a /\ two[2] = b
  OBVIOUS
<1> HIDE DEF S, one, two
<1>3. app = one \o <<b>>
  BY <1>1, AppendIsConcat
<1>4. app \in Seq(S) /\ Len(app) = 2 /\ app[1] = a /\ app[2] = b
  <2>1. /\ app \in Seq(S)
        /\ Len(app) = Len(one) + 1
        /\ \A i \in 1..Len(one) : app[i] = one[i]
        /\ app[Len(one) + 1] = b
    BY <1>1, AppendProperties
  <2> HIDE DEF app
  <2>2. QED BY <1>2, <2>1
<1>5. sub \in Seq(S) /\ Len(sub) = 1 /\ sub[1] = a
  BY <1>1, <1>2, SubSeqProperties
<1> HIDE DEF sub, app
<1>6. app = two
  BY <1>1, <1>2, <1>4, SeqEqual
<1>7. sub = one
  BY <1>1, <1>2, <1>5, SeqEqual
<1>8. QED BY <1>2, <1>3, <1>6, <1>7 DEF sub, one, two, app

\* A run yields its decision, preceded by a reset or not.
LEMMA StateEventsShape ==
  ASSUME NEW r \in Run, NEW p
  PROVE  \/ StateEvents(r, p) = <<Evaluate(r, p)>>
         \/ StateEvents(r, p) = <<Reset(r), Evaluate(r, p)>>
<1>1. CASE Gap(r)
  <2>1. StateEvents(r, p) = <<Reset(r)>> \o <<Evaluate(r, p)>>
    BY <1>1 DEF StateEvents
  <2>2. QED BY <2>1, TwoEvents
<1>2. CASE ~Gap(r)
  <2>1. StateEvents(r, p) = <<>> \o <<Evaluate(r, p)>>
    BY <1>2 DEF StateEvents
  <2>2. QED BY <2>1
<1>3. QED BY <1>1, <1>2

LEMMA StateEventsOfRun ==
  ASSUME NEW r \in Run, NEW p
  PROVE  /\ StateEvents(r, p) \in RunEvents(r)
         /\ Len(StateEvents(r, p)) \in {1, 2}
<1>1. /\ Evaluate(r, p) \in {x \in StateEvent : x.run = r /\ IsGate(x)}
      /\ Evaluate(r, p) \in {x \in StateEvent : x.run = r}
  BY EventsOfRun
<1>2. CASE StateEvents(r, p) = <<Evaluate(r, p)>>
  BY <1>1, <1>2 DEF RunEvents
<1>3. CASE StateEvents(r, p) = <<Reset(r), Evaluate(r, p)>>
  BY <1>1, <1>3 DEF RunEvents
<1>4. QED BY <1>2, <1>3, StateEventsShape

\* What is left of a run's events when an append raises.
LEMMA PartOfStateEvents ==
  ASSUME NEW r \in Run, NEW p, NEW n \in 0..1, n < Len(StateEvents(r, p))
  PROVE  SubSeq(StateEvents(r, p), 1, n) \in RunEvents(r)
<1>1. CASE n = 0
  <2>1. SubSeq(StateEvents(r, p), 1, 0) = <<>>
    BY StateEventsShape
  <2>2. QED BY <1>1, <2>1 DEF RunEvents
<1>2. CASE n = 1
  <2>1. StateEvents(r, p) = <<Reset(r), Evaluate(r, p)>>
    <3>1. StateEvents(r, p) # <<Evaluate(r, p)>>
      BY <1>2, TwoEvents
    <3>2. QED BY <3>1, StateEventsShape
  <2>2. SubSeq(StateEvents(r, p), 1, 1) = <<Reset(r)>>
    BY <2>1, TwoEvents
  <2>3. QED BY <1>2, <2>2, EventsOfRun DEF RunEvents
<1>3. QED BY <1>1, <1>2

\* That is at most the reset: the decision comes last.
LEMMA PartIsReset ==
  ASSUME NEW r \in Run, NEW p, NEW n \in 0..1, n < Len(StateEvents(r, p)),
         NEW i \in 1..Len(SubSeq(StateEvents(r, p), 1, n))
  PROVE  SubSeq(StateEvents(r, p), 1, n)[i] = Reset(r)
<1>1. n # 0
  <2>1. SubSeq(StateEvents(r, p), 1, 0) = <<>>
    BY StateEventsShape
  <2>2. QED BY <2>1, EmptySeq
<1>2. StateEvents(r, p) = <<Reset(r), Evaluate(r, p)>>
  <2>1. StateEvents(r, p) # <<Evaluate(r, p)>>
    BY <1>1, TwoEvents
  <2>2. QED BY <2>1, StateEventsShape
<1>3. SubSeq(StateEvents(r, p), 1, n) = <<Reset(r)>>
  <2>1. SubSeq(StateEvents(r, p), 1, 1) = <<Reset(r)>>
    BY <1>2, TwoEvents
  <2>2. n = 1 BY <1>1
  <2>3. QED BY <2>1, <2>2
<1> DEFINE x == Reset(r)
           evts == SubSeq(StateEvents(r, p), 1, n)
<1>4. evts = <<x>> /\ i \in 1..Len(evts) BY <1>3
<1> HIDE DEF x, evts
<1>5. evts[i] = x BY <1>4
<1>6. QED BY <1>5 DEF x, evts

LEMMA PartIsUndecided ==
  ASSUME NEW r \in Run, NEW p, NEW n \in 0..1, n < Len(StateEvents(r, p)),
         NEW i \in 1..Len(SubSeq(StateEvents(r, p), 1, n))
  PROVE  ~IsGate(SubSeq(StateEvents(r, p), 1, n)[i])
<1>1. ~IsGate(Reset(r)) BY DEF IsGate, Reset
<1>2. QED BY <1>1, PartIsReset

LEMMA RunEventsAreEvents ==
  ASSUME NEW r \in Run, NEW evts \in RunEvents(r)
  PROVE  /\ evts \in Seq(StateEvent)
         /\ Len(evts) \in 0..2
         /\ \A k \in 1..Len(evts) : evts[k].run = r
         /\ Len(evts) = 2 => evts[1] = Reset(r) /\ IsGate(evts[2])
<1>1. CASE evts = <<>>
  BY <1>1, EmptySeq
<1>2. ASSUME NEW e \in StateEvent, e.run = r, evts = <<e>>
      PROVE  /\ evts \in Seq(StateEvent)
             /\ Len(evts) = 1 /\ evts[1].run = r
  BY <1>2
<1>3. ASSUME NEW g \in StateEvent, g.run = r, IsGate(g), evts = <<Reset(r), g>>
      PROVE  /\ evts \in Seq(StateEvent)
             /\ Len(evts) = 2 /\ evts[1].run = r /\ evts[2].run = r
             /\ evts[1] = Reset(r) /\ IsGate(evts[2])
  BY <1>3, EventsOfRun
<1>4. QED BY <1>1, <1>2, <1>3 DEF RunEvents

----
\* Type correctness

LEMMA RunSymbol == ASSUME NEW r \in Run PROVE r.symbol \in Symbol
BY DEF Symbol

LEMMA TypeInit == ASSUME Init PROVE TypeOK
<1>1. records \in Seq(StateEvent) /\ emitted \in Seq(StateEvent)
  BY EmptySeq DEF Init
<1>2. restarts \in 0..MaxRestarts
  BY StateGateAssumption DEF Init
<1>3. QED BY <1>1, <1>2 DEF Init, TypeOK

LEMMA RecordedType ==
  ASSUME TypeOK, NEW r \in Run, NEW evts \in RunEvents(r), Recorded(r, evts)
  PROVE  records' \in Seq(StateEvent) /\ snapTs' \in [Symbol -> Nat]
<1>1. evts \in Seq(StateEvent) BY RunEventsAreEvents
<1>2. records' \in Seq(StateEvent)
  BY <1>1, ConcatProperties DEF TypeOK, Recorded
<1>3. snapTs' \in [Symbol -> Nat]
  BY RunSymbol, StateGateAssumption DEF TypeOK, Recorded
<1>4. QED BY <1>2, <1>3

LEMMA DecideType ==
  ASSUME TypeOK, NEW r \in Run, NEW t \in EventType, Decide(r, t)
  PROVE  /\ parts' \in [Run -> SUBSET EventType]
         /\ processed' \subseteq Run
         /\ lastTs' \in [Symbol -> Nat]
         /\ machineTs' \in [Symbol -> Nat]
BY RunSymbol, StateGateAssumption DEF TypeOK, Decide, Released

LEMMA TypeStep == ASSUME TypeOK, [Next]_vars PROVE TypeOK'
<1>1. CASE UNCHANGED vars
  BY <1>1 DEF TypeOK, vars
<1>2. CASE Restart
  <2>1. RecordedRuns \subseteq Run
    <3>1. ASSUME NEW i \in 1..Len(records) PROVE records[i].run \in Run
      <4>1. records[i] \in StateEvent BY ElementOfSeq DEF TypeOK
      <4>2. QED BY <4>1 DEF StateEvent
    <3>2. QED BY <3>1 DEF RecordedRuns
  <2>2. restarts' \in 0..MaxRestarts
    BY <1>2, StateGateAssumption DEF Restart, TypeOK
  <2>3. QED BY <1>2, <2>1, <2>2 DEF Restart, TypeOK, storeVars
<1>3. ASSUME NEW r \in Run, NEW t \in EventsOf(r), Consume(r, t) PROVE TypeOK'
  <2>1. t \in EventType BY DEF EventsOf, EventType
  <2>2. CASE Ignore(r)
    BY <2>2 DEF Ignore, TypeOK, vars
  <2>3. CASE DropOld(r)
    BY <2>3 DEF DropOld, TypeOK, storeVars
  <2>4. CASE Collect(r, t)
    BY <2>1, <2>4 DEF Collect, TypeOK, storeVars
  <2>5. CASE EmitGate(r, t)
    <3>1. Recorded(r, StateEvents(r, parts[r] \cup {t})) /\ Decide(r, t)
      BY <2>5 DEF EmitGate
    <3>2. StateEvents(r, parts[r] \cup {t}) \in Seq(StateEvent)
      BY StateEventsOfRun, RunEventsAreEvents
    <3>3. emitted' \in Seq(StateEvent)
      BY <2>5, <3>2, ConcatProperties DEF EmitGate, TypeOK
    <3>4. QED BY <2>1, <2>5, <3>1, <3>3, DecideType, RecordedType, StateEventsOfRun
             DEF EmitGate, TypeOK
  <2>6. ASSUME NEW stored \in BOOLEAN, HaltBlocked(r, t, stored) PROVE TypeOK'
    <3> DEFINE evts == IF stored THEN <<Halted(r)>> ELSE <<>>
    <3>1. Recorded(r, evts) /\ Decide(r, t)
      BY <2>6 DEF HaltBlocked
    <3>2. evts \in RunEvents(r)
      BY EventsOfRun DEF RunEvents
    <3>3. emitted' \in Seq(StateEvent)
      BY <2>6, EventsOfRun, AppendProperties DEF HaltBlocked, TypeOK
    <3> HIDE DEF evts
    <3>4. QED BY <2>1, <2>6, <3>1, <3>2, <3>3, DecideType, RecordedType DEF HaltBlocked, TypeOK
  <2>7. ASSUME NEW n \in 0..1, HaltUnrecorded(r, t, n) PROVE TypeOK'
    <3> DEFINE evts == StateEvents(r, parts[r] \cup {t})
    <3>1. Recorded(r, SubSeq(evts, 1, n)) /\ Decide(r, t) /\ n < Len(evts)
      BY <2>7 DEF HaltUnrecorded
    <3>2. SubSeq(evts, 1, n) \in RunEvents(r)
      BY <3>1, PartOfStateEvents
    <3>3. FailedOutput(r, evts) \in Seq(StateEvent)
      BY EventsOfRun DEF FailedOutput
    <3>4. emitted' \in Seq(StateEvent)
      BY <2>7, <3>3, ConcatProperties DEF HaltUnrecorded, TypeOK
    <3>5. halted' \in BOOLEAN /\ UNCHANGED <<maxPending, restarts>>
      BY <2>7 DEF HaltUnrecorded
    <3> HIDE DEF evts
    <3>6. QED BY <2>1, <3>1, <3>2, <3>4, <3>5, DecideType, RecordedType DEF TypeOK
  <2>8. QED BY <1>3, <2>2, <2>3, <2>4, <2>5, <2>6, <2>7 DEF Consume
<1>4. QED BY <1>1, <1>2, <1>3 DEF Next

\* Every variable of the gate keeps its type: what it records and returns are
\* well-formed state gate events of runs it was given.
THEOREM TypeCorrect == Spec => []TypeOK
<1>1. Init => TypeOK BY TypeInit
<1>2. TypeOK /\ [Next]_vars => TypeOK' BY TypeStep
<1>3. QED BY <1>1, <1>2, PTL DEF Spec

----
\* Records move forward in time

\* The snapshot of a symbol bounds its records, and the assembler of a working
\* gate is never behind the snapshots.
Bounded == \A i \in 1..Len(records) : records[i].run.ts <= snapTs[records[i].run.symbol]
NotBehind == ~halted => \A s \in Symbol : snapTs[s] <= lastTs[s]

ForwardInv == TypeOK /\ RecordsMoveForward /\ Bounded /\ NotBehind

\* Where the records of a run go: after all others, all of the run.
LEMMA RecordedWhere ==
  ASSUME TypeOK, NEW r \in Run, NEW evts \in RunEvents(r), Recorded(r, evts)
  PROVE  /\ Len(records) \in Nat /\ Len(evts) \in 0..2
         /\ Len(records') = Len(records) + Len(evts)
         /\ \A i \in 1..Len(records) : records'[i] = records[i]
         /\ \A i \in Len(records)+1..Len(records') :
              /\ records'[i] = evts[i - Len(records)]
              /\ records'[i].run = r
<1>1. evts \in Seq(StateEvent) /\ Len(evts) \in 0..2
  BY RunEventsAreEvents
<1>2. records \in Seq(StateEvent) /\ Len(records) \in Nat
  BY LenProperties DEF TypeOK
<1>3. records' = records \o evts
  BY DEF Recorded
<1>4. /\ Len(records') = Len(records) + Len(evts)
      /\ \A i \in 1..Len(records) + Len(evts) :
           records'[i] = IF i <= Len(records) THEN records[i] ELSE evts[i - Len(records)]
  BY <1>1, <1>2, <1>3, ConcatProperties
<1>5. ASSUME NEW i \in Len(records)+1..Len(records')
      PROVE  records'[i] = evts[i - Len(records)] /\ records'[i].run = r
  <2>1. i - Len(records) \in 1..Len(evts)
    BY <1>1, <1>2, <1>4
  <2>2. records'[i] = evts[i - Len(records)]
    BY <1>1, <1>2, <1>4
  <2>3. QED BY <2>1, <2>2, RunEventsAreEvents
<1>6. QED BY <1>1, <1>2, <1>4, <1>5

LEMMA RecordTypes ==
  ASSUME TypeOK, NEW i \in 1..Len(records)
  PROVE  /\ records[i].run \in Run
         /\ records[i].run.symbol \in Symbol
         /\ records[i].run.ts \in Nat
<1>1. records[i] \in StateEvent
  BY ElementOfSeq DEF TypeOK
<1>2. records[i].run \in Run
  BY <1>1 DEF StateEvent
<1>3. QED BY <1>2, RunSymbol, StateGateAssumption

LEMMA TwoPlaces ==
  ASSUME NEW n \in Nat, NEW m \in 0..2, NEW i \in Nat, NEW j \in Nat,
         i < j, n < i, j <= n + m
  PROVE  i = n + 1 /\ j = n + 2 /\ m = 2
OBVIOUS

LEMMA RecordedForward ==
  ASSUME TypeOK, RecordsMoveForward, Bounded,
         NEW r \in Run, snapTs[r.symbol] < r.ts,
         NEW evts \in RunEvents(r), Recorded(r, evts)
  PROVE  RecordsMoveForward' /\ Bounded'
<1> DEFINE n == Len(records)
<1>1. /\ n \in Nat /\ Len(evts) \in 0..2
      /\ Len(records') = n + Len(evts)
      /\ \A i \in 1..n : records'[i] = records[i]
      /\ \A i \in n+1..Len(records') :
           records'[i] = evts[i - n] /\ records'[i].run = r
  BY RecordedWhere
<1>2. r.ts \in Nat /\ r.symbol \in Symbol /\ snapTs \in [Symbol -> Nat]
  BY RunSymbol, StateGateAssumption DEF TypeOK
<1>3. \A i \in 1..n : /\ records[i].run \in Run
                      /\ records[i].run.symbol \in Symbol
                      /\ records[i].run.ts \in Nat
                      /\ records[i].run.ts <= snapTs[records[i].run.symbol]
  BY RecordTypes DEF Bounded
<1>4. RecordsMoveForward'
  <2> SUFFICES ASSUME NEW i \in 1..Len(records'), NEW j \in 1..Len(records'), i < j,
                      records'[i].run.symbol = records'[j].run.symbol
               PROVE  \/ records'[i].run.ts < records'[j].run.ts
                      \/ /\ j = i + 1
                         /\ records'[i] = Reset(records'[j].run)
                         /\ IsGate(records'[j])
    BY DEF RecordsMoveForward, Reset, IsGate
  <2>1. CASE j <= n
    <3>1. i \in 1..n /\ j \in 1..n /\ records'[i] = records[i] /\ records'[j] = records[j]
      BY <1>1, <2>1
    <3>2. QED BY <3>1 DEF RecordsMoveForward
  <2>2. CASE i <= n /\ j > n
    <3>1. i \in 1..n /\ records'[i] = records[i] /\ records'[j].run = r
      BY <1>1, <2>2
    <3>2. records[i].run.ts < r.ts
      BY <1>2, <1>3, <3>1
    <3>3. QED BY <3>1, <3>2
  <2>3. CASE i > n
    <3>1. i = n + 1 /\ j = n + 2 /\ Len(evts) = 2
      <4>1. /\ n \in Nat /\ Len(evts) \in 0..2 /\ i \in Nat /\ j \in Nat
            /\ i < j /\ n < i /\ j <= n + Len(evts)
        BY <1>1, <2>3
      <4>2. QED BY <4>1, TwoPlaces
    <3>2. records'[i] = evts[1] /\ records'[j] = evts[2] /\ records'[j].run = r
      BY <1>1, <3>1
    <3>3. evts[1] = Reset(r) /\ IsGate(evts[2])
      BY <3>1, RunEventsAreEvents
    <3>4. QED BY <3>1, <3>2, <3>3
  <2>4. QED BY <1>1, <2>1, <2>2, <2>3
<1>5. Bounded'
  <2> SUFFICES ASSUME NEW i \in 1..Len(records')
               PROVE  records'[i].run.ts <= snapTs'[records'[i].run.symbol]
    BY DEF Bounded
  <2>1. CASE evts = <<>>
    <3>1. snapTs' = snapTs /\ Len(evts) = 0
      BY <2>1, EmptySeq DEF Recorded
    <3>2. i \in 1..n /\ records'[i] = records[i]
      BY <1>1, <3>1
    <3>3. QED BY <1>3, <3>1, <3>2
  <2>2. CASE evts # <<>>
    <3>1. snapTs' = [snapTs EXCEPT ![r.symbol] = r.ts]
      BY <2>2 DEF Recorded
    <3>2. CASE i <= n
      <4>1. i \in 1..n /\ records'[i] = records[i]
        BY <1>1, <3>2
      <4>2. CASE records[i].run.symbol = r.symbol
        BY <1>2, <1>3, <3>1, <4>1, <4>2
      <4>3. CASE records[i].run.symbol # r.symbol
        BY <1>2, <1>3, <3>1, <4>1, <4>3
      <4>4. QED BY <4>2, <4>3
    <3>3. CASE i > n
      <4>1. records'[i].run = r
        BY <1>1, <3>3
      <4>2. QED BY <1>2, <3>1, <4>1
    <3>4. QED BY <1>1, <3>2, <3>3
  <2>3. QED BY <2>1, <2>2
<1>6. QED BY <1>4, <1>5

\* A run the assembler lets through is newer than all records of its symbol.
LEMMA CurrentIsNewer ==
  ASSUME TypeOK, NotBehind, NEW r \in Run, Current(r)
  PROVE  snapTs[r.symbol] < r.ts
<1>1. r.symbol \in Symbol /\ r.ts \in Nat \ {0}
  BY RunSymbol, StateGateAssumption
<1>2. snapTs[r.symbol] <= lastTs[r.symbol]
  BY <1>1 DEF NotBehind, Current
<1>3. lastTs[r.symbol] = 0 \/ ~(r.ts <= lastTs[r.symbol])
  BY DEF Current, IsOld
<1>4. snapTs[r.symbol] \in Nat /\ lastTs[r.symbol] \in Nat
  BY <1>1 DEF TypeOK
<1>5. QED BY <1>1, <1>2, <1>3, <1>4

LEMMA ForwardStep == ASSUME ForwardInv, [Next]_vars PROVE ForwardInv'
<1> USE DEF ForwardInv
<1>1. TypeOK' BY TypeStep
<1>2. ASSUME UNCHANGED <<records, snapTs>> PROVE RecordsMoveForward' /\ Bounded'
  BY <1>2 DEF RecordsMoveForward, Bounded
<1>3. CASE UNCHANGED vars
  BY <1>1, <1>2, <1>3 DEF vars, NotBehind
<1>4. CASE Restart
  <2>1. \A s \in Symbol : snapTs'[s] <= lastTs'[s]
    BY <1>4 DEF Restart, storeVars, TypeOK
  <2>2. QED BY <1>1, <1>2, <1>4, <2>1 DEF Restart, storeVars, NotBehind
<1>5. ASSUME NEW r \in Run, NEW t \in EventsOf(r), Consume(r, t) PROVE ForwardInv'
  <2>1. CASE Ignore(r)
    BY <1>1, <1>2, <2>1 DEF Ignore, vars, NotBehind
  <2>2. CASE DropOld(r)
    BY <1>1, <1>2, <2>2 DEF DropOld, storeVars, NotBehind
  <2>3. CASE Collect(r, t)
    BY <1>1, <1>2, <2>3 DEF Collect, storeVars, NotBehind
  <2>4. ASSUME Decide(r, t), NEW evts \in RunEvents(r), Recorded(r, evts)
        PROVE  RecordsMoveForward' /\ Bounded'
    <3>1. snapTs[r.symbol] < r.ts
      BY <2>4, CurrentIsNewer DEF Decide
    <3>2. QED BY <2>4, <3>1, RecordedForward
  <2>5. CASE EmitGate(r, t)
    <3> DEFINE evts == StateEvents(r, parts[r] \cup {t})
    <3>1. Decide(r, t) /\ Recorded(r, evts) /\ evts \in RunEvents(r) /\ ~halted
      BY <2>5, StateEventsOfRun DEF EmitGate, Decide, Current
    <3>2. lastTs' = [lastTs EXCEPT ![r.symbol] = r.ts]
      BY <3>1 DEF Decide, Released
    <3>3. snapTs' \in {snapTs, [snapTs EXCEPT ![r.symbol] = r.ts]}
      BY <3>1 DEF Recorded
    <3>4. snapTs[r.symbol] < r.ts /\ r.symbol \in Symbol /\ r.ts \in Nat
      BY <3>1, CurrentIsNewer, RunSymbol, StateGateAssumption DEF Decide
    <3>5. NotBehind'
      <4>1. SUFFICES ASSUME NEW s \in Symbol PROVE snapTs'[s] <= lastTs'[s]
        BY DEF NotBehind
      <4>2. snapTs[s] <= lastTs[s] /\ snapTs[s] \in Nat /\ lastTs[s] \in Nat
        BY <3>1 DEF NotBehind, TypeOK
      <4>3. snapTs \in [Symbol -> Nat] /\ lastTs \in [Symbol -> Nat]
        BY DEF TypeOK
      <4>4. CASE s = r.symbol
        BY <3>2, <3>3, <3>4, <4>2, <4>3, <4>4
      <4>5. CASE s # r.symbol
        BY <3>2, <3>3, <4>2, <4>3, <4>5
      <4>6. QED BY <4>4, <4>5
    <3> HIDE DEF evts
    <3>6. QED BY <1>1, <2>4, <3>1, <3>5
  <2>6. ASSUME NEW stored \in BOOLEAN, HaltBlocked(r, t, stored) PROVE ForwardInv'
    <3> DEFINE evts == IF stored THEN <<Halted(r)>> ELSE <<>>
    <3>1. Decide(r, t) /\ Recorded(r, evts) /\ halted'
      BY <2>6 DEF HaltBlocked
    <3>2. evts \in RunEvents(r)
      BY EventsOfRun DEF RunEvents
    <3> HIDE DEF evts
    <3>3. QED BY <1>1, <2>4, <3>1, <3>2 DEF NotBehind
  <2>7. ASSUME NEW k \in 0..1, HaltUnrecorded(r, t, k) PROVE ForwardInv'
    <3> DEFINE evts == SubSeq(StateEvents(r, parts[r] \cup {t}), 1, k)
    <3>1. /\ Decide(r, t) /\ Recorded(r, evts) /\ halted'
          /\ k < Len(StateEvents(r, parts[r] \cup {t}))
      BY <2>7 DEF HaltUnrecorded
    <3>2. evts \in RunEvents(r)
      BY <3>1, PartOfStateEvents
    <3> HIDE DEF evts
    <3>3. QED BY <1>1, <2>4, <3>1, <3>2 DEF NotBehind
  <2>8. QED BY <1>5, <2>1, <2>2, <2>3, <2>5, <2>6, <2>7 DEF Consume
<1>6. QED BY <1>3, <1>4, <1>5 DEF Next

LEMMA ForwardInit == ASSUME Init PROVE ForwardInv
<1>1. TypeOK BY TypeInit
<1>2. Len(records) = 0
  BY EmptySeq DEF Init
<1>3. RecordsMoveForward /\ Bounded
  BY <1>2 DEF RecordsMoveForward, Bounded
<1>4. NotBehind
  BY DEF Init, NotBehind
<1>5. QED BY <1>1, <1>3, <1>4 DEF ForwardInv

\* A symbol's records are of later and later runs, but for a reset and the
\* decision it is for: no run is decided twice, whatever is delivered again,
\* fails to be recorded, or reaches the next processor.
THEOREM RecordsForward == Spec => []RecordsMoveForward
<1>1. Init => ForwardInv BY ForwardInit
<1>2. ForwardInv /\ [Next]_vars => ForwardInv' BY ForwardStep
<1>3. ForwardInv => RecordsMoveForward BY DEF ForwardInv
<1>4. QED BY <1>1, <1>2, <1>3, PTL DEF Spec

----
\* Restarts and resets

\* While the gate works, assembler, state machine and store know of the same
\* times, what is processed is old by them, and a snapshot is that of the last
\* record of its symbol.
Agree == ~halted => lastTs = snapTs /\ machineTs = snapTs
DoneIsOld == ~halted => \A r \in processed : IsOld(r, lastTs)

LastOf(s, i) == i \in RecordsOf(s) /\ \A j \in RecordsOf(s) : j <= i
LatestIsSnapshot ==
  \A s \in Symbol : \/ RecordsOf(s) = {} /\ snapTs[s] = 0
                    \/ \E i \in RecordsOf(s) : LastOf(s, i) /\ records[i].run.ts = snapTs[s]

\* What ResetsMarkGaps says of one record.
Earlier(j) == {i \in RecordsOf(records[j].run.symbol) : i < j /\ records[i].run # records[j].run}
AfterGap(j) ==
  /\ Earlier(j) # {}
  /\ \A i \in Earlier(j) : records[j].run.ts - records[i].run.ts > MaxGap
Marked(j) ==
  IsGate(records[j]) => (AfterGap(j) <=> j > 1 /\ records[j - 1] = Reset(records[j].run))

GateInv == ForwardInv /\ Agree /\ DoneIsOld /\ LatestIsSnapshot /\ \A j \in 1..Len(records) : Marked(j)

LEMMA RecordedLatest ==
  ASSUME TypeOK, LatestIsSnapshot, NEW r \in Run, NEW evts \in RunEvents(r), Recorded(r, evts)
  PROVE  LatestIsSnapshot'
<1>. DEFINE n == Len(records)
<1>1. /\ n \in Nat /\ Len(evts) \in 0..2
      /\ Len(records') = n + Len(evts)
      /\ \A i \in 1..n : records'[i] = records[i]
      /\ \A i \in n+1..Len(records') : records'[i].run = r
  BY RecordedWhere
<1>2. snapTs \in [Symbol -> Nat] /\ r.symbol \in Symbol  BY RunSymbol DEF TypeOK
<1>3. evts = <<>> => Len(evts) = 0  BY EmptySeq
<1>4. evts # <<>> => Len(evts) # 0  BY RunEventsAreEvents, EmptySeq
<1>. SUFFICES ASSUME NEW s \in Symbol
     PROVE  \/ RecordsOf(s)' = {} /\ snapTs'[s] = 0
            \/ \E i \in RecordsOf(s)' : LastOf(s, i)' /\ records'[i].run.ts = snapTs'[s]
  BY DEF LatestIsSnapshot
<1>5. CASE evts = <<>> \/ s # r.symbol
  <2>1. RecordsOf(s)' = RecordsOf(s)  BY <1>1, <1>3, <1>5 DEF RecordsOf
  <2>2. snapTs'[s] = snapTs[s]  BY <1>2, <1>5 DEF Recorded
  <2>3. \A i \in RecordsOf(s) : records'[i] = records[i]  BY <1>1 DEF RecordsOf
  <2>. QED  BY <2>1, <2>2, <2>3 DEF LatestIsSnapshot, LastOf
<1>6. CASE evts # <<>> /\ s = r.symbol
  <2>1. PICK m \in Nat : m = Len(records')  BY <1>1
  <2>2. m \in n+1..Len(records')  BY <1>1, <1>4, <1>6, <2>1
  <2>3. m \in 1..Len(records') /\ records'[m].run = r  BY <1>1, <2>2
  <2>4. m \in RecordsOf(s)' /\ \A j \in RecordsOf(s)' : j <= m
    BY <1>1, <1>6, <2>1, <2>3 DEF RecordsOf
  <2>5. snapTs'[s] = r.ts  BY <1>2, <1>6 DEF Recorded
  <2>. QED  BY <2>3, <2>4, <2>5 DEF LastOf
<1>. QED  BY <1>5, <1>6

\* A record keeps its mark: what came before it stays.
LEMMA MarksStay ==
  ASSUME TypeOK, NEW r \in Run, NEW evts \in RunEvents(r), Recorded(r, evts),
         NEW j \in 1..Len(records), Marked(j)
  PROVE  Marked(j)'
<1>. DEFINE n == Len(records)
<1>1. /\ n \in Nat /\ Len(evts) \in 0..2
      /\ Len(records') = n + Len(evts)
      /\ \A i \in 1..n : records'[i] = records[i]
  BY RecordedWhere
<1>2. records'[j] = records[j] /\ (j > 1 => records'[j - 1] = records[j - 1])  BY <1>1
<1>3. Earlier(j)' = Earlier(j)
  <2>1. \A i : i \in Earlier(j)' <=> i \in Earlier(j)  BY <1>1, <1>2 DEF Earlier, RecordsOf
  <2>. QED  BY <2>1
<1>4. \A i \in Earlier(j) : records'[i] = records[i]  BY <1>1 DEF Earlier, RecordsOf
<1>. QED  BY <1>2, <1>3, <1>4 DEF Marked, AfterGap, IsGate, Reset

LEMMA OthersAreUnmarked ==
  ASSUME TypeOK, \A j \in 1..Len(records) : Marked(j),
         NEW r \in Run, NEW evts \in RunEvents(r), Recorded(r, evts),
         \A k \in 1..Len(evts) : ~IsGate(evts[k])
  PROVE  \A j \in 1..Len(records') : Marked(j)'
<1>. SUFFICES ASSUME NEW j \in 1..Len(records')  PROVE Marked(j)'  OBVIOUS
<1>1. /\ Len(records) \in Nat /\ Len(evts) \in 0..2
      /\ Len(records') = Len(records) + Len(evts)
      /\ \A i \in Len(records)+1..Len(records') : records'[i] = evts[i - Len(records)]
  BY RecordedWhere
<1>2. CASE j \in 1..Len(records)  BY <1>2, MarksStay
<1>3. CASE j \notin 1..Len(records)
  <2>1. j \in Len(records)+1..Len(records') /\ j - Len(records) \in 1..Len(evts)  BY <1>1, <1>3
  <2>2. ~IsGate(records'[j])  BY <1>1, <2>1
  <2>. QED  BY <2>2 DEF Marked, IsGate
<1>. QED  BY <1>2, <1>3

\* The gap the state machine sees is the one in the records.
LEMMA GapIsRecorded ==
  ASSUME TypeOK, Bounded, Agree, LatestIsSnapshot, ~halted, NEW r \in Run
  PROVE  Gap(r) <=> /\ RecordsOf(r.symbol) # {}
                    /\ \A i \in RecordsOf(r.symbol) : r.ts - records[i].run.ts > MaxGap
<1>. DEFINE s == r.symbol
<1>1. s \in Symbol /\ machineTs[s] = snapTs[s] /\ snapTs[s] \in Nat /\ r.ts \in Nat /\ MaxGap \in Nat
  BY RunSymbol, StateGateAssumption DEF Agree, TypeOK
<1>2. \A i \in RecordsOf(s) : /\ records[i].run.ts \in Nat \ {0}
                              /\ records[i].run.ts <= snapTs[s]
  BY RecordTypes, StateGateAssumption DEF RecordsOf, Bounded
<1>3. CASE RecordsOf(s) = {}
  <2>1. snapTs[s] = 0  BY <1>1, <1>3 DEF LatestIsSnapshot
  <2>. QED  BY <1>1, <1>3, <2>1 DEF Gap
<1>4. CASE RecordsOf(s) # {}
  <2>1. PICK i \in RecordsOf(s) : records[i].run.ts = snapTs[s]
    BY <1>1, <1>4 DEF LatestIsSnapshot
  <2>. QED  BY <1>1, <1>2, <1>4, <2>1 DEF Gap
<1>. QED  BY <1>3, <1>4

LEMMA DecisionIsMarked ==
  ASSUME GateInv, ~halted, NEW r \in Run, NEW p, snapTs[r.symbol] < r.ts,
         Recorded(r, StateEvents(r, p))
  PROVE  \A j \in 1..Len(records') : Marked(j)'
<1>. DEFINE n == Len(records)
            evts == StateEvents(r, p)
            s == r.symbol
<1>0. TypeOK /\ Bounded /\ Agree /\ LatestIsSnapshot /\ \A j \in 1..n : Marked(j)
  BY DEF GateInv, ForwardInv
<1>1. evts \in RunEvents(r) /\ Len(evts) \in {1, 2}  BY StateEventsOfRun
<1>2. /\ n \in Nat
      /\ Len(records') = n + Len(evts)
      /\ \A i \in 1..n : records'[i] = records[i]
      /\ \A i \in n+1..Len(records') : records'[i] = evts[i - n] /\ records'[i].run = r
  BY <1>0, <1>1, RecordedWhere
<1>3. \A i \in 1..n : records[i].run # r
  BY <1>0, RunSymbol, RecordTypes, StateGateAssumption DEF Bounded, TypeOK
<1>4. Reset(r).type = "StateReset" /\ Reset(r).run = r /\ ~IsGate(Reset(r))
  BY DEF Reset, IsGate
<1>5. PICK m \in Nat : m = Len(records')  BY <1>1, <1>2
<1>6. CASE Gap(r)
  <2>1. evts = <<Reset(r), Evaluate(r, p)>>
    BY <1>6, TwoEvents DEF StateEvents
  <2>2. m = n + 2 /\ records'[n + 1] = Reset(r) /\ records'[m].run = r
    BY <1>2, <1>5, <2>1, TwoEvents
  <2>3. Earlier(m)' = RecordsOf(s)
    BY <1>2, <1>3, <1>4, <2>2 DEF Earlier, RecordsOf
  <2>4. AfterGap(m)'
    <3>1. \A i \in RecordsOf(s) : records'[i] = records[i]  BY <1>2 DEF RecordsOf
    <3>. QED  BY <1>0, <1>6, <2>2, <2>3, <3>1, GapIsRecorded DEF AfterGap
  <2>5. Marked(m)'  BY <1>2, <2>2, <2>4 DEF Marked, Reset
  <2>6. ASSUME NEW j \in 1..Len(records')  PROVE Marked(j)'
    <3>1. j \in 1..n \/ j = n + 1 \/ j = m  BY <1>2, <1>5, <2>2
    <3>2. CASE j \in 1..n  BY <1>0, <1>1, <3>2, MarksStay
    <3>3. CASE j = n + 1  BY <1>4, <2>2, <3>3 DEF Marked, IsGate
    <3>. QED  BY <2>5, <3>1, <3>2, <3>3
  <2>. QED  BY <2>6
<1>7. CASE ~Gap(r)
  <2>1. evts = <<>> \o <<Evaluate(r, p)>>  BY <1>7 DEF StateEvents
  <2>2. evts = <<Evaluate(r, p)>>  BY <2>1
  <2>3. m = n + 1 /\ records'[m].run = r  BY <1>2, <1>5, <2>2, TwoEvents
  <2>4. Earlier(m)' = RecordsOf(s)
    BY <1>2, <1>3, <2>3 DEF Earlier, RecordsOf
  <2>5. ~AfterGap(m)'
    <3>1. \A i \in RecordsOf(s) : records'[i] = records[i]  BY <1>2 DEF RecordsOf
    <3>. QED  BY <1>0, <1>7, <2>3, <2>4, <3>1, GapIsRecorded DEF AfterGap
  <2>6. ~(m > 1 /\ records'[m - 1] = Reset(r))
    <3>1. m > 1 => m - 1 \in 1..n /\ records'[m - 1].run # r  BY <1>2, <1>3, <2>3
    <3>. QED  BY <1>4, <3>1
  <2>7. Marked(m)'  BY <2>3, <2>5, <2>6 DEF Marked, Reset
  <2>8. ASSUME NEW j \in 1..Len(records')  PROVE Marked(j)'
    <3>1. j \in 1..n \/ j = m  BY <1>2, <1>5, <2>3
    <3>2. CASE j \in 1..n  BY <1>0, <1>1, <3>2, MarksStay
    <3>. QED  BY <2>7, <3>1, <3>2
  <2>. QED  BY <2>8
<1>. QED  BY <1>6, <1>7

\* What a working gate knows after a decision that is on record.
LEMMA DecisionIsKnown ==
  ASSUME GateInv, NEW r \in Run, NEW t, Decide(r, t),
         NEW evts, evts # <<>>, Recorded(r, evts)
  PROVE  Agree' /\ DoneIsOld'
<1>1. TypeOK /\ NotBehind /\ Current(r) /\ ~halted /\ lastTs = snapTs /\ machineTs = snapTs
  BY DEF GateInv, ForwardInv, Decide, Current, Agree
<1>2. snapTs' = [snapTs EXCEPT ![r.symbol] = r.ts] /\ lastTs' = snapTs' /\ machineTs' = snapTs'
  BY <1>1 DEF Decide, Released, Recorded
<1>3. /\ snapTs[r.symbol] < r.ts /\ r.symbol \in Symbol /\ r.ts \in Nat \ {0}
      /\ snapTs \in [Symbol -> Nat]
  BY <1>1, CurrentIsNewer, RunSymbol, StateGateAssumption DEF TypeOK
<1>4. ASSUME NEW q \in processed'  PROVE IsOld(q, lastTs')
  <2>1. CASE q = r  BY <1>2, <1>3, <2>1 DEF IsOld
  <2>2. CASE q # r
    <3>1. q \in processed  BY <1>4, <2>2 DEF Decide, Released
    <3>2. IsOld(q, lastTs) /\ q.symbol \in Symbol /\ q.ts \in Nat
      BY <1>1, <3>1, RunSymbol, StateGateAssumption DEF GateInv, DoneIsOld, TypeOK
    <3>3. CASE q.symbol = r.symbol  BY <1>1, <1>2, <1>3, <3>2, <3>3 DEF IsOld
    <3>4. CASE q.symbol # r.symbol  BY <1>1, <1>2, <1>3, <3>2, <3>4 DEF IsOld
    <3>. QED  BY <3>3, <3>4
  <2>. QED  BY <2>1, <2>2
<1>. QED  BY <1>2, <1>4 DEF Agree, DoneIsOld

\* The runs on record are old by the snapshots.
LEMMA RecordedIsOld ==
  ASSUME TypeOK, Bounded, NEW r \in RecordedRuns
  PROVE  IsOld(r, snapTs)
<1>1. PICK i \in 1..Len(records) : r = records[i].run  BY DEF RecordedRuns
<1>2. r.ts \in Nat \ {0} /\ r.ts <= snapTs[r.symbol] /\ snapTs[r.symbol] \in Nat
  BY <1>1, RecordTypes, StateGateAssumption DEF Bounded, TypeOK
<1>. QED  BY <1>2 DEF IsOld

LEMMA GateInit == ASSUME Init PROVE GateInv
<1>1. ForwardInv  BY ForwardInit
<1>2. Len(records) = 0  BY EmptySeq DEF Init
<1>3. Agree /\ DoneIsOld  BY DEF Init, Agree, DoneIsOld
<1>4. LatestIsSnapshot
  <2>1. \A s \in Symbol : RecordsOf(s) = {} /\ snapTs[s] = 0  BY <1>2 DEF RecordsOf, Init
  <2>. QED  BY <2>1 DEF LatestIsSnapshot
<1>. QED  BY <1>1, <1>2, <1>3, <1>4 DEF GateInv

LEMMA GateStep == ASSUME GateInv, [Next]_vars PROVE GateInv'
<1>1. ForwardInv'  BY ForwardStep DEF GateInv
<1>2. TypeOK /\ NotBehind /\ Bounded /\ LatestIsSnapshot /\ \A j \in 1..Len(records) : Marked(j)
  BY DEF GateInv, ForwardInv
<1>3. ASSUME UNCHANGED <<records, snapTs>>
      PROVE  LatestIsSnapshot' /\ \A j \in 1..Len(records') : Marked(j)'
  <2>1. LatestIsSnapshot'  BY <1>2, <1>3 DEF LatestIsSnapshot, LastOf, RecordsOf
  <2>2. ASSUME NEW j \in 1..Len(records')  PROVE Marked(j)'
    BY <1>2, <1>3, <2>2 DEF Marked, AfterGap, Earlier, RecordsOf, IsGate, Reset
  <2>. QED  BY <2>1, <2>2
<1>4. CASE UNCHANGED vars
  BY <1>1, <1>3, <1>4 DEF GateInv, vars, Agree, DoneIsOld, IsOld
<1>5. CASE Restart
  <2>1. UNCHANGED <<records, snapTs>> /\ lastTs' = snapTs /\ machineTs' = snapTs
        /\ processed' = RecordedRuns
    BY <1>5 DEF Restart, storeVars
  <2>2. Agree'  BY <2>1 DEF Agree
  <2>3. DoneIsOld'  BY <1>2, <2>1, RecordedIsOld DEF DoneIsOld, IsOld
  <2>. QED  BY <1>1, <1>3, <2>1, <2>2, <2>3 DEF GateInv
<1>6. ASSUME NEW r \in Run, NEW t \in EventsOf(r), Consume(r, t) PROVE GateInv'
  <2>1. CASE Ignore(r)
    BY <1>1, <1>3, <2>1 DEF Ignore, GateInv, vars, Agree, DoneIsOld, IsOld
  <2>2. CASE DropOld(r)
    <3>1. UNCHANGED <<records, snapTs, lastTs, machineTs, halted>>
      BY <2>2 DEF DropOld, storeVars
    <3>2. Agree'  BY <3>1 DEF GateInv, Agree
    <3>3. DoneIsOld'  BY <2>2, <3>1 DEF GateInv, DropOld, DoneIsOld, IsOld
    <3>. QED  BY <1>1, <1>3, <3>1, <3>2, <3>3 DEF GateInv
  <2>3. CASE Collect(r, t)
    <3>1. UNCHANGED <<records, snapTs, lastTs, machineTs, halted, processed>>
      BY <2>3 DEF Collect, storeVars
    <3>2. Agree' /\ DoneIsOld'  BY <3>1 DEF GateInv, Agree, DoneIsOld, IsOld
    <3>. QED  BY <1>1, <1>3, <3>1, <3>2 DEF GateInv
  <2>4. ASSUME Decide(r, t)  PROVE snapTs[r.symbol] < r.ts /\ ~halted
    BY <1>2, <2>4, CurrentIsNewer DEF Decide, Current
  <2>5. ASSUME Decide(r, t), halted', NEW evts \in RunEvents(r), Recorded(r, evts),
               \A k \in 1..Len(evts) : ~IsGate(evts[k])
        PROVE  GateInv'
    <3>1. LatestIsSnapshot'  BY <1>2, <2>5, RecordedLatest
    <3>2. \A j \in 1..Len(records') : Marked(j)'  BY <1>2, <2>5, OthersAreUnmarked
    <3>3. Agree' /\ DoneIsOld'  BY <2>5 DEF Agree, DoneIsOld
    <3>. QED  BY <1>1, <3>1, <3>2, <3>3 DEF GateInv
  <2>6. CASE EmitGate(r, t)
    <3>. DEFINE p == parts[r] \cup {t}
                evts == StateEvents(r, p)
    <3>1. Decide(r, t) /\ Recorded(r, evts)  BY <2>6 DEF EmitGate
    <3>2. evts \in RunEvents(r) /\ Len(evts) \in {1, 2}  BY StateEventsOfRun
    <3>3. evts # <<>>  BY <3>2, EmptySeq
    <3>4. \A j \in 1..Len(records') : Marked(j)'  BY <2>4, <3>1, DecisionIsMarked
    <3>. HIDE DEF evts
    <3>5. LatestIsSnapshot'  BY <1>2, <3>1, <3>2, RecordedLatest
    <3>6. Agree' /\ DoneIsOld'  BY <3>1, <3>3, DecisionIsKnown
    <3>. QED  BY <1>1, <3>4, <3>5, <3>6 DEF GateInv
  <2>7. ASSUME NEW stored \in BOOLEAN, HaltBlocked(r, t, stored) PROVE GateInv'
    <3>. DEFINE evts == IF stored THEN <<Halted(r)>> ELSE <<>>
    <3>1. Decide(r, t) /\ Recorded(r, evts) /\ halted'  BY <2>7 DEF HaltBlocked
    <3>2. evts \in RunEvents(r)  BY EventsOfRun DEF RunEvents
    <3>3. \A k \in 1..Len(evts) : ~IsGate(evts[k])
      <4>1. CASE stored
        <5>1. Len(<<Halted(r)>>) = 1 /\ <<Halted(r)>>[1] = Halted(r)  OBVIOUS
        <5>2. ~IsGate(Halted(r))  BY DEF Halted, IsGate
        <5>. QED  BY <4>1, <5>1, <5>2
      <4>2. CASE ~stored  BY <4>2, EmptySeq
      <4>. QED  BY <4>1, <4>2
    <3>. HIDE DEF evts
    <3>. QED  BY <2>5, <3>1, <3>2, <3>3
  <2>8. ASSUME NEW k \in 0..1, HaltUnrecorded(r, t, k) PROVE GateInv'
    <3>. DEFINE all == StateEvents(r, parts[r] \cup {t})
                evts == SubSeq(all, 1, k)
    <3>1. Decide(r, t) /\ Recorded(r, evts) /\ halted' /\ k < Len(all)
      BY <2>8 DEF HaltUnrecorded
    <3>2. evts \in RunEvents(r)  BY <3>1, PartOfStateEvents
    <3>3. \A i \in 1..Len(evts) : ~IsGate(evts[i])
      BY <3>1, PartIsUndecided
    <3>. HIDE DEF evts
    <3>. QED  BY <2>5, <3>1, <3>2, <3>3
  <2>. QED  BY <1>6, <2>1, <2>2, <2>3, <2>6, <2>7, <2>8 DEF Consume
<1>. QED  BY <1>4, <1>5, <1>6 DEF Next

\* A decision follows a reset of its run exactly when the records show that its
\* symbol was silent for too long: StateGateStateMachine.process_run sees the
\* gap whether it was there at the time or was replayed from the store.
THEOREM ResetsMark == Spec => []ResetsMarkGaps
<1>1. Init => GateInv  BY GateInit
<1>2. GateInv /\ [Next]_vars => GateInv'  BY GateStep
<1>3. GateInv => ResetsMarkGaps
  <2>1. ASSUME \A j \in 1..Len(records) : Marked(j)  PROVE ResetsMarkGaps
    BY <2>1 DEF Marked, AfterGap, Earlier, ResetsMarkGaps
  <2>. QED  BY <2>1 DEF GateInv
<1>. QED  BY <1>1, <1>2, <1>3, PTL DEF Spec

LEMMA ReplayedIsSnapshot ==
  ASSUME TypeOK, LatestIsSnapshot, NEW s \in Symbol
  PROVE  Replayed(s) = snapTs[s]
<1>1. CASE RecordsOf(s) = {}
  BY <1>1 DEF LatestIsSnapshot, Replayed
<1>2. CASE RecordsOf(s) # {}
  <2>1. PICK i \in RecordsOf(s) : LastOf(s, i) /\ records[i].run.ts = snapTs[s]
    BY <1>2 DEF LatestIsSnapshot
  <2>2. RecordsOf(s) \subseteq Nat  BY DEF RecordsOf
  <2>. DEFINE last == CHOOSE k \in RecordsOf(s) : \A j \in RecordsOf(s) : j <= k
  <2>3. last \in RecordsOf(s) /\ \A j \in RecordsOf(s) : j <= last
    BY <2>1 DEF LastOf
  <2>4. last = i
    <3>1. last <= i /\ i <= last /\ last \in Nat /\ i \in Nat  BY <2>1, <2>2, <2>3 DEF LastOf
    <3>. HIDE DEF last
    <3>. QED  BY <3>1
  <2>. QED  BY <1>2, <2>1, <2>4 DEF Replayed
<1>. QED  BY <1>1, <1>2

----
\* What is half assembled

\* The assembler has of a run only events of that run, and never enough of them:
\* what is ready is released in the same step.
AssembledInv ==
  /\ TypeOK
  /\ \A r \in Run : parts[r] \subseteq EventsOf(r) /\ ~Ready(r, parts[r])

LEMMA AssembledStep == ASSUME AssembledInv, [Next]_vars PROVE AssembledInv'
<1>1. TypeOK'  BY TypeStep DEF AssembledInv
<1>2. ASSUME NEW r \in Run, NEW p \in SUBSET EventsOf(r), ~Ready(r, p),
             parts' = [parts EXCEPT ![r] = p]
      PROVE  AssembledInv'
  <2>1. parts \in [Run -> SUBSET EventType]  BY DEF AssembledInv, TypeOK
  <2>2. \A q \in Run : parts'[q] = parts[q] \/ (q = r /\ parts'[q] = p)  BY <1>2, <2>1
  <2>3. \A q \in Run : parts'[q] \subseteq EventsOf(q) /\ ~Ready(q, parts'[q])
    BY <1>2, <2>2 DEF AssembledInv
  <2>. QED  BY <1>1, <2>3 DEF AssembledInv, Ready
<1>3. CASE parts' = parts
  BY <1>1, <1>3 DEF AssembledInv, Ready
<1>4. CASE Restart
  <2>1. \A r \in Run : parts'[r] = {}  BY <1>4 DEF Restart
  <2>. QED  BY <1>1, <2>1 DEF AssembledInv, Ready
<1>5. ASSUME NEW r \in Run, NEW t \in EventsOf(r), Consume(r, t) PROVE AssembledInv'
  <2>1. CASE Ignore(r) \/ DropOld(r)  BY <1>3, <2>1 DEF Ignore, DropOld, vars
  <2>2. CASE Collect(r, t)
    <3>1. parts[r] \cup {t} \in SUBSET EventsOf(r)  BY DEF AssembledInv
    <3>. QED  BY <1>2, <2>2, <3>1 DEF Collect
  <2>3. CASE Decide(r, t)
    <3>1. {} \in SUBSET EventsOf(r) /\ ~Ready(r, {})  BY DEF Ready
    <3>2. parts' = [parts EXCEPT ![r] = {}]  BY <2>3 DEF Decide, Released
    <3>. QED  BY <1>2, <3>1, <3>2
  <2>. QED
    BY <1>5, <2>1, <2>2, <2>3 DEF Consume, EmitGate, HaltBlocked, HaltUnrecorded
<1>. QED  BY <1>3, <1>4, <1>5 DEF Next, vars

LEMMA Assembled == Spec => []AssembledInv
<1>1. Init => AssembledInv
  <2>1. ASSUME Init  PROVE \A r \in Run : parts[r] = {}  BY <2>1 DEF Init
  <2>. QED  BY <2>1, TypeInit DEF AssembledInv, Ready
<1>2. AssembledInv /\ [Next]_vars => AssembledInv'  BY AssembledStep
<1>. QED  BY <1>1, <1>2, PTL DEF Spec

\* So the events assembled of a run change neither when it is decided nor, but
\* for a denied output, how.
LEMMA PartsDecideNothing ==
  ASSUME AssembledInv, NEW r \in Run, NEW t \in EventsOf(r)
  PROVE  LET old == parts[r] \cup {t}
         IN  /\ Ready(r, old) <=> Ready(r, {t})
             /\ Ready(r, old) =>
                  \/ Evaluate(r, old) = Evaluate(r, {t})
                  \/ ForgetsDenial(r) /\ Evaluate(r, old).gate = "CLOSED"
<1>. DEFINE p == parts[r]
            old == p \cup {t}
<1>1. p \subseteq EventsOf(r) /\ ~Ready(r, p)  BY DEF AssembledInv
<1>2. r.fate \in {"fine", "denied", "failed"} /\ r.mode \in {"truth", "hysteresis"}
  BY StateGateAssumption
<1>3. \/ p = {}
      \/ p = {"EngineRunCompleted"} /\ r.mode = "hysteresis" /\ r.fate # "failed"
  BY <1>1, <1>2 DEF EventsOf, Ready
<1>4. CASE p = {}  BY <1>4
<1>5. CASE p = {"EngineRunCompleted"} /\ r.mode = "hysteresis" /\ r.fate # "failed"
  <2>1. t \in {"HysteresisStatePublished", "EngineRunCompleted"}
    BY <1>2, <1>5 DEF EventsOf
  <2>2. Ready(r, old) <=> t = "HysteresisStatePublished"  BY <1>5, <2>1 DEF Ready
  <2>3. Ready(r, {t}) <=> t = "HysteresisStatePublished"  BY <1>5, <2>1 DEF Ready
  <2>4. ASSUME t = "HysteresisStatePublished", r.fate # "denied"
        PROVE  Evaluate(r, old) = Evaluate(r, {t})
    BY <1>5, <2>4 DEF Evaluate, Held
  <2>5. ASSUME t = "HysteresisStatePublished", r.fate = "denied"
        PROVE  ForgetsDenial(r) /\ Evaluate(r, old).gate = "CLOSED"
    BY <1>5, <2>5 DEF Evaluate, Evaluated, ForgetsDenial
  <2>. QED  BY <2>2, <2>3, <2>4, <2>5
<1>. QED  BY <1>3, <1>4, <1>5

\* A processor that works can be replaced at any moment: one built on the records
\* (StateGateStateStore, RunAssembler.processed_run_ids) ignores the same runs,
\* measures gaps from the same timestamps and decides by the same events and in
\* the same way, but for a denied run that was complete and waited for its state.
THEOREM RestartInvisible == Spec => []RestartIsInvisible
<1>1. Init => GateInv  BY GateInit
<1>2. GateInv /\ [Next]_vars => GateInv'  BY GateStep
<1>3. GateInv /\ AssembledInv => RestartIsInvisible
  <2>. SUFFICES ASSUME GateInv, AssembledInv, ~halted  PROVE
         /\ \A s \in Symbol : machineTs[s] = Replayed(s) /\ snapTs[s] = Replayed(s)
         /\ \A r \in Run : Ignored(r, processed, lastTs) <=> Ignored(r, RecordedRuns, snapTs)
    BY PartsDecideNothing DEF RestartIsInvisible
  <2>1. /\ TypeOK /\ Bounded /\ LatestIsSnapshot
        /\ lastTs = snapTs /\ machineTs = snapTs
        /\ \A r \in processed : IsOld(r, lastTs)
    BY DEF GateInv, ForwardInv, Agree, DoneIsOld
  <2>2. ASSUME NEW s \in Symbol  PROVE machineTs[s] = Replayed(s) /\ snapTs[s] = Replayed(s)
    BY <2>1, ReplayedIsSnapshot
  <2>3. ASSUME NEW r \in Run
        PROVE  Ignored(r, processed, lastTs) <=> Ignored(r, RecordedRuns, snapTs)
    <3>1. r \in processed => IsOld(r, snapTs)  BY <2>1
    <3>2. r \in RecordedRuns => IsOld(r, snapTs)  BY <2>1, RecordedIsOld
    <3>. QED  BY <2>1, <3>1, <3>2 DEF Ignored
  <2>. QED  BY <2>2, <2>3
<1>. QED  BY <1>1, <1>2, <1>3, Assembled, PTL DEF Spec

----
\* The gate opens only for what is permitted

\* What OpenIsPermitted says of one record made when p was assembled of its run.
Permitted(e, p) == e.gate = "OPEN" => MayOpen(e.run, p)

\* Nothing that is decided of a run's own events opens the gate against it.
LEMMA EvaluateIsPermitted ==
  ASSUME NEW r \in Run, NEW p \in SUBSET EventsOf(r), NEW t \in EventsOf(r),
         Ready(r, p \cup {t})
  PROVE  Permitted(Evaluate(r, p \cup {t}), p)
<1>1. CASE r.fate = "failed"
  <2>1. "EngineRunFailed" \in p \cup {t}  BY <1>1 DEF EventsOf, Ready
  <2>. QED  BY <2>1 DEF Evaluate, Evaluated, Permitted
<1>2. CASE r.fate # "failed" /\ r.mode = "truth"
  <2>1. "EngineRunCompleted" \in p \cup {t}  BY <1>2 DEF EventsOf, Ready
  <2>. QED  BY <1>2, <2>1 DEF Evaluate, Evaluated, Permitted, MayOpen
<1>3. CASE r.fate # "failed" /\ r.mode # "truth"
  <2>1. r.mode = "hysteresis" /\ r.progress \in Nat  BY <1>3, StateGateAssumption
  <2>2. "HysteresisStatePublished" \in p \cup {t}  BY <1>3, <2>1 DEF EventsOf, Ready
  <2>. QED  BY <1>3, <2>1, <2>2 DEF Evaluate, Evaluated, Held, Permitted, MayOpen
<1>. QED  BY <1>1, <1>2, <1>3

LEMMA RecordedPermitted ==
  ASSUME TypeOK, NEW r \in Run, NEW evts \in RunEvents(r), Recorded(r, evts),
         \A k \in 1..Len(evts) : Permitted(evts[k], parts[r])
  PROVE  \A i \in Len(records) + 1..Len(records') :
           Permitted(records'[i], parts[records'[i].run])
<1>1. /\ Len(records) \in Nat /\ Len(evts) \in 0..2
      /\ Len(records') = Len(records) + Len(evts)
      /\ \A i \in Len(records)+1..Len(records') :
           records'[i] = evts[i - Len(records)] /\ records'[i].run = r
  BY RecordedWhere
<1>. SUFFICES ASSUME NEW i \in Len(records) + 1..Len(records')
              PROVE  Permitted(records'[i], parts[r])
  BY <1>1
<1>2. i - Len(records) \in 1..Len(evts)  BY <1>1
<1>. QED  BY <1>1, <1>2

LEMMA StateEventsArePermitted ==
  ASSUME NEW r \in Run, NEW p \in SUBSET EventsOf(r), NEW t \in EventsOf(r),
         Ready(r, p \cup {t})
  PROVE  \A k \in 1..Len(StateEvents(r, p \cup {t})) :
           Permitted(StateEvents(r, p \cup {t})[k], p)
<1>. DEFINE g == Evaluate(r, p \cup {t})
            x == Reset(r)
<1>1. Permitted(g, p)  BY EvaluateIsPermitted
<1>2. Permitted(x, p)  BY DEF Reset, Permitted
<1>4. StateEvents(r, p \cup {t}) = <<g>> \/ StateEvents(r, p \cup {t}) = <<x, g>>
  BY StateEventsShape
<1>. HIDE DEF g, x
<1>3. /\ \A k \in 1..Len(<<g>>) : <<g>>[k] = g
      /\ \A k \in 1..Len(<<x, g>>) : <<x, g>>[k] \in {x, g}
  OBVIOUS
<1>. QED  BY <1>1, <1>2, <1>3, <1>4

LEMMA PermittedStep ==
  ASSUME AssembledInv, [Next]_vars
  PROVE  \A i \in Len(records) + 1..Len(records') :
           Permitted(records'[i], parts[records'[i].run])
<1>. DEFINE Goal == \A i \in Len(records) + 1..Len(records') :
                      Permitted(records'[i], parts[records'[i].run])
<1>1. TypeOK  BY DEF AssembledInv
<1>2. ASSUME records' = records  PROVE Goal
  <2>1. Len(records) \in Nat  BY <1>1, LenProperties DEF TypeOK
  <2>. QED  BY <1>2, <2>1
<1>3. CASE UNCHANGED vars  BY <1>2, <1>3 DEF vars
<1>4. CASE Restart  BY <1>2, <1>4 DEF Restart, storeVars
<1>5. ASSUME NEW r \in Run, NEW t \in EventsOf(r), Consume(r, t) PROVE Goal
  <2>. DEFINE p == parts[r] \cup {t}
  <2>1. parts[r] \in SUBSET EventsOf(r)  BY DEF AssembledInv
  <2>2. CASE Ignore(r)  BY <1>2, <2>2 DEF Ignore, vars
  <2>3. CASE DropOld(r)  BY <1>2, <2>3 DEF DropOld, storeVars
  <2>4. CASE Collect(r, t)  BY <1>2, <2>4 DEF Collect, storeVars
  <2>6. CASE EmitGate(r, t)
    <3>1. Recorded(r, StateEvents(r, p)) /\ Ready(r, p)
      BY <2>6 DEF EmitGate, Decide
    <3>2. \A k \in 1..Len(StateEvents(r, p)) : Permitted(StateEvents(r, p)[k], parts[r])
      BY <2>1, <3>1, StateEventsArePermitted
    <3>. QED  BY <1>1, <3>1, <3>2, StateEventsOfRun, RecordedPermitted
  <2>7. ASSUME NEW stored \in BOOLEAN, HaltBlocked(r, t, stored) PROVE Goal
    <3>. DEFINE evts == IF stored THEN <<Halted(r)>> ELSE <<>>
    <3>1. Recorded(r, evts)  BY <2>7 DEF HaltBlocked
    <3>2. evts \in RunEvents(r)  BY EventsOfRun DEF RunEvents
    <3>3. \A k \in 1..Len(evts) : Permitted(evts[k], parts[r])
      <4>1. CASE stored
        <5>1. Len(<<Halted(r)>>) = 1 /\ <<Halted(r)>>[1] = Halted(r)  OBVIOUS
        <5>2. Permitted(Halted(r), parts[r])  BY DEF Halted, Permitted
        <5>. QED  BY <4>1, <5>1, <5>2
      <4>2. CASE ~stored  BY <4>2, EmptySeq
      <4>. QED  BY <4>1, <4>2
    <3>. HIDE DEF evts
    <3>. QED  BY <1>1, <3>1, <3>2, <3>3, RecordedPermitted
  <2>8. ASSUME NEW k \in 0..1, HaltUnrecorded(r, t, k) PROVE Goal
    <3>. DEFINE evts == SubSeq(StateEvents(r, p), 1, k)
    <3>1. Recorded(r, evts) /\ k < Len(StateEvents(r, p))
      BY <2>8 DEF HaltUnrecorded
    <3>2. evts \in RunEvents(r)  BY <3>1, PartOfStateEvents
    <3>3. \A i \in 1..Len(evts) : Permitted(evts[i], parts[r])
      <4>1. \A i \in 1..Len(evts) : evts[i] = Reset(r)  BY <3>1, PartIsReset
      <4>2. Permitted(Reset(r), parts[r])  BY DEF Reset, Permitted
      <4>. QED  BY <4>1, <4>2
    <3>. HIDE DEF evts
    <3>. QED  BY <1>1, <3>1, <3>2, <3>3, RecordedPermitted
  <2>. QED  BY <1>5, <2>2, <2>3, <2>4, <2>6, <2>7, <2>8 DEF Consume
<1>. QED  BY <1>3, <1>4, <1>5 DEF Next

\* GateEvaluator.evaluate opens the gate for no failed run and, where transitions
\* block, for none in the middle of one; and for a denied run only when its
\* hysteresis state releases it before its output has come.
THEOREM OpenPermitted == Spec => OpenIsPermitted
<1>1. AssembledInv /\ [Next]_vars
        => [\A i \in Len(records) + 1..Len(records') :
              LET r == records'[i].run
              IN  records'[i].gate = "OPEN" => MayOpen(r, parts[r])]_vars
  BY PermittedStep DEF Permitted
<1>. QED  BY <1>1, Assembled, PTL DEF Spec, OpenIsPermitted

----
\* The stream of decisions

\* p and q hold the same decisions, in the same order.
SameStream(p, q) ==
  /\ {p[i] : i \in Decisions(p)} = {q[k] : k \in Decisions(q)}
  /\ \A i, j \in Decisions(p), k, l \in Decisions(q) :
       p[i] = q[k] /\ p[j] = q[l] => (i < j <=> k < l)

Undecided(x) == \A i \in 1..Len(x) : ~IsGate(x[i])
DecidesLast(x) ==
  /\ Len(x) > 0
  /\ \A i \in 1..Len(x) : IsGate(x[i]) <=> i = Len(x)

\* Events that decide nothing leave the decisions where they are.
LEMMA UndecidedAdded ==
  ASSUME NEW p \in Seq(StateEvent), NEW x \in Seq(StateEvent), Undecided(x)
  PROVE  /\ Decisions(p \o x) = Decisions(p)
         /\ \A i \in Decisions(p) : (p \o x)[i] = p[i]
<1> DEFINE q == p \o x
<1>1. /\ Len(p) \in Nat /\ Len(x) \in Nat /\ Len(q) = Len(p) + Len(x)
      /\ \A i \in 1..Len(p) + Len(x) : q[i] = IF i <= Len(p) THEN p[i] ELSE x[i - Len(p)]
  BY ConcatProperties, LenProperties
<1> HIDE DEF q
<1>2. \A i \in 1..Len(p) : i \in 1..Len(q) /\ q[i] = p[i]
  BY <1>1
<1>3. \A i \in 1..Len(q) : i \in 1..Len(p) \/ (i - Len(p) \in 1..Len(x) /\ q[i] = x[i - Len(p)])
  BY <1>1
<1>4. QED BY <1>2, <1>3 DEF Decisions, Undecided, q

\* Events that end in a decision add that one.
LEMMA DecisionAdded ==
  ASSUME NEW p \in Seq(StateEvent), NEW x \in Seq(StateEvent), DecidesLast(x)
  PROVE  /\ Decisions(p \o x) = Decisions(p) \cup {Len(p \o x)}
         /\ \A i \in Decisions(p) : (p \o x)[i] = p[i] /\ i < Len(p \o x) /\ i \in Nat
         /\ (p \o x)[Len(p \o x)] = x[Len(x)]
         /\ Len(p \o x) \in Nat
<1> DEFINE q == p \o x
<1>1. /\ Len(p) \in Nat /\ Len(x) \in Nat \ {0} /\ Len(q) = Len(p) + Len(x)
      /\ \A i \in 1..Len(p) + Len(x) : q[i] = IF i <= Len(p) THEN p[i] ELSE x[i - Len(p)]
  BY ConcatProperties, LenProperties DEF DecidesLast
<1> HIDE DEF q
<1>2. \A i \in 1..Len(p) : i \in 1..Len(q) /\ i < Len(q) /\ q[i] = p[i]
  BY <1>1
<1>3. \A i \in 1..Len(q) : i \in 1..Len(p) \/ (i - Len(p) \in 1..Len(x) /\ q[i] = x[i - Len(p)])
  BY <1>1
<1>4. Len(q) \in 1..Len(q) /\ q[Len(q)] = x[Len(x)] /\ IsGate(x[Len(x)])
  <2>1. Len(q) \in 1..Len(q) /\ Len(q) - Len(p) = Len(x) /\ ~(Len(q) <= Len(p))
    BY <1>1
  <2>2. IsGate(x[Len(x)])
    <3>1. Len(x) \in 1..Len(x)
      BY <1>1
    <3>2. QED BY <3>1 DEF DecidesLast
  <2>3. q[Len(q)] = x[Len(x)]
    <3>1. Len(q) \in 1..Len(p) + Len(x)
      BY <1>1
    <3>2. QED BY <1>1, <2>1, <3>1
  <2>4. QED BY <2>1, <2>2, <2>3
<1>5. ASSUME NEW i \in Decisions(q) PROVE i \in Decisions(p) \/ i = Len(q)
  <2>1. i \in 1..Len(q) /\ IsGate(q[i])
    BY DEF Decisions
  <2>2. CASE i \in 1..Len(p)
    BY <1>2, <2>1, <2>2 DEF Decisions
  <2>3. CASE i - Len(p) \in 1..Len(x) /\ q[i] = x[i - Len(p)]
    <3>1. i - Len(p) = Len(x)
      BY <2>1, <2>3 DEF DecidesLast
    <3>2. QED BY <1>1, <2>1, <3>1
  <2>4. QED BY <1>3, <2>1, <2>2, <2>3
<1>6. \A i \in Decisions(p) : i \in Decisions(q)
  BY <1>2 DEF Decisions
<1>7. Len(q) \in Decisions(q)
  BY <1>4 DEF Decisions
<1>8. Decisions(q) = Decisions(p) \cup {Len(q)}
  BY <1>5, <1>6, <1>7
<1>9. QED BY <1>1, <1>2, <1>4, <1>8 DEF Decisions, q

LEMMA UndecidedKeepsStream ==
  ASSUME NEW p \in Seq(StateEvent), NEW q \in Seq(StateEvent), SameStream(p, q),
         NEW x \in Seq(StateEvent), NEW y \in Seq(StateEvent), Undecided(x), Undecided(y)
  PROVE  SameStream(p \o x, q \o y)
<1> DEFINE a == p \o x
           b == q \o y
<1>1. /\ Decisions(a) = Decisions(p) /\ \A i \in Decisions(p) : a[i] = p[i]
      /\ Decisions(b) = Decisions(q) /\ \A i \in Decisions(q) : b[i] = q[i]
  BY UndecidedAdded
<1> HIDE DEF a, b
<1>2. SameStream(a, b)
  BY <1>1 DEF SameStream
<1>3. QED BY <1>2 DEF a, b

LEMMA DecisionKeepsStream ==
  ASSUME NEW p \in Seq(StateEvent), NEW q \in Seq(StateEvent), SameStream(p, q),
         NEW x \in Seq(StateEvent), DecidesLast(x),
         \A k \in Decisions(q) : q[k] # x[Len(x)]
  PROVE  SameStream(p \o x, q \o x)
<1> DEFINE a == p \o x
           b == q \o x
           m == Len(a)
           n == Len(b)
           e == x[Len(x)]
<1>1. /\ Decisions(a) = Decisions(p) \cup {m} /\ a[m] = e /\ m \in Nat
      /\ \A i \in Decisions(p) : a[i] = p[i] /\ i < m /\ i \in Nat
      /\ Decisions(b) = Decisions(q) \cup {n} /\ b[n] = e /\ n \in Nat
      /\ \A k \in Decisions(q) : b[k] = q[k] /\ k < n /\ k \in Nat
  BY DecisionAdded
<1>2. \A k \in Decisions(q) : q[k] # e
  OBVIOUS
<1> HIDE DEF a, b, m, n, e
<1>3. \A i \in Decisions(p) : p[i] # e
  <2>1. SUFFICES ASSUME NEW i \in Decisions(p) PROVE p[i] # e
    OBVIOUS
  <2>2. p[i] \in {q[k] : k \in Decisions(q)}
    BY DEF SameStream
  <2>3. QED BY <1>2, <2>2
<1>4. {a[i] : i \in Decisions(a)} = {b[k] : k \in Decisions(b)}
  <2>1. {a[i] : i \in Decisions(a)} = {p[i] : i \in Decisions(p)} \cup {e}
    BY <1>1
  <2>2. {b[k] : k \in Decisions(b)} = {q[k] : k \in Decisions(q)} \cup {e}
    BY <1>1
  <2>3. QED BY <2>1, <2>2 DEF SameStream
<1>5. ASSUME NEW i \in Decisions(a), NEW k \in Decisions(b), a[i] = b[k]
      PROVE  \/ i = m /\ k = n
             \/ i \in Decisions(p) /\ k \in Decisions(q) /\ p[i] = q[k] /\ i < m /\ k < n
  BY <1>1, <1>2, <1>3, <1>5
<1>6. ASSUME NEW i \in Decisions(a), NEW j \in Decisions(a),
             NEW k \in Decisions(b), NEW l \in Decisions(b), a[i] = b[k], a[j] = b[l]
      PROVE  i < j <=> k < l
  <2>1. \/ i = m /\ k = n
        \/ i \in Decisions(p) /\ k \in Decisions(q) /\ p[i] = q[k] /\ i < m /\ k < n
    BY <1>5, <1>6
  <2>2. \/ j = m /\ l = n
        \/ j \in Decisions(p) /\ l \in Decisions(q) /\ p[j] = q[l] /\ j < m /\ l < n
    BY <1>5, <1>6
  <2>3. CASE i \in Decisions(p) /\ j \in Decisions(p)
    <3>1. i # m /\ j # m
      BY <1>1, <2>3
    <3>2. QED BY <2>1, <2>2, <3>1 DEF SameStream
  <2>4. CASE i = m
    <3>1. k = n /\ ~(i < j)
      BY <1>1, <2>1, <2>2, <2>4
    <3>2. ~(n < l)
      BY <1>1, <2>2
    <3>3. QED BY <3>1, <3>2
  <2>5. CASE i # m /\ j = m
    BY <1>1, <2>1, <2>2, <2>5
  <2>6. QED BY <2>1, <2>2, <2>3, <2>4, <2>5
<1>7. SameStream(a, b)
  BY <1>4, <1>6 DEF SameStream
<1>8. QED BY <1>7 DEF a, b

\* What a run's events decide.
LEMMA StateEventsDecideLast ==
  ASSUME NEW r \in Run, NEW p
  PROVE  /\ StateEvents(r, p) \in Seq(StateEvent)
         /\ DecidesLast(StateEvents(r, p))
         /\ StateEvents(r, p)[Len(StateEvents(r, p))] = Evaluate(r, p)
<1> DEFINE a == Reset(r)
           e == Evaluate(r, p)
           evts == StateEvents(r, p)
<1>1. evts \in Seq(StateEvent)
  BY StateEventsOfRun, RunEventsAreEvents
<1>2. IsGate(e) /\ ~IsGate(a)
  BY EventsOfRun DEF IsGate, Reset
<1>3. evts = <<e>> \/ evts = <<a, e>>
  BY StateEventsShape
<1> HIDE DEF a, e, evts
<1>4. CASE evts = <<e>>
  <2>1. Len(evts) = 1 /\ evts[1] = e
    BY <1>4
  <2>2. QED BY <1>1, <1>2, <2>1 DEF DecidesLast, e, evts
<1>5. CASE evts = <<a, e>>
  <2>1. Len(evts) = 2 /\ evts[1] = a /\ evts[2] = e
    BY <1>5
  <2>2. \A i \in 1..2 : i = 1 \/ i = 2
    OBVIOUS
  <2>3. DecidesLast(evts)
    BY <1>2, <2>1, <2>2 DEF DecidesLast
  <2>4. QED BY <1>1, <2>1, <2>3 DEF e, evts
<1>6. QED BY <1>3, <1>4, <1>5

StreamInv == ForwardInv /\ SameStream(emitted, records)

LEMMA StreamStep == ASSUME StreamInv, [Next]_vars PROVE StreamInv'
<1>1. ForwardInv'
  BY ForwardStep DEF StreamInv
<1>2. /\ emitted \in Seq(StateEvent) /\ records \in Seq(StateEvent)
      /\ SameStream(emitted, records) /\ ForwardInv
  BY DEF StreamInv, ForwardInv, TypeOK
<1>3. ASSUME UNCHANGED <<records, emitted>> PROVE SameStream(emitted, records)'
  BY <1>2, <1>3
<1>4. ASSUME NEW r \in Run, NEW t \in EventsOf(r), Consume(r, t)
      PROVE  SameStream(emitted, records)'
  <2>1. CASE Ignore(r) \/ DropOld(r) \/ Collect(r, t)
    BY <1>3, <2>1 DEF Ignore, DropOld, Collect, vars, storeVars
  <2>2. /\ Halted(r) \in StateEvent
        /\ <<Halted(r)>> \in Seq(StateEvent) /\ <<>> \in Seq(StateEvent)
        /\ Undecided(<<Halted(r)>>) /\ Undecided(<<>>)
    <3>1. Halted(r) \in StateEvent /\ ~IsGate(Halted(r))
      BY EventsOfRun DEF IsGate, Halted
    <3> DEFINE h == Halted(r)
    <3>2. h \in StateEvent /\ ~IsGate(h)
      BY <3>1
    <3> HIDE DEF h
    <3>3. Len(<<h>>) = 1 /\ <<h>>[1] = h /\ <<h>> \in Seq(StateEvent)
      BY <3>2
    <3>4. Len(<<>>) = 0 /\ <<>> \in Seq(StateEvent)
      BY EmptySeq
    <3>5. Undecided(<<h>>) /\ Undecided(<<>>)
      BY <3>2, <3>3, <3>4 DEF Undecided
    <3>6. QED BY <3>2, <3>3, <3>4, <3>5 DEF h
  <2>3. CASE EmitGate(r, t)
    <3> DEFINE p == parts[r] \cup {t}
               evts == StateEvents(r, p)
               e == Evaluate(r, p)
    <3>1. /\ Decide(r, t)
          /\ records' = records \o evts /\ emitted' = emitted \o evts
      BY <2>3 DEF EmitGate, Recorded
    <3>2. evts \in Seq(StateEvent) /\ DecidesLast(evts) /\ evts[Len(evts)] = e
      BY StateEventsDecideLast
    <3>3. e.run = r
      BY EventsOfRun
    <3>4. snapTs[r.symbol] < r.ts
      BY <1>2, <3>1, CurrentIsNewer DEF ForwardInv, Decide
    <3> HIDE DEF p, evts, e
    <3>5. \A k \in Decisions(records) : records[k] # e
      <4>1. SUFFICES ASSUME NEW k \in 1..Len(records), records[k] = e PROVE FALSE
        BY DEF Decisions
      <4>2. r.ts <= snapTs[r.symbol]
        BY <1>2, <3>3, <4>1 DEF ForwardInv, Bounded
      <4>3. r.ts \in Nat /\ snapTs[r.symbol] \in Nat
        BY <1>2, RunSymbol, StateGateAssumption DEF ForwardInv, TypeOK
      <4>4. QED BY <3>4, <4>2, <4>3
    <3>6. QED BY <1>2, <3>1, <3>2, <3>5, DecisionKeepsStream
  <2>4. ASSUME NEW stored \in BOOLEAN, HaltBlocked(r, t, stored)
        PROVE  SameStream(emitted, records)'
    <3>1. /\ records' = records \o (IF stored THEN <<Halted(r)>> ELSE <<>>)
          /\ emitted' = Append(emitted, Halted(r))
      BY <2>4 DEF HaltBlocked, Recorded
    <3>2. Append(emitted, Halted(r)) = emitted \o <<Halted(r)>>
      BY <1>2, <2>2, AppendIsConcat
    <3>3. SameStream(emitted \o <<Halted(r)>>, records \o <<Halted(r)>>)
      BY <1>2, <2>2, UndecidedKeepsStream
    <3>4. SameStream(emitted \o <<Halted(r)>>, records \o <<>>)
      BY <1>2, <2>2, UndecidedKeepsStream
    <3>5. CASE stored
      BY <3>1, <3>2, <3>3, <3>5
    <3>6. CASE ~stored
      BY <3>1, <3>2, <3>4, <3>6
    <3>7. QED BY <3>5, <3>6
  <2>5. ASSUME NEW k \in 0..1, HaltUnrecorded(r, t, k) PROVE SameStream(emitted, records)'
    <3> DEFINE evts == StateEvents(r, parts[r] \cup {t})
               sub == SubSeq(evts, 1, k)
    <3>1. /\ k < Len(evts) /\ records' = records \o sub
          /\ emitted' = emitted \o <<Halted(r)>>
      BY <2>5 DEF HaltUnrecorded, Recorded, FailedOutput
    <3>2. sub \in Seq(StateEvent) /\ Undecided(sub)
      BY <3>1, PartOfStateEvents, RunEventsAreEvents, PartIsUndecided DEF Undecided
    <3> HIDE DEF sub, evts
    <3>3. QED BY <1>2, <2>2, <3>1, <3>2, UndecidedKeepsStream
  <2>6. QED BY <1>4, <2>1, <2>3, <2>4, <2>5 DEF Consume
<1>5. ASSUME Restart PROVE SameStream(emitted, records)'
  BY <1>3, <1>5 DEF Restart, storeVars
<1>6. ASSUME UNCHANGED vars PROVE SameStream(emitted, records)'
  BY <1>3, <1>6 DEF vars
<1>7. SameStream(emitted, records)'
  BY <1>4, <1>5, <1>6 DEF Next
<1>8. QED BY <1>1, <1>7 DEF StreamInv

\* Whatever fails to be recorded or is cut off by a limit, and whichever
\* processor decides, what went out is what is on record: the same decisions,
\* each once, in the same order.
THEOREM StreamIsRecorded == Spec => []RecordsAreTheStream
<1>1. Init => StreamInv
  <2>1. SUFFICES ASSUME Init PROVE SameStream(emitted, records)
    BY ForwardInit DEF StreamInv
  <2>2. Len(emitted) = 0 /\ Len(records) = 0
    BY <2>1, EmptySeq DEF Init
  <2>3. Decisions(emitted) = {} /\ Decisions(records) = {}
    BY <2>2 DEF Decisions
  <2>4. QED BY <2>3 DEF SameStream
<1>2. StreamInv /\ [Next]_vars => StreamInv'
  BY StreamStep
<1>3. StreamInv => RecordsAreTheStream
  BY DEF StreamInv, SameStream, RecordsAreTheStream
<1>4. QED BY <1>1, <1>2, <1>3, PTL DEF Spec
====
