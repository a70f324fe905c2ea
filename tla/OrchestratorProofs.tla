---- MODULE OrchestratorProofs ----
(* Proofs about Orchestrator for every number of symbols and adapter threads, *)
(* every capacity, mode and behaviour of the subscribers.                     *)
EXTENDS Orchestrator, SequenceTheorems, FiniteSetTheorems, TLAPS

PublishedEvent == [type : PublishedType, run : Nat, read : SUBSET Nat]
RunRecord == [symbol : Symbol, ts : Tick, start : Nat, end : Nat]
BufferRecord == [seq : Nat, symbol : Symbol, kind : Kind]

\* Where the scheduler thread is in a run tells how many runs have read their cut.
ReadsKeepUp ==
  /\ pc = "read" => Len(runLog) = Len(reads) + 1
  /\ pc \notin {"read", "dead"} => Len(runLog) = Len(reads)
  /\ pc = "run" => Len(runLog) > 0

FeederHasEvent == \A t \in Thread : feeder[t].pc # "idle" => feeder[t].event \in Event

TypeInv == TypeOK /\ ReadsKeepUp /\ FeederHasEvent

(* Giving events to the bus extends what was published by some of them. *)
LEMMA PublishType ==
  ASSUME NEW s \in Symbol, NEW evts \in Seq(PublishedEvent), NEW next,
         TypeOK, Publish(s, evts, next)
  PROVE  /\ published' \in Seq(PublishedEvent)
         /\ lastTs' \in [Symbol -> Tick]
         /\ pc' \in {next, "dead"}
<1>1. PICK n \in 0..Len(evts), raised \in BOOLEAN :
        /\ published' = published \o SubSeq(evts, 1, n)
        /\ lastTs' = IF n = 0 THEN lastTs ELSE [lastTs EXCEPT ![s] = tick]
        /\ pc' = IF raised THEN "dead" ELSE next
  BY DEF Publish
<1>2. published \in Seq(PublishedEvent) /\ tick \in Tick /\ lastTs \in [Symbol -> Tick]
  BY DEF TypeOK, PublishedEvent
<1>3. SubSeq(evts, 1, n) \in Seq(PublishedEvent)
  <2>1. \A i \in 1..n : evts[i] \in PublishedEvent
    <3>1. \A i \in 1..Len(evts) : evts[i] \in PublishedEvent  BY ElementOfSeq
    <3>2. Len(evts) \in Nat  BY LenProperties
    <3>. QED  BY <3>1, <3>2
  <2>. QED  BY <2>1, SubSeqProperties, LenProperties
<1>4. published \o SubSeq(evts, 1, n) \in Seq(PublishedEvent)
  BY <1>2, <1>3, ConcatProperties
<1>. QED  BY <1>1, <1>2, <1>4

(* The appending thread keeps the buffer a buffer. *)
LEMMA FeedType ==
  ASSUME TypeInv, NEW t \in Thread,
         Feed(t) \/ Refuse(t) \/ \E e \in Event : Admit(t, e)
  PROVE  TypeInv'
<1>. USE DEF TypeInv
<1>0. Event \subseteq [symbol : Symbol, kind : Kind]
  BY OrchestratorAssumption DEF Symbol, Kind
<1>1. ASSUME NEW e \in Event, Admit(t, e)  PROVE TypeInv'
  <2>1. feeder' \in [Thread -> Feeder]  BY <1>1 DEF Admit, TypeOK, Feeder
  <2>2. FeederHasEvent'  BY <1>1 DEF Admit, TypeOK, FeederHasEvent
  <2>. QED  BY <1>1, <2>1, <2>2 DEF Admit, schedulerVars, TypeOK, ReadsKeepUp
<1>2. CASE Refuse(t)
  BY <1>2 DEF Refuse, vars, TypeOK, ReadsKeepUp, FeederHasEvent
<1>3. CASE Stamp(t)
  <2>1. feeder' \in [Thread -> Feeder]  BY <1>3 DEF Stamp, TypeOK, Feeder
  <2>2. FeederHasEvent'  BY <1>3 DEF Stamp, TypeOK, FeederHasEvent, Feeder
  <2>. QED  BY <1>3, <2>1, <2>2 DEF Stamp, schedulerVars, TypeOK, ReadsKeepUp
<1>4. CASE Push(t)
  <2>1. feeder' \in [Thread -> Feeder]  BY <1>4 DEF Push, TypeOK, Feeder
  <2>2. FeederHasEvent'  BY <1>4 DEF Push, TypeOK, FeederHasEvent, Feeder
  <2>3. feeder[t].event \in [symbol : Symbol, kind : Kind] /\ feeder[t].seq \in Nat
    BY <1>0, <1>4 DEF Push, TypeOK, FeederHasEvent, Feeder
  <2>4. records' \in Seq(BufferRecord)
    BY <1>4, <2>3, AppendProperties DEF Push, TypeOK, BufferRecord
  <2>. QED  BY <1>4, <2>1, <2>2, <2>4 DEF Push, schedulerVars, TypeOK, ReadsKeepUp, BufferRecord
<1>5. CASE Bump(t)
  <2>1. feeder' \in [Thread -> Feeder]  BY <1>5 DEF Bump, TypeOK, Feeder
  <2>2. FeederHasEvent'  BY <1>5 DEF Bump, TypeOK, FeederHasEvent, Feeder
  <2>. QED  BY <1>5, <2>1, <2>2 DEF Bump, schedulerVars, TypeOK, ReadsKeepUp
<1>6. CASE AddSymbol(t)
  <2>1. feeder' \in [Thread -> Feeder]  BY <1>6 DEF AddSymbol, TypeOK, Feeder, Idle
  <2>2. FeederHasEvent'  BY <1>6 DEF AddSymbol, TypeOK, FeederHasEvent, Feeder, Idle
  <2>3. feeder[t].event.symbol \in Symbol
    BY <1>0, <1>6 DEF AddSymbol, FeederHasEvent
  <2>. QED  BY <1>6, <2>1, <2>2, <2>3 DEF AddSymbol, schedulerVars, TypeOK, ReadsKeepUp
<1>. QED  BY <1>1, <1>2, <1>3, <1>4, <1>5, <1>6 DEF Feed

(* Where a cut may begin: within the range it ends. *)
LEMMA CutStartType ==
  ASSUME TypeOK, NEW s \in Symbol, NEW start \in CutStart(s)
  PROVE  start \in 1..latest /\ (lastEnd[s] # 0 => start = lastEnd[s] + 1)
<1>1. CASE lastEnd[s] # 0
  BY <1>1 DEF CutStart
<1>2. CASE lastEnd[s] = 0
  BY <1>2 DEF CutStart, FirstSeq, RecordsUpTo
<1>. QED  BY <1>1, <1>2

(* A step of the scheduler outside a run. *)
LEMMA TickType ==
  ASSUME TypeInv,
         \/ Start \/ Stop \/ Exit \/ NextTick \/ ReadLatest \/ ReadSymbols \/ EndTick
         \/ PersistenceHalts
         \/ \E s \in Symbol : GuardHalts(s) \/ NoCut(s)
  PROVE  TypeInv'
<1>. USE OrchestratorAssumption DEF TypeInv, bufferVars, runVars
<1>1. CASE Start  BY <1>1 DEF Start, TypeOK, ReadsKeepUp, FeederHasEvent
<1>2. CASE Stop  BY <1>2 DEF Stop, TypeOK, ReadsKeepUp, FeederHasEvent
<1>3. CASE Exit  BY <1>3 DEF Exit, TypeOK, ReadsKeepUp, FeederHasEvent
<1>4. CASE NextTick  BY <1>4 DEF NextTick, TypeOK, Tick, ReadsKeepUp, FeederHasEvent
<1>5. CASE ReadLatest
  <2>1. latest' \in Nat
    <3>1. CASE records = <<>>  BY <1>5, <3>1 DEF ReadLatest, TypeOK
    <3>2. CASE records # <<>>
      <4>1. Len(records) \in 1..Len(records)  BY <3>2, EmptySeq, LenProperties DEF TypeOK
      <4>2. records[Len(records)] \in BufferRecord
        BY <4>1, ElementOfSeq DEF TypeOK, BufferRecord
      <4>. QED  BY <1>5, <3>2, <4>2 DEF ReadLatest, BufferRecord
    <3>. QED  BY <3>1, <3>2
  <2>. QED  BY <1>5, <2>1 DEF ReadLatest, TypeOK, ReadsKeepUp, FeederHasEvent
<1>6. CASE ReadSymbols  BY <1>6 DEF ReadSymbols, TypeOK, ReadsKeepUp, FeederHasEvent
<1>7. CASE EndTick  BY <1>7 DEF EndTick, TypeOK, ReadsKeepUp, FeederHasEvent
<1>8. CASE PersistenceHalts
  BY <1>8 DEF PersistenceHalts, TypeOK, ReadsKeepUp, FeederHasEvent
<1>9. ASSUME NEW s \in Symbol, GuardHalts(s) \/ NoCut(s)  PROVE TypeInv'
  <2>1. CASE GuardHalts(s)
    BY <2>1 DEF GuardHalts, Turn, TypeOK, ReadsKeepUp, FeederHasEvent
  <2>2. CASE NoCut(s)
    BY <2>2 DEF NoCut, Turn, TypeOK, ReadsKeepUp, FeederHasEvent
  <2>. QED  BY <1>9, <2>1, <2>2
<1>. QED  BY <1>1, <1>2, <1>3, <1>4, <1>5, <1>6, <1>7, <1>8, <1>9

(* A run that is being computed has a record and has read its cut. *)
LEMMA RunBeingComputed ==
  ASSUME TypeInv, pc = "run"
  PROVE  Run \in Nat /\ runLog[Run].symbol \in Symbol /\ reads[Run] \in SUBSET Nat
<1>1. runLog \in Seq(RunRecord) /\ reads \in Seq(SUBSET Nat)
  BY DEF TypeInv, TypeOK, RunRecord
<1>2. Len(runLog) > 0 /\ Len(reads) = Len(runLog) /\ Len(runLog) \in Nat
  BY <1>1, LenProperties DEF TypeInv, ReadsKeepUp
<1>3. runLog[Run] \in RunRecord /\ reads[Run] \in SUBSET Nat
  BY <1>1, <1>2, ElementOfSeq DEF Run
<1>. QED  BY <1>2, <1>3 DEF Run, RunRecord

(* A step of a run. *)
LEMMA RunType ==
  ASSUME TypeInv, ReadCut \/ FailRun \/ CompleteRun \/ \E s \in Symbol : StartRun(s)
  PROVE  TypeInv'
<1>. USE DEF TypeInv, bufferVars
<1>0. /\ Len(runLog) \in Nat /\ Len(reads) \in Nat
      /\ \A k \in 1..Len(runLog) : runLog[k] \in RunRecord
      /\ \A k \in 1..Len(reads) : reads[k] \in SUBSET Nat
  BY LenProperties, ElementOfSeq DEF TypeOK, RunRecord
<1>1. ASSUME NEW s \in Symbol, StartRun(s)  PROVE TypeInv'
  <2>1. PICK start \in CutStart(s) :
          runLog' = Append(runLog, [symbol |-> s, ts |-> tick, start |-> start, end |-> latest])
    BY <1>1 DEF StartRun
  <2>2. start \in Nat  BY CutStartType
  <2>3. runLog' \in Seq(RunRecord) /\ Len(runLog') = Len(runLog) + 1
    BY <2>1, <2>2, AppendProperties DEF TypeOK, RunRecord
  <2>4. lastEnd' \in [Symbol -> Nat]  BY <1>1 DEF StartRun, Cursor, TypeOK
  <2>5. <<Started(Len(runLog) + 1)>> \in Seq(PublishedEvent)
    BY <1>0 DEF Started, PublishedEvent, PublishedType
  <2>6. /\ published' \in Seq(PublishedEvent)
        /\ lastTs' \in [Symbol -> Tick]
        /\ pc' \in {"read", "dead"}
    BY <1>1, <2>5, PublishType DEF StartRun
  <2>7. TypeOK'
    BY <1>1, <2>3, <2>4, <2>6 DEF StartRun, TypeOK, RunRecord, PublishedEvent
  <2>8. Len(runLog) = Len(reads)  BY <1>1 DEF StartRun, Turn, ReadsKeepUp
  <2>9. ReadsKeepUp'  BY <1>1, <2>3, <2>6, <2>8 DEF StartRun, ReadsKeepUp
  <2>. QED  BY <1>1, <2>7, <2>9 DEF StartRun, FeederHasEvent
<1>2. CASE ReadCut
  <2>1. ReadOfRun(runLog[Run]) \in SUBSET Nat
    BY LenProperties DEF ReadOfRun, InCut, TypeOK
  <2>2. reads' \in Seq(SUBSET Nat) /\ Len(reads') = Len(reads) + 1
    BY <1>2, <2>1, AppendProperties DEF ReadCut, TypeOK
  <2>3. TypeOK'  BY <1>2, <2>2 DEF ReadCut, TypeOK
  <2>4. ReadsKeepUp'  BY <1>0, <1>2, <2>2 DEF ReadCut, ReadsKeepUp
  <2>. QED  BY <1>2, <2>3, <2>4 DEF ReadCut, FeederHasEvent
<1>3. CASE FailRun \/ CompleteRun
  <2>. DEFINE s == runLog[Run].symbol
              read == reads[Run]
  <2>1. Run \in Nat /\ s \in Symbol /\ read \in SUBSET Nat
    BY <1>3, RunBeingComputed DEF FailRun, CompleteRun
  <2>2. /\ <<Failed(Run, read)>> \in Seq(PublishedEvent)
        /\ <<Completed(Run, read)>> \in Seq(PublishedEvent)
        /\ <<Hysteresis(Run, read), Completed(Run, read)>> \in Seq(PublishedEvent)
    <3>. HIDE DEF s, read
    <3>1. /\ Failed(Run, read) \in PublishedEvent
          /\ Completed(Run, read) \in PublishedEvent
          /\ Hysteresis(Run, read) \in PublishedEvent
      BY <2>1 DEF Failed, Completed, Hysteresis, PublishedEvent, PublishedType
    <3>. QED  BY <3>1
  <2>3. /\ published' \in Seq(PublishedEvent)
        /\ lastTs' \in [Symbol -> Tick]
        /\ pc' \in {"next", "dead"}
    <3>1. CASE FailRun
      <4>1. Publish(s, <<Failed(Run, read)>>, "next")  BY <3>1 DEF FailRun, FailureEvents
      <4>. QED  BY <2>1, <2>2, <4>1, PublishType
    <3>2. CASE CompleteRun
      <4>1. PICK evts \in {<<Completed(Run, read)>>,
                           <<Hysteresis(Run, read), Completed(Run, read)>>} :
              Publish(s, evts, "next")
        BY <3>2 DEF CompleteRun
      <4>. HIDE DEF s, read
      <4>. QED  BY <2>1, <2>2, <4>1, PublishType
    <3>. QED  BY <1>3, <3>1, <3>2
  <2>4. storeTs' \in [Symbol -> Nat]
    <3>1. storeTs \in [Symbol -> Nat] /\ tick \in Nat
      BY OrchestratorAssumption DEF TypeOK, Tick
    <3>2. CASE FailRun  BY <3>1, <3>2 DEF FailRun
    <3>3. CASE CompleteRun
      <4>1. storeTs' = IF mode = "hysteresis" THEN [storeTs EXCEPT ![s] = tick] ELSE storeTs
        BY <3>3 DEF CompleteRun
      <4>. QED  BY <3>1, <4>1
    <3>. QED  BY <1>3, <3>2, <3>3
  <2>5. TypeOK'
    BY <1>3, <2>3, <2>4 DEF FailRun, CompleteRun, TypeOK, PublishedEvent
  <2>6. ReadsKeepUp'
    BY <1>3, <2>3 DEF FailRun, CompleteRun, ReadsKeepUp
  <2>. QED  BY <1>3, <2>5, <2>6 DEF FailRun, CompleteRun, FeederHasEvent
<1>. QED  BY <1>1, <1>2, <1>3

LEMMA TypeInvStep == TypeInv /\ [Next]_vars => TypeInv'
<1>. SUFFICES ASSUME TypeInv, [Next]_vars  PROVE TypeInv'
  OBVIOUS
<1>1. CASE UNCHANGED vars
  BY <1>1 DEF vars, TypeInv, TypeOK, ReadsKeepUp, FeederHasEvent
<1>2. CASE Next
  BY <1>2, FeedType, TickType, RunType DEF Next, Scheduler, Serve
<1>. QED  BY <1>1, <1>2

LEMMA InitType == Init => TypeInv
<1>. SUFFICES ASSUME Init PROVE TypeInv  OBVIOUS
<1>1. storeTs \in [Symbol -> Nat]  BY DEF Init
<1>2. feeder \in [Thread -> Feeder] /\ FeederHasEvent
  BY DEF Init, Idle, Feeder, FeederHasEvent
<1>3. 0 \in Tick  BY OrchestratorAssumption DEF Tick
<1>4. /\ records \in Seq(BufferRecord) /\ runLog \in Seq(RunRecord)
      /\ reads \in Seq(SUBSET Nat) /\ published \in Seq(PublishedEvent)
  BY EmptySeq DEF Init
<1>5. TypeOK
  BY <1>1, <1>2, <1>3, <1>4 DEF Init, TypeOK, BufferRecord, RunRecord, PublishedEvent
<1>. QED  BY <1>2, <1>5 DEF Init, TypeInv, ReadsKeepUp

(* Type correctness of the orchestrator's shared and thread-local state. *)
THEOREM TypeCorrect == Spec => []TypeOK
<1>1. TypeInv => TypeOK  BY DEF TypeInv
<1>. QED  BY <1>1, InitType, TypeInvStep, PTL DEF Spec

----
(* The cuts tile the sequence numbers.  CutsTile is not inductive: it needs that *)
(* the selector's cursor is the end of a symbol's last cut.                      *)
CursorAtLastCut ==
  /\ \A k \in 1..Len(runLog) : runLog[k].end <= lastEnd[runLog[k].symbol]
  /\ \A s \in Symbol : lastEnd[s] # 0 =>
       \E k \in 1..Len(runLog) : runLog[k].symbol = s /\ runLog[k].end = lastEnd[s]

CutsInv == CutsTile /\ CursorAtLastCut

LEMMA CutsInvStep == TypeInv /\ CutsInv /\ [Next]_vars => CutsInv'
<1>. SUFFICES ASSUME TypeInv, CutsInv, [Next]_vars  PROVE CutsInv'
  OBVIOUS
<1>1. ASSUME NEW s \in Symbol, StartRun(s)  PROVE CutsInv'
  <2>. DEFINE N == Len(runLog) + 1
  <2>1. PICK start \in CutStart(s) :
          runLog' = Append(runLog, [symbol |-> s, ts |-> tick, start |-> start, end |-> latest])
    BY <1>1 DEF StartRun
  <2>2. /\ Len(runLog) \in Nat
        /\ Len(runLog') = N
        /\ runLog'[N] = [symbol |-> s, ts |-> tick, start |-> start, end |-> latest]
        /\ \A k \in 1..Len(runLog) : runLog'[k] = runLog[k]
        /\ \A k \in 1..Len(runLog) : runLog[k] \in RunRecord
    <3>. DEFINE e == [symbol |-> s, ts |-> tick, start |-> start, end |-> latest]
    <3>1. runLog \in Seq(RunRecord) /\ latest \in Nat /\ tick \in Tick
      BY DEF TypeInv, TypeOK, RunRecord
    <3>2. start \in Nat  BY CutStartType DEF TypeInv
    <3>3. e \in RunRecord  BY <3>1, <3>2 DEF RunRecord
    <3>4. \A k \in 1..Len(runLog) : runLog[k] \in RunRecord  BY <3>1, ElementOfSeq
    <3>. HIDE DEF e
    <3>5. runLog' = Append(runLog, e)  BY <2>1 DEF e
    <3>6. /\ Len(runLog) \in Nat
          /\ Len(runLog') = N
          /\ runLog'[N] = e
          /\ \A k \in 1..Len(runLog) : runLog'[k] = runLog[k]
      BY <3>1, <3>3, <3>5, AppendProperties, LenProperties
    <3>. QED  BY <3>4, <3>6 DEF e
  <2>3. lastEnd' = [lastEnd EXCEPT ![s] = latest]  BY <1>1 DEF StartRun, Cursor
  <2>4. start \in 1..latest /\ (lastEnd[s] # 0 => start = lastEnd[s] + 1)
    BY CutStartType DEF TypeInv
  <2>5. latest \in Nat /\ lastEnd \in [Symbol -> Nat]  BY DEF TypeInv, TypeOK
  <2>6. \A k \in 1..Len(runLog) :
          /\ runLog[k].symbol \in Symbol
          /\ runLog[k].start \in Nat /\ runLog[k].end \in Nat
          /\ runLog[k].start \in 1..runLog[k].end
          /\ runLog[k].end <= lastEnd[runLog[k].symbol]
    <3>1. \A k \in 1..Len(runLog) : runLog[k].start \in 1..runLog[k].end
      BY DEF CutsInv, CutsTile
    <3>2. \A k \in 1..Len(runLog) : runLog[k].end <= lastEnd[runLog[k].symbol]
      BY DEF CutsInv, CursorAtLastCut
    <3>. QED  BY <2>2, <3>1, <3>2 DEF RunRecord
  <2>7. \A k \in 1..Len(runLog) : runLog[k].symbol = s => runLog[k].end < start
    <3>. SUFFICES ASSUME NEW k \in 1..Len(runLog), runLog[k].symbol = s
                  PROVE  runLog[k].end < start
      OBVIOUS
    <3>1. runLog[k].end <= lastEnd[s] /\ runLog[k].end > 0  BY <2>6
    <3>. QED  BY <2>4, <2>5, <2>6, <3>1
  <2>8. CutsTile'
    <3>. SUFFICES ASSUME NEW k \in 1..N
                  PROVE  LET r == runLog'[k]
                             Earlier == {j \in 1..(k - 1) : runLog'[j].symbol = r.symbol}
                         IN  /\ r.start \in 1..r.end
                             /\ \A j \in Earlier : runLog'[j].end < r.start
                             /\ Earlier = {} \/ \E j \in Earlier : runLog'[j].end + 1 = r.start
      BY <2>2 DEF CutsTile
    <3>1. CASE k \in 1..Len(runLog)
      <4>1. \A j \in 1..(k - 1) : j \in 1..Len(runLog) /\ runLog'[j] = runLog[j]
        BY <2>2, <3>1
      <4>. QED  BY <2>2, <3>1, <4>1 DEF CutsInv, CutsTile
    <3>2. CASE k = N
      <4>. DEFINE Earlier == {j \in 1..(N - 1) : runLog'[j].symbol = s}
      <4>1. \A j \in 1..(N - 1) : j \in 1..Len(runLog) /\ runLog'[j] = runLog[j]
        BY <2>2
      <4>2. \A j \in Earlier : runLog'[j].end < start  BY <2>7, <4>1
      <4>3. Earlier = {} \/ \E j \in Earlier : runLog'[j].end + 1 = start
        <5>1. CASE lastEnd[s] = 0
          <6>1. \A j \in 1..Len(runLog) : runLog[j].symbol # s  BY <2>6, <5>1
          <6>. QED  BY <4>1, <6>1
        <5>2. CASE lastEnd[s] # 0
          <6>1. PICK j \in 1..Len(runLog) : runLog[j].symbol = s /\ runLog[j].end = lastEnd[s]
            BY <5>2 DEF CutsInv, CursorAtLastCut
          <6>2. j \in Earlier  BY <2>2, <6>1
          <6>3. runLog'[j].end + 1 = start  BY <2>2, <2>4, <5>2, <6>1
          <6>. QED  BY <6>2, <6>3
        <5>. QED  BY <5>1, <5>2
      <4>4. runLog'[N].start = start /\ runLog'[N].end = latest /\ runLog'[N].symbol = s
        BY <2>2
      <4>. HIDE DEF Earlier
      <4>5. Earlier = {j \in 1..(N - 1) : runLog'[j].symbol = runLog'[N].symbol}
        BY <4>4 DEF Earlier
      <4>. QED  BY <2>4, <3>2, <4>2, <4>3, <4>4, <4>5
    <3>. QED  BY <2>2, <3>1, <3>2
  <2>9. CursorAtLastCut'
    <3>1. \A k \in 1..N : runLog'[k].end <= lastEnd'[runLog'[k].symbol]
      <4>. SUFFICES ASSUME NEW k \in 1..N
                    PROVE  runLog'[k].end <= lastEnd'[runLog'[k].symbol]
        OBVIOUS
      <4>1. CASE k \in 1..Len(runLog) /\ runLog[k].symbol # s
        BY <2>2, <2>3, <2>5, <2>6, <4>1
      <4>2. CASE k \in 1..Len(runLog) /\ runLog[k].symbol = s
        <5>1. runLog[k].end < start /\ start <= latest /\ start \in Int  BY <2>4, <2>7, <4>2
        <5>2. runLog[k].end <= latest  BY <2>5, <2>6, <4>2, <5>1
        <5>. QED  BY <2>2, <2>3, <2>5, <4>2, <5>2
      <4>3. CASE k = N  BY <2>2, <2>3, <2>5, <4>3
      <4>. QED  BY <2>2, <4>1, <4>2, <4>3
    <3>2. ASSUME NEW q \in Symbol, lastEnd'[q] # 0
          PROVE  \E k \in 1..N : runLog'[k].symbol = q /\ runLog'[k].end = lastEnd'[q]
      <4>1. CASE q = s
        <5>1. N \in 1..N /\ runLog'[N].symbol = q /\ runLog'[N].end = lastEnd'[q]
          BY <2>2, <2>3, <2>5, <4>1
        <5>. QED  BY <5>1
      <4>2. CASE q # s
        <5>1. lastEnd'[q] = lastEnd[q]  BY <2>3, <2>5, <4>2
        <5>2. PICK k \in 1..Len(runLog) : runLog[k].symbol = q /\ runLog[k].end = lastEnd[q]
          BY <3>2, <5>1 DEF CutsInv, CursorAtLastCut
        <5>. QED  BY <2>2, <5>1, <5>2
      <4>. QED  BY <4>1, <4>2
    <3>. QED  BY <2>2, <3>1, <3>2 DEF CursorAtLastCut
  <2>. QED  BY <2>8, <2>9 DEF CutsInv
<1>2. ASSUME UNCHANGED <<runLog, lastEnd>>  PROVE CutsInv'
  BY <1>2 DEF CutsInv, CutsTile, CursorAtLastCut
<1>3. CASE \/ UNCHANGED vars
           \/ \E t \in Thread : Feed(t) \/ Refuse(t) \/ \E e \in Event : Admit(t, e)
  BY <1>2, <1>3 DEF vars, Feed, Refuse, Admit, Stamp, Push, Bump, AddSymbol, schedulerVars
<1>4. CASE \/ Start \/ Stop \/ Exit \/ NextTick \/ ReadLatest \/ ReadSymbols \/ EndTick
           \/ PersistenceHalts
           \/ \E s \in Symbol : GuardHalts(s) \/ NoCut(s)
  BY <1>2, <1>4 DEF Start, Stop, Exit, NextTick, ReadLatest, ReadSymbols, EndTick,
     PersistenceHalts, GuardHalts, NoCut, runVars
<1>5. CASE ReadCut \/ FailRun \/ CompleteRun
  BY <1>2, <1>5 DEF ReadCut, FailRun, CompleteRun
<1>. QED  BY <1>1, <1>3, <1>4, <1>5 DEF Next, Scheduler, Serve

(* Whatever the adapter threads do to the buffer, and wherever the scheduler   *)
(* is stopped, halted or killed, the cuts of a symbol are proper, disjoint and *)
(* contiguous ranges in the order of the run log (CutSelector.next_cut).       *)
THEOREM CutsAlwaysTile == Spec => []CutsTile
<1>1. Init => TypeInv /\ CutsInv
  <2>. SUFFICES ASSUME Init PROVE CutsInv
    BY InitType
  <2>1. Len(runLog) = 0 /\ \A s \in Symbol : lastEnd[s] = 0  BY EmptySeq DEF Init
  <2>. QED  BY <2>1 DEF CutsInv, CutsTile, CursorAtLastCut
<1>2. TypeInv /\ CutsInv => CutsTile  BY DEF CutsInv
<1>. QED  BY <1>1, <1>2, TypeInvStep, CutsInvStep, PTL DEF Spec

----
(* One run at a time.  What may be published next depends on what was published *)
(* last; where the scheduler thread is says which of the two it will be.        *)
WellFormed(p) ==
  \A n \in 1..Len(p) :
    IF p[n].type = "EngineRunStarted"
    THEN /\ p[n].run = IF n = 1 THEN 1 ELSE p[n - 1].run + 1
         /\ n > 1 => p[n - 1].type \in Terminal
    ELSE /\ n > 1
         /\ p[n].run = p[n - 1].run
         /\ p[n - 1].type \notin Terminal

Settled(p, k) ==
  IF p = <<>> THEN k = 0 ELSE p[Len(p)].type \in Terminal /\ p[Len(p)].run = k

OpenRun(p, k) ==
  /\ p # <<>>
  /\ p[Len(p)].type \notin Terminal
  /\ p[Len(p)].run = k

PublishInv ==
  /\ WellFormed(published)
  /\ pc \in {"off", "due", "symbols", "next"} \/ (pc = "loop" /\ running)
       => Settled(published, Len(runLog))
  /\ pc \in {"read", "run"} => OpenRun(published, Len(runLog))

(* A start may follow a settled run, and any other event an open one. *)
LEMMA AppendWellFormed ==
  ASSUME NEW p \in Seq(PublishedEvent), WellFormed(p), NEW e \in PublishedEvent, NEW k \in Nat,
         \/ e.type = "EngineRunStarted" /\ e.run = k + 1 /\ Settled(p, k)
         \/ e.type # "EngineRunStarted" /\ e.run = k /\ OpenRun(p, k)
  PROVE  /\ Append(p, e) \in Seq(PublishedEvent)
         /\ WellFormed(Append(p, e))
         /\ Append(p, e) # <<>>
         /\ Append(p, e)[Len(Append(p, e))] = e
<1>. DEFINE q == Append(p, e)
            N == Len(p) + 1
<1>1. /\ q \in Seq(PublishedEvent)
      /\ Len(p) \in Nat
      /\ Len(q) = N
      /\ q[N] = e
      /\ \A n \in 1..Len(p) : q[n] = p[n]
  BY AppendProperties, LenProperties
<1>2. q # <<>>  BY <1>1, EmptySeq
<1>3. p = <<>> <=> Len(p) = 0  BY EmptySeq
<1>. HIDE DEF q
<1>4. ASSUME NEW n \in 1..N
      PROVE  IF q[n].type = "EngineRunStarted"
             THEN /\ q[n].run = IF n = 1 THEN 1 ELSE q[n - 1].run + 1
                  /\ n > 1 => q[n - 1].type \in Terminal
             ELSE /\ n > 1
                  /\ q[n].run = q[n - 1].run
                  /\ q[n - 1].type \notin Terminal
  <2>1. CASE n \in 1..Len(p)
    <3>1. q[n] = p[n] /\ (n > 1 => n - 1 \in 1..Len(p) /\ q[n - 1] = p[n - 1])
      BY <1>1, <2>1
    <3>. QED  BY <2>1, <3>1 DEF WellFormed
  <2>2. CASE n = N /\ Len(p) = 0
    <3>1. e.type = "EngineRunStarted" /\ e.run = 1
      BY <1>3, <2>2 DEF Settled, OpenRun
    <3>. QED  BY <1>1, <2>2, <3>1
  <2>3. CASE n = N /\ Len(p) # 0
    <3>1. n > 1 /\ n - 1 = Len(p) /\ q[n - 1] = p[Len(p)]  BY <1>1, <2>3
    <3>. QED  BY <1>1, <1>3, <2>3, <3>1 DEF Settled, OpenRun
  <2>. QED  BY <1>1, <2>1, <2>2, <2>3
<1>5. WellFormed(q)  BY <1>1, <1>4 DEF WellFormed
<1>. QED  BY <1>1, <1>2, <1>5 DEF q

(* What SubSeq takes from the front of one or two events, and what appending it *)
(* means.                                                                       *)
LEMMA FrontOfEvents ==
  ASSUME NEW p \in Seq(PublishedEvent), NEW e \in PublishedEvent, NEW f \in PublishedEvent
  PROVE  /\ p \o SubSeq(<<e>>, 1, 0) = p
         /\ p \o SubSeq(<<e>>, 1, 1) = Append(p, e)
         /\ p \o SubSeq(<<e, f>>, 1, 0) = p
         /\ p \o SubSeq(<<e, f>>, 1, 1) = Append(p, e)
         /\ p \o SubSeq(<<e, f>>, 1, 2) = Append(Append(p, e), f)
<1>1. /\ <<e>> \in Seq(PublishedEvent) /\ <<f>> \in Seq(PublishedEvent)
      /\ <<e, f>> \in Seq(PublishedEvent)
  OBVIOUS
<1>2. /\ Len(<<e>>) = 1 /\ <<e>>[1] = e
      /\ Len(<<e, f>>) = 2 /\ <<e, f>>[1] = e /\ <<e, f>>[2] = f
  OBVIOUS
<1>3. SubSeq(<<e>>, 1, 0) = <<>> /\ SubSeq(<<e, f>>, 1, 0) = <<>>  BY SubSeqEmpty
<1>4. SubSeq(<<e>>, 1, 1) = <<e>>  BY <1>1, <1>2, SubSeqFull
<1>5. SubSeq(<<e, f>>, 1, 2) = <<e, f>>  BY <1>1, <1>2, SubSeqFull
<1>6. SubSeq(<<e, f>>, 1, 1) = <<e>>
  <2>1. \A i \in 1..1 : <<e, f>>[i] \in PublishedEvent  BY <1>2
  <2>2. /\ SubSeq(<<e, f>>, 1, 1) \in Seq(PublishedEvent)
        /\ Len(SubSeq(<<e, f>>, 1, 1)) = 1
        /\ \A i \in 1..1 : SubSeq(<<e, f>>, 1, 1)[i] = <<e, f>>[i]
    BY <2>1, SubSeqProperties
  <2>3. \A i \in 1..1 : SubSeq(<<e, f>>, 1, 1)[i] = <<e>>[i]  BY <1>2, <2>2
  <2>. QED  BY <1>1, <1>2, <2>2, <2>3, SeqEqual
<1>7. p \o <<>> = p  BY ConcatEmptySeq
<1>8. Append(p, e) = p \o <<e>>  BY AppendIsConcat
<1>9. Append(Append(p, e), f) = Append(p, e) \o <<f>>  BY AppendIsConcat, AppendProperties
<1>10. Append(<<e>>, f) = <<e>> \o <<f>>  BY <1>1, AppendIsConcat
<1>11. Append(<<e>>, f) = <<e, f>>
  <2>1. /\ Append(<<e>>, f) \in Seq(PublishedEvent)
        /\ Len(Append(<<e>>, f)) = 2
        /\ Append(<<e>>, f)[1] = e /\ Append(<<e>>, f)[2] = f
    BY <1>1, <1>2, AppendProperties
  <2>2. \A i \in 1..2 : Append(<<e>>, f)[i] = <<e, f>>[i]
    <3>1. \A i \in 1..2 : i = 1 \/ i = 2  OBVIOUS
    <3>. QED  BY <1>2, <2>1, <3>1
  <2>. QED  BY <1>1, <1>2, <2>1, <2>2, SeqEqual
<1>12. (p \o <<e>>) \o <<f>> = p \o (<<e>> \o <<f>>)  BY <1>1, ConcatAssociative
<1>. QED  BY <1>3, <1>4, <1>5, <1>6, <1>7, <1>8, <1>9, <1>10, <1>11, <1>12

(* Publishing one event, or two, appends none, one or both of them. *)
LEMMA PublishOne ==
  ASSUME TypeOK, NEW s \in Symbol, NEW e \in PublishedEvent, NEW next, Publish(s, <<e>>, next)
  PROVE  \/ published' = published /\ pc' = "dead"
         \/ published' = Append(published, e) /\ pc' \in {next, "dead"}
<1>1. PICK n \in 0..1, raised \in BOOLEAN :
        /\ IF tick < lastTs[s] THEN raised /\ n = 0
           ELSE IF raised THEN HandlersMayRaise /\ n > 0 ELSE n = 1
        /\ published' = published \o SubSeq(<<e>>, 1, n)
        /\ pc' = IF raised THEN "dead" ELSE next
  BY DEF Publish
<1>2. published \in Seq(PublishedEvent)  BY DEF TypeOK, PublishedEvent
<1>3. n = 0 \/ n = 1  BY <1>1
<1>. QED  BY <1>1, <1>2, <1>3, FrontOfEvents

LEMMA PublishTwo ==
  ASSUME TypeOK, NEW s \in Symbol, NEW e \in PublishedEvent, NEW f \in PublishedEvent,
         NEW next, Publish(s, <<e, f>>, next)
  PROVE  \/ published' = published /\ pc' = "dead"
         \/ published' = Append(published, e) /\ pc' = "dead"
         \/ published' = Append(Append(published, e), f) /\ pc' \in {next, "dead"}
<1>1. PICK n \in 0..2, raised \in BOOLEAN :
        /\ IF tick < lastTs[s] THEN raised /\ n = 0
           ELSE IF raised THEN HandlersMayRaise /\ n > 0 ELSE n = 2
        /\ published' = published \o SubSeq(<<e, f>>, 1, n)
        /\ pc' = IF raised THEN "dead" ELSE next
  BY DEF Publish
<1>2. published \in Seq(PublishedEvent)  BY DEF TypeOK, PublishedEvent
<1>3. n = 0 \/ n = 1 \/ n = 2  BY <1>1
<1>. QED  BY <1>1, <1>2, <1>3, FrontOfEvents

LEMMA PublishInvStep == TypeInv /\ PublishInv /\ [Next]_vars => PublishInv'
<1>. SUFFICES ASSUME TypeInv, PublishInv, [Next]_vars  PROVE PublishInv'
  OBVIOUS
<1>0. /\ published \in Seq(PublishedEvent) /\ runLog \in Seq(RunRecord) /\ TypeOK
      /\ Len(runLog) \in Nat /\ Len(reads) \in Nat
  BY LenProperties DEF TypeInv, TypeOK, PublishedEvent, RunRecord
<1>1. ASSUME NEW s \in Symbol, StartRun(s)  PROVE PublishInv'
  <2>. DEFINE e == Started(Len(runLog) + 1)
  <2>1. e \in PublishedEvent /\ e.type = "EngineRunStarted" /\ e.run = Len(runLog) + 1
    BY <1>0 DEF Started, PublishedEvent, PublishedType
  <2>2. Settled(published, Len(runLog))  BY <1>1 DEF StartRun, Turn, PublishInv
  <2>3. Len(runLog') = Len(runLog) + 1
    <3>1. PICK start \in CutStart(s) :
            runLog' = Append(runLog, [symbol |-> s, ts |-> tick, start |-> start, end |-> latest])
      BY <1>1 DEF StartRun
    <3>2. [symbol |-> s, ts |-> tick, start |-> start, end |-> latest] \in RunRecord
      BY <1>0, CutStartType DEF TypeOK, RunRecord
    <3>. QED  BY <1>0, <3>1, <3>2, AppendProperties
  <2>4. Publish(s, <<e>>, "read")  BY <1>1 DEF StartRun
  <2>. HIDE DEF e
  <2>5. \/ published' = published /\ pc' = "dead"
        \/ published' = Append(published, e) /\ pc' \in {"read", "dead"}
    BY <1>0, <2>1, <2>4, PublishOne
  <2>6. /\ Append(published, e) \in Seq(PublishedEvent)
        /\ WellFormed(Append(published, e))
        /\ Append(published, e) # <<>>
        /\ Append(published, e)[Len(Append(published, e))] = e
    BY <1>0, <2>1, <2>2, AppendWellFormed DEF PublishInv
  <2>. QED  BY <2>1, <2>3, <2>5, <2>6 DEF PublishInv, OpenRun, Terminal
<1>2. CASE FailRun
  <2>. DEFINE s == runLog[Run].symbol
              e == Failed(Run, reads[Run])
  <2>1. OpenRun(published, Run)  BY <1>2 DEF FailRun, PublishInv, Run
  <2>2. s \in Symbol /\ reads[Run] \in SUBSET Nat
    BY <1>2, RunBeingComputed DEF FailRun
  <2>3. e \in PublishedEvent /\ e.type = "EngineRunFailed" /\ e.run = Run
    BY <1>0, <2>2 DEF Failed, PublishedEvent, PublishedType, Run
  <2>4. Publish(s, <<e>>, "next") /\ Len(runLog') = Run
    BY <1>2 DEF FailRun, FailureEvents, Run
  <2>. HIDE DEF e, s
  <2>5. \/ published' = published /\ pc' = "dead"
        \/ published' = Append(published, e) /\ pc' \in {"next", "dead"}
    BY <1>0, <2>2, <2>3, <2>4, PublishOne
  <2>6. /\ Append(published, e) \in Seq(PublishedEvent)
        /\ WellFormed(Append(published, e))
        /\ Append(published, e) # <<>>
        /\ Append(published, e)[Len(Append(published, e))] = e
    BY <1>0, <2>1, <2>3, AppendWellFormed DEF PublishInv, Run
  <2>. QED  BY <2>3, <2>4, <2>5, <2>6 DEF PublishInv, Settled, Terminal
<1>3. CASE CompleteRun
  <2>. DEFINE s == runLog[Run].symbol
              h == Hysteresis(Run, reads[Run])
              c == Completed(Run, reads[Run])
  <2>1. OpenRun(published, Run)  BY <1>3 DEF CompleteRun, PublishInv, Run
  <2>2. s \in Symbol /\ reads[Run] \in SUBSET Nat
    BY <1>3, RunBeingComputed DEF CompleteRun
  <2>3. /\ h \in PublishedEvent /\ h.type = "HysteresisStatePublished" /\ h.run = Run
        /\ c \in PublishedEvent /\ c.type = "EngineRunCompleted" /\ c.run = Run
    BY <1>0, <2>2 DEF Hysteresis, Completed, PublishedEvent, PublishedType, Run
  <2>4. /\ Publish(s, <<c>>, "next") \/ Publish(s, <<h, c>>, "next")
        /\ Len(runLog') = Run
    BY <1>3 DEF CompleteRun, Run
  <2>. HIDE DEF s, h, c
  <2>5. \/ published' = published /\ pc' = "dead"
        \/ published' = Append(published, c) /\ pc' \in {"next", "dead"}
        \/ published' = Append(published, h) /\ pc' = "dead"
        \/ published' = Append(Append(published, h), c) /\ pc' \in {"next", "dead"}
    BY <1>0, <2>2, <2>3, <2>4, PublishOne, PublishTwo
  <2>6. Run \in Nat /\ WellFormed(published)  BY <1>0 DEF Run, PublishInv
  <2>7. /\ WellFormed(Append(published, c))
        /\ Append(published, c) # <<>>
        /\ Append(published, c)[Len(Append(published, c))] = c
    BY <1>0, <2>1, <2>3, <2>6, AppendWellFormed
  <2>8. /\ Append(published, h) \in Seq(PublishedEvent)
        /\ WellFormed(Append(published, h))
        /\ OpenRun(Append(published, h), Run)
    BY <1>0, <2>1, <2>3, <2>6, AppendWellFormed DEF OpenRun, Terminal
  <2>. DEFINE q == Append(published, h)
  <2>. HIDE DEF q
  <2>9. q \in Seq(PublishedEvent) /\ WellFormed(q) /\ OpenRun(q, Run)  BY <2>8 DEF q
  <2>10. /\ WellFormed(Append(q, c))
         /\ Append(q, c) # <<>>
         /\ Append(q, c)[Len(Append(q, c))] = c
    BY <2>3, <2>6, <2>9, AppendWellFormed
  <2>11. \/ published' = published /\ pc' = "dead"
         \/ published' = Append(published, c) /\ pc' \in {"next", "dead"}
         \/ published' = q /\ pc' = "dead"
         \/ published' = Append(q, c) /\ pc' \in {"next", "dead"}
    BY <2>5 DEF q
  <2>. QED
    BY <2>3, <2>4, <2>6, <2>7, <2>9, <2>10, <2>11 DEF PublishInv, Settled, Terminal
<1>4. ASSUME UNCHANGED <<published, runLog, pc, running>>  PROVE PublishInv'
  BY <1>4 DEF PublishInv, WellFormed, Settled, OpenRun
<1>5. CASE \/ UNCHANGED vars
           \/ \E t \in Thread : Feed(t) \/ Refuse(t) \/ \E e \in Event : Admit(t, e)
  BY <1>4, <1>5 DEF vars, Feed, Refuse, Admit, Stamp, Push, Bump, AddSymbol, schedulerVars
<1>6. ASSUME UNCHANGED <<published, runLog>>,
             \/ Start \/ Stop \/ Exit \/ NextTick \/ ReadLatest \/ ReadSymbols \/ EndTick
             \/ PersistenceHalts
             \/ ReadCut
             \/ \E s \in Symbol : GuardHalts(s) \/ NoCut(s)
      PROVE  PublishInv'
  <2>1. WellFormed(published')  BY <1>6 DEF PublishInv
  <2>2. Settled(published, Len(runLog)) => Settled(published', Len(runLog'))
    BY <1>6
  <2>3. OpenRun(published, Len(runLog)) => OpenRun(published', Len(runLog'))
    BY <1>6
  <2>4. pc' \in {"read", "run"} => pc \in {"read", "run"}
    BY <1>6 DEF Start, Stop, Exit, NextTick, ReadLatest, ReadSymbols, EndTick,
       PersistenceHalts, ReadCut, GuardHalts, NoCut, Turn
  <2>5. pc' \in {"off", "due", "symbols", "next"} \/ (pc' = "loop" /\ running')
          => pc \in {"off", "due", "symbols", "next"} \/ (pc = "loop" /\ running)
    BY <1>6 DEF Start, Stop, Exit, NextTick, ReadLatest, ReadSymbols, EndTick,
       PersistenceHalts, ReadCut, GuardHalts, NoCut, Turn
  <2>. QED  BY <2>1, <2>2, <2>3, <2>4, <2>5 DEF PublishInv
<1>7. CASE \/ Start \/ Stop \/ Exit \/ NextTick \/ ReadLatest \/ ReadSymbols \/ EndTick
           \/ PersistenceHalts
           \/ ReadCut
           \/ \E s \in Symbol : GuardHalts(s) \/ NoCut(s)
  <2>1. UNCHANGED <<published, runLog>>
    BY <1>7 DEF Start, Stop, Exit, NextTick, ReadLatest, ReadSymbols, EndTick,
       PersistenceHalts, ReadCut, GuardHalts, NoCut, runVars
  <2>. QED  BY <1>6, <1>7, <2>1
<1>. QED  BY <1>1, <1>2, <1>3, <1>5, <1>7 DEF Next, Scheduler, Serve

(* Consumers are given one run at a time, in the order of the run log, each    *)
(* from its start to its only terminal event, whatever raises, halts or stops. *)
THEOREM RunsNeverOverlap == Spec => []OneRunAtATime
<1>1. Init => PublishInv
  <2>. SUFFICES ASSUME Init PROVE PublishInv  OBVIOUS
  <2>1. published = <<>> /\ Len(published) = 0 /\ Len(runLog) = 0 /\ pc = "off"
    BY EmptySeq DEF Init
  <2>. QED  BY <2>1 DEF PublishInv, WellFormed, Settled
<1>2. PublishInv => OneRunAtATime  BY DEF PublishInv, WellFormed, OneRunAtATime
<1>. QED  BY <1>1, <1>2, InitType, TypeInvStep, PublishInvStep, PTL DEF Spec

----
(* One adapter thread.  RawInputBuffer.append has no lock, so what follows holds *)
(* of a buffer that a single thread feeds, however it interleaves with the       *)
(* scheduler.                                                                    *)
OneAdapter == \A t, u \in Thread : t = u

\* The buffer is numbered by position, except that the number of the next record
\* lags behind while the thread is between appending and counting.  No cut ends
\* beyond the buffer.
BufferNumbered ==
  /\ \A i \in 1..Len(records) : records[i].seq = i
  /\ \A t \in Thread :
       /\ nextSeq = IF feeder[t].pc = "bump" THEN Len(records) ELSE Len(records) + 1
       /\ feeder[t].pc = "push" => feeder[t].seq = nextSeq
  /\ latest <= Len(records)
  /\ \A s \in Symbol : lastEnd[s] <= Len(records)

(* A push puts one record behind the others. *)
LEMMA PushAppends ==
  ASSUME TypeInv, NEW t \in Thread, Push(t)
  PROVE  /\ Len(records') = Len(records) + 1
         /\ \A i \in 1..Len(records) : records'[i] = records[i]
         /\ records'[Len(records) + 1].seq = feeder[t].seq
         /\ records'[Len(records) + 1].symbol = feeder[t].event.symbol
         /\ records'[Len(records) + 1].kind = feeder[t].event.kind
         /\ feeder[t].event \in Event
<1>. DEFINE e == [seq |-> feeder[t].seq, symbol |-> feeder[t].event.symbol,
                  kind |-> feeder[t].event.kind]
<1>1. feeder[t].event \in Event /\ feeder[t].seq \in Nat
  BY DEF Push, TypeInv, TypeOK, FeederHasEvent, Feeder
<1>2. feeder[t].event \in [symbol : Symbol, kind : Kind]
  BY <1>1, OrchestratorAssumption DEF Symbol, Kind
<1>3. e \in BufferRecord  BY <1>1, <1>2 DEF BufferRecord
<1>4. records \in Seq(BufferRecord) /\ records' = Append(records, e)
  BY DEF Push, TypeInv, TypeOK, BufferRecord
<1>. HIDE DEF e
<1>5. /\ Len(records') = Len(records) + 1
      /\ \A i \in 1..Len(records) : records'[i] = records[i]
      /\ records'[Len(records) + 1] = e
  BY <1>3, <1>4, AppendProperties, LenProperties
<1>6. /\ e.seq = feeder[t].seq
      /\ e.symbol = feeder[t].event.symbol
      /\ e.kind = feeder[t].event.kind
  BY DEF e
<1>. QED  BY <1>1, <1>5, <1>6

LEMMA BufferNumberedStep ==
  ASSUME OneAdapter, TypeInv, BufferNumbered, [Next]_vars
  PROVE  BufferNumbered'
<1>0. /\ records \in Seq(BufferRecord) /\ Len(records) \in Nat /\ nextSeq \in Nat
      /\ latest \in Nat /\ lastEnd \in [Symbol -> Nat] /\ feeder \in [Thread -> Feeder]
  BY LenProperties DEF TypeInv, TypeOK, BufferRecord
<1>1. ASSUME NEW t \in Thread, Push(t)  PROVE BufferNumbered'
  <2>1. /\ Len(records') = Len(records) + 1
        /\ \A i \in 1..Len(records) : records'[i] = records[i]
        /\ records'[Len(records) + 1].seq = feeder[t].seq
    BY <1>1, PushAppends
  <2>2. feeder[t].seq = Len(records) + 1 /\ nextSeq = Len(records) + 1
    BY <1>1 DEF Push, BufferNumbered
  <2>3. \A i \in 1..Len(records') : records'[i].seq = i
    BY <1>0, <2>1, <2>2 DEF BufferNumbered
  <2>4. feeder'[t].pc = "bump" /\ nextSeq' = nextSeq  BY <1>0, <1>1 DEF Push, Feeder
  <2>5. \A u \in Thread : u = t  BY DEF OneAdapter
  <2>6. UNCHANGED <<latest, lastEnd>>  BY <1>1 DEF Push, schedulerVars
  <2>. QED  BY <1>0, <2>1, <2>2, <2>3, <2>4, <2>5, <2>6 DEF BufferNumbered
<1>2. ASSUME NEW t \in Thread,
             Stamp(t) \/ Bump(t) \/ AddSymbol(t) \/ Refuse(t) \/ \E e \in Event : Admit(t, e)
      PROVE  BufferNumbered'
  <2>1. \A u \in Thread : u = t  BY DEF OneAdapter
  <2>2. UNCHANGED <<records, latest, lastEnd>>
    BY <1>2 DEF Stamp, Bump, AddSymbol, Refuse, Admit, schedulerVars, vars
  <2>3. /\ nextSeq' = IF feeder'[t].pc = "bump" THEN Len(records) ELSE Len(records) + 1
        /\ feeder'[t].pc = "push" => feeder'[t].seq = nextSeq'
    <3>1. CASE Stamp(t)  BY <1>0, <3>1 DEF Stamp, BufferNumbered, Feeder
    <3>2. CASE Bump(t)  BY <1>0, <3>2 DEF Bump, BufferNumbered, Feeder
    <3>3. CASE AddSymbol(t)  BY <1>0, <3>3 DEF AddSymbol, BufferNumbered, Feeder, Idle
    <3>4. CASE Refuse(t)  BY <1>0, <3>4 DEF Refuse, vars, BufferNumbered
    <3>5. CASE \E e \in Event : Admit(t, e)  BY <1>0, <3>5 DEF Admit, BufferNumbered
    <3>. QED  BY <1>2, <3>1, <3>2, <3>3, <3>4, <3>5
  <2>. QED  BY <2>1, <2>2, <2>3 DEF BufferNumbered
<1>3. ASSUME UNCHANGED <<records, nextSeq, feeder>>,
             latest' \in Nat, latest' <= Len(records),
             \A s \in Symbol : lastEnd'[s] <= Len(records)
      PROVE  BufferNumbered'
  BY <1>3 DEF BufferNumbered
<1>4. CASE Scheduler \/ Stop
  <2>1. UNCHANGED <<records, nextSeq, feeder>>
    BY <1>4 DEF Scheduler, Serve, Start, Stop, Exit, NextTick, ReadLatest, ReadSymbols, EndTick,
       GuardHalts, NoCut, StartRun, ReadCut, FailRun, CompleteRun, PersistenceHalts, bufferVars
  <2>2. latest' \in Nat /\ latest' <= Len(records)
    <3>1. CASE ReadLatest
      <4>1. records # <<>> => records[Len(records)].seq = Len(records)
        <5>. SUFFICES ASSUME records # <<>> PROVE Len(records) \in 1..Len(records)
          BY DEF BufferNumbered
        <5>. QED  BY <1>0, EmptySeq
      <4>. QED  BY <1>0, <3>1, <4>1 DEF ReadLatest, BufferNumbered
    <3>2. CASE latest' = latest \/ latest' = 0  BY <1>0, <3>2 DEF BufferNumbered
    <3>. QED
      BY <1>4, <3>1, <3>2 DEF Scheduler, Serve, Start, Stop, Exit, NextTick, ReadSymbols, EndTick,
         GuardHalts, NoCut, StartRun, ReadCut, FailRun, CompleteRun, PersistenceHalts
  <2>3. \A s \in Symbol : lastEnd'[s] <= Len(records)
    <3>1. ASSUME NEW s \in Symbol, StartRun(s)  PROVE lastEnd' = [lastEnd EXCEPT ![s] = latest]
      BY <3>1 DEF StartRun, Cursor
    <3>2. CASE \E s \in Symbol : StartRun(s)  BY <1>0, <3>1, <3>2 DEF BufferNumbered
    <3>3. CASE lastEnd' = lastEnd  BY <3>3 DEF BufferNumbered
    <3>. QED
      BY <1>4, <3>2, <3>3 DEF Scheduler, Serve, Start, Stop, Exit, NextTick, ReadLatest,
         ReadSymbols, EndTick, GuardHalts, NoCut, ReadCut, FailRun, CompleteRun,
         PersistenceHalts, runVars
  <2>. QED  BY <1>3, <2>1, <2>2, <2>3
<1>5. CASE UNCHANGED vars  BY <1>5 DEF vars, BufferNumbered
<1>. QED  BY <1>1, <1>2, <1>4, <1>5 DEF Next, Feed

LEMMA BufferNumberedInit == Init => BufferNumbered
<1>. SUFFICES ASSUME Init PROVE BufferNumbered  OBVIOUS
<1>1. Len(records) = 0 /\ nextSeq = 1 /\ latest = 0 /\ \A s \in Symbol : lastEnd[s] = 0
  BY EmptySeq DEF Init
<1>2. \A t \in Thread : feeder[t].pc = "idle"  BY DEF Init, Idle
<1>. QED  BY <1>1, <1>2 DEF BufferNumbered

(* With one adapter thread the buffer's numbers increase, as the buffer promises *)
(* and cutting by number needs.                                                  *)
THEOREM OneAdapterNumbersInOrder == OneAdapter => (Spec => []SeqsIncrease)
<1>. SUFFICES ASSUME OneAdapter PROVE Spec => []SeqsIncrease
  OBVIOUS
<1>1. TypeInv /\ BufferNumbered /\ [Next]_vars => BufferNumbered'
  BY BufferNumberedStep
<1>2. TypeInv /\ BufferNumbered => SeqsIncrease
  BY LenProperties DEF BufferNumbered, SeqsIncrease, TypeInv, TypeOK
<1>. QED  BY <1>1, <1>2, BufferNumberedInit, InitType, TypeInvStep, PTL DEF Spec

----
(* Reading a cut.  A cut never ends beyond the buffer, so it holds the same    *)
(* records ever after, and what a run read is still what its cut holds.        *)
ReadsAreCuts ==
  /\ Len(reads) \in {Len(runLog), Len(runLog) - 1}
  /\ \A k \in 1..Len(reads) : reads[k] = InCut(runLog[k])

\* No record at or before the end of its symbol's last cut is outside all cuts.
CutsCover ==
  \A i \in 1..Len(records) :
    records[i].seq <= lastEnd[records[i].symbol] => \E k \in 1..Len(runLog) : i \in InCut(runLog[k])

BufferInv == TypeInv /\ CutsInv /\ BufferNumbered

LEMMA BufferInvStep == OneAdapter /\ BufferInv /\ [Next]_vars => BufferInv'
BY TypeInvStep, CutsInvStep, BufferNumberedStep DEF BufferInv

(* The run log and the buffer are what they are typed to be, and cuts end in it. *)
LEMMA LogFacts ==
  ASSUME BufferInv
  PROVE  /\ Len(runLog) \in Nat /\ Len(reads) \in Nat /\ Len(records) \in Nat
         /\ \A k \in 1..Len(runLog) : runLog[k] \in RunRecord /\ runLog[k].end <= Len(records)
         /\ \A i \in 1..Len(records) : records[i] \in BufferRecord /\ records[i].seq = i
<1>1. /\ runLog \in Seq(RunRecord) /\ records \in Seq(BufferRecord) /\ reads \in Seq(SUBSET Nat)
      /\ lastEnd \in [Symbol -> Nat]
  BY DEF BufferInv, TypeInv, TypeOK, RunRecord, BufferRecord
<1>2. /\ \A k \in 1..Len(runLog) : runLog[k] \in RunRecord
      /\ \A i \in 1..Len(records) : records[i] \in BufferRecord
      /\ Len(runLog) \in Nat /\ Len(reads) \in Nat /\ Len(records) \in Nat
  BY <1>1, ElementOfSeq, LenProperties
<1>3. \A k \in 1..Len(runLog) : runLog[k].end <= Len(records)
  <2>. SUFFICES ASSUME NEW k \in 1..Len(runLog) PROVE runLog[k].end <= Len(records)
    OBVIOUS
  <2>1. runLog[k].end <= lastEnd[runLog[k].symbol]
    BY DEF BufferInv, CutsInv, CursorAtLastCut
  <2>2. runLog[k].symbol \in Symbol /\ runLog[k].end \in Nat  BY <1>2 DEF RunRecord
  <2>3. lastEnd[runLog[k].symbol] <= Len(records)  BY <2>2 DEF BufferInv, BufferNumbered
  <2>. QED  BY <1>1, <1>2, <2>1, <2>2, <2>3
<1>. QED  BY <1>2, <1>3 DEF BufferInv, BufferNumbered

(* What is in a cut that ends within the buffer stays what it is. *)
LEMMA CutStable ==
  ASSUME BufferInv, BufferInv', Len(records) <= Len(records'),
         \A i \in 1..Len(records) : records'[i] = records[i]
  PROVE  \A r \in RunRecord : r.end <= Len(records) => InCut(r)' = InCut(r)
<1>. SUFFICES ASSUME NEW r \in RunRecord, r.end <= Len(records)
              PROVE  InCut(r)' = InCut(r)
  OBVIOUS
<1>1. Len(records) \in Nat /\ \A i \in 1..Len(records) : records[i].seq = i
  BY LogFacts
<1>2. Len(records') \in Nat /\ \A i \in 1..Len(records') : records'[i].seq = i
  <2>1. records' \in Seq(BufferRecord)  BY DEF BufferInv, TypeInv, TypeOK, BufferRecord
  <2>. QED  BY <2>1, LenProperties DEF BufferInv, BufferNumbered
<1>3. r.start \in Nat /\ r.end \in Nat  BY DEF RunRecord
<1>4. \A i \in 1..Len(records') :
        records'[i].seq \in r.start..r.end =>
          i \in 1..Len(records) /\ records'[i] = records[i]
  BY <1>1, <1>2, <1>3
<1>. QED  BY <1>1, <1>2, <1>3, <1>4 DEF InCut

(* The buffer only grows at its end; the run log, too. *)
LEMMA BufferGrows ==
  ASSUME BufferInv, [Next]_vars
  PROVE  /\ Len(records) <= Len(records')
         /\ \A i \in 1..Len(records) : records'[i] = records[i]
         /\ \/ records' = records
            \/ \E t \in Thread : Push(t)
<1>1. ASSUME NEW t \in Thread, Push(t)
      PROVE  Len(records) <= Len(records') /\ \A i \in 1..Len(records) : records'[i] = records[i]
  <2>1. Len(records) \in Nat  BY LogFacts
  <2>. QED  BY <1>1, <2>1, PushAppends DEF BufferInv
<1>2. records' = records \/ \E t \in Thread : Push(t)
  BY DEF Next, vars, Feed, Stamp, Bump, AddSymbol, Refuse, Admit, Scheduler, Serve, Start, Stop,
     Exit, NextTick, ReadLatest, ReadSymbols, EndTick, GuardHalts, NoCut, StartRun, ReadCut,
     FailRun, CompleteRun, PersistenceHalts, bufferVars
<1>. QED  BY <1>1, <1>2, LogFacts

(* A new run goes behind the others. *)
LEMMA StartAppends ==
  ASSUME BufferInv, NEW s \in Symbol, StartRun(s)
  PROVE  \E start \in CutStart(s) :
           /\ start \in Nat
           /\ Len(runLog') = Len(runLog) + 1
           /\ runLog'[Len(runLog) + 1]
                = [symbol |-> s, ts |-> tick, start |-> start, end |-> latest]
           /\ \A k \in 1..Len(runLog) : runLog'[k] = runLog[k]
<1>1. PICK start \in CutStart(s) :
        runLog' = Append(runLog, [symbol |-> s, ts |-> tick, start |-> start, end |-> latest])
  BY DEF StartRun
<1>. DEFINE e == [symbol |-> s, ts |-> tick, start |-> start, end |-> latest]
<1>2. runLog \in Seq(RunRecord) /\ latest \in Nat /\ tick \in Tick
  BY DEF BufferInv, TypeInv, TypeOK, RunRecord
<1>3. start \in Nat  BY CutStartType DEF BufferInv, TypeInv
<1>4. e \in RunRecord  BY <1>2, <1>3 DEF RunRecord
<1>. HIDE DEF e
<1>5. runLog' = Append(runLog, e)  BY <1>1 DEF e
<1>6. /\ Len(runLog') = Len(runLog) + 1
      /\ runLog'[Len(runLog) + 1] = e
      /\ \A k \in 1..Len(runLog) : runLog'[k] = runLog[k]
  BY <1>2, <1>4, <1>5, AppendProperties, LenProperties
<1>. QED  BY <1>3, <1>6 DEF e

(* The run log changes by new runs only, and what was read by ReadCut only. *)
LEMMA WhoWritesTheLog ==
  ASSUME [Next]_vars
  PROVE  \/ UNCHANGED <<runLog, lastEnd, reads>>
         \/ ReadCut
         \/ \E s \in Symbol : StartRun(s)
BY DEF Next, vars, Feed, Stamp, Push, Bump, AddSymbol, Refuse, Admit, schedulerVars, Scheduler,
   Serve, Start, Stop, Exit, NextTick, ReadLatest, ReadSymbols, EndTick, GuardHalts, NoCut,
   FailRun, CompleteRun, PersistenceHalts, runVars

LEMMA ReadsAreCutsStep ==
  ASSUME OneAdapter, BufferInv, ReadsAreCuts, [Next]_vars
  PROVE  ReadsAreCuts'
<1>0. BufferInv'  BY BufferInvStep
<1>1. \A r \in RunRecord : r.end <= Len(records) => InCut(r)' = InCut(r)
  BY <1>0, BufferGrows, CutStable
<1>2. /\ Len(runLog) \in Nat /\ Len(reads) \in Nat
      /\ \A k \in 1..Len(runLog) : runLog[k] \in RunRecord /\ runLog[k].end <= Len(records)
  BY LogFacts
<1>3. \A k \in 1..Len(reads) : k \in 1..Len(runLog) /\ reads[k] = InCut(runLog[k])
  BY <1>2 DEF ReadsAreCuts
<1>4. CASE UNCHANGED <<runLog, lastEnd, reads>>
  <2>1. \A k \in 1..Len(reads) : InCut(runLog[k])' = InCut(runLog[k])
    BY <1>1, <1>2, <1>3, <1>4
  <2>. QED  BY <1>3, <1>4, <2>1 DEF ReadsAreCuts
<1>5. CASE ReadCut
  <2>1. UNCHANGED <<runLog, records>> /\ Len(runLog) = Len(reads) + 1
    BY <1>5 DEF ReadCut, bufferVars, BufferInv, TypeInv, ReadsKeepUp
  <2>2. reads \in Seq(SUBSET Nat) /\ InCut(runLog[Run]) \in SUBSET Nat
    BY LenProperties DEF BufferInv, TypeInv, TypeOK, InCut
  <2>3. reads' = Append(reads, InCut(runLog[Run]))  BY <1>5 DEF ReadCut, ReadOfRun
  <2>4. /\ Len(reads') = Len(reads) + 1
        /\ reads'[Len(reads) + 1] = InCut(runLog[Run])
        /\ \A k \in 1..Len(reads) : reads'[k] = reads[k]
    BY <2>2, <2>3, AppendProperties
  <2>5. Run = Len(reads) + 1  BY <2>1 DEF Run
  <2>6. \A k \in 1..Len(reads') : reads'[k] = InCut(runLog[k])
    BY <1>2, <1>3, <2>4, <2>5
  <2>. QED  BY <1>2, <2>1, <2>4, <2>6 DEF ReadsAreCuts, InCut
<1>6. ASSUME NEW s \in Symbol, StartRun(s)  PROVE ReadsAreCuts'
  <2>1. UNCHANGED <<records, reads>>  BY <1>6 DEF StartRun, bufferVars
  <2>2. /\ Len(runLog') = Len(runLog) + 1
        /\ \A k \in 1..Len(runLog) : runLog'[k] = runLog[k]
    BY <1>6, StartAppends
  <2>3. Len(runLog) = Len(reads)
    BY <1>6 DEF StartRun, Turn, BufferInv, TypeInv, ReadsKeepUp
  <2>. QED  BY <1>2, <1>3, <2>1, <2>2, <2>3 DEF ReadsAreCuts, InCut
<1>. QED  BY <1>4, <1>5, <1>6, WhoWritesTheLog

LEMMA CutsCoverStep ==
  ASSUME OneAdapter, BufferInv, CutsCover, [Next]_vars
  PROVE  CutsCover'
<1>0. BufferInv'  BY BufferInvStep
<1>1. \A r \in RunRecord : r.end <= Len(records) => InCut(r)' = InCut(r)
  BY <1>0, BufferGrows, CutStable
<1>2. /\ Len(runLog) \in Nat /\ Len(records) \in Nat
      /\ \A k \in 1..Len(runLog) : runLog[k] \in RunRecord /\ runLog[k].end <= Len(records)
      /\ \A i \in 1..Len(records) : records[i] \in BufferRecord /\ records[i].seq = i
  BY LogFacts
<1>3. lastEnd \in [Symbol -> Nat] /\ latest \in Nat  BY DEF BufferInv, TypeInv, TypeOK
<1>4. CASE UNCHANGED <<runLog, lastEnd>> /\ records' = records
  BY <1>4 DEF CutsCover, InCut
<1>5. CASE UNCHANGED <<runLog, lastEnd>> /\ \E t \in Thread : Push(t)
  <2>1. /\ Len(records') = Len(records) + 1
        /\ \A i \in 1..Len(records) : records'[i] = records[i]
    BY <1>5, PushAppends DEF BufferInv
  <2>2. records' \in Seq(BufferRecord)
    BY <1>0 DEF BufferInv, TypeInv, TypeOK, BufferRecord
  <2>3. \A i \in 1..Len(records') : records'[i] \in BufferRecord /\ records'[i].seq = i
    BY <1>0, <2>2, ElementOfSeq DEF BufferInv, BufferNumbered
  <2>4. \A k \in 1..Len(runLog) : InCut(runLog[k])' = InCut(runLog[k])
    BY <1>1, <1>2, <1>5
  <2>. SUFFICES ASSUME NEW i \in 1..Len(records'),
                       records'[i].seq <= lastEnd[records'[i].symbol]
                PROVE  \E k \in 1..Len(runLog) : i \in InCut(runLog[k])'
    BY <1>5 DEF CutsCover
  <2>5. records'[i].symbol \in Symbol  BY <2>3 DEF BufferRecord
  <2>6. lastEnd[records'[i].symbol] <= Len(records)
    BY <2>5 DEF BufferInv, BufferNumbered
  <2>7. i \in 1..Len(records)  BY <1>2, <1>3, <2>1, <2>3, <2>5, <2>6
  <2>8. PICK k \in 1..Len(runLog) : i \in InCut(runLog[k])
    BY <2>1, <2>7 DEF CutsCover
  <2>. QED  BY <2>4, <2>8
<1>6. ASSUME NEW s \in Symbol, StartRun(s)  PROVE CutsCover'
  <2>1. PICK start \in CutStart(s) :
          /\ start \in Nat
          /\ Len(runLog') = Len(runLog) + 1
          /\ runLog'[Len(runLog) + 1]
               = [symbol |-> s, ts |-> tick, start |-> start, end |-> latest]
          /\ \A k \in 1..Len(runLog) : runLog'[k] = runLog[k]
    BY <1>6, StartAppends
  <2>2. records' = records /\ lastEnd' = [lastEnd EXCEPT ![s] = latest]
    BY <1>6 DEF StartRun, Cursor, bufferVars
  <2>. PICK N : N = Len(runLog) + 1  OBVIOUS
  <2>3. /\ runLog'[N].symbol = s /\ runLog'[N].start = start /\ runLog'[N].end = latest
        /\ N \in 1..Len(runLog')
    BY <1>2, <2>1
  <2>4. \A k \in 1..Len(runLog) : k \in 1..Len(runLog') /\ InCut(runLog[k])' = InCut(runLog[k])
    BY <1>1, <1>2, <2>1, <2>2 DEF InCut
  <2>. SUFFICES ASSUME NEW i \in 1..Len(records),
                       records[i].seq <= lastEnd'[records[i].symbol]
                PROVE  \E k \in 1..Len(runLog') : i \in InCut(runLog[k])'
    BY <2>2 DEF CutsCover
  <2>5. records[i].symbol \in Symbol /\ records[i].seq = i  BY <1>2 DEF BufferRecord
  <2>6. CASE records[i].seq <= lastEnd[records[i].symbol]
    <3>1. PICK k \in 1..Len(runLog) : i \in InCut(runLog[k])  BY <2>6 DEF CutsCover
    <3>. QED  BY <2>4, <3>1
  <2>7. CASE ~(records[i].seq <= lastEnd[records[i].symbol])
    <3>1. records[i].symbol = s /\ i <= latest
      BY <1>3, <2>2, <2>5, <2>7
    <3>2. start <= i
      <4>1. CASE lastEnd[s] # 0
        <5>1. start = lastEnd[s] + 1
          BY <4>1, CutStartType DEF BufferInv, TypeInv
        <5>. QED  BY <1>3, <2>5, <2>7, <3>1, <5>1
      <4>2. CASE lastEnd[s] = 0
        <5>1. PICK j \in RecordsUpTo(s, latest) :
                /\ \A k \in RecordsUpTo(s, latest) : j <= k
                /\ start = records[j].seq
          BY <2>1, <4>2 DEF CutStart, FirstSeq
        <5>2. i \in RecordsUpTo(s, latest)
          BY <1>2, <1>3, <2>5, <3>1 DEF RecordsUpTo
        <5>3. j \in 1..Len(records)  BY <5>1 DEF RecordsUpTo
        <5>. QED  BY <1>2, <5>1, <5>2, <5>3
      <4>. QED  BY <4>1, <4>2
    <3>3. i \in InCut(runLog[N])'
      BY <1>2, <1>3, <2>1, <2>2, <2>3, <2>5, <3>1, <3>2 DEF InCut
    <3>. QED  BY <2>3, <3>3
  <2>. QED  BY <2>6, <2>7
<1>7. CASE ReadCut
  BY <1>7 DEF ReadCut, bufferVars, CutsCover, InCut
<1>. QED  BY <1>4, <1>5, <1>6, <1>7, WhoWritesTheLog, BufferGrows

(* The cuts of one symbol are disjoint, so a record is in one cut at most. *)
LEMMA CutsDisjoint ==
  ASSUME BufferInv, NEW j \in 1..Len(runLog), NEW k \in 1..Len(runLog), NEW i,
         i \in InCut(runLog[j]), i \in InCut(runLog[k])
  PROVE  j = k
<1>1. /\ Len(runLog) \in Nat /\ Len(records) \in Nat
      /\ runLog[j] \in RunRecord /\ runLog[k] \in RunRecord
  BY LogFacts
<1>2. /\ runLog[j].symbol = runLog[k].symbol
      /\ records[i].seq \in runLog[j].start..runLog[j].end
      /\ records[i].seq \in runLog[k].start..runLog[k].end
  BY DEF InCut
<1>3. ASSUME NEW m \in 1..Len(runLog), NEW n \in 1..Len(runLog), m < n,
             runLog[m].symbol = runLog[n].symbol
      PROVE  runLog[m].end < runLog[n].start
  <2>1. m \in 1..(n - 1)  BY <1>1, <1>3
  <2>. QED  BY <1>3, <2>1 DEF BufferInv, CutsInv, CutsTile
<1>4. ~(j < k)
  <2>. SUFFICES ASSUME j < k PROVE FALSE  OBVIOUS
  <2>1. runLog[j].end < runLog[k].start  BY <1>2, <1>3
  <2>. QED  BY <1>1, <1>2, <2>1 DEF RunRecord
<1>5. ~(k < j)
  <2>. SUFFICES ASSUME k < j PROVE FALSE  OBVIOUS
  <2>1. runLog[k].end < runLog[j].start  BY <1>2, <1>3
  <2>. QED  BY <1>1, <1>2, <2>1 DEF RunRecord
<1>. QED  BY <1>1, <1>4, <1>5

LEMMA ReadOnceFromCuts ==
  ASSUME BufferInv, ReadsAreCuts, CutsCover
  PROVE  ReadExactlyOnce
<1>. SUFFICES ASSUME NEW i \in 1..Len(records),
                     records[i].seq <= lastEnd[records[i].symbol]
              PROVE  Cardinality({k \in 1..Len(reads) : i \in reads[k]})
                       = IF Len(reads) < Len(runLog) /\ i \in InCut(runLog[Run]) THEN 0 ELSE 1
  BY DEF ReadExactlyOnce
<1>. DEFINE readers == {k \in 1..Len(reads) : i \in reads[k]}
<1>1. /\ Len(runLog) \in Nat /\ Len(reads) \in Nat
      /\ Len(reads) \in {Len(runLog), Len(runLog) - 1}
      /\ \A k \in 1..Len(reads) : k \in 1..Len(runLog) /\ reads[k] = InCut(runLog[k])
  BY LogFacts DEF ReadsAreCuts
<1>2. PICK k \in 1..Len(runLog) : i \in InCut(runLog[k])  BY DEF CutsCover
<1>3. \A j \in 1..Len(runLog) : i \in InCut(runLog[j]) => j = k  BY <1>2, CutsDisjoint
<1>4. CASE Len(reads) < Len(runLog) /\ i \in InCut(runLog[Run])
  <2>1. k = Len(runLog)  BY <1>1, <1>2, <1>3, <1>4 DEF Run
  <2>2. readers = {}  BY <1>1, <1>3, <1>4, <2>1
  <2>. QED  BY <1>4, <2>2, FS_EmptySet
<1>5. CASE ~(Len(reads) < Len(runLog) /\ i \in InCut(runLog[Run]))
  <2>1. k \in 1..Len(reads)  BY <1>1, <1>2, <1>5 DEF Run
  <2>2. readers = {k}  BY <1>1, <1>2, <1>3, <2>1
  <2>. QED  BY <1>5, <2>2, FS_Singleton
<1>. QED  BY <1>4, <1>5

LEMMA BufferInit == Init => BufferInv /\ ReadsAreCuts /\ CutsCover
<1>. SUFFICES ASSUME Init PROVE BufferInv /\ ReadsAreCuts /\ CutsCover  OBVIOUS
<1>1. /\ Len(runLog) = 0 /\ Len(reads) = 0 /\ Len(records) = 0
      /\ \A s \in Symbol : lastEnd[s] = 0
  BY EmptySeq DEF Init
<1>2. CutsInv  BY <1>1 DEF CutsInv, CutsTile, CursorAtLastCut
<1>. QED
  BY <1>1, <1>2, InitType, BufferNumberedInit DEF BufferInv, ReadsAreCuts, CutsCover

(* With one adapter thread, every record up to the end of its symbol's last cut *)
(* is computed from once, except by a run that has yet to look at the buffer,   *)
(* however appends, symbols, ticks, halts and stops interleave.                 *)
THEOREM OneAdapterReadOnce == OneAdapter => (Spec => []ReadExactlyOnce)
<1>. SUFFICES ASSUME OneAdapter PROVE Spec => []ReadExactlyOnce
  OBVIOUS
<1>1. BufferInv /\ [Next]_vars => BufferInv'  BY BufferInvStep
<1>2. BufferInv /\ ReadsAreCuts /\ [Next]_vars => ReadsAreCuts'  BY ReadsAreCutsStep
<1>3. BufferInv /\ CutsCover /\ [Next]_vars => CutsCover'  BY CutsCoverStep
<1>4. BufferInv /\ ReadsAreCuts /\ CutsCover => ReadExactlyOnce  BY ReadOnceFromCuts
<1>. QED  BY <1>1, <1>2, <1>3, <1>4, BufferInit, PTL DEF Spec

----
(* Replay.  The engine is called outside replay's try block, so a run whose    *)
(* engine raises cannot be replayed; without such events, one adapter thread   *)
(* is enough for a replay to publish what was published.                       *)
NothingCrashes == \A e \in Event : e.kind # "crashing"

\* The events of run k in p are evts, in one piece.
RunIs(p, k, evts) ==
  \E n \in 0..Len(p) :
    /\ {m \in 1..Len(p) : p[m].run = k} = (n + 1)..(n + Len(evts))
    /\ \A m \in 1..Len(evts) : p[n + m] = evts[m]

\* What run k has published while the last run is still open.
SoFar(k) == IF k = Len(runLog) THEN <<Started(k)>> ELSE Replayed(k)

ReplayInv ==
  /\ \A i \in 1..Len(records) : records[i].kind # "crashing"
  /\ \A n \in 1..Len(published) : published[n].run \in 1..Len(runLog)
  /\ pc \in {"off", "due", "symbols", "next"} \/ (pc = "loop" /\ running)
       => \A k \in 1..Len(runLog) : RunIs(published, k, Replayed(k))
  /\ pc \in {"read", "run"} => \A k \in 1..Len(runLog) : RunIs(published, k, SoFar(k))

(* Publishing an event leaves the other runs' events as they are, ... *)
LEMMA OthersKept ==
  ASSUME NEW p \in Seq(PublishedEvent), NEW e \in PublishedEvent, NEW k \in Nat, e.run # k,
         NEW evts \in Seq(PublishedEvent), RunIs(p, k, evts)
  PROVE  RunIs(Append(p, e), k, evts)
<1>. DEFINE q == Append(p, e)
<1>1. /\ Len(p) \in Nat /\ Len(q) = Len(p) + 1 /\ q[Len(p) + 1] = e
      /\ \A n \in 1..Len(p) : q[n] = p[n]
  BY AppendProperties, LenProperties
<1>. HIDE DEF q
<1>2. PICK n \in 0..Len(p) :
        /\ {m \in 1..Len(p) : p[m].run = k} = (n + 1)..(n + Len(evts))
        /\ \A m \in 1..Len(evts) : p[n + m] = evts[m]
  BY DEF RunIs
<1>3. {m \in 1..Len(q) : q[m].run = k} = {m \in 1..Len(p) : p[m].run = k}
  BY <1>1
<1>4. \A m \in 1..Len(evts) : n + m \in 1..Len(p)
  <2>1. Len(evts) \in Nat  BY LenProperties
  <2>2. \A m \in 1..Len(evts) : n + m \in (n + 1)..(n + Len(evts))  BY <2>1
  <2>. QED  BY <1>2, <2>2
<1>5. \A m \in 1..Len(evts) : q[n + m] = evts[m]  BY <1>1, <1>2, <1>4
<1>6. n \in 0..Len(q)  BY <1>1
<1>7. RunIs(q, k, evts)  BY <1>2, <1>3, <1>5, <1>6 DEF RunIs
<1>. QED  BY <1>7 DEF q

(* ... goes behind its own run's when that one published last, ... *)
LEMMA OwnExtended ==
  ASSUME NEW p \in Seq(PublishedEvent), NEW e \in PublishedEvent, NEW k \in Nat, e.run = k,
         NEW evts \in Seq(PublishedEvent), RunIs(p, k, evts), OpenRun(p, k)
  PROVE  RunIs(Append(p, e), k, Append(evts, e))
<1>. DEFINE q == Append(p, e)
            f == Append(evts, e)
<1>1. /\ Len(p) \in Nat /\ Len(q) = Len(p) + 1 /\ q[Len(p) + 1] = e
      /\ \A n \in 1..Len(p) : q[n] = p[n]
  BY AppendProperties, LenProperties
<1>2. /\ Len(evts) \in Nat /\ Len(f) = Len(evts) + 1 /\ f[Len(evts) + 1] = e
      /\ \A n \in 1..Len(evts) : f[n] = evts[n]
  BY AppendProperties, LenProperties
<1>. HIDE DEF q, f
<1>3. PICK n \in 0..Len(p) :
        /\ {m \in 1..Len(p) : p[m].run = k} = (n + 1)..(n + Len(evts))
        /\ \A m \in 1..Len(evts) : p[n + m] = evts[m]
  BY DEF RunIs
<1>4. Len(p) \in 1..Len(p) /\ p[Len(p)].run = k
  BY <1>1, EmptySeq DEF OpenRun
<1>5. n + Len(evts) = Len(p)
  <2>1. Len(p) \in (n + 1)..(n + Len(evts))  BY <1>3, <1>4
  <2>2. n + Len(evts) \in (n + 1)..(n + Len(evts))  BY <1>1, <1>2, <2>1
  <2>3. n + Len(evts) \in 1..Len(p)  BY <1>3, <2>2
  <2>. QED  BY <1>1, <1>2, <2>1, <2>3
<1>6. {m \in 1..Len(q) : q[m].run = k} = (n + 1)..(n + Len(f))
  <2>1. {m \in 1..Len(q) : q[m].run = k} = {m \in 1..Len(p) : p[m].run = k} \cup {Len(p) + 1}
    BY <1>1
  <2>2. (n + 1)..(n + Len(f)) = ((n + 1)..(n + Len(evts))) \cup {Len(p) + 1}
    BY <1>1, <1>2, <1>5
  <2>. QED  BY <1>3, <2>1, <2>2
<1>7. \A m \in 1..Len(f) : q[n + m] = f[m]
  <2>. SUFFICES ASSUME NEW m \in 1..Len(f) PROVE q[n + m] = f[m]
    OBVIOUS
  <2>1. CASE m = Len(evts) + 1  BY <1>1, <1>2, <1>5, <2>1
  <2>2. CASE m \in 1..Len(evts)
    <3>1. n + m \in 1..Len(p)  BY <1>1, <1>2, <1>5, <2>2
    <3>. QED  BY <1>1, <1>2, <1>3, <2>2, <3>1
  <2>. QED  BY <1>2, <2>1, <2>2
<1>8. n \in 0..Len(q)  BY <1>1
<1>9. RunIs(q, k, f)  BY <1>6, <1>7, <1>8 DEF RunIs
<1>. QED  BY <1>9 DEF q, f

(* ... and begins a run nobody has published for. *)
LEMMA OwnBegun ==
  ASSUME NEW p \in Seq(PublishedEvent), NEW e \in PublishedEvent, NEW k \in Nat, e.run = k,
         \A n \in 1..Len(p) : p[n].run # k
  PROVE  RunIs(Append(p, e), k, <<e>>)
<1>. DEFINE q == Append(p, e)
<1>1. /\ Len(p) \in Nat /\ Len(q) = Len(p) + 1 /\ q[Len(p) + 1] = e
      /\ \A n \in 1..Len(p) : q[n] = p[n]
  BY AppendProperties, LenProperties
<1>. HIDE DEF q
<1>2. Len(<<e>>) = 1 /\ <<e>>[1] = e  OBVIOUS
<1>3. {m \in 1..Len(q) : q[m].run = k} = {Len(p) + 1}  BY <1>1
<1>4. (Len(p) + 1)..(Len(p) + 1) = {Len(p) + 1}  BY <1>1
<1>5. \A m \in 1..1 : q[Len(p) + m] = <<e>>[m]  BY <1>1, <1>2
<1>6. Len(p) \in 0..Len(q)  BY <1>1
<1>7. RunIs(q, k, <<e>>)  BY <1>2, <1>3, <1>4, <1>5, <1>6 DEF RunIs
<1>. QED  BY <1>7 DEF q

(* Two and three events in a row. *)
LEMMA EventsInARow ==
  ASSUME NEW a \in PublishedEvent, NEW b \in PublishedEvent, NEW c \in PublishedEvent
  PROVE  Append(<<a>>, b) = <<a, b>> /\ Append(Append(<<a>>, b), c) = <<a, b, c>>
<1>1. Append(<<a>>, b) = <<a, b>>
  <2>1. /\ <<a>> \in Seq(PublishedEvent) /\ <<a, b>> \in Seq(PublishedEvent)
        /\ Len(<<a>>) = 1 /\ <<a>>[1] = a
        /\ Len(<<a, b>>) = 2 /\ <<a, b>>[1] = a /\ <<a, b>>[2] = b
    OBVIOUS
  <2>2. /\ Append(<<a>>, b) \in Seq(PublishedEvent)
        /\ Len(Append(<<a>>, b)) = 2
        /\ Append(<<a>>, b)[1] = a /\ Append(<<a>>, b)[2] = b
    BY <2>1, AppendProperties
  <2>3. \A i \in 1..2 : Append(<<a>>, b)[i] = <<a, b>>[i]
    <3>1. \A i \in 1..2 : i = 1 \/ i = 2  OBVIOUS
    <3>. QED  BY <2>1, <2>2, <3>1
  <2>. QED  BY <2>1, <2>2, <2>3, SeqEqual
<1>2. Append(<<a, b>>, c) = <<a, b, c>>
  <2>1. /\ <<a, b>> \in Seq(PublishedEvent) /\ <<a, b, c>> \in Seq(PublishedEvent)
        /\ Len(<<a, b>>) = 2 /\ <<a, b>>[1] = a /\ <<a, b>>[2] = b
        /\ Len(<<a, b, c>>) = 3
        /\ <<a, b, c>>[1] = a /\ <<a, b, c>>[2] = b /\ <<a, b, c>>[3] = c
    OBVIOUS
  <2>2. /\ Append(<<a, b>>, c) \in Seq(PublishedEvent)
        /\ Len(Append(<<a, b>>, c)) = 3
        /\ Append(<<a, b>>, c)[1] = a /\ Append(<<a, b>>, c)[2] = b /\ Append(<<a, b>>, c)[3] = c
    BY <2>1, AppendProperties
  <2>3. \A i \in 1..3 : Append(<<a, b>>, c)[i] = <<a, b, c>>[i]
    <3>1. \A i \in 1..3 : i = 1 \/ i = 2 \/ i = 3  OBVIOUS
    <3>. QED  BY <2>1, <2>2, <3>1
  <2>. QED  BY <2>1, <2>2, <2>3, SeqEqual
<1>. QED  BY <1>1, <1>2

LEMMA ReplayedType ==
  ASSUME BufferInv, NEW k \in 1..Len(runLog)
  PROVE  /\ k \in Nat
         /\ Started(k) \in PublishedEvent
         /\ <<Started(k)>> \in Seq(PublishedEvent)
         /\ Failed(k, InCut(runLog[k])) \in PublishedEvent
         /\ Hysteresis(k, InCut(runLog[k])) \in PublishedEvent
         /\ Completed(k, InCut(runLog[k])) \in PublishedEvent
         /\ Replayed(k) \in Seq(PublishedEvent)
         /\ SoFar(k) \in Seq(PublishedEvent)
<1>1. k \in Nat /\ Len(records) \in Nat  BY LogFacts
<1>. DEFINE read == InCut(runLog[k])
<1>2. read \in SUBSET Nat  BY <1>1 DEF InCut
<1>3. {} \in SUBSET Nat  OBVIOUS
<1>. HIDE DEF read
<1>. DEFINE a == Started(k)
            b == Failed(k, read)
            c == Hysteresis(k, read)
            d == Completed(k, read)
<1>4. a \in PublishedEvent
  BY <1>1, <1>3 DEF Started, PublishedEvent, PublishedType
<1>5. b \in PublishedEvent /\ c \in PublishedEvent /\ d \in PublishedEvent
  BY <1>1, <1>2 DEF Failed, Hysteresis, Completed, PublishedEvent, PublishedType
<1>6. Replayed(k) = IF \E i \in read : records[i].kind = "unbuildable" THEN <<a, b>>
                    ELSE IF \E i \in read : records[i].kind = "crashing" THEN <<a>>
                    ELSE IF mode = "hysteresis" THEN <<a, c, d>>
                    ELSE <<a, d>>
  BY DEF Replayed, read
<1>7. SoFar(k) = IF k = Len(runLog) THEN <<a>> ELSE Replayed(k)  BY DEF SoFar
<1>8. a \in PublishedEvent /\ b \in PublishedEvent /\ c \in PublishedEvent /\ d \in PublishedEvent
  BY <1>4, <1>5
<1>. HIDE DEF a, b, c, d
<1>9. /\ <<a>> \in Seq(PublishedEvent) /\ <<a, b>> \in Seq(PublishedEvent)
      /\ <<a, c, d>> \in Seq(PublishedEvent) /\ <<a, d>> \in Seq(PublishedEvent)
  BY <1>8
<1>10. Replayed(k) \in Seq(PublishedEvent)  BY <1>6, <1>9
<1>. QED  BY <1>1, <1>7, <1>8, <1>9, <1>10 DEF a, b, c, d, read

LEMMA LogGrows ==
  ASSUME BufferInv, [Next]_vars
  PROVE  /\ \A k \in 1..Len(runLog) : k \in 1..Len(runLog') /\ runLog'[k] = runLog[k]
         /\ mode' = mode
<1>1. \A k \in 1..Len(runLog) : k \in 1..Len(runLog') /\ runLog'[k] = runLog[k]
  <2>1. CASE runLog' = runLog  BY <2>1
  <2>2. ASSUME NEW s \in Symbol, StartRun(s)
        PROVE  \A k \in 1..Len(runLog) : k \in 1..Len(runLog') /\ runLog'[k] = runLog[k]
    <3>1. /\ Len(runLog') = Len(runLog) + 1
          /\ \A k \in 1..Len(runLog) : runLog'[k] = runLog[k]
      BY <2>2, StartAppends
    <3>. QED  BY <3>1, LogFacts
  <2>3. CASE ReadCut  BY <2>3 DEF ReadCut
  <2>. QED  BY <2>1, <2>2, <2>3, WhoWritesTheLog
<1>2. mode' = mode
  BY DEF Next, vars, Feed, Stamp, Push, Bump, AddSymbol, Refuse, Admit, schedulerVars, Scheduler,
     Serve, Start, Stop, Exit, NextTick, ReadLatest, ReadSymbols, EndTick, GuardHalts, NoCut,
     StartRun, ReadCut, FailRun, CompleteRun, PersistenceHalts
<1>. QED  BY <1>1, <1>2

(* A growing buffer does not change what a run replays to. *)
LEMMA ReplayedKept ==
  ASSUME OneAdapter, BufferInv, [Next]_vars, NEW k \in 1..Len(runLog)
  PROVE  Replayed(k)' = Replayed(k)
<1>0. BufferInv'  BY BufferInvStep
<1>1. \A r \in RunRecord : r.end <= Len(records) => InCut(r)' = InCut(r)
  BY <1>0, BufferGrows, CutStable
<1>2. runLog[k] \in RunRecord /\ runLog[k].end <= Len(records)  BY LogFacts
<1>3. runLog'[k] = runLog[k] /\ mode' = mode  BY LogGrows
<1>4. InCut(runLog[k])' = InCut(runLog[k])  BY <1>1, <1>2, <1>3
<1>5. \A i \in InCut(runLog[k]) : records'[i] = records[i]
  BY BufferGrows DEF InCut
<1>. DEFINE read == InCut(runLog[k])
<1>6. /\ (\E i \in read : records'[i].kind = "unbuildable")
           <=> (\E i \in read : records[i].kind = "unbuildable")
      /\ (\E i \in read : records'[i].kind = "crashing")
           <=> (\E i \in read : records[i].kind = "crashing")
  BY <1>5
<1>7. Replayed(k)' =
        IF \E i \in read : records'[i].kind = "unbuildable"
        THEN <<Started(k), Failed(k, read)>>
        ELSE IF \E i \in read : records'[i].kind = "crashing" THEN <<Started(k)>>
        ELSE IF mode = "hysteresis"
             THEN <<Started(k), Hysteresis(k, read), Completed(k, read)>>
        ELSE <<Started(k), Completed(k, read)>>
  BY <1>3, <1>4 DEF Replayed, Started, Failed, Hysteresis, Completed
<1>. QED  BY <1>6, <1>7 DEF Replayed

LEMMA NothingCrashesStep ==
  ASSUME NothingCrashes, BufferInv, [Next]_vars,
         \A i \in 1..Len(records) : records[i].kind # "crashing"
  PROVE  \A i \in 1..Len(records') : records'[i].kind # "crashing"
<1>1. CASE records' = records  BY <1>1
<1>2. ASSUME NEW t \in Thread, Push(t)
      PROVE  \A i \in 1..Len(records') : records'[i].kind # "crashing"
  <2>1. /\ Len(records') = Len(records) + 1
        /\ \A i \in 1..Len(records) : records'[i] = records[i]
        /\ records'[Len(records) + 1].kind = feeder[t].event.kind
        /\ feeder[t].event \in Event
    BY <1>2, PushAppends DEF BufferInv
  <2>. QED  BY <2>1, LogFacts DEF NothingCrashes
<1>. QED  BY <1>1, <1>2, BufferGrows

LEMMA ReplayInvStep ==
  ASSUME OneAdapter, NothingCrashes, BufferInv, ReadsAreCuts, PublishInv, ReplayInv, [Next]_vars
  PROVE  ReplayInv'
<1>0. /\ published \in Seq(PublishedEvent) /\ TypeOK
      /\ Len(runLog) \in Nat /\ Len(published) \in Nat /\ Run = Len(runLog)
  BY LogFacts, LenProperties DEF BufferInv, TypeInv, TypeOK, PublishedEvent, Run
<1>1. \A i \in 1..Len(records') : records'[i].kind # "crashing"
  BY NothingCrashesStep DEF ReplayInv
<1>2. \A k \in 1..Len(runLog) :
        k \in 1..Len(runLog') /\ runLog'[k] = runLog[k] /\ Replayed(k)' = Replayed(k)
  BY LogGrows, ReplayedKept
<1>3. ASSUME NEW s \in Symbol, StartRun(s)  PROVE ReplayInv'
  <2>1. PICK N : N = Len(runLog) + 1  OBVIOUS
  <2>2. Len(runLog') = N
    BY <1>3, <2>1, StartAppends DEF BufferInv
  <2>. DEFINE e == Started(N)
  <2>3. N \in Nat /\ e \in PublishedEvent /\ e.run = N
    BY <1>0, <2>1 DEF Started, PublishedEvent, PublishedType
  <2>4. Publish(s, <<e>>, "read") /\ pc = "next"  BY <1>3, <2>1 DEF StartRun, Turn
  <2>. HIDE DEF e
  <2>5. \/ published' = published /\ pc' = "dead"
        \/ published' = Append(published, e) /\ pc' \in {"read", "dead"}
    BY <1>0, <2>3, <2>4, PublishOne
  <2>6. CASE published' = published /\ pc' = "dead"
    <3>1. \A n \in 1..Len(published') : published'[n].run \in 1..Len(runLog')
      BY <1>2, <2>6 DEF ReplayInv
    <3>. QED  BY <1>1, <2>6, <3>1 DEF ReplayInv
  <2>7. CASE published' = Append(published, e) /\ pc' \in {"read", "dead"}
    <3>1. /\ Len(published') = Len(published) + 1
          /\ published'[Len(published) + 1] = e
          /\ \A n \in 1..Len(published) : published'[n] = published[n]
      BY <1>0, <2>3, <2>7, AppendProperties
    <3>2. \A n \in 1..Len(published') : published'[n].run \in 1..Len(runLog')
      <4>. SUFFICES ASSUME NEW n \in 1..Len(published')
                    PROVE  published'[n].run \in 1..Len(runLog')
        OBVIOUS
      <4>1. CASE n \in 1..Len(published)  BY <1>2, <3>1, <4>1 DEF ReplayInv
      <4>2. CASE n = Len(published) + 1
        <5>1. N \in 1..N  BY <1>0, <2>1
        <5>. QED  BY <2>2, <2>3, <3>1, <4>2, <5>1
      <4>. QED  BY <1>0, <3>1, <4>1, <4>2
    <3>3. RunIs(published', N, SoFar(N)')
      <4>1. \A n \in 1..Len(published) : published[n].run # N
        BY <1>0, <2>1 DEF ReplayInv
      <4>2. RunIs(Append(published, e), N, <<e>>)  BY <1>0, <2>3, <4>1, OwnBegun
      <4>3. SoFar(N)' = <<e>>  BY <2>2 DEF SoFar, e, Started
      <4>. QED  BY <2>7, <4>2, <4>3
    <3>4. ASSUME NEW k \in 1..Len(runLog)  PROVE RunIs(published', k, SoFar(k)')
      <4>1. RunIs(published, k, Replayed(k))  BY <2>4 DEF ReplayInv
      <4>2. k # N  BY <1>0, <2>1
      <4>3. SoFar(k)' = Replayed(k)  BY <1>2, <2>2, <4>2 DEF SoFar
      <4>4. Replayed(k) \in Seq(PublishedEvent) /\ k \in Nat  BY ReplayedType
      <4>5. RunIs(Append(published, e), k, Replayed(k))
        BY <1>0, <2>3, <4>1, <4>2, <4>4, OthersKept
      <4>. QED  BY <2>7, <4>3, <4>5
    <3>5. \A k \in 1..Len(runLog') : RunIs(published, k, SoFar(k))'
      BY <1>0, <2>1, <2>2, <3>3, <3>4
    <3>. QED  BY <1>1, <2>7, <3>2, <3>5 DEF ReplayInv
  <2>. QED  BY <2>5, <2>6, <2>7
<1>4. CASE FailRun \/ CompleteRun
  <2>. DEFINE s == runLog[Run].symbol
              read == InCut(runLog[Run])
              a == Started(Run)
              b == Failed(Run, read)
              c == Hysteresis(Run, read)
              d == Completed(Run, read)
  <2>1. Run \in 1..Len(runLog) /\ s \in Symbol /\ pc = "run" /\ UNCHANGED runLog
    BY <1>0, <1>4, RunBeingComputed DEF FailRun, CompleteRun, BufferInv, TypeInv, ReadsKeepUp
  <2>2. reads[Run] = read
    BY <1>0, <2>1 DEF ReadsAreCuts, BufferInv, TypeInv, ReadsKeepUp
  <2>3. /\ a \in PublishedEvent /\ b \in PublishedEvent /\ c \in PublishedEvent
        /\ d \in PublishedEvent /\ Run \in Nat
        /\ a.run = Run /\ b.run = Run /\ c.run = Run /\ d.run = Run
        /\ c.type \notin Terminal
    BY <2>1, ReplayedType DEF Started, Failed, Hysteresis, Completed, Terminal
  <2>4. /\ RunIs(published, Run, <<a>>) /\ OpenRun(published, Run)
        /\ \A k \in 1..Len(runLog) : k # Run => RunIs(published, k, Replayed(k))
    BY <1>0, <2>1 DEF ReplayInv, SoFar, PublishInv
  <2>5. Raises(reads[Run]) <=> \E i \in read : records[i].kind = "unbuildable"
    <3>1. \A i \in read : records[i].kind \in Kind /\ records[i].kind # "crashing"
      BY LogFacts DEF InCut, BufferRecord, ReplayInv
    <3>. QED  BY <2>2, <3>1 DEF Raises, Kind
  <2>6. \A i \in read : records[i].kind # "crashing"  BY DEF InCut, ReplayInv
  <2>7. Replayed(Run) = IF Raises(reads[Run]) THEN <<a, b>>
                        ELSE IF mode = "hysteresis" THEN <<a, c, d>> ELSE <<a, d>>
    BY <2>5, <2>6 DEF Replayed
  <2>8. \/ Raises(reads[Run]) /\ Publish(s, <<b>>, "next")
        \/ ~Raises(reads[Run]) /\ mode # "hysteresis" /\ Publish(s, <<d>>, "next")
        \/ ~Raises(reads[Run]) /\ mode = "hysteresis" /\ Publish(s, <<c, d>>, "next")
    BY <1>4, <2>2 DEF FailRun, FailureEvents, CompleteRun
  <2>. HIDE DEF s, read, a, b, c, d
  <2>9. ASSUME NEW e \in PublishedEvent, e.run = Run, NEW p \in Seq(PublishedEvent),
               \A n \in 1..Len(p) : p[n].run \in 1..Len(runLog)
        PROVE  \A n \in 1..Len(Append(p, e)) : Append(p, e)[n].run \in 1..Len(runLog)
    <3>. DEFINE q == Append(p, e)
    <3>1. /\ Len(p) \in Nat /\ Len(q) = Len(p) + 1 /\ q[Len(p) + 1] = e
          /\ \A n \in 1..Len(p) : q[n] = p[n]
      BY AppendProperties, LenProperties
    <3>. HIDE DEF q
    <3>2. \A n \in 1..Len(q) : q[n].run \in 1..Len(runLog)  BY <2>1, <2>9, <3>1
    <3>. QED  BY <3>2 DEF q
  <2>10. ASSUME NEW e \in PublishedEvent, e.run = Run, NEW p \in Seq(PublishedEvent),
                \A k \in 1..Len(runLog) : k # Run => RunIs(p, k, Replayed(k))
         PROVE  \A k \in 1..Len(runLog) : k # Run => RunIs(Append(p, e), k, Replayed(k))
    BY <2>10, ReplayedType, OthersKept
  <2>11. \A n \in 1..Len(published) : published[n].run \in 1..Len(runLog)  BY DEF ReplayInv
  \* One more event ends the run.
  <2>12. ASSUME NEW e \in PublishedEvent, e.run = Run, Publish(s, <<e>>, "next"),
                Replayed(Run) = <<a, e>>
         PROVE  ReplayInv'
    <3>1. \/ published' = published /\ pc' = "dead"
          \/ published' = Append(published, e) /\ pc' \in {"next", "dead"}
      BY <1>0, <2>1, <2>12, PublishOne
    <3>2. \A n \in 1..Len(published') : published'[n].run \in 1..Len(runLog)
      BY <1>0, <2>9, <2>11, <2>12, <3>1
    <3>3. ASSUME published' = Append(published, e)
          PROVE  \A k \in 1..Len(runLog) : RunIs(published', k, Replayed(k))
      <4>1. <<a>> \in Seq(PublishedEvent) /\ Append(<<a>>, e) = <<a, e>>
        BY <2>3, EventsInARow
      <4>2. RunIs(Append(published, e), Run, Append(<<a>>, e))
        BY <1>0, <2>3, <2>4, <2>12, <4>1, OwnExtended
      <4>. QED  BY <1>0, <2>4, <2>10, <2>12, <3>3, <4>1, <4>2
    <3>. QED  BY <1>1, <1>2, <2>1, <3>1, <3>2, <3>3 DEF ReplayInv
  <2>13. ASSUME Publish(s, <<c, d>>, "next"), Replayed(Run) = <<a, c, d>>
         PROVE  ReplayInv'
    <3>. DEFINE p == Append(published, c)
                q == Append(p, d)
    <3>1. \/ published' = published /\ pc' = "dead"
          \/ published' = p /\ pc' = "dead"
          \/ published' = q /\ pc' \in {"next", "dead"}
      BY <1>0, <2>1, <2>3, <2>13, PublishTwo
    <3>2. p \in Seq(PublishedEvent) /\ OpenRun(p, Run)
      <4>1. p \in Seq(PublishedEvent) /\ Len(p) = Len(published) + 1 /\ p[Len(p)] = c
        BY <1>0, <2>3, AppendProperties
      <4>2. p # <<>>  BY <1>0, <4>1, EmptySeq
      <4>. QED  BY <2>3, <4>1, <4>2 DEF OpenRun
    <3>3. \A n \in 1..Len(p) : p[n].run \in 1..Len(runLog)  BY <1>0, <2>3, <2>9, <2>11
    <3>4. \A k \in 1..Len(runLog) : k # Run => RunIs(p, k, Replayed(k))
      BY <1>0, <2>3, <2>4, <2>10
    <3>5. RunIs(p, Run, Append(<<a>>, c)) /\ Append(<<a>>, c) \in Seq(PublishedEvent)
      <4>1. <<a>> \in Seq(PublishedEvent)  BY <2>3
      <4>2. RunIs(p, Run, Append(<<a>>, c))  BY <1>0, <2>3, <2>4, <4>1, OwnExtended
      <4>3. Append(<<a>>, c) \in Seq(PublishedEvent)  BY <2>3, <4>1, AppendProperties
      <4>. QED  BY <4>2, <4>3
    <3>. HIDE DEF p
    <3>6. \A n \in 1..Len(q) : q[n].run \in 1..Len(runLog)  BY <2>3, <2>9, <3>2, <3>3
    <3>7. \A k \in 1..Len(runLog) : k # Run => RunIs(q, k, Replayed(k))
      BY <2>3, <2>10, <3>2, <3>4
    <3>8. RunIs(q, Run, Append(Append(<<a>>, c), d))
      BY <2>3, <3>2, <3>5, OwnExtended
    <3>9. Append(Append(<<a>>, c), d) = Replayed(Run)  BY <2>3, <2>13, EventsInARow
    <3>. HIDE DEF q
    <3>10. \A n \in 1..Len(published') : published'[n].run \in 1..Len(runLog)
      BY <2>11, <3>1, <3>3, <3>6
    <3>11. published' = q => \A k \in 1..Len(runLog) : RunIs(published', k, Replayed(k))
      BY <3>7, <3>8, <3>9
    <3>. QED  BY <1>1, <1>2, <2>1, <3>1, <3>10, <3>11 DEF ReplayInv
  <2>. QED  BY <2>3, <2>7, <2>8, <2>12, <2>13
<1>5. ASSUME UNCHANGED <<published, runLog>>,
             \/ UNCHANGED vars
             \/ \E t \in Thread : Feed(t) \/ Refuse(t) \/ \E e \in Event : Admit(t, e)
             \/ Start \/ Stop \/ Exit \/ NextTick \/ ReadLatest \/ ReadSymbols \/ EndTick
             \/ PersistenceHalts
             \/ ReadCut
             \/ \E s \in Symbol : GuardHalts(s) \/ NoCut(s)
      PROVE  ReplayInv'
  <2>1. /\ \A n \in 1..Len(published') : published'[n].run \in 1..Len(runLog')
        /\ \A k \in 1..Len(runLog) : Replayed(k)' = Replayed(k) /\ SoFar(k)' = SoFar(k)
    BY <1>2, <1>5 DEF ReplayInv, SoFar, Started
  <2>2. pc' \in {"read", "run"} => pc \in {"read", "run"}
    BY <1>5 DEF vars, Feed, Stamp, Push, Bump, AddSymbol, Refuse, Admit, schedulerVars, Start, Stop,
       Exit, NextTick, ReadLatest, ReadSymbols, EndTick, PersistenceHalts, ReadCut, GuardHalts,
       NoCut, Turn
  <2>3. pc' \in {"off", "due", "symbols", "next"} \/ (pc' = "loop" /\ running')
          => pc \in {"off", "due", "symbols", "next"} \/ (pc = "loop" /\ running)
    BY <1>5 DEF vars, Feed, Stamp, Push, Bump, AddSymbol, Refuse, Admit, schedulerVars, Start, Stop,
       Exit, NextTick, ReadLatest, ReadSymbols, EndTick, PersistenceHalts, ReadCut, GuardHalts,
       NoCut, Turn
  <2>. QED  BY <1>1, <1>5, <2>1, <2>2, <2>3 DEF ReplayInv
<1>6. CASE \/ UNCHANGED vars
           \/ \E t \in Thread : Feed(t) \/ Refuse(t) \/ \E e \in Event : Admit(t, e)
           \/ Start \/ Stop \/ Exit \/ NextTick \/ ReadLatest \/ ReadSymbols \/ EndTick
           \/ PersistenceHalts
           \/ ReadCut
           \/ \E s \in Symbol : GuardHalts(s) \/ NoCut(s)
  <2>1. UNCHANGED <<published, runLog>>
    BY <1>6 DEF vars, Feed, Stamp, Push, Bump, AddSymbol, Refuse, Admit, schedulerVars, Start, Stop,
       Exit, NextTick, ReadLatest, ReadSymbols, EndTick, GuardHalts, NoCut, ReadCut,
       PersistenceHalts, runVars
  <2>. QED  BY <1>5, <1>6, <2>1
<1>. QED  BY <1>3, <1>4, <1>6 DEF Next, Scheduler, Serve

(* With one adapter thread and an engine that never raises, replaying the run   *)
(* log over the buffer publishes for each run what was published live           *)
(* (replay_events), though the buffer has grown since the run.                  *)
THEOREM OneAdapterReplays == OneAdapter /\ NothingCrashes => (Spec => []ReplayReproduces)
<1>. SUFFICES ASSUME OneAdapter, NothingCrashes PROVE Spec => []ReplayReproduces
  OBVIOUS
<1>1. BufferInv /\ [Next]_vars => BufferInv'  BY BufferInvStep
<1>2. BufferInv /\ ReadsAreCuts /\ [Next]_vars => ReadsAreCuts'  BY ReadsAreCutsStep
<1>3. BufferInv /\ PublishInv /\ [Next]_vars => PublishInv'
  BY PublishInvStep DEF BufferInv
<1>4. BufferInv /\ ReadsAreCuts /\ PublishInv /\ ReplayInv /\ [Next]_vars => ReplayInv'
  BY ReplayInvStep
<1>5. Init => BufferInv /\ ReadsAreCuts /\ PublishInv /\ ReplayInv
  <2>. SUFFICES ASSUME Init PROVE PublishInv /\ ReplayInv
    BY BufferInit
  <2>1. /\ published = <<>> /\ Len(published) = 0 /\ Len(runLog) = 0 /\ Len(records) = 0
        /\ pc = "off"
    BY EmptySeq DEF Init
  <2>. QED  BY <2>1 DEF PublishInv, WellFormed, Settled, ReplayInv
<1>6. ReplayInv => ReplayReproduces
  BY DEF ReplayInv, ReplayReproduces, RunIs, RunPublished, EventsOf
<1>. QED  BY <1>1, <1>2, <1>3, <1>4, <1>5, <1>6, PTL DEF Spec
====
