---- MODULE Orchestrator ----
(* The orchestrator at run time (runtime/wiring.py with orchestrator/): threads *)
(* of market data adapters append raw events to the RawInputBuffer while the    *)
(* scheduler thread cuts the buffer into runs, one symbol after the other, runs *)
(* the engine on each cut and publishes the run's events.                       *)
(*                                                                              *)
(* CPython switches threads only between calls, so the steps of append are the  *)
(* stretches between its calls; everything the scheduler does between two looks *)
(* at shared state is one step.  Symbols are numbered in sorted order.          *)
EXTENDS Integers, Sequences, FiniteSets

CONSTANTS
  NSymbols,          \* symbols are 1..NSymbols
  Thread,            \* the adapter threads that call handle_raw_event
  Capacity,          \* RawInputBuffer.max_records
  Event,             \* the events offered: a symbol, and what it does to a run
  Mode,              \* the engine modes to consider: truth, hysteresis
  HandlersMayRaise,  \* a subscriber of the bus may raise
  MaxTick            \* bound: later ticks carry the same timestamp

ASSUME OrchestratorAssumption ==
  /\ NSymbols \in Nat
  /\ Capacity \in Nat \ {0}
  /\ Event \subseteq [symbol : 1..NSymbols, kind : {"fine", "unbuildable", "crashing"}]
  /\ Mode \subseteq {"truth", "hysteresis"}
  /\ HandlersMayRaise \in BOOLEAN
  /\ MaxTick \in Nat

Symbol == 1..NSymbols
Kind == {"fine", "unbuildable", "crashing"}   \* to the composer, to the engine

VARIABLES
  records,    \* RawInputBuffer.records, without the timestamps
  nextSeq,    \* RawInputBuffer._next_seq
  symbols,    \* OrchestratorRuntime._symbols
  feeder,     \* of each adapter thread: where it is, its event, its stamp
  lastEnd,    \* CutSelector._last_end_by_symbol, 0 when absent
  mode,       \* EngineRunner.engine_mode
  storeTs,    \* engine_timestamp_ms of each symbol's hysteresis state, 0 when absent
  running,    \* OrchestratorRuntime._scheduler_running
  pc,         \* where the scheduler thread is
  tick,       \* the tick it is at, which is the engine timestamp of its runs
  latest,     \* latest_seq of this tick
  todo,       \* the symbols this tick has yet to serve
  runLog,     \* EngineRunLog.records
  reads,      \* of each run, the positions in the buffer it was computed from
  lastTs,     \* SymbolSequencer.last_timestamp_by_symbol, 0 when absent
  published   \* the events given to the bus

bufferVars == <<records, nextSeq, symbols, feeder>>
runVars == <<lastEnd, runLog, reads, lastTs, storeTs, published>>
vars == <<records, nextSeq, symbols, feeder, lastEnd, mode, storeTs, running, pc,
          tick, latest, todo, runLog, reads, lastTs, published>>

NoEvent == [symbol |-> 0, kind |-> "none"]
Tick == 0..MaxTick
Idle == [pc |-> "idle", event |-> NoEvent, seq |-> 0]

Init ==
  /\ records = <<>>
  /\ nextSeq = 1
  /\ symbols = {}
  /\ feeder = [t \in Thread |-> Idle]
  /\ lastEnd = [s \in Symbol |-> 0]
  /\ mode \in Mode
  \* A restored hysteresis state may carry a timestamp the clock has yet to reach.
  /\ storeTs \in IF mode = "hysteresis" THEN [Symbol -> {0, 2}] ELSE {[s \in Symbol |-> 0]}
  /\ running = FALSE
  /\ pc = "off"
  /\ tick = 0
  /\ latest = 0
  /\ todo = {}
  /\ runLog = <<>>
  /\ reads = <<>>
  /\ lastTs = [s \in Symbol |-> 0]
  /\ published = <<>>

----
\* An adapter thread in handle_raw_event

schedulerVars == <<lastEnd, mode, storeTs, running, pc, tick, latest, todo, runLog,
                   reads, lastTs, published>>

\* append checks the capacity before it does anything else.
Admit(t, e) ==
  /\ feeder[t].pc = "idle"
  /\ Len(records) < Capacity
  /\ feeder' = [feeder EXCEPT ![t] = [pc |-> "stamp", event |-> e, seq |-> 0]]
  /\ UNCHANGED <<records, nextSeq, symbols>>
  /\ UNCHANGED schedulerVars

\* BufferFullError goes up to the adapter and the event is not buffered.
Refuse(t) ==
  /\ feeder[t].pc = "idle"
  /\ Len(records) >= Capacity
  /\ UNCHANGED vars

Stamp(t) ==
  /\ feeder[t].pc = "stamp"
  /\ feeder' = [feeder EXCEPT ![t].pc = "push", ![t].seq = nextSeq]
  /\ UNCHANGED <<records, nextSeq, symbols>>
  /\ UNCHANGED schedulerVars

Push(t) ==
  /\ feeder[t].pc = "push"
  /\ records' = Append(records, [seq |-> feeder[t].seq, symbol |-> feeder[t].event.symbol,
                                 kind |-> feeder[t].event.kind])
  /\ feeder' = [feeder EXCEPT ![t].pc = "bump"]
  /\ UNCHANGED <<nextSeq, symbols>>
  /\ UNCHANGED schedulerVars

Bump(t) ==
  /\ feeder[t].pc = "bump"
  /\ nextSeq' = nextSeq + 1
  /\ feeder' = [feeder EXCEPT ![t].pc = "add"]
  /\ UNCHANGED <<records, symbols>>
  /\ UNCHANGED schedulerVars

AddSymbol(t) ==
  /\ feeder[t].pc = "add"
  /\ symbols' = symbols \cup {feeder[t].event.symbol}
  /\ feeder' = [feeder EXCEPT ![t] = Idle]
  /\ UNCHANGED <<records, nextSeq>>
  /\ UNCHANGED schedulerVars

----
\* The scheduler thread

Start ==
  /\ pc = "off"
  /\ running' = TRUE
  /\ pc' = "loop"
  /\ UNCHANGED <<mode, tick, latest, todo>>
  /\ UNCHANGED bufferVars
  /\ UNCHANGED runVars

\* stop() waits for the thread for a second only; a tick in progress goes on.
Stop ==
  /\ running
  /\ running' = FALSE
  /\ UNCHANGED <<mode, pc, tick, latest, todo>>
  /\ UNCHANGED bufferVars
  /\ UNCHANGED runVars

Exit ==
  /\ pc = "loop"
  /\ ~running
  /\ pc' = "exited"
  /\ UNCHANGED <<mode, running, tick, latest, todo>>
  /\ UNCHANGED bufferVars
  /\ UNCHANGED runVars

\* The n-th tick is planned n intervals after the first, whatever the clock says
\* (Scheduler.next_tick_ms); the thread sleeps until then.
NextTick ==
  /\ pc = "loop"
  /\ running
  /\ tick' = IF tick < MaxTick THEN tick + 1 ELSE tick
  /\ pc' = "due"
  /\ UNCHANGED <<mode, running, latest, todo>>
  /\ UNCHANGED bufferVars
  /\ UNCHANGED runVars

\* _run_due first looks at the last record of the buffer, ...
ReadLatest ==
  /\ pc = "due"
  /\ IF records = <<>>
     THEN pc' = "loop" /\ UNCHANGED latest
     ELSE pc' = "symbols" /\ latest' = records[Len(records)].seq
  /\ UNCHANGED <<mode, running, tick, todo>>
  /\ UNCHANGED bufferVars
  /\ UNCHANGED runVars

\* ... then at the symbols that have been seen, which may be more by now, or
\* fewer than the buffer holds.
ReadSymbols ==
  /\ pc = "symbols"
  /\ todo' = symbols
  /\ pc' = IF symbols = {} THEN "loop" ELSE "next"
  /\ UNCHANGED <<mode, running, tick, latest>>
  /\ UNCHANGED bufferVars
  /\ UNCHANGED runVars

EndTick ==
  /\ pc = "next"
  /\ todo = {}
  /\ pc' = "loop"
  /\ latest' = 0
  /\ UNCHANGED <<mode, running, tick, todo>>
  /\ UNCHANGED bufferVars
  /\ UNCHANGED runVars

Turn(s) ==
  /\ pc = "next"
  /\ s \in todo
  /\ \A q \in todo : s <= q

\* _guard_hysteresis_monotonic
Backwards(s) == mode = "hysteresis" /\ tick < storeTs[s]

GuardHalts(s) ==
  /\ Turn(s)
  /\ Backwards(s)
  /\ running' = FALSE
  /\ pc' = "loop"
  /\ latest' = 0
  /\ todo' = {}
  /\ UNCHANGED <<mode, tick>>
  /\ UNCHANGED bufferVars
  /\ UNCHANGED runVars

\* The records of s up to a sequence number, and the first of them in the buffer.
RecordsUpTo(s, end) ==
  {i \in 1..Len(records) : records[i].symbol = s /\ records[i].seq \in 1..end}

FirstSeq(s, end) ==
  {records[i].seq : i \in {j \in RecordsUpTo(s, end) : \A k \in RecordsUpTo(s, end) : j <= k}}

\* Mutant: a cut begins at the last record of the cut before.
CutStartOverlapping(s) ==
  IF lastEnd[s] # 0 THEN {lastEnd[s]} \cap 1..latest ELSE FirstSeq(s, latest)

\* Mutant: a cut begins with the first record of the tick.
CutStartSkipping(s) ==
  IF lastEnd[s] # 0 THEN {lastEnd[s] + 2} \cap 1..latest ELSE FirstSeq(s, latest)

\* Where next_cut begins a cut of s that ends at `latest`: after its previous
\* one, or at its first record; nowhere when that would leave an empty range.
CutStart(s) ==
  IF lastEnd[s] # 0 THEN {lastEnd[s] + 1} \cap 1..latest ELSE FirstSeq(s, latest)

NoCut(s) ==
  /\ Turn(s)
  /\ ~Backwards(s)
  /\ CutStart(s) = {}
  /\ todo' = todo \ {s}
  /\ UNCHANGED <<mode, running, pc, tick, latest>>
  /\ UNCHANGED bufferVars
  /\ UNCHANGED runVars

\* Events evts of a run of s are given to the bus one after the other and the
\* scheduler goes on at `next`, unless the sequencer rejects one or a subscriber
\* raises on one: nothing catches that, and the thread dies.
Publish(s, evts, next) ==
  \E n \in 0..Len(evts), raised \in BOOLEAN :
    /\ IF tick < lastTs[s] THEN raised /\ n = 0
       ELSE IF raised THEN HandlersMayRaise /\ n > 0
       ELSE n = Len(evts)
    /\ published' = published \o SubSeq(evts, 1, n)
    /\ lastTs' = IF n = 0 THEN lastTs ELSE [lastTs EXCEPT ![s] = tick]
    /\ pc' = IF raised THEN "dead" ELSE next

Started(k) == [type |-> "EngineRunStarted", run |-> k, read |-> {}]

\* Mutant: the event type is misspelt.
FailedMislabelled(k, r) == [type |-> "EngineRunFailure", run |-> k, read |-> r]

Failed(k, r) == [type |-> "EngineRunFailed", run |-> k, read |-> r]
Hysteresis(k, r) == [type |-> "HysteresisStatePublished", run |-> k, read |-> r]
Completed(k, r) == [type |-> "EngineRunCompleted", run |-> k, read |-> r]

\* Mutant: one cursor for all symbols.
CursorShared(s) == [q \in Symbol |-> latest]

\* The cut ends at the last record the tick has seen, whoever it is of.
Cursor(s) == [lastEnd EXCEPT ![s] = latest]

\* A run is recorded, with a status nobody updates, and announced.
StartRun(s) ==
  /\ Turn(s)
  /\ ~Backwards(s)
  /\ \E start \in CutStart(s) :
       runLog' = Append(runLog, [symbol |-> s, ts |-> tick, start |-> start, end |-> latest])
  /\ lastEnd' = Cursor(s)
  /\ todo' = todo \ {s}
  /\ Publish(s, <<Started(Len(runLog) + 1)>>, "read")
  /\ UNCHANGED <<mode, running, tick, latest, reads, storeTs>>
  /\ UNCHANGED bufferVars

Run == Len(runLog)

\* range_by_symbol: what a reader of the buffer finds in a run's cut.
InCut(r) ==
  {i \in 1..Len(records) : records[i].symbol = r.symbol /\ records[i].seq \in r.start..r.end}

\* Mutant: the end of the range is not applied.
ReadOpenEnded(r) ==
  {i \in 1..Len(records) : records[i].symbol = r.symbol /\ records[i].seq >= r.start}

\* _raw_events_for_cut, at the time the run is computed.
ReadOfRun(r) == InCut(r)

ReadCut ==
  /\ pc = "read"
  /\ reads' = Append(reads, ReadOfRun(runLog[Run]))
  /\ pc' = "run"
  /\ UNCHANGED <<mode, running, tick, latest, todo, lastEnd, runLog, lastTs, storeTs, published>>
  /\ UNCHANGED bufferVars

\* Composer and engine are functions of the cut: whether they raise is decided
\* by the events in it.
Raises(read) == \E i \in read : records[i].kind # "fine"

\* Mutants: the failure is swallowed, or does not end the run.
FailureSwallowed(k, r) == <<>>
FailureThenCompletion(k, r) == <<Failed(k, r), Completed(k, r)>>

FailureEvents(k, r) == <<Failed(k, r)>>

FailRun ==
  /\ pc = "run"
  /\ Raises(reads[Run])
  /\ Publish(runLog[Run].symbol, FailureEvents(Run, reads[Run]), "next")
  /\ UNCHANGED <<mode, running, tick, latest, todo, lastEnd, runLog, reads, storeTs>>
  /\ UNCHANGED bufferVars

CompleteRun ==
  LET s == runLog[Run].symbol
      read == reads[Run]
  IN  /\ pc = "run"
      /\ ~Raises(read)
      /\ Publish(s, IF mode = "hysteresis" THEN <<Hysteresis(Run, read), Completed(Run, read)>>
                    ELSE <<Completed(Run, read)>>, "next")
      /\ storeTs' = IF mode = "hysteresis" THEN [storeTs EXCEPT ![s] = tick] ELSE storeTs
      /\ UNCHANGED <<mode, running, tick, latest, todo, lastEnd, runLog, reads>>
      /\ UNCHANGED bufferVars

\* The hysteresis state could not be appended: the scheduler stops in the middle
\* of the tick and the run gets no further event.
PersistenceHalts ==
  /\ pc = "run"
  /\ mode = "hysteresis"
  /\ ~Raises(reads[Run])
  /\ running' = FALSE
  /\ pc' = "loop"
  /\ latest' = 0
  /\ todo' = {}
  /\ UNCHANGED <<mode, tick>>
  /\ UNCHANGED bufferVars
  /\ UNCHANGED runVars

Serve(s) == GuardHalts(s) \/ NoCut(s) \/ StartRun(s)

Scheduler ==
  \/ Start
  \/ Exit
  \/ NextTick
  \/ ReadLatest
  \/ ReadSymbols
  \/ EndTick
  \/ \E s \in Symbol : Serve(s)
  \/ ReadCut
  \/ FailRun
  \/ CompleteRun
  \/ PersistenceHalts

Feed(t) == Stamp(t) \/ Push(t) \/ Bump(t) \/ AddSymbol(t)

Next ==
  \/ \E t \in Thread, e \in Event : Admit(t, e)
  \/ \E t \in Thread : Refuse(t)
  \/ \E t \in Thread : Feed(t)
  \/ Scheduler
  \/ Stop

Spec == Init /\ [][Next]_vars

\* The threads run: a thread that is inside a call gets through it, and the
\* scheduler's sleep ends.
Fairness == WF_vars(Scheduler) /\ \A t \in Thread : WF_vars(Feed(t))
FairSpec == Spec /\ Fairness

Feeder == [pc : {"idle", "stamp", "push", "bump", "add"}, event : Event \cup {NoEvent}, seq : Nat]
PublishedType ==
  {"EngineRunStarted", "EngineRunFailed", "HysteresisStatePublished", "EngineRunCompleted"}

TypeOK ==
  /\ records \in Seq([seq : Nat, symbol : Symbol, kind : Kind])
  /\ nextSeq \in Nat
  /\ symbols \subseteq Symbol
  /\ feeder \in [Thread -> Feeder]
  /\ lastEnd \in [Symbol -> Nat]
  /\ mode \in Mode
  /\ storeTs \in [Symbol -> Nat]
  /\ running \in BOOLEAN
  /\ pc \in {"off", "loop", "due", "symbols", "next", "read", "run", "exited", "dead"}
  /\ tick \in Tick
  /\ latest \in Nat
  /\ todo \subseteq Symbol
  /\ runLog \in Seq([symbol : Symbol, ts : Tick, start : Nat, end : Nat])
  /\ reads \in Seq(SUBSET Nat)
  /\ lastTs \in [Symbol -> Tick]
  /\ published \in Seq([type : PublishedType, run : Nat, read : SUBSET Nat])

\* Records are numbered in the order they are in: the buffer promises strictly
\* increasing ingest_seq, and cuts by number are contiguous slices of it.
SeqsIncrease ==
  \A i, j \in 1..Len(records) : i < j => records[i].seq < records[j].seq

\* The cuts of a symbol tile the sequence numbers: each is a proper range, begins
\* right after an earlier one unless it is the symbol's first, and reaches beyond
\* all earlier ones.  So run ids, made of symbol, timestamp and cut end, are unique.
CutsTile ==
  \A k \in 1..Len(runLog) :
    LET r == runLog[k]
        Earlier == {j \in 1..(k - 1) : runLog[j].symbol = r.symbol}
    IN  /\ r.start \in 1..r.end
        /\ \A j \in Earlier : runLog[j].end < r.start
        /\ Earlier = {} \/ \E j \in Earlier : runLog[j].end + 1 = r.start

\* Every record up to the end of its symbol's last cut entered exactly one run,
\* however appends and ticks interleave: nothing is computed from twice, and
\* nothing that arrived late is passed over.  Only the run that has not looked
\* at the buffer yet, or died before it could, is still owed its records.
ReadExactlyOnce ==
  \A i \in 1..Len(records) :
    LET readers == {k \in 1..Len(reads) : i \in reads[k]}
        owed == Len(reads) < Len(runLog) /\ i \in InCut(runLog[Run])
    IN  records[i].seq <= lastEnd[records[i].symbol] =>
          Cardinality(readers) = IF owed THEN 0 ELSE 1

EventsOf(k) == {n \in 1..Len(published) : published[n].run = k}

\* The events of run k are evts, one right after the other.
RunPublished(k, evts) ==
  \E n \in 0..Len(published) :
    /\ EventsOf(k) = (n + 1)..(n + Len(evts))
    /\ \A m \in 1..Len(evts) : published[n + m] = evts[m]

\* What replay_events makes of a run record: the buffer is cut again, and a run
\* that cannot be built fails again.  An engine that raises is not caught.
Replayed(k) ==
  LET read == InCut(runLog[k])
  IN  IF \E i \in read : records[i].kind = "unbuildable"
      THEN <<Started(k), Failed(k, read)>>
      ELSE IF \E i \in read : records[i].kind = "crashing" THEN <<Started(k)>>
      ELSE IF mode = "hysteresis" THEN <<Started(k), Hysteresis(k, read), Completed(k, read)>>
      ELSE <<Started(k), Completed(k, read)>>

\* Between ticks, a replay of the run log over the buffer publishes for each run
\* what was published live, in one piece, though the buffer has grown since.
ReplayReproduces ==
  pc = "loop" /\ running => \A k \in 1..Len(runLog) : RunPublished(k, Replayed(k))

Terminal == {"EngineRunFailed", "EngineRunCompleted"}

\* Runs are published one at a time and in the order of the run log: each begins
\* with EngineRunStarted, only after the one before got its terminal event, and
\* nothing follows its own.  A run that a halt or a dying thread left open is
\* the last.
OneRunAtATime ==
  \A n \in 1..Len(published) :
    IF published[n].type = "EngineRunStarted"
    THEN /\ published[n].run = IF n = 1 THEN 1 ELSE published[n - 1].run + 1
         /\ n > 1 => published[n - 1].type \in Terminal
    ELSE /\ n > 1
         /\ published[n].run = published[n - 1].run
         /\ published[n - 1].type \notin Terminal

Answered(k) == \E n \in 1..Len(published) : published[n].run = k /\ published[n].type \in Terminal

\* A run that was recorded gets its terminal event even if stop() comes in the
\* middle of it, unless the hysteresis halt or a raising subscriber ends the
\* scheduler there.
RunsAreAnswered ==
  \A k \in 1..(Capacity * NSymbols) :
    (Len(runLog) = k) ~> (Answered(k) \/ pc = "dead" \/ (mode = "hysteresis" /\ ~running))

\* Every record is computed from in the end, as long as the scheduler is not
\* stopped: a late record of a symbol nobody had seen when the tick began, too.
RecordsAreRead ==
  \A i \in 1..Capacity :
    (Len(records) >= i) ~> (~running \/ pc = "dead" \/ \E k \in 1..Len(reads) : i \in reads[k])
====
