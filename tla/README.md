# xray-vision in TLA+

Formal models of the runtime under `src/src`: the pipeline that takes market data
messages from exchange adapters, decodes them, cuts them into runs, computes a market regime for
each run, decides whether consumers may act on it, and analyses the runs that are
let through. The modules model the code, not its documents; where the two part,
a run shows it.

## 1. The system

    adapter threads --RawMarketEvent--> EventBus --> OrchestratorRuntime.handle_raw_event
                                                           | RawInputBuffer
    scheduler thread: cut -> features -> evidence -> regime engine (+ hysteresis file)
                                                           | OrchestratorEvent
    EventBus --> StateGateProcessor --StateGateEvent--> AnalysisEngine --AnalysisEngineEvent-->
    every event also goes to DashboardRuntime

The bus (`runtime/bus.py`) is synchronous: `publish` calls the subscribers in the
caller's thread, so everything after the buffer happens in the scheduler thread,
nested inside the orchestrator's `publish`.

| component | state it keeps | operations | what is hard |
|---|---|---|---|
| Orchestrator (`runtime/wiring.py`, `orchestrator/`) | the buffer and its sequence numbers, the set of symbols, a cut cursor per symbol, the run log, the last published timestamp per symbol, the scheduler thread | `handle_raw_event`, `start`, `stop`, one tick (`_run_due`), replay | adapter threads against the scheduler thread, stop in the middle of a tick, failing runs, replay from a buffer that has grown |
| Hysteresis (`regime_engine/hysteresis/`, `orchestrator/engine_runner.py`) | anchor, candidate and progress per symbol, in memory and in an append-only file | one hysteresis step, append, restore | an append that fails as a whole or in part, crashes, restarts with another window |
| State gate (`consumers/state_gate/`) | half-assembled runs, processed runs, latest timestamp, snapshot per symbol, the record log | `consume`, rebuild from the records | duplicates and reordering, a failing store, a publish limit, restarts |
| Analysis engine (`consumers/analysis_engine/`) | the plan, processed runs, module states, halted symbols | registry checks, planning, `consume` | modules that fail between others that need them, redelivery, state threaded through runs |
| Market data adapters (`market_data/`) | a failure count per stream, the socket, the pacing of the poller | `start`, `run`, `stop`, retry with backoff | a stop racing a reconnect, a sink that refuses events, a count that outlives its cause |
| Dashboards (`consumers/dashboards/`) | a view model per symbol, a belief trend | three ingest handlers, `build_snapshot` | streams that arrive in different orders |
| Decoders (`market_data/decoder.py`, `adapters/binance/decoder.py`) | none | a message to events and failures, key by key | values of another kind, one message with several events, NaN |
| Composer (`composer/`) | none | features of a cut, opinions of three observers, embedding them in the snapshot | records out of order, late for their window or without a time; evidence of another run in a snapshot |
| Regime engine (`regime_engine/pipeline.py` and what it calls) | none | vetoes, resolution, confidence, selection of an opinion, output | two ways to a regime, ties, the check that raises at the end |
| Lifecycle, retry and failure handling of the orchestrator | a state enum | transitions | not used by the runtime |

What makes each correct: the orchestrator must compute every record into exactly
one run, in order, and publish one closed run after the other; the hysteresis
memory must survive whatever happens to the process and change only by its own
rules; the gate must decide a run once, forwards in time, and publish what it
recorded; the analysis engine must run modules in dependency order, once per run,
and confine failures. Between the messages and the regime nothing may get lost
unrecorded, the features must be those of the trades in the window whatever order they
came in, and the regime that of the evidence.

## 2. The modules

| module | what it models |
|---|---|
| `HysteresisRules` | the pure rules: the belief one run computes and `advance_hysteresis` |
| `HysteresisMachine` | abstract specification: each symbol's state moves by hysteresis steps and nothing else ever happens to it |
| `HysteresisStore` | `EngineRunner.run_engine` with memory, file, guards, failing appends, crashes, restarts; implements `HysteresisMachine` |
| `Orchestrator` | adapter threads in `RawInputBuffer.append`, the scheduler thread through `_run_due`, publishing, `replay_events` |
| `StateGate` | `RunAssembler`, `GateEvaluator`, `StateGateStateMachine`, `StateGateStateStore` and `StateGateProcessor.consume` |
| `AnalysisPlan` | `ModuleRegistry.validate_dependencies` and `build_execution_plan` |
| `AnalysisEngine` | `AnalysisEngine.consume`, taken apart at the modules |
| `Decoding` | both decoders, and the contract of normalized keys that `IngestionPipeline.ingest` enforces |
| `Features` | `composer/features/compute.py` |
| `Evidence` | `composer/engine_evidence`, the snapshot builder and `extract_embedded_evidence` |
| `RegimeEngine` | `regime_engine/pipeline.py`: vetoes, resolution, confidence, projection, explainability |
| `Computation` | the four of them with `HysteresisRules`, from the messages of several adapters to runs |
| `FloatSums` | the loops over trades of `features/compute.py` in floats of a limited range |
| `Adapter` | `_BinanceWsAdapter.run` and `BinanceOpenInterestPoller.run` with `RetrySchedule`, `AdapterSupervisor`, `IngestionPipeline` and `MarketDataRuntime` |
| `Dashboards` | `DashboardBuilder`: three ingest handlers and `build_snapshot` |
| `MC*` | the constants of the runs |
| `*Proofs` | theorems and their proofs |

Operators that stand beside another and are marked *Mutant* are the bugs the
properties were tried against: each replaces the operator it is named after, and
the property it was written for is then violated.

### HysteresisRules, HysteresisMachine, HysteresisStore

Regimes are numbered in the order of the enum, beliefs are percentages.  A run's
opinion is all the rules see of the market: it takes the whole belief, and
without one the uniform prior stays (`update_belief` starts from the prior every
time). `HState` is anchor, candidate and progress; `progress_required` is
`window`, which a restart may change.

The file is a sequence of lines: records, or garbage that `parse_record` rejects;
`eol` says whether it ends with a newline. `RunEngine` is the whole of
`run_engine`: guard, step, comparison, append, return. `RunEngineAppendFails` is
its exception path with the four ends an append may have (`AppendEnds`: nothing
reached the file, part of the line, the line without its newline, all of it).
`Publish` is the scheduler's next step, so a crash may fall between. `support`
counts the eligible opinions since the anchor in the file was set; it is history
and nothing reads it.

### Orchestrator

The threads interleave between calls, where CPython may switch them:
`Admit`, `Stamp`, `Push`, `Bump` and `AddSymbol` are the stretches of
`handle_raw_event`, `ReadLatest`, `ReadSymbols`, `ReadCut` the scheduler's looks at
shared state. Everything between two looks is one step. An event is its symbol and
what it does to a run: `fine`, `unbuildable` (the composer raises), `crashing` (the
engine raises). Ticks are counted; a tick is the engine timestamp of its runs.
`Publish` gives the events of a step to the bus, any of which a subscriber may
raise on; nothing catches that and the thread is dead. `Replayed` is what
`replay_events` makes of a run record.

### StateGate

A run is its symbol, timestamp, mode, the verdict of its output against the
denylist (or that it failed) and the progress its hysteresis state reports. The
environment delivers any event of any run at any time, which covers loss,
duplication and reordering. `parts` is `_assemblies`; `Consume` is `consume`, with
one disjunct for each way through it. An append to the store may raise at any
event (`StoreMayFail`; the tests inject such stores), and `Restart` is a new
processor on the records of the old, as `test_persistence.py` builds it. Records
carry the type of their event, which the code's records show by which of their
fields are set.

### AnalysisPlan, AnalysisEngine

Modules are numbered in the order of their ids. `StageOrder` is a recursive
function over the modules already placed. `Begin`, one action for each outcome of a
step, and `Complete` are one call of `consume`: no other call happens in between
(`Idle`). A module returns artifacts or none, a state or none, or raises; which is
the environment's choice.

### Decoding, Features, Evidence, RegimeEngine, Computation

The pure stages are operators, each module extending the one before; `Computation` is
the only one with variables.

* A message is a function from keys to the kind of the JSON value there and what it says;
  `Layout`s name, per stream, the keys, the parser each goes through and which kinds it
  takes (`VendorAccepts`, `OwnAccepts`). The two decoders are not equally strict, so the
  tables differ: a Boolean is a number to one and an error to the other.
* Numbers are integers of a small unit, `NaN` stands for what is no finite float, which
  `json.loads` and `float()` let through. Averages are kept as numerator and denominator, so
  nothing is rounded that the code compares.
* Strengths are 0..6000 for 0..1, a flow ratio is in thousandths, `atr_z_50` in twentieths
  with the odd numbers for what lies strictly between two tenths: so every threshold of the
  observers is met where the code meets it.
* An opinion is a record; the order opinions are listed in decides nothing, so they are a
  set. The engine reads of the snapshot its symbol, its time and what is embedded in it
  (`Shell`, `Embed`, `Extract`), and so does the model.
* Every score is 0 and every veto predicate false in this version (`scoring/stubs.py`,
  `veto/rules.py`); what is built on them is modelled as it stands.
* `Receive` is one message of one adapter, decoded and ingested; the lanes of different
  adapters interleave. `Tick` is a tick of the scheduler for all symbols: which are due, the
  cut of each, features to output, and the hysteresis step. That a tick is one step is an
  abstraction, and threads inside one are the subject of `Orchestrator`.
* `Orders` is the set of orders `OrderOnlyBreaksTies` tries on the records of a run, when the
  run is made.
* `Features` has sums as integers of any size. `FloatSums` takes the three loops over trades
  as they are written, with a float an integer up to `Largest`, an infinity or NaN, and sets
  what they give against `Features` (`NumbersAreRight`). Rounding is left out of both.

### Adapter

One adapter of either kind (`kind`) with its own thread (`pc`) and the runtime's
thread (`owner`), which share the flag `running`. `Fail` is the `except Exception`
branch of `run` that all failures end in: count, report, then back off or give up;
`Refused` also has the `BackpressureError` branch, which ends the adapter. `Enter`,
`Await` and `Poll` are the places where the flag is read. `Connect` is a step of its own:
between the loop's look at the flag and the connection an event loop starts, and a stop may
fall there. `Wake` reads nothing, because a backoff is slept in full. A message is the number of records it yields; `Receive`
hands them to `Write` one by one, as `IngestionPipeline.ingest` and the loops over a
message's events do. `lost` is what was received less what was written in full, and
`late` counts connections tried and messages taken after `stop`; both are history, as are `attempts` and
`opened`. `Delays` is `RetrySchedule.delays`, as a recursive function.

### Dashboards

A section of the view is a function of one event, so the model keeps that event
(`shown`). `Due` is the guard every section has, `Carries` says which sections an
event has. A hysteresis state without a belief (`HasBelief`) has a hysteresis section
only. Among events of one timestamp the last delivered is shown: for a hysteresis run
the gate's event or the orchestrator's, which differ in confidence. `base` is the event whose belief the trend of the shown belief was
computed against: the one in the last snapshot when it came (`previous`). `Build`
is `build_snapshot`, of which `view` keeps the statuses and the trends. The runtime
builds after every event (`DashboardRuntime._render`), the tests where they like;
the model may build at any time. An event may be ingested any number of times in
any order, as the contract of the dashboards has it.

## 3. The runs

| run | expects | what it asks |
|---|---|---|
| `hysteresis_store` | pass | type; the file restores what was published, keeps the order of time and is refused only when nothing relies on it (`FileIsEnough`); earned progress; supported switches; refinement of `HysteresisMachine` |
| `hysteresis_torn` | violation | a published state can be restored; refuted by an append that fails within a line |
| `orchestrator` | pass | type, cuts, exactly-once reading, replay, one run at a time; runs are answered, records are read |
| `ingest_seq` | violation | strictly increasing numbers, with two adapter threads |
| `replay_crash` | violation | replay of a run whose engine raised |
| `state_gate` | pass | records forward in time, records are the stream, resets mark gaps, a restart is invisible but for a denied run that was waiting for its state, the gate opens only for what is permitted |
| `gate_reset` | violation | a run whose reset is on record is decided |
| `analysis_engine` | pass | the plan over all registries of three modules; failures stay with their cause and artifacts with their run (`ModulesAreIsolated`); idempotency; module state |
| `computation` | pass | no message leaves the system unrecorded; the flow of a run is what its trades say; the order in which a run's records came only breaks ties and picks the last price; in floats the loops over trades give what `Features` has, or no number, or an average of zero over an infinite total; what is published is what the run's own features are evidence for; rising and falling markets are treated alike |
| `adapter` | pass | type, the retry budget (the schedule, its spending, paid reconnections), recorded losses, true reports of ends and disconnects, at most one connection or message after a stop, that a stop ends |
| `reconnect_counter` | violation | the reconnect counter lies between the connections reopened and those retried |
| `dashboards` | pass | type, latest sections and source, the analysis section of one run, honest snapshots |

### Bounds, and why they are enough

* `hysteresis_store`: three regimes (an anchor, a candidate and a rival for it), two
  symbols in one file, windows up to 2 with a decay of 2 (so that decay passes
  zero), two timestamps, three lines (an old record, a new one, another symbol's).
  ETH takes one opinion only: it is there for its lines. The torn ends of an append
  are left to `hysteresis_torn`.
* `orchestrator`: two symbols, three records, two ticks: a symbol with two runs
  while the other has none, a record that comes between the looks of a tick, a
  full buffer. One adapter thread, because with two `SeqsIncrease` fails and all
  properties about numbers with it; `ingest_seq` shows that. Events that crash the
  engine are left to `replay_crash`.
* `state_gate`: six runs over two symbols with a gap, two runs of one timestamp, a
  failed one, denied ones in either mode and one in transition; `max_pending` 1 and
  2, since two is the most events one run makes; one restart.
* `analysis_engine`: all registries of three modules in two stages, with one run;
  and one registry with a dependency and a stateful module, four runs of two
  symbols and a halt. Three modules are the least that tell the order by readiness
  from the order by id. A refused registry raises in the constructor and the
  program ends there, so deadlock is not checked.
* `computation`: 528 ways the sources may behave, over two symbols and two ticks. Flow: trades
  at both ends of the window, before and after it, of either side, of none and of one that is
  not understood, NaN prices
  and quantities, open interest that is large, small, zero, NaN or untimed. Volatility: six
  candles whose last three vary, with ATR windows of 2 and 5 in place of 14 and 50 (a mean
  over ranges and a deviation over means), set against flow and trend of either sign: each of
  the nine regimes is published in some run. Disorder:
  candles that come late and two of one time. Breakage: a message of each of seventeen
  layouts, and each with every one of its values replaced by six others. Snapshots that
  bring evidence of this run, another time or another symbol. Arrival: candles and open
  interest in and out of order, tied, late or untimed, few enough to be tried in every order
  there is; cuts of more than four records are tried with the first put last and with the
  first two exchanged (`MCOrders`), which between them lead from any order to any other. Float
  range: three trades around a largest float of 1000, bought and sold, of small and large
  quantities, with prices of either sign, large enough for the turnover to pass it, or
  missing. Two ticks give a symbol a run after another and a silent symbol a run on nothing.
* `adapter`: every policy with delays up to 3, up to 4 attempts and an elapsed limit
  of 4 or none: the cap, the limit and the number of attempts each come first in
  some of them. Messages of up to 3 records, so that one can fail first, in the
  middle and last. `reconnect_counter` needs three failures and one record.
* `dashboards`: ten events: a symbol with a state, and three gate events with one, over
  three timestamps, the last without a belief; four analysis events of three runs, two of
  which share a timestamp; and another symbol with a completed run and a truth run. The
  belief and the confidence fall and rise, and two events of one timestamp differ in both.

### Fairness

`orchestrator` assumes weak fairness of the scheduler thread and of each step
of an adapter thread that is inside `handle_raw_event`: the OS runs both threads
and the sleep between ticks ends. It assumes nothing of `Admit` (no event need
arrive) or `Stop` (nobody need stop). A subscriber may raise and end the thread, so
`RunsAreAnswered` and `RecordsAreRead` are promised only while the scheduler lives and
is not stopped.

`adapter` assumes weak fairness of the adapter's thread: connect, read and request
timeouts bound each of its waits and a backoff is a sleep. It assumes nothing of
`Start` and `Stop`.

## 4. Disagreements

* **Sequence numbers.** `RawInputBuffer.append` has no lock. Two adapter threads can
  stamp two records with one number, or append in the other order than they were
  stamped (`ingest_seq`).
* **Replay of a crashed run.** `replay_events` calls the engine outside its `try`; a
  run that was published as failed because its engine raised makes replay raise
  (`replay_crash`).
* **Torn records.** After an append that reached the disk in part, the next record
  continues its line, is unreadable, and its state was published (`hysteresis_torn`).
* **Undecided resets.** A run whose reset was recorded and whose decision was not
  counts as processed after a restart (`gate_reset`).
* **Reconnect counter.** Each connection that opens raises
  `market_data.transport.reconnects` by the supervisor's `failure_count`, a running
  total, so the counter adds up totals (`reconnect_counter`).

A question the documents leave open: in hysteresis mode the gate releases a run at
`HysteresisStatePublished`, which comes before `EngineRunCompleted`, so the denylist
is not consulted, though it is when the two arrive the other way round. The
gating rules speak of "the selected RegimeOutput". `OpenIsPermitted` asks for the
denylist in truth mode, and in hysteresis mode whenever the output came first. For the same
reason a restart is not quite invisible: a denied run that was complete and waited for its
state is dropped with the half-assembled runs, and its state alone then opens the gate the
old processor would have closed (`RestartIsInvisible` names this exception).

Other points the models brought up, on which no document takes a side or which no
run shows:

* `failure_count` is never reset, so the retry schedule is a budget for the whole life of
  an adapter, and its state stays `failed` while it is connected again.
* After a clean stop the transport state stays `connected` (`ReportsAreTrue` excepts it).
* The orchestrator's `BufferFullError` is no `BackpressureError`: an adapter whose sink is
  full for ever retries, losing one message each time, until its budget is spent.
  `Planning/market_data/spec.md` wants it to fail fast.
* In hysteresis mode the gate's event comes without a regime output (see above), so
  `regime_effective` stays empty, or keeps what an older truth run put there.
* `HysteresisStatePublished` sets `effective_confidence` to 0, and a run's belief reaches the
  dashboards twice with a snapshot in between, so the belief trend ends at `FLAT`.
* A dashboard all of whose events were refused is `UNKNOWN`, not `DEGRADED`.
* The composer looks at every value and at no sum: trades of finite quantities can make
  `cvd_3m` and `vwap_3m` infinite and the ratio NaN, where
  `Planning/composer/contracts/feature_snapshot.md:35` wants finite numbers. The observers take
  these for missing, so it goes no further. `NumbersAreRight` says what else may happen: an
  average over an infinite total is zero, a number that is wrong.
* A hysteresis state without a belief leaves the belief of an older one on display, where the
  phase 6 spec has the section omitted. The engine's states always have one (`rules.py:162`), so
  as the runtime is wired it does not happen; states without one are in the dashboards' tests,
  and `LatestIsShown` asks for one event behind both sections only where it has both.
* Two final candles of one time both count. `Planning/composer_analysis_logic_v1/spec.md:144`
  has the last one win; the exchange sends one final candle per interval, so it takes a
  repeated message to tell the two.
* `price_last` is the last trade in the buffer, not the last in exchange time, when several
  adapters or a reconnection put them out of order (`OrderOnlyBreaksTies` leaves it out).
* A trade whose side is not understood is left out of the flow and counted by the vwap.
* A trade stamped after the planned time of the tick whose cut it is in falls out of that
  run's window and is in no later cut: it counts in no run.
* ATR needs 14 final candles in one cut, and its z-score 63. The runtime cuts every three
  minutes, which brings one: as it is wired volatility is never available, and of the nine
  regimes only `CHOP_BALANCED` and the two `TREND_BUILD`s can be reported.
* Every output has confidence 0.5 while the scores are stubs, and the way without evidence
  is never taken, for the classical observer always has an opinion.
* Without data the classical observer reports `CHOP_BALANCED` with strength 1 and confidence 0.
  So does the run of a symbol that is silent while another trades, and hysteresis counts it.
* Of two opposite opinions of equal strength and confidence the one declared first wins, which
  is the one upwards (`ObserversAreFair` excepts it).

## 5. The proofs

`tlapm` checks these for all values of the constants that satisfy the named
assumptions.

| theorem | says |
|---|---|
| `HysteresisStoreProofs!TypeCorrect` | types of the store, all ends of appends included |
| `HysteresisStoreProofs!FileStaysEnough` | the file restores what was published, in the order of time (`AtomicAppends`) |
| `HysteresisStoreProofs!ImplementsMachine` | the store implements `HysteresisMachine` (`AtomicAppends`) |
| `HysteresisStoreProofs!ProgressStaysEarned` | progress is backed by as many runs (`AtomicAppends`) |
| `HysteresisStoreProofs!SwitchesAreSupported` | an anchor changes only for who won its window (`AtomicAppends`) |
| `ComputationProofs!EvidenceAlwaysReaches` | what is published is what the run's features are evidence for |
| `ComputationProofs!OutputsStayExplained` | the engine's last check never fails |
| `ComputationProofs!ObserversHaveNoBias` | for all features, observers treat rising and falling markets alike |
| `ComputationProofs!ObserversStayFair` | so they do in every run |
| `ComputationProofs!MessagesStayOnRecord` | no message leaves the system unrecorded |
| `ComputationProofs!NumbersStayNumbers` | missing and spoilt values in messages enter no feature, opinions are bounded (with sums of any size) |
| `ComputationProofs!FlowStaysTheTrades` | the flow of a run is what its trade messages say |
| `ComputationProofs!OrderStaysImmaterial` | every order of a run's records gives the same but for ties and the last price, and only the symbol's own records up to the run matter, open interest excepted |
| `OrchestratorProofs!TypeCorrect` | types of the orchestrator |
| `OrchestratorProofs!CutsAlwaysTile` | the cuts of a symbol are disjoint and contiguous |
| `OrchestratorProofs!RunsNeverOverlap` | one run at a time in what is published |
| `OrchestratorProofs!OneAdapterNumbersInOrder` | the buffer's numbers increase (one adapter thread) |
| `OrchestratorProofs!OneAdapterReadOnce` | every record is read by one run (one adapter thread) |
| `OrchestratorProofs!OneAdapterReplays` | a replay publishes what was published (one adapter thread, no engine that raises) |
| `StateGateProofs!TypeCorrect` | types of the state gate |
| `StateGateProofs!RecordsForward` | a symbol's records move forward |
| `StateGateProofs!ResetsMark` | a decision follows a reset exactly when the records show a gap |
| `StateGateProofs!RestartInvisible` | a working processor can be replaced at any moment, and decides the same but for a denied run that was waiting |
| `StateGateProofs!OpenPermitted` | the gate opens for no failed run, none in a blocking transition, and a denied one only before its output is there |
| `StateGateProofs!StreamIsRecorded` | downstream saw the decisions on record, each once, in their order |
| `AnalysisEngineProofs!RunsAnalysedOnce` | a run is analysed or skipped once |
| `AnalysisEngineProofs!PlansAreLeast` | the plan of an accepted registry is the least order its dependencies allow |
| `AnalysisEngineProofs!TypeCorrect` | types of the analysis engine |
| `AnalysisEngineProofs!ModulesStayIsolated` | modules affect each other by artifacts of the run alone |
| `AnalysisEngineProofs!StatesStayThreaded` | states are one thread per symbol and module |
| `AdapterProofs!TypeCorrect` | types of an adapter |
| `AdapterProofs!LossesAreRecorded` | a message not written in full is one of the failures counted |
| `AdapterProofs!RetriesStayBudgeted` | retries fit the schedule, reconnections are paid for by failures |
| `AdapterProofs!ReportsStayTrue` | an adapter ends for the reason it reports, and reports a lost connection |
| `AdapterProofs!BackoffsAreBounded` | every policy's schedule is the one it describes |
| `AdapterProofs!StopObeyed` | after stop one connection is tried or one message taken at most |
| `DashboardsProofs!TypeCorrect` | types of the dashboards |
| `DashboardsProofs!ViewIsLatest` | every section is of the latest timestamp of its kind, belief and hysteresis of one event if that has both, the source the latest run |
| `DashboardsProofs!AnalysisOfOneRun` | the analysis section is one run, the latest, whole |
| `DashboardsProofs!ViewStaysHonest` | a snapshot says no more than was delivered |

* **Hysteresis types.** The content is in the rules: lemmas say that `Counted` keeps
  progress within `Nat` and that a commit needs a candidate that is a regime, and
  that what a file restores is a state (the latest line exists and is a record).
* **Hysteresis durability.** All under `AtomicAppends`: an append reaches the file whole or
  not at all, which `hysteresis_torn` shows to be needed. `DurableInv` says that the file is
  records only, in the order of time for each symbol, that while the process runs memory is
  what the file restores, and that a symbol whose state was published has a record. A step
  of the file is then a step of the abstract machine or none (`SameRules` identifies the two
  copies of the rules). `EarnedInv` adds the history of `support`: progress is never more
  than the support of the candidate (`CountingCovers`), so a commit needs a window of it.
* **Rules** (`HysteresisRulesProofs`). A belief has one greatest element, the selected opinion
  (`TopRegimeType`); a step makes up no regime (`AdvanceInvents`): both computation and
  store need it.
* **Evidence.** Each observer says nothing or one opinion, within bounds: the scores are cut
  to 0..1 whatever the features are, and one of nine is greatest. Three opinions have a first
  in the order of selection (`OneMoreHasFirst`), and that order puts strength first. So what
  the snapshot carries is this run's evidence (`EvidenceIsEmbedded`), all of it is read back,
  and the projection gives the selected regime (`RunIsEvident`). The invariant ties memory to
  runs: anchor and candidate of a symbol are regimes it published; without it the next
  anchor could come from anywhere.
* **No bias.** Upside down the flow ratio and the trend change sign (`MirroredFeatures`,
  `MirroredFlowRatio`), a regime scores what its mirror image scored (`MirroredScores`), and
  both directions never score at once (`OneDirection`), so the best score turns with the
  market although ties are broken by order (`MirroredTop`).
* **Sums, orders, counting.** An invariant over buffers of any length needs induction over
  data. Where the library states induction with an operator, the proofs state it of sets: a
  set of naturals with 0 and every successor has all naturals (`NatSetInduction`, from a least
  counterexample), a set of subsets that is kept by one element more has all finite ones
  (`FiniteSetInduction`). From these come that a sum over a finite set exists (`SumsExist`),
  is an integer, splits (`SumOfBoth`) and does not depend on how places are named
  (`SumMoved`), that finite sets of numbers have a maximum (`MaxIs`) and that in a finite
  order every rank belongs to one element (`Ranks`).
* **From messages to features.** `ComputedInv` has two parts. `BufferInv`: every record is
  one of a message received, and every message has as many as its stream has events, or one
  failure; for that, the layouts are shown to have all keys the contract asks for
  (`LayoutsAre`, table by table), so `ingest` never raises in the middle. `RunInv`: what a run
  computed is what its cut gives now, which holds because a buffer only grows (`CutStays`).
  Then a property of features is one of the pure function. `FeaturesType`: a number only comes
  from a number, a NaN is skipped. `TradeIsSaid`: what a trade's record holds is what its
  message says, for both decoders. `OnlyWhatMatters`: equal records of the symbol up to the run
  give equal features. `MovedFeatures`: with the records in any other order, whatever
  set of orders `Orders` is (`RearrangedIsMoved`),
  sums stay (`MovedFlow`), and without ties so do the rank of a candle (`MovedRanks`) and the
  latest open interest (`MovedInterest`).
* **Cuts.** The invariant strengthens `CutsTile` by what the cursor says: `lastEnd` of a
  symbol is the end of its last cut, no cut reaches past it, and it is 0 exactly if
  there is none. Without it a step knows nothing of the earlier cuts when it adds
  one.
* **Runs.** The invariant ties the program counter to the end of `published`: at
  `read` and `run` the last event is the start of the last run in the log, elsewhere,
  while the thread lives and no halt has come, it is a terminal event.
* **One adapter thread.** `RawInputBuffer.append` has no lock, and `ingest_seq` shows what two
  threads do to it; the theorems about numbers are for one (`OneAdapter`). `BufferNumbered`:
  a record's number is its position, but between appending and counting the next number
  lags by one, and no cut ends beyond the buffer. So a cut holds what it held when it was
  read (`CutStable`), cuts of a symbol are disjoint and leave nothing out (`CutsCover`), and
  each record is read once. For a replay the invariant adds that the events of each run are
  in one piece of the stream and are a prefix of what replay makes of its cut, all of it
  once the next run begins; an engine that raises is excluded, for `replay_crash` shows
  that such a run cannot be replayed.
* **State gate.** `RecordsMoveForward` needs that a symbol's records are no later than
  the snapshot in the store and, while the gate works, that the assembler's timestamp is
  no earlier than it; `Released` and `Recorded` move the two together. `GateInv` adds that
  while the gate works, assembler, state machine and store agree on every timestamp, that
  what is processed is old by it, and that a snapshot is of the last record of its symbol:
  the gap `process_run` measures is then the gap in the records (`GapIsRecorded`), and a
  new processor starts from what the old one knew. `AssembledInv` says that what is
  assembled of a run is its own and never enough to decide it. So it is nothing, or the
  completion of a hysteresis run, which changes neither when the run is decided nor, unless
  it is denied, how (`PartsDecideNothing`): a restart that drops it is invisible. What the
  gate opens for is looked at decision by decision (`EvaluateIsPermitted`). That the
  stream is what is on record (`RecordsAreTheStream`) needs that each is extended by the
  same decision or by none, and that a run decided before is not decided again.
* **Analysis engine.** A `Started` or `Skipped` event of a run puts its id into
  `processed`, and both need an id that is not there. The order of a plan is computed by a
  recursive function; that there is such a function (`OrderExists`, by induction over the
  modules left) and that it orders each stage without getting stuck, since dependencies have
  no cycle (`StageIsOrdered`), makes the plan of every accepted registry least
  (`PlanIsOrdered`). A least plan has no module twice, and its dependencies come first
  (`PlanFacts`). The invariant says that all that is said of the
  open run is about the steps that lie behind (`SaidIsBehind`), and that of the steps behind
  that left no artifact one did not miss any (`CauseIsBehind`): found when the first of them
  raises or returns nothing, it is the cause of whatever fails later.
* **Adapter.** Five facts strengthen the properties: the flag is up exactly while the
  runtime has the adapter started and the thread has not given up (`FlagInv`); a poller
  is never in the places of a stream (`KindInv`); while records are being written the
  message is counted and not yet written (`EmitInv`); between a failure and the next
  connection there is one failure more than connections (`PaidInv`); and a thread that waits
  for a message or is about to connect has done nothing since the stop (`LateInv`). `FailInv` says once that a failure
  keeps them all, wherever it strikes. The schedule is a recursive function too: after n
  rounds it has n delays and is as described, or it stopped where the next would not fit
  (`RoundKept`).
* **Dashboards.** The properties are inductive with the types. `LatestKept` and `OneRunKept`
  say it of a single section and a single event, `PairKept` of the belief beside the
  hysteresis: an event that is due for one is due for the other. For the trends the
  invariant adds that what they look back to, the events of the last snapshot, were delivered
  and are no newer than those shown (`LooksBack`): it stays so because what is shown is only
  replaced by what is no older (`ShownIsNewer`).

Assumed of the constants are only the named assumptions: positive delays and
attempts (`PolicyAssumption`, what `_validate_retry` lets through), positive timestamps and
runs (`EventsAssumption`), and their like in the other modules.

Every safety invariant and action property of the passing runs is a theorem, except
`NumbersAreRight`. Two hypotheses are stated in the theorems and justified by a run that
shows what happens without them: `AtomicAppends` (`hysteresis_torn`), `OneAdapter` and `NothingCrashes` (`ingest_seq`,
`replay_crash`). They describe the environment, not the program: a disk that appends a line
whole, one source, an engine that does not raise.

Model-checked only: the liveness properties `RunsAreAnswered`, `RecordsAreRead` and
`StopEnds`, for which the prover has no rules, and `NumbersAreRight`, which is about folds over
sequences. So the theorems about features speak of sums of any size, and what
becomes of them in floats is only model-checked.

## 6. Not modelled

* Of decoding: the kinds and texts of errors, and integers beyond the range of a float. Of the
  features: rounding, and sums over candles beyond that range, where squaring raises instead of
  giving infinity (`compute.py:208`). Of the
  composer: `composer.compose` and `composer/evidence`, which the runtime does not call, and the
  fields of the snapshot the engine does not read. Of the engine: the texts of drivers and
  invalidations and `INVALID_FIELDS`, which takes an embedded payload no composer makes.
* `Orchestrator` knows of composer and engine whether they raise; what they compute is in
  `Computation`, where ticks are whole.
* `allowed_regimes` (None in the runtime), reason codes, debug payloads.
* The adapters' counters and log lines but the transport state and the reconnect counter;
  the entries of other adapters in the dictionary of transport states.
* The `except` branches of the dashboards' handlers, which note a failure after part of an
  event was applied (`builder.py:225`, `297`, `387`): no event the contracts allow raises.
* The terminal renderer, the texts of the view model and its metrics section, which nothing
  fills.
* A second `start()` of the orchestrator after `stop()`: `main` never does it.
* Artifact names within a module and `enabled_modules` per symbol in the analysis
  engine; events of one run id that contradict each other, on which the gate's
  assembler raises.
* The orchestrator's `lifecycle`, `retry` and `failure_handling`, which nothing uses.

## 7. Plan

1. Done: the hysteresis store with its abstract machine, the orchestrator, the
   state gate, the analysis engine, the market data adapters, the dashboards, and the
   computation from messages to the regime; types and the main invariants of each proved,
   and the refinement of the hysteresis machine.
2. Composition: one run through orchestrator, gate, analysis engine and dashboards over
   the nested bus, with halts in each, and what each may assume of its stream:
   there the order in which a dashboard hears of a run is fixed, and the trend and the
   effective regime can be stated for the runtime as it is wired.
3. The second `start()` of the orchestrator, with two scheduler threads.
4. Proofs: what several adapter threads still guarantee of the buffer.
