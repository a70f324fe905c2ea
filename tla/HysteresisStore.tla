---- MODULE HysteresisStore ----
(* The hysteresis state of the orchestrator in hysteresis mode: the in-memory *)
(* HysteresisStore that EngineRunner.run_engine advances, the JSON-lines file *)
(* it is appended to (hysteresis/persistence.py), failed appends, process     *)
(* crashes at any point, and the restore a start performs.                    *)
(*                                                                            *)
(* One orchestrator process owns the file; its scheduler thread is the only   *)
(* writer.  The engine's output is abstracted to the opinion that was         *)
(* selected for the run; the failures of run() itself change nothing here.    *)
EXTENDS HysteresisRules, Sequences, FiniteSets

CONSTANTS
  Symbol,        \* the symbols that are traded
  MaxWindow,     \* the greatest window_updates an operator may configure
  Inputs,        \* the opinions runs of each symbol may select, by symbol
  AppendEnds,    \* what an interrupted append may leave, see Written
  MaxTime,       \* bound: engine timestamps are 0..MaxTime
  MaxLines       \* bound: the file is appended to while it is shorter

ASSUME StoreAssumption ==
  /\ {"garbage", "none"} \cap Symbol = {}
  /\ MaxWindow \in Nat \ {0}
  /\ Inputs \in [Symbol -> SUBSET Opinion]
  /\ AppendEnds \subseteq {"nothing", "prefix", "payload", "line"}
  /\ MaxTime \in Nat
  /\ MaxLines \in Nat

\* The media on which a write of one line reaches the file whole or not at all.
AtomicAppends == AppendEnds \subseteq {"nothing", "line"}

VARIABLES
  exists,     \* the state file is there
  file,       \* its lines, oldest first
  eol,        \* the file is empty or its last line ends in a newline
  proc,       \* the process: down, running, halted, refused
  window,     \* HysteresisConfig.window_updates of the running process
  mem,        \* HysteresisStore.states without the timestamps
  memTs,      \* and their engine_timestamp_ms
  result,     \* what run_engine returned and the scheduler has yet to publish
  published,  \* the symbols with a HysteresisStatePublished event
  support     \* history: eligible opinions per regime since the anchor was set

fileVars == <<exists, file, eol>>
procVars == <<proc, window, mem, memTs, result>>
vars == <<exists, file, eol, proc, window, mem, memTs, result, published, support>>

Time == 0..MaxTime
Windows == 1..MaxWindow
Record == [symbol : Symbol, ts : Nat, state : HState]
\* A line json.loads or parse_record rejects, and the absence of a result.
Garbage == [symbol |-> "garbage"]
NoResult == [symbol |-> "none"]

NoSupport == [r \in Regime |-> 0]

----
\* Reading the file back

RecordLines(f, s) == {i \in 1..Len(f) : f[i].symbol = s}

\* _load_records keeps a line when its timestamp is not below the kept one's:
\* of a symbol's valid lines the last of those with the highest timestamp.
IsLatest(f, s, i) ==
  /\ i \in RecordLines(f, s)
  /\ \A j \in RecordLines(f, s) : f[j].ts < f[i].ts \/ (f[j].ts = f[i].ts /\ j <= i)

LatestLine(f, s) == CHOOSE i \in RecordLines(f, s) : IsLatest(f, s, i)

Restored(f, s) == IF RecordLines(f, s) = {} THEN NoState ELSE f[LatestLine(f, s)].state
RestoredTs(f, s) == IF RecordLines(f, s) = {} THEN 0 ELSE f[LatestLine(f, s)].ts

\* What survives the process: the state a restart would begin with.
Durable(s) == Restored(file, s)

----
\* Writing it

\* The file after an append of rec of which `end` reached the medium: nothing,
\* a prefix of the payload, the payload without its newline, or the whole line.
\* Text that follows a line without a newline becomes part of that line, and
\* the two together no longer parse.
Written(f, nl, rec, end) ==
  IF end = "nothing" THEN f
  ELSE IF ~nl THEN [f EXCEPT ![Len(f)] = Garbage]
  ELSE Append(f, IF end = "prefix" THEN Garbage ELSE rec)

Ended(nl, end) == IF end = "nothing" THEN nl ELSE end = "line"

\* Mutant: the file is opened for writing instead of appending.
WriteFileTruncating(rec, end) ==
  /\ exists' = TRUE
  /\ file' = Written(<<>>, TRUE, rec, end)
  /\ eol' = Ended(TRUE, end)

\* append_record: open creates the file, write, flush and fsync extend it.
WriteFile(rec, end) ==
  /\ exists' = TRUE
  /\ file' = Written(file, eol, rec, end)
  /\ eol' = Ended(eol, end)

----
Init ==
  /\ exists = FALSE
  /\ file = <<>>
  /\ eol = TRUE
  /\ proc = "down"
  /\ window \in Windows
  /\ mem = [s \in Symbol |-> NoState]
  /\ memTs = [s \in Symbol |-> 0]
  /\ result = NoResult
  /\ published = {}
  /\ support = [s \in Symbol |-> NoSupport]

\* OrchestratorRuntime.__init__ restores the store before anything is scheduled;
\* the operator may have changed window_updates meanwhile.  A file without a
\* valid record raises, and the process does not come up.
Start ==
  /\ proc = "down"
  /\ window' \in Windows
  /\ IF exists /\ \A s \in Symbol : RecordLines(file, s) = {}
     THEN /\ proc' = "refused"
          /\ UNCHANGED <<mem, memTs>>
     ELSE /\ proc' = "running"
          /\ mem' = [s \in Symbol |-> Restored(file, s)]
          /\ memTs' = [s \in Symbol |-> RestoredTs(file, s)]
  /\ UNCHANGED <<exists, file, eol, result, published, support>>

\* Memory is lost with the process, whatever it was doing.
Down ==
  /\ proc' = "down"
  /\ mem' = [s \in Symbol |-> NoState]
  /\ memTs' = [s \in Symbol |-> 0]
  /\ result' = NoResult
  /\ UNCHANGED window

Crash ==
  /\ proc # "down"
  /\ Down
  /\ UNCHANGED <<exists, file, eol, published, support>>

\* History: the eligible opinions counted with this run's, and the count that
\* starts again when the anchor in the file changes.
Tally(s, o) ==
  [r \in Regime |->
     IF Eligible(mem[s], o) /\ r = Candidate(mem[s], o)
     THEN Lesser(support[s][r] + 1, MaxWindow)
     ELSE support[s][r]]

Supported(s, o, anchorSet) ==
  support' = [support EXCEPT ![s] = IF anchorSet THEN NoSupport ELSE Tally(s, o)]

\* Mutant: the guards are dropped.
InOrderUnchecked(s, ts) == TRUE

\* A run reaches the hysteresis step only past both monotonicity guards
\* (wiring._guard_hysteresis_monotonic and EngineRunner._guard_monotonic).
InOrder(s, ts) == mem[s] # NoState => ts >= memTs[s]

Runnable ==
  /\ proc = "running"
  /\ result = NoResult

\* The guard fires: the scheduler stops and nothing is published.
RunOutOfOrder(s, ts) ==
  /\ Runnable
  /\ ~InOrder(s, ts)
  /\ proc' = "halted"
  /\ UNCHANGED <<exists, file, eol, window, mem, memTs, result, published, support>>

\* Mutant: only the anchor is compared.
StateAdvancedByAnchor(prev, next) == prev.anchor # next.anchor

\* _state_advanced compares anchor, candidate and progress, not the timestamp.
StateAdvanced(prev, next) == prev # next

\* run_engine: the hysteresis step is taken in memory, and appended when it
\* changed more than the timestamp.
RunEngine(s, ts, o) ==
  LET next == Advance(mem[s], o, window)
  IN  /\ Runnable
      /\ InOrder(s, ts)
      /\ IF StateAdvanced(mem[s], next)
         THEN Len(file) < MaxLines /\ WriteFile([symbol |-> s, ts |-> ts, state |-> next], "line")
         ELSE UNCHANGED fileVars
      /\ mem' = [mem EXCEPT ![s] = next]
      /\ memTs' = [memTs EXCEPT ![s] = ts]
      /\ result' = [symbol |-> s, state |-> next]
      /\ Supported(s, o, next.anchor # mem[s].anchor)
      /\ UNCHANGED <<proc, window, published>>

\* The append raises: the memory is put back, the scheduler halts and the run
\* publishes nothing, but part of the line may have reached the file.  A process
\* that dies inside the append leaves the same file; Crash follows.
RunEngineAppendFails(s, ts, o, end) ==
  LET next == Advance(mem[s], o, window)
  IN  /\ Runnable
      /\ InOrder(s, ts)
      /\ StateAdvanced(mem[s], next)
      /\ Len(file) < MaxLines
      /\ WriteFile([symbol |-> s, ts |-> ts, state |-> next], end)
      /\ proc' = "halted"
      /\ Supported(s, o, next.anchor # mem[s].anchor /\ end = "line")
      /\ UNCHANGED <<window, mem, memTs, result, published>>

\* The scheduler publishes HysteresisStatePublished with the state it was given.
Publish ==
  /\ proc = "running"
  /\ result # NoResult
  /\ published' = published \cup {result.symbol}
  /\ result' = NoResult
  /\ UNCHANGED <<exists, file, eol, proc, window, mem, memTs, support>>

Next ==
  \/ Start
  \/ Crash
  \/ Publish
  \/ \E s \in Symbol, ts \in Time : RunOutOfOrder(s, ts)
  \/ \E s \in Symbol, ts \in Time : \E o \in Inputs[s] : RunEngine(s, ts, o)
  \/ \E s \in Symbol, ts \in Time : \E o \in Inputs[s], end \in AppendEnds :
       RunEngineAppendFails(s, ts, o, end)

Spec == Init /\ [][Next]_vars
----
TypeOK ==
  /\ exists \in BOOLEAN
  /\ file \in Seq(Record \cup {Garbage})
  /\ eol \in BOOLEAN
  /\ proc \in {"down", "running", "halted", "refused"}
  /\ window \in Windows
  /\ mem \in [Symbol -> HState \cup {NoState}]
  /\ memTs \in [Symbol -> Nat]
  /\ result \in [symbol : Symbol, state : HState] \cup {NoResult}
  /\ published \subseteq Symbol
  /\ support \in [Symbol -> [Regime -> Nat]]

\* What the file restores is what the running process has in memory, so a crash
\* at any moment loses no step of the hysteresis (EngineRunner.run_engine appends
\* before it returns and undoes the memory when the append fails).
MemoryIsDurable == proc = "running" => \A s \in Symbol : mem[s] = Durable(s)

\* A symbol's records are in timestamp order in the file, across failed appends
\* and restarts: the last record is the one a restore takes, and the two
\* restore rules of the design, timestamp and file order, never disagree.
FileInTimeOrder ==
  \A i, j \in 1..Len(file) :
    i < j /\ file[i] # Garbage /\ file[i].symbol = file[j].symbol
      => file[i].ts <= file[j].ts

\* Progress is earned: a candidate's progress never exceeds the number of
\* eligible opinions the engine has produced for it since the anchor was set,
\* however often runs failed to persist or the process was restarted, with
\* whatever window.
ProgressIsEarned ==
  \A s \in Symbol :
    LET d == Durable(s)
    IN  d.candidate # NoRegime =>
          /\ d.candidate # d.anchor
          /\ d.progress <= support[s][d.candidate]

\* A start is refused for an unreadable file only if no hysteresis state was
\* ever published: the file is never lost once a consumer relies on it.
RefusalLosesNothing ==
  proc = "refused" => published = {}

\* The file is all a restart needs: it restores what is in memory, its order is
\* the order of time, and it is never refused once a consumer relies on it.
FileIsEnough == MemoryIsDurable /\ FileInTimeOrder /\ RefusalLosesNothing

\* The anchor a symbol would restart with changes from one regime to another
\* only after as many eligible opinions for the new one, since the old was set,
\* as the window of the running process asks for.
SwitchIsSupported ==
  [][\A s \in Symbol :
       LET old == Durable(s).anchor
           new == Durable(s)'.anchor
       IN  old # new /\ old # NoRegime => support[s][new] + 1 >= window]_vars

\* A state that is about to be published can be restored.
PublishedIsDurable ==
  result # NoResult => Durable(result.symbol) = result.state

\* Seen through the file, failures, crashes and restarts are invisible: each
\* symbol's state moves by hysteresis steps only.
Machine == INSTANCE HysteresisMachine WITH st <- [s \in Symbol |-> Durable(s)]
IsHysteresisMachine == Machine!Spec
====
