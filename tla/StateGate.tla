---- MODULE StateGate ----
(* The state gate (consumers/state_gate): it assembles orchestrator events into *)
(* runs, decides for every run whether consumers may act on it, records the     *)
(* decision in its store and returns it to be published.                        *)
(*                                                                              *)
(* Events arrive at least once: the environment delivers any event of any run,  *)
(* again and in any order.  A processor may be replaced by one that is built on *)
(* the records of the store.                                                    *)
EXTENDS Integers, Sequences

CONSTANTS
  Run,              \* the runs events may arrive of
  MaxGap,           \* StateGateConfig.max_gap_ms
  Limits,           \* the values publish_limits.max_pending may have
  BlockTransition,  \* StateGateConfig.block_during_transition
  StoreMayFail,     \* an append to the store may raise
  MaxRestarts       \* bound on the restarts

\* A run is known by its symbol and engine timestamp, the engine's mode, the
\* verdict of its regime output against the denylist (or that it failed), and
\* the progress its hysteresis state reports.
ASSUME StateGateAssumption ==
  /\ \A r \in Run : /\ DOMAIN r = {"symbol", "ts", "mode", "fate", "progress"}
                    /\ r.ts \in Nat \ {0}
                    /\ r.mode \in {"truth", "hysteresis"}
                    /\ r.fate \in {"fine", "denied", "failed"}
                    /\ r.progress \in Nat
  /\ MaxGap \in Nat \ {0}
  /\ Limits \subseteq Nat \ {0}
  /\ BlockTransition \in BOOLEAN
  /\ StoreMayFail \in BOOLEAN
  /\ MaxRestarts \in Nat

VARIABLES
  records,    \* StateGateStateStore._records
  snapTs,     \* StateGateStateStore._snapshots: timestamp, 0 without a snapshot
  parts,      \* RunAssembler._assemblies: the event types applied to each run
  processed,  \* RunAssembler._processed_run_ids
  lastTs,     \* RunAssembler._latest_engine_timestamp_ms, 0 when absent
  machineTs,  \* StateGateStateMachine._snapshots: timestamp, 0 at bootstrap
  halted,     \* StateGateProcessor._halted
  maxPending, \* publish_limits.max_pending of its configuration
  emitted,    \* what consume has returned so far
  restarts    \* history: how often the processor was replaced

storeVars == <<records, snapTs>>
processorVars == <<parts, processed, lastTs, machineTs, halted, maxPending>>
vars == <<records, snapTs, parts, processed, lastTs, machineTs, halted, maxPending,
          emitted, restarts>>

Symbol == {r.symbol : r \in Run}
EventType == {"EngineRunCompleted", "EngineRunFailed", "HysteresisStatePublished"}

\* What the orchestrator publishes of a run that matters to the gate.
EventsOf(r) ==
  IF r.fate = "failed" THEN {"EngineRunFailed"}
  ELSE IF r.mode = "truth" THEN {"EngineRunCompleted"}
  ELSE {"HysteresisStatePublished", "EngineRunCompleted"}

Evaluated(r, gate, status) ==
  [type |-> "GateEvaluated", run |-> r, gate |-> gate, status |-> status]
Reset(r) == [type |-> "StateReset", run |-> r, gate |-> "CLOSED", status |-> "BOOTSTRAP"]

\* Mutant: the status is given for the gate as well.
HaltedGate(r) == [type |-> "StateGateHalted", run |-> r, gate |-> "HALTED", status |-> "HALTED"]

Halted(r) == [type |-> "StateGateHalted", run |-> r, gate |-> "CLOSED", status |-> "HALTED"]

Init ==
  /\ records = <<>>
  /\ snapTs = [s \in Symbol |-> 0]
  /\ parts = [r \in Run |-> {}]
  /\ processed = {}
  /\ lastTs = [s \in Symbol |-> 0]
  /\ machineTs = [s \in Symbol |-> 0]
  /\ halted = FALSE
  /\ maxPending \in Limits
  /\ emitted = <<>>
  /\ restarts = 0

----
\* RunAssembler.ingest

\* Mutant: a run may share the timestamp of the one before it.
IsOldStrictly(r, last) == r.ts < last[r.symbol]

\* A run that is not newer than the last one of its symbol is dropped.
IsOld(r, last) == last[r.symbol] # 0 /\ r.ts <= last[r.symbol]

\* A halted processor ignores everything, a processor all of a processed run.
Ignore(r) ==
  /\ halted \/ r \in processed
  /\ UNCHANGED vars

DropOld(r) ==
  /\ ~halted
  /\ r \notin processed
  /\ IsOld(r, lastTs)
  /\ processed' = processed \cup {r}
  /\ UNCHANGED <<parts, lastTs, machineTs, halted, maxPending, emitted, restarts>>
  /\ UNCHANGED storeVars

Current(r) ==
  /\ ~halted
  /\ r \notin processed
  /\ ~IsOld(r, lastTs)

\* Mutant: a completed run waits in hysteresis mode, and its state for it as well.
ReadyTogether(r, p) ==
  \/ {"HysteresisStatePublished", "EngineRunCompleted"} \subseteq p
  \/ "EngineRunFailed" \in p
  \/ "EngineRunCompleted" \in p /\ r.mode # "hysteresis"

\* ready_event_type: in hysteresis mode a completed run waits for its state.
Ready(r, p) ==
  \/ "HysteresisStatePublished" \in p
  \/ "EngineRunFailed" \in p
  \/ "EngineRunCompleted" \in p /\ r.mode # "hysteresis"

Collect(r, t) ==
  LET p == parts[r] \cup {t}
  IN  /\ Current(r)
      /\ ~Ready(r, p)
      /\ parts' = [parts EXCEPT ![r] = p]
      /\ UNCHANGED <<processed, lastTs, machineTs, halted, maxPending, emitted, restarts>>
      /\ UNCHANGED storeVars

----
\* GateEvaluator.evaluate and StateGateStateMachine.process_run

Held(r, p) == BlockTransition /\ "HysteresisStatePublished" \in p /\ r.progress > 0

\* Mutant: a denied run is closed in truth mode only.
EvaluateByMode(r, p) ==
  IF "EngineRunFailed" \in p THEN Evaluated(r, "CLOSED", "DEGRADED")
  ELSE IF r.mode = "truth" /\ r.fate = "denied" THEN Evaluated(r, "CLOSED", "HOLD")
  ELSE IF Held(r, p) THEN Evaluated(r, "CLOSED", "HOLD")
  ELSE Evaluated(r, "OPEN", "READY")

\* The first rule that matches decides.  The denylist needs the regime output,
\* which is there once EngineRunCompleted has been applied.
Evaluate(r, p) ==
  IF "EngineRunFailed" \in p THEN Evaluated(r, "CLOSED", "DEGRADED")
  ELSE IF "EngineRunCompleted" \in p /\ r.fate = "denied" THEN Evaluated(r, "CLOSED", "HOLD")
  ELSE IF Held(r, p) THEN Evaluated(r, "CLOSED", "HOLD")
  ELSE Evaluated(r, "OPEN", "READY")

\* Mutant: the bootstrap snapshot is taken for one of time zero.
GapFromZero(r) == r.ts - machineTs[r.symbol] > MaxGap

Gap(r) == machineTs[r.symbol] # 0 /\ r.ts - machineTs[r.symbol] > MaxGap

StateEvents(r, p) ==
  (IF Gap(r) THEN <<Reset(r)>> ELSE <<>>) \o <<Evaluate(r, p)>>

\* Mutant: the assembler forgets the timestamp of what it released.
ReleasedUntimed(r) ==
  /\ processed' = processed \cup {r}
  /\ parts' = [parts EXCEPT ![r] = {}]
  /\ lastTs' = lastTs

\* The assembler releases the run whatever becomes of its evaluation.
Released(r) ==
  /\ processed' = processed \cup {r}
  /\ parts' = [parts EXCEPT ![r] = {}]
  /\ lastTs' = [lastTs EXCEPT ![r.symbol] = r.ts]

----
\* StateGateProcessor.consume

\* append_event for each of evts, all about run r: the records and the snapshot
\* of its symbol.
Recorded(r, evts) ==
  /\ records' = records \o evts
  /\ snapTs' = IF evts = <<>> THEN snapTs ELSE [snapTs EXCEPT ![r.symbol] = r.ts]

Decide(r, t) ==
  LET p == parts[r] \cup {t}
  IN  /\ Current(r)
      /\ Ready(r, p)
      /\ Released(r)
      /\ machineTs' = [machineTs EXCEPT ![r.symbol] = r.ts]

Blocked(evts) == Len(evts) > maxPending

\* All events of the run are recorded, then returned.
EmitGate(r, t) ==
  LET evts == StateEvents(r, parts[r] \cup {t})
  IN  /\ Decide(r, t)
      /\ ~Blocked(evts)
      /\ Recorded(r, evts)
      /\ emitted' = emitted \o evts
      /\ UNCHANGED <<halted, maxPending, restarts>>

\* Too many events to publish: the gate halts and records that it did, unless
\* that append raises, which is caught.
HaltBlocked(r, t, stored) ==
  LET evts == StateEvents(r, parts[r] \cup {t})
  IN  /\ Decide(r, t)
      /\ Blocked(evts)
      /\ stored \/ StoreMayFail
      /\ Recorded(r, IF stored THEN <<Halted(r)>> ELSE <<>>)
      /\ halted' = TRUE
      /\ emitted' = Append(emitted, Halted(r))
      /\ UNCHANGED <<maxPending, restarts>>

\* Mutant: what was decided is returned though it could not be recorded.
FailedOutputAnyway(r, evts) == Append(evts, Halted(r))

FailedOutput(r, evts) == <<Halted(r)>>

\* The append of event n + 1 raises: those before it stay recorded, the gate
\* halts without a record of it, and only the halt is returned.
HaltUnrecorded(r, t, n) ==
  LET evts == StateEvents(r, parts[r] \cup {t})
  IN  /\ StoreMayFail
      /\ Decide(r, t)
      /\ ~Blocked(evts)
      /\ n < Len(evts)
      /\ Recorded(r, SubSeq(evts, 1, n))
      /\ halted' = TRUE
      /\ emitted' = emitted \o FailedOutput(r, evts)
      /\ UNCHANGED <<maxPending, restarts>>

\* processed_run_ids
RecordedRuns == {records[i].run : i \in 1..Len(records)}

\* A new processor on the records, perhaps with another limit: whatever was half
\* assembled is gone.
Restart ==
  /\ restarts < MaxRestarts
  /\ restarts' = restarts + 1
  /\ parts' = [r \in Run |-> {}]
  /\ processed' = RecordedRuns
  /\ lastTs' = snapTs
  /\ machineTs' = snapTs
  /\ halted' = FALSE
  /\ maxPending' \in Limits
  /\ UNCHANGED emitted
  /\ UNCHANGED storeVars

Consume(r, t) ==
  \/ Ignore(r)
  \/ DropOld(r)
  \/ Collect(r, t)
  \/ EmitGate(r, t)
  \/ \E stored \in BOOLEAN : HaltBlocked(r, t, stored)
  \/ \E n \in 0..1 : HaltUnrecorded(r, t, n)

Next ==
  \/ Restart
  \/ \E r \in Run : \E t \in EventsOf(r) : Consume(r, t)

Spec == Init /\ [][Next]_vars
----
StateEvent ==
  [type : {"GateEvaluated", "StateReset", "StateGateHalted"}, run : Run,
   gate : {"OPEN", "CLOSED"}, status : {"BOOTSTRAP", "READY", "HOLD", "DEGRADED", "HALTED"}]

TypeOK ==
  /\ records \in Seq(StateEvent)
  /\ snapTs \in [Symbol -> Nat]
  /\ parts \in [Run -> SUBSET EventType]
  /\ processed \subseteq Run
  /\ lastTs \in [Symbol -> Nat]
  /\ machineTs \in [Symbol -> Nat]
  /\ halted \in BOOLEAN
  /\ maxPending \in Limits
  /\ emitted \in Seq(StateEvent)
  /\ restarts \in 0..MaxRestarts

IsGate(e) == e.type = "GateEvaluated"
RecordsOf(s) == {i \in 1..Len(records) : records[i].run.symbol = s}

\* A symbol's records move forward in time: each is of a later run than the one
\* before it, but for the decision that follows its own run's reset.  So no run
\* is ever decided twice, whatever is delivered again or late, fails to be
\* recorded, or is delivered to the next processor.
RecordsMoveForward ==
  \A i, j \in 1..Len(records) :
    i < j /\ records[i].run.symbol = records[j].run.symbol =>
      \/ records[i].run.ts < records[j].run.ts
      \/ /\ j = i + 1
         /\ records[i] = Reset(records[j].run)
         /\ IsGate(records[j])

Decisions(evts) == {i \in 1..Len(evts) : IsGate(evts[i])}

\* Downstream has seen exactly the decisions that are recorded, each once and in
\* that order: none was lost on the way out, and none went out that a replay of
\* the records would not know of.
RecordsAreTheStream ==
  /\ {emitted[i] : i \in Decisions(emitted)} = {records[k] : k \in Decisions(records)}
  /\ \A i, j \in Decisions(emitted), k, l \in Decisions(records) :
       emitted[i] = records[k] /\ emitted[j] = records[l] => (i < j <=> k < l)

\* A run's decision is preceded by a reset exactly when its symbol had been
\* silent for too long, as the records tell it: restarts neither hide a gap nor
\* make one up.
ResetsMarkGaps ==
  \A j \in 1..Len(records) :
    LET r == records[j].run
        Earlier == {i \in RecordsOf(r.symbol) : i < j /\ records[i].run # r}
        gap == Earlier # {} /\ \A i \in Earlier : r.ts - records[i].run.ts > MaxGap
    IN  IsGate(records[j]) => (gap <=> j > 1 /\ records[j - 1] = Reset(r))

\* The timestamp _update_snapshot leaves when the records are read again.
Replayed(s) ==
  IF RecordsOf(s) = {} THEN 0
  ELSE LET last == CHOOSE i \in RecordsOf(s) : \A j \in RecordsOf(s) : j <= i
       IN  records[last].run.ts

Ignored(r, done, last) == r \in done \/ IsOld(r, last)

\* A restart forgets what is half assembled, which is a completed run that waits
\* for its hysteresis state.  It matters to a run whose output is denied.
ForgetsDenial(r) == r.fate = "denied" /\ "EngineRunCompleted" \in parts[r]

\* Replacing a processor that has not halted changes no decision to come but one:
\* the processor built on the records ignores the same runs, measures gaps from
\* the same timestamps, and what comes next of a run makes it decide the run when
\* the old one would, and as the old one would.  The exception is a denied run
\* that was complete and waited for its state: the old processor closes the gate,
\* the new one decides on the state alone.
RestartIsInvisible ==
  ~halted =>
    /\ \A s \in Symbol : machineTs[s] = Replayed(s) /\ snapTs[s] = Replayed(s)
    /\ \A r \in Run : Ignored(r, processed, lastTs) <=> Ignored(r, RecordedRuns, snapTs)
    /\ \A r \in Run : \A t \in EventsOf(r) :
         LET old == parts[r] \cup {t}
         IN  /\ Ready(r, old) <=> Ready(r, {t})
             /\ Ready(r, old) =>
                  \/ Evaluate(r, old) = Evaluate(r, {t})
                  \/ ForgetsDenial(r) /\ Evaluate(r, old).gate = "CLOSED"

\* The verdicts on run r that are there to be seen, when p has been assembled of
\* it, let the gate open.
MayOpen(r, p) ==
  /\ r.fate # "failed"
  /\ r.fate = "denied" => r.mode = "hysteresis" /\ "EngineRunCompleted" \notin p
  /\ BlockTransition /\ r.mode = "hysteresis" => r.progress = 0

\* The gate opens for no failed run and for none in a transition where those
\* block.  It opens for a denied run only when it is released by its hysteresis
\* state while its output is not there: had the output come first, it is closed.
OpenIsPermitted ==
  [][\A i \in Len(records) + 1..Len(records') :
       LET r == records'[i].run
       IN  records'[i].gate = "OPEN" => MayOpen(r, parts[r])]_vars

\* A run whose reset went on record is decided as well: whenever the gate is
\* working, every reset is followed by the decision it is for.
ResetRunsAreEvaluated ==
  ~halted =>
    \A i \in 1..Len(records) :
      records[i].type = "StateReset" =>
        \E j \in 1..Len(records) : IsGate(records[j]) /\ records[j].run = records[i].run
====
