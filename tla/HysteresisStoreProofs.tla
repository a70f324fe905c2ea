---- MODULE HysteresisStoreProofs ----
(* Proofs about HysteresisStore for every number of regimes, set of symbols,  *)
(* threshold, window and bound.                                               *)
EXTENDS HysteresisStore, HysteresisRulesProofs

----
(* Type correctness, on every medium.  A restore picks the latest of a symbol's *)
(* records by CHOOSE; that there is one is part of the induction: every prefix  *)
(* of the file that holds a record of a symbol holds a latest one.              *)

File == Seq(Record \cup {Garbage})

LatestUpTo(f, s, n, i) ==
  /\ i \in 1..n
  /\ f[i].symbol = s
  /\ \A j \in 1..n : f[j].symbol = s => f[j].ts < f[i].ts \/ (f[j].ts = f[i].ts /\ j <= i)

EveryPrefixHasLatest(f) ==
  \A s \in Symbol, n \in 0..Len(f) :
    (\E i \in 1..n : f[i].symbol = s) => \E i \in 1..n : LatestUpTo(f, s, n, i)

LEMMA RecordOfSymbol ==
  ASSUME NEW f \in File, NEW s \in Symbol, NEW i \in 1..Len(f), f[i].symbol = s
  PROVE  f[i] \in Record
BY StoreAssumption DEF File, Garbage

(* A restore returns the state and timestamp of a record of the file. *)
LEMMA RestoredType ==
  ASSUME NEW f \in File, EveryPrefixHasLatest(f), NEW s \in Symbol
  PROVE  /\ Restored(f, s) \in HState \cup {NoState}
         /\ RestoredTs(f, s) \in Nat
<1>1. CASE RecordLines(f, s) = {}
  BY <1>1 DEF Restored, RestoredTs
<1>2. CASE RecordLines(f, s) # {}
  <2>1. Len(f) \in Nat  BY DEF File
  <2>2. \E i \in 1..Len(f) : f[i].symbol = s
    BY <1>2 DEF RecordLines
  <2>3. PICK i \in 1..Len(f) : LatestUpTo(f, s, Len(f), i)
    BY <2>1, <2>2 DEF EveryPrefixHasLatest
  <2>4. IsLatest(f, s, i)
    BY <2>3 DEF LatestUpTo, IsLatest, RecordLines
  <2>5. LatestLine(f, s) \in RecordLines(f, s)
    BY <2>4 DEF LatestLine, IsLatest
  <2>6. f[LatestLine(f, s)] \in Record
    BY <2>5, RecordOfSymbol DEF RecordLines
  <2>. QED  BY <1>2, <2>6 DEF Restored, RestoredTs, Record
<1>. QED  BY <1>1, <1>2

(* Every end of an append keeps the file a file. *)
LEMMA WrittenType ==
  ASSUME NEW f \in File, NEW nl \in BOOLEAN, NEW rec \in Record,
         NEW end \in AppendEnds \cup {"line"},
         ~nl => Len(f) > 0
  PROVE  /\ Written(f, nl, rec, end) \in File
         /\ Ended(nl, end) \in BOOLEAN
         /\ ~Ended(nl, end) => Len(Written(f, nl, rec, end)) > 0
<1>1. CASE end = "nothing"
  BY <1>1 DEF Written, Ended
<1>2. CASE end # "nothing" /\ ~nl
  <2>1. Len(f) \in 1..Len(f)  BY <1>2 DEF File
  <2>2. Written(f, nl, rec, end) = [f EXCEPT ![Len(f)] = Garbage]
    BY <1>2 DEF Written
  <2>3. /\ [f EXCEPT ![Len(f)] = Garbage] \in File
        /\ Len([f EXCEPT ![Len(f)] = Garbage]) = Len(f)
    BY <2>1 DEF File
  <2>. QED  BY <1>2, <2>2, <2>3 DEF Ended
<1>3. CASE end # "nothing" /\ nl
  <2>1. PICK line \in Record \cup {Garbage} : Written(f, nl, rec, end) = Append(f, line)
    BY <1>3 DEF Written
  <2>2. Append(f, line) \in File /\ Len(Append(f, line)) = Len(f) + 1 /\ Len(f) \in Nat
    BY DEF File
  <2>3. Len(Append(f, line)) > 0  BY <2>2
  <2>4. Ended(nl, end) \in BOOLEAN  BY <1>3 DEF Ended
  <2>. QED  BY <2>1, <2>2, <2>3, <2>4
<1>. QED  BY <1>1, <1>2, <1>3

LEMMA AppendKeepsLatest ==
  ASSUME NEW f \in File, EveryPrefixHasLatest(f), NEW line \in Record \cup {Garbage}
  PROVE  EveryPrefixHasLatest(Append(f, line))
<1>. DEFINE g == Append(f, line)
            N == Len(f) + 1
<1>1. /\ Len(f) \in Nat
      /\ Len(g) = N
      /\ g[N] = line
      /\ \A k \in 1..Len(f) : g[k] = f[k]
  BY DEF File
<1>. SUFFICES ASSUME NEW s \in Symbol, NEW n \in 0..N, \E i \in 1..n : g[i].symbol = s
              PROVE  \E i \in 1..n : LatestUpTo(g, s, n, i)
  BY <1>1 DEF EveryPrefixHasLatest
<1>2. CASE n \in 0..Len(f)
  <2>1. \A i \in 1..n : g[i] = f[i]  BY <1>1, <1>2
  <2>2. PICK i \in 1..n : LatestUpTo(f, s, n, i)
    BY <1>2, <2>1 DEF EveryPrefixHasLatest
  <2>. QED  BY <2>1, <2>2 DEF LatestUpTo
<1>3. CASE n = N /\ line.symbol # s
  <2>1. \E i \in 1..Len(f) : f[i].symbol = s
    BY <1>1, <1>3
  <2>2. PICK i \in 1..Len(f) : LatestUpTo(f, s, Len(f), i)
    BY <1>1, <2>1 DEF EveryPrefixHasLatest
  <2>3. i \in 1..N  BY <1>1
  <2>4. \A j \in 1..N : g[j].symbol = s => j \in 1..Len(f)
    BY <1>1, <1>3
  <2>5. LatestUpTo(g, s, N, i)
    BY <1>1, <2>2, <2>3, <2>4 DEF LatestUpTo
  <2>. QED  BY <1>3, <2>3, <2>5
<1>4. CASE n = N /\ line.symbol = s
  <2>1. line \in Record  BY <1>4, StoreAssumption DEF Garbage
  <2>2. line.ts \in Nat  BY <2>1 DEF Record
  <2>3. \A j \in 1..Len(f) : f[j].symbol = s => f[j].ts \in Nat
    BY RecordOfSymbol DEF Record
  <2>4. CASE \A j \in 1..Len(f) : f[j].symbol = s => f[j].ts <= line.ts
    <3>1. LatestUpTo(g, s, N, N)
      BY <1>1, <1>4, <2>2, <2>3, <2>4 DEF LatestUpTo
    <3>. QED  BY <1>1, <1>4, <3>1
  <2>5. CASE ~\A j \in 1..Len(f) : f[j].symbol = s => f[j].ts <= line.ts
    <3>1. PICK i \in 1..Len(f) : LatestUpTo(f, s, Len(f), i)
      BY <1>1, <2>5 DEF EveryPrefixHasLatest
    <3>2. f[i].ts > line.ts
      BY <2>2, <2>3, <2>5, <3>1 DEF LatestUpTo
    <3>3. LatestUpTo(g, s, N, i)
      BY <1>1, <1>4, <3>1, <3>2, <2>2, <2>3 DEF LatestUpTo
    <3>. QED  BY <1>1, <1>4, <3>3
  <2>. QED  BY <2>4, <2>5
<1>. QED  BY <1>1, <1>2, <1>3, <1>4

LEMMA SpoiltLineKeepsLatest ==
  ASSUME NEW f \in File, EveryPrefixHasLatest(f), Len(f) > 0
  PROVE  EveryPrefixHasLatest([f EXCEPT ![Len(f)] = Garbage])
<1>. DEFINE g == [f EXCEPT ![Len(f)] = Garbage]
<1>1. /\ Len(f) \in Nat
      /\ Len(g) = Len(f)
      /\ g[Len(f)] = Garbage
      /\ \A k \in 1..(Len(f) - 1) : g[k] = f[k]
  BY DEF File
<1>. SUFFICES ASSUME NEW s \in Symbol, NEW n \in 0..Len(f), \E i \in 1..n : g[i].symbol = s
              PROVE  \E i \in 1..n : LatestUpTo(g, s, n, i)
  BY <1>1 DEF EveryPrefixHasLatest
<1>2. Garbage.symbol # s  BY StoreAssumption DEF Garbage
<1>. DEFINE m == IF n = Len(f) THEN n - 1 ELSE n
<1>3. m \in 0..Len(f) /\ m <= n /\ \A k \in 1..n : k \in 1..m \/ k = Len(f)
  BY <1>1
<1>4. \E i \in 1..m : f[i].symbol = s
  BY <1>1, <1>2, <1>3
<1>5. PICK i \in 1..m : LatestUpTo(f, s, m, i)
  BY <1>3, <1>4 DEF EveryPrefixHasLatest
<1>6. LatestUpTo(g, s, n, i)
  BY <1>1, <1>2, <1>3, <1>5 DEF LatestUpTo
<1>. QED  BY <1>3, <1>6

LEMMA WrittenKeepsLatest ==
  ASSUME NEW f \in File, EveryPrefixHasLatest(f), NEW nl \in BOOLEAN, NEW rec \in Record,
         NEW end \in AppendEnds \cup {"line"}, ~nl => Len(f) > 0
  PROVE  EveryPrefixHasLatest(Written(f, nl, rec, end))
<1>1. CASE end = "nothing"
  BY <1>1 DEF Written
<1>2. CASE end # "nothing" /\ ~nl
  BY <1>2, SpoiltLineKeepsLatest DEF Written
<1>3. CASE end # "nothing" /\ nl
  BY <1>3, AppendKeepsLatest DEF Written
<1>. QED  BY <1>1, <1>2, <1>3

(* The inductive invariant behind type correctness. *)
TypeInv ==
  /\ TypeOK
  /\ ~eol => Len(file) > 0
  /\ EveryPrefixHasLatest(file)

LEMMA SupportType ==
  ASSUME TypeOK, NEW s \in Symbol, NEW o \in Opinion, NEW b \in BOOLEAN, Supported(s, o, b)
  PROVE  support' \in [Symbol -> [Regime -> Nat]]
<1>1. support \in [Symbol -> [Regime -> Nat]]  BY DEF TypeOK
<1>2. NoSupport \in [Regime -> Nat]  BY DEF NoSupport
<1>3. ASSUME NEW r \in Regime
      PROVE  support[s][r] \in Nat /\ Lesser(support[s][r] + 1, MaxWindow) \in Nat
  BY <1>1, StoreAssumption DEF Lesser
<1>4. Tally(s, o) \in [Regime -> Nat]  BY <1>3 DEF Tally
<1>. QED  BY <1>1, <1>2, <1>4 DEF Supported

LEMMA InputsType ==
  ASSUME NEW s \in Symbol  PROVE  Inputs[s] \subseteq Opinion
BY StoreAssumption

(* Every step keeps the type invariant. *)
LEMMA TypeInvStep == TypeInv /\ [Next]_vars => TypeInv'
<1>. SUFFICES ASSUME TypeInv, [Next]_vars  PROVE TypeInv'
  OBVIOUS
<1>. USE DEF TypeInv
<1>1. CASE UNCHANGED vars
  BY <1>1 DEF TypeOK, vars, EveryPrefixHasLatest, LatestUpTo
<1>2. CASE Start
  <2>1. UNCHANGED <<file, eol>>  BY <1>2 DEF Start
  <2>2. \A s \in Symbol : /\ Restored(file, s) \in HState \cup {NoState}
                          /\ RestoredTs(file, s) \in Nat
    BY RestoredType DEF TypeOK, File
  <2>3. TypeOK'  BY <1>2, <2>2 DEF TypeOK, Start
  <2>. QED  BY <2>1, <2>3 DEF EveryPrefixHasLatest, LatestUpTo
<1>3. CASE Crash
  <2>1. UNCHANGED <<file, eol>>  BY <1>3 DEF Crash
  <2>2. TypeOK'  BY <1>3 DEF TypeOK, Crash, Down
  <2>. QED  BY <2>1, <2>2 DEF EveryPrefixHasLatest, LatestUpTo
<1>4. CASE Publish
  <2>1. UNCHANGED <<file, eol>>  BY <1>4 DEF Publish
  <2>2. result \in [symbol : Symbol, state : HState]
    BY <1>4 DEF Publish, TypeOK
  <2>3. TypeOK'  BY <1>4, <2>2 DEF TypeOK, Publish
  <2>. QED  BY <2>1, <2>3 DEF EveryPrefixHasLatest, LatestUpTo
<1>5. ASSUME NEW s \in Symbol, NEW ts \in Time, RunOutOfOrder(s, ts)
      PROVE  TypeInv'
  <2>1. UNCHANGED <<file, eol>>  BY <1>5 DEF RunOutOfOrder
  <2>2. TypeOK'  BY <1>5 DEF TypeOK, RunOutOfOrder
  <2>. QED  BY <2>1, <2>2 DEF EveryPrefixHasLatest, LatestUpTo
<1>6. ASSUME NEW s \in Symbol, NEW ts \in Time, NEW o \in Inputs[s],
             NEW end \in AppendEnds \cup {"line"},
             RunEngine(s, ts, o) \/ RunEngineAppendFails(s, ts, o, end)
      PROVE  TypeInv'
  <2>. DEFINE next == Advance(mem[s], o, window)
              rec == [symbol |-> s, ts |-> ts, state |-> next]
  <2>1. o \in Opinion  BY InputsType
  <2>2. next \in HState
    <3>1. window \in Nat /\ mem[s] \in HState \cup {NoState}
      BY StoreAssumption DEF TypeOK, Windows
    <3>. QED  BY <2>1, <3>1, AdvanceType
  <2>3. ts \in Nat  BY StoreAssumption DEF Time
  <2>4. rec \in Record  BY <2>2, <2>3 DEF Record
  <2>5. (support \in [Symbol -> [Regime -> Nat]])'
    BY <1>6, <2>1, SupportType DEF RunEngine, RunEngineAppendFails
  <2>6. file \in File /\ eol \in BOOLEAN  BY DEF TypeOK, File
  <2>7. ASSUME NEW e \in AppendEnds \cup {"line"}, WriteFile(rec, e)
        PROVE  /\ exists' \in BOOLEAN /\ file' \in File /\ eol' \in BOOLEAN
               /\ (~eol => Len(file) > 0)'
               /\ EveryPrefixHasLatest(file')
    <3>1. file' = Written(file, eol, rec, e) /\ eol' = Ended(eol, e) /\ exists' = TRUE
      BY <2>7 DEF WriteFile
    <3>. QED  BY <2>4, <2>6, <3>1, WrittenType, WrittenKeepsLatest
  <2>8. CASE RunEngine(s, ts, o)
    <3>1. /\ exists' \in BOOLEAN /\ file' \in File /\ eol' \in BOOLEAN
          /\ (~eol => Len(file) > 0)'
          /\ EveryPrefixHasLatest(file')
      <4>1. CASE StateAdvanced(mem[s], next)
        BY <2>7, <2>8, <4>1 DEF RunEngine
      <4>2. CASE ~StateAdvanced(mem[s], next)
        <5>1. UNCHANGED fileVars  BY <2>8, <4>2 DEF RunEngine
        <5>. QED  BY <5>1 DEF fileVars, TypeOK, File
      <4>. QED  BY <4>1, <4>2
    <3>2. /\ mem' = [mem EXCEPT ![s] = next]
          /\ memTs' = [memTs EXCEPT ![s] = ts]
          /\ result' = [symbol |-> s, state |-> next]
          /\ UNCHANGED <<proc, window, published>>
      BY <2>8 DEF RunEngine
    <3>3. TypeOK'  BY <2>2, <2>3, <2>5, <3>1, <3>2 DEF TypeOK, File
    <3>. QED  BY <3>1, <3>3
  <2>9. CASE RunEngineAppendFails(s, ts, o, end)
    <3>1. /\ exists' \in BOOLEAN /\ file' \in File /\ eol' \in BOOLEAN
          /\ (~eol => Len(file) > 0)'
          /\ EveryPrefixHasLatest(file')
      BY <2>7, <2>9 DEF RunEngineAppendFails
    <3>2. TypeOK'  BY <2>5, <2>9, <3>1 DEF TypeOK, File, RunEngineAppendFails
    <3>. QED  BY <3>1, <3>2
  <2>. QED  BY <1>6, <2>8, <2>9
<1>. QED
  BY <1>1, <1>2, <1>3, <1>4, <1>5, <1>6 DEF Next

LEMMA TypeInvInit == Init => TypeInv
<1>. SUFFICES ASSUME Init PROVE TypeInv  OBVIOUS
<1>1. TypeOK
  <2>1. file \in Seq(Record \cup {Garbage})  BY DEF Init
  <2>2. support \in [Symbol -> [Regime -> Nat]]  BY DEF Init, NoSupport
  <2>3. published \subseteq Symbol  BY DEF Init
  <2>. QED  BY <2>1, <2>2, <2>3 DEF Init, TypeOK
<1>2. EveryPrefixHasLatest(file)  BY DEF Init, EveryPrefixHasLatest
<1>. QED  BY <1>1, <1>2 DEF Init, TypeInv

(* TypeOK holds of every execution, on every medium (HysteresisStore.states, the *)
(* state file and what a restore makes of it).                                   *)
THEOREM TypeCorrect == Spec => []TypeOK
<1>1. Init => TypeInv  BY TypeInvInit
<1>2. TypeInv => TypeOK  BY DEF TypeInv
<1>. QED  BY <1>1, <1>2, TypeInvStep, PTL DEF Spec

----
(* On media that take a line whole or not at all the file is enough.  The        *)
(* invariant says what a restart needs: every line is a record, the records of a *)
(* symbol are in the order of time and none is later than the memory's           *)
(* timestamp, the last one is what is in memory; and a published state has left  *)
(* a record, so that no file is refused that a consumer relies on.               *)

Ordered(f) ==
  \A i, j \in 1..Len(f) : i < j /\ f[i].symbol = f[j].symbol => f[i].ts <= f[j].ts

InMemory ==
  proc = "running" => \A s \in Symbol : mem[s] = Restored(file, s) /\ RestoredTs(file, s) <= memTs[s]

Relied ==
  published # {} \/ result # NoResult => \E s \in Symbol : RecordLines(file, s) # {}

DurableInv ==
  /\ eol = TRUE
  /\ file \in Seq(Record)
  /\ Ordered(file)
  /\ InMemory
  /\ Relied
  /\ proc = "refused" => \A s \in Symbol : RecordLines(file, s) = {}

LEMMA RecordType ==
  ASSUME NEW f \in Seq(Record), NEW i \in 1..Len(f)
  PROVE  f[i].symbol \in Symbol /\ f[i].ts \in Nat /\ f[i].state \in HState
<1>1. f[i] \in Record  OBVIOUS
<1>. QED  BY <1>1 DEF Record

(* The step of a run is to a state with an anchor. *)
LEMMA NextType ==
  ASSUME TypeOK, NEW s \in Symbol, NEW o \in Opinion
  PROVE  Advance(mem[s], o, window) \in HState
<1>1. window \in Nat /\ mem[s] \in HState \cup {NoState}
  BY StoreAssumption DEF TypeOK, Windows
<1>. QED  BY <1>1, AdvanceType

(* The latest line of a symbol is the only one IsLatest holds of. *)
LEMMA LatestIsUnique ==
  ASSUME NEW f \in Seq(Record), NEW s \in Symbol, NEW i \in 1..Len(f), IsLatest(f, s, i)
  PROVE  /\ LatestLine(f, s) = i
         /\ Restored(f, s) = f[i].state
         /\ RestoredTs(f, s) = f[i].ts
<1>1. i \in RecordLines(f, s) /\ RecordLines(f, s) \subseteq 1..Len(f)
  BY DEF IsLatest, RecordLines
<1>2. \A j \in 1..Len(f) : f[j].ts \in Nat
  BY RecordType
<1>3. ASSUME NEW j \in RecordLines(f, s), IsLatest(f, s, j)
      PROVE  j = i
  BY <1>1, <1>2, <1>3 DEF IsLatest
<1>4. LatestLine(f, s) = i
  BY <1>1, <1>3 DEF LatestLine
<1>. QED  BY <1>1, <1>4 DEF Restored, RestoredTs

(* A symbol with records has a latest one, and no other is later. *)
LEMMA LatestExists ==
  ASSUME NEW f \in Seq(Record), EveryPrefixHasLatest(f), NEW s \in Symbol, RecordLines(f, s) # {}
  PROVE  \E i \in 1..Len(f) : IsLatest(f, s, i)
<1>1. Len(f) \in 0..Len(f) /\ \E i \in 1..Len(f) : f[i].symbol = s
  BY DEF RecordLines
<1>2. PICK i \in 1..Len(f) : LatestUpTo(f, s, Len(f), i)
  BY <1>1 DEF EveryPrefixHasLatest
<1>. QED  BY <1>2 DEF LatestUpTo, IsLatest, RecordLines

(* An append of a record that is no earlier than the others of its symbol is     *)
(* what a restore takes, and leaves the other symbols alone.                     *)
LEMMA AppendRestores ==
  ASSUME NEW f \in Seq(Record), EveryPrefixHasLatest(f), Ordered(f), NEW rec \in Record,
         \A i \in RecordLines(f, rec.symbol) : f[i].ts <= rec.ts
  PROVE  LET g == Append(f, rec)
         IN  /\ g \in Seq(Record)
             /\ Ordered(g)
             /\ Restored(g, rec.symbol) = rec.state
             /\ RestoredTs(g, rec.symbol) = rec.ts
             /\ RecordLines(g, rec.symbol) # {}
             /\ \A s \in Symbol \ {rec.symbol} :
                  /\ Restored(g, s) = Restored(f, s)
                  /\ RestoredTs(g, s) = RestoredTs(f, s)
                  /\ RecordLines(g, s) = RecordLines(f, s)
<1>. DEFINE g == Append(f, rec)
            N == Len(f) + 1
<1>1. /\ Len(f) \in Nat /\ N \in 1..N
      /\ g \in Seq(Record)
      /\ Len(g) = N
      /\ g[N] = rec
      /\ \A k \in 1..Len(f) : g[k] = f[k]
  OBVIOUS
<1>2. rec.symbol \in Symbol /\ rec.ts \in Nat /\ \A k \in 1..Len(f) : f[k].ts \in Nat
  BY RecordType DEF Record
<1>. HIDE DEF g
<1>3. RecordLines(g, rec.symbol) = RecordLines(f, rec.symbol) \cup {N}
  BY <1>1 DEF RecordLines
<1>4. IsLatest(g, rec.symbol, N)
  <2>1. \A j \in RecordLines(f, rec.symbol) : j \in 1..Len(f) /\ j <= N /\ g[j].ts = f[j].ts
    BY <1>1 DEF RecordLines
  <2>2. ASSUME NEW j \in RecordLines(g, rec.symbol)
        PROVE  g[j].ts < g[N].ts \/ (g[j].ts = g[N].ts /\ j <= N)
    <3>1. CASE j = N  BY <1>1, <3>1
    <3>2. CASE j \in RecordLines(f, rec.symbol)
      <4>1. g[j].ts <= rec.ts /\ g[j].ts \in Nat  BY <1>2, <2>1, <3>2
      <4>. QED  BY <1>1, <1>2, <2>1, <3>2, <4>1
    <3>. QED  BY <1>3, <3>1, <3>2
  <2>. QED  BY <1>3, <2>2 DEF IsLatest
<1>5. Restored(g, rec.symbol) = rec.state /\ RestoredTs(g, rec.symbol) = rec.ts
  BY <1>1, <1>2, <1>4, LatestIsUnique
<1>6. ASSUME NEW s \in Symbol \ {rec.symbol}
      PROVE  /\ Restored(g, s) = Restored(f, s)
             /\ RestoredTs(g, s) = RestoredTs(f, s)
             /\ RecordLines(g, s) = RecordLines(f, s)
  <2>1. RecordLines(g, s) = RecordLines(f, s)
    BY <1>1 DEF RecordLines
  <2>2. CASE RecordLines(f, s) = {}
    BY <2>1, <2>2 DEF Restored, RestoredTs
  <2>3. CASE RecordLines(f, s) # {}
    <3>1. PICK i \in 1..Len(f) : IsLatest(f, s, i)
      BY <2>3, LatestExists
    <3>2. \A j \in RecordLines(f, s) : g[j] = f[j]
      BY <1>1 DEF RecordLines
    <3>3. i \in 1..Len(g) /\ g[i] = f[i] /\ IsLatest(g, s, i)
      BY <1>1, <2>1, <3>1, <3>2 DEF IsLatest
    <3>4. Restored(f, s) = f[i].state /\ RestoredTs(f, s) = f[i].ts
      BY <3>1, LatestIsUnique
    <3>5. Restored(g, s) = g[i].state /\ RestoredTs(g, s) = g[i].ts
      BY <1>1, <3>3, LatestIsUnique
    <3>. QED  BY <2>1, <3>3, <3>4, <3>5
  <2>. QED  BY <2>2, <2>3
<1>7. Ordered(g)
  <2>1. ASSUME NEW i \in 1..N, NEW j \in 1..N, i < j, g[i].symbol = g[j].symbol
        PROVE  g[i].ts <= g[j].ts
    <3>1. i \in 1..Len(f) /\ g[i] = f[i]  BY <1>1, <2>1
    <3>2. CASE j = N
      <4>1. i \in RecordLines(f, rec.symbol)  BY <1>1, <2>1, <3>1, <3>2 DEF RecordLines
      <4>. QED  BY <1>1, <3>1, <3>2, <4>1
    <3>3. CASE j # N
      <4>1. j \in 1..Len(f) /\ g[j] = f[j]  BY <1>1, <3>3
      <4>. QED  BY <2>1, <3>1, <4>1 DEF Ordered
    <3>. QED  BY <3>2, <3>3
  <2>. QED  BY <1>1, <2>1 DEF Ordered
<1>. QED  BY <1>1, <1>3, <1>5, <1>6, <1>7 DEF g

LEMMA NoStateIsNone == NoState \notin HState
BY DEF NoState, HState, NoRegime, Regime

(* A run past the guards is no earlier than any record of its symbol.            *)
LEMMA RunIsLatest ==
  ASSUME TypeInv, DurableInv, proc = "running",
         NEW s \in Symbol, NEW ts \in Time, InOrder(s, ts)
  PROVE  \A i \in RecordLines(file, s) : file[i].ts <= ts
<1>1. file \in Seq(Record) /\ EveryPrefixHasLatest(file)
  BY DEF DurableInv, TypeInv
<1>2. ts \in Nat /\ memTs[s] \in Nat
  BY StoreAssumption DEF Time, TypeInv, TypeOK
<1>. SUFFICES ASSUME RecordLines(file, s) # {}
              PROVE  \A i \in RecordLines(file, s) : file[i].ts <= ts
  OBVIOUS
<1>3. PICK i \in 1..Len(file) : IsLatest(file, s, i)
  BY <1>1, LatestExists
<1>4. Restored(file, s) = file[i].state /\ RestoredTs(file, s) = file[i].ts
  BY <1>1, <1>3, LatestIsUnique
<1>5. file[i].state \in HState /\ file[i].ts \in Nat
  BY <1>1, RecordType
<1>6. mem[s] = Restored(file, s) /\ RestoredTs(file, s) <= memTs[s]
  BY DEF DurableInv, InMemory
<1>7. file[i].ts <= ts
  BY <1>2, <1>4, <1>5, <1>6, NoStateIsNone DEF InOrder
<1>8. \A j \in RecordLines(file, s) : file[j].ts <= file[i].ts /\ file[j].ts \in Nat
  <2>1. \A j \in RecordLines(file, s) : file[j].ts \in Nat
    BY <1>1, RecordType DEF RecordLines
  <2>. QED  BY <1>3, <1>5, <2>1 DEF IsLatest
<1>. QED  BY <1>2, <1>5, <1>7, <1>8

(* What a run's append of a whole line leaves. *)
LEMMA LineIsTaken ==
  ASSUME TypeInv, DurableInv, proc = "running",
         NEW s \in Symbol, NEW ts \in Time, NEW next \in HState, InOrder(s, ts),
         WriteFile([symbol |-> s, ts |-> ts, state |-> next], "line")
  PROVE  /\ eol' = TRUE
         /\ file' \in Seq(Record)
         /\ Ordered(file')
         /\ Restored(file', s) = next
         /\ RestoredTs(file', s) = ts
         /\ RecordLines(file', s) # {}
         /\ \A q \in Symbol \ {s} :
              /\ Restored(file', q) = Restored(file, q)
              /\ RestoredTs(file', q) = RestoredTs(file, q)
              /\ RecordLines(file', q) = RecordLines(file, q)
<1>. DEFINE rec == [symbol |-> s, ts |-> ts, state |-> next]
<1>1. rec \in Record
  BY StoreAssumption DEF Record, Time
<1>2. file' = Append(file, rec) /\ eol' = TRUE
  BY DEF WriteFile, Written, Ended, DurableInv
<1>3. \A i \in RecordLines(file, rec.symbol) : file[i].ts <= rec.ts
  BY RunIsLatest
<1>4. file \in Seq(Record) /\ EveryPrefixHasLatest(file) /\ Ordered(file)
  BY DEF DurableInv, TypeInv
<1>. HIDE DEF rec
<1>5. /\ Append(file, rec) \in Seq(Record)
      /\ Ordered(Append(file, rec))
      /\ Restored(Append(file, rec), rec.symbol) = rec.state
      /\ RestoredTs(Append(file, rec), rec.symbol) = rec.ts
      /\ RecordLines(Append(file, rec), rec.symbol) # {}
      /\ \A q \in Symbol \ {rec.symbol} :
           /\ Restored(Append(file, rec), q) = Restored(file, q)
           /\ RestoredTs(Append(file, rec), q) = RestoredTs(file, q)
           /\ RecordLines(Append(file, rec), q) = RecordLines(file, q)
  BY <1>1, <1>3, <1>4, AppendRestores
<1>6. rec.symbol = s /\ rec.state = next /\ rec.ts = ts
  BY DEF rec
<1>. QED  BY <1>2, <1>5, <1>6

(* The file as a step leaves it: as it was, or with one more line. *)
FileKept == UNCHANGED <<file, eol>>

LEMMA KeptFile ==
  ASSUME FileKept
  PROVE  /\ \A s \in Symbol : /\ Restored(file', s) = Restored(file, s)
                               /\ RestoredTs(file', s) = RestoredTs(file, s)
                               /\ RecordLines(file', s) = RecordLines(file, s)
         /\ Ordered(file') <=> Ordered(file)
BY DEF FileKept

(* Every step keeps the invariant, on a medium that takes lines whole. *)
LEMMA DurableInvStep ==
  ASSUME AtomicAppends, TypeInv, DurableInv, [Next]_vars
  PROVE  DurableInv'
<1>. USE DEF DurableInv
<1>1. CASE UNCHANGED vars
  BY <1>1, KeptFile DEF vars, FileKept, InMemory, Relied
<1>2. CASE Start
  <2>1. FileKept /\ UNCHANGED <<result, published>>  BY <1>2 DEF Start, FileKept
  <2>2. \A s \in Symbol : RestoredTs(file, s) \in Nat
    BY RestoredType DEF TypeInv, TypeOK, File
  <2>3. InMemory'
    BY <1>2, <2>1, <2>2, KeptFile DEF Start, InMemory
  <2>4. (proc = "refused" => \A s \in Symbol : RecordLines(file, s) = {})'
    BY <1>2, <2>1, KeptFile DEF Start
  <2>. QED  BY <2>1, <2>3, <2>4, KeptFile DEF FileKept, Relied
<1>3. CASE Crash
  <2>1. FileKept /\ proc' = "down" /\ published' = published /\ result' = NoResult
    BY <1>3 DEF Crash, Down, FileKept
  <2>. QED  BY <2>1, KeptFile DEF FileKept, InMemory, Relied
<1>4. CASE Publish
  <2>1. FileKept /\ UNCHANGED <<proc, mem, memTs>> /\ result # NoResult /\ proc = "running"
    BY <1>4 DEF Publish, FileKept
  <2>. QED  BY <2>1, KeptFile DEF FileKept, InMemory, Relied
<1>5. ASSUME NEW s \in Symbol, NEW ts \in Time, RunOutOfOrder(s, ts)
      PROVE  DurableInv'
  <2>1. FileKept /\ proc' = "halted" /\ UNCHANGED <<result, published>>
    BY <1>5 DEF RunOutOfOrder, FileKept
  <2>. QED  BY <2>1, KeptFile DEF FileKept, InMemory, Relied
<1>6. ASSUME NEW s \in Symbol, NEW ts \in Time, NEW o \in Inputs[s], RunEngine(s, ts, o)
      PROVE  DurableInv'
  <2>. DEFINE next == Advance(mem[s], o, window)
  <2>1. /\ proc = "running" /\ proc' = "running" /\ InOrder(s, ts)
        /\ mem' = [mem EXCEPT ![s] = next] /\ memTs' = [memTs EXCEPT ![s] = ts]
    BY <1>6 DEF RunEngine, Runnable
  <2>2. next \in HState
    BY InputsType, NextType DEF TypeInv
  <2>3. ts \in Nat /\ memTs \in [Symbol -> Nat] /\ mem \in [Symbol -> HState \cup {NoState}]
    BY StoreAssumption DEF Time, TypeInv, TypeOK
  <2>4. CASE StateAdvanced(mem[s], next)
    <3>1. WriteFile([symbol |-> s, ts |-> ts, state |-> next], "line")
      BY <1>6, <2>4 DEF RunEngine
    <3>2. /\ eol' = TRUE
          /\ file' \in Seq(Record)
          /\ Ordered(file')
          /\ Restored(file', s) = next
          /\ RestoredTs(file', s) = ts
          /\ RecordLines(file', s) # {}
          /\ \A q \in Symbol \ {s} :
               /\ Restored(file', q) = Restored(file, q)
               /\ RestoredTs(file', q) = RestoredTs(file, q)
      BY <2>1, <2>2, <3>1, LineIsTaken
    <3>3. InMemory'
      BY <2>1, <2>3, <3>2 DEF InMemory
    <3>. QED  BY <2>1, <3>2, <3>3 DEF Relied
  <2>5. CASE ~StateAdvanced(mem[s], next)
    <3>1. FileKept /\ next = mem[s]
      BY <1>6, <2>5 DEF RunEngine, FileKept, fileVars, StateAdvanced
    <3>2. InMemory'
      <4>1. RestoredTs(file, s) <= ts
        <5>1. mem[s] # NoState  BY <2>2, <3>1, NoStateIsNone
        <5>2. RestoredTs(file, s) \in Nat
          BY RestoredType DEF TypeInv, TypeOK, File
        <5>. QED  BY <2>1, <2>3, <5>1, <5>2 DEF InOrder, InMemory
      <4>. QED  BY <2>1, <2>3, <3>1, <4>1, KeptFile DEF InMemory
    <3>3. RecordLines(file, s) # {}
      BY <2>1, <2>2, <3>1, NoStateIsNone DEF InMemory, Restored
    <3>. QED  BY <2>1, <3>1, <3>2, <3>3, KeptFile DEF FileKept, Relied
  <2>. QED  BY <2>4, <2>5
<1>7. ASSUME NEW s \in Symbol, NEW ts \in Time, NEW o \in Inputs[s], NEW end \in AppendEnds,
             RunEngineAppendFails(s, ts, o, end)
      PROVE  DurableInv'
  <2>. DEFINE next == Advance(mem[s], o, window)
  <2>1. /\ proc = "running" /\ proc' = "halted" /\ InOrder(s, ts)
        /\ UNCHANGED <<result, published>>
        /\ WriteFile([symbol |-> s, ts |-> ts, state |-> next], end)
    BY <1>7 DEF RunEngineAppendFails, Runnable
  <2>2. next \in HState
    BY InputsType, NextType DEF TypeInv
  <2>3. CASE end = "nothing"
    <3>1. FileKept  BY <2>1, <2>3 DEF WriteFile, Written, Ended, FileKept
    <3>. QED  BY <2>1, <3>1, KeptFile DEF FileKept, InMemory, Relied
  <2>4. CASE end = "line"
    <3>1. /\ eol' = TRUE
          /\ file' \in Seq(Record)
          /\ Ordered(file')
          /\ RecordLines(file', s) # {}
      BY <2>1, <2>2, <2>4, LineIsTaken
    <3>. QED  BY <2>1, <3>1 DEF InMemory, Relied
  <2>. QED  BY <2>3, <2>4 DEF AtomicAppends
<1>. QED  BY <1>1, <1>2, <1>3, <1>4, <1>5, <1>6, <1>7 DEF Next

LEMMA DurableInvHolds == ASSUME AtomicAppends PROVE Spec => [](TypeInv /\ DurableInv)
<1>1. Init => TypeInv /\ DurableInv
  <2>. SUFFICES ASSUME Init PROVE DurableInv  BY TypeInvInit
  <2>1. \A s \in Symbol : RecordLines(file, s) = {}  BY DEF Init, RecordLines
  <2>2. file \in Seq(Record) /\ Ordered(file)  BY DEF Init, Ordered
  <2>3. InMemory  BY DEF Init, InMemory
  <2>4. Relied  BY DEF Init, Relied
  <2>. QED  BY <2>1, <2>2, <2>3, <2>4 DEF Init, DurableInv
<1>2. TypeInv /\ DurableInv /\ [Next]_vars => (TypeInv /\ DurableInv)'
  BY TypeInvStep, DurableInvStep
<1>. QED  BY <1>1, <1>2, PTL DEF Spec

(* On a medium that takes a line whole or not at all, what run_engine and a      *)
(* restart make of the file is what is in memory, records stay in the order of   *)
(* time, and a file a consumer relies on is never refused; however appends fail  *)
(* and wherever the process dies.                                                *)
THEOREM FileStaysEnough == ASSUME AtomicAppends PROVE Spec => []FileIsEnough
<1>1. TypeInv /\ DurableInv => FileIsEnough
  <2>. SUFFICES ASSUME TypeInv, DurableInv PROVE FileIsEnough  OBVIOUS
  <2>1. MemoryIsDurable  BY DEF DurableInv, InMemory, MemoryIsDurable, Durable
  <2>2. FileInTimeOrder  BY DEF DurableInv, Ordered, FileInTimeOrder
  <2>3. RefusalLosesNothing  BY DEF DurableInv, Relied, RefusalLosesNothing
  <2>. QED  BY <2>1, <2>2, <2>3 DEF FileIsEnough
<1>. QED  BY <1>1, DurableInvHolds, PTL

(* What a step does to the state of each symbol that a restart would take:       *)
(* nothing, though an opinion may have been counted, or one hysteresis step of   *)
(* one symbol, under the window there is.                                        *)
LEMMA DurableSteps ==
  ASSUME AtomicAppends, TypeInv, DurableInv, [Next]_vars
  PROVE  \/ /\ \A s \in Symbol : Durable(s)' = Durable(s)
            /\ \/ UNCHANGED support
               \/ \E s \in Symbol, o \in Opinion :
                    proc = "running" /\ Durable(s) = mem[s] /\ Supported(s, o, FALSE)
         \/ \E s \in Symbol, o \in Opinion :
              /\ proc = "running"
              /\ Durable(s) = mem[s]
              /\ Durable(s)' = Advance(mem[s], o, window)
              /\ \A q \in Symbol \ {s} : Durable(q)' = Durable(q)
              /\ Supported(s, o, Advance(mem[s], o, window).anchor # mem[s].anchor)
<1>. DEFINE Same == \A s \in Symbol : Durable(s)' = Durable(s)
            Told(s, o) == proc = "running" /\ Durable(s) = mem[s] /\ Supported(s, o, FALSE)
            Moved(s, o) == /\ proc = "running"
                           /\ Durable(s) = mem[s]
                           /\ Durable(s)' = Advance(mem[s], o, window)
                           /\ \A q \in Symbol \ {s} : Durable(q)' = Durable(q)
                           /\ Supported(s, o, Advance(mem[s], o, window).anchor # mem[s].anchor)
<1>1. ASSUME FileKept PROVE Same
  BY <1>1, KeptFile DEF Durable
<1>2. ASSUME NEW s \in Symbol, NEW ts \in Time, NEW o \in Opinion,
             proc = "running", InOrder(s, ts),
             WriteFile([symbol |-> s, ts |-> ts, state |-> Advance(mem[s], o, window)], "line"),
             Supported(s, o, Advance(mem[s], o, window).anchor # mem[s].anchor)
      PROVE  Moved(s, o)
  <2>1. Advance(mem[s], o, window) \in HState
    BY NextType DEF TypeInv
  <2>2. /\ Restored(file', s) = Advance(mem[s], o, window)
        /\ \A q \in Symbol \ {s} : Restored(file', q) = Restored(file, q)
    BY <1>2, <2>1, LineIsTaken
  <2>3. mem[s] = Restored(file, s)  BY <1>2 DEF DurableInv, InMemory
  <2>. QED  BY <1>2, <2>2, <2>3 DEF Durable
<1>3. CASE UNCHANGED vars \/ Start \/ Crash \/ Publish
  <2>1. UNCHANGED support /\ FileKept
    BY <1>3 DEF vars, Start, Crash, Publish, FileKept
  <2>. QED  BY <1>1, <2>1
<1>4. ASSUME NEW s \in Symbol, NEW ts \in Time, RunOutOfOrder(s, ts)
      PROVE  Same /\ UNCHANGED support
  BY <1>1, <1>4 DEF RunOutOfOrder, FileKept
<1>5. ASSUME NEW s \in Symbol, NEW ts \in Time, NEW o \in Inputs[s], RunEngine(s, ts, o)
      PROVE  (Same /\ Told(s, o)) \/ Moved(s, o)
  <2>1. CASE StateAdvanced(mem[s], Advance(mem[s], o, window))
    BY <1>2, <1>5, <2>1, InputsType DEF RunEngine, Runnable
  <2>2. CASE ~StateAdvanced(mem[s], Advance(mem[s], o, window))
    <3>1. FileKept /\ proc = "running" /\ Supported(s, o, FALSE)
      BY <1>5, <2>2 DEF RunEngine, Runnable, fileVars, FileKept, StateAdvanced, Supported
    <3>. QED  BY <1>1, <3>1 DEF DurableInv, InMemory, Durable
  <2>. QED  BY <2>1, <2>2
<1>6. ASSUME NEW s \in Symbol, NEW ts \in Time, NEW o \in Inputs[s], NEW end \in AppendEnds,
             RunEngineAppendFails(s, ts, o, end)
      PROVE  (Same /\ Told(s, o)) \/ Moved(s, o)
  <2>1. CASE end = "nothing"
    <3>1. FileKept /\ proc = "running" /\ Supported(s, o, FALSE)
      BY <1>6, <2>1 DEF RunEngineAppendFails, Runnable, WriteFile, Written, Ended, FileKept, Supported
    <3>. QED  BY <1>1, <3>1 DEF DurableInv, InMemory, Durable
  <2>2. CASE end = "line"
    <3>1. Supported(s, o, Advance(mem[s], o, window).anchor # mem[s].anchor)
      BY <1>6, <2>2 DEF RunEngineAppendFails, Supported
    <3>. QED  BY <1>2, <1>6, <2>2, <3>1, InputsType DEF RunEngineAppendFails, Runnable
  <2>. QED  BY <2>1, <2>2 DEF AtomicAppends
<1>. QED  BY <1>3, <1>4, <1>5, <1>6, InputsType DEF Next

(* The abstract machine has copies of the rules; they are the same rules. *)
LEMMA SameRules ==
  /\ Machine!NoState = NoState
  /\ Machine!Opinion = Opinion
  /\ \A h, o, w : Machine!Advance(h, o, w) = Advance(h, o, w)
<1>1. Machine!Regime = Regime /\ Machine!NoRegime = NoRegime /\ Machine!NoState = NoState
  BY DEF Machine!Regime, Regime, Machine!NoRegime, NoRegime, Machine!NoState, NoState
<1>2. \A o : Machine!Belief(o) = Belief(o) /\ Machine!RunAnchor(o) = RunAnchor(o)
  BY <1>1 DEF Machine!Belief, Belief, Machine!RunAnchor, RunAnchor
<1>3. \A b : Machine!TopRegime(b) = TopRegime(b)
  BY <1>1 DEF Machine!TopRegime, TopRegime
<1>4. \A h, o : /\ Machine!AnchorOf(h, o) = AnchorOf(h, o)
               /\ Machine!Candidate(h, o) = Candidate(h, o)
  BY <1>1, <1>2, <1>3 DEF Machine!AnchorOf, AnchorOf, Machine!Candidate, Candidate
<1>5. \A h, o : Machine!Eligible(h, o) <=> Eligible(h, o)
  BY <1>1, <1>2, <1>4 DEF Machine!Eligible, Eligible
<1>6. \A h, c, w : Machine!Gain(h, c, w) = Gain(h, c, w) /\ Machine!Decay(h) = Decay(h)
  BY <1>1 DEF Machine!Gain, Gain, Machine!Decay, Decay, Machine!Lesser, Lesser,
              Machine!Greater, Greater
<1>7. \A h, o, w : Machine!Counted(h, o, w) = Counted(h, o, w)
  BY <1>4, <1>5, <1>6 DEF Machine!Counted, Counted
<1>8. \A c, o, w : Machine!Commits(c, o, w) <=> Commits(c, o, w)
  BY <1>1, <1>2 DEF Machine!Commits, Commits
<1>9. \A h, o, w : Machine!Advance(h, o, w) = Advance(h, o, w)
  BY <1>1, <1>4, <1>7, <1>8 DEF Machine!Advance, Advance, Machine!Lesser, Lesser
<1>. QED  BY <1>1, <1>9 DEF Machine!Opinion, Opinion

(* Seen through the file, EngineRunner.run_engine, its failures and restarts are  *)
(* the abstract hysteresis machine, on a medium that takes lines whole.          *)
THEOREM ImplementsMachine == ASSUME AtomicAppends PROVE Spec => IsHysteresisMachine
<1>. DEFINE st == [s \in Symbol |-> Durable(s)]
<1>1. Init => Machine!Init
  <2>1. Init => \A s \in Symbol : Durable(s) = NoState
    BY DEF Init, Durable, Restored, RecordLines
  <2>. QED  BY <2>1, SameRules DEF Machine!Init
<1>2. ASSUME TypeInv, DurableInv, [Next]_vars
      PROVE  Machine!Next \/ UNCHANGED st
  <2>1. CASE \A s \in Symbol : Durable(s)' = Durable(s)
    BY <2>1
  <2>2. ASSUME NEW s \in Symbol, NEW o \in Opinion,
               Durable(s) = mem[s], Durable(s)' = Advance(mem[s], o, window),
               \A q \in Symbol \ {s} : Durable(q)' = Durable(q)
        PROVE  Machine!Next
    <3>1. window \in 1..MaxWindow  BY <1>2 DEF TypeInv, TypeOK, Windows
    <3>2. st' = [st EXCEPT ![s] = Advance(st[s], o, window)]  BY <2>2
    <3>3. Machine!Step(s, o, window)  BY <3>2, SameRules DEF Machine!Step
    <3>. QED  BY <3>1, <3>3, SameRules DEF Machine!Next
  <2>. QED  BY <1>2, <2>1, <2>2, DurableSteps
<1>3. TypeInv /\ DurableInv /\ [Next]_vars => [Machine!Next]_st
  BY <1>2
<1>. QED  BY <1>1, <1>3, DurableInvHolds, PTL DEF Spec, IsHysteresisMachine, Machine!Spec

----
(* Progress and commits are earned.  The invariant counts along: the progress of  *)
(* the candidate in the file is covered by the support of its opinions.          *)

Earned(d, sup) ==
  d.candidate # NoRegime => d.candidate # d.anchor /\ d.progress <= sup[d.candidate]

EarnedInv ==
  \A s \in Symbol :
    /\ Earned(Durable(s), support[s])
    /\ \A r \in Regime : support[s][r] <= MaxWindow

(* Counting an opinion covers what it earns its candidate; no other support falls. *)
LEMMA CountingCovers ==
  ASSUME TypeOK, NEW s \in Symbol, NEW o \in Opinion,
         Earned(mem[s], support[s]), \A r \in Regime : support[s][r] <= MaxWindow
  PROVE  LET c == Counted(mem[s], o, window)
         IN  /\ Tally(s, o) \in [Regime -> Nat]
             /\ \A r \in Regime : support[s][r] <= Tally(s, o)[r] /\ Tally(s, o)[r] <= MaxWindow
             /\ c.candidate # NoRegime =>
                  /\ c.candidate \in Regime
                  /\ c.candidate # AnchorOf(mem[s], o)
                  /\ c.progress \in Nat
                  /\ c.progress <= Tally(s, o)[c.candidate]
                  /\ c.progress <= support[s][c.candidate] + 1
<1>. DEFINE h == mem[s]
            c == Counted(h, o, window)
<1>1. /\ support[s] \in [Regime -> Nat] /\ MaxWindow \in Nat \ {0}
      /\ window \in Nat /\ window <= MaxWindow
      /\ h \in HState \cup {NoState}
  BY StoreAssumption DEF TypeOK, Windows
<1>2. \A r \in Regime : support[s][r] \in Nat /\ support[s][r] <= MaxWindow
  BY <1>1
<1>3. ASSUME NEW r \in Regime
      PROVE  /\ Tally(s, o)[r] \in Nat
             /\ support[s][r] <= Tally(s, o)[r] /\ Tally(s, o)[r] <= MaxWindow
  BY <1>1, <1>2 DEF Tally, Lesser
<1>4. Tally(s, o) \in [Regime -> Nat]
  BY <1>3 DEF Tally
<1>5. h.candidate \in Regime \cup {NoRegime} /\ h.progress \in Nat
  BY <1>1 DEF HState, NoState
<1>6. CASE Eligible(h, o)
  <2>. DEFINE k == Candidate(h, o)
  <2>1. k \in Regime /\ k # AnchorOf(h, o)
    BY <1>6, TopRegimeType DEF Eligible, Candidate
  <2>2. c.candidate = k /\ c.progress = IF h.candidate = k THEN Lesser(h.progress + 1, window) ELSE 1
    BY <1>6 DEF Counted, Gain
  <2>3. Tally(s, o)[k] = Lesser(support[s][k] + 1, MaxWindow)
    BY <1>6, <2>1 DEF Tally
  <2>4. k # NoRegime  BY <2>1 DEF Regime, NoRegime
  <2>5. h.candidate = k => h.progress <= support[s][k]
    BY <2>4 DEF Earned
  <2>6. support[s][k] \in Nat  BY <1>2, <2>1
  <2>7. c.progress \in Nat /\ c.progress <= Lesser(support[s][k] + 1, MaxWindow)
    BY <1>1, <1>5, <2>2, <2>5, <2>6 DEF Lesser
  <2>8. Lesser(support[s][k] + 1, MaxWindow) <= support[s][k] + 1
    BY <1>1, <2>6 DEF Lesser
  <2>9. c.progress <= support[s][k] + 1
    BY <1>1, <2>6, <2>7, <2>8 DEF Lesser
  <2>. HIDE DEF c, k
  <2>. QED  BY <1>3, <1>4, <2>1, <2>2, <2>3, <2>7, <2>9 DEF c
<1>7. CASE ~Eligible(h, o)
  <2>1. c.candidate \in {NoRegime, h.candidate} /\ c.progress \in Nat /\ c.progress <= h.progress
    BY <1>5, <1>7, ThresholdsAssumption DEF Counted, Decay, Greater
  <2>2. ASSUME c.candidate # NoRegime
        PROVE  /\ c.candidate \in Regime
               /\ c.candidate # AnchorOf(h, o)
               /\ c.progress <= support[s][c.candidate]
    <3>1. c.candidate = h.candidate /\ h.candidate \in Regime
      BY <1>5, <2>1, <2>2
    <3>2. h # NoState  BY <2>2, <3>1 DEF NoState
    <3>3. h.candidate # h.anchor /\ h.progress <= support[s][h.candidate]
      BY <2>2, <3>1 DEF Earned
    <3>4. support[s][h.candidate] \in Nat  BY <1>2, <3>1
    <3>. HIDE DEF c
    <3>. QED  BY <1>5, <2>1, <3>1, <3>2, <3>3, <3>4 DEF AnchorOf
  <2>3. ASSUME c.candidate # NoRegime
        PROVE  c.progress <= Tally(s, o)[c.candidate] /\ c.progress <= support[s][c.candidate] + 1
    <3>. HIDE DEF c
    <3>. QED  BY <1>2, <1>3, <2>1, <2>2, <2>3
  <2>. HIDE DEF c
  <2>. QED  BY <1>3, <1>4, <2>1, <2>2, <2>3 DEF c
<1>. QED  BY <1>6, <1>7

LEMMA EarnedInvStep ==
  ASSUME AtomicAppends, TypeInv, DurableInv, EarnedInv, [Next]_vars
  PROVE  EarnedInv'
<1>1. TypeOK /\ support \in [Symbol -> [Regime -> Nat]]
  BY DEF TypeInv, TypeOK
<1>2. ASSUME NEW s \in Symbol
      PROVE  Durable(s) \in HState \cup {NoState}
  BY RestoredType DEF Durable, TypeInv, TypeOK, File
<1>3. ASSUME NEW s \in Symbol, NEW o \in Opinion, Durable(s) = mem[s]
      PROVE  /\ Earned(mem[s], support[s])
             /\ \A r \in Regime : support[s][r] <= MaxWindow
  BY <1>3 DEF EarnedInv
<1>4. CASE UNCHANGED support /\ \A s \in Symbol : Durable(s)' = Durable(s)
  BY <1>4 DEF EarnedInv, Earned
<1>5. ASSUME \A s \in Symbol : Durable(s)' = Durable(s),
             NEW s \in Symbol, NEW o \in Opinion, Durable(s) = mem[s], Supported(s, o, FALSE)
      PROVE  EarnedInv'
  <2>1. support' = [support EXCEPT ![s] = Tally(s, o)]
    BY <1>5 DEF Supported
  <2>2. \A r \in Regime : support[s][r] <= Tally(s, o)[r] /\ Tally(s, o)[r] <= MaxWindow
    BY <1>1, <1>3, <1>5, CountingCovers
  <2>3. Earned(Durable(s), Tally(s, o))
    <3>1. Earned(Durable(s), support[s])  BY DEF EarnedInv
    <3>2. ASSUME Durable(s).candidate # NoRegime
          PROVE  Durable(s).progress <= Tally(s, o)[Durable(s).candidate]
      <4>1. Durable(s).candidate \in Regime /\ Durable(s).progress \in Nat
        BY <1>2, <3>2 DEF HState, NoState
      <4>2. support[s][Durable(s).candidate] \in Nat /\ Tally(s, o)[Durable(s).candidate] \in Nat
        BY <1>1, <1>3, <1>5, <4>1, CountingCovers
      <4>. QED  BY <2>2, <3>1, <3>2, <4>1, <4>2 DEF Earned
    <3>. QED  BY <3>1, <3>2 DEF Earned
  <2>4. \A q \in Symbol : support'[q] = IF q = s THEN Tally(s, o) ELSE support[q]
    BY <1>1, <2>1
  <2>. QED  BY <1>5, <2>2, <2>3, <2>4 DEF EarnedInv, Earned
<1>6. ASSUME NEW s \in Symbol, NEW o \in Opinion, Durable(s) = mem[s],
             Durable(s)' = Advance(mem[s], o, window),
             \A q \in Symbol \ {s} : Durable(q)' = Durable(q),
             Supported(s, o, Advance(mem[s], o, window).anchor # mem[s].anchor)
      PROVE  EarnedInv'
  <2>. DEFINE c == Counted(mem[s], o, window)
              next == Advance(mem[s], o, window)
  <2>1. /\ Tally(s, o) \in [Regime -> Nat]
        /\ \A r \in Regime : Tally(s, o)[r] <= MaxWindow
        /\ c.candidate # NoRegime =>
             /\ c.candidate \in Regime
             /\ c.candidate # AnchorOf(mem[s], o)
             /\ c.progress \in Nat
             /\ c.progress <= Tally(s, o)[c.candidate]
    BY <1>1, <1>3, <1>6, CountingCovers
  <2>2. window \in Nat /\ MaxWindow \in Nat  BY StoreAssumption DEF TypeInv, TypeOK, Windows
  <2>3. next.candidate # NoRegime =>
          /\ next.anchor = AnchorOf(mem[s], o) /\ next.candidate = c.candidate
          /\ next.progress = Lesser(c.progress, window)
    BY DEF Advance
  <2>4. Earned(next, Tally(s, o))
    <3>. HIDE DEF c, next
    <3>1. ASSUME next.candidate # NoRegime
          PROVE  next.progress <= Tally(s, o)[next.candidate]
      <4>1. Tally(s, o)[c.candidate] \in Nat  BY <2>1, <2>3, <3>1
      <4>2. next.progress = Lesser(c.progress, window)  BY <2>3, <3>1
      <4>3. next.progress <= c.progress /\ next.progress \in Nat
        BY <2>1, <2>2, <2>3, <3>1, <4>2 DEF Lesser
      <4>. QED  BY <2>1, <2>3, <3>1, <4>1, <4>3
    <3>. QED  BY <2>1, <2>3, <3>1 DEF Earned
  <2>5. next.anchor # mem[s].anchor => next.candidate = NoRegime \/ mem[s] = NoState
    BY DEF Advance, AnchorOf
  <2>6. mem[s] = NoState => next.candidate = NoRegime
    <3>1. ASSUME mem[s] = NoState PROVE Candidate(mem[s], o) = NoRegime
      <4>1. AnchorOf(mem[s], o) = RunAnchor(o)  BY <3>1 DEF AnchorOf
      <4>2. TopRegime(Belief(o)) = RunAnchor(o)  BY TopOfRun
      <4>. QED  BY <4>1, <4>2 DEF Candidate
    <3>2. ASSUME mem[s] = NoState PROVE c.candidate = NoRegime
      BY <3>1, <3>2 DEF Counted, Eligible, Decay, NoState
    <3>. QED  BY <3>2 DEF Advance
  <2>7. Earned(next, NoSupport) \/ next.anchor = mem[s].anchor
    BY <2>5, <2>6 DEF Earned
  <2>8. \A r \in Regime : NoSupport[r] <= MaxWindow
    BY <2>2 DEF NoSupport
  <2>. HIDE DEF next
  <2>9. support' = [support EXCEPT ![s] = IF next.anchor # mem[s].anchor THEN NoSupport ELSE Tally(s, o)]
    BY <1>6 DEF Supported, next
  <2>10. /\ Durable(s)' = next
         /\ Earned(next, support'[s])
         /\ \A r \in Regime : support'[s][r] <= MaxWindow
    BY <1>1, <1>6, <2>1, <2>4, <2>7, <2>8, <2>9 DEF next
  <2>11. \A q \in Symbol \ {s} : support'[q] = support[q] /\ Durable(q)' = Durable(q)
    BY <1>1, <1>6, <2>9
  <2>. QED  BY <2>10, <2>11 DEF EarnedInv, Earned
<1>. QED  BY <1>4, <1>5, <1>6, DurableSteps

LEMMA EarnedInvHolds == ASSUME AtomicAppends PROVE Spec => []EarnedInv
<1>1. Init => EarnedInv
  <2>. SUFFICES ASSUME Init PROVE EarnedInv  OBVIOUS
  <2>1. \A s \in Symbol : Durable(s) = NoState
    BY DEF Init, Durable, Restored, RecordLines
  <2>2. \A s \in Symbol, r \in Regime : support[s][r] <= MaxWindow
    BY StoreAssumption DEF Init, NoSupport
  <2>. QED  BY <2>1, <2>2 DEF EarnedInv, Earned, NoState
<1>2. TypeInv /\ DurableInv /\ EarnedInv /\ [Next]_vars => EarnedInv'
  BY EarnedInvStep
<1>. QED  BY <1>1, <1>2, DurableInvHolds, PTL DEF Spec

(* A candidate's progress in the file is at most the number of eligible opinions  *)
(* EngineRunner.run_engine counted for it since the anchor was set, across failed *)
(* appends, crashes and restarts with any window.                                *)
THEOREM ProgressStaysEarned == ASSUME AtomicAppends PROVE Spec => []ProgressIsEarned
<1>1. EarnedInv => ProgressIsEarned
  BY DEF EarnedInv, Earned, ProgressIsEarned
<1>. QED  BY <1>1, EarnedInvHolds, PTL

(* The anchor a restart would begin with changes only with as many eligible       *)
(* opinions behind the new one as advance_hysteresis asks for.                   *)
THEOREM SwitchesAreSupported == ASSUME AtomicAppends PROVE Spec => SwitchIsSupported
<1>. DEFINE Covered == \A s \in Symbol :
              LET old == Durable(s).anchor
                  new == Durable(s)'.anchor
              IN  old # new /\ old # NoRegime => support[s][new] + 1 >= window
<1>1. ASSUME TypeInv, DurableInv, EarnedInv, [Next]_vars
      PROVE  Covered
  <2>1. CASE \A s \in Symbol : Durable(s)' = Durable(s)
    BY <2>1
  <2>2. ASSUME NEW s \in Symbol, NEW o \in Opinion, Durable(s) = mem[s],
               Durable(s)' = Advance(mem[s], o, window),
               \A q \in Symbol \ {s} : Durable(q)' = Durable(q)
        PROVE  Covered
    <3>. DEFINE c == Counted(mem[s], o, window)
    <3>. SUFFICES ASSUME Durable(s).anchor # Durable(s)'.anchor, Durable(s).anchor # NoRegime
                  PROVE  support[s][Durable(s)'.anchor] + 1 >= window
      BY <2>2
    <3>1. mem[s] # NoState /\ AnchorOf(mem[s], o) = mem[s].anchor
      BY <2>2 DEF NoState, AnchorOf
    <3>2. Commits(c, o, window) /\ Durable(s)'.anchor = c.candidate
      BY <2>2, <3>1 DEF Advance
    <3>3. c.candidate # NoRegime /\ c.progress >= window
      BY <3>2 DEF Commits
    <3>4. TypeOK /\ Earned(mem[s], support[s]) /\ \A r \in Regime : support[s][r] <= MaxWindow
      BY <1>1, <2>2 DEF TypeInv, EarnedInv
    <3>5. /\ c.candidate \in Regime /\ c.progress \in Nat
          /\ c.progress <= support[s][c.candidate] + 1
      BY <3>3, <3>4, CountingCovers
    <3>6. support[s][c.candidate] \in Nat /\ window \in Nat
      BY <3>4, <3>5, StoreAssumption DEF TypeOK, Windows
    <3>. HIDE DEF c
    <3>. QED  BY <3>2, <3>3, <3>5, <3>6
  <2>. QED  BY <1>1, <2>1, <2>2, DurableSteps
<1>2. TypeInv /\ DurableInv /\ EarnedInv /\ [Next]_vars => [Covered]_vars
  BY <1>1
<1>. QED  BY <1>2, DurableInvHolds, EarnedInvHolds, PTL DEF Spec, SwitchIsSupported
====
