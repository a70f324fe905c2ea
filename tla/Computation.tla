---- MODULE Computation ----
(* The path of market data through the system: messages of several adapters are *)
(* decoded into one buffer, and at every tick the records of each symbol since  *)
(* its last run become features, evidence, a regime and a hysteresis step.      *)
(*                                                                             *)
(* Decoding, Features, Evidence, RegimeEngine and HysteresisRules say what each  *)
(* stage computes; here they are put together.  A tick is one step: what threads *)
(* may do in the middle of one is the subject of Orchestrator.                  *)
EXTENDS RegimeEngine

CONSTANTS
  Symbols,           \* the symbols there are
  Feeds,             \* what the sources send: for each adapter, a sequence of messages
  Cadence,           \* from one engine timestamp to the next
  MaxTick,           \* how many ticks there are
  HysteresisWindow,  \* HysteresisConfig.window_updates
  Orders(_)          \* the orders the records at a set of places might have come in

ASSUME ComputationAssumption ==
  /\ Cadence \in Nat \ {0}
  /\ MaxTick \in Nat
  /\ HysteresisWindow \in Nat \ {0}
  /\ \A f \in Feeds : \A l \in DOMAIN f :
       Len(f[l]) \in Nat /\ \A n \in 1..Len(f[l]) : IsMessage(f[l][n])
  /\ None \notin [symbol : Symbols, timestamp : Int, opinions : SUBSET EngineOpinions]

VARIABLES
  feed,     \* what is sent in this behaviour
  taken,    \* how many messages of each adapter were received
  buffer,   \* RawInputBuffer: the records with the message each is of
  clock,    \* how many ticks there were
  runs,     \* the runs of each symbol, with all that was computed in them
  memory    \* the hysteresis state of each symbol

vars == <<feed, taken, buffer, clock, runs, memory>>

Lanes == DOMAIN feed

Init ==
  /\ feed \in Feeds
  /\ taken = [l \in DOMAIN feed |-> 0]
  /\ buffer = <<>>
  /\ clock = 0
  /\ runs = [s \in Symbols |-> <<>>]
  /\ memory = [s \in Symbols |-> NoState]

\* A message of an adapter is decoded and its records ingested, one by one, up to
\* one that the contract refuses: there ingest raises and the rest is lost.
Receive(l) ==
  /\ taken[l] < Len(feed[l])
  /\ LET m == feed[l][taken[l] + 1]
         es == Decoded(m)
     IN  buffer' = buffer \o
           [i \in 1..Written(es) |->
              [symbol |-> m.symbol, type |-> es[i].type, ts |-> es[i].ts, body |-> es[i].body,
               message |-> <<l, taken[l] + 1>>]]
  /\ taken' = [taken EXCEPT ![l] = @ + 1]
  /\ UNCHANGED <<feed, clock, runs, memory>>

\* The records of a symbol from its last run to the end of the buffer.
LastRead(s) == IF runs[s] = <<>> THEN 0 ELSE runs[s][Len(runs[s])].last
CutOf(s, first, last) == [i \in {k \in first..last : buffer[k].symbol = s} |-> buffer[i]]
Cut(s) == CutOf(s, LastRead(s) + 1, Len(buffer))

Snapshot(s, t) ==
  LET fs == FeatureSnapshot(Cut(s), s, t)
  IN  Embed(Shell(Cut(s), s, t), EvidenceSnapshot(fs, s, t))

\* run_engine in hysteresis mode: an output that cannot be explained raises, and
\* the memory stays as it was; else it takes its step.
Stepped(s, t) ==
  IF Explained(RunPipeline(Snapshot(s, t)))
  THEN Advance(memory[s], RunOpinion(Snapshot(s, t)), HysteresisWindow)
  ELSE memory[s]

RunOf(s, t) ==
  [ts |-> t, first |-> LastRead(s) + 1, last |-> Len(buffer),
   features |-> FeatureSnapshot(Cut(s), s, t),
   output |-> RunPipeline(Snapshot(s, t)),
   anchor |-> Stepped(s, t).anchor]

\* A symbol gets its first run when the buffer has a record of it, and from then on
\* whenever the buffer has grown, if only by records of other symbols: then its cut
\* holds none, and the run is one on no data at all.
Tick ==
  /\ clock < MaxTick
  /\ clock' = clock + 1
  /\ LET t == Cadence * clock'
         due == {s \in Symbols : IF runs[s] = <<>> THEN DOMAIN Cut(s) # {} ELSE LastRead(s) < Len(buffer)}
     IN  /\ runs' = [s \in Symbols |-> IF s \in due THEN Append(runs[s], RunOf(s, t)) ELSE runs[s]]
         /\ memory' = [s \in Symbols |-> IF s \in due THEN Stepped(s, t) ELSE memory[s]]
  /\ UNCHANGED <<feed, taken, buffer>>

\* The sources are silent and no tick is left.
Done ==
  /\ clock = MaxTick
  /\ \A l \in Lanes : taken[l] = Len(feed[l])
  /\ UNCHANGED vars

Next == (\E l \in Lanes : Receive(l)) \/ Tick \/ Done

Spec == Init /\ [][Next]_vars
-----------------------------------------------------------------------------
AllRuns == {x \in Symbols \X (1..MaxTick) : x[2] <= Len(runs[x[1]])}
Run(x) == runs[x[1]][x[2]]

\* Missing and spoilt values in the messages, NaN among them, stay out of the
\* features, opinions stay within their bounds, outputs are explained.  Sums are
\* those of integers here; where floats run out of range is what FloatSums shows.
TypeOK ==
  /\ \A l \in Lanes : taken[l] \in 0..Len(feed[l])
  /\ clock \in 0..MaxTick
  /\ \A s \in Symbols : memory[s] = NoState \/ memory[s] \in HState
  /\ \A x \in AllRuns :
       /\ Run(x).features \in FeatureRecord
       /\ \A o \in Opinions(Run(x).features) : Named(o) /\ Bounded(o)
       /\ Explained(Run(x).output)
       /\ Run(x).output.confidence \in 0..100

MessageOf(i) == feed[buffer[i].message[1]][buffer[i].message[2]]
Sent(i, key) == Value(MessageOf(i), key)
RecordsOf(l, n) == {i \in DOMAIN buffer : buffer[i].message = <<l, n>>}

\* No message is lost on the way in, whatever is wrong with it: one that can be
\* read leaves a record for every event its stream has, one that cannot leaves a
\* DecodeFailure.  So what a decoder makes must have every key the contract of
\* its type asks for; ingest would raise on it.
MessagesAreOnRecord ==
  \A l \in Lanes : \A n \in 1..taken[l] :
    LET m == feed[l][n]
    IN  Cardinality(RecordsOf(l, n)) = IF Readable(m) THEN Len(LayoutOf(m).parts) ELSE 1

\* What a trade's message says in its own terms: an aggTrade whether the buyer was
\* the maker, a TradeTick of the contract the side itself.
Said(i) ==
  IF MessageOf(i).via = "aggTrade"
  THEN [quantity |-> Sent(i, "q").n, price |-> Sent(i, "p").n, time |-> Sent(i, "T").n,
        side |-> IF Sent(i, "m").is \notin {"bool", "boolText"} THEN "unknown"
                 ELSE IF Sent(i, "m").n = 1 THEN "sold" ELSE "bought"]
  ELSE [quantity |-> Sent(i, "quantity").n, price |-> Sent(i, "price").n, time |-> MessageOf(i).at,
        side |-> IF Sent(i, "side").is # "sideText" THEN "unknown"
                 ELSE IF Sent(i, "side").n = -1 THEN "sold" ELSE "bought"]

\* The trades of a run, taken from what was sent: with a quantity, stamped within
\* the window of the run.  Those of a known side count for the flow.
Traded3m(x) ==
  {i \in Run(x).first..Run(x).last :
     /\ buffer[i].symbol = x[1] /\ buffer[i].type = "TradeTick"
     /\ Said(i).quantity \in Nat \ {0}
     /\ Said(i).time # None /\ Run(x).ts - Said(i).time \in 0..Window}
Counted3m(x) == {i \in Traded3m(x) : Said(i).side # "unknown"}
Volume(S) == SumOver([i \in S |-> Said(i).quantity], S)

\* The flow of a run is what its trade messages say, seen from their side: bought
\* less sold, among those of the window and no other; the ratio tells the same
\* story as the flow, and the vwap lies among the prices that were paid.
FlowIsTheTrades ==
  \A x \in AllRuns :
    LET fs == Run(x).features
        T == Counted3m(x)
        bought == Volume({i \in T : Said(i).side = "bought"})
        sold == Volume({i \in T : Said(i).side = "sold"})
        prices == {Said(i).price : i \in Traded3m(x)} \ {NaN}
    IN  /\ fs.cvd_3m = IF T = {} THEN None ELSE bought - sold
        /\ fs.aggressive_volume_ratio_3m =
             IF T = {} THEN None ELSE [bought |-> bought, traded |-> bought + sold]
        /\ prices # {} =>
             /\ fs.vwap_3m.notional >= Min(prices) * fs.vwap_3m.quantity
             /\ fs.vwap_3m.notional <= Max(prices) * fs.vwap_3m.quantity

\* An order of a set of places, each taken once, and the records of a cut put in it.
IsOrder(p, S) == p \in [S -> S] /\ \A j \in S : \E i \in S : p[i] = j
Rearranged(es, p) == [i \in DOMAIN es |-> es[p[i]]]

\* Two records of a type that carry the same exchange time, or none.
Tied(es, s, type) == \E i, j \in OfType(es, s, type) : i # j /\ es[i].ts = es[j].ts

\* What the order of the records can do to run r of s: it decides the last price, which
\* follows the buffer, and among records of one exchange time.  Neither other symbols'
\* records nor what is stamped after the run, open interest excepted, have a part in it.
OrderBreaksTies(s, r) ==
  LET t == r.ts
      fs == r.features
      slice == [i \in r.first..r.last |-> buffer[i]]
      known == [i \in {j \in DOMAIN slice : \/ slice[j].ts = None \/ slice[j].ts <= t
                                           \/ slice[j].type = "OpenInterest"} |-> buffer[i]]
      same == {"vwap_3m", "cvd_3m", "aggressive_volume_ratio_3m"}
                \cup (IF Tied(slice, s, "Candle") THEN {} ELSE {"atr_14", "atr_z_50"})
                \cup (IF Tied(slice, s, "OpenInterest") THEN {} ELSE {"open_interest_latest"})
  IN  /\ FeatureSnapshot(known, s, t) = fs
      /\ \A p \in Orders(DOMAIN known) : IsOrder(p, DOMAIN known) =>
           LET turned == FeatureSnapshot(Rearranged(known, p), s, t)
           IN  \A key \in same : turned[key] = fs[key]

\* In whatever order the records of a run reached the buffer, the run computes the
\* same, but for what order decides.
OrderOnlyBreaksTies ==
  [][\A s \in Symbols : \A r \in {runs'[s][k] : k \in Len(runs[s]) + 1..Len(runs'[s])} :
       OrderBreaksTies(s, r)]_vars

\* What a run publishes is what its own features are evidence for: the regime of a
\* strongest opinion, with every observer that spoke among the drivers and nothing
\* invalidated, also when the cut brought a snapshot with evidence of another run.
\* The anchor is the regime of some run of the symbol, its own or an earlier one.
EvidenceReachesTheOutput ==
  \A x \in AllRuns :
    LET out == Run(x).output
        spoken == Opinions(Run(x).features)
    IN  /\ \E o \in spoken : o.regime = out.regime /\ \A p \in spoken : p.strength <= o.strength
        /\ out.drivers = {o.source : o \in spoken}
        /\ out.invalidations = {}
        /\ <<out.symbol, out.timestamp>> = <<x[1], Run(x).ts>>
        /\ \E k \in 1..x[2] : Run(x).anchor = Run(<<x[1], k>>).output.regime

\* The same market upside down: what was bought is sold, the price lies as far on
\* the other side of the vwap.
MirroredFlow(fs) == IF fs.cvd_3m = None THEN None ELSE -fs.cvd_3m

MirroredVwap(fs) ==
  LET v == fs.vwap_3m
  IN  IF v = None \/ fs.price_last = None THEN v
      ELSE [v EXCEPT !.notional = 2 * (fs.price_last * v.quantity) - v.notional]

Mirrored(fs) == [fs EXCEPT !.cvd_3m = MirroredFlow(fs), !.vwap_3m = MirroredVwap(fs)]

MirroredRegime(r) ==
  CASE r \in {LiquidationUp, SqueezeUp, TrendBuildUp} -> r + 1
    [] r \in {LiquidationDown, SqueezeDown, TrendBuildDown} -> r - 1
    [] OTHER -> r

FairOn(fs) ==
  LET spoken == Opinions(fs)
      turned == Opinions(Mirrored(fs))
      draw == \E o, p \in spoken :
                o.regime # p.regime /\ o.strength = p.strength /\ o.confidence = p.confidence
  IN  /\ turned = {[o EXCEPT !.regime = MirroredRegime(@)] : o \in spoken}
      /\ draw \/ Selected(turned) = MirroredRegime(Selected(spoken))

\* The observers have no bias for rising or falling markets: turn the market upside
\* down and they say the same of the other direction, with the same strength.  So
\* does the regime that is selected, unless opinions of equal strength and
\* confidence disagree; then the order of the regimes prefers UP.
ObserversAreFair == \A x \in AllRuns : FairOn(Run(x).features)
====
