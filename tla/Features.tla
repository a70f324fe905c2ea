---- MODULE Features ----
(* composer/features/compute.py: the features of one run, computed from the    *)
(* records of its cut.  A record is an event as Decoding makes it, with its      *)
(* symbol; es has the records of the cut at their places in the buffer, s is the *)
(* symbol and t the engine timestamp of the run.                                *)
(*                                                                             *)
(* Averages are kept as what they are made of: a vwap as notional and quantity, *)
(* the ratio of aggressive volume as what was bought and all that was traded,   *)
(* an ATR as the sum of its true ranges.  atr_z_50 is in twentieths: an even     *)
(* number is exact, an odd one stands for all that lies between two tenths.      *)
(* Sums and products are those of integers of any size: FloatSums has the loops   *)
(* over the trades in floats, and where the two part.                            *)
EXTENDS Decoding, FiniteSetsExt

CONSTANTS
  AtrWindow,   \* ATR_WINDOW, 14
  AtrZWindow   \* ATR_Z_WINDOW, 50

ASSUME AverageAssumption == None \notin [notional : Int, quantity : Int]
ASSUME AtrAssumption == AtrWindow \in Nat \ {0} /\ AtrZWindow \in Nat \ {0}

\* _as_float gives None for what is no finite number.
IsNumber(x) == x \in Int

OfType(es, s, type) == {i \in DOMAIN es : es[i].symbol = s /\ es[i].type = type}

\* What the values of q, a function, at the places of S add up to.
SumOver(q, S) == MapThenSumSet(LAMBDA i : q[i], S)

\* Trades of the window that ends at the engine timestamp, both ends included.
Trades(es, s, t) ==
  {i \in OfType(es, s, "TradeTick") :
     es[i].ts # None /\ es[i].ts >= t - Window /\ es[i].ts <= t}

Sized(es, T) == {i \in T : IsNumber(es[i].body.quantity) /\ es[i].body.quantity > 0}

Quantity(es, T) == SumOver([i \in T |-> es[i].body.quantity], T)

\* The last price in the order of the buffer, which need not be that of exchange time.
PriceLast(es, s, t) ==
  LET priced == {i \in OfType(es, s, "TradeTick") :
                   es[i].ts # None /\ es[i].ts <= t /\ IsNumber(es[i].body.price)}
  IN  IF priced = {} THEN None ELSE es[Max(priced)].body.price

Vwap(es, s, t) ==
  LET T == {i \in Sized(es, Trades(es, s, t)) : IsNumber(es[i].body.price)}
  IN  IF T = {} THEN None
      ELSE [notional |-> SumOver([i \in T |-> es[i].body.price * es[i].body.quantity], T),
            quantity |-> Quantity(es, T)]

\* The trades whose side is known, and those of one side.
Sided(es, s, t) == {i \in Sized(es, Trades(es, s, t)) : es[i].body.side \in {1, -1}}
OfSide(es, T, side) == {i \in T : es[i].body.side = side}

Cvd(es, s, t) ==
  LET T == Sided(es, s, t)
  IN  IF T = {} THEN None ELSE Quantity(es, OfSide(es, T, 1)) - Quantity(es, OfSide(es, T, -1))

AggressiveRatio(es, s, t) ==
  LET T == Sided(es, s, t)
  IN  IF T = {} THEN None
      ELSE [bought |-> Quantity(es, OfSide(es, T, 1)), traded |-> Quantity(es, T)]

FinalCandles(es, s, t) ==
  {i \in OfType(es, s, "Candle") :
     /\ es[i].ts # None /\ es[i].ts <= t
     /\ es[i].body.interval_ms = Window /\ es[i].body.is_final = 1
     /\ \A k \in {"high", "low", "close"} : IsNumber(es[i].body[k])}

\* Mutant: candles in the order of the buffer.
CandlesAsRead(es, s, t) ==
  LET C == FinalCandles(es, s, t)
  IN  [k \in 1..Cardinality(C) |-> Nth(C, k)]

\* The candles of C that come before i: by exchange time and then by place.
Earlier(es, C, i) == {j \in C : es[j].ts < es[i].ts \/ (es[j].ts = es[i].ts /\ j < i)}

\* The places of the final candles up to the engine timestamp, in that order.
Candles(es, s, t) ==
  LET C == FinalCandles(es, s, t)
  IN  [k \in 1..Cardinality(C) |-> CHOOSE i \in C : Cardinality(Earlier(es, C, i)) = k - 1]

Distance(m, n) == IF m >= n THEN m - n ELSE n - m

\* The first candle has no close before it.
TrueRanges(es, cs) ==
  [k \in 1..Len(cs) |->
     LET b == es[cs[k]].body
     IN  IF k = 1 THEN b.high - b.low
         ELSE LET before == es[cs[k - 1]].body.close
              IN  Max({b.high - b.low, Distance(b.high, before), Distance(b.low, before)})]

Atr(ranges) ==
  IF Len(ranges) < AtrWindow THEN None
  ELSE SumOver(ranges, (Len(ranges) - AtrWindow + 1)..Len(ranges))

AtrSeries(ranges) ==
  [k \in 1..(Len(ranges) - AtrWindow + 1) |-> SumOver(ranges, k..(k + AtrWindow - 1))]

\* How far the last ATR lies from the mean of AtrZWindow of them, in twentieths
\* of their standard deviation.  With x the last one: z = (n x - sum) / sqrt(spread).
AtrZ(ranges) ==
  IF Len(ranges) < AtrWindow THEN None
  ELSE LET series == AtrSeries(ranges)
           last == Len(series)
           first == last - AtrZWindow + 1
       IN  IF last < AtrZWindow THEN None
           ELSE LET total == SumOver(series, first..last)
                    squares == SumOver([k \in first..last |-> series[k] * series[k]], first..last)
                    spread == AtrZWindow * squares - total * total
                    above == AtrZWindow * series[last] - total
                    tenths == Max({k \in 0..(10 * AtrZWindow) : k * k * spread <= 100 * above * above})
                    exact == tenths * tenths * spread = 100 * above * above
                    size == 2 * tenths + IF exact THEN 0 ELSE 1
                IN  IF spread = 0 THEN None ELSE IF above >= 0 THEN size ELSE -size

\* The open interest with the latest exchange time, the last read on ties; one
\* without a time counts only if there is no other.  It has no window, nor does
\* it end at the engine timestamp.
OpenInterestLatest(es, s) ==
  LET I == {i \in OfType(es, s, "OpenInterest") : IsNumber(es[i].body.open_interest)}
      timed == {i \in I : es[i].ts # None}
      latest == {i \in timed : \A j \in timed : es[j].ts <= es[i].ts}
  IN  IF I = {} THEN None
      ELSE es[Max(IF timed = {} THEN I ELSE latest)].body.open_interest

FeatureSnapshot(es, s, t) ==
  LET ranges == TrueRanges(es, Candles(es, s, t))
  IN  [price_last |-> PriceLast(es, s, t),
       vwap_3m |-> Vwap(es, s, t),
       atr_14 |-> Atr(ranges),
       atr_z_50 |-> AtrZ(ranges),
       cvd_3m |-> Cvd(es, s, t),
       aggressive_volume_ratio_3m |-> AggressiveRatio(es, s, t),
       open_interest_latest |-> OpenInterestLatest(es, s)]

\* What features may be: numbers and averages, or nothing.
FeatureRecord ==
  [price_last : Int \cup {None},
   vwap_3m : [notional : Int, quantity : Int] \cup {None},
   atr_14 : Int \cup {None},
   atr_z_50 : Int \cup {None},
   cvd_3m : Int \cup {None},
   aggressive_volume_ratio_3m : [bought : Int, traded : Int] \cup {None},
   open_interest_latest : Int \cup {None}]
====
