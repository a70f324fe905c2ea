---- MODULE Decoding ----
(* What a message of a market data source becomes: the decoders of the Binance *)
(* adapters (market_data/adapters/binance/decoder.py), the decoder for         *)
(* payloads that already have the names of the contract (market_data/decoder.py), *)
(* and the contract of normalized keys that IngestionPipeline.ingest enforces.  *)
(*                                                                             *)
(* A message is [via, symbol, shape, at, fields].  via names the stream, or the *)
(* event type for the contract's own decoder; shape is "object", or what is wrong *)
(* with the payload as a whole; at is the exchange time the caller gives, None  *)
(* from an adapter; fields maps the keys of the object, with "k.T" for key T of *)
(* the object under k, to values [is, n]: the kind of the JSON value and what it *)
(* says.  Numbers are integers of some small unit, or NaN for what is no finite *)
(* number; a side is 1 for buy and -1 for sell; a Boolean is 1 or 0.            *)
EXTENDS Integers, Sequences, FiniteSets

CONSTANTS
  None,     \* no value
  NaN,      \* a float that is not finite: json.loads and float() let it through
  Window    \* three minutes, 180000 ms: interval of the candles, window of the features

ASSUME NoneAssumption == None \notin Int /\ NaN \notin Int
ASSUME WindowAssumption == Window \in Nat \ {0}

Kinds == {"none", "bool", "int", "whole", "fraction", "intText", "numText", "boolText",
          "sideText", "3mText", "text", "pairs", "levels", "list", "map"}

\* A key that is not there and one that is null are the same to the decoders.
Absent == [is |-> "none", n |-> None]

\* What a value of each kind may say; the decoders count on no more than this.
IsValue(v) ==
  /\ v.is \in {"int", "whole", "intText"} => v.n \in Int
  /\ v.is \in {"fraction", "numText"} => v.n \in Int \cup {NaN}
  /\ v.is \in {"bool", "boolText"} => v.n \in {0, 1}
  /\ v.is = "sideText" => v.n \in {1, -1}
  /\ v.is = "none" => v.n = None

IsMessage(m) ==
  /\ m.at \in Int \cup {None}
  /\ \A key \in DOMAIN m.fields : IsValue(m.fields[key])

Value(m, key) == IF key \in DOMAIN m.fields THEN m.fields[key] ELSE Absent

\* Which kinds each parser takes; on any other it raises a DecodeError.
\*   float, int, ...     of the Binance decoder
\*   number              like float, but takes a Boolean for 1 or 0
\*   levels, pairs       entries of at least two numbers, and of exactly two
VendorAccepts ==
  [float |-> {"int", "whole", "fraction", "intText", "numText"},
   int |-> {"int", "whole", "intText"},
   intOrNone |-> {"none", "int", "whole", "intText"},
   object |-> {"map"},
   boolOrNone |-> {"none", "bool", "boolText"},
   interval |-> {"3mText"},
   levels |-> {"pairs", "levels"},
   maker |-> Kinds,
   order |-> Kinds]

OwnAccepts ==
  [number |-> {"int", "whole", "fraction", "intText", "numText", "bool"},
   integer |-> {"int", "whole", "intText"},
   flagOrNone |-> {"none", "bool", "boolText"},
   pairs |-> {"pairs"},
   side |-> {"none", "sideText"},
   mapOrNone |-> {"none", "map"}]

Accepts(f, m) ==
  Value(m, f.key).is \in
    IF f.as \in DOMAIN VendorAccepts THEN VendorAccepts[f.as] ELSE OwnAccepts[f.as]

\* Mutant: m, the buyer is the maker, read as the side of the taker.
ParsedMakerAsSide(f, m) ==
  LET v == Value(m, f.key)
  IN  CASE f.as = "maker" -> (IF v.is \in {"bool", "boolText"} THEN 2 * v.n - 1 ELSE None)
        [] f.as = "order" -> (IF v.is = "sideText" THEN v.n ELSE None)
        [] OTHER -> v.n

\* What a parser makes of a value it takes.  The buyer being the maker makes the
\* trade a sale; a side that is not understood is none at all.
Parsed(f, m) ==
  LET v == Value(m, f.key)
  IN  CASE f.as = "maker" -> (IF v.is \in {"bool", "boolText"} THEN 1 - 2 * v.n ELSE None)
        [] f.as = "order" -> (IF v.is = "sideText" THEN v.n ELSE None)
        [] OTHER -> v.n

From(key, parser) == [key |-> key, as |-> parser]

\* A layout: what is read of the message besides, the keys the exchange time is
\* read from, the first that is there, and whether one must be; and the events of
\* the message, each with its type and what its normalized keys are read from.
Layout(needs, times, timed, parts) ==
  [needs |-> needs, times |-> times, timed |-> timed, parts |-> parts]

AggTrade ==
  Layout({}, <<"T">>, TRUE,
    <<[type |-> "TradeTick",
       body |-> [price |-> From("p", "float"), quantity |-> From("q", "float"),
                 side |-> From("m", "maker")]]>>)

\* Mutant: whether a candle is final is left out.
KlineWithoutFinality ==
  Layout({From("k", "object")}, <<"k.T", "E">>, TRUE,
    <<[type |-> "Candle",
       body |-> [open |-> From("k.o", "float"), high |-> From("k.h", "float"),
                 low |-> From("k.l", "float"), close |-> From("k.c", "float"),
                 volume |-> From("k.v", "float"),
                 interval_ms |-> From("k.i", "interval")]]>>)

\* Only candles of three minutes are taken, so interval_ms is known.
Kline ==
  Layout({From("k", "object")}, <<"k.T", "E">>, TRUE,
    <<[type |-> "Candle",
       body |-> [open |-> From("k.o", "float"), high |-> From("k.h", "float"),
                 low |-> From("k.l", "float"), close |-> From("k.c", "float"),
                 volume |-> From("k.v", "float"),
                 interval_ms |-> From("k.i", "interval"),
                 is_final |-> From("k.x", "boolOrNone")]]>>)

BookTicker ==
  Layout({}, <<"E">>, FALSE,
    <<[type |-> "BookTop",
       body |-> [best_bid_price |-> From("b", "float"), best_bid_quantity |-> From("B", "float"),
                 best_ask_price |-> From("a", "float"), best_ask_quantity |-> From("A", "float")]]>>)

Depth ==
  Layout({From("u", "intOrNone")}, <<"E">>, FALSE,
    <<[type |-> "BookDelta", body |-> [bids |-> From("b", "levels"), asks |-> From("a", "levels")]]>>)

\* One message, three events, each of which may fail by itself.
MarkPrice ==
  Layout({}, <<"E">>, FALSE,
    <<[type |-> "MarkPrice", body |-> [mark_price |-> From("p", "float")]],
      [type |-> "IndexPrice", body |-> [index_price |-> From("i", "float")]],
      [type |-> "FundingRate", body |-> [funding_rate |-> From("r", "float")]]>>)

ForceOrder ==
  Layout({From("o", "object")}, <<"o.T">>, FALSE,
    <<[type |-> "LiquidationPrint",
       body |-> [price |-> From("o.p", "float"), quantity |-> From("o.q", "float"),
                 side |-> From("o.S", "order")]]>>)

OpenInterestPoll ==
  Layout({}, <<"time">>, FALSE,
    <<[type |-> "OpenInterest", body |-> [open_interest |-> From("openInterest", "float")]]>>)

VendorLayouts ==
  [aggTrade |-> AggTrade, kline |-> Kline, bookTicker |-> BookTicker, depth |-> Depth,
   markPrice |-> MarkPrice, forceOrder |-> ForceOrder, openInterest |-> OpenInterestPoll]

\* The contract's own decoder reads every normalized key from the key of that name.
Own(type, body) == Layout({}, <<>>, FALSE, <<[type |-> type, body |-> body]>>)
Numbers(keys) == [k \in keys |-> From(k, "number")]

OwnLayouts ==
  LET Traded == [price |-> From("price", "number"), quantity |-> From("quantity", "number"),
                side |-> From("side", "side")]
  IN  [TradeTick |-> Own("TradeTick", Traded),
       LiquidationPrint |-> Own("LiquidationPrint", Traded),
       BookTop |-> Own("BookTop", Numbers({"best_bid_price", "best_bid_quantity",
                                           "best_ask_price", "best_ask_quantity"})),
       BookDelta |-> Own("BookDelta", [bids |-> From("bids", "pairs"), asks |-> From("asks", "pairs")]),
       Candle |-> Own("Candle", [open |-> From("open", "number"), high |-> From("high", "number"),
                                 low |-> From("low", "number"), close |-> From("close", "number"),
                                 volume |-> From("volume", "number"),
                                 interval_ms |-> From("interval_ms", "integer"),
                                 is_final |-> From("is_final", "flagOrNone")]),
       FundingRate |-> Own("FundingRate", Numbers({"funding_rate"})),
       OpenInterest |-> Own("OpenInterest", Numbers({"open_interest"})),
       MarkPrice |-> Own("MarkPrice", Numbers({"mark_price"})),
       IndexPrice |-> Own("IndexPrice", Numbers({"index_price"})),
       SnapshotInputs |-> Own("SnapshotInputs", [timestamp_ms |-> From("timestamp_ms", "integer"),
                                                 market |-> From("market", "mapOrNone"),
                                                 derivatives |-> From("derivatives", "mapOrNone"),
                                                 flow |-> From("flow", "mapOrNone"),
                                                 context |-> From("context", "mapOrNone")])]

HasLayout(m) == m.via \in DOMAIN VendorLayouts \cup DOMAIN OwnLayouts
LayoutOf(m) ==
  IF m.via \in DOMAIN VendorLayouts THEN VendorLayouts[m.via] ELSE OwnLayouts[m.via]

\* The keys of the exchange time that are there; the first is the one that counts.
Given(l, m) == {i \in 1..Len(l.times) : Value(m, l.times[i]).is # "none"}
FirstGiven(l, m) == l.times[CHOOSE i \in Given(l, m) : \A j \in Given(l, m) : i <= j]

TimeReads(l, m) ==
  IF Given(l, m) = {} THEN ~l.timed ELSE Accepts(From(FirstGiven(l, m), "int"), m)

Time(l, m) == IF Given(l, m) = {} THEN m.at ELSE Value(m, FirstGiven(l, m)).n

\* Whether the message gets as far as its events.
Readable(m) ==
  /\ m.shape = "object"
  /\ HasLayout(m)
  /\ TimeReads(LayoutOf(m), m)
  /\ \A f \in LayoutOf(m).needs : Accepts(f, m)

Decodes(part, m) == \A k \in DOMAIN part.body : Accepts(part.body[k], m)

Event(part, m) ==
  [type |-> part.type, ts |-> Time(LayoutOf(m), m),
   body |-> [k \in DOMAIN part.body |-> Parsed(part.body[k], m)]]

Failure(m) ==
  [type |-> "DecodeFailure", ts |-> m.at, body |-> [k \in {"error_kind", "error_detail"} |-> None]]

\* The k-th number of a set, from the least.
Nth(S, k) == CHOOSE i \in S : Cardinality({j \in S : j < i}) = k - 1

\* The records of a message in the order they are written: failures, then events.
Decoded(m) ==
  IF ~Readable(m) THEN <<Failure(m)>>
  ELSE LET parts == LayoutOf(m).parts
           good == {i \in DOMAIN parts : Decodes(parts[i], m)}
           bad == Cardinality(DOMAIN parts \ good)
       IN  [k \in 1..Len(parts) |->
              IF k <= bad THEN Failure(m) ELSE Event(parts[Nth(good, k - bad)], m)]

\* The keys a record of each type must have, and the types there are.
RequiredKeys ==
  [TradeTick |-> {"price", "quantity", "side"},
   BookTop |-> {"best_bid_price", "best_bid_quantity", "best_ask_price", "best_ask_quantity"},
   BookDelta |-> {"bids", "asks"},
   Candle |-> {"open", "high", "low", "close", "volume", "interval_ms", "is_final"},
   FundingRate |-> {"funding_rate"},
   OpenInterest |-> {"open_interest"},
   MarkPrice |-> {"mark_price"},
   IndexPrice |-> {"index_price"},
   LiquidationPrint |-> {"price", "quantity", "side"},
   SnapshotInputs |-> {"timestamp_ms"},
   DecodeFailure |-> {"error_kind", "error_detail"}]

\* ingest raises ValueError on any other, in the middle of the message.
Valid(e) == e.type \in DOMAIN RequiredKeys /\ RequiredKeys[e.type] \subseteq DOMAIN e.body

\* How many records of a message are written: those before the first that raises.
Written(es) ==
  IF \A i \in 1..Len(es) : Valid(es[i]) THEN Len(es)
  ELSE (CHOOSE i \in 1..Len(es) : ~Valid(es[i]) /\ \A j \in 1..(i - 1) : Valid(es[j])) - 1
====
