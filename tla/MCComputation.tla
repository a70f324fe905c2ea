---- MODULE MCComputation ----
EXTENDS FloatSums

CONSTANTS btc, eth   \* symbols

J(kind, n) == [is |-> kind, n |-> n]
Message(via, s, at, fields) == [via |-> via, symbol |-> s, shape |-> "object", at |-> at, fields |-> fields]
Shapeless(via, s, shape) == [via |-> via, symbol |-> s, shape |-> shape, at |-> None, fields |-> <<>>]

\* m is 1 when the buyer is the maker, which makes the trade a sale.
Trade(s, ts, p, q, m) ==
  Message("aggTrade", s, None,
    [T |-> J("int", ts), p |-> J("numText", p), q |-> J("numText", q), m |-> J("bool", m)])

\* A trade whose side is not understood: the flow leaves it out, the vwap does not.
Sideless(s, ts, p, q) == [Trade(s, ts, p, q, 0) EXCEPT !.fields["m"] = J("text", None)]

CandleBody(ts, h, l, c, final) ==
  "k" :> J("map", None) @@ "k.T" :> J("int", ts) @@ "k.i" :> J("3mText", Window)
    @@ "k.o" :> J("numText", c) @@ "k.h" :> J("numText", h) @@ "k.l" :> J("numText", l)
    @@ "k.c" :> J("numText", c) @@ "k.v" :> J("numText", 1) @@ "k.x" :> J("bool", final)
Candle(s, ts, h, l, c) == Message("kline", s, None, CandleBody(ts, h, l, c, 1))

Oi(s, ts, n) ==
  Message("openInterest", s, None,
    IF ts = None THEN [openInterest |-> J("numText", n)]
    ELSE [openInterest |-> J("numText", n), time |-> J("int", ts)])

\* Flow: trades at both ends of the window, before and after it, of either side,
\* with a price or a side that is none; open interest large, small, zero, untimed.
FlowFeeds ==
  {<< <<Trade(btc, 0, 100, 3, 0), Trade(btc, 10, 102, q, 1), Trade(btc, 11, 101, 2, 0)>>,
      <<Oi(btc, 5, n), Oi(btc, None, 7)>> >> : q \in {1, 4}, n \in {20, 1000}}
  \cup {<< <<Trade(btc, 9, 100, 1, 1), Trade(btc, 3, 104, 2, 0)>>, <<Oi(btc, 2, 50), Oi(btc, 2, 60)>>,
           <<Trade(eth, 4, 90, 5, 0)>> >>,
        << <<Trade(btc, 9, NaN, 1, 1), Trade(btc, 3, 104, NaN, 0), Trade(btc, 4, 105, 1, 0)>>,
           <<Oi(btc, 2, 0), Oi(btc, 2, NaN)>> >>,
        << <<Trade(btc, 9, 100, 1, 1), Sideless(btc, 8, 50, 2)>> >>}

\* Volatility: six candles, whose last three ranges differ, and a trade before and
\* after the flow of which is set against the price.
Candles6(x, y, z) ==
  <<Candle(btc, 1, 51, 50, 50), Candle(btc, 2, 51, 50, 50), Candle(btc, 3, 51, 50, 50),
    Candle(btc, 4, 50 + x, 50, 50), Candle(btc, 5, 50 + y, 50, 50), Candle(btc, 6, 50 + z, 50, 50)>>
VolatileFeeds ==
  {<<Candles6(x, y, z) \o <<Oi(btc, 2, 100), Trade(btc, 3, 100, 2, m), Trade(btc, 4, p, q, 0)>> >> :
     x \in {1, 5}, y \in {1, 4}, z \in {1, 2, 6}, m \in {0, 1}, p \in {99, 101}, q \in {1, 4}}

\* Candles out of order, two of one time, and trades that come in between.
DisorderedFeeds ==
  {<< <<Candle(btc, 2, 55, 50, 50), Candle(btc, 1, 51, 48, 49), Candle(btc, 3, 52, 50, 50),
       Candle(btc, 4, 53, 50, 50), Candle(btc, 5, 58, 50, 50), Candle(btc, 6, 51 + x, 50, 50)>>,
      <<Candle(btc, 6, 57, 50, 50), Trade(btc, 3, 104, 1, 0)>> >> : x \in {0, 6}}

\* One message of each stream that reads, and with each of its values replaced by
\* one of another kind, or with a payload that is no object at all.
Level == J("pairs", 1)
Num(keys) == [k \in keys |-> J("numText", 3)]
Whole ==
  {Trade(btc, 5, 3, 3, 0), Candle(btc, 5, 3, 3, 3), Oi(btc, 5, 3),
   Message("bookTicker", btc, None, Num({"a", "A", "b", "B"})),
   Message("depth", btc, None, [a |-> Level, b |-> J("levels", 1), E |-> J("int", 5), u |-> J("int", 1)]),
   Message("markPrice", btc, None, [p |-> J("fraction", 3), i |-> J("whole", 3), r |-> J("numText", NaN),
                                  E |-> J("intText", 5)]),
   Message("forceOrder", btc, None,
     "o" :> J("map", None) @@ "o.p" :> J("numText", 3) @@ "o.q" :> J("numText", 3) @@ "o.S" :> J("sideText", -1)),
   Message("TradeTick", btc, 5, [price |-> J("bool", 1), quantity |-> J("int", 2), side |-> J("sideText", 1)]),
   Message("LiquidationPrint", btc, 5, Num({"price", "quantity"})),
   Message("BookTop", btc, 5, Num({"best_bid_price", "best_bid_quantity", "best_ask_price", "best_ask_quantity"})),
   Message("BookDelta", btc, None, [bids |-> Level, asks |-> Level]),
   Message("Candle", btc, 5, [interval_ms |-> J("int", Window), is_final |-> J("boolText", 1)]
                             @@ Num({"open", "high", "low", "close", "volume"})),
   Message("FundingRate", btc, 5, Num({"funding_rate"})), Message("OpenInterest", btc, 5, Num({"open_interest"})),
   Message("MarkPrice", btc, 5, Num({"mark_price"})), Message("IndexPrice", btc, 5, Num({"index_price"})),
   Message("SnapshotInputs", btc, 5,
     [timestamp_ms |-> J("int", 10)] @@ [k \in {"derivatives", "flow", "context"} |-> J("map", None)])}
Spoilt(m) ==
  {[m EXCEPT !.fields[k] = v] : k \in DOMAIN m.fields,
     v \in {J("none", None), J("bool", 1), J("text", None), J("list", None), J("levels", 1), J("fraction", 2)}}
BrokenFeeds ==
  {<< <<m>> >> : m \in UNION {Spoilt(w) : w \in Whole}
                     \cup {Shapeless(w.via, btc, "garbled") : w \in Whole}
                     \cup {Shapeless("aggTrade", btc, "list"), Message("Rumour", btc, 5, <<>>)}}
  \cup {<< <<m>> >> : m \in Whole}

\* A snapshot that brings evidence of its own: of this run, another run, another
\* symbol; one is for a tick that passes before it comes.
Brought(s, t, r) ==
  [symbol |-> s, timestamp |-> t,
   opinions |-> {EvidenceOpinion(r, Unit, Unit, "brought")}]
SnapshotFeeds ==
  {<< <<Message("SnapshotInputs", btc, None, [timestamp_ms |-> J("intText", 10), market |-> J("map", ev)]),
        Message("SnapshotInputs", btc, None, [timestamp_ms |-> J("whole", n)])>>,
      <<Trade(btc, 4, 100, 1, 0)>> >> :
     ev \in {Brought(btc, 10, 9), Brought(eth, 10, 9), Brought(btc, 5, 0)}, n \in {10, 20}}

\* Few enough records to put them in every order: candles and open interest that come
\* out of order, with and without ties, late ones, the other symbol's in between.
ArrivalFeeds ==
  {<< <<Candle(btc, 2, 55, 50, 50), Candle(btc, n, 51, 48, 49), Candle(btc, 3, 52, 50, c)>>,
      <<Trade(btc, 4, 100, 2, 0)>> >> : n \in {1, 2, 11}, c \in {45, 50}}
  \cup {<< <<Oi(btc, 5, 20), Oi(btc, n, 30), Oi(btc, None, 40)>>,
            <<Trade(eth, 4, 90, 5, 0)>> >> : n \in {3, 5, 11, None}}

\* Up to four records in every order there is.  More of them with the first put last,
\* and with the first two exchanged, steps which lead from any order to any other.
FirstPutLast(S) == [i \in S |-> IF i = Max(S) THEN Min(S) ELSE Min({j \in S : j > i})]
FirstTwoExchanged(S) ==
  LET a == Min(S)
      b == Min(S \ {a})
  IN  [i \in S |-> IF i = a THEN b ELSE IF i = b THEN a ELSE i]

MCOrders(S) ==
  IF Cardinality(S) <= 4 THEN Permutations(S)
  ELSE {FirstPutLast(S), FirstTwoExchanged(S)}

\* Trades of either side, small, large and at the largest float, with prices that make
\* the turnover pass it in either direction, or no price at all.
FloatFeeds ==
  {<< <<Trade(btc, 4, p, q, 0), Trade(btc, 5, 1, r, m)>>, <<Trade(btc, 6, n, 600, 1)>> >> :
     p \in {3, NaN}, q \in {200, 600}, r \in {100, 1000}, m \in {0, 1}, n \in {1, -3}}

AllFeeds == FlowFeeds \cup VolatileFeeds \cup DisorderedFeeds \cup BrokenFeeds \cup SnapshotFeeds
              \cup ArrivalFeeds \cup FloatFeeds
====
