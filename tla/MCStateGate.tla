---- MODULE MCStateGate ----
EXTENDS StateGate

RunOf(s, ts, mode, fate, progress) ==
  [symbol |-> s, ts |-> ts, mode |-> mode, fate |-> fate, progress |-> progress]

\* A gap of more than one between 2 and 4, two runs of one timestamp, a failed,
\* a denied and a held run, and a second symbol whose records interleave.
MCRuns == {RunOf("BTC", 1, "truth", "fine", 0), RunOf("BTC", 2, "truth", "denied", 0),
           RunOf("BTC", 4, "hysteresis", "fine", 1), RunOf("BTC", 4, "hysteresis", "fine", 0),
           RunOf("ETH", 1, "truth", "failed", 0), RunOf("ETH", 3, "hysteresis", "denied", 0)}
MCResetRuns == {RunOf("BTC", 1, "truth", "fine", 0), RunOf("BTC", 3, "truth", "fine", 0),
                RunOf("BTC", 4, "truth", "fine", 0)}
====
