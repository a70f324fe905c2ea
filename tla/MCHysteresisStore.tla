---- MODULE MCHysteresisStore ----
EXTENDS HysteresisStore

MCMinLead == -100
\* BTC's runs select any opinion, ETH's only ever the first two regimes.
MCInputs == [s \in Symbol |-> IF s = "BTC" THEN Opinion ELSE {1}]
====
