----------------------------- MODULE MCAdapter -----------------------------
(* Values for Adapter: every small retry policy, with and without an       *)
(* elapsed limit, and a sink that may refuse a record either way.          *)
EXTENDS Adapter

CONSTANTS MaxDelay,      \* the largest delay of a policy
          MaxAttempts,   \* the most attempts of a policy
          Limits         \* the elapsed limits

MCPolicies ==
  {p \in [min : 1..MaxDelay, max : 1..MaxDelay, attempts : 1..MaxAttempts,
          elapsed : Limits \cup {NoLimit}] : p.min <= p.max}

MCSinkErrors == {"backpressure", "error"}
=============================================================================
