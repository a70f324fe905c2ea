---- MODULE HysteresisMachine ----
(* What hysteresis promises a reader of its state: every symbol has a state   *)
(* of its own that moves by steps of the hysteresis rules and in no other way *)
(* - no reset, no step back, no step of another symbol - whatever happens to  *)
(* the process that computes it.                                              *)
EXTENDS HysteresisRules

CONSTANTS Symbol, MaxWindow

VARIABLE st   \* the hysteresis state of each symbol

Init == st = [s \in Symbol |-> NoState]

\* One run's opinion is counted, under the window configured at the time.
Step(s, o, w) == st' = [st EXCEPT ![s] = Advance(st[s], o, w)]

Next == \E s \in Symbol, o \in Opinion, w \in 1..MaxWindow : Step(s, o, w)

Spec == Init /\ [][Next]_st
====
