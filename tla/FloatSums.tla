---- MODULE FloatSums ----
(* composer/features/compute.py adds in floats: a sum past the largest of them is *)
(* infinite, and one infinity against another is no number at all.  Features has   *)
(* the sums as integers of any size; here the loops over the trades of a run are    *)
(* taken as they are written, one addition after the other in the order of the      *)
(* buffer, to see where the two agree and what comes out where they do not.         *)
(*                                                                                 *)
(* A float is an integer of at most Largest, either infinity, or NaN; rounding to     *)
(* the next float is left out, as it is in Features.                                 *)
EXTENDS Computation, SequencesExt

CONSTANTS
  Largest,    \* the largest float, some 1.8e308
  Inf,
  MinusInf

ASSUME FloatAssumption ==
  /\ Largest \in Nat \ {0}
  /\ Cardinality({None, NaN, Inf, MinusInf}) = 4
  /\ {Inf, MinusInf} \cap Int = {}

IsFloat(x) == x \in (-Largest)..Largest
Float(n) == IF n > Largest THEN Inf ELSE IF n < -Largest THEN MinusInf ELSE n

Plus(x, y) ==
  IF NaN \in {x, y} \/ {Inf, MinusInf} \subseteq {x, y} THEN NaN
  ELSE IF Inf \in {x, y} THEN Inf
  ELSE IF MinusInf \in {x, y} THEN MinusInf
  ELSE Float(x + y)

Infinite == {Inf, MinusInf}

\* What x by y is, y positive: an average, kept as what it is made of, or no number.
\* An average over an infinite total is zero.
Quotient(x, y, average) ==
  CASE IsFloat(x) -> average
    [] x \in Infinite /\ IsFloat(y) -> x
    [] OTHER -> NaN

\* The values of q at the places of T, added up from the first place to the last.
Added(q, T) ==
  FoldLeft(LAMBDA total, i : Plus(total, q[i]), 0, [k \in 1..Cardinality(T) |-> Nth(T, k)])

Signed(es, T) == [i \in T |-> es[i].body.side * es[i].body.quantity]
Bought(es, T) == Added([i \in T |-> es[i].body.quantity], OfSide(es, T, 1))
Sold(es, T) == Added([i \in T |-> es[i].body.quantity], OfSide(es, T, -1))

\* Mutant: a quantity is counted before it is seen that there is no price to it.
VwapOfUnpriced(es, s, t) ==
  LET sized == Sized(es, Trades(es, s, t))
      T == {i \in sized : IsNumber(es[i].body.price)}
      volume == Added([i \in sized |-> es[i].body.quantity], sized)
      turnover == Added([i \in T |-> Float(es[i].body.price * es[i].body.quantity)], T)
  IN  IF T = {} THEN None
      ELSE Quotient(turnover, volume, [notional |-> turnover, quantity |-> volume])

VwapLoop(es, s, t) ==
  LET T == {i \in Sized(es, Trades(es, s, t)) : IsNumber(es[i].body.price)}
      volume == Added([i \in T |-> es[i].body.quantity], T)
      turnover == Added([i \in T |-> Float(es[i].body.price * es[i].body.quantity)], T)
  IN  IF T = {} THEN None
      ELSE Quotient(turnover, volume, [notional |-> turnover, quantity |-> volume])

CvdLoop(es, s, t) ==
  LET T == Sided(es, s, t)
  IN  IF T = {} THEN None ELSE Added(Signed(es, T), T)

RatioLoop(es, s, t) ==
  LET T == Sided(es, s, t)
      bought == Bought(es, T)
      traded == Plus(bought, Sold(es, T))
  IN  IF T = {} THEN None ELSE Quotient(bought, traded, [bought |-> bought, traded |-> traded])

\* What the loops make of the cut of a run.
InFloats(x) ==
  LET es == CutOf(x[1], Run(x).first, Run(x).last)
  IN  [vwap_3m |-> VwapLoop(es, x[1], Run(x).ts),
       cvd_3m |-> CvdLoop(es, x[1], Run(x).ts),
       aggressive_volume_ratio_3m |-> RatioLoop(es, x[1], Run(x).ts)]

\* The volume and the turnover of a run, whatever the signs of the prices, stay
\* within the range of floats.
Within(x) ==
  LET priced == {i \in Traded3m(x) : IsNumber(Said(i).price)}
  IN  /\ Volume(Traded3m(x)) <= Largest
      /\ SumOver([i \in priced |-> Size(Said(i).price) * Said(i).quantity], priced) <= Largest

\* Where no sum can pass the largest float, the loops give the features that all
\* else is computed from here.  Where one does, a flow that is a number is still the
\* right one, for a sum that has once passed stays infinite whatever follows, and
\* so is an average, unless the total below it has passed: then it is zero, and
\* nothing shows that it is wrong.
NumbersAreRight ==
  \A x \in AllRuns :
    LET fs == Run(x).features
        floats == InFloats(x)
        Over(average) == average \in Infinite \cup {NaN}
    IN  /\ Within(x) => \A key \in DOMAIN floats : floats[key] = fs[key]
        /\ floats.cvd_3m \in {fs.cvd_3m} \cup Infinite
        /\ \/ Over(floats.vwap_3m)
           \/ floats.vwap_3m = fs.vwap_3m
           \/ floats.vwap_3m.quantity = Inf
        /\ \/ Over(floats.aggressive_volume_ratio_3m)
           \/ floats.aggressive_volume_ratio_3m = fs.aggressive_volume_ratio_3m
           \/ floats.aggressive_volume_ratio_3m.traded = Inf
====
