---- MODULE HysteresisRulesProofs ----
(* Proofs about the hysteresis rules for every number of regimes, threshold and *)
(* window: what one step returns, and where its regimes come from.              *)
EXTENDS HysteresisRules, TLAPS

(* The belief of a run has a greatest element, which is the selected opinion. *)
LEMMA TopRegimeType ==
  ASSUME NEW o \in Opinion
  PROVE  /\ TopRegime(Belief(o)) \in Regime
         /\ o # NoRegime => TopRegime(Belief(o)) = o
<1> USE NRegimesAssumption DEF Opinion, Regime, NoRegime
<1> DEFINE b == Belief(o)
           Top(r) == \A q \in Regime : b[q] < b[r] \/ (b[q] = b[r] /\ r <= q)
<1>1. CASE o = NoRegime
  <2>1. \A r \in Regime : b[r] = b[1]  BY <1>1 DEF Belief
  <2>2. b[1] \in Int  BY <1>1 DEF Belief
  <2>3. 1 \in Regime /\ Top(1)  BY <2>1, <2>2
  <2>4. TopRegime(Belief(o)) \in Regime  BY <2>3 DEF TopRegime
  <2>. QED  BY <1>1, <2>4
<1>2. CASE o # NoRegime
  <2>1. o \in Regime /\ b[o] = 100  BY <1>2 DEF Belief
  <2>2. \A r \in Regime : r # o => b[r] = 0  BY <1>2 DEF Belief
  <2>3. Top(o)  BY <2>1, <2>2
  <2>4. \A r \in Regime : Top(r) => r = o  BY <2>1, <2>2
  <2>. QED  BY <2>1, <2>3, <2>4 DEF TopRegime
<1>. QED  BY <1>1, <1>2

(* The regime with the greatest belief is the anchor the run itself computes. *)
LEMMA TopOfRun ==
  ASSUME NEW o \in Opinion  PROVE  TopRegime(Belief(o)) = RunAnchor(o)
<1>1. CASE o # NoRegime
  BY <1>1, TopRegimeType DEF RunAnchor
<1>2. CASE o = NoRegime
  <2>. DEFINE b == Belief(o)
              Top(r) == \A q \in Regime : b[q] < b[r] \/ (b[q] = b[r] /\ r <= q)
  <2>1. 1 \in Regime  BY NRegimesAssumption DEF Regime
  <2>2. \A r \in Regime : b[r] = b[1]  BY <1>2, <2>1 DEF Belief
  <2>3. b[1] \in Int  BY <1>2, <2>1, NRegimesAssumption DEF Belief
  <2>4. Top(1) /\ \A r \in Regime : Top(r) => r = 1
    BY <2>1, <2>2, <2>3 DEF Regime
  <2>5. TopRegime(b) = 1  BY <2>1, <2>4 DEF TopRegime
  <2>. QED  BY <1>2, <2>5 DEF RunAnchor
<1>. QED  BY <1>1, <1>2

(* The hysteresis step of the engine returns a state with an anchor.  *)
LEMMA AdvanceType ==
  ASSUME NEW h \in HState \cup {NoState}, NEW o \in Opinion, NEW w \in Nat
  PROVE  Advance(h, o, w) \in HState
<1> USE NRegimesAssumption, ThresholdsAssumption DEF Regime, NoRegime, Opinion
<1>1. AnchorOf(h, o) \in Regime
  BY DEF AnchorOf, RunAnchor, HState, NoState
<1>2. Candidate(h, o) \in Regime \cup {NoRegime}
  BY TopRegimeType DEF Candidate
<1>3. h.candidate \in Regime \cup {NoRegime} /\ h.progress \in Nat
  BY DEF HState, NoState
<1>5. /\ Counted(h, o, w).candidate \in Regime \cup {NoRegime}
      /\ Counted(h, o, w).progress \in Nat
  <2>1. CASE Eligible(h, o)
    BY <2>1, <1>2, <1>3 DEF Counted, Gain, Lesser
  <2>2. CASE ~Eligible(h, o)
    BY <2>2, <1>3 DEF Counted, Decay, Greater
  <2>. QED  BY <2>1, <2>2
<1>. DEFINE c == Counted(h, o, w)
<1>6. CASE Commits(c, o, w)
  <2>1. c.candidate \in Regime  BY <1>5, <1>6 DEF Commits
  <2>2. Advance(h, o, w) = [anchor |-> c.candidate, candidate |-> NoRegime, progress |-> 0]
    BY <1>6 DEF Advance
  <2>. QED  BY <2>1, <2>2 DEF HState
<1>7. CASE ~Commits(c, o, w)
  <2>1. Advance(h, o, w) = [anchor |-> AnchorOf(h, o), candidate |-> c.candidate,
                            progress |-> Lesser(c.progress, w)]
    BY <1>7 DEF Advance
  <2>2. Lesser(c.progress, w) \in Nat  BY <1>5 DEF Lesser
  <2>. QED  BY <1>1, <1>5, <2>1, <2>2 DEF HState
<1>. QED  BY <1>6, <1>7

(* A step makes up no regime: what it keeps in memory was there before, or is    *)
(* the regime of the opinion, the enum's first without one.                      *)
LEMMA AdvanceInvents ==
  ASSUME NEW h \in HState \cup {NoState}, NEW o \in Opinion, NEW w \in Nat
  PROVE  LET top == TopRegime(Belief(o))
         IN  /\ Advance(h, o, w).anchor \in {AnchorOf(h, o), h.candidate, top}
             /\ Advance(h, o, w).candidate \in {NoRegime, h.candidate, top}
<1>. DEFINE c == Counted(h, o, w)
            top == TopRegime(Belief(o))
<1>1. c.candidate \in {NoRegime, h.candidate, top}
  <2>1. CASE Eligible(h, o)
    BY <2>1 DEF Counted, Gain, Candidate
  <2>2. CASE ~Eligible(h, o)
    BY <2>2 DEF Counted, Decay
  <2>. QED  BY <2>1, <2>2
<1>2. CASE Commits(c, o, w)
  BY <1>1, <1>2 DEF Advance, Commits
<1>3. CASE ~Commits(c, o, w)
  BY <1>1, <1>3 DEF Advance
<1>. QED  BY <1>2, <1>3
====
