---- MODULE HysteresisRules ----
(* The rules of the regime engine that carry state from one run to the next:  *)
(* the belief one run computes (state/update.py) and the hysteresis step that *)
(* turns beliefs into a stable anchor regime (hysteresis/rules.py).           *)
(*                                                                            *)
(* Regimes are numbered in the declaration order of the Regime enum, which is *)
(* the order every tie in the code is broken by.  Beliefs and thresholds are  *)
(* percentages.                                                               *)
EXTENDS Integers

CONSTANTS
  NRegimes,         \* how many regimes the enum declares
  EnterThreshold,   \* HysteresisConfig.enter_threshold
  CommitThreshold,  \* HysteresisConfig.commit_threshold
  MinLead,          \* HysteresisConfig.min_lead_over_anchor; -100 stands for None
  DecayStep         \* HysteresisConfig.decay_step

ASSUME NRegimesAssumption == NRegimes \in Nat \ {0}
ASSUME ThresholdsAssumption ==
  /\ EnterThreshold \in 0..100
  /\ CommitThreshold \in 0..100
  /\ MinLead \in -100..100
  /\ DecayStep \in Nat \ {0}

Regime == 1..NRegimes
NoRegime == 0

\* What the evidence of a run says: the regime of the opinion that was selected,
\* or NoRegime when the snapshot carries no opinion.
Opinion == Regime \cup {NoRegime}

\* Every run starts from the uniform prior; a selected opinion takes all of the
\* belief, and without one the prior stays.
Belief(o) ==
  [r \in Regime |-> IF o = NoRegime THEN 100 \div NRegimes
                    ELSE IF r = o THEN 100 ELSE 0]

\* The anchor RegimeState carries: the selected regime, or the enum's first.
RunAnchor(o) == IF o = NoRegime THEN 1 ELSE o

\* The regime with the greatest belief, the first declared on ties.
TopRegime(b) ==
  CHOOSE r \in Regime : \A q \in Regime : b[q] < b[r] \/ (b[q] = b[r] /\ r <= q)

\* The hysteresis memory of one symbol, and its absence before the first run.
HState == [anchor : Regime, candidate : Regime \cup {NoRegime}, progress : Nat]
NoState == [anchor |-> NoRegime, candidate |-> NoRegime, progress |-> 0]

AnchorOf(h, o) == IF h = NoState THEN RunAnchor(o) ELSE h.anchor

Candidate(h, o) ==
  LET top == TopRegime(Belief(o))
  IN  IF top = AnchorOf(h, o) THEN NoRegime ELSE top

\* The gate a candidate must pass before it may gain progress.
Eligible(h, o) ==
  LET c == Candidate(h, o)
      b == Belief(o)
  IN  /\ c # NoRegime
      /\ b[c] >= EnterThreshold
      /\ b[c] - b[AnchorOf(h, o)] >= MinLead

Lesser(m, n) == IF m <= n THEN m ELSE n
Greater(m, n) == IF m >= n THEN m ELSE n

\* Mutant: progress is kept when the candidate changes.
GainAcrossCandidates(h, c, window) ==
  [candidate |-> c, progress |-> Lesser(h.progress + 1, window)]

\* Candidate and progress after the run's opinion has been counted.
Gain(h, c, window) ==
  [candidate |-> c,
   progress  |-> IF h.candidate = c THEN Lesser(h.progress + 1, window) ELSE 1]

\* Mutant: the decay is not held at zero.
DecayUnclamped(h) ==
  LET p == IF h.progress > 0 THEN h.progress - DecayStep ELSE 0
  IN  [candidate |-> IF p = 0 THEN NoRegime ELSE h.candidate, progress |-> p]

Decay(h) ==
  LET p == IF h.progress > 0 THEN Greater(0, h.progress - DecayStep) ELSE 0
  IN  [candidate |-> IF p = 0 THEN NoRegime ELSE h.candidate, progress |-> p]

Counted(h, o, window) ==
  IF Eligible(h, o) THEN Gain(h, Candidate(h, o), window) ELSE Decay(h)

\* A candidate commits when it has the progress the window asks for and its
\* belief reaches the commit threshold.
Commits(cnt, o, window) ==
  /\ cnt.candidate # NoRegime
  /\ cnt.progress >= window
  /\ Belief(o)[cnt.candidate] >= CommitThreshold

\* Mutant: a commit forgets to drop the candidate and its progress.
AdvanceKeepsCandidate(h, o, window) ==
  LET cnt == Counted(h, o, window)
  IN  [anchor    |-> IF Commits(cnt, o, window) THEN cnt.candidate ELSE AnchorOf(h, o),
       candidate |-> cnt.candidate,
       progress  |-> Lesser(cnt.progress, window)]

\* advance_hysteresis: the whole step from one run's memory to the next.
Advance(h, o, window) ==
  LET cnt == Counted(h, o, window)
  IN  IF Commits(cnt, o, window)
      THEN [anchor |-> cnt.candidate, candidate |-> NoRegime, progress |-> 0]
      ELSE [anchor |-> AnchorOf(h, o), candidate |-> cnt.candidate,
            progress |-> Lesser(cnt.progress, window)]
====
