---- MODULE AdapterProofs ----
(* Proofs about Adapter for every set of retry policies, every size of a     *)
(* message and every way in which the sink may refuse a record.              *)
EXTENDS Adapter, WellFoundedInduction, SequenceTheorems, TLAPS

\* The flag is up exactly while the runtime has the adapter started and the
\* thread has not given up.
FlagInv ==
  /\ running => owner = "started"
  /\ owner = "started" /\ pc # "done" => running
  /\ owner = "new" <=> pc = "new"

\* A poller is never in the places of a stream and never reports a connection.
KindInv ==
  kind = "poller" =>
    pc \notin {"dialing", "opening", "session"} /\ transport # "connected"

\* While a message is at hand it is the one counted and not yet written.
EmitInv == pc = "emit" => lost > 0 /\ left > 0

\* Where the thread is tells whether the next connection has been paid for.
PaidInv ==
  /\ pc = "opening" => opened < attempts
  /\ kind = "stream" =>
       (pc \in {"new", "ready", "backoff", "dialing"} \/ (pc = "loop" /\ running)
          => attempts <= failures)

\* What is done after stop is what the thread was about to do when it came: one
\* that still waits for a message, or is about to connect, has done nothing yet.
LateInv ==
  /\ owner # "stopped" => late = 0
  /\ pc \in {"waiting", "dialing"} => late = 0

IInv ==
  /\ TypeOK /\ FlagInv /\ KindInv
  /\ EmitInv /\ LossIsRecorded
  /\ PaidInv /\ ReconnectsArePaid
  /\ BudgetHolds
  /\ LateInv /\ StopIsObeyed
  /\ EndsForAReason /\ DisconnectIsVisible

LEMMA InitInv == Init => IInv
<1>. SUFFICES ASSUME Init  PROVE IInv
  OBVIOUS
<1>1. TypeOK
  <2>1. 0 \in 0..MaxParts  BY PartsAssumption
  <2>2. running \in BOOLEAN  BY DEF Init
  <2>. QED  BY <2>1, <2>2 DEF Init, TypeOK, Places, AdapterStates, TransportStates
<1>2. FlagInv /\ KindInv /\ EmitInv /\ PaidInv /\ LateInv
  BY DEF Init, FlagInv, KindInv, EmitInv, PaidInv, LateInv
<1>3. LossIsRecorded /\ ReconnectsArePaid /\ BudgetHolds
  BY DEF Init, LossIsRecorded, ReconnectsArePaid, BudgetHolds
<1>4. StopIsObeyed /\ EndsForAReason /\ DisconnectIsVisible
  BY DEF Init, StopIsObeyed, EndsForAReason, DisconnectIsVisible
<1>. QED  BY <1>1, <1>2, <1>3, <1>4 DEF IInv

(* Every failure leaves the invariant standing, wherever it strikes, if the  *)
(* message it may have cost is already counted.                              *)
LEMMA FailInv ==
  ASSUME IInv, Fail, UNCHANGED <<kind, policy, owner, reconnects, attempts, opened>>,
         pc \notin {"new", "ready", "loop", "backoff", "done"},
         lost' \in Nat, lost' <= failures + 1,
         late' \in Nat, late' <= 1, owner # "stopped" => late' = 0
  PROVE  IInv'
<1>1. TypeOK'
  <2>1. running' \in BOOLEAN  BY DEF Fail, IInv, TypeOK
  <2>2. 0 \in 0..MaxParts  BY PartsAssumption
  <2>. QED
    BY <2>1, <2>2 DEF Fail, IInv, TypeOK, Places, AdapterStates, TransportStates
<1>2. /\ failures' = failures + 1 /\ failures \in Nat
      /\ pc' \in {"done", "backoff"} /\ transport' = "failed" /\ state' = "failed"
      /\ attempts \in Nat /\ opened \in Nat /\ attempts' = attempts /\ opened' = opened
      /\ kind' = kind /\ owner' = owner /\ policy' = policy
  BY DEF Fail, IInv, TypeOK
<1>3. FlagInv' /\ KindInv' /\ EmitInv' /\ DisconnectIsVisible' /\ StopIsObeyed'
  BY <1>2 DEF Fail, IInv, FlagInv, KindInv, EmitInv, DisconnectIsVisible, StopIsObeyed
<1>4. LossIsRecorded' /\ LateInv'
  BY <1>2 DEF LossIsRecorded, LateInv
<1>5. PaidInv' /\ ReconnectsArePaid'
  BY <1>2 DEF IInv, PaidInv, ReconnectsArePaid
<1>6. BudgetHolds'
  BY <1>2 DEF Fail, IInv, BudgetHolds, Spent
<1>7. EndsForAReason'
  BY <1>2 DEF Fail, EndsForAReason, Spent
<1>. QED  BY <1>1, <1>3, <1>4, <1>5, <1>6, <1>7 DEF IInv
LEMMA StepInv == IInv /\ [Next]_vars => IInv'
<1>. SUFFICES ASSUME IInv, [Next]_vars  PROVE IInv'
  OBVIOUS
<1>. USE DEF IInv
<1>1. CASE Start
  <2>1. TypeOK'
    BY <1>1 DEF Start, TypeOK, Places, AdapterStates, TransportStates
  <2>2. FlagInv' /\ KindInv' /\ EmitInv' /\ LossIsRecorded'
    BY <1>1 DEF Start, TypeOK, FlagInv, KindInv, EmitInv, LossIsRecorded
  <2>3. PaidInv' /\ ReconnectsArePaid'
    BY <1>1 DEF Start, TypeOK, FlagInv, KindInv, PaidInv, ReconnectsArePaid
  <2>4. BudgetHolds' /\ EndsForAReason'
    BY <1>1 DEF Start, TypeOK, FlagInv, BudgetHolds, EndsForAReason, Spent
  <2>5. LateInv' /\ StopIsObeyed' /\ DisconnectIsVisible'
    BY <1>1 DEF Start, TypeOK, FlagInv, KindInv, LateInv, StopIsObeyed,
                DisconnectIsVisible
  <2>. QED  BY <2>1, <2>2, <2>3, <2>4, <2>5
<1>2. CASE Stop
  <2>1. TypeOK'
    BY <1>2 DEF Stop, TypeOK, Places, AdapterStates, TransportStates
  <2>2. FlagInv' /\ KindInv' /\ EmitInv' /\ LossIsRecorded'
    BY <1>2 DEF Stop, TypeOK, FlagInv, KindInv, EmitInv, LossIsRecorded
  <2>3. PaidInv' /\ ReconnectsArePaid'
    BY <1>2 DEF Stop, TypeOK, FlagInv, KindInv, PaidInv, ReconnectsArePaid
  <2>4. BudgetHolds' /\ EndsForAReason'
    BY <1>2 DEF Stop, TypeOK, FlagInv, BudgetHolds, EndsForAReason, Spent
  <2>5. LateInv' /\ StopIsObeyed' /\ DisconnectIsVisible'
    BY <1>2 DEF Stop, TypeOK, FlagInv, KindInv, LateInv, StopIsObeyed,
                DisconnectIsVisible
  <2>. QED  BY <2>1, <2>2, <2>3, <2>4, <2>5
<1>3. CASE Begin
  <2>1. TypeOK'
    BY <1>3 DEF Begin, TypeOK, Places, AdapterStates, TransportStates
  <2>2. FlagInv' /\ KindInv' /\ EmitInv' /\ LossIsRecorded'
    BY <1>3 DEF Begin, TypeOK, FlagInv, KindInv, EmitInv, LossIsRecorded
  <2>3. PaidInv' /\ ReconnectsArePaid'
    BY <1>3 DEF Begin, TypeOK, FlagInv, KindInv, PaidInv, ReconnectsArePaid
  <2>4. BudgetHolds' /\ EndsForAReason'
    BY <1>3 DEF Begin, TypeOK, FlagInv, BudgetHolds, EndsForAReason, Spent
  <2>5. LateInv' /\ StopIsObeyed' /\ DisconnectIsVisible'
    BY <1>3 DEF Begin, TypeOK, FlagInv, KindInv, LateInv, StopIsObeyed,
                DisconnectIsVisible
  <2>. QED  BY <2>1, <2>2, <2>3, <2>4, <2>5
<1>4. CASE Leave
  <2>1. TypeOK'
    BY <1>4 DEF Leave, TypeOK, Places, AdapterStates, TransportStates
  <2>2. FlagInv' /\ KindInv' /\ EmitInv' /\ LossIsRecorded'
    BY <1>4 DEF Leave, TypeOK, FlagInv, KindInv, EmitInv, LossIsRecorded
  <2>3. PaidInv' /\ ReconnectsArePaid'
    BY <1>4 DEF Leave, TypeOK, FlagInv, KindInv, PaidInv, ReconnectsArePaid
  <2>4. BudgetHolds' /\ EndsForAReason'
    BY <1>4 DEF Leave, TypeOK, FlagInv, BudgetHolds, EndsForAReason, Spent
  <2>5. LateInv' /\ StopIsObeyed' /\ DisconnectIsVisible'
    BY <1>4 DEF Leave, TypeOK, FlagInv, KindInv, LateInv, StopIsObeyed,
                DisconnectIsVisible
  <2>. QED  BY <2>1, <2>2, <2>3, <2>4, <2>5
<1>5. CASE Wake
  <2>1. TypeOK'
    BY <1>5 DEF Wake, TypeOK, Places, AdapterStates, TransportStates
  <2>2. FlagInv' /\ KindInv' /\ EmitInv' /\ LossIsRecorded'
    BY <1>5 DEF Wake, TypeOK, FlagInv, KindInv, EmitInv, LossIsRecorded
  <2>3. PaidInv' /\ ReconnectsArePaid'
    BY <1>5 DEF Wake, TypeOK, FlagInv, KindInv, PaidInv, ReconnectsArePaid
  <2>4. BudgetHolds' /\ EndsForAReason'
    BY <1>5 DEF Wake, TypeOK, FlagInv, BudgetHolds, EndsForAReason, Spent
  <2>5. LateInv' /\ StopIsObeyed' /\ DisconnectIsVisible'
    BY <1>5 DEF Wake, TypeOK, FlagInv, KindInv, LateInv, StopIsObeyed,
                DisconnectIsVisible
  <2>. QED  BY <2>1, <2>2, <2>3, <2>4, <2>5
<1>6. CASE Connect
  <2>1. TypeOK'
    BY <1>6 DEF Connect, OneMore, TypeOK, Places, AdapterStates, TransportStates
  <2>2. FlagInv' /\ KindInv' /\ EmitInv' /\ LossIsRecorded'
    BY <1>6 DEF Connect, OneMore, TypeOK, FlagInv, KindInv, EmitInv, LossIsRecorded
  <2>3. PaidInv' /\ ReconnectsArePaid'
    BY <1>6 DEF Connect, OneMore, TypeOK, FlagInv, KindInv, PaidInv, ReconnectsArePaid
  <2>4. BudgetHolds' /\ EndsForAReason'
    BY <1>6 DEF Connect, OneMore, TypeOK, FlagInv, BudgetHolds, EndsForAReason, Spent
  <2>5. LateInv' /\ StopIsObeyed' /\ DisconnectIsVisible'
    BY <1>6 DEF Connect, OneMore, TypeOK, FlagInv, KindInv, LateInv, StopIsObeyed,
                DisconnectIsVisible
  <2>. QED  BY <2>1, <2>2, <2>3, <2>4, <2>5
<1>7. CASE Connected
  <2>1. TypeOK'
    BY <1>7 DEF Connected, TypeOK, Places, AdapterStates, TransportStates
  <2>2. FlagInv' /\ KindInv' /\ EmitInv' /\ LossIsRecorded'
    BY <1>7 DEF Connected, TypeOK, FlagInv, KindInv, EmitInv, LossIsRecorded
  <2>3. PaidInv' /\ ReconnectsArePaid'
    BY <1>7 DEF Connected, TypeOK, FlagInv, KindInv, PaidInv, ReconnectsArePaid
  <2>4. BudgetHolds' /\ EndsForAReason'
    BY <1>7 DEF Connected, TypeOK, FlagInv, BudgetHolds, EndsForAReason, Spent
  <2>5. LateInv' /\ StopIsObeyed' /\ DisconnectIsVisible'
    BY <1>7 DEF Connected, TypeOK, FlagInv, KindInv, LateInv, StopIsObeyed,
                DisconnectIsVisible
  <2>. QED  BY <2>1, <2>2, <2>3, <2>4, <2>5
<1>8. CASE Await
  <2>1. TypeOK'
    BY <1>8 DEF Await, TypeOK, Places, AdapterStates, TransportStates
  <2>2. FlagInv' /\ KindInv' /\ EmitInv' /\ LossIsRecorded'
    BY <1>8 DEF Await, TypeOK, FlagInv, KindInv, EmitInv, LossIsRecorded
  <2>3. PaidInv' /\ ReconnectsArePaid'
    BY <1>8 DEF Await, TypeOK, FlagInv, KindInv, PaidInv, ReconnectsArePaid
  <2>4. BudgetHolds' /\ EndsForAReason'
    BY <1>8 DEF Await, TypeOK, FlagInv, BudgetHolds, EndsForAReason, Spent
  <2>5. LateInv' /\ StopIsObeyed' /\ DisconnectIsVisible'
    BY <1>8 DEF Await, TypeOK, FlagInv, KindInv, LateInv, StopIsObeyed,
                DisconnectIsVisible
  <2>. QED  BY <2>1, <2>2, <2>3, <2>4, <2>5
<1>9. CASE SessionEnds
  <2>1. TypeOK'
    BY <1>9 DEF SessionEnds, TypeOK, Places, AdapterStates, TransportStates
  <2>2. FlagInv' /\ KindInv' /\ EmitInv' /\ LossIsRecorded'
    BY <1>9 DEF SessionEnds, TypeOK, FlagInv, KindInv, EmitInv, LossIsRecorded
  <2>3. PaidInv' /\ ReconnectsArePaid'
    BY <1>9 DEF SessionEnds, TypeOK, FlagInv, KindInv, PaidInv, ReconnectsArePaid
  <2>4. BudgetHolds' /\ EndsForAReason'
    BY <1>9 DEF SessionEnds, TypeOK, FlagInv, BudgetHolds, EndsForAReason, Spent
  <2>5. LateInv' /\ StopIsObeyed' /\ DisconnectIsVisible'
    BY <1>9 DEF SessionEnds, TypeOK, FlagInv, KindInv, LateInv, StopIsObeyed,
                DisconnectIsVisible
  <2>. QED  BY <2>1, <2>2, <2>3, <2>4, <2>5
<1>10. CASE Poll
  <2>1. TypeOK'
    BY <1>10 DEF Poll, TypeOK, Places, AdapterStates, TransportStates
  <2>2. FlagInv' /\ KindInv' /\ EmitInv' /\ LossIsRecorded'
    BY <1>10 DEF Poll, TypeOK, FlagInv, KindInv, EmitInv, LossIsRecorded
  <2>3. PaidInv' /\ ReconnectsArePaid'
    BY <1>10 DEF Poll, TypeOK, FlagInv, KindInv, PaidInv, ReconnectsArePaid
  <2>4. BudgetHolds' /\ EndsForAReason'
    BY <1>10 DEF Poll, TypeOK, FlagInv, BudgetHolds, EndsForAReason, Spent
  <2>5. LateInv' /\ StopIsObeyed' /\ DisconnectIsVisible'
    BY <1>10 DEF Poll, TypeOK, FlagInv, KindInv, LateInv, StopIsObeyed,
                DisconnectIsVisible
  <2>. QED  BY <2>1, <2>2, <2>3, <2>4, <2>5
<1>11. CASE Receive
  <2>1. TypeOK'
    <3>1. left' \in 0..MaxParts  BY <1>11, PartsAssumption DEF Receive, Take, OneMore
    <3>. QED
      BY <1>11, <3>1 DEF Receive, Take, OneMore, TypeOK, Places, AdapterStates, TransportStates
  <2>2. FlagInv' /\ KindInv' /\ EmitInv' /\ LossIsRecorded'
    BY <1>11 DEF Receive, Take, OneMore, TypeOK, FlagInv, KindInv, EmitInv, LossIsRecorded
  <2>3. PaidInv' /\ ReconnectsArePaid'
    BY <1>11 DEF Receive, Take, OneMore, TypeOK, FlagInv, KindInv, PaidInv, ReconnectsArePaid
  <2>4. BudgetHolds' /\ EndsForAReason'
    BY <1>11 DEF Receive, Take, OneMore, TypeOK, FlagInv, BudgetHolds, EndsForAReason, Spent
  <2>5. LateInv' /\ StopIsObeyed' /\ DisconnectIsVisible'
    BY <1>11 DEF Receive, Take, OneMore, TypeOK, FlagInv, KindInv, LateInv, StopIsObeyed,
                DisconnectIsVisible
  <2>. QED  BY <2>1, <2>2, <2>3, <2>4, <2>5
<1>12. CASE Write
  <2>1. TypeOK'
    <3>. /\ pc = "emit" /\ left' = left - 1 /\ left \in 0..MaxParts /\ left > 0
         /\ MaxParts \in Nat
      BY <1>12, PartsAssumption DEF Write, EmitInv, TypeOK
    <3>1. left' \in 0..MaxParts  OBVIOUS
    <3>2. lost' \in Nat  BY <1>12 DEF Write, EmitInv, TypeOK
    <3>3. pc' \in Places  BY <1>12 DEF Write, TypeOK, Places
    <3>. QED
      BY <1>12, <3>1, <3>2, <3>3 DEF Write, TypeOK
  <2>2. FlagInv' /\ KindInv' /\ EmitInv' /\ LossIsRecorded'
    BY <1>12 DEF Write, TypeOK, FlagInv, KindInv, EmitInv, LossIsRecorded
  <2>3. PaidInv' /\ ReconnectsArePaid'
    BY <1>12 DEF Write, TypeOK, FlagInv, KindInv, PaidInv, ReconnectsArePaid
  <2>4. BudgetHolds' /\ EndsForAReason'
    BY <1>12 DEF Write, TypeOK, FlagInv, BudgetHolds, EndsForAReason, Spent
  <2>5. LateInv' /\ StopIsObeyed' /\ DisconnectIsVisible'
    BY <1>12 DEF Write, TypeOK, FlagInv, KindInv, LateInv, StopIsObeyed,
                DisconnectIsVisible
  <2>. QED  BY <2>1, <2>2, <2>3, <2>4, <2>5
<1>13. CASE ConnectFails
  BY <1>13, FailInv DEF ConnectFails, TypeOK, LossIsRecorded, LateInv, StopIsObeyed
<1>14. CASE ReceiveFails
  BY <1>14, FailInv DEF ReceiveFails, TypeOK, LossIsRecorded, LateInv, StopIsObeyed
<1>15. CASE ReceiveBroken
  BY <1>15, FailInv DEF ReceiveBroken, Take, OneMore, TypeOK, LossIsRecorded, LateInv, StopIsObeyed
<1>16. CASE Refused
  <2>1. CASE Fail
    BY <1>16, <2>1, FailInv DEF Refused, TypeOK, LossIsRecorded, LateInv, StopIsObeyed
  <2>2. CASE ~Fail
    <3>1. /\ state' = "failed" /\ failures' = failures + 1
          /\ transport' = "backpressure" /\ left' = 0
          /\ pc' = "done" /\ ~running' /\ running' \in BOOLEAN /\ pc = "emit"
          /\ UNCHANGED <<kind, policy, owner, reconnects, attempts, opened, lost,
                         late>>
      BY <1>16, <2>2 DEF Refused
    <3>2. TypeOK'
      <4>1. 0 \in 0..MaxParts  BY PartsAssumption
      <4>. QED
        BY <3>1, <4>1 DEF TypeOK, Places, AdapterStates, TransportStates
    <3>3. FlagInv' /\ KindInv' /\ EmitInv' /\ LossIsRecorded'
      BY <3>1 DEF TypeOK, FlagInv, KindInv, EmitInv, LossIsRecorded
    <3>4. PaidInv' /\ ReconnectsArePaid' /\ BudgetHolds'
      BY <3>1 DEF TypeOK, PaidInv, ReconnectsArePaid, BudgetHolds
    <3>5. EndsForAReason' /\ LateInv' /\ StopIsObeyed' /\ DisconnectIsVisible'
      BY <3>1 DEF TypeOK, EndsForAReason, LateInv, StopIsObeyed, DisconnectIsVisible
    <3>. QED  BY <3>2, <3>3, <3>4, <3>5
  <2>. QED  BY <2>1, <2>2
<1>18. CASE Enter
  <2>1. TypeOK'
    BY <1>18 DEF Enter, TypeOK, Places, AdapterStates, TransportStates
  <2>2. FlagInv' /\ KindInv' /\ EmitInv' /\ LossIsRecorded'
    BY <1>18 DEF Enter, TypeOK, FlagInv, KindInv, EmitInv, LossIsRecorded
  <2>3. PaidInv' /\ ReconnectsArePaid'
    BY <1>18 DEF Enter, TypeOK, FlagInv, KindInv, PaidInv, ReconnectsArePaid
  <2>4. BudgetHolds' /\ EndsForAReason'
    BY <1>18 DEF Enter, TypeOK, FlagInv, BudgetHolds, EndsForAReason, Spent
  <2>5. LateInv' /\ StopIsObeyed' /\ DisconnectIsVisible'
    BY <1>18 DEF Enter, TypeOK, FlagInv, KindInv, LateInv, StopIsObeyed,
                DisconnectIsVisible
  <2>. QED  BY <2>1, <2>2, <2>3, <2>4, <2>5
<1>17. CASE UNCHANGED vars
  BY <1>17
  DEF vars, TypeOK, FlagInv, KindInv, EmitInv, LossIsRecorded, PaidInv, ReconnectsArePaid,
      BudgetHolds, EndsForAReason, Spent, LateInv, StopIsObeyed, DisconnectIsVisible
<1>. QED
  BY <1>1, <1>2, <1>3, <1>4, <1>5, <1>6, <1>7, <1>8, <1>9, <1>10, <1>11, <1>12, <1>13, <1>14, <1>15, <1>16, <1>17, <1>18
  DEF Next, AdapterStep, Ended

(* Every reachable state of an adapter thread satisfies the inductive invariant,   *)
(* whatever the socket, the clock and the caller of stop do: the theorems below    *)
(* only read their property off it.                                                *)
THEOREM InductiveInvariant == Spec => []IInv
<1>1. Init => IInv  BY InitInv
<1>2. IInv /\ [Next]_vars => IInv'  BY StepInv
<1>. QED  BY <1>1, <1>2, PTL DEF Spec

(* The variables keep their types. *)
THEOREM TypeCorrect == Spec => []TypeOK
  BY InductiveInvariant, PTL DEF IInv

(* No message is lost without a failure counted for it: pipeline and sink    *)
(* errors in the middle of a message (_handle_message) included.             *)
THEOREM LossesAreRecorded == Spec => []LossIsRecorded
  BY InductiveInvariant, PTL DEF IInv

(* The thread ends as stopped, or as failed, for the reason it reports, and a *)
(* lost connection is never hidden behind an old report.                     *)
THEOREM ReportsStayTrue == Spec => []ReportsAreTrue
  BY InductiveInvariant, PTL DEF IInv, ReportsAreTrue

(* Once stop is called the thread does one thing more at most: it tries the  *)
(* connection it had looked at the flag for, or takes the message it had.    *)
THEOREM StopObeyed == Spec => []StopIsObeyed
  BY InductiveInvariant, PTL DEF IInv

----
\* The backoff
\*
\* The delays of a policy, and what they add up to, are recursive functions.
\* That there are such functions, and what they return, goes by induction over
\* the rounds, stated of sets of naturals so that it is a fact like any other.

LEMMA NatSetInduction ==
  ASSUME NEW S, 0 \in S, \A n \in Nat : n \in S => n + 1 \in S
  PROVE  Nat \subseteq S
<1>. DEFINE R == {p \in Nat \X Nat : p[1] < p[2]}
<1>1. IsWellFoundedOn(R, Nat)
  <2>1. OpToRel(<, Nat) = R  BY DEF OpToRel
  <2>. QED  BY <2>1, NatLessThanWellFounded
<1>2. \A m, n \in Nat : <<m, n>> \in R <=> m < n  OBVIOUS
<1>. HIDE DEF R
<1>. SUFFICES ASSUME Nat \ S # {}  PROVE FALSE  OBVIOUS
<1>3. PICK n \in Nat \ S : \A m \in Nat \ S : ~(<<m, n>> \in R)  BY <1>1, WFMin
<1>4. n # 0 /\ n - 1 \in Nat  BY <1>3
<1>5. <<n - 1, n>> \in R  BY <1>2, <1>3, <1>4
<1>6. n - 1 \in S  BY <1>3, <1>4, <1>5
<1>. QED  BY <1>3, <1>4, <1>6

(* F has what the first N steps from a return. *)
Steps(F, a, step, N) ==
  F[0] = a /\ \A n \in 1..N : F[n] = step[<<n, F[n - 1]>>]

(* A step that takes values of S to values of S can be taken N times.        *)
LEMMA RecursionExists ==
  ASSUME NEW S, NEW a \in S, NEW step \in [Nat \X S -> S], NEW N \in Nat
  PROVE  \E F \in [0..N -> S] : Steps(F, a, step, N)
<1>. DEFINE T == {n \in Nat : \E F \in [0..n -> S] : Steps(F, a, step, n)}
<1>1. 0 \in T
  <2>1. [i \in 0..0 |-> a] \in [0..0 -> S] /\ Steps([i \in 0..0 |-> a], a, step, 0)
    BY DEF Steps
  <2>. QED  BY <2>1
<1>2. ASSUME NEW n \in Nat, n \in T  PROVE n + 1 \in T
  <2>0. PICK F \in [0..n -> S] : Steps(F, a, step, n)  BY <1>2
  <2>1. F[0] = a /\ \A i \in 1..n : F[i] = step[<<i, F[i - 1]>>]
    BY <2>0 DEF Steps
  <2>. DEFINE G == [i \in 0..n + 1 |-> IF i <= n THEN F[i] ELSE step[<<n + 1, F[n]>>]]
  <2>2. F[n] \in S /\ step[<<n + 1, F[n]>>] \in S  OBVIOUS
  <2>3. G \in [0..n + 1 -> S]  BY <2>2
  <2>4. G[0] = a  BY <2>1
  <2>5. ASSUME NEW i \in 1..n + 1  PROVE G[i] = step[<<i, G[i - 1]>>]
    <3>1. CASE i <= n  BY <2>1, <3>1
    <3>2. CASE i = n + 1  BY <3>2
    <3>. QED  BY <3>1, <3>2
  <2>6. Steps(G, a, step, n + 1)  BY <2>4, <2>5 DEF Steps
  <2>. HIDE DEF G
  <2>. QED  BY <2>3, <2>6
<1>. HIDE DEF T
<1>3. N \in T  BY <1>1, <1>2, NatSetInduction
<1>. QED  BY <1>3 DEF T

(* What d adds up to, as a function of how many delays are counted. *)
SumOf(d) ==
  CHOOSE F : F = [n \in 0..Len(d) |-> IF n = 0 THEN 0 ELSE F[n - 1] + d[n]]

LEMMA SumUnfolds ==
  ASSUME NEW d \in Seq(Nat)
  PROVE  /\ Total(d) = SumOf(d)[Len(d)]
         /\ SumOf(d)[0] = 0
         /\ \A n \in 1..Len(d) : SumOf(d)[n] = SumOf(d)[n - 1] + d[n]
<1>. DEFINE Is(F) == F = [n \in 0..Len(d) |-> IF n = 0 THEN 0 ELSE F[n - 1] + d[n]]
            step == [x \in Nat \X Nat |-> IF x[1] \in 1..Len(d) THEN x[2] + d[x[1]] ELSE 0]
<1>1. Len(d) \in Nat /\ \A n \in 1..Len(d) : d[n] \in Nat  BY LenProperties, ElementOfSeq
<1>2. step \in [Nat \X Nat -> Nat]  BY <1>1
<1>2a. \A n \in 1..Len(d), x \in Nat : step[<<n, x>>] = x + d[n]  BY <1>1
<1>. HIDE DEF step
<1>3a. 0 \in Nat  OBVIOUS
<1>3b. PICK F \in [0..Len(d) -> Nat] : Steps(F, 0, step, Len(d))
  BY <1>1, <1>2, <1>3a, RecursionExists
<1>3. F[0] = 0 /\ \A i \in 1..Len(d) : F[i] = step[<<i, F[i - 1]>>]
  BY <1>3b DEF Steps
<1>4. Is(F)
  <2>. DEFINE G == [n \in 0..Len(d) |-> IF n = 0 THEN 0 ELSE F[n - 1] + d[n]]
  <2>1. ASSUME NEW n \in 0..Len(d)  PROVE F[n] = G[n]
    <3>1. CASE n = 0  BY <1>3, <3>1
    <3>2. CASE n # 0
      <4>1. n \in 1..Len(d) /\ n - 1 \in 0..Len(d)  BY <1>1, <3>2
      <4>2. F[n - 1] \in Nat  BY <1>3b, <4>1
      <4>. QED  BY <1>2a, <1>3, <3>2, <4>1, <4>2
    <3>. QED  BY <3>1, <3>2
  <2>2. G = [n \in 0..Len(d) |-> G[n]]  OBVIOUS
  <2>. HIDE DEF G
  <2>3. F = G  BY <2>1, <2>2
  <2>. QED  BY <2>3 DEF G
<1>5. Is(SumOf(d))
  <2>. HIDE DEF Is
  <2>1. \E G : Is(G)  BY <1>4
  <2>2. Is(CHOOSE G : Is(G))  BY <2>1
  <2>. QED  BY <2>2 DEF Is, SumOf
<1>6. Total(d) = SumOf(d)[Len(d)]  BY DEF Total, SumOf
<1>7. /\ SumOf(d)[0] = 0
      /\ \A n \in 1..Len(d) : SumOf(d)[n] = SumOf(d)[n - 1] + d[n]
  BY <1>1, <1>5
<1>. QED  BY <1>6, <1>7

LEMMA TotalOfNone == Total(<<>>) = 0
<1>1. <<>> \in Seq(Nat) /\ Len(<<>>) = 0  OBVIOUS
<1>. QED  BY <1>1, SumUnfolds

LEMMA TotalAppended ==
  ASSUME NEW d \in Seq(Nat), NEW x \in Nat
  PROVE  Total(Append(d, x)) = Total(d) + x
<1>. DEFINE e == Append(d, x)
            n == Len(d)
            T == {i \in Nat : i <= n => SumOf(e)[i] = SumOf(d)[i]}
<1>1. /\ n \in Nat
      /\ e \in Seq(Nat) /\ Len(e) = n + 1 /\ e[n + 1] = x
      /\ \A i \in 1..n : e[i] = d[i]
  BY AppendProperties, LenProperties
<1>2. /\ Total(d) = SumOf(d)[n] /\ SumOf(d)[0] = 0
      /\ \A i \in 1..n : SumOf(d)[i] = SumOf(d)[i - 1] + d[i]
  BY SumUnfolds
<1>3. /\ Total(e) = SumOf(e)[n + 1] /\ SumOf(e)[0] = 0
      /\ \A i \in 1..n + 1 : SumOf(e)[i] = SumOf(e)[i - 1] + e[i]
  BY <1>1, SumUnfolds
<1>. HIDE DEF e, n
<1>4. 0 \in T  BY <1>2, <1>3
<1>5. ASSUME NEW i \in Nat, i \in T  PROVE i + 1 \in T
  <2>. SUFFICES ASSUME i + 1 <= n  PROVE SumOf(e)[i + 1] = SumOf(d)[i + 1]  OBVIOUS
  <2>1. SumOf(e)[i] = SumOf(d)[i]  BY <1>1, <1>5
  <2>2. i + 1 \in 1..n /\ i + 1 \in 1..n + 1 /\ (i + 1) - 1 = i  BY <1>1
  <2>3. SumOf(d)[i + 1] = SumOf(d)[i] + d[i + 1]  BY <1>2, <2>2
  <2>4. SumOf(e)[i + 1] = SumOf(e)[i] + e[i + 1]  BY <1>3, <2>2
  <2>. QED  BY <1>1, <2>1, <2>2, <2>3, <2>4
<1>. HIDE DEF T
<1>6. n \in T  BY <1>1, <1>4, <1>5, NatSetInduction
<1>7. SumOf(e)[n] = SumOf(d)[n]  BY <1>1, <1>6 DEF T
<1>8. n + 1 \in 1..n + 1 /\ (n + 1) - 1 = n  BY <1>1
<1>9. SumOf(e)[n + 1] = SumOf(e)[n] + e[n + 1]  BY <1>3, <1>8
<1>. QED  BY <1>1, <1>2, <1>3, <1>7, <1>9 DEF e

Round == [delays : Seq(Nat), delay : Nat, elapsed : Nat]

NextRound(p, r) ==
  IF Over(p, r) THEN r
  ELSE [delays  |-> Append(r.delays, r.delay),
        delay   |-> Capped(p, r.delay * 2),
        elapsed |-> r.elapsed + r.delay]

FirstRound(p) == [delays |-> <<>>, delay |-> p.min, elapsed |-> 0]

RoundOf(p) ==
  CHOOSE F : F = [n \in 0..p.attempts |-> IF n = 0 THEN FirstRound(p) ELSE NextRound(p, F[n - 1])]

LEMMA RoundType ==
  ASSUME NEW p \in Policies
  PROVE  /\ FirstRound(p) \in Round
         /\ \A r \in Round : NextRound(p, r) \in Round
<1>1. FirstRound(p) \in Round
  <2>1. <<>> \in Seq(Nat) /\ p.min \in Nat  BY PolicyAssumption
  <2>. QED  BY <2>1 DEF FirstRound, Round
<1>2. ASSUME NEW r \in Round  PROVE NextRound(p, r) \in Round
  <2>1. r.delays \in Seq(Nat) /\ r.delay \in Nat /\ r.elapsed \in Nat  BY DEF Round
  <2>2. Append(r.delays, r.delay) \in Seq(Nat)  BY <2>1, AppendProperties
  <2>3. Capped(p, r.delay * 2) \in Nat /\ r.elapsed + r.delay \in Nat
    BY <2>1, PolicyAssumption DEF Capped
  <2>. QED  BY <2>2, <2>3 DEF NextRound, Round
<1>. QED  BY <1>1, <1>2

LEMMA RoundsUnfold ==
  ASSUME NEW p \in Policies
  PROVE  /\ Rounds(p) = RoundOf(p)[p.attempts]
         /\ RoundOf(p)[0] = FirstRound(p)
         /\ \A n \in 1..p.attempts : RoundOf(p)[n] = NextRound(p, RoundOf(p)[n - 1])
<1>. DEFINE Is(F) == F = [n \in 0..p.attempts |->
                            IF n = 0 THEN FirstRound(p) ELSE NextRound(p, F[n - 1])]
            step == [x \in Nat \X Round |-> NextRound(p, x[2])]
            N == p.attempts
<1>1. N \in Nat  BY PolicyAssumption
<1>2. FirstRound(p) \in Round /\ step \in [Nat \X Round -> Round]  BY RoundType
<1>3. \A n \in 1..N, r \in Round : step[<<n, r>>] = NextRound(p, r)  BY <1>1
<1>. HIDE DEF step, N
<1>4. PICK F \in [0..N -> Round] : Steps(F, FirstRound(p), step, N)
  BY <1>1, <1>2, RecursionExists
<1>5. F[0] = FirstRound(p) /\ \A i \in 1..N : F[i] = step[<<i, F[i - 1]>>]
  BY <1>4 DEF Steps
<1>6. Is(F)
  <2>. DEFINE G == [n \in 0..N |-> IF n = 0 THEN FirstRound(p) ELSE NextRound(p, F[n - 1])]
  <2>1. ASSUME NEW n \in 0..N  PROVE F[n] = G[n]
    <3>1. CASE n = 0  BY <1>5, <3>1
    <3>2. CASE n # 0
      <4>1. n \in 1..N /\ n - 1 \in 0..N  BY <1>1, <3>2
      <4>2. F[n - 1] \in Round  BY <1>4, <4>1
      <4>. QED  BY <1>3, <1>5, <3>2, <4>1, <4>2
    <3>. QED  BY <3>1, <3>2
  <2>2. G = [n \in 0..N |-> G[n]]  OBVIOUS
  <2>. HIDE DEF G
  <2>3. F = G  BY <1>4, <2>1, <2>2
  <2>. QED  BY <2>3 DEF G, N
<1>7. Is(RoundOf(p))
  <2>. HIDE DEF Is
  <2>1. \E G : Is(G)  BY <1>6
  <2>2. Is(CHOOSE G : Is(G))  BY <2>1
  <2>. QED  BY <2>2 DEF Is, RoundOf
<1>8. Rounds(p) = RoundOf(p)[p.attempts]
  BY DEF Rounds, RoundOf, FirstRound, NextRound
<1>9. /\ RoundOf(p)[0] = FirstRound(p)
      /\ \A n \in 1..p.attempts : RoundOf(p)[n] = NextRound(p, RoundOf(p)[n - 1])
  BY <1>1, <1>7 DEF N
<1>. QED  BY <1>8, <1>9

(* The delay that follows n delays of d. *)
Following(p, d, n) == IF n = 0 THEN p.min ELSE Capped(p, 2 * d[n])

(* After n rounds a schedule is as described, and it is n delays long unless *)
(* the next one would not fit any more.                                      *)
RoundIsRight(p, r, n) ==
  /\ r \in Round
  /\ Len(r.delays) <= n
  /\ \A k \in 1..Len(r.delays) :
       r.delays[k] = Following(p, r.delays, k - 1) /\ r.delays[k] \in p.min..p.max
  /\ r.delay = Following(p, r.delays, Len(r.delays)) /\ r.delay \in p.min..p.max
  /\ r.elapsed = Total(r.delays)
  /\ p.elapsed # NoLimit => r.elapsed <= p.elapsed
  /\ Len(r.delays) = n \/ Over(p, r)

LEMMA RoundKept ==
  ASSUME NEW p \in Policies, NEW n \in Nat, NEW r, RoundIsRight(p, r, n)
  PROVE  RoundIsRight(p, NextRound(p, r), n + 1)
<1>. DEFINE d == r.delays
            e == Append(d, r.delay)
            s == [delays |-> e, delay |-> Capped(p, r.delay * 2), elapsed |-> r.elapsed + r.delay]
<1>1. /\ d \in Seq(Nat) /\ r.delay \in Nat /\ r.elapsed \in Nat /\ r \in Round
      /\ p.min \in Nat \ {0} /\ p.max \in Nat /\ p.min <= p.max
      /\ p.elapsed # NoLimit => p.elapsed \in Nat
  BY PolicyAssumption DEF RoundIsRight, Round
<1>2. CASE Over(p, r)
  <2>1. NextRound(p, r) = r  BY <1>2 DEF NextRound
  <2>2. Len(d) \in Nat  BY <1>1, LenProperties
  <2>. QED  BY <1>2, <2>1, <2>2 DEF RoundIsRight
<1>3. CASE ~Over(p, r)
  <2>1. NextRound(p, r) = s  BY <1>3 DEF NextRound
  <2>2. /\ Len(d) \in Nat /\ e \in Seq(Nat) /\ Len(e) = Len(d) + 1
        /\ e[Len(d) + 1] = r.delay /\ \A k \in 1..Len(d) : e[k] = d[k]
    BY <1>1, AppendProperties, LenProperties
  <2>3. Total(e) = Total(d) + r.delay  BY <1>1, TotalAppended
  <2>4. s.delays = e /\ s.delay = Capped(p, r.delay * 2) /\ s.elapsed = r.elapsed + r.delay
    OBVIOUS
  <2>5. s \in Round  BY <1>1, <2>1, RoundType
  <2>. HIDE DEF s, e
  <2>6. /\ Len(d) = n
        /\ \A k \in 1..Len(d) : d[k] = Following(p, d, k - 1) /\ d[k] \in p.min..p.max
        /\ r.delay = Following(p, d, Len(d)) /\ r.delay \in p.min..p.max
        /\ r.elapsed = Total(d)
    BY <1>3 DEF RoundIsRight
  <2>7. \A k \in 0..Len(d) : Following(p, e, k) = Following(p, d, k)
    <3>. SUFFICES ASSUME NEW k \in 0..Len(d), k # 0  PROVE e[k] = d[k]
      BY DEF Following
    <3>. QED  BY <2>2
  <2>8. ASSUME NEW k \in 1..Len(e)
        PROVE  e[k] = Following(p, e, k - 1) /\ e[k] \in p.min..p.max
    <3>1. CASE k <= Len(d)
      <4>1. k \in 1..Len(d) /\ k - 1 \in 0..Len(d)  BY <2>2, <3>1
      <4>. QED  BY <2>2, <2>6, <2>7, <4>1
    <3>2. CASE k = Len(d) + 1
      <4>1. k - 1 = Len(d) /\ Len(d) \in 0..Len(d)  BY <2>2, <3>2
      <4>. QED  BY <2>2, <2>6, <2>7, <3>2, <4>1
    <3>. QED  BY <2>2, <3>1, <3>2
  <2>9. s.delay = Following(p, e, Len(e)) /\ s.delay \in p.min..p.max
    <3>1. Len(e) # 0 /\ e[Len(e)] = r.delay  BY <2>2
    <3>2. r.delay * 2 = 2 * e[Len(e)] /\ r.delay * 2 >= p.min  BY <1>1, <2>6, <3>1
    <3>3. Capped(p, r.delay * 2) \in p.min..p.max  BY <1>1, <3>2 DEF Capped
    <3>4. Following(p, e, Len(e)) = Capped(p, r.delay * 2)  BY <3>1, <3>2 DEF Following
    <3>. QED  BY <2>4, <3>3, <3>4
  <2>10. p.elapsed # NoLimit => s.elapsed <= p.elapsed
    BY <1>1, <1>3, <2>4 DEF Over
  <2>11. RoundIsRight(p, s, n + 1)
    BY <2>2, <2>3, <2>4, <2>5, <2>6, <2>8, <2>9, <2>10 DEF RoundIsRight
  <2>. QED  BY <2>1, <2>11
<1>. QED  BY <1>2, <1>3

LEMMA RoundsAreRight ==
  ASSUME NEW p \in Policies  PROVE RoundIsRight(p, Rounds(p), p.attempts)
<1>. DEFINE T == {n \in Nat : n <= p.attempts => RoundIsRight(p, RoundOf(p)[n], n)}
<1>1. /\ p.attempts \in Nat /\ p.min \in Nat \ {0} /\ p.max \in Nat /\ p.min <= p.max
      /\ p.elapsed # NoLimit => p.elapsed \in Nat
  BY PolicyAssumption
<1>2. 0 \in T
  <2>1. /\ FirstRound(p) \in Round /\ FirstRound(p).delays = <<>>
        /\ FirstRound(p).delay = p.min /\ FirstRound(p).elapsed = 0
    BY RoundType DEF FirstRound
  <2>2. Len(<<>>) = 0 /\ Total(<<>>) = 0  BY TotalOfNone
  <2>3. RoundIsRight(p, FirstRound(p), 0)
    BY <1>1, <2>1, <2>2 DEF RoundIsRight, Following
  <2>. QED  BY <2>3, RoundsUnfold
<1>3. ASSUME NEW n \in Nat, n \in T  PROVE n + 1 \in T
  <2>. SUFFICES ASSUME n + 1 <= p.attempts  PROVE RoundIsRight(p, RoundOf(p)[n + 1], n + 1)
    OBVIOUS
  <2>1. RoundIsRight(p, RoundOf(p)[n], n)  BY <1>1, <1>3
  <2>2. n + 1 \in 1..p.attempts /\ (n + 1) - 1 = n  BY <1>1
  <2>3. RoundOf(p)[n + 1] = NextRound(p, RoundOf(p)[n])  BY <2>2, RoundsUnfold
  <2>. QED  BY <2>1, <2>3, RoundKept
<1>. HIDE DEF T
<1>4. p.attempts \in T  BY <1>1, <1>2, <1>3, NatSetInduction
<1>. QED  BY <1>1, <1>4, RoundsUnfold DEF T

(* Whatever the policy, the schedule it gives is the one it describes: the   *)
(* minimum, doubled and capped, as often as attempts and limit allow.        *)
THEOREM BackoffsAreBounded == Spec => []BackoffIsBounded
<1>1. policy \in Policies => BackoffIsBounded
  <2>. SUFFICES ASSUME policy \in Policies  PROVE BackoffIsBounded  OBVIOUS
  <2>1. RoundIsRight(policy, Rounds(policy), policy.attempts)  BY RoundsAreRight
  <2>2. Len(Delays(policy)) \in Nat
    BY <2>1, LenProperties DEF RoundIsRight, Round, Delays
  <2>3. /\ Rounds(policy).elapsed = Total(Delays(policy))
        /\ Rounds(policy).delay = Following(policy, Delays(policy), Len(Delays(policy)))
    BY <2>1 DEF RoundIsRight, Delays
  <2>4. \/ Len(Delays(policy)) = policy.attempts
        \/ /\ policy.elapsed # NoLimit
           /\ Total(Delays(policy)) + Following(policy, Delays(policy), Len(Delays(policy)))
                > policy.elapsed
    BY <2>1, <2>3 DEF RoundIsRight, Delays, Over
  <2>. QED  BY <2>1, <2>2, <2>3, <2>4 DEF BackoffIsBounded, RoundIsRight, Delays, Following
<1>2. Init => policy \in Policies  BY DEF Init
<1>3. policy \in Policies /\ [Next]_vars => (policy \in Policies)'
  BY DEF Next, vars, Start, Stop, AdapterStep, Ended, Begin, Leave, Wake, Enter, Connect,
         ConnectFails, Connected, Await, SessionEnds, Poll, ReceiveFails, Receive,
         ReceiveBroken, Write, Refused
<1>. QED  BY <1>1, <1>2, <1>3, PTL DEF Spec

(* The retries of a whole life fit the schedule, which is the one its policy *)
(* describes, and each further connection of a stream is paid for by a       *)
(* failure.                                                                  *)
THEOREM RetriesStayBudgeted == Spec => []RetriesAreBudgeted
  BY InductiveInvariant, BackoffsAreBounded, PTL DEF IInv, RetriesAreBudgeted
====
