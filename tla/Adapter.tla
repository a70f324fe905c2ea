------------------------------ MODULE Adapter ------------------------------
(***************************************************************************)
(* One market data adapter (src/src/market_data): the thread that keeps a  *)
(* connection to the exchange, or polls it, and hands every message to the *)
(* pipeline and its sink; the supervisor that counts its failures and      *)
(* hands out the backoff; the transport state it reports; and the runtime  *)
(* that starts and stops it from another thread.                           *)
(*                                                                         *)
(* The exchange, the network and the sink are external: a connection may   *)
(* fail or break whenever it is waited for, a message may come at any      *)
(* time, and any write may be refused with one of SinkErrors.  A message   *)
(* is the number of records it yields, decode failures included.           *)
(***************************************************************************)
EXTENDS Integers, Sequences

CONSTANTS Policies,     \* the retry policies: [min, max, attempts, elapsed]
          NoLimit,      \* the elapsed of a policy without max_elapsed_ms
          MaxParts,     \* the most records one message yields
          SinkErrors    \* how a write may be refused: "backpressure", "error"

(* What _validate_retry lets through. *)
ASSUME PolicyAssumption ==
  \A p \in Policies :
    /\ p.min \in Nat \ {0} /\ p.max \in Nat /\ p.min <= p.max
    /\ p.attempts \in Nat \ {0}
    /\ p.elapsed = NoLimit \/ p.elapsed \in Nat \ {0}

ASSUME PartsAssumption == MaxParts \in Nat \ {0}
ASSUME ErrorsAssumption == SinkErrors \subseteq {"backpressure", "error"}

VARIABLES
  kind,        \* "stream" (a websocket) or "poller" (REST)
  policy,      \* the retry policy of the adapter
  owner,       \* the runtime: "new", "started", "stopped"
  running,     \* the _running flag, shared by the two threads
  pc,          \* where the adapter thread is
  state,       \* the supervisor's status.state
  failures,    \* the supervisor's status.failure_count
  left,        \* records of the current message still to be written
  transport,   \* the transport state last reported to the health tracker
  reconnects,  \* the counter market_data.transport.reconnects
  attempts,    \* connections a stream has tried to open
  opened,      \* connections established
  lost,        \* messages received less messages written in full
  late         \* connections tried and messages taken since the runtime
               \* called stop, up to 2

vars == <<kind, policy, owner, running, pc, state, failures, left, transport,
          reconnects, attempts, opened, lost, late>>

AdapterStates == {"created", "running", "stopped", "failed"}

TransportStates ==
  {"none", "connecting", "connected", "failed", "backpressure"}

Places == {"new", "ready", "loop", "dialing", "opening", "session",
           "waiting", "emit", "backoff", "done"}

(* The adapter's thread does one thing more, a connection or a message,    *)
(* which counts once the runtime has called stop.                          *)
OneMore == late' = IF owner = "stopped" /\ late < 2 THEN late + 1 ELSE late
-----------------------------------------------------------------------------
(* Mutant: the limit is checked before the delay is added. *)
OverLate(p, r) == p.elapsed # NoLimit /\ r.elapsed > p.elapsed

(* RetrySchedule.delays: double the delay up to the maximum, stop at the   *)
(* number of attempts or at the last delay that fits the elapsed limit.    *)
(* Once a delay does not fit nothing changes any more, so a round that is  *)
(* over the limit needs no flag for the break.                             *)
Over(p, r) == p.elapsed # NoLimit /\ r.elapsed + r.delay > p.elapsed

Capped(p, d) == IF d <= p.max THEN d ELSE p.max

Rounds(p) ==
  LET Round[n \in 0..p.attempts] ==
        IF n = 0
        THEN [delays |-> <<>>, delay |-> p.min, elapsed |-> 0]
        ELSE LET r == Round[n - 1] IN
             IF Over(p, r) THEN r
             ELSE [delays  |-> Append(r.delays, r.delay),
                   delay   |-> Capped(p, r.delay * 2),
                   elapsed |-> r.elapsed + r.delay]
  IN Round[p.attempts]

Delays(p) == Rounds(p).delays

(* Mutant: one retry too many. *)
SpentLate(n) == n > Len(Delays(policy)) + 1

(* next_retry_delay_ms gives None after the n-th failure. *)
Spent(n) == n > Len(Delays(policy))
-----------------------------------------------------------------------------
Init ==
  /\ kind \in {"stream", "poller"} /\ policy \in Policies
  /\ owner = "new" /\ running = FALSE /\ pc = "new"
  /\ state = "created" /\ failures = 0
  /\ left = 0 /\ transport = "none"
  /\ reconnects = 0 /\ attempts = 0 /\ opened = 0 /\ lost = 0 /\ late = 0

-----------------------------------------------------------------------------
(* The runtime's thread.                                                   *)

(* MarketDataRuntime.start: raise the flag, then start the thread. *)
Start ==
  /\ owner = "new"
  /\ owner' = "started" /\ running' = TRUE /\ pc' = "ready"
  /\ UNCHANGED <<kind, policy, state, failures, left, transport, reconnects,
                 attempts, opened, lost, late>>

(* MarketDataRuntime.stop: lower the flag.  The join gives up after a      *)
(* second, so nothing of the adapter's thread is waited for.               *)
Stop ==
  /\ owner = "started"
  /\ owner' = "stopped" /\ running' = FALSE
  /\ UNCHANGED <<kind, policy, pc, state, failures, left, transport,
                 reconnects, attempts, opened, lost, late>>

-----------------------------------------------------------------------------
(* The adapter's thread: run and its loop.                                 *)

(* Mutant: run raises the flag as well as start. *)
BeginRaisesFlag ==
  /\ pc = "ready"
  /\ pc' = "loop" /\ state' = "running" /\ running' = TRUE
  /\ UNCHANGED <<kind, policy, owner, failures, left, transport,
                 reconnects, attempts, opened, lost, late>>

Begin ==
  /\ pc = "ready"
  /\ pc' = "loop" /\ state' = "running"
  /\ UNCHANGED <<kind, policy, owner, running, failures, left, transport,
                 reconnects, attempts, opened, lost, late>>

(* The loop ends because the flag is down. *)
Leave ==
  /\ pc = "loop" /\ ~running
  /\ pc' = "done" /\ state' = "stopped"
  /\ UNCHANGED <<kind, policy, owner, running, failures, left, transport,
                 reconnects, attempts, opened, lost, late>>

(* Mutant: the thread falls through to record_stop when it gives up. *)
FailFallsThrough ==
  /\ state' = "failed" /\ failures' = failures + 1
  /\ transport' = "failed" /\ left' = 0
  /\ \/ Spent(failures + 1) /\ pc' = "loop" /\ running' = FALSE
     \/ ~Spent(failures + 1) /\ pc' = "backoff" /\ UNCHANGED running

(* Mutant: the failure is counted and not reported. *)
FailUnreported ==
  /\ state' = "failed" /\ failures' = failures + 1
  /\ UNCHANGED transport /\ left' = 0
  /\ \/ Spent(failures + 1) /\ pc' = "done" /\ running' = FALSE
     \/ ~Spent(failures + 1) /\ pc' = "backoff" /\ UNCHANGED running

(* Any exception that is not a BackpressureError: count it, then back off, *)
(* or give up when the schedule has no delay left.                         *)
Fail ==
  /\ state' = "failed" /\ failures' = failures + 1
  /\ transport' = "failed" /\ left' = 0
  /\ \/ Spent(failures + 1) /\ pc' = "done" /\ running' = FALSE
     \/ ~Spent(failures + 1) /\ pc' = "backoff" /\ UNCHANGED running

(* The backoff is slept in full, whatever becomes of the flag. *)
Wake ==
  /\ pc = "backoff"
  /\ pc' = "loop"
  /\ UNCHANGED <<kind, policy, owner, running, state, failures, left,
                 transport, reconnects, attempts, opened, lost, late>>

-----------------------------------------------------------------------------
(* A stream's session: _consume_stream.                                    *)

(* Mutant: the flag is not read before a connection. *)
EnterUnchecked ==
  /\ pc = "loop" /\ kind = "stream"
  /\ pc' = "dialing"
  /\ UNCHANGED <<kind, policy, owner, running, state, failures, left,
                 transport, reconnects, attempts, opened, lost, late>>

(* The loop reads the flag and enters the session.  It is not read again   *)
(* before the connection is tried: a stop may come in between.             *)
Enter ==
  /\ pc = "loop" /\ running /\ kind = "stream"
  /\ pc' = "dialing"
  /\ UNCHANGED <<kind, policy, owner, running, state, failures, left,
                 transport, reconnects, attempts, opened, lost, late>>

Connect ==
  /\ pc = "dialing"
  /\ pc' = "opening" /\ transport' = "connecting" /\ attempts' = attempts + 1
  /\ OneMore
  /\ UNCHANGED <<kind, policy, owner, running, state, failures, left,
                 reconnects, opened, lost>>

ConnectFails ==
  /\ pc = "opening"
  /\ Fail
  /\ UNCHANGED <<kind, policy, owner, reconnects, attempts, opened, lost,
                 late>>

(* The counter of reconnects is raised by the count of failures so far. *)
Connected ==
  /\ pc = "opening"
  /\ pc' = "session" /\ transport' = "connected"
  /\ opened' = opened + 1 /\ reconnects' = reconnects + failures
  /\ UNCHANGED <<kind, policy, owner, running, state, failures, left,
                 attempts, lost, late>>

(* The flag is read before every recv, and not after it. *)
Await ==
  /\ pc = "session" /\ running
  /\ pc' = "waiting"
  /\ UNCHANGED <<kind, policy, owner, running, state, failures, left,
                 transport, reconnects, attempts, opened, lost, late>>

(* Mutant: a peer that hangs up ends the session without an error. *)
SessionEndsQuietly ==
  /\ pc = "session"
  /\ pc' = "loop"
  /\ UNCHANGED <<kind, policy, owner, running, state, failures, left,
                 transport, reconnects, attempts, opened, lost, late>>

SessionEnds ==
  /\ pc = "session" /\ ~running
  /\ pc' = "loop"
  /\ UNCHANGED <<kind, policy, owner, running, state, failures, left,
                 transport, reconnects, attempts, opened, lost, late>>

-----------------------------------------------------------------------------
(* Mutant: the flag is not read before a poll. *)
PollUnchecked ==
  /\ pc = "loop" /\ kind = "poller"
  /\ pc' = "waiting"
  /\ UNCHANGED <<kind, policy, owner, running, state, failures, left,
                 transport, reconnects, attempts, opened, lost, late>>

(* A poller's session: wait until the poll is due, then _poll_once.  The   *)
(* flag is not read again after the wait.                                  *)
Poll ==
  /\ pc = "loop" /\ running /\ kind = "poller"
  /\ pc' = "waiting"
  /\ UNCHANGED <<kind, policy, owner, running, state, failures, left,
                 transport, reconnects, attempts, opened, lost, late>>

-----------------------------------------------------------------------------
(* A message of either kind: _handle_message, and the end of _poll_once.   *)

(* The read times out, the peer hangs up, the request fails. *)
ReceiveFails ==
  /\ pc = "waiting"
  /\ Fail
  /\ UNCHANGED <<kind, policy, owner, reconnects, attempts, opened, lost,
                 late>>

Take ==
  /\ pc = "waiting"
  /\ lost' = lost + 1
  /\ OneMore

(* The message decodes to its events and its decode failures: one record   *)
(* at least, because what does not decode yields a DecodeFailure.          *)
Receive ==
  /\ Take
  /\ \E n \in 1..(IF kind = "stream" THEN MaxParts ELSE 1) : left' = n
  /\ pc' = "emit"
  /\ UNCHANGED <<kind, policy, owner, running, state, failures, transport,
                 reconnects, attempts, opened>>

(* An exception other than DecodeError leaves the decoder (a number too    *)
(* large for a float): it fails the session like a broken connection.      *)
ReceiveBroken ==
  /\ Take
  /\ Fail
  /\ UNCHANGED <<kind, policy, owner, reconnects, attempts, opened>>

(* Mutant: the last record is counted twice. *)
WriteOffByOne ==
  /\ pc = "emit"
  /\ left' = left - 1
  /\ IF left = 0
     THEN /\ lost' = lost - 1
          /\ pc' = IF kind = "stream" THEN "session" ELSE "loop"
     ELSE UNCHANGED <<lost, pc>>
  /\ UNCHANGED <<kind, policy, owner, running, state, failures, transport,
                 reconnects, attempts, opened, late>>

(* The sink takes a record.  After the last one a stream waits for the     *)
(* next message and a poller goes back to its loop.                        *)
Write ==
  /\ pc = "emit"
  /\ left' = left - 1
  /\ IF left = 1
     THEN /\ lost' = lost - 1
          /\ pc' = IF kind = "stream" THEN "session" ELSE "loop"
     ELSE UNCHANGED <<lost, pc>>
  /\ UNCHANGED <<kind, policy, owner, running, state, failures, transport,
                 reconnects, attempts, opened, late>>

(* Mutant: an error of the sink is swallowed and the message dropped. *)
RefusedQuietly ==
  /\ pc = "emit"
  /\ left' = 0 /\ pc' = IF kind = "stream" THEN "session" ELSE "loop"
  /\ UNCHANGED <<kind, policy, owner, running, state, failures, transport,
                 reconnects, attempts, opened, lost, late>>

(* The sink refuses a record: the rest of the message is dropped.  A       *)
(* BackpressureError ends the adapter, any other error is a failure.       *)
Refused ==
  /\ pc = "emit"
  /\ \/ /\ "backpressure" \in SinkErrors
        /\ state' = "failed" /\ failures' = failures + 1
        /\ transport' = "backpressure" /\ left' = 0
        /\ pc' = "done" /\ running' = FALSE
     \/ "error" \in SinkErrors /\ Fail
  /\ UNCHANGED <<kind, policy, owner, reconnects, attempts, opened, lost,
                 late>>
-----------------------------------------------------------------------------
AdapterStep ==
  \/ Begin \/ Leave \/ Wake
  \/ Enter \/ Connect \/ ConnectFails \/ Connected \/ Await \/ SessionEnds
  \/ Poll
  \/ ReceiveFails \/ Receive \/ ReceiveBroken \/ Write \/ Refused

(* The thread has ended. *)
Ended == pc = "done" /\ owner = "stopped" /\ UNCHANGED vars

Next == Start \/ Stop \/ AdapterStep \/ Ended

(* The connect, read and request timeouts bound every wait of the thread,  *)
(* and a backoff is a sleep: the thread always takes its next step.        *)
Spec == Init /\ [][Next]_vars /\ WF_vars(AdapterStep)
-----------------------------------------------------------------------------
(***************************************************************************)
(* Properties                                                              *)
(***************************************************************************)
TypeOK ==
  /\ kind \in {"stream", "poller"} /\ policy \in Policies
  /\ owner \in {"new", "started", "stopped"} /\ running \in BOOLEAN
  /\ pc \in Places /\ state \in AdapterStates
  /\ failures \in Nat /\ left \in 0..MaxParts
  /\ transport \in TransportStates
  /\ reconnects \in Nat /\ attempts \in Nat /\ opened \in Nat
  /\ lost \in Nat /\ late \in Nat

(* The delays d taken together. *)
Total(d) ==
  LET Sum[n \in 0..Len(d)] == IF n = 0 THEN 0 ELSE Sum[n - 1] + d[n]
  IN Sum[Len(d)]

(* The backoff is the one its policy describes: the first delay is the     *)
(* minimum and each later one the one before doubled, but never above the  *)
(* maximum; the delays together stay within the elapsed limit; and the     *)
(* schedule is as long as the number of attempts and the limit allow       *)
(* (RetrySchedule.delays).                                                 *)
BackoffIsBounded ==
  LET d == Delays(policy)
      After(n) == IF n = 0 THEN policy.min ELSE Capped(policy, 2 * d[n])
  IN /\ Len(d) <= policy.attempts
     /\ \A n \in 1..Len(d) : d[n] = After(n - 1) /\ d[n] \in policy.min..policy.max
     /\ policy.elapsed # NoLimit => Total(d) <= policy.elapsed
     /\ \/ Len(d) = policy.attempts
        \/ policy.elapsed # NoLimit /\ Total(d) + After(Len(d)) > policy.elapsed

(* An adapter that still has a thread has a delay for each of its failures *)
(* so far, and it never fails again once the schedule is spent.            *)
BudgetHolds ==
  /\ pc # "done" => failures = 0 \/ failures <= Len(Delays(policy))
  /\ failures \in {0, 1} \/ failures - 1 <= Len(Delays(policy))

(* A stream opens its next connection only after a failure counted against *)
(* its budget: over a whole life it tries one connection more than it has  *)
(* failures.                                                               *)
ReconnectsArePaid ==
  /\ opened <= attempts
  /\ kind = "stream" => attempts <= failures + 1

(* The retries of a whole life are budgeted: the schedule allows what its  *)
(* policy does and no more, no retry is made that it has no delay for, and *)
(* no connection is tried again without a failure before.                  *)
RetriesAreBudgeted == BackoffIsBounded /\ BudgetHolds /\ ReconnectsArePaid

(* A message is written in full, or it is the one at hand, or its loss is  *)
(* one of the failures counted: nothing is dropped in silence.             *)
LossIsRecorded ==
  lost <= failures + (IF pc = "emit" THEN 1 ELSE 0)

(* The thread ends as "stopped" only when the runtime asked it to, and as  *)
(* "failed" only on backpressure or when the schedule is spent; it says    *)
(* which, and it never ends in any other state.                            *)
EndsForAReason ==
  pc = "done" =>
    /\ ~running
    /\ \/ state = "stopped" /\ owner = "stopped"
       \/ state = "failed" /\ transport = "backpressure"
       \/ state = "failed" /\ transport = "failed" /\ Spent(failures)

(* "Connected" is reported only by an adapter that is connected, or that   *)
(* the runtime has stopped: a connection lost while the adapter runs is    *)
(* never hidden behind an old report.                                      *)
DisconnectIsVisible ==
  transport = "connected" =>
    pc \in {"session", "waiting", "emit"} \/ owner = "stopped"

(* What an adapter reports of itself is so: how it ended, and that it is   *)
(* connected.                                                              *)
ReportsAreTrue == EndsForAReason /\ DisconnectIsVisible

(* Stop is obeyed by a thread that looks at the flag in three places only, *)
(* before a session, a recv and a poll: after stop it does at most one     *)
(* thing more, which it was about to do when stop came.  It tries the one  *)
(* connection, and takes no message of it, or it takes the one message.    *)
StopIsObeyed ==
  owner = "stopped" => ~running /\ late <= 1

(* A stopped adapter's thread ends, whatever it was doing. *)
StopEnds == owner = "stopped" ~> pc = "done"

(* The reconnect counter counts reconnections: it is at least the number   *)
(* of connections opened again and at most the number tried again.         *)
(* Planning/market_data/spec.md asks for a "reconnect count"; the counter  *)
(* is raised by status.failure_count, itself a running total, each time a  *)
(* connection opens.                                                       *)
ReconnectsAreCounted ==
  opened > 0 => opened - 1 <= reconnects /\ reconnects <= attempts - 1
=============================================================================
