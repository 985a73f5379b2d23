---------------------------- MODULE RequestPacing ----------------------------
(***************************************************************************)
(* The pace of a scan run's outbound requests: the token bucket that every *)
(* module shares (recon/net/rate_limit.py), the adaptive back-off that     *)
(* retunes it (recon/net/backoff.py), and the path of a request through    *)
(* both and through the connection semaphore (recon/net/http_client.py).   *)
(*                                                                         *)
(* Time is counted in ticks and tokens in units; a rate is in units per    *)
(* tick.  Durations are kept relative to now, so a clock is not needed.    *)
(***************************************************************************)
EXTENDS Integers, Sequences, FiniteSets

CONSTANTS Tasks,           \* coroutines of the module that make requests
          MaxConnections,  \* roe.rate_limits.max_concurrent_connections
          Second,          \* ticks in a second, the capacity's time span
          Token,           \* units in one token
          BaseRate,        \* roe.rate_limits.max_requests_per_second
          FloorRate,       \* BackoffController._floor
          Cooldown,        \* cooldown_seconds, in ticks
          Window           \* how many outcomes the back-off remembers

ASSUME PacingAssumption ==
  /\ MaxConnections \in Nat \ {0}
  /\ Second \in Nat \ {0}
  /\ Token \in Nat \ {0}
  /\ BaseRate \in Nat \ {0}
  /\ FloorRate \in 1..BaseRate
  /\ Cooldown \in Nat
  /\ Window \in Nat \ {0}

VARIABLES
  rate,      \* RateLimiter._rate and BackoffController.current_rate
  tokens,    \* RateLimiter._tokens
  elapsed,   \* now - RateLimiter._updated; more than a second fills no more
  outcomes,  \* BackoffController._outcomes, the oldest first
  cooldown,  \* BackoffController._cooldown_until - now
  queue,     \* who holds RateLimiter._lock (first) and who waits for it
  nap,       \* what is left of the holder's asyncio.sleep
  pc,        \* where each coroutine is
  pause,     \* what is left of its cool-down sleep
  ceiling    \* history: a bucket that is always refilled at BaseRate

limiter == <<tokens, elapsed, queue, nap>>
backoff == <<rate, outcomes, cooldown>>
vars    == <<limiter, backoff, pc, pause, ceiling>>

TaskPc == {"idle", "acquiring", "acquiring_slot", "cooling", "connecting",
           "in_flight"}

Lesser(a, b)  == IF a <= b THEN a ELSE b
Greater(a, b) == IF a >= b THEN a ELSE b
Left(d) == Greater(0, d - 1)
Capacity(r) == r * Second

TypeOK ==
  /\ rate \in FloorRate..BaseRate
  /\ tokens \in 0..Capacity(BaseRate)
  /\ elapsed \in 0..Second
  /\ outcomes \in Seq({"fine", "distress"}) /\ Len(outcomes) <= Window
  /\ cooldown \in 0..Cooldown
  /\ queue \in Seq(Tasks)
  /\ nap \in Nat
  /\ pc \in [Tasks -> TaskPc]
  /\ pause \in [Tasks -> 0..Cooldown]
  /\ ceiling \in Int

Init ==
  /\ rate = BaseRate
  /\ tokens = Capacity(BaseRate)
  /\ elapsed = 0
  /\ outcomes = << >>
  /\ cooldown = 0
  /\ queue = << >>
  /\ nap = 0
  /\ pc = [t \in Tasks |-> "idle"]
  /\ pause = [t \in Tasks |-> 0]
  /\ ceiling = Capacity(BaseRate)

-----------------------------------------------------------------------------
(* The token bucket *)

\* A request in scope or an out-of-band connection asks for a token.
Ask(t) ==
  /\ pc[t] = "idle"
  /\ \E from \in {"acquiring", "acquiring_slot"} : pc' = [pc EXCEPT ![t] = from]
  /\ queue' = Append(queue, t)
  /\ UNCHANGED <<tokens, elapsed, nap, backoff, pause, ceiling>>

Refilled == Lesser(Capacity(rate), tokens + elapsed * rate)

\* asyncio.sleep((1 - tokens) / rate), to the next tick.
Shortfall == (Token - Refilled + rate - 1) \div rate

\* What acquire leads to: a request reads the cool-down there and then, an
\* out-of-band connection (acquire_slot) does not.
Leaves(t) ==
  IF pc[t] = "acquiring"
    THEN /\ pc' = [pc EXCEPT ![t] = IF cooldown > 0 THEN "cooling" ELSE "connecting"]
         /\ pause' = [pause EXCEPT ![t] = cooldown]
    ELSE pc' = [pc EXCEPT ![t] = "idle"] /\ UNCHANGED pause

Grant ==
  /\ queue # << >> /\ nap = 0
  /\ Refilled >= Token
  /\ tokens' = Refilled - Token
  /\ elapsed' = 0
  /\ queue' = Tail(queue)
  /\ Leaves(Head(queue))
  /\ ceiling' = ceiling - Token
  /\ UNCHANGED <<nap, backoff>>

\* The holder sleeps with the lock in hand.
Doze ==
  /\ queue # << >> /\ nap = 0
  /\ Refilled < Token
  /\ tokens' = Refilled
  /\ elapsed' = 0
  /\ nap' = Shortfall
  /\ UNCHANGED <<queue, backoff, pc, pause, ceiling>>

-----------------------------------------------------------------------------
(* The rest of a request *)

WakeUp(t) ==
  /\ pc[t] = "cooling" /\ pause[t] = 0
  /\ pc' = [pc EXCEPT ![t] = "connecting"]
  /\ UNCHANGED <<limiter, backoff, pause, ceiling>>

InFlight == {t \in Tasks : pc[t] = "in_flight"}

\* The semaphore is taken; the jitter under it is part of the flight.
Connect(t) ==
  /\ pc[t] = "connecting"
  /\ Cardinality(InFlight) < MaxConnections
  /\ pc' = [pc EXCEPT ![t] = "in_flight"]
  /\ UNCHANGED <<limiter, backoff, pause, ceiling>>

\* A 429; a timeout or reset; an answer or a refused connection.
Signals == {"throttled", "reset", "fine"}

Outcome(signal) == IF signal = "fine" THEN "fine" ELSE "distress"

Remembered(outcome) ==
  LET all == Append(outcomes, outcome)
  IN  IF Len(all) > Window THEN Tail(all) ELSE all

\* _distress_ratio() >= 0.3
Distressed(seq) == {i \in DOMAIN seq : seq[i] = "distress"}
Unhappy(seq) == 10 * Cardinality(Distressed(seq)) >= 3 * Len(seq)

Slowed_NoFloor == (rate + 1) \div 2  \* mutant
Slowed == Greater(FloorRate, (rate + 1) \div 2)

Recovered_Uncapped == (rate * 14 + 9) \div 10  \* mutant
Recovered_Truncated == Lesser(BaseRate, (rate * 14) \div 10)  \* mutant
Recovered == Lesser(BaseRate, (rate * 14 + 9) \div 10)

\* After a trip the window starts empty, in a cool-down or not.
AfterTrip_Kept(seq) == seq  \* mutant
AfterTrip(seq) == << >>

\* BackoffController.record, and update_rate with what it returns.
Record(signal) ==
  LET seq == Remembered(Outcome(signal))
  IN  IF signal = "throttled" \/ Unhappy(seq)
        THEN /\ outcomes' = AfterTrip(seq)
             /\ IF cooldown > 0
                  THEN UNCHANGED <<rate, cooldown>>
                  ELSE rate' = Slowed /\ cooldown' = Cooldown
        ELSE /\ outcomes' = seq
             /\ rate' = IF cooldown = 0 THEN Recovered ELSE rate
             /\ UNCHANGED cooldown

Respond(t, signal) ==
  /\ pc[t] = "in_flight"
  /\ Record(signal)
  /\ pc' = [pc EXCEPT ![t] = "idle"]
  /\ UNCHANGED <<limiter, pause, ceiling>>

\* A waiter leaves the lock's queue, the others keep their order.
QueueWithout(t) ==
  IF \E i \in DOMAIN queue : queue[i] = t
    THEN LET at == CHOOSE i \in DOMAIN queue : queue[i] = t
         IN  SubSeq(queue, 1, at - 1) \o SubSeq(queue, at + 1, Len(queue))
    ELSE queue

\* The module's hard timeout cancels its coroutines wherever they wait; a
\* cancelled holder gives the lock up, a cancelled request records nothing.
Abandon(t) ==
  /\ pc[t] # "idle"
  /\ pc' = [pc EXCEPT ![t] = "idle"]
  /\ pause' = [pause EXCEPT ![t] = 0]
  /\ queue' = QueueWithout(t)
  /\ nap' = IF queue # << >> /\ Head(queue) = t THEN 0 ELSE nap
  /\ UNCHANGED <<tokens, elapsed, backoff, ceiling>>

Tick ==
  /\ elapsed' = Lesser(Second, elapsed + 1)
  /\ cooldown' = Left(cooldown)
  /\ nap' = Left(nap)
  /\ pause' = [t \in Tasks |-> Left(pause[t])]
  /\ ceiling' = Lesser(Capacity(BaseRate), ceiling + BaseRate)
  /\ UNCHANGED <<rate, tokens, outcomes, queue, pc>>

-----------------------------------------------------------------------------

Next ==
  \/ Grant \/ Doze \/ Tick
  \/ \E t \in Tasks :
       \/ Ask(t) \/ WakeUp(t) \/ Connect(t) \/ Abandon(t)
       \/ \E signal \in Signals : Respond(t, signal)

Spec == Init /\ [][Next]_vars

\* Time passes, the event loop runs what is ready, every flight ends (httpx
\* has a timeout) and asyncio's semaphore serves its waiters in turn.
Fairness ==
  /\ WF_vars(Tick) /\ WF_vars(Grant) /\ WF_vars(Doze)
  /\ \A t \in Tasks :
       /\ WF_vars(WakeUp(t))
       /\ SF_vars(Connect(t))
       /\ WF_vars(\E signal \in Signals : Respond(t, signal))

FairSpec == Spec /\ Fairness

-----------------------------------------------------------------------------
(* Properties *)

\* "The tool never exceeds that ceiling" (backoff.py): however the back-off
\* retunes the bucket, and however late a rate applies to time already passed,
\* a bucket of the RoE's own rate would have granted every request.
WithinCeiling == ceiling >= 0

\* Healthy answers never slow the scan down: what is left of old distress in
\* the window cannot trip the back-off without new distress.
HealthyNeverSlows ==
  [][(\E t \in Tasks : Respond(t, "fine")) => rate' >= rate]_vars

\* Whoever waits for a token gets it: no coroutine hangs in acquire.
Waiting(t) == pc[t] \in {"acquiring", "acquiring_slot"}
AcquireReturns == \A t \in Tasks : Waiting(t) ~> ~Waiting(t)

Distress == \E t \in Tasks : Respond(t, "throttled") \/ Respond(t, "reset")
Healthy  == \E t \in Tasks : Respond(t, "fine")

\* "recovered slowly toward the RoE's configured ceiling": once distress is
\* over, requests that keep being answered bring the rate back to the ceiling.
RecoversToCeiling ==
  (<>[][~Distress]_vars /\ []<><<Healthy>>_vars) => <>[](rate = BaseRate)
=============================================================================
