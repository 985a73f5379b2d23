------------------------ MODULE RequestPacingProofs ------------------------
(* Proof that the pace of the requests keeps below the ceiling of the Rules *)
(* of Engagement, for every rate, floor, window and number of coroutines.   *)
EXTENDS RequestPacing, FiniteSetTheorems, TLAPS

USE PacingAssumption

LEMMA Monotone ==
  ASSUME NEW k \in Nat, NEW a \in Nat, NEW b \in Nat, a <= b
  PROVE  k * a <= k * b /\ k * a \in Nat /\ k * b \in Nat
OBVIOUS

LEMMA CapacityType == Capacity(BaseRate) \in Nat
BY Monotone DEF Capacity

\* What the bucket would hold now at the ceiling's rate.
AtBest == Lesser(Capacity(BaseRate), tokens + elapsed * BaseRate)

Tuned ==
  /\ rate \in FloorRate..BaseRate
  /\ tokens \in Nat
  /\ elapsed \in 0..Second
  /\ ceiling \in Int

BucketInv == Tuned /\ AtBest <= ceiling

\* The back-off only moves the rate between its floor and the ceiling.
LEMMA TunedRate ==
  ASSUME Tuned
  PROVE  Slowed \in FloorRate..BaseRate /\ Recovered \in FloorRate..BaseRate
BY DEF Tuned, Slowed, Recovered, Greater, Lesser

\* What the bucket holds at its own rate is no more than at the ceiling's.
LEMMA RefilledBounded ==
  ASSUME Tuned
  PROVE  Refilled \in Nat /\ Refilled <= AtBest
<1>1. elapsed * rate <= elapsed * BaseRate /\ elapsed * rate \in Nat
      /\ elapsed * BaseRate \in Nat
  BY Monotone DEF Tuned
<1>2. Second * rate <= Second * BaseRate /\ Second * rate \in Nat
      /\ Second * BaseRate \in Nat
  BY Monotone DEF Tuned
<1>3. Capacity(rate) = Second * rate /\ Capacity(BaseRate) = Second * BaseRate
  BY DEF Capacity, Tuned
<1> QED
  BY <1>1, <1>2, <1>3 DEF Refilled, AtBest, Lesser, Tuned

\* A bucket that was refilled this instant holds no more than its tokens.
LEMMA JustRefilled ==
  ASSUME Tuned', elapsed' = 0, tokens' <= ceiling'
  PROVE  BucketInv'
<1>1. elapsed' * BaseRate = 0
  OBVIOUS
<1>2. tokens' \in Nat /\ ceiling' \in Int
  BY DEF Tuned
<1>3. AtBest' = Lesser(Capacity(BaseRate), tokens')
  <2>1. AtBest' = Lesser(Capacity(BaseRate), tokens' + elapsed' * BaseRate)
    BY DEF AtBest, Capacity, Lesser
  <2> QED
    BY <1>1, <1>2, <2>1
<1>4. Lesser(Capacity(BaseRate), tokens') <= tokens'
  BY <1>2, CapacityType DEF Lesser
<1>5. Lesser(Capacity(BaseRate), tokens') \in Int
  BY <1>2, CapacityType DEF Lesser
<1> QED
  BY <1>2, <1>3, <1>4, <1>5 DEF BucketInv

\* A step that leaves the bucket alone leaves the invariant alone.
LEMMA BucketUntouched ==
  ASSUME BucketInv, rate' \in FloorRate..BaseRate,
         UNCHANGED <<tokens, elapsed, ceiling>>
  PROVE  BucketInv'
BY DEF BucketInv, Tuned, AtBest, Lesser, Capacity

LEMMA BucketInvariant == Spec => []BucketInv
<1>1. Init => BucketInv
  <2> SUFFICES ASSUME Init PROVE BucketInv
    OBVIOUS
  <2>1. Second * BaseRate \in Nat
    BY Monotone
  <2>2. Capacity(BaseRate) = Second * BaseRate
    BY DEF Capacity
  <2> QED
    BY <2>1, <2>2 DEF Init, BucketInv, Tuned, AtBest, Lesser
<1>2. BucketInv /\ [Next]_vars => BucketInv'
  <2> SUFFICES ASSUME BucketInv, [Next]_vars PROVE BucketInv'
    OBVIOUS
  <2>0. Refilled \in Nat /\ Refilled <= AtBest /\ Refilled <= ceiling
    BY RefilledBounded DEF BucketInv, Tuned, AtBest, Lesser, Capacity
  <2>1. ASSUME Grant PROVE BucketInv'
    <3>1. Tuned' /\ elapsed' = 0 /\ tokens' <= ceiling'
      BY <2>0, <2>1 DEF Grant, backoff, BucketInv, Tuned
    <3> QED
      BY <3>1, JustRefilled
  <2>2. ASSUME Doze PROVE BucketInv'
    <3>1. Tuned' /\ elapsed' = 0 /\ tokens' <= ceiling'
      BY <2>0, <2>2 DEF Doze, backoff, BucketInv, Tuned
    <3> QED
      BY <3>1, JustRefilled
  <2>3. ASSUME Tick PROVE BucketInv'
    <3> DEFINE cap == Capacity(BaseRate)
    <3>1. cap \in Nat /\ cap = Second * BaseRate
      BY Monotone DEF Capacity
    <3>2. Tuned'
      BY <2>3, <3>1 DEF Tick, Tuned, BucketInv, Lesser, Capacity
    <3>3. CASE elapsed = Second
      <4>1. elapsed' = Second /\ tokens' = tokens /\ tokens \in Nat
        BY <2>3, <3>3 DEF Tick, Lesser, BucketInv, Tuned
      <4>2. AtBest = cap /\ AtBest' = cap
        BY <3>1, <3>3, <4>1 DEF AtBest, Lesser
      <4> QED
        BY <2>3, <3>1, <3>2, <4>2 DEF Tick, BucketInv, Tuned, Lesser
    <3>4. CASE elapsed # Second
      <4>1. elapsed \in Nat /\ elapsed' = elapsed + 1 /\ tokens' = tokens /\ tokens \in Nat
        BY <2>3, <3>4 DEF Tick, Lesser, BucketInv, Tuned
      <4>2. elapsed' * BaseRate = elapsed * BaseRate + BaseRate
            /\ elapsed * BaseRate \in Nat
        BY <4>1, Monotone
      <4>3. ceiling' = Lesser(cap, ceiling + BaseRate) /\ AtBest <= ceiling
            /\ ceiling \in Int
        BY <2>3 DEF Tick, BucketInv, Tuned
      <4>4. AtBest' = Lesser(cap, tokens + (elapsed * BaseRate + BaseRate))
        BY <4>1, <4>2 DEF AtBest, Capacity, Lesser
      <4>5. AtBest' <= ceiling'
        <5> HIDE DEF cap
        <5> QED
          BY <3>1, <4>1, <4>2, <4>3, <4>4 DEF AtBest, Lesser, cap
      <4> QED
        BY <3>2, <4>5 DEF BucketInv
    <3> QED
      BY <3>3, <3>4
  <2>4. ASSUME NEW t \in Tasks, Ask(t) \/ WakeUp(t) \/ Connect(t) \/ Abandon(t)
        PROVE  BucketInv'
    <3>1. rate' = rate /\ UNCHANGED <<tokens, elapsed, ceiling>>
      BY <2>4 DEF Ask, WakeUp, Connect, Abandon, limiter, backoff
    <3> QED
      BY <3>1, BucketUntouched DEF BucketInv, Tuned
  <2>5. ASSUME NEW t \in Tasks, NEW signal \in Signals, Respond(t, signal)
        PROVE  BucketInv'
    <3>1. UNCHANGED <<tokens, elapsed, ceiling>> /\ Record(signal)
      BY <2>5 DEF Respond, limiter
    <3>2. rate' \in {rate, Slowed, Recovered}
      BY <3>1 DEF Record
    <3>3. rate' \in FloorRate..BaseRate
      BY <3>2, TunedRate DEF BucketInv, Tuned
    <3> QED
      BY <3>1, <3>3, BucketUntouched
  <2>6. CASE UNCHANGED vars
    <3>1. rate' = rate /\ UNCHANGED <<tokens, elapsed, ceiling>>
      BY <2>6 DEF vars, limiter, backoff
    <3> QED
      BY <3>1, BucketUntouched DEF BucketInv, Tuned
  <2> QED
    BY <2>1, <2>2, <2>3, <2>4, <2>5, <2>6 DEF Next
<1> QED
  BY <1>1, <1>2, PTL DEF Spec

\* For every interleaving of the coroutines and every history of answers, the
\* requests granted stay within what a bucket of the RoE's own rate grants
\* (RateLimiter.acquire, BackoffController.record).
THEOREM WithinCeilingHolds == Spec => []WithinCeiling
<1>1. BucketInv => WithinCeiling
  <2> SUFFICES ASSUME BucketInv PROVE WithinCeiling
    OBVIOUS
  <2>1. Refilled \in Nat /\ Refilled <= AtBest
    BY RefilledBounded DEF BucketInv
  <2>2. AtBest \in Int
    <3>1. elapsed * BaseRate \in Nat /\ Second * BaseRate \in Nat
      BY Monotone DEF BucketInv, Tuned
    <3> QED
      BY <3>1 DEF BucketInv, Tuned, AtBest, Lesser, Capacity
  <2> QED
    BY <2>1, <2>2 DEF BucketInv, Tuned, WithinCeiling
<1> QED
  BY <1>1, BucketInvariant, PTL

-----------------------------------------------------------------------------
(* Types *)

Outcomes == {"fine", "distress"}

LEMMA QueueType ==
  ASSUME queue \in Seq(Tasks), NEW t \in Tasks
  PROVE  QueueWithout(t) \in Seq(Tasks)
<1>1. CASE \E i \in DOMAIN queue : queue[i] = t
  <2> DEFINE at == CHOOSE i \in DOMAIN queue : queue[i] = t
  <2>1. at \in 1..Len(queue)
    BY <1>1
  <2> HIDE DEF at
  <2>2. SubSeq(queue, 1, at - 1) \in Seq(Tasks) /\ SubSeq(queue, at + 1, Len(queue)) \in Seq(Tasks)
    BY <2>1
  <2> QED
    BY <1>1, <2>2 DEF QueueWithout, at
<1>2. CASE ~ \E i \in DOMAIN queue : queue[i] = t
  BY <1>2 DEF QueueWithout
<1> QED
  BY <1>1, <1>2

\* A rate is at least one unit a tick, so a nap is finite and not negative.
LEMMA ShortfallType ==
  ASSUME TypeOK, Refilled < Token, Refilled \in Nat
  PROVE  Shortfall \in Nat
<1>1. rate \in Nat /\ rate >= 1 /\ Token - Refilled + rate - 1 \in Nat
  BY DEF TypeOK, Outcomes
<1> QED
  BY <1>1 DEF Shortfall

LEMMA RememberedType ==
  ASSUME TypeOK, NEW d \in Outcomes
  PROVE  Remembered(d) \in Seq(Outcomes) /\ Len(Remembered(d)) <= Window
         /\ Remembered(d) # << >>
<1> DEFINE all == Append(outcomes, d)
<1>1. all \in Seq(Outcomes) /\ Len(all) = Len(outcomes) + 1
  BY DEF TypeOK, Outcomes
<1>2. CASE Len(all) > Window
  <2>1. Tail(all) \in Seq(Outcomes) /\ Len(Tail(all)) = Len(all) - 1
    BY <1>1
  <2>2. Len(all) = Window + 1
    BY <1>1, <1>2 DEF TypeOK, Outcomes
  <2>3. Remembered(d) = Tail(all)
    BY <1>2 DEF Remembered
  <2> QED
    BY <2>1, <2>2, <2>3
<1>3. CASE ~(Len(all) > Window)
  <2>1. Remembered(d) = all
    BY <1>3 DEF Remembered
  <2>2. Window \in Nat /\ Len(all) \in Nat
    BY <1>1
  <2>3. Len(all) <= Window
    BY <1>3, <2>2
  <2>4. all # << >>
    <3>1. Len(all) = Len(outcomes) + 1 /\ Len(outcomes) \in Nat
      BY <1>1 DEF TypeOK, Outcomes
    <3> HIDE DEF all
    <3> QED
      BY <3>1
  <2> QED
    BY <1>1, <2>1, <2>3, <2>4, Zenon
<1> QED
  BY <1>2, <1>3

\* Every variable keeps its type (RateLimiter, BackoffController and the
\* coroutines of a module).
THEOREM TypeCorrect == Spec => []TypeOK
<1> USE DEF TypeOK, Outcomes
<1>1. Init => TypeOK
  BY CapacityType DEF Init, TaskPc
<1>2. TypeOK /\ [Next]_vars => TypeOK'
  <2> SUFFICES ASSUME TypeOK, [Next]_vars PROVE TypeOK'
    OBVIOUS
  <2>0. Tuned /\ Refilled \in Nat /\ Capacity(BaseRate) \in Nat
        /\ Refilled <= Capacity(BaseRate)
    <3>1. Tuned
      BY CapacityType DEF Tuned
    <3>2. AtBest <= Capacity(BaseRate) /\ AtBest \in Int
      <4>1. elapsed * BaseRate \in Nat
        BY Monotone
      <4> QED
        BY <4>1, CapacityType DEF AtBest, Lesser
    <3> QED
      BY <3>1, <3>2, CapacityType, RefilledBounded
  <2>1. CASE Grant
    <3>1. queue \in Seq(Tasks) /\ queue # << >> /\ Tail(queue) \in Seq(Tasks)
          /\ Head(queue) \in Tasks
      BY <2>1 DEF Grant
    <3>2. pc' \in [Tasks -> TaskPc] /\ pause' \in [Tasks -> 0..Cooldown]
      BY <2>1, <3>1 DEF Grant, Leaves, TaskPc
    <3>3. tokens' \in 0..Capacity(BaseRate)
      BY <2>0, <2>1 DEF Grant
    <3> QED
      BY <2>1, <3>1, <3>2, <3>3 DEF Grant, backoff
  <2>2. CASE Doze
    <3>1. nap' \in Nat
      BY <2>0, <2>2, ShortfallType DEF Doze
    <3>2. tokens' \in 0..Capacity(BaseRate)
      BY <2>0, <2>2 DEF Doze
    <3> QED
      BY <2>2, <3>1, <3>2 DEF Doze, backoff
  <2>3. CASE Tick
    BY <2>0, <2>3 DEF Tick, Left, Lesser, Greater
  <2>4. ASSUME NEW t \in Tasks, Ask(t) PROVE TypeOK'
    BY <2>4 DEF Ask, backoff, TaskPc
  <2>5. ASSUME NEW t \in Tasks, WakeUp(t) \/ Connect(t) PROVE TypeOK'
    BY <2>5 DEF WakeUp, Connect, limiter, backoff, TaskPc
  <2>6. ASSUME NEW t \in Tasks, Abandon(t) PROVE TypeOK'
    BY <2>6, QueueType DEF Abandon, backoff, TaskPc
  <2>7. ASSUME NEW t \in Tasks, NEW signal \in Signals, Respond(t, signal) PROVE TypeOK'
    <3>1. /\ Record(signal) /\ pc' \in [Tasks -> TaskPc]
          /\ UNCHANGED <<tokens, elapsed, queue, nap, pause, ceiling>>
      BY <2>7 DEF Respond, limiter, TaskPc
    <3>2. rate' \in FloorRate..BaseRate
      BY <2>0, <3>1, TunedRate DEF Record, Tuned
    <3>3. outcomes' \in Seq(Outcomes) /\ Len(outcomes') <= Window
      <4>1. Outcome(signal) \in Outcomes
        BY DEF Outcome, Outcomes
      <4>2. outcomes' = << >> \/ outcomes' = Remembered(Outcome(signal))
        BY <3>1 DEF Record, AfterTrip
      <4>3. << >> \in Seq(Outcomes) /\ Len(<< >>) <= Window
        OBVIOUS
      <4> QED
        BY <4>1, <4>2, <4>3, RememberedType
    <3>4. cooldown' \in 0..Cooldown
      BY <3>1 DEF Record
    <3> QED
      BY <3>1, <3>2, <3>3, <3>4
  <2>8. CASE UNCHANGED vars
    BY <2>8 DEF vars, limiter, backoff
  <2> QED
    BY <2>1, <2>2, <2>3, <2>4, <2>5, <2>6, <2>7, <2>8 DEF Next
<1> QED
  BY <1>1, <1>2, PTL DEF Spec

-----------------------------------------------------------------------------
(* The back-off *)

\* A window that is not empty has been weighed and found fit to go on.
Weighed == outcomes = << >> \/ ~Unhappy(outcomes)

LEMMA DistressType ==
  ASSUME NEW seq \in Seq(Outcomes)
  PROVE  IsFiniteSet(Distressed(seq)) /\ Cardinality(Distressed(seq)) \in Nat
<1>1. IsFiniteSet(1..Len(seq))
  BY FS_Interval
<1>2. Distressed(seq) \subseteq 1..Len(seq)
  BY DEF Distressed
<1> QED
  BY <1>1, <1>2, FS_Subset, FS_CardinalityType

\* An answer that is fine adds no distress to the window.
LEMMA FineAddsNone ==
  ASSUME TypeOK, outcomes # << >>
  PROVE  /\ Cardinality(Distressed(Remembered("fine"))) <= Cardinality(Distressed(outcomes))
         /\ Len(Remembered("fine")) >= Len(outcomes)
<1> DEFINE all  == Append(outcomes, "fine")
           old  == Distressed(outcomes)
           kept == Distressed(Remembered("fine"))
<1>1. /\ outcomes \in Seq(Outcomes) /\ Len(outcomes) \in Nat /\ Len(outcomes) <= Window
      /\ all \in Seq(Outcomes) /\ Len(all) = Len(outcomes) + 1
      /\ \A i \in 1..Len(outcomes) : all[i] = outcomes[i]
      /\ all[Len(outcomes) + 1] = "fine"
  BY DEF TypeOK, Outcomes
<1>2. CASE Len(all) > Window
  <2>1. /\ Remembered("fine") = Tail(all) /\ Len(Tail(all)) = Len(outcomes)
        /\ \A i \in 1..Len(outcomes) : Tail(all)[i] = all[i + 1]
    BY <1>1, <1>2 DEF Remembered
  <2>2. \A i \in kept : i + 1 \in old
    <3> SUFFICES ASSUME NEW i \in kept PROVE i + 1 \in old
      OBVIOUS
    <3>1. i \in 1..Len(outcomes) /\ all[i + 1] = "distress"
      BY <2>1 DEF Distressed
    <3>2. i + 1 # Len(outcomes) + 1
      BY <1>1, <3>1
    <3> QED
      BY <1>1, <3>1, <3>2 DEF Distressed
  <2> DEFINE shift == [i \in kept |-> i + 1]
  <2>3. kept \subseteq Nat
    BY <2>1 DEF Distressed
  <2>4. shift \in Injection(kept, old)
    BY <2>2, <2>3 DEF Injection, IsInjective
  <2>5. IsFiniteSet(old)
    BY <1>1, DistressType
  <2> HIDE DEF kept, old, shift
  <2>6. Cardinality(kept) <= Cardinality(old)
    BY <2>4, <2>5, FS_Injection
  <2> QED
    BY <1>1, <2>1, <2>6 DEF kept, old
<1>3. CASE ~(Len(all) > Window)
  <2>1. Remembered("fine") = all
    BY <1>3 DEF Remembered
  <2>2. kept = old
    BY <1>1, <2>1 DEF Distressed
  <2> QED
    BY <1>1, <2>1, <2>2, DistressType
<1> QED
  BY <1>2, <1>3

\* So it cannot trip the back-off.
LEMMA FineIsFine ==
  ASSUME TypeOK, Weighed
  PROVE  ~Unhappy(Remembered("fine"))
<1> DEFINE seq == Remembered("fine")
<1>0. seq \in Seq(Outcomes) /\ Cardinality(Distressed(seq)) \in Nat /\ Len(seq) \in Nat
  <2>1. "fine" \in Outcomes
    BY DEF Outcomes
  <2>2. seq \in Seq(Outcomes)
    BY <2>1, RememberedType
  <2> HIDE DEF seq
  <2> QED
    BY <2>2, DistressType
<1>1. CASE outcomes = << >>
  <2>1. seq = <<"fine">>
    BY <1>1 DEF Remembered
  <2>2. Distressed(seq) = {}
    BY <2>1 DEF Distressed
  <2>3. Cardinality(Distressed(seq)) = 0 /\ Len(seq) = 1
    BY <2>1, <2>2, FS_EmptySet
  <2> QED
    BY <2>3 DEF Unhappy, Distressed
<1>2. CASE outcomes # << >>
  <2>1. /\ Cardinality(Distressed(outcomes)) \in Nat /\ Len(outcomes) \in Nat
        /\ ~(10 * Cardinality(Distressed(outcomes)) >= 3 * Len(outcomes))
    <3>1. outcomes \in Seq(Outcomes)
      BY DEF TypeOK, Outcomes
    <3> QED
      BY <1>2, <3>1, DistressType DEF Weighed, Unhappy
  <2>2. ~(10 * Cardinality(Distressed(seq)) >= 3 * Len(seq))
    <3> HIDE DEF seq
    <3>1. /\ Cardinality(Distressed(seq)) <= Cardinality(Distressed(outcomes))
          /\ Len(seq) >= Len(outcomes)
      BY <1>2, FineAddsNone DEF seq
    <3> QED
      BY <1>0, <2>1, <3>1
  <2> QED
    BY <2>2 DEF Unhappy, Distressed
<1> QED
  BY <1>1, <1>2

LEMMA WeighedInvariant == Spec => []Weighed
<1>1. Init => Weighed
  BY DEF Init, Weighed
<1>2. Weighed /\ [Next]_vars => Weighed'
  <2> SUFFICES ASSUME Weighed, [Next]_vars PROVE Weighed'
    OBVIOUS
  <2>1. ASSUME NEW t \in Tasks, NEW signal \in Signals, Respond(t, signal) PROVE Weighed'
    <3>1. Record(signal)
      BY <2>1 DEF Respond
    <3>2. \/ outcomes' = << >>
          \/ outcomes' = Remembered(Outcome(signal)) /\ ~Unhappy(Remembered(Outcome(signal)))
      BY <3>1 DEF Record, AfterTrip
    <3> QED
      BY <3>2 DEF Weighed, Unhappy
  <2>2. CASE outcomes' = outcomes
    BY <2>2 DEF Weighed, Unhappy
  <2>3. outcomes' = outcomes \/ \E t \in Tasks, signal \in Signals : Respond(t, signal)
    BY DEF Next, vars, backoff, limiter, Grant, Doze, Tick, Ask, WakeUp, Connect, Abandon
  <2> QED
    BY <2>1, <2>2, <2>3
<1> QED
  BY <1>1, <1>2, PTL DEF Spec

\* An answer that is fine never slows the scan down, whatever distress the window
\* remembers, for every window, rate and floor (BackoffController.record).
THEOREM HealthyNeverSlowsHolds == Spec => HealthyNeverSlows
<1>1. TypeOK /\ Weighed =>
        [(\E t \in Tasks : Respond(t, "fine")) => rate' >= rate]_vars
  <2> SUFFICES ASSUME TypeOK, Weighed, NEW t \in Tasks, Respond(t, "fine")
               PROVE  rate' >= rate
    OBVIOUS
  <2>1. Record("fine")
    BY DEF Respond
  <2>2. rate' = IF cooldown = 0 THEN Recovered ELSE rate
    <3>1. ~Unhappy(Remembered("fine"))
      BY FineIsFine
    <3>2. Outcome("fine") = "fine" /\ ~("fine" = "throttled")
      BY DEF Outcome
    <3> QED
      BY <2>1, <3>1, <3>2 DEF Record
  <2>3. Recovered >= rate /\ rate \in Nat
    BY DEF Recovered, Lesser, TypeOK
  <2> QED
    BY <2>2, <2>3
<1> QED
  BY <1>1, TypeCorrect, WeighedInvariant, PTL DEF HealthyNeverSlows
=============================================================================
