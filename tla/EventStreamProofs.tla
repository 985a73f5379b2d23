-------------------------- MODULE EventStreamProofs --------------------------
(* Proof that replay and live events join without a gap for every reader, and *)
(* that the end mark separates them, for every number of readers and every    *)
(* size of the replay buffer and of the queues.                               *)
EXTENDS EventStream, TLAPS

USE StreamAssumption

\* The replay buffer holds the last events, whatever was trimmed.
Replay ==
  /\ Len(recent) <= published
  /\ \A i \in 1..Len(recent) :
       recent[i].kind # "synced" /\ recent[i].n = published - Len(recent) + i

\* What is behind place s follows what the reader will have taken by then.
Whole(r, s) ==
  /\ taken[r] + Len(queue[r]) = published + 1
  /\ \A i \in 1..Len(queue[r]) : i > s => queue[r][i].n + 1 = taken[r] + i

\* The end mark is still in the queue, at place s.
MarkedAt(r, s) ==
  /\ queue[r][s] = Synced
  /\ taken[r] + s = mark[r] + 1
  /\ \A i \in 1..Len(queue[r]) :
       /\ i < s => queue[r][i].kind # "synced" /\ queue[r][i].n = taken[r] + i
       /\ i > s => queue[r][i].kind # "synced" /\ queue[r][i].n > mark[r]
  /\ lost[r] \/ Whole(r, s)

\* It has been taken: what is left are live events.
Live(r) ==
  /\ \A i \in 1..Len(queue[r]) : queue[r][i].kind # "synced"
  /\ ~lost[r] =>
       /\ taken[r] >= mark[r]
       /\ taken[r] + Len(queue[r]) = published
       /\ \A i \in 1..Len(queue[r]) : queue[r][i].n = taken[r] + i

Joined(r) ==
  where[r] = "reading" =>
    /\ mark[r] <= published
    /\ Live(r) \/ \E s \in 1..Len(queue[r]) : MarkedAt(r, s)

StreamInv == TypeOK /\ Replay /\ \A r \in Readers : Joined(r)

\* The number before another.
LEMMA Before ==
  ASSUME NEW n \in Nat, NEW m, n + 1 = m
  PROVE  n = m - 1
OBVIOUS

-----------------------------------------------------------------------------
(* publish *)

LEMMA PublishBuffers ==
  ASSUME TypeOK, Replay, NEW kind \in {"progress", "stop"}, Publish(kind)
  PROVE  Replay' /\ recent' \in Seq(Event) /\ Len(recent') <= ReplayLimit
<1> DEFINE event == [n |-> published + 1, kind |-> kind]
           all   == Append(recent, event)
<1>1. /\ published \in Nat /\ published' = published + 1 /\ published < MaxEvents
      /\ recent \in Seq(Event) /\ Len(recent) \in Nat /\ Len(recent) <= ReplayLimit
      /\ recent' = Trimmed(all)
  BY DEF TypeOK, Publish
<1>2. event \in Event /\ event.kind # "synced" /\ event.n = published + 1
  BY <1>1 DEF Event
<1> HIDE DEF event
<1>3. /\ all \in Seq(Event) /\ Len(all) = Len(recent) + 1
      /\ \A i \in 1..Len(recent) : all[i] = recent[i]
      /\ all[Len(recent) + 1] = event
  BY <1>1, <1>2
<1>4. \A i \in 1..Len(all) :
        all[i].kind # "synced" /\ all[i].n = published' - Len(all) + i
  <2> TAKE i \in 1..Len(all)
  <2>1. CASE i = Len(recent) + 1
    BY <1>1, <1>2, <1>3, <2>1
  <2>2. CASE i \in 1..Len(recent)
    <3>1. all[i] = recent[i] /\ recent[i].kind # "synced"
          /\ recent[i].n = published - Len(recent) + i
      BY <1>3, <2>2 DEF Replay
    <3> QED
      BY <1>1, <1>3, <2>2, <3>1
  <2> QED
    BY <1>3, <2>1, <2>2
<1> HIDE DEF all
<1>5. CASE Len(all) > ReplayLimit
  <2>1. recent' = Tail(all) /\ Tail(all) \in Seq(Event) /\ Len(Tail(all)) = Len(all) - 1
        /\ \A i \in 1..Len(Tail(all)) : Tail(all)[i] = all[i + 1]
    BY <1>1, <1>3, <1>5 DEF Trimmed
  <2>2. \A i \in 1..Len(recent') :
          recent'[i].kind # "synced" /\ recent'[i].n = published' - Len(recent') + i
    <3> TAKE i \in 1..Len(recent')
    <3>1. i + 1 \in 1..Len(all) /\ recent'[i] = all[i + 1]
      BY <1>1, <1>3, <2>1
    <3> QED
      BY <1>1, <1>3, <1>4, <2>1, <3>1
  <2>3. Len(recent') <= published'
    <3>1. Len(recent) <= published /\ Len(recent') = Len(recent)
      BY <1>1, <1>3, <2>1 DEF Replay
    <3> QED
      BY <1>1, <3>1
  <2>4. recent' \in Seq(Event) /\ Len(recent') <= ReplayLimit
    <3>1. Len(recent') = Len(recent)
      BY <1>1, <1>3, <2>1
    <3> QED
      BY <1>1, <2>1, <3>1
  <2> QED
    BY <2>2, <2>3, <2>4, Zenon DEF Replay
<1>6. CASE ~(Len(all) > ReplayLimit)
  <2>1. recent' = all /\ Len(all) <= ReplayLimit
    BY <1>1, <1>3, <1>6 DEF Trimmed
  <2>2. Len(all) <= published'
    BY <1>1, <1>3 DEF Replay
  <2> QED
    BY <1>3, <1>4, <2>1, <2>2 DEF Replay
<1> QED
  BY <1>5, <1>6

\* A reader gets the event behind what it has, or is told that it lost it.
LEMMA PublishDelivers ==
  ASSUME TypeOK, NEW kind \in {"progress", "stop"}, Publish(kind),
         NEW r \in Readers, Joined(r)
  PROVE  Joined(r)' /\ queue'[r] \in Seq(Event) /\ Len(queue'[r]) <= MaxQueue
<1> DEFINE event == [n |-> published + 1, kind |-> kind]
<1>1. /\ published \in Nat /\ published' = published + 1 /\ published < MaxEvents
      /\ queue[r] \in Seq(Event) /\ Len(queue[r]) \in Nat /\ Len(queue[r]) <= MaxQueue
      /\ mark[r] \in Nat /\ taken[r] \in Nat
      /\ UNCHANGED <<where, mark, taken>>
  BY DEF TypeOK, Publish
<1>2. event \in Event /\ event.kind # "synced" /\ event.n = published + 1
  BY <1>1 DEF Event
<1>3. /\ queue'[r] = IF where[r] = "reading" THEN Put(queue[r], event) ELSE queue[r]
      /\ lost'[r] = (lost[r] \/ (where[r] = "reading" /\ Len(queue[r]) = MaxQueue))
  BY DEF Publish
<1> HIDE DEF event
<1>4. CASE where[r] # "reading"
  BY <1>1, <1>3, <1>4 DEF Joined
<1>5. CASE where[r] = "reading" /\ Len(queue[r]) = MaxQueue
  <2>0. queue'[r] = queue[r]
    BY <1>1, <1>3, <1>5 DEF Put
  <2>1. queue'[r] = queue[r] /\ lost'[r]
    BY <1>3, <1>5, <2>0, Zenon
  <2>2. Live(r) => Live(r)'
    BY <2>1 DEF Live
  <2>3. ASSUME NEW s \in 1..Len(queue[r]), MarkedAt(r, s)
        PROVE  s \in 1..Len(queue'[r]) /\ MarkedAt(r, s)'
    BY <1>1, <2>1, <2>3 DEF MarkedAt
  <2> QED
    BY <1>1, <1>5, <2>1, <2>2, <2>3 DEF Joined
<1>6. CASE where[r] = "reading" /\ Len(queue[r]) < MaxQueue
  <2>0. queue'[r] = Append(queue[r], event) /\ Len(queue[r]) # MaxQueue
    BY <1>1, <1>3, <1>6 DEF Put
  <2>1. queue'[r] = Append(queue[r], event) /\ (lost'[r] <=> lost[r])
    BY <1>3, <2>0, Zenon
  <2>2. /\ queue'[r] \in Seq(Event) /\ Len(queue'[r]) = Len(queue[r]) + 1
        /\ \A i \in 1..Len(queue[r]) : queue'[r][i] = queue[r][i]
        /\ queue'[r][Len(queue[r]) + 1] = event
    BY <1>1, <1>2, <2>1
  <2>3. \A i \in 1..Len(queue'[r]) : i \in 1..Len(queue[r]) \/ i = Len(queue[r]) + 1
    BY <1>1, <2>2
  <2>4. ASSUME Live(r) PROVE Live(r)'
    <3>1. \A i \in 1..Len(queue'[r]) : queue'[r][i].kind # "synced"
      BY <1>2, <2>2, <2>3, <2>4 DEF Live
    <3>2. ASSUME ~lost[r]
          PROVE  /\ taken'[r] >= mark'[r] /\ taken'[r] + Len(queue'[r]) = published'
                 /\ \A i \in 1..Len(queue'[r]) : queue'[r][i].n = taken'[r] + i
      <4>1. /\ taken[r] >= mark[r] /\ taken[r] + Len(queue[r]) = published
            /\ \A i \in 1..Len(queue[r]) : queue[r][i].n = taken[r] + i
        BY <2>4, <3>2 DEF Live
      <4>2. event.n = taken[r] + (Len(queue[r]) + 1)
        BY <1>1, <1>2, <4>1
      <4>3. \A i \in 1..Len(queue'[r]) : queue'[r][i].n = taken'[r] + i
        <5> TAKE i \in 1..Len(queue'[r])
        <5>1. CASE i \in 1..Len(queue[r])
          BY <1>1, <2>2, <4>1, <5>1
        <5>2. CASE i = Len(queue[r]) + 1
          BY <1>1, <2>2, <4>2, <5>2
        <5> QED
          BY <2>3, <5>1, <5>2
      <4>4. taken'[r] >= mark'[r]
        BY <1>1, <4>1
      <4>5. taken'[r] + Len(queue'[r]) = published'
        <5>1. taken[r] + Len(queue[r]) = published
          BY <4>1
        <5>2. taken[r] \in Nat /\ published \in Nat /\ Len(queue[r]) \in Nat
          BY <1>1
        <5>3. Len(queue'[r]) = Len(queue[r]) + 1
          BY <2>2
        <5>4. taken[r] + (Len(queue[r]) + 1) = published + 1
          BY <5>1, <5>2
        <5>5. taken'[r] = taken[r] /\ published' = published + 1
          BY <1>1
        <5> QED
          BY <5>3, <5>4, <5>5, Zenon
      <4> QED
        BY <4>3, <4>4, <4>5
    <3> QED
      BY <2>1, <3>1, <3>2 DEF Live
  <2>5. ASSUME NEW s \in 1..Len(queue[r]), MarkedAt(r, s)
        PROVE  s \in 1..Len(queue'[r]) /\ MarkedAt(r, s)'
    <3>0. s \in 1..Len(queue'[r]) /\ s # Len(queue[r]) + 1 /\ s < Len(queue[r]) + 1
      BY <1>1, <2>2
    <3>1. queue'[r][s] = Synced /\ taken'[r] + s = mark'[r] + 1
      BY <1>1, <2>2, <2>5 DEF MarkedAt
    <3>2. event.n > mark[r]
      BY <1>1, <1>2, <1>6 DEF Joined
    <3>3. \A i \in 1..Len(queue'[r]) :
            /\ i < s => queue'[r][i].kind # "synced" /\ queue'[r][i].n = taken'[r] + i
            /\ i > s => queue'[r][i].kind # "synced" /\ queue'[r][i].n > mark'[r]
      <4> TAKE i \in 1..Len(queue'[r])
      <4>1. CASE i \in 1..Len(queue[r])
        BY <1>1, <2>2, <2>5, <4>1 DEF MarkedAt
      <4>2. CASE i = Len(queue[r]) + 1
        BY <1>1, <1>2, <2>2, <3>0, <3>2, <4>2
      <4> QED
        BY <2>3, <4>1, <4>2
    <3>4. ASSUME ~lost[r]
          PROVE  Whole(r, s)'
      <4>0. Whole(r, s)
        BY <2>5, <3>4, Zenon DEF MarkedAt
      <4>1. /\ taken[r] + Len(queue[r]) = published + 1
            /\ \A i \in 1..Len(queue[r]) : i > s => queue[r][i].n + 1 = taken[r] + i
        BY <4>0 DEF Whole
      <4>2. event.n + 1 = taken[r] + (Len(queue[r]) + 1)
        <5>1. taken[r] + Len(queue[r]) = published + 1
          BY <4>1
        <5> QED
          BY <1>1, <1>2, <5>1
      <4>3. \A i \in 1..Len(queue'[r]) : i > s => queue'[r][i].n + 1 = taken'[r] + i
        <5> TAKE i \in 1..Len(queue'[r])
        <5>1. CASE i \in 1..Len(queue[r])
          BY <1>1, <2>2, <4>1, <5>1
        <5>2. CASE i = Len(queue[r]) + 1
          BY <1>1, <2>2, <4>2, <5>2
        <5> QED
          BY <2>3, <5>1, <5>2
      <4>4. taken'[r] + Len(queue'[r]) = published' + 1
        <5>1. taken[r] + Len(queue[r]) = published + 1
          BY <4>1
        <5>2. taken[r] \in Nat /\ published \in Nat /\ Len(queue[r]) \in Nat
          BY <1>1
        <5>3. Len(queue'[r]) = Len(queue[r]) + 1
          BY <2>2
        <5>4. taken[r] + (Len(queue[r]) + 1) = (published + 1) + 1
          BY <5>1, <5>2
        <5>5. taken'[r] = taken[r] /\ published' = published + 1
          BY <1>1
        <5> QED
          BY <5>3, <5>4, <5>5, Zenon
      <4> QED
        BY <4>3, <4>4 DEF Whole
    <3> QED
      BY <2>1, <3>0, <3>1, <3>3, <3>4 DEF MarkedAt
  <2>6. mark'[r] <= published'
    <3>1. mark[r] <= published
      BY <1>6 DEF Joined
    <3> QED
      BY <1>1, <3>1
  <2>7. Live(r) \/ \E s \in 1..Len(queue[r]) : MarkedAt(r, s)
    BY <1>6 DEF Joined
  <2>8. Live(r)' \/ \E s \in 1..Len(queue'[r]) : MarkedAt(r, s)'
    BY <2>4, <2>5, <2>7, Zenon
  <2>9. Joined(r)'
    BY <2>6, <2>8, Zenon DEF Joined
  <2>10. Len(queue'[r]) <= MaxQueue
    <3>1. Len(queue'[r]) = Len(queue[r]) + 1
      BY <2>2
    <3> QED
      BY <1>1, <1>6, <3>1
  <2> QED
    BY <2>2, <2>9, <2>10
<1> QED
  BY <1>1, <1>4, <1>5, <1>6

-----------------------------------------------------------------------------
(* The readers *)

\* subscribe: the replay, then the mark of its end.
LEMMA SubscribeJoins ==
  ASSUME TypeOK, Replay, NEW r \in Readers, Subscribe(r)
  PROVE  Joined(r)' /\ queue'[r] \in Seq(Event) /\ Len(queue'[r]) <= MaxQueue
<1>0. PICK s \in Nat : s = Len(recent) + 1
  <2>1. Len(recent) + 1 \in Nat
    BY DEF TypeOK
  <2> QED
    BY <2>1
<1>1. /\ published \in Nat /\ published' = published
      /\ recent \in Seq(Event) /\ Len(recent) \in Nat /\ Len(recent) <= ReplayLimit
      /\ Len(recent) <= published
      /\ queue'[r] = Append(recent, Synced) /\ mark'[r] = published
      /\ taken'[r] = published - Len(recent)
  BY DEF TypeOK, Replay, Subscribe, Backlog, bus
<1>2. Synced \in Event
  BY DEF Synced, Event
<1>3. /\ queue'[r] \in Seq(Event) /\ Len(queue'[r]) = s
      /\ \A i \in 1..Len(recent) : queue'[r][i] = recent[i]
      /\ queue'[r][s] = Synced
  BY <1>0, <1>1, <1>2
<1>4. s \in 1..Len(queue'[r]) /\ s <= MaxQueue
  BY <1>0, <1>1, <1>3
<1>5. \A i \in 1..Len(queue'[r]) :
        i < s => queue'[r][i].kind # "synced" /\ queue'[r][i].n = taken'[r] + i
  <2> SUFFICES ASSUME NEW i \in 1..Len(queue'[r]), i < s
               PROVE  queue'[r][i].kind # "synced" /\ queue'[r][i].n = taken'[r] + i
    OBVIOUS
  <2>1. i \in 1..Len(recent) /\ queue'[r][i] = recent[i]
    BY <1>0, <1>1, <1>3
  <2> QED
    BY <1>1, <2>1 DEF Replay
<1>6. Whole(r, s)'
  <2>1. taken'[r] + Len(queue'[r]) = published' + 1
    <3>1. taken'[r] + s = published + 1
      BY <1>0, <1>1
    <3> QED
      BY <1>1, <1>3, <3>1
  <2>2. \A i \in 1..Len(queue'[r]) : ~(i > s)
    BY <1>1, <1>3
  <2> QED
    BY <2>1, <2>2 DEF Whole
<1>7. MarkedAt(r, s)'
  <2>1. taken'[r] + s = mark'[r] + 1
    BY <1>0, <1>1
  <2>2. \A i \in 1..Len(queue'[r]) : ~(i > s)
    BY <1>3, <1>4
  <2> QED
    BY <1>3, <1>5, <1>6, <2>1, <2>2, Zenon DEF MarkedAt
<1>8. mark'[r] <= published'
  BY <1>1
<1>9. Joined(r)'
  <2> QED
    BY <1>4, <1>7, <1>8, Zenon DEF Joined
<1> QED
  BY <1>3, <1>4, <1>9

LEMMA OneFurther ==
  ASSUME NEW a \in Nat, NEW i \in Nat
  PROVE  a + (i + 1) = (a + 1) + i /\ (a + 1) + (i - 1) = a + i
OBVIOUS

LEMMA OneLess ==
  ASSUME NEW a \in Nat, NEW i \in Nat, NEW n \in Nat, n + 1 = a + (i + 1)
  PROVE  n = a + i
OBVIOUS

\* queue.get() of an event that does not end the stream.
LEMMA TakeKeeps ==
  ASSUME TypeOK, NEW r \in Readers, Joined(r),
         where[r] = "reading", queue[r] # << >>,
         queue'[r] = Tail(queue[r]),
         taken'[r] = IF Head(queue[r]) = Synced THEN taken[r] ELSE Head(queue[r]).n,
         where'[r] = where[r], mark'[r] = mark[r], lost'[r] = lost[r],
         published' = published
  PROVE  Joined(r)' /\ queue'[r] \in Seq(Event) /\ Len(queue'[r]) <= MaxQueue
         /\ taken'[r] \in 0..MaxEvents
<1>1. /\ queue[r] \in Seq(Event) /\ Len(queue[r]) \in Nat /\ Len(queue[r]) >= 1
      /\ Len(queue[r]) <= MaxQueue
      /\ mark[r] \in Nat /\ taken[r] \in 0..MaxEvents /\ published \in Nat
  BY DEF TypeOK
<1>2. /\ queue'[r] \in Seq(Event) /\ Len(queue'[r]) = Len(queue[r]) - 1
      /\ \A i \in 1..Len(queue'[r]) :
           i + 1 \in 1..Len(queue[r]) /\ queue'[r][i] = queue[r][i + 1]
      /\ Head(queue[r]) = queue[r][1] /\ Head(queue[r]) \in Event
      /\ 1 \in 1..Len(queue[r])
  BY <1>1
<1>3. taken'[r] \in 0..MaxEvents /\ Len(queue'[r]) <= MaxQueue
  <2>1. Head(queue[r]).n \in 0..MaxEvents
    BY <1>2 DEF Event
  <2> QED
    BY <1>1, <1>2, <2>1
<1>4. mark'[r] <= published' /\ (Live(r) \/ \E s \in 1..Len(queue[r]) : MarkedAt(r, s))
  BY DEF Joined
<1>5. ASSUME Live(r) PROVE Live(r)'
  <2>1. Head(queue[r]) # Synced
    BY <1>2, <1>5 DEF Live, Synced
  <2>2. \A i \in 1..Len(queue'[r]) : queue'[r][i].kind # "synced"
    BY <1>2, <1>5 DEF Live
  <2>3. CASE lost[r]
    BY <2>2, <2>3 DEF Live
  <2>4. CASE ~lost[r]
    <3>1. /\ taken[r] >= mark[r] /\ taken[r] + Len(queue[r]) = published
          /\ \A i \in 1..Len(queue[r]) : queue[r][i].n = taken[r] + i
      BY <1>5, <2>4 DEF Live
    <3>2. taken'[r] = taken[r] + 1
      <4>1. taken'[r] = queue[r][1].n
        BY <1>2, <2>1
      <4>2. queue[r][1].n = taken[r] + 1
        BY <1>2, <3>1
      <4> QED
        BY <4>1, <4>2
    <3>3. taken'[r] >= mark'[r] /\ taken'[r] + Len(queue'[r]) = published'
      <4>1. taken[r] \in Nat /\ mark[r] \in Nat /\ published \in Nat /\ Len(queue[r]) \in Nat
        BY <1>1
      <4>2. Len(queue'[r]) = Len(queue[r]) - 1
        BY <1>2
      <4> QED
        BY <3>1, <3>2, <4>1, <4>2
    <3>4. \A i \in 1..Len(queue'[r]) : queue'[r][i].n = taken'[r] + i
      <4> TAKE i \in 1..Len(queue'[r])
      <4>1. i \in Nat /\ taken[r] \in Nat
        BY <1>1, <1>2
      <4>2. queue'[r][i] = queue[r][i + 1] /\ queue[r][i + 1].n = taken[r] + (i + 1)
        BY <1>2, <3>1
      <4>3. taken[r] + (i + 1) = taken'[r] + i
        BY <3>2, <4>1
      <4> QED
        BY <4>2, <4>3
    <3> QED
      BY <2>2, <3>3, <3>4 DEF Live
  <2> QED
    BY <2>3, <2>4
<1>6. ASSUME NEW s \in 1..Len(queue[r]), MarkedAt(r, s), s = 1 PROVE Live(r)'
  <2>1. /\ Head(queue[r]) = Synced /\ taken'[r] = taken[r]
        /\ taken[r] + s = mark[r] + 1
    BY <1>2, <1>6 DEF MarkedAt
  <2>2. \A i \in 1..Len(queue'[r]) : queue'[r][i].kind # "synced"
    <3> TAKE i \in 1..Len(queue'[r])
    <3>1. i + 1 \in 1..Len(queue[r]) /\ i + 1 > s
      BY <1>2, <1>6
    <3> QED
      BY <1>2, <1>6, <3>1 DEF MarkedAt
  <2>3. CASE lost[r]
    BY <2>2, <2>3 DEF Live
  <2>4. CASE ~lost[r]
    <3>1. Whole(r, s)
      BY <1>6, <2>4, Zenon DEF MarkedAt
    <3>2. taken[r] + Len(queue[r]) = published + 1
      BY <3>1 DEF Whole
    <3>3. taken'[r] >= mark'[r] /\ taken'[r] + Len(queue'[r]) = published'
      <4>1. taken[r] \in Nat /\ mark[r] \in Nat /\ published \in Nat /\ Len(queue[r]) \in Nat
        BY <1>1
      <4>2. taken[r] = mark[r]
        BY <1>6, <2>1, <4>1
      <4>3. Len(queue'[r]) = Len(queue[r]) - 1
        BY <1>2
      <4>4. taken[r] >= mark[r] /\ taken[r] + Len(queue'[r]) = published
        BY <3>2, <4>1, <4>2, <4>3
      <4>5. mark'[r] = mark[r] /\ published' = published /\ taken'[r] = taken[r]
        BY <1>2, <2>1
      <4> QED
        BY <4>4, <4>5
    <3>4. \A i \in 1..Len(queue'[r]) : queue'[r][i].n = taken'[r] + i
      <4> TAKE i \in 1..Len(queue'[r])
      <4>1. i + 1 > s /\ queue[r][i + 1] \in Event
        BY <1>1, <1>2, <1>6
      <4>2. queue[r][i + 1].n + 1 = taken[r] + (i + 1) /\ queue[r][i + 1].n \in Nat
        BY <1>2, <3>1, <4>1 DEF Whole, Event
      <4>3. i \in Nat /\ taken[r] \in Nat
        BY <1>1, <1>2
      <4>4. queue[r][i + 1].n = taken[r] + i
        BY <4>2, <4>3, OneLess, Zenon
      <4> QED
        BY <1>2, <2>1, <4>4
    <3> QED
      BY <2>2, <3>3, <3>4 DEF Live
  <2> QED
    BY <2>3, <2>4
<1>7. ASSUME NEW s \in 1..Len(queue[r]), MarkedAt(r, s), s # 1
      PROVE  s - 1 \in 1..Len(queue'[r]) /\ MarkedAt(r, s - 1)'
  <2>1. s - 1 \in 1..Len(queue'[r]) /\ (s - 1) + 1 = s /\ s \in Nat /\ 1 < s
    BY <1>1, <1>2, <1>7
  <2>2. queue[r][1].kind # "synced" /\ queue[r][1].n = taken[r] + 1
    BY <1>2, <1>7, <2>1 DEF MarkedAt
  <2>3. taken'[r] = taken[r] + 1
    BY <1>2, <2>2 DEF Synced
  <2>4. queue'[r][s - 1] = Synced /\ taken'[r] + (s - 1) = mark'[r] + 1
    <3>1. queue[r][s] = Synced /\ taken[r] + s = mark[r] + 1
      BY <1>7 DEF MarkedAt
    <3>2. queue'[r][s - 1] = queue[r][s]
      BY <1>2, <2>1
    <3>3. taken[r] \in Nat /\ mark[r] \in Nat
      BY <1>1
    <3>4. taken'[r] + (s - 1) = taken[r] + s
      <4>1. (taken[r] + 1) + (s - 1) = taken[r] + s
        BY <2>1, <3>3, OneFurther, Zenon
      <4> QED
        BY <2>3, <4>1, Zenon
    <3> QED
      BY <3>1, <3>2, <3>4
  <2>5. \A i \in 1..Len(queue'[r]) :
          /\ i < s - 1 => queue'[r][i].kind # "synced" /\ queue'[r][i].n = taken'[r] + i
          /\ i > s - 1 => queue'[r][i].kind # "synced" /\ queue'[r][i].n > mark'[r]
    <3> TAKE i \in 1..Len(queue'[r])
    <3>1. i + 1 \in 1..Len(queue[r]) /\ queue'[r][i] = queue[r][i + 1]
      BY <1>2
    <3>2. CASE i < s - 1
      <4>1. i + 1 < s /\ ~(i > s - 1)
        BY <2>1, <3>2
      <4>2. queue[r][i + 1].kind # "synced" /\ queue[r][i + 1].n = taken[r] + (i + 1)
        BY <1>7, <3>1, <4>1 DEF MarkedAt
      <4>3. i \in Nat /\ taken[r] \in Nat
        BY <1>1, <1>2
      <4>4. taken[r] + (i + 1) = taken'[r] + i
        <5>1. taken[r] + (i + 1) = (taken[r] + 1) + i
          BY <4>3, OneFurther, Zenon
        <5> QED
          BY <2>3, <5>1, Zenon
      <4> QED
        BY <3>1, <4>1, <4>2, <4>4
    <3>3. CASE i > s - 1
      <4>1. i + 1 > s /\ ~(i < s - 1)
        BY <2>1, <3>3
      <4>2. queue[r][i + 1].kind # "synced" /\ queue[r][i + 1].n > mark[r]
        BY <1>7, <3>1, <4>1 DEF MarkedAt
      <4> QED
        BY <3>1, <4>1, <4>2
    <3> QED
      BY <3>2, <3>3
  <2>6. lost'[r] \/ Whole(r, s - 1)'
    <3>1. SUFFICES ASSUME ~lost[r] PROVE Whole(r, s - 1)'
      BY Zenon
    <3>2. Whole(r, s)
      BY <1>7, <3>1, Zenon DEF MarkedAt
    <3>3. taken[r] + Len(queue[r]) = published + 1
      BY <3>2 DEF Whole
    <3>4. taken'[r] + Len(queue'[r]) = published' + 1
      BY <1>1, <1>2, <2>3, <3>3
    <3>5. \A i \in 1..Len(queue'[r]) : i > s - 1 => queue'[r][i].n + 1 = taken'[r] + i
      <4> SUFFICES ASSUME NEW i \in 1..Len(queue'[r]), i > s - 1
                   PROVE  queue'[r][i].n + 1 = taken'[r] + i
        OBVIOUS
      <4>1. i + 1 \in 1..Len(queue[r]) /\ queue'[r][i] = queue[r][i + 1] /\ i + 1 > s
        BY <1>2, <2>1
      <4>2. queue[r][i + 1].n + 1 = taken[r] + (i + 1)
        BY <3>2, <4>1 DEF Whole
      <4>3. i \in Nat /\ taken[r] \in Nat
        BY <1>1, <1>2
      <4>4. taken[r] + (i + 1) = taken'[r] + i
        <5>1. taken[r] + (i + 1) = (taken[r] + 1) + i
          BY <4>3, OneFurther, Zenon
        <5> QED
          BY <2>3, <5>1, Zenon
      <4> QED
        BY <4>1, <4>2, <4>4
    <3> QED
      BY <3>4, <3>5 DEF Whole
  <2> QED
    BY <2>1, <2>4, <2>5, <2>6 DEF MarkedAt
<1> QED
  <2>1. CASE Live(r)
    BY <1>2, <1>3, <1>4, <1>5, <2>1 DEF Joined
  <2>2. ASSUME NEW s \in 1..Len(queue[r]), MarkedAt(r, s) PROVE Joined(r)'
    <3>1. Live(r)' \/ \E p \in 1..Len(queue'[r]) : MarkedAt(r, p)'
      BY <1>6, <1>7, <2>2
    <3> QED
      BY <1>4, <3>1 DEF Joined
  <2> QED
    BY <1>2, <1>3, <1>4, <2>1, <2>2

-----------------------------------------------------------------------------
(* The invariant *)

\* A reader whose part of the state a step leaves alone, the bus with it.
LEMMA LeftAlone ==
  ASSUME NEW r \in Readers, Joined(r), published' = published,
         where'[r] = where[r], queue'[r] = queue[r], mark'[r] = mark[r],
         taken'[r] = taken[r], lost'[r] = lost[r]
  PROVE  Joined(r)'
<1>1. Live(r) => Live(r)'
  BY DEF Live
<1>2. ASSUME NEW s \in 1..Len(queue[r]), MarkedAt(r, s)
      PROVE  s \in 1..Len(queue'[r]) /\ MarkedAt(r, s)'
  BY <1>2 DEF MarkedAt, Whole
<1> QED
  BY <1>1, <1>2 DEF Joined

LEMMA PublishKeeps ==
  ASSUME StreamInv, NEW kind \in {"progress", "stop"}, Publish(kind),
         running' \in BOOLEAN, unsaid' \in 0..2
  PROVE  StreamInv'
<1>1. TypeOK /\ Replay /\ \A r \in Readers : Joined(r)
  BY DEF StreamInv
<1>2. Replay' /\ recent' \in Seq(Event) /\ Len(recent') <= ReplayLimit
  BY <1>1, PublishBuffers
<1>3. \A r \in Readers :
        Joined(r)' /\ queue'[r] \in Seq(Event) /\ Len(queue'[r]) <= MaxQueue
  BY <1>1, PublishDelivers
<1>4. queue' \in [Readers -> Seq(Event)]
  <2>1. DOMAIN queue' = Readers /\ queue' = [r \in Readers |-> queue'[r]]
    BY DEF Publish
  <2> QED
    BY <1>3, <2>1
<1>5. lost' \in [Readers -> BOOLEAN]
  BY <1>1 DEF TypeOK, Publish
<1>6. published' \in 0..MaxEvents
  BY <1>1 DEF TypeOK, Publish
<1>7. UNCHANGED <<where, mark, taken>>
  BY DEF Publish
<1>8. TypeOK'
  BY <1>1, <1>2, <1>3, <1>4, <1>5, <1>6, <1>7 DEF TypeOK
<1> QED
  BY <1>2, <1>3, <1>8 DEF StreamInv

\* A reader that is not reading is bound to nothing.
LEMMA LeavingKeeps ==
  ASSUME StreamInv, NEW r \in Readers, Unsubscribe(r), UNCHANGED <<run, bus>>
  PROVE  StreamInv'
<1>1. TypeOK'
  <2>1. << >> \in Seq(Event) /\ Len(<< >>) = 0
    OBVIOUS
  <2> QED
    BY <2>1 DEF StreamInv, TypeOK, Unsubscribe, run, bus
<1>2. Replay'
  BY DEF StreamInv, Replay, bus
<1>3. ASSUME NEW o \in Readers PROVE Joined(o)'
  <2>1. CASE o = r
    BY <2>1 DEF StreamInv, TypeOK, Unsubscribe, Joined
  <2>2. CASE o # r
    <3>1. /\ Joined(o) /\ published' = published
          /\ where'[o] = where[o] /\ queue'[o] = queue[o] /\ mark'[o] = mark[o]
          /\ taken'[o] = taken[o] /\ lost'[o] = lost[o]
      BY <2>2 DEF StreamInv, TypeOK, Unsubscribe, bus
    <3> QED
      BY <3>1, LeftAlone
  <2> QED
    BY <2>1, <2>2
<1> QED
  BY <1>1, <1>2, <1>3 DEF StreamInv

LEMMA StreamInvariant == Spec => []StreamInv
<1>1. Init => StreamInv
  <2> SUFFICES ASSUME Init PROVE StreamInv
    OBVIOUS
  <2>1. << >> \in Seq(Event) /\ Len(<< >>) = 0
    OBVIOUS
  <2>2. TypeOK
    BY <2>1 DEF Init, TypeOK
  <2>3. Replay
    BY <2>1 DEF Init, Replay
  <2>4. \A r \in Readers : Joined(r)
    BY DEF Init, Joined
  <2> QED
    BY <2>2, <2>3, <2>4 DEF StreamInv
<1>2. StreamInv /\ [Next]_vars => StreamInv'
  <2> SUFFICES ASSUME StreamInv, [Next]_vars PROVE StreamInv'
    OBVIOUS
  <2>0. TypeOK /\ Replay /\ \A r \in Readers : Joined(r)
    BY DEF StreamInv
  <2>1. CASE Progress
    BY <2>0, <2>1, PublishKeeps DEF Progress, run, TypeOK
  <2>2. CASE SayStop
    <3>1. unsaid' \in 0..2 /\ running' \in BOOLEAN /\ Publish("stop")
      BY <2>0, <2>2 DEF SayStop, TypeOK
    <3> QED
      BY <3>1, PublishKeeps
  <2>3. CASE Halt
    <3>1. TypeOK'
      <4>1. unsaid' \in 0..2
        BY <2>0, <2>3 DEF Halt, TypeOK
      <4>2. running' \in BOOLEAN
        BY <2>3, Zenon DEF Halt
      <4> QED
        BY <2>0, <2>3, <4>1, <4>2 DEF Halt, TypeOK, bus, readers
    <3>2. UNCHANGED <<recent, published, where, queue, mark, taken, lost>>
      BY <2>3 DEF Halt, bus, readers
    <3> QED
      BY <2>0, <3>1, <3>2, LeftAlone DEF StreamInv, Replay
  <2>4. CASE Restart
    <3>1. << >> \in Seq(Event) /\ Len(<< >>) = 0
      OBVIOUS
    <3>2. TypeOK'
      <4>1. lost' \in [Readers -> BOOLEAN]
        BY <2>4 DEF Restart
      <4>2. where' \in [Readers -> {"away", "asked", "reading"}]
        BY <2>4 DEF Restart
      <4>3. /\ queue' \in [Readers -> Seq(Event)]
            /\ \A r \in Readers : Len(queue'[r]) <= MaxQueue
            /\ mark' \in [Readers -> 0..MaxEvents] /\ taken' \in [Readers -> 0..MaxEvents]
        BY <2>4, <3>1 DEF Restart
      <4>4. /\ unsaid' \in 0..2 /\ published' \in 0..MaxEvents
            /\ recent' \in Seq(Event) /\ Len(recent') <= ReplayLimit
        BY <2>0, <2>4, <3>1 DEF Restart, TypeOK
      <4>5. running' \in BOOLEAN
        BY <2>4, Zenon DEF Restart
      <4> QED
        BY <4>1, <4>2, <4>3, <4>4, <4>5 DEF TypeOK
    <3>3. Replay'
      BY <2>0, <2>4, <3>1 DEF Restart, Replay, TypeOK
    <3>4. \A r \in Readers : Joined(r)'
      BY <2>4 DEF Restart, Joined
    <3> QED
      BY <3>2, <3>3, <3>4 DEF StreamInv
  <2>5. ASSUME NEW r \in Readers, Resume(r) \/ Look(r) PROVE StreamInv'
    <3>1. /\ where' = [where EXCEPT ![r] = "asked"]
          /\ UNCHANGED <<unsaid, recent, published, queue, mark, taken, lost>>
          /\ running' \in BOOLEAN
      BY <2>0, <2>5 DEF Resume, Look, TypeOK, bus, run
    <3>2. TypeOK'
      BY <2>0, <3>1 DEF TypeOK
    <3>3. ASSUME NEW o \in Readers PROVE Joined(o)'
      <4>1. CASE o = r
        BY <2>0, <3>1, <4>1 DEF Joined, TypeOK
      <4>2. CASE o # r
        <5>1. where'[o] = where[o]
          BY <2>0, <3>1, <4>2 DEF TypeOK
        <5> QED
          BY <2>0, <3>1, <5>1, LeftAlone
      <4> QED
        BY <4>1, <4>2
    <3> QED
      BY <2>0, <3>1, <3>2, <3>3 DEF StreamInv, Replay
  <2>6. ASSUME NEW r \in Readers, Subscribe(r) PROVE StreamInv'
    <3>1. Joined(r)' /\ queue'[r] \in Seq(Event) /\ Len(queue'[r]) <= MaxQueue
      BY <2>0, <2>6, SubscribeJoins
    <3>2. /\ UNCHANGED <<running, unsaid, recent, published, lost>>
          /\ \A o \in Readers : o # r =>
               /\ where'[o] = where[o] /\ queue'[o] = queue[o] /\ mark'[o] = mark[o]
               /\ taken'[o] = taken[o] /\ lost'[o] = lost[o]
      BY <2>0, <2>6 DEF Subscribe, TypeOK, run, bus
    <3>3. /\ queue' = [queue EXCEPT ![r] = queue'[r]]
          /\ published \in 0..MaxEvents /\ published - Len(recent) \in 0..MaxEvents
      BY <2>0, <2>6 DEF Subscribe, TypeOK, Replay
    <3>4. TypeOK'
      <4>1. queue' \in [Readers -> Seq(Event)] /\ \A o \in Readers : Len(queue'[o]) <= MaxQueue
        BY <2>0, <3>1, <3>2, <3>3 DEF TypeOK
      <4>2. /\ where' \in [Readers -> {"away", "asked", "reading"}]
            /\ mark' \in [Readers -> 0..MaxEvents] /\ taken' \in [Readers -> 0..MaxEvents]
        BY <2>0, <2>6, <3>3 DEF Subscribe, TypeOK
      <4> QED
        BY <2>0, <3>2, <4>1, <4>2 DEF TypeOK
    <3>5. \A o \in Readers : Joined(o)'
      BY <2>0, <3>1, <3>2, LeftAlone
    <3> QED
      BY <2>0, <3>2, <3>4, <3>5 DEF StreamInv, Replay
  <2>7. ASSUME NEW r \in Readers, Take(r) PROVE StreamInv'
    <3>1. CASE r \in Waiters /\ StopsOn(Head(queue[r]))
      BY <2>7, <3>1, LeavingKeeps DEF Take
    <3>2. CASE ~(r \in Waiters /\ StopsOn(Head(queue[r])))
      <4>1. /\ queue' = [queue EXCEPT ![r] = Tail(@)]
            /\ taken' = [taken EXCEPT ![r] =
                           IF Head(queue[r]) = Synced THEN @ ELSE Head(queue[r]).n]
            /\ where[r] = "reading" /\ queue[r] # << >>
            /\ UNCHANGED <<running, unsaid, recent, published, where, mark, lost>>
        BY <2>7, <3>2 DEF Take, run, bus
      <4>2. /\ queue'[r] = Tail(queue[r])
            /\ taken'[r] = IF Head(queue[r]) = Synced THEN taken[r] ELSE Head(queue[r]).n
            /\ \A o \in Readers : o # r => queue'[o] = queue[o] /\ taken'[o] = taken[o]
        BY <2>0, <4>1 DEF TypeOK
      <4>3. /\ Joined(r)' /\ queue'[r] \in Seq(Event) /\ Len(queue'[r]) <= MaxQueue
            /\ taken'[r] \in 0..MaxEvents
        BY <2>0, <4>1, <4>2, TakeKeeps
      <4>4. queue' \in [Readers -> Seq(Event)] /\ \A o \in Readers : Len(queue'[o]) <= MaxQueue
        BY <2>0, <4>1, <4>2, <4>3 DEF TypeOK
      <4>5. taken' \in [Readers -> 0..MaxEvents]
        BY <2>0, <4>1, <4>2, <4>3 DEF TypeOK
      <4>6. TypeOK'
        BY <2>0, <4>1, <4>4, <4>5 DEF TypeOK
      <4>7. \A o \in Readers : Joined(o)'
        BY <2>0, <4>1, <4>2, <4>3, LeftAlone
      <4> QED
        BY <2>0, <4>1, <4>6, <4>7 DEF StreamInv, Replay
    <3> QED
      BY <3>1, <3>2
  <2>8. ASSUME NEW r \in Readers, Disconnect(r) PROVE StreamInv'
    BY <2>8, LeavingKeeps DEF Disconnect
  <2>9. CASE UNCHANGED vars
    <3>1. UNCHANGED <<running, unsaid, recent, published, where, queue, mark, taken, lost>>
      BY <2>9 DEF vars, run, bus, readers
    <3> QED
      BY <2>0, <3>1, LeftAlone DEF StreamInv, Replay, TypeOK
  <2> QED
    BY <2>1, <2>2, <2>3, <2>4, <2>5, <2>6, <2>7, <2>8, <2>9 DEF Next
<1> QED
  BY <1>1, <1>2, PTL DEF Spec

\* Every variable keeps its type; a queue never outgrows its size and the replay
\* buffer never its limit (EventBus.publish, subscribe).
THEOREM TypeCorrect == Spec => []TypeOK
BY StreamInvariant, PTL DEF StreamInv

-----------------------------------------------------------------------------
(* What the invariant says of a reader *)

LEMMA QueueFacts ==
  ASSUME TypeOK, NEW r \in Readers
  PROVE  /\ queue[r] \in Seq(Event) /\ Len(queue[r]) \in Nat
         /\ DOMAIN queue[r] = 1..Len(queue[r])
         /\ \A i \in 1..Len(queue[r]) : queue[r][i] \in Event /\ queue[r][i].n \in Nat
         /\ taken[r] \in Nat /\ mark[r] \in Nat /\ published \in Nat
<1>1. queue[r] \in Seq(Event)
  BY DEF TypeOK
<1>2. \A e \in Event : e.n \in Nat
  BY DEF Event
<1> QED
  BY <1>1, <1>2 DEF TypeOK

\* Numbers that go up one by one leave no gap.
LEMMA OneByOne ==
  ASSUME NEW len \in Nat, NEW t \in Nat, NEW num \in [1..len -> Nat],
         \A i \in 1..len : num[i] = t + i
  PROVE  /\ {num[i] : i \in 1..len} = (t + 1)..(t + len)
         /\ \A i, j \in 1..len : i < j => num[i] < num[j]
<1>1. \A i \in 1..len : num[i] \in (t + 1)..(t + len)
  OBVIOUS
<1>2. ASSUME NEW n \in (t + 1)..(t + len)
      PROVE  n - t \in 1..len /\ num[n - t] = n
  <2>1. n - t \in 1..len /\ t + (n - t) = n
    OBVIOUS
  <2> QED
    BY <2>1
<1>3. {num[i] : i \in 1..len} = (t + 1)..(t + len)
  BY <1>1, <1>2
<1>4. \A i, j \in 1..len : i < j => num[i] < num[j]
  OBVIOUS
<1> QED
  BY <1>3, <1>4

\* Nor do they with one place left out.
LEMMA OneByOneAround ==
  ASSUME NEW len \in Nat, NEW t \in Nat, NEW num \in [1..len -> Nat], NEW s \in 1..len,
         \A i \in 1..len : i < s => num[i] = t + i,
         \A i \in 1..len : i > s => num[i] = (t + i) - 1
  PROVE  /\ {num[i] : i \in (1..len) \ {s}} = (t + 1)..((t + len) - 1)
         /\ \A i, j \in (1..len) \ {s} : i < j => num[i] < num[j]
<1>1. ASSUME NEW i \in (1..len) \ {s} PROVE num[i] \in (t + 1)..((t + len) - 1)
  <2>1. CASE i < s
    BY <2>1
  <2>2. CASE i > s
    BY <2>2
  <2> QED
    BY <2>1, <2>2
<1>2. ASSUME NEW n \in (t + 1)..((t + len) - 1)
      PROVE  \E i \in (1..len) \ {s} : num[i] = n
  <2>1. CASE n - t < s
    <3>1. n - t \in (1..len) \ {s} /\ t + (n - t) = n
      BY <2>1
    <3>2. num[n - t] = n
      BY <2>1, <3>1
    <3> QED
      BY <3>1, <3>2
  <2>2. CASE ~(n - t < s)
    <3>1. n - t + 1 \in (1..len) \ {s} /\ n - t + 1 > s /\ (t + (n - t + 1)) - 1 = n
      BY <2>2
    <3>2. num[n - t + 1] = n
      BY <3>1
    <3> QED
      BY <3>1, <3>2
  <2> QED
    BY <2>1, <2>2
<1>3. {num[i] : i \in (1..len) \ {s}} = (t + 1)..((t + len) - 1)
  BY <1>1, <1>2
<1>4. ASSUME NEW i \in (1..len) \ {s}, NEW j \in (1..len) \ {s}, i < j
      PROVE  num[i] < num[j]
  <2>1. CASE j < s
    BY <1>4, <2>1
  <2>2. CASE i > s
    BY <1>4, <2>2
  <2>3. CASE i < s /\ j > s
    BY <1>4, <2>3
  <2> QED
    BY <2>1, <2>2, <2>3
<1> QED
  BY <1>3, <1>4

\* Behind the mark, the live events follow each other.
LEMMA LiveHasNoGap ==
  ASSUME TypeOK, NEW r \in Readers, Live(r), ~lost[r]
  PROVE  /\ {queue[r][i].n : i \in Pending(r)} = (taken[r] + 1)..published
         /\ \A i, j \in Pending(r) : i < j => queue[r][i].n < queue[r][j].n
<1> DEFINE len == Len(queue[r])
           num == [i \in 1..len |-> queue[r][i].n]
<1>1. len \in Nat /\ DOMAIN queue[r] = 1..len /\ num \in [1..len -> Nat]
  BY QueueFacts
<1>2. /\ taken[r] + len = published
      /\ \A i \in 1..len : num[i] = taken[r] + i
  BY DEF Live
<1>3. Pending(r) = 1..len
  BY <1>1 DEF Pending, Live, Synced
<1>4. /\ {num[i] : i \in 1..len} = (taken[r] + 1)..(taken[r] + len)
      /\ \A i, j \in 1..len : i < j => num[i] < num[j]
  <2>1. taken[r] \in Nat
    BY QueueFacts
  <2> HIDE DEF num, len
  <2> QED
    BY <1>1, <1>2, <2>1, OneByOne
<1>5. \A i \in 1..len : num[i] = queue[r][i].n
  OBVIOUS
<1> HIDE DEF num, len
<1>6. /\ {queue[r][i].n : i \in 1..len} = (taken[r] + 1)..(taken[r] + len)
      /\ \A i, j \in 1..len : i < j => queue[r][i].n < queue[r][j].n
  BY <1>4, <1>5
<1> QED
  BY <1>2, <1>3, <1>6

\* And so they do around a mark that is still in the queue.
LEMMA MarkedHasNoGap ==
  ASSUME TypeOK, NEW r \in Readers, NEW s \in 1..Len(queue[r]), MarkedAt(r, s), ~lost[r]
  PROVE  /\ {queue[r][i].n : i \in Pending(r)} = (taken[r] + 1)..published
         /\ \A i, j \in Pending(r) : i < j => queue[r][i].n < queue[r][j].n
<1> DEFINE len == Len(queue[r])
           num == [i \in 1..len |-> queue[r][i].n]
<1>1. /\ len \in Nat /\ DOMAIN queue[r] = 1..len /\ num \in [1..len -> Nat] /\ s \in 1..len
      /\ taken[r] \in Nat /\ published \in Nat
  BY QueueFacts
<1>2. Whole(r, s)
  BY Zenon DEF MarkedAt
<1>3. /\ taken[r] + len = published + 1
      /\ \A i \in 1..len : i > s => num[i] + 1 = taken[r] + i
      /\ \A i \in 1..len : i < s => num[i] = taken[r] + i
  BY <1>2 DEF Whole, MarkedAt
<1>4. Pending(r) = (1..len) \ {s}
  <2>1. queue[r][s] = Synced
    BY DEF MarkedAt
  <2>2. ASSUME NEW i \in 1..len, i # s PROVE queue[r][i] # Synced
    <3>1. i < s \/ i > s
      BY <1>1, <2>2
    <3>2. queue[r][i].kind # "synced"
      BY <3>1 DEF MarkedAt
    <3> QED
      BY <3>2 DEF Synced
  <2> QED
    BY <1>1, <2>1, <2>2 DEF Pending
<1>5. \A i \in 1..len : num[i] = queue[r][i].n
  OBVIOUS
<1> HIDE DEF num, len
<1>6. ASSUME NEW i \in 1..len, i > s PROVE num[i] = (taken[r] + i) - 1
  <2>1. num[i] \in Nat /\ num[i] + 1 = taken[r] + i
    BY <1>1, <1>3, <1>6
  <2> QED
    BY <2>1, Before, Zenon
<1>7. /\ {num[i] : i \in (1..len) \ {s}} = (taken[r] + 1)..((taken[r] + len) - 1)
      /\ \A i, j \in (1..len) \ {s} : i < j => num[i] < num[j]
  BY <1>1, <1>3, <1>6, OneByOneAround
<1>8. (taken[r] + len) - 1 = published
  <2>1. taken[r] \in Nat /\ len \in Nat /\ published \in Nat /\ taken[r] + len = published + 1
    BY <1>1, <1>3, Zenon
  <2> QED
    BY <2>1
<1>9. /\ {queue[r][i].n : i \in (1..len) \ {s}} = (taken[r] + 1)..published
      /\ \A i, j \in (1..len) \ {s} : i < j => queue[r][i].n < queue[r][j].n
  BY <1>5, <1>7, <1>8
<1> QED
  BY <1>4, <1>9

\* Whenever a reader subscribes, and however large buffer and queues are, it gets
\* every event once and in order unless its queue was full (subscribe, publish).
THEOREM NoGapHolds == Spec => []NoGap
<1>1. StreamInv => NoGap
  <2> SUFFICES ASSUME StreamInv, NEW r \in Readers, where[r] = "reading", ~lost[r]
               PROVE  /\ {queue[r][i].n : i \in Pending(r)} = (taken[r] + 1)..published
                      /\ \A i, j \in Pending(r) : i < j => queue[r][i].n < queue[r][j].n
    BY Zenon DEF NoGap
  <2>1. TypeOK /\ Joined(r)
    BY DEF StreamInv
  <2>2. Live(r) \/ \E s \in 1..Len(queue[r]) : MarkedAt(r, s)
    BY <2>1 DEF Joined
  <2> QED
    BY <2>1, <2>2, LiveHasNoGap, MarkedHasNoGap, Zenon
<1> QED
  BY <1>1, StreamInvariant, PTL

\* The end mark stands exactly between what was published before a reader's
\* subscription and after it, for every reader and every size (subscribe).
THEOREM MarkTellsHistoryHolds == Spec => []MarkTellsHistory
<1>1. StreamInv => MarkTellsHistory
  <2> SUFFICES ASSUME StreamInv, NEW r \in Readers, where[r] = "reading",
                      NEW at, at = {i \in DOMAIN queue[r] : queue[r][i] = Synced}
               PROVE  IF at = {}
                        THEN taken[r] >= mark[r] \/ lost[r]
                        ELSE \A i \in DOMAIN queue[r], s \in at :
                               queue[r][i] # Synced => (i < s <=> queue[r][i].n <= mark[r])
    BY Zenon DEF MarkTellsHistory
  <2>1. TypeOK /\ (Live(r) \/ \E s \in 1..Len(queue[r]) : MarkedAt(r, s))
    BY DEF StreamInv, Joined
  <2>2. DOMAIN queue[r] = 1..Len(queue[r]) /\ Len(queue[r]) \in Nat /\ taken[r] \in Nat
        /\ mark[r] \in Nat /\ \A i \in 1..Len(queue[r]) : queue[r][i].n \in Nat
    BY <2>1, QueueFacts
  <2>3. CASE Live(r)
    <3>1. at = {}
      BY <2>2, <2>3 DEF Live, Synced
    <3>2. taken[r] >= mark[r] \/ lost[r]
      BY <2>3, Zenon DEF Live
    <3> QED
      BY <3>1, <3>2, Zenon
  <2>4. ASSUME NEW s \in 1..Len(queue[r]), MarkedAt(r, s)
        PROVE  /\ at = {s}
               /\ \A i \in 1..Len(queue[r]) : i # s => (i < s <=> queue[r][i].n <= mark[r])
    <3>1. queue[r][s] = Synced
      BY <2>4 DEF MarkedAt
    <3>2. ASSUME NEW i \in 1..Len(queue[r]), i # s
          PROVE  queue[r][i] # Synced /\ (i < s <=> queue[r][i].n <= mark[r])
      <4>1. i \in Nat /\ s \in Nat /\ taken[r] + s = mark[r] + 1
        BY <2>2, <2>4 DEF MarkedAt
      <4>2. CASE i < s
        <5>1. queue[r][i].kind # "synced" /\ queue[r][i].n = taken[r] + i
          BY <2>4, <4>2 DEF MarkedAt
        <5>2. queue[r][i].n <= mark[r]
          BY <2>2, <4>1, <4>2, <5>1
        <5> QED
          BY <4>2, <5>1, <5>2 DEF Synced
      <4>3. CASE i > s
        <5>1. queue[r][i].kind # "synced" /\ queue[r][i].n > mark[r]
          BY <2>4, <4>3 DEF MarkedAt
        <5>2. ~(i < s) /\ ~(queue[r][i].n <= mark[r])
          BY <2>2, <4>1, <4>3, <5>1
        <5> QED
          BY <5>1, <5>2 DEF Synced
      <4> QED
        BY <3>2, <4>1, <4>2, <4>3
    <3>3. at = {s}
      BY <2>2, <3>1, <3>2
    <3> QED
      BY <3>2, <3>3
  <2>5. ASSUME NEW s \in 1..Len(queue[r]), MarkedAt(r, s)
        PROVE  at # {} /\ \A i \in DOMAIN queue[r], p \in at :
                 queue[r][i] # Synced => (i < p <=> queue[r][i].n <= mark[r])
    <3>1. at = {s} /\ queue[r][s] = Synced
      BY <2>4, <2>5 DEF MarkedAt
    <3> QED
      BY <2>2, <2>4, <2>5, <3>1
  <2> QED
    BY <2>1, <2>3, <2>5, Zenon
<1> QED
  BY <1>1, StreamInvariant, PTL
=============================================================================
