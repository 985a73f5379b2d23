----------------------------- MODULE EventStream -----------------------------
(***************************************************************************)
(* The live progress of one scan run: the in-process event bus             *)
(* (recon/orchestrator/events.py), with a replay buffer and a bounded      *)
(* queue for each reader, and its two kinds of readers: "recon scan ...    *)
(* --wait", which leaves on a stop event (recon/cli/client.py, app.py),    *)
(* and the dashboard's WebSocket, which never does (web/routes/scans.py).  *)
(***************************************************************************)
EXTENDS Naturals, Sequences

CONSTANTS Waiters,      \* clients of --wait
          Sockets,      \* open dashboards
          ReplayLimit,  \* 100: how many events the bus keeps
          MaxQueue,     \* 500: the size of a reader's queue
          MaxEvents     \* bound: events published in one behaviour

Readers == Waiters \union Sockets

\* A whole replay and its end mark fit into a new queue.
ASSUME StreamAssumption ==
  /\ ReplayLimit \in Nat \ {0} /\ MaxQueue \in Nat /\ MaxEvents \in Nat
  /\ ReplayLimit < MaxQueue

VARIABLES
  running,    \* the run's row says RUNNING
  unsaid,     \* stops that are committed and not published yet
  published,  \* how many events were published
  recent,     \* _recent[run]
  where,      \* each reader: "away", "asked" (saw or made the run run), "reading"
  queue,      \* its queue in _subs[run]
  mark,       \* history: events published when it subscribed
  taken,      \* history: the last event it took
  lost        \* history: the bus dropped or forgot an event it was to get

bus     == <<published, recent>>
run     == <<running, unsaid>>
readers == <<where, queue, mark, taken, lost>>
vars    == <<run, bus, readers>>

Event == [n : 0..MaxEvents, kind : {"progress", "stop", "synced"}]
Synced == [n |-> 0, kind |-> "synced"]

TypeOK ==
  /\ running \in BOOLEAN
  /\ unsaid \in 0..2
  /\ published \in 0..MaxEvents
  /\ recent \in Seq(Event) /\ Len(recent) <= ReplayLimit
  /\ where \in [Readers -> {"away", "asked", "reading"}]
  /\ queue \in [Readers -> Seq(Event)]
  /\ \A r \in Readers : Len(queue[r]) <= MaxQueue
  /\ mark \in [Readers -> 0..MaxEvents]
  /\ taken \in [Readers -> 0..MaxEvents]
  /\ lost \in [Readers -> BOOLEAN]

Init ==
  /\ running = TRUE
  /\ unsaid = 0
  /\ published = 0
  /\ recent = << >>
  /\ where = [r \in Readers |-> "away"]
  /\ queue = [r \in Readers |-> << >>]
  /\ mark = [r \in Readers |-> 0]
  /\ taken = [r \in Readers |-> 0]
  /\ lost = [r \in Readers |-> FALSE]

-----------------------------------------------------------------------------
(* The bus *)

\* del buf[:-100]
Trimmed_Oldest(buf) == SubSeq(buf, 1, IF Len(buf) > ReplayLimit THEN ReplayLimit ELSE Len(buf))  \* mutant
Trimmed_Never(buf) == buf  \* mutant
Trimmed(buf) == IF Len(buf) > ReplayLimit THEN Tail(buf) ELSE buf

\* put_nowait, with QueueFull suppressed.
Put(q, event) == IF Len(q) < MaxQueue THEN Append(q, event) ELSE q

\* One step: publish has no await.
Publish(kind) ==
  LET event == [n |-> published + 1, kind |-> kind]
      subscribed(r) == where[r] = "reading"
  IN  /\ published < MaxEvents
      /\ published' = published + 1
      /\ recent' = Trimmed(Append(recent, event))
      /\ queue' = [r \in Readers |->
                     IF subscribed(r) THEN Put(queue[r], event) ELSE queue[r]]
      /\ lost' = [r \in Readers |->
                    lost[r] \/ (subscribed(r) /\ Len(queue[r]) = MaxQueue)]
      /\ UNCHANGED <<where, mark, taken>>

\* What a new queue holds: the replay, then the mark of its end.
Backlog_MarkFirst == <<Synced>> \o recent  \* mutant
Backlog == Append(recent, Synced)

-----------------------------------------------------------------------------
(* The run, as its executors publish it *)

\* Events of a running run; the last one is kept for its stop.
Progress ==
  /\ running
  /\ published + unsaid + 1 < MaxEvents
  /\ Publish("progress")
  /\ UNCHANGED run

\* _pause, _await_checkpoint, _finish or FAILED: the row is committed ...
Halt ==
  /\ running /\ unsaid < 2
  /\ published + unsaid < MaxEvents
  /\ running' = FALSE
  /\ unsaid' = unsaid + 1
  /\ UNCHANGED <<bus, readers>>

\* ... and the event is published a few awaits later.
SayStop ==
  /\ unsaid > 0
  /\ Publish("stop")
  /\ unsaid' = unsaid - 1
  /\ UNCHANGED running

-----------------------------------------------------------------------------
(* The readers *)

\* A --wait command resumes (or signs off) the run.
Resume(r) ==
  /\ r \in Waiters /\ where[r] = "away"
  /\ ~running /\ published + unsaid < MaxEvents
  /\ running' = TRUE
  /\ where' = [where EXCEPT ![r] = "asked"]
  /\ UNCHANGED <<unsaid, bus, queue, mark, taken, lost>>

\* "recon scan status --wait" has read RUNNING; a dashboard is always let in.
Look(r) ==
  /\ where[r] = "away"
  /\ r \in Waiters => running
  /\ where' = [where EXCEPT ![r] = "asked"]
  /\ UNCHANGED <<run, bus, queue, mark, taken, lost>>

\* subscribe, in the request after that.
Subscribe(r) ==
  /\ where[r] = "asked"
  /\ where' = [where EXCEPT ![r] = "reading"]
  /\ queue' = [queue EXCEPT ![r] = Backlog]
  /\ taken' = [taken EXCEPT ![r] = published - Len(recent)]
  /\ mark' = [mark EXCEPT ![r] = published]
  /\ UNCHANGED <<run, bus, lost>>

\* unsubscribe, and what the model remembers of a reader is reset.
Unsubscribe(r) ==
  /\ where' = [where EXCEPT ![r] = "away"]
  /\ queue' = [queue EXCEPT ![r] = << >>]
  /\ mark' = [mark EXCEPT ![r] = 0]
  /\ taken' = [taken EXCEPT ![r] = 0]
  /\ lost' = [lost EXCEPT ![r] = FALSE]

\* queue.get(): a waiter skips the end mark and leaves on a stop event.
StopsOn_Never(event) == FALSE  \* mutant
StopsOn(event) == event.kind = "stop"

Take(r) ==
  LET event == Head(queue[r])
  IN  /\ where[r] = "reading" /\ queue[r] # << >>
      /\ IF r \in Waiters /\ StopsOn(event)
           THEN Unsubscribe(r)
           ELSE /\ queue' = [queue EXCEPT ![r] = Tail(@)]
                /\ taken' = [taken EXCEPT ![r] = IF event = Synced THEN @ ELSE event.n]
                /\ UNCHANGED <<where, mark, lost>>
      /\ UNCHANGED <<run, bus>>

\* The client closes the page or is interrupted.
Disconnect(r) ==
  /\ where[r] = "reading"
  /\ Unsubscribe(r)
  /\ UNCHANGED <<run, bus>>

\* The server restarts: the bus forgets everything, the streams break off and
\* reap_orphans pauses the run without an event.
Restart ==
  /\ running' = FALSE
  /\ unsaid' = 0
  /\ recent' = << >>
  /\ where' = [r \in Readers |-> IF where[r] = "asked" THEN "asked" ELSE "away"]
  /\ queue' = [r \in Readers |-> << >>]
  /\ mark' = [r \in Readers |-> 0]
  /\ taken' = [r \in Readers |-> 0]
  /\ lost' = [r \in Readers |-> where[r] = "asked"]
  /\ UNCHANGED published

-----------------------------------------------------------------------------

Next ==
  \/ Progress \/ Halt \/ SayStop \/ Restart
  \/ \E r \in Readers :
       Resume(r) \/ Look(r) \/ Subscribe(r) \/ Take(r) \/ Disconnect(r)

Spec == Init /\ [][Next]_vars

\* The event loop runs what is ready; clients read what they are sent.
Fairness ==
  /\ WF_vars(SayStop)
  /\ \A r \in Readers : WF_vars(Subscribe(r)) /\ WF_vars(Take(r))

FairSpec == Spec /\ Fairness

-----------------------------------------------------------------------------
(* Properties *)

\* The places of a reader's queue that hold an event, not the end mark.
Pending(r) == {i \in DOMAIN queue[r] : queue[r][i] # Synced}

\* Replay and live events join without a gap, a repetition or a swap, whenever
\* the reader subscribed, unless its queue was full (subscribe, publish).
NoGap ==
  \A r \in Readers : where[r] = "reading" /\ ~lost[r] =>
    /\ {queue[r][i].n : i \in Pending(r)} = (taken[r] + 1)..published
    /\ \A i, j \in Pending(r) : i < j => queue[r][i].n < queue[r][j].n

\* The end mark tells history from live events: a reader finds every event
\* from before its subscription in front of the mark, and no other (subscribe).
MarkTellsHistory ==
  \A r \in Readers : where[r] = "reading" =>
    LET at == {i \in DOMAIN queue[r] : queue[r][i] = Synced}
    IN  IF at = {}
          THEN taken[r] >= mark[r] \/ lost[r]
          ELSE \A i \in DOMAIN queue[r], s \in at :
                 queue[r][i] # Synced => (i < s <=> queue[r][i].n <= mark[r])

\* A --wait client never waits for a run that is over: once the run has stopped
\* and said so, its reader leaves, unless the run is resumed, or the event the
\* client waits for was dropped at a full queue or forgotten by a restart.
WaitEnds ==
  \A r \in Waiters :
    (where[r] = "reading" /\ ~running /\ unsaid = 0)
      ~> (where[r] # "reading" \/ running \/ lost[r])

\* subscribe marks the end of the replay so that a client can tell "a stale
\* checkpoint_reached" from a live one: while the run is RUNNING, --wait does
\* not leave on a stop from before its subscription.
NoStaleStop ==
  [][\A r \in Waiters :
       Take(r) /\ where'[r] = "away" /\ running => Head(queue[r]).n > mark[r]]_vars
=============================================================================
