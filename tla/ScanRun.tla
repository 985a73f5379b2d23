------------------------------- MODULE ScanRun -------------------------------
(***************************************************************************)
(* One scan run of the orchestrator (recon/orchestrator/scans.py): its     *)
(* database row, its module rows, the asyncio tasks that execute it, the   *)
(* operator requests that start, resume, cancel and sign it off, the       *)
(* global kill switch, and crashes and restarts of the process.            *)
(*                                                                         *)
(* A module of the run is its order_index, a number in 1..NModules;        *)
(* resolve_order sorts by phase, so the active ones come last.  A step of  *)
(* an executor goes from one await at which another task can observe or    *)
(* change what it depends on to the next.                                  *)
(***************************************************************************)
EXTENDS Naturals

CONSTANTS NModules,       \* how many modules the run has
          ActiveModules,  \* those of phase ACTIVE
          Executors,      \* slots for _execute tasks alive at the same time
          Requests        \* slots for operator requests handled concurrently

ASSUME ModulesAssumption ==
  /\ NModules \in Nat \ {0}
  /\ ActiveModules \subseteq 1..NModules
  /\ \A m \in ActiveModules, n \in 1..NModules : n > m => n \in ActiveModules

Modules == 1..NModules

VARIABLES
  \* committed rows of the database
  status,            \* scan_run.status; "absent" before start_scan
  activeConfirmed,   \* scan_run.active_confirmed
  modulesCompleted,  \* scan_run.modules_completed
  modStatus,         \* scan_module_run.status of each module
  skipReason,        \* scan_module_run.skip_reason of each module
  \* memory of the server process
  proc,              \* "up", "stopping" (lifespan shutdown) or "down"
  killSwitch,        \* kill_switch.is_engaged
  handle,            \* _handles[run]: "none", "armed" or "cancelled"
  pc, at, completed, \* each executor: where it is, mod, its set "completed"
  req, seen,         \* each request: where it is, the run status it read
  \* history, read by no action: what writes that failed left behind
  lost,              \* modules whose time-out could not be written to their row
  stranded           \* the end of a RUNNING run could not be written to its row

db      == <<status, activeConfirmed, modulesCompleted, modStatus, skipReason>>
tasks   == <<pc, at, completed>>
clients == <<req, seen>>
history == <<lost, stranded>>
vars    == <<db, proc, killSwitch, handle, tasks, clients, history>>

RunStatus == {"absent", "running", "completed", "failed", "paused",
              "awaiting_checkpoint"}
ModuleStatus == {"pending", "running", "completed", "failed", "skipped"}
SkipReason == {"none", "no_input", "resumed_prior_run"}
ExecutorPc == {"idle", "load", "loop", "module", "append", "pausing",
               "checkpoint", "failing", "closing"}
RequestPc == {"idle", "commit", "launch", "launch_yes_active", "preauthorise"}

TypeOK ==
  /\ status \in RunStatus
  /\ activeConfirmed \in BOOLEAN
  /\ modulesCompleted \in SUBSET Modules
  /\ modStatus \in [Modules -> ModuleStatus]
  /\ skipReason \in [Modules -> SkipReason]
  /\ proc \in {"up", "stopping", "down"}
  /\ killSwitch \in BOOLEAN
  /\ handle \in {"none", "armed", "cancelled"}
  /\ pc \in [Executors -> ExecutorPc]
  /\ at \in [Executors -> 1..(NModules + 1)]
  /\ completed \in [Executors -> SUBSET Modules]
  /\ req \in [Requests -> RequestPc]
  /\ seen \in [Requests -> RunStatus]
  /\ lost \in SUBSET Modules
  /\ stranded \in BOOLEAN
  /\ \A t \in Executors : pc[t] \in {"module", "append"} => at[t] \in Modules

Init ==
  /\ status = "absent"
  /\ activeConfirmed = FALSE
  /\ modulesCompleted = {}
  /\ modStatus = [m \in Modules |-> "pending"]
  /\ skipReason = [m \in Modules |-> "none"]
  /\ proc = "up"
  /\ killSwitch = FALSE
  /\ handle = "none"
  /\ pc = [t \in Executors |-> "idle"]
  /\ at = [t \in Executors |-> 1]
  /\ completed = [t \in Executors |-> {}]
  /\ req = [r \in Requests |-> "idle"]
  /\ seen = [r \in Requests |-> "absent"]
  /\ lost = {}
  /\ stranded = FALSE

-----------------------------------------------------------------------------
(* Operator requests (web, REST or CLI) *)

\* start_scan up to its commit; yes_active is the CLI and REST option.
StartScan(r, yesActive) ==
  /\ proc = "up" /\ req[r] = "idle"
  /\ status = "absent"
  /\ ~killSwitch
  /\ status' = "running"
  /\ req' = [req EXCEPT ![r] = IF yesActive THEN "launch_yes_active" ELSE "launch"]
  /\ UNCHANGED <<activeConfirmed, modulesCompleted, modStatus, skipReason,
                 proc, killSwitch, handle, tasks, seen, history>>

\* The states resume_scan accepts.
Resumable_Running == {"awaiting_checkpoint", "paused", "running"}  \* mutant
Resumable_Failed  == {"awaiting_checkpoint", "paused", "failed"}   \* mutant
Resumable == {"awaiting_checkpoint", "paused"}

\* resume_scan up to its commit: the row is read and checked ...
ResumeRead(r) ==
  /\ proc = "up" /\ req[r] = "idle"
  /\ status \in Resumable
  /\ ~killSwitch
  /\ seen' = [seen EXCEPT ![r] = status]
  /\ req' = [req EXCEPT ![r] = "commit"]
  /\ UNCHANGED <<db, proc, killSwitch, handle, tasks, history>>

\* Resuming a run that was seen at its checkpoint signs the checkpoint off.
SignsOff_Always(r) == TRUE  \* mutant
SignsOff(r) == seen[r] = "awaiting_checkpoint"

\* ... and, an await later, written from what was read.
ResumeCommit(r) ==
  /\ req[r] = "commit"
  /\ status' = "running"
  /\ activeConfirmed' = (activeConfirmed \/ SignsOff(r))
  /\ stranded' = FALSE
  /\ req' = [req EXCEPT ![r] = "launch"]
  /\ UNCHANGED <<modulesCompleted, modStatus, skipReason,
                 proc, killSwitch, handle, tasks, seen, lost>>

\* _launch: the handle of the run is created or re-armed, the task created.
Launch(r) ==
  /\ req[r] \in {"launch", "launch_yes_active"}
  /\ \E t \in Executors :
       /\ pc[t] = "idle"
       /\ pc' = [pc EXCEPT ![t] = "load"]
  /\ handle' = "armed"
  /\ req' = [req EXCEPT ![r] =
               IF @ = "launch_yes_active" THEN "preauthorise" ELSE "idle"]
  /\ seen' = [seen EXCEPT ![r] = "absent"]
  /\ UNCHANGED <<db, proc, killSwitch, at, completed, history>>

\* _preauthorize_active, after start_scan has already launched the task.
PreAuthorise(r) ==
  /\ req[r] = "preauthorise"
  /\ activeConfirmed' = TRUE
  /\ req' = [req EXCEPT ![r] = "idle"]
  /\ UNCHANGED <<status, modulesCompleted, modStatus, skipReason,
                 proc, killSwitch, handle, tasks, seen, history>>

\* cancel_scan does nothing when the run has no handle.
CancelScan ==
  /\ proc = "up"
  /\ handle # "none"
  /\ handle' = "cancelled"
  /\ UNCHANGED <<db, proc, killSwitch, tasks, clients, history>>

EngageKillSwitch ==
  /\ proc = "up"
  /\ killSwitch' = TRUE
  /\ UNCHANGED <<db, proc, handle, tasks, clients, history>>

ResetKillSwitch ==
  /\ proc = "up"
  /\ killSwitch' = FALSE
  /\ UNCHANGED <<db, proc, handle, tasks, clients, history>>

-----------------------------------------------------------------------------
(* The executor of the run: _execute and what it calls *)

Cancelled == killSwitch \/ handle = "cancelled"

Goto(t, label) == pc' = [pc EXCEPT ![t] = label]

NextModule_Twice(t) == Goto(t, "loop") /\ at' = [at EXCEPT ![t] = @ + 2]  \* mutant
NextModule(t) == Goto(t, "loop") /\ at' = [at EXCEPT ![t] = @ + 1]

\* A write of the row of module m; the row says what the module does again.
SetModule(m, s) ==
  /\ modStatus' = [modStatus EXCEPT ![m] = s]
  /\ lost' = lost \ {m}

\* _pause writes only over RUNNING.
Pause_Forgotten == UNCHANGED status  \* mutant
Pause == status' = IF status = "running" THEN "paused" ELSE status

\* What a new executor takes for done.
ResumeSet_Empty == {}  \* mutant
ResumeSet == modulesCompleted

Load(t) ==
  /\ pc[t] = "load"
  /\ Goto(t, "loop")
  /\ at' = [at EXCEPT ![t] = 1]
  /\ completed' = [completed EXCEPT ![t] = ResumeSet]
  /\ UNCHANGED <<db, proc, killSwitch, handle, clients, history>>

\* The head of "for mod in ordered": the executor stands before module at[t].
AtHead(t) == pc[t] = "loop" /\ at[t] \in Modules

PauseAtHead(t) ==
  /\ AtHead(t) /\ Cancelled
  /\ Pause
  /\ Goto(t, "closing")
  /\ UNCHANGED <<activeConfirmed, modulesCompleted, modStatus, skipReason,
                 proc, killSwitch, handle, at, completed, clients, history>>

\* _skip_if_pending relabels the row unless it is COMPLETED or FAILED.
SkipIfPending(m) ==
  IF modStatus[m] \in {"completed", "failed"}
    THEN UNCHANGED <<modStatus, skipReason, lost>>
    ELSE /\ SetModule(m, "skipped")
         /\ skipReason' = [skipReason EXCEPT ![m] = "resumed_prior_run"]

\* A module in "completed" is passed over.
SkipCompleted(t) ==
  /\ AtHead(t) /\ ~Cancelled
  /\ at[t] \in completed[t]
  /\ SkipIfPending(at[t])
  /\ NextModule(t)
  /\ UNCHANGED <<status, activeConfirmed, modulesCompleted,
                 proc, killSwitch, handle, completed, clients, stranded>>

\* _active_ok: the checkpoint does not stand before module m.
ActiveOk_Always(m) == TRUE  \* mutant
ActiveOk(m) == m \in ActiveModules => activeConfirmed

\* _active_ok is false: correlate, then hold the run.
HoldActive(t) ==
  /\ AtHead(t) /\ ~Cancelled
  /\ at[t] \notin completed[t]
  /\ ~ActiveOk(at[t])
  /\ Goto(t, "checkpoint")
  /\ UNCHANGED <<db, proc, killSwitch, handle, at, completed, clients, history>>

AwaitCheckpoint(t) ==
  /\ pc[t] = "checkpoint"
  /\ status' = "awaiting_checkpoint"
  /\ Goto(t, "closing")
  /\ UNCHANGED <<activeConfirmed, modulesCompleted, modStatus, skipReason,
                 proc, killSwitch, handle, at, completed, clients, history>>

StartModule(t) ==
  /\ AtHead(t) /\ ~Cancelled
  /\ at[t] \notin completed[t]
  /\ ActiveOk(at[t])
  /\ SetModule(at[t], "running")
  /\ Goto(t, "module")
  /\ UNCHANGED <<status, activeConfirmed, modulesCompleted, skipReason,
                 proc, killSwitch, handle, at, completed, clients, stranded>>

\* What a module that returns has made of its row: nothing, SKIPPED with free
\* text (mark_skipped) or SKIPPED with a reason (mark_no_input).
Outcomes == {"completed", "skipped", "no_input"}

\* mod.run returns: a row still RUNNING becomes COMPLETED.
ModuleReturns(t, outcome) ==
  /\ pc[t] = "module"
  /\ SetModule(at[t], IF outcome = "completed" THEN "completed" ELSE "skipped")
  /\ skipReason' = IF outcome = "no_input"
                     THEN [skipReason EXCEPT ![at[t]] = "no_input"]
                     ELSE skipReason
  /\ Goto(t, "append")
  /\ UNCHANGED <<status, activeConfirmed, modulesCompleted,
                 proc, killSwitch, handle, at, completed, clients, stranded>>

AppendCompleted(t) ==
  /\ pc[t] = "append"
  /\ modulesCompleted' = modulesCompleted \union {at[t]}
  /\ NextModule(t)
  /\ UNCHANGED <<status, activeConfirmed, modStatus, skipReason,
                 proc, killSwitch, handle, completed, clients, history>>

\* An exception of mod.run, or of _append_completed after it.
ModuleFails(t) ==
  /\ pc[t] \in {"module", "append"}
  /\ SetModule(at[t], "failed")
  /\ NextModule(t)
  /\ UNCHANGED <<status, activeConfirmed, modulesCompleted, skipReason,
                 proc, killSwitch, handle, completed, clients, stranded>>

\* ModuleTimeout or the hard wait_for: _force_module_failed re-reads the row.
ModuleTimesOut(t) ==
  /\ pc[t] = "module"
  /\ IF modStatus[at[t]] = "completed" THEN UNCHANGED <<modStatus, lost>>
                                       ELSE SetModule(at[t], "failed")
  /\ NextModule(t)
  /\ UNCHANGED <<status, activeConfirmed, modulesCompleted, skipReason,
                 proc, killSwitch, handle, completed, clients, stranded>>

\* _force_module_failed suppresses any exception of its own session: the row
\* stays RUNNING and the loop goes on.
TimeoutWriteLost(t) ==
  /\ pc[t] = "module"
  /\ lost' = lost \union {at[t]}
  /\ NextModule(t)
  /\ UNCHANGED <<db, proc, killSwitch, handle, completed, clients, stranded>>

\* A cancelled module ends the run's loop.
LeaveLoop_Continue(t) == NextModule(t)  \* mutant
LeaveLoop(t) == Goto(t, "pausing") /\ UNCHANGED at

\* ScanCancelled out of check_alive: the row goes back to PENDING ...
ModuleCancelled(t) ==
  /\ pc[t] = "module" /\ Cancelled
  /\ SetModule(at[t], "pending")
  /\ LeaveLoop(t)
  /\ UNCHANGED <<status, activeConfirmed, modulesCompleted, skipReason,
                 proc, killSwitch, handle, completed, clients, stranded>>

\* ... and in another session the run is paused.
PauseAfterModule(t) ==
  /\ pc[t] = "pausing"
  /\ Pause
  /\ Goto(t, "closing")
  /\ UNCHANGED <<activeConfirmed, modulesCompleted, modStatus, skipReason,
                 proc, killSwitch, handle, at, completed, clients, history>>

\* An exception that leaves _execute_inner: a database error, the correlation
\* engine, or a failed module whose session cannot commit any more (a flush
\* error deactivates it, or the append to modules_completed failed as well, and
\* the handler's own commit raises again).
Raises(t) ==
  /\ pc[t] \in {"load", "loop", "module", "append", "pausing", "checkpoint"}
  /\ Goto(t, "failing")
  /\ UNCHANGED <<db, proc, killSwitch, handle, at, completed, clients, history>>

FailRun(t) ==
  /\ pc[t] = "failing"
  /\ status' = IF status = "running" THEN "failed" ELSE status
  /\ Goto(t, "closing")
  /\ UNCHANGED <<activeConfirmed, modulesCompleted, modStatus, skipReason,
                 proc, killSwitch, handle, at, completed, clients, history>>

\* The write of FAILED raises in its turn, out of _execute: only the finally
\* block runs, and the row keeps what it says.
FailRunLost(t) ==
  /\ pc[t] = "failing"
  /\ stranded' = (stranded \/ status = "running")
  /\ Goto(t, "closing")
  /\ UNCHANGED <<db, proc, killSwitch, handle, at, completed, clients, lost>>

\* After the loop: correlate, then _finish, whatever the row says.
Finish(t) ==
  /\ pc[t] = "loop" /\ at[t] \notin Modules
  /\ status' = "completed"
  /\ Goto(t, "closing")
  /\ UNCHANGED <<activeConfirmed, modulesCompleted, modStatus, skipReason,
                 proc, killSwitch, handle, at, completed, clients, history>>

PopHandle_Kept == UNCHANGED handle  \* mutant
PopHandle == handle' = "none"

\* The sessions and the HTTP client are closed (awaits), then the finally
\* block of _execute pops whatever handle the run has by now.
Close(t) ==
  /\ pc[t] = "closing"
  /\ PopHandle
  /\ Goto(t, "idle")
  /\ at' = [at EXCEPT ![t] = 1]
  /\ completed' = [completed EXCEPT ![t] = {}]
  /\ UNCHANGED <<db, proc, killSwitch, clients, history>>

-----------------------------------------------------------------------------
(* The process *)

\* ScanService.shutdown, called once no request is being served.
Shutdown ==
  /\ proc = "up"
  /\ \A r \in Requests : req[r] = "idle"
  /\ proc' = "stopping"
  /\ handle' = IF handle = "none" THEN "none" ELSE "cancelled"
  /\ UNCHANGED <<db, killSwitch, tasks, clients, history>>

\* An executor that has not ended ten seconds after the shutdown is cancelled by
\* wait_for.  CancelledError is no Exception, so nothing is written: only the
\* finally blocks run, and the rows keep what they say.
CutOff(t) ==
  /\ proc = "stopping"
  /\ pc[t] \notin {"idle", "closing"}
  /\ Goto(t, "closing")
  /\ UNCHANGED <<db, proc, killSwitch, handle, at, completed, clients, history>>

\* The process exits or dies: what it held in memory is gone, what it committed
\* stays.
Stop ==
  /\ proc # "down"
  /\ proc' = "down"
  /\ killSwitch' = FALSE
  /\ handle' = "none"
  /\ pc' = [t \in Executors |-> "idle"]
  /\ at' = [t \in Executors |-> 1]
  /\ completed' = [t \in Executors |-> {}]
  /\ req' = [r \in Requests |-> "idle"]
  /\ seen' = [r \in Requests |-> "absent"]
  /\ UNCHANGED <<db, history>>

\* What reap_orphans makes of a module row.
ReapedRow_Kept(s) == s  \* mutant
ReapedRow_All(s) == IF s = "failed" THEN s ELSE "pending"  \* mutant
ReapedRow(s) == IF s = "running" THEN "pending" ELSE s

\* reap_orphans, before the restarted server handles a request.
ReapOrphans ==
  /\ proc = "down"
  /\ proc' = "up"
  /\ stranded' = FALSE
  /\ status' = IF status = "running" THEN "paused" ELSE status
  /\ modStatus' = [m \in Modules |-> ReapedRow(modStatus[m])]
  /\ UNCHANGED <<activeConfirmed, modulesCompleted, skipReason,
                 killSwitch, handle, tasks, clients, lost>>

\* lifespan swallows an exception of reap_orphans (a locked or a half-migrated
\* database) and starts the server over the rows as they are.
ReapFails ==
  /\ proc = "down"
  /\ proc' = "up"
  /\ stranded' = (status = "running")
  /\ UNCHANGED <<db, killSwitch, handle, tasks, clients, lost>>

-----------------------------------------------------------------------------

RequestStep(r) == ResumeCommit(r) \/ Launch(r) \/ PreAuthorise(r)

ExecutorStep(t) ==
  \/ Load(t) \/ PauseAtHead(t) \/ SkipCompleted(t) \/ HoldActive(t)
  \/ AwaitCheckpoint(t) \/ StartModule(t)
  \/ \E outcome \in Outcomes : ModuleReturns(t, outcome)
  \/ AppendCompleted(t) \/ ModuleFails(t) \/ ModuleTimesOut(t)
  \/ TimeoutWriteLost(t) \/ ModuleCancelled(t) \/ PauseAfterModule(t)
  \/ Raises(t) \/ FailRun(t) \/ FailRunLost(t) \/ Finish(t) \/ Close(t)

Next ==
  \/ \E r \in Requests :
       \/ \E yesActive \in BOOLEAN : StartScan(r, yesActive)
       \/ ResumeRead(r)
       \/ RequestStep(r)
  \/ CancelScan \/ EngageKillSwitch \/ ResetKillSwitch
  \/ \E t \in Executors : ExecutorStep(t) \/ CutOff(t)
  \/ Shutdown \/ Stop \/ ReapOrphans \/ ReapFails

Spec == Init /\ [][Next]_vars

\* The event loop resumes every task that is ready and a module is cut off by
\* its hard timeout; nothing obliges an operator, or the process to restart.
Fairness ==
  /\ \A r \in Requests : WF_vars(RequestStep(r))
  /\ \A t \in Executors : WF_vars(ExecutorStep(t))

FairSpec == Spec /\ Fairness

-----------------------------------------------------------------------------
(* Properties *)

Finished == {"completed", "failed", "skipped"}

\* An executor that is still going to decide what becomes of the run.
Driving(t) == pc[t] \notin {"idle", "closing"}

\* Passive first: no row of an active module has ever left PENDING in a run
\* whose checkpoint the operator has not signed off (_execute_inner).
PassiveFirst == \A m \in ActiveModules : modStatus[m] # "pending" => activeConfirmed

Alive ==
  \/ \E t \in Executors : Driving(t)
  \/ \E r \in Requests : req[r] \in {"launch", "launch_yes_active"}

\* Every RUNNING run of a server that is up has somebody who will end that
\* state: an executor, or a request about to launch one.  Otherwise it could be
\* neither resumed nor cancelled.  The one exception is a row whose end could
\* not be written: by the executor that failed, or by reap_orphans at start-up.
NoOrphanedRun == (status = "running" /\ proc = "up" /\ ~stranded) => Alive

\* A run is driven by one executor at most, and only while its row says
\* RUNNING: the modules of a run never execute twice at a time.
SingleDriver ==
  /\ \A t, u \in Executors : Driving(t) /\ Driving(u) => t = u
  /\ (\E t \in Executors : Driving(t)) => status = "running"

\* The run is over with module m: its row says so, or the module was cut off by
\* its time-out and the write that would say so failed.
Over(m) == modStatus[m] \in Finished \/ m \in lost

\* At the checkpoint the run is over with every module of the osint and passive
\* phases, even if the row of one that timed out could not be written.
CheckpointAfterPassive ==
  status = "awaiting_checkpoint" => \A m \in Modules \ ActiveModules : Over(m)

\* A run is COMPLETED only when none of its modules is still to be run, however
\* it was paused, cancelled, crashed and resumed on the way; a row is not
\* Finished then only where the write of a time-out failed.
CompletedCoversAll ==
  status = "completed" => \A m \in Modules : Over(m)

\* What a resumed run passes over really ended: the list modules_completed and
\* the module rows, written in two transactions, never contradict each other.
ResumeListTrue ==
  \A m \in modulesCompleted : modStatus[m] \in {"completed", "skipped"}

\* While the server is up, a RUNNING module row belongs to an executor inside
\* that module, except in a FAILED run, after the write of a time-out failed,
\* and in a run that was left RUNNING because its end could not be written.
RunningRowOwned ==
  (proc = "up" /\ status # "failed" /\ ~stranded) =>
    \A m \in Modules : modStatus[m] = "running" =>
      \/ m \in lost
      \/ \E t \in Executors : at[t] = m /\ pc[t] \in {"module", "failing"}

\* A module whose completion was recorded keeps its row through every resume.
RecordedNotRerun ==
  [][\A m \in modulesCompleted :
       modStatus[m] = "completed" => modStatus'[m] = "completed"]_vars

\* The sign-off follows the passive phase: unless pre-authorised at start,
\* active_confirmed is set only when the run is over with every passive module.
SignOffInformed ==
  [][ \/ activeConfirmed' = activeConfirmed
      \/ \E r \in Requests : req[r] = "preauthorise"
      \/ \A m \in Modules \ ActiveModules : Over(m) ]_vars

\* The whole implements the life cycle an operator is promised.
Lifecycle == INSTANCE RunLifecycle
               WITH confirmed <- activeConfirmed, done <- modulesCompleted
KeepsLifecycle == Lifecycle!Spec

\* While the process lives, a RUNNING run always comes to a stop, unless the
\* write that would end it fails.
RunStops ==
  (status = "running" /\ proc = "up") ~>
    (status # "running" \/ proc # "up" \/ stranded)

\* A cancellation that reached the handle is always consumed: the executor
\* ends, unless the run is launched anew or the process goes first.
CancelConsumed == handle = "cancelled" ~> handle # "cancelled"

\* CONTRACT.md: a module learns from check_alive that the operator cancelled.
\* It can only while the run it belongs to still has a handle.
ExecutorCancellable == \A t \in Executors : Driving(t) => handle # "none"

\* _skip_if_pending: a module is marked SKIPPED, as carried over from an
\* earlier scan run, "only if it hasn't already run".
SkipOnlyIfPending ==
  [][\A m \in Modules :
       skipReason'[m] = "resumed_prior_run" /\ skipReason[m] # "resumed_prior_run"
         => modStatus[m] = "pending"]_vars

\* ReconModule.run: raising marks the module failed and the run continues, so a
\* FAILED run leaves no module RUNNING.
FailureContained ==
  status = "failed" => \A m \in Modules : modStatus[m] # "running"
=============================================================================
