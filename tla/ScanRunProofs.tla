---------------------------- MODULE ScanRunProofs ----------------------------
(***************************************************************************)
(* What holds of a scan run for any number of modules, of executors and of *)
(* operator requests handled at the same time.                             *)
(***************************************************************************)
EXTENDS ScanRun, TLAPS

\* Going on to the next module keeps the executor's variables well typed.
LEMMA NextModuleType ==
  ASSUME TypeOK, NEW t \in Executors, at[t] \in Modules, NextModule(t)
  PROVE  /\ pc' \in [Executors -> ExecutorPc]
         /\ at' \in [Executors -> 1..(NModules + 1)]
         /\ \A u \in Executors : pc'[u] \in {"module", "append"} => at'[u] \in Modules
<1>1. pc' \in [Executors -> ExecutorPc]
  BY DEF TypeOK, NextModule, Goto, ExecutorPc
<1>2. at' \in [Executors -> 1..(NModules + 1)]
  BY ModulesAssumption DEF TypeOK, NextModule, Modules
<1>3. \A u \in Executors : pc'[u] \in {"module", "append"} => at'[u] \in Modules
  BY DEF TypeOK, NextModule, Goto
<1>4. QED
  BY <1>1, <1>2, <1>3

\* Every variable keeps its type (the columns and memory of ScanService).
THEOREM TypeCorrect == Spec => []TypeOK
<1>1. Init => TypeOK
  <2> SUFFICES ASSUME Init PROVE TypeOK
    OBVIOUS
  <2>1. activeConfirmed \in BOOLEAN /\ killSwitch \in BOOLEAN
    BY DEF Init
  <2>2. at \in [Executors -> 1..(NModules + 1)]
    BY ModulesAssumption DEF Init
  <2>3. QED
    BY <2>1, <2>2 DEF Init, TypeOK, RunStatus, ModuleStatus, SkipReason,
       ExecutorPc, RequestPc
<1>2. TypeOK /\ [Next]_vars => TypeOK'
  <2> SUFFICES ASSUME TypeOK, [Next]_vars PROVE TypeOK'
    OBVIOUS
  <2> USE DEF TypeOK
  <2>1. ASSUME NEW r \in Requests, NEW yesActive \in BOOLEAN, StartScan(r, yesActive)
        PROVE TypeOK'
    BY <2>1 DEF StartScan, RunStatus, RequestPc, tasks, history
  <2>2. ASSUME NEW r \in Requests, ResumeRead(r) PROVE TypeOK'
    BY <2>2 DEF ResumeRead, RequestPc, db, tasks, history
  <2>3. ASSUME NEW r \in Requests, RequestStep(r) PROVE TypeOK'
    <3>1. CASE ResumeCommit(r)
      <4>1. activeConfirmed' \in BOOLEAN
        BY <3>1 DEF ResumeCommit, SignsOff
      <4>2. QED
        BY <3>1, <4>1 DEF ResumeCommit, RunStatus, RequestPc, tasks
    <3>2. CASE Launch(r)
      BY <3>2 DEF Launch, ExecutorPc, RequestPc, RunStatus, db, history
    <3>3. CASE PreAuthorise(r)
      BY <3>3 DEF PreAuthorise, RequestPc, tasks, history
    <3>4. QED
      BY <2>3, <3>1, <3>2, <3>3 DEF RequestStep
  <2>4. CASE CancelScan \/ EngageKillSwitch \/ ResetKillSwitch
    BY <2>4 DEF CancelScan, EngageKillSwitch, ResetKillSwitch, db, tasks, clients, history
  <2>5. ASSUME NEW t \in Executors, ExecutorStep(t) PROVE TypeOK'
    <3>1. CASE Load(t)
      BY <3>1, ModulesAssumption DEF Load, ResumeSet, Goto, ExecutorPc, db, clients, history
    <3>2. CASE PauseAtHead(t)
      BY <3>2 DEF PauseAtHead, Pause, Goto, ExecutorPc, RunStatus, clients, history
    <3>3. CASE SkipCompleted(t)
      <4>1. /\ modStatus' \in [Modules -> ModuleStatus]
            /\ skipReason' \in [Modules -> SkipReason]
            /\ lost' \in SUBSET Modules
        BY <3>3 DEF SkipCompleted, SkipIfPending, SetModule, ModuleStatus, SkipReason
      <4>2. at[t] \in Modules /\ NextModule(t)
        BY <3>3 DEF SkipCompleted, AtHead
      <4>3. QED
        BY <3>3, <4>1, <4>2, NextModuleType DEF SkipCompleted, clients
    <3>4. CASE HoldActive(t)
      BY <3>4 DEF HoldActive, Goto, ExecutorPc, db, clients, history
    <3>5. CASE AwaitCheckpoint(t)
      BY <3>5 DEF AwaitCheckpoint, Goto, ExecutorPc, RunStatus, clients, history
    <3>6. CASE StartModule(t)
      BY <3>6 DEF StartModule, AtHead, SetModule, Goto, ExecutorPc, ModuleStatus, clients
    <3>7. ASSUME NEW outcome \in Outcomes,
                 ModuleReturns(t, outcome)
          PROVE TypeOK'
      BY <3>7 DEF Outcomes, ModuleReturns, SetModule, Goto, ExecutorPc, ModuleStatus,
         SkipReason, clients
    <3>8. CASE AppendCompleted(t)
      BY <3>8, NextModuleType DEF AppendCompleted, clients, history
    <3>9. CASE ModuleFails(t)
      BY <3>9, NextModuleType DEF ModuleFails, SetModule, ModuleStatus, clients
    <3>10. CASE ModuleTimesOut(t)
      BY <3>10, NextModuleType DEF ModuleTimesOut, SetModule, ModuleStatus, clients
    <3>11. CASE ModuleCancelled(t)
      BY <3>11 DEF ModuleCancelled, SetModule, LeaveLoop, Goto, ExecutorPc, ModuleStatus, clients
    <3>12. CASE PauseAfterModule(t)
      BY <3>12 DEF PauseAfterModule, Pause, Goto, ExecutorPc, RunStatus, clients, history
    <3>13. CASE Raises(t)
      BY <3>13 DEF Raises, Goto, ExecutorPc, db, clients, history
    <3>14. CASE FailRun(t) \/ Finish(t)
      BY <3>14 DEF FailRun, Finish, Goto, ExecutorPc, RunStatus, clients, history
    <3>17. CASE FailRunLost(t)
      <4>1. stranded' \in BOOLEAN
        BY <3>17 DEF FailRunLost
      <4>2. QED
        BY <3>17, <4>1 DEF FailRunLost, Goto, ExecutorPc, db, clients
    <3>15. CASE Close(t)
      BY <3>15, ModulesAssumption DEF Close, PopHandle, Goto, ExecutorPc, db, clients, history
    <3>16. CASE TimeoutWriteLost(t)
      BY <3>16, NextModuleType DEF TimeoutWriteLost, db, clients
    <3>18. QED
      BY <2>5, <3>16, <3>17, <3>1, <3>2, <3>3, <3>4, <3>5, <3>6, <3>7, <3>8, <3>9, <3>10,
         <3>11, <3>12, <3>13, <3>14, <3>15
      DEF ExecutorStep
  <2>6. ASSUME NEW t \in Executors, CutOff(t) PROVE TypeOK'
    BY <2>6 DEF CutOff, Goto, ExecutorPc, db, clients, history
  <2>11. CASE Shutdown
    BY <2>11 DEF Shutdown, db, tasks, clients, history
  <2>7. CASE Stop
    <3>1. killSwitch' \in BOOLEAN /\ activeConfirmed' \in BOOLEAN
      BY <2>7 DEF Stop, db, history
    <3>2. at' \in [Executors -> 1..(NModules + 1)]
      BY <2>7, ModulesAssumption DEF Stop
    <3>3. QED
      BY <2>7, <3>1, <3>2 DEF Stop, db, history, ExecutorPc, RequestPc, RunStatus
  <2>8. CASE ReapOrphans
    BY <2>8 DEF ReapOrphans, ReapedRow, RunStatus, ModuleStatus, tasks, clients
  <2>12. CASE ReapFails
    BY <2>12 DEF ReapFails, db, tasks, clients
  <2>9. CASE UNCHANGED vars
    BY <2>9 DEF vars, db, tasks, clients, history
  <2>10. QED
    BY <2>1, <2>2, <2>3, <2>4, <2>5, <2>6, <2>7, <2>8, <2>9, <2>11, <2>12 DEF Next
<1>3. QED
  BY <1>1, <1>2, PTL DEF Spec

-----------------------------------------------------------------------------
(* Passive first *)

\* PassiveFirst is not inductive: an executor inside an active module, and the
\* record of completed modules it works from, must already imply the sign-off.
SignedOff ==
  /\ PassiveFirst
  /\ \A m \in ActiveModules :
       /\ m \in modulesCompleted => activeConfirmed
       /\ \A t \in Executors : m \in completed[t] => activeConfirmed
  /\ \A t \in Executors :
       pc[t] \in {"module", "append"} /\ at[t] \in ActiveModules => activeConfirmed

\* A row changes at an active module only once the checkpoint is signed off.
LEMMA RowOfSignedOff ==
  ASSUME TypeOK, PassiveFirst, activeConfirmed' = activeConfirmed,
         NEW m \in Modules, NEW s, SetModule(m, s),
         m \in ActiveModules => activeConfirmed
  PROVE  PassiveFirst'
BY ModulesAssumption DEF TypeOK, PassiveFirst, SetModule, Modules

LEMMA SignedOffInvariant == Spec => []SignedOff
<1>1. Init => SignedOff
  BY ModulesAssumption DEF Init, SignedOff, PassiveFirst, Modules
<1>2. TypeOK /\ SignedOff /\ [Next]_vars => SignedOff'
  <2> SUFFICES ASSUME TypeOK, SignedOff, [Next]_vars PROVE SignedOff'
    OBVIOUS
  <2>1. ASSUME NEW r \in Requests, NEW yesActive \in BOOLEAN, StartScan(r, yesActive)
        PROVE SignedOff'
    BY <2>1 DEF StartScan, SignedOff, PassiveFirst, tasks
  <2>2. ASSUME NEW r \in Requests, ResumeRead(r) PROVE SignedOff'
    BY <2>2 DEF ResumeRead, SignedOff, PassiveFirst, db, tasks
  <2>3. ASSUME NEW r \in Requests, RequestStep(r) PROVE SignedOff'
    <3>1. CASE ResumeCommit(r)
      BY <3>1 DEF ResumeCommit, SignedOff, PassiveFirst, tasks
    <3>2. CASE Launch(r)
      BY <3>2 DEF Launch, SignedOff, PassiveFirst, TypeOK, db
    <3>3. CASE PreAuthorise(r)
      BY <3>3 DEF PreAuthorise, SignedOff, PassiveFirst, tasks
    <3>4. QED
      BY <2>3, <3>1, <3>2, <3>3 DEF RequestStep
  <2>4. CASE CancelScan \/ EngageKillSwitch \/ ResetKillSwitch \/ Shutdown
    BY <2>4 DEF CancelScan, EngageKillSwitch, ResetKillSwitch, Shutdown,
       SignedOff, PassiveFirst, db, tasks
  <2>5. ASSUME NEW t \in Executors, ExecutorStep(t) PROVE SignedOff'
    <3>1. CASE Load(t)
      BY <3>1 DEF Load, ResumeSet, Goto, TypeOK, SignedOff, PassiveFirst, db
    <3>2. CASE \/ PauseAtHead(t) \/ HoldActive(t) \/ AwaitCheckpoint(t)
               \/ PauseAfterModule(t) \/ Raises(t) \/ FailRun(t) \/ FailRunLost(t) \/ Finish(t)
      BY <3>2 DEF PauseAtHead, HoldActive, AwaitCheckpoint, PauseAfterModule, Raises,
         FailRun, FailRunLost, Finish, Goto, TypeOK, SignedOff, PassiveFirst, db
    <3>3. CASE SkipCompleted(t)
      <4>1. PassiveFirst'
        BY <3>3, RowOfSignedOff DEF SkipCompleted, SkipIfPending, AtHead, SignedOff, PassiveFirst
      <4>2. QED
        BY <3>3, <4>1 DEF SkipCompleted, NextModule, Goto, TypeOK, SignedOff
    <3>4. CASE StartModule(t)
      <4>1. PassiveFirst'
        BY <3>4, RowOfSignedOff DEF StartModule, AtHead, ActiveOk, SignedOff
      <4>2. QED
        BY <3>4, <4>1 DEF StartModule, ActiveOk, Goto, TypeOK, SignedOff
    <3>5. ASSUME NEW outcome \in Outcomes,
                 ModuleReturns(t, outcome)
          PROVE SignedOff'
      <4>1. PassiveFirst'
        BY <3>5, RowOfSignedOff DEF ModuleReturns, TypeOK, SignedOff
      <4>2. QED
        BY <3>5, <4>1 DEF ModuleReturns, Goto, TypeOK, SignedOff
    <3>6. CASE AppendCompleted(t) \/ TimeoutWriteLost(t)
      BY <3>6 DEF AppendCompleted, TimeoutWriteLost, NextModule, Goto, TypeOK, SignedOff,
         PassiveFirst, db
    <3>7. CASE ModuleFails(t) \/ ModuleTimesOut(t)
      <4>1. PassiveFirst'
        BY <3>7, RowOfSignedOff
        DEF ModuleFails, ModuleTimesOut, TypeOK, SignedOff, PassiveFirst
      <4>2. QED
        BY <3>7, <4>1 DEF ModuleFails, ModuleTimesOut, NextModule, Goto, TypeOK, SignedOff
    <3>8. CASE ModuleCancelled(t)
      <4>1. PassiveFirst'
        BY <3>8, RowOfSignedOff DEF ModuleCancelled, TypeOK, SignedOff
      <4>2. QED
        BY <3>8, <4>1 DEF ModuleCancelled, LeaveLoop, Goto, TypeOK, SignedOff
    <3>9. CASE Close(t)
      BY <3>9 DEF Close, Goto, TypeOK, SignedOff, PassiveFirst, db
    <3>10. QED
      BY <2>5, <3>1, <3>2, <3>3, <3>4, <3>5, <3>6, <3>7, <3>8, <3>9 DEF ExecutorStep
  <2>6. CASE Stop
    BY <2>6 DEF Stop, SignedOff, PassiveFirst, db
  <2>10. ASSUME NEW t \in Executors, CutOff(t) PROVE SignedOff'
    BY <2>10 DEF CutOff, Goto, TypeOK, SignedOff, PassiveFirst, db
  <2>11. CASE ReapFails
    BY <2>11 DEF ReapFails, SignedOff, PassiveFirst, db, tasks
  <2>7. CASE ReapOrphans
    BY <2>7, ModulesAssumption
    DEF ReapOrphans, ReapedRow, SignedOff, PassiveFirst, Modules, tasks
  <2>8. CASE UNCHANGED vars
    BY <2>8 DEF vars, db, tasks, SignedOff, PassiveFirst
  <2>9. QED
    BY <2>1, <2>2, <2>3, <2>4, <2>5, <2>6, <2>7, <2>8, <2>10, <2>11 DEF Next
<1>3. QED
  BY <1>1, <1>2, TypeCorrect, PTL DEF Spec

\* No active module has left PENDING, in any state of any run, unless the
\* operator has signed the checkpoint off (scans.py: _active_ok).
THEOREM PassiveFirstHolds == Spec => []PassiveFirst
<1>1. SignedOff => PassiveFirst
  BY DEF SignedOff
<1>2. QED
  BY <1>1, SignedOffInvariant, PTL

-----------------------------------------------------------------------------
(* No run is left RUNNING with nobody to end it *)

\* Whoever stops driving a run has first taken its row out of RUNNING, and a
\* launching request hands the run over to an executor (_execute, _launch).
THEOREM NoOrphanedRunHolds == Spec => []NoOrphanedRun
<1>1. Init => NoOrphanedRun
  BY DEF Init, NoOrphanedRun, Alive, Driving
<1>2. TypeOK /\ NoOrphanedRun /\ [Next]_vars => NoOrphanedRun'
  <2> SUFFICES ASSUME TypeOK, NoOrphanedRun, [Next]_vars PROVE NoOrphanedRun'
    OBVIOUS
  <2> USE DEF NoOrphanedRun, Alive, Driving
  <2>1. ASSUME NEW r \in Requests, NEW yesActive \in BOOLEAN, StartScan(r, yesActive)
        PROVE NoOrphanedRun'
    BY <2>1 DEF StartScan, TypeOK, history
  <2>2. ASSUME NEW r \in Requests, ResumeRead(r) PROVE NoOrphanedRun'
    BY <2>2 DEF ResumeRead, TypeOK, db, tasks, history
  <2>3. ASSUME NEW r \in Requests, RequestStep(r) PROVE NoOrphanedRun'
    <3>1. CASE ResumeCommit(r)
      BY <3>1 DEF ResumeCommit, TypeOK
    <3>2. CASE Launch(r)
      BY <3>2 DEF Launch, TypeOK, history
    <3>3. CASE PreAuthorise(r)
      BY <3>3 DEF PreAuthorise, TypeOK, tasks, history
    <3>4. QED
      BY <2>3, <3>1, <3>2, <3>3 DEF RequestStep
  <2>4. CASE CancelScan \/ EngageKillSwitch \/ ResetKillSwitch \/ Shutdown
    BY <2>4 DEF CancelScan, EngageKillSwitch, ResetKillSwitch, Shutdown, db, tasks, clients, history
  <2>5. ASSUME NEW t \in Executors, ExecutorStep(t) PROVE NoOrphanedRun'
    <3> USE DEF Goto, TypeOK, clients, history
    \* The steps after which t no longer drives the run.
    <3>1. CASE \/ PauseAtHead(t) \/ PauseAfterModule(t) \/ AwaitCheckpoint(t)
               \/ FailRun(t) \/ Finish(t)
      BY <3>1 DEF PauseAtHead, PauseAfterModule, Pause, AwaitCheckpoint, FailRun, Finish
    <3>8. CASE FailRunLost(t)
      <4>1. status' = status /\ (status = "running" => stranded')
        BY <3>8 DEF FailRunLost, db
      <4>2. QED
        BY <4>1
    <3>2. CASE Close(t)
      BY <3>2 DEF Close, db
    \* The steps after which it still does.
    <3>3. CASE Load(t) \/ HoldActive(t) \/ Raises(t)
      BY <3>3 DEF Load, HoldActive, Raises, db
    <3>4. CASE SkipCompleted(t) \/ StartModule(t)
      BY <3>4 DEF SkipCompleted, StartModule, NextModule
    <3>5. ASSUME NEW outcome \in Outcomes,
                 ModuleReturns(t, outcome)
          PROVE NoOrphanedRun'
      BY <3>5 DEF ModuleReturns
    <3>6. CASE \/ AppendCompleted(t) \/ ModuleFails(t) \/ ModuleTimesOut(t)
               \/ TimeoutWriteLost(t) \/ ModuleCancelled(t)
      BY <3>6 DEF AppendCompleted, ModuleFails, ModuleTimesOut, TimeoutWriteLost,
         ModuleCancelled, LeaveLoop, NextModule, db
    <3>7. QED
      BY <2>5, <3>1, <3>2, <3>3, <3>4, <3>5, <3>6, <3>8 DEF ExecutorStep
  \* The steps after which nobody may be left.
  <2>6. CASE Stop \/ ReapOrphans \/ ReapFails
    <3>1. CASE Stop \/ ReapOrphans
      BY <2>6, <3>1 DEF Stop, ReapOrphans
    <3>2. CASE ReapFails
      <4>1. status' = status
        BY <3>2 DEF ReapFails, db
      <4>2. status = "running" => stranded'
        BY <3>2, Zenon DEF ReapFails
      <4>3. QED
        BY <4>1, <4>2
    <3>3. QED
      BY <2>6, <3>1, <3>2
  <2>9. ASSUME NEW t \in Executors, CutOff(t) PROVE NoOrphanedRun'
    BY <2>9 DEF CutOff
  <2>7. CASE UNCHANGED vars
    BY <2>7 DEF vars, db, tasks, clients, history
  <2>8. QED
    BY <2>1, <2>2, <2>3, <2>4, <2>5, <2>6, <2>7, <2>9 DEF Next
<1>3. QED
  BY <1>1, <1>2, TypeCorrect, PTL DEF Spec

-----------------------------------------------------------------------------
(* Requests handled one at a time *)

OneAtATime == \A r, s \in Requests : r = s

\* SingleDriver needs to know what a request in flight has established: before
\* its commit the row still is as it was read, after it nobody drives the run.
OneOwner ==
  /\ SingleDriver
  /\ \A r \in Requests :
       /\ req[r] = "commit" => status = seen[r] /\ status \in Resumable
       /\ req[r] \in {"launch", "launch_yes_active"} =>
            status = "running" /\ \A t \in Executors : ~Driving(t)
       /\ req[r] = "preauthorise" => status # "absent"
  /\ proc = "down" => /\ \A t \in Executors : ~Driving(t)
                     /\ \A r \in Requests : req[r] = "idle"

LEMMA OneOwnerInvariant ==
  ASSUME OneAtATime
  PROVE  Spec => []OneOwner
<1>1. Init => OneOwner
  BY DEF Init, OneOwner, SingleDriver, Driving
<1>2. TypeOK /\ OneOwner /\ [Next]_vars => OneOwner'
  <2> SUFFICES ASSUME TypeOK, OneOwner, [Next]_vars PROVE OneOwner'
    OBVIOUS
  <2> USE DEF OneOwner, SingleDriver, Driving
  <2>1. ASSUME NEW r \in Requests, NEW yesActive \in BOOLEAN, StartScan(r, yesActive)
        PROVE OneOwner'
    BY <2>1, OneAtATime DEF StartScan, TypeOK, OneAtATime, tasks, Resumable
  <2>2. ASSUME NEW r \in Requests, ResumeRead(r) PROVE OneOwner'
    BY <2>2, OneAtATime DEF ResumeRead, TypeOK, OneAtATime, Resumable, db, tasks
  <2>3. ASSUME NEW r \in Requests, RequestStep(r) PROVE OneOwner'
    <3>1. CASE ResumeCommit(r)
      BY <3>1, OneAtATime DEF ResumeCommit, TypeOK, OneAtATime, Resumable, tasks
    <3>2. CASE Launch(r)
      BY <3>2, OneAtATime DEF Launch, TypeOK, OneAtATime, Resumable, db
    <3>3. CASE PreAuthorise(r)
      BY <3>3, OneAtATime DEF PreAuthorise, TypeOK, OneAtATime, Resumable, tasks
    <3>4. QED
      BY <2>3, <3>1, <3>2, <3>3 DEF RequestStep
  <2>4. CASE CancelScan \/ EngageKillSwitch \/ ResetKillSwitch \/ Shutdown
    BY <2>4 DEF CancelScan, EngageKillSwitch, ResetKillSwitch, Shutdown, db, tasks, clients
  <2>5. ASSUME NEW t \in Executors, ExecutorStep(t) PROVE OneOwner'
    <3> USE DEF Goto, TypeOK, clients, Resumable
    <3>1. CASE \/ PauseAtHead(t) \/ PauseAfterModule(t) \/ AwaitCheckpoint(t)
               \/ FailRun(t) \/ FailRunLost(t) \/ Finish(t)
      BY <3>1 DEF PauseAtHead, AtHead, PauseAfterModule, Pause, AwaitCheckpoint,
         FailRun, FailRunLost, Finish, db
    <3>2. CASE Close(t)
      BY <3>2 DEF Close, db
    <3>3. CASE Load(t) \/ HoldActive(t) \/ Raises(t)
      BY <3>3 DEF Load, HoldActive, AtHead, Raises, db
    <3>4. CASE SkipCompleted(t) \/ StartModule(t)
      BY <3>4 DEF SkipCompleted, StartModule, AtHead, NextModule
    <3>5. ASSUME NEW outcome \in Outcomes,
                 ModuleReturns(t, outcome)
          PROVE OneOwner'
      BY <3>5 DEF ModuleReturns
    <3>6. CASE \/ AppendCompleted(t) \/ ModuleFails(t) \/ ModuleTimesOut(t)
               \/ TimeoutWriteLost(t) \/ ModuleCancelled(t)
      BY <3>6 DEF AppendCompleted, ModuleFails, ModuleTimesOut, TimeoutWriteLost,
         ModuleCancelled, LeaveLoop, NextModule, db
    <3>7. QED
      BY <2>5, <3>1, <3>2, <3>3, <3>4, <3>5, <3>6 DEF ExecutorStep
  <2>6. CASE Stop
    BY <2>6 DEF Stop
  <2>7. CASE ReapOrphans \/ ReapFails
    BY <2>7 DEF ReapOrphans, ReapFails, db, tasks, clients
  <2>10. ASSUME NEW t \in Executors, CutOff(t) PROVE OneOwner'
    BY <2>10 DEF CutOff, Goto, TypeOK, db, clients
  <2>8. CASE UNCHANGED vars
    BY <2>8 DEF vars, db, tasks, clients
  <2>9. QED
    BY <2>1, <2>2, <2>3, <2>4, <2>5, <2>6, <2>7, <2>8, <2>10 DEF Next
<1>3. QED
  BY <1>1, <1>2, TypeCorrect, PTL DEF Spec

\* As long as requests are handled one at a time, no two executors ever drive
\* the same run, and none does unless the row says RUNNING.
THEOREM SingleDriverHolds ==
  ASSUME OneAtATime
  PROVE  Spec => []SingleDriver
<1>1. OneOwner => SingleDriver
  BY DEF OneOwner
<1>2. QED
  BY <1>1, OneOwnerInvariant, PTL

\* With requests handled one at a time a scan run implements the life cycle of
\* RunLifecycle: the tasks, handles and restarts behind it never show.
THEOREM ImplementsLifecycle ==
  ASSUME OneAtATime
  PROVE  Spec => KeepsLifecycle
<1> DEFINE Step == [Lifecycle!Next]_(Lifecycle!lifecycle)
<1>1. Init => Lifecycle!Init
  BY DEF Init, Lifecycle!Init
<1>2. TypeOK /\ SignedOff /\ OneOwner /\ [Next]_vars => Step
  <2> SUFFICES ASSUME TypeOK, SignedOff, OneOwner, [Next]_vars PROVE Step
    OBVIOUS
  <2> USE DEF Lifecycle!lifecycle, Lifecycle!Next, Lifecycle!Move
  <2>1. ASSUME NEW r \in Requests, NEW yesActive \in BOOLEAN, StartScan(r, yesActive)
        PROVE Step
    BY <2>1 DEF StartScan, Lifecycle!Begin
  <2>2. ASSUME NEW r \in Requests, ResumeRead(r) PROVE Step
    BY <2>2 DEF ResumeRead, db
  <2>3. ASSUME NEW r \in Requests, RequestStep(r) PROVE Step
    <3>1. CASE ResumeCommit(r)
      <4>1. CASE seen[r] = "awaiting_checkpoint"
        BY <3>1, <4>1 DEF ResumeCommit, SignsOff, OneOwner, Lifecycle!SignOff
      <4>2. CASE seen[r] # "awaiting_checkpoint"
        <5>1. status = "paused" /\ status' = "running"
          BY <3>1, <4>2 DEF ResumeCommit, OneOwner, Resumable
        <5>2. activeConfirmed' = activeConfirmed /\ modulesCompleted' = modulesCompleted
          BY <3>1, <4>2 DEF ResumeCommit, SignsOff, TypeOK
        <5>3. QED
          BY <5>1, <5>2 DEF Lifecycle!Resume
      <4>3. QED
        BY <4>1, <4>2
    <3>2. CASE Launch(r)
      BY <3>2 DEF Launch, db
    <3>3. CASE PreAuthorise(r)
      BY <3>3 DEF PreAuthorise, OneOwner, Lifecycle!PreAuthorise
    <3>4. QED
      BY <2>3, <3>1, <3>2, <3>3 DEF RequestStep
  <2>4. CASE CancelScan \/ EngageKillSwitch \/ ResetKillSwitch \/ Shutdown \/ Stop
    BY <2>4 DEF CancelScan, EngageKillSwitch, ResetKillSwitch, Shutdown, Stop, db
  <2>5. ASSUME NEW t \in Executors, ExecutorStep(t) PROVE Step
    <3>1. CASE \/ Load(t) \/ HoldActive(t) \/ Raises(t) \/ Close(t) \/ SkipCompleted(t)
               \/ StartModule(t) \/ ModuleFails(t) \/ ModuleTimesOut(t)
               \/ TimeoutWriteLost(t) \/ ModuleCancelled(t) \/ FailRunLost(t)
      BY <3>1 DEF Load, HoldActive, Raises, Close, SkipCompleted, StartModule,
         ModuleFails, ModuleTimesOut, TimeoutWriteLost, ModuleCancelled, FailRunLost, db
    <3>2. ASSUME NEW outcome \in Outcomes,
                 ModuleReturns(t, outcome)
          PROVE Step
      BY <3>2 DEF ModuleReturns
    \* The others are steps of an executor that drives a RUNNING run.
    <3>3. CASE \/ PauseAtHead(t) \/ PauseAfterModule(t) \/ AwaitCheckpoint(t)
               \/ FailRun(t) \/ Finish(t)
      <4>1. status = "running"
        BY <3>3 DEF PauseAtHead, AtHead, PauseAfterModule, AwaitCheckpoint, FailRun,
           Finish, OneOwner, SingleDriver, Driving
      <4>2. QED
        BY <3>3, <4>1 DEF PauseAtHead, PauseAfterModule, Pause, AwaitCheckpoint,
           FailRun, Finish, Lifecycle!Halt
    <3>4. CASE AppendCompleted(t)
      <4>1. status = "running"
        BY <3>4 DEF AppendCompleted, OneOwner, SingleDriver, Driving
      <4>2. at[t] \in Modules /\ (at[t] \in ActiveModules => activeConfirmed)
        BY <3>4 DEF AppendCompleted, TypeOK, SignedOff
      <4>3. Lifecycle!Record(at[t])
        BY <3>4, <4>1, <4>2 DEF AppendCompleted, Lifecycle!Record
      <4>4. QED
        BY <4>2, <4>3
    <3>5. QED
      BY <2>5, <3>1, <3>2, <3>3, <3>4 DEF ExecutorStep
  <2>6. CASE ReapOrphans
    BY <2>6 DEF ReapOrphans, Lifecycle!Halt
  <2>9. CASE ReapFails \/ \E t \in Executors : CutOff(t)
    BY <2>9 DEF ReapFails, CutOff, db
  <2>7. CASE UNCHANGED vars
    BY <2>7 DEF vars, db
  <2>8. QED
    BY <2>1, <2>2, <2>3, <2>4, <2>5, <2>6, <2>7, <2>9 DEF Next
<1>3. QED
  BY <1>1, <1>2, TypeCorrect, SignedOffInvariant, OneOwnerInvariant, PTL
  DEF Spec, KeepsLifecycle, Lifecycle!Spec

-----------------------------------------------------------------------------
(* With requests handled one at a time, the rows of the modules, the list of  *)
(* completed modules and the state of the run never contradict each other,    *)
(* for any number of modules and whatever is paused, cancelled, failed,       *)
(* crashed and resumed on the way.                                            *)

\* What an executor on its way through the modules relies on: the record it
\* loaded is the committed one, but for the modules it has recorded itself, and
\* every module it has passed is over.
Walking == {"loop", "module", "append", "pausing", "checkpoint"}

Walked(t) ==
  pc[t] \in Walking =>
    /\ completed[t] \subseteq modulesCompleted
    /\ \A m \in modulesCompleted : m \in completed[t] \/ m < at[t]
    /\ \A m \in Modules : m < at[t] => Over(m)
    /\ pc[t] \in {"module", "append"} => at[t] \notin modulesCompleted
    /\ pc[t] = "module" => at[t] \notin lost
    /\ pc[t] = "append" => modStatus[at[t]] \in {"completed", "skipped"}
    /\ pc[t] = "checkpoint" => at[t] \in ActiveModules

\* RunningRowOwned is not inductive: what nobody owns any more in a process that
\* is going down, or after a write that failed, belongs to a run that stays
\* RUNNING until the next start-up.
Owned ==
  \A m \in Modules : modStatus[m] = "running" =>
    \/ m \in lost
    \/ \E t \in Executors : at[t] = m /\ pc[t] \in {"module", "failing"}

Abandoned == status = "running" /\ ~Alive /\ (proc # "up" \/ stranded)

Accounted ==
  /\ \A t \in Executors : Walked(t)
  /\ CheckpointAfterPassive
  /\ CompletedCoversAll
  /\ ResumeListTrue
  /\ stranded => Abandoned
  /\ status = "failed" \/ Abandoned \/ Owned

\* Who drives a run, or is about to, has not abandoned it.
LEMMA DrivenOwned ==
  ASSUME OneOwner, Accounted, NEW t \in Executors, Driving(t)
  PROVE  Owned /\ ~stranded
BY DEF OneOwner, SingleDriver, Accounted, Abandoned, Alive

\* The modules that are not active come before every active one.
LEMMA PassiveBefore ==
  ASSUME NEW a \in ActiveModules, NEW m \in Modules \ ActiveModules
  PROVE  m < a /\ a \in Modules
BY ModulesAssumption DEF Modules

\* Executors that do not drive the run are bound to nothing.
LEMMA OthersWalked ==
  ASSUME TypeOK, OneOwner, NEW t \in Executors, Driving(t),
         NEW u \in Executors, u # t, pc'[u] = pc[u]
  PROVE  Walked(u)'
<1>1. ~Driving(u)
  BY DEF OneOwner, SingleDriver
<1>2. pc[u] \in {"idle", "closing"}
  BY <1>1 DEF Driving
<1> QED
  BY <1>2 DEF Walked, Walking

\* No executor walks, so none is bound.
LEMMA NobodyWalks ==
  ASSUME \A u \in Executors : pc'[u] \notin Walking
  PROVE  \A u \in Executors : Walked(u)'
BY DEF Walked

\* The driver's steps that leave the run RUNNING.
LEMMA StillRunning ==
  ASSUME status' = "running"
  PROVE  CheckpointAfterPassive' /\ CompletedCoversAll'
BY DEF CheckpointAfterPassive, CompletedCoversAll

\* The driver has passed module at[t], whose row is over now.
LEMMA Passed ==
  ASSUME TypeOK, NEW t \in Executors, Walked(t), pc[t] \in Walking, at[t] \in Modules,
         NextModule(t), completed' = completed,
         modulesCompleted \subseteq modulesCompleted',
         \A m \in modulesCompleted' : m \in modulesCompleted \/ m = at[t],
         \A m \in Modules : m # at[t] => modStatus'[m] = modStatus[m],
         \A m \in lost : m # at[t] => m \in lost',
         modStatus'[at[t]] \in Finished \/ at[t] \in lost'
  PROVE  Walked(t)'
<1>1. pc'[t] = "loop" /\ at'[t] = at[t] + 1 /\ completed'[t] = completed[t]
  BY DEF TypeOK, NextModule, Goto
<1>2. at[t] \in Nat /\ \A m \in Modules : m \in Nat
  BY DEF Modules
<1>3. \A m \in Modules : m < at'[t] => m < at[t] \/ m = at[t]
  BY <1>1, <1>2
<1>4. \A m \in Modules : m < at'[t] => modStatus'[m] \in Finished \/ m \in lost'
  BY <1>2, <1>3 DEF Walked, Over
<1>5. \A m \in modulesCompleted' : m \in completed'[t] \/ m < at'[t]
  <2> TAKE m \in modulesCompleted'
  <2>1. CASE m = at[t]
    BY <1>1, <1>2, <2>1
  <2>2. CASE m \in modulesCompleted
    <3>1. m \in Modules /\ (m \in completed[t] \/ m < at[t])
      BY <2>2 DEF Walked, TypeOK
    <3> QED
      BY <1>1, <1>2, <3>1
  <2> QED
    BY <2>1, <2>2
<1>6. completed'[t] \subseteq modulesCompleted'
  BY <1>1 DEF Walked
<1> QED
  BY <1>1, <1>4, <1>5, <1>6 DEF Walked, Over

\* The row of the driver's own module changes, and no other.
LEMMA OwnRow ==
  ASSUME TypeOK, NEW t \in Executors, at[t] \in Modules, NEW s, SetModule(at[t], s)
  PROVE  /\ modStatus'[at[t]] = s
         /\ \A m \in Modules : m # at[t] => modStatus'[m] = modStatus[m]
         /\ \A m \in lost : m # at[t] => m \in lost'
BY DEF TypeOK, SetModule

\* What the list says stays true when a row outside it changes, ...
LEMMA ListKept ==
  ASSUME TypeOK, ResumeListTrue, modulesCompleted' = modulesCompleted,
         \A m \in modulesCompleted : modStatus'[m] = modStatus[m]
  PROVE  ResumeListTrue'
BY DEF ResumeListTrue

\* ... and the RUNNING rows stay owned when the row of the module the driver
\* leaves is RUNNING no more.
LEMMA OwnedKept ==
  ASSUME TypeOK, OneOwner, Owned, NEW t \in Executors, Driving(t),
         \A u \in Executors : u # t => pc'[u] = pc[u] /\ at'[u] = at[u],
         \A m \in lost : m # at[t] => m \in lost',
         \A m \in Modules : modStatus'[m] = "running" =>
           \/ m \in lost'
           \/ at'[t] = m /\ pc'[t] \in {"module", "failing"}
           \/ modStatus[m] = "running" /\ m # at[t]
           \/ /\ modStatus[m] = "running" /\ pc[t] \notin {"module", "failing"}
              /\ m \in lost => m \in lost'
  PROVE  Owned'
<1> SUFFICES ASSUME NEW m \in Modules, modStatus'[m] = "running", m \notin lost'
             PROVE  \E u \in Executors : at'[u] = m /\ pc'[u] \in {"module", "failing"}
  BY DEF Owned
<1>1. \A u \in Executors : u # t => ~Driving(u)
  BY DEF OneOwner, SingleDriver
<1>2. CASE at'[t] = m /\ pc'[t] \in {"module", "failing"}
  BY <1>2
<1>3. CASE /\ modStatus[m] = "running" /\ m \notin lost
           /\ pc[t] \notin {"module", "failing"} \/ m # at[t]
  <2>1. PICK u \in Executors : at[u] = m /\ pc[u] \in {"module", "failing"}
    BY <1>3 DEF Owned
  <2>2. u # t
    BY <1>3, <2>1
  <2> QED
    BY <2>1, <2>2
<1> QED
  BY <1>2, <1>3

-----------------------------------------------------------------------------
(* The steps of the driver *)

LEMMA DriverFacts ==
  ASSUME TypeOK, OneOwner, Accounted, NEW t \in Executors, Driving(t)
  PROVE  /\ status = "running" /\ proc # "down" /\ Walked(t)
         /\ \A u \in Executors : u # t => ~Driving(u)
         /\ at[t] \in Nat
         /\ Owned /\ stranded = FALSE
<1>1. Owned /\ ~stranded
  BY DrivenOwned
<1> QED
  BY <1>1 DEF OneOwner, SingleDriver, Accounted, TypeOK

\* What an executor that goes on driving has to keep.
LEMMA DriverGoesOn ==
  ASSUME TypeOK, OneOwner, Accounted, NEW t \in Executors, Driving(t),
         status' = status, stranded' = stranded,
         \A u \in Executors : Walked(u)', ResumeListTrue', Owned'
  PROVE  Accounted'
<1>1. status' = "running" /\ stranded' = FALSE
  BY DriverFacts
<1> QED
  BY <1>1, StillRunning DEF Accounted

\* Steps that change neither a row nor the list; pc and at do not lead on.
LEMMA StandsStill ==
  ASSUME TypeOK, OneOwner, Accounted, NEW t \in Executors, Driving(t),
         status' = status, modulesCompleted' = modulesCompleted, modStatus' = modStatus,
         at' = at, completed' = completed, lost' = lost, stranded' = stranded,
         NEW label, Goto(t, label),
         label \in {"checkpoint", "failing"},
         label = "checkpoint" => pc[t] = "loop" /\ at[t] \in ActiveModules
  PROVE  Accounted'
<1>1. Walked(t) /\ Owned /\ pc'[t] = label
      /\ \A u \in Executors : u # t => pc'[u] = pc[u]
  BY DriverFacts DEF Goto, TypeOK
<1>2. ResumeListTrue'
  BY DEF Accounted, ResumeListTrue
<1>3. Owned'
  <2>1. \A m \in Modules : modStatus'[m] = "running" =>
          \/ at'[t] = m /\ pc'[t] \in {"module", "failing"}
          \/ modStatus[m] = "running" /\ m # at[t]
          \/ modStatus[m] = "running" /\ pc[t] \notin {"module", "failing"}
    BY <1>1
  <2> QED
    BY <1>1, <2>1, OwnedKept
<1>4. Walked(t)'
  BY <1>1 DEF Walked, Walking, Over
<1>5. \A u \in Executors : Walked(u)'
  BY <1>1, <1>4, OthersWalked
<1> QED
  BY <1>2, <1>3, <1>5, DriverGoesOn

\* Steps after which nobody drives the run: its rows stay as they are.
LEMMA LetsGo ==
  ASSUME TypeOK, OneOwner, Accounted, NEW t \in Executors, Driving(t),
         Goto(t, "closing"), at' = at, lost' = lost, stranded' = stranded,
         modulesCompleted' = modulesCompleted, modStatus' = modStatus,
         status' \in {"paused", "failed", "completed", "awaiting_checkpoint"},
         status' = "completed" => \A m \in Modules : Over(m),
         status' = "awaiting_checkpoint" => \A m \in Modules \ ActiveModules : Over(m),
         pc[t] \in {"module", "failing"} => status' = "failed"
  PROVE  Accounted'
<1>1. /\ Owned /\ stranded' = FALSE /\ pc'[t] = "closing"
      /\ \A u \in Executors : u # t => pc'[u] = pc[u] /\ ~Driving(u)
  BY DriverFacts DEF Goto, TypeOK
<1>2. ResumeListTrue' /\ CheckpointAfterPassive' /\ CompletedCoversAll'
  BY DEF Accounted, ResumeListTrue, CheckpointAfterPassive, CompletedCoversAll, Over
<1>3. status' = "failed" \/ Owned'
  <2>1. CASE status' # "failed"
    <3>1. \A m \in Modules : modStatus'[m] = "running" =>
            modStatus[m] = "running" /\ pc[t] \notin {"module", "failing"}
      BY <2>1
    <3> QED
      BY <1>1, <3>1, OwnedKept
  <2> QED
    BY <2>1
<1>4. \A u \in Executors : Walked(u)'
  BY <1>1 DEF Walked, Walking, Driving
<1> QED
  BY <1>1, <1>2, <1>3, <1>4 DEF Accounted

\* Steps after which nobody drives a run that stays RUNNING: the process goes
\* down, or the write of FAILED fails.
LEMMA LeavesRunning ==
  ASSUME TypeOK, OneOwner, Accounted, NEW t \in Executors, Driving(t),
         Goto(t, "closing"), status' = status, lost' = lost, req' = req,
         modulesCompleted' = modulesCompleted, modStatus' = modStatus,
         proc' # "up" \/ stranded'
  PROVE  Accounted'
<1>1. /\ status' = "running" /\ pc'[t] = "closing"
      /\ \A u \in Executors : u # t => pc'[u] = pc[u] /\ ~Driving(u)
  BY DriverFacts DEF Goto, TypeOK
<1>2. ResumeListTrue'
  BY DEF Accounted, ResumeListTrue
<1>3. \A u \in Executors : Walked(u)' /\ pc'[u] \in {"idle", "closing"}
  BY <1>1 DEF Walked, Walking, Driving
<1>4. \A r \in Requests : req[r] \notin {"launch", "launch_yes_active"}
  BY DEF OneOwner
<1>5. Abandoned'
  BY <1>1, <1>3, <1>4 DEF Abandoned, Alive, Driving
<1> QED
  BY <1>1, <1>2, <1>3, <1>5, StillRunning DEF Accounted

\* A module that has not been recorded gets row s; what is RUNNING then is
\* owned by the driver.
LEMMA RowWritten ==
  ASSUME TypeOK, OneOwner, Accounted, NEW t \in Executors, Driving(t),
         at[t] \in Modules, at[t] \notin modulesCompleted,
         NEW s, SetModule(at[t], s), at'[t] = at[t] \/ s # "running",
         s = "running" => pc'[t] = "module",
         pc[t] # "failing", modulesCompleted' = modulesCompleted,
         \A u \in Executors : u # t => pc'[u] = pc[u] /\ at'[u] = at[u]
  PROVE  ResumeListTrue' /\ Owned'
<1>1. /\ modStatus'[at[t]] = s
      /\ \A m \in Modules : m # at[t] => modStatus'[m] = modStatus[m]
      /\ \A m \in lost : m # at[t] => m \in lost'
  BY OwnRow
<1>2. ResumeListTrue'
  BY <1>1, ListKept DEF Accounted, TypeOK
<1>3. \A m \in Modules : modStatus'[m] = "running" =>
        \/ at'[t] = m /\ pc'[t] \in {"module", "failing"}
        \/ modStatus[m] = "running" /\ m # at[t]
  BY <1>1
<1>4. Owned'
  BY <1>1, <1>3, DriverFacts, OwnedKept
<1> QED
  BY <1>2, <1>4

LEMMA AccountedExecutor ==
  ASSUME TypeOK, OneOwner, Accounted, NEW t \in Executors, ExecutorStep(t)
  PROVE  Accounted'
<1>1. CASE Load(t)
  <2>1. Driving(t)
    BY <1>1 DEF Load, Driving
  <2>2. /\ UNCHANGED <<status, modulesCompleted, modStatus, lost, stranded>>
        /\ pc'[t] = "loop" /\ at'[t] = 1 /\ completed'[t] = modulesCompleted
        /\ \A u \in Executors : u # t => pc'[u] = pc[u] /\ at'[u] = at[u]
    BY <1>1 DEF Load, Goto, ResumeSet, TypeOK, db, history
  <2>3. pc[t] = "load" /\ Owned
    BY <1>1, <2>1, DriverFacts DEF Load
  <2>4. Walked(t)'
    BY <2>2 DEF Walked, Modules
  <2>5. \A u \in Executors : Walked(u)'
    BY <2>1, <2>2, <2>4, OthersWalked
  <2>6. Owned'
    <3>1. \A m \in Modules : modStatus'[m] = "running" =>
            modStatus[m] = "running" /\ pc[t] \notin {"module", "failing"}
      BY <2>2, <2>3
    <3> QED
      BY <2>1, <2>2, <2>3, <3>1, OwnedKept
  <2>7. ResumeListTrue'
    BY <2>2 DEF Accounted, ResumeListTrue
  <2> QED
    BY <2>1, <2>2, <2>5, <2>6, <2>7, DriverGoesOn
<1>2. CASE PauseAtHead(t) \/ PauseAfterModule(t)
  <2>1. Driving(t) /\ pc[t] \notin {"module", "failing"} /\ Pause /\ Goto(t, "closing")
        /\ UNCHANGED <<at, modulesCompleted, modStatus, lost, stranded>>
    BY <1>2 DEF PauseAtHead, AtHead, PauseAfterModule, Driving, history
  <2>2. status' = "paused"
    BY <2>1, DriverFacts DEF Pause
  <2> QED
    BY <2>1, <2>2, LetsGo
<1>3. CASE SkipCompleted(t)
  <2>1. /\ Driving(t) /\ pc[t] = "loop" /\ at[t] \in Modules /\ at[t] \in completed[t]
        /\ SkipIfPending(at[t]) /\ NextModule(t)
        /\ UNCHANGED <<status, modulesCompleted, completed, stranded>>
    BY <1>3 DEF SkipCompleted, AtHead, Driving
  <2>2. Walked(t) /\ Owned /\ at[t] \in modulesCompleted
    BY <2>1, DriverFacts DEF Walked, Walking
  <2>3. modStatus[at[t]] \in {"completed", "skipped"}
    BY <2>2 DEF Accounted, ResumeListTrue
  <2>4. /\ modStatus'[at[t]] \in {"completed", "skipped"}
        /\ \A m \in Modules : m # at[t] => modStatus'[m] = modStatus[m]
        /\ \A m \in lost : m # at[t] => m \in lost'
    BY <2>1, <2>3 DEF SkipIfPending, SetModule, TypeOK
  <2>5. pc'[t] = "loop" /\ \A u \in Executors : u # t => pc'[u] = pc[u] /\ at'[u] = at[u]
    BY <2>1 DEF NextModule, Goto, TypeOK
  <2>6. Walked(t)'
    BY <2>1, <2>2, <2>4, Passed DEF Walking, Finished
  <2>7. \A u \in Executors : Walked(u)'
    BY <2>1, <2>5, <2>6, OthersWalked
  <2>8. ResumeListTrue'
    BY <2>1, <2>4 DEF Accounted, ResumeListTrue, TypeOK
  <2>9. Owned'
    <3>1. \A m \in Modules : modStatus'[m] = "running" => modStatus[m] = "running" /\ m # at[t]
      BY <2>4
    <3> QED
      BY <2>1, <2>2, <2>4, <2>5, <3>1, OwnedKept
  <2> QED
    BY <2>1, <2>7, <2>8, <2>9, DriverGoesOn
<1>4. CASE HoldActive(t)
  <2>1. /\ Driving(t) /\ Goto(t, "checkpoint") /\ pc[t] = "loop" /\ at[t] \in ActiveModules
        /\ UNCHANGED <<status, modulesCompleted, modStatus, at, completed, lost, stranded>>
    BY <1>4 DEF HoldActive, AtHead, ActiveOk, Driving, db, history
  <2> QED
    BY <2>1, StandsStill
<1>5. CASE AwaitCheckpoint(t)
  <2>1. /\ Driving(t) /\ Goto(t, "closing") /\ pc[t] = "checkpoint"
        /\ status' = "awaiting_checkpoint"
        /\ UNCHANGED <<at, modulesCompleted, modStatus, lost, stranded>>
    BY <1>5 DEF AwaitCheckpoint, Driving, history
  <2>2. /\ at[t] \in ActiveModules
        /\ \A m \in Modules : m < at[t] => Over(m)
    BY <2>1, DriverFacts DEF Walked, Walking
  <2>3. \A m \in Modules \ ActiveModules : Over(m)
    BY <2>2, PassiveBefore
  <2> QED
    BY <2>1, <2>3, LetsGo
<1>6. CASE StartModule(t)
  <2>1. /\ Driving(t) /\ pc[t] = "loop" /\ at[t] \in Modules /\ at[t] \notin completed[t]
        /\ SetModule(at[t], "running") /\ Goto(t, "module")
        /\ UNCHANGED <<status, modulesCompleted, at, completed, stranded>>
    BY <1>6 DEF StartModule, AtHead, Driving
  <2>2. Walked(t) /\ at[t] \notin modulesCompleted
    <3>1. Walked(t) /\ at[t] \in Nat
      BY <2>1, DriverFacts
    <3> QED
      BY <2>1, <3>1 DEF Walked, Walking
  <2>3. pc'[t] = "module" /\ \A u \in Executors : u # t => pc'[u] = pc[u] /\ at'[u] = at[u]
    BY <2>1 DEF Goto, TypeOK
  <2>4. ResumeListTrue' /\ Owned'
    BY <2>1, <2>2, <2>3, RowWritten
  <2>5. /\ \A m \in Modules : m # at[t] => modStatus'[m] = modStatus[m]
        /\ \A m \in lost : m # at[t] => m \in lost'
        /\ at[t] \notin lost'
    BY <2>1, OwnRow DEF SetModule
  <2>6. Walked(t)'
    BY <2>1, <2>2, <2>3, <2>5 DEF Walked, Walking, Over, Modules
  <2>7. \A u \in Executors : Walked(u)'
    BY <2>1, <2>3, <2>6, OthersWalked
  <2> QED
    BY <2>1, <2>4, <2>7, DriverGoesOn
<1>7. ASSUME NEW outcome \in Outcomes, ModuleReturns(t, outcome) PROVE Accounted'
  <2>1. /\ Driving(t) /\ pc[t] = "module" /\ at[t] \in Modules /\ Goto(t, "append")
        /\ UNCHANGED <<status, modulesCompleted, at, completed, stranded>>
    BY <1>7 DEF ModuleReturns, Driving, TypeOK
  <2>2. PICK s \in {"completed", "skipped"} : SetModule(at[t], s)
    BY <1>7 DEF ModuleReturns
  <2>3. Walked(t) /\ at[t] \notin modulesCompleted
    BY <2>1, DriverFacts DEF Walked, Walking
  <2>4. pc'[t] = "append" /\ \A u \in Executors : u # t => pc'[u] = pc[u] /\ at'[u] = at[u]
    BY <2>1 DEF Goto, TypeOK
  <2>5. ResumeListTrue' /\ Owned'
    BY <2>1, <2>2, <2>3, <2>4, RowWritten
  <2>6. /\ modStatus'[at[t]] = s /\ \A m \in Modules : m # at[t] => modStatus'[m] = modStatus[m]
        /\ \A m \in lost : m # at[t] => m \in lost'
    BY <2>1, <2>2, OwnRow
  <2>7. Walked(t)'
    BY <2>1, <2>3, <2>4, <2>6 DEF Walked, Walking, Over, Modules
  <2>8. \A u \in Executors : Walked(u)'
    BY <2>1, <2>4, <2>7, OthersWalked
  <2> QED
    BY <2>1, <2>5, <2>8, DriverGoesOn
<1>8. CASE AppendCompleted(t)
  <2>1. /\ Driving(t) /\ pc[t] = "append" /\ at[t] \in Modules /\ NextModule(t)
        /\ modulesCompleted' = modulesCompleted \union {at[t]}
        /\ UNCHANGED <<status, modStatus, completed, lost, stranded>>
    BY <1>8 DEF AppendCompleted, Driving, TypeOK, history
  <2>2. Walked(t) /\ Owned /\ modStatus[at[t]] \in {"completed", "skipped"}
    BY <2>1, DriverFacts DEF Walked, Walking
  <2>3. pc'[t] = "loop" /\ \A u \in Executors : u # t => pc'[u] = pc[u] /\ at'[u] = at[u]
    BY <2>1 DEF NextModule, Goto, TypeOK
  <2>4. Walked(t)'
    BY <2>1, <2>2, Passed DEF Walking, Finished
  <2>5. \A u \in Executors : Walked(u)'
    BY <2>1, <2>3, <2>4, OthersWalked
  <2>6. ResumeListTrue'
    BY <2>1, <2>2 DEF Accounted, ResumeListTrue
  <2>7. Owned'
    <3>1. \A m \in Modules : modStatus'[m] = "running" =>
            modStatus[m] = "running" /\ pc[t] \notin {"module", "failing"}
      BY <2>1
    <3> QED
      BY <2>1, <2>2, <2>3, <3>1, OwnedKept
  <2> QED
    BY <2>1, <2>5, <2>6, <2>7, DriverGoesOn
<1>9. CASE ModuleFails(t) \/ ModuleTimesOut(t)
  <2>1. /\ Driving(t) /\ pc[t] \in {"module", "append"} /\ at[t] \in Modules /\ NextModule(t)
        /\ UNCHANGED <<status, modulesCompleted, completed, stranded>>
    BY <1>9 DEF ModuleFails, ModuleTimesOut, Driving, TypeOK
  <2>2. PICK s \in {"completed", "failed"} : SetModule(at[t], s)
    <3>1. CASE SetModule(at[t], "failed")
      BY <3>1
    <3>2. CASE /\ pc[t] = "module" /\ modStatus[at[t]] = "completed"
               /\ modStatus' = modStatus /\ lost' = lost
      <4>1. at[t] \notin lost
        BY <2>1, <3>2, DriverFacts DEF Walked, Walking
      <4>2. SetModule(at[t], "completed")
        BY <2>1, <3>2, <4>1 DEF SetModule, TypeOK
      <4> QED
        BY <4>2
    <3> QED
      BY <1>9, <3>1, <3>2 DEF ModuleFails, ModuleTimesOut
  <2>3. Walked(t) /\ at[t] \notin modulesCompleted
    BY <2>1, DriverFacts DEF Walked, Walking
  <2>4. pc'[t] = "loop" /\ \A u \in Executors : u # t => pc'[u] = pc[u] /\ at'[u] = at[u]
    BY <2>1 DEF NextModule, Goto, TypeOK
  <2>5. ResumeListTrue' /\ Owned'
    BY <2>1, <2>2, <2>3, <2>4, RowWritten
  <2>6. /\ modStatus'[at[t]] = s /\ \A m \in Modules : m # at[t] => modStatus'[m] = modStatus[m]
        /\ \A m \in lost : m # at[t] => m \in lost'
    BY <2>1, <2>2, OwnRow
  <2>7. Walked(t)'
    BY <2>1, <2>3, <2>6, Passed DEF Walking, Finished
  <2>8. \A u \in Executors : Walked(u)'
    BY <2>1, <2>4, <2>7, OthersWalked
  <2> QED
    BY <2>1, <2>5, <2>8, DriverGoesOn
<1>10. CASE ModuleCancelled(t)
  <2>1. /\ Driving(t) /\ pc[t] = "module" /\ at[t] \in Modules /\ Goto(t, "pausing")
        /\ SetModule(at[t], "pending")
        /\ UNCHANGED <<status, modulesCompleted, at, completed, stranded>>
    BY <1>10 DEF ModuleCancelled, LeaveLoop, Driving, TypeOK
  <2>2. Walked(t) /\ at[t] \notin modulesCompleted
    BY <2>1, DriverFacts DEF Walked, Walking
  <2>3. pc'[t] = "pausing" /\ \A u \in Executors : u # t => pc'[u] = pc[u] /\ at'[u] = at[u]
    BY <2>1 DEF Goto, TypeOK
  <2>4. ResumeListTrue' /\ Owned'
    BY <2>1, <2>2, <2>3, RowWritten
  <2>5. /\ \A m \in Modules : m # at[t] => modStatus'[m] = modStatus[m]
        /\ \A m \in lost : m # at[t] => m \in lost'
    BY <2>1, OwnRow
  <2>6. Walked(t)'
    BY <2>1, <2>2, <2>3, <2>5 DEF Walked, Walking, Over, Modules
  <2>7. \A u \in Executors : Walked(u)'
    BY <2>1, <2>3, <2>6, OthersWalked
  <2> QED
    BY <2>1, <2>4, <2>7, DriverGoesOn
<1>11. CASE Raises(t)
  <2>1. /\ Driving(t) /\ Goto(t, "failing")
        /\ UNCHANGED <<status, modulesCompleted, modStatus, at, completed, lost, stranded>>
    BY <1>11 DEF Raises, Driving, db, history
  <2> QED
    BY <2>1, StandsStill
<1>12. CASE FailRun(t)
  <2>1. /\ Driving(t) /\ Goto(t, "closing")
        /\ UNCHANGED <<at, modulesCompleted, modStatus, lost, stranded>>
        /\ status' = IF status = "running" THEN "failed" ELSE status
    BY <1>12 DEF FailRun, Driving, history
  <2>2. status' = "failed"
    BY <2>1, DriverFacts
  <2> QED
    BY <2>1, <2>2, LetsGo
<1>13. CASE Finish(t)
  <2>1. /\ Driving(t) /\ Goto(t, "closing") /\ pc[t] = "loop" /\ at[t] \notin Modules
        /\ status' = "completed" /\ UNCHANGED <<at, modulesCompleted, modStatus, lost, stranded>>
    BY <1>13 DEF Finish, Driving, history
  <2>2. at[t] = NModules + 1 /\ NModules \in Nat
    BY <2>1, ModulesAssumption DEF TypeOK, Modules
  <2>3. \A m \in Modules : m < at[t]
    BY <2>2 DEF Modules
  <2>4. \A m \in Modules : Over(m)
    BY <2>1, <2>3, DriverFacts DEF Walked, Walking
  <2> QED
    BY <2>1, <2>4, LetsGo
<1>14. CASE Close(t)
  <2>1. /\ pc[t] = "closing" /\ pc'[t] = "idle"
        /\ \A u \in Executors : u # t =>
             pc'[u] = pc[u] /\ at'[u] = at[u] /\ completed'[u] = completed[u]
        /\ UNCHANGED <<status, proc, req, modulesCompleted, modStatus, lost, stranded>>
    BY <1>14 DEF Close, Goto, TypeOK, db, clients, history
  <2>2. \A u \in Executors : Walked(u)'
    <3> TAKE u \in Executors
    <3>1. CASE u = t
      BY <2>1, <3>1 DEF Walked, Walking
    <3>2. CASE u # t
      BY <2>1, <3>2 DEF Walked, Accounted, Over
    <3> QED
      BY <3>1, <3>2
  <2>3. ASSUME Owned PROVE Owned'
    <3> SUFFICES ASSUME NEW m \in Modules, modStatus[m] = "running", m \notin lost
                 PROVE  \E u \in Executors : at'[u] = m /\ pc'[u] \in {"module", "failing"}
      BY <2>1 DEF Owned
    <3>1. PICK u \in Executors : at[u] = m /\ pc[u] \in {"module", "failing"}
      BY <2>3 DEF Owned
    <3>2. u # t
      BY <2>1, <3>1
    <3> QED
      BY <2>1, <3>1, <3>2
  <2>4. ASSUME Abandoned PROVE Abandoned'
    BY <2>1, <2>4 DEF Abandoned, Alive, Driving
  <2> QED
    BY <2>1, <2>2, <2>3, <2>4
    DEF Accounted, CheckpointAfterPassive, CompletedCoversAll, ResumeListTrue, Over
\* The write that would end the module is lost: its row stays as it is.
<1>15. CASE TimeoutWriteLost(t)
  <2>1. /\ Driving(t) /\ pc[t] = "module" /\ at[t] \in Modules /\ NextModule(t)
        /\ lost' = lost \union {at[t]}
        /\ UNCHANGED <<status, modulesCompleted, modStatus, completed, stranded>>
    BY <1>15 DEF TimeoutWriteLost, Driving, TypeOK, db
  <2>2. Walked(t) /\ Owned
    BY <2>1, DriverFacts
  <2>3. \A u \in Executors : u # t => pc'[u] = pc[u] /\ at'[u] = at[u]
    BY <2>1 DEF NextModule, Goto, TypeOK
  <2>4. Walked(t)'
    BY <2>1, <2>2, Passed DEF Walking
  <2>5. \A u \in Executors : Walked(u)'
    BY <2>1, <2>3, <2>4, OthersWalked
  <2>6. ResumeListTrue'
    BY <2>1 DEF Accounted, ResumeListTrue
  <2>7. Owned'
    <3>1. \A m \in Modules : modStatus'[m] = "running" =>
            m \in lost' \/ (modStatus[m] = "running" /\ m # at[t])
      BY <2>1
    <3> QED
      BY <2>1, <2>2, <2>3, <3>1, OwnedKept
  <2> QED
    BY <2>1, <2>5, <2>6, <2>7, DriverGoesOn
<1>16. CASE FailRunLost(t)
  <2>1. /\ Driving(t) /\ Goto(t, "closing")
        /\ UNCHANGED <<status, lost, req, modulesCompleted, modStatus>>
    BY <1>16 DEF FailRunLost, Driving, db, clients
  <2>2. stranded'
    BY <1>16, <2>1, DriverFacts DEF FailRunLost
  <2> QED
    BY <2>1, <2>2, LeavesRunning
<1> QED
  BY <1>1, <1>2, <1>3, <1>4, <1>5, <1>6, <1>7, <1>8, <1>9, <1>10, <1>11, <1>12, <1>13, <1>14,
     <1>15, <1>16
  DEF ExecutorStep

-----------------------------------------------------------------------------
(* The invariant *)

\* Steps of requests, of the operator and of a shutdown: rows, list and walk stay.
LEMMA RowsUntouched ==
  ASSUME Accounted, UNCHANGED <<modulesCompleted, modStatus, at, completed, lost>>,
         \/ UNCHANGED <<status, stranded>>
         \/ /\ status \notin {"running", "failed"} /\ status' = "running"
            /\ stranded' => stranded,
         \A u \in Executors : pc'[u] = pc[u] \/ (pc[u] = "idle" /\ pc'[u] = "load"),
         Abandoned => Abandoned'
  PROVE  Accounted'
<1>1. \A u \in Executors : Walked(u)'
  BY DEF Walked, Walking, Accounted, Over
<1>2. ResumeListTrue' /\ CheckpointAfterPassive' /\ CompletedCoversAll'
  BY DEF Accounted, ResumeListTrue, CheckpointAfterPassive, CompletedCoversAll, Over
<1>3. Owned => Owned'
  BY DEF Owned
<1>4. stranded' => Abandoned'
  BY DEF Accounted
<1>5. status' = "failed" \/ Abandoned' \/ Owned'
  BY <1>3 DEF Accounted
<1> QED
  BY <1>1, <1>2, <1>4, <1>5 DEF Accounted

LEMMA AccountedStep ==
  ASSUME TypeOK, OneOwner, Accounted, [Next]_vars
  PROVE  Accounted'
<1>1. ASSUME NEW r \in Requests, NEW yesActive \in BOOLEAN, StartScan(r, yesActive)
      PROVE  Accounted'
  <2>1. /\ UNCHANGED <<modulesCompleted, modStatus, at, completed, pc, lost, stranded>>
        /\ status = "absent" /\ status' = "running"
    BY <1>1 DEF StartScan, tasks, history
  <2> QED
    BY <2>1, RowsUntouched DEF Abandoned
<1>2. ASSUME NEW r \in Requests, ResumeRead(r) PROVE Accounted'
  <2>1. /\ UNCHANGED <<modulesCompleted, modStatus, at, completed, pc, status, lost, stranded>>
        /\ status # "running"
    BY <1>2 DEF ResumeRead, Resumable, db, tasks, history
  <2> QED
    BY <2>1, RowsUntouched DEF Abandoned
<1>3. ASSUME NEW r \in Requests, RequestStep(r) PROVE Accounted'
  <2>1. CASE ResumeCommit(r)
    <3>1. /\ UNCHANGED <<modulesCompleted, modStatus, at, completed, pc, lost>>
          /\ status' = "running" /\ status \in Resumable /\ ~stranded'
      BY <2>1 DEF ResumeCommit, OneOwner, tasks
    <3> QED
      BY <3>1, RowsUntouched DEF Resumable, Abandoned
  <2>2. CASE Launch(r)
    <3>1. /\ UNCHANGED <<modulesCompleted, modStatus, at, completed, status, lost, stranded>>
          /\ \A u \in Executors : pc'[u] = pc[u] \/ (pc[u] = "idle" /\ pc'[u] = "load")
      BY <2>2 DEF Launch, TypeOK, db, history
    <3>2. Alive
      BY <2>2 DEF Launch, Alive
    <3> QED
      BY <3>1, <3>2, RowsUntouched DEF Abandoned
  <2>3. CASE PreAuthorise(r)
    <3>1. /\ UNCHANGED <<modulesCompleted, modStatus, at, completed, pc, status, lost,
                         stranded, proc>>
          /\ \A q \in Requests : req'[q] = req[q] \/ req'[q] = "idle"
      BY <2>3 DEF PreAuthorise, tasks, history, TypeOK
    <3>2. Abandoned => Abandoned'
      BY <3>1 DEF Abandoned, Alive, Driving
    <3> QED
      BY <3>1, <3>2, RowsUntouched
  <2> QED
    BY <1>3, <2>1, <2>2, <2>3 DEF RequestStep
<1>4. CASE CancelScan \/ EngageKillSwitch \/ ResetKillSwitch \/ Shutdown
  <2>1. /\ UNCHANGED <<modulesCompleted, modStatus, at, completed, pc, status, lost,
                       stranded, req>>
        /\ proc' = proc \/ proc' # "up"
    BY <1>4 DEF CancelScan, EngageKillSwitch, ResetKillSwitch, Shutdown, db, tasks, clients,
       history
  <2>2. Abandoned => Abandoned'
    BY <2>1 DEF Abandoned, Alive, Driving
  <2> QED
    BY <2>1, <2>2, RowsUntouched
<1>5. ASSUME NEW t \in Executors, ExecutorStep(t) PROVE Accounted'
  BY <1>5, AccountedExecutor
<1>6. CASE Stop
  <2>1. /\ UNCHANGED <<modulesCompleted, modStatus, status, lost, stranded>> /\ proc' = "down"
        /\ \A u \in Executors : pc'[u] = "idle"
        /\ \A r \in Requests : req'[r] = "idle"
    BY <1>6 DEF Stop, db, history
  <2>2. \A u \in Executors : Walked(u)'
    BY <2>1, NobodyWalks DEF Walking
  <2>3. ResumeListTrue' /\ CheckpointAfterPassive' /\ CompletedCoversAll'
    BY <2>1 DEF Accounted, ResumeListTrue, CheckpointAfterPassive, CompletedCoversAll, Over
  <2>4. status = "running" => Abandoned'
    BY <2>1 DEF Abandoned, Alive, Driving
  <2>5. ASSUME status \notin {"running", "failed"} PROVE Owned'
    <3>1. Owned /\ \A u \in Executors : ~Driving(u)
      BY <2>5 DEF Accounted, Abandoned, OneOwner, SingleDriver
    <3> QED
      BY <2>1, <3>1 DEF Owned, Driving
  <2>6. stranded => status = "running"
    BY DEF Accounted, Abandoned
  <2> QED
    BY <2>1, <2>2, <2>3, <2>4, <2>5, <2>6 DEF Accounted
\* A restart turns RUNNING rows back to PENDING, and no other row.
<1>7. CASE ReapOrphans
  <2>1. /\ UNCHANGED <<modulesCompleted, at, completed, pc, lost>> /\ proc = "down"
        /\ ~stranded'
        /\ status' = IF status = "running" THEN "paused" ELSE status
        /\ \A m \in Modules :
             modStatus'[m] = IF modStatus[m] = "running" THEN "pending" ELSE modStatus[m]
    BY <1>7 DEF ReapOrphans, ReapedRow, tasks
  <2>2. \A u \in Executors : pc'[u] \notin Walking
    BY <2>1 DEF OneOwner, Driving, Walking
  <2>3. \A m \in Modules : modStatus[m] \in Finished => modStatus'[m] = modStatus[m]
    BY <2>1 DEF Finished
  <2>4. Owned'
    BY <2>1 DEF Owned
  <2>5. ResumeListTrue' /\ CheckpointAfterPassive' /\ CompletedCoversAll'
    BY <2>1, <2>3 DEF Accounted, ResumeListTrue, CheckpointAfterPassive,
       CompletedCoversAll, Over, Finished, TypeOK
  <2> QED
    BY <2>1, <2>2, <2>4, <2>5, NobodyWalks DEF Accounted
\* A restart that could not: a RUNNING run is stranded, any other has let go.
<1>8. CASE ReapFails
  <2>1. UNCHANGED <<status, modulesCompleted, modStatus, at, completed, pc, lost, req>>
    BY <1>8 DEF ReapFails, db, tasks, clients
  <2>2. proc = "down" /\ (stranded' <=> status = "running")
    BY <1>8 DEF ReapFails
  <2>3. ~Alive /\ \A u \in Executors : pc[u] \notin Walking
    BY <2>2 DEF OneOwner, Alive, Driving, Walking
  <2>4. \A u \in Executors : Walked(u)'
    BY <2>1, <2>3, NobodyWalks
  <2>5. ResumeListTrue' /\ CheckpointAfterPassive' /\ CompletedCoversAll'
    BY <2>1 DEF Accounted, ResumeListTrue, CheckpointAfterPassive, CompletedCoversAll, Over
  <2>6. status = "running" => Abandoned'
    BY <2>1, <2>2, <2>3 DEF Abandoned, Alive, Driving
  <2>7. status \notin {"running", "failed"} => Owned'
    BY <2>1 DEF Accounted, Abandoned, Owned
  <2> QED
    BY <2>1, <2>2, <2>4, <2>5, <2>6, <2>7 DEF Accounted
\* A shutdown that has waited long enough.
<1>9. ASSUME NEW t \in Executors, CutOff(t) PROVE Accounted'
  <2>1. /\ Driving(t) /\ Goto(t, "closing") /\ proc' # "up"
        /\ UNCHANGED <<status, lost, req, modulesCompleted, modStatus>>
    BY <1>9 DEF CutOff, Driving, db, clients, history
  <2> QED
    BY <2>1, LeavesRunning
<1>10. CASE UNCHANGED vars
  <2>1. UNCHANGED <<modulesCompleted, modStatus, at, completed, proc, pc, status, lost,
                    stranded, req>>
    BY <1>10 DEF vars, db, tasks, clients, history
  <2>2. Abandoned => Abandoned'
    BY <2>1 DEF Abandoned, Alive, Driving
  <2> QED
    BY <2>1, <2>2, RowsUntouched
<1> QED
  BY <1>1, <1>2, <1>3, <1>4, <1>5, <1>6, <1>7, <1>8, <1>9, <1>10 DEF Next

LEMMA AccountedInvariant ==
  ASSUME OneAtATime
  PROVE  Spec => []Accounted
<1>1. Init => Accounted
  <2> SUFFICES ASSUME Init PROVE Accounted
    OBVIOUS
  <2>1. \A m \in Modules : modStatus[m] = "pending"
    BY DEF Init
  <2> QED
    BY <2>1 DEF Init, Accounted, Walked, Walking, Owned, CheckpointAfterPassive,
       CompletedCoversAll, ResumeListTrue
<1>2. TypeOK /\ OneOwner /\ Accounted /\ [Next]_vars => Accounted'
  BY AccountedStep
<1> QED
  BY <1>1, <1>2, TypeCorrect, OneOwnerInvariant, PTL DEF Spec

-----------------------------------------------------------------------------
(* What the run promises *)

\* At the checkpoint the run is over with the passive phases, for every division
\* of the modules into phases (_execute_inner, _await_checkpoint); a row says
\* otherwise only where _force_module_failed could not write it.
THEOREM CheckpointAfterPassiveHolds ==
  ASSUME OneAtATime
  PROVE  Spec => []CheckpointAfterPassive
<1>1. Accounted => CheckpointAfterPassive
  BY DEF Accounted
<1> QED
  BY <1>1, AccountedInvariant, PTL

\* A COMPLETED run has left no module behind, after any number of pauses,
\* cancellations, failures, crashes and resumes (_execute_inner, _finish), with
\* the same exception.
THEOREM CompletedCoversAllHolds ==
  ASSUME OneAtATime
  PROVE  Spec => []CompletedCoversAll
<1>1. Accounted => CompletedCoversAll
  BY DEF Accounted
<1> QED
  BY <1>1, AccountedInvariant, PTL

\* The list a resume goes by agrees with the rows, although the two are written
\* in transactions of their own (_append_completed, reap_orphans).
THEOREM ResumeListTrueHolds ==
  ASSUME OneAtATime
  PROVE  Spec => []ResumeListTrue
<1>1. Accounted => ResumeListTrue
  BY DEF Accounted
<1> QED
  BY <1>1, AccountedInvariant, PTL

\* While the server is up no module row is left RUNNING behind its executor's
\* back, but by the writes that may fail unnoticed (_run_one_module,
\* _force_module_failed, reap_orphans).
THEOREM RunningRowOwnedHolds ==
  ASSUME OneAtATime
  PROVE  Spec => []RunningRowOwned
<1>1. Accounted => RunningRowOwned
  BY DEF Accounted, Abandoned, Owned, RunningRowOwned
<1> QED
  BY <1>1, AccountedInvariant, PTL

\* A row whose completion is recorded is COMPLETED for good: no resume, timeout,
\* failure or restart takes it back.
THEOREM RecordedNotRerunHolds ==
  ASSUME OneAtATime
  PROVE  Spec => RecordedNotRerun
<1> DEFINE Kept == \A m \in modulesCompleted :
                     modStatus[m] = "completed" => modStatus'[m] = "completed"
<1>1. TypeOK /\ OneOwner /\ Accounted /\ [Next]_vars => [Kept]_vars
  <2> SUFFICES ASSUME TypeOK, OneOwner, Accounted, [Next]_vars PROVE Kept
    OBVIOUS
  <2>1. ASSUME NEW t \in Executors, ExecutorStep(t) PROVE Kept
    <3>1. CASE modStatus' = modStatus
      BY <3>1
    <3>2. CASE SkipCompleted(t)
      BY <3>2 DEF SkipCompleted, SkipIfPending, SetModule, TypeOK
    <3>3. ASSUME NEW s, SetModule(at[t], s), Driving(t), at[t] \in Modules,
                 at[t] \notin modulesCompleted
          PROVE  Kept
      BY <3>3, OwnRow DEF TypeOK
    <3>4. ASSUME pc[t] \in {"module", "append"}
          PROVE  Driving(t) /\ at[t] \in Modules /\ at[t] \notin modulesCompleted
      BY <3>4 DEF Driving, TypeOK, Accounted, Walked, Walking
    <3>5. CASE StartModule(t)
      <4>1. Driving(t) /\ at[t] \in Modules /\ SetModule(at[t], "running")
            /\ pc[t] = "loop" /\ at[t] \notin completed[t] /\ at[t] \in Nat
        BY <3>5 DEF StartModule, AtHead, Driving, TypeOK
      <4>2. at[t] \notin modulesCompleted
        BY <4>1 DEF Accounted, Walked, Walking
      <4> QED
        BY <3>3, <4>1, <4>2
    <3>6. CASE \/ (\E outcome \in Outcomes : ModuleReturns(t, outcome))
               \/ ModuleFails(t) \/ ModuleTimesOut(t) \/ ModuleCancelled(t)
      <4>1. pc[t] \in {"module", "append"}
            /\ (modStatus' = modStatus \/ \E s \in ModuleStatus : SetModule(at[t], s))
        BY <3>6 DEF ModuleReturns, ModuleFails, ModuleTimesOut, ModuleCancelled, ModuleStatus
      <4> QED
        BY <3>1, <3>3, <3>4, <4>1
    <3>7. \/ SkipCompleted(t) \/ StartModule(t) \/ modStatus' = modStatus
          \/ (\E outcome \in Outcomes : ModuleReturns(t, outcome))
          \/ ModuleFails(t) \/ ModuleTimesOut(t) \/ ModuleCancelled(t)
      BY <2>1 DEF ExecutorStep, Load, PauseAtHead, HoldActive, AwaitCheckpoint,
         AppendCompleted, TimeoutWriteLost, PauseAfterModule, Raises, FailRun, FailRunLost,
         Finish, Close, db
    <3> QED
      BY <3>1, <3>2, <3>5, <3>6, <3>7
  <2>2. CASE ReapOrphans
    BY <2>2 DEF ReapOrphans, ReapedRow, TypeOK
  <2>3. modStatus' = modStatus \/ ReapOrphans \/ \E t \in Executors : ExecutorStep(t)
    BY DEF Next, vars, db, StartScan, ResumeRead, RequestStep, ResumeCommit, Launch,
       PreAuthorise, CancelScan, EngageKillSwitch, ResetKillSwitch, Shutdown, Stop, CutOff,
       ReapFails
  <2> QED
    BY <2>1, <2>2, <2>3
<1> QED
  BY <1>1, TypeCorrect, OneOwnerInvariant, AccountedInvariant, PTL DEF Spec, RecordedNotRerun

\* Unless the run was pre-authorised when it was started, its checkpoint is
\* signed off only when the run is over with the passive phases (resume_scan).
THEOREM SignOffInformedHolds ==
  ASSUME OneAtATime
  PROVE  Spec => SignOffInformed
<1> DEFINE Informed ==
             \/ activeConfirmed' = activeConfirmed
             \/ \E r \in Requests : req[r] = "preauthorise"
             \/ \A m \in Modules \ ActiveModules : Over(m)
<1>1. TypeOK /\ OneOwner /\ Accounted /\ [Next]_vars => [Informed]_vars
  <2> SUFFICES ASSUME TypeOK, OneOwner, Accounted, [Next]_vars PROVE Informed
    OBVIOUS
  <2>1. ASSUME NEW r \in Requests, ResumeCommit(r) PROVE Informed
    <3>1. CASE seen[r] = "awaiting_checkpoint"
      BY <2>1, <3>1 DEF ResumeCommit, OneOwner, Accounted, CheckpointAfterPassive
    <3>2. CASE seen[r] # "awaiting_checkpoint"
      BY <2>1, <3>2 DEF ResumeCommit, SignsOff, TypeOK
    <3> QED
      BY <3>1, <3>2
  <2>2. ASSUME NEW r \in Requests, PreAuthorise(r) PROVE Informed
    BY <2>2 DEF PreAuthorise
  <2>3. \/ activeConfirmed' = activeConfirmed
        \/ \E r \in Requests : ResumeCommit(r) \/ PreAuthorise(r)
    BY DEF Next, vars, db, StartScan, ResumeRead, RequestStep, Launch, CancelScan,
       EngageKillSwitch, ResetKillSwitch, Shutdown, Stop, ReapOrphans, ExecutorStep, Load,
       PauseAtHead, SkipCompleted, HoldActive, AwaitCheckpoint, StartModule, ModuleReturns,
       AppendCompleted, ModuleFails, ModuleTimesOut, TimeoutWriteLost, ModuleCancelled,
       PauseAfterModule, Raises, FailRun, FailRunLost, Finish, Close, CutOff, ReapFails
  <2> QED
    BY <2>1, <2>2, <2>3
<1> QED
  BY <1>1, TypeCorrect, OneOwnerInvariant, AccountedInvariant, PTL DEF Spec, SignOffInformed
=============================================================================
