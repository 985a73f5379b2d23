--------------------------- MODULE ModuleSession ---------------------------
(***************************************************************************)
(* What a module of a scan run sends and writes: the requests its          *)
(* coroutines make through the shared client (recon/net/http_client.py),   *)
(* the audit rows and the evidence they add to the module's one database   *)
(* session (recon/modules/base.py, recon/core/audit.py), and what the      *)
(* executor does with that session when the module returns, raises, is     *)
(* cancelled or runs out of time (ScanService._run_one_module).            *)
(*                                                                         *)
(* Modules run one after the other and share the client.  A module that    *)
(* raises out of asyncio.gather leaves its other coroutines running: they  *)
(* finish their request while the next module already owns the client, and *)
(* begin others.  A write to the database may fail (it was locked for too  *)
(* long), or be cancelled half-way by a time limit.                        *)
(***************************************************************************)
EXTENDS Integers, FiniteSets

CONSTANTS Workers,     \* coroutines of a module
          Targets,     \* addresses a module asks for or is redirected to
          InScope,     \* those classify() returns IN_SCOPE for
          Override,    \* allow_out_of_scope of the run
          Modules,     \* number of modules of the run
          Batch,       \* _COMMIT_EVERY
          MaxRedirects,
          MaxRequests, \* bound: requests of the run
          MaxFaults    \* bound: database writes that fail

ASSUME SessionAssumption ==
  /\ IsFiniteSet(Workers)
  /\ InScope \subseteq Targets
  /\ Override \in BOOLEAN
  /\ Modules \in Nat \ {0}
  /\ Batch \in Nat \ {0}
  /\ MaxRedirects \in Nat

VARIABLES
  module,    \* number of the module that is run, or was last
  phase,     \* "run", "between" two modules, or "over"
  status,    \* ScanModuleRun.status of each module
  marked,    \* the module has marked itself SKIPPED
  worker,    \* where each coroutine is, and for which module it works
  session,   \* state of the module's session
  since,     \* ModuleContext._since_commit of each module's context
  unsaved,   \* rows in the session that no commit has made durable
  counted,   \* evidence_count of each module
  kept,      \* durable evidence rows of each module
  auditLog,  \* durable audit rows
  fallback,  \* audit rows in the fallback log
  lost,      \* history: rows that a write took away which did not end well
  stray,     \* rows that wait in the session of a module that is over
  faults,    \* history: writes that failed
  torn,      \* history: writes that a time limit cancelled half-way
  asked,     \* history: requests begun
  reached,   \* history: addresses requested, and with which is_target
  sent,      \* history: requests sent or refused
  cut,       \* history: requests cut off in flight
  cancelled, \* the run is cancelled
  late       \* modules whose deadline has passed

ctxVars  == <<session, since, unsaved, counted, kept>>
logVars  == <<auditLog, fallback, lost, stray, faults, torn>>
runVars  == <<module, phase, status, marked, cancelled, late>>
netVars  == <<asked, reached, sent, cut>>
vars     == <<runVars, worker, ctxVars, logVars, netVars>>

Rows     == [audit : Nat, evidence : Nat]
NoRows   == [audit |-> 0, evidence |-> 0]
AuditRow == [audit |-> 1, evidence |-> 0]
Finding  == [audit |-> 0, evidence |-> 1]
Plus(r, s) == [audit |-> r.audit + s.audit, evidence |-> r.evidence + s.evidence]

ThirdParty == "third_party"   \* a public service
Hosts == Targets \union {ThirdParty}
Idle  == [at |-> "idle", to |-> ThirdParty, target |-> TRUE, hops |-> 0, of |-> 0]

TypeOK ==
  /\ module \in 1..Modules
  /\ phase \in {"run", "between", "over"}
  /\ status \in [1..Modules ->
                 {"pending", "running", "completed", "skipped", "failed"}]
  /\ marked \in BOOLEAN
  /\ worker \in [Workers -> [at : {"idle", "gate", "flight", "found"},
                             to : Hosts, target : BOOLEAN,
                             hops : 0..MaxRedirects, of : 0..Modules]]
  /\ session \in {"open", "inactive", "closed"}
  /\ since \in [1..Modules -> 0..Batch]
  /\ unsaved \in Rows
  /\ counted \in [1..Modules -> Nat] /\ kept \in [1..Modules -> Nat]
  /\ auditLog \in Nat /\ fallback \in Nat /\ faults \in Nat /\ torn \in Nat
  /\ lost \in Rows /\ stray \in [1..Modules -> Nat]
  /\ asked \in Nat /\ sent \in Nat /\ cut \in Nat
  /\ reached \subseteq [to : Hosts, target : BOOLEAN]
  /\ cancelled \in BOOLEAN /\ late \subseteq 1..Modules

Init ==
  /\ module = 1 /\ phase = "between"
  /\ status = [m \in 1..Modules |-> "pending"]
  /\ marked = FALSE /\ cancelled = FALSE /\ late = {}
  /\ worker = [w \in Workers |-> Idle]
  /\ session = "closed" /\ unsaved = NoRows
  /\ since = [m \in 1..Modules |-> 0] /\ stray = [m \in 1..Modules |-> 0]
  /\ counted = [m \in 1..Modules |-> 0] /\ kept = [m \in 1..Modules |-> 0]
  /\ auditLog = 0 /\ fallback = 0 /\ lost = NoRows
  /\ faults = 0 /\ torn = 0 /\ asked = 0 /\ reached = {} /\ sent = 0 /\ cut = 0

-----------------------------------------------------------------------------
(* The session *)

\* The session's rows become durable.
Save(rows) ==
  /\ auditLog' = auditLog + rows.audit
  /\ kept' = [kept EXCEPT ![module] = @ + rows.evidence]
  /\ unsaved' = NoRows
  /\ since' = [since EXCEPT ![module] = 0]

\* A write fails, in a flush or in a commit: the transaction is rolled back
\* with every row it holds, the module's row expires, and until somebody
\* calls rollback() nothing can be written or counted through this session.
Fail(rows) ==
  /\ faults < MaxFaults /\ faults' = faults + 1
  /\ lost' = Plus(lost, rows)
  /\ unsaved' = NoRows
  /\ UNCHANGED <<since, kept, auditLog, torn>>

\* So it is when the task is cancelled in the middle of a write.
Tear(rows) ==
  /\ session = "open" /\ torn' = torn + 1
  /\ lost' = Plus(lost, rows)
  /\ unsaved' = NoRows
  /\ UNCHANGED <<since, kept, auditLog, faults>>

BatchFull == since[module] + 1 >= Batch

\* add, then _tick: the batch is committed when it is full.
AddOk(row) ==
  IF BatchFull
    THEN Save(Plus(unsaved, row)) /\ UNCHANGED session
    ELSE /\ unsaved' = Plus(unsaved, row)
         /\ since' = [since EXCEPT ![module] = @ + 1]
         /\ UNCHANGED <<auditLog, kept, session>>

-----------------------------------------------------------------------------
(* The audit log: ReconHTTPClient._audit *)

\* Between two modules the client writes through a session of its own.
AuditAlone ==
  /\ \/ auditLog' = auditLog + 1 /\ UNCHANGED <<fallback, faults>>
     \/ /\ faults < MaxFaults /\ faults' = faults + 1
        /\ fallback' = fallback + 1 /\ UNCHANGED auditLog
  /\ UNCHANGED <<session, since, unsaved, counted, kept, lost, stray, torn>>

\* A failed write, or a session that an earlier one has spoilt, sends the
\* row to the fallback log.  The rows it took along are not written there;
\* the row itself is.
AuditInModule ==
  /\ UNCHANGED <<counted, stray, torn>>
  /\ \/ session = "open" /\ AddOk(AuditRow) /\ UNCHANGED <<fallback, lost, faults>>
     \/ /\ session = "open" /\ Fail(unsaved)
        /\ session' = "inactive" /\ fallback' = fallback + 1
     \/ /\ session = "inactive" /\ fallback' = fallback + 1
        /\ UNCHANGED <<session, since, unsaved, kept, auditLog, lost, faults>>

Audit_Not == UNCHANGED <<ctxVars, logVars>>

Audit == IF phase = "run" THEN AuditInModule ELSE AuditAlone

-----------------------------------------------------------------------------
(* The coroutines of a module *)

Live(w)  == worker[w].of = module /\ phase = "run"
Stray(w) == worker[w].of # 0 /\ ~Live(w)
Goes(w, at) == worker' = [worker EXCEPT ![w] = [@ EXCEPT !.at = at]]
Finds(w)    == worker' = [worker EXCEPT ![w] =
                            [Idle EXCEPT !.at = "found", !.of = worker[w].of]]
Rests(w)    == worker' = [worker EXCEPT ![w] = [Idle EXCEPT !.of = worker[w].of]]

\* ModuleContext.check_alive of module m's context does not raise.
CheckAlive(m) == ~cancelled /\ m \notin late

\* A coroutine takes its next target, after check_alive: for the module that
\* is run or, when gather left it behind, for the one it still works for.
\* is_target is FALSE for a public service.
NextTarget(w, u, m) ==
  /\ phase # "over"
  /\ (m = module /\ phase = "run") \/ (m = worker[w].of /\ Stray(w))
  /\ CheckAlive(m)
  /\ worker[w].at = "idle"
  /\ asked < MaxRequests /\ asked' = asked + 1
  /\ worker' = [worker EXCEPT ![w] =
       [at |-> "gate", to |-> u, target |-> u # ThirdParty, hops |-> 0, of |-> m]]
  /\ UNCHANGED <<runVars, ctxVars, logVars, reached, sent, cut>>

\* _single_request: the address is classified before anything is sent, if
\* is_target.  No caller passes an allow_out_of_scope of its own, so the
\* override is the run's.
Allowed(w) == ~worker[w].target \/ worker[w].to \in InScope \/ Override

Send(w) ==
  /\ worker[w].at = "gate" /\ Allowed(w)
  /\ Goes(w, "flight")
  /\ reached' = reached \union {[to |-> worker[w].to, target |-> worker[w].target]}
  /\ sent' = sent + 1
  /\ UNCHANGED <<runVars, ctxVars, logVars, asked, cut>>

\* ... and a refusal is audited, then raised as ScopeViolation, which the
\* modules take as an answer about that one target.
Blocked(w) ==
  /\ worker[w].at = "gate" /\ ~Allowed(w)
  /\ Audit
  /\ Rests(w)
  /\ sent' = sent + 1
  /\ UNCHANGED <<runVars, asked, reached, cut>>

RequestFails_Unaudited(w) ==
  /\ worker[w].at = "flight"
  /\ Audit_Not
  /\ Rests(w)
  /\ UNCHANGED <<runVars, netVars>>

\* httpx.HTTPError: audited, and raised as ReconRequestError.
RequestFails(w) ==
  /\ worker[w].at = "flight"
  /\ Audit
  /\ Rests(w)
  /\ UNCHANGED <<runVars, netVars>>

Answer(w) ==
  /\ worker[w].at = "flight"
  /\ Audit
  /\ Finds(w)
  /\ UNCHANGED <<runVars, netVars>>

Redirect_Sent(w, u) ==
  /\ worker[w].at = "flight" /\ worker[w].hops < MaxRedirects
  /\ Audit
  /\ worker' = [worker EXCEPT ![w].to = u, ![w].hops = @ + 1]
  /\ reached' = reached \union {[to |-> u, target |-> worker[w].target]}
  /\ sent' = sent + 1
  /\ UNCHANGED <<runVars, asked, cut>>

Redirect_Endless(w, u) ==
  /\ worker[w].at = "flight"
  /\ Audit
  /\ worker' = [worker EXCEPT ![w].at = "gate", ![w].to = u, ![w].hops = @ + 1]
  /\ UNCHANGED <<runVars, netVars>>

\* The hop goes through the gate with the is_target of the first request: one
\* from a public service is not classified either, wherever it leads.
Redirect(w, u) ==
  /\ worker[w].at = "flight" /\ worker[w].hops < MaxRedirects
  /\ Audit
  /\ worker' = [worker EXCEPT ![w].at = "gate", ![w].to = u, ![w].hops = @ + 1]
  /\ UNCHANGED <<runVars, netVars>>

\* A time limit of the module's own around a public source (asyncio.wait_for):
\* the request is cancelled where it is, without an audit row, and the module
\* notes the error.  When it was writing that row, the session is spoilt.
FetchTimeout(w) ==
  /\ worker[w].at = "flight" /\ ~worker[w].target
  /\ Finds(w)
  /\ cut' = cut + 1
  /\ \/ UNCHANGED <<ctxVars, logVars>>
     \/ Tear(unsaved) /\ session' = "inactive" /\ UNCHANGED <<counted, fallback, stray>>
  /\ UNCHANGED <<runVars, asked, reached, sent>>

\* add_evidence or add_error about the answer.  The count is a column of the
\* module's row and becomes durable with the rows.
AddEvidence(w) ==
  /\ worker[w].at = "found" /\ Live(w) /\ session = "open"
  /\ AddOk(Finding)
  /\ counted' = [counted EXCEPT ![module] = @ + 1]
  /\ Rests(w)
  /\ UNCHANGED <<runVars, netVars, fallback, lost, stray, faults, torn>>

\* A coroutine that outlived its module adds to the session that was closed
\* behind it.  _tick still counts, and commits when that context's batch is
\* full: what is short of a batch is never written.
StrayEvidence(w) ==
  LET m == worker[w].of
  IN  /\ worker[w].at = "found" /\ Stray(w)
      /\ \/ /\ since[m] + 1 < Batch
            /\ since' = [since EXCEPT ![m] = @ + 1]
            /\ stray' = [stray EXCEPT ![m] = @ + 1]
            /\ UNCHANGED kept
         \/ /\ since[m] + 1 >= Batch
            /\ since' = [since EXCEPT ![m] = 0]
            /\ kept' = [kept EXCEPT ![m] = @ + stray[m] + 1]
            /\ stray' = [stray EXCEPT ![m] = 0]
      /\ Rests(w)
      /\ UNCHANGED <<runVars, netVars, session, unsaved, counted,
                     auditLog, fallback, lost, faults, torn>>

\* ... or raises, with the rows that wait there or without, in a task whose
\* exception nobody reads.
StrayFails(w) ==
  /\ worker[w].at = "found" /\ Stray(w)
  /\ stray' \in {stray, [stray EXCEPT ![worker[w].of] = 0]}
  /\ worker' = [worker EXCEPT ![w] = Idle]
  /\ UNCHANGED <<runVars, netVars, ctxVars, auditLog, fallback, lost, faults, torn>>

\* mark_no_input, mark_skipped
MarkSkipped ==
  /\ phase = "run" /\ session = "open" /\ ~marked
  /\ AddOk(NoRows)
  /\ marked' = TRUE
  /\ UNCHANGED <<module, phase, status, cancelled, late, worker, netVars, counted,
                 fallback, lost, stray, faults, torn>>

-----------------------------------------------------------------------------
(* The executor: ScanService._run_one_module *)

StartModule ==
  /\ phase = "between" /\ ~cancelled
  /\ status[module] = "pending"
  /\ phase' = "run" /\ status' = [status EXCEPT ![module] = "running"]
  /\ session' = "open" /\ unsaved' = NoRows /\ since' = [since EXCEPT ![module] = 0]
  /\ marked' = FALSE
  /\ UNCHANGED <<module, cancelled, late, worker, counted, kept, logVars, netVars>>

\* The module is left: its session is closed and the client's audit_context
\* is reset.
Leave(s) ==
  /\ status' = [status EXCEPT ![module] = s]
  /\ session' = "closed"
  /\ phase' = IF module = Modules \/ s = "pending" THEN "over" ELSE "between"
  /\ module' = IF module = Modules \/ s = "pending" THEN module ELSE module + 1
  /\ UNCHANGED <<marked, cancelled, late, asked, reached, sent>>

Busy(w)  == Live(w) /\ worker[w].at # "idle"
Quiet    == \A w \in Workers : ~Busy(w)
AtCheck  == \E w \in Workers : ~Busy(w)
Gathered == [w \in Workers |-> IF Live(w) THEN Idle ELSE worker[w]]

\* The flush and the commit of the new status.
Commit == session = "open" /\ Save(unsaved) /\ UNCHANGED <<lost, faults, torn>>

Returns_Trusting ==
  /\ phase = "run" /\ Quiet
  /\ Commit \/ (Fail(unsaved) /\ session = "open")
  /\ Leave(IF marked THEN "skipped" ELSE "completed")
  /\ worker' = Gathered
  /\ UNCHANGED <<counted, cut, fallback, stray>>

\* mod.run returns, ctx.flush() commits, and a row still RUNNING is
\* COMPLETED.
Returns ==
  /\ phase = "run" /\ Quiet
  /\ Commit
  /\ Leave(IF marked THEN "skipped" ELSE "completed")
  /\ worker' = Gathered
  /\ UNCHANGED <<counted, cut, fallback, stray>>

ModuleFails_Unflushed(w) ==
  /\ Live(w) /\ worker[w].at = "found" /\ session = "open"
  /\ worker' = [worker EXCEPT ![w] = Idle]
  /\ lost' = Plus(lost, unsaved) /\ unsaved' = NoRows
  /\ Leave("failed")
  /\ UNCHANGED <<since, kept, auditLog, counted, cut, fallback, stray, faults, torn>>

\* A coroutine raises: gather leaves the other coroutines running, the
\* session is flushed and FAILED is committed on it.
ModuleFails(w) ==
  /\ Live(w) /\ worker[w].at = "found"
  /\ worker' = [worker EXCEPT ![w] = Idle]
  /\ Commit
  /\ Leave("failed")
  /\ UNCHANGED <<counted, cut, fallback, stray>>

\* The run ends inside the module: the exception leaves _execute_inner, the
\* session is rolled back and the module's row stays as it was.
RunEnds ==
  /\ phase' = "over" /\ session' = "closed"
  /\ UNCHANGED <<module, status, marked, cancelled, late, counted, fallback, stray, netVars>>

\* A row fills the batch, its commit fails, the module raises, and so does
\* the commit of FAILED in the handler.
WriteFails(w) ==
  /\ Live(w) /\ worker[w].at = "found" /\ session = "open" /\ BatchFull
  /\ Fail(Plus(unsaved, Finding))
  /\ worker' = [worker EXCEPT ![w] = Idle]
  /\ RunEnds

\* A way out of mod.run other than a time limit: it returns, a coroutine
\* raises, or check_alive raises ScanCancelled.
WayOut ==
  \/ Quiet
  \/ \E w \in Workers : Live(w) /\ worker[w].at = "found"
  \/ cancelled /\ AtCheck

\* On an inactive session every commit raises, in the handlers too.  So it is
\* when the flush of a handler fails; or the flush does not, and the commit
\* of the status does.
RunFails ==
  /\ phase = "run" /\ WayOut
  /\ \/ /\ session = "inactive"
        /\ UNCHANGED <<since, unsaved, kept, auditLog, lost, faults, torn>>
     \/ session = "open" /\ Fail(unsaved)
     \/ Commit
  /\ RunEnds
  /\ UNCHANGED worker

\* check_alive raises ScanCancelled: flush, PENDING, and the run is paused.
ModuleCancelled ==
  /\ phase = "run" /\ cancelled /\ AtCheck
  /\ Commit
  /\ Leave("pending")
  /\ UNCHANGED <<worker, counted, cut, fallback, stray>>

\* ModuleTimeout and TimeoutError: failures of flush and rollback are
\* suppressed and FAILED is written through a clean session; a failure of
\* that is suppressed too and leaves the row RUNNING.
TimesOut ==
  /\ phase = "run" /\ module \in late
  /\ \E s \in {"failed", "running"} : Leave(s)
  /\ UNCHANGED <<counted, fallback, stray>>

Flush ==
  \/ Commit
  \/ session = "open" /\ Fail(unsaved)
  \/ /\ session = "inactive"
     /\ UNCHANGED <<since, unsaved, kept, auditLog, lost, faults, torn>>

\* check_alive raises in one coroutine; those in flight are left behind.
ModuleTimeout == AtCheck /\ TimesOut /\ Flush /\ UNCHANGED <<worker, cut>>

\* asyncio.wait_for cancels the module's task wherever it is, in the middle
\* of a write perhaps, and with it the coroutines it gathered: what is in
\* flight gets no audit row.
HardTimeout ==
  /\ TimesOut
  /\ Flush \/ \E row \in {NoRows, Finding} : Tear(Plus(unsaved, row))
  /\ worker' = Gathered
  /\ cut' = cut + Cardinality({w \in Workers : Live(w) /\ worker[w].at = "flight"})

Cancel ==
  /\ ~cancelled /\ phase # "over" /\ cancelled' = TRUE
  /\ UNCHANGED <<module, phase, status, marked, late, worker, ctxVars, logVars, netVars>>

\* The deadline of a context passes that a coroutine still works for.
Deadline(m) ==
  /\ m \notin late /\ late' = late \union {m}
  /\ phase # "over"
  /\ (m = module /\ phase = "run") \/ \E w \in Workers : Stray(w) /\ worker[w].of = m
  /\ UNCHANGED <<module, phase, status, marked, cancelled, worker, ctxVars, logVars, netVars>>

Next ==
  \/ \E w \in Workers, u \in Hosts, m \in 1..Modules : NextTarget(w, u, m)
  \/ \E w \in Workers, u \in Hosts : Redirect(w, u)
  \/ \E w \in Workers : Send(w) \/ Blocked(w) \/ RequestFails(w) \/ Answer(w)
  \/ \E w \in Workers : FetchTimeout(w)
  \/ \E w \in Workers : AddEvidence(w) \/ StrayEvidence(w) \/ StrayFails(w)
  \/ \E w \in Workers : ModuleFails(w) \/ WriteFails(w)
  \/ MarkSkipped \/ StartModule
  \/ Returns \/ RunFails
  \/ ModuleCancelled \/ ModuleTimeout \/ HardTimeout
  \/ Cancel \/ \E m \in 1..Modules : Deadline(m)

Spec == Init /\ [][Next]_vars

-----------------------------------------------------------------------------
(* Properties *)

\* Whatever a module asks for as a target and wherever that redirects to,
\* nothing out of scope is contacted without the operator's override (the
\* classification at the head of _single_request, once per hop).  A request
\* begun with is_target = FALSE is not classified, nor are its hops.
ScopeGate ==
  Override \/ \A r \in reached : r.target => r.to \in InScope

\* A module reported COMPLETED or SKIPPED has lost nothing: its durable
\* evidence is as much as its evidence_count says, whatever writes failed.
CompletedKeepsAll ==
  \A m \in 1..Modules :
    status[m] \in {"completed", "skipped"} => kept[m] = counted[m]

\* A write that fails, or that a time limit cancels half-way, takes at most a
\* batch of rows away, and without one no row that a module added while it
\* ran is lost, however it ends: a return, an exception, a cancellation or a
\* timeout (the flush in each branch of _run_one_module).
LossBounded == lost.audit + lost.evidence <= Batch * (faults + torn)

\* Every request sent or refused has a row in the audit log, on its way to
\* it, or in the fallback log, or was lost with a failed batch; only a
\* request in flight has none, and one that a time limit cut off.
AuditComplete ==
  sent = auditLog + unsaved.audit + fallback + lost.audit + cut
         + Cardinality({w \in Workers : worker[w].at = "flight"})
=============================================================================
