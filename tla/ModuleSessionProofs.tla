------------------------ MODULE ModuleSessionProofs ------------------------
(***************************************************************************)
(* What holds of a module's requests and writes for any number of modules, *)
(* coroutines and targets, any batch size and any number of failed writes. *)
(***************************************************************************)
EXTENDS ModuleSession, FiniteSetTheorems, TLAPS

USE SessionAssumption

-----------------------------------------------------------------------------
(* Types *)

\* The rows and counts, apart from who writes them.
RowsTyped ==
  /\ session \in {"open", "inactive", "closed"}
  /\ since \in [1..Modules -> 0..Batch]
  /\ unsaved \in Rows
  /\ kept \in [1..Modules -> Nat]
  /\ auditLog \in Nat /\ fallback \in Nat /\ faults \in Nat /\ torn \in Nat
  /\ lost \in Rows /\ stray \in [1..Modules -> Nat]

\* Where a coroutine may be.
Coroutine == [at : {"idle", "gate", "flight", "found"},
              to : Hosts, target : BOOLEAN,
              hops : 0..MaxRedirects, of : 0..Modules]

\* The module that is run, and its coroutines.
RunTyped ==
  /\ module \in 1..Modules
  /\ phase \in {"run", "between", "over"}
  /\ status \in [1..Modules ->
                 {"pending", "running", "completed", "skipped", "failed"}]
  /\ marked \in BOOLEAN
  /\ worker \in [Workers -> Coroutine]
  /\ counted \in [1..Modules -> Nat]
  /\ cancelled \in BOOLEAN /\ late \subseteq 1..Modules

\* What went over the network.
NetTyped ==
  /\ asked \in Nat /\ sent \in Nat /\ cut \in Nat
  /\ reached \subseteq [to : Hosts, target : BOOLEAN]

LEMMA TypeParts == TypeOK <=> RowsTyped /\ RunTyped /\ NetTyped
BY DEF TypeOK, RowsTyped, RunTyped, NetTyped, Coroutine

LEMMA PlusType ==
  ASSUME NEW r \in Rows, NEW s \in Rows
  PROVE  /\ Plus(r, s) \in Rows
         /\ Plus(r, s).audit = r.audit + s.audit
         /\ Plus(r, s).evidence = r.evidence + s.evidence
BY DEF Plus, Rows

LEMMA RowConstants == NoRows \in Rows /\ AuditRow \in Rows /\ Finding \in Rows
BY DEF Rows, NoRows, AuditRow, Finding

LEMMA SaveType ==
  ASSUME RowsTyped, module \in 1..Modules, NEW rows \in Rows, Save(rows)
  PROVE  /\ auditLog' \in Nat /\ kept' \in [1..Modules -> Nat]
         /\ unsaved' \in Rows /\ since' \in [1..Modules -> 0..Batch]
<1>1. rows.audit \in Nat /\ rows.evidence \in Nat
  BY DEF Rows
<1>2. auditLog' \in Nat
  <2>1. auditLog \in Nat
    BY DEF RowsTyped
  <2> QED
    BY <1>1, <2>1 DEF Save
<1>3. kept' \in [1..Modules -> Nat]
  <2>0. kept \in [1..Modules -> Nat]
    BY DEF RowsTyped
  <2>1. kept \in [1..Modules -> Nat] /\ kept[module] + rows.evidence \in Nat
    BY <1>1, <2>0
  <2>2. kept' = [kept EXCEPT ![module] = kept[module] + rows.evidence]
    BY DEF Save
  <2> QED
    BY <2>1, <2>2
<1>4. unsaved' \in Rows
  BY RowConstants DEF Save
<1>5. since' \in [1..Modules -> 0..Batch]
  <2>1. 0 \in 0..Batch
    BY SessionAssumption
  <2> QED
    BY <2>1 DEF Save, RowsTyped
<1> QED
  BY <1>2, <1>3, <1>4, <1>5

LEMMA AddOkType ==
  ASSUME RowsTyped, module \in 1..Modules, NEW row \in Rows, AddOk(row),
         UNCHANGED <<fallback, faults, lost, stray, torn>>
  PROVE  RowsTyped'
<1>1. Plus(unsaved, row) \in Rows
  BY PlusType DEF RowsTyped
<1>2. CASE BatchFull
  <2>1. Save(Plus(unsaved, row)) /\ session' = session
    BY <1>2 DEF AddOk
  <2> QED
    BY <1>1, <2>1, SaveType DEF RowsTyped
<1>3. CASE ~BatchFull
  <2>1. /\ unsaved' = Plus(unsaved, row)
        /\ since' = [since EXCEPT ![module] = since[module] + 1]
        /\ UNCHANGED <<auditLog, kept, session>>
    BY <1>3 DEF AddOk
  <2>2. since[module] + 1 \in 0..Batch
    BY <1>3, SessionAssumption DEF RowsTyped, BatchFull
  <2> QED
    BY <1>1, <2>1, <2>2 DEF RowsTyped
<1> QED
  BY <1>2, <1>3

\* A write that is cut short, whatever it takes along.
LEMMA ShortType ==
  ASSUME RowsTyped, NEW rows \in Rows, Fail(rows) \/ Tear(rows)
  PROVE  /\ unsaved' = NoRows /\ lost' = Plus(lost, rows) /\ lost' \in Rows
         /\ faults' \in Nat /\ torn' \in Nat
         /\ \/ faults' = faults + 1 /\ torn' = torn
            \/ faults' = faults /\ torn' = torn + 1
         /\ UNCHANGED <<since, kept, auditLog>>
<1>1. Plus(lost, rows) \in Rows
  BY PlusType DEF RowsTyped
<1> QED
  BY <1>1 DEF Fail, Tear, RowsTyped

LEMMA ShortTyped ==
  ASSUME RowsTyped, NEW rows \in Rows, Fail(rows) \/ Tear(rows), fallback' \in Nat,
         stray' = stray, session' \in {"open", "inactive", "closed"}
  PROVE  RowsTyped'
BY ShortType, RowConstants DEF RowsTyped

LEMMA CommitType ==
  ASSUME RowsTyped, module \in 1..Modules, Commit, session' \in {"open", "inactive", "closed"},
         UNCHANGED <<fallback, stray>>
  PROVE  RowsTyped'
<1>1. Save(unsaved) /\ UNCHANGED <<lost, faults, torn>> /\ unsaved \in Rows
  BY DEF Commit, RowsTyped
<1> QED
  BY <1>1, SaveType DEF RowsTyped

LEMMA AuditType ==
  ASSUME RowsTyped, module \in 1..Modules, Audit
  PROVE  RowsTyped' /\ counted' = counted
<1>0. auditLog + 1 \in Nat /\ fallback + 1 \in Nat /\ faults + 1 \in Nat
  <2>1. auditLog \in Nat /\ fallback \in Nat /\ faults \in Nat
    BY DEF RowsTyped
  <2> QED
    BY <2>1
<1>1. CASE AuditAlone
  BY <1>0, <1>1 DEF AuditAlone, RowsTyped
<1>2. CASE AuditInModule
  <2>1. CASE session = "open" /\ AddOk(AuditRow) /\ UNCHANGED <<fallback, lost, faults>>
    BY <1>2, <2>1, AddOkType, RowConstants DEF AuditInModule
  <2>2. CASE Fail(unsaved) /\ session' = "inactive" /\ fallback' = fallback + 1
    <3>1. unsaved \in Rows /\ fallback' \in Nat /\ stray' = stray
      BY <1>0, <1>2, <2>2 DEF AuditInModule, RowsTyped
    <3> QED
      BY <1>2, <2>2, <3>1, ShortTyped DEF AuditInModule
  <2>3. CASE /\ fallback' = fallback + 1
             /\ UNCHANGED <<session, since, unsaved, kept, auditLog, lost, faults>>
    BY <1>0, <1>2, <2>3 DEF AuditInModule, RowsTyped
  <2> QED
    BY <1>2, <2>1, <2>2, <2>3 DEF AuditInModule
<1> QED
  BY <1>1, <1>2 DEF Audit

\* A coroutine's place after Goes, Finds or Rests.
LEMMA WorkerType ==
  ASSUME RunTyped, NEW w \in Workers,
         Rests(w) \/ Finds(w) \/ Goes(w, "flight") \/ worker' = [worker EXCEPT ![w] = Idle]
  PROVE  worker' \in [Workers -> Coroutine]
<1>1. worker[w] \in Coroutine /\ Idle \in Coroutine
  BY DEF RunTyped, Idle, Coroutine, Hosts
<1>2. /\ [Idle EXCEPT !.at = "found", !.of = worker[w].of] \in Coroutine
      /\ [Idle EXCEPT !.of = worker[w].of] \in Coroutine
  BY <1>1 DEF Coroutine
<1>3. [worker[w] EXCEPT !.at = "flight"] \in Coroutine
  BY <1>1 DEF Coroutine
<1>4. \E c \in Coroutine : worker' = [worker EXCEPT ![w] = c]
  BY <1>1, <1>2, <1>3 DEF Rests, Finds, Goes
<1> QED
  BY <1>4 DEF RunTyped

LEMMA GatheredType == RunTyped => Gathered \in [Workers -> Coroutine]
BY DEF RunTyped, Gathered, Idle, Coroutine, Hosts

\* The module's columns after it is left.
LEMMA LeaveType ==
  ASSUME RunTyped, NetTyped,
         NEW s \in {"pending", "running", "completed", "skipped", "failed"}, Leave(s)
  PROVE  /\ module' \in 1..Modules
         /\ phase' \in {"run", "between", "over"}
         /\ status' \in [1..Modules ->
                 {"pending", "running", "completed", "skipped", "failed"}]
         /\ session' = "closed"
         /\ UNCHANGED <<marked, cancelled, late, asked, reached, sent>>
BY DEF Leave, RunTyped, NetTyped

\* What every way out of a module has in common.
LEMMA LeftTyped ==
  ASSUME TypeOK,
         NEW s \in {"pending", "running", "completed", "skipped", "failed"}, Leave(s),
         RowsTyped', UNCHANGED counted, cut' \in Nat,
         worker' \in [Workers -> Coroutine]
  PROVE  TypeOK'
BY LeaveType, TypeParts DEF RunTyped, NetTyped, RowsTyped, TypeOK, Coroutine

LEMMA CutType ==
  ASSUME TypeOK, HardTimeout
  PROVE  cut' \in Nat
<1> DEFINE F == {w \in Workers : Live(w) /\ worker[w].at = "flight"}
<1>1. IsFiniteSet(F)
  BY FS_Subset
<1>2. Cardinality(F) \in Nat
  BY <1>1, FS_CardinalityType
<1> QED
  BY <1>2 DEF HardTimeout, TypeOK

\* Steps of one coroutine that is not the last of its module.
LEMMA CoroutineType ==
  ASSUME TypeOK, NEW w \in Workers,
         \/ \E u \in Hosts, m \in 1..Modules : NextTarget(w, u, m)
         \/ \E u \in Hosts : Redirect(w, u)
         \/ Send(w) \/ Blocked(w) \/ RequestFails(w) \/ Answer(w)
         \/ FetchTimeout(w) \/ AddEvidence(w) \/ StrayEvidence(w) \/ StrayFails(w)
  PROVE  TypeOK'
<1> USE TypeParts
<1>1. ASSUME NEW u \in Hosts, NEW m \in 1..Modules, NextTarget(w, u, m) PROVE TypeOK'
  <2>1. RowsTyped'
    BY <1>1 DEF NextTarget, ctxVars, logVars, RowsTyped
  <2>2. [at |-> "gate", to |-> u, target |-> u # ThirdParty, hops |-> 0, of |-> m] \in Coroutine
    BY DEF Coroutine
  <2>3. RunTyped' /\ NetTyped'
    BY <1>1, <2>2 DEF NextTarget, runVars, ctxVars, RunTyped, NetTyped
  <2> QED
    BY <2>1, <2>3 DEF TypeOK, RowsTyped, RunTyped, NetTyped, Coroutine
<1>2. ASSUME NEW u \in Hosts, Redirect(w, u) PROVE TypeOK'
  <2>1. RowsTyped' /\ counted' = counted
    BY <1>2, AuditType DEF Redirect, RunTyped
  <2>2. \E c \in Coroutine : worker' = [worker EXCEPT ![w] = c]
    <3>1. worker[w] \in Coroutine /\ worker[w].hops < MaxRedirects
      BY <1>2 DEF Redirect, RunTyped
    <3>2. [worker[w] EXCEPT !.at = "gate", !.to = u, !.hops = @ + 1] \in Coroutine
      <4>1. worker[w].hops + 1 \in 0..MaxRedirects
        BY <3>1, SessionAssumption DEF Coroutine
      <4> QED
        BY <3>1, <4>1 DEF Coroutine
    <3>3. worker' = [worker EXCEPT ![w] = [worker[w] EXCEPT !.at = "gate", !.to = u, !.hops = @ + 1]]
      BY <1>2 DEF Redirect, RunTyped, Coroutine
    <3> QED
      BY <3>2, <3>3
  <2>3. RunTyped' /\ NetTyped'
    BY <1>2, <2>1, <2>2 DEF Redirect, runVars, netVars, RunTyped, NetTyped
  <2> QED
    BY <2>1, <2>3 DEF TypeOK, RowsTyped, RunTyped, NetTyped, Coroutine
<1>3. CASE Send(w)
  <2>1. RowsTyped'
    BY <1>3 DEF Send, ctxVars, logVars, RowsTyped
  <2>2. RunTyped'
    BY <1>3, WorkerType DEF Send, runVars, ctxVars, RunTyped
  <2>3. NetTyped'
    BY <1>3 DEF Send, RunTyped, NetTyped, Coroutine
  <2> QED
    BY <2>1, <2>2, <2>3 DEF TypeOK, RowsTyped, RunTyped, NetTyped, Coroutine
<1>4. CASE Blocked(w) \/ RequestFails(w) \/ Answer(w)
  <2>1. RowsTyped' /\ counted' = counted
    BY <1>4, AuditType DEF Blocked, RequestFails, Answer, RunTyped
  <2>2. RunTyped'
    BY <1>4, <2>1, WorkerType DEF Blocked, RequestFails, Answer, runVars, RunTyped
  <2>3. NetTyped'
    BY <1>4 DEF Blocked, RequestFails, Answer, netVars, NetTyped
  <2> QED
    BY <2>1, <2>2, <2>3 DEF TypeOK, RowsTyped, RunTyped, NetTyped, Coroutine
<1>5. CASE FetchTimeout(w)
  <2>1. RowsTyped'
    <3>1. CASE UNCHANGED <<ctxVars, logVars>>
      BY <3>1 DEF ctxVars, logVars, RowsTyped
    <3>2. CASE Tear(unsaved) /\ session' = "inactive" /\ UNCHANGED <<counted, fallback, stray>>
      BY <3>2, ShortTyped DEF RowsTyped
    <3> QED
      BY <1>5, <3>1, <3>2 DEF FetchTimeout
  <2>2. worker' \in [Workers -> Coroutine]
    BY <1>5, WorkerType DEF FetchTimeout
  <2>3. counted' \in [1..Modules -> Nat]
    BY <1>5 DEF FetchTimeout, ctxVars, RunTyped
  <2>4. RunTyped' /\ NetTyped'
    BY <1>5, <2>2, <2>3 DEF FetchTimeout, runVars, netVars, RunTyped, NetTyped
  <2> QED
    BY <2>1, <2>4 DEF TypeOK, RowsTyped, RunTyped, NetTyped, Coroutine
<1>6. CASE AddEvidence(w)
  <2>1. RowsTyped'
    BY <1>6, AddOkType, RowConstants DEF AddEvidence, RunTyped
  <2>2. worker' \in [Workers -> Coroutine]
    BY <1>6, WorkerType DEF AddEvidence
  <2>3. counted' \in [1..Modules -> Nat]
    BY <1>6 DEF AddEvidence, ctxVars, RunTyped
  <2>4. RunTyped' /\ NetTyped'
    BY <1>6, <2>2, <2>3 DEF AddEvidence, runVars, netVars, RunTyped, NetTyped
  <2> QED
    BY <2>1, <2>4 DEF TypeOK, RowsTyped, RunTyped, NetTyped, Coroutine
<1>7. CASE StrayEvidence(w)
  <2> DEFINE m == worker[w].of
  <2>0. m \in 1..Modules
    BY <1>7 DEF StrayEvidence, Stray, RunTyped, Coroutine
  <2> HIDE DEF m
  <2>1. since' \in [1..Modules -> 0..Batch] /\ stray' \in [1..Modules -> Nat]
        /\ kept' \in [1..Modules -> Nat]
    <3>0. /\ since \in [1..Modules -> 0..Batch] /\ stray \in [1..Modules -> Nat]
          /\ kept \in [1..Modules -> Nat]
      BY DEF RowsTyped
    <3>1. CASE /\ since[m] + 1 < Batch
               /\ since' = [since EXCEPT ![m] = @ + 1]
               /\ stray' = [stray EXCEPT ![m] = @ + 1]
               /\ kept' = kept
      <4>0. since[m] \in 0..Batch /\ stray[m] \in Nat /\ Batch \in Nat
        BY <2>0, <3>0, SessionAssumption
      <4>1. since[m] + 1 \in 0..Batch /\ stray[m] + 1 \in Nat
        BY <3>1, <4>0
      <4> QED
        BY <3>0, <3>1, <4>1
    <3>2. CASE /\ since' = [since EXCEPT ![m] = 0] /\ stray' = [stray EXCEPT ![m] = 0]
               /\ kept' = [kept EXCEPT ![m] = @ + stray[m] + 1]
      <4>1. kept[m] + stray[m] + 1 \in Nat /\ 0 \in 0..Batch
        BY <2>0, <3>0, SessionAssumption
      <4> QED
        BY <3>0, <3>2, <4>1
    <3>3. \/ /\ since[m] + 1 < Batch
             /\ since' = [since EXCEPT ![m] = @ + 1]
             /\ stray' = [stray EXCEPT ![m] = @ + 1]
             /\ kept' = kept
          \/ /\ since' = [since EXCEPT ![m] = 0] /\ stray' = [stray EXCEPT ![m] = 0]
             /\ kept' = [kept EXCEPT ![m] = @ + stray[m] + 1]
      BY <1>7 DEF StrayEvidence, m
    <3> QED
      BY <3>1, <3>2, <3>3
  <2>2. RowsTyped'
    BY <1>7, <2>1 DEF StrayEvidence, RowsTyped
  <2>3. worker' \in [Workers -> Coroutine]
    BY <1>7, WorkerType DEF StrayEvidence
  <2>4. RunTyped' /\ NetTyped'
    BY <1>7, <2>3 DEF StrayEvidence, runVars, netVars, RunTyped, NetTyped
  <2> QED
    BY <2>2, <2>4 DEF TypeOK, RowsTyped, RunTyped, NetTyped, Coroutine
<1>8. CASE StrayFails(w)
  <2>1. stray' \in [1..Modules -> Nat]
    <3>1. stray \in [1..Modules -> Nat]
      BY DEF RowsTyped
    <3>2. [stray EXCEPT ![worker[w].of] = 0] \in [1..Modules -> Nat]
      BY <3>1
    <3> QED
      BY <1>8, <3>1, <3>2 DEF StrayFails
  <2>2. RowsTyped'
    BY <1>8, <2>1 DEF StrayFails, ctxVars, RowsTyped
  <2>3. worker' \in [Workers -> Coroutine]
    BY <1>8, WorkerType DEF StrayFails
  <2>4. RunTyped' /\ NetTyped'
    BY <1>8, <2>3 DEF StrayFails, runVars, netVars, ctxVars, RunTyped, NetTyped
  <2> QED
    BY <2>2, <2>4 DEF TypeOK, RowsTyped, RunTyped, NetTyped, Coroutine
<1> QED
  BY <1>1, <1>2, <1>3, <1>4, <1>5, <1>6, <1>7, <1>8

\* Every variable keeps its type (ModuleContext, the module's session and its
\* row, the audit log).
THEOREM TypeCorrect == Spec => []TypeOK
<1>1. Init => TypeOK
  <2>1. Idle \in Coroutine
    BY DEF Idle, Coroutine, Hosts
  <2>2. ASSUME Init PROVE RowsTyped /\ RunTyped /\ NetTyped
    <3>1. RowsTyped
      BY <2>2, RowConstants DEF Init, RowsTyped
    <3>2. marked \in BOOLEAN /\ cancelled \in BOOLEAN
      BY <2>2, Zenon DEF Init
    <3>3. module \in 1..Modules
      BY <2>2 DEF Init
    <3>4. RunTyped /\ NetTyped
      BY <2>1, <2>2, <3>2, <3>3 DEF Init, RunTyped, NetTyped
    <3> QED
      BY <3>1, <3>4
  <2> QED
    BY <2>2, TypeParts
<1>2. TypeOK /\ [Next]_vars => TypeOK'
  <2> SUFFICES ASSUME TypeOK, [Next]_vars PROVE TypeOK'
    OBVIOUS
  <2>0. RowsTyped /\ RunTyped /\ NetTyped
    BY TypeParts
  <2>a. ASSUME RunEnds, worker' \in [Workers -> Coroutine], RowsTyped' PROVE TypeOK'
    <3>1. RunTyped' /\ NetTyped'
      BY <2>0, <2>a DEF RunEnds, netVars, RunTyped, NetTyped
    <3> QED
      BY <2>a, <3>1 DEF TypeOK, RowsTyped, RunTyped, NetTyped, Coroutine
  <2>1. ASSUME NEW w \in Workers, ModuleFails(w) PROVE TypeOK'
    <3>1. RowsTyped'
      BY <2>0, <2>1, CommitType DEF ModuleFails, Leave, RunTyped
    <3> QED
      BY <2>0, <2>1, <3>1, WorkerType, LeftTyped DEF ModuleFails, NetTyped
  <2>2. ASSUME NEW w \in Workers, WriteFails(w) PROVE TypeOK'
    <3>1. Plus(unsaved, Finding) \in Rows
      BY <2>0, PlusType, RowConstants DEF RowsTyped
    <3>2. RowsTyped'
      BY <2>0, <2>2, <3>1, ShortTyped DEF WriteFails, RunEnds, RowsTyped
    <3> QED
      BY <2>a, <2>0, <2>2, <3>2, WorkerType DEF WriteFails
  <2>3. CASE MarkSkipped
    <3>1. RowsTyped'
      BY <2>0, <2>3, AddOkType, RowConstants DEF MarkSkipped, RunTyped
    <3> QED
      BY <2>0, <2>3, <3>1 DEF MarkSkipped, netVars, TypeOK, RowsTyped
  <2>4. CASE StartModule
    <3>1. since' \in [1..Modules -> 0..Batch]
      <4>1. 0 \in 0..Batch
        BY SessionAssumption
      <4> QED
        BY <2>0, <2>4, <4>1 DEF StartModule, RowsTyped
    <3>2. RowsTyped' /\ NetTyped'
      BY <2>0, <2>4, <3>1, RowConstants DEF StartModule, logVars, netVars, RowsTyped, NetTyped
    <3>3. RunTyped'
      BY <2>0, <2>4 DEF StartModule, RunTyped
    <3> QED
      BY <3>2, <3>3 DEF TypeOK, RowsTyped, RunTyped, NetTyped, Coroutine
  <2>5. CASE Returns
    <3>1. RowsTyped'
      BY <2>0, <2>5, CommitType DEF Returns, Leave, RunTyped
    <3>2. PICK s \in {"completed", "skipped"} : Leave(s)
      BY <2>5 DEF Returns
    <3>3. worker' \in [Workers -> Coroutine]
      BY <2>0, <2>5, GatheredType DEF Returns
    <3> QED
      BY <2>0, <2>5, <3>1, <3>2, <3>3, LeftTyped DEF Returns, NetTyped
  <2>6. CASE RunFails
    <3>1. RowsTyped'
      <4>1. CASE UNCHANGED <<since, unsaved, kept, auditLog, lost, faults, torn>>
        BY <2>0, <2>6, <4>1 DEF RunFails, RunEnds, RowsTyped
      <4>2. CASE Fail(unsaved)
        BY <2>0, <2>6, <4>2, ShortTyped DEF RunFails, RunEnds, RowsTyped
      <4>3. CASE Commit
        BY <2>0, <2>6, <4>3, CommitType DEF RunFails, RunEnds, RunTyped
      <4> QED
        BY <2>6, <4>1, <4>2, <4>3 DEF RunFails
    <3> QED
      BY <2>a, <2>0, <2>6, <3>1 DEF RunFails, RunTyped
  <2>7. CASE ModuleCancelled
    <3>1. RowsTyped'
      BY <2>0, <2>7, CommitType DEF ModuleCancelled, Leave, RunTyped
    <3> QED
      BY <2>0, <2>7, <3>1, LeftTyped DEF ModuleCancelled, NetTyped, RunTyped
  <2>8. ASSUME TimesOut, Flush \/ \E row \in {NoRows, Finding} : Tear(Plus(unsaved, row))
        PROVE  /\ RowsTyped' /\ counted' = counted
               /\ \E s \in {"failed", "running"} : Leave(s)
    <3>1. counted' = counted /\ UNCHANGED <<fallback, stray>> /\ session' = "closed"
          /\ \E s \in {"failed", "running"} : Leave(s)
      BY <2>8 DEF TimesOut, Leave
    <3>2. CASE Commit
      BY <2>0, <3>1, <3>2, CommitType DEF RunTyped
    <3>3. CASE Fail(unsaved)
      BY <2>0, <3>1, <3>3, ShortTyped DEF RowsTyped
    <3>4. CASE UNCHANGED <<since, unsaved, kept, auditLog, lost, faults, torn>>
      BY <2>0, <3>1, <3>4 DEF RowsTyped
    <3>5. ASSUME NEW row \in {NoRows, Finding}, Tear(Plus(unsaved, row)) PROVE RowsTyped'
      <4>1. Plus(unsaved, row) \in Rows
        BY <2>0, PlusType, RowConstants DEF RowsTyped
      <4> QED
        BY <2>0, <3>1, <3>5, <4>1, ShortTyped DEF RowsTyped
    <3> QED
      BY <2>8, <3>1, <3>2, <3>3, <3>4, <3>5 DEF Flush
  <2>9. CASE ModuleTimeout
    <3>1. worker' \in [Workers -> Coroutine] /\ cut' \in Nat
      BY <2>0, <2>9 DEF ModuleTimeout, RunTyped, NetTyped
    <3> QED
      BY <2>8, <2>9, <3>1, LeftTyped DEF ModuleTimeout
  <2>10. CASE HardTimeout
    <3>1. worker' \in [Workers -> Coroutine]
      BY <2>0, <2>10, GatheredType DEF HardTimeout
    <3> QED
      BY <2>8, <2>10, <3>1, CutType, LeftTyped DEF HardTimeout
  <2>11. ASSUME Cancel \/ \E m \in 1..Modules : Deadline(m) PROVE TypeOK'
    <3>1. RowsTyped' /\ NetTyped'
      BY <2>0, <2>11 DEF Cancel, Deadline, ctxVars, logVars, netVars, RowsTyped, NetTyped
    <3>2. RunTyped'
      BY <2>0, <2>11 DEF Cancel, Deadline, ctxVars, RunTyped
    <3> QED
      BY <3>1, <3>2 DEF TypeOK, RowsTyped, RunTyped, NetTyped, Coroutine
  <2>12. CASE UNCHANGED vars
    BY <2>12 DEF vars, runVars, ctxVars, logVars, netVars, TypeOK
  <2> QED
    BY <2>1, <2>2, <2>3, <2>4, <2>5, <2>6, <2>7, <2>9, <2>10, <2>11, <2>12,
       CoroutineType DEF Next
<1> QED
  BY <1>1, <1>2, PTL DEF Spec

\* Nothing out of scope is contacted without the override by a request to a
\* target, wherever it is redirected (_single_request, for each hop).
THEOREM ScopeGateHolds == Spec => []ScopeGate
<1>1. Init => ScopeGate
  BY DEF Init, ScopeGate
<1>2. TypeOK /\ ScopeGate /\ [Next]_vars => ScopeGate'
  <2> SUFFICES ASSUME TypeOK, ScopeGate, [Next]_vars PROVE ScopeGate'
    OBVIOUS
  <2>1. ASSUME NEW w \in Workers, Send(w) PROVE ScopeGate'
    BY <2>1 DEF Send, Allowed, ScopeGate
  <2>2. CASE reached' = reached
    BY <2>2 DEF ScopeGate
  <2>3. (\E w \in Workers : Send(w)) \/ reached' = reached
    BY DEF Next, vars, netVars, NextTarget, Redirect, Blocked, RequestFails, Answer,
       FetchTimeout, AddEvidence, StrayEvidence, StrayFails, ModuleFails, WriteFails,
       MarkSkipped, StartModule, Returns, RunFails, RunEnds, ModuleCancelled, ModuleTimeout,
       HardTimeout, TimesOut, Leave, Cancel, Deadline
  <2> QED
    BY <2>1, <2>2, <2>3
<1> QED
  BY <1>1, <1>2, TypeCorrect, PTL DEF Spec

-----------------------------------------------------------------------------
(* Coroutines that outlive their module *)

\* No coroutine works for a module that has not begun, none for one that has
\* returned: gather has waited for them.
StraysLeft ==
  \A w \in Workers :
    /\ worker[w].of <= module
    /\ worker[w].of = module => phase # "between"
    /\ Stray(w) => status[worker[w].of] \notin {"completed", "skipped"}

InTurn == StraysLeft /\ (phase = "run" => status[module] = "running")

\* A step after which each coroutine works for the module it worked for, or none.
LEMMA SameOwners ==
  ASSUME TypeOK, InTurn, UNCHANGED <<module, phase, status>>,
         \A w \in Workers : worker'[w].of \in {0, worker[w].of}
  PROVE  InTurn'
<1>1. ASSUME NEW w \in Workers
      PROVE  /\ worker'[w].of <= module'
             /\ worker'[w].of = module' => phase' # "between"
             /\ Stray(w)' => status'[worker'[w].of] \notin {"completed", "skipped"}
  <2>1. CASE worker'[w].of = 0
    BY <2>1 DEF TypeOK, Stray
  <2>2. CASE worker'[w].of = worker[w].of
    BY <2>2 DEF InTurn, StraysLeft, Stray, Live
  <2> QED
    BY <2>1, <2>2
<1> QED
  BY <1>1 DEF InTurn, StraysLeft

\* The module is left, with its coroutines gathered or reported otherwise.
LEMMA LeftInTurn ==
  ASSUME TypeOK, InTurn, phase = "run",
         NEW s \in {"pending", "running", "completed", "skipped", "failed"}, Leave(s),
         \A w \in Workers : worker'[w].of \in {0, worker[w].of},
         s \in {"completed", "skipped"} =>
           \A w \in Workers : worker'[w].of # module
  PROVE  InTurn'
<1>1. /\ status' = [status EXCEPT ![module] = s]
      /\ \/ phase' = "over" /\ module' = module
         \/ phase' = "between" /\ module' = module + 1
  BY DEF Leave
<1>2. ASSUME NEW w \in Workers
      PROVE  /\ worker'[w].of <= module'
             /\ worker'[w].of = module' => phase' # "between"
             /\ Stray(w)' => status'[worker'[w].of] \notin {"completed", "skipped"}
  <2>1. worker[w].of \in 0..Modules /\ worker[w].of <= module /\ module \in 1..Modules
    BY DEF TypeOK, InTurn, StraysLeft
  <2>2. worker'[w].of <= module' /\ (worker'[w].of = module' => phase' # "between")
    BY <1>1, <2>1
  <2>3. ASSUME worker'[w].of # 0, worker'[w].of # module
        PROVE  status'[worker'[w].of] \notin {"completed", "skipped"}
    <3>1. worker'[w].of = worker[w].of /\ Stray(w)
      BY <2>3 DEF Stray, Live
    <3> QED
      BY <1>1, <2>1, <2>3, <3>1 DEF InTurn, StraysLeft, TypeOK
  <2>4. ASSUME worker'[w].of = module PROVE status'[worker'[w].of] \notin {"completed", "skipped"}
    BY <1>1, <2>1, <2>4 DEF TypeOK
  <2> QED
    BY <2>2, <2>3, <2>4 DEF Stray
<1> QED
  BY <1>1, <1>2 DEF InTurn, StraysLeft

LEMMA InTurnInvariant == Spec => []InTurn
<1>1. Init => InTurn
  BY DEF Init, InTurn, StraysLeft, Stray, Idle
<1>2. TypeOK /\ InTurn /\ [Next]_vars => InTurn'
  <2> SUFFICES ASSUME TypeOK, InTurn, [Next]_vars PROVE InTurn'
    OBVIOUS
  <2>0. worker \in [Workers -> Coroutine]
    BY TypeParts DEF RunTyped
  <2>1. ASSUME NEW w \in Workers,
               \/ \E u \in Hosts : Redirect(w, u)
               \/ Send(w) \/ Blocked(w) \/ RequestFails(w) \/ Answer(w) \/ FetchTimeout(w)
               \/ AddEvidence(w) \/ StrayEvidence(w) \/ StrayFails(w)
        PROVE  InTurn'
    <3>1. UNCHANGED <<module, phase, status>>
      BY <2>1 DEF Redirect, Send, Blocked, RequestFails, Answer, FetchTimeout, AddEvidence,
         StrayEvidence, StrayFails, runVars
    <3>2. \A v \in Workers : worker'[v].of \in {0, worker[v].of}
      <4>0. worker[w] \in Coroutine
        BY <2>0
      <4>1. ASSUME NEW u \in Hosts, Redirect(w, u)
            PROVE  \A v \in Workers : worker'[v].of \in {0, worker[v].of}
        <5> DEFINE c == [worker[w] EXCEPT !.at = "gate", !.to = u, !.hops = @ + 1]
        <5>1. worker' = [worker EXCEPT ![w] = c]
          BY <2>0, <4>1 DEF Redirect, Coroutine
        <5>2. c.of = worker[w].of
          BY <4>0 DEF Coroutine
        <5> HIDE DEF c
        <5> QED
          BY <2>0, <5>1, <5>2
      <4>2. CASE Send(w)
        <5> DEFINE c == [worker[w] EXCEPT !.at = "flight"]
        <5>1. worker' = [worker EXCEPT ![w] = c]
          BY <4>2 DEF Send, Goes
        <5>2. c.of = worker[w].of
          BY <4>0 DEF Coroutine
        <5> HIDE DEF c
        <5> QED
          BY <2>0, <5>1, <5>2
      <4>3. CASE Answer(w) \/ FetchTimeout(w)
        <5> DEFINE c == [Idle EXCEPT !.at = "found", !.of = worker[w].of]
        <5>1. worker' = [worker EXCEPT ![w] = c]
          BY <4>3 DEF Answer, FetchTimeout, Finds
        <5>2. c.of = worker[w].of
          BY DEF Idle
        <5> HIDE DEF c
        <5> QED
          BY <2>0, <5>1, <5>2
      <4>4. CASE Blocked(w) \/ RequestFails(w) \/ AddEvidence(w) \/ StrayEvidence(w)
        <5> DEFINE c == [Idle EXCEPT !.of = worker[w].of]
        <5>1. worker' = [worker EXCEPT ![w] = c]
          BY <4>4 DEF Blocked, RequestFails, AddEvidence, StrayEvidence, Rests
        <5>2. c.of = worker[w].of
          BY DEF Idle
        <5> HIDE DEF c
        <5> QED
          BY <2>0, <5>1, <5>2
      <4>5. CASE StrayFails(w)
        BY <2>0, <4>5 DEF StrayFails, Idle
      <4> QED
        BY <2>1, <4>1, <4>2, <4>3, <4>4, <4>5
    <3> QED
      BY <3>1, <3>2, SameOwners
  <2>2. ASSUME NEW w \in Workers, NEW u \in Hosts, NEW m \in 1..Modules, NextTarget(w, u, m)
        PROVE  InTurn'
    <3>1. /\ UNCHANGED <<module, phase, status>>
          /\ worker' = [worker EXCEPT ![w] =
               [at |-> "gate", to |-> u, target |-> u # ThirdParty, hops |-> 0, of |-> m]]
          /\ (m = module /\ phase = "run") \/ (m = worker[w].of /\ Stray(w))
      BY <2>2 DEF NextTarget, runVars
    <3>2. worker'[w].of = m /\ \A v \in Workers \ {w} : worker'[v] = worker[v]
      BY <2>0, <3>1
    <3>3. ASSUME NEW v \in Workers
          PROVE  /\ worker'[v].of <= module'
                 /\ worker'[v].of = module' => phase' # "between"
                 /\ Stray(v)' => status'[worker'[v].of] \notin {"completed", "skipped"}
      <4>1. CASE v = w /\ m = module /\ phase = "run"
        BY <3>1, <3>2, <4>1 DEF Stray, Live, TypeOK
      <4>2. CASE v = w /\ m = worker[w].of /\ Stray(w)
        BY <3>1, <3>2, <4>2 DEF Stray, Live, InTurn, StraysLeft
      <4>3. CASE v # w
        BY <3>1, <3>2, <4>3 DEF Stray, Live, InTurn, StraysLeft
      <4> QED
        BY <3>1, <4>1, <4>2, <4>3
    <3> QED
      BY <3>1, <3>3 DEF InTurn, StraysLeft
  <2>3. ASSUME NEW w \in Workers, ModuleFails(w) PROVE InTurn'
    <3>1. phase = "run" /\ Leave("failed") /\ worker' = [worker EXCEPT ![w] = Idle]
      BY <2>3 DEF ModuleFails, Live
    <3>2. \A v \in Workers : worker'[v].of \in {0, worker[v].of}
      BY <2>0, <3>1 DEF Idle
    <3> QED
      BY <3>1, <3>2, LeftInTurn
  <2>4. ASSUME RunEnds, phase = "run", \A v \in Workers : worker'[v].of \in {0, worker[v].of}
        PROVE  InTurn'
    <3>1. phase' = "over" /\ module' = module /\ status' = status
      BY <2>4 DEF RunEnds
    <3>2. ASSUME NEW v \in Workers
          PROVE  /\ worker'[v].of <= module'
                 /\ worker'[v].of = module' => phase' # "between"
                 /\ Stray(v)' => status'[worker'[v].of] \notin {"completed", "skipped"}
      <4>1. worker'[v].of \in {0, worker[v].of} /\ worker[v].of <= module /\ module \in 1..Modules
        BY <2>4 DEF InTurn, StraysLeft, TypeOK
      <4>2. ASSUME worker'[v].of # 0, worker'[v].of # module
            PROVE  status[worker[v].of] \notin {"completed", "skipped"}
        BY <4>1, <4>2 DEF InTurn, StraysLeft, Stray, Live
      <4> QED
        BY <2>4, <3>1, <4>1, <4>2 DEF Stray, InTurn
    <3> QED
      BY <3>1, <3>2 DEF InTurn, StraysLeft
  <2>5. ASSUME NEW w \in Workers, WriteFails(w) PROVE InTurn'
    <3>1. \A v \in Workers : worker'[v].of \in {0, worker[v].of}
      BY <2>0, <2>5 DEF WriteFails, Idle
    <3> QED
      BY <2>4, <2>5, <3>1 DEF WriteFails, Live
  <2>6. CASE RunFails
    BY <2>4, <2>6 DEF RunFails
  <2>7. CASE MarkSkipped \/ Cancel \/ \E m \in 1..Modules : Deadline(m)
    BY <2>7, SameOwners DEF MarkSkipped, Cancel, Deadline
  <2>8. CASE StartModule
    <3>1. /\ phase = "between" /\ phase' = "run" /\ status' = [status EXCEPT ![module] = "running"]
          /\ UNCHANGED <<module, worker>>
      BY <2>8 DEF StartModule
    <3>2. \A w \in Workers : worker[w].of # module
      BY <3>1 DEF InTurn, StraysLeft
    <3>3. \A w \in Workers : Stray(w)' => Stray(w) /\ worker[w].of \in 1..Modules
      BY <2>0, <3>1, <3>2 DEF Stray, Live, Coroutine
    <3>4. StraysLeft'
      BY <3>1, <3>2, <3>3 DEF InTurn, StraysLeft, TypeOK
    <3> QED
      BY <3>1, <3>4 DEF InTurn, TypeOK
  <2>9. \A w \in Workers : Gathered[w].of \in {0, worker[w].of} /\ (phase = "run" => Gathered[w].of # module)
    BY DEF Gathered, Live, Idle, TypeOK
  <2>10. CASE Returns
    <3>1. /\ phase = "run" /\ worker' = Gathered
          /\ \E s \in {"completed", "skipped"} : Leave(s)
      BY <2>10 DEF Returns
    <3> QED
      BY <2>9, <3>1, LeftInTurn
  <2>11. CASE ModuleCancelled
    BY <2>11, LeftInTurn DEF ModuleCancelled
  <2>12. CASE ModuleTimeout \/ HardTimeout
    <3>1. phase = "run" /\ \E s \in {"failed", "running"} : Leave(s)
      BY <2>12 DEF ModuleTimeout, HardTimeout, TimesOut
    <3>2. worker' = worker \/ worker' = Gathered
      BY <2>12 DEF ModuleTimeout, HardTimeout
    <3>3. \A w \in Workers : worker'[w].of \in {0, worker[w].of}
      BY <2>9, <3>2
    <3> QED
      BY <3>1, <3>3, LeftInTurn
  <2>13. CASE UNCHANGED vars
    BY <2>13, SameOwners DEF vars, runVars
  <2> QED
    BY <2>1, <2>2, <2>3, <2>5, <2>6, <2>7, <2>8, <2>10, <2>11, <2>12, <2>13 DEF Next
<1> QED
  BY <1>1, <1>2, TypeCorrect, PTL DEF Spec

-----------------------------------------------------------------------------
(* Rows: what a module counts, writes and loses *)

\* A session that a failed write has spoilt holds nothing, and only a module
\* that is run has a session.
Settled ==
  /\ session # "open" => unsaved = NoRows
  /\ phase = "run" <=> session # "closed"

\* An open session has lost nothing of its module, and a module that has not
\* begun has nothing to lose.
Tallied ==
  /\ session = "open" => kept[module] + unsaved.evidence = counted[module]
  /\ \A m \in 1..Modules :
       m > module \/ (m = module /\ phase = "between") => kept[m] = counted[m]
  /\ phase = "run" => status[module] = "running"

\* An open session holds less than a batch.
InBatch ==
  session = "open" =>
    /\ unsaved.audit + unsaved.evidence <= since[module]
    /\ since[module] < Batch

RowsInv == Settled /\ Tallied /\ InBatch

LEMMA RowsInit == Init => RowsInv /\ CompletedKeepsAll /\ LossBounded /\ AuditComplete
<1> SUFFICES ASSUME Init PROVE RowsInv /\ CompletedKeepsAll /\ LossBounded /\ AuditComplete
  OBVIOUS
<1>1. RowsInv
  BY DEF Init, RowsInv, Settled, Tallied, InBatch, NoRows
<1>2. CompletedKeepsAll /\ LossBounded
  BY DEF Init, CompletedKeepsAll, LossBounded, NoRows
<1>3. {w \in Workers : worker[w].at = "flight"} = {}
  BY DEF Init, Idle
<1>4. Cardinality({w \in Workers : worker[w].at = "flight"}) = 0
  BY <1>3, FS_EmptySet
<1>5. AuditComplete
  BY <1>4 DEF Init, AuditComplete, NoRows
<1> QED
  BY <1>1, <1>2, <1>5

\* Audit rows that are somewhere, and requests that are to have one.
Accounted == auditLog + unsaved.audit + fallback + lost.audit
InFlight  == {w \in Workers : worker[w].at = "flight"}

LEMMA NumbersOf ==
  ASSUME RowsTyped
  PROVE  /\ unsaved.audit \in Nat /\ unsaved.evidence \in Nat
         /\ lost.audit \in Nat /\ lost.evidence \in Nat
         /\ NoRows.audit = 0 /\ NoRows.evidence = 0
         /\ Accounted \in Nat
<1>1. /\ unsaved.audit \in Nat /\ unsaved.evidence \in Nat
      /\ lost.audit \in Nat /\ lost.evidence \in Nat
  BY DEF RowsTyped, Rows
<1>2. NoRows.audit = 0 /\ NoRows.evidence = 0
  BY DEF NoRows
<1>3. auditLog \in Nat /\ fallback \in Nat
  BY DEF RowsTyped
<1>4. Accounted \in Nat
  BY <1>1, <1>3 DEF Accounted
<1> QED
  BY <1>1, <1>2, <1>4

LEMMA AuditCompleteIs == AuditComplete <=> sent = Accounted + cut + Cardinality(InFlight)
<1>1. AuditComplete <=> sent = auditLog + unsaved.audit + fallback + lost.audit + cut
                               + Cardinality(InFlight)
  BY DEF AuditComplete, InFlight
<1> QED
  BY <1>1 DEF Accounted

\* The rows of a session make no more than a batch.
LEMMA AtMostBatch ==
  ASSUME RowsTyped, RunTyped, RowsInv
  PROVE  /\ unsaved.audit + unsaved.evidence <= Batch
         /\ session = "open" => unsaved.audit + unsaved.evidence < Batch
<1>1. /\ unsaved.audit \in Nat /\ unsaved.evidence \in Nat
      /\ NoRows.audit = 0 /\ NoRows.evidence = 0
  BY NumbersOf
<1>2. since[module] \in Nat /\ Batch \in Nat
  BY SessionAssumption DEF RowsTyped, RunTyped
<1>3. CASE session = "open"
  <2>1. unsaved.audit + unsaved.evidence <= since[module] /\ since[module] < Batch
    BY <1>3 DEF RowsInv, InBatch
  <2> QED
    BY <1>1, <1>2, <2>1
<1>4. CASE session # "open"
  <2>1. unsaved = NoRows
    BY <1>4 DEF RowsInv, Settled
  <2> QED
    BY <1>1, <1>2, <1>4, <2>1
<1> QED
  BY <1>3, <1>4

LEMMA AuditCompleteNext ==
  AuditComplete' <=> sent' = Accounted' + cut' + Cardinality(InFlight')
<1>1. AuditComplete' <=> sent' = auditLog' + unsaved'.audit + fallback' + lost'.audit + cut'
                                 + Cardinality(InFlight')
  BY DEF AuditComplete, InFlight
<1> QED
  BY <1>1 DEF Accounted

\* A write that is cut short takes no more than a batch of rows away, and
\* what it takes is lost, not forgotten.
LEMMA ShortCounts ==
  ASSUME RowsTyped, LossBounded, NEW rows \in Rows, rows.audit = unsaved.audit,
         rows.audit + rows.evidence <= Batch, Fail(rows) \/ Tear(rows), fallback' \in Nat
  PROVE  /\ unsaved' = NoRows /\ LossBounded' /\ kept' = kept
         /\ Accounted' = auditLog + unsaved.audit + fallback' + lost.audit
<1>1. /\ rows.audit \in Nat /\ rows.evidence \in Nat
      /\ faults \in Nat /\ torn \in Nat /\ auditLog \in Nat /\ fallback \in Nat
  BY DEF Rows, RowsTyped
<1>2. /\ unsaved' = NoRows /\ lost' = Plus(lost, rows) /\ UNCHANGED <<kept, auditLog>>
      /\ faults' + torn' = faults + torn + 1
  BY <1>1, ShortType
<1>3. lost'.audit = lost.audit + rows.audit /\ lost'.evidence = lost.evidence + rows.evidence
  BY <1>2, PlusType DEF RowsTyped
<1>4. LossBounded'
  <2> DEFINE before == Batch * (faults + torn)
             after  == Batch * (faults + torn + 1)
  <2>1. before \in Nat /\ after = before + Batch /\ Batch \in Nat
    BY <1>1, SessionAssumption
  <2>2. lost.audit + lost.evidence <= before
    BY DEF LossBounded
  <2>3. LossBounded' <=> lost'.audit + lost'.evidence <= after
    BY <1>2 DEF LossBounded
  <2> HIDE DEF before, after
  <2> QED
    BY <1>1, <1>3, <2>1, <2>2, <2>3, NumbersOf
<1>5. Accounted' = auditLog + unsaved.audit + fallback' + lost.audit
  <2>1. /\ unsaved.audit \in Nat /\ lost.audit \in Nat /\ unsaved'.audit = 0
        /\ lost'.audit = lost.audit + unsaved.audit
    BY <1>2, <1>3, NumbersOf
  <2>2. Accounted' = auditLog + 0 + fallback' + (lost.audit + unsaved.audit)
    BY <1>2, <2>1 DEF Accounted
  <2> QED
    BY <1>1, <2>1, <2>2
<1> QED
  BY <1>2, <1>4, <1>5

\* A row added to an open session counts once, kept or not yet kept.
LEMMA AddOkCounts ==
  ASSUME RowsTyped, RunTyped, RowsInv, session = "open", NEW row \in Rows,
         row.audit + row.evidence <= 1, AddOk(row), module' = module
  PROVE  /\ session' = "open" /\ InBatch'
         /\ auditLog' + unsaved'.audit = auditLog + unsaved.audit + row.audit
         /\ kept'[module] + unsaved'.evidence = kept[module] + unsaved.evidence + row.evidence
         /\ \A m \in 1..Modules \ {module} : kept'[m] = kept[m]
<1> DEFINE all == Plus(unsaved, row)
<1> DEFINE n == since[module]
<1>0. /\ unsaved.audit \in Nat /\ unsaved.evidence \in Nat
      /\ NoRows.audit = 0 /\ NoRows.evidence = 0
      /\ auditLog \in Nat /\ n \in Nat /\ Batch \in Nat \ {0}
      /\ unsaved.audit + unsaved.evidence <= n
  <2>1. n \in Nat
    BY SessionAssumption DEF RowsTyped, RunTyped
  <2>2. unsaved.audit + unsaved.evidence <= n
    BY DEF RowsInv, InBatch
  <2> QED
    BY <2>1, <2>2, NumbersOf, SessionAssumption DEF RowsTyped
<1>a. since \in [1..Modules -> 0..Batch] /\ module \in 1..Modules
  BY DEF RowsTyped, RunTyped
<1>1. /\ row.audit \in Nat /\ row.evidence \in Nat
      /\ all.audit = unsaved.audit + row.audit
      /\ all.evidence = unsaved.evidence + row.evidence
  BY PlusType DEF Rows, RowsTyped
<1> HIDE DEF all
<1>2. CASE BatchFull
  <2>1. Save(all) /\ session' = session
    BY <1>2 DEF AddOk, all
  <2>2. /\ unsaved' = NoRows /\ since'[module] = 0 /\ auditLog' = auditLog + all.audit
        /\ kept' = [kept EXCEPT ![module] = @ + all.evidence]
    BY <1>a, <2>1 DEF Save
  <2>3. kept'[module] = kept[module] + all.evidence /\ kept[module] \in Nat
        /\ \A m \in 1..Modules \ {module} : kept'[m] = kept[m]
    BY <2>2 DEF RowsTyped, RunTyped
  <2>4. unsaved'.audit = 0 /\ unsaved'.evidence = 0
    BY <1>0, <2>2
  <2>5. InBatch'
    BY <1>0, <2>2, <2>4 DEF InBatch
  <2>6. auditLog' + unsaved'.audit = auditLog + unsaved.audit + row.audit
    BY <1>0, <1>1, <2>2, <2>4
  <2>7. kept'[module] + unsaved'.evidence = kept[module] + unsaved.evidence + row.evidence
    BY <1>0, <1>1, <2>3, <2>4
  <2> QED
    BY <2>1, <2>3, <2>5, <2>6, <2>7
<1>3. CASE ~BatchFull
  <2>1. unsaved' = all /\ since'[module] = n + 1 /\ UNCHANGED <<auditLog, kept, session>>
    BY <1>a, <1>3 DEF AddOk, all
  <2>2. unsaved'.audit = unsaved.audit + row.audit
        /\ unsaved'.evidence = unsaved.evidence + row.evidence
    BY <1>1, <2>1
  <2>3. n + 1 < Batch
    BY <1>0, <1>3 DEF BatchFull
  <2>4. InBatch'
    BY <1>0, <1>1, <2>1, <2>2, <2>3 DEF InBatch
  <2>5. kept[module] \in Nat
    BY DEF RowsTyped, RunTyped
  <2> QED
    BY <1>0, <1>1, <2>1, <2>2, <2>4, <2>5
<1> QED
  BY <1>2, <1>3

\* A commit keeps the session's rows.
LEMMA CommitCounts ==
  ASSUME RowsTyped, RunTyped, LossBounded, Commit, fallback' = fallback
  PROVE  /\ unsaved' = NoRows /\ LossBounded' /\ Accounted' = Accounted
         /\ \A m \in 1..Modules \ {module} : kept'[m] = kept[m]
         /\ kept'[module] = kept[module] + unsaved.evidence
<1>1. /\ unsaved' = NoRows /\ auditLog' = auditLog + unsaved.audit
      /\ kept' = [kept EXCEPT ![module] = @ + unsaved.evidence]
      /\ UNCHANGED <<lost, faults, torn>>
  BY DEF Commit, Save
<1>2. LossBounded'
  BY <1>1 DEF LossBounded
<1>3. Accounted' = Accounted
  <2>1. /\ auditLog \in Nat /\ fallback \in Nat /\ unsaved.audit \in Nat
        /\ lost.audit \in Nat /\ unsaved'.audit = 0
    BY <1>1, NumbersOf DEF RowsTyped
  <2> QED
    BY <1>1, <2>1 DEF Accounted
<1> QED
  BY <1>1, <1>2, <1>3 DEF RowsTyped, RunTyped

\* Nor does a write that is cut short, and each row it takes is counted.
LEMMA SessionShort ==
  ASSUME RowsTyped, RunTyped, RowsInv, LossBounded, NEW rows \in Rows,
         rows = unsaved \/ (session = "open" /\ rows = Plus(unsaved, Finding)),
         Fail(rows) \/ Tear(rows), fallback' \in Nat
  PROVE  /\ unsaved' = NoRows /\ LossBounded' /\ kept' = kept
         /\ Accounted' = auditLog + unsaved.audit + fallback' + lost.audit
<1>1. rows.audit = unsaved.audit
      /\ (rows.evidence = unsaved.evidence \/ (session = "open" /\ rows.evidence = unsaved.evidence + 1))
  <2>1. Finding.audit = 0 /\ Finding.evidence = 1 /\ unsaved.audit \in Nat
    BY NumbersOf DEF Finding
  <2> QED
    BY <2>1, PlusType, RowConstants DEF RowsTyped
<1>2. rows.audit + rows.evidence <= Batch
  BY <1>1, AtMostBatch, NumbersOf, SessionAssumption
<1> QED
  BY <1>1, <1>2, ShortCounts

LEMMA PlusNothing == ASSUME NEW rows \in Rows PROVE Plus(rows, NoRows) = rows
BY DEF Plus, Rows, NoRows

\* A request's audit row is accounted for once, wherever the write ends up.
LEMMA AuditCounts ==
  ASSUME RowsTyped, RunTyped, RowsInv, LossBounded, Audit, UNCHANGED <<phase, module>>
  PROVE  /\ Accounted' = Accounted + 1 /\ LossBounded' /\ InBatch' /\ Settled'
         /\ \A m \in 1..Modules \ {module} : kept'[m] = kept[m]
         /\ phase # "run" => kept' = kept
         /\ session' = "open" =>
              /\ session = "open"
              /\ kept'[module] + unsaved'.evidence = kept[module] + unsaved.evidence
<1>0. /\ auditLog \in Nat /\ fallback \in Nat /\ faults \in Nat /\ torn \in Nat
      /\ unsaved \in Rows
      /\ AuditRow.audit = 1 /\ AuditRow.evidence = 0
      /\ unsaved.audit \in Nat /\ lost.audit \in Nat
      /\ NoRows.audit = 0 /\ NoRows.evidence = 0
  BY NumbersOf DEF RowsTyped, AuditRow
<1>1. CASE phase # "run"
  <2>1. /\ \/ auditLog' = auditLog + 1 /\ fallback' = fallback
           \/ fallback' = fallback + 1 /\ auditLog' = auditLog
        /\ UNCHANGED <<session, since, unsaved, kept, lost, torn>>
        /\ faults' = faults \/ faults' = faults + 1
    BY <1>0, <1>1 DEF Audit, AuditAlone
  <2>2. LossBounded'
    <3> DEFINE before == Batch * (faults + torn)
               after  == Batch * (faults' + torn)
    <3>0. LossBounded' <=> lost'.audit + lost'.evidence <= after
      BY <2>1 DEF LossBounded
    <3>1. before \in Nat /\ (after = before \/ after = before + Batch) /\ Batch \in Nat
      BY <1>0, <2>1, SessionAssumption
    <3>2. lost.audit + lost.evidence <= before /\ lost' = lost
      BY <2>1 DEF LossBounded
    <3>3. lost'.audit + lost'.evidence <= after
      <4> HIDE DEF before, after
      <4> QED
        BY <3>1, <3>2, NumbersOf
    <3> QED
      BY <3>0, <3>3
  <2>3. Accounted' = Accounted + 1
    <3>1. CASE auditLog' = auditLog + 1 /\ fallback' = fallback
      BY <1>0, <2>1, <3>1 DEF Accounted
    <3>2. CASE fallback' = fallback + 1 /\ auditLog' = auditLog
      BY <1>0, <2>1, <3>2 DEF Accounted
    <3> QED
      BY <2>1, <3>1, <3>2
  <2>4. InBatch' /\ Settled'
    BY <2>1 DEF RowsInv, InBatch, Settled
  <2> QED
    BY <1>1, <2>1, <2>2, <2>3, <2>4
<1>2. CASE phase = "run" /\ session = "open" /\ AddOk(AuditRow) /\ UNCHANGED <<fallback, lost, faults, torn, stray>>
  <2>1. /\ session' = "open" /\ InBatch'
        /\ auditLog' + unsaved'.audit = auditLog + unsaved.audit + 1
        /\ kept'[module] + unsaved'.evidence = kept[module] + unsaved.evidence + 0
        /\ \A m \in 1..Modules \ {module} : kept'[m] = kept[m]
    BY <1>0, <1>2, AddOkCounts, RowConstants
  <2>2. Accounted' = Accounted + 1
    <3>1. auditLog' \in Nat /\ unsaved'.audit \in Nat
      <4>1. RowsTyped'
        BY <1>2, AddOkType, RowConstants DEF RunTyped
      <4> QED
        BY <4>1 DEF RowsTyped, Rows
    <3> QED
      BY <1>0, <1>2, <2>1, <3>1 DEF Accounted
  <2>3. kept'[module] + unsaved'.evidence = kept[module] + unsaved.evidence
    <3>1. kept[module] \in Nat /\ unsaved.evidence \in Nat
      BY NumbersOf DEF RowsTyped, RunTyped
    <3> QED
      BY <2>1, <3>1
  <2>4. LossBounded' /\ Settled'
    BY <1>2, <2>1 DEF LossBounded, Settled, RowsInv
  <2> QED
    BY <1>2, <2>1, <2>2, <2>3, <2>4
<1>3. CASE /\ phase = "run" /\ session = "open" /\ Fail(unsaved)
           /\ session' = "inactive" /\ fallback' = fallback + 1
  <2>1. /\ unsaved' = NoRows /\ LossBounded' /\ kept' = kept
        /\ Accounted' = auditLog + unsaved.audit + fallback' + lost.audit
    BY <1>0, <1>3, SessionShort
  <2>2. Accounted' = Accounted + 1
    BY <1>0, <1>3, <2>1 DEF Accounted
  <2>3. InBatch' /\ Settled'
    BY <1>3, <2>1 DEF InBatch, Settled, RowsInv
  <2> QED
    BY <1>3, <2>1, <2>2, <2>3
<1>4. CASE /\ phase = "run" /\ session = "inactive" /\ fallback' = fallback + 1
           /\ UNCHANGED <<session, since, unsaved, kept, auditLog, lost, faults, torn>>
  <2>1. Accounted' = Accounted + 1
    BY <1>0, <1>4 DEF Accounted
  <2> QED
    BY <1>4, <2>1 DEF LossBounded, InBatch, Settled, RowsInv
<1> QED
  BY <1>1, <1>2, <1>3, <1>4 DEF Audit, AuditInModule

\* One request more, or one less, is in flight.
LEMMA FlightType == IsFiniteSet(InFlight) /\ Cardinality(InFlight) \in Nat
BY FS_Subset, FS_CardinalityType DEF InFlight

LEMMA FlightBegins ==
  ASSUME RunTyped, NEW w \in Workers, NEW c, c.at = "flight", worker[w].at # "flight",
         worker' = [worker EXCEPT ![w] = c]
  PROVE  Cardinality(InFlight') = Cardinality(InFlight) + 1
<1>1. InFlight' = InFlight \union {w} /\ w \notin InFlight
  BY DEF InFlight, RunTyped
<1> QED
  BY <1>1, FlightType, FS_AddElement

LEMMA FlightEnds ==
  ASSUME RunTyped, NEW w \in Workers, NEW c, c.at # "flight", worker[w].at = "flight",
         worker' = [worker EXCEPT ![w] = c]
  PROVE  Cardinality(InFlight') = Cardinality(InFlight) - 1
<1>1. InFlight' = InFlight \ {w} /\ w \in InFlight
  BY DEF InFlight, RunTyped
<1> QED
  BY <1>1, FlightType, FS_RemoveElement

LEMMA FlightElsewhere ==
  ASSUME RunTyped, NEW w \in Workers, NEW c, c.at # "flight", worker[w].at # "flight",
         worker' = [worker EXCEPT ![w] = c]
  PROVE  Cardinality(InFlight') = Cardinality(InFlight)
<1>1. InFlight' = InFlight
  BY DEF InFlight, RunTyped
<1> QED
  BY <1>1

-----------------------------------------------------------------------------
(* Steps *)

RowsOK == RowsInv /\ CompletedKeepsAll /\ LossBounded

\* A step inside the module, or of a coroutine that outlived its own.
LEMMA StepKeeps ==
  ASSUME RowsTyped, RunTyped, RowsOK, UNCHANGED <<phase, module, status>>,
         Settled', InBatch', LossBounded',
         \A m \in 1..Modules \ {module} : kept'[m] = kept[m] /\ counted'[m] = counted[m],
         phase # "run" => kept' = kept /\ counted' = counted,
         session' = "open" => kept'[module] + unsaved'.evidence = counted'[module]
  PROVE  RowsOK'
<1>1. Tallied'
  <2>1. phase' = "run" => status'[module'] = "running"
    BY DEF RowsOK, RowsInv, Tallied
  <2>2. ASSUME NEW m \in 1..Modules, m > module' \/ (m = module' /\ phase' = "between")
        PROVE  kept'[m] = counted'[m]
    BY <2>2 DEF RowsOK, RowsInv, Tallied, RunTyped
  <2> QED
    BY <2>1, <2>2 DEF Tallied
<1>2. CompletedKeepsAll'
  <2> SUFFICES ASSUME NEW m \in 1..Modules, status'[m] \in {"completed", "skipped"}
               PROVE  kept'[m] = counted'[m]
    BY DEF CompletedKeepsAll
  <2>1. kept[m] = counted[m]
    BY DEF RowsOK, CompletedKeepsAll
  <2>2. CASE phase = "run"
    BY <2>1, <2>2 DEF RowsOK, RowsInv, Tallied
  <2>3. CASE phase # "run"
    BY <2>1, <2>3
  <2> QED
    BY <2>2, <2>3
<1> QED
  BY <1>1, <1>2 DEF RowsOK, RowsInv

\* A module is left: reported COMPLETED or SKIPPED only with all it counted.
LEMMA LeaveKeeps ==
  ASSUME RowsTyped, RunTyped, RowsOK, phase = "run",
         NEW s \in {"pending", "running", "completed", "skipped", "failed"}, Leave(s),
         unsaved' = NoRows, LossBounded', counted' = counted,
         \A m \in 1..Modules \ {module} : kept'[m] = kept[m],
         s \in {"completed", "skipped"} => kept'[module] = counted[module]
  PROVE  RowsOK'
<1>1. /\ session' = "closed" /\ status' = [status EXCEPT ![module] = s]
      /\ \/ phase' = "over" /\ module' = module
         \/ phase' = "between" /\ module' = module + 1
  BY DEF Leave
<1>2. Settled' /\ InBatch'
  BY <1>1 DEF Settled, InBatch
<1>3. Tallied'
  <2>1. ASSUME NEW m \in 1..Modules, m > module' \/ (m = module' /\ phase' = "between")
        PROVE  kept'[m] = counted'[m]
    BY <1>1, <2>1 DEF RowsOK, RowsInv, Tallied, RunTyped
  <2> QED
    BY <1>1, <2>1 DEF Tallied
<1>4. CompletedKeepsAll'
  <2> SUFFICES ASSUME NEW m \in 1..Modules, status'[m] \in {"completed", "skipped"}
               PROVE  kept'[m] = counted'[m]
    BY DEF CompletedKeepsAll
  <2> QED
    BY <1>1 DEF RowsOK, CompletedKeepsAll, RunTyped
<1> QED
  BY <1>2, <1>3, <1>4 DEF RowsOK, RowsInv

\* A step that writes nothing.
LEMMA NothingWritten ==
  ASSUME RowsTyped, RunTyped, RowsOK, UNCHANGED <<phase, module, status, ctxVars>>,
         UNCHANGED <<auditLog, fallback, lost, faults, torn>>
  PROVE  RowsOK' /\ Accounted' = Accounted
<1>1. UNCHANGED <<session, since, unsaved, counted, kept>>
  BY DEF ctxVars
<1>2. Settled' /\ InBatch'
  BY <1>1 DEF Settled, InBatch, RowsOK, RowsInv
<1>3. LossBounded'
  BY DEF LossBounded, RowsOK
<1>4. Accounted' = Accounted
  BY <1>1 DEF Accounted
<1>5. session' = "open" => kept'[module] + unsaved'.evidence = counted'[module]
  BY <1>1 DEF RowsOK, RowsInv, Tallied
<1> QED
  BY <1>1, <1>2, <1>3, <1>4, <1>5, StepKeeps

\* A step that audits a request.
LEMMA RequestAudited ==
  ASSUME RowsTyped, RunTyped, RowsOK, UNCHANGED <<phase, module, status>>, Audit
  PROVE  RowsOK' /\ Accounted' = Accounted + 1
<1>1. counted' = counted
  BY AuditType DEF RunTyped
<1>2. session' = "open" => kept'[module] + unsaved'.evidence = counted'[module]
  BY <1>1, AuditCounts DEF RowsOK, RowsInv, Tallied
<1> QED
  BY <1>1, <1>2, AuditCounts, StepKeeps DEF RowsOK

\* What one row adds, on the way to a full batch or with it.
LEMMA RowAdded ==
  ASSUME RowsTyped, RunTyped, RowsOK, session = "open", NEW row \in Rows,
         row.audit = 0, row.evidence <= 1, AddOk(row),
         UNCHANGED <<phase, module, status, fallback, lost, faults, torn>>,
         counted'[module] = counted[module] + row.evidence,
         \A m \in 1..Modules \ {module} : counted'[m] = counted[m]
  PROVE  RowsOK' /\ Accounted' = Accounted
<1>0. row.evidence \in Nat /\ row.audit + row.evidence <= 1
  BY DEF Rows
<1>1. /\ session' = "open" /\ InBatch'
      /\ auditLog' + unsaved'.audit = auditLog + unsaved.audit + row.audit
      /\ kept'[module] + unsaved'.evidence = kept[module] + unsaved.evidence + row.evidence
      /\ \A m \in 1..Modules \ {module} : kept'[m] = kept[m]
  BY <1>0, AddOkCounts DEF RowsOK
<1>2. auditLog' \in Nat /\ unsaved' \in Rows
  <2>1. Plus(unsaved, row) \in Rows
    BY PlusType DEF RowsTyped
  <2>2. CASE BatchFull
    BY <2>1, <2>2, SaveType DEF AddOk, RunTyped
  <2>3. CASE ~BatchFull
    BY <2>1, <2>3 DEF AddOk, RowsTyped
  <2> QED
    BY <2>2, <2>3
<1>3. Accounted' = Accounted
  <2>1. unsaved'.audit \in Nat /\ unsaved.audit \in Nat /\ auditLog \in Nat
        /\ fallback \in Nat /\ lost.audit \in Nat
    BY <1>2, NumbersOf DEF Rows, RowsTyped
  <2>2. auditLog' + unsaved'.audit = auditLog + unsaved.audit
    BY <1>1, <2>1
  <2> QED
    BY <1>2, <2>1, <2>2 DEF Accounted
<1>4. kept'[module] + unsaved'.evidence = counted'[module]
  <2>1. kept[module] + unsaved.evidence = counted[module]
    BY DEF RowsOK, RowsInv, Tallied
  <2> QED
    BY <1>0, <1>1, <2>1, NumbersOf DEF RowsTyped, RunTyped
<1>5. phase = "run"
  BY DEF RowsOK, RowsInv, Settled
<1>6. Settled' /\ LossBounded'
  BY <1>1, <1>5 DEF Settled, LossBounded, RowsOK
<1> QED
  BY <1>1, <1>3, <1>4, <1>5, <1>6, StepKeeps

Kept == RowsOK /\ AuditComplete

\* Coroutines: a request is in flight, or accounted for.
LEMMA CoroutineKeeps ==
  ASSUME TypeOK, InTurn, Kept, NEW w \in Workers,
         \/ \E u \in Hosts, m \in 1..Modules : NextTarget(w, u, m)
         \/ \E u \in Hosts : Redirect(w, u)
         \/ Send(w) \/ Blocked(w) \/ RequestFails(w) \/ Answer(w)
         \/ FetchTimeout(w) \/ AddEvidence(w) \/ StrayEvidence(w) \/ StrayFails(w)
  PROVE  Kept'
<1>0. /\ RowsTyped /\ RunTyped /\ RowsOK /\ cut \in Nat /\ sent \in Nat
      /\ Accounted \in Nat /\ Cardinality(InFlight) \in Nat
      /\ sent = Accounted + cut + Cardinality(InFlight)
  BY TypeParts, NumbersOf, FlightType, AuditCompleteIs DEF Kept, NetTyped
<1>1. AuditComplete' <=> sent' = Accounted' + cut' + Cardinality(InFlight')
  BY AuditCompleteNext
<1>2. ASSUME NEW u \in Hosts, NEW m \in 1..Modules, NextTarget(w, u, m) PROVE Kept'
  <2>1. RowsOK' /\ Accounted' = Accounted
    BY <1>0, <1>2, NothingWritten DEF NextTarget, runVars, logVars
  <2>2. Cardinality(InFlight') = Cardinality(InFlight)
    BY <1>0, <1>2, FlightElsewhere DEF NextTarget
  <2> QED
    BY <1>0, <1>1, <1>2, <2>1, <2>2 DEF Kept, NextTarget
<1>3. ASSUME NEW u \in Hosts, Redirect(w, u) PROVE Kept'
  <2>1. RowsOK' /\ Accounted' = Accounted + 1
    BY <1>0, <1>3, RequestAudited DEF Redirect, runVars
  <2>2. Cardinality(InFlight') = Cardinality(InFlight) - 1
    <3> DEFINE hop == [worker[w] EXCEPT !.at = "gate", !.to = u, !.hops = @ + 1]
    <3>0. worker \in [Workers -> Coroutine] /\ worker[w] \in Coroutine
      BY <1>0 DEF RunTyped
    <3>1. hop.at # "flight"
      BY <3>0 DEF Coroutine
    <3>2. worker' = [worker EXCEPT ![w] = hop] /\ worker[w].at = "flight"
      BY <1>3, <3>0 DEF Redirect, Coroutine
    <3> HIDE DEF hop
    <3> QED
      BY <1>0, <3>1, <3>2, FlightEnds
  <2>3. sent' = sent /\ cut' = cut
    BY <1>3 DEF Redirect, netVars
  <2> QED
    BY <1>0, <1>1, <2>1, <2>2, <2>3 DEF Kept
<1>4. CASE Send(w)
  <2>1. RowsOK' /\ Accounted' = Accounted
    BY <1>0, <1>4, NothingWritten DEF Send, runVars, logVars
  <2>2. Cardinality(InFlight') = Cardinality(InFlight) + 1
    <3>1. [worker[w] EXCEPT !.at = "flight"].at = "flight"
      BY <1>0 DEF RunTyped, Coroutine
    <3> QED
      BY <1>0, <1>4, <3>1, FlightBegins DEF Send, Goes
  <2> QED
    BY <1>0, <1>1, <1>4, <2>1, <2>2 DEF Kept, Send
<1>5. CASE Blocked(w)
  <2>1. RowsOK' /\ Accounted' = Accounted + 1
    BY <1>0, <1>5, RequestAudited DEF Blocked, runVars
  <2>2. Cardinality(InFlight') = Cardinality(InFlight)
    BY <1>0, <1>5, FlightElsewhere DEF Blocked, Rests, Idle
  <2> QED
    BY <1>0, <1>1, <1>5, <2>1, <2>2 DEF Kept, Blocked
<1>6. CASE RequestFails(w)
  <2>1. RowsOK' /\ Accounted' = Accounted + 1
    BY <1>0, <1>6, RequestAudited DEF RequestFails, runVars
  <2>2. Cardinality(InFlight') = Cardinality(InFlight) - 1
    BY <1>0, <1>6, FlightEnds DEF RequestFails, Rests, Idle
  <2> QED
    BY <1>0, <1>1, <1>6, <2>1, <2>2 DEF Kept, RequestFails, netVars
<1>7. CASE Answer(w)
  <2>1. RowsOK' /\ Accounted' = Accounted + 1
    BY <1>0, <1>7, RequestAudited DEF Answer, runVars
  <2>2. Cardinality(InFlight') = Cardinality(InFlight) - 1
    BY <1>0, <1>7, FlightEnds DEF Answer, Finds, Idle
  <2> QED
    BY <1>0, <1>1, <1>7, <2>1, <2>2 DEF Kept, Answer, netVars
<1>8. CASE FetchTimeout(w)
  <2>1. RowsOK' /\ Accounted' = Accounted
    <3>1. CASE UNCHANGED <<ctxVars, logVars>>
      BY <1>0, <1>8, <3>1, NothingWritten DEF FetchTimeout, runVars, logVars
    <3>2. CASE Tear(unsaved) /\ session' = "inactive" /\ UNCHANGED <<counted, fallback, stray>>
      <4>1. unsaved \in Rows /\ fallback' \in Nat /\ RowsInv /\ LossBounded
        BY <1>0, <3>2 DEF RowsTyped, RowsOK
      <4>2. /\ unsaved' = NoRows /\ LossBounded' /\ kept' = kept
            /\ Accounted' = auditLog + unsaved.audit + fallback' + lost.audit
        BY <1>0, <3>2, <4>1, SessionShort
      <4>3. Accounted' = Accounted
        BY <3>2, <4>2 DEF Accounted
      <4>4. UNCHANGED <<phase, module, status>> /\ session = "open"
        BY <1>8, <3>2 DEF FetchTimeout, runVars, Tear
      <4>5. Settled' /\ InBatch'
        BY <3>2, <4>1, <4>2, <4>4 DEF Settled, InBatch, RowsInv
      <4> QED
        BY <1>0, <3>2, <4>2, <4>3, <4>4, <4>5, StepKeeps
    <3> QED
      BY <1>8, <3>1, <3>2 DEF FetchTimeout
  <2>2. Cardinality(InFlight') = Cardinality(InFlight) - 1
    BY <1>0, <1>8, FlightEnds DEF FetchTimeout, Finds, Idle
  <2> QED
    BY <1>0, <1>1, <1>8, <2>1, <2>2 DEF Kept, FetchTimeout
<1>9. CASE AddEvidence(w)
  <2>1. RowsOK' /\ Accounted' = Accounted
    <3>1. /\ counted'[module] = counted[module] + 1
          /\ \A m \in 1..Modules \ {module} : counted'[m] = counted[m]
      BY <1>0, <1>9 DEF AddEvidence, RunTyped
    <3>2. Finding.audit = 0 /\ Finding.evidence = 1
      BY DEF Finding
    <3> QED
      BY <1>0, <1>9, <3>1, <3>2, RowAdded, RowConstants DEF AddEvidence, runVars
  <2>2. Cardinality(InFlight') = Cardinality(InFlight)
    BY <1>0, <1>9, FlightElsewhere DEF AddEvidence, Rests, Idle
  <2> QED
    BY <1>0, <1>1, <1>9, <2>1, <2>2 DEF Kept, AddEvidence, netVars
<1>10. CASE StrayEvidence(w)
  <2> DEFINE m == worker[w].of
  <2>1. /\ m \in 1..Modules /\ (m = module => phase # "run") /\ m <= module
        /\ (m = module => phase # "between") /\ status[m] \notin {"completed", "skipped"}
    BY <1>0, <1>10 DEF StrayEvidence, Stray, Live, InTurn, StraysLeft, RunTyped, Coroutine
  <2>2. /\ \A k \in 1..Modules \ {m} : kept'[k] = kept[k] /\ since'[k] = since[k]
        /\ UNCHANGED <<phase, module, status, session, unsaved, counted, auditLog, fallback,
                       lost, faults, torn, sent, cut>>
    BY <1>0, <1>10, <2>1 DEF StrayEvidence, RowsTyped, runVars, netVars
  <2> HIDE DEF m
  <2>3. Settled' /\ LossBounded' /\ Accounted' = Accounted
    BY <1>0, <2>2 DEF RowsOK, RowsInv, Settled, LossBounded, Accounted
  <2>4. InBatch'
    BY <1>0, <2>1, <2>2 DEF RowsOK, RowsInv, Settled, InBatch, RunTyped
  <2>5. Tallied'
    <3>1. session' = "open" => kept'[module'] + unsaved'.evidence = counted'[module']
      BY <1>0, <2>1, <2>2 DEF RowsOK, RowsInv, Settled, Tallied, RunTyped
    <3>2. \A k \in 1..Modules :
             k > module' \/ (k = module' /\ phase' = "between") => kept'[k] = counted'[k]
      <4>1. /\ Modules \in Nat /\ module \in 1..Modules
            /\ \A k \in 1..Modules :
                 k > module \/ (k = module /\ phase = "between") => kept[k] = counted[k]
        BY <1>0, SessionAssumption DEF RowsOK, RowsInv, Tallied, RunTyped
      <4>2. \A k \in 1..Modules : k > module \/ (k = module /\ phase = "between") => k # m
        BY <2>1, <4>1
      <4> QED
        BY <2>2, <4>1, <4>2
    <3> QED
      BY <1>0, <2>2, <3>1, <3>2 DEF RowsOK, RowsInv, Tallied
  <2>6. CompletedKeepsAll'
    BY <1>0, <2>1, <2>2 DEF RowsOK, CompletedKeepsAll
  <2>7. Cardinality(InFlight') = Cardinality(InFlight)
    BY <1>0, <1>10, FlightElsewhere DEF StrayEvidence, Rests, Idle
  <2> QED
    BY <1>0, <1>1, <2>2, <2>3, <2>4, <2>5, <2>6, <2>7 DEF Kept, RowsOK, RowsInv
<1>11. CASE StrayFails(w)
  <2>1. RowsOK' /\ Accounted' = Accounted
    BY <1>0, <1>11, NothingWritten DEF StrayFails, runVars
  <2>2. Cardinality(InFlight') = Cardinality(InFlight)
    BY <1>0, <1>11, FlightElsewhere DEF StrayFails, Idle
  <2> QED
    BY <1>0, <1>1, <1>11, <2>1, <2>2 DEF Kept, StrayFails, netVars
<1> QED
  BY <1>2, <1>3, <1>4, <1>5, <1>6, <1>7, <1>8, <1>9, <1>10, <1>11

\* A module that is left without a request cut off.
LEMMA LeftKeeps ==
  ASSUME TypeOK, Kept, phase = "run",
         NEW s \in {"pending", "running", "completed", "skipped", "failed"}, Leave(s),
         unsaved' = NoRows, LossBounded', counted' = counted, cut' = cut,
         \A m \in 1..Modules \ {module} : kept'[m] = kept[m],
         s \in {"completed", "skipped"} => kept'[module] = counted[module],
         Accounted' = Accounted, Cardinality(InFlight') = Cardinality(InFlight)
  PROVE  Kept'
<1>1. RowsOK'
  BY TypeParts, LeaveKeeps DEF Kept
<1>2. sent' = sent
  BY DEF Leave
<1>3. AuditComplete' <=> sent' = Accounted' + cut' + Cardinality(InFlight')
  BY AuditCompleteNext
<1> QED
  BY <1>1, <1>2, <1>3, AuditCompleteIs DEF Kept

\* A coroutine at rest or about to record something is not in flight.
LEMMA FoundRests ==
  ASSUME RunTyped, NEW w \in Workers, worker[w].at # "flight",
         worker' = [worker EXCEPT ![w] = Idle]
  PROVE  Cardinality(InFlight') = Cardinality(InFlight)
BY FlightElsewhere DEF Idle

LEMMA SameFlights == ASSUME worker' = worker PROVE Cardinality(InFlight') = Cardinality(InFlight)
BY DEF InFlight

\* The run ends inside a module.
LEMMA RunEndKeeps ==
  ASSUME TypeOK, Kept, phase = "run", RunEnds, unsaved' = NoRows, LossBounded',
         \A m \in 1..Modules \ {module} : kept'[m] = kept[m],
         status[module] = "running",
         Accounted' = Accounted, Cardinality(InFlight') = Cardinality(InFlight)
  PROVE  Kept'
<1>1. /\ phase' = "over" /\ session' = "closed"
      /\ UNCHANGED <<module, status, counted, sent, cut>>
  BY DEF RunEnds, netVars
<1>2. Settled' /\ InBatch'
  BY <1>1 DEF Settled, InBatch
<1>3. Tallied'
  <2>1. /\ Modules \in Nat /\ module \in 1..Modules
        /\ \A m \in 1..Modules : m > module => kept[m] = counted[m]
    BY SessionAssumption DEF Kept, RowsOK, RowsInv, Tallied, TypeOK
  <2>2. \A m \in 1..Modules : m > module => m \in 1..Modules \ {module}
    BY <2>1
  <2> QED
    BY <1>1, <2>1, <2>2 DEF Tallied
<1>a. CompletedKeepsAll'
  BY <1>1 DEF Kept, RowsOK, CompletedKeepsAll, TypeOK
<1>4. AuditComplete'
  BY <1>1, AuditCompleteIs, AuditCompleteNext DEF Kept
<1> QED
  BY <1>2, <1>3, <1>a, <1>4 DEF Kept, RowsOK, RowsInv

\* What the flush of a module that runs out of time leaves behind.
LEMMA FlushCounts ==
  ASSUME RowsTyped, RunTyped, RowsInv, LossBounded, fallback' = fallback,
         Flush \/ \E row \in {NoRows, Finding} : Tear(Plus(unsaved, row))
  PROVE  /\ unsaved' = NoRows /\ LossBounded' /\ Accounted' = Accounted
         /\ \A m \in 1..Modules \ {module} : kept'[m] = kept[m]
<1>1. unsaved \in Rows /\ fallback' \in Nat
  BY DEF RowsTyped
<1>2. CASE Commit
  BY <1>2, CommitCounts
<1>3. ASSUME NEW rows \in Rows, Fail(rows) \/ Tear(rows),
             rows = unsaved \/ (session = "open" /\ rows = Plus(unsaved, Finding))
      PROVE  /\ unsaved' = NoRows /\ LossBounded' /\ Accounted' = Accounted
             /\ \A m \in 1..Modules \ {module} : kept'[m] = kept[m]
  <2>1. /\ unsaved' = NoRows /\ LossBounded' /\ kept' = kept
        /\ Accounted' = auditLog + unsaved.audit + fallback' + lost.audit
    BY <1>1, <1>3, SessionShort
  <2> QED
    BY <2>1 DEF Accounted
<1>4. CASE session = "open" /\ Fail(unsaved)
  BY <1>1, <1>3, <1>4
<1>5. CASE session = "inactive" /\ UNCHANGED <<since, unsaved, kept, auditLog, lost, faults, torn>>
  BY <1>5 DEF RowsInv, Settled, LossBounded, Accounted
<1>6. CASE Tear(Plus(unsaved, NoRows))
  BY <1>1, <1>3, <1>6, PlusNothing
<1>7. CASE Tear(Plus(unsaved, Finding))
  <2>1. session = "open" /\ Plus(unsaved, Finding) \in Rows
    BY <1>1, <1>7, PlusType, RowConstants DEF Tear
  <2> QED
    BY <1>3, <1>7, <2>1
<1> QED
  BY <1>2, <1>4, <1>5, <1>6, <1>7 DEF Flush

\* The ways out of a module, and the executor's other steps.
LEMMA ExecutorKeeps ==
  ASSUME TypeOK, Kept,
         \/ \E w \in Workers : ModuleFails(w) \/ WriteFails(w)
         \/ MarkSkipped \/ StartModule \/ Returns \/ RunFails
         \/ ModuleCancelled \/ ModuleTimeout \/ HardTimeout
         \/ Cancel \/ \E m \in 1..Modules : Deadline(m)
  PROVE  Kept'
<1>0. /\ RowsTyped /\ RunTyped /\ RowsOK /\ RowsInv /\ LossBounded
      /\ cut \in Nat /\ sent \in Nat
      /\ Accounted \in Nat /\ Cardinality(InFlight) \in Nat
      /\ sent = Accounted + cut + Cardinality(InFlight)
      /\ (phase = "run" => status[module] = "running")
  BY TypeParts, NumbersOf, FlightType, AuditCompleteIs DEF Kept, RowsOK, RowsInv, Tallied, NetTyped
<1>1. AuditComplete' <=> sent' = Accounted' + cut' + Cardinality(InFlight')
  BY AuditCompleteNext
<1>2. ASSUME NEW w \in Workers, ModuleFails(w) PROVE Kept'
  <2>1. Cardinality(InFlight') = Cardinality(InFlight)
    BY <1>0, <1>2, FoundRests DEF ModuleFails
  <2>2. phase = "run"
    BY <1>2 DEF ModuleFails, Live
  <2> QED
    BY <1>0, <1>2, <2>1, <2>2, CommitCounts, LeftKeeps DEF ModuleFails
<1>3. ASSUME NEW w \in Workers, WriteFails(w) PROVE Kept'
  <2>1. /\ phase = "run" /\ session = "open" /\ RunEnds /\ Fail(Plus(unsaved, Finding))
        /\ Plus(unsaved, Finding) \in Rows /\ fallback' = fallback /\ fallback \in Nat
    BY <1>0, <1>3, PlusType, RowConstants DEF WriteFails, Live, RunEnds, RowsTyped
  <2>2. /\ unsaved' = NoRows /\ LossBounded' /\ kept' = kept
        /\ Accounted' = auditLog + unsaved.audit + fallback' + lost.audit
    BY <1>0, <2>1, SessionShort
  <2>3. Accounted' = Accounted
    BY <2>1, <2>2 DEF Accounted
  <2>4. Cardinality(InFlight') = Cardinality(InFlight)
    BY <1>0, <1>3, FoundRests DEF WriteFails
  <2> QED
    BY <1>0, <2>1, <2>2, <2>3, <2>4, RunEndKeeps
<1>4. CASE MarkSkipped
  <2>1. RowsOK' /\ Accounted' = Accounted
    <3>1. counted[module] \in Nat /\ NoRows.evidence = 0 /\ NoRows.audit = 0
      BY <1>0, NumbersOf DEF RunTyped
    <3>2. counted'[module] = counted[module] + NoRows.evidence
      BY <1>4, <3>1 DEF MarkSkipped
    <3> QED
      BY <1>0, <1>4, <3>1, <3>2, RowAdded, RowConstants DEF MarkSkipped
  <2>2. Cardinality(InFlight') = Cardinality(InFlight)
    BY <1>4, SameFlights DEF MarkSkipped
  <2> QED
    BY <1>0, <1>1, <1>4, <2>1, <2>2 DEF Kept, MarkSkipped, netVars
<1>5. CASE StartModule
  <2>1. /\ phase = "between" /\ phase' = "run" /\ session' = "open"
        /\ since' = [since EXCEPT ![module] = 0]
        /\ unsaved' = NoRows /\ status' = [status EXCEPT ![module] = "running"]
        /\ UNCHANGED <<module, worker, counted, kept, auditLog, fallback, lost, faults, torn, sent, cut>>
    BY <1>5 DEF StartModule, logVars, netVars
  <2>2. unsaved = NoRows
    BY <1>0, <2>1 DEF RowsInv, Settled
  <2>3. Settled' /\ InBatch' /\ LossBounded'
    <3>1. since'[module'] = 0 /\ Batch \in Nat \ {0}
      BY <1>0, <2>1, SessionAssumption DEF RowsTyped, RunTyped
    <3> QED
      BY <1>0, <2>1, <3>1, NumbersOf DEF Settled, InBatch, LossBounded
  <2>4. Tallied'
    <3>1. kept[module] \in Nat /\ kept[module] = counted[module] /\ unsaved'.evidence = 0
      BY <1>0, <2>1, NumbersOf DEF RowsInv, Tallied, RowsTyped, RunTyped
    <3>2. status'[module'] = "running"
      BY <1>0, <2>1 DEF RunTyped
    <3> QED
      BY <1>0, <2>1, <3>1, <3>2 DEF RowsInv, Tallied
  <2>5. CompletedKeepsAll'
    BY <1>0, <2>1 DEF RowsOK, CompletedKeepsAll, RunTyped
  <2>6. Accounted' = Accounted
    BY <2>1, <2>2 DEF Accounted
  <2>7. Cardinality(InFlight') = Cardinality(InFlight)
    BY <2>1, SameFlights
  <2> QED
    BY <1>0, <1>1, <2>1, <2>3, <2>4, <2>5, <2>6, <2>7 DEF Kept, RowsOK, RowsInv
<1>6. CASE Returns
  <2>1. PICK s \in {"completed", "skipped"} : Leave(s)
    BY <1>6 DEF Returns
  <2>2. phase = "run" /\ session = "open" /\ Commit /\ worker' = Gathered /\ Quiet
    BY <1>6 DEF Returns, Commit
  <2>3. kept'[module] = counted[module]
    BY <1>0, <1>6, <2>2, CommitCounts DEF Returns, RowsInv, Tallied
  <2>4. Cardinality(InFlight') = Cardinality(InFlight)
    <3>1. InFlight' = InFlight
      BY <2>2 DEF InFlight, Gathered, Quiet, Busy, Idle
    <3> QED
      BY <3>1
  <2> QED
    BY <1>0, <1>6, <2>1, <2>2, <2>3, <2>4, CommitCounts, LeftKeeps DEF Returns
<1>7. CASE RunFails
  <2>1. /\ phase = "run" /\ RunEnds /\ worker' = worker /\ fallback' = fallback
        /\ fallback \in Nat /\ unsaved \in Rows
        /\ \/ /\ session = "inactive"
              /\ UNCHANGED <<since, unsaved, kept, auditLog, lost, faults, torn>>
           \/ session = "open" /\ Fail(unsaved)
           \/ Commit
    BY <1>0, <1>7 DEF RunFails, RunEnds, RowsTyped
  <2>2. /\ unsaved' = NoRows /\ LossBounded' /\ Accounted' = Accounted
        /\ \A m \in 1..Modules \ {module} : kept'[m] = kept[m]
    BY <1>0, <2>1, FlushCounts DEF Flush
  <2>3. Cardinality(InFlight') = Cardinality(InFlight)
    BY <2>1, SameFlights
  <2> QED
    BY <1>0, <2>1, <2>2, <2>3, RunEndKeeps
<1>8. CASE ModuleCancelled
  <2>1. /\ phase = "run" /\ Leave("pending") /\ Commit
        /\ UNCHANGED <<worker, counted, cut, fallback>>
    BY <1>8 DEF ModuleCancelled
  <2>2. Cardinality(InFlight') = Cardinality(InFlight)
    BY <2>1, SameFlights
  <2> QED
    BY <1>0, <2>1, <2>2, CommitCounts, LeftKeeps
<1>9. ASSUME TimesOut, Flush \/ \E row \in {NoRows, Finding} : Tear(Plus(unsaved, row))
      PROVE  /\ phase = "run" /\ (\E s \in {"failed", "running"} : Leave(s)) /\ unsaved' = NoRows
             /\ LossBounded' /\ counted' = counted /\ Accounted' = Accounted
             /\ \A m \in 1..Modules \ {module} : kept'[m] = kept[m]
  <2>1. /\ phase = "run" /\ counted' = counted /\ fallback' = fallback
        /\ \E s \in {"failed", "running"} : Leave(s)
    BY <1>9 DEF TimesOut
  <2> QED
    BY <1>0, <1>9, <2>1, FlushCounts
<1>10. CASE ModuleTimeout
  <2>1. TimesOut /\ Flush /\ cut' = cut /\ Cardinality(InFlight') = Cardinality(InFlight)
    BY <1>10, SameFlights DEF ModuleTimeout
  <2> QED
    BY <1>9, <2>1, LeftKeeps
<1>11. CASE HardTimeout
  <2> DEFINE C == {w \in Workers : Live(w) /\ worker[w].at = "flight"}
  <2>0. TimesOut /\ (Flush \/ \E row \in {NoRows, Finding} : Tear(Plus(unsaved, row)))
    BY <1>11 DEF HardTimeout
  <2>1. RowsOK'
    <3>1. PICK s \in {"failed", "running"} : Leave(s)
      BY <1>9, <2>0
    <3> QED
      BY <1>0, <1>9, <2>0, <3>1, LeaveKeeps
  <2>2. Accounted' = Accounted /\ sent' = sent /\ cut' = cut + Cardinality(C)
    BY <1>9, <1>11, <2>0 DEF HardTimeout, Leave
  <2>3. InFlight' = InFlight \ C /\ C \subseteq InFlight
    BY <1>0, <1>11 DEF HardTimeout, Gathered, InFlight, Idle, RunTyped
  <2>4. IsFiniteSet(InFlight) /\ IsFiniteSet(C)
    BY <2>3, FlightType, FS_Subset
  <2>5. InFlight \cap C = C
    BY <2>3
  <2>6. /\ Cardinality(InFlight') = Cardinality(InFlight) - Cardinality(C)
        /\ Cardinality(C) \in Nat
    BY <2>3, <2>4, <2>5, FS_Difference, FS_CardinalityType
  <2> HIDE DEF C
  <2> QED
    BY <1>0, <1>1, <2>1, <2>2, <2>6 DEF Kept
<1>12. CASE Cancel \/ \E m \in 1..Modules : Deadline(m)
  <2>1. RowsOK' /\ Accounted' = Accounted
    BY <1>0, <1>12, NothingWritten DEF Cancel, Deadline, logVars
  <2>2. Cardinality(InFlight') = Cardinality(InFlight) /\ sent' = sent /\ cut' = cut
    BY <1>12, SameFlights DEF Cancel, Deadline, netVars
  <2> QED
    BY <1>0, <1>1, <2>1, <2>2 DEF Kept
<1> QED
  BY <1>2, <1>3, <1>4, <1>5, <1>6, <1>7, <1>8, <1>10, <1>11, <1>12

LEMMA KeptInvariant == Spec => []Kept
<1>1. Init => Kept
  BY RowsInit DEF Kept, RowsOK
<1>2. TypeOK /\ InTurn /\ Kept /\ [Next]_vars => Kept'
  <2> SUFFICES ASSUME TypeOK, InTurn, Kept, [Next]_vars PROVE Kept'
    OBVIOUS
  <2>1. CASE Next
    BY <2>1, CoroutineKeeps, ExecutorKeeps DEF Next
  <2>2. CASE UNCHANGED vars
    <3>1. /\ UNCHANGED <<phase, module, status, ctxVars>> /\ worker' = worker
          /\ UNCHANGED <<auditLog, fallback, lost, faults, torn>> /\ sent' = sent /\ cut' = cut
      BY <2>2 DEF vars, runVars, logVars, netVars
    <3>2. RowsOK' /\ Accounted' = Accounted
      BY <3>1, TypeParts, NothingWritten DEF Kept
    <3>3. Cardinality(InFlight') = Cardinality(InFlight)
      BY <3>1, SameFlights
    <3> QED
      BY <3>1, <3>2, <3>3, AuditCompleteIs, AuditCompleteNext DEF Kept
  <2> QED
    BY <2>1, <2>2
<1> QED
  BY <1>1, <1>2, TypeCorrect, InTurnInvariant, PTL DEF Spec

\* A module reported COMPLETED or SKIPPED has all the evidence it counted on
\* disk, whatever writes failed (flush before the status, _run_one_module).
THEOREM CompletedKeepsAllHolds == Spec => []CompletedKeepsAll
BY KeptInvariant, PTL DEF Kept, RowsOK

\* Every write that fails, or is cancelled half-way by a time limit, takes at
\* most one batch with it (_COMMIT_EVERY); nothing else takes any.
THEOREM LossBoundedHolds == Spec => []LossBounded
BY KeptInvariant, PTL DEF Kept, RowsOK

\* Every request sent or refused is in the audit log, its fallback, a batch that
\* was lost, or was cut off in flight (ReconHTTPClient._audit).
THEOREM AuditCompleteHolds == Spec => []AuditComplete
BY KeptInvariant, PTL DEF Kept
=============================================================================
