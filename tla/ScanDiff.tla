------------------------------ MODULE ScanDiff ------------------------------
(***************************************************************************)
(* scan_diff (recon/modules/active/scan_diff.py): what is new, gone or     *)
(* changed since the latest snapshot of the engagement.  The signatures    *)
(* come from evidence, which only grows: a signature is gone only for a    *)
(* run that read its own before another run, further on, left its snapshot *)
(* behind.  Each run writes its delta, its snapshot and one row of         *)
(* evidence per difference through a session that commits every DiffBatch  *)
(* rows.                                                                   *)
(***************************************************************************)
EXTENDS Integers, FiniteSets, Sequences

CONSTANTS Signatures,   \* <<identity, version>>: a host, or a service's port
          DiffRuns,     \* runs that reach scan_diff
          DiffBatch     \* _COMMIT_EVERY

ASSUME DiffAssumption == DiffBatch \in Nat \ {0}

VARIABLES found,      \* signatures of the evidence of the engagement
          differ,     \* where each run's scan_diff is
          snapshots,  \* committed snapshots, in the order of taken_at
          deltas,     \* committed deltas
          told        \* committed delta evidence: <<run, kind, identity>>

diffVars == <<found, differ, snapshots, deltas, told>>


\* A service that went and came with another version is one change, when
\* there is exactly one of each.
PairChanges(added, removed) ==
  LET same(k, S) == {s \in S : s[1] = k}
  IN  {k \in {s[1] : s \in Signatures} :
         Cardinality(same(k, added)) = 1 /\ Cardinality(same(k, removed)) = 1}

\* What is written for a snapshot `cur` over the base: each difference once.
Delta(r, base, cur) ==
  LET added   == cur \ snapshots[base].sigs
      removed == snapshots[base].sigs \ cur
      changed == PairChanges(added, removed)
  IN  [run |-> r, base |-> base, changed |-> changed,
       added |-> {s \in added : s[1] \notin changed},
       removed |-> {s \in removed : s[1] \notin changed},
       was |-> {s \in removed : s[1] \in changed},
       now |-> {s \in added : s[1] \in changed}]

Differences(d) ==
  {<<d.run, "added", s>> : s \in d.added} \union {<<d.run, "removed", s>> : s \in d.removed}
    \union {<<d.run, "changed", <<k, "-">> >> : k \in d.changed}

Unstarted == [at |-> "wait", cur |-> {}, base |-> 0, todo |-> {},
              since |-> 0, delta |-> {}, snap |-> FALSE, said |-> {}]

DiffInit ==
  /\ found = {} /\ snapshots = <<>> /\ deltas = {} /\ told = {}
  /\ differ = [r \in DiffRuns |-> Unstarted]

-----------------------------------------------------------------------------

Discover(s) == /\ s \notin found /\ found' = found \union {s}
               /\ UNCHANGED <<differ, snapshots, deltas, told>>

\* _build_signature_set
ReadSignatures(r) ==
  /\ differ[r].at = "wait"
  /\ differ' = [differ EXCEPT ![r].at = "base", ![r].cur = found]
  /\ UNCHANGED <<found, snapshots, deltas, told>>

\* latest_asset_snapshot; without one the run only leaves a baseline.
ReadBase(r) ==
  /\ differ[r].at = "base"
  /\ differ' = [differ EXCEPT ![r].base = Len(snapshots),
                              ![r].at = IF snapshots = <<>> THEN "snapshot" ELSE "delta"]
  /\ UNCHANGED <<found, snapshots, deltas, told>>

\* A commit makes what the session holds durable, all of it or nothing.
Committed(r, me) ==
  /\ deltas' = deltas \union me.delta
  /\ snapshots' = IF me.snap THEN Append(snapshots,
                              [run |-> r, base |-> me.base, sigs |-> me.cur])
                  ELSE snapshots
  /\ told' = told \union me.said

\* _tick after a write.
Write(r, new) ==
  /\ IF new.since + 1 >= DiffBatch
       THEN /\ Committed(r, new)
            /\ differ' = [differ EXCEPT ![r] =
                 [new EXCEPT !.since = 0, !.delta = {}, !.snap = FALSE, !.said = {}]]
       ELSE /\ differ' = [differ EXCEPT ![r] = [new EXCEPT !.since = @ + 1]]
            /\ UNCHANGED <<deltas, snapshots, told>>
  /\ UNCHANGED found

WriteDelta(r) ==
  /\ differ[r].at = "delta"
  /\ LET d == Delta(r, differ[r].base, differ[r].cur)
     IN  Write(r, [differ[r] EXCEPT !.at = "snapshot", !.delta = {d},
                                    !.todo = Differences(d)])

WriteSnapshot_Reread(r) ==
  /\ differ[r].at = "snapshot"
  /\ Write(r, [differ[r] EXCEPT !.at = "emit", !.snap = TRUE, !.cur = found])

WriteSnapshot(r) ==
  /\ differ[r].at = "snapshot"
  /\ Write(r, [differ[r] EXCEPT !.at = "emit", !.snap = TRUE])

\* _emit
Emit(r) ==
  /\ differ[r].at = "emit"
  /\ \E e \in differ[r].todo :
       Write(r, [differ[r] EXCEPT !.todo = @ \ {e}, !.said = @ \union {e}])

\* The module returns and its last rows are flushed.
DiffReturns(r) ==
  /\ differ[r].at = "emit" /\ differ[r].todo = {}
  /\ Committed(r, differ[r])
  /\ differ' = [differ EXCEPT ![r] = [Unstarted EXCEPT !.at = "completed"]]
  /\ UNCHANGED found

\* The module is stopped or raises between two writes: the handler flushes
\* what the session holds.
DiffFails(r) ==
  /\ differ[r].at \in {"base", "delta", "snapshot", "emit"}
  /\ Committed(r, differ[r])
  /\ differ' = [differ EXCEPT ![r] = [Unstarted EXCEPT !.at = "dead"]]
  /\ UNCHANGED found

\* The process dies, or a write fails and takes the batch along.
DiffDies(r) ==
  /\ differ[r].at \in {"base", "delta", "snapshot", "emit"}
  /\ differ' = [differ EXCEPT ![r] = [Unstarted EXCEPT !.at = "dead"]]
  /\ UNCHANGED <<found, snapshots, deltas, told>>

DiffNext ==
  \/ \E s \in Signatures : Discover(s)
  \/ \E r \in DiffRuns : \/ ReadSignatures(r) \/ ReadBase(r) \/ WriteDelta(r)
                         \/ WriteSnapshot(r) \/ Emit(r) \/ DiffReturns(r)
                         \/ DiffFails(r) \/ DiffDies(r)

DiffSpec == DiffInit /\ [][DiffNext]_diffVars

-----------------------------------------------------------------------------
(* Properties *)

DiffTypeOK ==
  /\ found \subseteq Signatures
  /\ \A r \in DiffRuns :
       /\ differ[r].at \in {"wait", "base", "delta", "snapshot", "emit", "completed", "dead"}
       /\ differ[r].cur \subseteq Signatures /\ differ[r].base \in 0..Len(snapshots)
       /\ differ[r].since \in 0..(DiffBatch - 1)
  /\ \A i \in DOMAIN snapshots : snapshots[i].sigs \subseteq Signatures
  /\ \A d \in deltas : d.base \in 1..Len(snapshots) /\ d.run \in DiffRuns

\* No asset slips from one baseline to the next unreported: every snapshot
\* but a first one has its delta beside it, and the delta leads from the
\* baseline it names to the snapshot - whatever two runs write in between,
\* and wherever a batch is committed or lost.  A run that completed has
\* evidence of every difference.
DeltaChain ==
  /\ \A i \in DOMAIN snapshots : snapshots[i].base # 0 =>
       \E d \in deltas :
         /\ d.run = snapshots[i].run /\ d.base = snapshots[i].base
         /\ snapshots[i].sigs =
              (snapshots[d.base].sigs \ (d.removed \union d.was)) \union d.added \union d.now
  /\ \A d \in deltas : differ[d.run].at = "completed" => Differences(d) \subseteq told
=============================================================================
