------------------------- MODULE RecordsProofs -------------------------
(***************************************************************************)
(* What the platform keeps in its database beside the scans and between    *)
(* them: the baselines and deltas of scan_diff, the asset graph of the     *)
(* correlations, the CVE index that refreshes write and cve_correlate      *)
(* reads, and the sessions of its users; for any number of runs, requests  *)
(* and users, any evidence, feeds and pages.                               *)
(***************************************************************************)
EXTENDS ScanDiff, Correlation, CveIndex, Accounts, FiniteSetTheorems, TLAPS

USE DiffAssumption

-----------------------------------------------------------------------------
(* scan_diff *)

DeltaRow == [run : DiffRuns, base : Nat, changed : SUBSET {s[1] : s \in Signatures},
             added : SUBSET Signatures, removed : SUBSET Signatures,
             was : SUBSET Signatures, now : SUBSET Signatures]
Claims == UNION {Differences(d) : d \in DeltaRow}
SnapshotRow == [run : DiffRuns, base : Nat, sigs : SUBSET Signatures]
DifferRow ==
  [at : {"wait", "base", "delta", "snapshot", "emit", "completed", "dead"},
   cur : SUBSET Signatures, base : Nat, since : 0..(DiffBatch - 1), snap : BOOLEAN,
   delta : SUBSET DeltaRow, todo : SUBSET Claims, said : SUBSET Claims]

DiffTyped ==
  /\ found \subseteq Signatures
  /\ differ \in [DiffRuns -> DifferRow]
  /\ snapshots \in Seq(SnapshotRow) /\ deltas \subseteq DeltaRow

\* The delta leads from the baseline it names to these signatures.
Leads(d, sigs) ==
  /\ d.base \in 1..Len(snapshots)
  /\ sigs = (snapshots[d.base].sigs \ (d.removed \union d.was)) \union d.added \union d.now

\* What run r has committed and what its session holds make up what its module
\* did so far: nothing before the delta; from then on the delta of the baseline
\* it read, and each difference either committed, held or still to be written.
Kept(r, me) ==
  LET mine == {d \in deltas \union me.delta : d.run = r}
  IN  /\ me.base \in 0..Len(snapshots) /\ \A d \in me.delta : d.run = r
      /\ me.snap => me.at = "emit"
      /\ me.at \notin {"snapshot", "emit"} => me.delta = {} /\ me.said = {}
      /\ me.at \in {"wait", "base", "delta"} => mine = {}
      /\ me.at = "delta" => me.base # 0
      /\ me.at \in {"snapshot", "emit"} =>
           /\ me.base # 0 => \E d \in mine : d.base = me.base /\ Leads(d, me.cur)
           /\ \A d \in mine : Differences(d) \subseteq told \union me.said \union me.todo
      /\ me.at = "completed" => \A d \in mine : Differences(d) \subseteq told

DiffInv ==
  /\ DiffTyped
  /\ \A d \in deltas : d.base \in 1..Len(snapshots)
  /\ \A r \in DiffRuns : Kept(r, differ[r])
  /\ \A r \in DiffRuns : \A d \in differ[r].delta : d.base \in 1..Len(snapshots)
  /\ \A i \in DOMAIN snapshots : snapshots[i].base # 0 =>
       \E d \in deltas : /\ d.run = snapshots[i].run /\ d.base = snapshots[i].base
                         /\ Leads(d, snapshots[i].sigs)

\* The written delta leads from the baseline to the snapshot: what is changed,
\* added and removed partitions what the two sets of signatures differ in.
LEMMA DeltaLeads ==
  ASSUME DiffTyped, NEW r \in DiffRuns, NEW base \in 1..Len(snapshots),
         NEW cur \in SUBSET Signatures
  PROVE  /\ Delta(r, base, cur) \in DeltaRow
         /\ Delta(r, base, cur).run = r /\ Delta(r, base, cur).base = base
         /\ Leads(Delta(r, base, cur), cur)
<1> DEFINE old == snapshots[base].sigs
           changed == PairChanges(cur \ old, old \ cur)
<1>1. old \subseteq Signatures /\ base \in Nat
  <2>1. snapshots \in Seq(SnapshotRow)
    BY DEF DiffTyped
  <2>2. snapshots[base] \in SnapshotRow /\ base \in Nat
    BY <2>1
  <2> QED
    BY <2>2 DEF SnapshotRow
<1>2. changed \subseteq {s[1] : s \in Signatures}
  BY DEF PairChanges
<1> HIDE DEF old, changed
<1>3. Delta(r, base, cur) =
        [run |-> r, base |-> base, changed |-> changed,
         added |-> {s \in cur \ old : s[1] \notin changed},
         removed |-> {s \in old \ cur : s[1] \notin changed},
         was |-> {s \in old \ cur : s[1] \in changed},
         now |-> {s \in cur \ old : s[1] \in changed}]
  BY DEF Delta, old, changed
<1>4. Delta(r, base, cur) \in DeltaRow
  BY <1>1, <1>2, <1>3 DEF DeltaRow
<1>5. Leads(Delta(r, base, cur), cur)
  BY <1>3 DEF Leads, old
<1> QED
  BY <1>3, <1>4, <1>5

\* Baselines are only ever added.
Grows == /\ Len(snapshots) <= Len(snapshots)' /\ Len(snapshots)' \in Nat
         /\ \A i \in 1..Len(snapshots) : snapshots'[i] = snapshots[i]

LEMMA LeadsStays ==
  ASSUME DiffTyped, Grows, NEW d, NEW sigs, Leads(d, sigs)
  PROVE  Leads(d, sigs)'
<1>1. Len(snapshots) \in Nat
  BY DEF DiffTyped
<1> QED
  BY <1>1 DEF Grows, Leads

\* What one run commits takes nothing from another.
LEMMA OthersKept ==
  ASSUME DiffInv, Grows, NEW r \in DiffRuns, NEW q \in DiffRuns \ {r},
         deltas \subseteq deltas', \A d \in deltas' \ deltas : d.run = r,
         told \subseteq told', differ'[q] = differ[q]
  PROVE  Kept(q, differ[q])'
<1> DEFINE me == differ[q]
           mine == {d \in deltas \union me.delta : d.run = q}
<1>1. Kept(q, me)
  BY DEF DiffInv
<1>2. mine = {d \in deltas' \union me.delta : d.run = q}
  OBVIOUS
<1>3. me.base \in 0..Len(snapshots)'
  <2>1. me.base \in 0..Len(snapshots)
    BY <1>1 DEF Kept
  <2>2. Len(snapshots) \in Nat
    BY DEF DiffInv, DiffTyped
  <2> QED
    BY <2>1, <2>2 DEF Grows
<1>4. ASSUME me.at \in {"snapshot", "emit"}
      PROVE  /\ me.base # 0 => \E d \in mine : d.base = me.base /\ Leads(d, me.cur)'
             /\ \A d \in mine : Differences(d) \subseteq told' \union me.said \union me.todo
  <2>1. \A d \in mine : Leads(d, me.cur) => Leads(d, me.cur)'
    BY LeadsStays DEF DiffInv
  <2> QED
    BY <1>1, <1>4, <2>1 DEF Kept
<1>5. me.at = "completed" => \A d \in mine : Differences(d) \subseteq told'
  BY <1>1 DEF Kept
<1>6. /\ \A d \in me.delta : d.run = q
      /\ me.snap => me.at = "emit"
      /\ me.at \notin {"snapshot", "emit"} => me.delta = {} /\ me.said = {}
      /\ me.at \in {"wait", "base", "delta"} => mine = {}
      /\ me.at = "delta" => me.base # 0
  BY <1>1 DEF Kept
<1> QED
  BY <1>2, <1>3, <1>4, <1>5, <1>6 DEF Kept

\* A commit leaves a delta beside every baseline it adds.
LEMMA CommitChains ==
  ASSUME DiffInv, NEW r \in DiffRuns, NEW me \in DifferRow, Kept(r, me),
         \A d \in me.delta : d.base \in 1..Len(snapshots), Committed(r, me)
  PROVE  /\ snapshots' \in Seq(SnapshotRow) /\ deltas' \subseteq DeltaRow /\ Grows
         /\ \A d \in deltas' : d.base \in 1..Len(snapshots)'
         /\ \A i \in DOMAIN snapshots' : snapshots'[i].base # 0 =>
              \E d \in deltas' : /\ d.run = snapshots'[i].run /\ d.base = snapshots'[i].base
                                 /\ Leads(d, snapshots[i].sigs)'
<1> DEFINE row == [run |-> r, base |-> me.base, sigs |-> me.cur]
<1>1. deltas' = deltas \union me.delta
  BY DEF Committed
<1>2. snapshots' = IF me.snap THEN Append(snapshots, row) ELSE snapshots
  BY DEF Committed
<1>3. row \in SnapshotRow /\ snapshots \in Seq(SnapshotRow)
  BY DEF SnapshotRow, DifferRow, DiffInv, DiffTyped
<1>4. row.run = r /\ row.base = me.base /\ row.sigs = me.cur
  OBVIOUS
<1>5. ASSUME me.snap
      PROVE  me.base # 0 => \E d \in deltas' : d.run = r /\ d.base = me.base /\ Leads(d, me.cur)
  BY <1>1, <1>5 DEF Kept
<1> HIDE DEF row
<1>6. snapshots' \in Seq(SnapshotRow)
  BY <1>2, <1>3
<1>7. Grows
  BY <1>2, <1>3 DEF Grows
<1>8. deltas' \subseteq DeltaRow
  BY <1>1 DEF DifferRow, DiffInv, DiffTyped
<1>9. \A d \in deltas' : d.base \in 1..Len(snapshots)'
  <2>1. \A d \in deltas' : d.base \in 1..Len(snapshots)
    BY <1>1 DEF DiffInv
  <2> QED
    BY <1>3, <1>7, <2>1 DEF Grows
<1>10. ASSUME NEW i \in DOMAIN snapshots', snapshots'[i].base # 0
       PROVE  \E d \in deltas' : /\ d.run = snapshots'[i].run /\ d.base = snapshots'[i].base
                                 /\ Leads(d, snapshots[i].sigs)'
  <2>1. CASE i \in DOMAIN snapshots
    <3>1. snapshots'[i] = snapshots[i]
      BY <1>3, <1>7, <2>1 DEF Grows
    <3>2. PICK d \in deltas : /\ d.run = snapshots[i].run /\ d.base = snapshots[i].base
                              /\ Leads(d, snapshots[i].sigs)
      BY <1>10, <2>1, <3>1 DEF DiffInv
    <3> QED
      BY <1>1, <1>7, <3>1, <3>2, LeadsStays DEF DiffInv
  <2>2. CASE i \notin DOMAIN snapshots
    <3>1. me.snap /\ snapshots'[i] = row
      BY <1>2, <1>3, <2>2
    <3>2. PICK d \in deltas' : d.run = r /\ d.base = me.base /\ Leads(d, me.cur)
      BY <1>4, <1>5, <1>10, <3>1
    <3> QED
      BY <1>4, <1>7, <3>1, <3>2, LeadsStays DEF DiffInv
  <2> QED
    BY <2>1, <2>2
<1> QED
  BY <1>6, <1>7, <1>8, <1>9, <1>10

\* A run that writes nothing: the others are as they were.
LEMMA StepKeeps ==
  ASSUME DiffInv, NEW r \in DiffRuns, NEW me \in DifferRow, me.delta = {}, Kept(r, me),
         differ' = [differ EXCEPT ![r] = me], UNCHANGED <<found, snapshots, deltas, told>>
  PROVE  DiffInv'
<1>1. DiffTyped'
  BY DEF DiffInv, DiffTyped
<1>2. Kept(r, differ[r])' /\ differ'[r] = me
  <2>1. differ'[r] = me
    BY DEF DiffInv, DiffTyped
  <2> QED
    BY <2>1 DEF Kept, Leads
<1>3. ASSUME NEW q \in DiffRuns \ {r} PROVE Kept(q, differ[q])' /\ differ'[q] = differ[q]
  <2>1. differ'[q] = differ[q]
    BY DEF DiffInv, DiffTyped
  <2>2. Kept(q, differ[q])
    BY DEF DiffInv
  <2> QED
    BY <2>1, <2>2 DEF Kept, Leads
<1>4. /\ \A d \in deltas' : d.base \in 1..Len(snapshots)'
      /\ \A i \in DOMAIN snapshots' : snapshots'[i].base # 0 =>
           \E d \in deltas' : /\ d.run = snapshots'[i].run /\ d.base = snapshots'[i].base
                              /\ Leads(d, snapshots[i].sigs)'
  BY DEF DiffInv, Leads
<1>5. \A q \in DiffRuns : \A d \in differ'[q].delta : d.base \in 1..Len(snapshots)'
  BY <1>2, <1>3 DEF DiffInv
<1> QED
  BY <1>1, <1>2, <1>3, <1>4, <1>5 DEF DiffInv

\* The session of run r is committed, and it goes on with nothing held.
LEMMA CommitKeeps ==
  ASSUME DiffInv, NEW r \in DiffRuns, NEW me \in DifferRow, Kept(r, me),
         \A d \in me.delta : d.base \in 1..Len(snapshots), Committed(r, me),
         NEW rest \in DifferRow, differ' = [differ EXCEPT ![r] = rest], UNCHANGED found,
         rest.delta = {}, rest.said = {}, ~rest.snap,
         \/ /\ rest.at = me.at /\ rest.cur = me.cur /\ rest.base = me.base /\ rest.todo = me.todo
            /\ me.at \in {"snapshot", "emit"}
         \/ rest.at = "completed" /\ rest.base = 0 /\ me.todo = {} /\ me.at = "emit"
         \/ rest.at = "dead" /\ rest.base = 0
  PROVE  DiffInv'
<1>1. /\ deltas' = deltas \union me.delta /\ told' = told \union me.said
  BY DEF Committed
<1>2. /\ snapshots' \in Seq(SnapshotRow) /\ deltas' \subseteq DeltaRow /\ Grows
      /\ \A d \in deltas' : d.base \in 1..Len(snapshots)'
      /\ \A i \in DOMAIN snapshots' : snapshots'[i].base # 0 =>
           \E d \in deltas' : /\ d.run = snapshots'[i].run /\ d.base = snapshots'[i].base
                              /\ Leads(d, snapshots[i].sigs)'
  BY CommitChains
<1>3. DiffTyped'
  BY <1>2 DEF DiffInv, DiffTyped
<1>4. differ'[r] = rest /\ \A q \in DiffRuns \ {r} : differ'[q] = differ[q]
  BY DEF DiffInv, DiffTyped
<1>5. ASSUME NEW q \in DiffRuns \ {r} PROVE Kept(q, differ[q])'
  <2>1. /\ deltas \subseteq deltas' /\ told \subseteq told' /\ differ'[q] = differ[q]
        /\ \A d \in deltas' \ deltas : d.run = r
    BY <1>1, <1>4 DEF Kept
  <2> QED
    BY <1>2, <2>1, OthersKept
<1>6. Kept(r, differ[r])'
  <2> DEFINE mine == {d \in deltas \union me.delta : d.run = r}
  <2>1. mine = {d \in deltas' \union rest.delta : d.run = r}
    BY <1>1
  <2>2. me.at \in {"snapshot", "emit"} =>
          \A d \in mine : Differences(d) \subseteq told \union me.said \union me.todo
    BY DEF Kept
  <2>3. rest.base \in 0..Len(snapshots)'
    <3>1. me.base \in 0..Len(snapshots) /\ Len(snapshots) \in Nat
      BY DEF Kept, DiffInv, DiffTyped
    <3> QED
      BY <1>2, <3>1 DEF Grows
  <2>4. CASE rest.at = "completed" /\ me.todo = {} /\ me.at = "emit"
    <3>1. \A d \in mine : Differences(d) \subseteq told'
      BY <1>1, <2>2, <2>4
    <3> QED
      BY <1>4, <2>1, <2>3, <2>4, <3>1 DEF Kept
  <2>5. CASE rest.at = me.at /\ rest.cur = me.cur /\ rest.base = me.base /\ rest.todo = me.todo
             /\ me.at \in {"snapshot", "emit"}
    <3>1. \A d \in mine : Differences(d) \subseteq told' \union rest.said \union rest.todo
      BY <1>1, <2>2, <2>5
    <3>2. me.base # 0 => \E d \in mine : d.base = me.base /\ Leads(d, me.cur)
      BY <2>5 DEF Kept
    <3>3. \A d \in mine : Leads(d, me.cur) => Leads(d, me.cur)'
      BY <1>2, LeadsStays DEF DiffInv
    <3> QED
      BY <1>4, <2>1, <2>3, <2>5, <3>1, <3>2, <3>3 DEF Kept
  <2>6. CASE rest.at = "dead"
    BY <1>4, <2>3, <2>6 DEF Kept
  <2> QED
    BY <2>4, <2>5, <2>6
<1>7. \A q \in DiffRuns : \A d \in differ'[q].delta : d.base \in 1..Len(snapshots)'
  <2>1. \A q \in DiffRuns : \A d \in differ[q].delta : d.base \in 1..Len(snapshots)
    BY DEF DiffInv
  <2>2. Len(snapshots) \in Nat
    BY DEF DiffInv, DiffTyped
  <2> QED
    BY <1>2, <1>4, <2>1, <2>2 DEF Grows
<1> QED
  BY <1>2, <1>3, <1>4, <1>5, <1>6, <1>7 DEF DiffInv

\* A write keeps what the runs hold, whether it fills the batch or not.
LEMMA WriteKeeps ==
  ASSUME DiffInv, NEW r \in DiffRuns, NEW new \in DifferRow, Kept(r, new),
         \A d \in new.delta : d.base \in 1..Len(snapshots), Write(r, new),
         new.at \in {"snapshot", "emit"}
  PROVE  DiffInv'
<1>1. CASE new.since + 1 >= DiffBatch
  <2> DEFINE rest == [new EXCEPT !.since = 0, !.delta = {}, !.snap = FALSE, !.said = {}]
  <2>1. rest \in DifferRow
    <3>1. 0 \in 0..(DiffBatch - 1)
      OBVIOUS
    <3> QED
      BY <3>1 DEF DifferRow
  <2>2. /\ rest.delta = {} /\ rest.said = {} /\ ~rest.snap /\ rest.at = new.at
        /\ rest.cur = new.cur /\ rest.base = new.base /\ rest.todo = new.todo
    BY DEF DifferRow
  <2>3. Committed(r, new) /\ differ' = [differ EXCEPT ![r] = rest] /\ UNCHANGED found
    BY <1>1 DEF Write
  <2> HIDE DEF rest
  <2> QED
    BY <2>1, <2>2, <2>3, CommitKeeps
<1>2. CASE ~(new.since + 1 >= DiffBatch)
  <2> DEFINE held == [new EXCEPT !.since = @ + 1]
  <2>1. held \in DifferRow
    BY <1>2 DEF DifferRow
  <2>2. /\ held.delta = new.delta /\ held.said = new.said /\ held.snap = new.snap
        /\ held.at = new.at /\ held.cur = new.cur /\ held.base = new.base
        /\ held.todo = new.todo
    BY DEF DifferRow
  <2>3. differ' = [differ EXCEPT ![r] = held] /\ UNCHANGED <<found, snapshots, deltas, told>>
    BY <1>2 DEF Write
  <2> HIDE DEF held
  <2>4. DiffTyped'
    BY <2>1, <2>3 DEF DiffInv, DiffTyped
  <2>5. differ'[r] = held /\ \A q \in DiffRuns \ {r} : differ'[q] = differ[q]
    BY <2>3 DEF DiffInv, DiffTyped
  <2>6. Kept(r, differ[r])'
    BY <2>2, <2>3, <2>5 DEF Kept, Leads
  <2>7. ASSUME NEW q \in DiffRuns \ {r} PROVE Kept(q, differ[q])'
    <3>1. Kept(q, differ[q])
      BY DEF DiffInv
    <3> QED
      BY <2>3, <2>5, <3>1 DEF Kept, Leads
  <2>8. /\ \A d \in deltas' : d.base \in 1..Len(snapshots)'
        /\ \A i \in DOMAIN snapshots' : snapshots'[i].base # 0 =>
             \E d \in deltas' : /\ d.run = snapshots'[i].run /\ d.base = snapshots'[i].base
                                /\ Leads(d, snapshots[i].sigs)'
    BY <2>3 DEF DiffInv, Leads
  <2>9. \A q \in DiffRuns : \A d \in differ'[q].delta : d.base \in 1..Len(snapshots)'
    BY <2>2, <2>3, <2>5 DEF DiffInv
  <2> QED
    BY <2>3, <2>4, <2>5, <2>6, <2>7, <2>8, <2>9 DEF DiffInv
<1> QED
  BY <1>1, <1>2

LEMMA UnstartedFits == Unstarted \in DifferRow /\ Unstarted.delta = {}
BY DEF Unstarted, DifferRow

LEMMA DiffInitHolds == DiffInit => DiffInv
<1> SUFFICES ASSUME DiffInit PROVE DiffInv
  OBVIOUS
<1>2. DiffTyped
  BY UnstartedFits DEF DiffInit, DiffTyped
<1>3. \A r \in DiffRuns : Kept(r, differ[r])
  BY DEF DiffInit, Kept, Unstarted
<1> QED
  BY <1>2, <1>3, UnstartedFits DEF DiffInit, DiffInv

LEMMA DiffNextHolds == DiffInv /\ [DiffNext]_diffVars => DiffInv'
<1> SUFFICES ASSUME DiffInv, [DiffNext]_diffVars PROVE DiffInv'
  OBVIOUS
<1>1. ASSUME NEW s \in Signatures, Discover(s) PROVE DiffInv'
  BY <1>1 DEF Discover, DiffInv, DiffTyped, Kept, Leads
<1>2. ASSUME NEW r \in DiffRuns, ReadSignatures(r) PROVE DiffInv'
  <2> DEFINE me == [differ[r] EXCEPT !.at = "base", !.cur = found]
  <2>1. differ[r] \in DifferRow /\ found \subseteq Signatures /\ Kept(r, differ[r])
    BY DEF DiffInv, DiffTyped
  <2>2. me \in DifferRow /\ me.delta = {} /\ Kept(r, me)
    BY <1>2, <2>1 DEF DifferRow, ReadSignatures, Kept
  <2>3. differ' = [differ EXCEPT ![r] = me] /\ UNCHANGED <<found, snapshots, deltas, told>>
    BY <1>2 DEF ReadSignatures
  <2> HIDE DEF me
  <2> QED
    BY <2>2, <2>3, StepKeeps
<1>3. ASSUME NEW r \in DiffRuns, ReadBase(r) PROVE DiffInv'
  <2> DEFINE me == [differ[r] EXCEPT !.base = Len(snapshots),
                                     !.at = IF snapshots = <<>> THEN "snapshot" ELSE "delta"]
  <2>1. differ[r] \in DifferRow /\ Len(snapshots) \in Nat /\ Kept(r, differ[r])
    BY DEF DiffInv, DiffTyped
  <2>2. snapshots = <<>> <=> Len(snapshots) = 0
    BY DEF DiffInv, DiffTyped
  <2>3. me \in DifferRow /\ me.delta = {} /\ Kept(r, me)
    <3>1. me \in DifferRow
      BY <2>1 DEF DifferRow
    <3>2. /\ me.base = Len(snapshots) /\ me.at = (IF snapshots = <<>> THEN "snapshot" ELSE "delta")
          /\ me.delta = differ[r].delta /\ me.said = differ[r].said
          /\ me.snap = differ[r].snap /\ me.todo = differ[r].todo
      BY <2>1 DEF DifferRow
    <3>3. differ[r].at = "base"
      BY <1>3 DEF ReadBase
    <3> HIDE DEF me
    <3> QED
      BY <2>1, <2>2, <3>1, <3>2, <3>3 DEF Kept
  <2>4. differ' = [differ EXCEPT ![r] = me] /\ UNCHANGED <<found, snapshots, deltas, told>>
    BY <1>3 DEF ReadBase
  <2> HIDE DEF me
  <2> QED
    BY <2>3, <2>4, StepKeeps
<1>4. ASSUME NEW r \in DiffRuns, WriteDelta(r) PROVE DiffInv'
  <2> DEFINE d   == Delta(r, differ[r].base, differ[r].cur)
             new == [differ[r] EXCEPT !.at = "snapshot", !.delta = {d}, !.todo = Differences(d)]
  <2>1. differ[r] \in DifferRow /\ Kept(r, differ[r]) /\ differ[r].at = "delta"
    BY <1>4 DEF DiffInv, DiffTyped, WriteDelta
  <2>2. differ[r].base \in 1..Len(snapshots) /\ differ[r].cur \in SUBSET Signatures
    <3>1. Len(snapshots) \in Nat
      BY DEF DiffInv, DiffTyped
    <3> QED
      BY <2>1, <3>1 DEF Kept, DifferRow
  <2>3. d \in DeltaRow /\ d.run = r /\ d.base = differ[r].base /\ Leads(d, differ[r].cur)
    BY <2>2, DeltaLeads DEF DiffInv
  <2>4. Write(r, new)
    BY <1>4 DEF WriteDelta
  <2> HIDE DEF d
  <2>5. new \in DifferRow
    BY <2>1, <2>3 DEF DifferRow, Claims
  <2>6. /\ new.at = "snapshot" /\ new.delta = {d} /\ new.todo = Differences(d)
        /\ new.base = differ[r].base /\ new.cur = differ[r].cur
        /\ new.said = differ[r].said /\ new.snap = differ[r].snap
    BY <2>1 DEF DifferRow
  <2> HIDE DEF new
  <2>7. {x \in deltas \union new.delta : x.run = r} = {d}
    BY <2>1, <2>3, <2>6 DEF Kept
  <2>8. Kept(r, new)
    BY <2>1, <2>3, <2>6, <2>7 DEF Kept
  <2>9. \A x \in new.delta : x.base \in 1..Len(snapshots)
    BY <2>2, <2>3, <2>6
  <2> QED
    BY <2>4, <2>5, <2>6, <2>8, <2>9, WriteKeeps
<1>5. ASSUME NEW r \in DiffRuns, WriteSnapshot(r) PROVE DiffInv'
  <2> DEFINE new == [differ[r] EXCEPT !.at = "emit", !.snap = TRUE]
  <2>1. differ[r] \in DifferRow /\ Kept(r, differ[r]) /\ differ[r].at = "snapshot"
    BY <1>5 DEF DiffInv, DiffTyped, WriteSnapshot
  <2>2. new \in DifferRow
    BY <2>1 DEF DifferRow
  <2>3. /\ new.at = "emit" /\ new.delta = differ[r].delta /\ new.todo = differ[r].todo
        /\ new.base = differ[r].base /\ new.cur = differ[r].cur
        /\ new.said = differ[r].said
    BY <2>1 DEF DifferRow
  <2>4. Write(r, new)
    BY <1>5 DEF WriteSnapshot
  <2> HIDE DEF new
  <2>5. Kept(r, new)
    BY <2>1, <2>3 DEF Kept
  <2>6. \A x \in new.delta : x.base \in 1..Len(snapshots)
    BY <2>3 DEF DiffInv
  <2> QED
    BY <2>2, <2>3, <2>4, <2>5, <2>6, WriteKeeps
<1>6. ASSUME NEW r \in DiffRuns, Emit(r) PROVE DiffInv'
  <2>1. differ[r] \in DifferRow /\ Kept(r, differ[r]) /\ differ[r].at = "emit"
    BY <1>6 DEF DiffInv, DiffTyped, Emit
  <2>2. PICK e \in differ[r].todo :
          Write(r, [differ[r] EXCEPT !.todo = @ \ {e}, !.said = @ \union {e}])
    BY <1>6 DEF Emit
  <2> DEFINE new == [differ[r] EXCEPT !.todo = @ \ {e}, !.said = @ \union {e}]
  <2>3. new \in DifferRow
    BY <2>1 DEF DifferRow
  <2>4. /\ new.at = "emit" /\ new.delta = differ[r].delta /\ new.todo = differ[r].todo \ {e}
        /\ new.base = differ[r].base /\ new.cur = differ[r].cur
        /\ new.said = differ[r].said \union {e}
    BY <2>1 DEF DifferRow
  <2>5. Write(r, new)
    BY <2>2
  <2> HIDE DEF new
  <2>6. told \union new.said \union new.todo = told \union differ[r].said \union differ[r].todo
    BY <2>2, <2>4
  <2>7. Kept(r, new)
    BY <2>1, <2>4, <2>6 DEF Kept
  <2>8. \A x \in new.delta : x.base \in 1..Len(snapshots)
    BY <2>4 DEF DiffInv
  <2> QED
    BY <2>3, <2>4, <2>5, <2>7, <2>8, WriteKeeps
<1>7. ASSUME NEW r \in DiffRuns, DiffReturns(r) PROVE DiffInv'
  <2> DEFINE rest == [Unstarted EXCEPT !.at = "completed"]
  <2>1. differ[r] \in DifferRow /\ Kept(r, differ[r]) /\ differ[r].at = "emit"
    BY <1>7 DEF DiffInv, DiffTyped, DiffReturns
  <2>2. rest \in DifferRow
    BY UnstartedFits DEF DifferRow
  <2>3. /\ rest.delta = {} /\ rest.said = {} /\ ~rest.snap
        /\ rest.at = "completed" /\ rest.base = 0
    BY DEF Unstarted
  <2>4. /\ Committed(r, differ[r]) /\ differ' = [differ EXCEPT ![r] = rest]
        /\ UNCHANGED found /\ differ[r].todo = {}
    BY <1>7 DEF DiffReturns
  <2>5. \A x \in differ[r].delta : x.base \in 1..Len(snapshots)
    BY DEF DiffInv
  <2> HIDE DEF rest
  <2> QED
    BY <2>1, <2>2, <2>3, <2>4, <2>5, CommitKeeps
<1>8. ASSUME NEW r \in DiffRuns, DiffDies(r) PROVE DiffInv'
  <2> DEFINE me == [Unstarted EXCEPT !.at = "dead"]
  <2>1. me \in DifferRow /\ me.delta = {}
    BY UnstartedFits DEF DifferRow
  <2>2. Kept(r, me)
    <3>1. Len(snapshots) \in Nat
      BY DEF DiffInv, DiffTyped
    <3> QED
      BY <3>1 DEF Unstarted, Kept
  <2>3. differ' = [differ EXCEPT ![r] = me] /\ UNCHANGED <<found, snapshots, deltas, told>>
    BY <1>8 DEF DiffDies
  <2> HIDE DEF me
  <2> QED
    BY <2>1, <2>2, <2>3, StepKeeps
<1>9. ASSUME NEW r \in DiffRuns, DiffFails(r) PROVE DiffInv'
  <2> DEFINE rest == [Unstarted EXCEPT !.at = "dead"]
  <2>1. differ[r] \in DifferRow /\ Kept(r, differ[r])
    BY DEF DiffInv, DiffTyped
  <2>2. rest \in DifferRow
    BY UnstartedFits DEF DifferRow
  <2>3. /\ rest.delta = {} /\ rest.said = {} /\ ~rest.snap
        /\ rest.at = "dead" /\ rest.base = 0
    BY DEF Unstarted
  <2>4. /\ Committed(r, differ[r]) /\ differ' = [differ EXCEPT ![r] = rest] /\ UNCHANGED found
    BY <1>9 DEF DiffFails
  <2>5. \A x \in differ[r].delta : x.base \in 1..Len(snapshots)
    BY DEF DiffInv
  <2> HIDE DEF rest
  <2> QED
    BY <2>1, <2>2, <2>3, <2>4, <2>5, CommitKeeps
<1>10. CASE UNCHANGED diffVars
  BY <1>10 DEF diffVars, DiffInv, DiffTyped, Kept, Leads
<1> QED
  BY <1>1, <1>2, <1>3, <1>4, <1>5, <1>6, <1>7, <1>8, <1>9, <1>10 DEF DiffNext

LEMMA DiffAlways == DiffSpec => []DiffInv
BY DiffInitHolds, DiffNextHolds, PTL DEF DiffSpec

\* The rows of scan_diff are what they should be: a baseline that a run or a
\* committed delta refers to is one that was committed, and a batch never
\* outgrows its size.
THEOREM DiffTypes == DiffSpec => []DiffTypeOK
<1>1. ASSUME DiffInv PROVE DiffTypeOK
  <2>1. \A i \in DOMAIN snapshots : snapshots[i] \in SnapshotRow
    BY <1>1 DEF DiffInv, DiffTyped
  <2>2. \A r \in DiffRuns : differ[r] \in DifferRow /\ differ[r].base \in 0..Len(snapshots)
    BY <1>1 DEF DiffInv, DiffTyped, Kept
  <2> QED
    BY <1>1, <2>1, <2>2 DEF DiffInv, DiffTyped, DiffTypeOK, DifferRow, SnapshotRow, DeltaRow
<1> QED
  BY <1>1, DiffAlways, PTL

\* No difference slips from one baseline to the next unreported, however many
\* runs read the same baseline, leave theirs in any order, commit in batches of
\* any size or die holding one; and a run that completed told each of its own.
THEOREM DeltasChain == DiffSpec => []DeltaChain
<1>1. ASSUME DiffInv PROVE DeltaChain
  <2>1. ASSUME NEW d \in deltas, differ[d.run].at = "completed"
        PROVE  Differences(d) \subseteq told
    <3>1. d.run \in DiffRuns
      BY <1>1 DEF DiffInv, DiffTyped, DeltaRow
    <3>2. Kept(d.run, differ[d.run])
      BY <1>1, <3>1 DEF DiffInv
    <3> QED
      BY <2>1, <3>2 DEF Kept
  <2> QED
    BY <1>1, <2>1 DEF DiffInv, Leads, DeltaChain
<1> QED
  BY <1>1, DiffAlways, PTL

-----------------------------------------------------------------------------
(* Correlation *)

ScoreRow == [conf : {30, 50, 75, 100}, interest : Ranks,
             scope : {"in_scope", "excluded", "n/a"}]


\* What the sources of the rows folded so far give an asset.
Earned(k) == Level(BySource({r \in known : k \in ToSet(KeysOf(r))}))

\* What a correlation has read: rows that stay, and scores that were no more than
\* earned then, so that they are not more now; the assets as they still are,
\* unless another correlation was committed since.
Reading(me) ==
  /\ me \in [at : {"idle", "read"}, rows : Seq(CorrRows), early : {me.early},
            first : {me.first}, raced : BOOLEAN]
  /\ me.at = "read" =>
       /\ ToSet(me.rows) \subseteq ToSet(evidence)
       /\ \A k \in DOMAIN me.early :
            /\ k \in DOMAIN assets
            /\ me.early[k] \in ScoreRow /\ me.early[k].conf <= Earned(k)
            /\ ~me.raced => me.early[k] = assets[k]

CorrTyped ==
  /\ evidence \in Seq(CorrRows) /\ Len(evidence) <= MaxEvidence
  /\ assets \in [DOMAIN assets -> ScoreRow]
  /\ correlator = [c \in Correlators |-> correlator[c]]
  /\ folded \in Seq(CorrRows) /\ ToSet(folded) \subseteq known
  /\ known \subseteq ToSet(evidence) /\ clean \in BOOLEAN

\* Relationships and evidence point to assets that are there.
Connected ==
  /\ \A g \in edges : g.from \in DOMAIN assets /\ g.to \in DOMAIN assets
  /\ DOMAIN attached = known /\ \A r \in known : attached[r] \in DOMAIN assets

\* An asset holds all that these rows say of it.
Covers(k, rows) ==
  LET new == Asset(k, rows, About(rows, k))
  IN  /\ k \in DOMAIN assets
      /\ assets[k].conf >= new.conf /\ assets[k].interest >= new.interest
      /\ assets[k].scope = new.scope

Settled == clean => /\ EdgesOf(folded) \subseteq edges
                    /\ \A k \in Touched(folded) : Covers(k, folded)

CorrInv ==
  /\ CorrTyped /\ Connected /\ Settled
  /\ \A k \in DOMAIN assets : assets[k].conf <= Earned(k)
  /\ \A c \in Correlators : Reading(correlator[c])

\* Percentages that sources give, and that more of them never lower.
LEMMA LevelValue == \A n \in Nat : Level(n) \in {30, 50, 75, 100}
BY DEF Level, Min

LEMMA LevelGrows == ASSUME NEW m \in Nat, NEW n \in Nat, m <= n PROVE Level(m) <= Level(n)
<1>1. \A i \in Nat : Level(i) = IF i = 0 THEN 30 ELSE IF i = 1 THEN 50 ELSE IF i = 2 THEN 75 ELSE 100
  BY DEF Level, Min
<1> QED
  BY <1>1

LEMMA LargerOf == ASSUME NEW a \in Int, NEW b \in Int PROVE Max({a, b}) = IF a >= b THEN a ELSE b
BY DEF Max

\* The rows of a sequence are finitely many.
LEMMA SeqFinite ==
  ASSUME NEW S, NEW rows \in Seq(S)
  PROVE  IsFiniteSet(ToSet(rows)) /\ ToSet(rows) \subseteq S
<1>1. Len(rows) \in Nat /\ DOMAIN rows = 1..Len(rows)
  OBVIOUS
<1>2. rows \in Surjection(DOMAIN rows, ToSet(rows))
  BY DEF Surjection, ToSet
<1>3. IsFiniteSet(DOMAIN rows)
  BY <1>1, FS_Interval
<1>4. IsFiniteSet(ToSet(rows))
  BY <1>2, <1>3, FS_Surjection
<1> QED
  BY <1>1, <1>4 DEF ToSet

\* More rows come from no fewer sources.
LEMMA SourcesCount ==
  ASSUME NEW T, IsFiniteSet(T), NEW S \in SUBSET T
  PROVE  /\ BySource(S) \in Nat /\ BySource(T) \in Nat /\ BySource(S) <= BySource(T)
         /\ Level(BySource(S)) \in {30, 50, 75, 100} /\ Level(BySource(S)) <= Level(BySource(T))
<1> DEFINE U == {r.source : r \in T}
           V == {r.source : r \in S}
<1>1. [r \in T |-> r.source] \in Surjection(T, U)
  BY DEF Surjection
<1>2. IsFiniteSet(U)
  BY <1>1, FS_Surjection
<1>3. V \in SUBSET U
  OBVIOUS
<1>4. IsFiniteSet(V) /\ Cardinality(V) <= Cardinality(U)
  BY <1>2, <1>3, FS_Subset
<1>5. Cardinality(V) \in Nat /\ Cardinality(U) \in Nat
  BY <1>2, <1>4, FS_CardinalityType
<1>6. BySource(S) = Cardinality(V) /\ BySource(T) = Cardinality(U)
  BY DEF BySource
<1> HIDE DEF U, V
<1> QED
  BY <1>4, <1>5, <1>6, LevelValue, LevelGrows

LEMMA TopRank == ASSUME NEW S \in SUBSET Ranks, S # {} PROVE Max(S) \in Ranks
<1>1. S \subseteq {0, 1, 2}
  BY DEF Ranks
<1>2. \E x \in S : \A y \in S : x >= y
  <2>1. CASE 2 \in S
    <3>1. \A y \in S : 2 >= y
      BY <1>1, <2>1
    <3> QED
      BY <2>1, <3>1
  <2>2. CASE 2 \notin S /\ 1 \in S
    <3>1. \A y \in S : y = 0 \/ y = 1
      BY <1>1, <2>2
    <3>2. \A y \in S : 1 >= y
      BY <3>1
    <3> QED
      BY <2>2, <3>2
  <2>3. CASE 2 \notin S /\ 1 \notin S
    <3>1. \A y \in S : y = 0
      BY <1>1, <2>3
    <3>2. 0 \in S /\ \A y \in S : 0 >= y
      BY <3>1
    <3> QED
      BY <3>2
  <2> QED
    BY <2>1, <2>2, <2>3
<1> QED
  BY <1>2 DEF Max

\* What a correlation makes of an asset.
LEMMA AssetTyped ==
  ASSUME NEW rows \in Seq(CorrRows), NEW k
  PROVE  /\ Asset(k, rows, About(rows, k)) \in ScoreRow
         /\ Asset(k, rows, About(rows, k)).conf = Level(BySource(About(rows, k)))
         /\ Asset(k, rows, About(rows, k)).scope = ScopeOf(k, rows)
<1> DEFINE rs == About(rows, k)
<1>1. IsFiniteSet(ToSet(rows)) /\ ToSet(rows) \subseteq CorrRows
  BY SeqFinite
<1>2. rs \subseteq ToSet(rows)
  BY DEF About
<1>3. Level(BySource(rs)) \in {30, 50, 75, 100}
  BY <1>1, <1>2, SourcesCount
<1>4. {r.interest : r \in rs} \subseteq Ranks
  BY <1>1, <1>2, CorrAssumption DEF CorrAssumption
<1>5. (IF k[1] = "finding" THEN 1 ELSE 0) \in Ranks
  BY DEF Ranks
<1>6. Interest(k, rs) \in Ranks
  <2> DEFINE S == {r.interest : r \in rs} \union {IF k[1] = "finding" THEN 1 ELSE 0}
  <2>1. S \in SUBSET Ranks /\ S # {}
    BY <1>4, <1>5
  <2>2. Interest(k, rs) = Max(S)
    BY DEF Interest
  <2> HIDE DEF S
  <2> QED
    BY <2>1, <2>2, TopRank
<1>7. ScopeOf(k, rows) \in {"in_scope", "excluded", "n/a"}
  BY DEF ScopeOf
<1> HIDE DEF rs
<1> QED
  BY <1>3, <1>6, <1>7 DEF Asset, Confidence, ScoreRow, rs

\* _upsert_asset makes nothing up, and the row that was read is merged into as it
\* still is: no score is lost, and merging twice is merging once.
LEMMA UpsertMerges ==
  ASSUME NEW now \in ScoreRow, NEW read \in ScoreRow, NEW new \in ScoreRow
  PROVE  /\ Upsert(now, read, new) \in ScoreRow
         /\ Upsert(now, read, new).conf \in {now.conf, read.conf, new.conf}
         /\ now = read =>
              /\ Upsert(now, read, new).conf >= new.conf
              /\ Upsert(now, read, new).interest >= new.interest
              /\ Upsert(now, read, new).scope = new.scope
              /\ (now.conf >= new.conf /\ now.interest >= new.interest /\ now.scope = new.scope)
                    => Upsert(now, read, new) = now
<1> DEFINE up == Upsert(now, read, new)
           conf == IF new.conf >= read.conf THEN new.conf ELSE read.conf
           rank == IF new.interest >= read.interest THEN new.interest ELSE read.interest
<1>1. Max({new.conf, read.conf}) = conf /\ Max({new.interest, read.interest}) = rank
  <2>1. {new.conf, read.conf, new.interest, read.interest} \subseteq Int
    BY DEF ScoreRow, Ranks
  <2> QED
    BY <2>1, LargerOf
<1>2. up = [conf |-> IF conf # read.conf THEN conf ELSE now.conf,
            interest |-> IF rank # read.interest THEN rank ELSE now.interest,
            scope |-> IF new.scope # read.scope THEN new.scope ELSE now.scope]
  BY <1>1 DEF Upsert, ScoreRow
<1> QED
  BY <1>2 DEF ScoreRow, Ranks

\* What the sources give only grows with the rows that were folded.
LEMMA EarnedGrows ==
  ASSUME NEW K, IsFiniteSet(K), NEW J \in SUBSET K, NEW k
  PROVE  LET of(S) == {r \in S : k \in ToSet(KeysOf(r))}
         IN  /\ Level(BySource(of(J))) \in Nat /\ Level(BySource(of(K))) \in Nat
             /\ Level(BySource(of(J))) <= Level(BySource(of(K)))
<1> DEFINE of(S) == {r \in S : k \in ToSet(KeysOf(r))}
<1>1. of(J) \in SUBSET of(K) /\ of(K) \in SUBSET K
  OBVIOUS
<1>2. IsFiniteSet(of(K))
  BY <1>1, FS_Subset
<1> HIDE DEF of
<1>3. /\ Level(BySource(of(J))) \in {30, 50, 75, 100}
      /\ Level(BySource(of(J))) <= Level(BySource(of(K)))
  BY <1>1, <1>2, SourcesCount
<1>4. Level(BySource(of(K))) \in {30, 50, 75, 100}
  BY <1>2, SourcesCount
<1> QED
  BY <1>3, <1>4 DEF of

\* A row that is inserted takes no other away.
LEMMA InsertKeeps ==
  ASSUME NEW S, NEW rows \in Seq(S), NEW r \in S, NEW i \in 1..(Len(rows) + 1)
  PROVE  /\ InsertAt(rows, i, r) \in Seq(S) /\ Len(InsertAt(rows, i, r)) = Len(rows) + 1
         /\ ToSet(rows) \subseteq ToSet(InsertAt(rows, i, r))
<1> DEFINE a == SubSeq(rows, 1, i - 1)
           b == SubSeq(rows, i, Len(rows))
           l == a \o <<r>>
<1>0. Len(rows) \in Nat /\ i \in Nat /\ i - 1 \in 0..Len(rows)
  OBVIOUS
<1>1. a \in Seq(S) /\ Len(a) = i - 1 /\ \A x \in 1..(i - 1) : a[x] = rows[x]
  BY <1>0
<1>2. b \in Seq(S) /\ Len(b) = (Len(rows) - i) + 1
      /\ \A x \in 1..((Len(rows) - i) + 1) : b[x] = rows[(i + x) - 1]
  BY <1>0
<1>3. InsertAt(rows, i, r) = l \o b
  BY DEF InsertAt
<1> HIDE DEF a, b
<1>4. l \in Seq(S) /\ Len(l) = i /\ \A x \in 1..(i - 1) : l[x] = rows[x]
  BY <1>0, <1>1
<1> HIDE DEF l
<1>5. l \o b \in Seq(S) /\ Len(l \o b) = Len(rows) + 1 /\ DOMAIN (l \o b) = 1..(Len(rows) + 1)
  <2>0. l \in Seq(S) /\ b \in Seq(S)
    BY <1>2, <1>4
  <2>1. l \o b \in Seq(S) /\ Len(l \o b) = Len(l) + Len(b)
    BY <2>0
  <2>2. i + ((Len(rows) - i) + 1) = Len(rows) + 1
    BY <1>0
  <2>3. Len(l \o b) = Len(rows) + 1
    BY <1>2, <1>4, <2>1, <2>2
  <2> QED
    BY <2>1, <2>3
<1>6. \A x \in 1..(i - 1) : (l \o b)[x] = rows[x]
  BY <1>0, <1>2, <1>4
<1>7. ASSUME NEW x \in i..Len(rows) PROVE (l \o b)[x + 1] = rows[x]
  <2>1. (x - i) + 1 \in 1..((Len(rows) - i) + 1) /\ (i + ((x - i) + 1)) - 1 = x
    BY <1>0
  <2>2. b[(x - i) + 1] = rows[x]
    BY <1>2, <2>1
  <2>3. (l \o b)[i + ((x - i) + 1)] = b[(x - i) + 1]
    BY <1>0, <1>2, <1>4, <2>1
  <2>4. i + ((x - i) + 1) = x + 1
    BY <1>0
  <2> QED
    BY <2>2, <2>3, <2>4
<1>8. ASSUME NEW x \in 1..Len(rows) PROVE rows[x] \in ToSet(l \o b)
  <2>1. CASE x < i
    <3>1. x \in 1..(i - 1) /\ x \in 1..(Len(rows) + 1)
      BY <1>0, <2>1
    <3> QED
      BY <1>5, <1>6, <3>1 DEF ToSet
  <2>2. CASE x >= i
    <3>1. x \in i..Len(rows) /\ x + 1 \in 1..(Len(rows) + 1)
      BY <1>0, <2>2
    <3>2. (l \o b)[x + 1] = rows[x] /\ x + 1 \in DOMAIN (l \o b)
      BY <1>5, <1>7, <3>1
    <3> QED
      BY <3>2 DEF ToSet
  <2> QED
    BY <1>0, <2>1, <2>2
<1>9. ToSet(rows) = {rows[x] : x \in 1..Len(rows)}
  BY DEF ToSet
<1> QED
  BY <1>3, <1>5, <1>8, <1>9

\* Every row is attached to something the correlation touched.
LEMMA AttachedTouched ==
  ASSUME NEW rows \in Seq(CorrRows), NEW r \in ToSet(rows)
  PROVE  AttachedTo(rows)[r] \in Touched(rows)
<1>1. r \in CorrRows
  BY SeqFinite
<1>2. CASE IsAttribute(r)
  BY <1>2 DEF AttachedTo, Touched, ParentsOf
<1>3. CASE ~IsAttribute(r)
  <2>1. r.subject \in {"subdomain", "a", "cname", "url", "weak"}
    BY <1>1, <1>3, CorrAssumption DEF CorrAssumption, RowSubjects, IsAttribute
  <2>2. Last(KeysOf(r)) \in ToSet(KeysOf(r))
    <3>1. \/ \E k : KeysOf(r) = <<k>>
          \/ \E k, l : KeysOf(r) = <<k, l>>
      BY <2>1 DEF KeysOf
    <3>2. \A k, l : Last(<<k>>) \in ToSet(<<k>>) /\ Last(<<k, l>>) \in ToSet(<<k, l>>)
      BY DEF Last, ToSet
    <3> QED
      BY <3>1, <3>2
  <2>3. AttachedTo(rows)[r] = Last(KeysOf(r))
    BY <1>3 DEF AttachedTo
  <2> QED
    BY <2>2, <2>3 DEF Touched, Groups
<1> QED
  BY <1>2, <1>3

\* One asset after a correlation of these rows: typed, no more than earned, and,
\* when nothing was committed since it was read, covering what the rows say.
LEMMA FoldScores ==
  ASSUME NEW rows \in Seq(CorrRows), NEW graph, NEW early,
         NEW k \in DOMAIN graph \union Touched(rows),
         NEW new, new = Asset(k, rows, About(rows, k)),
         NEW out, out = Fold(rows, graph, early)[k],
         k \in DOMAIN graph => graph[k] \in ScoreRow, DOMAIN early \subseteq DOMAIN graph,
         k \in DOMAIN early => early[k] \in ScoreRow
  PROVE  /\ out \in ScoreRow
         /\ \/ out.conf = new.conf
            \/ k \in DOMAIN graph /\ out.conf = graph[k].conf
            \/ k \in DOMAIN early /\ out.conf = early[k].conf
         /\ k \notin Touched(rows) => k \in DOMAIN graph /\ out = graph[k]
         /\ k \in Touched(rows) /\ (k \in DOMAIN early => early[k] = graph[k]) =>
              /\ out.conf >= new.conf /\ out.interest >= new.interest
              /\ out.scope = new.scope
         /\ /\ k \in Touched(rows) /\ k \in DOMAIN graph /\ k \notin DOMAIN early
            /\ graph[k].conf >= new.conf /\ graph[k].interest >= new.interest
            /\ graph[k].scope = new.scope
            => out = graph[k]
<1> DEFINE read == IF k \in DOMAIN early THEN early[k] ELSE graph[k]
<1>1. new \in ScoreRow
  BY AssetTyped
<1>2. out = IF k \notin Touched(rows) THEN graph[k]
            ELSE IF k \notin DOMAIN graph THEN new
            ELSE Upsert(graph[k], read, new)
  BY DEF Fold
<1>3. new.conf >= new.conf /\ new.interest >= new.interest
  BY <1>1 DEF ScoreRow, Ranks
<1>4. CASE k \notin Touched(rows)
  BY <1>2, <1>4
<1>5. CASE k \in Touched(rows) /\ k \notin DOMAIN graph
  BY <1>1, <1>2, <1>3, <1>5
<1>6. CASE k \in Touched(rows) /\ k \in DOMAIN graph
  <2>1. graph[k] \in ScoreRow /\ read \in ScoreRow
    BY <1>6
  <2>2. out = Upsert(graph[k], read, new)
    BY <1>2, <1>6
  <2>3. (k \in DOMAIN early => early[k] = graph[k]) => graph[k] = read
    OBVIOUS
  <2>4. read = graph[k] \/ (k \in DOMAIN early /\ read = early[k])
    OBVIOUS
  <2> HIDE DEF read
  <2>5. /\ out \in ScoreRow /\ out.conf \in {graph[k].conf, read.conf, new.conf}
        /\ graph[k] = read =>
             /\ out.conf >= new.conf /\ out.interest >= new.interest
             /\ out.scope = new.scope
             /\ (/\ graph[k].conf >= new.conf /\ graph[k].interest >= new.interest
                 /\ graph[k].scope = new.scope) => out = graph[k]
    BY <1>1, <2>1, <2>2, UpsertMerges
  <2> QED
    BY <1>6, <2>3, <2>4, <2>5
<1> QED
  BY <1>4, <1>5, <1>6

\* Evidence that is not touched says nothing of an asset.
LEMMA UntouchedUnknown ==
  ASSUME NEW rows, NEW k, k \notin Touched(rows)
  PROVE  {r \in ToSet(rows) : k \in ToSet(KeysOf(r))} = {}
BY DEF Touched, Groups

\* What was read stays true while the graph does.
LEMMA ReadingStays ==
  ASSUME NEW me, Reading(me), ToSet(evidence) \subseteq ToSet(evidence)',
         UNCHANGED <<assets, known>>
  PROVE  Reading(me)'
BY DEF Reading, Earned

LEMMA CorrInitHolds == CorrInit => CorrInv
<1> SUFFICES ASSUME CorrInit PROVE CorrInv
  OBVIOUS
<1>1. <<>> \in Seq(CorrRows) /\ Len(<<>>) = 0 /\ ToSet(<<>>) = {} /\ DOMAIN <<>> = {}
  BY DEF ToSet
<1>2. Touched(<<>>) = {} /\ EdgesOf(<<>>) = {}
  BY <1>1 DEF Touched, Groups, ParentsOf, Endpoints, EdgesOf, AllHints
<1>3. CorrTyped
  BY <1>1, CorrAssumption DEF CorrInit, CorrTyped, CorrAssumption
<1>4. Connected /\ Settled
  BY <1>1, <1>2 DEF CorrInit, Connected, Settled
<1>5. \A c \in Correlators : Reading(correlator[c])
  BY DEF CorrInit, NoReading, Reading
<1> QED
  BY <1>1, <1>3, <1>4, <1>5 DEF CorrInit, CorrInv

LEMMA AddRowKeeps ==
  ASSUME CorrInv, NEW r \in CorrRows, NEW i \in 1..MaxEvidence, AddRow(r, i)
  PROVE  CorrInv'
<1>1. /\ evidence' \in Seq(CorrRows) /\ Len(evidence') = Len(evidence) + 1
      /\ ToSet(evidence) \subseteq ToSet(evidence')
  BY InsertKeeps DEF AddRow, CorrInv, CorrTyped
<1>2. UNCHANGED <<assets, edges, attached, correlator, folded, known, clean>>
  BY DEF AddRow
<1>3. Len(evidence') <= MaxEvidence
  <2>1. Len(evidence) < MaxEvidence /\ Len(evidence) \in Nat
    BY DEF AddRow, CorrInv, CorrTyped
  <2> QED
    BY <1>1, <2>1, CorrAssumption DEF CorrAssumption
<1>4. CorrTyped'
  BY <1>1, <1>2, <1>3 DEF CorrInv, CorrTyped
<1>5. Connected' /\ Settled'
  BY <1>2 DEF CorrInv, Connected, Settled, Covers
<1>6. ASSUME NEW c \in Correlators PROVE Reading(correlator[c])'
  <2>1. PICK me : me = correlator[c]
    OBVIOUS
  <2>2. Reading(me) /\ correlator'[c] = me
    BY <1>2, <2>1 DEF CorrInv
  <2>3. Reading(me)'
    BY <1>1, <1>2, <2>2, ReadingStays
  <2> QED
    BY <2>2, <2>3
<1>7. \A k \in DOMAIN assets' : assets'[k].conf <= Earned(k)'
  BY <1>2 DEF CorrInv, Earned
<1> QED
  BY <1>4, <1>5, <1>6, <1>7 DEF CorrInv

\* A correlation that reads, or one that is given up: the graph is as it was.
LEMMA RereadKeeps ==
  ASSUME CorrInv, NEW c \in Correlators, NEW me, Reading(me),
         correlator' = [correlator EXCEPT ![c] = me],
         UNCHANGED <<evidence, assets, edges, attached, folded, known, clean>>
  PROVE  CorrInv'
<1>1. \A d \in Correlators : correlator'[d] = IF d = c THEN me ELSE correlator[d]
  BY DEF CorrInv, CorrTyped
<1>2. CorrTyped'
  <2>1. correlator' = [d \in Correlators |-> correlator'[d]]
    BY DEF CorrInv, CorrTyped
  <2> QED
    BY <2>1 DEF CorrInv, CorrTyped
<1>3. Connected' /\ Settled'
  BY DEF CorrInv, Connected, Settled, Covers
<1>4. ASSUME NEW d \in Correlators PROVE Reading(correlator[d])'
  <2>1. PICK you : you = correlator'[d]
    OBVIOUS
  <2>2. Reading(you)
    BY <1>1, <2>1 DEF CorrInv
  <2>3. Reading(you)'
    BY <2>2, ReadingStays
  <2> QED
    BY <2>1, <2>3
<1>5. \A k \in DOMAIN assets' : assets'[k].conf <= Earned(k)'
  BY DEF CorrInv, Earned
<1> QED
  BY <1>2, <1>3, <1>4, <1>5 DEF CorrInv

LEMMA BeginKeeps ==
  ASSUME CorrInv, NEW c \in Correlators, CorrBegin(c) PROVE CorrInv'
<1>1. PICK found_, first :
        /\ found_ \subseteq DOMAIN assets
        /\ correlator' = [correlator EXCEPT ![c] =
             [at |-> "read", rows |-> evidence, first |-> first, raced |-> FALSE,
              early |-> [k \in found_ |-> assets[k]]]]
  BY DEF CorrBegin
<1> DEFINE me == [at |-> "read", rows |-> evidence, first |-> first, raced |-> FALSE,
                  early |-> [k \in found_ |-> assets[k]]]
<1>2. Reading(me)
  <2>1. \A k \in found_ : k \in DOMAIN assets /\ assets[k] \in ScoreRow
                          /\ assets[k].conf <= Earned(k)
    BY <1>1 DEF CorrInv, CorrTyped
  <2> QED
    BY <2>1 DEF Reading, CorrInv, CorrTyped
<1>3. UNCHANGED <<evidence, assets, edges, attached, folded, known, clean>>
  BY DEF CorrBegin
<1> HIDE DEF me
<1> QED
  BY <1>1, <1>2, <1>3, RereadKeeps DEF me

LEMMA AbortKeeps ==
  ASSUME CorrInv, NEW c \in Correlators, CorrAbort(c) PROVE CorrInv'
<1>1. Reading(NoReading)
  BY DEF Reading, NoReading
<1> QED
  BY <1>1, RereadKeeps DEF CorrAbort

\* Only a commit changes the graph; every correlation that was reading is told.
LEMMA CommitCorrKeeps ==
  ASSUME CorrInv, NEW c \in Correlators, CorrCommit(c) PROVE CorrInv'
<1>0. PICK me, rows : me = correlator[c] /\ rows = me.rows
  OBVIOUS
<1>1. /\ Reading(me) /\ me.at = "read" /\ rows \in Seq(CorrRows)
      /\ ToSet(rows) \subseteq ToSet(evidence) /\ me.raced \in BOOLEAN
  <2>1. Reading(me) /\ me.at = "read"
    BY <1>0 DEF CorrInv, CorrCommit
  <2> QED
    BY <1>0, <2>1 DEF Reading
<1>2. /\ assets' = Fold(rows, assets, me.early) /\ edges' = edges \union EdgesOf(rows)
      /\ attached' = [r \in DOMAIN attached \union ToSet(rows) |->
                        IF r \in ToSet(rows) THEN AttachedTo(rows)[r] ELSE attached[r]]
      /\ folded' = rows /\ known' = known \union ToSet(rows) /\ clean' = ~me.raced
      /\ UNCHANGED evidence
  BY <1>0 DEF CorrCommit
<1>3. correlator' = [d \in Correlators |->
        IF d = c \/ correlator[d].at = "idle" THEN NoReading
        ELSE [correlator[d] EXCEPT !.raced = TRUE]]
  BY DEF CorrCommit
<1>4. /\ \A k \in DOMAIN me.early : /\ k \in DOMAIN assets /\ me.early[k] \in ScoreRow
                                    /\ me.early[k].conf <= Earned(k)
                                    /\ ~me.raced => me.early[k] = assets[k]
      /\ \A k \in DOMAIN assets : assets[k] \in ScoreRow /\ assets[k].conf <= Earned(k)
  BY <1>1 DEF Reading, CorrInv, CorrTyped
<1>5. DOMAIN assets' = DOMAIN assets \union Touched(rows)
  BY <1>2 DEF Fold
<1>6. IsFiniteSet(known') /\ known \subseteq known' /\ ToSet(rows) \subseteq known'
  <2>1. known' \subseteq ToSet(evidence) /\ IsFiniteSet(ToSet(evidence))
    BY <1>1, <1>2, SeqFinite DEF CorrInv, CorrTyped
  <2> QED
    BY <1>2, <2>1, FS_Subset
<1>7. ASSUME NEW k
      PROVE  Earned(k) \in Nat /\ Earned(k)' \in Nat /\ Earned(k) <= Earned(k)'
  BY <1>6, EarnedGrows DEF Earned
<1>8. ASSUME NEW k
      PROVE  /\ Level(BySource(About(rows, k))) \in Nat
             /\ Level(BySource(About(rows, k))) <= Earned(k)'
  BY <1>6, EarnedGrows DEF Earned, About
<1>9. ASSUME NEW k \in DOMAIN assets'
      PROVE  /\ assets'[k] \in ScoreRow /\ assets'[k].conf <= Earned(k)'
             /\ k \in Touched(rows) /\ ~me.raced => Covers(k, rows)'
  <2> DEFINE new == Asset(k, rows, About(rows, k))
             out == Fold(rows, assets, me.early)[k]
  <2>0. new = Asset(k, rows, About(rows, k)) /\ out = Fold(rows, assets, me.early)[k]
    OBVIOUS
  <2>1. assets'[k] = out /\ k \in DOMAIN assets \union Touched(rows)
    BY <1>2, <1>5
  <2>2. /\ out \in ScoreRow
        /\ \/ out.conf = new.conf
           \/ k \in DOMAIN assets /\ out.conf = assets[k].conf
           \/ k \in DOMAIN me.early /\ out.conf = me.early[k].conf
        /\ k \in Touched(rows) /\ (k \in DOMAIN me.early => me.early[k] = assets[k]) =>
             /\ out.conf >= new.conf /\ out.interest >= new.interest
             /\ out.scope = new.scope
    <3> HIDE DEF new, out
    <3>1. /\ rows \in Seq(CorrRows) /\ k \in DOMAIN assets \union Touched(rows)
          /\ DOMAIN me.early \subseteq DOMAIN assets
          /\ k \in DOMAIN assets => assets[k] \in ScoreRow
          /\ k \in DOMAIN me.early => me.early[k] \in ScoreRow
      BY <1>1, <1>4, <2>1
    <3> QED
      BY <2>0, <3>1, FoldScores
  <2>3. new.conf = Level(BySource(About(rows, k)))
    BY <1>1, AssetTyped
  <2> HIDE DEF new, out
  <2>4. out.conf <= Earned(k)'
    <3>1. CASE out.conf = new.conf
      BY <1>8, <2>3, <3>1
    <3>2. CASE k \in DOMAIN assets /\ out.conf = assets[k].conf
      <4>1. assets[k].conf <= Earned(k) /\ assets[k].conf \in Nat
        BY <1>4, <3>2 DEF ScoreRow
      <4> QED
        BY <1>7, <3>2, <4>1
    <3>3. CASE k \in DOMAIN me.early /\ out.conf = me.early[k].conf
      <4>1. me.early[k].conf <= Earned(k) /\ me.early[k].conf \in Nat
        BY <1>4, <3>3 DEF ScoreRow
      <4> QED
        BY <1>7, <3>3, <4>1
    <3> QED
      BY <2>2, <3>1, <3>2, <3>3
  <2>5. k \in Touched(rows) /\ ~me.raced => Covers(k, rows)'
    BY <1>4, <2>0, <2>1, <2>2 DEF Covers
  <2> QED
    BY <2>1, <2>2, <2>4, <2>5
<1>10. assets' \in [DOMAIN assets' -> ScoreRow]
  <2>1. assets' = [k \in DOMAIN assets' |-> assets'[k]]
    BY <1>2, <1>5 DEF Fold
  <2> QED
    BY <1>9, <2>1
<1>11. CorrTyped'
  <2>1. correlator' = [d \in Correlators |-> correlator'[d]]
    BY <1>3
  <2>2. clean' \in BOOLEAN
    BY <1>1, <1>2
  <2>3. /\ folded' \in Seq(CorrRows) /\ ToSet(folded') \subseteq known'
        /\ known' \subseteq ToSet(evidence)
    BY <1>1, <1>2 DEF CorrInv, CorrTyped
  <2> QED
    BY <1>2, <1>10, <2>1, <2>2, <2>3 DEF CorrInv, CorrTyped
<1>12. Connected'
  <2>1. \A g \in EdgesOf(rows) : {g.from, g.to} \subseteq Touched(rows)
    BY DEF EdgesOf, Touched, Endpoints
  <2>2. \A r \in ToSet(rows) : AttachedTo(rows)[r] \in Touched(rows)
    BY <1>1, AttachedTouched
  <2>3. DOMAIN attached = known /\ \A r \in known : attached[r] \in DOMAIN assets
    BY DEF CorrInv, Connected
  <2>4. \A g \in edges : g.from \in DOMAIN assets /\ g.to \in DOMAIN assets
    BY DEF CorrInv, Connected
  <2>5. DOMAIN attached' = known' /\ \A r \in known' : attached'[r] \in DOMAIN assets'
    BY <1>2, <1>5, <2>2, <2>3
  <2>6. \A g \in edges' : g.from \in DOMAIN assets' /\ g.to \in DOMAIN assets'
    BY <1>2, <1>5, <2>1, <2>4
  <2> QED
    BY <2>5, <2>6 DEF Connected
<1>13. Settled'
  BY <1>2, <1>5, <1>9 DEF Settled
<1>14. ASSUME NEW d \in Correlators PROVE Reading(correlator[d])'
  <2>1. CASE d = c \/ correlator[d].at = "idle"
    <3>1. correlator'[d] = NoReading
      BY <1>3, <2>1
    <3> QED
      BY <3>1 DEF Reading, NoReading
  <2>2. CASE ~(d = c \/ correlator[d].at = "idle")
    <3>1. PICK you : you = correlator[d]
      OBVIOUS
    <3>2. PICK out : out = [you EXCEPT !.raced = TRUE]
      OBVIOUS
    <3>3. correlator'[d] = out /\ Reading(you) /\ you.at = "read"
      <4>1. correlator'[d] = out /\ Reading(you)
        BY <1>3, <2>2, <3>1, <3>2 DEF CorrInv
      <4> QED
        BY <2>2, <3>1, <4>1 DEF Reading
    <3>4. /\ out \in [at : {"idle", "read"}, rows : Seq(CorrRows), early : {out.early},
                      first : {out.first}, raced : BOOLEAN]
          /\ out.at = "read" /\ out.rows = you.rows /\ out.early = you.early /\ out.raced
      BY <3>2, <3>3 DEF Reading
    <3>5. /\ ToSet(you.rows) \subseteq ToSet(evidence)
          /\ \A k \in DOMAIN you.early : /\ k \in DOMAIN assets /\ you.early[k] \in ScoreRow
                                         /\ you.early[k].conf <= Earned(k)
      BY <3>3 DEF Reading
    <3>6. ASSUME NEW k \in DOMAIN you.early
          PROVE  /\ k \in DOMAIN assets' /\ you.early[k] \in ScoreRow
                 /\ you.early[k].conf <= Earned(k)'
      <4>1. you.early[k].conf <= Earned(k) /\ you.early[k].conf \in Nat
        BY <3>5 DEF ScoreRow
      <4> QED
        BY <1>5, <1>7, <3>5, <4>1
    <3> QED
      BY <1>2, <3>3, <3>4, <3>5, <3>6 DEF Reading
  <2> QED
    BY <2>1, <2>2
<1> QED
  BY <1>9, <1>11, <1>12, <1>13, <1>14 DEF CorrInv

LEMMA CorrNextHolds == CorrInv /\ [CorrNext]_corrVars => CorrInv'
<1> SUFFICES ASSUME CorrInv, [CorrNext]_corrVars PROVE CorrInv'
  OBVIOUS
<1>1. CASE UNCHANGED corrVars
  BY <1>1 DEF corrVars, CorrInv, CorrTyped, Connected, Settled, Covers, Reading, Earned
<1> QED
  BY <1>1, AddRowKeeps, BeginKeeps, CommitCorrKeeps, AbortKeeps DEF CorrNext

LEMMA CorrAlways == CorrSpec => []CorrInv
BY CorrInitHolds, CorrNextHolds, PTL DEF CorrSpec

\* The graph is what it should be: scores of their ranges, relationships between
\* assets that are there, every folded row attached to one.
THEOREM CorrTypes == CorrSpec => []CorrTypeOK
<1>1. ASSUME CorrInv PROVE CorrTypeOK
  <2>1. ToSet(evidence) \subseteq CorrRows
    BY <1>1, SeqFinite DEF CorrInv, CorrTyped
  <2>2. \A k \in DOMAIN assets : assets[k] \in ScoreRow
    BY <1>1 DEF CorrInv, CorrTyped
  <2> QED
    BY <1>1, <2>1, <2>2 DEF CorrInv, CorrTyped, Connected, CorrTypeOK, ScoreRow
<1> QED
  BY <1>1, CorrAlways, PTL

\* Correlating once more changes nothing, whatever the evidence, after any
\* correlation that no other was committed beside.
THEOREM GraphsSettle == CorrSpec => []GraphSettles
<1>1. ASSUME CorrInv PROVE GraphSettles
  <2> SUFFICES ASSUME clean
               PROVE  Fold(folded, assets, <<>>) = assets /\ EdgesOf(folded) \subseteq edges
    BY DEF GraphSettles
  <2>1. /\ folded \in Seq(CorrRows) /\ assets \in [DOMAIN assets -> ScoreRow]
        /\ \A k \in Touched(folded) : Covers(k, folded)
        /\ EdgesOf(folded) \subseteq edges
    BY <1>1 DEF CorrInv, CorrTyped, Settled
  <2>2. DOMAIN assets \union Touched(folded) = DOMAIN assets
    BY <2>1 DEF Covers
  <2>3. DOMAIN <<>> = {}
    OBVIOUS
  <2>4. ASSUME NEW k \in DOMAIN assets PROVE Fold(folded, assets, <<>>)[k] = assets[k]
    <3>1. PICK new, out : /\ new = Asset(k, folded, About(folded, k))
                          /\ out = Fold(folded, assets, <<>>)[k]
      OBVIOUS
    <3>2. /\ k \notin Touched(folded) => out = assets[k]
          /\ /\ k \in Touched(folded) /\ k \in DOMAIN assets /\ k \notin DOMAIN <<>>
             /\ assets[k].conf >= new.conf /\ assets[k].interest >= new.interest
             /\ assets[k].scope = new.scope
             => out = assets[k]
      <4>1. /\ k \in DOMAIN assets \union Touched(folded) /\ assets[k] \in ScoreRow
            /\ DOMAIN <<>> \subseteq DOMAIN assets
        BY <2>1, <2>3
      <4> QED
        BY <2>1, <2>3, <3>1, <4>1, FoldScores
    <3>3. k \in Touched(folded) => /\ assets[k].conf >= new.conf
                                   /\ assets[k].interest >= new.interest
                                   /\ assets[k].scope = new.scope
      BY <2>1, <3>1 DEF Covers
    <3> QED
      BY <2>3, <3>1, <3>2, <3>3
  <2>5. Fold(folded, assets, <<>>) = [k \in DOMAIN assets |-> Fold(folded, assets, <<>>)[k]]
    BY <2>2 DEF Fold
  <2> QED
    BY <2>1, <2>4, <2>5
<1> QED
  BY <1>1, CorrAlways, PTL

\* No asset is ever worth more than its distinct sources, and it is worth all of
\* them once one correlation of everything ran alone, for any number of runs
\* that correlate beside each other and any evidence between them.
THEOREM ConfidenceIsEarned == CorrSpec => []ConfidenceEarned
<1>1. ASSUME CorrInv PROVE ConfidenceEarned
  <2> SUFFICES ASSUME NEW k \in DOMAIN assets
               PROVE  /\ assets[k].conf <= Earned(k)
                      /\ clean /\ ToSet(folded) = known => assets[k].conf = Earned(k)
    BY DEF ConfidenceEarned, Earned
  <2>1. assets[k].conf <= Earned(k) /\ assets[k] \in ScoreRow
    BY <1>1 DEF CorrInv, CorrTyped
  <2>2. IsFiniteSet(known)
    <3>1. known \subseteq ToSet(evidence) /\ IsFiniteSet(ToSet(evidence))
      BY <1>1, SeqFinite DEF CorrInv, CorrTyped
    <3> QED
      BY <3>1, FS_Subset
  <2>3. Earned(k) \in Nat
    BY <2>2, EarnedGrows DEF Earned
  <2>4. ASSUME clean, ToSet(folded) = known PROVE assets[k].conf >= Earned(k)
    <3>1. CASE k \in Touched(folded)
      <4>1. Covers(k, folded) /\ folded \in Seq(CorrRows)
        BY <1>1, <2>4, <3>1 DEF CorrInv, CorrTyped, Settled
      <4>2. About(folded, k) = {r \in known : k \in ToSet(KeysOf(r))}
        BY <2>4 DEF About
      <4>3. Asset(k, folded, About(folded, k)).conf = Earned(k)
        BY <4>1, <4>2, AssetTyped DEF Earned
      <4> QED
        BY <4>1, <4>3 DEF Covers
    <3>2. CASE k \notin Touched(folded)
      <4>1. {r \in known : k \in ToSet(KeysOf(r))} = {}
        BY <2>4, <3>2, UntouchedUnknown
      <4>2. BySource({}) = 0
        BY FS_EmptySet DEF BySource
      <4>3. Earned(k) = 30
        BY <4>1, <4>2 DEF Earned, Level
      <4> QED
        BY <2>1, <4>3 DEF ScoreRow
    <3> QED
      BY <3>1, <3>2
  <2>5. assets[k].conf \in Nat
    BY <2>1 DEF ScoreRow
  <2> QED
    BY <2>1, <2>3, <2>4, <2>5
<1> QED
  BY <1>1, CorrAlways, PTL

\* A host known to resolve into an excluded network is out of scope under every
\* identity, whichever of its rows came first.
THEOREM ExcludedStays == CorrSpec => []ExcludedNotOffered
<1>1. ASSUME CorrInv PROVE ExcludedNotOffered
  <2> SUFFICES ASSUME clean, ToSet(folded) = known,
                      NEW r \in known, r.subject = "a", r.to \in ExcludedIps,
                      NEW k \in Groups(folded), k[2] = r.host, k[1] \notin {"finding", "ip"}
               PROVE  assets[k].scope = "excluded"
    BY DEF ExcludedNotOffered
  <2>1. Covers(k, folded) /\ folded \in Seq(CorrRows)
    BY <1>1 DEF CorrInv, CorrTyped, Settled, Touched
  <2>2. assets[k].scope = ScopeOf(k, folded)
    BY <2>1, AssetTyped DEF Covers
  <2> DEFINE hint == [from |-> HostKey(r.host), rel |-> "resolves_to", to |-> <<"ip", r.to>>]
  <2>3. hint \in AllHints(folded)
    BY DEF AllHints, HintsOf
  <2>4. hint.rel = "resolves_to" /\ hint.to[1] = "ip" /\ hint.from[2] = k[2] /\ hint.to[2] = r.to
    BY DEF HostKey
  <2> HIDE DEF hint
  <2>5. r.to \in {h.to[2] : h \in {g \in AllHints(folded) :
                     g.rel = "resolves_to" /\ g.to[1] = "ip" /\ g.from[2] = k[2]}}
    BY <2>3, <2>4
  <2> QED
    BY <2>2, <2>5 DEF ScopeOf
<1> QED
  BY <1>1, CorrAlways, PTL

-----------------------------------------------------------------------------
(* The CVE index *)

Rec == [cpes : BOOLEAN, kev : BOOLEAN]
Records == UNION {[S -> Rec] : S \in SUBSET Cves}
JobRow == [at : {"idle", "nvd", "merge", "flush"}, kev : SUBSET Cves,
           passes : {<<>>, <<"all">>, High, <<"CRITICAL">>}, start : 0..Len(Catalogue),
           got : SUBSET Cves, loaded : Records, clean : BOOLEAN]

\* The first n that a pass lists, and all of them.
Upto(band, n) == {Catalogue[i] : i \in {j \in Listing(band) : Place(band, j) <= n}}
Whole(band)   == {Catalogue[i] : i \in Listing(band)}

\* What a refresh that nothing disturbed has fetched so far is what the feeds
\* hold, and what it looked up is what the index holds.
Fetched(j) ==
  /\ j.at = "flush" => DOMAIN j.loaded \subseteq DOMAIN index
  /\ j.clean /\ j.at # "idle" =>
       /\ j.kev = feed.kev
       /\ j.passes = <<"all">> => Upto("all", j.start) \subseteq j.got
       /\ j.passes = High => Upto("HIGH", j.start) \subseteq j.got
       /\ j.passes = <<"CRITICAL">> => Whole("HIGH") \union Upto("CRITICAL", j.start) \subseteq j.got
       /\ j.passes = <<>> => ListedBy("local") \subseteq j.got
       /\ j.at = "flush" => j.loaded = Restrict(index, DOMAIN index \intersect DOMAIN RecordsOf(j))

\* The index that a correlation takes to be sound has what the NVD rates high,
\* and so has the copy that the correlation loaded.
Rated(records) == \A c \in ListedBy("local") : c \in DOMAIN records /\ records[c].cpes

ToldOf(c, s) == \/ <<c, s.at>> \in match.told
                \/ Cardinality({t \in match.told : t[2] = s.at}) >= TopN

MatchInv ==
  /\ match \in [at : {"links", "match", "osv"}, index : Records,
                todo : SUBSET (Services \union Libraries), told : {match.told}, sound : BOOLEAN]
  /\ IsFiniteSet(match.told)
  /\ match.sound =>
       /\ match.at # "links" /\ Rated(match.index)
       /\ \A c \in ListedBy("local"), s \in Services :
            Affected(c, s) /\ (match.at = "osv" \/ s \notin match.todo) => ToldOf(c, s)

CveInv ==
  /\ feed \in Feeds /\ begun \in 0..MaxBegun /\ fresh \in BOOLEAN
  /\ index \in Records /\ job \in [Refreshers -> JobRow]
  /\ \A r \in Refreshers : /\ Fetched(job[r])
                           /\ job[r].at = "nvd" <=> job[r].passes # <<>>
  /\ fresh => /\ Rated(index)
              /\ \A c \in feed.kev \union ListedBy("local") :
                   c \in DOMAIN index /\ index[c].kev = (c \in feed.kev)
  /\ MatchInv

LEMMA CatalogueIs == /\ Catalogue \in Seq(Cves) /\ IsFiniteSet(Cves) /\ Len(Catalogue) \in Nat
                     /\ Cves = {Catalogue[i] : i \in 1..Len(Catalogue)}
<1>1. Catalogue \in Seq(Cves)
  BY CveAssumption DEF CveAssumption
<1>2. Len(Catalogue) \in Nat /\ DOMAIN Catalogue = 1..Len(Catalogue)
  BY <1>1
<1>3. Cves = {Catalogue[i] : i \in 1..Len(Catalogue)}
  BY <1>2 DEF Cves, ToSet
<1>4. Catalogue \in Surjection(1..Len(Catalogue), Cves)
  BY <1>1, <1>2, <1>3 DEF Surjection
<1>5. IsFiniteSet(Cves)
  BY <1>2, <1>4, FS_Interval, FS_Surjection
<1> QED
  BY <1>1, <1>2, <1>3, <1>5

\* The places of what is listed count up to the total.
LEMMA Places ==
  ASSUME NEW band
  PROVE  /\ Total(band) \in 0..Len(Catalogue)
         /\ \A i \in Listing(band) : Place(band, i) \in 1..Total(band)
<1> DEFINE L == Listing(band)
<1>1. L \in SUBSET (1..Len(Catalogue)) /\ Len(Catalogue) \in Nat
  BY CatalogueIs DEF Listing
<1>2. IsFiniteSet(1..Len(Catalogue)) /\ Cardinality(1..Len(Catalogue)) = Len(Catalogue)
  <2>1. 1 \in Int /\ Len(Catalogue) \in Int
    BY <1>1
  <2>2. /\ IsFiniteSet(1..Len(Catalogue))
        /\ Cardinality(1..Len(Catalogue)) = IF 1 > Len(Catalogue) THEN 0 ELSE (Len(Catalogue) - 1) + 1
    BY <2>1, FS_Interval
  <2> QED
    BY <1>1, <2>2
<1> HIDE DEF L
<1>3. IsFiniteSet(L) /\ Cardinality(L) <= Len(Catalogue) /\ Cardinality(L) \in Nat
  BY <1>1, <1>2, FS_Subset, FS_CardinalityType
<1>4. ASSUME NEW i \in L
      PROVE  Cardinality({h \in L : h <= i}) \in 1..Cardinality(L)
  <2> DEFINE P == {h \in L : h <= i}
  <2>1. P \in SUBSET L /\ i \in P
    BY <1>1, <1>4
  <2> HIDE DEF P
  <2>2. IsFiniteSet(P) /\ Cardinality(P) <= Cardinality(L) /\ Cardinality(P) \in Nat
    BY <1>3, <2>1, FS_Subset, FS_CardinalityType
  <2>3. Cardinality(P) # 0
    BY <2>1, <2>2, FS_EmptySet
  <2>4. Cardinality(P) \in 1..Cardinality(L)
    BY <1>3, <2>2, <2>3
  <2> QED
    BY <2>4 DEF P
<1> QED
  BY <1>1, <1>3, <1>4 DEF L, Total, Place

\* A page goes on where the pass stands, and a pass is over at the total.
LEMMA PageGoesOn ==
  ASSUME NEW band, NEW start \in Nat, NEW n \in Nat
  PROVE  /\ Upto(band, start + n) = Upto(band, start) \union Page(band, start, n)
         /\ Page(band, start, n) \subseteq Cves /\ Upto(band, 0) = {}
         /\ start >= Total(band) => Upto(band, start) = Whole(band)
<1>1. Total(band) \in Nat /\ \A i \in Listing(band) : Place(band, i) \in 1..Total(band)
  BY Places, CatalogueIs
<1>2. \A i \in Listing(band) : Place(band, i) \in Nat /\ Place(band, i) >= 1
  BY <1>1
<1>3. {j \in Listing(band) : Place(band, j) <= start + n}
        = {j \in Listing(band) : Place(band, j) <= start}
            \union {j \in Listing(band) : Place(band, j) \in start + 1 .. start + n}
  BY <1>2
<1>4. Upto(band, start + n) = Upto(band, start) \union Page(band, start, n)
  BY <1>3 DEF Upto, Page
<1>5. Page(band, start, n) \subseteq Cves
  BY CatalogueIs DEF Page, Listing
<1>6. Upto(band, 0) = {}
  BY <1>2 DEF Upto
<1>7. ASSUME start >= Total(band) PROVE Upto(band, start) = Whole(band)
  <2>1. \A i \in Listing(band) : Place(band, i) <= start
    BY <1>1, <1>7
  <2> QED
    BY <2>1 DEF Upto, Whole
<1> QED
  BY <1>4, <1>5, <1>6, <1>7

\* What the passes list is what the feeds hold.
LEMMA Lists ==
  /\ ListedBy("local") \subseteq Whole("all")
  /\ ListedBy("local") = Whole("HIGH") \union Whole("CRITICAL")
  /\ ListedBy("local") \subseteq Cves
<1>1. ToSet(High) = {"HIGH", "CRITICAL"}
  BY DEF High, ToSet
<1>2. ListedBy("local") = {c \in Cves : feed.band[c] \in {"HIGH", "CRITICAL"}}
  BY <1>1 DEF ListedBy
<1>3. \A i \in 1..Len(Catalogue) : Catalogue[i] \in Cves
  BY CatalogueIs
<1>4. \A c \in Cves : \E i \in 1..Len(Catalogue) : c = Catalogue[i]
  BY CatalogueIs
<1>5. DOMAIN Catalogue = 1..Len(Catalogue)
  BY CatalogueIs
<1> QED
  BY <1>2, <1>3, <1>4, <1>5 DEF Whole, Listing

\* Versions compare like words: never both ways.
LEMMA PrecedesOneWay ==
  ASSUME NEW v \in Seq(Nat), NEW w \in Seq(Nat), Precedes(v, w)
  PROVE  ~Precedes(w, v)
<1> DEFINE First(a, b, i) == /\ i \in 1..Len(a) /\ i <= Len(b) /\ a[i] < b[i]
                             /\ \A x \in 1..(i - 1) : a[x] = b[x]
           Short(a, b) == Len(a) < Len(b) /\ \A x \in 1..Len(a) : a[x] = b[x]
<1>1. ASSUME NEW a \in Seq(Nat), NEW b \in Seq(Nat), Precedes(a, b)
      PROVE  (\E i \in Nat : First(a, b, i)) \/ Short(a, b)
  <2>0. Len(a) \in Nat /\ Len(b) \in Nat
    OBVIOUS
  <2>1. ASSUME NEW i \in 1..Len(a), i <= Len(b), a[i] < b[i],
               SubSeq(a, 1, i - 1) = SubSeq(b, 1, i - 1)
        PROVE  \E h \in Nat : First(a, b, h)
    <3>1. \A x \in 1..(i - 1) : SubSeq(a, 1, i - 1)[x] = a[x] /\ SubSeq(b, 1, i - 1)[x] = b[x]
      BY <2>0, <2>1
    <3>2. \A x \in 1..(i - 1) : a[x] = b[x]
      BY <2>1, <3>1
    <3> QED
      BY <2>0, <2>1, <3>2
  <2>2. ASSUME Len(a) < Len(b), a = SubSeq(b, 1, Len(a)) PROVE Short(a, b)
    <3>1. \A x \in 1..Len(a) : SubSeq(b, 1, Len(a))[x] = b[x]
      BY <2>0, <2>2
    <3> QED
      BY <2>2, <3>1
  <2> HIDE DEF First, Short
  <2> QED
    BY <1>1, <2>1, <2>2 DEF Precedes
<1>2. /\ Len(v) \in Nat /\ \A x \in 1..Len(v) : v[x] \in Nat
      /\ Len(w) \in Nat /\ \A x \in 1..Len(w) : w[x] \in Nat
  OBVIOUS
<1>3. ASSUME NEW i \in Nat, NEW h \in Nat, First(v, w, i), First(w, v, h) PROVE FALSE
  <2>1. CASE i < h
    <3>1. i \in 1..(h - 1)
      BY <1>2, <1>3, <2>1
    <3> QED
      BY <1>2, <1>3, <3>1
  <2>2. CASE h < i
    <3>1. h \in 1..(i - 1)
      BY <1>2, <1>3, <2>2
    <3> QED
      BY <1>2, <1>3, <3>1
  <2>3. CASE h = i
    BY <1>2, <1>3, <2>3
  <2> QED
    BY <2>1, <2>2, <2>3
<1>4. ASSUME NEW i \in Nat, NEW a \in Seq(Nat), NEW b \in Seq(Nat), First(a, b, i), Short(b, a)
      PROVE  FALSE
  <2>1. i \in 1..Len(b) /\ a[i] \in Nat /\ b[i] \in Nat
    BY <1>4
  <2> QED
    BY <1>4, <2>1
<1>5. ~(Short(v, w) /\ Short(w, v))
  BY <1>2
<1> HIDE DEF First, Short
<1> QED
  BY <1>1, <1>3, <1>4, <1>5

\* What the NVD says is affected is matched by the index, ends or no ends.
LEMMA AffectedMatches ==
  ASSUME NEW c \in Cves, NEW s \in Services, Affected(c, s), NEW rec, rec.cpes
  PROVE  Matches(rec, c, s)
<1>1. PICK cpe \in CpeOf[c] :
        /\ cpe.product = s.product
        /\ \/ cpe.from = << >> \/ Precedes(cpe.from, s.version)
           \/ cpe.from = s.version /\ cpe.fromIn
        /\ cpe.to = << >> \/ Precedes(s.version, cpe.to)
  BY DEF Affected
<1>2. s.version \in Seq(Nat) /\ cpe.from \in Seq(Nat) /\ cpe.to \in Seq(Nat)
  BY CveAssumption DEF CveAssumption
<1>3. cpe.from # << >> => ~Precedes(s.version, cpe.from)
  BY <1>1, <1>2, PrecedesOneWay
<1> DEFINE range == Flatten(cpe)
<1>4. range.product = s.product /\ range.start = cpe.from /\ range.end = cpe.to
  BY <1>1 DEF Flatten
<1>5. range \in {Flatten(x) : x \in CpeOf[c]}
  OBVIOUS
<1> HIDE DEF range
<1>6. InRange(s.version, range)
  BY <1>1, <1>3, <1>4 DEF InRange
<1> QED
  BY <1>4, <1>5, <1>6 DEF Matches

\* More told is no less told.
LEMMA ToldStays ==
  ASSUME match.told \subseteq match'.told, IsFiniteSet(match'.told),
         NEW c, NEW s, ToldOf(c, s)
  PROVE  ToldOf(c, s)'
<1> DEFINE now  == {t \in match.told : t[2] = s.at}
           then == {t \in match'.told : t[2] = s.at}
<1>1. now \in SUBSET then /\ then \in SUBSET match'.told
  OBVIOUS
<1> HIDE DEF now, then
<1>2. IsFiniteSet(then) /\ IsFiniteSet(now)
  BY <1>1, FS_Subset
<1>3. Cardinality(now) \in Nat /\ Cardinality(then) \in Nat /\ Cardinality(now) <= Cardinality(then)
  BY <1>1, <1>2, FS_Subset, FS_CardinalityType
<1>4. Cardinality(now) >= TopN => Cardinality(then) >= TopN
  BY <1>3, CveAssumption DEF CveAssumption
<1> QED
  BY <1>4 DEF ToldOf, now, then

\* The kept matches of a service are all of them, or TopN.
LEMMA KeptTold ==
  ASSUME NEW hits, IsFiniteSet(hits), NEW kept \in SUBSET hits, NEW s, NEW said, NEW c \in hits,
         Cardinality(kept) = IF Cardinality(hits) < TopN THEN Cardinality(hits) ELSE TopN,
         kept \X {s.at} \subseteq said, IsFiniteSet(said)
  PROVE  <<c, s.at>> \in said \/ Cardinality({t \in said : t[2] = s.at}) >= TopN
<1>0. IsFiniteSet(kept) /\ Cardinality(kept) \in Nat /\ Cardinality(hits) \in Nat /\ TopN \in Nat
  BY FS_Subset, FS_CardinalityType, CveAssumption DEF CveAssumption
<1>1. CASE Cardinality(hits) < TopN
  <2>1. kept = hits
    BY <1>1, FS_Subset
  <2> QED
    BY <2>1
<1>2. CASE ~(Cardinality(hits) < TopN)
  <2> DEFINE mine == {t \in said : t[2] = s.at}
  <2>1. kept \X {s.at} \in SUBSET mine /\ mine \in SUBSET said
    OBVIOUS
  <2>2. Cardinality(kept \X {s.at}) = Cardinality(kept)
    <3>1. IsFiniteSet({s.at}) /\ Cardinality({s.at}) = 1
      BY FS_Singleton
    <3>2. Cardinality(kept \X {s.at}) = Cardinality(kept) * Cardinality({s.at})
      BY <1>0, <3>1, FS_Product
    <3>3. Cardinality(kept) * 1 = Cardinality(kept)
      BY <1>0
    <3> QED
      BY <3>1, <3>2, <3>3
  <2> HIDE DEF mine
  <2>3. IsFiniteSet(mine) /\ Cardinality(kept) <= Cardinality(mine)
    BY <2>1, <2>2, FS_Subset
  <2>4. Cardinality(mine) >= TopN
    BY <1>0, <1>2, <2>3, FS_CardinalityType
  <2> QED
    BY <2>4 DEF mine
<1> QED
  BY <1>1, <1>2

LEMMA NoJobFits ==
  /\ NoJob \in JobRow /\ Fetched(NoJob) /\ NoJob.at # "nvd" /\ NoJob.passes = <<>>
  /\ NoJob.start = 0 /\ NoJob.got = {} /\ << >> \in Records
<1>1. << >> \in Records
  <2>1. << >> \in [{} -> Rec]
    OBVIOUS
  <2> QED
    BY <2>1 DEF Records
<1>2. 0 \in 0..Len(Catalogue)
  BY CatalogueIs
<1>3. NoJob \in JobRow
  BY <1>1, <1>2 DEF NoJob, JobRow
<1> QED
  BY <1>1, <1>3 DEF NoJob, Fetched

LEMMA CveInitHolds == CveInit => CveInv
<1> SUFFICES ASSUME CveInit PROVE CveInv
  OBVIOUS
<1>4. \A r \in Refreshers : job[r] = NoJob
  BY DEF CveInit
<1>6. MatchInv
  BY NoJobFits, FS_EmptySet DEF CveInit, MatchInv
<1>7. begun \in 0..MaxBegun
  BY CveAssumption DEF CveInit, CveAssumption
<1> QED
  BY <1>4, <1>6, <1>7, NoJobFits DEF CveInit, CveInv

\* The feeds change: nothing that was read of them counts as undisturbed.
LEMMA FeedKeeps ==
  ASSUME CveInv, NEW f \in Feeds, FeedChanges(f) PROVE CveInv'
<1>1. begun' \in 0..MaxBegun
  <2>1. begun \in Nat /\ begun < MaxBegun /\ begun' = begun + 1 /\ MaxBegun \in Nat
    BY CveAssumption DEF CveInv, FeedChanges, CveAssumption
  <2> QED
    BY <2>1
<1>2. ASSUME NEW r \in Refreshers
      PROVE  /\ job'[r] \in JobRow /\ ~job'[r].clean
             /\ job'[r].at = job[r].at /\ job'[r].passes = job[r].passes
             /\ job'[r].loaded = job[r].loaded
  <2>1. job[r] \in JobRow
    BY DEF CveInv
  <2>2. job'[r] = [job[r] EXCEPT !.clean = FALSE]
    BY DEF FeedChanges
  <2> QED
    BY <2>1, <2>2 DEF JobRow
<1>3. job' \in [Refreshers -> JobRow]
  <2>1. job' = [r \in Refreshers |-> job'[r]]
    BY DEF FeedChanges
  <2> QED
    BY <1>2, <2>1
<1>4. ASSUME NEW r \in Refreshers
      PROVE  Fetched(job[r])' /\ (job'[r].at = "nvd" <=> job'[r].passes # <<>>)
  <2>1. Fetched(job[r]) /\ (job[r].at = "nvd" <=> job[r].passes # <<>>) /\ index' = index
    BY DEF CveInv, FeedChanges
  <2> QED
    BY <1>2, <2>1 DEF Fetched
<1>5. MatchInv'
  <2>1. match' = [match EXCEPT !.sound = FALSE]
    BY DEF FeedChanges
  <2> QED
    BY <2>1 DEF CveInv, MatchInv
<1> QED
  BY <1>1, <1>3, <1>4, <1>5 DEF CveInv, FeedChanges

\* A refresh takes one step and writes nothing.
LEMMA JobKeeps ==
  ASSUME CveInv, NEW r \in Refreshers, NEW j \in JobRow, job' = [job EXCEPT ![r] = j],
         Fetched(j), j.at = "nvd" <=> j.passes # <<>>, begun' \in 0..MaxBegun,
         UNCHANGED <<feed, index, fresh, match>>
  PROVE  CveInv'
<1>1. job' \in [Refreshers -> JobRow]
  BY DEF CveInv
<1>2. ASSUME NEW q \in Refreshers
      PROVE  Fetched(job[q])' /\ (job'[q].at = "nvd" <=> job'[q].passes # <<>>)
  <2>1. PICK k : k = job'[q]
    OBVIOUS
  <2>2. Fetched(k) /\ (k.at = "nvd" <=> k.passes # <<>>)
    BY <2>1 DEF CveInv
  <2>3. Fetched(k)'
    <3>1. \A b, n : Upto(b, n)' = Upto(b, n) /\ Whole(b)' = Whole(b)
      BY DEF Upto, Whole, Listing, Place
    <3>2. ListedBy("local")' = ListedBy("local")
      BY DEF ListedBy
    <3> QED
      BY <2>2, <3>1, <3>2 DEF Fetched
  <2> QED
    BY <2>1, <2>2, <2>3
<1>3. MatchInv'
  BY DEF CveInv, MatchInv, Rated, ListedBy, ToldOf
<1>4. fresh' => /\ Rated(index)'
                /\ \A c \in feed'.kev \union ListedBy("local")' :
                     c \in DOMAIN index' /\ index'[c].kev = (c \in feed'.kev)
  BY DEF CveInv, Rated, ListedBy
<1> QED
  BY <1>1, <1>2, <1>3, <1>4 DEF CveInv

LEMMA KevKeeps ==
  ASSUME CveInv, NEW r \in Refreshers, NEW source \in {"local", "nvd_api"}, RefreshKev(r, source)
  PROVE  CveInv'
<1> DEFINE passes == IF source = "nvd_api" THEN <<"all">> ELSE High
           j == [NoJob EXCEPT !.at = "nvd", !.kev = feed.kev, !.clean = TRUE, !.passes = passes]
<1>1. passes \in {<<"all">>, High} /\ passes # <<>> /\ passes # <<"CRITICAL">>
  BY DEF High
<1>2. feed.kev \subseteq Cves
  BY CveAssumption DEF CveInv, CveAssumption
<1> HIDE DEF passes
<1>3. /\ j \in JobRow /\ j.at = "nvd" /\ j.kev = feed.kev /\ j.passes = passes
      /\ j.start = 0 /\ j.got = {} /\ j.clean
  BY <1>1, <1>2, NoJobFits DEF JobRow
<1>6. Fetched(j) /\ (j.at = "nvd" <=> j.passes # <<>>)
  <2>1. Upto("all", 0) = {} /\ Upto("HIGH", 0) = {}
    BY PageGoesOn
  <2> QED
    BY <1>1, <1>3, <2>1 DEF Fetched
<1>7. begun' \in 0..MaxBegun
  <2>1. begun \in Nat /\ begun < MaxBegun /\ begun' = begun + 1 /\ MaxBegun \in Nat
    BY CveAssumption DEF CveInv, RefreshKev, CveAssumption
  <2> QED
    BY <2>1
<1>8. job' = [job EXCEPT ![r] = j] /\ UNCHANGED <<feed, index, fresh, match>>
  BY DEF RefreshKev, passes
<1> HIDE DEF j
<1> QED
  BY <1>3, <1>6, <1>7, <1>8, JobKeeps

LEMMA FailKeeps == ASSUME CveInv, NEW r \in Refreshers, RefreshFails(r) PROVE CveInv'
BY NoJobFits, JobKeeps DEF RefreshFails, CveInv

\* A page that is not over the end leaves what was listed so far fetched.
LEMMA PageKeeps ==
  ASSUME CveInv, NEW r \in Refreshers, NEW n \in 0..PageSize, RefreshPage(r, n)
  PROVE  CveInv'
<1>0. PICK j, band : j = job[r] /\ band = Head(j.passes)
  OBVIOUS
<1> DEFINE next == Advance(j.start, n)
           over == n = 0 \/ next >= Total(band)
           rest == IF over THEN Tail(j.passes) ELSE j.passes
           k == [j EXCEPT !.got = @ \union Page(band, j.start, n),
                          !.start = IF over THEN 0 ELSE next,
                          !.passes = rest,
                          !.at = IF rest = << >> THEN "merge" ELSE "nvd",
                          !.clean = @ /\ (n > 0 \/ j.start >= Total(band))]
<1>1. /\ j \in JobRow /\ j.at = "nvd" /\ j.passes # <<>> /\ Fetched(j)
      /\ job' = [job EXCEPT ![r] = k] /\ UNCHANGED <<feed, begun, index, fresh, match>>
  BY <1>0 DEF CveInv, RefreshPage
<1>2. n \in Nat /\ PageSize \in Nat
  BY CveAssumption DEF CveAssumption
<1>3. j.start \in 0..Len(Catalogue) /\ Total(band) \in 0..Len(Catalogue) /\ Len(Catalogue) \in Nat
  BY <1>1, Places, CatalogueIs DEF JobRow
<1>4. \/ j.passes = <<"all">> /\ band = "all" /\ Tail(j.passes) = <<>>
      \/ j.passes = High /\ band = "HIGH" /\ Tail(j.passes) = <<"CRITICAL">>
      \/ j.passes = <<"CRITICAL">> /\ band = "CRITICAL" /\ Tail(j.passes) = <<>>
  <2>1. /\ Head(<<"all">>) = "all" /\ Tail(<<"all">>) = <<>>
        /\ Head(<<"CRITICAL">>) = "CRITICAL" /\ Tail(<<"CRITICAL">>) = <<>>
    OBVIOUS
  <2>2. Head(High) = "HIGH" /\ Tail(High) = <<"CRITICAL">>
    BY DEF High
  <2>3. j.passes \in {<<"all">>, High, <<"CRITICAL">>}
    BY <1>1 DEF JobRow
  <2> QED
    BY <1>0, <2>1, <2>2, <2>3
<1>5. <<"all">> # High /\ High # <<"CRITICAL">> /\ <<"all">> # <<"CRITICAL">> /\ High # <<>>
      /\ <<"all">> # <<>> /\ <<"CRITICAL">> # <<>>
  BY DEF High
<1>6. /\ Upto(band, j.start + n) = Upto(band, j.start) \union Page(band, j.start, n)
      /\ Page(band, j.start, n) \subseteq Cves /\ Upto("CRITICAL", 0) = {}
      /\ \A m \in Nat : m >= Total(band) => Upto(band, m) = Whole(band)
  <2>1. j.start \in Nat /\ 0 \in Nat
    BY <1>3
  <2>2. /\ Upto(band, j.start + n) = Upto(band, j.start) \union Page(band, j.start, n)
        /\ Page(band, j.start, n) \subseteq Cves
    BY <1>2, <2>1, PageGoesOn
  <2>3. \A m \in Nat : m >= Total(band) => Upto(band, m) = Whole(band)
    BY <2>1, PageGoesOn
  <2>4. Upto("CRITICAL", 0) = {}
    BY <2>1, PageGoesOn
  <2> QED
    BY <2>2, <2>3, <2>4
<1>7. ~over => next = j.start + n /\ next \in 0..Len(Catalogue)
  BY <1>2, <1>3 DEF Advance
<1>8. j.clean /\ over /\ (n > 0 \/ j.start >= Total(band))
        => Whole(band) \subseteq Upto(band, j.start) \union Page(band, j.start, n)
  <2>1. CASE n = 0
    BY <1>2, <1>3, <1>6, <2>1
  <2>2. CASE n # 0
    <3>1. over => j.start + n >= Total(band)
      BY <2>2 DEF Advance
    <3> QED
      BY <1>2, <1>3, <1>6, <3>1
  <2> QED
    BY <2>1, <2>2
<1>9. rest \in {<<>>, <<"all">>, High, <<"CRITICAL">>}
  BY <1>4
<1>10. (IF over THEN 0 ELSE next) \in 0..Len(Catalogue)
  BY <1>3, <1>7
<1> HIDE DEF over, next, rest
<1>11. k \in JobRow
  BY <1>1, <1>6, <1>9, <1>10 DEF JobRow
<1>12. /\ k.at = (IF rest = << >> THEN "merge" ELSE "nvd") /\ k.kev = j.kev /\ k.passes = rest
       /\ k.got = j.got \union Page(band, j.start, n) /\ k.start = (IF over THEN 0 ELSE next)
       /\ k.clean = (j.clean /\ (n > 0 \/ j.start >= Total(band)))
  BY <1>1 DEF JobRow
<1> HIDE DEF k
<1>13. Fetched(k)
  <2> SUFFICES ASSUME k.clean
               PROVE  /\ k.kev = feed.kev
                      /\ k.passes = <<"all">> => Upto("all", k.start) \subseteq k.got
                      /\ k.passes = High => Upto("HIGH", k.start) \subseteq k.got
                      /\ k.passes = <<"CRITICAL">> =>
                           Whole("HIGH") \union Upto("CRITICAL", k.start) \subseteq k.got
                      /\ k.passes = <<>> => ListedBy("local") \subseteq k.got
    BY <1>12 DEF Fetched
  <2>1. /\ j.clean /\ j.kev = feed.kev /\ (n > 0 \/ j.start >= Total(band))
        /\ j.passes = <<"all">> => Upto("all", j.start) \subseteq j.got
        /\ j.passes = High => Upto("HIGH", j.start) \subseteq j.got
        /\ j.passes = <<"CRITICAL">> => Whole("HIGH") \union Upto("CRITICAL", j.start) \subseteq j.got
    BY <1>1, <1>12 DEF Fetched
  <2>2. CASE ~over
    <3>1. k.passes = j.passes /\ k.passes # <<>> /\ k.start = j.start + n
      BY <1>1, <1>7, <1>12, <2>2 DEF rest
    <3> QED
      BY <1>4, <1>5, <1>6, <1>12, <2>1, <3>1
  <2>3. CASE over
    <3>1. /\ k.passes = Tail(j.passes) /\ k.start = 0
          /\ Whole(band) \subseteq Upto(band, j.start) \union Page(band, j.start, n)
      BY <1>8, <1>12, <2>1, <2>3 DEF rest
    <3> QED
      BY <1>4, <1>5, <1>6, <1>12, <2>1, <3>1, Lists
  <2> QED
    BY <2>2, <2>3
<1>14. k.at = "nvd" <=> k.passes # <<>>
  BY <1>12
<1>15. begun' \in 0..MaxBegun
  BY <1>1 DEF CveInv
<1> QED
  BY <1>1, <1>11, <1>13, <1>14, <1>15, JobKeeps

LEMMA MergeKeeps == ASSUME CveInv, NEW r \in Refreshers, RefreshMerge(r) PROVE CveInv'
<1>0. PICK j : j = job[r]
  OBVIOUS
<1> DEFINE loaded == Restrict(index, DOMAIN index \intersect DOMAIN RecordsOf(j))
           k == [j EXCEPT !.at = "flush", !.loaded = loaded]
<1>1. /\ j \in JobRow /\ j.at = "merge" /\ Fetched(j) /\ j.passes = <<>>
      /\ job' = [job EXCEPT ![r] = k] /\ UNCHANGED <<feed, begun, index, fresh, match>>
  BY <1>0 DEF CveInv, RefreshMerge
<1>2. loaded \in Records
  <2>1. PICK S \in SUBSET Cves : index \in [S -> Rec]
    BY DEF CveInv, Records
  <2>2. loaded \in [S \intersect DOMAIN RecordsOf(j) -> Rec]
    BY <2>1 DEF Restrict
  <2> QED
    BY <2>1, <2>2 DEF Records
<1> HIDE DEF loaded
<1>3. k \in JobRow
  BY <1>1, <1>2 DEF JobRow
<1>4. /\ k.at = "flush" /\ k.loaded = loaded /\ k.kev = j.kev /\ k.passes = j.passes
      /\ k.got = j.got /\ k.start = j.start /\ k.clean = j.clean
  BY <1>1 DEF JobRow
<1> HIDE DEF k
<1>5. DOMAIN RecordsOf(k) = DOMAIN RecordsOf(j)
  BY <1>4 DEF RecordsOf
<1>6. Fetched(k)
  BY <1>1, <1>4, <1>5 DEF Fetched, loaded, Restrict
<1>7. begun' \in 0..MaxBegun /\ k.at # "nvd" /\ k.passes = <<>>
  BY <1>1, <1>4 DEF CveInv
<1> QED
  BY <1>1, <1>3, <1>6, <1>7, JobKeeps

\* The index and the refreshes are as they were.
LEMMA RestStays ==
  ASSUME CveInv, UNCHANGED <<feed, begun, index, job, fresh>>, MatchInv'
  PROVE  CveInv'
<1>1. /\ \A b, n : Upto(b, n)' = Upto(b, n) /\ Whole(b)' = Whole(b)
      /\ ListedBy("local")' = ListedBy("local")
  BY DEF Upto, Whole, Listing, Place, ListedBy
<1>2. ASSUME NEW r \in Refreshers
      PROVE  Fetched(job[r])' /\ (job'[r].at = "nvd" <=> job'[r].passes # <<>>)
  <2>1. PICK j : j = job[r]
    OBVIOUS
  <2>2. Fetched(j) /\ (j.at = "nvd" <=> j.passes # <<>>)
    BY <2>1 DEF CveInv
  <2>3. Fetched(j)'
    BY <1>1, <2>2 DEF Fetched
  <2> QED
    BY <2>1, <2>2, <2>3
<1>3. Rated(index) => Rated(index)'
  BY <1>1 DEF Rated
<1> QED
  BY <1>1, <1>2, <1>3 DEF CveInv

\* Nothing but the correlation of a run reads what it told.
LEMMA MatchStays ==
  ASSUME MatchInv, UNCHANGED <<feed, match>> PROVE MatchInv'
BY DEF MatchInv, Rated, ListedBy, ToldOf

\* A flush of an undisturbed refresh leaves the index as the feeds are, one that
\* another process was quicker than writes over nothing of the other's.
LEMMA FlushKeeps == ASSUME CveInv, NEW r \in Refreshers, RefreshFlush(r) PROVE CveInv'
<1>0. PICK j, new : j = job[r] /\ new = RecordsOf(j)
  OBVIOUS
<1>1. /\ j \in JobRow /\ j.at = "flush" /\ Fetched(j) /\ j.passes = <<>>
      /\ UNCHANGED <<feed, begun, match>>
  BY <1>0 DEF CveInv, RefreshFlush
<1>2. begun' \in 0..MaxBegun /\ MatchInv'
  BY <1>1, MatchStays DEF CveInv
<1>3. /\ DOMAIN new = j.got \union j.kev /\ DOMAIN new \subseteq Cves
      /\ \A c \in DOMAIN new : new[c] \in Rec /\ new[c].cpes = (c \in j.got)
                               /\ new[c].kev = (c \in j.kev)
  <2>1. new = [c \in j.got \union j.kev |-> [cpes |-> c \in j.got, kev |-> c \in j.kev]]
    BY <1>0 DEF RecordsOf
  <2> QED
    BY <1>1, <2>1 DEF JobRow, Rec
<1>4. CASE ~(DOMAIN index \intersect DOMAIN new \subseteq DOMAIN j.loaded)
  <2>1. job' = [job EXCEPT ![r] = NoJob] /\ UNCHANGED <<index, fresh>>
    BY <1>0, <1>4 DEF RefreshFlush
  <2> QED
    BY <1>1, <1>2, <2>1, NoJobFits, JobKeeps
<1>5. CASE DOMAIN index \intersect DOMAIN new \subseteq DOMAIN j.loaded
  <2>1. /\ index' = [c \in DOMAIN index \union DOMAIN new |->
             IF c \notin DOMAIN new THEN index[c]
             ELSE IF c \notin DOMAIN j.loaded THEN new[c]
             ELSE Written(index[c], j.loaded[c], new[c])]
        /\ fresh' = j.clean
        /\ job' = [q \in Refreshers |->
             IF q = r THEN NoJob
             ELSE IF job[q].at = "flush" THEN [job[q] EXCEPT !.clean = FALSE]
             ELSE job[q]]
    BY <1>0, <1>5 DEF RefreshFlush
  <2>2. PICK S \in SUBSET Cves : index \in [S -> Rec]
    BY DEF CveInv, Records
  <2>3. PICK T \in SUBSET Cves : j.loaded \in [T -> Rec]
    BY <1>1 DEF JobRow, Records
  <2>4. ASSUME NEW c \in DOMAIN index \union DOMAIN new
        PROVE  index'[c] \in Rec
    <3>1. CASE c \notin DOMAIN new
      BY <2>1, <2>2, <3>1
    <3>2. CASE c \in DOMAIN new /\ c \notin DOMAIN j.loaded
      BY <1>3, <2>1, <3>2
    <3>3. CASE c \in DOMAIN new /\ c \in DOMAIN j.loaded
      <4>1. index'[c] = Written(index[c], j.loaded[c], new[c]) /\ c \in DOMAIN index
        BY <1>1, <2>1, <3>3 DEF Fetched
      <4> QED
        BY <1>3, <2>2, <2>3, <3>3, <4>1 DEF Written, Rec
    <3> QED
      BY <3>1, <3>2, <3>3
  <2>5. index' \in Records
    <3>1. DOMAIN index \union DOMAIN new \in SUBSET Cves
      BY <1>3, <2>2
    <3>2. index' \in [DOMAIN index \union DOMAIN new -> Rec]
      BY <2>1, <2>4
    <3> QED
      BY <3>1, <3>2 DEF Records
  <2>6. ASSUME NEW q \in Refreshers
        PROVE  /\ job'[q] \in JobRow /\ Fetched(job[q])'
               /\ job'[q].at = "nvd" <=> job'[q].passes # <<>>
    <3>0. PICK k, l : k = job[q] /\ l = job'[q]
      OBVIOUS
    <3>1. k \in JobRow /\ Fetched(k) /\ (k.at = "nvd" <=> k.passes # <<>>)
      BY <3>0 DEF CveInv
    <3>2. DOMAIN index' = DOMAIN index \union DOMAIN new
      BY <2>1
    <3>3. /\ \A b, n : Upto(b, n)' = Upto(b, n) /\ Whole(b)' = Whole(b)
          /\ ListedBy("local")' = ListedBy("local")
      BY <1>1 DEF Upto, Whole, Listing, Place, ListedBy
    <3>4. CASE q = r
      <4>1. l = NoJob
        BY <2>1, <3>0, <3>4
      <4>2. NoJob.at = "idle"
        BY DEF NoJob
      <4>3. Fetched(NoJob)'
        BY <4>2 DEF Fetched
      <4> QED
        BY <3>0, <4>1, <4>3, NoJobFits
    <3>5. CASE q # r /\ k.at = "flush"
      <4>1. l = [k EXCEPT !.clean = FALSE]
        BY <2>1, <3>0, <3>5
      <4>2. /\ l \in JobRow /\ ~l.clean /\ l.at = k.at /\ l.passes = k.passes
            /\ l.loaded = k.loaded
        BY <3>1, <4>1 DEF JobRow
      <4>3. Fetched(l)'
        BY <3>1, <3>2, <4>2 DEF Fetched
      <4> QED
        BY <3>0, <3>1, <4>2, <4>3
    <3>6. CASE q # r /\ k.at # "flush"
      <4>1. l = k
        BY <2>1, <3>0, <3>6
      <4>2. Fetched(k)'
        BY <1>1, <3>1, <3>3, <3>6 DEF Fetched
      <4> QED
        BY <3>0, <3>1, <4>1, <4>2
    <3> QED
      BY <3>4, <3>5, <3>6
  <2>7. job' \in [Refreshers -> JobRow]
    <3>1. job' = [q \in Refreshers |-> job'[q]]
      BY <2>1
    <3> QED
      BY <2>6, <3>1
  <2>8. ASSUME j.clean
        PROVE  /\ Rated(index)'
               /\ \A c \in feed'.kev \union ListedBy("local")' :
                    c \in DOMAIN index' /\ index'[c].kev = (c \in feed'.kev)
    <3>1. /\ j.kev = feed.kev /\ ListedBy("local") \subseteq j.got
          /\ j.loaded = Restrict(index, DOMAIN index \intersect DOMAIN new)
      BY <1>0, <1>1, <2>8 DEF Fetched
    <3>2. ASSUME NEW c \in DOMAIN new PROVE c \in DOMAIN index' /\ index'[c] = new[c]
      <4>1. CASE c \notin DOMAIN index
        BY <2>1, <3>1, <3>2, <4>1 DEF Restrict
      <4>2. CASE c \in DOMAIN index
        <5>1. c \in DOMAIN j.loaded /\ j.loaded[c] = index[c]
          BY <3>1, <3>2, <4>2 DEF Restrict
        <5>2. index'[c] = Written(index[c], index[c], new[c]) /\ c \in DOMAIN index'
          BY <2>1, <3>2, <5>1
        <5>3. new[c] \in Rec /\ index[c] \in Rec
          BY <1>3, <2>2, <3>2, <4>2
        <5> QED
          BY <5>2, <5>3 DEF Written, Rec
      <4> QED
        BY <4>1, <4>2
    <3>3. ListedBy("local")' = ListedBy("local") /\ feed' = feed
      BY <1>1 DEF ListedBy
    <3>4. ASSUME NEW c \in feed.kev \union ListedBy("local")
          PROVE  /\ c \in DOMAIN index' /\ index'[c].kev = (c \in feed.kev)
                 /\ c \in ListedBy("local") => index'[c].cpes
      <4>1. c \in DOMAIN new /\ (c \in ListedBy("local") => c \in j.got)
        BY <1>3, <3>1
      <4>2. /\ c \in DOMAIN index' /\ index'[c] = new[c]
            /\ new[c].cpes = (c \in j.got) /\ new[c].kev = (c \in j.kev)
        BY <1>3, <3>2, <4>1
      <4> QED
        BY <3>1, <4>1, <4>2
    <3>5. Rated(index)'
      BY <3>3, <3>4 DEF Rated
    <3> QED
      BY <3>3, <3>4, <3>5
  <2>9. feed' \in Feeds /\ fresh' \in BOOLEAN
    BY <1>1, <2>1 DEF CveInv, JobRow
  <2> QED
    BY <1>2, <2>1, <2>5, <2>6, <2>7, <2>8, <2>9 DEF CveInv
<1> QED
  BY <1>4, <1>5

\* The index is read once: what it holds then is matched to the end.
LEMMA LoadKeeps == ASSUME CveInv, CveLoad PROVE CveInv'
<1> DEFINE links == UNION {{l.cve} \X l.ports : l \in Linked}
<1>1. /\ match' = [at |-> "match", index |-> index, sound |-> fresh,
                   todo |-> IF index = << >> THEN {} ELSE Services, told |-> links]
      /\ UNCHANGED <<feed, begun, index, job, fresh>>
  BY DEF CveLoad
<1>2. IsFiniteSet(links)
  <2>1. IsFiniteSet({{l.cve} \X l.ports : l \in Linked})
    <3> DEFINE T == {{l.cve} \X l.ports : l \in Linked}
    <3>1. [l \in Linked |-> {l.cve} \X l.ports] \in Surjection(Linked, T)
      BY DEF Surjection
    <3> QED
      BY <3>1, FS_Surjection, CveAssumption DEF CveAssumption
  <2>2. ASSUME NEW l \in Linked PROVE IsFiniteSet({l.cve} \X l.ports)
    BY FS_Singleton, FS_Product, CveAssumption DEF CveAssumption
  <2> QED
    BY <2>1, <2>2, FS_UNION
<1> HIDE DEF links
<1>3. /\ match'.at = "match" /\ match'.index = index /\ match'.sound = fresh
      /\ match'.todo = (IF index = << >> THEN {} ELSE Services) /\ match'.told = links
  BY <1>1
<1>4. fresh => Rated(index) /\ (index = << >> => ListedBy("local") = {})
  <2>1. DOMAIN << >> = {}
    OBVIOUS
  <2> QED
    BY <2>1 DEF CveInv, Rated
<1>5. match' \in [at : {"links", "match", "osv"}, index : Records,
                  todo : SUBSET (Services \union Libraries), told : {match'.told}, sound : BOOLEAN]
  BY <1>1, <1>3 DEF CveInv
<1>6. MatchInv'
  <2>1. ListedBy("local")' = ListedBy("local")
    BY <1>1 DEF ListedBy
  <2>2. ASSUME match'.sound
        PROVE  /\ Rated(match.index)'
               /\ \A c \in ListedBy("local")', s \in Services :
                    Affected(c, s)' /\ (match'.at = "osv" \/ s \notin match'.todo) => ToldOf(c, s)'
    <3>1. Rated(index) /\ (index = << >> => ListedBy("local") = {})
      BY <1>3, <1>4, <2>2
    <3>2. Rated(match.index)'
      BY <1>3, <2>1, <3>1 DEF Rated
    <3> QED
      BY <1>3, <2>1, <3>1, <3>2
  <2> QED
    BY <1>2, <1>3, <1>5, <2>2 DEF MatchInv
<1> QED
  BY <1>1, <1>6, RestStays

\* What is told of a service is told when it leaves the list.
LEMMA MatchKeeps == ASSUME CveInv, NEW s \in Services, CveMatch(s) PROVE CveInv'
<1> DEFINE hits == {c \in DOMAIN match.index : Matches(match.index[c], c, s)}
<1>1. PICK kept \in SUBSET hits :
        /\ Cardinality(kept) = IF Cardinality(hits) < TopN THEN Cardinality(hits) ELSE TopN
        /\ match' = [match EXCEPT !.todo = @ \ {s}, !.told = @ \union (kept \X {s.at})]
  BY DEF CveMatch
<1>2. match.at = "match" /\ UNCHANGED <<feed, begun, index, job, fresh>>
  BY DEF CveMatch
<1>3. hits \subseteq Cves
  BY DEF CveInv, MatchInv, Records
<1> HIDE DEF hits
<1>4. IsFiniteSet(hits) /\ IsFiniteSet(kept \X {s.at})
  BY <1>3, CatalogueIs, FS_Subset, FS_Singleton, FS_Product
<1>5. /\ match'.at = "match" /\ match'.index = match.index /\ match'.sound = match.sound
      /\ match'.todo = match.todo \ {s} /\ match'.told = match.told \union (kept \X {s.at})
      /\ match' \in [at : {"links", "match", "osv"}, index : Records,
                     todo : SUBSET (Services \union Libraries), told : {match'.told},
                     sound : BOOLEAN]
  BY <1>1, <1>2 DEF CveInv, MatchInv
<1>6. IsFiniteSet(match'.told)
  <2>1. IsFiniteSet(match.told)
    BY DEF CveInv, MatchInv
  <2>2. IsFiniteSet(match.told \union (kept \X {s.at}))
    BY <1>4, <2>1, FS_Union
  <2> QED
    BY <1>5, <2>2
<1>7. ASSUME match'.sound
      PROVE  /\ Rated(match.index)'
             /\ \A c \in ListedBy("local")', q \in Services :
                  Affected(c, q)' /\ (match'.at = "osv" \/ q \notin match'.todo) => ToldOf(c, q)'
  <2>1. ListedBy("local")' = ListedBy("local")
    BY <1>2 DEF ListedBy
  <2>2. Rated(match.index) /\ \A c \in ListedBy("local"), q \in Services :
                                 Affected(c, q) /\ q \notin match.todo => ToldOf(c, q)
    BY <1>5, <1>7 DEF CveInv, MatchInv
  <2>3. Rated(match.index)'
    BY <1>5, <2>1, <2>2 DEF Rated
  <2>4. ASSUME NEW c \in ListedBy("local"), NEW q \in Services, Affected(c, q), q \notin match'.todo
        PROVE  ToldOf(c, q)'
    <3>1. CASE q \notin match.todo
      BY <1>5, <1>6, <2>2, <2>4, <3>1, ToldStays
    <3>2. CASE q = s
      <4>1. c \in hits
        BY <2>2, <2>4, <3>2, Lists, AffectedMatches DEF hits, Rated
      <4>2. ToldOf(c, s)'
        <5>1. PICK said : said = match'.told
          OBVIOUS
        <5>2. kept \X {s.at} \subseteq said /\ IsFiniteSet(said) /\ IsFiniteSet(hits)
          BY <1>4, <1>5, <1>6, <5>1
        <5>3. Cardinality(kept) = IF Cardinality(hits) < TopN THEN Cardinality(hits) ELSE TopN
          BY <1>1
        <5>4. <<c, s.at>> \in said \/ Cardinality({t \in said : t[2] = s.at}) >= TopN
          BY <4>1, <5>2, <5>3, KeptTold
        <5>5. \/ <<c, s.at>> \in match'.told
              \/ Cardinality({t \in match'.told : t[2] = s.at}) >= TopN
          BY <5>1, <5>4
        <5> QED
          BY <5>5 DEF ToldOf
      <4> QED
        BY <3>2, <4>2
    <3> QED
      BY <1>5, <2>4, <3>1, <3>2
  <2>5. \A c, q : Affected(c, q)' = Affected(c, q)
    BY DEF Affected
  <2> QED
    BY <1>5, <2>1, <2>3, <2>4, <2>5
<1> QED
  BY <1>2, <1>5, <1>6, <1>7, RestStays DEF MatchInv

\* The libraries come when every service was matched.
LEMMA LibrariesKeep == ASSUME CveInv, CveLibraries PROVE CveInv'
<1>1. PICK firsts \in SUBSET Libraries : match' = [match EXCEPT !.at = "osv", !.todo = firsts]
  BY DEF CveLibraries
<1>2. match.at = "match" /\ match.todo = {} /\ UNCHANGED <<feed, begun, index, job, fresh>>
  BY DEF CveLibraries
<1>3. /\ match'.at = "osv" /\ match'.index = match.index /\ match'.sound = match.sound
      /\ match'.told = match.told
      /\ match' \in [at : {"links", "match", "osv"}, index : Records,
                     todo : SUBSET (Services \union Libraries), told : {match'.told},
                     sound : BOOLEAN]
  BY <1>1, <1>2 DEF CveInv, MatchInv
<1>4. ASSUME match'.sound
      PROVE  /\ Rated(match.index)'
             /\ \A c \in ListedBy("local")', q \in Services : Affected(c, q)' => ToldOf(c, q)'
  <2>1. ListedBy("local")' = ListedBy("local")
    BY <1>2 DEF ListedBy
  <2>2. Rated(match.index) /\ \A c \in ListedBy("local"), q \in Services :
                                 Affected(c, q) => ToldOf(c, q)
    BY <1>2, <1>3, <1>4 DEF CveInv, MatchInv
  <2>3. Rated(match.index)'
    BY <1>3, <2>1, <2>2 DEF Rated
  <2>4. \A c, q : (Affected(c, q)' = Affected(c, q)) /\ (ToldOf(c, q)' = ToldOf(c, q))
    BY <1>3 DEF Affected, ToldOf
  <2> QED
    BY <2>1, <2>2, <2>3, <2>4
<1>5. MatchInv'
  BY <1>3, <1>4 DEF CveInv, MatchInv
<1> QED
  BY <1>2, <1>5, RestStays

\* The lookups tell more, and take nothing back.
LEMMA LookupKeeps ==
  ASSUME CveInv, NEW l \in Libraries, NEW advised \in Advisories, OsvLookup(l, advised)
  PROVE  CveInv'
<1>1. /\ match.at = "osv" /\ match' = [match EXCEPT !.todo = @ \ {l},
                                !.told = @ \union (advised \X {l.url})]
      /\ UNCHANGED <<feed, begun, index, job, fresh>>
  BY DEF OsvLookup
<1>2. /\ match'.at = "osv" /\ match'.index = match.index /\ match'.sound = match.sound
      /\ match'.told = match.told \union (advised \X {l.url})
      /\ match' \in [at : {"links", "match", "osv"}, index : Records,
                     todo : SUBSET (Services \union Libraries), told : {match'.told},
                     sound : BOOLEAN]
  BY <1>1 DEF CveInv, MatchInv
<1>3. IsFiniteSet(match'.told)
  <2>1. IsFiniteSet(advised \X {l.url})
    BY CveAssumption, FS_Singleton, FS_Product DEF CveAssumption
  <2>2. IsFiniteSet(match.told)
    BY DEF CveInv, MatchInv
  <2>3. IsFiniteSet(match.told \union (advised \X {l.url}))
    BY <2>1, <2>2, FS_Union
  <2> QED
    BY <1>2, <2>3
<1>4. ASSUME match'.sound
      PROVE  /\ Rated(match.index)'
             /\ \A c \in ListedBy("local")', q \in Services : Affected(c, q)' => ToldOf(c, q)'
  <2>1. ListedBy("local")' = ListedBy("local")
    BY <1>1 DEF ListedBy
  <2>2. Rated(match.index) /\ \A c \in ListedBy("local"), q \in Services :
                                 Affected(c, q) => ToldOf(c, q)
    BY <1>1, <1>2, <1>4 DEF CveInv, MatchInv
  <2>3. Rated(match.index)'
    BY <1>2, <2>1, <2>2 DEF Rated
  <2>4. ASSUME NEW c \in ListedBy("local"), NEW q \in Services, Affected(c, q) PROVE ToldOf(c, q)'
    BY <1>2, <1>3, <2>2, <2>4, ToldStays
  <2>5. \A c, q : Affected(c, q)' = Affected(c, q)
    BY DEF Affected
  <2> QED
    BY <2>1, <2>3, <2>4, <2>5
<1>5. MatchInv'
  BY <1>2, <1>3, <1>4 DEF MatchInv
<1> QED
  BY <1>1, <1>5, RestStays

LEMMA CveNextHolds == ASSUME CveInv, [CveNext]_cveVars PROVE CveInv'
<1>1. ASSUME UNCHANGED cveVars PROVE CveInv'
  BY <1>1, MatchStays, RestStays DEF cveVars, CveInv
<1>2. ASSUME CveNext PROVE CveInv'
  BY <1>2, FeedKeeps, KevKeeps, PageKeeps, FailKeeps, MergeKeeps, FlushKeeps, LoadKeeps,
     LibrariesKeep, MatchKeeps, LookupKeeps DEF CveNext
<1> QED
  BY <1>1, <1>2

LEMMA CveAlways == CveSpec => []CveInv
BY CveInitHolds, CveNextHolds, PTL DEF CveSpec

\* The feeds, the index, the refreshes and the matching are what they are
\* declared to be, and no page begins behind the catalogue.
THEOREM CveTypes == CveSpec => []CveTypeOK
<1>1. CveInv => CveTypeOK
  <2> SUFFICES ASSUME CveInv PROVE CveTypeOK
    OBVIOUS
  <2>1. DOMAIN index \subseteq Cves /\ \A c \in DOMAIN index : index[c] \in Rec
    BY DEF CveInv, Records
  <2>2. ASSUME NEW r \in Refreshers
        PROVE  /\ job[r].at \in {"idle", "nvd", "merge", "flush"}
               /\ job[r].got \union job[r].kev \subseteq Cves
               /\ job[r].start \in 0..Len(Catalogue)
    <3>1. job[r] \in JobRow
      BY DEF CveInv
    <3> QED
      BY <3>1 DEF JobRow
  <2>3. match.at \in {"links", "match", "osv"}
    BY DEF CveInv, MatchInv
  <2> QED
    BY <2>1, <2>2, <2>3 DEF CveInv, CveTypeOK, Rec
<1> QED
  BY <1>1, CveAlways, PTL

\* However the NVD cuts its pages, whatever the feeds and other refreshes do
\* meanwhile and however many CVEs match: an index that was refreshed
\* undisturbed holds what KEV and the high bands list, marked as KEV has it, and
\* a service that such a CVE affects is told so, or told of TopN others.
THEOREM CvesAreTold == CveSpec => []CvesTold
<1>1. CveInv => CvesTold
  BY DEF CveInv, MatchInv, CvesTold, ToldOf
<1> QED
  BY <1>1, CveAlways, PTL

-----------------------------------------------------------------------------
(* The sessions of the web interface *)

HIDE DiffAssumption
USE AccountsAssumption

\* A session's row, and what a request holds.
SessionRow == [user : Users \union {NoOne}, exp : 0..(MaxClock + Idle),
               revoked : BOOLEAN, pw : Nat, late : BOOLEAN]
RequestRow == [op : {"none", "setup", "login", "touch", "change"},
               user : Users \union {NoOne}, pw : Nat, sid : 0..MaxSessions, at : Nat]

AccTyped ==
  /\ clock \in 0..MaxClock /\ clashed \subseteq {"setup", "rehash"}
  /\ newest \in [Users -> Nat] /\ closed \subseteq Sessions
  /\ password \in [Users -> Nat]
  /\ sessions \in [Sessions -> SessionRow]
  /\ request \in [Requests -> RequestRow]

\* What a request has read is still so when it writes: its user is registered,
\* its session has a row, and the password it verified was the newest then.
Informed ==
  \A r \in Requests :
    LET q == request[r]
    IN  /\ q.op # "none" => q.user \in Users
        /\ q.op \in {"login", "touch", "change"} => q.user \in Registered
        /\ q.op = "touch" => /\ q.sid \in Sessions /\ q.at \in 0..MaxClock
                             /\ sessions[q.sid].user # NoOne
        /\ q.op = "login" => q.pw # 0 /\ (q.pw = q.at \/ "rehash" \in clashed)

\* A row that is not revoked is of the newest password, whether it has expired
\* or not; a revoked one stays.
Sound ==
  /\ \A s \in closed : sessions[s].user # NoOne /\ sessions[s].revoked
  /\ \A s \in Sessions : sessions[s].user # NoOne =>
       /\ sessions[s].user \in Registered
       /\ \/ sessions[s].revoked \/ sessions[s].late \/ "rehash" \in clashed
          \/ sessions[s].pw = newest[sessions[s].user]
  /\ "rehash" \in clashed \/ password = newest
  /\ "setup" \in clashed \/ \A u, v \in Registered : u = v

AccInv == AccTyped /\ Informed /\ Sound

\* One request holds what it should.
Knows(q) ==
  /\ q.op # "none" => q.user \in Users
  /\ q.op \in {"login", "touch", "change"} => q.user \in Registered
  /\ q.op = "touch" => /\ q.sid \in Sessions /\ q.at \in 0..MaxClock
                       /\ sessions[q.sid].user # NoOne
  /\ q.op = "login" => q.pw # 0 /\ (q.pw = q.at \/ "rehash" \in clashed)

LEMMA InformedIs == Informed <=> \A r \in Requests : Knows(request[r])
BY DEF Informed, Knows

LEMMA NoReqKnows == NoReq \in RequestRow /\ Knows(NoReq)
BY DEF NoReq, RequestRow, Knows

LEMMA InitHolds == AccInit => AccInv
<1> SUFFICES ASSUME AccInit PROVE AccInv
  OBVIOUS
<1>1. NoRow \in SessionRow
  BY DEF NoRow, SessionRow
<1>2. AccTyped
  BY <1>1, NoReqKnows DEF AccInit, AccTyped
<1>3. Informed
  BY DEF AccInit, Informed, NoReq
<1>4. Sound
  BY DEF AccInit, Sound, NoRow, Registered
<1> QED
  BY <1>2, <1>3, <1>4 DEF AccInv

\* A request reads: nothing is written.
LEMMA ReadKeeps ==
  ASSUME AccInv, NEW r \in Requests, NEW q \in RequestRow, Knows(q), Ready(r, q),
         UNCHANGED <<clock, password, sessions, newest, closed, clashed>>
  PROVE  AccInv'
<1>1. request' = [request EXCEPT ![r] = q]
  BY DEF Ready
<1>2. AccTyped'
  BY <1>1 DEF AccInv, AccTyped
<1>3. Informed'
  <2> SUFFICES ASSUME NEW x \in Requests PROVE Knows(request[x])'
    BY DEF Informed, Knows
  <2>1. request'[x] = q \/ request'[x] = request[x]
    BY <1>1 DEF AccInv, AccTyped
  <2>2. Knows(request[x])
    BY DEF AccInv, Informed, Knows
  <2> QED
    BY <2>1, <2>2 DEF Knows, Registered
<1>4. Sound'
  BY DEF AccInv, Sound, Registered
<1> QED
  BY <1>2, <1>3, <1>4 DEF AccInv

\* A request is answered: what the others hold stays true when no account and no
\* row goes away and no clash is forgotten.
LEMMA FinishKeeps ==
  ASSUME AccInv, NEW r \in Requests, Finish(r),
         Registered \subseteq Registered', clashed \subseteq clashed',
         \A s \in Sessions : sessions[s].user # NoOne => sessions'[s].user # NoOne
  PROVE  /\ Informed' /\ request' \in [Requests -> RequestRow]
<1>1. request' = [request EXCEPT ![r] = NoReq]
  BY DEF Finish
<1>2. request' \in [Requests -> RequestRow]
  BY <1>1, NoReqKnows DEF AccInv, AccTyped
<1>3. Informed'
  <2> SUFFICES ASSUME NEW x \in Requests PROVE Knows(request[x])'
    BY DEF Informed, Knows
  <2>1. request'[x] = NoReq \/ request'[x] = request[x]
    BY <1>1 DEF AccInv, AccTyped
  <2>2. Knows(request[x])
    BY DEF AccInv, Informed, Knows
  <2> QED
    BY <2>1, <2>2 DEF Knows, NoReq
<1> QED
  BY <1>2, <1>3

\* The row of a new session: no other row is touched.
LEMMA NewSessionAdds ==
  ASSUME AccTyped, NEW s \in Sessions, NEW u \in Users, NEW pw \in Nat,
         NEW late \in BOOLEAN, NewSession(s, u, pw, late)
  PROVE  /\ sessions' \in [Sessions -> SessionRow]
         /\ sessions[s].user = NoOne
         /\ sessions'[s].user = u /\ sessions'[s].pw = pw /\ sessions'[s].late = late
         /\ \A x \in Sessions \ {s} : sessions'[x] = sessions[x]
<1> DEFINE row == [user |-> u, exp |-> clock + Idle, revoked |-> FALSE, pw |-> pw, late |-> late]
<1>1. row \in SessionRow
  BY DEF SessionRow, AccTyped
<1>2. sessions' = [sessions EXCEPT ![s] = row] /\ sessions[s].user = NoOne
  BY DEF NewSession, Fresh
<1>3. row.user = u /\ row.pw = pw /\ row.late = late
  OBVIOUS
<1> HIDE DEF row
<1> QED
  BY <1>1, <1>2, <1>3 DEF AccTyped

LEMMA SetupInsertKeeps ==
  ASSUME AccInv, NEW r \in Requests, NEW s \in Sessions, SetupInsert(r, s)
  PROVE  AccInv'
<1> DEFINE u == request[r].user
<1>1. /\ u \in Users /\ Finish(r) /\ UNCHANGED <<clock, closed>>
  BY DEF SetupInsert, AccInv, Informed
<1>2. CASE u \notin Registered
  <2>1. /\ password' = [password EXCEPT ![u] = 1] /\ newest' = [newest EXCEPT ![u] = 1]
        /\ NewSession(s, u, 1, FALSE)
        /\ clashed' = IF Registered = {} THEN clashed ELSE clashed \union {"setup"}
    BY <1>2 DEF SetupInsert
  <2> HIDE DEF u
  <2>2. Registered' = Registered \union {u}
    <3>1. password \in [Users -> Nat]
      BY DEF AccInv, AccTyped
    <3>2. \A v \in Users : password'[v] # 0 <=> (password[v] # 0 \/ v = u)
      BY <1>1, <2>1, <3>1
    <3>3. u \in Users
      BY <1>1
    <3>4. \A v : v \in Registered' <=> v \in Registered \union {u}
      BY <3>2, <3>3 DEF Registered
    <3> QED
      BY <3>4
  <2>3. /\ sessions' \in [Sessions -> SessionRow] /\ sessions[s].user = NoOne
        /\ sessions'[s].user = u /\ sessions'[s].pw = 1
        /\ \A x \in Sessions \ {s} : sessions'[x] = sessions[x]
    BY <1>1, <2>1, NewSessionAdds DEF AccInv
  <2>4. Informed' /\ request' \in [Requests -> RequestRow]
    BY <1>1, <2>1, <2>2, <2>3, FinishKeeps
  <2>5. AccTyped'
    BY <1>1, <2>1, <2>3, <2>4 DEF AccInv, AccTyped
  <2>6. Sound'
    <3>1. \A x \in closed' : sessions'[x].user # NoOne /\ sessions'[x].revoked
      BY <1>1, <2>3 DEF AccInv, Sound, AccTyped
    <3>2. newest'[u] = 1 /\ \A v \in Users \ {u} : newest'[v] = newest[v]
      BY <1>1, <2>1 DEF AccInv, AccTyped
    <3>3. ASSUME NEW x \in Sessions, sessions'[x].user # NoOne
          PROVE  /\ sessions'[x].user \in Registered'
                 /\ \/ sessions'[x].revoked \/ sessions'[x].late \/ "rehash" \in clashed'
                    \/ sessions'[x].pw = newest'[sessions'[x].user]
      <4>1. CASE x = s
        BY <2>2, <2>3, <3>2, <4>1
      <4>2. CASE x # s
        <5>1. sessions[x].user \in Registered /\ sessions[x].user # u
          BY <1>2, <2>3, <3>3, <4>2 DEF AccInv, Sound, u
        <5>2. sessions[x].user \in Users
          BY <5>1 DEF Registered
        <5> QED
          BY <2>1, <2>2, <2>3, <3>2, <3>3, <4>2, <5>1, <5>2 DEF AccInv, Sound
      <4> QED
        BY <4>1, <4>2
    <3>4. "rehash" \in clashed' \/ password' = newest'
      BY <2>1 DEF AccInv, Sound
    <3>5. "setup" \in clashed' \/ \A a, b \in Registered' : a = b
      BY <2>1, <2>2
    <3> QED
      BY <3>1, <3>3, <3>4, <3>5 DEF Sound
  <2> QED
    BY <2>4, <2>5, <2>6 DEF AccInv
<1>3. CASE u \in Registered
  <2>1. UNCHANGED <<password, newest, sessions, clashed>>
    BY <1>3 DEF SetupInsert
  <2>2. Registered' = Registered
    BY <2>1 DEF Registered
  <2>3. Informed' /\ request' \in [Requests -> RequestRow]
    BY <1>1, <2>1, <2>2, FinishKeeps
  <2>4. AccTyped'
    BY <1>1, <2>1, <2>3 DEF AccInv, AccTyped
  <2>5. Sound'
    BY <1>1, <2>1, <2>2 DEF AccInv, Sound
  <2> QED
    BY <2>3, <2>4, <2>5 DEF AccInv
<1> QED
  BY <1>2, <1>3

LEMMA LoginStartKeeps ==
  ASSUME AccInv, NEW r \in Requests, NEW s \in Sessions, NEW rehash \in BOOLEAN,
         LoginStart(r, s, rehash)
  PROVE  AccInv'
<1> DEFINE q == request[r]
           u == q.user
<1>1. /\ Finish(r) /\ NewSession(s, u, q.pw, q.at # newest[u])
      /\ password' = IF rehash THEN [password EXCEPT ![u] = q.pw] ELSE password
      /\ clashed' = IF rehash /\ q.at # newest[u] THEN clashed \union {"rehash"} ELSE clashed
      /\ UNCHANGED <<clock, newest, closed>>
  BY DEF LoginStart
<1>2. /\ u \in Registered /\ u \in Users /\ q.pw \in Nat /\ q.pw # 0
      /\ q.pw = q.at \/ "rehash" \in clashed
  BY DEF LoginStart, AccInv, Informed, AccTyped, RequestRow
<1> HIDE DEF q, u
<1>3. password' \in [Users -> Nat] /\ Registered' = Registered
  BY <1>1, <1>2 DEF Registered, AccInv, AccTyped
<1>4. /\ sessions' \in [Sessions -> SessionRow] /\ sessions[s].user = NoOne
      /\ sessions'[s].user = u /\ sessions'[s].pw = q.pw
      /\ sessions'[s].late = (q.at # newest[u])
      /\ \A x \in Sessions \ {s} : sessions'[x] = sessions[x]
  <2> DEFINE late == (q.at # newest[u])
  <2>1. AccTyped /\ late \in BOOLEAN
    BY DEF AccInv
  <2>2. NewSession(s, u, q.pw, late)
    BY <1>1, Zenon
  <2>3. late = (q.at # newest[u])
    OBVIOUS
  <2> HIDE DEF late
  <2>4. /\ sessions' \in [Sessions -> SessionRow] /\ sessions[s].user = NoOne
        /\ sessions'[s].user = u /\ sessions'[s].pw = q.pw /\ sessions'[s].late = late
        /\ \A x \in Sessions \ {s} : sessions'[x] = sessions[x]
    BY <1>2, <2>1, <2>2, NewSessionAdds
  <2> QED
    BY <2>3, <2>4, Zenon
<1>5. clashed \subseteq clashed' /\ clashed' \subseteq {"setup", "rehash"}
  BY <1>1 DEF AccInv, AccTyped
<1>6. Informed' /\ request' \in [Requests -> RequestRow]
  BY <1>1, <1>3, <1>4, <1>5, FinishKeeps
<1>7. AccTyped'
  BY <1>1, <1>3, <1>4, <1>5, <1>6 DEF AccInv, AccTyped
<1>8. Sound'
  <2>1. \A x \in closed' : sessions'[x].user # NoOne /\ sessions'[x].revoked
    BY <1>1, <1>4 DEF AccInv, Sound, AccTyped
  <2>2. ASSUME NEW x \in Sessions, sessions'[x].user # NoOne
        PROVE  /\ sessions'[x].user \in Registered'
               /\ \/ sessions'[x].revoked \/ sessions'[x].late \/ "rehash" \in clashed'
                  \/ sessions'[x].pw = newest'[sessions'[x].user]
    <3>1. CASE x = s
      BY <1>1, <1>2, <1>3, <1>4, <1>5, <3>1
    <3>2. CASE x # s
      BY <1>1, <1>3, <1>4, <1>5, <2>2, <3>2 DEF AccInv, Sound
    <3> QED
      BY <3>1, <3>2
  <2>3. "rehash" \in clashed' \/ password' = newest'
    <3>1. CASE rehash /\ q.at = newest[u] /\ "rehash" \notin clashed
      <4>1. password = newest /\ q.pw = newest[u]
        BY <1>2, <3>1 DEF AccInv, Sound
      <4> QED
        BY <1>1, <1>2, <3>1, <4>1 DEF AccInv, AccTyped
    <3>2. CASE ~(rehash /\ q.at = newest[u] /\ "rehash" \notin clashed)
      BY <1>1, <1>5, <3>2 DEF AccInv, Sound
    <3> QED
      BY <3>1, <3>2
  <2>4. "setup" \in clashed' \/ \A a, b \in Registered' : a = b
    BY <1>3, <1>5 DEF AccInv, Sound
  <2> QED
    BY <2>1, <2>2, <2>3, <2>4 DEF Sound
<1> QED
  BY <1>6, <1>7, <1>8 DEF AccInv

LEMMA ChangeCommitKeeps ==
  ASSUME AccInv, NEW r \in Requests, NEW s \in Sessions, ChangeCommit(r, s)
  PROVE  AccInv'
<1> DEFINE u == request[r].user
           new == [user |-> u, exp |-> clock + Idle, revoked |-> FALSE,
                   pw |-> newest[u] + 1, late |-> FALSE]
           swept == [x \in Sessions |-> IF sessions[x].user = u
                                        THEN [sessions[x] EXCEPT !.revoked = TRUE]
                                        ELSE sessions[x]]
<1>1. /\ Finish(r) /\ sessions[s].user = NoOne
      /\ password' = [password EXCEPT ![u] = newest[u] + 1]
      /\ newest' = [newest EXCEPT ![u] = newest[u] + 1]
      /\ sessions' = [swept EXCEPT ![s] = new]
      /\ closed' = closed \union {x \in Sessions : sessions[x].user = u}
      /\ UNCHANGED <<clock, clashed>>
  BY DEF ChangeCommit, Fresh
<1>2. u \in Registered /\ u \in Users /\ newest[u] \in Nat
  BY DEF ChangeCommit, AccInv, Informed, AccTyped
<1>3. /\ new \in SessionRow /\ new.user = u /\ new.pw = newest[u] + 1
  BY <1>2 DEF SessionRow, AccInv, AccTyped
<1>4. ASSUME NEW x \in Sessions
      PROVE  /\ swept[x] \in SessionRow /\ swept[x].user = sessions[x].user
             /\ swept[x].pw = sessions[x].pw /\ swept[x].late = sessions[x].late
             /\ sessions[x].user = u => swept[x].revoked = TRUE
             /\ sessions[x].user # u => swept[x] = sessions[x]
  BY DEF SessionRow, AccInv, AccTyped
<1>5. sessions'[s] = new /\ \A x \in Sessions \ {s} : sessions'[x] = swept[x]
  BY <1>1
<1>6. sessions' \in [Sessions -> SessionRow]
  BY <1>1, <1>3, <1>4
<1> HIDE DEF u, new, swept
<1>7. password' \in [Users -> Nat] /\ newest' \in [Users -> Nat]
      /\ Registered' = Registered
  BY <1>1, <1>2 DEF Registered, AccInv, AccTyped
<1>8. s \notin closed /\ u # NoOne
  BY <1>1, <1>2 DEF AccInv, Sound
<1>9. \A x \in Sessions : sessions[x].user # NoOne => sessions'[x].user # NoOne
  BY <1>1, <1>4, <1>5
<1>10. Informed' /\ request' \in [Requests -> RequestRow]
  BY <1>1, <1>7, <1>9, FinishKeeps
<1>11. AccTyped'
  BY <1>1, <1>6, <1>7, <1>10 DEF AccInv, AccTyped
<1>12. Sound'
  <2>1. ASSUME NEW x \in closed' PROVE sessions'[x].user # NoOne /\ sessions'[x].revoked
    <3>1. x \in Sessions /\ x # s
      BY <1>1, <1>8, <2>1 DEF AccInv, AccTyped
    <3>2. CASE x \in closed
      <4>1. sessions[x].user # NoOne /\ sessions[x].revoked
        BY <3>2 DEF AccInv, Sound
      <4> QED
        BY <1>4, <1>5, <3>1, <4>1
    <3>3. CASE sessions[x].user = u
      BY <1>4, <1>5, <1>8, <3>1, <3>3
    <3> QED
      BY <1>1, <2>1, <3>2, <3>3
  <2>2. ASSUME NEW x \in Sessions, sessions'[x].user # NoOne
        PROVE  /\ sessions'[x].user \in Registered'
               /\ \/ sessions'[x].revoked \/ sessions'[x].late \/ "rehash" \in clashed'
                  \/ sessions'[x].pw = newest'[sessions'[x].user]
    <3>1. CASE x = s
      BY <1>1, <1>2, <1>3, <1>5, <1>7, <3>1 DEF AccInv, AccTyped
    <3>2. CASE x # s /\ sessions[x].user = u
      BY <1>2, <1>4, <1>5, <1>7, <3>2
    <3>3. CASE x # s /\ sessions[x].user # u
      <4>1. sessions'[x] = sessions[x] /\ sessions[x].user \in Registered
        BY <1>4, <1>5, <2>2, <3>3 DEF AccInv, Sound
      <4>2. newest'[sessions[x].user] = newest[sessions[x].user]
        BY <1>1, <3>3, <4>1 DEF AccInv, AccTyped, Registered
      <4> QED
        BY <1>1, <1>7, <2>2, <4>1, <4>2 DEF AccInv, Sound
    <3> QED
      BY <3>1, <3>2, <3>3
  <2>3. "rehash" \in clashed' \/ password' = newest'
    BY <1>1 DEF AccInv, Sound
  <2>4. "setup" \in clashed' \/ \A a, b \in Registered' : a = b
    BY <1>1, <1>7 DEF AccInv, Sound
  <2> QED
    BY <2>1, <2>2, <2>3, <2>4 DEF Sound
<1> QED
  BY <1>10, <1>11, <1>12 DEF AccInv

LEMMA TouchKeeps ==
  ASSUME AccInv, NEW r \in Requests, Touch(r)
  PROVE  AccInv'
<1> DEFINE q == request[r]
           row == [sessions[q.sid] EXCEPT !.exp = q.at + Idle]
<1>1. /\ Finish(r) /\ q.sid \in Sessions /\ q.at \in 0..MaxClock
      /\ sessions' = [sessions EXCEPT ![q.sid] = row]
      /\ UNCHANGED <<clock, password, newest, closed, clashed>>
  BY DEF Touch, AccInv, Informed
<1>2. /\ row \in SessionRow /\ row.user = sessions[q.sid].user
      /\ row.revoked = sessions[q.sid].revoked /\ row.pw = sessions[q.sid].pw
      /\ row.late = sessions[q.sid].late
  BY <1>1 DEF SessionRow, AccInv, AccTyped
<1> HIDE DEF q, row
<1>3. /\ sessions' \in [Sessions -> SessionRow]
      /\ \A x \in Sessions :
           /\ sessions'[x].user = sessions[x].user /\ sessions'[x].pw = sessions[x].pw
           /\ sessions'[x].revoked = sessions[x].revoked
           /\ sessions'[x].late = sessions[x].late
  BY <1>1, <1>2 DEF AccInv, AccTyped
<1>4. Registered' = Registered
  BY <1>1 DEF Registered
<1>5. Informed' /\ request' \in [Requests -> RequestRow]
  BY <1>1, <1>3, <1>4, FinishKeeps
<1>6. AccTyped'
  BY <1>1, <1>3, <1>5 DEF AccInv, AccTyped
<1>7. Sound'
  BY <1>1, <1>3, <1>4 DEF AccInv, Sound, AccTyped
<1> QED
  BY <1>5, <1>6, <1>7 DEF AccInv

\* Steps that belong to no request.
LEMMA AloneKeeps ==
  ASSUME AccInv, Tick \/ (\E u \in Users : Bootstrap(u)) \/ (\E s \in Sessions : Logout(s))
  PROVE  AccInv'
<1>1. CASE Tick
  <2>1. AccTyped'
    BY <1>1 DEF Tick, AccInv, AccTyped
  <2>2. Informed' /\ Sound'
    BY <1>1 DEF Tick, AccInv, Informed, Sound, Registered
  <2> QED
    BY <2>1, <2>2 DEF AccInv
<1>2. ASSUME NEW u \in Users, Bootstrap(u) PROVE AccInv'
  <2>1. /\ password' = [password EXCEPT ![u] = 1] /\ newest' = [newest EXCEPT ![u] = 1]
        /\ Registered = {} /\ \A r \in Requests : request[r].op = "none"
        /\ UNCHANGED <<clock, sessions, request, closed, clashed>>
    BY <1>2 DEF Bootstrap
  <2>2. Registered' = {u}
    BY <2>1 DEF Registered, AccInv, AccTyped
  <2>3. AccTyped'
    BY <2>1 DEF AccInv, AccTyped
  <2>4. Informed'
    BY <2>1 DEF Informed
  <2>5. Sound'
    BY <2>1, <2>2 DEF AccInv, Sound
  <2> QED
    BY <2>3, <2>4, <2>5 DEF AccInv
<1>3. ASSUME NEW s \in Sessions, Logout(s) PROVE AccInv'
  <2> DEFINE row == [sessions[s] EXCEPT !.revoked = TRUE]
  <2>1. /\ sessions' = [sessions EXCEPT ![s] = row] /\ closed' = closed \union {s}
        /\ sessions[s].user # NoOne
        /\ UNCHANGED <<clock, password, request, newest, clashed>>
    BY <1>3 DEF Logout
  <2>2. /\ row \in SessionRow /\ row.user = sessions[s].user /\ row.revoked = TRUE
    BY DEF SessionRow, AccInv, AccTyped
  <2> HIDE DEF row
  <2>3. /\ sessions' \in [Sessions -> SessionRow] /\ sessions'[s] = row
        /\ \A x \in Sessions \ {s} : sessions'[x] = sessions[x]
    BY <2>1, <2>2 DEF AccInv, AccTyped
  <2>4. Registered' = Registered
    BY <2>1 DEF Registered
  <2>5. AccTyped'
    BY <2>1, <2>3 DEF AccInv, AccTyped
  <2>6. Informed'
    BY <2>1, <2>2, <2>3, <2>4 DEF AccInv, Informed
  <2>7. Sound'
    BY <2>1, <2>2, <2>3, <2>4 DEF AccInv, Sound, AccTyped
  <2> QED
    BY <2>5, <2>6, <2>7 DEF AccInv
<1> QED
  BY <1>1, <1>2, <1>3

LEMMA ReadsKeep ==
  ASSUME AccInv, NEW r \in Requests,
         \/ \E u \in Users : SetupCheck(r, u) \/ LoginVerify(r, u)
         \/ \E s \in Sessions : Resolve(r, s) \/ ChangeVerify(r, s)
  PROVE  AccInv'
<1>1. ASSUME NEW u \in Users, SetupCheck(r, u) PROVE AccInv'
  <2> DEFINE q == [NoReq EXCEPT !.op = "setup", !.user = u]
  <2>1. q \in RequestRow
    BY NoReqKnows DEF RequestRow
  <2>2. Knows(q)
    BY DEF NoReq, Knows
  <2> QED
    BY <1>1, <2>1, <2>2, ReadKeeps DEF SetupCheck
<1>2. ASSUME NEW u \in Users, LoginVerify(r, u) PROVE AccInv'
  <2> DEFINE q == [NoReq EXCEPT !.op = "login", !.user = u, !.pw = password[u], !.at = newest[u]]
  <2>1. q \in RequestRow
    <3>1. password[u] \in Nat /\ newest[u] \in Nat
      BY DEF AccInv, AccTyped
    <3> QED
      BY <3>1, NoReqKnows DEF RequestRow
  <2>2. Knows(q)
    BY <1>2 DEF LoginVerify, NoReq, Knows, Registered, AccInv, Sound
  <2> QED
    BY <1>2, <2>1, <2>2, ReadKeeps DEF LoginVerify
<1>3. ASSUME NEW s \in Sessions, Resolve(r, s) PROVE AccInv'
  <2> DEFINE q == [NoReq EXCEPT !.op = "touch", !.user = sessions[s].user, !.sid = s, !.at = clock]
  <2>1. sessions[s].user # NoOne /\ sessions[s].user \in Registered
    BY <1>3 DEF Resolve, Usable, AccInv, Sound
  <2>2. q \in RequestRow
    <3>1. s \in 0..MaxSessions /\ clock \in Nat /\ sessions[s].user \in Users
      BY <2>1 DEF AccInv, AccTyped, Sessions, Registered
    <3> QED
      BY <3>1, NoReqKnows DEF RequestRow
  <2>3. Knows(q)
    BY <2>1 DEF NoReq, Knows, Registered, AccInv, AccTyped
  <2> QED
    BY <1>3, <2>2, <2>3, ReadKeeps DEF Resolve
<1>4. ASSUME NEW s \in Sessions, ChangeVerify(r, s) PROVE AccInv'
  <2> DEFINE q == [NoReq EXCEPT !.op = "change", !.user = sessions[s].user, !.sid = s]
  <2>1. sessions[s].user # NoOne /\ sessions[s].user \in Registered
    BY <1>4 DEF ChangeVerify, Usable, AccInv, Sound
  <2>2. q \in RequestRow
    <3>1. s \in 0..MaxSessions /\ clock \in Nat /\ sessions[s].user \in Users
      BY <2>1 DEF AccInv, AccTyped, Sessions, Registered
    <3> QED
      BY <3>1, NoReqKnows DEF RequestRow
  <2>3. Knows(q)
    BY <2>1 DEF NoReq, Knows, Registered
  <2> QED
    BY <1>4, <2>2, <2>3, ReadKeeps DEF ChangeVerify
<1> QED
  BY <1>1, <1>2, <1>3, <1>4

LEMMA AccInvariant == AccSpec => []AccInv
<1>1. AccInv /\ [AccNext]_accVars => AccInv'
  <2> SUFFICES ASSUME AccInv, [AccNext]_accVars PROVE AccInv'
    OBVIOUS
  <2>1. CASE AccNext
    BY <2>1, AloneKeeps, ReadsKeep, SetupInsertKeeps, LoginStartKeeps, ChangeCommitKeeps,
       TouchKeeps DEF AccNext
  <2>2. CASE UNCHANGED accVars
    BY <2>2 DEF accVars, AccInv, AccTyped, Informed, Sound, Registered
  <2> QED
    BY <2>1, <2>2
<1> QED
  BY <1>1, InitHolds, PTL DEF AccSpec

\* Every column keeps its type (the user and web session rows).
THEOREM AccTypes == AccSpec => []AccTypeOK
<1>1. AccInv => AccTypeOK
  BY DEF AccInv, AccTyped, Informed, AccTypeOK, SessionRow, RequestRow
<1> QED
  BY <1>1, AccInvariant, PTL

\* A session that was signed out stays so, sessions of an older password do not
\* work, and there is one account, but for the overlaps that SessionsEnd names
\* (recon/orchestrator/auth.py).
THEOREM SessionsEndHolds == AccSpec => []SessionsEnd
<1>1. AccInv => SessionsEnd
  <2> SUFFICES ASSUME AccInv PROVE SessionsEnd
    OBVIOUS
  <2>1. ASSUME NEW s \in Sessions, Usable(s)
        PROVE  /\ s \notin closed
               /\ \/ sessions[s].pw = newest[sessions[s].user]
                  \/ sessions[s].late \/ "rehash" \in clashed
    BY <2>1 DEF Usable, AccInv, Sound
  <2>2. ASSUME \A u, v \in Registered : u = v PROVE Cardinality(Registered) <= 1
    <3>1. CASE Registered = {}
      BY <3>1, FS_EmptySet
    <3>2. CASE Registered # {}
      <4>1. PICK u \in Registered : Registered = {u}
        BY <2>2, <3>2
      <4>2. Cardinality({u}) = 1
        BY FS_Singleton
      <4> QED
        BY <4>1, <4>2
    <3> QED
      BY <3>1, <3>2
  <2> QED
    BY <2>1, <2>2 DEF AccInv, Sound, SessionsEnd
<1> QED
  BY <1>1, AccInvariant, PTL
=============================================================================
