----------------------------- MODULE MCScanRun -----------------------------
(* Instances of ScanRun for TLC: a run of three modules (two passive, one    *)
(* active) or of two (one and one), two executor slots, and one or two       *)
(* requests handled at the same time.                                        *)
EXTENDS ScanRun, TLC

CONSTANTS t1, t2, r1, r2

OneRequest   == {r1}
TwoRequests  == {r1, r2}
TwoExecutors == {t1, t2}
LastOf2 == {2}
LastOf3 == {3}

\* Sound for the safety runs: executors and requests are never compared but
\* for equality.
SlotSymmetry == Permutations(Executors) \union Permutations(Requests)
=============================================================================
