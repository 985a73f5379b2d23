--------------------------- MODULE PlatformProofs ---------------------------
(***************************************************************************)
(* The components that MCPlatform checks side by side.  Each behaviour of  *)
(* it is one of every component, so that what is proved of a component     *)
(* alone holds of the whole.                                               *)
(***************************************************************************)
EXTENDS MCPlatform, RecordsProofs, ScanModulesProofs, WalkProofs

\* A step of the platform is a step of one component and leaves the variables
\* of all others alone.
LEMMA OneMoves ==
  ASSUME [Next]_allVars
  PROVE  /\ [CorrNext]_corrVars /\ [DiffNext]_diffVars /\ [WorkNext]_workVars
         /\ [CrawlNext]_crawlVars /\ [GitNext]_gitVars /\ [AccNext]_accVars
         /\ [CveNext]_cveVars /\ focus' = focus
<1>1. \/ CorrOnly \/ DiffOnly \/ WorkOnly \/ CrawlOnly \/ GitOnly \/ AccOnly \/ CveOnly
      \/ UNCHANGED allVars
  BY DEF Next
<1>2. CASE CorrOnly
  BY <1>2, Zenon DEF CorrOnly
<1>3. CASE DiffOnly
  BY <1>3, Zenon DEF DiffOnly
<1>4. CASE WorkOnly
  BY <1>4, Zenon DEF WorkOnly
<1>5. CASE CrawlOnly
  BY <1>5, Zenon DEF CrawlOnly
<1>6. CASE GitOnly
  BY <1>6, Zenon DEF GitOnly
<1>7. CASE AccOnly
  BY <1>7, Zenon DEF AccOnly
<1>8. CASE CveOnly
  BY <1>8, Zenon DEF CveOnly
<1>9. CASE UNCHANGED allVars
  BY <1>9 DEF allVars
<1> QED
  BY <1>1, <1>2, <1>3, <1>4, <1>5, <1>6, <1>7, <1>8, <1>9

\* Every component runs in the platform as it runs alone: none of them reads or
\* writes what another keeps, and only the constants are common.
THEOREM PlatformRunsAll ==
  Spec => CorrSpec /\ DiffSpec /\ WorkSpec /\ CrawlSpec /\ GitSpec /\ AccSpec /\ CveSpec
<1>1. Init => /\ CorrInit /\ DiffInit /\ WorkInit /\ CrawlInit /\ GitInit /\ AccInit /\ CveInit
  BY DEF Init
<1> QED
  BY <1>1, OneMoves, PTL
  DEF Spec, CorrSpec, DiffSpec, WorkSpec, CrawlSpec, GitSpec, AccSpec, CveSpec

\* The component that runs keeps the types of its state, whichever it is.
THEOREM PlatformTypes == Spec => []PlatformTypeOK
<1>1. CorrTypeOK /\ DiffTypeOK /\ CrawlTypeOK /\ GitTypeOK /\ AccTypeOK /\ CveTypeOK
        => PlatformTypeOK
  BY DEF PlatformTypeOK
<1> QED
  BY <1>1, PlatformRunsAll, CorrTypes, DiffTypes, CrawlTypes, GitTypes, AccTypes, CveTypes, PTL

\* Everything that is promised of the components holds of the platform they make
\* up: assets settle and are earned, deltas chain, scope is kept, actions are
\* audited, what is found is told, sessions end, CVEs are matched.
THEOREM PlatformKeepsAll ==
  Spec => [](/\ GraphSettles /\ ConfidenceEarned /\ ExcludedNotOffered /\ DeltaChain
             /\ TargetsAccounted /\ ScopeKept /\ ActionsAudited /\ PassiveTold
             /\ CrawlCovers /\ SecretsFound /\ SessionsEnd /\ CvesTold)
BY PlatformRunsAll, GraphsSettle, ConfidenceIsEarned, ExcludedStays, DeltasChain,
   TargetsAreAccounted, ScopeIsKept, ActionsAreAudited, PassiveIsTold, CrawlCoversAll,
   SecretsAreFound, SessionsEndHolds, CvesAreTold, PTL
=============================================================================
