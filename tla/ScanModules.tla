---------------------------- MODULE ScanModules ----------------------------
(***************************************************************************)
(* All scan modules over what they have in common: one engagement learns   *)
(* facts and may be given an override, then one of its modules runs.       *)
(***************************************************************************)
EXTENDS ActiveModules, NameDiscovery, WebModules, OsintModules

\* Modules whose body returns by itself when its items are done.
Plain == DOMAIN Reads \ {"ct_subdomains", "subdomain_recurse", "passive_subdomains", "github_org"}

WorkNext ==
  \/ \E f \in Facts : Learn(f)
  \/ AllowOutOfScope \/ BodyStops \/ BodyCut \/ OrphanExits
  \/ \E m \in Plain : BodyReturns(m)
  \/ ActiveNext \/ DiscoveryNext \/ WebNext \/ OsintNext

WorkSpec == WorkInit /\ [][WorkNext]_workVars

-----------------------------------------------------------------------------
(* Property *)

\* What the passive modules record is earned by what they asked (dns, the
\* recursion and the permutations), a probed host is told of (probe_http,
\* http_analyzer), and what OSINT sources told is recorded as they told it.
PassiveTold == DiscoveriesGrounded /\ ProbesTold /\ OsintTold
=============================================================================
