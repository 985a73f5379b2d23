----------------------------- MODULE ModuleWork -----------------------------
(***************************************************************************)
(* What the bodies of the scan modules have in common: they read what the  *)
(* engagement knows (recon/modules/base.py known_*, _live_hosts.py), take  *)
(* the targets the scope allows (recon/core/scope.py, _targets.py), work   *)
(* through them one item at a time, and leave evidence and audit rows.     *)
(* Between two items check_alive may end the module; a hard timeout or a   *)
(* shutdown ends it anywhere, also while an external tool runs.            *)
(*                                                                         *)
(* ModuleSession models what becomes of requests, rows and commits; here a *)
(* request is the set of hosts it contacts and a row is recorded at once.  *)
(***************************************************************************)
EXTENDS Integers, FiniteSets

CONSTANTS
  Facts,        \* what passive modules may have learned before
  Hosts,        \* host names
  Addresses,    \* IP addresses
  ScopeHosts,   \* names that an in-scope host or domain pattern matches
  ExcludedHosts,
  ScopeCidrs,   \* in-scope networks, as sets of addresses
  ExcludedNets, \* addresses in an excluded network
  RoeHosts,     \* the names the rules of engagement list, patterns cut to the apex
  NetworkOf,    \* what is really a network of at most 256 addresses: the address
                \* that it is classified by
  AddressOf,    \* what a name resolves to while the module runs
  MaxFacts,     \* bound: facts learned
  Reads         \* bound: the kinds of facts, and "override", that a module
                \* reads; it is started over others never

ASSUME WorkAssumption ==
  /\ RoeHosts \union ScopeHosts \union ExcludedHosts \subseteq Hosts
  /\ DOMAIN AddressOf \subseteq Hosts /\ Hosts \intersect Addresses = {}
  /\ DOMAIN NetworkOf \subseteq Hosts \ (ScopeHosts \union ExcludedHosts)
  /\ \A f \in Facts : /\ f.what \in {"name", "a", "asset_host"} => f.host \in Hosts
                      /\ f.what \in {"a", "asset_ip"} => f.ip \in Addresses

VARIABLES
  facts,    \* evidence and assets of the engagement
  override, \* allow_out_of_scope of the run
  mod,      \* the module that is run, "none" before
  at,       \* where its body is
  todo,     \* items of work left
  seen,     \* what the module has dealt with or remembers
  spent,    \* what it has used of its budget
  touched,  \* hosts it contacted: <<module, host>>
  audited,  \* what it audited: <<module, item>>
  noted,    \* what it recorded: <<module, what, item>>
  tool,     \* its external process: "none", "running", or "orphan"
  ended     \* how it ended: "no" while it runs

workVars == <<facts, override, mod, at, todo, seen, spent,
              touched, audited, noted, tool, ended>>

WorkInit ==
  /\ facts = {} /\ override = FALSE
  /\ mod = "none" /\ at = "learn" /\ todo = {} /\ seen = {} /\ spent = 0
  /\ touched = {} /\ audited = {} /\ noted = {}
  /\ tool = "none" /\ ended = "no"

-----------------------------------------------------------------------------
(* Scope: ScopeManager.classify *)

\* An exclusion wins; what nothing matches is flagged.  The addresses count
\* when the caller knows them; of a network, "/.." is cut off.
Classify(v, ips) ==
  LET own == ips \union ({v} \intersect Addresses)
                 \union (IF v \in DOMAIN NetworkOf THEN {NetworkOf[v]} ELSE {})
  IN  IF v \in ExcludedHosts \/ own \intersect ExcludedNets # {} THEN "excluded"
      ELSE IF v \in ScopeHosts \/ own \intersect UNION ScopeCidrs # {} THEN "in_scope"
      ELSE "flagged"

\* The gate of the HTTP client, and ModuleContext.scoped_targets.
MayTouch(v) ==
  \/ Classify(v, {}) = "in_scope"
  \/ Classify(v, {}) = "flagged" /\ override

\* The client's gate lets an override pass everything (ModuleSession).
MayRequest(v) == Classify(v, {}) = "in_scope" \/ override

ScopedTargets(vs) == {v \in vs : MayTouch(v)}

-----------------------------------------------------------------------------
(* What is known *)

\* known_values and known_evidence: of every run of the engagement.
Known(whats) == {f.host : f \in {g \in facts : g.what \in whats}}
Named == Known({"name", "old"})

\* Only port_scan records evidence of the type ip.
KnownIps == {f.ip : f \in {g \in facts : g.what = "ip"}}

\* known_assets: by the status the last correlation gave them.
KnownAssets(whats) ==
  {f.host : f \in {g \in facts : g.what \in whats /\ (override \/ g.status = "in_scope")}}

\* _live_hosts: live and silent, as probe_http found them in any run.
ProbedHosts == Known({"live", "silent"})
LiveHosts   == Known({"live"})

-----------------------------------------------------------------------------
(* Running a body *)

Learn(f) ==
  /\ mod = "none" /\ Cardinality(facts) < MaxFacts /\ f \notin facts
  /\ facts' = facts \union {f}
  /\ UNCHANGED <<override, mod, at, todo, seen, spent, touched, audited, noted, tool, ended>>

AllowOutOfScope ==
  /\ mod = "none" /\ ~override /\ override' = TRUE
  /\ UNCHANGED <<facts, mod, at, todo, seen, spent, touched, audited, noted, tool, ended>>

Starts(m)  ==
  /\ mod = "none" /\ mod' = m
  /\ {f.what : f \in facts} \subseteq Reads[m]
  /\ override => "override" \in Reads[m]
  /\ UNCHANGED <<facts, override, tool>>
In(m, a)   == mod = m /\ at = a /\ ended = "no"
Goes(a)    == at' = a /\ UNCHANGED <<facts, override, mod>>
Stays      == UNCHANGED <<facts, override, mod, at>>
Notes(new) == noted' = noted \union {<<mod', n[1], n[2]>> : n \in new}
Audits(is) == audited' = audited \union {<<mod', i>> : i \in is}
Touches(hs) == touched' = touched \union {<<mod', h>> : h \in hs}
NoNotes   == UNCHANGED noted
NoAudits  == UNCHANGED audited
NoTouches == UNCHANGED touched
Ends(how)  == ended' = how
GoesOn     == UNCHANGED ended

\* The module's work is done.
BodyReturns(m) ==
  /\ In(m, "work") /\ todo = {} /\ tool = "none"
  /\ Ends("returned")
  /\ UNCHANGED <<facts, override, mod, at, todo, seen, spent, touched, audited, noted, tool>>

\* check_alive raises between two items: nothing is in progress, but for the
\* addresses of a name server that dns_axfr goes through and the wildcards
\* that subdomain_permute looks for.
BodyStops ==
  /\ mod # "none" /\ ended = "no" /\ tool = "none"
  /\ at = "work" \/ <<mod, at>> \in {<<"port_scan", "audit">>, <<"dns_axfr", "asked">>,
                                   <<"subdomain_permute", "wildcard">>}
  /\ Ends("stopped")
  /\ UNCHANGED <<facts, override, mod, at, todo, seen, spent, touched, audited, noted, tool>>

\* The task is cancelled: a hard timeout, or the shutdown.  run_command kills
\* its process on its own timeout only, so a tool goes on.
BodyCut ==
  /\ mod # "none" /\ ended = "no"
  /\ Ends("cut")
  /\ tool' = IF tool = "running" THEN "orphan" ELSE tool
  /\ UNCHANGED <<facts, override, mod, at, todo, seen, spent, touched, audited, noted>>

\* The tool that was left behind ends by itself.
OrphanExits ==
  /\ tool = "orphan" /\ tool' = "none"
  /\ UNCHANGED <<facts, override, mod, at, todo, seen, spent, touched, audited, noted, ended>>

-----------------------------------------------------------------------------
(* Property *)

\* Modules that leave the gate to the HTTP client.
ThroughClient == {"http_analyzer", "tech_fingerprint", "js_analyzer", "email_security"}

\* A target of this run by its A record: at an address of an in-scope network.
InScopeByAddress ==
  {f.host : f \in {g \in facts : g.what = "a" /\ g.ip \in (UNION ScopeCidrs) \ ExcludedNets}}

\* Whatever the graph, an earlier run or the override offer: a host that is
\* excluded by its name (or is itself an address that is) is contacted only
\* under an override, and only by a module that leaves the gate to the HTTP
\* client - never by a tool, a transfer or a probe; and a host
\* that the rules of engagement do not match, only when the operator has
\* allowed it, or by nmap when its A record leads into an in-scope network, or
\* by ffuf when the correlation has put it in scope.
Allowed(m, h) ==
  LET s == Classify(h, {}) IN
  /\ s = "excluded" => override /\ m \in ThroughClient
  /\ s = "flagged" => \/ override
                      \/ m = "port_scan" /\ h \in InScopeByAddress
                      \/ m = "dir_fuzz" /\ h \in KnownAssets({"asset_host", "asset_url"})

ScopeKept == \A c \in touched : Allowed(c[1], c[2])
=============================================================================
