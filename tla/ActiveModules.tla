--------------------------- MODULE ActiveModules ---------------------------
(***************************************************************************)
(* The active modules that act on their own, outside of the HTTP client or *)
(* through it: port_scan (nmap), dir_fuzz (ffuf), exposure_checks,         *)
(* dns_axfr and subdomain_brute (recon/modules/active/, net/external.py,   *)
(* _soft404.py, _dns_common.py).                                           *)
(***************************************************************************)
EXTENDS TargetResolution

CONSTANTS
  NameServers, \* of each domain
  Paths        \* what exposure_checks asks a root for, but for GraphQL

-----------------------------------------------------------------------------
(* Running a tool: audit, run_command, what it left *)

ToolOf == [port_scan |-> "nmap", dir_fuzz |-> "ffuf"]

Tooled == mod \in DOMAIN ToolOf

AuditTool_Late ==
  /\ Tooled /\ In(mod, "audit")
  /\ Goes("launch") /\ NoAudits
  /\ UNCHANGED <<todo, seen, spent, touched, noted, tool, ended>>

\* The call is audited with its arguments before it is made.
AuditTool ==
  /\ Tooled /\ In(mod, "audit")
  /\ Goes("launch") /\ Audits(seen)
  /\ UNCHANGED <<todo, seen, spent, touched, noted, tool, ended>>

LaunchTool ==
  /\ Tooled /\ In(mod, "launch")
  /\ Goes("wait") /\ Touches(seen) /\ tool' = "running"
  /\ UNCHANGED <<todo, seen, spent, audited, noted, ended>>

\* The tool exits, with output or with an error, or is killed on its timeout;
\* what ffuf had written by then is used all the same.  Nobody looks at the
\* kill switch until then.
ToolExits(output, fails) ==
  /\ Tooled /\ In(mod, "wait") /\ tool' = "none"
  /\ output \/ fails
  /\ output /\ fails => mod = "dir_fuzz"
  /\ Goes(IF output THEN "parse" ELSE "work")
  /\ IF fails THEN Notes({<<"error", ToolOf[mod]>>}) ELSE NoNotes
  /\ seen' = IF output THEN seen ELSE {}
  /\ UNCHANGED <<todo, spent, touched, audited, ended>>

\* What it found becomes evidence, row by row, with check_alive in between:
\* a stop keeps what was recorded so far.
ParseOutput(found) ==
  /\ Tooled /\ In(mod, "parse") /\ found \subseteq seen
  /\ Goes("work") /\ Notes({<<"found", h>> : h \in found})
  /\ seen' = {}
  /\ UNCHANGED <<todo, spent, touched, audited, tool>>
  /\ GoesOn \/ Ends("stopped")

\* What nmap printed is no XML: an error.
ParseFails ==
  /\ In("port_scan", "parse") /\ Goes("work") /\ seen' = {}
  /\ Notes({<<"error", "nmap">>})
  /\ UNCHANGED <<todo, spent, touched, audited, tool, ended>>

-----------------------------------------------------------------------------
(* port_scan *)

\* _dedupe_by_ip: one name for each address, the address itself if it is a
\* target; names that do not resolve stay.  (The first name in order stands
\* for any.)
AddrOf(v) == IF v \in Addresses THEN v ELSE AddressOf[v]
Resolves(v) == v \in Addresses \/ v \in DOMAIN AddressOf

DedupeByIp(vs) ==
  {v \in vs : ~Resolves(v)}
    \union {IF a \in vs THEN a ELSE CHOOSE v \in vs : Resolves(v) /\ AddrOf(v) = a :
              a \in {AddrOf(v) : v \in {w \in vs : Resolves(w)}}}

\* nmap is not installed: an error and SKIPPED.
PortScanWithoutNmap ==
  /\ Starts("port_scan") /\ at' = "work"
  /\ Notes({<<"error", "nmap">>, <<"skipped", "missing_binary">>})
  /\ NoAudits /\ NoTouches /\ Ends("returned")
  /\ UNCHANGED <<todo, seen, spent>>

\* All targets go into one call; none at all is SKIPPED, with the account.
PortScanStart ==
  LET r  == Resolution({"ip", "hostname"}, TRUE)
      ts == DedupeByIp({v \in EligibleValues(r) :
                          ~Unsafe(v) /\ Classify(v, {}) # "excluded"})
  IN  /\ Starts("port_scan") /\ NoAudits /\ NoTouches
      /\ IF ts = {}
           THEN /\ at' = "work" /\ seen' = {} /\ Ends("returned")
                /\ Notes({<<"account", Accounting(r)>>, <<"skipped", "zero_eligible_targets">>})
           ELSE /\ at' = "audit" /\ seen' = ts /\ GoesOn
                /\ Notes({<<"account", Accounting(r)>>})
      /\ UNCHANGED <<todo, spent>>

-----------------------------------------------------------------------------
(* dir_fuzz and exposure_checks *)

\* _roots: the hosts with a known URL, and a guess for those that probe_http
\* never looked at.
Guessed == KnownAssets({"asset_host"}) \ (KnownAssets({"asset_url"}) \union ProbedHosts)

WebRoots_Unfiltered == KnownAssets({"asset_url"}) \union Guessed

WebRoots ==
  {h \in KnownAssets({"asset_url"}) \union Guessed : Classify(h, {}) # "excluded"}

\* Without ffuf or its word list the module notes an error and returns.
DirFuzzStart(ready) ==
  /\ Starts("dir_fuzz") /\ at' = "work"
  /\ todo' = IF ready THEN {h \in WebRoots : ~Unsafe(h)} ELSE {}
  /\ IF ready THEN NoNotes ELSE Notes({<<"error", "ffuf">>})
  /\ NoAudits /\ NoTouches /\ GoesOn
  /\ UNCHANGED <<seen, spent>>

FuzzRoot(h) ==
  /\ In("dir_fuzz", "work") /\ h \in todo
  /\ Goes("audit") /\ todo' = todo \ {h} /\ seen' = {h}
  /\ UNCHANGED <<spent, touched, audited, noted, tool, ended>>

ExposureStart ==
  /\ Starts("exposure_checks") /\ at' = "work"
  /\ todo' = WebRoots \X (Paths \union {"graphql"}) /\ seen' = {}
  /\ NoNotes /\ NoAudits /\ NoTouches /\ GoesOn
  /\ UNCHANGED spent

PathsLeft(h) == {w \in todo : w[1] = h /\ w[2] # "graphql"}

\* _check_host: one root at a time, its paths before GraphQL.
CheckTurn(h) ==
  /\ In("exposure_checks", "work") /\ <<h, "graphql">> \in todo
  /\ \A w \in todo : w[1] # h => Cardinality(PathsLeft(w[1])) = Cardinality(Paths)

\* An answer is remembered with its path; a request that fails is passed over.
CheckPath(h, p, answers) ==
  /\ CheckTurn(h) /\ <<h, p>> \in PathsLeft(h) /\ MayRequest(h)
  /\ todo' = todo \ {<<h, p>>} /\ Stays
  /\ seen' = IF answers THEN seen \union {<<h, p>>} ELSE seen
  /\ Touches({h})
  /\ UNCHANGED <<spent, audited, noted, tool, ended>>

\* A refusal by the scope gate leaves the root at once.
CheckRefused(h) ==
  /\ CheckTurn(h) /\ ~MayRequest(h)
  /\ todo' = {w \in todo : w[1] # h} /\ seen' = {} /\ Stays
  /\ UNCHANGED <<spent, touched, audited, noted, tool, ended>>

\* Of the answers, those that are no catch-all page (filter_soft_404) and that
\* the check of their path confirms.
RecordExposures(h, kept) ==
  /\ CheckTurn(h) /\ PathsLeft(h) = {} /\ MayRequest(h) /\ kept \subseteq seen
  /\ Goes("graphql") /\ seen' = {h}
  /\ Notes({<<"exposure", c>> : c \in kept})
  /\ UNCHANGED <<todo, spent, touched, audited, tool, ended>>

CheckGraphql(h, exposed) ==
  /\ In("exposure_checks", "graphql") /\ h \in seen /\ <<h, "graphql">> \in todo
  /\ MayRequest(h)
  /\ Goes("work") /\ todo' = todo \ {<<h, "graphql">>} /\ seen' = {}
  /\ Touches({h})
  /\ IF exposed THEN Notes({<<"exposure", <<h, "graphql">> >>}) ELSE NoNotes
  /\ UNCHANGED <<spent, audited, tool, ended>>

-----------------------------------------------------------------------------
(* dns_axfr and subdomain_brute *)

\* The apex domains: those of the rules of engagement and the known ones.
Apexes == ScopedTargets(RoeHosts \union KnownAssets({"asset_host"}))

AxfrStart ==
  /\ Starts("dns_axfr") /\ at' = "work"
  /\ todo' = {<<d, ns>> : d \in Apexes, ns \in NameServers} /\ seen' = {}
  /\ NoNotes /\ NoAudits /\ NoTouches /\ GoesOn
  /\ UNCHANGED spent

\* The domain is done with before the next.
AxfrTurn(d) ==
  In("dns_axfr", "work") /\ \A w \in todo : w[1] # d => {w[1]} \X NameServers \subseteq todo

\* There are no name servers, or they cannot be looked up, which is an error:
\* nothing is asked of the domain.
NoNameServers(d, fails) ==
  /\ AxfrTurn(d) /\ {d} \X NameServers \subseteq todo
  /\ todo' = {w \in todo : w[1] # d} /\ Stays
  /\ IF fails THEN Notes({<<"error", d>>}) ELSE NoNotes
  /\ UNCHANGED <<seen, spent, touched, audited, tool, ended>>

\* One name server is asked for the zone, at each of its addresses until one
\* grants it, with check_alive in between.
AskNameServer(d, ns) ==
  /\ AxfrTurn(d) /\ <<d, ns>> \in todo
  /\ Goes("asked") /\ seen' = seen \union {<<d, ns>>} /\ Touches({d})
  /\ UNCHANGED <<todo, spent, audited, noted, tool, ended>>

\* What it said is audited.
AuditTransfer(d, ns, granted) ==
  /\ In("dns_axfr", "asked") /\ <<d, ns>> \in seen \intersect todo
  /\ Goes("told") /\ Audits({<<d, ns, granted>>})
  /\ UNCHANGED <<todo, seen, spent, touched, noted, tool, ended>>

Granted(d, ns) == <<mod, <<d, ns, TRUE>> >> \in audited
Refusers(d)    == {ns \in NameServers : <<mod, <<d, ns, FALSE>> >> \in audited}

\* A granted zone is evidence.  After the last name server, a domain that all
\* of them refused is recorded so.
RecordTransfer(d, ns) ==
  LET over == \A w \in todo : w[1] = d => w[2] = ns
  IN  /\ In("dns_axfr", "told") /\ <<d, ns>> \in seen \intersect todo
      /\ Goes("work") /\ todo' = todo \ {<<d, ns>>}
      /\ Notes((IF Granted(d, ns) THEN {<<"zone", d>>} ELSE {})
                 \union (IF over /\ \A n \in NameServers : ~Granted(d, n)
                         THEN {<<"refused", <<d, Refusers(d)>> >>} ELSE {}))
      /\ UNCHANGED <<seen, spent, touched, audited, tool, ended>>

\* Only apexes that are zones are tried; to learn which are, each of them is
\* looked up, of which nothing is audited.
BruteStart(zones) ==
  /\ Starts("subdomain_brute") /\ at' = "work"
  /\ todo' = zones \intersect Apexes /\ seen' = {}
  /\ Touches(Apexes)
  /\ NoNotes /\ NoAudits /\ GoesOn
  /\ UNCHANGED spent

\* A zone that answers every name is recorded and not tried.
BruteWildcard(d) ==
  /\ In("subdomain_brute", "work") /\ d \in todo /\ seen \intersect todo = {}
  /\ Goes("told") /\ seen' = seen \union {d}
  /\ Notes({<<"wildcard", d>>})
  /\ UNCHANGED <<todo, spent, touched, audited, tool, ended>>

\* A batch of labels: what resolves is recorded.
BruteBatch(d, hit) ==
  /\ In("subdomain_brute", "work") /\ d \in todo /\ seen \intersect todo \subseteq {d}
  /\ Stays /\ seen' = seen \union {d} /\ Touches({d})
  /\ IF hit THEN Notes({<<"subdomain", d>>}) ELSE NoNotes
  /\ UNCHANGED <<todo, spent, audited, tool, ended>>

\* The apex is audited after its last batch or its wildcard, so a stop in
\* between leaves its queries without a row.
BruteAudit(d) ==
  /\ mod = "subdomain_brute" /\ at \in {"work", "told"} /\ ended = "no"
  /\ d \in seen \intersect todo
  /\ Goes("work") /\ todo' = todo \ {d} /\ Audits({d})
  /\ UNCHANGED <<seen, spent, touched, noted, tool, ended>>

ActiveNext ==
  \/ AuditTool \/ LaunchTool
  \/ \E b \in BOOLEAN : DirFuzzStart(b) \/ \E c \in BOOLEAN : ToolExits(b, c)
  \/ mod \in DOMAIN ToolOf /\ \E hs \in SUBSET seen : ParseOutput(hs)
  \/ ParseFails
  \/ PortScanWithoutNmap \/ PortScanStart \/ ExposureStart \/ AxfrStart
  \/ \E h \in Hosts : FuzzRoot(h) \/ BruteWildcard(h) \/ BruteAudit(h) \/ CheckRefused(h)
  \/ \E h \in Hosts, b \in BOOLEAN : NoNameServers(h, b) \/ BruteBatch(h, b) \/ CheckGraphql(h, b)
  \/ \E h \in Hosts, p \in Paths, b \in BOOLEAN : CheckPath(h, p, b)
  \/ mod = "exposure_checks" /\ \E h \in Hosts, kept \in SUBSET seen : RecordExposures(h, kept)
  \/ \E h \in Hosts, ns \in NameServers :
       \/ AskNameServer(h, ns) \/ RecordTransfer(h, ns)
       \/ \E b \in BOOLEAN : AuditTransfer(h, ns, b)
  \/ mod = "none" /\ \E hs \in SUBSET Apexes : BruteStart(hs)

-----------------------------------------------------------------------------
(* Properties *)

\* A name server that was asked, or an apex that was tried, without its row.
Unaudited ==
  IF mod = "dns_axfr"
  THEN {w \in seen : \A b \in BOOLEAN : <<mod, <<w[1], w[2], b>> >> \notin audited}
  ELSE IF mod = "subdomain_brute" THEN {d \in seen : <<mod, d>> \notin audited} ELSE {}

\* What a module sends past the HTTP client it audits itself.  A host that nmap
\* or ffuf was pointed at was audited before, however the tool or the module
\* ends.  A name server that was asked for a zone is audited with its answer,
\* and an apex that a brute force tried, wildcard or not, when it is done with:
\* wherever the module is stopped or cut, at most one is without its row, the
\* one that it was at, and none when it returns.  And "refused by all name
\* servers" is only recorded when all of them were asked and none granted.
\* The lookups that tell which apexes are zones have no row: nothing is said of them.
ActionsAudited ==
  /\ \A c \in touched : c[1] \in DOMAIN ToolOf => c \in audited
  /\ \A w, v \in Unaudited : w = v /\ w \in todo
  /\ ended = "returned" => Unaudited = {}
  /\ \A n \in noted : n[1] = "dns_axfr" /\ n[2] = "refused" =>
       \A ns \in NameServers :
         /\ <<"dns_axfr", <<n[3][1], ns, FALSE>> >> \in audited /\ ns \in n[3][2]
         /\ <<"dns_axfr", <<n[3][1], ns, TRUE>> >> \notin audited
=============================================================================
