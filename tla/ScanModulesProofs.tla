-------------------------- MODULE ScanModulesProofs --------------------------
(***************************************************************************)
(* What one scan module may contact, what it leaves in the audit log, that *)
(* its targets are accounted for, and that what a passive module records   *)
(* is what it was told: for any facts, scope, exclusions, rules of         *)
(* engagement, name servers, indexes and answers of the network.           *)
(***************************************************************************)
EXTENDS ScanModules, FiniteSetTheorems, TLAPS

-----------------------------------------------------------------------------
(* Targets *)

Candidates == FromRoe \union UNION {FromFact(f) : f \in facts}

\* Every candidate comes from the rules of engagement, of a fact of this run or
\* of an asset; only the row of an A record gives an address along.
LEMMA CandidateIs ==
  ASSUME facts \subseteq Facts, NEW c \in Candidates
  PROVE  /\ c.type \in {"ip", "hostname"} /\ c.kind \in {"current", "roe", "prior"}
         /\ \/ c.ips = {}
            \/ \E f \in facts : f.what = "a" /\ c.value = f.host /\ c.ips = {f.ip}
         /\ c.kind = "prior" => c.ips = {} /\ (c.type = "hostname" \/ c.value \in Addresses)
<1>1. CASE c \in FromRoe
  BY <1>1 DEF FromRoe, Candidate
<1>2. ASSUME NEW f \in facts, c \in FromFact(f)
      PROVE  /\ c.type \in {"ip", "hostname"} /\ c.kind \in {"current", "roe", "prior"}
             /\ c.ips = {} \/ (f.what = "a" /\ c.value = f.host /\ c.ips = {f.ip})
             /\ c.kind = "prior" => c.ips = {} /\ (c.type = "hostname" \/ c.value \in Addresses)
  <2>1. f.what = "asset_ip" => f.ip \in Addresses
    BY WorkAssumption DEF WorkAssumption
  <2>2. CASE f.what = "a"
    BY <1>2, <2>2 DEF FromFact, Candidate
  <2>3. CASE f.what = "asset_ip"
    BY <1>2, <2>1, <2>3 DEF FromFact, Candidate
  <2>4. CASE f.what \notin {"a", "asset_ip"}
    BY <1>2, <2>4 DEF FromFact, Candidate
  <2> QED
    BY <2>2, <2>3, <2>4
<1> QED
  BY <1>1, <1>2 DEF Candidates

\* Of the candidates for one value a best one stays, and no other.
LEMMA BestIs ==
  ASSUME NEW cs, \A d \in cs : d.kind \in {"current", "roe", "prior"}
  PROVE  /\ \A c \in cs : \E b \in BestOf(cs) : Key(b) = Key(c)
         /\ \A b \in BestOf(cs) : b \in cs /\ \A d \in cs : Key(d) = Key(b) => KindRank(b) <= KindRank(d)
         /\ \A b, d \in BestOf(cs) : Key(b) = Key(d) => b = d
<1> DEFINE best   == {c \in cs : \A d \in cs : Key(d) = Key(c) => KindRank(c) <= KindRank(d)}
           keys   == {Key(d) : d \in cs}
           one(k) == CHOOSE c \in best : Key(c) = k
<1>1. \A d \in cs : KindRank(d) \in 0..2
  BY DEF KindRank
<1>2. ASSUME NEW c \in cs PROVE \E b \in best : Key(b) = Key(c)
  <2> DEFINE same == {d \in cs : Key(d) = Key(c)}
  <2>1. PICK b \in same : \A d \in same : KindRank(b) <= KindRank(d)
    <3>1. CASE \E b \in same : KindRank(b) = 0
      BY <1>1, <3>1
    <3>2. CASE ~(\E b \in same : KindRank(b) = 0) /\ \E b \in same : KindRank(b) = 1
      BY <1>1, <3>2
    <3>3. CASE ~(\E b \in same : KindRank(b) = 0) /\ ~(\E b \in same : KindRank(b) = 1)
      BY <1>1, <3>3
    <3> QED
      BY <3>1, <3>2, <3>3
  <2> QED
    BY <2>1
<1>3. ASSUME NEW k \in keys PROVE one(k) \in best /\ Key(one(k)) = k
  <2>1. \E b \in best : Key(b) = k
    BY <1>2, <1>3
  <2> HIDE DEF best
  <2> QED
    BY <2>1
<1>4. BestOf(cs) = {one(k) : k \in keys}
  BY DEF BestOf
<1>5. \A b \in best : b \in cs /\ \A d \in cs : Key(d) = Key(b) => KindRank(b) <= KindRank(d)
  OBVIOUS
<1>6. \A c \in cs : Key(c) \in keys
  OBVIOUS
<1> HIDE DEF best, keys, one
<1> QED
  BY <1>3, <1>4, <1>5, <1>6

\* What port_scan resolves.
LEMMA ResolvedIs ==
  ASSUME facts \subseteq Facts
  PROVE  LET r == Resolution({"ip", "hostname"}, TRUE) IN
         /\ r.eligible = BestOf({c \in Candidates : Reason(c) = "none"})
         /\ r.excluded = {c \in BestOf({d \in Candidates : Reason(d) # "none"}) :
                            Key(c) \notin {Key(b) : b \in r.eligible}}
         /\ r.uncovered = Uncovered(r.eligible)
<1> DEFINE cs == {c \in FromRoe \union UNION {FromFact(f) : f \in facts} :
                    c.type \in {"ip", "hostname"} /\ (TRUE \/ c.kind # "prior")}
<1>1. cs = Candidates
  BY CandidateIs DEF Candidates
<1>2. /\ Resolution({"ip", "hostname"}, TRUE).eligible = BestOf({c \in cs : Reason(c) = "none"})
      /\ Resolution({"ip", "hostname"}, TRUE).excluded =
           {c \in BestOf({d \in cs : Reason(d) # "none"}) :
              Key(c) \notin {Key(b) : b \in BestOf({d \in cs : Reason(d) = "none"})}}
      /\ Resolution({"ip", "hostname"}, TRUE).uncovered =
           Uncovered(BestOf({c \in cs : Reason(c) = "none"}))
  BY DEF Resolution
<1> QED
  BY <1>1, <1>2

\* A target was not left out for a reason.
LEMMA EligibleIs ==
  ASSUME facts \subseteq Facts, NEW c \in Candidates, Reason(c) = "none"
  PROVE  Allowed("port_scan", c.value) /\ ~Unsafe(c.value)
<1>1. /\ ~Unsafe(c.value) /\ Classify(c.value, c.ips) # "excluded"
      /\ Classify(c.value, c.ips) = "flagged" => override
  BY DEF Reason
<1>2. CASE c.ips = {}
  BY <1>1, <1>2 DEF Allowed, Classify
<1>3. ASSUME NEW f \in facts, f.what = "a", c.value = f.host, c.ips = {f.ip}
      PROVE  Allowed("port_scan", c.value)
  <2> DEFINE bare == ({c.value} \intersect Addresses)
                       \union (IF c.value \in DOMAIN NetworkOf THEN {NetworkOf[c.value]} ELSE {})
             own == {f.ip} \union bare
  <2>1. /\ c.value \notin ExcludedHosts /\ own \intersect ExcludedNets = {}
        /\ c.value \in ScopeHosts \/ own \intersect UNION ScopeCidrs # {} \/ override
    <3>1. /\ {f.ip} \union ({c.value} \intersect Addresses)
               \union (IF c.value \in DOMAIN NetworkOf THEN {NetworkOf[c.value]} ELSE {}) = own
          /\ Classify(c.value, {f.ip}) # "excluded"
          /\ Classify(c.value, {f.ip}) = "flagged" => override
      BY <1>1, <1>3
    <3> HIDE DEF own
    <3> QED
      BY <3>1 DEF Classify
  <2>0. {} \union ({c.value} \intersect Addresses)
          \union (IF c.value \in DOMAIN NetworkOf THEN {NetworkOf[c.value]} ELSE {}) = bare
    OBVIOUS
  <2>2. Classify(c.value, {}) # "excluded"
    <3>1. c.value \notin ExcludedHosts /\ bare \intersect ExcludedNets = {}
      BY <2>1
    <3> HIDE DEF bare
    <3> QED
      BY <2>0, <3>1 DEF Classify
  <2>3. f.ip \in (UNION ScopeCidrs) \ ExcludedNets => c.value \in InScopeByAddress
    BY <1>3 DEF InScopeByAddress
  <2>4. CASE override
    BY <2>2, <2>4 DEF Allowed
  <2>5. CASE ~override /\ f.ip \in UNION ScopeCidrs
    BY <2>1, <2>2, <2>3, <2>5 DEF Allowed
  <2>6. CASE ~override /\ f.ip \notin UNION ScopeCidrs
    <3>1. c.value \in ScopeHosts \/ bare \intersect UNION ScopeCidrs # {}
      BY <2>1, <2>6
    <3>2. Classify(c.value, {}) = "in_scope"
      <4>1. c.value \notin ExcludedHosts /\ bare \intersect ExcludedNets = {}
        BY <2>1
      <4> HIDE DEF bare
      <4> QED
        BY <2>0, <3>1, <4>1 DEF Classify
    <3> QED
      BY <3>2 DEF Allowed
  <2> QED
    BY <2>4, <2>5, <2>6
<1> QED
  BY <1>1, <1>2, <1>3, CandidateIs

\* A value that this run found, at no excluded address, has a candidate of it.
LEMMA FoundFirst ==
  ASSUME facts \subseteq Facts, NEW c \in Candidates, Reason(c) = "none", c.kind = "prior",
         NEW f \in facts, f.what = "name" \/ (f.what = "a" /\ f.ip \notin ExcludedNets),
         f.host = c.value
  PROVE  \E d \in Candidates : Reason(d) = "none" /\ Key(d) = Key(c) /\ d.kind = "current"
<1>1. f.host \in Hosts /\ (f.what = "a" => f.ip \in Addresses) /\ Hosts \intersect Addresses = {}
  BY WorkAssumption DEF WorkAssumption
<1>2. c.ips = {} /\ c.type = "hostname"
  BY <1>1, CandidateIs
<1>3. /\ ~Unsafe(c.value) /\ Classify(c.value, {}) # "excluded"
      /\ Classify(c.value, {}) = "flagged" => override
  BY <1>2 DEF Reason
<1>4. CASE f.what = "name"
  <2> DEFINE d == Candidate(f.host, "hostname", "current", {})
  <2>1. d \in FromFact(f)
    BY <1>4 DEF FromFact
  <2>2. d.value = c.value /\ d.type = "hostname" /\ d.kind = "current" /\ d.ips = {}
    BY DEF Candidate
  <2> HIDE DEF d
  <2>3. Reason(d) = "none" /\ Key(d) = Key(c)
    BY <1>2, <1>3, <2>2 DEF Reason, Key
  <2> QED
    BY <2>1, <2>2, <2>3 DEF Candidates
<1>5. CASE f.what = "a" /\ f.ip \notin ExcludedNets
  <2> DEFINE d == Candidate(f.host, "hostname", "current", {f.ip})
  <2>1. d \in FromFact(f)
    BY <1>5 DEF FromFact
  <2>2. d.value = c.value /\ d.type = "hostname" /\ d.kind = "current" /\ d.ips = {f.ip}
    BY DEF Candidate
  <2> HIDE DEF d
  <2>3. /\ Classify(c.value, {f.ip}) # "excluded"
        /\ Classify(c.value, {f.ip}) = "flagged" => override
    BY <1>3, <1>5 DEF Classify
  <2>4. Reason(d) = "none" /\ Key(d) = Key(c)
    BY <1>2, <1>3, <2>2, <2>3 DEF Reason, Key
  <2> QED
    BY <2>1, <2>2, <2>4 DEF Candidates
<1> QED
  BY <1>4, <1>5

\* The targets of port_scan, whatever is known.
LEMMA Accounted == ASSUME facts \subseteq Facts PROVE TargetsAccounted
<1> DEFINE r    == Resolution({"ip", "hostname"}, TRUE)
           ok   == {c \in Candidates : Reason(c) = "none"}
           left == {c \in Candidates : Reason(c) # "none"}
           named == {Key(c) : c \in Candidates}
           in   == {Key(c) : c \in r.eligible}
           out  == {Key(c) : c \in r.excluded}
<1>1. /\ r.eligible = BestOf(ok) /\ r.uncovered = Uncovered(r.eligible)
      /\ r.excluded = {c \in BestOf(left) : Key(c) \notin in}
  BY ResolvedIs
<1> HIDE DEF r
<1>2. /\ \A c \in ok : \E b \in r.eligible : Key(b) = Key(c)
      /\ \A c \in left : \E b \in BestOf(left) : Key(b) = Key(c)
      /\ r.eligible \subseteq ok /\ BestOf(left) \subseteq left
      /\ \A b, d \in r.eligible : Key(b) = Key(d) => b = d
      /\ \A b, d \in BestOf(left) : Key(b) = Key(d) => b = d
      /\ \A b \in r.eligible, d \in ok : Key(d) = Key(b) => KindRank(b) <= KindRank(d)
  <2>1. \A d \in ok \union left : d.kind \in {"current", "roe", "prior"}
    BY CandidateIs
  <2> HIDE DEF ok, left
  <2> QED
    BY <1>1, <2>1, BestIs
<1>3. in \union out = named /\ in \intersect out = {}
  <2>1. in \subseteq named /\ out \subseteq named /\ in \intersect out = {}
    <3>1. \A c \in r.eligible : c \in Candidates
      BY <1>2
    <3>2. \A c \in r.excluded : c \in Candidates /\ Key(c) \notin in
      <4>1. \A c \in BestOf(left) : c \in Candidates
        BY <1>2
      <4> HIDE DEF left, in
      <4> QED
        BY <1>1, <4>1
    <3> QED
      BY <3>1, <3>2
  <2>2. ASSUME NEW c \in Candidates PROVE Key(c) \in in \union out
    <3>1. CASE c \in ok
      BY <1>2, <3>1
    <3>2. CASE c \in left
      <4>1. PICK b \in BestOf(left) : Key(b) = Key(c)
        BY <1>2, <3>2
      <4> QED
        BY <1>1, <4>1
    <3> QED
      BY <3>1, <3>2
  <2> QED
    BY <2>1, <2>2
<1>4. \A c \in r.eligible : Allowed("port_scan", c.value)
  BY <1>2, EligibleIs
<1>5. ASSUME NEW c \in r.eligible, c.kind = "prior", NEW f \in facts,
             f.what = "name" \/ (f.what = "a" /\ f.ip \notin ExcludedNets)
      PROVE  f.host # c.value
  <2> SUFFICES ASSUME f.host = c.value PROVE FALSE
    OBVIOUS
  <2>1. PICK d \in ok : Key(d) = Key(c) /\ d.kind = "current"
    BY <1>2, <1>5, FoundFirst
  <2>2. KindRank(d) = 0 /\ KindRank(c) = 2
    BY <1>5, <2>1 DEF KindRank
  <2>3. KindRank(c) <= KindRank(d)
    BY <1>2, <2>1
  <2> QED
    BY <2>2, <2>3
<1>6. ASSUME NEW n \in ScopeCidrs
      PROVE  n \in r.uncovered \/ \E v \in EligibleValues(r) : v \in n
  BY <1>1 DEF Uncovered, EligibleValues
<1>7. named = {Key(c) : c \in FromRoe \union UNION {FromFact(f) : f \in facts}}
  BY DEF Candidates
<1>8. \A c, d \in r.eligible \union r.excluded : Key(c) = Key(d) => c = d
  <2>1. \A c \in r.eligible : Key(c) \in in
    OBVIOUS
  <2>2. \A c \in r.excluded : c \in BestOf(left) /\ Key(c) \notin in
    <3> HIDE DEF in, left
    <3> QED
      BY <1>1
  <2> HIDE DEF in, left
  <2> QED
    BY <1>2, <2>1, <2>2
<1> HIDE DEF named, ok, left
<1> QED
  BY <1>3, <1>4, <1>5, <1>6, <1>7, <1>8 DEF TargetsAccounted, r

-----------------------------------------------------------------------------
(* The scope *)

\* What a module that contacts hosts has left to do, it may do: nmap and ffuf
\* with what they were handed, the others with what they chose in the beginning.
ScopeInv ==
  /\ facts \subseteq Facts
  /\ mod = "none" => todo = {} /\ seen = {} /\ touched = {}
  /\ \A c \in touched : c[1] = mod /\ Allowed(c[1], c[2])
  /\ mod \in DOMAIN ToolOf => \A h \in seen : Allowed(mod, h)
  /\ mod = "dir_fuzz" => \A h \in todo : Allowed(mod, h)
  /\ mod = "exposure_checks" => \A w \in todo : Classify(w[1], {}) # "excluded"
  /\ mod = "dns_axfr" => \A w \in todo : MayTouch(w[1])
  /\ mod \in {"subdomain_brute", "subdomain_takeover", "probe_http"} =>
       \A h \in todo : MayTouch(h)
  /\ mod = "probe_http" => \A c \in seen : MayTouch(c[1])
  /\ mod = "http_analyzer" => \A h \in seen : MayRequest(h)

Touchers == DOMAIN ToolOf \union ThroughClient \union
  {"exposure_checks", "dns_axfr", "subdomain_brute", "subdomain_takeover", "probe_http"}

\* What the helpers of scope.py say of a host, a module may act upon.
LEMMA ClassesAre ==
  ASSUME NEW h, NEW m
  PROVE  /\ Classify(h, {}) \in {"excluded", "in_scope", "flagged"}
         /\ MayTouch(h) => Allowed(m, h)
         /\ m \in ThroughClient /\ MayRequest(h) => Allowed(m, h)
         /\ MayRequest(h) /\ Classify(h, {}) # "excluded" => Allowed(m, h)
<1>1. Classify(h, {}) \in {"excluded", "in_scope", "flagged"}
  BY DEF Classify
<1> QED
  BY <1>1 DEF MayTouch, MayRequest, Allowed

\* What may be contacted depends on what is known and on the override only.
LEMMA SameScope ==
  ASSUME UNCHANGED <<facts, override>>, NEW h, NEW m
  PROVE  /\ MayTouch(h)' = MayTouch(h) /\ MayRequest(h)' = MayRequest(h)
         /\ Allowed(m, h)' = Allowed(m, h) /\ Classify(h, {})' = Classify(h, {})
BY DEF MayTouch, MayRequest, Allowed, Classify, InScopeByAddress, KnownAssets

\* A step of a module that contacts nobody, or its start.
Aside == /\ mod' \notin Touchers /\ UNCHANGED <<facts, override, touched>>
         /\ mod = "none" \/ mod' = mod

\* Such a step leaves the scope kept.
LEMMA AsideKeeps == ASSUME ScopeInv, Aside, mod' # "none" PROVE ScopeInv'
<1>1. \A c \in touched' : c[1] = mod' /\ Allowed(c[1], c[2])'
  <2>1. \A c \in touched : c[1] = mod' /\ Allowed(c[1], c[2])
    BY DEF ScopeInv, Aside
  <2>2. touched' = touched /\ UNCHANGED <<facts, override>>
    BY DEF Aside
  <2> QED
    BY <2>1, <2>2, SameScope
<1>2. mod' \notin {"port_scan", "dir_fuzz", "exposure_checks", "dns_axfr", "subdomain_brute",
                   "subdomain_takeover", "probe_http", "http_analyzer"} /\ mod' \notin DOMAIN ToolOf
  BY DEF Aside, Touchers, ToolOf, ThroughClient
<1> QED
  BY <1>1, <1>2 DEF ScopeInv, Aside

\* A module goes on: it has no more to do than before, and contacts only whom
\* it may.
LEMMA GoingOn ==
  ASSUME ScopeInv, UNCHANGED <<facts, override, mod>>, mod # "none",
         todo' \subseteq todo,
         seen' \subseteq seen \/ mod \notin DOMAIN ToolOf \union {"probe_http", "http_analyzer"},
         \A c \in touched' : c \in touched \/ (c[1] = mod /\ Allowed(mod, c[2]))
  PROVE  ScopeInv'
<1>1. \A c \in touched' : c[1] = mod' /\ Allowed(c[1], c[2])'
  BY SameScope DEF ScopeInv
<1>2. \A h : MayTouch(h)' = MayTouch(h) /\ Classify(h, {})' = Classify(h, {})
             /\ Allowed(mod, h)' = Allowed(mod, h) /\ MayRequest(h)' = MayRequest(h)
  BY SameScope
<1> QED
  BY <1>1, <1>2 DEF ScopeInv

\* A module starts with what it may do.
LEMMA Starting ==
  ASSUME ScopeInv, NEW m, Starts(m), m # "none",
         m \in DOMAIN ToolOf => \A h \in seen' : Allowed(m, h),
         m = "dir_fuzz" => \A h \in todo' : Allowed(m, h),
         m = "exposure_checks" => \A w \in todo' : Classify(w[1], {}) # "excluded",
         m = "dns_axfr" => \A w \in todo' : MayTouch(w[1]),
         m \in {"subdomain_brute", "subdomain_takeover", "probe_http"} =>
           \A h \in todo' : MayTouch(h),
         m = "probe_http" => \A c \in seen' : MayTouch(c[1]),
         m = "http_analyzer" => seen' = {},
         \A c \in touched' : c[1] = m /\ Allowed(m, c[2])
  PROVE  ScopeInv'
<1>1. UNCHANGED <<facts, override>> /\ mod' = m
  BY DEF Starts
<1>2. \A h : MayTouch(h)' = MayTouch(h) /\ Classify(h, {})' = Classify(h, {})
             /\ Allowed(m, h)' = Allowed(m, h)
  BY <1>1, SameScope
<1>3. \A c \in touched' : c[1] = m /\ Allowed(c[1], c[2])'
  BY <1>2
<1> QED
  BY <1>1, <1>2, <1>3 DEF ScopeInv

\* A module starts when nothing has been contacted.
LEMMA NothingYet == ASSUME ScopeInv, NEW m, Starts(m) PROVE touched = {} /\ seen = {} /\ todo = {}
BY DEF ScopeInv, Starts

\* Learning a fact, the override and the end of a module.
LEMMA RunningScope ==
  ASSUME ScopeInv, \/ \E f \in Facts : Learn(f)
                   \/ AllowOutOfScope \/ BodyStops \/ BodyCut \/ OrphanExits
                   \/ \E m \in Plain : BodyReturns(m)
  PROVE  ScopeInv'
<1>1. ASSUME NEW f \in Facts, Learn(f) PROVE ScopeInv'
  BY <1>1 DEF Learn, ScopeInv, ToolOf
<1>2. ASSUME AllowOutOfScope PROVE ScopeInv'
  BY <1>2 DEF AllowOutOfScope, ScopeInv, ToolOf
<1>3. ASSUME BodyStops \/ BodyCut \/ OrphanExits \/ \E m \in Plain : BodyReturns(m) PROVE ScopeInv'
  <2>1. UNCHANGED <<facts, override, mod, todo, seen, touched>>
    BY <1>3 DEF BodyStops, BodyCut, OrphanExits, BodyReturns
  <2>2. CASE mod # "none"
    BY <2>1, <2>2, GoingOn
  <2>3. CASE mod = "none"
    BY <2>1, <2>3 DEF ScopeInv, ToolOf
  <2> QED
    BY <2>2, <2>3
<1> QED
  BY <1>1, <1>2, <1>3

\* Only targets, and only names that are known, are handed to nmap.
LEMMA LaunchedTargets ==
  ASSUME ScopeInv, NEW vs,
         vs = {v \in EligibleValues(Resolution({"ip", "hostname"}, TRUE)) :
                 ~Unsafe(v) /\ Classify(v, {}) # "excluded"}
  PROVE  \A h \in DedupeByIp(vs) : Allowed("port_scan", h)
<1>1. facts \subseteq Facts
  BY DEF ScopeInv
<1>2. \A v \in vs : Allowed("port_scan", v)
  <2> DEFINE ok == {d \in Candidates : Reason(d) = "none"}
  <2>1. \A c \in BestOf(ok) : c \in ok
    <3>1. \A d \in ok : d.kind \in {"current", "roe", "prior"}
      BY <1>1, CandidateIs
    <3> HIDE DEF ok
    <3> QED
      BY <3>1, BestIs
  <2>2. \A c \in ok : Allowed("port_scan", c.value)
    BY <1>1, EligibleIs
  <2>3. Resolution({"ip", "hostname"}, TRUE).eligible = BestOf(ok)
    BY <1>1, ResolvedIs
  <2> HIDE DEF ok
  <2> QED
    BY <2>1, <2>2, <2>3 DEF EligibleValues
<1>3. DedupeByIp(vs) \subseteq vs
  <2> DEFINE one(a) == CHOOSE v \in vs : Resolves(v) /\ AddrOf(v) = a
  <2>1. \A a \in {AddrOf(v) : v \in {w \in vs : Resolves(w)}} : one(a) \in vs
    OBVIOUS
  <2>2. DedupeByIp(vs) = {v \in vs : ~Resolves(v)} \union
          {IF a \in vs THEN a ELSE one(a) : a \in {AddrOf(v) : v \in {w \in vs : Resolves(w)}}}
    BY DEF DedupeByIp
  <2> HIDE DEF one
  <2> QED
    BY <2>1, <2>2
<1> QED
  BY <1>2, <1>3

\* The roots that ffuf and exposure_checks start from.
LEMMA WebRootsAre ==
  \A h \in WebRoots : Classify(h, {}) # "excluded" /\ Allowed("dir_fuzz", h)
<1>1. ASSUME NEW h \in WebRoots PROVE h \in KnownAssets({"asset_host", "asset_url"})
  BY DEF WebRoots, Guessed, KnownAssets
<1> QED
  BY <1>1, ClassesAre DEF WebRoots, Allowed

\* nmap and ffuf, from their targets to the files they leave.
LEMMA ToolScope ==
  ASSUME ScopeInv, \/ AuditTool \/ LaunchTool \/ PortScanWithoutNmap \/ PortScanStart
                   \/ \E b \in BOOLEAN : DirFuzzStart(b) \/ \E c \in BOOLEAN : ToolExits(b, c)
                   \/ mod \in DOMAIN ToolOf /\ \E hs \in SUBSET seen : ParseOutput(hs)
                   \/ ParseFails \/ \E h \in Hosts : FuzzRoot(h)
  PROVE  ScopeInv'
<1>1. ASSUME AuditTool PROVE ScopeInv'
  BY <1>1, GoingOn DEF AuditTool, Tooled, ToolOf, Goes
<1>2. ASSUME LaunchTool PROVE ScopeInv'
  <2>1. /\ UNCHANGED <<facts, override, mod, todo, seen>> /\ mod # "none" /\ mod \in DOMAIN ToolOf
        /\ touched' = touched \union {<<mod, h>> : h \in seen}
    BY <1>2 DEF LaunchTool, Tooled, Goes, Touches, ToolOf
  <2>2. \A h \in seen : Allowed(mod, h)
    BY <2>1 DEF ScopeInv
  <2> QED
    BY <2>1, <2>2, GoingOn
<1>3. ASSUME PortScanWithoutNmap PROVE ScopeInv'
  BY <1>3, NothingYet, Starting DEF PortScanWithoutNmap, NoTouches
<1>4. ASSUME PortScanStart PROVE ScopeInv'
  <2> DEFINE vs == {v \in EligibleValues(Resolution({"ip", "hostname"}, TRUE)) :
                      ~Unsafe(v) /\ Classify(v, {}) # "excluded"}
  <2>1. Starts("port_scan") /\ touched' = touched /\ (seen' = {} \/ seen' = DedupeByIp(vs))
    BY <1>4 DEF PortScanStart, NoTouches
  <2>2. \A h \in DedupeByIp(vs) : Allowed("port_scan", h)
    BY LaunchedTargets
  <2> HIDE DEF vs
  <2> QED
    BY <2>1, <2>2, NothingYet, Starting
<1>5. ASSUME NEW b \in BOOLEAN, DirFuzzStart(b) PROVE ScopeInv'
  BY <1>5, NothingYet, Starting, WebRootsAre DEF DirFuzzStart, NoTouches
<1>6. ASSUME NEW b \in BOOLEAN, NEW c \in BOOLEAN, ToolExits(b, c) PROVE ScopeInv'
  BY <1>6, GoingOn DEF ToolExits, Tooled, ToolOf, Goes
<1>7. ASSUME NEW hs \in SUBSET seen, ParseOutput(hs) PROVE ScopeInv'
  BY <1>7, GoingOn DEF ParseOutput, Tooled, ToolOf, Goes
<1>8. ASSUME NEW h \in Hosts, FuzzRoot(h) PROVE ScopeInv'
  <2>1. /\ UNCHANGED <<facts, override, mod, touched>> /\ mod = "dir_fuzz"
        /\ h \in todo /\ todo' = todo \ {h} /\ seen' = {h}
    BY <1>8 DEF FuzzRoot, In, Goes
  <2>2. \A v : Allowed(mod, v)' = Allowed(mod, v)
    BY <2>1, SameScope
  <2> QED
    BY <2>1, <2>2 DEF ScopeInv
<1>9. ASSUME ParseFails PROVE ScopeInv'
  BY <1>9, GoingOn DEF ParseFails, In, Goes
<1> QED
  BY <1>1, <1>2, <1>3, <1>4, <1>5, <1>6, <1>7, <1>8, <1>9

\* The other active modules.
LEMMA ActiveScope == ASSUME ScopeInv, ActiveNext PROVE ScopeInv'
<1>1. ASSUME ExposureStart PROVE ScopeInv'
  <2>1. Starts("exposure_checks") /\ touched' = touched /\ \A w \in todo' : w[1] \in WebRoots
    BY <1>1 DEF ExposureStart, NoTouches
  <2> QED
    BY <2>1, NothingYet, Starting, WebRootsAre DEF ToolOf
<1>2. ASSUME AxfrStart PROVE ScopeInv'
  BY <1>2, NothingYet, Starting DEF AxfrStart, NoTouches, ToolOf, Apexes, ScopedTargets
<1>3. ASSUME NEW zones, BruteStart(zones) PROVE ScopeInv'
  <2>1. Starts("subdomain_brute") /\ todo' \subseteq Apexes /\ seen' = {}
        /\ touched' = touched \union {<<"subdomain_brute", h>> : h \in Apexes}
    BY <1>3 DEF BruteStart, Touches, Starts
  <2>2. \A h \in Apexes : MayTouch(h) /\ Allowed("subdomain_brute", h)
    BY ClassesAre DEF Apexes, ScopedTargets
  <2> QED
    BY <2>1, <2>2, NothingYet, Starting DEF ToolOf
<1>4. ASSUME NEW h, NEW p, NEW b \in BOOLEAN, CheckPath(h, p, b) \/ CheckGraphql(h, b)
      PROVE  ScopeInv'
  <2>1. /\ UNCHANGED <<facts, override, mod>> /\ mod = "exposure_checks"
        /\ todo' \subseteq todo /\ touched' = touched \union {<<mod, h>>} /\ MayRequest(h)
    BY <1>4 DEF CheckPath, CheckTurn, CheckGraphql, In, Stays, Goes, Touches
  <2>2. PICK w \in todo : w[1] = h
    BY <1>4 DEF CheckPath, CheckGraphql, PathsLeft
  <2>3. Classify(h, {}) # "excluded"
    BY <2>1, <2>2 DEF ScopeInv
  <2> QED
    BY <2>1, <2>3, ClassesAre, GoingOn DEF ToolOf
<1>5. ASSUME NEW h, NEW kept, CheckRefused(h) \/ RecordExposures(h, kept) PROVE ScopeInv'
  BY <1>5, GoingOn DEF CheckRefused, RecordExposures, CheckTurn, In, Stays, Goes, ToolOf
<1>6. ASSUME NEW d, NEW ns, NEW b \in BOOLEAN,
             NoNameServers(d, b) \/ AuditTransfer(d, ns, b) \/ RecordTransfer(d, ns)
      PROVE  ScopeInv'
  BY <1>6, GoingOn DEF NoNameServers, AxfrTurn, AuditTransfer, RecordTransfer, In, Stays, Goes
<1>7. ASSUME NEW d, NEW ns, AskNameServer(d, ns) PROVE ScopeInv'
  <2>1. /\ UNCHANGED <<facts, override, mod>> /\ mod = "dns_axfr"
        /\ <<d, ns>> \in todo /\ todo' \subseteq todo
        /\ touched' = touched \union {<<mod, d>>}
    BY <1>7 DEF AskNameServer, AxfrTurn, In, Goes, Touches
  <2>2. MayTouch(<<d, ns>>[1])
    BY <2>1 DEF ScopeInv
  <2> QED
    BY <2>1, <2>2, ClassesAre, GoingOn DEF ToolOf
<1>8. ASSUME NEW h, BruteWildcard(h) \/ BruteAudit(h) PROVE ScopeInv'
  BY <1>8, GoingOn DEF BruteWildcard, BruteAudit, In, Goes, ToolOf
<1>9. ASSUME NEW h, NEW b \in BOOLEAN, BruteBatch(h, b) PROVE ScopeInv'
  <2>1. /\ UNCHANGED <<facts, override, mod>> /\ mod = "subdomain_brute"
        /\ h \in todo /\ todo' \subseteq todo
        /\ touched' = touched \union {<<mod, h>>}
    BY <1>9 DEF BruteBatch, In, Stays, Touches
  <2>2. MayTouch(h)
    BY <2>1 DEF ScopeInv
  <2> QED
    BY <2>1, <2>2, ClassesAre, GoingOn DEF ToolOf
<1> QED
  BY ToolScope, <1>1, <1>2, <1>3, <1>4, <1>5, <1>6, <1>7, <1>8, <1>9 DEF ActiveNext

\* The modules that discover names and services.
LEMMA DiscoveryScope == ASSUME ScopeInv, DiscoveryNext PROVE ScopeInv'
<1> USE DEF Touchers, ToolOf, ThroughClient
<1>1. ASSUME DnsStart \/ DnsBail \/ DnsElsewhere PROVE Aside /\ mod' # "none"
  BY <1>1 DEF DnsStart, DnsBail, DnsElsewhere, Aside, Starts, In, Stays, NoTouches
<1>2. ASSUME NEW q, NEW b \in BOOLEAN, NEW c \in BOOLEAN,
             DnsNoSuchName(q) \/ DnsRecords(q, b) \/ DnsFails(q, b) \/ DnsSec(q, b, c)
      PROVE  Aside /\ mod' # "none"
  BY <1>2 DEF DnsNoSuchName, DnsRecords, DnsFails, DnsSec, Aside, In, Stays
<1>3. ASSUME CtStart \/ CtReturns \/ RecurseStart \/ RecurseRound \/ RecurseReturns
             \/ PermuteStart \/ InternetStart
      PROVE  Aside /\ mod' # "none"
  BY <1>3 DEF CtStart, CtReturns, RecurseStart, RecurseRound, RecurseReturns, PermuteStart,
              InternetStart, BodyReturns, Aside, Starts, In, Stays, NoTouches
<1>4. ASSUME NEW d, NEW ns, NEW ks, NEW b \in BOOLEAN, CtFetch(d, ns, b) \/ CtEmit(ks, ns)
      PROVE  Aside /\ mod' # "none"
  BY <1>4 DEF CtFetch, CtEmit, Aside, In, Stays
<1>5. ASSUME NEW s, NEW src, NEW ns, RecurseFails(s, src) \/ RecurseFetch(s, src, ns)
      PROVE  Aside /\ mod' # "none"
  BY <1>5 DEF RecurseFails, RecurseFetch, Aside, In, Stays
<1>6. ASSUME NEW c, NEW vs, PermuteWildcards(c, vs) \/ PermuteResolve(c, vs)
      PROVE  Aside /\ mod' # "none"
  BY <1>6 DEF PermuteWildcards, PermuteResolve, Aside, In, Stays, Goes
<1>7. ASSUME NEW ip, NEW b \in BOOLEAN, NEW rows, InternetLookup(ip, b, rows)
      PROVE  Aside /\ mod' # "none"
  BY <1>7 DEF InternetLookup, Aside, In, Stays
<1>8. ASSUME EmailStart PROVE ScopeInv'
  BY <1>8, NothingYet, Starting DEF EmailStart, NoTouches
<1>9. ASSUME NEW d \in RoeHosts, NEW i, NEW b \in BOOLEAN, NEW w \in BOOLEAN,
             EmailCheck(d, i, b, w)
      PROVE  ScopeInv'
  <2> DEFINE h == MtaStsOf[d]
  <2>1. /\ UNCHANGED <<facts, override, mod>> /\ mod = "email_security" /\ todo' \subseteq todo
        /\ touched' = touched \/ (MayRequest(h) /\ touched' = touched \union {<<mod, h>>})
    BY <1>9 DEF EmailCheck, In, Stays, Touches, NoTouches
  <2> HIDE DEF h
  <2> QED
    BY <2>1, ClassesAre, GoingOn
<1>10. ASSUME NEW b \in BOOLEAN, TakeoverStart(b) PROVE ScopeInv'
  BY <1>10, NothingYet, Starting DEF TakeoverStart, NoTouches, ScopedTargets
<1>11. ASSUME NEW h \in Hosts, NEW b \in BOOLEAN, NEW c \in BOOLEAN, NEW d \in BOOLEAN,
              TakeoverNothing(h, b) \/ TakeoverProvider(h, b, c, d)
       PROVE  ScopeInv'
  <2>1. /\ UNCHANGED <<facts, override, mod>> /\ mod = "subdomain_takeover"
        /\ h \in todo /\ todo' \subseteq todo
        /\ touched' = touched \/ touched' = touched \union {<<mod, h>>}
    BY <1>11 DEF TakeoverNothing, TakeoverProvider, In, Stays, Touches, NoTouches
  <2>2. MayTouch(h)
    BY <2>1 DEF ScopeInv
  <2> QED
    BY <2>1, <2>2, ClassesAre, GoingOn
<1> QED
  BY AsideKeeps, <1>1, <1>2, <1>3, <1>4, <1>5, <1>6, <1>7, <1>8, <1>9, <1>10,
     <1>11 DEF DiscoveryNext

\* The modules that read what web servers answer.
LEMMA WebScope == ASSUME ScopeInv, WebNext PROVE ScopeInv'
<1> USE DEF ToolOf, ThroughClient
<1>1. ASSUME ProbeStart PROVE ScopeInv'
  BY <1>1, NothingYet, Starting DEF ProbeStart, NoTouches
<1>2. ASSUME NEW hs \in SUBSET todo, ProbeBatch(hs) PROVE ScopeInv'
  <2>1. /\ UNCHANGED <<facts, override, mod, touched>> /\ mod = "probe_http"
        /\ todo' = todo \ hs /\ \A c \in seen' : c[1] \in hs
    BY <1>2 DEF ProbeBatch, In, Goes
  <2>2. \A h \in todo : MayTouch(h)' /\ MayTouch(h)
    BY <2>1, SameScope DEF ScopeInv
  <2>3. \A c \in touched' : c[1] = mod' /\ Allowed(c[1], c[2])'
    BY <2>1, SameScope DEF ScopeInv
  <2> QED
    BY <2>1, <2>2, <2>3 DEF ScopeInv
<1>3. ASSUME NEW h, NEW s \in Schemes, NEW b \in BOOLEAN, NEW row, NEW next,
             \/ ProbeAnswers(h, s) \/ ProbeFails(h, s, b) \/ ProbeRefused(h, s)
             \/ ProbeRow(h, s, row, next) \/ ProbeLive(h, s) \/ ProbeSilent(h)
      PROVE  ScopeInv'
  <2>1. /\ UNCHANGED <<facts, override, mod, todo>> /\ mod = "probe_http"
        /\ \E c \in seen : c[1] = h
        /\ touched' = touched \/ touched' = touched \union {<<mod, h>>}
        /\ \A c \in seen' : c \in seen \/ c[1] = h
    <3>1. CASE ProbeAnswers(h, s)
      BY <3>1 DEF ProbeAnswers, Coroutine, Left, Touches
    <3>2. CASE ProbeFails(h, s, b)
      BY <3>2 DEF ProbeFails, Coroutine, Left, Touches
    <3>3. CASE ProbeRefused(h, s)
      BY <3>3 DEF ProbeRefused, Coroutine, Left, Touches
    <3>4. CASE ProbeRow(h, s, row, next)
      BY <3>4 DEF ProbeRow, Coroutine, Left, NoTouches
    <3>5. CASE ProbeLive(h, s)
      BY <3>5 DEF ProbeLive, Coroutine, Left, NoTouches
    <3>6. CASE ProbeSilent(h)
      BY <3>6 DEF ProbeSilent, Coroutine, Left, NoTouches
    <3> QED
      BY <1>3, <3>1, <3>2, <3>3, <3>4, <3>5, <3>6
  <2>2. MayTouch(h)
    BY <2>1 DEF ScopeInv
  <2>3. MayTouch(h) /\ Allowed("probe_http", h)
    BY <2>2, ClassesAre
  <2>4. \A v : MayTouch(v)' = MayTouch(v)
    BY <2>1, SameScope
  <2>5. \A c \in touched' : c[1] = mod' /\ Allowed(c[1], c[2])'
    BY <2>1, <2>3, SameScope DEF ScopeInv
  <2> QED
    BY <2>1, <2>3, <2>4, <2>5 DEF ScopeInv
<1>4. ASSUME NEW h, ProbeStops(h) PROVE ScopeInv'
  BY <1>4, GoingOn DEF ProbeStops, In
<1>5. ASSUME AnalyzerStart \/ JsStart \/ \E b \in BOOLEAN : FingerprintStart(b) PROVE ScopeInv'
  <2>1. PICK m \in {"http_analyzer", "js_analyzer", "tech_fingerprint"} :
          Starts(m) /\ touched' = touched /\ (m = "http_analyzer" => seen' = {})
    BY <1>5 DEF AnalyzerStart, JsStart, FingerprintStart, NoTouches
  <2> QED
    BY <2>1, NothingYet, Starting
<1>6. ASSUME NEW h \in Hosts, NEW s \in Schemes, NEW b \in BOOLEAN,
             AnalyzerError(h, s) \/ AnalyzerAnswers(h, s, b)
      PROVE  ScopeInv'
  <2>1. /\ UNCHANGED <<facts, override, mod>> /\ mod = "http_analyzer"
        /\ seen' \subseteq seen \/ (MayRequest(h) /\ seen' = {h})
        /\ touched' = touched \/ (MayRequest(h) /\ touched' = touched \union {<<mod, h>>})
    BY <1>6 DEF AnalyzerError, AnalyzerAnswers, AnalyzerTurn, In, Stays, Goes, Touches, NoTouches
  <2>2. \A c \in touched' : c[1] = mod' /\ Allowed(c[1], c[2])'
    BY <2>1, ClassesAre, SameScope DEF ScopeInv
  <2>3. \A k \in seen' : MayRequest(k)'
    BY <2>1, SameScope DEF ScopeInv
  <2> QED
    BY <2>1, <2>2, <2>3 DEF ScopeInv
<1>7. ASSUME NEW b \in BOOLEAN, NEW row, AnalyzerTls(b) \/ AnalyzerTlsRow(row) \/ AnalyzerTlsAudit
      PROVE  ScopeInv'
  <2>1. /\ UNCHANGED <<facts, override, mod, todo>> /\ mod = "http_analyzer" /\ seen' \subseteq seen
        /\ touched' = touched \/ touched' = touched \union {<<mod, h>> : h \in seen}
    BY <1>7 DEF AnalyzerTls, AnalyzerTlsRow, AnalyzerTlsAudit, In, Goes, Touches
  <2>2. \A h \in seen : Allowed(mod, h)
    BY <2>1, ClassesAre DEF ScopeInv
  <2> QED
    BY <2>1, <2>2, GoingOn
<1>8. ASSUME NEW h \in Hosts, NEW s \in Schemes, NEW b \in BOOLEAN, NEW c \in BOOLEAN,
             Fingerprint(h, s, b, c)
      PROVE  ScopeInv'
  <2>1. /\ UNCHANGED <<facts, override, mod, seen>> /\ mod = "tech_fingerprint"
        /\ touched' = touched \/ (MayRequest(h) /\ touched' = touched \union {<<mod, h>>})
    BY <1>8 DEF Fingerprint, In, Stays, Touches, NoTouches
  <2>2. \A c2 \in touched' : c2[1] = mod' /\ Allowed(c2[1], c2[2])'
    BY <2>1, ClassesAre, SameScope DEF ScopeInv
  <2> QED
    BY <2>1, <2>2 DEF ScopeInv
<1>9. ASSUME NEW h \in Hosts, NEW how, NEW found, NEW ss, NEW b \in BOOLEAN,
             JsNothing(h, b) \/ JsAnalyze(h, how, found, ss)
      PROVE  ScopeInv'
  <2>1. /\ UNCHANGED <<facts, override, mod>> /\ mod = "js_analyzer" /\ todo' \subseteq todo
        /\ touched' = touched \/ (MayRequest(h) /\ touched' = touched \union {<<mod, h>>})
    BY <1>9 DEF JsNothing, JsAnalyze, In, Stays, Touches, NoTouches
  <2> QED
    BY <2>1, ClassesAre, GoingOn
<1> QED
  BY <1>1, <1>2, <1>3, <1>4, <1>5, <1>6, <1>7, <1>8, <1>9 DEF WebNext

\* The OSINT modules contact none of the hosts of the engagement.
LEMMA OsintScope == ASSUME ScopeInv, OsintNext PROVE ScopeInv'
<1> USE DEF Touchers, ToolOf, ThroughClient
<1>1. ASSUME NEW on, SubsStart(on) \/ UrlsStart \/ WaybackStart PROVE Aside /\ mod' # "none"
  BY <1>1 DEF SubsStart, UrlsStart, WaybackStart, Aside, Starts, NoTouches
<1>2. ASSUME SubsBudgetOver \/ SubsReturns PROVE Aside /\ mod' # "none"
  BY <1>2 DEF SubsBudgetOver, SubsReturns, Aside, In, Stays
<1>3. ASSUME NEW d, NEW src, NEW ns, SubsFails(d, src) \/ SubsAnswers(d, src, ns) \/ SubsEmit(d, ns)
      PROVE  Aside /\ mod' # "none"
  BY <1>3 DEF SubsFails, SubsAnswers, SubsEmit, SubsTurn, Aside, In, Stays
<1>4. ASSUME NEW d, NEW src, NEW us, NEW kept, NEW b \in BOOLEAN,
             UrlsEmit(d) \/ UrlsFetch(d, src, b, us) \/ WaybackDomain(d, b, kept)
      PROVE  Aside /\ mod' # "none"
  BY <1>4 DEF UrlsEmit, UrlsFetch, WaybackDomain, Aside, In, Stays, Goes
<1>5. ASSUME NEW how, NEW fs, GithubStart(how) \/ GithubSearch(fs) \/ GithubPassB
      PROVE  Aside /\ mod' # "none"
  BY <1>5 DEF GithubStart, GithubSearch, GithubPassB, Aside, Starts, In, Stays, Goes, NoTouches
<1>6. ASSUME NEW a, NEW read, NEW b \in BOOLEAN, GithubProfile(a, b) \/ GithubEnumerate(a, read)
      PROVE  Aside /\ mod' # "none"
  BY <1>6 DEF GithubProfile, GithubEnumerate, Aside, In, Stays, Goes
<1> QED
  BY AsideKeeps, <1>1, <1>2, <1>3, <1>4, <1>5, <1>6 DEF OsintNext

\* ScopeInv is inductive.
LEMMA ScopeAlways == WorkSpec => []ScopeInv
<1>1. WorkInit => ScopeInv
  BY DEF WorkInit, ScopeInv, ToolOf
<1>2. ASSUME ScopeInv, UNCHANGED workVars PROVE ScopeInv'
  <2>1. UNCHANGED <<facts, override, mod, todo, seen, touched>>
    BY <1>2 DEF workVars
  <2>2. CASE mod # "none"
    BY <1>2, <2>1, <2>2, GoingOn DEF ScopeInv
  <2>3. CASE mod = "none"
    BY <1>2, <2>1, <2>3 DEF ScopeInv, ToolOf
  <2> QED
    BY <2>2, <2>3
<1>3. ScopeInv /\ WorkNext => ScopeInv'
  BY RunningScope, ActiveScope, DiscoveryScope, WebScope, OsintScope DEF WorkNext
<1> QED
  BY <1>1, <1>2, <1>3, PTL DEF WorkSpec

\* No scan module contacts a host it may not: an excluded one only through the
\* HTTP client and with the override; one out of scope only with the override,
\* but for the two routes the code leaves open (nmap on a name whose A record
\* lies in a network of the scope, ffuf on a web root the correlation knows).
THEOREM ScopeIsKept == WorkSpec => []ScopeKept
<1>1. ScopeInv => ScopeKept
  BY DEF ScopeInv, ScopeKept
<1> QED
  BY <1>1, ScopeAlways, PTL

\* Whatever is known, port_scan scans or lists as left out every candidate and
\* none twice, scans only what it may, prefers what this run found to what an
\* earlier one knew, and lists the networks of the scope it has no target in.
THEOREM TargetsAreAccounted == WorkSpec => []TargetsAccounted
<1>1. ScopeInv => TargetsAccounted
  BY Accounted DEF ScopeInv
<1> QED
  BY <1>1, ScopeAlways, PTL

-----------------------------------------------------------------------------
(* Who writes what *)

\* A module starts or goes on, and what it writes bears its name.
Logged(ms) ==
  /\ mod' \in ms /\ (mod = "none" \/ mod' = mod)
  /\ UNCHANGED <<facts, override>>
  /\ \A c \in touched' : c \in touched \/ c[1] = mod'
  /\ \A a \in audited' : a \in audited \/ a[1] = mod'
  /\ \A n \in noted' : n \in noted \/ n[1] = mod'

\* What is recorded, audited and contacted bears the name of the module.
LEMMA NotesAre == ASSUME NEW new, Notes(new) PROVE \A n \in noted' : n \in noted \/ n[1] = mod'
BY DEF Notes

LEMMA AuditsAre ==
  ASSUME NEW new, Audits(new)
  PROVE  \A a \in audited' : a \in audited \/ a[1] = mod'
BY DEF Audits

LEMMA TouchesAre ==
  ASSUME NEW new, Touches(new)
  PROVE  \A c \in touched' : c \in touched \/ c[1] = mod'
BY DEF Touches

ActiveMods    == {"port_scan", "dir_fuzz", "exposure_checks", "dns_axfr", "subdomain_brute"}
DiscoveryMods == {"dns", "ct_subdomains", "subdomain_recurse", "subdomain_permute",
                  "subdomain_takeover", "internetdb", "email_security"}
WebMods       == {"probe_http", "http_analyzer", "tech_fingerprint", "js_analyzer"}
OsintMods     == {"passive_subdomains", "passive_urls", "wayback", "github_org"}

\* Every step of the active modules is one of theirs, and changes no fact.
LEMMA ActiveSteps == ASSUME ActiveNext PROVE Logged(ActiveMods)
<1> USE NotesAre, AuditsAre, TouchesAre DEF ActiveMods, Logged, NoNotes, NoAudits, NoTouches
<1>1. ASSUME AuditTool \/ LaunchTool \/ \E b, c \in BOOLEAN : ToolExits(b, c)
      PROVE  Logged(ActiveMods)
  BY <1>1 DEF AuditTool, LaunchTool, ToolExits, Tooled, ToolOf, In, Goes
<1>2. ASSUME mod \in DOMAIN ToolOf, NEW hs, ParseOutput(hs) PROVE Logged(ActiveMods)
  BY <1>2 DEF ParseOutput, ToolOf, In, Goes
<1>3. ASSUME PortScanWithoutNmap \/ PortScanStart \/ \E b \in BOOLEAN : DirFuzzStart(b)
      PROVE  Logged(ActiveMods)
  BY <1>3 DEF PortScanWithoutNmap, PortScanStart, DirFuzzStart, Starts
<1>4. ASSUME ExposureStart \/ AxfrStart \/ ParseFails PROVE Logged(ActiveMods)
  BY <1>4 DEF ExposureStart, AxfrStart, ParseFails, Starts, In, Goes
<1>5. ASSUME NEW zones, BruteStart(zones) PROVE Logged(ActiveMods)
  BY <1>5 DEF BruteStart, Starts
<1>6. ASSUME NEW h, FuzzRoot(h) \/ BruteWildcard(h) \/ BruteAudit(h) \/ CheckRefused(h)
      PROVE  Logged(ActiveMods)
  BY <1>6 DEF FuzzRoot, BruteWildcard, BruteAudit, CheckRefused, CheckTurn, In, Goes, Stays
<1>7. ASSUME NEW h, NEW p, NEW kept, NEW b \in BOOLEAN,
             CheckPath(h, p, b) \/ CheckGraphql(h, b) \/ RecordExposures(h, kept)
      PROVE  Logged(ActiveMods)
  BY <1>7 DEF CheckPath, CheckGraphql, RecordExposures, CheckTurn, In, Stays, Goes
<1>8. ASSUME NEW h, NEW ns, NEW b \in BOOLEAN,
             NoNameServers(h, b) \/ AskNameServer(h, ns) \/ AuditTransfer(h, ns, b)
      PROVE  Logged(ActiveMods)
  BY <1>8 DEF NoNameServers, AskNameServer, AxfrTurn, AuditTransfer, In, Stays, Goes
<1>9. ASSUME NEW h, NEW b \in BOOLEAN, BruteBatch(h, b) PROVE Logged(ActiveMods)
  BY <1>9 DEF BruteBatch, In, Stays
<1>10. ASSUME NEW h, NEW ns, RecordTransfer(h, ns) PROVE Logged(ActiveMods)
  <2>1. /\ mod = "dns_axfr" /\ UNCHANGED <<facts, override, mod, touched, audited>>
        /\ \E new : Notes(new)
    BY <1>10 DEF RecordTransfer, In, Goes
  <2> QED
    BY <2>1
<1> HIDE DEF Logged, ActiveMods
<1> QED
  BY <1>1, <1>2, <1>3, <1>4, <1>5, <1>6, <1>7, <1>8, <1>9, <1>10 DEF ActiveNext

\* So is every step of the discovery modules,
LEMMA DiscoverySteps == ASSUME DiscoveryNext PROVE Logged(DiscoveryMods)
<1> USE NotesAre, AuditsAre, TouchesAre DEF DiscoveryMods, Logged, NoNotes, NoAudits, NoTouches
<1>1. ASSUME DnsStart \/ DnsBail \/ DnsElsewhere PROVE Logged(DiscoveryMods)
  BY <1>1 DEF DnsStart, DnsBail, DnsElsewhere, Starts, In, Stays
<1>2. ASSUME NEW q, NEW b \in BOOLEAN, NEW c \in BOOLEAN,
             DnsNoSuchName(q) \/ DnsRecords(q, b) \/ DnsFails(q, b) \/ DnsSec(q, b, c)
      PROVE  Logged(DiscoveryMods)
  BY <1>2 DEF DnsNoSuchName, DnsRecords, DnsFails, DnsSec, DnsAnswered, In, Stays
<1>3. ASSUME CtStart \/ CtReturns \/ RecurseStart \/ RecurseRound \/ RecurseReturns
      PROVE  Logged(DiscoveryMods)
  BY <1>3 DEF CtStart, CtReturns, RecurseStart, RecurseRound, RecurseReturns, BodyReturns,
     Starts, In, Stays
<1>4. ASSUME PermuteStart \/ InternetStart \/ EmailStart \/ \E b \in BOOLEAN : TakeoverStart(b)
      PROVE  Logged(DiscoveryMods)
  BY <1>4 DEF PermuteStart, InternetStart, EmailStart, TakeoverStart, Starts
<1>5. ASSUME NEW d, NEW ns, NEW ks, NEW b \in BOOLEAN, CtFetch(d, ns, b) \/ CtEmit(ks, ns)
      PROVE  Logged(DiscoveryMods)
  BY <1>5 DEF CtFetch, CtEmit, In, Stays
<1>6. ASSUME NEW s, NEW src, NEW ns, RecurseFails(s, src) \/ RecurseFetch(s, src, ns)
      PROVE  Logged(DiscoveryMods)
  BY <1>6 DEF RecurseFails, RecurseFetch, In, Stays
<1>7. ASSUME NEW c, NEW vs, PermuteWildcards(c, vs) \/ PermuteResolve(c, vs)
      PROVE  Logged(DiscoveryMods)
  BY <1>7 DEF PermuteWildcards, PermuteResolve, In, Stays, Goes
<1>8. ASSUME NEW ip, NEW b \in BOOLEAN, NEW rows, InternetLookup(ip, b, rows)
      PROVE  Logged(DiscoveryMods)
  BY <1>8 DEF InternetLookup, In, Stays
<1>9. ASSUME NEW d, NEW i, NEW b \in BOOLEAN, NEW w \in BOOLEAN, EmailCheck(d, i, b, w)
      PROVE  Logged(DiscoveryMods)
  BY <1>9 DEF EmailCheck, In, Stays
<1>10. ASSUME NEW h, NEW b \in BOOLEAN, NEW c \in BOOLEAN, NEW d \in BOOLEAN,
              TakeoverNothing(h, b) \/ TakeoverProvider(h, b, c, d)
       PROVE  Logged(DiscoveryMods)
  BY <1>10 DEF TakeoverNothing, TakeoverProvider, In, Stays
<1> HIDE DEF Logged, DiscoveryMods
<1> QED
  BY <1>1, <1>2, <1>3, <1>4, <1>5, <1>6, <1>7, <1>8, <1>9, <1>10 DEF DiscoveryNext

\* of the web modules
LEMMA WebSteps == ASSUME WebNext PROVE Logged(WebMods)
<1> USE NotesAre, AuditsAre, TouchesAre DEF WebMods, Logged, NoNotes, NoAudits, NoTouches
<1>1. ASSUME ProbeStart \/ AnalyzerStart \/ JsStart \/ \E b \in BOOLEAN : FingerprintStart(b)
      PROVE  Logged(WebMods)
  BY <1>1 DEF ProbeStart, AnalyzerStart, JsStart, FingerprintStart, Starts
<1>2. ASSUME NEW hs, ProbeBatch(hs) PROVE Logged(WebMods)
  BY <1>2 DEF ProbeBatch, In, Goes
<1>3. ASSUME NEW h, NEW s, NEW b \in BOOLEAN, NEW row, NEW next,
             \/ ProbeAnswers(h, s) \/ ProbeFails(h, s, b) \/ ProbeRefused(h, s) \/ ProbeStops(h)
             \/ ProbeRow(h, s, row, next) \/ ProbeLive(h, s) \/ ProbeSilent(h)
      PROVE  Logged(WebMods)
  BY <1>3 DEF ProbeAnswers, ProbeFails, ProbeRefused, ProbeStops, ProbeRow, ProbeLive, ProbeSilent,
              Coroutine, Left, In
<1>4. ASSUME NEW h, NEW s, NEW b \in BOOLEAN, NEW row,
             \/ AnalyzerError(h, s) \/ AnalyzerAnswers(h, s, b)
             \/ AnalyzerTls(b) \/ AnalyzerTlsRow(row) \/ AnalyzerTlsAudit
      PROVE  Logged(WebMods)
  BY <1>4 DEF AnalyzerError, AnalyzerAnswers, AnalyzerTls, AnalyzerTlsRow, AnalyzerTlsAudit,
              AnalyzerTurn, In, Stays, Goes
<1>5. ASSUME NEW h, NEW s, NEW b \in BOOLEAN, NEW c \in BOOLEAN, Fingerprint(h, s, b, c)
      PROVE  Logged(WebMods)
  BY <1>5 DEF Fingerprint, In, Stays
<1>6. ASSUME NEW h, NEW how, NEW found, NEW ss, NEW b \in BOOLEAN,
             JsNothing(h, b) \/ JsAnalyze(h, how, found, ss)
      PROVE  Logged(WebMods)
  BY <1>6 DEF JsNothing, JsAnalyze, In, Stays
<1> HIDE DEF Logged, WebMods
<1> QED
  BY <1>1, <1>2, <1>3, <1>4, <1>5, <1>6 DEF WebNext

\* and of the OSINT modules.
LEMMA OsintSteps == ASSUME OsintNext PROVE Logged(OsintMods)
<1> USE NotesAre, AuditsAre, TouchesAre DEF OsintMods, Logged, NoNotes, NoAudits, NoTouches
<1>1. ASSUME NEW on, SubsStart(on) \/ UrlsStart \/ WaybackStart PROVE Logged(OsintMods)
  BY <1>1 DEF SubsStart, UrlsStart, WaybackStart, Starts
<1>2. ASSUME SubsBudgetOver \/ SubsReturns PROVE Logged(OsintMods)
  BY <1>2 DEF SubsBudgetOver, SubsReturns, In, Stays
<1>3. ASSUME NEW d, NEW src, NEW ns, SubsFails(d, src) \/ SubsAnswers(d, src, ns) \/ SubsEmit(d, ns)
      PROVE  Logged(OsintMods)
  BY <1>3 DEF SubsFails, SubsAnswers, SubsEmit, SubsTurn, In, Stays
<1>4. ASSUME NEW d, NEW src, NEW us, NEW kept, NEW b \in BOOLEAN,
             UrlsEmit(d) \/ UrlsFetch(d, src, b, us) \/ WaybackDomain(d, b, kept)
      PROVE  Logged(OsintMods)
  BY <1>4 DEF UrlsEmit, UrlsFetch, WaybackDomain, In, Stays, Goes
<1>5. ASSUME NEW how, NEW fs, GithubStart(how) \/ GithubSearch(fs) \/ GithubPassB
      PROVE  Logged(OsintMods)
  BY <1>5 DEF GithubStart, GithubSearch, GithubPassB, Starts, In, Stays, Goes
<1>6. ASSUME NEW a, NEW read, NEW b \in BOOLEAN, GithubProfile(a, b) \/ GithubEnumerate(a, read)
      PROVE  Logged(OsintMods)
  BY <1>6 DEF GithubProfile, GithubEnumerate, In, Stays, Goes
<1> HIDE DEF Logged, OsintMods
<1> QED
  BY <1>1, <1>2, <1>3, <1>4, <1>5, <1>6 DEF OsintNext

-----------------------------------------------------------------------------
(* The audit log *)

\* Every tool that was started is in the audit log.  An apex that the brute
\* force tried is, or it is the one that it is at; so is a name server that was
\* asked for a zone.  A domain is said to have refused when it is done with.
BruteAudited ==
  /\ ended = "returned" => todo = {}
  /\ \A d \in seen : <<"subdomain_brute", d>> \in audited \/ d \in todo
  /\ \A d, e \in seen \intersect todo : d = e

AxfrAudited ==
  /\ ended = "returned" => todo = {}
  /\ \A w \in todo : w = <<w[1], w[2]>> /\ w[2] \in NameServers
  /\ \A w \in todo : \A ns \in NameServers : <<w[1], ns>> \in todo \union seen
  /\ \A w \in seen : \/ \E b \in BOOLEAN : <<"dns_axfr", <<w[1], w[2], b>> >> \in audited
                     \/ w \in todo /\ at = "asked"
  /\ \A w, v \in seen \intersect todo : w = v
  /\ at = "work" => seen \intersect todo = {}
  /\ \A n \in noted : n[2] = "refused" => \A ns \in NameServers :
       /\ <<"dns_axfr", <<n[3][1], ns, FALSE>> >> \in audited /\ ns \in n[3][2]
       /\ <<"dns_axfr", <<n[3][1], ns, TRUE>> >> \notin audited
       /\ <<n[3][1], ns>> \notin todo

AuditInv ==
  /\ mod = "none" => /\ at = "learn" /\ ended = "no" /\ todo = {} /\ seen = {}
                     /\ touched = {} /\ audited = {} /\ noted = {}
  /\ \A c \in touched : c[1] = mod /\ (mod \in DOMAIN ToolOf => c \in audited)
  /\ \A n \in noted : n[1] = mod
  /\ Tooled /\ at = "launch" => \A h \in seen : <<mod, h>> \in audited
  /\ mod = "subdomain_brute" => BruteAudited
  /\ mod = "dns_axfr" => AxfrAudited

\* A module that audits nothing itself leaves AuditInv true.
LEMMA AuditElsewhere ==
  ASSUME AuditInv, NEW ms, Logged(ms), "none" \notin ms,
         ms \intersect {"port_scan", "dir_fuzz", "dns_axfr", "subdomain_brute"} = {}
  PROVE  AuditInv'
<1>1. mod' \notin {"none", "port_scan", "dir_fuzz", "dns_axfr", "subdomain_brute"}
  BY DEF Logged
<1>2. /\ \A c \in touched : c[1] = mod'
      /\ \A n \in noted : n[1] = mod'
  BY DEF AuditInv, Logged
<1> QED
  BY <1>1, <1>2 DEF AuditInv, Logged, Tooled, ToolOf

\* Learning a fact, the override and the end of a module.
LEMMA RunningAudit ==
  ASSUME AuditInv, \/ \E f \in Facts : Learn(f)
                   \/ AllowOutOfScope \/ BodyStops \/ BodyCut \/ OrphanExits
                   \/ \E m \in Plain : BodyReturns(m)
  PROVE  AuditInv'
<1>1. /\ UNCHANGED <<mod, at, todo, seen, touched, audited, noted>>
      /\ mod = "none" => ended' = ended
      /\ ended' = "returned" => ended = "returned" \/ todo = {}
  <2>1. \A f : Learn(f) =>
          ended' = ended /\ UNCHANGED <<mod, at, todo, seen, touched, audited, noted>>
    BY DEF Learn
  <2>2. AllowOutOfScope \/ OrphanExits =>
          ended' = ended /\ UNCHANGED <<mod, at, todo, seen, touched, audited, noted>>
    BY DEF AllowOutOfScope, OrphanExits
  <2>3. BodyStops \/ BodyCut =>
          /\ ended' # "returned" /\ mod # "none"
          /\ UNCHANGED <<mod, at, todo, seen, touched, audited, noted>>
    BY DEF BodyStops, BodyCut, Ends
  <2>4. ASSUME NEW m \in Plain, BodyReturns(m)
        PROVE  /\ todo = {} /\ mod # "none"
               /\ UNCHANGED <<mod, at, todo, seen, touched, audited, noted>>
    <3>1. In(m, "work") /\ todo = {} /\ UNCHANGED <<mod, at, todo, seen, touched, audited, noted>>
      BY <2>4 DEF BodyReturns
    <3>2. at = "work"
      BY <3>1 DEF In
    <3> QED
      BY <3>1, <3>2 DEF AuditInv
  <2> QED
    BY <2>1, <2>2, <2>3, <2>4
<1> QED
  BY <1>1 DEF AuditInv, Tooled, BruteAudited, AxfrAudited

\* The tools: what is launched was audited.
LEMMA ToolAudit ==
  ASSUME AuditInv, \/ AuditTool \/ LaunchTool \/ PortScanWithoutNmap \/ PortScanStart
                   \/ \E b \in BOOLEAN : DirFuzzStart(b) \/ \E c \in BOOLEAN : ToolExits(b, c)
                   \/ mod \in DOMAIN ToolOf /\ \E hs \in SUBSET seen : ParseOutput(hs)
                   \/ ParseFails \/ \E h \in Hosts : FuzzRoot(h)
  PROVE  AuditInv'
<1> USE DEF ToolOf
<1>1. ASSUME AuditTool PROVE AuditInv'
  <2>1. /\ mod \in DOMAIN ToolOf /\ UNCHANGED <<mod, seen, touched, noted>>
        /\ audited' = audited \union {<<mod, h>> : h \in seen}
    BY <1>1 DEF AuditTool, Tooled, Goes, Audits
  <2> QED
    BY <2>1 DEF AuditInv, Tooled
<1>2. ASSUME LaunchTool PROVE AuditInv'
  <2>1. /\ mod \in DOMAIN ToolOf /\ at = "launch" /\ at' = "wait"
        /\ UNCHANGED <<mod, seen, audited, noted>>
        /\ touched' = touched \union {<<mod, h>> : h \in seen}
    BY <1>2 DEF LaunchTool, Tooled, In, Goes, Touches
  <2> QED
    BY <2>1 DEF AuditInv, Tooled
<1>3. ASSUME \/ PortScanWithoutNmap \/ PortScanStart \/ \E b \in BOOLEAN : DirFuzzStart(b)
             \/ \E b, c \in BOOLEAN : ToolExits(b, c)
             \/ mod \in DOMAIN ToolOf /\ \E hs \in SUBSET seen : ParseOutput(hs)
             \/ ParseFails \/ \E h \in Hosts : FuzzRoot(h)
      PROVE  AuditInv'
  <2>1. /\ mod' \in DOMAIN ToolOf /\ at' # "launch" /\ UNCHANGED <<touched, audited>>
        /\ mod = "none" \/ mod' = mod
    BY <1>3 DEF PortScanWithoutNmap, PortScanStart, DirFuzzStart, ToolExits, ParseOutput, ParseFails, FuzzRoot,
                Tooled, In, Starts, Goes, NoTouches, NoAudits
  <2>2. \A n \in noted' : n \in noted \/ n[1] = mod'
    <3>1. ActiveNext
      BY <1>3 DEF ActiveNext
    <3> QED
      BY <3>1, ActiveSteps DEF Logged
  <2>3. \A c \in touched' : c[1] = mod' /\ c \in audited'
    <3>1. CASE mod = "none"
      BY <2>1, <3>1 DEF AuditInv
    <3>2. CASE mod' = mod
      BY <2>1, <3>2 DEF AuditInv
    <3> QED
      BY <2>1, <3>1, <3>2
  <2>4. \A n \in noted' : n[1] = mod'
    <3>1. CASE mod = "none"
      BY <2>2, <3>1 DEF AuditInv
    <3>2. CASE mod' = mod
      BY <2>2, <3>2 DEF AuditInv
    <3> QED
      BY <2>1, <3>1, <3>2
  <2>5. mod' \notin {"none", "dns_axfr", "subdomain_brute"}
    BY <2>1
  <2> QED
    BY <2>1, <2>3, <2>4, <2>5 DEF AuditInv, Tooled
<1> QED
  BY <1>1, <1>2, <1>3

\* A step of the transfers, with what it adds to the log.
LEMMA AxfrStep ==
  ASSUME AuditInv, mod = "dns_axfr", mod' = mod, AxfrAudited',
         \A c \in touched' : c \in touched \/ c[1] = mod',
         \A n \in noted' : n \in noted \/ n[1] = mod'
  PROVE  AuditInv'
BY DEF AuditInv, Tooled, ToolOf

\* The transfers: nobody is said to have refused who was not asked, and who was
\* asked is in the log before the next one is.
LEMMA AxfrAudit ==
  ASSUME AuditInv, \/ AxfrStart
                   \/ \E h \in Hosts, b \in BOOLEAN : NoNameServers(h, b)
                   \/ \E h \in Hosts, ns \in NameServers :
                        \/ AskNameServer(h, ns) \/ RecordTransfer(h, ns)
                        \/ \E b \in BOOLEAN : AuditTransfer(h, ns, b)
  PROVE  AuditInv'
<1>1. ASSUME AxfrStart PROVE AuditInv'
  <2>1. /\ mod' = "dns_axfr" /\ todo' = {<<d, ns>> : d \in Apexes, ns \in NameServers}
        /\ touched' = {} /\ noted' = {} /\ seen' = {} /\ ended' = "no"
    BY <1>1 DEF AxfrStart, Starts, NoTouches, NoNotes, GoesOn, AuditInv
  <2>2. ASSUME NEW w \in todo'
        PROVE  w = <<w[1], w[2]>> /\ w[1] \in Apexes /\ w[2] \in NameServers
    <3>1. PICK d \in Apexes, ns \in NameServers : w = <<d, ns>>
      BY <2>1, <2>2
    <3> QED
      BY <3>1
  <2>3. \A w \in todo', ns \in NameServers : <<w[1], ns>> \in todo'
    BY <2>1, <2>2
  <2>4. AxfrAudited'
    BY <2>1, <2>2, <2>3 DEF AxfrAudited
  <2> QED
    BY <2>1, <2>4 DEF AuditInv, Tooled, ToolOf
<1>2. ASSUME NEW h \in Hosts, NEW b \in BOOLEAN, NoNameServers(h, b) PROVE AuditInv'
  <2>1. /\ mod = "dns_axfr" /\ at = "work" /\ ended = "no" /\ UNCHANGED <<mod, at, seen, touched, audited, ended>>
        /\ todo' = {w \in todo : w[1] # h}
        /\ \A n \in noted' : n \in noted \/ (n[1] = mod /\ n[2] = "error")
    BY <1>2 DEF NoNameServers, AxfrTurn, In, Stays, Notes, NoNotes
  <2>2. AxfrAudited /\ seen \intersect todo = {}
    BY <2>1 DEF AuditInv, AxfrAudited
  <2>3. \A w \in todo' : \A ns \in NameServers : <<w[1], ns>> \in todo' \union seen'
    <3>1. ASSUME NEW w \in todo', NEW ns \in NameServers, <<w[1], ns>> \in todo
          PROVE  <<w[1], ns>> \in todo'
      BY <2>1, <3>1
    <3> QED
      BY <2>1, <2>2, <3>1 DEF AxfrAudited
  <2>4. AxfrAudited'
    BY <2>1, <2>2, <2>3 DEF AxfrAudited
  <2> QED
    BY <2>1, <2>4, AxfrStep
<1>3. ASSUME NEW d \in Hosts, NEW ns \in NameServers, AskNameServer(d, ns) PROVE AuditInv'
  <2>1. /\ mod = "dns_axfr" /\ at = "work" /\ ended = "no" /\ at' = "asked"
        /\ UNCHANGED <<mod, todo, audited, noted, ended>>
        /\ <<d, ns>> \in todo /\ seen' = seen \union {<<d, ns>>}
        /\ touched' = touched \union {<<mod, d>>}
    BY <1>3 DEF AskNameServer, AxfrTurn, In, Goes, Touches
  <2>2. AxfrAudited /\ seen \intersect todo = {}
    BY <2>1 DEF AuditInv, AxfrAudited
  <2>3. AxfrAudited'
    BY <2>1, <2>2 DEF AxfrAudited
  <2> QED
    BY <2>1, <2>3, AxfrStep
<1>4. ASSUME NEW d \in Hosts, NEW ns \in NameServers, NEW b \in BOOLEAN, AuditTransfer(d, ns, b)
      PROVE  AuditInv'
  <2>1. /\ mod = "dns_axfr" /\ at = "asked" /\ ended = "no" /\ at' = "told"
        /\ UNCHANGED <<mod, todo, seen, touched, noted, ended>>
        /\ <<d, ns>> \in seen /\ <<d, ns>> \in todo
        /\ audited' = audited \union {<<"dns_axfr", <<d, ns, b>> >>}
    BY <1>4 DEF AuditTransfer, In, Goes, Audits
  <2>2. AxfrAudited
    BY <2>1 DEF AuditInv
  <2>3. \A w \in seen' : \E c \in BOOLEAN : <<"dns_axfr", <<w[1], w[2], c>> >> \in audited'
    <3> SUFFICES ASSUME NEW w \in seen
                 PROVE  \E c \in BOOLEAN : <<"dns_axfr", <<w[1], w[2], c>> >> \in audited'
      BY <2>1
    <3>1. CASE w \in todo
      <4>1. w = <<d, ns>>
        BY <2>1, <2>2, <3>1 DEF AxfrAudited
      <4>2. w[1] = d /\ w[2] = ns
        BY <4>1
      <4> QED
        BY <2>1, <4>2
    <3>2. CASE w \notin todo
      BY <2>1, <2>2, <3>2 DEF AxfrAudited
    <3> QED
      BY <3>1, <3>2
  <2>4. ASSUME NEW n \in noted', n[2] = "refused", NEW s \in NameServers
        PROVE  /\ <<"dns_axfr", <<n[3][1], s, FALSE>> >> \in audited' /\ s \in n[3][2]
               /\ <<"dns_axfr", <<n[3][1], s, TRUE>> >> \notin audited'
               /\ <<n[3][1], s>> \notin todo'
    <3>1. /\ <<"dns_axfr", <<n[3][1], s, FALSE>> >> \in audited /\ s \in n[3][2]
          /\ <<"dns_axfr", <<n[3][1], s, TRUE>> >> \notin audited
          /\ <<n[3][1], s>> \notin todo
      BY <2>1, <2>2, <2>4 DEF AxfrAudited
    <3>2. <<"dns_axfr", <<n[3][1], s, TRUE>> >> # <<"dns_axfr", <<d, ns, b>> >>
      BY <2>1, <3>1
    <3> QED
      BY <2>1, <3>1, <3>2
  <2>5. AxfrAudited'
    BY <2>1, <2>2, <2>3, <2>4 DEF AxfrAudited
  <2> QED
    BY <2>1, <2>5, AxfrStep
<1>5. ASSUME NEW d \in Hosts, NEW ns \in NameServers, RecordTransfer(d, ns) PROVE AuditInv'
  <2> DEFINE over == \A w \in todo : w[1] = d => w[2] = ns
             all  == over /\ \A n \in NameServers : ~Granted(d, n)
             new  == (IF Granted(d, ns) THEN {<<"zone", d>>} ELSE {})
                       \union (IF all THEN {<<"refused", <<d, Refusers(d)>> >>} ELSE {})
  <2>1. /\ mod = "dns_axfr" /\ at = "told" /\ ended = "no" /\ at' = "work"
        /\ UNCHANGED <<mod, seen, touched, audited, ended>>
        /\ <<d, ns>> \in seen /\ <<d, ns>> \in todo /\ todo' = todo \ {<<d, ns>>}
        /\ noted' = noted \union {<<mod, x[1], x[2]>> : x \in new}
    BY <1>5 DEF RecordTransfer, In, Goes, Notes
  <2>2. AxfrAudited
    BY <2>1 DEF AuditInv
  <2>3. \A x \in new : x = <<"zone", d>> \/ (x = <<"refused", <<d, Refusers(d)>> >> /\ all)
    OBVIOUS
  <2> HIDE DEF new
  <2>4. \A n \in noted' : \/ n \in noted \/ n = <<mod, "zone", d>>
                          \/ (n = <<mod, "refused", <<d, Refusers(d)>> >> /\ all)
    <3> HIDE DEF all
    <3> QED
      BY <2>1, <2>3
  <2>5. ASSUME all, NEW s \in NameServers
        PROVE  /\ <<"dns_axfr", <<d, s, FALSE>> >> \in audited /\ s \in Refusers(d)
               /\ <<"dns_axfr", <<d, s, TRUE>> >> \notin audited
               /\ <<d, s>> \notin todo \/ s = ns
    <3>1. <<d, s>> \notin todo \/ s = ns
      <4>1. <<d, s>>[1] = d /\ <<d, s>>[2] = s
        OBVIOUS
      <4> QED
        BY <2>5, <4>1
    <3>2. <<d, s>> \in seen
      <4>1. <<d, ns>>[1] = d
        OBVIOUS
      <4>2. <<d, s>> \in todo \union seen
        BY <2>1, <2>2, <4>1 DEF AxfrAudited
      <4> QED
        BY <2>1, <3>1, <4>2
    <3>3. \E b \in BOOLEAN : <<"dns_axfr", <<d, s, b>> >> \in audited
      <4>1. <<d, s>>[1] = d /\ <<d, s>>[2] = s
        OBVIOUS
      <4> QED
        BY <2>1, <2>2, <3>2, <4>1 DEF AxfrAudited
    <3>4. <<"dns_axfr", <<d, s, TRUE>> >> \notin audited
      BY <2>1, <2>5 DEF Granted
    <3>5. <<"dns_axfr", <<d, s, FALSE>> >> \in audited
      BY <3>3, <3>4
    <3> QED
      BY <2>1, <3>1, <3>4, <3>5 DEF Refusers
  <2>6. ASSUME NEW n \in noted', n[2] = "refused", NEW s \in NameServers
        PROVE  /\ <<"dns_axfr", <<n[3][1], s, FALSE>> >> \in audited' /\ s \in n[3][2]
               /\ <<"dns_axfr", <<n[3][1], s, TRUE>> >> \notin audited'
               /\ <<n[3][1], s>> \notin todo'
    <3>1. CASE n \in noted
      BY <2>1, <2>2, <2>6, <3>1 DEF AxfrAudited
    <3>2. CASE n = <<mod, "refused", <<d, Refusers(d)>> >> /\ all
      <4>1. n[3][1] = d /\ n[3][2] = Refusers(d)
        BY <3>2
      <4> HIDE DEF all
      <4>2. /\ <<"dns_axfr", <<d, s, FALSE>> >> \in audited /\ s \in Refusers(d)
            /\ <<"dns_axfr", <<d, s, TRUE>> >> \notin audited
            /\ <<d, s>> \notin todo \/ s = ns
        BY <2>5, <3>2
      <4> QED
        BY <2>1, <4>1, <4>2
    <3>3. CASE n = <<mod, "zone", d>>
      BY <2>6, <3>3
    <3> HIDE DEF all
    <3> QED
      BY <2>4, <3>1, <3>2, <3>3
  <2>7. seen' \intersect todo' = {}
    BY <2>1, <2>2 DEF AxfrAudited
  <2>8. \A w \in todo' : \A s \in NameServers : <<w[1], s>> \in todo' \union seen'
    BY <2>1, <2>2 DEF AxfrAudited
  <2>9. \A w \in seen' : \E b \in BOOLEAN : <<"dns_axfr", <<w[1], w[2], b>> >> \in audited'
    BY <2>1, <2>2 DEF AxfrAudited
  <2>10. AxfrAudited'
    BY <2>1, <2>2, <2>6, <2>7, <2>8, <2>9 DEF AxfrAudited
  <2>11. \A n \in noted' : n \in noted \/ n[1] = mod'
    <3> HIDE DEF all
    <3> QED
      BY <2>1, <2>4
  <2> QED
    BY <2>1, <2>10, <2>11, AxfrStep
<1> QED
  BY <1>1, <1>2, <1>3, <1>4, <1>5

\* The brute force: an apex that was left was audited.
LEMMA BruteAudits ==
  ASSUME AuditInv, \/ \E hs \in SUBSET Apexes : BruteStart(hs)
                   \/ \E h \in Hosts : BruteWildcard(h) \/ BruteAudit(h)
                   \/ \E h \in Hosts, b \in BOOLEAN : BruteBatch(h, b)
  PROVE  AuditInv'
<1> USE DEF ToolOf, BruteAudited
<1>1. ASSUME NEW hs, BruteStart(hs) PROVE AuditInv'
  BY <1>1 DEF BruteStart, Starts, Touches, NoNotes, NoAudits, GoesOn, AuditInv, Tooled
<1>2. ASSUME NEW h, BruteWildcard(h) PROVE AuditInv'
  <2>1. /\ mod = "subdomain_brute" /\ ended = "no" /\ h \in todo
        /\ UNCHANGED <<mod, todo, touched, audited, ended>>
        /\ seen \intersect todo = {} /\ seen' = seen \union {h}
        /\ noted' = noted \union {<<mod, "wildcard", h>>}
    BY <1>2 DEF BruteWildcard, In, Goes, Notes
  <2> QED
    BY <2>1 DEF AuditInv, Tooled
<1>3. ASSUME NEW h, NEW b \in BOOLEAN, BruteBatch(h, b) PROVE AuditInv'
  <2>1. /\ mod = "subdomain_brute" /\ ended = "no" /\ h \in todo
        /\ UNCHANGED <<mod, todo, audited, ended>>
        /\ seen \intersect todo \subseteq {h} /\ seen' = seen \union {h}
        /\ touched' = touched \union {<<mod, h>>}
        /\ \A n \in noted' : n \in noted \/ n = <<mod, "subdomain", h>>
    BY <1>3 DEF BruteBatch, In, Stays, Notes, NoNotes, Touches
  <2> QED
    BY <2>1 DEF AuditInv, Tooled
<1>4. ASSUME NEW h, BruteAudit(h) PROVE AuditInv'
  <2>1. /\ mod = "subdomain_brute" /\ ended = "no" /\ h \in todo /\ h \in seen
        /\ UNCHANGED <<mod, seen, touched, noted, ended>>
        /\ todo' = todo \ {h} /\ audited' = audited \union {<<mod, h>>}
    BY <1>4 DEF BruteAudit, Goes, Audits
  <2> QED
    BY <2>1 DEF AuditInv, Tooled
<1> QED
  BY <1>1, <1>2, <1>3, <1>4

\* Every step of the active modules.
LEMMA ActiveAudit == ASSUME AuditInv, ActiveNext PROVE AuditInv'
<1>1. ASSUME ExposureStart PROVE Logged({"exposure_checks"})
  BY <1>1, ActiveSteps DEF Logged, ExposureStart, Starts, ActiveNext
<1>2. ASSUME mod = "exposure_checks", mod' = mod, ActiveNext PROVE Logged({"exposure_checks"})
  BY <1>2, ActiveSteps DEF Logged
<1>3. ASSUME Logged({"exposure_checks"}) PROVE AuditInv'
  BY <1>3, AuditElsewhere
<1>4. ASSUME mod = "exposure_checks", mod' = mod PROVE AuditInv'
  BY <1>2, <1>3, <1>4
<1>5. ASSUME NEW h \in Hosts, NEW p \in Paths, NEW b \in BOOLEAN, CheckPath(h, p, b) PROVE AuditInv'
  <2>1. mod = "exposure_checks" /\ mod' = mod
    BY <1>5 DEF CheckPath, CheckTurn, In, Stays
  <2> QED
    BY <2>1, <1>4
<1>6. ASSUME NEW h \in Hosts, NEW b \in BOOLEAN, CheckGraphql(h, b) PROVE AuditInv'
  <2>1. mod = "exposure_checks" /\ mod' = mod
    BY <1>6 DEF CheckGraphql, In, Goes
  <2> QED
    BY <2>1, <1>4
<1>7. ASSUME NEW h \in Hosts, CheckRefused(h) PROVE AuditInv'
  <2>1. mod = "exposure_checks" /\ mod' = mod
    BY <1>7 DEF CheckRefused, CheckTurn, In, Stays
  <2> QED
    BY <2>1, <1>4
<1>8. ASSUME NEW h \in Hosts, NEW kept \in SUBSET seen, RecordExposures(h, kept) PROVE AuditInv'
  <2>1. mod = "exposure_checks" /\ mod' = mod
    BY <1>8 DEF RecordExposures, CheckTurn, In, Goes
  <2> QED
    BY <2>1, <1>4
<1> QED
  BY ToolAudit, AxfrAudit, BruteAudits, <1>1, <1>3, <1>5, <1>6, <1>7, <1>8 DEF ActiveNext

\* AuditInv is inductive.
LEMMA AuditAlways == WorkSpec => []AuditInv
<1>1. WorkInit => AuditInv
  BY DEF WorkInit, AuditInv, Tooled, ToolOf
<1>2. AuditInv /\ UNCHANGED workVars => AuditInv'
  BY DEF AuditInv, BruteAudited, AxfrAudited, workVars, Tooled
<1>3. ASSUME AuditInv, DiscoveryNext \/ WebNext \/ OsintNext PROVE AuditInv'
  <2>1. Logged(DiscoveryMods) \/ Logged(WebMods) \/ Logged(OsintMods)
    BY <1>3, DiscoverySteps, WebSteps, OsintSteps
  <2>2. Logged(DiscoveryMods \union WebMods \union OsintMods)
    BY <2>1 DEF Logged
  <2> QED
    BY <1>3, <2>2, AuditElsewhere DEF DiscoveryMods, WebMods, OsintMods
<1>4. AuditInv /\ WorkNext => AuditInv'
  BY RunningAudit, ActiveAudit, <1>3 DEF WorkNext
<1> QED
  BY <1>1, <1>2, <1>4, PTL DEF WorkSpec

\* What a module sends past the HTTP client is audited, wherever it is stopped
\* or cut: a host before a tool is launched on it; a name server that was asked
\* for a zone, and an apex that was tried, but for the one it was at, and
\* without exception when it returns; and a domain is said to have refused a
\* transfer when each of its name servers was asked and none granted it.
THEOREM ActionsAreAudited == WorkSpec => []ActionsAudited
<1>1. AuditInv => ActionsAudited
  <2> SUFFICES ASSUME AuditInv PROVE ActionsAudited
    OBVIOUS
  <2>1. \A c \in touched : c[1] \in DOMAIN ToolOf => c \in audited
    BY DEF AuditInv
  <2>2. /\ \A w, v \in Unaudited : w = v /\ w \in todo
        /\ ended = "returned" => Unaudited = {}
    <3>1. CASE mod = "dns_axfr"
      <4>1. AxfrAudited
        BY <3>1 DEF AuditInv
      <4>2. \A w \in Unaudited : w \in seen \intersect todo
        BY <3>1, <4>1 DEF Unaudited, AxfrAudited
      <4> QED
        BY <4>1, <4>2 DEF AxfrAudited
    <3>2. CASE mod = "subdomain_brute"
      <4>1. BruteAudited
        BY <3>2 DEF AuditInv
      <4>2. \A w \in Unaudited : w \in seen \intersect todo
        BY <3>2, <4>1 DEF Unaudited, BruteAudited
      <4> QED
        BY <4>1, <4>2 DEF BruteAudited
    <3>3. CASE mod \notin {"dns_axfr", "subdomain_brute"}
      BY <3>3 DEF Unaudited
    <3> QED
      BY <3>1, <3>2, <3>3
  <2>3. \A n \in noted : n[1] = "dns_axfr" /\ n[2] = "refused" =>
          \A ns \in NameServers :
            /\ <<"dns_axfr", <<n[3][1], ns, FALSE>> >> \in audited /\ ns \in n[3][2]
            /\ <<"dns_axfr", <<n[3][1], ns, TRUE>> >> \notin audited
    BY DEF AuditInv, AxfrAudited
  <2> QED
    BY <2>1, <2>2, <2>3 DEF ActionsAudited
<1> QED
  BY <1>1, AuditAlways, PTL

-----------------------------------------------------------------------------
(* What the passive modules record *)

\* dns: a DNSKEY is only asked of a name with a record, and no answer, of this
\* run or another, means no audit row.  The recursion: a seed is a name known
\* before or found.  The permutations: a candidate is a new name.
NamesInv ==
  /\ mod = "dns" =>
       /\ \A q \in todo : q[2] = "DNSKEY" => \E m \in noted : m[2] = "record" /\ m[3][1] = q[1]
       /\ \A n \in noted : n[2] = "no_dnssec" =>
            /\ <<"dns", <<n[3], "DNSKEY">> >> \in audited
            /\ \E m \in noted : m[2] = "record" /\ m[3][1] = n[3]
       /\ "answered" \notin seen /\ "elsewhere" \notin seen =>
            audited = {} /\ \A q \in todo : q[2] # "DNSKEY"
       /\ <<"dns", "gave_up", "resolver">> \in noted =>
            ended # "no" /\ ("elsewhere" \notin seen => audited = {})
  /\ mod = "subdomain_recurse" =>
       /\ \A w \in todo : w[1] \in SeenNames
       /\ seen \subseteq Found
       /\ \A p \in Pivots :
            /\ p \in Below /\ p[1] \notin Named
            /\ \A q \in Pivots : q[1] = p[1] => q = p
            /\ p[2] \in Named \/ \E q \in Pivots : q[1] = p[2]
  /\ mod = "subdomain_permute" =>
       /\ \A c \in todo : c[1] \notin Named
       /\ \A n \in noted : n[2] = "alias" =>
            /\ at # "wildcard" /\ n[3][1][1] \notin Named
            /\ ~(n[3][2] \subseteq WildcardOf(ApexOf(n[3][1][2])))

ProbeRows(w) == {n[3] : n \in {m \in noted : m[1] = "probe_http" /\ m[2] = w}}
ProbeTouched  == {c[2] : c \in {d \in touched : d[1] = "probe_http"}}
HasRow(w, k)  == \E r \in ProbeRows(w) : r[1] = k
Busy(k)       == \E c \in seen : c[1] = k

\* One host of probe_http: it is still to be probed, in the hands of one
\* coroutine, or done with; its rows follow what the coroutine has come to.
HostInv(k) ==
  /\ k \in todo => ~Busy(k) /\ k \notin ProbeRows("live") \union ProbeRows("silent") /\ ~HasRow("url", k)
  /\ \A c, d \in seen : c[1] = k /\ d[1] = k => c = d
  /\ \A c \in seen : c[1] = k =>
       /\ k \notin ProbeRows("live") \union ProbeRows("silent")
       /\ HasRow("url", k) <=> c[3] \notin {"ask", "silent", "url"}
       /\ c[3] \in {"redirect", "tech", "liveness"} => HasRow("service", k)
       /\ c[3] # "ask" => k \in ProbeTouched
  /\ k \in ProbeRows("live") => HasRow("url", k) /\ HasRow("service", k) /\ k \in ProbeTouched
  /\ k \in ProbeRows("silent") => ~HasRow("url", k) /\ k \in ProbeTouched
  /\ HasRow("url", k) => k \in ProbeRows("live") \/ Busy(k)
  /\ \A u, v \in ProbeRows("url") : u[1] = k /\ v[1] = k => u = v
  /\ override /\ ended \in {"no", "returned"} /\ k \in ProbeTouched =>
       k \in ProbeRows("live") \union ProbeRows("silent") \/ Busy(k)

ProbesInv ==
  /\ mod = "probe_http" =>
       /\ \A k : HostInv(k)
       /\ at = "work" => seen = {}
       /\ ended = "returned" => seen = {}
  /\ mod = "http_analyzer" =>
       \A n \in noted : n[2] \in {"cert", "no_cert"} =>
         \/ <<"http_analyzer", <<"tls", n[3]>> >> \in audited
         \/ at = "tls_audit" /\ n[3] \in seen

\* passive_subdomains: a source is yet to be asked, or was asked and either
\* answered or is in an error row.  github_org: how the account is sought does
\* not change, and only one that fits is taken.
OsintInv ==
  /\ mod = "passive_subdomains" =>
       /\ Of("passive_subdomains", "name") \subseteq seen
       /\ \A t \in seen : <<t[2], t[1]>> \in InDomain /\ <<t[1], t[3]>> \in Answered
       /\ todo \intersect Asked("passive_subdomains") = {}
       /\ Of("passive_subdomains", "error") \subseteq Asked("passive_subdomains")
       /\ ended = "returned" => Untold = {} /\ Answered # {}
       /\ ended = "failed" => Untold = {} /\ Answered = {}
  /\ mod = "github_org" =>
       /\ "company" \in seen => seen \intersect {"given", "domains"} = {}
       /\ \A a \in seen \intersect Accounts :
            \/ "given" \in seen
            \/ IF "domains" \in seen THEN "domain" \in Profile[a] ELSE "name" \in Profile[a]
       /\ Of("github_org", "account") \subseteq seen \intersect Accounts

\* Before a module runs, and when a step only ends it.
Resting ==
  \/ mod' = "none"
  \/ /\ UNCHANGED <<facts, override, mod, at, todo, seen, touched, audited, noted>>
     /\ \/ ended' = ended
        \/ ended = "no" /\ ended' \in {"stopped", "cut"}
        \/ ended = "no" /\ ended' = "returned" /\ at = "work" /\ todo = {} /\ mod \in Plain

\* A step of the running body that belongs to no module's own work.
LEMMA RunningRests ==
  ASSUME \/ \E f \in Facts : Learn(f)
         \/ AllowOutOfScope \/ BodyStops \/ BodyCut \/ OrphanExits
         \/ \E m \in Plain : BodyReturns(m)
  PROVE  Resting
<1>1. ASSUME NEW f, Learn(f) PROVE Resting
  BY <1>1 DEF Learn, Resting
<1>2. ASSUME AllowOutOfScope PROVE Resting
  BY <1>2 DEF AllowOutOfScope, Resting
<1>3. ASSUME BodyStops \/ BodyCut \/ OrphanExits PROVE Resting
  BY <1>3 DEF BodyStops, BodyCut, OrphanExits, Ends, Resting
<1>4. ASSUME NEW m \in Plain, BodyReturns(m) PROVE Resting
  BY <1>4 DEF BodyReturns, In, Ends, Resting
<1> QED
  BY <1>1, <1>2, <1>3, <1>4

-----------------------------------------------------------------------------
(* Names *)

DnsStep ==
  \/ DnsStart \/ DnsBail \/ DnsElsewhere
  \/ \E n \in Hosts, t \in HostTypes \union ApexTypes \union {"DNSKEY"} :
       \/ DnsNoSuchName(<<n, t>>)
       \/ \E b \in BOOLEAN : DnsRecords(<<n, t>>, b) \/ DnsFails(<<n, t>>, b)
       \/ \E b, c \in BOOLEAN : DnsSec(<<n, t>>, b, c)
RecurseStep ==
  \/ RecurseStart \/ RecurseRound \/ RecurseReturns
  \/ \E s \in Hosts, src \in Sources :
       RecurseFails(s, src) \/ \E ns \in SUBSET CertNames : RecurseFetch(s, src, ns)
PermuteStep ==
  \/ PermuteStart \/ \E a \in RoeHosts, w \in SUBSET Addresses : PermuteWildcards(a, w)
  \/ \E c \in Hosts \X Hosts, vs \in SUBSET Addresses : PermuteResolve(c, vs)

\* The steps of the discovery modules, by the module that takes them.
LEMMA DiscoveryIs ==
  ASSUME DiscoveryNext
  PROVE  \/ DnsStep \/ RecurseStep \/ PermuteStep
         \/ mod' \notin {"dns", "subdomain_recurse", "subdomain_permute"}
<1> DEFINE Other == mod' \notin {"dns", "subdomain_recurse", "subdomain_permute"}
<1>1. ASSUME CtStart \/ CtReturns PROVE Other
  BY <1>1 DEF CtStart, CtReturns, BodyReturns, Starts, In
<1>2. ASSUME NEW d, NEW ns, NEW ks, NEW b \in BOOLEAN, CtFetch(d, ns, b) \/ CtEmit(ks, ns)
      PROVE  Other
  BY <1>2 DEF CtFetch, CtEmit, In, Stays
<1>3. ASSUME InternetStart \/ EmailStart \/ \E b \in BOOLEAN : TakeoverStart(b) PROVE Other
  BY <1>3 DEF InternetStart, EmailStart, TakeoverStart, Starts
<1>4. ASSUME NEW h, NEW b \in BOOLEAN, NEW c \in BOOLEAN, NEW d \in BOOLEAN,
             TakeoverNothing(h, b) \/ TakeoverProvider(h, b, c, d)
      PROVE  Other
  BY <1>4 DEF TakeoverNothing, TakeoverProvider, In, Stays
<1>5. ASSUME NEW ip, NEW b \in BOOLEAN, NEW rows, InternetLookup(ip, b, rows) PROVE Other
  BY <1>5 DEF InternetLookup, In, Stays
<1>6. ASSUME NEW d, NEW i, NEW b \in BOOLEAN, NEW w \in BOOLEAN, EmailCheck(d, i, b, w) PROVE Other
  BY <1>6 DEF EmailCheck, In, Stays
<1> HIDE DEF Other
<1>7. DnsStep \/ RecurseStep \/ PermuteStep \/ Other
  BY <1>1, <1>2, <1>3, <1>4, <1>5, <1>6 DEF DiscoveryNext, DnsStep, RecurseStep, PermuteStep
<1> QED
  BY <1>7 DEF Other

\* While dns runs.
LEMMA DnsKeeps ==
  ASSUME NamesInv, mod = "dns", mod' = "dns", ended = "no",
         noted \subseteq noted', audited \subseteq audited',
         NEW new, noted' = noted \union {<<mod', n[1], n[2]>> : n \in new},
         \A n \in new : n[1] # "gave_up",
         \A n \in new : n[1] = "no_dnssec" =>
           /\ <<"dns", <<n[2], "DNSKEY">> >> \in audited'
           /\ \E m \in noted' : m[2] = "record" /\ m[3][1] = n[2],
         \A q \in todo' : q[2] = "DNSKEY" =>
           q \in todo \/ \E m \in noted' : m[2] = "record" /\ m[3][1] = q[1],
         "answered" \notin seen' /\ "elsewhere" \notin seen' =>
           audited' = {} /\ \A q \in todo' : q[2] # "DNSKEY"
  PROVE  NamesInv'
<1>1. <<"dns", "gave_up", "resolver">> \notin noted'
  BY DEF NamesInv
<1>2. ASSUME NEW n \in noted', n[2] = "no_dnssec"
      PROVE  /\ <<"dns", <<n[3], "DNSKEY">> >> \in audited'
             /\ \E m \in noted' : m[2] = "record" /\ m[3][1] = n[3]
  <2>1. CASE n \in noted
    BY <1>2, <2>1 DEF NamesInv
  <2>2. CASE \E k \in new : n = <<mod', k[1], k[2]>>
    BY <1>2, <2>2
  <2> QED
    BY <2>1, <2>2
<1>3. ASSUME NEW q \in todo', q[2] = "DNSKEY"
      PROVE  \E m \in noted' : m[2] = "record" /\ m[3][1] = q[1]
  BY <1>3 DEF NamesInv
<1> QED
  BY <1>1, <1>2, <1>3 DEF NamesInv

\* dns: every step keeps DNSKEY questions behind a record of the name.
LEMMA DnsNames == ASSUME AuditInv, NamesInv, DnsStep PROVE NamesInv'
<1>1. ASSUME DnsStart PROVE NamesInv'
  <2>1. /\ mod' = "dns" /\ noted' = {} /\ audited' = {} /\ seen' = {}
        /\ todo' = UNION {QueriesOf(n) : n \in RoeHosts \union Named}
    BY <1>1 DEF DnsStart, Starts, NoNotes, NoAudits, AuditInv
  <2>2. \A n : \A q \in QueriesOf(n) : q[2] # "DNSKEY"
    BY DiscoveryAssumption DEF DiscoveryAssumption, QueriesOf
  <2> QED
    BY <2>1, <2>2 DEF NamesInv
<1>2. ASSUME DnsBail PROVE NamesInv'
  <2>1. /\ mod = "dns" /\ mod' = "dns" /\ UNCHANGED <<todo, seen, audited>> /\ ended' = "returned"
        /\ noted' = noted \union {<<"dns", "gave_up", "resolver">>} /\ "answered" \notin seen
    BY <1>2 DEF DnsBail, In, Stays, Notes, Ends, GivesUp
  <2> QED
    BY <2>1 DEF NamesInv
<1>3. ASSUME DnsElsewhere PROVE NamesInv'
  <2>1. /\ mod = "dns" /\ mod' = "dns" /\ ended = "no" /\ UNCHANGED <<todo, audited, noted>>
        /\ "elsewhere" \in seen'
    BY <1>3 DEF DnsElsewhere, In
  <2> QED
    BY <2>1 DEF NamesInv
<1>4. ASSUME NEW q, DnsNoSuchName(q) PROVE NamesInv'
  <2>1. /\ mod = "dns" /\ mod' = "dns" /\ ended = "no" /\ todo' \subseteq todo /\ noted' = noted
        /\ "answered" \in seen' /\ audited \subseteq audited'
    BY <1>4 DEF DnsNoSuchName, DnsAnswered, In, Stays, Audits
  <2> QED
    BY <2>1 DEF NamesInv
<1>5. ASSUME NEW q, NEW some \in BOOLEAN, DnsRecords(q, some) PROVE NamesInv'
  <2> DEFINE new == IF some THEN {<<"record", q>>} ELSE {}
  <2>1. /\ mod = "dns" /\ mod' = "dns" /\ ended = "no" /\ "answered" \in seen'
        /\ todo' = (todo \ {q}) \union (IF some THEN {<<q[1], "DNSKEY">>} ELSE {})
        /\ audited \subseteq audited'
        /\ noted' = noted \union {<<mod', n[1], n[2]>> : n \in new}
    BY <1>5 DEF DnsRecords, DnsAnswered, In, Stays, Audits, Notes, NoNotes
  <2>2. \A n \in new : n[1] = "record"
    OBVIOUS
  <2>3. ASSUME NEW p \in todo'
        PROVE  p \in todo \/ \E m \in noted' : m[2] = "record" /\ m[3][1] = p[1]
    <3>1. CASE some
      <4>1. <<mod', "record", q>> \in noted'
        <5>1. <<"record", q>> \in new
          BY <3>1
        <5> QED
          BY <2>1, <5>1
      <4> QED
        BY <2>1, <3>1, <4>1
    <3>2. CASE ~some
      BY <2>1, <3>2
    <3> QED
      BY <3>1, <3>2
  <2> HIDE DEF new
  <2> QED
    BY <2>1, <2>2, <2>3, DnsKeeps
<1>6. ASSUME NEW q, NEW b \in BOOLEAN, DnsFails(q, b) PROVE NamesInv'
  <2> DEFINE new == {<<"error", q>>}
  <2>1. /\ mod = "dns" /\ mod' = "dns" /\ ended = "no" /\ UNCHANGED <<seen, audited>>
        /\ todo' \subseteq todo
        /\ noted' = noted \union {<<mod', n[1], n[2]>> : n \in new}
    BY <1>6 DEF DnsFails, In, Stays, NoAudits, Notes
  <2>2. \A n \in new : n[1] = "error"
    OBVIOUS
  <2>3. "answered" \notin seen' /\ "elsewhere" \notin seen' =>
           audited' = {} /\ \A p \in todo' : p[2] # "DNSKEY"
    BY <2>1 DEF NamesInv
  <2> HIDE DEF new
  <2> QED
    BY <2>1, <2>2, <2>3, DnsKeeps
<1>7. ASSUME NEW h, NEW t, NEW b \in BOOLEAN, NEW c \in BOOLEAN, DnsSec(<<h, t>>, b, c)
      PROVE  NamesInv'
  <2> DEFINE new == IF b /\ ~c THEN {<<"no_dnssec", h>>} ELSE {}
  <2>1. /\ mod = "dns" /\ mod' = "dns" /\ ended = "no" /\ seen' = seen
        /\ <<h, t>> \in todo /\ t = "DNSKEY" /\ todo' \subseteq todo
        /\ audited' = IF b THEN audited \union {<<mod', <<h, t>> >>} ELSE audited
        /\ noted' = noted \union {<<mod', n[1], n[2]>> : n \in new}
    BY <1>7 DEF DnsSec, DnsTurn, In, Stays, Audits, NoAudits, Notes, NoNotes
  <2>2. PICK m \in noted : m[2] = "record" /\ m[3][1] = h
    BY <2>1 DEF NamesInv
  <2>3. \A n \in new : b /\ n[1] = "no_dnssec" /\ n[2] = h
    OBVIOUS
  <2>4. "answered" \in seen \/ "elsewhere" \in seen
    BY <2>1 DEF NamesInv
  <2>5. \A n \in new : <<"dns", <<n[2], "DNSKEY">> >> \in audited'
    BY <2>1, <2>3
  <2> HIDE DEF new
  <2> QED
    BY <2>1, <2>2, <2>3, <2>4, <2>5, DnsKeeps
<1> QED
  BY <1>1, <1>2, <1>3, <1>4, <1>5, <1>6, <1>7 DEF DnsStep

\* What the recursion has found depends on what is recorded only.
LEMMA SameNames ==
  ASSUME UNCHANGED facts
  PROVE  Named' = Named
BY DEF Named, Known

\* A row of the recursion that is no name leads nowhere.
LEMMA SamePivots ==
  ASSUME NEW new, noted' = noted \union new, \A n \in new : n[2] # "name"
  PROVE  Pivots' = Pivots /\ Found' = Found
<1>1. Pivots' = Pivots
  BY DEF Pivots
<1> QED
  BY <1>1 DEF Found

\* New names of one seed.
LEMMA NewPivots ==
  ASSUME NEW kept, NEW s,
         noted' = noted \union {<<"subdomain_recurse", "name", <<n, s>> >> : n \in kept}
  PROVE  Pivots' = Pivots \union {<<n, s>> : n \in kept} /\ Found' = Found \union kept
<1>1. ASSUME NEW p PROVE p \in Pivots' <=> p \in Pivots \/ \E n \in kept : p = <<n, s>>
  <2>1. p \in Pivots' <=> \E m \in noted' : m[1] = "subdomain_recurse" /\ m[2] = "name" /\ m[3] = p
    BY DEF Pivots
  <2>2. p \in Pivots <=> \E m \in noted : m[1] = "subdomain_recurse" /\ m[2] = "name" /\ m[3] = p
    BY DEF Pivots
  <2>3. ASSUME NEW n \in kept, p = <<n, s>> PROVE p \in Pivots'
    <3>1. <<"subdomain_recurse", "name", <<n, s>> >> \in noted'
      OBVIOUS
    <3> QED
      BY <2>1, <2>3, <3>1
  <2>4. ASSUME p \in Pivots' PROVE p \in Pivots \/ \E n \in kept : p = <<n, s>>
    <3>1. PICK m \in noted' : m[1] = "subdomain_recurse" /\ m[2] = "name" /\ m[3] = p
      BY <2>1, <2>4
    <3>2. CASE m \in noted
      BY <2>2, <3>1, <3>2
    <3>3. CASE m \notin noted
      <4>1. PICK n \in kept : m = <<"subdomain_recurse", "name", <<n, s>> >>
        BY <3>3
      <4> QED
        BY <3>1, <4>1
    <3> QED
      BY <3>2, <3>3
  <2> QED
    BY <2>1, <2>2, <2>3, <2>4
<1>2. Pivots' = Pivots \union {<<n, s>> : n \in kept}
  BY <1>1
<1>3. ASSUME NEW f PROVE f \in Found' <=> f \in Found \union kept
  <2>1. /\ f \in Found' <=> \E p \in Pivots' : p[1] = f
        /\ f \in Found <=> \E p \in Pivots : p[1] = f
    BY DEF Found
  <2>2. ASSUME NEW n \in kept PROVE <<n, s>> \in Pivots' /\ <<n, s>>[1] = n
    BY <1>1
  <2> QED
    BY <1>1, <2>1, <2>2
<1> QED
  BY <1>2, <1>3

\* The recursion: every step keeps a name tied to the seed it was found under.
LEMMA RecurseNames == ASSUME AuditInv, NamesInv, RecurseStep PROVE NamesInv'
<1>1. ASSUME RecurseStart PROVE NamesInv'
  <2>1. /\ mod' = "subdomain_recurse" /\ noted' = {} /\ seen' = {} /\ facts' = facts
        /\ \A w \in todo' : w[1] \in Named
    BY <1>1 DEF RecurseStart, Starts, NoNotes, AuditInv, SeedChoices
  <2>2. Pivots' = {}
    BY <2>1 DEF Pivots
  <2> QED
    BY <2>1, <2>2, SameNames DEF NamesInv, SeenNames
<1>2. ASSUME NEW s, NEW src, RecurseFails(s, src) PROVE NamesInv'
  <2>1. /\ mod = "subdomain_recurse" /\ mod' = mod
        /\ UNCHANGED <<facts, seen>> /\ todo' \subseteq todo
        /\ noted' = noted \union {<<mod, "error", <<src, s>> >>}
    BY <1>2 DEF RecurseFails, In, Stays, Notes
  <2>2. Pivots' = Pivots /\ Found' = Found
    <3> DEFINE new == {<<mod, "error", <<src, s>> >>}
    <3>1. \A n \in new : n[2] # "name"
      OBVIOUS
    <3>2. noted' = noted \union new
      BY <2>1
    <3> HIDE DEF new
    <3> QED
      BY <3>1, <3>2, SamePivots
  <2> QED
    BY <2>1, <2>2, SameNames DEF NamesInv, SeenNames
<1>3. ASSUME RecurseReturns PROVE NamesInv'
  <2>1. /\ mod = "subdomain_recurse" /\ mod' = mod /\ UNCHANGED <<facts, seen, todo, noted>>
    BY <1>3 DEF RecurseReturns, BodyReturns, In
  <2>2. Pivots' = Pivots /\ Found' = Found
    BY <2>1 DEF Pivots, Found
  <2> QED
    BY <2>1, <2>2, SameNames DEF NamesInv, SeenNames
<1>4. ASSUME RecurseRound PROVE NamesInv'
  <2>1. /\ mod = "subdomain_recurse" /\ mod' = mod /\ UNCHANGED <<facts, noted>> /\ seen' = {}
        /\ \A w \in todo' : w[1] \in seen
    BY <1>4 DEF RecurseRound, In, Stays, SeedChoices
  <2>2. Pivots' = Pivots /\ Found' = Found
    BY <2>1 DEF Pivots, Found
  <2>3. seen \subseteq Found
    BY <2>1 DEF NamesInv
  <2> QED
    BY <2>1, <2>2, <2>3, SameNames DEF NamesInv, SeenNames
<1>5. ASSUME NEW s, NEW src, NEW names, RecurseFetch(s, src, names) PROVE NamesInv'
  <2>1. /\ mod = "subdomain_recurse" /\ mod' = mod /\ facts' = facts
        /\ <<s, src>> \in todo /\ todo' \subseteq todo
    BY <1>5 DEF RecurseFetch, In, Stays
  <2>2. PICK kept : /\ kept \subseteq {n \in names \ SeenNames : <<n, s>> \in Below}
                    /\ seen' = seen \union kept
                    /\ Notes({<<"name", <<n, s>> >> : n \in kept})
    BY <1>5 DEF RecurseFetch
  <2>3. noted' = noted \union {<<"subdomain_recurse", "name", <<n, s>> >> : n \in kept}
    <3> DEFINE new == {<<"name", <<n, s>> >> : n \in kept}
               rows == {<<"subdomain_recurse", "name", <<n, s>> >> : n \in kept}
    <3>1. \A x : x \in {<<mod', y[1], y[2]>> : y \in new} <=> x \in rows
      <4>1. ASSUME NEW y \in new PROVE <<mod', y[1], y[2]>> \in rows
        <5>1. PICK n \in kept : y = <<"name", <<n, s>> >>
          OBVIOUS
        <5> QED
          BY <2>1, <5>1
      <4>2. ASSUME NEW n \in kept
            PROVE  \E y \in new : <<"subdomain_recurse", "name", <<n, s>> >> = <<mod', y[1], y[2]>>
        <5>1. <<"name", <<n, s>> >> \in new
          OBVIOUS
        <5> QED
          BY <2>1, <5>1
      <4>3. \A x \in rows : \E n \in kept : x = <<"subdomain_recurse", "name", <<n, s>> >>
        OBVIOUS
      <4> HIDE DEF new, rows
      <4> QED
        BY <4>1, <4>2, <4>3
    <3>2. noted' = noted \union {<<mod', y[1], y[2]>> : y \in new}
      BY <2>2 DEF Notes
    <3> HIDE DEF new
    <3> QED
      BY <3>1, <3>2
  <2>4. Pivots' = Pivots \union {<<n, s>> : n \in kept} /\ Found' = Found \union kept
    BY <2>3, NewPivots, SMTT(20)
  <2>6. /\ \A w \in todo : w[1] \in Named \union Found
        /\ seen \subseteq Found
        /\ \A p \in Pivots : /\ p \in Below /\ p[1] \notin Named
                             /\ \A q \in Pivots : q[1] = p[1] => q = p
                             /\ p[2] \in Named \/ \E q \in Pivots : q[1] = p[2]
    BY <2>1 DEF NamesInv, SeenNames
  <2>7. ASSUME NEW p \in Pivots'
        PROVE  /\ p \in Below /\ p[1] \notin Named
               /\ \A q \in Pivots' : q[1] = p[1] => q = p
               /\ p[2] \in Named \/ \E q \in Pivots' : q[1] = p[2]
    <3>1. \A n \in kept : n \notin Named /\ n \notin Found /\ <<n, s>> \in Below
      BY <2>2 DEF SeenNames
    <3>2. \A q \in Pivots : q[1] \in Found
      BY DEF Found
    <3>3. s \in Named \/ \E q \in Pivots : q[1] = s
      <4>1. <<s, src>>[1] \in Named \union Found
        BY <2>1, <2>6
      <4> QED
        BY <4>1 DEF Found
    <3>4. CASE p \in Pivots
      <4>1. \A q \in Pivots' : q[1] = p[1] => q = p
        BY <2>4, <2>6, <3>1, <3>2, <3>4
      <4> QED
        BY <2>4, <2>6, <3>4, <4>1
    <3>5. CASE \E n \in kept : p = <<n, s>>
      <4>1. PICK n \in kept : p = <<n, s>>
        BY <3>5
      <4>2. \A q \in Pivots' : q[1] = p[1] => q = p
        BY <2>4, <3>1, <3>2, <4>1
      <4>3. p[2] = s
        BY <4>1
      <4> QED
        BY <2>4, <3>1, <3>3, <4>1, <4>2, <4>3
    <3> QED
      BY <2>4, <3>4, <3>5
  <2> QED
    BY <2>1, <2>2, <2>4, <2>6, <2>7, SameNames DEF NamesInv, SeenNames
<1> QED
  BY <1>1, <1>2, <1>3, <1>4, <1>5 DEF RecurseStep

\* The permutations: an alias is recorded for a candidate only.
LEMMA PermuteNames == ASSUME AuditInv, NamesInv, PermuteStep PROVE NamesInv'
<1>1. ASSUME PermuteStart PROVE NamesInv'
  <2>1. /\ mod' = "subdomain_permute" /\ noted' = {} /\ facts' = facts
        /\ \A c \in todo' : c[1] \notin Named
    BY <1>1 DEF PermuteStart, Starts, NoNotes, AuditInv
  <2> QED
    BY <2>1, SameNames DEF NamesInv
<1>2. ASSUME NEW a, NEW w, PermuteWildcards(a, w) PROVE NamesInv'
  <2>1. /\ mod = "subdomain_permute" /\ mod' = mod /\ UNCHANGED <<facts, todo, noted>>
        /\ at = "wildcard"
    BY <1>2 DEF PermuteWildcards, In, Goes
  <2> QED
    BY <2>1, SameNames DEF NamesInv
<1>3. ASSUME NEW c, NEW vs, PermuteResolve(c, vs) PROVE NamesInv'
  <2>1. /\ mod = "subdomain_permute" /\ mod' = mod /\ at = "work" /\ UNCHANGED <<facts, at, seen>>
        /\ c \in todo /\ todo' \subseteq todo
        /\ \/ noted' = noted
           \/ /\ ~(vs \subseteq WildcardOf(ApexOf(c[2])))
              /\ noted' = noted \union {<<mod, "alias", <<c, vs>> >>}
    BY <1>3 DEF PermuteResolve, In, Stays, Notes, NoNotes
  <2>3. \A a : WildcardOf(a)' = WildcardOf(a)
    BY <2>1 DEF WildcardOf
  <2>2. ASSUME NEW n \in noted', n[2] = "alias"
        PROVE  /\ n[3][1][1] \notin Named
               /\ ~(n[3][2] \subseteq WildcardOf(ApexOf(n[3][1][2])))
    <3>1. CASE n \in noted
      BY <2>1, <2>2, <3>1 DEF NamesInv
    <3>2. CASE n = <<mod, "alias", <<c, vs>> >> /\ ~(vs \subseteq WildcardOf(ApexOf(c[2])))
      <4>1. n[3][1] = c /\ n[3][2] = vs
        BY <3>2
      <4> QED
        BY <2>1, <3>2, <4>1 DEF NamesInv
    <3> QED
      BY <2>1, <3>1, <3>2
  <2> QED
    BY <2>1, <2>2, <2>3, SameNames DEF NamesInv
<1> QED
  BY <1>1, <1>2, <1>3 DEF PermuteStep

\* A step into any other module leaves nothing to say.
LEMMA NamesElsewhere ==
  ASSUME mod' \notin {"dns", "subdomain_recurse", "subdomain_permute"}
  PROVE  NamesInv'
BY DEF NamesInv

\* A body that stops, is cut or returns records nothing.
LEMMA NamesRest == ASSUME NamesInv, Resting PROVE NamesInv'
<1>1. CASE mod' = "none"
  BY <1>1, NamesElsewhere
<1>2. CASE /\ UNCHANGED <<facts, override, mod, at, todo, seen, touched, audited, noted>>
           /\ ended' = ended \/ ended' # "no"
  <2>1. Pivots' = Pivots /\ Found' = Found /\ \A a : WildcardOf(a)' = WildcardOf(a)
    BY <1>2 DEF Pivots, Found, WildcardOf
  <2> QED
    BY <1>2, <2>1, SameNames DEF NamesInv, SeenNames
<1> QED
  BY <1>1, <1>2 DEF Resting

-----------------------------------------------------------------------------
(* Probes *)

ProbeStep ==
  \/ ProbeStart
  \/ mod = "probe_http" /\ \E hs \in SUBSET todo : ProbeBatch(hs)
  \/ \E h \in Hosts \union Addresses, s \in Schemes :
       \/ ProbeAnswers(h, s) \/ ProbeLive(h, s) \/ ProbeRefused(h, s)
       \/ ProbeSilent(h) \/ ProbeStops(h)
       \/ \E b \in BOOLEAN : ProbeFails(h, s, b)
       \/ \E row \in DOMAIN NextRow : \E next \in NextRow[row] : ProbeRow(h, s, row, next)
AnalyzerStep ==
  \/ AnalyzerStart
  \/ \E h \in Hosts, s \in Schemes :
       AnalyzerError(h, s) \/ \E b \in BOOLEAN : AnalyzerAnswers(h, s, b)
  \/ \E b \in BOOLEAN : AnalyzerTls(b)
  \/ AnalyzerTlsAudit \/ \E row \in {"cert", "no_cert"} : AnalyzerTlsRow(row)

\* The steps of the web modules, by the module that takes them.
LEMMA WebIs ==
  ASSUME WebNext
  PROVE  ProbeStep \/ AnalyzerStep \/ mod' \notin {"probe_http", "http_analyzer"}
<1> DEFINE Other == mod' \notin {"probe_http", "http_analyzer"}
<1>1. ASSUME JsStart \/ \E b \in BOOLEAN : FingerprintStart(b) PROVE Other
  BY <1>1 DEF JsStart, FingerprintStart, Starts
<1>2. ASSUME NEW h, NEW s, NEW b \in BOOLEAN, NEW c \in BOOLEAN, Fingerprint(h, s, b, c) PROVE Other
  BY <1>2 DEF Fingerprint, In, Stays
<1>3. ASSUME NEW h, NEW how, NEW found, NEW ss, NEW b \in BOOLEAN,
             JsNothing(h, b) \/ JsAnalyze(h, how, found, ss)
      PROVE  Other
  BY <1>3 DEF JsNothing, JsAnalyze, In, Stays
<1> HIDE DEF Other
<1>4. ProbeStep \/ AnalyzerStep \/ Other
  BY <1>1, <1>2, <1>3 DEF WebNext, ProbeStep, AnalyzerStep
<1> QED
  BY <1>4 DEF Other

\* What a probe records and contacts, it adds.
LEMMA RowsGrow ==
  ASSUME NEW new, mod' = "probe_http", Notes(new), \A x \in new : x = <<x[1], x[2]>>, NEW w
  PROVE  \A r : r \in ProbeRows(w)' <=> r \in ProbeRows(w) \/ <<w, r>> \in new
<1>1. noted' = noted \union {<<"probe_http", x[1], x[2]>> : x \in new}
  BY DEF Notes
<1>2. ASSUME NEW r PROVE r \in ProbeRows(w)' <=> r \in ProbeRows(w) \/ <<w, r>> \in new
  <2>1. r \in ProbeRows(w)' <=> \E m \in noted' : m[1] = "probe_http" /\ m[2] = w /\ m[3] = r
    BY DEF ProbeRows
  <2>2. r \in ProbeRows(w) <=> \E m \in noted : m[1] = "probe_http" /\ m[2] = w /\ m[3] = r
    BY DEF ProbeRows
  <2>3. ASSUME <<w, r>> \in new PROVE r \in ProbeRows(w)'
    <3>1. <<"probe_http", <<w, r>>[1], <<w, r>>[2]>> \in noted'
      BY <1>1, <2>3
    <3> QED
      BY <2>1, <3>1
  <2>4. ASSUME r \in ProbeRows(w)' PROVE r \in ProbeRows(w) \/ <<w, r>> \in new
    <3>1. PICK m \in noted' : m[1] = "probe_http" /\ m[2] = w /\ m[3] = r
      BY <2>1, <2>4
    <3>2. CASE m \in noted
      BY <2>2, <3>1, <3>2
    <3>3. CASE \E x \in new : m = <<"probe_http", x[1], x[2]>>
      <4>1. PICK x \in new : m = <<"probe_http", x[1], x[2]>>
        BY <3>3
      <4>2. x[1] = w /\ x[2] = r /\ x = <<x[1], x[2]>>
        BY <3>1, <4>1
      <4> QED
        BY <4>2
    <3> QED
      BY <1>1, <3>2, <3>3
  <2>5. ASSUME r \in ProbeRows(w) PROVE r \in ProbeRows(w)'
    <3>1. noted \subseteq noted'
      BY <1>1
    <3> QED
      BY <2>1, <2>2, <2>5, <3>1
  <2> QED
    BY <2>3, <2>4, <2>5
<1> QED
  BY <1>2

\* A coroutine contacts its own host.
LEMMA TouchedGrows ==
  ASSUME NEW h, mod' = "probe_http", Touches({h})
  PROVE  ProbeTouched' = ProbeTouched \union {h}
<1>1. touched' = touched \union {<<"probe_http", h>>}
  BY DEF Touches
<1>2. ASSUME NEW k PROVE k \in ProbeTouched' <=> k \in ProbeTouched \/ k = h
  <2>1. /\ k \in ProbeTouched' <=> \E d \in touched' : d[1] = "probe_http" /\ d[2] = k
        /\ k \in ProbeTouched <=> \E d \in touched : d[1] = "probe_http" /\ d[2] = k
    BY DEF ProbeTouched
  <2>2. <<"probe_http", h>>[1] = "probe_http" /\ <<"probe_http", h>>[2] = h
    OBVIOUS
  <2> QED
    BY <1>1, <2>1, <2>2
<1> QED
  BY <1>2

\* Nothing is recorded, nobody contacted.
LEMMA RowsStay ==
  ASSUME noted' = noted
  PROVE  \A w : ProbeRows(w)' = ProbeRows(w)
BY DEF ProbeRows

\* Whoever was not contacted stays so.
LEMMA TouchedStays ==
  ASSUME touched' = touched
  PROVE  ProbeTouched' = ProbeTouched
BY DEF ProbeTouched

\* A host is told of in the same way as long as nothing that concerns it changes.
LEMMA HostStays ==
  ASSUME NEW k, HostInv(k), override' = override, ended' = ended,
         (k \in todo') = (k \in todo), (k \in ProbeTouched') = (k \in ProbeTouched),
         \A c : c[1] = k => ((c \in seen') = (c \in seen)),
         (k \in ProbeRows("live")') = (k \in ProbeRows("live")),
         (k \in ProbeRows("silent")') = (k \in ProbeRows("silent")),
         \A u : u[1] = k => ((u \in ProbeRows("url")') = (u \in ProbeRows("url"))),
         \A u : u[1] = k => ((u \in ProbeRows("service")') = (u \in ProbeRows("service")))
  PROVE  HostInv(k)'
<1>1. Busy(k)' = Busy(k) /\ HasRow("url", k)' = HasRow("url", k) /\ HasRow("service", k)' = HasRow("service", k)
  BY Zenon DEF Busy, HasRow
<1>2. \A c \in seen' : c[1] = k => c \in seen
  OBVIOUS
<1>3. \A u \in ProbeRows("url")' : u[1] = k => u \in ProbeRows("url")
  OBVIOUS
<1> QED
  BY <1>1, <1>2, <1>3 DEF HostInv

\* A coroutine goes on: what it writes and whom it contacts is its own host's.
LEMMA CoroutineStep ==
  ASSUME ProbesInv, NEW h, NEW s, NEW does, Coroutine(h, s, does),
         NEW rest, \A c \in rest : c[1] = h, Left(h, rest), HostInv(h)',
         ProbeTouched' \in {ProbeTouched, ProbeTouched \union {h}},
         ProbeRows("live")' \in {ProbeRows("live"), ProbeRows("live") \union {h}},
         ProbeRows("silent")' \in {ProbeRows("silent"), ProbeRows("silent") \union {h}},
         ProbeRows("url")' \in {ProbeRows("url"), ProbeRows("url") \union {<<h, s>>}},
         ProbeRows("service")' \in {ProbeRows("service"), ProbeRows("service") \union {<<h, s>>}}
  PROVE  ProbesInv'
<1>1. /\ mod = "probe_http" /\ mod' = mod /\ seen # {}
      /\ UNCHANGED <<override, ended, todo>>
      /\ seen' = {c \in seen : c[1] # h} \union rest
      /\ at' = IF at = "batch" /\ seen' = {} THEN "work" ELSE at
  BY DEF Coroutine, Left
<1>2. at # "work" /\ ended # "returned"
  BY <1>1 DEF ProbesInv
<1>3. ASSUME NEW k, k # h PROVE HostInv(k)'
  <2>1. <<h, s>>[1] = h
    OBVIOUS
  <2>2. \A c : c[1] = k => ((c \in seen') = (c \in seen))
    BY <1>1, <1>3
  <2>3. /\ \A u : u[1] = k => ((u \in ProbeRows("url")') = (u \in ProbeRows("url")))
        /\ \A u : u[1] = k => ((u \in ProbeRows("service")') = (u \in ProbeRows("service")))
    BY <1>3, <2>1
  <2>4. /\ (k \in ProbeTouched') = (k \in ProbeTouched)
        /\ (k \in ProbeRows("live")') = (k \in ProbeRows("live"))
        /\ (k \in ProbeRows("silent")') = (k \in ProbeRows("silent"))
    BY <1>3
  <2>5. HostInv(k)
    BY <1>1 DEF ProbesInv
  <2> QED
    BY <1>1, <2>2, <2>3, <2>4, <2>5, HostStays
<1>4. at' = "work" => seen' = {}
  BY <1>1, <1>2
<1> QED
  BY <1>1, <1>2, <1>3, <1>4 DEF ProbesInv

\* What is known of the host that a coroutine is at.
LEMMA CoroutineIs ==
  ASSUME ProbesInv, NEW h, NEW s, NEW does, Coroutine(h, s, does), NEW rest, Left(h, rest),
         \A c \in rest : c[1] = h
  PROVE  /\ HostInv(h) /\ mod = "probe_http" /\ mod' = mod
         /\ UNCHANGED <<override, ended, todo>>
         /\ h \notin todo /\ h \notin ProbeRows("live") /\ h \notin ProbeRows("silent")
         /\ HasRow("url", h) <=> does \notin {"ask", "silent", "url"}
         /\ does \in {"redirect", "tech", "liveness"} => HasRow("service", h)
         /\ does # "ask" => h \in ProbeTouched
         /\ \A c \in seen' : c[1] = h => c \in rest
         /\ Busy(h)' <=> rest # {}
<1>1. HostInv(h)
  BY DEF ProbesInv, Coroutine
<1>2. <<h, s, does>> \in seen /\ mod = "probe_http"
  BY DEF Coroutine
<1>3. <<h, s, does>>[1] = h /\ <<h, s, does>>[3] = does
  OBVIOUS
<1>4. /\ h \notin todo /\ h \notin ProbeRows("live") /\ h \notin ProbeRows("silent")
      /\ does \in {"redirect", "tech", "liveness"} => HasRow("service", h)
      /\ does # "ask" => h \in ProbeTouched
  BY <1>1, <1>2, <1>3 DEF HostInv, Busy
<1>5. HasRow("url", h) <=> does \notin {"ask", "silent", "url"}
  BY <1>1, <1>2, <1>3 DEF HostInv
<1>7. /\ UNCHANGED <<mod, override, ended, todo>>
      /\ \A c \in seen' : c[1] = h => c \in rest
      /\ rest \subseteq seen'
  BY DEF Left
<1>8. Busy(h)' <=> rest # {}
  BY <1>7 DEF Busy
<1> QED
  BY <1>1, <1>2, <1>4, <1>5, <1>7, <1>8

\* probe_http: each step of its start and batches.
LEMMA ProbesBatch ==
  ASSUME AuditInv, ProbesInv, ProbeStart \/ \E hs \in SUBSET todo : ProbeBatch(hs)
                              \/ \E h : ProbeStops(h)
  PROVE  ProbesInv'
<1>1. ASSUME ProbeStart PROVE ProbesInv'
  <2>1. mod' = "probe_http" /\ noted' = {} /\ touched' = {} /\ seen' = {}
    BY <1>1 DEF ProbeStart, Starts, NoNotes, NoTouches, AuditInv
  <2>2. (\A w : ProbeRows(w)' = {}) /\ ProbeTouched' = {}
    BY <2>1 DEF ProbeRows, ProbeTouched
  <2>3. \A k : HostInv(k)'
    BY <2>1, <2>2 DEF HostInv, HasRow, Busy
  <2> QED
    BY <2>1, <2>3 DEF ProbesInv
<1>2. ASSUME NEW hs \in SUBSET todo, ProbeBatch(hs) PROVE ProbesInv'
  <2>1. /\ mod = "probe_http" /\ mod' = mod /\ UNCHANGED <<override, ended, touched, noted>>
        /\ seen = {} /\ ended = "no" /\ at' = "batch"
        /\ todo' = todo \ hs /\ seen' = hs \X {"https"} \X {"ask"}
    BY <1>2 DEF ProbeBatch, In, Goes
  <2>2. (\A w : ProbeRows(w)' = ProbeRows(w)) /\ ProbeTouched' = ProbeTouched
    BY <2>1, RowsStay, TouchedStays
  <2>3. \A c \in seen' : c = <<c[1], "https", "ask">> /\ c[1] \in hs /\ c[3] = "ask"
    BY <2>1
  <2>4. ASSUME NEW k PROVE HostInv(k)'
    <3>1. HostInv(k) /\ ~Busy(k)
      BY <2>1 DEF ProbesInv, Busy
    <3>2. HasRow("url", k)' = HasRow("url", k) /\ HasRow("service", k)' = HasRow("service", k)
      BY <2>2 DEF HasRow
    <3>3. k \notin hs => ~Busy(k)'
      BY <2>3 DEF Busy
    <3>4. k \in hs => k \in todo /\ k \notin todo'
      BY <2>1
    <3>5. \A c, d \in seen' : c[1] = k /\ d[1] = k => c = d
      BY <2>3
    <3> QED
      BY <2>1, <2>2, <2>3, <3>1, <3>2, <3>3, <3>4, <3>5 DEF HostInv
  <2> QED
    BY <2>1, <2>4 DEF ProbesInv
<1>3. ASSUME NEW h, ProbeStops(h) PROVE ProbesInv'
  <2>1. /\ mod = "probe_http" /\ mod' = mod /\ UNCHANGED <<at, override, touched, noted, todo>>
        /\ ended' = "stopped" /\ seen' = seen \ {<<h, "https", "ask">>}
        /\ <<h, "https", "ask">> \in seen
    BY <1>3 DEF ProbeStops, In, Ends
  <2>2. (\A w : ProbeRows(w)' = ProbeRows(w)) /\ ProbeTouched' = ProbeTouched
    BY <2>1, RowsStay, TouchedStays
  <2>3. ASSUME NEW k PROVE HostInv(k)'
    <3>1. HostInv(k)
      BY <2>1 DEF ProbesInv
    <3>2. HasRow("url", k)' = HasRow("url", k) /\ HasRow("service", k)' = HasRow("service", k)
      BY <2>2 DEF HasRow
    <3>3. Busy(k)' => Busy(k)
      BY <2>1 DEF Busy
    <3>4. HasRow("url", k) => k \in ProbeRows("live") \/ Busy(k)'
      <4>1. ASSUME HasRow("url", k), k \notin ProbeRows("live") PROVE Busy(k)'
        <5>1. PICK c \in seen : c[1] = k
          BY <3>1, <4>1 DEF HostInv, Busy
        <5>2. c[3] # "ask"
          BY <3>1, <4>1, <5>1 DEF HostInv
        <5>3. <<h, "https", "ask">>[3] = "ask"
          OBVIOUS
        <5> QED
          BY <2>1, <5>1, <5>2, <5>3 DEF Busy
      <4> QED
        BY <4>1
    <3> QED
      BY <2>1, <2>2, <3>1, <3>2, <3>3, <3>4 DEF HostInv
  <2> QED
    BY <2>1, <2>3 DEF ProbesInv
<1> QED
  BY <1>1, <1>2, <1>3

\* probe_http: each step of its coroutines.
LEMMA ProbesProbe == ASSUME AuditInv, ProbesInv, ProbeStep PROVE ProbesInv'
<1>1. ASSUME NEW h, NEW s, ProbeAnswers(h, s) PROVE ProbesInv'
  <2> DEFINE rest == {<<h, s, "url">>}
  <2>1. /\ Coroutine(h, s, "ask") /\ Left(h, rest) /\ Touches({h}) /\ noted' = noted
        /\ mod' = "probe_http"
    BY <1>1 DEF ProbeAnswers, NoNotes, Coroutine, Left
  <2>2. (\A c \in rest : c[1] = h /\ c[3] = "url") /\ rest # {} /\ \A c, d \in rest : c = d
    OBVIOUS
  <2> HIDE DEF rest
  <2>3. (\A w : ProbeRows(w)' = ProbeRows(w)) /\ ProbeTouched' = ProbeTouched \union {h}
    BY <2>1, RowsStay, TouchedGrows
  <2>4. HasRow("url", h)' = HasRow("url", h)
    BY <2>3 DEF HasRow
  <2>5. HostInv(h)'
    BY <2>1, <2>2, <2>3, <2>4, CoroutineIs DEF HostInv
  <2> QED
    BY <2>1, <2>2, <2>3, <2>5, CoroutineStep
<1>2. ASSUME NEW h, NEW s, NEW b \in BOOLEAN, ProbeFails(h, s, b) PROVE ProbesInv'
  <2> DEFINE rest == {IF s = "https" THEN <<h, "http", "ask">> ELSE <<h, s, "silent">>}
             new  == IF b THEN {<<"timeout", <<h, s>> >>} ELSE {}
  <2>1. /\ Coroutine(h, s, "ask") /\ Left(h, rest) /\ Touches({h}) /\ Notes(new)
        /\ mod' = "probe_http"
    BY <1>2 DEF ProbeFails, NoNotes, Notes, Coroutine, Left
  <2>2. (\A c \in rest : c[1] = h /\ c[3] \in {"ask", "silent"}) /\ rest # {} /\ \A c, d \in rest : c = d
    OBVIOUS
  <2>3. \A x \in new : x = <<x[1], x[2]>>
    OBVIOUS
  <2>4. \A r : \A w \in {"live", "silent", "url", "service"} : <<w, r>> \notin new
    OBVIOUS
  <2> HIDE DEF rest, new
  <2>5. ASSUME NEW w \in {"live", "silent", "url", "service"} PROVE ProbeRows(w)' = ProbeRows(w)
    <3>1. \A r : r \in ProbeRows(w)' <=> r \in ProbeRows(w)
      BY <2>1, <2>3, <2>4, RowsGrow
    <3> QED
      BY <3>1
  <2>6. ProbeTouched' = ProbeTouched \union {h}
    BY <2>1, TouchedGrows
  <2>7. HasRow("url", h)' = HasRow("url", h)
    BY <2>5 DEF HasRow
  <2>8. HostInv(h)'
    BY <2>1, <2>2, <2>5, <2>6, <2>7, CoroutineIs DEF HostInv
  <2> QED
    BY <2>1, <2>2, <2>5, <2>6, <2>8, CoroutineStep
<1>3. ASSUME NEW h, NEW s, ProbeRefused(h, s) PROVE ProbesInv'
  <2>1. /\ Coroutine(h, s, "ask") /\ Left(h, {}) /\ Touches({h}) /\ noted' = noted
        /\ mod' = "probe_http" /\ ~override
    BY <1>3 DEF ProbeRefused, NoNotes, Coroutine, Left
  <2>2. (\A w : ProbeRows(w)' = ProbeRows(w)) /\ ProbeTouched' = ProbeTouched \union {h}
    BY <2>1, RowsStay, TouchedGrows
  <2>3. HasRow("url", h)' = HasRow("url", h)
    BY <2>2 DEF HasRow
  <2>4. HostInv(h)'
    BY <2>1, <2>2, <2>3, CoroutineIs DEF HostInv
  <2> QED
    BY <2>1, <2>2, <2>4, CoroutineStep
<1>4. ASSUME NEW h, NEW s, ProbeLive(h, s) PROVE ProbesInv'
  <2> DEFINE new == {<<"live", h>>}
  <2>1. /\ Coroutine(h, s, "liveness") /\ Left(h, {}) /\ touched' = touched /\ Notes(new)
        /\ mod' = "probe_http"
    BY <1>4 DEF ProbeLive, NoTouches, Coroutine, Left
  <2>2. (\A x \in new : x = <<x[1], x[2]>>) /\ \A w, r : <<w, r>> \in new <=> w = "live" /\ r = h
    OBVIOUS
  <2> HIDE DEF new
  <2>3. /\ ProbeRows("live")' = ProbeRows("live") \union {h}
        /\ ProbeRows("silent")' = ProbeRows("silent")
        /\ ProbeRows("url")' = ProbeRows("url") /\ ProbeRows("service")' = ProbeRows("service")
    <3>1. \A r : r \in ProbeRows("live")' <=> r \in ProbeRows("live") \/ r = h
      <4>1. \A r : r \in ProbeRows("live")' <=> r \in ProbeRows("live") \/ <<"live", r>> \in new
        BY <2>1, <2>2, RowsGrow
      <4>2. \A r : <<"live", r>> \in new <=> r = h
        BY <2>2
      <4> QED
        BY <4>1, <4>2
    <3>2. \A r : r \in ProbeRows("silent")' <=> r \in ProbeRows("silent")
      BY <2>1, <2>2, RowsGrow
    <3>3. \A r : r \in ProbeRows("url")' <=> r \in ProbeRows("url")
      BY <2>1, <2>2, RowsGrow
    <3>4. \A r : r \in ProbeRows("service")' <=> r \in ProbeRows("service")
      BY <2>1, <2>2, RowsGrow
    <3> QED
      BY <3>1, <3>2, <3>3, <3>4
  <2>4. ProbeTouched' = ProbeTouched
    BY <2>1, TouchedStays
  <2>5. HasRow("url", h)' = HasRow("url", h) /\ HasRow("service", h)' = HasRow("service", h)
    BY <2>3 DEF HasRow
  <2>6. HostInv(h)'
    BY <2>1, <2>3, <2>4, <2>5, CoroutineIs DEF HostInv
  <2> QED
    BY <2>1, <2>3, <2>4, <2>6, CoroutineStep
<1>5. ASSUME NEW h, ProbeSilent(h) PROVE ProbesInv'
  <2> DEFINE new == {<<"silent", h>>}
  <2>1. /\ Coroutine(h, "http", "silent") /\ Left(h, {}) /\ touched' = touched /\ Notes(new)
        /\ mod' = "probe_http"
    BY <1>5 DEF ProbeSilent, NoTouches, Coroutine, Left
  <2>2. (\A x \in new : x = <<x[1], x[2]>>) /\ \A w, r : <<w, r>> \in new <=> w = "silent" /\ r = h
    OBVIOUS
  <2> HIDE DEF new
  <2>3. /\ ProbeRows("silent")' = ProbeRows("silent") \union {h}
        /\ ProbeRows("live")' = ProbeRows("live")
        /\ ProbeRows("url")' = ProbeRows("url") /\ ProbeRows("service")' = ProbeRows("service")
    <3>1. \A r : r \in ProbeRows("live")' <=> r \in ProbeRows("live")
      BY <2>1, <2>2, RowsGrow
    <3>2. \A r : r \in ProbeRows("silent")' <=> r \in ProbeRows("silent") \/ r = h
      <4>1. \A r : r \in ProbeRows("silent")' <=> r \in ProbeRows("silent") \/ <<"silent", r>> \in new
        BY <2>1, <2>2, RowsGrow
      <4>2. \A r : <<"silent", r>> \in new <=> r = h
        BY <2>2
      <4> QED
        BY <4>1, <4>2
    <3>3. \A r : r \in ProbeRows("url")' <=> r \in ProbeRows("url")
      BY <2>1, <2>2, RowsGrow
    <3>4. \A r : r \in ProbeRows("service")' <=> r \in ProbeRows("service")
      BY <2>1, <2>2, RowsGrow
    <3> QED
      BY <3>1, <3>2, <3>3, <3>4
  <2>4. ProbeTouched' = ProbeTouched
    BY <2>1, TouchedStays
  <2>5. HasRow("url", h)' = HasRow("url", h)
    BY <2>3 DEF HasRow
  <2>6. HostInv(h)'
    BY <2>1, <2>3, <2>4, <2>5, CoroutineIs DEF HostInv
  <2> QED
    BY <2>1, <2>3, <2>4, <2>6, CoroutineStep
<1>6. ASSUME NEW h, NEW s, NEW row \in DOMAIN NextRow, NEW next \in NextRow[row],
             ProbeRow(h, s, row, next)
      PROVE  ProbesInv'
  <2> DEFINE rest == {<<h, s, next>>}
             new  == {<<row, <<h, s>> >>}
  <2>1. /\ Coroutine(h, s, row) /\ Left(h, rest) /\ touched' = touched /\ Notes(new)
        /\ mod' = "probe_http"
    BY <1>6 DEF ProbeRow, NoTouches, Coroutine, Left
  <2>2. (\A x \in new : x = <<x[1], x[2]>>) /\ \A w, r : <<w, r>> \in new <=> w = row /\ r = <<h, s>>
    OBVIOUS
  <2>3. (\A c \in rest : c[1] = h /\ c[3] = next) /\ rest # {} /\ \A c, d \in rest : c = d
    OBVIOUS
  <2> HIDE DEF rest, new
  <2>4. /\ row \in {"url", "service", "redirect", "tech"}
        /\ next \in {"service", "redirect", "tech", "liveness"}
        /\ next = "service" <=> row = "url"
    BY DEF NextRow
  <2>5. /\ \A r : r \in ProbeRows("live")' <=> r \in ProbeRows("live")
        /\ \A r : r \in ProbeRows("silent")' <=> r \in ProbeRows("silent")
        /\ \A r : r \in ProbeRows("url")' <=> r \in ProbeRows("url") \/ (row = "url" /\ r = <<h, s>>)
        /\ \A r : r \in ProbeRows("service")' <=> r \in ProbeRows("service") \/ (row = "service" /\ r = <<h, s>>)
    BY <2>1, <2>2, <2>4, RowsGrow
  <2>6. /\ ProbeRows("live")' = ProbeRows("live") /\ ProbeRows("silent")' = ProbeRows("silent")
        /\ ProbeRows("url")' = IF row = "url" THEN ProbeRows("url") \union {<<h, s>>} ELSE ProbeRows("url")
        /\ ProbeRows("service")' = IF row = "service" THEN ProbeRows("service") \union {<<h, s>>}
                                   ELSE ProbeRows("service")
    BY <2>4, <2>5
  <2>7. ProbeTouched' = ProbeTouched
    BY <2>1, TouchedStays
  <2>8. /\ HostInv(h) /\ UNCHANGED <<override, ended, todo>>
        /\ h \notin todo /\ h \notin ProbeRows("live") /\ h \notin ProbeRows("silent")
        /\ HasRow("url", h) <=> row # "url"
        /\ row \in {"redirect", "tech"} => HasRow("service", h)
        /\ h \in ProbeTouched /\ Busy(h)' /\ \A c \in seen' : c[1] = h => c \in rest
    BY <2>1, <2>3, <2>4, CoroutineIs
  <2>9. HasRow("url", h)'
    <3>1. <<h, s>>[1] = h
      OBVIOUS
    <3> QED
      BY <2>6, <2>8, <3>1 DEF HasRow
  <2>10. row # "url" => HasRow("service", h)'
    <3>1. <<h, s>>[1] = h
      OBVIOUS
    <3> QED
      BY <2>4, <2>6, <2>8, <3>1 DEF HasRow
  <2>11. \A u, v \in ProbeRows("url")' : u[1] = h /\ v[1] = h => u = v
    <3>1. CASE row = "url"
      <4>1. \A u \in ProbeRows("url") : u[1] # h
        BY <2>8, <3>1 DEF HasRow
      <4> QED
        BY <2>6, <3>1, <4>1
    <3>2. CASE row # "url"
      BY <2>6, <2>8, <3>2 DEF HostInv
    <3> QED
      BY <3>1, <3>2
  <2>12. HostInv(h)'
    BY <2>3, <2>4, <2>6, <2>7, <2>8, <2>9, <2>10, <2>11 DEF HostInv
  <2> QED
    BY <2>1, <2>3, <2>6, <2>7, <2>12, CoroutineStep
<1> QED
  BY <1>1, <1>2, <1>3, <1>4, <1>5, <1>6, ProbesBatch DEF ProbeStep

\* http_analyzer: a handshake is recorded of a host that is audited next.
LEMMA ProbesAnalyzer == ASSUME AuditInv, ProbesInv, AnalyzerStep PROVE ProbesInv'
<1>1. ASSUME AnalyzerStart PROVE ProbesInv'
  <2>1. mod' = "http_analyzer" /\ noted' = {}
    BY <1>1 DEF AnalyzerStart, Starts, NoNotes, AuditInv
  <2> QED
    BY <2>1 DEF ProbesInv
<1>2. ASSUME NEW h, NEW s, AnalyzerError(h, s) PROVE ProbesInv'
  <2>1. /\ mod = "http_analyzer" /\ mod' = mod /\ audited' = audited /\ at = "work"
        /\ noted' = noted \union {<<mod, "error", <<h, s>> >>}
    BY <1>2 DEF AnalyzerError, AnalyzerTurn, In, Stays, Notes
  <2> QED
    BY <2>1 DEF ProbesInv
<1>3. ASSUME NEW h, NEW s, NEW b \in BOOLEAN, AnalyzerAnswers(h, s, b) PROVE ProbesInv'
  <2>1. /\ mod = "http_analyzer" /\ mod' = mod /\ audited' = audited /\ at = "work"
        /\ \A n \in noted' : n \in noted \/ n[2] \in {"headers", "methods", "no_options"}
    BY <1>3 DEF AnalyzerAnswers, AnalyzerTurn, In, Goes, Notes
  <2> QED
    BY <2>1 DEF ProbesInv
<1>4. ASSUME NEW b \in BOOLEAN, AnalyzerTls(b) PROVE ProbesInv'
  <2>1. /\ mod = "http_analyzer" /\ mod' = mod /\ audited' = audited /\ at = "tls" /\ noted' = noted
    BY <1>4 DEF AnalyzerTls, In, Goes
  <2> QED
    BY <2>1 DEF ProbesInv
<1>5. ASSUME NEW row \in {"cert", "no_cert"}, AnalyzerTlsRow(row) PROVE ProbesInv'
  <2>1. /\ mod = "http_analyzer" /\ mod' = mod /\ audited' = audited /\ seen' = seen
        /\ at = row /\ at' = "tls_audit"
        /\ \A n \in noted' : n \in noted \/ n[3] \in seen
    BY <1>5 DEF AnalyzerTlsRow, In, Goes, Notes
  <2> QED
    BY <2>1 DEF ProbesInv
<1>6. ASSUME AnalyzerTlsAudit PROVE ProbesInv'
  <2>1. /\ mod = "http_analyzer" /\ mod' = mod /\ noted' = noted
        /\ audited' = audited \union {<<mod, i>> : i \in {<<"tls", h>> : h \in seen}}
    BY <1>6 DEF AnalyzerTlsAudit, In, Goes, Audits
  <2>2. ASSUME NEW h \in seen PROVE <<"http_analyzer", <<"tls", h>> >> \in audited'
    <3>1. <<"tls", h>> \in {<<"tls", k>> : k \in seen}
      OBVIOUS
    <3> QED
      BY <2>1, <3>1
  <2> QED
    BY <2>1, <2>2 DEF ProbesInv
<1> QED
  BY <1>1, <1>2, <1>3, <1>4, <1>5, <1>6 DEF AnalyzerStep

\* A step into any other module leaves nothing to say.
LEMMA ProbesElsewhere == ASSUME mod' \notin {"probe_http", "http_analyzer"} PROVE ProbesInv'
BY DEF ProbesInv

\* A body that stops, is cut or returns records nothing; it returns between batches.
LEMMA ProbesRest == ASSUME ProbesInv, Resting PROVE ProbesInv'
<1>1. CASE mod' = "none"
  BY <1>1, ProbesElsewhere
<1>2. CASE /\ UNCHANGED <<facts, override, mod, at, todo, seen, touched, audited, noted>>
           /\ \/ ended' = ended
              \/ ended = "no" /\ ended' \in {"stopped", "cut"}
              \/ ended = "no" /\ ended' = "returned" /\ at = "work"
  <2>1. (\A w : ProbeRows(w)' = ProbeRows(w)) /\ ProbeTouched' = ProbeTouched
    BY <1>2, RowsStay, TouchedStays
  <2>2. \A w, k : HasRow(w, k)' = HasRow(w, k) /\ Busy(k)' = Busy(k)
    BY <1>2, <2>1 DEF HasRow, Busy
  <2>3. ASSUME NEW k, HostInv(k) PROVE HostInv(k)'
    BY <1>2, <2>1, <2>2, <2>3 DEF HostInv
  <2> QED
    BY <1>2, <2>3 DEF ProbesInv
<1> QED
  BY <1>1, <1>2 DEF Resting

-----------------------------------------------------------------------------
(* OSINT *)

SubsStep ==
  \/ \E on \in SUBSET Indexes : SubsStart(on)
  \/ SubsBudgetOver \/ SubsReturns
  \/ \E d \in Hosts, src \in Indexes : SubsFails(d, src)
  \/ \E d \in Hosts, ns \in SUBSET Archived :
       SubsEmit(d, ns) \/ \E src \in Indexes : SubsAnswers(d, src, ns)
GithubStep ==
  \/ GithubPassB
  \/ \E how \in {"given", "domains", "company"} : GithubStart(how)
  \/ \E found \in SUBSET Accounts : GithubSearch(found)
  \/ \E a \in Accounts :
       \/ \E ok \in BOOLEAN : GithubProfile(a, ok)
       \/ \E read \in SUBSET {"repositories", "members"} : GithubEnumerate(a, read)

\* The steps of the OSINT modules, by the module that takes them.
LEMMA OsintIs ==
  ASSUME OsintNext
  PROVE  SubsStep \/ GithubStep \/ mod' \notin {"passive_subdomains", "github_org"}
<1> DEFINE Other == mod' \notin {"passive_subdomains", "github_org"}
<1>1. ASSUME UrlsStart \/ WaybackStart PROVE Other
  BY <1>1 DEF UrlsStart, WaybackStart, Starts
<1>2. ASSUME NEW d, NEW src, NEW us, NEW kept, NEW b \in BOOLEAN,
             UrlsEmit(d) \/ UrlsFetch(d, src, b, us) \/ WaybackDomain(d, b, kept)
      PROVE  Other
  BY <1>2 DEF UrlsEmit, UrlsFetch, WaybackDomain, In, Stays, Goes
<1> HIDE DEF Other
<1>3. SubsStep \/ GithubStep \/ Other
  BY <1>1, <1>2 DEF OsintNext, SubsStep, GithubStep
<1> QED
  BY <1>3 DEF Other

\* What a module records and audits, it adds.
LEMMA OfGrows ==
  ASSUME NEW m, mod' = m, NEW new, Notes(new), \A x \in new : x = <<x[1], x[2]>>, NEW what
  PROVE  \A r : r \in Of(m, what)' <=> r \in Of(m, what) \/ <<what, r>> \in new
<1>1. noted' = noted \union {<<m, x[1], x[2]>> : x \in new}
  BY DEF Notes
<1>2. ASSUME NEW r PROVE r \in Of(m, what)' <=> r \in Of(m, what) \/ <<what, r>> \in new
  <2>1. r \in Of(m, what)' <=> \E k \in noted' : k[1] = m /\ k[2] = what /\ k[3] = r
    BY DEF Of
  <2>2. r \in Of(m, what) <=> \E k \in noted : k[1] = m /\ k[2] = what /\ k[3] = r
    BY DEF Of
  <2>3. ASSUME <<what, r>> \in new PROVE r \in Of(m, what)'
    <3>1. <<m, <<what, r>>[1], <<what, r>>[2]>> \in noted'
      BY <1>1, <2>3
    <3> QED
      BY <2>1, <3>1
  <2>4. ASSUME r \in Of(m, what)' PROVE r \in Of(m, what) \/ <<what, r>> \in new
    <3>1. PICK k \in noted' : k[1] = m /\ k[2] = what /\ k[3] = r
      BY <2>1, <2>4
    <3>2. CASE k \in noted
      BY <2>2, <3>1, <3>2
    <3>3. CASE \E x \in new : k = <<m, x[1], x[2]>>
      <4>1. PICK x \in new : k = <<m, x[1], x[2]>>
        BY <3>3
      <4>2. x[1] = what /\ x[2] = r /\ x = <<x[1], x[2]>>
        BY <3>1, <4>1
      <4> QED
        BY <4>2
    <3> QED
      BY <1>1, <3>2, <3>3
  <2>5. ASSUME r \in Of(m, what) PROVE r \in Of(m, what)'
    <3>1. noted \subseteq noted'
      BY <1>1
    <3> QED
      BY <2>1, <2>2, <2>5, <3>1
  <2> QED
    BY <2>3, <2>4, <2>5
<1> QED
  BY <1>2

\* What an index is asked, it adds.
LEMMA AskedGrows ==
  ASSUME NEW m, mod' = m, NEW is, Audits(is)
  PROVE  Asked(m)' = Asked(m) \union is
<1>1. audited' = audited \union {<<m, i>> : i \in is}
  BY DEF Audits
<1>2. ASSUME NEW r PROVE r \in Asked(m)' <=> r \in Asked(m) \union is
  <2>1. /\ r \in Asked(m)' <=> \E a \in audited' : a[1] = m /\ a[2] = r
        /\ r \in Asked(m) <=> \E a \in audited : a[1] = m /\ a[2] = r
    BY DEF Asked
  <2>2. \A i \in is : <<m, i>>[1] = m /\ <<m, i>>[2] = i /\ <<m, i>> \in audited'
    BY <1>1
  <2>3. ASSUME r \in Asked(m)' PROVE r \in Asked(m) \union is
    <3>1. PICK a \in audited' : a[1] = m /\ a[2] = r
      BY <2>1, <2>3
    <3>2. CASE a \in audited
      BY <2>1, <3>1, <3>2
    <3>3. CASE \E i \in is : a = <<m, i>>
      BY <3>1, <3>3
    <3> QED
      BY <1>1, <3>2, <3>3
  <2>4. ASSUME r \in Asked(m) PROVE r \in Asked(m)'
    <3>1. audited \subseteq audited'
      BY <1>1
    <3> QED
      BY <2>1, <2>4, <3>1
  <2> QED
    BY <2>1, <2>2, <2>3, <2>4
<1> QED
  BY <1>2

\* A step that records nothing, or audits nothing.
LEMMA OfStays == ASSUME noted' = noted PROVE \A m, what : Of(m, what)' = Of(m, what)
BY DEF Of

\* No audit row, no new question.
LEMMA AskedStays == ASSUME audited' = audited PROVE \A m : Asked(m)' = Asked(m)
BY DEF Asked

\* passive_subdomains: each step keeps its rows within what the indexes answered.
LEMMA SubsOsint == ASSUME AuditInv, OsintInv, SubsStep PROVE OsintInv'
<1> DEFINE subs == "passive_subdomains"
<1>1. ASSUME NEW on, SubsStart(on) PROVE OsintInv'
  <2>1. /\ mod' = subs /\ noted' = {} /\ audited' = {} /\ seen' = {} /\ ended' \in {"skipped", "no"}
    BY <1>1 DEF SubsStart, Starts, NoNotes, NoAudits, Ends, GoesOn, AuditInv
  <2>2. (\A m, what : Of(m, what)' = {}) /\ \A m : Asked(m)' = {}
    BY <2>1 DEF Of, Asked
  <2> QED
    BY <2>1, <2>2 DEF OsintInv
<1>2. ASSUME SubsBudgetOver PROVE OsintInv'
  <2>1. /\ mod = subs /\ mod' = mod /\ UNCHANGED <<seen, noted, audited, ended>> /\ todo' = {}
        /\ ended = "no"
    BY <1>2 DEF SubsBudgetOver, In, Stays
  <2>2. (\A m, what : Of(m, what)' = Of(m, what)) /\ \A m : Asked(m)' = Asked(m)
    BY <2>1, OfStays, AskedStays
  <2> QED
    BY <2>1, <2>2 DEF OsintInv, Answered
<1>3. ASSUME SubsReturns PROVE OsintInv'
  <2>1. /\ mod = subs /\ mod' = mod /\ UNCHANGED <<todo, seen, noted, audited>> /\ Untold = {}
        /\ ended' = IF Answered = {} THEN "failed" ELSE "returned"
    BY <1>3 DEF SubsReturns, In, Ends
  <2>2. (\A m, what : Of(m, what)' = Of(m, what)) /\ \A m : Asked(m)' = Asked(m)
    BY <2>1, OfStays, AskedStays
  <2> QED
    BY <2>1, <2>2 DEF OsintInv, Answered, Untold
<1>4. ASSUME NEW d, NEW src, SubsFails(d, src) PROVE OsintInv'
  <2> DEFINE new == {<<"error", <<d, src>> >>}
  <2>1. /\ mod = subs /\ mod' = mod /\ UNCHANGED <<seen, ended>> /\ ended = "no"
        /\ <<d, src>> \in todo /\ todo' = todo \ {<<d, src>>}
        /\ Audits({<<d, src>>}) /\ Notes(new)
    BY <1>4 DEF SubsFails, SubsTurn, In, Stays
  <2>2. /\ \A x \in new : x = <<x[1], x[2]>>
        /\ \A r : <<"name", r>> \notin new
        /\ \A r : <<"error", r>> \in new <=> r = <<d, src>>
    OBVIOUS
  <2> HIDE DEF new
  <2>3. /\ \A r : r \in Of(subs, "name")' <=> r \in Of(subs, "name")
        /\ \A r : r \in Of(subs, "error")' <=> r \in Of(subs, "error") \/ r = <<d, src>>
        /\ Asked(subs)' = Asked(subs) \union {<<d, src>>}
    BY <2>1, <2>2, OfGrows, AskedGrows
  <2>4. <<d, src>> \notin Asked(subs)
    BY <2>1 DEF OsintInv
  <2>5. \A t \in seen : <<t[1], t[3]>> \in Answered' /\ <<t[2], t[1]>> \in InDomain
    <3>1. \A t \in seen : /\ <<t[1], t[3]>> \in Asked(subs) \ Of(subs, "error")
                          /\ <<t[2], t[1]>> \in InDomain
      BY <2>1 DEF OsintInv, Answered
    <3>2. Answered' = Asked(subs)' \ Of(subs, "error")'
      BY DEF Answered
    <3> QED
      BY <2>3, <2>4, <3>1, <3>2
  <2> QED
    BY <2>1, <2>3, <2>5 DEF OsintInv
<1>5. ASSUME NEW d, NEW src, NEW names, SubsAnswers(d, src, names) PROVE OsintInv'
  <2>1. /\ mod = subs /\ mod' = mod /\ ended' = ended /\ ended = "no"
        /\ <<d, src>> \in todo /\ todo' = todo \ {<<d, src>>}
        /\ Audits({<<d, src>>})
    BY <1>5 DEF SubsAnswers, SubsTurn, In, Stays
  <2>2. PICK kept : /\ kept \subseteq Inside(names, d)
                    /\ seen' = seen \union {<<d, n, src>> : n \in kept}
                    /\ noted' = noted \/ Notes({<<"capped", <<d, src>> >>})
    BY <1>5 DEF SubsAnswers, NoNotes
  <2>3. /\ \A r : r \in Of(subs, "name")' <=> r \in Of(subs, "name")
        /\ \A r : r \in Of(subs, "error")' <=> r \in Of(subs, "error")
    <3>1. CASE noted' = noted
      BY <3>1, OfStays
    <3>2. CASE Notes({<<"capped", <<d, src>> >>})
      <4> DEFINE new == {<<"capped", <<d, src>> >>}
      <4>1. /\ \A x \in new : x = <<x[1], x[2]>>
            /\ \A r : <<"name", r>> \notin new /\ <<"error", r>> \notin new
        OBVIOUS
      <4>2. Notes(new)
        BY <3>2
      <4> HIDE DEF new
      <4> QED
        BY <2>1, <4>1, <4>2, OfGrows
    <3> QED
      BY <2>2, <3>1, <3>2
  <2>4. Asked(subs)' = Asked(subs) \union {<<d, src>>}
    BY <2>1, AskedGrows
  <2>5. <<d, src>> \notin Asked(subs) /\ <<d, src>> \notin Of(subs, "error")
    BY <2>1 DEF OsintInv
  <2>6. ASSUME NEW t \in seen' PROVE <<t[1], t[3]>> \in Answered' /\ <<t[2], t[1]>> \in InDomain
    <3>1. Answered' = Asked(subs)' \ Of(subs, "error")'
      BY DEF Answered
    <3>2. CASE t \in seen
      <4>1. <<t[1], t[3]>> \in Asked(subs) \ Of(subs, "error") /\ <<t[2], t[1]>> \in InDomain
        BY <2>1, <3>2 DEF OsintInv, Answered
      <4> QED
        BY <2>3, <2>4, <3>1, <4>1
    <3>3. CASE \E n \in kept : t = <<d, n, src>>
      <4>1. PICK n \in kept : t = <<d, n, src>>
        BY <3>3
      <4>2. <<n, d>> \in InDomain
        BY <2>2 DEF Inside
      <4> QED
        BY <2>3, <2>4, <2>5, <3>1, <4>1, <4>2
    <3> QED
      BY <2>2, <3>2, <3>3
  <2> QED
    BY <2>1, <2>2, <2>3, <2>4, <2>6 DEF OsintInv
<1>6. ASSUME NEW d, NEW names, SubsEmit(d, names) PROVE OsintInv'
  <2> DEFINE told == {t \in Untold : t[1] = d}
             rows == UNION {RowsOf(n, told) : n \in names}
             new == {<<"name", t>> : t \in rows}
                      \union {<<"record", <<d, t[2]>> >> :
                                t \in {u \in told : u[2] \in names /\ u[3] \in Resolving}}
  <2>1. /\ mod = subs /\ mod' = mod /\ UNCHANGED <<todo, seen, audited>> /\ ended = "no"
        /\ ended' \in {"no", "stopped"} /\ Notes(new)
    BY <1>6 DEF SubsEmit, In, Stays, GoesOn, Ends
  <2>2. /\ \A x \in new : x = <<x[1], x[2]>>
        /\ \A r : <<"error", r>> \notin new
        /\ \A r : <<"name", r>> \in new => r \in rows
    OBVIOUS
  <2>3. rows \subseteq seen
    BY DEF RowsOf, Untold
  <2> HIDE DEF new, rows
  <2>4. /\ \A r : r \in Of(subs, "name")' => r \in Of(subs, "name") \/ r \in seen
        /\ \A r : r \in Of(subs, "error")' <=> r \in Of(subs, "error")
        /\ Asked(subs)' = Asked(subs)
    BY <2>1, <2>2, <2>3, OfGrows, AskedStays
  <2>5. Answered' = Answered
    BY <2>4 DEF Answered
  <2> QED
    BY <2>1, <2>4, <2>5 DEF OsintInv
<1> QED
  BY <1>1, <1>2, <1>3, <1>4, <1>5, <1>6 DEF SubsStep

\* github_org: each step keeps the accounts within those the company was matched to.
LEMMA GithubOsint == ASSUME AuditInv, OsintInv, GithubStep PROVE OsintInv'
<1> DEFINE tags == {"given", "domains", "company"}
           Fits(a, s) == \/ "given" \in s
                         \/ IF "domains" \in s THEN "domain" \in Profile[a]
                                               ELSE "name" \in Profile[a]
<1>1. Accounts \intersect tags = {}
  BY OsintAssumption DEF OsintAssumption
<1>2. ASSUME NEW s, seen' = s, mod = "github_org", mod' = mod, s \intersect tags = seen \intersect tags,
             \A a \in s \intersect Accounts : a \in seen \/ Fits(a, s),
             \A a : a \in Of("github_org", "account")' =>
               a \in Of("github_org", "account") \/ a \in s \intersect Accounts,
             seen \subseteq s
      PROVE  OsintInv'
  <2>1. /\ "given" \in s <=> "given" \in seen
        /\ "domains" \in s <=> "domains" \in seen
        /\ "company" \in s <=> "company" \in seen
    BY <1>2
  <2>2. "company" \in seen' => seen' \intersect {"given", "domains"} = {}
    BY <1>2, <2>1 DEF OsintInv
  <2>3. \A a \in seen' \intersect Accounts : Fits(a, seen')
    BY <1>2, <2>1 DEF OsintInv
  <2>4. Of("github_org", "account")' \subseteq seen' \intersect Accounts
    BY <1>2 DEF OsintInv
  <2> QED
    BY <1>2, <2>2, <2>3, <2>4 DEF OsintInv
<1>3. ASSUME NEW how \in tags, GithubStart(how) PROVE OsintInv'
  <2>1. mod' = "github_org" /\ seen' = {how} /\ noted' = {}
    BY <1>3 DEF GithubStart, Starts, NoNotes, AuditInv
  <2>2. Of("github_org", "account")' = {}
    BY <2>1 DEF Of
  <2> QED
    BY <1>1, <1>3, <2>1, <2>2 DEF OsintInv
<1>4. ASSUME NEW found, GithubSearch(found) PROVE OsintInv'
  <2>1. mod = "github_org" /\ mod' = mod /\ UNCHANGED <<seen, noted>>
    BY <1>4 DEF GithubSearch, In, Goes
  <2>2. Of("github_org", "account")' = Of("github_org", "account")
    BY <2>1, OfStays
  <2> QED
    BY <1>2, <2>1, <2>2
<1>5. ASSUME NEW a \in Accounts, NEW ok \in BOOLEAN, GithubProfile(a, ok) PROVE OsintInv'
  <2>1. /\ mod = "github_org" /\ mod' = mod
        /\ \/ seen' = seen
           \/ seen' = seen \union {a} /\ Corroborated(a)
        /\ noted' = noted \/ Notes({<<"error", a>>})
    BY <1>5 DEF GithubProfile, In, Goes, NoNotes
  <2>2. \A r : r \in Of("github_org", "account")' => r \in Of("github_org", "account")
    <3>1. CASE noted' = noted
      BY <3>1, OfStays
    <3>2. CASE Notes({<<"error", a>>})
      <4> DEFINE new == {<<"error", a>>}
      <4>1. (\A x \in new : x = <<x[1], x[2]>>) /\ \A r : <<"account", r>> \notin new
        OBVIOUS
      <4>2. Notes(new)
        BY <3>2
      <4> HIDE DEF new
      <4> QED
        BY <2>1, <4>1, <4>2, OfGrows
    <3> QED
      BY <2>1, <3>1, <3>2
  <2>3. CASE seen' = seen
    BY <1>2, <2>1, <2>2, <2>3
  <2>4. CASE seen' = seen \union {a} /\ Corroborated(a)
    <3>1. Fits(a, seen')
      BY <2>4 DEF Corroborated
    <3>2. seen' \intersect tags = seen \intersect tags
      BY <1>1, <2>4
    <3> HIDE DEF Fits, tags
    <3> QED
      BY <1>2, <2>1, <2>2, <2>4, <3>1, <3>2
  <2> QED
    BY <2>1, <2>3, <2>4
<1>6. ASSUME GithubPassB PROVE OsintInv'
  <2>1. mod = "github_org" /\ mod' = mod /\ noted' = noted
    BY <1>6 DEF GithubPassB, In, Goes, Stays
  <2>2. Of("github_org", "account")' = Of("github_org", "account")
    BY <2>1, OfStays
  <2>3. CASE seen' = seen
    BY <1>2, <2>1, <2>2, <2>3
  <2>4. ASSUME NEW a \in Accounts, FallsBackOn(a), seen' = seen \union {a} PROVE OsintInv'
    <3>1. seen' \intersect tags = seen \intersect tags
      BY <1>1, <2>4
    <3>2. "company" \in seen /\ "name" \in Profile[a]
      BY <2>4 DEF FallsBackOn
    <3>3. Fits(a, seen')
      BY <2>1, <3>1, <3>2 DEF OsintInv
    <3> HIDE DEF Fits, tags
    <3> QED
      BY <1>2, <2>1, <2>2, <2>4, <3>1, <3>3
  <2> QED
    BY <1>6, <2>3, <2>4 DEF GithubPassB
<1>7. ASSUME NEW a \in Accounts, NEW read, GithubEnumerate(a, read) PROVE OsintInv'
  <2> DEFINE lists == {"repositories"} \union (IF "org" \in Profile[a] THEN {"members"} ELSE {})
             new == {<<"account", a>>} \union {<<IF l \in read THEN l ELSE "error", a>> : l \in lists}
  <2>1. /\ mod = "github_org" /\ mod' = mod /\ seen' = seen /\ a \in seen /\ Notes(new)
    BY <1>7 DEF GithubEnumerate, In, Stays
  <2>2. /\ \A x \in new : x = <<x[1], x[2]>>
        /\ \A r : <<"account", r>> \in new => r = a
    OBVIOUS
  <2> HIDE DEF new
  <2>3. \A r : r \in Of("github_org", "account")' => r \in Of("github_org", "account") \/ r = a
    BY <2>1, <2>2, OfGrows
  <2> QED
    BY <1>2, <2>1, <2>3
<1> QED
  BY <1>3, <1>4, <1>5, <1>6, <1>7 DEF GithubStep

\* A step into any other module leaves nothing to say.
LEMMA OsintElsewhere == ASSUME mod' \notin {"passive_subdomains", "github_org"} PROVE OsintInv'
BY DEF OsintInv

\* A body that stops, is cut or returns records nothing.
LEMMA OsintRest == ASSUME OsintInv, Resting PROVE OsintInv'
<1>1. CASE mod' = "none"
  BY <1>1, OsintElsewhere
<1>2. CASE /\ UNCHANGED <<facts, override, mod, at, todo, seen, touched, audited, noted>>
           /\ \/ ended' = ended
              \/ ended = "no" /\ ended' \in {"stopped", "cut"}
              \/ ended = "no" /\ ended' = "returned" /\ mod \in Plain
  <2>1. (\A m, what : Of(m, what)' = Of(m, what)) /\ \A m : Asked(m)' = Asked(m)
    BY <1>2, OfStays, AskedStays
  <2>2. Answered' = Answered /\ Untold' = Untold
    BY <1>2, <2>1 DEF Answered, Untold
  <2>3. "passive_subdomains" \notin Plain
    BY DEF Plain
  <2> QED
    BY <1>2, <2>1, <2>2, <2>3 DEF OsintInv
<1> QED
  BY <1>1, <1>2 DEF Resting

-----------------------------------------------------------------------------

\* The active modules are none of those above.
LEMMA ActiveElsewhere == ASSUME ActiveNext PROVE NamesInv' /\ ProbesInv' /\ OsintInv'
BY ActiveSteps, NamesElsewhere, ProbesElsewhere, OsintElsewhere DEF Logged, ActiveMods

\* The three are inductive.
LEMMA PassiveAlways == WorkSpec => [](NamesInv /\ ProbesInv /\ OsintInv)
<1> DEFINE PInv == NamesInv /\ ProbesInv /\ OsintInv
<1>1. WorkInit => PInv
  BY DEF WorkInit, NamesInv, ProbesInv, OsintInv
<1>2. ASSUME PInv, UNCHANGED workVars PROVE PInv'
  <2>1. Resting
    BY <1>2 DEF workVars, Resting
  <2> QED
    BY <1>2, <2>1, NamesRest, ProbesRest, OsintRest
<1>3. ASSUME PInv, AuditInv, WorkNext PROVE PInv'
  <2>1. ASSUME DiscoveryNext PROVE PInv'
    <3>1. NamesInv'
      BY <1>3, <2>1, DiscoveryIs, DnsNames, RecurseNames, PermuteNames, NamesElsewhere
    <3>2. mod' \in DiscoveryMods
      BY <2>1, DiscoverySteps DEF Logged
    <3> QED
      BY <3>1, <3>2, ProbesElsewhere, OsintElsewhere DEF DiscoveryMods
  <2>2. ASSUME WebNext PROVE PInv'
    <3>1. ProbesInv'
      BY <1>3, <2>2, WebIs, ProbesProbe, ProbesAnalyzer, ProbesElsewhere
    <3>2. mod' \in WebMods
      BY <2>2, WebSteps DEF Logged
    <3> QED
      BY <3>1, <3>2, NamesElsewhere, OsintElsewhere DEF WebMods
  <2>3. ASSUME OsintNext PROVE PInv'
    <3>1. OsintInv'
      BY <1>3, <2>3, OsintIs, SubsOsint, GithubOsint, OsintElsewhere
    <3>2. mod' \in OsintMods
      BY <2>3, OsintSteps DEF Logged
    <3> QED
      BY <3>1, <3>2, NamesElsewhere, ProbesElsewhere DEF OsintMods
  <2>4. ASSUME Resting PROVE PInv'
    BY <1>3, <2>4, NamesRest, ProbesRest, OsintRest
  <2> HIDE DEF PInv
  <2>5. ASSUME ActiveNext PROVE PInv'
    BY <2>5, ActiveElsewhere DEF PInv
  <2> QED
    BY <1>3, <2>1, <2>2, <2>3, <2>4, <2>5, RunningRests DEF WorkNext
<1> QED
  BY <1>1, <1>2, <1>3, AuditAlways, PTL DEF WorkSpec

\* What the passive modules record is earned by what they asked, whatever the
\* answers, failures and time-outs and their order: no missing DNSSEC without
\* an answered query, no name of the recursion that is not led to, no host both
\* live and silent, no OSINT name that its source did not tell, no source lost.
THEOREM PassiveIsTold == WorkSpec => []PassiveTold
<1>1. AuditInv /\ NamesInv => DiscoveriesGrounded
  <2> SUFFICES ASSUME AuditInv, NamesInv PROVE DiscoveriesGrounded
    OBVIOUS
  <2>1. \A n \in noted : n[1] = mod
    BY DEF AuditInv
  <2>2. ASSUME NEW n \in noted, n[1] = "dns", n[2] = "no_dnssec"
        PROVE  /\ <<"dns", <<n[3], "DNSKEY">> >> \in audited
               /\ \E m \in noted : m[2] = "record" /\ m[3][1] = n[3]
    BY <2>1, <2>2 DEF NamesInv
  <2>3. <<"dns", "gave_up", "resolver">> \in noted /\ "elsewhere" \notin seen => audited = {}
    <3>1. ASSUME <<"dns", "gave_up", "resolver">> \in noted PROVE mod = "dns"
      <4>1. <<"dns", "gave_up", "resolver">>[1] = mod
        BY <2>1, <3>1
      <4> QED
        BY <4>1
    <3> QED
      BY <3>1 DEF NamesInv
  <2>4. \A p \in Pivots : /\ p \in Below /\ p[1] \notin Named
                          /\ \A q \in Pivots : q[1] = p[1] => q = p
                          /\ p[2] \in Named \/ \E q \in Pivots : q[1] = p[2]
    <3>1. CASE mod = "subdomain_recurse"
      BY <3>1 DEF NamesInv
    <3>2. CASE mod # "subdomain_recurse"
      BY <2>1, <3>2 DEF Pivots
    <3> QED
      BY <3>1, <3>2
  <2>5. \A n \in noted : n[1] = "subdomain_permute" /\ n[2] = "alias" =>
          /\ ~(n[3][2] \subseteq WildcardOf(ApexOf(n[3][1][2])))
          /\ n[3][1][1] \notin Named
    BY <2>1 DEF NamesInv
  <2> QED
    BY <2>2, <2>3, <2>4, <2>5 DEF DiscoveriesGrounded
<1>2. AuditInv /\ ProbesInv => ProbesTold
  <2> SUFFICES ASSUME AuditInv, ProbesInv PROVE ProbesTold
    OBVIOUS
  <2>1. \A n \in noted : n[1] = mod
    BY DEF AuditInv
  <2>2. \A c \in touched : c[1] = mod
    BY DEF AuditInv
  <2> DEFINE hosts(w) == {u[1] : u \in ProbeRows(w)}
             busy     == {c[1] : c \in seen}
  <2>3. \A k : \A w : (k \in hosts(w) <=> HasRow(w, k)) /\ (k \in busy <=> Busy(k))
    BY DEF HasRow, Busy
  <2> HIDE DEF hosts, busy
  <2>4. /\ ProbeRows("live") \subseteq hosts("url") \intersect hosts("service")
        /\ \A u, v \in ProbeRows("url") : u[1] = v[1] => u = v
        /\ ProbeRows("silent") \subseteq ProbeTouched \ hosts("url")
        /\ mod = "probe_http" =>
             /\ hosts("url") \subseteq ProbeRows("live") \union busy
             /\ ProbeRows("live") \intersect busy = {} /\ ProbeRows("silent") \intersect busy = {}
             /\ ended = "returned" /\ override => ProbeTouched = ProbeRows("live") \union ProbeRows("silent")
    <3>1. CASE mod = "probe_http"
      <4>1. \A k : HostInv(k)
        BY <3>1 DEF ProbesInv
      <4>2. ASSUME NEW k
            PROVE  /\ k \in ProbeRows("live") => HasRow("url", k) /\ HasRow("service", k) /\ k \in ProbeTouched
                   /\ k \in ProbeRows("silent") => ~HasRow("url", k) /\ k \in ProbeTouched
                   /\ HasRow("url", k) => k \in ProbeRows("live") \/ Busy(k)
                   /\ Busy(k) => k \notin ProbeRows("live") \union ProbeRows("silent")
                   /\ override /\ ended = "returned" /\ k \in ProbeTouched =>
                        k \in ProbeRows("live") \union ProbeRows("silent") \/ Busy(k)
        <5>1. HostInv(k)
          BY <4>1
        <5> QED
          BY <5>1 DEF HostInv, Busy
      <4>3. \A u, v \in ProbeRows("url") : u[1] = v[1] => u = v
        <5>1. ASSUME NEW u \in ProbeRows("url"), NEW v \in ProbeRows("url"), u[1] = v[1] PROVE u = v
          <6>1. HostInv(u[1])
            BY <4>1
          <6> QED
            BY <5>1, <6>1 DEF HostInv
        <5> QED
          BY <5>1
      <4>4. ended = "returned" => \A k : ~Busy(k)
        BY <3>1 DEF ProbesInv, Busy
      <4> QED
        BY <2>3, <4>2, <4>3, <4>4
    <3>2. CASE mod # "probe_http"
      <4>1. (\A w : ProbeRows(w) = {}) /\ ProbeTouched = {}
        BY <2>1, <2>2, <3>2 DEF ProbeRows, ProbeTouched
      <4> QED
        BY <3>2, <4>1
    <3> QED
      BY <3>1, <3>2
  <2>5. \A n \in noted : n[1] = "http_analyzer" /\ n[2] \in {"cert", "no_cert"} =>
          \/ <<"http_analyzer", <<"tls", n[3]>> >> \in audited
          \/ at = "tls_audit" /\ n[3] \in seen
    BY <2>1 DEF ProbesInv
  <2> QED
    BY <2>4, <2>5 DEF ProbesTold, ProbeRows, ProbeTouched, hosts, busy
<1>3. AuditInv /\ OsintInv => OsintTold
  <2> SUFFICES ASSUME AuditInv, OsintInv PROVE OsintTold
    OBVIOUS
  <2>1. \A n \in noted : n[1] = mod
    BY DEF AuditInv
  <2>2. ASSUME mod = "passive_subdomains"
        PROVE  /\ Of("passive_subdomains", "name") \subseteq seen
               /\ \A t \in seen : <<t[2], t[1]>> \in InDomain /\ <<t[1], t[3]>> \in Answered
               /\ ended = "returned" => Untold = {} /\ Answered # {}
               /\ ended = "failed" =>
                    seen = {} /\ Asked("passive_subdomains") = Of("passive_subdomains", "error")
    <3>1. ended = "failed" => Asked("passive_subdomains") = Of("passive_subdomains", "error")
      BY <2>2 DEF OsintInv, Answered
    <3> QED
      BY <2>2, <3>1 DEF OsintInv
  <2>3. \A a \in Of("github_org", "account") :
          \/ "given" \in seen
          \/ IF "domains" \in seen THEN "domain" \in Profile[a] ELSE "name" \in Profile[a]
    <3>1. CASE mod = "github_org"
      BY <3>1 DEF OsintInv
    <3>2. CASE mod # "github_org"
      BY <2>1, <3>2 DEF Of
    <3> QED
      BY <3>1, <3>2
  <2> QED
    BY <2>2, <2>3 DEF OsintTold
<1> QED
  BY <1>1, <1>2, <1>3, AuditAlways, PassiveAlways, PTL DEF PassiveTold
=============================================================================
