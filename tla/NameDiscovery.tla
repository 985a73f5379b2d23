--------------------------- MODULE NameDiscovery ---------------------------
(***************************************************************************)
(* The passive modules that work on names through DNS and third-party      *)
(* services: dns, ct_subdomains, subdomain_recurse, subdomain_permute,     *)
(* subdomain_takeover, internetdb and email_security                       *)
(* (recon/modules/passive/, _dns_common.py, osint/_passive_sources.py).    *)
(***************************************************************************)
EXTENDS ModuleWork

CONSTANTS
  Below,      \* pairs <<n, m>>: the name n lies strictly below m
  HostTypes,  \* record types asked of every name, _HOST_RECORD_TYPES
  ApexTypes,  \* and of an apex only, _APEX_ONLY_TYPES
  DnsGiveUp,  \* time-outs without an answer that end the dns module
  Sources,    \* services that subdomain_recurse asks
  Rounds,     \* recursion.max_rounds
  MaxSeeds,   \* _MAX_SEEDS_PER_ROUND
  MaxNew,     \* _MAX_NEW_TOTAL
  Variants,   \* of a name: what permutations makes of it
  MaxCandidates,
  CertNames,  \* names that certificates carry
  MtaStsOf    \* mta-sts.<domain>, of each domain of the rules of engagement

ASSUME DiscoveryAssumption ==
  /\ Below \subseteq Hosts \X Hosts /\ Variants \in [Hosts -> SUBSET Hosts]
  /\ {DnsGiveUp, Rounds, MaxSeeds, MaxNew, MaxCandidates} \subseteq Nat
  /\ "DNSKEY" \notin HostTypes \union ApexTypes
  /\ MtaStsOf \in [RoeHosts -> Hosts]

BelowAny(n, ms) == \E m \in ms : <<n, m>> \in Below

-----------------------------------------------------------------------------
(* dns: every name, type after type *)

QueriesOf(n) == {n} \X (HostTypes \union (IF n \in RoeHosts THEN ApexTypes ELSE {}))

\* The names that the loop has not come to yet.
Untouched(n) == QueriesOf(n) \subseteq todo

DnsStart ==
  /\ Starts("dns") /\ at' = "work"
  /\ todo' = UNION {QueriesOf(n) : n \in RoeHosts \union Named}
  /\ seen' = {} /\ spent' = 0
  /\ NoNotes /\ NoAudits /\ NoTouches /\ GoesOn

\* The circuit breaker: only time-outs so far, and enough of them.
GivesUp == spent >= DnsGiveUp /\ "answered" \notin seen

DnsBail ==
  /\ In("dns", "work") /\ todo # {} /\ GivesUp
  /\ \A q \in todo : Untouched(q[1])
  /\ Stays /\ Notes({<<"gave_up", "resolver">>}) /\ Ends("returned")
  /\ UNCHANGED <<todo, seen, spent, touched, audited, tool>>

\* The query whose turn it is: one name is finished before the next, and
\* DNSKEY is asked last, of a name that has a record.
DnsTurn(q) ==
  /\ q \in todo
  /\ \A p \in todo : p[1] # q[1] => Untouched(p[1])
  /\ Untouched(q[1]) => ~GivesUp
  /\ q[2] = "DNSKEY" => \A p \in todo : p[1] = q[1] => p = q

DnsAnswered(q) ==
  /\ seen' = seen \union {"answered"}
  /\ Audits({q}) /\ UNCHANGED spent

\* NXDOMAIN ends the name, DNSSEC included.
DnsNoSuchName(q) ==
  /\ In("dns", "work") /\ DnsTurn(q) /\ q[2] # "DNSKEY"
  /\ todo' = {p \in todo : p[1] # q[1]} /\ Stays
  /\ DnsAnswered(q)
  /\ UNCHANGED <<touched, noted, tool, ended>>

\* An answer, of records or of none.
DnsRecords(q, some) ==
  /\ In("dns", "work") /\ DnsTurn(q) /\ q[2] # "DNSKEY"
  /\ todo' = (todo \ {q}) \union (IF some THEN {<<q[1], "DNSKEY">>} ELSE {}) /\ Stays
  /\ DnsAnswered(q)
  /\ IF some THEN Notes({<<"record", q>>}) ELSE NoNotes
  /\ UNCHANGED <<touched, tool, ended>>

\* A query fails; a time-out is counted.
DnsFails(q, timeout) ==
  /\ In("dns", "work") /\ DnsTurn(q) /\ q[2] # "DNSKEY"
  /\ todo' = todo \ {q} /\ Stays
  /\ spent' = IF timeout /\ spent < DnsGiveUp THEN spent + 1 ELSE spent
  /\ Notes({<<"error", q>>}) /\ NoAudits
  /\ UNCHANGED <<seen, touched, tool, ended>>

DnsSec_Unanswered(q, answered, key) ==
  /\ In("dns", "work") /\ DnsTurn(q) /\ q[2] = "DNSKEY"
  /\ todo' = todo \ {q} /\ Stays
  /\ IF answered THEN Audits({q}) ELSE NoAudits
  /\ IF answered /\ key THEN NoNotes ELSE Notes({<<"no_dnssec", q[1]>>})
  /\ UNCHANGED <<seen, spent, touched, tool, ended>>

\* _check_dnssec: the absence of a key is a finding, a failed query is not.
DnsSec(q, answered, key) ==
  /\ In("dns", "work") /\ DnsTurn(q) /\ q[2] = "DNSKEY"
  /\ todo' = todo \ {q} /\ Stays
  /\ IF answered THEN Audits({q}) ELSE NoAudits
  /\ IF answered /\ ~key THEN Notes({<<"no_dnssec", q[1]>>}) ELSE NoNotes
  /\ UNCHANGED <<seen, spent, touched, tool, ended>>

\* The counters belong to the one module object of the process: another run
\* that starts dns resets them, and its answers and time-outs count here.
DnsElsewhere ==
  /\ In("dns", "work") /\ todo # {}
  /\ \/ spent' = 0 /\ seen' = {"elsewhere"}
     \/ spent < DnsGiveUp /\ spent' = spent + 1 /\ seen' = seen \union {"elsewhere"}
     \/ seen' = seen \union {"answered", "elsewhere"} /\ UNCHANGED spent
  /\ UNCHANGED <<facts, override, mod, at, todo, touched, audited, noted, tool, ended>>

-----------------------------------------------------------------------------
(* ct_subdomains: certificates of every apex, then the names in them *)

CtApexes == RoeHosts \union Named

CtStart ==
  /\ Starts("ct_subdomains") /\ at' = "work" /\ todo' = CtApexes /\ seen' = {}
  /\ NoNotes /\ NoAudits /\ NoTouches /\ GoesOn
  /\ UNCHANGED spent

\* One answer of crt.sh: what it names is remembered.  A request that fails,
\* a status that is not 200 or a body that is no list is an error.
CtFetch(d, names, ok) ==
  /\ In("ct_subdomains", "work") /\ d \in todo
  /\ todo' = todo \ {d} /\ Stays
  /\ seen' = IF ok THEN seen \union names ELSE seen
  /\ IF ok THEN NoNotes ELSE Notes({<<"error", d>>})
  /\ UNCHANGED <<spent, touched, audited, tool, ended>>

\* All that was found is recorded, name by name with check_alive in between:
\* a domain, a name below an apex, or one outside of all.  An apex that lies
\* below another is taken for either.
CtEmit(kept, domains) ==
  /\ In("ct_subdomains", "work") /\ todo = {} /\ seen # {} /\ kept \subseteq seen
  /\ {n \in kept \intersect CtApexes : ~BelowAny(n, CtApexes)} \subseteq domains
  /\ domains \subseteq kept \intersect CtApexes
  /\ seen' = {} /\ Stays
  /\ Notes({<<IF n \in domains THEN "domain"
              ELSE IF BelowAny(n, CtApexes) THEN "below" ELSE "outside", n>> : n \in kept})
  /\ \/ kept = seen /\ GoesOn
     \/ kept # seen /\ Ends("stopped")
  /\ UNCHANGED <<todo, spent, touched, audited, tool>>

CtReturns == seen = {} /\ BodyReturns("ct_subdomains")

-----------------------------------------------------------------------------
(* subdomain_recurse: rounds over what the round before has found *)

\* The names known when the module started, and those it has found.
Pivots == {n[3] : n \in {m \in noted : m[1] = "subdomain_recurse" /\ m[2] = "name"}}
Found  == {p[1] : p \in Pivots}
SeenNames == Named \union Found

\* The deepest MaxSeeds of a frontier are any of it.
SeedChoices(frontier) ==
  {s \in SUBSET frontier : Cardinality(s) = IF Cardinality(frontier) < MaxSeeds
                                            THEN Cardinality(frontier) ELSE MaxSeeds}

\* Only real subdomains: a name below an apex.
RecurseStart ==
  LET frontier == {n \in Named \ RoeHosts : BelowAny(n, RoeHosts)}
  IN  /\ Starts("subdomain_recurse") /\ at' = "work"
      /\ \E s \in SeedChoices(frontier) : todo' = s \X (IF Rounds = 0 THEN {} ELSE Sources)
      /\ seen' = {} /\ spent' = 1
      /\ NoNotes /\ NoAudits /\ NoTouches /\ GoesOn

\* fetch ran into the source's own time-out, or failed.
RecurseFails(s, src) ==
  /\ In("subdomain_recurse", "work") /\ <<s, src>> \in todo
  /\ todo' = todo \ {<<s, src>>} /\ Stays
  /\ Notes({<<"error", <<src, s>> >>})
  /\ UNCHANGED <<seen, spent, touched, audited, tool, ended>>

RecurseFetch_AnyName(s, src, names) ==
  LET new  == names \ SeenNames
      kept == new
  IN  /\ In("subdomain_recurse", "work") /\ <<s, src>> \in todo
      /\ todo' = todo \ {<<s, src>>} /\ Stays
      /\ seen' = seen \union kept
      /\ Notes({<<"name", <<n, s>> >> : n \in kept})
      /\ UNCHANGED <<spent, touched, audited, tool, ended>>

\* What is new and lies below the seed is recorded and a seed of the next
\* round.  The limit leaves the answer of this source only: each further
\* source still records its first new name.
RecurseFetch(s, src, names) ==
  LET new  == {n \in names \ SeenNames : <<n, s>> \in Below}
      room == IF Cardinality(Found) + 1 >= MaxNew THEN 1 ELSE MaxNew - Cardinality(Found)
  IN  /\ In("subdomain_recurse", "work") /\ <<s, src>> \in todo
      /\ todo' = todo \ {<<s, src>>} /\ Stays
      /\ \E kept \in SUBSET new :
           /\ Cardinality(kept) = IF Cardinality(new) < room THEN Cardinality(new) ELSE room
           /\ seen' = seen \union kept
           /\ Notes({<<"name", <<n, s>> >> : n \in kept})
      /\ UNCHANGED <<spent, touched, audited, tool, ended>>

RoundDue == seen # {} /\ spent < Rounds /\ Cardinality(Found) < MaxNew

RecurseRound ==
  /\ In("subdomain_recurse", "work") /\ todo = {} /\ RoundDue
  /\ \E s \in SeedChoices(seen) : todo' = s \X Sources
  /\ seen' = {} /\ spent' = spent + 1 /\ Stays
  /\ UNCHANGED <<touched, audited, noted, tool, ended>>

RecurseReturns == ~RoundDue /\ BodyReturns("subdomain_recurse")

-----------------------------------------------------------------------------
(* subdomain_permute: variants of the known names that resolve *)

\* The candidates are new names, each of one base below an apex, at most
\* max_candidates of them; the bases beyond _MAX_BASES are not looked at.
PermuteStart ==
  LET known == Named
      bases == {n \in known \ RoeHosts : BelowAny(n, RoeHosts)}
      all   == {p \in Hosts \X bases : p[1] \in Variants[p[2]] \ known}
      names == {c[1] : c \in all}
      n     == IF Cardinality(names) < MaxCandidates THEN Cardinality(names) ELSE MaxCandidates
  IN  /\ Starts("subdomain_permute")
      /\ at' = IF n = 0 THEN "work" ELSE "wildcard"
      /\ \E cs \in SUBSET all :
           /\ Cardinality(cs) = n /\ Cardinality({c[1] : c \in cs}) = n
           /\ todo' = cs
      /\ seen' = {}
      /\ NoNotes /\ NoAudits /\ NoTouches /\ GoesOn
      /\ UNCHANGED spent

\* The first apex that a base lies below, and what its wildcard answers.
ApexOf(base)  == CHOOSE a \in RoeHosts : <<base, a>> \in Below
WildcardOf(a) == {w \in Addresses : <<a, w>> \in seen}
ApexesLeft    == {ApexOf(c[2]) : c \in todo} \ {p[1] : p \in seen}

\* wildcard_answers, of each apex in turn: what names that cannot exist below
\* it resolve to.  A failing query counts as no answer.
PermuteWildcards(a, answers) ==
  /\ In("subdomain_permute", "wildcard") /\ a \in ApexesLeft
  /\ Goes(IF ApexesLeft = {a} THEN "work" ELSE "wildcard")
  /\ seen' = seen \union {<<a, w>> : w \in answers \union {"asked"}}
  /\ UNCHANGED <<todo, spent, touched, audited, noted, tool, ended>>

PermuteResolve_AnyWildcard(c, values) ==
  /\ In("subdomain_permute", "work") /\ c \in todo
  /\ todo' = todo \ {c} /\ Stays
  /\ IF values = {} THEN NoNotes ELSE Notes({<<"alias", <<c, values>> >>})
  /\ UNCHANGED <<seen, spent, touched, audited, tool, ended>>

\* A candidate of a batch: it is recorded, as an alias of its base, when it
\* resolves to something else than the wildcard of its apex.
PermuteResolve(c, values) ==
  /\ In("subdomain_permute", "work") /\ c \in todo
  /\ todo' = todo \ {c} /\ Stays
  /\ IF values \subseteq WildcardOf(ApexOf(c[2])) THEN NoNotes
     ELSE Notes({<<"alias", <<c, values>> >>})
  /\ UNCHANGED <<seen, spent, touched, audited, tool, ended>>

-----------------------------------------------------------------------------
(* subdomain_takeover, internetdb, email_security *)

TakeoverStart(providers) ==
  /\ Starts("subdomain_takeover") /\ at' = "work"
  /\ todo' = IF providers THEN ScopedTargets(Named) ELSE {}
  /\ IF providers THEN NoNotes ELSE Notes({<<"error", "fingerprints">>})
  /\ NoAudits /\ NoTouches /\ GoesOn
  /\ UNCHANGED <<seen, spent>>

\* The chain of a host ends at no known provider, or the check fails.
TakeoverNothing(h, fails) ==
  /\ In("subdomain_takeover", "work") /\ h \in todo
  /\ todo' = todo \ {h} /\ Stays
  /\ IF fails THEN Notes({<<"error", h>>}) ELSE NoNotes
  /\ UNCHANGED <<seen, spent, touched, audited, tool, ended>>

\* It ends at one.  The target does not resolve: a candidate.  It does, and
\* the provider has texts for a free name: the host itself is asked.
TakeoverProvider(h, resolves, texts, hit) ==
  /\ In("subdomain_takeover", "work") /\ h \in todo
  /\ todo' = todo \ {h} /\ Stays
  /\ IF resolves /\ texts THEN Touches({h}) ELSE NoTouches
  /\ IF ~resolves \/ (texts /\ hit)
       THEN Notes({<<"takeover", <<h, IF resolves THEN "text" ELSE "dangling">> >>})
       ELSE NoNotes
  /\ UNCHANGED <<seen, spent, audited, tool, ended>>

\* No excluded address is looked up, though the service is a third party.
InternetStart ==
  /\ Starts("internetdb") /\ at' = "work"
  /\ todo' = {a \in KnownIps : Classify(a, {}) # "excluded"}
  /\ NoNotes /\ NoAudits /\ NoTouches /\ GoesOn
  /\ UNCHANGED <<seen, spent>>

\* Nothing known (404), an error, or ports, names and CVEs.
InternetLookup(ip, ok, rows) ==
  /\ In("internetdb", "work") /\ ip \in todo
  /\ todo' = todo \ {ip} /\ Stays
  /\ IF ok THEN Notes({<<r, ip>> : r \in rows}) ELSE Notes({<<"error", ip>>})
  /\ UNCHANGED <<seen, spent, touched, audited, tool, ended>>

EmailChecks == <<"spf", "dmarc", "dkim", "mta_sts", "tls_rpt">>

EmailStart ==
  /\ Starts("email_security") /\ at' = "work" /\ todo' = RoeHosts \X DOMAIN EmailChecks
  /\ NoNotes /\ NoAudits /\ NoTouches /\ GoesOn
  /\ UNCHANGED <<seen, spent>>

\* _txt_strings returns nothing both for no record and for a failed query:
\* either is an absence, except for DKIM, whose selectors are guessed.  The
\* MTA-STS policy is fetched from mta-sts.<domain>, through the client's gate.
EmailCheck(d, i, record, weak) ==
  LET what == EmailChecks[i] IN
  /\ In("email_security", "work") /\ <<d, i>> \in todo
  /\ \A c \in todo : IF c[1] = d THEN i <= c[2] ELSE <<c[1], 1>> \in todo
  /\ todo' = todo \ {<<d, i>>} /\ Stays
  /\ IF record /\ what = "mta_sts" /\ MayRequest(MtaStsOf[d])
       THEN Touches({MtaStsOf[d]}) ELSE NoTouches
  /\ IF record
       THEN Notes({<<what, d>>}
                    \union (IF weak /\ what \in {"spf", "dmarc"} THEN {<<"weak", <<what, d>> >>} ELSE {}))
       ELSE IF what = "dkim" THEN NoNotes ELSE Notes({<<"absent", <<what, d>> >>})
  /\ UNCHANGED <<seen, spent, audited, tool, ended>>

DiscoveryNext ==
  \/ DnsStart \/ DnsBail \/ DnsElsewhere \/ CtStart \/ CtReturns
  \/ RecurseStart \/ RecurseRound \/ RecurseReturns \/ PermuteStart
  \/ InternetStart \/ EmailStart
  \/ \E b \in BOOLEAN : TakeoverStart(b)
  \/ mod = "dns" /\ \E n \in Hosts, t \in HostTypes \union ApexTypes \union {"DNSKEY"} :
       \/ DnsNoSuchName(<<n, t>>)
       \/ \E b \in BOOLEAN : DnsRecords(<<n, t>>, b) \/ DnsFails(<<n, t>>, b)
       \/ \E b, c \in BOOLEAN : DnsSec(<<n, t>>, b, c)
  \/ mod = "ct_subdomains" /\ \E d \in Hosts, ns \in SUBSET CertNames, ok \in BOOLEAN : CtFetch(d, ns, ok)
  \/ mod = "ct_subdomains" /\ \E kept, domains \in SUBSET seen : CtEmit(kept, domains)
  \/ mod = "subdomain_recurse" /\ \E s \in Hosts, src \in Sources :
       \/ RecurseFails(s, src)
       \/ \E ns \in SUBSET CertNames : RecurseFetch(s, src, ns)
  \/ \E a \in RoeHosts, w \in SUBSET Addresses : PermuteWildcards(a, w)
  \/ mod = "subdomain_permute" /\ \E c \in Hosts \X Hosts, vs \in SUBSET Addresses : PermuteResolve(c, vs)
  \/ mod = "subdomain_takeover" /\ \E h \in Hosts, b, c, d \in BOOLEAN :
       TakeoverNothing(h, b) \/ TakeoverProvider(h, b, c, d)
  \/ mod = "internetdb" /\ \E ip \in Addresses, ok \in BOOLEAN, rows \in SUBSET {"service", "host", "cve"} :
       InternetLookup(ip, ok, rows)
  \/ mod = "email_security" /\ \E d \in RoeHosts, i \in DOMAIN EmailChecks, b, w \in BOOLEAN :
       EmailCheck(d, i, b, w)

-----------------------------------------------------------------------------
(* Properties *)

\* What these modules record is earned, over any order of answers and
\* failures: dns reports a missing DNSSEC only for a name with a record and
\* after an answered DNSKEY query, and gives the resolver up only when none
\* of its queries was answered (unless another run of the process took part
\* in its counters); every name that the recursion records was unknown, lies
\* below the seed it is attributed to, and the seeds lead back to a name known
\* before; and a recorded permutation is a new name that has an address which
\* the wildcard of its own apex does not give.
DiscoveriesGrounded ==
  /\ \A n \in noted : n[1] = "dns" /\ n[2] = "no_dnssec" =>
       /\ <<"dns", <<n[3], "DNSKEY">> >> \in audited
       /\ \E m \in noted : m[2] = "record" /\ m[3][1] = n[3]
  /\ <<"dns", "gave_up", "resolver">> \in noted /\ "elsewhere" \notin seen => audited = {}
  /\ \A p \in Pivots :
       /\ p \in Below /\ p[1] \notin Named
       /\ \A q \in Pivots : q[1] = p[1] => q = p
       /\ p[2] \in Named \/ \E q \in Pivots : q[1] = p[2]
  /\ \A n \in noted : n[1] = "subdomain_permute" /\ n[2] = "alias" =>
       /\ ~(n[3][2] \subseteq WildcardOf(ApexOf(n[3][1][2])))
       /\ n[3][1][1] \notin Named
=============================================================================
