---------------------------- MODULE OsintModules ----------------------------
(***************************************************************************)
(* Modules of the OSINT phase, which ask third parties only:               *)
(* passive_subdomains with its source adapters, passive_urls, wayback and  *)
(* github_org (recon/modules/osint/).                                      *)
(***************************************************************************)
EXTENDS ModuleWork

CONSTANTS
  Indexes,     \* services that know names or URLs of a domain
  Resolving,   \* those of them that give addresses with the names
  InDomain,    \* pairs <<n, d>>: the name n is the domain d or lies below it
  Archived,    \* names that the services may know
  HitCap,      \* _MAX_HITS_PER_SOURCE
  Accounts,    \* GitHub accounts
  Profile      \* of an account: whether it refers to a domain of the target,
               \* bears the company's name, is an organisation

ASSUME OsintAssumption ==
  /\ Resolving \subseteq Indexes /\ InDomain \subseteq Hosts \X Hosts
  /\ Profile \in [Accounts -> SUBSET {"domain", "name", "org"}]
  /\ Accounts \intersect {"given", "domains", "company"} = {}

Of(m, what)   == {n[3] : n \in {k \in noted : k[1] = m /\ k[2] = what}}
Asked(m)      == {a[2] : a \in {b \in audited : b[1] = m}}
Inside(ns, d) == {n \in ns : <<n, d>> \in InDomain}

-----------------------------------------------------------------------------
(* passive_subdomains: per domain all sources, then what they told *)

\* A name counts as told by each source that saw it: confidence rests on the
\* number of sources.
RowsOf(n, told) == {t \in told : t[2] = n}

Untold == seen \ Of("passive_subdomains", "name")

\* Domains of the RoE and those known; adapters on by default or enabled, and
\* not disabled.
SubsStart(on) ==
  /\ Starts("passive_subdomains") /\ at' = "work"
  /\ todo' = (RoeHosts \union Known({"domain"})) \X on /\ seen' = {} /\ spent' = 0
  /\ IF on = {} THEN Ends("skipped") ELSE GoesOn
  /\ NoNotes /\ NoAudits /\ NoTouches

\* One domain is finished, and told, before the next.
SubsTurn(d, src) ==
  /\ In("passive_subdomains", "work") /\ <<d, src>> \in todo
  /\ \A t \in Untold : t[1] = d
  /\ \A p \in todo : p[1] # d => \A q \in Asked("passive_subdomains") : q[1] # p[1]
  /\ todo' = todo \ {<<d, src>>} /\ Stays
  /\ Audits({<<d, src>>})

\* A time-out, a quota (SourceDegraded) or any other failure is an error row.
SubsFails(d, src) ==
  /\ SubsTurn(d, src)
  /\ Notes({<<"error", <<d, src>> >>})
  /\ UNCHANGED <<seen, spent, touched, tool, ended>>

SubsAnswers(d, src, names) ==
  LET hits == Inside(names, d) IN
  /\ SubsTurn(d, src)
  /\ \E kept \in SUBSET hits :
       /\ Cardinality(kept) = IF Cardinality(hits) < HitCap THEN Cardinality(hits) ELSE HitCap
       /\ seen' = seen \union {<<d, n, src>> : n \in kept}
       /\ IF kept = hits THEN NoNotes ELSE Notes({<<"capped", <<d, src>> >>})
  /\ UNCHANGED <<spent, touched, tool, ended>>

\* The time budget is over: no further source is asked, for any domain.
SubsBudgetOver ==
  /\ In("passive_subdomains", "work") /\ todo # {}
  /\ todo' = {} /\ spent' = 1 /\ Stays
  /\ UNCHANGED <<seen, touched, audited, noted, tool, ended>>

\* _emit: name after name, with check_alive in between.
SubsEmit(d, names) ==
  LET told == {t \in Untold : t[1] = d}
      all  == {t[2] : t \in told}
  IN  /\ In("passive_subdomains", "work") /\ told # {} /\ names \subseteq all
      /\ \A q \in todo : q[1] # d
      /\ Stays
      /\ Notes({<<"name", t>> : t \in UNION {RowsOf(n, told) : n \in names}}
                 \union {<<"record", <<d, t[2]>> >> :
                           t \in {u \in told : u[2] \in names /\ u[3] \in Resolving}})
      /\ IF names = all THEN GoesOn ELSE Ends("stopped")
      /\ UNCHANGED <<todo, seen, spent, touched, audited, tool>>

Answered == Asked("passive_subdomains") \ Of("passive_subdomains", "error")

\* The module fails when no source answered at all.
SubsReturns ==
  /\ In("passive_subdomains", "work") /\ todo = {} /\ Untold = {}
  /\ Ends(IF Answered = {} THEN "failed" ELSE "returned")
  /\ UNCHANGED <<facts, override, mod, at, todo, seen, spent, touched, audited, noted, tool>>

-----------------------------------------------------------------------------
(* passive_urls, wayback *)

UrlsStart ==
  /\ Starts("passive_urls") /\ at' = "work" /\ todo' = RoeHosts \X Indexes
  /\ seen' = {} /\ NoNotes /\ NoAudits /\ NoTouches /\ GoesOn
  /\ UNCHANGED spent

\* _sources, one after the other; a failing one is an error row and gives
\* nothing.  check_alive stands between two domains only.
UrlsFetch(d, src, ok, urls) ==
  /\ mod = "passive_urls" /\ ended = "no" /\ at \in {"work", d} /\ <<d, src>> \in todo
  /\ todo' = todo \ {<<d, src>>} /\ Goes(d)
  /\ Audits({<<d, src>>})
  /\ IF ok THEN NoNotes ELSE Notes({<<"error", <<d, src>> >>})
  /\ seen' = IF ok THEN seen \union {<<u, src>> : u \in Inside(urls, d)} ELSE seen
  /\ UNCHANGED <<spent, touched, tool, ended>>

\* A URL is recorded once, with all the sources that know it.
UrlsEmit(d) ==
  /\ In("passive_urls", d) /\ \A q \in todo : q[1] # d
  /\ Goes("work") /\ seen' = {}
  /\ Notes({<<"url", <<s[1], {t[2] : t \in {u \in seen : u[1] = s[1]}}>> >> : s \in seen})
  /\ UNCHANGED <<todo, spent, touched, audited, tool, ended>>

WaybackStart ==
  /\ Starts("wayback") /\ at' = "work" /\ todo' = RoeHosts
  /\ NoNotes /\ NoAudits /\ NoTouches /\ GoesOn
  /\ UNCHANGED <<seen, spent>>

\* One answer of the CDX index: hosts of the domain and what lies on them that
\* is of interest; the limits leave a part of it.
WaybackDomain(d, ok, kept) ==
  /\ In("wayback", "work") /\ d \in todo /\ {k[1] : k \in kept} = Inside({k[1] : k \in kept}, d)
  /\ todo' = todo \ {d} /\ Stays
  /\ Audits({d})
  /\ IF ok THEN Notes({<<k[2], k[1]>> : k \in {j \in kept : j # <<d, "host">>}})
     ELSE kept = {} /\ Notes({<<"error", d>>})
  /\ UNCHANGED <<seen, spent, touched, tool, ended>>

-----------------------------------------------------------------------------
(* github_org: the account of the RoE ("given"), or one that a search by the *)
(* domains, or without any by the company's name, brings up                  *)

GithubStart(how) ==
  /\ Starts("github_org") /\ at' = "search" /\ seen' = {how} /\ todo' = {}
  /\ NoNotes /\ NoAudits /\ NoTouches /\ GoesOn
  /\ UNCHANGED spent

\* What the searches found; one that fails finds nothing.
GithubSearch(found) ==
  /\ In("github_org", "search") /\ Goes("profiles")
  /\ "given" \in seen => Cardinality(found) = 1
  /\ todo' = found
  /\ UNCHANGED <<seen, spent, touched, audited, noted, tool, ended>>

\* Profile after profile, in the order of the search, until one refers to a
\* domain of the target; the given one only has to exist.
Corroborated(a) == "given" \in seen \/ ("domains" \in seen /\ "domain" \in Profile[a])

GithubProfile(a, ok) ==
  LET taken == ok /\ Corroborated(a)
  IN  /\ In("github_org", "profiles") /\ a \in todo
      /\ todo' = todo \ {a} /\ Goes(IF taken THEN "enumerate" ELSE "profiles")
      /\ seen' = IF taken THEN seen \union {a} ELSE seen
      /\ Audits({a})
      /\ IF ok THEN NoNotes ELSE Notes({<<"error", a>>})
      /\ UNCHANGED <<spent, touched, tool, ended>>

\* Pass B: nothing was corroborated.  A tight match of the name will do, but
\* only when there was no domain to corroborate by.
FallsBackOn(a) ==
  /\ "company" \in seen /\ "name" \in Profile[a]
  /\ a \in Asked("github_org") \ Of("github_org", "error")

GithubPassB ==
  /\ In("github_org", "profiles") /\ todo = {}
  /\ \/ \E a \in Accounts : FallsBackOn(a) /\ seen' = seen \union {a} /\ Goes("enumerate") /\ GoesOn
     \/ (\A a \in Accounts : ~FallsBackOn(a)) /\ Stays /\ Ends("returned") /\ UNCHANGED seen
  /\ UNCHANGED <<todo, spent, touched, audited, noted, tool>>

\* The account, its repositories, and the members of an organisation; a list
\* that cannot be read is an error row.
GithubEnumerate(a, read) ==
  LET lists == {"repositories"} \union (IF "org" \in Profile[a] THEN {"members"} ELSE {})
  IN  /\ In("github_org", "enumerate") /\ a \in seen
      /\ Stays /\ Ends("returned")
      /\ Notes({<<"account", a>>} \union {<<IF l \in read THEN l ELSE "error", a>> : l \in lists})
      /\ UNCHANGED <<todo, seen, spent, touched, audited, tool>>

OsintNext ==
  \/ \E on \in SUBSET Indexes : SubsStart(on)
  \/ SubsBudgetOver \/ SubsReturns \/ UrlsStart \/ WaybackStart \/ GithubPassB
  \/ \E d \in Hosts, src \in Indexes : SubsFails(d, src)
  \/ mod = "passive_subdomains" /\ \E d \in Hosts, ns \in SUBSET Archived :
       SubsEmit(d, ns) \/ \E src \in Indexes : SubsAnswers(d, src, ns)
  \/ mod = "passive_urls" /\ \E d \in Hosts :
       \/ UrlsEmit(d)
       \/ \E src \in Indexes, ok \in BOOLEAN, us \in SUBSET Archived : UrlsFetch(d, src, ok, us)
  \/ mod = "wayback" /\ \E d \in Hosts, ok \in BOOLEAN :
       \E kept \in SUBSET (Archived \X {"host", "document"}) : WaybackDomain(d, ok, kept)
  \/ \E how \in {"given", "domains", "company"} : GithubStart(how)
  \/ \E found \in SUBSET Accounts : GithubSearch(found)
  \/ mod = "github_org" /\ \E a \in Accounts :
       \/ \E ok \in BOOLEAN : GithubProfile(a, ok)
       \/ \E read \in SUBSET {"repositories", "members"} : GithubEnumerate(a, read)

-----------------------------------------------------------------------------
(* Property *)

\* What the OSINT modules record is what the sources told, no more and no
\* less: a module that returned has recorded every name with every source that
\* saw it, and some source answered; one that failed for want of answers has
\* thrown nothing away and tells of each source it asked; only names of the
\* domain asked for are recorded; and a GitHub account counts as the target's
\* only when the RoE names it or its profile refers to a domain of the target,
\* or, where there is none, when it bears the company's name.
OsintTold ==
  /\ mod = "passive_subdomains" =>
       /\ Of("passive_subdomains", "name") \subseteq seen
       /\ \A t \in seen : <<t[2], t[1]>> \in InDomain /\ <<t[1], t[3]>> \in Answered
       /\ ended = "returned" => Untold = {} /\ Answered # {}
       /\ ended = "failed" =>
            seen = {} /\ Asked("passive_subdomains") = Of("passive_subdomains", "error")
  /\ \A a \in Of("github_org", "account") :
       \/ "given" \in seen
       \/ IF "domains" \in seen THEN "domain" \in Profile[a] ELSE "name" \in Profile[a]
=============================================================================
