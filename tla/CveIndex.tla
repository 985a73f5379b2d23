------------------------------ MODULE CveIndex ------------------------------
(***************************************************************************)
(* The local CVE index (recon/orchestrator/cve_index.py, `recon cve        *)
(* refresh`) and the module that matches the known services and libraries  *)
(* against it (recon/modules/active/cve_correlate.py).                     *)
(*                                                                         *)
(* A refresh fetches CISA's KEV catalogue, then the NVD page by page, and  *)
(* writes in the end; the feeds may change under it, a page may be short,  *)
(* and another process may refresh at the same time.                       *)
(***************************************************************************)
EXTENDS Integers, FiniteSets, Sequences, SequencesExt, Functions

CONSTANTS
  Catalogue,    \* the CVEs, in the order in which the NVD lists them
  Feeds,        \* the feeds to begin with: [kev |-> a set, band |-> a band each]
  CpeOf,        \* what the NVD says is affected: ranges of a product's versions,
                \* with either end (<< >> for none) included or not
  Services,     \* what the engagement knows: [at, product, version]
  Linked,       \* rows of internetdb: [cve, ports]
  Libraries,    \* tech rows with a version: [package, version, url]
  Advisories,   \* what OSV.dev may answer: sets of CVEs
  Refreshers,   \* processes that refresh
  PageSize,     \* _NVD_PAGE_SIZE
  TopN,         \* _TOP_N_PER_TARGET
  MaxBegun      \* bound: changes of the feeds and refreshes begun

Cves  == ToSet(Catalogue)
High  == <<"HIGH", "CRITICAL">>
Bands == {"absent", "LOW"} \union ToSet(High)

ASSUME CveAssumption ==
  /\ \A f \in Feeds : f.kev \subseteq Cves /\ f.band \in [Cves -> Bands]
  /\ {PageSize, TopN} \subseteq Nat \ {0} /\ MaxBegun \in Nat
  /\ Catalogue \in Seq(Cves)
  /\ \A s \in Services : s.version \in Seq(Nat)
  /\ \A c \in Cves : \A cpe \in CpeOf[c] : {cpe.from, cpe.to} \subseteq Seq(Nat)
  /\ IsFiniteSet(Linked) /\ \A l \in Linked : IsFiniteSet(l.ports)
  /\ \A advised \in Advisories : IsFiniteSet(advised)

VARIABLES
  feed,     \* KEV and NVD as they are now
  begun,    \* how many changes and refreshes there were
  index,    \* the records of the database: CVE -> [cpes, kev]
  job,      \* what each refresher is at
  fresh,    \* the index was refreshed undisturbed from the feeds as they are
  match     \* the correlation of one run

cveVars == <<feed, begun, index, job, fresh, match>>

NoJob == [at |-> "idle", kev |-> {}, passes |-> << >>, start |-> 0, got |-> {},
          loaded |-> << >>, clean |-> FALSE]

CveInit ==
  /\ feed \in Feeds /\ begun = 0
  /\ index = << >> /\ fresh = FALSE
  /\ job = [r \in Refreshers |-> NoJob]
  /\ match = [at |-> "links", index |-> << >>, todo |-> {}, told |-> {}, sound |-> FALSE]

-----------------------------------------------------------------------------
(* The feeds *)

\* Where in the catalogue the NVD has what it lists: one band, or everything.
Listing(band)  == {i \in DOMAIN Catalogue :
                     /\ feed.band[Catalogue[i]] # "absent"
                     /\ band \in {"all", feed.band[Catalogue[i]]}}
Total(band)    == Cardinality(Listing(band))
Place(band, i) == Cardinality({h \in Listing(band) : h <= i})
Page(band, start, n) ==
  {Catalogue[i] : i \in {j \in Listing(band) : Place(band, j) \in start + 1 .. start + n}}
ListedBy(source) == IF source = "nvd_api" THEN {c \in Cves : feed.band[c] # "absent"}
                  ELSE {c \in Cves : feed.band[c] \in ToSet(High)}

\* A CVE is rescored, published or withdrawn, or enters or leaves KEV.
FeedChanges(f) ==
  /\ begun < MaxBegun /\ begun' = begun + 1
  /\ f # feed /\ feed' = f
  /\ fresh' = FALSE
  /\ job' = [r \in Refreshers |-> [job[r] EXCEPT !.clean = FALSE]]
  /\ match' = [match EXCEPT !.sound = FALSE]
  /\ UNCHANGED index

-----------------------------------------------------------------------------
(* refresh_index *)

\* _fetch_kev.
RefreshKev(r, source) ==
  /\ job[r].at = "idle" /\ begun < MaxBegun /\ begun' = begun + 1
  /\ job' = [job EXCEPT ![r] =
       [NoJob EXCEPT !.at = "nvd", !.kev = feed.kev, !.clean = TRUE,
                     !.passes = IF source = "nvd_api" THEN <<"all">> ELSE High]]
  /\ UNCHANGED <<feed, index, fresh, match>>

\* A fetch fails: CVEIndexError, and nothing has been written.
RefreshFails(r) ==
  /\ job[r].at = "nvd"
  /\ job' = [job EXCEPT ![r] = NoJob]
  /\ UNCHANGED <<feed, begun, index, fresh, match>>

\* _fetch_nvd, one page of n items: the next one begins behind them.  A short
\* page goes on; an empty one, or one that reaches totalResults, ends the pass.
Advance_PageSize(start, n) == start + PageSize  \* mutant
Advance(start, n) == IF n = 0 THEN start + PageSize ELSE start + n

RefreshPage(r, n) ==
  LET j     == job[r]
      band  == Head(j.passes)
      next  == Advance(j.start, n)
      over  == n = 0 \/ next >= Total(band)
      rest  == IF over THEN Tail(j.passes) ELSE j.passes
  IN  /\ j.at = "nvd" /\ n \in 0 .. PageSize /\ (n > 0 => j.start + n <= Total(band))
      /\ job' = [job EXCEPT ![r] =
           [j EXCEPT !.got = @ \union Page(band, j.start, n),
                     !.start = IF over THEN 0 ELSE next,
                     !.passes = rest,
                     !.at = IF rest = << >> THEN "merge" ELSE "nvd",
                     !.clean = @ /\ (n > 0 \/ j.start >= Total(band))]]
      /\ UNCHANGED <<feed, begun, index, fresh, match>>

\* The records of the refresh: a CVE of KEV that the NVD passes left out gets
\* a bare one.
RecordsOf(j) ==
  [c \in j.got \union j.kev |-> [cpes |-> c \in j.got, kev |-> c \in j.kev]]

\* session.merge looks every record up.  (The code looks one up and flushes it
\* before it looks up the next, all in one transaction; here all are looked up
\* in one step and written in another, so that another process may commit in
\* between for longer than in the code.  CVEIndexMeta, a row that says when and
\* from where, is left out.)
RefreshMerge(r) ==
  /\ job[r].at = "merge"
  /\ job' = [job EXCEPT ![r].at = "flush",
       ![r].loaded = Restrict(index, DOMAIN index \intersect DOMAIN RecordsOf(job[r]))]
  /\ UNCHANGED <<feed, begun, index, fresh, match>>

\* The flush inserts what was not there and updates the columns that differ
\* from what was loaded; a record inserted by another process meanwhile is an
\* IntegrityError, and all is rolled back.
Written(old, loaded, new) ==
  LET Column(f) == IF new[f] = loaded[f] THEN old[f] ELSE new[f]
  IN  [cpes |-> Column("cpes"), kev |-> Column("kev")]

RefreshFlush(r) ==
  LET j   == job[r]
      new == RecordsOf(j)
      ok  == DOMAIN index \intersect DOMAIN new \subseteq DOMAIN j.loaded
  IN  /\ j.at = "flush"
      /\ IF ok
           THEN /\ index' = [c \in DOMAIN index \union DOMAIN new |->
                     IF c \notin DOMAIN new THEN index[c]
                     ELSE IF c \notin DOMAIN j.loaded THEN new[c]
                     ELSE Written(index[c], j.loaded[c], new[c])]
                /\ fresh' = j.clean
                /\ job' = [q \in Refreshers |->
                     IF q = r THEN NoJob
                     ELSE IF job[q].at = "flush" THEN [job[q] EXCEPT !.clean = FALSE]
                     ELSE job[q]]
           ELSE job' = [job EXCEPT ![r] = NoJob] /\ UNCHANGED <<index, fresh>>
      /\ UNCHANGED <<feed, begun, match>>

-----------------------------------------------------------------------------
(* cve_correlate *)

\* _version_key: tuples of numbers compare like words; << >> is no version.
Precedes(v, w) ==
  \/ \E i \in 1 .. Len(v) :
       i <= Len(w) /\ v[i] < w[i] /\ SubSeq(v, 1, i - 1) = SubSeq(w, 1, i - 1)
  \/ Len(v) < Len(w) /\ v = SubSeq(w, 1, Len(v))

\* _flatten_cpe_matches keeps the ends of a range, not whether they belong to it.
Flatten(cpe) == [product |-> cpe.product, start |-> cpe.from, end |-> cpe.to]

\* _version_in_range takes [start, end), and lets an unknown version pass.
InRange(v, range) ==
  v # << >> =>
    /\ range.start # << >> => ~Precedes(v, range.start)
    /\ range.end # << >> => Precedes(v, range.end)

Matches(rec, c, s) ==
  /\ rec.cpes
  /\ \E range \in {Flatten(cpe) : cpe \in CpeOf[c]} :
       range.product = s.product /\ InRange(s.version, range)

\* _link_internetdb_cves, then the one read of the index, in its own session.
CveLoad ==
  /\ match.at = "links"
  /\ match' = [at |-> "match", index |-> index, sound |-> fresh,
               todo |-> IF index = << >> THEN {} ELSE Services,
               told |-> UNION {{l.cve} \X l.ports : l \in Linked}]
  /\ UNCHANGED <<feed, begun, index, job, fresh>>

\* The first TopN matches by score; the scores are not told apart here.
CveMatch(s) ==
  LET hits == {c \in DOMAIN match.index : Matches(match.index[c], c, s)}
  IN  /\ match.at = "match" /\ s \in match.todo
      /\ \E kept \in SUBSET hits :
           /\ Cardinality(kept) = IF Cardinality(hits) < TopN THEN Cardinality(hits) ELSE TopN
           /\ match' = [match EXCEPT !.todo = @ \ {s}, !.told = @ \union (kept \X {s.at})]
      /\ UNCHANGED <<feed, begun, index, job, fresh>>

\* _match_osv: each package and version is asked for once, and what is found
\* is attached to the first row that names it.
CveLibraries ==
  /\ match.at = "match" /\ match.todo = {}
  /\ \E firsts \in SUBSET Libraries :
       /\ \A l \in Libraries :
            \E f \in firsts : f.package = l.package /\ f.version = l.version
       /\ \A f, g \in firsts : f # g => f.package # g.package \/ f.version # g.version
       /\ match' = [match EXCEPT !.at = "osv", !.todo = firsts]
  /\ UNCHANGED <<feed, begun, index, job, fresh>>

\* _osv_lookup; a failing request leaves an error row, any other answer than
\* 200 nothing.
OsvLookup(l, found) ==
  /\ match.at = "osv" /\ l \in match.todo
  /\ match' = [match EXCEPT !.todo = @ \ {l}, !.told = @ \union (found \X {l.url})]
  /\ UNCHANGED <<feed, begun, index, job, fresh>>

CveNext ==
  \/ \E f \in Feeds : FeedChanges(f)
  \/ \E r \in Refreshers :
       \/ \E source \in {"local", "nvd_api"} : RefreshKev(r, source)
       \/ \E n \in 0 .. PageSize : RefreshPage(r, n)
       \/ RefreshFails(r) \/ RefreshMerge(r) \/ RefreshFlush(r)
  \/ CveLoad \/ CveLibraries
  \/ \E s \in Services : CveMatch(s)
  \/ \E l \in Libraries, found \in Advisories : OsvLookup(l, found)

CveSpec == CveInit /\ [][CveNext]_cveVars

-----------------------------------------------------------------------------
(* Properties *)

CveTypeOK ==
  /\ feed \in Feeds /\ begun \in 0 .. MaxBegun /\ fresh \in BOOLEAN
  /\ DOMAIN index \subseteq Cves
  /\ \A c \in DOMAIN index : index[c] \in [cpes : BOOLEAN, kev : BOOLEAN]
  /\ \A r \in Refreshers :
       /\ job[r].at \in {"idle", "nvd", "merge", "flush"}
       /\ job[r].got \union job[r].kev \subseteq Cves
       /\ job[r].start \in 0 .. Len(Catalogue)
  /\ match.at \in {"links", "match", "osv"}

\* A version that the NVD says is affected.  (The last version of a range that
\* includes it is affected too, and is not matched.)
Affected(c, s) ==
  \E cpe \in CpeOf[c] :
    /\ cpe.product = s.product
    /\ \/ cpe.from = << >> \/ Precedes(cpe.from, s.version)
       \/ cpe.from = s.version /\ cpe.fromIn
    /\ cpe.to = << >> \/ Precedes(s.version, cpe.to)

\* From the feeds to the findings: an index refreshed undisturbed holds every
\* CVE that KEV or the NVD's high bands list, marked as KEV has it, however the
\* pages were cut and whatever an earlier refresh wrote; and a service whose
\* version such a CVE affects is told so, unless TopN others were.
CvesTold ==
  /\ fresh => \A c \in feed.kev \union ListedBy("local") :
       c \in DOMAIN index /\ index[c].kev = (c \in feed.kev)
  /\ match.sound => \A c \in ListedBy("local"), s \in Services :
       (Affected(c, s) /\ (match.at = "osv" \/ (match.at = "match" /\ s \notin match.todo)))
         => \/ <<c, s.at>> \in match.told
            \/ Cardinality({t \in match.told : t[2] = s.at}) >= TopN
=============================================================================
