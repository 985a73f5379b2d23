------------------------------- MODULE Crawl -------------------------------
(***************************************************************************)
(* The crawler (recon/modules/passive/crawler.py): a breadth-first walk    *)
(* from the known URLs and the roots of the hosts that nobody has probed,  *)
(* bounded in depth, in pages and in pages of a host.                      *)
(*                                                                         *)
(* A page is fetched at once here; what becomes of the request and of the  *)
(* rows is ModuleSession's.                                                *)
(***************************************************************************)
EXTENDS Integers, Sequences, FiniteSets, Ordering

CONSTANTS
  Urls,
  HostOf,    \* the host of a URL
  CrawlScope,\* the URLs in scope
  Seeds,     \* possible lists of seeds, in the order they are added
  Sites,     \* possible webs: the links of each page, in order
  MaxDepth,  \* MAX_DEPTH
  MaxPages,  \* MAX_PAGES
  MaxPagesPerHost

ASSUME CrawlAssumption ==
  /\ HostOf \in [Urls -> {HostOf[u] : u \in Urls}] /\ CrawlScope \subseteq Urls
  /\ Seeds \subseteq Seq(Urls) /\ Sites \subseteq [Urls -> Seq(Urls)]
  /\ {MaxDepth, MaxPages, MaxPagesPerHost} \subseteq Nat

VARIABLES
  site,    \* the web that is walked
  queue,   \* <<url, depth>>, the next one first
  visited,
  rooted,  \* hosts of which a seed was fetched
  meta,    \* hosts whose robots.txt and sitemap.xml were asked for
  crawled, \* <<url, depth, html>>: the pages
  failed,  \* URLs that could not be fetched
  linked,  \* links recorded: <<url, page>>
  cstate   \* "new", "walking", "done", "stopped"

crawlVars == <<site, queue, visited, rooted, meta, crawled, failed, linked, cstate>>

CrawlTypeOK ==
  /\ site \in Sites /\ queue \in Seq(Urls \X (0..MaxDepth))
  /\ visited \subseteq Urls /\ rooted \subseteq meta
  /\ crawled \subseteq Urls \X (0..MaxDepth) \X BOOLEAN
  /\ cstate \in {"new", "walking", "done", "stopped"}

CrawlInit ==
  /\ site \in Sites /\ queue = <<>> /\ cstate = "new"
  /\ visited = {} /\ rooted = {} /\ meta = {} /\ crawled = {} /\ failed = {} /\ linked = {}

-----------------------------------------------------------------------------
PagesOf(h) == Cardinality({c \in crawled : HostOf[c[1]] = h})

CrawlStart ==
  /\ cstate = "new" /\ cstate' = "walking"
  /\ \E s \in Seeds : queue' = [i \in DOMAIN s |-> <<s[i], 0>>]
  /\ UNCHANGED <<site, visited, rooted, meta, crawled, failed, linked>>

\* The loop takes the next URL, and passes over one that it has seen, a seed
\* of a host of which another seed was fetched, and a host with its fill.
Taken == Head(queue)

PassedOver(u, d) ==
  \/ u \in visited
  \/ d = 0 /\ HostOf[u] \in rooted
  \/ PagesOf(HostOf[u]) >= MaxPagesPerHost

Walking == cstate = "walking" /\ queue # <<>> /\ Cardinality(crawled) < MaxPages

CrawlPass ==
  /\ Walking /\ PassedOver(Taken[1], Taken[2])
  /\ queue' = Tail(queue) /\ visited' = visited \union {Taken[1]}
  /\ UNCHANGED <<site, rooted, meta, crawled, failed, linked, cstate>>

\* The request fails or is refused by the scope gate, or a redirect is.
CrawlFails ==
  /\ Walking /\ ~PassedOver(Taken[1], Taken[2])
  /\ queue' = Tail(queue) /\ visited' = visited \union {Taken[1]}
  /\ failed' = failed \union {Taken[1]}
  /\ UNCHANGED <<site, rooted, meta, crawled, linked, cstate>>

\* The positions of the links of a page that are followed: of the page's host,
\* in scope, not yet seen.
Followed(u) ==
  {i \in DOMAIN site[u] : /\ HostOf[site[u][i]] = HostOf[u]
                          /\ site[u][i] \in CrawlScope \ (visited \union {u})}

\* The plausible slip: the limit is compared one level too deep.
Follow_TooDeep(u, d) ==
  LET kept == Ascending(IF d <= MaxDepth THEN Followed(u) ELSE {})
  IN  [k \in DOMAIN kept |-> <<site[u][kept[k]], d + 1>>]

\* They are queued one level deeper, in the order of the page.
Follow(u, d) ==
  LET kept == Ascending(IF d < MaxDepth THEN Followed(u) ELSE {})
  IN  [k \in DOMAIN kept |-> <<site[u][kept[k]], d + 1>>]

Enqueued_First(links) == links \o Tail(queue)

Enqueued(links) == Tail(queue) \o links

\* A page: recorded, and its links when it is HTML.  The first page of a host
\* brings its robots.txt and sitemap.xml along.
CrawlPage(html) ==
  LET u == Taken[1]
      d == Taken[2]
  IN  /\ Walking /\ ~PassedOver(u, d) /\ u \in CrawlScope
      /\ visited' = visited \union {u}
      /\ rooted' = IF d = 0 THEN rooted \union {HostOf[u]} ELSE rooted
      /\ meta' = meta \union {HostOf[u]}
      /\ crawled' = crawled \union {<<u, d, html>>}
      /\ IF html
           THEN /\ linked' = linked \union {<<site[u][i], u>> : i \in DOMAIN site[u]}
                /\ queue' = Enqueued(Follow(u, d))
           ELSE queue' = Tail(queue) /\ UNCHANGED linked
      /\ UNCHANGED <<site, failed, cstate>>

\* Nothing left, or enough pages: the parameters are recorded.
CrawlDone ==
  /\ cstate = "walking" /\ ~Walking /\ cstate' = "done"
  /\ UNCHANGED <<site, queue, visited, rooted, meta, crawled, failed, linked>>

\* check_alive, before a request or between two links.
CrawlStop ==
  /\ cstate = "walking" /\ cstate' = "stopped"
  /\ UNCHANGED <<site, queue, visited, rooted, meta, crawled, failed, linked>>

CrawlNext ==
  \/ CrawlStart \/ CrawlPass \/ CrawlFails \/ CrawlDone \/ CrawlStop
  \/ \E b \in BOOLEAN : CrawlPage(b)

CrawlSpec == CrawlInit /\ [][CrawlNext]_crawlVars

-----------------------------------------------------------------------------
(* Property *)

\* The walk is breadth-first and complete, for every web, order of seeds and
\* set of failures: a page below the seeds was reached over a shortest path of
\* pages that were read; the limits are kept; and when the walk ends by itself
\* below its limits, every link it had to follow was fetched, failed, or was
\* passed over for being itself a seed of a host with a fetched seed (of the
\* links into such a host it asks no more than that they were taken up).
CrawlCovers ==
  LET read(d) == {c \in crawled : c[3] /\ c[2] = d}
      leads(c, u) == \E i \in DOMAIN site[c[1]] : site[c[1]][i] = u
      near(c, u)  == HostOf[c[1]] = HostOf[u] /\ leads(c, u)
  IN  /\ \A c, e \in crawled : c[1] = e[1] => c = e
      /\ \A c \in crawled : c[2] > 0 =>
           /\ \E p \in read(c[2] - 1) : near(p, c[1])
           /\ \A d \in 0..(c[2] - 2) : \A p \in read(d) : ~near(p, c[1])
      /\ Cardinality(crawled) <= MaxPages
      /\ \A h \in meta : PagesOf(h) <= MaxPagesPerHost
      /\ cstate = "done" /\ Cardinality(crawled) < MaxPages =>
           \A c \in crawled : c[3] /\ c[2] < MaxDepth /\ PagesOf(HostOf[c[1]]) < MaxPagesPerHost =>
             \A u \in CrawlScope : near(c, u) =>
               \/ u \in {e[1] : e \in crawled} \union failed
               \/ HostOf[u] \in rooted /\ u \in visited
=============================================================================
