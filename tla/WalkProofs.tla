----------------------------- MODULE WalkProofs -----------------------------
(***************************************************************************)
(* The two modules that walk a structure of the outside world as far as it *)
(* lets them: the crawler a web, git_secrets the histories of repositories.*)
(* What they find and cover, for every web, every history, every order and *)
(* whatever of it cannot be read.                                          *)
(***************************************************************************)
EXTENDS Crawl, GitSecrets, FiniteSetTheorems, TLAPS

-----------------------------------------------------------------------------
(* Numbers in order *)

\* Every number of the set has its place, and the places are in order.
LEMMA AscendingIs ==
  ASSUME NEW S \in SUBSET Int, IsFiniteSet(S)
  PROVE  /\ Cardinality(S) \in Nat
         /\ Ascending(S) \in [1..Cardinality(S) -> S]
         /\ \A i \in S : \E k \in 1..Cardinality(S) : Ascending(S)[k] = i
         /\ \A k, l \in 1..Cardinality(S) : k < l => Ascending(S)[k] < Ascending(S)[l]
<1> DEFINE Below(i) == {j \in S : j <= i}
           rank(i)  == Cardinality(Below(i))
           n        == Cardinality(S)
<1>1. n \in Nat
  BY FS_CardinalityType
<1>2. ASSUME NEW i \in S PROVE IsFiniteSet(Below(i)) /\ rank(i) \in 1..n
  <2>1. Below(i) \in SUBSET S /\ i \in Below(i)
    OBVIOUS
  <2>2. IsFiniteSet(Below(i)) /\ rank(i) <= n
    BY <2>1, FS_Subset
  <2>3. rank(i) \in Nat /\ rank(i) # 0
    <3> HIDE DEF Below
    <3> QED
      BY <2>1, <2>2, FS_CardinalityType, FS_EmptySet
  <2> QED
    BY <1>1, <2>2, <2>3
<1>3. ASSUME NEW i \in S, NEW k \in S, i < k PROVE rank(i) < rank(k)
  <2>1. Below(i) \in SUBSET Below(k) /\ k \in Below(k) /\ k \notin Below(i)
    <3>1. i \in Int /\ k \in Int
      OBVIOUS
    <3>2. ASSUME NEW j \in S, j <= i PROVE j <= k
      <4>1. j \in Int
        OBVIOUS
      <4> QED
        BY <1>3, <3>1, <3>2, <4>1
    <3>3. k <= k /\ ~(k <= i)
      BY <1>3, <3>1
    <3> QED
      BY <3>2, <3>3
  <2>2. rank(i) <= rank(k) /\ (rank(k) = rank(i) => Below(k) = Below(i))
    <3>1. IsFiniteSet(Below(k))
      BY <1>2
    <3> HIDE DEF Below
    <3> QED
      BY <2>1, <3>1, FS_Subset
  <2>3. rank(k) # rank(i)
    <3> HIDE DEF rank, Below
    <3> QED
      BY <2>1, <2>2
  <2>4. rank(i) \in Int /\ rank(k) \in Int
    BY <1>2
  <2> HIDE DEF rank, Below
  <2> QED
    BY <2>2, <2>3, <2>4
<1>4. ASSUME NEW k \in 1..n PROVE \E i \in S : rank(i) = k
  <2> DEFINE f == [i \in S |-> rank(i)]
  <2>1. f \in [S -> 1..n]
    <3> HIDE DEF rank, n
    <3> QED
      BY <1>2
  <2>2. ASSUME NEW i \in S, NEW j \in S, f[i] = f[j] PROVE i = j
    <3>1. rank(i) = rank(j) /\ rank(i) \in Int
      BY <1>2, <2>2
    <3> HIDE DEF rank, f
    <3> QED
      BY <1>3, <3>1
  <2>3. f \in Injection(S, 1..n)
    <3> HIDE DEF f
    <3> QED
      BY <2>1, <2>2 DEF Injection, IsInjective
  <2>4. IsFiniteSet(1..n) /\ Cardinality(1..n) = n
    <3> HIDE DEF n
    <3> QED
      BY <1>1, FS_Interval
  <2>5. f \in Surjection(S, 1..n)
    <3> HIDE DEF f
    <3> QED
      BY <2>3, <2>4, FS_Injection
  <2>6. \E i \in S : f[i] = k
    <3> HIDE DEF f, n
    <3> QED
      BY <2>5 DEF Surjection
  <2> HIDE DEF rank
  <2> QED
    BY <2>6
<1>5. ASSUME NEW k \in 1..n PROVE Ascending(S)[k] \in S /\ rank(Ascending(S)[k]) = k
  BY <1>4 DEF Ascending
<1>6. ASSUME NEW i \in S PROVE \E k \in 1..n : Ascending(S)[k] = i
  <2>1. rank(i) \in 1..n
    BY <1>2
  <2> DEFINE a == Ascending(S)[rank(i)]
  <2>2. a \in S /\ rank(a) = rank(i)
    BY <1>5, <2>1
  <2>3. a = i
    <3>1. rank(i) \in Int
      BY <2>1
    <3> HIDE DEF a, rank
    <3> QED
      BY <1>3, <2>2, <3>1
  <2> HIDE DEF rank
  <2> QED
    BY <2>1, <2>3
<1>7. ASSUME NEW k \in 1..n, NEW l \in 1..n, k < l PROVE Ascending(S)[k] < Ascending(S)[l]
  <2> DEFINE a == Ascending(S)[k]
             b == Ascending(S)[l]
  <2>1. a \in S /\ rank(a) = k /\ b \in S /\ rank(b) = l
    BY <1>5
  <2>2. k \in Int /\ l \in Int
    OBVIOUS
  <2> HIDE DEF a, b, rank
  <2>3. ~(b < a) /\ b # a
    BY <1>3, <1>7, <2>1, <2>2
  <2>4. a < b
    BY <2>1, <2>3
  <2> QED
    BY <2>4 DEF a, b
<1>8. Ascending(S) \in [1..n -> S]
  <2> DEFINE e(k) == CHOOSE i \in S : Cardinality({j \in S : j <= i}) = k
  <2>1. Ascending(S) = [k \in 1..n |-> e(k)]
    BY DEF Ascending
  <2>2. ASSUME NEW k \in 1..n PROVE e(k) \in S
    BY <1>4
  <2> HIDE DEF n, e
  <2> QED
    BY <2>1, <2>2
<1> QED
  BY <1>1, <1>6, <1>7, <1>8

\* Hence a finite set of numbers has a least one.
LEMMA Least ==
  ASSUME NEW S \in SUBSET Int, IsFiniteSet(S), S # {}
  PROVE  \E m \in S : \A i \in S : m <= i
<1> DEFINE n == Cardinality(S)
<1>1. n \in Nat /\ n # 0
  BY FS_CardinalityType, FS_EmptySet
<1>2. /\ Ascending(S) \in [1..n -> S]
      /\ \A i \in S : \E k \in 1..n : Ascending(S)[k] = i
      /\ \A k, l \in 1..n : k < l => Ascending(S)[k] < Ascending(S)[l]
  BY AscendingIs
<1> HIDE DEF n
<1> DEFINE m == Ascending(S)[1]
<1>3. m \in S
  BY <1>1, <1>2
<1>4. ASSUME NEW i \in S PROVE m <= i
  <2>1. PICK k \in 1..n : Ascending(S)[k] = i
    BY <1>2
  <2>2. k = 1 \/ (1 < k /\ 1 \in 1..n)
    BY <1>1
  <2>3. m = i \/ m < i
    BY <1>2, <2>1, <2>2
  <2> HIDE DEF m
  <2> QED
    BY <1>3, <2>3
<1> HIDE DEF m
<1> QED
  BY <1>3, <1>4

-----------------------------------------------------------------------------
(* The crawl *)

\* What the loop has of a page it may still take.
Queued  == {queue[i] : i \in DOMAIN queue}
Pages   == {c[1] : c \in crawled}
LinksTo(c, u) == \E i \in DOMAIN site[c[1]] : site[c[1]][i] = u
NextTo(c, u)  == HostOf[c[1]] = HostOf[u] /\ LinksTo(c, u)
FoundAbove(u, d) == \E p \in crawled : p[3] /\ p[2] + 1 = d /\ NextTo(p, u)

\* The queue is in the order of depth, spans two depths, and is not behind what
\* was read; and what it holds was found on a page one level up.
InOrder ==
  /\ \A i, j \in DOMAIN queue : i < j => queue[i][2] <= queue[j][2]
  /\ \A i, j \in DOMAIN queue : queue[j][2] <= queue[i][2] + 1
  /\ \A c \in crawled : \A i \in DOMAIN queue : c[2] <= queue[i][2]
  /\ \A i \in DOMAIN queue :
       queue[i][2] > 0 => FoundAbove(queue[i][1], queue[i][2])

\* What was read: each page once, in scope, found one level up and never on a
\* page further up; a link that is followed was seen to or waits one level down.
Read ==
  /\ \A c \in crawled : c[1] \in visited \intersect CrawlScope
  /\ \A c, e \in crawled : c[1] = e[1] => c = e
  /\ \A c \in crawled : c[2] > 0 => FoundAbove(c[1], c[2])
  /\ \A c, e \in crawled : c[3] /\ NextTo(c, e[1]) => e[2] <= c[2] + 1
  /\ \A c \in crawled : c[3] /\ c[2] < MaxDepth =>
       \A u \in CrawlScope : NextTo(c, u) => u \in visited \/ <<u, c[2] + 1>> \in Queued

\* The limits, and why a URL that was taken was not read.
Bounded ==
  /\ IsFiniteSet(crawled) /\ Cardinality(crawled) <= MaxPages
  /\ \A h : PagesOf(h) <= MaxPagesPerHost
  /\ \A u \in visited : \/ u \in Pages \union failed \/ HostOf[u] \in rooted
                        \/ PagesOf(HostOf[u]) >= MaxPagesPerHost

CrawlInv ==
  /\ CrawlTypeOK /\ InOrder /\ Read /\ Bounded
  /\ cstate = "new" => crawled = {} /\ visited = {}
  /\ cstate = "done" => queue = <<>> \/ Cardinality(crawled) >= MaxPages

\* The first of a queue, and what is left of it.
LEMMA HeadAndTail ==
  ASSUME NEW T, NEW q \in Seq(T), q # <<>>
  PROVE  /\ Head(q) = q[1] /\ Head(q) \in T /\ 1 \in DOMAIN q
         /\ Tail(q) \in Seq(T) /\ DOMAIN Tail(q) = 1..(Len(q) - 1) /\ DOMAIN q = 1..Len(q)
         /\ \A i \in DOMAIN Tail(q) : Tail(q)[i] = q[i + 1] /\ i + 1 \in DOMAIN q
         /\ \A i \in DOMAIN q : i = 1 \/ (i - 1 \in DOMAIN Tail(q) /\ Tail(q)[i - 1] = q[i])
OBVIOUS

\* The links that are queued: of this page and host, in scope, not seen before,
\* all of them, one level down and within the limit.
LEMMA FollowIs ==
  ASSUME CrawlTypeOK, NEW u \in Urls, NEW d \in 0..MaxDepth
  PROVE  /\ Follow(u, d) \in Seq(Urls \X (0..MaxDepth))
         /\ \A k \in DOMAIN Follow(u, d) :
              \E i \in Followed(u) : Follow(u, d)[k] = <<site[u][i], d + 1>>
         /\ d < MaxDepth => \A i \in Followed(u) :
              \E k \in DOMAIN Follow(u, d) : Follow(u, d)[k] = <<site[u][i], d + 1>>
<1> DEFINE S == IF d < MaxDepth THEN Followed(u) ELSE {}
           n == Cardinality(S)
           kept == Ascending(S)
<1>1. site[u] \in Seq(Urls)
  BY CrawlAssumption DEF CrawlTypeOK, CrawlAssumption
<1>2. Followed(u) \in SUBSET (1..Len(site[u])) /\ \A i \in Followed(u) : site[u][i] \in Urls
  BY <1>1 DEF Followed
<1>3. S \in SUBSET Int /\ IsFiniteSet(S)
  <2>1. S \in SUBSET (1..Len(site[u])) /\ Len(site[u]) \in Nat
    BY <1>1, <1>2
  <2>2. IsFiniteSet(1..Len(site[u]))
    BY <2>1, FS_Interval
  <2>3. IsFiniteSet(S)
    BY <2>1, <2>2, FS_Subset
  <2> QED
    BY <2>1, <2>3
<1>4. /\ n \in Nat /\ kept \in [1..n -> S]
      /\ \A i \in S : \E k \in 1..n : kept[k] = i
  <2> HIDE DEF S
  <2> QED
    BY <1>3, AscendingIs
<1>5. Follow(u, d) = [k \in 1..n |-> <<site[u][kept[k]], d + 1>>]
  <2>1. Follow(u, d) = [k \in DOMAIN kept |-> <<site[u][kept[k]], d + 1>>]
    BY DEF Follow
  <2> HIDE DEF kept, n
  <2> QED
    BY <1>4, <2>1
<1>6. ASSUME NEW k \in 1..n
      PROVE  /\ kept[k] \in Followed(u) /\ d < MaxDepth
             /\ <<site[u][kept[k]], d + 1>> \in Urls \X (0..MaxDepth)
  <2>1. kept[k] \in S
    <3> HIDE DEF S, kept, n
    <3> QED
      BY <1>4
  <2>2. kept[k] \in Followed(u) /\ d < MaxDepth
    <3> HIDE DEF kept, n
    <3> QED
      BY <2>1
  <2>3. d + 1 \in 0..MaxDepth
    BY <2>2, CrawlAssumption DEF CrawlAssumption
  <2> HIDE DEF kept, n
  <2> QED
    BY <1>2, <2>2, <2>3
<1>7. ASSUME d < MaxDepth PROVE S = Followed(u)
  BY <1>7
<1> HIDE DEF S, n, kept
<1>8. Follow(u, d) \in Seq(Urls \X (0..MaxDepth))
  <2>1. [k \in 1..n |-> <<site[u][kept[k]], d + 1>>] \in [1..n -> Urls \X (0..MaxDepth)]
    BY <1>6
  <2> QED
    BY <1>4, <1>5, <2>1
<1>9. \A k \in DOMAIN Follow(u, d) :
        \E i \in Followed(u) : Follow(u, d)[k] = <<site[u][i], d + 1>>
  BY <1>5, <1>6
<1>10. ASSUME d < MaxDepth, NEW i \in Followed(u)
       PROVE  \E k \in DOMAIN Follow(u, d) : Follow(u, d)[k] = <<site[u][i], d + 1>>
  <2>1. PICK k \in 1..n : kept[k] = i
    BY <1>4, <1>7, <1>10
  <2> QED
    BY <1>5, <2>1
<1> QED
  BY <1>8, <1>9, <1>10

\* A web is not known before it is walked, and nothing is read.
LEMMA CrawlStarts == CrawlInit => CrawlInv
<1> SUFFICES ASSUME CrawlInit PROVE CrawlInv
  OBVIOUS
<1>1. CrawlTypeOK
  BY DEF CrawlInit, CrawlTypeOK
<1>2. InOrder /\ Read
  BY DEF CrawlInit, InOrder, Read
<1>3. Bounded
  <2>1. \A h : {c \in crawled : HostOf[c[1]] = h} = {}
    BY DEF CrawlInit
  <2>2. \A h : PagesOf(h) = 0
    BY <2>1, FS_EmptySet DEF PagesOf
  <2> QED
    BY <2>2, FS_EmptySet, CrawlAssumption DEF CrawlInit, Bounded, CrawlAssumption
<1> QED
  BY <1>1, <1>2, <1>3 DEF CrawlInit, CrawlInv

\* Nothing new is read.
LEMMA SameRead ==
  ASSUME site' = site, crawled' = crawled
  PROVE  /\ Pages' = Pages /\ \A h : PagesOf(h)' = PagesOf(h)
         /\ \A u, d : FoundAbove(u, d)' <=> FoundAbove(u, d)
         /\ \A c, u : NextTo(c, u)' <=> NextTo(c, u)
BY DEF Pages, PagesOf, FoundAbove, NextTo, LinksTo

\* The seeds, all at depth 0.
LEMMA StartKeeps == ASSUME CrawlInv, CrawlStart PROVE CrawlInv'
<1> USE DEF CrawlInv
<1>1. PICK s \in Seeds : queue' = [i \in DOMAIN s |-> <<s[i], 0>>]
  BY DEF CrawlStart
<1>2. s \in Seq(Urls)
  BY CrawlAssumption DEF CrawlAssumption
<1>3. queue' \in Seq(Urls \X (0..MaxDepth)) /\ \A i \in DOMAIN queue' : queue'[i][2] = 0
  <2>1. 0 \in 0..MaxDepth
    BY CrawlAssumption DEF CrawlAssumption
  <2>2. s \in [1..Len(s) -> Urls] /\ Len(s) \in Nat
    BY <1>2
  <2>3. queue' \in [1..Len(s) -> Urls \X (0..MaxDepth)]
    BY <1>1, <2>1, <2>2
  <2> QED
    BY <1>1, <2>2, <2>3
<1>4. /\ UNCHANGED <<site, visited, rooted, meta, crawled, failed, linked>>
      /\ crawled = {} /\ visited = {} /\ cstate' = "walking"
  BY DEF CrawlStart
<1>5. CrawlTypeOK'
  BY <1>3, <1>4 DEF CrawlTypeOK
<1>6. InOrder' /\ Read'
  BY <1>3, <1>4 DEF InOrder, Read
<1>7. Bounded'
  BY <1>4 DEF Bounded, PagesOf, Pages
<1> QED
  BY <1>4, <1>5, <1>6, <1>7

\* The walk ends, or is stopped.
LEMMA EndKeeps == ASSUME CrawlInv, CrawlDone \/ CrawlStop PROVE CrawlInv'
<1>1. /\ UNCHANGED <<site, queue, visited, rooted, meta, crawled, failed, linked>>
      /\ cstate' = "stopped" \/ (cstate' = "done" /\ ~Walking /\ cstate = "walking")
  BY DEF CrawlDone, CrawlStop
<1>2. CrawlTypeOK'
  BY <1>1 DEF CrawlInv, CrawlTypeOK
<1>3. InOrder' /\ Read' /\ Bounded'
  <2>1. Queued' = Queued
    BY <1>1 DEF Queued
  <2> QED
    BY <1>1, <2>1, SameRead DEF CrawlInv, InOrder, Read, Bounded
<1>4. cstate' = "done" => queue = <<>> \/ Cardinality(crawled) >= MaxPages
  <2>1. Cardinality(crawled) \in Nat
    BY FS_CardinalityType DEF CrawlInv, Bounded
  <2> QED
    BY <1>1, <2>1, CrawlAssumption DEF Walking, CrawlAssumption
<1> QED
  BY <1>1, <1>2, <1>3, <1>4 DEF CrawlInv

\* The next URL and its depth, which no other of the queue is above.
LEMMA TakenIs ==
  ASSUME CrawlInv, Walking
  PROVE  /\ Taken = queue[1] /\ Taken = <<Taken[1], Taken[2]>> /\ 1 \in DOMAIN queue
         /\ Taken[1] \in Urls /\ Taken[2] \in 0..MaxDepth
         /\ \A i \in DOMAIN queue : queue[i] \in Urls \X (0..MaxDepth) /\ Taken[2] <= queue[i][2]
         /\ \A i \in DOMAIN queue :
              queue[i] = Taken \/ queue[i] \in {Tail(queue)[j] : j \in DOMAIN Tail(queue)}
         /\ \A j \in DOMAIN Tail(queue) : j + 1 \in DOMAIN queue /\ Tail(queue)[j] = queue[j + 1]
         /\ DOMAIN Tail(queue) \subseteq Int /\ Tail(queue) \in Seq(Urls \X (0..MaxDepth))
         /\ cstate = "walking"
<1>1. queue \in Seq(Urls \X (0..MaxDepth)) /\ queue # <<>> /\ cstate = "walking"
  BY DEF CrawlInv, CrawlTypeOK, Walking
<1>2. /\ Taken = queue[1] /\ Taken \in Urls \X (0..MaxDepth) /\ 1 \in DOMAIN queue
      /\ Tail(queue) \in Seq(Urls \X (0..MaxDepth)) /\ DOMAIN Tail(queue) = 1..(Len(queue) - 1)
      /\ \A i \in DOMAIN Tail(queue) : Tail(queue)[i] = queue[i + 1] /\ i + 1 \in DOMAIN queue
      /\ \A i \in DOMAIN queue :
           i = 1 \/ (i - 1 \in DOMAIN Tail(queue) /\ Tail(queue)[i - 1] = queue[i])
  BY <1>1, HeadAndTail DEF Taken
<1>3. \A i \in DOMAIN queue : queue[i] \in Urls \X (0..MaxDepth) /\ i \in 1..Len(queue)
  BY <1>1
<1>4. ASSUME NEW i \in DOMAIN queue PROVE queue[1][2] <= queue[i][2]
  <2>1. i = 1 \/ 1 < i
    BY <1>3
  <2>2. CASE i = 1
    <3>1. queue[1][2] \in 0..MaxDepth
      BY <1>2
    <3> QED
      BY <2>2, <3>1
  <2>3. CASE 1 < i
    BY <1>2, <2>3 DEF CrawlInv, InOrder
  <2> QED
    BY <2>1, <2>2, <2>3
<1>5. ASSUME NEW i \in DOMAIN queue
      PROVE  queue[i] = Taken \/ queue[i] \in {Tail(queue)[j] : j \in DOMAIN Tail(queue)}
  <2>1. i = 1 \/ (i - 1 \in DOMAIN Tail(queue) /\ Tail(queue)[i - 1] = queue[i])
    BY <1>2
  <2> QED
    BY <1>2, <2>1
<1>6. Taken = <<Taken[1], Taken[2]>> /\ Taken[1] \in Urls /\ Taken[2] \in 0..MaxDepth
  BY <1>2
<1>7. DOMAIN Tail(queue) \subseteq Int
  BY <1>1, <1>2
<1> QED
  BY <1>1, <1>2, <1>3, <1>4, <1>5, <1>6, <1>7

\* A URL that is passed over or fails: it is off the queue and counts as
\* visited, and nothing is read.
LEMMA SkipKeeps ==
  ASSUME CrawlInv, Walking, queue' = Tail(queue), visited' = visited \union {Taken[1]},
         UNCHANGED <<site, rooted, meta, crawled, cstate>>,
         failed \subseteq failed',
         \/ Taken[1] \in visited \union failed' \/ HostOf[Taken[1]] \in rooted
         \/ PagesOf(HostOf[Taken[1]]) >= MaxPagesPerHost
  PROVE  CrawlInv'
<1>1. CrawlTypeOK'
  BY TakenIs DEF CrawlInv, CrawlTypeOK
<1>2. InOrder'
  <2>1. \A j \in DOMAIN queue' : j \in Int /\ j + 1 \in DOMAIN queue /\ queue'[j] = queue[j + 1]
    BY TakenIs
  <2>2. \A i, j \in DOMAIN queue' : i < j => queue'[i][2] <= queue'[j][2]
    <3>1. ASSUME NEW i \in DOMAIN queue', NEW j \in DOMAIN queue', i < j
          PROVE  queue'[i][2] <= queue'[j][2]
      <4>1. i + 1 < j + 1
        BY <2>1, <3>1
      <4> QED
        BY <2>1, <4>1 DEF CrawlInv, InOrder
    <3> QED
      BY <3>1
  <2> QED
    BY <2>1, <2>2, SameRead DEF CrawlInv, InOrder
<1>3. Read'
  <2>1. \A x : x \in Queued => x \in Queued' \/ x = Taken
    BY TakenIs DEF Queued
  <2>2. \A u, d : <<u, d>> = Taken => u = Taken[1]
    BY TakenIs
  <2>3. \A u, d : <<u, d>> \in Queued => <<u, d>> \in Queued' \/ u \in visited'
    BY <2>1, <2>2
  <2> QED
    BY <2>3, SameRead DEF CrawlInv, Read
<1>4. Bounded'
  <2>1. \A u \in visited : \/ u \in Pages \union failed \/ HostOf[u] \in rooted
                           \/ PagesOf(HostOf[u]) >= MaxPagesPerHost
    BY DEF CrawlInv, Bounded
  <2>2. ASSUME NEW u \in visited'
        PROVE  \/ u \in Pages' \union failed' \/ HostOf[u] \in rooted
               \/ PagesOf(HostOf[u])' >= MaxPagesPerHost
    BY <2>1, SameRead
  <2> QED
    BY <2>2, SameRead DEF CrawlInv, Bounded
<1> QED
  BY <1>1, <1>2, <1>3, <1>4, TakenIs DEF CrawlInv

\* What is on the queue after a page: the rest of it, then the links to follow.
LEMMA QueueAfterPage ==
  ASSUME CrawlInv, NEW html \in BOOLEAN, CrawlPage(html)
  PROVE  /\ queue' \in Seq(Urls \X (0..MaxDepth)) /\ DOMAIN queue' \subseteq Int
         /\ \A k \in DOMAIN queue' :
              \/ /\ k \in DOMAIN Tail(queue) /\ k + 1 \in DOMAIN queue
                 /\ queue'[k] = queue[k + 1]
              \/ /\ \A j \in DOMAIN Tail(queue) : j < k
                 /\ html
                 /\ \E i \in Followed(Taken[1]) : queue'[k] = <<site[Taken[1]][i], Taken[2] + 1>>
         /\ \A q \in Queued : q = Taken \/ q \in Queued'
         /\ html /\ Taken[2] < MaxDepth =>
              \A i \in Followed(Taken[1]) : <<site[Taken[1]][i], Taken[2] + 1>> \in Queued'
<1> DEFINE T == Urls \X (0..MaxDepth)
           u == Taken[1]
           d == Taken[2]
           rest == Tail(queue)
           links == IF html THEN Follow(u, d) ELSE <<>>
<1>1. Walking
  BY DEF CrawlPage
<1>2. /\ Taken = queue[1] /\ u \in Urls /\ d \in 0..MaxDepth
      /\ \A i \in DOMAIN queue : queue[i] = Taken \/ queue[i] \in {rest[j] : j \in DOMAIN rest}
      /\ \A j \in DOMAIN rest : j + 1 \in DOMAIN queue /\ rest[j] = queue[j + 1]
      /\ rest \in Seq(T)
  BY <1>1, TakenIs
<1>3. /\ Follow(u, d) \in Seq(T)
      /\ \A k \in DOMAIN Follow(u, d) :
           \E i \in Followed(u) : Follow(u, d)[k] = <<site[u][i], d + 1>>
      /\ d < MaxDepth => \A i \in Followed(u) :
           \E k \in DOMAIN Follow(u, d) : Follow(u, d)[k] = <<site[u][i], d + 1>>
  <2> HIDE DEF u, d
  <2> QED
    BY <1>2, FollowIs DEF CrawlInv
<1>4. queue' = rest \o links
  <2>1. queue' = IF html THEN rest \o Follow(u, d) ELSE rest
    BY DEF CrawlPage, Enqueued
  <2> HIDE DEF rest, u, d
  <2>2. rest \o <<>> = rest
    BY <1>2
  <2> QED
    BY <2>1, <2>2
<1>5. /\ links \in Seq(T)
      /\ \A k \in DOMAIN links :
           html /\ \E i \in Followed(u) : links[k] = <<site[u][i], d + 1>>
      /\ html /\ d < MaxDepth => \A i \in Followed(u) :
           \E k \in DOMAIN links : links[k] = <<site[u][i], d + 1>>
  <2> HIDE DEF u, d
  <2>1. CASE html
    BY <1>3, <2>1
  <2>2. CASE ~html
    <3>1. links = <<>>
      BY <2>2
    <3> HIDE DEF links
    <3> QED
      BY <2>2, <3>1
  <2> QED
    BY <2>1, <2>2
<1> HIDE DEF T, u, d, rest, links
<1>6. /\ queue' \in Seq(T) /\ DOMAIN queue' = 1..(Len(rest) + Len(links))
      /\ Len(rest) \in Nat /\ Len(links) \in Nat
      /\ DOMAIN rest = 1..Len(rest) /\ DOMAIN links = 1..Len(links)
      /\ \A k \in DOMAIN queue' :
           queue'[k] = IF k <= Len(rest) THEN rest[k] ELSE links[k - Len(rest)]
  BY <1>2, <1>4, <1>5
<1>7. ASSUME NEW k \in DOMAIN queue'
      PROVE  \/ k \in DOMAIN rest /\ k + 1 \in DOMAIN queue /\ queue'[k] = queue[k + 1]
             \/ /\ \A j \in DOMAIN rest : j < k
                /\ html /\ \E i \in Followed(u) : queue'[k] = <<site[u][i], d + 1>>
  <2>1. CASE k <= Len(rest)
    BY <1>2, <1>6, <2>1
  <2>2. CASE ~(k <= Len(rest))
    <3>1. k - Len(rest) \in DOMAIN links /\ queue'[k] = links[k - Len(rest)]
      BY <1>6, <2>2
    <3>2. \A j \in DOMAIN rest : j < k
      BY <1>6, <2>2
    <3> QED
      BY <1>5, <3>1, <3>2
  <2> QED
    BY <2>1, <2>2
<1>8. ASSUME NEW j \in DOMAIN rest PROVE rest[j] \in Queued'
  BY <1>6 DEF Queued
<1>9. ASSUME NEW k \in DOMAIN links PROVE links[k] \in Queued'
  <2>1. k + Len(rest) \in DOMAIN queue' /\ queue'[k + Len(rest)] = links[k]
    BY <1>6
  <2> QED
    BY <2>1 DEF Queued
<1>10. ASSUME NEW q \in Queued PROVE q = Taken \/ q \in Queued'
  BY <1>2, <1>8 DEF Queued
<1>11. ASSUME html, d < MaxDepth, NEW i \in Followed(u) PROVE <<site[u][i], d + 1>> \in Queued'
  <2>1. PICK k \in DOMAIN links : links[k] = <<site[u][i], d + 1>>
    BY <1>5, <1>11
  <2> QED
    BY <1>9, <2>1
<1>12. DOMAIN queue' \subseteq Int
  BY <1>6
<1> QED
  BY <1>6, <1>7, <1>10, <1>11, <1>12 DEF T, u, d, rest

\* A page is read.
LEMMA PageIsReadKeeps == ASSUME CrawlInv, NEW html \in BOOLEAN, CrawlPage(html) PROVE CrawlInv'
<1>0. PICK u, d : Taken[1] = u /\ Taken[2] = d
  OBVIOUS
<1> DEFINE x == <<u, d, html>>
<1>1. /\ Walking /\ u \notin visited /\ u \in CrawlScope /\ ~(PagesOf(HostOf[u]) >= MaxPagesPerHost)
      /\ visited' = visited \union {u} /\ crawled' = crawled \union {x}
      /\ rooted \subseteq rooted' /\ rooted' \subseteq rooted \union {HostOf[u]}
      /\ meta' = meta \union {HostOf[u]}
      /\ UNCHANGED <<site, failed, cstate>> /\ Cardinality(crawled) < MaxPages
  BY <1>0 DEF CrawlPage, PassedOver, Walking
<1>2. /\ Taken = queue[1] /\ Taken = <<u, d>> /\ 1 \in DOMAIN queue
      /\ queue[1][1] = u /\ queue[1][2] = d
      /\ u \in Urls /\ d \in 0..MaxDepth /\ cstate = "walking"
      /\ \A i \in DOMAIN queue : queue[i] \in Urls \X (0..MaxDepth) /\ d <= queue[i][2]
  BY <1>0, <1>1, TakenIs
<1>3. /\ queue' \in Seq(Urls \X (0..MaxDepth)) /\ DOMAIN queue' \subseteq Int
      /\ \A k \in DOMAIN queue' :
           \/ k \in DOMAIN Tail(queue) /\ k + 1 \in DOMAIN queue /\ queue'[k] = queue[k + 1]
           \/ /\ \A j \in DOMAIN Tail(queue) : j < k
              /\ html /\ \E i \in Followed(u) : queue'[k] = <<site[u][i], d + 1>>
      /\ \A q \in Queued : q = Taken \/ q \in Queued'
      /\ html /\ d < MaxDepth => \A i \in Followed(u) : <<site[u][i], d + 1>> \in Queued'
  BY <1>0, QueueAfterPage
<1>4. x[1] = u /\ x[2] = d /\ x[3] = html
  OBVIOUS
<1>5. \A c \in crawled : c \in Urls \X (0..MaxDepth) \X BOOLEAN /\ c[2] <= d /\ c[2] \in 0..MaxDepth
  BY <1>2 DEF CrawlInv, CrawlTypeOK, InOrder
<1>6. CrawlTypeOK'
  <2>1. x \in Urls \X (0..MaxDepth) \X BOOLEAN
    BY <1>2
  <2> HIDE DEF x
  <2> QED
    BY <1>1, <1>2, <1>3, <2>1 DEF CrawlInv, CrawlTypeOK
<1> HIDE DEF x
<1>7. /\ \A c, v : NextTo(c, v)' <=> NextTo(c, v)
      /\ \A v, e : FoundAbove(v, e) => FoundAbove(v, e)'
      /\ \A v : html /\ NextTo(x, v) => FoundAbove(v, d + 1)'
      /\ \A v : NextTo(x, v) <=>
           HostOf[u] = HostOf[v] /\ \E i \in DOMAIN site[u] : site[u][i] = v
  <2>1. \A c, v : NextTo(c, v)' <=> NextTo(c, v)
    BY <1>1 DEF NextTo, LinksTo
  <2>2. ASSUME NEW v, NEW e PROVE FoundAbove(v, e)' <=>
                 \E p \in crawled' : p[3] /\ p[2] + 1 = e /\ NextTo(p, v)
    BY <2>1 DEF FoundAbove
  <2>4. \A v, e : FoundAbove(v, e) => FoundAbove(v, e)'
    BY <1>1, <2>2 DEF FoundAbove
  <2>5. \A v : html /\ NextTo(x, v) => FoundAbove(v, d + 1)'
    <3> SUFFICES ASSUME NEW v, html, NextTo(x, v) PROVE FoundAbove(v, d + 1)'
      OBVIOUS
    <3>1. x \in crawled'
      BY <1>1
    <3> QED
      BY <1>4, <2>2, <3>1
  <2>3. \A v : NextTo(x, v) <=>
          HostOf[u] = HostOf[v] /\ \E i \in DOMAIN site[u] : site[u][i] = v
    BY <1>4 DEF NextTo, LinksTo
  <2> QED
    BY <2>1, <2>3, <2>4, <2>5
<1>8. InOrder'
  <2>1. ASSUME NEW k \in DOMAIN queue'
        PROVE  /\ queue'[k][2] \in 0..MaxDepth /\ d <= queue'[k][2] /\ queue'[k][2] <= d + 1
               /\ queue'[k][2] > 0 => FoundAbove(queue[k][1], queue[k][2])'
    <3>1. queue'[k] \in Urls \X (0..MaxDepth)
      BY <1>3
    <3>2. CASE k + 1 \in DOMAIN queue /\ queue'[k] = queue[k + 1]
      <4>1. d <= queue[k + 1][2] /\ queue[k + 1][2] <= d + 1
        BY <1>2, <3>2 DEF CrawlInv, InOrder
      <4>2. queue[k + 1][2] > 0 => FoundAbove(queue[k + 1][1], queue[k + 1][2])
        BY <3>2 DEF CrawlInv, InOrder
      <4> QED
        BY <1>7, <3>1, <3>2, <4>1, <4>2
    <3>3. CASE html /\ \E i \in Followed(u) : queue'[k] = <<site[u][i], d + 1>>
      <4>1. PICK i \in Followed(u) : queue'[k] = <<site[u][i], d + 1>>
        BY <3>3
      <4>2. queue'[k][2] = d + 1 /\ queue'[k][1] = site[u][i]
        BY <4>1
      <4>3. NextTo(x, site[u][i])
        BY <1>7 DEF Followed
      <4>4. d <= d + 1
        BY <1>2
      <4> QED
        BY <1>2, <1>7, <3>1, <3>3, <4>2, <4>3, <4>4
    <3> QED
      BY <1>3, <3>2, <3>3
  <2>2. ASSUME NEW i \in DOMAIN queue', NEW j \in DOMAIN queue', i < j
        PROVE  queue'[i][2] <= queue'[j][2]
    <3>1. CASE i + 1 \in DOMAIN queue /\ j + 1 \in DOMAIN queue /\ queue'[i] = queue[i + 1]
               /\ queue'[j] = queue[j + 1]
      <4>1. i + 1 < j + 1
        BY <1>3, <2>2
      <4> QED
        BY <3>1, <4>1 DEF CrawlInv, InOrder
    <3>2. CASE \E l \in Followed(u) : queue'[j] = <<site[u][l], d + 1>>
      <4>1. queue'[j][2] = d + 1
        BY <3>2
      <4> QED
        BY <2>1, <4>1
    <3>3. CASE j \in DOMAIN Tail(queue) /\ \A l \in DOMAIN Tail(queue) : l < i
      <4>1. j < i
        BY <3>3
      <4>2. i \in Int /\ j \in Int
        BY <1>3
      <4> QED
        BY <2>2, <4>1, <4>2
    <3> QED
      BY <1>3, <3>1, <3>2, <3>3
  <2>3. ASSUME NEW i \in DOMAIN queue', NEW j \in DOMAIN queue'
        PROVE  queue'[j][2] <= queue'[i][2] + 1
    BY <1>2, <2>1
  <2>4. ASSUME NEW c \in crawled', NEW i \in DOMAIN queue' PROVE c[2] <= queue'[i][2]
    <3>1. c[2] \in 0..MaxDepth /\ c[2] <= d
      BY <1>1, <1>2, <1>4, <1>5
    <3> QED
      BY <1>2, <2>1, <3>1
  <2> QED
    BY <1>7, <2>1, <2>2, <2>3, <2>4 DEF InOrder
<1>9. Read'
  <2>1. \A c \in crawled' : c[1] \in visited' \intersect CrawlScope
    BY <1>1, <1>4 DEF CrawlInv, Read
  <2>2. \A c, e \in crawled' : c[1] = e[1] => c = e
    <3>1. \A c \in crawled : c[1] # u
      BY <1>1 DEF CrawlInv, Read
    <3> QED
      BY <1>1, <1>4, <3>1 DEF CrawlInv, Read
  <2>3. \A c \in crawled' : c[2] > 0 => FoundAbove(c[1], c[2])'
    <3>1. d > 0 => FoundAbove(u, d)
      BY <1>2 DEF CrawlInv, InOrder
    <3>2. \A c \in crawled : c[2] > 0 => FoundAbove(c[1], c[2])
      BY DEF CrawlInv, Read
    <3> QED
      BY <1>1, <1>4, <1>7, <3>1, <3>2
  <2>4. ASSUME NEW c \in crawled', NEW e \in crawled', c[3], NextTo(c, e[1]) PROVE e[2] <= c[2] + 1
    <3>1. CASE c \in crawled /\ e \in crawled
      BY <2>4, <3>1 DEF CrawlInv, Read
    <3>2. CASE c = x
      <4>1. e[2] <= d /\ e[2] \in 0..MaxDepth
        BY <1>1, <1>2, <1>4, <1>5
      <4> QED
        BY <1>2, <1>4, <3>2, <4>1
    <3>3. CASE c \in crawled /\ e = x
      <4>1. CASE c[2] < MaxDepth
        <5>1. u \in visited \/ <<u, c[2] + 1>> \in Queued
          BY <1>1, <1>4, <2>4, <3>3, <4>1 DEF CrawlInv, Read
        <5>2. PICK i \in DOMAIN queue : queue[i] = <<u, c[2] + 1>>
          BY <1>1, <5>1 DEF Queued
        <5>3. queue[i][2] = c[2] + 1
          BY <5>2
        <5> QED
          BY <1>2, <1>4, <3>3, <5>3
      <4>2. CASE ~(c[2] < MaxDepth)
        <5>1. c[2] \in 0..MaxDepth /\ MaxDepth \in Nat
          BY <1>5, <3>3, CrawlAssumption DEF CrawlAssumption
        <5> QED
          BY <1>2, <1>4, <3>3, <4>2, <5>1
      <4> QED
        BY <4>1, <4>2
    <3> QED
      BY <1>1, <3>1, <3>2, <3>3
  <2>5. ASSUME NEW c \in crawled', c[3], c[2] < MaxDepth, NEW v \in CrawlScope, NextTo(c, v)
        PROVE  v \in visited' \/ <<v, c[2] + 1>> \in Queued'
    <3>1. CASE c \in crawled
      <4>1. v \in visited \/ <<v, c[2] + 1>> \in Queued
        BY <2>5, <3>1 DEF CrawlInv, Read
      <4>2. <<v, c[2] + 1>> = Taken => v = u
        BY <1>2
      <4> QED
        BY <1>1, <1>3, <4>1, <4>2
    <3>2. CASE c = x
      <4>1. html /\ d < MaxDepth /\ NextTo(x, v)
        BY <1>4, <2>5, <3>2
      <4>2. PICK i \in DOMAIN site[u] : site[u][i] = v /\ HostOf[u] = HostOf[v]
        BY <1>7, <4>1
      <4>3. CASE v \in visited'
        BY <4>3
      <4>4. CASE v \notin visited'
        <5>1. i \in Followed(u)
          BY <1>1, <2>5, <4>2, <4>4 DEF Followed
        <5>2. <<site[u][i], d + 1>> \in Queued'
          BY <1>3, <4>1, <5>1
        <5> QED
          BY <1>4, <3>2, <4>2, <5>2
      <4> QED
        BY <4>3, <4>4
    <3> QED
      BY <1>1, <3>1, <3>2
  <2> QED
    BY <1>7, <2>1, <2>2, <2>3, <2>4, <2>5 DEF Read
<1>10. Bounded'
  <2>1. x \notin crawled
    BY <1>1, <1>4 DEF CrawlInv, Read
  <2>2. IsFiniteSet(crawled) /\ Cardinality(crawled) \in Nat
    BY FS_CardinalityType DEF CrawlInv, Bounded
  <2>3. IsFiniteSet(crawled') /\ Cardinality(crawled') <= MaxPages
    <3>1. IsFiniteSet(crawled') /\ Cardinality(crawled') = Cardinality(crawled) + 1
      BY <1>1, <2>1, <2>2, FS_AddElement
    <3> QED
      BY <1>1, <2>2, <3>1, CrawlAssumption DEF CrawlAssumption
  <2>4. ASSUME NEW h
        PROVE  /\ PagesOf(h) \in Nat
               /\ PagesOf(h)' = IF HostOf[u] = h THEN PagesOf(h) + 1 ELSE PagesOf(h)
    <3> DEFINE of == {c \in crawled : HostOf[c[1]] = h}
               new == {c \in crawled' : HostOf[c[1]] = h}
    <3>1. IsFiniteSet(of) /\ Cardinality(of) \in Nat
      <4>1. of \in SUBSET crawled
        OBVIOUS
      <4> HIDE DEF of
      <4> QED
        BY <2>2, <4>1, FS_Subset, FS_CardinalityType
    <3>2. new = IF HostOf[u] = h THEN of \union {x} ELSE of
      BY <1>1, <1>4
    <3>3. x \notin of
      BY <2>1
    <3>4. PagesOf(h) = Cardinality(of) /\ PagesOf(h)' = Cardinality(new)
      BY DEF PagesOf
    <3> HIDE DEF of, new
    <3>5. Cardinality(of \union {x}) = Cardinality(of) + 1
      BY <3>1, <3>3, FS_AddElement
    <3> QED
      BY <3>1, <3>2, <3>4, <3>5
  <2>5. ASSUME NEW h PROVE PagesOf(h)' <= MaxPagesPerHost
    <3>1. PagesOf(h) <= MaxPagesPerHost /\ MaxPagesPerHost \in Nat
      BY CrawlAssumption DEF CrawlInv, Bounded, CrawlAssumption
    <3> QED
      BY <1>1, <2>4, <3>1
  <2>6. ASSUME NEW v \in visited'
        PROVE  \/ v \in Pages' \union failed' \/ HostOf[v] \in rooted'
               \/ PagesOf(HostOf[v])' >= MaxPagesPerHost
    <3>1. Pages \subseteq Pages' /\ u \in Pages'
      BY <1>1, <1>4 DEF Pages
    <3>2. CASE v = u
      BY <3>1, <3>2
    <3>3. CASE v \in visited
      <4>1. \/ v \in Pages \union failed \/ HostOf[v] \in rooted
            \/ PagesOf(HostOf[v]) >= MaxPagesPerHost
        BY <3>3 DEF CrawlInv, Bounded
      <4>2. MaxPagesPerHost \in Nat
        BY CrawlAssumption DEF CrawlAssumption
      <4>3. PagesOf(HostOf[v])' >= PagesOf(HostOf[v]) /\ PagesOf(HostOf[v]) \in Nat
            /\ PagesOf(HostOf[v])' \in Nat
        BY <2>4
      <4> QED
        BY <1>1, <3>1, <4>1, <4>2, <4>3
    <3> QED
      BY <1>1, <3>2, <3>3
  <2> QED
    BY <2>3, <2>5, <2>6 DEF Bounded
<1> QED
  BY <1>1, <1>2, <1>6, <1>8, <1>9, <1>10 DEF CrawlInv

LEMMA CrawlAlways == CrawlSpec => []CrawlInv
<1>1. ASSUME CrawlInv, [CrawlNext]_crawlVars PROVE CrawlInv'
  <2>1. CASE CrawlStart
    BY <1>1, <2>1, StartKeeps
  <2>2. CASE CrawlPass
    BY <1>1, <2>2, SkipKeeps DEF CrawlPass, PassedOver
  <2>3. CASE CrawlFails
    <3>1. Taken[1] \in failed' /\ failed \subseteq failed'
      BY <2>3 DEF CrawlFails
    <3> QED
      BY <1>1, <2>3, <3>1, SkipKeeps DEF CrawlFails
  <2>4. CASE CrawlDone \/ CrawlStop
    BY <1>1, <2>4, EndKeeps
  <2>5. ASSUME NEW b \in BOOLEAN, CrawlPage(b) PROVE CrawlInv'
    BY <1>1, <2>5, PageIsReadKeeps
  <2>6. CASE UNCHANGED crawlVars
    <3>1. CrawlTypeOK'
      BY <1>1, <2>6 DEF CrawlInv, CrawlTypeOK, crawlVars
    <3>2. InOrder' /\ Read' /\ Bounded'
      <4>1. Queued' = Queued
        BY <2>6 DEF Queued, crawlVars
      <4> QED
        BY <1>1, <2>6, <4>1, SameRead DEF CrawlInv, InOrder, Read, Bounded, crawlVars
    <3> QED
      BY <1>1, <2>6, <3>1, <3>2 DEF CrawlInv, crawlVars
  <2>7. \/ CrawlStart \/ CrawlPass \/ CrawlFails \/ (CrawlDone \/ CrawlStop)
        \/ (\E b \in BOOLEAN : CrawlPage(b)) \/ UNCHANGED crawlVars
    BY <1>1, Zenon DEF CrawlNext
  <2> QED
    BY <2>1, <2>2, <2>3, <2>4, <2>5, <2>6, <2>7
<1> QED
  BY <1>1, CrawlStarts, PTL DEF CrawlSpec

\* Whatever the web, the queue holds pages of it with a depth the limit allows,
\* and what was read and what failed are pages of it.
THEOREM CrawlTypes == CrawlSpec => []CrawlTypeOK
<1>1. CrawlInv => CrawlTypeOK
  BY DEF CrawlInv
<1> QED
  BY <1>1, CrawlAlways, PTL

\* For every web, order of the seeds and set of failures: the walk is
\* breadth-first, keeps its limits, and when it ends by itself below them it has
\* followed up every link it had to.
THEOREM CrawlCoversAll == CrawlSpec => []CrawlCovers
<1>1. CrawlInv => CrawlCovers
  <2> SUFFICES ASSUME CrawlInv PROVE CrawlCovers
    OBVIOUS
  <2>1. /\ crawled \subseteq Urls \X (0..MaxDepth) \X BOOLEAN
        /\ \A c \in crawled : c[2] \in Nat
    <3>1. crawled \subseteq Urls \X (0..MaxDepth) \X BOOLEAN
      BY DEF CrawlInv, CrawlTypeOK
    <3>2. \A n \in 0..MaxDepth : n \in Nat
      BY CrawlAssumption DEF CrawlAssumption
    <3> QED
      BY <3>1, <3>2
  <2>2. \A c, e \in crawled : c[1] = e[1] => c = e
    BY DEF CrawlInv, Read
  <2>3. ASSUME NEW c \in crawled, c[2] > 0
        PROVE  /\ \E p \in {e \in crawled : e[3] /\ e[2] = c[2] - 1} : NextTo(p, c[1])
               /\ \A d \in 0..(c[2] - 2) :
                    \A p \in {e \in crawled : e[3] /\ e[2] = d} : ~NextTo(p, c[1])
    <3>1. PICK p \in crawled : p[3] /\ p[2] + 1 = c[2] /\ NextTo(p, c[1])
      BY <2>3 DEF CrawlInv, Read, FoundAbove
    <3>2. p[2] = c[2] - 1
      BY <2>1, <3>1
    <3>3. ASSUME NEW d \in 0..(c[2] - 2), NEW e \in crawled, e[3], e[2] = d PROVE ~NextTo(e, c[1])
      <4>1. ~(c[2] <= e[2] + 1)
        BY <2>1, <3>3
      <4> QED
        BY <3>3, <4>1 DEF CrawlInv, Read
    <3> QED
      BY <3>1, <3>2, <3>3
  <2>4. ASSUME cstate = "done", Cardinality(crawled) < MaxPages, NEW c \in crawled,
               c[3], c[2] < MaxDepth, PagesOf(HostOf[c[1]]) < MaxPagesPerHost,
               NEW u \in CrawlScope, NextTo(c, u)
        PROVE  u \in {e[1] : e \in crawled} \union failed \/ (HostOf[u] \in rooted /\ u \in visited)
    <3>1. Cardinality(crawled) \in Nat /\ MaxPages \in Nat /\ MaxPagesPerHost \in Nat
      BY FS_CardinalityType, CrawlAssumption DEF CrawlInv, Bounded, CrawlAssumption
    <3>2. queue = <<>>
      BY <2>4, <3>1 DEF CrawlInv
    <3>3. \A x : x \notin Queued
      BY <3>2 DEF Queued
    <3>4. u \in visited
      BY <2>4, <3>3 DEF CrawlInv, Read
    <3>5. HostOf[c[1]] = HostOf[u]
      BY <2>4 DEF NextTo
    <3>6. ~(PagesOf(HostOf[u]) >= MaxPagesPerHost)
      <4>1. PagesOf(HostOf[u]) \in Nat
        <5>1. {e \in crawled : HostOf[e[1]] = HostOf[u]} \in SUBSET crawled
          OBVIOUS
        <5> QED
          BY <5>1, FS_Subset, FS_CardinalityType DEF CrawlInv, Bounded, PagesOf
      <4> QED
        BY <2>4, <3>1, <3>5, <4>1
    <3> QED
      BY <3>4, <3>6 DEF CrawlInv, Bounded, Pages
  <2>5. Cardinality(crawled) <= MaxPages /\ \A h \in meta : PagesOf(h) <= MaxPagesPerHost
    BY DEF CrawlInv, Bounded
  <2> QED
    BY <2>2, <2>3, <2>4, <2>5 DEF CrawlCovers, NextTo, LinksTo
<1> QED
  BY <1>1, CrawlAlways, PTL

-----------------------------------------------------------------------------
(* The histories *)

Entries == UNION {UNION {{h[n][k] : k \in DOMAIN h[n]} : n \in DOMAIN h} : h \in Histories}
LeakRow == Repos \X Nat \X {e[1] : e \in Entries} \X {b \in Scannable : \E e \in Entries : e[2] = b}
HitsOf(r, b) == {i \in DOMAIN leaks : leaks[i][1] = r /\ leaks[i][4] = b}

\* Blob b is first met at place k of commit m.
FirstAt(h, m, k, b) ==
  /\ h[m][k][2] = b /\ \A j \in 1..(k - 1) : h[m][j][2] # b
  /\ \A l \in 1..(m - 1) : \A j \in DOMAIN h[l] : h[l][j][2] # b

\* Of the commits before n, every secret met is recorded once, where it was
\* first met, unless that was at a fixture path.
Recorded(r, h, n) ==
  \A b \in Scannable :
    \/ /\ HitsOf(r, b) = {}
       /\ \A m \in 1..(n - 1) : \A k \in DOMAIN h[m] : h[m][k][2] # b
    \/ \E m \in 1..(n - 1) : \E k \in DOMAIN h[m] :
         /\ FirstAt(h, m, k, b)
         /\ IF h[m][k][1] \in Fixtures THEN HitsOf(r, b) = {}
            ELSE \E i \in DOMAIN leaks : /\ HitsOf(r, b) = {i}
                                         /\ leaks[i] = <<r, m, h[m][k][1], b>>

\* A repository comes once, and before its turn nothing is known of it.
NothingOf(r) == (\A i \in DOMAIN leaks : leaks[i][1] # r) /\ \A w \in walked : w[1] # r
OneEach ==
  /\ \A i, j \in DOMAIN reposLeft : i # j => reposLeft[i] # reposLeft[j]
  /\ gstate = "idle" => leaks = <<>> /\ walked = {}
  /\ \A i \in DOMAIN reposLeft :
       i > 1 \/ gstate \in {"between", "cloning", "listing"} => NothingOf(reposLeft[i])

\* The directory of the repository at hand, and those a git still writes to.
Directories ==
  /\ dirs \subseteq Repos \ SelfRepos
  /\ IF gstate \in {"cloning", "listing", "walking", "verifying"}
     THEN reposLeft # <<>> /\ repo \in dirs /\ dirs \subseteq orphans \union {repo}
     ELSE dirs \subseteq orphans

\* What was met of the repository at hand is remembered and recorded; and of
\* those read to the end, everything.
Progress ==
  /\ leaks \in Seq(LeakRow)
  /\ gstate = "walking" =>
       /\ history \in Histories /\ commit \in 1..(Len(history) + 1)
       /\ \A w \in walked : w[1] # repo
       /\ repo \notin unread =>
            /\ blobsSeen = (UNION {{history[n][k][2] : k \in DOMAIN history[n]} :
                                     n \in 1..(commit - 1)}) \ Outsized
            /\ Recorded(repo, history, commit)
  /\ \A w \in walked :
       /\ w = <<w[1], w[2]>> /\ w[2] \in Histories
       /\ w[1] \notin unread => Recorded(w[1], w[2], Len(w[2]) + 1)

GitInv == GitTypeOK /\ OneEach /\ Directories /\ Progress

\* The repositories to scan: rows of the list, none of the platform's own, each
\* once.
LEMMA CollectIs ==
  ASSUME NEW list \in Seq(Repos)
  PROVE  /\ Collect(list) \in Seq(Repos \ SelfRepos)
         /\ \A k, l \in DOMAIN Collect(list) : k # l => Collect(list)[k] # Collect(list)[l]
<1> DEFINE fresh == {i \in DOMAIN list : \A j \in 1..(i - 1) : list[j] # list[i]}
           S == {i \in fresh : list[i] \notin SelfRepos}
           n == Cardinality(S)
           kept == Ascending(S)
<1>1. /\ S \in SUBSET Int /\ S \in SUBSET (1..Len(list)) /\ Len(list) \in Nat
      /\ \A i \in S : list[i] \in Repos \ SelfRepos
  OBVIOUS
<1>2. \A i, j \in S : j < i => list[j] # list[i]
  OBVIOUS
<1> HIDE DEF S
<1>3. IsFiniteSet(S)
  <2>1. IsFiniteSet(1..Len(list))
    BY <1>1, FS_Interval
  <2> QED
    BY <1>1, <2>1, FS_Subset
<1>4. /\ n \in Nat /\ kept \in [1..n -> S]
      /\ \A k, l \in 1..n : k < l => kept[k] < kept[l]
  BY <1>1, <1>3, AscendingIs
<1>5. Collect(list) = [k \in 1..n |-> list[kept[k]]]
  <2>1. Collect(list) = [k \in DOMAIN kept |-> list[kept[k]]]
    BY DEF Collect, S
  <2> HIDE DEF kept, n
  <2> QED
    BY <1>4, <2>1
<1> HIDE DEF kept, n
<1>6. Collect(list) \in Seq(Repos \ SelfRepos)
  <2>1. [k \in 1..n |-> list[kept[k]]] \in [1..n -> Repos \ SelfRepos]
    BY <1>1, <1>4
  <2> QED
    BY <1>4, <1>5, <2>1
<1>7. ASSUME NEW k \in 1..n, NEW l \in 1..n, k # l PROVE list[kept[k]] # list[kept[l]]
  <2>1. kept[k] \in S /\ kept[l] \in S
    BY <1>4
  <2>2. k < l \/ l < k
    BY <1>4, <1>7
  <2>3. kept[k] < kept[l] \/ kept[l] < kept[k]
    BY <1>4, <2>2
  <2> QED
    BY <1>2, <2>1, <2>3
<1> QED
  BY <1>5, <1>6, <1>7

\* The rows of one commit: of each fresh blob in which a rule matches, and of
\* each such blob one.
LEMMA RowsAre ==
  ASSUME NEW h \in Histories, NEW n \in DOMAIN h, n = commit, repo \in Repos
  PROVE  /\ Rows(h[n]) \in Seq(LeakRow)
         /\ \A k \in DOMAIN Rows(h[n]) : \E i \in FreshBlobs(h[n]) :
              ScanText(h[n], i) /\ Rows(h[n])[k] = <<repo, n, h[n][i][1], h[n][i][2]>>
         /\ \A i \in FreshBlobs(h[n]) : ScanText(h[n], i) =>
              \E k \in DOMAIN Rows(h[n]) : Rows(h[n])[k] = <<repo, n, h[n][i][1], h[n][i][2]>>
         /\ \A k, l \in DOMAIN Rows(h[n]) : Rows(h[n])[k][4] = Rows(h[n])[l][4] => k = l
<1> DEFINE c == h[n]
           S == {i \in FreshBlobs(c) : ScanText(c, i)}
           m == Cardinality(S)
           hits == Ascending(S)
           Row(i) == <<repo, n, c[i][1], c[i][2]>>
<1>1. Len(c) \in Nat /\ DOMAIN c = 1..Len(c) /\ n \in Nat
  BY GitAssumption DEF GitAssumption
<1>2. /\ S \in SUBSET (1..Len(c)) /\ S \in SUBSET Int
      /\ \A i, j \in S : j < i => c[j][2] # c[i][2]
  BY <1>1 DEF FreshBlobs
<1>3. IsFiniteSet(S)
  <2> HIDE DEF S, c
  <2>1. IsFiniteSet(1..Len(c))
    BY <1>1, FS_Interval
  <2> QED
    BY <1>2, <2>1, FS_Subset
<1>4. /\ m \in Nat /\ hits \in [1..m -> S]
      /\ \A i \in S : \E k \in 1..m : hits[k] = i
      /\ \A k, l \in 1..m : k < l => hits[k] < hits[l]
  <2> HIDE DEF S
  <2> QED
    BY <1>2, <1>3, AscendingIs
<1>5. Rows(c) = [k \in 1..m |-> Row(hits[k])]
  <2>1. Rows(c) = [k \in DOMAIN hits |-> Row(hits[k])]
    BY DEF Rows
  <2> HIDE DEF hits, m, Row
  <2> QED
    BY <1>4, <2>1
<1>6. ASSUME NEW i \in S PROVE Row(i) \in LeakRow
  <2>1. i \in DOMAIN c
    BY DEF FreshBlobs
  <2>2. c[i] \in Entries
    BY <2>1 DEF Entries
  <2>3. c[i][2] \in Scannable
    BY DEF ScanText
  <2> QED
    BY <1>1, <2>2, <2>3 DEF LeakRow
<1>7. ASSUME NEW i \in S PROVE Row(i)[4] = c[i][2] /\ i \in FreshBlobs(c) /\ ScanText(c, i)
  OBVIOUS
<1>8. ASSUME NEW i \in FreshBlobs(c), ScanText(c, i) PROVE i \in S
  BY <1>8
<1> HIDE DEF S, m, hits, Row, c
<1>9. Rows(c) \in Seq(LeakRow)
  <2>1. [k \in 1..m |-> Row(hits[k])] \in [1..m -> LeakRow]
    BY <1>4, <1>6
  <2> QED
    BY <1>4, <1>5, <2>1
<1>10. \A k \in DOMAIN Rows(c) : \E i \in FreshBlobs(c) : ScanText(c, i) /\ Rows(c)[k] = Row(i)
  BY <1>4, <1>5, <1>7
<1>11. \A i \in FreshBlobs(c) : ScanText(c, i) => \E k \in DOMAIN Rows(c) : Rows(c)[k] = Row(i)
  <2> SUFFICES ASSUME NEW i \in FreshBlobs(c), ScanText(c, i)
               PROVE  \E k \in DOMAIN Rows(c) : Rows(c)[k] = Row(i)
    OBVIOUS
  <2>1. PICK k \in 1..m : hits[k] = i
    BY <1>4, <1>8
  <2> QED
    BY <1>5, <2>1
<1>12. ASSUME NEW k \in DOMAIN Rows(c), NEW l \in DOMAIN Rows(c), Rows(c)[k][4] = Rows(c)[l][4]
       PROVE  k = l
  <2>1. k \in 1..m /\ l \in 1..m /\ hits[k] \in S /\ hits[l] \in S
    BY <1>4, <1>5
  <2>2. c[hits[k]][2] = c[hits[l]][2]
    BY <1>5, <1>7, <1>12, <2>1
  <2>3. k < l \/ l < k \/ k = l
    BY <1>4, <2>1
  <2> QED
    BY <1>2, <1>4, <2>1, <2>2, <2>3
<1> QED
  BY <1>9, <1>10, <1>11, <1>12 DEF Row, c

\* What was recorded stays so while other repositories' rows are written.
LEMMA RecordedStays ==
  ASSUME NEW r, NEW h, NEW n, Recorded(r, h, n),
         \A i \in DOMAIN leaks : i \in DOMAIN leaks' /\ leaks'[i] = leaks[i],
         \A i \in DOMAIN leaks' : leaks'[i][1] = r => i \in DOMAIN leaks
  PROVE  Recorded(r, h, n)'
<1>1. ASSUME NEW b PROVE HitsOf(r, b)' = HitsOf(r, b)
  BY DEF HitsOf
<1> SUFFICES ASSUME NEW b \in Scannable
             PROVE
    \/ /\ HitsOf(r, b)' = {}
       /\ \A m \in 1..(n - 1) : \A k \in DOMAIN h[m] : h[m][k][2] # b
    \/ \E m \in 1..(n - 1) : \E k \in DOMAIN h[m] :
         /\ FirstAt(h, m, k, b)
         /\ IF h[m][k][1] \in Fixtures THEN HitsOf(r, b)' = {}
            ELSE \E i \in DOMAIN leaks' : /\ HitsOf(r, b)' = {i}
                                          /\ leaks'[i] = <<r, m, h[m][k][1], b>>
  BY DEF Recorded, FirstAt
<1>2. \/ /\ HitsOf(r, b) = {}
         /\ \A m \in 1..(n - 1) : \A k \in DOMAIN h[m] : h[m][k][2] # b
      \/ \E m \in 1..(n - 1) : \E k \in DOMAIN h[m] :
           /\ FirstAt(h, m, k, b)
           /\ IF h[m][k][1] \in Fixtures THEN HitsOf(r, b) = {}
              ELSE \E i \in DOMAIN leaks : /\ HitsOf(r, b) = {i}
                                           /\ leaks[i] = <<r, m, h[m][k][1], b>>
  BY DEF Recorded
<1>3. ASSUME NEW m \in 1..(n - 1), NEW k \in DOMAIN h[m], FirstAt(h, m, k, b),
             IF h[m][k][1] \in Fixtures THEN HitsOf(r, b) = {}
             ELSE \E i \in DOMAIN leaks : /\ HitsOf(r, b) = {i}
                                          /\ leaks[i] = <<r, m, h[m][k][1], b>>
      PROVE  IF h[m][k][1] \in Fixtures THEN HitsOf(r, b)' = {}
             ELSE \E i \in DOMAIN leaks' : /\ HitsOf(r, b)' = {i}
                                           /\ leaks'[i] = <<r, m, h[m][k][1], b>>
  BY <1>1, <1>3
<1> QED
  BY <1>1, <1>2, <1>3

\* A step that neither writes a row nor reads a commit.
LEMMA ProgressStays ==
  ASSUME Progress, UNCHANGED <<leaks, walked>>, unread \subseteq unread', gstate' # "walking"
  PROVE  Progress'
<1>1. ASSUME NEW w \in walked'
      PROVE  /\ w = <<w[1], w[2]>> /\ w[2] \in Histories
             /\ w[1] \notin unread' => Recorded(w[1], w[2], Len(w[2]) + 1)'
  <2>1. /\ w = <<w[1], w[2]>> /\ w[2] \in Histories
        /\ w[1] \notin unread => Recorded(w[1], w[2], Len(w[2]) + 1)
    BY DEF Progress
  <2>2. ASSUME Recorded(w[1], w[2], Len(w[2]) + 1) PROVE Recorded(w[1], w[2], Len(w[2]) + 1)'
    BY <2>2, RecordedStays
  <2> QED
    BY <2>1, <2>2
<1> QED
  BY <1>1 DEF Progress

LEMMA GitStarts == GitInit => GitInv
BY DEF GitInit, GitInv, GitTypeOK, OneEach, Directories, Progress

\* The module begins.
LEMMA GitStartKeeps ==
  ASSUME GitInv, NEW list \in RepoLists, NEW git \in BOOLEAN, GitStart(list, git)
  PROVE  GitInv'
<1>1. /\ list \in Seq(Repos) /\ gstate = "idle" /\ reposLeft' = Collect(list)
      /\ gstate' \in {"ended", "between"}
      /\ gerrors' \subseteq gerrors \union {"git"}
      /\ UNCHANGED <<history, commit, blobsSeen, leaks, unread, walked, dirs, orphans>>
  BY GitAssumption DEF GitAssumption, GitStart, Told
<1>2. /\ reposLeft' \in Seq(Repos \ SelfRepos)
      /\ \A k, l \in DOMAIN reposLeft' : k # l => reposLeft'[k] # reposLeft'[l]
  BY <1>1, CollectIs
<1>3. GitTypeOK'
  BY <1>1, <1>2 DEF GitInv, GitTypeOK
<1>4. OneEach'
  <2>1. leaks' = <<>> /\ walked' = {}
    BY <1>1 DEF GitInv, OneEach
  <2> QED
    BY <1>1, <1>2, <2>1 DEF OneEach, NothingOf
<1>5. Directories'
  BY <1>1 DEF GitInv, Directories
<1>6. Progress'
  BY <1>1, ProgressStays DEF GitInv
<1> QED
  BY <1>3, <1>4, <1>5, <1>6 DEF GitInv

\* The next step on the repository at hand, that leaves the rows alone.
LEMMA GoesOnKeeps ==
  ASSUME GitInv, reposLeft # <<>>,
         \/ gstate = "between" /\ gstate' = "cloning" /\ dirs' = dirs \union {repo}
         \/ gstate = "cloning" /\ gstate' = "listing" /\ dirs' = dirs
         \/ gstate = "listing" /\ gstate' = "verifying" /\ dirs' = dirs,
         UNCHANGED <<reposLeft, history, commit, blobsSeen, leaks, walked, orphans>>,
         gerrors' \subseteq gerrors \union {repo}, unread \subseteq unread',
         unread' \subseteq unread \union {repo}
  PROVE  GitInv'
<1>1. repo \in Repos \ SelfRepos /\ repo' = repo
  BY DEF GitInv, GitTypeOK, repo
<1>2. GitTypeOK'
  BY <1>1 DEF GitInv, GitTypeOK
<1>3. OneEach'
  BY DEF GitInv, OneEach, NothingOf
<1>4. Directories'
  BY <1>1 DEF GitInv, Directories
<1>5. Progress'
  BY ProgressStays DEF GitInv
<1> QED
  BY <1>2, <1>3, <1>4, <1>5 DEF GitInv

\* The finally of a repository.
LEMMA LeaveKeeps ==
  ASSUME GitInv, reposLeft # <<>>, NEW next \in {"between", "ended"}, Leave(next),
         gstate \notin {"idle", "ended"},
         UNCHANGED <<leaks, walked, unread>>, gerrors' \subseteq gerrors \union {repo},
         orphans \subseteq orphans', orphans' \subseteq orphans \union {repo}
  PROVE  GitInv'
<1>1. /\ repo \in Repos \ SelfRepos /\ Tail(reposLeft) \in Seq(Repos \ SelfRepos)
      /\ \A i \in DOMAIN Tail(reposLeft) : /\ i + 1 \in DOMAIN reposLeft /\ i + 1 > 1
                                           /\ Tail(reposLeft)[i] = reposLeft[i + 1]
  <2>1. reposLeft \in Seq(Repos \ SelfRepos)
    BY DEF GitInv, GitTypeOK
  <2>2. /\ Head(reposLeft) \in Repos \ SelfRepos /\ Tail(reposLeft) \in Seq(Repos \ SelfRepos)
        /\ DOMAIN Tail(reposLeft) = 1..(Len(reposLeft) - 1)
        /\ \A i \in DOMAIN Tail(reposLeft) :
             Tail(reposLeft)[i] = reposLeft[i + 1] /\ i + 1 \in DOMAIN reposLeft
    BY <2>1, HeadAndTail
  <2> QED
    BY <2>1, <2>2 DEF repo
<1>2. /\ reposLeft' = Tail(reposLeft) /\ gstate' = next
      /\ dirs' = dirs \ {repo} \/ (repo \in orphans' /\ dirs' = dirs)
      /\ history' = <<>> /\ commit' = 0 /\ blobsSeen' = {}
  BY DEF Leave
<1>3. GitTypeOK'
  BY <1>1, <1>2 DEF GitInv, GitTypeOK
<1>4. OneEach'
  <2>1. ASSUME NEW i \in DOMAIN reposLeft' PROVE NothingOf(reposLeft'[i])
    BY <1>1, <1>2, <2>1 DEF GitInv, OneEach
  <2>2. ASSUME NEW r, NothingOf(r) PROVE NothingOf(r)'
    BY <2>2 DEF NothingOf
  <2>3. ASSUME NEW i \in DOMAIN reposLeft', NEW j \in DOMAIN reposLeft', i # j
        PROVE  reposLeft'[i] # reposLeft'[j]
    <3>1. i + 1 # j + 1
      BY <1>1, <1>2, <2>3
    <3> QED
      BY <1>1, <1>2, <3>1 DEF GitInv, OneEach
  <2> QED
    BY <1>2, <2>1, <2>2, <2>3 DEF OneEach
<1>5. Directories'
  BY <1>1, <1>2 DEF GitInv, Directories
<1>6. Progress'
  BY <1>2, ProgressStays DEF GitInv
<1> QED
  BY <1>3, <1>4, <1>5, <1>6 DEF GitInv

\* A history is listed: nothing of it is known yet.
LEMMA ListedKeeps == ASSUME GitInv, NEW h \in Histories, Listed(h) PROVE GitInv'
<1>1. /\ gstate = "listing" /\ gstate' = "walking" /\ history' = h /\ commit' = 1
      /\ blobsSeen' = {} /\ UNCHANGED <<reposLeft, leaks, gerrors, unread, walked, dirs, orphans>>
  BY DEF Listed
<1>2. Len(h) \in Nat
  BY GitAssumption DEF GitAssumption
<1>3. reposLeft # <<>> /\ repo' = repo /\ NothingOf(repo)
  <2>1. reposLeft # <<>> /\ reposLeft \in Seq(Repos \ SelfRepos)
    BY <1>1 DEF GitInv, Directories, GitTypeOK
  <2>2. repo = reposLeft[1] /\ 1 \in DOMAIN reposLeft
    BY <2>1 DEF repo
  <2> QED
    BY <1>1, <2>1, <2>2 DEF GitInv, OneEach, repo
<1>4. GitTypeOK'
  BY <1>1, <1>2 DEF GitInv, GitTypeOK
<1>5. OneEach'
  BY <1>1 DEF GitInv, OneEach, NothingOf
<1>6. Directories'
  BY <1>1, <1>3 DEF GitInv, Directories
<1>7. ASSUME NEW r, NothingOf(r) PROVE Recorded(r, h, 1)'
  <2>1. \A b : HitsOf(r, b)' = {}
    BY <1>1, <1>7 DEF NothingOf, HitsOf
  <2> QED
    BY <2>1 DEF Recorded
<1>8. Progress'
  <2>1. ASSUME NEW w \in walked', w[1] \notin unread' PROVE Recorded(w[1], w[2], Len(w[2]) + 1)'
    <3>1. Recorded(w[1], w[2], Len(w[2]) + 1)
      BY <1>1, <2>1 DEF GitInv, Progress
    <3> QED
      BY <1>1, <3>1, RecordedStays
  <2>2. Recorded(repo, history, commit)'
    BY <1>1, <1>3, <1>7
  <2>3. 1 \in 1..(Len(h) + 1) /\ 1..(1 - 1) = {}
    BY <1>2
  <2>4. blobsSeen' = (UNION {{history'[n][k][2] : k \in DOMAIN history'[n]} : n \in 1..(commit' - 1)})
                       \ Outsized
    BY <1>1, <2>3
  <2>5. \A w \in walked' : w[1] # repo' /\ w = <<w[1], w[2]>> /\ w[2] \in Histories
    BY <1>1, <1>3 DEF GitInv, Progress, NothingOf
  <2>6. history' \in Histories /\ commit' \in 1..(Len(history') + 1) /\ leaks' \in Seq(LeakRow)
    BY <1>1, <2>3 DEF GitInv, Progress
  <2> QED
    BY <2>1, <2>2, <2>4, <2>5, <2>6 DEF Progress
<1> QED
  BY <1>4, <1>5, <1>6, <1>8 DEF GitInv

\* A history is read to its end.
LEMMA WalkedKeeps == ASSUME GitInv, Walked PROVE GitInv'
<1>1. /\ gstate = "walking" /\ commit > Len(history) /\ gstate' = "verifying"
      /\ walked' = walked \union {<<repo, history>>}
      /\ UNCHANGED <<reposLeft, history, commit, blobsSeen, leaks, gerrors, unread, dirs, orphans>>
  BY DEF Walked
<1>2. /\ history \in Histories /\ commit \in 1..(Len(history) + 1) /\ Len(history) \in Nat
      /\ repo \notin unread => Recorded(repo, history, commit)
  BY <1>1, GitAssumption DEF GitInv, Progress, GitAssumption
<1>3. commit = Len(history) + 1
  BY <1>1, <1>2
<1>4. reposLeft # <<>> /\ reposLeft \in Seq(Repos \ SelfRepos) /\ repo' = repo
  BY <1>1 DEF GitInv, Directories, GitTypeOK, repo
<1>5. GitTypeOK'
  BY <1>1, <1>4 DEF GitInv, GitTypeOK
<1>6. OneEach'
  <2>1. repo = reposLeft[1] /\ 1 \in DOMAIN reposLeft
    BY <1>4 DEF repo
  <2>2. ASSUME NEW r, NothingOf(r), r # repo PROVE NothingOf(r)'
    <3>1. \A w \in walked' : w \in walked \/ w[1] = repo
      BY <1>1
    <3> QED
      BY <1>1, <2>2, <3>1 DEF NothingOf
  <2>3. ASSUME NEW i \in DOMAIN reposLeft, i > 1 PROVE NothingOf(reposLeft[i])'
    <3>1. NothingOf(reposLeft[i]) /\ reposLeft[i] # repo
      BY <1>1, <2>1, <2>3 DEF GitInv, OneEach
    <3> QED
      BY <1>1, <2>2, <3>1
  <2> QED
    BY <1>1, <2>3 DEF GitInv, OneEach
<1>7. Directories'
  BY <1>1, <1>4 DEF GitInv, Directories
<1>8. Progress'
  <2>1. ASSUME NEW w \in walked'
        PROVE  /\ w = <<w[1], w[2]>> /\ w[2] \in Histories
               /\ w[1] \notin unread' => Recorded(w[1], w[2], Len(w[2]) + 1)'
    <3>1. CASE w \in walked
      <4>1. /\ w = <<w[1], w[2]>> /\ w[2] \in Histories
            /\ w[1] \notin unread => Recorded(w[1], w[2], Len(w[2]) + 1)
        BY <3>1 DEF GitInv, Progress
      <4>2. ASSUME Recorded(w[1], w[2], Len(w[2]) + 1)
            PROVE  Recorded(w[1], w[2], Len(w[2]) + 1)'
        BY <1>1, <4>2, RecordedStays
      <4> QED
        BY <1>1, <4>1, <4>2
    <3>2. CASE w = <<repo, history>>
      <4>1. w[1] = repo /\ w[2] = history
        BY <3>2
      <4>2. w[1] \notin unread => Recorded(w[1], w[2], Len(w[2]) + 1)
        BY <1>2, <1>3, <4>1
      <4>3. ASSUME Recorded(w[1], w[2], Len(w[2]) + 1)
            PROVE  Recorded(w[1], w[2], Len(w[2]) + 1)'
        BY <1>1, <4>3, RecordedStays
      <4> QED
        BY <1>1, <1>2, <3>2, <4>1, <4>2, <4>3
    <3> QED
      BY <1>1, <3>1, <3>2
  <2> QED
    BY <1>1, <2>1 DEF GitInv, Progress
<1> QED
  BY <1>5, <1>6, <1>7, <1>8 DEF GitInv

\* The blobs of commits up to m are those met before and those of m.
LEMMA MetOneMore ==
  ASSUME NEW h, NEW m \in Nat \ {0}
  PROVE  UNION {{h[n][k][2] : k \in DOMAIN h[n]} : n \in 1..m}
           = (UNION {{h[n][k][2] : k \in DOMAIN h[n]} : n \in 1..(m - 1)})
               \union {h[m][k][2] : k \in DOMAIN h[m]}
<1>1. \A n : n \in 1..m <=> n \in 1..(m - 1) \/ n = m
  OBVIOUS
<1> DEFINE Of(n) == {h[n][k][2] : k \in DOMAIN h[n]}
           Met(S) == UNION {Of(n) : n \in S}
<1>2. ASSUME NEW S, NEW x PROVE x \in Met(S) <=> \E n \in S : x \in Of(n)
  <2> HIDE DEF Of
  <2> QED
    OBVIOUS
<1>3. Met(1..m) = Met(1..(m - 1)) \union Of(m)
  <2> HIDE DEF Met, Of
  <2>1. \A x : x \in Met(1..m) <=> x \in Met(1..(m - 1)) \/ x \in Of(m)
    BY <1>1, <1>2
  <2> QED
    BY <2>1
<1> QED
  BY <1>3 DEF Met, Of

\* A commit that is read: a blob met before is passed over, one that is new and
\* matches is recorded at its first place in the commit.
LEMMA CommitRecorded ==
  ASSUME NEW h \in Histories, NEW n \in DOMAIN h, n = commit, NEW r, r = repo, r \in Repos,
         leaks \in Seq(LeakRow), Recorded(r, h, n),
         blobsSeen = (UNION {{h[l][k][2] : k \in DOMAIN h[l]} : l \in 1..(n - 1)}) \ Outsized,
         leaks' = leaks \o Rows(h[n])
  PROVE  Recorded(r, h, n + 1)'
<1> DEFINE c == h[n]
           rows == Rows(h[n])
<1>1. n \in Nat \ {0} /\ DOMAIN c = 1..Len(c) /\ Len(c) \in Nat
  BY GitAssumption DEF GitAssumption
<1>2. /\ rows \in Seq(LeakRow)
      /\ \A k \in DOMAIN rows : \E i \in FreshBlobs(c) :
           ScanText(c, i) /\ rows[k] = <<r, n, c[i][1], c[i][2]>>
      /\ \A i \in FreshBlobs(c) : ScanText(c, i) =>
           \E k \in DOMAIN rows : rows[k] = <<r, n, c[i][1], c[i][2]>>
      /\ \A k, l \in DOMAIN rows : rows[k][4] = rows[l][4] => k = l
      /\ leaks' = leaks \o rows
  BY RowsAre
<1>3. /\ DOMAIN leaks' = 1..(Len(leaks) + Len(rows)) /\ DOMAIN leaks = 1..Len(leaks)
      /\ DOMAIN rows = 1..Len(rows) /\ Len(leaks) \in Nat /\ Len(rows) \in Nat
      /\ \A i \in DOMAIN leaks' :
           leaks'[i] = IF i <= Len(leaks) THEN leaks[i] ELSE rows[i - Len(leaks)]
  <2> HIDE DEF rows
  <2> QED
    BY <1>2
<1> HIDE DEF c, rows
<1>4. ASSUME NEW b
      PROVE  \A i : i \in HitsOf(r, b)' <=>
               \/ i \in HitsOf(r, b)
               \/ \E k \in DOMAIN rows : i = Len(leaks) + k /\ rows[k][4] = b
  <2>1. \A k \in DOMAIN rows : rows[k][1] = r
    BY <1>2
  <2>2. ASSUME NEW i \in DOMAIN leaks'
        PROVE  \/ i \in DOMAIN leaks /\ leaks'[i] = leaks[i]
               \/ \E k \in DOMAIN rows : i = Len(leaks) + k /\ leaks'[i] = rows[k]
    <3>1. CASE i <= Len(leaks)
      BY <1>3, <3>1
    <3>2. CASE ~(i <= Len(leaks))
      <4>1. i - Len(leaks) \in DOMAIN rows /\ i = Len(leaks) + (i - Len(leaks))
        BY <1>3, <3>2
      <4> QED
        BY <1>3, <3>2, <4>1
    <3> QED
      BY <3>1, <3>2
  <2>3. ASSUME NEW k \in DOMAIN rows
        PROVE  Len(leaks) + k \in DOMAIN leaks' /\ leaks'[Len(leaks) + k] = rows[k]
    <3>1. /\ Len(leaks) + k \in DOMAIN leaks' /\ ~(Len(leaks) + k <= Len(leaks))
          /\ (Len(leaks) + k) - Len(leaks) = k
      BY <1>3
    <3> QED
      BY <1>3, <3>1
  <2>4. \A i \in DOMAIN leaks : i \in DOMAIN leaks' /\ leaks'[i] = leaks[i]
    BY <1>3
  <2>5. \A i \in DOMAIN leaks : \A k \in DOMAIN rows : i # Len(leaks) + k
    BY <1>3
  <2> QED
    BY <2>1, <2>2, <2>3, <2>4, <2>5 DEF HitsOf
<1>5. \A b \in Scannable : b \in blobsSeen <=> \E m \in 1..(n - 1) : \E k \in DOMAIN h[m] : h[m][k][2] = b
  <2> DEFINE Of(m) == {h[m][k][2] : k \in DOMAIN h[m]}
  <2>1. blobsSeen = (UNION {Of(m) : m \in 1..(n - 1)}) \ Outsized
    OBVIOUS
  <2>2. \A m, b : b \in Of(m) <=> \E k \in DOMAIN h[m] : h[m][k][2] = b
    OBVIOUS
  <2> HIDE DEF Of
  <2>3. \A b \in Scannable : b \in blobsSeen <=> \E m \in 1..(n - 1) : b \in Of(m)
    BY <2>1 DEF Scannable
  <2> QED
    BY <2>2, <2>3
<1>6. 1..((n + 1) - 1) = (1..(n - 1)) \union {n} /\ n \notin 1..(n - 1)
  BY <1>1
<1>9. \A k \in DOMAIN rows : rows[k][1] = r /\ \E i \in FreshBlobs(c) : rows[k][4] = c[i][2]
  <2> SUFFICES ASSUME NEW k \in DOMAIN rows
               PROVE  rows[k][1] = r /\ \E i \in FreshBlobs(c) : rows[k][4] = c[i][2]
    OBVIOUS
  <2>1. PICK i \in FreshBlobs(c) : rows[k] = <<r, n, c[i][1], c[i][2]>>
    BY <1>2
  <2>2. rows[k][1] = r /\ rows[k][4] = c[i][2]
    BY <2>1
  <2> QED
    BY <2>2
<1> DEFINE Goal(b) ==
      \/ /\ HitsOf(r, b)' = {}
         /\ \A m \in 1..((n + 1) - 1) : \A k \in DOMAIN h[m] : h[m][k][2] # b
      \/ \E m \in 1..((n + 1) - 1) : \E k \in DOMAIN h[m] :
           /\ FirstAt(h, m, k, b)
           /\ IF h[m][k][1] \in Fixtures THEN HitsOf(r, b)' = {}
              ELSE \E i \in DOMAIN leaks' : /\ HitsOf(r, b)' = {i}
                                            /\ leaks'[i] = <<r, m, h[m][k][1], b>>
<1>7. ASSUME NEW b \in Scannable, b \in blobsSeen PROVE Goal(b)
  <2>0. PICK m \in 1..(n - 1) : \E k \in DOMAIN h[m] :
          /\ FirstAt(h, m, k, b)
          /\ IF h[m][k][1] \in Fixtures THEN HitsOf(r, b) = {}
             ELSE \E i \in DOMAIN leaks : /\ HitsOf(r, b) = {i}
                                          /\ leaks[i] = <<r, m, h[m][k][1], b>>
    BY <1>5, <1>7 DEF Recorded
  <2>1. PICK k \in DOMAIN h[m] :
          /\ FirstAt(h, m, k, b)
          /\ IF h[m][k][1] \in Fixtures THEN HitsOf(r, b) = {}
             ELSE \E i \in DOMAIN leaks : /\ HitsOf(r, b) = {i}
                                          /\ leaks[i] = <<r, m, h[m][k][1], b>>
    BY <2>0
  <2>2. \A j \in DOMAIN rows : rows[j][4] # b
    <3>1. \A i \in FreshBlobs(c) : c[i][2] # b
      BY <1>7 DEF FreshBlobs
    <3> QED
      BY <1>9, <3>1
  <2>3. HitsOf(r, b)' = HitsOf(r, b)
    BY <1>4, <2>2
  <2>4. \A i \in DOMAIN leaks : i \in DOMAIN leaks' /\ leaks'[i] = leaks[i]
    BY <1>3
  <2>5. m \in 1..((n + 1) - 1)
    BY <1>6
  <2>6. IF h[m][k][1] \in Fixtures THEN HitsOf(r, b)' = {}
        ELSE \E i \in DOMAIN leaks' : /\ HitsOf(r, b)' = {i}
                                      /\ leaks'[i] = <<r, m, h[m][k][1], b>>
    BY <2>1, <2>3, <2>4
  <2> QED
    BY <2>1, <2>5, <2>6
<1>8. ASSUME NEW b \in Scannable, b \notin blobsSeen PROVE Goal(b)
  <2>1. HitsOf(r, b) = {} /\ \A m \in 1..(n - 1) : \A k \in DOMAIN h[m] : h[m][k][2] # b
    <3>1. \A m \in 1..(n - 1) : \A k \in DOMAIN h[m] : h[m][k][2] # b
      BY <1>5, <1>8
    <3>2. \A m \in 1..(n - 1) : \A k \in DOMAIN h[m] : ~FirstAt(h, m, k, b)
      BY <3>1 DEF FirstAt
    <3> QED
      BY <3>1, <3>2 DEF Recorded
  <2>2. CASE \A k \in DOMAIN c : c[k][2] # b
    <3>1. \A j \in DOMAIN rows : rows[j][4] # b
      BY <1>2, <2>2 DEF FreshBlobs
    <3>2. HitsOf(r, b)' = {}
      BY <1>4, <2>1, <3>1
    <3>3. \A m \in 1..((n + 1) - 1) : \A k \in DOMAIN h[m] : h[m][k][2] # b
      BY <1>6, <2>1, <2>2 DEF c
    <3> QED
      BY <3>2, <3>3
  <2>3. CASE \E k \in DOMAIN c : c[k][2] = b
    <3> DEFINE places == {k \in DOMAIN c : c[k][2] = b}
    <3>1. places \in SUBSET Int /\ IsFiniteSet(places) /\ places # {}
      <4>1. places \in SUBSET (1..Len(c)) /\ IsFiniteSet(1..Len(c))
        BY <1>1, FS_Interval
      <4>2. places # {}
        BY <2>3
      <4> HIDE DEF places
      <4> QED
        BY <4>1, <4>2, FS_Subset
    <3>2. PICK k \in places : \A j \in places : k <= j
      <4> HIDE DEF places
      <4> QED
        BY <3>1, Least
    <3>3. k \in DOMAIN c /\ c[k][2] = b /\ \A j \in 1..(k - 1) : c[j][2] # b
      <4>1. ASSUME NEW j \in 1..(k - 1) PROVE c[j][2] # b
        <5>1. k \in 1..Len(c)
          BY <1>1
        <5>2. j \in DOMAIN c /\ ~(k <= j)
          BY <1>1, <5>1
        <5> QED
          BY <3>2, <5>2
      <4> QED
        BY <4>1
    <3>4. FirstAt(h, n, k, b)
      BY <2>1, <3>3 DEF FirstAt, c
    <3>5. k \in FreshBlobs(c)
      BY <1>8, <3>3 DEF FreshBlobs
    <3>6. ASSUME NEW i \in FreshBlobs(c), c[i][2] = b PROVE i = k
      <4>1. i \in 1..Len(c) /\ k \in 1..Len(c) /\ \A j \in 1..(i - 1) : c[j][2] # c[i][2]
        BY <1>1, <3>3 DEF FreshBlobs
      <4>2. ~(k < i)
        BY <3>3, <3>6, <4>1
      <4>3. ~(i < k)
        BY <3>3, <3>6, <4>1
      <4> QED
        BY <4>1, <4>2, <4>3
    <3>7. CASE c[k][1] \in Fixtures
      <4>1. \A j \in DOMAIN rows : rows[j][4] # b
        <5> SUFFICES ASSUME NEW j \in DOMAIN rows, rows[j][4] = b PROVE FALSE
          OBVIOUS
        <5>1. PICK i \in FreshBlobs(c) : ScanText(c, i) /\ rows[j] = <<r, n, c[i][1], c[i][2]>>
          BY <1>2
        <5>2. c[i][2] = b
          BY <5>1
        <5> QED
          BY <3>6, <3>7, <5>1, <5>2 DEF ScanText
      <4>2. HitsOf(r, b)' = {}
        BY <1>4, <2>1, <4>1
      <4> QED
        BY <1>6, <3>3, <3>4, <3>7, <4>2 DEF c
    <3>8. CASE c[k][1] \notin Fixtures
      <4>1. PICK j \in DOMAIN rows : rows[j] = <<r, n, c[k][1], c[k][2]>>
        BY <1>2, <3>3, <3>5, <3>8 DEF ScanText
      <4>2. rows[j][4] = b /\ \A l \in DOMAIN rows : rows[l][4] = b => l = j
        BY <1>2, <3>3, <4>1
      <4>3. HitsOf(r, b)' = {Len(leaks) + j}
        BY <1>4, <2>1, <4>2
      <4>4. Len(leaks) + j \in DOMAIN leaks' /\ leaks'[Len(leaks) + j] = rows[j]
        <5>1. /\ Len(leaks) + j \in DOMAIN leaks' /\ ~(Len(leaks) + j <= Len(leaks))
              /\ (Len(leaks) + j) - Len(leaks) = j
          BY <1>3
        <5> QED
          BY <1>3, <5>1
      <4>5. leaks'[Len(leaks) + j] = <<r, n, h[n][k][1], b>>
        BY <3>3, <4>1, <4>4 DEF c
      <4>6. n \in 1..((n + 1) - 1) /\ k \in DOMAIN h[n] /\ h[n][k][1] \notin Fixtures
        BY <1>6, <3>3, <3>8 DEF c
      <4> QED
        BY <3>4, <4>3, <4>4, <4>5, <4>6
    <3> QED
      BY <3>7, <3>8
  <2> QED
    BY <2>2, <2>3
<1> QED
  BY <1>7, <1>8 DEF Recorded, FirstAt

\* A commit whose blobs are read: none of its secrets is lost, none told twice.
LEMMA ReadCommitKeeps == ASSUME GitInv, WalkCommit(TRUE) PROVE GitInv'
<1>1. /\ gstate = "walking" /\ commit <= Len(history) /\ commit' = commit + 1
      /\ blobsSeen' = blobsSeen \union ({history[commit][i][2] : i \in DOMAIN history[commit]} \ Outsized)
      /\ leaks' = leaks \o Rows(history[commit])
      /\ UNCHANGED <<gstate, reposLeft, history, gerrors, unread, walked, dirs, orphans>>
  BY DEF WalkCommit
<1>2. /\ history \in Histories /\ commit \in 1..(Len(history) + 1) /\ Len(history) \in Nat
      /\ DOMAIN history = 1..Len(history) /\ leaks \in Seq(LeakRow)
      /\ \A w \in walked : w[1] # repo
  BY <1>1, GitAssumption DEF GitInv, Progress, GitAssumption
<1>3. /\ commit \in DOMAIN history /\ commit \in Nat \ {0}
      /\ commit' \in 1..(Len(history) + 1) /\ commit' - 1 = commit
  BY <1>1, <1>2
<1>4. /\ reposLeft # <<>> /\ reposLeft \in Seq(Repos \ SelfRepos) /\ repo' = repo
      /\ repo = reposLeft[1] /\ 1 \in DOMAIN reposLeft /\ repo \in Repos
  BY <1>1 DEF GitInv, Directories, GitTypeOK, repo
<1>5. /\ Rows(history[commit]) \in Seq(LeakRow)
      /\ \A k \in DOMAIN Rows(history[commit]) : Rows(history[commit])[k][1] = repo
  <2>1. /\ Rows(history[commit]) \in Seq(LeakRow)
        /\ \A k \in DOMAIN Rows(history[commit]) : \E i \in FreshBlobs(history[commit]) :
             /\ ScanText(history[commit], i)
             /\ Rows(history[commit])[k]
                  = <<repo, commit, history[commit][i][1], history[commit][i][2]>>
    BY <1>2, <1>3, <1>4, RowsAre
  <2>2. ASSUME NEW k \in DOMAIN Rows(history[commit])
        PROVE  Rows(history[commit])[k][1] = repo
    BY <2>1
  <2> QED
    BY <2>1, <2>2
<1>6. /\ leaks' \in Seq(LeakRow)
      /\ \A i \in DOMAIN leaks : i \in DOMAIN leaks' /\ leaks'[i] = leaks[i]
      /\ \A i \in DOMAIN leaks' : i \in DOMAIN leaks \/ leaks'[i][1] = repo
  <2>1. ASSUME NEW rows \in Seq(LeakRow), leaks' = leaks \o rows,
               \A k \in DOMAIN rows : rows[k][1] = repo
        PROVE  /\ leaks' \in Seq(LeakRow)
               /\ \A i \in DOMAIN leaks : i \in DOMAIN leaks' /\ leaks'[i] = leaks[i]
               /\ \A i \in DOMAIN leaks' : i \in DOMAIN leaks \/ leaks'[i][1] = repo
    <3>1. /\ DOMAIN leaks' = 1..(Len(leaks) + Len(rows)) /\ DOMAIN leaks = 1..Len(leaks)
          /\ DOMAIN rows = 1..Len(rows) /\ Len(leaks) \in Nat /\ Len(rows) \in Nat
          /\ \A i \in DOMAIN leaks' :
               leaks'[i] = IF i <= Len(leaks) THEN leaks[i] ELSE rows[i - Len(leaks)]
      BY <1>2, <2>1
    <3>2. leaks' \in Seq(LeakRow)
      BY <1>2, <2>1
    <3>3. ASSUME NEW i \in DOMAIN leaks', i \notin DOMAIN leaks PROVE leaks'[i][1] = repo
      <4>1. i - Len(leaks) \in DOMAIN rows /\ ~(i <= Len(leaks))
        BY <3>1, <3>3
      <4> QED
        BY <2>1, <3>1, <4>1
    <3> QED
      BY <3>1, <3>2, <3>3
  <2> QED
    BY <1>1, <1>5, <2>1
<1>7. GitTypeOK'
  BY <1>1, <1>2, <1>3, <1>4 DEF GitInv, GitTypeOK
<1>8. OneEach'
  <2>1. ASSUME NEW r, NothingOf(r), r # repo PROVE NothingOf(r)'
    BY <1>1, <1>6, <2>1 DEF NothingOf
  <2>2. ASSUME NEW i \in DOMAIN reposLeft, i > 1 PROVE NothingOf(reposLeft[i])'
    <3>1. NothingOf(reposLeft[i]) /\ reposLeft[i] # repo
      BY <1>1, <1>4, <2>2 DEF GitInv, OneEach
    <3> QED
      BY <1>1, <2>1, <3>1
  <2> QED
    BY <1>1, <2>2 DEF GitInv, OneEach
<1>9. Directories'
  BY <1>1, <1>4 DEF GitInv, Directories
<1>10. repo \notin unread =>
         /\ blobsSeen' = (UNION {{history[n][k][2] : k \in DOMAIN history[n]} : n \in 1..commit})
                           \ Outsized
         /\ Recorded(repo, history, commit)'
  <2> SUFFICES ASSUME repo \notin unread
               PROVE
         /\ blobsSeen' = (UNION {{history[n][k][2] : k \in DOMAIN history[n]} : n \in 1..commit})
                           \ Outsized
         /\ Recorded(repo, history, commit)'
    OBVIOUS
  <2> PICK h \in Histories, n \in DOMAIN history, r \in Repos :
        h = history /\ n = commit /\ r = repo
    BY <1>2, <1>3, <1>4
  <2>1. /\ blobsSeen = (UNION {{h[l][k][2] : k \in DOMAIN h[l]} : l \in 1..(n - 1)}) \ Outsized
        /\ Recorded(r, h, n)
    <3>1. /\ blobsSeen = (UNION {{history[l][k][2] : k \in DOMAIN history[l]} : l \in 1..(commit - 1)})
                           \ Outsized
          /\ Recorded(repo, history, commit)
      BY <1>1 DEF GitInv, Progress
    <3> QED
      BY <3>1
  <2>2. blobsSeen' = (UNION {{h[l][k][2] : k \in DOMAIN h[l]} : l \in 1..n}) \ Outsized
    <3>1. n \in Nat \ {0}
      BY <1>3
    <3> QED
      BY <1>1, <2>1, <3>1, MetOneMore
  <2>3. leaks' = leaks \o Rows(h[n]) /\ n \in DOMAIN h
    BY <1>1
  <2>4. Recorded(r, h, n + 1)'
    BY <1>2, <2>1, <2>3, CommitRecorded
  <2>5. Recorded(repo, history, commit)'
    BY <1>1, <1>4, <2>4
  <2> QED
    BY <2>2, <2>5
<1>11. ASSUME NEW w \in walked, w[1] \notin unread PROVE Recorded(w[1], w[2], Len(w[2]) + 1)'
  <2>1. Recorded(w[1], w[2], Len(w[2]) + 1) /\ w[1] # repo
    BY <1>2, <1>11 DEF GitInv, Progress
  <2> QED
    BY <1>6, <2>1, RecordedStays
<1>12. Progress'
  <2>1. \A w \in walked : w = <<w[1], w[2]>> /\ w[2] \in Histories
    BY DEF GitInv, Progress
  <2>2. repo' \notin unread' =>
          blobsSeen' = (UNION {{history'[n][k][2] : k \in DOMAIN history'[n]} :
                               n \in 1..(commit' - 1)}) \ Outsized
    <3> DEFINE Met(h, m) == (UNION {{h[n][k][2] : k \in DOMAIN h[n]} : n \in 1..m}) \ Outsized
    <3>1. repo' \notin unread' => blobsSeen' = Met(history, commit)
      BY <1>1, <1>4, <1>10
    <3>2. repo' \notin unread' => blobsSeen' = Met(history', commit' - 1)
      <4> HIDE DEF Met
      <4> QED
        BY <1>1, <1>3, <3>1
    <3> QED
      BY <3>2
  <2>3. gstate' = "walking" =>
          /\ history' \in Histories /\ commit' \in 1..(Len(history') + 1)
          /\ \A w \in walked' : w[1] # repo'
    BY <1>1, <1>2, <1>3, <1>4
  <2>4. repo' \notin unread' => Recorded(repo, history, commit)'
    BY <1>1, <1>4, <1>10
  <2>5. \A w \in walked' : /\ w = <<w[1], w[2]>> /\ w[2] \in Histories
                           /\ w[1] \notin unread' => Recorded(w[1], w[2], Len(w[2]) + 1)'
    BY <1>1, <1>11, <2>1
  <2> QED
    BY <1>6, <2>2, <2>3, <2>4, <2>5 DEF Progress
<1> QED
  BY <1>7, <1>8, <1>9, <1>12 DEF GitInv

\* A commit whose blobs are not read: nothing is promised of the repository.
LEMMA UnreadCommitKeeps == ASSUME GitInv, WalkCommit(FALSE) PROVE GitInv'
<1>1. /\ gstate = "walking" /\ commit <= Len(history) /\ commit' = commit + 1
      /\ unread' = unread \union {repo}
      /\ UNCHANGED <<gstate, reposLeft, history, gerrors, blobsSeen, leaks, walked, dirs, orphans>>
  BY DEF WalkCommit
<1>2. /\ history \in Histories /\ commit \in 1..(Len(history) + 1) /\ Len(history) \in Nat
      /\ leaks \in Seq(LeakRow) /\ \A w \in walked : w[1] # repo
  BY <1>1, GitAssumption DEF GitInv, Progress, GitAssumption
<1>3. commit' \in 1..(Len(history) + 1)
  BY <1>1, <1>2
<1>4. repo \in Repos /\ repo' = repo
  BY <1>1 DEF GitInv, Directories, GitTypeOK, repo
<1>5. GitTypeOK'
  BY <1>1, <1>2, <1>3, <1>4 DEF GitInv, GitTypeOK
<1>6. OneEach'
  BY <1>1 DEF GitInv, OneEach, NothingOf
<1>7. Directories'
  BY <1>1, <1>4 DEF GitInv, Directories
<1>8. ASSUME NEW w \in walked, w[1] \notin unread' PROVE Recorded(w[1], w[2], Len(w[2]) + 1)'
  <2>1. Recorded(w[1], w[2], Len(w[2]) + 1)
    BY <1>1, <1>8 DEF GitInv, Progress
  <2> QED
    BY <1>1, <2>1, RecordedStays
<1>9. Progress'
  <2>1. \A w \in walked : w = <<w[1], w[2]>> /\ w[2] \in Histories
    BY DEF GitInv, Progress
  <2>2. repo' \in unread'
    BY <1>1, <1>4
  <2> QED
    BY <1>1, <1>2, <1>3, <1>4, <1>8, <2>1, <2>2 DEF Progress
<1> QED
  BY <1>5, <1>6, <1>7, <1>9 DEF GitInv

LEMMA GitAlways == GitSpec => []GitInv
<1>1. ASSUME GitInv, [GitNext]_gitVars PROVE GitInv'
  <2>1. CASE \E l \in RepoLists, g \in BOOLEAN : GitStart(l, g)
    BY <1>1, <2>1, GitStartKeeps
  <2>2. CASE Clone \/ Cloned \/ ListFails
    <3>1. reposLeft # <<>>
      BY <1>1, <2>2 DEF Clone, Cloned, ListFails, GitInv, Directories
    <3> QED
      BY <1>1, <2>2, <3>1, GoesOnKeeps DEF Clone, Cloned, ListFails, Told
  <2>3. CASE Walked
    BY <1>1, <2>3, WalkedKeeps
  <2>4. CASE GitDone
    <3>1. /\ reposLeft = <<>> /\ gstate = "between" /\ gstate' = "ended"
          /\ UNCHANGED <<reposLeft, history, commit, blobsSeen, leaks, gerrors, unread, walked,
                         dirs, orphans>>
      BY <2>4 DEF GitDone
    <3>2. GitTypeOK' /\ OneEach' /\ Directories'
      BY <1>1, <3>1 DEF GitInv, GitTypeOK, OneEach, Directories, repo
    <3>3. Progress'
      BY <1>1, <3>1, ProgressStays DEF GitInv
    <3> QED
      BY <3>2, <3>3 DEF GitInv
  <2>5. ASSUME NEW b \in BOOLEAN, CloneFails(b) \/ Verified(b) \/ GitStopped(b) PROVE GitInv'
    <3>1. reposLeft # <<>>
      BY <1>1, <2>5 DEF CloneFails, Verified, GitStopped, GitInv, Directories
    <3>2. \E next \in {"between", "ended"} : Leave(next)
      BY <2>5 DEF CloneFails, Verified, GitStopped
    <3>3. /\ gstate \notin {"idle", "ended"} /\ UNCHANGED <<leaks, walked, unread>>
          /\ gerrors' \subseteq gerrors \union {repo}
          /\ orphans \subseteq orphans' /\ orphans' \subseteq orphans \union {repo}
      BY <2>5 DEF CloneFails, Verified, GitStopped, Told
    <3> QED
      BY <1>1, <3>1, <3>2, <3>3, LeaveKeeps
  <2>6. ASSUME NEW b \in BOOLEAN, WalkCommit(b) PROVE GitInv'
    <3>1. CASE b = TRUE
      BY <1>1, <2>6, <3>1, ReadCommitKeeps
    <3>2. CASE b = FALSE
      BY <1>1, <2>6, <3>2, UnreadCommitKeeps
    <3> QED
      BY <3>1, <3>2
  <2>7. CASE \E h \in Histories : Listed(h)
    BY <1>1, <2>7, ListedKeeps
  <2>8. CASE UNCHANGED gitVars
    <3>1. UNCHANGED <<gstate, reposLeft, history, commit, blobsSeen, leaks, gerrors, unread,
                      walked, dirs, orphans>>
      BY <2>8 DEF gitVars
    <3>2. GitTypeOK' /\ OneEach' /\ Directories'
      BY <1>1, <3>1 DEF GitInv, GitTypeOK, OneEach, NothingOf, Directories, repo
    <3>3. \A r, h, n : Recorded(r, h, n) => Recorded(r, h, n)'
      BY <3>1, RecordedStays
    <3>4. Progress'
      BY <1>1, <3>1, <3>3 DEF GitInv, Progress, repo
    <3> QED
      BY <3>2, <3>4 DEF GitInv
  <2>9. \/ (\E l \in RepoLists, g \in BOOLEAN : GitStart(l, g))
        \/ (Clone \/ Cloned \/ ListFails) \/ Walked \/ GitDone
        \/ (\E b \in BOOLEAN : CloneFails(b) \/ Verified(b) \/ GitStopped(b))
        \/ (\E b \in BOOLEAN : WalkCommit(b))
        \/ (\E h \in Histories : Listed(h)) \/ UNCHANGED gitVars
    BY <1>1, Zenon DEF GitNext
  <2> QED
    BY <2>1, <2>2, <2>3, <2>4, <2>5, <2>6, <2>7, <2>8, <2>9
<1> QED
  BY <1>1, GitStarts, PTL DEF GitSpec

\* Whatever the repositories: the list left holds none of the platform's own,
\* the commit at hand is one of the history or just past it, and while a
\* repository is worked on there is a directory.
THEOREM GitTypes == GitSpec => []GitTypeOK
<1>1. GitInv => GitTypeOK
  BY DEF GitInv
<1> QED
  BY <1>1, GitAlways, PTL

\* The first place of a blob is the first of its occurrences.
LEMMA FirstIs ==
  ASSUME NEW h \in Histories, NEW m \in DOMAIN h, NEW k \in DOMAIN h[m], NEW b, FirstAt(h, m, k, b)
  PROVE  Occurs(h, b) # {} /\ FirstOf(Occurs(h, b)) = <<m, k>>
<1>1. /\ m \in Nat /\ k \in Nat /\ DOMAIN h = 1..Len(h) /\ Len(h) \in Nat
      /\ \A n \in DOMAIN h : Len(h[n]) \in Nat /\ DOMAIN h[n] = 1..Len(h[n])
  BY GitAssumption DEF GitAssumption
<1>2. \A p : p \in Occurs(h, b) <=>
        \E n \in DOMAIN h : \E j \in DOMAIN h[n] : h[n][j][2] = b /\ p = <<n, j>>
  BY DEF Occurs
<1>3. <<m, k>> \in Occurs(h, b)
  BY <1>2 DEF FirstAt
<1>4. ASSUME NEW n \in DOMAIN h, NEW j \in DOMAIN h[n], h[n][j][2] = b
      PROVE  m < n \/ (m = n /\ k <= j)
  <2>1. /\ n \in Nat /\ j \in Nat /\ n > 0 /\ j > 0
    BY <1>1
  <2>2. ~(n < m)
    <3>1. n < m => n \in 1..(m - 1)
      BY <1>1, <2>1
    <3> QED
      BY <1>4, <3>1 DEF FirstAt
  <2>3. m = n => ~(j < k)
    <3>1. j < k => j \in 1..(k - 1)
      BY <1>1, <2>1
    <3> QED
      BY <1>4, <3>1 DEF FirstAt
  <2> QED
    BY <1>1, <2>1, <2>2, <2>3
<1>5. \A q \in Occurs(h, b) : m < q[1] \/ (m = q[1] /\ k <= q[2])
  <2> TAKE q \in Occurs(h, b)
  <2>1. PICK n \in DOMAIN h : \E j \in DOMAIN h[n] : h[n][j][2] = b /\ q = <<n, j>>
    BY <1>2
  <2>2. PICK j \in DOMAIN h[n] : h[n][j][2] = b /\ q = <<n, j>>
    BY <2>1
  <2> QED
    BY <1>4, <2>2
<1>6. ASSUME NEW p \in Occurs(h, b),
             \A q \in Occurs(h, b) : p[1] < q[1] \/ (p[1] = q[1] /\ p[2] <= q[2])
      PROVE  p = <<m, k>>
  <2>1. PICK n \in DOMAIN h : \E j \in DOMAIN h[n] : h[n][j][2] = b /\ p = <<n, j>>
    BY <1>2, <1>6
  <2>2. PICK j \in DOMAIN h[n] : h[n][j][2] = b /\ p = <<n, j>>
    BY <2>1
  <2>3. n < m \/ (n = m /\ j <= k)
    <3>1. p[1] < m \/ (p[1] = m /\ p[2] <= k)
      BY <1>3, <1>6
    <3> QED
      BY <2>2, <3>1
  <2>4. m < n \/ (m = n /\ k <= j)
    BY <1>4, <2>2
  <2>5. n \in Nat /\ j \in Nat
    BY <1>1
  <2> QED
    BY <1>1, <2>2, <2>3, <2>4, <2>5
<1>7. /\ <<m, k>>[1] = m /\ <<m, k>>[2] = k
  OBVIOUS
<1>8. FirstOf(Occurs(h, b)) \in Occurs(h, b)
      /\ \A q \in Occurs(h, b) : \/ FirstOf(Occurs(h, b))[1] < q[1]
                                 \/ /\ FirstOf(Occurs(h, b))[1] = q[1]
                                    /\ FirstOf(Occurs(h, b))[2] <= q[2]
  BY <1>3, <1>5, <1>7 DEF FirstOf
<1> QED
  BY <1>3, <1>6, <1>8

\* Of every history that was read whole, each secret has exactly one row, which
\* names its first commit and the path it had there, or none if that path is a
\* fixture's, whatever the repositories share and in whatever order they come;
\* no directory outlives the module unless a git still writes to it, and the
\* platform's own repositories are not cloned (git_secrets.run).
THEOREM SecretsAreFound == GitSpec => []SecretsFound
<1>1. GitInv => SecretsFound
  <2> SUFFICES ASSUME GitInv PROVE SecretsFound
    OBVIOUS
  <2>1. /\ gstate = "ended" => dirs \subseteq orphans
        /\ dirs \intersect SelfRepos = {}
    BY DEF GitInv, Directories
  <2>2. ASSUME NEW w \in walked, w[1] \notin unread, NEW b \in Scannable
        PROVE
         LET at   == Occurs(w[2], b)
             rows == {i \in DOMAIN leaks : leaks[i][1] = w[1] /\ leaks[i][4] = b}
             p    == FirstOf(at)
             path == w[2][p[1]][p[2]][1]
         IN  IF at = {} \/ (at # {} /\ path \in Fixtures) THEN rows = {}
             ELSE Cardinality(rows) = 1 /\ \A i \in rows : leaks[i] = <<w[1], p[1], path, b>>
    <3> DEFINE at == Occurs(w[2], b)
               rows == {i \in DOMAIN leaks : leaks[i][1] = w[1] /\ leaks[i][4] = b}
               p    == FirstOf(at)
               path == w[2][p[1]][p[2]][1]
    <3>1. /\ w[2] \in Histories /\ Recorded(w[1], w[2], Len(w[2]) + 1)
      BY <2>2 DEF GitInv, Progress
    <3>2. rows = HitsOf(w[1], b)
      BY DEF HitsOf
    <3>3. DOMAIN w[2] = 1..((Len(w[2]) + 1) - 1)
      <4>1. Len(w[2]) \in Nat /\ DOMAIN w[2] = 1..Len(w[2])
        BY <3>1, GitAssumption DEF GitAssumption
      <4> QED
        BY <4>1
    <3>4. \/ /\ rows = {} /\ \A m \in DOMAIN w[2] : \A k \in DOMAIN w[2][m] : w[2][m][k][2] # b
          \/ \E m \in DOMAIN w[2] : \E k \in DOMAIN w[2][m] :
               /\ FirstAt(w[2], m, k, b)
               /\ IF w[2][m][k][1] \in Fixtures THEN rows = {}
                  ELSE \E i \in DOMAIN leaks : /\ rows = {i}
                                               /\ leaks[i] = <<w[1], m, w[2][m][k][1], b>>
      <4> HIDE DEF rows
      <4> QED
        BY <2>2, <3>1, <3>2, <3>3 DEF Recorded
    <3>5. CASE rows = {} /\ \A m \in DOMAIN w[2] : \A k \in DOMAIN w[2][m] : w[2][m][k][2] # b
      <4>1. at = {}
        BY <3>5 DEF Occurs
      <4> QED
        BY <3>5, <4>1
    <3>6. ASSUME NEW m \in DOMAIN w[2], NEW k \in DOMAIN w[2][m], FirstAt(w[2], m, k, b),
                 IF w[2][m][k][1] \in Fixtures THEN rows = {}
                 ELSE \E i \in DOMAIN leaks : /\ rows = {i}
                                              /\ leaks[i] = <<w[1], m, w[2][m][k][1], b>>
          PROVE  IF at = {} \/ (at # {} /\ path \in Fixtures) THEN rows = {}
                 ELSE Cardinality(rows) = 1 /\ \A i \in rows : leaks[i] = <<w[1], p[1], path, b>>
      <4>1. at # {} /\ p = <<m, k>>
        BY <3>1, <3>6, FirstIs
      <4>2. p[1] = m /\ path = w[2][m][k][1]
        BY <4>1
      <4> HIDE DEF at, rows, p, path
      <4>3. CASE path \in Fixtures
        BY <3>6, <4>1, <4>2, <4>3
      <4>4. CASE path \notin Fixtures
        <5>1. PICK i \in DOMAIN leaks : rows = {i} /\ leaks[i] = <<w[1], m, w[2][m][k][1], b>>
          BY <3>6, <4>2, <4>4
        <5>2. Cardinality(rows) = 1
          BY <5>1, FS_Singleton
        <5> QED
          BY <4>1, <4>2, <4>4, <5>1, <5>2
      <4> QED
        BY <4>3, <4>4
    <3> QED
      BY <3>4, <3>5, <3>6
  <2>3. ASSUME NEW w \in walked, NEW b \in SecretBlobs \ Scannable
        PROVE  {i \in DOMAIN leaks : leaks[i][1] = w[1] /\ leaks[i][4] = b} = {}
    <3>1. ASSUME NEW i \in DOMAIN leaks PROVE leaks[i][4] \in Scannable
      <4>1. leaks[i] \in LeakRow
        BY DEF GitInv, Progress
      <4> QED
        BY <4>1 DEF LeakRow
    <3> QED
      BY <3>1
  <2> QED
    BY <2>1, <2>2, <2>3 DEF SecretsFound
<1> QED
  BY <1>1, GitAlways, PTL

=============================================================================
