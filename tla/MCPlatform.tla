----------------------------- MODULE MCPlatform -----------------------------
(* Small instances of the components that share no state with each other: a   *)
(* behaviour is a behaviour of one of them, the focus, and the others rest.   *)
EXTENDS Correlation, ScanDiff, MCModules, Crawl, GitSecrets, Accounts,
        CveIndex, TLC

VARIABLE focus
allVars == <<corrVars, diffVars, workVars, crawlVars, gitVars, accVars, cveVars, focus>>

-----------------------------------------------------------------------------
(* Correlation: one host, its address, an alias and a URL of it, from several *)
(* sources of different trust.                                                *)

Row(s, h, t, so, i) ==
  [subject |-> s, host |-> h, to |-> t, source |-> so, interest |-> i]
MCRows ==
  {Row("subdomain", "h", "-", "crt", 0), Row("subdomain", "h", "-", "otx", 1),
   Row("a", "h", "x", "dns", 0), Row("url_title", "h", "-", "http", 0),
   Row("host_title", "h", "-", "probe", 0), Row("cname", "h", "d", "dns", 0),
   Row("url", "h", "-", "crawl", 2)}
MCDomainOf == [h \in {"h"} |-> "d"]
Sym == Permutations(Correlators) \union Permutations(DiffRuns)
         \union Permutations(Refreshers)

MCSignatures == {<<"host", "-">>, <<"port", "1">>, <<"port", "2">>}

-----------------------------------------------------------------------------
(* The crawl of two hosts, with four orders of seeds over the webs that the   *)
(* choice of each page's links gives.                                         *)

MCUrls == {"a", "b", "c", "d", "x", "out"}
MCHostOf == [u \in MCUrls |-> IF u = "x" THEN "h2" ELSE IF u = "out" THEN "h3" ELSE "h1"]
MCSeeds == {<<"a">>, <<"a", "x">>, <<"b", "a">>, <<"a", "b", "x">>}
MCSites ==
  {[a |-> la, b |-> lb, c |-> lc, d |-> <<"a", "c">>, x |-> lx, out |-> <<"a">>] :
     la \in {<<"b", "c">>, <<"c", "b", "x">>, <<"out", "b">>},
     lb \in {<<"d", "a">>, <<"c">>, <<>>}, lc \in {<<"d">>, <<"b", "d">>},
     lx \in {<<"a">>, <<"x">>}}

-----------------------------------------------------------------------------
(* Repositories that share blobs: a secret that moves, one first seen at a    *)
(* fixture path, one twice in a commit, a merge, a binary, one too big.       *)

MCRepoLists == {<<>>, <<"r1", "self", "r2">>, <<"r2", "r2", "r1">>}
MCHistories ==
  {<<>>,
   << << <<"src", "k">>, <<"tests", "j">> >>, <<>>,
      << <<"src", "t">>, <<"src2", "k">> >> >>,
   << << <<"tests", "k">> >>, << <<"src", "k">> >>,
      << <<"src", "j">>, <<"src2", "j">>, <<"src", "bin">>, <<"src", "big">> >> >>}

-----------------------------------------------------------------------------
(* Two CVEs in feeds that differ in band and in KEV, two services of one      *)
(* product, one of them of unknown version.                                   *)

Cpe(p, s, e) == [product |-> p, from |-> s, fromIn |-> TRUE, to |-> e, toIn |-> e = <<1, 24>>]
MCCpeOf ==
  [c \in {"v1", "v2"} |->
     IF c = "v1" THEN {Cpe("web", <<1, 9>>, <<1, 24, 3>>)}
     ELSE {Cpe("web", << >>, <<1, 24>>), Cpe("ssh", <<8>>, << >>)}]
Service(a, p, v) == [at |-> a, product |-> p, version |-> v]
MCServices == {Service("h:80", "web", <<1, 24>>), Service("h:81", "web", << >>)}
Feed(kev, a, b) == [kev |-> kev, band |-> [v \in {"v1", "v2"} |-> IF v = "v1" THEN a ELSE b]]
MCCatalogue == <<"v1", "v2">>
MCFeeds     == {Feed({"v1"}, "HIGH", "HIGH"), Feed({"v2"}, "CRITICAL", "LOW")}
MCLinked    == {[cve |-> "v2", ports |-> {"i1:443"}]}
MCLibraries == {[package |-> "vue", version |-> "2", url |-> u] : u \in {"p", "q"}}

-----------------------------------------------------------------------------

Init ==
  /\ CorrInit /\ DiffInit /\ WorkInit /\ CrawlInit /\ GitInit /\ AccInit /\ CveInit
  /\ focus \in {"correlation", "diff", "modules", "crawl", "git", "accounts", "cve"}
  /\ focus = "crawl" \/ site = CHOOSE s \in Sites : TRUE
  /\ focus = "cve" \/ feed = CHOOSE f \in Feeds : TRUE

CorrOnly == focus = "correlation" /\ CorrNext
  /\ UNCHANGED <<diffVars, workVars, crawlVars, gitVars, accVars, cveVars, focus>>
DiffOnly == focus = "diff" /\ DiffNext
  /\ UNCHANGED <<corrVars, workVars, crawlVars, gitVars, accVars, cveVars, focus>>
WorkOnly == focus = "modules" /\ WorkNext
  /\ UNCHANGED <<corrVars, diffVars, crawlVars, gitVars, accVars, cveVars, focus>>
CrawlOnly == focus = "crawl" /\ CrawlNext
  /\ UNCHANGED <<corrVars, diffVars, workVars, gitVars, accVars, cveVars, focus>>
GitOnly == focus = "git" /\ GitNext
  /\ UNCHANGED <<corrVars, diffVars, workVars, crawlVars, accVars, cveVars, focus>>
AccOnly == focus = "accounts" /\ AccNext
  /\ UNCHANGED <<corrVars, diffVars, workVars, crawlVars, gitVars, cveVars, focus>>
CveOnly == focus = "cve" /\ CveNext
  /\ UNCHANGED <<corrVars, diffVars, workVars, crawlVars, gitVars, accVars, focus>>

Next == CorrOnly \/ DiffOnly \/ WorkOnly \/ CrawlOnly \/ GitOnly \/ AccOnly \/ CveOnly

Spec == Init /\ [][Next]_allVars

-----------------------------------------------------------------------------

\* The types of the components' states.
PlatformTypeOK ==
  CASE focus = "correlation" -> CorrTypeOK [] focus = "diff" -> DiffTypeOK
    [] focus = "crawl" -> CrawlTypeOK [] focus = "git" -> GitTypeOK
    [] focus = "accounts" -> AccTypeOK [] focus = "cve" -> CveTypeOK [] OTHER -> TRUE
=============================================================================
