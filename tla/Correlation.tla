---------------------------- MODULE Correlation ----------------------------
(***************************************************************************)
(* The correlation engine (recon/correlation/engine.py): evidence, which   *)
(* modules only ever add, is folded into the asset graph after the passive *)
(* phase and at the end of every run.  The order of the rows is that of    *)
(* their random ids, so a new row may come before any older one.           *)
(*                                                                         *)
(* Two runs of one engagement correlate at the same time.  SQLite opens a  *)
(* transaction with the first row it writes: what a correlation reads      *)
(* before its first missing asset it reads outside of it.                  *)
(***************************************************************************)
EXTENDS Integers, FiniteSets, Sequences, SequencesExt

CONSTANTS CorrRows,    \* evidence rows a module may write
          Correlators, \* runs that correlate the engagement
          DeepHosts,   \* host names with two dots or more
          DomainOf,    \* the parent domain of each deep host
          ExcludedIps, \* addresses in an excluded CIDR
          MaxEvidence  \* bound: rows written

RowSubjects == {"subdomain", "a", "cname", "url", "url_title", "host_title", "weak"}
Ranks       == 0..2      \* informational, notable, high value

ASSUME CorrAssumption ==
  /\ \A r \in CorrRows : r.subject \in RowSubjects /\ r.interest \in Ranks
  /\ \A h \in DeepHosts : DomainOf[h] \notin DeepHosts
  /\ MaxEvidence \in Nat

VARIABLES evidence,   \* the rows of the engagement, in the order of their ids
          assets,     \* asset identity (type, value) |-> its scores
          edges,      \* relationships
          attached,   \* row |-> the asset it supports
          correlator, \* what each correlation has read
          folded,     \* history: the rows the last commit folded
          known,      \* history: every row a commit folded
          clean       \* history: nothing was committed while the last
                      \* correlation to commit was reading

corrVars == <<evidence, assets, edges, attached, correlator, folded, known, clean>>

-----------------------------------------------------------------------------
(* Routing: what one row says *)

HostKey(h) == <<IF h \in DeepHosts THEN "subdomain" ELSE "domain", h>>

\* The assets a row is evidence of, in the order they are met.  Headers,
\* titles and the like describe an asset and are none.
KeysOf(r) ==
  CASE r.subject = "subdomain" -> << <<"subdomain", r.host>> >>
    [] r.subject = "a"         -> <<HostKey(r.host), <<"ip", r.to>> >>
    [] r.subject = "cname"     -> <<HostKey(r.host), HostKey(r.to)>>
    [] r.subject = "url"       -> << <<"url", r.host>> >>
    [] r.subject = "weak"      -> << <<"finding", r.host>> >>
    [] OTHER                   -> <<>>

\* The hint of a CNAME calls its target a subdomain whatever its name, while
\* the asset above goes by the dots.
HintsOf(r) ==
  CASE r.subject = "subdomain" /\ r.host \in DeepHosts ->
         {[from |-> <<"subdomain", r.host>>, rel |-> "subdomain_of",
           to |-> <<"domain", DomainOf[r.host]>>]}
    [] r.subject = "a" ->
         {[from |-> HostKey(r.host), rel |-> "resolves_to", to |-> <<"ip", r.to>>]}
    [] r.subject = "cname" ->
         {[from |-> HostKey(r.host), rel |-> "resolves_to", to |-> <<"subdomain", r.to>>]}
    [] OTHER -> {}

IsAttribute(r) == r.subject \in {"url_title", "host_title"}

-----------------------------------------------------------------------------
(* What an asset is worth *)

About(rows, k) == {r \in ToSet(rows) : k \in ToSet(KeysOf(r))}
Groups(rows)   == UNION {ToSet(KeysOf(r)) : r \in ToSet(rows)}
AllHints(rows) == UNION {HintsOf(r) : r \in ToSet(rows)}

ByRow(rs)   == Cardinality(rs)
BySource(rs) == Cardinality({r.source : r \in rs})

\* Percent; 30 for an asset that only a hint or an attribute speaks of.
Level(n) == IF n = 0 THEN 30 ELSE Min({100, 50 + 25 * (n - 1)})

Confidence_ByRow(rs) == Level(ByRow(rs))

Confidence(rs) == Level(BySource(rs))

\* The rank of the interest: what the rows say, at least notable for a
\* finding.
Interest(k, rs) ==
  Max({r.interest : r \in rs} \union {IF k[1] = "finding" THEN 1 ELSE 0})

\* ScopeManager.classify with the addresses the host resolves to: an
\* exclusion wins.
ScopeOf(k, rows) ==
  LET ips == IF k[1] = "ip" THEN {k[2]}
             ELSE {hint.to[2] : hint \in {g \in AllHints(rows) :
                       g.rel = "resolves_to" /\ g.to[1] = "ip" /\ g.from[2] = k[2]}}
  IN  IF k[1] = "finding" THEN "n/a"
      ELSE IF ips \intersect ExcludedIps # {} THEN "excluded" ELSE "in_scope"

Asset(k, rows, rs) ==
  [conf |-> Confidence(rs), interest |-> Interest(k, rs), scope |-> ScopeOf(k, rows)]

\* The parent of an attribute: a URL by itself, then the host by either
\* type; when there is none it is made up, and the next attribute may find it.
Parents(rows) ==
  LET Ref(r)  == IF r.subject = "url_title" THEN <<"url", r.host>> ELSE HostKey(r.host)
      Step(p, r) ==
        IF ~IsAttribute(r) THEN p
        ELSE LET found == SelectSeq(<<Ref(r), <<"subdomain", r.host>>, <<"domain", r.host>> >>,
                                    LAMBDA k : k \in p.ids)
                 k     == IF found = <<>> THEN Ref(r) ELSE Head(found)
             IN  [ids |-> p.ids \union {k}, of |-> [p.of EXCEPT ![r] = k]]
  IN  FoldLeft(Step, [ids |-> Groups(rows),
                      of |-> [r \in {q \in ToSet(rows) : IsAttribute(q)} |-> <<>>]], rows)

\* Everything the correlation touches: the groups, the parents of the
\* attributes, and the endpoints of the hints.
ParentsOf(rows) == {Parents(rows).of[r] : r \in {q \in ToSet(rows) : IsAttribute(q)}}
Endpoints(rows) == UNION {{g.from, g.to} : g \in AllHints(rows)}
Touched(rows)   == Groups(rows) \union ParentsOf(rows) \union Endpoints(rows)

\* Its queries in their order; those for the endpoints come last, in no order.
Queries(rows) ==
  FlattenSeq([i \in DOMAIN rows |-> KeysOf(rows[i])])
    \o LET ps == Parents(rows)
           at == SelectSeq(rows, IsAttribute)
       IN  [i \in DOMAIN at |-> ps.of[at[i]]]

-----------------------------------------------------------------------------
(* _upsert_asset *)

Upsert_Sum(now, read, new) ==
  [new EXCEPT !.conf = Min({100, now.conf + @}), !.interest = Max({now.interest, @})]

Upsert_KeepsScope(now, read, new) ==
  [conf |-> Max({now.conf, new.conf}), interest |-> Max({now.interest, new.interest}),
   scope |-> now.scope]

\* The row that was read is updated in memory; only the columns that change
\* are written, over whatever the row says by then.
Upsert(now, read, new) ==
  LET want == [new EXCEPT !.conf = Max({@, read.conf}),
                          !.interest = Max({@, read.interest})]
      Column(f) == IF want[f] # read[f] THEN want[f] ELSE now[f]
  IN  [conf |-> Column("conf"), interest |-> Column("interest"), scope |-> Column("scope")]

\* The graph after a correlation of the rows that had read `early` outside
\* its transaction.
Fold(rows, graph, early) ==
  [k \in DOMAIN graph \union Touched(rows) |->
     IF k \notin Touched(rows) THEN graph[k]
     ELSE LET new == Asset(k, rows, About(rows, k)) IN
          IF k \notin DOMAIN graph THEN new
          ELSE Upsert(graph[k], IF k \in DOMAIN early THEN early[k] ELSE graph[k], new)]

EdgesOf(rows) == {g \in AllHints(rows) : g.from # g.to}

\* A row of several assets points to the last of them.
AttachedTo(rows) ==
  LET ps == Parents(rows)
  IN  [r \in ToSet(rows) |-> IF IsAttribute(r) THEN ps.of[r] ELSE Last(KeysOf(r))]

-----------------------------------------------------------------------------
(* The engagement *)

NoReading == [at |-> "idle", rows |-> <<>>, early |-> <<>>, first |-> <<>>, raced |-> FALSE]

CorrInit ==
  /\ evidence = <<>> /\ assets = <<>> /\ edges = {} /\ attached = <<>>
  /\ correlator = [c \in Correlators |-> NoReading]
  /\ folded = <<>> /\ known = {} /\ clean = TRUE

\* A module writes a row, under an id that puts it anywhere.
AddRow(r, i) ==
  /\ Len(evidence) < MaxEvidence
  /\ r \notin ToSet(evidence) /\ i \in 1..(Len(evidence) + 1)
  /\ evidence' = InsertAt(evidence, i, r)
  /\ UNCHANGED <<assets, edges, attached, correlator, folded, known, clean>>

\* correlate reads the rows, then the assets one after the other: n queries
\* find theirs, the next one is the first that does not (<<>>: they all do).
CorrBegin(c) ==
  LET queries == Queries(evidence)
      missing == Endpoints(evidence) \ DOMAIN assets
  IN  /\ correlator[c].at = "idle" /\ evidence # <<>>
      /\ \E n \in 0..Len(queries) :
           LET found == ToSet(SubSeq(queries, 1, n)) IN
           /\ found \subseteq DOMAIN assets
           /\ \E first \in IF n < Len(queries) THEN {queries[n + 1]} \ DOMAIN assets
                           ELSE IF missing # {} THEN missing ELSE {<<>>} :
                correlator' = [correlator EXCEPT ![c] =
                  [at |-> "read", rows |-> evidence, first |-> first, raced |-> FALSE,
                   early |-> [k \in found |-> assets[k]]]]
      /\ UNCHANGED <<evidence, assets, edges, attached, folded, known, clean>>

\* The first insert takes the write lock, the rest is read and written under
\* it, and the session is committed.
CorrCommit(c) ==
  LET me  == correlator[c]
      now == AttachedTo(me.rows) IN
  /\ me.at = "read" /\ (me.first = <<>> \/ me.first \notin DOMAIN assets)
  /\ assets' = Fold(me.rows, assets, me.early)
  /\ edges' = edges \union EdgesOf(me.rows)
  /\ attached' = [r \in DOMAIN attached \union ToSet(me.rows) |->
                    IF r \in ToSet(me.rows) THEN now[r] ELSE attached[r]]
  /\ correlator' = [d \in Correlators |->
       IF d = c \/ correlator[d].at = "idle" THEN NoReading
       ELSE [correlator[d] EXCEPT !.raced = TRUE]]
  /\ folded' = me.rows
  /\ known' = known \union ToSet(me.rows)
  /\ clean' = ~me.raced
  /\ UNCHANGED evidence

\* Another correlation created the asset first: the insert breaks
\* uq_asset_identity, every later statement of the session is refused, and
\* the run is FAILED.
CorrAbort(c) ==
  /\ correlator[c].at = "read"
  /\ correlator[c].first # <<>> /\ correlator[c].first \in DOMAIN assets
  /\ correlator' = [correlator EXCEPT ![c] = NoReading]
  /\ UNCHANGED <<evidence, assets, edges, attached, folded, known, clean>>

CorrNext ==
  \/ \E r \in CorrRows, i \in 1..MaxEvidence : AddRow(r, i)
  \/ \E c \in Correlators : CorrBegin(c) \/ CorrCommit(c) \/ CorrAbort(c)

CorrSpec == CorrInit /\ [][CorrNext]_corrVars
-----------------------------------------------------------------------------
(* Properties *)

CorrTypeOK ==
  /\ ToSet(evidence) \subseteq CorrRows /\ Len(evidence) <= MaxEvidence
  /\ \A k \in DOMAIN assets :
       assets[k] \in [conf : {30, 50, 75, 100}, interest : Ranks,
                     scope : {"in_scope", "excluded", "n/a"}]
  /\ \A g \in edges : {g.from, g.to} \subseteq DOMAIN assets
  /\ DOMAIN attached = known /\ \A r \in known : attached[r] \in DOMAIN assets
  /\ ToSet(folded) \subseteq known /\ known \subseteq ToSet(evidence)

\* Correlating the same evidence once more changes nothing ("Idempotent -
\* safe to run repeatedly", engine.py:6): parents and hint targets that were
\* made up the first time are found the second time, and scores merge to
\* themselves - once a correlation ran with no other beside it.
GraphSettles ==
  clean => Fold(folded, assets, <<>>) = assets /\ EdgesOf(folded) \subseteq edges

\* The confidence of an asset is that of its independent sources, (module,
\* source) pairs counted once however many rows, runs and correlations repeat
\* them: never more, and exactly that after a correlation of everything known
\* that ran alone (_distinct_sources, the max of _upsert_asset).
ConfidenceEarned ==
  \A k \in DOMAIN assets :
    LET earned == Level(BySource({r \in known : k \in ToSet(KeysOf(r))}))
    IN  /\ assets[k].conf <= earned
        /\ clean /\ ToSet(folded) = known => assets[k].conf = earned

\* A host that is known to resolve into an excluded network is not offered
\* as in scope, under any of its identities the evidence speaks of, even when
\* it was in scope before its address was known (_classify on every upsert).
ExcludedNotOffered ==
  clean /\ ToSet(folded) = known =>
    \A r \in known : r.subject = "a" /\ r.to \in ExcludedIps =>
      \A k \in Groups(folded) :
        k[2] = r.host /\ k[1] \notin {"finding", "ip"} => assets[k].scope = "excluded"
=============================================================================
