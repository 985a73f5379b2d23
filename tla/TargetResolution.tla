-------------------------- MODULE TargetResolution --------------------------
(***************************************************************************)
(* resolve_targets (recon/modules/_targets.py): the one place where an     *)
(* active module's targets come from - the rules of engagement, this run's *)
(* evidence, and, when asked for, the assets of earlier runs - classified, *)
(* and accounted for when they are left out.                               *)
(***************************************************************************)
EXTENDS ModuleWork

\* A candidate names a value, how it was learned and the addresses its row
\* gave it.  Evidence of an earlier run names none.
Candidate(v, type, kind, ips) == [value |-> v, type |-> type, kind |-> kind, ips |-> ips]

FromFact(f) ==
  CASE f.what = "a"    -> {Candidate(f.host, "hostname", "current", {f.ip}),
                           Candidate(f.ip, "ip", "current", {})}
    [] f.what = "name" -> {Candidate(f.host, "hostname", "current", {})}
    [] f.what = "odd"  -> {Candidate("odd", "hostname", "current", {})}
    [] f.what = "asset_host" -> {Candidate(f.host, "hostname", "prior", {})}
    [] f.what = "asset_ip"   -> {Candidate(f.ip, "ip", "prior", {})}
    [] OTHER -> {}

FromRoe == {Candidate(h, "hostname", "roe", {}) : h \in RoeHosts}

KindRank(c) == CASE c.kind = "current" -> 0 [] c.kind = "roe" -> 1 [] OTHER -> 2

\* Neither an address, a network of at most 256 of them (a host of NetworkOf)
\* nor a plain host name: never handed to a tool.
Unsafe(v) == v \notin Hosts \union Addresses

Reason(c) ==
  IF Unsafe(c.value) THEN "unsafe_form"
  ELSE LET s == Classify(c.value, c.ips)
       IN  IF s = "excluded" THEN "excluded_explicit"
           ELSE IF s = "flagged" /\ ~override THEN "excluded_out_of_scope"
           ELSE "none"

Key(c) == <<c.type, c.value>>

\* _stash: of the candidates for one value one of the best source stays, the
\* first in the order of the rows.
BestOf(cs) ==
  LET best == {c \in cs : \A d \in cs : Key(d) = Key(c) => KindRank(c) <= KindRank(d)}
  IN  {CHOOSE c \in best : Key(c) = k : k \in {Key(d) : d \in cs}}

Uncovered(best) ==
  {n \in ScopeCidrs : ~\E c \in best : c.type = "ip" /\ c.value \in n}

Resolution_Strict(types, prior) ==
  LET cs   == {c \in FromRoe \union UNION {FromFact(f) : f \in facts} :
                 c.type \in types /\ (prior \/ c.kind # "prior")}
      best == BestOf({c \in cs : Reason(c) = "none"})
  IN  [eligible |-> best,
       excluded |-> {c \in BestOf({d \in cs : Reason(d) # "none"}) :
                       Reason(c) = "excluded_explicit"},
       uncovered |-> {}]

\* A value is eligible when one of its candidates is, and is listed as
\* excluded when none is.
Resolution(types, prior) ==
  LET cs   == {c \in FromRoe \union UNION {FromFact(f) : f \in facts} :
                 c.type \in types /\ (prior \/ c.kind # "prior")}
      best == BestOf({c \in cs : Reason(c) = "none"})
  IN  [eligible |-> best,
       excluded |-> {c \in BestOf({d \in cs : Reason(d) # "none"}) :
                       Key(c) \notin {Key(b) : b \in best}},
       uncovered |-> IF "ip" \in types THEN Uncovered(best) ELSE {}]

EligibleValues(r) == {c.value : c \in r.eligible}

\* TargetResolution.accounting: what the run page shows of it.
Accounting(r) ==
  [eligible |-> Cardinality(r.eligible),
   sources  |-> {c.kind : c \in r.eligible},
   reasons  |-> {Reason(c) : c \in r.excluded}
                  \union (IF r.uncovered = {} THEN {} ELSE {"unaccounted_cidr"})]

-----------------------------------------------------------------------------
(* Property *)

\* Whatever is known, in whatever order it was learned: each value somebody
\* named is either a target or listed once with a reason, never both; no target
\* is excluded by its name or its own address, or out of scope but for an A
\* record that leads into it.  A target may be known to be at an excluded address,
\* if another row keeps it, as that of the rules of engagement does.  A target
\* that this run found, at no excluded address, is not credited to an earlier
\* run; and an in-scope network without a target in it is listed (no green run
\* over nothing).
TargetsAccounted ==
  LET types == {"ip", "hostname"}
      r     == Resolution(types, TRUE)
      named == {Key(c) : c \in FromRoe \union UNION {FromFact(f) : f \in facts}}
      in    == {Key(c) : c \in r.eligible}
      out   == {Key(c) : c \in r.excluded}
  IN  /\ in \union out = named /\ in \intersect out = {}
      /\ \A c, d \in r.eligible \union r.excluded : Key(c) = Key(d) => c = d
      /\ \A c \in r.eligible : Allowed("port_scan", c.value)
      /\ \A c \in r.eligible : c.kind = "prior" =>
           \A f \in facts : f.what = "name" \/ (f.what = "a" /\ f.ip \notin ExcludedNets)
                              => f.host # c.value
      /\ \A n \in ScopeCidrs :
           n \in r.uncovered \/ \E v \in EligibleValues(r) : v \in n
=============================================================================
