---------------------------- MODULE WebModules ----------------------------
(***************************************************************************)
(* The passive modules that ask web servers through the HTTP client:       *)
(* probe_http, http_analyzer, tech_fingerprint and js_analyzer             *)
(* (recon/modules/passive/).  The crawler has a module of its own, Crawl.  *)
(***************************************************************************)
EXTENDS ModuleWork

CONSTANTS
  WebBatch,   \* probe_http: hosts probed at a time
  Secrets     \* what a script may give away, up to its redacted form

ASSUME WebAssumption == WebBatch \in Nat \ {0}

Schemes == {"https", "http"}

-----------------------------------------------------------------------------
(* probe_http: batches of hosts, gathered; https first *)

ProbeStart ==
  /\ Starts("probe_http") /\ at' = "work"
  /\ todo' = {h \in Named \union KnownIps : MayTouch(h)}
  /\ seen' = {} /\ NoNotes /\ NoAudits /\ NoTouches /\ GoesOn
  /\ UNCHANGED spent

\* In a batch, each host is a coroutine: <<host, scheme, what it does next>>.
ProbeBatch(hs) ==
  /\ In("probe_http", "work") /\ seen = {} /\ hs # {} /\ hs \subseteq todo
  /\ Cardinality(hs) = IF Cardinality(todo) < WebBatch THEN Cardinality(todo) ELSE WebBatch
  /\ Goes("batch")
  /\ todo' = todo \ hs /\ seen' = hs \X {"https"} \X {"ask"}
  /\ UNCHANGED <<spent, touched, audited, noted, tool, ended>>

Coroutine(h, s, does) ==
  mod = "probe_http" /\ ended # "cut" /\ <<h, s, does>> \in seen

\* A coroutine goes on as rest.  It may outlive the module that gathered it,
\* unless that was cancelled.
Left(h, rest) ==
  /\ seen' = {c \in seen : c[1] # h} \union rest
  /\ at' = IF at = "batch" /\ seen' = {} THEN "work" ELSE at
  /\ UNCHANGED <<facts, override, mod, todo, spent, audited, tool, ended>>

\* https answered ends the host; so does http.
ProbeAnswers(h, s) ==
  /\ Coroutine(h, s, "ask") /\ Left(h, {<<h, s, "url">>})
  /\ Touches({h}) /\ NoNotes

\* Row after row of what it answered, each of them awaited.
NextRow == [url |-> {"service"}, service |-> {"redirect", "tech", "liveness"},
            redirect |-> {"tech", "liveness"}, tech |-> {"liveness"}]

ProbeRow(h, s, row, next) ==
  /\ Coroutine(h, s, row) /\ next \in NextRow[row]
  /\ Left(h, {<<h, s, next>>})
  /\ Notes({<<row, <<h, s>> >>}) /\ NoTouches

\* The host is live.
ProbeLive(h, s) ==
  /\ Coroutine(h, s, "liveness") /\ Left(h, {})
  /\ Notes({<<"live", h>>}) /\ NoTouches

\* Nobody answers: quietly, or with a note after a time-out.
ProbeFails(h, s, timeout) ==
  /\ Coroutine(h, s, "ask")
  /\ Left(h, {IF s = "https" THEN <<h, "http", "ask">> ELSE <<h, s, "silent">>})
  /\ Touches({h})
  /\ IF timeout THEN Notes({<<"timeout", <<h, s>> >>}) ELSE NoNotes

ProbeSilent_First(h) ==
  /\ \E s \in Schemes : Coroutine(h, s, IF s = "https" THEN "ask" ELSE "silent")
  /\ Left(h, {c \in seen : c[1] = h /\ c[2] = "https"})
  /\ Notes({<<"silent", h>>}) /\ NoTouches

\* After the second scheme the host is recorded as silent.
ProbeSilent(h) ==
  /\ Coroutine(h, "http", "silent") /\ Left(h, {})
  /\ Notes({<<"silent", h>>}) /\ NoTouches

\* A redirect leaves the scope: the host is left without a liveness row.
ProbeRefused(h, s) ==
  /\ Coroutine(h, s, "ask") /\ ~override /\ Left(h, {})
  /\ Touches({h}) /\ NoNotes

\* check_alive raises as a coroutine begins: gather lets the others go on.
ProbeStops(h) ==
  /\ In("probe_http", "batch") /\ <<h, "https", "ask">> \in seen
  /\ seen' = seen \ {<<h, "https", "ask">>} /\ Ends("stopped")
  /\ UNCHANGED <<facts, override, mod, at, todo, spent, touched, audited, noted, tool>>

-----------------------------------------------------------------------------
(* http_analyzer: every known host, both schemes, no filter of its own *)

AnalyzerStart ==
  /\ Starts("http_analyzer") /\ at' = "work"
  /\ todo' = (Named \union RoeHosts) \X Schemes
  /\ seen' = {} /\ NoNotes /\ NoAudits /\ NoTouches /\ GoesOn
  /\ UNCHANGED spent

\* The host is done with one scheme before the other, https first.
AnalyzerTurn(h, s) ==
  /\ In("http_analyzer", "work") /\ <<h, s>> \in todo
  /\ \A c \in todo : c[1] # h => {c[1]} \X Schemes \subseteq todo
  /\ s = "http" => <<h, "https">> \notin todo

\* Refused by the scope gate, or no answer: an error row and nothing more.
AnalyzerError(h, s) ==
  /\ AnalyzerTurn(h, s) /\ Stays /\ todo' = todo \ {<<h, s>>}
  /\ Notes({<<"error", <<h, s>> >>})
  /\ IF MayRequest(h) THEN Touches({h}) ELSE NoTouches
  /\ UNCHANGED <<seen, spent, audited, tool, ended>>

\* An answer: its URL, headers, cookies, technology; whatever OPTIONS brings;
\* and the handshake of https is next.
AnalyzerAnswers(h, s, methods) ==
  /\ AnalyzerTurn(h, s) /\ MayRequest(h)
  /\ Goes(IF s = "https" THEN "tls" ELSE "work")
  /\ todo' = todo \ {<<h, s>>} /\ seen' = IF s = "https" THEN {h} ELSE {}
  /\ Touches({h})
  /\ Notes({<<"headers", <<h, s>> >>, <<IF methods THEN "methods" ELSE "no_options", <<h, s>> >>})
  /\ UNCHANGED <<spent, audited, tool, ended>>

\* The raw socket bypasses the client, so the module takes a slot of its
\* limiter and audits the handshake itself, a failed one too.
AnalyzerTls(ok) ==
  /\ In("http_analyzer", "tls") /\ Goes(IF ok THEN "cert" ELSE "no_cert")
  /\ Touches(seen)
  /\ UNCHANGED <<todo, seen, spent, audited, noted, tool, ended>>

AnalyzerTlsRow_Unaudited(row) ==
  /\ In("http_analyzer", row) /\ Goes(IF row = "cert" THEN "tls_audit" ELSE "work")
  /\ Notes({<<row, h>> : h \in seen})
  /\ seen' = IF row = "cert" THEN seen ELSE {}
  /\ UNCHANGED <<todo, spent, touched, audited, tool, ended>>

\* The certificate or the failure is recorded, and then audited.
AnalyzerTlsRow(row) ==
  /\ In("http_analyzer", row) /\ Goes("tls_audit")
  /\ Notes({<<row, h>> : h \in seen})
  /\ UNCHANGED <<todo, seen, spent, touched, audited, tool, ended>>

AnalyzerTlsAudit ==
  /\ In("http_analyzer", "tls_audit") /\ Goes("work")
  /\ Audits({<<"tls", h>> : h \in seen}) /\ seen' = {}
  /\ UNCHANGED <<todo, spent, touched, noted, tool, ended>>

-----------------------------------------------------------------------------
(* tech_fingerprint: the live hosts, the first scheme that answers *)

FingerprintStart(corpus) ==
  /\ Starts("tech_fingerprint") /\ at' = "work"
  /\ todo' = IF corpus THEN LiveHosts \X {"https"} ELSE {}
  /\ IF corpus THEN NoNotes ELSE Notes({<<"no_corpus", "-">>})
  /\ NoAudits /\ NoTouches /\ GoesOn
  /\ UNCHANGED <<seen, spent>>

Fingerprint(h, s, answers, known) ==
  /\ In("tech_fingerprint", "work") /\ <<h, s>> \in todo /\ Stays
  /\ IF MayRequest(h) THEN Touches({h}) ELSE NoTouches
  /\ todo' = (todo \ {<<h, s>>})
               \union (IF MayRequest(h) /\ ~answers /\ s = "https" THEN {<<h, "http">>} ELSE {})
  /\ IF MayRequest(h) /\ answers /\ known THEN Notes({<<"tech", h>>}) ELSE NoNotes
  /\ UNCHANGED <<seen, spent, audited, tool, ended>>

-----------------------------------------------------------------------------
(* js_analyzer: scripts that the crawler saw, and script URLs on live hosts *)

\* Once probe_http has run, a script URL from elsewhere is only followed to a
\* host that answers.  Inline code is not fetched.
JsTargets ==
  LET urls == Known({"js_url"})
  IN  {<<h, "fetch">> : h \in Known({"js_file"})
                          \union (IF ProbedHosts = {} THEN urls ELSE urls \intersect LiveHosts)}
        \union {<<h, "inline">> : h \in Known({"inline_js"})}

JsStart ==
  /\ Starts("js_analyzer") /\ at' = "work" /\ todo' = JsTargets
  /\ NoNotes /\ NoAudits /\ NoTouches /\ GoesOn
  /\ UNCHANGED <<seen, spent>>

\* A script that cannot be fetched, or is refused, is an error; one that is no
\* script is passed over.
JsNothing(h, fails) ==
  /\ In("js_analyzer", "work") /\ <<h, "fetch">> \in todo /\ Stays
  /\ ~MayRequest(h) => fails
  /\ todo' = todo \ {<<h, "fetch">>}
  /\ IF MayRequest(h) THEN Touches({h}) ELSE NoTouches
  /\ IF fails THEN Notes({<<"js_error", h>>}) ELSE NoNotes
  /\ UNCHANGED <<seen, spent, audited, tool, ended>>

\* What it contains: endpoints and parameters, technology, and each secret
\* once, whichever patterns match it.
JsAnalyze(h, how, found, secrets) ==
  /\ In("js_analyzer", "work") /\ <<h, how>> \in todo /\ Stays
  /\ how = "fetch" => MayRequest(h)
  /\ todo' = todo \ {<<h, how>>}
  /\ IF how = "fetch" THEN Touches({h}) ELSE NoTouches
  /\ Notes({<<"js", <<h, f>> >> : f \in found} \union {<<"secret", <<h, s>> >> : s \in secrets})
  /\ UNCHANGED <<seen, spent, audited, tool, ended>>

WebNext ==
  \/ ProbeStart \/ AnalyzerStart \/ JsStart
  \/ mod = "probe_http" /\ \E hs \in SUBSET todo : ProbeBatch(hs)
  \/ mod = "probe_http" /\ \E h \in Hosts \union Addresses, s \in Schemes :
       \/ ProbeAnswers(h, s) \/ ProbeLive(h, s) \/ ProbeRefused(h, s)
       \/ ProbeSilent(h) \/ ProbeStops(h)
       \/ \E b \in BOOLEAN : ProbeFails(h, s, b)
       \/ \E row \in DOMAIN NextRow : \E next \in NextRow[row] : ProbeRow(h, s, row, next)
  \/ \E h \in Hosts, s \in Schemes : AnalyzerError(h, s)
  \/ \E h \in Hosts, s \in Schemes, b \in BOOLEAN : AnalyzerAnswers(h, s, b)
  \/ \E b \in BOOLEAN : AnalyzerTls(b) \/ FingerprintStart(b)
  \/ AnalyzerTlsAudit \/ \E row \in {"cert", "no_cert"} : AnalyzerTlsRow(row)
  \/ mod = "tech_fingerprint" /\ \E h \in Hosts, s \in Schemes, b, c \in BOOLEAN : Fingerprint(h, s, b, c)
  \/ \E h \in Hosts, b \in BOOLEAN : JsNothing(h, b)
  \/ mod = "js_analyzer" /\ \E h \in Hosts, how \in {"fetch", "inline"}, ss \in SUBSET Secrets,
        found \in SUBSET {"endpoint", "tech"} : JsAnalyze(h, how, found, ss)

-----------------------------------------------------------------------------
(* Property *)

\* Whatever order the rows of the gathered probes take, also of those that
\* outlive their module, and wherever the module is cut: a host is live or
\* silent, never both; a live one has its URL, of one scheme, and its service;
\* a URL without its liveness is of a coroutine that is still at it, or was cut
\* in between; a host is silent only after both schemes were tried, with no URL;
\* and when the module returns, only a host that was led out of scope has no
\* row.  A handshake past the HTTP client that is recorded is in the audit log,
\* but for one whose module was cut between the two rows.
ProbesTold ==
  LET rows(w) == {n[3] : n \in {m \in noted : m[1] = "probe_http" /\ m[2] = w}}
      hosts(w) == {u[1] : u \in rows(w)}
      probed  == {c[2] : c \in {d \in touched : d[1] = "probe_http"}}
      busy    == {c[1] : c \in seen}
  IN  /\ rows("live") \subseteq hosts("url") \intersect hosts("service")
      /\ \A u, v \in rows("url") : u[1] = v[1] => u = v
      /\ rows("silent") \subseteq probed \ hosts("url")
      /\ mod = "probe_http" =>
           /\ hosts("url") \subseteq rows("live") \union busy
           /\ rows("live") \intersect busy = {} /\ rows("silent") \intersect busy = {}
           /\ ended = "returned" /\ override => probed = rows("live") \union rows("silent")
      /\ \A n \in noted : n[1] = "http_analyzer" /\ n[2] \in {"cert", "no_cert"} =>
           \/ <<"http_analyzer", <<"tls", n[3]>> >> \in audited
           \/ at = "tls_audit" /\ n[3] \in seen
=============================================================================
