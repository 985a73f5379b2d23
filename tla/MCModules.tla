----------------------------- MODULE MCModules ------------------------------
(* A small instance of the scan modules.                                      *)
EXTENDS ScanModules

(* Hosts in scope by a pattern (in, deep, deeper) and as the apex (top), an   *)
(* excluded one (bad), one nothing matches (far) and a network (net).         *)

Fact(w, h, i, s) == [what |-> w, host |-> h, ip |-> i, status |-> s]
MCFacts ==
  {Fact(w, h, "-", "-") : w \in {"name", "js_url"}, h \in {"in", "far"}}
    \union {Fact(w, h, "-", "-") : w \in {"live", "js_file"}, h \in {"in", "bad"}}
    \union {Fact("name", h, "-", "-") : h \in {"deep", "bad"}}
    \union {Fact(w, "in", "-", "-") : w \in {"old", "silent", "inline_js"}}
    \union {Fact("ip", "-", i, "-") : i \in {"i1", "ix"}}
    \union {Fact("a", "in", "i1", "-"), Fact("a", "bad", "i1", "-"),
            Fact("a", "in", "ix", "-"), Fact("a", "top", "ix", "-"),
            Fact("a", "far", "i1", "-"),
            Fact("odd", "-", "-", "-"), Fact("domain", "in", "-", "-"), Fact("asset_ip", "-", "i1", "in_scope")}
    \union {Fact("asset_host", "in", "-", "in_scope"), Fact("asset_host", "bad", "-", "excluded"),
            Fact("asset_host", "far", "-", "flagged")}
    \union {Fact("asset_host", "net", "-", "in_scope")}
    \union {Fact("asset_url", h, "-", "in_scope") : h \in {"in", "far"}}
    \union {Fact("asset_url", "bad", "-", "excluded")}
MCScopeCidrs == {{"i1"}}
MCAddressOf == [h \in {"in", "top"} |-> "i1"]
MCNetworkOf == [h \in {"net"} |-> "i1"]
MCMtaStsOf == [h \in {"top"} |-> "bad"]
MCBelow == {<<"in", "top">>, <<"deep", "in">>, <<"deep", "top">>, <<"deeper", "deep">>,
            <<"deeper", "in">>, <<"deeper", "top">>}
MCInDomain == MCBelow \union {<<h, h>> : h \in Hosts}
MCProfile == [firm |-> {"domain", "org"}, like |-> {"name"}]
MCVariants == [h \in Hosts |-> IF h = "in" THEN {"deep", "deeper"} ELSE {}]

Assets == {"asset_host", "asset_url", "asset_ip"}
MCReads ==
  [port_scan |-> {"a", "name", "odd", "old", "override"} \union Assets,
   dir_fuzz |-> {"live", "silent", "override"} \union Assets,
   exposure_checks |-> {"live", "silent", "override"} \union Assets,
   dns_axfr |-> {"asset_host", "override"},
   subdomain_brute |-> {"asset_host", "override"},
   dns |-> {"old"},
   ct_subdomains |-> {"name", "old"},
   subdomain_permute |-> {"name", "old"},
   subdomain_recurse |-> {"name", "old"},
   subdomain_takeover |-> {"name", "old", "override"},
   internetdb |-> {"ip"},
   email_security |-> {"override"},
   probe_http |-> {"name", "ip", "override"},
   http_analyzer |-> {"old", "override"},
   tech_fingerprint |-> {"live", "silent", "override"},
   passive_subdomains |-> {"domain"}, passive_urls |-> {}, wayback |-> {},
   github_org |-> {},
   js_analyzer |-> {"js_file", "js_url", "inline_js", "live", "silent", "override"}]
=============================================================================
