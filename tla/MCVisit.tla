------------------------------ MODULE MCVisit ------------------------------
(***************************************************************************)
(* Two runs.  Run a has credentials for host h, whose robots.txt lists a   *)
(* siteindex of two sitemaps, and starts with a page it ignores; run b     *)
(* crawls g, which links to h.  Pages redirect to the other host or home.  *)
(***************************************************************************)
EXTENDS Visit

MCHosts == {"h", "g"}
MCURLs == {"h/", "h/ignored", "h/private", "g/", "h/sitemap.xml", "h/sitemap_index.xml", "g/sitemap.xml"}
MCHostOf == [u \in MCURLs |-> IF u \in {"g/", "g/sitemap.xml"} THEN "g" ELSE "h"]
MCKind == [u \in MCURLs |-> CASE u \in {"h/sitemap.xml", "g/sitemap.xml"} -> "sitemap"
                              [] u = "h/sitemap_index.xml" -> "siteindex"
                              [] OTHER -> "page"]
MCEntries == [u \in MCURLs |-> CASE u = "h/sitemap.xml" -> <<"g/sitemap.xml">>
                                 [] u = "g/sitemap.xml" -> <<"h/ignored">>
                                 [] u = "h/sitemap_index.xml" -> <<"h/sitemap.xml", "g/sitemap.xml">>
                                 [] OTHER -> <<>>]
MCWellKnown == [h \in MCHosts |-> IF h = "h" THEN "h/sitemap.xml" ELSE "g/sitemap.xml"]
MCListed == [h \in MCHosts |-> IF h = "h" THEN <<"h/sitemap_index.xml">> ELSE <<>>]
MCLinks == [u \in MCURLs |-> IF u = "g/" THEN <<"h/private">> ELSE <<>>]
MCTarget == [u \in MCURLs |-> IF u = "h/" THEN "g/" ELSE "h/"]

MCRuns == {"a", "b"}
MCPrivate == {<<"a", "h">>}
MCStartURLs == [r \in MCRuns |-> IF r = "a" THEN <<"h/ignored">> ELSE <<"g/">>]
MCAllowDomains == [r \in MCRuns |-> IF r = "a" THEN {"h"} ELSE {"h", "g"}]
MCWorkers == (MCRuns \X (0 .. MaxDrains)) \cup Visitors
=============================================================================
