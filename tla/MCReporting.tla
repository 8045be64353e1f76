----------------------------- MODULE MCReporting -----------------------------
(***************************************************************************)
(* The instance of Reporting that TLC checks: two of the URLs are          *)
(* redirected to one page.                                                 *)
(***************************************************************************)
EXTENDS Reporting

MCURLs == {"u1", "u2", "u3"}
MCSeeds == [m \in Modes |-> IF m = "cli" THEN MCURLs ELSE {"u1"}]
MCPage == [u \in MCURLs |-> IF u = "u1" THEN "u1" ELSE "u3"]
=============================================================================
