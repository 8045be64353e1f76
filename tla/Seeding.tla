------------------------------ MODULE Seeding ------------------------------
(***************************************************************************)
(* What goes into the work queue and how it gets there: Run.Start          *)
(* (src/run.go:204-224), which hands over a run's URLs and discovers       *)
(* sitemaps; the goroutines that drain these (src/sitemap.go); and the     *)
(* admission every URL has to pass, a link found on a page too: the domain *)
(* allowlist, the ignored paths and the host's robots.txt                  *)
(* (src/internal/collector/collector.go:278-335).                          *)
(*                                                                         *)
(* What happens to an admitted URL, and that two goroutines may admit it,  *)
(* is Crawl's subject: here it is published and that is that.              *)
(***************************************************************************)
EXTENDS Robots, SequencesExt

CONSTANTS
    URLs,
    HostOf,             \* URL -> its host.
    Kind,               \* URL -> "page", "sitemap" or "siteindex", by its suffix.
    Entries,            \* URL of a sitemap or siteindex -> the URLs it lists.
    WellKnown,          \* Host -> the URL of its /sitemap.xml.
    Listed,             \* Host -> the sitemaps its robots.txt lists.
    Disallowed,         \* URLs, and perhaps a user agent, some robots.txt disallows.
    StartURLs,          \* Run -> the URLs it is started with.
    AllowDomains,       \* Run -> the hosts on its allowlist.
    Ignored,            \* URLs whose path the runs ignore.
    WellKnownFiles,     \* URLs of robots.txt and sitemap files.
    UserAgent,
    MaxDrains,          \* Bound: drains of one run.
    SitemapErrors       \* Whether requests for sitemaps may fail.

\* A run is started by one goroutine and drained by others.
Starters == {<<r, 0>> : r \in Runs}
Drainers == Runs \X (1 .. MaxDrains)
RunOf(w) == w[1]

NoURL == "none"

ASSUME SeedingAssumption ==
    /\ Starters \cup Drainers \subseteq Workers /\ MaxDrains \in Nat
    /\ NoURL \notin URLs
    /\ HostOf \in [URLs -> Hosts] /\ AllowDomains \in [Runs -> SUBSET Hosts]
    /\ Entries \in [URLs -> Seq(URLs)] /\ StartURLs \in [Runs -> Seq(URLs)]
    /\ WellKnown \in [Hosts -> URLs] /\ Listed \in [Hosts -> Seq(URLs)]

VARIABLES
    todo,           \* Seeding worker -> what it has yet to do.
    checking,       \* Worker -> the URL whose admission it checks, or NoURL.
    published,      \* Run -> URLs published.
    free,           \* Drainers not yet started.
    \* History.
    considered,     \* Run -> URLs whose admission was checked to the end.
    aborted         \* Runs one of whose drains lost entries to an error.

seedingVars == <<todo, checking, published, free, considered, aborted>>
frontVars == <<robotsVars, seedingVars>>

Task(do, u) == [do |-> do, url |-> u]
Tasks(do, urls) == [i \in DOMAIN urls |-> Task(do, urls[i])]

\* Run.Start: sitemaps are drained, pages enqueued, then the sitemaps of each
\* host among the URLs discovered, once for a host.
SeedTask(u) == Task(IF Kind[u] = "page" THEN "enqueue" ELSE "drain", u)

FirstOfHost(urls) ==
    SelectSeq(urls, LAMBDA u : SelectInSeq(urls, LAMBDA v : HostOf[v] = HostOf[u])
                                 = SelectInSeq(urls, LAMBDA v : v = u))

\* What SelectSeq, which is recursive, does to types.
ASSUME FirstOfHostAssumption == \A r \in Runs : FirstOfHost(StartURLs[r]) \in Seq(URLs)

Program(r) == [i \in DOMAIN StartURLs[r] |-> SeedTask(StartURLs[r][i])]
                  \o Tasks("discover", FirstOfHost(StartURLs[r]))

SeedingInit ==
    /\ todo = [w \in Starters \cup Drainers |-> IF w \in Starters THEN Program(RunOf(w)) ELSE <<>>]
    /\ checking = [w \in Workers |-> NoURL]
    /\ published = [r \in Runs |-> {}]
    /\ free = Drainers
    /\ considered = [r \in Runs |-> {}]
    /\ aborted = {}

-----------------------------------------------------------------------------
(***************************************************************************)
(* Admission.  IsVisitAllowed checks the domain, the path, then robots.txt.*)
(***************************************************************************)
CheckDomain(r, u) == HostOf[u] \in AllowDomains[r]
CheckPath(u) == u \in WellKnownFiles \/ u \notin Ignored
PathFirst(r, u) == u \in WellKnownFiles \/ (u \notin Ignored /\ CheckDomain(r, u))
Passes(r, u) == CheckDomain(r, u) /\ CheckPath(u)

\* RobotsData.TestAgent(path, agent), and Check calls it with the user agent
\* for a path and the URL for an agent.
TestAgent(rules, path, agent) ==
    rules = "allowAll" \/ (rules = "file" /\ path \notin Disallowed)
RobotsAllow(rules, u) == TestAgent(rules, UserAgent, u)

Considered(r, u) == considered' = [considered EXCEPT ![r] = @ \cup {u}]

Reject(w, r, u) ==
    /\ ~Passes(r, u)
    /\ Considered(r, u)
    /\ UNCHANGED <<robotsVars, checking, published>>

BeginCheck(w, r, u) ==
    /\ Passes(r, u)
    /\ Get(w, <<r, HostOf[u]>>)
    /\ checking' = [checking EXCEPT ![w] = u]
    /\ UNCHANGED <<published, considered>>

\* The enqueue function on a URL.
Enqueue(w, r, u) == rpc[w] = "idle" /\ (Reject(w, r, u) \/ BeginCheck(w, r, u))

\* Robots.Check returns; what is allowed is published.
EndCheck(w, r) ==
    LET u == checking[w] IN
    /\ u # NoURL
    /\ CheckDone(w)
    /\ published' = IF RobotsAllow(robot[w], u) THEN [published EXCEPT ![r] = @ \cup {u}]
                                                ELSE published
    /\ checking' = [checking EXCEPT ![w] = NoURL]
    /\ Considered(r, u)
    /\ UNCHANGED <<todo, free, aborted>>

PanicInCheck(w) ==
    /\ checking[w] # NoURL
    /\ CheckPanics(w)
    /\ UNCHANGED seedingVars

Fetching(w) == FetchStep(w) /\ UNCHANGED seedingVars

-----------------------------------------------------------------------------
(***************************************************************************)
(* Run.Start and the drains.                                               *)
(***************************************************************************)
Ready(w, do) == /\ rpc[w] = "idle" /\ checking[w] = NoURL
                /\ todo[w] # <<>> /\ Head(todo[w]).do = do

EnqueueSeed(w) ==
    /\ Ready(w, "enqueue")
    /\ Enqueue(w, RunOf(w), Head(todo[w]).url)
    /\ todo' = [todo EXCEPT ![w] = Tail(@)]
    /\ UNCHANGED <<free, aborted>>

\* Drain returns at once, a goroutine does the work.
StartDrain(w) ==
    LET fresh == {d \in free : RunOf(d) = RunOf(w)} IN
    /\ Ready(w, "drain")
    /\ fresh # {}
    /\ LET d == CHOOSE d \in fresh : \A e \in fresh : d[2] <= e[2] IN
       /\ free' = free \ {d}
       /\ todo' = [todo EXCEPT ![w] = Tail(@),
                               ![d] = <<Task("resolve", Head(todo[w]).url)>>]
    /\ UNCHANGED <<robotsVars, checking, published, considered, aborted>>

\* Discover asks for the robots.txt of the host ...
Discover(w) ==
    /\ Ready(w, "discover")
    /\ Get(w, <<RunOf(w), HostOf[Head(todo[w]).url]>>)
    /\ UNCHANGED seedingVars

\* ... and takes the well known location if that names no sitemap or cannot
\* be had.
ListedOnly(rules, h) == IF rules = "file" THEN Listed[h] ELSE <<>>
SitemapsOf(rules, h) ==
    IF rules = "file" /\ Listed[h] # <<>> THEN Listed[h] ELSE <<WellKnown[h]>>

Discovered(w) ==
    /\ checking[w] = NoURL
    /\ w \in Starters /\ todo[w] # <<>> /\ Head(todo[w]).do = "discover"
    /\ SitemapsDone(w)
    /\ todo' = [todo EXCEPT ![w] = Tail(@) \o
                    Tasks("drain", SitemapsOf(robot[w], HostOf[Head(@).url]))]
    /\ UNCHANGED <<checking, published, free, considered, aborted>>

PanicInDiscover(w) ==
    /\ checking[w] = NoURL
    /\ w \in Starters
    /\ SitemapsPanics(w)
    /\ UNCHANGED seedingVars

\* resolve fetches the file.  A sitemap's URLs are enqueued as they are read,
\* the entries of a siteindex resolved; a file of another name is ignored.  One
\* that is not found (404) is one without entries.
Resolved(u) == CASE Kind[u] = "sitemap" -> Tasks("enqueue", Entries[u])
                 [] Kind[u] = "siteindex" -> Tasks("resolve", Entries[u])
                 [] OTHER -> <<>>

Resolve(w) ==
    LET u == Head(todo[w]).url IN
    /\ Ready(w, "resolve")
    /\ todo' = [todo EXCEPT ![w] = Resolved(u) \o Tail(@)]
    /\ UNCHANGED <<robotsVars, checking, published, free, considered, aborted>>

\* Any other error status is read like a success: what comes with it may parse
\* as a file without entries, and nobody notices.
ResolveNothing(w) ==
    /\ w \in Drainers /\ SitemapErrors
    /\ Ready(w, "resolve")
    /\ todo' = [todo EXCEPT ![w] = Tail(@)]
    /\ aborted' = aborted \cup {RunOf(w)}
    /\ UNCHANGED <<robotsVars, checking, published, free, considered>>

\* An error, in fetching or half way through parsing, ends the whole drain:
\* also the siteindexes it is part of.
Abort(w) ==
    /\ w \in Drainers /\ SitemapErrors
    /\ rpc[w] = "idle" /\ checking[w] = NoURL /\ todo[w] # <<>>
    /\ todo' = [todo EXCEPT ![w] = <<>>]
    /\ aborted' = aborted \cup {RunOf(w)}
    /\ UNCHANGED <<robotsVars, checking, published, free, considered>>

SeedStep(w) == \/ EnqueueSeed(w) \/ StartDrain(w) \/ Discover(w) \/ Discovered(w)
               \/ PanicInDiscover(w) \/ Resolve(w) \/ ResolveNothing(w) \/ Abort(w)
               \/ EndCheck(w, RunOf(w)) \/ PanicInCheck(w) \/ Fetching(w)

-----------------------------------------------------------------------------
\* Every variable has its type, and a goroutine that asks for rules knows
\* what for.
SeedingTypeOK ==
    /\ todo \in [Starters \cup Drainers ->
                    Seq([do : {"enqueue", "drain", "discover", "resolve"}, url : URLs])]
    /\ checking \in [Workers -> URLs \cup {NoURL}]
    /\ published \in [Runs -> SUBSET URLs]
    /\ considered \in [Runs -> SUBSET URLs]
    /\ free \subseteq Drainers /\ aborted \subseteq Runs
    /\ \A w \in Workers : checking[w] # NoURL => rpc[w] # "idle"

\* Whatever the order in which goroutines of several runs fill the cache, a
\* URL is only published for a run that has its domain on the allowlist, well
\* known files included (collector.go:311-313), that does not ignore its path,
\* and if its host, asked with that run's credentials or through the HTTP
\* cache, gave rules that do not disallow everything.
OnlyAdmitted ==
    \A r \in Runs : \A u \in published[r] :
        /\ HostOf[u] \in AllowDomains[r]
        /\ u \in Ignored => u \in WellKnownFiles
        /\ skipCache => answered[Sent(<<r, HostOf[u]>>)] \cap {"file", "allowAll"} # {}

\* "Tobey honors resource exclusions in a robots.txt" (README.md:3).
RobotsObeyed ==
    \A r \in Runs : \A u \in published[r] :
        answered[Sent(<<r, HostOf[u]>>)] = {"file"} => u \notin Disallowed

\* The URLs a sitemap, or the sitemaps of a siteindex, list.
Lists[u \in URLs] == CASE Kind[u] = "sitemap" -> Range(Entries[u])
                      [] Kind[u] = "siteindex" -> UNION {Lists[e] : e \in Range(Entries[u])}
                      [] OTHER -> {}

Covered(r, u) == IF Kind[u] = "page" THEN u \in considered[r] ELSE Lists[u] \subseteq considered[r]
HostCovered(r, h) == \/ Covered(r, WellKnown[h])
                     \/ Listed[h] # <<>> /\ \A u \in Range(Listed[h]) : Covered(r, u)

\* Every page a run is started with comes up for admission in the end, whatever
\* becomes of its drains, which an error ends entirely (sitemap.go:121-129); if
\* they met none, so does every URL in a sitemap it is started with, and in the
\* sitemaps of these hosts: those that robots.txt lists, or the well known one.
\* Only a panic ends it all.
AllSeedsConsidered ==
    <>(panicked \/ \A r \in Runs : \A u \in Range(StartURLs[r]) :
         /\ Kind[u] = "page" => Covered(r, u)
         /\ r \in aborted \/ (Covered(r, u) /\ HostCovered(r, HostOf[u])))
=============================================================================
