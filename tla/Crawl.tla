------------------------------- MODULE Crawl -------------------------------
(***************************************************************************)
(* One run from its seeds to its end: the goroutines that enqueue URLs     *)
(* (Run.Start and the sitemap drains, and every visitor for the links it   *)
(* finds), the visitors that process them, and the progress that tells     *)
(* when the run has finished: src/run.go, src/visitor.go,                  *)
(* src/visitorpool.go and src/internal/progress/memory.go.                 *)
(*                                                                         *)
(* The work queue is what VisitWorkQueue promises: a bag of jobs, in no    *)
(* order, that may refuse what does not fit.  Its pace, and the calls that *)
(* set it, are WorkQueue's.  The run stays in the run manager's cache.     *)
(***************************************************************************)
EXTENDS Integers, FiniteSets, FiniteSetsExt

CONSTANTS
    URLs,
    Allowed,            \* URLs that IsVisitAllowed.
    Seeds,              \* URLs a run may start with or find in a sitemap.
    Producers,          \* Goroutines with seeds or a sitemap to enqueue.
    Visitors,           \* Workers of the visitor pool.
    MaxJobRetries,
    Capacity,           \* Messages the work queue holds.
    Outcomes,           \* What may come of a visit, among OutcomeKinds.
    None                \* No job, no URL.

Enqueuers == Producers \cup Visitors
\* One retry more than visitors allow, lest the bound hold by its type.
Jobs == [url : URLs, retries : 0 .. MaxJobRetries + 1]

\* A page with links, a redirect or 404, a host that is busy or slow (429,
\* 500, 503, 504, deadline), any other status, no response at all.
OutcomeKinds == {"page", "gone", "busy", "unknown", "unhandled"}

ASSUME CrawlAssumption ==
    /\ IsFiniteSet(URLs) /\ IsFiniteSet(Producers) /\ IsFiniteSet(Visitors)
    /\ Allowed \subseteq URLs /\ Seeds \subseteq URLs
    /\ MaxJobRetries \in Nat /\ Capacity \in Nat
    /\ Outcomes \subseteq OutcomeKinds
    /\ None \notin Jobs \cup URLs
    /\ Producers \cap Visitors = {}

VARIABLES
    waiting,        \* Job -> how many such messages the work queue holds.
    hand,           \* Visitor -> the job its Consume goroutine holds.
    seen,           \* The run's Seen URLs.
    status,         \* URL -> its latest progress update.
    pending,        \* Producer -> URLs it has yet to enqueue.
    epc, eurl,      \* Enqueuer -> where it is in enqueueing which URL.
    vpc,            \* Visitor -> where it is in processing its job.
    job,            \* Visitor -> that job.
    outcome,        \* Visitor -> what came of the visit.
    publishers,     \* History: URL -> enqueuers that published it.
    publications,   \* History: URL -> how often it was published.
    visits,         \* History: URL -> how often it was visited.
    settled         \* History: URLs that had a terminal update.

enqueueVars == <<seen, pending, epc, eurl, publishers, publications>>
visitorVars == <<hand, vpc, job, outcome, visits, settled>>
vars == <<waiting, status, enqueueVars, visitorVars>>

Statuses == {"none", "queued", "crawling", "crawled", "succeeded", "errored", "cancelled"}
Terminal == {"succeeded", "errored", "cancelled"}

Init ==
    /\ waiting = [j \in Jobs |-> 0]
    /\ hand = [v \in Visitors |-> None]
    /\ seen = {}
    /\ status = [u \in URLs |-> "none"]
    /\ pending \in [Producers -> SUBSET Seeds]
    /\ epc = [e \in Enqueuers |-> "idle"]
    /\ eurl = [e \in Enqueuers |-> None]
    /\ vpc = [v \in Visitors |-> "idle"]
    /\ job = [v \in Visitors |-> None]
    /\ outcome = [v \in Visitors |-> "none"]
    /\ publishers = [u \in URLs |-> {}]
    /\ publications = [u \in URLs |-> 0]
    /\ visits = [u \in URLs |-> 0]
    /\ settled = {}

-----------------------------------------------------------------------------
(***************************************************************************)
(* The enqueue function: IsVisitAllowed and HasSeenURL, then Publish, then *)
(* SawURL, then the progress update.                                       *)
(***************************************************************************)
MayEnqueue(e, u) == \/ e \in Producers /\ u \in pending[e]
                    \/ e \in Visitors /\ vpc[e] = "links"

Dequeued(e, u) == IF e \in Producers THEN [pending EXCEPT ![e] = @ \ {u}] ELSE pending

Wanted(u) == u \in Allowed /\ u \notin seen

Enqueue(e, u) ==
    /\ epc[e] = "idle" /\ MayEnqueue(e, u) /\ Wanted(u)
    /\ pending' = Dequeued(e, u)
    /\ epc' = [epc EXCEPT ![e] = "publish"]
    /\ eurl' = [eurl EXCEPT ![e] = u]
    /\ UNCHANGED <<waiting, seen, status, publishers, publications, visitorVars>>

Skip(p, u) ==
    /\ epc[p] = "idle" /\ u \in pending[p] /\ ~Wanted(u)
    /\ pending' = Dequeued(p, u)
    /\ UNCHANGED <<waiting, seen, status, epc, eurl, publishers, publications, visitorVars>>

Load == MapThenSumSet(LAMBDA j : waiting[j], Jobs)

PutOffByOne(j) == IF Load <= Capacity THEN [waiting EXCEPT ![j] = @ + 1] ELSE waiting
PutFirstTry(j) == IF j.retries = 0 THEN [waiting EXCEPT ![j] = @ + 1] ELSE waiting

\* A full queue drops the message and reports success.
Put(j) == IF Load < Capacity THEN [waiting EXCEPT ![j] = @ + 1] ELSE waiting

Publish(e) ==
    /\ epc[e] = "publish"
    /\ waiting' = Put([url |-> eurl[e], retries |-> 0])
    /\ publishers' = [publishers EXCEPT ![eurl[e]] = @ \cup {e}]
    /\ publications' = [publications EXCEPT ![eurl[e]] = @ + 1]
    /\ epc' = [epc EXCEPT ![e] = "saw"]
    /\ UNCHANGED <<seen, status, pending, eurl, visitorVars>>

Unseen(u) == seen
Seen(u) == seen \cup {u}

Saw(e) ==
    /\ epc[e] = "saw"
    /\ seen' = Seen(eurl[e])
    /\ epc' = [epc EXCEPT ![e] = "report"]
    /\ UNCHANGED <<waiting, status, pending, eurl, publishers, publications, visitorVars>>

ReportQueued(e) ==
    /\ epc[e] = "report"
    /\ status' = [status EXCEPT ![eurl[e]] = "queued"]
    /\ epc' = [epc EXCEPT ![e] = "idle"]
    /\ eurl' = [eurl EXCEPT ![e] = None]
    /\ UNCHANGED <<waiting, seen, pending, publishers, publications, visitorVars>>

-----------------------------------------------------------------------------
(***************************************************************************)
(* A visitor and its Consume goroutine, which does not end with it.        *)
(***************************************************************************)
Take(v) ==
    /\ hand[v] = None
    /\ \E j \in Jobs :
        /\ waiting[j] > 0
        /\ waiting' = [waiting EXCEPT ![j] = @ - 1]
        /\ hand' = [hand EXCEPT ![v] = j]
    /\ UNCHANGED <<status, enqueueVars, vpc, job, outcome, visits, settled>>

Receive(v) ==
    /\ vpc[v] = "idle" /\ hand[v] # None
    /\ job' = [job EXCEPT ![v] = hand[v]]
    /\ hand' = [hand EXCEPT ![v] = None]
    /\ vpc' = [vpc EXCEPT ![v] = "begin"]
    /\ UNCHANGED <<waiting, status, enqueueVars, outcome, visits, settled>>

Update(v, s) == status' = [status EXCEPT ![job[v].url] = s]

ReportCrawling(v) ==
    /\ vpc[v] = "begin"
    /\ Update(v, "crawling")
    /\ vpc' = [vpc EXCEPT ![v] = "visit"]
    /\ UNCHANGED <<waiting, enqueueVars, hand, job, outcome, visits, settled>>

\* Collector.Visit; only a page is searched for links.
Visit(v, o) ==
    /\ vpc[v] = "visit"
    /\ visits' = [visits EXCEPT ![job[v].url] = @ + 1]
    /\ outcome' = [outcome EXCEPT ![v] = o]
    /\ vpc' = [vpc EXCEPT ![v] = IF o = "page" THEN "links" ELSE "visited"]
    /\ UNCHANGED <<waiting, status, enqueueVars, hand, job, settled>>

EndLinks(v) ==
    /\ vpc[v] = "links" /\ epc[v] = "idle"
    /\ vpc' = [vpc EXCEPT ![v] = "visited"]
    /\ UNCHANGED <<waiting, status, enqueueVars, hand, job, outcome, visits, settled>>

DoneAfterVisit(v) == "succeeded"
AfterVisit(v) == "crawled"

ReportCrawled(v) ==
    /\ vpc[v] = "visited"
    /\ Update(v, AfterVisit(v))
    /\ vpc' = [vpc EXCEPT ![v] = "settle"]
    /\ UNCHANGED <<waiting, enqueueVars, hand, job, outcome, visits, settled>>

\* attemptRepublish.
RetryOnceMore(v) == outcome[v] = "busy" /\ job[v].retries <= MaxJobRetries
Retries(v) == outcome[v] = "busy" /\ job[v].retries < MaxJobRetries

\* What handleFailedVisit, and process on its code, make of a visit.
Verdict(v) == CASE outcome[v] = "page" -> "succeeded"
                [] outcome[v] = "gone" -> "cancelled"
                [] OTHER -> "errored"

Forget(v) == /\ job' = [job EXCEPT ![v] = None]
             /\ outcome' = [outcome EXCEPT ![v] = "none"]

Settle(v) ==
    /\ vpc[v] = "settle" /\ ~Retries(v)
    /\ Update(v, Verdict(v))
    /\ settled' = settled \cup {job[v].url}
    /\ vpc' = [vpc EXCEPT ![v] = IF outcome[v] = "unhandled" THEN "dead" ELSE "idle"]
    /\ Forget(v)
    /\ UNCHANGED <<waiting, enqueueVars, hand, visits>>

\* The retry stays without a further update.
Republish(v) ==
    /\ vpc[v] = "settle" /\ Retries(v)
    /\ waiting' = Put([job[v] EXCEPT !.retries = @ + 1])
    /\ vpc' = [vpc EXCEPT ![v] = "idle"]
    /\ Forget(v)
    /\ UNCHANGED <<status, enqueueVars, hand, visits, settled>>

EnqueueStep(e) == Publish(e) \/ Saw(e) \/ ReportQueued(e)

ProducerStep(p) == \/ \E u \in URLs : Enqueue(p, u) \/ Skip(p, u)
                   \/ EnqueueStep(p)

VisitorStep(v) == \/ Receive(v) \/ ReportCrawling(v)
                  \/ \E o \in Outcomes : Visit(v, o)
                  \/ EndLinks(v) \/ ReportCrawled(v) \/ Settle(v) \/ Republish(v)
                  \/ EnqueueStep(v)

Follow(v) == \E u \in URLs : Enqueue(v, u)

Next == \/ \E p \in Producers : ProducerStep(p)
        \/ \E v \in Visitors : Take(v) \/ Follow(v) \/ VisitorStep(v)

Spec == Init /\ [][Next]_vars

\* The Go scheduler is fair, visits end (the HTTP client has a timeout), and
\* pages have finitely many links; no page has to have any.
Fairness == /\ \A p \in Producers : WF_vars(ProducerStep(p))
            /\ \A v \in Visitors : WF_vars(Take(v)) /\ WF_vars(VisitorStep(v))

FairSpec == Spec /\ Fairness

-----------------------------------------------------------------------------
\* MemoryReporter's computeProgressCounts: a run may be finished when every
\* URL with an update has a terminal one.
Finished == /\ \E u \in URLs : status[u] # "none"
            /\ \A u \in URLs : status[u] \in Terminal \cup {"none"}

\* Nobody has anything left to do for the run.
Quiescent == /\ \A j \in Jobs : waiting[j] = 0
             /\ \A v \in Visitors : hand[v] = None /\ vpc[v] \in {"idle", "dead"}
             /\ \A p \in Producers : pending[p] = {}
             /\ \A e \in Enqueuers : epc[e] = "idle"

Involved(u) == \/ \E j \in Jobs : j.url = u /\ waiting[j] > 0
               \/ \E v \in Visitors : hand[v] # None /\ hand[v].url = u
               \/ \E v \in Visitors : job[v] # None /\ job[v].url = u

-----------------------------------------------------------------------------
\* Every variable has its type, the queue does not overflow, and whoever is
\* in the middle of something knows what of.
TypeOK ==
    /\ waiting \in [Jobs -> Nat] /\ Load <= Capacity
    /\ hand \in [Visitors -> Jobs \cup {None}]
    /\ seen \subseteq URLs
    /\ status \in [URLs -> Statuses]
    /\ pending \in [Producers -> SUBSET URLs]
    /\ epc \in [Enqueuers -> {"idle", "publish", "saw", "report"}]
    /\ eurl \in [Enqueuers -> URLs \cup {None}]
    /\ \A e \in Enqueuers : epc[e] # "idle" => eurl[e] \in URLs
    /\ vpc \in [Visitors -> {"idle", "begin", "visit", "links", "visited", "settle", "dead"}]
    /\ job \in [Visitors -> Jobs \cup {None}]
    /\ \A v \in Visitors : vpc[v] \notin {"idle", "dead"} => job[v] # None
    /\ outcome \in [Visitors -> OutcomeKinds \cup {"none"}]
    /\ publishers \in [URLs -> SUBSET Enqueuers]
    /\ publications \in [URLs -> Nat]
    /\ visits \in [URLs -> Nat]
    /\ settled \subseteq URLs

\* Publishing before SawURL costs duplicates (run.go:112-116), but no more
\* than one publication of a URL for each goroutine that enqueues.
OncePerEnqueuer == \A u \in URLs : publications[u] = Cardinality(publishers[u])

\* Each publication costs a host at most MaxJobRetries + 1 visits of the URL,
\* however its copies and their retries interleave (visitor.go:26-29).
BoundedVisits == \A u \in URLs : visits[u] <= publications[u] * (MaxJobRetries + 1)

\* A run that looks finished has no message queued, held by a consumer or
\* processed of any URL that was published once and reported since, whatever
\* is still enqueued, retried or published twice besides: a visitor's updates
\* and its enqueuer's, in any order, do not hide a message that is under way
\* (progress/memory.go:107).
Unreported(u) == \E e \in Enqueuers : eurl[e] = u /\ epc[e] \in {"saw", "report"}

NoFalseFinish ==
    Finished => \A u \in URLs : publications[u] <= 1 /\ ~Unreported(u) => ~Involved(u)

\* Where a queue has room for every allowed URL from each goroutine that
\* enqueues, a URL that was published is queued, held or processed till its
\* verdict, also if workers die: nothing else loses it (visitor.go:146-201).
Roomy == Cardinality(Allowed) * Cardinality(Enqueuers) <= Capacity
NothingLost ==
    Roomy => \A u \in URLs : publications[u] > 0 => Involved(u) \/ u \in settled

\* Every URL the run enqueued gets a terminal update, if no worker dies and
\* the queue is not full.
Settles == \A u \in URLs : u \in seen ~> u \in settled

\* IsRunFinished "returns whether a run has finished processing"
\* (progress/memory.go:107), and the CLI waits for it to exit.
QuiescentIsFinished == Quiescent /\ seen # {} => Finished
=============================================================================
