# A verification of tobey's crawl engine

tobey is a crawler: an HTTP API (or a command line) accepts runs, a run's URLs
go through a work queue that is rate limited for each host, and a pool of
visitors fetches them, reports results and enqueues the links it finds. This
directory holds TLA+ models of that engine, the TLC configurations that check
them, and proofs about them. `PROJECT.json` maps every definition to the lines
it models; paths below are relative to the repository's `src`.

## Inventory

| Component | State | Operations | Interacts with | Correct when |
|---|---|---|---|---|
| Visit work queue, `internal/ctrlq/memory.go` | `hqueues` (host to queue), `dqueue`, `shouldRecalc`, the id counter | `Open`, `Publish`, `Republish`, `Consume`, `Pause`, `TakeRateLimitHeaders`, `TakeSample`, `Close` | publishers (API, sitemap drains, visitors), one promoter, one consuming goroutine for each visitor | it is one queue: nothing duplicated, invented or stuck; ids unique |
| Promoter, `promoter.go` | the counter `next`, a list of candidates | `promoteLoop`: find candidates, wait or promote | host queues, limiters, pauses, `dqueue` | each promotion has a token, hosts that are ready are served |
| Controlled queue, `controlled.go` | `pausedUntil`, an atomic Unix second | `IsPaused`, `Pause` | promoter and visitors at once | no host is visited faster than its limit for it |
| Limiter, `limiter_memory.go` | token bucket, `hasReservation` | `Reserve`, `ReleaseReservation`, `SetLimit` | promoter reserves, visitors set limits | the host's rate is kept |
| Optimizer, `optimizer.go` | none (reads the limit) | two formulas for a new limit | visitors, without a lock | within the bounds, errors do not raise a limit |
| Visitor, `visitor.go` | its job | `run`, `process`, `handleFailedVisit` | queue, run, collector, progress | a job ends in one verdict or one retry, retries are bounded, who asks for a pause gets it |
| Visitor pool, `visitorpool.go` | slice of workers, wait group | start, `Close`, `IsHealthy` | health endpoint, shutdown | its `Close` ends, however workers died |
| Run, `run.go` | configuration, store | `Start`, the enqueue and collect functions | store, queue, progress, sitemaps | a URL is published once, or nearly; every seed is considered |
| Progress, `internal/progress` | last update of each URL, first and last times, a channel of notifications | `Call`, `IsRunFinished` | visitors, enqueuers, the CLI | finished exactly when nothing is left |
| Store, `store_memory.go` | static runs, seen URLs | `SaveRun`, `LoadRun`, `DeleteRun`, `SawURL`, `HasSeenURL` | run manager, runs | seen stays seen |
| Run manager, `runmanager.go` | LRU with expiry over the store | `Add`, `Get`, eviction | API, visitors | a run is only missing if it was deleted |
| Robots, `robots.go`, `host.go` | cache of robots.txt under host and credentials | `get`, `Check`, `Sitemaps` | runs, sitemaps, HTTP | a host's rules are fetched, kept apart and obeyed |
| Sitemaps, `sitemap.go` | draining goroutines | `Discover`, `Drain` | robots, the enqueue function | every sitemap is drained |
| Collector, `internal/collector` | callbacks, limits of a visit | `Enqueue`, `Visit`, `IsVisitAllowed` | HTTP, run's functions | one result or one error for each visit, visits end |
| HTTP clients, `httpclient.go` | an HTTP cache | retries, credentials of a host | robots, sitemaps, collector | what was answered to some credentials stays with them |
| Disk reporter, `internal/result/disk.go` | files | `Report` | the collect function | what is called a success is there |
| Pulse, `observe.go`, `cmd/pulse` | an atomic count of visits; the monitor's channel | the beat, the monitor's handler | visitors | no visit is counted twice, visits do not wait for it |
| API, CLI, shutdown, `api.go`, `routes.go`, `main.go` | signal context, teardown stack | create a run, serve, tear down | everything | an interrupted process ends; requests are served till then |
| Other reporters, telemetry, configuration, elements of documents | none that matters | I/O | | |

What is hard about it: every channel send on the publishing side is
non-blocking and may drop; the host map, the pause, the limit, the set of seen
URLs, robots.txt, the progress and the pulse are each read in one step and
written in another; the promoter learns of work through a channel that forgets;
updates of one URL come from two goroutines; workers may die, and what they
leave behind goes on; a run may leave the cache while its messages are queued;
shutting down closes channels that are in use. `PROJECT.json` lists each such
hazard at its line with the properties that watch it, or the reason for which
none does.

## Modules

    VisitWorkQueue            what the queue promises (abstract)
      ^ refined by
    WorkQueue                 queue, promoter, pauses, limiters, their callers
      MCWorkQueue, WorkQueue_proofs
    Optimizer                 the limit of one host, both formulas
      MCOptimizer, Optimizer_proofs
    Crawl                     one run: enqueuers, visitors, retries, progress
      MCCrawl, Crawl_proofs
    Robots                    the shared cache of robots.txt, its HTTP client
      Robots_proofs
      ^ extended by
    Seeding                   what enters the queue: start, sitemaps, admission
      ^ extended by
    Visit                     a visit: redirects, links, outcome, retry, pause
      MCVisit, Visit_proofs
    RunManager                the LRU of runs over the store
      RunManager_proofs
      ^ extended by
    Service                   the process: requests, workers, shutdown
      MCService, Service_proofs
    Reporting                 disk, progress over time, CLI exit, pulse
      MCReporting, Reporting_proofs

The program is cut where its parts meet in few places. What a module leaves to
another it replaces by the weakest thing that other module justifies: in `Visit`
and `Service` the work queue is a bag or a pair of bounded channels, which
`SingleQueue` of `WorkQueue` promises, and in `Crawl` and `Service` an admitted
URL is any URL.

**WorkQueue.** Producers only publish; visitors call the queue in the order
`Visitor.process` does (`stage`): headers, sample, pause, republish. A call is
cut at its accesses to shared memory: `Begin` is the first `Load` of
`lazyHostQueue`, `Create` its unconditional `Store`, `Fetch` its second `Load`;
`Send` is the non-blocking send; `TriggerRecalc` the notification. `Pause` is a
load and a store, for callers and for the promoter. A `ControlledQueue` is
identified by the caller and host it was made for, so that a replaced one goes
on existing for whoever fetched it. The promoter visits the hosts of `todo` one
by one, as `sync.Map.Range` does (a key stored meanwhile may or may not be
visited), then waits or promotes. `golang.org/x/time/rate` with a burst of one
is `nextAt`, the time its bucket is full again. `Take` and `HandOver` are the
goroutine of `Consume`. Time is counted in ticks; pauses are whole seconds, as
in the code. What the model leaves out: cancellation and `Close` (Service), tracing, the
64 bit counter of `int(n)`, and URLs (a message has a host). The promoter's
counter wraps at `CounterMod` instead of 2^32.

**VisitWorkQueue.** A set of waiting messages; publishing adds one with an id
never used before and either no retries or one more than a delivered message of
the same host; a message waits, is delivered or is lost. No order is promised,
as the code promises none. `WorkQueue` implements it with waiting mapped to the
contents of all queues, replaced ones included, and of the consumers' hands.

**Optimizer.** Rates in thousandths of a request per second and latencies in
milliseconds, in which the formulas are exact but for rounding down. Each call
reads the limit and computes in one step and sets it in another.

**Crawl.** The queue is a bag that may refuse. The enqueue function is cut into
the check, `Publish`, `Saw`, `ReportQueued`; a visitor's job into its updates,
the visit, the links it enqueues on the way (the same enqueue function), and
`Settle` or `Republish`. `Outcomes` are the classes `handleFailedVisit` tells
apart. Seen URLs and updates are sets and functions since the code only asks for
membership and the latest. Left out: the rate limits (WorkQueue), the time
between updates that `IsRunFinished` also waits for (Reporting), several runs
(they share nothing but the queue), eviction of the run (RunManager).

**Robots.** A call of `get` is cut into the look under the read lock (`Found`,
`Missing`), each try of the retrying client (`TryAgain`, `Answer`, `Cached`), and
the store under the write lock (`Store`). The fetch may come back without a
response, as the host cannot be reached (`NoResponse`) or as it answered 429 or
503 with a `Retry-After` beyond the client's timeout (`TimedOut`); its body is
closed in a step of its own (`CloseBody`). Keys are a host and
whose credentials are sent, as in `HashWithAuth`; what is kept are the rules an
answer is parsed to, or nil. `httpCache` is the cache of responses below the
client, which has one entry for a host whatever was sent. The callers use or
dereference what they got (`CheckDone`, `CheckPanics`, `SitemapsDone`,
`SitemapsPanics`).

**Seeding.** A goroutine that starts or drains has a list of tasks, `todo`:
enqueue a URL, drain a sitemap, discover the sitemaps of a host, resolve a file.
`Enqueue` is the enqueue function's admission: domain, path (`Passes`), then the
host's robots.txt (`BeginCheck`, `EndCheck`). Drains are goroutines of their
own; an error ends all that is left of a drain (`Abort`), and an error status
other than 404 may pass for a file without entries (`ResolveNothing`). Left out:
URLs that do not parse, whether an admitted URL was seen (Crawl).

**Visit.** A visitor requests its job's URL, follows redirects (`Redirect`,
guarded as `CheckRedirectFunc` is), gets a response or an error (`Respond`),
enqueues links with the same admission, reports the result (`Collect`), and then
pauses the host, retries or settles as `handleFailedVisit` does. `Waiting` is the
queue: a message is delivered once, in any order.

**RunManager.** `rank` is the order of use in the LRU: 1 is the latest. Each
call of the cache and of the store is a step (`Add` and `AddEntry`; `Hit`, `Miss`
and `Load`); expiry and the cache's cleaning goroutine are steps of their own.
Whatever leaves the cache is deleted from the store (`Delete`).

**Service.** Channels are modelled as Go has them: a send on a closed one
panics, a receive succeeds, a select takes any case that is ready. There is a
handler for each request, the goroutine it starts, the promoter, a `Consume`
goroutine for each worker, the workers, and main's teardown, in the order of
setting up and in the reverse, since which it is is the library's choice.
Workers get their run through RunManager and panic on a nil one. The look at the
seen URLs and the send are one step here, Crawl has them apart. The panics of
`robots.go:126` and `promoter.go:68` are those of Robots and WorkQueue.

**Reporting.** Time is in milliseconds as far as the confidence of
`IsRunFinished` depends on it. `Call` keeps the times of the first and last
update and notifies; `checkFinished` is evaluated on a notification or a tick of
its ticker. The pulse is its load, its store and its post, each a step. Verdicts
are success or error: a cancelled URL counts like one that errored
(`progress/memory.go:159`).

## Runs

Passing runs. Each property has a mutation of a mapped definition that TLC
refutes it with, named next to that definition (`FullOffByOne`, ...).

| Run | Instance | Properties |
|---|---|---|
| queue_hosts | 2 hosts, buffers of 1, counter modulo 2, 3 messages | TypeOK, TokenPerPromotion, Funded, SingleQueue |
| queue_live | 1 host, 1 producer, buffers of 1, a visitor that pauses for 3 ticks and changes the limit, 2 ticks a second, 20 ticks | HostRate, NotEarly, Retrieved |
| opt | 2 visitors; headers that are missing, nonsense, 10 or 60 requests a second; 3 latencies | TypeOK, AtLeastMin, Bounded, ErrorSlowsDown, BusyHostGetsAnnouncedRate |
| crawl_safe | 2 URLs, 1 producer, 2 visitors, 1 retry, a queue of 2, pages, busy hosts and unhandled failures | TypeOK, OncePerEnqueuer, BoundedVisits, NoFalseFinish |
| crawl_live | 3 URLs of which 2 are allowed, 1 producer, 1 visitor, a queue of 4, no deaths | NothingLost, Settles |
| visit | 2 runs, one with credentials, 2 hosts, 7 URLs, a siteindex of 2 sitemaps, failing requests, 1 visitor, 2 redirects, 1 retry | TypeOK, FetchedOnceEach, OwnRules, PanicsOnlyOnTrouble, OnlyAdmitted, OneResult, PausesWhoAsked, VisitsEnd, AllSeedsConsidered |
| service | 1 request, 2 workers, a cache of 1 run, channels of 1, 2 messages, both teardown orders | TypeOK, NilOnlyIfDeleted, SeenKept, Stops, Served |
| reporting | both modes, 3 URLs of which 2 end on one page, 2 visitors, a channel of 1 notification | TypeOK, SucceededIsSaved, NotLeftEarly, PulseNeverOvercounts, PulseMissesOnlyRaced, Exits, VisitsGoOn |

Bounds. Two hosts are enough for load balancing and for one host's steps to
disturb another's; two callers for every race found, as each is between a pair.
Buffers of one or two fill up. Three messages allow one in a queue, one in a
hand and one about to be promoted on a held reservation. Two ticks a second are
the coarsest clock on which a pause truncated to seconds can end before a
reservation matures. `Horizon` stops producers (in Reporting: slowness) before
the clock stops, so that what they publish has time to be delivered. In `visit`
two runs are what it takes to mix up credentials, four goroutines seed and one
visits; pages redirect in circles, and two redirects suffice to be back at the
first. In `service` one run can be cached, expire, be cleaned and be added again
while its messages wait, and two messages fill both channels; that a second run
evicts the first by the size of the cache is left to the proofs of RunManager,
which hold for any size. In `reporting` visits take two milliseconds and more,
so that averages are rounded to zero and above. Some instances stop when
messages and time run out, or at an exit or a panic, hence
`CHECK_DEADLOCK FALSE` in all runs but opt.

Fairness. The Go scheduler runs what can run, and a visit ends because the HTTP
client times out; nobody is obliged to publish, to send a request, to interrupt
or to fail. `WorkQueue`: weak fairness of every call under way, of consumers,
visitors and the promoter. The bounded clock advances, in the liveness run, only
when everybody waits, so it cannot run out while there is work. `Crawl`: the same
for enqueuers and visitors; a producer may prefer any URL of its list. `Visit`:
one condition for all goroutines that seed, which have boundedly many steps to
make, and one for each visitor. `Service`: each request's goroutines, promoter,
main, each consumer and worker; not arrivals, interrupts, expiry. `Reporting`:
start, clock, each visitor, and `IsRunFinished` with the exit; not the pulse.

Conditions under which properties hold, and what breaks them otherwise:

* `Retrieved` holds for one host with one producer and one visitor, where nobody
  meets in `lazyHostQueue` (a visitor only knows the host from a message of it);
  with two producers it fails. `NotEarly` and `HostRate` hold for any number of
  them: a host queue that replaces one in use comes with a limiter whose bucket
  is full, so each that was used grants the host one more burst (`Granted`).
  Both except a pause that was replaced by a shorter one (`shrunk`).
* `Settles` needs workers that survive and a queue with room for each allowed URL
  from each goroutine that enqueues (`Roomy`, the condition of `NothingLost`).
* `NoFalseFinish` is about the URLs that were published once and that nobody is
  about to report: a second copy of a URL may be under way after the first was
  settled, and between its publication and the report a URL does not count. What
  is enqueued besides, or was published twice, does not matter to it.
* `OwnRules` is stated for a client without the HTTP cache (`SkipCache`), which
  does not tell credentials apart: `httpclient.go:108-112` says so in a TODO.
* `PanicsOnlyOnTrouble` does not say that a host which answers is safe: one that
  answers 429 or 503 and asks to wait longer than the client does leads to a
  fetch without a response, which ends the process (`robots_error`).
* `AllSeedsConsidered` excepts what a drain that met an error would have found, as
  that error ends the draining of the other sitemaps too (`sitemap.go:121`); not
  the pages a run is started with.
* `Stops` takes a panic for an end, since a process that is being stopped may
  always end so, `Served` excepts the message in the hand of a dead worker's
  `Consume` goroutine, which is lost.
* `ErrorSlowsDown` and `BusyHostGetsAnnouncedRate` are stated for a visitor nobody
  races with, `SucceededIsSaved` for pages that can be written.
* `NotLeftEarly` needs a start whose pauses between two URLs are shorter than a
  visit and the safety distance (`Paced`); with many visitors and quick visits
  that distance is nothing, and the CLI may leave early.
* `Exits` needs a URL with an update: a run of which no URL is allowed, or all
  of whose updates fall into one millisecond, leaves the CLI waiting for an
  interrupt. The model's visits take longer than that.

Runs that end in a violation, each of one statement the repository makes:

| Run | Statement | What the code does |
|---|---|---|
| queue_stranded | a published message is "to be retrieved later" (`internal/ctrlq/main.go:47-48`) | a queue created twice leaves a message in the one that was replaced |
| crawl_never_finished | "whether a run has finished" (`internal/progress/memory.go:107`) | the update to queued may come last |
| robots_obeyed | "Tobey honors resource exclusions in a robots.txt" (`README.md:3`) | path and user agent are passed in the wrong order (`robots.go:79`) |
| robots_error | "An HTTP error is handled inside robotstxt.FromResponse" (`robots.go:124-125`); "When a fetch requests is denied by rate limit Robots will retry until it succeeds" (`robots.go:44-45`) | without a response its body is closed, and the process panics (`robots.go:126`): if the host cannot be reached, and if it answered 429 or 503 with a `Retry-After` beyond the ten seconds of the client (`httpclient.go:83-85`) |

The same races have further faces, met while modelling, without a run of their
own:

* A notification sent while the promoter calculates is lost
  (`ctrlq/memory.go:181-187`); a later one or the delay of 60 seconds makes up
  for it, which `Retrieved` includes.
* A shorter pause may replace a longer one, against `controlled.go:50`, since
  load and store are separate; `HostRate` and `NotEarly` except it.
* The promoter's counter wraps to an index of -1 and panics
  (`promoter.go:68`), after 2^32 promotions.
* The queue that replaces another in `lazyHostQueue` comes with a fresh limiter,
  which is what `Granted` counts.
* What a host announces is not capped at `MaxHostRPS`, which `Bounded` excepts.
* While the process is being stopped a worker may receive a nil job from a closed
  channel and panic, although "This allows to stop a worker gracefully"
  (`visitor.go:81`), and publishers and the promoter may send on closed channels
  (`ctrlq/memory.go:194`).
* A redirect that is still one after `MaxRedirects` is cancelled and not reported,
  although "it means the redirect was successful and we should treat this as a
  successful visit, not an error" (`visitor.go:221-224`). `OneResult` holds of
  what the code does, which is to ignore it.
* A job to be retried is in the crawled state, not in "Crawling"
  (`visitor.go:180`). `IsHealthy` counts workers that have exited.
* `api.go:104` deletes from the slice it ranges over; the body of a robots.txt
  response is not closed when there is one.

## Proofs

The `_proofs` modules are checked by TLAPS for every value of the constants
that satisfies the assumptions stated with them.

* `TypeCorrect` (WorkQueue): `TypeOK` is inductive. It is a conjunction of the
  types of the queues, the controls, the promoter, the callers, the visitors'
  jobs and the history; a frame lemma for each says it survives a step that
  leaves its variables alone, so that each action's lemma is about the parts it
  touches. The conjuncts that link parts (a host on the promoter's list has a
  queue, a caller past `lazyHostQueue` holds one) are what makes it inductive.
* `PromotionsAreFunded` (WorkQueue): `TokenPerPromotion` alone is not inductive:
  a promotion would need to know that its candidate has a token left. `Funded`
  says so for every candidate and every reservation held, and, for the step that
  replaces a host's queue, that a queue not yet in the map has no reservation.
  `ReservationsAreFunded` is the same invariant's other half.
* `PromotionsAreOnTime` (WorkQueue): a reservation held has matured, or the host is
  paused till then, or its caller is about to pause it, and pauses get longer only
  unless `shrunk` says otherwise. With it come the cases of a candidate just found,
  which is not paused, and of a queue being replaced, which holds no reservation
  (`OnTimeInv`).
* `HostsKeepTheirRate` (WorkQueue): what was taken from a host's limiter and not
  yet repaid by time or by `Granted` is at most what that limiter owes until its
  next token, both valued at the fastest limit a host may have, since a limit may change
  under the reservations made with another (`Pays`). So a reservation held is
  late enough for one more promotion (`HeldInTime`), and a promotion is made once
  it matured, `NotEarly` says (`FoundInTime`, `InTime`). A host queue used for
  the first time owes nothing and grants one more burst.
* `IsSingleQueue` (WorkQueue): every step is one of `VisitWorkQueue` or a stutter.
  The mapping puts the host queues, the default queue and the consumers' hands
  into one set, so a message has to be in one place at a time
  (`PlaceInv`); ids are used up in order (`OldInv`), the publishes under way fit
  within the bound on ids (`CountInv`), and a retry continues a job that was
  delivered (`RetryInv`). That there are finitely many callers
  (`CallersAssumption`) is what lets them be counted.
* `NeverBelowMin`, `WithinBounds` (Optimizer): the limit and all limits computed
  but not yet set are at least the minimum, and at most the maximum or what some
  host announced.
* `ErrorsSlowDown`, `BusyHostsSetTheirRate` (Optimizer): properties of steps,
  which follow from what a visitor knows before: a limit computed from an error
  is no more than the limit, one from headers is what they announced, and a busy
  host's sample is ignored (`AloneInv`).
* `FetchesBounded`, `RulesAreOwn`, `PanicsExplained` (Robots), each with its own
  inductive strengthening of the types. `CountInv`: who has fetched a key is
  still at it, or the key is known, so that whoever begins to fetch it did not
  before. `AnswerInv`: what is stored, or in a worker's hands, was answered to
  the credentials of its key. `NilInv`: a nil in a cache or in hand is of a host
  that answered what cannot be parsed, also one in the HTTP cache that was kept
  for other credentials.
* `ManagerTypes`, `FoundUnlessDeleted`, `SeenIsKept` (RunManager): the ranks of
  cached runs are distinct and within the size, which makes the entry pushed out
  one; a run that was added is stored unless it was deleted, which links a call
  that missed the cache to the store (`CallInv`).
* `TypeCorrect` (Reporting): part by part, as in WorkQueue.
* `SuccessIsOnDisk`, `PulseIsModest`, `PulseLosesRacesOnly` (Reporting): between
  the visit and the verdict a visitor that did well has its file on disk
  (`SavedInv`); what was shown, what the pulse holds before it is shown and what
  was counted since add up to no more than the visits, and to no less than those
  that did not race with a reset (`PulseInv`).
* `NothingLeftBehind` (Reporting): a URL under way has an update that is not
  terminal, or the start is about to report it (`Unsettled`), so the CLI could
  only leave between two URLs of the start, and then the last one enqueued is
  settled, its visit was heard of (`Heard`) and the estimate is about a pause
  (`Timed`). The URLs settled can be numbered by their visitors, each of whose
  visits took `MinVisit` (`Shared`), so that the average the reporter computes is
  no less than a visit divided by the visitors (`Pace`): with `Paced` the next
  URL comes before the safety distance is over.
* `TypeCorrect` (Crawl): that the queue does not overflow is about a sum over all
  jobs. `SumsUp` gives such sums their two equations, from which follow how one
  changes with one of its terms (`SumChange`) and when it is zero; the proofs by
  induction over a finite set are by a smallest counterexample (`Smallest`).
* `VisitsAreBounded` (Crawl): the visits made of a URL and those its messages may
  still cost, in the queue, in a hand and at a visitor, are no more than its
  publications times `MaxJobRetries + 1` (`CreditInv`): a publication adds as
  much, a visit moves one from the second to the first, and a full queue loses
  some.
* `NoMessageIsLost` (Crawl): there are never more messages, in the queue, in a
  hand and at a visitor, than publications (`AccountInv`), of which `OnceInv`
  allows one of each allowed URL by each enqueuer, so that a queue of that size
  has room for what is about to be published or retried.
* `PublishedOnceEach`, `FinishedIsTrue` (Crawl): `OnceInv`: what an
  enqueuer published it has marked as seen or is about to, so that whoever is
  about to publish a URL did not before. `FinishInv`: a URL that was published
  once is in one place at a time, the queue, a consumer's hand or a visitor, and
  as long as it is, its last update is not terminal, and if it has none its
  enqueuer is about to report it. So once it is reported the run does not look
  finished, whatever becomes of other URLs.
* `SharesRobots` (Visit): starting, draining and visiting implement `RobotsSpec`:
  nobody but its owner moves a call of `get` along, and every call asks for a
  host of a URL. It takes the types of what the goroutines have before them
  (`Typed`), and that a visitor only checks links. With it Robots' theorems hold
  of Visit (`VisitFetchesOnce`, `VisitHasOwnRules`, `VisitPanicsExplained`)
  without a second proof.
* `PublishedIsAdmitted` (Visit): whoever checks a URL asks for the robots.txt of
  its host, for its own run, having passed the filters before
  (`ChecksForItsRun`), so that what `OwnRules` says of the rules is about that
  URL. `PausedHasAsked`: a visitor told to wait is still at the host that told it
  so, whatever redirects led there (`BusyAsked`). `ReportedAsJudged`: a page of a
  run is in one place, its message, the visitor, a retry, and is judged there
  only when it leaves it (`PageInv`). `VisitTypeCorrect` collects the types.
* `UsesTheManager` (Service): the process implements `ManagerSpec`: the run of
  every message, in the queues, in hand, processed or about to be marked, was
  added (`CarryInv`), a retry's included. So `ProcessLosesNoRun` and
  `ProcessKeepsSeen` hold of it. `ServiceTypeCorrect` adds that no
  channel exceeds its capacity, and who holds a message.

Assumptions on constants are what the code's types give, that callers, URLs,
visitors and producers are finitely many where they are counted, and one more,
which TLC evaluates in every run of Visit: the start URLs of a host, which
`SelectSeq` filters, are a sequence of URLs (`FirstOfHostAssumption`);
`SelectSeq` is recursive, which the prover cannot see into.

Every invariant and every action property of the passing runs is stated by a
theorem. Only model-checked is liveness, which the prover cannot do: `Retrieved`,
`Settles`, `VisitsEnd`, `AllSeedsConsidered`, `Stops`, `Served`, `Exits` and
`VisitsGoOn`.

## Not modelled

* Result reporters other than the one to disk, the Factorial progress reporter,
  console and noop reporters: requests and log lines without state or retry.
  What a remote service makes of updates that overtake each other
  (`factorial.go:116`) is not in this repository.
* Decoding, validation and cleaning of requests, the elements of parsed
  documents, hashing and host names: pure functions on strings.
* Configuration and connections, which come before anything runs concurrently.
  The Redis store and queue are not implemented in the code.
* Telemetry: exporters of a library.

Some of these have faults of their own that a reader may meet: `TOBEY_PORT` and
`TOBEY_HOST` are never read, `-ua` is ignored by the daemon, and a run's
metadata is never set on it.
