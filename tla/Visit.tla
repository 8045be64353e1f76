------------------------------- MODULE Visit -------------------------------
(***************************************************************************)
(* A visit in detail: what the collector makes of a host's answers         *)
(* (src/internal/collector: redirects, errors, callbacks), the links it    *)
(* enqueues and the result it reports on the way, and what the visitor     *)
(* makes of the outcome (src/visitor.go:107-249).  It shares robots.txt    *)
(* and the admission with the goroutines of Seeding.                       *)
(***************************************************************************)
EXTENDS Seeding

CONSTANTS
    Visitors,
    Links,              \* Page -> the links on it.
    Target,             \* URL -> where it redirects to.
    PageAnswers,        \* What a request for a page may meet, among PageAnswerKinds.
    MaxRedirects,
    MaxJobRetries

\* A 2xx below 203 or a 304, with HTML or without; a body in a charset nobody
\* knows; a redirect; a 404; 500 or 504; 429 or 503; any other status; a
\* deadline that is exceeded; no response for another reason.
PageAnswerKinds == {"html", "text", "badCharset", "redirect", "gone", "broken", "busy",
                    "odd", "timeout", "refused"}

ASSUME VisitAssumption ==
    /\ Visitors \subseteq Workers \ (Starters \cup Drainers)
    /\ PageAnswers \subseteq PageAnswerKinds
    /\ Links \in [URLs -> Seq(URLs)] /\ Target \in [URLs -> URLs]
    /\ MaxRedirects \in Nat /\ MaxJobRetries \in Nat

Jobs == [run : Runs, url : URLs, retries : 0 .. MaxJobRetries]
NoJob == [run |-> "none", url |-> NoURL, retries |-> 0]

Nothing == "nothing"

VARIABLES
    vpc,            \* Visitor -> where it is.
    vjob,           \* Visitor -> its job.
    at,             \* Visitor -> the URL it requests.
    requests,       \* Visitor -> requests made for this visit, as far as they matter.
    result,         \* Visitor -> the answer to its last request.
    links,          \* Visitor -> links it has yet to enqueue.
    taken,          \* Runs and URLs whose first job has been received.
    republished,    \* Jobs republished and not yet received again.
    results,        \* Run and URL -> results handed to the reporter.
    verdict,        \* Run and URL -> its last progress update, if terminal.
    paused,         \* Hosts whose queue was paused.
    \* History.
    askedToWait     \* Hosts that answered a 429 or 503.

visitVars == <<vpc, vjob, at, requests, result, links, taken, republished, results, verdict,
               paused, askedToWait>>
vars == <<frontVars, visitVars>>

VisitInit ==
    /\ vpc = [v \in Visitors |-> "idle"]
    /\ vjob = [v \in Visitors |-> NoJob]
    /\ at = [v \in Visitors |-> NoURL]
    /\ requests = [v \in Visitors |-> 0]
    /\ result = [v \in Visitors |-> Nothing]
    /\ links = [v \in Visitors |-> <<>>]
    /\ taken = {} /\ republished = {}
    /\ results = [p \in Runs \X URLs |-> 0]
    /\ verdict = [p \in Runs \X URLs |-> "none"]
    /\ paused = {} /\ askedToWait = {}

Init == RobotsInit /\ SeedingInit /\ VisitInit

Go(v, from, to) == ~panicked /\ vpc[v] = from /\ vpc' = [vpc EXCEPT ![v] = to]

-----------------------------------------------------------------------------
\* The work queue delivers each message once; see WorkQueue.
PageOf(j) == <<j.run, j.url>>
Waiting == {j \in Jobs : j.retries = 0 /\ j.url \in published[j.run] /\ PageOf(j) \notin taken}
               \cup republished

Receive(v, j) ==
    /\ Go(v, "idle", "request")
    /\ j \in Waiting
    /\ vjob' = [vjob EXCEPT ![v] = j]
    /\ taken' = taken \cup {PageOf(j)}
    /\ republished' = republished \ {j}
    /\ at' = [at EXCEPT ![v] = j.url]
    /\ requests' = [requests EXCEPT ![v] = 1]
    /\ UNCHANGED <<frontVars, result, links, results, verdict, paused, askedToWait>>

\* CheckRedirectFunc: with as many requests behind it as MaxRedirects the
\* redirect itself is the response.  Where it leads is not checked again.
AlwaysFollows(v) == TRUE
Follows(v) == MaxRedirects = 0 \/ requests[v] < MaxRedirects

Redirect(v) ==
    /\ ~panicked /\ vpc[v] = "request" /\ "redirect" \in PageAnswers
    /\ Follows(v)
    /\ at' = [at EXCEPT ![v] = Target[@]]
    /\ requests' = [requests EXCEPT ![v] = IF @ < MaxRedirects THEN @ + 1 ELSE @]
    /\ UNCHANGED <<frontVars, vpc, vjob, result, links, taken, republished, results, verdict,
                   paused, askedToWait>>

\* Whatever else is an error: HTTPBackend.Do's, that comes without a response,
\* or handleOnError's for the status, fixCharset's, which come with one.
Ok(a) == a \in {"html", "text"}

\* The response to the last request.  HTML is searched for links.
Respond(v, a) ==
    /\ Go(v, "request", IF Ok(a) THEN "links" ELSE "visited")
    /\ a = "redirect" => ~Follows(v)
    /\ result' = [result EXCEPT ![v] = a]
    /\ links' = [links EXCEPT ![v] = IF a = "html" THEN Links[at[v]] ELSE <<>>]
    /\ askedToWait' = IF a = "busy" THEN askedToWait \cup {HostOf[at[v]]} ELSE askedToWait
    /\ UNCHANGED <<frontVars, vjob, at, requests, taken, republished, results, verdict, paused>>

EnqueueLink(v) ==
    /\ ~panicked /\ vpc[v] = "links" /\ checking[v] = NoURL /\ links[v] # <<>>
    /\ Enqueue(v, vjob[v].run, Head(links[v]))
    /\ links' = [links EXCEPT ![v] = Tail(@)]
    /\ UNCHANGED <<todo, free, aborted, vpc, vjob, at, requests, result, taken, republished,
                   results, verdict, paused, askedToWait>>

LinkStep(v) == /\ ~panicked
               /\ EndCheck(v, vjob[v].run) \/ PanicInCheck(v) \/ Fetching(v)
               /\ UNCHANGED visitVars

\* handleOnScraped, after all links, reports the result; an error of the
\* reporter is logged and nothing else.
CollectTwice(v) == results[PageOf(vjob[v])] + 2
CollectOnce(v) == results[PageOf(vjob[v])] + 1

Collect(v) ==
    /\ Go(v, "links", "visited")
    /\ links[v] = <<>> /\ checking[v] = NoURL
    /\ results' = [results EXCEPT ![PageOf(vjob[v])] = CollectOnce(v)]
    /\ UNCHANGED <<frontVars, vjob, at, requests, result, links, taken, republished, verdict,
                   paused, askedToWait>>

-----------------------------------------------------------------------------
(***************************************************************************)
(* Visitor.process after the visit, and handleFailedVisit.                 *)
(***************************************************************************)
Temporary(v) == result[v] \in {"broken", "busy", "timeout"}
RetriesForEver(v) == Temporary(v)
Retries(v) == Temporary(v) /\ vjob[v].retries < MaxJobRetries

\* The host that asked is paused: that of the last request, which a redirect
\* may have changed.
PausedJob(v) == {HostOf[vjob[v].url]}
PausedHost(v) == {HostOf[at[v]]}

Pause(v) ==
    /\ Go(v, "visited", "paused")
    /\ result[v] = "busy"
    /\ paused' = paused \cup PausedHost(v)
    /\ UNCHANGED <<frontVars, vjob, at, requests, result, links, taken, republished, results,
                   verdict, askedToWait>>

Verdict(v) == CASE Ok(result[v]) -> "succeeded"
                [] result[v] \in {"redirect", "gone"} -> "cancelled"
                [] Retries(v) -> "retried"
                [] OTHER -> "errored"

\* Retry-After is optional: a busy host may also not be paused.
Settle(v) ==
    /\ Go(v, vpc[v], IF result[v] = "refused" THEN "dead" ELSE "idle")
    /\ vpc[v] \in {"visited", "paused"}
    /\ IF Verdict(v) = "retried"
       THEN /\ republished' = republished \cup {[vjob[v] EXCEPT !.retries = @ + 1]}
            /\ UNCHANGED verdict
       ELSE /\ verdict' = [verdict EXCEPT ![PageOf(vjob[v])] = Verdict(v)]
            /\ UNCHANGED republished
    /\ vjob' = [vjob EXCEPT ![v] = NoJob]
    /\ at' = [at EXCEPT ![v] = NoURL]
    /\ requests' = [requests EXCEPT ![v] = 0]
    /\ result' = [result EXCEPT ![v] = Nothing]
    /\ UNCHANGED <<frontVars, links, taken, results, paused, askedToWait>>

VisitStep(v) == \/ \E j \in Jobs : Receive(v, j)
                \/ Redirect(v)
                \/ \E a \in PageAnswers : Respond(v, a)
                \/ EnqueueLink(v) \/ LinkStep(v) \/ Collect(v)
                \/ Pause(v) \/ Settle(v)

Seed(w) == ~panicked /\ SeedStep(w) /\ UNCHANGED visitVars

Next == \/ \E w \in Starters \cup Drainers : Seed(w)
        \/ \E v \in Visitors : VisitStep(v)

Spec == Init /\ [][Next]_vars

\* The scheduler does not stop while a goroutine can run, and requests end:
\* the clients have a timeout of ten seconds.  The goroutines that seed have a
\* bounded number of steps to make, so it need not be fair among them.
Fairness == /\ WF_vars(\E w \in Starters \cup Drainers : Seed(w))
            /\ \A v \in Visitors : WF_vars(VisitStep(v))

FairSpec == Spec /\ Fairness

-----------------------------------------------------------------------------
\* Every variable has its type.
TypeOK ==
    /\ RobotsTypeOK /\ SeedingTypeOK
    /\ vpc \in [Visitors -> {"idle", "request", "links", "visited", "paused", "dead"}]
    /\ vjob \in [Visitors -> Jobs \cup {NoJob}]
    /\ at \in [Visitors -> URLs \cup {NoURL}]
    /\ requests \in [Visitors -> Nat]
    /\ result \in [Visitors -> PageAnswerKinds \cup {Nothing}]
    /\ links \in [Visitors -> Seq(URLs)]
    /\ taken \subseteq Runs \X URLs /\ republished \subseteq Jobs
    /\ results \in [Runs \X URLs -> Nat]
    /\ verdict \in [Runs \X URLs -> {"none", "succeeded", "cancelled", "errored"}]
    /\ paused \subseteq Hosts /\ askedToWait \subseteq Hosts

\* A page of a run is reported once at most, however often its visit was
\* tried again, and it is if and only if it is then called a success: not for
\* a page that cannot be decoded or a host that stays busy (visitor.go:127-201).
\* Nor is it for a redirect that comes once MaxRedirects is reached, which is
\* cancelled, although the comment at visitor.go:221-224 takes any that arrives
\* for a successful visit: OneResult states what the code does.
OneResult ==
    \A p \in Runs \X URLs :
        /\ results[p] <= 1
        /\ verdict[p] # "none" => (verdict[p] = "succeeded" <=> results[p] = 1)

\* Only hosts that asked for it are paused, whatever redirects a visit went
\* through (visitor.go:230-238).
PausesWhoAsked == paused \subseteq askedToWait

\* A visit comes to an end, also of pages that redirect in circles
\* (collector.go:109-112), and its visitor is then free or has exited.
VisitsEnd == \A v \in Visitors : vpc[v] = "request" ~> (vpc[v] \in {"idle", "dead"} \/ panicked)
=============================================================================
