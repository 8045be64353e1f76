---------------------------- MODULE Visit_proofs ----------------------------
(***************************************************************************)
(* Proofs about starting runs and visits, for any runs, hosts, URLs,       *)
(* credentials, sitemaps, visitors, links and redirects: they use the      *)
(* cache of robots.txt files as Robots describes it, so that what holds of *)
(* it holds here; what they publish was admitted; who is paused has asked  *)
(* for it; and a page has one result.                                      *)
(***************************************************************************)
EXTENDS Visit, Robots_proofs

Seeders == Starters \cup Drainers
TaskSet == [do : {"enqueue", "drain", "discover", "resolve"}, url : URLs]

TodoTypes == todo \in [Seeders -> Seq(TaskSet)] /\ free \subseteq Drainers /\ aborted \subseteq Runs

CheckTypes ==
    /\ checking \in [Workers -> URLs \cup {NoURL}]
    /\ published \in [Runs -> SUBSET URLs]
    /\ considered \in [Runs -> SUBSET URLs]

Busy == {"request", "links", "visited", "paused"}

JobTypes ==
    /\ vpc \in [Visitors -> {"idle", "dead"} \cup Busy]
    /\ vjob \in [Visitors -> Jobs \cup {NoJob}]
    /\ at \in [Visitors -> URLs \cup {NoURL}]
    /\ result \in [Visitors -> PageAnswerKinds \cup {Nothing}]
    /\ \A v \in Visitors : vpc[v] \in Busy => vjob[v] \in Jobs /\ at[v] \in URLs
    /\ taken \subseteq Runs \X URLs /\ republished \subseteq Jobs

LinkTypes == links \in [Visitors -> Seq(URLs)] /\ requests \in [Visitors -> Nat]

\* A visitor only checks the links it has found.
ChecksLinks == \A v \in Visitors : checking[v] # NoURL => vpc[v] = "links"

Types == TodoTypes /\ CheckTypes /\ JobTypes /\ LinkTypes
Typed == Types /\ ChecksLinks

-----------------------------------------------------------------------------
LEMMA SeederRuns == ASSUME NEW w \in Seeders PROVE RunOf(w) \in Runs /\ w \in Workers
BY SeedingAssumption DEF Seeders, Starters, Drainers, RunOf

LEMMA VisitorsApart == ASSUME NEW v \in Visitors PROVE v \in Workers /\ v \notin Seeders
BY VisitAssumption DEF Seeders

LEMMA TasksType ==
  ASSUME NEW do \in {"enqueue", "drain", "discover", "resolve"}, NEW urls \in Seq(URLs)
  PROVE  Tasks(do, urls) \in Seq(TaskSet)
<1>1. DOMAIN urls = 1 .. Len(urls) /\ Len(urls) \in Nat /\ \A i \in 1 .. Len(urls) : urls[i] \in URLs
  OBVIOUS
<1>2. Tasks(do, urls) \in [1 .. Len(urls) -> TaskSet]
  BY <1>1 DEF Tasks, Task, TaskSet
<1> QED BY <1>1, <1>2

LEMMA ProgramType == ASSUME NEW r \in Runs PROVE Program(r) \in Seq(TaskSet)
<1> DEFINE urls == StartURLs[r]
           first == [i \in DOMAIN urls |-> SeedTask(urls[i])]
<1>1. urls \in Seq(URLs)
  BY SeedingAssumption
<1>2. DOMAIN urls = 1 .. Len(urls) /\ Len(urls) \in Nat /\ \A i \in 1 .. Len(urls) : urls[i] \in URLs
  BY <1>1
<1>3. first \in [1 .. Len(urls) -> TaskSet]
  BY <1>2 DEF SeedTask, Task, TaskSet
<1>4. first \in Seq(TaskSet)
  BY <1>2, <1>3
<1>5. Tasks("discover", FirstOfHost(urls)) \in Seq(TaskSet)
  BY FirstOfHostAssumption, TasksType
<1> QED BY <1>4, <1>5 DEF Program

LEMMA InitTypes == Init => Types
<1> SUFFICES ASSUME Init PROVE Types
  OBVIOUS
<1>1. TodoTypes
  <2>1. \A w \in Starters : Program(RunOf(w)) \in Seq(TaskSet)
    BY ProgramType, SeederRuns DEF Seeders
  <2> QED BY <2>1 DEF Init, SeedingInit, TodoTypes, Seeders
<1>2. CheckTypes /\ JobTypes /\ LinkTypes
  BY DEF Init, SeedingInit, VisitInit, CheckTypes, JobTypes, LinkTypes, Busy
<1> QED BY <1>1, <1>2 DEF Types

\* The enqueue function's steps.
LEMMA StepEnqueue ==
  ASSUME CheckTypes, NEW w \in Workers, NEW r \in Runs, NEW u \in URLs, Enqueue(w, r, u)
  PROVE  CheckTypes'
BY DEF CheckTypes, Enqueue, Reject, BeginCheck, Considered

LEMMA StepEndCheck ==
  ASSUME CheckTypes, NEW w \in Workers, NEW r \in Runs, EndCheck(w, r)
  PROVE  CheckTypes'
BY DEF CheckTypes, EndCheck, Considered

LEMMA FrameTodo == ASSUME TodoTypes, UNCHANGED <<todo, free, aborted>> PROVE TodoTypes'
BY DEF TodoTypes
LEMMA FrameCheck == ASSUME CheckTypes, UNCHANGED <<checking, published, considered>> PROVE CheckTypes'
BY DEF CheckTypes
LEMMA FrameVisit == ASSUME JobTypes, LinkTypes, UNCHANGED visitVars PROVE JobTypes' /\ LinkTypes'
BY DEF JobTypes, LinkTypes, visitVars

-----------------------------------------------------------------------------
\* What is on a goroutine's list.
LEMMA HeadTask ==
  ASSUME TodoTypes, NEW w \in Seeders, todo[w] # <<>>
  PROVE  Head(todo[w]) \in TaskSet /\ Head(todo[w]).url \in URLs /\ Tail(todo[w]) \in Seq(TaskSet)
<1>1. todo[w] \in Seq(TaskSet)
  BY DEF TodoTypes
<1>2. Head(todo[w]) \in TaskSet /\ Tail(todo[w]) \in Seq(TaskSet)
  BY <1>1
<1> QED BY <1>2 DEF TaskSet

LEMMA SeedTypes ==
  ASSUME TodoTypes, CheckTypes, NEW w \in Seeders, SeedStep(w) PROVE TodoTypes' /\ CheckTypes'
<1>w. w \in Workers /\ RunOf(w) \in Runs
  BY SeederRuns
<1>1. ASSUME EnqueueSeed(w) PROVE TodoTypes' /\ CheckTypes'
  <2>1. todo[w] # <<>>
    BY <1>1 DEF EnqueueSeed, Ready
  <2>2. CheckTypes'
    BY <1>1, <1>w, <2>1, HeadTask, StepEnqueue DEF EnqueueSeed
  <2>3. TodoTypes'
    BY <1>1, <2>1, HeadTask DEF EnqueueSeed, TodoTypes
  <2> QED BY <2>2, <2>3
<1>2. ASSUME StartDrain(w) PROVE TodoTypes' /\ CheckTypes'
  <2> DEFINE fresh == {d \in free : RunOf(d) = RunOf(w)}
             d == CHOOSE d \in fresh : \A e \in fresh : d[2] <= e[2]
             task == Task("resolve", Head(todo[w]).url)
  <2>1. todo[w] # <<>>
    BY <1>2 DEF StartDrain, Ready
  <2>2. task \in TaskSet /\ Tail(todo[w]) \in Seq(TaskSet)
    BY <2>1, HeadTask DEF Task, TaskSet
  <2>3. /\ free' = free \ {d} /\ aborted' = aborted
        /\ todo' = [todo EXCEPT ![w] = Tail(@), ![d] = <<task>>]
    BY <1>2 DEF StartDrain
  <2> HIDE DEF d, task
  <2>4. <<task>> \in Seq(TaskSet)
    BY <2>2
  <2>5. todo' \in [Seeders -> Seq(TaskSet)]
    BY <2>2, <2>3, <2>4 DEF TodoTypes
  <2>6. TodoTypes'
    BY <2>3, <2>5 DEF TodoTypes
  <2> QED BY <1>2, <2>6, FrameCheck DEF StartDrain
<1>3. ASSUME Discovered(w) PROVE TodoTypes' /\ CheckTypes'
  <2> DEFINE h == HostOf[Head(todo[w]).url]
             new == Tasks("drain", SitemapsOf(robot[w], h))
  <2>1. todo[w] # <<>>
    BY <1>3 DEF Discovered
  <2>2. Tail(todo[w]) \in Seq(TaskSet) /\ h \in Hosts
    BY <2>1, HeadTask, SeedingAssumption
  <2>3. <<WellKnown[h]>> \in Seq(URLs) /\ Listed[h] \in Seq(URLs)
    BY <2>2, SeedingAssumption
  <2>4. SitemapsOf(robot[w], h) \in Seq(URLs)
    BY <2>3 DEF SitemapsOf
  <2>5. new \in Seq(TaskSet)
    BY <2>4, TasksType
  <2>6. todo' = [todo EXCEPT ![w] = Tail(todo[w]) \o new]
    BY <1>3 DEF Discovered
  <2> HIDE DEF new
  <2>7. Tail(todo[w]) \o new \in Seq(TaskSet)
    BY <2>2, <2>5
  <2>8. TodoTypes'
    BY <1>3, <2>6, <2>7 DEF Discovered, TodoTypes
  <2> QED BY <1>3, <2>8, FrameCheck DEF Discovered
<1>4. ASSUME Resolve(w) PROVE TodoTypes' /\ CheckTypes'
  <2> DEFINE u == Head(todo[w]).url
  <2>1. todo[w] # <<>>
    BY <1>4 DEF Resolve, Ready
  <2>2. Tail(todo[w]) \in Seq(TaskSet) /\ u \in URLs
    BY <2>1, HeadTask
  <2>3. Entries[u] \in Seq(URLs)
    BY <2>2, SeedingAssumption
  <2>4. Resolved(u) \in Seq(TaskSet)
    BY <2>3, TasksType DEF Resolved
  <2>5. todo' = [todo EXCEPT ![w] = Resolved(u) \o Tail(todo[w])]
    BY <1>4 DEF Resolve
  <2>6. Resolved(u) \o Tail(todo[w]) \in Seq(TaskSet)
    BY <2>2, <2>4
  <2>7. TodoTypes'
    BY <1>4, <2>5, <2>6 DEF Resolve, TodoTypes
  <2> QED BY <1>4, <2>7, FrameCheck DEF Resolve
<1>5. ASSUME Abort(w) \/ ResolveNothing(w) PROVE TodoTypes' /\ CheckTypes'
  <2>1. CASE Abort(w)
    <3>1. TodoTypes'
      BY <1>w, <2>1 DEF Abort, TodoTypes
    <3> QED BY <2>1, <3>1, FrameCheck DEF Abort
  <2>2. CASE ResolveNothing(w)
    <3>1. Tail(todo[w]) \in Seq(TaskSet)
      BY <2>2, HeadTask DEF ResolveNothing, Ready
    <3>2. TodoTypes'
      BY <1>w, <2>2, <3>1 DEF ResolveNothing, TodoTypes
    <3> QED BY <2>2, <3>2, FrameCheck DEF ResolveNothing
  <2> QED BY <1>5, <2>1, <2>2
<1>6. ASSUME EndCheck(w, RunOf(w)) PROVE TodoTypes' /\ CheckTypes'
  BY <1>6, <1>w, StepEndCheck, FrameTodo DEF EndCheck
<1>7. ASSUME Discover(w) \/ PanicInDiscover(w) \/ PanicInCheck(w) \/ Fetching(w)
      PROVE  TodoTypes' /\ CheckTypes'
  BY <1>7, FrameTodo, FrameCheck DEF Discover, PanicInDiscover, PanicInCheck, Fetching, seedingVars
<1> QED BY <1>1, <1>2, <1>3, <1>4, <1>5, <1>6, <1>7 DEF SeedStep

LEMMA RetriedType ==
  ASSUME NEW j \in Jobs, j.retries < MaxJobRetries
  PROVE  /\ [j EXCEPT !.retries = @ + 1] \in Jobs
         /\ PageOf([j EXCEPT !.retries = @ + 1]) = PageOf(j)
<1>1. j.retries + 1 \in 0 .. MaxJobRetries
  BY VisitAssumption DEF Jobs
<1> QED BY <1>1 DEF Jobs, PageOf

LEMMA OnlyRetries ==
  ASSUME NEW v \in Visitors, Verdict(v) = "retried"
  PROVE  vjob[v].retries < MaxJobRetries /\ ~Ok(result[v])
BY DEF Verdict, Retries, Temporary, Ok

LEMMA FrameLinks == ASSUME LinkTypes, UNCHANGED <<links, requests>> PROVE LinkTypes'
BY DEF LinkTypes

LEMMA VisitTypes == ASSUME Typed, NEW v \in Visitors, VisitStep(v) PROVE Types'
<1> USE DEF Typed, Types
<1>v. v \in Workers
  BY VisitorsApart
<1>1. ASSUME NEW j \in Jobs, Receive(v, j) PROVE Types'
  <2>1. PageOf(j) \in Runs \X URLs /\ j.url \in URLs
    BY DEF Jobs, PageOf
  <2>2. JobTypes'
    BY <1>1, <2>1 DEF Receive, Go, JobTypes, Busy
  <2>3. LinkTypes'
    BY <1>1 DEF Receive, LinkTypes
  <2> QED BY <1>1, <2>2, <2>3, FrameTodo, FrameCheck DEF Receive, frontVars, seedingVars
<1>2. ASSUME Redirect(v) PROVE Types'
  <2>1. at[v] \in URLs /\ Target[at[v]] \in URLs
    BY <1>2, VisitAssumption DEF Redirect, JobTypes, Busy
  <2>2. JobTypes'
    BY <1>2, <2>1 DEF Redirect, JobTypes
  <2>3. LinkTypes'
    BY <1>2, VisitAssumption DEF Redirect, LinkTypes
  <2> QED BY <1>2, <2>2, <2>3, FrameTodo, FrameCheck DEF Redirect, frontVars, seedingVars
<1>3. ASSUME NEW a \in PageAnswers, Respond(v, a) PROVE Types'
  <2>1. a \in PageAnswerKinds
    BY VisitAssumption
  <2>2. at[v] \in URLs /\ Links[at[v]] \in Seq(URLs)
    BY <1>3, VisitAssumption DEF Respond, Go, JobTypes, Busy
  <2>3. JobTypes'
    BY <1>3, <2>1 DEF Respond, Go, JobTypes, Busy
  <2>4. <<>> \in Seq(URLs)
    OBVIOUS
  <2>5. LinkTypes'
    BY <1>3, <2>2, <2>4 DEF Respond, LinkTypes
  <2> QED BY <1>3, <2>3, <2>5, FrameTodo, FrameCheck DEF Respond, frontVars, seedingVars
<1>4. ASSUME EnqueueLink(v) PROVE Types'
  <2>1. links[v] \in Seq(URLs) /\ links[v] # <<>>
    BY <1>4 DEF EnqueueLink, LinkTypes
  <2>2. Head(links[v]) \in URLs /\ Tail(links[v]) \in Seq(URLs)
    BY <2>1
  <2>3. vjob[v].run \in Runs
    BY <1>4 DEF EnqueueLink, JobTypes, Busy, Jobs
  <2>4. CheckTypes'
    BY <1>4, <1>v, <2>2, <2>3, StepEnqueue DEF EnqueueLink
  <2>5. LinkTypes'
    BY <1>4, <2>2 DEF EnqueueLink, LinkTypes
  <2>6. JobTypes'
    BY <1>4 DEF EnqueueLink, JobTypes
  <2> QED BY <1>4, <2>4, <2>5, <2>6, FrameTodo DEF EnqueueLink
<1>6. ASSUME Collect(v) PROVE Types'
  <2>1. JobTypes'
    BY <1>6 DEF Collect, Go, JobTypes, Busy
  <2> QED BY <1>6, <2>1, FrameTodo, FrameCheck, FrameLinks DEF Collect, frontVars, seedingVars
<1>7. ASSUME Pause(v) PROVE Types'
  <2>1. JobTypes'
    BY <1>7 DEF Pause, Go, JobTypes, Busy
  <2> QED BY <1>7, <2>1, FrameTodo, FrameCheck, FrameLinks DEF Pause, frontVars, seedingVars
<1>8. ASSUME Settle(v) PROVE Types'
  <2>1. vjob[v] \in Jobs
    BY <1>8 DEF Settle, JobTypes, Busy
  <2>2. Verdict(v) = "retried" => [vjob[v] EXCEPT !.retries = @ + 1] \in Jobs
    BY <2>1, RetriedType, OnlyRetries
  <2>3. republished' \subseteq Jobs
    BY <1>8, <2>2 DEF Settle, JobTypes
  <2>4. JobTypes'
    BY <1>8, <2>3 DEF Settle, Go, JobTypes, Busy
  <2>5. LinkTypes'
    BY <1>8 DEF Settle, LinkTypes
  <2> QED BY <1>8, <2>4, <2>5, FrameTodo, FrameCheck DEF Settle, frontVars, seedingVars
<1>5. ASSUME LinkStep(v) PROVE Types'
  <2>1. JobTypes' /\ LinkTypes'
    BY <1>5, FrameVisit DEF LinkStep
  <2>2. CASE EndCheck(v, vjob[v].run)
    <3>1. vjob[v].run \in Runs
      BY <2>2 DEF EndCheck, ChecksLinks, JobTypes, Busy, Jobs
    <3>2. CheckTypes'
      BY <1>v, <2>2, <3>1, StepEndCheck
    <3> QED BY <2>1, <2>2, <3>2, FrameTodo DEF EndCheck
  <2>3. CASE PanicInCheck(v) \/ Fetching(v)
    BY <2>1, <2>3, FrameTodo, FrameCheck DEF PanicInCheck, Fetching, seedingVars
  <2> QED BY <1>5, <2>2, <2>3 DEF LinkStep
<1> QED BY <1>1, <1>2, <1>3, <1>4, <1>5, <1>6, <1>7, <1>8 DEF VisitStep

LEMMA StepTypes == ASSUME Typed, [Next]_vars PROVE Types'
<1>1. ASSUME NEW w \in Seeders, Seed(w) PROVE Types'
  BY <1>1, SeedTypes, FrameVisit DEF Typed, Types, Seed
<1>2. ASSUME UNCHANGED vars PROVE Types'
  BY <1>2, FrameTodo, FrameCheck, FrameVisit DEF Typed, Types, vars, frontVars, seedingVars
<1> QED BY <1>1, <1>2, VisitTypes DEF Next, Seeders

\* A goroutine that seeds only changes what it checks itself.
LEMMA SeederChecks ==
  ASSUME CheckTypes, NEW w \in Seeders, SeedStep(w)
  PROVE  \A x \in Workers : x # w => checking'[x] = checking[x]
BY DEF CheckTypes, SeedStep, EnqueueSeed, Enqueue, Reject, BeginCheck, StartDrain, Discover, Discovered,
       PanicInDiscover, Resolve, ResolveNothing, Abort, EndCheck, PanicInCheck, Fetching, seedingVars

LEMMA StepChecksLinks == ASSUME Typed, [Next]_vars PROVE ChecksLinks'
<1> USE DEF Typed, Types
<1>1. ASSUME NEW w \in Seeders, Seed(w) PROVE ChecksLinks'
  BY <1>1, SeederChecks, VisitorsApart DEF Seed, ChecksLinks, visitVars
<1>2. ASSUME NEW v \in Visitors, VisitStep(v) PROVE ChecksLinks'
  <2>v. v \in Workers
    BY VisitorsApart
  <2>o. \A x \in Visitors : x \in Workers
    BY VisitorsApart
  <2>1. CASE EnqueueLink(v)
    <3>1. vpc' = vpc /\ vpc[v] = "links"
      BY <2>1 DEF EnqueueLink
    <3>2. \A x \in Workers : x # v => checking'[x] = checking[x]
      BY <2>1 DEF EnqueueLink, Enqueue, Reject, BeginCheck, CheckTypes
    <3> QED BY <2>o, <3>1, <3>2 DEF ChecksLinks
  <2>2. CASE LinkStep(v)
    <3>1. vpc' = vpc
      BY <2>2 DEF LinkStep, visitVars
    <3>2. checking' \in {checking, [checking EXCEPT ![v] = NoURL]}
      BY <2>2 DEF LinkStep, EndCheck, PanicInCheck, Fetching, seedingVars
    <3>3. \A x \in Workers : checking'[x] \in {checking[x], NoURL}
      BY <3>2 DEF CheckTypes
    <3> QED BY <2>o, <3>1, <3>3 DEF ChecksLinks
  <2>3. CASE \/ \E j \in Jobs : Receive(v, j)
             \/ Redirect(v)
             \/ \E a \in PageAnswers : Respond(v, a)
             \/ Collect(v) \/ Pause(v) \/ Settle(v)
    BY <2>3 DEF Receive, Redirect, Respond, Collect, Pause, Settle, Go, frontVars, seedingVars, ChecksLinks,
                JobTypes
  <2> QED BY <1>2, <2>1, <2>2, <2>3 DEF VisitStep
<1>3. ASSUME UNCHANGED vars PROVE ChecksLinks'
  BY <1>3 DEF vars, frontVars, seedingVars, visitVars, ChecksLinks
<1> QED BY <1>1, <1>2, <1>3 DEF Next, Seeders

LEMMA AlwaysTyped == Spec => []Typed
<1>1. Init => Typed
  <2>1. Init => ChecksLinks
    BY VisitorsApart DEF Init, SeedingInit, ChecksLinks
  <2> QED BY <2>1, InitTypes DEF Typed
<1>2. Typed /\ [Next]_vars => Typed'
  BY StepTypes, StepChecksLinks DEF Typed
<1> QED BY <1>1, <1>2, PTL DEF Spec

-----------------------------------------------------------------------------
(***************************************************************************)
(* Every step is one of Robots, or none of its business.                   *)
(***************************************************************************)
\* Rules are only asked for hosts that there are.
LEMMA AsksForHosts ==
  ASSUME NEW r \in Runs, NEW u, Passes(r, u) PROVE <<r, HostOf[u]>> \in Wanted
BY SeedingAssumption DEF Passes, CheckDomain, Wanted

LEMMA StepSharesRobots == ASSUME Typed, Next PROVE RobotsNext \/ UNCHANGED robotsVars
<1> USE DEF Typed, Types
<1>1. ASSUME NEW w \in Workers, NEW r \in Runs, NEW u, ~panicked, Enqueue(w, r, u)
      PROVE  RobotsNext \/ UNCHANGED robotsVars
  BY <1>1, AsksForHosts DEF Enqueue, Reject, BeginCheck, RobotsNext
<1>2. ASSUME NEW w \in Workers, ~panicked,
             \/ CheckDone(w) \/ CheckPanics(w) \/ SitemapsDone(w) \/ SitemapsPanics(w) \/ FetchStep(w)
      PROVE  RobotsNext
  BY <1>2 DEF RobotsNext
<1>3. ASSUME NEW w \in Seeders, Seed(w) PROVE RobotsNext \/ UNCHANGED robotsVars
  <2>w. w \in Workers /\ RunOf(w) \in Runs
    BY SeederRuns
  <2>1. CASE EnqueueSeed(w)
    BY <1>1, <1>3, <2>w, <2>1 DEF Seed, EnqueueSeed
  <2>2. CASE Discover(w)
    <3>1. Head(todo[w]).url \in URLs
      BY <2>2, HeadTask DEF Discover, Ready
    <3>2. <<RunOf(w), HostOf[Head(todo[w]).url]>> \in Wanted
      BY <2>w, <3>1, SeedingAssumption DEF Wanted
    <3> QED BY <1>3, <2>w, <2>2, <3>2 DEF Discover, Seed, RobotsNext
  <2>3. CASE \/ Discovered(w) \/ PanicInDiscover(w) \/ EndCheck(w, RunOf(w)) \/ PanicInCheck(w)
             \/ Fetching(w)
    BY <1>2, <1>3, <2>w, <2>3 DEF Discovered, PanicInDiscover, EndCheck, PanicInCheck, Fetching, Seed
  <2>4. CASE StartDrain(w) \/ Resolve(w) \/ ResolveNothing(w) \/ Abort(w)
    BY <2>4 DEF StartDrain, Resolve, ResolveNothing, Abort
  <2> QED BY <1>3, <2>1, <2>2, <2>3, <2>4 DEF Seed, SeedStep
<1>4. ASSUME NEW v \in Visitors, VisitStep(v) PROVE RobotsNext \/ UNCHANGED robotsVars
  <2>v. v \in Workers
    BY VisitorsApart
  <2>1. CASE EnqueueLink(v)
    <3>1. vjob[v].run \in Runs
      BY <2>1 DEF EnqueueLink, JobTypes, Busy, Jobs
    <3> QED BY <1>1, <2>v, <2>1, <3>1 DEF EnqueueLink
  <2>2. CASE LinkStep(v)
    BY <1>2, <2>v, <2>2 DEF LinkStep, EndCheck, PanicInCheck, Fetching
  <2>3. CASE \/ \E j \in Jobs : Receive(v, j)
             \/ Redirect(v)
             \/ \E a \in PageAnswers : Respond(v, a)
             \/ Collect(v) \/ Pause(v) \/ Settle(v)
    BY <2>3 DEF Receive, Redirect, Respond, Collect, Pause, Settle, frontVars
  <2> QED BY <1>4, <2>1, <2>2, <2>3 DEF VisitStep
<1> QED BY <1>3, <1>4 DEF Next, Seeders

\* Starting runs, draining sitemaps and following links use the cache of
\* robots.txt files as Robots has it: nobody but its owner touches a call under
\* way (run.go:204-224, sitemap.go:47-77, collector.go:278-335).
THEOREM SharesRobots == Spec => RobotsSpec
<1>1. Init => RobotsInit
  BY DEF Init
<1>2. Typed /\ [Next]_vars => [RobotsNext]_robotsVars
  BY StepSharesRobots DEF vars, frontVars
<1> QED BY <1>1, <1>2, AlwaysTyped, PTL DEF Spec, RobotsSpec

\* So what holds of it holds of them: a robots.txt is fetched at most once per
\* goroutine and host of a run (robots.go:95-131).
THEOREM VisitFetchesOnce == Spec => []FetchedOnceEach
BY SharesRobots, FetchesBounded, PTL

\* The rules a run's check consults were got with its own client
\* (robots.go:62-131).
THEOREM VisitHasOwnRules == Spec => []OwnRules
BY SharesRobots, RulesAreOwn, PTL

\* A goroutine of theirs panics over robots.txt only when the fetch got no
\* response, or over rules of a host whose own answer could not be parsed
\* (robots.go:117-141).
THEOREM VisitPanicsExplained == Spec => []PanicsOnlyOnTrouble
BY SharesRobots, PanicsExplained, PTL

-----------------------------------------------------------------------------
(***************************************************************************)
(* A goroutine that checks a URL holds, or waits for, the rules of that    *)
(* URL's host, asked for with the credentials of the run it checks it for. *)
(***************************************************************************)
RunFor(w) == IF w \in Visitors THEN vjob[w].run ELSE RunOf(w)

Asks(w, r, u) == Passes(r, u) /\ rpc[w] # "idle" /\ ask[w] = <<r, HostOf[u]>>

ChecksForItsRun ==
    \A w \in Workers : checking[w] # NoURL =>
        w \in Seeders \cup Visitors /\ Asks(w, RunFor(w), checking[w])

CheckInv == RobotsTypeOK /\ Typed /\ ChecksForItsRun

\* Whose call goes on, on which nothing but its own steps have an effect.
LEMMA StepsOfItsOwn ==
  ASSUME RobotsTypeOK, NEW w \in Workers,
         \/ \E p \in Wanted : Get(w, p)
         \/ FetchStep(w)
         \/ CheckDone(w) \/ CheckPanics(w) \/ SitemapsDone(w) \/ SitemapsPanics(w)
         \/ UNCHANGED robotsVars
  PROVE  \A x \in Workers : x # w => rpc'[x] = rpc[x] /\ ask'[x] = ask[x]
BY DEF RobotsTypeOK, Get, Found, Missing, FetchStep, TryAgain, Cached, Answer, Store,
       NoResponse, TimedOut, Fails, CloseBody,
       CheckDone, CheckPanics, SitemapsDone, SitemapsPanics, Use, Dereference, robotsVars

LEMMA FetchGoesOn ==
  ASSUME RobotsTypeOK, NEW w \in Workers, FetchStep(w)
  PROVE  rpc'[w] # "idle" /\ ask'[w] = ask[w]
BY DEF RobotsTypeOK, FetchStep, TryAgain, Cached, Answer, NoResponse, TimedOut, Fails, CloseBody, Store

\* What a step of w has to do with its own check.
LEMMA OthersGoOn ==
  ASSUME ChecksForItsRun, NEW w \in Workers,
         \A x \in Workers : x # w => /\ checking'[x] = checking[x]
                                     /\ rpc'[x] = rpc[x] /\ ask'[x] = ask[x] /\ RunFor(x)' = RunFor(x),
         checking'[w] = NoURL \/ (w \in Seeders \cup Visitors /\ Asks(w, RunFor(w), checking[w])')
  PROVE  ChecksForItsRun'
BY DEF ChecksForItsRun, Asks, Passes, CheckDomain, CheckPath

\* The enqueue function of w.
LEMMA EnqueueAsks ==
  ASSUME CheckInv, NEW w \in Seeders \cup Visitors, w \in Workers, NEW u \in URLs,
         RunFor(w) \in Runs, RunFor(w)' = RunFor(w),
         checking[w] = NoURL, Enqueue(w, RunFor(w), u),
         \A x \in Workers : x # w => RunFor(x)' = RunFor(x)
  PROVE  ChecksForItsRun'
<1> USE DEF CheckInv
<1>1. CASE Reject(w, RunFor(w), u)
  <2>1. UNCHANGED robotsVars /\ checking' = checking
    BY <1>1 DEF Reject
  <2> QED BY <2>1, StepsOfItsOwn, OthersGoOn
<1>2. CASE BeginCheck(w, RunFor(w), u)
  <2> DEFINE p == <<RunFor(w), HostOf[u]>>
  <2>1. p \in Wanted /\ Get(w, p) /\ Passes(RunFor(w), u)
    BY <1>2, AsksForHosts DEF BeginCheck
  <2>2. checking' = [checking EXCEPT ![w] = u]
    BY <1>2 DEF BeginCheck
  <2>3. checking'[w] = u /\ \A x \in Workers : x # w => checking'[x] = checking[x]
    BY <2>2 DEF Typed, Types, CheckTypes
  <2>4. rpc'[w] # "idle" /\ ask'[w] = p
    BY <2>1 DEF Get, Found, Missing, RobotsTypeOK
  <2>5. Asks(w, RunFor(w), checking[w])'
    BY <2>1, <2>3, <2>4 DEF Asks, Passes, CheckDomain, CheckPath
  <2>6. \A x \in Workers : x # w => rpc'[x] = rpc[x] /\ ask'[x] = ask[x]
    BY <2>1, StepsOfItsOwn
  <2> QED BY <2>3, <2>5, <2>6, OthersGoOn
<1> QED BY <1>1, <1>2 DEF Enqueue

\* The rest of a check.
LEMMA CheckAsks ==
  ASSUME CheckInv, NEW w \in Workers, NEW r,
         EndCheck(w, r) \/ PanicInCheck(w) \/ Fetching(w),
         \A x \in Workers : RunFor(x)' = RunFor(x)
  PROVE  ChecksForItsRun'
<1> USE DEF CheckInv
<1>0. \A x \in Workers : x # w => rpc'[x] = rpc[x] /\ ask'[x] = ask[x]
  BY StepsOfItsOwn DEF EndCheck, PanicInCheck, Fetching
<1>1. CASE EndCheck(w, r)
  <2>1. checking'[w] = NoURL /\ \A x \in Workers : x # w => checking'[x] = checking[x]
    BY <1>1 DEF EndCheck, Typed, Types, CheckTypes
  <2> QED BY <1>0, <2>1, OthersGoOn
<1>2. CASE PanicInCheck(w)
  <2>1. checking' = checking /\ rpc' = rpc /\ ask' = ask
    BY <1>2 DEF PanicInCheck, CheckPanics, Dereference, seedingVars
  <2> QED BY <2>1 DEF ChecksForItsRun, Asks, Passes, CheckDomain, CheckPath
<1>3. CASE Fetching(w)
  <2>1. checking' = checking /\ rpc'[w] # "idle" /\ ask'[w] = ask[w]
    BY <1>3, FetchGoesOn DEF Fetching, seedingVars
  <2>2. checking'[w] = NoURL \/ (w \in Seeders \cup Visitors /\ Asks(w, RunFor(w), checking[w])')
    BY <2>1 DEF ChecksForItsRun, Asks, Passes, CheckDomain, CheckPath
  <2> QED BY <1>0, <2>1, <2>2, OthersGoOn
<1> QED BY <1>1, <1>2, <1>3

\* A step that checks nothing and leaves the calls of those that do alone.
LEMMA NothingChecked ==
  ASSUME ChecksForItsRun, checking' = checking,
         \A x \in Workers : checking[x] # NoURL =>
             rpc'[x] = rpc[x] /\ ask'[x] = ask[x] /\ RunFor(x)' = RunFor(x)
  PROVE  ChecksForItsRun'
BY DEF ChecksForItsRun, Asks, Passes, CheckDomain, CheckPath

LEMMA SeedChecks == ASSUME CheckInv, NEW w \in Seeders, Seed(w) PROVE ChecksForItsRun'
<1> USE DEF CheckInv
<1>w. w \in Workers /\ RunOf(w) \in Runs /\ w \notin Visitors
  BY SeederRuns, VisitorsApart
<1>r. RunFor(w) = RunOf(w) /\ \A x \in Workers : RunFor(x)' = RunFor(x)
  BY <1>w DEF Seed, visitVars, RunFor
<1>1. CASE EnqueueSeed(w)
  <2>1. Head(todo[w]).url \in URLs /\ checking[w] = NoURL
    BY <1>1, HeadTask DEF EnqueueSeed, Ready, Typed, Types
  <2> QED BY <1>1, <1>w, <1>r, <2>1, EnqueueAsks DEF EnqueueSeed
<1>2. CASE EndCheck(w, RunOf(w)) \/ PanicInCheck(w) \/ Fetching(w)
  BY <1>2, <1>w, <1>r, CheckAsks
<1>3. CASE Discover(w) \/ Discovered(w) \/ PanicInDiscover(w)
  <2>1. checking' = checking /\ checking[w] = NoURL
    BY <1>3 DEF Discover, Ready, Discovered, PanicInDiscover, seedingVars
  <2>2. \A x \in Workers : x # w => rpc'[x] = rpc[x] /\ ask'[x] = ask[x]
    <3>1. CASE Discover(w)
      <4>1. Head(todo[w]).url \in URLs
        BY <3>1, HeadTask DEF Discover, Ready, Typed, Types
      <4>2. <<RunOf(w), HostOf[Head(todo[w]).url]>> \in Wanted
        BY <1>w, <4>1, SeedingAssumption DEF Wanted
      <4> QED BY <1>w, <3>1, <4>2, StepsOfItsOwn DEF Discover
    <3>2. CASE Discovered(w) \/ PanicInDiscover(w)
      BY <1>w, <3>2, StepsOfItsOwn DEF Discovered, PanicInDiscover
    <3> QED BY <1>3, <3>1, <3>2
  <2> QED BY <1>r, <2>1, <2>2, NothingChecked
<1>4. CASE StartDrain(w) \/ Resolve(w) \/ ResolveNothing(w) \/ Abort(w)
  BY <1>4, <1>r, NothingChecked DEF StartDrain, Resolve, ResolveNothing, Abort, robotsVars
<1> QED BY <1>1, <1>2, <1>3, <1>4 DEF Seed, SeedStep

LEMMA VisitChecks == ASSUME CheckInv, NEW v \in Visitors, VisitStep(v) PROVE ChecksForItsRun'
<1> USE DEF CheckInv
<1>v. v \in Workers /\ \A x \in Visitors : x \in Workers
  BY VisitorsApart
<1>1. CASE EnqueueLink(v)
  <2>1. vjob' = vjob /\ checking[v] = NoURL /\ vjob[v].run \in Runs
    BY <1>1 DEF EnqueueLink, Typed, Types, JobTypes, Busy, Jobs
  <2>2. Head(links[v]) \in URLs
    <3>1. links[v] \in Seq(URLs) /\ links[v] # <<>>
      BY <1>1 DEF EnqueueLink, Typed, Types, LinkTypes
    <3> QED BY <3>1
  <2>3. RunFor(v) = vjob[v].run /\ \A x \in Workers : RunFor(x)' = RunFor(x)
    BY <2>1 DEF RunFor
  <2> QED BY <1>1, <1>v, <2>1, <2>2, <2>3, EnqueueAsks DEF EnqueueLink
<1>2. CASE LinkStep(v)
  <2>1. \A x \in Workers : RunFor(x)' = RunFor(x)
    BY <1>2 DEF LinkStep, visitVars, RunFor
  <2> QED BY <1>2, <1>v, <2>1, CheckAsks DEF LinkStep
<1>3. CASE \/ \E j \in Jobs : Receive(v, j)
           \/ Redirect(v)
           \/ \E a \in PageAnswers : Respond(v, a)
           \/ Collect(v) \/ Pause(v) \/ Settle(v)
  <2>1. checking' = checking /\ rpc' = rpc /\ ask' = ask
    BY <1>3 DEF Receive, Redirect, Respond, Collect, Pause, Settle, frontVars, seedingVars, robotsVars
  <2>2. vjob' = vjob \/ (vpc[v] # "links" /\ \A x \in Visitors : x # v => vjob'[x] = vjob[x])
    BY <1>3 DEF Receive, Redirect, Respond, Collect, Pause, Settle, Go, Typed, Types, JobTypes
  <2>3. \A x \in Workers : checking[x] # NoURL => RunFor(x)' = RunFor(x)
    BY <2>2 DEF RunFor, Typed, ChecksLinks
  <2> QED BY <2>1, <2>3, NothingChecked
<1> QED BY <1>1, <1>2, <1>3 DEF VisitStep

LEMMA AlwaysChecks == Spec => []ChecksForItsRun
<1>1. Init => ChecksForItsRun
  BY DEF Init, SeedingInit, ChecksForItsRun
<1>2. RobotsTypeOK /\ Typed /\ ChecksForItsRun /\ [Next]_vars => ChecksForItsRun'
  <2>1. ChecksForItsRun /\ UNCHANGED vars => ChecksForItsRun'
    BY DEF vars, frontVars, seedingVars, robotsVars, visitVars, ChecksForItsRun, Asks, Passes, CheckDomain,
           CheckPath, RunFor
  <2> QED BY <2>1, SeedChecks, VisitChecks DEF CheckInv, Next, Seeders
<1> QED BY <1>1, <1>2, AlwaysTyped, SharesRobots, TypeCorrect, PTL DEF Spec

-----------------------------------------------------------------------------
\* Answers are remembered.
LEMMA AnswersGrow ==
  ASSUME RobotsTypeOK, RobotsNext \/ UNCHANGED robotsVars
  PROVE  skipCache' = skipCache /\ \A k \in Keys : answered[k] \subseteq answered'[k]
<1> USE DEF RobotsTypeOK
<1>1. CASE UNCHANGED robotsVars
  BY <1>1 DEF robotsVars, cacheVars, robotsHistory
<1>2. ASSUME NEW w \in Workers, NEW a \in Answers, Answer(w, a)
      PROVE  skipCache' = skipCache /\ \A k \in Keys : answered[k] \subseteq answered'[k]
  BY <1>2 DEF Answer
<1>3. ASSUME NEW w \in Workers,
             \/ \E p \in Wanted : Get(w, p)
             \/ TryAgain(w) \/ Cached(w) \/ Store(w) \/ NoResponse(w) \/ TimedOut(w) \/ CloseBody(w)
             \/ CheckDone(w) \/ CheckPanics(w) \/ SitemapsDone(w) \/ SitemapsPanics(w)
      PROVE  skipCache' = skipCache /\ answered' = answered
  BY <1>3 DEF Get, Found, Missing, TryAgain, Cached, Store, NoResponse, TimedOut, Fails, CloseBody,
              CheckDone, CheckPanics, SitemapsDone, SitemapsPanics, Use, Dereference, cacheVars, robotsHistory
<1> QED BY <1>1, <1>2, <1>3 DEF RobotsNext, FetchStep

\* What OnlyAdmitted says of one URL of a run.
Admitted(r, u) ==
    /\ HostOf[u] \in AllowDomains[r]
    /\ u \in Ignored => u \in WellKnownFiles
    /\ skipCache => answered[Sent(<<r, HostOf[u]>>)] \cap {"file", "allowAll"} # {}

LEMMA StaysAdmitted ==
  ASSUME RobotsTypeOK, RobotsNext \/ UNCHANGED robotsVars, NEW r \in Runs, NEW u \in URLs, Admitted(r, u)
  PROVE  Admitted(r, u)'
<1>1. Sent(<<r, HostOf[u]>>) \in Keys
  BY KeyType, SeedingAssumption DEF Wanted
<1> QED BY <1>1, AnswersGrow DEF Admitted, Sent, Credentials

\* Only the end of a check publishes.
LEMMA PublishesAdmitted ==
  ASSUME CheckInv, OwnRules, NEW w \in Workers, checking[w] # NoURL, EndCheck(w, RunFor(w)),
         RobotsAllow(robot[w], checking[w])
  PROVE  Admitted(RunFor(w), checking[w])
<1>1. Asks(w, RunFor(w), checking[w])
  BY DEF CheckInv, ChecksForItsRun
<1>2. rpc[w] = "got" /\ robot[w] \in {"file", "allowAll"}
  BY DEF EndCheck, CheckDone, Use, RobotsAllow, TestAgent
<1>3. skipCache => robot[w] \in answered[Sent(<<RunFor(w), HostOf[checking[w]]>>)]
  BY <1>1, <1>2 DEF OwnRules, Asks
<1> QED BY <1>1, <1>2, <1>3 DEF Admitted, Asks, Passes, CheckDomain, CheckPath

LEMMA StepAdmitted ==
  ASSUME CheckInv, OwnRules, OnlyAdmitted, [Next]_vars PROVE OnlyAdmitted'
<1> USE DEF CheckInv
<1>1. RobotsNext \/ UNCHANGED robotsVars
  BY StepSharesRobots DEF vars, frontVars
<1>2. Types'
  BY StepTypes
<1>3. ASSUME NEW w \in Workers, EndCheck(w, RunFor(w)), RunFor(w) \in Runs PROVE OnlyAdmitted'
  <2>1. SUFFICES ASSUME NEW r \in Runs, NEW u \in published'[r] PROVE Admitted(r, u)'
    BY DEF OnlyAdmitted, Admitted
  <2>2. u \in URLs
    BY <1>2 DEF Types, CheckTypes
  <2>3. Admitted(r, u)
    <3>1. CASE u \in published[r]
      BY <3>1 DEF OnlyAdmitted, Admitted
    <3>2. CASE u \notin published[r]
      <4>1. r = RunFor(w) /\ u = checking[w] /\ RobotsAllow(robot[w], checking[w])
        BY <1>3, <3>2 DEF EndCheck, Typed, Types, CheckTypes
      <4>2. checking[w] # NoURL
        BY <1>3 DEF EndCheck
      <4> QED BY <1>3, <4>1, <4>2, PublishesAdmitted
    <3> QED BY <3>1, <3>2
  <2> QED BY <1>1, <2>2, <2>3, StaysAdmitted
<1>4. ASSUME published' = published PROVE OnlyAdmitted'
  <2>1. SUFFICES ASSUME NEW r \in Runs, NEW u \in published'[r] PROVE Admitted(r, u)'
    BY DEF OnlyAdmitted, Admitted
  <2>2. u \in URLs /\ Admitted(r, u)
    BY <1>4 DEF OnlyAdmitted, Admitted, Typed, Types, CheckTypes
  <2> QED BY <1>1, <2>2, StaysAdmitted
<1>5. ASSUME NEW w \in Seeders, Seed(w) PROVE OnlyAdmitted'
  <2>1. w \in Workers /\ RunFor(w) = RunOf(w) /\ RunOf(w) \in Runs
    BY SeederRuns, VisitorsApart DEF RunFor
  <2>2. CASE EndCheck(w, RunOf(w))
    BY <1>3, <2>1, <2>2
  <2>3. CASE ~EndCheck(w, RunOf(w))
    BY <1>4, <1>5, <2>3
       DEF Seed, SeedStep, EnqueueSeed, Enqueue, Reject, BeginCheck, StartDrain, Discover, Discovered,
           PanicInDiscover, Resolve, ResolveNothing, Abort, PanicInCheck, Fetching, seedingVars
  <2> QED BY <2>2, <2>3
<1>6. ASSUME NEW v \in Visitors, VisitStep(v) PROVE OnlyAdmitted'
  <2>1. v \in Workers /\ RunFor(v) = vjob[v].run
    BY VisitorsApart DEF RunFor
  <2>2. CASE LinkStep(v) /\ EndCheck(v, vjob[v].run)
    <3>1. vjob[v].run \in Runs
      BY <2>2 DEF EndCheck, Typed, ChecksLinks, Types, JobTypes, Busy, Jobs
    <3> QED BY <1>3, <2>1, <2>2, <3>1
  <2>3. CASE ~(LinkStep(v) /\ EndCheck(v, vjob[v].run))
    BY <1>4, <1>6, <2>3
       DEF VisitStep, Receive, Redirect, Respond, EnqueueLink, Enqueue, Reject, BeginCheck, LinkStep,
           PanicInCheck, Fetching, Collect, Pause, Settle, frontVars, seedingVars
  <2> QED BY <2>2, <2>3
<1>7. CASE UNCHANGED vars
  BY <1>4, <1>7 DEF vars, frontVars, seedingVars
<1> QED BY <1>5, <1>6, <1>7 DEF Next, Seeders

\* Nothing is published that its run does not allow, or that a host's rules,
\* got with that run's credentials, do not let pass, whatever other goroutines
\* check meanwhile (collector.go:278-335).
THEOREM PublishedIsAdmitted == Spec => []OnlyAdmitted
<1>1. Init => OnlyAdmitted
  BY DEF Init, SeedingInit, OnlyAdmitted
<1>2. RobotsTypeOK /\ Typed /\ ChecksForItsRun /\ OwnRules /\ OnlyAdmitted /\ [Next]_vars => OnlyAdmitted'
  BY StepAdmitted DEF CheckInv
<1> QED BY <1>1, <1>2, AlwaysTyped, AlwaysChecks, VisitHasOwnRules, SharesRobots, TypeCorrect, PTL DEF Spec

-----------------------------------------------------------------------------
\* A visitor that was told to wait is still at the host that told it so.
BusyAsked ==
    \A v \in Visitors :
        /\ vpc[v] \in {"idle", "request"} => result[v] = Nothing
        /\ result[v] = "busy" => HostOf[at[v]] \in askedToWait

LEMMA StepPauses ==
  ASSUME Typed, BusyAsked, PausesWhoAsked, [Next]_vars PROVE BusyAsked' /\ PausesWhoAsked'
<1> USE DEF Typed, Types, JobTypes
<1>1. ASSUME UNCHANGED <<vpc, result, at, askedToWait, paused>> PROVE BusyAsked' /\ PausesWhoAsked'
  BY <1>1 DEF BusyAsked, PausesWhoAsked
<1>2. ASSUME NEW w \in Seeders, Seed(w) PROVE BusyAsked' /\ PausesWhoAsked'
  BY <1>1, <1>2 DEF Seed, visitVars
<1>3. ASSUME NEW v \in Visitors, VisitStep(v) PROVE BusyAsked' /\ PausesWhoAsked'
  <2>1. CASE EnqueueLink(v) \/ LinkStep(v)
    BY <1>1, <2>1 DEF EnqueueLink, LinkStep, visitVars
  <2>2. ASSUME NEW j \in Jobs, Receive(v, j) PROVE BusyAsked' /\ PausesWhoAsked'
    BY <2>2 DEF Receive, Go, BusyAsked, PausesWhoAsked, Nothing
  <2>3. CASE Redirect(v)
    BY <2>3 DEF Redirect, BusyAsked, PausesWhoAsked, Nothing
  <2>4. ASSUME NEW a \in PageAnswers, Respond(v, a) PROVE BusyAsked' /\ PausesWhoAsked'
    BY <2>4 DEF Respond, Go, BusyAsked, PausesWhoAsked
  <2>5. CASE Collect(v)
    BY <2>5 DEF Collect, Go, BusyAsked, PausesWhoAsked
  <2>6. CASE Pause(v)
    BY <2>6 DEF Pause, PausedHost, Go, BusyAsked, PausesWhoAsked
  <2>7. CASE Settle(v)
    BY <2>7 DEF Settle, Go, BusyAsked, PausesWhoAsked, Nothing
  <2> QED BY <1>3, <2>1, <2>2, <2>3, <2>4, <2>5, <2>6, <2>7 DEF VisitStep
<1>4. CASE UNCHANGED vars
  BY <1>1, <1>4 DEF vars, visitVars
<1> QED BY <1>2, <1>3, <1>4 DEF Next, Seeders

\* Through any chain of redirects, it is the host that answered with a 429 or
\* 503 that is paused (visitor.go:230-238).
THEOREM PausedHasAsked == Spec => []PausesWhoAsked
<1>1. Init => BusyAsked /\ PausesWhoAsked
  BY DEF Init, VisitInit, BusyAsked, PausesWhoAsked, Nothing
<1>2. Typed /\ BusyAsked /\ PausesWhoAsked /\ [Next]_vars => BusyAsked' /\ PausesWhoAsked'
  BY StepPauses
<1> QED BY <1>1, <1>2, AlwaysTyped, PTL DEF Spec

-----------------------------------------------------------------------------
(***************************************************************************)
(* A page of a run is in one place: not yet received, with a visitor,      *)
(* republished, or done; and only in the last may it have a verdict.       *)
(***************************************************************************)
Pages == Runs \X URLs
ResultTypes == results \in [Pages -> Nat] /\ verdict \in [Pages -> {"none", "succeeded", "cancelled", "errored"}]

Holds(v, p) == vpc[v] \in Busy /\ PageOf(vjob[v]) = p
Reported(v) == vpc[v] \in {"visited", "paused"} /\ Ok(result[v])

Untouched(p) == results[p] = 0 /\ verdict[p] = "none"

NotTaken(p) == p \notin taken => /\ Untouched(p)
                                 /\ \A j \in republished : PageOf(j) # p
                                 /\ \A v \in Visitors : ~Holds(v, p)
Again(p) == \A j \in republished : PageOf(j) = p =>
                /\ Untouched(p)
                /\ \A k \in republished : PageOf(k) = p => k = j
                /\ \A v \in Visitors : ~Holds(v, p)
Visiting(p) == \A v \in Visitors : Holds(v, p) =>
                /\ verdict[p] = "none"
                /\ results[p] = IF Reported(v) THEN 1 ELSE 0
                /\ \A w \in Visitors : Holds(w, p) => w = v
Result(p) == results[p] <= 1 /\ (verdict[p] # "none" => (verdict[p] = "succeeded" <=> results[p] = 1))

Page(p) == NotTaken(p) /\ Again(p) /\ Visiting(p) /\ Result(p)

FoundLinks == \A v \in Visitors : vpc[v] = "links" => Ok(result[v])

PageInv == ResultTypes /\ FoundLinks /\ \A p \in Pages : Page(p)

\* A visitor's step leaves other pages alone.
LEMMA OtherPages ==
  ASSUME Typed, PageInv, NEW v \in Visitors, NEW q \in Pages,
         NEW p \in Pages, p # q,
         p \in taken' <=> p \in taken,
         \A j \in Jobs : PageOf(j) = p => (j \in republished' <=> j \in republished),
         republished' \subseteq Jobs,
         results'[p] = results[p], verdict'[p] = verdict[p],
         \A w \in Visitors : w # v => vpc'[w] = vpc[w] /\ vjob'[w] = vjob[w] /\ result'[w] = result[w],
         ~Holds(v, p), ~Holds(v, p)'
  PROVE  Page(p)'
<1> USE DEF PageInv, Page
<1>1. \A w \in Visitors : Holds(w, p)' <=> Holds(w, p)
  BY DEF Holds
<1>2. \A w \in Visitors : Holds(w, p) => (Reported(w)' <=> Reported(w))
  BY DEF Reported, Ok
<1>3. \A j \in republished' : PageOf(j) = p => j \in republished
  OBVIOUS
<1>4. \A j \in republished : PageOf(j) = p => j \in republished'
  BY DEF Typed, Types, JobTypes
<1>5. NotTaken(p)'
  BY <1>1, <1>3 DEF NotTaken, Untouched, PageOf
<1>6. Again(p)'
  BY <1>1, <1>3 DEF Again, Untouched, PageOf
<1>7. Visiting(p)'
  BY <1>1, <1>2 DEF Visiting
<1>8. Result(p)'
  BY DEF Result
<1> QED BY <1>5, <1>6, <1>7, <1>8

LEMMA StepReceive ==
  ASSUME Typed, PageInv, NEW v \in Visitors, NEW j \in Jobs, Receive(v, j) PROVE PageInv'
<1> DEFINE q == PageOf(j)
<1> USE DEF Typed, Types, JobTypes
<1>0. q \in Pages
  BY DEF PageOf, Jobs, Pages
<1>1. ResultTypes' /\ FoundLinks'
  BY DEF PageInv, ResultTypes, FoundLinks, Receive, Go, Ok
<1>2. \A p \in Pages : ~Holds(v, p)
  BY DEF Receive, Go, Holds, Busy
<1>3. \A p \in Pages : Holds(v, p)' <=> p = q
  BY DEF Receive, Go, Holds, Busy, PageOf
<1>4. \A w \in Visitors : w # v => vpc'[w] = vpc[w] /\ vjob'[w] = vjob[w] /\ result'[w] = result[w]
  BY DEF Receive, Go
<1>5. taken' = taken \cup {q} /\ republished' = republished \ {j} /\ results' = results /\ verdict' = verdict
  BY DEF Receive
<1>6. ASSUME NEW p \in Pages, p # q PROVE Page(p)'
  BY <1>0, <1>2, <1>3, <1>4, <1>5, <1>6, OtherPages
<1>7. /\ Untouched(q) /\ \A w \in Visitors : ~Holds(w, q)
      /\ \A k \in republished : PageOf(k) = q => k = j
  BY <1>0 DEF Receive, Waiting, PageInv, Page, NotTaken, Again
<1>8. Page(q)'
  <2>1. \A w \in Visitors : Holds(w, q)' <=> w = v
    BY <1>0, <1>3, <1>4, <1>7 DEF Holds
  <2>2. \A k \in republished' : PageOf(k) # q
    BY <1>5, <1>7
  <2>3. Untouched(q)' /\ ~Reported(v)'
    BY <1>5, <1>7 DEF Untouched, Reported, Receive, Go
  <2>4. NotTaken(q)' /\ Again(q)'
    BY <1>5, <2>2 DEF NotTaken, Again, PageOf
  <2>5. Visiting(q)'
    BY <2>1, <2>3 DEF Visiting, Untouched
  <2>6. Result(q)'
    BY <2>3 DEF Result, Untouched
  <2> QED BY <2>4, <2>5, <2>6 DEF Page
<1> QED BY <1>1, <1>6, <1>8 DEF PageInv

\* A visitor goes on with its page.
LEMMA StepGoesOn ==
  ASSUME Typed, PageInv, NEW v \in Visitors, vpc[v] \in Busy, vpc'[v] \in Busy,
         UNCHANGED <<vjob, taken, republished, verdict>>, ResultTypes', FoundLinks',
         \A w \in Visitors : w # v => vpc'[w] = vpc[w] /\ result'[w] = result[w],
         \A p \in Pages : p # PageOf(vjob[v]) => results'[p] = results[p],
         results'[PageOf(vjob[v])] = IF Reported(v)' THEN 1 ELSE 0
  PROVE  PageInv'
<1> DEFINE q == PageOf(vjob[v])
<1> USE DEF Typed, Types, JobTypes
<1>0. q \in Pages
  BY DEF PageOf, Jobs, Pages
<1>1. \A p \in Pages : Holds(v, p) <=> p = q
  BY DEF Holds
<1>2. \A w \in Visitors, p \in Pages : Holds(w, p)' <=> Holds(w, p)
  BY DEF Holds
<1>3. ASSUME NEW p \in Pages, p # q PROVE Page(p)'
  BY <1>0, <1>1, <1>2, <1>3, OtherPages
<1>4. /\ q \in taken /\ verdict[q] = "none" /\ \A k \in republished : PageOf(k) # q
      /\ \A w \in Visitors : Holds(w, q) => w = v
  BY <1>0, <1>1 DEF PageInv, Page, NotTaken, Again, Visiting
<1>5. Page(q)'
  <2>1. NotTaken(q)' /\ Again(q)'
    BY <1>4 DEF NotTaken, Again, PageOf
  <2>2. Visiting(q)'
    BY <1>0, <1>2, <1>4 DEF Visiting
  <2>3. Result(q)'
    BY <1>4 DEF Result
  <2> QED BY <2>1, <2>2, <2>3 DEF Page
<1> QED BY <1>3, <1>5 DEF PageInv

LEMMA VerdictIs ==
  ASSUME NEW v \in Visitors, Verdict(v) # "retried", result[v] \in PageAnswerKinds \cup {Nothing}
  PROVE  /\ Verdict(v) \in {"succeeded", "cancelled", "errored"}
         /\ Verdict(v) = "succeeded" <=> Ok(result[v])
<1>1. CASE Ok(result[v])
  BY <1>1 DEF Verdict, Ok, Retries, Temporary
<1>2. CASE ~Ok(result[v])
  BY <1>2 DEF Verdict
<1> QED BY <1>1, <1>2

LEMMA StepSettle == ASSUME Typed, PageInv, NEW v \in Visitors, Settle(v) PROVE PageInv'
<1> DEFINE again == [vjob[v] EXCEPT !.retries = @ + 1]
<1> USE DEF Typed, Types, JobTypes
<1>j. vpc[v] \in {"visited", "paused"} /\ vjob[v] \in Jobs
  BY DEF Settle, Busy
<1>q. PICK q \in Pages : q = PageOf(vjob[v])
  BY <1>j DEF PageOf, Jobs, Pages
<1>0. vpc[v] \in {"visited", "paused"} /\ vjob[v] \in Jobs /\ q = PageOf(vjob[v])
  BY <1>j, <1>q
<1>1. FoundLinks'
  BY DEF PageInv, FoundLinks, Settle, Go, Ok
<1>2. /\ \A p \in Pages : Holds(v, p) <=> p = q
      /\ \A p \in Pages : ~Holds(v, p)'
  BY <1>0 DEF Settle, Go, Holds, Busy
<1>3. /\ \A w \in Visitors : w # v => vpc'[w] = vpc[w] /\ vjob'[w] = vjob[w] /\ result'[w] = result[w]
      /\ taken' = taken /\ results' = results
  BY DEF Settle, Go
<1>4. /\ q \in taken /\ verdict[q] = "none" /\ \A k \in republished : PageOf(k) # q
      /\ \A w \in Visitors : Holds(w, q) => w = v
      /\ results[q] = IF Ok(result[v]) THEN 1 ELSE 0
  BY <1>0, <1>2 DEF PageInv, Page, NotTaken, Again, Visiting, Reported
<1>5. \A w \in Visitors : ~Holds(w, q)'
  BY <1>0, <1>2, <1>3, <1>4 DEF Holds
<1>6. ResultTypes'
  BY <1>0, <1>3, VerdictIs DEF PageInv, ResultTypes, Settle
<1>7. ASSUME NEW p \in Pages, p # q PROVE Page(p)'
  <2>1. Verdict(v) = "retried" => PageOf(again) = q
    BY <1>0, RetriedType, OnlyRetries
  <2>2. \A j \in Jobs : PageOf(j) = p => (j \in republished' <=> j \in republished)
    BY <1>7, <2>1 DEF Settle
  <2>3. verdict'[p] = verdict[p]
    BY <1>0, <1>7 DEF Settle, PageInv, ResultTypes
  <2>4. republished' \subseteq Jobs
    BY <1>0, RetriedType, OnlyRetries DEF Settle
  <2> QED BY <1>0, <1>2, <1>3, <1>7, <2>2, <2>3, <2>4, OtherPages
<1>8. Page(q)'
  <2>1. CASE Verdict(v) = "retried"
    <3>1. PageOf(again) = q /\ ~Ok(result[v])
      BY <1>0, <2>1, RetriedType, OnlyRetries
    <3>2. republished' = republished \cup {again} /\ verdict' = verdict
      BY <2>1 DEF Settle
    <3>3. Untouched(q)'
      BY <1>3, <1>4, <3>1, <3>2 DEF Untouched
    <3>4. \A j, k \in republished' : PageOf(j) = q /\ PageOf(k) = q => k = j
      BY <1>4, <3>1, <3>2
    <3>5. Again(q)' /\ NotTaken(q)' /\ Visiting(q)' /\ Result(q)'
      BY <1>3, <1>4, <1>5, <3>3, <3>4 DEF Again, NotTaken, Visiting, Result, Untouched, PageOf
    <3> QED BY <3>5 DEF Page
  <2>2. CASE Verdict(v) # "retried"
    <3>1. republished' = republished /\ verdict'[q] = Verdict(v)
      BY <1>0, <2>2 DEF Settle, PageInv, ResultTypes
    <3>2. Result(q)'
      BY <1>3, <1>4, <2>2, <3>1, VerdictIs DEF Result
    <3>3. Again(q)' /\ NotTaken(q)' /\ Visiting(q)'
      BY <1>3, <1>4, <1>5, <3>1 DEF Again, NotTaken, Visiting, PageOf
    <3> QED BY <3>2, <3>3 DEF Page
  <2> QED BY <2>1, <2>2
<1> QED BY <1>1, <1>6, <1>7, <1>8 DEF PageInv

LEMMA FramePages ==
  ASSUME PageInv, UNCHANGED <<vpc, vjob, result, taken, republished, results, verdict>> PROVE PageInv'
BY DEF PageInv, ResultTypes, FoundLinks, Page, NotTaken, Again, Visiting, Result, Untouched, Holds, Reported,
       PageOf, Ok

LEMMA StepPages == ASSUME Typed, PageInv, [Next]_vars PROVE PageInv'
<1> USE DEF Typed, Types, JobTypes
<1>1. ASSUME NEW w \in Seeders, Seed(w) PROVE PageInv'
  BY <1>1, FramePages DEF Seed, visitVars
<1>2. ASSUME NEW v \in Visitors, VisitStep(v) PROVE PageInv'
  <2>1. CASE EnqueueLink(v) \/ LinkStep(v) \/ Redirect(v)
    BY <2>1, FramePages DEF EnqueueLink, LinkStep, Redirect, visitVars
  <2>2. ASSUME NEW a \in PageAnswers, Respond(v, a) PROVE PageInv'
    <3>1. vpc[v] = "request" /\ vpc'[v] = (IF Ok(a) THEN "links" ELSE "visited") /\ result'[v] = a
      BY <2>2 DEF Respond, Go
    <3>2. vpc[v] \in Busy /\ vpc'[v] \in Busy /\ ~Reported(v)'
      BY <3>1 DEF Busy, Reported
    <3>3. FoundLinks' /\ ResultTypes'
      BY <2>2, <3>1 DEF PageInv, FoundLinks, ResultTypes, Respond, Go, Ok
    <3>4. results[PageOf(vjob[v])] = 0
      <4>1. PageOf(vjob[v]) \in Pages /\ Holds(v, PageOf(vjob[v])) /\ ~Reported(v)
        BY <3>1, <3>2 DEF PageOf, Jobs, Pages, Holds, Reported
      <4> QED BY <4>1 DEF PageInv, Page, Visiting
    <3> QED BY <2>2, <3>2, <3>3, <3>4, StepGoesOn DEF Respond, Go
  <2>3. CASE Collect(v)
    <3>1. vpc[v] = "links" /\ vpc'[v] = "visited" /\ result' = result
      BY <2>3 DEF Collect, Go
    <3>2. vpc[v] \in Busy /\ vpc'[v] \in Busy /\ Ok(result[v])
      BY <3>1 DEF Busy, PageInv, FoundLinks
    <3>3. PageOf(vjob[v]) \in Pages /\ Holds(v, PageOf(vjob[v])) /\ ~Reported(v)
      BY <3>1, <3>2 DEF PageOf, Jobs, Pages, Holds, Reported
    <3>4. results[PageOf(vjob[v])] = 0
      BY <3>3 DEF PageInv, Page, Visiting
    <3>5. results' = [results EXCEPT ![PageOf(vjob[v])] = 1]
      BY <2>3, <3>4 DEF Collect, CollectOnce
    <3>6. ResultTypes' /\ results'[PageOf(vjob[v])] = 1
          /\ \A p \in Pages : p # PageOf(vjob[v]) => results'[p] = results[p]
      BY <2>3, <3>3, <3>5 DEF Collect, PageInv, ResultTypes
    <3>7. FoundLinks' /\ Reported(v)'
      BY <2>3, <3>1, <3>2 DEF Collect, Go, PageInv, FoundLinks, Reported, Ok
    <3> QED BY <2>3, <3>1, <3>2, <3>6, <3>7, StepGoesOn DEF Collect, Go
  <2>4. CASE Pause(v)
    <3>1. vpc[v] = "visited" /\ vpc'[v] = "paused" /\ result' = result /\ results' = results
      BY <2>4 DEF Pause, Go
    <3>2. vpc[v] \in Busy /\ vpc'[v] \in Busy /\ (Reported(v)' <=> Reported(v))
      BY <3>1 DEF Busy, Reported, Ok
    <3>3. PageOf(vjob[v]) \in Pages /\ Holds(v, PageOf(vjob[v]))
      BY <3>1, <3>2 DEF PageOf, Jobs, Pages, Holds
    <3>4. results[PageOf(vjob[v])] = IF Reported(v) THEN 1 ELSE 0
      BY <3>3 DEF PageInv, Page, Visiting
    <3>5. FoundLinks' /\ ResultTypes'
      BY <2>4 DEF Pause, Go, PageInv, FoundLinks, ResultTypes, Ok
    <3> QED BY <2>4, <3>1, <3>2, <3>4, <3>5, StepGoesOn DEF Pause, Go
  <2> QED BY <1>2, <2>1, <2>2, <2>3, <2>4, StepReceive, StepSettle DEF VisitStep
<1>3. CASE UNCHANGED vars
  BY <1>3, FramePages DEF vars, visitVars
<1> QED BY <1>1, <1>2, <1>3 DEF Next, Seeders

LEMMA AlwaysInOnePlace == Spec => []PageInv
<1>1. Init => PageInv
  BY DEF Init, VisitInit, PageInv, ResultTypes, FoundLinks, Page, NotTaken, Again, Visiting, Result, Untouched,
         Holds, Pages, Busy
<1>2. Typed /\ PageInv /\ [Next]_vars => PageInv'
  BY StepPages
<1> QED BY <1>1, <1>2, AlwaysTyped, PTL DEF Spec

\* However often it is retried and whatever it meets, a page of a run is
\* reported once at most, and exactly if it succeeds (visitor.go:127-201).
THEOREM ReportedAsJudged == Spec => []OneResult
<1>1. PageInv => OneResult
  BY DEF PageInv, Page, Result, OneResult, Pages
<1> QED BY <1>1, AlwaysInOnePlace, PTL

-----------------------------------------------------------------------------
\* Who asked to wait is a host.
AskedTypes == askedToWait \subseteq Hosts

LEMMA StepAsked == ASSUME Typed, AskedTypes, [Next]_vars PROVE AskedTypes'
<1>1. ASSUME NEW v \in Visitors, NEW a \in PageAnswers, Respond(v, a) PROVE AskedTypes'
  <2>1. at[v] \in URLs
    BY <1>1 DEF Respond, Go, Typed, Types, JobTypes, Busy
  <2> QED BY <1>1, <2>1, SeedingAssumption DEF AskedTypes, Respond
<1>2. CASE askedToWait' = askedToWait
  BY <1>2 DEF AskedTypes
<1> QED BY <1>1, <1>2 DEF Next, Seed, VisitStep, Receive, Redirect, EnqueueLink, LinkStep, Collect, Pause,
                          Settle, vars, visitVars

\* Every variable keeps its type, whatever interleaves.
THEOREM VisitTypeCorrect == Spec => []TypeOK
<1>1. Init => AskedTypes
  BY DEF Init, VisitInit, AskedTypes
<1>2. Typed /\ AskedTypes /\ [Next]_vars => AskedTypes'
  BY StepAsked
<1>3. RobotsTypeOK /\ Typed /\ ChecksForItsRun /\ AskedTypes /\ PausesWhoAsked /\ PageInv => TypeOK
  <2> SUFFICES ASSUME RobotsTypeOK, Typed, ChecksForItsRun, AskedTypes, PausesWhoAsked, PageInv PROVE TypeOK
    OBVIOUS
  <2>1. SeedingTypeOK
    BY DEF SeedingTypeOK, Typed, Types, TodoTypes, CheckTypes, ChecksForItsRun, Asks, TaskSet, Seeders
  <2>2. paused \subseteq Hosts /\ askedToWait \subseteq Hosts
    BY DEF AskedTypes, PausesWhoAsked
  <2> QED BY <2>1, <2>2 DEF TypeOK, Typed, Types, JobTypes, LinkTypes, Busy, PageInv, ResultTypes, Pages
<1> QED BY <1>1, <1>2, <1>3, AlwaysInOnePlace, AlwaysTyped, AlwaysChecks, PausedHasAsked, SharesRobots, TypeCorrect,
           PTL DEF Spec
=============================================================================
