---------------------------- MODULE Crawl_proofs ----------------------------
(***************************************************************************)
(* Proofs about Crawl, for any number of URLs, producers and visitors.     *)
(***************************************************************************)
EXTENDS Crawl, FiniteSetTheorems, FunctionTheorems, WellFoundedInduction, TLAPS

EnqueueTypes ==
    /\ seen \subseteq URLs
    /\ epc \in [Enqueuers -> {"idle", "publish", "saw", "report"}]
    /\ eurl \in [Enqueuers -> URLs \cup {None}]
    /\ \A e \in Enqueuers : epc[e] # "idle" => eurl[e] \in URLs
    /\ publishers \in [URLs -> SUBSET Enqueuers]
    /\ publications \in [URLs -> Nat]

\* What an enqueuer published it has marked as seen, or is about to.
PublishedSeen ==
    \A u \in URLs : \A e \in publishers[u] :
        u \in seen \/ (epc[e] = "saw" /\ eurl[e] = u)

\* Who is about to publish a URL did not do so before.
FirstTime == \A e \in Enqueuers : epc[e] = "publish" => e \notin publishers[eurl[e]]

PublishersFinite == \A u \in URLs : IsFiniteSet(publishers[u])

OnceInv == EnqueueTypes /\ PublishedSeen /\ FirstTime /\ PublishersFinite /\ OncePerEnqueuer

-----------------------------------------------------------------------------
LEMMA InitOnce == Init => OnceInv
<1>1. Init => EnqueueTypes /\ PublishedSeen /\ FirstTime
  BY DEF Init, EnqueueTypes, PublishedSeen, FirstTime
<1>2. Init => PublishersFinite /\ OncePerEnqueuer
  BY FS_EmptySet DEF Init, PublishersFinite, OncePerEnqueuer
<1> QED BY <1>1, <1>2 DEF OnceInv

LEMMA StepEnqueue == ASSUME OnceInv, NEW e \in Enqueuers, NEW u \in URLs, Enqueue(e, u) PROVE OnceInv'
<1> USE DEF OnceInv
<1>1. EnqueueTypes'
  BY DEF Enqueue, EnqueueTypes
<1>2. u \notin seen /\ epc[e] = "idle"
  BY DEF Enqueue, Wanted
<1>3. e \notin publishers[u]
  BY <1>2 DEF PublishedSeen
<1>4. UNCHANGED <<seen, publishers, publications>>
  BY DEF Enqueue
<1>5. PublishedSeen'
  <2> SUFFICES ASSUME NEW x \in URLs, NEW f \in publishers[x]
               PROVE  x \in seen \/ (epc'[f] = "saw" /\ eurl'[f] = x)
    BY <1>4 DEF PublishedSeen
  <2>1. f = e => x \in seen
    BY <1>2 DEF PublishedSeen
  <2>2. f # e => epc'[f] = epc[f] /\ eurl'[f] = eurl[f]
    BY DEF Enqueue, EnqueueTypes
  <2> QED BY <2>1, <2>2 DEF PublishedSeen
<1>6. FirstTime'
  BY <1>3, <1>4 DEF Enqueue, EnqueueTypes, FirstTime
<1>7. PublishersFinite' /\ OncePerEnqueuer'
  BY <1>4 DEF PublishersFinite, OncePerEnqueuer
<1> QED BY <1>1, <1>5, <1>6, <1>7

LEMMA StepPublish == ASSUME OnceInv, NEW e \in Enqueuers, Publish(e) PROVE OnceInv'
<1> USE DEF OnceInv
<1> DEFINE u == eurl[e]
<1>1. u \in URLs /\ epc[e] = "publish"
  BY DEF Publish, EnqueueTypes
<1>2. e \notin publishers[u]
  BY <1>1 DEF FirstTime
<1>3. \A x \in URLs : publishers'[x] = IF x = u THEN publishers[u] \cup {e} ELSE publishers[x]
  BY <1>1 DEF Publish, EnqueueTypes
<1>4. EnqueueTypes'
  BY <1>1 DEF Publish, EnqueueTypes
<1>5. PublishersFinite' /\ OncePerEnqueuer'
  <2>1. IsFiniteSet(publishers[u] \cup {e}) /\ Cardinality(publishers[u] \cup {e}) = Cardinality(publishers[u]) + 1
    BY <1>1, <1>2, FS_AddElement DEF PublishersFinite
  <2>2. \A x \in URLs : publications'[x] = IF x = u THEN publications[u] + 1 ELSE publications[x]
    BY <1>1 DEF Publish, EnqueueTypes
  <2> QED BY <1>1, <1>3, <2>1, <2>2 DEF PublishersFinite, OncePerEnqueuer
<1>6. PublishedSeen'
  <2> SUFFICES ASSUME NEW x \in URLs, NEW f \in publishers'[x]
               PROVE  x \in seen \/ (epc'[f] = "saw" /\ eurl[f] = x)
    BY DEF PublishedSeen, Publish
  <2>1. CASE f = e
    <3>1. epc'[e] = "saw"
      BY DEF Publish, EnqueueTypes
    <3>2. x # u => x \in seen
      BY <1>1, <1>3, <2>1 DEF PublishedSeen
    <3> QED BY <2>1, <3>1, <3>2
  <2>2. CASE f # e
    <3>1. f \in publishers[x] /\ epc'[f] = epc[f]
      BY <1>3, <2>2 DEF Publish, EnqueueTypes
    <3> QED BY <3>1 DEF PublishedSeen
  <2> QED BY <2>1, <2>2
<1>7. FirstTime'
  <2> SUFFICES ASSUME NEW f \in Enqueuers, epc'[f] = "publish" PROVE f \notin publishers'[eurl[f]]
    BY DEF FirstTime, Publish
  <2>1. f # e /\ epc[f] = "publish"
    BY DEF Publish, EnqueueTypes
  <2>2. eurl[f] \in URLs /\ f \notin publishers[eurl[f]]
    BY <2>1 DEF FirstTime, EnqueueTypes
  <2> QED BY <1>3, <2>1, <2>2
<1> QED BY <1>4, <1>5, <1>6, <1>7

LEMMA StepSaw == ASSUME OnceInv, NEW e \in Enqueuers, Saw(e) PROVE OnceInv'
<1> USE DEF OnceInv
<1>1. EnqueueTypes' /\ eurl[e] \in URLs
  BY DEF Saw, Seen, EnqueueTypes
<1>2. PublishedSeen'
  <2> SUFFICES ASSUME NEW x \in URLs, NEW f \in publishers[x]
               PROVE  x \in seen' \/ (epc'[f] = "saw" /\ eurl[f] = x)
    BY DEF PublishedSeen, Saw
  <2>1. f = e => x \in seen'
    BY DEF PublishedSeen, Saw, Seen
  <2>2. f # e => epc'[f] = epc[f] /\ seen \subseteq seen'
    BY DEF Saw, Seen, EnqueueTypes
  <2> QED BY <2>1, <2>2 DEF PublishedSeen
<1>3. FirstTime'
  BY DEF Saw, FirstTime, EnqueueTypes
<1>4. PublishersFinite' /\ OncePerEnqueuer'
  BY DEF Saw, PublishersFinite, OncePerEnqueuer
<1> QED BY <1>1, <1>2, <1>3, <1>4

LEMMA StepReport == ASSUME OnceInv, NEW e \in Enqueuers, ReportQueued(e) PROVE OnceInv'
<1> USE DEF OnceInv
<1>1. EnqueueTypes'
  BY DEF ReportQueued, EnqueueTypes
<1>2. PublishedSeen'
  <2> SUFFICES ASSUME NEW x \in URLs, NEW f \in publishers[x]
               PROVE  x \in seen \/ (epc'[f] = "saw" /\ eurl'[f] = x)
    BY DEF PublishedSeen, ReportQueued
  <2>1. f = e => x \in seen
    BY DEF PublishedSeen, ReportQueued
  <2>2. f # e => epc'[f] = epc[f] /\ eurl'[f] = eurl[f]
    BY DEF ReportQueued, EnqueueTypes
  <2> QED BY <2>1, <2>2 DEF PublishedSeen
<1>3. FirstTime'
  BY DEF ReportQueued, FirstTime, EnqueueTypes
<1>4. PublishersFinite' /\ OncePerEnqueuer'
  BY DEF ReportQueued, PublishersFinite, OncePerEnqueuer
<1> QED BY <1>1, <1>2, <1>3, <1>4

LEMMA StepElse ==
  ASSUME OnceInv, UNCHANGED <<seen, epc, eurl, publishers, publications>> PROVE OnceInv'
  BY DEF OnceInv, EnqueueTypes, PublishedSeen, FirstTime, PublishersFinite, OncePerEnqueuer

LEMMA StepOnce == ASSUME OnceInv, [Next]_vars PROVE OnceInv'
<1>1. ASSUME NEW e \in Enqueuers, EnqueueStep(e) PROVE OnceInv'
  BY <1>1, StepPublish, StepSaw, StepReport DEF EnqueueStep
<1>2. ASSUME NEW e \in Enqueuers, NEW u \in URLs, Enqueue(e, u) \/ Skip(e, u) PROVE OnceInv'
  BY <1>2, StepEnqueue, StepElse DEF Skip
<1>3. ASSUME NEW v \in Visitors,
             \/ Take(v) \/ Receive(v) \/ ReportCrawling(v) \/ EndLinks(v) \/ ReportCrawled(v)
             \/ Settle(v) \/ Republish(v) \/ \E o \in Outcomes : Visit(v, o)
      PROVE  OnceInv'
  BY <1>3, StepElse DEF Take, Receive, ReportCrawling, EndLinks, ReportCrawled, Settle, Republish,
                        Visit, enqueueVars
<1>4. UNCHANGED vars => OnceInv'
  BY StepElse DEF vars, enqueueVars
<1>5. Producers \subseteq Enqueuers /\ Visitors \subseteq Enqueuers
  BY DEF Enqueuers
<1> QED BY <1>1, <1>2, <1>3, <1>4, <1>5 DEF Next, ProducerStep, VisitorStep, Follow

\* However the check for a seen URL, its publication and its marking interleave
\* among goroutines (run.go:112-145), none of them publishes a URL twice.
THEOREM PublishedOnceEach == Spec => []OncePerEnqueuer
<1>1. OnceInv => OncePerEnqueuer
  BY DEF OnceInv
<1> QED BY <1>1, InitOnce, StepOnce, PTL DEF Spec

-----------------------------------------------------------------------------
(***************************************************************************)
(* A URL that was published once is in one place at a time, and as long as *)
(* it is in one its status is not terminal.                                *)
(***************************************************************************)
TokenTypes ==
    /\ waiting \in [Jobs -> Nat]
    /\ hand \in [Visitors -> Jobs \cup {None}]
    /\ job \in [Visitors -> Jobs \cup {None}]
    /\ vpc \in [Visitors -> {"idle", "begin", "visit", "links", "visited", "settle", "dead"}]
    /\ \A v \in Visitors : vpc[v] \notin {"idle", "dead"} => job[v] # None
    /\ status \in [URLs -> Statuses]

Waits(u, j) == j.url = u /\ waiting[j] > 0
Held(u, v) == hand[v] # None /\ hand[v].url = u
Processed(u, v) == job[v] # None /\ job[v].url = u

Single(u) ==
    /\ \A j \in Jobs : j.url = u => waiting[j] <= 1
    /\ \A j, k \in Jobs : Waits(u, j) /\ Waits(u, k) => j = k
    /\ \A v, w \in Visitors : Held(u, v) /\ Held(u, w) => v = w
    /\ \A v, w \in Visitors : Processed(u, v) /\ Processed(u, w) => v = w
    /\ \A j \in Jobs, v \in Visitors : ~(Waits(u, j) /\ (Held(u, v) \/ Processed(u, v)))
    /\ \A v, w \in Visitors : ~(Held(u, v) /\ Processed(u, w))

Fresh(u) == status[u] = "none" /\ ~Unreported(u)

Open(u) == status[u] \notin Terminal /\ (status[u] # "none" \/ Unreported(u))

Tracked(u) == /\ publications[u] = 0 => ~Involved(u) /\ Fresh(u)
              /\ publications[u] <= 1 => Single(u)
              /\ publications[u] <= 1 /\ Involved(u) => Open(u)

FinishInv == EnqueueTypes /\ TokenTypes /\ \A u \in URLs : Tracked(u)

LEMMA InvolvedIs ==
  \A u \in URLs : Involved(u) <=> \/ \E j \in Jobs : Waits(u, j)
                                 \/ \E v \in Visitors : Held(u, v) \/ Processed(u, v)
  BY DEF Involved, Waits, Held, Processed

LEMMA PutIs ==
  ASSUME TokenTypes, NEW j \in Jobs
  PROVE  /\ Put(j) \in [Jobs -> Nat]
         /\ \A k \in Jobs : k # j => Put(j)[k] = waiting[k]
         /\ Put(j)[j] <= waiting[j] + 1
  BY DEF Put, TokenTypes

\* Whatever leaves the places of a URL alone, and its status and who reports
\* it in order.
LEMMA SamePlaces ==
  ASSUME NEW u \in URLs, Tracked(u), publications \in [URLs -> Nat], publications' = publications,
         \A j \in Jobs : j.url = u => waiting'[j] = waiting[j],
         \A v \in Visitors : Held(u, v)' <=> Held(u, v),
         \A v \in Visitors : Processed(u, v)' <=> Processed(u, v),
         Involved(u) /\ Open(u) => Open(u)',
         ~Involved(u) /\ Fresh(u) => Fresh(u)'
  PROVE  Tracked(u)'
<1>1. \A j \in Jobs : Waits(u, j)' <=> Waits(u, j)
  BY DEF Waits
<1>2. Involved(u)' <=> Involved(u)
  BY <1>1 DEF Involved, Waits, Held, Processed
<1>3. Single(u) => Single(u)'
  BY <1>1 DEF Single
<1> QED BY <1>2, <1>3 DEF Tracked

\* A URL's one message changes its place.
LEMMA TakeTracked ==
  ASSUME FinishInv, NEW v \in Visitors, Take(v), NEW u \in URLs PROVE Tracked(u)'
<1> USE DEF FinishInv
<1>1. PICK i \in Jobs : /\ waiting[i] > 0
                       /\ waiting' = [waiting EXCEPT ![i] = @ - 1]
                       /\ hand' = [hand EXCEPT ![v] = i]
  BY DEF Take
<1>2. i # None /\ hand[v] = None
  BY CrawlAssumption DEF Take
<1>3. \A j \in Jobs : waiting'[j] = IF j = i THEN waiting[i] - 1 ELSE waiting[j]
  BY <1>1 DEF TokenTypes
<1>4. \A w \in Visitors : Held(u, w)' <=> IF w = v THEN i.url = u ELSE Held(u, w)
  BY <1>1, <1>2 DEF TokenTypes, Held
<1>5. \A w \in Visitors : Processed(u, w)' <=> Processed(u, w)
  BY DEF Take, Processed
<1>6. UNCHANGED <<status, publications, epc, eurl>>
  BY DEF Take, enqueueVars
<1>7. (Open(u) => Open(u)') /\ (Fresh(u) => Fresh(u)')
  BY <1>6 DEF Open, Fresh, Unreported
<1>8. CASE i.url # u
  <2>1. \A w \in Visitors : Held(u, w)' <=> Held(u, w)
    BY <1>2, <1>4, <1>8 DEF Held
  <2>2. \A j \in Jobs : j.url = u => waiting'[j] = waiting[j]
    BY <1>3, <1>8
  <2> QED BY <1>5, <1>6, <1>7, <2>1, <2>2, SamePlaces DEF EnqueueTypes
<1>9. CASE i.url = u
  <2>1. Waits(u, i) /\ Involved(u)
    BY <1>1, <1>9 DEF Waits, Involved
  <2>2. waiting[i] \in Nat
    BY DEF TokenTypes
  <2>3. ASSUME publications[u] <= 1 PROVE Single(u)' /\ Open(u)'
    <3>1. Single(u) /\ Open(u)
      BY <2>1, <2>3 DEF Tracked
    <3>2. \A j \in Jobs : j.url = u => waiting'[j] = 0
      <4>1. \A j \in Jobs : j.url = u /\ j # i => waiting[j] = 0
        BY <2>1, <3>1 DEF Single, Waits, TokenTypes
      <4>2. waiting[i] = 1
        BY <1>1, <1>9, <2>2, <3>1 DEF Single
      <4> QED BY <1>3, <4>1, <4>2
    <3>3. \A w \in Visitors : ~Held(u, w) /\ ~Processed(u, w)
      BY <2>1, <3>1 DEF Single
    <3>4. \A j \in Jobs : ~Waits(u, j)'
      BY <3>2 DEF Waits
    <3>5. \A w \in Visitors : (Held(u, w)' <=> w = v) /\ ~Processed(u, w)'
      BY <1>4, <1>5, <1>9, <3>3
    <3>6. Single(u)'
      BY <3>2, <3>4, <3>5 DEF Single
    <3> QED BY <1>7, <3>1, <3>6
  <2>4. publications[u] # 0
    BY <2>1 DEF Tracked
  <2> QED BY <1>6, <2>3, <2>4 DEF Tracked
<1> QED BY <1>8, <1>9

LEMMA ReceiveTracked ==
  ASSUME FinishInv, NEW v \in Visitors, Receive(v), NEW u \in URLs PROVE Tracked(u)'
<1> USE DEF FinishInv
<1>1. hand[v] \in Jobs /\ hand[v] # None
  BY DEF Receive, TokenTypes
<1>2. \A w \in Visitors : Held(u, w)' <=> w # v /\ Held(u, w)
  BY <1>1 DEF Receive, TokenTypes, Held
<1>3. \A w \in Visitors : Processed(u, w)' <=> IF w = v THEN Held(u, v) ELSE Processed(u, w)
  BY <1>1 DEF Receive, TokenTypes, Held, Processed
<1>4. UNCHANGED <<waiting, status, publications, epc, eurl>>
  BY DEF Receive, enqueueVars
<1>5. (Open(u) => Open(u)') /\ (Fresh(u) => Fresh(u)')
  BY <1>4 DEF Open, Fresh, Unreported
<1>6. \A j \in Jobs : Waits(u, j)' <=> Waits(u, j)
  BY <1>4 DEF Waits
<1>7. Involved(u)' => Involved(u)
  BY <1>2, <1>3, <1>6 DEF Involved, Waits, Held, Processed
<1>8. Single(u) => Single(u)'
  BY <1>2, <1>3, <1>4, <1>6 DEF Single
<1> QED BY <1>4, <1>5, <1>7, <1>8 DEF Tracked

LEMMA SettleTracked ==
  ASSUME FinishInv, NEW v \in Visitors, Settle(v), NEW u \in URLs PROVE Tracked(u)'
<1> USE DEF FinishInv
<1>1. job[v] \in Jobs /\ job[v] # None
  BY DEF Settle, TokenTypes
<1>2. \A w \in Visitors : Processed(u, w)' <=> w # v /\ Processed(u, w)
  BY <1>1 DEF Settle, Forget, TokenTypes, Processed
<1>3. UNCHANGED <<waiting, hand, publications, epc, eurl>>
  BY DEF Settle, enqueueVars
<1>4. \A j \in Jobs : Waits(u, j)' <=> Waits(u, j)
  BY <1>3 DEF Waits
<1>5. \A w \in Visitors : Held(u, w)' <=> Held(u, w)
  BY <1>3 DEF Held
<1>6. Involved(u)' => Involved(u)
  BY <1>2, <1>4, <1>5 DEF Involved, Waits, Held, Processed
<1>7. Single(u) => Single(u)'
  BY <1>2, <1>3, <1>4, <1>5 DEF Single
<1>8. CASE job[v].url # u
  <2>1. status'[u] = status[u]
    BY <1>1, <1>8 DEF Settle, Update, TokenTypes
  <2>2. (Open(u) => Open(u)') /\ (Fresh(u) => Fresh(u)')
    BY <1>3, <2>1 DEF Open, Fresh, Unreported
  <2> QED BY <1>3, <1>6, <1>7, <2>2 DEF Tracked
<1>9. CASE job[v].url = u
  <2>1. Processed(u, v)
    BY <1>1, <1>9 DEF Processed
  <2>2. Single(u) => ~Involved(u)'
    BY <1>2, <1>4, <1>5, <2>1 DEF Single, Involved, Waits, Held, Processed
  <2>3. publications[u] # 0
    BY <2>1 DEF Tracked, Involved, Processed
  <2> QED BY <1>3, <1>6, <1>7, <2>2, <2>3 DEF Tracked
<1> QED BY <1>8, <1>9

LEMMA RepublishTracked ==
  ASSUME FinishInv, NEW v \in Visitors, Republish(v), NEW u \in URLs
  PROVE  Tracked(u)' /\ waiting' \in [Jobs -> Nat]
<1> USE DEF FinishInv
<1> DEFINE i == [job[v] EXCEPT !.retries = @ + 1]
<1>1. job[v] \in Jobs /\ job[v] # None
  BY DEF Republish, TokenTypes
<1>2. i \in Jobs /\ i.url = job[v].url
  BY <1>1, CrawlAssumption DEF Republish, Retries, Jobs
<1>3. /\ waiting' \in [Jobs -> Nat]
      /\ \A k \in Jobs : k # i => waiting'[k] = waiting[k]
      /\ waiting'[i] <= waiting[i] + 1
  BY <1>2, PutIs DEF Republish
<1>4. \A w \in Visitors : Processed(u, w)' <=> w # v /\ Processed(u, w)
  BY <1>1 DEF Republish, Forget, TokenTypes, Processed
<1>5. UNCHANGED <<hand, status, publications, epc, eurl>>
  BY DEF Republish, enqueueVars
<1>6. \A w \in Visitors : Held(u, w)' <=> Held(u, w)
  BY <1>5 DEF Held
<1>7. (Open(u) => Open(u)') /\ (Fresh(u) => Fresh(u)')
  BY <1>5 DEF Open, Fresh, Unreported
<1>8. CASE job[v].url # u
  <2>1. \A j \in Jobs : j.url = u => waiting'[j] = waiting[j]
    BY <1>2, <1>3, <1>8
  <2>2. \A w \in Visitors : Processed(u, w)' <=> Processed(u, w)
    BY <1>4, <1>8 DEF Processed
  <2> QED BY <1>3, <1>5, <1>6, <1>7, <2>1, <2>2, SamePlaces DEF EnqueueTypes
<1>9. CASE job[v].url = u
  <2>1. Processed(u, v) /\ Involved(u)
    BY <1>1, <1>9 DEF Processed, Involved
  <2>2. ASSUME publications[u] <= 1 PROVE Single(u)' /\ Open(u)'
    <3>1. Single(u) /\ Open(u)
      BY <2>1, <2>2 DEF Tracked
    <3>2. \A j \in Jobs : j.url = u => waiting[j] = 0
      BY <2>1, <3>1 DEF Single, Waits, TokenTypes
    <3>3. \A w \in Visitors : ~Held(u, w)' /\ ~Processed(u, w)'
      BY <1>4, <1>6, <2>1, <3>1 DEF Single
    <3>4. \A j \in Jobs : j.url = u => waiting'[j] <= 1
      BY <1>2, <1>3, <3>2
    <3>5. \A j \in Jobs : Waits(u, j)' => j = i
      BY <1>3, <3>2 DEF Waits
    <3>6. Single(u)'
      BY <3>3, <3>4, <3>5 DEF Single
    <3> QED BY <1>7, <3>1, <3>6
  <2>3. publications[u] # 0
    BY <2>1 DEF Tracked
  <2> QED BY <1>3, <1>5, <2>2, <2>3 DEF Tracked
<1> QED BY <1>3, <1>8, <1>9

LEMMA PublishTracked ==
  ASSUME FinishInv, NEW e \in Enqueuers, Publish(e), NEW u \in URLs
  PROVE  Tracked(u)' /\ waiting' \in [Jobs -> Nat]
<1> USE DEF FinishInv
<1> DEFINE i == [url |-> eurl[e], retries |-> 0]
<1>1. eurl[e] \in URLs
  BY DEF Publish, EnqueueTypes
<1>2. i \in Jobs
  BY <1>1, CrawlAssumption DEF Jobs
<1>3. /\ waiting' \in [Jobs -> Nat]
      /\ \A k \in Jobs : k # i => waiting'[k] = waiting[k]
      /\ waiting'[i] <= waiting[i] + 1
  BY <1>2, PutIs DEF Publish
<1>4. UNCHANGED <<hand, job, status, eurl>>
  BY DEF Publish, visitorVars
<1>5. \A w \in Visitors : (Held(u, w)' <=> Held(u, w)) /\ (Processed(u, w)' <=> Processed(u, w))
  BY <1>4 DEF Held, Processed
<1>6. epc'[e] = "saw" /\ \A f \in Enqueuers : f # e => epc'[f] = epc[f]
  BY DEF Publish, EnqueueTypes
<1>7. CASE eurl[e] # u
  <2>1. publications'[u] = publications[u]
    BY <1>7 DEF Publish, EnqueueTypes
  <2>2. \A j \in Jobs : j.url = u => waiting'[j] = waiting[j]
    BY <1>3, <1>7
  <2>3. (Open(u) => Open(u)') /\ (Fresh(u) => Fresh(u)')
    BY <1>4, <1>6, <1>7 DEF Open, Fresh, Unreported
  <2>4. \A j \in Jobs : Waits(u, j)' <=> Waits(u, j)
    BY <2>2 DEF Waits
  <2>5. Involved(u)' <=> Involved(u)
    BY <1>5, <2>4 DEF Involved, Waits, Held, Processed
  <2>6. Single(u) => Single(u)'
    BY <1>5, <2>2, <2>4 DEF Single
  <2> QED BY <1>3, <2>1, <2>3, <2>5, <2>6 DEF Tracked
<1>8. CASE eurl[e] = u
  <2>1. publications[u] \in Nat /\ publications'[u] = publications[u] + 1
    BY <1>1, <1>8 DEF Publish, EnqueueTypes
  <2>2. ASSUME publications'[u] <= 1 PROVE Single(u)' /\ (Involved(u)' => Open(u)')
    <3>1. ~Involved(u)
      BY <2>1, <2>2 DEF Tracked
    <3>2. /\ \A j \in Jobs : j.url = u => waiting[j] = 0
          /\ \A w \in Visitors : ~Held(u, w) /\ ~Processed(u, w)
      BY <3>1 DEF Involved, Held, Processed, TokenTypes
    <3>3. \A j \in Jobs : j.url = u => waiting'[j] <= 1
      BY <1>2, <1>3, <3>2
    <3>4. \A j \in Jobs : Waits(u, j)' => j = i
      BY <1>3, <3>2 DEF Waits
    <3>5. Single(u)'
      BY <1>5, <3>2, <3>3, <3>4 DEF Single
    <3>6. Unreported(u)'
      BY <1>4, <1>6, <1>8 DEF Unreported
    <3>7. status'[u] = "none"
      BY <1>4, <2>1, <2>2 DEF Tracked, Fresh
    <3> QED BY <3>5, <3>6, <3>7 DEF Open, Terminal
  <2> QED BY <1>3, <2>1, <2>2 DEF Tracked
<1> QED BY <1>3, <1>7, <1>8

\* Who reports a URL has published it, or processes it: its status opens.
LEMMA ReportQueuedTracked ==
  ASSUME FinishInv, NEW e \in Enqueuers, ReportQueued(e), NEW u \in URLs PROVE Tracked(u)'
<1> USE DEF FinishInv
<1>1. eurl[e] \in URLs
  BY DEF ReportQueued, EnqueueTypes
<1>2. /\ UNCHANGED <<waiting, hand, job, publications>>
      /\ status'[u] = IF u = eurl[e] THEN "queued" ELSE status[u]
  BY <1>1 DEF ReportQueued, visitorVars, TokenTypes
<1>3. (\A v \in Visitors : Held(u, v)' <=> Held(u, v)) /\ (\A v \in Visitors : Processed(u, v)' <=> Processed(u, v))
  BY <1>2 DEF Held, Processed
<1>4. CASE u = eurl[e]
  <2>1. Unreported(u)
    BY <1>4 DEF ReportQueued, Unreported
  <2>2. Open(u)'
    BY <1>2, <1>4 DEF Open, Terminal
  <2>3. publications[u] # 0
    BY <2>1 DEF Tracked, Fresh
  <2>4. (Involved(u)' <=> Involved(u)) /\ (Single(u)' <=> Single(u))
    BY <1>2, <1>3 DEF Involved, Single, Waits, Held, Processed
  <2> QED BY <1>2, <2>2, <2>3, <2>4 DEF Tracked
<1>5. CASE u # eurl[e]
  <2>1. Unreported(u)' <=> Unreported(u)
    BY <1>1, <1>5, CrawlAssumption DEF ReportQueued, Unreported, EnqueueTypes
  <2>2. (Open(u) => Open(u)') /\ (Fresh(u) => Fresh(u)')
    BY <1>2, <1>5, <2>1 DEF Open, Fresh
  <2> QED BY <1>2, <1>3, <2>2, SamePlaces DEF EnqueueTypes
<1> QED BY <1>4, <1>5

LEMMA ReportVisitTracked ==
  ASSUME FinishInv, NEW v \in Visitors, ReportCrawling(v) \/ ReportCrawled(v), NEW u \in URLs
  PROVE  Tracked(u)'
<1> USE DEF FinishInv
<1>1. job[v] \in Jobs /\ job[v] # None /\ job[v].url \in URLs
  BY DEF ReportCrawling, ReportCrawled, TokenTypes, Jobs
<1>2. PICK s \in {"crawling", "crawled"} : Update(v, s)
  BY DEF ReportCrawling, ReportCrawled, AfterVisit
<1>3. /\ UNCHANGED <<waiting, hand, job, publications, epc, eurl>>
      /\ status'[u] = IF u = job[v].url THEN s ELSE status[u]
  BY <1>1, <1>2 DEF ReportCrawling, ReportCrawled, Update, enqueueVars, TokenTypes
<1>4. (\A w \in Visitors : Held(u, w)' <=> Held(u, w)) /\ (\A w \in Visitors : Processed(u, w)' <=> Processed(u, w))
  BY <1>3 DEF Held, Processed
<1>5. Open(u) => Open(u)'
  BY <1>3 DEF Open, Unreported, Terminal
<1>6. ~Involved(u) => u # job[v].url
  BY <1>1 DEF Involved
<1>7. ~Involved(u) /\ Fresh(u) => Fresh(u)'
  BY <1>3, <1>6 DEF Fresh, Unreported
<1> QED BY <1>3, <1>4, <1>5, <1>7, SamePlaces DEF EnqueueTypes

\* A goroutine that starts to enqueue, or goes from one step of it to the
\* next, reports nothing less.
LEMMA EnqueueTracked ==
  ASSUME FinishInv, NEW e \in Enqueuers, Saw(e) \/ \E x \in URLs : Enqueue(e, x) \/ Skip(e, x),
         NEW u \in URLs
  PROVE  Tracked(u)'
<1> USE DEF FinishInv
<1>1. UNCHANGED <<waiting, hand, job, status, publications>>
  BY DEF Saw, Enqueue, Skip, visitorVars
<1>2. (\A w \in Visitors : Held(u, w)' <=> Held(u, w)) /\ (\A w \in Visitors : Processed(u, w)' <=> Processed(u, w))
  BY <1>1 DEF Held, Processed
<1>3. Unreported(u)' <=> Unreported(u)
  <2>1. CASE Saw(e)
    BY <2>1 DEF Saw, Unreported, EnqueueTypes
  <2>2. ASSUME NEW x \in URLs, Enqueue(e, x) PROVE Unreported(u)' <=> Unreported(u)
    BY <2>2 DEF Enqueue, Unreported, EnqueueTypes
  <2>3. ASSUME NEW x \in URLs, Skip(e, x) PROVE Unreported(u)' <=> Unreported(u)
    BY <2>3 DEF Skip, Unreported
  <2> QED BY <2>1, <2>2, <2>3
<1>4. (Open(u) => Open(u)') /\ (Fresh(u) => Fresh(u)')
  BY <1>1, <1>3 DEF Open, Fresh
<1> QED BY <1>1, <1>2, <1>4, SamePlaces DEF EnqueueTypes

LEMMA ElseTracked ==
  ASSUME FinishInv, UNCHANGED <<waiting, hand, job, status, publications, epc, eurl>>, NEW u \in URLs
  PROVE  Tracked(u)'
<1> USE DEF FinishInv
<1>1. (\A w \in Visitors : Held(u, w)' <=> Held(u, w)) /\ (\A w \in Visitors : Processed(u, w)' <=> Processed(u, w))
  BY DEF Held, Processed
<1>2. (Open(u) => Open(u)') /\ (Fresh(u) => Fresh(u)')
  BY DEF Open, Fresh, Unreported
<1> QED BY <1>1, <1>2, SamePlaces DEF EnqueueTypes

LEMMA StepTracked ==
  ASSUME FinishInv, [Next]_vars, NEW u \in URLs PROVE Tracked(u)'
<1>1. ASSUME NEW e \in Enqueuers, EnqueueStep(e) PROVE Tracked(u)'
  BY <1>1, PublishTracked, EnqueueTracked, ReportQueuedTracked DEF EnqueueStep
<1>2. ASSUME NEW e \in Enqueuers, NEW x \in URLs, Enqueue(e, x) \/ Skip(e, x) PROVE Tracked(u)'
  BY <1>2, EnqueueTracked
<1>3. ASSUME NEW v \in Visitors, EndLinks(v) \/ \E o \in Outcomes : Visit(v, o) PROVE Tracked(u)'
  BY <1>3, ElseTracked DEF EndLinks, Visit, enqueueVars
<1>4. ASSUME NEW v \in Visitors,
             Take(v) \/ Receive(v) \/ ReportCrawling(v) \/ ReportCrawled(v) \/ Settle(v) \/ Republish(v)
      PROVE  Tracked(u)'
  BY <1>4, TakeTracked, ReceiveTracked, ReportVisitTracked, SettleTracked, RepublishTracked
<1>5. UNCHANGED vars => Tracked(u)'
  BY ElseTracked DEF vars, enqueueVars, visitorVars
<1>6. Producers \subseteq Enqueuers /\ Visitors \subseteq Enqueuers
  BY DEF Enqueuers
<1> QED BY <1>1, <1>2, <1>3, <1>4, <1>5, <1>6 DEF Next, ProducerStep, VisitorStep, Follow

LEMMA StepTokenTypes == ASSUME FinishInv, [Next]_vars PROVE TokenTypes'
<1> USE DEF FinishInv
<1>1. ASSUME NEW e \in Enqueuers, Publish(e) PROVE TokenTypes'
  <2>1. waiting' \in [Jobs -> Nat]
    <3>1. [url |-> eurl[e], retries |-> 0] \in Jobs
      BY <1>1, CrawlAssumption DEF Publish, EnqueueTypes, Jobs
    <3> QED BY <1>1, <3>1, PutIs DEF Publish
  <2> QED BY <1>1, <2>1 DEF Publish, visitorVars, TokenTypes
<1>2. ASSUME NEW e \in Enqueuers, ReportQueued(e) PROVE TokenTypes'
  BY <1>2 DEF ReportQueued, visitorVars, TokenTypes, Statuses
<1>3. ASSUME NEW e \in Enqueuers, Saw(e) \/ \E x \in URLs : Enqueue(e, x) \/ Skip(e, x) PROVE TokenTypes'
  BY <1>3 DEF Saw, Enqueue, Skip, visitorVars, TokenTypes
<1>4. ASSUME NEW v \in Visitors, Take(v) PROVE TokenTypes'
  <2>1. PICK j \in Jobs : /\ waiting[j] > 0
                         /\ waiting' = [waiting EXCEPT ![j] = @ - 1]
                         /\ hand' = [hand EXCEPT ![v] = j]
    BY <1>4 DEF Take
  <2>2. waiting[j] - 1 \in Nat
    BY <2>1 DEF TokenTypes
  <2> QED BY <1>4, <2>1, <2>2 DEF Take, enqueueVars, TokenTypes
<1>5. ASSUME NEW v \in Visitors, Receive(v) PROVE TokenTypes'
  BY <1>5 DEF Receive, enqueueVars, TokenTypes
<1>6. ASSUME NEW v \in Visitors, ReportCrawling(v) \/ ReportCrawled(v) PROVE TokenTypes'
  BY <1>6 DEF ReportCrawling, ReportCrawled, Update, AfterVisit, enqueueVars, TokenTypes, Statuses
<1>7. ASSUME NEW v \in Visitors, EndLinks(v) \/ \E o \in Outcomes : Visit(v, o) PROVE TokenTypes'
  BY <1>7 DEF EndLinks, Visit, enqueueVars, TokenTypes
<1>8. ASSUME NEW v \in Visitors, Settle(v) PROVE TokenTypes'
  <2>1. Verdict(v) \in Statuses
    BY DEF Verdict, Statuses
  <2> QED BY <1>8, <2>1 DEF Settle, Update, Forget, enqueueVars, TokenTypes
<1>9. ASSUME NEW v \in Visitors, Republish(v) PROVE TokenTypes'
  <2>1. waiting' \in [Jobs -> Nat]
    <3>1. job[v] \in Jobs
      BY <1>9 DEF Republish, TokenTypes
    <3>2. [job[v] EXCEPT !.retries = @ + 1] \in Jobs
      BY <1>9, <3>1, CrawlAssumption DEF Republish, Retries, Jobs
    <3> QED BY <1>9, <3>2, PutIs DEF Republish
  <2> QED BY <1>9, <2>1 DEF Republish, Forget, enqueueVars, TokenTypes
<1>10. UNCHANGED vars => TokenTypes'
  BY DEF vars, visitorVars, TokenTypes
<1>11. Producers \subseteq Enqueuers /\ Visitors \subseteq Enqueuers
  BY DEF Enqueuers
<1> QED BY <1>1, <1>2, <1>3, <1>4, <1>5, <1>6, <1>7, <1>8, <1>9, <1>10, <1>11
        DEF Next, ProducerStep, VisitorStep, EnqueueStep, Follow

LEMMA InitFinish == Init => FinishInv
<1> SUFFICES ASSUME Init PROVE FinishInv
  OBVIOUS
<1>1. TokenTypes
  BY DEF Init, TokenTypes, Statuses
<1>2. ASSUME NEW u \in URLs PROVE Tracked(u)
  <2>1. \A j \in Jobs : ~Waits(u, j)
    BY DEF Init, Waits
  <2>2. \A v \in Visitors : ~Held(u, v) /\ ~Processed(u, v)
    BY DEF Init, Held, Processed
  <2>3. Single(u)
    BY <2>1, <2>2 DEF Single, Init
  <2>4. ~Involved(u)
    BY <2>1, <2>2 DEF Involved, Waits, Held, Processed
  <2>5. Fresh(u)
    BY DEF Init, Fresh, Unreported
  <2> QED BY <2>3, <2>4, <2>5 DEF Tracked
<1> QED BY <1>1, <1>2, InitOnce DEF FinishInv, OnceInv

LEMMA StepFinish == ASSUME FinishInv, OnceInv, [Next]_vars PROVE FinishInv' /\ OnceInv'
<1>1. OnceInv'
  BY StepOnce
<1> QED BY <1>1, StepTracked, StepTokenTypes DEF FinishInv, OnceInv

\* MemoryReporter's "finished" is true of every URL published once and reported
\* (progress/memory.go:107-126): while its message is queued, on its way or
\* processed its last update is not terminal, whatever is enqueued, retried or
\* published twice besides.
THEOREM FinishedIsTrue == Spec => []NoFalseFinish
<1>1. FinishInv => NoFalseFinish
  <2> SUFFICES ASSUME FinishInv, Finished, NEW u \in URLs, publications[u] <= 1, ~Unreported(u)
               PROVE  ~Involved(u)
    BY DEF NoFalseFinish
  <2>1. Involved(u) => Open(u)
    BY DEF FinishInv, Tracked
  <2>2. status[u] \in Terminal \cup {"none"}
    BY DEF Finished
  <2> QED BY <2>1, <2>2 DEF Open
<1> QED BY <1>1, InitOnce, InitFinish, StepFinish, PTL DEF Spec

-----------------------------------------------------------------------------
(***************************************************************************)
(* Sums over finite sets.  A sum is found by taking one element after      *)
(* another, and does not depend on which.                                  *)
(***************************************************************************)
Pick(s) == CHOOSE x \in s : TRUE
SumOver(f, S) == LET iter[s \in SUBSET S] == IF s = {} THEN 0 ELSE f[Pick(s)] + iter[s \ {Pick(s)}]
                 IN  iter[S]

SumsUp(g, f, S) ==
    /\ g \in [SUBSET S -> Int]
    /\ g[{}] = 0
    /\ \A s \in SUBSET S : \A x \in s : g[s] = f[x] + g[s \ {x}]

\* A set of finite sets that is not empty has one without a smaller one.
LEMMA Smallest ==
  ASSUME NEW S, IsFiniteSet(S), NEW T, T \subseteq SUBSET S, T # {}
  PROVE  \E s \in T : \A x \in s : s \ {x} \notin T
<1>1. IsWellFoundedOn(StrictSubsetOrdering(S), SUBSET S)
  BY FS_StrictSubsetOrderingWellFounded, FS_FiniteSubsetsOfFinite
<1>2. PICK s \in T : \A t \in T : ~(<<t, s>> \in StrictSubsetOrdering(S))
  BY <1>1, WFMin
<1>3. ASSUME NEW x \in s PROVE s \ {x} \notin T
  <2> SUFFICES ASSUME s \ {x} \in T PROVE FALSE
    OBVIOUS
  <2>1. <<s \ {x}, s>> \in (SUBSET S) \X (SUBSET S) /\ s \ {x} \subseteq s /\ s \ {x} # s
    OBVIOUS
  <2>2. <<s \ {x}, s>> \in StrictSubsetOrdering(S)
    BY <2>1 DEF StrictSubsetOrdering
  <2> QED BY <1>2, <2>2
<1> QED BY <1>3

\* An element more.
SumMore(g, f, y, S) == [s \in SUBSET S |-> IF y \in s THEN f[y] + g[s \ {y}] ELSE g[s]]

LEMMA SumsUpMore ==
  ASSUME NEW S, NEW f \in [S -> Int], NEW s \in SUBSET S, NEW y \in s, NEW g, SumsUp(g, f, s \ {y})
  PROVE  SumsUp(SumMore(g, f, y, s), f, s)
<1> DEFINE h == SumMore(g, f, y, s)
<1>1. \A t \in SUBSET s : h[t] = IF y \in t THEN f[y] + g[t \ {y}] ELSE g[t]
  BY DEF SumMore
<1>2. \A t \in SUBSET s : t \ {y} \in SUBSET (s \ {y}) /\ (y \notin t => t \in SUBSET (s \ {y}))
  OBVIOUS
<1>3. \A t \in SUBSET (s \ {y}) : g[t] \in Int
  BY DEF SumsUp
<1>4. \A x \in s : f[x] \in Int
  OBVIOUS
<1>5. h \in [SUBSET s -> Int]
  <2>1. \A t \in SUBSET s : (IF y \in t THEN f[y] + g[t \ {y}] ELSE g[t]) \in Int
    BY <1>2, <1>3, <1>4
  <2> QED BY <2>1 DEF SumMore
<1>6. h[{}] = 0
  BY <1>1 DEF SumsUp
<1>7. ASSUME NEW t \in SUBSET s, NEW x \in t PROVE h[t] = f[x] + h[t \ {x}]
  <2>1. CASE x = y
    <3>1. h[t] = f[y] + g[t \ {y}] /\ h[t \ {y}] = g[t \ {y}]
      BY <1>1, <2>1
    <3> QED BY <2>1, <3>1
  <2>2. CASE x # y /\ y \notin t
    <3>1. h[t] = g[t] /\ h[t \ {x}] = g[t \ {x}]
      BY <1>1, <2>2
    <3>2. g[t] = f[x] + g[t \ {x}]
      BY <1>2, <2>2 DEF SumsUp
    <3> QED BY <3>1, <3>2
  <2>3. CASE x # y /\ y \in t
    <3> DEFINE r == t \ {y}
    <3>1. r \in SUBSET (s \ {y}) /\ x \in r /\ (t \ {x}) \ {y} = r \ {x} /\ r \ {x} \in SUBSET (s \ {y})
      BY <2>3
    <3>2. h[t] = f[y] + g[r] /\ h[t \ {x}] = f[y] + g[r \ {x}]
      BY <1>1, <2>3, <3>1
    <3>3. g[r] = f[x] + g[r \ {x}]
      BY <3>1 DEF SumsUp
    <3> HIDE DEF r
    <3>4. g[r \ {x}] \in Int /\ f[x] \in Int /\ f[y] \in Int
      BY <1>3, <1>4, <3>1
    <3> QED BY <3>2, <3>3, <3>4
  <2> QED BY <2>1, <2>2, <2>3
<1> QED BY <1>5, <1>6, <1>7 DEF SumsUp

\* Every function on a finite set sums up ...
LEMMA SumExists ==
  ASSUME NEW S, IsFiniteSet(S), NEW f \in [S -> Int]
  PROVE  \E g : SumsUp(g, f, S)
<1> DEFINE T == {s \in SUBSET S : ~\E g : SumsUp(g, f, s)}
<1> SUFFICES T = {}
  OBVIOUS
<1> SUFFICES ASSUME T # {} PROVE FALSE
  OBVIOUS
<1>1. PICK s \in T : \A x \in s : s \ {x} \notin T
  <2>1. T \subseteq SUBSET S
    OBVIOUS
  <2> HIDE DEF T
  <2> QED BY <2>1, Smallest
<1>2. CASE s = {}
  <2> DEFINE g == [t \in {{}} |-> 0]
  <2>1. SUBSET {} = {{}}
    OBVIOUS
  <2>2. SumsUp(g, f, {})
    BY <2>1 DEF SumsUp
  <2> QED BY <1>2, <2>2
<1>3. CASE s # {}
  <2>1. PICK y \in s : TRUE
    BY <1>3
  <2>2. PICK g : SumsUp(g, f, s \ {y})
    BY <1>1
  <2>3. SumsUp(SumMore(g, f, y, s), f, s)
    BY <2>2, SumsUpMore
  <2> QED BY <2>3
<1> QED BY <1>2, <1>3

\* ... to the sum.
LEMMA SumIs ==
  ASSUME NEW S, IsFiniteSet(S), NEW f, NEW g, SumsUp(g, f, S)
  PROVE  SumOver(f, S) = g[S]
<1> DEFINE Step(h) == [s \in SUBSET S |-> IF s = {} THEN 0 ELSE f[Pick(s)] + h[s \ {Pick(s)}]]
           iter == CHOOSE h : h = Step(h)
<1>1. \A s \in SUBSET S : s # {} => Pick(s) \in s
  BY DEF Pick
<1>2. g = Step(g)
  <2>1. \A s \in SUBSET S : g[s] = IF s = {} THEN 0 ELSE f[Pick(s)] + g[s \ {Pick(s)}]
    BY <1>1 DEF SumsUp
  <2>2. g \in [SUBSET S -> Int]
    BY DEF SumsUp
  <2> QED BY <2>1, <2>2
<1>3. iter = Step(iter)
  <2> HIDE DEF Step
  <2> QED BY <1>2
<1>4. SumOver(f, S) = iter[S]
  BY DEF SumOver
<1> HIDE DEF iter
<1>5. \A s \in SUBSET S : iter[s] = IF s = {} THEN 0 ELSE f[Pick(s)] + iter[s \ {Pick(s)}]
  BY <1>3
<1> HIDE DEF Step
<1> DEFINE T == {s \in SUBSET S : iter[s] # g[s]}
<1>6. T = {}
  <2> SUFFICES ASSUME T # {} PROVE FALSE
    OBVIOUS
  <2>1. PICK s \in T : \A x \in s : s \ {x} \notin T
    <3>1. T \subseteq SUBSET S
      OBVIOUS
    <3> HIDE DEF T
    <3> QED BY <3>1, Smallest
  <2>2. s # {}
    BY <1>5 DEF SumsUp
  <2>3. Pick(s) \in s /\ s \ {Pick(s)} \in SUBSET S
    BY <1>1, <2>2
  <2>4. iter[s \ {Pick(s)}] = g[s \ {Pick(s)}]
    BY <2>1, <2>3
  <2>5. g[s] = f[Pick(s)] + g[s \ {Pick(s)}]
    BY <2>3 DEF SumsUp
  <2> QED BY <1>5, <2>2, <2>4, <2>5
<1> QED BY <1>4, <1>6

\* It is an integer, and a natural number if every term is.
LEMMA SumInt ==
  ASSUME NEW S, IsFiniteSet(S), NEW f \in [S -> Int]
  PROVE  SumOver(f, S) \in Int /\ ((\A x \in S : f[x] >= 0) => SumOver(f, S) >= 0)
<1>1. PICK g : SumsUp(g, f, S)
  BY SumExists
<1>2. SumOver(f, S) = g[S] /\ g \in [SUBSET S -> Int] /\ g[{}] = 0
  <2>1. SumOver(f, S) = g[S]
    BY <1>1, SumIs
  <2> QED BY <1>1, <2>1 DEF SumsUp
<1>3. ASSUME \A x \in S : f[x] >= 0 PROVE g[S] >= 0
  <2> DEFINE T == {s \in SUBSET S : g[s] < 0}
  <2> SUFFICES ASSUME T # {} PROVE FALSE
    BY <1>2
  <2>1. PICK s \in T : \A x \in s : s \ {x} \notin T
    <3>1. T \subseteq SUBSET S
      OBVIOUS
    <3> HIDE DEF T
    <3> QED BY <3>1, Smallest
  <2>2. s # {}
    BY <1>2
  <2>3. PICK x \in s : TRUE
    BY <2>2
  <2>4. g[s] = f[x] + g[s \ {x}] /\ g[s \ {x}] \in Int /\ f[x] \in Int /\ f[x] >= 0
    BY <1>1, <1>2, <1>3 DEF SumsUp
  <2>5. g[s \ {x}] >= 0
    <3>1. s \ {x} \in SUBSET S /\ s \ {x} \notin T
      BY <2>1, <2>3
    <3> QED BY <2>4, <3>1
  <2> QED BY <2>4, <2>5
<1> QED BY <1>2, <1>3

\* A term changes, and the sum with it.
LEMMA SumChange ==
  ASSUME NEW S, IsFiniteSet(S), NEW f \in [S -> Int], NEW h \in [S -> Int], NEW y \in S,
         \A x \in S : x # y => h[x] = f[x]
  PROVE  SumOver(h, S) = SumOver(f, S) + h[y] - f[y]
<1>1. PICK g : SumsUp(g, f, S)
  BY SumExists
<1> DEFINE k == [s \in SUBSET S |-> IF y \in s THEN g[s] + (h[y] - f[y]) ELSE g[s]]
           d == h[y] - f[y]
<1>2. d \in Int /\ g \in [SUBSET S -> Int] /\ h[y] = f[y] + d
  BY <1>1 DEF SumsUp
<1>3. \A s \in SUBSET S : k[s] = IF y \in s THEN g[s] + d ELSE g[s]
  OBVIOUS
<1>4. k \in [SUBSET S -> Int]
  BY <1>2
<1> HIDE DEF k, d
<1>5. k[{}] = 0
  BY <1>1, <1>3 DEF SumsUp
<1>6. ASSUME NEW s \in SUBSET S, NEW x \in s PROVE k[s] = h[x] + k[s \ {x}]
  <2>1. g[s] = f[x] + g[s \ {x}] /\ f[x] \in Int /\ g[s \ {x}] \in Int
    BY <1>1, <1>2 DEF SumsUp
  <2>2. x = y => h[x] = f[x] + d
    BY <1>2
  <2>3. CASE x = y
    <3>1. k[s] = g[s] + d /\ k[s \ {x}] = g[s \ {x}]
      BY <1>3, <2>3
    <3> QED BY <1>2, <2>1, <2>2, <2>3, <3>1
  <2>4. CASE x # y
    <3>1. h[x] = f[x]
      BY <2>4
    <3>2. y \in s <=> y \in s \ {x}
      BY <2>4
    <3> QED BY <1>2, <1>3, <2>1, <3>1, <3>2
  <2> QED BY <2>3, <2>4
<1>7. SumsUp(k, h, S)
  BY <1>4, <1>5, <1>6 DEF SumsUp
<1>8. SumOver(f, S) = g[S] /\ SumOver(h, S) = k[S]
  BY <1>1, <1>7, SumIs
<1>9. k[S] = g[S] + d /\ g[S] \in Int
  BY <1>2, <1>3
<1> QED BY <1>8, <1>9 DEF d

LEMMA SumZero ==
  ASSUME NEW S, IsFiniteSet(S), NEW f \in [S -> Int], \A x \in S : f[x] = 0
  PROVE  SumOver(f, S) = 0
<1> DEFINE g == [s \in SUBSET S |-> 0]
<1>1. SumsUp(g, f, S)
  BY DEF SumsUp
<1> QED BY <1>1, SumIs

\* Pick is the choice of the community modules' sum.
LEMMA LoadIs == Load = SumOver(waiting, Jobs)
BY DEF Load, SumOver, Pick, MapThenSumSet, MapThenFoldSet

-----------------------------------------------------------------------------
(***************************************************************************)
(* The types of the rest, for which what the queue holds must be a number  *)
(* that a message more or less makes one more or less.                     *)
(***************************************************************************)
LEMMA JobsFinite == IsFiniteSet(Jobs)
<1> DEFINE f == [j \in Jobs |-> <<j.url, j.retries>>]
           T == URLs \X (0 .. MaxJobRetries + 1)
<1>1. IsFiniteSet(0 .. MaxJobRetries + 1)
  BY FS_Interval, CrawlAssumption
<1>2. IsFiniteSet(T)
  BY <1>1, FS_Product, CrawlAssumption
<1>3. f \in Injection(Jobs, T)
  <2>1. f \in [Jobs -> T]
    BY DEF Jobs
  <2>2. ASSUME NEW a \in Jobs, NEW b \in Jobs, f[a] = f[b] PROVE a = b
    BY <2>2 DEF Jobs
  <2> QED BY <2>1, <2>2 DEF Injection, IsInjective
<1> HIDE DEF f, T
<1> QED BY <1>2, <1>3, FS_Injection

LEMMA LoadInt == ASSUME TokenTypes PROVE Load \in Int
<1>1. waiting \in [Jobs -> Int]
  BY DEF TokenTypes
<1> QED BY <1>1, JobsFinite, SumInt, LoadIs

LEMMA LoadNext == Load' = SumOver(waiting', Jobs)
BY DEF Load, SumOver, Pick, MapThenSumSet, MapThenFoldSet

LEMMA LoadSame == ASSUME UNCHANGED waiting PROVE Load' = Load
BY LoadIs, LoadNext

LEMMA LoadChange ==
  ASSUME TokenTypes, NEW j \in Jobs, NEW d \in Int, waiting' = [waiting EXCEPT ![j] = @ + d]
  PROVE  Load' = Load + d
<1>1. waiting \in [Jobs -> Int] /\ waiting' \in [Jobs -> Int]
  BY DEF TokenTypes
<1>2. \A x \in Jobs : x # j => waiting'[x] = waiting[x]
  BY <1>1
<1>3. waiting'[j] = waiting[j] + d /\ waiting[j] \in Int
  BY <1>1
<1>4. Load' = SumOver(waiting', Jobs) /\ Load = SumOver(waiting, Jobs)
  BY LoadIs, LoadNext
<1>5. Load' = Load + waiting'[j] - waiting[j] /\ Load \in Int
  <2>1. SumOver(waiting', Jobs) = SumOver(waiting, Jobs) + waiting'[j] - waiting[j]
    <3>1. \A f, h \in [Jobs -> Int] :
              (\A x \in Jobs : x # j => h[x] = f[x]) => SumOver(h, Jobs) = SumOver(f, Jobs) + h[j] - f[j]
      BY SumChange, JobsFinite
    <3> QED BY <1>1, <1>2, <3>1, Zenon
  <2> QED BY <1>4, <2>1, LoadInt
<1> QED BY <1>3, <1>5

RestTypes ==
    /\ Load <= Capacity
    /\ pending \in [Producers -> SUBSET URLs]
    /\ outcome \in [Visitors -> OutcomeKinds \cup {"none"}]
    /\ visits \in [URLs -> Nat]
    /\ settled \subseteq URLs

Typed == EnqueueTypes /\ TokenTypes /\ RestTypes

LEMMA TypeIs == TypeOK <=> Typed
BY DEF TypeOK, Typed, EnqueueTypes, TokenTypes, RestTypes

\* A message is put where there is room for it.
LEMMA PutFits ==
  ASSUME TokenTypes, Load <= Capacity, NEW j \in Jobs, waiting' = Put(j) PROVE Load' <= Capacity
<1>1. CASE Load < Capacity
  <2>1. Load' = Load + 1
    <3>1. waiting' = [waiting EXCEPT ![j] = @ + 1] /\ 1 \in Int
      BY <1>1 DEF Put
    <3> QED BY <3>1, LoadChange
  <2> QED BY <1>1, <2>1, LoadInt, CrawlAssumption
<1>2. CASE ~(Load < Capacity)
  <2>1. waiting' = waiting
    BY <1>2 DEF Put
  <2> QED BY <2>1, LoadSame
<1> QED BY <1>1, <1>2

LEMMA StepRestTypes ==
  ASSUME EnqueueTypes, TokenTypes, RestTypes, [Next]_vars PROVE RestTypes'
<1>1. UNCHANGED waiting => Load' = Load
  BY LoadSame
<1>2. ASSUME NEW e \in Enqueuers, Publish(e) PROVE RestTypes'
  <2>1. [url |-> eurl[e], retries |-> 0] \in Jobs
    BY <1>2, CrawlAssumption DEF Publish, EnqueueTypes, Jobs
  <2>2. Load' <= Capacity
    BY <1>2, <2>1, PutFits DEF Publish, RestTypes
  <2> QED BY <1>2, <2>2 DEF Publish, visitorVars, RestTypes
<1>3. ASSUME NEW e \in Enqueuers, Saw(e) \/ ReportQueued(e) PROVE RestTypes'
  BY <1>1, <1>3 DEF Saw, ReportQueued, visitorVars, RestTypes
<1>4. ASSUME NEW e \in Enqueuers, NEW u \in URLs, Enqueue(e, u) \/ Skip(e, u) PROVE RestTypes'
  <2>1. Dequeued(e, u) \in [Producers -> SUBSET URLs]
    BY DEF Dequeued, RestTypes
  <2> QED BY <1>1, <1>4, <2>1 DEF Enqueue, Skip, visitorVars, RestTypes
<1>5. ASSUME NEW v \in Visitors, Take(v) PROVE RestTypes'
  <2>1. PICK j \in Jobs : waiting' = [waiting EXCEPT ![j] = @ - 1]
    BY <1>5 DEF Take
  <2>2. waiting' = [waiting EXCEPT ![j] = @ + (-1)]
    <3>1. waiting[j] - 1 = waiting[j] + (-1)
      BY DEF TokenTypes
    <3> QED BY <2>1, <3>1
  <2>3. Load' = Load + (-1)
    <3>1. -1 \in Int
      OBVIOUS
    <3> QED BY <2>2, <3>1, LoadChange
  <2>4. Load' <= Capacity
    BY <2>3, LoadInt, CrawlAssumption DEF RestTypes
  <2> QED BY <1>5, <2>4 DEF Take, enqueueVars, RestTypes
<1>6. ASSUME NEW v \in Visitors, Receive(v) \/ ReportCrawling(v) \/ EndLinks(v) \/ ReportCrawled(v) PROVE RestTypes'
  BY <1>1, <1>6 DEF Receive, ReportCrawling, EndLinks, ReportCrawled, enqueueVars, RestTypes
<1>7. ASSUME NEW v \in Visitors, NEW o \in Outcomes, Visit(v, o) PROVE RestTypes'
  <2>1. o \in OutcomeKinds
    BY CrawlAssumption
  <2>2. job[v].url \in URLs
    BY <1>7 DEF Visit, TokenTypes, Jobs
  <2> QED BY <1>1, <1>7, <2>1, <2>2 DEF Visit, enqueueVars, RestTypes
<1>8. ASSUME NEW v \in Visitors, Settle(v) PROVE RestTypes'
  <2>1. job[v].url \in URLs
    BY <1>8 DEF Settle, TokenTypes, Jobs
  <2> QED BY <1>1, <1>8, <2>1 DEF Settle, Forget, enqueueVars, RestTypes
<1>9. ASSUME NEW v \in Visitors, Republish(v) PROVE RestTypes'
  <2>1. [job[v] EXCEPT !.retries = @ + 1] \in Jobs
    <3>1. job[v] \in Jobs
      BY <1>9 DEF Republish, TokenTypes
    <3> QED BY <1>9, <3>1, CrawlAssumption DEF Republish, Retries, Jobs
  <2>2. Load' <= Capacity
    BY <1>9, <2>1, PutFits DEF Republish, RestTypes
  <2> QED BY <1>9, <2>2 DEF Republish, Forget, enqueueVars, RestTypes
<1>10. UNCHANGED vars => RestTypes'
  BY <1>1 DEF vars, enqueueVars, visitorVars, RestTypes
<1>11. Producers \subseteq Enqueuers /\ Visitors \subseteq Enqueuers
  BY DEF Enqueuers
<1> QED BY <1>2, <1>3, <1>4, <1>5, <1>6, <1>7, <1>8, <1>9, <1>10, <1>11
        DEF Next, ProducerStep, VisitorStep, EnqueueStep, Follow

LEMMA InitRestTypes == Init => RestTypes
<1> SUFFICES ASSUME Init PROVE RestTypes
  OBVIOUS
<1>1. Load = 0
  <2>1. waiting \in [Jobs -> Int] /\ \A j \in Jobs : waiting[j] = 0
    BY DEF Init
  <2> QED BY <2>1, LoadIs, JobsFinite, SumZero
<1> QED BY <1>1, CrawlAssumption DEF Init, RestTypes

LEMMA StepTyped == ASSUME FinishInv, OnceInv, RestTypes, [Next]_vars PROVE Typed'
BY StepFinish, StepRestTypes DEF FinishInv, Typed

\* The queue never holds more than it has room for, and whoever is in the
\* middle of enqueueing or processing knows what (run.go:112-145, visitor.go).
THEOREM TypeCorrect == Spec => []TypeOK
<1>1. FinishInv /\ OnceInv /\ RestTypes /\ [Next]_vars => FinishInv' /\ OnceInv' /\ RestTypes'
  BY StepFinish, StepRestTypes DEF FinishInv
<1>2. FinishInv /\ RestTypes => TypeOK
  BY TypeIs DEF FinishInv, Typed
<1> QED BY <1>1, <1>2, InitOnce, InitFinish, InitRestTypes, PTL DEF Spec


-----------------------------------------------------------------------------
(***************************************************************************)
(* What the messages of a URL may still cost its host: each as many visits *)
(* as it may be tried, less the one its visitor has made.                  *)
(***************************************************************************)
Weight(m) == MaxJobRetries + 1 - m.retries
Due(m, n, u) == IF m # None /\ m.url = u THEN Weight(m) - n ELSE 0
DueOf(w, j, u) == IF j.url = u THEN w[j] * Weight(j) ELSE 0
Queued(w, u) == SumOver([j \in Jobs |-> DueOf(w, j, u)], Jobs)
Carried(f, n, u) == SumOver([v \in Visitors |-> Due(f[v], n[v], u)], Visitors)

Unvisited == [v \in Visitors |-> 0]
VisitsMade == [v \in Visitors |-> IF vpc[v] \in {"begin", "visit"} THEN 0 ELSE 1]
Credit(u) == Queued(waiting, u) + Carried(hand, Unvisited, u) + Carried(job, VisitsMade, u)

RetriesLimited ==
    /\ \A j \in Jobs : waiting[j] > 0 => j.retries <= MaxJobRetries
    /\ \A v \in Visitors : /\ hand[v] # None => hand[v].retries <= MaxJobRetries
                           /\ job[v] # None => job[v].retries <= MaxJobRetries

PaidFor(u) == visits[u] + Credit(u) <= publications[u] * (MaxJobRetries + 1)

CreditInv == RetriesLimited /\ \A u \in URLs : PaidFor(u)

LEMMA WeightNat == ASSUME NEW j \in Jobs PROVE Weight(j) \in Nat /\ (j.retries <= MaxJobRetries => Weight(j) >= 1)
BY CrawlAssumption DEF Weight, Jobs

LEMMA TermNat ==
  ASSUME NEW a \in Nat, NEW b \in Nat PROVE a * b \in Nat
OBVIOUS

LEMMA DueOfNat == ASSUME NEW u, NEW w \in [Jobs -> Nat], NEW j \in Jobs PROVE DueOf(w, j, u) \in Nat
BY WeightNat, TermNat DEF DueOf

LEMMA DueInt == ASSUME NEW u, NEW m \in Jobs \cup {None}, NEW n \in {0, 1} PROVE Due(m, n, u) \in Int
BY WeightNat DEF Due

\* What waits is worth a natural number, and what one job's messages are
\* worth changes with their number.
LEMMA QueuedNat == ASSUME NEW u, NEW w \in [Jobs -> Nat] PROVE Queued(w, u) \in Int /\ Queued(w, u) >= 0
<1> DEFINE f == [j \in Jobs |-> DueOf(w, j, u)]
<1>1. f \in [Jobs -> Int] /\ \A j \in Jobs : f[j] >= 0
  BY DueOfNat
<1> HIDE DEF f
<1>2. SumOver(f, Jobs) \in Int /\ SumOver(f, Jobs) >= 0
  BY <1>1, JobsFinite, SumInt
<1> QED BY <1>2 DEF f, Queued

LEMMA QueuedChange ==
  ASSUME NEW u, NEW w \in [Jobs -> Nat], NEW x \in [Jobs -> Nat], NEW j \in Jobs,
         \A k \in Jobs : k # j => x[k] = w[k]
  PROVE  Queued(x, u) = Queued(w, u) + DueOf(x, j, u) - DueOf(w, j, u)
<1> DEFINE f == [k \in Jobs |-> DueOf(w, k, u)]
           h == [k \in Jobs |-> DueOf(x, k, u)]
<1>1. f \in [Jobs -> Int] /\ h \in [Jobs -> Int]
  BY DueOfNat
<1>2. \A k \in Jobs : k # j => h[k] = f[k]
  BY DEF DueOf
<1>3. f[j] = DueOf(w, j, u) /\ h[j] = DueOf(x, j, u)
  OBVIOUS
<1>4. Queued(w, u) = SumOver(f, Jobs) /\ Queued(x, u) = SumOver(h, Jobs)
  BY DEF Queued
<1> HIDE DEF f, h
<1>5. SumOver(h, Jobs) = SumOver(f, Jobs) + h[j] - f[j]
  BY <1>1, <1>2, JobsFinite, SumChange
<1> QED BY <1>3, <1>4, <1>5

LEMMA QueuedMore ==
  ASSUME NEW u, NEW w \in [Jobs -> Nat], NEW j \in Jobs, NEW d \in {-1, 0, 1},
         NEW x \in [Jobs -> Nat], x[j] = w[j] + d, \A k \in Jobs : k # j => x[k] = w[k]
  PROVE  Queued(x, u) = Queued(w, u) + IF j.url = u THEN d * Weight(j) ELSE 0
<1>1. Queued(x, u) = Queued(w, u) + DueOf(x, j, u) - DueOf(w, j, u)
  BY QueuedChange
<1>2. Weight(j) \in Nat /\ w[j] \in Nat /\ Queued(w, u) \in Int
  BY WeightNat, QueuedNat
<1> DEFINE a == w[j]
           b == Weight(j)
<1>3. a \in Nat /\ b \in Nat
  BY <1>2
<1> HIDE DEF a, b
<1>4. (a + d) * b = a * b + d * b /\ a * b \in Int /\ d * b \in Int
  BY <1>3
<1>5. CASE j.url = u
  <2>1. DueOf(x, j, u) = (a + d) * b /\ DueOf(w, j, u) = a * b
    BY <1>5 DEF DueOf, a, b
  <2> QED BY <1>1, <1>2, <1>4, <1>5, <2>1 DEF b
<1>6. CASE j.url # u
  <2>1. DueOf(x, j, u) = 0 /\ DueOf(w, j, u) = 0
    BY <1>6 DEF DueOf
  <2> QED BY <1>1, <1>2, <1>6, <2>1
<1> QED BY <1>5, <1>6

LEMMA CarriedInt ==
  ASSUME NEW u, NEW f \in [Visitors -> Jobs \cup {None}], NEW n \in [Visitors -> {0, 1}]
  PROVE  /\ Carried(f, n, u) \in Int
         /\ (\A v \in Visitors : f[v] # None => f[v].retries <= MaxJobRetries) => Carried(f, n, u) >= 0
<1> DEFINE h == [v \in Visitors |-> Due(f[v], n[v], u)]
<1>1. h \in [Visitors -> Int]
  BY DueInt
<1>2. ASSUME \A v \in Visitors : f[v] # None => f[v].retries <= MaxJobRetries PROVE \A v \in Visitors : h[v] >= 0
  BY <1>2, WeightNat DEF Due
<1> HIDE DEF h
<1>3. SumOver(h, Visitors) \in Int /\ ((\A v \in Visitors : h[v] >= 0) => SumOver(h, Visitors) >= 0)
  BY <1>1, CrawlAssumption, SumInt
<1> QED BY <1>2, <1>3 DEF h, Carried

LEMMA CarriedChange ==
  ASSUME NEW u, NEW f \in [Visitors -> Jobs \cup {None}], NEW n \in [Visitors -> {0, 1}],
         NEW g \in [Visitors -> Jobs \cup {None}], NEW m \in [Visitors -> {0, 1}],
         NEW v \in Visitors, \A w \in Visitors : w # v => g[w] = f[w] /\ m[w] = n[w]
  PROVE  Carried(g, m, u) = Carried(f, n, u) + Due(g[v], m[v], u) - Due(f[v], n[v], u)
<1> DEFINE a == [w \in Visitors |-> Due(f[w], n[w], u)]
           b == [w \in Visitors |-> Due(g[w], m[w], u)]
<1>1. a \in [Visitors -> Int] /\ b \in [Visitors -> Int]
  BY DueInt
<1>2. \A w \in Visitors : w # v => b[w] = a[w]
  OBVIOUS
<1>3. a[v] = Due(f[v], n[v], u) /\ b[v] = Due(g[v], m[v], u)
  OBVIOUS
<1>4. Carried(f, n, u) = SumOver(a, Visitors) /\ Carried(g, m, u) = SumOver(b, Visitors)
  BY DEF Carried
<1> HIDE DEF a, b
<1>5. SumOver(b, Visitors) = SumOver(a, Visitors) + b[v] - a[v]
  BY <1>1, <1>2, CrawlAssumption, SumChange
<1> QED BY <1>3, <1>4, <1>5

LEMMA MadeTypes == Unvisited \in [Visitors -> {0, 1}] /\ VisitsMade \in [Visitors -> {0, 1}]
BY DEF Unvisited, VisitsMade

LEMMA MadeTypesNext == VisitsMade' \in [Visitors -> {0, 1}]
BY DEF VisitsMade

LEMMA CreditNext ==
  ASSUME NEW u \in URLs
  PROVE  Credit(u)' = Queued(waiting', u) + Carried(hand', Unvisited, u) + Carried(job', VisitsMade', u)
BY DEF Credit, Queued, Carried, DueOf, Due, Weight, SumOver, Pick, Unvisited, VisitsMade

LEMMA CreditInt ==
  ASSUME TokenTypes, NEW u \in URLs PROVE Credit(u) \in Int /\ (RetriesLimited => Credit(u) >= 0)
<1>1. Queued(waiting, u) \in Int /\ Queued(waiting, u) >= 0
  BY QueuedNat DEF TokenTypes
<1>2. Carried(hand, Unvisited, u) \in Int /\ (RetriesLimited => Carried(hand, Unvisited, u) >= 0)
  BY CarriedInt, MadeTypes DEF TokenTypes, RetriesLimited
<1>3. Carried(job, VisitsMade, u) \in Int /\ (RetriesLimited => Carried(job, VisitsMade, u) >= 0)
  BY CarriedInt, MadeTypes DEF TokenTypes, RetriesLimited
<1> QED BY <1>1, <1>2, <1>3 DEF Credit

\* What a step of one visitor makes of the credit.
LEMMA CreditChange ==
  ASSUME TokenTypes, TokenTypes', NEW u \in URLs, NEW v \in Visitors,
         \A w \in Visitors : w # v => hand'[w] = hand[w] /\ job'[w] = job[w] /\ vpc'[w] = vpc[w]
  PROVE  Credit(u)' = Credit(u) + (Queued(waiting', u) - Queued(waiting, u))
                      + (Due(hand'[v], 0, u) - Due(hand[v], 0, u))
                      + (Due(job'[v], VisitsMade'[v], u) - Due(job[v], VisitsMade[v], u))
<1>1. /\ hand \in [Visitors -> Jobs \cup {None}] /\ hand' \in [Visitors -> Jobs \cup {None}]
      /\ job \in [Visitors -> Jobs \cup {None}] /\ job' \in [Visitors -> Jobs \cup {None}]
      /\ waiting \in [Jobs -> Nat] /\ waiting' \in [Jobs -> Nat]
  BY DEF TokenTypes
<1>2. \A w \in Visitors : w # v => VisitsMade'[w] = VisitsMade[w]
  BY DEF VisitsMade
<1>3. Carried(hand', Unvisited, u) = Carried(hand, Unvisited, u) + Due(hand'[v], 0, u) - Due(hand[v], 0, u)
  <2>1. Carried(hand', Unvisited, u)
          = Carried(hand, Unvisited, u) + Due(hand'[v], Unvisited[v], u) - Due(hand[v], Unvisited[v], u)
    BY <1>1, MadeTypes, CarriedChange
  <2>2. Unvisited[v] = 0
    BY DEF Unvisited
  <2> QED BY <2>1, <2>2
<1>4. Carried(job', VisitsMade', u)
        = Carried(job, VisitsMade, u) + Due(job'[v], VisitsMade'[v], u) - Due(job[v], VisitsMade[v], u)
  BY <1>1, <1>2, MadeTypes, MadeTypesNext, CarriedChange
<1>5. /\ Queued(waiting, u) \in Int /\ Queued(waiting', u) \in Int
      /\ Carried(hand, Unvisited, u) \in Int /\ Carried(job, VisitsMade, u) \in Int
  BY <1>1, QueuedNat, CarriedInt, MadeTypes
<1>6. VisitsMade[v] \in {0, 1} /\ VisitsMade'[v] \in {0, 1}
  BY MadeTypes, MadeTypesNext
<1>7. /\ Due(hand[v], 0, u) \in Int /\ Due(hand'[v], 0, u) \in Int
      /\ Due(job[v], VisitsMade[v], u) \in Int /\ Due(job'[v], VisitsMade'[v], u) \in Int
  <2>1. hand[v] \in Jobs \cup {None} /\ hand'[v] \in Jobs \cup {None} /\ job[v] \in Jobs \cup {None}
        /\ job'[v] \in Jobs \cup {None}
    BY <1>1
  <2> QED BY <1>6, <2>1, DueInt
<1> QED BY <1>3, <1>4, <1>5, <1>7, CreditNext DEF Credit

\* Steps that move no message, and make no visit.
LEMMA CreditSame ==
  ASSUME TokenTypes, NEW u \in URLs, UNCHANGED <<waiting, hand, job>>, VisitsMade' = VisitsMade
  PROVE  Credit(u)' = Credit(u)
BY CreditNext DEF Credit

\* What PaidFor compares are integers.
LEMMA PaidInt ==
  ASSUME Typed, NEW u \in URLs
  PROVE  visits[u] \in Nat /\ Credit(u) \in Int /\ publications[u] * (MaxJobRetries + 1) \in Nat
<1>1. visits[u] \in Nat /\ publications[u] \in Nat
  BY DEF Typed, EnqueueTypes, RestTypes
<1>2. MaxJobRetries + 1 \in Nat
  BY CrawlAssumption
<1> QED BY <1>1, <1>2, TermNat, CreditInt DEF Typed

LEMMA PaidLess ==
  ASSUME Typed, Typed', NEW u \in URLs, PaidFor(u), publications' = publications,
         visits'[u] + Credit(u)' <= visits[u] + Credit(u)
  PROVE  PaidFor(u)'
<1>1. Credit(u)' \in Int
  <2>1. TokenTypes' => Credit(u)' \in Int
    BY CreditNext, QueuedNat, CarriedInt, MadeTypes, MadeTypesNext DEF TokenTypes
  <2> QED BY <2>1 DEF Typed
<1>2. visits'[u] \in Nat
  BY DEF Typed, RestTypes
<1> DEFINE p == publications[u] * (MaxJobRetries + 1)
<1>3. p \in Nat /\ p = publications'[u] * (MaxJobRetries + 1)
  BY PaidInt
<1>4. visits[u] + Credit(u) <= p
  BY DEF PaidFor
<1> HIDE DEF p
<1>5. visits'[u] + Credit(u)' <= p
  BY <1>1, <1>2, <1>3, <1>4, PaidInt
<1> QED BY <1>3, <1>5 DEF PaidFor

LEMMA DueNone == ASSUME NEW n, NEW u PROVE Due(None, n, u) = 0
BY DEF Due

LEMMA DueIs ==
  ASSUME NEW m \in Jobs, NEW n \in {0, 1}, NEW u
  PROVE  Due(m, n, u) = (IF m.url = u THEN Weight(m) - n ELSE 0) /\ Due(m, n, u) \in Int /\ Weight(m) \in Nat
<1>1. m # None
  BY CrawlAssumption
<1> QED BY <1>1, WeightNat, DueInt DEF Due

LEMMA QueuedSame == ASSUME UNCHANGED waiting, NEW u PROVE Queued(waiting', u) = Queued(waiting, u)
OBVIOUS

\* What a message more in the queue costs at most.
LEMMA PutCosts ==
  ASSUME TokenTypes, NEW j \in Jobs, waiting' = Put(j), NEW u, j.retries <= MaxJobRetries
  PROVE  Queued(waiting', u) <= Queued(waiting, u) + IF j.url = u THEN Weight(j) ELSE 0
<1>1. waiting \in [Jobs -> Nat] /\ waiting' \in [Jobs -> Nat] /\ Weight(j) \in Nat /\ Queued(waiting, u) \in Int
  BY PutIs, WeightNat, QueuedNat DEF TokenTypes
<1>2. CASE Load < Capacity
  <2>1. waiting'[j] = waiting[j] + 1 /\ \A k \in Jobs : k # j => waiting'[k] = waiting[k]
    BY <1>1, <1>2 DEF Put
  <2>2. Queued(waiting', u) = Queued(waiting, u) + IF j.url = u THEN 1 * Weight(j) ELSE 0
    <3>1. 1 \in {-1, 0, 1}
      OBVIOUS
    <3> QED BY <1>1, <2>1, <3>1, QueuedMore
  <2> QED BY <1>1, <2>2
<1>3. CASE ~(Load < Capacity)
  <2>1. waiting' = waiting
    BY <1>3 DEF Put
  <2>2. Queued(waiting', u) = Queued(waiting, u)
    BY <2>1
  <2> QED BY <1>1, <2>2
<1> QED BY <1>2, <1>3

-----------------------------------------------------------------------------
\* A publication buys as many visits as its message may cost.
LEMMA PublishPaid ==
  ASSUME Typed, Typed', NEW e \in Enqueuers, Publish(e), NEW u \in URLs, PaidFor(u) PROVE PaidFor(u)'
<1> DEFINE i == [url |-> eurl[e], retries |-> 0]
           R == MaxJobRetries + 1
           p == publications[u] * R
<1>1. eurl[e] \in URLs /\ i \in Jobs /\ i.url = eurl[e] /\ i.retries = 0 /\ Weight(i) = R
  BY CrawlAssumption DEF Publish, Typed, EnqueueTypes, Jobs, Weight
<1>2. Queued(waiting', u) <= Queued(waiting, u) + IF eurl[e] = u THEN R ELSE 0
  BY <1>1, PutCosts, CrawlAssumption DEF Publish, Typed
<1>3. UNCHANGED <<hand, job, vpc, visits>>
  BY DEF Publish, visitorVars
<1>4. Credit(u)' = Queued(waiting', u) + Carried(hand, Unvisited, u) + Carried(job, VisitsMade, u)
  <2>1. VisitsMade' = VisitsMade
    BY <1>3 DEF VisitsMade
  <2> QED BY <1>3, <2>1, CreditNext
<1>5. /\ Queued(waiting, u) \in Int /\ Queued(waiting', u) \in Int
      /\ Carried(hand, Unvisited, u) \in Int /\ Carried(job, VisitsMade, u) \in Int
  BY QueuedNat, CarriedInt, MadeTypes DEF Typed, TokenTypes
<1>6. R \in Nat
  BY CrawlAssumption
<1>7. Credit(u)' <= Credit(u) + (IF eurl[e] = u THEN R ELSE 0) /\ Credit(u) \in Int /\ Credit(u)' \in Int
  BY <1>2, <1>4, <1>5, <1>6 DEF Credit
<1>8. publications'[u] * R = p + (IF eurl[e] = u THEN R ELSE 0) /\ p \in Nat
  <2>1. publications'[u] = IF eurl[e] = u THEN publications[u] + 1 ELSE publications[u]
    BY DEF Publish, Typed, EnqueueTypes
  <2>2. publications[u] \in Nat
    BY DEF Typed, EnqueueTypes
  <2> HIDE DEF R
  <2>3. publications[u] * R \in Nat /\ (publications[u] + 1) * R = publications[u] * R + R
    BY <1>6, <2>2
  <2> QED BY <1>6, <2>1, <2>3
<1>9. visits[u] + Credit(u) <= p /\ visits[u] \in Nat
  BY PaidInt DEF PaidFor
<1> HIDE DEF p, R
<1>10. visits'[u] + Credit(u)' <= publications'[u] * R
  BY <1>3, <1>6, <1>7, <1>8, <1>9
<1> QED BY <1>10 DEF PaidFor, R

LEMMA TakePaid ==
  ASSUME Typed, Typed', NEW v \in Visitors, Take(v), NEW u \in URLs, PaidFor(u) PROVE PaidFor(u)'
<1> USE DEF Typed
<1>1. PICK j \in Jobs : /\ waiting[j] > 0
                        /\ waiting' = [waiting EXCEPT ![j] = @ - 1]
                        /\ hand' = [hand EXCEPT ![v] = j]
  BY DEF Take
<1>2. waiting \in [Jobs -> Nat] /\ waiting' \in [Jobs -> Nat] /\ hand \in [Visitors -> Jobs \cup {None}]
  BY DEF TokenTypes
<1>3. Queued(waiting', u) = Queued(waiting, u) + IF j.url = u THEN (-1) * Weight(j) ELSE 0
  <2>1. waiting'[j] = waiting[j] + (-1) /\ \A k \in Jobs : k # j => waiting'[k] = waiting[k]
    BY <1>1, <1>2
  <2>2. -1 \in {-1, 0, 1}
    OBVIOUS
  <2> QED BY <1>2, <2>1, <2>2, QueuedMore
<1>4. /\ hand'[v] = j /\ hand[v] = None /\ job' = job /\ vpc' = vpc
      /\ \A w \in Visitors : w # v => hand'[w] = hand[w]
  BY <1>1, <1>2 DEF Take
<1>5. VisitsMade' = VisitsMade
  BY <1>4 DEF VisitsMade
<1>6. Credit(u)' = Credit(u) + (Queued(waiting', u) - Queued(waiting, u))
                   + (Due(j, 0, u) - Due(None, 0, u))
                   + (Due(job[v], VisitsMade[v], u) - Due(job[v], VisitsMade[v], u))
  BY <1>4, <1>5, CreditChange
<1>7. Due(job[v], VisitsMade[v], u) \in Int
  <2>1. job[v] \in Jobs \cup {None} /\ VisitsMade[v] \in {0, 1}
    BY MadeTypes DEF TokenTypes
  <2> QED BY <2>1, DueInt
<1>8. Queued(waiting, u) \in Int /\ Credit(u) \in Int /\ Weight(j) \in Nat
  BY <1>2, QueuedNat, CreditInt, WeightNat
<1>9. Due(j, 0, u) = IF j.url = u THEN Weight(j) - 0 ELSE 0
  BY DueIs
<1>10. Credit(u)' = Credit(u)
  BY <1>3, <1>6, <1>7, <1>8, <1>9, DueNone
<1>11. visits' = visits /\ publications' = publications
  BY DEF Take, enqueueVars
<1>12. visits[u] + Credit(u) <= visits[u] + Credit(u)
  BY <1>8 DEF RestTypes
<1> QED BY <1>10, <1>11, <1>12, PaidLess

LEMMA ReceivePaid ==
  ASSUME Typed, Typed', RetriesLimited, NEW v \in Visitors, Receive(v), NEW u \in URLs, PaidFor(u)
  PROVE  PaidFor(u)'
<1> USE DEF Typed
<1>1. /\ hand[v] \in Jobs /\ job'[v] = hand[v] /\ hand'[v] = None /\ vpc'[v] = "begin" /\ vpc[v] = "idle"
      /\ \A w \in Visitors : w # v => hand'[w] = hand[w] /\ job'[w] = job[w] /\ vpc'[w] = vpc[w]
      /\ UNCHANGED <<waiting, visits, publications>>
  BY DEF Receive, TokenTypes, enqueueVars
<1>2. VisitsMade[v] = 1 /\ VisitsMade'[v] = 0
  BY <1>1 DEF VisitsMade
<1>3. Credit(u)' = Credit(u) + (Queued(waiting, u) - Queued(waiting, u))
                   + (Due(None, 0, u) - Due(hand[v], 0, u))
                   + (Due(hand[v], 0, u) - Due(job[v], 1, u))
  BY <1>1, <1>2, CreditChange
<1>4. Due(hand[v], 0, u) \in Int /\ Queued(waiting, u) \in Int /\ Credit(u) \in Int /\ visits[u] \in Nat
  BY <1>1, DueIs, QueuedNat, CreditInt DEF TokenTypes, RestTypes
<1>5. Due(job[v], 1, u) \in Int /\ Due(job[v], 1, u) >= 0
  <2>1. CASE job[v] = None
    BY <2>1, DueNone
  <2>2. CASE job[v] # None
    <3>1. job[v] \in Jobs /\ job[v].retries <= MaxJobRetries
      BY <2>2 DEF TokenTypes, RetriesLimited
    <3>2. Due(job[v], 1, u) = (IF job[v].url = u THEN Weight(job[v]) - 1 ELSE 0) /\ Weight(job[v]) \in Nat
      BY <3>1, DueIs
    <3> QED BY <3>1, <3>2, WeightNat
  <2> QED BY <2>1, <2>2
<1>6. visits'[u] + Credit(u)' <= visits[u] + Credit(u)
  BY <1>1, <1>3, <1>4, <1>5, DueNone
<1> QED BY <1>1, <1>6, PaidLess

\* A visit is paid for from its job's credit.
LEMMA VisitPaid ==
  ASSUME Typed, Typed', NEW v \in Visitors, NEW o \in Outcomes, Visit(v, o), NEW u \in URLs, PaidFor(u)
  PROVE  PaidFor(u)'
<1> USE DEF Typed
<1>1. /\ job[v] \in Jobs /\ vpc[v] = "visit" /\ vpc'[v] \in {"links", "visited"} /\ UNCHANGED <<waiting, hand, job, publications>>
      /\ \A w \in Visitors : w # v => vpc'[w] = vpc[w]
  BY DEF Visit, TokenTypes, enqueueVars
<1>2. VisitsMade[v] = 0 /\ VisitsMade'[v] = 1
  BY <1>1 DEF VisitsMade
<1>3. Credit(u)' = Credit(u) + (Queued(waiting, u) - Queued(waiting, u))
                   + (Due(hand[v], 0, u) - Due(hand[v], 0, u))
                   + (Due(job[v], 1, u) - Due(job[v], 0, u))
  BY <1>1, <1>2, CreditChange
<1>4. Due(hand[v], 0, u) \in Int /\ Queued(waiting, u) \in Int /\ Credit(u) \in Int /\ visits[u] \in Nat
  <2>1. hand[v] \in Jobs \cup {None}
    BY DEF TokenTypes
  <2> QED BY <2>1, DueInt, QueuedNat, CreditInt DEF TokenTypes, RestTypes
<1>5. /\ Due(job[v], 1, u) = (IF job[v].url = u THEN Weight(job[v]) - 1 ELSE 0)
      /\ Due(job[v], 0, u) = (IF job[v].url = u THEN Weight(job[v]) - 0 ELSE 0)
      /\ Weight(job[v]) \in Nat
  BY <1>1, DueIs
<1>6. visits'[u] = IF job[v].url = u THEN visits[u] + 1 ELSE visits[u]
  BY DEF Visit, RestTypes
<1>7. visits'[u] + Credit(u)' <= visits[u] + Credit(u)
  BY <1>3, <1>4, <1>5, <1>6
<1> QED BY <1>1, <1>7, PaidLess

\* A job that is settled gives its credit up.
LEMMA SettlePaid ==
  ASSUME Typed, Typed', RetriesLimited, NEW v \in Visitors, Settle(v), NEW u \in URLs, PaidFor(u)
  PROVE  PaidFor(u)'
<1> USE DEF Typed
<1>1. /\ job[v] \in Jobs /\ job[v] # None /\ job'[v] = None /\ vpc[v] = "settle"
      /\ \A w \in Visitors : w # v => job'[w] = job[w] /\ vpc'[w] = vpc[w]
      /\ UNCHANGED <<waiting, hand, publications, visits>>
  BY DEF Settle, Forget, TokenTypes, enqueueVars
<1>2. VisitsMade[v] = 1
  BY <1>1 DEF VisitsMade
<1>3. Credit(u)' = Credit(u) + (Queued(waiting, u) - Queued(waiting, u))
                   + (Due(hand[v], 0, u) - Due(hand[v], 0, u))
                   + (Due(None, VisitsMade'[v], u) - Due(job[v], 1, u))
  BY <1>1, <1>2, CreditChange
<1>4. Due(hand[v], 0, u) \in Int /\ Queued(waiting, u) \in Int /\ Credit(u) \in Int /\ visits[u] \in Nat
  <2>1. hand[v] \in Jobs \cup {None}
    BY DEF TokenTypes
  <2> QED BY <2>1, DueInt, QueuedNat, CreditInt DEF TokenTypes, RestTypes
<1>5. Due(job[v], 1, u) = (IF job[v].url = u THEN Weight(job[v]) - 1 ELSE 0) /\ Weight(job[v]) \in Nat
  BY <1>1, DueIs
<1>6. Weight(job[v]) >= 1
  BY <1>1, WeightNat DEF RetriesLimited
<1>7. visits'[u] + Credit(u)' <= visits[u] + Credit(u)
  BY <1>1, <1>3, <1>4, <1>5, <1>6, DueNone
<1> QED BY <1>1, <1>7, PaidLess

\* A retry takes over what its job has left.
LEMMA RepublishPaid ==
  ASSUME Typed, Typed', NEW v \in Visitors, Republish(v), NEW u \in URLs, PaidFor(u) PROVE PaidFor(u)'
<1> USE DEF Typed
<1> DEFINE i == [job[v] EXCEPT !.retries = @ + 1]
<1>1. /\ job[v] \in Jobs /\ job'[v] = None /\ vpc[v] = "settle" /\ waiting' = Put(i)
      /\ \A w \in Visitors : w # v => job'[w] = job[w] /\ vpc'[w] = vpc[w]
      /\ UNCHANGED <<hand, publications, visits>>
  BY DEF Republish, Forget, TokenTypes, enqueueVars
<1>2. i \in Jobs /\ i.url = job[v].url /\ i.retries <= MaxJobRetries /\ Weight(i) = Weight(job[v]) - 1
  BY <1>1, CrawlAssumption DEF Republish, Retries, Jobs, Weight
<1>3. VisitsMade[v] = 1
  BY <1>1 DEF VisitsMade
<1>4. Credit(u)' = Credit(u) + (Queued(waiting', u) - Queued(waiting, u))
                   + (Due(hand[v], 0, u) - Due(hand[v], 0, u))
                   + (Due(None, VisitsMade'[v], u) - Due(job[v], 1, u))
  BY <1>1, <1>3, CreditChange
<1>5. /\ Due(hand[v], 0, u) \in Int /\ Credit(u) \in Int /\ visits[u] \in Nat
      /\ Queued(waiting, u) \in Int /\ Queued(waiting', u) \in Int
  <2>1. hand[v] \in Jobs \cup {None}
    BY DEF TokenTypes
  <2> QED BY <2>1, DueInt, QueuedNat, CreditInt DEF TokenTypes, RestTypes
<1>6. Due(job[v], 1, u) = (IF job[v].url = u THEN Weight(job[v]) - 1 ELSE 0) /\ Weight(job[v]) \in Nat
  BY <1>1, DueIs
<1>7. Queued(waiting', u) <= Queued(waiting, u) + IF i.url = u THEN Weight(i) ELSE 0
  <2> HIDE DEF i
  <2> QED BY <1>1, <1>2, PutCosts
<1>8. visits'[u] + Credit(u)' <= visits[u] + Credit(u)
  <2> HIDE DEF i
  <2> QED BY <1>1, <1>2, <1>4, <1>5, <1>6, <1>7, DueNone
<1> QED BY <1>1, <1>8, PaidLess

LEMMA ElsePaid ==
  ASSUME Typed, Typed', UNCHANGED <<waiting, hand, job, visits, publications>>, VisitsMade' = VisitsMade,
         NEW u \in URLs, PaidFor(u)
  PROVE  PaidFor(u)'
<1>1. Credit(u)' = Credit(u) /\ visits' = visits
  BY CreditSame DEF Typed
<1>2. visits'[u] + Credit(u)' <= visits[u] + Credit(u)
  BY <1>1, PaidInt
<1> QED BY <1>2, PaidLess

LEMMA StepPaid ==
  ASSUME Typed, Typed', RetriesLimited, [Next]_vars, NEW u \in URLs, PaidFor(u) PROVE PaidFor(u)'
<1>1. ASSUME NEW e \in Enqueuers, Saw(e) \/ ReportQueued(e) \/ \E x \in URLs : Enqueue(e, x) \/ Skip(e, x)
      PROVE PaidFor(u)'
  BY <1>1, ElsePaid DEF Saw, ReportQueued, Enqueue, Skip, visitorVars, VisitsMade
<1>2. ASSUME NEW e \in Enqueuers, EnqueueStep(e) PROVE PaidFor(u)'
  BY <1>1, <1>2, PublishPaid DEF EnqueueStep
<1>3. ASSUME NEW v \in Visitors, ReportCrawling(v) \/ EndLinks(v) \/ ReportCrawled(v) PROVE PaidFor(u)'
  <2>1. VisitsMade' = VisitsMade
    <3>1. \A w \in Visitors : vpc'[w] \in {"begin", "visit"} <=> vpc[w] \in {"begin", "visit"}
      BY <1>3 DEF ReportCrawling, EndLinks, ReportCrawled, Typed, TokenTypes
    <3> QED BY <3>1 DEF VisitsMade
  <2> QED BY <1>3, <2>1, ElsePaid DEF ReportCrawling, EndLinks, ReportCrawled, enqueueVars
<1>4. ASSUME NEW v \in Visitors,
             Take(v) \/ Receive(v) \/ Settle(v) \/ Republish(v) \/ \E o \in Outcomes : Visit(v, o)
      PROVE  PaidFor(u)'
  BY <1>4, TakePaid, ReceivePaid, SettlePaid, RepublishPaid, VisitPaid
<1>5. UNCHANGED vars => PaidFor(u)'
  BY ElsePaid DEF vars, enqueueVars, visitorVars, VisitsMade
<1>6. Producers \subseteq Enqueuers /\ Visitors \subseteq Enqueuers
  BY DEF Enqueuers
<1> QED BY <1>1, <1>2, <1>3, <1>4, <1>5, <1>6 DEF Next, ProducerStep, VisitorStep, Follow

-----------------------------------------------------------------------------
\* Only attemptRepublish makes a message with more retries, and not beyond
\* the limit.
LEMMA PutLimited ==
  ASSUME TokenTypes, NEW j \in Jobs, j.retries <= MaxJobRetries, waiting' = Put(j), RetriesLimited
  PROVE  \A k \in Jobs : waiting'[k] > 0 => k.retries <= MaxJobRetries
BY PutIs DEF RetriesLimited

LEMMA StepLimited == ASSUME Typed, RetriesLimited, [Next]_vars PROVE RetriesLimited'
<1> USE DEF Typed
<1>1. ASSUME NEW e \in Enqueuers, Publish(e) PROVE RetriesLimited'
  <2> DEFINE i == [url |-> eurl[e], retries |-> 0]
  <2>1. i \in Jobs /\ i.retries <= MaxJobRetries
    BY <1>1, CrawlAssumption DEF Publish, EnqueueTypes, Jobs
  <2>2. waiting' = Put(i) /\ UNCHANGED <<hand, job>>
    BY <1>1 DEF Publish, visitorVars
  <2> HIDE DEF i
  <2>3. \A k \in Jobs : waiting'[k] > 0 => k.retries <= MaxJobRetries
    BY <2>1, <2>2, PutLimited
  <2> QED BY <2>2, <2>3 DEF RetriesLimited
<1>2. ASSUME NEW e \in Enqueuers, Saw(e) \/ ReportQueued(e) \/ \E x \in URLs : Enqueue(e, x) \/ Skip(e, x)
      PROVE RetriesLimited'
  BY <1>2 DEF Saw, ReportQueued, Enqueue, Skip, visitorVars, RetriesLimited
<1>3. ASSUME NEW v \in Visitors, Take(v) PROVE RetriesLimited'
  <2>1. PICK j \in Jobs : /\ waiting[j] > 0
                          /\ waiting' = [waiting EXCEPT ![j] = @ - 1]
                          /\ hand' = [hand EXCEPT ![v] = j]
    BY <1>3 DEF Take
  <2>2. \A k \in Jobs : waiting'[k] > 0 => waiting[k] > 0
    BY <2>1 DEF TokenTypes
  <2>3. j.retries <= MaxJobRetries /\ job' = job
    BY <1>3, <2>1 DEF Take, RetriesLimited
  <2>4. \A w \in Visitors : hand'[w] = IF w = v THEN j ELSE hand[w]
    BY <2>1 DEF TokenTypes
  <2> QED BY <2>2, <2>3, <2>4 DEF RetriesLimited
<1>4. ASSUME NEW v \in Visitors, Receive(v) PROVE RetriesLimited'
  <2>1. \A w \in Visitors : /\ job'[w] = IF w = v THEN hand[v] ELSE job[w]
                            /\ hand'[w] = IF w = v THEN None ELSE hand[w]
    BY <1>4 DEF Receive, TokenTypes
  <2>2. hand[v] # None /\ waiting' = waiting
    BY <1>4 DEF Receive
  <2> QED BY <2>1, <2>2 DEF RetriesLimited
<1>5. ASSUME NEW v \in Visitors,
             ReportCrawling(v) \/ EndLinks(v) \/ ReportCrawled(v) \/ \E o \in Outcomes : Visit(v, o)
      PROVE RetriesLimited'
  BY <1>5 DEF ReportCrawling, EndLinks, ReportCrawled, Visit, RetriesLimited
<1>6. ASSUME NEW v \in Visitors, Settle(v) \/ Republish(v) PROVE RetriesLimited'
  <2>1. \A w \in Visitors : job'[w] = IF w = v THEN None ELSE job[w]
    BY <1>6 DEF Settle, Republish, Forget, TokenTypes
  <2>2. hand' = hand
    BY <1>6 DEF Settle, Republish
  <2>3. \A k \in Jobs : waiting'[k] > 0 => k.retries <= MaxJobRetries
    <3>1. CASE Settle(v)
      BY <3>1 DEF Settle, RetriesLimited
    <3>2. CASE Republish(v)
      <4> DEFINE i == [job[v] EXCEPT !.retries = @ + 1]
      <4>1. i \in Jobs /\ i.retries <= MaxJobRetries /\ waiting' = Put(i)
        BY <3>2, CrawlAssumption DEF Republish, Retries, TokenTypes, Jobs
      <4> HIDE DEF i
      <4> QED BY <4>1, PutLimited
    <3> QED BY <1>6, <3>1, <3>2
  <2> QED BY <2>1, <2>2, <2>3 DEF RetriesLimited
<1>7. UNCHANGED vars => RetriesLimited'
  BY DEF vars, visitorVars, RetriesLimited
<1>8. Producers \subseteq Enqueuers /\ Visitors \subseteq Enqueuers
  BY DEF Enqueuers
<1> QED BY <1>1, <1>2, <1>3, <1>4, <1>5, <1>6, <1>7, <1>8
        DEF Next, ProducerStep, VisitorStep, EnqueueStep, Follow

LEMMA InitCredit == Init => CreditInv
<1> SUFFICES ASSUME Init PROVE CreditInv
  OBVIOUS
<1>1. RetriesLimited
  BY DEF Init, RetriesLimited
<1>2. ASSUME NEW u \in URLs PROVE visits[u] + Credit(u) <= publications[u] * (MaxJobRetries + 1)
  <2> DEFINE f == [j \in Jobs |-> DueOf(waiting, j, u)]
             g == [v \in Visitors |-> Due(hand[v], Unvisited[v], u)]
             h == [v \in Visitors |-> Due(job[v], VisitsMade[v], u)]
  <2>1. f \in [Jobs -> Int] /\ \A j \in Jobs : f[j] = 0
    <3>1. \A j \in Jobs : DueOf(waiting, j, u) = 0
      BY WeightNat DEF Init, DueOf
    <3> QED BY <3>1
  <2>2. g \in [Visitors -> Int] /\ \A v \in Visitors : g[v] = 0
    BY DueNone DEF Init
  <2>3. h \in [Visitors -> Int] /\ \A v \in Visitors : h[v] = 0
    BY DueNone DEF Init
  <2>4. Credit(u) = SumOver(f, Jobs) + SumOver(g, Visitors) + SumOver(h, Visitors)
    BY DEF Credit, Queued, Carried
  <2> HIDE DEF f, g, h
  <2>5. SumOver(f, Jobs) = 0 /\ SumOver(g, Visitors) = 0 /\ SumOver(h, Visitors) = 0
    BY <2>1, <2>2, <2>3, JobsFinite, CrawlAssumption, SumZero
  <2>6. visits[u] = 0 /\ publications[u] = 0
    BY DEF Init
  <2> QED BY <2>4, <2>5, <2>6, CrawlAssumption
<1> QED BY <1>1, <1>2 DEF CreditInv, PaidFor

LEMMA StepCredit == ASSUME Typed, Typed', CreditInv, [Next]_vars PROVE CreditInv'
<1>1. RetriesLimited'
  BY StepLimited DEF CreditInv
<1>2. ASSUME NEW u \in URLs PROVE PaidFor(u)'
  BY StepPaid DEF CreditInv
<1> QED BY <1>1, <1>2 DEF CreditInv
LEMMA CreditBounds == ASSUME Typed, CreditInv PROVE BoundedVisits
<1> SUFFICES ASSUME NEW u \in URLs PROVE visits[u] <= publications[u] * (MaxJobRetries + 1)
  BY DEF BoundedVisits
<1> DEFINE p == publications[u] * (MaxJobRetries + 1)
<1>1. visits[u] \in Nat /\ Credit(u) \in Int /\ p \in Nat
  BY PaidInt
<1>2. Credit(u) >= 0
  BY CreditInt DEF CreditInv, Typed
<1>3. visits[u] + Credit(u) <= p
  BY DEF CreditInv, PaidFor
<1> HIDE DEF p
<1>4. visits[u] <= p
  BY <1>1, <1>2, <1>3
<1> QED BY <1>4 DEF p

\* However many copies of a URL are published, wait, are dropped by a full
\* queue, or are retried at the same time, its host gets at most MaxJobRetries
\* + 1 visits for each of them (visitor.go:26-29, :208-216).
THEOREM VisitsAreBounded == Spec => []BoundedVisits
<1> DEFINE Inv == FinishInv /\ OnceInv /\ RestTypes /\ CreditInv
<1>1. Inv => Typed
  BY DEF FinishInv, Typed
<1>2. Init => Inv
  BY InitOnce, InitFinish, InitRestTypes, InitCredit
<1>3. Inv /\ [Next]_vars => Inv'
  <2> SUFFICES ASSUME Inv, [Next]_vars PROVE Inv'
    OBVIOUS
  <2>1. FinishInv' /\ OnceInv' /\ RestTypes' /\ Typed'
    BY <1>1, StepFinish, StepTyped DEF Typed
  <2>2. CreditInv'
    BY <1>1, <2>1, StepCredit
  <2> QED BY <2>1, <2>2
<1>4. Inv => BoundedVisits
  BY <1>1, CreditBounds
<1> QED BY <1>2, <1>3, <1>4, PTL DEF Spec

-----------------------------------------------------------------------------
(***************************************************************************)
(* A queue with room for what may be published loses nothing: there are    *)
(* never more messages than publications, and of those no more than one of *)
(* each allowed URL by each enqueuer.                                      *)
(***************************************************************************)
One(m) == IF m # None THEN 1 ELSE 0
Occupied(f) == SumOver([v \in Visitors |-> One(f[v])], Visitors)
Total(p) == SumOver([u \in Allowed |-> p[u]], Allowed)
Messages == Load + Occupied(hand) + Occupied(job)

\* Who waits or has ended is through with its job.
IdleIsFree == \A v \in Visitors : vpc[v] \in {"idle", "dead"} => job[v] = None

AllowedOnly == \A e \in Enqueuers : epc[e] = "publish" => eurl[e] \in Allowed

AccountInv == IdleIsFree /\ AllowedOnly /\ Messages <= Total(publications)

\* If no term is more than c the sum is no more than so many times c.
LEMMA SumAtMost ==
  ASSUME NEW S, IsFiniteSet(S), NEW f \in [S -> Int], NEW c \in Nat, \A x \in S : f[x] <= c
  PROVE  SumOver(f, S) <= Cardinality(S) * c
<1>1. PICK g : SumsUp(g, f, S)
  BY SumExists
<1>2. SumOver(f, S) = g[S] /\ g \in [SUBSET S -> Int] /\ g[{}] = 0
  <2>1. SumOver(f, S) = g[S]
    BY <1>1, SumIs
  <2> QED BY <1>1, <2>1 DEF SumsUp
<1> DEFINE T == {s \in SUBSET S : ~(g[s] <= Cardinality(s) * c)}
<1> SUFFICES ASSUME T # {} PROVE FALSE
  BY <1>2
<1>3. PICK s \in T : \A x \in s : s \ {x} \notin T
  <2>1. T \subseteq SUBSET S
    OBVIOUS
  <2> HIDE DEF T
  <2> QED BY <2>1, Smallest
<1>4. s \in SUBSET S /\ ~(g[s] <= Cardinality(s) * c) /\ IsFiniteSet(s)
  BY <1>3, FS_Subset
<1>5. s # {}
  <2> SUFFICES ASSUME s = {} PROVE FALSE
    OBVIOUS
  <2>1. Cardinality(s) = 0 /\ g[s] = 0
    BY <1>2, FS_EmptySet
  <2>2. Cardinality(s) * c = 0
    BY <2>1
  <2> QED BY <1>4, <2>1, <2>2
<1>6. PICK x \in s : TRUE
  BY <1>5
<1> DEFINE n == Cardinality(s \ {x})
<1>7. n \in Nat /\ Cardinality(s) = n + 1
  <2>1. Cardinality(s \ {x}) = Cardinality(s) - 1 /\ Cardinality(s) \in Nat
    BY <1>4, <1>6, FS_RemoveElement, FS_CardinalityType
  <2>2. Cardinality(s \ {x}) \in Nat
    BY <1>4, FS_RemoveElement, FS_CardinalityType
  <2> QED BY <2>1, <2>2
<1>8. g[s \ {x}] <= n * c
  <2>1. s \ {x} \in SUBSET S /\ s \ {x} \notin T
    BY <1>3, <1>4, <1>6
  <2> QED BY <2>1
<1>9. g[s] = f[x] + g[s \ {x}] /\ g[s \ {x}] \in Int /\ f[x] \in Int /\ f[x] <= c
  BY <1>1, <1>2, <1>4, <1>6 DEF SumsUp
<1> HIDE DEF n, T
<1>10. n * c \in Nat /\ (n + 1) * c = n * c + c
  BY <1>7
<1>11. g[s] <= (n + 1) * c
  BY <1>8, <1>9, <1>10
<1> QED BY <1>4, <1>7, <1>11

LEMMA OneIs == ASSUME NEW m PROVE One(m) \in {0, 1} /\ (m # None => One(m) = 1)
BY DEF One

LEMMA NoneIsNoJob == None \notin Jobs /\ One(None) = 0 /\ \A j \in Jobs : One(j) = 1
BY CrawlAssumption DEF One

LEMMA OccupiedNat ==
  ASSUME NEW f PROVE Occupied(f) \in Int /\ Occupied(f) >= 0
<1> DEFINE a == [v \in Visitors |-> One(f[v])]
<1>1. a \in [Visitors -> Int] /\ \A v \in Visitors : a[v] >= 0
  BY OneIs
<1> HIDE DEF a
<1>2. SumOver(a, Visitors) \in Int /\ ((\A v \in Visitors : a[v] >= 0) => SumOver(a, Visitors) >= 0)
  BY <1>1, CrawlAssumption, SumInt
<1> QED BY <1>1, <1>2 DEF Occupied, a

LEMMA OccupiedChange ==
  ASSUME NEW f, NEW g, NEW v \in Visitors, \A w \in Visitors : w # v => g[w] = f[w]
  PROVE  Occupied(g) = Occupied(f) + One(g[v]) - One(f[v])
<1> DEFINE a == [w \in Visitors |-> One(f[w])]
           b == [w \in Visitors |-> One(g[w])]
<1>1. a \in [Visitors -> Int] /\ b \in [Visitors -> Int]
  BY OneIs
<1>2. \A w \in Visitors : w # v => b[w] = a[w]
  OBVIOUS
<1>3. a[v] = One(f[v]) /\ b[v] = One(g[v]) /\ Occupied(f) = SumOver(a, Visitors) /\ Occupied(g) = SumOver(b, Visitors)
  BY DEF Occupied
<1> HIDE DEF a, b
<1>4. SumOver(b, Visitors) = SumOver(a, Visitors) + b[v] - a[v]
  BY <1>1, <1>2, CrawlAssumption, SumChange
<1> QED BY <1>3, <1>4

\* A visitor with a job makes at least one.
LEMMA OccupiedBy ==
  ASSUME NEW f \in [Visitors -> Jobs \cup {None}], NEW v \in Visitors, f[v] # None PROVE Occupied(f) >= 1
<1> DEFINE g == [f EXCEPT ![v] = None]
<1>1. g[v] = None /\ \A w \in Visitors : w # v => g[w] = f[w]
  OBVIOUS
<1> HIDE DEF g
<1>2. Occupied(g) = Occupied(f) + One(g[v]) - One(f[v])
  BY <1>1, OccupiedChange
<1> QED BY <1>1, <1>2, OccupiedNat, OneIs, NoneIsNoJob

LEMMA MessagesNext == Messages' = Load' + Occupied(hand') + Occupied(job')
BY DEF Messages, Occupied, One, SumOver, Pick

LEMMA TotalInt == ASSUME NEW p \in [URLs -> Nat] PROVE Total(p) \in Int
<1> DEFINE a == [u \in Allowed |-> p[u]]
<1>1. a \in [Allowed -> Int] /\ IsFiniteSet(Allowed)
  BY CrawlAssumption, FS_Subset
<1> HIDE DEF a
<1>2. SumOver(a, Allowed) \in Int
  BY <1>1, SumInt
<1> QED BY <1>2 DEF Total, a

LEMMA TotalMore ==
  ASSUME NEW p \in [URLs -> Nat], NEW u \in Allowed PROVE Total([p EXCEPT ![u] = @ + 1]) = Total(p) + 1
<1> DEFINE q == [p EXCEPT ![u] = @ + 1]
           a == [x \in Allowed |-> p[x]]
           b == [x \in Allowed |-> q[x]]
<1>1. \A x \in URLs : q[x] = IF x = u THEN p[x] + 1 ELSE p[x]
  OBVIOUS
<1>2. IsFiniteSet(Allowed) /\ u \in URLs /\ \A x \in Allowed : x \in URLs
  BY CrawlAssumption, FS_Subset
<1> HIDE DEF q
<1>3. a \in [Allowed -> Int] /\ b \in [Allowed -> Int] /\ b[u] = a[u] + 1 /\ \A x \in Allowed : x # u => b[x] = a[x]
  BY <1>1, <1>2
<1>4. Total(p) = SumOver(a, Allowed) /\ Total(q) = SumOver(b, Allowed)
  BY DEF Total
<1> HIDE DEF a, b
<1>5. SumOver(b, Allowed) = SumOver(a, Allowed) + b[u] - a[u] /\ SumOver(a, Allowed) \in Int
  BY <1>2, <1>3, SumChange, SumInt
<1>6. a[u] \in Int
  BY <1>3
<1> QED BY <1>3, <1>4, <1>5, <1>6 DEF q

LEMMA EnqueuersFinite == IsFiniteSet(Enqueuers)
BY CrawlAssumption, FS_Union DEF Enqueuers

\* There are as many publications as OncePerEnqueuer allows.
LEMMA TotalFits == ASSUME OnceInv, Roomy PROVE Total(publications) <= Capacity
<1> DEFINE a == [u \in Allowed |-> publications[u]]
           c == Cardinality(Enqueuers)
<1>1. c \in Nat
  BY EnqueuersFinite, FS_CardinalityType
<1>2. \A u \in Allowed : publications[u] \in Nat /\ publications[u] <= c
  <2> SUFFICES ASSUME NEW u \in URLs PROVE publications[u] \in Nat /\ publications[u] <= c
    BY CrawlAssumption
  <2>1. publishers[u] \subseteq Enqueuers /\ publications[u] \in Nat
    BY DEF OnceInv, EnqueueTypes
  <2>2. Cardinality(publishers[u]) <= Cardinality(Enqueuers)
    BY <2>1, EnqueuersFinite, FS_Subset
  <2> QED BY <2>1, <2>2 DEF OnceInv, OncePerEnqueuer
<1>3. a \in [Allowed -> Int] /\ IsFiniteSet(Allowed) /\ \A u \in Allowed : a[u] <= c
  BY <1>2, CrawlAssumption, FS_Subset
<1>4. Total(publications) = SumOver(a, Allowed)
  BY DEF Total
<1>5. Cardinality(Allowed) * c <= Capacity /\ Cardinality(Allowed) \in Nat
  BY <1>3, FS_CardinalityType DEF Roomy
<1> HIDE DEF a, c
<1>6. SumOver(a, Allowed) <= Cardinality(Allowed) * c /\ SumOver(a, Allowed) \in Int
  BY <1>1, <1>3, SumAtMost, SumInt
<1> DEFINE m == Cardinality(Allowed) * c
<1>7. m \in Nat /\ m <= Capacity
  BY <1>1, <1>5
<1> HIDE DEF m
<1>8. SumOver(a, Allowed) <= m
  BY <1>6 DEF m
<1> QED BY <1>4, <1>6, <1>7, <1>8, CrawlAssumption

LEMMA PutChange ==
  ASSUME TokenTypes, NEW j \in Jobs, waiting' = Put(j)
  PROVE  /\ Load \in Int /\ Load' \in Int /\ Load' <= Load + 1
         /\ Load < Capacity => waiting'[j] > 0
         /\ \A k \in Jobs : waiting[k] > 0 => waiting'[k] > 0
<1>1. CASE Load < Capacity
  <2>1. waiting' = [waiting EXCEPT ![j] = @ + 1] /\ 1 \in Int
    BY <1>1 DEF Put
  <2>2. Load' = Load + 1
    BY <2>1, LoadChange
  <2> QED BY <2>1, <2>2, LoadInt DEF TokenTypes
<1>2. CASE ~(Load < Capacity)
  <2>1. waiting' = waiting
    BY <1>2 DEF Put
  <2> QED BY <1>2, <2>1, LoadSame, LoadInt
<1> QED BY <1>1, <1>2

LEMMA MessagesInt ==
  ASSUME Typed
  PROVE  /\ Load \in Int /\ Occupied(hand) \in Int /\ Occupied(hand) >= 0
         /\ Occupied(job) \in Int /\ Occupied(job) >= 0 /\ Total(publications) \in Int
BY LoadInt, OccupiedNat, TotalInt DEF Typed, EnqueueTypes

\* One publication, and one message at most.
LEMMA PublishAccount ==
  ASSUME Typed, AccountInv, NEW e \in Enqueuers, Publish(e)
  PROVE  Messages' <= Total(publications') /\ Total(publications') = Total(publications) + 1
<1>1. eurl[e] \in Allowed /\ [url |-> eurl[e], retries |-> 0] \in Jobs
  BY CrawlAssumption DEF Publish, AccountInv, AllowedOnly, Jobs
<1>2. Load' <= Load + 1 /\ Load' \in Int
  BY <1>1, PutChange DEF Publish, Typed
<1>3. Total(publications') = Total(publications) + 1
  <2>1. publications \in [URLs -> Nat] /\ publications' = [publications EXCEPT ![eurl[e]] = @ + 1]
    BY DEF Publish, Typed, EnqueueTypes
  <2> QED BY <1>1, <2>1, TotalMore
<1>4. hand' = hand /\ job' = job
  BY DEF Publish, visitorVars
<1> QED BY <1>2, <1>3, <1>4, MessagesInt, MessagesNext DEF AccountInv, Messages

\* From the queue to a hand, and on to the visitor.
LEMMA TakeAccount ==
  ASSUME Typed, AccountInv, NEW v \in Visitors, Take(v) PROVE Messages' <= Total(publications')
<1>1. PICK j \in Jobs : waiting' = [waiting EXCEPT ![j] = @ - 1] /\ hand' = [hand EXCEPT ![v] = j]
  BY DEF Take
<1>2. hand[v] = None /\ hand'[v] = j /\ (\A w \in Visitors : w # v => hand'[w] = hand[w])
      /\ job' = job /\ publications' = publications
  BY <1>1 DEF Take, Typed, TokenTypes, enqueueVars
<1>3. Load' = Load + (-1)
  <2>1. waiting' = [waiting EXCEPT ![j] = @ + (-1)]
    <3>1. waiting[j] - 1 = waiting[j] + (-1)
      BY DEF Typed, TokenTypes
    <3> QED BY <1>1, <3>1
  <2>2. -1 \in Int
    OBVIOUS
  <2> QED BY <2>1, <2>2, LoadChange DEF Typed
<1>4. Occupied(hand') = Occupied(hand) + One(j) - One(None)
  BY <1>2, OccupiedChange
<1> QED BY <1>2, <1>3, <1>4, NoneIsNoJob, MessagesInt, MessagesNext DEF AccountInv, Messages

LEMMA ReceiveAccount ==
  ASSUME Typed, AccountInv, NEW v \in Visitors, Receive(v) PROVE Messages' <= Total(publications')
<1>1. /\ hand[v] \in Jobs /\ job'[v] = hand[v] /\ hand'[v] = None /\ job[v] = None
      /\ \A w \in Visitors : w # v => hand'[w] = hand[w] /\ job'[w] = job[w]
      /\ waiting' = waiting /\ publications' = publications
  BY DEF Receive, Typed, TokenTypes, enqueueVars, AccountInv, IdleIsFree
<1>2. Occupied(hand') = Occupied(hand) + One(None) - One(hand[v])
  BY <1>1, OccupiedChange
<1>3. Occupied(job') = Occupied(job) + One(hand[v]) - One(None)
  BY <1>1, OccupiedChange
<1>4. One(hand[v]) = 1
  BY <1>1, NoneIsNoJob
<1> QED BY <1>1, <1>2, <1>3, <1>4, LoadSame, NoneIsNoJob, MessagesInt, MessagesNext DEF AccountInv, Messages

\* A job that is settled goes, and one to be retried leaves its visitor.
LEMMA SettleAccount ==
  ASSUME Typed, AccountInv, NEW v \in Visitors, Settle(v) PROVE Messages' <= Total(publications')
<1>1. /\ job'[v] = None /\ (\A w \in Visitors : w # v => job'[w] = job[w])
      /\ hand' = hand /\ waiting' = waiting /\ publications' = publications
  BY DEF Settle, Forget, Typed, TokenTypes, enqueueVars
<1>2. Occupied(job') = Occupied(job) + One(None) - One(job[v])
  BY <1>1, OccupiedChange
<1>3. One(job[v]) \in {0, 1}
  BY OneIs
<1> QED BY <1>1, <1>2, <1>3, LoadSame, NoneIsNoJob, MessagesInt, MessagesNext DEF AccountInv, Messages

LEMMA RetryIsJob ==
  ASSUME Typed, NEW v \in Visitors, Republish(v)
  PROVE  /\ job[v] \in Jobs /\ [job[v] EXCEPT !.retries = @ + 1] \in Jobs
         /\ [job[v] EXCEPT !.retries = @ + 1].url = job[v].url
<1>1. job[v] \in Jobs
  BY DEF Republish, Typed, TokenTypes
<1> QED BY <1>1, CrawlAssumption DEF Republish, Retries, Jobs

LEMMA RepublishAccount ==
  ASSUME Typed, AccountInv, NEW v \in Visitors, Republish(v) PROVE Messages' <= Total(publications')
<1>1. /\ job'[v] = None /\ (\A w \in Visitors : w # v => job'[w] = job[w])
      /\ hand' = hand /\ publications' = publications
  BY DEF Republish, Forget, Typed, TokenTypes, enqueueVars
<1>2. Occupied(job') = Occupied(job) + One(None) - One(job[v])
  BY <1>1, OccupiedChange
<1>3. One(job[v]) = 1
  BY RetryIsJob, NoneIsNoJob
<1>4. Load' <= Load + 1 /\ Load' \in Int
  BY RetryIsJob, PutChange DEF Republish, Typed
<1> QED BY <1>1, <1>2, <1>3, <1>4, NoneIsNoJob, MessagesInt, MessagesNext DEF AccountInv, Messages

LEMMA SameAccount ==
  ASSUME AccountInv, UNCHANGED <<waiting, hand, job, publications>>
  PROVE  Messages' <= Total(publications')
BY LoadSame, MessagesNext DEF AccountInv, Messages

LEMMA StepMessages ==
  ASSUME Typed, AccountInv, [Next]_vars PROVE Messages' <= Total(publications')
<1>1. ASSUME NEW e \in Enqueuers, Publish(e) PROVE Messages' <= Total(publications')
  BY <1>1, PublishAccount
<1>2. ASSUME NEW e \in Enqueuers, Saw(e) \/ ReportQueued(e) PROVE Messages' <= Total(publications')
  BY <1>2, SameAccount DEF Saw, ReportQueued, visitorVars
<1>3. ASSUME NEW e \in Enqueuers, NEW u \in URLs, Enqueue(e, u) \/ Skip(e, u) PROVE Messages' <= Total(publications')
  BY <1>3, SameAccount DEF Enqueue, Skip, visitorVars
<1>4. ASSUME NEW v \in Visitors, Take(v) \/ Receive(v) \/ Settle(v) \/ Republish(v) PROVE Messages' <= Total(publications')
  BY <1>4, TakeAccount, ReceiveAccount, SettleAccount, RepublishAccount
<1>5. ASSUME NEW v \in Visitors, ReportCrawling(v) \/ EndLinks(v) \/ ReportCrawled(v) PROVE Messages' <= Total(publications')
  BY <1>5, SameAccount DEF ReportCrawling, EndLinks, ReportCrawled, enqueueVars
<1>6. ASSUME NEW v \in Visitors, NEW o \in Outcomes, Visit(v, o) PROVE Messages' <= Total(publications')
  BY <1>6, SameAccount DEF Visit, enqueueVars
<1>7. UNCHANGED vars => Messages' <= Total(publications')
  BY SameAccount DEF vars, enqueueVars, visitorVars
<1>8. Producers \subseteq Enqueuers /\ Visitors \subseteq Enqueuers
  BY DEF Enqueuers
<1> QED BY <1>1, <1>2, <1>3, <1>4, <1>5, <1>6, <1>7, <1>8
        DEF Next, ProducerStep, VisitorStep, EnqueueStep, Follow

LEMMA StepFree ==
  ASSUME Typed, Typed', AccountInv, [Next]_vars PROVE IdleIsFree' /\ AllowedOnly'
<1> USE DEF AccountInv, Typed
<1>1. ASSUME NEW e \in Enqueuers, Publish(e) \/ Saw(e) \/ ReportQueued(e) PROVE IdleIsFree' /\ AllowedOnly'
  BY <1>1 DEF Publish, Saw, ReportQueued, visitorVars, EnqueueTypes, IdleIsFree, AllowedOnly
<1>2. ASSUME NEW e \in Enqueuers, NEW u \in URLs, Enqueue(e, u) \/ Skip(e, u) PROVE IdleIsFree' /\ AllowedOnly'
  BY <1>2 DEF Enqueue, Skip, Wanted, visitorVars, EnqueueTypes, IdleIsFree, AllowedOnly
<1>3. ASSUME NEW v \in Visitors, Take(v) PROVE IdleIsFree' /\ AllowedOnly'
  BY <1>3 DEF Take, enqueueVars, IdleIsFree, AllowedOnly
<1>4. ASSUME NEW v \in Visitors, Receive(v) \/ Settle(v) \/ Republish(v) PROVE IdleIsFree' /\ AllowedOnly'
  BY <1>4 DEF Receive, Settle, Republish, Forget, enqueueVars, TokenTypes, IdleIsFree, AllowedOnly
<1>5. ASSUME NEW v \in Visitors, ReportCrawling(v) \/ EndLinks(v) \/ ReportCrawled(v) PROVE IdleIsFree' /\ AllowedOnly'
  BY <1>5 DEF ReportCrawling, EndLinks, ReportCrawled, enqueueVars, TokenTypes, IdleIsFree, AllowedOnly
<1>6. ASSUME NEW v \in Visitors, NEW o \in Outcomes, Visit(v, o) PROVE IdleIsFree' /\ AllowedOnly'
  BY <1>6 DEF Visit, enqueueVars, TokenTypes, IdleIsFree, AllowedOnly
<1>7. UNCHANGED vars => IdleIsFree' /\ AllowedOnly'
  BY DEF vars, enqueueVars, visitorVars, IdleIsFree, AllowedOnly
<1>8. Producers \subseteq Enqueuers /\ Visitors \subseteq Enqueuers
  BY DEF Enqueuers
<1> QED BY <1>1, <1>2, <1>3, <1>4, <1>5, <1>6, <1>7, <1>8
        DEF Next, ProducerStep, VisitorStep, EnqueueStep, Follow

LEMMA StepAccount == ASSUME Typed, Typed', AccountInv, [Next]_vars PROVE AccountInv'
<1>1. Messages' <= Total(publications')
  BY StepMessages
<1>2. Total(publications)' = Total(publications')
  BY DEF Total, SumOver, Pick
<1> QED BY <1>1, <1>2, StepFree DEF AccountInv

LEMMA InitAccount == Init => AccountInv
<1> SUFFICES ASSUME Init PROVE AccountInv
  OBVIOUS
<1>1. IdleIsFree /\ AllowedOnly
  BY DEF Init, IdleIsFree, AllowedOnly
<1>2. Load = 0
  <2>1. waiting \in [Jobs -> Int] /\ \A j \in Jobs : waiting[j] = 0
    BY DEF Init
  <2> QED BY <2>1, LoadIs, JobsFinite, SumZero
<1>3. ASSUME NEW f, \A v \in Visitors : f[v] = None PROVE Occupied(f) = 0
  <2> DEFINE a == [v \in Visitors |-> One(f[v])]
  <2>1. a \in [Visitors -> Int] /\ \A v \in Visitors : a[v] = 0
    BY <1>3, NoneIsNoJob
  <2>2. Occupied(f) = SumOver(a, Visitors)
    BY DEF Occupied
  <2> HIDE DEF a
  <2> QED BY <2>1, <2>2, CrawlAssumption, SumZero
<1>4. Occupied(hand) = 0 /\ Occupied(job) = 0
  BY <1>3 DEF Init
<1>5. Total(publications) = 0
  <2> DEFINE a == [u \in Allowed |-> publications[u]]
  <2>1. a \in [Allowed -> Int] /\ (\A u \in Allowed : a[u] = 0) /\ IsFiniteSet(Allowed)
    BY CrawlAssumption, FS_Subset DEF Init
  <2>2. Total(publications) = SumOver(a, Allowed)
    BY DEF Total
  <2> HIDE DEF a
  <2> QED BY <2>1, <2>2, SumZero
<1> QED BY <1>1, <1>2, <1>4, <1>5 DEF AccountInv, Messages

-----------------------------------------------------------------------------
\* Where there is room for all, a message that is put finds it.
LEMMA PublishHasRoom ==
  ASSUME Typed, AccountInv, OnceInv', Roomy, NEW e \in Enqueuers, Publish(e) PROVE Load < Capacity
<1>1. Total(publications') <= Capacity
  <2>1. (OnceInv /\ Roomy => Total(publications) <= Capacity)'
    BY TotalFits, PTL
  <2>2. Roomy' /\ Total(publications)' = Total(publications')
    BY DEF Roomy, Total, SumOver, Pick
  <2> QED BY <2>1, <2>2
<1> QED BY <1>1, PublishAccount, MessagesInt, CrawlAssumption DEF AccountInv, Messages

LEMMA RepublishHasRoom ==
  ASSUME Typed, AccountInv, OnceInv, Roomy, NEW v \in Visitors, Republish(v) PROVE Load < Capacity
<1>1. Occupied(job) >= 1
  BY RetryIsJob, NoneIsNoJob, OccupiedBy DEF Typed, TokenTypes
<1> QED BY <1>1, TotalFits, MessagesInt, CrawlAssumption DEF AccountInv, Messages

\* What becomes of a URL that is under way in each step.
LEMMA StepInvolved ==
  ASSUME Typed, Typed', AccountInv, OnceInv, OnceInv', Roomy, [Next]_vars, NEW u \in URLs, Involved(u)
  PROVE  Involved(u)' \/ u \in settled'
<1> USE DEF Typed
<1>1. ASSUME UNCHANGED <<waiting, hand, job>> PROVE Involved(u)'
  BY <1>1 DEF Involved
<1>2. ASSUME NEW e \in Enqueuers, Publish(e) PROVE Involved(u)'
  <2>1. [url |-> eurl[e], retries |-> 0] \in Jobs
    BY <1>2, CrawlAssumption DEF Publish, EnqueueTypes, Jobs
  <2>2. \A k \in Jobs : waiting[k] > 0 => waiting'[k] > 0
    BY <1>2, <2>1, PutChange DEF Publish
  <2> QED BY <1>2, <2>2 DEF Publish, visitorVars, Involved
<1>3. ASSUME NEW v \in Visitors, Take(v) PROVE Involved(u)'
  <2>1. PICK j \in Jobs : waiting[j] > 0 /\ waiting' = [waiting EXCEPT ![j] = @ - 1] /\ hand' = [hand EXCEPT ![v] = j]
    BY <1>3 DEF Take
  <2>2. /\ hand[v] = None /\ hand'[v] = j /\ j # None /\ job' = job
        /\ \A w \in Visitors : w # v => hand'[w] = hand[w]
        /\ \A k \in Jobs : k # j => waiting'[k] = waiting[k]
    BY <1>3, <2>1, NoneIsNoJob DEF Take, TokenTypes
  <2>3. CASE j.url = u
    BY <2>2, <2>3 DEF Involved
  <2>4. CASE j.url # u
    BY <2>2, <2>4 DEF Involved
  <2> QED BY <2>3, <2>4
<1>4. ASSUME NEW v \in Visitors, Receive(v) PROVE Involved(u)'
  <2>1. /\ job'[v] = hand[v] /\ hand[v] # None /\ job[v] = None /\ waiting' = waiting
        /\ \A w \in Visitors : w # v => hand'[w] = hand[w] /\ job'[w] = job[w]
    BY <1>4 DEF Receive, TokenTypes, AccountInv, IdleIsFree
  <2> QED BY <2>1 DEF Involved
<1>5. ASSUME NEW v \in Visitors, Settle(v) PROVE Involved(u)' \/ u \in settled'
  <2>1. /\ settled' = settled \cup {job[v].url} /\ hand' = hand /\ waiting' = waiting
        /\ \A w \in Visitors : w # v => job'[w] = job[w]
    BY <1>5 DEF Settle, Forget, TokenTypes
  <2> QED BY <2>1 DEF Involved
<1>6. ASSUME NEW v \in Visitors, Republish(v) PROVE Involved(u)'
  <2> DEFINE k == [job[v] EXCEPT !.retries = @ + 1]
  <2>1. k \in Jobs /\ k.url = job[v].url
    BY <1>6, RetryIsJob
  <2>2. hand' = hand /\ (\A w \in Visitors : w # v => job'[w] = job[w]) /\ waiting' = Put(k)
    BY <1>6 DEF Republish, Forget, TokenTypes
  <2> HIDE DEF k
  <2>3. waiting'[k] > 0 /\ \A j \in Jobs : waiting[j] > 0 => waiting'[j] > 0
    BY <1>6, <2>1, <2>2, PutChange, RepublishHasRoom
  <2> QED BY <2>1, <2>2, <2>3 DEF Involved
<1>7. ASSUME NEW e \in Enqueuers, NEW x \in URLs, Enqueue(e, x) \/ Skip(e, x) PROVE Involved(u)'
  BY <1>1, <1>7 DEF Enqueue, Skip, visitorVars
<1>8. ASSUME NEW v \in Visitors, NEW o \in Outcomes, Visit(v, o) PROVE Involved(u)'
  BY <1>1, <1>8 DEF Visit
<1>9. ASSUME NEW v \in Visitors, ReportCrawling(v) \/ EndLinks(v) \/ ReportCrawled(v) PROVE Involved(u)'
  BY <1>1, <1>9 DEF ReportCrawling, EndLinks, ReportCrawled
<1>10. UNCHANGED vars => Involved(u)'
  BY <1>1 DEF vars, visitorVars
<1>11. ASSUME NEW e \in Enqueuers, Saw(e) \/ ReportQueued(e) PROVE Involved(u)'
  BY <1>1, <1>11 DEF Saw, ReportQueued, visitorVars
<1>12. Producers \subseteq Enqueuers /\ Visitors \subseteq Enqueuers
  BY DEF Enqueuers
<1> QED BY <1>2, <1>3, <1>4, <1>5, <1>6, <1>7, <1>8, <1>9, <1>10, <1>11, <1>12
        DEF Next, ProducerStep, VisitorStep, EnqueueStep, Follow

\* A URL that is published now is queued, and one that was published before
\* stays settled or under way.
LEMMA StepNothingLost ==
  ASSUME Typed, Typed', AccountInv, OnceInv, OnceInv', NothingLost, [Next]_vars PROVE NothingLost'
<1> SUFFICES ASSUME Roomy, NEW u \in URLs, publications'[u] > 0 PROVE Involved(u)' \/ u \in settled'
  BY DEF NothingLost, Roomy
<1>1. settled \subseteq settled'
  BY DEF Next, ProducerStep, VisitorStep, EnqueueStep, Follow, vars, visitorVars, Enqueue, Skip, Publish, Saw,
         ReportQueued, Take, Receive, ReportCrawling, Visit, EndLinks, ReportCrawled, Settle, Republish
<1>2. CASE publications[u] > 0
  BY <1>1, <1>2, StepInvolved DEF NothingLost
<1>3. CASE ~(publications[u] > 0)
  <2>1. publications'[u] # publications[u]
    BY <1>3
  <2>2. PICK e \in Enqueuers : Publish(e)
    BY <2>1 DEF Next, ProducerStep, VisitorStep, EnqueueStep, Follow, vars, enqueueVars, Enqueue, Skip, Saw,
         ReportQueued, Take, Receive, ReportCrawling, Visit, EndLinks, ReportCrawled, Settle, Republish, Enqueuers
  <2>3. eurl[e] = u
    BY <2>1, <2>2 DEF Publish, Typed, EnqueueTypes
  <2> DEFINE j == [url |-> u, retries |-> 0]
  <2>4. j \in Jobs /\ j.url = u /\ waiting' = Put(j)
    BY <2>2, <2>3, CrawlAssumption DEF Publish, Jobs
  <2> HIDE DEF j
  <2>5. waiting'[j] > 0
    BY <2>2, <2>4, PutChange, PublishHasRoom DEF Typed
  <2> QED BY <2>4, <2>5 DEF Involved
<1> QED BY <1>2, <1>3

\* A full queue drops messages (internal/ctrlq/memory.go:96-101, :124-128);
\* with room for every allowed URL from each goroutine that enqueues none is
\* lost before its URL has its verdict (visitor.go:146-201), whoever dies.
THEOREM NoMessageIsLost == Spec => []NothingLost
<1> DEFINE Inv == FinishInv /\ OnceInv /\ RestTypes /\ AccountInv /\ NothingLost
<1>1. Inv => Typed
  BY DEF FinishInv, Typed
<1>2. Init => Inv
  <2>1. Init => NothingLost
    BY DEF Init, NothingLost
  <2> QED BY <2>1, InitOnce, InitFinish, InitRestTypes, InitAccount
<1>3. Inv /\ [Next]_vars => Inv'
  <2> SUFFICES ASSUME Inv, [Next]_vars PROVE Inv'
    OBVIOUS
  <2>1. FinishInv' /\ OnceInv' /\ RestTypes' /\ Typed'
    BY <1>1, StepFinish, StepTyped DEF Typed
  <2>2. AccountInv'
    BY <1>1, <2>1, StepAccount
  <2>3. NothingLost'
    BY <1>1, <2>1, StepNothingLost
  <2> QED BY <2>1, <2>2, <2>3
<1>4. Inv => NothingLost
  OBVIOUS
<1> QED BY <1>2, <1>3, <1>4, PTL DEF Spec
=============================================================================
