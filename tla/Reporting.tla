------------------------------ MODULE Reporting ------------------------------
(***************************************************************************)
(* What comes of visits besides links: files on disk                       *)
(* (src/internal/result/disk.go), updates of the progress kept in memory   *)
(* (src/internal/progress/memory.go) and the count of visits that is sent  *)
(* to the pulse monitor (src/observe.go, src/cmd/pulse/main.go).  In CLI   *)
(* mode the process ends itself once it is confident that its run has      *)
(* finished (src/main.go:286-299); in service mode nobody waits for that,  *)
(* and the pulse beats instead (src/main.go:128-130).                      *)
(*                                                                         *)
(* Time is in milliseconds.  A URL is published and reported in one, and   *)
(* an update is recorded in the one in which it was made.  A visit here    *)
(* stands for all visits of a URL that lead to its verdict; retries, links *)
(* and duplicates are Crawl's.                                             *)
(***************************************************************************)
EXTENDS Integers, FiniteSets

CONSTANTS
    URLs,
    Seeds,              \* Mode -> what Run.Start enqueues.
    Page,               \* URL -> the URL it is redirected to in the end.
    Unwritable,         \* Pages whose file cannot be written.
    Visitors,
    Buffer,             \* Size of the channel of notifications: 100.
    MinVisit,           \* A visit takes no less.
    MaxGap,             \* Run.Start never pauses longer between two URLs.
    Horizon,            \* From then on nothing is slower than it has to be.
    None                \* No URL.

Modes == {"service", "cli"}

ASSUME ReportingAssumption ==
    /\ IsFiniteSet(URLs) /\ IsFiniteSet(Visitors)
    /\ Page \in [URLs -> URLs]
    /\ Seeds \in [Modes -> SUBSET URLs]
    /\ {Buffer, MinVisit, MaxGap, Horizon} \subseteq Nat /\ MinVisit > 0
    /\ None \notin URLs

VARIABLES
    mode,
    now,
    left, enqueued, \* URLs Run.Start has yet to enqueue; the one it just published.
    enqueuedAt,     \* When it last reported one.
    waiting,        \* URLs in the work queue.
    vpc, vurl,      \* Visitor -> where it is in processing which URL.
    began,          \* Visitor -> when it began to visit it.
    fine,           \* Visitor -> whether the visit went well.
    files,          \* Pages on disk.
    updates,        \* URL -> the status last reported, or "none".
    firstSeen, lastSeen,
    updated,        \* Notifications in the channel.
    finished,       \* IsRunFinished is through.
    exited,         \* The process has ended.
    visits,         \* History: number of visits made.
    txns,           \* PulseVisitTxns.
    beat, sampled,  \* Where the pulse is, the value it loaded.
    monitor,        \* The monitor is "on" or "quit".
    shown,          \* History: sum of the values that were sent to it.
    raced           \* History: visits counted between its load and its store.

clockVars == <<mode, now>>
startVars == <<left, enqueued, enqueuedAt>>
visitVars == <<vpc, vurl, began, fine>>
progressVars == <<updates, firstSeen, lastSeen, updated>>
endVars == <<finished, exited>>
pulseVars == <<visits, txns, beat, sampled, monitor, shown, raced>>
vars == <<clockVars, startVars, waiting, visitVars, files, progressVars, endVars, pulseVars>>

Terminal == {"succeeded", "errored"}

Init ==
    /\ mode \in Modes /\ now = 0
    /\ left = Seeds[mode] /\ enqueued = None /\ enqueuedAt = 0 /\ waiting = {}
    /\ vpc = [v \in Visitors |-> "idle"] /\ vurl = [v \in Visitors |-> None]
    /\ began = [v \in Visitors |-> 0] /\ fine = [v \in Visitors |-> FALSE]
    /\ files = {}
    /\ updates = [u \in URLs |-> "none"] /\ firstSeen = 0 /\ lastSeen = 0 /\ updated = 0
    /\ finished = FALSE /\ exited = FALSE
    /\ visits = 0 /\ txns = 0 /\ beat = "idle" /\ sampled = 0
    /\ monitor = "on" /\ shown = 0 /\ raced = 0

-----------------------------------------------------------------------------
\* MemoryReporter.Call.  A notification that does not fit is dropped.
NotifyUnbounded == updated' = updated + 1
NotifyAndWait == updated < Buffer /\ updated' = updated + 1
Notify == updated' = IF updated < Buffer THEN updated + 1 ELSE updated

Known == {u \in URLs : updates[u] # "none"}

Call(u, status) ==
    /\ updates' = [updates EXCEPT ![u] = status]
    /\ firstSeen' = IF Known = {} THEN now ELSE firstSeen
    /\ lastSeen' = now
    /\ Notify

\* Run.Start publishes a URL, and then reports it.
Publish(u) ==
    /\ enqueued = None /\ u \in left
    /\ left' = left \ {u}
    /\ enqueued' = u
    /\ waiting' = waiting \cup {u}
    /\ UNCHANGED <<clockVars, enqueuedAt, visitVars, files, progressVars, endVars, pulseVars>>

ReportQueued ==
    /\ enqueued # None
    /\ Call(enqueued, "queued")
    /\ enqueued' = None
    /\ enqueuedAt' = now
    /\ UNCHANGED <<clockVars, left, waiting, visitVars, files, endVars, pulseVars>>

-----------------------------------------------------------------------------
\* A visitor and its URL.
Take(v) ==
    /\ vpc[v] = "idle"
    /\ \E u \in waiting :
        /\ waiting' = waiting \ {u}
        /\ vurl' = [vurl EXCEPT ![v] = u]
    /\ vpc' = [vpc EXCEPT ![v] = "begin"]
    /\ UNCHANGED <<clockVars, startVars, began, fine, files, progressVars, endVars, pulseVars>>

ReportCrawling(v) ==
    /\ vpc[v] = "begin"
    /\ Call(vurl[v], "crawling")
    /\ began' = [began EXCEPT ![v] = now]
    /\ vpc' = [vpc EXCEPT ![v] = "visit"]
    /\ UNCHANGED <<clockVars, startVars, waiting, vurl, fine, files, endVars, pulseVars>>

\* The collect function reports the page before the visit ends.  The file is
\* named after the final URL, whoever wrote it before; an error is only logged.
ReportInBackground(u) == UNCHANGED files
ReportToDisk(u) == files' = files \cup ({Page[u]} \ Unwritable)

Visited(v) == vpc[v] = "visit" /\ (mode = "cli" => now >= began[v] + MinVisit)

Visit(v, ok) ==
    /\ Visited(v)
    /\ IF ok THEN ReportToDisk(vurl[v]) ELSE UNCHANGED files
    /\ fine' = [fine EXCEPT ![v] = ok]
    /\ visits' = visits + 1 /\ txns' = txns + 1
    /\ raced' = IF beat = "store" THEN raced + 1 ELSE raced
    /\ vpc' = [vpc EXCEPT ![v] = "visited"]
    /\ UNCHANGED <<clockVars, startVars, waiting, vurl, began, progressVars, endVars,
                   beat, sampled, monitor, shown>>

ReportCrawled(v) ==
    /\ vpc[v] = "visited"
    /\ Call(vurl[v], "crawled")
    /\ vpc' = [vpc EXCEPT ![v] = "settle"]
    /\ UNCHANGED <<clockVars, startVars, waiting, vurl, began, fine, files, endVars, pulseVars>>

\* A cancelled URL counts like one that errored: both are terminal.
Settle(v) ==
    /\ vpc[v] = "settle"
    /\ Call(vurl[v], IF fine[v] THEN "succeeded" ELSE "errored")
    /\ vpc' = [vpc EXCEPT ![v] = "idle"]
    /\ vurl' = [vurl EXCEPT ![v] = None]
    /\ began' = [began EXCEPT ![v] = 0]
    /\ fine' = [fine EXCEPT ![v] = FALSE]
    /\ UNCHANGED <<clockVars, startVars, waiting, files, endVars, pulseVars>>

VisitorStep(v) == \/ Take(v) \/ ReportCrawling(v) \/ ReportCrawled(v) \/ Settle(v)
                  \/ \E ok \in BOOLEAN : Visit(v, ok)

-----------------------------------------------------------------------------
(***************************************************************************)
(* IsRunFinished, woken by a notification or its ticker.                   *)
(***************************************************************************)
ConfidenceLevelSafetyDistance == 3

\* Confident once nothing was heard for three times the time that a URL took
\* on average, in whole milliseconds, and not if all came within one.
NoDistance == lastSeen # firstSeen
Confident ==
    /\ lastSeen # firstSeen
    /\ now - lastSeen >= ConfidenceLevelSafetyDistance * ((lastSeen - firstSeen) \div Cardinality(Known))

checkFinished == /\ Known # {} /\ \A u \in Known : updates[u] \in Terminal
                 /\ Confident

Check == finished' = checkFinished

CheckOnUpdate ==
    /\ updated > 0
    /\ updated' = updated - 1
    /\ Check
    /\ UNCHANGED <<updates, firstSeen, lastSeen>>

CheckOnTick == Check /\ UNCHANGED progressVars

OnUpdateOnly == CheckOnUpdate
Awake == CheckOnUpdate \/ CheckOnTick

IsRunFinished ==
    /\ mode = "cli" /\ ~finished
    /\ Awake
    /\ UNCHANGED <<clockVars, startVars, waiting, visitVars, files, exited, pulseVars>>

\* cli stops, and with the process whatever still goes on ends.
Exit ==
    /\ finished
    /\ exited' = TRUE
    /\ UNCHANGED <<clockVars, startVars, waiting, visitVars, files, progressVars, finished, pulseVars>>

-----------------------------------------------------------------------------
(***************************************************************************)
(* The pulse: load, store, post.  The monitor's handler answers once the   *)
(* monitor has taken the value, which it does until it is quit.  (One that *)
(* was not started refuses it, which makes no difference to the pulse.)    *)
(***************************************************************************)
LoadAfterStore == sampled' = 0
Load == sampled' = txns

PulseLoad ==
    /\ mode = "service" /\ beat = "idle"
    /\ Load
    /\ beat' = "store"
    /\ UNCHANGED <<visits, txns, monitor, shown, raced>>

KeepCount == UNCHANGED txns
Reset == txns' = 0

PulseStore ==
    /\ beat = "store"
    /\ Reset
    /\ beat' = "post"
    /\ UNCHANGED <<visits, sampled, monitor, shown, raced>>

Post ==
    /\ beat = "post" /\ monitor = "on"
    /\ shown' = shown + sampled
    /\ beat' = "idle"
    /\ sampled' = 0
    /\ UNCHANGED <<visits, txns, monitor, raced>>

Quit ==
    /\ mode = "service" /\ monitor = "on"
    /\ monitor' = "quit"
    /\ UNCHANGED <<visits, txns, beat, sampled, shown, raced>>

Pulse == /\ PulseLoad \/ PulseStore \/ Post \/ Quit
         /\ UNCHANGED <<clockVars, startVars, waiting, visitVars, files, progressVars, endVars>>

-----------------------------------------------------------------------------
Starting == left # {} \/ enqueued # None
Busy == waiting # {} \/ \E v \in Visitors : vpc[v] # "idle"

\* Somebody could go on at once.
Ready == \/ \E v \in Visitors : vpc[v] = "idle" /\ waiting # {}
         \/ \E v \in Visitors : vpc[v] \in {"begin", "visited", "settle"} \/ Visited(v)

\* Only the CLI looks at the clock.  Once all is done it goes on until
\* anybody is confident.
Tick ==
    /\ mode = "cli" /\ enqueued = None
    /\ Ready => now < Horizon
    /\ left # {} => now < enqueuedAt + MaxGap
    /\ ~Starting /\ ~Busy => now - lastSeen <= ConfidenceLevelSafetyDistance * (lastSeen - firstSeen)
    /\ now' = now + 1
    /\ UNCHANGED <<mode, startVars, waiting, visitVars, files, progressVars, endVars, pulseVars>>

Next ==
    /\ ~exited
    /\ \/ \E u \in URLs : Publish(u)
       \/ ReportQueued
       \/ \E v \in Visitors : VisitorStep(v)
       \/ IsRunFinished \/ Exit \/ Pulse \/ Tick

Spec == Init /\ [][Next]_vars

\* The Go scheduler is fair, the ticker goes on, visits end.
Start == ReportQueued \/ \E u \in URLs : Publish(u)
Fairness ==
    /\ WF_vars(~exited /\ Start) /\ WF_vars(~exited /\ Tick)
    /\ \A v \in Visitors : WF_vars(~exited /\ VisitorStep(v))
    /\ WF_vars(~exited /\ (IsRunFinished \/ Exit))
FairSpec == Spec /\ Fairness

-----------------------------------------------------------------------------
\* Every variable has its type, the channel does not overflow, and who
\* processes a URL has one.
TypeOK ==
    /\ mode \in Modes /\ now \in Nat /\ enqueuedAt \in Nat
    /\ left \subseteq URLs /\ waiting \subseteq URLs /\ enqueued \in URLs \cup {None}
    /\ vpc \in [Visitors -> {"idle", "begin", "visit", "visited", "settle"}]
    /\ vurl \in [Visitors -> URLs \cup {None}]
    /\ \A v \in Visitors : vpc[v] # "idle" <=> vurl[v] # None
    /\ began \in [Visitors -> Nat] /\ fine \in [Visitors -> BOOLEAN]
    /\ files \subseteq URLs
    /\ updates \in [URLs -> {"none", "queued", "crawling", "crawled"} \cup Terminal]
    /\ firstSeen <= lastSeen /\ lastSeen <= now
    /\ updated \in 0 .. Buffer
    /\ finished \in BOOLEAN /\ exited \in BOOLEAN
    /\ {visits, txns, sampled, shown, raced} \subseteq Nat
    /\ beat \in {"idle", "store", "post"} /\ monitor \in {"on", "quit"}

\* What the progress calls succeeded is on disk by then, so that the CLI may
\* exit, unless it cannot be written, which is only logged (run.go:176-179).
SucceededIsSaved ==
    \A u \in URLs : updates[u] = "succeeded" => Page[u] \in files \cup Unwritable

\* The CLI leaves no URL behind if the pauses of Run.Start are shorter than
\* a visit and the safety distance that visitors who share the visits keep
\* (progress/memory.go:181-192): with many visitors and visits of few
\* milliseconds that distance is nothing.
Paced == MaxGap < MinVisit + ConfidenceLevelSafetyDistance * (MinVisit \div Cardinality(Visitors))
NotLeftEarly == finished /\ Paced => ~Starting /\ ~Busy

\* The monitor is never shown visits twice ...
Held == IF beat = "post" THEN sampled ELSE 0
PulseNeverOvercounts == shown + txns + Held <= visits

\* ... and what gets lost, being neither counted any more nor on its way to the
\* monitor nor shown, is no more than the visits that were made between a load
\* and the store after it, which resets them unseen (observe.go:41-42).
PulseMissesOnlyRaced == visits <= shown + txns + Held + raced

\* The CLI exits when its run is done and every URL's last update is a
\* terminal one, even if all notifications were taken before.
Exits == (mode = "cli" /\ ~Starting /\ ~Busy /\ \A u \in Seeds[mode] : updates[u] \in Terminal) ~> exited

\* A URL is visited and reported in service mode too, where nobody takes the
\* notifications, and whether or not the monitor lets the pulse go on.
VisitsGoOn == \A u \in URLs : u \in waiting ~> exited \/ updates[u] \in Terminal
=============================================================================
