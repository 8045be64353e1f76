--------------------------- MODULE Reporting_proofs ---------------------------
(***************************************************************************)
(* Proofs about Reporting, for any number of URLs and visitors, any size   *)
(* of the channel and any durations.                                       *)
(***************************************************************************)
EXTENDS Reporting, FiniteSetTheorems, FunctionTheorems, TLAPS

\* What a visitor has to say of a visit that went well is on disk already.
VisitorTypes ==
    /\ vpc \in [Visitors -> {"idle", "begin", "visit", "visited", "settle"}]
    /\ vurl \in [Visitors -> URLs \cup {None}]
    /\ \A v \in Visitors : vpc[v] # "idle" => vurl[v] \in URLs
    /\ fine \in [Visitors -> BOOLEAN]
    /\ updates \in [URLs -> {"none", "queued", "crawling", "crawled"} \cup Terminal]
    /\ waiting \subseteq URLs /\ left \subseteq URLs /\ enqueued \in URLs \cup {None}

Saved(u) == Page[u] \in files \cup Unwritable

VisitedIsSaved ==
    \A v \in Visitors : vpc[v] \in {"visited", "settle"} /\ fine[v] => Saved(vurl[v])

SavedInv == VisitorTypes /\ VisitedIsSaved /\ SucceededIsSaved

\* What the pulse has loaded is still in the counter until it stores, and what
\* was counted since then is what raced with it.
PulseInv ==
    /\ visits \in Nat /\ txns \in Nat /\ sampled \in Nat /\ shown \in Nat /\ raced \in Nat
    /\ beat \in {"idle", "store", "post"}
    /\ beat = "store" => sampled <= txns /\ visits <= shown + sampled + raced
    /\ PulseNeverOvercounts
    /\ PulseMissesOnlyRaced

-----------------------------------------------------------------------------
LEMMA CallType ==
  ASSUME VisitorTypes, NEW u \in URLs, NEW s \in {"queued", "crawling", "crawled"} \cup Terminal, Call(u, s)
  PROVE  /\ updates' \in [URLs -> {"none", "queued", "crawling", "crawled"} \cup Terminal]
         /\ \A x \in URLs : updates'[x] = IF x = u THEN s ELSE updates[x]
  BY DEF VisitorTypes, Call

\* A call that does not tell of success disturbs nothing.
LEMMA OtherCall ==
  ASSUME SavedInv, NEW u \in URLs, NEW s \in {"queued", "crawling", "crawled", "errored"}, Call(u, s), files' = files
  PROVE  SucceededIsSaved'
<1>1. \A x \in URLs : updates'[x] = IF x = u THEN s ELSE updates[x]
  BY CallType DEF SavedInv, Terminal
<1> QED BY <1>1 DEF SavedInv, SucceededIsSaved

LEMMA StepSaved ==
  ASSUME SavedInv, Next PROVE SavedInv'
<1> USE DEF SavedInv
<1>1. ASSUME NEW u \in URLs, Publish(u) PROVE SavedInv'
  BY <1>1 DEF Publish, visitVars, progressVars, VisitorTypes, VisitedIsSaved, Saved, SucceededIsSaved
<1>2. ASSUME ReportQueued PROVE SavedInv'
  <2>1. enqueued \in URLs
    BY <1>2 DEF ReportQueued, VisitorTypes
  <2>2. VisitorTypes'
    <3>1. updates' \in [URLs -> {"none", "queued", "crawling", "crawled"} \cup Terminal]
      BY <1>2, <2>1, CallType DEF ReportQueued
    <3> QED BY <1>2, <3>1 DEF ReportQueued, visitVars, VisitorTypes
  <2>3. VisitedIsSaved'
    BY <1>2 DEF ReportQueued, visitVars, VisitedIsSaved, Saved
  <2>4. SucceededIsSaved'
    BY <1>2, <2>1, OtherCall DEF ReportQueued
  <2> QED BY <2>2, <2>3, <2>4
<1>3. ASSUME NEW v \in Visitors, Take(v) PROVE SavedInv'
  <2>1. PICK u \in waiting : /\ waiting' = waiting \ {u}
                             /\ vurl' = [vurl EXCEPT ![v] = u]
    BY <1>3 DEF Take
  <2>2. VisitorTypes'
    <3>1. fine' \in [Visitors -> BOOLEAN]
      BY <1>3 DEF Take, VisitorTypes
    <3> QED BY <1>3, <2>1, <3>1 DEF Take, startVars, progressVars, VisitorTypes
  <2>3. VisitedIsSaved'
    BY <1>3, <2>1 DEF Take, VisitorTypes, VisitedIsSaved, Saved
  <2>4. SucceededIsSaved'
    BY <1>3 DEF Take, progressVars, SucceededIsSaved
  <2> QED BY <2>2, <2>3, <2>4
<1>4. ASSUME NEW v \in Visitors, ReportCrawling(v) PROVE SavedInv'
  <2>1. vurl[v] \in URLs
    BY <1>4 DEF ReportCrawling, VisitorTypes
  <2>2. VisitorTypes'
    <3>1. updates' \in [URLs -> {"none", "queued", "crawling", "crawled"} \cup Terminal]
      BY <1>4, <2>1, CallType DEF ReportCrawling
    <3>2. fine' \in [Visitors -> BOOLEAN]
      BY <1>4 DEF ReportCrawling, VisitorTypes
    <3> QED BY <1>4, <2>1, <3>1, <3>2 DEF ReportCrawling, startVars, VisitorTypes
  <2>3. VisitedIsSaved'
    BY <1>4 DEF ReportCrawling, VisitorTypes, VisitedIsSaved, Saved
  <2>4. SucceededIsSaved'
    BY <1>4, <2>1, OtherCall DEF ReportCrawling
  <2> QED BY <2>2, <2>3, <2>4
<1>5. ASSUME NEW v \in Visitors, NEW ok \in BOOLEAN, Visit(v, ok) PROVE SavedInv'
  <2>1. vurl[v] \in URLs
    BY <1>5 DEF Visit, Visited, VisitorTypes
  <2>2. files \subseteq files' /\ (ok => Page[vurl[v]] \in files' \cup Unwritable)
    BY <1>5 DEF Visit, ReportToDisk
  <2>3. VisitorTypes'
    <3>1. fine' \in [Visitors -> BOOLEAN]
      BY <1>5 DEF Visit, VisitorTypes
    <3> QED BY <1>5, <2>1, <3>1 DEF Visit, startVars, progressVars, VisitorTypes
  <2>4. ASSUME NEW x \in Visitors, vpc'[x] \in {"visited", "settle"}, fine'[x] PROVE Saved(vurl[x])'
    <3>1. CASE x = v
      <4>1. fine'[v] = ok
        BY <1>5 DEF Visit, VisitorTypes
      <4> QED BY <1>5, <2>2, <2>4, <3>1, <4>1 DEF Visit, Saved
    <3>2. CASE x # v
      <4>1. vpc'[x] = vpc[x] /\ (fine'[x] <=> fine[x])
        BY <1>5, <3>2 DEF Visit, VisitorTypes
      <4> QED BY <1>5, <2>2, <2>4, <4>1 DEF Visit, VisitedIsSaved, Saved
    <3> QED BY <3>1, <3>2
  <2>5. VisitedIsSaved'
    BY <1>5, <2>4 DEF Visit, VisitedIsSaved
  <2>6. SucceededIsSaved'
    BY <1>5, <2>2 DEF Visit, progressVars, SucceededIsSaved
  <2> QED BY <2>3, <2>5, <2>6
<1>6. ASSUME NEW v \in Visitors, ReportCrawled(v) PROVE SavedInv'
  <2>1. vurl[v] \in URLs
    BY <1>6 DEF ReportCrawled, VisitorTypes
  <2>2. VisitorTypes'
    <3>1. updates' \in [URLs -> {"none", "queued", "crawling", "crawled"} \cup Terminal]
      BY <1>6, <2>1, CallType DEF ReportCrawled
    <3>2. fine' \in [Visitors -> BOOLEAN]
      BY <1>6 DEF ReportCrawled, VisitorTypes
    <3> QED BY <1>6, <2>1, <3>1, <3>2 DEF ReportCrawled, startVars, VisitorTypes
  <2>3. VisitedIsSaved'
    BY <1>6 DEF ReportCrawled, VisitorTypes, VisitedIsSaved, Saved
  <2>4. SucceededIsSaved'
    BY <1>6, <2>1, OtherCall DEF ReportCrawled
  <2> QED BY <2>2, <2>3, <2>4
<1>7. ASSUME NEW v \in Visitors, Settle(v) PROVE SavedInv'
  <2>1. vurl[v] \in URLs
    BY <1>7 DEF Settle, VisitorTypes
  <2>2. VisitorTypes'
    <3>1. (IF fine[v] THEN "succeeded" ELSE "errored") \in Terminal
      BY DEF Terminal
    <3>2. updates' \in [URLs -> {"none", "queued", "crawling", "crawled"} \cup Terminal]
      BY <1>7, <2>1, <3>1, CallType DEF Settle
    <3>3. fine' \in [Visitors -> BOOLEAN]
      BY <1>7 DEF Settle, VisitorTypes
    <3> QED BY <1>7, <3>2, <3>3 DEF Settle, startVars, VisitorTypes
  <2>3. VisitedIsSaved'
    <3> SUFFICES ASSUME NEW x \in Visitors, vpc'[x] \in {"visited", "settle"}, fine'[x] PROVE Saved(vurl[x])'
      BY DEF VisitedIsSaved
    <3>1. x # v
      BY <1>7 DEF Settle, VisitorTypes
    <3>2. vpc'[x] = vpc[x] /\ vurl'[x] = vurl[x] /\ fine'[x] = fine[x]
      BY <1>7, <3>1 DEF Settle, VisitorTypes
    <3> QED BY <1>7, <3>2 DEF Settle, VisitedIsSaved, Saved
  <2>4. SucceededIsSaved'
    <3>1. CASE fine[v]
      <4>1. Saved(vurl[v])
        BY <1>7, <3>1 DEF Settle, VisitedIsSaved
      <4>2. Call(vurl[v], "succeeded")
        BY <1>7, <3>1 DEF Settle
      <4>3. \A x \in URLs : updates'[x] = IF x = vurl[v] THEN "succeeded" ELSE updates[x]
        BY <2>1, <4>2, CallType DEF Terminal
      <4> QED BY <1>7, <4>1, <4>3 DEF Settle, Saved, SucceededIsSaved
    <3>2. CASE ~fine[v]
      BY <1>7, <2>1, <3>2, OtherCall DEF Settle
    <3> QED BY <3>1, <3>2
  <2> QED BY <2>2, <2>3, <2>4
<1>8. ASSUME UNCHANGED <<left, enqueued, waiting, vpc, vurl, fine, files, updates>> PROVE SavedInv'
  BY <1>8 DEF VisitorTypes, VisitedIsSaved, Saved, SucceededIsSaved
<1>9. ASSUME IsRunFinished \/ Exit \/ Pulse \/ Tick PROVE SavedInv'
  BY <1>8, <1>9 DEF IsRunFinished, Awake, CheckOnUpdate, CheckOnTick, Exit, Pulse, Tick,
                    startVars, visitVars, progressVars
<1> QED BY <1>1, <1>2, <1>3, <1>4, <1>5, <1>6, <1>7, <1>9 DEF Next, VisitorStep

\* However many visitors report at once: when the progress says that a URL
\* succeeded, its page is on disk, so the CLI loses no result by exiting.
THEOREM SuccessIsOnDisk == Spec => []SucceededIsSaved
<1>1. Init => SavedInv
  <2>1. Init => VisitorTypes
    <3> SUFFICES ASSUME Init PROVE VisitorTypes
      OBVIOUS
    <3>1. fine \in [Visitors -> BOOLEAN]
      BY DEF Init
    <3>2. left \subseteq URLs
      BY ReportingAssumption DEF Init
    <3> QED BY <3>1, <3>2 DEF Init, VisitorTypes
  <2>2. Init => VisitedIsSaved /\ SucceededIsSaved
    BY DEF Init, VisitedIsSaved, SucceededIsSaved
  <2> QED BY <2>1, <2>2 DEF SavedInv
<1>2. SavedInv /\ [Next]_vars => SavedInv'
  <2>1. SavedInv /\ UNCHANGED vars => SavedInv'
    BY DEF SavedInv, VisitorTypes, VisitedIsSaved, Saved, SucceededIsSaved, vars, startVars,
           visitVars, progressVars
  <2> QED BY <2>1, StepSaved
<1>3. SavedInv => SucceededIsSaved
  BY DEF SavedInv
<1> QED BY <1>1, <1>2, <1>3, PTL DEF Spec

-----------------------------------------------------------------------------
LEMMA StepPulse ==
  ASSUME PulseInv, [Next]_vars PROVE PulseInv'
<1> USE DEF PulseInv, PulseNeverOvercounts, PulseMissesOnlyRaced, Held
<1>1. ASSUME NEW v \in Visitors, NEW ok \in BOOLEAN, Visit(v, ok) PROVE PulseInv'
  BY <1>1 DEF Visit
<1>2. ASSUME PulseLoad PROVE PulseInv'
  BY <1>2 DEF PulseLoad, Load
<1>3. ASSUME PulseStore PROVE PulseInv'
  BY <1>3 DEF PulseStore, Reset
<1>4. ASSUME Post PROVE PulseInv'
  BY <1>4 DEF Post
<1>5. ASSUME Quit PROVE PulseInv'
  BY <1>5 DEF Quit
<1>6. ASSUME UNCHANGED pulseVars PROVE PulseInv'
  BY <1>6 DEF pulseVars
<1>7. ASSUME NEW v \in Visitors, Take(v) \/ ReportCrawling(v) \/ ReportCrawled(v) \/ Settle(v)
      PROVE  UNCHANGED pulseVars
  BY <1>7 DEF Take, ReportCrawling, ReportCrawled, Settle
<1>8. ASSUME NEW u \in URLs, Publish(u) PROVE UNCHANGED pulseVars
  BY <1>8 DEF Publish
<1>9. ASSUME ReportQueued \/ IsRunFinished \/ Exit \/ Tick \/ UNCHANGED vars PROVE UNCHANGED pulseVars
  BY <1>9 DEF ReportQueued, IsRunFinished, Exit, Tick, vars
<1> QED BY <1>1, <1>2, <1>3, <1>4, <1>5, <1>6, <1>7, <1>8, <1>9 DEF Next, VisitorStep, Pulse

\* No interleaving of visits with the pulse's load, store and post makes the
\* monitor count a visit twice (observe.go:41-45).
THEOREM PulseIsModest == Spec => []PulseNeverOvercounts
<1>1. Init => PulseInv
  BY DEF Init, PulseInv, PulseNeverOvercounts, PulseMissesOnlyRaced, Held
<1>2. PulseInv => PulseNeverOvercounts
  BY DEF PulseInv
<1> QED BY <1>1, <1>2, StepPulse, PTL DEF Spec

\* And what it makes the monitor miss raced with a reset (observe.go:41-42).
THEOREM PulseLosesRacesOnly == Spec => []PulseMissesOnlyRaced
<1>1. Init => PulseInv
  BY DEF Init, PulseInv, PulseNeverOvercounts, PulseMissesOnlyRaced, Held
<1>2. PulseInv => PulseMissesOnlyRaced
  BY DEF PulseInv
<1> QED BY <1>1, <1>2, StepPulse, PTL DEF Spec

-----------------------------------------------------------------------------
(***************************************************************************)
(* Types, part by part, so that a step is about the parts it touches.      *)
(***************************************************************************)
Statuses == {"none", "queued", "crawling", "crawled"} \cup Terminal

TimeTypes == /\ mode \in Modes /\ now \in Nat /\ enqueuedAt \in Nat
StartTypes == left \subseteq URLs /\ waiting \subseteq URLs /\ enqueued \in URLs \cup {None}
VisitTypes ==
    /\ vpc \in [Visitors -> {"idle", "begin", "visit", "visited", "settle"}]
    /\ vurl \in [Visitors -> URLs \cup {None}]
    /\ \A v \in Visitors : vpc[v] # "idle" <=> vurl[v] # None
    /\ began \in [Visitors -> Nat] /\ fine \in [Visitors -> BOOLEAN]
ProgressTypes ==
    /\ updates \in [URLs -> Statuses]
    /\ firstSeen \in Nat /\ lastSeen \in Nat
    /\ firstSeen <= lastSeen /\ lastSeen <= now
    /\ updated \in 0 .. Buffer
EndTypes == finished \in BOOLEAN /\ exited \in BOOLEAN
PulseTypes ==
    /\ visits \in Nat /\ txns \in Nat /\ sampled \in Nat /\ shown \in Nat /\ raced \in Nat
    /\ beat \in {"idle", "store", "post"} /\ monitor \in {"on", "quit"}

\* TypeOK, part by part, and that the times of updates are natural numbers.
TypeInv == /\ TimeTypes /\ StartTypes /\ VisitTypes /\ files \subseteq URLs
           /\ ProgressTypes /\ EndTypes /\ PulseTypes

LEMMA FrameStart == ASSUME StartTypes, UNCHANGED <<startVars, waiting>> PROVE StartTypes'
  BY DEF StartTypes, startVars
LEMMA FrameVisit == ASSUME VisitTypes, UNCHANGED visitVars PROVE VisitTypes'
  BY DEF VisitTypes, visitVars
LEMMA FrameProgress == ASSUME ProgressTypes, UNCHANGED <<clockVars, progressVars>> PROVE ProgressTypes'
  BY DEF ProgressTypes, progressVars, clockVars
LEMMA FrameEnd == ASSUME EndTypes, UNCHANGED endVars PROVE EndTypes'
  BY DEF EndTypes, endVars
LEMMA FramePulse == ASSUME PulseTypes, UNCHANGED pulseVars PROVE PulseTypes'
  BY DEF PulseTypes, pulseVars
LEMMA FrameTime == ASSUME TimeTypes, UNCHANGED <<clockVars, enqueuedAt>> PROVE TimeTypes'
  BY DEF TimeTypes, clockVars

\* An update recorded now is not older than those before, and its
\* notification fits.
LEMMA CallKeepsTypes ==
  ASSUME TimeTypes, ProgressTypes, NEW u \in URLs, NEW s \in Statuses, Call(u, s), UNCHANGED clockVars
  PROVE  ProgressTypes'
<1>1. updated' \in 0 .. Buffer
  BY ReportingAssumption DEF ProgressTypes, Call, Notify
<1>2. updates' \in [URLs -> Statuses]
  BY DEF ProgressTypes, Call
<1>3. /\ firstSeen' \in Nat /\ lastSeen' \in Nat
      /\ firstSeen' <= lastSeen' /\ lastSeen' <= now'
  BY DEF ProgressTypes, Call, TimeTypes, clockVars
<1> QED BY <1>1, <1>2, <1>3 DEF ProgressTypes

\* A visitor that goes on with its URL.
LEMMA VisitorMoves ==
  ASSUME VisitTypes, NEW v \in Visitors, vpc[v] # "idle", vurl' = vurl,
         NEW p \in {"begin", "visit", "visited", "settle"}, vpc' = [vpc EXCEPT ![v] = p],
         began' \in [Visitors -> Nat], fine' \in [Visitors -> BOOLEAN]
  PROVE  VisitTypes'
  BY DEF VisitTypes

LEMMA StepTypes ==
  ASSUME TypeInv, Next PROVE TypeInv'
<1> USE DEF TypeInv
<1>1. ASSUME NEW u \in URLs, Publish(u) PROVE TypeInv'
  <2>1. StartTypes' BY <1>1 DEF Publish, StartTypes
  <2>2. TimeTypes' BY <1>1, FrameTime DEF Publish
  <2> QED BY <1>1, <2>1, <2>2, FrameVisit, FrameProgress, FrameEnd, FramePulse DEF Publish
<1>2. ASSUME ReportQueued PROVE TypeInv'
  <2>1. enqueued \in URLs /\ Call(enqueued, "queued") /\ UNCHANGED clockVars
    BY <1>2 DEF ReportQueued, StartTypes
  <2>2. ProgressTypes' BY <2>1, CallKeepsTypes DEF Statuses
  <2>3. StartTypes' BY <1>2 DEF ReportQueued, StartTypes
  <2>4. TimeTypes' BY <1>2 DEF ReportQueued, TimeTypes, clockVars
  <2> QED BY <1>2, <2>2, <2>3, <2>4, FrameVisit, FrameEnd, FramePulse DEF ReportQueued
<1>3. ASSUME NEW v \in Visitors, Take(v) PROVE TypeInv'
  <2>1. PICK u \in waiting : waiting' = waiting \ {u} /\ vurl' = [vurl EXCEPT ![v] = u]
    BY <1>3 DEF Take
  <2>2. u \in URLs /\ u # None BY <2>1, ReportingAssumption DEF StartTypes
  <2>3. VisitTypes' BY <1>3, <2>1, <2>2 DEF Take, VisitTypes
  <2>4. StartTypes' BY <1>3, <2>1 DEF Take, StartTypes, startVars
  <2>5. TimeTypes' BY <1>3, FrameTime DEF Take, startVars
  <2> QED BY <1>3, <2>3, <2>4, <2>5, FrameProgress, FrameEnd, FramePulse DEF Take
<1>4. ASSUME NEW v \in Visitors, ReportCrawling(v) PROVE TypeInv'
  <2>1. vurl[v] \in URLs BY <1>4 DEF ReportCrawling, VisitTypes
  <2>2. ProgressTypes' BY <1>4, <2>1, CallKeepsTypes DEF ReportCrawling, Statuses
  <2>3. began' \in [Visitors -> Nat] /\ fine' \in [Visitors -> BOOLEAN]
    BY <1>4 DEF ReportCrawling, VisitTypes, TimeTypes
  <2>4. VisitTypes' BY <1>4, <2>3, VisitorMoves DEF ReportCrawling
  <2>5. TimeTypes' BY <1>4, FrameTime DEF ReportCrawling, startVars
  <2> QED BY <1>4, <2>2, <2>4, <2>5, FrameStart, FrameEnd, FramePulse DEF ReportCrawling
<1>5. ASSUME NEW v \in Visitors, NEW ok \in BOOLEAN, Visit(v, ok) PROVE TypeInv'
  <2>1. vpc[v] # "idle" /\ vurl[v] \in URLs BY <1>5 DEF Visit, Visited, VisitTypes
  <2>2. files' \subseteq URLs BY <1>5, <2>1, ReportingAssumption DEF Visit, ReportToDisk
  <2>3. began' \in [Visitors -> Nat] /\ fine' \in [Visitors -> BOOLEAN]
    BY <1>5 DEF Visit, VisitTypes
  <2>4. VisitTypes' BY <1>5, <2>1, <2>3, VisitorMoves DEF Visit
  <2>5. TimeTypes' BY <1>5, FrameTime DEF Visit, startVars
  <2>6. PulseTypes' BY <1>5 DEF Visit, PulseTypes
  <2> QED BY <1>5, <2>2, <2>4, <2>5, <2>6, FrameStart, FrameProgress, FrameEnd DEF Visit
<1>6. ASSUME NEW v \in Visitors, ReportCrawled(v) PROVE TypeInv'
  <2>1. vurl[v] \in URLs BY <1>6 DEF ReportCrawled, VisitTypes
  <2>2. ProgressTypes' BY <1>6, <2>1, CallKeepsTypes DEF ReportCrawled, Statuses
  <2>3. began' \in [Visitors -> Nat] /\ fine' \in [Visitors -> BOOLEAN]
    BY <1>6 DEF ReportCrawled, VisitTypes
  <2>4. VisitTypes' BY <1>6, <2>3, VisitorMoves DEF ReportCrawled
  <2>5. TimeTypes' BY <1>6, FrameTime DEF ReportCrawled, startVars
  <2> QED BY <1>6, <2>2, <2>4, <2>5, FrameStart, FrameEnd, FramePulse DEF ReportCrawled
<1>7. ASSUME NEW v \in Visitors, Settle(v) PROVE TypeInv'
  <2>1. vurl[v] \in URLs BY <1>7 DEF Settle, VisitTypes
  <2>2. PICK s \in Statuses : Call(vurl[v], s) BY <1>7 DEF Settle, Statuses, Terminal
  <2>3. ProgressTypes' BY <1>7, <2>1, <2>2, CallKeepsTypes DEF Settle
  <2>4. VisitTypes' BY <1>7 DEF Settle, VisitTypes
  <2>5. TimeTypes' BY <1>7, FrameTime DEF Settle, startVars
  <2> QED BY <1>7, <2>3, <2>4, <2>5, FrameStart, FrameEnd, FramePulse DEF Settle
<1>8. ASSUME IsRunFinished PROVE TypeInv'
  <2>1. finished' \in BOOLEAN /\ exited' = exited
    BY <1>8 DEF IsRunFinished, Awake, CheckOnUpdate, CheckOnTick, Check, checkFinished
  <2>2. ProgressTypes'
    <3>1. UNCHANGED <<updates, firstSeen, lastSeen, now>>
      BY <1>8 DEF IsRunFinished, Awake, CheckOnUpdate, CheckOnTick, progressVars, clockVars
    <3>2. updated' = updated \/ (updated > 0 /\ updated' = updated - 1)
      BY <1>8 DEF IsRunFinished, Awake, CheckOnUpdate, CheckOnTick, progressVars
    <3>3. updated' \in 0 .. Buffer BY <3>2, ReportingAssumption DEF ProgressTypes
    <3> QED BY <3>1, <3>3 DEF ProgressTypes
  <2>3. EndTypes' BY <2>1 DEF EndTypes
  <2>4. TimeTypes' BY <1>8, FrameTime DEF IsRunFinished, startVars
  <2> QED BY <1>8, <2>2, <2>3, <2>4, FrameStart, FrameVisit, FramePulse DEF IsRunFinished
<1>9. ASSUME Exit PROVE TypeInv'
  <2>1. EndTypes' BY <1>9 DEF Exit, EndTypes
  <2>2. TimeTypes' BY <1>9, FrameTime DEF Exit, startVars
  <2> QED BY <1>9, <2>1, <2>2, FrameStart, FrameVisit, FrameProgress, FramePulse DEF Exit
<1>10. ASSUME Pulse PROVE TypeInv'
  <2>1. PulseTypes'
    BY <1>10 DEF Pulse, PulseLoad, Load, PulseStore, Reset, Post, Quit, PulseTypes
  <2>2. TimeTypes' BY <1>10, FrameTime DEF Pulse, startVars
  <2> QED BY <1>10, <2>1, <2>2, FrameStart, FrameVisit, FrameProgress, FrameEnd DEF Pulse
<1>11. ASSUME Tick PROVE TypeInv'
  <2>1. TimeTypes' BY <1>11 DEF Tick, TimeTypes, startVars
  <2>2. ProgressTypes' BY <1>11 DEF Tick, TimeTypes, ProgressTypes, progressVars
  <2> QED BY <1>11, <2>1, <2>2, FrameStart, FrameVisit, FrameEnd, FramePulse DEF Tick
<1> QED BY <1>1, <1>2, <1>3, <1>4, <1>5, <1>6, <1>7, <1>8, <1>9, <1>10, <1>11 DEF Next, VisitorStep

LEMMA InitTypes == Init => TypeInv
<1> SUFFICES ASSUME Init PROVE TypeInv
  OBVIOUS
<1>1. TimeTypes /\ EndTypes /\ PulseTypes /\ files \subseteq URLs
  BY DEF Init, TimeTypes, EndTypes, PulseTypes
<1>2. StartTypes
  BY ReportingAssumption DEF Init, StartTypes
<1>3. VisitTypes
  BY DEF Init, VisitTypes
<1>4. updates \in [URLs -> Statuses]
  BY DEF Init, Statuses
<1>5. ProgressTypes
  BY <1>4, ReportingAssumption DEF Init, ProgressTypes
<1> QED BY <1>1, <1>2, <1>3, <1>5 DEF TypeInv

LEMMA NextTypes == ASSUME TypeInv, [Next]_vars PROVE TypeInv'
<1>1. ASSUME UNCHANGED vars PROVE TypeInv'
  BY <1>1, FrameTime, FrameStart, FrameVisit, FrameProgress, FrameEnd, FramePulse DEF TypeInv, vars, startVars
<1> QED BY <1>1, StepTypes

\* For any URLs, visitors, durations and size of the channel every variable
\* has its type: no notification blocks or overflows the channel, no update
\* lies in the future, and a visitor has a URL exactly while it processes one.
THEOREM TypeCorrect == Spec => []TypeOK
<1>1. TypeInv => TypeOK
  BY DEF TypeInv, TypeOK, TimeTypes, StartTypes, VisitTypes, ProgressTypes, Statuses, EndTypes, PulseTypes
<1> QED BY <1>1, InitTypes, NextTypes, PTL DEF Spec

-----------------------------------------------------------------------------
(***************************************************************************)
(* Why the CLI leaves nothing behind.  Once all updates are terminal,      *)
(* Run.Start can only be in a pause, and the URL before it took MinVisit   *)
(* of that pause.  For the rest of it the safety distance must do: each of *)
(* the visitors needs MinVisit for a URL, so the more URLs they are        *)
(* through with, the longer the time between the first update and the      *)
(* last.                                                                   *)
(***************************************************************************)
Visiting(v) == vpc[v] \in {"visit", "visited", "settle"}
Ongoing(u) == u \in waiting \/ \E v \in Visitors : vurl[v] = u

\* A URL is in one place ...
Placed ==
    /\ \A u \in left : updates[u] = "none" /\ u # enqueued /\ ~Ongoing(u)
    /\ \A u \in waiting : \A v \in Visitors : vurl[v] # u
    /\ \A v, w \in Visitors : vurl[v] = vurl[w] /\ vurl[v] # None => v = w

\* ... and as long as it is in one, or being published, it is not settled.
Unsettled ==
    /\ \A u \in URLs : Ongoing(u) => updates[u] \notin Terminal /\ (updates[u] = "none" => enqueued = u)
    /\ \A v \in Visitors : Visiting(v) => updates[vurl[v]] # "none"
    /\ enqueued # None =>
         /\ updates[enqueued] \notin Terminal
         /\ \A v \in Visitors : vurl[v] = enqueued /\ Visiting(v) => vpc[v] = "visit" /\ began[v] = now

Timed ==
    /\ enqueuedAt <= now /\ (Starting => now <= enqueuedAt + MaxGap)
    /\ \A v \in Visitors : Visiting(v) => firstSeen <= began[v] /\ began[v] <= lastSeen
    /\ \A v \in Visitors : vpc[v] \in {"visited", "settle"} => now >= began[v] + MinVisit

\* The URL that was enqueued last is not settled, or its visit was heard of.
Heard ==
    \/ Known = {}
    \/ lastSeen >= enqueuedAt + MinVisit
    \/ \E u \in Known : /\ updates[u] \notin Terminal
                        /\ \A v \in Visitors : vurl[v] = u /\ Visiting(v) => began[v] >= enqueuedAt

\* The URLs that are settled, numbered for each visitor by its visits, of
\* which every one takes MinVisit.
Done == {u \in URLs : updates[u] \in Terminal}
Until(v) == IF Visiting(v) THEN began[v] ELSE lastSeen
Numbers(g) ==
    /\ g \in [Done -> Visitors \X Nat]
    /\ \A x, y \in Done : g[x] = g[y] => x = y
    /\ \A x \in Done : g[x][2] >= 1 /\ firstSeen + g[x][2] * MinVisit <= Until(g[x][1])
Shared == \E g \in [Done -> Visitors \X Nat] : Numbers(g)

InTime == Placed /\ Unsettled /\ Timed /\ Heard /\ Shared

LEMMA NoneIsNoURL == None \notin URLs
BY ReportingAssumption

LEMMA CallIs ==
  ASSUME TypeInv, NEW u \in URLs, NEW s \in Statuses \ {"none"}, Call(u, s)
  PROVE  /\ \A x \in URLs : updates'[x] = IF x = u THEN s ELSE updates[x]
         /\ lastSeen' = now /\ lastSeen <= now
         /\ firstSeen' = (IF Known = {} THEN now ELSE firstSeen) /\ firstSeen' <= now
         /\ Known' = Known \cup {u}
<1>1. /\ \A x \in URLs : updates'[x] = IF x = u THEN s ELSE updates[x]
      /\ lastSeen' = now /\ lastSeen <= now
      /\ firstSeen' = (IF Known = {} THEN now ELSE firstSeen) /\ firstSeen' <= now
  BY DEF Call, TypeInv, ProgressTypes, TimeTypes
<1>2. Known' = Known \cup {u}
  BY <1>1 DEF Known
<1> QED BY <1>1, <1>2

\* As long as nobody settles a URL, the visits counted so far are in time
\* if none of the visitors goes back in it.
LEMMA SharedKept ==
  ASSUME TypeInv, TypeInv', Shared, Done' = Done, Done # {} => firstSeen' = firstSeen,
         \A v \in Visitors : Until(v)' >= Until(v)
  PROVE  Shared'
<1>1. PICK g \in [Done -> Visitors \X Nat] : Numbers(g)
  BY DEF Shared
<1>2. \A v \in Visitors : Until(v) \in Int /\ Until(v)' \in Int
  BY DEF Until, TypeInv, VisitTypes, ProgressTypes
<1>3. g \in [Done' -> Visitors \X Nat]
  OBVIOUS
<1>4. ASSUME NEW x \in Done PROVE g[x][2] >= 1 /\ firstSeen' + g[x][2] * MinVisit <= Until(g[x][1])'
  <2>1. g[x][2] >= 1 /\ firstSeen + g[x][2] * MinVisit <= Until(g[x][1]) /\ g[x] \in Visitors \X Nat
    BY <1>1 DEF Numbers
  <2>2. firstSeen' = firstSeen /\ firstSeen \in Int
    BY DEF TypeInv, ProgressTypes
  <2> DEFINE k == g[x][2] * MinVisit
  <2>3. k \in Int
    <3>1. \A a, b \in Nat : a * b \in Int
      OBVIOUS
    <3> QED BY <2>1, <3>1, ReportingAssumption
  <2>4. g[x][1] \in Visitors
    BY <2>1
  <2>5. Until(g[x][1]) \in Int /\ Until(g[x][1])' \in Int /\ Until(g[x][1])' >= Until(g[x][1])
    BY <1>2, <2>4
  <2> HIDE DEF k
  <2>6. firstSeen + k <= Until(g[x][1])
    BY <2>1 DEF k
  <2>7. firstSeen' + k <= Until(g[x][1])'
    BY <2>2, <2>3, <2>5, <2>6
  <2> QED BY <2>1, <2>7 DEF k
<1>5. Numbers(g)'
  BY <1>1, <1>3, <1>4 DEF Numbers
<1> QED BY <1>3, <1>5 DEF Shared

-----------------------------------------------------------------------------
LEMMA PublishInTime ==
  ASSUME TypeInv, TypeInv', InTime, mode = "cli", NEW u \in URLs, Publish(u) PROVE InTime'
<1> USE DEF InTime
<1>1. /\ enqueued = None /\ u \in left /\ left' = left \ {u} /\ enqueued' = u /\ waiting' = waiting \cup {u}
      /\ UNCHANGED <<now, enqueuedAt, vpc, vurl, began, updates, firstSeen, lastSeen>>
  BY DEF Publish, clockVars, visitVars, progressVars
<1>2. updates[u] = "none" /\ ~Ongoing(u)
  BY <1>1 DEF Placed
<1>3. \A x \in URLs : Ongoing(x)' <=> Ongoing(x) \/ x = u
  BY <1>1 DEF Ongoing
<1>4. Placed'
  <2>1. \A x \in left' : x \in URLs /\ x \in left /\ x # u
    BY <1>1 DEF TypeInv, StartTypes
  <2>2. \A x \in left' : updates'[x] = "none" /\ x # enqueued' /\ ~Ongoing(x)'
    BY <1>1, <1>3, <2>1 DEF Placed
  <2>3. \A x \in waiting' : \A v \in Visitors : vurl'[v] # x
    BY <1>1, <1>2 DEF Placed, Ongoing
  <2> QED BY <1>1, <2>2, <2>3 DEF Placed
<1>5. Unsettled'
  <2>1. \A x \in URLs : Ongoing(x)' => updates'[x] \notin Terminal /\ (updates'[x] = "none" => enqueued' = x)
    BY <1>1, <1>2, <1>3, NoneIsNoURL DEF Unsettled, Terminal
  <2>2. \A v \in Visitors : Visiting(v)' => updates'[vurl'[v]] # "none"
    BY <1>1 DEF Unsettled, Visiting
  <2>3. updates'[enqueued'] \notin Terminal /\ \A v \in Visitors : vurl'[v] # enqueued'
    BY <1>1, <1>2 DEF Ongoing, Terminal
  <2> QED BY <2>1, <2>2, <2>3 DEF Unsettled
<1>6. Timed'
  BY <1>1 DEF Timed, Visiting, Starting
<1>7. Heard'
  <2>1. Known' = Known
    BY <1>1 DEF Known
  <2> QED BY <1>1, <2>1 DEF Heard, Visiting
<1>8. Shared'
  <2>1. \A v \in Visitors : Until(v)' = Until(v) /\ Until(v) \in Int
    BY <1>1 DEF Until, Visiting, TypeInv, VisitTypes, ProgressTypes
  <2>2. Done' = Done
    BY <1>1 DEF Done
  <2>3. \A v \in Visitors : Until(v)' >= Until(v)
    BY <2>1
  <2> QED BY <1>1, <2>2, <2>3, SharedKept
<1> QED BY <1>4, <1>5, <1>6, <1>7, <1>8

LEMMA QueuedInTime ==
  ASSUME TypeInv, TypeInv', InTime, mode = "cli", ReportQueued PROVE InTime'
<1> USE DEF InTime
<1> DEFINE u == enqueued
<1>1. /\ u \in URLs /\ u # None /\ enqueued' = None /\ enqueuedAt' = now
      /\ UNCHANGED <<now, left, waiting, vpc, vurl, began>>
  BY DEF ReportQueued, clockVars, visitVars, TypeInv, StartTypes
<1>2. /\ \A x \in URLs : updates'[x] = IF x = u THEN "queued" ELSE updates[x]
      /\ lastSeen' = now /\ lastSeen <= now
      /\ firstSeen' = (IF Known = {} THEN now ELSE firstSeen) /\ firstSeen' <= now
      /\ Known' = Known \cup {u}
  <2>1. Call(u, "queued") /\ "queued" \in Statuses \ {"none"}
    BY DEF ReportQueued, Statuses
  <2> HIDE DEF u
  <2> QED BY <1>1, <2>1, CallIs
<1>3. \A x : Ongoing(x)' <=> Ongoing(x)
  BY <1>1 DEF Ongoing
<1>4. \A v \in Visitors : Visiting(v)' <=> Visiting(v)
  BY <1>1 DEF Visiting
<1>5. \A v \in Visitors : Visiting(v) => vurl[v] \in URLs /\ vurl[v] \in Known
  <2>1. \A v \in Visitors : Visiting(v) => vurl[v] \in URLs
    BY DEF Visiting, TypeInv, VisitTypes
  <2> QED BY <2>1 DEF Unsettled, Known
<1>6. Placed'
  BY <1>1, <1>2, <1>3, NoneIsNoURL DEF Placed, TypeInv, StartTypes
<1>7. Unsettled'
  <2>1. \A x \in URLs : Ongoing(x)' => updates'[x] \notin Terminal /\ updates'[x] # "none"
    BY <1>2, <1>3 DEF Unsettled, Terminal
  <2>2. \A v \in Visitors : Visiting(v)' => updates'[vurl'[v]] # "none"
    BY <1>1, <1>2, <1>4, <1>5 DEF Unsettled
  <2> QED BY <1>1, <2>1, <2>2 DEF Unsettled
<1>8. Timed'
  <2>1. \A v \in Visitors : Visiting(v)' => firstSeen' <= began'[v] /\ began'[v] <= lastSeen'
    <3> SUFFICES ASSUME NEW v \in Visitors, Visiting(v) PROVE firstSeen' <= began[v] /\ began[v] <= now
      BY <1>1, <1>2, <1>4
    <3>1. Known # {}
      BY <1>5
    <3>2. firstSeen <= began[v] /\ began[v] <= lastSeen
      BY DEF Timed
    <3>3. began[v] \in Nat /\ lastSeen \in Nat /\ now \in Nat
      BY DEF TypeInv, VisitTypes, ProgressTypes, TimeTypes
    <3> QED BY <1>2, <3>1, <3>2, <3>3
  <2>2. \A v \in Visitors : vpc'[v] \in {"visited", "settle"} => now' >= began'[v] + MinVisit
    BY <1>1 DEF Timed
  <2>3. enqueuedAt' <= now' /\ now' <= enqueuedAt' + MaxGap
    BY <1>1, ReportingAssumption DEF TypeInv, TimeTypes
  <2> QED BY <2>1, <2>2, <2>3 DEF Timed
<1>9. Heard'
  <2>1. u \in Known' /\ updates'[u] \notin Terminal
    BY <1>1, <1>2 DEF Terminal
  <2>2. \A v \in Visitors : vurl'[v] = u /\ Visiting(v)' => began'[v] >= enqueuedAt'
    <3> SUFFICES ASSUME NEW v \in Visitors, vurl[v] = u, Visiting(v) PROVE began[v] >= now
      BY <1>1, <1>4
    <3>1. began[v] = now
      BY <1>1 DEF Unsettled
    <3> QED BY <3>1 DEF TypeInv, TimeTypes
  <2> QED BY <2>1, <2>2 DEF Heard
<1>10. Shared'
  <2>1. Done' = Done
    <3>1. updates[u] \notin Terminal
      BY <1>1 DEF Unsettled
    <3> QED BY <1>2, <3>1 DEF Done, Terminal
  <2>2. Done # {} => firstSeen' = firstSeen
    BY <1>2 DEF Done, Known, Terminal
  <2>3. \A v \in Visitors : Until(v)' >= Until(v)
    BY <1>1, <1>2, <1>4 DEF Until, TypeInv, VisitTypes, ProgressTypes
  <2> QED BY <2>1, <2>2, <2>3, SharedKept
<1> QED BY <1>6, <1>7, <1>8, <1>9, <1>10

LEMMA TakeInTime ==
  ASSUME TypeInv, TypeInv', InTime, mode = "cli", NEW v \in Visitors, Take(v) PROVE InTime'
<1> USE DEF InTime
<1>1. PICK u \in waiting : waiting' = waiting \ {u} /\ vurl' = [vurl EXCEPT ![v] = u]
  BY DEF Take
<1>2. /\ vpc[v] = "idle" /\ vurl[v] = None /\ u \in URLs /\ u # None
      /\ UNCHANGED <<now, left, enqueued, enqueuedAt, began, updates, firstSeen, lastSeen>>
  BY <1>1, NoneIsNoURL DEF Take, clockVars, startVars, progressVars, TypeInv, VisitTypes, StartTypes
<1>3. /\ \A w \in Visitors : vurl'[w] = IF w = v THEN u ELSE vurl[w]
      /\ \A w \in Visitors : vpc'[w] = IF w = v THEN "begin" ELSE vpc[w]
  BY <1>1 DEF Take, TypeInv, VisitTypes
<1>4. \A w \in Visitors : Visiting(w)' <=> Visiting(w)
  BY <1>2, <1>3 DEF Visiting
<1>5. \A x \in URLs : Ongoing(x)' <=> Ongoing(x)
  BY <1>1, <1>2, <1>3, NoneIsNoURL DEF Ongoing
<1>6. Placed'
  <2>1. \A x \in left' : updates'[x] = "none" /\ x # enqueued' /\ ~Ongoing(x)'
    BY <1>2, <1>5 DEF Placed, TypeInv, StartTypes
  <2>2. \A x \in waiting' : \A w \in Visitors : vurl'[w] # x
    BY <1>1, <1>3 DEF Placed
  <2>3. \A w, x \in Visitors : vurl'[w] = vurl'[x] /\ vurl'[w] # None => w = x
    BY <1>1, <1>3 DEF Placed
  <2> QED BY <2>1, <2>2, <2>3 DEF Placed
<1>7. \A w \in Visitors : Visiting(w) => w # v
  BY <1>2 DEF Visiting
<1>8. Unsettled'
  BY <1>2, <1>3, <1>4, <1>5, <1>7 DEF Unsettled
<1>9. Timed'
  BY <1>2, <1>3, <1>4 DEF Timed, Starting
<1>10. Heard'
  <2>1. Known' = Known
    BY <1>2 DEF Known
  <2> QED BY <1>2, <1>3, <1>4, <1>7, <2>1 DEF Heard
<1>11. Shared'
  <2>1. \A w \in Visitors : Until(w)' >= Until(w)
    BY <1>2, <1>4 DEF Until, TypeInv, VisitTypes, ProgressTypes
  <2>2. Done' = Done
    BY <1>2 DEF Done
  <2> QED BY <1>2, <2>1, <2>2, SharedKept
<1> QED BY <1>6, <1>8, <1>9, <1>10, <1>11

LEMMA CrawlingInTime ==
  ASSUME TypeInv, TypeInv', InTime, mode = "cli", NEW v \in Visitors, ReportCrawling(v) PROVE InTime'
<1> USE DEF InTime
<1> DEFINE u == vurl[v]
<1>1. /\ vpc[v] = "begin" /\ u \in URLs
      /\ UNCHANGED <<now, left, enqueued, enqueuedAt, waiting, vurl>>
  BY DEF ReportCrawling, clockVars, startVars, TypeInv, VisitTypes
<1>2. /\ \A x \in URLs : updates'[x] = IF x = u THEN "crawling" ELSE updates[x]
      /\ lastSeen' = now /\ lastSeen <= now
      /\ firstSeen' = (IF Known = {} THEN now ELSE firstSeen) /\ firstSeen' <= now
      /\ Known' = Known \cup {u}
  <2>1. Call(u, "crawling") /\ "crawling" \in Statuses \ {"none"}
    BY DEF ReportCrawling, Statuses
  <2> HIDE DEF u
  <2> QED BY <1>1, <2>1, CallIs
<1>3. /\ \A w \in Visitors : began'[w] = IF w = v THEN now ELSE began[w]
      /\ \A w \in Visitors : vpc'[w] = IF w = v THEN "visit" ELSE vpc[w]
  BY DEF ReportCrawling, TypeInv, VisitTypes
<1>4. \A w \in Visitors : (Visiting(w)' <=> Visiting(w) \/ w = v) /\ ~Visiting(v)
  BY <1>1, <1>3 DEF Visiting
<1>5. \A x : Ongoing(x)' <=> Ongoing(x)
  BY <1>1 DEF Ongoing
<1>6. \A w \in Visitors : Visiting(w) => vurl[w] \in URLs /\ vurl[w] \in Known
  <2>1. \A w \in Visitors : Visiting(w) => vurl[w] \in URLs
    BY DEF Visiting, TypeInv, VisitTypes
  <2> QED BY <2>1 DEF Unsettled, Known
<1>7. Ongoing(u) /\ updates[u] \notin Terminal
  BY <1>1 DEF Ongoing, Unsettled
<1>8. Placed'
  BY <1>1, <1>2, <1>5, <1>7 DEF Placed, TypeInv, StartTypes
<1>9. Unsettled'
  <2>1. \A x \in URLs : Ongoing(x)' => updates'[x] \notin Terminal /\ (updates'[x] = "none" => enqueued' = x)
    BY <1>1, <1>2, <1>5 DEF Unsettled, Terminal
  <2>2. \A w \in Visitors : Visiting(w)' => updates'[vurl'[w]] # "none"
    BY <1>1, <1>2, <1>4, <1>6 DEF Unsettled
  <2>3. enqueued # None => updates'[enqueued] \notin Terminal
    BY <1>2 DEF Unsettled, Terminal, TypeInv, StartTypes
  <2>4. enqueued # None =>
          \A w \in Visitors : vurl[w] = enqueued /\ Visiting(w)' => vpc'[w] = "visit" /\ began'[w] = now
    BY <1>3, <1>4 DEF Unsettled
  <2> QED BY <1>1, <2>1, <2>2, <2>3, <2>4 DEF Unsettled
<1>10. Timed'
  <2>1. \A w \in Visitors : Visiting(w)' => firstSeen' <= began'[w] /\ began'[w] <= lastSeen'
    <3> SUFFICES ASSUME NEW w \in Visitors, Visiting(w)' PROVE firstSeen' <= began'[w] /\ began'[w] <= now
      BY <1>2
    <3>1. CASE w = v
      BY <1>2, <1>3, <3>1 DEF TypeInv, TimeTypes
    <3>2. CASE w # v
      <4>1. Visiting(w) /\ Known # {} /\ began'[w] = began[w]
        BY <1>3, <1>4, <1>6, <3>2
      <4>2. firstSeen <= began[w] /\ began[w] <= lastSeen
        BY <4>1 DEF Timed
      <4>3. began[w] \in Nat /\ lastSeen \in Nat /\ now \in Nat
        BY DEF TypeInv, VisitTypes, ProgressTypes, TimeTypes
      <4> QED BY <1>2, <4>1, <4>2, <4>3
    <3> QED BY <3>1, <3>2
  <2>2. \A w \in Visitors : vpc'[w] \in {"visited", "settle"} => now' >= began'[w] + MinVisit
    BY <1>1, <1>3 DEF Timed
  <2> QED BY <1>1, <2>1, <2>2 DEF Timed, Starting
<1>11. Heard'
  <2>1. CASE Known = {}
    <3>1. u \in Known' /\ updates'[u] \notin Terminal
      BY <1>1, <1>2 DEF Terminal
    <3>2. \A w \in Visitors : vurl'[w] = u /\ Visiting(w)' => began'[w] >= enqueuedAt'
      <4>1. \A w \in Visitors : vurl'[w] = u => w = v
        BY <1>1, NoneIsNoURL DEF Placed
      <4>2. now >= enqueuedAt
        BY DEF Timed, TypeInv, TimeTypes
      <4> QED BY <1>1, <1>3, <4>1, <4>2
    <3> QED BY <3>1, <3>2 DEF Heard
  <2>2. CASE lastSeen >= enqueuedAt + MinVisit
    <3>1. lastSeen' >= enqueuedAt' + MinVisit
      BY <1>1, <1>2, <2>2, ReportingAssumption DEF TypeInv, ProgressTypes, TimeTypes
    <3> QED BY <3>1 DEF Heard
  <2>3. CASE \E x \in Known : /\ updates[x] \notin Terminal
                              /\ \A w \in Visitors : vurl[w] = x /\ Visiting(w) => began[w] >= enqueuedAt
    <3>1. PICK x \in Known : /\ updates[x] \notin Terminal
                             /\ \A w \in Visitors : vurl[w] = x /\ Visiting(w) => began[w] >= enqueuedAt
      BY <2>3
    <3>2. x \in Known' /\ updates'[x] \notin Terminal
      BY <1>2, <3>1 DEF Terminal, Known
    <3>3. now >= enqueuedAt
      BY DEF Timed, TypeInv, TimeTypes
    <3>4. \A w \in Visitors : vurl'[w] = x /\ Visiting(w)' => began'[w] >= enqueuedAt'
      BY <1>1, <1>3, <1>4, <3>1, <3>3
    <3> QED BY <3>2, <3>4 DEF Heard
  <2> QED BY <2>1, <2>2, <2>3 DEF Heard
<1>12. Shared'
  <2>1. Done' = Done
    BY <1>2, <1>7 DEF Done, Terminal
  <2>2. Done # {} => firstSeen' = firstSeen
    BY <1>2 DEF Done, Known, Terminal
  <2>3. \A w \in Visitors : Until(w)' >= Until(w)
    BY <1>2, <1>3, <1>4 DEF Until, TypeInv, VisitTypes, ProgressTypes, TimeTypes
  <2> QED BY <2>1, <2>2, <2>3, SharedKept
<1> QED BY <1>8, <1>9, <1>10, <1>11, <1>12

\* Nothing but the numbers of the pulse, the files or the notifications.
LEMMA ElseInTime ==
  ASSUME TypeInv, TypeInv', InTime,
         UNCHANGED <<now, startVars, waiting, vpc, vurl, began, updates, firstSeen, lastSeen>>
  PROVE  InTime'
<1> USE DEF InTime, startVars
<1>1. Placed' /\ Unsettled'
  BY DEF Placed, Unsettled, Ongoing, Visiting
<1>2. Timed'
  BY DEF Timed, Visiting, Starting
<1>3. Heard'
  BY DEF Heard, Known, Visiting
<1>4. Shared'
  <2>1. Done' = Done
    BY DEF Done
  <2>2. \A v \in Visitors : Until(v)' >= Until(v)
    BY DEF Until, Visiting, TypeInv, VisitTypes, ProgressTypes
  <2> QED BY <2>1, <2>2, SharedKept
<1> QED BY <1>1, <1>2, <1>3, <1>4

LEMMA VisitInTime ==
  ASSUME TypeInv, TypeInv', InTime, mode = "cli", NEW v \in Visitors, NEW ok \in BOOLEAN, Visit(v, ok)
  PROVE  InTime'
<1> USE DEF InTime
<1>1. /\ vpc[v] = "visit" /\ now >= began[v] + MinVisit
      /\ UNCHANGED <<now, left, enqueued, enqueuedAt, waiting, vurl, began, updates, firstSeen, lastSeen>>
  BY DEF Visit, Visited, clockVars, startVars, progressVars
<1>2. \A w \in Visitors : vpc'[w] = IF w = v THEN "visited" ELSE vpc[w]
  BY DEF Visit, TypeInv, VisitTypes
<1>3. \A w \in Visitors : Visiting(w)' <=> Visiting(w)
  BY <1>1, <1>2 DEF Visiting
<1>4. Visiting(v)
  BY <1>1 DEF Visiting
<1>5. Placed'
  BY <1>1 DEF Placed, Ongoing
<1>6. Unsettled'
  <2>1. enqueued # None => vurl[v] # enqueued
    <3>1. began[v] # now
      BY <1>1, ReportingAssumption DEF TypeInv, VisitTypes, TimeTypes
    <3> QED BY <1>4, <3>1 DEF Unsettled
  <2> QED BY <1>1, <1>2, <1>3, <2>1 DEF Unsettled, Ongoing
<1>7. Timed'
  BY <1>1, <1>2, <1>3 DEF Timed, Starting
<1>8. Heard'
  <2>1. Known' = Known
    BY <1>1 DEF Known
  <2> QED BY <1>1, <1>3, <2>1 DEF Heard
<1>9. Shared'
  <2>1. \A w \in Visitors : Until(w)' >= Until(w)
    BY <1>1, <1>3 DEF Until, TypeInv, VisitTypes, ProgressTypes
  <2>2. Done' = Done
    BY <1>1 DEF Done
  <2> QED BY <1>1, <2>1, <2>2, SharedKept
<1> QED BY <1>5, <1>6, <1>7, <1>8, <1>9

LEMMA CrawledInTime ==
  ASSUME TypeInv, TypeInv', InTime, mode = "cli", NEW v \in Visitors, ReportCrawled(v) PROVE InTime'
<1> USE DEF InTime
<1> DEFINE u == vurl[v]
<1>1. /\ vpc[v] = "visited" /\ u \in URLs
      /\ UNCHANGED <<now, left, enqueued, enqueuedAt, waiting, vurl, began>>
  BY DEF ReportCrawled, clockVars, startVars, TypeInv, VisitTypes
<1>2. /\ \A x \in URLs : updates'[x] = IF x = u THEN "crawled" ELSE updates[x]
      /\ lastSeen' = now /\ lastSeen <= now
      /\ firstSeen' = (IF Known = {} THEN now ELSE firstSeen) /\ firstSeen' <= now
      /\ Known' = Known \cup {u}
  <2>1. Call(u, "crawled") /\ "crawled" \in Statuses \ {"none"}
    BY DEF ReportCrawled, Statuses
  <2> HIDE DEF u
  <2> QED BY <1>1, <2>1, CallIs
<1>3. \A w \in Visitors : vpc'[w] = IF w = v THEN "settle" ELSE vpc[w]
  BY DEF ReportCrawled, TypeInv, VisitTypes
<1>4. (\A w \in Visitors : Visiting(w)' <=> Visiting(w)) /\ Visiting(v)
  BY <1>1, <1>3 DEF Visiting
<1>5. \A x : Ongoing(x)' <=> Ongoing(x)
  BY <1>1 DEF Ongoing
<1>6. Ongoing(u) /\ updates[u] \notin Terminal /\ u \in Known /\ u # enqueued
  BY <1>1, <1>4, NoneIsNoURL DEF Ongoing, Unsettled, Known
<1>7. firstSeen' = firstSeen /\ Known' = Known
  BY <1>2, <1>6
<1>8. Placed'
  BY <1>1, <1>2, <1>5, <1>6 DEF Placed, TypeInv, StartTypes
<1>9. Unsettled'
  <2>1. \A x \in URLs : Ongoing(x)' => updates'[x] \notin Terminal /\ (updates'[x] = "none" => enqueued' = x)
    BY <1>1, <1>2, <1>5 DEF Unsettled, Terminal
  <2>2. \A w \in Visitors : Visiting(w)' => updates'[vurl'[w]] # "none"
    <3> SUFFICES ASSUME NEW w \in Visitors, Visiting(w) PROVE updates'[vurl[w]] # "none"
      BY <1>1, <1>4
    <3>1. vurl[w] \in URLs /\ updates[vurl[w]] # "none"
      BY DEF Unsettled, Visiting, TypeInv, VisitTypes
    <3> QED BY <1>2, <3>1
  <2>3. enqueued # None => updates'[enqueued] \notin Terminal
    BY <1>2 DEF Unsettled, Terminal, TypeInv, StartTypes
  <2>4. enqueued # None =>
          \A w \in Visitors : vurl[w] = enqueued /\ Visiting(w)' => vpc'[w] = "visit" /\ began[w] = now
    BY <1>3, <1>4, <1>6 DEF Unsettled
  <2> QED BY <1>1, <2>1, <2>2, <2>3, <2>4 DEF Unsettled
<1>10. Timed'
  <2>1. \A w \in Visitors : Visiting(w)' => firstSeen' <= began'[w] /\ began'[w] <= lastSeen'
    <3> SUFFICES ASSUME NEW w \in Visitors, Visiting(w) PROVE firstSeen <= began[w] /\ began[w] <= now
      BY <1>1, <1>2, <1>4, <1>7
    <3>1. firstSeen <= began[w] /\ began[w] <= lastSeen
      BY DEF Timed
    <3>2. began[w] \in Nat /\ lastSeen \in Nat /\ now \in Nat
      BY DEF TypeInv, VisitTypes, ProgressTypes, TimeTypes
    <3> QED BY <1>2, <3>1, <3>2
  <2>2. \A w \in Visitors : vpc'[w] \in {"visited", "settle"} => now' >= began'[w] + MinVisit
    BY <1>1, <1>3 DEF Timed
  <2> QED BY <1>1, <2>1, <2>2 DEF Timed, Starting
<1>11. Heard'
  <2>1. CASE lastSeen >= enqueuedAt + MinVisit
    <3>1. lastSeen' >= enqueuedAt' + MinVisit
      BY <1>1, <1>2, <2>1, ReportingAssumption DEF TypeInv, ProgressTypes, TimeTypes
    <3> QED BY <3>1 DEF Heard
  <2>2. CASE \E x \in Known : /\ updates[x] \notin Terminal
                              /\ \A w \in Visitors : vurl[w] = x /\ Visiting(w) => began[w] >= enqueuedAt
    <3>1. PICK x \in Known : /\ updates[x] \notin Terminal
                             /\ \A w \in Visitors : vurl[w] = x /\ Visiting(w) => began[w] >= enqueuedAt
      BY <2>2
    <3>2. x \in Known' /\ updates'[x] \notin Terminal
      BY <1>2, <3>1 DEF Terminal, Known
    <3>3. \A w \in Visitors : vurl'[w] = x /\ Visiting(w)' => began'[w] >= enqueuedAt'
      BY <1>1, <1>4, <3>1
    <3> QED BY <3>2, <3>3 DEF Heard
  <2> QED BY <1>6, <2>1, <2>2 DEF Heard
<1>12. Shared'
  <2>1. Done' = Done
    BY <1>2, <1>6 DEF Done, Terminal
  <2>2. \A w \in Visitors : Until(w)' >= Until(w)
    BY <1>1, <1>2, <1>4 DEF Until, TypeInv, VisitTypes, ProgressTypes, TimeTypes
  <2> QED BY <1>7, <2>1, <2>2, SharedKept
<1> QED BY <1>8, <1>9, <1>10, <1>11, <1>12

-----------------------------------------------------------------------------
\* A visitor that settles a URL numbers it with the next of its visits.
LEMMA Numbered ==
  ASSUME TypeInv, NEW g, Numbers(g), NEW v \in Visitors, firstSeen <= began[v], Until(v) = began[v]
  PROVE  \E k \in Nat : /\ \A x \in Done : g[x][1] = v => g[x][2] <= k
                        /\ firstSeen + k * MinVisit <= began[v]
<1> DEFINE d == began[v] - firstSeen
           M == MinVisit
           k == d \div M
<1>1. M \in Nat /\ M > 0
  BY ReportingAssumption
<1>2. d \in Nat /\ firstSeen \in Nat /\ began[v] \in Nat /\ began[v] = firstSeen + d
  BY DEF TypeInv, VisitTypes, ProgressTypes
<1> HIDE DEF d, M
<1>3. k \in Nat /\ k * M <= d /\ d < (k + 1) * M
  BY <1>1, <1>2
<1>4. ASSUME NEW x \in Done, g[x][1] = v PROVE g[x][2] <= k
  <2> DEFINE i == g[x][2]
  <2>1. i \in Nat /\ firstSeen + i * M <= began[v]
    BY <1>4 DEF Numbers, M
  <2> HIDE DEF i, k
  <2>2. \A a, b, c \in Nat : a >= b => a * c >= b * c
    BY SMTT(30)
  <2>3. i * M \in Nat /\ (k + 1) * M \in Nat
    BY <1>1, <1>3, <2>1
  <2>4. i * M <= d
    BY <1>2, <2>1, <2>3
  <2>5. i >= k + 1 => i * M >= (k + 1) * M
    BY <1>1, <1>3, <2>1, <2>2
  <2>6. i <= k
    BY <1>2, <1>3, <2>1, <2>3, <2>4, <2>5
  <2> QED BY <2>6 DEF i
<1>5. firstSeen + k * M <= began[v]
  <2> HIDE DEF k
  <2>1. k * M \in Nat
    BY <1>1, <1>3
  <2> QED BY <1>2, <1>3, <2>1
<1> QED BY <1>3, <1>4, <1>5 DEF M

LEMMA SettleInTime ==
  ASSUME TypeInv, TypeInv', InTime, mode = "cli", NEW v \in Visitors, Settle(v) PROVE InTime'
<1> USE DEF InTime
<1> DEFINE u == vurl[v]
<1>1. /\ vpc[v] = "settle" /\ u \in URLs /\ u # None
      /\ UNCHANGED <<now, left, enqueued, enqueuedAt, waiting>>
  BY NoneIsNoURL DEF Settle, clockVars, startVars, TypeInv, VisitTypes
<1>2. PICK s \in Terminal : Call(u, s)
  BY DEF Settle, Terminal
<1>3. /\ \A x \in URLs : updates'[x] = IF x = u THEN s ELSE updates[x]
      /\ lastSeen' = now /\ lastSeen <= now
      /\ firstSeen' = (IF Known = {} THEN now ELSE firstSeen) /\ firstSeen' <= now
      /\ Known' = Known \cup {u}
  <2>1. s \in Statuses \ {"none"}
    BY DEF Statuses, Terminal
  <2> HIDE DEF u
  <2> QED BY <1>1, <1>2, <2>1, CallIs
<1>4. /\ \A w \in Visitors : vpc'[w] = IF w = v THEN "idle" ELSE vpc[w]
      /\ \A w \in Visitors : vurl'[w] = IF w = v THEN None ELSE vurl[w]
      /\ \A w \in Visitors : began'[w] = IF w = v THEN 0 ELSE began[w]
  BY DEF Settle, TypeInv, VisitTypes
<1>5. (\A w \in Visitors : Visiting(w)' <=> Visiting(w) /\ w # v) /\ Visiting(v)
  BY <1>1, <1>4 DEF Visiting
<1>6. Ongoing(u) /\ updates[u] \notin Terminal /\ u \in Known /\ u # enqueued
  BY <1>1, <1>5 DEF Ongoing, Unsettled, Known
<1>7. \A x \in URLs : Ongoing(x)' <=> Ongoing(x) /\ x # u
  <2>1. u \notin waiting
    BY DEF Placed
  <2>2. \A w \in Visitors : w # v => vurl[w] # u
    BY <1>1 DEF Placed
  <2> QED BY <1>1, <1>4, <2>1, <2>2, NoneIsNoURL DEF Ongoing
<1>8. firstSeen' = firstSeen /\ Known' = Known
  BY <1>3, <1>6
<1>9. now >= began[v] + MinVisit /\ began[v] \in Nat /\ firstSeen <= began[v] /\ began[v] <= lastSeen
  BY <1>1, <1>5 DEF Timed, TypeInv, VisitTypes
<1>10. Placed'
  <2>1. \A x \in left' : x \in URLs /\ updates'[x] = "none" /\ x # enqueued' /\ ~Ongoing(x)'
    BY <1>1, <1>3, <1>6, <1>7 DEF Placed, TypeInv, StartTypes
  <2>2. \A x \in waiting' : \A w \in Visitors : vurl'[w] # x
    BY <1>1, <1>4, NoneIsNoURL DEF Placed, TypeInv, StartTypes
  <2>3. \A w, x \in Visitors : vurl'[w] = vurl'[x] /\ vurl'[w] # None => w = x
    BY <1>4 DEF Placed
  <2> QED BY <2>1, <2>2, <2>3 DEF Placed
<1>11. Unsettled'
  <2>1. \A x \in URLs : Ongoing(x)' => updates'[x] \notin Terminal /\ (updates'[x] = "none" => enqueued' = x)
    BY <1>1, <1>3, <1>7 DEF Unsettled
  <2>2. \A w \in Visitors : Visiting(w)' => updates'[vurl'[w]] # "none"
    <3> SUFFICES ASSUME NEW w \in Visitors, Visiting(w), w # v PROVE updates'[vurl[w]] # "none"
      BY <1>4, <1>5
    <3>1. vurl[w] \in URLs /\ updates[vurl[w]] # "none"
      BY DEF Unsettled, Visiting, TypeInv, VisitTypes
    <3> QED BY <1>3, <3>1 DEF Terminal
  <2>3. enqueued # None => updates'[enqueued] \notin Terminal
    BY <1>3, <1>6 DEF Unsettled, TypeInv, StartTypes
  <2>4. enqueued # None =>
          \A w \in Visitors : vurl'[w] = enqueued /\ Visiting(w)' => vpc'[w] = "visit" /\ began'[w] = now
    BY <1>4, <1>5 DEF Unsettled
  <2> QED BY <1>1, <2>1, <2>2, <2>3, <2>4 DEF Unsettled
<1>12. Timed'
  <2>1. \A w \in Visitors : Visiting(w)' => firstSeen' <= began'[w] /\ began'[w] <= lastSeen'
    <3> SUFFICES ASSUME NEW w \in Visitors, Visiting(w) PROVE firstSeen <= began[w] /\ began[w] <= now
      BY <1>3, <1>4, <1>5, <1>8
    <3>1. firstSeen <= began[w] /\ began[w] <= lastSeen
      BY DEF Timed
    <3>2. began[w] \in Nat /\ lastSeen \in Nat /\ now \in Nat
      BY DEF TypeInv, VisitTypes, ProgressTypes, TimeTypes
    <3> QED BY <1>3, <3>1, <3>2
  <2>2. \A w \in Visitors : vpc'[w] \in {"visited", "settle"} => now' >= began'[w] + MinVisit
    BY <1>1, <1>4 DEF Timed
  <2> QED BY <1>1, <2>1, <2>2 DEF Timed, Starting
<1>13. Heard'
  <2>1. CASE lastSeen >= enqueuedAt + MinVisit
    <3>1. lastSeen' >= enqueuedAt' + MinVisit
      BY <1>1, <1>3, <2>1, ReportingAssumption DEF TypeInv, ProgressTypes, TimeTypes
    <3> QED BY <3>1 DEF Heard
  <2>2. CASE \E x \in Known : /\ updates[x] \notin Terminal
                              /\ \A w \in Visitors : vurl[w] = x /\ Visiting(w) => began[w] >= enqueuedAt
    <3>1. PICK x \in Known : /\ updates[x] \notin Terminal
                             /\ \A w \in Visitors : vurl[w] = x /\ Visiting(w) => began[w] >= enqueuedAt
      BY <2>2
    <3>2. CASE x = u
      <4>1. began[v] >= enqueuedAt
        BY <1>5, <3>1, <3>2
      <4>2. lastSeen' >= enqueuedAt' + MinVisit
        BY <1>1, <1>3, <1>9, <4>1, ReportingAssumption DEF TypeInv, TimeTypes
      <4> QED BY <4>2 DEF Heard
    <3>3. CASE x # u
      <4>1. x \in Known' /\ updates'[x] \notin Terminal
        BY <1>3, <3>1, <3>3 DEF Known
      <4>2. \A w \in Visitors : vurl'[w] = x /\ Visiting(w)' => began'[w] >= enqueuedAt'
        BY <1>1, <1>4, <1>5, <3>1
      <4> QED BY <4>1, <4>2 DEF Heard
    <3> QED BY <3>2, <3>3
  <2> QED BY <1>6, <2>1, <2>2 DEF Heard
<1>14. Shared'
  <2>1. Done' = Done \cup {u} /\ u \notin Done
    BY <1>1, <1>3, <1>6 DEF Done
  <2>2. \A w \in Visitors : Until(w) \in Int /\ Until(w)' \in Int /\ Until(w)' >= Until(w)
    BY <1>3, <1>4, <1>5, <1>9 DEF Until, TypeInv, VisitTypes, ProgressTypes, TimeTypes
  <2>3. PICK g \in [Done -> Visitors \X Nat] : Numbers(g)
    BY DEF Shared
  <2>4. Until(v) = began[v] /\ Until(v)' = now
    BY <1>3, <1>5 DEF Until
  <2>5. PICK k \in Nat : /\ \A x \in Done : g[x][1] = v => g[x][2] <= k
                         /\ firstSeen + k * MinVisit <= began[v]
    BY <1>9, <2>3, <2>4, Numbered
  <2>6. PICK h \in [Done' -> Visitors \X Nat] : \A x \in Done' : h[x] = IF x = u THEN <<v, k + 1>> ELSE g[x]
    <3> DEFINE f == [x \in Done' |-> IF x = u THEN <<v, k + 1>> ELSE g[x]]
    <3>1. <<v, k + 1>> \in Visitors \X Nat
      OBVIOUS
    <3>2. f \in [Done' -> Visitors \X Nat]
      BY <2>1, <3>1
    <3>3. \A x \in Done' : f[x] = IF x = u THEN <<v, k + 1>> ELSE g[x]
      OBVIOUS
    <3> HIDE DEF f
    <3> QED BY <3>2, <3>3
  <2>7. \A x, y \in Done' : h[x] = h[y] => x = y
    <3>1. ASSUME NEW x \in Done PROVE g[x] # <<v, k + 1>>
      <4>1. g[x] = <<v, k + 1>> => k + 1 <= k
        BY <2>5
      <4> QED BY <4>1
    <3>2. \A x, y \in Done : g[x] = g[y] => x = y
      BY <2>3 DEF Numbers
    <3> QED BY <2>1, <2>6, <3>1, <3>2
  <2>8. ASSUME NEW x \in Done' PROVE h[x][2] >= 1 /\ firstSeen' + h[x][2] * MinVisit <= Until(h[x][1])'
    <3>1. CASE x = u
      <4> DEFINE M == MinVisit
                 p == k * M
      <4>1. h[x][1] = v /\ h[x][2] = k + 1
        BY <2>6, <3>1
      <4>2. M \in Nat /\ p \in Nat /\ (k + 1) * M = p + M
        BY ReportingAssumption
      <4>3. firstSeen + p <= began[v] /\ now >= began[v] + M
        BY <1>9, <2>5
      <4> HIDE DEF p, M
      <4>4. firstSeen + (k + 1) * M <= now
        BY <1>9, <4>2, <4>3 DEF TypeInv, ProgressTypes, TimeTypes
      <4> QED BY <1>8, <2>4, <4>1, <4>4 DEF M
    <3>2. CASE x # u
      <4> DEFINE i == g[x][2]
                 p == i * MinVisit
      <4>1. x \in Done /\ h[x] = g[x]
        BY <2>1, <2>6, <3>2
      <4>2. i \in Nat /\ i >= 1 /\ firstSeen + p <= Until(g[x][1]) /\ g[x][1] \in Visitors
        BY <2>3, <4>1 DEF Numbers
      <4>3. p \in Nat
        BY <4>2, ReportingAssumption
      <4> HIDE DEF p
      <4>4. firstSeen + p <= Until(g[x][1])'
        BY <2>2, <4>2, <4>3 DEF TypeInv, ProgressTypes
      <4> QED BY <1>8, <4>1, <4>2, <4>4 DEF p
    <3> QED BY <3>1, <3>2
  <2>9. Numbers(h)'
    BY <2>6, <2>7, <2>8 DEF Numbers
  <2> QED BY <2>6, <2>9 DEF Shared
<1> QED BY <1>10, <1>11, <1>12, <1>13, <1>14

LEMMA TickInTime == ASSUME TypeInv, TypeInv', InTime, Tick PROVE InTime'
<1> USE DEF InTime
<1>1. /\ now' = now + 1 /\ enqueued = None /\ (left # {} => now < enqueuedAt + MaxGap)
      /\ UNCHANGED <<left, enqueued, enqueuedAt, waiting, vpc, vurl, began, updates, firstSeen, lastSeen>>
  BY DEF Tick, startVars, visitVars, progressVars
<1>2. now \in Nat /\ enqueuedAt \in Nat
  BY DEF TypeInv, TimeTypes
<1>3. Placed'
  BY <1>1 DEF Placed, Ongoing
<1>4. Unsettled'
  BY <1>1 DEF Unsettled, Ongoing, Visiting
<1>5. Timed'
  <2>1. \A v \in Visitors : vpc[v] \in {"visited", "settle"} => now + 1 >= began[v] + MinVisit
    BY <1>2, ReportingAssumption DEF Timed, TypeInv, VisitTypes
  <2>2. enqueuedAt' <= now' /\ (Starting' => now' <= enqueuedAt' + MaxGap)
    BY <1>1, <1>2, ReportingAssumption DEF Timed, Starting
  <2> QED BY <1>1, <2>1, <2>2 DEF Timed, Visiting
<1>6. Heard'
  BY <1>1 DEF Heard, Known, Visiting
<1>7. Shared'
  <2>1. Done' = Done
    BY <1>1 DEF Done
  <2>2. \A v \in Visitors : Until(v)' >= Until(v)
    BY <1>1 DEF Until, Visiting, TypeInv, VisitTypes, ProgressTypes
  <2> QED BY <1>1, <2>1, <2>2, SharedKept
<1> QED BY <1>3, <1>4, <1>5, <1>6, <1>7

-----------------------------------------------------------------------------
(***************************************************************************)
(* The time between two of K URLs, of which every one took M and V were    *)
(* visited at a time.                                                      *)
(***************************************************************************)
LEMMA Times ==
  ASSUME NEW a \in Nat, NEW b \in Nat, NEW c \in Nat, a <= b PROVE a * c <= b * c /\ a * c \in Nat /\ b * c \in Nat
<1>1. a * c \in Nat /\ b * c \in Nat
  OBVIOUS
<1>2. (b - a) * c >= 0 /\ (b - a) * c = b * c - a * c
  <2>1. b - a \in Nat
    OBVIOUS
  <2>2. \A d \in Nat : d * c >= 0 /\ (a + d) * c = a * c + d * c
    BY SMTT(30)
  <2>3. (a + (b - a)) * c = a * c + (b - a) * c /\ (b - a) * c >= 0
    BY <2>1, <2>2
  <2>4. a + (b - a) = b
    OBVIOUS
  <2> QED BY <1>1, <2>1, <2>3, <2>4
<1> QED BY <1>1, <1>2

LEMMA Quotient ==
  ASSUME NEW a \in Nat, NEW n \in Nat \ {0}, NEW q \in Nat, q * n <= a PROVE q <= a \div n
<1> DEFINE d == a \div n
<1>1. d \in Nat /\ a < (d + 1) * n
  OBVIOUS
<1> HIDE DEF d
<1>2. q >= d + 1 => (d + 1) * n <= q * n
  BY <1>1, Times
<1>3. (d + 1) * n \in Nat /\ q * n \in Nat
  BY <1>1
<1>4. q <= d
  BY <1>1, <1>2, <1>3
<1> QED BY <1>4 DEF d

LEMMA Pace ==
  ASSUME NEW K \in Nat \ {0}, NEW V \in Nat \ {0}, NEW L \in Nat, NEW M \in Nat, NEW m \in Nat,
         K <= V * m, m * M <= L
  PROVE  M \div V <= L \div K
<1> DEFINE q == M \div V
<1>1. q \in Nat /\ q * V <= M
  OBVIOUS
<1> HIDE DEF q
<1>2. K * q <= (V * m) * q
  <2>1. V * m \in Nat
    OBVIOUS
  <2> QED BY <1>1, <2>1, Times
<1>3. (V * m) * q = (q * V) * m
  BY <1>1, SMTT(30)
<1>4. (q * V) * m <= M * m
  <2>1. q * V \in Nat
    BY <1>1
  <2> QED BY <1>1, <2>1, Times
<1>5. M * m = m * M /\ K * q = q * K
  BY <1>1
<1>6. K * q \in Nat /\ (V * m) * q \in Nat /\ M * m \in Nat
  <2>1. \A a, b \in Nat : a * b \in Nat
    OBVIOUS
  <2>2. V * m \in Nat
    BY <2>1
  <2> QED BY <1>1, <2>1, <2>2
<1>7. q * K <= L
  BY <1>2, <1>3, <1>4, <1>5, <1>6
<1>8. q <= L \div K
  BY <1>1, <1>7, Quotient
<1> QED BY <1>8 DEF q

\* Visitors have no time for more URLs.
LEMMA DoneInTime ==
  ASSUME TypeInv, Timed, Shared, Done # {}
  PROVE  \E m \in Nat : /\ m * MinVisit <= lastSeen - firstSeen
                        /\ Cardinality(Done) <= Cardinality(Visitors) * m
                        /\ Cardinality(Visitors) \in Nat \ {0} /\ Cardinality(Done) \in Nat \ {0}
<1> DEFINE L == lastSeen - firstSeen
           M == MinVisit
           m == L \div M
           T == Visitors \X (1 .. m)
<1>1. M \in Nat \ {0}
  BY ReportingAssumption
<1>2. L \in Nat /\ firstSeen \in Nat /\ lastSeen = firstSeen + L
  BY DEF TypeInv, ProgressTypes
<1> HIDE DEF L, M
<1>3. m \in Nat /\ m * M <= L
  BY <1>1, <1>2
<1>4. PICK g \in [Done -> Visitors \X Nat] : Numbers(g)
  BY DEF Shared
<1>5. ASSUME NEW x \in Done PROVE g[x] \in T
  <2> DEFINE i == g[x][2]
             w == g[x][1]
  <2>1. g[x] = <<w, i>> /\ w \in Visitors /\ i \in Nat
    BY <1>4
  <2>2. i >= 1 /\ firstSeen + i * M <= Until(w)
    BY <1>4 DEF Numbers, M
  <2>3. Until(w) \in Nat /\ Until(w) <= lastSeen
    BY <2>1 DEF Until, Timed, TypeInv, VisitTypes, ProgressTypes
  <2> HIDE DEF i, w, m
  <2>4. i * M \in Nat
    BY <1>1, <2>1
  <2>5. i * M <= L
    BY <1>2, <2>2, <2>3, <2>4
  <2>6. i <= m
    BY <1>1, <1>2, <2>1, <2>5, Quotient DEF m
  <2>7. i \in 1 .. m
    BY <1>3, <2>1, <2>2, <2>6
  <2> QED BY <2>1, <2>7
<1> HIDE DEF m
<1>6. IsFiniteSet(1 .. m) /\ Cardinality(1 .. m) = m
  <2>1. 1 \in Int /\ m \in Int /\ (IF 1 > m THEN 0 ELSE m - 1 + 1) = m
    BY <1>3
  <2> QED BY <2>1, FS_Interval
<1>7. IsFiniteSet(T) /\ Cardinality(T) = Cardinality(Visitors) * m
  BY <1>6, FS_Product, ReportingAssumption
<1>8. g \in Injection(Done, T)
  <2>1. g \in [Done -> T]
    <3> HIDE DEF T
    <3> QED BY <1>4, <1>5
  <2>2. \A x, y \in Done : g[x] = g[y] => x = y
    BY <1>4 DEF Numbers
  <2> HIDE DEF T
  <2> QED BY <2>1, <2>2 DEF Injection, IsInjective
<1>9. IsFiniteSet(Done) /\ Cardinality(Done) <= Cardinality(T)
  <2> HIDE DEF T
  <2> QED BY <1>7, <1>8, FS_Injection
<1>10. Cardinality(Done) \in Nat \ {0}
  BY <1>9, FS_CardinalityType, FS_EmptySet
<1>11. Cardinality(Visitors) \in Nat \ {0}
  <2>1. Visitors # {}
    <3>1. PICK x \in Done : TRUE
      OBVIOUS
    <3> QED BY <1>4, <3>1
  <2> QED BY <2>1, FS_CardinalityType, FS_EmptySet, ReportingAssumption
<1> QED BY <1>3, <1>7, <1>9, <1>10, <1>11 DEF L, M

LEMMA FinishedInTime ==
  ASSUME TypeInv, InTime, checkFinished, Paced PROVE ~Starting /\ ~Busy
<1> USE DEF InTime
<1>1. Done = Known /\ Known # {}
  BY DEF checkFinished, Done, Known, Terminal
<1>2. Busy => Starting
  <2> SUFFICES ASSUME Busy PROVE Starting
    OBVIOUS
  <2>1. PICK u \in URLs : Ongoing(u)
    BY DEF Busy, Ongoing, TypeInv, VisitTypes, StartTypes
  <2>2. updates[u] \notin Terminal /\ (updates[u] = "none" => enqueued = u)
    BY <2>1 DEF Unsettled
  <2>3. updates[u] = "none"
    BY <2>2 DEF checkFinished, Known
  <2> QED BY <2>2, <2>3, NoneIsNoURL DEF Starting
<1>3. ~Starting
  <2> SUFFICES ASSUME Starting PROVE FALSE
    OBVIOUS
  <2> DEFINE K == Cardinality(Known)
             V == Cardinality(Visitors)
             L == lastSeen - firstSeen
  <2>1. now <= enqueuedAt + MaxGap
    BY DEF Timed
  <2>2. lastSeen >= enqueuedAt + MinVisit
    BY <1>1 DEF Heard, checkFinished
  <2>3. PICK m \in Nat : m * MinVisit <= L /\ K <= V * m /\ V \in Nat \ {0} /\ K \in Nat \ {0}
    BY <1>1, DoneInTime
  <2>4. now - lastSeen >= 3 * (L \div K)
    BY DEF checkFinished, Confident, ConfidenceLevelSafetyDistance
  <2>5. MaxGap < MinVisit + 3 * (MinVisit \div V)
    BY DEF Paced, ConfidenceLevelSafetyDistance
  <2>6. L \in Nat /\ lastSeen \in Nat /\ now \in Nat /\ enqueuedAt \in Nat /\ MaxGap \in Nat /\ MinVisit \in Nat
    BY ReportingAssumption DEF TypeInv, ProgressTypes, TimeTypes
  <2> HIDE DEF K, V, L
  <2>7. MinVisit \div V <= L \div K
    BY <2>3, <2>6, Pace
  <2>8. MinVisit \div V \in Nat /\ L \div K \in Nat
    BY <2>3, <2>6
  <2> QED BY <2>1, <2>2, <2>4, <2>5, <2>6, <2>7, <2>8
<1> QED BY <1>2, <1>3

-----------------------------------------------------------------------------
EarlyInv == /\ TypeInv /\ NotLeftEarly
            /\ mode = "service" => ~finished
            /\ mode = "cli" => InTime

LEMMA StepInTime ==
  ASSUME EarlyInv, TypeInv', Next, mode = "cli" PROVE InTime'
<1> USE DEF EarlyInv
<1>1. ASSUME NEW u \in URLs, Publish(u) PROVE InTime'
  BY <1>1, PublishInTime
<1>2. ASSUME ReportQueued PROVE InTime'
  BY <1>2, QueuedInTime
<1>3. ASSUME NEW v \in Visitors, VisitorStep(v) PROVE InTime'
  BY <1>3, TakeInTime, CrawlingInTime, VisitInTime, CrawledInTime, SettleInTime DEF VisitorStep
<1>4. ASSUME IsRunFinished \/ Exit \/ Pulse PROVE InTime'
  BY <1>4, ElseInTime DEF IsRunFinished, Awake, CheckOnUpdate, CheckOnTick, Exit, Pulse, clockVars,
                          visitVars, progressVars
<1>5. ASSUME Tick PROVE InTime'
  BY <1>5, TickInTime
<1> QED BY <1>1, <1>2, <1>3, <1>4, <1>5 DEF Next

\* Once nothing is left to do, nothing comes up.
LEMMA StepNotLeft ==
  ASSUME EarlyInv, Next PROVE NotLeftEarly' /\ (mode' = "service" => ~finished')
<1> USE DEF EarlyInv
<1>1. ASSUME IsRunFinished PROVE NotLeftEarly' /\ mode' = "cli"
  <2>1. UNCHANGED <<mode, left, enqueued, waiting, vpc>> /\ mode = "cli" /\ finished' = checkFinished
    BY <1>1 DEF IsRunFinished, Awake, CheckOnUpdate, CheckOnTick, Check, clockVars, startVars, visitVars
  <2>2. checkFinished /\ Paced => ~Starting /\ ~Busy
    BY <2>1, FinishedInTime
  <2>3. (Starting' <=> Starting) /\ (Busy' <=> Busy)
    BY <2>1 DEF Starting, Busy
  <2> QED BY <2>1, <2>2, <2>3 DEF NotLeftEarly, Paced
<1>2. ASSUME ~IsRunFinished PROVE finished' = finished /\ mode' = mode
  BY <1>2 DEF Next, Publish, ReportQueued, VisitorStep, Take, ReportCrawling, Visit, ReportCrawled, Settle,
              Exit, Pulse, Tick, clockVars, endVars
<1>3. ASSUME ~IsRunFinished, finished, ~Starting, ~Busy PROVE ~Starting' /\ ~Busy'
  <2>1. left = {} /\ enqueued = None /\ waiting = {} /\ \A v \in Visitors : vpc[v] = "idle"
    BY <1>3 DEF Starting, Busy
  <2>2. (\A u \in URLs : ~Publish(u)) /\ ~ReportQueued
    BY <2>1 DEF Publish, ReportQueued
  <2>3. ASSUME NEW v \in Visitors PROVE ~VisitorStep(v)
    BY <2>1 DEF VisitorStep, Take, ReportCrawling, Visit, Visited, ReportCrawled, Settle
  <2>4. Exit \/ Pulse \/ Tick
    BY <1>3, <2>2, <2>3 DEF Next
  <2>5. UNCHANGED <<left, enqueued, waiting, vpc>>
    BY <2>4 DEF Exit, Pulse, Tick, startVars, visitVars
  <2> QED BY <1>3, <2>5 DEF Starting, Busy
<1>4. ASSUME ~IsRunFinished PROVE NotLeftEarly'
  BY <1>2, <1>3, <1>4 DEF NotLeftEarly, Paced
<1> QED BY <1>1, <1>2, <1>4

LEMMA InitInTime == Init => InTime
<1> SUFFICES ASSUME Init PROVE InTime
  OBVIOUS
<1>1. left \subseteq URLs /\ Known = {} /\ Done = {}
  BY ReportingAssumption DEF Init, Known, Done, Terminal
<1>2. Placed
  BY <1>1, NoneIsNoURL DEF Init, Placed, Ongoing
<1>3. Unsettled
  BY NoneIsNoURL DEF Init, Unsettled, Ongoing, Visiting
<1>4. Timed
  BY ReportingAssumption DEF Init, Timed, Visiting
<1>5. Heard
  BY <1>1 DEF Heard
<1>6. Shared
  <2> DEFINE g == [x \in {} |-> <<0, 0>>]
  <2>1. g \in [Done -> Visitors \X Nat] /\ Numbers(g)
    BY <1>1 DEF Numbers
  <2> QED BY <2>1 DEF Shared
<1> QED BY <1>2, <1>3, <1>4, <1>5, <1>6 DEF InTime

\* If every pause of Run.Start is shorter than a visit and the safety distance
\* together, IsRunFinished does not end the CLI while a URL is yet to be
\* enqueued, queued or processed, for any number of URLs and visitors and any
\* durations (main.go:286-299, progress/memory.go:107-126 and :181-192).
THEOREM NothingLeftBehind == Spec => []NotLeftEarly
<1>1. Init => EarlyInv
  <2>1. Init => ~finished
    BY DEF Init
  <2> QED BY <2>1, InitTypes, InitInTime DEF EarlyInv, NotLeftEarly
<1>2. EarlyInv /\ [Next]_vars => EarlyInv'
  <2>1. ASSUME EarlyInv, Next PROVE EarlyInv'
    <3>1. TypeInv'
      BY <2>1, NextTypes DEF EarlyInv
    <3>2. mode' = mode
      BY <2>1 DEF Next, Publish, ReportQueued, VisitorStep, Take, ReportCrawling, Visit, ReportCrawled, Settle,
                  IsRunFinished, Exit, Pulse, Tick, clockVars
    <3> QED BY <2>1, <3>1, <3>2, StepInTime, StepNotLeft DEF EarlyInv
  <2>2. ASSUME EarlyInv, UNCHANGED vars PROVE EarlyInv'
    <3>1. TypeInv'
      BY <2>2, NextTypes DEF EarlyInv
    <3>2. mode = "cli" => InTime'
      BY <2>2, <3>1, ElseInTime DEF EarlyInv, vars, clockVars, visitVars, progressVars
    <3>3. UNCHANGED <<mode, finished, left, enqueued, waiting, vpc>>
      BY <2>2 DEF vars, clockVars, startVars, visitVars, endVars
    <3> QED BY <2>2, <3>1, <3>2, <3>3 DEF EarlyInv, NotLeftEarly, Starting, Busy, Paced
  <2> QED BY <2>1, <2>2
<1>3. EarlyInv => NotLeftEarly
  BY DEF EarlyInv
<1> QED BY <1>1, <1>2, <1>3, PTL DEF Spec
=============================================================================
