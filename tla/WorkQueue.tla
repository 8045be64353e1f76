----------------------------- MODULE WorkQueue -----------------------------
(***************************************************************************)
(* The in-memory work queue of src/internal/ctrlq: MemoryVisitWorkQueue,   *)
(* its ControlledQueue per host with a rate limiter and a pause, and the   *)
(* promoter goroutine that moves messages from the host queues to the      *)
(* default queue the consumers read.                                       *)
(*                                                                         *)
(* Its clients are producers, which only Publish (API handlers, sitemap    *)
(* discovery and drains), and visitors, which call it in the order of      *)
(* Visitor.process (src/visitor.go:107-249) for each job they receive.     *)
(* Each call is cut at its accesses to shared memory.  Time is counted in  *)
(* ticks; a pause is kept in whole seconds.                                *)
(***************************************************************************)
EXTENDS Integers, Sequences, FiniteSets, Functions

CONSTANTS
    Hosts,              \* Keys of hqueues.
    Producers,          \* Goroutines that only publish.
    Visitors,           \* Workers, each with a goroutine started by Consume.
    NoQueue,            \* Result of loading an absent key.
    NoMessage,          \* No message in hand, no job.
    BufferSize,         \* MemoryWorkQueueBufferSize.
    TicksPerSecond,     \* Resolution of the clock.
    RecalcDelay,        \* The promoter's 60 seconds, in ticks.
    InitialInterval,    \* Ticks per token at MinHostRPS.
    Intervals,          \* Ticks per token of the limits SetLimit is given.
    RetryAfters,        \* Durations visitors Pause a host for, in ticks.
    CounterMod,         \* Values of the promoter's counter: 2^32.
    MaxMessages,        \* Bound: messages ever published.
    Horizon,            \* Bound: producers begin no call at this time or later.
    MaxTime             \* Bound: the clock stops here.

ASSUME ConstantsAssumption ==
    /\ Hosts # {}
    /\ {BufferSize, TicksPerSecond, RecalcDelay, InitialInterval} \subseteq Nat \ {0}
    /\ Intervals \subseteq Nat \ {0}
    /\ RetryAfters \subseteq Nat
    /\ CounterMod \in Nat \ {0}
    /\ {MaxMessages, Horizon, MaxTime} \subseteq Nat

Callers == Producers \cup Visitors

\* A ControlledQueue is named after the caller and the host lazyHostQueue
\* made it for: the key is present once stored, so a caller makes it once.
Queues == Callers \X Hosts
HostOf(q) == q[2]

ASSUME CallersAssumption == IsFiniteSet(Callers)

ASSUME NoQueueAssumption == NoQueue \notin Queues

Messages == [id : Nat, host : Hosts, retries : Nat]

ASSUME NoMessageAssumption == NoMessage \notin Messages

VARIABLES
    now,            \* The clock, in ticks.  Never in Unix second 0.
    \* MemoryVisitWorkQueue and its ControlledQueues.
    hqueues,        \* Host -> the queue stored under its key.
    buf,            \* Queue -> the messages in its channel.
    pausedUntil,    \* Queue -> Unix second, 0 when never paused.
    interval,       \* Queue -> ticks per token, the inverse of the limit.
    nextAt,         \* Queue -> when the limiter's bucket is full again.
    holds,          \* Queue -> hasReservation.
    dqueue,         \* The default queue.
    nextID,         \* memoryWorkQueueNextID.
    \* The promoter goroutine.
    ppc,            \* Where it is.
    todo,           \* Hosts the Range of candidates has yet to visit.
    immediate,      \* Hosts found ready.
    shortest,       \* shortestPauseUntil, in seconds; 0 for the zero time.
    pausing,        \* The queue being paused, and for how long or until when.
    wakeAt,         \* When time.After fires.
    next,           \* The load balancing counter.
    \* The callers.
    pc,             \* Caller -> where it is in a call.
    req,            \* Caller -> the call it makes.
    hq,             \* Caller -> the queue lazyHostQueue returned.
    hand,           \* Visitor -> the message its Consume goroutine holds.
    job,            \* Visitor -> the job it processes.
    stage,          \* Visitor -> which calls it has made about the job.
    \* History.
    delivered, dropped,     \* Messages handed to a visitor, lost to a full buffer.
    promoted, reserved,     \* Host -> promotions, reservations so far.
    matureAt,               \* Queue -> when its last reservation may be acted on.
    shrunk                  \* Whether a pause was replaced by a shorter one.

queueVars == <<hqueues, buf, pausedUntil, interval, nextAt, holds, dqueue, nextID>>
promoterVars == <<ppc, todo, immediate, shortest, pausing, wakeAt, next>>
callerVars == <<pc, req, hq, hand, job, stage>>
historyVars == <<delivered, dropped, promoted, reserved, matureAt, shrunk>>
vars == <<now, queueVars, promoterVars, callerVars, historyVars>>

Sec(t) == t \div TicksPerSecond             \* time.Time.Unix
CeilDiv(a, b) == (a + b - 1) \div b
Later(a, b) == IF a < b THEN b ELSE a
\* The earlier of two pauses, where 0 stands for no pause.
Sooner(a, b) == IF a = 0 \/ b < a THEN b ELSE a

Idle == [op |-> "none", host |-> CHOOSE h \in Hosts : TRUE, arg |-> 0]
NotPausing == [queue |-> NoQueue, arg |-> 0]

Init ==
    /\ now \in TicksPerSecond .. 2 * TicksPerSecond - 1
    /\ hqueues = [h \in Hosts |-> NoQueue]
    /\ buf = [q \in Queues |-> <<>>]
    /\ pausedUntil = [q \in Queues |-> 0]
    /\ interval = [q \in Queues |-> InitialInterval]
    /\ nextAt = [q \in Queues |-> 0]
    /\ holds = [q \in Queues |-> FALSE]
    /\ dqueue = <<>>
    /\ nextID = 0
    /\ ppc = "calc"
    /\ todo = {}
    /\ immediate = <<>>
    /\ shortest = 0
    /\ pausing = NotPausing
    /\ wakeAt = 0
    /\ next = 0
    /\ pc = [p \in Callers |-> "idle"]
    /\ req = [p \in Callers |-> Idle]
    /\ hq = [p \in Callers |-> NoQueue]
    /\ hand = [v \in Visitors |-> NoMessage]
    /\ job = [v \in Visitors |-> NoMessage]
    /\ stage = [v \in Visitors |-> "free"]
    /\ delivered = {}
    /\ dropped = {}
    /\ promoted = [h \in Hosts |-> 0]
    /\ reserved = [h \in Hosts |-> 0]
    /\ matureAt = [q \in Queues |-> 0]
    /\ shrunk = FALSE

-----------------------------------------------------------------------------
(***************************************************************************)
(* Calls.  Each begins with the first Load of lazyHostQueue.               *)
(***************************************************************************)
Begin(p, op, h, arg) ==
    /\ pc[p] = "idle"
    /\ req' = [req EXCEPT ![p] = [op |-> op, host |-> h, arg |-> arg]]
    /\ pc' = [pc EXCEPT ![p] = IF hqueues[h] = NoQueue THEN "create" ELSE "fetch"]
    /\ UNCHANGED <<now, queueVars, promoterVars, hq, hand, historyVars>>

\* Keeps within MaxMessages the messages made and about to be made.
Room == nextID + Cardinality({p \in Callers : req[p].op = "publish"}) < MaxMessages

\* The calls a visitor makes about its job, each at most once and in order.
\* While visiting, the collector publishes the links it finds.
About(v, from, to) ==
    /\ stage[v] \in from
    /\ stage' = [stage EXCEPT ![v] = to]
    /\ UNCHANGED job

Publish(p, h) ==
    /\ \/ p \in Producers /\ now < Horizon
       \/ p \in Visitors /\ stage[p] = "visiting"
    /\ Room
    /\ Begin(p, "publish", h, 0)
    /\ UNCHANGED <<job, stage>>

TakeRateLimitHeaders(v) ==
    About(v, {"visiting"}, "measured") /\ Begin(v, "limit", job[v].host, 0)

TakeSample(v) ==
    About(v, {"visiting", "measured"}, "sampled") /\ Begin(v, "limit", job[v].host, 0)

\* The host paused is the one that answered, which a redirect may have changed.
Pause(v, h, d) ==
    About(v, {"sampled"}, "paused") /\ Begin(v, "pause", h, d)

\* The visitor is through with its job.
Done(v) == /\ stage[v] \in {"sampled", "paused"}
           /\ job' = [job EXCEPT ![v] = NoMessage]
           /\ stage' = [stage EXCEPT ![v] = "free"]

Republish(v) ==
    /\ Done(v)
    /\ Room
    /\ Begin(v, "publish", job[v].host, job[v].retries + 1)

Finish(v) ==
    /\ pc[v] = "idle"
    /\ Done(v)
    /\ UNCHANGED <<now, queueVars, promoterVars, pc, req, hq, hand, historyVars>>

\* The Store of lazyHostQueue, unconditional.  A Range under way may or may
\* not visit a key that was absent when it began.
Create(p) ==
    LET h == req[p].host IN
    /\ pc[p] = "create"
    /\ hqueues' = [hqueues EXCEPT ![h] = <<p, h>>]
    /\ pc' = [pc EXCEPT ![p] = "fetch"]
    /\ \/ UNCHANGED todo
       \/ ppc \in {"range", "pauseLoad", "pauseStore"} /\ hqueues[h] = NoQueue
          /\ todo' = todo \cup {h}
    /\ UNCHANGED <<now, buf, pausedUntil, interval, nextAt, holds, dqueue, nextID,
                   ppc, immediate, shortest, pausing, wakeAt, next,
                   req, hq, hand, job, stage, historyVars>>

\* The second Load of lazyHostQueue.
Fetch(p) ==
    /\ pc[p] = "fetch"
    /\ hq' = [hq EXCEPT ![p] = hqueues[req[p].host]]
    /\ pc' = [pc EXCEPT ![p] = CASE req[p].op = "publish" -> "send"
                                 [] req[p].op = "pause" -> "pauseLoad"
                                 [] req[p].op = "limit" -> "setLimit"]
    /\ UNCHANGED <<now, queueVars, promoterVars, req, hand, job, stage, historyVars>>

Return(p) ==
    /\ pc' = [pc EXCEPT ![p] = "idle"]
    /\ req' = [req EXCEPT ![p] = Idle]
    /\ hq' = [hq EXCEPT ![p] = NoQueue]

\* A send on a buffered channel would block.
FullOffByOne(ch) == Len(ch) > BufferSize
Full(ch) == Len(ch) >= BufferSize

MessageReusingId(p) == [id |-> IF req[p].arg > 0 THEN nextID ELSE nextID + 1,
                        host |-> req[p].host, retries |-> req[p].arg]
NewMessage(p) == [id |-> nextID + 1, host |-> req[p].host, retries |-> req[p].arg]

\* The message gets its id and goes to the host queue, or nowhere if that is
\* full: Publish and Republish return nil either way.
Send(p) ==
    LET m == NewMessage(p) IN
    /\ pc[p] = "send"
    /\ nextID' = nextID + 1
    /\ \/ /\ ~Full(buf[hq[p]])
          /\ buf' = [buf EXCEPT ![hq[p]] = Append(@, m)]
          /\ UNCHANGED dropped
       \/ /\ Full(buf[hq[p]])
          /\ dropped' = dropped \cup {m}
          /\ UNCHANGED buf
    /\ pc' = [pc EXCEPT ![p] = "notify"]
    /\ UNCHANGED <<now, hqueues, pausedUntil, interval, nextAt, holds, dqueue,
                   promoterVars, req, hq, hand, job, stage, delivered, promoted, reserved, matureAt, shrunk>>

\* shouldRecalc is unbuffered: the notification reaches a promoter that is
\* waiting for it and is lost on any other.
TriggerRecalc(p) ==
    /\ pc[p] = "notify"
    /\ ppc' = IF ppc = "wait" THEN "calc" ELSE ppc
    /\ wakeAt' = IF ppc = "wait" THEN 0 ELSE wakeAt
    /\ Return(p)
    /\ UNCHANGED <<now, queueVars, todo, immediate, shortest, pausing, next,
                   hand, job, stage, historyVars>>

\* ControlledQueue.Pause: v is computed and compared with a loaded value ...
RaisesOnce(v, o) == o = 0
Raises(v, o) == o = 0 \/ v > o

PauseLoad(p) ==
    LET v == Sec(now + req[p].arg) IN
    /\ pc[p] = "pauseLoad"
    /\ \/ /\ Raises(v, pausedUntil[hq[p]])
          /\ pc' = [pc EXCEPT ![p] = "pauseStore"]
          /\ req' = [req EXCEPT ![p].arg = v]
          /\ UNCHANGED hq
       \/ /\ ~Raises(v, pausedUntil[hq[p]])
          /\ Return(p)
    /\ UNCHANGED <<now, queueVars, promoterVars, hand, job, stage, historyVars>>

\* ... and stored later, whatever the pause has become: it may shrink.
StorePause(q, v) ==
    /\ pausedUntil' = [pausedUntil EXCEPT ![q] = v]
    /\ shrunk' = (shrunk \/ v < pausedUntil[q])

PauseStore(p) ==
    /\ pc[p] = "pauseStore"
    /\ StorePause(hq[p], req[p].arg)
    /\ Return(p)
    /\ UNCHANGED <<now, hqueues, buf, interval, nextAt, holds, dqueue, nextID,
                   promoterVars, hand, job, stage,
                   delivered, dropped, promoted, reserved, matureAt>>

\* xrate.Limiter.SetLimit keeps the tokens and changes how fast they come
\* (rounded up to a tick).  The Optimizer module says which limits; to leave
\* the limit is to set the one it has.
RefillAtOnce(q, i) == now
Refill(q, i) == IF nextAt[q] > now
                THEN now + CeilDiv((nextAt[q] - now) * i, interval[q])
                ELSE nextAt[q]

SetLimit(p, i) ==
    /\ pc[p] = "setLimit"
    /\ interval' = [interval EXCEPT ![hq[p]] = i]
    /\ nextAt' = [nextAt EXCEPT ![hq[p]] = Refill(hq[p], i)]
    /\ Return(p)
    /\ UNCHANGED <<now, hqueues, buf, pausedUntil, holds, dqueue, nextID,
                   promoterVars, hand, job, stage, historyVars>>

-----------------------------------------------------------------------------
(***************************************************************************)
(* The promoter: candidates, one host at a time, then a wait or a          *)
(* promotion.  It looks at a host in one step up to its Pause: nobody else *)
(* takes from host queues or reserves, so that whatever happens between    *)
(* its reads might as well have happened before or after them.             *)
(***************************************************************************)
StartRange ==
    /\ ppc = "calc"
    /\ ppc' = "range"
    /\ todo' = {h \in Hosts : hqueues[h] # NoQueue}
    /\ immediate' = <<>>
    /\ shortest' = 0
    /\ UNCHANGED <<now, queueVars, pausing, wakeAt, next, callerVars, historyVars>>

Paused(q) == pausedUntil[q] # 0 /\ Sec(now) < pausedUntil[q]

Visit(h) == /\ ppc = "range" /\ h \in todo
            /\ todo' = todo \ {h}
            /\ UNCHANGED <<now, hqueues, buf, pausedUntil, interval, dqueue, nextID,
                           wakeAt, next, callerVars, delivered, dropped, promoted, shrunk>>

SkipEmpty(h) ==
    /\ Visit(h)
    /\ buf[hqueues[h]] = <<>>
    /\ UNCHANGED <<nextAt, holds, ppc, immediate, shortest, pausing, reserved, matureAt>>

SkipPaused(h) ==
    /\ Visit(h)
    /\ buf[hqueues[h]] # <<>> /\ Paused(hqueues[h])
    /\ shortest' = Sooner(shortest, pausedUntil[hqueues[h]])
    /\ UNCHANGED <<nextAt, holds, ppc, immediate, pausing, reserved, matureAt>>

Ready(h) == buf[hqueues[h]] # <<>> /\ ~Paused(hqueues[h])

UseReservation(h) ==
    /\ Visit(h)
    /\ Ready(h) /\ holds[hqueues[h]]
    /\ immediate' = Append(immediate, h)
    /\ UNCHANGED <<nextAt, holds, ppc, shortest, pausing, reserved, matureAt>>

\* Limiter.Reserve of one token with burst 1: the reservation is held from
\* now on although it matures only when the bucket is full.
Reserve(h) ==
    LET q == hqueues[h]
        mature == Later(now, nextAt[q]) IN
    /\ Visit(h)
    /\ Ready(h) /\ ~holds[q]
    /\ holds' = [holds EXCEPT ![q] = TRUE]
    /\ nextAt' = [nextAt EXCEPT ![q] = mature + interval[q]]
    /\ matureAt' = [matureAt EXCEPT ![q] = mature]
    /\ reserved' = [reserved EXCEPT ![h] = @ + 1]
    /\ \/ /\ mature = now
          /\ immediate' = Append(immediate, h)
          /\ UNCHANGED <<ppc, pausing>>
       \/ /\ mature > now
          /\ ppc' = "pauseLoad"
          /\ pausing' = [queue |-> q, arg |-> mature - now]
          /\ UNCHANGED immediate
    /\ UNCHANGED shortest

\* The promoter's own Pause, the same two steps as a caller's.
PromoterPauseLoad ==
    LET v == Sec(now + pausing.arg)
        o == pausedUntil[pausing.queue] IN
    /\ ppc = "pauseLoad"
    /\ \/ /\ Raises(v, o)
          /\ ppc' = "pauseStore"
          /\ pausing' = [pausing EXCEPT !.arg = v]
          /\ shortest' = Sooner(shortest, v)
       \/ /\ ~Raises(v, o)
          /\ ppc' = "range"
          /\ pausing' = NotPausing
          /\ shortest' = Sooner(shortest, o)
    /\ UNCHANGED <<now, queueVars, todo, immediate, wakeAt, next, callerVars, historyVars>>

PromoterPauseStore ==
    /\ ppc = "pauseStore"
    /\ StorePause(pausing.queue, pausing.arg)
    /\ ppc' = "range"
    /\ pausing' = NotPausing
    /\ UNCHANGED <<now, hqueues, buf, interval, nextAt, holds, dqueue, nextID,
                   todo, immediate, shortest, wakeAt, next, callerVars,
                   delivered, dropped, promoted, reserved, matureAt>>

WaitForNotification == IF shortest = 0 THEN MaxTime + 1 ELSE shortest * TicksPerSecond
WakeTime == IF shortest = 0 THEN now + RecalcDelay ELSE shortest * TicksPerSecond

\* Nothing is ready: wait for the shortest pause, which may be over already,
\* or for RecalcDelay.
StartWait ==
    /\ ppc = "range" /\ todo = {} /\ immediate = <<>>
    /\ ppc' = "wait"
    /\ wakeAt' = WakeTime
    /\ shortest' = 0
    /\ UNCHANGED <<now, queueVars, todo, immediate, pausing, next, callerVars, historyVars>>

WakeUp ==
    /\ ppc = "wait" /\ now >= wakeAt
    /\ ppc' = "calc"
    /\ wakeAt' = 0
    /\ UNCHANGED <<now, queueVars, todo, immediate, shortest, pausing, next,
                   callerVars, historyVars>>

\* The candidate that counter value n picks: (int(n)-1) % len(immediate),
\* which Go computes as -1 when n is 0 and there are several candidates.
OutOfRange(n) == n = 0 /\ Len(immediate) > 1
Picked(n) == immediate[((n - 1) % Len(immediate)) + 1]

KeepReservation(q) == holds
ReleaseReservation(q) == [holds EXCEPT ![q] = FALSE]

\* promote takes a message and drops it if the default queue is full; only a
\* promotion gives the reservation back.
Promote ==
    LET n == (next + 1) % CounterMod
        h == Picked(n)
        q == hqueues[h] IN
    /\ ppc = "range" /\ todo = {} /\ immediate # <<>>
    /\ ~OutOfRange(n)
    /\ next' = n
    /\ ppc' = "calc"
    /\ immediate' = <<>>
    /\ shortest' = 0
    /\ \/ /\ buf[q] = <<>>
          /\ UNCHANGED <<buf, dqueue, holds, dropped, promoted>>
       \/ /\ buf[q] # <<>> /\ ~Full(dqueue)
          /\ buf' = [buf EXCEPT ![q] = Tail(@)]
          /\ dqueue' = Append(dqueue, Head(buf[q]))
          /\ holds' = ReleaseReservation(q)
          /\ promoted' = [promoted EXCEPT ![h] = @ + 1]
          /\ UNCHANGED dropped
       \/ /\ buf[q] # <<>> /\ Full(dqueue)
          /\ buf' = [buf EXCEPT ![q] = Tail(@)]
          /\ dropped' = dropped \cup {Head(buf[q])}
          /\ UNCHANGED <<dqueue, holds, promoted>>
    /\ UNCHANGED <<now, hqueues, pausedUntil, interval, nextAt, nextID, todo, pausing, wakeAt,
                   callerVars, delivered, reserved, matureAt, shrunk>>

\* The index panics, and the process with it.
PromoterPanic ==
    /\ ppc = "range" /\ todo = {} /\ immediate # <<>>
    /\ OutOfRange((next + 1) % CounterMod)
    /\ next' = 0
    /\ ppc' = "panicked"
    /\ UNCHANGED <<now, queueVars, todo, immediate, shortest, pausing, wakeAt,
                   callerVars, historyVars>>

-----------------------------------------------------------------------------
(***************************************************************************)
(* Consume's goroutine: a message is in its hand between the receive from  *)
(* dqueue and the send to the visitor, which blocks until that is free.    *)
(***************************************************************************)
Take(v) ==
    /\ hand[v] = NoMessage /\ dqueue # <<>>
    /\ hand' = [hand EXCEPT ![v] = Head(dqueue)]
    /\ dqueue' = Tail(dqueue)
    /\ UNCHANGED <<now, hqueues, buf, pausedUntil, interval, nextAt, holds, nextID,
                   promoterVars, pc, req, hq, job, stage, historyVars>>

HandOver(v) ==
    /\ hand[v] # NoMessage
    /\ stage[v] = "free" /\ pc[v] = "idle"
    /\ hand' = [hand EXCEPT ![v] = NoMessage]
    /\ job' = [job EXCEPT ![v] = hand[v]]
    /\ stage' = [stage EXCEPT ![v] = "visiting"]
    /\ delivered' = delivered \cup {hand[v]}
    /\ UNCHANGED <<now, queueVars, promoterVars, pc, req, hq,
                   dropped, promoted, reserved, matureAt, shrunk>>

Tick == /\ now < MaxTime
        /\ now' = now + 1
        /\ UNCHANGED <<queueVars, promoterVars, callerVars, historyVars>>

-----------------------------------------------------------------------------
CallStep(p) == \/ Create(p) \/ Fetch(p) \/ Send(p) \/ TriggerRecalc(p)
               \/ PauseLoad(p) \/ PauseStore(p)
               \/ \E i \in Intervals : SetLimit(p, i)

VisitorStep(v) == \/ HandOver(v) \/ Finish(v) \/ Republish(v)
                  \/ TakeRateLimitHeaders(v) \/ TakeSample(v)
                  \/ \E h \in Hosts, d \in RetryAfters : Pause(v, h, d)

PromoterStep == \/ StartRange \/ StartWait \/ WakeUp \/ Promote \/ PromoterPanic
                \/ PromoterPauseLoad \/ PromoterPauseStore
                \/ \E h \in Hosts : \/ SkipEmpty(h) \/ SkipPaused(h)
                                    \/ UseReservation(h) \/ Reserve(h)

\* A panic in any goroutine ends the process.
Next == /\ ppc # "panicked"
        /\ \/ \E p \in Callers : CallStep(p) \/ \E h \in Hosts : Publish(p, h)
           \/ \E v \in Visitors : Take(v) \/ VisitorStep(v)
           \/ PromoterStep
           \/ Tick

Spec == Init /\ [][Next]_vars

\* For liveness the clock, which is bounded, must not run out while somebody
\* has work: it advances only when every goroutine waits.  The Go scheduler
\* runs every goroutine that can run, a waiting system lets time pass, and a
\* visitor gets done with its job.  Nobody has to publish.
Quiet == /\ ppc = "wait" /\ now < wakeAt
         /\ \A p \in Callers : pc[p] = "idle"
         /\ dqueue = <<>>
         /\ \A v \in Visitors : hand[v] = NoMessage /\ stage[v] = "free"

TimedNext == Next /\ (now' # now => Quiet)

Alive == ppc # "panicked"
Fairness == /\ \A p \in Callers : WF_vars(Alive /\ CallStep(p))
            /\ \A v \in Visitors : WF_vars(Alive /\ Take(v)) /\ WF_vars(Alive /\ VisitorStep(v))
            /\ WF_vars(PromoterStep)
            /\ WF_vars(Quiet /\ Tick)

FairSpec == Init /\ [][TimedNext]_vars /\ Fairness

-----------------------------------------------------------------------------
(***************************************************************************)
(* Properties.                                                             *)
(***************************************************************************)

Ops == {"none", "publish", "pause", "limit"}

QueueType ==
    /\ hqueues \in [Hosts -> Queues \cup {NoQueue}]
    /\ buf \in [Queues -> Seq(Messages)]
    /\ \A q \in Queues : Len(buf[q]) <= BufferSize
    /\ dqueue \in Seq(Messages) /\ Len(dqueue) <= BufferSize
    /\ nextID \in Nat

ControlType ==
    /\ pausedUntil \in [Queues -> Int]
    /\ interval \in [Queues -> Nat \ {0}]
    /\ nextAt \in [Queues -> Int]
    /\ holds \in [Queues -> BOOLEAN]

PromoterType ==
    /\ ppc \in {"calc", "range", "pauseLoad", "pauseStore", "wait", "panicked"}
    /\ todo \subseteq {h \in Hosts : hqueues[h] # NoQueue}
    /\ immediate \in Seq(Hosts)
    /\ \A k \in DOMAIN immediate : hqueues[immediate[k]] # NoQueue
    /\ shortest \in Int /\ wakeAt \in Int /\ next \in Nat
    /\ pausing \in [queue : Queues \cup {NoQueue}, arg : Int]
    /\ ppc \in {"pauseLoad", "pauseStore"} => pausing.queue # NoQueue

CallerType ==
    /\ pc \in [Callers -> {"idle", "create", "fetch", "send", "notify",
                          "pauseLoad", "pauseStore", "setLimit"}]
    /\ req \in [Callers -> [op : Ops, host : Hosts, arg : Int]]
    /\ hq \in [Callers -> Queues \cup {NoQueue}]
    /\ \A p \in Callers :
        /\ pc[p] \in {"send", "pauseLoad", "pauseStore", "setLimit"} => hq[p] # NoQueue
        /\ pc[p] = "fetch" => hqueues[req[p].host] # NoQueue
        /\ pc[p] # "idle" => req[p].op # "none"
        /\ pc[p] = "send" => req[p].op = "publish"
        /\ pc[p] \in {"pauseLoad", "pauseStore"} => req[p].op = "pause"
        /\ req[p].op = "publish" => req[p].arg \in Nat

JobType ==
    /\ hand \in [Visitors -> Messages \cup {NoMessage}]
    /\ job \in [Visitors -> Messages \cup {NoMessage}]
    /\ stage \in [Visitors -> {"free", "visiting", "measured", "sampled", "paused"}]
    /\ \A v \in Visitors : stage[v] # "free" => job[v] # NoMessage

HistoryType ==
    /\ delivered \subseteq Messages /\ dropped \subseteq Messages
    /\ promoted \in [Hosts -> Nat] /\ reserved \in [Hosts -> Nat]
    /\ matureAt \in [Queues -> Int]
    /\ shrunk \in BOOLEAN

\* Every variable has its type; buffers respect their capacity, and a caller
\* past lazyHostQueue or a promoter in Pause has a queue to work on.
TypeOK == /\ now \in Nat
          /\ QueueType /\ ControlType /\ PromoterType
          /\ CallerType /\ JobType /\ HistoryType

Waiting == (UNION {Range(buf[q]) : q \in Queues}) \cup Range(dqueue)
               \cup {hand[v] : v \in {v \in Visitors : hand[v] # NoMessage}}

\* Producers and consumers see a single queue: no interleaving of publishers,
\* the promoter and consumers duplicates or invents a message or makes one
\* vanish without a full buffer, and every id is used once (main.go:36-60).
Published == [id : 1 .. MaxMessages, host : Hosts, retries : 0 .. MaxMessages]
VQ == INSTANCE VisitWorkQueue WITH Messages <- Published, waiting <- Waiting
SingleQueue == VQ!Spec

\* Every promotion is paid for by a reservation of its host's limiter, also
\* when the host queue is replaced under the promoter and when a promotion
\* fails and its reservation is kept for the next (promoter.go:77-79).
TokenPerPromotion == \A h \in Hosts : promoted[h] <= reserved[h]

\* Why: a reservation held, or a candidate found, is one promotion ahead; a
\* queue enters the map under its own key and not before it was made.
Funded ==
    /\ \A h \in Hosts : hqueues[h] # NoQueue =>
           HostOf(hqueues[h]) = h /\ (holds[hqueues[h]] => promoted[h] < reserved[h])
    /\ \A k \in DOMAIN immediate : promoted[immediate[k]] < reserved[immediate[k]]
    /\ \A p \in Callers, h \in Hosts :
           hqueues[h] = NoQueue \/ (pc[p] = "create" /\ req[p].host = h)
               => ~holds[<<p, h>>] /\ hqueues[h] # <<p, h>>

\* A promotion precedes the time its reservation matures by less than a
\* second, what keeping pauses in whole seconds costs (controlled.go:46-55),
\* as long as no pause was replaced by a shorter one: "Pause can only
\* increase" (controlled.go:50) does not hold when a visitor and the promoter
\* pause a host at once.
NotEarly ==
    [][\A h \in Hosts : promoted'[h] # promoted[h] /\ ~shrunk =>
            Sec(matureAt[hqueues[h]]) <= Sec(now)]_vars

\* What the limiter is for: no host gives more than one message per interval
\* of its fastest limit, but for one burst and the second that pauses are cut
\* by (give or take the second the clock starts in), under the same condition.
\* Publishers that meet in lazyHostQueue cost another of each: the host queue
\* that replaces one in use comes with a limiter whose bucket is full.
Rates == Intervals \cup {InitialInterval}
Fastest == CHOOSE i \in Rates : \A j \in Rates : i <= j
Bursts(h) == Cardinality({p \in Callers : matureAt[<<p, h>>] # 0})
Granted(h) == Bursts(h) * (Fastest + TicksPerSecond) - TicksPerSecond
HostRate == \A h \in Hosts : ~shrunk /\ promoted[h] > 0 =>
                promoted[h] * Fastest < now + Granted(h)

\* A published message is retrieved or lost to a full buffer in the end: it
\* is enqueued "to be retrieved later via Consume" (main.go:47-49).  Two
\* publishers that meet in lazyHostQueue break it.
Retrieved ==
    \A i \in 1 .. MaxMessages :
        (\E m \in Waiting : m.id = i) ~> (\A m \in Waiting : m.id # i)
=============================================================================
