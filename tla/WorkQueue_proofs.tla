--------------------------- MODULE WorkQueue_proofs ---------------------------
(***************************************************************************)
(* Proofs about WorkQueue, for any hosts, callers, buffer size and limits. *)
(***************************************************************************)
EXTENDS WorkQueue, FiniteSetTheorems, WellFoundedInduction, TLAPS

-----------------------------------------------------------------------------
(***************************************************************************)
(* The operators the actions are built from.                               *)
(***************************************************************************)

\* Unix seconds are integers.
LEMMA SecInt == ASSUME NEW t \in Int PROVE Sec(t) \in Int
BY ConstantsAssumption DEF Sec

\* The new time to refill is an integer.
LEMMA CeilDivInt ==
    ASSUME NEW a \in Int, NEW b \in Nat \ {0}
    PROVE  CeilDiv(a, b) \in Int
BY DEF CeilDiv

\* A queue is made by a caller for a host, and is not NoQueue.
LEMMA QueueMade ==
    ASSUME NEW p \in Callers, NEW h \in Hosts
    PROVE  <<p, h>> \in Queues /\ <<p, h>> # NoQueue /\ HostOf(<<p, h>>) = h
BY NoQueueAssumption DEF Queues, HostOf

\* The request of an idle caller names a host.
LEMMA IdleType == Idle \in [op : Ops, host : Hosts, arg : Int] /\ Idle.op = "none"
BY ConstantsAssumption DEF Idle, Ops

\* The candidate the counter picks is one of the candidates.
LEMMA PickedCandidate ==
    ASSUME NEW n \in Nat, immediate \in Seq(Hosts), immediate # <<>>
    PROVE  \E k \in DOMAIN immediate : Picked(n) = immediate[k]
<1> DEFINE l == Len(immediate)
<1>1. l \in Nat \ {0} /\ DOMAIN immediate = 1 .. l
  OBVIOUS
<1> HIDE DEF l
<1>2. (n - 1) % l \in 0 .. l - 1
  BY <1>1
<1>3. ((n - 1) % l) + 1 \in 1 .. l
  BY <1>1, <1>2
<1> QED
  BY <1>1, <1>3 DEF Picked, l

-----------------------------------------------------------------------------
LEMMA TypeInit == Init => TypeOK
<1> SUFFICES ASSUME Init PROVE TypeOK
  OBVIOUS
<1> USE DEF Init
<1>1. BufferSize \in Nat /\ InitialInterval \in Nat \ {0} /\ now \in Nat
  BY ConstantsAssumption
<1>2. QueueType
  BY <1>1 DEF QueueType
<1>3. ControlType
  BY <1>1 DEF ControlType
<1>4. PromoterType
  BY DEF PromoterType, NotPausing
<1>5. CallerType
  BY IdleType DEF CallerType
<1>6. JobType
  BY DEF JobType
<1>7. HistoryType
  <2>1. shrunk \in BOOLEAN
    OBVIOUS
  <2> QED
    BY <2>1 DEF HistoryType
<1> QED
  BY <1>1, <1>2, <1>3, <1>4, <1>5, <1>6, <1>7 DEF TypeOK

-----------------------------------------------------------------------------
(***************************************************************************)
(* What a step leaves alone keeps its type.                                *)
(***************************************************************************)
LEMMA QueueFrame ==
    QueueType /\ UNCHANGED <<hqueues, buf, dqueue, nextID>> => QueueType'
BY DEF QueueType

LEMMA ControlFrame ==
    ControlType /\ UNCHANGED <<pausedUntil, interval, nextAt, holds>> => ControlType'
BY DEF ControlType

LEMMA PromoterFrame ==
    PromoterType /\ UNCHANGED <<hqueues, promoterVars>> => PromoterType'
BY DEF PromoterType, promoterVars

LEMMA CallerFrame ==
    CallerType /\ UNCHANGED <<hqueues, pc, req, hq>> => CallerType'
BY DEF CallerType

LEMMA JobFrame ==
    JobType /\ UNCHANGED <<hand, job, stage>> => JobType'
BY DEF JobType

LEMMA HistoryFrame ==
    HistoryType /\ UNCHANGED historyVars => HistoryType'
BY DEF HistoryType, historyVars

\* A pause that is stored is an integer, and only that is disturbed.
LEMMA StorePauseType ==
    ASSUME TypeOK, NEW q \in Queues, NEW v \in Int, StorePause(q, v),
           UNCHANGED <<interval, nextAt, holds, delivered, dropped, promoted, reserved, matureAt>>
    PROVE  ControlType' /\ HistoryType'
<1>1. ControlType'
  BY DEF TypeOK, ControlType, StorePause
<1>2. shrunk' \in BOOLEAN
  BY DEF StorePause
<1>3. HistoryType'
  BY <1>2 DEF TypeOK, HistoryType
<1> QED BY <1>1, <1>3

\* A call begins with a request, and the first Load of lazyHostQueue.
LEMMA BeginType ==
    ASSUME TypeOK, NEW p \in Callers, NEW op \in Ops \ {"none"}, NEW h \in Hosts,
           NEW arg \in Int, op = "publish" => arg \in Nat,
           Begin(p, op, h, arg), JobType'
    PROVE  TypeOK'
<1> USE DEF TypeOK, Begin
<1>1. req' \in [Callers -> [op : Ops, host : Hosts, arg : Int]]
      /\ req'[p] = [op |-> op, host |-> h, arg |-> arg]
      /\ \A o \in Callers \ {p} : req'[o] = req[o]
  BY DEF CallerType
<1>2. pc' \in [Callers -> {"idle", "create", "fetch", "send", "notify",
                           "pauseLoad", "pauseStore", "setLimit"}]
      /\ pc'[p] = (IF hqueues[h] = NoQueue THEN "create" ELSE "fetch")
      /\ \A o \in Callers \ {p} : pc'[o] = pc[o]
  BY DEF CallerType
<1>3. CallerType'
  BY <1>1, <1>2 DEF CallerType, queueVars
<1> QED
  BY <1>3, QueueFrame, ControlFrame, PromoterFrame, HistoryFrame DEF queueVars

\* A call that returns leaves its caller idle.
LEMMA ReturnType ==
    ASSUME CallerType, NEW p \in Callers, Return(p), UNCHANGED hqueues
    PROVE  CallerType'
<1>1. \A o \in Callers \ {p} : pc'[o] = pc[o] /\ req'[o] = req[o] /\ hq'[o] = hq[o]
  BY DEF CallerType, Return
<1>2. pc'[p] = "idle" /\ req'[p] = Idle
  BY DEF CallerType, Return
<1>3. /\ pc' \in [Callers -> {"idle", "create", "fetch", "send", "notify",
                              "pauseLoad", "pauseStore", "setLimit"}]
      /\ req' \in [Callers -> [op : Ops, host : Hosts, arg : Int]]
      /\ hq' \in [Callers -> Queues \cup {NoQueue}]
  BY IdleType DEF CallerType, Return
<1> QED
  BY <1>1, <1>2, <1>3, IdleType DEF CallerType

-----------------------------------------------------------------------------
(***************************************************************************)
(* The steps of callers and visitors keep the types.                       *)
(***************************************************************************)
LEMMA VisitorCallType ==
    ASSUME TypeOK, NEW v \in Visitors,
           \/ TakeRateLimitHeaders(v) \/ TakeSample(v) \/ Republish(v)
           \/ \E h \in Hosts, d \in RetryAfters : Pause(v, h, d)
    PROVE  TypeOK'
<1>1. JobType /\ v \in Callers
  BY DEF TypeOK, Callers
<1>2. stage[v] # "free" => job[v] \in Messages
  BY <1>1 DEF JobType
<1>3. stage[v] # "free" => job[v].host \in Hosts /\ job[v].retries + 1 \in Nat
  BY <1>2 DEF Messages
<1>4. ASSUME NEW from, NEW to \in {"measured", "sampled", "paused"},
             "free" \notin from, About(v, from, to), UNCHANGED hand
      PROVE  JobType'
  BY <1>1, <1>4 DEF JobType, About
<1>5. CASE TakeRateLimitHeaders(v)
  <2>1. JobType'
    BY <1>4, <1>5 DEF TakeRateLimitHeaders, Begin
  <2>2. stage[v] # "free" /\ Begin(v, "limit", job[v].host, 0)
    BY <1>5 DEF TakeRateLimitHeaders, About
  <2> QED
    BY <1>1, <1>3, <2>1, <2>2, BeginType DEF Ops
<1>6. CASE TakeSample(v)
  <2>1. JobType'
    BY <1>4, <1>6 DEF TakeSample, Begin
  <2>2. stage[v] # "free" /\ Begin(v, "limit", job[v].host, 0)
    BY <1>6 DEF TakeSample, About
  <2> QED
    BY <1>1, <1>3, <2>1, <2>2, BeginType DEF Ops
<1>7. ASSUME NEW h \in Hosts, NEW d \in RetryAfters, Pause(v, h, d) PROVE TypeOK'
  <2>1. JobType'
    BY <1>4, <1>7 DEF Pause, Begin
  <2>2. d \in Int
    BY ConstantsAssumption
  <2> QED
    BY <1>1, <1>7, <2>1, <2>2, BeginType DEF Ops, Pause
<1>8. CASE Republish(v)
  <2>1. stage[v] # "free" /\ Begin(v, "publish", job[v].host, job[v].retries + 1)
    BY <1>8 DEF Republish, Done
  <2>2. JobType'
    BY <1>1, <1>8 DEF JobType, Republish, Done, Begin
  <2> QED
    BY <1>1, <1>3, <2>1, <2>2, BeginType DEF Ops
<1> QED
  BY <1>5, <1>6, <1>7, <1>8

LEMMA PublishType ==
    ASSUME TypeOK, NEW p \in Callers, NEW h \in Hosts, Publish(p, h)
    PROVE  TypeOK'
<1>1. JobType'
  BY JobFrame DEF Publish, Begin, TypeOK
<1> QED
  BY <1>1, BeginType DEF Publish, Ops

LEMMA CreateType ==
    ASSUME TypeOK, NEW p \in Callers, Create(p)
    PROVE  TypeOK'
<1> USE DEF TypeOK, Create
<1>1. req[p].host \in Hosts
  BY DEF CallerType
<1> DEFINE h == req[p].host
<1>2. /\ hqueues' \in [Hosts -> Queues \cup {NoQueue}]
      /\ hqueues'[h] # NoQueue
      /\ \A g \in Hosts : hqueues[g] # NoQueue => hqueues'[g] # NoQueue
  BY <1>1, QueueMade DEF QueueType
<1>3. QueueType'
  BY <1>2 DEF QueueType
<1>4. PromoterType'
  BY <1>1, <1>2 DEF PromoterType
<1>5. CallerType'
  BY <1>1, <1>2 DEF CallerType
<1> QED
  BY <1>3, <1>4, <1>5, ControlFrame, JobFrame, HistoryFrame

LEMMA FetchType ==
    ASSUME TypeOK, NEW p \in Callers, Fetch(p)
    PROVE  TypeOK'
<1> USE DEF TypeOK, Fetch
<1>1. /\ req[p].host \in Hosts /\ hqueues[req[p].host] \in Queues
      /\ req[p].op \in {"publish", "pause", "limit"}
  BY DEF CallerType, QueueType, Ops
<1>2. pc'[p] = CASE req[p].op = "publish" -> "send"
                 [] req[p].op = "pause" -> "pauseLoad"
                 [] req[p].op = "limit" -> "setLimit"
  BY DEF CallerType
<1>3. /\ req[p].op = "publish" => pc'[p] = "send"
      /\ req[p].op = "pause" => pc'[p] = "pauseLoad"
      /\ req[p].op = "limit" => pc'[p] = "setLimit"
  BY <1>2
<1>4. /\ pc' \in [Callers -> {"idle", "create", "fetch", "send", "notify",
                              "pauseLoad", "pauseStore", "setLimit"}]
      /\ hq' \in [Callers -> Queues \cup {NoQueue}]
      /\ hq'[p] \in Queues
      /\ \A o \in Callers \ {p} : pc'[o] = pc[o] /\ hq'[o] = hq[o]
  BY <1>1, <1>3 DEF CallerType
<1>5. CallerType'
  BY <1>1, <1>3, <1>4, NoQueueAssumption DEF CallerType, queueVars
<1> QED
  BY <1>5, QueueFrame, ControlFrame, PromoterFrame, JobFrame, HistoryFrame DEF queueVars

LEMMA SendType ==
    ASSUME TypeOK, NEW p \in Callers, Send(p)
    PROVE  TypeOK'
<1> USE DEF TypeOK, Send
<1> DEFINE m == NewMessage(p)
<1>1. req[p].host \in Hosts /\ req[p].arg \in Nat /\ hq[p] \in Queues
  BY DEF CallerType
<1>2. m \in Messages
  BY <1>1 DEF NewMessage, Messages, QueueType
<1>3. QueueType'
  <2>1. CASE UNCHANGED buf
    BY <2>1 DEF QueueType
  <2>2. CASE ~Full(buf[hq[p]]) /\ buf' = [buf EXCEPT ![hq[p]] = Append(@, m)]
    <3>1. buf[hq[p]] \in Seq(Messages) /\ Len(buf[hq[p]]) < BufferSize
      BY <1>1, <2>2, ConstantsAssumption DEF QueueType, Full
    <3> HIDE DEF m
    <3>2. /\ Append(buf[hq[p]], m) \in Seq(Messages)
          /\ Len(Append(buf[hq[p]], m)) <= BufferSize
      BY <1>2, <3>1, ConstantsAssumption
    <3> QED
      BY <1>1, <2>2, <3>2 DEF QueueType
  <2> QED
    BY <2>1, <2>2
<1>4. HistoryType'
  BY <1>2 DEF HistoryType
<1>5. CallerType'
  BY DEF CallerType
<1> QED
  BY <1>3, <1>4, <1>5, ControlFrame, PromoterFrame, JobFrame

LEMMA CallEndType ==
    ASSUME TypeOK, NEW p \in Callers,
           \/ TriggerRecalc(p) \/ PauseLoad(p) \/ PauseStore(p)
           \/ \E i \in Intervals : SetLimit(p, i)
    PROVE  TypeOK'
<1> USE DEF TypeOK
<1>1. CASE TriggerRecalc(p)
  <2>1. PromoterType'
    BY <1>1 DEF TriggerRecalc, PromoterType, queueVars
  <2> QED
    BY <1>1, <2>1, ReturnType, QueueFrame, ControlFrame, JobFrame, HistoryFrame
    DEF TriggerRecalc, queueVars
<1>2. CASE PauseLoad(p)
  <2>1. Sec(now + req[p].arg) \in Int
    BY SecInt DEF CallerType
  <2>2. ASSUME NEW s \in Int, req[p].op = "pause", hq[p] # NoQueue,
               pc' = [pc EXCEPT ![p] = "pauseStore"],
               req' = [req EXCEPT ![p].arg = s], UNCHANGED <<hqueues, hq>>
        PROVE  CallerType'
    BY <2>2 DEF CallerType
  <2>3. CallerType'
    BY <1>2, <2>1, <2>2, ReturnType DEF PauseLoad, CallerType, queueVars
  <2> QED
    BY <1>2, <2>3, QueueFrame, ControlFrame, PromoterFrame, JobFrame, HistoryFrame
    DEF PauseLoad, queueVars
<1>3. CASE PauseStore(p)
  <2>1. hq[p] \in Queues /\ req[p].arg \in Int
    BY <1>3 DEF PauseStore, CallerType
  <2>2. ControlType' /\ HistoryType'
    BY <1>3, <2>1, StorePauseType DEF PauseStore
  <2> QED
    BY <1>3, <2>2, ReturnType, QueueFrame, PromoterFrame, JobFrame DEF PauseStore
<1>4. ASSUME NEW i \in Intervals, SetLimit(p, i) PROVE TypeOK'
  <2>1. hq[p] \in Queues /\ i \in Nat \ {0} /\ i \in Int
    BY <1>4, ConstantsAssumption DEF SetLimit, CallerType
  <2>2. Refill(hq[p], i) \in Int
    <3>1. nextAt[hq[p]] \in Int /\ interval[hq[p]] \in Nat \ {0}
      BY <2>1 DEF ControlType
    <3>2. (nextAt[hq[p]] - now) * i \in Int
      BY <2>1, <3>1
    <3>3. CeilDiv((nextAt[hq[p]] - now) * i, interval[hq[p]]) \in Int
      BY <3>1, <3>2, CeilDivInt
    <3> QED
      BY <3>1, <3>3 DEF Refill
  <2>3. ControlType'
    BY <1>4, <2>1, <2>2 DEF SetLimit, ControlType
  <2> QED
    BY <1>4, <2>3, ReturnType, QueueFrame, PromoterFrame, JobFrame, HistoryFrame
    DEF SetLimit
<1> QED
  BY <1>1, <1>2, <1>3, <1>4

LEMMA ConsumeType ==
    ASSUME TypeOK, NEW v \in Visitors, Take(v) \/ HandOver(v) \/ Finish(v)
    PROVE  TypeOK'
<1> USE DEF TypeOK
<1>1. CASE Take(v)
  <2>1. Head(dqueue) \in Messages /\ Tail(dqueue) \in Seq(Messages)
        /\ Len(Tail(dqueue)) <= BufferSize
    BY <1>1, ConstantsAssumption DEF Take, QueueType
  <2>2. QueueType'
    BY <1>1, <2>1 DEF Take, QueueType
  <2>3. JobType'
    BY <1>1, <2>1 DEF Take, JobType
  <2> QED
    BY <1>1, <2>2, <2>3, ControlFrame, PromoterFrame, CallerFrame, HistoryFrame DEF Take
<1>2. CASE HandOver(v)
  <2>1. hand[v] \in Messages
    BY <1>2 DEF HandOver, JobType
  <2>2. JobType'
    BY <1>2, <2>1, NoMessageAssumption DEF HandOver, JobType
  <2>3. HistoryType'
    BY <1>2, <2>1 DEF HandOver, HistoryType
  <2> QED
    BY <1>2, <2>2, <2>3, QueueFrame, ControlFrame, PromoterFrame, CallerFrame
    DEF HandOver, queueVars
<1>3. CASE Finish(v)
  <2>1. JobType'
    BY <1>3 DEF Finish, Done, JobType
  <2> QED
    BY <1>3, <2>1, QueueFrame, ControlFrame, PromoterFrame, CallerFrame, HistoryFrame
    DEF Finish, queueVars
<1> QED
  BY <1>1, <1>2, <1>3

-----------------------------------------------------------------------------
(***************************************************************************)
(* The steps of the promoter keep the types.                               *)
(***************************************************************************)
LEMMA VisitType ==
    ASSUME TypeOK, NEW h \in Hosts,
           SkipEmpty(h) \/ SkipPaused(h) \/ UseReservation(h) \/ Reserve(h)
    PROVE  TypeOK'
<1> USE DEF TypeOK, Visit
<1>1. Visit(h)
  BY DEF SkipEmpty, SkipPaused, UseReservation, Reserve
<1>2. h \in todo /\ todo' = todo \ {h} /\ ppc = "range" /\ UNCHANGED hqueues
  BY <1>1
<1>3. hqueues[h] \in Queues /\ hqueues[h] # NoQueue
  BY <1>2 DEF QueueType, PromoterType
<1>4. QueueType' /\ CallerType' /\ JobType'
  BY <1>1, QueueFrame, CallerFrame, JobFrame DEF callerVars
<1>5. CASE SkipEmpty(h)
  <2>1. PromoterType'
    BY <1>2, <1>5, <1>1 DEF SkipEmpty, PromoterType
  <2> QED
    BY <1>1, <1>4, <1>5, <2>1, ControlFrame, HistoryFrame DEF SkipEmpty, historyVars
<1>6. CASE SkipPaused(h)
  <2>1. shortest' \in Int
    BY <1>3, <1>6 DEF SkipPaused, Sooner, PromoterType, ControlType
  <2>2. PromoterType'
    BY <1>2, <1>6, <1>1, <2>1 DEF SkipPaused, PromoterType
  <2> QED
    BY <1>1, <1>4, <1>6, <2>2, ControlFrame, HistoryFrame DEF SkipPaused, historyVars
<1>7. CASE UseReservation(h)
  <2>1. PromoterType'
    BY <1>1, <1>2, <1>3, <1>7 DEF UseReservation, PromoterType
  <2> QED
    BY <1>1, <1>4, <1>7, <2>1, ControlFrame, HistoryFrame DEF UseReservation, historyVars
<1>8. CASE Reserve(h)
  <2> DEFINE q == hqueues[h]
             mature == Later(now, nextAt[q])
  <2>1. mature \in Int /\ mature + interval[q] \in Int /\ mature - now \in Int
    BY <1>3 DEF Later, ControlType
  <2>2. ControlType'
    BY <1>1, <1>3, <1>8, <2>1 DEF Reserve, ControlType
  <2>3. HistoryType'
    BY <1>1, <1>3, <1>8, <2>1 DEF Reserve, HistoryType
  <2>4. PromoterType'
    <3>1. CASE immediate' = Append(immediate, h) /\ UNCHANGED <<ppc, pausing>>
      BY <1>1, <1>2, <1>3, <1>8, <3>1 DEF Reserve, PromoterType
    <3>2. CASE /\ ppc' = "pauseLoad" /\ UNCHANGED immediate
               /\ pausing' = [queue |-> q, arg |-> mature - now]
      <4> HIDE DEF mature
      <4> QED
        BY <1>1, <1>2, <1>3, <1>8, <2>1, <3>2 DEF Reserve, PromoterType
    <3> QED
      BY <1>8, <3>1, <3>2 DEF Reserve
  <2> QED
    BY <1>1, <1>4, <2>2, <2>3, <2>4
<1> QED
  BY <1>5, <1>6, <1>7, <1>8

LEMMA PromoterPauseType ==
    ASSUME TypeOK, PromoterPauseLoad \/ PromoterPauseStore
    PROVE  TypeOK'
<1> USE DEF TypeOK
<1>1. pausing.queue \in Queues /\ pausing.arg \in Int
  BY DEF PromoterPauseLoad, PromoterPauseStore, PromoterType
<1>2. CASE PromoterPauseLoad
  <2>1. Sec(now + pausing.arg) \in Int /\ pausedUntil[pausing.queue] \in Int
    BY <1>1, SecInt DEF ControlType
  <2>2. shortest' \in Int
    BY <1>2, <2>1 DEF PromoterPauseLoad, Sooner, PromoterType
  <2>3. PromoterType'
    BY <1>1, <1>2, <2>1, <2>2
    DEF PromoterPauseLoad, PromoterType, NotPausing, queueVars
  <2> QED
    BY <1>2, <2>3, QueueFrame, ControlFrame, CallerFrame, JobFrame, HistoryFrame
    DEF PromoterPauseLoad, queueVars, callerVars
<1>3. CASE PromoterPauseStore
  <2>1. ControlType' /\ HistoryType'
    BY <1>1, <1>3, StorePauseType DEF PromoterPauseStore, PromoterType
  <2>2. PromoterType'
    BY <1>3 DEF PromoterPauseStore, PromoterType, NotPausing
  <2> QED
    BY <1>3, <2>1, <2>2, QueueFrame, CallerFrame, JobFrame
    DEF PromoterPauseStore, callerVars
<1> QED
  BY <1>2, <1>3

LEMMA TurnType ==
    ASSUME TypeOK, StartRange \/ StartWait \/ WakeUp \/ PromoterPanic
    PROVE  TypeOK'
<1> USE DEF TypeOK
<1>1. CASE StartRange
  <2>1. PromoterType'
    BY <1>1 DEF StartRange, PromoterType, queueVars
  <2> QED
    BY <1>1, <2>1, QueueFrame, ControlFrame, CallerFrame, JobFrame, HistoryFrame
    DEF StartRange, queueVars, callerVars
<1>2. CASE StartWait
  <2>1. WakeTime \in Int
    BY ConstantsAssumption DEF WakeTime, PromoterType
  <2>2. PromoterType'
    BY <1>2, <2>1 DEF StartWait, PromoterType, queueVars
  <2> QED
    BY <1>2, <2>2, QueueFrame, ControlFrame, CallerFrame, JobFrame, HistoryFrame
    DEF StartWait, queueVars, callerVars
<1>3. CASE WakeUp
  <2>1. PromoterType'
    BY <1>3 DEF WakeUp, PromoterType, queueVars
  <2> QED
    BY <1>3, <2>1, QueueFrame, ControlFrame, CallerFrame, JobFrame, HistoryFrame
    DEF WakeUp, queueVars, callerVars
<1>4. CASE PromoterPanic
  <2>1. PromoterType'
    BY <1>4 DEF PromoterPanic, PromoterType, queueVars
  <2> QED
    BY <1>4, <2>1, QueueFrame, ControlFrame, CallerFrame, JobFrame, HistoryFrame
    DEF PromoterPanic, queueVars, callerVars
<1> QED
  BY <1>1, <1>2, <1>3, <1>4

LEMMA PromoteType ==
    ASSUME TypeOK, Promote
    PROVE  TypeOK'
<1> USE DEF TypeOK
<1> DEFINE n == (next + 1) % CounterMod
           h == Picked(n)
           q == hqueues[h]
<1>1. n \in Nat
  BY ConstantsAssumption DEF PromoterType
<1>2. h \in Hosts /\ q \in Queues
  <2>1. PICK k \in DOMAIN immediate : h = immediate[k]
    BY <1>1, PickedCandidate DEF Promote, PromoterType
  <2> QED
    BY <2>1 DEF PromoterType, QueueType
<1>3. PromoterType'
  BY <1>1 DEF Promote, PromoterType
<1>4. CallerType' /\ JobType'
  BY CallerFrame, JobFrame DEF Promote, callerVars
<1> HIDE DEF n, h
<1>5. \/ /\ buf[q] = <<>>
         /\ UNCHANGED <<buf, dqueue, holds, dropped, promoted>>
      \/ /\ buf[q] # <<>> /\ ~Full(dqueue)
         /\ buf' = [buf EXCEPT ![q] = Tail(@)]
         /\ dqueue' = Append(dqueue, Head(buf[q]))
         /\ holds' = [holds EXCEPT ![q] = FALSE]
         /\ promoted' = [promoted EXCEPT ![h] = @ + 1]
         /\ UNCHANGED dropped
      \/ /\ buf[q] # <<>>
         /\ buf' = [buf EXCEPT ![q] = Tail(@)]
         /\ dropped' = dropped \cup {Head(buf[q])}
         /\ UNCHANGED <<dqueue, holds, promoted>>
  BY DEF Promote, ReleaseReservation, n, h
<1>6. UNCHANGED <<now, hqueues, pausedUntil, interval, nextAt, nextID,
                  delivered, reserved, matureAt, shrunk>>
  BY DEF Promote
<1>7. ControlType'
  BY <1>2, <1>5, <1>6 DEF ControlType
<1>8. buf[q] # <<>> => /\ Head(buf[q]) \in Messages
                       /\ Tail(buf[q]) \in Seq(Messages)
                       /\ Len(Tail(buf[q])) <= BufferSize
  BY <1>2, ConstantsAssumption DEF QueueType
<1>9. HistoryType'
  BY <1>2, <1>5, <1>6, <1>8 DEF HistoryType
<1>10. QueueType'
  <2>1. buf' \in [Queues -> Seq(Messages)] /\ \A r \in Queues : Len(buf'[r]) <= BufferSize
    BY <1>2, <1>5, <1>8 DEF QueueType
  <2>2. dqueue' \in Seq(Messages) /\ Len(dqueue') <= BufferSize
    <3>1. CASE UNCHANGED dqueue
      BY <3>1 DEF QueueType
    <3>2. CASE buf[q] # <<>> /\ ~Full(dqueue) /\ dqueue' = Append(dqueue, Head(buf[q]))
      BY <1>8, <3>2, ConstantsAssumption DEF QueueType, Full
    <3> QED
      BY <1>5, <3>1, <3>2
  <2> QED
    BY <1>6, <2>1, <2>2 DEF QueueType
<1> QED
  BY <1>3, <1>4, <1>6, <1>7, <1>9, <1>10

-----------------------------------------------------------------------------
LEMMA TypeStep == TypeOK /\ [Next]_vars => TypeOK'
<1> SUFFICES ASSUME TypeOK, [Next]_vars PROVE TypeOK'
  OBVIOUS
<1>1. ASSUME NEW p \in Callers, CallStep(p) \/ \E h \in Hosts : Publish(p, h)
      PROVE  TypeOK'
  BY <1>1, PublishType, CreateType, FetchType, SendType, CallEndType DEF CallStep
<1>2. ASSUME NEW v \in Visitors, Take(v) \/ VisitorStep(v)
      PROVE  TypeOK'
  BY <1>2, ConsumeType, VisitorCallType DEF VisitorStep
<1>3. CASE PromoterStep
  BY <1>3, VisitType, PromoterPauseType, TurnType, PromoteType DEF PromoterStep
<1>4. CASE Tick
  BY <1>4, QueueFrame, ControlFrame, PromoterFrame, CallerFrame, JobFrame, HistoryFrame
  DEF Tick, TypeOK, queueVars, callerVars, promoterVars
<1>5. CASE UNCHANGED vars
  BY <1>5, QueueFrame, ControlFrame, PromoterFrame, CallerFrame, JobFrame, HistoryFrame
  DEF vars, TypeOK, queueVars, callerVars, promoterVars
<1> QED
  BY <1>1, <1>2, <1>3, <1>4, <1>5 DEF Next

\* Every variable keeps its type and no channel exceeds its capacity, for any
\* hosts, callers, limits and bounds.
THEOREM TypeCorrect == Spec => []TypeOK
<1> QED BY TypeInit, TypeStep, PTL DEF Spec

-----------------------------------------------------------------------------
(***************************************************************************)
(* Promotions are paid for.  The inductive invariant is TypeOK, Funded and *)
(* TokenPerPromotion together: a promotion uses up the surplus Funded      *)
(* promises for its candidate, and a queue can only enter the map without  *)
(* a reservation.                                                          *)
(***************************************************************************)
FundedInv == TypeOK /\ Funded /\ TokenPerPromotion

LEMMA FundedInit == Init => FundedInv
<1> SUFFICES ASSUME Init PROVE FundedInv
  OBVIOUS
<1>1. TypeOK
  BY TypeInit
<1>2. TokenPerPromotion
  BY DEF Init, TokenPerPromotion
<1>3. Funded
  BY QueueMade DEF Init, Funded
<1> QED
  BY <1>1, <1>2, <1>3 DEF FundedInv

\* A step that leaves the map and the accounts alone, and sends no caller to
\* Create but for an absent key.
LEMMA FundedFrame ==
    ASSUME Funded, TokenPerPromotion,
           UNCHANGED <<hqueues, holds, promoted, reserved>>,
           immediate' = immediate \/ immediate' = <<>>,
           \A p \in Callers : pc'[p] = "create" =>
               \/ pc[p] = "create" /\ req'[p].host = req[p].host
               \/ hqueues[req'[p].host] = NoQueue
    PROVE  Funded' /\ TokenPerPromotion'
<1>1. TokenPerPromotion'
  BY DEF TokenPerPromotion
<1>2. \A k \in DOMAIN immediate' : promoted'[immediate'[k]] < reserved'[immediate'[k]]
  BY DEF Funded
<1>3. ASSUME NEW p \in Callers, NEW h \in Hosts,
             hqueues'[h] = NoQueue \/ (pc'[p] = "create" /\ req'[p].host = h)
      PROVE  ~holds'[<<p, h>>] /\ hqueues'[h] # <<p, h>>
  BY <1>3 DEF Funded
<1> QED
  BY <1>1, <1>2, <1>3 DEF Funded

LEMMA FundedCreate ==
    ASSUME FundedInv, NEW p \in Callers, Create(p)
    PROVE  Funded' /\ TokenPerPromotion'
<1> DEFINE h == req[p].host
<1>1. h \in Hosts /\ pc[p] = "create" /\ TypeOK /\ Funded
  BY DEF FundedInv, TypeOK, CallerType, Create
<1>2. /\ hqueues'[h] = <<p, h>>
      /\ \A g \in Hosts \ {h} : hqueues'[g] = hqueues[g]
  BY <1>1 DEF Create, TypeOK, QueueType
<1>3. /\ pc'[p] = "fetch"
      /\ \A o \in Callers \ {p} : pc'[o] = pc[o]
  BY <1>1 DEF Create, TypeOK, CallerType
<1>4. UNCHANGED <<holds, promoted, reserved, immediate, req>>
  BY DEF Create, historyVars
<1>5. TokenPerPromotion'
  BY <1>4 DEF FundedInv, TokenPerPromotion
<1>6. ~holds[<<p, h>>]
  BY <1>1 DEF Funded
<1>7. ASSUME NEW g \in Hosts, hqueues'[g] # NoQueue
      PROVE  HostOf(hqueues'[g]) = g /\ (holds'[hqueues'[g]] => promoted'[g] < reserved'[g])
  BY <1>1, <1>2, <1>4, <1>6, <1>7, QueueMade DEF Funded
<1>8. ASSUME NEW o \in Callers, NEW g \in Hosts,
             hqueues'[g] = NoQueue \/ (pc'[o] = "create" /\ req'[o].host = g)
      PROVE  ~holds'[<<o, g>>] /\ hqueues'[g] # <<o, g>>
  <2>1. CASE g = h
    <3>1. o # p /\ pc[o] = "create" /\ req[o].host = h
      BY <1>1, <1>2, <1>3, <1>4, <1>8, <2>1, QueueMade
    <3> QED
      BY <1>1, <1>2, <1>4, <2>1, <3>1 DEF Funded
  <2>2. CASE g # h
    <3>1. hqueues[g] = NoQueue \/ (pc[o] = "create" /\ req[o].host = g)
      BY <1>2, <1>3, <1>4, <1>8, <2>2
    <3> QED
      BY <1>1, <1>2, <1>4, <2>2, <3>1 DEF Funded
  <2> QED
    BY <2>1, <2>2
<1> QED
  BY <1>1, <1>4, <1>5, <1>7, <1>8 DEF Funded

LEMMA FundedReserve ==
    ASSUME FundedInv, NEW h \in Hosts, Reserve(h)
    PROVE  Funded' /\ TokenPerPromotion'
<1> DEFINE q == hqueues[h]
<1>1. TypeOK /\ Funded /\ TokenPerPromotion
  BY DEF FundedInv
<1>2. q # NoQueue /\ q \in Queues /\ HostOf(q) = h
  BY <1>1 DEF Reserve, Visit, TypeOK, PromoterType, QueueType, Funded
<1>3. /\ reserved' = [reserved EXCEPT ![h] = @ + 1]
      /\ holds' = [holds EXCEPT ![q] = TRUE]
      /\ UNCHANGED <<hqueues, promoted, pc, req>>
      /\ immediate' = immediate \/ immediate' = Append(immediate, h)
  BY DEF Reserve, Visit, callerVars
<1> HIDE DEF q
<1>4. /\ reserved'[h] = reserved[h] + 1
      /\ \A g \in Hosts \ {h} : reserved'[g] = reserved[g]
      /\ \A g \in Hosts : promoted[g] \in Nat /\ reserved[g] \in Nat
  BY <1>1, <1>3 DEF TypeOK, HistoryType
<1>5. promoted[h] < reserved'[h]
  BY <1>1, <1>4 DEF TokenPerPromotion
<1>6. \A r \in Queues \ {q} : holds'[r] = holds[r]
  BY <1>1, <1>3 DEF TypeOK, ControlType
<1>7. TokenPerPromotion'
  BY <1>1, <1>3, <1>4 DEF TokenPerPromotion
<1>8. ASSUME NEW g \in Hosts, hqueues'[g] # NoQueue
      PROVE  HostOf(hqueues'[g]) = g /\ (holds'[hqueues'[g]] => promoted'[g] < reserved'[g])
  <2>1. HostOf(hqueues[g]) = g /\ hqueues[g] \in Queues
    BY <1>1, <1>3, <1>8 DEF Funded, TypeOK, QueueType
  <2>2. g # h => hqueues[g] # q
    BY <1>2, <2>1
  <2> QED
    BY <1>1, <1>3, <1>4, <1>5, <1>6, <1>8, <2>1, <2>2 DEF Funded
<1>9. \A k \in DOMAIN immediate' : promoted'[immediate'[k]] < reserved'[immediate'[k]]
  <2>1. \A g \in Hosts : promoted[g] < reserved[g] => promoted'[g] < reserved'[g]
    BY <1>3, <1>4
  <2>2. immediate \in Seq(Hosts)
    BY <1>1 DEF TypeOK, PromoterType
  <2>3. \A k \in DOMAIN immediate : promoted'[immediate[k]] < reserved'[immediate[k]]
    BY <1>1, <2>1, <2>2 DEF Funded
  <2>4. CASE immediate' = Append(immediate, h)
    <3>1. \A k \in DOMAIN immediate' : (k \in DOMAIN immediate /\ immediate'[k] = immediate[k])
                                       \/ immediate'[k] = h
      BY <2>2, <2>4
    <3> QED
      BY <1>3, <1>5, <2>3, <3>1
  <2> QED
    BY <1>3, <2>3, <2>4
<1>10. ASSUME NEW p \in Callers, NEW g \in Hosts,
              hqueues'[g] = NoQueue \/ (pc'[p] = "create" /\ req'[p].host = g)
       PROVE  ~holds'[<<p, g>>] /\ hqueues'[g] # <<p, g>>
  <2>1. ~holds[<<p, g>>] /\ hqueues[g] # <<p, g>>
    BY <1>1, <1>3, <1>10 DEF Funded
  <2>2. <<p, g>> # q
    BY <1>2, <2>1, QueueMade DEF q
  <2> QED
    BY <1>3, <1>6, <2>1, <2>2, QueueMade
<1> QED
  BY <1>7, <1>8, <1>9, <1>10 DEF Funded

LEMMA FundedPromote ==
    ASSUME FundedInv, Promote
    PROVE  Funded' /\ TokenPerPromotion'
<1> DEFINE h == Picked((next + 1) % CounterMod)
           q == hqueues[h]
<1>1. TypeOK /\ Funded /\ TokenPerPromotion
  BY DEF FundedInv
<1>2. h \in Hosts /\ promoted[h] < reserved[h]
  <2>1. (next + 1) % CounterMod \in Nat
    BY <1>1, ConstantsAssumption DEF TypeOK, PromoterType
  <2>2. PICK k \in DOMAIN immediate : h = immediate[k]
    BY <1>1, <2>1, PickedCandidate DEF Promote, TypeOK, PromoterType
  <2> QED
    BY <1>1, <2>2 DEF Funded, TypeOK, PromoterType
<1>3. /\ immediate' = <<>>
      /\ UNCHANGED <<hqueues, reserved, pc, req>>
  BY DEF Promote, callerVars
<1>4. \/ UNCHANGED <<holds, promoted>>
      \/ /\ holds' = [holds EXCEPT ![q] = FALSE]
         /\ promoted' = [promoted EXCEPT ![h] = @ + 1]
  BY DEF Promote, ReleaseReservation
<1> HIDE DEF h
<1>5. CASE UNCHANGED <<holds, promoted>>
  BY <1>1, <1>3, <1>5, FundedFrame
<1>6. CASE /\ holds' = [holds EXCEPT ![q] = FALSE]
           /\ promoted' = [promoted EXCEPT ![h] = @ + 1]
  <2>1. /\ promoted'[h] = promoted[h] + 1
        /\ \A g \in Hosts \ {h} : promoted'[g] = promoted[g]
        /\ \A g \in Hosts : promoted[g] \in Nat /\ reserved[g] \in Nat
    BY <1>1, <1>2, <1>6 DEF TypeOK, HistoryType
  <2>2. \A r \in Queues : holds'[r] => holds[r] /\ r # q
    BY <1>1, <1>6 DEF TypeOK, ControlType
  <2>3. TokenPerPromotion'
    BY <1>1, <1>2, <1>3, <2>1 DEF TokenPerPromotion
  <2>4. ASSUME NEW g \in Hosts, hqueues'[g] # NoQueue
        PROVE  HostOf(hqueues'[g]) = g /\ (holds'[hqueues'[g]] => promoted'[g] < reserved'[g])
    <3>1. HostOf(hqueues[g]) = g /\ hqueues[g] \in Queues
      BY <1>1, <1>3, <2>4 DEF Funded, TypeOK, QueueType
    <3> QED
      BY <1>1, <1>3, <2>1, <2>2, <2>4, <3>1 DEF Funded
  <2>5. ASSUME NEW p \in Callers, NEW g \in Hosts,
               hqueues'[g] = NoQueue \/ (pc'[p] = "create" /\ req'[p].host = g)
        PROVE  ~holds'[<<p, g>>] /\ hqueues'[g] # <<p, g>>
    BY <1>1, <1>3, <2>2, <2>5, QueueMade DEF Funded
  <2> QED
    BY <1>3, <2>3, <2>4, <2>5 DEF Funded
<1> QED
  BY <1>4, <1>5, <1>6

LEMMA FundedUse ==
    ASSUME FundedInv, NEW h \in Hosts, UseReservation(h)
    PROVE  Funded' /\ TokenPerPromotion'
<1>1. /\ TypeOK /\ Funded /\ TokenPerPromotion
      /\ UNCHANGED <<hqueues, holds, promoted, reserved, pc, req>>
      /\ immediate' = Append(immediate, h)
      /\ hqueues[h] # NoQueue /\ holds[hqueues[h]]
  BY DEF FundedInv, UseReservation, Visit, callerVars, TypeOK, PromoterType
<1>2. promoted[h] < reserved[h] /\ immediate \in Seq(Hosts)
  BY <1>1 DEF Funded, TypeOK, PromoterType
<1>3. \A k \in DOMAIN immediate' : (k \in DOMAIN immediate /\ immediate'[k] = immediate[k])
                                   \/ immediate'[k] = h
  BY <1>1, <1>2
<1>4. \A k \in DOMAIN immediate' : promoted'[immediate'[k]] < reserved'[immediate'[k]]
  BY <1>1, <1>2, <1>3 DEF Funded
<1>5. TokenPerPromotion'
  BY <1>1 DEF TokenPerPromotion
<1> QED
  BY <1>1, <1>4, <1>5 DEF Funded

\* A call that begins, returns or proceeds does not lead to Create unless the
\* key is absent.
LEMMA FundedBegin ==
    ASSUME FundedInv, NEW p \in Callers, NEW op, NEW h \in Hosts, NEW arg, Begin(p, op, h, arg)
    PROVE  Funded' /\ TokenPerPromotion'
<1>1. /\ pc'[p] = "create" => hqueues[h] = NoQueue
      /\ req'[p].host = h
      /\ \A o \in Callers \ {p} : pc'[o] = pc[o] /\ req'[o] = req[o]
  BY DEF FundedInv, TypeOK, CallerType, Begin
<1> QED
  BY <1>1, FundedFrame DEF FundedInv, Begin, queueVars, promoterVars, historyVars

LEMMA FundedCall ==
    ASSUME FundedInv, NEW p \in Callers,
           \/ Fetch(p) \/ Send(p) \/ TriggerRecalc(p) \/ PauseLoad(p) \/ PauseStore(p)
           \/ \E i \in Intervals : SetLimit(p, i)
    PROVE  Funded' /\ TokenPerPromotion'
<1> USE DEF FundedInv, TypeOK
<1>1. UNCHANGED <<hqueues, holds, promoted, reserved, immediate>>
  BY DEF Fetch, Send, TriggerRecalc, PauseLoad, PauseStore, SetLimit,
         queueVars, promoterVars, historyVars
<1>2. \A o \in Callers \ {p} : pc'[o] = pc[o] /\ req'[o] = req[o]
  BY DEF Fetch, Send, TriggerRecalc, PauseLoad, PauseStore, SetLimit, Return, CallerType
<1>3. pc'[p] # "create"
  <2>1. CASE Fetch(p)
    <3>1. req[p].op \in {"publish", "pause", "limit"}
      BY <2>1 DEF Fetch, CallerType, Ops
    <3>2. pc'[p] = CASE req[p].op = "publish" -> "send"
                     [] req[p].op = "pause" -> "pauseLoad"
                     [] req[p].op = "limit" -> "setLimit"
      BY <2>1 DEF Fetch, CallerType
    <3> QED
      BY <3>1, <3>2
  <2>2. CASE ~Fetch(p)
    BY <2>2 DEF Send, TriggerRecalc, PauseLoad, PauseStore, SetLimit, Return, CallerType
  <2> QED
    BY <2>1, <2>2
<1> QED
  BY <1>1, <1>2, <1>3, FundedFrame

LEMMA FundedStep == FundedInv /\ [Next]_vars => FundedInv'
<1> SUFFICES ASSUME FundedInv, [Next]_vars PROVE Funded' /\ TokenPerPromotion'
  BY TypeStep DEF FundedInv
<1>1. ASSUME NEW p \in Callers, CallStep(p) \/ \E h \in Hosts : Publish(p, h)
      PROVE  Funded' /\ TokenPerPromotion'
  <2>1. CASE \E h \in Hosts : Publish(p, h)
    BY <2>1, FundedBegin DEF Publish
  <2>2. CASE CallStep(p)
    BY <2>2, FundedCreate, FundedCall DEF CallStep
  <2> QED
    BY <1>1, <2>1, <2>2
<1>2. ASSUME NEW v \in Visitors, Take(v) \/ VisitorStep(v)
      PROVE  Funded' /\ TokenPerPromotion'
  <2>1. v \in Callers /\ (stage[v] # "free" => job[v].host \in Hosts)
    BY DEF FundedInv, TypeOK, JobType, Messages, Callers
  <2>2. CASE \/ TakeRateLimitHeaders(v) \/ TakeSample(v) \/ Republish(v)
             \/ \E h \in Hosts, d \in RetryAfters : Pause(v, h, d)
    BY <2>1, <2>2, FundedBegin
    DEF TakeRateLimitHeaders, TakeSample, Republish, Pause, About, Done
  <2>3. CASE Take(v) \/ HandOver(v) \/ Finish(v)
    BY <2>3, FundedFrame
    DEF FundedInv, Take, HandOver, Finish, queueVars, promoterVars, historyVars
  <2> QED
    BY <1>2, <2>2, <2>3 DEF VisitorStep
<1>3. CASE PromoterStep
  <2>1. CASE \E h \in Hosts : SkipEmpty(h) \/ SkipPaused(h)
    BY <2>1, FundedFrame DEF FundedInv, SkipEmpty, SkipPaused, Visit, callerVars
  <2>2. CASE StartRange \/ StartWait \/ WakeUp \/ PromoterPanic
    BY <2>2, FundedFrame
    DEF FundedInv, StartRange, StartWait, WakeUp, PromoterPanic, queueVars, callerVars, historyVars
  <2>3. CASE PromoterPauseLoad \/ PromoterPauseStore
    BY <2>3, FundedFrame
    DEF FundedInv, PromoterPauseLoad, PromoterPauseStore, queueVars, callerVars, historyVars
  <2> QED
    BY <1>3, <2>1, <2>2, <2>3, FundedUse, FundedReserve, FundedPromote DEF PromoterStep
<1>4. CASE Tick \/ UNCHANGED vars
  BY <1>4, FundedFrame
  DEF FundedInv, Tick, vars, queueVars, promoterVars, callerVars, historyVars
<1> QED
  BY <1>1, <1>2, <1>3, <1>4 DEF Next

\* No host is promoted more often than its limiters granted a token, whatever
\* the interleaving of promoter, publishers and visitors, and also when two
\* publishers race to create the host's queue.
THEOREM PromotionsAreFunded == Spec => []TokenPerPromotion
<1>1. Spec => []FundedInv
  BY FundedInit, FundedStep, PTL DEF Spec
<1>2. FundedInv => TokenPerPromotion
  BY DEF FundedInv
<1> QED
  BY <1>1, <1>2, PTL

\* A reservation held, and a candidate found, is one promotion ahead.
THEOREM ReservationsAreFunded == Spec => []Funded
<1>1. Spec => []FundedInv
  BY FundedInit, FundedStep, PTL DEF Spec
<1>2. FundedInv => Funded
  BY DEF FundedInv
<1> QED
  BY <1>1, <1>2, PTL

-----------------------------------------------------------------------------
(***************************************************************************)
(* No promotion is early.  A reservation that is held has matured, or the  *)
(* host is paused until then, or about to be; pauses that are not replaced *)
(* by shorter ones only get longer; and a queue that comes to replace      *)
(* another has no reservation.                                             *)
(***************************************************************************)
Matured(q) == Sec(matureAt[q]) <= Sec(now)
PausedFor(q) == ppc \in {"pauseLoad", "pauseStore"} /\ pausing.queue = q

Unreserved ==
    \A p \in Callers, h \in Hosts :
        hqueues[h] = NoQueue \/ (pc[p] = "create" /\ req[p].host = h) => matureAt[<<p, h>>] = 0
HeldIsPaused ==
    \A q \in Queues : holds[q] => Matured(q) \/ Sec(matureAt[q]) <= pausedUntil[q] \/ PausedFor(q)
FoundIsDone == \A k \in DOMAIN immediate : immediate[k] \notin todo
FoundIsMature == \A k \in DOMAIN immediate : Matured(hqueues[immediate[k]])
PausesEnough ==
    /\ ppc = "pauseLoad" => matureAt[pausing.queue] <= now + pausing.arg
    /\ ppc = "pauseStore" => Sec(matureAt[pausing.queue]) <= pausing.arg

OnTimeInv == Unreserved /\ FoundIsDone /\ (~shrunk => HeldIsPaused /\ FoundIsMature /\ PausesEnough)

LEMMA SecMonotone == ASSUME NEW a \in Int, NEW b \in Int, a <= b PROVE Sec(a) <= Sec(b)
<1> DEFINE T == TicksPerSecond
           x == a \div T
           y == b \div T
<1>1. T \in Nat \ {0}
  BY ConstantsAssumption
<1>2. x \in Int /\ y \in Int /\ T * x <= a /\ b < T * y + T
  BY <1>1
<1> HIDE DEF x, y, T
<1>3. ASSUME y < x PROVE FALSE
  <2>1. x - y - 1 \in Nat /\ T * (x - y - 1) >= 0
    BY <1>1, <1>2, <1>3
  <2>2. T * x = T * y + T + T * (x - y - 1)
    BY <1>1, <1>2
  <2>3. T * x \in Int /\ T * y \in Int /\ T * (x - y - 1) \in Int
    BY <1>1, <1>2
  <2> QED BY <1>1, <1>2, <2>1, <2>2, <2>3
<1> QED BY <1>2, <1>3 DEF Sec, x, y, T

LEMMA SecZero == Sec(0) = 0
BY ConstantsAssumption DEF Sec

LEMMA Mature ==
  ASSUME TypeOK, NEW q \in Queues, Matured(q), matureAt'[q] = matureAt[q], now' \in Nat, now <= now'
  PROVE  Matured(q)'
<1>1. matureAt[q] \in Int /\ now \in Nat
  BY DEF TypeOK, HistoryType
<1>2. Sec(now) <= Sec(now')
  BY <1>1, SecMonotone
<1>3. Sec(now) \in Int /\ Sec(now') \in Int /\ Sec(matureAt[q]) \in Int
  BY <1>1, SecInt
<1> QED BY <1>2, <1>3 DEF Matured

\* What is never reserved has matured.
LEMMA NeverReserved == ASSUME TypeOK, NEW q, matureAt[q] = 0 PROVE Matured(q)
<1>1. Sec(0) <= Sec(now)
  BY SecMonotone DEF TypeOK
<1> QED BY <1>1, SecZero DEF Matured

LEMMA FoundQueue == ASSUME TypeOK, NEW k \in DOMAIN immediate PROVE immediate[k] \in Hosts /\ hqueues[immediate[k]] \in Queues
<1>1. immediate[k] \in Hosts /\ hqueues[immediate[k]] # NoQueue
  BY DEF TypeOK, PromoterType
<1> QED BY <1>1 DEF TypeOK, QueueType

\* A step that leaves reservations and pauses alone.
LEMMA OnTimeFrame ==
  ASSUME TypeOK, OnTimeInv, UNCHANGED <<hqueues, holds, matureAt, pausedUntil, shrunk, pausing>>,
         now' \in Nat, now <= now',
         (immediate' = immediate /\ todo' \subseteq todo) \/ immediate' = <<>>,
         ppc' = ppc \/ (ppc \notin {"pauseLoad", "pauseStore"} /\ ppc' \notin {"pauseLoad", "pauseStore"}),
         \A p \in Callers : pc'[p] = "create" =>
             hqueues[req'[p].host] = NoQueue \/ (pc[p] = "create" /\ req'[p].host = req[p].host)
  PROVE  OnTimeInv'
<1>1. now \in Nat
  BY DEF TypeOK
<1>2. Unreserved' /\ FoundIsDone'
  BY DEF OnTimeInv, Unreserved, FoundIsDone
<1>3. \A q \in Queues : Matured(q) => Matured(q)'
  BY Mature
<1>4. ASSUME ~shrunk PROVE HeldIsPaused'
  BY <1>3, <1>4 DEF OnTimeInv, HeldIsPaused, PausedFor
<1>5. ASSUME ~shrunk PROVE FoundIsMature'
  BY <1>3, <1>5, FoundQueue DEF OnTimeInv, FoundIsMature
<1>6. ASSUME ~shrunk PROVE PausesEnough'
  <2>1. ppc' = "pauseLoad" => matureAt[pausing.queue] <= now' + pausing.arg
    <3> SUFFICES ASSUME ppc' = "pauseLoad" PROVE matureAt[pausing.queue] <= now' + pausing.arg
      OBVIOUS
    <3>1. ppc = "pauseLoad" /\ pausing.queue \in Queues /\ pausing.arg \in Int
      BY DEF TypeOK, PromoterType
    <3>2. matureAt[pausing.queue] \in Int /\ matureAt[pausing.queue] <= now + pausing.arg
      BY <1>6, <3>1 DEF OnTimeInv, PausesEnough, TypeOK, HistoryType
    <3> QED BY <1>1, <3>1, <3>2
  <2> QED BY <1>6, <2>1 DEF OnTimeInv, PausesEnough
<1> QED BY <1>2, <1>4, <1>5, <1>6 DEF OnTimeInv

\* A queue is replaced by one without a reservation.
LEMMA OnTimeCreate ==
  ASSUME TypeOK, OnTimeInv, NEW p \in Callers, Create(p), NEW h, h = req[p].host
  PROVE  OnTimeInv'
<1>1. /\ h \in Hosts /\ pc[p] = "create" /\ hqueues' = [hqueues EXCEPT ![h] = <<p, h>>]
      /\ UNCHANGED <<now, holds, matureAt, pausedUntil, shrunk, pausing, ppc, immediate, req>>
      /\ todo' \subseteq todo \cup {h} /\ (hqueues[h] # NoQueue => todo' = todo)
      /\ pc' = [pc EXCEPT ![p] = "fetch"]
  BY DEF Create, TypeOK, CallerType, historyVars
<1>2. hqueues'[h] = <<p, h>> /\ \A k \in Hosts \ {h} : hqueues'[k] = hqueues[k]
  BY <1>1 DEF TypeOK, QueueType
<1>3. <<p, h>> \in Queues /\ <<p, h>> # NoQueue
  BY <1>1, QueueMade
<1>4. \A o \in Callers : pc'[o] = "create" => pc[o] = "create"
  BY <1>1 DEF TypeOK, CallerType
<1>5. Unreserved'
  BY <1>1, <1>2, <1>3, <1>4 DEF OnTimeInv, Unreserved
<1>6. FoundIsDone'
  <2>1. ASSUME NEW k \in DOMAIN immediate PROVE hqueues[immediate[k]] # NoQueue
    BY <2>1 DEF TypeOK, PromoterType
  <2> QED BY <1>1, <2>1 DEF OnTimeInv, FoundIsDone
<1>7. \A q : Matured(q)' <=> Matured(q)
  BY <1>1 DEF Matured
<1>8. ASSUME ~shrunk PROVE HeldIsPaused' /\ PausesEnough'
  BY <1>1, <1>7, <1>8 DEF OnTimeInv, HeldIsPaused, PausedFor, PausesEnough
<1>9. ASSUME ~shrunk PROVE FoundIsMature'
  <2>1. matureAt[<<p, h>>] = 0
    BY <1>1 DEF OnTimeInv, Unreserved
  <2>2. Matured(<<p, h>>)
    BY <2>1, NeverReserved
  <2>3. ASSUME NEW k \in DOMAIN immediate PROVE Matured(hqueues'[immediate[k]])
    BY <1>2, <1>9, <2>2, FoundQueue DEF OnTimeInv, FoundIsMature
  <2> QED BY <1>1, <1>7, <2>3 DEF FoundIsMature, Matured
<1> QED BY <1>1, <1>5, <1>6, <1>8, <1>9 DEF OnTimeInv

\* A pause that is not replaced by a shorter one is at least as good.
LEMMA OnTimePauseStore ==
  ASSUME TypeOK, OnTimeInv, NEW q \in Queues, NEW v \in Int, StorePause(q, v),
         UNCHANGED <<now, hqueues, holds, matureAt, immediate, todo>>,
         \A p \in Callers : pc'[p] = "create" => pc[p] = "create" /\ req'[p].host = req[p].host,
         \/ UNCHANGED <<ppc, pausing>>
         \/ ppc = "pauseStore" /\ pausing.queue = q /\ pausing.arg = v /\ ppc' = "range"
  PROVE  OnTimeInv'
<1>1. pausedUntil \in [Queues -> Int] /\ \A r \in Queues : Sec(matureAt[r]) \in Int
  BY SecInt DEF TypeOK, ControlType, HistoryType
<1>2. pausedUntil'[q] = v /\ \A r \in Queues \ {q} : pausedUntil'[r] = pausedUntil[r]
  BY <1>1 DEF StorePause
<1>3. Unreserved' /\ FoundIsDone'
  BY DEF OnTimeInv, Unreserved, FoundIsDone
<1>4. \A r : Matured(r)' <=> Matured(r)
  BY DEF Matured
<1>5. ASSUME ~shrunk' PROVE ~shrunk /\ pausedUntil[q] <= v
  <2>1. ~(shrunk \/ v < pausedUntil[q])
    BY <1>5, Zenon DEF StorePause
  <2>2. ~shrunk /\ ~(v < pausedUntil[q])
    BY <2>1, Zenon
  <2> QED BY <1>1, <2>2
<1>6. ASSUME ~shrunk' PROVE HeldIsPaused'
  <2> SUFFICES ASSUME NEW r \in Queues, holds[r], ~Matured(r), ~PausedFor(r)'
               PROVE  Sec(matureAt[r]) <= pausedUntil'[r]
    BY <1>4 DEF HeldIsPaused
  <2>1. Sec(matureAt[r]) <= pausedUntil[r] \/ PausedFor(r)
    BY <1>5, <1>6 DEF OnTimeInv, HeldIsPaused
  <2>2. CASE Sec(matureAt[r]) <= pausedUntil[r]
    BY <1>1, <1>2, <1>5, <1>6, <2>2
  <2>3. CASE PausedFor(r)
    <3>1. ppc = "pauseStore" /\ pausing.queue = r /\ r = q /\ pausing.arg = v
      BY <2>3 DEF PausedFor
    <3>2. Sec(matureAt[r]) <= v
      BY <1>5, <1>6, <3>1 DEF OnTimeInv, PausesEnough
    <3> QED BY <1>2, <3>1, <3>2
  <2> QED BY <2>1, <2>2, <2>3
<1>7. ASSUME ~shrunk' PROVE FoundIsMature' /\ PausesEnough'
  BY <1>4, <1>5, <1>7 DEF OnTimeInv, FoundIsMature, PausesEnough, Matured
<1> QED BY <1>3, <1>6, <1>7 DEF OnTimeInv

LEMMA OnTimePauseLoad == ASSUME TypeOK, OnTimeInv, PromoterPauseLoad PROVE OnTimeInv'
<1> DEFINE q == pausing.queue
           v == Sec(now + pausing.arg)
           o == pausedUntil[q]
<1>1. /\ ppc = "pauseLoad" /\ q \in Queues /\ pausing.arg \in Int /\ pausing \in [queue : Queues \cup {NoQueue}, arg : Int]
      /\ UNCHANGED <<now, hqueues, holds, matureAt, pausedUntil, shrunk, immediate, todo, pc, req>>
  BY DEF PromoterPauseLoad, TypeOK, PromoterType, queueVars, callerVars, historyVars
<1>2. now \in Nat /\ matureAt[q] \in Int /\ o \in Int
  BY <1>1 DEF TypeOK, HistoryType, ControlType
<1>3. ASSUME ~shrunk PROVE Sec(matureAt[q]) <= v
  <2>1. matureAt[q] <= now + pausing.arg
    BY <1>1, <1>3 DEF OnTimeInv, PausesEnough
  <2> QED BY <1>1, <1>2, <2>1, SecMonotone
<1>4. Unreserved' /\ FoundIsDone'
  BY <1>1 DEF OnTimeInv, Unreserved, FoundIsDone
<1>5. \A r : Matured(r)' <=> Matured(r)
  BY <1>1 DEF Matured
<1>6. ASSUME ~shrunk PROVE FoundIsMature'
  BY <1>1, <1>5, <1>6 DEF OnTimeInv, FoundIsMature, Matured
<1>7. CASE Raises(v, o)
  <2>1. ppc' = "pauseStore" /\ pausing'.queue = q /\ pausing'.arg = v
    BY <1>1, <1>7 DEF PromoterPauseLoad
  <2>2. ASSUME ~shrunk PROVE HeldIsPaused' /\ PausesEnough'
    BY <1>1, <1>3, <1>5, <2>1, <2>2 DEF OnTimeInv, HeldIsPaused, PausedFor, PausesEnough
  <2> QED BY <1>1, <1>4, <1>6, <2>2 DEF OnTimeInv
<1>8. CASE ~Raises(v, o)
  <2>1. ppc' = "range"
    BY <1>8 DEF PromoterPauseLoad
  <2>2. v <= o
    BY <1>1, <1>2, <1>8, SecInt DEF Raises
  <2>3. ASSUME ~shrunk PROVE Sec(matureAt[q]) <= pausedUntil[q]
    BY <1>1, <1>2, <1>3, <2>2, <2>3, SecInt
  <2>4. ASSUME ~shrunk PROVE HeldIsPaused' /\ PausesEnough'
    BY <1>1, <1>5, <2>1, <2>3, <2>4 DEF OnTimeInv, HeldIsPaused, PausedFor, PausesEnough
  <2> QED BY <1>1, <1>4, <1>6, <2>4 DEF OnTimeInv
<1> QED BY <1>7, <1>8

LEMMA PromotedQueue ==
  ASSUME TypeOK, Promote, NEW n, n = (next + 1) % CounterMod
  PROVE  Picked(n) \in Hosts /\ hqueues[Picked(n)] \in Queues
<1>1. n \in Nat
  BY ConstantsAssumption DEF TypeOK, PromoterType
<1>2. immediate \in Seq(Hosts) /\ immediate # <<>>
  BY DEF Promote, TypeOK, PromoterType
<1>3. PICK k \in DOMAIN immediate : Picked(n) = immediate[k]
  BY <1>1, <1>2, PickedCandidate
<1>4. immediate[k] \in Hosts /\ hqueues[immediate[k]] # NoQueue
  BY <1>2, <1>3 DEF TypeOK, PromoterType
<1> QED BY <1>3, <1>4 DEF TypeOK, QueueType

LEMMA OnTimeReserve ==
  ASSUME TypeOK, Funded, OnTimeInv, NEW h \in Hosts, Reserve(h),
         NEW q, q = hqueues[h], NEW mature, mature = Later(now, nextAt[q])
  PROVE  OnTimeInv'
<1>1. /\ ppc = "range" /\ h \in todo /\ todo' = todo \ {h}
      /\ UNCHANGED <<now, hqueues, pausedUntil, shrunk, pc, req>>
      /\ holds' = [holds EXCEPT ![q] = TRUE] /\ matureAt' = [matureAt EXCEPT ![q] = mature]
  BY DEF Reserve, Visit, callerVars
<1>2. q \in Queues /\ q # NoQueue /\ HostOf(q) = h
  BY <1>1 DEF TypeOK, PromoterType, QueueType, Funded
<1>3. now \in Nat /\ mature \in Int /\ now <= mature
  BY <1>2 DEF TypeOK, ControlType, Later
<1>4. matureAt'[q] = mature /\ \A r \in Queues \ {q} : matureAt'[r] = matureAt[r] /\ holds'[r] = holds[r]
  BY <1>1, <1>2 DEF TypeOK, HistoryType, ControlType
<1>5. Unreserved'
  <2> SUFFICES ASSUME NEW p \in Callers, NEW k \in Hosts,
                      hqueues[k] = NoQueue \/ (pc[p] = "create" /\ req[p].host = k)
               PROVE  matureAt'[<<p, k>>] = 0
    BY <1>1 DEF Unreserved
  <2>1. matureAt[<<p, k>>] = 0 /\ <<p, k>> \in Queues /\ HostOf(<<p, k>>) = k
    BY QueueMade DEF OnTimeInv, Unreserved
  <2>2. <<p, k>> # q
    <3>1. k = h => hqueues[k] # <<p, k>>
      BY DEF Funded
    <3> QED BY <1>2, <2>1, <3>1
  <2> QED BY <1>4, <2>1, <2>2
<1>6. \A r \in Queues \ {q} : Matured(r) => Matured(r)'
  BY <1>1, <1>4 DEF Matured
<1>7. ASSUME NEW k \in DOMAIN immediate PROVE hqueues[immediate[k]] \in Queues \ {q} /\ immediate[k] \in Hosts
  <2>1. immediate[k] # h
    BY <1>1 DEF OnTimeInv, FoundIsDone
  <2>2. HostOf(hqueues[immediate[k]]) = immediate[k]
    BY FoundQueue, NoQueueAssumption DEF Funded
  <2> QED BY <1>2, <2>1, <2>2, FoundQueue
<1>8. immediate \in Seq(Hosts)
  BY DEF TypeOK, PromoterType
<1>9. CASE mature = now /\ immediate' = Append(immediate, h) /\ UNCHANGED <<ppc, pausing>>
  <2>1. Matured(q)'
    BY <1>1, <1>3, <1>4, <1>9, SecInt DEF Matured
  <2>2. \A k \in DOMAIN immediate' : (k \in DOMAIN immediate /\ immediate'[k] = immediate[k]) \/ immediate'[k] = h
    BY <1>8, <1>9
  <2>3. FoundIsDone'
    BY <1>1, <2>2 DEF OnTimeInv, FoundIsDone
  <2>4. ASSUME ~shrunk PROVE FoundIsMature'
    <3> SUFFICES ASSUME NEW k \in DOMAIN immediate', NEW r, r = hqueues[immediate'[k]] PROVE Matured(r)'
      BY <1>1 DEF FoundIsMature, Matured
    <3>1. CASE immediate'[k] = h
      BY <2>1, <3>1
    <3>2. CASE k \in DOMAIN immediate /\ immediate'[k] = immediate[k]
      BY <1>6, <1>7, <2>4, <3>2 DEF OnTimeInv, FoundIsMature
    <3> QED BY <2>2, <3>1, <3>2
  <2>5. ASSUME ~shrunk PROVE HeldIsPaused' /\ PausesEnough'
    BY <1>1, <1>2, <1>4, <1>6, <1>9, <2>1, <2>5 DEF OnTimeInv, HeldIsPaused, PausedFor, PausesEnough
  <2> QED BY <1>1, <1>5, <2>3, <2>4, <2>5 DEF OnTimeInv
<1>10. CASE mature > now /\ ppc' = "pauseLoad" /\ pausing' = [queue |-> q, arg |-> mature - now] /\ UNCHANGED immediate
  <2>1. FoundIsDone'
    BY <1>1, <1>10 DEF OnTimeInv, FoundIsDone
  <2>2. ASSUME ~shrunk PROVE FoundIsMature'
    BY <1>1, <1>6, <1>7, <1>10, <2>2 DEF OnTimeInv, FoundIsMature, Matured
  <2>3. ASSUME ~shrunk PROVE HeldIsPaused'
    BY <1>1, <1>2, <1>4, <1>6, <1>10, <2>3 DEF OnTimeInv, HeldIsPaused, PausedFor
  <2>4. PausesEnough'
    BY <1>1, <1>3, <1>4, <1>10 DEF PausesEnough
  <2> QED BY <1>1, <1>5, <2>1, <2>2, <2>3, <2>4 DEF OnTimeInv
<1> QED BY <1>9, <1>10 DEF Reserve

\* A reservation held for a host that is not paused has matured.
LEMMA OnTimeUse == ASSUME TypeOK, OnTimeInv, NEW h \in Hosts, UseReservation(h) PROVE OnTimeInv'
<1> DEFINE q == hqueues[h]
<1>1. /\ ppc = "range" /\ h \in todo /\ todo' = todo \ {h} /\ immediate' = Append(immediate, h)
      /\ UNCHANGED <<now, hqueues, pausedUntil, shrunk, pc, req, holds, matureAt, ppc, pausing>>
      /\ holds[q] /\ ~Paused(q)
  BY DEF UseReservation, Ready, Visit, callerVars
<1>2. q \in Queues
  BY <1>1 DEF TypeOK, PromoterType, QueueType
<1>3. ASSUME ~shrunk PROVE Matured(q)
  <2>1. Matured(q) \/ Sec(matureAt[q]) <= pausedUntil[q]
    BY <1>1, <1>2, <1>3 DEF OnTimeInv, HeldIsPaused, PausedFor
  <2>2. now \in Nat /\ Sec(now) \in Int /\ Sec(matureAt[q]) \in Int /\ pausedUntil[q] \in Int
    BY <1>2, SecInt DEF TypeOK, HistoryType, ControlType
  <2>3. 0 <= Sec(now)
    BY <2>2, SecMonotone, SecZero
  <2>4. pausedUntil[q] = 0 \/ ~(Sec(now) < pausedUntil[q])
    BY <1>1 DEF Paused
  <2> QED BY <2>1, <2>2, <2>3, <2>4 DEF Matured
<1>4. immediate \in Seq(Hosts)
  BY DEF TypeOK, PromoterType
<1>5. \A k \in DOMAIN immediate' : (k \in DOMAIN immediate /\ immediate'[k] = immediate[k]) \/ immediate'[k] = h
  BY <1>1, <1>4
<1>6. Unreserved' /\ FoundIsDone'
  BY <1>1, <1>5 DEF OnTimeInv, Unreserved, FoundIsDone
<1>7. \A r : Matured(r)' <=> Matured(r)
  BY <1>1 DEF Matured
<1>8. ASSUME ~shrunk PROVE FoundIsMature'
  <2> SUFFICES ASSUME NEW k \in DOMAIN immediate' PROVE Matured(hqueues[immediate'[k]])
    BY <1>1 DEF FoundIsMature, Matured
  <2> QED BY <1>3, <1>5, <1>8 DEF OnTimeInv, FoundIsMature
<1>9. ASSUME ~shrunk PROVE HeldIsPaused' /\ PausesEnough'
  BY <1>1, <1>7, <1>9 DEF OnTimeInv, HeldIsPaused, PausedFor, PausesEnough
<1> QED BY <1>1, <1>6, <1>8, <1>9 DEF OnTimeInv

\* A promotion gives reservations back, if it does anything to them.
LEMMA OnTimePromote == ASSUME TypeOK, OnTimeInv, Promote PROVE OnTimeInv'
<1>1. /\ UNCHANGED <<now, hqueues, pausedUntil, shrunk, pc, req, matureAt, todo, pausing>>
      /\ ppc = "range" /\ ppc' = "calc" /\ immediate' = <<>>
  BY DEF Promote, callerVars
<1>2. \A r \in Queues : holds'[r] => holds[r]
  BY PromotedQueue DEF Promote, ReleaseReservation, TypeOK, ControlType
<1>3. Unreserved' /\ FoundIsDone' /\ FoundIsMature'
  BY <1>1 DEF OnTimeInv, Unreserved, FoundIsDone, FoundIsMature
<1>4. \A r : Matured(r)' <=> Matured(r)
  BY <1>1 DEF Matured
<1>5. ASSUME ~shrunk PROVE HeldIsPaused' /\ PausesEnough'
  BY <1>1, <1>2, <1>4, <1>5 DEF OnTimeInv, HeldIsPaused, PausedFor, PausesEnough
<1> QED BY <1>1, <1>3, <1>5 DEF OnTimeInv

LEMMA OnTimeBegin ==
  ASSUME TypeOK, OnTimeInv, NEW p \in Callers, NEW op, NEW h \in Hosts, NEW arg, Begin(p, op, h, arg)
  PROVE  OnTimeInv'
<1>1. \A o \in Callers : pc'[o] = "create" =>
          hqueues[req'[o].host] = NoQueue \/ (pc[o] = "create" /\ req'[o].host = req[o].host)
  <2>1. /\ req'[p].host = h /\ (pc'[p] = "create" => hqueues[h] = NoQueue)
        /\ \A o \in Callers \ {p} : req'[o] = req[o] /\ pc'[o] = pc[o]
    BY DEF Begin, TypeOK, CallerType
  <2> QED BY <2>1
<1>2. UNCHANGED <<now, hqueues, holds, matureAt, pausedUntil, shrunk, pausing, immediate, todo, ppc>>
  BY DEF Begin, queueVars, promoterVars, historyVars
<1>3. now \in Nat
  BY DEF TypeOK
<1> QED BY <1>1, <1>2, <1>3, OnTimeFrame

LEMMA OnTimeCall ==
  ASSUME TypeOK, OnTimeInv, NEW p \in Callers, CallStep(p)
  PROVE  OnTimeInv'
<1>1. CASE Create(p)
  BY <1>1, OnTimeCreate
<1>2. Create(p) \/ \A o \in Callers \ {p} : req'[o] = req[o] /\ pc'[o] = pc[o]
  <2>1. CASE Fetch(p) \/ Send(p)
    BY <2>1 DEF Fetch, Send, TypeOK, CallerType
  <2>2. CASE TriggerRecalc(p) \/ PauseStore(p) \/ \E i \in Intervals : SetLimit(p, i)
    BY <2>2 DEF TriggerRecalc, PauseStore, SetLimit, Return, TypeOK, CallerType
  <2>3. CASE PauseLoad(p)
    BY <2>3 DEF PauseLoad, Return, TypeOK, CallerType
  <2> QED BY <2>1, <2>2, <2>3 DEF CallStep
<1>3. Create(p) \/ pc'[p] # "create"
  <2>0. CASE Fetch(p)
    <3>1. req[p].op \in {"publish", "pause", "limit"}
      BY <2>0 DEF Fetch, TypeOK, CallerType, Ops
    <3> QED BY <2>0, <3>1 DEF Fetch, TypeOK, CallerType
  <2>1. CASE Send(p)
    BY <2>1 DEF Send, TypeOK, CallerType
  <2>2. CASE TriggerRecalc(p) \/ PauseStore(p) \/ \E i \in Intervals : SetLimit(p, i)
    BY <2>2 DEF TriggerRecalc, PauseStore, SetLimit, Return, TypeOK, CallerType
  <2>3. CASE PauseLoad(p)
    BY <2>3 DEF PauseLoad, Return, TypeOK, CallerType
  <2> QED BY <2>0, <2>1, <2>2, <2>3 DEF CallStep
<1>4. CASE PauseStore(p)
  <2>1. hq[p] \in Queues /\ req[p].arg \in Int
    BY <1>4 DEF PauseStore, TypeOK, CallerType
  <2>2. UNCHANGED <<now, hqueues, holds, matureAt, immediate, todo, ppc, pausing>> /\ StorePause(hq[p], req[p].arg)
    BY <1>4 DEF PauseStore, promoterVars
  <2>3. \A o \in Callers : pc'[o] = "create" => pc[o] = "create" /\ req'[o].host = req[o].host
    <3>1. ~Create(p)
      BY <1>4 DEF Create, PauseStore
    <3> QED BY <1>2, <1>3, <3>1
  <2> QED BY <2>1, <2>2, <2>3, OnTimePauseStore
<1>5. CASE Fetch(p) \/ Send(p) \/ TriggerRecalc(p) \/ PauseLoad(p) \/ \E i \in Intervals : SetLimit(p, i)
  <2>1. UNCHANGED <<now, hqueues, holds, matureAt, pausedUntil, shrunk, pausing, immediate, todo>>
    BY <1>5 DEF Fetch, Send, TriggerRecalc, PauseLoad, SetLimit, queueVars, promoterVars, historyVars
  <2>2. ppc' = ppc \/ (ppc \notin {"pauseLoad", "pauseStore"} /\ ppc' \notin {"pauseLoad", "pauseStore"})
    BY <1>5 DEF Fetch, Send, TriggerRecalc, PauseLoad, SetLimit, promoterVars
  <2>3. ~Create(p)
    BY <1>5 DEF Create, Fetch, Send, TriggerRecalc, PauseLoad, SetLimit
  <2>4. now \in Nat
    BY DEF TypeOK
  <2> QED BY <1>2, <1>3, <2>1, <2>2, <2>3, <2>4, OnTimeFrame
<1> QED BY <1>1, <1>4, <1>5 DEF CallStep

LEMMA OnTimeStep == ASSUME TypeOK, Funded, OnTimeInv, [Next]_vars PROVE OnTimeInv'
<1>1. ASSUME NEW p \in Callers, CallStep(p) \/ \E h \in Hosts : Publish(p, h)
      PROVE  OnTimeInv'
  BY <1>1, OnTimeCall, OnTimeBegin DEF Publish
<1>2. now \in Nat /\ now + 1 \in Nat /\ now <= now + 1
  BY DEF TypeOK
<1>3. ASSUME NEW v \in Visitors, Take(v) \/ VisitorStep(v)
      PROVE  OnTimeInv'
  <2>1. v \in Callers /\ (stage[v] # "free" => job[v].host \in Hosts)
    BY DEF TypeOK, JobType, Messages, Callers
  <2>2. CASE \/ TakeRateLimitHeaders(v) \/ TakeSample(v) \/ Republish(v)
             \/ \E h \in Hosts, d \in RetryAfters : Pause(v, h, d)
    BY <2>1, <2>2, OnTimeBegin DEF TakeRateLimitHeaders, TakeSample, Republish, Pause, About, Done
  <2>3. CASE Take(v) \/ HandOver(v) \/ Finish(v)
    <3>1. UNCHANGED <<now, hqueues, holds, matureAt, pausedUntil, shrunk, pausing, immediate, todo, ppc, pc, req>>
      BY <2>3 DEF Take, HandOver, Finish, queueVars, promoterVars, historyVars
    <3> QED BY <1>2, <3>1, OnTimeFrame
  <2> QED BY <1>3, <2>2, <2>3 DEF VisitorStep
<1>4. CASE PromoterStep
  <2>1. CASE \E h \in Hosts : SkipEmpty(h) \/ SkipPaused(h)
    <3>1. UNCHANGED <<now, hqueues, holds, matureAt, pausedUntil, shrunk, pausing, immediate, ppc, pc, req>> /\ todo' \subseteq todo
      BY <2>1 DEF SkipEmpty, SkipPaused, Visit, callerVars
    <3> QED BY <1>2, <3>1, OnTimeFrame
  <2>2. CASE StartRange \/ StartWait \/ WakeUp \/ PromoterPanic
    <3>1. /\ UNCHANGED <<now, hqueues, holds, matureAt, pausedUntil, shrunk, pausing, pc, req>>
          /\ (immediate' = immediate /\ todo' \subseteq todo) \/ immediate' = <<>>
          /\ ppc \notin {"pauseLoad", "pauseStore"} /\ ppc' \notin {"pauseLoad", "pauseStore"}
      BY <2>2 DEF StartRange, StartWait, WakeUp, PromoterPanic, queueVars, callerVars, historyVars
    <3> QED BY <1>2, <3>1, OnTimeFrame
  <2>3. CASE PromoterPauseStore
    <3>1. pausing.queue \in Queues /\ pausing.arg \in Int
      BY <2>3 DEF PromoterPauseStore, TypeOK, PromoterType
    <3>2. /\ StorePause(pausing.queue, pausing.arg) /\ ppc = "pauseStore" /\ ppc' = "range"
          /\ UNCHANGED <<now, hqueues, holds, matureAt, immediate, todo, pc, req>>
      BY <2>3 DEF PromoterPauseStore, callerVars
    <3> QED BY <3>1, <3>2, OnTimePauseStore
  <2> QED BY <1>4, <2>1, <2>2, <2>3, OnTimePauseLoad, OnTimeUse, OnTimeReserve, OnTimePromote DEF PromoterStep
<1>5. CASE Tick
  <2>1. UNCHANGED <<hqueues, holds, matureAt, pausedUntil, shrunk, pausing, immediate, todo, ppc, pc, req>> /\ now' = now + 1
    BY <1>5 DEF Tick, queueVars, promoterVars, callerVars, historyVars
  <2> QED BY <1>2, <2>1, OnTimeFrame
<1>6. CASE UNCHANGED vars
  <2>1. UNCHANGED <<now, hqueues, holds, matureAt, pausedUntil, shrunk, pausing, immediate, todo, ppc, pc, req>>
    BY <1>6 DEF vars, queueVars, promoterVars, callerVars, historyVars
  <2> QED BY <1>2, <2>1, OnTimeFrame
<1> QED BY <1>1, <1>3, <1>4, <1>5, <1>6 DEF Next

LEMMA OnTimeInit == Init => OnTimeInv
<1> SUFFICES ASSUME Init PROVE OnTimeInv
  OBVIOUS
<1>1. Unreserved
  BY QueueMade DEF Init, Unreserved
<1>2. FoundIsDone /\ FoundIsMature
  BY DEF Init, FoundIsDone, FoundIsMature
<1>3. HeldIsPaused
  BY DEF Init, HeldIsPaused
<1>4. PausesEnough
  BY DEF Init, PausesEnough
<1> QED BY <1>1, <1>2, <1>3, <1>4 DEF OnTimeInv

\* The step that promotes finds its candidate mature.
LEMMA PromotesMature ==
  ASSUME TypeOK, OnTimeInv, Next, ~shrunk, NEW h \in Hosts, promoted'[h] # promoted[h]
  PROVE  Sec(matureAt[hqueues[h]]) <= Sec(now)
<1>1. Promote
  <2>1. CASE \E p \in Callers : CallStep(p) \/ \E k \in Hosts : Publish(p, k)
    BY <2>1 DEF CallStep, Publish, Begin, Create, Fetch, Send, TriggerRecalc, PauseLoad, PauseStore, SetLimit,
                historyVars
  <2>2. CASE \E v \in Visitors : Take(v) \/ VisitorStep(v)
    BY <2>2 DEF VisitorStep, Take, HandOver, Finish, Republish, TakeRateLimitHeaders, TakeSample, Pause, Begin,
                historyVars
  <2>3. CASE PromoterStep /\ ~Promote
    BY <2>3 DEF PromoterStep, StartRange, StartWait, WakeUp, PromoterPanic, PromoterPauseLoad,
                PromoterPauseStore, SkipEmpty, SkipPaused, UseReservation, Reserve, Visit, historyVars
  <2>4. CASE Tick
    BY <2>4 DEF Tick, historyVars
  <2> QED BY <2>1, <2>2, <2>3, <2>4 DEF Next
<1> DEFINE n == (next + 1) % CounterMod
<1>2. promoted' = promoted \/ promoted' = [promoted EXCEPT ![Picked(n)] = @ + 1]
  BY <1>1 DEF Promote
<1>3. h = Picked(n)
  BY <1>2 DEF TypeOK, HistoryType
<1>4. PICK k \in DOMAIN immediate : Picked(n) = immediate[k]
  <2>1. n \in Nat
    BY ConstantsAssumption DEF TypeOK, PromoterType
  <2> QED BY <1>1, <2>1, PickedCandidate DEF Promote, TypeOK, PromoterType
<1> QED BY <1>3, <1>4 DEF OnTimeInv, FoundIsMature, Matured

\* No promotion is ahead of its reservation by a second or more, on any clock
\* and with any limits, as long as no pause was replaced by a shorter one
\* (controlled.go:46-66, promoter.go:117-162).
THEOREM PromotionsAreOnTime == Spec => NotEarly
<1>1. Init => TypeOK /\ Funded /\ OnTimeInv
  BY FundedInit, OnTimeInit DEF FundedInv
<1>2. TypeOK /\ OnTimeInv /\ [Next]_vars =>
        [\A h \in Hosts : promoted'[h] # promoted[h] /\ ~shrunk => Sec(matureAt[hqueues[h]]) <= Sec(now)]_vars
  BY PromotesMature
<1>3. TypeOK /\ Funded /\ OnTimeInv /\ [Next]_vars => OnTimeInv'
  BY OnTimeStep
<1> QED BY <1>1, <1>2, <1>3, TypeCorrect, ReservationsAreFunded, PTL DEF Spec, NotEarly

-----------------------------------------------------------------------------
(***************************************************************************)
(* No host is visited faster than its limits allow, but for what each of   *)
(* its queues grants.  What a queue's limiter has given, reservations held *)
(* included, is paid for by the time its bucket takes to be full again; a  *)
(* reservation is not used before it matures, up to a second; and the      *)
(* first reservation of a queue comes with a grant of its own.             *)
(***************************************************************************)
\* Arithmetic of debts: x ticks are owed at a rate of f for what takes d at a
\* rate of i, where no rate is faster than f.
LEMMA ProductMonotone ==
  ASSUME NEW a \in Int, NEW b \in Int, NEW c \in Nat, a <= b
  PROVE  a * c <= b * c /\ c * a <= c * b
<1>1. (b - a) \in Nat /\ (b - a) * c >= 0
  OBVIOUS
<1>2. (b - a) * c = b * c - a * c
  OBVIOUS
<1>3. a * c \in Int /\ b * c \in Int /\ a * c = c * a /\ b * c = c * b
  OBVIOUS
<1> QED BY <1>1, <1>2, <1>3

\* What is owed is no more than what it takes.
LEMMA DebtBound ==
  ASSUME NEW x \in Int, NEW f \in Nat \ {0}, NEW i \in Nat, f <= i, NEW d \in Nat, x * i <= f * d
  PROVE  x <= d
<1> SUFFICES ASSUME d + 1 <= x PROVE FALSE
  OBVIOUS
<1>1. (d + 1) * i <= x * i
  BY ProductMonotone
<1>2. f * (d + 1) <= i * (d + 1)
  BY ProductMonotone
<1>3. f * (d + 1) = f * d + f /\ i * (d + 1) = (d + 1) * i
  OBVIOUS
<1>4. f * d \in Int /\ x * i \in Int /\ (d + 1) * i \in Int
  OBVIOUS
<1> QED BY <1>1, <1>2, <1>3, <1>4

\* A tick later.
LEMMA DebtTick ==
  ASSUME NEW x \in Int, NEW f \in Nat \ {0}, NEW i \in Nat, f <= i, NEW d \in Nat, NEW e \in Nat, x * i <= f * d,
         e = IF d = 0 THEN 0 ELSE d - 1
  PROVE  (x - 1) * i <= f * e
<1>1. CASE d > 0
  <2>1. (x - 1) * i = x * i - i /\ f * (d - 1) = f * d - f /\ x * i \in Int /\ f * d \in Int
    OBVIOUS
  <2> QED BY <1>1, <2>1
<1>2. CASE d = 0
  <2>1. x <= 0
    BY <1>2, DebtBound
  <2>2. (x - 1) * i <= 0 * i
    BY <2>1, ProductMonotone
  <2> QED BY <1>2, <2>2
<1> QED BY <1>1, <1>2

LEMMA CeilDivCovers ==
  ASSUME NEW a \in Nat, NEW b \in Nat \ {0}
  PROVE  (a + b - 1) \div b \in Nat /\ a <= b * ((a + b - 1) \div b)
<1> DEFINE n == a + b - 1
           q == n \div b
<1>1. q \in Int /\ b * q <= n /\ n < b * q + b
  OBVIOUS
<1>2. q >= 0
  OBVIOUS
<1>3. b * q \in Int
  BY <1>1
<1> HIDE DEF q
<1> QED BY <1>1, <1>2, <1>3 DEF q

\* At another rate it takes longer or shorter.
LEMMA DebtRefill ==
  ASSUME NEW x \in Int, NEW f \in Nat \ {0}, NEW i \in Nat \ {0}, f <= i, NEW d \in Nat, NEW j \in Nat \ {0},
         x * i <= f * d
  PROVE  LET e == (d * j + i - 1) \div i IN e \in Nat /\ x * j <= f * e
<1> DEFINE e == (d * j + i - 1) \div i
<1>0. d * j \in Nat
  OBVIOUS
<1>1. e \in Nat /\ d * j <= i * e
  BY <1>0, CeilDivCovers
<1> HIDE DEF e
<1>2. (x * i) * j <= (f * d) * j
  BY ProductMonotone
<1>3. f * (d * j) <= f * (i * e)
  BY <1>0, <1>1, ProductMonotone
<1>4. (f * d) * j = f * (d * j) /\ (x * i) * j = (x * j) * i /\ f * (i * e) = (f * e) * i
  BY <1>1
<1>5. (x * j) * i <= (f * e) * i
  BY <1>2, <1>3, <1>4, <1>1
<1>6. x * j <= f * e
  <2> SUFFICES ASSUME f * e + 1 <= x * j PROVE FALSE
    BY <1>1
  <2>1. (f * e + 1) * i <= (x * j) * i
    BY <1>1, ProductMonotone
  <2>2. (f * e + 1) * i = (f * e) * i + i
    BY <1>1
  <2>3. (f * e) * i \in Int
    BY <1>1
  <2> QED BY <1>5, <2>1, <2>2, <2>3
<1> QED BY <1>1, <1>6 DEF e

Limits == \A q \in Queues : interval[q] \in Rates
Unused == \A q \in Queues : matureAt[q] = 0 => nextAt[q] = 0 /\ ~holds[q]
FoundIsHeld ==
    \A k \in DOMAIN immediate :
        matureAt[hqueues[immediate[k]]] # 0 => holds[hqueues[immediate[k]]]

\* What the tokens taken from q are worth, on a limiter whose bucket fills at
\* the fastest rate and whose clock is behind by what was granted.
Owed(q) == Later(0, nextAt[q] - now)
Taken(h, q) == (promoted[h] + (IF holds[q] THEN 2 ELSE 1)) * Fastest + TicksPerSecond - now - Granted(h)
Pays(h, q) == matureAt[q] # 0 => Taken(h, q) * interval[q] <= Fastest * Owed(q)
HeldInTime(h, q) == holds[q] => (promoted[h] + 1) * Fastest + TicksPerSecond <= matureAt[q] + Granted(h)
FoundInTime == \A k \in DOMAIN immediate :
                   (promoted[immediate[k]] + 1) * Fastest < now + Granted(immediate[k])
InTime(h) == promoted[h] > 0 => promoted[h] * Fastest < now + Granted(h)

RateInv ==
    /\ Limits /\ Unused /\ FoundIsHeld /\ TicksPerSecond <= now
    /\ ~shrunk => /\ FoundInTime
                  /\ \A h \in Hosts :
                        InTime(h) /\ (hqueues[h] # NoQueue => Pays(h, hqueues[h]) /\ HeldInTime(h, hqueues[h]))

LEMMA FastestIs == Fastest \in Nat \ {0} /\ TicksPerSecond \in Nat \ {0} /\ \A j \in Rates : Fastest <= j /\ j \in Nat \ {0}
<1>1. Rates \subseteq Nat /\ Rates # {} /\ Rates \subseteq Nat \ {0}
  BY ConstantsAssumption DEF Rates
<1>2. PICK i \in Rates : \A j \in Rates : ~(<<j, i>> \in OpToRel(<, Nat))
  BY <1>1, NatLessThanWellFounded, WFMin
<1>3. \A j \in Rates : i <= j
  <2>1. OpToRel(<, Nat) = {ss \in Nat \X Nat : ss[1] < ss[2]}
    BY DEF OpToRel
  <2> SUFFICES ASSUME NEW j \in Rates, j < i PROVE FALSE
    BY <1>1
  <2>2. <<j, i>> \in Nat \X Nat /\ <<j, i>>[1] < <<j, i>>[2]
    BY <1>1
  <2> QED BY <1>2, <2>1, <2>2
<1>4. Fastest \in Rates /\ \A j \in Rates : Fastest <= j
  BY <1>3 DEF Fastest
<1> QED BY <1>1, <1>4, ConstantsAssumption

\* Bursts are counted, and the queues that have had one.
LEMMA BurstsNat == ASSUME NEW h \in Hosts PROVE Bursts(h) \in Nat
<1>1. IsFiniteSet({p \in Callers : matureAt[<<p, h>>] # 0})
  BY CallersAssumption, FS_Subset
<1> QED BY <1>1, FS_CardinalityType DEF Bursts

LEMMA GrantedInt == ASSUME NEW h \in Hosts PROVE Granted(h) \in Int /\ 0 <= Granted(h) + TicksPerSecond
<1> DEFINE n == Bursts(h)
           c == Fastest + TicksPerSecond
<1>1. n \in Nat /\ c \in Nat
  BY BurstsNat, FastestIs
<1> HIDE DEF n, c
<1>2. n * c \in Nat
  BY <1>1
<1> QED BY <1>2, FastestIs DEF Granted, n, c

LEMMA GrantedSame == ASSUME NEW h \in Hosts, \A p \in Callers : matureAt'[<<p, h>>] = matureAt[<<p, h>>] PROVE Granted(h)' = Granted(h)
<1>1. {p \in Callers : matureAt'[<<p, h>>] # 0} = {p \in Callers : matureAt[<<p, h>>] # 0}
  OBVIOUS
<1> QED BY <1>1 DEF Granted, Bursts

\* A queue that is reserved for the first time grants a burst and a second.
LEMMA GrantedMore ==
  ASSUME NEW h \in Hosts, NEW b \in Callers, matureAt[<<b, h>>] = 0, matureAt'[<<b, h>>] # 0,
         \A p \in Callers \ {b} : matureAt'[<<p, h>>] = matureAt[<<p, h>>]
  PROVE  Granted(h)' = Granted(h) + Fastest + TicksPerSecond
<1> DEFINE S == {p \in Callers : matureAt[<<p, h>>] # 0}
           T == {p \in Callers : matureAt'[<<p, h>>] # 0}
<1>1. IsFiniteSet(S) /\ b \notin S /\ T = S \cup {b}
  BY CallersAssumption, FS_Subset
<1>2. Cardinality(T) = Cardinality(S) + 1
  BY <1>1, FS_AddElement
<1>3. Cardinality(S) \in Nat
  BY <1>1, FS_CardinalityType
<1> HIDE DEF S, T
<1> DEFINE n == Cardinality(S)
           c == Fastest + TicksPerSecond
<1>4. n \in Nat /\ c \in Nat
  BY <1>3, FastestIs
<1> HIDE DEF n, c
<1>5. (n + 1) * c = n * c + c /\ n * c \in Int
  BY <1>4
<1>6. Granted(h)' = (n + 1) * c - TicksPerSecond /\ Granted(h) = n * c - TicksPerSecond
  BY <1>2 DEF Granted, Bursts, S, T, n, c
<1> QED BY <1>4, <1>5, <1>6, FastestIs DEF c

\* What so many promotions take at the fastest rate.
LEMMA PromotedTake ==
  ASSUME TypeOK, NEW h \in Hosts
  PROVE  /\ promoted[h] \in Nat /\ promoted[h] * Fastest \in Nat
         /\ (promoted[h] + 1) * Fastest = promoted[h] * Fastest + Fastest
         /\ (promoted[h] + 2) * Fastest = promoted[h] * Fastest + 2 * Fastest
<1> DEFINE n == promoted[h]
<1>1. n \in Nat /\ Fastest \in Nat
  BY FastestIs DEF TypeOK, HistoryType
<1> HIDE DEF n
<1> QED BY <1>1 DEF n

\* The same by the host's queue: who holds a reservation has taken one more.
LEMMA TakenIs ==
  ASSUME TypeOK, NEW h \in Hosts, NEW q \in Queues
  PROVE  /\ Taken(h, q) = promoted[h] * Fastest + (IF holds[q] THEN 2 * Fastest ELSE Fastest)
                              + TicksPerSecond - now - Granted(h)
         /\ Taken(h, q) \in Int
<1>1. holds[q] \in BOOLEAN /\ now \in Nat
  BY DEF TypeOK, ControlType
<1> QED BY <1>1, PromotedTake, GrantedInt, FastestIs DEF Taken

LEMMA OwedNat ==
  ASSUME TypeOK, NEW q \in Queues
  PROVE  /\ Owed(q) \in Nat /\ nextAt[q] \in Int /\ now \in Nat
         /\ Later(now, nextAt[q]) = now + Owed(q)
         /\ Owed(q) = 0 <=> nextAt[q] <= now
BY DEF TypeOK, ControlType, Owed, Later

LEMMA QueueOfHost ==
  ASSUME TypeOK, Funded, NEW h \in Hosts, hqueues[h] # NoQueue
  PROVE  hqueues[h] \in Queues /\ HostOf(hqueues[h]) = h /\ hqueues[h][1] \in Callers /\ hqueues[h] = <<hqueues[h][1], h>>
<1>1. hqueues[h] \in Queues /\ HostOf(hqueues[h]) = h
  BY DEF TypeOK, QueueType, Funded
<1> QED BY <1>1 DEF Queues, HostOf

-----------------------------------------------------------------------------
\* Time goes by, or does not, and the rest stays.
LEMMA InTimeLater ==
  ASSUME TypeOK, NEW h \in Hosts, now' \in Nat, now <= now', promoted'[h] = promoted[h], Granted(h)' = Granted(h), InTime(h)
  PROVE  InTime(h)'
<1>1. now \in Nat
  BY DEF TypeOK
<1> QED BY <1>1, PromotedTake, GrantedInt DEF InTime

LEMMA PaysLater ==
  ASSUME TypeOK, Limits, NEW h \in Hosts, NEW q \in Queues, now' = now \/ now' = now + 1,
         promoted'[h] = promoted[h], Granted(h)' = Granted(h),
         UNCHANGED <<holds[q], matureAt[q], interval[q], nextAt[q]>>, Pays(h, q)
  PROVE  Pays(h, q)'
<1> SUFFICES ASSUME matureAt[q] # 0 PROVE Taken(h, q)' * interval[q] <= Fastest * Owed(q)'
  BY DEF Pays
<1>1. Taken(h, q) * interval[q] <= Fastest * Owed(q)
  BY DEF Pays
<1>2. Taken(h, q) \in Int /\ Owed(q) \in Nat /\ now \in Nat /\ nextAt[q] \in Int
  BY TakenIs, OwedNat
<1>3. interval[q] \in Nat /\ Fastest <= interval[q]
  BY FastestIs DEF Limits
<1>4. CASE now' = now
  <2>1. Taken(h, q)' = Taken(h, q) /\ Owed(q)' = Owed(q)
    BY <1>4 DEF Taken, Owed
  <2> QED BY <1>1, <2>1
<1>5. CASE now' = now + 1
  <2>1. Owed(q)' = IF Owed(q) = 0 THEN 0 ELSE Owed(q) - 1
    BY <1>2, <1>5 DEF Owed, Later
  <2>2. Taken(h, q)' = Taken(h, q) - 1
    <3>1. Taken(h, q)' = (promoted[h] + (IF holds[q] THEN 2 ELSE 1)) * Fastest + TicksPerSecond - (now + 1) - Granted(h)
      BY <1>5 DEF Taken
    <3> DEFINE a == (promoted[h] + (IF holds[q] THEN 2 ELSE 1)) * Fastest
    <3>2. a \in Int
      BY FastestIs, PromotedTake DEF TypeOK, ControlType
    <3> HIDE DEF a
    <3>3. Taken(h, q)' = a + TicksPerSecond - (now + 1) - Granted(h) /\ Taken(h, q) = a + TicksPerSecond - now - Granted(h)
      BY <3>1 DEF a, Taken
    <3> QED BY <1>2, <3>2, <3>3, GrantedInt, FastestIs
  <2>3. Owed(q)' \in Nat
    BY <1>2, <2>1
  <2>4. (Taken(h, q) - 1) * interval[q] <= Fastest * Owed(q)'
    BY <1>1, <1>2, <1>3, <2>1, <2>3, DebtTick, FastestIs
  <2> QED BY <2>2, <2>4
<1> QED BY <1>4, <1>5

LEMMA HeldInTimeLater ==
  ASSUME NEW h \in Hosts, NEW q, promoted'[h] = promoted[h], Granted(h)' = Granted(h),
         holds'[q] => holds[q], matureAt'[q] = matureAt[q], HeldInTime(h, q)
  PROVE  HeldInTime(h, q)'
BY DEF HeldInTime

LEMMA FoundInTimeLater ==
  ASSUME TypeOK, now' \in Nat, now <= now', immediate' = immediate \/ immediate' = <<>>,
         UNCHANGED promoted, \A h \in Hosts : Granted(h)' = Granted(h), FoundInTime
  PROVE  FoundInTime'
<1> SUFFICES ASSUME NEW k \in DOMAIN immediate, NEW h, h = immediate[k]
             PROVE  (promoted[h] + 1) * Fastest < now' + Granted(h)
  BY FoundQueue DEF FoundInTime
<1>1. h \in Hosts /\ now \in Nat
  BY FoundQueue DEF TypeOK
<1>2. (promoted[h] + 1) * Fastest < now + Granted(h)
  BY DEF FoundInTime
<1>3. (promoted[h] + 1) * Fastest \in Int
  BY <1>1, PromotedTake, FastestIs
<1> QED BY <1>1, <1>2, <1>3, GrantedInt

\* A step that leaves reservations and limits alone.
LEMMA RateFrame ==
  ASSUME TypeOK, RateInv, UNCHANGED <<hqueues, promoted, matureAt, holds, interval, nextAt>>,
         now' = now \/ now' = now + 1, shrunk => shrunk',
         immediate' = immediate \/ immediate' = <<>>
  PROVE  RateInv'
<1>1. now \in Nat /\ now' \in Nat /\ now <= now'
  BY DEF TypeOK
<1>2. \A h \in Hosts : Granted(h)' = Granted(h)
  BY GrantedSame
<1>3. Limits' /\ Unused' /\ FoundIsHeld' /\ TicksPerSecond <= now'
  BY <1>1, FastestIs DEF RateInv, Limits, Unused, FoundIsHeld
<1>4. ASSUME ~shrunk' PROVE FoundInTime'
  BY <1>1, <1>2, <1>4, FoundInTimeLater DEF RateInv
<1>5. ASSUME ~shrunk', NEW h \in Hosts PROVE InTime(h)'
  BY <1>1, <1>2, <1>5, InTimeLater DEF RateInv
<1>6. ASSUME ~shrunk', NEW h \in Hosts, hqueues[h] # NoQueue
      PROVE  Pays(h, hqueues[h])' /\ HeldInTime(h, hqueues[h])'
  <2> DEFINE q == hqueues[h]
  <2>1. q \in Queues
    BY <1>6 DEF TypeOK, QueueType
  <2>2. Pays(h, q) /\ HeldInTime(h, q) /\ Limits
    BY <1>6 DEF RateInv
  <2> HIDE DEF q
  <2>3. Pays(h, q)' /\ HeldInTime(h, q)' /\ q' = q
    BY <1>2, <2>1, <2>2, PaysLater, HeldInTimeLater DEF q
  <2> QED BY <2>3 DEF q
<1> QED BY <1>3, <1>4, <1>5, <1>6 DEF RateInv
-----------------------------------------------------------------------------
\* A queue comes into the map without debts.
LEMMA RateCreate ==
  ASSUME TypeOK, OnTimeInv, RateInv, NEW p \in Callers, Create(p), NEW h, h = req[p].host
  PROVE  RateInv'
<1>1. /\ pc[p] = "create" /\ hqueues' = [hqueues EXCEPT ![h] = <<p, h>>]
      /\ UNCHANGED <<now, interval, nextAt, holds, immediate, promoted, matureAt, shrunk>>
  BY DEF Create, historyVars
<1>2. h \in Hosts /\ <<p, h>> \in Queues
  BY QueueMade DEF TypeOK, CallerType
<1>3. matureAt[<<p, h>>] = 0 /\ ~holds[<<p, h>>]
  BY <1>1, <1>2 DEF OnTimeInv, Unreserved, RateInv, Unused
<1>4. hqueues'[h] = <<p, h>> /\ \A k \in Hosts \ {h} : hqueues'[k] = hqueues[k]
  BY <1>1, <1>2 DEF TypeOK, QueueType
<1>5. Limits' /\ Unused' /\ TicksPerSecond <= now'
  BY <1>1 DEF RateInv, Limits, Unused
<1>6. FoundIsHeld'
  BY <1>1, <1>3, <1>4, FoundQueue DEF RateInv, FoundIsHeld
<1>7. \A k \in Hosts : Granted(k)' = Granted(k)
  BY <1>1, GrantedSame
<1>8. now' \in Nat /\ now <= now' /\ now' = now
  BY <1>1 DEF TypeOK
<1>9. ASSUME ~shrunk' PROVE FoundInTime'
  BY <1>1, <1>7, <1>8, <1>9, FoundInTimeLater DEF RateInv
<1>10. ASSUME ~shrunk', NEW k \in Hosts PROVE InTime(k)'
  BY <1>1, <1>7, <1>8, <1>10, InTimeLater DEF RateInv
<1>11. ASSUME ~shrunk', NEW k \in Hosts, hqueues'[k] # NoQueue
       PROVE  Pays(k, hqueues[k])' /\ HeldInTime(k, hqueues[k])'
  <2>1. CASE k = h
    <3> DEFINE q == <<p, h>>
    <3>1. matureAt'[q] = 0 /\ ~holds'[q]
      BY <1>1, <1>3
    <3> HIDE DEF q
    <3>2. hqueues'[k] = q
      BY <1>4, <2>1 DEF q
    <3> QED BY <3>1, <3>2 DEF Pays, HeldInTime
  <2>2. CASE k # h
    <3> DEFINE q == hqueues[k]
    <3>1. q \in Queues /\ q' = q
      BY <1>4, <1>11, <2>2 DEF TypeOK, QueueType
    <3>2. Pays(k, q) /\ HeldInTime(k, q)
      BY <1>1, <1>11, <3>1 DEF RateInv
    <3> HIDE DEF q
    <3>3. Pays(k, q)' /\ HeldInTime(k, q)'
      BY <1>1, <1>7, <3>1, <3>2 DEF Pays, HeldInTime, Taken, Owed
    <3> QED BY <3>3 DEF q
  <2> QED BY <2>1, <2>2
<1> QED BY <1>5, <1>6, <1>9, <1>10, <1>11 DEF RateInv

\* What is owed keeps its worth when the rate changes.
LEMMA RateSetLimit ==
  ASSUME TypeOK, RateInv, NEW p \in Callers, NEW i \in Intervals, SetLimit(p, i), NEW q, q = hq[p]
  PROVE  RateInv'
<1>1. /\ interval' = [interval EXCEPT ![q] = i]
      /\ nextAt' = [nextAt EXCEPT ![q] = Refill(q, i)]
      /\ UNCHANGED <<now, hqueues, holds, immediate, promoted, matureAt, shrunk>>
  BY DEF SetLimit, promoterVars, historyVars
<1>2. q \in Queues
  BY DEF SetLimit, TypeOK, CallerType
<1>3. /\ interval'[q] = i /\ nextAt'[q] = Refill(q, i) /\ i \in Rates
      /\ \A r \in Queues \ {q} : interval'[r] = interval[r] /\ nextAt'[r] = nextAt[r]
  BY <1>1, <1>2 DEF TypeOK, ControlType, Rates
<1>4. now \in Nat /\ nextAt[q] \in Int /\ Owed(q) \in Nat
  BY <1>2, OwedNat
<1>5. Limits' /\ FoundIsHeld' /\ TicksPerSecond <= now'
  BY <1>1, <1>3 DEF RateInv, Limits, FoundIsHeld
<1>6. Unused'
  <2>1. nextAt[q] = 0 => nextAt'[q] = 0
    BY <1>3, <1>4 DEF Refill
  <2> QED BY <1>1, <1>3, <2>1 DEF RateInv, Unused
<1>7. \A k \in Hosts : Granted(k)' = Granted(k)
  BY <1>1, GrantedSame
<1>8. ASSUME ~shrunk PROVE FoundInTime'
  BY <1>1, <1>4, <1>7, <1>8, FoundInTimeLater DEF RateInv
<1>9. ASSUME ~shrunk, NEW k \in Hosts PROVE InTime(k)'
  BY <1>1, <1>4, <1>7, <1>9, InTimeLater DEF RateInv
<1>10. ASSUME NEW k \in Hosts, NEW x, x = Taken(k, q), x * interval[q] <= Fastest * Owed(q)
       PROVE  x * i <= Fastest * Owed(q)'
  <2>1. x \in Int /\ interval[q] \in Nat \ {0} /\ i \in Nat \ {0} /\ Fastest <= interval[q] /\ Fastest <= i
    BY <1>2, <1>3, <1>10, TakenIs, FastestIs DEF RateInv, Limits
  <2>2. CASE nextAt[q] > now
    <3> DEFINE d == Owed(q)
               e == (d * i + interval[q] - 1) \div interval[q]
    <3>1. d = nextAt[q] - now
      BY <1>4, <2>2 DEF Owed, Later
    <3>2. nextAt'[q] = now + e
      BY <1>3, <2>2, <3>1 DEF Refill, CeilDiv
    <3>3. e \in Nat /\ x * i <= Fastest * e
      BY <1>4, <1>10, <2>1, DebtRefill, FastestIs
    <3> HIDE DEF e
    <3>4. Owed(q)' = e
      BY <1>1, <1>4, <3>2, <3>3 DEF Owed, Later
    <3> QED BY <3>3, <3>4
  <2>3. CASE ~(nextAt[q] > now)
    <3>1. Owed(q) = 0 /\ Owed(q)' = 0
      BY <1>1, <1>3, <1>4, <2>3 DEF Owed, Later, Refill
    <3>2. x <= 0
      BY <1>10, <2>1, <3>1, DebtBound, FastestIs
    <3>3. x * i <= 0 * i
      BY <2>1, <3>2, ProductMonotone
    <3> QED BY <2>1, <3>1, <3>3, FastestIs
  <2> QED BY <2>2, <2>3
<1>11. ASSUME ~shrunk, NEW k \in Hosts, hqueues[k] # NoQueue
       PROVE  Pays(k, hqueues[k])' /\ HeldInTime(k, hqueues[k])'
  <2> DEFINE r == hqueues[k]
  <2>1. r \in Queues /\ Pays(k, r) /\ HeldInTime(k, r) /\ r' = r
    BY <1>1, <1>11 DEF TypeOK, QueueType, RateInv
  <2> HIDE DEF r
  <2>2. HeldInTime(k, r)'
    BY <1>1, <1>7, <2>1 DEF HeldInTime
  <2>3. Taken(k, r)' = Taken(k, r)
    BY <1>1, <1>7, <2>1 DEF Taken
  <2>4. r = q => Pays(k, r)'
    BY <1>1, <1>3, <1>10, <2>1, <2>3 DEF Pays
  <2>5. r # q => Pays(k, r)'
    BY <1>1, <1>3, <2>1, <2>3 DEF Pays, Owed
  <2> QED BY <2>1, <2>2, <2>4, <2>5 DEF r
<1> QED BY <1>1, <1>5, <1>6, <1>8, <1>9, <1>11 DEF RateInv

\* A reservation that has matured, up to a second, is one promotion in time.
LEMMA MatureInTime ==
  ASSUME TypeOK, NEW h \in Hosts, NEW q \in Queues, holds[q], HeldInTime(h, q), Matured(q)
  PROVE  (promoted[h] + 1) * Fastest < now + Granted(h)
<1>1. now \in Nat /\ matureAt[q] \in Int
  BY DEF TypeOK, HistoryType
<1>2. matureAt[q] < now + TicksPerSecond
  <2> SUFFICES ASSUME now + TicksPerSecond <= matureAt[q] PROVE FALSE
    BY <1>1, FastestIs
  <2>1. Sec(now + TicksPerSecond) <= Sec(matureAt[q])
    BY <1>1, SecMonotone, FastestIs
  <2>2. Sec(now + TicksPerSecond) = Sec(now) + 1
    BY <1>1, FastestIs DEF Sec
  <2> QED BY <1>1, <2>1, <2>2, SecInt, FastestIs DEF Matured
<1>3. (promoted[h] + 1) * Fastest \in Int
  BY PromotedTake, FastestIs
<1> QED BY <1>1, <1>2, <1>3, GrantedInt, FastestIs DEF HeldInTime

\* A reservation of host h's queue q, which matures at m, takes a token more;
\* the first of a queue grants a burst.
LEMMA ReserveInTime ==
  ASSUME TypeOK, Funded, RateInv, ~shrunk, NEW h \in Hosts, Reserve(h),
         NEW q, q = hqueues[h], NEW m, m = Later(now, nextAt[q])
  PROVE  Pays(h, q)' /\ HeldInTime(h, q)' /\ InTime(h)' /\ (promoted[h] + 1) * Fastest + TicksPerSecond <= m + Granted(h)'
<1>1. /\ h \in todo /\ UNCHANGED <<now, hqueues, promoted, interval>> /\ ~holds[q]
      /\ holds' = [holds EXCEPT ![q] = TRUE] /\ matureAt' = [matureAt EXCEPT ![q] = m]
      /\ nextAt' = [nextAt EXCEPT ![q] = m + interval[q]]
  BY DEF Reserve, Visit
<1>2. hqueues[h] # NoQueue
  BY <1>1 DEF TypeOK, PromoterType
<1>3. q \in Queues /\ q[1] \in Callers /\ q = <<q[1], h>>
  BY <1>2, QueueOfHost
<1>4. /\ now \in Nat /\ TicksPerSecond <= now /\ Owed(q) \in Nat /\ m = now + Owed(q) /\ nextAt[q] \in Int
      /\ interval[q] \in Nat \ {0} /\ Fastest <= interval[q]
  BY <1>3, OwedNat, FastestIs DEF RateInv, Limits
<1>5. m \in Nat /\ m # 0 /\ now <= m
  BY <1>4, FastestIs
<1>6. /\ matureAt'[q] = m /\ holds'[q] /\ nextAt'[q] = m + interval[q]
      /\ \A r \in Queues \ {q} : matureAt'[r] = matureAt[r]
  BY <1>1, <1>3 DEF TypeOK, ControlType, HistoryType
<1>7. Owed(q)' = Owed(q) + interval[q]
  BY <1>1, <1>4, <1>6 DEF Owed, Later
<1> DEFINE F == Fastest
           P == promoted[h] * Fastest
           G == Granted(h)
           x == Taken(h, q)
           i == interval[q]
           d == Owed(q)
<1>8. /\ P \in Nat /\ F \in Nat \ {0} /\ G \in Int /\ 0 <= G + TicksPerSecond /\ x \in Int
      /\ promoted'[h] * Fastest = P
      /\ (promoted'[h] + 1) * Fastest = P + F /\ (promoted[h] + 2) * Fastest = P + 2 * F
      /\ x = P + F + TicksPerSecond - now - G
      /\ F <= i /\ i \in Nat \ {0} /\ d \in Nat /\ TicksPerSecond \in Nat \ {0}
      /\ m = now + d
  BY <1>1, <1>3, <1>4, PromotedTake, FastestIs, GrantedInt, TakenIs
<1>9. Taken(h, q)' = P + 2 * F + TicksPerSecond - now - Granted(h)'
  BY <1>1, <1>6, <1>8 DEF Taken
<1>10. InTime(h)
  BY <1>2 DEF RateInv
<1>11. P < now + G \/ (promoted[h] = 0 /\ P = 0)
  BY <1>10, PromotedTake, FastestIs DEF InTime
<1> HIDE DEF F, P, G, x, i, d
<1>12. CASE matureAt[q] = 0
  <2>1. Granted(h)' = G + F + TicksPerSecond
    <3> DEFINE b == q[1]
    <3>1. b \in Callers /\ q = <<b, h>>
      BY <1>3
    <3> HIDE DEF b
    <3>2. \A p \in Callers \ {b} : <<p, h>> \in Queues /\ <<p, h>> # q
      BY <3>1, QueueMade
    <3>3. \A p \in Callers \ {b} : matureAt'[<<p, h>>] = matureAt[<<p, h>>]
      BY <1>6, <3>2
    <3> QED BY <1>5, <1>6, <1>12, <3>1, <3>3, GrantedMore DEF G, F
  <2>2. d = 0
    BY <1>3, <1>4, <1>12 DEF RateInv, Unused, Owed, Later, d
  <2>3. P <= now + G
    BY <1>4, <1>8, <1>11
  <2>4. Taken(h, q)' <= F
    BY <1>4, <1>8, <1>9, <2>1, <2>3
  <2>5. Taken(h, q)' \in Int
    BY <1>4, <1>8, <1>9, <2>1
  <2>6. Taken(h, q)' * i <= F * i
    BY <1>8, <2>4, <2>5, ProductMonotone
  <2>7. Pays(h, q)'
    BY <1>1, <1>7, <1>8, <2>2, <2>6 DEF Pays, i, d, F
  <2>8. (promoted[h] + 1) * Fastest + TicksPerSecond <= m + Granted(h)'
    BY <1>1, <1>4, <1>8, <2>1, <2>2, <2>3
  <2>9. InTime(h)'
    BY <1>1, <1>4, <1>8, <2>1, <2>3 DEF InTime
  <2> QED BY <1>1, <1>6, <2>7, <2>8, <2>9 DEF HeldInTime
<1>13. CASE matureAt[q] # 0
  <2>1. Granted(h)' = G
    <3>1. \A p \in Callers : matureAt'[<<p, h>>] # 0 <=> matureAt[<<p, h>>] # 0
      BY <1>5, <1>6, <1>13, QueueMade
    <3>2. {p \in Callers : matureAt'[<<p, h>>] # 0} = {p \in Callers : matureAt[<<p, h>>] # 0}
      BY <3>1
    <3> QED BY <3>2 DEF Granted, Bursts, G
  <2>2. x * i <= F * d
    BY <1>2, <1>13 DEF RateInv, Pays, x, i, d, F
  <2>3. x <= d
    BY <1>8, <2>2, DebtBound
  <2>4. Taken(h, q)' = x + F
    BY <1>4, <1>8, <1>9, <2>1
  <2>5. (x + F) * i = x * i + F * i /\ F * (d + i) = F * d + F * i /\ x * i \in Int /\ F * i \in Int /\ F * d \in Int
    BY <1>8
  <2>6. Taken(h, q)' * i <= F * (d + i)
    BY <2>2, <2>4, <2>5
  <2>7. Pays(h, q)'
    BY <1>1, <1>7, <2>6 DEF Pays, i, d, F
  <2>8. (promoted[h] + 1) * Fastest + TicksPerSecond <= m + Granted(h)'
    BY <1>1, <1>4, <1>8, <2>1, <2>3
  <2>9. InTime(h)'
    BY <1>1, <1>10, <2>1 DEF InTime, G
  <2> QED BY <1>1, <1>6, <2>7, <2>8, <2>9 DEF HeldInTime
<1> QED BY <1>12, <1>13

\* The other hosts' queues are not the one reserved.
LEMMA RateReserve ==
  ASSUME TypeOK, Funded, OnTimeInv, RateInv, NEW h \in Hosts, Reserve(h),
         NEW q, q = hqueues[h], NEW m, m = Later(now, nextAt[q])
  PROVE  RateInv'
<1>1. /\ h \in todo /\ UNCHANGED <<now, hqueues, promoted, interval, shrunk>>
      /\ holds' = [holds EXCEPT ![q] = TRUE] /\ matureAt' = [matureAt EXCEPT ![q] = m]
      /\ nextAt' = [nextAt EXCEPT ![q] = m + interval[q]]
      /\ UNCHANGED immediate \/ (m = now /\ immediate' = Append(immediate, h))
  BY DEF Reserve, Visit
<1>2. hqueues[h] # NoQueue
  BY <1>1 DEF TypeOK, PromoterType
<1>3. q \in Queues /\ HostOf(q) = h
  BY <1>2, QueueOfHost
<1>4. now \in Nat /\ TicksPerSecond <= now /\ m = now + Owed(q) /\ Owed(q) \in Nat
  BY <1>3, OwedNat DEF RateInv
<1>5. m \in Nat \ {0}
  BY <1>4, FastestIs
<1>6. /\ matureAt'[q] = m /\ holds'[q]
      /\ \A r \in Queues \ {q} : matureAt'[r] = matureAt[r] /\ holds'[r] = holds[r] /\ nextAt'[r] = nextAt[r]
  BY <1>1, <1>3 DEF TypeOK, ControlType, HistoryType
<1>7. Limits' /\ Unused' /\ TicksPerSecond <= now'
  BY <1>1, <1>5, <1>6 DEF RateInv, Limits, Unused
<1>8. ASSUME NEW k \in Hosts \ {h}
      PROVE  Granted(k)' = Granted(k) /\ (hqueues[k] # NoQueue => hqueues[k] \in Queues \ {q})
  <2>1. \A p \in Callers : <<p, k>> \in Queues \ {q}
    BY <1>3, QueueMade
  <2>2. \A p \in Callers : matureAt'[<<p, k>>] = matureAt[<<p, k>>]
    BY <1>6, <2>1
  <2>3. hqueues[k] # NoQueue => hqueues[k] \in Queues \ {q}
    BY <1>3, QueueOfHost
  <2> QED BY <2>2, <2>3, GrantedSame
<1>9. \A k \in DOMAIN immediate' :
          \/ k \in DOMAIN immediate /\ immediate'[k] = immediate[k] /\ immediate[k] \in Hosts \ {h}
          \/ immediate'[k] = h /\ m = now
  <2>1. immediate \in Seq(Hosts)
    BY DEF TypeOK, PromoterType
  <2>2. \A k \in DOMAIN immediate : immediate[k] \in Hosts \ {h}
    BY <1>1, FoundQueue DEF OnTimeInv, FoundIsDone
  <2> QED BY <1>1, <2>1, <2>2
<1>10. FoundIsHeld'
  <2> SUFFICES ASSUME NEW k \in DOMAIN immediate', matureAt'[hqueues[immediate'[k]]] # 0
               PROVE  holds'[hqueues[immediate'[k]]]
    BY <1>1 DEF FoundIsHeld
  <2>1. CASE immediate'[k] = h
    BY <1>6, <2>1
  <2>2. CASE k \in DOMAIN immediate /\ immediate'[k] = immediate[k] /\ immediate[k] \in Hosts \ {h}
    <3>1. hqueues[immediate[k]] \in Queues \ {q}
      BY <1>8, <2>2, FoundQueue, NoQueueAssumption
    <3> QED BY <1>6, <2>2, <3>1 DEF RateInv, FoundIsHeld
  <2> QED BY <1>9, <2>1, <2>2
<1>11. ASSUME ~shrunk
       PROVE  /\ Pays(h, q)' /\ HeldInTime(h, q)' /\ InTime(h)'
              /\ (promoted[h] + 1) * Fastest + TicksPerSecond <= m + Granted(h)'
  BY <1>11, ReserveInTime
<1>12. ASSUME ~shrunk PROVE FoundInTime'
  <2> SUFFICES ASSUME NEW k \in DOMAIN immediate', NEW g, g = immediate'[k]
               PROVE  (promoted[g] + 1) * Fastest < now + Granted(g)'
    BY <1>1 DEF FoundInTime
  <2>1. CASE g = h /\ m = now
    <3>1. Granted(h)' \in Int
      <4>1. TypeOK'
        BY VisitType
      <4>2. now' \in Nat /\ Bursts(h)' \in Nat
        <5>1. IsFiniteSet({p \in Callers : matureAt'[<<p, h>>] # 0})
          BY CallersAssumption, FS_Subset
        <5> QED BY <1>1, <1>4, <5>1, FS_CardinalityType DEF Bursts
      <4> DEFINE n == Bursts(h)'
                 c == Fastest + TicksPerSecond
      <4>3. n \in Nat /\ c \in Nat
        BY <4>2, FastestIs
      <4> HIDE DEF n, c
      <4>4. n * c \in Nat
        BY <4>3
      <4> QED BY <4>4, FastestIs DEF Granted, n, c
    <3>2. (promoted[h] + 1) * Fastest \in Int
      BY PromotedTake, FastestIs
    <3> QED BY <1>4, <1>11, <1>12, <2>1, <3>1, <3>2, FastestIs
  <2>2. CASE k \in DOMAIN immediate /\ g = immediate[k] /\ g \in Hosts \ {h}
    BY <1>8, <1>12, <2>2 DEF RateInv, FoundInTime
  <2> QED BY <1>9, <2>1, <2>2
<1>13. ASSUME ~shrunk, NEW k \in Hosts
       PROVE  InTime(k)' /\ (hqueues[k] # NoQueue => Pays(k, hqueues[k])' /\ HeldInTime(k, hqueues[k])')
  <2>1. CASE k = h
    <3>1. Pays(h, q)' /\ HeldInTime(h, q)' /\ InTime(h)' /\ q = hqueues'[h]
      BY <1>1, <1>11, <1>13
    <3> QED BY <1>1, <2>1, <3>1 DEF Pays, HeldInTime, Taken, Owed
  <2>2. CASE k # h
    <3>1. InTime(k)'
      BY <1>1, <1>4, <1>8, <1>13, <2>2, InTimeLater DEF RateInv
    <3> DEFINE r == hqueues[k]
    <3>2. ASSUME hqueues[k] # NoQueue PROVE Pays(k, r)' /\ HeldInTime(k, r)'
      <4>1. r \in Queues \ {q} /\ Pays(k, r) /\ HeldInTime(k, r) /\ r' = r
        BY <1>1, <1>8, <1>13, <2>2, <3>2 DEF RateInv
      <4> HIDE DEF r
      <4>2. Pays(k, r)' /\ HeldInTime(k, r)'
        BY <1>1, <1>6, <1>8, <2>2, <4>1 DEF Pays, HeldInTime, Taken, Owed
      <4> QED BY <4>2
    <3> QED BY <3>1, <3>2
  <2> QED BY <2>1, <2>2
<1> QED BY <1>1, <1>7, <1>10, <1>12, <1>13 DEF RateInv

\* A reservation that is held and used has matured.
LEMMA RateUse ==
  ASSUME TypeOK, Funded, OnTimeInv, RateInv, NEW h \in Hosts, UseReservation(h)
  PROVE  RateInv'
<1>1. /\ h \in todo /\ immediate' = Append(immediate, h) /\ holds[hqueues[h]]
      /\ UNCHANGED <<now, hqueues, promoted, matureAt, holds, interval, nextAt, shrunk>>
  BY DEF UseReservation, Visit
<1>2. hqueues[h] # NoQueue /\ immediate \in Seq(Hosts)
  BY <1>1 DEF TypeOK, PromoterType
<1>3. \A k \in Hosts : Granted(k)' = Granted(k)
  BY <1>1, GrantedSame
<1>4. \A k \in DOMAIN immediate' : (k \in DOMAIN immediate /\ immediate'[k] = immediate[k]) \/ immediate'[k] = h
  BY <1>1, <1>2
<1>5. Limits' /\ Unused' /\ TicksPerSecond <= now' /\ FoundIsHeld'
  BY <1>1, <1>4 DEF RateInv, Limits, Unused, FoundIsHeld
<1>6. ASSUME ~shrunk PROVE FoundInTime'
  <2>1. Matured(hqueues[h])
    <3> DEFINE k == Len(immediate) + 1
    <3>1. k \in DOMAIN immediate' /\ immediate'[k] = h
      BY <1>1, <1>2
    <3>2. FoundIsMature'
      BY <1>1, <1>6, OnTimeUse DEF OnTimeInv
    <3> HIDE DEF k
    <3> QED BY <1>1, <3>1, <3>2 DEF FoundIsMature, Matured
  <2>2. (promoted[h] + 1) * Fastest < now + Granted(h)
    <3> DEFINE q == hqueues[h]
    <3>1. q \in Queues /\ holds[q] /\ HeldInTime(h, q) /\ Matured(q)
      BY <1>1, <1>2, <1>6, <2>1, QueueOfHost DEF RateInv
    <3> HIDE DEF q
    <3> QED BY <3>1, MatureInTime
  <2> SUFFICES ASSUME NEW k \in DOMAIN immediate', NEW g, g = immediate'[k]
               PROVE  (promoted[g] + 1) * Fastest < now + Granted(g)'
    BY <1>1 DEF FoundInTime
  <2> QED BY <1>3, <1>4, <1>6, <2>2, FoundQueue DEF RateInv, FoundInTime
<1>7. ASSUME ~shrunk, NEW k \in Hosts
      PROVE  InTime(k)' /\ (hqueues[k] # NoQueue => Pays(k, hqueues[k])' /\ HeldInTime(k, hqueues[k])')
  BY <1>1, <1>3, <1>7 DEF RateInv, InTime, Pays, HeldInTime, Taken, Owed
<1> QED BY <1>1, <1>5, <1>6, <1>7 DEF RateInv

\* A promotion uses up what its candidate was ahead.
LEMMA RatePromote ==
  ASSUME TypeOK, Funded, RateInv, Promote
  PROVE  RateInv'
<1> DEFINE n == (next + 1) % CounterMod
           c == Picked(n)
<1>1. /\ UNCHANGED <<now, hqueues, matureAt, interval, nextAt, shrunk>> /\ immediate' = <<>>
      /\ \/ UNCHANGED <<holds, promoted>>
         \/ /\ holds' = [holds EXCEPT ![hqueues[c]] = FALSE]
            /\ promoted' = [promoted EXCEPT ![c] = @ + 1]
  BY DEF Promote, ReleaseReservation
<1>2. PICK j \in DOMAIN immediate : c = immediate[j]
  <2>1. n \in Nat
    BY ConstantsAssumption DEF TypeOK, PromoterType
  <2> QED BY <2>1, PickedCandidate DEF Promote, TypeOK, PromoterType
<1> SUFFICES ASSUME NEW h, h = c PROVE RateInv'
  OBVIOUS
<1> HIDE DEF c, n
<1>3. h \in Hosts /\ hqueues[h] \in Queues /\ hqueues[h] # NoQueue
  BY <1>2, FoundQueue, NoQueueAssumption
<1>4. CASE UNCHANGED <<holds, promoted>>
  BY <1>1, <1>4, RateFrame
<1>5. CASE /\ holds' = [holds EXCEPT ![hqueues[h]] = FALSE]
           /\ promoted' = [promoted EXCEPT ![h] = @ + 1]
  <2>1. /\ promoted'[h] = promoted[h] + 1 /\ ~holds'[hqueues[h]]
        /\ \A k \in Hosts \ {h} : promoted'[k] = promoted[k]
        /\ \A r \in Queues : r # hqueues[h] => holds'[r] = holds[r]
    BY <1>3, <1>5 DEF TypeOK, HistoryType, ControlType
  <2>2. \A k \in Hosts : Granted(k)' = Granted(k)
    BY <1>1, GrantedSame
  <2>3. Limits' /\ Unused' /\ FoundIsHeld' /\ FoundInTime' /\ TicksPerSecond <= now'
    BY <1>1, <2>1 DEF RateInv, Limits, Unused, FoundIsHeld, FoundInTime
  <2>4. ASSUME ~shrunk, NEW k \in Hosts
        PROVE  InTime(k)' /\ (hqueues[k] # NoQueue => Pays(k, hqueues[k])' /\ HeldInTime(k, hqueues[k])')
    <3>1. CASE k = h
      <4>1. InTime(h)'
        BY <1>1, <1>2, <1>3, <2>1, <2>2, <2>4 DEF RateInv, FoundInTime, InTime
      <4> DEFINE q == hqueues[h]
      <4>2. q' = q /\ q \in Queues /\ ~holds'[q] /\ Pays(h, q) /\ (matureAt[q] # 0 => holds[q])
        BY <1>1, <1>2, <1>3, <2>1, <2>4 DEF RateInv, FoundIsHeld
      <4> HIDE DEF q
      <4>3. HeldInTime(h, q)'
        BY <4>2 DEF HeldInTime
      <4>4. matureAt[q] # 0 => Taken(h, q)' = Taken(h, q)
        <5> SUFFICES ASSUME matureAt[q] # 0 PROVE Taken(h, q)' = Taken(h, q)
          OBVIOUS
        <5>1. promoted[h] \in Nat
          BY <1>3 DEF TypeOK, HistoryType
        <5>2. promoted'[h] + 1 = promoted[h] + 2
          BY <2>1, <5>1
        <5> QED BY <1>1, <1>3, <2>2, <4>2, <5>2 DEF Taken
      <4>5. Pays(h, q)'
        BY <1>1, <4>2, <4>4 DEF Pays, Owed
      <4> QED BY <3>1, <4>1, <4>3, <4>5 DEF q
    <3>2. CASE k # h
      <4>1. InTime(k)'
        BY <1>1, <2>1, <2>2, <2>4, <3>2 DEF RateInv, InTime
      <4> DEFINE r == hqueues[k]
      <4>2. ASSUME hqueues[k] # NoQueue PROVE Pays(k, r)' /\ HeldInTime(k, r)'
        <5>1. r \in Queues /\ r # hqueues[h] /\ r' = r /\ Pays(k, r) /\ HeldInTime(k, r)
          BY <1>1, <1>3, <2>4, <3>2, <4>2, QueueOfHost DEF RateInv
        <5> HIDE DEF r
        <5>2. Pays(k, r)' /\ HeldInTime(k, r)'
          BY <1>1, <2>1, <2>2, <3>2, <5>1 DEF Pays, HeldInTime, Taken, Owed
        <5> QED BY <5>2
      <4> QED BY <4>1, <4>2
    <3> QED BY <3>1, <3>2
  <2> QED BY <1>1, <2>3, <2>4 DEF RateInv
<1> QED BY <1>1, <1>4, <1>5 DEF c

LEMMA RateInit == Init => RateInv
<1> SUFFICES ASSUME Init PROVE RateInv
  OBVIOUS
<1>1. Limits /\ Unused /\ FoundIsHeld /\ FoundInTime
  BY DEF Init, Limits, Rates, Unused, FoundIsHeld, FoundInTime
<1>2. TicksPerSecond <= now
  BY FastestIs DEF Init
<1>3. \A h \in Hosts : InTime(h) /\ hqueues[h] = NoQueue
  BY DEF Init, InTime
<1> QED BY <1>1, <1>2, <1>3 DEF RateInv

LEMMA RateCall ==
  ASSUME TypeOK, OnTimeInv, RateInv, NEW p \in Callers, CallStep(p)
  PROVE  RateInv'
<1>1. CASE Create(p) \/ \E i \in Intervals : SetLimit(p, i)
  BY <1>1, RateCreate, RateSetLimit
<1>2. CASE PauseStore(p)
  <2>1. /\ UNCHANGED <<now, hqueues, promoted, matureAt, holds, interval, nextAt, immediate>>
        /\ shrunk => shrunk'
    BY <1>2 DEF PauseStore, StorePause, promoterVars
  <2> QED BY <2>1, RateFrame
<1>3. CASE Fetch(p) \/ Send(p) \/ TriggerRecalc(p) \/ PauseLoad(p)
  <2>1. UNCHANGED <<now, hqueues, promoted, matureAt, holds, interval, nextAt, immediate, shrunk>>
    BY <1>3 DEF Fetch, Send, TriggerRecalc, PauseLoad, queueVars, promoterVars, historyVars
  <2> QED BY <2>1, RateFrame
<1> QED BY <1>1, <1>2, <1>3 DEF CallStep

LEMMA RateStep == ASSUME TypeOK, Funded, OnTimeInv, RateInv, [Next]_vars PROVE RateInv'
<1>1. ASSUME NEW p \in Callers, NEW op, NEW h, NEW arg, Begin(p, op, h, arg) PROVE RateInv'
  BY <1>1, RateFrame DEF Begin, queueVars, promoterVars, historyVars
<1>2. ASSUME NEW p \in Callers, CallStep(p) \/ \E h \in Hosts : Publish(p, h)
      PROVE  RateInv'
  BY <1>1, <1>2, RateCall DEF Publish
<1>3. ASSUME NEW v \in Visitors, Take(v) \/ VisitorStep(v)
      PROVE  RateInv'
  <2>1. CASE \/ TakeRateLimitHeaders(v) \/ TakeSample(v) \/ Republish(v)
             \/ \E h \in Hosts, d \in RetryAfters : Pause(v, h, d)
    BY <1>1, <2>1 DEF TakeRateLimitHeaders, TakeSample, Republish, Pause, Callers
  <2>2. CASE Take(v) \/ HandOver(v) \/ Finish(v)
    BY <2>2, RateFrame DEF Take, HandOver, Finish, queueVars, promoterVars, historyVars
  <2> QED BY <1>3, <2>1, <2>2 DEF VisitorStep
<1>4. CASE PromoterStep
  <2>1. CASE \E h \in Hosts : SkipEmpty(h) \/ SkipPaused(h)
    BY <2>1, RateFrame DEF SkipEmpty, SkipPaused, Visit
  <2>2. CASE StartRange \/ StartWait \/ WakeUp \/ PromoterPanic \/ PromoterPauseLoad
    BY <2>2, RateFrame
    DEF StartRange, StartWait, WakeUp, PromoterPanic, PromoterPauseLoad, queueVars, historyVars
  <2>3. CASE PromoterPauseStore
    <3>1. /\ UNCHANGED <<now, hqueues, promoted, matureAt, holds, interval, nextAt, immediate>>
          /\ shrunk => shrunk'
      BY <2>3 DEF PromoterPauseStore, StorePause
    <3> QED BY <3>1, RateFrame
  <2> QED BY <1>4, <2>1, <2>2, <2>3, RateUse, RateReserve, RatePromote DEF PromoterStep
<1>5. CASE Tick \/ UNCHANGED vars
  BY <1>5, RateFrame DEF Tick, vars, queueVars, promoterVars, historyVars
<1> QED BY <1>2, <1>3, <1>4, <1>5 DEF Next

\* The rate of a host's promotions is at most that of its fastest limit, but
\* for what each of its queues grants: whatever the limits are set to, and
\* when, and however many publishers meet in lazyHostQueue (controlled.go:46-66,
\* promoter.go:117-162, limiter_memory.go:32-47).
THEOREM HostsKeepTheirRate == Spec => []HostRate
<1>1. Init => OnTimeInv /\ RateInv
  BY OnTimeInit, RateInit
<1>2. TypeOK /\ Funded /\ OnTimeInv /\ [Next]_vars => OnTimeInv'
  BY OnTimeStep
<1>3. TypeOK /\ Funded /\ OnTimeInv /\ RateInv /\ [Next]_vars => RateInv'
  BY RateStep
<1>4. RateInv => HostRate
  BY DEF RateInv, InTime, HostRate
<1> QED BY <1>1, <1>2, <1>3, <1>4, TypeCorrect, ReservationsAreFunded, PTL DEF Spec

-----------------------------------------------------------------------------
(***************************************************************************)
(* The queue refines VisitWorkQueue.  A message is in one place, a host    *)
(* queue, the default queue or a consumer's hand, and what is in a channel *)
(* is there once; ids are used up in order; and a message to be sent       *)
(* either has no retries or continues a delivered job.                     *)
(***************************************************************************)
Default == <<"default", "dqueue">>
Places == ({"host"} \X Queues) \cup ({"hand"} \X Visitors) \cup {Default}

HeldAt(l) == IF l[1] = "host" THEN Range(buf[l[2]])
             ELSE IF l[1] = "hand" THEN (IF hand[l[2]] = NoMessage THEN {} ELSE {hand[l[2]]})
             ELSE Range(dqueue)
Held == [l \in Places |-> HeldAt(l)]

All(f) == UNION {f[l] : l \in Places}
Apart(f) == \A k, l \in Places : \A m \in f[k], n \in f[l] : m.id = n.id => k = l /\ m = n
Once(s) == \A i, j \in DOMAIN s : s[i].id = s[j].id => i = j

PlaceInv == Apart(Held) /\ Once(dqueue) /\ \A q \in Queues : Once(buf[q])

\* Ids are used up in order, and a retry comes after what it retries.
Old(m) == m.id \in 1 .. nextID /\ m.retries < m.id
OldInv == \A m \in All(Held) \cup delivered \cup dropped : Old(m)

\* Of those that publish, those that have yet to send.
Sending == {p \in Callers : req[p].op = "publish" /\ pc[p] # "notify"}
CountInv == nextID + Cardinality(Sending) <= MaxMessages

Continues(h, n) == n = 0 \/ \E j \in delivered : j.host = h /\ n = j.retries + 1
RetryInv ==
    /\ \A p \in Callers : req[p].op = "publish" => Continues(req[p].host, req[p].arg)
    /\ \A v \in Visitors : stage[v] # "free" => job[v] \in delivered

SingleInv == TypeOK /\ PlaceInv /\ OldInv /\ CountInv /\ RetryInv

-----------------------------------------------------------------------------
\* What the channel operations make of what is in a channel.
LEMMA RangeOfAppend ==
  ASSUME NEW S, NEW s \in Seq(S), NEW m \in S
  PROVE  Range(Append(s, m)) = Range(s) \cup {m}
<1> DEFINE t == Append(s, m)
<1>1. DOMAIN s = 1 .. Len(s) /\ Len(s) \in Nat /\ DOMAIN t = 1 .. Len(s) + 1
  OBVIOUS
<1>2. t[Len(s) + 1] = m /\ \A i \in 1 .. Len(s) : t[i] = s[i]
  BY <1>1
<1> HIDE DEF t
<1> QED BY <1>1, <1>2 DEF Range

LEMMA RangeOfTail ==
  ASSUME NEW S, NEW s \in Seq(S), s # <<>>, Once(s)
  PROVE  /\ Head(s) \in Range(s)
         /\ Range(Tail(s)) = Range(s) \ {Head(s)}
         /\ Once(Tail(s))
<1> DEFINE t == Tail(s)
<1>1. DOMAIN s = 1 .. Len(s) /\ Len(s) \in Nat \ {0} /\ DOMAIN t = 1 .. Len(s) - 1
  OBVIOUS
<1>2. Head(s) = s[1] /\ \A i \in 1 .. Len(s) - 1 : t[i] = s[i + 1]
  BY <1>1
<1> HIDE DEF t
<1>3. \A i \in 2 .. Len(s) : s[i] # s[1] /\ s[i] = t[i - 1] /\ i - 1 \in 1 .. Len(s) - 1
  BY <1>1, <1>2 DEF Once
<1>4. Range(t) = Range(s) \ {Head(s)}
  <2>1. Range(t) \subseteq Range(s) \ {Head(s)}
    <3> SUFFICES ASSUME NEW i \in 1 .. Len(s) - 1 PROVE t[i] \in Range(s) /\ t[i] # Head(s)
      BY <1>1 DEF Range
    <3>1. i + 1 \in 2 .. Len(s) /\ t[i] = s[i + 1]
      BY <1>1, <1>2
    <3> QED BY <1>1, <1>2, <1>3, <3>1 DEF Range
  <2>2. Range(s) \ {Head(s)} \subseteq Range(t)
    <3> SUFFICES ASSUME NEW i \in 1 .. Len(s), s[i] # Head(s) PROVE s[i] \in Range(t)
      BY <1>1 DEF Range
    <3>1. i \in 2 .. Len(s)
      BY <1>1, <1>2
    <3> QED BY <1>1, <1>3, <3>1 DEF Range
  <2> QED BY <2>1, <2>2
<1>5. Once(t)
  <2> SUFFICES ASSUME NEW i \in 1 .. Len(s) - 1, NEW j \in 1 .. Len(s) - 1, t[i].id = t[j].id PROVE i = j
    BY <1>1 DEF Once
  <2>1. s[i + 1].id = s[j + 1].id /\ i + 1 \in 1 .. Len(s) /\ j + 1 \in 1 .. Len(s)
    BY <1>1, <1>2
  <2>2. i + 1 = j + 1
    BY <1>1, <2>1 DEF Once
  <2> QED BY <2>2
<1>6. Head(s) \in Range(s)
  BY <1>1, <1>2 DEF Range
<1> QED BY <1>4, <1>5, <1>6 DEF t

LEMMA OnceOfAppend ==
  ASSUME NEW S, NEW s \in Seq(S), NEW m \in S, Once(s), \A k \in Range(s) : k.id # m.id
  PROVE  Once(Append(s, m))
<1> DEFINE t == Append(s, m)
<1>1. DOMAIN s = 1 .. Len(s) /\ Len(s) \in Nat /\ DOMAIN t = 1 .. Len(s) + 1
  OBVIOUS
<1>2. t[Len(s) + 1] = m /\ \A i \in 1 .. Len(s) : t[i] = s[i] /\ s[i] \in Range(s)
  BY <1>1 DEF Range
<1> HIDE DEF t
<1>3. \A i \in 1 .. Len(s) : t[i].id # m.id
  BY <1>2
<1>4. \A i, j \in 1 .. Len(s) : t[i].id = t[j].id => i = j
  BY <1>1, <1>2 DEF Once
<1>5. \A i \in 1 .. Len(s) + 1 : i \in 1 .. Len(s) \/ i = Len(s) + 1
  BY <1>1
<1> QED BY <1>1, <1>2, <1>3, <1>4, <1>5 DEF Once, t

-----------------------------------------------------------------------------
\* A message comes to a place, leaves it, or goes from one to another.
LEMMA Comes ==
  ASSUME NEW f, NEW g, Apart(f), NEW l \in Places, NEW m, \A n \in All(f) : n.id # m.id,
         \A k \in Places : g[k] = IF k = l THEN f[l] \cup {m} ELSE f[k]
  PROVE  Apart(g) /\ All(g) = All(f) \cup {m}
<1>1. \A k \in Places : \A n \in g[k] : (n \in f[k] /\ n \in All(f)) \/ (k = l /\ n = m)
  BY DEF All
<1>2. Apart(g)
  BY <1>1 DEF Apart
<1>3. All(g) = All(f) \cup {m}
  BY <1>1 DEF All
<1> QED BY <1>2, <1>3

LEMMA Goes ==
  ASSUME NEW f, NEW g, Apart(f), NEW l \in Places, NEW m \in f[l],
         \A k \in Places : g[k] = IF k = l THEN f[l] \ {m} ELSE f[k]
  PROVE  Apart(g) /\ All(g) = All(f) \ {m} /\ m \in All(f) /\ \A n \in All(g) : n.id # m.id
<1>1. \A k \in Places : g[k] \subseteq f[k]
  OBVIOUS
<1>2. Apart(g)
  BY <1>1 DEF Apart
<1>3. \A k \in Places : \A n \in g[k] : n.id # m.id
  BY <1>1 DEF Apart
<1>4. \A n \in All(g) : n.id # m.id
  BY <1>3 DEF All
<1>5. All(g) \subseteq All(f) \ {m}
  BY <1>1, <1>4 DEF All
<1>6. All(f) \ {m} \subseteq All(g)
  BY DEF All
<1> QED BY <1>2, <1>4, <1>5, <1>6 DEF All

Moved(f, g, k, l, m) ==
  \A x \in Places : g[x] = IF x = k THEN f[k] \ {m} ELSE IF x = l THEN f[l] \cup {m} ELSE f[x]

LEMMA Moves ==
  ASSUME NEW f, NEW g, Apart(f), NEW k \in Places, NEW l \in Places, k # l, NEW m \in f[k],
         Moved(f, g, k, l, m)
  PROVE  Apart(g) /\ All(g) = All(f)
<1>1. \A x \in Places : \A n \in g[x] : (n \in f[x] /\ ~(x = k /\ n = m)) \/ (x = l /\ n = m)
  BY DEF Moved
<1>2. Apart(g)
  BY <1>1 DEF Apart
<1>3. All(g) \subseteq All(f)
  BY <1>1 DEF All
<1>4. ASSUME NEW x \in Places, NEW n \in f[x] PROVE n \in g[x] \/ n \in g[l]
  BY <1>4 DEF Moved
<1>5. All(f) \subseteq All(g)
  BY <1>4 DEF All
<1> QED BY <1>2, <1>3, <1>5

\* The places are those of WorkQueue's refinement.
HeldByPlace ==
  /\ \A q \in Queues : <<"host", q>> \in Places /\ Held[<<"host", q>>] = Range(buf[q])
  /\ \A v \in Visitors : /\ <<"hand", v>> \in Places
                         /\ Held[<<"hand", v>>] = IF hand[v] = NoMessage THEN {} ELSE {hand[v]}
  /\ Default \in Places /\ Held[Default] = Range(dqueue)
  /\ \A l \in Places : \/ \E q \in Queues : l = <<"host", q>>
                       \/ \E v \in Visitors : l = <<"hand", v>>
                       \/ l = Default

LEMMA WhatIsHeld == HeldByPlace
<1>1. \A q \in Queues : <<"host", q>> \in Places /\ Held[<<"host", q>>] = Range(buf[q])
  BY DEF Places, Held, HeldAt
<1>2. \A v \in Visitors : /\ <<"hand", v>> \in Places
                          /\ Held[<<"hand", v>>] = IF hand[v] = NoMessage THEN {} ELSE {hand[v]}
  BY DEF Places, Held, HeldAt
<1>3. Default \in Places /\ Held[Default] = Range(dqueue)
  BY DEF Places, Held, HeldAt, Default
<1>4. \A l \in Places : \/ \E q \in Queues : l = <<"host", q>>
                        \/ \E v \in Visitors : l = <<"hand", v>>
                        \/ l = Default
  BY DEF Places
<1> QED BY <1>1, <1>2, <1>3, <1>4 DEF HeldByPlace

LEMMA IsWaiting ==
  ASSUME NEW m
  PROVE  m \in Waiting <=> \/ \E q \in Queues : m \in Range(buf[q])
                           \/ m \in Range(dqueue)
                           \/ \E v \in Visitors : hand[v] # NoMessage /\ m = hand[v]
<1> DEFINE B == UNION {Range(buf[q]) : q \in Queues}
           H == {hand[v] : v \in {v \in Visitors : hand[v] # NoMessage}}
<1>1. m \in B <=> \E q \in Queues : m \in Range(buf[q])
  OBVIOUS
<1>2. m \in H <=> \E v \in Visitors : hand[v] # NoMessage /\ m = hand[v]
  OBVIOUS
<1>3. Waiting = B \cup Range(dqueue) \cup H
  BY DEF Waiting
<1> QED BY <1>1, <1>2, <1>3

LEMMA WaitingIsHeld == Waiting = All(Held)
<1>1. ASSUME NEW m \in Waiting PROVE \E l \in Places : m \in Held[l]
  <2>1. CASE \E q \in Queues : m \in Range(buf[q])
    BY <2>1, WhatIsHeld DEF HeldByPlace
  <2>2. CASE m \in Range(dqueue)
    BY <2>2, WhatIsHeld DEF HeldByPlace
  <2>3. CASE \E v \in Visitors : hand[v] # NoMessage /\ m = hand[v]
    BY <2>3, WhatIsHeld DEF HeldByPlace
  <2> QED BY <1>1, <2>1, <2>2, <2>3, IsWaiting
<1>2. ASSUME NEW l \in Places, NEW m \in Held[l] PROVE m \in Waiting
  <2>1. CASE \E q \in Queues : l = <<"host", q>>
    BY <1>2, <2>1, WhatIsHeld, IsWaiting DEF HeldByPlace
  <2>2. CASE \E v \in Visitors : l = <<"hand", v>>
    BY <1>2, <2>2, WhatIsHeld, IsWaiting DEF HeldByPlace
  <2>3. CASE l = Default
    BY <1>2, <2>3, WhatIsHeld, IsWaiting DEF HeldByPlace
  <2> QED BY <2>1, <2>2, <2>3, WhatIsHeld DEF HeldByPlace
<1> QED BY <1>1, <1>2 DEF All

LEMMA WaitingIsHeldNext == Waiting' = All(Held')
<1>1. (Waiting = All(Held))'
  BY WaitingIsHeld, PTL
<1> QED BY <1>1 DEF All

LEMMA WhatIsHeldNext == HeldByPlace'
BY WhatIsHeld, PTL

InHand(v) == IF hand[v] = NoMessage THEN {} ELSE {hand[v]}

\* Before and after a step.
LEMMA HeldBoth ==
  ASSUME NEW k \in Places
  PROVE  \/ \E r \in Queues : k = <<"host", r>> /\ Held[k] = Range(buf[r]) /\ Held'[k] = Range(buf'[r])
         \/ \E v \in Visitors : k = <<"hand", v>> /\ Held[k] = InHand(v) /\ Held'[k] = InHand(v)'
         \/ k = Default /\ Held[k] = Range(dqueue) /\ Held'[k] = Range(dqueue')
<1>1. CASE \E r \in Queues : k = <<"host", r>>
  BY <1>1, WhatIsHeld, WhatIsHeldNext DEF HeldByPlace
<1>2. CASE \E v \in Visitors : k = <<"hand", v>>
  BY <1>2, WhatIsHeld, WhatIsHeldNext DEF HeldByPlace, InHand
<1>3. CASE k = Default
  BY <1>3, WhatIsHeld, WhatIsHeldNext DEF HeldByPlace
<1> QED BY <1>1, <1>2, <1>3, WhatIsHeld DEF HeldByPlace

LEMMA HeldFrame == UNCHANGED <<buf, dqueue, hand>> => Held' = Held
<1> SUFFICES ASSUME UNCHANGED <<buf, dqueue, hand>> PROVE \A l \in Places : HeldAt(l)' = HeldAt(l)
  BY DEF Held
<1> QED BY DEF HeldAt

LEMMA HeldTypes == TypeOK => \A m \in All(Held) : m \in Messages
<1> SUFFICES ASSUME TypeOK, NEW l \in Places, NEW m \in HeldAt(l) PROVE m \in Messages
  BY DEF All, Held
<1>1. CASE l[1] = "host"
  <2>1. l[2] \in Queues
    BY <1>1 DEF Places, Default
  <2>2. buf[l[2]] \in Seq(Messages)
    BY <2>1 DEF TypeOK, QueueType
  <2> QED BY <1>1, <2>2 DEF HeldAt, Range
<1>2. CASE l[1] = "hand"
  <2>1. l[2] \in Visitors
    BY <1>2 DEF Places, Default
  <2> QED BY <1>2, <2>1 DEF HeldAt, TypeOK, JobType
<1>3. CASE l[1] # "host" /\ l[1] # "hand"
  BY <1>3 DEF HeldAt, Range, TypeOK, QueueType
<1> QED BY <1>1, <1>2, <1>3

-----------------------------------------------------------------------------
LEMMA SendingFinite ==
  IsFiniteSet(Sending) /\ Cardinality(Sending) \in Nat /\ IsFiniteSet(Sending') /\ Cardinality(Sending') \in Nat
<1>1. Sending \subseteq Callers /\ Sending' \subseteq Callers
  BY DEF Sending
<1> QED BY <1>1, CallersAssumption, FS_Subset, FS_CardinalityType

LEMMA CountFrame ==
  ASSUME CountInv, nextID \in Nat, UNCHANGED nextID, Sending' \subseteq Sending
  PROVE  CountInv'
<1>1. Cardinality(Sending') <= Cardinality(Sending)
  BY SendingFinite, FS_Subset
<1> QED BY <1>1, SendingFinite, ConstantsAssumption DEF CountInv

LEMMA RetryFrame ==
  ASSUME RetryInv, delivered \subseteq delivered',
         \A p \in Callers : req'[p].op = "publish" => req'[p] = req[p],
         \A v \in Visitors : stage'[v] # "free" => stage[v] # "free" /\ job'[v] = job[v]
  PROVE  RetryInv'
<1>1. ASSUME NEW p \in Callers, req'[p].op = "publish" PROVE Continues(req[p].host, req[p].arg)'
  BY <1>1 DEF RetryInv, Continues
<1>2. ASSUME NEW v \in Visitors, stage'[v] # "free" PROVE job'[v] \in delivered'
  BY <1>2 DEF RetryInv
<1> QED BY <1>1, <1>2 DEF RetryInv, Continues

\* A step that leaves the messages alone, and begins no publication.
LEMMA Silent ==
  ASSUME SingleInv, TypeOK', UNCHANGED <<buf, dqueue, hand, delivered, dropped, nextID>>,
         CountInv', RetryInv'
  PROVE  SingleInv' /\ UNCHANGED VQ!vars
<1>1. Held' = Held
  BY HeldFrame
<1>2. PlaceInv' /\ OldInv'
  BY <1>1 DEF SingleInv, PlaceInv, OldInv, Old, All, Apart, Once
<1>3. Waiting' = Waiting
  BY <1>1, WaitingIsHeld, WaitingIsHeldNext
<1> QED BY <1>2, <1>3 DEF SingleInv, VQ!vars

LEMMA SilentCall ==
  ASSUME SingleInv, TypeOK', UNCHANGED <<buf, dqueue, hand, delivered, dropped, nextID>>,
         \A p \in Callers : req'[p].op = "publish" => req'[p] = req[p] /\ (pc[p] = "notify" => pc'[p] = "notify"),
         \A v \in Visitors : stage'[v] # "free" => stage[v] # "free" /\ job'[v] = job[v]
  PROVE  SingleInv' /\ UNCHANGED VQ!vars
<1>1. Sending' \subseteq Sending
  BY DEF Sending
<1>2. CountInv'
  BY <1>1, CountFrame DEF SingleInv, TypeOK, QueueType
<1>3. RetryInv'
  BY RetryFrame DEF SingleInv
<1> QED BY <1>2, <1>3, Silent

\* A call begins: to publish, if there is room for one more.
LEMMA SilentBegin ==
  ASSUME SingleInv, TypeOK', NEW p \in Callers, NEW op \in Ops \ {"none"}, NEW h \in Hosts, NEW arg \in Int,
         Begin(p, op, h, arg), UNCHANGED <<delivered, dropped>>,
         op = "publish" => Room /\ Continues(h, arg),
         \A v \in Visitors : stage'[v] # "free" => stage[v] # "free" /\ job'[v] = job[v]
  PROVE  SingleInv' /\ UNCHANGED VQ!vars
<1>1. UNCHANGED <<buf, dqueue, hand, delivered, dropped, nextID>>
  BY DEF Begin, queueVars
<1>2. /\ req'[p] = [op |-> op, host |-> h, arg |-> arg]
      /\ \A o \in Callers \ {p} : req'[o] = req[o] /\ pc'[o] = pc[o]
  BY DEF Begin, SingleInv, TypeOK, CallerType
<1>3. nextID \in Nat
  BY DEF SingleInv, TypeOK, QueueType
<1>4. CountInv'
  <2>1. CASE op # "publish"
    <3>1. Sending' \subseteq Sending
      BY <1>2, <2>1 DEF Sending
    <3> QED BY <1>1, <1>3, <3>1, CountFrame DEF SingleInv
  <2>2. CASE op = "publish"
    <3> DEFINE P == {q \in Callers : req[q].op = "publish"}
    <3>1. Sending' \subseteq P \cup {p}
      BY <1>2 DEF Sending
    <3>2. IsFiniteSet(P) /\ Cardinality(P) \in Nat
      BY CallersAssumption, FS_Subset, FS_CardinalityType
    <3>3. nextID + Cardinality(P) < MaxMessages
      BY <2>2 DEF Room
    <3> HIDE DEF P
    <3>4. IsFiniteSet(P \cup {p}) /\ Cardinality(P \cup {p}) <= Cardinality(P) + 1
      BY <3>2, FS_AddElement
    <3>5. Cardinality(Sending') <= Cardinality(P \cup {p}) /\ Cardinality(P \cup {p}) \in Nat
      BY <3>1, <3>4, FS_Subset, FS_CardinalityType
    <3>6. nextID + Cardinality(Sending') <= MaxMessages
      BY <1>3, <3>2, <3>3, <3>4, <3>5, SendingFinite, ConstantsAssumption
    <3> QED BY <1>1, <3>6 DEF CountInv
  <2> QED BY <2>1, <2>2
<1>5. RetryInv'
  <2>1. ASSUME NEW o \in Callers, req'[o].op = "publish" PROVE Continues(req[o].host, req[o].arg)'
    <3>1. CASE o = p
      BY <1>1, <1>2, <2>1, <3>1 DEF Continues
    <3>2. CASE o # p
      BY <1>1, <1>2, <2>1, <3>2 DEF Continues, SingleInv, RetryInv
    <3> QED BY <3>1, <3>2
  <2>2. ASSUME NEW v \in Visitors, stage'[v] # "free" PROVE job'[v] \in delivered'
    BY <1>1, <2>2 DEF SingleInv, RetryInv
  <2> QED BY <2>1, <2>2 DEF RetryInv, Continues
<1> QED BY <1>1, <1>4, <1>5, Silent

\* A step that takes messages from where they are, and numbers none.
LEMMA Numbers ==
  ASSUME SingleInv, TypeOK', UNCHANGED <<nextID, pc, req>>, PlaceInv', RetryInv',
         All(Held') \cup delivered' \cup dropped' \subseteq All(Held) \cup delivered \cup dropped
  PROVE  SingleInv'
<1>1. OldInv'
  BY DEF SingleInv, OldInv, Old
<1>2. Sending' \subseteq Sending
  BY DEF Sending
<1>3. CountInv'
  BY <1>2, CountFrame DEF SingleInv, TypeOK, QueueType
<1> QED BY <1>1, <1>3 DEF SingleInv

-----------------------------------------------------------------------------
LEMMA SingleSend ==
  ASSUME SingleInv, TypeOK', NEW p \in Callers, Send(p),
         NEW m, m = NewMessage(p), NEW q, q = hq[p]
  PROVE  SingleInv' /\ VQ!Next
<1>1. p \in Sending /\ hq[p] \in Queues /\ nextID \in Nat /\ nextID' = nextID + 1 /\ pc'[p] = "notify"
  <2>1. pc[p] = "send" /\ req[p].op = "publish"
    BY DEF Send, SingleInv, TypeOK, CallerType
  <2>2. hq[p] \in Queues
    BY <2>1 DEF SingleInv, TypeOK, CallerType
  <2> QED BY <2>1, <2>2 DEF Send, Sending, SingleInv, TypeOK, QueueType, CallerType
<1>2. Cardinality(Sending \ {p}) = Cardinality(Sending) - 1 /\ Cardinality(Sending) \in Nat \ {0}
  <2>1. Cardinality(Sending \ {p}) = Cardinality(Sending) - 1 /\ IsFiniteSet(Sending \ {p})
    BY <1>1, SendingFinite, FS_RemoveElement
  <2>2. Cardinality(Sending \ {p}) \in Nat
    BY <2>1, FS_CardinalityType
  <2> QED BY <2>1, <2>2, SendingFinite
<1>3. nextID + 1 <= MaxMessages
  BY <1>1, <1>2, ConstantsAssumption DEF SingleInv, CountInv
<1>4. CountInv'
  <2>1. Sending' = Sending \ {p}
    BY <1>1 DEF Send, Sending, SingleInv, TypeOK, CallerType
  <2> QED BY <1>1, <1>2, <2>1, ConstantsAssumption DEF SingleInv, CountInv
<1>5. RetryInv'
  BY RetryFrame DEF SingleInv, Send
<1>6. /\ m \in Messages /\ m.id = nextID + 1 /\ m.retries < m.id
      /\ m.retries = 0 \/ \E j \in delivered : j.host = m.host /\ m.retries = j.retries + 1
  <2>1. m = [id |-> nextID + 1, host |-> req[p].host, retries |-> req[p].arg]
    BY DEF NewMessage
  <2>2. req[p].op = "publish" /\ req[p].host \in Hosts /\ req[p].arg \in Nat
    BY <1>1 DEF Sending, SingleInv, TypeOK, CallerType
  <2>3. m.retries = 0 \/ \E j \in delivered : j.host = m.host /\ m.retries = j.retries + 1
    BY <1>1, <2>1, <2>2 DEF SingleInv, RetryInv, Continues
  <2>4. ASSUME NEW j \in delivered PROVE j.retries + 1 <= nextID
    <3>1. j \in Messages /\ Old(j)
      BY DEF SingleInv, OldInv, TypeOK, HistoryType
    <3> QED BY <1>1, <3>1 DEF Old, Messages
  <2>5. m \in Messages
    BY <1>1, <2>1, <2>2 DEF Messages
  <2>6. m.retries <= nextID
    BY <1>1, <2>3, <2>4
  <2>7. m.id = nextID + 1 /\ m.retries \in Nat
    BY <2>1, <2>2
  <2> QED BY <1>1, <2>3, <2>5, <2>6, <2>7
<1>7. m \in Published
  BY <1>1, <1>3, <1>6, ConstantsAssumption DEF Published, Messages
<1>8. \A k \in All(Held) \cup delivered \cup dropped : k.id # m.id /\ Old(k)'
  BY <1>1, <1>6 DEF SingleInv, OldInv, Old
<1>9. Old(m)'
  BY <1>1, <1>6 DEF Old
<1>10. VQ!Fresh(m)
  BY <1>6, <1>8, WaitingIsHeld DEF VQ!Fresh, VQ!Known
<1>11. CASE ~Full(buf[q])
  <2>1. buf' = [buf EXCEPT ![q] = Append(@, m)] /\ UNCHANGED <<dqueue, hand, delivered, dropped>>
    BY <1>11 DEF Send
  <2>2. buf[q] \in Seq(Messages) /\ Once(buf[q]) /\ buf \in [Queues -> Seq(Messages)]
    BY <1>1 DEF SingleInv, PlaceInv, TypeOK, QueueType
  <2>3. buf'[q] = Append(buf[q], m) /\ \A r \in Queues \ {q} : buf'[r] = buf[r]
    BY <1>1, <2>1, <2>2
  <2>4. Range(buf'[q]) = Range(buf[q]) \cup {m}
    BY <1>6, <2>2, <2>3, RangeOfAppend
  <2>5. q \in Queues
    BY <1>1
  <2>6. \A k \in Places : Held'[k] = IF k = <<"host", q>> THEN Held[<<"host", q>>] \cup {m} ELSE Held[k]
    <3>1. \A v \in Visitors : InHand(v)' = InHand(v)
      BY <2>1 DEF InHand
    <3> SUFFICES ASSUME NEW k \in Places
                 PROVE  Held'[k] = IF k = <<"host", q>> THEN Held[<<"host", q>>] \cup {m} ELSE Held[k]
      OBVIOUS
    <3>2. CASE \E r \in Queues : k = <<"host", r>> /\ Held[k] = Range(buf[r]) /\ Held'[k] = Range(buf'[r])
      <4>1. PICK r \in Queues : k = <<"host", r>> /\ Held[k] = Range(buf[r]) /\ Held'[k] = Range(buf'[r])
        BY <3>2
      <4>2. CASE r = q
        BY <2>4, <4>1, <4>2
      <4>3. CASE r # q
        BY <2>3, <4>1, <4>3
      <4> QED BY <4>2, <4>3
    <3>3. CASE \E v \in Visitors : k = <<"hand", v>> /\ Held[k] = InHand(v) /\ Held'[k] = InHand(v)'
      BY <3>1, <3>3
    <3>4. CASE k = Default /\ Held[k] = Range(dqueue) /\ Held'[k] = Range(dqueue')
      BY <2>1, <3>4 DEF Default
    <3> QED BY <3>2, <3>3, <3>4, HeldBoth
  <2>7. Apart(Held') /\ All(Held') = All(Held) \cup {m}
    <3>1. <<"host", q>> \in Places
      BY <2>5, WhatIsHeld DEF HeldByPlace
    <3> QED BY <1>8, <2>6, <3>1, Comes DEF SingleInv, PlaceInv
  <2>8. Once(buf'[q])
    <3>1. \A k \in Range(buf[q]) : k.id # m.id
      BY <1>8, <2>5, WhatIsHeld DEF HeldByPlace, All
    <3> QED BY <1>6, <2>2, <2>3, <3>1, OnceOfAppend
  <2>9. PlaceInv'
    BY <2>1, <2>3, <2>7, <2>8 DEF SingleInv, PlaceInv
  <2>10. OldInv'
    BY <1>8, <1>9, <2>1, <2>7 DEF OldInv
  <2>11. VQ!Enqueue(m)
    BY <1>10, <2>1, <2>7, WaitingIsHeld, WaitingIsHeldNext DEF VQ!Enqueue
  <2> QED BY <1>4, <1>5, <1>7, <2>9, <2>10, <2>11 DEF SingleInv, VQ!Next
<1>12. CASE Full(buf[q])
  <2>1. dropped' = dropped \cup {m} /\ UNCHANGED <<buf, dqueue, hand, delivered>>
    BY <1>12 DEF Send
  <2>2. Held' = Held
    BY <2>1, HeldFrame
  <2>3. PlaceInv'
    BY <2>1, <2>2 DEF SingleInv, PlaceInv, Once
  <2>4. OldInv'
    BY <1>8, <1>9, <2>1, <2>2 DEF OldInv
  <2>5. VQ!Refuse(m)
    BY <1>10, <2>1, <2>2, WaitingIsHeld, WaitingIsHeldNext DEF VQ!Refuse
  <2> QED BY <1>4, <1>5, <1>7, <2>3, <2>4, <2>5 DEF SingleInv, VQ!Next
<1> QED BY <1>11, <1>12

LEMMA SinglePromote ==
  ASSUME SingleInv, TypeOK', Promote,
         NEW q, q = hqueues[Picked((next + 1) % CounterMod)]
  PROVE  SingleInv' /\ [VQ!Next]_VQ!vars
<1>1. q \in Queues
  BY PromotedQueue DEF SingleInv
<1>2. UNCHANGED <<pc, req, hand, job, stage, nextID, delivered>>
  BY DEF Promote, callerVars
<1>3. RetryInv'
  BY <1>2, RetryFrame DEF SingleInv
<1>4. buf \in [Queues -> Seq(Messages)] /\ dqueue \in Seq(Messages)
  BY DEF SingleInv, TypeOK, QueueType
<1>5. \A v \in Visitors : InHand(v)' = InHand(v)
  BY <1>2 DEF InHand
<1>6. CASE buf[q] = <<>>
  <2>1. UNCHANGED <<buf, dqueue, dropped>>
    BY <1>6 DEF Promote
  <2>2. SingleInv' /\ UNCHANGED VQ!vars
    BY <1>2, <2>1, SilentCall
  <2> QED BY <2>2
<1>7. CASE buf[q] # <<>>
  <2> DEFINE m == Head(buf[q])
  <2>1. m \in Range(buf[q]) /\ Range(Tail(buf[q])) = Range(buf[q]) \ {m} /\ Once(Tail(buf[q])) /\ m \in Messages
    <3>1. buf[q] \in Seq(Messages) /\ Once(buf[q])
      BY <1>1, <1>4 DEF SingleInv, PlaceInv
    <3>2. Head(buf[q]) \in Messages
      BY <1>7, <3>1
    <3> QED BY <1>7, <3>1, <3>2, RangeOfTail
  <2> SUFFICES ASSUME NEW x, x = m PROVE SingleInv' /\ [VQ!Next]_VQ!vars
    OBVIOUS
  <2> HIDE DEF m
  <2>2. buf' = [buf EXCEPT ![q] = Tail(@)]
    BY <1>7 DEF Promote
  <2>3. buf'[q] = Tail(buf[q]) /\ \A r \in Queues \ {q} : buf'[r] = buf[r]
    BY <1>1, <1>4, <2>2
  <2>4. Range(buf'[q]) = Range(buf[q]) \ {x} /\ x \in Range(buf[q]) /\ x \in Messages
    BY <2>1, <2>3
  <2>5. \A r \in Queues : Once(buf'[r])
    BY <2>1, <2>3 DEF SingleInv, PlaceInv
  <2>6. <<"host", q>> \in Places /\ x \in Held[<<"host", q>>] /\ Held[<<"host", q>>] = Range(buf[q])
    BY <1>1, <2>4, WhatIsHeld DEF HeldByPlace
  <2>7. CASE ~Full(dqueue)
    <3>1. dqueue' = Append(dqueue, x) /\ UNCHANGED dropped
      BY <1>7, <2>7 DEF Promote, m
    <3>2. Range(dqueue') = Range(dqueue) \cup {x}
      BY <1>4, <2>4, <3>1, RangeOfAppend
    <3>3. Default \in Places /\ Default # <<"host", q>> /\ Held[Default] = Range(dqueue)
      BY WhatIsHeld DEF HeldByPlace, Default
    <3>4. \A k \in Places : Held'[k] = IF k = <<"host", q>> THEN Held[<<"host", q>>] \ {x}
                                       ELSE IF k = Default THEN Held[Default] \cup {x} ELSE Held[k]
      BY <1>1, <1>5, <2>3, <2>4, <2>6, <3>2, <3>3, HeldBoth DEF Default
    <3>5. Apart(Held') /\ All(Held') = All(Held)
      <4> DEFINE l == <<"host", q>>
      <4>1. /\ l \in Places /\ x \in Held[l] /\ l # Default
            /\ Moved(Held, Held', l, Default, x)
        BY <2>6, <3>3, <3>4 DEF Moved
      <4>2. Apart(Held)
        BY DEF SingleInv, PlaceInv
      <4> HIDE DEF l
      <4> QED BY <3>3, <4>1, <4>2, Moves
    <3>6. Once(dqueue')
      <4>1. \A k \in Range(dqueue) : k.id # x.id
        BY <2>6, <3>3 DEF SingleInv, PlaceInv, Apart
      <4> QED BY <1>4, <2>4, <3>1, <4>1, OnceOfAppend DEF SingleInv, PlaceInv
    <3>7. PlaceInv'
      BY <2>5, <3>5, <3>6 DEF PlaceInv
    <3>8. SingleInv'
      BY <1>2, <1>3, <3>1, <3>5, <3>7, Numbers
    <3>9. UNCHANGED VQ!vars
      BY <1>2, <3>1, <3>5, WaitingIsHeld, WaitingIsHeldNext DEF VQ!vars
    <3> QED BY <3>8, <3>9
  <2>8. CASE Full(dqueue)
    <3>1. dropped' = dropped \cup {x} /\ UNCHANGED dqueue
      BY <1>7, <2>8 DEF Promote, m
    <3>2. \A k \in Places : Held'[k] = IF k = <<"host", q>> THEN Held[<<"host", q>>] \ {x} ELSE Held[k]
      <4> SUFFICES ASSUME NEW k \in Places
                   PROVE  Held'[k] = IF k = <<"host", q>> THEN Held[<<"host", q>>] \ {x} ELSE Held[k]
        OBVIOUS
      <4>2. CASE \E r \in Queues : k = <<"host", r>> /\ Held[k] = Range(buf[r]) /\ Held'[k] = Range(buf'[r])
        <5>1. PICK r \in Queues : k = <<"host", r>> /\ Held[k] = Range(buf[r]) /\ Held'[k] = Range(buf'[r])
          BY <4>2
        <5>2. CASE r = q
          BY <2>4, <5>1, <5>2
        <5>3. CASE r # q
          BY <2>3, <5>1, <5>3
        <5> QED BY <5>2, <5>3
      <4>3. CASE \E v \in Visitors : k = <<"hand", v>> /\ Held[k] = InHand(v) /\ Held'[k] = InHand(v)'
        BY <1>5, <4>3
      <4>4. CASE k = Default /\ Held[k] = Range(dqueue) /\ Held'[k] = Range(dqueue')
        BY <3>1, <4>4 DEF Default
      <4> QED BY <4>2, <4>3, <4>4, HeldBoth
    <3>3. Apart(Held') /\ All(Held') = All(Held) \ {x} /\ x \in All(Held)
      <4> DEFINE l == <<"host", q>>
      <4>1. l \in Places /\ x \in Held[l] /\ \A k \in Places : Held'[k] = IF k = l THEN Held[l] \ {x} ELSE Held[k]
        BY <2>6, <3>2
      <4>2. Apart(Held)
        BY DEF SingleInv, PlaceInv
      <4> HIDE DEF l
      <4> QED BY <4>1, <4>2, Goes
    <3>4. PlaceInv'
      BY <2>5, <3>1, <3>3 DEF SingleInv, PlaceInv, Once
    <3>5. SingleInv'
      BY <1>2, <1>3, <3>1, <3>3, <3>4, Numbers
    <3>6. VQ!Lose(x) /\ x \in Waiting
      BY <1>2, <3>1, <3>3, WaitingIsHeld, WaitingIsHeldNext DEF VQ!Lose
    <3> QED BY <3>5, <3>6 DEF VQ!Next
  <2> QED BY <2>7, <2>8
<1> QED BY <1>6, <1>7

LEMMA SingleTake ==
  ASSUME SingleInv, TypeOK', NEW v \in Visitors, Take(v), NEW x, x = Head(dqueue)
  PROVE  SingleInv' /\ UNCHANGED VQ!vars
<1>1. /\ UNCHANGED <<buf, pc, req, job, stage, nextID, delivered, dropped>>
      /\ hand[v] = NoMessage /\ dqueue # <<>> /\ dqueue' = Tail(dqueue)
      /\ hand' = [hand EXCEPT ![v] = x]
  BY DEF Take, historyVars
<1>2. dqueue \in Seq(Messages) /\ Once(dqueue) /\ hand \in [Visitors -> Messages \cup {NoMessage}]
  BY DEF SingleInv, PlaceInv, TypeOK, QueueType, JobType
<1>3. x \in Range(dqueue) /\ Range(dqueue') = Range(dqueue) \ {x} /\ Once(dqueue') /\ x \in Messages
  <2>1. Head(dqueue) \in Messages
    BY <1>1, <1>2
  <2> QED BY <1>1, <1>2, <2>1, RangeOfTail
<1>4. InHand(v) = {} /\ InHand(v)' = {x} /\ \A w \in Visitors \ {v} : InHand(w)' = InHand(w)
  BY <1>1, <1>2, <1>3, NoMessageAssumption DEF InHand
<1>5. /\ Default \in Places /\ <<"hand", v>> \in Places /\ Default # <<"hand", v>>
      /\ Held[Default] = Range(dqueue) /\ Held[<<"hand", v>>] = {}
  BY <1>4, WhatIsHeld DEF HeldByPlace, Default, InHand
<1>6. \A k \in Places : Held'[k] = IF k = Default THEN Held[Default] \ {x}
                                   ELSE IF k = <<"hand", v>> THEN Held[<<"hand", v>>] \cup {x} ELSE Held[k]
  BY <1>1, <1>3, <1>4, <1>5, HeldBoth DEF Default
<1>7. Apart(Held') /\ All(Held') = All(Held)
  <2> DEFINE l == <<"hand", v>>
  <2>1. /\ l \in Places /\ l # Default /\ x \in Held[Default]
        /\ Moved(Held, Held', Default, l, x)
    BY <1>3, <1>5, <1>6 DEF Moved
  <2>2. Apart(Held)
    BY DEF SingleInv, PlaceInv
  <2> HIDE DEF l
  <2> QED BY <1>5, <2>1, <2>2, Moves
<1>8. PlaceInv'
  BY <1>1, <1>3, <1>7 DEF SingleInv, PlaceInv, Once
<1>9. RetryInv'
  BY <1>1, RetryFrame DEF SingleInv
<1>10. SingleInv'
  BY <1>1, <1>7, <1>8, <1>9, Numbers
<1> QED BY <1>1, <1>7, <1>10, WaitingIsHeld, WaitingIsHeldNext DEF VQ!vars

LEMMA SingleHandOver ==
  ASSUME SingleInv, TypeOK', NEW v \in Visitors, HandOver(v), NEW x, x = hand[v]
  PROVE  SingleInv' /\ VQ!Next
<1>1. /\ UNCHANGED <<buf, dqueue, pc, req, nextID, dropped>>
      /\ x # NoMessage /\ hand' = [hand EXCEPT ![v] = NoMessage]
      /\ job' = [job EXCEPT ![v] = x] /\ stage' = [stage EXCEPT ![v] = "visiting"]
      /\ delivered' = delivered \cup {x}
  BY DEF HandOver, queueVars
<1>2. hand \in [Visitors -> Messages \cup {NoMessage}]
  BY DEF SingleInv, TypeOK, JobType
<1>3. InHand(v) = {x} /\ InHand(v)' = {} /\ \A w \in Visitors \ {v} : InHand(w)' = InHand(w)
  BY <1>1, <1>2 DEF InHand
<1>4. <<"hand", v>> \in Places /\ Held[<<"hand", v>>] = {x}
  BY <1>3, WhatIsHeld DEF HeldByPlace, InHand
<1>5. \A k \in Places : Held'[k] = IF k = <<"hand", v>> THEN Held[<<"hand", v>>] \ {x} ELSE Held[k]
  BY <1>1, <1>3, <1>4, HeldBoth DEF Default
<1>6. Apart(Held') /\ All(Held') = All(Held) \ {x} /\ x \in All(Held)
  BY <1>4, <1>5, Goes DEF SingleInv, PlaceInv
<1>7. PlaceInv'
  BY <1>1, <1>6 DEF SingleInv, PlaceInv, Once
<1>8. RetryInv'
  <2>1. ASSUME NEW p \in Callers, req'[p].op = "publish" PROVE Continues(req[p].host, req[p].arg)'
    BY <1>1, <2>1 DEF SingleInv, RetryInv, Continues
  <2>2. ASSUME NEW w \in Visitors, stage'[w] # "free" PROVE job'[w] \in delivered'
    BY <1>1, <2>2 DEF SingleInv, RetryInv, TypeOK, JobType
  <2> QED BY <2>1, <2>2 DEF RetryInv, Continues
<1>9. SingleInv'
  BY <1>1, <1>6, <1>7, <1>8, Numbers
<1>10. VQ!Deliver(x) /\ x \in Waiting
  BY <1>1, <1>6, WaitingIsHeld, WaitingIsHeldNext DEF VQ!Deliver
<1> QED BY <1>9, <1>10 DEF VQ!Next

-----------------------------------------------------------------------------
LEMMA SingleInit == Init => SingleInv /\ VQ!Init
<1> SUFFICES ASSUME Init PROVE SingleInv /\ VQ!Init
  OBVIOUS
<1>1. TypeOK
  BY TypeInit
<1>2. \A k \in Places : Held[k] = {}
  <2>1. \A q \in Queues : Range(buf[q]) = {}
    BY DEF Init, Range
  <2>2. Range(dqueue) = {}
    BY DEF Init, Range
  <2>3. \A v \in Visitors : hand[v] = NoMessage
    BY DEF Init
  <2> QED BY <2>1, <2>2, <2>3, WhatIsHeld DEF HeldByPlace
<1>3. All(Held) = {}
  BY <1>2 DEF All
<1>4. PlaceInv
  BY <1>2 DEF PlaceInv, Apart, Once, Init
<1>5. OldInv
  BY <1>3 DEF OldInv, Init
<1>6. CountInv
  <2>1. Sending = {}
    BY DEF Init, Sending, Idle
  <2> QED BY <2>1, FS_EmptySet, ConstantsAssumption DEF Init, CountInv
<1>7. RetryInv
  BY DEF Init, RetryInv, Idle
<1>8. VQ!Init
  BY <1>3, WaitingIsHeld DEF Init, VQ!Init
<1> QED BY <1>1, <1>4, <1>5, <1>6, <1>7, <1>8 DEF SingleInv

\* Calls but for Send, and what the promoter does but for promotions, are
\* invisible.
LEMMA SilentCalls ==
  ASSUME SingleInv, TypeOK', NEW p \in Callers,
         \/ Create(p) \/ Fetch(p) \/ TriggerRecalc(p) \/ PauseLoad(p) \/ PauseStore(p)
         \/ \E i \in Intervals : SetLimit(p, i)
  PROVE  SingleInv' /\ UNCHANGED VQ!vars
<1>1. UNCHANGED <<buf, dqueue, hand, delivered, dropped, nextID, job, stage>>
  BY DEF Create, Fetch, TriggerRecalc, PauseLoad, PauseStore, SetLimit, queueVars, historyVars
<1>2. \A o \in Callers \ {p} : req'[o] = req[o] /\ pc'[o] = pc[o]
  BY DEF Create, Fetch, TriggerRecalc, PauseLoad, PauseStore, SetLimit, Return, SingleInv, TypeOK, CallerType
<1>3. req'[p].op = "publish" => req'[p] = req[p] /\ pc[p] # "notify"
  <2>1. CASE Create(p) \/ Fetch(p)
    BY <2>1 DEF Create, Fetch
  <2>2. CASE TriggerRecalc(p) \/ PauseStore(p) \/ (\E i \in Intervals : SetLimit(p, i))
             \/ (PauseLoad(p) /\ Return(p))
    BY <2>2, IdleType DEF TriggerRecalc, PauseStore, SetLimit, Return, SingleInv, TypeOK, CallerType
  <2>3. CASE PauseLoad(p) /\ ~Return(p)
    <3>1. req[p].op = "pause" /\ req' = [req EXCEPT ![p].arg = Sec(now + req[p].arg)]
      BY <2>3 DEF PauseLoad, SingleInv, TypeOK, CallerType
    <3>2. req'[p].op = "pause"
      BY <3>1 DEF SingleInv, TypeOK, CallerType
    <3> QED BY <3>2
  <2> QED BY <2>1, <2>2, <2>3
<1> QED BY <1>1, <1>2, <1>3, SilentCall

LEMMA SilentPromoter ==
  ASSUME SingleInv, TypeOK', PromoterStep, ~Promote PROVE SingleInv' /\ UNCHANGED VQ!vars
<1>1. UNCHANGED <<buf, dqueue, hand, delivered, dropped, nextID, pc, req, job, stage>>
  <2>1. CASE \E h \in Hosts : SkipEmpty(h) \/ SkipPaused(h) \/ UseReservation(h) \/ Reserve(h)
    BY <2>1 DEF SkipEmpty, SkipPaused, UseReservation, Reserve, Visit, callerVars
  <2>2. CASE StartRange \/ StartWait \/ WakeUp \/ PromoterPanic \/ PromoterPauseLoad \/ PromoterPauseStore
    BY <2>2 DEF StartRange, StartWait, WakeUp, PromoterPanic, PromoterPauseLoad, PromoterPauseStore,
                queueVars, callerVars, historyVars
  <2> QED BY <2>1, <2>2 DEF PromoterStep
<1> QED BY <1>1, SilentCall

LEMMA SilentVisitor ==
  ASSUME SingleInv, TypeOK', NEW v \in Visitors,
         \/ Finish(v) \/ Republish(v) \/ TakeRateLimitHeaders(v) \/ TakeSample(v)
         \/ \E h \in Hosts, d \in RetryAfters : Pause(v, h, d)
  PROVE  SingleInv' /\ UNCHANGED VQ!vars
<1>1. v \in Callers /\ job \in [Visitors -> Messages \cup {NoMessage}] /\ stage[v] # "free" /\ job[v] \in delivered
  BY DEF Callers, SingleInv, TypeOK, JobType, RetryInv, Finish, Republish, TakeRateLimitHeaders, TakeSample,
         Pause, About, Done
<1>2. job[v] \in Messages
  BY <1>1 DEF SingleInv, TypeOK, HistoryType
<1>3. job[v].host \in Hosts /\ job[v].retries \in Nat
  BY <1>2 DEF Messages
<1>4. \A w \in Visitors : stage'[w] # "free" => stage[w] # "free" /\ job'[w] = job[w]
  BY <1>1 DEF Finish, Republish, TakeRateLimitHeaders, TakeSample, Pause, About, Done, SingleInv, TypeOK, JobType
<1>5. CASE Finish(v)
  BY <1>4, <1>5, SilentCall DEF Finish, queueVars, historyVars
<1>6. CASE Republish(v)
  <2>1. Continues(job[v].host, job[v].retries + 1)
    BY <1>1 DEF Continues
  <2>2. Begin(v, "publish", job[v].host, job[v].retries + 1) /\ Room
    BY <1>6 DEF Republish
  <2>3. UNCHANGED <<delivered, dropped>>
    BY <2>2 DEF Begin, historyVars
  <2>4. job[v].retries + 1 \in Int /\ "publish" \in Ops \ {"none"}
    BY <1>3 DEF Ops
  <2> QED BY <1>1, <1>3, <1>4, <2>1, <2>2, <2>3, <2>4, SilentBegin
<1>7. CASE TakeRateLimitHeaders(v) \/ TakeSample(v)
  <2>1. Begin(v, "limit", job[v].host, 0)
    BY <1>7 DEF TakeRateLimitHeaders, TakeSample
  <2>2. UNCHANGED <<delivered, dropped>>
    BY <2>1 DEF Begin, historyVars
  <2>3. "limit" \in Ops \ {"none"} /\ "limit" # "publish"
    BY DEF Ops
  <2> QED BY <1>1, <1>3, <1>4, <2>1, <2>2, <2>3, SilentBegin
<1>8. ASSUME NEW h \in Hosts, NEW d \in RetryAfters, Pause(v, h, d) PROVE SingleInv' /\ UNCHANGED VQ!vars
  <2>1. Begin(v, "pause", h, d) /\ d \in Int
    BY <1>8, ConstantsAssumption DEF Pause
  <2>2. UNCHANGED <<delivered, dropped>>
    BY <2>1 DEF Begin, historyVars
  <2>3. "pause" \in Ops \ {"none"} /\ "pause" # "publish"
    BY DEF Ops
  <2> QED BY <1>1, <1>4, <2>1, <2>2, <2>3, SilentBegin
<1> QED BY <1>5, <1>6, <1>7, <1>8

LEMMA SilentPublish ==
  ASSUME SingleInv, TypeOK', NEW p \in Callers, NEW h \in Hosts, Publish(p, h)
  PROVE  SingleInv' /\ UNCHANGED VQ!vars
<1>1. Begin(p, "publish", h, 0) /\ Room /\ UNCHANGED <<job, stage>>
  BY DEF Publish
<1>2. UNCHANGED <<delivered, dropped>>
  BY <1>1 DEF Begin, historyVars
<1>3. "publish" \in Ops \ {"none"} /\ Continues(h, 0)
  BY DEF Ops, Continues
<1> QED BY <1>1, <1>2, <1>3, SilentBegin

LEMMA SingleStep == ASSUME SingleInv, [Next]_vars PROVE SingleInv' /\ [VQ!Next]_VQ!vars
<1>1. TypeOK'
  BY TypeStep DEF SingleInv
<1>2. ASSUME NEW p \in Callers, CallStep(p) \/ \E h \in Hosts : Publish(p, h)
      PROVE  SingleInv' /\ [VQ!Next]_VQ!vars
  BY <1>1, <1>2, SingleSend, SilentCalls, SilentPublish DEF CallStep
<1>3. ASSUME NEW v \in Visitors, Take(v) \/ VisitorStep(v)
      PROVE  SingleInv' /\ [VQ!Next]_VQ!vars
  BY <1>1, <1>3, SingleTake, SingleHandOver, SilentVisitor DEF VisitorStep
<1>4. CASE PromoterStep
  BY <1>1, <1>4, SinglePromote, SilentPromoter
<1>5. CASE Tick \/ UNCHANGED vars
  <2>1. UNCHANGED <<buf, dqueue, hand, delivered, dropped, nextID, pc, req, job, stage>>
    BY <1>5 DEF Tick, vars, queueVars, callerVars, historyVars
  <2> QED BY <1>1, <2>1, SilentCall
<1> QED BY <1>2, <1>3, <1>4, <1>5 DEF Next

\* The host queues, the promoter and the consumers are one queue to those who
\* use it, for any number of them and any capacity (main.go:36-60).
THEOREM IsSingleQueue == Spec => SingleQueue
<1>1. Init => SingleInv /\ VQ!Init
  BY SingleInit
<1>2. SingleInv /\ [Next]_vars => SingleInv' /\ [VQ!Next]_VQ!vars
  BY SingleStep
<1> QED BY <1>1, <1>2, PTL DEF Spec, SingleQueue, VQ!Spec
=============================================================================
