------------------------------ MODULE Service ------------------------------
(***************************************************************************)
(* The life of a process, from accepting requests (src/routes.go) to its   *)
(* shutdown (src/main.go): the goroutines of the work queue's Consume and  *)
(* promoter (src/internal/ctrlq), the visitors and their pool, the         *)
(* goroutines requests start, and the functions that tear it all down      *)
(* while some of these still run.                                          *)
(*                                                                         *)
(* Channels are modelled as what Go makes of them: a send on a closed one  *)
(* panics, a receive from one always succeeds, and a select that could     *)
(* take several cases takes any.  There is one host, whose rate limit only *)
(* shows as the promoter not finding a candidate; see WorkQueue.           *)
(***************************************************************************)
EXTENDS RunManager, Sequences

CONSTANTS
    Handlers,           \* Requests, each served by a goroutine of its own.
    Requested,          \* Request -> the run it asks for, which may be known.
    Workers,            \* Visitors.
    BufferSize,         \* Capacity of the host queue and the default queue.
    MaxMessages,        \* Bound: messages ever published.
    Teardowns           \* Orders in which the parts may be torn down.

Parts == {"queue", "pool", "api"}

ASSUME ServiceAssumption ==
    /\ Callers = Handlers \cup Workers /\ Handlers \cap Workers = {}
    /\ Requested \in [Handlers -> RunIDs]
    /\ BufferSize \in Nat \ {0} /\ MaxMessages \in Nat
    /\ Teardowns \subseteq Seq(Parts)

VARIABLES
    hqueue, dqueue,         \* Messages in the host queue and the default queue.
    hclosed, dclosed,       \* Whether these are closed.
    promoting,              \* Whether the promoter runs.
    cpc, msg,               \* Worker -> where its Consume goroutine is, with what.
    wpc, job,               \* Worker -> where it is, and its job.
    hpc,                    \* Request -> where its handler is.
    epc, eurl,              \* Goroutine that enqueues -> where it is, with what.
    serving,                \* Whether requests are accepted.
    cancelled,              \* Whether the context is cancelled.
    tears,                  \* Parts to be torn down yet.
    exited, panicked,
    \* History.
    sent                    \* Messages ever published.

queueVars == <<hqueue, dqueue, hclosed, dclosed, sent>>
consumeVars == <<cpc, msg>>
workVars == <<wpc, job>>
enqueueVars == <<epc, eurl>>
processVars == <<cancelled, exited, panicked>>
apiVars == <<hpc, serving>>
vars == <<managerVars, queueVars, promoting, consumeVars, workVars, enqueueVars, apiVars, tears,
          processVars>>

\* A message has the run, the URL and an ID.
Messages == RunIDs \X URLs \X (1 .. MaxMessages)
NoMessage == <<>>

Init ==
    /\ ManagerInit
    /\ hqueue = <<>> /\ dqueue = <<>> /\ hclosed = FALSE /\ dclosed = FALSE /\ sent = 0
    /\ promoting = TRUE
    /\ cpc = [w \in Workers |-> "select"]
    /\ msg = [w \in Workers |-> NoMessage]
    /\ wpc = [w \in Workers |-> "select"]
    /\ job = [w \in Workers |-> NoMessage]
    /\ hpc = [h \in Handlers |-> "none"]
    /\ epc = [e \in Callers |-> "idle"]
    /\ eurl = [e \in Callers |-> NoMessage]
    /\ serving = TRUE /\ cancelled = FALSE
    /\ tears \in Teardowns
    /\ exited = FALSE /\ panicked = FALSE

Up == ~exited /\ ~panicked
Panic == panicked' = TRUE /\ UNCHANGED <<cancelled, exited>>

-----------------------------------------------------------------------------
(***************************************************************************)
(* The enqueue function: of the goroutine a request leaves behind, and of  *)
(* a visitor that finds links.  Crawl has its look at the URLs seen and    *)
(* its send apart, which are one step here.                                *)
(***************************************************************************)
RunOf(e) == IF e \in Workers THEN job[e][1] ELSE mrun[e]

RoomForOneMore(q) == Len(q) <= BufferSize
Room(q) == Len(q) < BufferSize
Put(q, m) == IF Room(q) THEN Append(q, m) ELSE q

Publish(e, u) ==
    LET m == <<RunOf(e), u, sent + 1>> IN
    /\ epc[e] = "idle" /\ sent < MaxMessages
    /\ ~HasSeenURL(RunOf(e), u)
    /\ IF hclosed
       THEN Panic /\ UNCHANGED <<queueVars, enqueueVars>>
       ELSE /\ hqueue' = Put(hqueue, m)
            /\ sent' = sent + 1
            /\ epc' = [epc EXCEPT ![e] = "saw"]
            /\ eurl' = [eurl EXCEPT ![e] = m]
            /\ UNCHANGED <<dqueue, hclosed, dclosed, processVars>>

Saw(e) ==
    /\ epc[e] = "saw"
    /\ SawURL(eurl[e][1], eurl[e][2])
    /\ epc' = [epc EXCEPT ![e] = "idle"]
    /\ eurl' = [eurl EXCEPT ![e] = NoMessage]

-----------------------------------------------------------------------------
(***************************************************************************)
(* Requests.  The handler adds the run and starts it in the background;    *)
(* nobody waits for that.                                                  *)
(***************************************************************************)
Accept(h) ==
    /\ Up /\ serving /\ hpc[h] = "none"
    /\ Add(h, Requested[h])
    /\ hpc' = [hpc EXCEPT ![h] = "handle"]
    /\ UNCHANGED <<queueVars, promoting, consumeVars, workVars, enqueueVars, serving, tears, processVars>>

Added(h) ==
    /\ Up /\ hpc[h] = "handle"
    /\ AddEntry(h)
    /\ hpc' = [hpc EXCEPT ![h] = "start"]
    /\ UNCHANGED <<queueVars, promoting, consumeVars, workVars, enqueueVars, serving, tears, processVars>>

StartPublish(h) ==
    /\ Up /\ hpc[h] = "start"
    /\ \E u \in URLs : Publish(h, u)
    /\ UNCHANGED <<managerVars, promoting, consumeVars, workVars, apiVars, tears>>

StartSaw(h) ==
    /\ Up /\ hpc[h] = "start" /\ Saw(h)
    /\ UNCHANGED <<queueVars, promoting, consumeVars, workVars, apiVars, tears, processVars>>

StartEnd(h) ==
    /\ Up /\ hpc[h] = "start" /\ epc[h] = "idle"
    /\ Release(h)
    /\ hpc' = [hpc EXCEPT ![h] = "done"]
    /\ UNCHANGED <<queueVars, promoting, consumeVars, workVars, enqueueVars, serving, tears, processVars>>

-----------------------------------------------------------------------------
(***************************************************************************)
(* The promoter.  Nobody else takes messages from the host queue, so what  *)
(* it found there when it looked for candidates still is.  That it waits,  *)
(* or drops out of promote as the context is cancelled, changes nothing.   *)
(***************************************************************************)
Promote ==
    /\ Up /\ promoting /\ hqueue # <<>>
    /\ IF dclosed
       THEN Panic /\ UNCHANGED <<hqueue, dqueue>>
       ELSE /\ hqueue' = Tail(hqueue)
            /\ dqueue' = Put(dqueue, Head(hqueue))
            /\ UNCHANGED processVars
    /\ UNCHANGED <<managerVars, hclosed, dclosed, sent, promoting, consumeVars, workVars, enqueueVars,
                   apiVars, tears>>

\* It ends where it waits: for a message or for the host to be ready.
EndPromoting ==
    /\ Up /\ promoting /\ cancelled
    /\ promoting' = FALSE
    /\ UNCHANGED <<managerVars, queueVars, consumeVars, workVars, enqueueVars, apiVars, tears,
                   processVars>>

-----------------------------------------------------------------------------
(***************************************************************************)
(* Consume's goroutine.  Between taking a message and handing it over it   *)
(* listens to nothing else.                                                *)
(***************************************************************************)
DropIfBusy(w) == wpc[w] = "select"
Waits(w) == TRUE

Take(w) ==
    /\ Up /\ cpc[w] = "select" /\ dqueue # <<>>
    /\ dqueue' = Tail(dqueue)
    /\ IF Waits(w)
       THEN /\ cpc' = [cpc EXCEPT ![w] = "send"]
            /\ msg' = [msg EXCEPT ![w] = Head(dqueue)]
       ELSE UNCHANGED consumeVars
    /\ UNCHANGED <<managerVars, hqueue, hclosed, dclosed, sent, promoting, workVars,
                   enqueueVars, apiVars, tears, processVars>>

CloseChannels(w) ==
    /\ Up /\ cpc[w] = "select" /\ (cancelled \/ (dclosed /\ dqueue = <<>>))
    /\ cpc' = [cpc EXCEPT ![w] = "closed"]
    /\ UNCHANGED <<managerVars, queueVars, promoting, msg, workVars, enqueueVars, apiVars, tears,
                   processVars>>

-----------------------------------------------------------------------------
(***************************************************************************)
(* A visitor.  Its select receives a job, a nil one from a closed channel, *)
(* which it dereferences, or notices that it is over.                      *)
(***************************************************************************)
Receive(w) ==
    /\ Up /\ wpc[w] = "select" /\ cpc[w] = "send"
    /\ job' = [job EXCEPT ![w] = msg[w]]
    /\ msg' = [msg EXCEPT ![w] = NoMessage]
    /\ wpc' = [wpc EXCEPT ![w] = "process"]
    /\ cpc' = [cpc EXCEPT ![w] = "select"]
    /\ UNCHANGED <<managerVars, queueVars, promoting, enqueueVars, apiVars, tears,
                   processVars>>

ReceiveNil(w) ==
    /\ Up /\ wpc[w] = "select" /\ cpc[w] = "closed"
    /\ Panic
    /\ UNCHANGED <<managerVars, queueVars, promoting, consumeVars, workVars, enqueueVars, apiVars, tears>>

Leave(w) ==
    /\ Up /\ wpc[w] = "select" /\ (cancelled \/ cpc[w] = "closed")
    /\ wpc' = [wpc EXCEPT ![w] = "exited"]
    /\ UNCHANGED <<managerVars, queueVars, promoting, consumeVars, job, enqueueVars, apiVars, tears,
                   processVars>>

\* process: the run first ...
GetRun(w) ==
    /\ Up /\ wpc[w] = "process"
    /\ Get(w, job[w][1]) \/ ManagerStep(w)
    /\ UNCHANGED <<queueVars, promoting, consumeVars, workVars, enqueueVars, apiVars, tears, processVars>>

\* ... which is used without a look at whether there is one.
NilRun(w) ==
    /\ Up /\ wpc[w] = "process" /\ mpc[w] = "nil"
    /\ Panic
    /\ UNCHANGED <<managerVars, queueVars, promoting, consumeVars, workVars, enqueueVars, apiVars, tears>>

\* The visit enqueues links ...
FollowLink(w) ==
    /\ Up /\ wpc[w] = "process" /\ mpc[w] = "got"
    /\ \E u \in URLs : Publish(w, u)
    /\ UNCHANGED <<managerVars, promoting, consumeVars, workVars, apiVars, tears>>

SawLink(w) ==
    /\ Up /\ wpc[w] = "process" /\ Saw(w)
    /\ UNCHANGED <<queueVars, promoting, consumeVars, workVars, apiVars, tears, processVars>>

\* ... and ends with a retry, which is one more send to the host queue ...
Republish(w) ==
    /\ Up /\ wpc[w] = "process" /\ mpc[w] = "got" /\ epc[w] = "idle" /\ sent < MaxMessages
    /\ IF hclosed
       THEN Panic /\ UNCHANGED <<managerVars, queueVars, workVars>>
       ELSE /\ hqueue' = Put(hqueue, <<job[w][1], job[w][2], sent + 1>>)
            /\ sent' = sent + 1
            /\ Release(w)
            /\ wpc' = [wpc EXCEPT ![w] = "select"]
            /\ job' = [job EXCEPT ![w] = NoMessage]
            /\ UNCHANGED <<dqueue, hclosed, dclosed, processVars>>
    /\ UNCHANGED <<promoting, consumeVars, enqueueVars, apiVars, tears>>

\* ... or without, perhaps with a failure that ends the visitor.
EndVisit(w) ==
    /\ Up /\ wpc[w] = "process" /\ epc[w] = "idle"
    /\ Release(w)
    /\ wpc' \in {[wpc EXCEPT ![w] = pc] : pc \in {"select", "failed"}}
    /\ job' = [job EXCEPT ![w] = NoMessage]
    /\ UNCHANGED <<queueVars, promoting, consumeVars, enqueueVars, apiVars, tears, processVars>>

-----------------------------------------------------------------------------
(***************************************************************************)
(* Shutdown: the signal, or in the CLI the end of the run, cancels the     *)
(* context; main then tears the parts down one after the other.  The       *)
(* order is the library's.                                                 *)
(***************************************************************************)
Interrupt ==
    /\ Up /\ ~cancelled
    /\ cancelled' = TRUE
    /\ UNCHANGED <<managerVars, queueVars, promoting, consumeVars, workVars, enqueueVars, apiVars, tears,
                   exited, panicked>>

Tearing(part) == Up /\ cancelled /\ tears # <<>> /\ Head(tears) = part

CloseDefault ==
    /\ Tearing("queue") /\ ~dclosed
    /\ dclosed' = TRUE
    /\ UNCHANGED <<managerVars, hqueue, dqueue, hclosed, sent, promoting, consumeVars, workVars, enqueueVars,
                   apiVars, tears, processVars>>

CloseHost ==
    /\ Tearing("queue") /\ dclosed
    /\ hclosed' = TRUE
    /\ tears' = Tail(tears)
    /\ UNCHANGED <<managerVars, hqueue, dqueue, dclosed, sent, promoting, consumeVars, workVars, enqueueVars,
                   apiVars, processVars>>

\* The pool waits for its workers, however they ended.
DoneIfClean(w) == wpc[w] = "exited"
Done(w) == wpc[w] \in {"exited", "failed"}

ClosePool ==
    /\ Tearing("pool") /\ \A w \in Workers : Done(w)
    /\ tears' = Tail(tears)
    /\ UNCHANGED <<managerVars, queueVars, promoting, consumeVars, workVars, enqueueVars, apiVars, processVars>>

\* The server stops listening and waits for the handlers.
StopServing ==
    /\ Tearing("api") /\ serving
    /\ serving' = FALSE
    /\ UNCHANGED <<managerVars, queueVars, promoting, consumeVars, workVars, enqueueVars, hpc, tears,
                   processVars>>

CloseAPI ==
    /\ Tearing("api") /\ ~serving /\ \A h \in Handlers : hpc[h] # "handle"
    /\ tears' = Tail(tears)
    /\ UNCHANGED <<managerVars, queueVars, promoting, consumeVars, workVars, enqueueVars, apiVars, processVars>>

Exit ==
    /\ Up /\ cancelled /\ tears = <<>>
    /\ exited' = TRUE
    /\ UNCHANGED <<managerVars, queueVars, promoting, consumeVars, workVars, enqueueVars, apiVars, tears,
                   cancelled, panicked>>

-----------------------------------------------------------------------------
RequestStep(h) == Added(h) \/ StartPublish(h) \/ StartSaw(h) \/ StartEnd(h)
PromoterStep == Promote \/ EndPromoting
ConsumeStep(w) == Take(w) \/ CloseChannels(w)
WorkerStep(w) == \/ Receive(w) \/ ReceiveNil(w) \/ Leave(w) \/ GetRun(w) \/ NilRun(w)
                 \/ FollowLink(w) \/ SawLink(w) \/ Republish(w) \/ EndVisit(w)
MainStep == CloseDefault \/ CloseHost \/ ClosePool \/ StopServing \/ CloseAPI \/ Exit

Age(r) == /\ Up
          /\ Expire(r) \/ Clean(r)
          /\ UNCHANGED <<queueVars, promoting, consumeVars, workVars, enqueueVars, apiVars, tears, processVars>>

Next ==
    \/ \E h \in Handlers : RequestStep(h) \/ Accept(h)
    \/ PromoterStep
    \/ \E w \in Workers : ConsumeStep(w) \/ WorkerStep(w)
    \/ Interrupt \/ MainStep
    \/ \E r \in RunIDs : Age(r)

Spec == Init /\ [][Next]_vars

\* The scheduler is fair and visits end.  No request has to come, nothing has
\* to be interrupted or to expire.
Fairness ==
    /\ \A h \in Handlers : WF_vars(RequestStep(h))
    /\ WF_vars(PromoterStep) /\ WF_vars(MainStep)
    /\ \A w \in Workers : WF_vars(ConsumeStep(w)) /\ WF_vars(WorkerStep(w))

FairSpec == Spec /\ Fairness

-----------------------------------------------------------------------------
\* Every variable has its type, no channel holds more than its capacity, and
\* whoever has taken a message holds it.
TypeOK ==
    /\ ManagerTypeOK
    /\ hqueue \in Seq(Messages) /\ dqueue \in Seq(Messages)
    /\ Len(hqueue) <= BufferSize /\ Len(dqueue) <= BufferSize
    /\ {promoting, hclosed, dclosed, serving, cancelled, exited, panicked} \subseteq BOOLEAN
    /\ cpc \in [Workers -> {"select", "send", "closed"}]
    /\ msg \in [Workers -> Messages \cup {NoMessage}]
    /\ \A w \in Workers : cpc[w] = "send" <=> msg[w] # NoMessage
    /\ wpc \in [Workers -> {"select", "process", "exited", "failed"}]
    /\ job \in [Workers -> Messages \cup {NoMessage}]
    /\ \A w \in Workers : wpc[w] = "process" <=> job[w] # NoMessage
    /\ hpc \in [Handlers -> {"none", "handle", "start", "done"}]
    /\ epc \in [Callers -> {"idle", "saw"}]
    /\ eurl \in [Callers -> Messages \cup {NoMessage}]
    /\ sent \in 0 .. MaxMessages

\* An interrupted process comes to its end, whatever its visitors died of
\* before and whatever messages are left in its channels (main.go:205-208).
\* That end may be a panic: nobody waits for the senders before the channels
\* are closed, nor does a worker tell a closed one from a job.
Stops == cancelled ~> (exited \/ panicked)

\* What was promoted reaches a visitor: it waits in the default queue only
\* until one is free or all have died, and is otherwise held for one that died
\* meanwhile, by the goroutine it left behind (memory.go:164).
Promoted(m) == m \in {dqueue[i] : i \in DOMAIN dqueue}

Served ==
    \A m \in Messages :
        Promoted(m) ~> \/ \E w \in Workers : job[w] = m \/ (Done(w) /\ msg[w] = m)
                       \/ \A w \in Workers : Done(w)
                       \/ exited \/ panicked
=============================================================================
