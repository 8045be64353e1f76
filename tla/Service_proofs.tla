--------------------------- MODULE Service_proofs ---------------------------
(***************************************************************************)
(* Proofs about a process, for any requests, workers, runs, sizes of       *)
(* channels and caches, and any order of tearing it down: it uses the run  *)
(* manager as that expects to be used, so that what holds of it holds      *)
(* here; its channels do not overflow, and a message is with its holder.   *)
(***************************************************************************)
EXTENDS Service, RunManager_proofs

\* Messages of runs that were added.
Carried == {m \in Messages : m[1] \in added}

\* A request's run is added before the request does anything with it.
RequestInv ==
    /\ added \subseteq RunIDs
    /\ hpc \in [Handlers -> {"none", "handle", "start", "done"}]
    /\ mrun \in [Callers -> RunIDs \cup {NoRun}]
    /\ mpc \in [Callers -> {"idle", "adding", "missed", "got", "nil"}]
    /\ \A h \in Handlers : hpc[h] = "start" => mpc[h] = "got" /\ mrun[h] \in added
    /\ \A h \in Handlers : hpc[h] = "handle" => mpc[h] = "adding" /\ mrun[h] \in added

\* Wherever a message is, its run was added.
QueueInv == hqueue \in Seq(Carried) /\ dqueue \in Seq(Carried) /\ sent \in Nat
HandInv ==
    /\ cpc \in [Workers -> {"select", "send", "closed"}]
    /\ msg \in [Workers -> Messages \cup {NoMessage}]
    /\ \A w \in Workers : cpc[w] = "send" => msg[w] \in Carried
JobInv ==
    /\ wpc \in [Workers -> {"select", "process", "exited", "failed"}]
    /\ job \in [Workers -> Messages \cup {NoMessage}]
    /\ \A w \in Workers : wpc[w] = "process" => job[w] \in Carried
EnqueueInv ==
    /\ epc \in [Callers -> {"idle", "saw"}]
    /\ eurl \in [Callers -> Messages \cup {NoMessage}]
    /\ \A e \in Callers : epc[e] = "saw" => eurl[e] \in Carried

CarryInv == RequestInv /\ QueueInv /\ HandInv /\ JobInv /\ EnqueueInv

-----------------------------------------------------------------------------
\* What survives a step that adds runs, if any, and leaves the rest alone.
LEMMA CarriedGrows == ASSUME added \subseteq added' PROVE Carried \subseteq Carried'
BY DEF Carried, Messages

LEMMA SeqGrows == ASSUME NEW S, NEW T, S \subseteq T, NEW q \in Seq(S) PROVE q \in Seq(T)
OBVIOUS

LEMMA FrameQueue ==
  ASSUME QueueInv, added \subseteq added', UNCHANGED queueVars PROVE QueueInv'
BY CarriedGrows, SeqGrows DEF QueueInv, queueVars

LEMMA FrameHand ==
  ASSUME HandInv, added \subseteq added', UNCHANGED consumeVars PROVE HandInv'
BY CarriedGrows DEF HandInv, consumeVars, Messages

LEMMA FrameJob ==
  ASSUME JobInv, added \subseteq added', UNCHANGED workVars PROVE JobInv'
BY CarriedGrows DEF JobInv, workVars, Messages

LEMMA FrameEnqueue ==
  ASSUME EnqueueInv, added \subseteq added', UNCHANGED enqueueVars PROVE EnqueueInv'
BY CarriedGrows DEF EnqueueInv, enqueueVars, Messages

LEMMA FrameRequest ==
  ASSUME RequestInv, UNCHANGED <<managerVars, hpc>> PROVE RequestInv'
BY DEF RequestInv, managerVars

\* A worker's call, which leaves the requests' calls alone.
LEMMA FrameCall ==
  ASSUME RequestInv, NEW w \in Workers, NEW pc \in {"idle", "adding", "missed", "got", "nil"},
         NEW r \in RunIDs \cup {NoRun},
         mpc' = [mpc EXCEPT ![w] = pc], mrun' = [mrun EXCEPT ![w] = r] \/ mrun' = mrun,
         UNCHANGED <<added, hpc>>
  PROVE  RequestInv'
BY ServiceAssumption DEF RequestInv

-----------------------------------------------------------------------------
\* Whoever publishes does so for a run that was added.
LEMMA PublishersKnow ==
  ASSUME RequestInv, JobInv, NEW e \in Callers,
         \/ e \in Handlers /\ hpc[e] = "start"
         \/ e \in Workers /\ wpc[e] = "process"
  PROVE  RunOf(e) \in added \cap RunIDs
BY ServiceAssumption DEF RequestInv, JobInv, RunOf, Carried, Messages

LEMMA StepPublish ==
  ASSUME RequestInv, QueueInv, EnqueueInv, NEW e \in Callers, NEW u \in URLs,
         RunOf(e) \in added \cap RunIDs, Publish(e, u), added' = added
  PROVE  QueueInv' /\ EnqueueInv'
<1>1. CASE hclosed
  BY <1>1, FrameQueue, FrameEnqueue DEF Publish
<1>2. CASE ~hclosed
  <2> DEFINE m == <<RunOf(e), u, sent + 1>>
  <2>1. sent + 1 \in 1 .. MaxMessages
    BY ServiceAssumption DEF Publish, QueueInv
  <2>2. m \in Carried
    BY <2>1 DEF Carried, Messages
  <2>3. Carried' = Carried
    BY DEF Carried, Messages
  <2> HIDE DEF m
  <2>4. /\ hqueue' \in {hqueue, Append(hqueue, m)} /\ dqueue' = dqueue /\ sent' = sent + 1
        /\ epc' = [epc EXCEPT ![e] = "saw"] /\ eurl' = [eurl EXCEPT ![e] = m]
    BY <1>2 DEF Publish, Put, m
  <2>5. QueueInv'
    BY <2>2, <2>3, <2>4 DEF QueueInv
  <2>6. m \in Messages
    BY <2>2 DEF Carried
  <2> QED BY <2>2, <2>3, <2>4, <2>5, <2>6 DEF EnqueueInv
<1> QED BY <1>1, <1>2

LEMMA StepSaw ==
  ASSUME RequestInv, EnqueueInv, NEW e \in Callers, Saw(e), hpc' = hpc
  PROVE  EnqueueInv' /\ RequestInv' /\ added' = added
<1>1. added' = added /\ mpc' = mpc /\ mrun' = mrun
  BY DEF Saw, SawURL
<1>2. Carried' = Carried
  BY <1>1 DEF Carried, Messages
<1> QED BY <1>1, <1>2 DEF EnqueueInv, RequestInv, Saw

\* A request's steps.
LEMMA StepRequest ==
  ASSUME CarryInv, NEW h \in Handlers, RequestStep(h) \/ Accept(h) PROVE CarryInv'
<1> USE DEF CarryInv
<1>c. h \in Callers /\ h \notin Workers
  BY ServiceAssumption
<1>1. ASSUME Accept(h) PROVE CarryInv'
  <2>1. added' = added \cup {Requested[h]} /\ Requested[h] \in RunIDs
    BY <1>1, ServiceAssumption DEF Accept, Add
  <2>2. RequestInv'
    BY <1>1, <1>c, <2>1 DEF Accept, Add, RequestInv
  <2> QED BY <1>1, <2>1, <2>2, FrameQueue, FrameHand, FrameJob, FrameEnqueue DEF Accept
<1>2. ASSUME Added(h) PROVE CarryInv'
  <2>1. added' = added /\ mpc' = [mpc EXCEPT ![h] = "got"] /\ mrun' = mrun
    BY <1>2 DEF Added, AddEntry
  <2>2. RequestInv'
    BY <1>2, <1>c, <2>1 DEF Added, RequestInv
  <2> QED BY <1>2, <2>1, <2>2, FrameQueue, FrameHand, FrameJob, FrameEnqueue DEF Added
<1>3. ASSUME StartPublish(h) PROVE CarryInv'
  <2>1. PICK u \in URLs : Publish(h, u)
    BY <1>3 DEF StartPublish
  <2>2. added' = added
    BY <1>3 DEF StartPublish, managerVars
  <2>3. RunOf(h) \in added \cap RunIDs
    BY <1>3, <1>c, PublishersKnow DEF StartPublish
  <2> QED BY <1>3, <1>c, <2>1, <2>2, <2>3, StepPublish, FrameRequest, FrameHand, FrameJob
          DEF StartPublish, apiVars
<1>4. ASSUME StartSaw(h) PROVE CarryInv'
  BY <1>4, <1>c, StepSaw, FrameQueue, FrameHand, FrameJob DEF StartSaw, apiVars
<1>5. ASSUME StartEnd(h) PROVE CarryInv'
  <2>1. added' = added /\ mpc' = [mpc EXCEPT ![h] = "idle"] /\ mrun' = [mrun EXCEPT ![h] = NoRun]
    BY <1>5 DEF StartEnd, Release
  <2>2. RequestInv'
    BY <1>5, <1>c, <2>1 DEF StartEnd, RequestInv
  <2> QED BY <1>5, <2>1, <2>2, FrameQueue, FrameHand, FrameJob, FrameEnqueue DEF StartEnd
<1> QED BY <1>1, <1>2, <1>3, <1>4, <1>5 DEF RequestStep

\* Steps that move messages along.
LEMMA StepQueue ==
  ASSUME CarryInv, PromoterStep \/ \E w \in Workers : ConsumeStep(w) PROVE CarryInv'
<1> USE DEF CarryInv
<1>0. Carried' = Carried /\ added' = added
  BY DEF PromoterStep, Promote, EndPromoting, ConsumeStep, Take, CloseChannels, managerVars, Carried,
         Messages
<1>1. ASSUME Promote PROVE CarryInv'
  <2>1. QueueInv'
    <3>1. Head(hqueue) \in Carried /\ Tail(hqueue) \in Seq(Carried)
      BY <1>1 DEF Promote, QueueInv
    <3>2. hqueue' \in {hqueue, Tail(hqueue)} /\ dqueue' \in {dqueue, Append(dqueue, Head(hqueue))} /\ sent' = sent
      BY <1>1 DEF Promote, Put
    <3>3. dqueue \in Seq(Carried) /\ Append(dqueue, Head(hqueue)) \in Seq(Carried)
      BY <3>1 DEF QueueInv
    <3>4. hqueue' \in Seq(Carried) /\ dqueue' \in Seq(Carried)
      BY <3>1, <3>2, <3>3 DEF QueueInv
    <3> QED BY <1>0, <3>2, <3>4 DEF QueueInv
  <2> QED BY <1>0, <1>1, <2>1, FrameRequest, FrameHand, FrameJob, FrameEnqueue DEF Promote, apiVars
<1>2. ASSUME EndPromoting PROVE CarryInv'
  BY <1>0, <1>2, FrameRequest, FrameQueue, FrameHand, FrameJob, FrameEnqueue DEF EndPromoting, apiVars
<1>3. ASSUME NEW w \in Workers, Take(w) PROVE CarryInv'
  <2>1. QueueInv' /\ Head(dqueue) \in Carried
    BY <1>0, <1>3 DEF Take, QueueInv
  <2>2. HandInv'
    BY <1>0, <1>3, <2>1 DEF Take, Waits, HandInv, Carried
  <2> QED BY <1>0, <1>3, <2>1, <2>2, FrameRequest, FrameJob, FrameEnqueue DEF Take, apiVars
<1>4. ASSUME NEW w \in Workers, CloseChannels(w) PROVE CarryInv'
  <2>1. HandInv'
    BY <1>0, <1>4 DEF CloseChannels, HandInv
  <2> QED BY <1>0, <1>4, <2>1, FrameRequest, FrameQueue, FrameJob, FrameEnqueue DEF CloseChannels, apiVars
<1> QED BY <1>1, <1>2, <1>3, <1>4 DEF PromoterStep, ConsumeStep

LEMMA StepWorker == ASSUME CarryInv, NEW w \in Workers, WorkerStep(w) PROVE CarryInv'
<1> USE DEF CarryInv
<1>c. w \in Callers /\ w \notin Handlers
  BY ServiceAssumption
<1>1. ASSUME Receive(w) PROVE CarryInv'
  <2>0. Carried' = Carried /\ added' = added
    BY <1>1 DEF Receive, managerVars, Carried, Messages
  <2>1. HandInv' /\ JobInv'
    BY <1>1, <2>0 DEF Receive, HandInv, JobInv
  <2> QED BY <1>1, <2>0, <2>1, FrameRequest, FrameQueue, FrameEnqueue DEF Receive, apiVars
<1>2. ASSUME ReceiveNil(w) \/ NilRun(w) PROVE CarryInv'
  BY <1>2, FrameRequest, FrameQueue, FrameHand, FrameJob, FrameEnqueue
     DEF ReceiveNil, NilRun, apiVars, managerVars
<1>3. ASSUME Leave(w) PROVE CarryInv'
  <2>1. JobInv'
    BY <1>3 DEF Leave, JobInv, managerVars, Carried, Messages
  <2> QED BY <1>3, <2>1, FrameRequest, FrameQueue, FrameHand, FrameEnqueue DEF Leave, apiVars, managerVars
<1>4. ASSUME GetRun(w) PROVE CarryInv'
  <2>1. PICK pc \in {"idle", "adding", "missed", "got", "nil"}, r \in RunIDs \cup {NoRun} :
           /\ mpc' = [mpc EXCEPT ![w] = pc]
           /\ mrun' = [mrun EXCEPT ![w] = r] \/ mrun' = mrun
           /\ added' = added
    <3>1. job[w][1] \in RunIDs
      BY <1>4 DEF GetRun, JobInv, Carried, Messages
    <3> QED BY <1>4, <3>1 DEF GetRun, Get, Hit, Miss, ManagerStep, AddEntry, Load
  <2>2. RequestInv'
    BY <1>4, <2>1, FrameCall DEF GetRun, apiVars
  <2> QED BY <1>4, <2>1, <2>2, FrameQueue, FrameHand, FrameJob, FrameEnqueue DEF GetRun
<1>5. ASSUME FollowLink(w) PROVE CarryInv'
  <2>1. PICK u \in URLs : Publish(w, u)
    BY <1>5 DEF FollowLink
  <2>2. added' = added
    BY <1>5 DEF FollowLink, managerVars
  <2>3. RunOf(w) \in added \cap RunIDs
    BY <1>5, <1>c, PublishersKnow DEF FollowLink
  <2> QED BY <1>5, <1>c, <2>1, <2>2, <2>3, StepPublish, FrameRequest, FrameHand, FrameJob
          DEF FollowLink, apiVars
<1>6. ASSUME SawLink(w) PROVE CarryInv'
  BY <1>6, <1>c, StepSaw, FrameQueue, FrameHand, FrameJob DEF SawLink, apiVars
<1>7. ASSUME EndVisit(w) PROVE CarryInv'
  <2>1. added' = added /\ mpc' = [mpc EXCEPT ![w] = "idle"] /\ mrun' = [mrun EXCEPT ![w] = NoRun]
    BY <1>7 DEF EndVisit, Release
  <2>2. RequestInv'
    BY <1>7, <2>1, FrameCall DEF EndVisit, apiVars
  <2>3. JobInv'
    BY <1>7, <2>1 DEF EndVisit, JobInv, Carried, Messages
  <2> QED BY <1>7, <2>1, <2>2, <2>3, FrameQueue, FrameHand, FrameEnqueue DEF EndVisit
<1>8. ASSUME Republish(w) PROVE CarryInv'
  <2>1. CASE hclosed
    BY <1>8, <2>1, FrameRequest, FrameQueue, FrameHand, FrameJob, FrameEnqueue
       DEF Republish, apiVars, managerVars
  <2>2. CASE ~hclosed
    <3> DEFINE m == <<job[w][1], job[w][2], sent + 1>>
    <3>1. /\ hqueue' = Put(hqueue, m) /\ dqueue' = dqueue /\ sent' = sent + 1 /\ sent < MaxMessages
          /\ Release(w) /\ wpc[w] = "process"
          /\ wpc' = [wpc EXCEPT ![w] = "select"] /\ job' = [job EXCEPT ![w] = NoMessage]
          /\ UNCHANGED <<consumeVars, enqueueVars, hpc>>
      BY <1>8, <2>2 DEF Republish, apiVars
    <3>2. added' = added /\ mpc' = [mpc EXCEPT ![w] = "idle"] /\ mrun' = [mrun EXCEPT ![w] = NoRun]
      BY <3>1 DEF Release
    <3>3. Carried' = Carried
      BY <3>2 DEF Carried, Messages
    <3>4. m \in Carried
      <4>1. job[w] \in Carried
        BY <3>1 DEF JobInv
      <4>2. sent + 1 \in 1 .. MaxMessages
        BY <3>1, ServiceAssumption DEF QueueInv
      <4> QED BY <4>1, <4>2 DEF Carried, Messages
    <3> HIDE DEF m
    <3>5. hqueue' \in {hqueue, Append(hqueue, m)}
      BY <3>1 DEF Put
    <3>6. QueueInv'
      <4>1. hqueue \in Seq(Carried) /\ dqueue \in Seq(Carried) /\ sent \in Nat
        BY DEF QueueInv
      <4>2. hqueue' \in Seq(Carried)
        BY <3>4, <3>5, <4>1
      <4>3. dqueue' = dqueue /\ sent' = sent + 1
        BY <3>1
      <4> QED BY <3>3, <4>1, <4>2, <4>3 DEF QueueInv
    <3>7. JobInv'
      BY <3>1, <3>3 DEF JobInv
    <3>8. RequestInv'
      BY <3>1, <3>2, FrameCall
    <3> QED BY <3>1, <3>2, <3>6, <3>7, <3>8, FrameHand, FrameEnqueue
  <2> QED BY <2>1, <2>2
<1> QED BY <1>1, <1>2, <1>3, <1>4, <1>5, <1>6, <1>7, <1>8 DEF WorkerStep

LEMMA StepRest ==
  ASSUME CarryInv, Interrupt \/ MainStep \/ (\E r \in RunIDs : Age(r)) \/ UNCHANGED vars PROVE CarryInv'
<1>1. /\ added' = added /\ mpc' = mpc /\ mrun' = mrun /\ hpc' = hpc
      /\ UNCHANGED <<hqueue, dqueue, sent, consumeVars, workVars, enqueueVars>>
  BY DEF Interrupt, MainStep, CloseDefault, CloseHost, ClosePool, StopServing, CloseAPI, Exit, Age,
         Expire, Clean, vars, queueVars, consumeVars, workVars, enqueueVars, apiVars, managerVars
<1>2. Carried' = Carried
  BY <1>1 DEF Carried, Messages
<1>3. QueueInv' /\ RequestInv'
  BY <1>1, <1>2 DEF CarryInv, QueueInv, RequestInv
<1> QED BY <1>1, <1>3, FrameHand, FrameJob, FrameEnqueue DEF CarryInv

LEMMA StepCarry == CarryInv /\ [Next]_vars => CarryInv'
BY StepRequest, StepQueue, StepWorker, StepRest DEF Next

LEMMA InitCarry == Init => CarryInv
<1>1. Init => RequestInv /\ HandInv /\ JobInv /\ EnqueueInv
  BY ServiceAssumption
     DEF Init, ManagerInit, RequestInv, HandInv, JobInv, EnqueueInv
<1>2. Init => QueueInv
  BY DEF Init, QueueInv
<1> QED BY <1>1, <1>2 DEF CarryInv

\* Whatever asks for a run, a request, a message or a visitor, carries the ID of
\* one that was added (api.go:127-187, visitor.go:104-116).
THEOREM CarriesAdded == Spec => []CarryInv
BY InitCarry, StepCarry, PTL DEF Spec

-----------------------------------------------------------------------------
(***************************************************************************)
(* Every step is one of the run manager, or none of its business.          *)
(***************************************************************************)
LEMMA StepManages ==
  ASSUME CarryInv, Next PROVE ManagerNext \/ UNCHANGED managerVars
<1> USE DEF CarryInv
<1>1. ASSUME NEW h \in Handlers, RequestStep(h) \/ Accept(h) PROVE ManagerNext \/ UNCHANGED managerVars
  <2>c. h \in Callers /\ Requested[h] \in RunIDs
    BY ServiceAssumption
  <2>1. CASE Accept(h)
    BY <2>c, <2>1 DEF Accept, ManagerNext
  <2>2. CASE Added(h)
    BY <2>c, <2>2 DEF Added, ManagerNext, ManagerStep
  <2>3. CASE StartPublish(h)
    BY <2>3 DEF StartPublish
  <2>4. CASE StartSaw(h)
    <3>1. SawURL(eurl[h][1], eurl[h][2]) /\ eurl[h][1] \in RunIDs /\ eurl[h][2] \in URLs
      BY <2>c, <2>4 DEF StartSaw, Saw, EnqueueInv, Carried, Messages
    <3> QED BY <3>1 DEF ManagerNext
  <2>5. CASE StartEnd(h)
    BY <2>c, <2>5 DEF StartEnd, ManagerNext
  <2> QED BY <1>1, <2>1, <2>2, <2>3, <2>4, <2>5 DEF RequestStep
<1>2. ASSUME NEW w \in Workers, ConsumeStep(w) \/ WorkerStep(w) PROVE ManagerNext \/ UNCHANGED managerVars
  <2>c. w \in Callers
    BY ServiceAssumption
  <2>1. CASE GetRun(w)
    <3>1. job[w][1] \in added
      BY <2>1 DEF GetRun, JobInv, Carried
    <3> QED BY <2>c, <2>1, <3>1 DEF GetRun, ManagerNext
  <2>2. CASE SawLink(w)
    <3>1. SawURL(eurl[w][1], eurl[w][2]) /\ eurl[w][1] \in RunIDs /\ eurl[w][2] \in URLs
      BY <2>c, <2>2 DEF SawLink, Saw, EnqueueInv, Carried, Messages
    <3> QED BY <3>1 DEF ManagerNext
  <2>3. CASE EndVisit(w)
    BY <2>c, <2>3 DEF EndVisit, ManagerNext
  <2>5. CASE Republish(w)
    BY <2>c, <2>5 DEF Republish, ManagerNext
  <2>4. CASE Take(w) \/ CloseChannels(w) \/ Receive(w) \/ ReceiveNil(w) \/ Leave(w) \/ NilRun(w) \/ FollowLink(w)
    BY <2>4 DEF Take, CloseChannels, Receive, ReceiveNil, Leave, NilRun, FollowLink
  <2> QED BY <1>2, <2>1, <2>2, <2>3, <2>4, <2>5 DEF ConsumeStep, WorkerStep
<1>3. ASSUME NEW r \in RunIDs, Age(r) PROVE ManagerNext
  BY <1>3 DEF Age, ManagerNext
<1>4. ASSUME PromoterStep \/ Interrupt \/ MainStep PROVE UNCHANGED managerVars
  BY <1>4 DEF PromoterStep, Promote, EndPromoting, Interrupt, MainStep, CloseDefault, CloseHost,
              ClosePool, StopServing, CloseAPI, Exit
<1> QED BY <1>1, <1>2, <1>3, <1>4 DEF Next

\* A process uses the manager as that expects: it asks only for runs that were
\* added, through messages that carry their IDs (runmanager.go:47-67,
\* visitor.go:113).
THEOREM UsesTheManager == Spec => ManagerSpec
<1>1. Init => ManagerInit
  BY DEF Init
<1>2. CarryInv /\ [Next]_vars => [ManagerNext]_managerVars
  BY StepManages DEF vars
<1> QED BY <1>1, <1>2, CarriesAdded, PTL DEF Spec, ManagerSpec

\* So what holds of it holds of the process, whatever its goroutines do: a run
\* is nil only if the expiry deleted it (runmanager.go:47-97).
THEOREM ProcessLosesNoRun == Spec => []NilOnlyIfDeleted
BY UsesTheManager, FoundUnlessDeleted, PTL

\* And no goroutine of it forgets that a URL of a live run was seen
\* (run.go:163-193).
THEOREM ProcessKeepsSeen == Spec => SeenKept
BY UsesTheManager, SeenIsKept

-----------------------------------------------------------------------------
(***************************************************************************)
(* Types, capacities, and who holds a message.                             *)
(***************************************************************************)
Capacities ==
    /\ Len(hqueue) <= BufferSize /\ Len(dqueue) <= BufferSize
    /\ {promoting, hclosed, dclosed, serving, cancelled, exited, panicked} \subseteq BOOLEAN
    /\ sent \in 0 .. MaxMessages
Holding ==
    /\ \A w \in Workers : cpc[w] = "send" <=> msg[w] # NoMessage
    /\ \A w \in Workers : wpc[w] = "process" <=> job[w] # NoMessage

LEMMA MessagesAreSome == \A m \in Messages : m # NoMessage
BY DEF Messages, NoMessage

LEMMA StepHolding == ASSUME CarryInv, Holding, [Next]_vars PROVE Holding'
<1> USE DEF CarryInv, HandInv, JobInv, Holding
<1>1. CASE UNCHANGED <<consumeVars, workVars>>
  BY <1>1 DEF consumeVars, workVars
<1>2. ASSUME NEW w \in Workers, Take(w) PROVE Holding'
  <2>1. Head(dqueue) \in Messages
    <3>1. Head(dqueue) \in Carried
      BY <1>2 DEF Take, QueueInv
    <3> QED BY <3>1 DEF Carried
  <2> QED BY <1>2, <2>1, MessagesAreSome DEF Take, Waits, workVars
<1>3. ASSUME NEW w \in Workers,
             CloseChannels(w) \/ Receive(w) \/ Leave(w) \/ EndVisit(w) \/ Republish(w)
      PROVE  Holding'
  BY <1>3 DEF CloseChannels, Receive, Leave, EndVisit, Republish, workVars, consumeVars
<1> QED BY <1>1, <1>2, <1>3
        DEF Next, vars, RequestStep, Accept, Added, StartPublish, StartSaw, StartEnd, PromoterStep, Promote,
            EndPromoting, ConsumeStep, WorkerStep, ReceiveNil, GetRun, NilRun, FollowLink, SawLink,
            Interrupt, MainStep, CloseDefault, CloseHost, ClosePool, StopServing, CloseAPI, Exit, Age

LEMMA StepCapacities == ASSUME CarryInv, Capacities, [Next]_vars PROVE Capacities'
<1> USE DEF Capacities, processVars
<1>0. hqueue \in Seq(Carried) /\ dqueue \in Seq(Carried)
  BY DEF CarryInv, QueueInv
<1>1. ASSUME \/ \E e \in Callers, u \in URLs : Publish(e, u)
             \/ \E w \in Workers : Republish(w),
             UNCHANGED <<promoting, serving>>
      PROVE  Capacities'
  <2>1. CASE hclosed
    BY <1>1, <2>1 DEF Publish, Republish, Panic, queueVars
  <2>2. CASE ~hclosed
    <3>1. /\ hqueue' = hqueue \/ (Len(hqueue) < BufferSize /\ \E m : hqueue' = Append(hqueue, m))
          /\ sent < MaxMessages /\ sent' = sent + 1
          /\ UNCHANGED <<dqueue, hclosed, dclosed, processVars>>
      BY <1>1, <2>2 DEF Publish, Republish, Put, Room
    <3>2. Len(hqueue') <= BufferSize
      <4>1. ASSUME NEW m, Len(hqueue) < BufferSize, hqueue' = Append(hqueue, m) PROVE Len(hqueue') <= BufferSize
        BY <1>0, <4>1, ServiceAssumption
      <4> QED BY <3>1, <4>1
    <3> QED BY <1>1, <3>1, <3>2, ServiceAssumption
  <2> QED BY <2>1, <2>2
<1>2. ASSUME Promote PROVE Capacities'
  <2>1. CASE dclosed
    BY <1>2, <2>1 DEF Promote, Panic, apiVars
  <2>2. CASE ~dclosed
    <3>1. Len(hqueue') <= BufferSize
      BY <1>0, <1>2, <2>2, ServiceAssumption DEF Promote
    <3>2. Len(dqueue') <= BufferSize
      <4>1. dqueue' = dqueue \/ (Len(dqueue) < BufferSize /\ dqueue' = Append(dqueue, Head(hqueue)))
        BY <1>2, <2>2 DEF Promote, Put, Room
      <4>2. dqueue' = Append(dqueue, Head(hqueue)) => Len(dqueue') = Len(dqueue) + 1
        BY <1>0
      <4> QED BY <1>0, <4>1, <4>2, ServiceAssumption
    <3> QED BY <1>2, <2>2, <3>1, <3>2 DEF Promote, apiVars
  <2> QED BY <2>1, <2>2
<1>3. ASSUME NEW w \in Workers, Take(w) PROVE Capacities'
  <2>1. Len(dqueue') <= BufferSize
    BY <1>0, <1>3, ServiceAssumption DEF Take
  <2> QED BY <1>3, <2>1 DEF Take, apiVars
<1>4. CASE UNCHANGED <<hqueue, dqueue, sent, promoting, hclosed, dclosed, serving, cancelled, exited, panicked>>
  BY <1>4
<1>5. ASSUME NEW h \in Handlers, RequestStep(h) \/ Accept(h) PROVE Capacities'
  <2>1. CASE StartPublish(h)
    BY <1>1, <2>1, ServiceAssumption DEF StartPublish, apiVars
  <2>2. CASE Accept(h) \/ Added(h) \/ StartSaw(h) \/ StartEnd(h)
    BY <1>4, <2>2 DEF Accept, Added, StartSaw, StartEnd, queueVars, apiVars
  <2> QED BY <1>5, <2>1, <2>2 DEF RequestStep
<1>6. ASSUME NEW w \in Workers, ConsumeStep(w) \/ WorkerStep(w) PROVE Capacities'
  <2>1. CASE FollowLink(w)
    BY <1>1, <2>1, ServiceAssumption DEF FollowLink, apiVars
  <2>2. CASE CloseChannels(w) \/ Receive(w) \/ Leave(w) \/ GetRun(w) \/ SawLink(w) \/ EndVisit(w)
    BY <1>4, <2>2 DEF CloseChannels, Receive, Leave, GetRun, SawLink, EndVisit, queueVars, apiVars
  <2>3. CASE ReceiveNil(w) \/ NilRun(w)
    BY <2>3 DEF ReceiveNil, NilRun, Panic, queueVars, apiVars
  <2>4. CASE Republish(w)
    BY <1>1, <2>4 DEF Republish, apiVars
  <2> QED BY <1>3, <1>6, <2>1, <2>2, <2>3, <2>4 DEF ConsumeStep, WorkerStep
<1>7. CASE EndPromoting \/ Interrupt \/ MainStep \/ \E r \in RunIDs : Age(r)
  BY <1>7 DEF EndPromoting, Interrupt, MainStep, CloseDefault, CloseHost, ClosePool, StopServing, CloseAPI,
              Exit, Age, queueVars, apiVars
<1>8. CASE UNCHANGED vars
  BY <1>4, <1>8 DEF vars, queueVars, apiVars
<1> QED BY <1>2, <1>5, <1>6, <1>7, <1>8 DEF Next, PromoterStep

\* Every variable keeps its type, no channel exceeds its capacity, and a
\* message is with whoever has taken it.
THEOREM ServiceTypeCorrect == Spec => []TypeOK
<1>1. Init => Holding /\ Capacities
  <2> SUFFICES ASSUME Init PROVE Holding /\ Capacities
    OBVIOUS
  <2>1. Holding
    BY DEF Init, Holding
  <2>2. Len(hqueue) = 0 /\ Len(dqueue) = 0
    BY DEF Init
  <2>3. {promoting, hclosed, dclosed, serving, cancelled, exited, panicked} \subseteq BOOLEAN
    BY Zenon DEF Init
  <2>4. sent = 0
    BY DEF Init
  <2>5. Capacities
    BY <2>2, <2>3, <2>4, ServiceAssumption DEF Capacities
  <2> QED BY <2>1, <2>5
<1>2. CarryInv /\ Holding /\ Capacities /\ [Next]_vars => Holding' /\ Capacities'
  BY StepHolding, StepCapacities
<1>3. ManagerTypeOK /\ CarryInv /\ Holding /\ Capacities => TypeOK
  <2> SUFFICES ASSUME ManagerTypeOK, CarryInv, Holding, Capacities PROVE TypeOK
    OBVIOUS
  <2>1. hqueue \in Seq(Messages) /\ dqueue \in Seq(Messages)
    BY SeqGrows DEF CarryInv, QueueInv, Carried
  <2> QED BY <2>1 DEF TypeOK, CarryInv, RequestInv, HandInv, JobInv, EnqueueInv, Holding, Capacities
<1> QED BY <1>1, <1>2, <1>3, CarriesAdded, UsesTheManager, ManagerTypes, PTL DEF Spec
=============================================================================
