--------------------------- MODULE Optimizer_proofs ---------------------------
(***************************************************************************)
(* Proofs about Optimizer, for any number of visitors and any headers.     *)
(***************************************************************************)
EXTENDS Optimizer, TLAPS

\* The limit and every limit on its way to the limiter are at least the minimum.
Floor == /\ MinHostRPS <= limit
         /\ \A v \in Visitors : MinHostRPS <= desired[v]

\* A rate by headers is at least the minimum, whatever the header says, and
\* at most the maximum or what the host announces.
LEMMA HeaderBounds ==
    ASSUME NEW h \in Announced
    PROVE  ByHeader(h) \in Nat /\ MinHostRPS <= ByHeader(h) /\ AtMostMax(ByHeader(h))
<1>1. PerHour(h) \in Int
  BY OptimizerAssumption DEF PerHour
<1>2. CASE ByHeader(h) = PerHour(h) /\ MinHostRPS <= PerHour(h)
  BY <1>1, <1>2 DEF AtMostMax, MinHostRPS
<1>3. CASE ByHeader(h) = MinHostRPS
  BY <1>3 DEF AtMostMax, MinHostRPS, MaxHostRPS
<1> QED
  BY <1>1, <1>2, <1>3 DEF ByHeader, Larger, MinHostRPS

\* Any latency marks a rate between the bounds.
LEMMA InterpolateBounds ==
    ASSUME NEW ms \in Nat
    PROVE  /\ Interpolate(ms) \in Nat
           /\ MinHostRPS <= Interpolate(ms) /\ Interpolate(ms) <= MaxHostRPS
<1>1. Capped(ms) \in 0 .. 1000
  BY DEF Capped, Smaller
<1>2. \A c \in 0 .. 1000 : LET n == 50000 * (1000 - c) + 1000 * c
                           IN n \in Int /\ 1000000 <= n /\ n <= 50000000
  OBVIOUS
<1>3. \A n \in Int : 1000000 <= n /\ n <= 50000000
                       => n \div 1000 \in Nat /\ 1000 <= n \div 1000 /\ n \div 1000 <= 50000
  OBVIOUS
<1> QED
  BY <1>1, <1>2, <1>3 DEF Interpolate, MinHostRPS, MaxHostRPS

\* A rate by latency is at least the minimum, and within the bounds above if
\* the current one is.
LEMMA LatencyBounds ==
    ASSUME NEW cur \in Nat, NEW r \in Responses
    PROVE  /\ ByLatency(cur, r) \in Nat
           /\ MinHostRPS <= ByLatency(cur, r)
           /\ AtMostMax(cur) => AtMostMax(ByLatency(cur, r))
<1>1. r.latency \in Nat
  BY OptimizerAssumption DEF Responses
<1>2. Interpolate(r.latency) \in Nat /\ MinHostRPS <= Interpolate(r.latency)
      /\ AtMostMax(Interpolate(r.latency))
  BY <1>1, InterpolateBounds DEF AtMostMax
<1>3. /\ Halve(cur) \in Nat /\ MinHostRPS <= Halve(cur)
      /\ Halve(cur) <= cur \/ Halve(cur) = MinHostRPS
  BY DEF Halve, Larger, MinHostRPS
<1>4. AtMostMax(cur) => AtMostMax(Halve(cur))
  <2>1. \A h \in Announced : PerHour(h) \in Int
    BY OptimizerAssumption DEF PerHour
  <2> QED
    BY <1>3, <2>1 DEF AtMostMax, MinHostRPS, MaxHostRPS
<1> QED
  BY <1>2, <1>3, <1>4 DEF ByLatency

LEMMA FloorInit == Init => TypeOK /\ Floor
BY DEF Init, TypeOK, Floor, MinHostRPS

\* What a step of a visitor that sets no limit, and of one that does, leaves
\* as it was.
LEMMA ProceedFrame ==
    ASSUME TypeOK, NEW v \in Visitors,
           NEW to \in {"idle", "headers", "setByHeaders", "sample", "setByLatency"},
           to \notin {"headers", "setByHeaders"}, Proceed(v, to)
    PROVE  /\ pc' \in [Visitors -> {"idle", "headers", "setByHeaders", "sample", "setByLatency"}]
           /\ resp' \in [Visitors -> Responses \cup {NoResponse}]
           /\ \A w \in Visitors : pc'[w] \in {"headers", "setByHeaders"}
                  => resp'[w].header \in Announced
BY DEF TypeOK, Proceed

LEMMA ComputeStep ==
    ASSUME TypeOK, Floor, NEW v \in Visitors, NEW d \in Nat, MinHostRPS <= d,
           NEW onChange \in {"setByHeaders", "setByLatency"},
           NEW otherwise \in {"sample", "idle"},
           onChange = "setByHeaders" => resp[v].header \in Announced,
           Compute(v, d, onChange, otherwise)
    PROVE  TypeOK' /\ Floor'
<1>1. CASE Whole(d) # Whole(limit)
  BY <1>1 DEF TypeOK, Floor, Compute
<1>2. CASE Whole(d) = Whole(limit)
  BY <1>2, ProceedFrame DEF TypeOK, Floor, Compute
<1> QED BY <1>1, <1>2

LEMMA SampleHasResponse ==
    ASSUME TypeOK, NEW v \in Visitors, TakeSample(v)
    PROVE  limit \in Nat /\ resp[v] \in Responses
BY DEF TypeOK, TakeSample, Ignored, NoResponse

LEMMA FloorStep == TypeOK /\ Floor /\ [Next]_vars => TypeOK' /\ Floor'
<1> SUFFICES ASSUME TypeOK, Floor, [Next]_vars PROVE TypeOK' /\ Floor'
  OBVIOUS
<1>1. ASSUME NEW v \in Visitors, NEW r \in Responses, Respond(v, r)
      PROVE  TypeOK' /\ Floor'
  <2>1. r.header # NoHeader => r.header \in Announced
    BY DEF Responses
  <2> QED
    BY <1>1, <2>1 DEF TypeOK, Floor, Respond
<1>2. ASSUME NEW v \in Visitors, TakeRateLimitHeaders(v)
      PROVE  TypeOK' /\ Floor'
  <2>1. resp[v].header \in Announced
    BY <1>2 DEF TypeOK, TakeRateLimitHeaders
  <2> QED
    BY <1>2, <2>1, HeaderBounds, ComputeStep DEF TakeRateLimitHeaders
<1>3. ASSUME NEW v \in Visitors, TakeSample(v)
      PROVE  TypeOK' /\ Floor'
  BY <1>3, SampleHasResponse, LatencyBounds, ComputeStep DEF TakeSample
<1>4. ASSUME NEW v \in Visitors, IgnoreSample(v)
      PROVE  TypeOK' /\ Floor'
  BY <1>4, ProceedFrame DEF TypeOK, Floor, IgnoreSample
<1>5. ASSUME NEW v \in Visitors, SetByHeaders(v) \/ SetByLatency(v)
      PROVE  TypeOK' /\ Floor'
  <2>1. PICK to \in {"sample", "idle"} : /\ Proceed(v, to) /\ limit' = desired[v]
                                         /\ desired' = [desired EXCEPT ![v] = MinHostRPS]
                                         /\ alone' = [w \in Visitors |-> w = v /\ alone[v]]
    BY <1>5 DEF SetByHeaders, SetByLatency, SetLimit
  <2>2. MinHostRPS \in Nat
    BY DEF MinHostRPS
  <2> QED
    BY <2>1, <2>2, ProceedFrame DEF TypeOK, Floor
<1>6. CASE UNCHANGED vars
  BY <1>6 DEF vars, TypeOK, Floor
<1> QED
  BY <1>1, <1>2, <1>3, <1>4, <1>5, <1>6 DEF Next

\* Every variable keeps its type, whatever visitors see and however their
\* steps interleave.
THEOREM TypeCorrect == Spec => []TypeOK
<1> QED BY FloorInit, FloorStep, PTL DEF Spec

\* No interleaving of visitors and no header takes a host's limit below
\* MinHostRPS (optimizer.go:20-22).
THEOREM NeverBelowMin == Spec => []AtLeastMin
<1>1. Floor => AtLeastMin
  BY DEF Floor, AtLeastMin
<1> QED BY <1>1, FloorInit, FloorStep, PTL DEF Spec

\* No interleaving takes a limit above both MaxHostRPS and what the host
\* announces (optimizer.go:24-26).
THEOREM WithinBounds == Spec => []Bounded
<1>1. Init => Bounded
  BY DEF Init, Bounded, AtMostMax, MinHostRPS, MaxHostRPS
<1>2. TypeOK /\ Bounded /\ [Next]_vars => Bounded'
  <2> SUFFICES ASSUME TypeOK, Bounded, [Next]_vars PROVE Bounded'
    OBVIOUS
  <2>1. ASSUME NEW v \in Visitors, NEW d, AtMostMax(d), limit' = limit,
               desired' = [desired EXCEPT ![v] = d] \/ desired' = desired
        PROVE  Bounded'
    BY <2>1 DEF TypeOK, Bounded, AtMostMax
  <2>2. ASSUME NEW v \in Visitors, TakeRateLimitHeaders(v) PROVE Bounded'
    <3>1. resp[v].header \in Announced
      BY <2>2 DEF TypeOK, TakeRateLimitHeaders
    <3> QED
      BY <2>1, <2>2, <3>1, HeaderBounds DEF TakeRateLimitHeaders, Compute
  <2>3. ASSUME NEW v \in Visitors, TakeSample(v) PROVE Bounded'
    <3>1. AtMostMax(ByLatency(limit, resp[v]))
      BY <2>3, SampleHasResponse, LatencyBounds DEF Bounded
    <3> QED
      BY <2>1, <2>3, <3>1 DEF TakeSample, Compute
  <2>4. ASSUME NEW v \in Visitors, SetByHeaders(v) \/ SetByLatency(v) PROVE Bounded'
    BY <2>4 DEF TypeOK, Bounded, AtMostMax, SetByHeaders, SetByLatency, SetLimit,
                MinHostRPS, MaxHostRPS
  <2>5. ASSUME NEW v \in Visitors,
               IgnoreSample(v) \/ \E r \in Responses : Respond(v, r)
        PROVE  Bounded'
    BY <2>5 DEF Bounded, AtMostMax, IgnoreSample, Respond
  <2>6. CASE UNCHANGED vars
    BY <2>6 DEF vars, Bounded, AtMostMax
  <2> QED
    BY <2>2, <2>3, <2>4, <2>5, <2>6 DEF Next
<1> QED
  BY <1>1, <1>2, FloorInit, FloorStep, PTL DEF Spec
-----------------------------------------------------------------------------
(***************************************************************************)
(* What a visitor does about one response, as long as nobody else has set  *)
(* the limit since.                                                        *)
(***************************************************************************)
HasAnnounced(v) == resp[v].outcome = "busy" /\ resp[v].header # NoHeader

\* A limit computed from a bad sample is no more than the limit; one computed
\* from a header is that header's, and so is the limit once it is set; a busy
\* host's sample is ignored.
AloneInv ==
    \A v \in Visitors :
        /\ pc[v] = "setByLatency" /\ resp[v].outcome = "error" /\ alone[v]
               => desired[v] <= limit
        /\ pc[v] = "setByHeaders" => desired[v] = ByHeader(resp[v].header)
        /\ pc[v] = "sample" /\ alone[v] /\ HasAnnounced(v)
               => Whole(limit) = Whole(ByHeader(resp[v].header))
        /\ pc[v] = "setByLatency" => resp[v].outcome # "busy"

\* A step of a visitor that leaves the limit alone concerns nobody else.
LEMMA OthersUndisturbed ==
    ASSUME TypeOK, AloneInv, NEW v \in Visitors, NEW w \in Visitors, w # v,
           UNCHANGED limit, pc'[w] = pc[w], resp'[w] = resp[w],
           desired'[w] = desired[w], alone'[w] = alone[w]
    PROVE  /\ pc'[w] = "setByLatency" /\ resp'[w].outcome = "error" /\ alone'[w]
                  => desired'[w] <= limit'
           /\ pc'[w] = "setByHeaders" => desired'[w] = ByHeader(resp'[w].header)
           /\ pc'[w] = "sample" /\ alone'[w] /\ HasAnnounced(w)'
                  => Whole(limit') = Whole(ByHeader(resp'[w].header))
           /\ pc'[w] = "setByLatency" => resp'[w].outcome # "busy"
BY DEF AloneInv, HasAnnounced

LEMMA AloneStep == TypeOK /\ Floor /\ AloneInv /\ [Next]_vars => AloneInv'
<1> SUFFICES ASSUME TypeOK, Floor, AloneInv, [Next]_vars PROVE AloneInv'
  OBVIOUS
<1>1. ASSUME NEW v \in Visitors, NEW r \in Responses, Respond(v, r)
      PROVE  AloneInv'
  <2>1. \A w \in Visitors \ {v} : /\ pc'[w] = pc[w] /\ resp'[w] = resp[w]
                                  /\ desired'[w] = desired[w] /\ alone'[w] = alone[w]
    BY <1>1 DEF Respond, TypeOK
  <2>2. pc'[v] \in {"sample", "headers"} /\ resp'[v] = r
        /\ (pc'[v] = "sample" => r.header = NoHeader)
    BY <1>1 DEF Respond, TypeOK
  <2>3. UNCHANGED limit
    BY <1>1 DEF Respond
  <2> QED BY <2>1, <2>2, <2>3, OthersUndisturbed DEF AloneInv, HasAnnounced
<1>2. ASSUME NEW v \in Visitors, TakeRateLimitHeaders(v)
      PROVE  AloneInv'
  <2> DEFINE d == ByHeader(resp[v].header)
  <2>1. \A w \in Visitors \ {v} : /\ pc'[w] = pc[w] /\ resp'[w] = resp[w]
                                  /\ desired'[w] = desired[w] /\ alone'[w] = alone[w]
    BY <1>2 DEF TakeRateLimitHeaders, Compute, Proceed, TypeOK
  <2>2. /\ UNCHANGED limit
        /\ resp'[v] = resp[v]
        /\ \/ pc'[v] = "setByHeaders" /\ desired'[v] = d
           \/ pc'[v] = "sample" /\ Whole(d) = Whole(limit)
    BY <1>2 DEF TakeRateLimitHeaders, Compute, Proceed, TypeOK
  <2> QED BY <2>1, <2>2, OthersUndisturbed DEF AloneInv, HasAnnounced
<1>3. ASSUME NEW v \in Visitors, TakeSample(v)
      PROVE  AloneInv'
  <2>1. \A w \in Visitors \ {v} : /\ pc'[w] = pc[w] /\ resp'[w] = resp[w]
                                  /\ desired'[w] = desired[w] /\ alone'[w] = alone[w]
    BY <1>3 DEF TakeSample, Compute, Proceed, TypeOK
  <2>2. /\ UNCHANGED limit
        /\ \/ /\ pc'[v] = "setByLatency" /\ resp'[v] = resp[v]
              /\ desired'[v] = ByLatency(limit, resp[v])
           \/ pc'[v] = "idle"
    BY <1>3 DEF TakeSample, Compute, Proceed, TypeOK
  <2>3. resp[v].outcome # "busy"
    BY <1>3 DEF TakeSample, Ignored
  <2>4. resp[v].outcome = "error" => ByLatency(limit, resp[v]) <= limit
    <3>1. Halve(limit) <= limit
      BY DEF Halve, Larger, Floor, TypeOK, MinHostRPS
    <3> QED BY <3>1 DEF ByLatency
  <2> QED BY <2>1, <2>2, <2>3, <2>4, OthersUndisturbed DEF AloneInv, HasAnnounced
<1>4. ASSUME NEW v \in Visitors, IgnoreSample(v)
      PROVE  AloneInv'
  <2>1. \A w \in Visitors \ {v} : /\ pc'[w] = pc[w] /\ resp'[w] = resp[w]
                                  /\ desired'[w] = desired[w] /\ alone'[w] = alone[w]
    BY <1>4 DEF IgnoreSample, Proceed, TypeOK
  <2>2. pc'[v] = "idle" /\ UNCHANGED limit
    BY <1>4 DEF IgnoreSample, Proceed, TypeOK
  <2> QED BY <2>1, <2>2, OthersUndisturbed DEF AloneInv
<1>5. ASSUME NEW v \in Visitors, SetByHeaders(v) \/ SetByLatency(v)
      PROVE  AloneInv'
  <2>1. \A w \in Visitors \ {v} : /\ pc'[w] = pc[w] /\ resp'[w] = resp[w]
                                  /\ desired'[w] = desired[w] /\ ~alone'[w]
    BY <1>5 DEF SetByHeaders, SetByLatency, SetLimit, Proceed, TypeOK
  <2>2. /\ limit' = desired[v]
        /\ \/ pc[v] = "setByHeaders" /\ pc'[v] = "sample" /\ resp'[v] = resp[v]
           \/ pc'[v] = "idle"
    BY <1>5 DEF SetByHeaders, SetByLatency, SetLimit, Proceed, TypeOK
  <2> QED BY <2>1, <2>2 DEF AloneInv, HasAnnounced
<1>6. CASE UNCHANGED vars
  BY <1>6 DEF vars, AloneInv, HasAnnounced
<1> QED
  BY <1>1, <1>2, <1>3, <1>4, <1>5, <1>6 DEF Next

LEMMA AloneInit == Init => AloneInv
BY DEF Init, AloneInv, HasAnnounced

\* Only its own step takes a visitor on, and only a step that sets the limit
\* changes it.
LEMMA WhoSets ==
    ASSUME TypeOK, [Next]_vars, NEW v \in Visitors, pc'[v] # pc[v]
    PROVE  \/ \E r \in Responses : Respond(v, r)
           \/ TakeRateLimitHeaders(v) \/ SetByHeaders(v)
           \/ TakeSample(v) \/ IgnoreSample(v) \/ SetByLatency(v)
<1>1. PICK w \in Visitors :
        \/ \E r \in Responses : Respond(w, r)
        \/ TakeRateLimitHeaders(w) \/ SetByHeaders(w)
        \/ TakeSample(w) \/ IgnoreSample(w) \/ SetByLatency(w)
  BY DEF Next, vars
<1>2. w # v => pc'[v] = pc[v]
  BY <1>1 DEF TypeOK, Respond, TakeRateLimitHeaders, TakeSample, Compute, IgnoreSample,
              SetByHeaders, SetByLatency, SetLimit, Proceed
<1> QED BY <1>1, <1>2

\* A sample of an error never speeds a host up, for any number of visitors, as
\* long as no other visitor set the limit since (optimizer.go:60-61).
THEOREM ErrorsSlowDown == Spec => ErrorSlowsDown
<1> DEFINE Slows(v) == pc[v] = "setByLatency" /\ resp[v].outcome = "error" /\ alone[v]
                          => limit' <= limit \/ pc'[v] = "setByLatency"
<1>1. ASSUME TypeOK, AloneInv, [Next]_vars, NEW v \in Visitors PROVE Slows(v)
  <2> SUFFICES ASSUME pc[v] = "setByLatency", resp[v].outcome = "error", alone[v],
                      pc'[v] # "setByLatency"
               PROVE  limit' <= limit
    OBVIOUS
  <2>1. SetByLatency(v)
    BY <1>1, WhoSets DEF Respond, TakeRateLimitHeaders, SetByHeaders, SetLimit, TakeSample, IgnoreSample
  <2> QED BY <1>1, <2>1 DEF AloneInv, SetByLatency, SetLimit
<1>2. TypeOK /\ AloneInv /\ [Next]_vars => [\A v \in Visitors : Slows(v)]_vars
  BY <1>1
<1> HIDE DEF Slows
<1>3. Spec => [][\A v \in Visitors : Slows(v)]_vars
  BY <1>2, FloorInit, FloorStep, AloneInit, AloneStep, PTL DEF Spec
<1> QED BY <1>3 DEF ErrorSlowsDown, Slows

\* A host that answers 429 or 503 with a header has the rate it announced when
\* its visitor is through, unless another set it since (optimizer.go:50-52).
THEOREM BusyHostsSetTheirRate == Spec => BusyHostGetsAnnouncedRate
<1> DEFINE Gets(v) == pc[v] # "idle" /\ pc'[v] = "idle" /\ alone[v]
                        /\ resp[v].outcome = "busy" /\ resp[v].header # NoHeader
                          => Whole(limit') = Whole(ByHeader(resp[v].header))
<1>1. ASSUME TypeOK, AloneInv, [Next]_vars, NEW v \in Visitors PROVE Gets(v)
  <2> SUFFICES ASSUME pc[v] # "idle", pc'[v] = "idle", alone[v], HasAnnounced(v)
               PROVE  Whole(limit') = Whole(ByHeader(resp[v].header))
    BY DEF HasAnnounced
  <2>1. IgnoreSample(v)
    <3>1. ~TakeSample(v)
      BY DEF TakeSample, Ignored, HasAnnounced
    <3>2. ~SetByLatency(v)
      BY <1>1 DEF SetByLatency, SetLimit, AloneInv, HasAnnounced
    <3>3. ~TakeRateLimitHeaders(v) /\ ~SetByHeaders(v)
      BY <1>1 DEF TakeRateLimitHeaders, SetByHeaders, SetLimit, Compute, Proceed, TypeOK
    <3>4. \A r \in Responses : ~Respond(v, r)
      BY DEF Respond
    <3> QED BY <1>1, <3>1, <3>2, <3>3, <3>4, WhoSets
  <2> QED BY <1>1, <2>1 DEF IgnoreSample, AloneInv
<1>2. TypeOK /\ AloneInv /\ [Next]_vars => [\A v \in Visitors : Gets(v)]_vars
  BY <1>1
<1> HIDE DEF Gets
<1>3. Spec => [][\A v \in Visitors : Gets(v)]_vars
  BY <1>2, FloorInit, FloorStep, AloneInit, AloneStep, PTL DEF Spec
<1> QED BY <1>3 DEF BusyHostGetsAnnouncedRate, Gets
=============================================================================
