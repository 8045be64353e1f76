----------------------------- MODULE Optimizer -----------------------------
(***************************************************************************)
(* How the rate limit of one host follows what the visitors see of it:     *)
(* src/internal/ctrlq/optimizer.go, and TakeRateLimitHeaders and           *)
(* TakeSample of memory.go, which read the limit, compute and set it       *)
(* without holding a lock in between.                                      *)
(*                                                                         *)
(* Rates are in thousandths of a request per second and latencies in       *)
(* milliseconds, where the code's floating point formulas are exact.       *)
(***************************************************************************)
EXTENDS Integers

CONSTANTS
    Visitors,       \* Workers visiting the host.
    Announced,      \* Values of X-RateLimit-Limit, requests per hour.
    NoHeader,       \* A response without that header.
    Latencies       \* Milliseconds a response took; 0 when not measured.

ASSUME OptimizerAssumption ==
    Announced \subseteq Int /\ NoHeader \notin Int /\ Latencies \subseteq Nat

VARIABLES
    limit,          \* The limiter's current limit.
    pc,             \* Visitor -> where it is in reporting a response.
    resp,           \* Visitor -> the response.
    desired,        \* Visitor -> the limit it has computed.
    alone           \* History: visitor -> nobody else set a limit since it responded.

vars == <<limit, pc, resp, desired, alone>>

MinHostRPS == 1000
MaxHostRPS == 50000
Whole(r) == r \div 1000                     \* int(rate)

Larger(a, b) == IF a < b THEN b ELSE a
Smaller(a, b) == IF a < b THEN a ELSE b

\* "busy" is a 429 or a 503, "error" a 500 or a deadline that was exceeded,
\* "other" any other outcome.
Outcomes == {"busy", "error", "other"}
Responses == [header : Announced \cup {NoHeader}, outcome : Outcomes, latency : Latencies]

\* newRateLimitByHeaders.
PerHour(h) == 1000 * (h \div 3600)
ByHeaderPerMinute(h) == Larger(1000 * (h \div 60), MinHostRPS)
ByHeader(h) == Larger(PerHour(h), MinHostRPS)

\* newRateLimitByLatency: half of a bad host's rate, or the point between
\* the bounds that the latency, at most a second, marks.
HalveUncapped(cur) == cur \div 2
HalveMaximum(cur) == MaxHostRPS \div 2
Halve(cur) == Larger(cur \div 2, MinHostRPS)

Uncapped(ms) == ms
Capped(ms) == Smaller(1000, ms)
Interpolate(ms) == (MaxHostRPS * (1000 - Capped(ms)) + MinHostRPS * Capped(ms)) \div 1000

ByLatency(cur, r) == IF r.outcome = "error" THEN Halve(cur) ELSE Interpolate(r.latency)

NeverIgnored(r) == FALSE
Ignored(r) == r.outcome = "busy" \/ (r.outcome = "other" /\ r.latency = 0)

NoResponse == [header |-> NoHeader, outcome |-> "other", latency |-> 0]

Init ==
    /\ limit = MinHostRPS
    /\ pc = [v \in Visitors |-> "idle"]
    /\ resp = [v \in Visitors |-> NoResponse]
    /\ desired = [v \in Visitors |-> MinHostRPS]
    /\ alone = [v \in Visitors |-> TRUE]

\* A visit ends.  Without a response there are no headers to look at.
Respond(v, r) ==
    /\ pc[v] = "idle"
    /\ resp' = [resp EXCEPT ![v] = r]
    /\ pc' = [pc EXCEPT ![v] = IF r.header = NoHeader THEN "sample" ELSE "headers"]
    /\ alone' = [alone EXCEPT ![v] = TRUE]
    /\ UNCHANGED <<limit, desired>>

\* The response is of no further use to a visitor that is through with it.
Proceed(v, to) ==
    /\ pc' = [pc EXCEPT ![v] = to]
    /\ resp' = IF to = "idle" THEN [resp EXCEPT ![v] = NoResponse] ELSE resp

\* GetLimit and the computation; a change below one request per second is
\* no change.
Compute(v, d, onChange, otherwise) ==
    /\ UNCHANGED <<limit, alone>>
    /\ \/ /\ Whole(d) # Whole(limit)
          /\ desired' = [desired EXCEPT ![v] = d]
          /\ pc' = [pc EXCEPT ![v] = onChange]
          /\ UNCHANGED resp
       \/ /\ Whole(d) = Whole(limit)
          /\ UNCHANGED desired
          /\ Proceed(v, otherwise)

TakeRateLimitHeaders(v) ==
    /\ pc[v] = "headers"
    /\ Compute(v, ByHeader(resp[v].header), "setByHeaders", "sample")

TakeSample(v) ==
    /\ pc[v] = "sample" /\ ~Ignored(resp[v])
    /\ Compute(v, ByLatency(limit, resp[v]), "setByLatency", "idle")

IgnoreSample(v) ==
    /\ pc[v] = "sample" /\ Ignored(resp[v])
    /\ Proceed(v, "idle")
    /\ UNCHANGED <<limit, desired, alone>>

SetLimit(v, from, to) ==
    /\ pc[v] = from
    /\ limit' = desired[v]
    /\ Proceed(v, to)
    /\ desired' = [desired EXCEPT ![v] = MinHostRPS]
    /\ alone' = [w \in Visitors |-> w = v /\ alone[v]]

SetByHeaders(v) == SetLimit(v, "setByHeaders", "sample")
SetByLatency(v) == SetLimit(v, "setByLatency", "idle")

Next == \E v \in Visitors :
    \/ \E r \in Responses : Respond(v, r)
    \/ TakeRateLimitHeaders(v) \/ SetByHeaders(v)
    \/ TakeSample(v) \/ IgnoreSample(v) \/ SetByLatency(v)

Spec == Init /\ [][Next]_vars

-----------------------------------------------------------------------------
\* Every variable has its type.
TypeOK ==
    /\ limit \in Nat
    /\ pc \in [Visitors -> {"idle", "headers", "setByHeaders", "sample", "setByLatency"}]
    /\ resp \in [Visitors -> Responses \cup {NoResponse}]
    /\ desired \in [Visitors -> Nat]
    /\ alone \in [Visitors -> BOOLEAN]
    /\ \A v \in Visitors : pc[v] \in {"headers", "setByHeaders"} => resp[v].header \in Announced

\* No interleaving of visitors takes a host below the minimum the constants
\* promise (optimizer.go:20-22), whatever the host announces.
AtLeastMin == limit >= MinHostRPS

\* Nor above the maximum (optimizer.go:24-26), unless the host announces
\* more: what it announces is not capped, but nothing exceeds both, also when
\* a limit is computed from one that was replaced meanwhile.
AtMostMax(r) == r <= MaxHostRPS \/ \E h \in Announced : r <= PerHour(h)
Bounded == AtMostMax(limit) /\ \A v \in Visitors : AtMostMax(desired[v])

\* "The server is starting to behave badly. We should slow down."
\* (optimizer.go:60-61): a sample of an error never speeds a host up, unless
\* another visitor set the limit since: half of a limit that another has
\* lowered meanwhile may be more than the one it replaces.
ErrorSlowsDown ==
    [][\A v \in Visitors : pc[v] = "setByLatency" /\ resp[v].outcome = "error" /\ alone[v]
            => limit' <= limit \/ pc'[v] = "setByLatency"]_vars

\* On a 429 or 503 the limit is left to what the headers said
\* (optimizer.go:50-52): when the visitor is through with such a response the
\* host has the rate it announced, unless another visitor set it since.
BusyHostGetsAnnouncedRate ==
    [][\A v \in Visitors :
         pc[v] # "idle" /\ pc'[v] = "idle" /\ alone[v]
           /\ resp[v].outcome = "busy" /\ resp[v].header # NoHeader
             => Whole(limit') = Whole(ByHeader(resp[v].header))]_vars
=============================================================================
