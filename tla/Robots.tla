------------------------------- MODULE Robots -------------------------------
(***************************************************************************)
(* The cache of robots.txt files that all runs share (src/robots.go), its  *)
(* keys (src/host.go) and the retrying client that fills it                *)
(* (src/httpclient.go:70-89).  Any number of goroutines ask for a host's   *)
(* rules at once, each fetches the file for itself if it is missing.       *)
(*                                                                         *)
(* Parsing is the library's: what matters of a response is which rules     *)
(* come of it.  Below the client, unless SkipCache is set, is a cache of   *)
(* HTTP responses that does not tell credentials apart                     *)
(* (src/httpclient.go:103-120).                                            *)
(***************************************************************************)
EXTENDS Naturals, FiniteSets

CONSTANTS
    Workers,            \* Goroutines that use Robots.
    Runs,
    Hosts,
    Private,            \* Pairs of a run and a host it has credentials for.
    Public,             \* No credentials.
    RetryMax,           \* Retries of the client: 2.
    Cacheable,          \* Hosts whose headers let their answers be cached.
    Answers             \* What a request for the file may meet, among AnswerKinds.

\* A file, a 4xx, a 429, a 5xx; a file that does not parse or another status;
\* no response, or none in time; a 429 or 503 while retries are left whose
\* Retry-After is longer than the client's timeout.
AnswerKinds == {"file", "missing", "busy", "failing", "odd", "unreachable", "wait"}

ASSUME RobotsAssumption ==
    /\ Runs # {} /\ Hosts # {}
    /\ Private \subseteq Runs \X Hosts
    /\ Public \notin Runs
    /\ RetryMax \in Nat
    /\ Cacheable \subseteq Hosts
    /\ Answers \subseteq AnswerKinds

\* Whose credentials a run's request to a host carries.
Wanted == Runs \X Hosts
Credentials(p) == IF p \in Private THEN p[1] ELSE Public
Sent(p) == <<p[2], Credentials(p)>>

\* Host.HashWithAuth: the host and the credentials.
KeyWithoutAuth(p) == <<p[2], Public>>
KeyOf(p) == <<p[2], Credentials(p)>>
Keys == Hosts \X (Runs \cup {Public})

\* RobotsData: parsed rules, the library's allowAll and disallowAll, nil.
Rules == {"file", "allowAll", "disallowAll", "nil"}
Unknown == "unknown"

VARIABLES
    skipCache,      \* SkipCache, as configured.
    httpCache,      \* Host -> the rules its cached response makes, or Unknown.
    data,           \* Key -> the rules stored for it, or Unknown.
    rpc,            \* Worker -> where it is in get.
    ask,            \* Worker -> the run and the host it asks for.
    tries,          \* Worker -> retries of its fetch.
    robot,          \* Worker -> the rules it has got.
    rerr,           \* Worker -> whether get returned an error.
    panicked,       \* The process has ended in a panic.
    \* History.
    fetchers,       \* Key -> workers that fetched it.
    fetches,        \* Key -> fetches of it.
    answered,       \* Key -> rules the host answered such credentials with.
    unparsable      \* Hosts that answered what cannot be parsed.

cacheVars == <<skipCache, httpCache>>
robotsHistory == <<fetchers, fetches, answered, unparsable>>
robotsVars == <<cacheVars, data, rpc, ask, tries, robot, rerr, panicked, robotsHistory>>

Nobody == CHOOSE p \in Wanted : TRUE

RobotsInit ==
    /\ skipCache \in BOOLEAN
    /\ httpCache = [h \in Hosts |-> Unknown]
    /\ data = [k \in Keys |-> Unknown]
    /\ rpc = [w \in Workers |-> "idle"]
    /\ ask = [w \in Workers |-> Nobody]
    /\ tries = [w \in Workers |-> 0]
    /\ robot = [w \in Workers |-> "nil"]
    /\ rerr = [w \in Workers |-> FALSE]
    /\ panicked = FALSE
    /\ fetchers = [k \in Keys |-> {}]
    /\ fetches = [k \in Keys |-> 0]
    /\ answered = [k \in Keys |-> {}]
    /\ unparsable = {}

-----------------------------------------------------------------------------
\* get looks the key up under the read lock ...
Found(w, p) ==
    /\ rpc[w] = "idle" /\ data[KeyOf(p)] # Unknown
    /\ ask' = [ask EXCEPT ![w] = p]
    /\ robot' = [robot EXCEPT ![w] = data[KeyOf(p)]]
    /\ rpc' = [rpc EXCEPT ![w] = "got"]
    /\ UNCHANGED <<cacheVars, data, tries, rerr, panicked, robotsHistory>>

\* ... and fetches what is missing, whoever else does so.
Missing(w, p) ==
    /\ rpc[w] = "idle" /\ data[KeyOf(p)] = Unknown
    /\ ask' = [ask EXCEPT ![w] = p]
    /\ rpc' = [rpc EXCEPT ![w] = "fetch"]
    /\ fetchers' = [fetchers EXCEPT ![KeyOf(p)] = @ \cup {w}]
    /\ fetches' = [fetches EXCEPT ![KeyOf(p)] = @ + 1]
    /\ UNCHANGED <<cacheVars, data, tries, robot, rerr, panicked, answered, unparsable>>

Get(w, p) == Found(w, p) \/ Missing(w, p)

\* The client tries again what may pass, and in the end hands over the last
\* answer it got.
Retryable(a) == a \in {"busy", "failing", "unreachable"}
MayRetry(w) == tries[w] < RetryMax

TryAgain(w) ==
    /\ rpc[w] = "fetch" /\ MayRetry(w)
    /\ \E a \in Answers : Retryable(a)
    /\ tries' = [tries EXCEPT ![w] = @ + 1]
    /\ UNCHANGED <<cacheVars, data, rpc, ask, robot, rerr, panicked, robotsHistory>>

\* robotstxt.FromResponse: a 4xx, a 429 among them, allows and a 5xx
\* disallows everything; nil comes with an error.
FromResponseStrict(a) == CASE a = "file" -> "file"
                           [] a \in {"missing", "busy"} -> "allowAll"
                           [] OTHER -> "nil"
FromResponse(a) == CASE a = "file" -> "file"
                     [] a \in {"missing", "busy"} -> "allowAll"
                     [] a = "failing" -> "disallowAll"
                     [] a = "odd" -> "nil"

\* The cache keeps a response under its URL, whatever was sent for it ...
Kept(h, a) == IF skipCache \/ h \notin Cacheable THEN httpCache
                                                 ELSE [httpCache EXCEPT ![h] = FromResponse(a)]

\* ... and answers with it until it is stale.
Cached(w) ==
    /\ rpc[w] = "fetch" /\ httpCache[ask[w][2]] # Unknown
    /\ robot' = [robot EXCEPT ![w] = httpCache[ask[w][2]]]
    /\ rpc' = [rpc EXCEPT ![w] = "store"]
    /\ UNCHANGED <<cacheVars, data, ask, tries, rerr, panicked, robotsHistory>>

Answer(w, a) ==
    /\ rpc[w] = "fetch" /\ a \notin {"unreachable", "wait"}
    /\ Retryable(a) => ~MayRetry(w)
    /\ robot' = [robot EXCEPT ![w] = FromResponse(a)]
    /\ rpc' = [rpc EXCEPT ![w] = "store"]
    /\ httpCache' = Kept(ask[w][2], a)
    /\ answered' = [answered EXCEPT ![Sent(ask[w])] = @ \cup {FromResponse(a)}]
    /\ unparsable' = IF a = "odd" THEN unparsable \cup {ask[w][2]} ELSE unparsable
    /\ UNCHANGED <<skipCache, data, ask, tries, rerr, panicked, fetchers, fetches>>

\* client.Get fails: no response came, or the client's timeout cut the retries
\* short ...
Fails(w) ==
    /\ rpc[w] = "fetch"
    /\ rpc' = [rpc EXCEPT ![w] = "failed"]
    /\ UNCHANGED <<cacheVars, data, ask, tries, robot, rerr, panicked, robotsHistory>>

NoResponse(w) == Fails(w) /\ "unreachable" \in Answers

\* ... be it while the client waits as long as the host has asked it to.
TimedOut(w) == Fails(w) /\ "wait" \in Answers /\ MayRetry(w)

\* Then there is no response, and it is just then that its body is closed.
CloseBody(w) ==
    /\ rpc[w] = "failed"
    /\ panicked' = TRUE
    /\ UNCHANGED <<cacheVars, data, rpc, ask, tries, robot, rerr, robotsHistory>>

\* The result is stored in any case, over what others may have stored.
StoreFiles(w) == IF robot[w] = "file" THEN [data EXCEPT ![KeyOf(ask[w])] = robot[w]] ELSE data
Stored(w) == [data EXCEPT ![KeyOf(ask[w])] = robot[w]]

Store(w) ==
    /\ rpc[w] = "store"
    /\ data' = Stored(w)
    /\ rerr' = [rerr EXCEPT ![w] = robot[w] = "nil"]
    /\ tries' = [tries EXCEPT ![w] = 0]
    /\ rpc' = [rpc EXCEPT ![w] = "got"]
    /\ UNCHANGED <<cacheVars, ask, robot, panicked, robotsHistory>>

FetchStep(w) == \/ TryAgain(w) \/ Cached(w) \/ Store(w)
                \/ NoResponse(w) \/ TimedOut(w) \/ CloseBody(w)
                \/ \E a \in Answers : Answer(w, a)

\* The caller has used what it got.  Both callers dereference it: Check
\* always, Sitemaps unless get returned an error, and a nil entry found in
\* the cache comes without one.
Use(w) ==
    /\ rpc[w] = "got"
    /\ rpc' = [rpc EXCEPT ![w] = "idle"]
    /\ robot' = [robot EXCEPT ![w] = "nil"]
    /\ rerr' = [rerr EXCEPT ![w] = FALSE]
    /\ ask' = [ask EXCEPT ![w] = Nobody]
    /\ UNCHANGED <<cacheVars, data, tries, panicked, robotsHistory>>

Dereference(w) ==
    /\ rpc[w] = "got" /\ robot[w] = "nil"
    /\ panicked' = TRUE
    /\ UNCHANGED <<cacheVars, data, rpc, ask, tries, robot, rerr, robotsHistory>>

CheckDone(w) == Use(w) /\ robot[w] # "nil"
CheckPanics(w) == Dereference(w)
SitemapsDone(w) == Use(w) /\ (robot[w] # "nil" \/ rerr[w])
SitemapsPanics(w) == Dereference(w) /\ ~rerr[w]

RobotsNext ==
    /\ ~panicked
    /\ \E w \in Workers :
        \/ \E p \in Wanted : Get(w, p)
        \/ FetchStep(w)
        \/ CheckDone(w) \/ CheckPanics(w) \/ SitemapsDone(w) \/ SitemapsPanics(w)

RobotsSpec == RobotsInit /\ [][RobotsNext]_robotsVars

-----------------------------------------------------------------------------
\* Every variable has its type, and the HTTP cache is empty if it is not used.
CacheTypeOK ==
    /\ skipCache \in BOOLEAN
    /\ httpCache \in [Hosts -> Rules \cup {Unknown}]
    /\ skipCache => \A h \in Hosts : httpCache[h] = Unknown

RobotsTypeOK ==
    /\ CacheTypeOK
    /\ data \in [Keys -> Rules \cup {Unknown}]
    /\ rpc \in [Workers -> {"idle", "fetch", "failed", "store", "got"}]
    /\ ask \in [Workers -> Wanted]
    /\ tries \in [Workers -> 0 .. RetryMax]
    /\ robot \in [Workers -> Rules]
    /\ rerr \in [Workers -> BOOLEAN] /\ panicked \in BOOLEAN /\ unparsable \subseteq Hosts
    /\ fetchers \in [Keys -> SUBSET Workers]
    /\ fetches \in [Keys -> Nat]
    /\ answered \in [Keys -> SUBSET Rules]

\* Results are not shared while they are fetched, so the file may be fetched
\* several times (robots.go:39-42), but never twice by one goroutine: also an
\* error is kept (robots.go:132-133), by whoever stores last.
FetchedOnceEach == \A k \in Keys : fetches[k] = Cardinality(fetchers[k])

\* Nobody is served rules the host did not answer a request of the same
\* credentials with: what was fetched from a private host is not used for a
\* run without access to it, nor the other way around (robots.go:102-104),
\* unless the HTTP cache is in use, which the TODO at httpclient.go:108-112 is
\* about.
OwnRules == skipCache => \A w \in Workers : rpc[w] = "got" => robot[w] \in answered[Sent(ask[w])]

\* What brings the process down is a fetch that failed, or rules that are nil,
\* and those come from the very host they are used for: it answered, whoever
\* asked and whichever cache kept it, what cannot be parsed.  An answer of any
\* status that is handed over does no harm (robots.go:122-141).  That a host
\* which answers a 429 or 503, and asks to wait longer than the client does, is
\* among the failed ones is ErrorsHandled's subject.
HasNil(w) == rpc[w] = "got" /\ robot[w] = "nil"

PanicsOnlyOnTrouble ==
    /\ panicked => \E w \in Workers : rpc[w] = "failed" \/ HasNil(w)
    /\ \A w \in Workers : HasNil(w) => ask[w][2] \in unparsable

\* "When a fetch requests is denied by rate limit Robots will retry until it
\* succeeds" (robots.go:44-45), and "An HTTP error is handled inside
\* robotstxt.FromResponse, so it is save to not handle it here"
\* (robots.go:124-125): neither ends the process.
ErrorsHandled == ~panicked
=============================================================================
