---------------------------- MODULE Robots_proofs ----------------------------
(***************************************************************************)
(* Proofs about the cache of robots.txt files, for any set of goroutines,  *)
(* runs and hosts, and any credentials.                                    *)
(***************************************************************************)
EXTENDS Robots, FiniteSetTheorems, TLAPS

\* Who is counted as a fetcher of a key has not stored its answer yet, or the
\* key is known by now.
StillFetching == \A k \in Keys : \A w \in fetchers[k] :
                \/ data[k] # Unknown
                \/ rpc[w] \in {"fetch", "failed", "store"} /\ KeyOf(ask[w]) = k

Finite == \A k \in Keys : IsFiniteSet(fetchers[k])

\* Without the HTTP cache, what is stored, about to be stored or in hand was
\* answered to requests with these credentials.
StoredAnswered == skipCache => \A k \in Keys : data[k] # Unknown => data[k] \in answered[k]
HeldAnswered == skipCache => \A w \in Workers :
                    rpc[w] \in {"store", "got"} => robot[w] \in answered[KeyOf(ask[w])]

\* Nil rules, wherever they are kept, are those of a host whose answer could
\* not be parsed; and what brings the process down is still there to see.
NilCached == \A h \in Hosts : httpCache[h] = "nil" => h \in unparsable
NilStored == \A k \in Keys : data[k] = "nil" => k[1] \in unparsable
NilHeld == \A w \in Workers :
                rpc[w] \in {"store", "got"} /\ robot[w] = "nil" => ask[w][2] \in unparsable
Culprit == panicked => \E w \in Workers : rpc[w] = "failed" \/ HasNil(w)

\* The inductive invariant, in three independent parts on top of the types.
CountInv == RobotsTypeOK /\ Finite /\ FetchedOnceEach /\ StillFetching
AnswerInv == RobotsTypeOK /\ StoredAnswered /\ HeldAnswered
NilInv == RobotsTypeOK /\ NilCached /\ NilStored /\ NilHeld

\* A request's key is one, and the key it is stored under.
LEMMA KeyType == ASSUME NEW p \in Wanted PROVE KeyOf(p) \in Keys /\ Sent(p) = KeyOf(p)
  BY DEF Wanted, KeyOf, Keys, Sent, Credentials

LEMMA NobodyType == Nobody \in Wanted
<1>1. PICK r \in Runs, h \in Hosts : TRUE
  BY RobotsAssumption
<1>2. <<r, h>> \in Wanted
  BY <1>1 DEF Wanted
<1> QED BY <1>2 DEF Nobody

\* The library's rules: nil comes only of what cannot be parsed.
LEMMA FromResponseType ==
  ASSUME NEW a \in Answers, a \notin {"unreachable", "wait"}
  PROVE /\ FromResponse(a) \in Rules
        /\ FromResponse(a) = "nil" => a = "odd"
  BY RobotsAssumption DEF FromResponse, Rules, AnswerKinds

\* The steps of a goroutine, the callers' uses of an answer taken together.
Act(w) == \/ \E p \in Wanted : Found(w, p)
          \/ \E p \in Wanted : Missing(w, p)
          \/ TryAgain(w)
          \/ Cached(w)
          \/ \E a \in Answers : Answer(w, a)
          \/ Fails(w)
          \/ CloseBody(w)
          \/ Store(w)
          \/ Use(w)
          \/ Dereference(w)

LEMMA NextActs == RobotsNext => \E w \in Workers : Act(w)
  BY DEF RobotsNext, Act, Get, FetchStep, NoResponse, TimedOut, CheckDone, CheckPanics, SitemapsDone, SitemapsPanics

\* The configuration stays, and only an answer changes the HTTP cache.
LEMMA ActsCache ==
  ASSUME NEW w \in Workers, Act(w)
  PROVE  /\ skipCache' = skipCache
         /\ httpCache' = httpCache \/ \E a \in Answers : Answer(w, a)
  BY DEF Act, Found, Missing, TryAgain, Cached, Answer, Fails, CloseBody, Store, Use, Dereference, cacheVars

-----------------------------------------------------------------------------
\* Type correctness: the cache maps keys to rules or to nothing, and nobody
\* has rules in hand that the library does not make.
LEMMA InitType == RobotsInit => RobotsTypeOK
<1> SUFFICES ASSUME RobotsInit PROVE RobotsTypeOK
  OBVIOUS
<1>1. ask \in [Workers -> Wanted]
  BY NobodyType DEF RobotsInit
<1>2. tries \in [Workers -> 0 .. RetryMax]
  BY RobotsAssumption DEF RobotsInit
<1>3. rerr \in [Workers -> BOOLEAN] /\ panicked \in BOOLEAN /\ unparsable \subseteq Hosts
  BY DEF RobotsInit
<1>4. CacheTypeOK
  BY DEF RobotsInit, CacheTypeOK
<1> QED BY <1>1, <1>2, <1>3, <1>4 DEF RobotsInit, RobotsTypeOK, Rules

LEMMA StepCacheType ==
  ASSUME RobotsTypeOK, NEW w \in Workers, Act(w)
  PROVE CacheTypeOK'
<1>1. CASE httpCache' = httpCache
  BY <1>1, ActsCache DEF RobotsTypeOK, CacheTypeOK
<1>2. ASSUME NEW a \in Answers, Answer(w, a) PROVE CacheTypeOK'
  <2>1. FromResponse(a) \in Rules
    BY <1>2, FromResponseType DEF Answer
  <2> QED BY <1>2, <2>1 DEF Answer, Kept, RobotsTypeOK, CacheTypeOK
<1> QED BY <1>1, <1>2, ActsCache

LEMMA StepType ==
  ASSUME RobotsTypeOK, NEW w \in Workers, Act(w)
  PROVE RobotsTypeOK'
<1>c. CacheTypeOK'
  BY StepCacheType
<1>1. ASSUME NEW p \in Wanted, Found(w, p) PROVE RobotsTypeOK'
  <2>1. data[KeyOf(p)] \in Rules
    BY <1>1, KeyType DEF RobotsTypeOK, Found
  <2>2. rerr' \in [Workers -> BOOLEAN] /\ panicked' \in BOOLEAN /\ unparsable' \subseteq Hosts
    BY <1>1 DEF RobotsTypeOK, Found, robotsHistory
  <2> QED BY <1>c, <1>1, <2>1, <2>2 DEF RobotsTypeOK, Found, robotsHistory
<1>2. ASSUME NEW p \in Wanted, Missing(w, p) PROVE RobotsTypeOK'
  <2>2. rerr' \in [Workers -> BOOLEAN] /\ panicked' \in BOOLEAN /\ unparsable' \subseteq Hosts
    BY <1>2 DEF RobotsTypeOK, Missing
  <2> QED BY <1>c, <1>2, <2>2, KeyType DEF RobotsTypeOK, Missing
<1>3. ASSUME TryAgain(w) PROVE RobotsTypeOK'
  <2>1. tries' \in [Workers -> 0 .. RetryMax]
    BY <1>3, RobotsAssumption DEF RobotsTypeOK, TryAgain, MayRetry
  <2>2. rerr' \in [Workers -> BOOLEAN] /\ panicked' \in BOOLEAN /\ unparsable' \subseteq Hosts
    BY <1>3 DEF RobotsTypeOK, TryAgain, robotsHistory
  <2> QED BY <1>c, <1>3, <2>1, <2>2 DEF RobotsTypeOK, TryAgain, robotsHistory
<1>9. ASSUME Cached(w) PROVE RobotsTypeOK'
  <2>1. httpCache[ask[w][2]] \in Rules
    BY <1>9 DEF RobotsTypeOK, CacheTypeOK, Wanted, Cached
  <2>2. rerr' \in [Workers -> BOOLEAN] /\ panicked' \in BOOLEAN /\ unparsable' \subseteq Hosts
    BY <1>9 DEF RobotsTypeOK, Cached, robotsHistory
  <2> QED BY <1>c, <1>9, <2>1, <2>2 DEF RobotsTypeOK, Cached, robotsHistory
<1>4. ASSUME NEW a \in Answers, Answer(w, a) PROVE RobotsTypeOK'
  <2>1. FromResponse(a) \in Rules
    BY <1>4, FromResponseType DEF Answer
  <2>2. unparsable' \subseteq Hosts
    BY <1>4 DEF RobotsTypeOK, Answer, Wanted
  <2>3. rerr' \in [Workers -> BOOLEAN] /\ panicked' \in BOOLEAN
    BY <1>4 DEF RobotsTypeOK, Answer
  <2>4. answered' \in [Keys -> SUBSET Rules]
    <3>1. Sent(ask[w]) \in Keys
      BY KeyType DEF RobotsTypeOK
    <3> QED BY <1>4, <2>1, <3>1 DEF RobotsTypeOK, Answer
  <2> QED BY <1>c, <1>4, <2>1, <2>2, <2>3, <2>4 DEF RobotsTypeOK, Answer
<1>5. ASSUME Fails(w) \/ CloseBody(w) PROVE RobotsTypeOK'
  <2>1. rerr' \in [Workers -> BOOLEAN] /\ panicked' \in BOOLEAN /\ unparsable' \subseteq Hosts
    BY <1>5 DEF RobotsTypeOK, Fails, CloseBody, robotsHistory
  <2> QED BY <1>c, <1>5, <2>1 DEF RobotsTypeOK, Fails, CloseBody, robotsHistory
<1>6. ASSUME Store(w) PROVE RobotsTypeOK'
  <2>1. data' \in [Keys -> Rules \cup {Unknown}]
    <3>1. KeyOf(ask[w]) \in Keys
      BY KeyType DEF RobotsTypeOK
    <3> QED BY <1>6, <3>1 DEF RobotsTypeOK, Store, Stored
  <2>2. (robot[w] = "nil") \in BOOLEAN
    OBVIOUS
  <2>3. rerr' \in [Workers -> BOOLEAN] /\ panicked' \in BOOLEAN /\ unparsable' \subseteq Hosts
    BY <1>6, <2>2 DEF RobotsTypeOK, Store, robotsHistory
  <2>4. tries' \in [Workers -> 0 .. RetryMax]
    BY <1>6, RobotsAssumption DEF RobotsTypeOK, Store
  <2> QED BY <1>c, <1>6, <2>1, <2>3, <2>4 DEF RobotsTypeOK, Store, robotsHistory
<1>7. ASSUME Use(w) PROVE RobotsTypeOK'
  <2>1. ask' \in [Workers -> Wanted]
    BY <1>7, NobodyType DEF RobotsTypeOK, Use
  <2>2. rerr' \in [Workers -> BOOLEAN] /\ panicked' \in BOOLEAN /\ unparsable' \subseteq Hosts
    BY <1>7 DEF RobotsTypeOK, Use, robotsHistory
  <2>3. robot' \in [Workers -> Rules]
    BY <1>7 DEF RobotsTypeOK, Use, Rules
  <2> QED BY <1>c, <1>7, <2>1, <2>2, <2>3 DEF RobotsTypeOK, Use, robotsHistory
<1>8. ASSUME Dereference(w) PROVE RobotsTypeOK'
  <2>1. rerr' \in [Workers -> BOOLEAN] /\ panicked' \in BOOLEAN /\ unparsable' \subseteq Hosts
    BY <1>8 DEF RobotsTypeOK, Dereference, robotsHistory
  <2> QED BY <1>c, <1>8, <2>1 DEF RobotsTypeOK, Dereference, robotsHistory
<1> QED BY <1>1, <1>2, <1>3, <1>4, <1>5, <1>6, <1>7, <1>8, <1>9 DEF Act

LEMMA StutterType ==
  ASSUME RobotsTypeOK, UNCHANGED robotsVars PROVE RobotsTypeOK'
<1>1. rerr' \in [Workers -> BOOLEAN] /\ panicked' \in BOOLEAN /\ unparsable' \subseteq Hosts
  BY DEF RobotsTypeOK, robotsVars, robotsHistory
<1>2. CacheTypeOK'
  BY DEF RobotsTypeOK, CacheTypeOK, robotsVars, cacheVars
<1> QED BY <1>1, <1>2 DEF RobotsTypeOK, robotsVars, robotsHistory

\* The cache of robots.txt files is type correct (robots.go:36-142), for any
\* number of goroutines and hosts.
THEOREM TypeCorrect == RobotsSpec => []RobotsTypeOK
<1>1. RobotsInit => RobotsTypeOK
  BY InitType
<1>2. RobotsTypeOK /\ [RobotsNext]_robotsVars => RobotsTypeOK'
  BY NextActs, StepType, StutterType
<1> QED BY <1>1, <1>2, PTL DEF RobotsSpec

-----------------------------------------------------------------------------
\* A fetch of a key counts one more fetcher of it: who fetches is idle, and
\* an idle fetcher has stored what it got.
LEMMA StepCount ==
  ASSUME CountInv, NEW w \in Workers, Act(w)
  PROVE  Finite' /\ FetchedOnceEach' /\ StillFetching'
<1> USE DEF CountInv
<1>k. \A v \in Workers : KeyOf(ask[v]) \in Keys
  BY KeyType DEF RobotsTypeOK
<1>1. ASSUME NEW p \in Wanted, Missing(w, p)
      PROVE  Finite' /\ FetchedOnceEach' /\ StillFetching'
  <2> DEFINE k == KeyOf(p)
  <2>1. k \in Keys
    BY KeyType
  <2>2. w \notin fetchers[k]
    BY <1>1, <2>1 DEF StillFetching, Missing
  <2>3. IsFiniteSet(fetchers[k] \cup {w}) /\ Cardinality(fetchers[k] \cup {w}) = Cardinality(fetchers[k]) + 1
    BY <2>1, <2>2, FS_AddElement DEF Finite
  <2>4. Finite' /\ FetchedOnceEach'
    BY <1>1, <2>1, <2>3 DEF Finite, FetchedOnceEach, Missing, RobotsTypeOK
  <2>5. StillFetching'
    <3> SUFFICES ASSUME NEW l \in Keys, NEW v \in fetchers'[l]
                 PROVE  \/ data'[l] # Unknown
                        \/ rpc'[v] \in {"fetch", "failed", "store"} /\ KeyOf(ask'[v]) = l
      BY DEF StillFetching, KeyOf, Credentials
    <3>1. CASE v = w /\ l = k
      BY <1>1, <3>1, <2>1 DEF Missing, RobotsTypeOK
    <3>2. CASE ~(v = w /\ l = k)
      <4>1. v \in fetchers[l]
        BY <1>1, <3>2, <2>1 DEF Missing, RobotsTypeOK
      <4>2. v = w => data[l] # Unknown
        BY <1>1, <4>1 DEF StillFetching, Missing
      <4>3. v # w => rpc'[v] = rpc[v] /\ ask'[v] = ask[v]
        BY <1>1, <4>1 DEF Missing, RobotsTypeOK
      <4> QED BY <1>1, <4>1, <4>2, <4>3 DEF StillFetching, Missing
    <3> QED BY <3>1, <3>2
  <2> QED BY <2>4, <2>5
<1>2. ASSUME Store(w) PROVE Finite' /\ FetchedOnceEach' /\ StillFetching'
  <2>1. Finite' /\ FetchedOnceEach'
    BY <1>2 DEF Finite, FetchedOnceEach, Store, robotsHistory
  <2>2. ASSUME NEW l \in Keys, NEW v \in fetchers[l]
        PROVE  \/ data'[l] # Unknown
               \/ rpc'[v] \in {"fetch", "failed", "store"} /\ KeyOf(ask[v]) = l
    <3>1. data'[l] = IF l = KeyOf(ask[w]) THEN robot[w] ELSE data[l]
      BY <1>2, <1>k DEF Store, Stored, RobotsTypeOK
    <3>2. robot[w] # Unknown
      BY DEF RobotsTypeOK, Rules, Unknown
    <3>3. CASE l = KeyOf(ask[w])
      BY <3>1, <3>2, <3>3
    <3>4. CASE l # KeyOf(ask[w])
      <4>1. v # w => rpc'[v] = rpc[v]
        BY <1>2 DEF Store, RobotsTypeOK
      <4> QED BY <3>1, <3>4, <4>1 DEF StillFetching
    <3> QED BY <3>3, <3>4
  <2>3. StillFetching'
    BY <1>2, <2>2 DEF StillFetching, Store, robotsHistory, KeyOf, Credentials
  <2> QED BY <2>1, <2>3
<1>3. ASSUME UNCHANGED <<data, fetchers, fetches>>,
             \A v \in Workers : \/ rpc'[v] = rpc[v] /\ ask'[v] = ask[v]
                                \/ rpc[v] \in {"idle", "got"}
                                \/ rpc'[v] \in {"store", "failed"} /\ ask'[v] = ask[v]
      PROVE  Finite' /\ FetchedOnceEach' /\ StillFetching'
  <2>1. Finite' /\ FetchedOnceEach'
    BY <1>3 DEF Finite, FetchedOnceEach
  <2>2. ASSUME NEW l \in Keys, NEW v \in fetchers[l]
        PROVE  \/ data[l] # Unknown
               \/ rpc'[v] \in {"fetch", "failed", "store"} /\ KeyOf(ask'[v]) = l
    <3>1. v \in Workers
      BY DEF RobotsTypeOK
    <3> QED BY <1>3, <3>1 DEF StillFetching
  <2>3. StillFetching'
    BY <1>3, <2>2 DEF StillFetching, KeyOf, Credentials
  <2> QED BY <2>1, <2>3
<1>4. ASSUME NEW p \in Wanted, Found(w, p) PROVE Finite' /\ FetchedOnceEach' /\ StillFetching'
  BY <1>3, <1>4 DEF Found, robotsHistory, RobotsTypeOK
<1>8. ASSUME Cached(w) PROVE Finite' /\ FetchedOnceEach' /\ StillFetching'
  BY <1>3, <1>8 DEF Cached, robotsHistory, RobotsTypeOK
<1>5. ASSUME TryAgain(w) \/ CloseBody(w) \/ Dereference(w)
      PROVE  Finite' /\ FetchedOnceEach' /\ StillFetching'
  BY <1>3, <1>5 DEF TryAgain, CloseBody, Dereference, robotsHistory
<1>9. ASSUME Fails(w) PROVE Finite' /\ FetchedOnceEach' /\ StillFetching'
  BY <1>3, <1>9 DEF Fails, robotsHistory, RobotsTypeOK
<1>6. ASSUME NEW a \in Answers, Answer(w, a) PROVE Finite' /\ FetchedOnceEach' /\ StillFetching'
  BY <1>3, <1>6 DEF Answer, RobotsTypeOK
<1>7. ASSUME Use(w) PROVE Finite' /\ FetchedOnceEach' /\ StillFetching'
  BY <1>3, <1>7 DEF Use, robotsHistory, RobotsTypeOK
<1> QED BY <1>1, <1>2, <1>4, <1>5, <1>6, <1>7, <1>8, <1>9 DEF Act

\* No goroutine fetches a key twice, however many of them ask for it at once
\* and in whatever order they store their answers (robots.go:96-138).
THEOREM FetchesBounded == RobotsSpec => []FetchedOnceEach
<1>1. RobotsInit => CountInv
  <2>1. RobotsInit => Finite /\ FetchedOnceEach
    BY FS_EmptySet DEF RobotsInit, Finite, FetchedOnceEach
  <2>2. RobotsInit => StillFetching
    BY DEF RobotsInit, StillFetching
  <2> QED BY <2>1, <2>2, InitType DEF CountInv
<1>2. CountInv /\ RobotsNext => CountInv'
  BY NextActs, StepType, StepCount DEF CountInv
<1>3. CountInv /\ UNCHANGED robotsVars => CountInv'
  <2>1. CountInv /\ UNCHANGED robotsVars => Finite' /\ FetchedOnceEach' /\ StillFetching'
    BY DEF CountInv, Finite, FetchedOnceEach, StillFetching, KeyOf, Credentials, robotsVars, robotsHistory
  <2> QED BY <2>1, StutterType DEF CountInv
<1>4. CountInv => FetchedOnceEach
  BY DEF CountInv
<1> QED BY <1>1, <1>2, <1>3, <1>4, PTL DEF RobotsSpec

-----------------------------------------------------------------------------
\* Answers are never taken back, and what is stored or held is one of those
\* to the same credentials: the key holds them.
LEMMA StepAnswers ==
  ASSUME AnswerInv, NEW w \in Workers, Act(w)
  PROVE  StoredAnswered' /\ HeldAnswered'
<1>c. CASE ~skipCache
  BY <1>c, ActsCache DEF StoredAnswered, HeldAnswered
<1>d. CASE skipCache /\ ~Cached(w)
  <2> USE <1>d DEF AnswerInv
  <2>s. skipCache' = skipCache
    BY ActsCache
  <2> USE <2>s
  <2>k. \A v \in Workers : KeyOf(ask[v]) \in Keys /\ Sent(ask[v]) = KeyOf(ask[v])
    BY KeyType DEF RobotsTypeOK
  <2>1. ASSUME NEW p \in Wanted, Found(w, p) PROVE StoredAnswered' /\ HeldAnswered'
    <3>1. data[KeyOf(p)] \in answered[KeyOf(p)]
      BY <2>1, KeyType DEF StoredAnswered, Found
    <3>2. StoredAnswered'
      BY <2>1 DEF StoredAnswered, Found, robotsHistory
    <3>3. ASSUME NEW v \in Workers, rpc'[v] \in {"store", "got"}
          PROVE  robot'[v] \in answered'[KeyOf(ask'[v])]
      <4>1. CASE v = w
        BY <2>1, <3>1, <4>1 DEF Found, robotsHistory, RobotsTypeOK
      <4>2. CASE v # w
        <5>1. rpc'[v] = rpc[v] /\ ask'[v] = ask[v] /\ robot'[v] = robot[v] /\ answered' = answered
          BY <2>1, <4>2 DEF Found, robotsHistory, RobotsTypeOK
        <5> QED BY <3>3, <5>1 DEF HeldAnswered
      <4> QED BY <4>1, <4>2
    <3> QED BY <3>2, <3>3 DEF HeldAnswered, KeyOf, Credentials
  <2>2. ASSUME NEW a \in Answers, Answer(w, a) PROVE StoredAnswered' /\ HeldAnswered'
    <3> DEFINE k == KeyOf(ask[w])
    <3>1. k \in Keys
      BY <2>k
    <3>2. \A l \in Keys : answered'[l] = IF l = k THEN answered[l] \cup {FromResponse(a)} ELSE answered[l]
      BY <2>2, <2>k, <3>1 DEF Answer, RobotsTypeOK
    <3>3. StoredAnswered'
      BY <2>2, <3>2 DEF StoredAnswered, Answer
    <3>4. ASSUME NEW v \in Workers, rpc'[v] \in {"store", "got"}
          PROVE  robot'[v] \in answered'[KeyOf(ask[v])]
      <4>1. CASE v = w
        BY <2>2, <3>1, <3>2, <4>1 DEF Answer, RobotsTypeOK
      <4>2. CASE v # w
        <5>1. rpc'[v] = rpc[v] /\ robot'[v] = robot[v]
          BY <2>2, <4>2 DEF Answer, RobotsTypeOK
        <5> QED BY <2>k, <3>2, <3>4, <5>1 DEF HeldAnswered
      <4> QED BY <4>1, <4>2
    <3>5. HeldAnswered'
      BY <2>2, <3>4 DEF HeldAnswered, Answer, KeyOf, Credentials
    <3> QED BY <3>3, <3>5
  <2>3. ASSUME Store(w) PROVE StoredAnswered' /\ HeldAnswered'
    <3>1. robot[w] \in answered[KeyOf(ask[w])]
      BY <2>3 DEF HeldAnswered, Store
    <3>2. StoredAnswered'
      <4> SUFFICES ASSUME NEW l \in Keys, data'[l] # Unknown PROVE data'[l] \in answered[l]
        BY <2>3 DEF StoredAnswered, Store, robotsHistory
      <4>1. data'[l] = IF l = KeyOf(ask[w]) THEN robot[w] ELSE data[l]
        BY <2>3, <2>k DEF Store, Stored, RobotsTypeOK
      <4> QED BY <3>1, <4>1 DEF StoredAnswered
    <3>3. HeldAnswered'
      <4> SUFFICES ASSUME NEW v \in Workers, rpc'[v] \in {"store", "got"}
                   PROVE  robot[v] \in answered[KeyOf(ask[v])]
        BY <2>3 DEF HeldAnswered, Store, robotsHistory, KeyOf, Credentials
      <4>1. v = w \/ rpc'[v] = rpc[v]
        BY <2>3 DEF Store, RobotsTypeOK
      <4> QED BY <3>1, <4>1 DEF HeldAnswered
    <3> QED BY <3>2, <3>3
  <2>4. ASSUME UNCHANGED <<data, answered>>,
               \A v \in Workers : \/ rpc'[v] \notin {"store", "got"}
                                  \/ rpc'[v] = rpc[v] /\ ask'[v] = ask[v] /\ robot'[v] = robot[v]
        PROVE  StoredAnswered' /\ HeldAnswered'
    BY <2>4 DEF StoredAnswered, HeldAnswered, KeyOf, Credentials
  <2>5. ASSUME NEW p \in Wanted, Missing(w, p) PROVE StoredAnswered' /\ HeldAnswered'
    BY <2>4, <2>5 DEF Missing, RobotsTypeOK
  <2>6. ASSUME TryAgain(w) \/ Fails(w) \/ CloseBody(w) \/ Dereference(w)
        PROVE  StoredAnswered' /\ HeldAnswered'
    BY <2>4, <2>6 DEF TryAgain, Fails, CloseBody, Dereference, robotsHistory, RobotsTypeOK
  <2>7. ASSUME Use(w) PROVE StoredAnswered' /\ HeldAnswered'
    BY <2>4, <2>7 DEF Use, robotsHistory, RobotsTypeOK
  <2> QED BY <2>1, <2>2, <2>3, <2>5, <2>6, <2>7 DEF Act
<1>e. CASE skipCache /\ Cached(w)
  BY <1>e DEF AnswerInv, RobotsTypeOK, CacheTypeOK, Cached, Wanted
<1> QED BY <1>c, <1>d, <1>e

\* A run's robots.txt rules are those its own credentials were answered with:
\* they do not leak to another run, nor another's to it (robots.go:102-104), as
\* long as the HTTP cache is off.
THEOREM RulesAreOwn == RobotsSpec => []OwnRules
<1>1. RobotsInit => AnswerInv
  <2>1. RobotsInit => StoredAnswered /\ HeldAnswered
    BY DEF RobotsInit, StoredAnswered, HeldAnswered
  <2> QED BY <2>1, InitType DEF AnswerInv
<1>2. AnswerInv /\ RobotsNext => AnswerInv'
  BY NextActs, StepType, StepAnswers DEF AnswerInv
<1>3. AnswerInv /\ UNCHANGED robotsVars => AnswerInv'
  <2>1. AnswerInv /\ UNCHANGED robotsVars => StoredAnswered' /\ HeldAnswered'
    BY DEF AnswerInv, StoredAnswered, HeldAnswered, KeyOf, Credentials, robotsVars, cacheVars, robotsHistory
  <2> QED BY <2>1, StutterType DEF AnswerInv
<1>4. AnswerInv => OwnRules
  BY KeyType DEF AnswerInv, HeldAnswered, OwnRules, RobotsTypeOK
<1> QED BY <1>1, <1>2, <1>3, <1>4, PTL DEF RobotsSpec

-----------------------------------------------------------------------------
\* Whoever has nil in hand, and so panics, has it from a host that gave an
\* odd answer, be it through one of the caches.
LEMMA StepNil ==
  ASSUME NilInv, NEW w \in Workers, Act(w)
  PROVE  NilCached' /\ NilStored' /\ NilHeld'
<1> USE DEF NilInv
<1>k. \A v \in Workers : ask[v][2] \in Hosts /\ KeyOf(ask[v]) \in Keys /\ KeyOf(ask[v])[1] = ask[v][2]
  BY KeyType DEF RobotsTypeOK, Wanted, KeyOf
<1>t. unparsable \subseteq unparsable'
  BY DEF Act, Found, Missing, TryAgain, Cached, Answer, Fails, CloseBody, Store, Use, Dereference, robotsHistory
<1>n. NilCached'
  <2>1. CASE httpCache' = httpCache
    BY <1>t, <2>1 DEF NilCached
  <2>2. ASSUME NEW a \in Answers, Answer(w, a) PROVE NilCached'
    <3>1. FromResponse(a) = "nil" => ask[w][2] \in unparsable'
      BY <2>2, FromResponseType DEF Answer
    <3> QED BY <1>t, <1>k, <2>2, <3>1 DEF Answer, Kept, NilCached, RobotsTypeOK, CacheTypeOK
  <2> QED BY <2>1, <2>2, ActsCache
<1>h. ASSUME \A v \in Workers : v # w => rpc'[v] = rpc[v] /\ robot'[v] = robot[v] /\ ask'[v] = ask[v],
             rpc'[w] \in {"store", "got"} /\ robot'[w] = "nil" => ask'[w][2] \in unparsable'
      PROVE  NilHeld'
  BY <1>h, <1>t DEF NilHeld
<1>1. ASSUME NEW p \in Wanted, Found(w, p) PROVE NilStored' /\ NilHeld'
  <2>1. data[KeyOf(p)] = "nil" => p[2] \in unparsable
    BY KeyType DEF NilStored, KeyOf
  <2>2. NilStored'
    BY <1>1, <1>t DEF NilStored, Found
  <2> QED BY <1>1, <1>t, <1>h, <2>1, <2>2 DEF Found, RobotsTypeOK
<1>2. ASSUME NEW a \in Answers, Answer(w, a) PROVE NilStored' /\ NilHeld'
  <2>1. FromResponse(a) = "nil" => ask[w][2] \in unparsable'
    BY <1>2, FromResponseType DEF Answer
  <2>2. NilStored'
    BY <1>2, <1>t DEF NilStored, Answer
  <2> QED BY <1>2, <1>h, <2>1, <2>2 DEF Answer, RobotsTypeOK
<1>3. ASSUME Store(w) PROVE NilStored' /\ NilHeld'
  <2>1. robot[w] = "nil" => ask[w][2] \in unparsable
    BY <1>3 DEF NilHeld, Store
  <2>2. ASSUME NEW l \in Keys, data'[l] = "nil" PROVE l[1] \in unparsable
    <3>1. data'[l] = IF l = KeyOf(ask[w]) THEN robot[w] ELSE data[l]
      BY <1>3, <1>k DEF Store, Stored, RobotsTypeOK
    <3> QED BY <1>k, <2>1, <2>2, <3>1 DEF NilStored
  <2>3. NilStored'
    BY <1>t, <2>2 DEF NilStored
  <2> QED BY <1>3, <1>t, <1>h, <2>1, <2>3 DEF Store, RobotsTypeOK
<1>4. ASSUME NEW p \in Wanted, Missing(w, p) PROVE NilStored' /\ NilHeld'
  <2>1. NilStored'
    BY <1>4, <1>t DEF NilStored, Missing
  <2> QED BY <1>4, <1>h, <2>1 DEF Missing, RobotsTypeOK
<1>5. ASSUME Cached(w) PROVE NilStored' /\ NilHeld'
  <2>1. httpCache[ask[w][2]] = "nil" => ask[w][2] \in unparsable
    BY <1>k DEF NilCached
  <2>2. NilStored'
    BY <1>5, <1>t DEF NilStored, Cached
  <2> QED BY <1>5, <1>t, <1>h, <2>1, <2>2 DEF Cached, RobotsTypeOK
<1>6. ASSUME TryAgain(w) \/ CloseBody(w) \/ Dereference(w) PROVE NilStored' /\ NilHeld'
  BY <1>6, <1>t DEF TryAgain, CloseBody, Dereference, NilStored, NilHeld
<1>7. ASSUME Fails(w) \/ Use(w) PROVE NilStored' /\ NilHeld'
  <2>1. NilStored'
    BY <1>7, <1>t DEF NilStored, Fails, Use
  <2>2. rpc'[w] \notin {"store", "got"} /\ \A v \in Workers : v # w =>
            rpc'[v] = rpc[v] /\ robot'[v] = robot[v] /\ ask'[v] = ask[v]
    BY <1>7 DEF Fails, Use, RobotsTypeOK
  <2> QED BY <1>h, <2>1, <2>2
<1> QED BY <1>n, <1>1, <1>2, <1>3, <1>4, <1>5, <1>6, <1>7 DEF Act

\* A panic stops everything, in the state it happened in.
LEMMA StepCulprit == Culprit /\ [RobotsNext]_robotsVars => Culprit'
<1> SUFFICES ASSUME Culprit, [RobotsNext]_robotsVars PROVE Culprit'
  OBVIOUS
<1>1. ASSUME ~panicked, NEW w \in Workers, CloseBody(w) \/ Dereference(w) PROVE Culprit'
  BY <1>1 DEF CloseBody, Dereference, Culprit, HasNil
<1>2. ASSUME ~panicked, panicked' = panicked PROVE Culprit'
  BY <1>2 DEF Culprit
<1>3. ASSUME ~panicked, NEW w \in Workers, Act(w) PROVE Culprit'
  <2>1. CloseBody(w) \/ Dereference(w) \/ panicked' = panicked
    BY <1>3 DEF Act, Found, Missing, TryAgain, Cached, Answer, Fails, Store, Use
  <2> QED BY <1>1, <1>2, <1>3, <2>1
<1>4. CASE UNCHANGED robotsVars
  BY <1>4 DEF robotsVars, Culprit, HasNil
<1> QED BY <1>3, <1>4, NextActs DEF RobotsNext

\* An answer that parses, whatever its status, never brings the process down
\* (robots.go:110-142): that takes a fetch without a response, or nil rules, and
\* these are of a host that itself gave an answer which does not parse, through
\* whichever cache and for whomever it was fetched.
THEOREM PanicsExplained == RobotsSpec => []PanicsOnlyOnTrouble
<1>1. RobotsInit => NilInv /\ Culprit
  <2>1. RobotsInit => NilCached /\ NilStored /\ NilHeld /\ Culprit
    BY DEF RobotsInit, NilCached, NilStored, NilHeld, Culprit, Unknown
  <2> QED BY <2>1, InitType DEF NilInv
<1>2. NilInv /\ RobotsNext => NilInv'
  BY NextActs, StepType, StepNil DEF NilInv
<1>3. NilInv /\ UNCHANGED robotsVars => NilInv'
  <2>1. NilInv /\ UNCHANGED robotsVars => NilCached' /\ NilStored' /\ NilHeld'
    BY DEF NilInv, NilCached, NilStored, NilHeld, robotsVars, cacheVars, robotsHistory
  <2> QED BY <2>1, StutterType DEF NilInv
<1>4. NilInv /\ Culprit => PanicsOnlyOnTrouble
  BY DEF NilInv, NilHeld, Culprit, HasNil, PanicsOnlyOnTrouble
<1> QED BY <1>1, <1>2, <1>3, <1>4, StepCulprit, PTL DEF RobotsSpec
=============================================================================
