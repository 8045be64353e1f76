----------------------------- MODULE RunManager -----------------------------
(***************************************************************************)
(* The runs a process knows (src/runmanager.go): an LRU cache of bounded   *)
(* size whose entries expire, in front of a store                          *)
(* (src/store_memory.go:31-87) that keeps a run's configuration and the    *)
(* URLs it has seen.  Whatever leaves the cache is deleted from the store. *)
(*                                                                         *)
(* The cache is a library's: each call of it is a step, and so is each     *)
(* call of the store; between two of them others call.                     *)
(***************************************************************************)
EXTENDS Naturals

CONSTANTS
    RunIDs,
    URLs,
    Callers,            \* Goroutines that use the manager.
    MaxParallelRuns     \* Size of the cache: 128.

ASSUME RunManagerAssumption == MaxParallelRuns \in Nat \ {0}

VARIABLES
    rank,           \* Run -> 1 if it was used last, 2, ...; 0 if it is not cached.
    expired,        \* Cached runs whose time is over.
    stored,         \* Runs whose configuration is in the store.
    live,           \* Run -> URLs it has seen.
    mpc,            \* Caller -> where it is in Add or Get.
    mrun,           \* Caller -> the run it is about.
    \* History.
    added,          \* Runs ever added.
    deleted         \* Runs ever deleted.

store == <<stored, live>>
managerVars == <<rank, expired, store, mpc, mrun, added, deleted>>

NoRun == "none"
Cached == {r \in RunIDs : rank[r] > 0}

ManagerInit ==
    /\ rank = [r \in RunIDs |-> 0] /\ expired = {}
    /\ stored = {}
    /\ live = [r \in RunIDs |-> {}]
    /\ mpc = [c \in Callers |-> "idle"]
    /\ mrun = [c \in Callers |-> NoRun]
    /\ added = {} /\ deleted = {}

-----------------------------------------------------------------------------
\* The ranks once r is used: those before it move back, at the end out of
\* the cache.
Behind(r, s) == rank[s] = 0 \/ (r \in Cached /\ rank[s] > rank[r])
Used(r) == [s \in RunIDs |-> IF s = r THEN 1
                             ELSE IF Behind(r, s) THEN rank[s]
                             ELSE IF rank[s] = MaxParallelRuns THEN 0 ELSE rank[s] + 1]

\* The ranks once r is removed.
Removed(r) == [s \in RunIDs |-> IF s = r THEN 0
                                ELSE IF rank[s] > rank[r] THEN rank[s] - 1 ELSE rank[s]]

\* onEviction: the run goes, with what it has seen.
Delete(gone) ==
    /\ stored' = stored \ gone
    /\ live' = [r \in RunIDs |-> IF r \in gone THEN {} ELSE live[r]]
    /\ deleted' = deleted \cup gone

\* A new entry pushes out the one that was not used for longest.
Evicted(r) == {s \in RunIDs : r \notin Cached /\ rank[s] = MaxParallelRuns}

AddEntry(c) ==
    /\ mpc[c] = "adding"
    /\ LET r == mrun[c] IN
       /\ rank' = Used(r)
       /\ expired' = expired \ (Evicted(r) \cup {r})
       /\ Delete(Evicted(r))
    /\ mpc' = [mpc EXCEPT ![c] = "got"]
    /\ UNCHANGED <<mrun, added>>

\* Add saves the run first.  It may be one that is known: what it has seen stays.
SaveNothing(r) == UNCHANGED store
SaveRun(r) == stored' = stored \cup {r} /\ UNCHANGED live

Add(c, r) ==
    /\ mpc[c] = "idle"
    /\ SaveRun(r)
    /\ added' = added \cup {r}
    /\ mpc' = [mpc EXCEPT ![c] = "adding"]
    /\ mrun' = [mrun EXCEPT ![c] = r]
    /\ UNCHANGED <<rank, expired, deleted>>

\* Get asks the cache ...
Hit(c, r) ==
    /\ mpc[c] = "idle" /\ r \in Cached \ expired
    /\ rank' = Used(r)
    /\ mpc' = [mpc EXCEPT ![c] = "got"]
    /\ mrun' = [mrun EXCEPT ![c] = r]
    /\ UNCHANGED <<expired, store, added, deleted>>

Miss(c, r) ==
    /\ mpc[c] = "idle" /\ r \notin Cached \ expired
    /\ mpc' = [mpc EXCEPT ![c] = "missed"]
    /\ mrun' = [mrun EXCEPT ![c] = r]
    /\ UNCHANGED <<rank, expired, store, added, deleted>>

Get(c, r) == Hit(c, r) \/ Miss(c, r)

\* ... and then the store, and caches what that has.
LoadedAnew(c) == live' = [live EXCEPT ![mrun[c]] = {}]
Loaded(c) == UNCHANGED live

Load(c) ==
    /\ mpc[c] = "missed"
    /\ mpc' = [mpc EXCEPT ![c] = IF mrun[c] \in stored THEN "adding" ELSE "nil"]
    /\ Loaded(c)
    /\ UNCHANGED <<rank, expired, stored, mrun, added, deleted>>

ManagerStep(c) == AddEntry(c) \/ Load(c)

\* The caller is through with the run.
Release(c) ==
    /\ mpc[c] = "got"
    /\ mpc' = [mpc EXCEPT ![c] = "idle"]
    /\ mrun' = [mrun EXCEPT ![c] = NoRun]
    /\ UNCHANGED <<rank, expired, store, added, deleted>>

\* RunTTL has passed; the entry is a miss now, and some minutes later a
\* goroutine of the cache removes it.
Expire(r) ==
    /\ r \in Cached \ expired
    /\ expired' = expired \cup {r}
    /\ UNCHANGED <<rank, store, mpc, mrun, added, deleted>>

Clean(r) ==
    /\ r \in expired
    /\ rank' = Removed(r)
    /\ expired' = expired \ {r}
    /\ Delete({r})
    /\ UNCHANGED <<mpc, mrun, added>>

\* SawURL also of a run that was deleted: it then has an entry again.
SawURL(r, u) ==
    /\ live' = [live EXCEPT ![r] = @ \cup {u}]
    /\ UNCHANGED <<rank, expired, stored, mpc, mrun, added, deleted>>

HasSeenURL(r, u) == u \in live[r]

\* Runs are asked for once they were added: their messages carry their IDs.
ManagerNext ==
    \/ \E c \in Callers :
        \/ \E r \in RunIDs : Add(c, r)
        \/ \E r \in added : Get(c, r)
        \/ ManagerStep(c) \/ Release(c)
    \/ \E r \in RunIDs : Expire(r) \/ Clean(r) \/ \E u \in URLs : SawURL(r, u)

ManagerSpec == ManagerInit /\ [][ManagerNext]_managerVars

-----------------------------------------------------------------------------
\* Every variable has its type, and the cache is within its size: no two
\* runs have one rank.
ManagerTypeOK ==
    /\ rank \in [RunIDs -> 0 .. MaxParallelRuns]
    /\ \A r, s \in Cached : rank[r] = rank[s] => r = s
    /\ expired \subseteq Cached
    /\ stored \subseteq RunIDs
    /\ live \in [RunIDs -> SUBSET URLs]
    /\ mpc \in [Callers -> {"idle", "adding", "missed", "got", "nil"}]
    /\ mrun \in [Callers -> RunIDs \cup {NoRun}]
    /\ \A c \in Callers : mpc[c] # "idle" => mrun[c] \in RunIDs
    /\ added \subseteq RunIDs /\ deleted \subseteq RunIDs

\* A message's run is there, also when it has expired and was not yet removed
\* and whatever other callers do between the cache and the store, unless it
\* was deleted (runmanager.go:47-67).
NilOnlyIfDeleted == \A c \in Callers : mpc[c] = "nil" => mrun[c] \in deleted

\* What a run has seen is only forgotten when the run leaves the cache: not
\* when it is added again under its ID, nor when it is loaded from the store.
SeenKept ==
    [][\A r \in RunIDs : live[r] \subseteq live'[r] \/ (r \in Cached /\ r \notin Cached')]_managerVars
=============================================================================
