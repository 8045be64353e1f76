-------------------------- MODULE RunManager_proofs --------------------------
(***************************************************************************)
(* Proofs about the run manager, for any number of runs and callers and    *)
(* any size of its cache.                                                  *)
(***************************************************************************)
EXTENDS RunManager, TLAPS

\* The state of calls, of which the other parts speak.
CallTypes ==
    /\ mpc \in [Callers -> {"idle", "adding", "missed", "got", "nil"}]
    /\ mrun \in [Callers -> RunIDs \cup {NoRun}]

\* Whoever has called asks for a run that was added.
CalledAdded == \A c \in Callers : mpc[c] # "idle" => mrun[c] \in added

\* Only a deletion takes an added run out of the store.
AddedStored == added \ deleted \subseteq stored

CallInv == CallTypes /\ CalledAdded /\ AddedStored /\ NilOnlyIfDeleted

\* What the steps have in common: histories grow, and a call that goes on
\* stays about its run.
LEMMA DeleteKeeps ==
  ASSUME NEW gone, Delete(gone), AddedStored, added' = added
  PROVE  AddedStored' /\ deleted \subseteq deleted'
  BY DEF Delete, AddedStored

LEMMA CallerStep ==
  ASSUME CallInv, NEW c \in Callers,
         \/ \E r \in RunIDs : Add(c, r)
         \/ \E r \in added \cap RunIDs : Get(c, r)
         \/ ManagerStep(c)
         \/ Release(c)
  PROVE  CallInv'
<1> USE DEF CallInv
<1>1. ASSUME NEW r \in RunIDs, Add(c, r) PROVE CallInv'
  <2>1. CallTypes'
    BY <1>1 DEF Add, CallTypes
  <2>2. CalledAdded' /\ NilOnlyIfDeleted'
    BY <1>1 DEF Add, CallTypes, CalledAdded, NilOnlyIfDeleted
  <2>3. AddedStored'
    BY <1>1 DEF Add, SaveRun, AddedStored
  <2> QED BY <2>1, <2>2, <2>3
<1>2. ASSUME NEW r \in added \cap RunIDs, Hit(c, r) \/ Miss(c, r) PROVE CallInv'
  BY <1>2 DEF Hit, Miss, store, CallTypes, CalledAdded, NilOnlyIfDeleted, AddedStored
<1>3. ASSUME Load(c) PROVE CallInv'
  <2>1. CallTypes' /\ CalledAdded' /\ AddedStored'
    BY <1>3 DEF Load, CallTypes, CalledAdded, AddedStored
  <2>2. mrun[c] \notin stored => mrun[c] \in deleted
    BY <1>3 DEF Load, CalledAdded, AddedStored
  <2>3. NilOnlyIfDeleted'
    BY <1>3, <2>2 DEF Load, CallTypes, NilOnlyIfDeleted
  <2> QED BY <2>1, <2>3
<1>4. ASSUME AddEntry(c) PROVE CallInv'
  <2>1. AddedStored' /\ deleted \subseteq deleted'
    BY <1>4, DeleteKeeps DEF AddEntry
  <2>2. CallTypes'
    BY <1>4 DEF AddEntry, CallTypes
  <2>3. CalledAdded' /\ NilOnlyIfDeleted'
    BY <1>4, <2>1 DEF AddEntry, CallTypes, CalledAdded, NilOnlyIfDeleted
  <2> QED BY <2>1, <2>2, <2>3
<1>5. ASSUME Release(c) PROVE CallInv'
  BY <1>5 DEF Release, store, CallTypes, CalledAdded, NilOnlyIfDeleted, AddedStored
<1> QED BY <1>1, <1>2, <1>3, <1>4, <1>5 DEF Get, ManagerStep

LEMMA RunStep ==
  ASSUME CallInv, NEW r, Expire(r) \/ Clean(r) \/ \E u \in URLs : SawURL(r, u)
  PROVE  CallInv'
<1> USE DEF CallInv
<1>1. ASSUME Clean(r) PROVE CallInv'
  <2>1. AddedStored' /\ deleted \subseteq deleted'
    BY <1>1, DeleteKeeps DEF Clean
  <2> QED BY <1>1, <2>1 DEF Clean, CallTypes, CalledAdded, NilOnlyIfDeleted
<1>2. ASSUME Expire(r) PROVE CallInv'
  BY <1>2 DEF Expire, store, CallTypes, CalledAdded, NilOnlyIfDeleted, AddedStored
<1>3. ASSUME NEW u \in URLs, SawURL(r, u) PROVE CallInv'
  BY <1>3 DEF SawURL, CallTypes, CalledAdded, NilOnlyIfDeleted, AddedStored
<1> QED BY <1>1, <1>2, <1>3

\* Runs that were added are runs.
LEMMA AddedAreRuns == ManagerSpec => [](added \subseteq RunIDs)
<1>1. ManagerInit => added \subseteq RunIDs
  BY DEF ManagerInit
<1>2. added \subseteq RunIDs /\ [ManagerNext]_managerVars => (added \subseteq RunIDs)'
  BY DEF ManagerNext, Add, Get, Hit, Miss, ManagerStep, AddEntry, Load, Release, Expire, Clean,
         SawURL, managerVars
<1> QED BY <1>1, <1>2, PTL DEF ManagerSpec

\* Whatever adds, expires, evicts and loads at once: a visitor that finds no
\* run for a message received it after that run was deleted
\* (runmanager.go:47-71), and not because it missed the cache.
THEOREM FoundUnlessDeleted == ManagerSpec => []NilOnlyIfDeleted
<1>1. ManagerInit => CallInv
  BY DEF ManagerInit, CallInv, CallTypes, CalledAdded, AddedStored, NilOnlyIfDeleted
<1>2. CallInv /\ added \subseteq RunIDs /\ [ManagerNext]_managerVars => CallInv'
  <2> SUFFICES ASSUME CallInv, added \subseteq RunIDs, [ManagerNext]_managerVars PROVE CallInv'
    OBVIOUS
  <2>1. CASE ManagerNext
    BY <2>1, CallerStep, RunStep DEF ManagerNext
  <2>2. CASE UNCHANGED managerVars
    BY <2>2 DEF managerVars, store, CallInv, CallTypes, CalledAdded, AddedStored, NilOnlyIfDeleted
  <2> QED BY <2>1, <2>2
<1>3. CallInv => NilOnlyIfDeleted
  BY DEF CallInv
<1> QED BY <1>1, <1>2, <1>3, AddedAreRuns, PTL DEF ManagerSpec

-----------------------------------------------------------------------------
\* Using a run makes room for it: its rank is the first, the others keep
\* their order, and only the last may go.
LEMMA UsedRanks ==
  ASSUME ManagerTypeOK, NEW r \in RunIDs
  PROVE  /\ Used(r) \in [RunIDs -> 0 .. MaxParallelRuns]
         /\ \A s, t \in RunIDs : Used(r)[s] > 0 /\ Used(r)[s] = Used(r)[t] => s = t
         /\ Used(r)[r] = 1
         /\ \A s \in RunIDs \ {r} : Used(r)[s] > 0 <=> s \in Cached \ Evicted(r)
<1> DEFINE N == MaxParallelRuns
<1>1. N \in Nat /\ N > 0
  BY RunManagerAssumption
<1>2. rank \in [RunIDs -> 0 .. N]
  BY DEF ManagerTypeOK
<1>3. \A s, t \in RunIDs : rank[s] > 0 /\ rank[s] = rank[t] => s = t
  BY <1>2 DEF ManagerTypeOK, Cached
<1>4. r \in Cached <=> rank[r] > 0
  BY DEF Cached
<1>5. ASSUME NEW s \in RunIDs \ {r}, ~Behind(r, s)
      PROVE  /\ rank[s] \in 1 .. N
             /\ rank[r] > 0 => rank[s] < rank[r]
             /\ Used(r)[s] = IF rank[s] = N THEN 0 ELSE rank[s] + 1
  BY <1>1, <1>2, <1>3, <1>4, <1>5 DEF Used, Behind
<1>6. ASSUME NEW s \in RunIDs \ {r}, Behind(r, s)
      PROVE  /\ Used(r)[s] = rank[s]
             /\ rank[s] > 0 => rank[r] > 0 /\ rank[s] > rank[r]
  BY <1>1, <1>2, <1>4, <1>6 DEF Used, Behind
<1>7. Used(r)[r] = 1
  BY DEF Used
<1>8. Used(r) \in [RunIDs -> 0 .. N]
  <2>1. ASSUME NEW s \in RunIDs PROVE Used(r)[s] \in 0 .. N
    <3>1. CASE s = r
      BY <1>1, <1>7, <3>1
    <3>2. CASE s # r /\ Behind(r, s)
      BY <1>2, <1>6, <3>2
    <3>3. CASE s # r /\ ~Behind(r, s)
      BY <1>1, <1>5, <3>3
    <3> QED BY <3>1, <3>2, <3>3
  <2> QED BY <2>1 DEF Used
<1>9. ASSUME NEW s \in RunIDs \ {r} PROVE Used(r)[s] # 1
  <2>1. CASE Behind(r, s)
    BY <1>1, <1>2, <1>6, <2>1
  <2>2. CASE ~Behind(r, s)
    BY <1>1, <1>2, <1>5, <2>2
  <2> QED BY <2>1, <2>2
<1>10. ASSUME NEW s \in RunIDs \ {r}, NEW t \in RunIDs \ {r}, Used(r)[s] > 0, Used(r)[s] = Used(r)[t]
       PROVE  s = t
  <2>1. CASE Behind(r, s) /\ Behind(r, t)
    BY <1>3, <1>6, <1>10, <2>1
  <2>2. CASE Behind(r, s) /\ ~Behind(r, t)
    BY <1>1, <1>2, <1>5, <1>6, <1>10, <2>2
  <2>3. CASE ~Behind(r, s) /\ Behind(r, t)
    BY <1>1, <1>2, <1>5, <1>6, <1>10, <2>3
  <2>4. CASE ~Behind(r, s) /\ ~Behind(r, t)
    BY <1>1, <1>2, <1>3, <1>5, <1>10, <2>4
  <2> QED BY <2>1, <2>2, <2>3, <2>4
<1>11. ASSUME NEW s \in RunIDs \ {r} PROVE Used(r)[s] > 0 <=> s \in Cached \ Evicted(r)
  <2>1. s \in Cached \ Evicted(r) <=> rank[s] > 0 /\ ~(rank[r] = 0 /\ rank[s] = N)
    BY <1>1, <1>2, <1>4 DEF Cached, Evicted
  <2>2. CASE Behind(r, s)
    BY <1>1, <1>2, <1>6, <2>1, <2>2
  <2>3. CASE ~Behind(r, s)
    BY <1>1, <1>2, <1>5, <2>1, <2>3
  <2> QED BY <2>2, <2>3
<1> QED BY <1>7, <1>8, <1>9, <1>10, <1>11

LEMMA RemovedRanks ==
  ASSUME ManagerTypeOK, NEW r \in Cached
  PROVE  /\ Removed(r) \in [RunIDs -> 0 .. MaxParallelRuns]
         /\ \A s, t \in RunIDs : Removed(r)[s] > 0 /\ Removed(r)[s] = Removed(r)[t] => s = t
         /\ \A s \in RunIDs : Removed(r)[s] > 0 <=> s \in Cached \ {r}
<1>1. MaxParallelRuns \in Nat /\ rank \in [RunIDs -> 0 .. MaxParallelRuns]
  BY RunManagerAssumption DEF ManagerTypeOK
<1>2. \A s, t \in RunIDs : rank[s] > 0 /\ rank[s] = rank[t] => s = t
  BY <1>1 DEF ManagerTypeOK, Cached
<1>3. r \in RunIDs /\ rank[r] > 0
  BY DEF Cached
<1>4. \A s \in RunIDs : Removed(r)[s] = IF s = r THEN 0
                                        ELSE IF rank[s] > rank[r] THEN rank[s] - 1 ELSE rank[s]
  BY DEF Removed
<1>5. Removed(r) \in [RunIDs -> 0 .. MaxParallelRuns]
  <2>1. ASSUME NEW s \in RunIDs PROVE Removed(r)[s] \in 0 .. MaxParallelRuns
    <3>1. rank[s] \in 0 .. MaxParallelRuns /\ rank[r] \in 0 .. MaxParallelRuns
      BY <1>1, <1>3
    <3>2. rank[s] > rank[r] => rank[s] - 1 \in 0 .. MaxParallelRuns
      BY <1>1, <3>1
    <3> QED BY <1>1, <1>4, <3>1, <3>2
  <2> QED BY <2>1 DEF Removed
<1>6. ASSUME NEW s \in RunIDs, NEW t \in RunIDs, Removed(r)[s] > 0, Removed(r)[s] = Removed(r)[t]
      PROVE  s = t
  <2>1. rank[s] \in Nat /\ rank[t] \in Nat /\ rank[r] \in Nat
    BY <1>1, <1>3
  <2>2. s # r /\ t # r
    BY <1>4, <1>6
  <2>3. rank[s] # rank[r] /\ rank[t] # rank[r]
    BY <1>2, <1>3, <2>2
  <2>4. rank[s] = rank[t] /\ rank[s] > 0
    BY <1>3, <1>4, <1>6, <2>1, <2>2, <2>3
  <2> QED BY <1>2, <2>4
<1>7. ASSUME NEW s \in RunIDs PROVE Removed(r)[s] > 0 <=> s \in Cached \ {r}
  <2>1. rank[s] \in Nat /\ rank[r] \in Nat
    BY <1>1, <1>3
  <2>2. rank[s] > rank[r] => rank[s] - 1 > 0
    BY <1>3, <2>1
  <2> QED BY <1>3, <1>4, <2>1, <2>2 DEF Cached
<1> QED BY <1>5, <1>6, <1>7

\* The types that speak of ranks, and what a change of them does to them.
LEMMA UseTypes ==
  ASSUME ManagerTypeOK, NEW r \in RunIDs, rank' = Used(r),
         expired' = expired \ (Evicted(r) \cup {r}) \/ (r \in Cached /\ expired' = expired)
  PROVE  /\ rank' \in [RunIDs -> 0 .. MaxParallelRuns]
         /\ \A s, t \in Cached' : rank'[s] = rank'[t] => s = t
         /\ expired' \subseteq Cached'
         /\ Cached' = (Cached \ Evicted(r)) \cup {r}
<1>1. Cached' = (Cached \ Evicted(r)) \cup {r}
  <2>1. \A s \in RunIDs : rank'[s] > 0 <=> s = r \/ s \in Cached \ Evicted(r)
    BY UsedRanks
  <2> QED BY <2>1 DEF Cached
<1>2. r \in Cached => Evicted(r) = {}
  BY DEF Evicted
<1>3. expired' \subseteq Cached'
  BY <1>1, <1>2 DEF ManagerTypeOK
<1>4. \A s, t \in Cached' : rank'[s] = rank'[t] => s = t
  <2>1. \A s \in Cached' : s \in RunIDs /\ rank'[s] > 0
    BY DEF Cached
  <2> QED BY <2>1, UsedRanks
<1> QED BY <1>1, <1>3, <1>4, UsedRanks

LEMMA StepManagerType ==
  ASSUME ManagerTypeOK, [ManagerNext]_managerVars PROVE ManagerTypeOK'
<1> DEFINE CallOK == /\ mpc \in [Callers -> {"idle", "adding", "missed", "got", "nil"}]
                     /\ mrun \in [Callers -> RunIDs \cup {NoRun}]
                     /\ \A c \in Callers : mpc[c] # "idle" => mrun[c] \in RunIDs
           RankOK == /\ rank \in [RunIDs -> 0 .. MaxParallelRuns]
                     /\ \A r, s \in Cached : rank[r] = rank[s] => r = s
                     /\ expired \subseteq Cached
           SetOK == /\ stored \subseteq RunIDs /\ live \in [RunIDs -> SUBSET URLs]
                    /\ added \subseteq RunIDs /\ deleted \subseteq RunIDs
<1>p. ManagerTypeOK <=> CallOK /\ RankOK /\ SetOK
  BY DEF ManagerTypeOK
<1>q. ManagerTypeOK' <=> CallOK' /\ RankOK' /\ SetOK'
  BY DEF ManagerTypeOK
<1>0. RankOK /\ UNCHANGED <<rank, expired>> => RankOK'
  BY DEF Cached
<1>d. ASSUME NEW gone \in SUBSET RunIDs, Delete(gone), added' = added PROVE SetOK'
  BY <1>p, <1>d DEF Delete
<1>1. ASSUME NEW c \in Callers, NEW r \in RunIDs, Add(c, r) PROVE ManagerTypeOK'
  BY <1>1, <1>p, <1>q, <1>0 DEF Add, SaveRun
<1>2. ASSUME NEW c \in Callers, NEW r \in added, Hit(c, r) PROVE ManagerTypeOK'
  <2>1. r \in RunIDs
    BY <1>p
  <2>2. RankOK'
    BY <1>2, <2>1, UseTypes DEF Hit
  <2> QED BY <1>2, <1>p, <1>q, <2>1, <2>2 DEF Hit, store
<1>3. ASSUME NEW c \in Callers, NEW r \in added, Miss(c, r) PROVE ManagerTypeOK'
  BY <1>3, <1>p, <1>q, <1>0 DEF Miss, store
<1>4. ASSUME NEW c \in Callers, AddEntry(c) PROVE ManagerTypeOK'
  <2>1. mrun[c] \in RunIDs
    BY <1>4, <1>p DEF AddEntry
  <2>2. RankOK'
    BY <1>4, <2>1, UseTypes DEF AddEntry
  <2>3. SetOK'
    BY <1>4, <1>d DEF AddEntry, Evicted
  <2> QED BY <1>4, <1>p, <1>q, <2>2, <2>3 DEF AddEntry
<1>5. ASSUME NEW c \in Callers, Load(c) PROVE ManagerTypeOK'
  BY <1>5, <1>p, <1>q, <1>0 DEF Load, Loaded
<1>6. ASSUME NEW c \in Callers, Release(c) PROVE ManagerTypeOK'
  BY <1>6, <1>p, <1>q, <1>0 DEF Release, store
<1>7. ASSUME NEW r \in RunIDs, Expire(r) PROVE ManagerTypeOK'
  BY <1>7, <1>p, <1>q DEF Expire, store, Cached
<1>8. ASSUME NEW r \in RunIDs, Clean(r) PROVE ManagerTypeOK'
  <2>1. r \in Cached
    BY <1>8, <1>p DEF Clean
  <2>2. Cached' = Cached \ {r}
    BY <1>8, <2>1, RemovedRanks DEF Clean, Cached
  <2>3. RankOK'
    <3>1. \A s \in Cached' : s \in RunIDs /\ rank'[s] > 0
      BY DEF Cached
    <3>2. rank' = Removed(r) /\ expired' = expired \ {r}
      BY <1>8 DEF Clean
    <3> QED BY <1>p, <2>1, <2>2, <3>1, <3>2, RemovedRanks
  <2>4. SetOK'
    BY <1>8, <1>d DEF Clean
  <2> QED BY <1>8, <1>p, <1>q, <2>3, <2>4 DEF Clean
<1>9. ASSUME NEW r \in RunIDs, NEW u \in URLs, SawURL(r, u) PROVE ManagerTypeOK'
  BY <1>9, <1>p, <1>q, <1>0 DEF SawURL
<1>10. ASSUME UNCHANGED managerVars PROVE ManagerTypeOK'
  BY <1>10, <1>p, <1>q, <1>0 DEF managerVars, store
<1> QED BY <1>1, <1>2, <1>3, <1>4, <1>5, <1>6, <1>7, <1>8, <1>9, <1>10
        DEF ManagerNext, Get, ManagerStep

\* The cache is never larger than MaxParallelRuns, whoever adds and expires,
\* and calls know their runs (runmanager.go:24-45).
THEOREM ManagerTypes == ManagerSpec => []ManagerTypeOK
<1>1. ManagerInit => ManagerTypeOK
  BY RunManagerAssumption DEF ManagerInit, ManagerTypeOK, Cached
<1> QED BY <1>1, StepManagerType, PTL DEF ManagerSpec

\* Whatever deletes a run's Seen URLs takes the run out of the cache in the
\* same step: also an eviction, of the run that was not used for longest.
THEOREM SeenIsKept == ManagerSpec => SeenKept
<1> DEFINE Keeps == \A r \in RunIDs : live[r] \subseteq live'[r] \/ (r \in Cached /\ r \notin Cached')
<1>1. ManagerTypeOK /\ [ManagerNext]_managerVars => [Keeps]_managerVars
  <2> SUFFICES ASSUME ManagerTypeOK, ManagerNext, NEW r \in RunIDs
               PROVE  live[r] \subseteq live'[r] \/ (r \in Cached /\ r \notin Cached')
    OBVIOUS
  <2>0. live \in [RunIDs -> SUBSET URLs]
    BY DEF ManagerTypeOK
  <2>1. ASSUME NEW c \in Callers, AddEntry(c)
        PROVE  live[r] \subseteq live'[r] \/ (r \in Cached /\ r \notin Cached')
    <3>1. mrun[c] \in RunIDs
      BY <2>1 DEF AddEntry, ManagerTypeOK
    <3>2. Cached' = (Cached \ Evicted(mrun[c])) \cup {mrun[c]}
      BY <2>1, <3>1, UseTypes DEF AddEntry
    <3>3. r \notin Evicted(mrun[c]) => live'[r] = live[r]
      BY <2>1 DEF AddEntry, Delete
    <3>4. r \in Evicted(mrun[c]) => r \in Cached /\ r # mrun[c]
      BY <3>1, RunManagerAssumption DEF Evicted, Cached, ManagerTypeOK
    <3> QED BY <3>2, <3>3, <3>4
  <2>2. ASSUME NEW s \in RunIDs, Clean(s)
        PROVE  live[r] \subseteq live'[r] \/ (r \in Cached /\ r \notin Cached')
    <3>1. s \in Cached
      BY <2>2 DEF Clean, ManagerTypeOK
    <3>2. s \notin Cached'
      BY <2>2, <3>1, RemovedRanks DEF Clean, Cached
    <3> QED BY <2>2, <3>1, <3>2 DEF Clean, Delete
  <2>3. ASSUME NEW s \in RunIDs, NEW u \in URLs, SawURL(s, u) PROVE live[r] \subseteq live'[r]
    BY <2>0, <2>3 DEF SawURL
  <2>4. ASSUME NEW c \in Callers,
               \/ Load(c) \/ Release(c)
               \/ \E s \in RunIDs : Add(c, s)
               \/ \E s \in added : Get(c, s)
        PROVE  live' = live
    BY <2>4 DEF Load, Loaded, Release, Add, SaveRun, Get, Hit, Miss, store
  <2>5. ASSUME NEW s \in RunIDs, Expire(s) PROVE live' = live
    BY <2>5 DEF Expire, store
  <2> QED BY <2>1, <2>2, <2>3, <2>4, <2>5 DEF ManagerNext, ManagerStep
<1> QED BY <1>1, ManagerTypes, PTL DEF ManagerSpec, SeenKept
=============================================================================
