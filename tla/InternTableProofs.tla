------------------------- MODULE InternTableProofs -------------------------
(***************************************************************************)
(* The intern table keeps one live slot per value and intern returns a     *)
(* live reference to the value it was asked for, for any threads, values,  *)
(* hashes, shards and slots.                                               *)
(***************************************************************************)
EXTENDS InternTable, TLAPS

Home(v)    == ShardOf[HashOf[v]]
CacheIndex == {CacheOf[h] : h \in Hashes}
Refs       == Slots \cup {NoRef}

Maps ==
  /\ state \in [Slots -> {"FreeList", "Used", "Free"}]
  /\ value \in [Slots -> Values \cup {NoRef}]
  /\ map \in [Shards -> [Keys -> Refs]]
  /\ owner \in [Shards -> Threads \cup {NoThread}]
  /\ cache \in [Threads -> [CacheIndex -> [hash : Keys \cup {NoKey}, ref : Refs]]]
  /\ pc \in [Threads -> {"idle", "cache", "lock", "probe"}]
  /\ want \in [Threads -> Values \cup {NoRef}]
  /\ key \in [Threads -> Keys]
  /\ stale \in [Threads -> Keys \cup {NoKey}]
  /\ \A t \in Threads : pc[t] # "idle" => want[t] \in Values

\* A used slot can be found: it is in the chain of its value, before the chain's end.
Linked(v, s, k) ==
  /\ k >= HashOf[v] /\ map[Home(v)][k] = s
  /\ \A j \in Keys : HashOf[v] <= j /\ j <= k => map[Home(v)][j] # NoRef
Chained ==
  \A s \in Slots : state[s] = "Used" =>
    value[s] \in Values /\ \E k \in Keys : Linked(value[s], s, k)

\* What a thread in the middle of a probe has passed is not what it looks for, and
\* the entry it remembers is of no use to its shard.  Other shards go on meanwhile,
\* and may use again the slot behind that entry.
Passed(t, j)    == map[Shard(t)][j] # NoRef /\ ~Matches(map[Shard(t)][j], want[t])
Disposable(t, j) ==
  Valid(map[Shard(t)][j]) => Home(value[map[Shard(t)][j]]) # Shard(t)
Walk(t) ==
  /\ owner[Shard(t)] = t
  /\ key[t] >= Hash(t)
  /\ \A j \in Keys : Hash(t) <= j /\ j < key[t] => Passed(t, j)
  /\ stale[t] # NoKey => /\ Hash(t) <= stale[t] /\ stale[t] < key[t]
                         /\ Disposable(t, stale[t])
Walks ==
  \A t \in Threads : /\ pc[t] = "probe" => Walk(t)
                     /\ pc[t] # "probe" => stale[t] = NoKey

Inv == Maps /\ Chained /\ Walks /\ HashConsed

-----------------------------------------------------------------------------

LEMMA HashFacts ==
  ASSUME NEW v \in Values
  PROVE  HashOf[v] \in Keys /\ HashOf[v] \in Hashes /\ Home(v) \in Shards
         /\ CacheOf[HashOf[v]] \in CacheIndex
BY HashAssumption DEF Hashes, Shards, Home, CacheIndex

LEMMA InitInv == Init => Inv
<1> SUFFICES ASSUME Init PROVE Inv
  OBVIOUS
<1>1. Maps
  BY HashAssumption DEF Init, Maps, Refs, CacheIndex, Entry, Keys
<1>2. Chained /\ Walks /\ HashConsed
  BY DEF Init, Chained, Walks, HashConsed
<1> QED BY <1>1, <1>2 DEF Inv

\* Steps that leave the slots, the table and its locks alone, and the walk of every
\* probing thread.
LEMMA QuietStep ==
  ASSUME Inv, Maps', UNCHANGED <<store, map>>, Walks'
  PROVE  Inv'
<1>1. Chained' /\ HashConsed'
  BY DEF Inv, store, Chained, Linked, HashConsed
<1> QED BY <1>1 DEF Inv

\* Another thread's walk is not disturbed by a step that keeps the slots and the table.
LEMMA OtherWalk ==
  ASSUME Walks, NEW u \in Threads, UNCHANGED <<store, map>>, pc'[u] = pc[u], want'[u] = want[u], key'[u] = key[u],
         stale'[u] = stale[u],
         pc[u] = "probe" => owner'[Shard(u)] = owner[Shard(u)]
  PROVE  (pc'[u] = "probe" => Walk(u)') /\ (pc'[u] # "probe" => stale'[u] = NoKey)
<1>1. CASE pc[u] # "probe"
  BY <1>1 DEF Walks
<1>2. CASE pc[u] = "probe"
  <2>1. Walk(u)
    BY <1>2 DEF Walks
  <2>2. Hash(u)' = Hash(u) /\ Shard(u)' = Shard(u)
    BY DEF Hash, Shard
  <2>3. \A j : (Passed(u, j)' <=> Passed(u, j)) /\ (Disposable(u, j)' <=> Disposable(u, j))
    BY <2>2 DEF Passed, Disposable, Matches, Valid, store
  <2> QED BY <1>2, <2>1, <2>2, <2>3 DEF Walk
<1> QED BY <1>1, <1>2

-----------------------------------------------------------------------------

LEMMA CallInv ==
  ASSUME Inv, NEW t \in Threads, NEW v \in Values, Call(t, v)
  PROVE  Inv'
<1>1. Maps'
  BY DEF Inv, Maps, Call, store
<1>2. Walks'
  <2> SUFFICES ASSUME NEW u \in Threads
               PROVE  (pc'[u] = "probe" => Walk(u)') /\ (pc'[u] # "probe" => stale'[u] = NoKey)
    BY DEF Walks
  <2>1. CASE u = t
    BY <2>1 DEF Inv, Walks, Maps, Call
  <2>2. CASE u # t
    BY <2>2, OtherWalk DEF Inv, Maps, Call
  <2> QED BY <2>1, <2>2
<1> QED BY <1>1, <1>2, QuietStep DEF Call

LEMMA CacheHitInv ==
  ASSUME Inv, NEW t \in Threads, CacheHit(t)
  PROVE  Inv'
<1>1. Maps'
  BY HashAssumption DEF Inv, Maps, CacheHit, Return, store, Keys
<1>2. Walks'
  <2> SUFFICES ASSUME NEW u \in Threads
               PROVE  (pc'[u] = "probe" => Walk(u)') /\ (pc'[u] # "probe" => stale'[u] = NoKey)
    BY DEF Walks
  <2>1. CASE u = t
    BY <2>1 DEF Inv, Maps, CacheHit, Return
  <2>2. CASE u # t
    BY <2>2, OtherWalk DEF Inv, Maps, CacheHit, Return
  <2> QED BY <2>1, <2>2
<1> QED BY <1>1, <1>2, QuietStep DEF CacheHit

LEMMA CacheMissInv ==
  ASSUME Inv, NEW t \in Threads, CacheMiss(t)
  PROVE  Inv'
<1>1. Maps'
  BY DEF Inv, Maps, CacheMiss, store
<1>2. Walks'
  <2> SUFFICES ASSUME NEW u \in Threads
               PROVE  (pc'[u] = "probe" => Walk(u)') /\ (pc'[u] # "probe" => stale'[u] = NoKey)
    BY DEF Walks
  <2>1. CASE u = t
    BY <2>1 DEF Inv, Walks, Maps, CacheMiss
  <2>2. CASE u # t
    BY <2>2, OtherWalk DEF Inv, Maps, CacheMiss
  <2> QED BY <2>1, <2>2
<1> QED BY <1>1, <1>2, QuietStep DEF CacheMiss

LEMMA LockInv ==
  ASSUME Inv, NEW t \in Threads, Lock(t)
  PROVE  Inv'
<1>0. want[t] \in Values
  BY DEF Inv, Maps, Lock
<1>1. Maps'
  BY <1>0, HashFacts DEF Inv, Maps, Lock, store, Hash, Shard, Home
<1>2. Walks'
  <2> SUFFICES ASSUME NEW u \in Threads
               PROVE  (pc'[u] = "probe" => Walk(u)') /\ (pc'[u] # "probe" => stale'[u] = NoKey)
    BY DEF Walks
  <2>1. CASE u = t
    <3>1. owner'[Shard(t)] = t
      BY <1>0, HashFacts DEF Inv, Maps, Lock, Hash, Shard, Home
    <3>2. key'[t] = Hash(t) /\ Hash(t)' = Hash(t) /\ Shard(t)' = Shard(t) /\ Hash(t) \in Keys
      BY <1>0, HashFacts DEF Inv, Maps, Lock, Hash, Shard
    <3>3. stale'[t] = NoKey
      BY DEF Inv, Walks, Lock
    <3> QED BY <2>1, <3>1, <3>2, <3>3 DEF Walk, Keys
  <2>2. CASE u # t
    <3>1. pc[u] = "probe" => Shard(u) # Shard(t)
      BY NamesAssumption DEF Inv, Walks, Walk, Lock
    <3>2. pc[u] = "probe" => owner'[Shard(u)] = owner[Shard(u)]
      BY <3>1 DEF Inv, Maps, Lock
    <3> QED BY <2>2, <3>2, OtherWalk DEF Inv, Maps, Lock
  <2> QED BY <2>1, <2>2
<1> QED BY <1>1, <1>2, QuietStep DEF Lock

LEMMA ProbeHitInv ==
  ASSUME Inv, NEW t \in Threads, ProbeHit(t)
  PROVE  Inv'
<1>0. /\ want[t] \in Values /\ Shard(t) \in Shards /\ At(t) \in Refs /\ Hash(t) \in Keys
      /\ CacheOf[Hash(t)] \in CacheIndex
  BY HashFacts DEF Inv, Maps, ProbeHit, At, Hash, Shard, Home
<1>1. Maps'
  <2>1. cache' \in [Threads -> [CacheIndex -> [hash : Keys \cup {NoKey}, ref : Refs]]]
    BY <1>0 DEF Inv, Maps, ProbeHit, Remember, Entry
  <2>2. /\ owner' \in [Shards -> Threads \cup {NoThread}]
        /\ pc' \in [Threads -> {"idle", "cache", "lock", "probe"}]
        /\ want' \in [Threads -> Values \cup {NoRef}]
        /\ key' \in [Threads -> Keys]
        /\ stale' \in [Threads -> Keys \cup {NoKey}]
        /\ \A u \in Threads : pc'[u] # "idle" => want'[u] \in Values
    BY <1>0, HashAssumption DEF Inv, Maps, ProbeHit, Unlock, Return, Keys
  <2> QED BY <2>1, <2>2 DEF Inv, Maps, ProbeHit, store
<1>2. Walks'
  <2> SUFFICES ASSUME NEW u \in Threads
               PROVE  (pc'[u] = "probe" => Walk(u)') /\ (pc'[u] # "probe" => stale'[u] = NoKey)
    BY DEF Walks
  <2>1. CASE u = t
    BY <2>1 DEF Inv, Maps, ProbeHit, Return
  <2>2. CASE u # t
    <3>1. pc[u] = "probe" => Shard(u) # Shard(t)
      BY <2>2 DEF Inv, Walks, Walk, ProbeHit
    <3>2. pc[u] = "probe" => owner'[Shard(u)] = owner[Shard(u)]
      BY <3>1 DEF Inv, Maps, ProbeHit, Unlock
    <3> QED BY <2>2, <3>2, OtherWalk DEF Inv, Maps, ProbeHit, Return
  <2> QED BY <2>1, <2>2
<1> QED BY <1>1, <1>2, QuietStep DEF ProbeHit

LEMMA ProbeNextInv ==
  ASSUME Inv, NEW t \in Threads, ProbeNext(t)
  PROVE  Inv'
<1>0. key[t] \in Keys /\ key'[t] = key[t] + 1 /\ key'[t] \in Keys
  BY HashAssumption DEF Inv, Maps, ProbeNext, Keys
<1>1. Maps'
  BY <1>0 DEF Inv, Maps, ProbeNext, store
<1>2. Walks'
  <2> SUFFICES ASSUME NEW u \in Threads
               PROVE  (pc'[u] = "probe" => Walk(u)') /\ (pc'[u] # "probe" => stale'[u] = NoKey)
    BY DEF Walks
  <2>1. CASE u = t
    <3>1. Walk(t) /\ pc'[t] = "probe" /\ Hash(t) \in Keys
      BY HashFacts DEF Inv, Walks, Maps, ProbeNext, Hash
    <3>2. Hash(t)' = Hash(t) /\ Shard(t)' = Shard(t) /\ owner' = owner
      BY DEF Hash, Shard, ProbeNext
    <3>3. \A j \in Keys : (Passed(t, j)' <=> Passed(t, j)) /\ (Disposable(t, j)' <=> Disposable(t, j))
      BY <3>2 DEF Passed, Disposable, Matches, Valid, ProbeNext, store
    <3>4. Passed(t, key[t])
      BY DEF ProbeNext, At, Passed
    <3>5. \A j \in Keys : Hash(t) <= j /\ j < key'[t] => Passed(t, j)'
      BY <1>0, <3>1, <3>3, <3>4 DEF Walk, Keys
    <3>6. CASE stale[t] = NoKey /\ ~Valid(At(t))
      <4>1. stale'[t] = key[t] /\ Disposable(t, key[t])
        BY <3>6 DEF Inv, Maps, ProbeNext, Disposable, At
      <4> QED BY <1>0, <2>1, <3>1, <3>2, <3>3, <3>5, <4>1 DEF Walk, Keys
    <3>7. CASE ~(stale[t] = NoKey /\ ~Valid(At(t)))
      <4>1. stale'[t] = stale[t] /\ stale[t] \in Keys \cup {NoKey}
        BY <3>7 DEF Inv, Maps, ProbeNext
      <4> QED BY <1>0, <2>1, <3>1, <3>2, <3>3, <3>5, <4>1 DEF Walk, Keys
    <3> QED BY <3>6, <3>7
  <2>2. CASE u # t
    BY <2>2, OtherWalk DEF Inv, Maps, ProbeNext
  <2> QED BY <2>1, <2>2
<1> QED BY <1>1, <1>2, QuietStep DEF ProbeNext

-----------------------------------------------------------------------------

\* The entry ProbeEnd writes: the first stale one, or the end of the chain.
Target(t) == IF stale[t] # NoKey THEN stale[t] ELSE key[t]

LEMMA ProbeEndFacts ==
  ASSUME Inv, NEW t \in Threads, NEW s \in Slots, ProbeEnd(t, s)
  PROVE  /\ want[t] \in Values /\ Shard(t) \in Shards /\ Shard(t) = Home(want[t])
         /\ Hash(t) \in Keys /\ CacheOf[Hash(t)] \in CacheIndex
         /\ key[t] \in Keys /\ Target(t) \in Keys
         /\ Hash(t) <= Target(t) /\ Target(t) <= key[t]
         /\ Walk(t) /\ map[Shard(t)][key[t]] = NoRef
         /\ Disposable(t, Target(t))
<1>1. /\ want[t] \in Values /\ Shard(t) \in Shards /\ Shard(t) = Home(want[t])
      /\ Hash(t) \in Keys /\ CacheOf[Hash(t)] \in CacheIndex
      /\ key[t] \in Keys /\ stale[t] \in Keys \cup {NoKey}
  BY HashFacts DEF Inv, Maps, ProbeEnd, Hash, Shard, Home
<1>2. Walk(t) /\ map[Shard(t)][key[t]] = NoRef
  BY DEF Inv, Walks, ProbeEnd, At
<1>3. CASE stale[t] = NoKey
  BY <1>1, <1>2, <1>3 DEF Walk, Target, Disposable, Valid, Keys
<1>4. CASE stale[t] # NoKey
  BY <1>1, <1>2, <1>4 DEF Walk, Target, Keys
<1> QED BY <1>1, <1>2, <1>3, <1>4

LEMMA ProbeEndMaps ==
  ASSUME Inv, NEW t \in Threads, NEW s \in Slots, ProbeEnd(t, s)
  PROVE  Maps'
<1>0. /\ want[t] \in Values /\ Shard(t) \in Shards /\ CacheOf[Hash(t)] \in CacheIndex
      /\ Hash(t) \in Keys /\ Target(t) \in Keys
  BY ProbeEndFacts
<1>1. cache' \in [Threads -> [CacheIndex -> [hash : Keys \cup {NoKey}, ref : Refs]]]
  BY <1>0 DEF Inv, Maps, ProbeEnd, Remember, Entry, Refs
<1>2. map' \in [Shards -> [Keys -> Refs]]
  BY <1>0 DEF Inv, Maps, ProbeEnd, Refs, Target
<1>3. /\ state' \in [Slots -> {"FreeList", "Used", "Free"}]
      /\ value' \in [Slots -> Values \cup {NoRef}]
      /\ owner' \in [Shards -> Threads \cup {NoThread}]
  BY <1>0 DEF Inv, Maps, ProbeEnd, Unlock
<1>4. /\ pc' \in [Threads -> {"idle", "cache", "lock", "probe"}]
      /\ want' \in [Threads -> Values \cup {NoRef}]
      /\ key' \in [Threads -> Keys]
      /\ stale' \in [Threads -> Keys \cup {NoKey}]
      /\ \A u \in Threads : pc'[u] # "idle" => want'[u] \in Values
  BY HashAssumption DEF Inv, Maps, ProbeEnd, Return, Keys
<1> QED BY <1>1, <1>2, <1>3, <1>4 DEF Maps

\* What is in the table, the slots and the locks after ProbeEnd.
LEMMA ProbeEndEffect ==
  ASSUME Inv, NEW t \in Threads, NEW s \in Slots, ProbeEnd(t, s)
  PROVE  /\ state[s] # "Used" /\ state'[s] = "Used" /\ value'[s] = want[t]
         /\ \A r \in Slots : r # s => state'[r] = state[r] /\ value'[r] = value[r]
         /\ map'[Shard(t)][Target(t)] = s
         /\ \A k \in Keys : k # Target(t) => map'[Shard(t)][k] = map[Shard(t)][k]
         /\ \A sh \in Shards : sh # Shard(t) => map'[sh] = map[sh]
                                            /\ owner'[sh] = owner[sh]
BY ProbeEndFacts DEF Inv, Maps, ProbeEnd, Unlock, Target

LEMMA ProbeEndChained ==
  ASSUME Inv, NEW t \in Threads, NEW s \in Slots, ProbeEnd(t, s)
  PROVE  Chained'
<1> SUFFICES ASSUME NEW r \in Slots, state'[r] = "Used"
             PROVE  value'[r] \in Values /\ \E k \in Keys : Linked(value[r], r, k)'
  BY DEF Chained
<1>T. PICK T \in Keys : T = Target(t)
  BY ProbeEndFacts
<1>0. /\ want[t] \in Values /\ Shard(t) \in Shards /\ Shard(t) = Home(want[t])
      /\ Hash(t) = HashOf[want[t]] /\ T \in Keys /\ key[t] \in Keys
      /\ Hash(t) <= T /\ T <= key[t] /\ Walk(t) /\ Disposable(t, T)
  BY <1>T, ProbeEndFacts DEF Hash
<1>a. s # NoRef
  BY NamesAssumption
<1>1. CASE r = s
  <2>1. \A j \in Keys : Hash(t) <= j /\ j <= T => map'[Shard(t)][j] # NoRef
    <3> SUFFICES ASSUME NEW j \in Keys, Hash(t) <= j, j <= T
                 PROVE  map'[Shard(t)][j] # NoRef
      OBVIOUS
    <3>1. CASE j = T
      BY <3>1, <1>a, <1>T, ProbeEndEffect
    <3>2. CASE j # T
      <4>1. j < key[t]
        BY <3>2, <1>0 DEF Keys
      <4>2. map[Shard(t)][j] # NoRef
        BY <4>1, <1>0 DEF Walk, Passed
      <4> QED BY <3>2, <4>2, <1>T, ProbeEndEffect
    <3> QED BY <3>1, <3>2
  <2>2. value'[s] = want[t] /\ map'[Shard(t)][T] = s
    BY <1>T, ProbeEndEffect
  <2>3. Linked(value[s], s, T)'
    BY <2>1, <2>2, <1>0 DEF Linked, Home
  <2> QED BY <1>1, <1>0, <2>2, <2>3
<1>2. CASE r # s
  <2>1. state[r] = "Used" /\ value'[r] = value[r]
    BY <1>2, <1>T, ProbeEndEffect
  <2>2. PICK k \in Keys : Linked(value[r], r, k)
    BY <2>1 DEF Inv, Chained
  <2>3. value[r] \in Values /\ Home(value[r]) \in Shards
    BY <2>1, HashFacts DEF Inv, Chained
  <2>4. CASE Home(value[r]) = Shard(t)
    <3>1. k # T
      <4> SUFFICES ASSUME k = T PROVE FALSE
        OBVIOUS
      <4>1. map[Shard(t)][T] = r
        BY <2>2, <2>4 DEF Linked
      <4>2. Valid(r)
        BY <2>1, NamesAssumption DEF Valid
      <4> QED BY <4>1, <4>2, <2>4, <1>0 DEF Disposable
    <3>2. Linked(value[r], r, k)'
      BY <3>1, <2>1, <2>2, <2>4, <1>a, <1>0, <1>T, ProbeEndEffect DEF Linked, Home
    <3> QED BY <3>2, <2>1, <2>3
  <2>5. CASE Home(value[r]) # Shard(t)
    <3>1. Linked(value[r], r, k)'
      BY <2>1, <2>2, <2>3, <2>5, <1>T, ProbeEndEffect DEF Linked, Home
    <3> QED BY <3>1, <2>1, <2>3
  <2> QED BY <2>4, <2>5
<1> QED BY <1>1, <1>2

\* The value is not in a slot already: it would have been met on the way.
LEMMA ProbeEndFresh ==
  ASSUME Inv, NEW t \in Threads, NEW s \in Slots, ProbeEnd(t, s),
         NEW r \in Slots, state[r] = "Used"
  PROVE  value[r] # want[t]
<1> SUFFICES ASSUME value[r] = want[t] PROVE FALSE
  OBVIOUS
<1>1. PICK k \in Keys : Linked(want[t], r, k)
  BY DEF Inv, Chained
<1>2. /\ Shard(t) = Home(want[t]) /\ Hash(t) = HashOf[want[t]] /\ key[t] \in Keys
      /\ Hash(t) <= key[t] /\ Walk(t) /\ map[Shard(t)][key[t]] = NoRef /\ Hash(t) \in Keys
  BY ProbeEndFacts DEF Hash, Walk
<1>3. ~(key[t] <= k)
  BY <1>1, <1>2 DEF Linked
<1>4. Passed(t, k)
  BY <1>1, <1>2, <1>3 DEF Linked, Walk, Keys
<1>5. map[Shard(t)][k] = r /\ r # NoRef
  BY <1>1, <1>2, NamesAssumption DEF Linked
<1> QED BY <1>4, <1>5 DEF Passed, Matches, Valid

LEMMA ProbeEndWalks ==
  ASSUME Inv, NEW t \in Threads, NEW s \in Slots, ProbeEnd(t, s)
  PROVE  Walks'
<1> SUFFICES ASSUME NEW u \in Threads
             PROVE  (pc'[u] = "probe" => Walk(u)') /\ (pc'[u] # "probe" => stale'[u] = NoKey)
  BY DEF Walks
<1>0. want[t] \in Values /\ Shard(t) \in Shards /\ Shard(t) = Home(want[t]) /\ Walk(t)
  BY ProbeEndFacts
<1>1. CASE u = t
  BY <1>1 DEF Inv, Maps, ProbeEnd, Return
<1>2. CASE u # t
  <2>1. /\ pc'[u] = pc[u] /\ want'[u] = want[u] /\ key'[u] = key[u] /\ stale'[u] = stale[u]
    BY <1>2 DEF Inv, Maps, ProbeEnd, Return
  <2>2. CASE pc[u] # "probe"
    BY <2>1, <2>2 DEF Inv, Walks
  <2>3. CASE pc[u] = "probe"
    <3>1. Walk(u) /\ owner[Shard(u)] = u /\ key[u] \in Keys /\ stale[u] \in Keys \cup {NoKey}
      BY <2>3 DEF Inv, Walks, Walk, Maps
    <3>2. Shard(u) # Shard(t)
      BY <1>0, <1>2, <3>1 DEF Walk
    <3>3. /\ want[u] \in Values /\ Shard(u) \in Shards /\ Shard(u) = Home(want[u])
          /\ Hash(u)' = Hash(u) /\ Shard(u)' = Shard(u)
      BY <2>1, <2>3, HashFacts DEF Inv, Maps, Hash, Shard, Home
    <3>4. map'[Shard(u)] = map[Shard(u)] /\ owner'[Shard(u)] = owner[Shard(u)]
      BY <3>2, <3>3, ProbeEndEffect
    <3>5. \A j \in Keys : map[Shard(u)][j] \in Refs
      BY <3>3 DEF Inv, Maps
    <3>6. \A j \in Keys : Passed(u, j) => Passed(u, j)'
      <4> SUFFICES ASSUME NEW j \in Keys, Passed(u, j) PROVE Passed(u, j)'
        OBVIOUS
      <4>1. CASE map[Shard(u)][j] = s
        <5>1. value'[s] # want[u]
          BY <1>0, <3>2, <3>3, ProbeEndEffect
        <5> QED BY <4>1, <5>1, <2>1, <3>3, <3>4 DEF Passed, Matches
      <4>2. CASE map[Shard(u)][j] # s
        BY <4>2, <2>1, <3>3, <3>4, <3>5, ProbeEndEffect DEF Passed, Matches, Valid, Refs
      <4> QED BY <4>1, <4>2
    <3>7. \A j \in Keys : Disposable(u, j) => Disposable(u, j)'
      <4> SUFFICES ASSUME NEW j \in Keys, Disposable(u, j) PROVE Disposable(u, j)'
        OBVIOUS
      <4>1. CASE map[Shard(u)][j] = s
        <5>1. Home(value'[s]) # Shard(u)
          BY <1>0, <3>2, ProbeEndEffect
        <5> QED BY <4>1, <5>1, <3>3, <3>4 DEF Disposable, Home
      <4>2. CASE map[Shard(u)][j] # s
        <5>1. /\ map[Shard(u)][j] \in Slots => /\ state'[map[Shard(u)][j]] = state[map[Shard(u)][j]]
                                            /\ value'[map[Shard(u)][j]] = value[map[Shard(u)][j]]
              /\ map[Shard(u)][j] \notin Slots => map[Shard(u)][j] = NoRef
          BY <4>2, <3>5, ProbeEndEffect DEF Refs
        <5> QED BY <5>1, <3>3, <3>4 DEF Disposable, Valid, Home
      <4> QED BY <4>1, <4>2
    <3>8. Walk(u)'
      BY <2>1, <3>1, <3>3, <3>4, <3>6, <3>7 DEF Walk
    <3> QED BY <2>1, <2>3, <3>8
  <2> QED BY <2>2, <2>3
<1> QED BY <1>1, <1>2

LEMMA ProbeEndInv ==
  ASSUME Inv, NEW t \in Threads, NEW s \in Slots, ProbeEnd(t, s)
  PROVE  Inv'
<1>1. HashConsed'
  <2> SUFFICES ASSUME NEW r \in Slots, NEW q \in Slots, state'[r] = "Used",
                      state'[q] = "Used", value'[r] = value'[q], r # q
               PROVE  FALSE
    BY DEF HashConsed
  <2>1. CASE r = s
    BY <2>1, ProbeEndEffect, ProbeEndFresh
  <2>2. CASE q = s
    BY <2>2, ProbeEndEffect, ProbeEndFresh
  <2>3. CASE r # s /\ q # s
    BY <2>3, ProbeEndEffect DEF Inv, HashConsed
  <2> QED BY <2>1, <2>2, <2>3
<1> QED BY <1>1, ProbeEndMaps, ProbeEndChained, ProbeEndWalks DEF Inv

\* A slot that leaves the used state breaks no chain, since the table keeps its entry.
LEMMA Unused ==
  ASSUME Inv, Maps', UNCHANGED <<value, map, owner, frame>>,
         \A s \in Slots : state'[s] = "Used" => state[s] = "Used"
  PROVE  Inv'
<1>1. Chained' /\ HashConsed'
  BY DEF Inv, Chained, Linked, HashConsed, Home
<1>2. Walks'
  <2> SUFFICES ASSUME NEW u \in Threads
               PROVE  (pc'[u] = "probe" => Walk(u)') /\ (pc'[u] # "probe" => stale'[u] = NoKey)
    BY DEF Walks
  <2>1. CASE pc[u] # "probe"
    BY <2>1 DEF Inv, Walks, frame
  <2>2. CASE pc[u] = "probe"
    <3>1. Walk(u) /\ Shard(u) \in Shards /\ stale[u] \in Keys \cup {NoKey}
      BY <2>2, HashFacts DEF Inv, Walks, Maps, Shard, Hash, Home
    <3>2. Hash(u)' = Hash(u) /\ Shard(u)' = Shard(u)
      BY DEF Hash, Shard, frame
    <3>3. \A j \in Keys : Valid(map[Shard(u)][j])' => Valid(map[Shard(u)][j])
      BY <3>1, <3>2 DEF Valid, Inv, Maps, Refs
    <3>4. \A j \in Keys : /\ Passed(u, j) => Passed(u, j)'
                          /\ Disposable(u, j) => Disposable(u, j)'
      BY <3>2, <3>3 DEF Passed, Disposable, Matches, Home, frame
    <3> QED BY <2>2, <3>1, <3>2, <3>4 DEF Walk, frame
  <2> QED BY <2>1, <2>2
<1> QED BY <1>1, <1>2 DEF Inv

LEMMA RemoveInv ==
  ASSUME Inv, NEW s \in Slots, Remove(s)
  PROVE  Inv'
<1>1. Maps'
  BY DEF Inv, Maps, Remove, frame
<1>2. \A r \in Slots : state'[r] = "Used" => state[r] = "Used"
  BY DEF Inv, Maps, Remove
<1> QED BY <1>1, <1>2, Unused DEF Remove

LEMMA CollectInv ==
  ASSUME Inv, Collect
  PROVE  Inv'
<1>1. Maps'
  BY DEF Inv, Maps, Collect, frame
<1>2. \A r \in Slots : state'[r] = "Used" => state[r] = "Used"
  BY DEF Collect
<1> QED BY <1>1, <1>2, Unused DEF Collect

-----------------------------------------------------------------------------

LEMMA NextInv == Inv /\ [Next]_vars => Inv'
<1> SUFFICES ASSUME Inv, [Next]_vars PROVE Inv'
  OBVIOUS
<1>1. CASE UNCHANGED vars
  <2>1. Maps'
    BY <1>1 DEF Inv, Maps, vars, store, frame
  <2>2. Walks'
    BY <1>1, OtherWalk DEF Inv, Walks, vars, frame
  <2> QED BY <1>1, <2>1, <2>2, QuietStep DEF vars
<1>2. CASE \E t \in Threads, v \in Values : Call(t, v)
  BY <1>2, CallInv
<1>3. CASE \E t \in Threads : CacheHit(t) \/ CacheMiss(t) \/ Lock(t)
  BY <1>3, CacheHitInv, CacheMissInv, LockInv
<1>4. CASE \E t \in Threads : ProbeHit(t) \/ ProbeNext(t)
  BY <1>4, ProbeHitInv, ProbeNextInv
<1>5. CASE \E t \in Threads, s \in Slots : ProbeEnd(t, s)
  BY <1>5, ProbeEndInv
<1>6. CASE \E s \in Slots : Remove(s)
  BY <1>6, RemoveInv
<1>7. CASE Collect
  BY <1>7, CollectInv
<1> QED BY <1>1, <1>2, <1>3, <1>4, <1>5, <1>6, <1>7 DEF Next, Done

\* Two live slots never hold one value, so references can be compared instead of values.
THEOREM OneSlotPerValue == Spec => []HashConsed
<1>1. Inv => HashConsed
  BY DEF Inv
<1> QED BY InitInv, NextInv, <1>1, PTL DEF Spec

\* Whatever path an intern takes, the reference it returns is live and holds the value.
THEOREM InternReturns == Spec => ReturnsTheValue
<1> DEFINE Good(t) == pc[t] # "idle" /\ pc'[t] = "idle" =>
      LET r == cache'[t][CacheOf[Hash(t)]].ref IN state'[r] = "Used" /\ value'[r] = want[t]
<1>1. Inv /\ Next => \A t \in Threads : Good(t)
  <2> SUFFICES ASSUME Inv, Next, NEW t \in Threads, pc[t] # "idle", pc'[t] = "idle"
               PROVE  LET r == cache'[t][CacheOf[Hash(t)]].ref
                      IN state'[r] = "Used" /\ value'[r] = want[t]
    OBVIOUS
  <2>0. want[t] \in Values /\ CacheOf[Hash(t)] \in CacheIndex
    BY HashFacts DEF Inv, Maps, Hash
  <2>1. CacheHit(t) \/ ProbeHit(t) \/ \E s \in Slots : ProbeEnd(t, s)
    <3>1. Maps /\ pc[t] # pc'[t] /\ pc'[t] = "idle"
      BY DEF Inv
    <3>2. CASE \E u \in Threads, v \in Values : Call(u, v)
      BY <3>1, <3>2 DEF Maps, Call
    <3>3. CASE \E u \in Threads : CacheHit(u)
      BY <3>1, <3>3 DEF Maps, CacheHit, Return
    <3>4. CASE \E u \in Threads : CacheMiss(u) \/ Lock(u) \/ ProbeNext(u)
      BY <3>1, <3>4 DEF Maps, CacheMiss, Lock, ProbeNext
    <3>5. CASE \E u \in Threads : ProbeHit(u)
      BY <3>1, <3>5 DEF Maps, ProbeHit, Return
    <3>6. CASE \E u \in Threads, s \in Slots : ProbeEnd(u, s)
      <4>1. PICK u \in Threads, s \in Slots : ProbeEnd(u, s)
        BY <3>6
      <4>2. u = t
        BY <3>1, <4>1 DEF Maps, ProbeEnd, Return
      <4> QED BY <4>1, <4>2
    <3>7. CASE Collect \/ Done \/ \E s \in Slots : Remove(s)
      BY <3>1, <3>7 DEF Collect, Done, Remove, vars, frame
    <3> QED BY <3>2, <3>3, <3>4, <3>5, <3>6, <3>7 DEF Next
  <2>2. CASE CacheHit(t)
    BY <2>2 DEF CacheHit, CacheLine, Matches, Valid, store
  <2>3. CASE ProbeHit(t)
    <3>1. cache'[t][CacheOf[Hash(t)]].ref = At(t)
      BY <2>0, <2>3 DEF Inv, Maps, ProbeHit, Remember, Entry
    <3> QED BY <2>3, <3>1 DEF ProbeHit, Matches, Valid, store
  <2>4. CASE \E s \in Slots : ProbeEnd(t, s)
    <3>1. PICK s \in Slots : ProbeEnd(t, s)
      BY <2>4
    <3>2. cache'[t][CacheOf[Hash(t)]].ref = s
      BY <2>0, <3>1 DEF Inv, Maps, ProbeEnd, Remember, Entry
    <3> QED BY <3>1, <3>2, ProbeEndEffect
  <2> QED BY <2>1, <2>2, <2>3, <2>4
<1>2. Inv /\ [Next]_vars => [\A t \in Threads : Good(t)]_vars
  BY <1>1
<1> QED BY <1>2, InitInv, NextInv, PTL DEF Spec, ReturnsTheValue
=============================================================================
