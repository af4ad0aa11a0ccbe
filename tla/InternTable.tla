----------------------------- MODULE InternTable -----------------------------
(***************************************************************************)
(* The hash consing table of ir/intern_table.hpp with its callers          *)
(* ContextData::intern_constant and intern_type (ir/context.cpp), over the *)
(* StableVec that stores the values.  The storage is reduced to what       *)
(* StableVec guarantees at the default SLOT_CHECK_LEVEL: a reference is a  *)
(* slot, valid while the slot is used; a removed slot is reused, for any   *)
(* value, after the next collection, while the table and the caches still  *)
(* refer to it.  One table, so the entries' table_id always match.         *)
(***************************************************************************)
EXTENDS Integers, FiniteSets

CONSTANTS
  Threads,
  Values,    \* the values interned
  HashOf,    \* the 64 bit hash of each value, here a small number
  ShardOf,   \* the shard of each hash, (hash >> 40) % NShards
  CacheOf,   \* the entry of the thread's cache for each hash, hash & (CacheSize - 1)
  Slots,     \* the slots of the storage
  MaxKey,    \* bound: largest key of a shard's map
  NoRef, NoKey, NoThread

Hashes == {HashOf[v] : v \in Values}
Shards == {ShardOf[h] : h \in Hashes}
Keys   == 0..MaxKey

ASSUME HashAssumption  == /\ MaxKey \in Nat
                          /\ HashOf \in [Values -> Keys]
                          /\ \A h \in Hashes : h \in DOMAIN ShardOf /\ h \in DOMAIN CacheOf
ASSUME NamesAssumption == NoRef \notin Slots /\ NoKey \notin Keys /\ NoThread \notin Threads

VARIABLES
  state,   \* the state of each slot: "FreeList", "Used" or "Free"
  value,   \* the value last constructed in each slot, NoRef if none ever was
  map,     \* Shard::map, a slot or NoRef for each key
  owner,   \* the thread that holds Shard::mtx
  cache,   \* the thread local CacheEntry array: a hash and a slot
  pc, want, key, stale    \* a thread's place in intern, its value, key and stale

store == <<state, value>>
frame == <<pc, want, key, stale>>
vars  == <<store, map, owner, cache, frame>>

Entry(h, r)   == [hash |-> h, ref |-> r]
Valid(r)      == r # NoRef /\ state[r] = "Used"
Matches(r, v) == Valid(r) /\ value[r] = v
Hash(t)       == HashOf[want[t]]
Shard(t)      == ShardOf[Hash(t)]
AllIdle       == \A t \in Threads : pc[t] = "idle"

Init ==
  /\ state = [s \in Slots |-> "FreeList"]
  /\ value = [s \in Slots |-> NoRef]
  /\ map = [sh \in Shards |-> [k \in Keys |-> NoRef]]
  /\ owner = [sh \in Shards |-> NoThread]
  /\ cache = [t \in Threads |-> [i \in {CacheOf[h] : h \in Hashes} |-> Entry(NoKey, NoRef)]]
  /\ pc = [t \in Threads |-> "idle"]
  /\ want = [t \in Threads |-> NoRef]
  /\ key = [t \in Threads |-> 0]
  /\ stale = [t \in Threads |-> NoKey]

-----------------------------------------------------------------------------
(* intern *)

\* Bounds: intern is called only while every caller can get a slot, which the code
\* would allocate, and a key of the map's small range.
Busy     == Cardinality({t \in Threads : pc[t] # "idle"})
Servable == /\ Busy < Cardinality({s \in Slots : state[s] = "FreeList"})
            /\ \A sh \in Shards : Busy < Cardinality({k \in Keys : map[sh][k] = NoRef})

Call(t, v) ==
  /\ pc[t] = "idle" /\ Servable
  /\ pc' = [pc EXCEPT ![t] = "cache"]
  /\ want' = [want EXCEPT ![t] = v]
  /\ UNCHANGED <<store, map, owner, cache, key, stale>>

Return(t) ==
  /\ pc' = [pc EXCEPT ![t] = "idle"]
  /\ want' = [want EXCEPT ![t] = NoRef]
  /\ key' = [key EXCEPT ![t] = 0]
  /\ stale' = [stale EXCEPT ![t] = NoKey]

CacheLine(t) == cache[t][CacheOf[Hash(t)]]
Remember(t, r) == cache' = [cache EXCEPT ![t][CacheOf[Hash(t)]] = Entry(Hash(t), r)]

\* Mutant: a hit is not checked against the value.
CacheHitByHash(t) ==
  /\ pc[t] = "cache" /\ CacheLine(t).hash = Hash(t) /\ Valid(CacheLine(t).ref)
  /\ Return(t)
  /\ UNCHANGED <<store, map, owner, cache>>

CacheHit(t) ==
  /\ pc[t] = "cache" /\ CacheLine(t).hash = Hash(t) /\ Matches(CacheLine(t).ref, want[t])
  /\ Return(t)
  /\ UNCHANGED <<store, map, owner, cache>>

CacheMiss(t) ==
  /\ pc[t] = "cache" /\ ~(CacheLine(t).hash = Hash(t) /\ Matches(CacheLine(t).ref, want[t]))
  /\ pc' = [pc EXCEPT ![t] = "lock"]
  /\ UNCHANGED <<store, map, owner, cache, want, key, stale>>

Lock(t) ==
  /\ pc[t] = "lock" /\ owner[Shard(t)] = NoThread
  /\ owner' = [owner EXCEPT ![Shard(t)] = t]
  /\ key' = [key EXCEPT ![t] = Hash(t)]
  /\ pc' = [pc EXCEPT ![t] = "probe"]
  /\ UNCHANGED <<store, map, cache, want, stale>>

At(t)     == map[Shard(t)][key[t]]
Unlock(t) == owner' = [owner EXCEPT ![Shard(t)] = NoThread]

ProbeHit(t) ==
  /\ pc[t] = "probe" /\ Matches(At(t), want[t])
  /\ Remember(t, At(t)) /\ Unlock(t) /\ Return(t)
  /\ UNCHANGED <<store, map>>

\* Remember the first entry whose slot is no longer used, and go on.
ProbeNext(t) ==
  /\ pc[t] = "probe" /\ At(t) # NoRef /\ ~Matches(At(t), want[t]) /\ key[t] < MaxKey
  /\ stale' = [stale EXCEPT ![t] = IF @ = NoKey /\ ~Valid(At(t)) THEN key[t] ELSE @]
  /\ key' = [key EXCEPT ![t] = @ + 1]
  /\ UNCHANGED <<store, map, owner, cache, pc, want>>

\* Mutant: the first stale entry ends the probe.
ProbeEndAtStale(t, s) ==
  /\ pc[t] = "probe" /\ ~Valid(At(t)) /\ state[s] = "FreeList"
  /\ state' = [state EXCEPT ![s] = "Used"]
  /\ value' = [value EXCEPT ![s] = want[t]]
  /\ map' = [map EXCEPT ![Shard(t)][key[t]] = s]
  /\ Remember(t, s) /\ Unlock(t) /\ Return(t)

\* The end of the chain: make the value in a slot of push_back's choice and store
\* it in place of the first stale entry, or here.
ProbeEnd(t, s) ==
  /\ pc[t] = "probe" /\ At(t) = NoRef /\ state[s] = "FreeList"
  /\ state' = [state EXCEPT ![s] = "Used"]
  /\ value' = [value EXCEPT ![s] = want[t]]
  /\ map' = [map EXCEPT ![Shard(t)][IF stale[t] # NoKey THEN stale[t] ELSE key[t]] = s]
  /\ Remember(t, s) /\ Unlock(t) /\ Return(t)

-----------------------------------------------------------------------------
(* The storage: a job removes a value, collect_garbage runs between jobs. *)

Remove(s) ==
  /\ state[s] = "Used"
  /\ state' = [state EXCEPT ![s] = "Free"]
  /\ UNCHANGED <<value, map, owner, cache, frame>>

Collect ==
  /\ AllIdle /\ \E s \in Slots : state[s] = "Free"
  /\ state' = [s \in Slots |-> IF state[s] = "Free" THEN "FreeList" ELSE state[s]]
  /\ UNCHANGED <<value, map, owner, cache, frame>>

\* The program may end between two interns.
Done == AllIdle /\ UNCHANGED vars

Next ==
  \/ \E t \in Threads :
       \/ \E v \in Values : Call(t, v)
       \/ CacheHit(t) \/ CacheMiss(t) \/ Lock(t) \/ ProbeHit(t) \/ ProbeNext(t)
       \/ \E s \in Slots : ProbeEnd(t, s)
  \/ \E s \in Slots : Remove(s)
  \/ Collect
  \/ Done

Spec == Init /\ [][Next]_vars

-----------------------------------------------------------------------------
(* Properties *)

\* Two live slots never hold the same value, so within a context equality of
\* references is equality of values, however the threads interleave and whatever
\* was freed and reused in between.
HashConsed ==
  \A r, s \in Slots : state[r] = "Used" /\ state[s] = "Used" /\ value[r] = value[s] => r = s

\* intern returns a live reference to the value it was asked for, although the cache
\* and the table hold slots that were freed and reused for other values.  On every
\* path out of intern the thread's cache entry holds what it returns.
ReturnsTheValue ==
  [][\A t \in Threads : pc[t] # "idle" /\ pc'[t] = "idle" =>
       LET r == cache'[t][CacheOf[Hash(t)]].ref IN state'[r] = "Used" /\ value'[r] = want[t]]_vars
=============================================================================
