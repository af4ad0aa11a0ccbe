------------------------------ MODULE StableVec ------------------------------
(***************************************************************************)
(* StableVec<T>, Slot<T> and SRef<T> (utils/stable_vec*.hpp): the slabs,   *)
(* the free list of slot ranges, the slot word (generation and state) and  *)
(* the references validated against it.  Jobs push and remove concurrently;*)
(* collect_garbage runs between batches of jobs, as the pass managers call *)
(* it, so it meets no push_back half way.                                  *)
(*                                                                         *)
(* push_back is one action per critical section or atomic access.  Objs    *)
(* are the values pushed, each once: an object is what a reference was     *)
(* made for, which the slot word only approximates.                        *)
(***************************************************************************)
EXTENDS Integers, Sequences, FiniteSets

CONSTANTS
  Threads,     \* the threads that call push_back
  Objs,        \* the values pushed, each at most once
  SlabLen,     \* slot_slab_len
  MaxSlabs,    \* bound: slabs the allocator can give
  MaxGen,      \* bound: curr_gen never exceeds it
  Builds,      \* the values SLOT_CHECK_LEVEL >= 2 can have
  None,        \* no object
  Wild         \* the object after destroy_at ran on a slot without one

ASSUME SlabAssumption == SlabLen \in Nat \ {0} /\ MaxSlabs \in Nat \ {0} /\ MaxGen \in Nat
ASSUME ObjAssumption  == None \notin Objs /\ Wild \notin Objs /\ None # Wild
ASSUME BuildAssumption == Builds \subseteq BOOLEAN

Slots        == 1..(MaxSlabs * SlabLen)
SlabSlots(k) == (k * SlabLen + 1)..((k + 1) * SlabLen)   \* slabs count from 0
Gens         == 0..MaxGen
Rng(f)       == f.ptr..(f.ptr + f.len - 1)               \* the slots of a FreeInfo

VARIABLES
  genTracked, \* SLOT_CHECK_LEVEL >= 2 in this build: words hold generations
  word,      \* Slot::word; "Raw" is memory not yet memset
  data,      \* the object in Slot::data
  freeList,  \* StableVec::_free_list, the back is the last element
  nAlloc,    \* slabs allocated so far
  linked,    \* the slabs reachable from _slot_start
  currGen,   \* StableVec::curr_gen
  toScan,    \* slots the running collect_garbage has yet to visit
  alive,     \* the StableVec was not destructed
  pc,        \* where each thread is in push_back
  obj,       \* the value a thread is pushing
  target,    \* push_back's target range
  slot,      \* push_back's res_ptr, 0 before it is set
  gen,       \* the generation push_back loaded
  ref,       \* the SRef push_back returned for an object
  phase      \* "new", "pushing", "live", "removed" or "collected", per object

slots == <<word, data>>
lists == <<freeList, nAlloc, linked>>
frame == <<pc, obj, target, slot, gen>>
vars  == <<genTracked, slots, lists, currGen, toScan, alive, frame, ref, phase>>

NoRange       == [ptr |-> 1, len |-> 0]
Zero          == [gen |-> 0, state |-> "FreeList"]
SlotWord(g, st) == [gen |-> IF genTracked THEN g ELSE 0, state |-> st]
IsValid(r)    == word[r.slot] = SlotWord(r.gen, "Used")
AllIdle       == \A t \in Threads : pc[t] = "idle"
InHand(t)     == Rng(target[t]) \cup ({slot[t]} \ {0})

Init ==
  /\ genTracked \in Builds
  /\ word = [s \in Slots |-> IF s \in SlabSlots(0) THEN Zero ELSE [gen |-> 0, state |-> "Raw"]]
  /\ data = [s \in Slots |-> None]
  /\ freeList = <<[ptr |-> 1, len |-> SlabLen]>>
  /\ nAlloc = 1 /\ linked = {0}
  /\ currGen = IF genTracked THEN 1 ELSE 0
  /\ toScan = {} /\ alive = TRUE
  /\ pc = [t \in Threads |-> "idle"]
  /\ obj = [t \in Threads |-> None]
  /\ target = [t \in Threads |-> NoRange]
  /\ slot = [t \in Threads |-> 0]
  /\ gen = [t \in Threads |-> 0]
  /\ ref = [o \in Objs |-> [slot |-> 0, gen |-> 0]]
  /\ phase = [o \in Objs |-> "new"]

-----------------------------------------------------------------------------
(* push_back *)

Begin(t, o, r, at) ==
  /\ alive /\ toScan = {} /\ pc[t] = "idle" /\ phase[o] = "new"
  /\ obj' = [obj EXCEPT ![t] = o]
  /\ phase' = [phase EXCEPT ![o] = "pushing"]
  /\ target' = [target EXCEPT ![t] = r]
  /\ pc' = [pc EXCEPT ![t] = at]
  /\ UNCHANGED <<genTracked, slots, linked, currGen, toScan, alive, slot, gen, ref>>

\* Mutant: the range is read from the back but not popped.
PopRangeKept(t, o) ==
  /\ freeList # <<>>
  /\ Begin(t, o, freeList[Len(freeList)], "construct")
  /\ UNCHANGED <<genTracked, freeList, nAlloc>>

\* Take the range at the back of the free list.
PopRange(t, o) ==
  /\ freeList # <<>>
  /\ Begin(t, o, freeList[Len(freeList)], "construct")
  /\ freeList' = SubSeq(freeList, 1, Len(freeList) - 1)
  /\ UNCHANGED nAlloc

\* The free list is empty: allocate a slab, all of it is ours.
NewSlab(t, o) ==
  /\ freeList = <<>> /\ nAlloc < MaxSlabs
  /\ Begin(t, o, [ptr |-> nAlloc * SlabLen + 1, len |-> SlabLen], "append")
  /\ nAlloc' = nAlloc + 1
  /\ UNCHANGED freeList

\* memset the slab and link it; the compare-exchange makes the link one step.
AppendSlab(t) ==
  /\ pc[t] = "append"
  /\ word' = [s \in Slots |-> IF s \in Rng(target[t]) THEN Zero ELSE word[s]]
  /\ linked' = linked \cup {(target[t].ptr - 1) \div SlabLen}
  /\ pc' = [pc EXCEPT ![t] = "construct"]
  /\ UNCHANGED <<genTracked, data, freeList, nAlloc, currGen, toScan, alive, obj, target, slot, gen, ref, phase>>

\* Move the value into the first slot of the range and drop it from the range.
Construct(t) ==
  /\ pc[t] = "construct"
  /\ slot' = [slot EXCEPT ![t] = target[t].ptr]
  /\ data' = [data EXCEPT ![target[t].ptr] = obj[t]]
  /\ target' = [target EXCEPT ![t] = [ptr |-> target[t].ptr + 1, len |-> target[t].len - 1]]
  /\ pc' = [pc EXCEPT ![t] = IF target[t].len = 1 THEN "load" ELSE "rest"]
  /\ UNCHANGED <<genTracked, word, lists, currGen, toScan, alive, obj, gen, ref, phase>>

\* Give the rest of the range back.
PushRest(t) ==
  /\ pc[t] = "rest"
  /\ freeList' = Append(freeList, target[t])
  /\ target' = [target EXCEPT ![t] = NoRange]
  /\ pc' = [pc EXCEPT ![t] = "load"]
  /\ UNCHANGED <<genTracked, slots, nAlloc, linked, currGen, toScan, alive, obj, slot, gen, ref, phase>>

LoadGen(t) ==
  /\ pc[t] = "load"
  /\ gen' = [gen EXCEPT ![t] = currGen]
  /\ pc' = [pc EXCEPT ![t] = "publish"]
  /\ UNCHANGED <<genTracked, slots, lists, currGen, toScan, alive, obj, target, slot, ref, phase>>

\* Store the word and return the SRef.  Nothing changes the generation of a used
\* slot, so reading it back for the SRef is no step of its own.
Publish(t) ==
  /\ pc[t] = "publish"
  /\ word' = [word EXCEPT ![slot[t]] = SlotWord(gen[t], "Used")]
  /\ ref' = [ref EXCEPT ![obj[t]] = [slot |-> slot[t], gen |-> SlotWord(gen[t], "Used").gen]]
  /\ phase' = [phase EXCEPT ![obj[t]] = "live"]
  /\ pc' = [pc EXCEPT ![t] = "idle"]
  /\ obj' = [obj EXCEPT ![t] = None]
  /\ target' = [target EXCEPT ![t] = NoRange]
  /\ slot' = [slot EXCEPT ![t] = 0]
  /\ gen' = [gen EXCEPT ![t] = 0]
  /\ UNCHANGED <<genTracked, data, lists, currGen, toScan, alive>>

-----------------------------------------------------------------------------
(* remove, collect_garbage, ~StableVec *)

\* Mutant: with generations tracked the assertion does not stop a stale ref.
RemoveUnchecked(o) ==
  /\ alive /\ toScan = {} /\ phase[o] \in {"live", "removed", "collected"}
  /\ word' = [word EXCEPT ![ref[o].slot] = [gen |-> @.gen, state |-> "Free"]]
  /\ phase' = [phase EXCEPT ![o] = IF @ = "live" THEN "removed" ELSE @]
  /\ UNCHANGED <<genTracked, data, lists, currGen, toScan, alive, frame, ref>>

\* SRef::_invalidate.  A ref removed twice changes nothing the second time.  After
\* the slot was collected the assertion on the generation stops the program if
\* generations are tracked; otherwise callers must not do it, and the model's do not.
Remove(o) ==
  /\ alive /\ toScan = {} /\ phase[o] \in {"live", "removed", "collected"}
  /\ IF genTracked THEN word[ref[o].slot].gen = ref[o].gen ELSE phase[o] # "collected"
  /\ word' = [word EXCEPT ![ref[o].slot] = [gen |-> @.gen, state |-> "Free"]]
  /\ phase' = [phase EXCEPT ![o] = IF @ = "live" THEN "removed" ELSE @]
  /\ UNCHANGED <<genTracked, data, lists, currGen, toScan, alive, frame, ref>>

\* Mutant: the generation does not move.
CollectStartSameGen ==
  /\ alive /\ toScan = {} /\ AllIdle
  /\ toScan' = UNION {SlabSlots(k) : k \in linked}
  /\ UNCHANGED <<genTracked, slots, lists, currGen, alive, frame, ref, phase>>

\* collect_garbage first moves the generation.
CollectStart ==
  /\ alive /\ toScan = {} /\ AllIdle
  /\ IF genTracked THEN currGen < MaxGen /\ currGen' = currGen + 1 ELSE UNCHANGED currGen
  /\ toScan' = UNION {SlabSlots(k) : k \in linked}
  /\ UNCHANGED <<genTracked, slots, lists, alive, frame, ref, phase>>

DestroyAt(d) == IF d = None THEN Wild ELSE None

\* try_collect: a slot that is Free is zeroed, its object destroyed and the slot put
\* on the free list.  The order of the visits only orders the free list, and no
\* push_back runs, so the list may as well grow with each slot.
CollectSlot(s) ==
  /\ s \in toScan
  /\ toScan' = toScan \ {s}
  /\ IF word[s].state = "Free"
       THEN /\ word' = [word EXCEPT ![s] = Zero]
            /\ data' = [data EXCEPT ![s] = DestroyAt(@)]
            /\ freeList' = Append(freeList, [ptr |-> s, len |-> 1])
            /\ phase' = [o \in Objs |-> IF o = data[s] /\ phase[o] = "removed" THEN "collected" ELSE phase[o]]
       ELSE UNCHANGED <<slots, freeList, phase>>
  /\ UNCHANGED <<genTracked, nAlloc, linked, currGen, alive, frame, ref>>

\* ~StableVec destroys what is not on the free list, in the slabs it can reach.
Destruct ==
  /\ alive /\ toScan = {} /\ AllIdle
  /\ alive' = FALSE
  /\ freeList' = <<>>
  /\ data' = [s \in Slots |->
                IF s \in UNION {SlabSlots(k) : k \in linked} /\ word[s].state # "FreeList"
                  THEN DestroyAt(data[s]) ELSE data[s]]
  /\ UNCHANGED <<genTracked, word, nAlloc, linked, currGen, toScan, frame, ref, phase>>

Next ==
  \/ \E t \in Threads :
       \/ \E o \in Objs : PopRange(t, o) \/ NewSlab(t, o)
       \/ AppendSlab(t) \/ Construct(t) \/ PushRest(t) \/ LoadGen(t) \/ Publish(t)
  \/ \E o \in Objs : Remove(o)
  \/ CollectStart
  \/ \E s \in Slots : CollectSlot(s)
  \/ Destruct

Spec == Init /\ [][Next]_vars

-----------------------------------------------------------------------------
(* Properties *)

\* No slot has two owners: free-list ranges are disjoint from one another and from
\* what a push_back has in hand, two push_backs hold different slots, and none of
\* these slots is Used or Free.
ListDisjoint == \A i, j \in 1..Len(freeList) : i # j => Rng(freeList[i]) \cap Rng(freeList[j]) = {}
HandsApart   == \A t, u \in Threads : t # u => InHand(t) \cap InHand(u) = {}
ListNotHeld  == \A i \in 1..Len(freeList), t \in Threads : Rng(freeList[i]) \cap InHand(t) = {}
ListUnused   == \A i \in 1..Len(freeList) : \A s \in Rng(freeList[i]) : s \in Slots /\ word[s] = Zero
HandUnused   == \A t \in Threads : \A s \in InHand(t) :
                  s \in Slots /\ word[s].state \in {"Raw", "FreeList"}
NoSlotTwice  == ListDisjoint /\ HandsApart /\ ListNotHeld /\ ListUnused /\ HandUnused

\* No slot is lost: of the slabs allocated, what is not Used or Free is on the free
\* list or in the hand of a push_back.
NoSlotLost ==
  alive => \A s \in 1..(nAlloc * SlabLen) :
    word[s].state \in {"Raw", "FreeList"} =>
      \/ \E i \in 1..Len(freeList) : s \in Rng(freeList[i])
      \/ \E t \in Threads : s \in InHand(t)

\* A slot an iteration or a reference sees as Used or Free holds a constructed
\* object in a linked slab, a slot on the free list holds none, and nothing that
\* was never constructed or already destroyed is destroyed.
HoldsObject(s) == data[s] \in Objs
SlotsHoldObjects ==
  /\ \A s \in Slots : data[s] # Wild
  /\ alive => /\ \A s \in Slots : word[s].state \in {"Used", "Free"} =>
                    HoldsObject(s) /\ \E k \in linked : s \in SlabSlots(k)
              /\ \A i \in 1..Len(freeList) : \A s \in Rng(freeList[i]) : data[s] = None
  /\ ~alive => \A s \in Slots : data[s] = None

\* Every slot has exactly one owner, the free list, a push_back or an object, and holds
\* a constructed object exactly when that is its owner.
SlotsPartitioned == NoSlotTwice /\ NoSlotLost /\ SlotsHoldObjects

\* A reference to an object nobody removed is valid and reaches that object,
\* whatever was pushed, removed or collected since.  One to a removed object is seen
\* to be stale until the object is collected (stable_vec.hpp:146); with generations
\* tracked for ever, even when the slot is reused.
RefsReachOrAreStale ==
  \A o \in Objs :
    /\ alive /\ phase[o] = "live" => IsValid(ref[o]) /\ data[ref[o].slot] = o
    /\ phase[o] = "removed" \/ (phase[o] = "collected" /\ genTracked) => ~IsValid(ref[o])

\* A StableVec is a SlotStorage: slots Used or Free are owned by the object in them.
Storage == INSTANCE SlotStorage WITH
  owner <- [s \in Slots |-> IF word[s].state \in {"Used", "Free"} THEN data[s] ELSE None],
  phase <- [o \in Objs |-> IF phase[o] = "pushing" THEN "new" ELSE phase[o]]
ImplementsStorage == Storage!Spec
=============================================================================
