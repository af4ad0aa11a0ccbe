-------------------------------- MODULE Arena --------------------------------
(***************************************************************************)
(* The arenas behind TempAlloc (utils/arena.cpp, arena.hpp).  An arena is  *)
(* a chain of regions; memory is taken at the end and given back only by   *)
(* rewinding to a snapshot, resetting or freeing the whole arena.  Each    *)
(* thread has a temp_arena; the vectorizer plans loops in several threads, *)
(* each plan in the arena of its slot, which it swaps with temp_arena, so  *)
(* that the plan outlives the reset of the thread that made it.            *)
(*                                                                         *)
(* A frame is a C++ scope of one thread: a "window" between save() and     *)
(* restore(), the "slots" of vectorize_loops, the "plan" of one seed.      *)
(***************************************************************************)
EXTENDS Integers, Sequences, FiniteSets

CONSTANTS
  Threads,          \* each thread names its own temp_arena
  Slots,            \* the seeds of a loop vectorization; each names its arena
  Sizes,            \* the sizes in bytes that are allocated
  DefaultCapacity,  \* ARENA_REGION_DEFAULT_CAPACITY, in words
  MaxLive,          \* bound: objects live at a time
  MaxDepth,         \* bound: frames of a thread
  MaxRegions        \* bound: regions of an arena

ASSUME SizeAssumption == Sizes \subseteq Nat /\ DefaultCapacity \in Nat
ASSUME NameAssumption == Threads \cap Slots = {}

WordBytes == 8      \* sizeof(uintptr_t)
MinAlign  == 16     \* MIN_ALIGN
Arenas    == Threads \cup Slots

VARIABLES
  regions,    \* the chain from Arena::begin, [count, capacity] per region
  end,        \* the index of Arena::end, 0 for NULL
  temp,       \* the arena that is in a thread's temp_arena
  slotArena,  \* SlotArenas::arenas
  stack,      \* the frames of each thread, the innermost last
  claim,      \* what parallel_for has done of each seed: "none", "claimed", "done"
  live,       \* the objects allocated and not given back
  plan        \* those that belong to a plan still in use

vars == <<regions, end, temp, slotArena, stack, claim, live, plan>>

Init ==
  /\ regions = [a \in Arenas |-> <<>>]
  /\ end = [a \in Arenas |-> 0]
  /\ temp = [t \in Threads |-> t]
  /\ slotArena = [i \in Slots |-> i]
  /\ stack = [t \in Threads |-> <<>>]
  /\ claim = [i \in Slots |-> "none"]
  /\ live = {} /\ plan = {}

Depth(t)     == Len(stack[t])
Top(t, kind) == Depth(t) > 0 /\ stack[t][Depth(t)].kind = kind
Push(t, f)   == stack' = [stack EXCEPT ![t] = Append(@, f)]
Pop(t)       == stack' = [stack EXCEPT ![t] = SubSeq(@, 1, Len(@) - 1)]
Window(a, r, c) == [kind |-> "window", arena |-> a, region |-> r, count |-> c]
Swapped(i)   == [kind |-> "plan", arena |-> i, region |-> 0, count |-> 0]
Opened       == \E t \in Threads : \E k \in 1..Depth(t) : stack[t][k].kind = "slots"

-----------------------------------------------------------------------------
(* arena_alloc *)

\* Mutant: no room is reserved for the alignment of the result.
WordsTight(bytes) == (bytes + WordBytes - 1) \div WordBytes

Words(bytes)  == (bytes + MinAlign + WordBytes - 1) \div WordBytes
AlignUp(p)    == ((p + MinAlign - 1) \div MinAlign) * MinAlign
Fits(r, need) == r.count + need <= r.capacity
First(e)      == IF e = 0 THEN 1 ELSE e

\* The region i the allocation ends in: the first from end on with room, or a new one.
LandsIn(rs, e, need, i) ==
  /\ i \in First(e)..(Len(rs) + 1)
  /\ \A j \in First(e)..(i - 1) : ~Fits(rs[j], need)
  /\ i <= Len(rs) => Fits(rs[i], need)

Used(rs, i) == IF i <= Len(rs) THEN rs[i].count ELSE 0

Grown(rs, need, i) ==
  IF i <= Len(rs) THEN [rs EXCEPT ![i].count = @ + need]
  ELSE Append(rs, [count |-> need,
                   capacity |-> IF DefaultCapacity < need THEN need ELSE DefaultCapacity])

\* TempAlloc::allocate.
Alloc(t, size) ==
  LET a  == temp[t]
      rs == regions[a]
      need == Words(size)
  IN \E i \in 1..MaxRegions :
       /\ LandsIn(rs, end[a], need, i)
       /\ Cardinality(live) < MaxLive
       /\ regions' = [regions EXCEPT ![a] = Grown(@, need, i)]
       /\ end' = [end EXCEPT ![a] = i]
       /\ LET o == [arena |-> a, region |-> i, at |-> AlignUp(WordBytes * Used(rs, i)),
                    bytes |-> size, depth |-> Depth(t)]
          IN /\ live' = live \cup {o}
             /\ plan' = IF Top(t, "plan") THEN plan \cup {o} ELSE plan
       /\ UNCHANGED <<temp, slotArena, stack, claim>>

-----------------------------------------------------------------------------
(* save, restore and reset of TempAlloc *)

\* What the innermost frame of t and those inside it took from arena a.
Taken(a, d) == {o \in live : o.arena = a /\ o.depth >= d}

Forget(objs) == live' = live \ objs /\ UNCHANGED plan

\* arena_reset: up to end every region is emptied.
ResetRegions(rs, e) == [i \in DOMAIN rs |-> IF i <= e THEN [rs[i] EXCEPT !.count = 0] ELSE rs[i]]
ResetEnd(rs)        == IF rs = <<>> THEN 0 ELSE 1

\* Mutant: the regions used since the snapshot keep their count.
RewindRegionsKept(rs, e, m) ==
  IF m.region = 0 THEN ResetRegions(rs, e)
  ELSE [i \in DOMAIN rs |-> IF i = m.region THEN [rs[i] EXCEPT !.count = m.count] ELSE rs[i]]

\* arena_rewind: the region of the snapshot gets its count back and the ones after
\* it up to end are emptied; without a region the arena was new and is reset.
RewindRegions(rs, e, m) ==
  IF m.region = 0 THEN ResetRegions(rs, e)
  ELSE [i \in DOMAIN rs |->
         IF i = m.region THEN [rs[i] EXCEPT !.count = m.count]
         ELSE IF i \in (m.region + 1)..e THEN [rs[i] EXCEPT !.count = 0]
         ELSE rs[i]]
RewindEnd(rs, m) == IF m.region = 0 THEN ResetEnd(rs) ELSE m.region

Snapshot(a) == Window(a, end[a], IF end[a] = 0 THEN 0 ELSE regions[a][end[a]].count)

\* TempAlloc::save at the start of a scope.
Save(t) ==
  /\ Depth(t) < MaxDepth
  /\ Push(t, Snapshot(temp[t]))
  /\ UNCHANGED <<regions, end, temp, slotArena, claim, live, plan>>

\* TempAlloc::restore at its end.
Restore(t) ==
  LET a == temp[t]
      m == stack[t][Depth(t)]
  IN /\ Top(t, "window")
     /\ regions' = [regions EXCEPT ![a] = RewindRegions(@, end[a], m)]
     /\ end' = [end EXCEPT ![a] = RewindEnd(regions[a], m)]
     /\ Forget(Taken(a, Depth(t)))
     /\ Pop(t)
     /\ UNCHANGED <<temp, slotArena, claim>>

\* A scope ends without giving its memory back: what it took now belongs to the
\* scope around it.
HandedOn(t, d) ==
  (live \ Taken(temp[t], d)) \cup {[o EXCEPT !.depth = d - 1] : o \in Taken(temp[t], d)}

\* The scope ends without restore: a seed whose plan failed, vectorizer.cpp:275.
Leave(t) ==
  /\ Depth(t) > 1 /\ Top(t, "window")
  /\ live' = HandedOn(t, Depth(t))
  /\ Pop(t)
  /\ UNCHANGED <<regions, end, temp, slotArena, claim, plan>>

\* TempAlloc::reset, with workers the end of a function pass: nothing the thread
\* has in its arena is used any more.
Reset(t) ==
  LET a == temp[t]
  IN /\ Depth(t) = 1 /\ Top(t, "window")
     /\ regions' = [regions EXCEPT ![a] = ResetRegions(@, end[a])]
     /\ end' = [end EXCEPT ![a] = ResetEnd(regions[a])]
     /\ Forget(Taken(a, 0))
     /\ Pop(t)
     /\ UNCHANGED <<temp, slotArena, claim>>

-----------------------------------------------------------------------------
(* The plans of vectorize_loops *)

\* A function pass has found the loops: SlotArenas, then parallel_for.
OpenSlots(t) ==
  /\ ~Opened /\ Depth(t) < MaxDepth - 1 /\ Top(t, "window") /\ temp[t] = t
  /\ Push(t, [kind |-> "slots", arena |-> t, region |-> 0, count |-> 0])
  /\ UNCHANGED <<regions, end, temp, slotArena, claim, live, plan>>

\* Mutant: the plan is made in the thread's own arena.
ExchangeNot(t, i) == UNCHANGED <<temp, slotArena>>

Exchange(t, i) ==
  /\ temp' = [temp EXCEPT ![t] = slotArena[i]]
  /\ slotArena' = [slotArena EXCEPT ![i] = temp[t]]

\* plan_seed(i), run by the caller of parallel_for or by an idle thread.
ClaimSeed(t, i) ==
  /\ Opened /\ claim[i] = "none" /\ Depth(t) < MaxDepth
  /\ stack[t] = <<>> \/ Top(t, "slots")
  /\ claim' = [claim EXCEPT ![i] = "claimed"]
  /\ Exchange(t, i)
  /\ Push(t, Swapped(i))
  /\ UNCHANGED <<regions, end, live, plan>>

\* The plan is made; swap back.
Planned(t, i) ==
  /\ Top(t, "plan") /\ stack[t][Depth(t)].arena = i
  /\ claim' = [claim EXCEPT ![i] = "done"]
  /\ Exchange(t, i)
  /\ Pop(t)
  /\ UNCHANGED <<regions, end, live, plan>>

\* parallel_for is back, the plans were emitted: ~SlotArenas frees every arena.  What
\* the scope took of the thread's own arena stays.
CloseSlots(t) ==
  LET freed == {slotArena[i] : i \in Slots}
  IN /\ Top(t, "slots") /\ \A i \in Slots : claim[i] = "done"
     /\ regions' = [a \in Arenas |-> IF a \in freed THEN <<>> ELSE regions[a]]
     /\ end' = [a \in Arenas |-> IF a \in freed THEN 0 ELSE end[a]]
     /\ live' = {o \in HandedOn(t, Depth(t)) : o.arena \notin freed}
     /\ plan' = {}
     /\ claim' = [i \in Slots |-> "none"]
     /\ Pop(t)
     /\ UNCHANGED <<temp, slotArena>>

Step(t) ==
  \/ \E size \in Sizes : Alloc(t, size)
  \/ Save(t)
  \/ Restore(t)
  \/ Leave(t)
  \/ Reset(t)
  \/ OpenSlots(t)
  \/ \E i \in Slots : ClaimSeed(t, i)
  \/ \E i \in Slots : Planned(t, i)
  \/ CloseSlots(t)

Next == \E t \in Threads : Step(t)
Spec == Init /\ [][Next]_vars

-----------------------------------------------------------------------------
(* Properties *)

Frames == [kind : {"window", "slots", "plan"}, arena : Arenas, region : Nat, count : Nat]
Objects == [arena : Arenas, region : Nat, at : Nat, bytes : Sizes, depth : Nat]

\* arena.cpp:241: "regions after a->end are already empty".  Rewind and reset stop
\* at end because of it; were it false, the memory behind end would leak.
RegionsBehindEndEmpty ==
  \A a \in Arenas : \A i \in (end[a] + 1)..Len(regions[a]) : regions[a][i].count = 0

\* Regions never hold more than they have room for, end is NULL just when there is
\* no region, and the regions behind it are empty.
TypeOK ==
  /\ \A a \in Arenas :
       /\ regions[a] \in Seq([count : Nat, capacity : Nat])
       /\ \A i \in 1..Len(regions[a]) : regions[a][i].count <= regions[a][i].capacity
       /\ end[a] \in 0..Len(regions[a]) /\ (end[a] = 0 <=> regions[a] = <<>>)
  /\ RegionsBehindEndEmpty
  /\ temp \in [Threads -> Arenas] /\ slotArena \in [Slots -> Arenas]
  /\ stack \in [Threads -> Seq(Frames)]
  /\ claim \in [Slots -> {"none", "claimed", "done"}]
  /\ live \subseteq Objects

Overlap(o, p) ==
  /\ o.arena = p.arena /\ o.region = p.region
  /\ o.at < p.at + p.bytes /\ p.at < o.at + o.bytes

\* No memory is handed out twice: objects that are live do not overlap, and each
\* lies below the count of its region, where no later allocation starts, through
\* every order of nested windows, resets and swaps.
LiveDisjoint ==
  \A o \in live :
    /\ o.region \in 1..end[o.arena]
    /\ o.at + o.bytes <= WordBytes * regions[o.arena][o.region].count
    /\ \A p \in live : o # p => ~Overlap(o, p)

\* vectorizer.cpp:138: a plan made by a helper thread is still there when the caller
\* of parallel_for uses it, whatever the helper has run and reset since.
PlansSurvive == plan \subseteq live
=============================================================================
