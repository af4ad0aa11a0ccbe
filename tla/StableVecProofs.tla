--------------------------- MODULE StableVecProofs ---------------------------
(***************************************************************************)
(* Every slot of a StableVec has one owner, references reach their objects *)
(* or are seen to be stale, and the vector implements SlotStorage: for any *)
(* threads, objects, slab lengths and bounds, with and without generations.*)
(***************************************************************************)
EXTENDS StableVec, SequenceTheorems, TLAPS

Words  == [gen : Nat, state : {"Raw", "FreeList", "Used", "Free"}]
Ranges == [ptr : Nat, len : Nat]
Stages == {"idle", "append", "construct", "rest", "load", "publish"}
Phases == {"new", "pushing", "live", "removed", "collected"}
Made   == {"live", "removed", "collected"}   \* push_back returned a reference

Types ==
  /\ genTracked \in BOOLEAN /\ alive \in BOOLEAN
  /\ word \in [Slots -> Words]
  /\ data \in [Slots -> Objs \cup {None}]
  /\ freeList \in Seq(Ranges)
  /\ nAlloc \in 1..MaxSlabs /\ linked \subseteq 0..(nAlloc - 1)
  /\ currGen \in Nat /\ toScan \subseteq Slots
  /\ pc \in [Threads -> Stages]
  /\ obj \in [Threads -> Objs \cup {None}]
  /\ target \in [Threads -> Ranges]
  /\ slot \in [Threads -> Slots \cup {0}]
  /\ gen \in [Threads -> Nat]
  /\ ref \in [Objs -> [slot : Slots \cup {0}, gen : Nat]]
  /\ phase \in [Objs -> Phases]

\* What a thread holds at each stage of push_back.
Hand(t) ==
  /\ pc[t] = "idle" => obj[t] = None
  /\ pc[t] # "idle" => alive /\ toScan = {} /\ obj[t] \in Objs /\ phase[obj[t]] = "pushing"
  /\ pc[t] \in {"append", "construct", "rest"} => target[t].len > 0
  /\ pc[t] \in {"idle", "load", "publish"} => target[t].len = 0
  /\ pc[t] \in {"rest", "load", "publish"} <=> slot[t] # 0
  /\ pc[t] = "append" =>
       \E k \in 0..(nAlloc - 1) : target[t] = [ptr |-> k * SlabLen + 1, len |-> SlabLen]
  /\ pc[t] = "rest" => slot[t] \notin Rng(target[t])
  /\ pc[t] = "publish" => gen[t] = currGen
Hands  == \A t \in Threads : Hand(t)
Pushed == \A t, u \in Threads : t # u /\ pc[t] # "idle" => obj[t] # obj[u]

\* What the slots in a hand hold, and those on the free list.
HandSlot(t, s) ==
  /\ s \in Slots
  /\ IF pc[t] = "append" THEN word[s].state = "Raw" ELSE word[s] = Zero
  /\ data[s] = IF s = slot[t] THEN obj[t] ELSE None
HandSlots == \A t \in Threads : \A s \in InHand(t) : HandSlot(t, s)
ListSlots == \A i \in 1..Len(freeList) : \A s \in Rng(freeList[i]) :
               s \in Slots /\ word[s] = Zero /\ data[s] = None
ListRanges == \A i \in 1..Len(freeList) : freeList[i].len > 0

\* Memory that is not raw lies in a linked slab.
Linked == \A s \in Slots : /\ word[s].state # "Raw" => \E k \in linked : s \in SlabSlots(k)
                           /\ word[s].state = "Raw" => data[s] = None

\* After the destructor nothing moves.
Dead == ~alive => toScan = {} /\ freeList = <<>> /\ \A s \in Slots : data[s] = None

\* Objects and the slots that are Used or Free belong to each other.
SlotsOwned ==
  alive => \A s \in Slots : word[s].state \in {"Used", "Free"} =>
    /\ data[s] \in Objs /\ ref[data[s]].slot = s
    /\ phase[data[s]] = IF word[s].state = "Used" THEN "live" ELSE "removed"
RefsReach ==
  \A o \in Objs :
    /\ phase[o] \in Made => ref[o].slot \in Slots
    /\ phase[o] \in {"live", "removed"} =>
         /\ word[ref[o].slot] =
              [gen |-> ref[o].gen, state |-> IF phase[o] = "live" THEN "Used" ELSE "Free"]
         /\ alive => data[ref[o].slot] = o

\* A collection moves the generation before it frees a slot, so the word of a slot
\* that was collected never again has the generation of the old reference.
Generations ==
  /\ genTracked =>
       /\ currGen > 0
       /\ \A o \in Objs : phase[o] \in Made =>
            /\ 0 < ref[o].gen /\ ref[o].gen <= currGen
            /\ phase[o] = "collected" \/ toScan # {} => ref[o].gen < currGen
            /\ phase[o] = "collected" => word[ref[o].slot].gen # ref[o].gen
  /\ ~genTracked => /\ \A s \in Slots : word[s].gen = 0
                    /\ \A o \in Objs : ref[o].gen = 0

IInv == /\ Types /\ Hands /\ Pushed /\ HandSlots /\ ListSlots /\ ListRanges /\ Linked /\ Dead
        /\ SlotsOwned /\ RefsReach /\ Generations
        /\ ListDisjoint /\ HandsApart /\ ListNotHeld /\ NoSlotLost

-----------------------------------------------------------------------------
(* Slabs, ranges and lists *)

LEMMA ScaleUp ==
  ASSUME NEW k \in Nat, NEW l \in Nat, k < l
  PROVE  k * SlabLen + SlabLen <= l * SlabLen
<1>1. PICK d \in Nat : l = k + 1 + d
  OBVIOUS
<1>2. SlabLen \in Nat /\ d * SlabLen \in Nat
  BY SlabAssumption
<1>3. l * SlabLen = k * SlabLen + SlabLen + d * SlabLen
  BY <1>1, <1>2
<1> QED BY <1>2, <1>3

LEMMA Scaled ==
  ASSUME NEW k \in Nat
  PROVE  /\ SlabLen \in Nat /\ SlabLen > 0 /\ k * SlabLen \in Nat
         /\ (k + 1) * SlabLen = k * SlabLen + SlabLen
         /\ (k * SlabLen) \div SlabLen = k
<1>1. SlabLen \in Nat /\ SlabLen > 0
  BY SlabAssumption
<1>2. \A n \in Nat : n > 0 => (k * n) \div n = k
  OBVIOUS
<1>3. k * SlabLen \in Nat /\ (k + 1) * SlabLen = k * SlabLen + SlabLen
  BY <1>1
<1> QED BY <1>1, <1>2, <1>3

\* The slots of a slab as a range, and where slabs lie.
LEMMA SlabRange ==
  ASSUME NEW k \in Nat
  PROVE  /\ SlabSlots(k) = Rng([ptr |-> k * SlabLen + 1, len |-> SlabLen])
         /\ k < MaxSlabs => SlabSlots(k) \subseteq Slots
         /\ \A n \in Nat : k < n => \A s \in SlabSlots(k) : s <= n * SlabLen
<1>1. SlabLen \in Nat /\ k * SlabLen \in Nat /\ (k + 1) * SlabLen = k * SlabLen + SlabLen
  BY Scaled
<1>2. \A n \in Nat : k < n => n * SlabLen \in Nat /\ k * SlabLen + SlabLen <= n * SlabLen
  BY ScaleUp, Scaled
<1>3. MaxSlabs \in Nat
  BY SlabAssumption
<1> QED BY <1>1, <1>2, <1>3 DEF SlabSlots, Rng, Slots

LEMMA PopBack ==
  ASSUME NEW q \in Seq(Ranges), q # <<>>
  PROVE  /\ Len(q) \in Nat /\ Len(q) > 0 /\ q[Len(q)] \in Ranges
         /\ SubSeq(q, 1, Len(q) - 1) \in Seq(Ranges)
         /\ Len(SubSeq(q, 1, Len(q) - 1)) = Len(q) - 1
         /\ \A i \in 1..(Len(q) - 1) : SubSeq(q, 1, Len(q) - 1)[i] = q[i]
<1>1. Len(q) \in Nat /\ Len(q) > 0 /\ q[Len(q)] \in Ranges
  OBVIOUS
<1>2. \A i \in 1..(Len(q) - 1) : q[i] \in Ranges
  OBVIOUS
<1> DEFINE n == Len(q) - 1
           p == SubSeq(q, 1, n)
<1>3. n \in Nat /\ n - 1 + 1 = n /\ \A i \in Int : 1 + i - 1 = i
  BY <1>1
<1>4. p \in Seq(Ranges) /\ \A i \in 1..(n - 1 + 1) : p[i] = q[1 + i - 1]
  BY <1>1, <1>2, SubSeqProperties
<1>5. Len(p) = IF 1 <= n THEN n - 1 + 1 ELSE 0
  BY <1>1, <1>2, SubSeqProperties
<1>6. Len(p) = n
  BY <1>3, <1>5
<1>7. \A i \in 1..n : p[i] = q[i]
  <2> SUFFICES ASSUME NEW i \in 1..n PROVE p[i] = q[i]
    OBVIOUS
  <2>1. i \in Int /\ i \in 1..(n - 1 + 1)
    BY <1>3
  <2> HIDE DEF n, p
  <2> QED BY <2>1, <1>3, <1>4
<1> QED BY <1>1, <1>4, <1>6, <1>7

LEMMA PushBack ==
  ASSUME NEW q \in Seq(Ranges), NEW r \in Ranges
  PROVE  /\ Len(q) \in Nat /\ Append(q, r) \in Seq(Ranges)
         /\ Len(Append(q, r)) = Len(q) + 1
         /\ \A i \in 1..Len(q) : Append(q, r)[i] = q[i]
         /\ Append(q, r)[Len(q) + 1] = r
OBVIOUS

LEMMA SlotFacts == /\ Slots \subseteq Nat \ {0}
                   /\ \A s \in Slots : s \in Nat /\ s # 0
BY SlabAssumption DEF Slots

LEMMA SlotBound ==
  ASSUME NEW n \in 1..MaxSlabs
  PROVE  \A s \in 1..(n * SlabLen) : s \in Slots
<1>1. MaxSlabs \in Nat /\ n \in Nat
  BY SlabAssumption
<1>2. n * SlabLen \in Nat /\ MaxSlabs * SlabLen \in Nat /\ SlabLen \in Nat
  BY <1>1, Scaled
<1>3. n * SlabLen <= MaxSlabs * SlabLen
  <2>1. CASE n = MaxSlabs
    BY <2>1, <1>2
  <2>2. CASE n < MaxSlabs
    BY <2>2, <1>1, <1>2, ScaleUp
  <2> QED BY <2>1, <2>2, <1>1
<1> QED BY <1>2, <1>3 DEF Slots

-----------------------------------------------------------------------------
(* A step of one thread leaves the other hands alone. *)

Only(t) ==
  \A u \in Threads \ {t} : /\ pc'[u] = pc[u] /\ obj'[u] = obj[u] /\ target'[u] = target[u]
                           /\ slot'[u] = slot[u] /\ gen'[u] = gen[u]

LEMMA HandsFrame ==
  ASSUME Types, Types', Hands, NEW t \in Threads, Only(t), Hand(t)',
         alive' = alive, toScan' = toScan, currGen' = currGen,
         \A k \in 0..(nAlloc - 1) : k \in 0..(nAlloc' - 1),
         \A u \in Threads \ {t} : pc[u] # "idle" => phase'[obj[u]] = phase[obj[u]]
  PROVE  Hands'
<1> SUFFICES ASSUME NEW u \in Threads, u # t PROVE Hand(u)'
  BY DEF Hands
<1>1. Hand(u)
  BY DEF Hands
<1> QED BY <1>1 DEF Hand, Only

LEMMA HandSlotsFrame ==
  ASSUME HandSlots, NEW t \in Threads, Only(t),
         \A s \in InHand(t)' : HandSlot(t, s)',
         \A u \in Threads \ {t} : \A s \in InHand(u) : word'[s] = word[s] /\ data'[s] = data[s]
  PROVE  HandSlots'
<1> SUFFICES ASSUME NEW u \in Threads, u # t, NEW s \in InHand(u)' PROVE HandSlot(u, s)'
  BY DEF HandSlots
<1>1. s \in InHand(u)
  BY DEF InHand, Only
<1> QED BY <1>1 DEF HandSlots, HandSlot, Only

LEMMA HandsApartFrame ==
  ASSUME HandsApart, NEW t \in Threads, Only(t),
         \A u \in Threads \ {t} : InHand(t)' \cap InHand(u) = {}
  PROVE  HandsApart'
<1>1. \A u \in Threads \ {t} : InHand(u)' = InHand(u)
  BY DEF InHand, Only
<1> QED BY <1>1 DEF HandsApart

LEMMA WordOfRef ==
  ASSUME RefsReach, NEW o \in Objs, phase[o] \in {"live", "removed"}
  PROVE  /\ ref[o].slot \in Slots /\ word[ref[o].slot].gen = ref[o].gen
         /\ word[ref[o].slot].state = IF phase[o] = "live" THEN "Used" ELSE "Free"
<1>1. phase[o] \in Made
  BY DEF Made
<1>2. word[ref[o].slot] = [gen |-> ref[o].gen, state |-> IF phase[o] = "live" THEN "Used" ELSE "Free"]
  BY DEF RefsReach
<1> QED BY <1>1, <1>2 DEF RefsReach

LEMMA EmptyHand ==
  ASSUME Types, Hands, NEW t \in Threads, pc[t] = "idle"
  PROVE  InHand(t) = {} /\ slot[t] = 0
<1>1. target[t] \in Ranges /\ target[t].len = 0 /\ slot[t] = 0
  BY DEF Hands, Hand, Types
<1>2. Rng(target[t]) = {}
  BY <1>1 DEF Rng, Ranges
<1> QED BY <1>1, <1>2 DEF InHand

-----------------------------------------------------------------------------
(* push_back takes a range. *)

LEMMA BeginInv ==
  ASSUME IInv, NEW t \in Threads, NEW o \in Objs, NEW r \in Ranges, NEW at \in {"append", "construct"},
         Begin(t, o, r, at), Types', r.len > 0,
         at = "append" => \E k \in 0..(nAlloc' - 1) : r = [ptr |-> k * SlabLen + 1, len |-> SlabLen],
         \A k \in 0..(nAlloc - 1) : k \in 0..(nAlloc' - 1),
         \A s \in Rng(r) : /\ s \in Slots /\ data[s] = None
                           /\ IF at = "append" THEN word[s].state = "Raw" ELSE word[s] = Zero,
         \A u \in Threads : Rng(r) \cap InHand(u) = {}
  PROVE  /\ Hands' /\ Pushed' /\ HandSlots' /\ Linked' /\ Dead'
         /\ SlotsOwned' /\ RefsReach' /\ Generations' /\ HandsApart'
         /\ InHand(t) = {} /\ InHand(t)' = Rng(r)
         /\ \A u \in Threads \ {t} : InHand(u)' = InHand(u)
<1> USE DEF IInv
<1>1. /\ Only(t) /\ pc'[t] = at /\ obj'[t] = o /\ target'[t] = r /\ slot'[t] = 0
      /\ alive /\ alive' = alive /\ toScan = {} /\ toScan' = toScan /\ currGen' = currGen
      /\ pc[t] = "idle" /\ InHand(t) = {}
  BY EmptyHand DEF Begin, Only, Types
<1>2. /\ phase[o] = "new" /\ phase'[o] = "pushing"
      /\ \A e \in Objs \ {o} : phase'[e] = phase[e]
  BY DEF Begin, Types
<1>3. \A u \in Threads : pc[u] # "idle" => obj[u] \in Objs \ {o}
  BY <1>2 DEF Hands, Hand
<1>4. Hand(t)'
  BY <1>1, <1>2 DEF Hand
<1>5. Hands'
  BY <1>1, <1>2, <1>3, <1>4, HandsFrame
<1>6. Pushed'
  <2> SUFFICES ASSUME NEW u \in Threads, NEW v \in Threads, u # v, pc'[u] # "idle"
               PROVE  obj'[u] # obj'[v]
    BY DEF Pushed
  <2>1. CASE u = t
    <3>1. obj[v] # o
      BY <1>3, ObjAssumption DEF Hands, Hand
    <3> QED BY <2>1, <3>1, <1>1 DEF Only
  <2>2. CASE v = t
    BY <2>2, <1>1, <1>3 DEF Only
  <2>3. CASE u # t /\ v # t
    BY <2>3, <1>1 DEF Only, Pushed
  <2> QED BY <2>1, <2>2, <2>3
<1>7. InHand(t)' = Rng(r)
  BY <1>1 DEF InHand, Rng
<1>8. word' = word /\ data' = data /\ ref' = ref /\ linked' = linked /\ genTracked' = genTracked
  BY DEF Begin, slots
<1>9. HandSlots'
  <2>1. \A s \in InHand(t)' : HandSlot(t, s)'
    BY <1>1, <1>7, <1>8, SlotFacts DEF HandSlot, Zero
  <2> QED BY <2>1, <1>1, <1>8, HandSlotsFrame
<1>10. Linked' /\ Dead'
  BY <1>1, <1>8 DEF Linked, Dead, SlabSlots
<1>11. SlotsOwned'
  <2>1. \A e \in Objs : phase[e] \in {"live", "removed"} => phase'[e] = phase[e]
    BY <1>2
  <2> QED BY <2>1, <1>1, <1>8 DEF SlotsOwned
<1>12. \A e \in Objs : phase'[e] \in Made => phase'[e] = phase[e]
  BY <1>2 DEF Made
<1>13. RefsReach'
  BY <1>12, <1>1, <1>2, <1>8 DEF RefsReach, Made
<1>14. Generations'
  BY <1>12, <1>1, <1>2, <1>8 DEF Generations, Made
<1>15. \A u \in Threads \ {t} : InHand(u)' = InHand(u)
  BY <1>1 DEF InHand, Only
<1>16. HandsApart'
  BY <1>1, <1>7, HandsApartFrame
<1> QED BY <1>1, <1>5, <1>6, <1>7, <1>9, <1>10, <1>11, <1>13, <1>14, <1>15, <1>16

LEMMA PopRangeInv ==
  ASSUME IInv, NEW t \in Threads, NEW o \in Objs, PopRange(t, o)
  PROVE  IInv'
<1> USE DEF IInv
<1>1. PICK n : n = Len(freeList)
  OBVIOUS
<1>2. PICK r : r = freeList[n]
  OBVIOUS
<1>3. /\ n \in Nat /\ n > 0 /\ r \in Ranges
      /\ freeList' \in Seq(Ranges) /\ Len(freeList') = n - 1
      /\ \A i \in 1..(n - 1) : freeList'[i] = freeList[i]
  BY <1>1, <1>2, PopBack DEF PopRange, Types
<1>4. n \in 1..Len(freeList) /\ \A i \in 1..Len(freeList') : i \in 1..Len(freeList) /\ i # n /\ freeList'[i] = freeList[i]
  BY <1>1, <1>3
<1>5. Begin(t, o, r, "construct") /\ nAlloc' = nAlloc
  BY <1>1, <1>2 DEF PopRange
<1>6. Types'
  BY <1>3, <1>5 DEF Begin, Types, Stages, Phases, slots
<1>7. r.len > 0 /\ \A s \in Rng(r) : s \in Slots /\ data[s] = None /\ word[s] = Zero
  BY <1>2, <1>4 DEF ListRanges, ListSlots
<1>8. \A u \in Threads : Rng(r) \cap InHand(u) = {}
  BY <1>2, <1>4 DEF ListNotHeld
<1>9. /\ Hands' /\ Pushed' /\ HandSlots' /\ Linked' /\ Dead'
      /\ SlotsOwned' /\ RefsReach' /\ Generations' /\ HandsApart'
      /\ InHand(t) = {} /\ InHand(t)' = Rng(r)
      /\ \A u \in Threads \ {t} : InHand(u)' = InHand(u)
  BY <1>3, <1>5, <1>6, <1>7, <1>8, BeginInv
<1>10. ListRanges'
  BY <1>4 DEF ListRanges
<1>11. \A i \in 1..Len(freeList') : Rng(freeList'[i]) = Rng(freeList[i])
  BY <1>4
<1>12. word' = word /\ data' = data /\ alive' = alive
  BY <1>5 DEF Begin, slots
<1>13. ListSlots'
  BY <1>4, <1>12 DEF ListSlots, Rng, Zero
<1>14. ListDisjoint'
  BY <1>4 DEF ListDisjoint, Rng
<1>15. ListNotHeld'
  <2> SUFFICES ASSUME NEW i \in 1..Len(freeList'), NEW u \in Threads
               PROVE  Rng(freeList'[i]) \cap InHand(u)' = {}
    BY DEF ListNotHeld, Rng
  <2>1. Rng(freeList[i]) \cap Rng(r) = {} /\ Rng(freeList[i]) \cap InHand(u) = {}
    BY <1>2, <1>4 DEF ListDisjoint, ListNotHeld
  <2> QED BY <2>1, <1>9, <1>11
<1>16. NoSlotLost'
  <2> SUFFICES ASSUME alive, NEW s \in 1..(nAlloc * SlabLen), word[s].state \in {"Raw", "FreeList"}
               PROVE  \/ \E i \in 1..Len(freeList') : s \in Rng(freeList'[i])
                      \/ \E u \in Threads : s \in InHand(u)'
    BY <1>5, <1>12 DEF NoSlotLost, Rng
  <2>1. CASE \E u \in Threads : s \in InHand(u)
    BY <2>1, <1>9
  <2>2. ASSUME NEW i \in 1..Len(freeList), s \in Rng(freeList[i]), i # n
        PROVE  \E j \in 1..Len(freeList') : s \in Rng(freeList'[j])
    <3>1. i \in 1..Len(freeList')
      BY <2>2, <1>1, <1>3
    <3> QED BY <3>1, <2>2, <1>11
  <2>3. CASE s \in Rng(r)
    BY <2>3, <1>9
  <2> QED BY <2>1, <2>2, <2>3, <1>2 DEF NoSlotLost
<1> QED BY <1>6, <1>9, <1>10, <1>13, <1>14, <1>15, <1>16

LEMMA NewSlabInv ==
  ASSUME IInv, NEW t \in Threads, NEW o \in Objs, NewSlab(t, o)
  PROVE  IInv'
<1> USE DEF IInv
<1>1. PICK n : n = nAlloc
  OBVIOUS
<1>2. PICK r : r = [ptr |-> n * SlabLen + 1, len |-> SlabLen]
  OBVIOUS
<1>3. /\ n \in Nat /\ n < MaxSlabs /\ n + 1 \in 1..MaxSlabs /\ n \in 0..((n + 1) - 1)
      /\ \A k \in 0..(n - 1) : k \in 0..((n + 1) - 1) /\ k \in Nat /\ k < n
  BY <1>1, SlabAssumption DEF NewSlab, Types
<1>4. freeList = <<>> /\ freeList' = <<>> /\ nAlloc' = n + 1 /\ Begin(t, o, r, "append")
  BY <1>1, <1>2 DEF NewSlab
<1>5. r \in Ranges /\ r.len > 0 /\ Rng(r) = SlabSlots(n)
  <2>1. n * SlabLen \in Nat /\ SlabLen \in Nat /\ SlabLen > 0
    BY <1>3, Scaled
  <2>2. Rng(r) = SlabSlots(n)
    BY <1>2, <1>3, SlabRange
  <2> QED BY <2>1, <2>2, <1>2 DEF Ranges
<1>6. Types'
  <2>1. linked' \subseteq 0..(nAlloc' - 1)
    BY <1>1, <1>3, <1>4 DEF Begin, Types
  <2> QED BY <2>1, <1>3, <1>4, <1>5 DEF Begin, Types, Stages, Phases, slots
<1>7. \A k \in 0..(n - 1) : \A s \in SlabSlots(k) : s <= n * SlabLen
  BY <1>3, SlabRange
<1>8. \A s \in SlabSlots(n) : s \in Slots /\ s > n * SlabLen /\ n * SlabLen \in Nat /\ s \in Nat
  <2>1. n * SlabLen \in Nat /\ (n + 1) * SlabLen \in Nat
    BY <1>3, Scaled
  <2>2. SlabSlots(n) \subseteq Slots
    BY <1>3, SlabRange
  <2> QED BY <2>1, <2>2 DEF SlabSlots
<1>9. \A s \in Rng(r) : s \in Slots /\ word[s].state = "Raw" /\ data[s] = None
  <2> SUFFICES ASSUME NEW s \in SlabSlots(n) PROVE s \in Slots /\ word[s].state = "Raw" /\ data[s] = None
    BY <1>5
  <2>1. \A k \in linked : s \notin SlabSlots(k)
    BY <1>1, <1>7, <1>8 DEF Types
  <2> QED BY <2>1, <1>8 DEF Linked
<1>10. \A u \in Threads : Rng(r) \cap InHand(u) = {}
  <2> SUFFICES ASSUME NEW u \in Threads, NEW s \in Rng(r), s \in InHand(u) PROVE FALSE
    OBVIOUS
  <2>1. pc[u] = "append"
    BY <1>9 DEF HandSlots, HandSlot, Zero
  <2>2. slot[u] = 0
    BY <2>1 DEF Hands, Hand
  <2>3. PICK k \in 0..(n - 1) : target[u] = [ptr |-> k * SlabLen + 1, len |-> SlabLen]
    BY <2>1, <1>1 DEF Hands, Hand
  <2>4. s \in SlabSlots(k)
    BY <2>2, <2>3, <1>3, SlabRange DEF InHand
  <2> QED BY <2>4, <1>5, <1>7, <1>8
<1>11. /\ Hands' /\ Pushed' /\ HandSlots' /\ Linked' /\ Dead'
       /\ SlotsOwned' /\ RefsReach' /\ Generations' /\ HandsApart'
       /\ InHand(t) = {} /\ InHand(t)' = Rng(r)
       /\ \A u \in Threads \ {t} : InHand(u)' = InHand(u)
  <2>1. \E k \in 0..(nAlloc' - 1) : r = [ptr |-> k * SlabLen + 1, len |-> SlabLen]
    BY <1>2, <1>3, <1>4
  <2>2. \A k \in 0..(nAlloc - 1) : k \in 0..(nAlloc' - 1)
    BY <1>1, <1>3, <1>4
  <2> QED BY <2>1, <2>2, <1>4, <1>5, <1>6, <1>9, <1>10, BeginInv
<1>12. ListSlots' /\ ListRanges' /\ ListDisjoint' /\ ListNotHeld'
  BY <1>4 DEF ListSlots, ListRanges, ListDisjoint, ListNotHeld
<1>13. NoSlotLost'
  <2> SUFFICES ASSUME alive, NEW s \in 1..((n + 1) * SlabLen), word[s].state \in {"Raw", "FreeList"}
               PROVE  \E u \in Threads : s \in InHand(u)'
    BY <1>4 DEF NoSlotLost, Begin, slots
  <2>1. CASE s \in SlabSlots(n)
    BY <2>1, <1>5, <1>11
  <2>2. CASE s \notin SlabSlots(n)
    <3>1. s \in 1..(n * SlabLen)
      BY <2>2, <1>3, Scaled DEF SlabSlots
    <3> QED BY <3>1, <1>1, <1>4, <1>11 DEF NoSlotLost
  <2> QED BY <2>1, <2>2
<1> QED BY <1>6, <1>11, <1>12, <1>13

-----------------------------------------------------------------------------
(* A thread on its way through push_back. *)

LEMMA PushedFrame ==
  ASSUME Pushed, NEW t \in Threads, Only(t), obj'[t] = obj[t], pc[t] # "idle"
  PROVE  Pushed'
BY DEF Pushed, Only

LEMMA AppendSlabInv ==
  ASSUME IInv, NEW t \in Threads, AppendSlab(t)
  PROVE  IInv'
<1> USE DEF IInv
<1>1. /\ Only(t) /\ pc[t] = "append" /\ pc'[t] = "construct" /\ obj' = obj /\ target' = target
      /\ slot' = slot /\ slot[t] = 0 /\ target[t].len > 0
      /\ alive' = alive /\ toScan' = toScan /\ currGen' = currGen /\ nAlloc' = nAlloc
      /\ freeList' = freeList /\ data' = data /\ ref' = ref /\ phase' = phase /\ genTracked' = genTracked
  BY DEF AppendSlab, Only, Types, Hands, Hand
<1>2. \A u \in Threads : InHand(u)' = InHand(u)
  BY <1>1 DEF InHand, Rng
<1>3. InHand(t) = Rng(target[t])
  BY <1>1 DEF InHand
<1>4. \A s \in InHand(t) : s \in Slots /\ word[s].state = "Raw" /\ word'[s] = Zero /\ data[s] = None
  BY <1>1, <1>3, SlotFacts DEF HandSlots, HandSlot, AppendSlab
<1>5. \A s \in Slots : s \notin InHand(t) => word'[s] = word[s]
  BY <1>3 DEF AppendSlab
<1>6. PICK k \in 0..(nAlloc - 1) : target[t] = [ptr |-> k * SlabLen + 1, len |-> SlabLen]
  BY <1>1 DEF Hands, Hand
<1>7. k \in Nat /\ InHand(t) = SlabSlots(k) /\ (target[t].ptr - 1) \div SlabLen = k
  <2>1. nAlloc \in Nat /\ k \in Nat
    BY SlabAssumption DEF Types
  <2>2. k * SlabLen + 1 - 1 = k * SlabLen
    BY <2>1, Scaled
  <2> QED BY <2>1, <2>2, <1>3, <1>6, Scaled, SlabRange
<1>8. linked' = linked \cup {k}
  BY <1>7 DEF AppendSlab
<1>9. Types'
  BY <1>1, <1>8, SlabAssumption DEF AppendSlab, Types, Words, Zero, Stages
<1>10. Hands'
  <2>1. Hand(t)'
    BY <1>1 DEF Hands, Hand
  <2> QED BY <2>1, <1>1, <1>9, HandsFrame
<1>11. Pushed'
  BY <1>1, PushedFrame
<1>12. HandSlots'
  <2>1. \A s \in InHand(t)' : HandSlot(t, s)'
    BY <1>1, <1>2, <1>4, SlotFacts DEF HandSlot, Zero
  <2>2. \A u \in Threads \ {t} : \A s \in InHand(u) : word'[s] = word[s] /\ data'[s] = data[s]
    BY <1>1, <1>5 DEF HandsApart, HandSlots, HandSlot
  <2> QED BY <2>1, <2>2, <1>1, HandSlotsFrame
<1>13. ListSlots' /\ ListRanges' /\ ListDisjoint'
  <2>1. \A i \in 1..Len(freeList) : \A s \in Rng(freeList[i]) : s \notin InHand(t)
    BY DEF ListNotHeld
  <2> QED BY <2>1, <1>1, <1>5 DEF ListSlots, ListRanges, ListDisjoint, Rng, Zero
<1>14. HandsApart' /\ ListNotHeld'
  BY <1>1, <1>2 DEF HandsApart, ListNotHeld, Rng
<1>15. Linked'
  BY <1>1, <1>4, <1>5, <1>7, <1>8 DEF Linked, SlabSlots, Zero
<1>16. Dead'
  BY <1>1 DEF Dead
<1>17. SlotsOwned'
  BY <1>1, <1>4, <1>5 DEF SlotsOwned, Zero
<1>18. RefsReach'
  BY <1>1, <1>4, <1>5 DEF RefsReach, Made
<1>19. Generations'
  <2>1. \A o \in Objs : phase[o] \in Made => ref[o].slot \in Slots
    BY DEF RefsReach
  <2>2. \A s \in Slots : word'[s] = word[s] \/ word'[s].gen = 0
    BY <1>4, <1>5 DEF Zero
  <2>3. genTracked => \A o \in Objs : phase[o] = "collected" => word'[ref[o].slot].gen # ref[o].gen
    <3> SUFFICES ASSUME genTracked, NEW o \in Objs, phase[o] = "collected"
                 PROVE  word'[ref[o].slot].gen # ref[o].gen
      OBVIOUS
    <3>1. ref[o].slot \in Slots /\ ref[o].gen # 0 /\ word[ref[o].slot].gen # ref[o].gen
      BY <2>1 DEF Generations, Made
    <3> QED BY <3>1, <2>2
  <2> QED BY <2>2, <2>3, <1>1 DEF Generations
<1>20. NoSlotLost'
  <2>1. \A s \in 1..(nAlloc * SlabLen) : s \in Slots
    BY SlotBound DEF Types
  <2> QED BY <2>1, <1>1, <1>2, <1>4, <1>5 DEF NoSlotLost, Rng
<1> QED BY <1>9, <1>10, <1>11, <1>12, <1>13, <1>14, <1>15, <1>16, <1>17, <1>18, <1>19, <1>20

LEMMA ConstructInv ==
  ASSUME IInv, NEW t \in Threads, Construct(t)
  PROVE  IInv'
<1> USE DEF IInv
<1>1. PICK p : p = target[t].ptr
  OBVIOUS
<1>2. PICK l : l = target[t].len
  OBVIOUS
<1>3. /\ Only(t) /\ pc[t] = "construct" /\ pc'[t] = IF l = 1 THEN "load" ELSE "rest"
      /\ obj' = obj /\ slot[t] = 0 /\ slot'[t] = p /\ gen' = gen
      /\ target'[t] = [ptr |-> p + 1, len |-> l - 1] /\ target[t] = [ptr |-> p, len |-> l]
      /\ p \in Nat /\ l \in Nat /\ l > 0
      /\ alive' = alive /\ toScan' = toScan /\ currGen' = currGen /\ nAlloc' = nAlloc /\ linked' = linked
      /\ freeList' = freeList /\ word' = word /\ ref' = ref /\ phase' = phase /\ genTracked' = genTracked
  <2>1. pc[t] = "construct" /\ slot[t] = 0 /\ l > 0 /\ target[t] \in Ranges
    BY <1>2 DEF Construct, Types, Hands, Hand
  <2>2. target[t] = [ptr |-> p, len |-> l] /\ p \in Nat /\ l \in Nat
    BY <2>1, <1>1, <1>2 DEF Ranges
  <2>3. Only(t)
    BY DEF Construct, Only, Types
  <2>4. /\ pc'[t] = IF l = 1 THEN "load" ELSE "rest"
        /\ slot'[t] = p /\ target'[t] = [ptr |-> p + 1, len |-> l - 1]
    BY <1>1, <1>2 DEF Construct, Types
  <2>5. /\ obj' = obj /\ gen' = gen
        /\ alive' = alive /\ toScan' = toScan /\ currGen' = currGen /\ nAlloc' = nAlloc /\ linked' = linked
        /\ freeList' = freeList /\ word' = word /\ ref' = ref /\ phase' = phase /\ genTracked' = genTracked
    BY DEF Construct, lists
  <2> QED BY <2>1, <2>2, <2>3, <2>4, <2>5
<1>4. InHand(t) = p..(p + l - 1) /\ p \in InHand(t)
  BY <1>3 DEF InHand, Rng
<1>5. \A s \in InHand(t) : s \in Slots /\ word[s] = Zero /\ data[s] = None
  BY <1>3, SlotFacts DEF HandSlots, HandSlot
<1>6. p \in Slots /\ p # 0 /\ Rng(target'[t]) = (p + 1)..(p + l - 1)
  <2>1. Rng([ptr |-> p + 1, len |-> l - 1]) = (p + 1)..(p + l - 1)
    BY <1>3 DEF Rng
  <2> QED BY <2>1, <1>3, <1>4, <1>5, SlotFacts
<1>7. InHand(t)' = InHand(t)
  <2>1. InHand(t)' = Rng(target'[t]) \cup ({slot'[t]} \ {0})
    BY DEF InHand, Rng
  <2>2. p..(p + l - 1) = ((p + 1)..(p + l - 1)) \cup {p}
    BY <1>3
  <2> QED BY <2>1, <2>2, <1>3, <1>4, <1>6
<1>8. \A u \in Threads : InHand(u)' = InHand(u)
  BY <1>3, <1>7 DEF InHand, Only
<1>9. data' = [data EXCEPT ![p] = obj[t]] /\ obj[t] \in Objs
  BY <1>1, <1>3 DEF Construct, Hands, Hand
<1>10. data'[p] = obj[t] /\ \A s \in Slots \ {p} : data'[s] = data[s]
  BY <1>6, <1>9 DEF Types
<1>11. Types'
  <2>1. target'[t] \in Ranges
    BY <1>3 DEF Ranges
  <2>2. target' \in [Threads -> Ranges] /\ pc' \in [Threads -> Stages]
    BY <2>1, <1>3 DEF Construct, Types, Stages
  <2>3. data' \in [Slots -> Objs \cup {None}] /\ slot' \in [Threads -> Slots \cup {0}]
    BY <1>1, <1>6, <1>9 DEF Construct, Types
  <2> QED BY <2>2, <2>3, <1>3 DEF Types
<1>12. Hands'
  <2>1. Hand(t)'
    <3>1. pc'[t] = "rest" => slot'[t] \notin Rng(target'[t])
      BY <1>3, <1>6
    <3>2. pc'[t] \in {"rest", "load"} /\ slot'[t] # 0
      BY <1>3, <1>6
    <3>3. target'[t].len = l - 1 /\ (pc'[t] = "load" => l = 1) /\ (pc'[t] = "rest" => l # 1)
      BY <1>3
    <3>4. alive /\ toScan = {} /\ obj[t] \in Objs /\ phase[obj[t]] = "pushing"
      BY <1>3 DEF Hands, Hand
    <3>5. (pc'[t] = "load" => target'[t].len = 0) /\ (pc'[t] = "rest" => target'[t].len > 0)
      BY <3>3, <1>3
    <3> QED BY <3>1, <3>2, <3>4, <3>5, <1>3 DEF Hand, Rng
  <2> QED BY <2>1, <1>3, <1>11, HandsFrame
<1>13. Pushed'
  BY <1>3, PushedFrame
<1>14. HandSlots'
  <2>1. \A s \in InHand(t)' : HandSlot(t, s)'
    BY <1>3, <1>5, <1>7, <1>10, SlotFacts DEF HandSlot, Zero
  <2>2. \A u \in Threads \ {t} : \A s \in InHand(u) : word'[s] = word[s] /\ data'[s] = data[s]
    BY <1>3, <1>4, <1>10 DEF HandsApart, HandSlots, HandSlot
  <2> QED BY <2>1, <2>2, <1>3, HandSlotsFrame
<1>15. ListSlots' /\ ListRanges' /\ ListDisjoint'
  <2>1. \A i \in 1..Len(freeList) : \A s \in Rng(freeList[i]) : s # p
    BY <1>4 DEF ListNotHeld
  <2> QED BY <2>1, <1>3, <1>10 DEF ListSlots, ListRanges, ListDisjoint, Rng, Zero
<1>16. HandsApart' /\ ListNotHeld' /\ NoSlotLost'
  BY <1>3, <1>8 DEF HandsApart, ListNotHeld, NoSlotLost, Rng
<1>17. word[p].state = "FreeList"
  BY <1>4, <1>5 DEF Zero
<1>18. Linked'
  BY <1>3, <1>10, <1>17 DEF Linked, SlabSlots
<1>19. Dead' /\ Generations'
  BY <1>3 DEF Dead, Hands, Hand, Generations
<1>20. SlotsOwned'
  BY <1>3, <1>10, <1>17 DEF SlotsOwned
<1>21. RefsReach'
  <2>1. \A o \in Objs : phase[o] \in {"live", "removed"} => ref[o].slot \in Slots \ {p}
    BY <1>17, WordOfRef
  <2> QED BY <2>1, <1>3, <1>10 DEF RefsReach
<1> QED BY <1>11, <1>12, <1>13, <1>14, <1>15, <1>16, <1>18, <1>19, <1>20, <1>21

LEMMA PushRestInv ==
  ASSUME IInv, NEW t \in Threads, PushRest(t)
  PROVE  IInv'
<1> USE DEF IInv
<1>1. PICK r : r = target[t]
  OBVIOUS
<1>2. PICK n : n = Len(freeList)
  OBVIOUS
<1>3. /\ Only(t) /\ pc[t] = "rest" /\ pc'[t] = "load" /\ obj' = obj /\ slot' = slot
      /\ target'[t] = NoRange /\ r \in Ranges /\ r.len > 0 /\ slot[t] \notin Rng(r) /\ slot[t] # 0
      /\ alive' = alive /\ toScan' = toScan /\ currGen' = currGen /\ nAlloc' = nAlloc /\ linked' = linked
      /\ word' = word /\ data' = data /\ ref' = ref /\ phase' = phase /\ genTracked' = genTracked
  BY <1>1 DEF PushRest, Only, Types, Hands, Hand, slots
<1>4. /\ n \in Nat /\ freeList' \in Seq(Ranges) /\ Len(freeList') = n + 1
      /\ \A i \in 1..n : freeList'[i] = freeList[i]
      /\ freeList'[n + 1] = r
  <2>1. freeList' = Append(freeList, r)
    BY <1>1 DEF PushRest
  <2> QED BY <2>1, <1>2, <1>3, PushBack DEF Types
<1>5. \A i \in 1..(n + 1) : i \in 1..n \/ i = n + 1
  BY <1>4
<1>6. InHand(t)' = {slot[t]} /\ InHand(t) = Rng(r) \cup {slot[t]}
  <2>1. Rng(NoRange) = {}
    BY DEF Rng, NoRange
  <2> QED BY <2>1, <1>1, <1>3 DEF InHand, Rng
<1>7. \A u \in Threads \ {t} : InHand(u)' = InHand(u)
  BY <1>3 DEF InHand, Only
<1>8. Types'
  <2>1. NoRange \in Ranges
    BY DEF NoRange, Ranges
  <2> QED BY <2>1, <1>3, <1>4 DEF PushRest, Types, Stages
<1>9. Hands'
  <2>1. Hand(t)'
    BY <1>3 DEF Hands, Hand, NoRange
  <2> QED BY <2>1, <1>3, <1>8, HandsFrame
<1>10. Pushed'
  BY <1>3, PushedFrame
<1>11. HandSlots'
  <2>1. \A s \in InHand(t)' : HandSlot(t, s)'
    BY <1>3, <1>6 DEF HandSlots, HandSlot, Zero
  <2> QED BY <2>1, <1>3, HandSlotsFrame
<1>12. ListSlots'
  <2>1. \A s \in Rng(r) : s \in Slots /\ word[s] = Zero /\ data[s] = None
    BY <1>3, <1>6 DEF HandSlots, HandSlot
  <2>2. \A i \in 1..(n + 1) : \A s \in Rng(freeList'[i]) : s \in Slots /\ word[s] = Zero /\ data[s] = None
    BY <2>1, <1>2, <1>4, <1>5 DEF ListSlots
  <2> QED BY <2>2, <1>3, <1>4 DEF ListSlots, Rng, Zero
<1>13. ListRanges'
  BY <1>2, <1>3, <1>4, <1>5 DEF ListRanges
<1>14. ListDisjoint'
  <2>1. \A i \in 1..n : Rng(freeList[i]) \cap Rng(r) = {}
    BY <1>2, <1>6 DEF ListNotHeld
  <2>2. \A i, j \in 1..(n + 1) : i # j => Rng(freeList'[i]) \cap Rng(freeList'[j]) = {}
    BY <2>1, <1>2, <1>4, <1>5 DEF ListDisjoint
  <2> QED BY <2>2, <1>4 DEF ListDisjoint, Rng
<1>15. HandsApart'
  <2>1. \A u \in Threads \ {t} : InHand(t)' \cap InHand(u) = {}
    BY <1>6 DEF HandsApart
  <2> QED BY <2>1, <1>3, HandsApartFrame
<1>16. ListNotHeld'
  <2>1. \A i \in 1..n, u \in Threads : Rng(freeList[i]) \cap InHand(u)' = {}
    BY <1>2, <1>6, <1>7 DEF ListNotHeld
  <2>2. \A u \in Threads : Rng(r) \cap InHand(u)' = {}
    BY <1>3, <1>6, <1>7 DEF HandsApart
  <2>3. \A i \in 1..(n + 1), u \in Threads : Rng(freeList'[i]) \cap InHand(u)' = {}
    BY <2>1, <2>2, <1>4, <1>5
  <2> QED BY <2>3, <1>4 DEF ListNotHeld, Rng
<1>17. NoSlotLost'
  <2> SUFFICES ASSUME alive, NEW s \in 1..(nAlloc * SlabLen), word[s].state \in {"Raw", "FreeList"}
               PROVE  \/ \E i \in 1..(n + 1) : s \in Rng(freeList'[i])
                      \/ \E u \in Threads : s \in InHand(u)'
    BY <1>3, <1>4 DEF NoSlotLost, Rng
  <2>1. CASE \E i \in 1..n : s \in Rng(freeList[i])
    BY <2>1, <1>4
  <2>2. CASE \E u \in Threads : s \in InHand(u)
    BY <2>2, <1>4, <1>6, <1>7
  <2> QED BY <2>1, <2>2, <1>2 DEF NoSlotLost
<1>18. Linked' /\ Dead'
  BY <1>3 DEF Linked, SlabSlots, Dead, Hands, Hand
<1>19. SlotsOwned' /\ RefsReach' /\ Generations'
  BY <1>3 DEF SlotsOwned, RefsReach, Generations
<1> QED BY <1>8, <1>9, <1>10, <1>11, <1>12, <1>13, <1>14, <1>15, <1>16, <1>17, <1>18, <1>19

LEMMA LoadGenInv ==
  ASSUME IInv, NEW t \in Threads, LoadGen(t)
  PROVE  IInv'
<1> USE DEF IInv
<1>1. /\ Only(t) /\ pc[t] = "load" /\ pc'[t] = "publish" /\ obj' = obj /\ slot' = slot
      /\ target' = target /\ gen'[t] = currGen
      /\ alive' = alive /\ toScan' = toScan /\ currGen' = currGen /\ nAlloc' = nAlloc /\ linked' = linked
      /\ word' = word /\ data' = data /\ ref' = ref /\ phase' = phase /\ genTracked' = genTracked
      /\ freeList' = freeList
  BY DEF LoadGen, Only, Types, slots, lists
<1>2. Types'
  BY <1>1 DEF LoadGen, Types, Stages
<1>3. Hands'
  <2>1. Hand(t)'
    BY <1>1 DEF Hands, Hand
  <2> QED BY <2>1, <1>1, <1>2, HandsFrame
<1>4. Pushed'
  BY <1>1, PushedFrame
<1>5. HandSlots'
  <2>1. \A s \in InHand(t)' : HandSlot(t, s)'
    BY <1>1 DEF HandSlots, HandSlot, Zero, InHand, Rng
  <2> QED BY <2>1, <1>1, HandSlotsFrame
<1>6. ListSlots' /\ ListRanges' /\ Linked' /\ Dead' /\ ListDisjoint' /\ HandsApart' /\ ListNotHeld'
  BY <1>1 DEF ListSlots, Rng, Zero, ListRanges, Linked, SlabSlots, Dead, ListDisjoint,
              HandsApart, ListNotHeld, InHand
<1>7. SlotsOwned' /\ RefsReach' /\ Generations' /\ NoSlotLost'
  BY <1>1 DEF SlotsOwned, RefsReach, Generations, NoSlotLost, InHand, Rng
<1> QED BY <1>2, <1>3, <1>4, <1>5, <1>6, <1>7

LEMMA PublishInv ==
  ASSUME IInv, NEW t \in Threads, Publish(t)
  PROVE  IInv'
<1> USE DEF IInv
<1>1. PICK s : s = slot[t]
  OBVIOUS
<1>2. PICK o : o = obj[t]
  OBVIOUS
<1>3. PICK g : g = IF genTracked THEN currGen ELSE 0
  OBVIOUS
<1>4. /\ Only(t) /\ pc[t] = "publish" /\ pc'[t] = "idle" /\ obj'[t] = None /\ slot'[t] = 0
      /\ target'[t] = NoRange /\ gen'[t] = 0
      /\ alive' = alive /\ toScan' = toScan /\ currGen' = currGen /\ nAlloc' = nAlloc /\ linked' = linked
      /\ data' = data /\ genTracked' = genTracked /\ freeList' = freeList
  BY DEF Publish, Only, Types, lists
<1>5. alive /\ toScan = {} /\ o \in Objs /\ phase[o] = "pushing" /\ s \in Slots /\ s # 0
  BY <1>1, <1>2, <1>4 DEF Hands, Hand, Types
<1>6. InHand(t) = {s} /\ InHand(t)' = {} /\ word[s] = Zero /\ data[s] = o
  <2>1. target[t] \in Ranges /\ target[t].len = 0
    BY <1>4 DEF Hands, Hand, Types
  <2>2. Rng(target[t]) = {} /\ Rng(NoRange) = {}
    BY <2>1 DEF Rng, Ranges, NoRange
  <2>3. InHand(t) = {s} /\ InHand(t)' = {}
    BY <2>2, <1>1, <1>4, <1>5 DEF InHand, Rng
  <2> QED BY <2>3, <1>1, <1>2, <1>4 DEF HandSlots, HandSlot
<1>7. /\ word' = [word EXCEPT ![s] = [gen |-> g, state |-> "Used"]]
      /\ ref' = [ref EXCEPT ![o] = [slot |-> s, gen |-> g]]
      /\ phase' = [phase EXCEPT ![o] = "live"]
  <2>1. gen[t] = currGen
    BY <1>4 DEF Hands, Hand
  <2> QED BY <2>1, <1>1, <1>2, <1>3 DEF Publish, SlotWord
<1>8. /\ word'[s] = [gen |-> g, state |-> "Used"] /\ \A x \in Slots \ {s} : word'[x] = word[x]
      /\ ref'[o] = [slot |-> s, gen |-> g] /\ \A e \in Objs \ {o} : ref'[e] = ref[e]
      /\ phase'[o] = "live" /\ \A e \in Objs \ {o} : phase'[e] = phase[e]
  BY <1>5, <1>7 DEF Types
<1>9. g \in Nat
  BY <1>3 DEF Types
<1>10. \A u \in Threads \ {t} : InHand(u)' = InHand(u) /\ s \notin InHand(u)
  BY <1>4, <1>6 DEF InHand, Only, HandsApart
<1>11. Types'
  <2>1. word' \in [Slots -> Words] /\ ref' \in [Objs -> [slot : Slots \cup {0}, gen : Nat]] /\ phase' \in [Objs -> Phases]
    BY <1>5, <1>7, <1>9 DEF Types, Words, Phases
  <2>2. NoRange \in Ranges
    BY DEF NoRange, Ranges
  <2>3. /\ pc' \in [Threads -> Stages] /\ obj' \in [Threads -> Objs \cup {None}]
        /\ target' \in [Threads -> Ranges] /\ slot' \in [Threads -> Slots \cup {0}] /\ gen' \in [Threads -> Nat]
    BY <2>2 DEF Publish, Types, Stages
  <2> QED BY <2>1, <2>3, <1>4 DEF Types
<1>12. \A u \in Threads \ {t} : pc[u] # "idle" => obj[u] \in Objs \ {o}
  BY <1>2, <1>4 DEF Pushed, Hands, Hand
<1>13. Hands'
  <2>1. Hand(t)'
    BY <1>4 DEF Hand, NoRange
  <2> QED BY <2>1, <1>4, <1>8, <1>11, <1>12, HandsFrame
<1>14. Pushed'
  <2> SUFFICES ASSUME NEW u \in Threads, NEW v \in Threads, u # v, pc'[u] # "idle"
               PROVE  obj'[u] # obj'[v]
    BY DEF Pushed
  <2>1. u # t /\ obj'[u] = obj[u] /\ obj[u] \in Objs
    BY <1>4, <1>12 DEF Only
  <2>2. CASE v = t
    BY <2>1, <2>2, <1>4, ObjAssumption
  <2>3. CASE v # t
    BY <2>1, <2>3, <1>4 DEF Only, Pushed
  <2> QED BY <2>2, <2>3
<1>15. HandSlots'
  <2>1. \A u \in Threads \ {t} : \A x \in InHand(u) : word'[x] = word[x] /\ data'[x] = data[x]
    BY <1>4, <1>8, <1>10 DEF HandSlots, HandSlot
  <2> QED BY <2>1, <1>4, <1>6, HandSlotsFrame
<1>16. ListSlots' /\ ListRanges' /\ ListDisjoint'
  <2>1. \A i \in 1..Len(freeList) : \A x \in Rng(freeList[i]) : x # s
    BY <1>6 DEF ListNotHeld
  <2> QED BY <2>1, <1>4, <1>8 DEF ListSlots, ListRanges, ListDisjoint, Rng, Zero
<1>17. HandsApart'
  BY <1>4, <1>6, HandsApartFrame
<1>18. ListNotHeld'
  <2>1. \A u \in Threads : InHand(u)' \subseteq InHand(u)
    BY <1>6, <1>10
  <2> QED BY <2>1, <1>4 DEF ListNotHeld, Rng
<1>19. Linked'
  BY <1>4, <1>6, <1>8 DEF Linked, SlabSlots, Zero
<1>20. Dead'
  BY <1>4, <1>5 DEF Dead
<1>21. SlotsOwned'
  <2> SUFFICES ASSUME NEW x \in Slots, word'[x].state \in {"Used", "Free"}
               PROVE  /\ data[x] \in Objs /\ ref'[data[x]].slot = x
                      /\ phase'[data[x]] = IF word'[x].state = "Used" THEN "live" ELSE "removed"
    BY <1>4 DEF SlotsOwned
  <2>1. CASE x = s
    BY <2>1, <1>5, <1>6, <1>8
  <2>2. CASE x # s
    <3>1. /\ data[x] \in Objs /\ ref[data[x]].slot = x /\ word'[x] = word[x]
          /\ phase[data[x]] = IF word[x].state = "Used" THEN "live" ELSE "removed"
      BY <2>2, <1>5, <1>8 DEF SlotsOwned
    <3>2. data[x] # o
      BY <3>1, <1>5
    <3> QED BY <3>1, <3>2, <1>8
  <2> QED BY <2>1, <2>2
<1>22. RefsReach'
  <2> SUFFICES ASSUME NEW e \in Objs
               PROVE  /\ phase'[e] \in Made => ref'[e].slot \in Slots
                      /\ phase'[e] \in {"live", "removed"} =>
                           /\ word'[ref'[e].slot] =
                                [gen |-> ref'[e].gen, state |-> IF phase'[e] = "live" THEN "Used" ELSE "Free"]
                           /\ data[ref'[e].slot] = e
    BY <1>4 DEF RefsReach
  <2>1. CASE e = o
    BY <2>1, <1>5, <1>6, <1>8
  <2>2. CASE e # o
    <3>1. ref'[e] = ref[e] /\ phase'[e] = phase[e]
      BY <2>2, <1>8
    <3>2. phase[e] \in Made => ref[e].slot \in Slots
      BY DEF RefsReach
    <3>3. phase[e] \in {"live", "removed"} =>
            /\ word[ref[e].slot] = [gen |-> ref[e].gen, state |-> IF phase[e] = "live" THEN "Used" ELSE "Free"]
            /\ data[ref[e].slot] = e
      BY <1>5 DEF RefsReach
    <3>4. phase[e] \in {"live", "removed"} => ref[e].slot # s
      BY <2>2, <3>3, <1>6
    <3> QED BY <3>1, <3>2, <3>3, <3>4, <1>8 DEF Made
  <2> QED BY <2>1, <2>2
<1>23. Generations'
  <2>1. ASSUME genTracked, NEW e \in Objs, phase'[e] \in Made
        PROVE  /\ 0 < ref'[e].gen /\ ref'[e].gen <= currGen
               /\ phase'[e] = "collected" => ref'[e].gen < currGen
               /\ phase'[e] = "collected" => word'[ref'[e].slot].gen # ref'[e].gen
    <3>1. currGen > 0 /\ currGen \in Nat /\ g = currGen
      BY <2>1, <1>3 DEF Generations, Types
    <3>2. CASE e = o
      BY <3>1, <3>2, <1>8
    <3>3. CASE e # o
      <4>1. /\ ref'[e] = ref[e] /\ phase'[e] = phase[e] /\ ref[e].slot \in Slots /\ ref[e].gen \in Nat
        BY <2>1, <3>3, <1>8 DEF RefsReach, Types
      <4>2. /\ 0 < ref[e].gen /\ ref[e].gen <= currGen
            /\ phase[e] = "collected" => ref[e].gen < currGen /\ word[ref[e].slot].gen # ref[e].gen
        BY <2>1, <4>1 DEF Generations
      <4>3. phase[e] = "collected" => word'[ref[e].slot].gen # ref[e].gen
        BY <3>1, <4>1, <4>2, <1>8
      <4> QED BY <4>1, <4>2, <4>3
    <3> QED BY <3>2, <3>3
  <2>2. ASSUME ~genTracked
        PROVE  (\A x \in Slots : word'[x].gen = 0) /\ \A e \in Objs : ref'[e].gen = 0
    <3>1. (\A x \in Slots : word[x].gen = 0) /\ (\A e \in Objs : ref[e].gen = 0) /\ g = 0
      BY <2>2, <1>3 DEF Generations
    <3> QED BY <3>1, <1>8
  <2>3. genTracked => currGen > 0
    BY DEF Generations
  <2> QED BY <2>1, <2>2, <2>3, <1>4, <1>5 DEF Generations
<1>24. NoSlotLost'
  <2> SUFFICES ASSUME NEW x \in 1..(nAlloc * SlabLen), word'[x].state \in {"Raw", "FreeList"}
               PROVE  \/ \E i \in 1..Len(freeList) : x \in Rng(freeList[i])
                      \/ \E u \in Threads : x \in InHand(u)'
    BY <1>4 DEF NoSlotLost, Rng
  <2>1. x \in Slots /\ x # s
    BY <1>8, SlotBound DEF Types
  <2>2. \A u \in Threads : x \in InHand(u) => x \in InHand(u)'
    BY <2>1, <1>6, <1>10
  <2> QED BY <2>1, <2>2, <1>5, <1>8 DEF NoSlotLost
<1> QED BY <1>11, <1>13, <1>14, <1>15, <1>16, <1>17, <1>18, <1>19, <1>20, <1>21, <1>22, <1>23, <1>24

-----------------------------------------------------------------------------
(* remove, collect_garbage, ~StableVec *)

LEMMA RemoveInv ==
  ASSUME IInv, NEW o \in Objs, Remove(o)
  PROVE  IInv'
<1> USE DEF IInv
<1>1. PICK s : s = ref[o].slot
  OBVIOUS
<1>2. /\ alive' = alive /\ alive /\ toScan' = toScan /\ toScan = {} /\ currGen' = currGen
      /\ nAlloc' = nAlloc /\ linked' = linked /\ freeList' = freeList
      /\ data' = data /\ genTracked' = genTracked /\ ref' = ref
      /\ pc' = pc /\ obj' = obj /\ target' = target /\ slot' = slot /\ gen' = gen
  BY DEF Remove, lists, frame
<1>3. phase[o] \in {"live", "removed"}
  BY DEF Remove, Generations, Made
<1>4. /\ s \in Slots /\ data[s] = o
      /\ word[s] = [gen |-> ref[o].gen, state |-> IF phase[o] = "live" THEN "Used" ELSE "Free"]
  BY <1>1, <1>2, <1>3 DEF RefsReach, Made
<1>5. /\ word'[s] = [gen |-> ref[o].gen, state |-> "Free"]
      /\ \A x \in Slots \ {s} : word'[x] = word[x]
      /\ word[s].state \in {"Used", "Free"} /\ word[s].gen = ref[o].gen
  BY <1>1, <1>4 DEF Remove, Types
<1>6. phase'[o] = "removed" /\ \A e \in Objs \ {o} : phase'[e] = phase[e]
  BY <1>3 DEF Remove, Types
<1>7. Types'
  <2>1. word' \in [Slots -> Words]
    BY <1>1, <1>4 DEF Remove, Types, Words
  <2>2. phase' \in [Objs -> Phases]
    BY DEF Remove, Types, Phases
  <2> QED BY <2>1, <2>2, <1>2 DEF Types
<1>8. Hands' /\ Pushed'
  <2>1. \A u \in Threads : pc[u] # "idle" => phase'[obj[u]] = phase[obj[u]]
    BY <1>3, <1>6 DEF Hands, Hand
  <2> QED BY <2>1, <1>2 DEF Hands, Hand, Pushed, Rng
<1>9. \A u \in Threads : InHand(u)' = InHand(u) /\ s \notin InHand(u)
  <2>1. \A u \in Threads : InHand(u)' = InHand(u)
    BY <1>2 DEF InHand, Rng
  <2>2. \A u \in Threads : \A x \in InHand(u) : word[x].state \in {"Raw", "FreeList"}
    BY DEF HandSlots, HandSlot, Zero
  <2> QED BY <2>1, <2>2, <1>5
<1>10. HandSlots'
  BY <1>2, <1>5, <1>9 DEF HandSlots, HandSlot, Zero
<1>11. ListSlots' /\ ListRanges' /\ ListDisjoint'
  <2>1. \A i \in 1..Len(freeList) : \A x \in Rng(freeList[i]) : x # s
    BY <1>5 DEF ListSlots, Zero
  <2> QED BY <2>1, <1>2, <1>5 DEF ListSlots, ListRanges, ListDisjoint, Rng, Zero
<1>12. HandsApart' /\ ListNotHeld'
  BY <1>2, <1>9 DEF HandsApart, ListNotHeld, Rng
<1>13. Linked' /\ Dead'
  BY <1>2, <1>5 DEF Linked, SlabSlots, Dead
<1>14. SlotsOwned'
  <2> SUFFICES ASSUME NEW x \in Slots, word'[x].state \in {"Used", "Free"}
               PROVE  /\ data[x] \in Objs /\ ref[data[x]].slot = x
                      /\ phase'[data[x]] = IF word'[x].state = "Used" THEN "live" ELSE "removed"
    BY <1>2 DEF SlotsOwned
  <2>1. CASE x = s
    BY <2>1, <1>1, <1>4, <1>5, <1>6
  <2>2. CASE x # s
    <3>1. /\ data[x] \in Objs /\ ref[data[x]].slot = x /\ word'[x] = word[x]
          /\ phase[data[x]] = IF word[x].state = "Used" THEN "live" ELSE "removed"
      BY <2>2, <1>2, <1>5 DEF SlotsOwned
    <3>2. data[x] # o
      BY <2>2, <3>1, <1>1
    <3> QED BY <3>1, <3>2, <1>6
  <2> QED BY <2>1, <2>2
<1>15. RefsReach'
  <2> SUFFICES ASSUME NEW e \in Objs
               PROVE  /\ phase'[e] \in Made => ref[e].slot \in Slots
                      /\ phase'[e] \in {"live", "removed"} =>
                           /\ word'[ref[e].slot] =
                                [gen |-> ref[e].gen, state |-> IF phase'[e] = "live" THEN "Used" ELSE "Free"]
                           /\ data[ref[e].slot] = e
    BY <1>2 DEF RefsReach
  <2>1. CASE e = o
    BY <2>1, <1>1, <1>4, <1>5, <1>6
  <2>2. CASE e # o
    <3>1. phase'[e] = phase[e]
      BY <2>2, <1>6
    <3>2. phase[e] \in Made => ref[e].slot \in Slots
      BY DEF RefsReach
    <3>3. phase[e] \in {"live", "removed"} =>
            /\ word[ref[e].slot] = [gen |-> ref[e].gen, state |-> IF phase[e] = "live" THEN "Used" ELSE "Free"]
            /\ data[ref[e].slot] = e
      BY <1>2 DEF RefsReach
    <3>4. phase[e] \in {"live", "removed"} => ref[e].slot # s
      BY <2>2, <3>3, <1>4
    <3> QED BY <3>1, <3>2, <3>3, <3>4, <1>5 DEF Made
  <2> QED BY <2>1, <2>2
<1>16. Generations'
  <2>1. \A x \in Slots : word'[x].gen = word[x].gen
    BY <1>5
  <2>2. \A e \in Objs : /\ phase'[e] \in Made <=> phase[e] \in Made
                        /\ phase'[e] = "collected" <=> phase[e] = "collected"
    BY <1>3, <1>6 DEF Made
  <2>3. \A e \in Objs : phase[e] \in Made => ref[e].slot \in Slots
    BY DEF RefsReach
  <2> QED BY <2>1, <2>2, <2>3, <1>2 DEF Generations
<1>17. NoSlotLost'
  <2>1. \A x \in 1..(nAlloc * SlabLen) : x \in Slots
    BY SlotBound DEF Types
  <2> QED BY <2>1, <1>2, <1>5, <1>9 DEF NoSlotLost, Rng
<1> QED BY <1>7, <1>8, <1>10, <1>11, <1>12, <1>13, <1>14, <1>15, <1>16, <1>17

LEMMA CollectStartInv ==
  ASSUME IInv, CollectStart
  PROVE  IInv'
<1> USE DEF IInv
<1>1. /\ alive' = alive /\ alive /\ toScan = {}
      /\ nAlloc' = nAlloc /\ linked' = linked /\ freeList' = freeList
      /\ word' = word /\ data' = data /\ genTracked' = genTracked /\ ref' = ref /\ phase' = phase
      /\ pc' = pc /\ obj' = obj /\ target' = target /\ slot' = slot /\ gen' = gen
  BY DEF CollectStart, slots, lists, frame
<1>2. \A u \in Threads : pc[u] = "idle"
  BY DEF CollectStart, AllIdle
<1>3. currGen \in Nat /\ currGen' = IF genTracked THEN currGen + 1 ELSE currGen
  BY DEF CollectStart, Types
<1>4. toScan' \subseteq Slots
  <2> SUFFICES ASSUME NEW k \in linked PROVE SlabSlots(k) \subseteq Slots
    BY DEF CollectStart
  <2>1. k \in Nat /\ k < MaxSlabs
    BY SlabAssumption DEF Types
  <2> QED BY <2>1, SlabRange
<1>5. Types'
  BY <1>1, <1>3, <1>4 DEF Types
<1>6. Hands' /\ Pushed'
  BY <1>1, <1>2 DEF Hands, Hand, Pushed, Rng
<1>7. HandSlots' /\ ListSlots' /\ ListRanges' /\ Linked' /\ Dead' /\ ListDisjoint' /\ HandsApart' /\ ListNotHeld'
  BY <1>1 DEF HandSlots, HandSlot, ListSlots, Rng, Zero, ListRanges, Linked, SlabSlots, Dead, ListDisjoint,
              HandsApart, ListNotHeld, InHand
<1>8. SlotsOwned' /\ RefsReach' /\ NoSlotLost'
  BY <1>1 DEF SlotsOwned, RefsReach, NoSlotLost, InHand, Rng
<1>9. Generations'
  <2>1. ASSUME genTracked, NEW e \in Objs, phase[e] \in Made
        PROVE  /\ 0 < ref[e].gen /\ ref[e].gen < currGen + 1 /\ ref[e].gen <= currGen + 1
               /\ phase[e] = "collected" => word[ref[e].slot].gen # ref[e].gen
    <3>1. 0 < ref[e].gen /\ ref[e].gen <= currGen /\ ref[e].gen \in Nat
      BY <2>1 DEF Generations, Types
    <3> QED BY <3>1, <2>1, <1>3 DEF Generations
  <2>2. genTracked => currGen + 1 > 0
    BY <1>3
  <2>3. ~genTracked => (\A x \in Slots : word[x].gen = 0) /\ \A e \in Objs : ref[e].gen = 0
    BY DEF Generations
  <2> QED BY <2>1, <2>2, <2>3, <1>1, <1>3 DEF Generations
<1> QED BY <1>5, <1>6, <1>7, <1>8, <1>9

\* A slot that is not Free is passed over.
LEMMA CollectNothingInv ==
  ASSUME IInv, NEW s \in Slots, CollectSlot(s), word[s].state # "Free"
  PROVE  IInv'
<1> USE DEF IInv
<1>1. /\ toScan # {} /\ toScan' \subseteq toScan
      /\ alive' = alive /\ nAlloc' = nAlloc /\ linked' = linked /\ freeList' = freeList /\ currGen' = currGen
      /\ word' = word /\ data' = data /\ genTracked' = genTracked /\ ref' = ref /\ phase' = phase
      /\ pc' = pc /\ obj' = obj /\ target' = target /\ slot' = slot /\ gen' = gen
  BY DEF CollectSlot, slots, frame
<1>2. Types'
  BY <1>1 DEF Types
<1>3. Hands' /\ Pushed'
  BY <1>1 DEF Hands, Hand, Pushed, Rng
<1>4. HandSlots' /\ HandsApart' /\ ListNotHeld'
  <2>1. \A u \in Threads : InHand(u)' = InHand(u)
    BY <1>1 DEF InHand, Rng
  <2> QED BY <2>1, <1>1 DEF HandSlots, HandSlot, Zero, HandsApart, ListNotHeld, Rng
<1>5. ListSlots' /\ ListRanges' /\ ListDisjoint' /\ Linked'
  BY <1>1 DEF ListSlots, Rng, Zero, ListRanges, Linked, SlabSlots, ListDisjoint
<1>6. Dead' /\ SlotsOwned' /\ RefsReach' /\ NoSlotLost'
  BY <1>1 DEF Dead, SlotsOwned, RefsReach, NoSlotLost, InHand, Rng
<1>7. Generations'
  BY <1>1 DEF Generations
<1> QED BY <1>2, <1>3, <1>4, <1>6, <1>7, <1>5

LEMMA CollectSlotInv ==
  ASSUME IInv, NEW s \in Slots, CollectSlot(s), word[s].state = "Free"
  PROVE  IInv'
<1> USE DEF IInv
<1>1. PICK o : o = data[s]
  OBVIOUS
<1>2. PICK n : n = Len(freeList)
  OBVIOUS
<1>3. /\ toScan # {} /\ s \in toScan /\ toScan' \subseteq toScan
      /\ alive' = alive /\ nAlloc' = nAlloc /\ linked' = linked /\ currGen' = currGen
      /\ genTracked' = genTracked /\ ref' = ref
      /\ pc' = pc /\ obj' = obj /\ target' = target /\ slot' = slot /\ gen' = gen
  BY DEF CollectSlot, frame
<1>4. alive /\ \A u \in Threads : pc[u] = "idle"
  BY <1>3 DEF Dead, Hands, Hand
<1>5. o \in Objs /\ ref[o].slot = s /\ phase[o] = "removed"
  BY <1>1, <1>4 DEF SlotsOwned
<1>6. /\ word' = [word EXCEPT ![s] = Zero] /\ data' = [data EXCEPT ![s] = None]
      /\ freeList' = Append(freeList, [ptr |-> s, len |-> 1])
      /\ phase' = [e \in Objs |-> IF e = o /\ phase[e] = "removed" THEN "collected" ELSE phase[e]]
  BY <1>1, <1>5, ObjAssumption DEF CollectSlot, DestroyAt, Types
<1>7. /\ word'[s] = Zero /\ \A x \in Slots \ {s} : word'[x] = word[x]
      /\ data'[s] = None /\ \A x \in Slots \ {s} : data'[x] = data[x]
      /\ phase'[o] = "collected" /\ \A e \in Objs \ {o} : phase'[e] = phase[e]
  BY <1>5, <1>6 DEF Types
<1>8. PICK r \in Ranges : r = [ptr |-> s, len |-> 1] /\ Rng(r) = {s} /\ r.len > 0
  <2>1. s \in Nat /\ s + 1 - 1 = s
    BY SlotFacts
  <2>2. [ptr |-> s, len |-> 1] \in Ranges
    BY <2>1 DEF Ranges
  <2>3. Rng([ptr |-> s, len |-> 1]) = {s}
    BY <2>1 DEF Rng
  <2> QED BY <2>2, <2>3
<1>9. /\ n \in Nat /\ freeList' \in Seq(Ranges) /\ Len(freeList') = n + 1
      /\ \A i \in 1..n : freeList'[i] = freeList[i]
      /\ freeList'[n + 1] = r
  BY <1>2, <1>6, <1>8, PushBack DEF Types
<1>10. \A i \in 1..(n + 1) : i \in 1..n \/ i = n + 1
  BY <1>9
<1>11. \A u \in Threads : InHand(u) = {} /\ InHand(u)' = {}
  <2>1. \A u \in Threads : InHand(u) = {}
    BY <1>4, EmptyHand
  <2> QED BY <2>1, <1>3 DEF InHand, Rng
<1>12. Types'
  <2>1. word' \in [Slots -> Words] /\ data' \in [Slots -> Objs \cup {None}] /\ phase' \in [Objs -> Phases]
    BY <1>6 DEF Types, Words, Zero, Phases
  <2> QED BY <2>1, <1>3, <1>9 DEF Types
<1>13. Hands' /\ Pushed'
  BY <1>3, <1>4 DEF Hands, Hand, Pushed
<1>14. HandSlots' /\ HandsApart' /\ ListNotHeld'
  BY <1>11 DEF HandSlots, HandsApart, ListNotHeld
<1>15. \A i \in 1..n : s \notin Rng(freeList[i])
  BY <1>2 DEF ListSlots, Zero
<1>16. ListSlots'
  <2>1. \A i \in 1..n : \A x \in Rng(freeList[i]) : x \in Slots \ {s} /\ word[x] = Zero /\ data[x] = None
    BY <1>2, <1>15 DEF ListSlots
  <2>2. \A i \in 1..(n + 1) : \A x \in Rng(freeList'[i]) : x \in Slots /\ word'[x] = Zero /\ data'[x] = None
    BY <2>1, <1>7, <1>8, <1>9, <1>10
  <2> QED BY <2>2, <1>9 DEF ListSlots, Rng, Zero
<1>17. ListRanges'
  BY <1>2, <1>8, <1>9, <1>10 DEF ListRanges
<1>18. ListDisjoint'
  <2>1. \A i, j \in 1..(n + 1) : i # j => Rng(freeList'[i]) \cap Rng(freeList'[j]) = {}
    <3> SUFFICES ASSUME NEW i \in 1..(n + 1), NEW j \in 1..(n + 1), i # j
                 PROVE  Rng(freeList'[i]) \cap Rng(freeList'[j]) = {}
      OBVIOUS
    <3>1. CASE i \in 1..n /\ j \in 1..n
      BY <3>1, <1>2, <1>9 DEF ListDisjoint
    <3>2. CASE i = n + 1 /\ j \in 1..n
      BY <3>2, <1>8, <1>9, <1>15
    <3>3. CASE i \in 1..n /\ j = n + 1
      BY <3>3, <1>8, <1>9, <1>15
    <3> QED BY <3>1, <3>2, <3>3, <1>10
  <2> QED BY <2>1, <1>9 DEF ListDisjoint, Rng
<1>19. Linked'
  BY <1>3, <1>7 DEF Linked, SlabSlots
<1>20. Dead'
  BY <1>3, <1>4 DEF Dead
<1>21. SlotsOwned'
  <2> SUFFICES ASSUME NEW x \in Slots, word'[x].state \in {"Used", "Free"}
               PROVE  /\ data'[x] \in Objs /\ ref[data'[x]].slot = x
                      /\ phase'[data'[x]] = IF word'[x].state = "Used" THEN "live" ELSE "removed"
    BY <1>3 DEF SlotsOwned
  <2>1. x # s
    BY <1>7 DEF Zero
  <2>2. /\ data[x] \in Objs /\ ref[data[x]].slot = x
        /\ phase[data[x]] = IF word[x].state = "Used" THEN "live" ELSE "removed"
    BY <2>1, <1>4, <1>7 DEF SlotsOwned
  <2>3. data[x] # o
    BY <2>1, <2>2, <1>5
  <2> QED BY <2>1, <2>2, <2>3, <1>7
<1>22. RefsReach'
  <2> SUFFICES ASSUME NEW e \in Objs
               PROVE  /\ phase'[e] \in Made => ref[e].slot \in Slots
                      /\ phase'[e] \in {"live", "removed"} =>
                           /\ word'[ref[e].slot] =
                                [gen |-> ref[e].gen, state |-> IF phase'[e] = "live" THEN "Used" ELSE "Free"]
                           /\ data'[ref[e].slot] = e
    BY <1>3 DEF RefsReach
  <2>1. CASE e = o
    BY <2>1, <1>5, <1>7
  <2>2. CASE e # o
    <3>1. phase'[e] = phase[e]
      BY <2>2, <1>7
    <3>2. phase[e] \in Made => ref[e].slot \in Slots
      BY DEF RefsReach
    <3>3. phase[e] \in {"live", "removed"} =>
            /\ word[ref[e].slot] = [gen |-> ref[e].gen, state |-> IF phase[e] = "live" THEN "Used" ELSE "Free"]
            /\ data[ref[e].slot] = e
      BY <1>4 DEF RefsReach
    <3>4. phase[e] \in {"live", "removed"} => ref[e].slot # s
      BY <2>2, <3>3, <1>1
    <3> QED BY <3>1, <3>2, <3>3, <3>4, <1>7 DEF Made
  <2> QED BY <2>1, <2>2
<1>23. Generations'
  <2>1. \A x \in Slots : word'[x] = word[x] \/ word'[x].gen = 0
    BY <1>7 DEF Zero
  <2>2. ASSUME genTracked, NEW e \in Objs, phase'[e] \in Made
        PROVE  /\ 0 < ref[e].gen /\ ref[e].gen <= currGen /\ ref[e].gen < currGen
               /\ phase'[e] = "collected" => word'[ref[e].slot].gen # ref[e].gen
    <3>1. phase[e] \in Made
      BY <2>2, <1>5, <1>7 DEF Made
    <3>2. /\ ref[e].slot \in Slots /\ 0 < ref[e].gen /\ ref[e].gen <= currGen /\ ref[e].gen < currGen
          /\ phase[e] = "collected" => word[ref[e].slot].gen # ref[e].gen
      BY <2>2, <3>1, <1>3 DEF Generations, RefsReach
    <3>3. CASE e = o
      BY <3>2, <3>3, <1>5, <1>7 DEF Zero
    <3>4. CASE e # o
      <4>1. phase'[e] = phase[e]
        BY <3>4, <1>7
      <4>2. word'[ref[e].slot].gen # 0 => word'[ref[e].slot] = word[ref[e].slot]
        BY <3>2, <2>1
      <4>3. ref[e].gen # 0
        BY <3>2
      <4> QED BY <3>2, <4>1, <4>2, <4>3
    <3> QED BY <3>3, <3>4
  <2>3. genTracked => currGen > 0
    BY DEF Generations
  <2>4. ~genTracked => (\A x \in Slots : word'[x].gen = 0) /\ \A e \in Objs : ref[e].gen = 0
    BY <2>1 DEF Generations
  <2> QED BY <2>2, <2>3, <2>4, <1>3 DEF Generations
<1>24. NoSlotLost'
  <2> SUFFICES ASSUME NEW x \in 1..(nAlloc * SlabLen), word'[x].state \in {"Raw", "FreeList"}
               PROVE  \E i \in 1..(n + 1) : x \in Rng(freeList'[i])
    BY <1>3, <1>9 DEF NoSlotLost, Rng
  <2>1. CASE x = s
    <3>1. n + 1 \in 1..(n + 1)
      BY <1>9
    <3> QED BY <2>1, <3>1, <1>8, <1>9
  <2>2. CASE x # s
    <3>1. word'[x] = word[x]
      BY <2>2, <1>7, SlotBound DEF Types
    <3>2. PICK i \in 1..n : x \in Rng(freeList[i])
      BY <3>1, <1>2, <1>4, <1>11 DEF NoSlotLost
    <3>3. i \in 1..(n + 1)
      BY <1>9
    <3> QED BY <3>2, <3>3, <1>9
  <2> QED BY <2>1, <2>2
<1> QED BY <1>12, <1>13, <1>14, <1>16, <1>17, <1>18, <1>19, <1>20, <1>21, <1>22, <1>23, <1>24

\* What ~StableVec leaves: no object in any slot.
LEMMA DestructedData ==
  ASSUME IInv, Destruct
  PROVE  data' = [s \in Slots |-> None]
<1> USE DEF IInv
<1>1. alive /\ \A u \in Threads : InHand(u) = {}
  BY EmptyHand DEF Destruct, AllIdle
<1>2. SUFFICES ASSUME NEW s \in Slots
               PROVE  (IF s \in UNION {SlabSlots(k) : k \in linked} /\ word[s].state # "FreeList"
                         THEN DestroyAt(data[s]) ELSE data[s]) = None
  BY DEF Destruct
<1>3. CASE word[s].state \in {"Used", "Free"}
  <2>1. data[s] \in Objs /\ data[s] # None
    BY <1>1, <1>3, ObjAssumption DEF SlotsOwned
  <2>2. s \in UNION {SlabSlots(k) : k \in linked}
    BY <1>3 DEF Linked
  <2> QED BY <2>1, <2>2, <1>3 DEF DestroyAt
<1>4. ASSUME word[s].state \in {"Raw", "FreeList"}, NEW k \in linked, s \in SlabSlots(k)
      PROVE  word[s] = Zero /\ data[s] = None
  <2>1. k \in Nat /\ k < nAlloc /\ nAlloc \in Nat
    BY SlabAssumption DEF Types
  <2>2. s <= nAlloc * SlabLen /\ nAlloc * SlabLen \in Nat
    BY <2>1, <1>4, SlabRange, Scaled
  <2>3. s \in 1..(nAlloc * SlabLen)
    BY <2>2, SlotFacts
  <2> QED BY <2>3, <1>1, <1>4 DEF NoSlotLost, ListSlots
<1>5. CASE word[s].state = "Raw"
  <2>1. \A k \in linked : s \notin SlabSlots(k)
    BY <1>4, <1>5 DEF Zero
  <2> QED BY <2>1, <1>5 DEF Linked
<1>6. CASE word[s].state = "FreeList"
  BY <1>4, <1>6 DEF Linked
<1> QED BY <1>3, <1>5, <1>6 DEF Types, Words

LEMMA DestructInv ==
  ASSUME IInv, Destruct
  PROVE  IInv'
<1> USE DEF IInv
<1>1. /\ alive' = FALSE /\ alive /\ toScan' = toScan /\ toScan = {} /\ currGen' = currGen
      /\ nAlloc' = nAlloc /\ linked' = linked /\ freeList' = <<>>
      /\ word' = word /\ genTracked' = genTracked /\ ref' = ref /\ phase' = phase
      /\ pc' = pc /\ obj' = obj /\ target' = target /\ slot' = slot /\ gen' = gen
  BY DEF Destruct, frame
<1>2. data' = [s \in Slots |-> None]
  BY DestructedData
<1>3. \A u \in Threads : pc[u] = "idle" /\ InHand(u) = {} /\ InHand(u)' = {}
  <2>1. \A u \in Threads : pc[u] = "idle" /\ InHand(u) = {}
    BY EmptyHand DEF Destruct, AllIdle
  <2> QED BY <2>1, <1>1 DEF InHand, Rng
<1>4. Types'
  <2>1. data' \in [Slots -> Objs \cup {None}] /\ freeList' \in Seq(Ranges)
    BY <1>1, <1>2
  <2> QED BY <2>1, <1>1 DEF Types
<1>5. Hands' /\ Pushed'
  BY <1>1, <1>3 DEF Hands, Hand, Pushed
<1>6. HandSlots' /\ ListSlots' /\ ListRanges' /\ ListDisjoint' /\ HandsApart' /\ ListNotHeld'
  BY <1>1, <1>3 DEF HandSlots, ListSlots, ListRanges, ListDisjoint, HandsApart, ListNotHeld
<1>7. Linked'
  BY <1>1, <1>2 DEF Linked, SlabSlots
<1>8. Dead' /\ SlotsOwned' /\ NoSlotLost'
  BY <1>1, <1>2 DEF Dead, SlotsOwned, NoSlotLost
<1>9. RefsReach' /\ Generations'
  BY <1>1 DEF RefsReach, Generations
<1> QED BY <1>4, <1>5, <1>6, <1>7, <1>8, <1>9

-----------------------------------------------------------------------------
(* The invariant and what follows from it *)

LEMMA InitInv == Init => IInv
<1> SUFFICES ASSUME Init PROVE IInv
  OBVIOUS
<1>1. 0 \in Nat /\ 0 < MaxSlabs /\ SlabLen \in Nat /\ SlabLen > 0
  BY SlabAssumption
<1>2. Rng([ptr |-> 1, len |-> SlabLen]) = 1..SlabLen /\ Rng(NoRange) = {}
  BY <1>1 DEF Rng, NoRange
<1>3. SlabSlots(0) = 1..SlabLen /\ SlabSlots(0) \subseteq Slots
  <2>1. SlabSlots(0) \subseteq Slots
    BY <1>1, SlabRange
  <2>2. 0 * SlabLen + 1 = 1 /\ (0 + 1) * SlabLen = SlabLen
    BY <1>1
  <2> QED BY <2>1, <2>2 DEF SlabSlots
<1>4. freeList = <<[ptr |-> 1, len |-> SlabLen]>> /\ Len(freeList) = 1 /\ freeList[1] = [ptr |-> 1, len |-> SlabLen]
  BY DEF Init
<1>5. Types
  <2>1. freeList \in Seq(Ranges) /\ NoRange \in Ranges
    BY <1>1, <1>4 DEF Ranges, NoRange
  <2>2. word \in [Slots -> Words]
    BY DEF Init, Words, Zero
  <2>3. nAlloc \in 1..MaxSlabs /\ linked \subseteq 0..(nAlloc - 1) /\ genTracked \in BOOLEAN
    BY <1>1, SlabAssumption, BuildAssumption DEF Init
  <2> QED BY <2>1, <2>2, <2>3 DEF Init, Types, Stages, Phases
<1>6. \A t \in Threads : InHand(t) = {}
  BY <1>2 DEF Init, InHand
<1>7. Hands /\ Pushed
  BY DEF Init, Hands, Hand, Pushed, NoRange
<1>8. HandSlots /\ HandsApart /\ ListNotHeld
  BY <1>6 DEF HandSlots, HandsApart, ListNotHeld
<1>9. ListSlots /\ ListRanges /\ ListDisjoint
  <2>1. \A i \in 1..Len(freeList) : i = 1
    BY <1>4
  <2>2. \A s \in Rng(freeList[1]) : s \in Slots /\ word[s] = Zero /\ data[s] = None
    BY <1>2, <1>3, <1>4 DEF Init
  <2> QED BY <2>1, <2>2, <1>1, <1>4 DEF ListSlots, ListRanges, ListDisjoint
<1>10. Linked /\ Dead /\ SlotsOwned
  BY DEF Init, Linked, Dead, SlotsOwned, Zero
<1>11. RefsReach /\ Generations
  BY DEF Init, RefsReach, Generations, Made, Zero
<1>12. NoSlotLost
  <2>1. nAlloc * SlabLen = SlabLen /\ 1 \in 1..Len(freeList)
    BY <1>1, <1>4 DEF Init
  <2> QED BY <2>1, <1>2, <1>4 DEF NoSlotLost
<1> QED BY <1>5, <1>7, <1>8, <1>9, <1>10, <1>11, <1>12 DEF IInv

LEMMA StutterInv ==
  ASSUME IInv, UNCHANGED vars
  PROVE  IInv'
<1> USE DEF IInv, vars, slots, lists, frame
<1>1. Types' /\ Hands' /\ Pushed'
  BY DEF Types, Hands, Hand, Pushed, Rng
<1>2. HandSlots' /\ ListSlots' /\ ListRanges' /\ Linked' /\ Dead' /\ ListDisjoint' /\ HandsApart' /\ ListNotHeld'
  BY DEF HandSlots, HandSlot, ListSlots, Rng, Zero, ListRanges, Linked, SlabSlots, Dead, ListDisjoint,
         HandsApart, ListNotHeld, InHand
<1>3. SlotsOwned' /\ RefsReach' /\ Generations' /\ NoSlotLost'
  BY DEF SlotsOwned, RefsReach, Generations, NoSlotLost, InHand, Rng
<1> QED BY <1>1, <1>2, <1>3

LEMMA NextInv ==
  ASSUME IInv, [Next]_vars
  PROVE  IInv'
<1>1. ASSUME NEW t \in Threads, NEW o \in Objs, PopRange(t, o) \/ NewSlab(t, o)
      PROVE  IInv'
  BY <1>1, PopRangeInv, NewSlabInv
<1>2. ASSUME NEW t \in Threads, AppendSlab(t) \/ Construct(t) \/ PushRest(t) \/ LoadGen(t) \/ Publish(t)
      PROVE  IInv'
  BY <1>2, AppendSlabInv, ConstructInv, PushRestInv, LoadGenInv, PublishInv
<1>3. ASSUME NEW o \in Objs, Remove(o)
      PROVE  IInv'
  BY <1>3, RemoveInv
<1>4. ASSUME NEW s \in Slots, CollectSlot(s)
      PROVE  IInv'
  BY <1>4, CollectNothingInv, CollectSlotInv
<1> QED BY <1>1, <1>2, <1>3, <1>4, CollectStartInv, DestructInv, StutterInv DEF Next

LEMMA Invariant == Spec => []IInv
<1>1. Init => IInv
  BY InitInv
<1>2. IInv /\ [Next]_vars => IInv'
  BY NextInv
<1> QED BY <1>1, <1>2, PTL DEF Spec

\* Every variable keeps its type: what push_back has in hand, the words, the free
\* list and the references.
THEOREM TypeCorrect == Spec => []Types
<1>1. IInv => Types
  BY DEF IInv
<1> QED BY <1>1, Invariant, PTL

LEMMA OwnedOnce == ASSUME IInv PROVE SlotsPartitioned
<1> USE DEF IInv
<1>1. NoSlotTwice
  <2>1. ListUnused
    BY DEF ListSlots, ListUnused
  <2>2. HandUnused
    BY DEF HandSlots, HandSlot, HandUnused, Zero
  <2> QED BY <2>1, <2>2 DEF NoSlotTwice
<1>2. SlotsHoldObjects
  <2>1. \A s \in Slots : data[s] # Wild
    BY ObjAssumption DEF Types
  <2>2. alive => \A s \in Slots : word[s].state \in {"Used", "Free"} =>
          HoldsObject(s) /\ \E k \in linked : s \in SlabSlots(k)
    BY DEF SlotsOwned, HoldsObject, Linked
  <2>3. \A i \in 1..Len(freeList) : \A s \in Rng(freeList[i]) : data[s] = None
    BY DEF ListSlots
  <2>4. ~alive => \A s \in Slots : data[s] = None
    BY DEF Dead
  <2> QED BY <2>1, <2>2, <2>3, <2>4 DEF SlotsHoldObjects
<1> QED BY <1>1, <1>2 DEF SlotsPartitioned

\* Every slot has exactly one owner: a free-list range, a push_back under way or an
\* object.  None is lost, and a slot holds a constructed object exactly when an object
\* owns it, so collect_garbage and ~StableVec destroy each object once and nothing else.
THEOREM SlotsHaveOneOwner == Spec => []SlotsPartitioned
<1>1. IInv => SlotsPartitioned
  BY OwnedOnce
<1> QED BY <1>1, Invariant, PTL

LEMMA RefsTell == ASSUME IInv PROVE RefsReachOrAreStale
<1> USE DEF IInv
<1> SUFFICES ASSUME NEW o \in Objs
             PROVE  /\ alive /\ phase[o] = "live" => IsValid(ref[o]) /\ data[ref[o].slot] = o
                    /\ phase[o] = "removed" \/ (phase[o] = "collected" /\ genTracked) => ~IsValid(ref[o])
  BY DEF RefsReachOrAreStale
<1>1. ~genTracked => ref[o].gen = 0
  BY DEF Generations
<1>2. alive /\ phase[o] = "live" => IsValid(ref[o]) /\ data[ref[o].slot] = o
  BY <1>1 DEF RefsReach, IsValid, SlotWord
<1>3. phase[o] = "removed" => ~IsValid(ref[o])
  BY WordOfRef DEF IsValid, SlotWord
<1>4. phase[o] = "collected" /\ genTracked => ~IsValid(ref[o])
  BY DEF Generations, IsValid, SlotWord, Made
<1> QED BY <1>2, <1>3, <1>4

\* A reference to an object nobody removed is valid and reaches that object.  One to a
\* removed object is seen to be stale until the object is collected and, where words
\* hold generations, for ever, even after push_back used the slot again.
THEOREM ReferencesReachOrAreStale == Spec => []RefsReachOrAreStale
<1>1. IInv => RefsReachOrAreStale
  BY RefsTell
<1> QED BY <1>1, Invariant, PTL

-----------------------------------------------------------------------------
(* A StableVec implements SlotStorage: an object is inserted when its word is *)
(* published, and push_back's other steps are invisible.                      *)

Owner == [s \in Slots |-> IF word[s].state \in {"Used", "Free"} THEN data[s] ELSE None]
Phase == [o \in Objs |-> IF phase[o] = "pushing" THEN "new" ELSE phase[o]]

LEMMA StorageInit == Init => Storage!Init
<1> SUFFICES ASSUME Init PROVE Storage!Init
  OBVIOUS
<1>1. \A s \in Slots : word[s].state \notin {"Used", "Free"}
  BY DEF Init, Zero
<1> QED BY <1>1 DEF Init, Storage!Init

LEMMA BeginInvisible ==
  ASSUME IInv, NEW t \in Threads, NEW o \in Objs, PopRange(t, o) \/ NewSlab(t, o)
  PROVE  UNCHANGED <<Owner, alive, Phase>>
<1>1. /\ phase[o] = "new" /\ phase' = [phase EXCEPT ![o] = "pushing"]
      /\ word' = word /\ data' = data /\ alive' = alive
  BY DEF PopRange, NewSlab, Begin, slots
<1>2. Phase' = Phase
  BY <1>1 DEF Phase, IInv, Types
<1> QED BY <1>1, <1>2 DEF Owner

LEMMA HandStepsInvisible ==
  ASSUME IInv, NEW t \in Threads, AppendSlab(t) \/ Construct(t) \/ PushRest(t) \/ LoadGen(t)
  PROVE  UNCHANGED <<Owner, alive, Phase>>
<1> USE DEF IInv
<1>1. alive' = alive /\ phase' = phase
  BY DEF AppendSlab, Construct, PushRest, LoadGen
<1>2. ASSUME NEW s \in Slots
      PROVE  (IF word'[s].state \in {"Used", "Free"} THEN data'[s] ELSE None)
               = IF word[s].state \in {"Used", "Free"} THEN data[s] ELSE None
  <2>1. CASE s \in InHand(t)
    <3>1. word[s].state \notin {"Used", "Free"}
      BY <2>1 DEF HandSlots, HandSlot, Zero
    <3>2. word'[s] = word[s] \/ word'[s] = Zero
      BY DEF AppendSlab, Construct, PushRest, LoadGen, slots
    <3> QED BY <3>1, <3>2 DEF Zero
  <2>2. CASE s \notin InHand(t)
    <3>1. AppendSlab(t) => word'[s] = word[s] /\ data'[s] = data[s]
      BY <2>2 DEF AppendSlab, InHand
    <3>2. Construct(t) => word'[s] = word[s] /\ data'[s] = data[s]
      <4> SUFFICES ASSUME Construct(t) PROVE target[t].ptr # s
        BY DEF Construct, Types
      <4>1. target[t] \in Ranges /\ target[t].len > 0
        BY DEF Construct, Types, Hands, Hand
      <4>2. target[t].ptr \in Rng(target[t])
        BY <4>1 DEF Rng, Ranges
      <4> QED BY <4>2, <2>2 DEF InHand
    <3> QED BY <3>1, <3>2 DEF PushRest, LoadGen, slots
  <2> QED BY <2>1, <2>2
<1> QED BY <1>1, <1>2 DEF Owner, Phase

LEMMA PublishInserts ==
  ASSUME IInv, NEW t \in Threads, Publish(t)
  PROVE  \E o \in Objs, s \in Slots : Storage!Insert(o, s)
<1> USE DEF IInv
<1>1. PICK s : s = slot[t]
  OBVIOUS
<1>2. PICK o : o = obj[t]
  OBVIOUS
<1>3. o \in Objs /\ phase[o] = "pushing" /\ alive /\ s \in Slots /\ s # 0
  BY <1>1, <1>2 DEF Publish, Hands, Hand, Types
<1>4. word[s] = Zero /\ data[s] = o
  BY <1>1, <1>2, <1>3 DEF Publish, HandSlots, HandSlot, InHand
<1>5. Phase[o] = "new" /\ Owner[s] = None
  BY <1>3, <1>4 DEF Phase, Owner, Zero
<1>6. Owner' = [Owner EXCEPT ![s] = o]
  BY <1>1, <1>3, <1>4 DEF Owner, Publish, SlotWord, Types
<1>7. Phase' = [Phase EXCEPT ![o] = "live"]
  BY <1>2, <1>3 DEF Phase, Publish, Types
<1>8. alive' = alive
  BY DEF Publish
<1> QED BY <1>3, <1>5, <1>6, <1>7, <1>8 DEF Storage!Insert, Owner, Phase

LEMMA RemoveRemoves ==
  ASSUME IInv, NEW o \in Objs, Remove(o)
  PROVE  Storage!Remove(o) \/ UNCHANGED <<Owner, alive, Phase>>
<1> USE DEF IInv
<1>1. phase[o] \in {"live", "removed"} /\ alive /\ alive' = alive /\ data' = data
  BY DEF Remove, Generations, Made
<1>2. ref[o].slot \in Slots /\ word[ref[o].slot].state \in {"Used", "Free"}
  BY <1>1, WordOfRef
<1>3. Owner' = Owner
  BY <1>1, <1>2 DEF Owner, Remove, Types
<1>4. CASE phase[o] = "live"
  <2>1. Phase[o] = "live" /\ Phase' = [Phase EXCEPT ![o] = "removed"]
    BY <1>4 DEF Phase, Remove, Types
  <2> QED BY <2>1, <1>1, <1>3 DEF Storage!Remove, Owner, Phase
<1>5. CASE phase[o] = "removed"
  <2>1. Phase' = Phase
    BY <1>5 DEF Phase, Remove, Types
  <2> QED BY <2>1, <1>1, <1>3
<1> QED BY <1>1, <1>4, <1>5

LEMMA CollectCollects ==
  ASSUME IInv, NEW s \in Slots, CollectSlot(s)
  PROVE  Storage!Collect(s) \/ UNCHANGED <<Owner, alive, Phase>>
<1> USE DEF IInv
<1>1. alive /\ alive' = alive
  BY DEF CollectSlot, Dead
<1>2. CASE word[s].state # "Free"
  BY <1>1, <1>2 DEF CollectSlot, slots, Owner, Phase
<1>3. CASE word[s].state = "Free"
  <2>1. data[s] \in Objs /\ phase[data[s]] = "removed" /\ data[s] # None
    BY <1>1, <1>3, ObjAssumption DEF SlotsOwned
  <2>2. Owner[s] = data[s] /\ Phase[data[s]] = "removed"
    BY <2>1, <1>3 DEF Owner, Phase
  <2>3. Owner' = [Owner EXCEPT ![s] = None]
    <3>1. /\ word'[s].state = "FreeList"
          /\ \A x \in Slots \ {s} : word'[x] = word[x] /\ data'[x] = data[x]
      BY <1>3 DEF CollectSlot, Zero, Types
    <3> QED BY <3>1 DEF Owner
  <2>4. Phase' = [Phase EXCEPT ![data[s]] = "collected"]
    BY <2>1, <1>3 DEF Phase, CollectSlot, Types
  <2> QED BY <2>1, <2>2, <2>3, <2>4, <1>1 DEF Storage!Collect, Owner, Phase
<1> QED BY <1>2, <1>3

LEMMA DestructDestructs ==
  ASSUME IInv, Destruct
  PROVE  Storage!Destruct
<1>1. data' = [s \in Slots |-> None] /\ alive /\ alive' = FALSE /\ phase' = phase
  BY DestructedData DEF Destruct
<1>2. Owner' = [s \in Slots |-> None] /\ Phase' = Phase
  BY <1>1 DEF Owner, Phase
<1> QED BY <1>1, <1>2 DEF Storage!Destruct, Owner, Phase

LEMMA StorageStep ==
  ASSUME IInv, [Next]_vars
  PROVE  Storage!Next \/ UNCHANGED <<Owner, alive, Phase>>
<1>1. ASSUME NEW t \in Threads, NEW o \in Objs, PopRange(t, o) \/ NewSlab(t, o)
      PROVE  UNCHANGED <<Owner, alive, Phase>>
  BY <1>1, BeginInvisible
<1>2. ASSUME NEW t \in Threads, AppendSlab(t) \/ Construct(t) \/ PushRest(t) \/ LoadGen(t)
      PROVE  UNCHANGED <<Owner, alive, Phase>>
  BY <1>2, HandStepsInvisible
<1>3. ASSUME NEW t \in Threads, Publish(t)
      PROVE  Storage!Next
  BY <1>3, PublishInserts DEF Storage!Next
<1>4. ASSUME NEW o \in Objs, Remove(o)
      PROVE  Storage!Next \/ UNCHANGED <<Owner, alive, Phase>>
  BY <1>4, RemoveRemoves DEF Storage!Next
<1>5. ASSUME NEW s \in Slots, CollectSlot(s)
      PROVE  Storage!Next \/ UNCHANGED <<Owner, alive, Phase>>
  BY <1>5, CollectCollects DEF Storage!Next
<1>6. CollectStart \/ UNCHANGED vars => UNCHANGED <<Owner, alive, Phase>>
  BY DEF CollectStart, vars, slots, Owner, Phase
<1>7. Destruct => Storage!Next
  BY DestructDestructs DEF Storage!Next
<1> QED BY <1>1, <1>2, <1>3, <1>4, <1>5, <1>6, <1>7 DEF Next

\* Every behaviour of a StableVec is one of SlotStorage: whatever threads push, remove and
\* collect at once, an object gets a slot of its own when push_back publishes it and
\* keeps it until it was removed and collected.
THEOREM VectorImplementsStorage == Spec => ImplementsStorage
<1>1. Init => Storage!Init
  BY StorageInit
<1>2. IInv /\ [Next]_vars => [Storage!Next]_<<Owner, alive, Phase>>
  BY StorageStep
<1> QED BY <1>1, <1>2, Invariant, PTL DEF Spec, ImplementsStorage, Storage!Spec, Owner, Phase
=============================================================================
