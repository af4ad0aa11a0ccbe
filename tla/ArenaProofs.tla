----------------------------- MODULE ArenaProofs -----------------------------
(***************************************************************************)
(* Arena for any number of threads and seeds, any sizes and any depth of   *)
(* nesting: no memory is handed out twice, and a plan survives whatever    *)
(* the thread that made it does next.                                      *)
(***************************************************************************)
EXTENDS Arena, SequenceTheorems, TLAPS

Region == [count : Nat, capacity : Nat]

-----------------------------------------------------------------------------
(* The inductive invariant *)

\* The arena a thread allocates from in its k-th frame, its own outside of all.
Under(t, k) == IF k = 0 THEN t ELSE stack[t][k].arena

\* A frame refers to the thread's own arena or to that of a seed it has claimed.
FrameOK(t, k) ==
  LET f == stack[t][k]
  IN /\ f.arena = t \/ (f.arena \in Slots /\ claim[f.arena] = "claimed" /\ slotArena[f.arena] = t)
     /\ f.arena = t => \A j \in 1..(k - 1) : stack[t][j].arena = t
     /\ f.kind = "plan" => f.arena \in Slots /\ \A j \in 1..(k - 1) : stack[t][j].arena = t
     /\ f.kind = "slots" => f.arena = t
     /\ f.kind = "window" => f.arena = Under(t, k - 1)

StackOK(t) == temp[t] = Under(t, Depth(t)) /\ \A k \in 1..Depth(t) : FrameOK(t, k)
SlotOK(i)  == claim[i] # "claimed" => slotArena[i] = i

\* Regions hold what they have room for, and those behind the end hold nothing.
Chain(rs, e) ==
  /\ rs \in Seq(Region)
  /\ \A i \in 1..Len(rs) : rs[i].count <= rs[i].capacity
  /\ e \in 0..Len(rs) /\ (e = 0 <=> rs = <<>>)
  /\ \A i \in (e + 1)..Len(rs) : rs[i].count = 0

\* An object lies below the end, and a frame's snapshot above what was taken before it.
ObjectOK(o) ==
  /\ o.region \in 1..end[o.arena]
  /\ o.at + o.bytes <= WordBytes * regions[o.arena][o.region].count

Below(o, m) ==
  o.region < m.region \/ (o.region = m.region /\ o.at + o.bytes <= WordBytes * m.count)

MarkOK(t, k) ==
  LET m == stack[t][k]
  IN m.kind = "window" =>
       /\ m.region \in 0..end[m.arena]
       /\ m.region > 0 => m.count <= regions[m.arena][m.region].count
       /\ \A o \in live : o.arena = m.arena /\ o.depth < k => Below(o, m)

\* Of two snapshots of one arena the outer one is not above the inner.
NestOK(t, j, k) ==
  LET m == stack[t][j]
      n == stack[t][k]
  IN m.kind = "window" /\ n.kind = "window" /\ m.arena = n.arena =>
       m.region < n.region \/ (m.region = n.region /\ (m.region = 0 \/ m.count <= n.count))

\* A plan's objects are in the arena of its seed, from before any window in the plan.
PlanOK(o) ==
  /\ o \in live /\ o.arena \in Slots /\ claim[o.arena] # "none"
  /\ \A t \in Threads : \A k \in 1..Depth(t) : stack[t][k].arena = o.arena =>
       o.depth <= k /\ (stack[t][k].kind = "window" => o.depth < k)

Typed ==
  /\ temp \in [Threads -> Arenas] /\ slotArena \in [Slots -> Arenas]
  /\ stack \in [Threads -> Seq(Frames)]
  /\ claim \in [Slots -> {"none", "claimed", "done"}]
  /\ live \subseteq Objects
  /\ DOMAIN regions = Arenas /\ DOMAIN end = Arenas

Chains  == \A a \in Arenas : Chain(regions[a], end[a])
Scopes  == (\A t \in Threads : StackOK(t)) /\ (\A i \in Slots : SlotOK(i))
Objs    == \A o \in live : ObjectOK(o)
Apart   == \A o, p \in live : o # p => ~Overlap(o, p)
Marks   == \A t \in Threads : \A k \in 1..Depth(t) : MarkOK(t, k)
Nests   == \A t \in Threads : \A k \in 1..Depth(t) : \A j \in 1..(k - 1) : NestOK(t, j, k)
Plans   == \A o \in plan : PlanOK(o)
IInv    == Typed /\ Chains /\ Scopes /\ Objs /\ Apart /\ Marks /\ Nests /\ Plans
-----------------------------------------------------------------------------
(* Lemmas about frames, chains and addresses *)

\* The k-th frame of a thread is a frame, and its arena is the thread's own or a seed's.
LEMMA FrameTypes ==
  ASSUME Typed, NEW t \in Threads
  PROVE  /\ Depth(t) \in Nat
         /\ \A k \in 1..Depth(t) :
              /\ stack[t][k] \in Frames
              /\ stack[t][k].arena \in Arenas
              /\ stack[t][k].region \in Nat /\ stack[t][k].count \in Nat
<1>1. stack[t] \in Seq(Frames)
  BY DEF Typed
<1>2. Depth(t) \in Nat /\ \A k \in 1..Depth(t) : stack[t][k] \in Frames
  BY <1>1, LenProperties, ElementOfSeq DEF Depth
<1> QED
  BY <1>2 DEF Frames

\* Entering a scope adds one frame on top of the thread's own stack.
LEMMA PushFrame ==
  ASSUME Typed, NEW t \in Threads, NEW f \in Frames, Push(t, f)
  PROVE  /\ stack' \in [Threads -> Seq(Frames)]
         /\ Depth(t)' = Depth(t) + 1
         /\ stack'[t][Depth(t) + 1] = f
         /\ \A k \in 1..Depth(t) : stack'[t][k] = stack[t][k]
         /\ \A u \in Threads : u # t => stack'[u] = stack[u] /\ Depth(u)' = Depth(u)
<1>1. stack[t] \in Seq(Frames) /\ stack \in [Threads -> Seq(Frames)]
  BY DEF Typed
<1>2. stack'[t] = Append(stack[t], f) /\ \A u \in Threads : u # t => stack'[u] = stack[u]
  BY <1>1 DEF Push
<1>3. /\ Append(stack[t], f) \in Seq(Frames) /\ Len(Append(stack[t], f)) = Len(stack[t]) + 1
      /\ Append(stack[t], f)[Len(stack[t]) + 1] = f
      /\ \A k \in 1..Len(stack[t]) : Append(stack[t], f)[k] = stack[t][k]
  BY <1>1, AppendProperties
<1> QED
  BY <1>1, <1>2, <1>3 DEF Push, Depth

\* Leaving a scope takes the top frame away.
LEMMA PopFrame ==
  ASSUME Typed, NEW t \in Threads, Depth(t) > 0, Pop(t)
  PROVE  /\ stack' \in [Threads -> Seq(Frames)]
         /\ Depth(t)' = Depth(t) - 1 /\ Depth(t) - 1 \in Nat
         /\ \A k \in 1..(Depth(t) - 1) : stack'[t][k] = stack[t][k]
         /\ \A u \in Threads : u # t => stack'[u] = stack[u] /\ Depth(u)' = Depth(u)
<1>1. stack[t] \in Seq(Frames) /\ stack \in [Threads -> Seq(Frames)]
  BY DEF Typed
<1> DEFINE s == SubSeq(stack[t], 1, Len(stack[t]) - 1)
<1>2. stack'[t] = s /\ \A u \in Threads : u # t => stack'[u] = stack[u]
  BY <1>1 DEF Pop
<1>3. Len(stack[t]) \in Nat /\ \A k \in 1..Len(stack[t]) : stack[t][k] \in Frames
  BY <1>1, LenProperties, ElementOfSeq
<1>4. \A k \in 1..(Len(stack[t]) - 1) : stack[t][k] \in Frames
  BY <1>3
<1>5. s \in Seq(Frames) /\ Len(s) = Len(stack[t]) - 1
  BY <1>3, <1>4, SubSeqProperties DEF Depth
<1>6. \A k \in 1..(Len(stack[t]) - 1) : s[k] = stack[t][k]
  BY <1>3, <1>4, SubSeqProperties
<1> HIDE DEF s
<1> QED
  BY <1>1, <1>2, <1>3, <1>5, <1>6 DEF Pop, Depth

\* An arena is used by one thread at a time: frames with one arena are one thread's.
LEMMA OneUser ==
  ASSUME Typed, Scopes, NEW t \in Threads, NEW u \in Threads,
         NEW k \in 1..Depth(t), NEW j \in 1..Depth(u), stack[t][k].arena = stack[u][j].arena
  PROVE  t = u
  BY NameAssumption DEF Scopes, StackOK, FrameOK

\* temp_arena is the thread's own arena or that of a seed it has claimed.
LEMMA TempOwner ==
  ASSUME Typed, Scopes, NEW t \in Threads
  PROVE  /\ temp[t] \in Arenas
         /\ temp[t] = t \/ (temp[t] \in Slots /\ claim[temp[t]] = "claimed" /\ slotArena[temp[t]] = t)
         /\ \A u \in Threads : \A k \in 1..Depth(u) : stack[u][k].arena = temp[t] => u = t
<1>1. temp[t] = t \/ (temp[t] \in Slots /\ claim[temp[t]] = "claimed" /\ slotArena[temp[t]] = t)
  BY FrameTypes DEF Scopes, StackOK, FrameOK, Under
<1> QED
  BY <1>1, NameAssumption DEF Scopes, StackOK, FrameOK, Typed

\* arena_alloc reserves enough for the alignment of the result.
LEMMA Aligned ==
  ASSUME NEW c \in Nat, NEW b \in Nat
  PROVE  /\ Words(b) \in Nat /\ AlignUp(WordBytes * c) \in Nat
         /\ WordBytes * c <= AlignUp(WordBytes * c)
         /\ AlignUp(WordBytes * c) + b <= WordBytes * (c + Words(b))
  BY DEF Words, AlignUp, WordBytes, MinAlign
\* The regions of a chain: their type, and when there is none.
LEMMA ChainTypes ==
  ASSUME NEW rs, NEW e, Chain(rs, e)
  PROVE  /\ Len(rs) \in Nat /\ DOMAIN rs = 1..Len(rs) /\ e \in Nat /\ e <= Len(rs)
         /\ \A i \in 1..Len(rs) : /\ rs[i] \in Region
                                  /\ rs[i].count \in Nat /\ rs[i].capacity \in Nat
         /\ Len(rs) = 0 <=> e = 0
<1>1. rs \in Seq(Region)
  BY DEF Chain
<1>2. Len(rs) \in Nat /\ DOMAIN rs = 1..Len(rs) /\ \A i \in 1..Len(rs) : rs[i] \in Region
  BY <1>1, LenProperties, ElementOfSeq
<1>3. \A i \in 1..Len(rs) : rs[i].count \in Nat /\ rs[i].capacity \in Nat
  BY <1>2 DEF Region
<1>4. rs = <<>> <=> Len(rs) = 0
  BY <1>1, EmptySeq
<1> QED
  BY <1>2, <1>3, <1>4 DEF Chain

\* A function on 1..n into the regions is a chain of n regions.
LEMMA RegionSeq ==
  ASSUME NEW n \in Nat, NEW f, DOMAIN f = 1..n, f = [i \in 1..n |-> f[i]],
         \A i \in 1..n : f[i] \in Region
  PROVE  f \in Seq(Region) /\ Len(f) = n
<1>1. f \in [1..n -> Region]
  OBVIOUS
<1> QED
  BY <1>1

\* arena_alloc adds to one region at or behind the end and moves the end there.
LEMMA GrowChain ==
  ASSUME NEW rs, NEW e, Chain(rs, e), NEW need \in Nat, NEW i, LandsIn(rs, e, need, i)
  PROVE  /\ Chain(Grown(rs, need, i), i)
         /\ i \in Nat /\ i >= 1 /\ e <= i /\ Used(rs, i) \in Nat
         /\ i > e => Used(rs, i) = 0
         /\ Grown(rs, need, i)[i].count = Used(rs, i) + need
         /\ \A j \in 1..e : j # i => Grown(rs, need, i)[j].count = rs[j].count
         /\ i <= e => Used(rs, i) = rs[i].count
<1> DEFINE g == Grown(rs, need, i)
<1>0. /\ Len(rs) \in Nat /\ DOMAIN rs = 1..Len(rs) /\ e \in Nat /\ e <= Len(rs)
      /\ \A j \in 1..Len(rs) : rs[j] \in Region /\ rs[j].count \in Nat /\ rs[j].capacity \in Nat
      /\ Len(rs) = 0 <=> e = 0
  BY ChainTypes
<1>1. /\ i \in Nat /\ i >= 1 /\ e <= i /\ i <= Len(rs) + 1
      /\ i <= Len(rs) => rs[i].count + need <= rs[i].capacity
  BY <1>0 DEF LandsIn, First, Fits
<1>2. rs \in Seq(Region) /\ (\A j \in 1..Len(rs) : rs[j].count <= rs[j].capacity)
      /\ \A j \in (e + 1)..Len(rs) : rs[j].count = 0
  BY DEF Chain
<1>3. Used(rs, i) \in Nat /\ (i > e => Used(rs, i) = 0) /\ (i <= e => Used(rs, i) = rs[i].count)
  BY <1>0, <1>1, <1>2 DEF Used
<1>4. CASE i <= Len(rs)
  <2> DEFINE r == [rs[i] EXCEPT !.count = rs[i].count + need]
  <2>1. r \in Region /\ r.count = rs[i].count + need /\ r.capacity = rs[i].capacity
    BY <1>0, <1>1, <1>4 DEF Region
  <2>2. g = [rs EXCEPT ![i] = r]
    BY <1>4 DEF Grown
  <2> HIDE DEF g, r
  <2>3. g \in Seq(Region) /\ Len(g) = Len(rs)
        /\ \A j \in 1..Len(rs) : g[j] = IF j = i THEN r ELSE rs[j]
    BY <1>1, <1>2, <1>4, <2>1, <2>2, ExceptSeq
  <2>4. g # <<>>
    BY <2>3, <1>1, <1>4, EmptySeq
  <2>5. Chain(g, i)
    BY <1>0, <1>1, <1>2, <1>4, <2>1, <2>3, <2>4 DEF Chain
  <2> QED
    BY <1>0, <1>1, <1>3, <1>4, <2>1, <2>3, <2>5 DEF Used, g
<1>5. CASE i = Len(rs) + 1
  <2> DEFINE r == [count |-> need,
                   capacity |-> IF DefaultCapacity < need THEN need ELSE DefaultCapacity]
  <2>1. r \in Region /\ r.count = need /\ r.count <= r.capacity
    BY SizeAssumption DEF Region
  <2>2. g = Append(rs, r)
    BY <1>0, <1>5 DEF Grown
  <2> HIDE DEF g, r
  <2>3. /\ g \in Seq(Region) /\ g # <<>> /\ Len(g) = Len(rs) + 1 /\ g[Len(rs) + 1] = r
        /\ \A j \in 1..Len(rs) : g[j] = rs[j]
    BY <1>2, <2>1, <2>2, AppendProperties
  <2>4. Chain(g, i)
    BY <1>0, <1>1, <1>2, <1>5, <2>1, <2>3 DEF Chain
  <2>5. Used(rs, i) = 0
    BY <1>0, <1>5 DEF Used
  <2> QED
    BY <1>0, <1>1, <1>3, <1>5, <2>1, <2>3, <2>4, <2>5 DEF g
<1> QED
  BY <1>0, <1>1, <1>4, <1>5

\* arena_rewind to a snapshot at or below the end: nothing is left behind the
\* snapshot, and what is below it is as it was.
LEMMA RewindChain ==
  ASSUME NEW rs, NEW e, Chain(rs, e), NEW m, m.region \in 0..e, m.count \in Nat,
         m.region > 0 => m.count <= rs[m.region].count
  PROVE  LET new == RewindRegions(rs, e, m)
             last == RewindEnd(rs, m)
         IN /\ Chain(new, last)
            /\ m.region <= last
            /\ m.region > 0 => last = m.region /\ new[m.region].count = m.count
            /\ \A j \in 1..(m.region - 1) : new[j].count = rs[j].count
<1> DEFINE new == RewindRegions(rs, e, m)
           last == RewindEnd(rs, m)
<1>0. /\ Len(rs) \in Nat /\ DOMAIN rs = 1..Len(rs) /\ e \in Nat /\ e <= Len(rs)
      /\ \A j \in 1..Len(rs) : rs[j] \in Region /\ rs[j].count \in Nat /\ rs[j].capacity \in Nat
      /\ Len(rs) = 0 <=> e = 0
  BY ChainTypes
<1>1. rs \in Seq(Region) /\ (\A j \in 1..Len(rs) : rs[j].count <= rs[j].capacity)
      /\ (\A j \in (e + 1)..Len(rs) : rs[j].count = 0) /\ (rs = <<>> <=> Len(rs) = 0)
  BY EmptySeq DEF Chain
<1>2. \A j \in 1..Len(rs) : \A c \in Nat :
        /\ [rs[j] EXCEPT !.count = c] \in Region
        /\ [rs[j] EXCEPT !.count = c].count = c
        /\ [rs[j] EXCEPT !.count = c].capacity = rs[j].capacity
  BY <1>0 DEF Region
<1>3. CASE m.region = 0
  <2>1. new = [j \in 1..Len(rs) |-> IF j <= e THEN [rs[j] EXCEPT !.count = 0] ELSE rs[j]]
        /\ last = IF rs = <<>> THEN 0 ELSE 1
    BY <1>0, <1>3 DEF RewindRegions, RewindEnd, ResetRegions, ResetEnd
  <2> HIDE DEF new, last
  <2>2. \A j \in 1..Len(rs) : new[j] \in Region /\ new[j].count = 0
    <3> SUFFICES ASSUME NEW j \in 1..Len(rs) PROVE new[j] \in Region /\ new[j].count = 0
      OBVIOUS
    <3>1. CASE j <= e
      <4>1. new[j] = [rs[j] EXCEPT !.count = 0]
        BY <2>1, <3>1
      <4>2. rs[j] \in Region /\ 0 \in Nat
        BY <1>0
      <4> QED
        BY <4>1, <4>2 DEF Region
    <3>2. CASE ~(j <= e)
      <4>1. new[j] = rs[j]
        BY <2>1, <3>2
      <4>2. rs[j].count = 0
        BY <1>0, <1>1, <3>2
      <4> QED
        BY <4>1, <4>2, <1>0
    <3> QED
      BY <3>1, <3>2
  <2>3. DOMAIN new = 1..Len(rs) /\ new = [j \in 1..Len(rs) |-> new[j]]
    BY <2>1
  <2>4. new \in Seq(Region) /\ Len(new) = Len(rs)
    BY <1>0, <2>2, <2>3, RegionSeq
  <2>5. new = <<>> <=> rs = <<>>
    BY <1>0, <1>1, <2>4, EmptySeq
  <2>6. \A j \in 1..Len(rs) : new[j].count <= new[j].capacity
    BY <2>2 DEF Region
  <2>7. last \in 0..Len(rs) /\ (last = 0 <=> new = <<>>)
    BY <1>0, <1>1, <2>1, <2>5
  <2>8. Chain(new, last)
    BY <1>0, <2>2, <2>4, <2>6, <2>7 DEF Chain
  <2> QED
    BY <1>0, <1>3, <2>7, <2>8 DEF new, last
<1>4. CASE m.region > 0
  <2>1. new = [j \in 1..Len(rs) |->
                IF j = m.region THEN [rs[j] EXCEPT !.count = m.count]
                ELSE IF j \in (m.region + 1)..e THEN [rs[j] EXCEPT !.count = 0]
                ELSE rs[j]]
        /\ last = m.region
    BY <1>0, <1>4 DEF RewindRegions, RewindEnd
  <2> HIDE DEF new, last
  <2>2. ASSUME NEW j \in 1..Len(rs) PROVE new[j] \in Region /\ new[j].count <= new[j].capacity
    <3>1. CASE j = m.region
      BY <1>0, <1>1, <1>2, <2>1, <3>1
    <3>2. CASE j \in (m.region + 1)..e
      <4>1. new[j] = [rs[j] EXCEPT !.count = 0]
        BY <1>0, <2>1, <3>2
      <4>2. new[j] \in Region /\ new[j].count = 0
        BY <1>0, <4>1 DEF Region
      <4> QED
        BY <4>2 DEF Region
    <3>3. CASE j # m.region /\ j \notin (m.region + 1)..e
      BY <1>0, <1>1, <2>1, <3>3
    <3> QED
      BY <3>1, <3>2, <3>3
  <2>3. \A j \in (m.region + 1)..Len(rs) : new[j].count = 0
    BY <1>0, <1>1, <1>2, <1>4, <2>1
  <2>4. DOMAIN new = 1..Len(rs) /\ new = [j \in 1..Len(rs) |-> new[j]]
    BY <2>1
  <2>5. new \in Seq(Region) /\ Len(new) = Len(rs)
    BY <1>0, <2>2, <2>4, RegionSeq
  <2>6. new # <<>>
    BY <1>0, <1>4, <2>5, EmptySeq
  <2>7. Chain(new, last)
    BY <1>0, <1>4, <2>1, <2>2, <2>3, <2>5, <2>6 DEF Chain
  <2>8. /\ new[m.region].count = m.count
        /\ \A j \in 1..(m.region - 1) : new[j].count = rs[j].count
    BY <1>0, <1>2, <1>4, <2>1
  <2> QED
    BY <1>4, <2>1, <2>7, <2>8 DEF new, last
<1> QED
  BY <1>3, <1>4, <1>0
-----------------------------------------------------------------------------
(* Each action preserves the invariant *)

\* A thread that allocates from its own arena has only frames that refer to it.
LEMMA HomeFrames ==
  ASSUME Typed, Scopes, NEW t \in Threads, temp[t] = t
  PROVE  \A j \in 1..Depth(t) : stack[t][j].arena = t
<1>1. Depth(t) \in Nat /\ temp[t] = Under(t, Depth(t))
  BY FrameTypes DEF Scopes, StackOK
<1>2. CASE Depth(t) = 0
  BY <1>2
<1>3. CASE Depth(t) > 0
  <2>1. stack[t][Depth(t)].arena = t /\ FrameOK(t, Depth(t))
    BY <1>1, <1>3 DEF Under, Scopes, StackOK
  <2> QED
    BY <2>1, <1>1 DEF FrameOK
<1> QED
  BY <1>1, <1>2, <1>3

\* Entering a scope: the stacks stay in order if the new frame fits on the top one
\* and no seed loses the thread that claimed it.
LEMMA PushScope ==
  ASSUME Typed, Scopes, NEW t \in Threads, NEW f \in Frames, Push(t, f),
         temp'[t] = f.arena, \A u \in Threads : u # t => temp'[u] = temp[u],
         \A i \in Slots : claim[i] = "claimed" => claim'[i] = "claimed" /\ slotArena'[i] = slotArena[i],
         f.arena = t \/ (f.arena \in Slots /\ claim'[f.arena] = "claimed" /\ slotArena'[f.arena] = t),
         f.arena = t => temp[t] = t,
         f.kind = "plan" => f.arena \in Slots /\ temp[t] = t,
         f.kind = "slots" => f.arena = t,
         f.kind = "window" => f.arena = temp[t]
  PROVE  \A u \in Threads : StackOK(u)'
<1>0. PICK d : d = Depth(t)
  OBVIOUS
<1>1. /\ Depth(t)' = d + 1 /\ stack'[t][d + 1] = f
      /\ \A k \in 1..d : stack'[t][k] = stack[t][k]
      /\ \A u \in Threads : u # t => stack'[u] = stack[u] /\ Depth(u)' = Depth(u)
  BY <1>0, PushFrame
<1>2. d \in Nat /\ temp[t] = Under(t, d) /\ \A k \in 1..d : FrameOK(t, k)
  BY <1>0, FrameTypes DEF Scopes, StackOK
<1>3. temp[t] = t => \A j \in 1..d : stack[t][j].arena = t
  BY <1>0, HomeFrames
<1>4. SUFFICES ASSUME NEW u \in Threads PROVE StackOK(u)'
  OBVIOUS
<1>5. CASE u # t
  <2>1. /\ temp'[u] = temp[u] /\ stack'[u] = stack[u] /\ Depth(u)' = Depth(u)
        /\ temp[u] = Under(u, Depth(u)) /\ \A k \in 1..Depth(u) : FrameOK(u, k)
    BY <1>1, <1>5 DEF Scopes, StackOK
  <2>2. ASSUME NEW k \in 1..Depth(u) PROVE FrameOK(u, k)'
    <3>1. FrameOK(u, k)
      BY <2>1
    <3> QED
      BY <3>1, <2>1 DEF FrameOK, Under
  <2> QED
    BY <2>1, <2>2 DEF StackOK, Under
<1>6. CASE u = t
  <2>1. temp'[t] = Under(t, Depth(t))'
    BY <1>1, <1>2 DEF Under
  <2>2. ASSUME NEW k \in 1..d PROVE FrameOK(t, k)'
    <3>1. FrameOK(t, k) /\ stack'[t][k] = stack[t][k]
      BY <1>1, <1>2
    <3>2. \A j \in 1..(k - 1) : stack'[t][j] = stack[t][j]
      BY <1>1, <1>2
    <3>3. k = 1 \/ (k - 1 \in 1..d /\ stack'[t][k - 1] = stack[t][k - 1])
      BY <1>1, <1>2
    <3> QED
      BY <3>1, <3>2, <3>3 DEF FrameOK, Under
  <2>3. FrameOK(t, d + 1)'
    <3>1. \A j \in 1..d : stack'[t][j].arena = stack[t][j].arena
      BY <1>1
    <3>2. d = 0 \/ (d \in 1..d /\ stack'[t][d] = stack[t][d])
      BY <1>1, <1>2
    <3>3. (d + 1) - 1 = d
      BY <1>2
    <3>4. temp[t] = IF d = 0 THEN t ELSE stack[t][d].arena
      BY <1>2 DEF Under
    <3> QED
      BY <3>1, <3>2, <3>3, <3>4, <1>1, <1>2, <1>3 DEF FrameOK, Under
  <2>4. \A k \in 1..(d + 1) : FrameOK(t, k)'
    BY <2>2, <2>3, <1>2
  <2> QED
    BY <2>1, <2>4, <1>1, <1>6 DEF StackOK
<1> QED
  BY <1>5, <1>6

\* Leaving a scope: the thread allocates from the arena of the frame below.
LEMMA PopScope ==
  ASSUME Typed, Scopes, NEW t \in Threads, Depth(t) > 0, Pop(t),
         temp'[t] = Under(t, Depth(t) - 1), \A u \in Threads : u # t => temp'[u] = temp[u],
         \A u \in Threads : \A k \in 1..Depth(u) : u # t \/ k # Depth(t) =>
           LET i == stack[u][k].arena
           IN i \in Slots => claim'[i] = claim[i] /\ slotArena'[i] = slotArena[i]
  PROVE  \A u \in Threads : StackOK(u)'
<1>0. PICK d : d = Depth(t)
  OBVIOUS
<1>1. /\ Depth(t)' = d - 1 /\ d \in Nat /\ d - 1 \in Nat
      /\ \A k \in 1..(d - 1) : stack'[t][k] = stack[t][k]
      /\ \A u \in Threads : u # t => stack'[u] = stack[u] /\ Depth(u)' = Depth(u)
  BY <1>0, PopFrame, FrameTypes
<1>2. \A k \in 1..d : FrameOK(t, k)
  BY <1>0 DEF Scopes, StackOK
<1>3. SUFFICES ASSUME NEW u \in Threads PROVE StackOK(u)'
  OBVIOUS
<1>4. CASE u # t
  <2>1. /\ temp'[u] = temp[u] /\ stack'[u] = stack[u] /\ Depth(u)' = Depth(u)
        /\ temp[u] = Under(u, Depth(u)) /\ \A k \in 1..Depth(u) : FrameOK(u, k)
    BY <1>1, <1>4 DEF Scopes, StackOK
  <2>2. ASSUME NEW k \in 1..Depth(u) PROVE FrameOK(u, k)'
    <3>1. FrameOK(u, k) /\ (stack[u][k].arena \in Slots =>
             claim'[stack[u][k].arena] = claim[stack[u][k].arena]
             /\ slotArena'[stack[u][k].arena] = slotArena[stack[u][k].arena])
      BY <2>1, <1>4
    <3> QED
      BY <3>1, <2>1 DEF FrameOK, Under
  <2> QED
    BY <2>1, <2>2 DEF StackOK, Under
<1>5. CASE u = t
  <2>1. temp'[t] = Under(t, Depth(t))'
    BY <1>0, <1>1 DEF Under
  <2>2. ASSUME NEW k \in 1..(d - 1) PROVE FrameOK(t, k)'
    <3>1. FrameOK(t, k) /\ stack'[t][k] = stack[t][k]
      BY <1>1, <1>2
    <3>2. \A j \in 1..(k - 1) : stack'[t][j] = stack[t][j]
      BY <1>1
    <3>3. k = 1 \/ (k - 1 \in 1..(d - 1) /\ stack'[t][k - 1] = stack[t][k - 1])
      BY <1>1
    <3>4. stack[t][k].arena \in Slots => claim'[stack[t][k].arena] = claim[stack[t][k].arena]
             /\ slotArena'[stack[t][k].arena] = slotArena[stack[t][k].arena]
      BY <1>0, <1>1
    <3> QED
      BY <3>1, <3>2, <3>3, <3>4 DEF FrameOK, Under
  <2> QED
    BY <2>1, <2>2, <1>1, <1>5 DEF StackOK
<1> QED
  BY <1>4, <1>5

LEMMA InitInv == Init => IInv
<1> SUFFICES ASSUME Init PROVE IInv
  OBVIOUS
<1> USE DEF Init
<1>1. Typed
  BY EmptySeq DEF Typed, Arenas
<1>2. Chains
  BY EmptySeq DEF Chains, Chain
<1>3. \A t \in Threads : Depth(t) = 0
  BY EmptySeq DEF Depth
<1>4. Scopes
  BY <1>3 DEF Scopes, StackOK, SlotOK, Under
<1> QED
  BY <1>1, <1>2, <1>3, <1>4 DEF IInv, Objs, Apart, Marks, Nests, Plans

LEMMA AllocInv ==
  ASSUME IInv, NEW t \in Threads, NEW size \in Sizes, Alloc(t, size)
  PROVE  IInv'
<1> DEFINE a    == temp[t]
           rs   == regions[a]
           need == Words(size)
<1> USE DEF IInv
<1>1. PICK i \in 1..MaxRegions :
        /\ LandsIn(rs, end[a], need, i)
        /\ regions' = [regions EXCEPT ![a] = Grown(rs, need, i)]
        /\ end' = [end EXCEPT ![a] = i]
        /\ LET o == [arena |-> a, region |-> i, at |-> AlignUp(WordBytes * Used(rs, i)),
                     bytes |-> size, depth |-> Depth(t)]
           IN /\ live' = live \cup {o}
              /\ plan' = IF Top(t, "plan") THEN plan \cup {o} ELSE plan
        /\ UNCHANGED <<temp, slotArena, stack, claim>>
  BY DEF Alloc
<1> DEFINE g == Grown(rs, need, i)
           o == [arena |-> a, region |-> i, at |-> AlignUp(WordBytes * Used(rs, i)),
                 bytes |-> size, depth |-> Depth(t)]
<1>2. /\ a \in Arenas
      /\ a = t \/ (a \in Slots /\ claim[a] = "claimed" /\ slotArena[a] = t)
      /\ \A u \in Threads : \A k \in 1..Depth(u) : stack[u][k].arena = a => u = t
  BY TempOwner
<1>3. Chain(rs, end[a]) /\ size \in Nat /\ need \in Nat
  BY <1>2, SizeAssumption, Aligned DEF Chains
<1>4. /\ Chain(g, i) /\ i \in Nat /\ i >= 1 /\ end[a] <= i /\ Used(rs, i) \in Nat
      /\ i > end[a] => Used(rs, i) = 0
      /\ g[i].count = Used(rs, i) + need
      /\ \A j \in 1..end[a] : j # i => g[j].count = rs[j].count
      /\ i <= end[a] => Used(rs, i) = rs[i].count
  <2>1. LandsIn(rs, end[a], need, i)
    BY <1>1
  <2> HIDE DEF rs, need
  <2> QED
    BY <2>1, <1>3, GrowChain
<1>5. /\ o.arena = a /\ o.region = i /\ o.bytes = size /\ o.depth = Depth(t)
      /\ o.at = AlignUp(WordBytes * Used(rs, i))
      /\ o.at \in Nat /\ WordBytes * Used(rs, i) <= o.at
      /\ o.at + o.bytes <= WordBytes * (Used(rs, i) + need)
  BY <1>3, <1>4, Aligned
<1>6. o \in Objects
  BY <1>2, <1>4, <1>5, FrameTypes DEF Objects
<1>7. live' = live \cup {o} /\ (plan' = plan \/ (plan' = plan \cup {o} /\ Top(t, "plan")))
  BY <1>1
<1>8. /\ regions'[a] = g /\ end'[a] = i /\ DOMAIN regions' = Arenas /\ DOMAIN end' = Arenas
      /\ \A b \in Arenas : b # a => regions'[b] = regions[b] /\ end'[b] = end[b]
  BY <1>1, <1>2 DEF Typed
<1>9. temp' = temp /\ slotArena' = slotArena /\ stack' = stack /\ claim' = claim
  BY <1>1
<1> HIDE DEF g, o
<1>10. \A b \in Arenas : /\ end[b] \in Nat /\ end'[b] \in Nat /\ end[b] <= end'[b]
                         /\ \A j \in 1..end[b] : /\ regions[b][j].count \in Nat
                                                /\ regions'[b][j].count \in Nat
                                                /\ regions[b][j].count <= regions'[b][j].count
  <2> SUFFICES ASSUME NEW b \in Arenas
      PROVE  /\ end[b] \in Nat /\ end'[b] \in Nat /\ end[b] <= end'[b]
             /\ \A j \in 1..end[b] : /\ regions[b][j].count \in Nat
                                    /\ regions'[b][j].count \in Nat
                                    /\ regions[b][j].count <= regions'[b][j].count
    OBVIOUS
  <2>1. Chain(regions[b], end[b])
    BY DEF Chains
  <2>2. /\ end[b] \in Nat /\ end[b] <= Len(regions[b]) /\ Len(regions[b]) \in Nat
        /\ \A j \in 1..Len(regions[b]) : regions[b][j].count \in Nat
    BY <2>1, ChainTypes
  <2>3. CASE b = a
    BY <2>2, <2>3, <1>3, <1>4, <1>8
  <2>4. CASE b # a
    BY <2>2, <2>4, <1>8
  <2> QED
    BY <2>3, <2>4
<1>11. Typed'
  BY <1>6, <1>7, <1>8, <1>9 DEF Typed
<1>12. Chains'
  BY <1>4, <1>8 DEF Chains
<1>13. Scopes'
  BY <1>9 DEF Scopes, StackOK, SlotOK, FrameOK, Under, Depth
<1>14. \A p \in live : /\ p \in Objects /\ p.arena \in Arenas /\ p.at \in Nat /\ p.bytes \in Nat
                       /\ p.region \in 1..end[p.arena]
                       /\ p.at + p.bytes <= WordBytes * regions[p.arena][p.region].count
  BY SizeAssumption DEF Typed, Objects, Objs, ObjectOK
<1>15. Objs'
  <2> SUFFICES ASSUME NEW p \in live' PROVE ObjectOK(p)'
    BY DEF Objs
  <2>1. CASE p = o
    BY <2>1, <1>4, <1>5, <1>8 DEF ObjectOK
  <2>2. CASE p \in live
    BY <2>2, <1>10, <1>14 DEF ObjectOK, WordBytes
  <2> QED
    BY <2>1, <2>2, <1>7
<1>16. Apart'
  <2>1. ASSUME NEW p \in live PROVE ~Overlap(o, p) /\ ~Overlap(p, o)
    <3> SUFFICES ASSUME p.arena = a, p.region = i
                 PROVE  p.at + p.bytes <= o.at
      BY <1>3, <1>5, <1>14 DEF Overlap
    <3> QED
      BY <1>3, <1>4, <1>5, <1>14 DEF WordBytes
  <2> QED
    BY <2>1, <1>7 DEF Apart
<1>17. Marks'
  <2> SUFFICES ASSUME NEW u \in Threads, NEW k \in 1..Depth(u), stack[u][k].kind = "window"
      PROVE  LET m == stack[u][k]
             IN /\ m.region \in 0..end'[m.arena]
                /\ m.region > 0 => m.count <= regions'[m.arena][m.region].count
                /\ \A p \in live' : p.arena = m.arena /\ p.depth < k => Below(p, m)
    BY <1>9 DEF Marks, MarkOK, Depth
  <2> DEFINE m == stack[u][k]
  <2>1. MarkOK(u, k) /\ m.arena \in Arenas /\ m.region \in Nat /\ m.count \in Nat
        /\ Depth(u) \in Nat
    BY FrameTypes DEF Marks
  <2>2. m.region \in 0..end'[m.arena] /\ (m.region > 0 => m.count <= regions'[m.arena][m.region].count)
    BY <2>1, <1>10 DEF MarkOK
  <2>3. o.arena = m.arena => ~(o.depth < k)
    BY <1>2, <1>5, <2>1
  <2> QED
    BY <2>1, <2>2, <2>3, <1>7 DEF MarkOK
<1>18. Nests'
  BY <1>9 DEF Nests, NestOK, Depth
<1>19. Plans'
  <2> SUFFICES ASSUME NEW p \in plan' PROVE PlanOK(p)'
    BY DEF Plans
  <2>1. CASE p \in plan
    BY <2>1, <1>7, <1>9 DEF Plans, PlanOK, Depth
  <2>2. CASE p = o /\ Top(t, "plan")
    <3>1. Depth(t) \in Nat /\ Depth(t) \in 1..Depth(t) /\ stack[t][Depth(t)].kind = "plan"
      BY <2>2, FrameTypes DEF Top
    <3>2. temp[t] = stack[t][Depth(t)].arena /\ FrameOK(t, Depth(t))
      BY <3>1 DEF Scopes, StackOK, Under
    <3>3. a \in Slots /\ a # t /\ \A j \in 1..(Depth(t) - 1) : stack[t][j].arena = t
      BY <3>1, <3>2, NameAssumption DEF FrameOK
    <3>4. \A u \in Threads : \A k \in 1..Depth(u) : stack[u][k].arena = a =>
            o.depth <= k /\ (stack[u][k].kind = "window" => o.depth < k)
      BY <3>1, <3>3, <1>2, <1>5
    <3>5. claim[a] = "claimed"
      BY <1>2, <3>3
    <3> QED
      BY <2>2, <3>3, <3>4, <3>5, <1>5, <1>7, <1>9 DEF PlanOK, Depth
  <2> QED
    BY <2>1, <2>2, <1>7
<1> QED
  BY <1>11, <1>12, <1>13, <1>15, <1>16, <1>17, <1>18, <1>19
\* Save: the new snapshot is above everything in its arena.
LEMMA SaveInv ==
  ASSUME IInv, NEW t \in Threads, Save(t)
  PROVE  IInv'
<1> DEFINE a == temp[t]
           f == Snapshot(a)
<1> USE DEF IInv
<1>0. PICK d : d = Depth(t)
  OBVIOUS
<1>1. /\ Push(t, f) /\ regions' = regions /\ end' = end /\ temp' = temp
      /\ slotArena' = slotArena /\ claim' = claim /\ live' = live /\ plan' = plan
  BY DEF Save
<1>2. /\ a \in Arenas
      /\ a = t \/ (a \in Slots /\ claim[a] = "claimed" /\ slotArena[a] = t)
      /\ \A u \in Threads : \A k \in 1..Depth(u) : stack[u][k].arena = a => u = t
  BY TempOwner
<1>3. Chain(regions[a], end[a])
  BY <1>2 DEF Chains
<1>4. /\ end[a] \in Nat /\ \A j \in 1..end[a] : regions[a][j].count \in Nat
  BY <1>3, ChainTypes
<1>5. /\ f \in Frames /\ f.kind = "window" /\ f.arena = a /\ f.region = end[a]
      /\ f.region > 0 => f.count = regions[a][end[a]].count
  BY <1>2, <1>4 DEF Snapshot, Window, Frames
<1> HIDE DEF f
<1>6. /\ stack' \in [Threads -> Seq(Frames)]
      /\ Depth(t)' = d + 1 /\ stack'[t][d + 1] = f
      /\ \A k \in 1..d : stack'[t][k] = stack[t][k]
      /\ \A u \in Threads : u # t => stack'[u] = stack[u] /\ Depth(u)' = Depth(u)
  BY <1>0, <1>1, <1>5, PushFrame
<1>7. d \in Nat /\ temp[t] = Under(t, d)
  BY <1>0, FrameTypes DEF Scopes, StackOK
<1>8. Typed'
  BY <1>1, <1>6 DEF Typed
<1>9. Chains' /\ Objs' /\ Apart'
  BY <1>1 DEF Chains, Objs, ObjectOK, Apart
<1>10. Scopes'
  <2>1. \A u \in Threads : StackOK(u)'
    BY <1>1, <1>2, <1>5, PushScope
  <2> QED
    BY <2>1, <1>1 DEF Scopes, SlotOK
<1>11. Marks'
  <2> SUFFICES ASSUME NEW u \in Threads, NEW k \in 1..Depth(u)' PROVE MarkOK(u, k)'
    BY DEF Marks
  <2>1. CASE u # t \/ k \in 1..d
    <3>1. MarkOK(u, k) /\ stack'[u][k] = stack[u][k]
      BY <2>1, <1>0, <1>6, <1>7 DEF Marks
    <3> QED
      BY <3>1, <1>1 DEF MarkOK
  <2>2. CASE u = t /\ k = d + 1
    <3>1. \A o \in live : o.arena = a => Below(o, f)
      <4> SUFFICES ASSUME NEW o \in live, o.arena = a PROVE Below(o, f)
        OBVIOUS
      <4> QED
        BY <1>4, <1>5 DEF Objs, ObjectOK, Below
    <3> QED
      BY <2>2, <3>1, <1>1, <1>4, <1>5, <1>6 DEF MarkOK
  <2> QED
    BY <2>1, <2>2, <1>6, <1>7
<1>12. Nests'
  <2> SUFFICES ASSUME NEW u \in Threads, NEW k \in 1..Depth(u)', NEW j \in 1..(k - 1)
      PROVE  NestOK(u, j, k)'
    BY DEF Nests
  <2>1. CASE u # t \/ k \in 1..d
    <3>1. NestOK(u, j, k) /\ stack'[u][k] = stack[u][k] /\ stack'[u][j] = stack[u][j]
      BY <2>1, <1>0, <1>6, <1>7 DEF Nests
    <3> QED
      BY <3>1 DEF NestOK
  <2>2. CASE u = t /\ k = d + 1
    <3>1. stack'[t][k] = f /\ stack'[t][j] = stack[t][j] /\ MarkOK(t, j)
      BY <2>2, <1>0, <1>6, <1>7 DEF Marks
    <3>2. stack[t][j].region \in Nat /\ stack[t][j].count \in Nat
      BY <2>2, <1>0, <1>7, FrameTypes
    <3> QED
      BY <2>2, <3>1, <3>2, <1>4, <1>5 DEF NestOK, MarkOK
  <2> QED
    BY <2>1, <2>2, <1>6, <1>7
<1>13. Plans'
  <2> SUFFICES ASSUME NEW o \in plan PROVE PlanOK(o)'
    BY <1>1 DEF Plans
  <2>1. PlanOK(o) /\ o.depth \in Nat
    BY DEF Plans, PlanOK, Typed, Objects
  <2> SUFFICES ASSUME NEW u \in Threads, NEW k \in 1..Depth(u)', stack'[u][k].arena = o.arena
      PROVE  o.depth <= k /\ (stack'[u][k].kind = "window" => o.depth < k)
    BY <2>1, <1>1 DEF PlanOK
  <2>2. CASE u # t \/ k \in 1..d
    BY <2>1, <2>2, <1>0, <1>6, <1>7 DEF PlanOK
  <2>3. CASE u = t /\ k = d + 1
    <3>1. a \in Slots /\ a # t
      BY <2>1, <2>3, <1>5, <1>6, <1>2, NameAssumption DEF PlanOK
    <3>2. d > 0 /\ stack[t][d].arena = o.arena
      BY <2>3, <3>1, <1>5, <1>6, <1>7 DEF Under
    <3> QED
      BY <2>1, <2>3, <3>2, <1>0, <1>7 DEF PlanOK
  <2> QED
    BY <2>2, <2>3, <1>6, <1>7
<1> QED
  BY <1>8, <1>9, <1>10, <1>11, <1>12, <1>13

\* What all the ways to leave a scope have in common: the stacks lose the top frame
\* of t, so that conditions on the frames that stay are inherited.
LEMMA PopRest ==
  ASSUME Typed, NEW t \in Threads, Depth(t) > 0, Pop(t)
  PROVE  \A u \in Threads : \A k \in 1..Depth(u)' :
           /\ k \in 1..Depth(u) /\ k \in Nat /\ Depth(u) \in Nat
           /\ stack'[u][k] = stack[u][k]
           /\ \A j \in 1..(k - 1) : j \in 1..Depth(u)' /\ stack'[u][j] = stack[u][j]
           /\ u = t => k < Depth(t)
<1> SUFFICES ASSUME NEW u \in Threads, NEW k \in 1..Depth(u)'
    PROVE  /\ k \in 1..Depth(u) /\ k \in Nat /\ Depth(u) \in Nat
           /\ stack'[u][k] = stack[u][k]
           /\ \A j \in 1..(k - 1) : j \in 1..Depth(u)' /\ stack'[u][j] = stack[u][j]
           /\ u = t => k < Depth(t)
  OBVIOUS
<1>1. /\ Depth(t)' = Depth(t) - 1 /\ Depth(t) - 1 \in Nat
      /\ \A j \in 1..(Depth(t) - 1) : stack'[t][j] = stack[t][j]
      /\ u # t => stack'[u] = stack[u] /\ Depth(u)' = Depth(u)
  BY PopFrame
<1>2. Depth(u) \in Nat /\ Depth(t) \in Nat
  BY FrameTypes
<1> QED
  BY <1>1, <1>2

\* The plans stay in place when scopes are left and none of their objects is taken.
LEMMA PopPlans ==
  ASSUME Typed, Plans, NEW t \in Threads, Depth(t) > 0, Pop(t), plan' = plan,
         \A o \in plan : o \in live',
         \A i \in Slots : claim[i] # "none" => claim'[i] # "none"
  PROVE  Plans'
<1> SUFFICES ASSUME NEW o \in plan PROVE PlanOK(o)'
  BY DEF Plans
<1>1. PlanOK(o)
  BY DEF Plans
<1>2. \A u \in Threads : \A k \in 1..Depth(u)' : k \in 1..Depth(u) /\ stack'[u][k] = stack[u][k]
  BY PopRest
<1> QED
  BY <1>1, <1>2 DEF PlanOK

\* Nested snapshots stay nested when a scope is left.
LEMMA PopNests ==
  ASSUME Typed, Nests, NEW t \in Threads, Depth(t) > 0, Pop(t)
  PROVE  Nests'
<1> SUFFICES ASSUME NEW u \in Threads, NEW k \in 1..Depth(u)', NEW j \in 1..(k - 1)
    PROVE  NestOK(u, j, k)'
  BY DEF Nests
<1>1. /\ k \in 1..Depth(u) /\ stack'[u][k] = stack[u][k] /\ stack'[u][j] = stack[u][j]
  BY PopRest
<1> QED
  BY <1>1 DEF Nests, NestOK

\* Restore: what is left in the arena lies below the snapshot.
LEMMA RestoreInv ==
  ASSUME IInv, NEW t \in Threads, Restore(t)
  PROVE  IInv'
<1> DEFINE a == temp[t]
<1> USE DEF IInv
<1>0. PICK d : d = Depth(t)
  OBVIOUS
<1>1. PICK m : m = stack[t][d]
  OBVIOUS
<1>2. /\ d \in Nat /\ d > 0 /\ d \in 1..Depth(t) /\ m.kind = "window"
      /\ m.region \in Nat /\ m.count \in Nat
  BY <1>0, <1>1, FrameTypes DEF Restore, Top
<1>3. /\ regions' = [regions EXCEPT ![a] = RewindRegions(regions[a], end[a], m)]
      /\ end' = [end EXCEPT ![a] = RewindEnd(regions[a], m)]
      /\ live' = live \ Taken(a, d) /\ plan' = plan /\ Pop(t)
      /\ temp' = temp /\ slotArena' = slotArena /\ claim' = claim
  BY <1>0, <1>1 DEF Restore, Forget
<1>4. /\ a \in Arenas
      /\ \A u \in Threads : \A k \in 1..Depth(u) : stack[u][k].arena = a => u = t
  BY TempOwner
<1>5. m.arena = a /\ a = Under(t, d - 1)
  <2>1. temp[t] = Under(t, d) /\ FrameOK(t, d)
    BY <1>0, <1>2 DEF Scopes, StackOK
  <2> QED
    BY <2>1, <1>1, <1>2 DEF FrameOK, Under
<1>6. /\ m.region \in 0..end[a] /\ (m.region > 0 => m.count <= regions[a][m.region].count)
      /\ \A o \in live : o.arena = a /\ o.depth < d => Below(o, m)
  <2>1. MarkOK(t, d)
    BY <1>0, <1>2 DEF Marks
  <2> QED
    BY <2>1, <1>1, <1>2, <1>5 DEF MarkOK
<1>7. PICK new : new = RewindRegions(regions[a], end[a], m)
  OBVIOUS
<1>8. PICK last : last = RewindEnd(regions[a], m)
  OBVIOUS
<1>9. /\ Chain(new, last) /\ m.region <= last
      /\ m.region > 0 => last = m.region /\ new[m.region].count = m.count
      /\ \A j \in 1..(m.region - 1) : new[j].count = regions[a][j].count
  <2>1. Chain(regions[a], end[a])
    BY <1>4 DEF Chains
  <2> QED
    BY <2>1, <1>2, <1>6, <1>7, <1>8, RewindChain
<1>10. /\ regions'[a] = new /\ end'[a] = last /\ DOMAIN regions' = Arenas /\ DOMAIN end' = Arenas
       /\ \A b \in Arenas : b # a => regions'[b] = regions[b] /\ end'[b] = end[b]
  BY <1>3, <1>4, <1>7, <1>8 DEF Typed
<1>11. \A o \in live' : o \in live /\ ~(o.arena = a /\ o.depth >= d)
  BY <1>3 DEF Taken
<1>12. \A o \in live : /\ o.arena \in Arenas /\ o.region \in Nat /\ o.depth \in Nat
                       /\ o.at \in Nat /\ o.bytes \in Nat
  BY SizeAssumption DEF Typed, Objects
<1>13. last \in Nat
  BY <1>9, ChainTypes
<1>14. Typed'
  BY <1>2, <1>0, <1>3, <1>10, <1>11, PopFrame DEF Typed
<1>15. Chains'
  BY <1>9, <1>10 DEF Chains
<1>16. Scopes'
  <2>1. \A u \in Threads : StackOK(u)'
    BY <1>0, <1>2, <1>3, <1>5, PopScope
  <2> QED
    BY <2>1, <1>3 DEF Scopes, SlotOK
<1>17. Objs'
  <2> SUFFICES ASSUME NEW o \in live' PROVE ObjectOK(o)'
    BY DEF Objs
  <2>1. ObjectOK(o) /\ o \in live
    BY <1>11 DEF Objs
  <2>2. CASE o.arena # a
    BY <2>1, <2>2, <1>10, <1>12 DEF ObjectOK
  <2>3. CASE o.arena = a
    <3>1. Below(o, m) /\ o.region >= 1
      BY <2>1, <2>3, <1>2, <1>6, <1>11, <1>12 DEF ObjectOK
    <3>2. o.region \in 1..last
      BY <2>1, <3>1, <1>2, <1>9, <1>12, <1>13 DEF Below
    <3>3. o.at + o.bytes <= WordBytes * new[o.region].count
      BY <3>1, <2>1, <2>3, <1>2, <1>9, <1>12 DEF Below, ObjectOK
    <3> QED
      BY <2>3, <3>2, <3>3, <1>10 DEF ObjectOK
  <2> QED
    BY <2>2, <2>3
<1>18. Apart'
  BY <1>11 DEF Apart
<1>19. Marks'
  <2> SUFFICES ASSUME NEW u \in Threads, NEW k \in 1..Depth(u)' PROVE MarkOK(u, k)'
    BY DEF Marks
  <2>1. /\ k \in 1..Depth(u) /\ k \in Nat /\ stack'[u][k] = stack[u][k] /\ (u = t => k < d)
    BY <1>0, <1>2, <1>3, PopRest
  <2>2. MarkOK(u, k)
    BY <2>1 DEF Marks
  <2>3. PICK n : n = stack[u][k]
    OBVIOUS
  <2>4. n.arena \in Arenas /\ n.region \in Nat /\ n.count \in Nat
    BY <2>1, <2>3, FrameTypes
  <2>5. CASE n.arena # a
    BY <2>1, <2>2, <2>3, <2>4, <2>5, <1>10, <1>11 DEF MarkOK
  <2>6. CASE n.arena = a /\ n.kind = "window"
    <3>1. u = t /\ k \in 1..(d - 1)
      BY <2>1, <2>3, <2>6, <1>2, <1>4
    <3>2. NestOK(t, k, d)
      BY <3>1, <1>0, <1>2 DEF Nests
    <3>3. n.region < m.region \/ (n.region = m.region /\ (n.region = 0 \/ n.count <= m.count))
      BY <3>1, <3>2, <2>3, <2>6, <1>1, <1>2, <1>5 DEF NestOK
    <3>4. n.region \in 0..last
      BY <3>3, <2>4, <1>2, <1>9, <1>13
    <3>5. n.region > 0 => n.count <= new[n.region].count
      <4>1. n.region > 0 => n.count <= regions[a][n.region].count
        BY <2>2, <2>3, <2>6 DEF MarkOK
      <4> QED
        BY <4>1, <3>3, <2>4, <1>2, <1>9
    <3> QED
      BY <3>4, <3>5, <2>1, <2>2, <2>3, <2>6, <1>10, <1>11 DEF MarkOK
  <2>7. CASE n.kind # "window"
    BY <2>1, <2>3, <2>7 DEF MarkOK
  <2> QED
    BY <2>5, <2>6, <2>7
<1>20. Nests'
  BY <1>0, <1>2, <1>3, PopNests
<1>21. Plans'
  <2>1. ASSUME NEW o \in plan PROVE o \in live'
    <3>1. PlanOK(o)
      BY DEF Plans
    <3>2. o.arena = a => o.depth < d
      BY <3>1, <1>0, <1>1, <1>2, <1>5 DEF PlanOK
    <3> QED
      BY <3>1, <3>2, <1>2, <1>3, <1>12 DEF PlanOK, Taken
  <2> QED
    BY <2>1, <1>0, <1>2, <1>3, PopPlans
<1> QED
  BY <1>14, <1>15, <1>16, <1>17, <1>18, <1>19, <1>20, <1>21

\* A scope that ends and hands on what it took changes no place in memory: the objects
\* lie where they lay, and below the snapshots of the frames that stay.
LEMMA HandOn ==
  ASSUME IInv, NEW t \in Threads, NEW d \in Nat, d = Depth(t), d > 0, Pop(t)
  PROVE  /\ \A p \in HandedOn(t, d) :
              /\ p \in Objects
              /\ \E o \in live : /\ p.arena = o.arena /\ p.region = o.region
                                 /\ p.at = o.at /\ p.bytes = o.bytes
         /\ \A p, q \in HandedOn(t, d) : p # q => ~Overlap(p, q)
         /\ \A u \in Threads : \A k \in 1..Depth(u)' : \A p \in HandedOn(t, d) :
              /\ stack[u][k].kind = "window" /\ p.arena = stack[u][k].arena /\ p.depth < k
              => Below(p, stack[u][k])
         /\ \A o \in live : o.arena # temp[t] \/ o.depth < d => o \in HandedOn(t, d)
<1> DEFINE a == temp[t]
           Kept(o) == [o EXCEPT !.depth = d - 1]
<1> USE DEF IInv
<1>1. HandedOn(t, d) = (live \ Taken(a, d)) \cup {Kept(o) : o \in Taken(a, d)}
  BY DEF HandedOn
<1>2. \A u \in Threads : \A k \in 1..Depth(u) : stack[u][k].arena = a => u = t
  BY TempOwner
<1>3. \A o \in live : Kept(o) \in Objects /\ Kept(o).depth = d - 1
        /\ Kept(o).arena = o.arena /\ Kept(o).region = o.region
        /\ Kept(o).at = o.at /\ Kept(o).bytes = o.bytes
  <2> SUFFICES ASSUME NEW o \in live
      PROVE /\ Kept(o) \in Objects /\ Kept(o).depth = d - 1
            /\ Kept(o).arena = o.arena /\ Kept(o).region = o.region
            /\ Kept(o).at = o.at /\ Kept(o).bytes = o.bytes
    OBVIOUS
  <2>1. o \in Objects /\ d - 1 \in Nat
    BY DEF Typed
  <2> QED
    BY <2>1 DEF Objects
<1>4. \A p \in HandedOn(t, d) : \E o \in live :
        /\ p = o \/ (p = Kept(o) /\ o.arena = a)
        /\ p = IF o \in Taken(a, d) THEN Kept(o) ELSE o
  BY <1>1 DEF Taken
<1>5. \A o \in live : o.arena # a \/ o.depth < d => o \in HandedOn(t, d)
  <2> SUFFICES ASSUME NEW o \in live, o.arena # a \/ o.depth < d PROVE o \in HandedOn(t, d)
    OBVIOUS
  <2>1. o.depth \in Nat
    BY DEF Typed, Objects
  <2> QED
    BY <2>1, <1>1 DEF Taken
<1> HIDE DEF Kept
<1>6. \A p \in HandedOn(t, d) :
        /\ p \in Objects
        /\ \E o \in live : /\ p.arena = o.arena /\ p.region = o.region
                           /\ p.at = o.at /\ p.bytes = o.bytes
  <2> SUFFICES ASSUME NEW p \in HandedOn(t, d)
      PROVE /\ p \in Objects
            /\ \E o \in live : /\ p.arena = o.arena /\ p.region = o.region
                               /\ p.at = o.at /\ p.bytes = o.bytes
    OBVIOUS
  <2>1. PICK o \in live : p = o \/ p = Kept(o)
    BY <1>4
  <2> QED
    BY <2>1, <1>3 DEF Typed
<1>7. \A p, q \in HandedOn(t, d) : p # q => ~Overlap(p, q)
  <2> SUFFICES ASSUME NEW p \in HandedOn(t, d), NEW q \in HandedOn(t, d), p # q PROVE ~Overlap(p, q)
    OBVIOUS
  <2>1. PICK o \in live : p = (IF o \in Taken(a, d) THEN Kept(o) ELSE o)
    BY <1>4
  <2>2. PICK r \in live : q = (IF r \in Taken(a, d) THEN Kept(r) ELSE r)
    BY <1>4
  <2>3. o # r
    BY <2>1, <2>2
  <2>4. ~Overlap(o, r)
    BY <2>3 DEF Apart
  <2> QED
    BY <2>1, <2>2, <2>4, <1>3 DEF Overlap
<1>8. \A u \in Threads : \A k \in 1..Depth(u)' : \A p \in HandedOn(t, d) :
        /\ stack[u][k].kind = "window" /\ p.arena = stack[u][k].arena /\ p.depth < k
        => Below(p, stack[u][k])
  <2> SUFFICES ASSUME NEW u \in Threads, NEW k \in 1..Depth(u)', NEW p \in HandedOn(t, d),
                      stack[u][k].kind = "window", p.arena = stack[u][k].arena, p.depth < k
               PROVE  Below(p, stack[u][k])
    OBVIOUS
  <2>1. k \in 1..Depth(u) /\ k \in Nat /\ (u = t => k < d)
    BY PopRest
  <2>2. MarkOK(u, k)
    BY <2>1 DEF Marks
  <2>3. PICK o \in live : p = o \/ (p = Kept(o) /\ o.arena = a)
    BY <1>4
  <2>4. p # Kept(o) \/ o.arena # a
    <3> SUFFICES ASSUME p = Kept(o), o.arena = a PROVE FALSE
      OBVIOUS
    <3>1. u = t
      BY <2>1, <1>2, <1>3
    <3> QED
      BY <3>1, <2>1, <1>3
  <2> QED
    BY <2>2, <2>3, <2>4 DEF MarkOK
<1> QED
  BY <1>5, <1>6, <1>7, <1>8

\* Leave: what the scope took stays, and belongs to the scope around it.
LEMMA LeaveInv ==
  ASSUME IInv, NEW t \in Threads, Leave(t)
  PROVE  IInv'
<1> DEFINE a == temp[t]
<1> USE DEF IInv
<1>0. PICK d : d = Depth(t)
  OBVIOUS
<1>1. d \in Nat /\ d > 1 /\ d \in 1..Depth(t) /\ stack[t][d].kind = "window"
  BY <1>0, FrameTypes DEF Leave, Top
<1>2. /\ live' = HandedOn(t, d)
      /\ Pop(t) /\ regions' = regions /\ end' = end /\ temp' = temp
      /\ slotArena' = slotArena /\ claim' = claim /\ plan' = plan
  BY <1>0 DEF Leave
<1>3. stack[t][d].arena = a /\ a = Under(t, d - 1)
  <2>1. temp[t] = Under(t, d) /\ FrameOK(t, d)
    BY <1>0, <1>1 DEF Scopes, StackOK
  <2> QED
    BY <2>1, <1>1 DEF FrameOK, Under
<1>4. \A p \in live' :
        /\ p \in Objects
        /\ \E o \in live : /\ p.arena = o.arena /\ p.region = o.region
                           /\ p.at = o.at /\ p.bytes = o.bytes
  BY <1>0, <1>1, <1>2, HandOn
<1>5. Typed'
  <2>1. live' \subseteq Objects
    BY <1>4
  <2> QED
    BY <2>1, <1>0, <1>1, <1>2, PopFrame DEF Typed
<1>6. Chains'
  BY <1>2 DEF Chains
<1>7. Scopes'
  <2>1. \A u \in Threads : StackOK(u)'
    BY <1>0, <1>1, <1>2, <1>3, PopScope
  <2> QED
    BY <2>1, <1>2 DEF Scopes, SlotOK
<1>8. Objs'
  BY <1>2, <1>4 DEF Objs, ObjectOK
<1>9. Apart'
  <2>1. \A p, q \in HandedOn(t, d) : p # q => ~Overlap(p, q)
    BY <1>0, <1>1, <1>2, HandOn
  <2> QED
    BY <2>1, <1>2 DEF Apart, Overlap
<1>10. Marks'
  <2> SUFFICES ASSUME NEW u \in Threads, NEW k \in 1..Depth(u)' PROVE MarkOK(u, k)'
    BY DEF Marks
  <2>1. k \in 1..Depth(u) /\ stack'[u][k] = stack[u][k]
    BY <1>0, <1>1, <1>2, PopRest
  <2>2. MarkOK(u, k)
    BY <2>1 DEF Marks
  <2>3. \A p \in live' : stack[u][k].kind = "window" /\ p.arena = stack[u][k].arena /\ p.depth < k
                           => Below(p, stack[u][k])
    BY <1>0, <1>1, <1>2, HandOn
  <2> QED
    BY <2>1, <2>2, <2>3, <1>2 DEF MarkOK
<1>11. Nests'
  BY <1>0, <1>1, <1>2, PopNests
<1>12. Plans'
  <2>1. ASSUME NEW o \in plan PROVE o \in live'
    <3>1. PlanOK(o)
      BY DEF Plans
    <3>2. o.arena = a => o.depth < d
      BY <3>1, <1>0, <1>1, <1>3 DEF PlanOK
    <3>3. o.depth \in Nat
      BY <3>1 DEF PlanOK, Typed, Objects
    <3> QED
      BY <3>1, <3>2, <3>3, <1>0, <1>1, <1>2, HandOn DEF PlanOK
  <2> QED
    BY <2>1, <1>0, <1>1, <1>2, PopPlans
<1> QED
  BY <1>5, <1>6, <1>7, <1>8, <1>9, <1>10, <1>11, <1>12

\* Reset: the thread's own arena is emptied, and nobody else refers to it.
LEMMA ResetInv ==
  ASSUME IInv, NEW t \in Threads, Reset(t)
  PROVE  IInv'
<1> DEFINE a == temp[t]
           m == [region |-> 0, count |-> 0]
<1> USE DEF IInv
<1>1. Depth(t) = 1 /\ stack[t][1].kind = "window"
  BY DEF Reset, Top
<1>2. /\ regions' = [regions EXCEPT ![a] = ResetRegions(regions[a], end[a])]
      /\ end' = [end EXCEPT ![a] = ResetEnd(regions[a])]
      /\ live' = live \ Taken(a, 0) /\ plan' = plan /\ Pop(t)
      /\ temp' = temp /\ slotArena' = slotArena /\ claim' = claim
  BY DEF Reset, Forget
<1>3. /\ a \in Arenas
      /\ \A u \in Threads : \A k \in 1..Depth(u) : stack[u][k].arena = a => u = t
  BY TempOwner
<1>4. a = t
  <2>1. temp[t] = Under(t, 1) /\ FrameOK(t, 1)
    BY <1>1 DEF Scopes, StackOK
  <2> QED
    BY <2>1, <1>1 DEF FrameOK, Under
<1>5. Chain(ResetRegions(regions[a], end[a]), ResetEnd(regions[a]))
  <2>1. Chain(regions[a], end[a])
    BY <1>3 DEF Chains
  <2>2. /\ RewindRegions(regions[a], end[a], m) = ResetRegions(regions[a], end[a])
        /\ RewindEnd(regions[a], m) = ResetEnd(regions[a])
    BY DEF RewindRegions, RewindEnd
  <2>3. m.region \in 0..end[a] /\ m.count \in Nat /\ ~(m.region > 0)
    BY <2>1 DEF Chain
  <2> HIDE DEF m
  <2> QED
    BY <2>1, <2>2, <2>3, RewindChain
<1>6. /\ DOMAIN regions' = Arenas /\ DOMAIN end' = Arenas
      /\ regions'[a] = ResetRegions(regions[a], end[a]) /\ end'[a] = ResetEnd(regions[a])
      /\ \A b \in Arenas : b # a => regions'[b] = regions[b] /\ end'[b] = end[b]
  BY <1>2, <1>3 DEF Typed
<1>7. \A o \in live' : o \in live /\ o.arena # a
  BY <1>2 DEF Taken, Typed, Objects
<1>8. Typed'
  BY <1>1, <1>2, <1>6, <1>7, PopFrame DEF Typed
<1>9. Chains'
  BY <1>5, <1>6 DEF Chains
<1>10. Scopes'
  <2>1. temp'[t] = Under(t, Depth(t) - 1)
    BY <1>1, <1>2, <1>4 DEF Under
  <2>2. \A u \in Threads : StackOK(u)'
    BY <2>1, <1>1, <1>2, PopScope
  <2> QED
    BY <2>2, <1>2 DEF Scopes, SlotOK
<1>11. Objs'
  BY <1>6, <1>7 DEF Objs, ObjectOK, Typed, Objects
<1>12. Apart'
  BY <1>7 DEF Apart
<1>13. Marks'
  <2> SUFFICES ASSUME NEW u \in Threads, NEW k \in 1..Depth(u)' PROVE MarkOK(u, k)'
    BY DEF Marks
  <2>1. /\ k \in 1..Depth(u) /\ k \in Nat /\ stack'[u][k] = stack[u][k] /\ (u = t => k < 1)
    BY <1>1, <1>2, PopRest
  <2>2. MarkOK(u, k) /\ u # t
    BY <2>1 DEF Marks
  <2>3. stack[u][k].arena \in Arenas /\ stack[u][k].arena # a
    BY <2>1, <2>2, <1>3, FrameTypes
  <2> QED
    BY <2>1, <2>2, <2>3, <1>6, <1>7 DEF MarkOK
<1>14. Nests'
  BY <1>1, <1>2, PopNests
<1>15. Plans'
  <2>1. ASSUME NEW o \in plan PROVE o \in live'
    BY <1>2, <1>4, NameAssumption DEF Plans, PlanOK, Taken
  <2> QED
    BY <2>1, <1>1, <1>2, PopPlans
<1> QED
  BY <1>8, <1>9, <1>10, <1>11, <1>12, <1>13, <1>14, <1>15

\* A seed's arena is referred to by the thread that claimed it, and by nobody else.
LEMMA SlotUser ==
  ASSUME Typed, Scopes, NEW i \in Slots, claim[i] # "claimed"
  PROVE  \A u \in Threads : \A k \in 1..Depth(u) : stack[u][k].arena # i
  BY NameAssumption DEF Scopes, StackOK, FrameOK

\* Entering a scope that is no window leaves the snapshots as they are.
LEMMA PushRest ==
  ASSUME Typed, Marks, Nests, NEW t \in Threads, NEW f \in Frames, Push(t, f), f.kind # "window",
         regions' = regions, end' = end, live' = live
  PROVE  Marks' /\ Nests'
<1>0. PICK d : d = Depth(t)
  OBVIOUS
<1>1. /\ d \in Nat /\ Depth(t)' = d + 1 /\ stack'[t][d + 1] = f
      /\ \A k \in 1..d : stack'[t][k] = stack[t][k]
      /\ \A u \in Threads : u # t => stack'[u] = stack[u] /\ Depth(u)' = Depth(u)
  BY <1>0, PushFrame, FrameTypes
<1> SUFFICES ASSUME NEW u \in Threads, NEW k \in 1..Depth(u)'
    PROVE  MarkOK(u, k)' /\ \A j \in 1..(k - 1) : NestOK(u, j, k)'
  BY DEF Marks, Nests
<1>2. CASE u # t \/ k \in 1..d
  <2>1. k \in 1..Depth(u) /\ stack'[u][k] = stack[u][k]
        /\ \A j \in 1..(k - 1) : stack'[u][j] = stack[u][j]
    BY <1>0, <1>1, <1>2
  <2>2. MarkOK(u, k) /\ \A j \in 1..(k - 1) : NestOK(u, j, k)
    BY <2>1 DEF Marks, Nests
  <2> QED
    BY <2>1, <2>2 DEF MarkOK, NestOK
<1>3. CASE u = t /\ k = d + 1
  BY <1>1, <1>3 DEF MarkOK, NestOK
<1> QED
  BY <1>1, <1>2, <1>3

\* OpenSlots: the caller of parallel_for is back in its own arena.
LEMMA OpenSlotsInv ==
  ASSUME IInv, NEW t \in Threads, OpenSlots(t)
  PROVE  IInv'
<1> USE DEF IInv
<1>0. PICK f : f = [kind |-> "slots", arena |-> t, region |-> 0, count |-> 0]
  OBVIOUS
<1>1. /\ Push(t, f) /\ regions' = regions /\ end' = end /\ temp' = temp /\ temp[t] = t
      /\ slotArena' = slotArena /\ claim' = claim /\ live' = live /\ plan' = plan
  BY <1>0 DEF OpenSlots
<1>2. f \in Frames /\ f.kind = "slots" /\ f.arena = t
  BY <1>0 DEF Frames, Arenas
<1>3. Typed'
  BY <1>1, <1>2, PushFrame DEF Typed
<1>4. Chains' /\ Objs' /\ Apart'
  BY <1>1 DEF Chains, Objs, ObjectOK, Apart
<1>5. Scopes'
  <2>1. \A u \in Threads : StackOK(u)'
    BY <1>1, <1>2, PushScope
  <2> QED
    BY <2>1, <1>1 DEF Scopes, SlotOK
<1>6. Marks' /\ Nests'
  BY <1>1, <1>2, PushRest
<1>7. Plans'
  <2> SUFFICES ASSUME NEW o \in plan PROVE PlanOK(o)'
    BY <1>1 DEF Plans
  <2>1. PlanOK(o) /\ o.arena # t
    BY NameAssumption DEF Plans, PlanOK
  <2> SUFFICES ASSUME NEW u \in Threads, NEW k \in 1..Depth(u)', stack'[u][k].arena = o.arena
      PROVE  o.depth <= k /\ (stack'[u][k].kind = "window" => o.depth < k)
    BY <2>1, <1>1 DEF PlanOK
  <2>2. k \in 1..Depth(u) /\ stack'[u][k] = stack[u][k]
    BY <2>1, <1>1, <1>2, PushFrame, FrameTypes
  <2> QED
    BY <2>1, <2>2 DEF PlanOK
<1> QED
  BY <1>3, <1>4, <1>5, <1>6, <1>7

\* ClaimSeed: nobody refers to the arena of a seed before it is claimed.
LEMMA ClaimSeedInv ==
  ASSUME IInv, NEW t \in Threads, NEW i \in Slots, ClaimSeed(t, i)
  PROVE  IInv'
<1> USE DEF IInv
<1>1. PICK f : f = Swapped(i)
  OBVIOUS
<1>2. f \in Frames /\ f.kind = "plan" /\ f.arena = i
  BY <1>1 DEF Swapped, Frames, Arenas
<1>3. claim[i] = "none" /\ slotArena[i] = i
  BY DEF ClaimSeed, Scopes, SlotOK
<1>4. temp[t] = t
  <2>1. CASE stack[t] = <<>>
    <3>1. Depth(t) = 0
      BY <2>1, EmptySeq DEF Depth
    <3> QED
      BY <3>1 DEF Scopes, StackOK, Under
  <2>2. CASE Top(t, "slots")
    <3>1. Depth(t) \in 1..Depth(t) /\ stack[t][Depth(t)].kind = "slots"
      BY <2>2, FrameTypes DEF Top
    <3>2. FrameOK(t, Depth(t)) /\ temp[t] = Under(t, Depth(t))
      BY <3>1 DEF Scopes, StackOK
    <3> QED
      BY <3>1, <3>2 DEF FrameOK, Under
  <2> QED
    BY <2>1, <2>2 DEF ClaimSeed
<1>5. /\ Push(t, f) /\ regions' = regions /\ end' = end /\ live' = live /\ plan' = plan
      /\ claim' = [claim EXCEPT ![i] = "claimed"]
      /\ temp' = [temp EXCEPT ![t] = i] /\ slotArena' = [slotArena EXCEPT ![i] = t]
  BY <1>1, <1>3, <1>4 DEF ClaimSeed, Exchange
<1>6. /\ temp'[t] = i /\ slotArena'[i] = t /\ claim'[i] = "claimed"
      /\ \A u \in Threads : u # t => temp'[u] = temp[u]
      /\ \A j \in Slots : j # i => slotArena'[j] = slotArena[j] /\ claim'[j] = claim[j]
  BY <1>5 DEF Typed
<1>7. Typed'
  BY <1>2, <1>5, PushFrame DEF Typed, Arenas
<1>8. Chains' /\ Objs' /\ Apart'
  BY <1>5 DEF Chains, Objs, ObjectOK, Apart
<1>9. Scopes'
  <2>1. \A u \in Threads : StackOK(u)'
    BY <1>2, <1>3, <1>4, <1>5, <1>6, NameAssumption, PushScope
  <2>2. \A j \in Slots : SlotOK(j)'
    BY <1>6 DEF Scopes, SlotOK
  <2> QED
    BY <2>1, <2>2 DEF Scopes
<1>10. Marks' /\ Nests'
  BY <1>2, <1>5, PushRest
<1>11. Plans'
  <2> SUFFICES ASSUME NEW o \in plan PROVE PlanOK(o)'
    BY <1>5 DEF Plans
  <2>1. PlanOK(o) /\ o.arena # i
    BY <1>3 DEF Plans, PlanOK
  <2>2. claim'[o.arena] # "none"
    BY <2>1, <1>6 DEF PlanOK
  <2> SUFFICES ASSUME NEW u \in Threads, NEW k \in 1..Depth(u)', stack'[u][k].arena = o.arena
      PROVE  o.depth <= k /\ (stack'[u][k].kind = "window" => o.depth < k)
    BY <2>1, <2>2, <1>5 DEF PlanOK
  <2>3. k \in 1..Depth(u) /\ stack'[u][k] = stack[u][k]
    BY <2>1, <1>2, <1>5, PushFrame, FrameTypes
  <2> QED
    BY <2>1, <2>3 DEF PlanOK
<1> QED
  BY <1>7, <1>8, <1>9, <1>10, <1>11

\* Leaving a scope that changes no region and no object.
LEMMA PopMarks ==
  ASSUME Typed, Marks, NEW t \in Threads, Depth(t) > 0, Pop(t),
         regions' = regions, end' = end, live' = live
  PROVE  Marks'
<1> SUFFICES ASSUME NEW u \in Threads, NEW k \in 1..Depth(u)' PROVE MarkOK(u, k)'
  BY DEF Marks
<1>1. k \in 1..Depth(u) /\ stack'[u][k] = stack[u][k]
  BY PopRest
<1> QED
  BY <1>1 DEF Marks, MarkOK

\* Planned: the arenas are swapped back, the plan stays in the arena of its seed.
LEMMA PlannedInv ==
  ASSUME IInv, NEW t \in Threads, NEW i \in Slots, Planned(t, i)
  PROVE  IInv'
<1> USE DEF IInv
<1>0. PICK d : d = Depth(t)
  OBVIOUS
<1>1. d \in Nat /\ d > 0 /\ d \in 1..Depth(t) /\ stack[t][d].kind = "plan" /\ stack[t][d].arena = i
  BY <1>0, FrameTypes DEF Planned, Top
<1>2. FrameOK(t, d) /\ temp[t] = Under(t, d)
  BY <1>0, <1>1 DEF Scopes, StackOK
<1>3. /\ temp[t] = i /\ claim[i] = "claimed" /\ slotArena[i] = t
      /\ \A j \in 1..(d - 1) : stack[t][j].arena = t
  BY <1>1, <1>2, NameAssumption DEF FrameOK, Under
<1>4. /\ Pop(t) /\ regions' = regions /\ end' = end /\ live' = live /\ plan' = plan
      /\ claim' = [claim EXCEPT ![i] = "done"]
      /\ temp' = [temp EXCEPT ![t] = t] /\ slotArena' = [slotArena EXCEPT ![i] = i]
  BY <1>3 DEF Planned, Exchange
<1>5. /\ temp'[t] = t /\ slotArena'[i] = i /\ claim'[i] = "done"
      /\ \A u \in Threads : u # t => temp'[u] = temp[u]
      /\ \A j \in Slots : j # i => slotArena'[j] = slotArena[j] /\ claim'[j] = claim[j]
  BY <1>4 DEF Typed
<1>6. Under(t, d - 1) = t
  BY <1>1, <1>3 DEF Under
<1>7. \A u \in Threads : \A k \in 1..Depth(u) : u # t \/ k # d => stack[u][k].arena # i
  <2> SUFFICES ASSUME NEW u \in Threads, NEW k \in 1..Depth(u), u # t \/ k # d, stack[u][k].arena = i
      PROVE  FALSE
    OBVIOUS
  <2>1. u = t
    BY <1>0, <1>1, OneUser
  <2> QED
    BY <2>1, <1>0, <1>1, <1>3, NameAssumption
<1>8. Typed'
  BY <1>0, <1>1, <1>4, PopFrame DEF Typed, Arenas
<1>9. Chains' /\ Objs' /\ Apart'
  BY <1>4 DEF Chains, Objs, ObjectOK, Apart
<1>10. Scopes'
  <2>1. \A u \in Threads : StackOK(u)'
    BY <1>0, <1>1, <1>4, <1>5, <1>6, <1>7, PopScope
  <2>2. \A j \in Slots : SlotOK(j)'
    BY <1>5 DEF Scopes, SlotOK
  <2> QED
    BY <2>1, <2>2 DEF Scopes
<1>11. Marks' /\ Nests'
  BY <1>0, <1>1, <1>4, PopMarks, PopNests
<1>12. Plans'
  BY <1>0, <1>1, <1>4, <1>5, PopPlans DEF Plans, PlanOK
<1> QED
  BY <1>8, <1>9, <1>10, <1>11, <1>12

\* CloseSlots: every seed is done, so the arenas that are freed are the seeds' own
\* and no thread refers to one of them.
LEMMA CloseSlotsInv ==
  ASSUME IInv, NEW t \in Threads, CloseSlots(t)
  PROVE  IInv'
<1> USE DEF IInv
<1>0. PICK d : d = Depth(t)
  OBVIOUS
<1>1. Depth(t) > 0 /\ d \in Nat /\ \A i \in Slots : claim[i] = "done" /\ slotArena[i] = i
  BY <1>0, FrameTypes DEF CloseSlots, Top, Scopes, SlotOK
<1>2. {slotArena[i] : i \in Slots} = Slots
  BY <1>1
<1>3. /\ regions' = [a \in Arenas |-> IF a \in Slots THEN <<>> ELSE regions[a]]
      /\ end' = [a \in Arenas |-> IF a \in Slots THEN 0 ELSE end[a]]
      /\ live' = {p \in HandedOn(t, d) : p.arena \notin Slots} /\ plan' = {}
      /\ claim' = [i \in Slots |-> "none"]
      /\ Pop(t) /\ temp' = temp /\ slotArena' = slotArena
  BY <1>0, <1>2 DEF CloseSlots
<1>4. \A u \in Threads : \A k \in 1..Depth(u) : stack[u][k].arena \in Arenas \ Slots
  BY <1>1, SlotUser, FrameTypes
<1>5. \A a \in Arenas : /\ a \in Slots => regions'[a] = <<>> /\ end'[a] = 0
                        /\ a \notin Slots => regions'[a] = regions[a] /\ end'[a] = end[a]
  BY <1>3
<1>6. \A p \in live' :
        /\ p \in Objects /\ p.arena \notin Slots
        /\ \E o \in live : /\ p.arena = o.arena /\ p.region = o.region
                           /\ p.at = o.at /\ p.bytes = o.bytes
  BY <1>0, <1>1, <1>3, HandOn
<1>7. Typed'
  <2>1. live' \subseteq Objects
    BY <1>6
  <2> QED
    BY <2>1, <1>1, <1>3, PopFrame DEF Typed
<1>8. Chains'
  <2>1. Chain(<<>>, 0)
    BY EmptySeq DEF Chain
  <2> QED
    BY <2>1, <1>5 DEF Chains
<1>9. Scopes'
  <2>1. d \in Nat /\ d \in 1..Depth(t) /\ temp[t] = Under(t, d)
    BY <1>0, <1>1, FrameTypes DEF Scopes, StackOK
  <2>2. \A j \in 1..d : stack[t][j].arena = t
    BY <1>0, <1>4 DEF Scopes, StackOK, FrameOK
  <2>3. temp'[t] = Under(t, d - 1)
    BY <1>0, <2>1, <2>2, <1>1, <1>3 DEF Under
  <2>4. \A u \in Threads : StackOK(u)'
    BY <1>0, <2>3, <1>1, <1>3, <1>4, PopScope
  <2>5. \A i \in Slots : SlotOK(i)'
    BY <1>1, <1>3 DEF SlotOK
  <2> QED
    BY <2>4, <2>5 DEF Scopes
<1>10. Objs' /\ Apart'
  <2>1. \A p, q \in HandedOn(t, d) : p # q => ~Overlap(p, q)
    BY <1>0, <1>1, <1>3, HandOn
  <2>2. Apart'
    BY <2>1, <1>3 DEF Apart, Overlap
  <2>3. Objs'
    BY <1>5, <1>6 DEF Objs, ObjectOK, Objects
  <2> QED
    BY <2>2, <2>3
<1>11. Marks'
  <2> SUFFICES ASSUME NEW u \in Threads, NEW k \in 1..Depth(u)' PROVE MarkOK(u, k)'
    BY DEF Marks
  <2>1. k \in 1..Depth(u) /\ stack'[u][k] = stack[u][k]
    BY <1>1, <1>3, PopRest
  <2>2. MarkOK(u, k) /\ stack[u][k].arena \in Arenas \ Slots
    BY <2>1, <1>4 DEF Marks
  <2>3. \A p \in live' : stack[u][k].kind = "window" /\ p.arena = stack[u][k].arena /\ p.depth < k
                           => Below(p, stack[u][k])
    BY <1>0, <1>1, <1>3, HandOn
  <2> QED
    BY <2>1, <2>2, <2>3, <1>5 DEF MarkOK
<1>12. Nests'
  BY <1>1, <1>3, PopNests
<1>13. Plans'
  BY <1>3 DEF Plans
<1> QED
  BY <1>7, <1>8, <1>9, <1>10, <1>11, <1>12, <1>13

-----------------------------------------------------------------------------
(* The theorems *)

\* The invariant is inductive.
LEMMA StepInv ==
  ASSUME IInv, [Next]_vars
  PROVE  IInv'
<1>1. CASE UNCHANGED vars
  <2>1. /\ regions' = regions /\ end' = end /\ temp' = temp /\ slotArena' = slotArena
        /\ stack' = stack /\ claim' = claim /\ live' = live /\ plan' = plan
    BY <1>1 DEF vars
  <2>2. Typed' /\ Chains' /\ Objs' /\ Apart'
    BY <2>1 DEF IInv, Typed, Chains, Objs, ObjectOK, Apart
  <2>3. Scopes'
    BY <2>1 DEF IInv, Scopes, StackOK, SlotOK, FrameOK, Under, Depth
  <2>4. Marks' /\ Nests' /\ Plans'
    BY <2>1 DEF IInv, Marks, MarkOK, Nests, NestOK, Plans, PlanOK, Depth
  <2> QED
    BY <2>2, <2>3, <2>4 DEF IInv
<1>2. ASSUME NEW t \in Threads, Step(t) PROVE IInv'
  BY <1>2, AllocInv, SaveInv, RestoreInv, LeaveInv, ResetInv, OpenSlotsInv, ClaimSeedInv,
     PlannedInv, CloseSlotsInv DEF Step
<1> QED
  BY <1>1, <1>2 DEF Next

THEOREM Inductive == Spec => []IInv
BY InitInv, StepInv, PTL DEF Spec

\* arena.cpp:241 and the chains: whatever the threads do, a region never holds more
\* than its room, end is NULL just when there is no region, and nothing lies behind it.
THEOREM TypeCorrect == Spec => []TypeOK
<1>1. IInv => TypeOK
  BY DEF IInv, Typed, Chains, Chain, Region, TypeOK, RegionsBehindEndEmpty
<1> QED
  BY <1>1, Inductive, PTL

\* arena_alloc never hands out memory that is in use: live objects do not overlap, and
\* each lies below the count of its region.
THEOREM Disjoint == Spec => []LiveDisjoint
<1>1. IInv => LiveDisjoint
  BY DEF IInv, Objs, ObjectOK, Apart, LiveDisjoint
<1> QED
  BY <1>1, Inductive, PTL

\* A plan that a helper thread has made is still there when the caller of
\* parallel_for uses it, whatever the helper has rewound or reset since.
THEOREM PlansKept == Spec => []PlansSurvive
<1>1. IInv => PlansSurvive
  BY DEF IInv, Plans, PlanOK, PlansSurvive
<1> QED
  BY <1>1, Inductive, PTL
=============================================================================
