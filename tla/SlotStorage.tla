----------------------------- MODULE SlotStorage -----------------------------
(***************************************************************************)
(* What utils/stable_vec.hpp promises, without its free list, slabs and    *)
(* generations: an object inserted gets a slot of its own and keeps it,    *)
(* whatever else happens, until it was removed and then collected.         *)
(***************************************************************************)
CONSTANTS Slots, Objs, None

VARIABLES
  owner,   \* the object in each slot, None if the slot is free
  alive,   \* the storage was not destructed
  phase    \* "new", "live", "removed" or "collected", per object

Init ==
  /\ owner = [s \in Slots |-> None]
  /\ phase = [o \in Objs |-> "new"]
  /\ alive = TRUE

Insert(o, s) ==
  /\ alive /\ phase[o] = "new" /\ owner[s] = None
  /\ owner' = [owner EXCEPT ![s] = o]
  /\ phase' = [phase EXCEPT ![o] = "live"]
  /\ UNCHANGED alive

Remove(o) ==
  /\ alive /\ phase[o] = "live"
  /\ phase' = [phase EXCEPT ![o] = "removed"]
  /\ UNCHANGED <<owner, alive>>

Collect(s) ==
  /\ alive /\ owner[s] # None /\ phase[owner[s]] = "removed"
  /\ phase' = [phase EXCEPT ![owner[s]] = "collected"]
  /\ owner' = [owner EXCEPT ![s] = None]
  /\ UNCHANGED alive

\* Every object still stored goes with the storage.
Destruct ==
  /\ alive /\ alive' = FALSE
  /\ owner' = [s \in Slots |-> None]
  /\ UNCHANGED phase

Next ==
  \/ \E o \in Objs, s \in Slots : Insert(o, s)
  \/ \E o \in Objs : Remove(o)
  \/ \E s \in Slots : Collect(s)
  \/ Destruct

Spec == Init /\ [][Next]_<<owner, alive, phase>>
=============================================================================
