------------------------------ MODULE Attributer ------------------------------
(***************************************************************************)
(* AttributerManager (optim/analysis/attributer/attributer.hpp): facts     *)
(* about values, created when someone asks for them and brought to a       *)
(* fixpoint by a worklist.  A pass asks and calls run; inside run an       *)
(* update may ask for more.  The order of the worklist is left open: it is *)
(* a set, its members those with the queued flag.                          *)
(*                                                                         *)
(* What an update does is the analysis' own: Reads, Update and Materialize *)
(* are parameters, and KnownBits is the one analysis there is.             *)
(***************************************************************************)
EXTENDS Naturals

CONSTANTS
  Codes,                   \* the functions a run starts with
  Values,                  \* what a fact can be about
  Asks(_),                 \* the values of a function a pass asks for
  Start(_, _),             \* init: what is known of a value before its first update
  Reads(_, _, _),          \* the values update_impl asks for, given the facts
  Update(_, _, _, _),      \* the fact update_impl leaves, from the old one and those asked for
  Materialize(_, _, _, _), \* the function after materialize_impl of some values
  Edits(_)                 \* what a pass may make of a function

VARIABLES
  code,          \* the function
  created,       \* the values in _attribs
  fact,          \* what is known of a value; of one not created, its Start
  deps,          \* _inverse_dependencies: <<v, u>> when an update of u asked for v
  forced,        \* _forced, the ones with the force_update flag
  queued,        \* the worklist, the ones with the queued flag
  toMaterialize, \* _to_materialize, the ones with the pending_materialize flag
  running        \* inside run

vars == <<code, created, fact, deps, forced, queued, toMaterialize, running>>

Nothing(c) ==
  /\ created' = {} /\ deps' = {} /\ forced' = {} /\ toMaterialize' = {}
  /\ fact' = [v \in Values |-> Start(c, v)]

Init ==
  /\ code \in Codes
  /\ created = {} /\ deps = {} /\ forced = {} /\ toMaterialize = {}
  /\ fact = [v \in Values |-> Start(code, v)]
  /\ queued = {} /\ running = FALSE

Result(c, v, f) == Update(c, v, f[v], [r \in Reads(c, v, f) |-> f[r]])

\* get_or_create_analysis, called by a pass.
Ask(v) ==
  /\ ~running /\ v \in Asks(code)
  /\ created' = created \cup {v}
  /\ toMaterialize' = IF v \in created THEN toMaterialize ELSE toMaterialize \cup {v}
  /\ forced' = forced \cup {v}
  /\ UNCHANGED <<code, fact, deps, queued, running>>

Run ==
  /\ ~running /\ forced # {}
  /\ running' = TRUE
  /\ queued' = forced /\ forced' = {}
  /\ UNCHANGED <<code, created, fact, deps, toMaterialize>>

\* Mutant of Dependents: an update that changed nothing puts them there too.
DependentsAlways(v, ds, changed) == {u \in Values : <<v, u>> \in ds} \cup {v}

\* Whom a change of v puts on the worklist.
Dependents(v, ds, changed) ==
  IF changed THEN {u \in Values : <<v, u>> \in ds} \cup {v} ELSE {}

\* Mutant of Asked: a dependency is recorded only where the fact is created.
AskedFirst(v, reads) == deps \cup {<<r, v>> : r \in reads \ created}

\* The dependencies after the update of v asked for reads.
Asked(v, reads) == deps \cup {<<r, v>> : r \in reads}

\* One round of the loop: an update asks for what it reads, creating what is new,
\* and a change puts the dependents and the value itself on the worklist.
Step(v) ==
  LET reads == Reads(code, v, fact)
      fresh == reads \ created
      new   == Result(code, v, fact)
  IN /\ running /\ v \in queued
     /\ created' = created \cup reads
     /\ deps' = Asked(v, reads)
     /\ toMaterialize' = toMaterialize \cup {v} \cup fresh
     /\ fact' = [fact EXCEPT ![v] = new]
     /\ queued' = (queued \ {v}) \cup fresh \cup Dependents(v, deps', new # fact[v])
     /\ UNCHANGED <<code, forced, running>>

\* The worklist is empty: materialize, and run is over.
EndRun ==
  /\ running /\ queued = {}
  /\ code' = Materialize(code, toMaterialize, created, fact)
  /\ toMaterialize' = {} /\ running' = FALSE
  /\ UNCHANGED <<created, fact, deps, forced, queued>>

\* The pass changes the function and resets the manager, as every user of it does.
Edit ==
  /\ ~running
  /\ code' \in Edits(code)
  /\ Nothing(code')
  /\ UNCHANGED <<queued, running>>

Next == (\E v \in Values : Ask(v)) \/ Run \/ (\E v \in Values : Step(v)) \/ EndRun \/ Edit

Spec     == Init /\ [][Next]_vars
FairSpec == Spec /\ WF_vars(\E v \in Values : Step(v)) /\ WF_vars(EndRun)

-----------------------------------------------------------------------------
(* Properties *)

\* What run leaves is a fixpoint: updating any value again, asked for by the pass or
\* by an update, would change nothing, however often its sources changed meanwhile.
\* During run the same holds of every value that is not queued.
AtFixpoint ==
  \A v \in created \ (queued \cup forced) : Result(code, v, fact) = fact[v]

\* run ends: facts only grow, so the worklist drains although loops make values
\* depend on themselves.
RunEnds == running ~> ~running
=============================================================================
