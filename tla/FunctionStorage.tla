--------------------------- MODULE FunctionStorage ---------------------------
(***************************************************************************)
(* The functions of a FIR module (ir/storage.hpp): a map from name to      *)
(* function and a vector of the functions in insertion order, which every  *)
(* pass iterates.  Module passes run alone, over a copy of the vector, and *)
(* insert, erase and rename.  A batch of function passes is one job per    *)
(* function; the vectorizer, one of those passes, asks for a vector        *)
(* version of a callee and creates it when the module has none, without a  *)
(* lock around the check and the insertion.                                *)
(*                                                                         *)
(* A name is the sequence of the suffixes it was built with, each a tag    *)
(* and a number.  A function object may be reused once it is erased, as    *)
(* the heap does.                                                          *)
(***************************************************************************)
EXTENDS Naturals, Sequences, FiniteSets, SequencesExt

CONSTANTS
  Objects,     \* the function objects the heap can hold
  Start,       \* the names of the loaded module, in order
  Workers,     \* the worker threads; empty is --threads 0
  Main,        \* the thread that runs the pipeline
  MaxPasses,   \* bound on the passes and batches run
  MaxSuffixes  \* bound on the suffixes of a name

\* What the loader guarantees: the functions of a module have different names.
ASSUME StartAssumption == Start \in Seq(Range(Start)) /\ IsInjective(Start)

Runners == Workers \cup {Main}
Tags == {"wfvec", "MODIPCP", ".rest", "_MERGED_"}
ModulePasses == {"GDCE", "IPCP", "PartialInlineSplit", "FunctionDedup"}
Idle == [at |-> "idle"]

VARIABLES
  map,      \* FunctionStorage::map
  order,    \* FunctionStorage::order
  name,     \* Function::name of every object
  pass,     \* the pass or batch that runs
  todo,     \* what its loop over the functions has left
  due,      \* the functions it found and has not handed to its body
  jobs,     \* the jobs no thread has taken
  vec,      \* where each thread is in whole_function_vectorize
  unique,   \* ipcp_unique_name_number
  ran,      \* passes and batches begun, bounded by MaxPasses
  failed    \* an assertion of the storage has failed

vars == <<map, order, name, pass, todo, due, jobs, vec, unique, ran, failed>>

Stored == Range(order)
Unborn == Objects \ (Range(map) \cup Stored)
Suffixed(n, tag, k) == Append(n, <<tag, k>>)
Short(n) == Len(n) < MaxSuffixes

Init ==
  \E f \in [1 .. Len(Start) -> Objects] :
    /\ IsInjective(f)
    /\ order = f
    /\ map = [n \in Range(Start) |-> f[CHOOSE i \in DOMAIN Start : Start[i] = n]]
    /\ name = [o \in Objects |-> IF o \in Range(f)
                                 THEN Start[CHOOSE i \in DOMAIN f : f[i] = o]
                                 ELSE <<>>]
    /\ pass = "none" /\ todo = <<>> /\ due = {} /\ jobs = {}
    /\ vec = [t \in Runners |-> Idle]
    /\ unique = 0 /\ ran = 0 /\ failed = FALSE

----------------------------------------------------------------------------
(* The helpers that keep the map and the vector in sync. *)

\* Nothing is stored when the name is taken: the assertion stops the program.
Insert(n, f) ==
  IF n \in DOMAIN map
  THEN failed' = TRUE /\ UNCHANGED <<map, order, name>>
  ELSE /\ order' = Append(order, f)
       /\ map' = [m \in DOMAIN map \cup {n} |-> IF m = n THEN f ELSE map[m]]
       /\ name' = [name EXCEPT ![f] = n]
       /\ failed' = failed

\* Mutant: the vector keeps the function.
EraseMapOnly(n) ==
  IF n \in DOMAIN map
  THEN map' = [m \in DOMAIN map \ {n} |-> map[m]]
       /\ UNCHANGED <<order, name, failed>>
  ELSE UNCHANGED <<map, order, name, failed>>

\* insert puts a function into the vector once, so std::erase finds one to drop.
Erase(n) ==
  IF n \in DOMAIN map
  THEN /\ order' = RemoveFirst(order, map[n])
       /\ map' = [m \in DOMAIN map \ {n} |-> map[m]]
       /\ UNCHANGED <<name, failed>>
  ELSE UNCHANGED <<map, order, name, failed>>

\* Rename moves the map's entry; the vector keeps the position.
Rename(old, new) ==
  IF old \notin DOMAIN map \/ new \in DOMAIN map
  THEN failed' = TRUE /\ UNCHANGED <<map, order, name>>
  ELSE /\ map' = [m \in (DOMAIN map \ {old}) \cup {new} |->
                    IF m = new THEN map[old] ELSE map[m]]
       /\ name' = [name EXCEPT ![map[old]] = new]
       /\ UNCHANGED <<order, failed>>

\* "f.rest", or the first of "f.rest.1", "f.rest.2", ... that is free.
UniqueName(base) ==
  LET free == {k \in 0 .. Cardinality(DOMAIN map) :
                 Suffixed(base, ".rest", k) \notin DOMAIN map}
  IN Suffixed(base, ".rest", CHOOSE k \in free : \A j \in free : k <= j)

----------------------------------------------------------------------------
(* Module passes: the main thread, over a copy of the vector. *)

OtherIdle == jobs = {} /\ \A t \in Runners : vec[t] = Idle

BeginModulePass(p) ==
  /\ ~failed /\ pass = "none" /\ OtherIdle /\ ran < MaxPasses
  /\ pass' = p /\ todo' = order /\ due' = Stored /\ ran' = ran + 1
  /\ UNCHANGED <<map, order, name, jobs, vec, unique, failed>>

Visit(p) ==
  /\ ~failed /\ pass = p /\ todo # <<>>
  /\ todo' = Tail(todo)
  /\ due' = due \ {Head(todo)}
  /\ UNCHANGED <<pass, jobs, vec, ran>>

\* The function has uses, or nothing to propagate, split or merge.
LeaveAlone ==
  \E p \in ModulePasses :
    Visit(p) /\ UNCHANGED <<map, order, name, unique, failed>>

\* Mutant: the loop reads the vector that it erases from.
EraseUnusedNoCopy ==
  /\ pass = "GDCE" /\ todo # <<>>
  /\ Erase(name[Head(todo)])
  /\ todo' = IF Len(todo) = 1 THEN <<>> ELSE Tail(Tail(todo))
  /\ due' = due \ {Head(todo)}
  /\ UNCHANGED <<pass, jobs, vec, ran, unique>>

\* Mutant: some other function is erased in its place.
EraseUnusedAndCallee ==
  /\ Visit("GDCE")
  /\ \E g \in Stored : Erase(name[g])
  /\ UNCHANGED unique

EraseUnused ==
  /\ Visit("GDCE")
  /\ Erase(name[Head(todo)])
  /\ UNCHANGED unique

\* A changed LinkOnceODR function becomes one of this module's own.
RenameChanged ==
  LET old == name[Head(todo)] IN
  /\ Visit("IPCP") /\ Short(old)
  /\ unique' = unique + 1
  /\ Rename(old, Suffixed(old, "MODIPCP", unique'))

SplitRest ==
  LET base == name[Head(todo)] IN
  /\ Visit("PartialInlineSplit") /\ Short(base)
  /\ \E f \in Unborn : Insert(UniqueName(base), f)
  /\ UNCHANGED unique

\* merge_functions gives up when the merged name is taken.
MergeGroup ==
  LET new == Suffixed(name[Head(todo)], "_MERGED_", 0) IN
  /\ Visit("FunctionDedup") /\ Short(name[Head(todo)])
  /\ IF new \in DOMAIN map
     THEN UNCHANGED <<map, order, name, failed>>
     ELSE \E f \in Unborn : Insert(new, f)
  /\ UNCHANGED unique

EndModulePass ==
  /\ ~failed /\ pass \in ModulePasses /\ todo = <<>>
  /\ pass' = "none"
  /\ UNCHANGED <<map, order, name, todo, due, jobs, vec, unique, ran, failed>>

----------------------------------------------------------------------------
(* A batch of function passes: one job per function. *)

BeginBatch ==
  /\ ~failed /\ pass = "none" /\ OtherIdle /\ ran < MaxPasses
  /\ pass' = "jobs" /\ todo' = order /\ due' = Stored /\ ran' = ran + 1
  /\ UNCHANGED <<map, order, name, jobs, vec, unique, failed>>

\* The range for holds the vector's begin and end from before the first job.
PushJob ==
  /\ ~failed /\ pass = "jobs" /\ todo # <<>>
  /\ jobs' = jobs \cup {Head(todo)}
  /\ todo' = Tail(todo)
  /\ UNCHANGED <<map, order, name, pass, due, vec, unique, ran, failed>>

\* Main runs jobs once it waits for the batch.  The job may bundle calls to
\* a callee; a vectorized function is not vectorized again.
TakeJob(t) ==
  /\ ~failed /\ pass = "jobs" /\ vec[t] = Idle
  /\ t = Main => todo = <<>>
  /\ \E f \in jobs :
       /\ jobs' = jobs \ {f}
       /\ due' = due \ {f}
       /\ \/ UNCHANGED vec
          \/ \E g \in Stored :
               /\ Short(name[g])
               /\ Last(name[g])[1] # "wfvec"
               /\ vec' = [vec EXCEPT ![t] = [at |-> "lookup", callee |-> g]]
  /\ UNCHANGED <<map, order, name, pass, todo, unique, ran, failed>>

WfName(t) == Suffixed(name[vec[t].callee], "wfvec", 4)

VecLookup(t) ==
  /\ ~failed /\ vec[t].at = "lookup"
  /\ vec' = [vec EXCEPT ![t] =
               IF WfName(t) \in DOMAIN map THEN Idle ELSE [@ EXCEPT !.at = "create"]]
  /\ UNCHANGED <<map, order, name, pass, todo, due, jobs, unique, ran, failed>>

VecCreate(t) ==
  /\ ~failed /\ vec[t].at = "create"
  /\ \E f \in Unborn : Insert(WfName(t), f)
  /\ vec' = [vec EXCEPT ![t] = Idle]
  /\ UNCHANGED <<pass, todo, due, jobs, unique, ran>>

EndBatch ==
  /\ ~failed /\ pass = "jobs" /\ todo = <<>> /\ OtherIdle
  /\ pass' = "none"
  /\ UNCHANGED <<map, order, name, todo, due, jobs, vec, unique, ran, failed>>

\* The heap of the model is full, or the pipeline is over.
Finished ==
  /\ ran = MaxPasses /\ pass = "none"
  /\ UNCHANGED vars

OutOfObjects ==
  /\ \E t \in Runners : vec[t].at = "create"
  /\ Unborn = {}
  /\ UNCHANGED vars

Next ==
  \/ \E p \in ModulePasses : BeginModulePass(p)
  \/ LeaveAlone
  \/ EraseUnused
  \/ RenameChanged
  \/ SplitRest
  \/ MergeGroup
  \/ EndModulePass
  \/ BeginBatch
  \/ PushJob
  \/ \E t \in Runners : TakeJob(t) \/ VecLookup(t) \/ VecCreate(t)
  \/ EndBatch
  \/ Finished
  \/ OutOfObjects

Spec == Init /\ [][Next]_vars

----------------------------------------------------------------------------
(* Properties *)

\* The helpers keep both in sync: the vector holds each function of the map
\* once and nothing else, and a function is found under the name it carries.
InSync ==
  /\ IsInjective(order) /\ Range(map) = Stored
  /\ \A n \in DOMAIN map : name[map[n]] = n

\* What the assertions of insert and rename say: no pass asks for a name that
\* is taken, or renames a function that is not there.
NameIsFree == ~failed

\* A loop never reaches an erased function: what it has still to visit, the
\* jobs and the callees being vectorized are stored.
LoopsSeeLiveFunctions ==
  /\ Range(todo) \subseteq Stored
  /\ jobs \subseteq Stored
  /\ \A t \in Runners : vec[t] # Idle => vec[t].callee \in Stored

\* Between two passes no function was passed over: the last pass handed each
\* function it found to its body, whatever it inserted and erased meanwhile.
NoFunctionPassedOver ==
  pass = "none" => due = {}
=============================================================================
