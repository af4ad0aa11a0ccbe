----------------------------- MODULE FirPipeline -----------------------------
(***************************************************************************)
(* The FIR pipeline (optim/fir_pipeline.cpp): how passes are merged into   *)
(* batches, the function pass jobs and the module passes that run them,    *)
(* the analyses cached on each function (AnalysisManager) and the bits     *)
(* that let a pass be skipped where it is known to do nothing              *)
(* (CleanTracker).                                                         *)
(*                                                                         *)
(* The IR is reduced to version numbers of what can be read: the           *)
(* instructions and the blocks of each function, its interface, the        *)
(* globals.  A cached analysis and a clean bit carry, as a ghost, the      *)
(* versions they were computed from, so "stale" can be said.               *)
(***************************************************************************)
EXTENDS Integers, Sequences, FiniteSets

CONSTANTS
  Funcs,            \* the functions with a body
  Callees,          \* the functions each function calls
  GlobalUsers,      \* the functions that use the global
  Pipeline,         \* passes_worklist, a sequence of passes
  FuncPasses,       \* the passes of type FIR_Function, the others are FIR_Module
  Interprocedural,  \* those with InterproceduralRead, which read the bodies they call
  Unskippable,      \* those with can_skip_when_clean() false
  Requests,         \* the analyses passes ask for
  Bisects,          \* the values debug.bisect can have, -1 if off
  NoSkipClean,      \* debug.no_skip_clean
  MaxEdits,         \* bound: changes made by all passes together
  NoSnap            \* no analysis cached, clean bit not set

Kinds  == {"CFG", "Dominators", "Constraints", "MemAccesses", "Provenance", "MemorySSA"}
Memory == {"MemAccesses", "Provenance", "MemorySSA"}
NPasses == Len(Pipeline)
Passes  == {Pipeline[i] : i \in 1..NPasses}

ASSUME PassAssumption == Interprocedural \cup Unskippable \subseteq FuncPasses /\ Requests \subseteq Kinds
ASSUME CallAssumption == Callees \in [Funcs -> SUBSET Funcs] /\ GlobalUsers \subseteq Funcs

VARIABLES
  bisect,   \* debug.bisect, read once
  body,     \* version of each function's instructions, blocks included
  shape,    \* version of each function's blocks and edges
  iface,    \* version of each function's attributes and signature
  glob,     \* version of the global's constness and initializer
  edits,    \* changes made so far
  cache,    \* Function::analysis_cache: what each analysis was built from
  clean,    \* Function::clean_passes: what each pass read when it changed nothing
  curr,     \* curr_pass of optimize_fir
  batch,    \* dyn_passes of the pass manager that runs, as indices of Pipeline
  mode,     \* "pick", "func", or "between" or "inside" module passes
  job,      \* how many passes of the batch each function's job has done
  changed,  \* any_changed, or in a module pass: something was reported
  reports   \* the module pass reports what it changes and returns all()

ir   == <<body, shape, iface, glob, edits>>
ctl  == <<curr, batch, mode, changed, reports>>
vars == <<bisect, ir, cache, clean, ctl, job>>

Callers(g) == {f \in Funcs : g \in Callees[f]}

\* What an analysis of f is computed from.
Built(f, k) ==
  IF k \in {"CFG", "Dominators"} THEN [shape |-> shape[f]]
  ELSE IF k = "Constraints" THEN [body |-> body[f]]
  ELSE [body |-> body[f], ifaces |-> [g \in Callees[f] \cup {f} |-> iface[g]],
        glob |-> IF f \in GlobalUsers THEN glob ELSE 0]

\* What function pass p reads of the program when it runs on f.
Reads(f, p) ==
  [own |-> Built(f, "MemAccesses"),
   others |-> [g \in IF p \in Interprocedural THEN Callees[f] \ {f} ELSE {} |-> body[g]]]

NoCache == [k \in Kinds |-> NoSnap]
NoBits  == [p \in Passes |-> NoSnap]

Init ==
  /\ bisect \in Bisects
  /\ body = [f \in Funcs |-> 0] /\ shape = [f \in Funcs |-> 0]
  /\ iface = [f \in Funcs |-> 0] /\ glob = 0 /\ edits = 0
  /\ cache = [f \in Funcs |-> NoCache]
  /\ clean = [f \in Funcs |-> NoBits]
  /\ curr = 0 /\ batch = <<>> /\ mode = "pick"
  /\ job = [f \in Funcs |-> 0]
  /\ changed = FALSE /\ reports = FALSE

-----------------------------------------------------------------------------
(* optimize_fir: passes of one type in a row form a batch, except in a bisect. *)

EnableBisect == bisect >= 0
NActualRun   == IF EnableBisect /\ bisect < NPasses THEN bisect ELSE NPasses
Skipping     == ~EnableBisect /\ ~NoSkipClean
Type(i)      == Pipeline[i + 1] \in FuncPasses    \* curr_pass counts from 0

\* A bisect to N runs the passes 0 to N and names the others.
BisectSkip ==
  /\ mode = "pick" /\ curr < NPasses /\ EnableBisect /\ curr > NActualRun
  /\ curr' = curr + 1
  /\ UNCHANGED <<bisect, ir, cache, clean, batch, mode, job, changed, reports>>

\* j is the last pass of the batch that starts with pass i.
BatchEnd(i, j) ==
  /\ j \in i..(NPasses - 1)
  /\ IF EnableBisect THEN j = i
     ELSE /\ \A k \in i..j : Type(k) = Type(i)
          /\ j + 1 < NActualRun => Type(j + 1) # Type(i)

PickBatch ==
  /\ mode = "pick" /\ curr < NPasses /\ (EnableBisect => curr <= NActualRun)
  /\ \E j \in curr..(NPasses - 1) :
       /\ BatchEnd(curr, j)
       /\ batch' = [n \in 1..(j - curr + 1) |-> curr + n - 1]
       /\ curr' = j + 1
  /\ mode' = IF Type(curr) THEN "func" ELSE "between"
  /\ job' = [f \in Funcs |-> 0]
  /\ changed' = FALSE
  /\ UNCHANGED <<bisect, ir, cache, clean, reports>>

-----------------------------------------------------------------------------
(* AnalysisManager: ask for an analysis, drop what a pass did not preserve. *)

Needs(k) == CASE k = "CFG" -> {"CFG"}
              [] k = "Dominators" -> {"CFG", "Dominators"}
              [] k = "Constraints" -> {"CFG", "Dominators", "Constraints"}
              [] k = "MemorySSA" -> {"CFG", "Dominators", "MemAccesses", "MemorySSA"}
              [] OTHER -> {k}

\* The cache of f after a request for the analyses R, each with what it needs.
Asked(f, R) ==
  [k \in Kinds |-> IF cache[f][k] = NoSnap /\ \E r \in R : k \in Needs(r)
                     THEN Built(f, k) ELSE cache[f][k]]

Keeps(mask, k) ==
  /\ k \in mask
  /\ k \in {"Dominators", "Constraints", "MemorySSA"} => "CFG" \in mask
  /\ k = "MemorySSA" => "MemAccesses" \in mask

Invalidated(c, mask) == [k \in Kinds |-> IF Keeps(mask, k) THEN c[k] ELSE NoSnap]

CfgOnly == {"CFG", "Dominators"}

\* Drop the cached analyses of the functions F that read attributes.
DropMemory(c, F) == [f \in Funcs |-> IF f \in F THEN [k \in Kinds |-> IF k \in Memory THEN NoSnap ELSE c[f][k]] ELSE c[f]]
DropCache(c, F)  == [f \in Funcs |-> IF f \in F THEN NoCache ELSE c[f]]
DropBits(b, F)   == [f \in Funcs |-> IF f \in F THEN NoBits ELSE b[f]]

\* mark_dirty_interprocedural: some function changed.
DirtyInterprocedural(b) ==
  [f \in Funcs |-> [p \in Passes |-> IF p \in Interprocedural THEN NoSnap ELSE b[f][p]]]

-----------------------------------------------------------------------------
(* ParallelFunctionPassManager: a job per function runs the batch on it. *)

Running(f) == mode = "func" /\ job[f] < Len(batch)
Pass(f)    == Pipeline[batch[job[f] + 1] + 1]
IsClean(f) == Pass(f) \notin Unskippable /\ clean[f][Pass(f)] # NoSnap
Step(f)    == job' = [job EXCEPT ![f] = @ + 1]

SkipPass(f) ==
  /\ Running(f) /\ IsClean(f) /\ Skipping
  /\ Step(f)
  /\ UNCHANGED <<bisect, ir, cache, clean, ctl>>

\* The pass changes f, its instructions alone (cfg_only) or its blocks too (none).
PassChanges(f, R, blocks) ==
  /\ Running(f) /\ ~(IsClean(f) /\ Skipping) /\ edits < MaxEdits
  /\ body' = [body EXCEPT ![f] = @ + 1]
  /\ shape' = IF blocks THEN [shape EXCEPT ![f] = @ + 1] ELSE shape
  /\ edits' = edits + 1
  /\ cache' = [cache EXCEPT ![f] = Invalidated(Asked(f, R), IF blocks THEN {} ELSE CfgOnly)]
  /\ clean' = DropBits(clean, {f})
  /\ changed' = TRUE /\ Step(f)
  /\ UNCHANGED <<bisect, iface, glob, curr, batch, mode, reports>>

\* The pass changes nothing and says so (all): the bit of the pass is set.
PassKeeps(f, R) ==
  /\ Running(f) /\ ~(IsClean(f) /\ Skipping)
  /\ cache' = [cache EXCEPT ![f] = Invalidated(Asked(f, R), Kinds)]
  /\ clean' = IF Pass(f) \in Unskippable THEN clean
              ELSE [clean EXCEPT ![f][Pass(f)] = Reads(f, Pass(f))]
  /\ Step(f)
  /\ UNCHANGED <<bisect, ir, ctl>>

\* wait_till_done, then drop what depended on other functions.
EndFuncBatch ==
  /\ mode = "func" /\ \A f \in Funcs : job[f] = Len(batch)
  /\ clean' = IF changed THEN DirtyInterprocedural(clean) ELSE clean
  /\ mode' = "pick"
  /\ UNCHANGED <<bisect, ir, cache, curr, batch, job, changed, reports>>

-----------------------------------------------------------------------------
(* ModulePassManager: a module pass changes anything, and reports it or not. *)

BeginModulePass ==
  /\ mode = "between" /\ \E f \in Funcs : job[f] < Len(batch)
  /\ mode' = "inside" /\ changed' = FALSE
  /\ reports' \in BOOLEAN
  /\ UNCHANGED <<bisect, ir, cache, clean, curr, batch, job>>

\* The pass changes the bodies F, the interfaces I and, if g, the global.
Edit(F, I, g) ==
  /\ mode = "inside" /\ edits < MaxEdits
  /\ body' = [f \in Funcs |-> IF f \in F THEN body[f] + 1 ELSE body[f]]
  /\ shape' = [f \in Funcs |-> IF f \in F THEN shape[f] + 1 ELSE shape[f]]
  /\ iface' = [f \in Funcs |-> IF f \in I THEN iface[f] + 1 ELSE iface[f]]
  /\ glob' = IF g THEN glob + 1 ELSE glob
  /\ edits' = edits + 1
  /\ UNCHANGED <<bisect, job, curr, batch, mode, reports>>

\* A pass that does not return all() edits without a report.
EditUnreported(f) ==
  /\ ~reports
  /\ Edit({f}, {f}, TRUE)
  /\ UNCHANGED <<bisect, cache, clean, changed>>

TouchBody(f) ==
  /\ reports
  /\ Edit({f}, {}, FALSE)
  /\ cache' = DropCache(cache, {f}) /\ clean' = DropBits(clean, {f})
  /\ changed' = TRUE

\* Mutant: the bits of the callers survive.
TouchInterfaceAlone(g) ==
  /\ reports
  /\ Edit({}, {g}, FALSE)
  /\ cache' = DropMemory(cache, {g} \cup Callers(g)) /\ clean' = DropBits(clean, {g})
  /\ changed' = TRUE

TouchInterface(g) ==
  /\ reports
  /\ Edit({}, {g}, FALSE)
  /\ cache' = DropMemory(cache, {g} \cup Callers(g)) /\ clean' = DropBits(clean, {g} \cup Callers(g))
  /\ changed' = TRUE

\* Mutant: only the clean bits of the users are dropped.
TouchGlobalBits ==
  /\ reports
  /\ Edit({}, {}, TRUE)
  /\ clean' = DropBits(clean, GlobalUsers)
  /\ UNCHANGED <<bisect, cache, changed>>

\* Nothing is recorded as reported.
TouchGlobal ==
  /\ reports
  /\ Edit({}, {}, TRUE)
  /\ cache' = DropMemory(cache, GlobalUsers) /\ clean' = DropBits(clean, GlobalUsers)
  /\ UNCHANGED changed

TouchCallers(f) ==
  /\ reports /\ Callers(f) # {}
  /\ Edit(Callers(f), {}, FALSE)
  /\ cache' = DropCache(cache, Callers(f)) /\ clean' = DropBits(clean, Callers(f))
  /\ changed' = TRUE

TouchSignature(f) ==
  /\ reports
  /\ Edit({f} \cup Callers(f), {f}, FALSE)
  /\ cache' = DropCache(cache, {f} \cup Callers(f)) /\ clean' = DropBits(clean, {f} \cup Callers(f))
  /\ changed' = TRUE

\* A reporting module pass asks for an analysis.
ModuleAsks(f, k) ==
  /\ mode = "inside" /\ reports
  /\ cache' = [cache EXCEPT ![f] = Asked(f, {k})]
  /\ UNCHANGED <<bisect, ir, clean, ctl, job>>

EndModulePass ==
  /\ mode = "inside"
  /\ IF reports
       THEN /\ clean' = IF changed THEN DirtyInterprocedural(clean) ELSE clean
            /\ UNCHANGED cache
       ELSE cache' = DropCache(cache, Funcs) /\ clean' = DropBits(clean, Funcs)
  /\ job' = [f \in Funcs |-> job[f] + 1]
  /\ mode' = "between"
  /\ UNCHANGED <<bisect, ir, curr, batch, changed, reports>>

EndModuleBatch ==
  /\ mode = "between" /\ \A f \in Funcs : job[f] = Len(batch)
  /\ mode' = "pick" /\ reports' = FALSE
  /\ UNCHANGED <<bisect, ir, cache, clean, curr, batch, job, changed>>

Finished == mode = "pick" /\ curr = NPasses /\ UNCHANGED vars

AskSets == {{}} \cup {{k} : k \in Requests}

Next ==
  \/ BisectSkip \/ PickBatch \/ EndFuncBatch
  \/ \E f \in Funcs : \/ SkipPass(f)
                      \/ \E R \in AskSets : \/ PassKeeps(f, R)
                                            \/ \E blocks \in BOOLEAN : PassChanges(f, R, blocks)
  \/ BeginModulePass \/ EndModulePass \/ EndModuleBatch
  \/ \E f \in Funcs : \/ EditUnreported(f) \/ TouchBody(f) \/ TouchInterface(f)
                      \/ TouchCallers(f) \/ TouchSignature(f)
                      \/ \E k \in Requests : ModuleAsks(f, k)
  \/ TouchGlobal
  \/ Finished

Spec == Init /\ [][Next]_vars

-----------------------------------------------------------------------------
(* Properties *)

\* A cached analysis is what building it afresh would give, whenever a function pass
\* or a reporting module pass asks for it.
CacheIsFresh ==
  (mode = "inside" => reports) =>
    \A f \in Funcs, k \in Kinds : cache[f][k] # NoSnap => cache[f][k] = Built(f, k)

\* pass_skipping.hpp: a clean bit means that the pass would again change nothing.
\* For a pass that reads only its function, that function's callees' interfaces and
\* the global, at every skip; for one that reads other bodies, whose bits are dropped
\* at the end of a batch, at the start of every batch.
CleanMeansNoOp ==
  \A f \in Funcs, p \in Passes :
    /\ (mode = "inside" => reports)
    /\ clean[f][p] # NoSnap
    /\ p \in Interprocedural => mode \in {"pick", "between"}
    => clean[f][p] = Reads(f, p)
=============================================================================
