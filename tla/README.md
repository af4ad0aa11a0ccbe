# foptim in TLA+

foptim is an optimizing compiler: it loads LLVM bitcode into its own SSA form
(FIR), runs a configurable pipeline of FIR passes, lowers the result to machine
IR (MIR), allocates registers and writes x86-64 object files. This directory
specifies the parts of it whose correctness depends on the order in which
things happen: threads, jobs and passes that share state, tables that keep
references to storage that is reused, and algorithms with invariants that
span many steps. The modules are translated from the code under `src/`;
`PROJECT.json` names, for every definition, the lines it stands for.

## Inventory

| part | state it keeps | operations | talks to |
|---|---|---|---|
| job scheduler, `utils/job_system` | queue, `queued`, `pending`, `sleepers`, `work_epoch`, one `State` per `parallel_for` | `push`, `wait_till_done`, `wait_for`, `parallel_for`, worker loop, `init`, `deinit` | runs the jobs of the loader, the pass managers, the vectorizer and the backend |
| slot storage, `utils/stable_vec*` | slabs, free list of slot ranges, a word (generation and state) per slot | `push_back`, `remove`, `collect_garbage`, `~StableVec` | holds every instruction, block, type and constant of the IR |
| hash consing, `ir/intern_table.hpp` | 32 shards of hash to reference, a per-thread cache | `intern` | slot storage; called by every job that needs a type or constant |
| function table, `ir/storage.hpp` | map from name to function, vector in order | `insert`, `erase`, `rename`, iteration | every pass manager iterates it; five passes change it |
| operands and use lists, `ir/use`, `ir/instruction`, `ir/value` | the operands of an instruction, a list of uses per value | add, replace, remove an operand; replace all uses; destroy | every pass |
| FIR pipeline, `optim/fir_pipeline`, `optim/analysis/analysis_manager` | position in the pipeline, cached analyses and clean bits per function | batches, jobs per function, module passes, reports of change | the scheduler; every pass |
| register allocation, `mir/reg_alloc*` | cost graph, reduction stack, assignments | reductions, colouring, coalescing, spilling | MIR functions, in jobs |
| arena, `utils/arena` | a chain of regions and an end per arena, one arena per thread | alloc, snapshot, rewind, reset, free; the vectorizer swaps arenas between threads | every temporary container; passes save and restore, the pass managers reset |
| dominators, memory SSA, `optim/analysis` | a tree with frontiers; accesses with their defining state, a memo per query | `Dominators::update`, `MemorySSA::update`, `verify`, the clobber walker | the analysis cache; `mem2reg`, GVN, DSE and the loop passes ask them |
| `mem2reg` | a stack of values per promoted slot along the search | place block arguments, rename loads | the dominator tree, the use lists |
| attributer and known bits, `optim/analysis/attributer` | a fact per value, dependencies between facts, a worklist | `get_or_create_analysis`, `run`, `commit` | the simplifying passes and the backend ask for facts |
| integers, `utils/APInt`; folding, `optim/helper/inst_fold`; `mir/const_div` | none | wide arithmetic, folding of an instruction, code for a division by a constant | every pass with constants; the matcher |
| other FIR passes, vectorizer, interpreter | the IR | rewrite one function or the module | the pipeline |
| matcher and MIR passes, `mir/` | a MIR function: blocks of instructions over virtual registers, a register per value | match, legalize, dead code, copy propagation, lifetime shortening, block order, liveness | the register allocator reads the collisions |
| x86 encoder, ELF writer | bytes | encode and write | the backend jobs |
| loader, configuration, logging, statistics | none that outlives the call | input and output | main |

How they interact. `main` starts the scheduler, loads the module (one job per
function), runs the FIR pipeline, runs the MIR pipeline (one job per function)
and stops the scheduler. The FIR pipeline merges passes of one type that follow
each other into a batch. A batch of function passes is one job per function
that applies the whole batch to it; module passes run on the main thread with
no job running. Between batches the main thread collects garbage in the slot
storage. All jobs share the slot storage, the intern table and the function
table; a function's instructions, cached analyses and clean bits belong to the
job that runs on it.

What is hard there, and the property that makes each part correct:

- the scheduler: lost wakeups, counters read without the lock, a helper job
  that outlives the call it helps. It is correct if no job is lost, no wait
  returns early and each wait returns;
- slot storage: two `push_back`s that take ranges apart and give them back,
  references kept across a collection. Correct if every slot has one owner and
  a reference reaches its object or is known to be stale;
- hash consing: check and insertion by several threads, entries of freed slots
  in the middle of a chain. Correct if two live slots never hold one value;
- function table: iteration while functions come and go, names chosen before
  they are taken. Correct if map, vector and names agree and no pass visits a
  function that is gone;
- use lists: removing an operand moves the ones behind it. Correct if the list
  of a value is exactly the set of operands that name it;
- pipeline: analyses and clean bits that describe code that has changed since.
  Correct if what is cached is what would be computed now;
- arena: snapshots taken and rewound in nested scopes while regions are added,
  and objects of one thread that another uses. Correct if no memory is handed
  out while an object in it is in use;
- register allocation: a reduction removes nodes whose costs must survive in
  the neighbours or on the stack. Correct if no two interfering values share
  a register;
- dominators and memory SSA: fixpoints on graphs that need not be reducible, a
  memo whose entries hold only for the path they were found on. Correct if they
  say what the paths of the graph say;
- `mem2reg`: a block is searched once but entered on every edge. Correct if each
  promoted load is the value the slot held on every path;
- attributer: facts computed from facts that change. Correct if the run ends,
  the facts it leaves are a fixpoint, and no fact is wrong in any execution;
- lowering: the arguments of an edge are assigned at once in FIR and become moves
  one after the other, before a jump that other edges share, while values are
  fused into their users behind them. Correct if the MIR tests and returns what
  the function does, and registers that are needed at once collide;
- integers: estimates that are off by one for few operands in many. Correct
  if they agree with arithmetic.

`PROJECT.json` lists the single hazards with the line where each bites and the
properties that cover it.

## Modules

### JobSheduler (the core), JobShedulerProofs, MCJobSheduler

`JobSheduler.tla` has one action per atomic operation of `job_system.hpp`: each
load, `fetch_add`, critical section of the queue, futex wait and wake. The
scheduler's members are the variables `jobs`, `queued`, `pending`, `workEpoch`,
`sleepers`, `stopping`; `calls` holds the `State` block of each `parallel_for`,
with two facts added: whether the caller's frame still exists and how often
`fn` was called per index. A thread's `pc` is its next operation. A task is a
job main pushes; while it runs it may call `parallel_for`, which pushes helper
jobs on the same queue. Main pushes, waits for one task or for all, and ends
with `wait_till_done` and `deinit`, as `main.cpp` does. Spinning before the
sleep is one action that either finds the queue non-empty or goes to sleep;
the memory order is sequentially consistent.

### StableVec, SlotStorage, StableVecProofs, MCStableVec

`StableVec.tla` models `push_back` in its critical sections and stores, so that
several threads interleave inside it, `SRef::_invalidate`, `collect_garbage`
slot by slot, and the destructor. Collection and destruction start when no
`push_back` runs, as in the pass managers, which collect after
`wait_till_done`. `genTracked` is the build option `SLOT_CHECK_LEVEL >= 2`: with
it, an assertion stops the removal through a stale reference; without it
callers must not do it, which is a guard of `Remove`. `SlotStorage.tla` is what
the vector promises: an object gets a slot of its own and keeps it until it was
removed and collected. That a new slab is zeroed before it is linked is one step
here (`stable_vec.hpp:215`), not two whose order is checked. `ImplementsStorage` is the refinement: a slot that is
used or freed belongs to the object in it, everything else is internal.

### Arena, ArenaProofs, MCArena

`Arena.tla` has the chain of regions of every arena (`regions`, and `end` as an
index, 0 for NULL) with `arena_alloc`, `arena_snapshot`, `arena_rewind` and
`arena_reset`, in words of 8 bytes with the alignment to 16 that `arena_alloc`
reserves room for. `stack` holds the scopes each thread is in. A scope that
saved may restore, or end without (`Leave`: a plan that failed, whose objects
stay until the scope around it restores), or end with the reset that a worker
makes after a function pass. `temp` and `slotArena` are what `vectorize_loops`
swaps: each seed is planned by the caller or an idle thread in an arena of the
seed, and the plans are used until `~SlotArenas` frees these arenas; what the
scope took of the thread's own arena stays, as with `Leave`. The model has one
`vectorize_loops` at a time, and `Reset` ends the outermost scope of a thread, so
nothing it allocated is in use after it.

### InternTable, InternTableProofs, MCInternTable

`intern` in its steps: the cached entry, the shard lock, the walk along the
chain, the insertion in place of the first stale entry or at the end. The
storage is reduced to what StableVec guarantees without generations, which is
the default build: a freed slot may hold any other value after the next
collection while table and caches still refer to it. Only values that are
freed while a thread holds a reference to them are excluded, by the callers'
use of references.

### FirPipeline, FirPipelineProofs, MCFirPipeline

`optimize_fir` with its batches, `ParallelFunctionPassManager` (a job per
function, interleaved pass by pass), `ModulePassManager`, `AnalysisManager` and
`CleanTracker`. The IR is reduced to version numbers of what can be read:
instructions, blocks and edges, the interface of each function, the globals. A
cached analysis and a clean bit hold the versions they were computed from, so
being stale can be said. A pass is any change of its kind with the report the
code requires of it: this module checks the bookkeeping, not that each pass
reports what it does.

### FunctionStorage, IrTablesProofs, MCFunctionStorage, MCIrTables

The map and the vector of functions with the passes that change them while
they iterate: GlobalDCE erases, IPCP renames, PartialInlineSplit inserts,
FunctionDedup merges, and the vectorizer, inside function pass jobs, looks a
function up and creates it. A name is the sequence of suffixes it was built
with, since whether two names clash is decided by nothing else.
`MCIrTables` checks this table without workers and the use lists in one run, an
initial state being about one of the two; `MCFunctionStorage` has workers.

### UseLists, IrTablesProofs, MCIrTables

Every operation of `Instr` on its operands (plain operands, blocks, block
arguments), `ValueR::replace_all_uses` and `replace_uses_outside_block`,
`BasicBlockData::remove_instr` and `remove_arg`, `Instr::destroy` and
`ContextData::copy`. Each is one action, because a function is edited by one
thread; inside it the records are changed one at a time in the code's order,
so a record that is missing when it should be removed is seen. A loop of the code
is the sequence of the records it changes (`Drops`, `Moves`, `Adds`), taken at the
start, and the fold that changes them (`Relist`): the loops change no operand
while they run, so the value at each position is the same when its turn comes.

### RegAllocSolver, RegAllocSolverProofs, MCRegAllocSolver

The PBQP solver: reductions of degree one and two, the spill heuristic, the
colouring in reverse order, and the coalescing of copies. A cost matrix is a
function on pairs of registers; register 0 is the stack. `neigh` holds the lists of
neighbours in their order, `activePos` where a node is in `active`, and a record on
`stack` the edges its node had when it was taken out. Costs are integers
where the code has floating point numbers, so the result of an addition does
not depend on its order here.

### FlowGraph, Dominators, MemorySSA, Mem2Reg, MCFlow

A graph is the sequence of its blocks, each the sequence of its targets; what
dominance and frontiers mean is defined in `FlowGraph` over paths. `Dominators`
has `update` in steps, one per block of a pass over the reverse post order, so
that the loop that repeats until nothing changes is a loop of the model; the
numbering, `common_denom` and the frontiers follow at its end. `MemorySSA` has
the construction (phis at the iterated frontier, renaming, the pruning of
trivial phis) with a step per block and per phi, and the clobber walker as a
function of the query, its step budget and the memo it threads through. Memory is
seen through one location; a block's code says for each access whether it may
write it, writes something else, or reads. `Mem2Reg` has the placement of block
arguments, the search that renames loads, one step per block entered, and then a
run of the function next to its promoted form, one step per edge taken. `MCFlow` composes them over one graph.

### Attributer, KnownBits, IntOps, InstFold, ArithmeticProofs, MCKnownBits

`Attributer` is the worklist over any analysis, which it takes as constants
(what an update reads, what it computes). `KnownBits` is the one analysis there
is: a known zero and a known one mask per value and a transfer function per
operation. `IntOps` says what the operations do on bit sets, with poison for
what the language leaves undefined; `InstFold` is the folding of an instruction
whose operands are constant, equal or poison, and of comparisons from facts.
`MCKnownBits` puts facts next to all executions of the code; `MCArithmetic` checks
it together with the integer modules below.

### LongDivision, WideInts, ConstDiv, ArithmeticProofs, MCArithmetic

`LongDivision` is Knuth's algorithm D as `APInt.cpp` has it, a step per digit,
with the width of a limb as a constant: at two bits per limb the estimate is
wrong by one and by two and the add-back happens. The powers of two are functions
(`Twos`, `Place`) defined by recursion up to the largest that is needed; products and
differences inside a step are integers, which in the code have 64 bits. `WideInts` has the loops over
words (carries, shifts across words, signs, overflow flags) with the width of a
word as a constant, so that three words stand for the code of `__int128` and
wider. `ConstDiv` computes the multipliers and evaluates the instruction
sequence that `mir/const_div.hpp` and its rules emit, on registers of `RegBits`.

### Matcher, MirPasses, Lowering, MCLowering

`Matcher` takes a function of blocks with parameters, instructions and edges that
carry arguments to a list of MIR blocks, as `GreedyMatcher::apply` does: it puts
a block on the edges that need one (`SplitEdges`), decides which parameters get a
second register because users of theirs may be emitted later (`SafeToNotCopy`),
fuses a comparison or a conjunction into the jump and a comparison into a
conditional move, and turns the arguments of an edge into moves in an order that
reads before it writes, breaking cycles with a temporary (`Sequentialised`).
`MirPasses` has the passes on that list: `LegalizeBBForm` (one conditional jump and
one jump at the end of a block), liveness with `reg_coll`, `DeadCodeElim`,
`CopyPropagation`, `LifetimeShortening` and `BBReordering`. Each is a function of
the MIR, because it runs on one function in one job (of `LifetimeShortening`, a set of
MIRs: the order of a hash table decides which of several copies it forgets); `Lowering` has one action
per pass and says what both forms mean: the sequence of tests and the returned
value as terms over the parameters, for every way the tests go. Instructions are
those of the rules that make moves hard: an addition that overwrites its operand,
casts that emit nothing, comparisons, selections.

## Runs

| run | what it asks | instance and why it is enough |
|---|---|---|
| `sheduler` | does any interleaving miscount, return early, call `fn` too late or twice; is a wakeup lost | 2 workers and main, 1 task, one `parallel_for` of up to 2 indices: a worker, main and a helper compete for an index, both workers can be asleep, or about to be, at each push and wake; several tasks that wait in `parallel_for` at once are not in it. The safety properties are also proved, so only liveness rests on this size |
| `stable_vec` | is a slot shared, lost or read before or after its object exists; does the vector implement SlotStorage | 3 threads, 4 objects, slabs of 2, at most 3 slabs and generation 3, both build options: ranges are split, slabs added and slots reused twice |
| `arena` | is memory handed out twice, or left behind the end; does a plan survive what its thread does next | 2 threads, 1 seed, one size and regions with room for two objects, 3 objects live at once, 4 scopes: a snapshot before the first region, two in one region and two in different ones, a window inside a plan, objects that fill a second region behind a snapshot in the first, a helper that runs and resets a pass before its plan is used. Objects that get a region of their own are covered by the proof only |
| `intern_table` | does a value ever have two live slots; does `intern` return a slot with the value asked for | 2 threads, 3 values in one chain (two with equal hash), 3 slots, keys 0 to 3: every entry can be stale, taken over, or behind a stale one |
| `ir_tables` | do map, vector and names of the functions agree, does a pass see what is stored; do use lists agree with operands | functions: no workers, 4 objects, 4 passes or batches, names of up to 3 suffixes, one of them loaded with the name a split would choose. Use lists: 2 instructions, 2 blocks, 1 block argument, 4 operands: an operand of each kind before and behind the one removed, self reference included |
| `fir_pipeline` | is anything stale used or a pass wrongly skipped or left out | a caller, its callee that uses a global, and a caller of the caller; 6 passes in 3 batches, and the same under `--bisect 3`; 2 changes |
| `functions_race` | finding | 2 workers, 1 batch |
| `regalloc` | conflicts, optimality of the exact reductions, termination | all graphs of 3 values and 2 precoloured nodes over 2 registers, at most 2 copies, 2 cost tables: degree 0 to 4, all reductions and merged edges occur |
| `flow` | do dominators, memory SSA and mem2reg say what the paths say | every graph of up to 3 blocks, targets in any order and named twice, and six shapes of 4 and 5 blocks: a diamond in a loop, nested loops, an irreducible loop with and without a way around it, a switch with two equal cases, an unreachable block that jumps into a join; budgets of 2 steps (exhausted in the middle of a phi) and 50 (never) |
| `arithmetic` | are facts a fixpoint and true, is folding exact, does the run end; do division, wide integers and constant division agree with arithmetic | one task at a time, from two families. Facts: every operation on every pair of facts of 3 bits, folding operands of 2 bits (constant, equal, poison), loops of 2 bits with any two operations and every order of the worklist: a carry, a sign and a shift by the width and more occur at 3 bits. Integers: 4 limbs of 2 bits (the add-back fires for 2702 operands), values of 5 and 6 bits in words of 2, divisors of 3, 4 and 8 bits, all operands |
| `lowering` | does the MIR mean what the function means, whatever passes ran; does what `reg_coll` finds suffice | loops that jump to themselves, loops with a latch, joins, switches, and a comparison made in the loop but used behind it; the two values of the loop are swapped, kept, duplicated or computed from each other, in every combination with 3 operations, 4 tests and 3 uses behind the loop. Runs of up to 3 tests: twice around the loop and out |
| `lowering_conditions` | finding | the loops whose branch tests a parameter that its own edge writes, in functions of 3 blocks |

The bounds named in the modules are `MaxN`, `MaxSlabs`, `MaxGen`, `MaxKey` (with
`Servable`, which admits a call of `intern` only while slots and keys last),
`MaxEdits`, `MaxPasses`, `MaxSuffixes`, `MaxOperands`, `MaxLive`, `MaxDepth`,
`MaxRegions`, `MaxLimbs`, `MaxWidth`, `MaxTests` and the `Budgets` of the walker. Deadlock
is checked except in `stable_vec`, which ends after its bounded pushes, in the
runs of the findings, and in `flow`, `arithmetic` and `lowering`, whose algorithms
end. Every property of a passing run has a mutant, a plausible bug in a
definition of the module, for which the property fails; mutants stand above the
definition they replace.

### Findings

- `functions_race`: `whole_function_vectorize` (`optim/helper/WFVector.cpp:233`)
  looks a name up and inserts a function later, in concurrent jobs without a
  lock. Two jobs that vectorize calls to the same callee both insert it; the
  second meets the assertion in `FunctionStorage::insert`. The model stops at
  the assertion. The map and the vector are containers without a lock, so in the
  code the two insertions are also a data race, which the model leaves out. A comment in
  `ir/helpers.cpp:26` relies on no function being added in a function pass; the
  vectorizer is a function pass that adds.
- `lowering_conditions`: the comment at `mir/matcher.cpp:237` says that an edge gets a
  block of its own when the condition still reads a parameter that its moves write.
  `split_cond_branch_edges` looks for parameters only in a condition that is an
  instruction. In a loop `cbr p, loop(x), exit` whose parameter `p` is the condition
  the move to `p` stands in front of the `cjmp` that reads it, and the next
  iteration's value is tested. `MeaningKept` shows it on the matched and legalized
  function, before any pass has run.

## Fairness

Liveness is checked for the scheduler, the register allocator, the dominators
and the attributer.

`sheduler` assumes weak fairness of each thread: of its steps outside user
code, which the operating system gives every thread that can run, and of the
body of each job, since a job that never returns makes every wait wait. Main's
own calls are not fair: main may push nothing or never wait. No fairness is
assumed between the threads for the queue's lock, which the model takes in one
step, and none of a futex wait beyond being woken by a notification made after
it began or finding the value changed.

`regalloc`, `flow` and `arithmetic` assume that the next step of the loop is
taken: solver, dominators and attributer are sequential loops on one thread. In
`arithmetic` it is the steps of `run` only (`Step` and `EndRun`); nobody has to
ask for a fact or to change the code.

## Proofs

`JobShedulerProofs.tla` proves, for any finite set of workers, any tasks, any
number of `parallel_for` calls and any `MaxN`:

- `TypeCorrect`: `Spec => []TypeOK`, none of the unsigned counters underflows;
- `AccountingHolds`: `pending` and `queued` are what the queue and threads hold;
- `WaitTillDoneSafe`: when `wait_till_done` returns nothing is queued or runs;
- `DeinitSafe`: `deinit` discards no job;
- `FnSafe`: no helper calls `fn` after `parallel_for` has returned;
- `EachIndexRunsOnce`: `fn` was called at most once per index at any time, and
  exactly once per index when `parallel_for` returns. Its invariant relates the
  calls made to what `ClaimInv` counts as claimed.

They rest on the assumptions that the set of workers is finite without main,
that `MaxN` is a natural number and that `NoJob` is not a job. The properties are not
inductive by themselves. `IInv` adds where a thread can be while it runs a job
(`CtlInv`), that an unallocated `State` block is referred to by nobody
(`FreeInv`), that claimed indices are the finished ones and those in flight
(`ClaimInv`), that a task whose notifier is not set is pushed, queued or
running (`TaskInv`), the number of sleepers, and that nothing is pending once main
has drained the queue (`EndInv`). The proof has a lemma per group of actions
and conjunct; most conjuncts that quantify over threads are preserved because a
step changes the control of one thread only, which the `Frame` lemmas state
once. `FnSafe` is the interesting one: a thread that calls `fn` is in flight, so
`done < n` by `ClaimInv`, so the caller has not returned.

`ArenaProofs.tla` proves, for any threads, seeds, sizes, default capacity and
bounds, that the safety properties of `Arena` hold: `TypeCorrect` (`TypeOK` with
`RegionsBehindEndEmpty`), `Disjoint` (`LiveDisjoint`) and `PlansKept`
(`PlansSurvive`). It assumes that sizes and the default capacity are natural
numbers and that threads and seeds are different names. `IInv` adds to the
properties what makes rewinding safe: every object taken before a snapshot lies
below it (`Marks`), an outer snapshot of an arena is not above an inner one
(`Nests`), every frame of a thread refers to its own arena or to that of a seed
it has claimed (`Scopes`), so that no two threads use one arena, and a plan's
objects were taken before any snapshot in the arena they are in (`Plans`). There
is one lemma per action, over lemmas about what growing and rewinding do to a
chain (`GrowChain`, `RewindChain`) and what entering and leaving a scope do to
the stacks (`PushScope`, `PopScope`).

`FirPipelineProofs.tla` proves for any functions, call graph, pipeline and kinds
of passes that a cached analysis is what would be computed now (`CacheFresh`) and
that a skipped pass would have done nothing (`SkipsNothingNeeded`). The two need
each other: a skipped pass keeps the cache, and clean bits are dropped where the
cache is. The invariant adds that the clean bits hold current versions
(`BitsAreFresh`) and that the maps have their domains.

`InternTableProofs.tla` proves for any threads, values, hashes and slots that a
value has at most one live slot (`OneSlotPerValue`) and that `intern` returns a
slot that holds the value asked for (`InternReturns`). `HashConsed` is not
inductive: an insertion is right only if the walk saw the whole chain, so the
invariant adds that every live entry is reached from its hash without a gap
(`Chained`) and that a walk has passed no entry of its value (`Walks`).

`ArithmeticProofs.tla` proves, for any analysis, that a run that ends leaves a
fixpoint (`FixpointReached`). It assumes what the code expects of an
analysis: what an update asks for is decided by what it has asked for so far
(`ReadsSettled`), and the flags that are set from facts are not read by updates
(`FlagsUnread`), for a set of functions that passes do not leave (`Closed`). The
invariant says that every fact not on the worklist is what its update would
compute, from sources that know whom to wake (`RestAt`).

The same module proves that long division is exact (`LongDivisionIsExact`), for limbs of
every width from one bit on and operands of any number of limbs; it needs no assumption
beyond these. `DivisionExact` is nearly inductive. `Dividing` adds what the estimate of
a digit rests on: the highest limb of the shifted divisor is at least half the base, the
rest has no limb above the ones the next digit looks at, and the digits not yet found are
zero. From that the estimate is the digit or one more (`EstimateBounds`): where the loop
goes on the digit was too large (`EstimateHighEnough`), and where it stops, three limbs
of the rest against two of the divisor leave an error of at most one
(`EstimateLowEnough`, Knuth's theorem). So a subtraction that does not borrow from beyond
its window leaves less than the divisor (`KeptDigit`), and after one that does, adding the
divisor back once does (`CorrectedDigit`). What the limbs with their borrows and carries
amount to is `SubtractValue` and `AddBackValue`, up to a multiple of the place above the
window, which the bounds then exclude. Normalising multiplies by the shift's factor
(`MovedValue`); undoing it drops bits that are zero because the rest is a multiple of that
factor (`ShiftedBack`). `Number`, `Place` and the carries are recursive functions: that
they have their defining equations is proved once (`RecursionExists`), and the sums over
limbs by induction over a set of naturals up to the number of limbs (`UpTo`). Termination of
the loop and the absence of overflow in the 64 bit intermediate values are not
part of the theorem.

`StableVecProofs.tla` proves for any threads, slabs, objects and interleaving of the
critical sections of `push_back`, with and without generations: every slot has one
owner and none is lost (`SlotsHaveOneOwner`), a reference to a live object reaches it
and, with generations, one to a dead object is seen to be stale
(`ReferencesReachOrAreStale`), and the vector implements `SlotStorage`
(`VectorImplementsStorage`). It assumes that slabs and their number are not zero, and
that the marks for no object and for memory without one are not objects. `IInv` says who holds which range: the
ranges in the free list and in the hands of the threads are disjoint and lie in linked
slabs (`ListDisjoint`, `HandsApart`, `ListNotHeld`), a slot in a hand is not in use
(`HandSlots`), a slot that is neither free nor in a hand belongs to one object
(`SlotsOwned`, `NoSlotLost`), and the word of a slot that was collected never again has
the generation of the old reference (`Generations`). Under the
refinement mapping `Publish` is the insertion of the abstract storage, `Remove` of a
live object its removal, the collection of a freed slot and the destructor are its
own, and every other step, above all the exchange of ranges, stutters.

`IrTablesProofs.tla` proves, of `FunctionStorage`, for any module, names, passes and
number of workers that map and vector agree (`MapAndVectorInSync`), that no loop sees an erased function
(`LoopsReachLiveFunctions`) and that none passes one over (`EveryFunctionVisited`).
It assumes that no two functions of the module that is loaded have one name. The invariant adds that what is due is still to be visited, once each
(`Visits`), and that jobs exist only in a batch (`Quiet`), during which nothing is
erased.

The same module proves, of `UseLists`, for any number of instructions, blocks, block
arguments and operands, that the list of each value is exactly the operands that name
it, that no record is missing when it is to be removed and that no operand names what
is dead (`UseListsMatchOperands`), and that `replace_all_uses` is total
(`ReplacesEveryUse`). It assumes that values of different kinds are different,
that no block is `Nowhere` and that the bound on operands is a number. The invariant (`UsesInv`) counts: a list holds a position once if
the operand there names the value, and otherwise not (`Matches`), and operands belong to
live instructions. A removed operand changes the position of every one behind it, and
the records are changed one at a time, so that the lists do not match while the loop
runs. What the proof keeps instead is the set of records the loop takes out and those
it puts in, no position twice (`Single`, `Apart`): then their order does not matter, each
record to take out is there when its turn comes, and the lists that result are told by
the two sets (`Relists`). That the operands then move to where their records went is a
fact about one row of positions (`Slide`, `Shifted`), used for arguments, blocks with
their arguments, and block arguments alike. A fold has no defining equation the
provers can unroll; its recursion has one solution on the subsets of a finite set
(`SolutionExists`, `SolutionUnique`, from the well-foundedness of the strict subset
order), which gives the states between the rounds of a loop.

`RegAllocSolverProofs.tla` proves for any graph, domains of registers, costs and copies
that the graph stays consistent whatever is reduced (`GraphConsistent`) and that no two
values that interfere share a register, after colouring and through all of coalescing
(`InterferingApart`). It assumes that nodes are numbered from 1, that domains are finite
sets of registers, that a precoloured node has one register and no other node is that
register alone, and that the limit of `actually_allocate` is not above the cost of
interference. The invariant follows the cost of interference through the reductions:
an edge that has it keeps it (`EdgesInv`), since costs are only added, and a node that
is pushed leaves a record with the edge to every node that is still in the graph, so
that of two nodes that interfere the one coloured later knows the other's register and
that it costs too much (`Covers` in `StackInv`). What the folds compute (the
neighbour lists, the sum of a record's costs, the cheapest register) is proved
without an induction rule: the set of the parts of a list or a set for which a claim
fails would have a smallest member (`MinimalSet`, from the well-foundedness of the
strict subset order), and the step to it from the next smaller part shows that it has none.

The same module proves that the exact reductions are exact (`ExactReductionsAreOptimal`):
a graph that R1 and R2 alone took apart is coloured at the least total cost any
assignment of registers has. The terms of an assignment, one per node and one per edge, are
the entries of one table over pairs of nodes, the nodes on its diagonal
(`CostsOf`), and what is compared is their sum over the square of the nodes that are
left (`NoDearer`; infinite if a term is). An R1 or R2 reduction takes the entries of one
node out and adds the cheapest of its registers to one other entry (`TakenOut`), for the
two of them alike: no assignment gets dearer by it (`ReductionLower`), and one that gives
the node the register of `Choice` keeps its cost (`ReductionExact`). So `ExactInv` keeps,
while the graph is reduced, that the reduced cost of any assignment is at most the
original one, and the same for the assignments that are greedy for the stack
(`Reduced`); at the end of the reduction the rest is chosen greedily too, so a greedy assignment
is optimal, and while nodes are coloured this holds of every greedy completion of the
registers chosen so far (`Settled`). Colouring makes the next choice of such a completion because a
record's neighbours are left in the graph longer than its node and so have their
registers before it (`Above`).

This needs one more assumption, `RoomAssumption`: the dearest finite costs of all nodes
add up to less than the limit. `actually_allocate` takes a cost of `1e9` or
more for infinite ("needs to be lower then INF since inf should never be chosen",
`reg_alloc_solver.hpp:771`) and falls back to the stack, and the costs of nodes that were taken
out are folded into those that stay. The code does not check it: block weights
and a thousand temporaries that must not spill (`kUnspillableCost` is `1e6`) could add
up to more, and then the theorem says nothing. `Fits` carries the room through the
reductions: a weight per entry, whose sum no reduction raises, bounds what is
finite. As the model has integers for `f32`, the theorem is about the
algorithm and not about rounding. The other two theorems do not use the assumption.

Model-checked only: liveness, since fairness is beyond the prover, and the modules whose
meaning lies in recursion or arithmetic the provers cannot follow:

- `DominatorsAgreeWithPaths`, `BuiltRight`, `AnswerIsConservative` and `LoadsSeeTheSlot` compare
  functions that recurse over a graph with all paths of it; a proof would need induction over
  paths, and the theorems of the library that give it take an operator as a parameter;
- `FactsSound` and `FoldIsExact` are about bit sets and `2 ^ n`, `WideIntsExact` and
  `ConstDivExact` about products of words modulo `2 ^ n`, which the SMT backend does not
  reason about for a variable `n`; they hold of single operations, and for these TLC
  enumerates all operands of a small width;
- `MeaningKept` and `CollisionsSuffice` are about terms, evaluated by `RECURSIVE` operators.

Where a proof needs the elements of a filtered list, the module has a fold
(`RemoveFirst`, `Keeping`), since `SelectSeq` is opaque to the prover.

## Plan

In the order of what matters most to the program:

1. the rounds of register allocation: spilling and rematerialization until nothing
   spills, and the interference graph from live ranges;
2. the rest of lowering: calling convention, register joining and local value
   numbering over the same meaning of MIR;
3. `SCCP`, GVN and dead store elimination over the same graphs as memory SSA;
4. the use lists under a lock, which functions and globals have.

A module is written so that it can be proved about: constants with named
assumptions, one action per operation, no recursive operators where a proof is
planned.

## Not modelled

Most of the code by lines is translation: the LLVM loader, most rules of the matcher, the
x86 encoder, printers and parsers. They rewrite data by tables without state of
their own, and a model of them would repeat the tables. The vectorizer and the
loop passes are cost driven rewriting; of them only what they do to shared
state is modelled (functions, arenas, analyses). For this reason the modules
stand for a small share of the lines.

Within the modelled parts these are left out, with the reason:

- locked use lists of functions and globals, used by serial passes, and
  `LockedUsed::replace_all_uses`, which no concurrent job calls on a list others
  add to;
- passes that read their callees' bodies inside jobs while those change: the
  bodies are not part of any model;
- the rounds of spilling in the register allocator;
- paths for integers of one and two words, which are machine operations;
- in `FIR passes`, everything but `mem2reg` and the folding of integers;
- memory order: threads are sequentially consistent, so a missing acquire or
  release would not be seen;
- of the arenas, the size counters and the IR arenas, which their workers free
  in `deinit`, before the machine functions whose vectors lie in them are
  destructed;
- a job that holds a reference to a value it has removed, which `InternTable`
  excludes.

Limits of the lowering, all of them choices of `MCLowering` that a reader should know:

- in the passing run no branch tests a parameter that its own edge writes: those
  functions are the instance of the finding;
- `LifetimeShortening` runs at most once, as the configuration has it. Its case
  for a copy (`mir/optim/lifetime_shortening.hpp:17`) does not forget what was
  known of the register it writes, and on code that the pass has shortened
  before, a use may be given a register that was written since;
- a switch that goes around its own block once has that edge last. Only the edges
  of conditional branches are split, so with another order the moves of that edge
  run before the comparisons and the edges behind it read what they wrote. With
  such a switch in the instance TLC finds `MeaningKept` violated; no comment says
  what is meant for switches, so this is not listed as a finding;
- rules other than those named, among them comparisons of floats and folded loads.

`src/third_party` is vendored.
