----------------------------- MODULE MemorySSA ------------------------------
(***************************************************************************)
(* Memory SSA of a function (optim/analysis/mem/memory_ssa.cpp), built on  *)
(* the dominators the Dominators module computes: phis at the iterated     *)
(* dominance frontier of the blocks that write memory, a walk over the     *)
(* dominator tree that names the state before every access, the operands   *)
(* of the phis, and the removal of phis that merge one state.  The walker  *)
(* then answers which state above an access may hold what is read there.   *)
(*                                                                         *)
(* Memory is seen through one location: a "store" may write it, an "other" *)
(* writes memory but the alias layer proves that it does not write the     *)
(* location, a "load" only reads.                                          *)
(***************************************************************************)
EXTENDS Dominators

CONSTANTS
  Codes,    \* per graph, the accesses its blocks may have, in program order
  Budgets   \* values of max_steps of a walker

VARIABLES
  code,     \* the accesses of each block
  build,    \* what the construction does next
  work,     \* blocks whose frontier is to get phis, then blocks to rename
  acc,      \* the accesses by id: the first is the state on entry
  blockPhi, \* the phi of each block, None without one
  outState, \* the state at the end of each renamed block
  repl,     \* what a removed phi was replaced by
  scan,     \* the last phi looked at by remove_trivial_phis
  again,    \* it removed a phi in this round
  answer    \* what a walker says to every query

ssaVars == <<code, build, work, acc, blockPhi, outState, repl, scan, again, answer>>

LiveOnEntry == 1
IndexOf(s, x) == CHOOSE i \in DOMAIN s : s[i] = x
IsDef(kind) == kind \in {"store", "other"}
WritesIn(c, b) == tree[b].reachable /\ \E i \in DOMAIN c[b] : IsDef(c[b][i])
HasDef(b) == WritesIn(code, b)

Access(kind, b, defining, ops) ==
  [kind |-> kind, block |-> b, defining |-> defining, ops |-> ops]

SsaInit ==
  /\ code = <<>> /\ build = "idle" /\ work = <<>> /\ acc = <<>> /\ blockPhi = <<>>
  /\ outState = <<>> /\ repl = <<>> /\ scan = 0 /\ again = FALSE /\ answer = <<>>

\* The accesses of the blocks, in any combination, once the dominators are known.
CollectAccesses ==
  /\ phase = "done" /\ build = "idle"
  /\ code' \in Codes[succ]
  /\ work' = SelectSeq(Ascending(Bs), LAMBDA b : WritesIn(code', b))
  /\ acc' = <<Access("entry", None, None, <<>>)>>
  /\ blockPhi' = [b \in Bs |-> None]
  /\ outState' = [b \in Bs |-> LiveOnEntry]
  /\ build' = "phis"
  /\ UNCHANGED <<repl, scan, again, answer, domVars>>

\* Mutant of PlacePhis: a block that gets a phi is not looked at itself.
PlacePhisOnce ==
  /\ build = "phis" /\ work # <<>>
  /\ LET new == SelectSeq(Ascending(frontier[Last(work)]), LAMBDA f : blockPhi[f] = None)
         Edges(f) == Len(pred[f]) + (IF f = Entry THEN 1 ELSE 0)
     IN  /\ acc' = acc \o [i \in DOMAIN new |->
                     Access("phi", new[i], None, [e \in 1 .. Edges(new[i]) |-> LiveOnEntry])]
         /\ blockPhi' = [b \in Bs |-> IF Contains(new, b) THEN Len(acc) + IndexOf(new, b)
                                      ELSE blockPhi[b]]
         /\ work' = Front(work)
  /\ UNCHANGED <<code, build, outState, repl, scan, again, answer, domVars>>

\* One block off the worklist.  A block that gets a phi changes the memory state
\* and is looked at itself, unless it is on the list for a def already.
PlacePhis ==
  /\ build = "phis" /\ work # <<>>
  /\ LET new == SelectSeq(Ascending(frontier[Last(work)]), LAMBDA f : blockPhi[f] = None)
         Edges(f) == Len(pred[f]) + (IF f = Entry THEN 1 ELSE 0)
     IN  /\ acc' = acc \o [i \in DOMAIN new |->
                     Access("phi", new[i], None, [e \in 1 .. Edges(new[i]) |-> LiveOnEntry])]
         /\ blockPhi' = [b \in Bs |-> IF Contains(new, b) THEN Len(acc) + IndexOf(new, b)
                                      ELSE blockPhi[b]]
         /\ work' = Front(work) \o SelectSeq(new, LAMBDA f : ~HasDef(f))
  /\ UNCHANGED <<code, build, outState, repl, scan, again, answer, domVars>>

StartRename ==
  /\ build = "phis" /\ work = <<>>
  /\ work' = <<Entry>>
  /\ build' = "rename"
  /\ UNCHANGED <<code, acc, blockPhi, outState, repl, scan, again, answer, domVars>>

StateIn(b) == IF blockPhi[b] # None THEN blockPhi[b]
              ELSE IF b = Entry THEN LiveOnEntry ELSE outState[idom[b]]

\* One block in dominator tree order: every access gets the state before it, a
\* def is the next state.
Rename ==
  /\ build = "rename" /\ work # <<>>
  /\ LET b == Head(work)
         Before(i) ==
           LET defs == {k \in 1 .. i - 1 : IsDef(code[b][k])}
           IN  IF defs = {} THEN StateIn(b) ELSE Len(acc) + Max(defs)
     IN  /\ acc' = acc \o [i \in DOMAIN code[b] |-> Access(code[b][i], b, Before(i), <<>>)]
         /\ outState' = [outState EXCEPT ![b] = Before(Len(code[b]) + 1)]
         /\ work' = Tail(work) \o SelectSeq(Children(b), LAMBDA c : tree[c].reachable)
  /\ UNCHANGED <<code, build, blockPhi, repl, scan, again, answer, domVars>>

\* One operand for each edge from a reachable block; the others, and the edge
\* from outside into the entry, keep the state on entry.
PhiOperands ==
  /\ build = "rename" /\ work = <<>>
  /\ acc' = [id \in DOMAIN acc |->
       [acc[id] EXCEPT !.ops = [e \in DOMAIN @ |->
          IF e <= Len(pred[acc[id].block]) /\ tree[pred[acc[id].block][e]].reachable
          THEN outState[pred[acc[id].block][e]] ELSE @[e]]]]
  /\ repl' = [id \in DOMAIN acc |-> None]
  /\ build' = "trivial"
  /\ UNCHANGED <<code, work, blockPhi, outState, scan, again, answer, domVars>>

Resolve(id) ==
  LET R[x \in DOMAIN acc] == IF repl[x] = None THEN x ELSE R[repl[x]] IN R[id]
Merged(id) == {Resolve(o) : o \in Range(acc[id].ops)} \ {id}
IsTrivial(id) == acc[id].kind = "phi" /\ Cardinality(Merged(id)) <= 1
TrivialAbove(n) == {id \in DOMAIN acc : id > n /\ IsTrivial(id)}

\* remove_trivial_phis: rounds over the ids, as long as one removes a phi.
RemovePhi ==
  /\ build = "trivial" /\ TrivialAbove(scan) # {}
  /\ LET id == Min(TrivialAbove(scan)) IN
     /\ repl' = [repl EXCEPT ![id] =
                   IF Merged(id) = {} THEN LiveOnEntry ELSE CHOOSE o \in Merged(id) : TRUE]
     /\ acc' = [acc EXCEPT ![id].kind = "removed"]
     /\ blockPhi' = [blockPhi EXCEPT ![acc[id].block] = None]
     /\ scan' = id
  /\ again' = TRUE
  /\ UNCHANGED <<code, build, work, outState, answer, domVars>>

NextRound ==
  /\ build = "trivial" /\ TrivialAbove(scan) = {}
  /\ IF again THEN /\ scan' = 0 /\ again' = FALSE
                   /\ UNCHANGED <<acc, build>>
     ELSE /\ acc' = [id \in DOMAIN acc |->
               CASE acc[id].kind \in {"store", "other", "load"} ->
                      [acc[id] EXCEPT !.defining = Resolve(@)]
                 [] acc[id].kind = "phi" ->
                      [acc[id] EXCEPT !.ops = [e \in DOMAIN @ |-> Resolve(@[e])]]
                 [] OTHER -> acc[id]]
          /\ build' = "built"
          /\ UNCHANGED <<scan, again>>
  /\ UNCHANGED <<code, work, blockPhi, outState, repl, answer, domVars>>
-----------------------------------------------------------------------------
(* MemorySSAWalker::walk.  A query carries the state to stop at, the steps    *)
(* left, the phis being walked, the answers that do not depend on them and    *)
(* the outermost phi a cycle led back to; a result comes with the query as    *)
(* the recursion left it.                                                     *)

Unbroken == 99   \* cycle_to, no cycle met: larger than any index of active

RECURSIVE Walk(_, _), WalkOperands(_, _, _, _)

Walk(a, q) ==
  IF q.left = 0 \/ a = q.stop THEN [state |-> a, q |-> q]
  ELSE LET q1 == [q EXCEPT !.left = @ - 1] IN
    CASE acc[a].kind = "store" -> [state |-> a, q |-> q1]
      [] acc[a].kind = "other" -> Walk(acc[a].defining, q1)
      [] acc[a].kind = "phi" ->
           IF Contains(q.active, a)
           THEN LET i == IndexOf(q.active, a) IN
                [state |-> None, q |-> [q1 EXCEPT !.cycle = IF i < @ THEN i ELSE @]]
           ELSE IF a \in DOMAIN q.done THEN [state |-> q.done[a], q |-> q1]
           ELSE LET depth == Len(q.active) + 1
                    r == WalkOperands(a, 1, None, [q1 EXCEPT !.active = Append(@, a),
                                                             !.cycle = Unbroken])
                    up == [r.q EXCEPT !.active = q.active]
                IN  [state |-> r.state,
                     q |-> IF up.cycle >= depth
                           THEN [up EXCEPT !.cycle = q.cycle,
                                           !.done = [x \in DOMAIN @ \cup {a} |->
                                                       IF x = a THEN r.state ELSE @[x]]]
                           ELSE [up EXCEPT !.cycle = IF q.cycle < @ THEN q.cycle ELSE @]]
      [] OTHER -> [state |-> a, q |-> q1]

\* Mutant of WalkOperands: operands that disagree are not an answer of the phi.
WalkOperandsFirst(a, i, agreed, q) ==
  IF i > Len(acc[a].ops) THEN [state |-> agreed, q |-> q]
  ELSE LET r == Walk(acc[a].ops[i], q) IN
    IF r.state = None \/ r.state = agreed THEN WalkOperands(a, i + 1, agreed, r.q)
    ELSE IF agreed = None THEN WalkOperands(a, i + 1, r.state, r.q)
    ELSE [state |-> agreed, q |-> r.q]

\* The operands of phi a from the i-th, with what the ones before agreed on.
WalkOperands(a, i, agreed, q) ==
  IF i > Len(acc[a].ops) THEN [state |-> agreed, q |-> q]
  ELSE LET r == Walk(acc[a].ops[i], q) IN
    IF r.state = None \/ r.state = agreed THEN WalkOperands(a, i + 1, agreed, r.q)
    ELSE IF agreed = None THEN WalkOperands(a, i + 1, r.state, r.q)
    ELSE [state |-> a, q |-> r.q]

\* clobber_from
ClobberFrom(start, steps, stop) ==
  LET r == Walk(start, [left |-> steps, stop |-> stop, active |-> <<>>,
                        done |-> <<>>, cycle |-> Unbroken]).state
  IN  IF r = None THEN start ELSE r

\* The states of memory: what an access can be defined by.
States == {id \in DOMAIN acc : acc[id].kind \in {"entry", "phi", "store", "other"}}

\* Every query, from any state as the one before a load or at the end of a
\* range: queries change nothing, a walker forgets what it found for the last.
AskWalker ==
  /\ build = "built"
  /\ answer' = [start \in States, stop \in States \cup {None}, steps \in Budgets |->
                  ClobberFrom(start, steps, stop)]
  /\ build' = "answered"
  /\ UNCHANGED <<code, work, acc, blockPhi, outState, repl, scan, again, domVars>>

SsaNext ==
  \/ CollectAccesses \/ PlacePhis \/ StartRename \/ Rename \/ PhiOperands
  \/ RemovePhi \/ NextRound \/ AskWalker
-----------------------------------------------------------------------------
(* Properties. *)

AccessesOf(b) == {id \in DOMAIN acc : acc[id].block = b /\ acc[id].kind # "phi"
                                      /\ acc[id].kind # "removed"}

\* What a fact about memory is at the end of a block: the accesses of the block,
\* in order, change the facts In that hold at its start.
Through(b, In, Change(_, _)) == FoldLeft(Change, In, Ascending(AccessesOf(b)))

\* The facts at the start of each block over all paths from the entry: AtEntry
\* holds before the entry, AtStart(b, In) is what the start of b makes of them.
PathFacts(AtEntry, AtStart(_, _), Change(_, _)) ==
  LET F[i \in 0 .. 3 * Len(succ)] ==
        IF i = 0 THEN [b \in Bs |-> {}]
        ELSE LET last == F[i - 1] IN
             [b \in Bs |->
                AtStart(b, UNION {Through(p, last[p], Change) : p \in Range(pred[b])}
                           \cup (IF b = Entry THEN AtEntry ELSE {}))]
  IN  F[3 * Len(succ)]

\* The states memory may be in at the start of each block.
StateAt(b, In) == IF blockPhi[b] # None /\ In # {} THEN {blockPhi[b]} ELSE In
NextState(In, id) == IF IsDef(acc[id].kind) THEN {id} ELSE In
StatesAtStart == PathFacts({LiveOnEntry}, StateAt, NextState)

\* The state an access is given is the one memory is in there on every path
\* from the entry, and each operand of a phi is the state at the end of its
\* predecessor: phis stand at every join they are needed at and those that were
\* removed were not needed.
StatesReach ==
  build = "built" =>
    LET starts == StatesAtStart
        Ends(b) == Through(b, starts[b], NextState)
    IN  /\ \A b \in Reachable(succ) : \A id \in AccessesOf(b) :
             LET before == {d \in AccessesOf(b) : d < id /\ IsDef(acc[d].kind)}
             IN  {acc[id].defining} = IF before = {} THEN starts[b] ELSE {Max(before)}
        /\ \A b \in Bs : blockPhi[b] # None =>
             \A e \in DOMAIN acc[blockPhi[b]].ops :
               IF e > Len(pred[b]) THEN acc[blockPhi[b]].ops[e] = LiveOnEntry
               ELSE tree[pred[b][e]].reachable =>
                      Ends(pred[b][e]) = {acc[blockPhi[b]].ops[e]}

\* MemorySSA::verify accepts what the constructor built: every use is below a
\* def that dominates it and no phi merges one state (memory_ssa.hpp:71).
VerifyAccepts ==
  build = "built" =>
    /\ \A id \in DOMAIN acc : acc[id].defining # None =>
         /\ acc[id].defining \in States \ {id}
         /\ acc[id].defining # LiveOnEntry => Dominates(acc[acc[id].defining].block, acc[id].block)
    /\ \A b \in Bs : blockPhi[b] # None =>
         /\ Range(acc[blockPhi[b]].ops) \subseteq States
         /\ Cardinality(Range(acc[blockPhi[b]].ops) \ {blockPhi[b]}) > 1

SinceAfter(r, In, id) == IF id = r THEN {"clean"}
                         ELSE IF acc[id].kind = "store"
                         THEN {IF f = "clean" THEN "written" ELSE f : f \in In} ELSE In

\* Where a walk from start ended at state r: before r, since r without a write
\* to the location, or since r with one.
Since(r) == PathFacts({IF r = LiveOnEntry THEN "clean" ELSE "before"},
                      LAMBDA b, In : IF blockPhi[b] = r /\ In # {} THEN {"clean"} ELSE In,
                      LAMBDA In, id : SinceAfter(r, In, id))

\* A walker never looks past a write: on every path to the state it started at
\* the state it answered was there, and nothing wrote the location since; an
\* exhausted budget or a state to stop at does not change that.
AnswerIsConservative ==
  build = "answered" => \A r \in Range(answer) :
    LET since == Since(r)
        At(start) ==
          LET b == acc[start].block
              upto == {id \in AccessesOf(b) : id <= start}
          IN  IF acc[start].kind = "phi" THEN since[b]
              ELSE FoldLeft(LAMBDA In, id : SinceAfter(r, In, id), since[b], Ascending(upto))
    IN  \A q \in DOMAIN answer :
          answer[q] = r => IF q[1] = LiveOnEntry THEN r = LiveOnEntry ELSE At(q[1]) = {"clean"}
=============================================================================
