----------------------------- MODULE Dominators -----------------------------
(***************************************************************************)
(* Dominator tree and dominance frontier of a function                     *)
(* (optim/analysis/dominators.hpp): an iterative depth first search gives  *)
(* the post order, passes over its reverse intersect the dominators of the *)
(* predecessors until nothing changes, a walk over the tree numbers it so  *)
(* that dominance is an interval test, and the frontier is computed when   *)
(* it is first asked for.                                                  *)
(***************************************************************************)
EXTENDS FlowGraph, Integers

CONSTANT Graphs   \* the control flow graphs a function may have

VARIABLES
  succ,      \* the graph
  pred,      \* the predecessors CFG::update found
  phase,     \* what the analysis does next
  stack,     \* the search under way: blocks and the next target of each
  visited,   \* blocks the search has seen
  post,      \* the post order found so far
  idom,      \* immediate dominators, None while unknown
  at,        \* position of the pass in the reverse post order
  changed,   \* the pass changed a dominator
  tree,      \* reachable, depth and the interval of each block in the tree
  frontier   \* the dominance frontiers

domVars == <<succ, pred, phase, stack, visited, post, idom, at, changed, tree, frontier>>

None == 0
Bs == Blocks(succ)
Rpo == Reverse(post)
PostNumber(b) == CHOOSE i \in DOMAIN post : post[i] = b

DomInit ==
  /\ succ \in Graphs
  /\ pred = Preds(succ)
  /\ phase = "search"
  /\ stack = <<[bb |-> Entry, next |-> 1]>>
  /\ visited = {Entry}
  /\ post = <<>>
  /\ idom = [b \in Bs |-> IF b = Entry THEN Entry ELSE None]
  /\ at = 1
  /\ changed = FALSE
  /\ tree = [b \in Bs |-> [reachable |-> TRUE, depth |-> 0, in |-> 0, out |-> 0]]
  /\ frontier = [b \in Bs |-> {}]

Top == Last(stack)
Bumped == Append(Front(stack), [Top EXCEPT !.next = @ + 1])

\* One round of the search for the post order.
Search ==
  /\ phase = "search" /\ stack # <<>>
  /\ IF Top.next <= Len(succ[Top.bb])
     THEN LET s == succ[Top.bb][Top.next] IN
          /\ visited' = visited \cup {s}
          /\ stack' = IF s \in visited THEN Bumped
                      ELSE Append(Bumped, [bb |-> s, next |-> 1])
          /\ post' = post
     ELSE /\ post' = Append(post, Top.bb)
          /\ stack' = Front(stack)
          /\ visited' = visited
  /\ phase' = IF stack' = <<>> THEN "passes" ELSE phase
  /\ UNCHANGED <<succ, pred, idom, at, changed, tree, frontier>>

\* The nearest block above both, by climbing from the one that is lower.
Intersect(b1, b2) ==
  LET Meet[x, y \in Bs] ==
        IF x = y THEN x
        ELSE IF PostNumber(x) < PostNumber(y) THEN Meet[idom[x], y]
        ELSE Meet[x, idom[y]]
  IN  Meet[b1, b2]

NewIdom(b) ==
  FoldLeft(LAMBDA new, p : IF idom[p] = None THEN new
                           ELSE IF new = None THEN p ELSE Intersect(p, new),
           None, pred[b])

\* Mutant of IdomStep: a new pass starts with changed as the last one left it.
IdomStepNoReset ==
  /\ phase = "passes"
  /\ IF at <= Len(Rpo)
     THEN LET b == Rpo[at]
              new == IF b = Entry THEN Entry ELSE NewIdom(b) IN
          /\ idom' = [idom EXCEPT ![b] = new]
          /\ changed' = (changed \/ new # idom[b])
          /\ at' = at + 1
          /\ phase' = phase
     ELSE /\ at' = 1 /\ changed' = changed /\ idom' = idom
          /\ phase' = IF changed THEN phase ELSE "number"
  /\ UNCHANGED <<succ, pred, stack, visited, post, tree, frontier>>

\* One block of a pass; after a pass that changed something comes another.
IdomStep ==
  /\ phase = "passes"
  /\ IF at <= Len(Rpo)
     THEN LET b == Rpo[at]
              new == IF b = Entry THEN Entry ELSE NewIdom(b) IN
          /\ idom' = [idom EXCEPT ![b] = new]
          /\ changed' = (changed \/ new # idom[b])
          /\ at' = at + 1
          /\ phase' = phase
     ELSE /\ at' = 1 /\ changed' = FALSE /\ idom' = idom
          /\ phase' = IF changed THEN phase ELSE "number"
  /\ UNCHANGED <<succ, pred, stack, visited, post, tree, frontier>>

Children(b) == Ascending({c \in Bs \ {Entry} : idom[c] = b})
Timer == Cardinality(visited)

\* Blocks no path reaches hang below the entry, then the tree is walked.
Number ==
  /\ phase = "number"
  /\ idom' = [b \in Bs |-> IF idom[b] = None THEN Entry ELSE idom[b]]
  /\ tree' = [b \in Bs |-> [tree[b] EXCEPT !.reachable = idom[b] # None]]
  /\ stack' = <<[bb |-> Entry, next |-> 1]>>
  /\ visited' = {Entry}
  /\ phase' = "tour"
  /\ UNCHANGED <<succ, pred, post, at, changed, frontier>>

\* One round of the walk: visited counts what was entered, the timer.
Tour ==
  /\ phase = "tour" /\ stack # <<>>
  /\ IF Top.next <= Len(Children(Top.bb))
     THEN LET c == Children(Top.bb)[Top.next] IN
          /\ tree' = [tree EXCEPT ![c].depth = tree[Top.bb].depth + 1, ![c].in = Timer]
          /\ visited' = visited \cup {c}
          /\ stack' = Append(Bumped, [bb |-> c, next |-> 1])
     ELSE /\ tree' = [tree EXCEPT ![Top.bb].out = Timer]
          /\ stack' = Front(stack)
          /\ visited' = visited
  /\ phase' = IF stack' = <<>> THEN "ready" ELSE phase
  /\ UNCHANGED <<succ, pred, post, idom, at, changed, frontier>>

\* The blocks whose frontier gets s for the edge from p: from p up to the
\* immediate dominator of s.  An entry with an edge into it is in the frontier
\* of all of them, itself included.
Runners(s, p) ==
  LET Up[r \in Bs] == IF s # Entry /\ r = idom[s] THEN {}
                      ELSE {r} \cup (IF r = Entry THEN {} ELSE Up[idom[r]])
  IN  Up[p]

\* Mutant of IsJoin: the entry is no join with one edge into it.
IsJoinOfTwo(s) == Len(pred[s]) >= 2

IsJoin(s) == Len(pred[s]) >= (IF s = Entry THEN 1 ELSE 2)

\* Dominators::compute_frontier, on the first use.
ComputeFrontier ==
  /\ phase = "ready"
  /\ frontier' =
       [b \in Bs |-> {s \in Bs : /\ tree[s].reachable /\ IsJoin(s)
                                 /\ \E p \in Range(pred[s]) : /\ tree[p].reachable
                                                              /\ b \in Runners(s, p)}]
  /\ phase' = "done"
  /\ UNCHANGED <<succ, pred, stack, visited, post, idom, at, changed, tree>>

DomNext == Search \/ IdomStep \/ Number \/ Tour \/ ComputeFrontier

-----------------------------------------------------------------------------
(* The queries. *)

TreeDominates(a, b) == tree[a].in <= tree[b].in /\ tree[b].in < tree[a].out

\* Dominators::dominates
Dominates(a, b) == a = b \/ ~tree[b].reachable \/ TreeDominates(a, b)

\* common_denom: level the two blocks, then climb together.
CommonDenom(a, b) ==
  LET Climb[x, y \in Bs] ==
        IF x = y THEN x
        ELSE IF tree[x].depth > tree[y].depth THEN Climb[idom[x], y]
        ELSE IF tree[y].depth > tree[x].depth THEN Climb[x, idom[y]]
        ELSE Climb[idom[x], idom[y]]
  IN  Climb[a, b]
-----------------------------------------------------------------------------
(* Properties. *)

Numbered == phase \in {"ready", "done"}

\* Dominators::dominates says of every pair of blocks what the paths say, a
\* block nothing reaches being dominated by all (dominators.hpp:455).
DominatesIsDominance ==
  Numbered => \A a, b \in Bs : Dominates(a, b) <=> PathDominates(succ, a, b)

\* common_denom returns a block that dominates both, and that is dominated by
\* every other such block; it is asked for blocks nothing reaches as well.
CommonDenomIsNearest ==
  Numbered => \A a, b \in Reachable(succ) :
    LET c == CommonDenom(a, b)
        common == {d \in Bs : PathDominates(succ, d, a) /\ PathDominates(succ, d, b)}
    IN  c \in common /\ \A d \in common : PathDominates(succ, d, c)

\* The walk that compute_frontier makes from each predecessor of a join finds
\* the dominance frontier, also when the entry is the header of a loop.
FrontierIsFrontier ==
  phase = "done" => \A b \in Reachable(succ) : frontier[b] = PathFrontier(succ, b)

\* The passes over the reverse post order reach a fixpoint and the analysis
\* ends: there is no bound on the number of passes in the code.
AnalysisEnds == <>(phase = "done")
=============================================================================
