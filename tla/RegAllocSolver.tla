--------------------------- MODULE RegAllocSolver ---------------------------
(***************************************************************************)
(* The register allocator's solver (mir/optim/reg_alloc_solver.hpp): the   *)
(* choice of a register for every node of a cost graph as a PBQP problem.  *)
(* A node of degree one or two is taken out of the graph and its costs are *)
(* folded into its neighbours, which is exact; where none is left the node *)
(* that is cheapest to spill is taken out and its edges are dropped.  The  *)
(* nodes are then coloured in the opposite order, and copies between       *)
(* registers that do not interfere are coalesced                           *)
(* (mir/optim/reg_alloc.cpp).                                              *)
(*                                                                         *)
(* Register 0 is the stack.  A matrix is a function on the pairs of        *)
(* registers of the lower and the higher node of its edge.  Costs are      *)
(* integers, so the order of additions does not matter here.               *)
(***************************************************************************)
EXTENDS Integers, Sequences, FiniteSets, SequencesExt, FiniteSetsExt

CONSTANTS
  Nodes,       \* the nodes, numbered in the order they were first touched
  Domain,      \* [Nodes -> the registers a node can have]; 0 is spilling
  SaveClass,   \* [register -> the side of a call that saves it]
  Crossing,    \* the nodes that are alive across a call
  EdgeKinds,   \* the functions from pairs of nodes to the edge between them
  NodeCosts,   \* the cost tables nodes can start with
  Inf,         \* infCost
  Limit        \* above every finite cost

Concrete(n) == 0 \notin Domain[n]

ASSUME NodesAssumption == IsFiniteSet(Nodes) /\ Nodes = 1 .. Cardinality(Nodes)
\* kKinds: a physical register has a node of its own and no other to choose from.
ASSUME DomainAssumption ==
  \A n \in Nodes :
    /\ Domain[n] \subseteq Nat /\ IsFiniteSet(Domain[n])
    /\ Concrete(n) => \E r \in Domain[n] : Domain[n] = {r}
    /\ \A m \in Nodes : Concrete(n) /\ Domain[m] = Domain[n] => m = n
ASSUME CostAssumption ==
  /\ Inf \in Nat /\ Limit \in Nat /\ Limit <= Inf
  /\ \A c \in NodeCosts :
       DOMAIN c = Nodes /\ \A n \in Nodes : c[n] \in [Domain[n] -> Int]

\* The dearest finite cost of a table.
Dearest(t) == Max({0} \cup {t[r] : r \in {q \in DOMAIN t : t[q] < Inf}})
\* The limit tells a finite cost from an infinite one (min_cost: "needs to be lower
\* then INF since inf should never be chosen"), also when finite costs are added up.
ASSUME RoomAssumption ==
  \A c \in NodeCosts :
    FoldSet(LAMBDA n, acc : Dearest(c[n]) + acc, 0, Nodes) < Limit

CopyDiscount == -2
Key(a, b) == IF a < b THEN <<a, b>> ELSE <<b, a>>
Pairs == {p \in Nodes \X Nodes : p[1] < p[2]}
Add(x, y) == IF x >= Inf \/ y >= Inf THEN Inf ELSE x + y

VARIABLES
  given,    \* [edges, cost: the graph that was set up; kind: of each edge]
  edges,    \* CostGraph::edges by edge_lookup's key
  cost,     \* CostGraph::node_costs
  neigh,    \* CostGraph::neighbours
  active,   \* CostGraph::active
  activePos,\* CostGraph::active_pos
  pos,      \* the scan's position in active
  low,      \* found_low_degree_node
  exact,    \* history: no edge was dropped
  stack,    \* allocation_stack
  phase,    \* "reduce", "colour", "coalesce", "done"
  assign,   \* assignments, by node
  spilled,  \* needs_spilling
  copies    \* the copies coalesce_copies has left to try, two rounds of them

graph == <<edges, cost, neigh, active, activePos>>
vars == <<given, graph, pos, low, exact, stack, phase, assign, spilled, copies>>

----------------------------------------------------------------------------
(* The graph that is set up. *)

Interference(p) ==
  [r \in Domain[p[1]] \X Domain[p[2]] |->
     IF r[1] = r[2] /\ r[1] >= 1 THEN Inf ELSE 0]

\* A copy seen again is discounted again; interference stays infinite.
Discounted(p, times) ==
  [r \in Domain[p[1]] \X Domain[p[2]] |->
     IF r[1] = r[2] /\ r[1] >= 1 THEN times * CopyDiscount ELSE 0]

Matrix(p, kind) ==
  IF kind = "interfere" THEN Interference(p)
  ELSE Discounted(p, IF kind = "copy" THEN 1 ELSE 2)

\* The elements of list that are in S, in their order.
Keeping(list, S) ==
  FoldLeft(LAMBDA kept, m : IF m \in S THEN Append(kept, m) ELSE kept, <<>>, list)

InOrder == [n \in Nodes |-> n]

Init ==
  \E kind \in EdgeKinds, c \in NodeCosts :
    LET present == {p \in Pairs : kind[p] # "none"} IN
    /\ given = [edges |-> [p \in present |-> Matrix(p, kind[p])], cost |-> c,
                kind |-> kind]
    /\ edges = given.edges
    /\ cost = c
    /\ neigh = [n \in Nodes |->
                  Keeping(InOrder, {m \in Nodes : Key(n, m) \in present})]
    /\ active = InOrder
    /\ activePos = [n \in Nodes |-> CHOOSE k \in DOMAIN active : active[k] = n]
    /\ pos = 1 /\ low = FALSE /\ exact = TRUE /\ stack = <<>> /\ phase = "reduce"
    /\ assign = [n \in Nodes |->
                   IF Concrete(n) THEN CHOOSE r \in Domain[n] : TRUE ELSE 0]
    /\ spilled = {} /\ copies = <<>>

----------------------------------------------------------------------------
(* Reductions. *)

CostOf(m, a, ra, b, rb) == IF a < b THEN m[<<ra, rb>>] ELSE m[<<rb, ra>>]
EdgeCost(a, ra, b, rb) == CostOf(edges[Key(a, b)], a, ra, b, rb)
Without(list, n) == Keeping(list, Nodes \ {n})

\* Mutant: the node that moves keeps its old position.
EraseActiveStale(k) ==
  /\ active' = IF k = Len(active) THEN Front(active)
               ELSE Front([active EXCEPT ![k] = Last(active)])
  /\ UNCHANGED activePos

\* The last node moves into the hole.
EraseActive(k) ==
  IF k = Len(active)
  THEN active' = Front(active) /\ UNCHANGED activePos
  ELSE /\ active' = Front([active EXCEPT ![k] = Last(active)])
       /\ activePos' = [activePos EXCEPT ![Last(active)] = k]

\* What is needed to colour n later: its edges as they are now.
Record(n, type) ==
  [type |-> type, node |-> n,
   edges |-> {[other |-> m, costs |-> edges[Key(n, m)]] : m \in Range(neigh[n])}]

Detached(n) ==
  [m \in Nodes |-> IF m = n THEN <<>> ELSE Without(neigh[m], n)]

Scanning(n) ==
  /\ phase = "reduce" /\ pos <= Len(active)
  /\ n = active[pos] /\ ~Concrete(n)

\* For each register of the neighbour, the cheapest register of n is paid.
R1Reduction(n) ==
  /\ Scanning(n) /\ Len(neigh[n]) = 1
  /\ LET b == neigh[n][1]
         best == [r \in Domain[b] |->
                    Min({Add(EdgeCost(n, q, b, r), cost[n][q]) : q \in Domain[n]})]
     IN cost' = [cost EXCEPT ![b] = [r \in Domain[b] |-> Add(@[r], best[r])]]
  /\ stack' = Append(stack, Record(n, "R1"))
  /\ neigh' = Detached(n)
  /\ EraseActive(pos) /\ low' = TRUE
  /\ UNCHANGED <<given, edges, pos, exact, phase, assign, spilled, copies>>

\* Mutant: the costs of the edge that is there are overwritten.
R2ThroughFresh(n, a, c) ==
  LET k == Key(a, c)
      through(ra, rc) ==
        Min({Add(Add(EdgeCost(a, ra, n, q), cost[n][q]), EdgeCost(n, q, c, rc)) :
               q \in Domain[n]})
  IN [r \in Domain[k[1]] \X Domain[k[2]] |->
        IF k[1] = a THEN through(r[1], r[2]) ELSE through(r[2], r[1])]

R2Through(n, a, c) ==
  LET k == Key(a, c)
      through(ra, rc) ==
        Min({Add(Add(EdgeCost(a, ra, n, q), cost[n][q]), EdgeCost(n, q, c, rc)) :
               q \in Domain[n]})
  IN [r \in Domain[k[1]] \X Domain[k[2]] |->
        Add(IF k \in DOMAIN edges THEN edges[k][r] ELSE 0,
            IF k[1] = a THEN through(r[1], r[2]) ELSE through(r[2], r[1]))]

\* The neighbours get an edge that costs the cheapest register of n in
\* between, added to the edge they have.
R2Reduction(n) ==
  /\ Scanning(n) /\ Len(neigh[n]) = 2
  /\ LET a == neigh[n][1]
         c == neigh[n][2]
         k == Key(a, c)
         without == Detached(n)
     IN /\ edges' = [p \in DOMAIN edges \cup {k} |->
                       IF p = k THEN R2Through(n, a, c) ELSE edges[p]]
        /\ neigh' = IF k \in DOMAIN edges THEN without
                    ELSE [without EXCEPT ![a] = Append(@, c), ![c] = Append(@, a)]
  /\ stack' = Append(stack, Record(n, "R2"))
  /\ EraseActive(pos) /\ low' = TRUE
  /\ UNCHANGED <<given, cost, pos, exact, phase, assign, spilled, copies>>

SkipNode ==
  /\ phase = "reduce" /\ pos <= Len(active)
  /\ Concrete(active[pos]) \/ Len(neigh[active[pos]]) \notin {1, 2}
  /\ pos' = pos + 1
  /\ UNCHANGED <<given, graph, low, exact, stack, phase, assign, spilled, copies>>

\* Mutant: the flag is not reset.
RescanForever ==
  /\ phase = "reduce" /\ pos > Len(active) /\ low
  /\ pos' = 1
  /\ UNCHANGED <<given, graph, low, exact, stack, phase, assign, spilled, copies>>

Rescan ==
  /\ phase = "reduce" /\ pos > Len(active) /\ low
  /\ pos' = 1 /\ low' = FALSE
  /\ UNCHANGED <<given, graph, exact, stack, phase, assign, spilled, copies>>

Spillable == {n \in Range(active) : ~Concrete(n) /\ neigh[n] # <<>>}

\* The cheapest spill per edge, the first of them in the order of the graph.
Victim(n) ==
  LET metricLess(a, b) ==
        cost[a][0] * Len(neigh[b]) < cost[b][0] * Len(neigh[a])
      index(m) == CHOOSE k \in DOMAIN active : active[k] = m
  IN /\ n \in Spillable
     /\ \A m \in Spillable \ {n} :
          \/ metricLess(n, m)
          \/ ~metricLess(m, n) /\ index(n) < index(m)

RMReduction(n) ==
  /\ phase = "reduce" /\ pos > Len(active) /\ ~low /\ Victim(n)
  /\ stack' = Append(stack, Record(n, "RM"))
  /\ neigh' = Detached(n)
  /\ EraseActive(activePos[n])
  /\ pos' = 1 /\ exact' = FALSE
  /\ UNCHANGED <<given, edges, cost, low, phase, assign, spilled, copies>>

\* Nothing is left to reduce: the rest of the graph is pushed without edges.
EndReduction ==
  /\ phase = "reduce" /\ pos > Len(active) /\ ~low /\ Spillable = {}
  /\ LET rest == Keeping(active, {n \in Nodes : ~Concrete(n)})
     IN stack' = stack \o [i \in DOMAIN rest |->
                             [type |-> "RM", node |-> rest[i], edges |-> {}]]
  /\ phase' = "colour"
  /\ UNCHANGED <<given, graph, pos, low, exact, assign, spilled, copies>>

----------------------------------------------------------------------------
(* actually_allocate and coalesce_copies *)

\* The first cheapest register in the order of the domain, a register before
\* the stack; the stack if every cost is beyond the limit.
Choice(sel, dom) ==
  LET best == {r \in dom : sel[r] < Limit /\ \A q \in dom : sel[r] <= sel[q]}
  IN IF best \ {0} # {} THEN Min(best \ {0}) ELSE 0

\* What register r of u costs on the edges of its record.
EdgesPaid(u, r, record) ==
  FoldSet(LAMBDA e, acc : Add(CostOf(e.costs, u, r, e.other, assign[e.other]), acc),
          0, record)

Colour ==
  /\ phase = "colour" /\ stack # <<>>
  /\ LET u == Last(stack).node
         sel == [r \in Domain[u] |->
                   Add(cost[u][r], EdgesPaid(u, r, Last(stack).edges))]
     IN /\ assign' = [assign EXCEPT ![u] = Choice(sel, Domain[u])]
        /\ spilled' = IF assign'[u] = 0 THEN spilled \cup {u} ELSE spilled
  /\ stack' = Front(stack)
  /\ UNCHANGED <<given, graph, pos, low, exact, phase, copies>>

\* The copies between coloured registers that do not interfere, hottest first:
\* their weights order them in any way, the same way in both rounds.
StartCoalescing ==
  /\ phase = "colour" /\ stack = <<>>
  /\ LET Coloured(n) == ~Concrete(n) /\ assign[n] # 0
         found == {p \in Pairs : /\ given.kind[p] \in {"copy", "copies"}
                                 /\ Coloured(p[1]) /\ Coloured(p[2])}
     IN \E order \in SetToSeqs(found) : copies' = order \o order
  /\ phase' = "coalesce"
  /\ UNCHANGED <<given, graph, pos, low, exact, stack, assign, spilled>>

Interfering(n) == {m \in Nodes \ {n} : given.kind[Key(n, m)] = "interfere"}

\* Mutant: interference is not looked at.
CanMoveBlindly(n, to) ==
  /\ to # 0 /\ to \in Domain[n]
  /\ SaveClass[to] # SaveClass[assign[n]] => n \notin Crossing

\* A value that lives across calls keeps its kind of register.
CanMove(n, to) ==
  /\ to # 0 /\ to \in Domain[n]
  /\ SaveClass[to] # SaveClass[assign[n]] => n \notin Crossing
  /\ \A m \in Interfering(n) : assign[m] # to

Coalesce ==
  /\ phase = "coalesce" /\ copies # <<>>
  /\ LET d == Head(copies)[1]
         s == Head(copies)[2]
     IN assign' =
          IF CanMove(d, assign[s]) THEN [assign EXCEPT ![d] = assign[s]]
          ELSE IF CanMove(s, assign[d]) THEN [assign EXCEPT ![s] = assign[d]]
          ELSE assign
  /\ copies' = Tail(copies)
  /\ UNCHANGED <<given, graph, pos, low, exact, stack, phase, spilled>>

Finish ==
  /\ phase = "coalesce" /\ copies = <<>>
  /\ phase' = "done"
  /\ UNCHANGED <<given, graph, pos, low, exact, stack, assign, spilled, copies>>

Done == phase = "done" /\ UNCHANGED vars

Next ==
  \/ \E n \in Nodes : R1Reduction(n)
  \/ \E n \in Nodes : R2Reduction(n)
  \/ SkipNode
  \/ Rescan
  \/ \E n \in Nodes : RMReduction(n)
  \/ EndReduction
  \/ Colour
  \/ StartCoalescing
  \/ Coalesce
  \/ Finish
  \/ Done

Spec == Init /\ [][Next]_vars /\ WF_vars(Next)

----------------------------------------------------------------------------
(* Properties *)

\* The adjacency lists of the nodes still in the graph are symmetric, name no
\* node twice and no node that was taken out, and agree with edge_lookup; every
\* such node is where active_pos says.
AdjacencyAgrees ==
  \A n \in Range(active) :
    /\ activePos[n] \in DOMAIN active /\ active[activePos[n]] = n
    /\ IsInjective(neigh[n])
    /\ \A m \in Nodes :
         m \in Range(neigh[n]) <=>
           m \in Range(active) /\ m # n /\ Key(n, m) \in DOMAIN edges

\* No two values that interfere share a register, whatever was folded, dropped
\* or coalesced; the precoloured nodes count.
NoConflict ==
  phase \in {"coalesce", "done"} =>
    \A n \in Nodes : assign[n] # 0 => \A m \in Interfering(n) : assign[m] # assign[n]

TotalCost(a) ==
  Add(FoldSet(LAMBDA n, acc : Add(given.cost[n][a[n]], acc), 0, Nodes),
      FoldSet(LAMBDA p, acc : Add(given.edges[p][<<a[p[1]], a[p[2]]>>], acc),
              0, DOMAIN given.edges))

Assignments == {a \in [Nodes -> UNION {Domain[n] : n \in Nodes}] :
                  \A n \in Nodes : a[n] \in Domain[n]}

\* Reductions of degree one and two lose nothing: a graph that needed no
\* other is coloured at minimal cost.
ExactIsOptimal ==
  phase = "colour" /\ stack = <<>> /\ exact =>
    \A a \in Assignments : TotalCost(assign) <= TotalCost(a)

\* The solver ends: every scan that reduced nothing drops a node or is the last.
Terminates == <>(phase = "done")
=============================================================================
