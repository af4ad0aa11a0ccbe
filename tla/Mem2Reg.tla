------------------------------ MODULE Mem2Reg -------------------------------
(***************************************************************************)
(* Promotion of a stack slot to block arguments                            *)
(* (optim/func_passes/mem2reg.cpp): an argument at every block of the      *)
(* iterated dominance frontier of the stores, then a depth first search    *)
(* over the graph with a stack of current values, which gives each load    *)
(* its value and each edge its argument.  One slot is followed; the pass   *)
(* treats each like the only one.                                          *)
(*                                                                         *)
(* The promoted function is then run next to the original one along every  *)
(* path, the way a simulation relation is checked.                         *)
(***************************************************************************)
EXTENDS Dominators

CONSTANT Statements   \* per graph, the loads and stores its blocks may have

VARIABLES
  body,     \* the loads and stores of each block
  step,     \* what the pass does next
  args,     \* the blocks that get an argument for the slot
  frames,   \* the search: blocks, the next target, the value stored last
  seen,     \* blocks the search has entered
  loadVal,  \* the value that replaces each load
  edgeArg,  \* the argument handed to a block by each of its predecessors
  run       \* both functions running: the block, the slot and the arguments

m2rVars == <<body, step, args, frames, seen, loadVal, edgeArg, run>>

\* Values: what a store wrote, the argument of a block, nothing yet.
Stored(b, i) == <<"stored", b, i>>
Argument(b)  == <<"argument", b>>
Unset        == <<"unset">>
Uninit       == <<"uninit">>    \* uninit_load_value, poison or zero
Zero         == <<"zero">>

M2rInit ==
  /\ body = <<>> /\ step = "idle" /\ args = {} /\ frames = <<>> /\ seen = {}
  /\ loadVal = <<>> /\ edgeArg = <<>> /\ run = <<>>

StoringBlocks == {b \in Bs : Contains(body[b], "store")}

\* phi_insert_locations: frontiers until nothing new comes up.
IteratedFrontier(S) ==
  LET Grown[i \in 0 .. Len(succ)] ==
        IF i = 0 THEN UNION {frontier[b] : b \in S}
        ELSE LET last == Grown[i - 1] IN last \cup UNION {frontier[b] : b \in last}
  IN  Grown[Len(succ)]

\* The last value on the stack of maps: decide_variable_value.
Current(stackOfValues) ==
  LET set == {i \in DOMAIN stackOfValues : stackOfValues[i].val # Unset}
  IN  IF set = {} THEN Unset ELSE stackOfValues[Max(set)].val

\* The value of the slot before statement i of b, when In is the value at its start.
SlotBefore(b, i, In) ==
  LET stores == {k \in 1 .. i - 1 : body[b][k] = "store"}
  IN  IF stores = {} THEN In ELSE Stored(b, Max(stores))
SlotAfter(b, In) == SlotBefore(b, Len(body[b]) + 1, In)

\* Mutant of Enter: the search is left before the edge gets its argument.
EnterOnce(b, from, below) ==
  LET current == Current(below)
      In == IF b \in args THEN Argument(b) ELSE current
      fresh == b \notin seen
  IN  /\ edgeArg' = IF fresh /\ from # None /\ b \in args
                    THEN [edgeArg EXCEPT ![<<from, b>>] = IF current = Unset THEN Zero ELSE current]
                    ELSE edgeArg
      /\ seen' = seen \cup {b}
      /\ loadVal' = IF fresh
                    THEN [x \in DOMAIN loadVal |->
                            IF x[1] # b THEN loadVal[x]
                            ELSE IF SlotBefore(b, x[2], In) = Unset THEN Uninit
                            ELSE SlotBefore(b, x[2], In)]
                    ELSE loadVal
      /\ frames' = IF fresh
                   THEN Append(below, [bb |-> b, next |-> 1,
                          val |-> SlotAfter(b, IF b \in args THEN Argument(b) ELSE Unset)])
                   ELSE below

\* decide_values_start_from: the argument of the edge comes first, and only a
\* block that was not entered before has its loads replaced.
Enter(b, from, below) ==
  LET current == Current(below)
      In == IF b \in args THEN Argument(b) ELSE current
      fresh == b \notin seen
  IN  /\ edgeArg' = IF from # None /\ b \in args
                    THEN [edgeArg EXCEPT ![<<from, b>>] = IF current = Unset THEN Zero ELSE current]
                    ELSE edgeArg
      /\ seen' = seen \cup {b}
      /\ loadVal' = IF fresh
                    THEN [x \in DOMAIN loadVal |->
                            IF x[1] # b THEN loadVal[x]
                            ELSE IF SlotBefore(b, x[2], In) = Unset THEN Uninit
                            ELSE SlotBefore(b, x[2], In)]
                    ELSE loadVal
      /\ frames' = IF fresh
                   THEN Append(below, [bb |-> b, next |-> 1,
                          val |-> SlotAfter(b, IF b \in args THEN Argument(b) ELSE Unset)])
                   ELSE below

InsertArgs ==
  /\ phase = "done" /\ step = "idle"
  /\ body' \in Statements[succ]
  /\ step' = "insert"
  /\ UNCHANGED <<args, frames, seen, loadVal, edgeArg, run, domVars>>

StartSearch ==
  /\ step = "insert"
  /\ args' = IteratedFrontier(StoringBlocks)
  /\ loadVal' = [x \in {<<b, i>> \in Bs \X (1 .. 2) : i \in DOMAIN body[b] /\ body[b][i] = "load"}
                  |-> Unset]
  /\ edgeArg' = [e \in {<<p, b>> \in Bs \X Bs : b \in Range(succ[p])} |-> Unset]
  /\ step' = "enter"
  /\ UNCHANGED <<body, frames, seen, run, domVars>>

EnterEntry ==
  /\ step = "enter"
  /\ Enter(Entry, None, <<>>)
  /\ step' = "search"
  /\ UNCHANGED <<body, args, run, domVars>>

\* One round of the search.
Decide ==
  /\ step = "search" /\ frames # <<>>
  /\ LET top == Last(frames) IN
     IF top.next <= Len(succ[top.bb])
     THEN Enter(succ[top.bb][top.next], top.bb,
                Append(Front(frames), [top EXCEPT !.next = @ + 1]))
     ELSE /\ frames' = Front(frames)
          /\ UNCHANGED <<seen, loadVal, edgeArg>>
  /\ UNCHANGED <<body, args, step, run, domVars>>

-----------------------------------------------------------------------------
(* Both functions, run together. *)

\* A value in the promoted function, given what the block arguments hold.
Eval(v, env) == IF v[1] = "argument" THEN env[v[2]] ELSE v

StartRun ==
  /\ step = "search" /\ frames = <<>>
  /\ run' = [at |-> Entry, slot |-> Uninit, env |-> [b \in args |-> Uninit]]
  /\ step' = "run"
  /\ UNCHANGED <<body, args, frames, seen, loadVal, edgeArg, domVars>>

TakeEdge ==
  /\ step = "run"
  /\ \E t \in Range(succ[run.at]) :
       run' = [at |-> t, slot |-> SlotAfter(run.at, run.slot),
               env |-> IF t \in args
                       THEN [run.env EXCEPT ![t] = Eval(edgeArg[<<run.at, t>>], run.env)]
                       ELSE run.env]
  /\ UNCHANGED <<body, step, args, frames, seen, loadVal, edgeArg, domVars>>

M2rNext == InsertArgs \/ StartSearch \/ EnterEntry \/ Decide \/ StartRun \/ TakeEdge

-----------------------------------------------------------------------------
(* Properties. *)

\* Wherever the two functions are, the value that replaced a load is the one
\* the slot holds there, unless nothing was stored to the slot before.
LoadsSeeTheSlot ==
  step = "run" =>
    \A x \in DOMAIN loadVal : x[1] = run.at =>
      LET held == SlotBefore(x[1], x[2], run.slot)
      IN  held = Uninit \/ Eval(loadVal[x], run.env) = held
=============================================================================
