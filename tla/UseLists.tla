------------------------------ MODULE UseLists ------------------------------
(***************************************************************************)
(* Operands and use lists of the FIR (ir/instruction.cpp, ir/use.cpp).     *)
(* Every operand of an instruction, an argument, a target block or an      *)
(* argument handed to a target block, is also recorded as a Use at the     *)
(* value it names.  A Use is the position of the operand, so removing an   *)
(* operand moves the records of all operands behind it.                    *)
(*                                                                         *)
(* The operations are sequential: a job edits the instructions of its own  *)
(* function, and the lists that several jobs share, those of functions and *)
(* globals, are changed one record at a time under the list's mutex, for   *)
(* positions no other job owns.                                            *)
(***************************************************************************)
EXTENDS Naturals, Sequences, FiniteSets, SequencesExt

CONSTANTS
  Instrs,      \* instructions, which are values: their result
  Blocks,      \* basic blocks, which are operands of terminators
  BlockArgs,   \* block arguments
  Untracked,   \* constants that keep no use list
  Invalid,     \* ValueR()
  MaxOperands  \* bound on the operands of all instructions

Nowhere == "nowhere"

\* Values of different kinds are different.
ASSUME KindsAssumption ==
  /\ Instrs \cap Blocks = {} /\ Instrs \cap BlockArgs = {} /\ Blocks \cap BlockArgs = {}
  /\ (Untracked \cup {Invalid}) \cap (Instrs \cup Blocks \cup BlockArgs) = {}
  /\ Nowhere \notin Blocks
ASSUME MaxOperandsAssumption == MaxOperands \in Nat

Tracked == Instrs \cup Blocks \cup BlockArgs
Values == (Tracked \ Blocks) \cup Untracked \cup {Invalid}

VARIABLES
  ir,      \* [args, bbs: the operands of each instruction, uses: the list of
           \*  each tracked value, missing: a record to remove was not there]
  parent,  \* the block of an instruction, Nowhere before and after its life
  attached \* the block arguments that still belong to a block

usesVars == <<ir, parent, attached>>

Norm(i, k) == <<i, "NormalArg", k, 1>>
BB(i, k) == <<i, "BB", k, 1>>
BBArg(i, k, a) == <<i, "BBArg", k, a>>

Alive(i) == parent[i] # Nowhere
LiveValues == {i \in Instrs : Alive(i)} \cup attached \cup Untracked

\* The positions of all operands.
Operands(s) ==
  UNION {{Norm(i, k) : k \in DOMAIN s.args[i]}
         \cup {BB(i, k) : k \in DOMAIN s.bbs[i]}
         \cup UNION {{BBArg(i, k, a) : a \in DOMAIN s.bbs[i][k].args} : k \in DOMAIN s.bbs[i]}
           : i \in Instrs}

\* Use::get_value, for blocks too.
ValueAt(s, u) ==
  IF u[2] = "NormalArg" THEN s.args[u[1]][u[3]]
  ELSE IF u[2] = "BB" THEN s.bbs[u[1]][u[3]].bb
  ELSE s.bbs[u[1]][u[3]].args[u[4]]

Room == Cardinality(Operands(ir)) < MaxOperands

UsesInit ==
  /\ ir = [args |-> [i \in Instrs |-> <<>>], bbs |-> [i \in Instrs |-> <<>>],
           uses |-> [v \in Tracked |-> <<>>], missing |-> FALSE]
  /\ parent = [i \in Instrs |-> Nowhere]
  /\ attached = BlockArgs

----------------------------------------------------------------------------
(* One operation on a list or an operand, as a function of the ir. *)

NoUse == <<>>

AddUsage(s, v, u) ==
  IF v \in Tracked /\ u # NoUse THEN [s EXCEPT !.uses[v] = Append(@, u)] ELSE s

\* Without verify a record that is not there is passed over.
RemoveUsage(s, v, u, verify) ==
  IF v \notin Tracked \/ u = NoUse THEN s
  ELSE IF u \in Range(s.uses[v]) THEN [s EXCEPT !.uses[v] = RemoveFirst(@, u)]
  ELSE [s EXCEPT !.missing = @ \/ verify]

SetOperand(s, u, v) ==
  IF u[2] = "NormalArg" THEN [s EXCEPT !.args[u[1]][u[3]] = v]
  ELSE IF u[2] = "BB" THEN [s EXCEPT !.bbs[u[1]][u[3]].bb = v]
  ELSE [s EXCEPT !.bbs[u[1]][u[3]].args[u[4]] = v]

ReplaceOperand(s, u, v, verify) ==
  IF ValueAt(s, u) = v THEN s
  ELSE AddUsage(RemoveUsage(SetOperand(s, u, v), ValueAt(s, u), u, verify), v, u)

\* The records a loop over operands changes: it takes them out, moves them to the
\* position before in coordinate c, or puts them in.
Drops(s, us)    == [x \in DOMAIN us |-> [value |-> ValueAt(s, us[x]), from |-> us[x], to |-> NoUse]]
Moves(s, us, c) == [x \in DOMAIN us |-> [value |-> ValueAt(s, us[x]), from |-> us[x],
                                         to |-> [us[x] EXCEPT ![c] = @ - 1]]]
Adds(s, us)     == [x \in DOMAIN us |-> [value |-> ValueAt(s, us[x]), from |-> NoUse, to |-> us[x]]]

Relist(s, steps) ==
  FoldLeft(LAMBDA t, m : AddUsage(RemoveUsage(t, m.value, m.from, TRUE), m.value, m.to),
           s, steps)
RelistEach(s, parts) == FoldLeft(LAMBDA t, steps : Relist(t, steps), s, parts)

ArgUses(s, i)       == [k \in DOMAIN s.args[i] |-> Norm(i, k)]
BBArgUses(s, i, k)  == [a \in DOMAIN s.bbs[i][k].args |-> BBArg(i, k, a)]
TargetUses(s, i, k) == <<BB(i, k)>> \o BBArgUses(s, i, k)

ClearArgs(s, i) == [Relist(s, Drops(s, ArgUses(s, i))) EXCEPT !.args[i] = <<>>]

ClearBBArgs(s, i, k) ==
  [Relist(s, Drops(s, BBArgUses(s, i, k))) EXCEPT !.bbs[i][k].args = <<>>]

ClearBBs(s, i) ==
  [RelistEach(s, [k \in DOMAIN s.bbs[i] |-> Drops(s, Append(BBArgUses(s, i, k), BB(i, k)))])
     EXCEPT !.bbs[i] = <<>>]

\* The records are copied first: each replacement shortens the list.
ReplaceUses(s, copy, which, w, verify) ==
  FoldLeft(LAMBDA t, u : IF u \in which THEN ReplaceOperand(t, u, w, verify) ELSE t, s, copy)
ReplaceEvery(s, v, w) == ReplaceUses(s, s.uses[v], Range(s.uses[v]), w, TRUE)

----------------------------------------------------------------------------
(* The operations the passes call. *)

NewInstr(i, b) ==
  /\ ~Alive(i) /\ parent' = [parent EXCEPT ![i] = b]
  /\ UNCHANGED <<ir, attached>>

AddArg(i, v) ==
  /\ Alive(i) /\ Room
  /\ LET s == [ir EXCEPT !.args[i] = Append(@, v)]
     IN ir' = AddUsage(s, v, Norm(i, Len(s.args[i])))
  /\ UNCHANGED <<parent, attached>>

AddBB(i, b) ==
  /\ Alive(i) /\ Room
  /\ LET s == [ir EXCEPT !.bbs[i] = Append(@, [bb |-> b, args |-> <<>>])]
     IN ir' = AddUsage(s, b, BB(i, Len(s.bbs[i])))
  /\ UNCHANGED <<parent, attached>>

AddBBArg(i, k, v) ==
  /\ Alive(i) /\ Room /\ k \in DOMAIN ir.bbs[i]
  /\ LET s == [ir EXCEPT !.bbs[i][k].args = Append(@, v)]
     IN ir' = AddUsage(s, v, BBArg(i, k, Len(s.bbs[i][k].args)))
  /\ UNCHANGED <<parent, attached>>

ReplaceArg(i, k, v) ==
  /\ Alive(i) /\ k \in DOMAIN ir.args[i]
  /\ ir' = ReplaceOperand(ir, Norm(i, k), v, TRUE)
  /\ UNCHANGED <<parent, attached>>

\* A branch that already goes to b keeps its arguments.
ReplaceBB(i, k, b, keepArgs) ==
  /\ Alive(i) /\ k \in DOMAIN ir.bbs[i]
  /\ LET s == ReplaceOperand(ir, BB(i, k), b, TRUE)
     IN ir' = IF keepArgs \/ ir.bbs[i][k].bb = b THEN s ELSE ClearBBArgs(s, i, k)
  /\ UNCHANGED <<parent, attached>>

\* An argument past the end is first filled in as invalid.
ReplaceBBArg(i, k, a, v) ==
  /\ Alive(i) /\ k \in DOMAIN ir.bbs[i]
  /\ a > Len(ir.bbs[i][k].args) => Room /\ a = Len(ir.bbs[i][k].args) + 1
  /\ LET s == IF a \in DOMAIN ir.bbs[i][k].args THEN ir
              ELSE [ir EXCEPT !.bbs[i][k].args = Append(@, Invalid)]
     IN ir' = ReplaceOperand(s, BBArg(i, k, a), v, TRUE)
  /\ UNCHANGED <<parent, attached>>

\* Mutant: the records of the operands behind keep their index.
RemoveArgUnshifted(i, k) ==
  /\ Alive(i) /\ k \in DOMAIN ir.args[i]
  /\ ir' = [RemoveUsage(ir, ir.args[i][k], Norm(i, k), TRUE)
              EXCEPT !.args[i] = RemoveAt(@, k)]
  /\ UNCHANGED <<parent, attached>>

RemoveArg(i, k) ==
  LET behind == [j \in 1 .. Len(ir.args[i]) - k |-> Norm(i, k + j)]
  IN /\ Alive(i) /\ k \in DOMAIN ir.args[i]
     /\ ir' = [Relist(ir, Moves(ir, behind, 3) \o Drops(ir, <<Norm(i, k)>>))
                 EXCEPT !.args[i] = RemoveAt(@, k)]
     /\ UNCHANGED <<parent, attached>>

RemoveBB(i, k) ==
  LET behind == [j \in 1 .. Len(ir.bbs[i]) - k |-> Moves(ir, TargetUses(ir, i, k + j), 3)]
  IN /\ Alive(i) /\ k \in DOMAIN ir.bbs[i]
     /\ ir' = [RelistEach(ir, Append(behind, Drops(ir, TargetUses(ir, i, k))))
                 EXCEPT !.bbs[i] = RemoveAt(@, k)]
     /\ UNCHANGED <<parent, attached>>

RemoveBBArg(i, k, a) ==
  LET behind == [j \in 1 .. Len(ir.bbs[i][k].args) - a |-> BBArg(i, k, a + j)]
  IN /\ Alive(i) /\ k \in DOMAIN ir.bbs[i] /\ a \in DOMAIN ir.bbs[i][k].args
     /\ ir' = [Relist(ir, Moves(ir, behind, 4) \o Drops(ir, <<BBArg(i, k, a)>>))
                 EXCEPT !.bbs[i][k].args = RemoveAt(@, a)]
     /\ UNCHANGED <<parent, attached>>

\* Mutant: the list is walked while the replacements shorten it.
ReplaceAllUsesInPlace(v, w) ==
  LET uses == ir.uses[v]
  IN ir' = FoldLeft(LAMBDA t, u : ReplaceOperand(t, u, w, TRUE), ir,
                    [k \in 1 .. (Len(uses) + 1) \div 2 |-> uses[2 * k - 1]])
     /\ UNCHANGED <<parent, attached>>

ReplaceAllUses(v, w) ==
  /\ ir' = ReplaceEvery(ir, v, w)
  /\ UNCHANGED <<parent, attached>>

ReplaceUsesOutsideBlock(v, b, w) ==
  LET outside == {u \in Range(ir.uses[v]) : parent[u[1]] # b}
  IN /\ ir' = ReplaceUses(ir, ir.uses[v], outside, w, TRUE)
     /\ UNCHANGED <<parent, attached>>

\* The uses of the result, its own included, become invalid operands.
RemoveInstr(i) ==
  /\ Alive(i)
  /\ ir' = ClearBBs(ClearArgs(ReplaceEvery(ir, i, Invalid), i), i)
  /\ parent' = [parent EXCEPT ![i] = Nowhere]
  /\ UNCHANGED attached

\* destroy clears the operands first, then removes the instruction.
Destroy(i) ==
  /\ Alive(i)
  /\ ir' = ReplaceEvery(ClearBBs(ClearArgs(ir, i), i), i, Invalid)
  /\ parent' = [parent EXCEPT ![i] = Nowhere]
  /\ UNCHANGED attached

RemoveBlockArg(p) ==
  /\ p \in attached
  /\ ir' = ReplaceEvery(ir, p, Invalid)
  /\ attached' = attached \ {p}
  /\ UNCHANGED parent

\* A copied instruction names the operands of the original, then those the
\* substitution gives: here its own result for the original's.
CopyInstr(i, j, b) ==
  LET s == [ir EXCEPT !.args[j] = ir.args[i], !.bbs[j] = ir.bbs[i]]
      copied == RelistEach(Relist(s, Adds(s, ArgUses(s, j))),
                           [k \in DOMAIN s.bbs[j] |-> Adds(s, TargetUses(s, j, k))])
      own == {u \in Operands(copied) : u[1] = j /\ ValueAt(copied, u) = i}
  IN /\ Alive(i) /\ ~Alive(j)
     /\ Cardinality(Operands(copied)) <= MaxOperands
     /\ ir' = ReplaceUses(copied, SetToSeq(own), own, j, FALSE)
     /\ parent' = [parent EXCEPT ![j] = b]
     /\ UNCHANGED attached

UsesNext ==
  \/ \E i \in Instrs, b \in Blocks : NewInstr(i, b)
  \/ \E i \in Instrs, v \in LiveValues : AddArg(i, v)
  \/ \E i \in Instrs, b \in Blocks : AddBB(i, b)
  \/ \E i \in Instrs, k \in 1 .. MaxOperands, v \in LiveValues : AddBBArg(i, k, v)
  \/ \E i \in Instrs, k \in 1 .. MaxOperands, v \in LiveValues : ReplaceArg(i, k, v)
  \/ \E i \in Instrs, k \in 1 .. MaxOperands, b \in Blocks, keep \in BOOLEAN :
       ReplaceBB(i, k, b, keep)
  \/ \E i \in Instrs, k, a \in 1 .. MaxOperands, v \in LiveValues :
       ReplaceBBArg(i, k, a, v)
  \/ \E i \in Instrs, k \in 1 .. MaxOperands : RemoveArg(i, k)
  \/ \E i \in Instrs, k \in 1 .. MaxOperands : RemoveBB(i, k)
  \/ \E i \in Instrs, k, a \in 1 .. MaxOperands : RemoveBBArg(i, k, a)
  \/ \E v \in Instrs \cup BlockArgs, w \in LiveValues : ReplaceAllUses(v, w)
  \/ \E v \in Instrs \cup BlockArgs, b \in Blocks, w \in LiveValues :
       ReplaceUsesOutsideBlock(v, b, w)
  \/ \E b, c \in Blocks : ReplaceAllUses(b, c)
  \/ \E i \in Instrs : RemoveInstr(i)
  \/ \E i \in Instrs : Destroy(i)
  \/ \E p \in BlockArgs : RemoveBlockArg(p)
  \/ \E i, j \in Instrs, b \in Blocks : CopyInstr(i, j, b)

UsesSpec == UsesInit /\ [][UsesNext]_usesVars

----------------------------------------------------------------------------
(* Properties *)

\* No operand names an instruction that was removed or a block argument that
\* its block dropped.
NoUseOfTheDead ==
  \A u \in Operands(ir) : ValueAt(ir, u) \in LiveValues \cup Blocks \cup {Invalid}

\* The list of a value holds each operand that names it, once, and no other:
\* removing an operand renumbers the records of those behind it, and no record
\* that was to be removed was missing (the assertion in ir/use.cpp).
UsesMatchOperands ==
  /\ ~ir.missing
  /\ NoUseOfTheDead
  /\ \A v \in Tracked :
       /\ IsInjective(ir.uses[v])
       /\ Range(ir.uses[v]) = {u \in Operands(ir) : ValueAt(ir, u) = v}

\* replace_all_uses leaves none behind, whatever the replacements do to the
\* list while it is walked, and touches no operand that named another value.
ReplaceIsTotal ==
  [][ \A v \in Instrs \cup BlockArgs, w \in LiveValues :
        (v # w /\ ReplaceAllUses(v, w)) =>
          /\ ir'.uses[v] = <<>>
          /\ Operands(ir') = Operands(ir)
          /\ \A u \in Operands(ir) :
               ValueAt(ir, u) # v => ValueAt(ir', u) = ValueAt(ir, u) ]_usesVars
=============================================================================
