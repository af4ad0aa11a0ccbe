----------------------------- MODULE MCKnownBits -----------------------------
(***************************************************************************)
(* The attributer with its analysis, and what is folded from its facts, on *)
(* small functions: every operation on every pair of facts about three bit *)
(* integers, operands that are constant, equal or poison, and two bit      *)
(* loops, where what is known of a block argument depends on itself.       *)
(***************************************************************************)
EXTENDS Attributer, InstFold

Known1(op, w, k)   == [op |-> op, w |-> w, args |-> <<>>, known |-> k, pred |-> "EQ"]
Const(s, w)        == Known1("Const", w, Exactly(s, w))
Given(k, w)        == Known1("Given", w, k)
Anything(w)        == Known1("Any", w, Unknown)
Poison(w)          == Known1("Poison", w, Unknown)
Node1(op, w, args) == [Known1(op, w, Unknown) EXCEPT !.args = args]
ICmp(pred, a, b)   == [Node1("ICmp", 1, <<a, b>>) EXCEPT !.pred = pred]

Predicates == {"EQ", "NE", "ULT", "ULE", "UGT", "UGE", "SLT", "SLE", "SGT", "SGE"}

\* What may be known of w bits.
Facts(w)     == {Known(s \cap t, s \ t) : s, t \in SUBSET All(w)}
Constants(w) == {Const(s, w) : s \in SUBSET All(w)}

Binary ==
  {<<Given(a, 3), Given(b, 3), Node1(op, 3, <<1, 2>>)>> :
     a, b \in Facts(3), op \in BinaryOps \cup MinMaxOps}

Unary ==
  {<<Given(a, 3), Node1(op, 3, <<1>>)>> : a \in Facts(3), op \in {"Not", "IntNeg", "Abs"} \cup CountOps}
    \cup {<<Given(a, 2), Node1(op, w, <<1>>)>> :
            a \in Facts(2), w \in {1, 2, 3}, op \in {"ZExt", "SExt", "ITrunc"}}
    \cup {<<Given(a, 2), Given(b, 2), ICmp(pred, 1, 2), Node1("Select", 2, <<3, 1, 2>>)>> :
            a, b \in Facts(2), pred \in Predicates}

\* Operands that fold: constants, poison, the same value twice, a double negation.
Folding ==
  LET leaves == {Anything(2), Poison(2)} \cup Constants(2)
  IN {<<a, b, Node1(op, 2, args)>> :
        a, b \in leaves, args \in {<<1, 2>>, <<2, 2>>}, op \in BinaryOps \cup MinMaxOps}
     \cup {<<a, b, ICmp(pred, 1, y)>> : a, b \in leaves, y \in {1, 2}, pred \in Predicates}
     \cup {<<a, Node1("Not", 2, <<1>>), Node1(op, 2, <<x>>)>> : x \in {1, 2}, a \in leaves, op \in {"Not", "IntNeg", "Abs"}}
     \cup {<<a, Node1(op, w, <<1>>)>> :
             a \in leaves, w \in {1, 2, 3}, op \in {"ZExt", "SExt", "ITrunc"}}
     \cup {<<c, a, b, Node1("Select", 2, <<1, 2, y>>)>> :
             a, b \in leaves, y \in {2, 3}, c \in {Anything(1), Poison(1)} \cup Constants(1)}

\* A block argument that starts as x and comes back as a function of itself.
Loops ==
  {<<Anything(2), Const(c, 2), Node1("Phi", 2, <<x, 5>>),
     Node1(op, 2, <<3, 2>>), Node1(last, 2, <<4, y>>)>> :
     c \in {{0}, {1}}, x \in {1, 2}, op \in BinaryOps,
     last \in BinaryOps \cup {"UMax", "SMin"}, y \in {1, 2, 3}}

Clean(body) == [body |-> body, nsw |-> {}, nuw |-> {}]
MCCodes     == {Clean(body) : body \in Binary \cup Unary \cup Folding \cup Loops}
MCValues    == 1..5

\* A pass asks about an instruction, the folder about the operands of a comparison.
MCAsks(c)   == LET n == Node(c, Len(c.body))
               IN IF n.op = "ICmp" THEN Range(n.args) ELSE {Len(c.body)}

\* The pass makes the constant of a loop the other one.
MCEdits(c) ==
  IF Len(c.body) < 5 THEN {}
  ELSE {Clean([c.body EXCEPT ![2] = Const(IF @.known.one = {0} THEN {1} ELSE {0}, 2)])}

-----------------------------------------------------------------------------
(* Properties *)

\* After a run, in every execution: a bit known to be one is one, a bit known to be
\* zero is zero, no bit is known to be both (which commit and the users assert), and
\* an add that got NSW or NUW does not wrap.
FactsSound ==
  (~running /\ forced = {} /\ created # {}) =>
    LET prog == code.body
    IN /\ \A v \in created : fact[v].one \cap fact[v].zero = {}
       /\ \A x \in Executions(prog) :
            /\ \A v \in created : \A s \in x[v] : fact[v].one \subseteq s /\ fact[v].zero \cap s = {}
            /\ \A v \in code.nsw \cup code.nuw : \A a \in x[prog[v].args[1]], b \in x[prog[v].args[2]] :
                 /\ v \in code.nsw => Signed(a, prog[v].w) + Signed(b, prog[v].w)
                                         \in -(2 ^ (prog[v].w - 1)) .. (2 ^ (prog[v].w - 1) - 1)
                 /\ v \in code.nuw => Num(a) + Num(b) < 2 ^ prog[v].w

\* A node is folded only to what it is in every execution, a constant or a value that
\* is there already, and to poison only where it is poison; where the node is poison
\* anything is right.  Comparisons are folded from the facts a run left.
FoldIsExact ==
  (~running /\ forced = {} /\ created # {}) =>
    LET folds == {v \in DOMAIN code.body :
                    /\ Node(code, v).op = "ICmp" => Range(Node(code, v).args) \subseteq created
                    /\ Fold(code, v, fact) # NoFold}
    IN folds # {} =>
         \A x \in Executions(code.body), v \in folds : \A s \in x[v], r \in Fold(code, v, fact) :
           CASE r.to = "Const" -> r.bits = s
             [] r.to = "Value" -> x[r.node] = {s}
             [] r.to = "Poison" -> FALSE
=============================================================================
