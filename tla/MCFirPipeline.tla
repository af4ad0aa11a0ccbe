---------------------------- MODULE MCFirPipeline ----------------------------
(* f calls g, which uses the global, and h calls f.  "lvn" is an ordinary      *)
(* function pass, "vec" reads the bodies it calls, "print" is never skipped,    *)
(* "ipcp" and "inline" are module passes.                                       *)
EXTENDS FirPipeline
CONSTANTS f, g, h
MCCallees  == [x \in {f, g, h} |-> IF x = f THEN {g} ELSE IF x = h THEN {f} ELSE {}]
MCPipeline == <<"lvn", "vec", "ipcp", "inline", "print", "vec">>
MCBisects  == {-1, 3}
=============================================================================
