-------------------------- MODULE FirPipelineProofs --------------------------
(***************************************************************************)
(* CacheIsFresh and CleanMeansNoOp for any functions, calls, pipeline and  *)
(* bisect: what a change must drop is decided by who reads what changed.   *)
(***************************************************************************)
EXTENDS FirPipeline, TLAPS

\* The part of a type invariant the proofs need.
Maps ==
  /\ body = [f \in Funcs |-> body[f]]
  /\ DOMAIN shape = Funcs /\ DOMAIN iface = Funcs
  /\ DOMAIN cache = Funcs /\ DOMAIN clean = Funcs
  /\ \A f \in Funcs : DOMAIN clean[f] = Passes
  /\ changed \in BOOLEAN /\ reports \in BOOLEAN

\* A pass that reads other bodies may hold stale bits while a batch runs that has
\* changed something; they are dropped at its end, because changed is set.
Settled(p) == p \in Interprocedural => mode \in {"pick", "between"} \/ ~changed

BitsAreFresh ==
  (mode = "inside" => reports) =>
    \A f \in Funcs, p \in Passes :
      clean[f][p] # NoSnap /\ Settled(p) => clean[f][p] = Reads(f, p)

Inv == Maps /\ CacheIsFresh /\ BitsAreFresh

-----------------------------------------------------------------------------
(* What an analysis and a pass read *)

\* Nothing f is analysed from has changed.
SameSources(f) ==
  /\ body'[f] = body[f] /\ shape'[f] = shape[f]
  /\ \A g \in Callees[f] \cup {f} : iface'[g] = iface[g]
  /\ f \in GlobalUsers => glob' = glob

LEMMA SameBuilt ==
  ASSUME NEW f \in Funcs, SameSources(f)
  PROVE  \A k \in Kinds : Built(f, k)' = Built(f, k)
<1> TAKE k \in Kinds
<1>1. [g \in Callees[f] \cup {f} |-> iface'[g]] = [g \in Callees[f] \cup {f} |-> iface[g]]
  BY DEF SameSources
<1>2. (IF f \in GlobalUsers THEN glob' ELSE 0) = (IF f \in GlobalUsers THEN glob ELSE 0)
  BY DEF SameSources
<1> QED
  BY <1>1, <1>2 DEF SameSources, Built

\* An intraprocedural pass reads what the memory analyses read, the others the
\* bodies of the callees too.
LEMMA SameReads ==
  ASSUME NEW f \in Funcs, NEW p \in Passes, SameSources(f),
         p \in Interprocedural => \A g \in Callees[f] : body'[g] = body[g]
  PROVE  Reads(f, p)' = Reads(f, p)
<1> DEFINE read == IF p \in Interprocedural THEN Callees[f] \ {f} ELSE {}
<1>1. Built(f, "MemAccesses")' = Built(f, "MemAccesses")
  BY SameBuilt DEF Kinds
<1>2. [g \in read |-> body'[g]] = [g \in read |-> body[g]]
  OBVIOUS
<1> QED
  BY <1>1, <1>2 DEF Reads

\* What is asked for is built from what is there now; the rest is as it was.
LEMMA AskedFresh ==
  ASSUME NEW f \in Funcs, NEW R,
         \A k \in Kinds : cache[f][k] # NoSnap => cache[f][k] = Built(f, k)
  PROVE  \A k \in Kinds : Asked(f, R)[k] # NoSnap => Asked(f, R)[k] = Built(f, k)
BY DEF Asked

-----------------------------------------------------------------------------
(* Steps that change nothing in the program *)

LEMMA InitInv == Init => Inv
<1> SUFFICES ASSUME Init PROVE Inv
  OBVIOUS
<1>1. Maps
  BY DEF Init, Maps, NoBits
<1>2. CacheIsFresh
  BY DEF Init, CacheIsFresh, NoCache
<1>3. BitsAreFresh
  BY DEF Init, BitsAreFresh, NoBits
<1> QED
  BY <1>1, <1>2, <1>3 DEF Inv

\* With the program, the cache and the bits unchanged, only the mode matters.
LEMMA Rests ==
  ASSUME Inv, UNCHANGED <<ir, cache, clean>>,
         changed' \in BOOLEAN, reports' \in BOOLEAN,
         (mode' = "inside" => reports') => (mode = "inside" => reports),
         \A p \in Passes : Settled(p)' => Settled(p)
  PROVE  Inv'
<1>1. \A f \in Funcs : SameSources(f)
  BY DEF ir, SameSources
<1>2. \A f \in Funcs, k \in Kinds : Built(f, k)' = Built(f, k)
  BY <1>1, SameBuilt
<1>3. \A f \in Funcs, p \in Passes : Reads(f, p)' = Reads(f, p)
  BY <1>1, SameReads DEF ir
<1>4. Maps'
  BY DEF Inv, Maps, ir
<1>5. CacheIsFresh'
  BY <1>2 DEF Inv, CacheIsFresh
<1>6. BitsAreFresh'
  BY <1>3 DEF Inv, BitsAreFresh
<1> QED
  BY <1>4, <1>5, <1>6 DEF Inv

LEMMA RestingSteps ==
  ASSUME Inv,
         \/ BisectSkip \/ PickBatch \/ BeginModulePass \/ EndModuleBatch
         \/ (\E f \in Funcs : SkipPass(f)) \/ UNCHANGED vars
  PROVE  Inv'
<1> USE DEF Inv, Maps, Settled
<1>1. CASE BisectSkip
  BY <1>1, Rests DEF BisectSkip
<1>2. CASE PickBatch
  BY <1>2, Rests DEF PickBatch
<1>3. CASE BeginModulePass
  BY <1>3, Rests DEF BeginModulePass
<1>4. CASE EndModuleBatch
  BY <1>4, Rests DEF EndModuleBatch
<1>5. CASE \E f \in Funcs : SkipPass(f)
  BY <1>5, Rests DEF SkipPass, ctl
<1>6. CASE UNCHANGED vars
  BY <1>6, Rests DEF vars, ctl
<1> QED
  BY <1>1, <1>2, <1>3, <1>4, <1>5, <1>6

-----------------------------------------------------------------------------
(* Function passes *)

\* A function pass leaves what the other functions are analysed from.
LEMMA PassKeepsInv ==
  ASSUME Inv, NEW f \in Funcs, NEW R, PassKeeps(f, R)
  PROVE  Inv'
<1> DEFINE p0 == Pass(f)
<1>0. /\ mode' = mode /\ changed' = changed /\ reports' = reports /\ mode = "func"
      /\ body' = body /\ shape' = shape /\ iface' = iface /\ glob' = glob
      /\ cache' = [cache EXCEPT ![f] = Invalidated(Asked(f, R), Kinds)]
      /\ \/ clean' = clean
         \/ clean' = [clean EXCEPT ![f][p0] = Reads(f, p0)]
  BY DEF PassKeeps, ir, ctl, Running
<1> HIDE DEF p0
<1>1. \A g \in Funcs : SameSources(g)
  BY <1>0 DEF SameSources
<1>2. \A g \in Funcs, k \in Kinds : Built(g, k)' = Built(g, k)
  BY <1>1, SameBuilt
<1>3. \A g \in Funcs, p \in Passes : Reads(g, p)' = Reads(g, p)
  BY <1>0, <1>1, SameReads
<1>4. Maps'
  BY <1>0 DEF Inv, Maps
<1>5. ASSUME NEW g \in Funcs, NEW k \in Kinds, cache'[g][k] # NoSnap
      PROVE  cache'[g][k] = Built(g, k)
  <2>1. CASE g # f
    BY <1>0, <1>5, <2>1 DEF Inv, Maps, CacheIsFresh
  <2>2. CASE g = f
    <3>1. cache'[f] = Invalidated(Asked(f, R), Kinds)
      BY <1>0 DEF Inv, Maps
    <3>2. cache'[f][k] = Asked(f, R)[k]
      BY <3>1, <1>5, <2>2 DEF Invalidated
    <3> QED
      BY <3>2, <2>2, <1>5, <1>0, AskedFresh DEF Inv, CacheIsFresh
  <2> QED
    BY <2>1, <2>2
<1>6. CacheIsFresh'
  BY <1>5, <1>2 DEF CacheIsFresh
<1>7. ASSUME NEW g \in Funcs, NEW p \in Passes, clean'[g][p] # NoSnap, Settled(p)
      PROVE  clean'[g][p] = Reads(g, p)
  <2>1. clean'[g][p] = clean[g][p] \/ clean'[g][p] = Reads(g, p)
    BY <1>0 DEF Inv, Maps
  <2> QED
    BY <2>1, <1>0, <1>7 DEF Inv, BitsAreFresh
<1>8. BitsAreFresh'
  BY <1>7, <1>3, <1>0 DEF BitsAreFresh, Settled
<1> QED
  BY <1>4, <1>6, <1>8 DEF Inv

\* The pass says whether it changed blocks; what is kept reads blocks alone.
LEMMA PassChangesInv ==
  ASSUME Inv, NEW f \in Funcs, NEW R, NEW blocks \in BOOLEAN, PassChanges(f, R, blocks)
  PROVE  Inv'
<1>0. /\ mode' = mode /\ changed' = TRUE /\ reports' = reports /\ mode = "func"
      /\ body' = [body EXCEPT ![f] = @ + 1]
      /\ shape' = IF blocks THEN [shape EXCEPT ![f] = @ + 1] ELSE shape
      /\ iface' = iface /\ glob' = glob
      /\ cache' = [cache EXCEPT ![f] = Invalidated(Asked(f, R), IF blocks THEN {} ELSE CfgOnly)]
      /\ clean' = DropBits(clean, {f})
  BY DEF PassChanges, Running
<1>1. \A g \in Funcs \ {f} : SameSources(g)
  BY <1>0 DEF SameSources, Inv, Maps
<1>2. Maps'
  BY <1>0 DEF Inv, Maps, DropBits, NoBits
<1>3. ASSUME NEW g \in Funcs, NEW k \in Kinds, cache'[g][k] # NoSnap
      PROVE  cache'[g][k] = Built(g, k)'
  <2>1. CASE g # f
    <3>1. cache'[g] = cache[g]
      BY <1>0, <2>1 DEF Inv, Maps
    <3> QED
      BY <3>1, <2>1, <1>0, <1>1, <1>3, SameBuilt DEF Inv, CacheIsFresh
  <2>2. CASE g = f
    <3>1. cache'[f] = Invalidated(Asked(f, R), IF blocks THEN {} ELSE CfgOnly)
      BY <1>0 DEF Inv, Maps
    <3>2. k \in CfgOnly /\ ~blocks /\ cache'[f][k] = Asked(f, R)[k]
      BY <3>1, <1>3, <2>2 DEF Invalidated, Keeps, CfgOnly, Kinds
    <3>3. Asked(f, R)[k] = Built(f, k)
      BY <3>2, <2>2, <1>3, <1>0, AskedFresh DEF Inv, CacheIsFresh
    <3>4. Built(f, k)' = Built(f, k)
      BY <3>2, <1>0 DEF Built, CfgOnly
    <3> QED
      BY <3>2, <3>3, <3>4, <2>2
  <2> QED
    BY <2>1, <2>2
<1>4. CacheIsFresh'
  BY <1>3 DEF CacheIsFresh
<1>5. ASSUME NEW g \in Funcs, NEW p \in Passes, clean'[g][p] # NoSnap, Settled(p)'
      PROVE  clean'[g][p] = Reads(g, p)'
  <2>1. p \notin Interprocedural
    BY <1>5, <1>0 DEF Settled
  <2>2. g # f /\ clean'[g][p] = clean[g][p]
    BY <1>0, <1>5 DEF DropBits, NoBits
  <2> QED
    BY <2>1, <2>2, <1>0, <1>1, <1>5, SameReads DEF Inv, BitsAreFresh, Settled
<1>6. BitsAreFresh'
  BY <1>5 DEF BitsAreFresh
<1> QED
  BY <1>2, <1>4, <1>6 DEF Inv

\* The ends of a batch and of a module pass: a change drops the bits that read
\* other bodies, and a pass without a report drops everything.
LEMMA EndsInv ==
  ASSUME Inv, EndFuncBatch \/ EndModulePass
  PROVE  Inv'
<1>0. /\ body' = body /\ shape' = shape /\ iface' = iface /\ glob' = glob
      /\ changed' = changed /\ reports' = reports
      /\ mode \in {"func", "inside"} /\ mode' \in {"pick", "between"}
      /\ \/ cache' = cache /\ (mode = "inside" => reports)
         \/ cache' = DropCache(cache, Funcs)
      /\ \/ clean' = clean /\ ~changed /\ (mode = "inside" => reports)
         \/ clean' = DirtyInterprocedural(clean) /\ (mode = "inside" => reports)
         \/ clean' = DropBits(clean, Funcs)
  BY DEF EndFuncBatch, EndModulePass, ir, Inv, Maps
<1>1. \A f \in Funcs : SameSources(f)
  BY <1>0 DEF SameSources
<1>2. \A f \in Funcs, k \in Kinds : Built(f, k)' = Built(f, k)
  BY <1>1, SameBuilt
<1>3. \A f \in Funcs, p \in Passes : Reads(f, p)' = Reads(f, p)
  BY <1>0, <1>1, SameReads
<1>4. Maps'
  BY <1>0 DEF Inv, Maps, DropCache, DropBits, NoBits, DirtyInterprocedural
<1>5. CacheIsFresh'
  BY <1>0, <1>2 DEF Inv, CacheIsFresh, DropCache, NoCache
<1>6. ASSUME NEW f \in Funcs, NEW p \in Passes, clean'[f][p] # NoSnap
      PROVE  clean'[f][p] = Reads(f, p)
  <2>1. (mode = "inside" => reports) /\ clean'[f][p] = clean[f][p] /\ Settled(p)
    BY <1>0, <1>6 DEF DropBits, NoBits, DirtyInterprocedural, Settled
  <2> QED
    BY <2>1, <1>6 DEF Inv, BitsAreFresh
<1>7. BitsAreFresh'
  BY <1>6, <1>3 DEF BitsAreFresh
<1> QED
  BY <1>4, <1>5, <1>7 DEF Inv

-----------------------------------------------------------------------------
(* Module passes *)

\* Everything that is kept of a function after an edit was made from what the edit
\* left alone.
LEMMA EditInv ==
  ASSUME Inv, mode = "inside", mode' = mode, reports, reports' = reports,
         changed' \in BOOLEAN, changed => changed',
         body' = [f \in Funcs |-> body'[f]], DOMAIN shape' = Funcs, DOMAIN iface' = Funcs,
         DOMAIN cache' = Funcs, DOMAIN clean' = Funcs,
         \A f \in Funcs : DOMAIN clean'[f] = Passes,
         \A f \in Funcs, k \in Kinds :
           cache'[f][k] # NoSnap => cache'[f][k] = cache[f][k] /\ Built(f, k)' = Built(f, k),
         \A f \in Funcs, p \in Passes :
           clean'[f][p] # NoSnap => clean'[f][p] = clean[f][p] /\ SameSources(f),
         changed' \/ body' = body
  PROVE  Inv'
<1>1. Maps'
  BY DEF Inv, Maps
<1>2. CacheIsFresh'
  BY DEF Inv, CacheIsFresh
<1>3. ASSUME NEW f \in Funcs, NEW p \in Passes, clean'[f][p] # NoSnap, Settled(p)'
      PROVE  clean'[f][p] = Reads(f, p)'
  <2>1. Settled(p) /\ (p \in Interprocedural => body' = body)
    BY <1>3 DEF Settled
  <2>2. Reads(f, p)' = Reads(f, p)
    BY <2>1, <1>3, SameReads
  <2> QED
    BY <2>1, <2>2, <1>3 DEF Inv, BitsAreFresh
<1>4. BitsAreFresh'
  BY <1>3 DEF BitsAreFresh
<1> QED
  BY <1>1, <1>2, <1>4 DEF Inv

\* The reports about bodies: the cache and the bits of the edited functions F go,
\* and whoever calls one whose interface changed is among them.
LEMMA BodyEdits ==
  ASSUME Inv, NEW F \in SUBSET Funcs, NEW I \in SUBSET F,
         \A i \in I : Callers(i) \subseteq F,
         reports, Edit(F, I, FALSE), changed' \in BOOLEAN, changed',
         cache' = DropCache(cache, F), clean' = DropBits(clean, F)
  PROVE  Inv'
<1>0. mode = "inside" /\ mode' = mode /\ reports' = reports
  BY DEF Edit
<1>1. \A f \in Funcs \ F : SameSources(f)
  <2> TAKE f \in Funcs \ F
  <2>1. body'[f] = body[f] /\ shape'[f] = shape[f] /\ glob' = glob
    BY DEF Edit
  <2>2. Callees[f] \cup {f} \subseteq Funcs
    BY CallAssumption
  <2>3. \A g \in Callees[f] \cup {f} : g \notin I
    BY DEF Callers
  <2>4. \A g \in Callees[f] \cup {f} : iface'[g] = iface[g]
    BY <2>2, <2>3 DEF Edit
  <2> QED
    BY <2>1, <2>4 DEF SameSources
<1>2. body' = [f \in Funcs |-> body'[f]] /\ DOMAIN shape' = Funcs /\ DOMAIN iface' = Funcs
  BY DEF Edit
<1>3. /\ DOMAIN cache' = Funcs /\ DOMAIN clean' = Funcs
      /\ \A f \in Funcs : DOMAIN clean'[f] = Passes
  BY DEF DropCache, DropBits, NoBits, Inv, Maps
<1>4. ASSUME NEW f \in Funcs, NEW k \in Kinds, cache'[f][k] # NoSnap
      PROVE  cache'[f][k] = cache[f][k] /\ Built(f, k)' = Built(f, k)
  <2>1. f \notin F /\ cache'[f][k] = cache[f][k]
    BY <1>4 DEF DropCache, NoCache
  <2> QED
    BY <2>1, <1>1, SameBuilt
<1>5. ASSUME NEW f \in Funcs, NEW p \in Passes, clean'[f][p] # NoSnap
      PROVE  clean'[f][p] = clean[f][p] /\ SameSources(f)
  BY <1>1, <1>5 DEF DropBits, NoBits
<1> QED
  BY <1>0, <1>2, <1>3, <1>4, <1>5, EditInv

\* The reports about an interface or the global, D being those that read it: what
\* depends on memory goes from their caches, the rest reads bodies and blocks.
LEMMA ReaderEdits ==
  ASSUME Inv, NEW D, D \subseteq Funcs, NEW I, NEW g \in BOOLEAN,
         reports, Edit({}, I, g), changed' \in BOOLEAN, changed => changed',
         \A f \in Funcs : f \in I \/ Callees[f] \cap I # {} => f \in D,
         g => GlobalUsers \subseteq D,
         cache' = DropMemory(cache, D), clean' = DropBits(clean, D)
  PROVE  Inv'
<1>0. /\ mode = "inside" /\ mode' = mode /\ reports' = reports
      /\ \A f \in Funcs : body'[f] = body[f] /\ shape'[f] = shape[f]
      /\ body' = [f \in Funcs |-> body'[f]] /\ DOMAIN shape' = Funcs /\ DOMAIN iface' = Funcs
  BY DEF Edit
<1>1. \A f \in Funcs \ D : SameSources(f)
  <2> TAKE f \in Funcs \ D
  <2>1. body'[f] = body[f] /\ shape'[f] = shape[f] /\ (f \in GlobalUsers => glob' = glob)
    BY DEF Edit
  <2>2. Callees[f] \cup {f} \subseteq Funcs
    BY CallAssumption
  <2>3. \A h \in Callees[f] \cup {f} : h \notin I
    OBVIOUS
  <2>4. \A h \in Callees[f] \cup {f} : iface'[h] = iface[h]
    BY <2>2, <2>3 DEF Edit
  <2> QED
    BY <2>1, <2>4 DEF SameSources
<1>2. body' = body
  BY DEF Edit, Inv, Maps
<1>3. /\ DOMAIN cache' = Funcs /\ DOMAIN clean' = Funcs
      /\ \A f \in Funcs : DOMAIN clean'[f] = Passes
  BY DEF DropMemory, DropBits, NoBits, Inv, Maps
<1>4. ASSUME NEW f \in Funcs, NEW k \in Kinds, cache'[f][k] # NoSnap
      PROVE  cache'[f][k] = cache[f][k] /\ Built(f, k)' = Built(f, k)
  <2>1. cache'[f][k] = cache[f][k] /\ (f \in D => k \notin Memory)
    BY <1>4 DEF DropMemory
  <2>2. k \notin Memory => Built(f, k)' = Built(f, k)
    BY <1>0 DEF Built, Memory, Kinds
  <2> QED
    BY <2>1, <2>2, <1>1, SameBuilt
<1>5. ASSUME NEW f \in Funcs, NEW p \in Passes, clean'[f][p] # NoSnap
      PROVE  clean'[f][p] = clean[f][p] /\ SameSources(f)
  BY <1>1, <1>5 DEF DropBits, NoBits
<1> QED
  BY <1>0, <1>2, <1>3, <1>4, <1>5, EditInv

LEMMA ModuleSteps ==
  ASSUME Inv,
         \/ TouchGlobal
         \/ \E f \in Funcs : \/ EditUnreported(f) \/ TouchBody(f) \/ TouchInterface(f)
                             \/ TouchCallers(f) \/ TouchSignature(f)
                             \/ \E k \in Requests : ModuleAsks(f, k)
  PROVE  Inv'
<1>1. CASE TouchGlobal
  <2>1. /\ reports /\ Edit({}, {}, TRUE) /\ changed' = changed /\ changed \in BOOLEAN
        /\ cache' = DropMemory(cache, GlobalUsers) /\ clean' = DropBits(clean, GlobalUsers)
    BY <1>1 DEF TouchGlobal, Inv, Maps
  <2>2. /\ GlobalUsers \subseteq Funcs
        /\ \A f \in Funcs : f \in {} \/ Callees[f] \cap {} # {} => f \in GlobalUsers
    BY CallAssumption
  <2> QED
    BY <2>1, <2>2, ReaderEdits, Zenon
<1>2. ASSUME NEW f \in Funcs, EditUnreported(f) PROVE Inv'
  <2>1. mode' = "inside" /\ ~reports'
    BY <1>2 DEF EditUnreported, Edit
  <2> QED
    BY <1>2, <2>1 DEF EditUnreported, Edit, Inv, Maps, CacheIsFresh, BitsAreFresh
<1>3. ASSUME NEW f \in Funcs, TouchBody(f) PROVE Inv'
  <2>0. {f} \in SUBSET Funcs /\ {} \in SUBSET {f} /\ \A i \in {} : Callers(i) \subseteq {f}
    OBVIOUS
  <2>1. /\ reports /\ Edit({f}, {}, FALSE) /\ changed' \in BOOLEAN /\ changed'
        /\ cache' = DropCache(cache, {f}) /\ clean' = DropBits(clean, {f})
    BY <1>3 DEF TouchBody
  <2> QED
    BY <2>0, <2>1, BodyEdits, Zenon
<1>4. ASSUME NEW f \in Funcs, TouchInterface(f) PROVE Inv'
  <2>1. /\ {f} \cup Callers(f) \subseteq Funcs
        /\ \A h \in Funcs : h \in {f} \/ Callees[h] \cap {f} # {} => h \in {f} \cup Callers(f)
    BY DEF Callers
  <2> QED
    BY <1>4, <2>1, ReaderEdits DEF TouchInterface
<1>5. ASSUME NEW f \in Funcs, TouchCallers(f) PROVE Inv'
  <2>1. /\ reports /\ Edit(Callers(f), {}, FALSE) /\ changed' \in BOOLEAN /\ changed'
        /\ cache' = DropCache(cache, Callers(f)) /\ clean' = DropBits(clean, Callers(f))
    BY <1>5 DEF TouchCallers
  <2>2. /\ Callers(f) \in SUBSET Funcs /\ {} \in SUBSET Callers(f)
        /\ \A i \in {} : Callers(i) \subseteq Callers(f)
    BY DEF Callers
  <2> QED
    BY <2>1, <2>2, BodyEdits, Zenon
<1>6. ASSUME NEW f \in Funcs, TouchSignature(f) PROVE Inv'
  <2> DEFINE F == {f} \cup Callers(f)
  <2>1. /\ reports /\ Edit(F, {f}, FALSE) /\ changed' \in BOOLEAN /\ changed'
        /\ cache' = DropCache(cache, F) /\ clean' = DropBits(clean, F)
    BY <1>6 DEF TouchSignature
  <2>2. F \in SUBSET Funcs /\ {f} \in SUBSET F /\ \A i \in {f} : Callers(i) \subseteq F
    BY DEF Callers
  <2> HIDE DEF F
  <2> QED
    BY <2>1, <2>2, BodyEdits, Zenon
<1>7. ASSUME NEW f \in Funcs, NEW k \in Requests, ModuleAsks(f, k) PROVE Inv'
  <2>0. /\ mode = "inside" /\ reports /\ cache' = [cache EXCEPT ![f] = Asked(f, {k})]
        /\ UNCHANGED <<ir, clean, ctl>>
    BY <1>7 DEF ModuleAsks
  <2>1. \A h \in Funcs : SameSources(h)
    BY <2>0 DEF ir, SameSources
  <2>2. \A h \in Funcs, j \in Kinds : Built(h, j)' = Built(h, j)
    BY <2>1, SameBuilt
  <2>3. \A h \in Funcs, p \in Passes : Reads(h, p)' = Reads(h, p)
    BY <2>0, <2>1, SameReads DEF ir
  <2>4. Maps'
    BY <2>0 DEF Inv, Maps, ir, ctl
  <2>5. \A h \in Funcs, j \in Kinds : cache'[h][j] # NoSnap => cache'[h][j] = Built(h, j)
    BY <2>0, AskedFresh DEF Inv, Maps, CacheIsFresh
  <2>6. CacheIsFresh'
    BY <2>2, <2>5 DEF CacheIsFresh
  <2>7. BitsAreFresh'
    BY <2>0, <2>3 DEF Inv, BitsAreFresh, Settled, ctl
  <2> QED
    BY <2>4, <2>6, <2>7 DEF Inv
<1> QED
  BY <1>1, <1>2, <1>3, <1>4, <1>5, <1>6, <1>7

-----------------------------------------------------------------------------
(* The theorems *)

LEMMA StepInv == Inv /\ [Next]_vars => Inv'
<1> SUFFICES ASSUME Inv, [Next]_vars PROVE Inv'
  OBVIOUS
<1>1. CASE \E f \in Funcs, R \in AskSets : PassKeeps(f, R)
  BY <1>1, PassKeepsInv
<1>2. CASE \E f \in Funcs, R \in AskSets, blocks \in BOOLEAN : PassChanges(f, R, blocks)
  BY <1>2, PassChangesInv
<1>3. CASE Finished
  BY <1>3, RestingSteps DEF Finished
<1> QED
  BY <1>1, <1>2, <1>3, RestingSteps, EndsInv, ModuleSteps DEF Next

LEMMA Inductive == Spec => []Inv
BY InitInv, StepInv, PTL DEF Spec

\* Whatever passes run, in whatever batches, and whatever they change, an analysis
\* that a pass asks for is the one building it afresh would give.
THEOREM CacheFresh == Spec => []CacheIsFresh
<1>1. Inv => CacheIsFresh
  BY DEF Inv
<1> QED
  BY <1>1, Inductive, PTL

\* A pass is skipped only where what it read when it changed nothing is still so.
THEOREM SkipsNothingNeeded == Spec => []CleanMeansNoOp
<1>1. Inv => CleanMeansNoOp
  BY DEF Inv, BitsAreFresh, Settled, CleanMeansNoOp
<1> QED
  BY <1>1, Inductive, PTL
=============================================================================
