-------------------------- MODULE ThreadpoolProofs --------------------------
(***************************************************************************)
(* Proofs about Threadpool, for any number of threads, any graphs and any  *)
(* number of chunks.                                                       *)
(***************************************************************************)
EXTENDS Threadpool, TLAPS, FiniteSetTheorems, SequenceTheorems

-----------------------------------------------------------------------------
(***************************************************************************)
(* The invariant.                                                          *)
(***************************************************************************)
CallerPcs == {"idle", "kick", "join", "freed"}
LookPcs   == {"pause", "plock", "psleep", "stop", "poll", "poll2", "lock", "sleep", "take", "exit"}
ExecPcs   == {"start", "top", "prep", "work", "chunk", "claim", "after",
              "bar", "add", "reset", "pass", "spin", "ret"}

PcOf(t)   == ExecPcs \cup IF t = 0 THEN CallerPcs ELSE LookPcs

PcTyped ==
    /\ DOMAIN pc = Threads
    /\ pc = [t \in Threads |-> pc[t]]
    /\ \A t \in Threads : pc[t] \in PcOf(t)
SharedTyped ==
    /\ cgraph \in Graphs \cup {<<>>} /\ want \in 1 .. N + 1
    /\ nGraph \in [count : Nat, n : 0 .. N]
    /\ nBarrier \in Nat /\ nPassed \in Nat /\ chunk \in Nat
    /\ stop \in BOOLEAN /\ pause \in BOOLEAN
    /\ abort \in Int /\ ec \in {"SUCCESS", "ABORTED"}
LocalTyped ==
    /\ lastGraph \in [Threads -> [count : Nat, n : 0 .. N]]
    /\ pending \in [Threads -> BOOLEAN]
    /\ g \in [Threads -> Graphs \cup {<<>>}]
    /\ nth \in [Threads -> 0 .. N]
    /\ node \in [Threads -> Nat]
    /\ mine \in [Threads -> Nat]
    /\ bar \in [Threads -> [n : 0 .. N, passed : Nat]]
    /\ cont \in [Threads -> {"top", "chunk", "ret"}]
Typed == PcTyped /\ SharedTyped /\ LocalTyped

(* The threads that are asked to compute the graph.                        *)
Crew == {t \in Threads : t < nGraph.n}

(* A thread that may leave the barrier, and one that waits in it.          *)
Released(t) == pc[t] = "spin" /\ bar[t].passed < nPassed
Waits(t)    == \/ pc[t] \in {"bar", "add", "reset", "pass"}
               \/ pc[t] = "spin" /\ bar[t].passed = nPassed

(* A thread that does not use the pool: it looks for work, or has no more  *)
(* to do than to return.                                                   *)
Aside(t) == \/ pc[t] \in CallerPcs \cup LookPcs \cup {"ret"}
            \/ Released(t) /\ cont[t] = "ret"

(* What a worker knows of the graph.                                       *)
Claims ==
    \A w \in Workers :
       /\ lastGraph[w].count <= nGraph.count
       /\ pending[w] => pc[w] = "take" /\ w \in Crew /\ lastGraph[w] = nGraph
       /\ ~Aside(w) => w \in Crew /\ lastGraph[w] = nGraph

Fresh(t)    == \/ pc[t] = "start"
               \/ t # 0 /\ Aside(t) /\ (lastGraph[t] # nGraph \/ pending[t])
Finished(t) == Aside(t) /\ (t # 0 => lastGraph[t] = nGraph /\ ~pending[t])

(* The copies of the parameters.                                           *)
Params ==
    \A t \in Threads : ~Aside(t) /\ pc[t] # "start" => g[t] = cgraph /\ nth[t] = nGraph.n

(***************************************************************************)
(* The barrier: it counts the threads that arrived, of which the last one  *)
(* opens it.                                                               *)
(***************************************************************************)
Arrived == {t \in Threads : \/ pc[t] \in {"reset", "pass"}
                            \/ pc[t] = "spin" /\ bar[t].passed = nPassed}
Opener(t) == pc[t] \in {"reset", "pass"}

BarOK ==
    /\ \A t \in Threads :
          /\ pc[t] = "add" => bar[t].n = nGraph.n
          /\ pc[t] \in {"add", "reset", "pass"} => bar[t].passed = nPassed
          /\ pc[t] = "spin" => bar[t].passed <= nPassed
    /\ \/ /\ \A t \in Threads : ~Opener(t)
          /\ nBarrier = Cardinality(Arrived)
          /\ Crew = {} \/ Arrived # Crew
       \/ \E o \in Threads :
             /\ \A t \in Threads : Opener(t) <=> t = o
             /\ Arrived = Crew
             /\ nBarrier = (IF pc[o] = "reset" THEN nGraph.n ELSE 0)

(***************************************************************************)
(* Between two barriers.  All threads of the crew are in the same section  *)
(* of the graph: from node k they skip to node m, where they share an      *)
(* operation, prepare or compute a matrix product, or leave.               *)
(***************************************************************************)
L == Len(cgraph)
End(m) == m + 1 + Fused(cgraph, m)
Op(m)  == OpAt(cgraph, m)

Skips(k, m) ==
    /\ k \in 0 .. L /\ m \in k .. L
    /\ \A i \in k .. m - 1 : Op(i) = "nop" /\ i # abort
    /\ k = 0 \/ Op(k - 1) # "fused"

Near(t, k, m) ==
    \/ Fresh(t) /\ k = 0
    \/ Released(t) /\ cont[t] = "top" /\ node[t] = k
    \/ pc[t] = "top" /\ node[t] \in k .. m

(* Thread t has done its share of node m.                                  *)
Past(t, m) ==
    \/ pc[t] = "after" /\ node[t] = End(m) - 1
    \/ pc[t] = "top" /\ node[t] = End(m) /\ End(m) = L
    \/ Waits(t) /\ node[t] = End(m) /\ cont[t] = (IF End(m) < L THEN "top" ELSE "ret")

Shares(t, k, m)   == Near(t, k, m) \/ (pc[t] = "work" /\ node[t] = m) \/ Past(t, m)
Prepared(t, m)    == Waits(t) /\ cont[t] = "chunk" /\ node[t] = m
Prepares(t, k, m) == Near(t, k, m) \/ (pc[t] = "prep" /\ node[t] = m) \/ Prepared(t, m)
Holds(t, m)       == node[t] = m /\ (pc[t] = "chunk" \/ (Released(t) /\ cont[t] = "chunk"))
Computes(t, m)    == Holds(t, m) \/ (pc[t] = "claim" /\ node[t] = m) \/ Past(t, m)
Leaves(t, k, m)   == Near(t, k, m) \/ (Waits(t) /\ cont[t] = "ret" /\ node[t] = m)

Below(m) == {p \in AllPieces(cgraph, nGraph.n) : p[1] < m}
Chunks   == NumChunks(nGraph.n)

Sharing(k, m) ==
    /\ Skips(k, m) /\ m < L /\ Op(m) \in {"plain", "fused"} /\ abort # m
    /\ \A t \in Crew : Shares(t, k, m)
    /\ out = Below(m) \cup {<<m, 1, t>> : t \in {u \in Crew : Past(u, m)}}

Preparing(k, m) ==
    /\ Skips(k, m) /\ m < L /\ Op(m) = "mulmat" /\ abort # m
    /\ \A t \in Crew : /\ Prepares(t, k, m)
                       /\ Prepared(t, m) => mine[t] = t /\ (t = 0 => chunk = nGraph.n)
    /\ out = Below(m) \cup {<<m, 0, t>> : t \in {u \in Crew : Prepared(u, m)}}

Multiplying(m) ==
    /\ m \in 0 .. L - 1 /\ Op(m) = "mulmat" /\ (m = 0 \/ Op(m - 1) # "fused")
    /\ chunk >= nGraph.n
    /\ \A t \in Crew : Computes(t, m) /\ (Past(t, m) => chunk >= Chunks)
    /\ \A t \in Crew : Holds(t, m) => mine[t] < chunk
    /\ \A t, u \in Crew : Holds(t, m) /\ Holds(u, m) /\ mine[t] = mine[u] => t = u
    /\ out = Below(m) \cup {<<m, 0, t>> : t \in Crew}
                \cup {<<m, 1, i>> : i \in {j \in 0 .. Chunks - 1 :
                         j < chunk /\ \A t \in Crew : Holds(t, m) => mine[t] # j}}

Leaving(k, m) ==
    /\ Skips(k, m) /\ (m = L \/ abort = m)
    /\ \A t \in Crew : Leaves(t, k, m)
    /\ out = Below(m)

Resting(m) ==
    /\ \A t \in Crew : Finished(t)
    /\ pc[0] \notin CallerPcs => /\ m \in 0 .. L /\ (m = L \/ abort = m)
                                 /\ out = Below(m)

Section ==
    \E k, m \in 0 .. L : Sharing(k, m) \/ Preparing(k, m) \/ Multiplying(m) \/ Leaving(k, m) \/ Resting(m)

(* What the caller sees of the call.                                       *)
Called ==
    /\ InCall => cgraph \in Graphs /\ abort \in {-1} \cup 1 .. L /\ (ec = "SUCCESS" <=> abort = -1)
    /\ InCall /\ pc[0] # "kick" => nGraph.n = MinOf(want, N)
    /\ pc[0] = "kick" => out = {} /\ ec = "SUCCESS"

PoolInv == Typed /\ Claims /\ Params /\ BarOK /\ Section /\ Called

-----------------------------------------------------------------------------
(***************************************************************************)
(* Facts about constants, and types.                                       *)
(***************************************************************************)
LEMMA ThreadFacts ==
    /\ 0 \in Threads /\ Threads \subseteq Nat /\ IsFiniteSet(Threads)
    /\ Workers \subseteq Threads /\ 0 \notin Workers
    /\ \A t \in Threads : t # 0 => t \in Workers
  BY PoolAssumption, FS_Interval DEF Threads, Workers

LEMMA GraphFacts ==
    ASSUME NEW gr \in Graphs \cup {<<>>}
    PROVE  /\ gr \in Seq(Ops) /\ Len(gr) \in Nat
           /\ \A i \in 0 .. Len(gr) - 1 : OpAt(gr, i) \in Ops
           /\ \A i \in 0 .. Len(gr) - 1 : OpAt(gr, i) = "fused" =>
                 i + 1 < Len(gr) /\ OpAt(gr, i + 1) = "plain"
<1>1. gr \in Seq(Ops) /\ Len(gr) \in Nat
  <2>1. CASE gr \in Graphs
    BY <2>1, GraphsAssumption, LenProperties
  <2>2. CASE gr = <<>>
    BY <2>2, EmptySeq, LenProperties
  <2> QED
    BY <2>1, <2>2
<1>2. \A i \in 0 .. Len(gr) - 1 : OpAt(gr, i) \in Ops
  BY <1>1 DEF OpAt
<1>3. ASSUME NEW i \in 0 .. Len(gr) - 1, OpAt(gr, i) = "fused"
      PROVE  i + 1 < Len(gr) /\ OpAt(gr, i + 1) = "plain"
  <2>1. gr \in Graphs /\ i + 1 \in DOMAIN gr
    BY <1>1
  <2>2. gr[i + 1] = "fused"
    BY <1>3 DEF OpAt
  <2> QED
    BY <1>1, <2>1, <2>2, GraphsAssumption DEF OpAt
<1> QED
  BY <1>1, <1>2, <1>3

(* What is said of the current graph.                                      *)
LEMMA CurrentGraph ==
    ASSUME Typed
    PROVE  /\ L \in Nat /\ nGraph.n \in 0 .. N /\ nGraph.count \in Nat
           /\ \A i \in 0 .. L - 1 : Op(i) \in Ops
           /\ \A m \in 0 .. L - 1 : End(m) \in m + 1 .. L
           /\ \A m \in 0 .. L - 1 : IF Op(m) = "fused"
                                    THEN End(m) = m + 2 /\ Op(m + 1) = "plain"
                                    ELSE End(m) = m + 1
           /\ Crew \subseteq Threads /\ IsFiniteSet(Crew) /\ Cardinality(Crew) = nGraph.n
           /\ nGraph.n > 0 <=> 0 \in Crew
<1>1. cgraph \in Graphs \cup {<<>>} /\ nGraph.n \in 0 .. N /\ nGraph.count \in Nat
  BY DEF Typed, SharedTyped
<1>2. L \in Nat /\ \A i \in 0 .. L - 1 : Op(i) \in Ops
  BY <1>1, GraphFacts DEF L, Op
<1>3. ASSUME NEW m \in 0 .. L - 1
      PROVE  /\ End(m) \in m + 1 .. L
             /\ IF Op(m) = "fused" THEN End(m) = m + 2 /\ Op(m + 1) = "plain"
                                   ELSE End(m) = m + 1
  <2>1. Op(m) = "fused" => m + 1 < L /\ Op(m + 1) = "plain"
    BY <1>1, <1>3, GraphFacts DEF L, Op
  <2>2. End(m) = IF Op(m) = "fused" THEN m + 2 ELSE m + 1
    BY <1>2, <1>3 DEF End, Op, Fused
  <2> QED
    BY <1>2, <2>1, <2>2
<1>4. Crew = 0 .. nGraph.n - 1
  BY <1>1, PoolAssumption DEF Crew, Threads
<1>5. IsFiniteSet(Crew) /\ Cardinality(Crew) = nGraph.n
  <2>1. nGraph.n \in Nat /\ nGraph.n - 1 \in Int /\ 0 \in Int
    BY <1>1, PoolAssumption
  <2>2. /\ IsFiniteSet(0 .. nGraph.n - 1)
        /\ Cardinality(0 .. nGraph.n - 1) =
              (IF 0 > nGraph.n - 1 THEN 0 ELSE nGraph.n - 1 - 0 + 1)
    BY <2>1, FS_Interval
  <2> QED
    BY <1>4, <2>1, <2>2
<1>6. Crew \subseteq Threads /\ (nGraph.n > 0 <=> 0 \in Crew)
  BY <1>1, PoolAssumption DEF Crew, Threads
<1> QED
  BY <1>1, <1>2, <1>3, <1>5, <1>6

(* A finite set of numbers has a smallest element: the elements up to x are *)
(* fewer the smaller x is.                                                  *)
LEMMA SmallestExists ==
    ASSUME NEW K \in SUBSET Nat, IsFiniteSet(K), K # {}
    PROVE  \E x \in K : \A y \in K : x <= y
<1> DEFINE Upto(x) == {y \in K : y <= x}
           f == [x \in K |-> Cardinality(Upto(x))]
           M == 1 .. Cardinality(K)
<1>1. Cardinality(K) \in Nat /\ Cardinality(K) # 0
  BY FS_CardinalityType, FS_EmptySet
<1>2. ASSUME NEW x \in K
      PROVE  /\ IsFiniteSet(Upto(x)) /\ Cardinality(Upto(x)) \in M
             /\ \A y \in K : y < x => Cardinality(Upto(y)) < Cardinality(Upto(x))
  <2>1. Upto(x) \in SUBSET K /\ x \in Upto(x)
    OBVIOUS
  <2>2. IsFiniteSet(Upto(x)) /\ Cardinality(Upto(x)) <= Cardinality(K)
    BY <2>1, FS_Subset
  <2>3. Cardinality(Upto(x)) \in Nat /\ Cardinality(Upto(x)) # 0
    BY <2>1, <2>2, FS_CardinalityType, FS_EmptySet
  <2>4. ASSUME NEW y \in K, y < x
        PROVE  Cardinality(Upto(y)) < Cardinality(Upto(x))
    <3>1. Upto(y) \in SUBSET Upto(x) /\ x \notin Upto(y)
      <4>1. \A z \in K : z <= y => z <= x
        BY <2>4
      <4>2. ~(x <= y)
        BY <2>4
      <4> QED
        BY <4>1, <4>2
    <3>2. /\ IsFiniteSet(Upto(y)) /\ Cardinality(Upto(y)) <= Cardinality(Upto(x))
          /\ Cardinality(Upto(y)) # Cardinality(Upto(x))
      BY <2>1, <2>2, <3>1, FS_Subset
    <3>3. Cardinality(Upto(y)) \in Nat
      BY <3>2, FS_CardinalityType
    <3> QED
      BY <2>3, <3>2, <3>3
  <2> QED
    BY <1>1, <2>2, <2>3, <2>4
<1>3. f \in [K -> M] /\ \A x, y \in K : y < x => f[y] < f[x]
  BY <1>2
<1>4. \A x \in K : f[x] \in Nat
  BY <1>1, <1>3
<1> HIDE DEF f
<1>5. \A x, y \in K : f[x] = f[y] => x = y
  BY <1>3, <1>4
<1>6. f \in Injection(K, M)
  BY <1>3, <1>5 DEF Injection, IsInjective
<1>7. f \in Surjection(K, M)
  BY <1>1, <1>6, FS_Interval, FS_Injection
<1>8. PICK x \in K : f[x] = 1
  BY <1>1, <1>7 DEF Surjection
<1>9. \A y \in K : x <= y
  BY <1>1, <1>3, <1>4, <1>8
<1> QED
  BY <1>8, <1>9

(***************************************************************************)
(* Pieces.                                                                 *)
(***************************************************************************)
LEMMA Triples ==
    ASSUME NEW a, NEW b, NEW S
    PROVE  {a} \X {b} \X S = {<<a, b, i>> : i \in S}
  OBVIOUS

LEMMA PiecesOf ==
    ASSUME NEW gr, NEW n \in Nat, NEW k \in Nat,
           OpAt(gr, k) # "nop", k = 0 \/ OpAt(gr, k - 1) # "fused"
    PROVE  Pieces(gr, n, k) =
              IF OpAt(gr, k) = "mulmat"
              THEN {<<k, 0, i>> : i \in 0 .. n - 1} \cup {<<k, 1, i>> : i \in 0 .. NumChunks(n) - 1}
              ELSE {<<k, 1, i>> : i \in 0 .. n - 1}
<1>1. /\ {k} \X {0} \X (0 .. n - 1) = {<<k, 0, i>> : i \in 0 .. n - 1}
      /\ {k} \X {1} \X (0 .. n - 1) = {<<k, 1, i>> : i \in 0 .. n - 1}
      /\ {k} \X {1} \X (0 .. NumChunks(n) - 1) = {<<k, 1, i>> : i \in 0 .. NumChunks(n) - 1}
  BY Triples
<1>2. ~(OpAt(gr, k) = "nop" \/ (k > 0 /\ OpAt(gr, k - 1) = "fused"))
  OBVIOUS
<1> QED
  BY <1>1, <1>2 DEF Pieces

LEMMA PieceNode ==
    ASSUME NEW gr, NEW n, NEW k, NEW p \in Pieces(gr, n, k)
    PROVE  p[1] = k
  BY DEF Pieces

(* No piece belongs to a skipped node or to one that is fused with the one *)
(* before it.                                                              *)
LEMMA NoPieces ==
    ASSUME NEW gr, NEW n, NEW k \in Nat,
           OpAt(gr, k) = "nop" \/ (k > 0 /\ OpAt(gr, k - 1) = "fused")
    PROVE  Pieces(gr, n, k) = {}
  BY DEF Pieces

LEMMA BelowIs ==
    ASSUME NEW p, NEW m
    PROVE  p \in Below(m) <=> p[1] < m /\ \E k \in 0 .. L - 1 : p \in Pieces(cgraph, nGraph.n, k)
  BY DEF Below, AllPieces, Nodes, L

LEMMA BelowZero == ASSUME Typed PROVE Below(0) = {}
<1> SUFFICES ASSUME NEW p \in Below(0) PROVE FALSE
  OBVIOUS
<1>1. PICK k \in 0 .. L - 1 : p \in Pieces(cgraph, nGraph.n, k)
  BY BelowIs
<1>2. p[1] < 0 /\ p[1] = k
  BY <1>1, BelowIs, PieceNode
<1> QED
  BY <1>2, CurrentGraph

LEMMA BelowAll == ASSUME Typed PROVE Below(L) = AllPieces(cgraph, nGraph.n)
<1>1. ASSUME NEW p \in AllPieces(cgraph, nGraph.n) PROVE p[1] < L
  <2>1. PICK k \in 0 .. L - 1 : p \in Pieces(cgraph, nGraph.n, k)
    BY DEF AllPieces, Nodes, L
  <2> QED
    BY <2>1, PieceNode, CurrentGraph
<1> QED
  BY <1>1 DEF Below

LEMMA BelowNext ==
    ASSUME Typed, NEW m \in 0 .. L - 1
    PROVE  Below(m + 1) = Below(m) \cup Pieces(cgraph, nGraph.n, m)
<1>1. ASSUME NEW p \in Below(m + 1), p \notin Below(m)
      PROVE  p \in Pieces(cgraph, nGraph.n, m)
  <2>1. PICK k \in 0 .. L - 1 : p \in Pieces(cgraph, nGraph.n, k)
    BY <1>1, BelowIs
  <2>2. p[1] = k
    BY <2>1, PieceNode
  <2>3. k < m + 1 /\ ~(k < m)
    BY <1>1, <2>1, <2>2, BelowIs
  <2> QED
    BY <2>1, <2>3, CurrentGraph
<1>2. ASSUME NEW p \in Below(m) \cup Pieces(cgraph, nGraph.n, m)
      PROVE  p \in Below(m + 1)
  <2>1. CASE p \in Below(m)
    <3>1. PICK k \in 0 .. L - 1 : p \in Pieces(cgraph, nGraph.n, k)
      BY <2>1, BelowIs
    <3>2. p[1] = k /\ p[1] < m
      BY <2>1, <3>1, PieceNode, BelowIs
    <3>3. p[1] < m + 1
      BY <3>2, CurrentGraph
    <3> QED
      BY <3>1, <3>3, BelowIs
  <2>2. CASE p \in Pieces(cgraph, nGraph.n, m)
    <3>1. p[1] < m + 1
      BY <2>2, PieceNode, CurrentGraph
    <3> QED
      BY <2>2, <3>1, BelowIs
  <2> QED
    BY <1>2, <2>1, <2>2
<1> QED
  BY <1>1, <1>2

(* Skipping nodes skips no pieces.                                         *)
LEMMA BelowSkips ==
    ASSUME Typed, NEW k, NEW m, Skips(k, m)
    PROVE  Below(m) = Below(k)
<1>1. k \in 0 .. L /\ m \in k .. L /\ L \in Nat /\ \A i \in k .. m - 1 : Op(i) = "nop"
  BY CurrentGraph DEF Skips
<1>2. ASSUME NEW p, NEW j \in 0 .. L - 1, p \in Pieces(cgraph, nGraph.n, j)
      PROVE  p[1] < m <=> p[1] < k
  <2>1. p[1] = j
    BY <1>2, PieceNode
  <2>2. j \notin k .. m - 1
    BY <1>1, <1>2, NoPieces DEF Op
  <2> QED
    BY <1>1, <2>1, <2>2
<1>3. \A p : p \in Below(m) <=> p \in Below(k)
  BY <1>2, BelowIs
<1> QED
  BY <1>3

(* ... and so does the node after a fused one.                             *)
LEMMA BelowEnd ==
    ASSUME Typed, NEW m \in 0 .. L - 1
    PROVE  Below(End(m)) = Below(m) \cup Pieces(cgraph, nGraph.n, m)
<1>1. L \in Nat /\ End(m) \in m + 1 .. L
  BY CurrentGraph
<1>2. CASE Op(m) = "fused"
  <2>1. End(m) = (m + 1) + 1 /\ m + 1 \in 0 .. L - 1
    BY <1>1, <1>2, CurrentGraph
  <2>2. Pieces(cgraph, nGraph.n, m + 1) = {}
    <3>1. m + 1 \in Nat /\ m + 1 > 0 /\ OpAt(cgraph, (m + 1) - 1) = "fused"
      BY <1>1, <1>2 DEF Op
    <3> QED
      BY <3>1, NoPieces
  <2> QED
    BY <2>1, <2>2, BelowNext
<1>3. CASE Op(m) # "fused"
  BY <1>3, CurrentGraph, BelowNext
<1> QED
  BY <1>2, <1>3

(* From every node some node ends the skipping.                            *)
LEMMA SkipExists ==
    ASSUME Typed, NEW k \in 0 .. L, k = 0 \/ Op(k - 1) # "fused"
    PROVE  \E m \in 0 .. L : Skips(k, m) /\ (m = L \/ abort = m \/ (m < L /\ Op(m) # "nop"))
<1> DEFINE K == {i \in k .. L : i = L \/ i = abort \/ (i < L /\ Op(i) # "nop")}
<1>1. L \in Nat /\ k \in Nat
  BY CurrentGraph
<1>2. K \in SUBSET Nat /\ L \in K
  BY <1>1
<1>3. K \in SUBSET (k .. L) /\ IsFiniteSet(k .. L)
  BY <1>1, FS_Interval
<1>4. IsFiniteSet(K)
  BY <1>3, FS_Subset
<1>5. PICK m \in K : \A i \in K : m <= i
  BY <1>2, <1>4, SmallestExists
<1>6. \A i \in k .. m - 1 : i \in k .. L /\ i < m /\ i < L
  BY <1>1, <1>5
<1>7. \A i \in k .. m - 1 : i \notin K
  BY <1>1, <1>5, <1>6
<1>8. \A i \in k .. m - 1 : Op(i) = "nop" /\ i # abort
  BY <1>6, <1>7
<1> QED
  BY <1>1, <1>5, <1>8 DEF Skips

-----------------------------------------------------------------------------
(***************************************************************************)
(* Types.                                                                  *)
(***************************************************************************)
LEMMA TypedInit == Init => Typed
<1> SUFFICES ASSUME Init PROVE Typed
  OBVIOUS
<1>0. N \in Nat /\ N > 0 /\ 0 \in 0 .. N
  BY PoolAssumption
<1>1. PcTyped
  BY DEF Init, PcTyped, PcOf, CallerPcs, LookPcs
<1>2. SharedTyped
  <2>1. [count |-> 0, n |-> 0] \in [count : Nat, n : 0 .. N] /\ 1 \in 1 .. N + 1
    BY <1>0
  <2>2. -1 \in Int /\ 0 \in Nat
    OBVIOUS
  <2> QED
    BY <2>1, <2>2 DEF Init, SharedTyped
<1>3. LocalTyped
  BY <1>0 DEF Init, LocalTyped, NoBar
<1> QED
  BY <1>1, <1>2, <1>3 DEF Typed

LEMMA GotoTyped ==
    ASSUME PcTyped, NEW t \in Threads, NEW l \in PcOf(t), pc' = [pc EXCEPT ![t] = l]
    PROVE  PcTyped'
  BY DEF PcTyped

LEMMA WokenTyped ==
    ASSUME PcTyped
    PROVE  /\ DOMAIN Woken(pc) = Threads /\ Woken(pc) = [t \in Threads |-> Woken(pc)[t]]
           /\ \A t \in Threads : Woken(pc)[t] \in PcOf(t)
           /\ \A t \in Threads : Woken(pc)[t] # pc[t] =>
                 pc[t] \in LookPcs /\ Woken(pc)[t] \in LookPcs /\ t # 0 /\ pc[t] # "take"
  BY DEF PcTyped, Woken, PcOf, CallerPcs, LookPcs, ExecPcs

LEMMA TypedCaller ==
    ASSUME Typed, \/ \E gr \in Graphs, n \in 1 .. N + 1 : Begin(gr, n)
                  \/ Kick \/ Pause \/ Resume \/ Free \/ Joined
    PROVE  Typed'
<1>0. {"idle", "kick", "join", "freed", "start"} \subseteq PcOf(0) /\ 0 \in Threads
  BY ThreadFacts DEF PcOf, CallerPcs, ExecPcs
<1>a. PcTyped /\ SharedTyped /\ LocalTyped
  BY DEF Typed
<1>1. ASSUME NEW gr \in Graphs, NEW n \in 1 .. N + 1, Begin(gr, n)
      PROVE  Typed'
  <2>1. PcTyped'
    BY <1>0, <1>a, <1>1, GotoTyped DEF Begin, Goto
  <2>2. SharedTyped'
    BY <1>a, <1>1 DEF Begin, SharedTyped
  <2>3. LocalTyped'
    BY <1>a, <1>1 DEF Begin, LocalTyped, local
  <2> QED
    BY <2>1, <2>2, <2>3 DEF Typed
<1>2. CASE Kick
  <2>1. PcTyped'
    BY <1>0, <1>a, <1>2, WokenTyped DEF Kick, PcTyped
  <2>2. SharedTyped'
    <3>1. MinOf(want, N) \in 0 .. N /\ nGraph.count + 1 \in Nat
      BY <1>a, PoolAssumption DEF SharedTyped, MinOf
    <3> QED
      BY <1>a, <1>2, <3>1 DEF Kick, SharedTyped
  <2>3. LocalTyped'
    BY <1>a, <1>2 DEF Kick, LocalTyped, local
  <2> QED
    BY <2>1, <2>2, <2>3 DEF Typed
<1>3. CASE Pause \/ Resume \/ Free
  <2>1. PcTyped'
    BY <1>0, <1>a, <1>3, WokenTyped DEF Pause, Resume, Free, PcTyped
  <2>2. SharedTyped'
    BY <1>a, <1>3 DEF Pause, Resume, Free, SharedTyped
  <2>3. LocalTyped'
    BY <1>a, <1>3 DEF Pause, Resume, Free, LocalTyped, local
  <2> QED
    BY <2>1, <2>2, <2>3 DEF Typed
<1>4. CASE Joined
  <2>1. PcTyped'
    BY <1>0, <1>a, <1>4, GotoTyped DEF Joined, Goto
  <2>2. SharedTyped' /\ LocalTyped'
    BY <1>a, <1>4 DEF Joined, SharedTyped, LocalTyped, shared, local
  <2> QED
    BY <2>1, <2>2 DEF Typed
<1> QED
  BY <1>1, <1>2, <1>3, <1>4

LEMMA TypedLook ==
    ASSUME Typed, NEW w \in Workers, LookStep(w) \/ SpuriousWake(w)
    PROVE  Typed'
<1>0. LookPcs \cup {"start"} \subseteq PcOf(w) /\ w \in Threads /\ nGraph \in [count : Nat, n : 0 .. N]
  BY ThreadFacts DEF PcOf, ExecPcs, Typed, SharedTyped
<1>a. PcTyped /\ SharedTyped /\ LocalTyped
  BY DEF Typed
<1>b. SharedTyped'
  BY <1>a DEF SharedTyped, LookStep, SpuriousWake, shared, PauseTest, PauseWait, StopTest, PollFlags,
     PollGraph, CheckOrSleep, Take
<1>c. LocalTyped'
  <2>1. /\ UNCHANGED <<g, nth, node, mine, bar, cont>>
        /\ \/ UNCHANGED <<pending, lastGraph>>
           \/ Claimed(w)
           \/ pending' = [pending EXCEPT ![w] = FALSE] /\ UNCHANGED lastGraph
    BY DEF LookStep, SpuriousWake, local, PauseTest, PauseWait, StopTest, PollFlags,
       PollGraph, CheckOrSleep, Take, Claimed
  <2>2. pending' \in [Threads -> BOOLEAN] /\ lastGraph' \in [Threads -> [count : Nat, n : 0 .. N]]
    <3>1. (w < nGraph.n) \in BOOLEAN
      OBVIOUS
    <3>2. \/ UNCHANGED <<pending, lastGraph>>
          \/ \E b \in BOOLEAN : /\ pending' = [pending EXCEPT ![w] = b]
                              /\ lastGraph' \in {lastGraph, [lastGraph EXCEPT ![w] = nGraph]}
      BY <2>1, <3>1 DEF Claimed
    <3>3. pending \in [Threads -> BOOLEAN] /\ lastGraph \in [Threads -> [count : Nat, n : 0 .. N]]
          /\ nGraph \in [count : Nat, n : 0 .. N]
      BY <1>a DEF LocalTyped, SharedTyped
    <3> QED
      BY <1>0, <3>2, <3>3
  <2> QED
    BY <1>a, <2>1, <2>2 DEF LocalTyped
<1>d. \E l \in LookPcs \cup {"start"} : Goto(w, l)
  <2>1. Woken(pc)[w] \in LookPcs \cup {"start"} \/ pc[w] \notin {"sleep", "psleep"}
    BY <1>0 DEF LookPcs, Woken
  <2> QED
    BY <2>1 DEF LookPcs, LookStep, SpuriousWake, PauseTest, PauseWait, StopTest, PollFlags,
       PollGraph, CheckOrSleep, Take
<1> QED
  BY <1>0, <1>a, <1>b, <1>c, <1>d, GotoTyped DEF Typed, Goto

LEMMA TypedCompute ==
    ASSUME Typed, NEW t \in Threads, ComputeStep(t)
    PROVE  Typed'
<1>0. /\ ExecPcs \subseteq PcOf(t) /\ cont[t] \in ExecPcs
      /\ (IF t = 0 THEN "idle" ELSE "pause") \in PcOf(t)
  BY DEF PcOf, ExecPcs, CallerPcs, LookPcs, Typed, LocalTyped
<1>a. PcTyped /\ SharedTyped /\ LocalTyped
  BY DEF Typed
<1>1. CASE Start(t)
  <2>1. PcTyped'
    <3>1. \E l \in PcOf(t) : Goto(t, l)
      BY <1>0, <1>1 DEF Start, Goto, ExecPcs
    <3> QED
      BY <1>a, <3>1, GotoTyped DEF Goto
  <2>2. SharedTyped'
    BY <1>a, <1>1 DEF Start, SharedTyped, LocalTyped, shared
  <2>3. LocalTyped'
    BY <1>a, <1>1, PoolAssumption DEF Start, SharedTyped, LocalTyped, local
  <2> QED
    BY <2>1, <2>2, <2>3 DEF Typed
<1>2. CASE Top(t)
  <2>1. PcTyped'
    <3>1. \E l \in PcOf(t) : Goto(t, l)
      BY <1>0, <1>2, <1>a DEF Top, ToBarrier, Goto, ExecPcs, PcTyped
    <3> QED
      BY <1>a, <3>1, GotoTyped DEF Goto
  <2>2. SharedTyped'
    BY <1>a, <1>2 DEF Top, SharedTyped, LocalTyped, shared
  <2>3. LocalTyped'
    <3>1. node' \in [Threads -> Nat] /\ mine' \in [Threads -> Nat]
      <4>1. node' \in {node, [node EXCEPT ![t] = node[t] + 1]} /\ mine' = mine
        BY <1>2 DEF Top
      <4>2. node[t] + 1 \in Nat
        BY <1>a DEF LocalTyped
      <4> QED
        BY <1>a, <4>1, <4>2 DEF LocalTyped
    <3>2. cont' \in [Threads -> {"top", "chunk", "ret"}]
      BY <1>a, <1>2 DEF Top, ToBarrier, LocalTyped, local
    <3> QED
      BY <1>a, <1>2, <3>1, <3>2 DEF Top, LocalTyped
  <2> QED
    BY <2>1, <2>2, <2>3 DEF Typed
<1>3. CASE Work(t)
  <2>1. PcTyped'
    <3>1. \E l \in PcOf(t) : Goto(t, l)
      BY <1>0, <1>3 DEF Work, Goto, ExecPcs
    <3> QED
      BY <1>a, <3>1, GotoTyped DEF Goto
  <2>2. SharedTyped'
    BY <1>a, <1>3 DEF Work, SharedTyped, LocalTyped, shared
  <2>3. LocalTyped'
    BY <1>a, <1>3, SMTT(20) DEF Work, Fused, LocalTyped, local
  <2> QED
    BY <2>1, <2>2, <2>3 DEF Typed
<1>4. CASE Prep(t)
  <2>1. PcTyped'
    <3>1. \E l \in PcOf(t) : Goto(t, l)
      BY <1>0, <1>4 DEF Prep, ToBarrier, Goto, ExecPcs
    <3> QED
      BY <1>a, <3>1, GotoTyped DEF Goto
  <2>2. SharedTyped'
    BY <1>a, <1>4 DEF Prep, SharedTyped, LocalTyped, shared
  <2>3. LocalTyped'
    <3>1. node' \in [Threads -> Nat] /\ mine' \in [Threads -> Nat]
      BY <1>a, <1>4, ThreadFacts DEF Prep, ToBarrier, LocalTyped, local
    <3>2. cont' \in [Threads -> {"top", "chunk", "ret"}]
      BY <1>a, <1>4 DEF Prep, ToBarrier, LocalTyped, local
    <3> QED
      BY <1>a, <1>4, <3>1, <3>2 DEF Prep, LocalTyped
  <2> QED
    BY <2>1, <2>2, <2>3 DEF Typed
<1>5. CASE Chunk(t)
  <2>1. PcTyped'
    <3>1. \E l \in PcOf(t) : Goto(t, l)
      BY <1>0, <1>5 DEF Chunk, Goto, ExecPcs
    <3> QED
      BY <1>a, <3>1, GotoTyped DEF Goto
  <2>2. SharedTyped'
    BY <1>a, <1>5 DEF Chunk, SharedTyped, LocalTyped, shared
  <2>3. LocalTyped'
    BY <1>a, <1>5 DEF Chunk, LocalTyped, local
  <2> QED
    BY <2>1, <2>2, <2>3 DEF Typed
<1>6. CASE ClaimChunk(t)
  <2>1. PcTyped'
    <3>1. \E l \in PcOf(t) : Goto(t, l)
      BY <1>0, <1>6 DEF ClaimChunk, Goto, ExecPcs
    <3> QED
      BY <1>a, <3>1, GotoTyped DEF Goto
  <2>2. SharedTyped'
    BY <1>a, <1>6 DEF ClaimChunk, SharedTyped, LocalTyped, shared
  <2>3. LocalTyped'
    BY <1>a, <1>6 DEF ClaimChunk, SharedTyped, LocalTyped, local
  <2> QED
    BY <2>1, <2>2, <2>3 DEF Typed
<1>7. CASE After(t)
  <2>1. PcTyped'
    <3>1. \E l \in PcOf(t) : Goto(t, l)
      BY <1>0, <1>7 DEF After, ToBarrier, Goto, ExecPcs
    <3> QED
      BY <1>a, <3>1, GotoTyped DEF Goto
  <2>2. SharedTyped'
    BY <1>a, <1>7 DEF After, SharedTyped, LocalTyped, shared
  <2>3. LocalTyped'
    <3>1. node' \in [Threads -> Nat] /\ mine' \in [Threads -> Nat]
      BY <1>a, <1>7, ThreadFacts, SMTT(20) DEF After, ToBarrier, LocalTyped, local
    <3>2. cont' \in [Threads -> {"top", "chunk", "ret"}]
      BY <1>a, <1>7 DEF After, ToBarrier, LocalTyped, local
    <3> QED
      BY <1>a, <1>7, <3>1, <3>2 DEF After, LocalTyped
  <2> QED
    BY <2>1, <2>2, <2>3 DEF Typed
<1>8. CASE Return(t)
  <2>1. PcTyped'
    <3>1. \E l \in PcOf(t) : Goto(t, l)
      BY <1>0, <1>8 DEF Return, Goto, ExecPcs
    <3> QED
      BY <1>a, <3>1, GotoTyped DEF Goto
  <2>2. SharedTyped'
    BY <1>a, <1>8 DEF Return, SharedTyped, LocalTyped, shared
  <2>3. LocalTyped'
    BY <1>a, <1>8, PoolAssumption DEF Return, LocalTyped, local
  <2> QED
    BY <2>1, <2>2, <2>3 DEF Typed
<1>9. CASE BarEnter(t)
  <2>1. PcTyped'
    <3>1. \E l \in PcOf(t) : Goto(t, l)
      BY <1>0, <1>9 DEF BarEnter, Goto, ExecPcs
    <3> QED
      BY <1>a, <3>1, GotoTyped DEF Goto
  <2>2. SharedTyped'
    BY <1>a, <1>9 DEF BarEnter, SharedTyped, LocalTyped, shared
  <2>3. LocalTyped'
    <3>1. nGraph.n \in 0 .. N /\ nPassed \in Nat
      BY <1>a DEF SharedTyped
    <3>2. bar' \in [Threads -> [n : 0 .. N, passed : Nat]]
      <4>1. bar' \in {bar, [bar EXCEPT ![t] = [n |-> nGraph.n, passed |-> nPassed]]}
        BY <1>9 DEF BarEnter
      <4>2. [n |-> nGraph.n, passed |-> nPassed] \in [n : 0 .. N, passed : Nat]
        BY <3>1
      <4> QED
        BY <1>a, <4>1, <4>2 DEF LocalTyped
    <3> QED
      BY <1>a, <1>9, <3>2 DEF BarEnter, LocalTyped
  <2> QED
    BY <2>1, <2>2, <2>3 DEF Typed
<1>10. CASE BarAdd(t)
  <2>1. PcTyped'
    <3>1. \E l \in PcOf(t) : Goto(t, l)
      BY <1>0, <1>10 DEF BarAdd, Goto, ExecPcs
    <3> QED
      BY <1>a, <3>1, GotoTyped DEF Goto
  <2>2. SharedTyped'
    BY <1>a, <1>10 DEF BarAdd, SharedTyped, LocalTyped, shared
  <2>3. LocalTyped'
    BY <1>a, <1>10 DEF BarAdd, LocalTyped, local
  <2> QED
    BY <2>1, <2>2, <2>3 DEF Typed
<1>11. CASE BarReset(t)
  <2>1. PcTyped'
    <3>1. \E l \in PcOf(t) : Goto(t, l)
      BY <1>0, <1>11 DEF BarReset, Goto, ExecPcs
    <3> QED
      BY <1>a, <3>1, GotoTyped DEF Goto
  <2>2. SharedTyped'
    BY <1>a, <1>11 DEF BarReset, SharedTyped, LocalTyped, shared
  <2>3. LocalTyped'
    BY <1>a, <1>11 DEF BarReset, LocalTyped, local
  <2> QED
    BY <2>1, <2>2, <2>3 DEF Typed
<1>12. CASE BarPass(t)
  <2>1. PcTyped'
    <3>1. \E l \in PcOf(t) : Goto(t, l)
      BY <1>0, <1>12 DEF BarPass, LeaveBarrier, Goto, ExecPcs
    <3> QED
      BY <1>a, <3>1, GotoTyped DEF Goto
  <2>2. SharedTyped'
    BY <1>a, <1>12 DEF BarPass, SharedTyped, LocalTyped, shared
  <2>3. LocalTyped'
    BY <1>a, <1>12, PoolAssumption DEF BarPass, LeaveBarrier, NoBar, LocalTyped, local
  <2> QED
    BY <2>1, <2>2, <2>3 DEF Typed
<1>13. CASE BarSpin(t)
  <2>1. PcTyped'
    <3>1. \E l \in PcOf(t) : Goto(t, l)
      BY <1>0, <1>13 DEF BarSpin, LeaveBarrier, Goto, ExecPcs
    <3> QED
      BY <1>a, <3>1, GotoTyped DEF Goto
  <2>2. SharedTyped'
    BY <1>a, <1>13 DEF BarSpin, SharedTyped, LocalTyped, shared
  <2>3. LocalTyped'
    BY <1>a, <1>13, PoolAssumption DEF BarSpin, LeaveBarrier, NoBar, LocalTyped, local
  <2> QED
    BY <2>1, <2>2, <2>3 DEF Typed
<1> QED
  BY <1>1, <1>2, <1>3, <1>4, <1>5, <1>6, <1>7, <1>8, <1>9, <1>10, <1>11, <1>12, <1>13 DEF ComputeStep

LEMMA TypedStep == Typed /\ [Next]_vars => Typed'
<1> SUFFICES ASSUME Typed, [Next]_vars PROVE Typed'
  OBVIOUS
<1>1. CASE UNCHANGED vars \/ Ended
  BY <1>1 DEF Typed, PcTyped, SharedTyped, LocalTyped, Ended, vars, shared, local
<1> QED
  BY <1>1, TypedCaller, TypedLook, TypedCompute DEF Next

-----------------------------------------------------------------------------
(***************************************************************************)
(* What the actions do, thread by thread.                                  *)
(***************************************************************************)
Still(u) ==
    /\ pc'[u] = pc[u] /\ bar'[u] = bar[u] /\ cont'[u] = cont[u]
    /\ node'[u] = node[u] /\ mine'[u] = mine[u]
    /\ lastGraph'[u] = lastGraph[u] /\ pending'[u] = pending[u]
    /\ g'[u] = g[u] /\ nth'[u] = nth[u]
Others(t) == \A u \in Threads \ {t} : Still(u)

(* What a step leaves alone of the parameters, and of thread t.            *)
SameCall  == UNCHANGED <<cgraph, want, nGraph, stop, pause>>
SameTask  == SameCall /\ UNCHANGED <<abort, ec>>
SameBar   == UNCHANGED <<nBarrier, nPassed>>
Keeps(t)  == /\ lastGraph'[t] = lastGraph[t] /\ pending'[t] = pending[t]
             /\ g'[t] = g[t] /\ nth'[t] = nth[t]

LEMMA Domains ==
    ASSUME Typed
    PROVE  /\ DOMAIN pc = Threads /\ DOMAIN bar = Threads /\ DOMAIN cont = Threads
           /\ DOMAIN node = Threads /\ DOMAIN mine = Threads /\ DOMAIN lastGraph = Threads
           /\ DOMAIN pending = Threads /\ DOMAIN g = Threads /\ DOMAIN nth = Threads
  BY DEF Typed, PcTyped, LocalTyped

LEMMA PointTypes ==
    ASSUME Typed, NEW t \in Threads
    PROVE  /\ pc[t] \in PcOf(t) /\ node[t] \in Nat /\ mine[t] \in Nat /\ nth[t] \in 0 .. N
           /\ bar[t].n \in 0 .. N /\ bar[t].passed \in Nat /\ cont[t] \in {"top", "chunk", "ret"}
           /\ lastGraph[t].count \in Nat /\ pending[t] \in BOOLEAN
           /\ nPassed \in Nat /\ nBarrier \in Nat /\ nGraph.count \in Nat /\ chunk \in Nat
  BY DEF Typed, PcTyped, SharedTyped, LocalTyped

LEMMA LookMoves ==
    ASSUME Typed, Claims, NEW w \in Workers, LookStep(w) \/ SpuriousWake(w)
    PROVE  /\ Others(w) /\ UNCHANGED <<shared, out>>
           /\ UNCHANGED <<g, nth, node, mine, bar, cont>>
           /\ pc[w] \in LookPcs
           /\ \/ /\ pc'[w] \in LookPcs /\ lastGraph'[w] = lastGraph[w] /\ ~pending[w] /\ ~pending'[w]
              \/ /\ pc'[w] \in LookPcs /\ lastGraph[w] # nGraph /\ ~pending[w]
                 /\ lastGraph'[w] = nGraph /\ (pending'[w] <=> w < nGraph.n)
                 /\ pending'[w] => pc'[w] = "take"
              \/ /\ pc'[w] = "start" /\ lastGraph'[w] = lastGraph[w] /\ pending[w] /\ ~pending'[w]
<1>0. w \in Threads
  BY ThreadFacts
<1>a. pending[w] => pc[w] = "take"
  BY DEF Claims
<1> USE <1>0, <1>a, Domains, PointTypes DEF Goto, shared, local, LookPcs, Others, Still
<1>1. CASE PauseTest(w) \/ PauseWait(w) \/ StopTest(w) \/ PollFlags(w) \/ SpuriousWake(w)
  <2>1. Woken(pc)[w] = IF pc[w] = "psleep" THEN "pause" ELSE IF pc[w] = "sleep" THEN "lock" ELSE pc[w]
    BY DEF Woken
  <2>2. CASE PauseTest(w)
    BY <2>1, <2>2 DEF PauseTest
  <2>3. CASE PauseWait(w)
    BY <2>1, <2>3 DEF PauseWait
  <2>4. CASE StopTest(w)
    BY <2>1, <2>4 DEF StopTest
  <2>5. CASE PollFlags(w)
    BY <2>1, <2>5 DEF PollFlags
  <2>6. CASE SpuriousWake(w)
    BY <2>1, <2>6 DEF SpuriousWake
  <2> QED
    BY <1>1, <2>2, <2>3, <2>4, <2>5, <2>6
<1>2. CASE PollGraph(w)
  BY <1>2 DEF PollGraph, Claimed
<1>3. CASE CheckOrSleep(w)
  BY <1>3, ZenonT(40) DEF CheckOrSleep, Claimed, FlagsReady
<1>4. CASE Take(w)
  BY <1>4 DEF Take
<1> QED
  BY <1>1, <1>2, <1>3, <1>4 DEF LookStep

LEMMA StartMoves ==
    ASSUME Typed, NEW t \in Threads, Start(t)
    PROVE  /\ Others(t) /\ SameTask /\ SameBar /\ UNCHANGED <<chunk, out>>
           /\ pc[t] = "start" /\ pc'[t] = "top" /\ node'[t] = 0 /\ g'[t] = cgraph /\ nth'[t] = nGraph.n
           /\ lastGraph'[t] = lastGraph[t] /\ pending'[t] = pending[t] /\ mine'[t] = mine[t]
           /\ bar'[t] = bar[t] /\ cont'[t] = cont[t]
  BY Domains DEF Start, Goto, shared, local, Others, Still, Keeps, SameCall, SameTask, SameBar

LEMMA TopMoves ==
    ASSUME Typed, NEW t \in Threads, Top(t)
    PROVE  /\ Others(t) /\ SameTask /\ SameBar /\ UNCHANGED <<chunk, out>>
           /\ pc[t] = "top" /\ Keeps(t) /\ mine'[t] = mine[t] /\ bar'[t] = bar[t]
           /\ \/ /\ node[t] >= Len(g[t]) \/ abort = node[t]
                 /\ pc'[t] = "bar" /\ cont'[t] = "ret" /\ node'[t] = node[t]
              \/ /\ node[t] < Len(g[t]) /\ abort # node[t] /\ OpAt(g[t], node[t]) = "nop"
                 /\ pc'[t] = "top" /\ cont'[t] = cont[t] /\ node'[t] = node[t] + 1
              \/ /\ node[t] < Len(g[t]) /\ abort # node[t] /\ OpAt(g[t], node[t]) # "nop"
                 /\ pc'[t] = (IF OpAt(g[t], node[t]) = "mulmat" THEN "prep" ELSE "work")
                 /\ cont'[t] = cont[t] /\ node'[t] = node[t]
  BY Domains DEF Top, ToBarrier, Goto, shared, local, Others, Still, Keeps, SameCall, SameTask, SameBar

LEMMA WorkMoves ==
    ASSUME Typed, NEW t \in Threads, Work(t)
    PROVE  /\ Others(t) /\ SameTask /\ SameBar /\ UNCHANGED chunk
           /\ pc[t] = "work" /\ Keeps(t) /\ mine'[t] = mine[t] /\ bar'[t] = bar[t] /\ cont'[t] = cont[t]
           /\ pc'[t] = "after" /\ node'[t] = node[t] + Fused(g[t], node[t])
           /\ out' = out \cup {<<node[t], 1, t>>}
  BY Domains DEF Work, Goto, shared, local, Others, Still, Keeps, SameCall, SameTask, SameBar

LEMMA PrepMoves ==
    ASSUME Typed, NEW t \in Threads, Prep(t)
    PROVE  /\ Others(t) /\ SameTask /\ SameBar /\ chunk' = (IF t = 0 THEN nth[t] ELSE chunk)
           /\ pc[t] = "prep" /\ Keeps(t) /\ mine'[t] = t /\ bar'[t] = bar[t] /\ cont'[t] = "chunk"
           /\ pc'[t] = "bar" /\ node'[t] = node[t]
           /\ out' = out \cup {<<node[t], 0, t>>}
  BY Domains DEF Prep, ToBarrier, Goto, shared, local, Others, Still, Keeps, SameCall, SameTask, SameBar

LEMMA ChunkMoves ==
    ASSUME Typed, NEW t \in Threads, Chunk(t)
    PROVE  /\ Others(t) /\ SameTask /\ SameBar /\ UNCHANGED chunk
           /\ pc[t] = "chunk" /\ Keeps(t) /\ mine'[t] = mine[t] /\ bar'[t] = bar[t] /\ cont'[t] = cont[t]
           /\ node'[t] = node[t]
           /\ IF mine[t] < NumChunks(nth[t])
              THEN /\ out' = out \cup {<<node[t], 1, mine[t]>>}
                   /\ pc'[t] = (IF nth[t] >= NumChunks(nth[t]) THEN "after" ELSE "claim")
              ELSE out' = out /\ pc'[t] = "after"
  BY Domains DEF Chunk, Goto, shared, local, Others, Still, Keeps, SameCall, SameTask, SameBar

LEMMA ClaimMoves ==
    ASSUME Typed, NEW t \in Threads, ClaimChunk(t)
    PROVE  /\ Others(t) /\ SameTask /\ SameBar /\ UNCHANGED out
           /\ pc[t] = "claim" /\ Keeps(t) /\ bar'[t] = bar[t] /\ cont'[t] = cont[t] /\ node'[t] = node[t]
           /\ pc'[t] = "chunk" /\ mine'[t] = chunk /\ chunk' = chunk + 1
  BY Domains DEF ClaimChunk, Goto, shared, local, Others, Still, Keeps, SameCall, SameTask, SameBar

LEMMA AfterMoves ==
    ASSUME Typed, NEW t \in Threads, After(t)
    PROVE  /\ Others(t) /\ SameCall /\ SameBar /\ UNCHANGED <<chunk, out>>
           /\ (abort' = abort /\ ec' = ec) \/ (t = 0 /\ abort' = node[t] + 1 /\ ec' = "ABORTED")
           /\ pc[t] = "after" /\ Keeps(t) /\ mine'[t] = mine[t] /\ bar'[t] = bar[t] /\ node'[t] = node[t] + 1
           /\ IF node[t] + 1 < Len(g[t]) THEN pc'[t] = "bar" /\ cont'[t] = "top"
                                   ELSE pc'[t] = "top" /\ cont'[t] = cont[t]
  BY Domains DEF After, ToBarrier, Goto, shared, local, Others, Still, Keeps, SameCall, SameTask, SameBar

LEMMA ReturnMoves ==
    ASSUME Typed, NEW t \in Threads, Return(t)
    PROVE  /\ Others(t) /\ SameTask /\ SameBar /\ UNCHANGED <<chunk, out>>
           /\ pc[t] = "ret" /\ pc'[t] = (IF t = 0 THEN "idle" ELSE "pause")
           /\ lastGraph'[t] = lastGraph[t] /\ pending'[t] = pending[t] /\ bar'[t] = bar[t]
  BY Domains DEF Return, Goto, shared, local, Others, Still, Keeps, SameCall, SameTask, SameBar

LEMMA EnterMoves ==
    ASSUME Typed, NEW t \in Threads, BarEnter(t)
    PROVE  /\ Others(t) /\ SameTask /\ SameBar /\ UNCHANGED <<chunk, out>>
           /\ pc[t] = "bar" /\ Keeps(t) /\ mine'[t] = mine[t] /\ cont'[t] = cont[t] /\ node'[t] = node[t]
           /\ IF nGraph.n = 1 THEN pc'[t] = cont[t] /\ bar'[t] = bar[t]
              ELSE pc'[t] = "add" /\ bar'[t].n = nGraph.n /\ bar'[t].passed = nPassed
  BY Domains DEF BarEnter, Goto, shared, local, Others, Still, Keeps, SameCall, SameTask, SameBar

LEMMA AddMoves ==
    ASSUME Typed, NEW t \in Threads, BarAdd(t)
    PROVE  /\ Others(t) /\ SameTask /\ nPassed' = nPassed /\ UNCHANGED <<chunk, out>>
           /\ pc[t] = "add" /\ Keeps(t) /\ mine'[t] = mine[t] /\ cont'[t] = cont[t] /\ node'[t] = node[t]
           /\ bar'[t] = bar[t] /\ nBarrier' = nBarrier + 1
           /\ pc'[t] = (IF nBarrier = bar[t].n - 1 THEN "reset" ELSE "spin")
  BY Domains DEF BarAdd, Goto, shared, local, Others, Still, Keeps, SameCall, SameTask, SameBar

LEMMA ResetMoves ==
    ASSUME Typed, NEW t \in Threads, BarReset(t)
    PROVE  /\ Others(t) /\ SameTask /\ nPassed' = nPassed /\ UNCHANGED <<chunk, out>>
           /\ pc[t] = "reset" /\ Keeps(t) /\ mine'[t] = mine[t] /\ cont'[t] = cont[t] /\ node'[t] = node[t]
           /\ bar'[t] = bar[t] /\ nBarrier' = 0 /\ pc'[t] = "pass"
  BY Domains DEF BarReset, Goto, shared, local, Others, Still, Keeps, SameCall, SameTask, SameBar

LEMMA PassMoves ==
    ASSUME Typed, NEW t \in Threads, BarPass(t)
    PROVE  /\ Others(t) /\ SameTask /\ nBarrier' = nBarrier /\ UNCHANGED <<chunk, out>>
           /\ pc[t] = "pass" /\ Keeps(t) /\ mine'[t] = mine[t] /\ cont'[t] = cont[t] /\ node'[t] = node[t]
           /\ pc'[t] = cont[t] /\ nPassed' = nPassed + 1
  BY Domains DEF BarPass, LeaveBarrier, Goto, shared, local, Others, Still, Keeps, SameCall, SameTask, SameBar

LEMMA SpinMoves ==
    ASSUME Typed, NEW t \in Threads, BarSpin(t)
    PROVE  /\ Others(t) /\ SameTask /\ SameBar /\ UNCHANGED <<chunk, out>>
           /\ pc[t] = "spin" /\ Keeps(t) /\ mine'[t] = mine[t] /\ cont'[t] = cont[t] /\ node'[t] = node[t]
           /\ nPassed # bar[t].passed /\ pc'[t] = cont[t]
  BY Domains DEF BarSpin, LeaveBarrier, Goto, shared, local, Others, Still, Keeps, SameCall, SameTask, SameBar

(***************************************************************************)
(* When the caller is outside of a computation, so are the workers.        *)
(***************************************************************************)
LEMMA Quiet ==
    ASSUME Typed, Claims, Section, pc[0] \in CallerPcs
    PROVE  /\ \A t \in Threads : Aside(t) /\ pc[t] # "start"
           /\ \A w \in Workers : ~pending[w]
           /\ \A t \in Crew : Finished(t)
<1>1. \A t \in Crew : Finished(t)
  <2>1. CASE 0 \in Crew
    <3>1. \A k, m : ~Near(0, k, m) /\ ~Past(0, m) /\ ~Waits(0)
      BY DEF Near, Fresh, Past, Waits, Released, CallerPcs
    <3>2. \A k, m : ~Shares(0, k, m) /\ ~Prepares(0, k, m) /\ ~Leaves(0, k, m)
      BY <3>1 DEF Shares, Prepares, Prepared, Leaves, CallerPcs
    <3>3. \A m : ~Computes(0, m)
      BY <3>1 DEF Computes, Holds, Released, CallerPcs
    <3> QED
      BY <2>1, <3>2, <3>3 DEF Section, Sharing, Preparing, Multiplying, Leaving, Resting
  <2>2. CASE 0 \notin Crew
    <3>1. Crew = {}
      BY <2>2, CurrentGraph, FS_EmptySet
    <3> QED
      BY <3>1
  <2> QED
    BY <2>1, <2>2
<1>2. \A w \in Workers : Aside(w) /\ ~pending[w]
  <2> TAKE w \in Workers
  <2>1. w # 0
    BY ThreadFacts
  <2> QED
    BY <1>1, <2>1 DEF Claims, Finished
<1>3. Aside(0)
  BY DEF Aside
<1>4. \A t \in Threads : Aside(t) => pc[t] # "start"
  BY DEF Aside, Released, CallerPcs, LookPcs
<1> QED
  BY <1>1, <1>2, <1>3, <1>4, ThreadFacts

LEMMA StillAside ==
    ASSUME Typed, NEW u \in Threads, Still(u), nPassed' \in {nPassed, nPassed + 1}
    PROVE  Aside(u) => Aside(u)'
  BY PointTypes DEF Still, Aside, Released

(* A pool whose threads look for work may be woken.                        *)
LEMMA WakeMoves ==
    ASSUME Typed, Pause \/ Resume \/ Free \/ Kick
    PROVE  /\ UNCHANGED <<cgraph, want, nBarrier, nPassed, chunk, abort, ec, local, out>>
           /\ pc[0] \in {"idle", "kick"} /\ pc'[0] \in {"idle", "join", "start"}
           /\ \A w \in Workers : \/ pc'[w] = pc[w]
                                 \/ pc[w] \in LookPcs \ {"take"} /\ pc'[w] \in LookPcs
<1>1. \A w \in Workers : Woken(pc)[w] = pc[w] \/ (pc[w] \in LookPcs \ {"take"} /\ Woken(pc)[w] \in LookPcs)
  BY WokenTyped, ThreadFacts DEF Typed
<1>2. DOMAIN Woken(pc) = Threads
  BY WokenTyped DEF Typed
<1>3. Woken(pc)[0] = pc[0]
  BY WokenTyped, ThreadFacts DEF Typed
<1> QED
  BY <1>1, <1>2, <1>3, ThreadFacts DEF Pause, Resume, Free, Kick

LEMMA ClaimsInit == Init => Claims
  BY ThreadFacts DEF Init, Claims, Aside, LookPcs, Workers

LEMMA ClaimsStep ==
    ASSUME Typed, Claims, Section, [Next]_vars
    PROVE  Claims'
<1> USE ThreadFacts
<1> DEFINE Ok(w) == /\ lastGraph[w].count <= nGraph.count
                    /\ pending[w] => pc[w] = "take" /\ w \in Crew /\ lastGraph[w] = nGraph
                    /\ ~Aside(w) => w \in Crew /\ lastGraph[w] = nGraph
<1>a. \A w \in Workers : Ok(w)
  BY DEF Claims
<1>b. SUFFICES \A w \in Workers : Ok(w)'
  BY DEF Claims
<1>c. ASSUME NEW w \in Workers, Still(w), nPassed' \in {nPassed, nPassed + 1}, nGraph' = nGraph
      PROVE  Ok(w)'
  BY <1>a, <1>c, StillAside DEF Still, Crew
<1>1. CASE Kick
  <2>1. pc[0] \in CallerPcs
    BY <1>1 DEF Kick, CallerPcs
  <2>2. ASSUME NEW w \in Workers
        PROVE  Ok(w)'
    <3>1. Aside(w) /\ ~pending[w] /\ lastGraph[w].count <= nGraph.count /\ lastGraph[w].count \in Nat
      BY <2>1, Quiet, <1>a, PointTypes
    <3>2. nGraph'.count = nGraph.count + 1 /\ nGraph.count \in Nat
      BY <1>1, PointTypes DEF Kick
    <3>3. lastGraph'[w] = lastGraph[w] /\ pending'[w] = pending[w]
      BY <1>1, WakeMoves DEF local
    <3>4. Aside(w)'
      BY <1>1, <3>1, WakeMoves DEF Aside, Released, local
    <3> QED
      BY <3>1, <3>2, <3>3, <3>4
  <2> QED
    BY <2>2
<1>2. CASE Pause \/ Resume \/ Free
  <2>1. ASSUME NEW w \in Workers
        PROVE  Ok(w)'
    <3>1. nGraph' = nGraph /\ UNCHANGED <<nPassed, local>>
      BY <1>2, WakeMoves DEF Pause, Resume, Free
    <3>2. Aside(w) => Aside(w)'
      BY <1>2, <3>1, WakeMoves DEF Aside, Released, local
    <3>3. pc[w] = "take" => pc'[w] = "take"
      BY <1>2, WakeMoves
    <3> QED
      BY <1>a, <3>1, <3>2, <3>3 DEF local, Crew
  <2> QED
    BY <2>1
<1>3. CASE UNCHANGED vars \/ Ended
  BY <1>c, <1>3 DEF vars, Ended, shared, local, Still
<1>4. CASE Joined
  <2>1. \A w \in Workers : Still(w)
    BY <1>4, Domains DEF Joined, Goto, local, Still
  <2>2. nPassed' = nPassed /\ nGraph' = nGraph
    BY <1>4 DEF Joined, shared
  <2> QED
    BY <1>c, <2>1, <2>2
<1>5. ASSUME NEW gr \in Graphs, NEW n \in 1 .. N + 1, Begin(gr, n)
      PROVE  \A w \in Workers : Ok(w)'
  <2>1. \A w \in Workers : Still(w)
    BY <1>5, Domains DEF Begin, Goto, local, Still
  <2>2. nPassed' = nPassed /\ nGraph' = nGraph
    BY <1>5 DEF Begin
  <2> QED
    BY <1>c, <2>1, <2>2
<1>6. ASSUME NEW x \in Workers, LookStep(x) \/ SpuriousWake(x)
      PROVE  \A w \in Workers : Ok(w)'
  <2>1. nPassed' = nPassed /\ nGraph' = nGraph
    BY <1>6, LookMoves DEF shared
  <2>2. \A w \in Workers \ {x} : Ok(w)'
    BY <1>6, <1>c, <2>1, LookMoves DEF Others
  <2>3. lastGraph[x].count <= nGraph.count /\ nGraph.count \in Nat
    BY <1>a, PointTypes
  <2>4. Ok(x)'
    <3>1. CASE pc'[x] \in LookPcs
      <4>1. Aside(x)'
        BY <3>1 DEF Aside
      <4>2. \/ lastGraph'[x] = lastGraph[x] /\ ~pending'[x]
            \/ /\ lastGraph'[x] = nGraph /\ (pending'[x] <=> x < nGraph.n)
               /\ pending'[x] => pc'[x] = "take"
        BY <1>6, <3>1, LookMoves DEF LookPcs
      <4> QED
        BY <2>1, <2>3, <4>1, <4>2 DEF Crew
    <3>2. CASE pc'[x] \notin LookPcs
      <4>1. lastGraph'[x] = lastGraph[x] /\ pending[x] /\ ~pending'[x]
        BY <1>6, <3>2, LookMoves
      <4> QED
        BY <1>a, <2>1, <4>1 DEF Crew
    <3> QED
      BY <3>1, <3>2
  <2> QED
    BY <2>2, <2>4
<1>7. ASSUME NEW t \in Threads, ComputeStep(t)
      PROVE  \A w \in Workers : Ok(w)'
  <2>1. /\ Others(t) /\ nPassed' \in {nPassed, nPassed + 1} /\ nGraph' = nGraph
        /\ lastGraph'[t] = lastGraph[t] /\ pending'[t] = pending[t] /\ pc[t] # "take"
        /\ Aside(t) => Aside(t)'
    <3> USE DEF SameTask, SameCall, SameBar, Keeps
    <3>1. CASE BarSpin(t)
      BY <3>1, SpinMoves, PointTypes DEF Aside, Released, CallerPcs, LookPcs
    <3>2. CASE Return(t)
      BY <3>2, ReturnMoves DEF Aside, CallerPcs, LookPcs
    <3>3. CASE Start(t) \/ Top(t) \/ Work(t) \/ Prep(t)
      BY <3>3, StartMoves, TopMoves, WorkMoves, PrepMoves DEF Aside, Released, CallerPcs, LookPcs
    <3>4. CASE Chunk(t) \/ ClaimChunk(t) \/ After(t)
      BY <3>4, ChunkMoves, ClaimMoves, AfterMoves DEF Aside, Released, CallerPcs, LookPcs
    <3>5. CASE BarEnter(t) \/ BarAdd(t)
      BY <3>5, EnterMoves, AddMoves DEF Aside, Released, CallerPcs, LookPcs
    <3>6. CASE BarReset(t) \/ BarPass(t)
      BY <3>6, ResetMoves, PassMoves DEF Aside, Released, CallerPcs, LookPcs
    <3> QED
      BY <1>7, <3>1, <3>2, <3>3, <3>4, <3>5, <3>6 DEF ComputeStep
  <2>2. \A w \in Workers \ {t} : Ok(w)'
    BY <1>c, <2>1 DEF Others
  <2>3. t \in Workers => Ok(t)'
    BY <1>a, <2>1 DEF Crew
  <2> QED
    BY <2>2, <2>3
<1> QED
  BY <1>1, <1>2, <1>3, <1>4, <1>5, <1>6, <1>7 DEF Next

(***************************************************************************)
(* The copies of the parameters.                                           *)
(***************************************************************************)
LEMMA AsideNow ==
    ASSUME NEW t, pc[t] \in CallerPcs \cup LookPcs \cup {"ret"}
    PROVE  Aside(t)
  BY DEF Aside

LEMMA ParamsInit == Init => Params
  BY ThreadFacts DEF Init, Params, Aside, LookPcs, CallerPcs

LEMMA ParamsStep ==
    ASSUME Typed, Claims, Section, Params, [Next]_vars
    PROVE  Params'
<1> USE ThreadFacts
<1> DEFINE Ok(t) == ~Aside(t) /\ pc[t] # "start" => g[t] = cgraph /\ nth[t] = nGraph.n
<1>a. \A t \in Threads : Ok(t)
  BY DEF Params
<1>b. SUFFICES \A t \in Threads : Ok(t)'
  BY DEF Params
<1>c. ASSUME NEW t \in Threads, Still(t), nPassed' \in {nPassed, nPassed + 1}, cgraph' = cgraph, nGraph' = nGraph
      PROVE  Ok(t)'
  BY <1>a, <1>c, StillAside DEF Still
<1>1. CASE Kick
  <2>1. pc[0] \in CallerPcs
    BY <1>1 DEF Kick, CallerPcs
  <2>2. ASSUME NEW w \in Workers
        PROVE  Aside(w)'
    <3>1. Aside(w)
      BY <2>1, Quiet
    <3> QED
      BY <1>1, <3>1, WakeMoves DEF Aside, Released, local
  <2>3. pc'[0] = "start"
    BY <1>1, Domains, WokenTyped DEF Kick, Typed
  <2> QED
    BY <2>2, <2>3
<1>2. CASE Pause \/ Resume \/ Free
  <2>1. /\ UNCHANGED <<cgraph, nGraph, nPassed, g, nth, bar, cont>>
        /\ pc'[0] \in CallerPcs
    BY <1>2, WakeMoves, Domains, WokenTyped DEF Pause, Resume, Free, local, CallerPcs, Typed
  <2>2. ASSUME NEW w \in Workers
        PROVE  Ok(w)'
    <3>1. CASE pc'[w] = pc[w]
      BY <1>a, <2>1, <3>1 DEF Aside, Released
    <3>2. CASE pc'[w] \in LookPcs
      BY <3>2 DEF Aside
    <3> QED
      BY <1>2, <3>1, <3>2, WakeMoves
  <2>3. Ok(0)'
    BY <2>1 DEF Aside
  <2> QED
    BY <2>2, <2>3
<1>3. CASE UNCHANGED vars \/ Ended
  BY <1>c, <1>3 DEF vars, Ended, shared, local, Still
<1>4. CASE Joined
  <2>1. /\ \A t \in Threads \ {0} : Still(t)
        /\ nPassed' = nPassed /\ nGraph' = nGraph /\ cgraph' = cgraph
    BY <1>4, Domains DEF Joined, Goto, local, Still, shared
  <2>2. Ok(0)'
    BY <1>4, Domains DEF Joined, Goto, Aside, CallerPcs
  <2> QED
    BY <1>c, <2>1, <2>2
<1>5. ASSUME NEW gr \in Graphs, NEW n \in 1 .. N + 1, Begin(gr, n)
      PROVE  \A t \in Threads : Ok(t)'
  <2>1. pc[0] \in CallerPcs /\ nPassed' = nPassed
    BY <1>5 DEF Begin, CallerPcs
  <2>2. \A t \in Threads \ {0} : Aside(t)'
    <3>1. \A t \in Threads \ {0} : Still(t)
      BY <1>5, Domains DEF Begin, Goto, local, Still
    <3> QED
      BY <2>1, <3>1, Quiet, StillAside
  <2>3. Aside(0)'
    BY <1>5, Domains DEF Begin, Goto, Aside, CallerPcs
  <2> QED
    BY <2>2, <2>3
<1>6. ASSUME NEW x \in Workers, LookStep(x) \/ SpuriousWake(x)
      PROVE  \A t \in Threads : Ok(t)'
  <2>1. nPassed' = nPassed /\ nGraph' = nGraph /\ cgraph' = cgraph
    BY <1>6, LookMoves DEF shared
  <2>2. \A t \in Threads \ {x} : Ok(t)'
    BY <1>6, <1>c, <2>1, LookMoves DEF Others
  <2>3. pc'[x] \in LookPcs \/ pc'[x] = "start"
    BY <1>6, LookMoves
  <2>4. Ok(x)'
    BY <2>3 DEF Aside
  <2> QED
    BY <2>2, <2>4
<1>7. ASSUME NEW t \in Threads, ComputeStep(t)
      PROVE  \A u \in Threads : Ok(u)'
  <2>1. /\ Others(t) /\ nPassed' \in {nPassed, nPassed + 1} /\ nGraph' = nGraph /\ cgraph' = cgraph
        /\ Ok(t)'
    <3> USE <1>a DEF SameTask, SameCall, SameBar, Keeps
    <3>1. CASE BarSpin(t)
      <4>1. cont[t] = "ret" => Aside(t)'
        BY <3>1, SpinMoves DEF Aside
      <4>2. cont[t] # "ret" => ~Aside(t) /\ pc[t] # "start"
        BY <3>1, SpinMoves DEF Aside, Released, CallerPcs, LookPcs
      <4> QED
        BY <3>1, <4>1, <4>2, SpinMoves
    <3>2. CASE Return(t)
      <4>1. Aside(t)'
        BY <3>2, ReturnMoves DEF Aside, CallerPcs, LookPcs
      <4> QED
        BY <3>2, <4>1, ReturnMoves
    <3>3. CASE Start(t)
      BY <3>3, StartMoves
    <3>4. CASE Top(t) \/ Work(t) \/ Prep(t)
      BY <3>4, TopMoves, WorkMoves, PrepMoves DEF Aside, Released, CallerPcs, LookPcs
    <3>5. CASE Chunk(t) \/ ClaimChunk(t) \/ After(t)
      BY <3>5, ChunkMoves, ClaimMoves, AfterMoves DEF Aside, Released, CallerPcs, LookPcs
    <3>6. CASE BarEnter(t) \/ BarAdd(t)
      <4>1. ~Aside(t) /\ pc[t] # "start"
        BY <3>6, EnterMoves, AddMoves DEF Aside, Released, CallerPcs, LookPcs
      <4>2. CASE BarEnter(t)
        BY <4>1, <4>2, EnterMoves
      <4>3. CASE BarAdd(t)
        BY <4>1, <4>3, AddMoves
      <4> QED
        BY <3>6, <4>2, <4>3
    <3>7. CASE BarReset(t) \/ BarPass(t)
      BY <3>7, ResetMoves, PassMoves DEF Aside, Released, CallerPcs, LookPcs
    <3> QED
      BY <1>7, <3>1, <3>2, <3>3, <3>4, <3>5, <3>6, <3>7 DEF ComputeStep
  <2> QED
    BY <1>c, <2>1 DEF Others
<1> QED
  BY <1>1, <1>2, <1>3, <1>4, <1>5, <1>6, <1>7 DEF Next

(***************************************************************************)
(* The barrier.                                                            *)
(***************************************************************************)
LEMMA InCrew ==
    ASSUME Typed, Claims, Called
    PROVE  /\ \A t \in Threads : ~Aside(t) => t \in Crew
           /\ pc[0] \notin CallerPcs => 0 \in Crew
           /\ \A t \in Threads : Aside(t) => pc[t] \notin {"add", "reset", "pass"}
           /\ Arrived \subseteq Crew
<1>1. pc[0] \notin CallerPcs => 0 \in Crew
  <2>1. pc[0] \notin CallerPcs => nGraph.n = MinOf(want, N)
    BY DEF Called, InCall, CallerPcs
  <2>2. MinOf(want, N) > 0
    BY PoolAssumption DEF MinOf, Typed, SharedTyped
  <2> QED
    BY <2>1, <2>2, CurrentGraph
<1>2. ~Aside(0) => 0 \in Crew
  BY <1>1 DEF Aside
<1>3. \A t \in Threads : ~Aside(t) => t \in Crew
  BY <1>2, ThreadFacts DEF Claims
<1>4. \A t \in Threads : Aside(t) => pc[t] \notin {"add", "reset", "pass"} /\ t \notin Arrived
  BY PointTypes DEF Aside, Released, Arrived, CallerPcs, LookPcs
<1>5. Arrived \subseteq Threads
  BY DEF Arrived
<1> QED
  BY <1>1, <1>3, <1>4, <1>5

(* A step that leaves the barrier alone.                                   *)
Inside(t) == pc[t] \in {"add", "reset", "pass"} \/ (pc[t] = "spin" /\ bar[t].passed >= nPassed)
LEMMA BarKept ==
    ASSUME Typed, BarOK, SameBar, nGraph' = nGraph,
           \A t \in Threads : \/ pc'[t] = pc[t] /\ bar'[t] = bar[t]
                              \/ ~Inside(t) /\ pc'[t] \notin {"add", "reset", "pass", "spin"}
    PROVE  BarOK'
<1>1. Arrived' = Arrived
  BY PointTypes DEF Arrived, Inside, SameBar
<1>2. Crew' = Crew
  BY DEF Crew
<1>3. \A t \in Threads : Opener(t)' <=> Opener(t)
  BY DEF Opener, Inside
<1>4. \A t \in Threads : /\ pc'[t] = "add" => bar'[t].n = nGraph'.n
                         /\ pc'[t] \in {"add", "reset", "pass"} => bar'[t].passed = nPassed'
                         /\ pc'[t] = "spin" => bar'[t].passed <= nPassed'
  BY DEF BarOK, SameBar
<1>5. \A o \in Threads : Opener(o) => pc'[o] = pc[o]
  BY DEF Opener, Inside
<1>6. CASE \A t \in Threads : ~Opener(t)
  <2>1. nBarrier = Cardinality(Arrived) /\ (Crew = {} \/ Arrived # Crew)
    BY <1>6 DEF BarOK
  <2> QED
    BY <1>1, <1>2, <1>3, <1>4, <1>6, <2>1 DEF BarOK, SameBar
<1>7. CASE ~(\A t \in Threads : ~Opener(t))
  <2>1. PICK o \in Threads : /\ \A t \in Threads : Opener(t) <=> t = o
                             /\ Arrived = Crew
                             /\ nBarrier = (IF pc[o] = "reset" THEN nGraph.n ELSE 0)
    BY <1>7 DEF BarOK
  <2>2. pc'[o] = pc[o]
    BY <1>5, <2>1
  <2>3. /\ \A t \in Threads : Opener(t)' <=> t = o
        /\ Arrived' = Crew'
        /\ nBarrier' = (IF pc'[o] = "reset" THEN nGraph'.n ELSE 0)
    BY <1>1, <1>2, <1>3, <2>1, <2>2 DEF SameBar
  <2> QED
    BY <1>4, <2>3 DEF BarOK
<1> QED
  BY <1>6, <1>7

(* Nobody is in the barrier.                                               *)
LEMMA BarEmpty ==
    ASSUME \A t \in Threads : pc[t] \notin {"add", "reset", "pass"}
                              /\ (pc[t] = "spin" => bar[t].passed <= nPassed /\ bar[t].passed # nPassed),
           nBarrier = 0
    PROVE  BarOK
<1>1. Arrived = {}
  BY DEF Arrived
<1> QED
  BY <1>1, FS_EmptySet DEF BarOK, Opener

LEMMA BarEmptyNext ==
    ASSUME \A t \in Threads : pc'[t] \notin {"add", "reset", "pass"}
                              /\ (pc'[t] = "spin" => bar'[t].passed <= nPassed' /\ bar'[t].passed # nPassed'),
           nBarrier' = 0
    PROVE  BarOK'
<1>1. Arrived' = {}
  BY DEF Arrived
<1> QED
  BY <1>1, FS_EmptySet DEF BarOK, Opener

LEMMA BarInit == Init => BarOK
<1> SUFFICES ASSUME Init PROVE BarOK
  OBVIOUS
<1>1. \A t \in Threads : pc[t] \in {"idle", "pause"}
  BY DEF Init
<1> QED
  BY <1>1, BarEmpty DEF Init

LEMMA BarQuiet ==
    ASSUME Typed, BarOK, \A t \in Threads : Aside(t)
    PROVE  /\ nBarrier = 0
           /\ \A t \in Threads : pc[t] \notin {"add", "reset", "pass"}
                                 /\ (pc[t] = "spin" => bar[t].passed <= nPassed /\ bar[t].passed # nPassed)
<1>1. \A t \in Threads : pc[t] \notin {"add", "reset", "pass"}
                                 /\ (pc[t] = "spin" => bar[t].passed <= nPassed /\ bar[t].passed # nPassed)
  BY PointTypes DEF Aside, Released, CallerPcs, LookPcs
<1>2. Arrived = {} /\ \A t \in Threads : ~Opener(t)
  BY <1>1 DEF Arrived, Opener
<1> QED
  BY <1>1, <1>2, FS_EmptySet DEF BarOK

LEMMA BarStep ==
    ASSUME Typed, Claims, Section, BarOK, Called, [Next]_vars
    PROVE  BarOK'
<1> USE ThreadFacts
<1> DEFINE Leaves1(t) == \/ pc'[t] = pc[t] /\ bar'[t] = bar[t]
                         \/ ~Inside(t) /\ pc'[t] \notin {"add", "reset", "pass", "spin"}
<1>1. CASE Kick
  <2>1. pc[0] \in CallerPcs
    BY <1>1 DEF Kick, CallerPcs
  <2>2. /\ nBarrier = 0
        /\ \A t \in Threads : pc[t] \notin {"add", "reset", "pass"}
                              /\ (pc[t] = "spin" => bar[t].passed <= nPassed /\ bar[t].passed # nPassed)
    BY <2>1, Quiet, BarQuiet
  <2>3. UNCHANGED <<nBarrier, nPassed, bar>> /\ pc'[0] = "start"
    BY <1>1, WokenTyped, Domains DEF Kick, local, Typed
  <2>4. \A w \in Workers : pc'[w] \notin {"add", "reset", "pass"} /\ (pc'[w] = "spin" => pc[w] = "spin")
    BY <1>1, <2>2, WakeMoves DEF LookPcs
  <2>5. /\ nBarrier' = 0
        /\ \A t \in Threads : pc'[t] \notin {"add", "reset", "pass"}
                              /\ (pc'[t] = "spin" => bar'[t].passed <= nPassed' /\ bar'[t].passed # nPassed')
    BY <2>2, <2>3, <2>4
  <2> QED
    BY <2>5, BarEmptyNext
<1>2. CASE Pause \/ Resume \/ Free
  <2>1. SameBar /\ nGraph' = nGraph /\ bar' = bar
    BY <1>2, WakeMoves DEF Pause, Resume, Free, local, SameBar
  <2>2. Leaves1(0)
    BY <1>2, WakeMoves DEF Inside
  <2>3. \A w \in Workers : Leaves1(w)
    BY <1>2, <2>1, WakeMoves DEF Inside, LookPcs
  <2> QED
    BY <2>1, <2>2, <2>3, BarKept
<1>3. CASE UNCHANGED vars \/ Ended
  BY <1>3, BarKept DEF vars, Ended, shared, local, SameBar
<1>4. CASE Joined
  <2>1. SameBar /\ nGraph' = nGraph /\ \A t \in Threads : Leaves1(t)
    BY <1>4, Domains DEF Joined, Goto, local, shared, SameBar, Inside
  <2> QED
    BY <2>1, BarKept
<1>5. ASSUME NEW gr \in Graphs, NEW n \in 1 .. N + 1, Begin(gr, n)
      PROVE  BarOK'
  <2>1. SameBar /\ nGraph' = nGraph /\ \A t \in Threads : Leaves1(t)
    BY <1>5, Domains DEF Begin, Goto, local, SameBar, Inside
  <2> QED
    BY <2>1, BarKept
<1>6. ASSUME NEW x \in Workers, LookStep(x) \/ SpuriousWake(x)
      PROVE  BarOK'
  <2>1. SameBar /\ nGraph' = nGraph
    BY <1>6, LookMoves DEF shared, SameBar
  <2>2. \A t \in Threads \ {x} : Leaves1(t)
    BY <1>6, LookMoves DEF Others, Still
  <2>3. Leaves1(x)
    BY <1>6, LookMoves DEF Inside, LookPcs
  <2> QED
    BY <2>1, <2>2, <2>3, BarKept
<1>7. ASSUME NEW t \in Threads,
             Start(t) \/ Top(t) \/ Work(t) \/ Prep(t) \/ Chunk(t) \/ ClaimChunk(t)
             \/ After(t) \/ Return(t) \/ BarSpin(t)
      PROVE  BarOK'
  <2> USE DEF SameTask, SameCall, SameBar, Inside
  <2>1. Others(t) /\ SameBar /\ nGraph' = nGraph /\ Leaves1(t)
    <3>1. CASE Start(t) \/ Top(t) \/ Work(t) \/ Prep(t)
      BY <3>1, StartMoves, TopMoves, WorkMoves, PrepMoves
    <3>2. CASE Chunk(t) \/ ClaimChunk(t) \/ After(t) \/ Return(t)
      BY <3>2, ChunkMoves, ClaimMoves, AfterMoves, ReturnMoves
    <3>3. CASE BarSpin(t)
      <4>1. bar[t].passed <= nPassed
        BY <3>3, SpinMoves DEF BarOK
      <4> QED
        <5>1. bar[t].passed \in Nat /\ nPassed \in Nat /\ cont[t] \in {"top", "chunk", "ret"}
          BY PointTypes
        <5>2. pc[t] = "spin" /\ nPassed # bar[t].passed /\ pc'[t] = cont[t] /\ Others(t) /\ UNCHANGED <<nBarrier, nPassed, nGraph>>
          BY <3>3, SpinMoves
        <5>3. ~Inside(t) /\ pc'[t] \notin {"add", "reset", "pass", "spin"}
          BY <4>1, <5>1, <5>2
        <5> QED
          BY <5>2, <5>3
    <3> QED
      BY <1>7, <3>1, <3>2, <3>3
  <2> QED
    BY <2>1, BarKept DEF Others, Still
<1>8. ASSUME NEW t \in Threads, BarEnter(t)
      PROVE  BarOK'
  <2> USE DEF SameTask, SameCall, SameBar
  <2>1. Others(t) /\ SameBar /\ nGraph' = nGraph /\ pc[t] = "bar"
    BY <1>8, EnterMoves
  <2>2. CASE nGraph.n = 1
    <3>1. pc'[t] \notin {"add", "reset", "pass", "spin"}
      BY <1>8, <2>2, EnterMoves, PointTypes
    <3> QED
      BY <2>1, <3>1, BarKept DEF Others, Still, Inside
  <2>3. CASE nGraph.n # 1
    <3>1. pc'[t] = "add" /\ bar'[t].n = nGraph.n /\ bar'[t].passed = nPassed
      BY <1>8, <2>3, EnterMoves
    <3>2. Arrived' = Arrived /\ Crew' = Crew /\ \A u \in Threads : Opener(u)' <=> Opener(u)
      BY <2>1, <3>1 DEF Arrived, Crew, Opener, Others, Still
    <3>3. \A u \in Threads : /\ pc'[u] = "add" => bar'[u].n = nGraph'.n
                             /\ pc'[u] \in {"add", "reset", "pass"} => bar'[u].passed = nPassed'
                             /\ pc'[u] = "spin" => bar'[u].passed <= nPassed'
      BY <2>1, <3>1 DEF BarOK, Others, Still
    <3>4. \A u \in Threads : Opener(u) => pc'[u] = pc[u]
      BY <2>1 DEF Opener, Others, Still
    <3>5. CASE \A u \in Threads : ~Opener(u)
      <4>1. nBarrier = Cardinality(Arrived) /\ (Crew = {} \/ Arrived # Crew)
        BY <3>5 DEF BarOK
      <4> QED
        BY <2>1, <3>2, <3>3, <3>5, <4>1 DEF BarOK
    <3>6. CASE ~(\A u \in Threads : ~Opener(u))
      <4>1. PICK o \in Threads : /\ \A u \in Threads : Opener(u) <=> u = o
                                 /\ Arrived = Crew
                                 /\ nBarrier = (IF pc[o] = "reset" THEN nGraph.n ELSE 0)
        BY <3>6 DEF BarOK
      <4>2. /\ \A u \in Threads : Opener(u)' <=> u = o
            /\ Arrived' = Crew'
            /\ nBarrier' = (IF pc'[o] = "reset" THEN nGraph'.n ELSE 0)
        BY <2>1, <3>2, <3>4, <4>1
      <4> QED
        BY <3>3, <4>2 DEF BarOK
    <3> QED
      BY <3>5, <3>6
  <2> QED
    BY <2>2, <2>3
<1>9. ASSUME NEW t \in Threads, BarAdd(t)
      PROVE  BarOK'
  <2> USE DEF SameTask, SameCall
  <2>1. /\ Others(t) /\ nPassed' = nPassed /\ nGraph' = nGraph /\ nBarrier' = nBarrier + 1
        /\ pc[t] = "add" /\ bar'[t] = bar[t] /\ bar[t].n = nGraph.n /\ bar[t].passed = nPassed
        /\ pc'[t] = (IF nBarrier = nGraph.n - 1 THEN "reset" ELSE "spin")
    BY <1>9, AddMoves DEF BarOK
  <2>2. t \in Crew /\ t \notin Arrived /\ Arrived \subseteq Crew
    BY <2>1, InCrew DEF Arrived
  <2>3. /\ IsFiniteSet(Crew) /\ Cardinality(Crew) = nGraph.n /\ nGraph.n \in Nat
    BY CurrentGraph, PoolAssumption
  <2>4. /\ \A u \in Threads : ~Opener(u)
        /\ nBarrier = Cardinality(Arrived)
    BY <2>2 DEF BarOK
  <2>5. /\ IsFiniteSet(Arrived) /\ Cardinality(Arrived) \in Nat
        /\ IsFiniteSet(Arrived \cup {t}) /\ Cardinality(Arrived \cup {t}) = nBarrier + 1
    BY <2>2, <2>3, <2>4, FS_Subset, FS_AddElement, FS_CardinalityType
  <2>6. Crew' = Crew /\ Arrived' = Arrived \cup {t}
    BY <2>1 DEF Arrived, Crew, Others, Still
  <2>7. \A u \in Threads : /\ pc'[u] = "add" => bar'[u].n = nGraph'.n
                           /\ pc'[u] \in {"add", "reset", "pass"} => bar'[u].passed = nPassed'
                           /\ pc'[u] = "spin" => bar'[u].passed <= nPassed'
    BY <2>1, PointTypes DEF BarOK, Others, Still
  <2>8. CASE nBarrier = nGraph.n - 1
    <3>1. Arrived \cup {t} = Crew
      <4>1. Arrived \cup {t} \in SUBSET Crew /\ Cardinality(Crew) = Cardinality(Arrived \cup {t})
        BY <2>2, <2>3, <2>5, <2>8, CurrentGraph
      <4> QED
        BY <2>3, <4>1, FS_Subset
    <3>2. \A u \in Threads : Opener(u)' <=> u = t
      BY <2>1, <2>4, <2>8 DEF Opener, Others, Still
    <3>3. nBarrier' = (IF pc'[t] = "reset" THEN nGraph'.n ELSE 0)
      BY <2>1, <2>3, <2>8
    <3> QED
      BY <2>6, <2>7, <3>1, <3>2, <3>3 DEF BarOK
  <2>9. CASE nBarrier # nGraph.n - 1
    <3>1. Arrived \cup {t} # Crew
      <4>1. nBarrier + 1 # nGraph.n
        BY <2>3, <2>4, <2>5, <2>9
      <4> QED
        BY <2>3, <2>5, <4>1
    <3>2. \A u \in Threads : ~Opener(u)'
      BY <2>1, <2>4, <2>9 DEF Opener, Others, Still
    <3>3. nBarrier' = Cardinality(Arrived')
      BY <2>1, <2>5, <2>6
    <3> QED
      BY <2>6, <2>7, <3>1, <3>2, <3>3 DEF BarOK
  <2> QED
    BY <2>8, <2>9
<1>10. ASSUME NEW t \in Threads, BarReset(t)
       PROVE  BarOK'
  <2> USE DEF SameTask, SameCall
  <2>1. /\ Others(t) /\ nPassed' = nPassed /\ nGraph' = nGraph /\ nBarrier' = 0
        /\ pc[t] = "reset" /\ bar'[t] = bar[t] /\ pc'[t] = "pass"
    BY <1>10, ResetMoves
  <2>2. Arrived' = Arrived /\ Crew' = Crew /\ \A u \in Threads : Opener(u)' <=> Opener(u)
    BY <2>1 DEF Arrived, Crew, Opener, Others, Still
  <2>3. Arrived = Crew /\ \A u \in Threads : Opener(u) <=> u = t
    BY <2>1 DEF BarOK, Opener
  <2>4. \A u \in Threads : /\ pc'[u] = "add" => bar'[u].n = nGraph'.n
                           /\ pc'[u] \in {"add", "reset", "pass"} => bar'[u].passed = nPassed'
                           /\ pc'[u] = "spin" => bar'[u].passed <= nPassed'
    BY <2>1 DEF BarOK, Others, Still
  <2> QED
    BY <2>1, <2>2, <2>3, <2>4 DEF BarOK
<1>11. ASSUME NEW t \in Threads, BarPass(t)
       PROVE  BarOK'
  <2> USE DEF SameTask, SameCall
  <2>1. /\ Others(t) /\ nPassed' = nPassed + 1 /\ nGraph' = nGraph /\ nBarrier' = nBarrier
        /\ pc[t] = "pass" /\ pc'[t] = cont[t]
    BY <1>11, PassMoves
  <2>2. Arrived = Crew /\ nBarrier = 0 /\ \A u \in Threads : Opener(u) <=> u = t
    BY <2>1 DEF BarOK, Opener
  <2>3. \A u \in Threads \ {t} : pc[u] \notin {"add", "reset", "pass"}
    <3> TAKE u \in Threads \ {t}
    <3>1. pc[u] = "add" => u \in Crew /\ u \notin Arrived
      BY InCrew DEF Arrived
    <3> QED
      BY <2>2, <3>1 DEF Opener
  <2>4. \A u \in Threads : pc[u] = "spin" => bar[u].passed <= nPassed
    BY DEF BarOK
  <2>5. pc'[t] \notin {"add", "reset", "pass", "spin"}
    BY <2>1, PointTypes
  <2>6. \A u \in Threads : pc'[u] \notin {"add", "reset", "pass"}
                           /\ (pc'[u] = "spin" => bar'[u].passed <= nPassed' /\ bar'[u].passed # nPassed')
    BY <2>1, <2>3, <2>4, <2>5, PointTypes DEF Others, Still
  <2> QED
    BY <2>1, <2>2, <2>6, BarEmptyNext
<1> QED
  BY <1>1, <1>2, <1>3, <1>4, <1>5, <1>6, <1>7, <1>8, <1>9, <1>10, <1>11 DEF Next, ComputeStep

(***************************************************************************)
(* The call.                                                               *)
(***************************************************************************)
(* A thread in the loop over the nodes is at a node.                       *)
LEMMA AfterNode ==
    ASSUME Typed, Section, NEW t \in Crew, pc[t] = "after"
    PROVE  node[t] \in 0 .. L - 1
<1>1. \A k, m : ~Near(t, k, m) /\ ~Waits(t) /\ ~Holds(t, m) /\ ~Finished(t)
  BY DEF Near, Fresh, Aside, Waits, Released, Holds, Finished, CallerPcs, LookPcs
<1>2. \E m \in 0 .. L - 1 : Past(t, m)
  BY <1>1, CurrentGraph DEF Section, Sharing, Preparing, Multiplying, Leaving, Resting,
     Shares, Prepares, Prepared, Computes, Leaves
<1>3. PICK m \in 0 .. L - 1 : Past(t, m)
  BY <1>2
<1>4. node[t] = End(m) - 1
  BY <1>1, <1>3 DEF Past
<1> QED
  BY <1>4, CurrentGraph

LEMMA CalledInit == Init => Called
<1> SUFFICES ASSUME Init PROVE Called
  OBVIOUS
<1>1. pc[0] = "idle" /\ Threads # {}
  BY ThreadFacts DEF Init
<1> QED
  BY <1>1 DEF Called, InCall

LEMMA CalledStep ==
    ASSUME Typed, Claims, Section, Called, [Next]_vars
    PROVE  Called'
<1> USE ThreadFacts
<1>c. ASSUME UNCHANGED <<cgraph, want, nGraph, abort, ec>>, InCall' => InCall,
             pc'[0] # "kick" /\ InCall' => pc[0] # "kick",
             pc'[0] = "kick" => pc[0] = "kick" /\ out' = out
      PROVE  Called'
  BY <1>c DEF Called, L
<1>1. CASE Kick
  <2>1. pc[0] = "kick" /\ pc'[0] = "start" /\ nGraph'.n = MinOf(want, N)
        /\ UNCHANGED <<cgraph, want, abort, ec>>
    BY <1>1, WokenTyped, Domains DEF Kick, Typed
  <2> QED
    BY <2>1 DEF Called, InCall, L, MinOf
<1>2. CASE Pause \/ Resume \/ Free
  <2>1. pc'[0] \in {"idle", "join"} /\ UNCHANGED <<cgraph, want, nGraph, abort, ec>>
    BY <1>2, WakeMoves, WokenTyped, Domains DEF Pause, Resume, Free, Typed
  <2> QED
    BY <1>c, <2>1 DEF InCall
<1>3. CASE UNCHANGED vars \/ Ended
  BY <1>c, <1>3 DEF vars, Ended, shared, local, InCall
<1>4. CASE Joined
  <2>1. pc'[0] = "freed"
    BY <1>4, Domains DEF Joined, Goto
  <2> QED
    BY <1>4, <1>c, <2>1 DEF Joined, shared, InCall
<1>5. ASSUME NEW gr \in Graphs, NEW n \in 1 .. N + 1, Begin(gr, n)
      PROVE  Called'
  <2>1. pc'[0] = "kick"
    BY <1>5, Domains DEF Begin, Goto
  <2> QED
    BY <1>5, <2>1 DEF Begin, Called, InCall
<1>6. ASSUME NEW x \in Workers, LookStep(x) \/ SpuriousWake(x)
      PROVE  Called'
  <2>1. pc'[0] = pc[0] /\ UNCHANGED <<shared, out>>
    BY <1>6, LookMoves DEF Others, Still
  <2> QED
    BY <1>c, <2>1 DEF shared, InCall
<1>7. ASSUME NEW t \in Threads, After(t)
      PROVE  Called'
  <2> USE DEF SameCall
  <2>1. Others(t) /\ SameCall /\ out' = out /\ pc[t] = "after"
    BY <1>7, AfterMoves
  <2>2. InCall' => InCall
    BY <2>1, <1>7, AfterMoves DEF InCall, Others, Still
  <2>3. pc'[0] = "kick" <=> pc[0] = "kick"
    BY <2>1, <1>7, AfterMoves, PointTypes DEF Others, Still
  <2>4. CASE UNCHANGED <<abort, ec>>
    BY <1>c, <2>1, <2>2, <2>3, <2>4
  <2>5. CASE t = 0 /\ abort' = node[t] + 1 /\ ec' = "ABORTED"
    <3>1. pc[0] = "after"
      BY <2>1, <2>5
    <3>2. 0 \in Crew
      BY <3>1, InCrew DEF CallerPcs
    <3>3. abort' \in 1 .. L /\ abort' # -1
      BY <2>5, <3>1, <3>2, AfterNode, CurrentGraph
    <3>4. InCall /\ pc'[0] # "kick"
      BY <2>3, <3>1 DEF InCall
    <3> QED
      BY <2>1, <2>5, <3>1, <3>3, <3>4 DEF Called, L
  <2> QED
    BY <1>7, <2>4, <2>5, AfterMoves
<1>8. ASSUME NEW t \in Threads, ComputeStep(t), ~After(t)
      PROVE  Called'
  <2> USE DEF SameTask, SameCall
  <2>1. Others(t) /\ SameTask /\ pc[t] \in ExecPcs /\ pc'[t] # "kick"
    <3> USE PointTypes DEF ExecPcs
    <3>1. CASE Start(t) \/ Top(t) \/ Work(t) \/ Prep(t)
      BY <3>1, StartMoves, TopMoves, WorkMoves, PrepMoves
    <3>2. CASE Chunk(t) \/ ClaimChunk(t) \/ Return(t) \/ BarSpin(t)
      BY <3>2, ChunkMoves, ClaimMoves, ReturnMoves, SpinMoves
    <3>3. CASE BarEnter(t)
      BY <3>3, EnterMoves
    <3>4. CASE BarAdd(t) \/ BarReset(t) \/ BarPass(t)
      BY <3>4, AddMoves, ResetMoves, PassMoves
    <3> QED
      BY <1>8, <3>1, <3>2, <3>3, <3>4 DEF ComputeStep
  <2>2. InCall' => InCall
    BY <2>1 DEF InCall, Others, Still, ExecPcs
  <2>3. pc'[0] = "kick" <=> pc[0] = "kick"
    BY <2>1 DEF Others, Still, ExecPcs
  <2>4. ASSUME pc[0] = "kick" PROVE out' = out
    <3>1. Aside(t) /\ pc[t] # "start"
      BY <2>4, Quiet DEF CallerPcs
    <3>2. pc[t] \notin {"work", "prep", "chunk"}
      BY <3>1 DEF Aside, Released, CallerPcs, LookPcs
    <3>3. CASE Start(t) \/ Top(t) \/ ClaimChunk(t) \/ Return(t) \/ BarSpin(t) \/ BarEnter(t) \/ BarAdd(t)
               \/ BarReset(t) \/ BarPass(t)
      BY <3>3 DEF Start, Top, ClaimChunk, Return, BarSpin, BarEnter, BarAdd, BarReset, BarPass, LeaveBarrier
    <3> QED
      BY <1>8, <3>2, <3>3 DEF ComputeStep, Work, Prep, Chunk
  <2> QED
    BY <1>c, <2>1, <2>2, <2>3, <2>4
<1> QED
  BY <1>1, <1>2, <1>3, <1>4, <1>5, <1>6, <1>7, <1>8 DEF Next, ComputeStep

(***************************************************************************)
(* The sections.                                                           *)
(***************************************************************************)
(* A thread is at one place of its section.                                *)
Apart ==
    \A u \in Threads : \A k \in 0 .. L : \A m \in k .. L - 1 :
       /\ Near(u, k, m) => ~Past(u, m) /\ ~Prepared(u, m)
       /\ Holds(u, m) => ~Past(u, m)

LEMMA ApartNow == Typed => Apart
<1> SUFFICES ASSUME Typed, NEW u \in Threads, NEW k \in 0 .. L, NEW m \in k .. L - 1
             PROVE  /\ Near(u, k, m) => ~Past(u, m) /\ ~Prepared(u, m)
                    /\ Holds(u, m) => ~Past(u, m)
  BY DEF Apart
<1>1. L \in Nat /\ End(m) \in m + 1 .. L /\ node[u] \in Nat /\ bar[u].passed \in Nat /\ nPassed \in Nat
  BY CurrentGraph, PointTypes
<1>2. Waits(u) => ~Released(u)
  BY <1>1 DEF Waits, Released
<1>3. Waits(u) => ~Aside(u) /\ pc[u] # "start" /\ pc[u] # "top"
  BY <1>2 DEF Waits, Aside, CallerPcs, LookPcs
<1>4. Near(u, k, m) => ~Waits(u) /\ pc[u] # "after"
  BY <1>2, <1>3 DEF Near, Fresh, Aside, Released, CallerPcs, LookPcs
<1>5. Near(u, k, m) => ~Past(u, m)
  <2>1. pc[u] = "top" /\ Near(u, k, m) => node[u] \in k .. m
    BY DEF Near, Fresh, Aside, Released, CallerPcs, LookPcs
  <2> QED
    BY <1>1, <1>4, <2>1 DEF Past
<1>6. Holds(u, m) => ~Past(u, m)
  BY <1>1, <1>2 DEF Holds, Past, Released, Waits
<1> QED
  BY <1>4, <1>5, <1>6 DEF Prepared

LEMMA ApartNext == Typed' => Apart'
  BY ApartNow, PTL

(* While the graph stays, what is said of it stays.                        *)
LEMMA SameGraph ==
    ASSUME cgraph' = cgraph, nGraph' = nGraph
    PROVE  /\ L' = L /\ Crew' = Crew /\ Chunks' = Chunks
           /\ \A m : Op(m)' = Op(m) /\ End(m)' = End(m) /\ Below(m)' = Below(m)
           /\ abort' = abort => \A k, m : Skips(k, m)' <=> Skips(k, m)
  BY DEF L, Crew, Chunks, Op, End, Below, Skips

LEMMA SharingKept ==
    ASSUME Typed, Typed', UNCHANGED <<cgraph, nGraph, abort, out>>,
           NEW k \in 0 .. L, NEW m \in 0 .. L, Sharing(k, m),
           \A u \in Crew : /\ Past(u, m) => Past(u, m)'
                           /\ ~Past(u, m) => Near(u, k, m)' \/ (pc'[u] = "work" /\ node'[u] = m)
    PROVE  Sharing(k, m)'
<1>1. L \in Nat /\ Skips(k, m) /\ m \in k .. L - 1 /\ Crew \subseteq Threads
  BY CurrentGraph DEF Sharing, Skips
<1>2. ASSUME NEW u \in Crew
      PROVE  Shares(u, k, m)' /\ (Past(u, m)' <=> Past(u, m))
  <2>1. pc'[u] = "work" => ~Past(u, m)'
    BY DEF Past, Waits
  <2>2. Near(u, k, m)' => ~Past(u, m)'
    BY <1>1, SameGraph, ApartNext DEF Apart
  <2> QED
    BY <2>1, <2>2 DEF Shares
<1>3. {u \in Crew : Past(u, m)'} = {u \in Crew : Past(u, m)}
  BY <1>2
<1> QED
  BY <1>2, <1>3, SameGraph DEF Sharing

LEMMA PreparingKept ==
    ASSUME Typed, Typed', UNCHANGED <<cgraph, nGraph, abort, out, chunk>>,
           NEW k \in 0 .. L, NEW m \in 0 .. L, Preparing(k, m),
           \A u \in Crew : /\ Prepared(u, m) => Prepared(u, m)' /\ mine'[u] = mine[u]
                           /\ ~Prepared(u, m) => Near(u, k, m)' \/ (pc'[u] = "prep" /\ node'[u] = m)
    PROVE  Preparing(k, m)'
<1>1. L \in Nat /\ Skips(k, m) /\ m \in k .. L - 1 /\ Crew \subseteq Threads
  BY CurrentGraph DEF Preparing, Skips
<1>2. ASSUME NEW u \in Crew
      PROVE  Prepares(u, k, m)' /\ (Prepared(u, m)' <=> Prepared(u, m)) /\ (Prepared(u, m) => mine'[u] = mine[u])
  <2>1. pc'[u] = "prep" => ~Prepared(u, m)'
    BY DEF Prepared, Waits
  <2>2. Near(u, k, m)' => ~Prepared(u, m)'
    BY <1>1, SameGraph, ApartNext DEF Apart
  <2> QED
    BY <2>1, <2>2 DEF Prepares
<1>3. {u \in Crew : Prepared(u, m)'} = {u \in Crew : Prepared(u, m)}
  BY <1>2
<1> QED
  BY <1>2, <1>3, SameGraph DEF Preparing

LEMMA MultiplyingKept ==
    ASSUME Typed, Typed', UNCHANGED <<cgraph, nGraph, out, chunk>>,
           NEW m \in 0 .. L, Multiplying(m),
           \A u \in Crew : /\ Past(u, m) => Past(u, m)'
                           /\ Holds(u, m) => Holds(u, m)' /\ mine'[u] = mine[u]
                           /\ pc[u] = "claim" /\ node[u] = m => pc'[u] = "claim" /\ node'[u] = m
    PROVE  Multiplying(m)'
<1>1. L \in Nat /\ m \in 0 .. L /\ m \in m .. L - 1 /\ Crew \subseteq Threads
  BY CurrentGraph DEF Multiplying
<1>2. ASSUME NEW u \in Crew
      PROVE  /\ Computes(u, m)' /\ (Past(u, m)' <=> Past(u, m))
             /\ Holds(u, m)' <=> Holds(u, m)
             /\ Holds(u, m) => mine'[u] = mine[u]
  <2>1. pc'[u] = "claim" => ~Holds(u, m)' /\ ~Past(u, m)'
    BY DEF Holds, Past, Waits, Released
  <2>2. Holds(u, m)' => ~Past(u, m)'
    BY <1>1, SameGraph, ApartNext DEF Apart
  <2>3. Computes(u, m)
    BY DEF Multiplying
  <2> QED
    BY <2>1, <2>2, <2>3 DEF Computes
<1>3. /\ \A u \in Crew : Holds(u, m)' => mine'[u] < chunk
      /\ \A t, u \in Crew : Holds(t, m)' /\ Holds(u, m)' /\ mine'[t] = mine'[u] => t = u
      /\ \A j : (\A t \in Crew : Holds(t, m)' => mine'[t] # j) <=> (\A t \in Crew : Holds(t, m) => mine[t] # j)
  BY <1>2 DEF Multiplying
<1>4. {j \in 0 .. Chunks - 1 : j < chunk /\ \A t \in Crew : Holds(t, m)' => mine'[t] # j}
        = {j \in 0 .. Chunks - 1 : j < chunk /\ \A t \in Crew : Holds(t, m) => mine[t] # j}
  BY <1>3
<1> QED
  BY <1>2, <1>3, <1>4, SameGraph DEF Multiplying

LEMMA LeavingKept ==
    ASSUME UNCHANGED <<cgraph, nGraph, abort, out>>,
           NEW k, NEW m, Leaving(k, m), \A u \in Crew : Leaves(u, k, m)'
    PROVE  Leaving(k, m)'
  BY SameGraph DEF Leaving

LEMMA RestingKept ==
    ASSUME UNCHANGED <<cgraph, nGraph, abort, out>>,
           NEW m, Resting(m), \A u \in Crew : Finished(u)', pc'[0] \notin CallerPcs => pc[0] \notin CallerPcs
    PROVE  Resting(m)'
  BY SameGraph DEF Resting

(* A step that changes nothing but where a thread stands in its section.   *)
Alike(u) ==
    /\ \A k \in 0 .. L : \A m \in k .. L : Near(u, k, m) => Near(u, k, m)'
    /\ \A m \in 0 .. L :
          /\ Past(u, m) => Past(u, m)'
          /\ \A l \in {"work", "prep", "claim"} : pc[u] = l /\ node[u] = m => pc'[u] = l /\ node'[u] = m
          /\ Prepared(u, m) => Prepared(u, m)' /\ mine'[u] = mine[u]
          /\ Holds(u, m) => Holds(u, m)' /\ mine'[u] = mine[u]
          /\ Waits(u) /\ cont[u] = "ret" /\ node[u] = m => Waits(u)' /\ cont'[u] = "ret" /\ node'[u] = m
    /\ Finished(u) => Finished(u)'

LEMMA SectionKept ==
    ASSUME Typed, Typed', Section, UNCHANGED <<cgraph, nGraph, abort, out, chunk>>,
           \A u \in Crew : Alike(u), pc'[0] \notin CallerPcs => pc[0] \notin CallerPcs
    PROVE  Section'
<1>1. PICK k \in 0 .. L, m \in 0 .. L :
         Sharing(k, m) \/ Preparing(k, m) \/ Multiplying(m) \/ Leaving(k, m) \/ Resting(m)
  BY DEF Section
<1>2. Skips(k, m) => m \in k .. L
  BY DEF Skips
<1>3. CASE Sharing(k, m)
  <2>1. \A u \in Crew : Near(u, k, m) => Near(u, k, m)'
    BY <1>2, <1>3 DEF Sharing, Alike
  <2>2. Sharing(k, m)'
    BY <1>3, <2>1, SharingKept DEF Sharing, Shares, Alike
  <2> QED
    BY <2>2, SameGraph DEF Section
<1>4. CASE Preparing(k, m)
  <2>1. \A u \in Crew : Near(u, k, m) => Near(u, k, m)'
    BY <1>2, <1>4 DEF Preparing, Alike
  <2>2. Preparing(k, m)'
    BY <1>4, <2>1, PreparingKept DEF Preparing, Prepares, Alike
  <2> QED
    BY <2>2, SameGraph DEF Section
<1>5. CASE Multiplying(m)
  <2>1. Multiplying(m)'
    BY <1>5, MultiplyingKept DEF Alike
  <2> QED
    BY <2>1, SameGraph DEF Section
<1>6. CASE Leaving(k, m)
  <2>1. \A u \in Crew : Near(u, k, m) => Near(u, k, m)'
    BY <1>2, <1>6 DEF Leaving, Alike
  <2>2. Leaving(k, m)'
    BY <1>6, <2>1, LeavingKept DEF Leaving, Leaves, Alike
  <2> QED
    BY <2>2, SameGraph DEF Section
<1>7. CASE Resting(m)
  <2>1. Resting(m)'
    BY <1>7, RestingKept DEF Resting, Alike
  <2> QED
    BY <2>1, SameGraph DEF Section
<1> QED
  BY <1>1, <1>3, <1>4, <1>5, <1>6, <1>7

LEMMA StillAlike ==
    ASSUME Typed, NEW u, Still(u), UNCHANGED <<cgraph, nGraph, nPassed>>
    PROVE  /\ Alike(u)
           /\ \A k, m : /\ Near(u, k, m)' <=> Near(u, k, m)
                        /\ Past(u, m)' <=> Past(u, m)
                        /\ Prepared(u, m)' <=> Prepared(u, m)
                        /\ Holds(u, m)' <=> Holds(u, m)
                        /\ Leaves(u, k, m)' <=> Leaves(u, k, m)
           /\ Finished(u)' <=> Finished(u)
<1>1. (Waits(u)' <=> Waits(u)) /\ (Released(u)' <=> Released(u)) /\ (Aside(u)' <=> Aside(u))
  BY DEF Waits, Released, Aside, Still
<1>2. (Fresh(u)' <=> Fresh(u)) /\ (Finished(u)' <=> Finished(u))
  BY <1>1 DEF Fresh, Finished, Still
<1>3. \A k, m : /\ Near(u, k, m)' <=> Near(u, k, m)
                /\ Past(u, m)' <=> Past(u, m)
                /\ Prepared(u, m)' <=> Prepared(u, m)
                /\ Holds(u, m)' <=> Holds(u, m)
  BY <1>1, <1>2, SameGraph DEF Near, Past, Prepared, Holds, Still
<1>4. \A k, m : Leaves(u, k, m)' <=> Leaves(u, k, m)
  BY <1>1, <1>3 DEF Leaves, Still
<1> QED
  BY <1>1, <1>2, <1>3, <1>4 DEF Alike, Still

LEMMA SectionInit == Init => Section
<1> SUFFICES ASSUME Init PROVE Section
  OBVIOUS
<1>1. L = 0 /\ 0 \in 0 .. L
  BY EmptySeq DEF Init, L
<1>2. Crew = {} /\ pc[0] \in CallerPcs
  BY ThreadFacts DEF Init, Crew, CallerPcs
<1>3. Resting(0)
  BY <1>2 DEF Resting
<1> QED
  BY <1>1, <1>3 DEF Section

(* The steps that change nothing but where thread t stands.                *)
LEMMA SilentStep ==
    ASSUME Typed, Typed', Claims, BarOK, Section, NEW t \in Threads,
           \/ Start(t) \/ Return(t) \/ BarAdd(t) \/ BarReset(t) \/ BarSpin(t)
           \/ BarEnter(t) /\ nGraph.n # 1
    PROVE  Section'
<1> USE DEF SameTask, SameCall, SameBar, Keeps
<1>1. /\ Others(t) /\ UNCHANGED <<cgraph, nGraph, abort, out, chunk, nPassed>>
      /\ lastGraph'[t] = lastGraph[t] /\ pending'[t] = pending[t]
  BY StartMoves, ReturnMoves, AddMoves, ResetMoves, SpinMoves, EnterMoves
<1>2. pc'[0] \notin CallerPcs => pc[0] \notin CallerPcs
  <2>1. pc[t] \notin CallerPcs
    BY StartMoves, ReturnMoves, AddMoves, ResetMoves, SpinMoves, EnterMoves DEF CallerPcs
  <2> QED
    BY <1>1, <2>1, ThreadFacts DEF Others, Still
<1>3. L \in Nat /\ nPassed \in Nat /\ bar[t].passed \in Nat /\ cont[t] \in {"top", "chunk", "ret"} /\ node[t] \in Nat
  BY CurrentGraph, PointTypes
<1>a. \A m : End(m)' = End(m) /\ L' = L
  BY <1>1, SameGraph
<1>4. Alike(t)
  <2>1. CASE Start(t)
    <3>1. pc[t] = "start" /\ pc'[t] = "top" /\ node'[t] = 0
      BY <2>1, StartMoves
    <3>2. \A k \in 0 .. L : \A m \in k .. L : Near(t, k, m) => Near(t, k, m)'
      BY <3>1, <1>3 DEF Near, Released
    <3>3. ~Waits(t) /\ ~Released(t) /\ ~Aside(t)
      BY <3>1 DEF Waits, Released, Aside, CallerPcs, LookPcs
    <3> QED
      BY <3>1, <3>2, <3>3 DEF Alike, Past, Prepared, Holds, Finished
  <2>2. CASE Return(t)
    <3>1. pc[t] = "ret" /\ pc'[t] = (IF t = 0 THEN "idle" ELSE "pause")
      BY <2>2, ReturnMoves
    <3>2. Aside(t) /\ Aside(t)' /\ ~Waits(t) /\ ~Released(t)
      BY <3>1 DEF Aside, Waits, Released, CallerPcs, LookPcs
    <3>3. (Fresh(t) => Fresh(t)') /\ (Finished(t) => Finished(t)')
      BY <1>1, <3>1, <3>2 DEF Fresh, Finished
    <3>4. \A k \in 0 .. L : \A m \in k .. L : Near(t, k, m) => Near(t, k, m)'
      BY <3>1, <3>2, <3>3 DEF Near
    <3> QED
      BY <3>1, <3>2, <3>3, <3>4 DEF Alike, Past, Prepared, Holds
  <2>3. CASE BarAdd(t) \/ BarReset(t) \/ (BarEnter(t) /\ nGraph.n # 1)
    <3>1. /\ pc[t] \in {"bar", "add", "reset"} /\ Waits(t) /\ Waits(t)'
          /\ node'[t] = node[t] /\ cont'[t] = cont[t] /\ mine'[t] = mine[t]
      BY <2>3, AddMoves, ResetMoves, EnterMoves DEF BarOK, Waits
    <3>2. ~Aside(t) /\ ~Released(t)
      BY <3>1 DEF Aside, Released, CallerPcs, LookPcs
    <3>3. \A k, m : ~Near(t, k, m)
      BY <3>1, <3>2 DEF Near, Fresh
    <3>4. \A m : /\ Past(t, m) => Past(t, m)'
                 /\ Prepared(t, m) => Prepared(t, m)'
      BY <1>a, <3>1 DEF Past, Prepared
    <3> QED
      BY <3>1, <3>2, <3>3, <3>4 DEF Alike, Holds, Finished
  <2>4. CASE BarSpin(t)
    <3>1. /\ pc[t] = "spin" /\ pc'[t] = cont[t] /\ nPassed # bar[t].passed
          /\ node'[t] = node[t] /\ cont'[t] = cont[t] /\ mine'[t] = mine[t]
      BY <2>4, SpinMoves
    <3>2. Released(t) /\ ~Waits(t)
      BY <1>3, <3>1 DEF BarOK, Released, Waits
    <3>3. Aside(t) => Aside(t)'
      BY <3>1 DEF Aside, CallerPcs, LookPcs
    <3>4. (Fresh(t) => Fresh(t)') /\ (Finished(t) => Finished(t)')
      BY <1>1, <3>1, <3>3 DEF Fresh, Finished
    <3>5. \A k \in 0 .. L : \A m \in k .. L : Near(t, k, m) => Near(t, k, m)'
      BY <1>3, <3>1, <3>4 DEF Near
    <3>6. \A m : Holds(t, m) => Holds(t, m)'
      BY <3>1 DEF Holds
    <3> QED
      BY <3>1, <3>2, <3>4, <3>5, <3>6 DEF Alike, Past, Prepared
  <2> QED
    BY <2>1, <2>2, <2>3, <2>4
<1>5. \A u \in Crew : Alike(u)
  BY <1>1, <1>4, StillAlike DEF Others, Crew
<1> QED
  BY <1>1, <1>2, <1>5, SectionKept

LEMMA LookSection ==
    ASSUME Typed, Typed', Claims, Section, NEW w \in Workers, LookStep(w) \/ SpuriousWake(w)
    PROVE  Section'
<1>1. Others(w) /\ UNCHANGED <<cgraph, nGraph, abort, out, chunk, nPassed, node, mine, bar, cont>>
  BY LookMoves DEF shared
<1>2. pc'[0] = pc[0]
  BY <1>1, ThreadFacts DEF Others, Still
<1>3. pc[w] \in LookPcs /\ w # 0
  BY LookMoves, ThreadFacts
<1>4. ASSUME w \in Crew PROVE Alike(w)
  <2>1. Fresh(w) => Fresh(w)'
    <3>1. pc'[w] = "start" => Fresh(w)'
      BY DEF Fresh
    <3>2. pc'[w] \in LookPcs => Aside(w)'
      BY DEF Aside
    <3>3. Fresh(w) => lastGraph[w] # nGraph \/ pending[w]
      BY <1>3 DEF Fresh, LookPcs
    <3>4. pc'[w] \in LookPcs /\ Fresh(w) => lastGraph'[w] # nGraph \/ pending'[w]
      BY <1>4, <3>3, LookMoves DEF Crew, LookPcs
    <3> QED
      BY <1>1, <1>3, <3>1, <3>2, <3>4, LookMoves DEF Fresh
  <2>2. Finished(w) => Finished(w)'
    <3>1. Finished(w) => lastGraph[w] = nGraph /\ ~pending[w]
      BY <1>3 DEF Finished
    <3>2. Finished(w) => pc'[w] \in LookPcs /\ lastGraph'[w] = nGraph /\ ~pending'[w]
      BY <3>1, LookMoves
    <3> QED
      BY <1>1, <3>2 DEF Finished, Aside
  <2>3. ~Waits(w) /\ ~Released(w) /\ pc[w] \notin {"work", "prep", "claim", "after", "top", "chunk"}
    BY <1>3 DEF Waits, Released, LookPcs
  <2>4. \A k, m : Near(w, k, m) => Near(w, k, m)'
    BY <2>1, <2>3 DEF Near
  <2> QED
    BY <2>2, <2>3, <2>4 DEF Alike, Past, Prepared, Holds
<1>5. \A u \in Crew : Alike(u)
  BY <1>1, <1>4, StillAlike DEF Others, Crew
<1> QED
  BY <1>1, <1>2, <1>5, SectionKept

(* Outside of a computation all threads rest.                              *)
LEMMA RestNext ==
    ASSUME Typed', pc'[0] \in CallerPcs, \A u \in Crew' : Finished(u)'
    PROVE  Section'
<1>1. L' \in Nat
  BY GraphFacts DEF Typed, SharedTyped, L
<1>2. 0 \in 0 .. L' /\ Resting(0)'
  BY <1>1 DEF Resting
<1> QED
  BY <1>2 DEF Section

LEMMA CallerSection ==
    ASSUME Typed, Typed', Claims, Section,
           \/ \E gr \in Graphs, n \in 1 .. N + 1 : Begin(gr, n)
           \/ Pause \/ Resume \/ Free \/ Joined \/ Ended
    PROVE  Section'
<1> USE ThreadFacts
<1>1. pc[0] \in CallerPcs /\ pc'[0] \in CallerPcs
  BY Domains, WokenTyped DEF Begin, Pause, Resume, Free, Joined, Ended, Goto, vars, CallerPcs, Typed
<1>2. \A t \in Crew : Finished(t)
  BY <1>1, Quiet
<1>3. UNCHANGED <<nGraph, nPassed, lastGraph, pending, bar, cont>>
  BY DEF Begin, Pause, Resume, Free, Joined, Ended, vars, shared, local
<1>4. \A w \in Workers : pc'[w] = pc[w] \/ pc'[w] \in LookPcs
  <2>1. CASE Pause \/ Resume \/ Free
    BY <2>1, WakeMoves
  <2>2. CASE ~(Pause \/ Resume \/ Free)
    BY <2>2, Domains DEF Begin, Joined, Ended, Goto, vars
  <2> QED
    BY <2>1, <2>2
<1>5. Crew' = Crew /\ Crew \subseteq Threads
  BY <1>3 DEF Crew
<1>6. ASSUME NEW u \in Crew PROVE Finished(u)'
  <2>1. CASE u = 0
    BY <1>1, <2>1 DEF Finished, Aside
  <2>2. CASE u # 0
    <3>1. Aside(u)'
      BY <1>2, <1>3, <1>4, <1>5, <1>6, <2>2 DEF Finished, Aside, Released
    <3> QED
      BY <1>2, <1>3, <1>6, <2>2, <3>1 DEF Finished
  <2> QED
    BY <2>1, <2>2
<1> QED
  BY <1>1, <1>5, <1>6, RestNext

(***************************************************************************)
(* A new section: every thread of the crew is about to look at node k.     *)
(***************************************************************************)
LEMMA Opening ==
    ASSUME Typed, Typed', UNCHANGED <<cgraph, abort>>,
           NEW k \in 0 .. L, k = 0 \/ Op(k - 1) # "fused",
           \A u \in Crew' : \A m \in k .. L : Near(u, k, m)',
           \A m : Skips(k, m) => out' = Below(m)'
    PROVE  Section'
<1>1. PICK m \in 0 .. L : Skips(k, m) /\ (m = L \/ abort = m \/ (m < L /\ Op(m) # "nop"))
  BY SkipExists
<1>2. L' = L /\ Op(m)' = Op(m) /\ Skips(k, m)' /\ out' = Below(m)'
  BY <1>1 DEF L, Op, Skips
<1>3. L \in Nat /\ m \in k .. L /\ Crew' \subseteq Threads
  BY <1>1, CurrentGraph DEF Skips, Crew
<1>4. \A u \in Crew' : Near(u, k, m)'
  BY <1>3
<1>5. CASE m = L \/ abort = m
  <2>1. Leaving(k, m)'
    BY <1>2, <1>4, <1>5 DEF Leaving, Leaves
  <2> QED
    BY <1>2, <2>1 DEF Section
<1>6. CASE m < L /\ abort # m /\ Op(m) # "nop"
  <2>1. Op(m) \in {"plain", "fused", "mulmat"}
    BY <1>3, <1>6, CurrentGraph DEF Ops
  <2>2. m \in k .. L - 1
    BY <1>3, <1>6
  <2>3. \A u \in Crew' : ~Past(u, m)' /\ ~Prepared(u, m)'
    BY <1>2, <1>3, <1>4, <2>2, ApartNext DEF Apart
  <2>4. CASE Op(m) \in {"plain", "fused"}
    <3>1. out' = Below(m)' \cup {<<m, 1, t>> : t \in {u \in Crew' : Past(u, m)'}}
      BY <1>2, <2>3
    <3>2. Sharing(k, m)'
      BY <1>2, <1>4, <1>6, <2>4, <3>1 DEF Sharing, Shares
    <3> QED
      BY <1>2, <3>2 DEF Section
  <2>5. CASE Op(m) = "mulmat"
    <3>1. out' = Below(m)' \cup {<<m, 0, t>> : t \in {u \in Crew' : Prepared(u, m)'}}
      BY <1>2, <2>3
    <3>2. Preparing(k, m)'
      BY <1>2, <1>4, <1>6, <2>3, <2>5, <3>1 DEF Preparing, Prepares
    <3> QED
      BY <1>2, <3>2 DEF Section
  <2> QED
    BY <2>1, <2>4, <2>5
<1> QED
  BY <1>1, <1>5, <1>6

(* Skipped nodes at the start of the graph have no pieces.                 *)
LEMMA NothingBelow ==
    ASSUME Typed, NEW n, NEW m, Skips(0, m)
    PROVE  {p \in AllPieces(cgraph, n) : p[1] < m} = {}
<1> SUFFICES ASSUME NEW p \in AllPieces(cgraph, n), p[1] < m PROVE FALSE
  OBVIOUS
<1>1. PICK j \in 0 .. L - 1 : p \in Pieces(cgraph, n, j)
  BY DEF AllPieces, Nodes, L
<1>2. p[1] = j /\ j \in Nat /\ m \in 0 .. L
  BY <1>1, PieceNode, CurrentGraph DEF Skips
<1>3. Op(j) = "nop"
  BY <1>1, <1>2, CurrentGraph DEF Skips
<1> QED
  BY <1>1, <1>2, <1>3, NoPieces DEF Op

LEMMA KickSection ==
    ASSUME Typed, Typed', Claims, Section, Called, Kick
    PROVE  Section'
<1>1. pc[0] = "kick" /\ UNCHANGED <<cgraph, abort, out, lastGraph, pending, bar, cont, nPassed>>
  BY DEF Kick, local
<1>2. \A w \in Workers : Aside(w) /\ lastGraph[w].count <= nGraph.count /\ lastGraph[w].count \in Nat
  BY <1>1, Quiet, ThreadFacts, PointTypes DEF CallerPcs, Claims
<1>3. nGraph'.count = nGraph.count + 1 /\ nGraph.count \in Nat
  BY ThreadFacts, PointTypes DEF Kick
<1>4. pc'[0] = "start"
  BY WokenTyped, Domains, ThreadFacts DEF Kick, Typed
<1>5. ASSUME NEW u \in Threads PROVE Fresh(u)'
  <2>1. CASE u = 0
    BY <1>4, <2>1 DEF Fresh
  <2>2. CASE u # 0
    <3>1. u \in Workers
      BY <2>2, ThreadFacts
    <3>2. lastGraph'[u] # nGraph'
      BY <1>1, <1>2, <1>3, <3>1
    <3>3. Aside(u)'
      BY <1>1, <1>2, <3>1, WakeMoves DEF Aside, Released
    <3> QED
      BY <2>2, <3>2, <3>3 DEF Fresh
  <2> QED
    BY <2>1, <2>2
<1>6. \A u \in Crew' : \A m \in 0 .. L : Near(u, 0, m)'
  BY <1>5 DEF Near, Crew
<1>7. out = {}
  BY <1>1 DEF Called
<1>8. \A m : Skips(0, m) => Below(m)' = {}
  BY <1>1, NothingBelow DEF Below
<1>9. 0 \in 0 .. L
  BY CurrentGraph
<1> QED
  BY <1>1, <1>6, <1>7, <1>8, <1>9, Opening

(***************************************************************************)
(* The steps in a section.                                                 *)
(***************************************************************************)
InLoop == {"top", "work", "prep", "chunk", "claim", "after"}

LEMMA AtWork ==
    ASSUME Typed, Claims, Params, Called, NEW t \in Threads, pc[t] \in InLoop
    PROVE  /\ t \in Crew /\ g[t] = cgraph /\ nth[t] = nGraph.n
           /\ ~Aside(t) /\ ~Finished(t) /\ ~Fresh(t) /\ ~Waits(t) /\ ~Released(t)
<1>1. ~Aside(t) /\ pc[t] # "start" /\ ~Waits(t) /\ ~Released(t)
  BY DEF Aside, Waits, Released, CallerPcs, LookPcs, InLoop
<1> QED
  BY <1>1, InCrew DEF Params, Finished, Fresh

(* The others stay where they are.                                         *)
LEMMA OthersKept ==
    ASSUME Typed, NEW t, Others(t), UNCHANGED <<cgraph, nGraph, nPassed>>,
           NEW u \in Crew, u # t
    PROVE  /\ Alike(u) /\ Still(u)
           /\ \A k, m : /\ Near(u, k, m)' <=> Near(u, k, m)
                        /\ Past(u, m)' <=> Past(u, m)
                        /\ Prepared(u, m)' <=> Prepared(u, m)
                        /\ Holds(u, m)' <=> Holds(u, m)
                        /\ Leaves(u, k, m)' <=> Leaves(u, k, m)
           /\ Finished(u)' <=> Finished(u)
<1>1. Still(u)
  BY DEF Others, Crew
<1> QED
  BY <1>1, StillAlike

LEMMA TopSection ==
    ASSUME Typed, Typed', Claims, Params, Called, Section, NEW t \in Threads, Top(t)
    PROVE  Section'
<1> USE DEF SameTask, SameCall, SameBar, Keeps
<1>1. /\ Others(t) /\ UNCHANGED <<cgraph, nGraph, nPassed, abort, out, chunk>> /\ pc[t] = "top"
      /\ mine'[t] = mine[t]
  BY TopMoves
<1>2. t \in Crew /\ g[t] = cgraph /\ ~Finished(t) /\ ~Fresh(t) /\ ~Waits(t) /\ ~Released(t)
  BY <1>1, AtWork DEF InLoop
<1>3. /\ L \in Nat /\ node[t] \in Nat /\ abort \in Int
      /\ \A m \in 0 .. L - 1 : End(m) \in m + 1 .. L
  BY CurrentGraph, PointTypes DEF Typed, SharedTyped
<1>4. \/ /\ node[t] >= L \/ abort = node[t]
         /\ pc'[t] = "bar" /\ cont'[t] = "ret" /\ node'[t] = node[t]
      \/ /\ node[t] < L /\ abort # node[t] /\ Op(node[t]) = "nop"
         /\ pc'[t] = "top" /\ cont'[t] = cont[t] /\ node'[t] = node[t] + 1
      \/ /\ node[t] < L /\ abort # node[t] /\ Op(node[t]) # "nop"
         /\ pc'[t] = (IF Op(node[t]) = "mulmat" THEN "prep" ELSE "work")
         /\ cont'[t] = cont[t] /\ node'[t] = node[t]
  BY <1>2, TopMoves DEF L, Op
<1>5. /\ \A k, m : Near(t, k, m) => node[t] \in k .. m
      /\ \A m : ~Prepared(t, m) /\ ~Holds(t, m)
      /\ \A m : Past(t, m) => node[t] = End(m) /\ End(m) = L
  BY <1>1, <1>2 DEF Near, Prepared, Holds, Past
<1>6. L' = L /\ Crew' = Crew /\ \A m : End(m)' = End(m)
  BY <1>1, SameGraph
<1>7. ASSUME NEW m \in 0 .. L - 1, Past(t, m) PROVE Past(t, m)'
  <2>1. node[t] = L /\ End(m) = L
    BY <1>5, <1>7
  <2>2. pc'[t] = "bar" /\ cont'[t] = "ret" /\ node'[t] = node[t]
    BY <1>3, <1>4, <2>1
  <2> QED
    BY <1>3, <1>6, <2>1, <2>2 DEF Past, Waits
<1>8. ASSUME NEW k \in 0 .. L, NEW m \in 0 .. L, Skips(k, m), Near(t, k, m)
      PROVE  /\ node[t] = m \/ Near(t, k, m)'
             /\ node[t] # m => node[t] < L
  <2>1. node[t] \in k .. m /\ m <= L
    BY <1>5, <1>8
  <2>2. CASE node[t] # m
    <3>1. node[t] \in k .. m - 1 /\ node[t] < L /\ Op(node[t]) = "nop" /\ abort # node[t]
      BY <1>3, <1>8, <2>1, <2>2 DEF Skips
    <3>2. pc'[t] = "top" /\ node'[t] = node[t] + 1 /\ node[t] + 1 \in k .. m
      BY <1>3, <1>4, <3>1
    <3> QED
      BY <3>1, <3>2 DEF Near
  <2> QED
    BY <2>2
<1>9. PICK k \in 0 .. L, m \in 0 .. L :
         Sharing(k, m) \/ Preparing(k, m) \/ Multiplying(m) \/ Leaving(k, m) \/ Resting(m)
  BY DEF Section
<1>10. CASE Sharing(k, m)
  <2>1. Skips(k, m) /\ m \in 0 .. L - 1 /\ abort # m /\ Op(m) \in {"plain", "fused"} /\ Shares(t, k, m)
    BY <1>2, <1>3, <1>10 DEF Sharing
  <2>2. ~Past(t, m) => Near(t, k, m)
    BY <1>1, <2>1 DEF Shares
  <2>3. ~Past(t, m) => Near(t, k, m)' \/ (pc'[t] = "work" /\ node'[t] = m)
    BY <1>3, <1>4, <1>8, <2>1, <2>2
  <2>4. \A u \in Crew : /\ Past(u, m) => Past(u, m)'
                        /\ ~Past(u, m) => Near(u, k, m)' \/ (pc'[u] = "work" /\ node'[u] = m)
    BY <1>1, <1>7, <1>10, <2>1, <2>3, OthersKept DEF Sharing, Shares, Still
  <2> QED
    BY <1>1, <1>6, <1>10, <2>4, SharingKept DEF Section
<1>11. CASE Preparing(k, m)
  <2>1. Skips(k, m) /\ m \in 0 .. L - 1 /\ abort # m /\ Op(m) = "mulmat" /\ Near(t, k, m)
    BY <1>1, <1>2, <1>3, <1>5, <1>11 DEF Preparing, Prepares
  <2>2. Near(t, k, m)' \/ (pc'[t] = "prep" /\ node'[t] = m)
    BY <1>3, <1>4, <1>8, <2>1
  <2>3. \A u \in Crew : /\ Prepared(u, m) => Prepared(u, m)' /\ mine'[u] = mine[u]
                        /\ ~Prepared(u, m) => Near(u, k, m)' \/ (pc'[u] = "prep" /\ node'[u] = m)
    BY <1>1, <1>5, <1>11, <2>2, OthersKept DEF Preparing, Prepares, Still
  <2> QED
    BY <1>1, <1>6, <1>11, <2>3, PreparingKept DEF Section
<1>12. CASE Multiplying(m)
  <2>1. m \in 0 .. L - 1
    BY <1>12 DEF Multiplying
  <2>2. \A u \in Crew : /\ Past(u, m) => Past(u, m)'
                        /\ Holds(u, m) => Holds(u, m)' /\ mine'[u] = mine[u]
                        /\ pc[u] = "claim" /\ node[u] = m => pc'[u] = "claim" /\ node'[u] = m
    <3>1. pc[t] # "claim" /\ ~Holds(t, m) /\ (Past(t, m) => Past(t, m)')
      BY <1>1, <1>5, <1>7, <2>1
    <3>2. ASSUME NEW u \in Crew, u # t
          PROVE  /\ Past(u, m)' <=> Past(u, m)
                 /\ Holds(u, m)' <=> Holds(u, m)
                 /\ mine'[u] = mine[u] /\ pc'[u] = pc[u] /\ node'[u] = node[u]
      BY <1>1, <3>2, OthersKept DEF Still
    <3> QED
      BY <3>1, <3>2
  <2>3. Multiplying(m)'
    BY <1>1, <1>12, <2>2, MultiplyingKept
  <2> QED
    BY <1>6, <2>3 DEF Section
<1>13. CASE Leaving(k, m)
  <2>1. Skips(k, m) /\ (m = L \/ abort = m) /\ Near(t, k, m)
    BY <1>1, <1>2, <1>13 DEF Leaving, Leaves
  <2>2. Leaves(t, k, m)'
    <3>1. CASE node[t] = m
      <4>1. pc'[t] = "bar" /\ cont'[t] = "ret" /\ node'[t] = m
        BY <1>3, <1>4, <2>1, <3>1
      <4> QED
        BY <4>1 DEF Leaves, Waits
    <3>2. CASE node[t] # m
      BY <1>8, <2>1, <3>2 DEF Leaves
    <3> QED
      BY <3>1, <3>2
  <2>3. \A u \in Crew : Leaves(u, k, m)'
    BY <1>1, <1>13, <2>2, OthersKept DEF Leaving
  <2>4. Leaving(k, m)'
    BY <1>1, <1>13, <2>3, LeavingKept
  <2> QED
    BY <1>6, <2>4 DEF Section
<1>14. CASE Resting(m)
  BY <1>2, <1>14 DEF Resting
<1> QED
  BY <1>9, <1>10, <1>11, <1>12, <1>13, <1>14

LEMMA WorkSection ==
    ASSUME Typed, Typed', Claims, Params, Called, Section, NEW t \in Threads, Work(t)
    PROVE  Section'
<1> USE DEF SameTask, SameCall, SameBar, Keeps
<1>1. /\ Others(t) /\ UNCHANGED <<cgraph, nGraph, nPassed, abort, chunk>> /\ pc[t] = "work"
  BY WorkMoves
<1>2. t \in Crew /\ g[t] = cgraph /\ ~Finished(t) /\ ~Fresh(t) /\ ~Waits(t) /\ ~Released(t)
  BY <1>1, AtWork DEF InLoop
<1>3. pc'[t] = "after" /\ node'[t] = node[t] + Fused(cgraph, node[t]) /\ out' = out \cup {<<node[t], 1, t>>}
  BY <1>2, WorkMoves
<1>4. \A k, m : /\ ~Near(t, k, m) /\ ~Past(t, m) /\ ~Prepares(t, k, m) /\ ~Computes(t, m)
                /\ ~Leaves(t, k, m)
  BY <1>1, <1>2 DEF Near, Past, Prepares, Prepared, Computes, Holds, Leaves
<1>5. PICK k \in 0 .. L, m \in 0 .. L : Sharing(k, m)
  BY <1>2, <1>4 DEF Section, Preparing, Multiplying, Leaving, Resting
<1>6. node[t] = m /\ m \in 0 .. L - 1
  BY <1>2, <1>4, <1>5, CurrentGraph DEF Sharing, Shares
<1>7. Past(t, m)'
  <2>1. End(m)' = m + 1 + Fused(cgraph, m) /\ Fused(cgraph, m) \in {0, 1} /\ m \in Int
    BY <1>1, <1>6, CurrentGraph DEF End, Fused
  <2>2. node'[t] = End(m)' - 1
    BY <1>3, <1>6, <2>1
  <2> QED
    BY <1>3, <2>2 DEF Past
<1>8. \A u \in Crew : u # t => (Past(u, m)' <=> Past(u, m)) /\ (Shares(u, k, m)' <=> Shares(u, k, m))
  BY <1>1, OthersKept DEF Shares, Still
<1>9. {u \in Crew : Past(u, m)'} = {u \in Crew : Past(u, m)} \cup {t}
  BY <1>2, <1>7, <1>8
<1>10. out' = Below(m) \cup {<<m, 1, u>> : u \in {v \in Crew : Past(v, m)'}}
  BY <1>3, <1>5, <1>6, <1>9 DEF Sharing
<1>11. \A u \in Crew : Shares(u, k, m)'
  BY <1>5, <1>7, <1>8 DEF Sharing, Shares
<1>12. Sharing(k, m)'
  BY <1>1, <1>5, <1>10, <1>11, SameGraph DEF Sharing
<1> QED
  BY <1>1, <1>12, SameGraph DEF Section

LEMMA PrepSection ==
    ASSUME Typed, Typed', Claims, Params, Called, Section, NEW t \in Threads, Prep(t)
    PROVE  Section'
<1> USE DEF SameTask, SameCall, SameBar, Keeps
<1>1. /\ Others(t) /\ UNCHANGED <<cgraph, nGraph, nPassed, abort>> /\ pc[t] = "prep"
  BY PrepMoves
<1>2. /\ t \in Crew /\ nth[t] = nGraph.n /\ g[t] = cgraph
      /\ ~Finished(t) /\ ~Fresh(t) /\ ~Waits(t) /\ ~Released(t)
  BY <1>1, AtWork DEF InLoop
<1>3. /\ pc'[t] = "bar" /\ cont'[t] = "chunk" /\ node'[t] = node[t] /\ mine'[t] = t
      /\ chunk' = (IF t = 0 THEN nGraph.n ELSE chunk) /\ out' = out \cup {<<node[t], 0, t>>}
  BY <1>2, PrepMoves
<1>4. \A k, m : /\ ~Near(t, k, m) /\ ~Past(t, m) /\ ~Shares(t, k, m) /\ ~Computes(t, m)
                /\ ~Leaves(t, k, m) /\ ~Prepared(t, m)
  BY <1>1, <1>2 DEF Near, Past, Prepared, Shares, Computes, Holds, Leaves
<1>5. PICK k \in 0 .. L, m \in 0 .. L : Preparing(k, m)
  BY <1>2, <1>4 DEF Section, Sharing, Multiplying, Leaving, Resting
<1>6. node[t] = m
  BY <1>2, <1>4, <1>5 DEF Preparing, Prepares
<1>7. Prepared(t, m)'
  BY <1>3, <1>6 DEF Prepared, Waits
<1>8. \A u \in Crew : u # t => /\ Prepared(u, m)' <=> Prepared(u, m)
                               /\ Prepares(u, k, m)' <=> Prepares(u, k, m)
                               /\ mine'[u] = mine[u]
  BY <1>1, OthersKept DEF Prepares, Still
<1>9. {u \in Crew : Prepared(u, m)'} = {u \in Crew : Prepared(u, m)} \cup {t}
  BY <1>2, <1>7, <1>8
<1>10. out' = Below(m) \cup {<<m, 0, u>> : u \in {v \in Crew : Prepared(v, m)'}}
  BY <1>3, <1>5, <1>6, <1>9 DEF Preparing
<1>11. \A u \in Crew : Prepares(u, k, m)'
  BY <1>5, <1>7, <1>8 DEF Preparing, Prepares
<1>12. \A u \in Crew : Prepared(u, m)' => mine'[u] = u /\ (u = 0 => chunk' = nGraph.n)
  BY <1>3, <1>5, <1>8 DEF Preparing
<1>13. Preparing(k, m)'
  BY <1>1, <1>5, <1>10, <1>11, <1>12, SameGraph DEF Preparing
<1> QED
  BY <1>1, <1>13, SameGraph DEF Section

(* Chunk j of the product is written or about to be: nobody holds it.      *)
Done(m, j) == j < chunk /\ \A t \in Crew : Holds(t, m) => mine[t] # j

LEMMA ChunkSection ==
    ASSUME Typed, Typed', Claims, Params, Called, Section, NEW t \in Threads, Chunk(t)
    PROVE  Section'
<1> USE DEF SameTask, SameCall, SameBar, Keeps
<1>1. /\ Others(t) /\ UNCHANGED <<cgraph, nGraph, nPassed, abort, chunk>> /\ pc[t] = "chunk"
      /\ node'[t] = node[t]
  BY ChunkMoves
<1>2. /\ t \in Crew /\ nth[t] = nGraph.n /\ g[t] = cgraph
      /\ ~Finished(t) /\ ~Fresh(t) /\ ~Waits(t) /\ ~Released(t)
  BY <1>1, AtWork DEF InLoop
<1>3. IF mine[t] < Chunks
      THEN /\ out' = out \cup {<<node[t], 1, mine[t]>>}
           /\ pc'[t] = (IF nGraph.n >= Chunks THEN "after" ELSE "claim")
      ELSE out' = out /\ pc'[t] = "after"
  BY <1>2, ChunkMoves DEF Chunks
<1>4. \A k, m : /\ ~Near(t, k, m) /\ ~Past(t, m) /\ ~Shares(t, k, m) /\ ~Prepares(t, k, m)
                /\ ~Leaves(t, k, m)
  BY <1>1, <1>2 DEF Near, Past, Prepared, Shares, Prepares, Leaves
<1>5. PICK m \in 0 .. L : Multiplying(m)
  BY <1>2, <1>4 DEF Section, Sharing, Preparing, Leaving, Resting
<1>6. Holds(t, m) /\ node[t] = m /\ m \in 0 .. L - 1 /\ Op(m) = "mulmat"
  BY <1>1, <1>2, <1>4, <1>5 DEF Multiplying, Computes, Holds
<1>7. /\ mine[t] < chunk /\ mine[t] \in Nat /\ chunk \in Nat /\ nGraph.n \in Nat /\ Chunks \in Nat
      /\ chunk >= nGraph.n
      /\ \A u \in Crew : Holds(u, m) /\ mine[u] = mine[t] => u = t
  <2>1. nGraph.n \in Nat
    BY CurrentGraph, PoolAssumption
  <2>2. Chunks \in Nat
    BY <2>1, PoolAssumption DEF Chunks, NumChunks
  <2> QED
    BY <1>2, <1>5, <1>6, <2>1, <2>2, PointTypes DEF Multiplying
<1>8. ~Holds(t, m)'
  BY <1>3 DEF Holds, Released
<1>9. Computes(t, m)' /\ (Past(t, m)' => chunk >= Chunks)
  <2>1. CASE pc'[t] = "after"
    <3>1. End(m)' = m + 1 /\ m \in Nat
      BY <1>1, <1>6, SameGraph, CurrentGraph
    <3>2. Past(t, m)'
      BY <1>1, <1>6, <2>1, <3>1 DEF Past
    <3>3. chunk >= Chunks
      BY <1>3, <1>7, <2>1
    <3> QED
      BY <3>2, <3>3 DEF Computes
  <2>2. CASE pc'[t] = "claim"
    BY <1>1, <1>6, <2>2 DEF Computes, Past, Waits
  <2> QED
    BY <1>3, <2>1, <2>2
<1>10. ASSUME NEW u \in Crew, u # t
       PROVE  /\ Past(u, m)' <=> Past(u, m)
              /\ Holds(u, m)' <=> Holds(u, m)
              /\ Computes(u, m)' <=> Computes(u, m)
              /\ mine'[u] = mine[u]
  BY <1>1, <1>10, OthersKept DEF Computes, Still
<1>11. \A u \in Crew : Computes(u, m)' /\ (Past(u, m)' => chunk' >= Chunks)
  BY <1>1, <1>5, <1>9, <1>10 DEF Multiplying
<1>12. /\ \A u \in Crew : Holds(u, m)' => mine'[u] < chunk'
       /\ \A v, u \in Crew : Holds(v, m)' /\ Holds(u, m)' /\ mine'[v] = mine'[u] => v = u
  BY <1>1, <1>5, <1>8, <1>10 DEF Multiplying
<1>13. \A j \in 0 .. Chunks - 1 : Done(m, j)' <=> Done(m, j) \/ j = mine[t]
  <2> TAKE j \in 0 .. Chunks - 1
  <2>1. Crew' = Crew /\ chunk' = chunk
    BY <1>1, SameGraph
  <2>2. Done(m, j) => Done(m, j)'
    BY <1>8, <1>10, <2>1 DEF Done
  <2>3. j = mine[t] => Done(m, j)'
    BY <1>7, <1>8, <1>10, <2>1 DEF Done
  <2>4. Done(m, j)' /\ j # mine[t] => Done(m, j)
    BY <1>10, <2>1 DEF Done
  <2> QED
    BY <2>2, <2>3, <2>4
<1>14. out' = Below(m) \cup {<<m, 0, u>> : u \in Crew} \cup {<<m, 1, i>> : i \in {j \in 0 .. Chunks - 1 : Done(m, j)'}}
  <2>1. out = Below(m) \cup {<<m, 0, u>> : u \in Crew} \cup {<<m, 1, i>> : i \in {j \in 0 .. Chunks - 1 : Done(m, j)}}
    BY <1>5 DEF Multiplying, Done
  <2>2. CASE mine[t] < Chunks
    <3>1. mine[t] \in 0 .. Chunks - 1
      BY <1>7, <2>2
    <3>2. {j \in 0 .. Chunks - 1 : Done(m, j)'} = {j \in 0 .. Chunks - 1 : Done(m, j)} \cup {mine[t]}
      BY <1>13, <3>1
    <3> QED
      BY <1>3, <1>6, <2>1, <2>2, <3>2
  <2>3. CASE ~(mine[t] < Chunks)
    <3>1. mine[t] \notin 0 .. Chunks - 1
      BY <1>7, <2>3
    <3>2. {j \in 0 .. Chunks - 1 : Done(m, j)'} = {j \in 0 .. Chunks - 1 : Done(m, j)}
      BY <1>13, <3>1
    <3> QED
      BY <1>3, <2>1, <2>3, <3>2
  <2> QED
    BY <2>2, <2>3
<1>15. Multiplying(m)'
  <2>1. /\ out' = Below(m) \cup {<<m, 0, u>> : u \in Crew}
                  \cup {<<m, 1, i>> : i \in {j \in 0 .. Chunks - 1 :
                         j < chunk' /\ \A u \in Crew : Holds(u, m)' => mine'[u] # j}}
    BY <1>1, <1>14, SameGraph DEF Done
  <2> QED
    BY <1>1, <1>5, <1>11, <1>12, <2>1, SameGraph DEF Multiplying
<1> QED
  BY <1>1, <1>15, SameGraph DEF Section

LEMMA ClaimSection ==
    ASSUME Typed, Typed', Claims, Params, Called, Section, NEW t \in Threads, ClaimChunk(t)
    PROVE  Section'
<1> USE DEF SameTask, SameCall, SameBar, Keeps
<1>1. /\ Others(t) /\ UNCHANGED <<cgraph, nGraph, nPassed, abort, out>> /\ pc[t] = "claim"
      /\ node'[t] = node[t] /\ pc'[t] = "chunk" /\ mine'[t] = chunk /\ chunk' = chunk + 1
  BY ClaimMoves
<1>2. t \in Crew /\ ~Finished(t) /\ ~Fresh(t) /\ ~Waits(t) /\ ~Released(t)
  BY <1>1, AtWork DEF InLoop
<1>3. \A k, m : /\ ~Near(t, k, m) /\ ~Past(t, m) /\ ~Shares(t, k, m) /\ ~Prepares(t, k, m)
                /\ ~Leaves(t, k, m) /\ ~Holds(t, m)
  BY <1>1, <1>2 DEF Near, Past, Prepared, Shares, Prepares, Leaves, Holds
<1>4. PICK m \in 0 .. L : Multiplying(m)
  BY <1>2, <1>3 DEF Section, Sharing, Preparing, Leaving, Resting
<1>5. node[t] = m
  BY <1>2, <1>3, <1>4 DEF Multiplying, Computes
<1>6. chunk \in Nat /\ nGraph.n \in Nat /\ Chunks \in Nat /\ \A u \in Crew : mine[u] \in Nat
  <2>1. nGraph.n \in Nat
    BY CurrentGraph, PoolAssumption
  <2>2. Chunks \in Nat
    BY <2>1, PoolAssumption DEF Chunks, NumChunks
  <2> QED
    BY <1>2, <2>1, <2>2, PointTypes DEF Crew
<1>7. Holds(t, m)' /\ ~Past(t, m)'
  BY <1>1, <1>5 DEF Holds, Past, Waits
<1>8. ASSUME NEW u \in Crew, u # t
      PROVE  /\ Past(u, m)' <=> Past(u, m)
             /\ Holds(u, m)' <=> Holds(u, m)
             /\ Computes(u, m)' <=> Computes(u, m)
             /\ mine'[u] = mine[u]
  BY <1>1, <1>8, OthersKept DEF Computes, Still
<1>9. \A u \in Crew : Computes(u, m)' /\ (Past(u, m)' => chunk' >= Chunks)
  BY <1>1, <1>4, <1>6, <1>7, <1>8 DEF Multiplying, Computes
<1>10. \A u \in Crew : Holds(u, m) => mine[u] < chunk
  BY <1>4 DEF Multiplying
<1>11. \A u \in Crew : Holds(u, m)' => mine'[u] < chunk'
  BY <1>1, <1>6, <1>8, <1>10
<1>12. \A v, u \in Crew : Holds(v, m)' /\ Holds(u, m)' /\ mine'[v] = mine'[u] => v = u
  <2> SUFFICES ASSUME NEW v \in Crew, NEW u \in Crew, Holds(v, m)', Holds(u, m)', mine'[v] = mine'[u]
               PROVE  v = u
    OBVIOUS
  <2>1. CASE v # t /\ u # t
    BY <1>4, <1>8, <2>1 DEF Multiplying
  <2>2. CASE v = t /\ u # t
    BY <1>1, <1>6, <1>8, <1>10, <2>2
  <2>3. CASE v # t /\ u = t
    BY <1>1, <1>6, <1>8, <1>10, <2>3
  <2> QED
    BY <2>1, <2>2, <2>3
<1>13. \A j \in 0 .. Chunks - 1 : Done(m, j)' <=> Done(m, j)
  <2> TAKE j \in 0 .. Chunks - 1
  <2>1. Crew' = Crew
    BY <1>1, SameGraph
  <2>2. Done(m, j) => Done(m, j)'
    BY <1>1, <1>6, <1>8, <2>1 DEF Done
  <2>3. Done(m, j)' => j # chunk /\ j < chunk + 1
    BY <1>1, <1>2, <1>7, <2>1 DEF Done
  <2>4. Done(m, j)' => Done(m, j)
    BY <1>3, <1>6, <1>8, <2>1, <2>3 DEF Done
  <2> QED
    BY <2>2, <2>4
<1>14. {j \in 0 .. Chunks - 1 : Done(m, j)'} = {j \in 0 .. Chunks - 1 : Done(m, j)}
  BY <1>13
<1>15. Multiplying(m)'
  <2>1. /\ out' = Below(m) \cup {<<m, 0, u>> : u \in Crew}
                  \cup {<<m, 1, i>> : i \in {j \in 0 .. Chunks - 1 :
                         j < chunk' /\ \A u \in Crew : Holds(u, m)' => mine'[u] # j}}
    BY <1>1, <1>4, <1>14, SameGraph DEF Done, Multiplying
  <2>2. chunk' >= nGraph.n
    BY <1>1, <1>4, <1>6 DEF Multiplying
  <2> QED
    BY <1>1, <1>4, <1>9, <1>11, <1>12, <2>1, <2>2, SameGraph DEF Multiplying
<1> QED
  BY <1>1, <1>15, SameGraph DEF Section

LEMMA AfterSection ==
    ASSUME Typed, Typed', Claims, Params, Called, Section, NEW t \in Threads, After(t)
    PROVE  Section'
<1> USE DEF SameCall, SameBar, Keeps
<1>1. /\ Others(t) /\ UNCHANGED <<cgraph, nGraph, nPassed, chunk, out>> /\ pc[t] = "after"
      /\ node'[t] = node[t] + 1 /\ abort' \in {abort, node[t] + 1}
  BY AfterMoves
<1>2. t \in Crew /\ g[t] = cgraph /\ ~Finished(t) /\ ~Fresh(t) /\ ~Waits(t) /\ ~Released(t)
  BY <1>1, AtWork DEF InLoop
<1>3. IF node[t] + 1 < L THEN pc'[t] = "bar" /\ cont'[t] = "top"
                         ELSE pc'[t] = "top" /\ cont'[t] = cont[t]
  BY <1>2, AfterMoves DEF L
<1>4. \A k, m : ~Near(t, k, m) /\ ~Prepares(t, k, m) /\ ~Leaves(t, k, m) /\ ~Holds(t, m)
  BY <1>1, <1>2 DEF Near, Past, Prepared, Prepares, Leaves, Holds
<1>5. PICK k \in 0 .. L, m \in 0 .. L : Sharing(k, m) \/ Multiplying(m)
  BY <1>2, <1>4 DEF Section, Preparing, Leaving, Resting
<1>6. Past(t, m) /\ m \in 0 .. L - 1
  BY <1>1, <1>2, <1>4, <1>5, CurrentGraph DEF Sharing, Shares, Multiplying, Computes
<1>7. node[t] + 1 = End(m) /\ End(m) \in m + 1 .. L /\ L \in Nat
  BY <1>1, <1>2, <1>6, CurrentGraph, PointTypes DEF Past
<1>8. /\ L' = L /\ Crew' = Crew /\ Chunks' = Chunks /\ \A i : End(i)' = End(i) /\ Op(i)' = Op(i)
      /\ Below(m)' = Below(m)
  BY <1>1, SameGraph
<1>9. Past(t, m)'
  BY <1>1, <1>3, <1>7, <1>8 DEF Past, Waits
<1>10. ASSUME NEW u \in Crew, u # t
       PROVE  /\ Past(u, m)' <=> Past(u, m)
              /\ Holds(u, m)' <=> Holds(u, m)
              /\ Shares(u, k, m)' <=> Shares(u, k, m)
              /\ Computes(u, m)' <=> Computes(u, m)
              /\ mine'[u] = mine[u]
  BY <1>1, <1>10, OthersKept DEF Shares, Computes, Still
<1>11. CASE Sharing(k, m)
  <2>1. Skips(k, m)' /\ abort' # m
    <3>1. \A i \in k .. m - 1 : i # End(m)
      BY <1>7
    <3> QED
      BY <1>1, <1>7, <1>8, <1>11, <3>1 DEF Sharing, Skips
  <2>2. {u \in Crew : Past(u, m)'} = {u \in Crew : Past(u, m)}
    BY <1>6, <1>9, <1>10
  <2>3. \A u \in Crew : Shares(u, k, m)'
    BY <1>9, <1>10, <1>11 DEF Sharing, Shares
  <2>4. Sharing(k, m)'
    BY <1>1, <1>8, <1>11, <2>1, <2>2, <2>3 DEF Sharing
  <2> QED
    BY <1>8, <2>4 DEF Section
<1>12. CASE Multiplying(m)
  <2>1. ~Holds(t, m)'
    BY <1>2, <1>3, <1>1 DEF Holds, Released
  <2>2. \A u \in Crew : /\ Past(u, m) => Past(u, m)'
                        /\ Holds(u, m) => Holds(u, m)' /\ mine'[u] = mine[u]
                        /\ pc[u] = "claim" /\ node[u] = m => pc'[u] = "claim" /\ node'[u] = m
    BY <1>1, <1>4, <1>9, <1>10 DEF Others, Still, Crew
  <2>3. Multiplying(m)'
    BY <1>1, <1>12, <2>2, MultiplyingKept
  <2> QED
    BY <1>8, <2>3 DEF Section
<1> QED
  BY <1>5, <1>11, <1>12

(***************************************************************************)
(* The barrier opens: a section ends when the whole crew waits.            *)
(***************************************************************************)
Gone(u) == /\ pc'[u] = cont[u] \/ Released(u)'
           /\ cont'[u] = cont[u] /\ node'[u] = node[u] /\ mine'[u] = mine[u]
           /\ lastGraph'[u] = lastGraph[u] /\ pending'[u] = pending[u]

Opens == /\ UNCHANGED <<cgraph, nGraph, abort, out, chunk>>
         /\ 0 \in Crew
         /\ \A u \in Crew : Waits(u) /\ Gone(u)

LEMMA WaitsOnly ==
    ASSUME Typed, NEW u \in Threads, Waits(u)
    PROVE  /\ ~Released(u) /\ ~Aside(u) /\ ~Finished(u) /\ pc[u] \notin InLoop /\ pc[u] # "start"
           /\ \A k, m : ~Near(u, k, m) /\ ~Holds(u, m)
           /\ pc[0] \in CallerPcs => u # 0
<1>1. ~Released(u)
  BY PointTypes DEF Waits, Released
<1>2. ~Aside(u) /\ pc[u] \notin InLoop /\ pc[u] # "start"
  BY <1>1 DEF Aside, Waits, CallerPcs, LookPcs, InLoop
<1> QED
  BY <1>1, <1>2 DEF Near, Holds, Fresh, Finished, Aside, InLoop

(* The crew goes to the node after node m, or leaves the graph.            *)
LEMMA NextNode ==
    ASSUME Typed, Typed', Claims, Opens, NEW m \in 0 .. L - 1,
           \A u \in Crew : Past(u, m), out = Below(End(m))
    PROVE  Section'
<1>1. /\ L \in Nat /\ End(m) \in m + 1 .. L /\ Crew \subseteq Threads
      /\ IF Op(m) = "fused" THEN End(m) = m + 2 /\ Op(m + 1) = "plain" ELSE End(m) = m + 1
  BY CurrentGraph
<1>2. /\ UNCHANGED <<cgraph, nGraph, abort, out>> /\ 0 \in Crew
      /\ L' = L /\ Crew' = Crew /\ \A i : Below(i)' = Below(i)
  BY SameGraph DEF Opens
<1>3. ASSUME NEW u \in Crew
      PROVE  /\ node[u] = End(m) /\ cont[u] = (IF End(m) < L THEN "top" ELSE "ret")
             /\ pc'[u] = cont[u] \/ Released(u)'
             /\ node'[u] = node[u] /\ cont'[u] = cont[u]
             /\ u # 0 => lastGraph'[u] = nGraph' /\ ~pending'[u]
  <2>1. Waits(u) /\ Gone(u) /\ u \in Threads
    BY <1>1 DEF Opens
  <2>2. ~Aside(u) /\ pc[u] \notin InLoop
    BY <2>1, WaitsOnly
  <2>3. node[u] = End(m) /\ cont[u] = (IF End(m) < L THEN "top" ELSE "ret")
    BY <2>2 DEF Past, InLoop
  <2>4. u # 0 => lastGraph[u] = nGraph /\ ~pending[u]
    BY <2>1, <2>2, ThreadFacts DEF Claims, Waits
  <2> QED
    BY <1>2, <2>1, <2>3, <2>4 DEF Gone
<1>4. CASE End(m) < L
  <2>1. PICK e \in 0 .. L : e = End(m)
    BY <1>1
  <2>2. \A u \in Crew' : \A i \in e .. L : Near(u, e, i)'
    BY <1>1, <1>2, <1>3, <1>4, <2>1 DEF Near
  <2>3. \A i : Skips(e, i) => out' = Below(i)'
    BY <1>2, <2>1, BelowSkips
  <2>4. Op(e - 1) # "fused"
    <3>1. CASE Op(m) = "fused"
      <4>1. e - 1 = m + 1
        BY <1>1, <2>1, <3>1
      <4> QED
        BY <1>1, <3>1, <4>1
    <3>2. CASE Op(m) # "fused"
      <4>1. e - 1 = m
        BY <1>1, <2>1, <3>2
      <4> QED
        BY <3>2, <4>1
    <3> QED
      BY <3>1, <3>2
  <2> QED
    BY <1>2, <2>2, <2>3, <2>4, Opening
<1>5. CASE ~(End(m) < L)
  <2>1. End(m) = L
    BY <1>1, <1>5
  <2>2. \A u \in Crew' : Finished(u)'
    <3> TAKE u \in Crew'
    <3>1. Aside(u)'
      BY <1>2, <1>3, <1>5 DEF Aside
    <3> QED
      BY <1>2, <1>3, <3>1 DEF Finished
  <2>3. Resting(L)'
    BY <1>1, <1>2, <2>1, <2>2 DEF Resting
  <2> QED
    BY <1>1, <1>2, <2>3 DEF Section
<1> QED
  BY <1>4, <1>5

LEMMA NextSection ==
    ASSUME Typed, Typed', Claims, Section, Opens
    PROVE  Section'
<1>1. /\ UNCHANGED <<cgraph, nGraph, abort, out, chunk>> /\ 0 \in Crew
      /\ L' = L /\ Crew' = Crew /\ Chunks' = Chunks /\ \A i : Below(i)' = Below(i) /\ Op(i)' = Op(i)
  BY SameGraph DEF Opens
<1>2. ASSUME NEW u \in Crew
      PROVE  /\ Waits(u) /\ Gone(u) /\ u \in Threads /\ ~Finished(u) /\ pc[u] \notin InLoop
             /\ \A k, m : ~Near(u, k, m) /\ ~Holds(u, m)
  BY WaitsOnly DEF Opens, Crew
<1>3. pc[0] \notin CallerPcs
  BY <1>1, <1>2, WaitsOnly
<1>4. /\ L \in Nat /\ nGraph.n \in Nat /\ Crew = 0 .. nGraph.n - 1
  BY CurrentGraph, PoolAssumption DEF Crew, Threads
<1>5. PICK k \in 0 .. L, m \in 0 .. L :
         Sharing(k, m) \/ Preparing(k, m) \/ Multiplying(m) \/ Leaving(k, m) \/ Resting(m)
  BY DEF Section
<1>6. ASSUME Skips(k, m) PROVE m = 0 \/ Op(m - 1) # "fused"
  <2>1. m \in k .. L /\ k \in Nat /\ (k = 0 \/ Op(k - 1) # "fused") /\ \A i \in k .. m - 1 : Op(i) = "nop"
    BY <1>4, <1>6 DEF Skips
  <2>2. CASE m = k
    BY <2>1, <2>2
  <2>3. CASE m # k
    <3>1. m - 1 \in k .. m - 1
      BY <1>4, <2>1, <2>3
    <3> QED
      BY <2>1, <3>1
  <2> QED
    BY <2>2, <2>3
<1>7. CASE Sharing(k, m)
  <2>1. m \in 0 .. L - 1 /\ Op(m) \in {"plain", "fused"} /\ Skips(k, m)
    BY <1>4, <1>7 DEF Sharing
  <2>2. \A u \in Crew : Past(u, m)
    BY <1>2, <1>7 DEF Sharing, Shares, InLoop
  <2>3. {u \in Crew : Past(u, m)} = Crew
    BY <2>2
  <2>4. Pieces(cgraph, nGraph.n, m) = {<<m, 1, t>> : t \in 0 .. nGraph.n - 1}
    <3>1. /\ m \in Nat /\ OpAt(cgraph, m) # "nop" /\ OpAt(cgraph, m) # "mulmat"
          /\ m = 0 \/ OpAt(cgraph, m - 1) # "fused"
      BY <1>4, <1>6, <2>1 DEF Op
    <3>2. Pieces(cgraph, nGraph.n, m) =
             IF OpAt(cgraph, m) = "mulmat"
             THEN {<<m, 0, i>> : i \in 0 .. nGraph.n - 1} \cup {<<m, 1, i>> : i \in 0 .. NumChunks(nGraph.n) - 1}
             ELSE {<<m, 1, i>> : i \in 0 .. nGraph.n - 1}
      <4>1. nGraph.n \in Nat
        BY <1>4
      <4> QED
        BY <3>1, <4>1, PiecesOf, ZenonT(40)
    <3> QED
      BY <3>1, <3>2
  <2>5. out = Below(End(m))
    BY <1>4, <1>7, <2>1, <2>3, <2>4, BelowEnd DEF Sharing
  <2> QED
    BY <2>1, <2>2, <2>5, NextNode
<1>8. CASE Preparing(k, m)
  <2>1. m \in 0 .. L - 1 /\ Op(m) = "mulmat" /\ (m = 0 \/ Op(m - 1) # "fused")
    BY <1>4, <1>6, <1>8 DEF Preparing
  <2>2. \A u \in Crew : Prepared(u, m) /\ mine[u] = u
    BY <1>2, <1>8 DEF Preparing, Prepares, InLoop
  <2>3. chunk = nGraph.n
    BY <1>1, <1>8, <2>2 DEF Preparing
  <2>4. \A u \in Crew : Holds(u, m)' /\ mine'[u] = u
    BY <1>2, <2>2 DEF Gone, Holds, Prepared
  <2>5. \A u \in Crew : ~Past(u, m)'
    BY <1>1, <1>4, <2>1, <2>4, ApartNext DEF Apart, Crew
  <2>6. {j \in 0 .. Chunks - 1 : j < chunk' /\ \A t \in Crew' : Holds(t, m)' => mine'[t] # j} = {}
    <3> SUFFICES ASSUME NEW j \in 0 .. Chunks - 1, j < chunk', \A t \in Crew' : Holds(t, m)' => mine'[t] # j
                 PROVE  FALSE
      OBVIOUS
    <3>1. j \in Crew
      BY <1>1, <1>4, <2>3
    <3> QED
      BY <1>1, <2>4, <3>1
  <2>7. out = Below(m) \cup {<<m, 0, t>> : t \in Crew}
    <3>1. {u \in Crew : Prepared(u, m)} = Crew
      BY <2>2
    <3> QED
      BY <1>8, <3>1 DEF Preparing
  <2>8. \A u \in Crew : u < chunk
    BY <1>4, <2>3
  <2>9. Multiplying(m)'
    BY <1>1, <1>4, <2>1, <2>3, <2>4, <2>5, <2>6, <2>7, <2>8 DEF Multiplying, Computes
  <2> QED
    BY <1>1, <2>9 DEF Section
<1>9. CASE Multiplying(m)
  <2>1. m \in 0 .. L - 1 /\ Op(m) = "mulmat" /\ (m = 0 \/ Op(m - 1) # "fused")
    BY <1>9 DEF Multiplying
  <2>2. \A u \in Crew : Past(u, m)
    BY <1>2, <1>9 DEF Multiplying, Computes, InLoop
  <2>3. chunk >= Chunks /\ chunk \in Nat /\ Chunks \in Nat
    <3>1. Chunks \in Nat
      BY <1>4, PoolAssumption DEF Chunks, NumChunks
    <3> QED
      BY <1>1, <1>9, <2>2, <3>1, ThreadFacts, PointTypes DEF Multiplying
  <2>4. {j \in 0 .. Chunks - 1 : j < chunk /\ \A t \in Crew : Holds(t, m) => mine[t] # j} = 0 .. Chunks - 1
    BY <1>2, <2>3
  <2>5. out = Below(m) \cup {<<m, 0, t>> : t \in 0 .. nGraph.n - 1} \cup {<<m, 1, i>> : i \in 0 .. Chunks - 1}
    BY <1>4, <1>9, <2>4 DEF Multiplying
  <2>6. Pieces(cgraph, nGraph.n, m) = {<<m, 0, t>> : t \in 0 .. nGraph.n - 1} \cup {<<m, 1, i>> : i \in 0 .. Chunks - 1}
    <3>1. /\ m \in Nat /\ OpAt(cgraph, m) = "mulmat" /\ (m = 0 \/ OpAt(cgraph, m - 1) # "fused")
      BY <1>4, <2>1 DEF Op
    <3> QED
      BY <1>4, <3>1, PiecesOf DEF Chunks
  <2>7. out = Below(End(m))
    BY <2>1, <2>5, <2>6, BelowEnd
  <2> QED
    BY <2>1, <2>2, <2>7, NextNode
<1>10. CASE Leaving(k, m)
  <2>1. \A u \in Crew : cont[u] = "ret" /\ node[u] = m
    BY <1>2, <1>10 DEF Leaving, Leaves
  <2>2. ASSUME NEW u \in Crew PROVE Finished(u)'
    <3>1. Aside(u)'
      BY <1>2, <2>1 DEF Gone, Aside
    <3>2. u # 0 => lastGraph[u] = nGraph /\ ~pending[u]
      BY <1>2, WaitsOnly, ThreadFacts DEF Claims, Waits
    <3> QED
      BY <1>1, <1>2, <3>1, <3>2 DEF Finished, Gone
  <2>3. m = L \/ abort = m
    BY <1>10 DEF Leaving
  <2>4. Resting(m)'
    BY <1>1, <1>10, <2>2, <2>3 DEF Resting, Leaving
  <2> QED
    BY <1>1, <2>4 DEF Section
<1>11. CASE Resting(m)
  BY <1>1, <1>2, <1>11 DEF Resting
<1> QED
  BY <1>5, <1>7, <1>8, <1>9, <1>10, <1>11

LEMMA BarrierSection ==
    ASSUME Typed, Typed', Claims, Params, BarOK, Called, Section, NEW t \in Threads,
           BarPass(t) \/ (BarEnter(t) /\ nGraph.n = 1)
    PROVE  Section'
<1> USE DEF SameTask, SameCall, SameBar, Keeps
<1>1. /\ Others(t) /\ UNCHANGED <<cgraph, nGraph, abort, out, chunk>>
      /\ pc[t] \in {"pass", "bar"} /\ pc'[t] = cont[t] /\ cont'[t] = cont[t] /\ node'[t] = node[t]
      /\ mine'[t] = mine[t] /\ lastGraph'[t] = lastGraph[t] /\ pending'[t] = pending[t]
  BY PassMoves, EnterMoves
<1>2. t \in Crew /\ 0 \in Crew
  <2>1. ~Aside(t)
    BY <1>1 DEF Aside, Released, CallerPcs, LookPcs
  <2> QED
    BY <2>1, InCrew, CurrentGraph, FS_EmptySet
<1>3. Gone(t) /\ Waits(t)
  BY <1>1 DEF Gone, Waits
<1>4. ASSUME NEW u \in Crew, u # t PROVE Waits(u) /\ Gone(u)
  <2>1. CASE BarPass(t)
    <3>1. Arrived = Crew /\ ~Opener(u) /\ nPassed' = nPassed + 1 /\ nPassed \in Nat
      <4>1. pc[t] = "pass" /\ nPassed' = nPassed + 1
        BY <2>1, PassMoves
      <4> QED
        BY <1>4, <4>1, PointTypes DEF BarOK, Opener, Crew
    <3>2. pc[u] = "spin" /\ bar[u].passed = nPassed
      BY <3>1 DEF Arrived, Opener
    <3>3. Still(u)
      BY <1>1, <1>4 DEF Others, Crew
    <3>4. Released(u)'
      BY <3>1, <3>2, <3>3 DEF Released, Still
    <3> QED
      BY <3>2, <3>3, <3>4 DEF Waits, Gone, Still
  <2>2. CASE nGraph.n = 1
    <3>1. \A v \in Crew : v = 0
      BY <2>2, ThreadFacts DEF Crew
    <3> QED
      BY <1>2, <1>4, <3>1
  <2> QED
    BY <2>1, <2>2
<1>5. Opens
  BY <1>1, <1>2, <1>3, <1>4 DEF Opens
<1> QED
  BY <1>5, NextSection

LEMMA SectionStep ==
    ASSUME Typed, Typed', Claims, Params, BarOK, Called, Section, [Next]_vars
    PROVE  Section'
<1>1. CASE UNCHANGED vars
  <2>1. \A u \in Crew : Alike(u)
    BY <1>1, StillAlike DEF vars, shared, local, Still
  <2> QED
    BY <1>1, <2>1, SectionKept DEF vars, shared
<1>2. ASSUME NEW t \in Threads, ComputeStep(t) PROVE Section'
  <2>1. CASE nGraph.n # 1
    BY <1>2, <2>1, SilentStep, TopSection, WorkSection, PrepSection, ChunkSection, ClaimSection,
       AfterSection, BarrierSection DEF ComputeStep
  <2>2. CASE nGraph.n = 1
    BY <1>2, <2>2, SilentStep, TopSection, WorkSection, PrepSection, ChunkSection, ClaimSection,
       AfterSection, BarrierSection DEF ComputeStep
  <2> QED
    BY <2>1, <2>2
<1> QED
  BY <1>1, <1>2, CallerSection, KickSection, LookSection DEF Next

-----------------------------------------------------------------------------
(***************************************************************************)
(* The theorems.                                                           *)
(***************************************************************************)
(* The invariant that the others follow from: what the workers know of the *)
(* graph, the count of the barrier, and the section all threads are in.    *)
THEOREM PoolInvariant == Spec => []PoolInv
<1>1. Init => PoolInv
  BY TypedInit, ClaimsInit, ParamsInit, BarInit, SectionInit, CalledInit DEF PoolInv
<1>2. PoolInv /\ [Next]_vars => PoolInv'
  BY TypedStep, ClaimsStep, ParamsStep, BarStep, SectionStep, CalledStep DEF PoolInv
<1> QED
  BY <1>1, <1>2, PTL DEF Spec

(* The variables have the types of the code's, and n_barrier never exceeds *)
(* the number of threads.                                                  *)
THEOREM PoolTypeCorrect == Spec => []TypeOK
<1>1. ASSUME PoolInv PROVE TypeOK
  <2>1. Typed /\ BarOK
    BY <1>1 DEF PoolInv
  <2>2. nBarrier <= N
    <3>1. IsFiniteSet(Crew) /\ Cardinality(Crew) = nGraph.n /\ nGraph.n \in 0 .. N
      BY <2>1, CurrentGraph
    <3>2. Arrived \subseteq Crew
      BY <1>1, InCrew DEF PoolInv
    <3>3. Cardinality(Arrived) <= nGraph.n /\ Cardinality(Arrived) \in Nat
      BY <3>1, <3>2, FS_Subset, FS_CardinalityType
    <3>4. nBarrier \in {Cardinality(Arrived), nGraph.n, 0}
      BY <2>1 DEF BarOK
    <3> QED
      BY <3>1, <3>3, <3>4, PoolAssumption
  <2> QED
    BY <2>1, <2>2, PoolAssumption DEF Typed, SharedTyped, LocalTyped, TypeOK
<1> QED
  BY <1>1, PoolInvariant, PTL

(* No worker uses the parameters that ggml_graph_compute() resets: a late  *)
(* worker of the previous graph has passed its last barrier.               *)
THEOREM QuietResetHolds == Spec => []QuietReset
<1>1. ASSUME PoolInv PROVE QuietReset
  <2> SUFFICES ASSUME pc[0] \in CallerPcs, NEW w \in Workers PROVE ~UsesPool(w)
    BY DEF QuietReset, CallerPcs
  <2>1. Aside(w) /\ pc[w] # "start"
    BY <1>1, Quiet, ThreadFacts DEF PoolInv
  <2> QED
    BY <2>1 DEF Aside, Released, UsesPool, CallerPcs, LookPcs
<1> QED
  BY <1>1, PoolInvariant, PTL

(* The section of a thread that is about to compute a piece.               *)
LEMMA Doing ==
    ASSUME PoolInv, NEW t \in Threads, pc[t] \in {"work", "prep", "chunk"}
    PROVE  /\ t \in Crew /\ g[t] = cgraph /\ nth[t] = nGraph.n
           /\ InCall /\ pc[0] # "kick"
           /\ \E k \in 0 .. L, m \in 0 .. L - 1 :
                 /\ node[t] = m
                 /\ pc[t] = "work" => Sharing(k, m)
                 /\ pc[t] = "prep" => Preparing(k, m)
                 /\ pc[t] = "chunk" => Multiplying(m) /\ Holds(t, m)
<1> USE DEF PoolInv
<1>1. /\ t \in Crew /\ g[t] = cgraph /\ nth[t] = nGraph.n
      /\ ~Aside(t) /\ ~Finished(t) /\ ~Fresh(t) /\ ~Waits(t) /\ ~Released(t)
  BY AtWork DEF InLoop
<1>2. pc[0] \notin CallerPcs
  BY <1>1, Quiet
<1>3. \A k, m : ~Near(t, k, m) /\ ~Past(t, m) /\ ~Prepared(t, m) /\ ~Leaves(t, k, m)
  BY <1>1 DEF Near, Past, Prepared, Leaves
<1>4. PICK k \in 0 .. L, m \in 0 .. L : Sharing(k, m) \/ Preparing(k, m) \/ Multiplying(m)
  BY <1>1, <1>3 DEF Section, Leaving, Resting
<1>5. /\ Sharing(k, m) => pc[t] = "work" /\ node[t] = m
      /\ Preparing(k, m) => pc[t] = "prep" /\ node[t] = m
      /\ Multiplying(m) => pc[t] = "chunk" /\ node[t] = m /\ Holds(t, m)
  BY <1>1, <1>3 DEF Sharing, Shares, Preparing, Prepares, Multiplying, Computes, Holds
<1>6. m \in 0 .. L - 1
  BY <1>4, CurrentGraph DEF Sharing, Preparing, Multiplying
<1> QED
  BY <1>1, <1>2, <1>4, <1>5, <1>6 DEF InCall, CallerPcs

(* The pieces of a node, and where they are in out.                        *)
LEMMA PieceKinds ==
    ASSUME Typed, NEW m \in 0 .. L - 1, NEW p \in AllPieces(cgraph, nGraph.n)
    PROVE  /\ p[1] < m => p \in Below(m)
           /\ p[1] = m => /\ p \in Pieces(cgraph, nGraph.n, m) /\ p[2] \in {0, 1}
                          /\ p[2] = 0 => Op(m) = "mulmat" /\ \E i \in 0 .. nGraph.n - 1 : p = <<m, 0, i>>
<1>1. PICK j \in 0 .. L - 1 : p \in Pieces(cgraph, nGraph.n, j)
  BY DEF AllPieces, Nodes, L
<1>2. p[1] = j
  BY <1>1, PieceNode
<1>3. p[1] < m => p \in Below(m)
  BY DEF Below
<1>4. ASSUME p[1] = m
      PROVE  /\ p \in Pieces(cgraph, nGraph.n, m) /\ p[2] \in {0, 1}
             /\ p[2] = 0 => Op(m) = "mulmat" /\ \E i \in 0 .. nGraph.n - 1 : p = <<m, 0, i>>
  <2>1. p \in Pieces(cgraph, nGraph.n, m)
    BY <1>1, <1>2, <1>4
  <2>2. m \in Nat /\ nGraph.n \in Nat
    BY CurrentGraph, PoolAssumption
  <2>3. Op(m) # "nop" /\ (m = 0 \/ OpAt(cgraph, m - 1) # "fused")
    BY <2>1, <2>2, NoPieces DEF Op
  <2>4. CASE Op(m) = "mulmat"
    <3>1. p \in {<<m, 0, i>> : i \in 0 .. nGraph.n - 1} \cup {<<m, 1, i>> : i \in 0 .. NumChunks(nGraph.n) - 1}
      BY <2>1, <2>2, <2>3, <2>4, PiecesOf DEF Op
    <3> QED
      BY <2>1, <2>4, <3>1
  <2>5. CASE Op(m) # "mulmat"
    <3>1. p \in {<<m, 1, i>> : i \in 0 .. nGraph.n - 1}
      BY <2>1, <2>2, <2>3, <2>5, PiecesOf, ZenonT(40) DEF Op
    <3> QED
      BY <2>1, <3>1
  <2> QED
    BY <2>4, <2>5
<1> QED
  BY <1>3, <1>4

LEMMA NextPieceIs ==
    ASSUME NEW t, NEW q \in NextPiece(t)
    PROVE  \/ pc[t] = "work" /\ q = <<node[t], 1, t>>
           \/ pc[t] = "prep" /\ q = <<node[t], 0, t>>
           \/ pc[t] = "chunk" /\ mine[t] < NumChunks(nth[t]) /\ q = <<node[t], 1, mine[t]>>
  BY DEF NextPiece

LEMMA ReadyNow == PoolInv => InputsReady
<1> SUFFICES ASSUME PoolInv, NEW t \in Threads, NEW q \in NextPiece(t), NEW p \in AllPieces(g[t], nth[t]),
                    Precedes(p, q)
             PROVE  p \in out
  BY DEF InputsReady, InputsIn
<1>1. pc[t] \in {"work", "prep", "chunk"}
  BY NextPieceIs
<1>2. g[t] = cgraph /\ nth[t] = nGraph.n /\ Typed /\ nGraph.n \in Nat /\ Crew = 0 .. nGraph.n - 1
  BY <1>1, Doing, CurrentGraph, PoolAssumption DEF PoolInv, Crew, Threads
<1>3. PICK k \in 0 .. L, m \in 0 .. L - 1 :
             /\ node[t] = m
             /\ pc[t] = "work" => Sharing(k, m)
             /\ pc[t] = "prep" => Preparing(k, m)
             /\ pc[t] = "chunk" => Multiplying(m) /\ Holds(t, m)
  BY <1>1, Doing
<1>4. Below(m) \subseteq out
  BY <1>1, <1>3 DEF Sharing, Preparing, Multiplying
<1>5. q[1] = m /\ q[2] = (IF pc[t] = "prep" THEN 0 ELSE 1)
  BY <1>3, NextPieceIs
<1>6. CASE p[1] < m
  BY <1>2, <1>4, <1>6, PieceKinds
<1>7. CASE ~(p[1] < m)
  <2>1. p[1] = m /\ p[2] < q[2]
    BY <1>5, <1>7 DEF Precedes
  <2>2. p[2] \in {0, 1} /\ (p[2] = 0 => Op(m) = "mulmat" /\ \E i \in 0 .. nGraph.n - 1 : p = <<m, 0, i>>)
    BY <1>2, <2>1, PieceKinds
  <2>3. p[2] = 0 /\ pc[t] # "prep"
    BY <1>5, <2>1, <2>2
  <2>4. pc[t] = "chunk"
    BY <1>1, <1>3, <2>2, <2>3 DEF Sharing
  <2> QED
    BY <1>2, <1>3, <2>2, <2>3, <2>4 DEF Multiplying
<1> QED
  BY <1>6, <1>7

(* Every piece is computed after everything it may read.                   *)
THEOREM InputsReadyHolds == Spec => []InputsReady
  BY ReadyNow, PoolInvariant, PTL

LEMMA OnceNow == PoolInv => PieceOnce
<1> SUFFICES ASSUME PoolInv, NEW t \in Threads, NEW q \in NextPiece(t)
             PROVE  q \notin out /\ \A u \in Threads \ {t} : q \notin NextPiece(u)
  BY DEF PieceOnce
<1>1. pc[t] \in {"work", "prep", "chunk"}
  BY NextPieceIs
<1>2. t \in Crew /\ nth[t] = nGraph.n /\ Typed
  BY <1>1, Doing DEF PoolInv
<1>3. PICK k \in 0 .. L, m \in 0 .. L - 1 :
             /\ node[t] = m
             /\ pc[t] = "work" => Sharing(k, m)
             /\ pc[t] = "prep" => Preparing(k, m)
             /\ pc[t] = "chunk" => Multiplying(m) /\ Holds(t, m)
  BY <1>1, Doing
<1>4. q[1] = m /\ q \notin Below(m)
  BY <1>3, NextPieceIs, CurrentGraph DEF Below
<1>5. ASSUME NEW u \in Threads \ {t}, q \in NextPiece(u)
      PROVE  u \in Crew /\ pc[u] \in {"work", "prep", "chunk"} /\ node[u] = m
  BY <1>4, <1>5, NextPieceIs, Doing
<1>6. CASE pc[t] = "work"
  <2>1. Sharing(k, m) /\ q = <<m, 1, t>> /\ ~Past(t, m)
    BY <1>3, <1>6, NextPieceIs DEF Past, Waits
  <2>2. q \notin out
    BY <1>4, <2>1 DEF Sharing
  <2>3. ASSUME NEW u \in Threads \ {t}, q \in NextPiece(u) PROVE FALSE
    <3>1. Shares(u, k, m) /\ pc[u] \in {"work", "prep", "chunk"}
      BY <1>5, <2>1, <2>3 DEF Sharing
    <3>2. pc[u] = "work"
      BY <3>1 DEF Shares, Near, Fresh, Aside, Released, Past, Waits, CallerPcs, LookPcs
    <3> QED
      BY <2>1, <2>3, <3>2, NextPieceIs
  <2> QED
    BY <2>2, <2>3
<1>7. CASE pc[t] = "prep"
  <2>1. Preparing(k, m) /\ q = <<m, 0, t>> /\ ~Prepared(t, m)
    BY <1>3, <1>7, NextPieceIs DEF Prepared, Waits
  <2>2. q \notin out
    BY <1>4, <2>1 DEF Preparing
  <2>3. ASSUME NEW u \in Threads \ {t}, q \in NextPiece(u) PROVE FALSE
    BY <2>1, <2>3, NextPieceIs
  <2> QED
    BY <2>2, <2>3
<1>8. CASE pc[t] = "chunk"
  <2>1. Multiplying(m) /\ Holds(t, m) /\ q = <<m, 1, mine[t]>>
    BY <1>3, <1>8, NextPieceIs
  <2>2. q \notin out
    BY <1>2, <1>4, <2>1 DEF Multiplying
  <2>3. ASSUME NEW u \in Threads \ {t}, q \in NextPiece(u) PROVE FALSE
    <3>1. Computes(u, m) /\ u \in Crew /\ pc[u] \in {"work", "prep", "chunk"} /\ node[u] = m
      BY <1>5, <2>1, <2>3 DEF Multiplying
    <3>2. pc[u] = "chunk" /\ Holds(u, m)
      BY <3>1 DEF Computes, Holds, Released, Past, Waits
    <3>3. mine[u] = mine[t]
      BY <2>1, <2>3, <3>2, NextPieceIs
    <3> QED
      BY <1>2, <2>1, <3>1, <3>2, <3>3 DEF Multiplying
  <2> QED
    BY <2>2, <2>3
<1> QED
  BY <1>1, <1>6, <1>7, <1>8

(* No piece is computed twice or by two threads, whatever the chunks.      *)
THEOREM PieceOnceHolds == Spec => []PieceOnce
  BY OnceNow, PoolInvariant, PTL

-----------------------------------------------------------------------------
(***************************************************************************)
(* The pool implements ParallelGraph.                                      *)
(***************************************************************************)
LEMMA SamePieces ==
    /\ \A gr, n : PG!AllPieces(gr, n) = AllPieces(gr, n)
    /\ \A gr, n, q, done : PG!InputsIn(gr, n, q, done) <=> InputsIn(gr, n, q, done)
<1>1. \A gr, n, k : PG!Pieces(gr, n, k) = Pieces(gr, n, k)
  BY DEF PG!Pieces, Pieces, PG!OpAt, OpAt, PG!NumChunks, NumChunks
<1>2. \A gr, n : PG!AllPieces(gr, n) = AllPieces(gr, n)
  BY <1>1 DEF PG!AllPieces, AllPieces, PG!Nodes, Nodes
<1> QED
  BY <1>2 DEF PG!InputsIn, InputsIn, PG!Precedes, Precedes

LEMMA RefineInit == Init => PG!Init
<1> SUFFICES ASSUME Init PROVE PG!Init
  OBVIOUS
<1>1. pc[0] = "idle" /\ MinOf(want, N) = 1
  BY ThreadFacts, PoolAssumption DEF Init, MinOf
<1> QED
  BY <1>1 DEF Init, PG!Init, InCall

(* A step that computes a piece.                                           *)
LEMMA RefinePiece ==
    ASSUME PoolInv, NEW t \in Threads, NEW q \in NextPiece(t), out' = out \cup {q},
           UNCHANGED <<cgraph, want>>, InCall'
    PROVE  PG!Next
<1>1. pc[t] \in {"work", "prep", "chunk"}
  BY NextPieceIs
<1>2. /\ t \in Crew /\ g[t] = cgraph /\ nth[t] = nGraph.n /\ InCall /\ nGraph.n = MinOf(want, N)
      /\ Typed /\ nGraph.n \in Nat /\ Crew = 0 .. nGraph.n - 1
  BY <1>1, Doing, CurrentGraph, PoolAssumption DEF PoolInv, Called, Crew, Threads
<1>3. q \notin out /\ InputsIn(cgraph, MinOf(want, N), q, out)
  BY <1>2, ReadyNow, OnceNow DEF InputsReady, PieceOnce
<1>4. q \in AllPieces(cgraph, nGraph.n)
  <2>1. PICK k \in 0 .. L, m \in 0 .. L - 1 :
             /\ node[t] = m
             /\ pc[t] = "work" => Sharing(k, m)
             /\ pc[t] = "prep" => Preparing(k, m)
             /\ pc[t] = "chunk" => Multiplying(m) /\ Holds(t, m)
    BY <1>1, Doing
  <2>2. /\ m \in Nat /\ OpAt(cgraph, m) # "nop" /\ (m = 0 \/ OpAt(cgraph, m - 1) # "fused")
        /\ OpAt(cgraph, m) = "mulmat" <=> pc[t] # "work"
    <3>1. CASE pc[t] = "chunk"
      BY <1>2, <2>1, <3>1, CurrentGraph DEF Multiplying, Op
    <3>2. CASE pc[t] # "chunk"
      <4>1. Skips(k, m) /\ Op(m) # "nop" /\ (Op(m) = "mulmat" <=> pc[t] # "work")
        BY <1>1, <2>1, <3>2 DEF Sharing, Preparing
      <4>2. m \in k .. L /\ k \in Nat /\ (k = 0 \/ Op(k - 1) # "fused") /\ \A i \in k .. m - 1 : Op(i) = "nop"
        BY <1>2, <4>1, CurrentGraph DEF Skips
      <4>3. m = k \/ m - 1 \in k .. m - 1
        BY <4>2
      <4>4. m = 0 \/ Op(m - 1) # "fused"
        BY <4>2, <4>3
      <4> QED
        BY <4>1, <4>2, <4>4 DEF Op
    <3> QED
      BY <3>1, <3>2
  <2>3. Pieces(cgraph, nGraph.n, m) =
           IF OpAt(cgraph, m) = "mulmat"
           THEN {<<m, 0, i>> : i \in 0 .. nGraph.n - 1} \cup {<<m, 1, i>> : i \in 0 .. NumChunks(nGraph.n) - 1}
           ELSE {<<m, 1, i>> : i \in 0 .. nGraph.n - 1}
    <3>1. nGraph.n \in Nat
      BY <1>2
    <3> QED
      BY <2>2, <3>1, PiecesOf
  <2>4. mine[t] \in Nat /\ NumChunks(nGraph.n) \in Nat
    BY <1>2, PointTypes, PoolAssumption DEF NumChunks
  <2>5. q \in Pieces(cgraph, nGraph.n, m)
    BY <1>2, <2>1, <2>2, <2>3, <2>4, NextPieceIs
  <2> QED
    BY <2>1, <2>5 DEF AllPieces, Nodes, L
<1>5. PG!Compute(q)
  BY <1>2, <1>3, SamePieces DEF PG!Compute
<1> QED
  BY <1>2, <1>4, <1>5, SamePieces DEF PG!Next

(* The call returns.                                                       *)
LEMMA RefineReturn ==
    ASSUME PoolInv, Return(0)
    PROVE  PG!Next
<1> USE DEF PoolInv
<1>1. /\ pc[0] = "ret" /\ pc'[0] = "idle" /\ UNCHANGED <<cgraph, want, nGraph, abort, ec, out>>
  BY ThreadFacts, ReturnMoves DEF SameTask, SameCall
<1>2. InCall /\ ~InCall' /\ pc[0] \notin CallerPcs /\ pc[0] # "kick"
  BY <1>1 DEF InCall, CallerPcs
<1>3. 0 \in Crew
  BY <1>2, InCrew
<1>4. \A k, m : /\ ~Shares(0, k, m) /\ ~Prepares(0, k, m) /\ ~Computes(0, m) /\ ~Leaves(0, k, m)
  BY <1>1 DEF Shares, Prepares, Prepared, Computes, Holds, Leaves, Near, Fresh, Past, Waits, Released
<1>5. PICK m \in 0 .. L : Resting(m)
  BY <1>3, <1>4 DEF Section, Sharing, Preparing, Multiplying, Leaving
<1>6. (m = L \/ abort = m) /\ out = Below(m)
  BY <1>2, <1>5 DEF Resting
<1>7. nGraph.n = MinOf(want, N) /\ abort \in {-1} \cup 1 .. L /\ (ec = "SUCCESS" <=> abort = -1)
  BY <1>2 DEF Called
<1>8. L \in Nat /\ ec \in {"SUCCESS", "ABORTED"}
  BY CurrentGraph DEF Typed, SharedTyped
<1>9. CASE abort = -1
  <2>1. m = L /\ ec = "SUCCESS"
    BY <1>6, <1>7, <1>8, <1>9
  <2>2. out = PG!AllPieces(cgraph, MinOf(want, N))
    BY <1>6, <1>7, <2>1, BelowAll, SamePieces
  <2>3. PG!Finish
    BY <1>1, <1>2, <2>1, <2>2 DEF PG!Finish
  <2> QED
    BY <2>3 DEF PG!Next
<1>10. CASE abort # -1
  <2>1. m \in 1 .. L /\ ec = "ABORTED"
    BY <1>6, <1>7, <1>8, <1>10
  <2>2. out = {p \in PG!AllPieces(cgraph, MinOf(want, N)) : p[1] < m}
    BY <1>6, <1>7, SamePieces DEF Below
  <2>3. PG!Abandon
    BY <1>1, <1>2, <2>1, <2>2 DEF PG!Abandon, L
  <2> QED
    BY <2>3 DEF PG!Next
<1> QED
  BY <1>9, <1>10

LEMMA RefineStep == PoolInv /\ [Next]_vars => [PG!Next]_(PG!vars)
<1> SUFFICES ASSUME PoolInv, [Next]_vars PROVE [PG!Next]_(PG!vars)
  OBVIOUS
<1> USE ThreadFacts
<1>0. Typed
  BY DEF PoolInv
<1>a. ASSUME InCall' <=> InCall, UNCHANGED <<cgraph, want, out>>, ec' = ec \/ InCall
      PROVE  UNCHANGED PG!vars
  <2>1. InCall' = InCall
    BY <1>a DEF InCall
  <2>2. (IF InCall THEN "SUCCESS" ELSE ec)' = (IF InCall THEN "SUCCESS" ELSE ec)
    BY <1>a, <2>1
  <2>3. MinOf(want, N)' = MinOf(want, N)
    BY <1>a DEF MinOf
  <2> QED
    BY <1>a, <2>1, <2>2, <2>3 DEF PG!vars
<1>1. ASSUME NEW gr \in Graphs, NEW n \in 1 .. N + 1, Begin(gr, n)
      PROVE  PG!Next
  <2>1. ~InCall /\ InCall'
    BY <1>0, <1>1, Domains DEF Begin, Goto, InCall
  <2>2. MinOf(n, N) \in 1 .. N
    BY PoolAssumption DEF MinOf
  <2>3. PG!Begin
    BY <1>1, <2>1, <2>2 DEF Begin, PG!Begin
  <2> QED
    BY <2>3 DEF PG!Next
<1>2. CASE Kick \/ Pause \/ Resume \/ Free
  <2>1. InCall' <=> InCall
    BY <1>0, <1>2, WokenTyped, Domains DEF Kick, Pause, Resume, Free, InCall, Typed
  <2> QED
    BY <1>a, <1>2, <2>1 DEF Kick, Pause, Resume, Free
<1>3. CASE Joined \/ Ended \/ UNCHANGED vars
  <2>1. InCall' <=> InCall
    BY <1>0, <1>3, Domains DEF Joined, Ended, Goto, vars, InCall
  <2> QED
    BY <1>a, <1>3, <2>1 DEF Joined, Ended, vars, shared
<1>4. ASSUME NEW w \in Workers, LookStep(w) \/ SpuriousWake(w)
      PROVE  UNCHANGED PG!vars
  <2>1. Others(w) /\ UNCHANGED <<shared, out>>
    BY <1>0, <1>4, LookMoves DEF PoolInv
  <2>2. InCall' <=> InCall
    BY <2>1 DEF Others, Still, InCall
  <2> QED
    BY <1>a, <2>1, <2>2 DEF shared
<1>5. ASSUME NEW t \in Threads, ComputeStep(t), ~(t = 0 /\ Return(t))
      PROVE  [PG!Next]_(PG!vars)
  <2> USE DEF SameTask, SameCall
  <2>1. Others(t) /\ UNCHANGED <<cgraph, want>> /\ (t = 0 => InCall /\ InCall')
    <3> USE <1>0, PointTypes DEF InCall
    <3>1. CASE Start(t) \/ Top(t) \/ Work(t) \/ Prep(t)
      BY <3>1, StartMoves, TopMoves, WorkMoves, PrepMoves
    <3>2. CASE Chunk(t) \/ ClaimChunk(t) \/ After(t) \/ Return(t)
      BY <1>5, <3>2, ChunkMoves, ClaimMoves, AfterMoves, ReturnMoves
    <3>3. CASE BarSpin(t) \/ BarPass(t)
      BY <3>3, SpinMoves, PassMoves
    <3>4. CASE BarEnter(t)
      BY <3>4, EnterMoves
    <3>5. CASE BarAdd(t) \/ BarReset(t)
      BY <3>5, AddMoves, ResetMoves
    <3> QED
      BY <1>5, <3>1, <3>2, <3>3, <3>4, <3>5 DEF ComputeStep
  <2>2. InCall' <=> InCall
    BY <2>1 DEF Others, Still, InCall
  <2>3. ec' = ec \/ InCall
    <3>1. CASE After(t)
      BY <1>0, <2>1, <3>1, AfterMoves
    <3>2. CASE ~After(t)
      BY <1>5, <3>2 DEF ComputeStep, Start, Top, Work, Prep, Chunk, ClaimChunk, Return, BarEnter, BarAdd,
         BarReset, BarPass, BarSpin, shared
    <3> QED
      BY <3>1, <3>2
  <2>4. CASE out' = out
    BY <1>a, <2>1, <2>2, <2>3, <2>4
  <2>5. CASE out' # out
    <3>1. PICK q \in NextPiece(t) : out' = out \cup {q}
      <4>1. CASE Work(t)
        BY <1>0, <4>1, WorkMoves DEF NextPiece
      <4>2. CASE Prep(t)
        BY <1>0, <4>2, PrepMoves DEF NextPiece
      <4>3. CASE Chunk(t)
        BY <1>0, <2>5, <4>3, ChunkMoves DEF NextPiece
      <4>4. CASE ~(Work(t) \/ Prep(t) \/ Chunk(t))
        BY <1>5, <2>5, <4>4 DEF ComputeStep, Start, Top, ClaimChunk, After, Return, BarEnter, BarAdd,
           BarReset, BarPass, BarSpin, LeaveBarrier
      <4> QED
        BY <4>1, <4>2, <4>3, <4>4
    <3>2. InCall'
      BY <2>2, <3>1, NextPieceIs, Doing
    <3> QED
      BY <2>1, <3>1, <3>2, RefinePiece
  <2> QED
    BY <2>4, <2>5
<1>6. Return(0) => PG!Next
  BY RefineReturn
<1> QED
  BY <1>1, <1>2, <1>3, <1>4, <1>5, <1>6 DEF Next

(* Whatever the interleaving, a call computes the pieces of its graph once *)
(* each, in an order that gives every piece its inputs, and returns with   *)
(* the graph computed, or with the part before the node it was aborted at. *)
THEOREM ComputesGraphsHolds == Spec => ComputesGraphs
<1>1. Spec => []PoolInv
  BY PoolInvariant
<1> QED
  BY <1>1, RefineInit, RefineStep, PTL DEF Spec, ComputesGraphs, PG!Spec
=============================================================================
