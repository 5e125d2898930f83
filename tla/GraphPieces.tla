---------------------------- MODULE GraphPieces ----------------------------
(* What a compute graph asks of the threads that execute it: the pieces of    *)
(* each node and the order they must be computed in.  A graph is the sequence *)
(* of the kinds of its nodes; nodes are numbered from 0, as in the code.      *)
EXTENDS Integers, Sequences

CONSTANTS Graphs,       \* the graphs that may be computed
          N,            \* n_threads of the pool
          BaseChunks    \* chunks of 16 or 64 rows a mul_mat would be cut into

(* A fused node (RMS_NORM) is computed together with the node after it (MUL). *)
Ops == {"nop", "plain", "fused", "mulmat"}

ASSUME PoolAssumption == N \in Nat \ {0} /\ BaseChunks \in Nat \ {0}
ASSUME GraphsAssumption ==
    \A g \in Graphs : /\ g \in Seq(Ops)
                      /\ \A k \in DOMAIN g :
                            g[k] = "fused" => k < Len(g) /\ g[k + 1] = "plain"

Nodes(g) == 0 .. Len(g) - 1
OpAt(g, k) == g[k + 1]

(* ggml_cpu_try_fuse_ops(): how many nodes after k are computed with it. *)
Fused(g, k) == IF OpAt(g, k) = "fused" THEN 1 ELSE 0

(* nchunk0 * nchunk1: poor chunking for nth threads falls back to one each. *)
NumChunks(nth) == IF BaseChunks < 4 * nth THEN nth ELSE BaseChunks

(* A piece <<k, s, i>>: share i of stage s of node k.  Stage 0 converts src1  *)
(* into the work buffer (mul_mat only), stage 1 writes the node's data.       *)
Pieces(g, nth, k) ==
    IF \/ OpAt(g, k) = "nop"
       \/ k > 0 /\ OpAt(g, k - 1) = "fused"
    THEN {}
    ELSE IF OpAt(g, k) = "mulmat"
         THEN {k} \X {0} \X (0 .. nth - 1)
              \cup {k} \X {1} \X (0 .. NumChunks(nth) - 1)
         ELSE {k} \X {1} \X (0 .. nth - 1)

AllPieces(g, nth) == UNION {Pieces(g, nth, k) : k \in Nodes(g)}

Precedes(p, q) == \/ p[1] < q[1]
                  \/ p[1] = q[1] /\ p[2] < q[2]

(* Everything q may read has been written. *)
InputsIn(g, nth, q, out) ==
    \A p \in AllPieces(g, nth) : Precedes(p, q) => p \in out
=============================================================================
