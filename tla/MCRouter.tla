------------------------------ MODULE MCRouter ------------------------------
(***************************************************************************)
(* Instances of Router for TLC.  The state space is finite without a       *)
(* constraint: every HTTP thread makes one call.                           *)
(***************************************************************************)
EXTENDS Router, TLC

CONSTANTS m1, m2, c1, c2

Do(op, name) == [op |-> op, name |-> name]

\* One thread loads, uses or unloads m1; the other wants m2, uses m1 or
\* reloads the list, which may load m2.
PairWork ==
    [c \in Callers |-> CASE c = c1 -> {Do("request", m1), Do("load", m1), Do("unload", m1)}
                         [] c = c2 -> {Do("request", m2), Do("forward", m1), Do("reload", m1)}]
=============================================================================
