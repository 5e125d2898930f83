--------------------------- MODULE ParallelGraph ---------------------------
(* What ggml_graph_compute() promises its caller, whatever the number of      *)
(* threads: while it runs, each piece of the graph is computed once, after    *)
(* everything it may read; it returns SUCCESS with the whole graph computed,  *)
(* or ABORTED with the graph computed up to one node and nothing beyond it.   *)
EXTENDS GraphPieces

VARIABLES running,   \* a call of ggml_graph_compute() is executing
          ec,        \* what the last call returned
          graph,     \* the graph of the last call
          nth,       \* the threads that share its nodes
          out        \* the pieces computed so far

vars == <<running, ec, graph, nth, out>>

Init == /\ running = FALSE
        /\ ec = "SUCCESS"
        /\ graph = <<>>
        /\ nth = 1
        /\ out = {}

Begin == /\ ~running
         /\ running' = TRUE
         /\ ec' = "SUCCESS"
         /\ graph' \in Graphs
         /\ nth' \in 1 .. N
         /\ out' = {}

Compute(q) == /\ running
              /\ q \notin out
              /\ InputsIn(graph, nth, q, out)
              /\ out' = out \cup {q}
              /\ UNCHANGED <<running, ec, graph, nth>>

Finish == /\ running
          /\ out = AllPieces(graph, nth)
          /\ running' = FALSE
          /\ UNCHANGED <<ec, graph, nth, out>>

Abandon == /\ running
           /\ \E k \in 1 .. Len(graph) :
                 out = {p \in AllPieces(graph, nth) : p[1] < k}
           /\ running' = FALSE
           /\ ec' = "ABORTED"
           /\ UNCHANGED <<graph, nth, out>>

Next == \/ Begin
        \/ \E q \in AllPieces(graph, nth) : Compute(q)
        \/ Finish
        \/ Abandon

Spec == Init /\ [][Next]_vars
=============================================================================
