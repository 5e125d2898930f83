----------------------------- MODULE Threadpool -----------------------------
(* The thread pool that executes compute graphs on the CPU                    *)
(* (ggml/src/ggml-cpu/ggml-cpu.c, built without OpenMP).  Thread 0 is the     *)
(* thread that calls ggml_graph_compute(); threads 1 .. N-1 are the workers   *)
(* of the pool, which poll for a new graph, then sleep on a condition         *)
(* variable.  Atomics are interleaved one access at a time; a section under   *)
(* the pool's mutex is one step, which pthread_cond_wait() splits in two.     *)
EXTENDS GraphPieces

CONSTANT MaxGraphs      \* bound: graphs computed in a behaviour

ASSUME BoundAssumption == MaxGraphs \in Nat

VARIABLES
    cgraph, want,       \* cgraph, and n_threads of cplan
    nGraph,             \* n_graph: a count of graphs and the active threads
    nBarrier, nPassed,  \* n_barrier, n_barrier_passed
    chunk,              \* current_chunk
    stop, pause,
    abort, ec,
    pc,                 \* where each thread is
    lastGraph, pending, \* ggml_compute_state of each thread
    g, nth, node, mine, \* locals: cgraph, params.nth, node_n, current_chunk
    bar,                \* locals of ggml_barrier(): n_threads and n_passed
    cont,               \* where the barrier returns to
    out                 \* the pieces of the graph that have been written

shared == <<cgraph, want, nGraph, nBarrier, nPassed, chunk, stop, pause, abort, ec>>
local  == <<lastGraph, pending, g, nth, node, mine, bar, cont>>
vars   == <<shared, pc, local, out>>

Threads == 0 .. N - 1
Workers == 1 .. N - 1

MinOf(a, b) == IF a < b THEN a ELSE b

Goto(t, l) == pc' = [pc EXCEPT ![t] = l]

(* ggml_cond_broadcast(): a thread asleep in the pause loop goes back to its  *)
(* test, one asleep in check_for_work() evaluates thread_ready() again.       *)
Woken(p) == [t \in Threads |-> CASE p[t] = "psleep" -> "pause"
                                 [] p[t] = "sleep"  -> "lock"
                                 [] OTHER           -> p[t]]

NoBar == [n |-> 0, passed |-> 0]

(* ggml_threadpool_new_impl() *)
Init ==
    /\ cgraph = <<>> /\ want = 1
    /\ nGraph = [count |-> 0, n |-> 0]
    /\ nBarrier = 0 /\ nPassed = 0
    /\ chunk = 0
    /\ stop = FALSE /\ pause \in BOOLEAN
    /\ abort = -1 /\ ec = "SUCCESS"
    /\ pc = [t \in Threads |-> IF t = 0 THEN "idle" ELSE "pause"]
    /\ lastGraph = [t \in Threads |-> [count |-> 0, n |-> 0]]
    /\ pending = [t \in Threads |-> FALSE]
    /\ g = [t \in Threads |-> <<>>]
    /\ nth = [t \in Threads |-> 0]
    /\ node = [t \in Threads |-> 0]
    /\ mine = [t \in Threads |-> 0]
    /\ bar = [t \in Threads |-> NoBar]
    /\ cont = [t \in Threads |-> "top"]
    /\ out = {}

-----------------------------------------------------------------------------
(* The caller.                                                                *)

(* ggml_graph_compute(), up to the kickoff: the parameters are reset.  Node   *)
(* data is about to be computed anew, so nothing of this graph is written.    *)
Begin(gr, n) ==
    /\ pc[0] = "idle"
    /\ nGraph.count < MaxGraphs
    /\ cgraph' = gr
    /\ want' = n
    /\ chunk' = 0
    /\ abort' = -1
    /\ ec' = "SUCCESS"
    /\ out' = {}
    /\ Goto(0, "kick")
    /\ UNCHANGED <<nGraph, nBarrier, nPassed, stop, pause, local>>

(* Mutant: only a paused pool is woken. *)
KickSilently ==
    /\ pc[0] = "kick"
    /\ nGraph' = [count |-> nGraph.count + 1, n |-> MinOf(want, N)]
    /\ pause' = FALSE
    /\ pc' = [IF pause THEN Woken(pc) ELSE pc EXCEPT ![0] = "start"]
    /\ UNCHANGED <<cgraph, want, nBarrier, nPassed, chunk, stop, abort, ec, local, out>>

(* ggml_graph_compute_kickoff(), with the cap on the threads before it *)
Kick ==
    /\ pc[0] = "kick"
    /\ nGraph' = [count |-> nGraph.count + 1, n |-> MinOf(want, N)]
    /\ pause' = FALSE
    /\ pc' = [Woken(pc) EXCEPT ![0] = "start"]
    /\ UNCHANGED <<cgraph, want, nBarrier, nPassed, chunk, stop, abort, ec, local, out>>

(* ggml_threadpool_pause(): set_threadpool() pauses the pool it switches from *)
Pause ==
    /\ pc[0] = "idle"
    /\ ~pause
    /\ pause' = TRUE
    /\ pc' = Woken(pc)
    /\ UNCHANGED <<cgraph, want, nGraph, nBarrier, nPassed, chunk, stop, abort, ec, local, out>>

(* ggml_threadpool_resume() *)
Resume ==
    /\ pc[0] = "idle"
    /\ pause
    /\ pause' = FALSE
    /\ pc' = Woken(pc)
    /\ UNCHANGED <<cgraph, want, nGraph, nBarrier, nPassed, chunk, stop, abort, ec, local, out>>

(* Mutant: a paused pool stays paused. *)
FreePaused ==
    /\ pc[0] = "idle"
    /\ stop' = TRUE
    /\ pc' = [Woken(pc) EXCEPT ![0] = "join"]
    /\ UNCHANGED <<cgraph, want, nGraph, nBarrier, nPassed, chunk, pause, abort, ec, local, out>>

(* ggml_threadpool_free(), up to the joins *)
Free ==
    /\ pc[0] = "idle"
    /\ stop' = TRUE
    /\ pause' = FALSE
    /\ pc' = [Woken(pc) EXCEPT ![0] = "join"]
    /\ UNCHANGED <<cgraph, want, nGraph, nBarrier, nPassed, chunk, abort, ec, local, out>>

Joined ==
    /\ pc[0] = "join"
    /\ \A w \in Workers : pc[w] = "exit"
    /\ Goto(0, "freed")
    /\ UNCHANGED <<shared, local, out>>

-----------------------------------------------------------------------------
(* ggml_graph_compute_secondary_thread(): a worker looks for work.            *)

PauseTest(w) ==
    /\ pc[w] = "pause"
    /\ Goto(w, IF pause THEN "plock" ELSE "stop")
    /\ UNCHANGED <<shared, local, out>>

PauseWait(w) ==
    /\ pc[w] = "plock"
    /\ Goto(w, IF pause THEN "psleep" ELSE "pause")
    /\ UNCHANGED <<shared, local, out>>

StopTest(w) ==
    /\ pc[w] = "stop"
    /\ Goto(w, IF stop THEN "exit" ELSE "poll")
    /\ UNCHANGED <<shared, local, out>>

(* ggml_graph_compute_thread_ready(), first test *)
FlagsReady(w) == pending[w] \/ stop \/ pause

(* ... and the test of n_graph, with its effects *)
Claimed(w) ==
    /\ nGraph # lastGraph[w]
    /\ pending' = [pending EXCEPT ![w] = w < nGraph.n]
    /\ lastGraph' = [lastGraph EXCEPT ![w] = nGraph]
    /\ UNCHANGED <<g, nth, node, mine, bar, cont>>

(* ggml_graph_compute_poll_for_work() reads the flags, then n_graph, without  *)
(* the mutex, and gives up after some rounds.                                 *)
PollFlags(w) ==
    /\ pc[w] = "poll"
    /\ Goto(w, IF FlagsReady(w)
               THEN IF pending[w] THEN "take" ELSE "lock"
               ELSE "poll2")
    /\ UNCHANGED <<shared, local, out>>

PollGraph(w) ==
    /\ pc[w] = "poll2"
    /\ \/ /\ Claimed(w)
          /\ Goto(w, IF pending'[w] THEN "take" ELSE "lock")
       \/ /\ nGraph = lastGraph[w]
          /\ \E l \in {"poll", "lock"} : Goto(w, l)
          /\ UNCHANGED local
    /\ UNCHANGED <<shared, out>>

(* ggml_graph_compute_check_for_work(), the loop under the mutex *)
CheckOrSleep(w) ==
    /\ pc[w] = "lock"
    /\ \/ /\ FlagsReady(w)
          /\ Goto(w, "take")
          /\ UNCHANGED local
       \/ /\ ~FlagsReady(w)
          /\ Claimed(w)
          /\ Goto(w, "take")
       \/ /\ ~FlagsReady(w)
          /\ nGraph = lastGraph[w]
          /\ Goto(w, "sleep")
          /\ UNCHANGED local
    /\ UNCHANGED <<shared, out>>

Take(w) ==
    /\ pc[w] = "take"
    /\ pending' = [pending EXCEPT ![w] = FALSE]
    /\ Goto(w, IF pending[w] THEN "start" ELSE "pause")
    /\ UNCHANGED <<shared, lastGraph, g, nth, node, mine, bar, cont, out>>

(* pthread_cond_wait() may return without a broadcast. *)
SpuriousWake(w) ==
    /\ pc[w] \in {"sleep", "psleep"}
    /\ Goto(w, Woken(pc)[w])
    /\ UNCHANGED <<shared, local, out>>

-----------------------------------------------------------------------------
(* ggml_graph_compute_thread(): thread t executes its share of the graph.     *)

Start(t) ==
    /\ pc[t] = "start"
    /\ g' = [g EXCEPT ![t] = cgraph]
    /\ nth' = [nth EXCEPT ![t] = nGraph.n]
    /\ node' = [node EXCEPT ![t] = 0]
    /\ Goto(t, "top")
    /\ UNCHANGED <<shared, lastGraph, pending, mine, bar, cont, out>>

ToBarrier(t, after) ==
    /\ Goto(t, "bar")
    /\ cont' = [cont EXCEPT ![t] = after]

(* Mutant: no barrier at the end of the graph. *)
TopLeaves(t) ==
    /\ pc[t] = "top"
    /\ \/ /\ node[t] >= Len(g[t]) \/ abort = node[t]
          /\ Goto(t, "ret")
          /\ UNCHANGED node
       \/ /\ node[t] < Len(g[t]) /\ abort # node[t]
          /\ IF OpAt(g[t], node[t]) = "nop"
             THEN node' = [node EXCEPT ![t] = @ + 1] /\ UNCHANGED pc
             ELSE /\ Goto(t, IF OpAt(g[t], node[t]) = "mulmat" THEN "prep" ELSE "work")
                  /\ UNCHANGED node
    /\ UNCHANGED <<shared, lastGraph, pending, g, nth, mine, bar, cont, out>>

(* The head of the loop over the nodes: its condition, the skipped nodes, the *)
(* choice of the operation. *)
Top(t) ==
    /\ pc[t] = "top"
    /\ \/ /\ node[t] >= Len(g[t]) \/ abort = node[t]
          /\ ToBarrier(t, "ret")
          /\ UNCHANGED node
       \/ /\ node[t] < Len(g[t]) /\ abort # node[t]
          /\ IF OpAt(g[t], node[t]) = "nop"
             THEN node' = [node EXCEPT ![t] = @ + 1] /\ UNCHANGED pc
             ELSE /\ Goto(t, IF OpAt(g[t], node[t]) = "mulmat" THEN "prep" ELSE "work")
                  /\ UNCHANGED node
          /\ UNCHANGED cont
    /\ UNCHANGED <<shared, lastGraph, pending, g, nth, mine, bar, out>>

(* Mutant: n_fused is not added to node_n. *)
WorkForgetsFused(t) ==
    /\ pc[t] = "work"
    /\ out' = out \cup {<<node[t], 1, t>>}
    /\ Goto(t, "after")
    /\ UNCHANGED <<shared, local>>

(* An operation whose threads each write their own share. *)
Work(t) ==
    /\ pc[t] = "work"
    /\ out' = out \cup {<<node[t], 1, t>>}
    /\ node' = [node EXCEPT ![t] = @ + Fused(g[t], @)]
    /\ Goto(t, "after")
    /\ UNCHANGED <<shared, lastGraph, pending, g, nth, mine, bar, cont>>

(* Mutant: the counter starts at the chunks the threads begin with. *)
PrepFromZero(t) ==
    /\ pc[t] = "prep"
    /\ out' = out \cup {<<node[t], 0, t>>}
    /\ chunk' = IF t = 0 THEN 0 ELSE chunk
    /\ mine' = [mine EXCEPT ![t] = t]
    /\ ToBarrier(t, "chunk")
    /\ UNCHANGED <<cgraph, want, nGraph, nBarrier, nPassed, stop, pause, abort, ec,
                   lastGraph, pending, g, nth, node, bar>>

(* ggml_compute_forward_mul_mat(), up to its barrier *)
Prep(t) ==
    /\ pc[t] = "prep"
    /\ out' = out \cup {<<node[t], 0, t>>}
    /\ chunk' = IF t = 0 THEN nth[t] ELSE chunk
    /\ mine' = [mine EXCEPT ![t] = t]
    /\ ToBarrier(t, "chunk")
    /\ UNCHANGED <<cgraph, want, nGraph, nBarrier, nPassed, stop, pause, abort, ec,
                   lastGraph, pending, g, nth, node, bar>>

(* ... one turn of its loop over the chunks *)
Chunk(t) ==
    /\ pc[t] = "chunk"
    /\ IF mine[t] < NumChunks(nth[t])
       THEN /\ out' = out \cup {<<node[t], 1, mine[t]>>}
            /\ Goto(t, IF nth[t] >= NumChunks(nth[t]) THEN "after" ELSE "claim")
       ELSE Goto(t, "after") /\ UNCHANGED out
    /\ UNCHANGED <<shared, local>>

(* ... and atomic_fetch_add(current_chunk, 1) *)
ClaimChunk(t) ==
    /\ pc[t] = "claim"
    /\ mine' = [mine EXCEPT ![t] = chunk]
    /\ chunk' = chunk + 1
    /\ Goto(t, "chunk")
    /\ UNCHANGED <<cgraph, want, nGraph, nBarrier, nPassed, stop, pause, abort, ec,
                   lastGraph, pending, g, nth, node, bar, cont, out>>

(* The tail of the loop: thread 0 asks the abort callback, and every thread   *)
(* waits for the others unless no node is left. *)
After(t) ==
    /\ pc[t] = "after"
    /\ \/ UNCHANGED <<abort, ec>>
       \/ t = 0 /\ abort' = node[t] + 1 /\ ec' = "ABORTED"
    /\ node' = [node EXCEPT ![t] = @ + 1]
    /\ IF node[t] + 1 < Len(g[t])
       THEN ToBarrier(t, "top")
       ELSE Goto(t, "top") /\ UNCHANGED cont
    /\ UNCHANGED <<cgraph, want, nGraph, nBarrier, nPassed, chunk, stop, pause,
                   lastGraph, pending, g, nth, mine, bar, out>>

(* The function returns: a worker to its loop, thread 0 to its caller. *)
Return(t) ==
    /\ pc[t] = "ret"
    /\ g' = [g EXCEPT ![t] = <<>>]
    /\ nth' = [nth EXCEPT ![t] = 0]
    /\ node' = [node EXCEPT ![t] = 0]
    /\ mine' = [mine EXCEPT ![t] = 0]
    /\ cont' = [cont EXCEPT ![t] = "top"]
    /\ Goto(t, IF t = 0 THEN "idle" ELSE "pause")
    /\ UNCHANGED <<shared, lastGraph, pending, bar, out>>

-----------------------------------------------------------------------------
(* ggml_barrier()                                                             *)

BarEnter(t) ==
    /\ pc[t] = "bar"
    /\ IF nGraph.n = 1
       THEN Goto(t, cont[t]) /\ UNCHANGED bar
       ELSE /\ bar' = [bar EXCEPT ![t] = [n |-> nGraph.n, passed |-> nPassed]]
            /\ Goto(t, "add")
    /\ UNCHANGED <<shared, lastGraph, pending, g, nth, node, mine, cont, out>>

(* Mutant: the last thread but one opens the barrier. *)
BarAddEarly(t) ==
    /\ pc[t] = "add"
    /\ nBarrier' = nBarrier + 1
    /\ Goto(t, IF nBarrier >= bar[t].n - 2 THEN "reset" ELSE "spin")
    /\ UNCHANGED <<cgraph, want, nGraph, nPassed, chunk, stop, pause, abort, ec, local, out>>

BarAdd(t) ==
    /\ pc[t] = "add"
    /\ nBarrier' = nBarrier + 1
    /\ Goto(t, IF nBarrier = bar[t].n - 1 THEN "reset" ELSE "spin")
    /\ UNCHANGED <<cgraph, want, nGraph, nPassed, chunk, stop, pause, abort, ec, local, out>>

BarReset(t) ==
    /\ pc[t] = "reset"
    /\ nBarrier' = 0
    /\ Goto(t, "pass")
    /\ UNCHANGED <<cgraph, want, nGraph, nPassed, chunk, stop, pause, abort, ec, local, out>>

LeaveBarrier(t) ==
    /\ bar' = [bar EXCEPT ![t] = NoBar]
    /\ Goto(t, cont[t])
    /\ UNCHANGED <<lastGraph, pending, g, nth, node, mine, cont, out>>

BarPass(t) ==
    /\ pc[t] = "pass"
    /\ nPassed' = nPassed + 1
    /\ LeaveBarrier(t)
    /\ UNCHANGED <<cgraph, want, nGraph, nBarrier, chunk, stop, pause, abort, ec>>

BarSpin(t) ==
    /\ pc[t] = "spin"
    /\ nPassed # bar[t].passed
    /\ LeaveBarrier(t)
    /\ UNCHANGED shared

-----------------------------------------------------------------------------
ComputeStep(t) ==
    \/ Start(t) \/ Top(t) \/ Work(t) \/ Prep(t) \/ Chunk(t) \/ ClaimChunk(t)
    \/ After(t) \/ Return(t)
    \/ BarEnter(t) \/ BarAdd(t) \/ BarReset(t) \/ BarPass(t) \/ BarSpin(t)

LookStep(w) ==
    \/ PauseTest(w) \/ PauseWait(w) \/ StopTest(w)
    \/ PollFlags(w) \/ PollGraph(w) \/ CheckOrSleep(w) \/ Take(w)

(* The pool is freed and its threads have ended. *)
Ended == pc[0] = "freed" /\ UNCHANGED vars

Next ==
    \/ \E gr \in Graphs, n \in 1 .. N + 1 : Begin(gr, n)
    \/ Kick \/ Pause \/ Resume \/ Free \/ Joined
    \/ \E t \in Threads : ComputeStep(t)
    \/ \E w \in Workers : LookStep(w) \/ SpuriousWake(w)
    \/ Ended

Spec == Init /\ [][Next]_vars

(* Every thread is scheduled; the caller is free not to call again.           *)
FairSpec ==
    /\ Spec
    /\ WF_vars(Kick) /\ WF_vars(Joined)
    /\ \A t \in Threads : WF_vars(ComputeStep(t))
    /\ \A w \in Workers : WF_vars(LookStep(w))

-----------------------------------------------------------------------------
(* Properties.                                                                *)

Computing(t) == pc[t] \in {"start", "top", "prep", "work", "chunk", "claim", "after",
                           "bar", "add", "reset", "pass", "spin", "ret"}

(* The parts of ggml_graph_compute_thread() that use what Begin resets. *)
UsesPool(t) == \/ pc[t] \in {"start", "top", "prep", "work", "chunk", "claim", "after"}
               \/ pc[t] \in {"bar", "add", "reset", "pass", "spin"} /\ cont[t] # "ret"

TypeOK ==
    /\ cgraph \in Graphs \cup {<<>>} /\ want \in 1 .. N + 1
    /\ nGraph \in [count : Nat, n : 0 .. N]
    /\ nBarrier \in 0 .. N /\ nPassed \in Nat
    /\ chunk \in Nat
    /\ stop \in BOOLEAN /\ pause \in BOOLEAN
    /\ abort \in Int /\ ec \in {"SUCCESS", "ABORTED"}
    /\ lastGraph \in [Threads -> [count : Nat, n : 0 .. N]]
    /\ pending \in [Threads -> BOOLEAN]
    /\ g \in [Threads -> Graphs \cup {<<>>}]
    /\ nth \in [Threads -> 0 .. N]
    /\ node \in [Threads -> Nat]
    /\ mine \in [Threads -> Nat]
    /\ bar \in [Threads -> [n : 0 .. N, passed : Nat]]
    /\ cont \in [Threads -> {"top", "chunk", "ret"}]

(* "No worker threads should be accessing the parameters below at this        *)
(* stage", says ggml_graph_compute() where it resets the graph, the plan, the *)
(* chunk counter, the abort mark and the status: the last barrier of a graph  *)
(* and the count of graphs keep late workers of the previous graph away.      *)
QuietReset == pc[0] \in {"idle", "kick", "join", "freed"} =>
                 \A w \in Workers : ~UsesPool(w)

(* A thread about to compute a piece finds everything before it written: the  *)
(* barriers separate the nodes, and the two stages of a mul_mat, whatever the *)
(* speed of the threads and the number of threads of the previous graph.      *)
NextPiece(t) == CASE pc[t] = "work"  -> {<<node[t], 1, t>>}
                  [] pc[t] = "prep"  -> {<<node[t], 0, t>>}
                  [] pc[t] = "chunk" /\ mine[t] < NumChunks(nth[t])
                                     -> {<<node[t], 1, mine[t]>>}
                  [] OTHER           -> {}

InputsReady == \A t \in Threads : \A q \in NextPiece(t) :
                  InputsIn(g[t], nth[t], q, out)

(* No piece is computed twice, nor by two threads: the chunk counter hands    *)
(* out each chunk once, starting after the chunks the threads begin with.     *)
PieceOnce == \A t \in Threads : \A q \in NextPiece(t) :
                /\ q \notin out
                /\ \A u \in Threads \ {t} : q \notin NextPiece(u)

(* A graph that was begun is computed or abandoned: no wake-up of a worker is *)
(* lost between its tests and its sleep, and no barrier waits for a thread    *)
(* that is not coming.                                                        *)
ComputeReturns == (pc[0] = "kick") ~> (pc[0] = "idle")

(* ggml_threadpool_free() joins every worker, asleep, paused or polling. *)
FreeReturns == (pc[0] = "join") ~> (pc[0] = "freed")

(* The pool implements the parallel execution of a graph: what the caller     *)
(* sees of its many steps is that the pieces appear one at a time, in order.  *)
InCall == pc[0] \notin {"idle", "join", "freed"}

PG == INSTANCE ParallelGraph WITH
        running <- InCall,
        ec      <- IF InCall THEN "SUCCESS" ELSE ec,
        graph   <- cgraph,
        nth     <- MinOf(want, N)

ComputesGraphs == PG!Spec
=============================================================================
