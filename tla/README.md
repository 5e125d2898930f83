# Verification of the inference server

This directory holds TLA+ models, TLC configurations and TLAPS proofs about this
repository, a fork of llama.cpp: the HTTP server and its router
(`tools/server`), the key-value cache (`src/llama-kv-cache.*`) and the thread pool
that executes compute graphs (`ggml/src/ggml-cpu/ggml-cpu.c`). Line numbers refer
to the commit the models were written against.

## 1. The system

One process serves one model. HTTP threads parse requests into tasks, one main
thread schedules the tasks on slots and runs the inference, results travel back
through a result queue. In router mode another process starts and stops such
servers, one per model.

| Component | State | Operations | Hard behaviours |
|---|---|---|---|
| `server_queue` (server-queue.h/.cpp) | `queue_tasks`, `queue_tasks_deferred`, `running`, `sleeping`, `req_stop_sleeping`, one mutex, one condition variable | `post`, `defer`, `pop_deferred_task`, `wait_until_no_sleep`, `terminate`, `start_loop`, `cleanup_pending_task` | all threads wait on one condition variable; idle sleeping frees the model; a cancel edits queues that another thread is draining |
| `server_response`, `server_response_reader` | `waiting_task_ids`, `queue_results`; per reader `id_tasks`, `received_count`, `cancelled` | `add_waiting`, `send`, `recv_with_timeout`, `remove_waiting`, `post_tasks`, `next`, `wait_for_all`, `stop` | disconnects, errors that cancel sibling tasks, results of cancelled tasks |
| `server_context_impl` (server-context.cpp) | slots with `state`, `task`, `prompt.tokens`; the batch; `n_empty_consecutive` | `process_single_task`, `get_available_slot`, `launch_slots_with_parent_task`, `update_slots`, `release` | parents and children, partial failures, deferral, the kill switch; what a slot believes to be in the cache and what is there |
| prompt cache (server-task.cpp) | saved states and their tokens | `alloc`, `load`, `update` | a state that does not fit when it comes back |
| server process (server.cpp) | `is_terminating`, handlers | `signal_handler`, `clean_up` | a signal in every phase |
| HTTP routes | per request state | `create_response`, `handle_completions_impl` | preparation of tasks outside of any lock |
| Router (server-models.cpp) | `mapping`, status of every model, `stopping_models`, `is_reloading`, child processes | `load`, `unload`, `unload_lru`, `load_models`, `ensure_model_ready`, `proxy_request`, `unload_all` | two threads per child, a child that dies, hangs or is killed at any moment, reloads, evictions without the lock |
| KV cache (llama-kv-cells.h, llama-kv-cache.cpp) | cells with position, shift and sequences; index of positions; used cells | `find_slot`, `prepare`, `apply_ubatch`, `seq_rm`, `seq_cp`, `seq_keep`, `seq_add`, `seq_div`, K-shift | redundant state over long sequences of calls; a trial that is undone; failed batches |
| CPU thread pool (ggml-cpu.c) | `n_graph`, `n_barrier`, `n_barrier_passed`, `current_chunk`, `abort`, flags | `ggml_graph_compute`, `ggml_barrier`, kickoff, pause, resume, free | atomics without a lock, threads that are late, a number of threads that changes |
| Recurrent memory, batch splitting, graph allocator | cells; ubatches; free blocks | `split_equal`, `find_slot`, `alloc` | not modelled yet |

Interaction: an HTTP thread registers its ids in `waiting_task_ids`, posts to
`queue_tasks` and blocks in `recv_with_timeout`. The main loop pops a task,
`process_single_task` launches it on a slot or defers it; `update_slots` posts
`NEXT_RESPONSE` to its own queue while a slot is busy, decodes one batch in views
(`llama_decode`, which finds cells in the KV cache and computes a graph on the
thread pool), sends results and releases slots; a release pops one deferred task.
A reader that leaves posts CANCEL tasks at the front of the queue.

## 2. Modules

| Module | Models |
|---|---|
| `SleepQueue` | main loop, idle sleeping, wake-up, termination, at the level of one mutex and one condition variable |
| `SlotScheduler` | both task queues, the result queue, slots, parents and children, the main loop and the readers |
| `TaskLifecycle` | abstract specification: what a task may go through; `SlotScheduler` implements it |
| `SlotCache` | what the main thread does to prompts and cells: reuse, context shift, batch filling, views and retries, slot files, prompt cache |
| `Router` | models, child processes, their managing and stopping threads, the HTTP threads |
| `KvCells` | `llama_kv_cells`: every operation as an operator on a record |
| `KvCache` | `llama_kv_cache` and the part of `llama_context::decode` that uses it |
| `GraphPieces`, `ParallelGraph` | the pieces of a graph and their dependences; abstract specification: a graph is computed piece by piece, in order |
| `Threadpool` | the thread pool; it implements `ParallelGraph` |
| `SleepQueueProofs`, `SlotSchedulerProofs`, `SlotCacheProofs`, `RouterProofs`, `KvCacheProofs`, `KvBatchProofs`, `ThreadpoolProofs` | TLAPS theorems |
| `Loop` | the proof rule for a loop over the slots, instantiated by `SlotCacheProofs` |
| `MC...` | instances for TLC |

### SleepQueue

A worker is an HTTP thread with one request at a time and stands for its own
task. Every critical section of `mutex_tasks` is one action: the actions are
atomic because the code holds the mutex, and the steps between the sections only
touch data of one thread. `cv` is the set of threads blocked on
`condition_tasks` and not notified yet. `notify_one` removes any one of them
(`NotifyOne`), `notify_all` empties the set, and a removed thread re-evaluates its
predicate in an action of its own (`WakeTimedWait`, `WakeAsleep`,
`WakeWorker`); the C++ standard allows spurious wake-ups, hence `SpuriousWake`.
`mainpc` names the part of `start_loop` the main thread is in. Times are not
counted: `should_sleep` may hold whenever it is asked (the idle time is
configurable down to one second, and a handler may take longer than that), and
the one-second wait may expire at any time. `loaded` is false from
`callback_sleeping_state(true)`, or from `clean_up`, to the next
`callback_sleeping_state(false)`. A slot is abstracted to the set `busy`.

### SlotScheduler

The main thread alone touches the slots, so its steps are cut only where another
thread can interfere: at the critical sections of `mutex_tasks` and
`mutex_results`. Sending a result and releasing the slot are two steps, in the
order of the code. `cursor` is the loop variable of the slot loops of
`update_slots`, and `mainpc` the loop the thread is in. A parent task carries its
children, as in the code, until it is launched on as many slots as it has
family members. A reader goes from `posting` (its ids registered, its tasks not
queued) through `receiving` to `finishing` or, on an error or a disconnect, to
`stopping`, `purging` and `cancelling`, the critical sections of `stop()`.

Abstracted: the tokens (a prompt takes one or two batches, a generation ends at
any token), the choice among idle slots (any of them: similarity and least
recent use are heuristics), the contents of the results (`partial`, `final`,
`error`), prompt progress reports (further partial results), SAVE, RESTORE and
ERASE (one kind, `slot_action`; without a multimodal projector), GET_LORA and
SET_LORA (as METRICS: answered at once), lanes and speculative decoding (other
ways to produce the next token). One batch is decoded by one successful or
failing `llama_decode`: its division in views and the retries are in
`SlotCache`.

Faults are named by the constant `Faults`: `launch` (invalid LoRA, tokens or
sampler), `prompt` (error or empty prompt), `shift` (full context of a shared
prompt), `decode` (fatal decode error), `leave` (disconnect). A run enables those
its question is about.

### TaskLifecycle

A task is new, pending, running, gone, in that order, with the short cut from
pending to gone, and a parent starts only together with all its children.
`SlotScheduler!TaskLifecycleSpec` instantiates it: a task is running when a slot
holds it, pending when a queue or the hand of the main thread does. TLC checks the
refinement on the instances of `slots_faults`, and `TaskLifecycleHolds` proves it.

### SlotCache

Everything here happens in the main thread, so there are no interleavings: what
is hard is the order of long sequences of steps and the retries. A state of the
model is a state between two handlers of `process_single_task`, or between two
views of one batch, and the actions are the handlers (`Launch`, `Cancel`,
`SlotSave`, `SlotErase`, `SlotRestore`, `SlotRestoreFails`), `UpdateSlots` up to
the batch, and one of `DecodeOk`, `DecodeRetry`, `DecodeExceeded`, `DecodeError`
for every view. The functions of `server_slot` and `server_context_impl` take the
whole state as a record and return the set of its possible successors; `Each`
takes such a function through the slots in their order, as the loops of the code do. A cell holds a
position, a token and the slots that own it; cells are kept canonical (lowest
free cells first), because their numbers matter to nothing here. `KvCache` has
the cells as they are.

A configuration (size of the context and of the batch, context shift, prompt
cache and its limit, which requests arrive, which faults occur) is chosen in the
initial state. The LRU choice is any idle slot. `n_swa` is 0, `seq_rm` of a part of
a sequence succeeds, batching is continuous, no begin-of-text token is added.
`n_discard` is at most the number of tokens after the kept ones
(`DiscardAssumption`): a greater one would cut tokens that are kept from
`prompt.tokens` (5427) but not from the cache. An empty `server_slot::task` is no task
(`NoTaskAssumption`). Left out: checkpoints, chunk reuse, LoRA, multimodal chunks, lanes and speculative
decoding.

### Router

An action is one critical section of `mutex` with the unlocked code up to the
next one. `cv` is notified after every change its waiters look at, so a wait on it
is a guard. `cv_stop` is not: a stopping thread also looks at the life of a
process, which changes without a notification; `woken` says that it has one to
act on. A child is loading, up, asleep, then closing (its output is closed, the
process may still be there), a zombie, and reaped by `waitpid` in whichever of
the two threads looks first. `proc[m].out` is what the log thread has not read
yet. An HTTP thread makes one call: a request that loads on its own, a route that
needs a running model, load, unload, or a reload with any new list of sources.
`bare` are the entries that `mapping[name]` creates by accident. `router` says
whether the process lives: a failed assertion, a null pointer or a kill of
process 0 ends it.

Not modelled: `select_replica`, presets and aliases beyond what makes
`add_model()` throw, a child that closes its output and lives on.

### KvCells and KvCache

`KvCells` translates `llama_kv_cells` operation by operation, on a record `cells`
with the position, the pending shift and the sequences of every cell, and the two
structures kept beside them by hand: the set `used` and the index `seq_pos` (how
many cells of a sequence have a position). `KvCache` has the memory calls
(`seq_rm`, `seq_cp`, `seq_keep`, `seq_add`, `seq_div`, `clear`, state restore), and
`llama_decode` as a job: `prepare` finds slots for all ubatches in a trial and
undoes it, then the K-shift is applied, and each ubatch is applied and computed or
fails and is removed. `row` is what the K row of a cell was rotated for, which
the code has only implicitly, as bytes. `trial` is a history: the cells when the
decode began and after each placement of the trial, which the properties compare
with what is there later.

Callers of `seq_cp` guarantee that the destination is empty (the server removes it
first); `seq_cp` asserts nothing of the kind. One stream and one position per
token: several streams, M-RoPE positions, direct transfers, the pages for
multi-token prediction and the attention masks are left out.

### GraphPieces, ParallelGraph, Threadpool

A graph is a sequence of nodes: skipped (`nop`), computed by one piece per thread,
a matrix product with a preparation and chunks that a counter hands out, or the
start of a fused pair. `ParallelGraph` says what a caller may rely on: pieces
appear one by one, each after all pieces of the earlier nodes, and a call ends
with all of them, or aborted after a whole node. `Threadpool` is the build without
OpenMP: every access to an atomic is a step, a section under the pool's mutex is
one step, `pthread_cond_wait` is split in two and may return spuriously. Pause,
resume and free are called by the computing thread between graphs, as the server
does. Atomics are sequentially consistent here; the code asks for that where it
matters, and uses relaxed accesses where a mutex or a barrier orders them.
`n_graph` packs a 16-bit counter that wraps after 65536 graphs; the model does not
wrap.


## 3. What is checked

Passing runs:

| Run | Instance | Shows |
|---|---|---|
| `sleep_loop` | 3 workers, sleeping enabled | no slot is busy while the model is unloaded; the loop works on a loaded model; every request is in one place; `terminate` ends the loop in all its states; a request posted while the loop is awake is answered |
| `slots_faults` | 2 clients, 2 slots; families, embeddings, slot actions, metrics, every fault | no duplicated task, no answer after the last one, no leaked result, complete answers, no rest with a busy slot, refinement of `TaskLifecycle` |
| `slots_progress` | 2 clients with up to two prompts or a family each, 2 slots, no fault, streaming | a deferred task has a slot to wait for, no abort; under fairness every request completes |
| `router_serve` | 2 models, 1 place, 2 HTTP threads; children crash, hang, are killed; reload; shutdown | the limit holds, no process is forgotten or reported as finished too early, a reload meets no model that starts under it; unloads, waits, reloads and the shutdown end |
| `kv_ops` | 3 cells, 2 sequences, a sliding window, all memory calls, failing K-shifts, prepares and ubatches | index and used set agree with the cells, the slots meet the cells of the trial, every K row is rotated for its position, a failed `prepare` only forgets, a batch leaves no hole |
| `cache_slots` | 2 slots, 2 tokens, four configurations | what a slot believes to be in the cache is there; a request only fails for lack of cells when it fills the cache itself; without new requests every slot comes to rest |
| `pool_graphs` | 3 threads, 2 graphs in a row with any number of threads, aborts at every node, pause, resume, free | barriers separate the nodes, each piece is computed once, late workers never meet the reset of the next graph, no wake-up is lost, refinement of `ParallelGraph` |

Runs that show a disagreement between the code and what it says of itself:

| Run | Shows |
|---|---|
| `sleep_lostwake` | a worker can wait for the end of a sleep that nobody ends |
| `slots_zombie` | a cancelled task can survive in the deferred queue and run for nobody |
| `slots_abort` | an erroneous or empty prompt with several completions aborts the server |
| `router_kill` | an unload that follows the end of a loading child sends SIGKILL to process 0, the router's own process group |
| `cache_family` | a child copies its parent after the first part of a prompt that did not fit into one batch |

`PROJECT.json` quotes the lines and the sentences they contradict.

`CHECK_DEADLOCK` is off where the system may rest: in `SleepQueue` the process
ends, in `SlotScheduler` an idle server waits for requests, in `Router` the
process ends. `KvCache`, `SlotCache` and `Threadpool` are checked for deadlock.

The type invariants of `SleepQueue`, `SlotScheduler` and `Router` are proved, the one of `KvCache`
is proved and checked. The other `TypeOK`s are defined and hold; add them to the
INVARIANTS of a run to see it.

### Observed, without a run

These formulas are defined in the modules and TLC refutes them; each can be added
to the configuration of the run of its module.

- `SleepQueue`: `SignalEndsLoop` (a signal before `running = true` is lost),
  `PostedIsAnswered` (a task posted to a sleeping loop does not wake it),
  `LoadedWhilePreparing` (the model is freed under a handler that has passed
  `wait_until_no_sleep`).
- `SlotScheduler`: `DeferredHasBusySlot` with the fault `launch` or `leave`, or with
  `decode` when a request has two prompts: deferred tasks can be stranded with all
  slots idle, since only a release pops them, one each: the last release pops a task
  that then fails, or that its client takes back before it is launched.
  `NeverAborts` without the fault `prompt`, too: with `leave` alone, and with `shift` or
  `decode` alone when a request has two prompts with several completions each. A family
  that is in hand when its client cleans the queues is deferred unseen. When another
  task is cancelled between the `CANCEL`s of a child and of the parent, its slot is
  released, the family is popped and launched, and the `CANCEL` of the parent then
  releases the parent alone.
- `Router`: `FlagHasReloader`, `CrashIsNoticed` and `EvictionWaitEnds`; and, with two
  threads that reload at the same time, `ReloadIsQuiet` and `NeverAborts`: the first
  to finish clears `is_reloading` for both, a load starts a thread that the second
  one has not joined, and `GGML_ASSERT(!th.joinable())` (server-models.cpp:431)
  ends the router. One model, one request and two `GET /models?reload=1` suffice.
- `KvCache`: `ShiftAccumulates` (`pos_div` adds the old position minus the new one to
  the shift of a cell, the opposite sign of `pos_add`: the K-shift turns the row the
  wrong way), `FailedPrepareRestores` (cells purged by the sliding window
  in the trial are not brought back), `RowMatchesCell` when one token belongs to
  two sequences (`Batches <- Coupled`), and `ApplyKeepsDense`, the sentence of
  llama-kv-cache.cpp:3870 taken for every ubatch, with four cells: `s0` has the positions 0
  and 1 and shares the cell of 1 with `s1`, which does not have 0; the batch has two
  tokens of `s0` and two of `s1`, in two ubatches. The trial of the second one overwrites
  cells of `s0` that are masked by then, and so takes `s0` out of the shared cell,
  which is in no slot and is not put back: the first ubatch is computed with a
  hole at position 1. The run checks what is true: when the whole batch is
  placed, there is no hole that was not there before (`BatchKeepsDense`).
- `SlotCache`: `NoNeedlessExhaustion` when a slot restore fails (5264), an embedding
  is cancelled between 6372 and 6400, or the LoRA of a slot changes (4436): the
  cells of the slot remain while the slot believes to have none, so that no purge
  finds them. Also with `n_batch` = 1: a view of one token fails at 7005 before
  `try_clear_idle_slots` is reached.

### Bounds

- `SleepQueue`: three workers are one more than the hand-over problems of the
  condition variable need: one that is woken, one whose notification it takes, one
  that arrives. The queue cannot grow beyond one task per worker and one
  `NEXT_RESPONSE`, so nothing else is bounded.
- `SlotScheduler`: two slots are the fewest on which a family runs and can be too
  big. Each client makes one request: ids are never reused in the code, so a
  second request of a client is a request of another client. With `TwoPrompts` four
  tasks compete for two slots. `MaxPartials` bounds the unread partial results of a
  task, which the code does not; one is enough to see a partial result before and
  after others. `n_empty_consecutive` is bounded by the kill switch itself. A prompt
  takes at most two batches: a middle and an end.
- `Router`: two models on one place make every load an eviction; `m1` is loaded at
  the start. An HTTP thread makes one call: the threads are otherwise independent,
  and a second call of one is the call of another. Nothing else is bounded.
- `KvCache`: three cells hold two sequences that share a cell and leave a hole.
  `MaxPos` (3) is the last position a token may have, `MaxShift` (1) bounds the sum of
  the pending shifts of a cell; shifts go back by one (`Shifts`), divisions are by two
  (`Divisors`), and removals use the whole sequence, its end or its first cell
  (`Ranges`).
  A batch has two tokens of one sequence, in one or in two ubatches, and then one of the
  other, so that a trial undoes several placements. A window of two
  positions (`NSwa`) is smaller than a sequence.
- `SlotCache`: the context has 5 to 8 cells, so that two slots exhaust it (not in
  `Embedding` and `Family`, where both fit); `n_batch` is smaller than two prompts
  together. Prompts have up to three of two tokens, with a common first one.
- `Threadpool`: three threads are the main one, one that works and one that is
  late. Two graphs follow each other (`MaxGraphs`); the number of threads asked
  for goes beyond the pool. The chunk counter starts from `BaseChunks`, the number
  of chunks before it is adapted to the number of threads.

### Fairness

- `SleepQueue`, `SlotScheduler`: the main loop and the threads of accepted requests
  are scheduled by the operating system (weak fairness of their next step; the
  one-second timer is a step of the main loop). A generation that gets inference
  steps ends, because a token limit or a full context ends it (strong fairness of
  the step that ends it). Nothing is assumed of arrivals, disconnects, signals,
  spurious wake-ups or which thread a notification wakes.
- `Router`: the threads run, a loading child gets ready or ends, the operating
  system finishes a process that is dying. Nothing is assumed of a child that was
  told to exit: it may hang, which is what the timeout and the kill are for. The
  liveness properties except the cases in which the router is dead or a stopping
  thread has missed the end of its child (`Impaired`): there the code waits for ever,
  which `CrashIsNoticed` and `EvictionWaitEnds` show.
- `Threadpool`: every thread of the pool runs (weak fairness per thread); the caller
  need not call. `SlotCache`: the main loop runs, and `RequestsEnd` has the premise
  that no more requests arrive: prompts are filled in the order of the slots (the
  loop over the slots breaks at 6618 when the batch is full), so that a stream of
  requests for the first slots can starve a later one.

## 4. What is proved

`SleepQueueProofs`, for every set of workers, sleeping enabled or not:

- `TypeCorrect`: the type invariant.
- `NoSleepWhileBusyHolds`, `LoadedWhenWorkingHolds`: neither is inductive. The
  invariant `SleepInv` adds that a busy slot leaves a `NEXT_RESPONSE` in the queue
  when the loop is in its wait section (`BusyLeavesNextResponse`), and in which
  states of the loop the model may be unloaded (`UnloadedWhere`): only when it
  sleeps, when it has been told to stop, or after the end. The wait section
  checks the queue under the mutex before it sleeps, which gives the theorem.
- `RequestInOnePlaceHolds`: conservation of requests, with lemmas on the positions
  of a queue after an append and a removal from the front.

They assume that `Main` and `NextResponse` are not workers.

`SlotSchedulerProofs`, for any clients, requests, number of slots and, where none is
named, any faults:

- `SchedulerTypeCorrect`. The queues hold the tasks of readers, which have the child
  number 0, and control tasks, which have no id (`Typed`).
- `BusyKeepsRunningHolds`: only `update_slots` posts `NEXT_RESPONSE`, when it finds a
  busy slot; from there to the wait section the task stays in the queue, whatever a
  cancel removes from it, or all slots are idle (`Awake`).
- `SingleOwnerHolds`: the families of two queued tasks are disjoint (`Apart`); queues,
  hand and slots hold disjoint sets of ids, and only ids of readers that have posted
  (`Owned`). New tasks cannot collide with these because the tasks of a reader carry
  its name and their number (`Numbered`).
- `LastResultOnceHolds`: a task is in `Live` until its last result is sent, and a last
  result in the queue has neither a later result nor a live task (`LastResult`).
- `NoOrphanResultHolds`, `FinishedIsCompleteHolds`: a reader counts final results, and
  does not look whether each is of another task. `Counted` says that the ids it waits for are its own and
  that its count plus the ids that still have something to say never exceeds the
  number of its ids; when the count is full, nothing is outstanding.
- `TaskLifecycleHolds`: with the invariants above the status of every task is defined
  by one place (`StatusIs`), a step of the code moves the ids of one family
  (`StepMoves`), and a parent starts whole (`StartsWhole`): a queued task is the one
  its client made (`Origin`), so it carries all its children, and `ChildSlots` has as
  many slots as it has children (`LaunchAll`), because ranks number the free slots
  without a gap (`RankLemma`) and `EnoughSlots` was read in the same step.

- `ChildlessNeverAborts`: `Phases` says what the states of the slots are in each loop of
  `update_slots`: `DONE_PROMPT` slots are in the batch, generating ones too, and a loop
  over the prompts that has added nothing has passed only slots that are idle or wait
  for a parent. So an empty batch with a busy slot needs a slot in `WAIT_OTHER`, and
  `n_empty_consecutive` cannot pass 1. Without children there is none (`NoneWaiting`).
- `FamiliesNeverAbort`: with children, a slot in `WAIT_OTHER` has its parent on a slot
  that still works on its prompt (`Supported`), unless all of them are on the way out
  (`Excused`: the decode failed, or their launch). A parent in that state is released
  by its own `CANCEL` only. So the argument is about readers: one that got an error or
  cancels (`Quit`) has no family that waits or could still be launched (`Quits`). An
  error ends a live task of the reader, and the request is that one family
  (`SingleFamily`), whose other children have left `WAIT_OTHER` by then (`KidsWait`).
  Hypotheses: the faults `prompt` and `leave` do not occur, and a request with children
  is one prompt (`ChildrenAlone`). Each is needed: `slots_abort` shows the first, the
  other two are listed in section 3. The run `slots_progress` satisfies all of them.
- `DeferredHasBusySlotHolds`: only a release takes tasks out of the deferred queue, so a
  deferred task needs a busy slot, or a completion in `queue_tasks` or in hand that will
  be launched or deferred (`Fetched`): a release that leaves a task deferred has popped
  another one, and a task is deferred only when a slot is busy (`DeferBusy`). A reader
  that takes its tasks back would break this chain, but one that has quit has none
  left (`Withdrawn`). Hypotheses: the faults `launch` and `leave` do not occur; requests
  ask for completions, embeddings or metrics only (a popped slot action releases no
  slot); and no fault occurs at all or every request is one task.

The removal of tasks from a queue is written with ranks of positions (`Kept`), the
order-preserving enumeration of what `std::remove_if` leaves, because facts about a
selection by a recursive function would need an induction over data.
They assume that there is a slot, that requests and faults are of the declared kinds, and
that the id of a control task is not the id of a reader's task.

`RouterProofs`, for any models, threads, lists of calls and limit:

- `RouterTypeCorrect`, and from the invariant `RouterInv`:
- `UnloadedIsFinishedHolds`, `ProcessIsListedHolds`: the invariant ties the status of
  a model, the stage of its process, of its managing and of its stopping thread
  together (`Stages`), and says of a model that is not listed that it has none of
  them (`Unlisted`).
- `AtMostMaxModelsHolds`: `load` chooses a victim and waits for its end without the
  mutex, so that the room it saw may be gone. The theorem rests on the check that is
  repeated in the critical section of the spawn (`SpawnOk`): one model is added to
  fewer than `MaxModels` running ones.
- `ReloadIsQuietHolds`, `NeverAbortsHolds`: under the hypothesis `OneReloader` (at
  most one thread ever reloads), the models that a reload unloads or removes stay
  down until it is done, so that their threads are joined when the assertion is
  evaluated. Without the hypothesis both are false, as said above.

`KvCacheProofs`, for any number of cells, sequences, window, batches and shifts:

- `KvTypeCorrect`, `IndexHolds`, `NoCellLeaks`, from the invariant `KvInv`. `Good` says
  that index, used set and cells agree and that a cell with a position has an owner.
  Every operation of `llama_kv_cells` changes the index by exactly what it changes in
  the cell it is given (`Coherent`), a loop of coherent operations preserves `Good`
  (`ApplyGood`, which rests on `CountLemma`: changing one cell changes a count by at
  most one), every function of `llama_kv_cache` is such a loop, and the trial of
  `prepare` puts back what it saved. `JobOK` adds what a decode in progress has
  still to do.

In its second half, from the invariant `TrialInv`:

- `SlotsStillFit`: `prepare` finds the slots one after the other in a cache that it
  changes on the way, undoes all of it, and then the ubatches are applied one by
  one. What makes the slots fit again is that a cell returns, between two slots
  that contain it, to what the trial had made of it: undoing the slots from m on
  leaves every cell as it was before the first of them that contains it
  (`Returns`), and elsewhere a cell only loses sequences (`Forgets`). A slot takes
  empty cells and cells of one sequence (`Lone`), and such a cell has no sequence to lose but
  its last, after which it is empty and fits, too. In the phase "apply" a cell is
  then the same as in the trial if an applied slot contains it, and the one that
  the next slot with it expects otherwise (`AppliedOK`).
- `FailedPrepareForgets`: the same argument with all slots undone; without a window
  nothing is masked, so nothing is overwritten and nothing is purged.

`KvBatchProofs`, for the same:

- `RowsMatchCells`: a memory call does to the shift of a cell what it does to its
  position (`Carries`), a trial placement loses the shift of the cells of its slot
  and of nothing else, and the cells that are computed or left over after a failed
  ubatch are those of its slot, found again by sequence and position. The
  theorem has the hypothesis `SingleSequence`: every token belongs to one sequence, as
  in all batches of the server, which adds tokens with `{ slot.id }`. Without it the
  property is false, as said above, because llama_decode removes the tokens of a
  failed ubatch from the first of their sequences only.

And from the invariant `DenseInv`:

- `BatchStaysDense`: what a sequence has when the decode begins and what the ubatches
  bring is its span. The position of a token is its rank among the tokens of its
  sequence, counted from the largest position in the cells, and ranks have no gap
  (`RanksOnto`, which also gives every token a cell of the slot); so the span has only the
  holes that the cells had (`BatchSpan`). A placement takes positions from the bottom
  of a span only (`PlacedTop`): what it overwrites it purges below, and the new tokens are
  above. The trial therefore ends at the top of the span, and so does, by
  `TrialInv`, the last real placement. Between two real placements nothing of the kind
  holds (see `ApplyKeepsDense` above).

They assume what the named ASSUMEs of the modules say: numbers are numbers, the
sets are finite.

`SlotCacheProofs`, for any number of slots, tokens, sizes of context and batch and
sequences of requests, from the invariant `CacheInv`:

- `KvMatchesPromptHolds`: while a batch is decoded, what a slot believes is in the
  cache or waits in the batch. `SlotSound` says this of a slot, and that a slot that is
  done with its prompt has no cells beyond its tokens (`Ends`); `RowOK` says of each
  row that waits that its slot is busy and counts the token, that no cell has the
  position yet, and that no other row brings it; `EntryOK` says that what was saved has each
  token once. A change of one slot leaves the others alone because no cell has two
  owners (`Same`, `OneSlot`), and a slot that loses tokens or its request has no row left
  (`NoRowsOf`, and in a view `i_batch`, the last row of the slot). `PlaceLemma` gives every row of a
  view a cell of its own, `ShiftCells` moves cells and tokens alike, `RestoredLemma`
  brings back what `SavedEntry` saved. The theorem has the hypothesis `Childless`: no
  request has child tasks. Faults, cancellation, context shifts, both caches and slot files are
  allowed. With children it is false, as `cache_family` shows. There is a
  second way to break it, which no run has: with `ctx_shift` TRUE, five cells, a parent `<<a, b>>`
  with one child and a request `<<a, b, b, b>>` with `n_discard` 1, TLC finds that the parent
  ends before its child, the request takes its slot and reuses the cells that both still own,
  and its context shift moves them. The guard (5389, "context shift cannot be used for shared
  prompt") asks the task, which is no longer that of a parent; `seq_add` moves every
  cell of the sequence, whoever else owns it.
- `NoNeedlessExhaustionHolds`, with any children, from a second invariant, `RoomInv`: a
  view is halved only when no idle slot has tokens (`Halved`), and an idle slot without
  tokens has no cells (`Roomy`), so that a single token without a cell means that running
  requests own all of them. Of children `RoomInv` says what remains true when
  `KvMatchesPrompt` does not: cells may have several owners and hold any tokens, but
  every row that waits is that of a token of a busy slot (`RoomyRow`), so that a slot that
  loses its tokens has no row left, and a placement changes empty cells only. A slot
  without tokens may have cells only while it is an embedding that waits for a batch
  (`Waiting`). A context shift, which could leave such a slot otherwise, is made by slots
  that are neither parent nor child (`Plain`), and those have no cells beyond their tokens.
  The hypothesis `Tidy` excludes unreadable slot files and the cancellation of embeddings,
  and batches can be halved (`n_batch` > 1); without either it is false, as said above.

`update_slots` and the launch of a task loop over the slots. `Each` is defined by a
recursive function; `Loop!LoopRule` says that what every turn preserves holds after the
last one. `Loop` has the turn and the loop invariant as operator parameters, and
`SlotCacheProofs` instantiates it for each loop (`SaveGood`, `ShiftGood`, `AddGood`,
`FillGood`, `ViewGood`, `FailGood`): the least turn after which the invariant fails does not
exist, which is induction from the well-founded order of the numbers. What the loop is
about and does not change, such as the parent whose children it visits, is a
parameter of the turn (`RoomChildLoop`).

`ThreadpoolProofs`, for any number of threads, graphs, chunks and calls:

- `PoolTypeCorrect`, and from the invariant `PoolInv`:
- `QuietResetHolds`: a worker that has not yet left the last barrier of a graph is
  `Released` and has no more to do than to return; no other thread than those of the
  crew (`t < n_threads`) has claimed the graph (`Claims`).
- `InputsReadyHolds`, `PieceOnceHolds`: between two barriers all threads of the crew are
  in one `Section`: they skip from node k to the same node m and share it, prepare or
  compute its matrix product, or leave. Each section says where a thread may be and
  equates `out` with what the threads have done (`Sharing`, `Preparing`, `Multiplying`,
  `Leaving`). `BarOK` says that `n_barrier` is the number of threads that have arrived
  and that one of them opens the barrier when the whole crew has; a section is left
  only then (`NextSection`). The abort mark is set between two barriers and names the
  node after the section, so that all threads of the next section stop at it, or none.
- `ComputesGraphsHolds`: every step that writes a piece is a step of `ParallelGraph`, the
  return of thread 0 is its `Finish` or `Abandon`, and all others are stutters.

They assume that there is a thread and a chunk, and that the node after one that starts a
fused pair exists and is computed by pieces per thread (`GraphsAssumption`), as
`ggml_cpu_try_fuse_ops` does: it fuses an `RMS_NORM` with the `MUL` after it.

Only model-checked: the liveness properties (`AwakeAnswers`, `TerminateEndsLoop` and
the others that hold under fairness), which need ENABLED. Every invariant and every
action property that a passing run checks is a theorem.

## 5. Not modelled, and the plan

`PROJECT.json` lists every component with its status and every hazard with the
properties that cover it, or with the reason why none does. Left out for good:
numerical kernels and backends, tokenizers, chat templates, sampling, the HTTP
transport and the web UI, because they hold no interacting state or no discrete
state worth a model. Most of the lines of this repository are such code.

Next, in this order:

1. `UbatchSplit` (llama-batch.cpp): `split_simple`, `split_equal`, `split_seq` give each
   token once, positions of a sequence in order.
2. `RecurrentCells` (llama-memory-recurrent.cpp): the tails of the sequences under
   `find_slot` with its swaps.
3. `GraphAlloc` (ggml-alloc.c): free blocks never overlap and are merged.
4. Speculative decoding and MTP in server-context.cpp: drafts that are rejected must
   leave the cells as `SlotCache!KvMatchesPrompt` wants them.
