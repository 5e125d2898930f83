--------------------------- MODULE SlotScheduler ---------------------------
(***************************************************************************)
(* From a request to its results: the readers of the HTTP threads          *)
(* (server_response_reader), the two task queues (server_queue), the       *)
(* result queue (server_response) and the slots that server_context_impl   *)
(* schedules tasks on (tools/server/server-queue.cpp, server-context.cpp). *)
(*                                                                         *)
(* The main thread alternates between process_single_task() for every task *)
(* in queue_tasks and update_slots(); only it touches the slots, so what   *)
(* it does between two critical sections of mutex_tasks or mutex_results   *)
(* is one action.  Sending a result and releasing the slot are different   *)
(* critical sections, hence different actions: a reader may take the       *)
(* result, finish or leave between them.                                   *)
(*                                                                         *)
(* A prompt, a token or a text is not represented: whether a prompt is     *)
(* complete, a generation stops or an error occurs is a nondeterministic   *)
(* choice.  Sleeping and termination are the subject of SleepQueue, the    *)
(* prompts, the cells and the split of a batch into views of SlotCache.    *)
(***************************************************************************)
EXTENDS Naturals, Sequences, FiniteSets

CONSTANTS
    Clients,      \* HTTP requests, each with its own reader
    NSlots,       \* params_base.n_parallel
    NoSlot,       \* id_slot = -1
    NoTask,       \* an empty server_slot::task, no task in hand
    NoId,         \* the id of a task nobody waits for
    Templates,    \* the task lists a client may post, as sequences of records
    Faults,       \* which disturbances occur, a subset of FaultKinds
    MaxPartials   \* bound: partial results of one task waiting to be read

Slots == 0 .. NSlots - 1

\* launch: launch_slot_with_task() fails; prompt: an error or an empty prompt
\* ends the task in update_slots(); shift: the context of a parent or child is
\* full; decode: llama_decode() fails; leave: the client disconnects.
FaultKinds == {"launch", "prompt", "shift", "decode", "leave"}

ASSUME NSlotsAssumption == NSlots \in Nat \ {0}
ASSUME FaultsAssumption == Faults \subseteq FaultKinds
ASSUME NoIdAssumption == NoId \notin Clients \X Nat \X Nat

\* What a template fixes of a task: its type, the slot it asks for, the slot
\* its slot_action names and the number of its child tasks (n_cmpl - 1, which
\* params_from_json_cmpl() keeps below the number of slots).
CompletionTypes == {"completion", "embedding"}
ReaderTypes     == CompletionTypes \cup {"slot_action", "metrics"}
Template == [type : ReaderTypes, id_slot : Slots \cup {NoSlot},
             action_slot : Slots \cup {NoSlot}, kids : 0 .. NSlots - 1]

ASSUME TemplatesAssumption == Templates \subseteq Seq(Template)

VARIABLES
    queue_tasks,            \* server_queue::queue_tasks
    queue_tasks_deferred,   \* server_queue::queue_tasks_deferred
    waiting_task_ids,       \* server_response::waiting_task_ids
    queue_results,          \* server_response::queue_results
    slot_state,             \* server_slot::state, by slot
    slot_task,              \* server_slot::task, by slot
    n_empty_consecutive,    \* consecutive update_slots() without a token
    mainpc,                 \* where the main thread is
    cur,                    \* the task process_single_task() was given
    cursor,                 \* the loop variable of update_slots()
    in_batch,               \* slots with tokens in the batch of this update
    rpc,                    \* where each reader is
    tasks,                  \* the tasks each reader created
    received_count          \* server_response_reader::received_count

queueVars  == <<queue_tasks, queue_tasks_deferred>>
resultVars == <<waiting_task_ids, queue_results>>
slotVars   == <<slot_state, slot_task>>
loopVars   == <<n_empty_consecutive, cur, cursor, in_batch>>
readerVars == <<rpc, tasks, received_count>>
vars == <<queueVars, resultVars, slotVars, loopVars, mainpc, readerVars>>

-----------------------------------------------------------------------------
(***************************************************************************)
(* Tasks.  The i-th task of client c has the id <<c, i, 0>>, its k-th      *)
(* child <<c, i, k>>.                                                      *)
(***************************************************************************)
MakeTask(c, i, t) ==
    [id |-> <<c, i, 0>>, type |-> t.type, id_slot |-> t.id_slot,
     action_slot |-> t.action_slot, kids |-> t.kids, id_target |-> NoId]

\* add_child(): a copy of the parent that cannot ask for a slot.
ChildTask(t, k) == [t EXCEPT !.id = <<t.id[1], t.id[2], k>>,
                             !.id_slot = NoSlot, !.kids = 0]

CancelTask(id) ==
    [id |-> NoId, type |-> "cancel", id_slot |-> NoSlot, action_slot |-> NoSlot,
     kids |-> 0, id_target |-> id]

NextResponse ==
    [id |-> NoId, type |-> "next_response", id_slot |-> NoSlot, action_slot |-> NoSlot,
     kids |-> 0, id_target |-> NoId]

IsParent(t) == t.kids > 0
IsChild(t)  == t.id[3] # 0
Parent(id)  == <<id[1], id[2], 0>>
Family(t)   == {<<t.id[1], t.id[2], k>> : k \in 0 .. t.kids}

\* server_task::get_list_id() of the tasks of a reader.
IdsOf(s) == UNION {Family(s[i]) : i \in DOMAIN s}

Idle(s)         == slot_state[s] = "idle"
IsProcessing(s) == ~Idle(s)
IdleSlots       == {s \in Slots : Idle(s)}

(***************************************************************************)
(* server_queue and server_response.                                       *)
(***************************************************************************)
\* The k-th smallest element of a set of numbers.
RankIn(S, x) == Cardinality({y \in S : y <= x})
Nth(S, k)    == CHOOSE x \in S : RankIn(S, x) = k

\* What remains, in its order, when only some positions are kept.
Kept(q, keep)   == [k \in 1 .. Cardinality(keep) |-> q[Nth(keep, k)]]
Without(q, ids) == Kept(q, {i \in DOMAIN q : q[i].id \notin ids})

\* (Mutants.)  The popped task stays deferred; only a task that asks for the
\* released slot is popped.
PopDeferredCopies(s) ==
    IF queue_tasks_deferred = <<>>
    THEN UNCHANGED queueVars
    ELSE /\ queue_tasks' = <<Head(queue_tasks_deferred)>> \o queue_tasks
         /\ UNCHANGED queue_tasks_deferred
PopDeferredExact(s) ==
    LET asks == {i \in DOMAIN queue_tasks_deferred : queue_tasks_deferred[i].id_slot = s}
    IN IF asks = {}
       THEN UNCHANGED queueVars
       ELSE \E i \in asks :
              /\ queue_tasks' = <<queue_tasks_deferred[i]>> \o queue_tasks
              /\ queue_tasks_deferred' = Without(queue_tasks_deferred,
                                                {queue_tasks_deferred[i].id})

\* pop_deferred_task(id_slot): the first deferred task that asks for the slot,
\* else the first one, moves to the front of queue_tasks.
PopDeferred(s) ==
    IF queue_tasks_deferred = <<>>
    THEN UNCHANGED queueVars
    ELSE LET d     == queue_tasks_deferred
             asks  == {i \in DOMAIN d : d[i].id_slot = s}
             first == IF asks = {} THEN 1
                      ELSE CHOOSE i \in asks : \A j \in asks : i <= j
         IN /\ queue_tasks' = <<d[first]>> \o queue_tasks
            /\ queue_tasks_deferred' =
                 SubSeq(d, 1, first - 1) \o SubSeq(d, first + 1, Len(d))

\* send(): a result nobody waits for is dropped.
Send(id, kind) ==
    /\ queue_results' = IF id \in waiting_task_ids
                          THEN Append(queue_results, [id |-> id, kind |-> kind])
                          ELSE queue_results
    /\ UNCHANGED waiting_task_ids

\* (Mutant.)  The on-release callback is not wired.
ReleaseSilently(s) ==
    /\ slot_state' = [slot_state EXCEPT ![s] = "idle"]
    /\ slot_task'  = [slot_task EXCEPT ![s] = NoTask]
    /\ UNCHANGED queueVars

\* server_slot::release() of a processing slot: it becomes idle, its task is
\* reset and the on-release callback pops a deferred task.
Release(s) ==
    /\ slot_state' = [slot_state EXCEPT ![s] = "idle"]
    /\ slot_task'  = [slot_task EXCEPT ![s] = NoTask]
    /\ PopDeferred(s)

Init ==
    /\ queue_tasks = <<>>
    /\ queue_tasks_deferred = <<>>
    /\ waiting_task_ids = {}
    /\ queue_results = <<>>
    /\ slot_state = [s \in Slots |-> "idle"]
    /\ slot_task = [s \in Slots |-> NoTask]
    /\ n_empty_consecutive = 0
    /\ mainpc = "drain"
    /\ cur = NoTask
    /\ cursor = 0
    /\ in_batch = {}
    /\ rpc = [c \in Clients |-> "idle"]
    /\ tasks = [c \in Clients |-> <<>>]
    /\ received_count = [c \in Clients |-> 0]

-----------------------------------------------------------------------------
(***************************************************************************)
(* Main thread: draining queue_tasks, process_single_task().               *)
(***************************************************************************)
\* (Mutant.)  The task is copied out of the queue, not moved.
PopTaskCopies ==
    /\ mainpc = "drain"
    /\ queue_tasks # <<>>
    /\ cur' = Head(queue_tasks)
    /\ mainpc' = "process"
    /\ UNCHANGED <<queueVars, resultVars, slotVars, n_empty_consecutive,
                   cursor, in_batch, readerVars>>

PopTask ==
    /\ mainpc = "drain"
    /\ queue_tasks # <<>>
    /\ cur' = Head(queue_tasks)
    /\ queue_tasks' = Tail(queue_tasks)
    /\ mainpc' = "process"
    /\ UNCHANGED <<queue_tasks_deferred, resultVars, slotVars, n_empty_consecutive,
                   cursor, in_batch, readerVars>>

DrainDone ==
    /\ mainpc = "drain"
    /\ queue_tasks = <<>>
    /\ mainpc' = "update"
    /\ UNCHANGED <<queueVars, resultVars, slotVars, loopVars, readerVars>>

\* The wait section of start_loop(): left when a task is queued.
WaitForTasks ==
    /\ mainpc = "wait"
    /\ queue_tasks # <<>>
    /\ mainpc' = "drain"
    /\ UNCHANGED <<queueVars, resultVars, slotVars, loopVars, readerVars>>

\* The task in hand is done with: back to the drain loop.
BackToDrain ==
    /\ mainpc' = "drain"
    /\ cur' = NoTask
    /\ UNCHANGED <<cursor, in_batch>>

IsCompletion == mainpc = "process" /\ cur.type \in CompletionTypes

\* get_slot_by_id() wraps an id around, get_available_slot() picks an idle slot
\* (by prompt similarity, else the least recently used one); NoSlot if none.
Candidates ==
    IF cur.id_slot # NoSlot
    THEN {cur.id_slot % NSlots} \cap IdleSlots
    ELSE IdleSlots

\* get_free_slots(): the first idle slots other than the parent's; the k-th of
\* them is given to the k-th child.
Rank(s, x)       == RankIn(IdleSlots \ {s}, x)
ChildSlots(s, n) == {x \in IdleSlots \ {s} : Rank(s, x) <= n}
EnoughSlots      == Cardinality(IdleSlots) > cur.kids

Defer(t) ==
    /\ queue_tasks_deferred' = Append(queue_tasks_deferred, t)
    /\ UNCHANGED queue_tasks

\* No slot, the requested slot is busy, or too few free slots for the children.
DeferCompletion ==
    /\ IsCompletion
    /\ Candidates = {} \/ ~EnoughSlots
    /\ Defer(cur)
    /\ BackToDrain
    /\ UNCHANGED <<resultVars, slotVars, n_empty_consecutive, readerVars>>

\* The first n children of cur enter WAIT_OTHER.
LaunchChildren(s, n, parentState, parentTask) ==
    /\ slot_state' = [x \in Slots |->
           CASE x = s -> parentState
             [] x \in ChildSlots(s, n) -> "wait_other"
             [] OTHER -> slot_state[x]]
    /\ slot_task' = [x \in Slots |->
           CASE x = s -> parentTask
             [] x \in ChildSlots(s, n) -> ChildTask(cur, Rank(s, x))
             [] OTHER -> slot_task[x]]

\* (Mutant.)  A parent, too, waits for another slot.
LaunchParentWaits(s) ==
    /\ IsCompletion
    /\ s \in Candidates
    /\ EnoughSlots
    /\ LaunchChildren(s, cur.kids, IF IsParent(cur) THEN "wait_other" ELSE "started", cur)
    /\ n_empty_consecutive' = 0
    /\ BackToDrain
    /\ UNCHANGED <<queueVars, resultVars, readerVars>>

\* launch_slots_with_parent_task() or launch_slot_with_task() succeeds.
Launch(s) ==
    /\ IsCompletion
    /\ s \in Candidates
    /\ EnoughSlots
    /\ LaunchChildren(s, cur.kids, "started", cur)
    /\ n_empty_consecutive' = 0
    /\ BackToDrain
    /\ UNCHANGED <<queueVars, resultVars, readerVars>>

\* The launch of child n + 1 (or of cur itself after all n = cur.kids children)
\* fails: an error for that task, then the launched children are released.
LaunchFails(s, n) ==
    /\ "launch" \in Faults
    /\ IsCompletion
    /\ s \in Candidates
    /\ EnoughSlots
    /\ n <= cur.kids
    /\ LaunchChildren(s, n, "idle", NoTask)
    /\ Send(IF n < cur.kids THEN ChildTask(cur, n + 1).id ELSE cur.id, "error")
    /\ n_empty_consecutive' = IF n > 0 THEN 0 ELSE n_empty_consecutive
    /\ mainpc' = "unlaunch"
    /\ UNCHANGED <<queueVars, cur, cursor, in_batch, readerVars>>

LaunchedFamily ==
    {s \in Slots : IsProcessing(s) /\ slot_task[s].id \in Family(cur)}

\* release_slots(), one slot after the other.
Unlaunch(s) ==
    /\ mainpc = "unlaunch"
    /\ s \in LaunchedFamily
    /\ \A x \in LaunchedFamily : s <= x
    /\ Release(s)
    /\ UNCHANGED <<resultVars, loopVars, mainpc, readerVars>>

UnlaunchDone ==
    /\ mainpc = "unlaunch"
    /\ LaunchedFamily = {}
    /\ BackToDrain
    /\ UNCHANGED <<queueVars, resultVars, slotVars, n_empty_consecutive, readerVars>>

\* SERVER_TASK_TYPE_CANCEL: release the slot that runs the target, if any.
ProcessCancel ==
    /\ mainpc = "process"
    /\ cur.type = "cancel"
    /\ LET hit == {s \in Slots : IsProcessing(s) /\ slot_task[s].id = cur.id_target}
       IN IF hit = {}
          THEN UNCHANGED <<queueVars, slotVars>>
          ELSE Release(CHOOSE s \in hit : \A x \in hit : s <= x)
    /\ BackToDrain
    /\ UNCHANGED <<resultVars, n_empty_consecutive, readerVars>>

ProcessNextResponse ==
    /\ mainpc = "process"
    /\ cur.type = "next_response"
    /\ BackToDrain
    /\ UNCHANGED <<queueVars, resultVars, slotVars, n_empty_consecutive, readerVars>>

\* METRICS, GET_LORA, SET_LORA: answered at once.
ProcessMetrics ==
    /\ mainpc = "process"
    /\ cur.type = "metrics"
    /\ Send(cur.id, "final")
    /\ BackToDrain
    /\ UNCHANGED <<queueVars, slotVars, n_empty_consecutive, readerVars>>

\* SLOT_SAVE, SLOT_RESTORE, SLOT_ERASE on a busy slot wait for it, on an idle
\* slot they succeed or fail; no slot changes its state, none is released.  (With
\* a multimodal projector they fail at once; none is loaded here.)
DeferSlotAction ==
    /\ mainpc = "process"
    /\ cur.type = "slot_action"
    /\ IsProcessing(cur.action_slot % NSlots)
    /\ Defer(cur)
    /\ BackToDrain
    /\ UNCHANGED <<resultVars, slotVars, n_empty_consecutive, readerVars>>

ProcessSlotAction ==
    /\ mainpc = "process"
    /\ cur.type = "slot_action"
    /\ Idle(cur.action_slot % NSlots)
    /\ \E kind \in {"final", "error"} : Send(cur.id, kind)
    /\ BackToDrain
    /\ UNCHANGED <<queueVars, slotVars, n_empty_consecutive, readerVars>>

ProcessStep ==
    \/ PopTask \/ DrainDone \/ WaitForTasks
    \/ DeferCompletion
    \/ \E s \in Slots : Launch(s)
    \/ \E s \in Slots, n \in 0 .. NSlots - 1 : LaunchFails(s, n)
    \/ \E s \in Slots : Unlaunch(s)
    \/ UnlaunchDone
    \/ ProcessCancel \/ ProcessNextResponse \/ ProcessMetrics
    \/ DeferSlotAction \/ ProcessSlotAction

-----------------------------------------------------------------------------
(***************************************************************************)
(* Main thread: update_slots().  Each of its loops over the slots visits   *)
(* them in order; cursor is the next slot.  A loop that ends a task sends  *)
(* the result, then releases the slot in the pc of the same name with      *)
(* "_release".                                                             *)
(***************************************************************************)
UpdateIdle ==
    /\ mainpc = "update"
    /\ IdleSlots = Slots
    /\ mainpc' = "wait"
    /\ UNCHANGED <<queueVars, resultVars, slotVars, loopVars, readerVars>>

\* (Mutant.)  NEXT_RESPONSE is not posted.
UpdateBeginSilent ==
    /\ mainpc = "update"
    /\ IdleSlots # Slots
    /\ mainpc' = "shift"
    /\ UNCHANGED <<queueVars, resultVars, slotVars, loopVars, readerVars>>

UpdateBegin ==
    /\ mainpc = "update"
    /\ IdleSlots # Slots
    /\ queue_tasks' = Append(queue_tasks, NextResponse)
    /\ mainpc' = "shift"
    /\ UNCHANGED <<queue_tasks_deferred, resultVars, slotVars, loopVars, readerVars>>

\* Next slot at or after the cursor in one of the given states.
AtOrAfterCursor(states) == {s \in Slots : s >= cursor /\ slot_state[s] \in states}
IsNext(s, S)            == s \in S /\ \A x \in S : s <= x

\* The result of the task of slot s is sent; the release comes next.
SendAndStop(s, kind, pc) ==
    /\ Send(slot_task[s].id, kind)
    /\ cursor' = s
    /\ mainpc' = pc
    /\ UNCHANGED <<queueVars, slotVars, n_empty_consecutive, cur, in_batch, readerVars>>

\* A full context cannot be shifted for a prompt shared with other slots.
ShiftError(s) ==
    /\ "shift" \in Faults
    /\ mainpc = "shift"
    /\ s \in AtOrAfterCursor({"generating"})
    /\ IsParent(slot_task[s]) \/ IsChild(slot_task[s])
    /\ SendAndStop(s, "error", "shift_release")

\* The sampled tokens of the generating slots start the batch.
ShiftDone ==
    /\ mainpc = "shift"
    /\ in_batch' = {s \in Slots : slot_state[s] = "generating"}
    /\ cursor' = 0
    /\ mainpc' = "prompt"
    /\ UNCHANGED <<queueVars, resultVars, slotVars, n_empty_consecutive, cur, readerVars>>

PromptSlots == AtOrAfterCursor({"started", "processing_prompt"})

\* The slot cannot be batched with the ones in the batch, or the batch is full.
PromptSkip(s) ==
    /\ mainpc = "prompt"
    /\ IsNext(s, PromptSlots)
    /\ in_batch # {}
    /\ cursor' = s + 1
    /\ UNCHANGED <<queueVars, resultVars, slotVars, n_empty_consecutive, cur, in_batch,
                   mainpc, readerVars>>

\* A part of the prompt is added to the batch, at most the second time its end
\* (the bound on prompt steps); the prompt of an embedding is never split.
PromptAdd(s) ==
    /\ mainpc = "prompt"
    /\ IsNext(s, PromptSlots)
    /\ \E st \in {"processing_prompt", "done_prompt"} :
         /\ st = "processing_prompt" =>
              slot_state[s] = "started" /\ slot_task[s].type = "completion"
         /\ slot_state' = [slot_state EXCEPT ![s] = st]
    /\ in_batch' = in_batch \cup {s}
    /\ cursor' = s + 1
    /\ UNCHANGED <<queueVars, resultVars, slot_task, n_empty_consecutive, cur, mainpc,
                   readerVars>>

\* An error ends the task, or its prompt is empty and so is the response.
PromptEnds(s) ==
    /\ "prompt" \in Faults
    /\ mainpc = "prompt"
    /\ IsNext(s, PromptSlots)
    /\ slot_state[s] = "started"
    /\ \E kind \in {"error", "final"} : SendAndStop(s, kind, "prompt_release")

\* GGML_ABORT after more than three consecutive empty batches.
PromptDone ==
    /\ mainpc = "prompt"
    /\ PromptSlots = {}
    /\ cursor' = 0
    /\ IF in_batch = {}
         THEN /\ n_empty_consecutive' = n_empty_consecutive + 1
              /\ mainpc' = IF n_empty_consecutive' > 3 THEN "aborted" ELSE "wait"
         ELSE /\ n_empty_consecutive' = 0
              /\ mainpc' = "decode"
    /\ UNCHANGED <<queueVars, resultVars, slotVars, cur, in_batch, readerVars>>

\* After a successful llama_decode() the children of a parent whose prompt is
\* done take over its state.
Activated == {x \in Slots :
    /\ slot_state[x] = "wait_other"
    /\ \E s \in Slots : /\ slot_state[s] = "done_prompt"
                        /\ IsParent(slot_task[s])
                        /\ slot_task[s].id = Parent(slot_task[x].id)}

DecodeOk ==
    /\ mainpc = "decode"
    /\ slot_state' = [x \in Slots |-> IF x \in Activated THEN "done_prompt"
                                                         ELSE slot_state[x]]
    /\ in_batch' = in_batch \cup Activated
    /\ mainpc' = "sample"
    /\ UNCHANGED <<queueVars, resultVars, slot_task, n_empty_consecutive, cur, cursor,
                   readerVars>>

\* A fatal decode error ends the tasks of all busy slots, in order.
DecodeFails ==
    /\ "decode" \in Faults
    /\ mainpc = "decode"
    /\ mainpc' = "fail"
    /\ UNCHANGED <<queueVars, resultVars, slotVars, loopVars, readerVars>>

BusySlots == {s \in Slots : s >= cursor /\ IsProcessing(s)}

FailSlot(s) ==
    /\ mainpc = "fail"
    /\ IsNext(s, BusySlots)
    /\ SendAndStop(s, "error", "fail_release")

SampleSlots == AtOrAfterCursor({"done_prompt", "generating"}) \cap in_batch

\* (Mutant.)  The slot is not released after the final result.
SampleEndsKeepsSlot(s) ==
    /\ mainpc = "sample"
    /\ IsNext(s, SampleSlots)
    /\ SendAndStop(s, "final", "sample")

\* An embedding is sent; a sampled token ends the generation: final result.
SampleEnds(s) ==
    /\ mainpc = "sample"
    /\ IsNext(s, SampleSlots)
    /\ SendAndStop(s, "final", "sample_release")

PartialsOf(id) ==
    {i \in DOMAIN queue_results : queue_results[i] = [id |-> id, kind |-> "partial"]}

\* The sampled token does not end the generation; a streaming task sends it.
SampleContinues(s) ==
    /\ mainpc = "sample"
    /\ IsNext(s, SampleSlots)
    /\ slot_task[s].type = "completion"
    /\ slot_state' = [slot_state EXCEPT ![s] = "generating"]
    /\ \/ UNCHANGED resultVars
       \/ /\ Cardinality(PartialsOf(slot_task[s].id)) < MaxPartials
          /\ Send(slot_task[s].id, "partial")
    /\ cursor' = s + 1
    /\ UNCHANGED <<queueVars, slot_task, n_empty_consecutive, cur, in_batch, mainpc,
                   readerVars>>

\* The end of update_slots().
UpdateDone ==
    /\ \/ mainpc = "fail" /\ BusySlots = {}
       \/ mainpc = "sample" /\ SampleSlots = {}
    /\ mainpc' = "wait"
    /\ cursor' = 0
    /\ in_batch' = {}
    /\ UNCHANGED <<queueVars, resultVars, slotVars, n_empty_consecutive, cur, readerVars>>

ReleaseLoop == [shift_release |-> "shift", prompt_release |-> "prompt",
                fail_release |-> "fail", sample_release |-> "sample"]

\* release() of the slot whose last result was sent; the loop goes on.
ReleaseSlot ==
    /\ mainpc \in DOMAIN ReleaseLoop
    /\ Release(cursor)
    /\ cursor' = cursor + 1
    /\ mainpc' = ReleaseLoop[mainpc]
    /\ UNCHANGED <<resultVars, n_empty_consecutive, cur, in_batch, readerVars>>

UpdateStep ==
    \/ UpdateIdle \/ UpdateBegin
    \/ \E s \in Slots : ShiftError(s)
    \/ ShiftDone
    \/ \E s \in Slots : PromptSkip(s)
    \/ \E s \in Slots : PromptAdd(s)
    \/ \E s \in Slots : PromptEnds(s)
    \/ PromptDone
    \/ DecodeOk \/ DecodeFails
    \/ \E s \in Slots : FailSlot(s)
    \/ \E s \in Slots : SampleEnds(s)
    \/ \E s \in Slots : SampleContinues(s)
    \/ UpdateDone
    \/ ReleaseSlot

-----------------------------------------------------------------------------
(***************************************************************************)
(* Readers: server_response_reader, in the thread of its HTTP request.     *)
(*   idle -> posting -> receiving -> finishing -> done                     *)
(*                          |-> stopping -> purging -> cancelling -> done  *)
(***************************************************************************)
Ids(c) == IdsOf(tasks[c])

\* The handler creates its tasks; post_tasks() first registers their ids.
AddWaiting(c) ==
    /\ rpc[c] = "idle"
    /\ \E ts \in Templates :
         LET new == [i \in DOMAIN ts |-> MakeTask(c, i, ts[i])]
         IN /\ tasks' = [tasks EXCEPT ![c] = new]
            /\ waiting_task_ids' = waiting_task_ids \cup IdsOf(new)
    /\ rpc' = [rpc EXCEPT ![c] = "posting"]
    /\ UNCHANGED <<queueVars, queue_results, slotVars, loopVars, mainpc, received_count>>

\* post(): at the back, or at the front for the one task of /metrics, /slots.
PostTasks(c) ==
    /\ rpc[c] = "posting"
    /\ queue_tasks' = IF tasks[c][1].type = "metrics" THEN tasks[c] \o queue_tasks
                                                      ELSE queue_tasks \o tasks[c]
    /\ rpc' = [rpc EXCEPT ![c] = "receiving"]
    /\ UNCHANGED <<queue_tasks_deferred, resultVars, slotVars, loopVars, mainpc, tasks,
                   received_count>>

\* (Mutant.)  Child tasks are not counted among the expected results.
ReceiveCountsParents(c) ==
    /\ rpc[c] = "receiving"
    /\ \E i \in DOMAIN queue_results :
         /\ queue_results[i].id \in Ids(c)
         /\ queue_results' = SubSeq(queue_results, 1, i - 1)
                               \o SubSeq(queue_results, i + 1, Len(queue_results))
         /\ received_count' = [received_count EXCEPT ![c] = @ + 1]
         /\ rpc' = IF received_count'[c] = Len(tasks[c])
                     THEN [rpc EXCEPT ![c] = "finishing"] ELSE rpc
    /\ UNCHANGED <<queueVars, waiting_task_ids, slotVars, loopVars, mainpc, tasks>>

\* next() and wait_for_all(): the first result for one of the reader's ids.
Receive(c) ==
    /\ rpc[c] = "receiving"
    /\ \E i \in DOMAIN queue_results :
         /\ queue_results[i].id \in Ids(c)
         /\ \A j \in 1 .. i - 1 : queue_results[j].id \notin Ids(c)
         /\ queue_results' = SubSeq(queue_results, 1, i - 1)
                               \o SubSeq(queue_results, i + 1, Len(queue_results))
         /\ \/ /\ queue_results[i].kind = "partial"
               /\ UNCHANGED <<received_count, rpc>>
            \/ /\ queue_results[i].kind = "final"
               /\ received_count' = [received_count EXCEPT ![c] = @ + 1]
               /\ rpc' = IF received_count'[c] = Cardinality(Ids(c))
                           THEN [rpc EXCEPT ![c] = "finishing"] ELSE rpc
            \/ /\ queue_results[i].kind = "error"
               /\ rpc' = [rpc EXCEPT ![c] = "stopping"]
               /\ UNCHANGED received_count
    /\ UNCHANGED <<queueVars, waiting_task_ids, slotVars, loopVars, mainpc, tasks>>

\* recv_with_timeout() timed out and should_stop() holds: the connection is
\* closed.  A result that arrives together with the timeout is not looked at.
Leave(c) ==
    /\ "leave" \in Faults
    /\ rpc[c] = "receiving"
    /\ rpc' = [rpc EXCEPT ![c] = "stopping"]
    /\ UNCHANGED <<queueVars, resultVars, slotVars, loopVars, mainpc, tasks,
                   received_count>>

\* stop(): remove_waiting_task_ids(); a reader that has all results is done.
StopRemove(c) ==
    /\ rpc[c] \in {"finishing", "stopping"}
    /\ waiting_task_ids' = waiting_task_ids \ Ids(c)
    /\ rpc' = [rpc EXCEPT ![c] = IF @ = "finishing" THEN "done" ELSE "purging"]
    /\ UNCHANGED <<queueVars, queue_results, slotVars, loopVars, mainpc, tasks,
                   received_count>>

\* (Mutant.)  Pending results are not dropped.
StopPurgeNothing(c) ==
    /\ rpc[c] = "purging"
    /\ rpc' = [rpc EXCEPT ![c] = "cancelling"]
    /\ UNCHANGED <<queueVars, resultVars, slotVars, loopVars, mainpc, tasks,
                   received_count>>

\* stop(): remove_waiting_task_id() of every id also drops its pending results
\* (the calls commute with everything another thread can do in between).
StopPurge(c) ==
    /\ rpc[c] = "purging"
    /\ queue_results' = Without(queue_results, Ids(c))
    /\ rpc' = [rpc EXCEPT ![c] = "cancelling"]
    /\ UNCHANGED <<queueVars, waiting_task_ids, slotVars, loopVars, mainpc, tasks,
                   received_count>>

\* The orders in which an unordered_set may be visited.
Orders(S) == {f \in [1 .. Cardinality(S) -> S] : \A x \in S : \E i \in DOMAIN f : f[i] = x}

\* stop(): one CANCEL per id is pushed to the front, cleanup_pending_task()
\* erases the tasks that are still in one of the queues.
StopCancel(c) ==
    /\ rpc[c] = "cancelling"
    /\ \E order \in Orders(Ids(c)) :
         queue_tasks' = [i \in DOMAIN order |-> CancelTask(order[i])]
                          \o Without(queue_tasks, Ids(c))
    /\ queue_tasks_deferred' = Without(queue_tasks_deferred, Ids(c))
    /\ rpc' = [rpc EXCEPT ![c] = "done"]
    /\ UNCHANGED <<resultVars, slotVars, loopVars, mainpc, tasks, received_count>>

ReaderStep(c) ==
    \/ PostTasks(c) \/ Receive(c) \/ StopRemove(c) \/ StopPurge(c) \/ StopCancel(c)

Next ==
    \/ ProcessStep
    \/ UpdateStep
    \/ \E c \in Clients : AddWaiting(c) \/ ReaderStep(c) \/ Leave(c)

Spec == Init /\ [][Next]_vars

\* The main thread and the readers are scheduled; a generation that keeps
\* getting tokens ends.  Nobody is bound to connect or to leave.
Fairness ==
    /\ WF_vars(ProcessStep \/ UpdateStep)
    /\ \A c \in Clients : WF_vars(ReaderStep(c))
    /\ \A s \in Slots : SF_vars(SampleEnds(s))

FairSpec == Spec /\ Fairness

-----------------------------------------------------------------------------
(***************************************************************************)
(* Where tasks are.                                                        *)
(***************************************************************************)
AllIds == UNION {Ids(c) : c \in Clients}

\* The places of a queue where an id is, as a task of its own or as a child.
PlacesIn(q, id) == {i \in DOMAIN q : q[i].id # NoId /\ id \in Family(q[i])}

SlotsOf(id) == {s \in Slots : IsProcessing(s) /\ slot_task[s].id = id}

\* The task in hand, as long as process_single_task() owns it.
InHand(id) == mainpc = "process" /\ cur.id # NoId /\ id \in Family(cur)

Copies(id) ==
    Cardinality(PlacesIn(queue_tasks, id)) + Cardinality(PlacesIn(queue_tasks_deferred, id))
      + Cardinality(SlotsOf(id)) + (IF InHand(id) THEN 1 ELSE 0)

\* Nothing holds the task, but for the slot that is released next.
Ended(id) ==
    \/ Copies(id) = 0
    \/ Copies(id) = 1 /\ mainpc \in DOMAIN ReleaseLoop /\ SlotsOf(id) = {cursor}

PendingCancels(c) ==
    \/ \E i \in DOMAIN queue_tasks : queue_tasks[i].id_target \in Ids(c)
    \/ mainpc = "process" /\ cur.id_target \in Ids(c)

MainPcs == {"drain", "process", "unlaunch", "update", "shift", "prompt", "decode",
            "fail", "sample", "wait", "aborted"} \cup DOMAIN ReleaseLoop
SlotStates == {"idle", "wait_other", "started", "processing_prompt", "done_prompt",
               "generating"}
RpcStates == {"idle", "posting", "receiving", "finishing", "stopping", "purging",
              "cancelling", "done"}
Id == Clients \X Nat \X Nat
Task == [id : Id \cup {NoId}, type : ReaderTypes \cup {"cancel", "next_response"},
         id_slot : Slots \cup {NoSlot}, action_slot : Slots \cup {NoSlot},
         kids : 0 .. NSlots - 1, id_target : Id \cup {NoId}]

TypeOK ==
    /\ queue_tasks \in Seq(Task)
    /\ queue_tasks_deferred \in Seq(Task)
    /\ waiting_task_ids \subseteq Id
    /\ queue_results \in Seq([id : Id, kind : {"partial", "final", "error"}])
    /\ slot_state \in [Slots -> SlotStates]
    /\ slot_task \in [Slots -> Task \cup {NoTask}]
    /\ n_empty_consecutive \in 0 .. 4
    /\ mainpc \in MainPcs
    /\ cur \in Task \cup {NoTask}
    /\ cursor \in 0 .. NSlots
    /\ in_batch \subseteq Slots
    /\ rpc \in [Clients -> RpcStates]
    /\ tasks \in [Clients -> Seq(Task)]
    /\ received_count \in [Clients -> Nat]

-----------------------------------------------------------------------------
(***************************************************************************)
(* Safety properties.                                                      *)
(***************************************************************************)
\* A task moves from queue to deferred queue to slot and is never duplicated:
\* two slots never run the same task, and a running task is not queued again.
SingleOwner == \A id \in AllIds : Copies(id) <= 1

\* Once a task has its last result (final or error) in the result queue it runs
\* nowhere, except on the slot that is released next: no task is answered
\* twice ("duplicate result received" in wait_for_all()).
LastResultOnce ==
    \A i, j \in DOMAIN queue_results :
       queue_results[i].kind # "partial" =>
         /\ queue_results[j].id = queue_results[i].id => j <= i
         /\ Ended(queue_results[i].id)

\* queue_results holds results of readers that will still take or purge them:
\* remove_waiting_task_ids() alone, which does not purge, leaks nothing.
NoOrphanResult ==
    \A i \in DOMAIN queue_results :
       \E c \in Clients : /\ queue_results[i].id \in Ids(c)
                          /\ rpc[c] \in {"posting", "receiving", "stopping", "purging"}

\* A reader that counted its final results has them from all of its tasks: it
\* leaves no task queued, deferred or running behind.
FinishedIsComplete ==
    \A c \in Clients : rpc[c] = "finishing" => \A id \in Ids(c) : Ended(id)

\* With a busy slot the main loop does not come to rest: the NEXT_RESPONSE that
\* update_slots() posted survives every cleanup of queue_tasks.
BusyKeepsRunning ==
    mainpc = "wait" /\ IdleSlots # Slots => queue_tasks # <<>>

\* defer(): "defer until one slot is available".  When the main loop rests, a
\* task is deferred only because some slot is busy.
DeferredHasBusySlot ==
    mainpc = "wait" /\ queue_tasks = <<>> /\ queue_tasks_deferred # <<>> =>
        IdleSlots # Slots

\* Cancelling works: when the CANCEL tasks of a reader have been processed,
\* none of its tasks is queued, deferred or running.
CancelledIsGone ==
    \A c \in Clients : rpc[c] = "done" /\ ~PendingCancels(c) => \A id \in Ids(c) : Ended(id)

\* update_slots() with a busy slot always finds a token to decode, up to the
\* empty batches its kill switch tolerates: it never aborts the server.
NeverAborts == mainpc # "aborted"

\* The scheduler implements the life cycle of TaskLifecycle: a task of a reader
\* that has not posted yet is new; then it is running while a slot holds it,
\* pending while a queue or the main thread does, and gone otherwise.
PossibleIds ==
    UNION {IdsOf([i \in DOMAIN ts |-> MakeTask(c, i, ts[i])]) :
              c \in Clients, ts \in Templates}
IsPending(id) ==
    \/ InHand(id)
    \/ PlacesIn(queue_tasks, id) # {}
    \/ PlacesIn(queue_tasks_deferred, id) # {}
StatusOf(id) ==
    CASE id \notin Ids(id[1]) \/ rpc[id[1]] = "posting" -> "new"
      [] SlotsOf(id) # {} -> "running"
      [] SlotsOf(id) = {} /\ IsPending(id) -> "pending"
      [] OTHER -> "gone"
Lifecycle == INSTANCE TaskLifecycle WITH
                 TaskIds  <- PossibleIds,
                 ParentOf <- [id \in PossibleIds |-> Parent(id)],
                 status   <- [id \in PossibleIds |-> StatusOf(id)]
TaskLifecycleSpec == Lifecycle!Spec

(***************************************************************************)
(* Liveness.                                                               *)
(***************************************************************************)
\* Every posted request gets all its results.
RequestCompletes ==
    \A c \in Clients : (rpc[c] = "receiving") ~> (rpc[c] = "done")
=============================================================================
