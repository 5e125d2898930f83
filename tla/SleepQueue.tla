----------------------------- MODULE SleepQueue -----------------------------
(***************************************************************************)
(* The main loop of the server and the threads that talk to it, at the     *)
(* level of the mutex and the condition variable of struct server_queue    *)
(* (tools/server/server-queue.{h,cpp}).                                    *)
(*                                                                         *)
(* One thread, Main, runs server_queue::start_loop(): it drains            *)
(* queue_tasks, lets update_slots() run one inference step, and waits.     *)
(* When nothing happened for idle_sleep_ms it frees the model and sleeps.  *)
(* HTTP workers call wait_until_no_sleep() (the constructor of             *)
(* server_res_generator), prepare their tasks with the vocabulary of the   *)
(* loaded model, post them and wait for the result.  The signal handler    *)
(* calls terminate().                                                      *)
(*                                                                         *)
(* Every critical section of mutex_tasks is one action.  All threads block *)
(* on the single condition variable condition_tasks: cv is the set of      *)
(* those that are blocked and not yet notified.  Clocks are abstracted:    *)
(* whenever should_sleep() is asked it may say yes or no.  Slots, deferral *)
(* and cancellation are the subject of SlotScheduler.                      *)
(***************************************************************************)
EXTENDS Naturals, Sequences, FiniteSets

CONSTANTS
    Workers,        \* HTTP threads; each serves one request at a time
    Main,           \* the thread that runs start_loop()
    NextResponse,   \* the task update_slots() posts to itself
    SleepEnabled    \* idle_sleep_ms >= 0

ASSUME MainAssumption         == Main \notin Workers
ASSUME NextResponseAssumption == NextResponse \notin Workers
ASSUME SleepAssumption        == SleepEnabled \in BOOLEAN

VARIABLES
    running,            \* server_queue::running
    sleeping,           \* server_queue::sleeping
    req_stop_sleeping,  \* server_queue::req_stop_sleeping
    queue_tasks,        \* server_queue::queue_tasks; a worker stands for its task
    cv,                 \* threads blocked on condition_tasks
    loaded,             \* the model is in memory (server_context_impl: !sleeping)
    busy,               \* workers whose task occupies a slot
    answered,           \* workers whose final result is in queue_results
    is_terminating,     \* the flag of the signal handler
    mainpc,             \* where Main is
    wpc                 \* where each worker is

vars == <<running, sleeping, req_stop_sleeping, queue_tasks, cv, loaded,
          busy, answered, is_terminating, mainpc, wpc>>

Threads == Workers \cup {Main}
Tasks   == Workers \cup {NextResponse}

\* boot: model loaded, start_loop() not entered.  drain, update, wait: the
\* three parts of its outer loop.  timedwait, asleep: inside wait_for() and
\* inside the wait of the sleeping state.  ended: start_loop() returned.
\* exited: clean_up() has run.
MainPcs   == {"boot", "drain", "update", "wait", "timedwait", "asleep", "ended",
              "exited"}
WorkerPcs == {"idle", "blocked", "prepare", "await"}

TypeOK ==
    /\ running \in BOOLEAN
    /\ sleeping \in BOOLEAN
    /\ req_stop_sleeping \in BOOLEAN
    /\ queue_tasks \in Seq(Tasks)
    /\ cv \subseteq Threads
    /\ loaded \in BOOLEAN
    /\ busy \subseteq Workers
    /\ answered \subseteq Workers
    /\ is_terminating \in BOOLEAN
    /\ mainpc \in MainPcs
    /\ wpc \in [Workers -> WorkerPcs]

(***************************************************************************)
(* Condition variable.                                                     *)
(***************************************************************************)
\* notify_one(): the scheduler picks any one blocked thread.
NotifyOne ==
    \/ cv = {} /\ cv' = {}
    \/ \E t \in cv : cv' = cv \ {t}

\* notify_one() followed by a wait() of thread t in the same critical section.
NotifyOneThenWait(t) ==
    \/ cv = {} /\ cv' = {t}
    \/ \E u \in cv : cv' = (cv \ {u}) \cup {t}

Init ==
    /\ running = FALSE
    /\ sleeping = FALSE
    /\ req_stop_sleeping = FALSE
    /\ queue_tasks = <<>>
    /\ cv = {}
    /\ loaded = TRUE
    /\ busy = {}
    /\ answered = {}
    /\ is_terminating = FALSE
    /\ mainpc = "boot"
    /\ wpc = [w \in Workers |-> "idle"]

(***************************************************************************)
(* The main thread: server_queue::start_loop().                            *)
(***************************************************************************)
\* running is set without the mutex, after the signal handler was installed.
StartLoop ==
    /\ mainpc = "boot"
    /\ running' = TRUE
    /\ mainpc' = "drain"
    /\ UNCHANGED <<sleeping, req_stop_sleeping, queue_tasks, cv, loaded, busy,
                   answered, is_terminating, wpc>>

DrainExit ==
    /\ mainpc = "drain"
    /\ ~running
    /\ mainpc' = "ended"
    /\ UNCHANGED <<running, sleeping, req_stop_sleeping, queue_tasks, cv, loaded,
                   busy, answered, is_terminating, wpc>>

\* (Mutant.)  The task is not popped.
DrainTaskCopies ==
    /\ mainpc = "drain"
    /\ running
    /\ queue_tasks # <<>>
    /\ busy' = busy \cup ({Head(queue_tasks)} \cap Workers)
    /\ mainpc' = "update"
    /\ UNCHANGED <<running, sleeping, req_stop_sleeping, queue_tasks, cv, loaded,
                   answered, is_terminating, wpc>>

\* callback_new_task(): a worker's task is launched on a slot, the
\* NEXT_RESPONSE task does nothing.
DrainTask ==
    /\ mainpc = "drain"
    /\ running
    /\ queue_tasks # <<>>
    /\ queue_tasks' = Tail(queue_tasks)
    /\ busy' = busy \cup ({Head(queue_tasks)} \cap Workers)
    /\ UNCHANGED <<running, sleeping, req_stop_sleeping, cv, loaded, answered,
                   is_terminating, mainpc, wpc>>

DrainDone ==
    /\ mainpc = "drain"
    /\ running
    /\ queue_tasks = <<>>
    /\ mainpc' = "update"
    /\ UNCHANGED <<running, sleeping, req_stop_sleeping, queue_tasks, cv, loaded,
                   busy, answered, is_terminating, wpc>>

UpdateSlotsIdle ==
    /\ mainpc = "update"
    /\ busy = {}
    /\ mainpc' = "wait"
    /\ UNCHANGED <<running, sleeping, req_stop_sleeping, queue_tasks, cv, loaded,
                   busy, answered, is_terminating, wpc>>

\* (Mutant.)  NEXT_RESPONSE is not posted.
UpdateSlotsSilent(done) ==
    /\ mainpc = "update"
    /\ busy # {}
    /\ busy' = busy \ done
    /\ answered' = answered \cup done
    /\ mainpc' = "wait"
    /\ UNCHANGED <<running, sleeping, req_stop_sleeping, queue_tasks, cv, loaded,
                   is_terminating, wpc>>

\* update_slots() with a busy slot: NEXT_RESPONSE is posted first, then one
\* inference step ends the generation of the tasks in done.
UpdateSlots(done) ==
    /\ mainpc = "update"
    /\ busy # {}
    /\ queue_tasks' = Append(queue_tasks, NextResponse)
    /\ NotifyOne
    /\ busy' = busy \ done
    /\ answered' = answered \cup done
    /\ mainpc' = "wait"
    /\ UNCHANGED <<running, sleeping, req_stop_sleeping, loaded, is_terminating, wpc>>

WaitSkip ==
    /\ mainpc = "wait"
    /\ ~running \/ queue_tasks # <<>>
    /\ mainpc' = "drain"
    /\ UNCHANGED <<running, sleeping, req_stop_sleeping, queue_tasks, cv, loaded,
                   busy, answered, is_terminating, wpc>>

\* should_sleep() is true: callback_sleeping_state(true) frees the model while
\* the mutex is held, the request flag is cleared and Main blocks.
EnterSleep ==
    /\ SleepEnabled
    /\ mainpc = "wait"
    /\ running /\ queue_tasks = <<>>
    /\ sleeping' = TRUE
    /\ loaded' = FALSE
    /\ req_stop_sleeping' = FALSE
    /\ cv' = cv \cup {Main}
    /\ mainpc' = "asleep"
    /\ UNCHANGED <<running, queue_tasks, busy, answered, is_terminating, wpc>>

EnterTimedWait ==
    /\ mainpc = "wait"
    /\ running /\ queue_tasks = <<>>
    /\ cv' = cv \cup {Main}
    /\ mainpc' = "timedwait"
    /\ UNCHANGED <<running, sleeping, req_stop_sleeping, queue_tasks, loaded, busy,
                   answered, is_terminating, wpc>>

\* Main was notified inside wait_for() and re-evaluates the predicate.
WakeTimedWait ==
    /\ mainpc = "timedwait"
    /\ Main \notin cv
    /\ IF queue_tasks # <<>> \/ ~running
         THEN mainpc' = "drain" /\ cv' = cv
         ELSE mainpc' = mainpc  /\ cv' = cv \cup {Main}
    /\ UNCHANGED <<running, sleeping, req_stop_sleeping, queue_tasks, loaded, busy,
                   answered, is_terminating, wpc>>

\* max_wait_time elapsed: the predicate decides between break and loop.
TimedWaitExpires ==
    /\ mainpc = "timedwait"
    /\ cv' = cv \ {Main}
    /\ mainpc' = IF queue_tasks # <<>> \/ ~running THEN "drain" ELSE "wait"
    /\ UNCHANGED <<running, sleeping, req_stop_sleeping, queue_tasks, loaded, busy,
                   answered, is_terminating, wpc>>

\* (Mutant.)  Main leaves the sleeping state without reloading the model.
WakeAsleepUnloaded ==
    /\ mainpc = "asleep"
    /\ Main \notin cv
    /\ sleeping' = FALSE
    /\ req_stop_sleeping' = FALSE
    /\ cv' = {}
    /\ mainpc' = "drain"
    /\ UNCHANGED <<running, queue_tasks, loaded, busy, answered, is_terminating, wpc>>

WakeAsleep ==
    /\ mainpc = "asleep"
    /\ Main \notin cv
    /\ \/ /\ ~running                      \* terminated while sleeping
          /\ mainpc' = "drain"
          /\ UNCHANGED <<sleeping, req_stop_sleeping, cv, loaded>>
       \/ /\ running /\ req_stop_sleeping  \* callback_sleeping_state(false)
          /\ req_stop_sleeping' = FALSE
          /\ loaded' = TRUE
          /\ sleeping' = FALSE
          /\ cv' = {}                      \* notify_all()
          /\ mainpc' = "drain"
       \/ /\ running /\ ~req_stop_sleeping \* spurious or stolen notification
          /\ cv' = cv \cup {Main}
          /\ UNCHANGED <<sleeping, req_stop_sleeping, loaded, mainpc>>
    /\ UNCHANGED <<running, queue_tasks, busy, answered, is_terminating, wpc>>

\* clean_up() after start_loop(): the HTTP server stops listening, terminate()
\* is called once more and the model is freed unless it already was.
CleanUp ==
    /\ mainpc = "ended"
    /\ running' = FALSE
    /\ cv' = {}
    /\ loaded' = FALSE
    /\ mainpc' = "exited"
    /\ UNCHANGED <<sleeping, req_stop_sleeping, queue_tasks, busy, answered,
                   is_terminating, wpc>>

(***************************************************************************)
(* HTTP workers.                                                           *)
(***************************************************************************)
\* create_response() of a route that does not bypass the sleeping state:
\* wait_until_no_sleep(), skipped when sleeping is disabled.
Arrive(w) ==
    /\ wpc[w] = "idle"
    /\ mainpc # "exited"
    /\ \/ /\ ~SleepEnabled \/ ~sleeping
          /\ wpc' = [wpc EXCEPT ![w] = "prepare"]
          /\ UNCHANGED <<req_stop_sleeping, cv>>
       \/ /\ SleepEnabled /\ sleeping
          /\ wpc' = [wpc EXCEPT ![w] = "blocked"]
          /\ req_stop_sleeping' = TRUE
          /\ IF req_stop_sleeping THEN cv' = cv \cup {w} ELSE NotifyOneThenWait(w)
    /\ UNCHANGED <<running, sleeping, queue_tasks, loaded, busy, answered,
                   is_terminating, mainpc>>

\* A notified worker evaluates the predicate of its wait(): !sleeping.
WakeWorker(w) ==
    /\ wpc[w] = "blocked"
    /\ w \notin cv
    /\ IF sleeping
         THEN cv' = cv \cup {w} /\ wpc' = wpc
         ELSE cv' = cv /\ wpc' = [wpc EXCEPT ![w] = "prepare"]
    /\ UNCHANGED <<running, sleeping, req_stop_sleeping, queue_tasks, loaded, busy,
                   answered, is_terminating, mainpc>>

\* The handler has tokenized the prompt (with the loaded model) and posts.
Post(w) ==
    /\ wpc[w] = "prepare"
    /\ queue_tasks' = Append(queue_tasks, w)
    /\ NotifyOne
    /\ wpc' = [wpc EXCEPT ![w] = "await"]
    /\ UNCHANGED <<running, sleeping, req_stop_sleeping, loaded, busy, answered,
                   is_terminating, mainpc>>

Receive(w) ==
    /\ wpc[w] = "await"
    /\ w \in answered
    /\ answered' = answered \ {w}
    /\ wpc' = [wpc EXCEPT ![w] = "idle"]
    /\ UNCHANGED <<running, sleeping, req_stop_sleeping, queue_tasks, cv, loaded, busy,
                   is_terminating, mainpc>>

(***************************************************************************)
(* The signal handler (a second signal exits the process at once) and the  *)
(* spurious wake-ups the C++ standard allows.                              *)
(***************************************************************************)
\* (Mutant.)  terminate() does not notify.
TerminateSilently ==
    /\ ~is_terminating
    /\ is_terminating' = TRUE
    /\ running' = FALSE
    /\ UNCHANGED <<sleeping, req_stop_sleeping, queue_tasks, cv, loaded, busy, answered,
                   mainpc, wpc>>

Terminate ==
    /\ ~is_terminating
    /\ is_terminating' = TRUE
    /\ running' = FALSE
    /\ cv' = {}
    /\ UNCHANGED <<sleeping, req_stop_sleeping, queue_tasks, loaded, busy, answered,
                   mainpc, wpc>>

SpuriousWake(t) ==
    /\ t \in cv
    /\ cv' = cv \ {t}
    /\ UNCHANGED <<running, sleeping, req_stop_sleeping, queue_tasks, loaded, busy,
                   answered, is_terminating, mainpc, wpc>>

MainStep ==
    \/ StartLoop \/ DrainExit \/ DrainTask \/ DrainDone
    \/ UpdateSlotsIdle \/ \E done \in SUBSET busy : UpdateSlots(done)
    \/ WaitSkip \/ EnterSleep \/ EnterTimedWait
    \/ WakeTimedWait \/ TimedWaitExpires \/ WakeAsleep
    \/ CleanUp

WorkerStep(w) == Arrive(w) \/ WakeWorker(w) \/ Post(w) \/ Receive(w)

Next ==
    \/ MainStep
    \/ \E w \in Workers : WorkerStep(w)
    \/ Terminate
    \/ \E t \in Threads : SpuriousWake(t)

Spec == Init /\ [][Next]_vars

\* The operating system schedules Main and every worker that has started; the
\* one-second timer of wait_for() fires (it is one of Main's steps); a
\* generation that gets inference steps ends (token limit or full context).
\* Nobody is bound to connect, to send a signal, or to be woken spuriously.
Fairness ==
    /\ WF_vars(MainStep)
    /\ \A w \in Workers : WF_vars(WakeWorker(w) \/ Post(w) \/ Receive(w))
    /\ \A w \in Workers :
         SF_vars(\E done \in SUBSET busy : w \in done /\ UpdateSlots(done))

FairSpec == Spec /\ Fairness

-----------------------------------------------------------------------------
(***************************************************************************)
(* Properties.                                                             *)
(***************************************************************************)
\* Where the task of a worker can be.
Queued(w) == \E i \in DOMAIN queue_tasks : queue_tasks[i] = w

\* While the model is unloaded no slot holds a task: callback_sleeping_state(true)
\* never frees a context that update_slots() still has to use, because a busy
\* slot always leaves a NEXT_RESPONSE in the queue that start_loop() checks.
NoSleepWhileBusy == ~loaded /\ mainpc # "exited" => busy = {}

\* update_slots() never runs on a freed model: whenever Main is in the parts of
\* start_loop() that touch the context it still runs or has been told to stop.
LoadedWhenWorking ==
    mainpc \in {"update", "wait", "timedwait"} => loaded

\* A posted request is in exactly one place: in queue_tasks (once), on a slot,
\* or answered; a worker that has not posted is nowhere.
QueuedOnce ==
    \A i, j \in DOMAIN queue_tasks :
       queue_tasks[i] = queue_tasks[j] /\ queue_tasks[i] \in Workers => i = j
OnePlace(w) ==
    /\ ~(w \in busy /\ w \in answered)
    /\ Queued(w) => w \notin busy /\ w \notin answered
    /\ (wpc[w] = "await") <=> (Queued(w) \/ w \in busy \/ w \in answered)
RequestInOnePlace == QueuedOnce /\ \A w \in Workers : OnePlace(w)

\* server_res_generator: a handler that went through wait_until_no_sleep() may
\* use ctx_server, so the model is there while it prepares its tasks.
LoadedWhilePreparing == \A w \in Workers : wpc[w] = "prepare" => loaded

\* terminate() ends start_loop() and the process cleans up, also from the sleeping
\* state and with tasks pending, once the loop has been entered.
TerminateEndsLoop == (is_terminating /\ ~running /\ mainpc # "boot") ~> (mainpc = "exited")

\* "this will unblock start_loop()": a signal ends the main loop whenever it
\* arrives after its handler was installed.
SignalEndsLoop == is_terminating ~> (mainpc = "exited")

\* wait_until_no_sleep(): "if sleeping, request exiting sleep state and wait
\* until it is done".
SleepWaitEnds ==
    \A w \in Workers : (wpc[w] = "blocked") ~> (wpc[w] # "blocked" \/ is_terminating)

\* A posted task is answered unless the server is stopped or Main is asleep at
\* that moment, although notify_one() may wake a worker instead of Main: the
\* timer of wait_for() makes up for every stolen notification.
AwakeAnswers ==
    \A w \in Workers :
       (wpc[w] = "await" /\ mainpc # "asleep") ~> (wpc[w] = "idle" \/ is_terminating)

\* Any incoming task triggers the reload of the model: a posted task is
\* answered unless the server is stopped.
PostedIsAnswered ==
    \A w \in Workers : (wpc[w] = "await") ~> (wpc[w] = "idle" \/ is_terminating)
=============================================================================
