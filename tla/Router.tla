------------------------------- MODULE Router -------------------------------
(***************************************************************************)
(* The router of tools/server/server-models.cpp: one process per loaded    *)
(* model, at most models_max of them, evicted least recently used first.   *)
(* HTTP threads load, unload, request and reload; every model that was     *)
(* loaded has a managing thread (with a log thread inside) and a stopping  *)
(* thread.  All of them share `mutex`; an action is one critical section   *)
(* of it, together with the unlocked code up to the next one.              *)
(*                                                                         *)
(* cv is notified after every change its waiters look at, so a wait on it  *)
(* is a guard.  cv_stop is not: a stopping thread also looks at the life   *)
(* of a process, which changes without a notification; `woken` says that   *)
(* it has one to act on.                                                   *)
(***************************************************************************)
EXTENDS Naturals, FiniteSets, Sequences

CONSTANTS
    Models,         \* model names
    Callers,        \* HTTP threads, one call each
    Work,           \* for each caller, the calls [op, name] it may be asked for
    MaxModels,      \* base_params.models_max, 0 is "no limit"
    Startup         \* models with load-on-startup

Ops == {"request", "forward", "load", "unload", "reload"}

ASSUME WorkAssumption == Work \in [Callers -> SUBSET [op : Ops, name : Models]]
ASSUME SizeAssumption == IsFiniteSet(Models) /\ MaxModels \in Nat
ASSUME StartupAssumption ==
    /\ Startup \subseteq Models
    /\ Cardinality(Startup) <= MaxModels

VARIABLES
    mapping,    \* models listed in mapping
    bare,       \* those whose entry was made by operator[]: no subproc
    meta,       \* [Models -> [status, failed]]
    used,       \* rank of last_used: Cardinality(Models) is the latest, 0 is never
    stopping,   \* stopping_models
    reloading,  \* is_reloading
    proc,       \* the child processes: [child, bad, out, exit]
    thr,        \* their threads: [manager, stopper, woken]
    joinable,   \* models whose th is joinable
    call,       \* the HTTP threads: [pc, op, name, left, todo, keep]
    main,       \* "serving", "joining" (in unload_all), "gone"
    router      \* "up", or how the process died

vars == <<mapping, bare, meta, used, stopping, reloading, proc, thr, joinable,
          call, main, router>>

Statuses == {"unloaded", "loading", "loaded", "sleeping"}
\* "closing": the output is closed but waitpid() does not see the end yet;
\* "reaped": process->child is 0.
ChildStates == {"none", "loading", "up", "asleep", "closing", "zombie", "reaped"}
CallPcs == {"start", "pick", "evict", "evicting", "spawn", "await", "recheck",
            "forward", "touch", "unload", "drop", "join", "autoload", "done"}

NoProc == [child |-> "none", bad |-> FALSE, out |-> <<>>, exit |-> FALSE]
NoThr == [manager |-> "none", stopper |-> "none", woken |-> FALSE]
NoMeta == [status |-> "unloaded", failed |-> FALSE]

TypeOK ==
    /\ mapping \subseteq Models
    /\ bare \subseteq Models
    /\ meta \in [Models -> [status : Statuses, failed : BOOLEAN]]
    /\ used \in [Models -> 0 .. Cardinality(Models)]
    /\ stopping \subseteq Models
    /\ reloading \in BOOLEAN
    /\ proc \in [Models -> [child : ChildStates, bad : BOOLEAN,
                            out : Seq({"ready", "sleep"}), exit : BOOLEAN]]
    /\ thr \in [Models -> [manager : {"none", "reading", "joining", "reporting", "done"},
                           stopper : {"none", "waiting", "woke", "stopping", "done"},
                           woken : BOOLEAN]]
    /\ joinable \subseteq Models
    /\ call \in [Callers -> [pc : CallPcs, op : Ops, name : Models, left : SUBSET Models,
                             todo : SUBSET Models, keep : SUBSET Models]]
    /\ main \in {"serving", "joining", "gone"}
    /\ router \in {"up", "killed", "aborted", "segfault"}

(***************************************************************************)
(* Helpers.                                                                *)
(***************************************************************************)
IsRunning(m) == meta[m].status # "unloaded"
Running == {m \in mapping : IsRunning(m)}
LimitReached == MaxModels > 0 /\ Cardinality(Running) >= MaxModels

\* last_used = ggml_time_ms(): two uses never get the same rank.
Touch(m) == [x \in Models |-> IF x = m THEN Cardinality(Models)
                              ELSE IF used[x] > used[m] THEN used[x] - 1 ELSE used[x]]

\* The output of the child ends; its exit code is not zero if bad.
Exited(p, isBad) == [p EXCEPT !.child = "closing", !.bad = isBad]
Lives(m) == proc[m].child \in {"loading", "up", "asleep"}

\* subprocess_terminate(): kill(process->child, SIGKILL).
Killed(m) == [proc EXCEPT ![m] = IF Lives(m) THEN Exited(@, TRUE) ELSE @]

\* subprocess_alive() reaps a child that has ended.
IsAlive(m) == proc[m].child \in {"loading", "up", "asleep", "closing"}
Polled(m) == [proc EXCEPT ![m].child = IF @ = "zombie" THEN "reaped" ELSE @]

\* (Mutant.)  Nobody is notified.
NotifyNobody(t) == t

\* cv_stop.notify_all()
NotifyStop(t) == [m \in Models |-> [t[m] EXCEPT !.woken = @ \/ t[m].stopper = "waiting"]]

\* What load() leaves of a model it has just spawned.
Spawned == [proc |-> [child |-> "loading", bad |-> FALSE, out |-> <<>>, exit |-> FALSE],
            thr |-> [manager |-> "reading", stopper |-> "waiting", woken |-> TRUE]]

Goto(c, label) == call' = [call EXCEPT ![c].pc = label]

\* Where load() returns to.
AfterLoad(c) == CASE call[c].op = "request" -> "await"
                  [] call[c].op = "reload" -> "autoload"
                  [] OTHER -> "done"

\* The constructor has listed what the sources hold and loaded Startup.
Init ==
    /\ mapping \in {listed \in SUBSET Models : Startup \subseteq listed}
    /\ bare = {}
    /\ meta = [m \in Models |-> [NoMeta EXCEPT !.status = IF m \in Startup THEN "loading"
                                                          ELSE "unloaded"]]
    /\ used \in {u \in [Models -> 0 .. Cardinality(Models)] :
                    /\ \A m \in Models : u[m] = 0 <=> m \notin Startup
                    /\ {u[m] : m \in Startup}
                        = (Cardinality(Models) - Cardinality(Startup) + 1) .. Cardinality(Models)}
    /\ stopping = {}
    /\ reloading = FALSE
    /\ proc = [m \in Models |-> IF m \in Startup THEN Spawned.proc ELSE NoProc]
    /\ thr = [m \in Models |-> IF m \in Startup THEN Spawned.thr ELSE NoThr]
    /\ joinable = Startup
    /\ call \in {f \in [Callers -> [pc : {"start"}, op : Ops, name : Models, left : {{}},
                                    todo : {{}}, keep : {{}}]] :
                   \A c \in Callers : [op |-> f[c].op, name |-> f[c].name] \in Work[c]}
    /\ main = "serving"
    /\ router = "up"

(***************************************************************************)
(* The child process (another llama-server).                               *)
(***************************************************************************)
Says(m, word, state) ==
    /\ Len(proc[m].out) < 2
    /\ proc' = [proc EXCEPT ![m].child = state, ![m].out = Append(@, word)]
    /\ UNCHANGED <<mapping, bare, meta, used, stopping, reloading, thr, joinable,
                   call, main, router>>

ChildReady(m) == proc[m].child = "loading" /\ Says(m, "ready", "up")
ChildSleeps(m) == proc[m].child = "up" /\ Says(m, "sleep", "asleep")
ChildWakes(m) == proc[m].child = "asleep" /\ Says(m, "ready", "up")

\* The exit command is read by a thread that exists once the model is loaded.
ChildStops(m) ==
    /\ proc[m].child \in {"up", "asleep"}
    /\ proc[m].exit
    /\ proc' = [proc EXCEPT ![m] = Exited(@, FALSE)]
    /\ UNCHANGED <<mapping, bare, meta, used, stopping, reloading, thr, joinable,
                   call, main, router>>

ChildCrashes(m) ==
    /\ Lives(m)
    /\ proc' = [proc EXCEPT ![m] = Exited(@, TRUE)]
    /\ UNCHANGED <<mapping, bare, meta, used, stopping, reloading, thr, joinable,
                   call, main, router>>

ChildEnds(m) ==
    /\ proc[m].child = "closing"
    /\ proc' = [proc EXCEPT ![m].child = "zombie"]
    /\ UNCHANGED <<mapping, bare, meta, used, stopping, reloading, thr, joinable,
                   call, main, router>>

(***************************************************************************)
(* The managing thread and its log thread.                                 *)
(***************************************************************************)
ReadReport(m) ==
    /\ thr[m].manager = "reading"
    /\ proc[m].out # <<>>
    /\ proc' = [proc EXCEPT ![m].out = Tail(@)]
    /\ meta' = IF m \in mapping
               THEN [meta EXCEPT ![m] = [status |-> IF Head(proc[m].out) = "ready"
                                                    THEN "loaded" ELSE "sleeping",
                                         failed |-> FALSE]]
               ELSE meta
    /\ UNCHANGED <<mapping, bare, used, stopping, reloading, thr, joinable, call,
                   main, router>>

\* (Mutants.)  The model is given up at the end of the output, before its
\* process and threads have ended; a child the stopping thread has reaped is
\* waited for again; only a model that was ready is reported.
ReadEofReports(m) ==
    /\ thr[m].manager = "reading"
    /\ proc[m].out = <<>>
    /\ ~Lives(m)
    /\ stopping' = stopping \ {m}
    /\ thr' = NotifyStop([thr EXCEPT ![m].manager = "joining"])
    /\ meta' = [meta EXCEPT ![m].status = "unloaded"]
    /\ UNCHANGED <<mapping, bare, used, reloading, proc, joinable, call, main, router>>

ReapAgain(m) ==
    /\ thr[m].manager = "joining"
    /\ thr[m].stopper = "done"
    /\ proc[m].child = "zombie"
    /\ proc' = [proc EXCEPT ![m].child = "reaped"]
    /\ thr' = [thr EXCEPT ![m].manager = "reporting"]
    /\ UNCHANGED <<mapping, bare, meta, used, stopping, reloading, joinable, call,
                   main, router>>

ReportReadyOnly(m) ==
    /\ thr[m].manager = "reporting"
    /\ thr' = [thr EXCEPT ![m].manager = "done"]
    /\ meta' = [meta EXCEPT ![m].status = IF @ = "loading" THEN @ ELSE "unloaded"]
    /\ UNCHANGED <<mapping, bare, used, stopping, reloading, proc, joinable, call,
                   main, router>>

\* The log thread ends at the end of the output; the request to stop is erased.
ReadEof(m) ==
    /\ thr[m].manager = "reading"
    /\ proc[m].out = <<>>
    /\ ~Lives(m)
    /\ stopping' = stopping \ {m}
    /\ thr' = NotifyStop([thr EXCEPT ![m].manager = "joining"])
    /\ UNCHANGED <<mapping, bare, meta, used, reloading, proc, joinable, call, main,
                   router>>

\* stopping_thread.join(), subprocess_join() and subprocess_destroy().
Reap(m) ==
    /\ thr[m].manager = "joining"
    /\ thr[m].stopper = "done"
    /\ proc[m].child \in {"zombie", "reaped"}
    /\ proc' = [proc EXCEPT ![m].child = "reaped"]
    /\ thr' = [thr EXCEPT ![m].manager = "reporting"]
    /\ UNCHANGED <<mapping, bare, meta, used, stopping, reloading, joinable, call,
                   main, router>>

ReportUnloaded(m) ==
    /\ thr[m].manager = "reporting"
    /\ thr' = [thr EXCEPT ![m].manager = "done"]
    /\ meta' = IF m \in mapping
               THEN [meta EXCEPT ![m] = [status |-> "unloaded", failed |-> proc[m].bad]]
               ELSE meta
    /\ UNCHANGED <<mapping, bare, used, stopping, reloading, proc, joinable, call,
                   main, router>>

(***************************************************************************)
(* The stopping thread.                                                    *)
(***************************************************************************)
\* cv_stop.wait(lk, should_wake), evaluated once per notification.
StopperWakes(m) ==
    /\ thr[m].stopper = "waiting"
    /\ thr[m].woken
    /\ thr' = [thr EXCEPT ![m].woken = FALSE,
                          ![m].stopper = IF m \in stopping \/ ~IsAlive(m) THEN "woke" ELSE @]
    /\ proc' = IF m \in stopping THEN proc ELSE Polled(m)
    /\ UNCHANGED <<mapping, bare, meta, used, stopping, reloading, joinable, call,
                   main, router>>

\* The child is looked at again, without the lock, and told to exit.
StopperSends(m) ==
    /\ thr[m].stopper = "woke"
    /\ thr' = [thr EXCEPT ![m].stopper = IF IsAlive(m) THEN "stopping" ELSE "done"]
    /\ proc' = [Polled(m) EXCEPT ![m].exit = @ \/ IsAlive(m)]
    /\ UNCHANGED <<mapping, bare, meta, used, stopping, reloading, joinable, call,
                   main, router>>

StopperReturns(m) ==
    /\ thr[m].stopper = "stopping"
    /\ m \notin stopping
    /\ thr' = [thr EXCEPT ![m].stopper = "done"]
    /\ UNCHANGED <<mapping, bare, meta, used, stopping, reloading, proc, joinable,
                   call, main, router>>

\* stop_timeout seconds have passed.
StopperKills(m) ==
    /\ thr[m].stopper = "stopping"
    /\ m \in stopping
    /\ thr' = [thr EXCEPT ![m].stopper = "done"]
    /\ proc' = Killed(m)
    /\ UNCHANGED <<mapping, bare, meta, used, stopping, reloading, joinable, call,
                   main, router>>

(***************************************************************************)
(* unload(): the rest of the stop is up to the threads of the model.       *)
(***************************************************************************)
Unload(m) ==
    IF m \in mapping /\ IsRunning(m)
    THEN /\ stopping' = stopping \cup {m}
         /\ thr' = NotifyStop(thr)
         \* A model that is loading is killed.  Once its child is reaped,
         \* process->child is 0 and kill() hits the router's process group.
         /\ IF meta[m].status = "loading"
            THEN /\ proc' = Killed(m)
                 /\ router' = IF proc[m].child = "reaped" THEN "killed" ELSE router
            ELSE UNCHANGED <<proc, router>>
    ELSE UNCHANGED <<stopping, thr, proc, router>>

(***************************************************************************)
(* The calls.  Each begins with a look at the meta data, under the lock.   *)
(***************************************************************************)
\* router_validate_model() and ensure_model_ready().
StartRequest(c) ==
    LET m == call[c].name IN
    /\ call[c].op = "request"
    /\ Goto(c, CASE m \notin mapping -> "done"
                 [] m \in mapping /\ meta[m].status = "unloaded" -> "pick"
                 [] m \in mapping /\ meta[m].status = "loading" -> "await"
                 [] OTHER -> "forward")
    /\ UNCHANGED reloading

\* The routes that do not load on their own: only a running model will do.
StartDirect(c) ==
    LET m == call[c].name IN
    /\ \/ /\ call[c].op = "forward"
          /\ Goto(c, IF m \in mapping /\ IsRunning(m) THEN "forward" ELSE "done")
       \/ /\ call[c].op = "load"
          /\ Goto(c, IF m \in mapping /\ ~IsRunning(m) THEN "pick" ELSE "done")
       \/ /\ call[c].op = "unload"
          /\ Goto(c, IF m \in mapping /\ IsRunning(m) THEN "unload" ELSE "done")
    /\ UNCHANGED reloading

\* load_models(): disk is what the sources list now, changed what differs.
StartReload(c) ==
    /\ call[c].op = "reload"
    /\ \E disk \in SUBSET Models : \E changed \in SUBSET (disk \cap Running) :
        LET old == (Running \ disk) \cup changed IN
        call' = [call EXCEPT ![c] = [@ EXCEPT !.pc = "drop", !.left = old,
                                              !.todo = old, !.keep = disk]]
    /\ reloading' = TRUE

Start(c) ==
    /\ main = "serving"
    /\ call[c].pc = "start"
    /\ StartRequest(c) \/ StartDirect(c) \/ StartReload(c)
    /\ UNCHANGED <<mapping, bare, meta, used, stopping, proc, thr, joinable, main, router>>

\* unload_lru(), first half: choose the victim, and give up the lock.
PickVictim(c) ==
    LET m == call[c].name
        oldest == {v \in Running : \A w \in Running : used[v] <= used[w]} IN
    /\ call[c].pc = "pick"
    /\ IF m \notin mapping THEN Goto(c, "done")
       ELSE IF ~LimitReached THEN Goto(c, "spawn")
       ELSE \E v \in oldest :
                call' = [call EXCEPT ![c] = [@ EXCEPT !.pc = "evict", !.left = {v}]]
    /\ UNCHANGED <<mapping, bare, meta, used, stopping, reloading, proc, thr,
                   joinable, main, router>>

Evict(c) ==
    /\ call[c].pc = "evict"
    /\ \E v \in call[c].left : Unload(v)
    /\ Goto(c, "evicting")
    /\ UNCHANGED <<mapping, bare, meta, used, reloading, joinable, main>>

\* The predicate reads mapping[victim]: a victim a reload has erased is
\* made anew, empty.
Evicted(c) ==
    /\ call[c].pc = "evicting"
    /\ \A v \in call[c].left : v \in mapping => ~IsRunning(v)
    /\ call' = [call EXCEPT ![c] = [@ EXCEPT !.pc = "spawn", !.left = {}]]
    /\ mapping' = mapping \cup call[c].left
    /\ bare' = bare \cup (call[c].left \ mapping)
    /\ UNCHANGED <<meta, used, stopping, reloading, proc, thr, joinable, main, router>>

\* (Mutant.)  The capacity is not checked a second time.
SpawnUnchecked(c) ==
    LET m == call[c].name IN
    /\ m \in mapping \ bare
    /\ ~IsRunning(m)
    /\ meta' = [meta EXCEPT ![m].status = "loading"]
    /\ used' = Touch(m)
    /\ proc' = [proc EXCEPT ![m] = Spawned.proc]
    /\ thr' = [thr EXCEPT ![m] = Spawned.thr]
    /\ joinable' = joinable \cup {m}
    /\ Goto(c, AfterLoad(c))
    /\ UNCHANGED <<mapping, bare, router>>

\* The rest of load() while another thread is not reloading.  The new entry
\* replaces the old one, whose thread is joined with the lock held.
SpawnOk(c) ==
    LET m == call[c].name IN
    /\ m \notin mapping \/ ~IsRunning(m)
    /\ ~LimitReached
    /\ IF m \in mapping \ bare
       THEN /\ meta' = [meta EXCEPT ![m].status = "loading"]
            /\ used' = Touch(m)
            /\ proc' = [proc EXCEPT ![m] = Spawned.proc]
            /\ thr' = [thr EXCEPT ![m] = Spawned.thr]
            /\ joinable' = joinable \cup {m}
            /\ Goto(c, AfterLoad(c))
            /\ UNCHANGED <<mapping, bare, router>>
       \* mapping[name] has no subproc: subprocess_alive(nullptr).
       ELSE /\ mapping' = mapping \cup {m}
            /\ bare' = bare \cup {m}
            /\ router' = "segfault"
            /\ UNCHANGED <<meta, used, proc, thr, joinable, call>>

\* The model is not unloaded (not an error), the limit is reached, or there
\* is no port or no process: load() throws.
SpawnNot(c) ==
    LET m == call[c].name IN
    /\ mapping' = mapping \cup {m}
    /\ bare' = bare \cup ({m} \ mapping)
    /\ Goto(c, IF m \in mapping /\ IsRunning(m) THEN AfterLoad(c) ELSE "done")
    /\ UNCHANGED <<meta, used, proc, thr, joinable, router>>

\* (Mutant.)  load() does not wait for a reload.
SpawnAnytime(c) ==
    /\ call[c].pc = "spawn"
    /\ SpawnOk(c) \/ SpawnNot(c)
    /\ UNCHANGED <<stopping, reloading, main>>

Spawn(c) ==
    /\ call[c].pc = "spawn"
    /\ ~reloading
    /\ SpawnOk(c) \/ SpawnNot(c)
    /\ UNCHANGED <<stopping, reloading, main>>

\* wait_until_loading_finished()
LoadingFinished(c) ==
    LET m == call[c].name IN
    /\ call[c].pc = "await"
    /\ m \in mapping
    /\ meta[m].status # "loading"
    /\ Goto(c, "recheck")
    /\ UNCHANGED <<mapping, bare, meta, used, stopping, reloading, proc, thr,
                   joinable, main, router>>

\* ensure_model_ready(): a second look at the meta data.
Recheck(c) ==
    LET m == call[c].name IN
    /\ call[c].pc = "recheck"
    /\ Goto(c, IF m \notin mapping \/ (~IsRunning(m) /\ meta[m].failed)
               THEN "done" ELSE "forward")
    /\ UNCHANGED <<mapping, bare, meta, used, stopping, reloading, proc, thr,
                   joinable, main, router>>

\* proxy_request(): the port is read, then last_used written.
Forward(c) ==
    LET m == call[c].name IN
    /\ call[c].pc = "forward"
    /\ Goto(c, IF m \in mapping /\ IsRunning(m) THEN "touch" ELSE "done")
    /\ UNCHANGED <<mapping, bare, meta, used, stopping, reloading, proc, thr,
                   joinable, main, router>>

TouchUsed(c) ==
    LET m == call[c].name IN
    /\ call[c].pc = "touch"
    /\ mapping' = mapping \cup {m}
    /\ bare' = bare \cup ({m} \ mapping)
    /\ used' = Touch(m)
    /\ Goto(c, "done")
    /\ UNCHANGED <<meta, stopping, reloading, proc, thr, joinable, main, router>>

\* (Mutant.)  The status changes at once.
UnloadCallAtOnce(c) ==
    /\ call[c].pc = "unload"
    /\ meta' = [meta EXCEPT ![call[c].name].status = "unloaded"]
    /\ stopping' = stopping \cup {call[c].name}
    /\ thr' = NotifyStop(thr)
    /\ Goto(c, "done")
    /\ UNCHANGED <<mapping, bare, used, reloading, proc, joinable, main, router>>

UnloadCall(c) ==
    /\ call[c].pc = "unload"
    /\ Unload(call[c].name)
    /\ Goto(c, "done")
    /\ UNCHANGED <<mapping, bare, meta, used, reloading, joinable, main>>

(***************************************************************************)
(* load_models(), the reload.                                              *)
(***************************************************************************)
ReloadUnload(c) ==
    /\ call[c].pc = "drop"
    /\ \E m \in call[c].left :
        /\ Unload(m)
        /\ call' = [call EXCEPT ![c].left = @ \ {m}]
    /\ UNCHANGED <<mapping, bare, meta, used, reloading, joinable, main>>

\* (Mutants.)  The idle threads of the models that leave are left joinable;
\* the reload waits until nothing runs at all.
ReloadCollectRunning(c) ==
    LET moved == joinable \cap call[c].todo IN
    /\ call[c].pc = "drop"
    /\ call[c].left = {}
    /\ \A m \in call[c].todo \cap mapping : ~IsRunning(m)
    /\ joinable' = joinable \ moved
    /\ call' = [call EXCEPT ![c] = [@ EXCEPT !.pc = "join", !.left = moved]]
    /\ UNCHANGED <<mapping, bare, meta, used, stopping, reloading, proc, thr, main, router>>

ReloadCollectQuiet(c) ==
    /\ call[c].pc = "drop"
    /\ call[c].left = {}
    /\ Running = {}
    /\ joinable' = {}
    /\ call' = [call EXCEPT ![c] = [@ EXCEPT !.pc = "join", !.left = joinable]]
    /\ UNCHANGED <<mapping, bare, meta, used, stopping, reloading, proc, thr, main, router>>

\* All of them are unloaded: their threads, and those of the models that
\* leave the list, are moved out to be joined without the lock.
ReloadCollect(c) ==
    LET moved == joinable \cap (call[c].todo \cup {m \in mapping \ call[c].keep : ~IsRunning(m)})
    IN
    /\ call[c].pc = "drop"
    /\ call[c].left = {}
    /\ \A m \in call[c].todo \cap mapping : ~IsRunning(m)
    /\ joinable' = joinable \ moved
    /\ call' = [call EXCEPT ![c] = [@ EXCEPT !.pc = "join", !.left = moved]]
    /\ UNCHANGED <<mapping, bare, meta, used, stopping, reloading, proc, thr, main, router>>

\* Erased and new entries are blank; those that do not run get the new preset.
Relist(keep) ==
    /\ bare' = bare \cap keep
    /\ meta' = [m \in Models |-> IF m \notin keep \cap mapping THEN NoMeta
                                 ELSE IF IsRunning(m) THEN meta[m]
                                 ELSE [meta[m] EXCEPT !.failed = FALSE]]
    /\ used' = [m \in Models |-> IF m \in keep \cap mapping THEN used[m] ELSE 0]
    /\ proc' = [m \in Models |-> IF m \in keep \cap mapping THEN proc[m] ELSE NoProc]
    /\ thr' = [m \in Models |-> IF m \in keep \cap mapping THEN thr[m] ELSE NoThr]

\* After the joins: models leave and enter the list, the flag is cleared.
ReloadCommit(c) ==
    LET keep == call[c].keep
        new == keep \ mapping IN
    /\ call[c].pc = "join"
    /\ \A m \in call[c].left : thr[m].manager = "done"
    /\ IF joinable \cap (mapping \ keep) # {}
       THEN router' = "aborted" /\ UNCHANGED <<mapping, bare, meta, used, proc, thr, reloading, call>>
       ELSE /\ mapping' = keep
            /\ Relist(keep)
            /\ reloading' = FALSE
            /\ \E auto \in SUBSET new :
                call' = [call EXCEPT ![c] = [@ EXCEPT !.pc = "autoload", !.left = {},
                                                      !.todo = auto, !.keep = {}]]
            /\ UNCHANGED router
    /\ UNCHANGED <<stopping, joinable, main>>

\* add_model() throws on an alias of another model: the exception leaves
\* load_models() with the flag set.
ReloadThrows(c) ==
    LET keep == call[c].keep IN
    /\ call[c].pc = "join"
    /\ \A m \in call[c].left : thr[m].manager = "done"
    /\ joinable \cap (mapping \ keep) = {}
    /\ \E added \in SUBSET (keep \ mapping) :
        /\ added # keep \ mapping
        /\ mapping' = (mapping \cap keep) \cup added
    /\ Relist(keep)
    /\ call' = [call EXCEPT ![c] = [@ EXCEPT !.pc = "done", !.left = {}, !.todo = {},
                                             !.keep = {}]]
    /\ UNCHANGED <<stopping, reloading, joinable, main, router>>

Autoload(c) ==
    /\ call[c].pc = "autoload"
    /\ \/ call[c].todo = {} /\ Goto(c, "done")
       \/ \E m \in call[c].todo :
            call' = [call EXCEPT ![c].pc = "pick", ![c].name = m,
                                 ![c].todo = @ \ {m}]
    /\ UNCHANGED <<mapping, bare, meta, used, stopping, reloading, proc, thr,
                   joinable, main, router>>

(***************************************************************************)
(* Shutdown: the HTTP server has joined its threads, then unload_all().    *)
(***************************************************************************)
\* (Mutant.)  The stopping threads are not notified.
UnloadAllSilently ==
    /\ main = "serving"
    /\ \A c \in Callers : call[c].pc \in {"start", "done"}
    /\ main' = "joining"
    /\ stopping' = stopping \cup Running
    /\ UNCHANGED <<mapping, bare, meta, used, reloading, proc, thr, joinable, call, router>>

UnloadAll ==
    /\ main = "serving"
    /\ \A c \in Callers : call[c].pc \in {"start", "done"}
    /\ main' = "joining"
    /\ stopping' = stopping \cup Running
    /\ thr' = IF Running = {} THEN thr ELSE NotifyStop(thr)
    /\ UNCHANGED <<mapping, bare, meta, used, reloading, proc, joinable, call, router>>

JoinAll ==
    /\ main = "joining"
    /\ \A m \in joinable : thr[m].manager = "done"
    /\ joinable' = {}
    /\ main' = "gone"
    /\ UNCHANGED <<mapping, bare, meta, used, stopping, reloading, proc, thr, call, router>>

ModelStep(m) ==
    \/ ChildReady(m) \/ ChildSleeps(m) \/ ChildWakes(m)
    \/ ChildStops(m) \/ ChildCrashes(m) \/ ChildEnds(m)
    \/ ReadReport(m) \/ ReadEof(m) \/ Reap(m) \/ ReportUnloaded(m)
    \/ StopperWakes(m) \/ StopperSends(m) \/ StopperReturns(m) \/ StopperKills(m)

CallStep(c) ==
    \/ PickVictim(c) \/ Evict(c) \/ Evicted(c) \/ Spawn(c)
    \/ LoadingFinished(c) \/ Recheck(c) \/ Forward(c) \/ TouchUsed(c)
    \/ UnloadCall(c) \/ ReloadUnload(c) \/ ReloadCollect(c) \/ ReloadCommit(c)
    \/ ReloadThrows(c) \/ Autoload(c)

Next ==
    /\ router = "up"
    /\ \/ \E m \in Models : ModelStep(m)
       \/ \E c \in Callers : Start(c) \/ CallStep(c)
       \/ UnloadAll \/ JoinAll

Spec == Init /\ [][Next]_vars

(***************************************************************************)
(* Fairness: the threads of the router are scheduled, a child that loads   *)
(* gets ready or ends, and the operating system finishes a process that    *)
(* has closed its output.  Nothing is assumed of a child that is told to   *)
(* exit: it may hang until it is killed.                                   *)
(***************************************************************************)
Threads(m) == ReadReport(m) \/ ReadEof(m) \/ Reap(m) \/ ReportUnloaded(m)
Stopper(m) == StopperWakes(m) \/ StopperSends(m) \/ StopperReturns(m) \/ StopperKills(m)
Loads(m) == proc[m].child = "loading" /\ (ChildReady(m) \/ ChildCrashes(m))

Fairness ==
    /\ \A m \in Models : /\ WF_vars(router = "up" /\ Threads(m))
                         /\ WF_vars(router = "up" /\ Stopper(m))
                         /\ WF_vars(router = "up" /\ Loads(m))
                         /\ WF_vars(router = "up" /\ ChildEnds(m))
    /\ \A c \in Callers : WF_vars(router = "up" /\ CallStep(c))
    /\ WF_vars(router = "up" /\ JoinAll)

FairSpec == Spec /\ Fairness

(***************************************************************************)
(* Properties.                                                             *)
(***************************************************************************)
\* Whatever calls overlap between the choice of a victim and the spawn, no
\* more than models_max models are loading, loaded or asleep.
AtMostMaxModels == MaxModels > 0 => Cardinality(Running) <= MaxModels

\* A model that is listed as unloaded has no process, and its managing thread
\* takes the mutex no more: load() joins it with the mutex held.
UnloadedIsFinished ==
    \A m \in Models :
        (m \in mapping /\ ~IsRunning(m)) =>
            /\ thr[m].manager \in {"none", "done"}
            /\ proc[m].child \in {"none", "reaped"}

\* While a process is alive its model is listed as running and is managed:
\* a reload never forgets one.
ProcessIsListed ==
    \A m \in Models : Lives(m) => m \in Running /\ thr[m].manager = "reading"

\* Between the wait for the unloaded models and the end of the reload none
\* of them is loaded again, nor any that leaves the list.
ReloadIsQuiet ==
    \A c \in Callers : call[c].pc = "join" =>
        /\ \A m \in call[c].todo \cap mapping : ~IsRunning(m)
        /\ Running \subseteq call[c].keep

\* The assertion of the reload: the thread of an erased model was joined.
NeverAborts == router # "aborted"

\* The stopping thread saw its child alive when the output was already closed:
\* the managing thread, which will not notify it again, waits to join it.
MissesEnd(m) ==
    thr[m].manager = "joining" /\ thr[m].stopper = "waiting" /\ ~thr[m].woken

\* The liveness properties hold until the router dies or a thread is stuck so.
Impaired == router # "up" \/ \E m \in Models : MissesEnd(m)

\* An unloaded model ends, though its child may not react: it is killed
\* after stop_timeout.
UnloadCompletes ==
    \A m \in Models : (m \in stopping /\ m \in Running) ~> (m \notin Running \/ Impaired)

\* The end of a process is noticed, by the managing thread and by the
\* stopping thread that it waits for, which looks at the child itself.
EndIsNoticed ==
    \A m \in Models : (m \in Running /\ ~Lives(m)) ~> (m \notin Running \/ Impaired)

\* A request that waits for a model to load is woken, unless a reload takes
\* the model off the list.
LoadingWaitEnds ==
    \A c \in Callers : (call[c].pc = "await") ~>
        (call[c].pc # "await" \/ call[c].name \notin mapping \/ Impaired)

\* A reload ends, so that the loads that wait for it go on.
ReloadEnds ==
    \A c \in Callers : (call[c].pc \in {"drop", "join"}) ~>
        (call[c].pc \notin {"drop", "join"} \/ Impaired)

\* unload_all() comes back, and no process is left behind.
ShutdownReaps ==
    (main = "joining") ~> ((main = "gone" /\ \A m \in Models : ~Lives(m)) \/ Impaired)

(***************************************************************************)
(* Properties the comments of the source lead one to expect.               *)
(***************************************************************************)
\* The stopping thread is there "to monitor stopping signal OR child crash":
\* no crash is missed.
CrashIsNoticed ==
    \A m \in Models : (m \in Running /\ ~Lives(m)) ~> (m \notin Running \/ router # "up")

\* load() blocks only "until any in-progress reload has finished".
FlagHasReloader ==
    reloading => \E c \in Callers : call[c].op = "reload" /\ call[c].pc \in {"drop", "join"}

\* A load() that waits "for unload to complete" goes on when it has.
EvictionWaitEnds ==
    \A c \in Callers : (call[c].pc = "evicting") ~> (call[c].pc # "evicting" \/ Impaired)

\* Unloading a model that loads means "force-killing it", and nothing else.
KillsOnlyItsChild == router # "killed"
=============================================================================
