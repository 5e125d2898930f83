----------------------------- MODULE RouterProofs -----------------------------
(***************************************************************************)
(* Theorems about Router for any finite set of models, any callers, any    *)
(* work they may be asked for and any limit.                               *)
(***************************************************************************)
EXTENDS Router, TLAPS, FiniteSetTheorems

-----------------------------------------------------------------------------
(***************************************************************************)
(* Types.                                                                  *)
(***************************************************************************)
Procs == [child : ChildStates, bad : BOOLEAN, out : Seq({"ready", "sleep"}), exit : BOOLEAN]
Thrs == [manager : {"none", "reading", "joining", "reporting", "done"},
         stopper : {"none", "waiting", "woke", "stopping", "done"},
         woken : BOOLEAN]
Metas == [status : Statuses, failed : BOOLEAN]
Calls == [pc : CallPcs, op : Ops, name : Models, left : SUBSET Models,
          todo : SUBSET Models, keep : SUBSET Models]

\* TypeOK in terms of these sets.
Typed ==
    /\ mapping \subseteq Models
    /\ bare \subseteq Models
    /\ meta \in [Models -> Metas]
    /\ used \in [Models -> 0 .. Cardinality(Models)]
    /\ stopping \subseteq Models
    /\ reloading \in BOOLEAN
    /\ proc \in [Models -> Procs]
    /\ thr \in [Models -> Thrs]
    /\ joinable \subseteq Models
    /\ call \in [Callers -> Calls]
    /\ main \in {"serving", "joining", "gone"}
    /\ router \in {"up", "killed", "aborted", "segfault"}

LEMMA TypedIsTypeOK == (TypeOK <=> Typed) /\ (TypeOK' <=> Typed')
  BY DEF TypeOK, Typed, Procs, Thrs, Metas, Calls

\* A new use of a model renumbers the ranks within their range.
LEMMA TouchType ==
    ASSUME Typed, NEW m \in Models
    PROVE  Touch(m) \in [Models -> 0 .. Cardinality(Models)]
<1>1. Cardinality(Models) \in Nat
  BY SizeAssumption, FS_CardinalityType
<1> QED
  BY <1>1 DEF Touch, Typed

\* A record with a new field value is still of its type.
LEMMA ProcUpdate ==
    ASSUME NEW p \in Procs
    PROVE  /\ \A s \in ChildStates : [p EXCEPT !.child = s] \in Procs
           /\ \A q \in Seq({"ready", "sleep"}) : [p EXCEPT !.out = q] \in Procs
           /\ \A s \in ChildStates, q \in Seq({"ready", "sleep"}) :
                [p EXCEPT !.child = s, !.out = q] \in Procs
           /\ \A b \in BOOLEAN : [p EXCEPT !.exit = b] \in Procs
           /\ \A s \in ChildStates, b \in BOOLEAN :
                [p EXCEPT !.child = s, !.bad = b] \in Procs
  BY DEF Procs

LEMMA ThrUpdate ==
    ASSUME NEW t \in Thrs
    PROVE  /\ \A s \in {"none", "reading", "joining", "reporting", "done"} :
                [t EXCEPT !.manager = s] \in Thrs
           /\ \A s \in {"none", "waiting", "woke", "stopping", "done"} :
                [t EXCEPT !.stopper = s] \in Thrs
           /\ \A b \in BOOLEAN : [t EXCEPT !.woken = b] \in Thrs
  BY DEF Thrs

LEMMA MetaUpdate ==
    ASSUME NEW x \in Metas
    PROVE  /\ \A s \in Statuses : [x EXCEPT !.status = s] \in Metas
           /\ \A b \in BOOLEAN : [x EXCEPT !.failed = b] \in Metas
           /\ \A s \in Statuses, b \in BOOLEAN : [status |-> s, failed |-> b] \in Metas
  BY DEF Metas

LEMMA CallUpdate ==
    ASSUME NEW k \in Calls
    PROVE  /\ k.name \in Models /\ k.op \in Ops
           /\ k.left \subseteq Models /\ k.todo \subseteq Models /\ k.keep \subseteq Models
           /\ \A s \in CallPcs : [k EXCEPT !.pc = s] \in Calls
           /\ \A l \in SUBSET Models : [k EXCEPT !.left = l] \in Calls
           /\ \A s \in CallPcs, l \in SUBSET Models : [k EXCEPT !.pc = s, !.left = l] \in Calls
           /\ \A s \in CallPcs, l, d, e \in SUBSET Models :
                [k EXCEPT !.pc = s, !.left = l, !.todo = d, !.keep = e] \in Calls
           /\ \A s \in CallPcs, n \in Models, d \in SUBSET Models :
                [k EXCEPT !.pc = s, !.name = n, !.todo = d] \in Calls
  BY DEF Calls

\* Notifications and kills keep the types.
LEMMA NotifyType ==
    ASSUME NEW t \in [Models -> Thrs]
    PROVE  NotifyStop(t) \in [Models -> Thrs]
<1> SUFFICES ASSUME NEW m \in Models
             PROVE  [t[m] EXCEPT !.woken = @ \/ t[m].stopper = "waiting"] \in Thrs
  BY DEF NotifyStop
<1>1. (t[m].woken \/ t[m].stopper = "waiting") \in BOOLEAN
  OBVIOUS
<1> QED
  BY <1>1, ThrUpdate

LEMMA KilledType ==
    ASSUME proc \in [Models -> Procs], NEW m \in Models
    PROVE  Killed(m) \in [Models -> Procs]
<1>1. Exited(proc[m], TRUE) \in Procs
  <2>1. "closing" \in ChildStates
    BY DEF ChildStates
  <2> QED
    BY <2>1, ProcUpdate DEF Exited
<1> QED
  BY <1>1 DEF Killed

\* Polling a child changes nothing but the state of a zombie.
LEMMA PolledType ==
    ASSUME proc \in [Models -> Procs], NEW m \in Models
    PROVE  Polled(m) \in [Models -> Procs]
<1>1. (IF proc[m].child = "zombie" THEN "reaped" ELSE proc[m].child) \in ChildStates
  BY DEF Procs, ChildStates
<1> QED
  BY <1>1, ProcUpdate DEF Polled

LEMMA PolledChild ==
    ASSUME proc \in [Models -> Procs], NEW m \in Models, NEW x \in Models
    PROVE  \/ Polled(m)[x].child = proc[x].child
           \/ proc[x].child = "zombie" /\ Polled(m)[x].child = "reaped"
<1>1. CASE x = m
  <2> DEFINE new == IF proc[m].child = "zombie" THEN "reaped" ELSE proc[m].child
  <2>1. Polled(m)[m] = [proc[m] EXCEPT !.child = new]
    BY DEF Polled
  <2>2. Polled(m)[m].child = new
    BY <2>1 DEF Procs
  <2> QED
    BY <1>1, <2>2
<1>2. CASE x # m
  BY <1>2 DEF Polled
<1> QED
  BY <1>1, <1>2

\* Only a living child is killed.
LEMMA KilledChild ==
    ASSUME proc \in [Models -> Procs], NEW m \in Models, NEW x \in Models
    PROVE  \/ Killed(m)[x].child = proc[x].child
           \/ Lives(x) /\ Killed(m)[x].child = "closing"
  BY DEF Killed, Exited, Procs

\* What an unload changes stays well typed.
LEMMA UnloadType ==
    ASSUME Typed, NEW m \in Models, Unload(m)
    PROVE  /\ stopping' \subseteq Models
           /\ thr' \in [Models -> Thrs]
           /\ proc' \in [Models -> Procs]
           /\ router' \in {"up", "killed", "aborted", "segfault"}
  BY NotifyType, KilledType DEF Unload, Typed

\* A step of a child, or of the threads of a model, keeps the types.
LEMMA ModelStepType ==
    ASSUME Typed, NEW m \in Models, ModelStep(m)
    PROVE  Typed'
<1> USE DEF Typed
<1>a. ASSUME NEW s \in ChildStates, NEW b \in BOOLEAN
      PROVE  /\ [proc EXCEPT ![m].child = s] \in [Models -> Procs]
             /\ [proc EXCEPT ![m] = Exited(@, b)] \in [Models -> Procs]
  <2>1. "closing" \in ChildStates
    BY DEF ChildStates
  <2> QED
    BY <2>1, ProcUpdate DEF Exited
<1>b. ASSUME NEW s \in {"none", "reading", "joining", "reporting", "done"}
      PROVE  [thr EXCEPT ![m].manager = s] \in [Models -> Thrs]
  BY ThrUpdate
<1>c. ASSUME NEW s \in {"none", "waiting", "woke", "stopping", "done"}
      PROVE  [thr EXCEPT ![m].stopper = s] \in [Models -> Thrs]
  BY ThrUpdate
<1>d. {"up", "asleep", "closing", "zombie", "reaped"} \subseteq ChildStates
  BY DEF ChildStates
<1>e. Polled(m) \in [Models -> Procs]
  BY PolledType
<1>1. ASSUME NEW word \in {"ready", "sleep"}, NEW state \in ChildStates, Says(m, word, state)
      PROVE  Typed'
  <2>1. proc[m].out \in Seq({"ready", "sleep"})
    BY DEF Procs
  <2>2. Append(proc[m].out, word) \in Seq({"ready", "sleep"})
    BY <2>1
  <2>3. proc' \in [Models -> Procs]
    BY <1>1, <2>2, ProcUpdate DEF Says
  <2> QED
    BY <1>1, <2>3 DEF Says
<1>2. CASE ChildReady(m) \/ ChildSleeps(m) \/ ChildWakes(m)
  BY <1>1, <1>2, <1>d DEF ChildReady, ChildSleeps, ChildWakes
<1>3. CASE ChildStops(m) \/ ChildCrashes(m) \/ ChildEnds(m)
  BY <1>3, <1>a, <1>d DEF ChildStops, ChildCrashes, ChildEnds
<1>4. CASE ReadReport(m)
  <2>1. proc[m].out \in Seq({"ready", "sleep"}) /\ proc[m].out # <<>>
    BY <1>4 DEF ReadReport, Procs
  <2>2. Tail(proc[m].out) \in Seq({"ready", "sleep"})
    BY <2>1
  <2>3. proc' \in [Models -> Procs]
    BY <1>4, <2>2, ProcUpdate DEF ReadReport
  <2>4. (IF Head(proc[m].out) = "ready" THEN "loaded" ELSE "sleeping") \in Statuses
    BY DEF Statuses
  <2>5. meta' \in [Models -> Metas]
    BY <1>4, <2>4, MetaUpdate DEF ReadReport, Metas
  <2> QED
    BY <1>4, <2>3, <2>5 DEF ReadReport
<1>5. CASE ReadEof(m)
  BY <1>5, <1>b, NotifyType DEF ReadEof
<1>6. CASE Reap(m)
  BY <1>6, <1>a, <1>b, <1>d DEF Reap
<1>7. CASE ReportUnloaded(m)
  <2>1. [status |-> "unloaded", failed |-> proc[m].bad] \in Metas
    BY DEF Metas, Statuses, Procs
  <2> QED
    BY <1>7, <1>b, <2>1 DEF ReportUnloaded
<1>8. CASE StopperWakes(m)
  <2>1. ASSUME NEW s \in {"none", "waiting", "woke", "stopping", "done"}
        PROVE  [thr[m] EXCEPT !.woken = FALSE, !.stopper = s] \in Thrs
    BY DEF Thrs
  <2>2. (IF m \in stopping \/ ~IsAlive(m) THEN "woke" ELSE thr[m].stopper)
          \in {"none", "waiting", "woke", "stopping", "done"}
    BY DEF Thrs
  <2>3. thr' \in [Models -> Thrs]
    BY <1>8, <2>1, <2>2 DEF StopperWakes
  <2> QED
    BY <1>8, <1>e, <2>3 DEF StopperWakes
<1>9. CASE StopperSends(m)
  <2>1. (Polled(m)[m].exit \/ IsAlive(m)) \in BOOLEAN
    BY <1>e DEF IsAlive
  <2>2. proc' \in [Models -> Procs]
    BY <1>9, <1>e, <2>1, ProcUpdate DEF StopperSends
  <2> QED
    BY <1>9, <1>c, <2>2 DEF StopperSends
<1>10. CASE StopperReturns(m)
  BY <1>10, <1>c DEF StopperReturns
<1>11. CASE StopperKills(m)
  BY <1>11, <1>c, KilledType DEF StopperKills
<1> QED
  BY <1>2, <1>3, <1>4, <1>5, <1>6, <1>7, <1>8, <1>9, <1>10, <1>11 DEF ModelStep

\* A reload leaves well-typed entries.
LEMMA RelistType ==
    ASSUME Typed, NEW keep \in SUBSET Models, Relist(keep)
    PROVE  /\ bare' \subseteq Models
           /\ meta' \in [Models -> Metas]
           /\ used' \in [Models -> 0 .. Cardinality(Models)]
           /\ proc' \in [Models -> Procs]
           /\ thr' \in [Models -> Thrs]
<1>1. Cardinality(Models) \in Nat
  BY SizeAssumption, FS_CardinalityType
<1>2. bare' \subseteq Models /\ used' \in [Models -> 0 .. Cardinality(Models)]
  BY <1>1 DEF Relist, Typed
<1>3. NoMeta \in Metas /\ NoProc \in Procs /\ NoThr \in Thrs
  BY DEF NoMeta, NoProc, NoThr, Metas, Procs, Thrs, Statuses, ChildStates
<1>4. meta' \in [Models -> Metas]
  BY <1>3, MetaUpdate DEF Relist, Typed
<1>5. proc' \in [Models -> Procs] /\ thr' \in [Models -> Thrs]
  BY <1>3 DEF Relist, Typed
<1> QED
  BY <1>2, <1>4, <1>5

\* A step of a call keeps the types.
LEMMA CallStepType ==
    ASSUME Typed, NEW c \in Callers, Start(c) \/ CallStep(c)
    PROVE  Typed'
<1> USE DEF Typed
<1>a. /\ call[c] \in Calls /\ call[c].name \in Models
      /\ call[c].left \subseteq Models /\ call[c].todo \subseteq Models
      /\ call[c].keep \subseteq Models
  BY CallUpdate
<1>b. ASSUME NEW label \in CallPcs, Goto(c, label)
      PROVE  call' \in [Callers -> Calls]
  BY <1>a, <1>b, CallUpdate DEF Goto
<1>c. AfterLoad(c) \in CallPcs
  BY DEF AfterLoad, CallPcs
<1>d. CallPcs = {"start", "pick", "evict", "evicting", "spawn", "await", "recheck",
                 "forward", "touch", "unload", "drop", "join", "autoload", "done"}
  BY DEF CallPcs
<1>1. CASE Start(c)
  <2>1. CASE StartRequest(c) \/ StartDirect(c)
    BY <1>b, <1>d, <1>1, <2>1 DEF Start, StartRequest, StartDirect
  <2>2. CASE StartReload(c)
    <3>1. PICK disk \in SUBSET Models, changed \in SUBSET Running :
             call' = [call EXCEPT ![c] = [@ EXCEPT !.pc = "drop",
                          !.left = (Running \ disk) \cup changed,
                          !.todo = (Running \ disk) \cup changed, !.keep = disk]]
      BY <2>2 DEF StartReload
    <3>2. (Running \ disk) \cup changed \subseteq Models
      BY DEF Running
    <3>3. call' \in [Callers -> Calls]
      BY <1>a, <1>d, <3>1, <3>2, CallUpdate
    <3> QED
      BY <1>1, <2>2, <3>3 DEF Start, StartReload
  <2> QED
    BY <1>1, <2>1, <2>2 DEF Start
<1>2. CASE PickVictim(c)
  <2>1. CASE Goto(c, "done") \/ Goto(c, "spawn")
    BY <1>b, <1>d, <1>2, <2>1 DEF PickVictim
  <2>2. ASSUME NEW v \in Running,
               call' = [call EXCEPT ![c] = [@ EXCEPT !.pc = "evict", !.left = {v}]]
        PROVE  Typed'
    <3>1. {v} \subseteq Models
      BY DEF Running
    <3>2. call' \in [Callers -> Calls]
      BY <1>a, <1>d, <2>2, <3>1, CallUpdate
    <3> QED
      BY <1>2, <3>2 DEF PickVictim
  <2> QED
    BY <1>2, <2>1, <2>2 DEF PickVictim
<1>3. CASE Evict(c)
  <2>1. PICK v \in call[c].left : Unload(v)
    BY <1>3 DEF Evict
  <2> QED
    BY <1>a, <1>b, <1>d, <1>3, <2>1, UnloadType DEF Evict
<1>4. CASE Evicted(c)
  <2>1. call' \in [Callers -> Calls]
    BY <1>a, <1>d, <1>4, CallUpdate DEF Evicted
  <2> QED
    BY <1>a, <1>4, <2>1 DEF Evicted
<1>5. CASE Spawn(c)
  <2>1. CASE SpawnOk(c) /\ call[c].name \in mapping \ bare
    <3>1. used' \in [Models -> 0 .. Cardinality(Models)]
      BY <1>a, <2>1, TouchType DEF SpawnOk
    <3>2. Spawned.proc \in Procs
      BY DEF Spawned, Procs, ChildStates
    <3>3. Spawned.thr \in Thrs
      BY DEF Spawned, Thrs
    <3>4. proc' \in [Models -> Procs] /\ thr' \in [Models -> Thrs]
      BY <2>1, <3>2, <3>3 DEF SpawnOk
    <3>5. meta' \in [Models -> Metas]
      <4>1. "loading" \in Statuses
        BY DEF Statuses
      <4> QED
        BY <2>1, <4>1, MetaUpdate DEF SpawnOk
    <3>6. call' \in [Callers -> Calls]
      BY <1>b, <1>c, <2>1 DEF SpawnOk
    <3> QED
      BY <1>a, <1>5, <2>1, <3>1, <3>4, <3>5, <3>6 DEF Spawn, SpawnOk
  <2>2. CASE SpawnOk(c) /\ call[c].name \notin mapping \ bare
    BY <1>a, <1>5, <2>2 DEF Spawn, SpawnOk
  <2>3. CASE SpawnNot(c)
    BY <1>a, <1>b, <1>c, <1>d, <1>5, <2>3 DEF Spawn, SpawnNot
  <2> QED
    BY <1>5, <2>1, <2>2, <2>3 DEF Spawn
<1>6. CASE LoadingFinished(c) \/ Recheck(c) \/ Forward(c)
  BY <1>b, <1>d, <1>6 DEF LoadingFinished, Recheck, Forward
<1>7. CASE TouchUsed(c)
  BY <1>a, <1>b, <1>d, <1>7, TouchType DEF TouchUsed
<1>8. CASE UnloadCall(c)
  BY <1>a, <1>b, <1>d, <1>8, UnloadType DEF UnloadCall
<1>9. CASE ReloadUnload(c)
  <2>1. PICK m \in call[c].left : Unload(m) /\ call' = [call EXCEPT ![c].left = @ \ {m}]
    BY <1>9 DEF ReloadUnload
  <2>2. m \in Models /\ call[c].left \ {m} \subseteq Models
    BY <1>a
  <2>3. call' \in [Callers -> Calls]
    BY <1>a, <2>1, <2>2, CallUpdate
  <2> QED
    BY <1>9, <2>1, <2>2, <2>3, UnloadType DEF ReloadUnload
<1>10. CASE ReloadCollect(c)
  <2>1. PICK moved \in SUBSET Models :
           /\ joinable' = joinable \ moved
           /\ call' = [call EXCEPT ![c] = [@ EXCEPT !.pc = "join", !.left = moved]]
    BY <1>10 DEF ReloadCollect
  <2>2. call' \in [Callers -> Calls]
    BY <1>a, <1>d, <2>1, CallUpdate
  <2> QED
    BY <1>10, <2>1, <2>2 DEF ReloadCollect
<1>11. CASE ReloadCommit(c)
  <2>1. CASE joinable \cap (mapping \ call[c].keep) # {}
    BY <1>11, <2>1 DEF ReloadCommit
  <2>2. CASE joinable \cap (mapping \ call[c].keep) = {}
    <3>1. PICK auto \in SUBSET (call[c].keep \ mapping) :
             call' = [call EXCEPT ![c] = [@ EXCEPT !.pc = "autoload", !.left = {},
                                                   !.todo = auto, !.keep = {}]]
      BY <1>11, <2>2 DEF ReloadCommit
    <3>2. auto \subseteq Models
      BY <1>a
    <3>3. call' \in [Callers -> Calls]
      BY <1>a, <1>d, <3>1, <3>2, CallUpdate
    <3>4. Relist(call[c].keep)
      BY <1>11, <2>2 DEF ReloadCommit
    <3>5. /\ mapping' = call[c].keep /\ reloading' = FALSE
          /\ UNCHANGED <<stopping, joinable, main, router>>
      BY <1>11, <2>2 DEF ReloadCommit
    <3> QED
      BY <1>a, <3>3, <3>4, <3>5, RelistType
  <2> QED
    BY <2>1, <2>2
<1>12. CASE ReloadThrows(c)
  <2>1. Relist(call[c].keep)
    BY <1>12 DEF ReloadThrows
  <2>2. call' \in [Callers -> Calls]
    BY <1>a, <1>d, <1>12, CallUpdate DEF ReloadThrows
  <2>3. mapping' \subseteq Models
    BY <1>a, <1>12 DEF ReloadThrows
  <2> QED
    BY <1>a, <1>12, <2>1, <2>2, <2>3, RelistType DEF ReloadThrows
<1>13. CASE Autoload(c)
  <2>1. CASE Goto(c, "done")
    BY <1>b, <1>d, <1>13, <2>1 DEF Autoload
  <2>2. ASSUME NEW m \in call[c].todo,
               call' = [call EXCEPT ![c].pc = "pick", ![c].name = m,
                                    ![c].todo = @ \ {m}]
        PROVE  Typed'
    <3>1. m \in Models /\ call[c].todo \ {m} \subseteq Models
      BY <1>a
    <3>2. call' \in [Callers -> Calls]
      BY <1>a, <1>d, <2>2, <3>1, CallUpdate, ZenonT(40)
    <3> QED
      BY <1>13, <3>2 DEF Autoload
  <2> QED
    BY <1>13, <2>1, <2>2 DEF Autoload
<1> QED
  BY <1>1, <1>2, <1>3, <1>4, <1>5, <1>6, <1>7, <1>8, <1>9, <1>10, <1>11, <1>12, <1>13
     DEF CallStep

LEMMA InitTyped == Init => Typed
<1> SUFFICES ASSUME Init
             PROVE  Typed
  OBVIOUS
<1>1. Spawned.proc \in Procs /\ NoProc \in Procs
  BY DEF Spawned, NoProc, ChildStates, Procs
<1>2. Spawned.thr \in Thrs /\ NoThr \in Thrs
  BY DEF Spawned, NoThr, Thrs
<1>3. meta \in [Models -> Metas]
  BY DEF Init, NoMeta, Statuses, Metas
<1>4. call \in [Callers -> Calls]
  BY DEF Init, Calls, CallPcs
<1>5. proc \in [Models -> Procs] /\ thr \in [Models -> Thrs]
  BY <1>1, <1>2 DEF Init
<1> QED
  BY <1>3, <1>4, <1>5, StartupAssumption DEF Init, Typed

LEMMA TypedStep == Typed /\ [Next]_vars => Typed'
<1> SUFFICES ASSUME Typed, [Next]_vars
             PROVE  Typed'
  OBVIOUS
<1>1. CASE UNCHANGED vars
  BY <1>1 DEF vars, Typed
<1>2. CASE UnloadAll \/ JoinAll
  BY <1>2, NotifyType DEF UnloadAll, JoinAll, Typed, Running
<1> QED
  BY <1>1, <1>2, ModelStepType, CallStepType DEF Next

\* TypeOK holds in every reachable state.
THEOREM RouterTypeCorrect == Spec => []TypeOK
<1>1. Init => TypeOK
  BY InitTyped, TypedIsTypeOK
<1>2. TypeOK /\ [Next]_vars => TypeOK'
  BY TypedStep, TypedIsTypeOK
<1> QED
  BY <1>1, <1>2, PTL DEF Spec

-----------------------------------------------------------------------------
(***************************************************************************)
(* Entries and processes.                                                  *)
(***************************************************************************)
\* A model that is not listed has no status, no threads and no process.
Unlisted ==
    \A m \in Models \ mapping :
        /\ meta[m].status = "unloaded"
        /\ thr[m].manager = "none"
        /\ proc[m].child = "none"
        /\ m \notin joinable

\* How far the managing thread has come tells the state of the child.
Stages ==
    \A m \in Models :
        /\ (thr[m].manager = "none") <=> (proc[m].child = "none")
        /\ thr[m].manager = "joining" => ~Lives(m)
        /\ thr[m].manager \in {"reporting", "done"} => proc[m].child = "reaped"

RouterInv == Typed /\ Unlisted /\ Stages /\ UnloadedIsFinished

\* The running models become more only by a spawn.
NoNewRunner == Running' \subseteq Running

LEMMA InitRouterInv == Init => RouterInv
<1> SUFFICES ASSUME Init
             PROVE  RouterInv
  OBVIOUS
<1>1. Typed
  BY InitTyped
<1>2. Unlisted
  BY DEF Init, Unlisted, NoMeta, NoThr, NoProc
<1>3. Stages
  BY DEF Init, Stages, Lives, NoThr, NoProc, Spawned
<1>4. UnloadedIsFinished
  BY DEF Init, UnloadedIsFinished, IsRunning, NoMeta, NoThr, NoProc
<1> QED
  BY <1>1, <1>2, <1>3, <1>4 DEF RouterInv

\* What unload() does to a model is invisible to the invariant: a child that
\* is killed was alive.
LEMMA UnloadInv ==
    ASSUME RouterInv, NEW m \in Models, Unload(m), UNCHANGED <<mapping, meta, joinable>>
    PROVE  /\ Unlisted' /\ Stages' /\ UnloadedIsFinished'
           /\ Running' = Running
<1> USE DEF RouterInv, Typed
<1>1. \A x \in Models : thr'[x].manager = thr[x].manager
  BY DEF Unload, NotifyStop, Thrs
<1>2. \A x \in Models : proc'[x].child = proc[x].child
                          \/ (Lives(x) /\ proc'[x].child = "closing")
  BY KilledChild DEF Unload
<1>3. Unlisted'
  BY <1>1, <1>2 DEF Unlisted, Lives
<1>4. Stages'
  BY <1>1, <1>2 DEF Stages, Lives
<1>5. UnloadedIsFinished'
  BY <1>1, <1>2 DEF UnloadedIsFinished, IsRunning, Lives
<1> QED
  BY <1>3, <1>4, <1>5 DEF Running, IsRunning

\* A step of a child, of its managing thread or of its stopping thread.
LEMMA ModelStepInv ==
    ASSUME RouterInv, NEW m \in Models, ModelStep(m)
    PROVE  /\ Unlisted' /\ Stages' /\ UnloadedIsFinished'
           /\ NoNewRunner
<1> USE DEF RouterInv, Typed
<1>1. ASSUME UNCHANGED <<mapping, meta, joinable>>,
             \A x \in Models : thr'[x].manager = thr[x].manager,
             \A x \in Models :
                \/ proc'[x].child = proc[x].child
                \/ Lives(x) /\ proc'[x].child \in {"up", "asleep", "closing"}
                \/ proc[x].child = "closing" /\ proc'[x].child = "zombie"
                \/ proc[x].child = "zombie" /\ proc'[x].child = "reaped"
      PROVE  Unlisted' /\ Stages' /\ UnloadedIsFinished' /\ NoNewRunner
  <2>1. Unlisted'
    BY <1>1 DEF Unlisted, Lives
  <2>2. Stages'
    BY <1>1 DEF Stages, Lives
  <2>3. UnloadedIsFinished'
    BY <1>1 DEF UnloadedIsFinished, IsRunning, Lives
  <2> QED
    BY <1>1, <2>1, <2>2, <2>3 DEF NoNewRunner, Running, IsRunning
<1>2. CASE ChildReady(m) \/ ChildSleeps(m) \/ ChildWakes(m)
  <2>1. CASE ChildReady(m)
    BY <1>1, <2>1 DEF ChildReady, Says, Lives, Procs
  <2>2. CASE ChildSleeps(m)
    BY <1>1, <2>2 DEF ChildSleeps, Says, Lives, Procs
  <2>3. CASE ChildWakes(m)
    BY <1>1, <2>3 DEF ChildWakes, Says, Lives, Procs
  <2> QED
    BY <1>2, <2>1, <2>2, <2>3
<1>3. CASE ChildStops(m) \/ ChildCrashes(m) \/ ChildEnds(m)
  <2>1. CASE ChildStops(m)
    BY <1>1, <2>1 DEF ChildStops, Exited, Lives, Procs
  <2>2. CASE ChildCrashes(m)
    BY <1>1, <2>2 DEF ChildCrashes, Exited, Lives, Procs
  <2>3. CASE ChildEnds(m)
    BY <1>1, <2>3 DEF ChildEnds, Exited, Lives, Procs
  <2> QED
    BY <1>3, <2>1, <2>2, <2>3
<1>4. CASE StopperWakes(m)
  <2>1. \A x \in Models : thr'[x].manager = thr[x].manager
    BY <1>4 DEF StopperWakes, Thrs
  <2>2. UNCHANGED <<mapping, meta, joinable>>
    BY <1>4 DEF StopperWakes
  <2>3. \A x \in Models : proc'[x].child = proc[x].child
                           \/ (proc[x].child = "zombie" /\ proc'[x].child = "reaped")
    BY <1>4, PolledChild DEF StopperWakes
  <2> QED
    BY <1>1, <2>1, <2>2, <2>3
<1>5. CASE StopperSends(m)
  <2>1. \A x \in Models : thr'[x].manager = thr[x].manager
    BY <1>5 DEF StopperSends, Thrs
  <2>2. UNCHANGED <<mapping, meta, joinable>>
    BY <1>5 DEF StopperSends
  <2>3. \A x \in Models : proc'[x].child = Polled(m)[x].child
    <3>1. Polled(m) \in [Models -> Procs]
      BY PolledType
    <3> QED
      BY <1>5, <3>1 DEF StopperSends, Procs
  <2>4. \A x \in Models : proc'[x].child = proc[x].child
                           \/ (proc[x].child = "zombie" /\ proc'[x].child = "reaped")
    BY <2>3, PolledChild
  <2> QED
    BY <1>1, <2>1, <2>2, <2>4
<1>6. CASE StopperReturns(m) \/ StopperKills(m)
  <2>1. \A x \in Models : thr'[x].manager = thr[x].manager
    BY <1>6 DEF StopperReturns, StopperKills, Thrs
  <2>2. UNCHANGED <<mapping, meta, joinable>>
    BY <1>6 DEF StopperReturns, StopperKills
  <2>3. \A x \in Models : proc'[x].child = proc[x].child
                           \/ (Lives(x) /\ proc'[x].child = "closing")
    BY <1>6, KilledChild DEF StopperReturns, StopperKills
  <2> QED
    BY <1>1, <2>1, <2>2, <2>3
<1>7. CASE ReadReport(m)
  <2>1. m \in mapping /\ m \in Running
    BY <1>7 DEF ReadReport, Stages, Unlisted, UnloadedIsFinished, Running, IsRunning, Procs
  <2>2. /\ mapping' = mapping /\ joinable' = joinable /\ thr' = thr
        /\ \A x \in Models : proc'[x].child = proc[x].child
    BY <1>7 DEF ReadReport, Procs
  <2>3. \A x \in Models : meta'[x].status = meta[x].status
                          \/ (x = m /\ meta'[x].status \in {"loaded", "sleeping"})
    <3> DEFINE word == IF Head(proc[m].out) = "ready" THEN "loaded" ELSE "sleeping"
    <3>1. word \in {"loaded", "sleeping"}
      OBVIOUS
    <3>2. meta' = [meta EXCEPT ![m] = [status |-> word, failed |-> FALSE]]
      BY <1>7, <2>1 DEF ReadReport
    <3> HIDE DEF word
    <3> QED
      BY <3>1, <3>2
  <2>4. Unlisted' /\ Stages'
    BY <2>1, <2>2, <2>3 DEF Unlisted, Stages, Lives
  <2>5. UnloadedIsFinished'
    BY <2>1, <2>2, <2>3 DEF UnloadedIsFinished, IsRunning
  <2>6. NoNewRunner
    BY <2>1, <2>2, <2>3 DEF NoNewRunner, Running, IsRunning
  <2> QED
    BY <2>4, <2>5, <2>6
<1>8. CASE ReadEof(m)
  <2>1. /\ UNCHANGED <<mapping, joinable, meta, proc>>
        /\ thr[m].manager = "reading" /\ ~Lives(m)
        /\ thr'[m].manager = "joining"
        /\ \A x \in Models \ {m} : thr'[x].manager = thr[x].manager
    BY <1>8 DEF ReadEof, NotifyStop, Thrs
  <2>2. m \in Running
    BY <2>1 DEF Stages, Unlisted, UnloadedIsFinished, Running, IsRunning, Procs
  <2>3. Unlisted' /\ Stages'
    BY <2>1, <2>2 DEF Unlisted, Stages, Lives, Running
  <2>4. UnloadedIsFinished'
    BY <2>1, <2>2 DEF UnloadedIsFinished, IsRunning, Running
  <2> QED
    BY <2>1, <2>3, <2>4 DEF NoNewRunner, Running, IsRunning
<1>9. CASE Reap(m)
  <2>1. /\ UNCHANGED <<mapping, joinable, meta>>
        /\ thr[m].manager = "joining" /\ thr'[m].manager = "reporting"
        /\ proc'[m].child = "reaped"
        /\ \A x \in Models \ {m} : /\ thr'[x].manager = thr[x].manager
                                     /\ proc'[x].child = proc[x].child
    BY <1>9 DEF Reap, Thrs, Procs
  <2>2. m \in Running
    BY <2>1 DEF Unlisted, UnloadedIsFinished, Running, IsRunning
  <2>3. Unlisted' /\ Stages'
    BY <2>1, <2>2 DEF Unlisted, Stages, Lives, Running
  <2>4. UnloadedIsFinished'
    BY <2>1, <2>2 DEF UnloadedIsFinished, IsRunning, Running
  <2> QED
    BY <2>1, <2>3, <2>4 DEF NoNewRunner, Running, IsRunning
<1>10. CASE ReportUnloaded(m)
  <2>1. /\ UNCHANGED <<mapping, joinable, proc>>
        /\ thr[m].manager = "reporting" /\ thr'[m].manager = "done"
        /\ \A x \in Models \ {m} : thr'[x].manager = thr[x].manager
    BY <1>10 DEF ReportUnloaded, Thrs
  <2>2. meta' = meta
        \/ meta' = [meta EXCEPT ![m] = [status |-> "unloaded", failed |-> proc[m].bad]]
    BY <1>10 DEF ReportUnloaded
  <2>3. \A x \in Models : meta'[x].status = meta[x].status
                          \/ (x = m /\ meta'[x].status = "unloaded")
    BY <2>2
  <2>4. Unlisted' /\ Stages'
    BY <2>1, <2>3 DEF Unlisted, Stages, Lives
  <2>5. UnloadedIsFinished'
    BY <2>1, <2>3 DEF UnloadedIsFinished, IsRunning, Stages
  <2> QED
    BY <2>1, <2>3, <2>4, <2>5 DEF NoNewRunner, Running, IsRunning
<1> QED
  BY <1>2, <1>3, <1>4, <1>5, <1>6, <1>7, <1>8, <1>9, <1>10 DEF ModelStep

\* The entries a reload keeps are as they were, the others are blank.
LEMMA RelistInv ==
    ASSUME RouterInv, NEW keep \in SUBSET Models, Relist(keep),
           mapping' \subseteq keep, mapping \cap keep \subseteq mapping',
           joinable' = joinable, joinable \cap (mapping \ keep) = {}
    PROVE  /\ Unlisted' /\ Stages' /\ UnloadedIsFinished'
           /\ NoNewRunner
<1> USE DEF RouterInv, Typed
<1>1. \A x \in Models : x \in keep \cap mapping =>
         /\ proc'[x] = proc[x] /\ thr'[x] = thr[x]
         /\ meta'[x].status = meta[x].status
  BY DEF Relist, Metas
<1>2. \A x \in Models : x \notin keep \cap mapping =>
         /\ proc'[x].child = "none" /\ thr'[x].manager = "none"
         /\ meta'[x].status = "unloaded"
  BY DEF Relist, NoProc, NoThr, NoMeta
<1>3. Unlisted'
  BY <1>2 DEF Unlisted
<1>4. Stages'
  BY <1>1, <1>2 DEF Stages, Lives
<1>5. UnloadedIsFinished'
  BY <1>1, <1>2 DEF UnloadedIsFinished, IsRunning
<1> QED
  BY <1>1, <1>2, <1>3, <1>4, <1>5 DEF NoNewRunner, Running, IsRunning

\* A step of a call: only a spawn adds a running model, below the limit.
LEMMA CallStepInv ==
    ASSUME RouterInv, NEW c \in Callers, Start(c) \/ CallStep(c)
    PROVE  /\ Unlisted' /\ Stages' /\ UnloadedIsFinished'
           /\ \/ NoNewRunner
              \/ /\ ~LimitReached
                 /\ ~reloading
                 /\ \E m \in Models : Running' \subseteq Running \cup {m}
<1> USE DEF RouterInv, Typed
<1>a. call[c].name \in Models /\ call[c].left \subseteq Models /\ call[c].keep \subseteq Models
  BY CallUpdate
<1>1. ASSUME UNCHANGED <<meta, proc, thr>>, joinable' \subseteq joinable,
             mapping \subseteq mapping', mapping' \subseteq Models
      PROVE  Unlisted' /\ Stages' /\ UnloadedIsFinished' /\ NoNewRunner
  <2>1. Unlisted'
    BY <1>1 DEF Unlisted
  <2>2. Stages'
    BY <1>1 DEF Stages, Lives
  <2>3. UnloadedIsFinished'
    BY <1>1 DEF UnloadedIsFinished, IsRunning, Unlisted
  <2> QED
    BY <1>1, <2>1, <2>2, <2>3 DEF NoNewRunner, Running, IsRunning, Unlisted
<1>2. CASE Start(c)
  BY <1>1, <1>2 DEF Start
<1>3. CASE PickVictim(c) \/ LoadingFinished(c) \/ Recheck(c) \/ Forward(c) \/ Autoload(c)
  BY <1>1, <1>3 DEF PickVictim, LoadingFinished, Recheck, Forward, Autoload
<1>4. CASE Evicted(c) \/ TouchUsed(c)
  BY <1>1, <1>4, <1>a DEF Evicted, TouchUsed
<1>5. CASE Evict(c)
  <2>1. PICK v \in call[c].left : Unload(v)
    BY <1>5 DEF Evict
  <2> QED
    BY <1>5, <1>a, <2>1, UnloadInv DEF Evict, NoNewRunner
<1>6. CASE UnloadCall(c)
  BY <1>6, <1>a, UnloadInv DEF UnloadCall, NoNewRunner
<1>7. CASE ReloadUnload(c)
  <2>1. PICK v \in call[c].left : Unload(v)
    BY <1>7 DEF ReloadUnload
  <2> QED
    BY <1>7, <1>a, <2>1, UnloadInv DEF ReloadUnload, NoNewRunner
<1>8. CASE ReloadCollect(c)
  <2>1. joinable' \subseteq joinable /\ UNCHANGED <<mapping, meta, proc, thr>>
    BY <1>8 DEF ReloadCollect
  <2> QED
    BY <1>1, <2>1
<1>9. CASE ReloadCommit(c)
  <2>1. CASE joinable \cap (mapping \ call[c].keep) # {}
    BY <1>1, <1>9, <2>1 DEF ReloadCommit
  <2>2. CASE joinable \cap (mapping \ call[c].keep) = {}
    <3>1. /\ mapping' = call[c].keep /\ Relist(call[c].keep)
          /\ joinable' = joinable
      BY <1>9, <2>2 DEF ReloadCommit
    <3> QED
      BY <1>a, <2>2, <3>1, RelistInv
  <2> QED
    BY <2>1, <2>2
<1>10. CASE ReloadThrows(c)
  <2>1. PICK added \in SUBSET (call[c].keep \ mapping) :
           mapping' = (mapping \cap call[c].keep) \cup added
    BY <1>10 DEF ReloadThrows
  <2>2. Relist(call[c].keep) /\ joinable' = joinable
        /\ joinable \cap (mapping \ call[c].keep) = {}
    BY <1>10 DEF ReloadThrows
  <2> QED
    BY <1>a, <2>1, <2>2, RelistInv
<1>11. CASE Spawn(c)
  <2>1. CASE SpawnNot(c)
    BY <1>1, <1>11, <1>a, <2>1 DEF Spawn, SpawnNot
  <2>2. CASE SpawnOk(c) /\ call[c].name \notin mapping \ bare
    BY <1>1, <1>11, <1>a, <2>2 DEF Spawn, SpawnOk
  <2>3. CASE SpawnOk(c) /\ call[c].name \in mapping \ bare
    <3> DEFINE m == call[c].name
    <3>1. /\ m \in mapping /\ mapping' = mapping /\ joinable' = joinable \cup {m}
          /\ ~LimitReached /\ ~reloading
          /\ meta'[m].status = "loading"
          /\ proc'[m].child = "loading" /\ thr'[m].manager = "reading"
          /\ \A x \in Models \ {m} : /\ meta'[x] = meta[x] /\ proc'[x] = proc[x]
                                       /\ thr'[x] = thr[x]
      BY <1>11, <2>3 DEF Spawn, SpawnOk, Spawned, Metas
    <3> HIDE DEF m
    <3>2. Unlisted'
      BY <3>1 DEF Unlisted
    <3>3. Stages'
      BY <3>1 DEF Stages, Lives
    <3>4. UnloadedIsFinished'
      BY <3>1 DEF UnloadedIsFinished, IsRunning
    <3>5. Running' \subseteq Running \cup {m}
      BY <3>1 DEF Running, IsRunning
    <3>6. m \in Models
      BY <1>a DEF m
    <3> QED
      BY <3>1, <3>2, <3>3, <3>4, <3>5, <3>6
  <2> QED
    BY <1>11, <2>1, <2>2, <2>3 DEF Spawn
<1> QED
  BY <1>2, <1>3, <1>4, <1>5, <1>6, <1>7, <1>8, <1>9, <1>10, <1>11 DEF CallStep

LEMMA ShutdownInv ==
    ASSUME RouterInv, UnloadAll \/ JoinAll
    PROVE  /\ Unlisted' /\ Stages' /\ UnloadedIsFinished'
           /\ Running' = Running
<1> USE DEF RouterInv, Typed
<1>1. /\ UNCHANGED <<mapping, meta, proc>> /\ joinable' \subseteq joinable
      /\ \A x \in Models : thr'[x].manager = thr[x].manager
  BY DEF UnloadAll, JoinAll, NotifyStop, Thrs
<1>2. Unlisted' /\ Stages'
  BY <1>1 DEF Unlisted, Stages, Lives
<1>3. UnloadedIsFinished'
  BY <1>1 DEF UnloadedIsFinished, IsRunning
<1> QED
  BY <1>1, <1>2, <1>3 DEF Running, IsRunning

LEMMA RouterInvStep == RouterInv /\ [Next]_vars => RouterInv'
<1> SUFFICES ASSUME RouterInv, [Next]_vars
             PROVE  RouterInv'
  OBVIOUS
<1>1. Typed'
  BY TypedStep DEF RouterInv
<1>2. CASE UNCHANGED vars
  <2>1. Unlisted' /\ Stages' /\ UnloadedIsFinished'
    BY <1>2 DEF vars, RouterInv, Unlisted, Stages, Lives, UnloadedIsFinished, IsRunning
  <2> QED
    BY <1>1, <2>1 DEF RouterInv
<1>3. CASE Next
  BY <1>1, <1>3, ModelStepInv, CallStepInv, ShutdownInv DEF Next, RouterInv
<1> QED
  BY <1>2, <1>3

THEOREM RouterInvariant == Spec => []RouterInv
  BY InitRouterInv, RouterInvStep, PTL DEF Spec

\* A model listed as unloaded has no process and no thread that will take
\* the mutex, so load() may join its thread with the mutex held.
THEOREM UnloadedIsFinishedHolds == Spec => []UnloadedIsFinished
<1>1. RouterInv => UnloadedIsFinished
  BY DEF RouterInv
<1> QED
  BY <1>1, RouterInvariant, PTL

\* Every living process belongs to a listed, running model whose managing
\* thread still reads its output.
THEOREM ProcessIsListedHolds == Spec => []ProcessIsListed
<1>1. RouterInv => ProcessIsListed
  <2> SUFFICES ASSUME RouterInv, NEW m \in Models, Lives(m)
               PROVE  m \in Running /\ thr[m].manager = "reading"
    BY DEF ProcessIsListed
  <2>1. proc[m].child \notin {"none", "reaped"}
    BY DEF Lives
  <2>2. m \in mapping
    BY <2>1 DEF RouterInv, Unlisted
  <2>3. m \in Running
    BY <2>1, <2>2 DEF RouterInv, UnloadedIsFinished, Running
  <2>4. thr[m].manager \in {"none", "reading", "joining", "reporting", "done"}
    BY DEF RouterInv, Typed, Thrs
  <2> QED
    BY <2>1, <2>3, <2>4 DEF RouterInv, Stages
<1> QED
  BY <1>1, RouterInvariant, PTL

-----------------------------------------------------------------------------
(***************************************************************************)
(* The limit.                                                              *)
(***************************************************************************)
\* At most models_max models run, whatever calls overlap between the choice
\* of a victim and the spawn.
THEOREM AtMostMaxModelsHolds == Spec => []AtMostMaxModels
<1>1. Init => AtMostMaxModels
  <2> SUFFICES ASSUME Init
               PROVE  Cardinality(Running) <= MaxModels
    BY DEF AtMostMaxModels
  <2>1. Running = Startup
    BY StartupAssumption DEF Init, Running, IsRunning, NoMeta
  <2> QED
    BY <2>1, StartupAssumption
<1>2. AtMostMaxModels /\ RouterInv /\ RouterInv' /\ [Next]_vars => AtMostMaxModels'
  <2> SUFFICES ASSUME AtMostMaxModels, RouterInv, RouterInv', [Next]_vars, MaxModels > 0
               PROVE  Cardinality(Running') <= MaxModels
    BY DEF AtMostMaxModels
  <2>1. /\ IsFiniteSet(Running) /\ Cardinality(Running) \in Nat
        /\ IsFiniteSet(Running') /\ Cardinality(Running') \in Nat
        /\ MaxModels \in Nat
    <3>1. Running \in SUBSET Models /\ Running' \in SUBSET Models
      BY DEF RouterInv, Typed, Running
    <3>2. IsFiniteSet(Running) /\ IsFiniteSet(Running')
      BY <3>1, SizeAssumption, FS_Subset
    <3> QED
      BY <3>2, SizeAssumption, FS_CardinalityType
  <2>2. CASE Running' \subseteq Running
    <3>1. Cardinality(Running') <= Cardinality(Running)
      BY <2>1, <2>2, FS_Subset
    <3> QED
      BY <2>1, <3>1 DEF AtMostMaxModels
  <2>3. ASSUME ~LimitReached, NEW m \in Models, Running' \subseteq Running \cup {m}
        PROVE  Cardinality(Running') <= MaxModels
    <3>1. /\ IsFiniteSet(Running \cup {m})
          /\ Cardinality(Running \cup {m}) \in Nat
          /\ Cardinality(Running \cup {m}) <= Cardinality(Running) + 1
      <4>1. /\ IsFiniteSet(Running \cup {m})
            /\ Cardinality(Running \cup {m}) = IF m \in Running THEN Cardinality(Running)
                                                ELSE Cardinality(Running) + 1
        BY <2>1, FS_AddElement
      <4> QED
        BY <2>1, <4>1
    <3>2. Cardinality(Running') <= Cardinality(Running \cup {m})
      BY <2>3, <3>1, FS_Subset
    <3>3. Cardinality(Running) < MaxModels
      BY <2>1, <2>3 DEF LimitReached
    <3> QED
      BY <2>1, <3>1, <3>2, <3>3
  <2>4. CASE UNCHANGED vars
    BY <2>2, <2>4 DEF vars, Running, IsRunning
  <2>5. CASE Next
    BY <2>2, <2>3, <2>5, ModelStepInv, CallStepInv, ShutdownInv DEF Next, NoNewRunner
  <2> QED
    BY <2>4, <2>5
<1> QED
  BY <1>1, <1>2, RouterInvariant, RouterInvStep, PTL DEF Spec

-----------------------------------------------------------------------------
(***************************************************************************)
(* The reload.  is_reloading is one flag for all the threads that reload:  *)
(* the first that ends clears it under the others.  What a reload promises *)
(* holds when no two threads reload.                                       *)
(***************************************************************************)
MayReload(c) == \E name \in Models : [op |-> "reload", name |-> name] \in Work[c]
OneReloader == \A c, d \in Callers : MayReload(c) /\ MayReload(d) => c = d

InReload(c) == call[c].pc \in {"drop", "join"}

\* Only callers that may reload do.
OpsAsAsked == \A c \in Callers : call[c].op = "reload" => MayReload(c)

\* While a reload is under way the flag keeps load() out, so that the models
\* that run are those that stay and those that are being unloaded; once these
\* have been collected nothing joinable leaves the list.
ReloadInv ==
    \A c \in Callers : InReload(c) =>
        /\ call[c].op = "reload"
        /\ reloading
        /\ Running \subseteq call[c].keep \cup call[c].todo
        /\ call[c].pc = "join" => /\ Running \cap call[c].todo = {}
                                  /\ joinable \cap (mapping \ call[c].keep) = {}

LEMMA InitReloadInv == Init => OpsAsAsked /\ ReloadInv
<1> SUFFICES ASSUME Init
             PROVE  OpsAsAsked /\ ReloadInv
  OBVIOUS
<1>1. OpsAsAsked
  BY DEF Init, OpsAsAsked, MayReload
<1>2. ReloadInv
  BY DEF Init, ReloadInv, InReload
<1> QED
  BY <1>1, <1>2

\* A step of a call is its own, and does not change what was asked for.
LEMMA CallLocal ==
    ASSUME Typed, NEW c \in Callers, Start(c) \/ CallStep(c), NEW d \in Callers
    PROVE  /\ call'[d].op = call[d].op
           /\ d # c => call'[d] = call[d]
<1> USE DEF Typed
<1>1. ASSUME NEW k, call' = [call EXCEPT ![c] = k], k.op = call[c].op
      PROVE  /\ call'[d].op = call[d].op
             /\ d # c => call'[d] = call[d]
  BY <1>1
<1>2. /\ \A p : [call[c] EXCEPT !.pc = p].op = call[c].op
      /\ \A l : [call[c] EXCEPT !.left = l].op = call[c].op
      /\ \A p, l : [call[c] EXCEPT !.pc = p, !.left = l].op = call[c].op
      /\ \A p, l, t, k : [call[c] EXCEPT !.pc = p, !.left = l, !.todo = t, !.keep = k].op
                            = call[c].op
      /\ \A p, n, t : [call[c] EXCEPT !.pc = p, !.name = n, !.todo = t].op = call[c].op
  BY DEF Calls
<1>3. ASSUME NEW label, Goto(c, label)
      PROVE  /\ call'[d].op = call[d].op
             /\ d # c => call'[d] = call[d]
  BY <1>1, <1>2, <1>3 DEF Goto
<1>4. CASE Start(c)
  <2>1. CASE StartReload(c)
    BY <1>1, <1>2, <2>1 DEF StartReload
  <2>2. CASE StartRequest(c) \/ StartDirect(c)
    BY <1>3, <2>2 DEF StartRequest, StartDirect
  <2> QED
    BY <1>4, <2>1, <2>2 DEF Start
<1>5. CASE PickVictim(c)
  <2>1. \/ Goto(c, "done") \/ Goto(c, "spawn")
        \/ \E l : call' = [call EXCEPT ![c] = [@ EXCEPT !.pc = "evict", !.left = l]]
    BY <1>5 DEF PickVictim
  <2>2. ASSUME NEW l, call' = [call EXCEPT ![c] = [@ EXCEPT !.pc = "evict", !.left = l]]
        PROVE  /\ call'[d].op = call[d].op
               /\ d # c => call'[d] = call[d]
    BY <1>1, <1>2, <2>2
  <2> QED
    BY <1>3, <2>1, <2>2
<1>6. CASE Evict(c) \/ UnloadCall(c) \/ TouchUsed(c)
  BY <1>3, <1>6 DEF Evict, UnloadCall, TouchUsed
<1>7. CASE LoadingFinished(c) \/ Recheck(c) \/ Forward(c)
  BY <1>3, <1>7 DEF LoadingFinished, Recheck, Forward
<1>8. CASE Spawn(c)
  <2>1. CASE SpawnOk(c)
    <3>1. Goto(c, AfterLoad(c)) \/ call' = call
      BY <2>1 DEF SpawnOk
    <3> QED
      BY <1>3, <3>1
  <2>2. CASE SpawnNot(c)
    BY <1>3, <2>2 DEF SpawnNot
  <2> QED
    BY <1>8, <2>1, <2>2 DEF Spawn
<1>9. CASE Evicted(c)
  BY <1>1, <1>2, <1>9 DEF Evicted
<1>10. CASE ReloadUnload(c)
  BY <1>1, <1>2, <1>10 DEF ReloadUnload
<1>11. CASE ReloadCollect(c)
  <2>1. \E moved : call' = [call EXCEPT ![c] = [@ EXCEPT !.pc = "join", !.left = moved]]
    BY <1>11 DEF ReloadCollect
  <2> QED
    BY <1>1, <1>2, <2>1
<1>12. CASE ReloadCommit(c)
  <2>1. \/ call' = call
        \/ \E auto : call' = [call EXCEPT ![c] = [@ EXCEPT !.pc = "autoload", !.left = {},
                                                 !.todo = auto, !.keep = {}]]
    BY <1>12 DEF ReloadCommit
  <2>2. ASSUME NEW auto, call' = [call EXCEPT ![c] = [@ EXCEPT !.pc = "autoload", !.left = {},
                                                             !.todo = auto, !.keep = {}]]
        PROVE  /\ call'[d].op = call[d].op
               /\ d # c => call'[d] = call[d]
    BY <1>1, <1>2, <2>2
  <2> QED
    BY <2>1, <2>2
<1>13. CASE ReloadThrows(c)
  <2>1. call' = [call EXCEPT ![c] = [@ EXCEPT !.pc = "done", !.left = {}, !.todo = {},
                                              !.keep = {}]]
    BY <1>13 DEF ReloadThrows
  <2> QED
    BY <1>1, <1>2, <2>1
<1>14. CASE Autoload(c)
  <2>1. ASSUME NEW m, call' = [call EXCEPT ![c].pc = "pick", ![c].name = m,
                                           ![c].todo = @ \ {m}]
        PROVE  /\ call'[d].op = call[d].op
               /\ d # c => call'[d] = call[d]
    BY <2>1 DEF Calls
  <2> QED
    BY <1>3, <1>14, <2>1 DEF Autoload
<1> QED
  BY <1>4, <1>5, <1>6, <1>7, <1>8, <1>9, <1>10, <1>11, <1>12, <1>13, <1>14 DEF CallStep

\* The other steps leave the calls and the reload alone.
LEMMA ModelStepFrame ==
    ASSUME NEW m \in Models, ModelStep(m)
    PROVE  UNCHANGED <<call, reloading, mapping, joinable>>
  BY DEF ModelStep, ChildReady, ChildSleeps, ChildWakes, Says, ChildStops, ChildCrashes,
     ChildEnds, ReadReport, ReadEof, Reap, ReportUnloaded, StopperWakes, StopperSends,
     StopperReturns, StopperKills

LEMMA OpsAsAskedStep == Typed /\ OpsAsAsked /\ [Next]_vars => OpsAsAsked'
<1> SUFFICES ASSUME Typed, OpsAsAsked, [Next]_vars
             PROVE  \A d \in Callers : call'[d].op = call[d].op
  BY DEF OpsAsAsked, MayReload
<1>1. CASE UNCHANGED vars
  BY <1>1 DEF vars
<1>2. CASE UnloadAll \/ JoinAll
  BY <1>2 DEF UnloadAll, JoinAll
<1> QED
  BY <1>1, <1>2, ModelStepFrame, CallLocal DEF Next

\* A thread in a reload is not disturbed by a step that starts no model.
LEMMA ReloadFrame ==
    ASSUME RouterInv, ReloadInv, NEW d \in Callers,
           InReload(d), call'[d] = call[d], reloading', NoNewRunner, joinable' \subseteq joinable
    PROVE  /\ call'[d].op = "reload"
           /\ reloading'
           /\ Running' \subseteq call'[d].keep \cup call'[d].todo
           /\ call'[d].pc = "join" => /\ Running' \cap call'[d].todo = {}
                                      /\ joinable' \cap (mapping' \ call'[d].keep) = {}
<1>1. joinable \subseteq mapping
  BY DEF RouterInv, Typed, Unlisted
<1> QED
  BY <1>1 DEF ReloadInv, NoNewRunner

LEMMA ReloadInvStep ==
    ASSUME OneReloader, RouterInv, OpsAsAsked, ReloadInv, [Next]_vars
    PROVE  ReloadInv'
<1> SUFFICES ASSUME NEW d \in Callers, InReload(d)'
             PROVE  /\ call'[d].op = "reload"
                    /\ reloading'
                    /\ Running' \subseteq call'[d].keep \cup call'[d].todo
                    /\ call'[d].pc = "join" =>
                          /\ Running' \cap call'[d].todo = {}
                          /\ joinable' \cap (mapping' \ call'[d].keep) = {}
  BY DEF ReloadInv
<1>0. Typed /\ call \in [Callers -> Calls]
  BY DEF RouterInv, Typed
<1>1. CASE UNCHANGED vars
  BY <1>1, ReloadFrame DEF vars, NoNewRunner, Running, IsRunning, ReloadInv, InReload
<1>2. CASE UnloadAll \/ JoinAll
  <2>1. UNCHANGED <<call, reloading, mapping>> /\ joinable' \subseteq joinable
    BY <1>2 DEF UnloadAll, JoinAll
  <2>2. NoNewRunner
    BY <1>2, ShutdownInv DEF NoNewRunner
  <2> QED
    BY <2>1, <2>2, ReloadFrame DEF ReloadInv, InReload
<1>3. CASE \E m \in Models : ModelStep(m)
  <2>1. UNCHANGED <<call, reloading, mapping, joinable>> /\ NoNewRunner
    BY <1>3, ModelStepFrame, ModelStepInv
  <2> QED
    BY <2>1, ReloadFrame DEF ReloadInv, InReload
\* Another call steps: it is not in a reload, and load() waits.
<1>4. CASE \E c \in Callers \ {d} : Start(c) \/ CallStep(c)
  <2>1. PICK c \in Callers \ {d} : Start(c) \/ CallStep(c)
    BY <1>4
  <2>2. call'[d] = call[d]
    BY <1>0, <2>1, CallLocal
  <2>3. InReload(d) /\ reloading
    BY <2>2 DEF ReloadInv, InReload
  <2>4. ~InReload(c)
    BY <2>1, <2>3 DEF ReloadInv, OpsAsAsked, OneReloader
  <2>5. NoNewRunner
    BY <2>1, <2>3, CallStepInv
  <2>6. reloading' /\ joinable' \subseteq joinable
    BY <2>1, <2>3, <2>4 DEF InReload, Start, StartRequest, StartDirect, StartReload, CallStep,
       PickVictim, Evict, Evicted, Spawn, LoadingFinished, Recheck, Forward,
       TouchUsed, UnloadCall, ReloadUnload, ReloadCollect, ReloadCommit, ReloadThrows, Autoload
  <2> QED
    BY <2>2, <2>3, <2>5, <2>6, ReloadFrame
<1>5. CASE Start(d)
  <2>1. StartReload(d)
    BY <1>0, <1>5 DEF Start, StartRequest, StartDirect, Goto, InReload, Calls
  <2>2. PICK disk \in SUBSET Models, changed \in SUBSET Running :
           call' = [call EXCEPT ![d] = [@ EXCEPT !.pc = "drop",
                        !.left = (Running \ disk) \cup changed,
                        !.todo = (Running \ disk) \cup changed, !.keep = disk]]
    BY <2>1 DEF StartReload
  <2>3. /\ call'[d].pc = "drop" /\ call'[d].keep = disk
        /\ call'[d].todo = (Running \ disk) \cup changed
        /\ call'[d].op = call[d].op
    BY <1>0, <2>2 DEF Calls
  <2>4. call[d].op = "reload" /\ reloading'
    BY <2>1 DEF StartReload
  <2>5. Running' = Running
    BY <1>5 DEF Start, Running, IsRunning
  <2> QED
    BY <2>3, <2>4, <2>5
<1>6. CASE ReloadUnload(d)
  <2>1. /\ call'[d].pc = "drop" /\ call[d].pc = "drop"
        /\ call'[d].keep = call[d].keep /\ call'[d].todo = call[d].todo
        /\ call'[d].op = call[d].op
        /\ reloading' = reloading
    BY <1>0, <1>6 DEF ReloadUnload, Calls
  <2>2. Running' = Running
    BY <1>6 DEF ReloadUnload, Running, IsRunning
  <2> QED
    BY <2>1, <2>2 DEF ReloadInv, InReload
<1>7. CASE ReloadCollect(d)
  <2>1. PICK moved :
           /\ moved = joinable \cap (call[d].todo
                                       \cup {m \in mapping \ call[d].keep : ~IsRunning(m)})
           /\ joinable' = joinable \ moved
           /\ call' = [call EXCEPT ![d] = [@ EXCEPT !.pc = "join", !.left = moved]]
    BY <1>7 DEF ReloadCollect
  <2>2. /\ call[d].pc = "drop"
        /\ call'[d].keep = call[d].keep /\ call'[d].todo = call[d].todo
        /\ call'[d].op = call[d].op
    BY <1>0, <1>7, <2>1 DEF ReloadCollect, Calls
  <2>3. /\ UNCHANGED <<mapping, meta, reloading>>
        /\ \A m \in call[d].todo \cap mapping : ~IsRunning(m)
    BY <1>7 DEF ReloadCollect
  <2>4. /\ call[d].op = "reload" /\ reloading
        /\ Running \subseteq call[d].keep \cup call[d].todo
    BY <2>2 DEF ReloadInv, InReload
  <2>5. Running' = Running
    BY <2>3 DEF Running, IsRunning
  <2>6. Running \cap call[d].todo = {}
    BY <2>3 DEF Running
  <2>7. joinable' \cap (mapping \ call[d].keep) = {}
    <3> SUFFICES ASSUME NEW m \in joinable', m \in mapping, m \notin call[d].keep
                 PROVE  FALSE
      OBVIOUS
    <3>1. m \notin call[d].todo /\ IsRunning(m)
      BY <2>1
    <3> QED
      BY <2>4, <3>1 DEF Running
  <2> QED
    BY <2>2, <2>3, <2>4, <2>5, <2>6, <2>7
\* Only the branch that aborts, and changes nothing, stays in the reload.
<1>8. CASE ReloadCommit(d)
  <2>1. CASE joinable \cap (mapping \ call[d].keep) # {}
    <3>1. UNCHANGED <<mapping, meta, joinable, call, reloading>>
      BY <1>8, <2>1 DEF ReloadCommit
    <3> QED
      BY <3>1, ReloadFrame DEF ReloadInv, InReload, NoNewRunner, Running, IsRunning
  <2>2. CASE joinable \cap (mapping \ call[d].keep) = {}
    <3>1. PICK auto : call' = [call EXCEPT ![d] = [@ EXCEPT !.pc = "autoload", !.left = {},
                                                            !.todo = auto, !.keep = {}]]
      BY <1>8, <2>2 DEF ReloadCommit
    <3>2. call'[d].pc = "autoload"
      BY <1>0, <3>1 DEF Calls
    <3> QED
      BY <3>2 DEF InReload
  <2> QED
    BY <2>1, <2>2
<1>9. ASSUME NEW label, Goto(d, label), label \notin {"drop", "join"}
      PROVE  FALSE
  BY <1>0, <1>9 DEF Goto, Calls, InReload
<1>10. CASE PickVictim(d)
  <2>1. call'[d].pc \in {"done", "spawn", "evict"}
    BY <1>0, <1>10 DEF PickVictim, Goto, Calls
  <2> QED
    BY <2>1 DEF InReload
<1>11. CASE Evict(d) \/ LoadingFinished(d) \/ Recheck(d) \/ Forward(d) \/ TouchUsed(d)
           \/ UnloadCall(d)
  BY <1>9, <1>11 DEF Evict, LoadingFinished, Recheck, Forward, TouchUsed, UnloadCall
<1>12. CASE Evicted(d) \/ ReloadThrows(d) \/ Autoload(d)
  <2>1. CASE Evicted(d)
    <3>1. call'[d].pc = "spawn"
      BY <1>0, <2>1 DEF Evicted, Calls
    <3> QED
      BY <3>1 DEF InReload
  <2>2. CASE ReloadThrows(d)
    <3>1. call'[d].pc = "done"
      BY <1>0, <2>2 DEF ReloadThrows, Calls
    <3> QED
      BY <3>1 DEF InReload
  <2>3. CASE Autoload(d)
    <3>1. CASE Goto(d, "done")
      BY <1>9, <3>1
    <3>2. CASE \E m \in call[d].todo :
                  call' = [call EXCEPT ![d].pc = "pick", ![d].name = m, ![d].todo = @ \ {m}]
      <4>1. call'[d].pc = "pick"
        BY <1>0, <3>2 DEF Calls
      <4> QED
        BY <4>1 DEF InReload
    <3> QED
      BY <2>3, <3>1, <3>2 DEF Autoload
  <2> QED
    BY <1>12, <2>1, <2>2, <2>3
<1>13. CASE Spawn(d)
  <2>1. \/ Goto(d, AfterLoad(d)) \/ Goto(d, "done")
        \/ call' = call /\ call[d].pc = "spawn"
    BY <1>13 DEF Spawn, SpawnOk, SpawnNot
  <2>2. AfterLoad(d) \in {"await", "autoload", "done"}
    BY DEF AfterLoad
  <2> QED
    BY <1>9, <2>1, <2>2 DEF InReload
<1> QED
  BY <1>1, <1>2, <1>3, <1>4, <1>5, <1>6, <1>7, <1>8, <1>10, <1>11, <1>12, <1>13
     DEF Next, CallStep

\* With one reloading thread, nothing that a reload has unloaded or drops from
\* the list is loaded again before it is done.
THEOREM ReloadIsQuietHolds ==
    ASSUME OneReloader
    PROVE  Spec => []ReloadIsQuiet
<1>1. ReloadInv => ReloadIsQuiet
  BY DEF ReloadInv, InReload, ReloadIsQuiet, Running
<1>2. RouterInv => Typed
  BY DEF RouterInv
<1> QED
  BY <1>1, <1>2, InitReloadInv, OpsAsAskedStep, ReloadInvStep, RouterInvariant, PTL DEF Spec

\* With one reloading thread the assertion of the reload never fails: the
\* threads of the models it erases have been joined.
THEOREM NeverAbortsHolds ==
    ASSUME OneReloader
    PROVE  Spec => []NeverAborts
<1>1. Init => NeverAborts
  BY DEF Init, NeverAborts
<1>2. ReloadInv /\ NeverAborts /\ [Next]_vars => NeverAborts'
  <2> SUFFICES ASSUME ReloadInv, router # "aborted", [Next]_vars
               PROVE  router' # "aborted"
    BY DEF NeverAborts
  <2>1. ASSUME NEW m, Unload(m)
        PROVE  router' # "aborted"
    BY <2>1 DEF Unload
  <2>2. CASE UNCHANGED vars
    BY <2>2 DEF vars
  <2>3. CASE UnloadAll \/ JoinAll
    BY <2>3 DEF UnloadAll, JoinAll
  <2>4. ASSUME NEW m \in Models, ModelStep(m)
        PROVE  router' = router
    BY <2>4 DEF ModelStep, ChildReady, ChildSleeps, ChildWakes, Says, ChildStops, ChildCrashes,
       ChildEnds, ReadReport, ReadEof, Reap, ReportUnloaded, StopperWakes, StopperSends,
       StopperReturns, StopperKills
  <2>5. ASSUME NEW c \in Callers, Start(c) \/ CallStep(c)
        PROVE  router' # "aborted"
    <3>1. CASE Evict(c) \/ UnloadCall(c) \/ ReloadUnload(c)
      BY <2>1, <3>1 DEF Evict, UnloadCall, ReloadUnload
    <3>2. CASE ReloadCommit(c)
      <4>1. call[c].pc = "join"
        BY <3>2 DEF ReloadCommit
      <4>2. joinable \cap (mapping \ call[c].keep) = {}
        BY <4>1 DEF ReloadInv, InReload
      <4> QED
        BY <3>2, <4>2 DEF ReloadCommit
    <3>3. CASE Spawn(c)
      BY <3>3 DEF Spawn, SpawnOk, SpawnNot
    <3>4. CASE Start(c) \/ PickVictim(c) \/ Evicted(c) \/ LoadingFinished(c) \/ Recheck(c)
               \/ Forward(c) \/ TouchUsed(c)
      BY <3>4 DEF Start, PickVictim, Evicted, LoadingFinished, Recheck, Forward, TouchUsed
    <3>5. CASE ReloadCollect(c) \/ ReloadThrows(c) \/ Autoload(c)
      BY <3>5 DEF ReloadCollect, ReloadThrows, Autoload
    <3> QED
      BY <2>5, <3>1, <3>2, <3>3, <3>4, <3>5 DEF CallStep
  <2> QED
    BY <2>2, <2>3, <2>4, <2>5 DEF Next
<1>3. RouterInv => Typed
  BY DEF RouterInv
<1> QED
  BY <1>1, <1>2, <1>3, InitReloadInv, OpsAsAskedStep, ReloadInvStep, RouterInvariant, PTL
     DEF Spec
=============================================================================
