--------------------------- MODULE SleepQueueProofs ---------------------------
(***************************************************************************)
(* Theorems about SleepQueue for any set of workers, with idle sleeping    *)
(* enabled or disabled.                                                    *)
(***************************************************************************)
EXTENDS SleepQueue, TLAPS, SequenceTheorems

-----------------------------------------------------------------------------
(***************************************************************************)
(* What posting and popping do to the positions of the queue.              *)
(***************************************************************************)
\* A task is in the queue after a post iff it was or it is the posted one.
LEMMA QueuedAppend ==
    ASSUME NEW S, NEW q \in Seq(S), NEW x \in S, NEW t
    PROVE  (\E i \in DOMAIN Append(q, x) : Append(q, x)[i] = t)
             <=> (\E i \in DOMAIN q : q[i] = t) \/ t = x
<1> DEFINE r == Append(q, x)
<1>1. /\ DOMAIN q = 1..Len(q) /\ Len(q) \in Nat
      /\ DOMAIN r = 1..(Len(q) + 1)
      /\ \A i \in 1..Len(q) : r[i] = q[i]
      /\ r[Len(q) + 1] = x
  BY AppendProperties, LenProperties
<1> HIDE DEF r
<1>2. ASSUME NEW i \in DOMAIN r, r[i] = t
      PROVE  (\E j \in DOMAIN q : q[j] = t) \/ t = x
  <2>1. CASE i \in DOMAIN q
    BY <1>1, <1>2, <2>1
  <2>2. CASE i = Len(q) + 1
    BY <1>1, <1>2, <2>2
  <2> QED
    BY <1>1, <2>1, <2>2
<1>3. ASSUME NEW i \in DOMAIN q, q[i] = t
      PROVE  \E j \in DOMAIN r : r[j] = t
  BY <1>1, <1>3
<1>4. ASSUME t = x
      PROVE  \E j \in DOMAIN r : r[j] = t
  BY <1>1, <1>4
<1> QED
  BY <1>2, <1>3, <1>4 DEF r

\* The tail of a nonempty queue holds the tasks of its other positions.
LEMMA TailPositions ==
    ASSUME NEW S, NEW q \in Seq(S), q # <<>>
    PROVE  /\ Tail(q) \in Seq(S)
           /\ Head(q) \in S
           /\ Head(q) = q[1]
           /\ 1 \in DOMAIN q
           /\ DOMAIN Tail(q) = 1..(Len(q) - 1)
           /\ \A i \in DOMAIN Tail(q) : i + 1 \in DOMAIN q /\ Tail(q)[i] = q[i + 1]
           /\ \A i \in DOMAIN q : i # 1 => i - 1 \in DOMAIN Tail(q)
                                           /\ Tail(q)[i - 1] = q[i]
<1>1. Tail(q) \in Seq(S) /\ Head(q) \in S /\ Len(Tail(q)) = Len(q) - 1
      /\ \A i \in 1..Len(Tail(q)) : Tail(q)[i] = q[i + 1]
  BY HeadTailProperties
<1>2. DOMAIN q = 1..Len(q) /\ Len(q) \in Nat /\ Len(q) # 0
  BY LenProperties, EmptySeq
<1>3. DOMAIN Tail(q) = 1..(Len(q) - 1)
  BY <1>1, LenProperties
<1> QED
  BY <1>1, <1>2, <1>3
-----------------------------------------------------------------------------
\* TypeOK holds in every reachable state.
THEOREM TypeCorrect == Spec => []TypeOK
<1>1. Init => TypeOK
  <2>1. <<>> \in Seq(Tasks)
    BY EmptySeq
  <2> QED
    BY <2>1 DEF Init, TypeOK, MainPcs, WorkerPcs
<1>2. TypeOK /\ [Next]_vars => TypeOK'
  <2> SUFFICES ASSUME TypeOK, [Next]_vars
               PROVE  TypeOK'
    OBVIOUS
  <2> USE DEF TypeOK, MainPcs, WorkerPcs, Tasks, Threads
  <2>1. CASE MainStep
    <3>1. CASE StartLoop
      BY <3>1 DEF StartLoop
    <3>2. CASE DrainExit
      BY <3>2 DEF DrainExit
    <3>3. CASE DrainTask
      BY <3>3, TailPositions DEF DrainTask
    <3>4. CASE DrainDone
      BY <3>4 DEF DrainDone
    <3>5. CASE UpdateSlotsIdle
      BY <3>5 DEF UpdateSlotsIdle
    <3>6. ASSUME NEW done \in SUBSET busy, UpdateSlots(done)
          PROVE  TypeOK'
      <4>1. queue_tasks' \in Seq(Tasks)
        BY <3>6, AppendProperties DEF UpdateSlots
      <4> QED
        BY <3>6, <4>1 DEF UpdateSlots, NotifyOne
    <3>7. CASE WaitSkip
      BY <3>7 DEF WaitSkip
    <3>8. CASE EnterSleep
      BY <3>8 DEF EnterSleep
    <3>9. CASE EnterTimedWait
      BY <3>9 DEF EnterTimedWait
    <3>10. CASE WakeTimedWait
      BY <3>10 DEF WakeTimedWait
    <3>11. CASE TimedWaitExpires
      BY <3>11 DEF TimedWaitExpires
    <3>12. CASE WakeAsleep
      BY <3>12 DEF WakeAsleep
    <3>13. CASE CleanUp
      BY <3>13 DEF CleanUp
    <3> QED
      BY <2>1, <3>1, <3>2, <3>3, <3>4, <3>5, <3>6, <3>7, <3>8, <3>9, <3>10,
         <3>11, <3>12, <3>13 DEF MainStep
  <2>2. ASSUME NEW w \in Workers, WorkerStep(w)
        PROVE  TypeOK'
    <3>1. CASE Arrive(w)
      BY <3>1 DEF Arrive, NotifyOneThenWait
    <3>2. CASE WakeWorker(w)
      BY <3>2 DEF WakeWorker
    <3>3. CASE Post(w)
      <4>1. queue_tasks' \in Seq(Tasks)
        BY <3>3, AppendProperties DEF Post
      <4> QED
        BY <3>3, <4>1 DEF Post, NotifyOne
    <3>4. CASE Receive(w)
      BY <3>4 DEF Receive
    <3> QED
      BY <2>2, <3>1, <3>2, <3>3, <3>4 DEF WorkerStep
  <2>3. CASE Terminate
    BY <2>3 DEF Terminate
  <2>4. ASSUME NEW t \in Threads, SpuriousWake(t)
        PROVE  TypeOK'
    BY <2>4 DEF SpuriousWake
  <2>5. CASE UNCHANGED vars
    BY <2>5 DEF vars
  <2> QED
    BY <2>1, <2>2, <2>3, <2>4, <2>5 DEF Next
<1> QED
  BY <1>1, <1>2, PTL DEF Spec
-----------------------------------------------------------------------------
(***************************************************************************)
(* Sleeping.  Neither property below is inductive: that busy is empty when *)
(* start_loop() goes to sleep rests on the NEXT_RESPONSE that a busy slot  *)
(* leaves in the queue, and that the loop does not continue without a      *)
(* model rests on running staying FALSE once it was found FALSE asleep.    *)
(***************************************************************************)
BusyLeavesNextResponse ==
    mainpc \in {"wait", "timedwait", "asleep"} /\ busy # {} => Queued(NextResponse)

UnloadedWhere ==
    ~loaded => \/ mainpc \in {"asleep", "exited"}
               \/ mainpc \in {"drain", "ended"} /\ ~running

SleepInv ==
    /\ BusyLeavesNextResponse
    /\ UnloadedWhere
    /\ NoSleepWhileBusy

\* SleepInv holds initially.
LEMMA SleepInvInit == Init => SleepInv
  BY DEF Init, SleepInv, BusyLeavesNextResponse, UnloadedWhere, NoSleepWhileBusy

\* Every step of a well-typed state preserves SleepInv.
LEMMA SleepInvStep ==
    ASSUME TypeOK, SleepInv, [Next]_vars
    PROVE  SleepInv'
<1> USE DEF SleepInv, BusyLeavesNextResponse, UnloadedWhere, NoSleepWhileBusy
<1>1. CASE MainStep
  <2>1. CASE StartLoop
    BY <2>1 DEF StartLoop, Queued
  <2>2. CASE DrainExit
    BY <2>2 DEF DrainExit, Queued
  <2>3. CASE DrainTask
    BY <2>3 DEF DrainTask, TypeOK
  <2>4. CASE DrainDone
    BY <2>4 DEF DrainDone, Queued
  <2>5. CASE UpdateSlotsIdle
    BY <2>5 DEF UpdateSlotsIdle, Queued
  <2>6. ASSUME NEW done \in SUBSET busy, UpdateSlots(done)
        PROVE  SleepInv'
    <3>1. Queued(NextResponse)'
      <4>1. queue_tasks \in Seq(Tasks) /\ NextResponse \in Tasks
        BY DEF TypeOK, Tasks
      <4>2. queue_tasks' = Append(queue_tasks, NextResponse)
        BY <2>6 DEF UpdateSlots
      <4> QED
        BY <4>1, <4>2, QueuedAppend DEF Queued
    <3>2. loaded
      BY <2>6 DEF UpdateSlots
    <3> QED
      BY <2>6, <3>1, <3>2 DEF UpdateSlots
  <2>7. CASE WaitSkip
    BY <2>7 DEF WaitSkip, Queued
  <2>8. CASE EnterSleep
    <3>1. busy = {}
      BY <2>8, EmptySeq DEF EnterSleep, Queued
    <3> QED
      BY <2>8, <3>1 DEF EnterSleep
  <2>9. CASE EnterTimedWait
    BY <2>9 DEF EnterTimedWait, Queued
  <2>10. CASE WakeTimedWait
    BY <2>10 DEF WakeTimedWait, Queued
  <2>11. CASE TimedWaitExpires
    BY <2>11 DEF TimedWaitExpires, Queued
  <2>12. CASE WakeAsleep
    BY <2>12 DEF WakeAsleep, Queued
  <2>13. CASE CleanUp
    BY <2>13 DEF CleanUp, Queued
  <2> QED
    BY <1>1, <2>1, <2>2, <2>3, <2>4, <2>5, <2>6, <2>7, <2>8, <2>9, <2>10,
       <2>11, <2>12, <2>13 DEF MainStep
<1>2. ASSUME NEW w \in Workers, WorkerStep(w)
      PROVE  SleepInv'
  <2>1. CASE Arrive(w)
    BY <2>1 DEF Arrive, Queued
  <2>2. CASE WakeWorker(w)
    BY <2>2 DEF WakeWorker, Queued
  <2>3. CASE Post(w)
    <3>1. Queued(NextResponse) => Queued(NextResponse)'
      <4>1. queue_tasks \in Seq(Tasks) /\ w \in Tasks
        BY DEF TypeOK, Tasks
      <4>2. queue_tasks' = Append(queue_tasks, w)
        BY <2>3 DEF Post
      <4> QED
        BY <4>1, <4>2, QueuedAppend DEF Queued
    <3> QED
      BY <2>3, <3>1 DEF Post
  <2>4. CASE Receive(w)
    BY <2>4 DEF Receive, Queued
  <2> QED
    BY <1>2, <2>1, <2>2, <2>3, <2>4 DEF WorkerStep
<1>3. CASE Terminate
  BY <1>3 DEF Terminate, Queued
<1>4. ASSUME NEW t \in Threads, SpuriousWake(t)
      PROVE  SleepInv'
  BY <1>4 DEF SpuriousWake, Queued
<1>5. CASE UNCHANGED vars
  BY <1>5 DEF vars, Queued
<1> QED
  BY <1>1, <1>2, <1>3, <1>4, <1>5 DEF Next

\* start_loop() never frees the model while a slot holds a task.
THEOREM NoSleepWhileBusyHolds == Spec => []NoSleepWhileBusy
<1>1. Init => SleepInv
  BY SleepInvInit
<1>2. TypeOK /\ SleepInv /\ [Next]_vars => SleepInv'
  BY SleepInvStep
<1>3. SleepInv => NoSleepWhileBusy
  BY DEF SleepInv
<1> QED
  BY <1>1, <1>2, <1>3, TypeCorrect, PTL DEF Spec

\* The parts of start_loop() that use the context find the model loaded.
THEOREM LoadedWhenWorkingHolds == Spec => []LoadedWhenWorking
<1>1. Init => SleepInv
  BY SleepInvInit
<1>2. TypeOK /\ SleepInv /\ [Next]_vars => SleepInv'
  BY SleepInvStep
<1>3. SleepInv => LoadedWhenWorking
  BY DEF SleepInv, UnloadedWhere, LoadedWhenWorking
<1> QED
  BY <1>1, <1>2, <1>3, TypeCorrect, PTL DEF Spec
-----------------------------------------------------------------------------
(***************************************************************************)
(* Conservation of requests.                                               *)
(***************************************************************************)
\* Actions that leave the queue, the slots, the results and the workers alone.
LEMMA PlaceUnchanged ==
    ASSUME RequestInOnePlace, UNCHANGED <<queue_tasks, busy, answered, wpc>>
    PROVE  RequestInOnePlace'
  BY DEF RequestInOnePlace, QueuedOnce, OnePlace, Queued

\* Taking the head of the queue: its task is queued no more, all others are.
LEMMA PlaceDrainTask ==
    ASSUME TypeOK, RequestInOnePlace, DrainTask
    PROVE  RequestInOnePlace'
<1> DEFINE q == queue_tasks
           h == Head(queue_tasks)
<1>1. /\ q \in Seq(Tasks) /\ q # <<>>
      /\ q' = Tail(q)
      /\ busy' = busy \cup ({h} \cap Workers)
      /\ answered' = answered /\ wpc' = wpc
  BY DEF TypeOK, DrainTask
<1>2. /\ h = q[1] /\ 1 \in DOMAIN q
      /\ DOMAIN q' = 1..(Len(q) - 1)
      /\ \A i \in DOMAIN q' : i \in Nat /\ i # 0 /\ i + 1 \in DOMAIN q /\ q'[i] = q[i + 1]
      /\ \A i \in DOMAIN q : i # 1 => i - 1 \in DOMAIN q' /\ q'[i - 1] = q[i]
  <2>1. Len(q) \in Nat
    BY <1>1, LenProperties
  <2> QED
    BY <1>1, <2>1, TailPositions
<1>3. QueuedOnce'
  <2> SUFFICES ASSUME NEW i \in DOMAIN q', NEW j \in DOMAIN q',
                      q'[i] = q'[j], q'[i] \in Workers
               PROVE  i = j
    BY DEF QueuedOnce
  <2>1. i + 1 \in DOMAIN q /\ j + 1 \in DOMAIN q /\ q[i + 1] = q[j + 1]
        /\ q[i + 1] \in Workers
    BY <1>2
  <2>2. i + 1 = j + 1
    BY <2>1 DEF RequestInOnePlace, QueuedOnce
  <2> QED
    BY <1>2, <2>2
<1>4. ASSUME NEW w \in Workers
      PROVE  OnePlace(w)'
  <2>1. CASE w = h
    <3>1. Queued(w)
      BY <1>2, <2>1 DEF Queued
    <3>2. ~Queued(w)'
      <4> SUFFICES ASSUME NEW i \in DOMAIN q', q'[i] = w
                   PROVE  FALSE
        BY DEF Queued
      <4>1. i + 1 \in DOMAIN q /\ q[i + 1] = q[1] /\ q[1] \in Workers /\ i + 1 # 1
        BY <1>2, <2>1
      <4> QED
        BY <1>2, <4>1 DEF RequestInOnePlace, QueuedOnce
    <3> QED
      BY <1>1, <2>1, <3>1, <3>2 DEF RequestInOnePlace, OnePlace
  <2>2. CASE w # h
    <3>1. Queued(w)' <=> Queued(w)
      <4>1. ASSUME NEW i \in DOMAIN q', q'[i] = w
            PROVE  \E j \in DOMAIN q : q[j] = w
        BY <1>2, <4>1
      <4>2. ASSUME NEW i \in DOMAIN q, q[i] = w
            PROVE  \E j \in DOMAIN q' : q'[j] = w
        BY <1>2, <2>2, <4>2
      <4> QED
        BY <4>1, <4>2 DEF Queued
    <3> QED
      BY <1>1, <2>2, <3>1 DEF RequestInOnePlace, OnePlace
  <2> QED
    BY <2>1, <2>2
<1> QED
  BY <1>3, <1>4 DEF RequestInOnePlace

\* Appending a task that is not in the queue keeps workers' tasks distinct.
LEMMA QueuedOnceAppend ==
    ASSUME TypeOK, QueuedOnce, NEW x \in Tasks, x \notin Workers \/ ~Queued(x),
           queue_tasks' = Append(queue_tasks, x)
    PROVE  QueuedOnce'
<1>1. /\ DOMAIN queue_tasks = 1..Len(queue_tasks) /\ Len(queue_tasks) \in Nat
      /\ DOMAIN queue_tasks' = 1..(Len(queue_tasks) + 1)
      /\ \A i \in 1..Len(queue_tasks) : queue_tasks'[i] = queue_tasks[i]
      /\ queue_tasks'[Len(queue_tasks) + 1] = x
  BY AppendProperties, LenProperties DEF TypeOK
<1> SUFFICES ASSUME NEW i \in DOMAIN queue_tasks', NEW j \in DOMAIN queue_tasks',
                    queue_tasks'[i] = queue_tasks'[j], queue_tasks'[i] \in Workers
             PROVE  i = j
  BY DEF QueuedOnce
<1>2. CASE i \in DOMAIN queue_tasks /\ j \in DOMAIN queue_tasks
  BY <1>1, <1>2 DEF QueuedOnce
<1>3. CASE i = Len(queue_tasks) + 1 /\ j \in DOMAIN queue_tasks
  BY <1>1, <1>3 DEF Queued
<1>4. CASE j = Len(queue_tasks) + 1 /\ i \in DOMAIN queue_tasks
  BY <1>1, <1>4 DEF Queued
<1> QED
  BY <1>1, <1>2, <1>3, <1>4

\* Queued(w) after a post of x: it held before, or w is x.
LEMMA QueuedAfterPost ==
    ASSUME TypeOK, NEW x \in Tasks, queue_tasks' = Append(queue_tasks, x), NEW w
    PROVE  Queued(w)' <=> Queued(w) \/ w = x
  BY QueuedAppend DEF TypeOK, Queued

\* No request is lost or handled twice.
THEOREM RequestInOnePlaceHolds == Spec => []RequestInOnePlace
<1>1. Init => RequestInOnePlace
  BY DEF Init, RequestInOnePlace, QueuedOnce, OnePlace, Queued
<1>2. TypeOK /\ RequestInOnePlace /\ [Next]_vars => RequestInOnePlace'
  <2> SUFFICES ASSUME TypeOK, RequestInOnePlace, [Next]_vars
               PROVE  RequestInOnePlace'
    OBVIOUS
  <2>1. CASE MainStep
    <3>1. CASE DrainTask
      BY <3>1, PlaceDrainTask
    <3>2. ASSUME NEW done \in SUBSET busy, UpdateSlots(done)
          PROVE  RequestInOnePlace'
      <4>1. /\ queue_tasks' = Append(queue_tasks, NextResponse)
            /\ busy' = busy \ done /\ answered' = answered \cup done /\ wpc' = wpc
        BY <3>2 DEF UpdateSlots
      <4>2. NextResponse \in Tasks /\ NextResponse \notin Workers
        BY NextResponseAssumption DEF Tasks
      <4>3. QueuedOnce'
        BY <4>1, <4>2, QueuedOnceAppend DEF RequestInOnePlace
      <4>4. ASSUME NEW w \in Workers
            PROVE  OnePlace(w)'
        <5>1. Queued(w)' <=> Queued(w)
          BY <4>1, <4>2, QueuedAfterPost
        <5> QED
          BY <4>1, <5>1 DEF RequestInOnePlace, OnePlace
      <4> QED
        BY <4>3, <4>4 DEF RequestInOnePlace
    <3>3. CASE StartLoop \/ DrainExit \/ DrainDone \/ UpdateSlotsIdle \/ WaitSkip
               \/ EnterSleep \/ EnterTimedWait \/ WakeTimedWait \/ TimedWaitExpires
               \/ WakeAsleep \/ CleanUp
      <4>1. UNCHANGED <<queue_tasks, busy, answered, wpc>>
        BY <3>3 DEF StartLoop, DrainExit, DrainDone, UpdateSlotsIdle, WaitSkip, EnterSleep,
                    EnterTimedWait, WakeTimedWait, TimedWaitExpires, WakeAsleep, CleanUp
      <4> QED
        BY <4>1, PlaceUnchanged
    <3> QED
      BY <2>1, <3>1, <3>2, <3>3 DEF MainStep
  <2>2. ASSUME NEW w \in Workers, WorkerStep(w)
        PROVE  RequestInOnePlace'
    <3>1. CASE Arrive(w) \/ WakeWorker(w)
      <4>1. /\ UNCHANGED <<queue_tasks, busy, answered>>
            /\ wpc[w] # "await"
            /\ \E p \in {"prepare", "blocked", wpc[w]} : wpc' = [wpc EXCEPT ![w] = p]
        BY <3>1 DEF Arrive, WakeWorker, TypeOK
      <4>2. \A v \in Workers : (wpc'[v] = "await") <=> (wpc[v] = "await")
        BY <4>1 DEF TypeOK
      <4> QED
        BY <4>1, <4>2 DEF RequestInOnePlace, QueuedOnce, OnePlace, Queued
    <3>2. CASE Post(w)
      <4>1. /\ queue_tasks' = Append(queue_tasks, w)
            /\ busy' = busy /\ answered' = answered
            /\ wpc[w] = "prepare" /\ wpc' = [wpc EXCEPT ![w] = "await"]
        BY <3>2 DEF Post
      <4>2. w \in Tasks /\ ~Queued(w) /\ w \notin busy /\ w \notin answered
        BY <4>1 DEF Tasks, RequestInOnePlace, OnePlace
      <4>3. QueuedOnce'
        BY <4>1, <4>2, QueuedOnceAppend DEF RequestInOnePlace
      <4>4. ASSUME NEW v \in Workers
            PROVE  OnePlace(v)'
        <5>1. Queued(v)' <=> Queued(v) \/ v = w
          BY <4>1, <4>2, QueuedAfterPost
        <5>2. (wpc'[v] = "await") <=> (wpc[v] = "await" \/ v = w)
          BY <4>1 DEF TypeOK
        <5> QED
          BY <4>1, <4>2, <5>1, <5>2 DEF RequestInOnePlace, OnePlace
      <4> QED
        BY <4>3, <4>4 DEF RequestInOnePlace
    <3>3. CASE Receive(w)
      <4>1. /\ queue_tasks' = queue_tasks /\ busy' = busy
            /\ w \in answered /\ answered' = answered \ {w}
            /\ wpc' = [wpc EXCEPT ![w] = "idle"]
        BY <3>3 DEF Receive
      <4>2. \A v \in Workers : (wpc'[v] = "await") <=> (wpc[v] = "await" /\ v # w)
        BY <4>1 DEF TypeOK
      <4> QED
        BY <4>1, <4>2 DEF RequestInOnePlace, QueuedOnce, OnePlace, Queued
    <3> QED
      BY <2>2, <3>1, <3>2, <3>3 DEF WorkerStep
  <2>3. CASE Terminate
    BY <2>3, PlaceUnchanged DEF Terminate
  <2>4. ASSUME NEW t \in Threads, SpuriousWake(t)
        PROVE  RequestInOnePlace'
    BY <2>4, PlaceUnchanged DEF SpuriousWake
  <2>5. CASE UNCHANGED vars
    BY <2>5, PlaceUnchanged DEF vars
  <2> QED
    BY <2>1, <2>2, <2>3, <2>4, <2>5 DEF Next
<1> QED
  BY <1>1, <1>2, TypeCorrect, PTL DEF Spec
=============================================================================
