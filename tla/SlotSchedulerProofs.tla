------------------------ MODULE SlotSchedulerProofs ------------------------
(***************************************************************************)
(* Proofs about SlotScheduler, for any clients, slots and requests, and    *)
(* with any faults where a theorem names none.  In this order: the types;  *)
(* BusyKeepsRunning; who holds a task (SingleOwner); its last result; the  *)
(* results that a reader waits for; the life cycle of a task; the phases   *)
(* of an update, without and with children (NeverAborts); the deferred     *)
(* tasks (DeferredHasBusySlot).                                            *)
(***************************************************************************)
EXTENDS SlotScheduler, TLAPS, FiniteSetTheorems, SequenceTheorems

-----------------------------------------------------------------------------
(***************************************************************************)
(* Ranks, and what remains of a sequence.                                  *)
(***************************************************************************)

\* Ranks number the elements of a finite set of numbers.
LEMMA RankLemma ==
    ASSUME NEW K \in SUBSET Nat, IsFiniteSet(K)
    PROVE  /\ Cardinality(K) \in Nat
           /\ \A x \in K : RankIn(K, x) \in 1 .. Cardinality(K)
           /\ \A x, y \in K : x < y => RankIn(K, x) < RankIn(K, y)
           /\ \A k \in 1 .. Cardinality(K) : \E x \in K : RankIn(K, x) = k
<1> DEFINE Upto(x) == {y \in K : y <= x}
<1>1. Cardinality(K) \in Nat
  BY FS_CardinalityType
<1>2. ASSUME NEW x \in K
      PROVE  IsFiniteSet(Upto(x)) /\ RankIn(K, x) \in 1 .. Cardinality(K)
  <2>1. Upto(x) \in SUBSET K /\ x \in Upto(x)
    OBVIOUS
  <2>2. IsFiniteSet(Upto(x)) /\ Cardinality(Upto(x)) <= Cardinality(K)
    BY <2>1, FS_Subset
  <2>3. Cardinality(Upto(x)) \in Nat /\ Cardinality(Upto(x)) # 0
    BY <2>1, <2>2, FS_CardinalityType, FS_EmptySet
  <2> QED
    BY <1>1, <2>2, <2>3 DEF RankIn
<1>3. ASSUME NEW x \in K, NEW y \in K, x < y
      PROVE  RankIn(K, x) < RankIn(K, y)
  <2>0. x \in Nat /\ y \in Nat /\ x < y /\ \A z \in K : z \in Nat
    BY <1>3
  <2>1. Upto(x) \in SUBSET Upto(y) /\ y \in Upto(y) /\ y \notin Upto(x)
    <3>1. \A z \in K : z <= x => z <= y
      BY <2>0
    <3>2. y <= y /\ ~(y <= x)
      BY <2>0
    <3> QED
      BY <3>1, <3>2
  <2>2. Cardinality(Upto(x)) <= Cardinality(Upto(y)) /\ Cardinality(Upto(x)) # Cardinality(Upto(y))
    BY <1>2, <2>1, FS_Subset
  <2>3. Cardinality(Upto(x)) \in Nat /\ Cardinality(Upto(y)) \in Nat
    BY <1>2, FS_CardinalityType
  <2> QED
    BY <2>2, <2>3 DEF RankIn
<1>4. ASSUME NEW k \in 1 .. Cardinality(K)
      PROVE  \E x \in K : RankIn(K, x) = k
  <2> DEFINE N == 1 .. Cardinality(K)
             g == [x \in K |-> RankIn(K, x)]
  <2>1. g \in [K -> N]
    BY <1>2
  <2>2. \A x, y \in K : g[x] = g[y] => x = y
    <3> SUFFICES ASSUME NEW x \in K, NEW y \in K, g[x] = g[y], x # y
                 PROVE  FALSE
      OBVIOUS
    <3>1. RankIn(K, x) = RankIn(K, y)
      OBVIOUS
    <3>2. x < y \/ y < x
      OBVIOUS
    <3>3. RankIn(K, x) \in 1 .. Cardinality(K) /\ RankIn(K, y) \in 1 .. Cardinality(K)
      BY <1>2, Zenon
    <3> QED
      BY <1>1, <1>3, <3>1, <3>2, <3>3
  <2>3. g \in Injection(K, N)
    BY <2>1, <2>2 DEF Injection, IsInjective
  <2>4. IsFiniteSet(N) /\ Cardinality(N) = Cardinality(K)
    BY <1>1, FS_Interval
  <2>5. g \in Surjection(K, N)
    BY <2>3, <2>4, FS_Injection
  <2> QED
    BY <2>5 DEF Surjection
<1> QED
  BY <1>1, <1>2, <1>3, <1>4

\* Nth is the inverse of RankIn.
LEMMA NthLemma ==
    ASSUME NEW K \in SUBSET Nat, IsFiniteSet(K)
    PROVE  /\ \A k \in 1 .. Cardinality(K) : Nth(K, k) \in K
           /\ \A j, k \in 1 .. Cardinality(K) : j < k => Nth(K, j) < Nth(K, k)
           /\ \A x \in K : \E k \in 1 .. Cardinality(K) : Nth(K, k) = x
<1>1. ASSUME NEW k \in 1 .. Cardinality(K)
      PROVE  Nth(K, k) \in K /\ RankIn(K, Nth(K, k)) = k
  BY RankLemma DEF Nth
<1>2. ASSUME NEW j \in 1 .. Cardinality(K), NEW k \in 1 .. Cardinality(K), j < k
      PROVE  Nth(K, j) < Nth(K, k)
  <2> DEFINE x == Nth(K, j)  y == Nth(K, k)
  <2>1. x \in K /\ y \in K /\ RankIn(K, x) = j /\ RankIn(K, y) = k
    BY <1>1
  <2>2. x \in Nat /\ y \in Nat
    BY <2>1
  <2> HIDE DEF x, y
  <2>3. x < y \/ x = y \/ y < x
    BY <2>2
  <2>4. ~(y < x)
    BY <2>1, RankLemma, <1>2
  <2>5. x # y
    BY <2>1, <1>2
  <2> QED
    BY <2>3, <2>4, <2>5 DEF x, y
<1>3. ASSUME NEW x \in K
      PROVE  \E k \in 1 .. Cardinality(K) : Nth(K, k) = x
  <2> DEFINE k == RankIn(K, x)
             y == Nth(K, k)
  <2>1. k \in 1 .. Cardinality(K)
    BY RankLemma
  <2>2. y \in K /\ RankIn(K, y) = RankIn(K, x)
    BY <1>1, <2>1
  <2> HIDE DEF y
  <2>3. ~(x < y) /\ ~(y < x)
    <3>1. RankIn(K, x) \in Nat
      BY <2>1
    <3> QED
      BY <2>2, <3>1, RankLemma
  <2>4. y = x
    BY <2>2, <2>3
  <2> QED
    BY <2>1, <2>4 DEF y
<1> QED
  BY <1>1, <1>2, <1>3

\* Kept takes the elements at the given positions, each once.
LEMMA KeptLemma ==
    ASSUME NEW S, NEW q \in Seq(S), NEW K \in SUBSET DOMAIN q
    PROVE  /\ Kept(q, K) \in Seq(S)
           /\ \A k \in DOMAIN Kept(q, K) : Nth(K, k) \in K /\ Kept(q, K)[k] = q[Nth(K, k)]
           /\ \A j, k \in DOMAIN Kept(q, K) : j < k => Nth(K, j) < Nth(K, k)
           /\ \A x \in K : \E k \in DOMAIN Kept(q, K) : Kept(q, K)[k] = q[x]
<1>1. K \in SUBSET Nat /\ IsFiniteSet(K)
  <2>1. DOMAIN q = 1 .. Len(q) /\ Len(q) \in Nat
    BY LenProperties
  <2>2. IsFiniteSet(1 .. Len(q))
    BY <2>1, FS_Interval
  <2> QED
    BY <2>1, <2>2, FS_Subset
<1>2. Cardinality(K) \in Nat
  BY <1>1, FS_CardinalityType
<1> DEFINE n == Cardinality(K)
<1>3. DOMAIN Kept(q, K) = 1 .. n /\ \A k \in 1 .. n : Kept(q, K)[k] = q[Nth(K, k)]
  BY DEF Kept
<1>4. \A k \in 1 .. n : Nth(K, k) \in K
  BY <1>1, NthLemma
<1>5. \A k \in 1 .. n : q[Nth(K, k)] \in S
  BY <1>4, ElementOfSeq, LenProperties
<1>6. Kept(q, K) \in [1 .. n -> S]
  BY <1>5 DEF Kept
<1>7. Kept(q, K) \in Seq(S)
  BY <1>2, <1>6
<1>8. \A j, k \in 1 .. n : j < k => Nth(K, j) < Nth(K, k)
  BY <1>1, NthLemma
<1>9. \A x \in K : \E k \in 1 .. n : Nth(K, k) = x
  BY <1>1, NthLemma
<1> HIDE DEF n
<1> QED
  BY <1>3, <1>4, <1>7, <1>8, <1>9

LEMMA WithoutLemma ==
    ASSUME NEW S, NEW q \in Seq(S), NEW ids
    PROVE  /\ Without(q, ids) \in Seq(S)
           /\ \A k \in DOMAIN Without(q, ids) :
                 \E i \in DOMAIN q : Without(q, ids)[k] = q[i] /\ q[i].id \notin ids
           /\ \A i \in DOMAIN q : q[i].id \notin ids =>
                 \E k \in DOMAIN Without(q, ids) : Without(q, ids)[k] = q[i]
<1> DEFINE K == {i \in DOMAIN q : q[i].id \notin ids}
<1> DEFINE w == Without(q, ids)
<1>1. K \in SUBSET DOMAIN q /\ w = Kept(q, K)
  BY DEF Without
<1>2. /\ w \in Seq(S)
      /\ \A k \in DOMAIN w : Nth(K, k) \in K /\ w[k] = q[Nth(K, k)]
      /\ \A x \in K : \E k \in DOMAIN w : w[k] = q[x]
  <2> HIDE DEF K, w
  <2> QED
    BY <1>1, KeptLemma
<1>3. \A i : i \in K <=> i \in DOMAIN q /\ q[i].id \notin ids
  OBVIOUS
<1> HIDE DEF K, w
<1> QED
  <2>1. \A k \in DOMAIN w : \E i \in DOMAIN q : w[k] = q[i] /\ q[i].id \notin ids
    BY <1>2, <1>3
  <2>2. \A i \in DOMAIN q : q[i].id \notin ids => \E k \in DOMAIN w : w[k] = q[i]
    BY <1>2, <1>3
  <2> QED
    BY <1>2, <2>1, <2>2 DEF w

\* The position that pop_deferred_task() chooses exists.
LEMMA LeastLemma ==
    ASSUME NEW K \in SUBSET Nat, IsFiniteSet(K), K # {}
    PROVE  \E x \in K : \A y \in K : x <= y
<1>1. Cardinality(K) \in Nat /\ Cardinality(K) # 0
  BY FS_CardinalityType, FS_EmptySet
<1>2. PICK x \in K : RankIn(K, x) = 1
  <2>1. 1 \in 1 .. Cardinality(K)
    BY <1>1
  <2> QED
    BY <2>1, RankLemma
<1>3. ASSUME NEW y \in K
      PROVE  x <= y
  <2>1. RankIn(K, y) \in 1 .. Cardinality(K)
    BY RankLemma
  <2>2. ~(y < x)
    BY <1>1, <1>2, <2>1, RankLemma
  <2> QED
    BY <2>2
<1> QED
  BY <1>3

-----------------------------------------------------------------------------
(***************************************************************************)
(* Types: a queue holds jobs of readers and, in queue_tasks, the orders of *)
(* the server to itself; a slot that is processing holds a job.            *)
(***************************************************************************)
Job == [id : Id, type : ReaderTypes, id_slot : Slots \cup {NoSlot},
        action_slot : Slots \cup {NoSlot}, kids : 0 .. NSlots - 1, id_target : {NoId}]
Root == {t \in Job : t.id[3] = 0}
Control == [id : {NoId}, type : {"cancel", "next_response"}, id_slot : {NoSlot},
            action_slot : {NoSlot}, kids : {0}, id_target : Id \cup {NoId}]
Result == [id : Id, kind : {"partial", "final", "error"}]

QueueTyped ==
    /\ queue_tasks \in Seq(Root \cup Control)
    /\ queue_tasks_deferred \in Seq(Root)
ResultTyped ==
    /\ waiting_task_ids \subseteq Id
    /\ queue_results \in Seq(Result)
SlotTyped ==
    /\ slot_state \in [Slots -> SlotStates]
    /\ slot_task \in [Slots -> Job \cup {NoTask}]
    /\ \A s \in Slots : IsProcessing(s) => slot_task[s] \in Job
LoopTyped ==
    /\ n_empty_consecutive \in 0 .. 4
    /\ mainpc # "aborted" => n_empty_consecutive <= 3
    /\ mainpc \in MainPcs
    /\ cur \in Root \cup Control \cup {NoTask}
    /\ mainpc = "process" => cur \in Root \cup Control
    /\ mainpc = "unlaunch" => cur \in Root
    /\ cursor \in 0 .. NSlots
    /\ in_batch \subseteq Slots
ReleaseTyped == mainpc \in DOMAIN ReleaseLoop => cursor \in Slots /\ IsProcessing(cursor)
ReaderTyped ==
    /\ rpc \in [Clients -> RpcStates]
    /\ tasks \in [Clients -> Seq(Root)]
    /\ received_count \in [Clients -> Nat]
Typed == QueueTyped /\ ResultTyped /\ SlotTyped /\ LoopTyped /\ ReleaseTyped /\ ReaderTyped

LEMMA ReleaseLoops ==
    /\ DOMAIN ReleaseLoop = {"shift_release", "prompt_release", "fail_release", "sample_release"}
    /\ \A pc \in DOMAIN ReleaseLoop : ReleaseLoop[pc] \in {"shift", "prompt", "fail", "sample"}
  BY DEF ReleaseLoop

LEMMA RootJob == \A t \in Root : t \in Job /\ t.id[3] = 0
  BY DEF Root

LEMMA JobFields ==
    /\ \A t \in Job : /\ t.id \in Id /\ t.type \in ReaderTypes
                      /\ t.kids \in 0 .. NSlots - 1 /\ t.kids \in Nat /\ t.id # NoId
    /\ \A t \in Control : t.id = NoId /\ t.type \in {"cancel", "next_response"}
  BY NSlotsAssumption, NoIdAssumption DEF Job, Control, Id

LEMMA IdFields ==
    \A id \in Id : /\ id[1] \in Clients /\ id[2] \in Nat /\ id[3] \in Nat
                   /\ id = <<id[1], id[2], id[3]>>
  BY DEF Id

LEMMA FamilyLemma ==
    ASSUME NEW t \in Job
    PROVE  /\ t.id[3] = 0 => t.id \in Family(t)
           /\ \A id \in Family(t) : id \in Id /\ id[1] = t.id[1] /\ id[2] = t.id[2]
           /\ \A k \in 0 .. t.kids : <<t.id[1], t.id[2], k>> \in Family(t)
  BY JobFields, IdFields DEF Family, Id

LEMMA ChildTyped ==
    ASSUME NEW t \in Job, NEW k \in Nat
    PROVE  ChildTask(t, k) \in Job /\ ChildTask(t, k).id = <<t.id[1], t.id[2], k>>
<1>1. <<t.id[1], t.id[2], k>> \in Id
  BY JobFields, IdFields DEF Id
<1>2. ASSUME NEW A, NEW B, NEW C, NEW D, NEW E, NEW F, NEW a \in A, NEW c \in C, NEW e \in E,
             NEW r \in [id : A, type : B, id_slot : C, action_slot : D, kids : E, id_target : F]
      PROVE  /\ [r EXCEPT !.id = a, !.id_slot = c, !.kids = e]
                   \in [id : A, type : B, id_slot : C, action_slot : D, kids : E, id_target : F]
             /\ [r EXCEPT !.id = a, !.id_slot = c, !.kids = e].id = a
  OBVIOUS
<1>3. 0 \in 0 .. NSlots - 1 /\ NoSlot \in Slots \cup {NoSlot}
  BY NSlotsAssumption
<1> QED
  BY <1>1, <1>2, <1>3 DEF ChildTask, Job

LEMMA OrdersTyped ==
    /\ NextResponse \in Control
    /\ \A id \in Id : CancelTask(id) \in Control
  BY DEF NextResponse, CancelTask, Control

LEMMA MakeTyped ==
    ASSUME NEW c \in Clients, NEW ts \in Templates
    PROVE  /\ [i \in DOMAIN ts |-> MakeTask(c, i, ts[i])] \in Seq(Root)
           /\ \A i \in DOMAIN ts : MakeTask(c, i, ts[i]).id = <<c, i, 0>>
<1>1. ts \in Seq(Template)
  BY TemplatesAssumption
<1>2. DOMAIN ts = 1 .. Len(ts) /\ Len(ts) \in Nat
  BY <1>1, LenProperties
<1>3. ASSUME NEW i \in DOMAIN ts
      PROVE  MakeTask(c, i, ts[i]) \in Job
  <2>1. ts[i] \in Template /\ <<c, i, 0>> \in Id
    BY <1>1, <1>2, ElementOfSeq DEF Id
  <2> QED
    BY <2>1 DEF MakeTask, Template, Job
<1>4. \A i \in DOMAIN ts : MakeTask(c, i, ts[i]).id = <<c, i, 0>>
  BY DEF MakeTask
<1>5. \A i \in DOMAIN ts : MakeTask(c, i, ts[i]) \in Root
  BY <1>3, <1>4 DEF Root
<1>6. [i \in DOMAIN ts |-> MakeTask(c, i, ts[i])] \in [1 .. Len(ts) -> Root]
  BY <1>2, <1>5
<1> QED
  BY <1>2, <1>4, <1>6

LEMMA SlotFacts ==
    /\ Slots \in SUBSET Nat /\ IsFiniteSet(Slots)
    /\ IdleSlots \in SUBSET Slots
    /\ \A s : /\ IdleSlots \ {s} \in SUBSET Nat
              /\ IsFiniteSet(IdleSlots \ {s})
<1>1. Slots \in SUBSET Nat /\ IsFiniteSet(Slots)
  BY NSlotsAssumption, FS_Interval DEF Slots
<1>2. IdleSlots \in SUBSET Slots
  BY DEF IdleSlots
<1>3. ASSUME NEW s
      PROVE  IdleSlots \ {s} \in SUBSET Nat /\ IsFiniteSet(IdleSlots \ {s})
  <2>1. IdleSlots \ {s} \in SUBSET Slots
    BY <1>2
  <2> QED
    BY <1>1, <2>1, FS_Subset
<1> QED
  BY <1>1, <1>2, <1>3

LEMMA RankTyped ==
    \A s : \A x \in IdleSlots \ {s} : Rank(s, x) \in Nat \ {0}
<1> SUFFICES ASSUME NEW s, NEW x \in IdleSlots \ {s}
             PROVE  Rank(s, x) \in Nat \ {0}
  OBVIOUS
<1> DEFINE K == IdleSlots \ {s}
<1>1. K \in SUBSET Nat /\ IsFiniteSet(K)
  BY SlotFacts
<1>2. RankIn(K, x) \in 1 .. Cardinality(K) /\ Cardinality(K) \in Nat
  BY <1>1, RankLemma
<1> QED
  BY <1>2 DEF Rank

-----------------------------------------------------------------------------
\* The operations keep the types.

LEMMA CutTyped ==
    ASSUME NEW S, NEW d \in Seq(S), NEW k \in DOMAIN d
    PROVE  LET cut == SubSeq(d, 1, k - 1) \o SubSeq(d, k + 1, Len(d))
           IN  /\ cut \in Seq(S)
               /\ Len(cut) = Len(d) - 1
               /\ \A i \in DOMAIN cut : cut[i] = d[IF i < k THEN i ELSE i + 1]
<1> DEFINE a == SubSeq(d, 1, k - 1)  b == SubSeq(d, k + 1, Len(d))
<1>1. Len(d) \in Nat /\ DOMAIN d = 1 .. Len(d) /\ k \in 1 .. Len(d)
  BY LenProperties
<1>2. \A i \in 1 .. Len(d) : d[i] \in S
  BY ElementOfSeq
<1>3. /\ a \in Seq(S) /\ Len(a) = k - 1
      /\ \A i \in 1 .. k - 1 : a[i] = d[i]
  <2>1. \A i \in 1 .. k - 1 : d[i] \in S
    BY <1>1, <1>2
  <2>2. /\ a \in Seq(S) /\ Len(a) = IF 1 <= k - 1 THEN (k - 1) - 1 + 1 ELSE 0
        /\ \A i \in 1 .. (k - 1) - 1 + 1 : a[i] = d[1 + i - 1]
    BY <1>1, <2>1, SubSeqProperties
  <2> QED
    BY <1>1, <2>2
<1>4. /\ b \in Seq(S) /\ Len(b) = Len(d) - k
      /\ \A i \in 1 .. Len(d) - k : b[i] = d[k + i]
  <2>1. \A i \in k + 1 .. Len(d) : d[i] \in S
    BY <1>1, <1>2
  <2>2. /\ b \in Seq(S) /\ Len(b) = IF k + 1 <= Len(d) THEN Len(d) - (k + 1) + 1 ELSE 0
        /\ \A i \in 1 .. Len(d) - (k + 1) + 1 : b[i] = d[(k + 1) + i - 1]
    BY <1>1, <2>1, SubSeqProperties
  <2> QED
    BY <1>1, <2>2
<1>5. /\ a \o b \in Seq(S) /\ Len(a \o b) = Len(a) + Len(b)
      /\ \A i \in 1 .. Len(a) + Len(b) :
            (a \o b)[i] = IF i <= Len(a) THEN a[i] ELSE b[i - Len(a)]
  BY <1>3, <1>4, ConcatProperties
<1> DEFINE cut == a \o b
<1>6. DOMAIN cut = 1 .. Len(cut)
  BY <1>5, LenProperties
<1> HIDE DEF a, b, cut
<1>7. Len(cut) = Len(d) - 1
  BY <1>1, <1>3, <1>4, <1>5 DEF cut
<1>8. ASSUME NEW i \in DOMAIN cut
      PROVE  cut[i] = d[IF i < k THEN i ELSE i + 1]
  <2>1. i \in 1 .. Len(d) - 1
    BY <1>6, <1>7
  <2>2. CASE i < k
    BY <1>1, <1>3, <1>4, <1>5, <2>1, <2>2 DEF cut
  <2>3. CASE ~(i < k)
    <3>1. cut[i] = b[i - (k - 1)]
      BY <1>1, <1>3, <1>4, <1>5, <2>1, <2>3 DEF cut
    <3>2. i - (k - 1) \in 1 .. Len(d) - k
      BY <1>1, <2>1, <2>3
    <3>3. b[i - (k - 1)] = d[k + (i - (k - 1))] /\ k + (i - (k - 1)) = i + 1
      BY <1>1, <1>4, <2>1, <3>2
    <3> QED
      BY <2>3, <3>1, <3>3
  <2> QED
    BY <2>2, <2>3
<1> QED
  BY <1>5, <1>7, <1>8 DEF a, b, cut

\* pop_deferred_task() takes one task, if there is one.
LEMMA PopDeferredLemma ==
    ASSUME QueueTyped, NEW s, PopDeferred(s)
    PROVE  \/ queue_tasks_deferred = <<>> /\ UNCHANGED queueVars
           \/ \E k \in DOMAIN queue_tasks_deferred :
                /\ queue_tasks' = <<queue_tasks_deferred[k]>> \o queue_tasks
                /\ queue_tasks_deferred' =
                     SubSeq(queue_tasks_deferred, 1, k - 1)
                       \o SubSeq(queue_tasks_deferred, k + 1, Len(queue_tasks_deferred))
<1> SUFFICES ASSUME queue_tasks_deferred # <<>>
             PROVE  \E k \in DOMAIN queue_tasks_deferred :
                /\ queue_tasks' = <<queue_tasks_deferred[k]>> \o queue_tasks
                /\ queue_tasks_deferred' =
                     SubSeq(queue_tasks_deferred, 1, k - 1)
                       \o SubSeq(queue_tasks_deferred, k + 1, Len(queue_tasks_deferred))
  BY DEF PopDeferred
<1> DEFINE d == queue_tasks_deferred
           asks == {i \in DOMAIN d : d[i].id_slot = s}
           first == IF asks = {} THEN 1 ELSE CHOOSE i \in asks : \A j \in asks : i <= j
<1>1. d \in Seq(Root) /\ Len(d) \in Nat \ {0} /\ DOMAIN d = 1 .. Len(d)
  BY LenProperties, EmptySeq DEF QueueTyped
<1>2. CASE asks # {}
  <2>1. asks \in SUBSET Nat /\ asks \in SUBSET (1 .. Len(d))
    BY <1>1
  <2>2. IsFiniteSet(asks)
    <3>1. IsFiniteSet(1 .. Len(d))
      BY <1>1, FS_Interval
    <3> QED
      BY <2>1, <3>1, FS_Subset
  <2>3. \E i \in asks : \A j \in asks : i <= j
    BY <1>2, <2>1, <2>2, LeastLemma
  <2>4. first \in asks
    BY <1>2, <2>3
  <2> QED
    BY <2>4 DEF PopDeferred
<1>3. CASE asks = {}
  <2>1. first = 1 /\ 1 \in DOMAIN d
    BY <1>1, <1>3
  <2> QED
    BY <2>1 DEF PopDeferred
<1> QED
  BY <1>2, <1>3

LEMMA PopDeferredTyped ==
    ASSUME QueueTyped, NEW s, PopDeferred(s)
    PROVE  QueueTyped'
<1>1. CASE UNCHANGED queueVars
  BY <1>1 DEF QueueTyped, queueVars
<1>2. ASSUME NEW k \in DOMAIN queue_tasks_deferred,
             queue_tasks' = <<queue_tasks_deferred[k]>> \o queue_tasks,
             queue_tasks_deferred' =
                SubSeq(queue_tasks_deferred, 1, k - 1)
                   \o SubSeq(queue_tasks_deferred, k + 1, Len(queue_tasks_deferred))
      PROVE  QueueTyped'
  <2>1. queue_tasks_deferred' \in Seq(Root)
    BY <1>2, CutTyped DEF QueueTyped
  <2>2. queue_tasks_deferred[k] \in Root \cup Control
    BY ElementOfSeq, LenProperties DEF QueueTyped
  <2>3. <<queue_tasks_deferred[k]>> \in Seq(Root \cup Control)
    BY <2>2
  <2>4. queue_tasks' \in Seq(Root \cup Control)
    BY <1>2, <2>3, ConcatProperties DEF QueueTyped
  <2> QED
    BY <2>1, <2>4 DEF QueueTyped
<1> QED
  BY <1>1, <1>2, PopDeferredLemma

LEMMA ReleaseTypes ==
    ASSUME QueueTyped, SlotTyped, NEW s \in Slots, Release(s)
    PROVE  /\ QueueTyped' /\ SlotTyped'
           /\ \A x \in Slots : IsProcessing(x)' <=> (IsProcessing(x) /\ x # s)
           /\ \A x \in Slots : x # s => slot_task'[x] = slot_task[x] /\ slot_state'[x] = slot_state[x]
<1>1. QueueTyped'
  BY PopDeferredTyped DEF Release
<1>2. /\ slot_state' = [slot_state EXCEPT ![s] = "idle"]
      /\ slot_task' = [slot_task EXCEPT ![s] = NoTask]
  BY DEF Release
<1>3. /\ \A x \in Slots : IsProcessing(x)' <=> (IsProcessing(x) /\ x # s)
      /\ \A x \in Slots : x # s => slot_task'[x] = slot_task[x] /\ slot_state'[x] = slot_state[x]
  BY <1>2 DEF IsProcessing, Idle, SlotTyped
<1>4. SlotTyped'
  BY <1>2, <1>3 DEF SlotTyped, SlotStates
<1> QED
  BY <1>1, <1>3, <1>4

LEMMA SendTyped ==
    ASSUME ResultTyped, NEW id \in Id, NEW kind \in {"partial", "final", "error"}, Send(id, kind)
    PROVE  ResultTyped'
<1>1. [id |-> id, kind |-> kind] \in Result
  BY DEF Result
<1> QED
  BY <1>1, AppendProperties DEF Send, ResultTyped

LEMMA LaunchTyped ==
    ASSUME SlotTyped, cur \in Root, NEW s \in Slots, NEW n, NEW state \in SlotStates,
           NEW task \in Job \cup {NoTask}, state # "idle" => task \in Job,
           LaunchChildren(s, n, state, task)
    PROVE  SlotTyped'
<1>1. \A x \in ChildSlots(s, n) : ChildTask(cur, Rank(s, x)) \in Job
  BY RootJob, RankTyped, ChildTyped DEF ChildSlots
<1>2. /\ slot_state' \in [Slots -> SlotStates]
      /\ slot_task' \in [Slots -> Job \cup {NoTask}]
  BY <1>1 DEF LaunchChildren, SlotTyped, SlotStates
<1>3. ASSUME NEW x \in Slots, IsProcessing(x)'
      PROVE  slot_task'[x] \in Job
  <2>1. CASE x = s
    <3>1. slot_state'[s] = state /\ slot_task'[s] = task
      BY DEF LaunchChildren, ChildSlots
    <3> QED
      BY <1>3, <2>1, <3>1 DEF IsProcessing, Idle
  <2>2. CASE x # s /\ x \in ChildSlots(s, n)
    BY <1>1, <2>2 DEF LaunchChildren
  <2>3. CASE x # s /\ x \notin ChildSlots(s, n)
    BY <1>3, <2>3 DEF LaunchChildren, IsProcessing, Idle, SlotTyped
  <2> QED
    BY <2>1, <2>2, <2>3
<1> QED
  BY <1>2, <1>3 DEF SlotTyped

-----------------------------------------------------------------------------
(***************************************************************************)
(* Every step keeps the types.                                             *)
(***************************************************************************)
LEMMA TypedInit == Init => Typed
<1> SUFFICES ASSUME Init
             PROVE  Typed
  OBVIOUS
<1>1. QueueTyped /\ ResultTyped /\ ReaderTyped
  BY EmptySeq DEF Init, QueueTyped, ResultTyped, ReaderTyped, RpcStates
<1>2. SlotTyped /\ ReleaseTyped
  BY ReleaseLoops DEF Init, SlotTyped, ReleaseTyped, SlotStates, IsProcessing, Idle
<1>3. LoopTyped
  BY NSlotsAssumption, ReleaseLoops DEF Init, LoopTyped, MainPcs
<1> QED
  BY <1>1, <1>2, <1>3 DEF Typed

LEMMA BackToDrainTyped ==
    ASSUME LoopTyped, BackToDrain, n_empty_consecutive' \in {0, n_empty_consecutive},
           mainpc # "aborted"
    PROVE  LoopTyped' /\ ReleaseTyped'
<1>1. mainpc' = "drain" /\ cur' = NoTask /\ UNCHANGED <<cursor, in_batch>>
  BY DEF BackToDrain
<1>2. LoopTyped'
  BY <1>1, ReleaseLoops DEF LoopTyped, MainPcs
<1> QED
  BY <1>1, <1>2, ReleaseLoops DEF ReleaseTyped

LEMMA SlotsUnchanged ==
    ASSUME SlotTyped, UNCHANGED slotVars
    PROVE  SlotTyped' /\ \A s : IsProcessing(s)' <=> IsProcessing(s)
  BY DEF slotVars, SlotTyped, IsProcessing, Idle

LEMMA QueuesUnchanged == QueueTyped /\ UNCHANGED queueVars => QueueTyped'
  BY DEF queueVars, QueueTyped
LEMMA ResultsUnchanged == ResultTyped /\ UNCHANGED resultVars => ResultTyped'
  BY DEF resultVars, ResultTyped
LEMMA ReadersUnchanged == ReaderTyped /\ UNCHANGED readerVars => ReaderTyped'
  BY DEF readerVars, ReaderTyped

LEMMA DeferTyped ==
    ASSUME QueueTyped, cur \in Root, Defer(cur)
    PROVE  QueueTyped'
  BY AppendProperties DEF Defer, QueueTyped

LEMMA TypedProcess == Typed /\ ProcessStep => Typed'
<1> SUFFICES ASSUME Typed, ProcessStep
             PROVE  Typed'
  OBVIOUS
<1> USE DEF Typed
<1> DEFINE InProcess == mainpc = "process" /\ cur \in Root \cup Control
<1>0. mainpc = "process" /\ cur.type \in ReaderTypes => cur \in Root
  BY JobFields DEF LoopTyped, ReaderTypes, CompletionTypes
<1>a. IsCompletion => cur \in Root
  BY <1>0 DEF IsCompletion, ReaderTypes
<1>1. CASE PopTask
  <2>1. cur' \in Root \cup Control /\ queue_tasks' \in Seq(Root \cup Control)
    BY <1>1, HeadTailProperties DEF PopTask, QueueTyped
  <2>2. QueueTyped'
    BY <1>1, <2>1 DEF PopTask, QueueTyped
  <2>3. LoopTyped' /\ ReleaseTyped'
    BY <1>1, <2>1, ReleaseLoops DEF PopTask, LoopTyped, MainPcs, ReleaseTyped
  <2> QED
    BY <1>1, <2>2, <2>3, SlotsUnchanged, ResultsUnchanged, ReadersUnchanged DEF PopTask
<1>2. CASE DrainDone \/ WaitForTasks
  <2>1. UNCHANGED <<queueVars, resultVars, slotVars, loopVars, readerVars>>
        /\ mainpc' \in {"update", "drain"} /\ mainpc # "aborted"
    BY <1>2 DEF DrainDone, WaitForTasks
  <2>2. LoopTyped' /\ ReleaseTyped'
    BY <2>1, ReleaseLoops DEF loopVars, LoopTyped, MainPcs, ReleaseTyped
  <2> QED
    BY <2>1, <2>2, SlotsUnchanged, QueuesUnchanged, ResultsUnchanged, ReadersUnchanged
<1>3. CASE DeferCompletion \/ DeferSlotAction
  <2>1. /\ Defer(cur) /\ BackToDrain /\ cur \in Root /\ mainpc # "aborted"
        /\ UNCHANGED <<resultVars, slotVars, n_empty_consecutive, readerVars>>
    BY <1>0, <1>a, <1>3 DEF DeferCompletion, DeferSlotAction, IsCompletion, ReaderTypes
  <2> QED
    BY <2>1, DeferTyped, BackToDrainTyped, SlotsUnchanged, ResultsUnchanged, ReadersUnchanged
<1>4. ASSUME NEW s \in Slots, Launch(s)
      PROVE  Typed'
  <2>1. /\ LaunchChildren(s, cur.kids, "started", cur) /\ n_empty_consecutive' = 0
        /\ BackToDrain /\ cur \in Root /\ mainpc # "aborted"
        /\ UNCHANGED <<queueVars, resultVars, readerVars>>
    BY <1>a, <1>4 DEF Launch, IsCompletion
  <2>2. SlotTyped'
    BY <2>1, LaunchTyped, RootJob DEF SlotStates
  <2> QED
    BY <2>1, <2>2, BackToDrainTyped, QueuesUnchanged, ResultsUnchanged, ReadersUnchanged
<1>5. ASSUME NEW s \in Slots, NEW n \in 0 .. NSlots - 1, LaunchFails(s, n)
      PROVE  Typed'
  <2>1. /\ cur \in Root /\ mainpc = "process" /\ mainpc' = "unlaunch"
        /\ LaunchChildren(s, n, "idle", NoTask)
        /\ Send(IF n < cur.kids THEN ChildTask(cur, n + 1).id ELSE cur.id, "error")
        /\ n_empty_consecutive' \in {0, n_empty_consecutive}
        /\ UNCHANGED <<queueVars, cur, cursor, in_batch, readerVars>>
    BY <1>a, <1>5 DEF LaunchFails, IsCompletion
  <2>2. SlotTyped'
    BY <2>1, LaunchTyped DEF SlotStates
  <2>3. (IF n < cur.kids THEN ChildTask(cur, n + 1).id ELSE cur.id) \in Id
    <3>1. n + 1 \in Nat
      OBVIOUS
    <3> QED
      BY <2>1, <3>1, ChildTyped, RootJob, JobFields
  <2>4. ResultTyped'
    BY <2>1, <2>3, SendTyped
  <2>5. LoopTyped' /\ ReleaseTyped'
    BY <2>1, ReleaseLoops DEF LoopTyped, MainPcs, ReleaseTyped
  <2> QED
    BY <2>1, <2>2, <2>4, <2>5, QueuesUnchanged, ReadersUnchanged
<1>6. ASSUME NEW s \in Slots, Unlaunch(s)
      PROVE  Typed'
  <2>1. /\ Release(s) /\ mainpc = "unlaunch"
        /\ UNCHANGED <<resultVars, loopVars, mainpc, readerVars>>
    BY <1>6 DEF Unlaunch
  <2>2. LoopTyped' /\ ReleaseTyped'
    BY <2>1, ReleaseLoops DEF loopVars, LoopTyped, ReleaseTyped
  <2> QED
    BY <2>1, <2>2, ReleaseTypes, ResultsUnchanged, ReadersUnchanged
<1>7. CASE UnlaunchDone
  BY <1>7, BackToDrainTyped, SlotsUnchanged, QueuesUnchanged, ResultsUnchanged, ReadersUnchanged
     DEF UnlaunchDone
<1>8. CASE ProcessCancel
  <2> DEFINE hit == {s \in Slots : IsProcessing(s) /\ slot_task[s].id = cur.id_target}
             s0 == CHOOSE s \in hit : \A x \in hit : s <= x
  <2>1. /\ IF hit = {} THEN UNCHANGED <<queueVars, slotVars>> ELSE Release(s0)
        /\ BackToDrain /\ mainpc # "aborted"
        /\ UNCHANGED <<resultVars, n_empty_consecutive, readerVars>>
    BY <1>8 DEF ProcessCancel
  <2>2. CASE hit # {}
    <3>1. hit \in SUBSET Slots
      OBVIOUS
    <3>2. hit \in SUBSET Nat /\ IsFiniteSet(hit)
      BY <3>1, SlotFacts, FS_Subset
    <3>3. s0 \in hit
      <4>1. \E s \in hit : \A x \in hit : s <= x
        BY <2>2, <3>2, LeastLemma
      <4> QED
        BY <4>1
    <3> QED
      BY <2>1, <2>2, <3>1, <3>3, ReleaseTypes, BackToDrainTyped, ResultsUnchanged, ReadersUnchanged
  <2>3. CASE hit = {}
    BY <2>1, <2>3, SlotsUnchanged, QueuesUnchanged, BackToDrainTyped, ResultsUnchanged, ReadersUnchanged
  <2> QED
    BY <2>2, <2>3
<1>9. CASE ProcessNextResponse
  BY <1>9, BackToDrainTyped, SlotsUnchanged, QueuesUnchanged, ResultsUnchanged, ReadersUnchanged
     DEF ProcessNextResponse
<1>10. CASE ProcessMetrics \/ ProcessSlotAction
  <2>1. /\ cur \in Root /\ BackToDrain /\ mainpc # "aborted"
        /\ \E kind \in {"final", "error"} : Send(cur.id, kind)
        /\ UNCHANGED <<queueVars, slotVars, n_empty_consecutive, readerVars>>
    BY <1>0, <1>10 DEF ProcessMetrics, ProcessSlotAction, ReaderTypes
  <2>2. ResultTyped'
    BY <2>1, SendTyped, RootJob, JobFields
  <2> QED
    BY <2>1, <2>2, BackToDrainTyped, SlotsUnchanged, QueuesUnchanged, ReadersUnchanged
<1> QED
  BY <1>1, <1>2, <1>3, <1>4, <1>5, <1>6, <1>7, <1>8, <1>9, <1>10 DEF ProcessStep

LEMMA SendAndStopTyped ==
    ASSUME Typed, NEW s \in Slots, IsProcessing(s), mainpc # "aborted",
           NEW kind \in {"partial", "final", "error"}, NEW pc \in DOMAIN ReleaseLoop,
           SendAndStop(s, kind, pc)
    PROVE  Typed'
<1> USE DEF Typed
<1>1. /\ Send(slot_task[s].id, kind) /\ cursor' = s /\ mainpc' = pc
      /\ UNCHANGED <<queueVars, slotVars, n_empty_consecutive, cur, in_batch, readerVars>>
  BY DEF SendAndStop
<1>2. slot_task[s].id \in Id
  BY JobFields DEF SlotTyped
<1>3. ResultTyped'
  BY <1>1, <1>2, SendTyped
<1>4. LoopTyped'
  BY <1>1, NSlotsAssumption, ReleaseLoops DEF LoopTyped, MainPcs, Slots
<1>5. ReleaseTyped' /\ SlotTyped'
  BY <1>1, SlotsUnchanged DEF ReleaseTyped
<1> QED
  BY <1>1, <1>3, <1>4, <1>5, QueuesUnchanged, ReadersUnchanged

\* A slot state other than idle is that of a processing slot.
LEMMA StateProcessing ==
    \A s : slot_state[s] # "idle" => IsProcessing(s)
  BY DEF IsProcessing, Idle

LEMMA TypedUpdate == Typed /\ UpdateStep => Typed'
<1> SUFFICES ASSUME Typed, UpdateStep
             PROVE  Typed'
  OBVIOUS
<1> USE DEF Typed
<1>1. CASE UpdateIdle \/ DecodeFails
  <2>1. UNCHANGED <<queueVars, resultVars, slotVars, loopVars, readerVars>>
        /\ mainpc' \in {"wait", "fail"} /\ mainpc # "aborted"
    BY <1>1 DEF UpdateIdle, DecodeFails
  <2>2. LoopTyped' /\ ReleaseTyped'
    BY <2>1, ReleaseLoops DEF loopVars, LoopTyped, MainPcs, ReleaseTyped
  <2> QED
    BY <2>1, <2>2, SlotsUnchanged, QueuesUnchanged, ResultsUnchanged, ReadersUnchanged
<1>2. CASE UpdateBegin
  <2>1. QueueTyped'
    BY <1>2, OrdersTyped, AppendProperties DEF UpdateBegin, QueueTyped
  <2>2. LoopTyped' /\ ReleaseTyped'
    BY <1>2, ReleaseLoops DEF UpdateBegin, loopVars, LoopTyped, MainPcs, ReleaseTyped
  <2> QED
    BY <1>2, <2>1, <2>2, SlotsUnchanged, ResultsUnchanged, ReadersUnchanged DEF UpdateBegin
<1>3. ASSUME NEW s \in Slots, ShiftError(s)
      PROVE  Typed'
  <2>1. SendAndStop(s, "error", "shift_release") /\ IsProcessing(s) /\ mainpc # "aborted"
    BY <1>3, StateProcessing DEF ShiftError, AtOrAfterCursor
  <2> QED
    BY <2>1, ReleaseLoops, SendAndStopTyped
<1>4. CASE ShiftDone
  <2>1. LoopTyped' /\ ReleaseTyped'
    BY <1>4, NSlotsAssumption, ReleaseLoops DEF ShiftDone, LoopTyped, MainPcs, ReleaseTyped
  <2> QED
    BY <1>4, <2>1, SlotsUnchanged, QueuesUnchanged, ResultsUnchanged, ReadersUnchanged DEF ShiftDone
<1>5. ASSUME NEW s \in Slots, PromptSkip(s)
      PROVE  Typed'
  <2>1. LoopTyped' /\ ReleaseTyped'
    BY <1>5, NSlotsAssumption, ReleaseLoops DEF PromptSkip, LoopTyped, MainPcs, ReleaseTyped, Slots
  <2> QED
    BY <1>5, <2>1, SlotsUnchanged, QueuesUnchanged, ResultsUnchanged, ReadersUnchanged DEF PromptSkip
<1>6. ASSUME NEW s \in Slots, PromptAdd(s)
      PROVE  Typed'
  <2>1. LoopTyped' /\ ReleaseTyped'
    BY <1>6, NSlotsAssumption, ReleaseLoops DEF PromptAdd, LoopTyped, MainPcs, ReleaseTyped, Slots
  <2>2. PICK st \in {"processing_prompt", "done_prompt"} :
           slot_state' = [slot_state EXCEPT ![s] = st]
    BY <1>6 DEF PromptAdd
  <2>3. IsProcessing(s) /\ slot_task' = slot_task
    BY <1>6, StateProcessing DEF PromptAdd, IsNext, PromptSlots, AtOrAfterCursor
  <2>4. SlotTyped'
    BY <2>2, <2>3 DEF SlotTyped, SlotStates, IsProcessing, Idle
  <2> QED
    BY <1>6, <2>1, <2>4, QueuesUnchanged, ResultsUnchanged, ReadersUnchanged DEF PromptAdd
<1>7. ASSUME NEW s \in Slots, PromptEnds(s)
      PROVE  Typed'
  <2>1. /\ \E kind \in {"error", "final"} : SendAndStop(s, kind, "prompt_release")
        /\ IsProcessing(s) /\ mainpc # "aborted"
    BY <1>7, StateProcessing DEF PromptEnds
  <2> QED
    BY <2>1, ReleaseLoops, SendAndStopTyped
<1>8. CASE PromptDone
  <2>1. LoopTyped' /\ ReleaseTyped'
    BY <1>8, NSlotsAssumption, ReleaseLoops DEF PromptDone, LoopTyped, MainPcs, ReleaseTyped
  <2> QED
    BY <1>8, <2>1, SlotsUnchanged, QueuesUnchanged, ResultsUnchanged, ReadersUnchanged DEF PromptDone
<1>9. CASE DecodeOk
  <2>1. LoopTyped' /\ ReleaseTyped'
    BY <1>9, ReleaseLoops DEF DecodeOk, LoopTyped, MainPcs, ReleaseTyped, Activated
  <2>2. SlotTyped'
    BY <1>9 DEF DecodeOk, SlotTyped, SlotStates, Activated, IsProcessing, Idle
  <2> QED
    BY <1>9, <2>1, <2>2, QueuesUnchanged, ResultsUnchanged, ReadersUnchanged DEF DecodeOk
<1>10. ASSUME NEW s \in Slots, FailSlot(s)
       PROVE  Typed'
  <2>1. SendAndStop(s, "error", "fail_release") /\ IsProcessing(s) /\ mainpc # "aborted"
    BY <1>10 DEF FailSlot, IsNext, BusySlots
  <2> QED
    BY <2>1, ReleaseLoops, SendAndStopTyped
<1>11. ASSUME NEW s \in Slots, SampleEnds(s)
       PROVE  Typed'
  <2>1. SendAndStop(s, "final", "sample_release") /\ IsProcessing(s) /\ mainpc # "aborted"
    BY <1>11, StateProcessing DEF SampleEnds, IsNext, SampleSlots, AtOrAfterCursor
  <2> QED
    BY <2>1, ReleaseLoops, SendAndStopTyped
<1>12. ASSUME NEW s \in Slots, SampleContinues(s)
       PROVE  Typed'
  <2>1. LoopTyped' /\ ReleaseTyped'
    BY <1>12, NSlotsAssumption, ReleaseLoops
       DEF SampleContinues, LoopTyped, MainPcs, ReleaseTyped, Slots
  <2>2. IsProcessing(s) /\ slot_task' = slot_task /\ slot_state' = [slot_state EXCEPT ![s] = "generating"]
    BY <1>12, StateProcessing DEF SampleContinues, IsNext, SampleSlots, AtOrAfterCursor
  <2>3. SlotTyped'
    BY <2>2 DEF SlotTyped, SlotStates, IsProcessing, Idle
  <2>4. ResultTyped'
    <3>1. slot_task[s].id \in Id
      BY <2>2, JobFields DEF SlotTyped
    <3>2. UNCHANGED resultVars \/ Send(slot_task[s].id, "partial")
      BY <1>12 DEF SampleContinues
    <3> QED
      BY <3>1, <3>2, SendTyped, ResultsUnchanged
  <2> QED
    BY <1>12, <2>1, <2>3, <2>4, QueuesUnchanged, ReadersUnchanged DEF SampleContinues
<1>13. CASE UpdateDone
  <2>1. LoopTyped' /\ ReleaseTyped'
    BY <1>13, NSlotsAssumption, ReleaseLoops DEF UpdateDone, LoopTyped, MainPcs, ReleaseTyped
  <2> QED
    BY <1>13, <2>1, SlotsUnchanged, QueuesUnchanged, ResultsUnchanged, ReadersUnchanged DEF UpdateDone
<1>14. CASE ReleaseSlot
  <2>1. /\ mainpc \in DOMAIN ReleaseLoop /\ Release(cursor) /\ cursor' = cursor + 1
        /\ mainpc' = ReleaseLoop[mainpc]
        /\ UNCHANGED <<resultVars, n_empty_consecutive, cur, in_batch, readerVars>>
    BY <1>14 DEF ReleaseSlot
  <2>2. cursor \in Slots
    BY <2>1 DEF ReleaseTyped
  <2>3. LoopTyped' /\ ReleaseTyped'
    BY <2>1, <2>2, NSlotsAssumption, ReleaseLoops DEF LoopTyped, MainPcs, ReleaseTyped, Slots
  <2> QED
    BY <2>1, <2>2, <2>3, ReleaseTypes, ResultsUnchanged, ReadersUnchanged
<1> QED
  BY <1>1, <1>2, <1>3, <1>4, <1>5, <1>6, <1>7, <1>8, <1>9, <1>10, <1>11, <1>12, <1>13, <1>14
     DEF UpdateStep

\* A step of a reader leaves the main thread where it is.
LEMMA MainUnchanged ==
    ASSUME SlotTyped, LoopTyped, ReleaseTyped, UNCHANGED <<slotVars, loopVars, mainpc>>
    PROVE  SlotTyped' /\ LoopTyped' /\ ReleaseTyped'
<1>1. SlotTyped' /\ \A s : IsProcessing(s)' <=> IsProcessing(s)
  BY SlotsUnchanged
<1>2. LoopTyped'
  BY DEF loopVars, LoopTyped
<1>3. ReleaseTyped'
  BY <1>1 DEF loopVars, ReleaseTyped
<1> QED
  BY <1>1, <1>2, <1>3

LEMMA FamilyFinite ==
    ASSUME NEW t \in Job
    PROVE  IsFiniteSet(Family(t))
<1> DEFINE K == 0 .. t.kids
           f == [k \in K |-> <<t.id[1], t.id[2], k>>]
<1>1. f \in Surjection(K, Family(t))
  BY DEF Surjection, Family
<1>2. IsFiniteSet(K)
  BY JobFields, FS_Interval
<1> QED
  BY <1>1, <1>2, FS_Surjection

LEMMA IdsLemma ==
    ASSUME NEW s \in Seq(Root)
    PROVE  IdsOf(s) \subseteq Id /\ IsFiniteSet(IdsOf(s)) /\ Cardinality(IdsOf(s)) \in Nat
<1> DEFINE D == DOMAIN s
           f == [i \in D |-> Family(s[i])]
           F == {Family(s[i]) : i \in D}
<1>1. \A i \in D : s[i] \in Job
  BY ElementOfSeq, LenProperties, RootJob
<1>2. IdsOf(s) \subseteq Id
  BY <1>1, FamilyLemma DEF IdsOf
<1>3. f \in Surjection(D, F)
  BY DEF Surjection
<1>4. IsFiniteSet(D)
  BY LenProperties, FS_Interval
<1>5. IsFiniteSet(F)
  <2> HIDE DEF F, f
  <2> QED
    BY <1>3, <1>4, FS_Surjection
<1>6. \A T \in F : IsFiniteSet(T)
  BY <1>1, FamilyFinite
<1>7. IdsOf(s) = UNION F
  BY DEF IdsOf
<1>8. IsFiniteSet(IdsOf(s))
  <2> HIDE DEF F
  <2> QED
    BY <1>5, <1>6, <1>7, FS_UNION
<1> QED
  BY <1>2, <1>8, FS_CardinalityType

\* stop(): the CANCEL tasks of a reader, in any order.
LEMMA CancelsTyped ==
    ASSUME NEW S \in SUBSET Id, Cardinality(S) \in Nat, NEW order \in Orders(S)
    PROVE  /\ [i \in DOMAIN order |-> CancelTask(order[i])] \in Seq(Control)
           /\ \A i \in DOMAIN order : order[i] \in S
<1>1. order \in [1 .. Cardinality(S) -> S]
  BY DEF Orders
<1>2. [i \in DOMAIN order |-> CancelTask(order[i])] \in [1 .. Cardinality(S) -> Control]
  BY <1>1, OrdersTyped
<1> QED
  BY <1>1, <1>2

LEMMA TypedReader ==
    ASSUME Typed, NEW c \in Clients, AddWaiting(c) \/ ReaderStep(c) \/ Leave(c)
    PROVE  Typed'
<1> USE DEF Typed
<1>0. tasks[c] \in Seq(Root) /\ Ids(c) = IdsOf(tasks[c])
  BY DEF ReaderTyped, Ids
<1>1. CASE AddWaiting(c)
  <2>1. PICK ts \in Templates :
           LET new == [i \in DOMAIN ts |-> MakeTask(c, i, ts[i])]
           IN /\ tasks' = [tasks EXCEPT ![c] = new]
              /\ waiting_task_ids' = waiting_task_ids \cup IdsOf(new)
    BY <1>1 DEF AddWaiting
  <2>2. [i \in DOMAIN ts |-> MakeTask(c, i, ts[i])] \in Seq(Root)
    BY MakeTyped
  <2>3. ResultTyped'
    BY <1>1, <2>1, <2>2, IdsLemma DEF AddWaiting, ResultTyped
  <2>4. ReaderTyped'
    BY <1>1, <2>1, <2>2 DEF AddWaiting, ReaderTyped, RpcStates
  <2> QED
    BY <1>1, <2>3, <2>4, MainUnchanged, QueuesUnchanged DEF AddWaiting
<1>2. CASE PostTasks(c)
  <2>1. tasks[c] \in Seq(Root \cup Control)
    BY <1>0
  <2>2. QueueTyped'
    BY <1>2, <2>1, ConcatProperties DEF PostTasks, QueueTyped
  <2>3. ReaderTyped'
    BY <1>2 DEF PostTasks, ReaderTyped, RpcStates
  <2> QED
    BY <1>2, <2>2, <2>3, MainUnchanged, ResultsUnchanged DEF PostTasks
<1>3. CASE Receive(c)
  <2>1. PICK i \in DOMAIN queue_results :
           /\ queue_results' = SubSeq(queue_results, 1, i - 1)
                                 \o SubSeq(queue_results, i + 1, Len(queue_results))
           /\ \/ UNCHANGED received_count
              \/ received_count' = [received_count EXCEPT ![c] = @ + 1]
           /\ rpc' \in {rpc, [rpc EXCEPT ![c] = "finishing"], [rpc EXCEPT ![c] = "stopping"]}
    BY <1>3 DEF Receive
  <2>2. ResultTyped'
    BY <1>3, <2>1, CutTyped DEF Receive, ResultTyped
  <2>3. ReaderTyped'
    <3>1. rpc' \in [Clients -> RpcStates]
      BY <2>1 DEF ReaderTyped, RpcStates
    <3>2. received_count' \in [Clients -> Nat]
      <4>1. \A f \in [Clients -> Nat] : [f EXCEPT ![c] = f[c] + 1] \in [Clients -> Nat]
        OBVIOUS
      <4> QED
        BY <2>1, <4>1 DEF ReaderTyped
    <3> QED
      BY <1>3, <3>1, <3>2 DEF Receive, ReaderTyped
  <2> QED
    BY <1>3, <2>2, <2>3, MainUnchanged, QueuesUnchanged DEF Receive
<1>4. CASE Leave(c)
  <2>1. ReaderTyped'
    BY <1>4 DEF Leave, ReaderTyped, RpcStates
  <2> QED
    BY <1>4, <2>1, MainUnchanged, QueuesUnchanged, ResultsUnchanged DEF Leave
<1>5. CASE StopRemove(c)
  <2>1. ReaderTyped' /\ ResultTyped'
    BY <1>5 DEF StopRemove, ReaderTyped, ResultTyped, RpcStates
  <2> QED
    BY <1>5, <2>1, MainUnchanged, QueuesUnchanged DEF StopRemove
<1>6. CASE StopPurge(c)
  <2>1. ReaderTyped'
    BY <1>6 DEF StopPurge, ReaderTyped, RpcStates
  <2>2. ResultTyped'
    BY <1>6, WithoutLemma DEF StopPurge, ResultTyped
  <2> QED
    BY <1>6, <2>1, <2>2, MainUnchanged, QueuesUnchanged DEF StopPurge
<1>7. CASE StopCancel(c)
  <2>1. ReaderTyped'
    BY <1>7 DEF StopCancel, ReaderTyped, RpcStates
  <2>2. PICK order \in Orders(Ids(c)) :
           queue_tasks' = [i \in DOMAIN order |-> CancelTask(order[i])] \o Without(queue_tasks, Ids(c))
    BY <1>7 DEF StopCancel
  <2>3. Ids(c) \in SUBSET Id /\ Cardinality(Ids(c)) \in Nat
    BY <1>0, IdsLemma
  <2>4. [i \in DOMAIN order |-> CancelTask(order[i])] \in Seq(Root \cup Control)
    BY <2>3, CancelsTyped
  <2>5. queue_tasks' \in Seq(Root \cup Control)
    BY <2>2, <2>4, WithoutLemma, ConcatProperties DEF QueueTyped
  <2>6. queue_tasks_deferred' \in Seq(Root)
    BY <1>7, WithoutLemma DEF StopCancel, QueueTyped
  <2> QED
    BY <1>7, <2>1, <2>5, <2>6, MainUnchanged, ResultsUnchanged DEF StopCancel, QueueTyped
<1> QED
  BY <1>1, <1>2, <1>3, <1>4, <1>5, <1>6, <1>7 DEF ReaderStep

LEMMA TypedStep == Typed /\ [Next]_vars => Typed'
<1> SUFFICES ASSUME Typed, [Next]_vars
             PROVE  Typed'
  OBVIOUS
<1>1. CASE UNCHANGED vars
  <2>1. UNCHANGED <<queueVars, resultVars, slotVars, loopVars, mainpc, readerVars>>
    BY <1>1 DEF vars
  <2> QED
    BY <2>1, MainUnchanged, QueuesUnchanged, ResultsUnchanged, ReadersUnchanged DEF Typed
<1> QED
  BY <1>1, TypedProcess, TypedUpdate, TypedReader DEF Next

\* The state of the scheduler is well typed, for any clients, requests, slots
\* and faults.
THEOREM SchedulerTypeCorrect == Spec => []TypeOK
<1>1. Typed => TypeOK
  <2>1. Job \subseteq Task /\ Control \subseteq Task
    BY NSlotsAssumption DEF Job, Control, Task
  <2>2. Root \cup Control \subseteq Task
    BY <2>1, RootJob
  <2>3. /\ \A q \in Seq(Root) : q \in Seq(Task)
        /\ \A q \in Seq(Root \cup Control) : q \in Seq(Task)
    BY <2>1, <2>2, SeqMonotonic
  <2> SUFFICES ASSUME Typed
               PROVE  TypeOK
    OBVIOUS
  <2>4. queue_tasks \in Seq(Task) /\ queue_tasks_deferred \in Seq(Task)
    BY <2>3 DEF Typed, QueueTyped
  <2>5. tasks \in [Clients -> Seq(Task)]
    BY <2>3 DEF Typed, ReaderTyped
  <2>6. slot_task \in [Slots -> Task \cup {NoTask}] /\ cur \in Task \cup {NoTask}
    BY <2>1, RootJob DEF Typed, SlotTyped, LoopTyped
  <2> QED
    BY <2>4, <2>5, <2>6
       DEF Typed, TypeOK, ResultTyped, SlotTyped, LoopTyped, ReaderTyped, Result
<1> QED
  BY <1>1, TypedInit, TypedStep, PTL DEF Spec

-----------------------------------------------------------------------------
(***************************************************************************)
(* The main loop does not rest with a busy slot: from the moment that      *)
(* update_slots() finds one until the wait section, NEXT_RESPONSE is in    *)
(* the queue, whatever readers put in front of it or erase around it.      *)
(***************************************************************************)
Has(q) == \E i \in DOMAIN q : q[i] = NextResponse
AfterPost == {"shift", "prompt", "decode", "fail", "sample", "wait"} \cup DOMAIN ReleaseLoop
Awake == mainpc \in AfterPost => Has(queue_tasks) \/ IdleSlots = Slots

LEMMA HasConcat ==
    ASSUME NEW S, NEW p \in Seq(S), NEW q \in Seq(S), Has(p) \/ Has(q)
    PROVE  Has(p \o q)
<1> DEFINE r == p \o q
<1>1. /\ Len(p) \in Nat /\ Len(q) \in Nat
      /\ DOMAIN p = 1 .. Len(p) /\ DOMAIN q = 1 .. Len(q)
  BY LenProperties
<1>2. /\ r \in Seq(S) /\ Len(r) = Len(p) + Len(q)
      /\ \A i \in 1 .. Len(p) + Len(q) : r[i] = IF i <= Len(p) THEN p[i] ELSE q[i - Len(p)]
  BY ConcatProperties
<1>3. DOMAIN r = 1 .. Len(p) + Len(q)
  BY <1>2, LenProperties
<1> HIDE DEF r
<1>4. ASSUME NEW i \in DOMAIN p, p[i] = NextResponse
      PROVE  i \in DOMAIN r /\ r[i] = NextResponse
  BY <1>1, <1>2, <1>3, <1>4
<1>5. ASSUME NEW i \in DOMAIN q, q[i] = NextResponse
      PROVE  Len(p) + i \in DOMAIN r /\ r[Len(p) + i] = NextResponse
  BY <1>1, <1>2, <1>3, <1>5
<1> QED
  BY <1>4, <1>5 DEF Has, r

LEMMA HasWithout ==
    ASSUME NEW S, NEW q \in Seq(S), NEW ids \in SUBSET Id, Has(q)
    PROVE  Has(Without(q, ids))
<1>1. PICK i \in DOMAIN q : q[i] = NextResponse
  BY DEF Has
<1>2. q[i].id \notin ids
  BY <1>1, NoIdAssumption DEF NextResponse, Id
<1>3. PICK k \in DOMAIN Without(q, ids) : Without(q, ids)[k] = q[i]
  <2>1. /\ Without(q, ids) \in Seq(S)
        /\ \A k \in DOMAIN Without(q, ids) :
              \E j \in DOMAIN q : Without(q, ids)[k] = q[j] /\ q[j].id \notin ids
        /\ \A j \in DOMAIN q : q[j].id \notin ids =>
              \E k \in DOMAIN Without(q, ids) : Without(q, ids)[k] = q[j]
    BY WithoutLemma
  <2> QED
    BY <1>2, <2>1
<1> QED
  BY <1>1, <1>3 DEF Has

LEMMA HasPopDeferred ==
    ASSUME QueueTyped, NEW s, PopDeferred(s), Has(queue_tasks)
    PROVE  Has(queue_tasks')
<1>1. CASE UNCHANGED queueVars
  BY <1>1 DEF queueVars
<1>2. ASSUME NEW k \in DOMAIN queue_tasks_deferred,
             queue_tasks' = <<queue_tasks_deferred[k]>> \o queue_tasks
      PROVE  Has(queue_tasks')
  <2>1. queue_tasks_deferred[k] \in Root \cup Control
    BY ElementOfSeq, LenProperties DEF QueueTyped
  <2>2. <<queue_tasks_deferred[k]>> \in Seq(Root \cup Control)
    BY <2>1
  <2> QED
    BY <1>2, <2>2, HasConcat DEF QueueTyped
<1> QED
  BY <1>1, <1>2, PopDeferredLemma

\* update_slots() starts no task, and a slot that stays busy keeps its task.
LEMMA UpdateSlots ==
    ASSUME Typed, UpdateStep
    PROVE  \A x \in Slots : IsProcessing(x)' => IsProcessing(x) /\ slot_task'[x] = slot_task[x]
<1>1. CASE UNCHANGED slotVars
  BY <1>1 DEF slotVars, IsProcessing, Idle
<1>2. ASSUME NEW s \in Slots, SendAndStop(s, "error", "shift_release")
                \/ SendAndStop(s, "error", "fail_release") \/ SendAndStop(s, "final", "sample_release")
                \/ SendAndStop(s, "error", "prompt_release") \/ SendAndStop(s, "final", "prompt_release")
      PROVE  UNCHANGED slotVars
  BY <1>2 DEF SendAndStop
<1>3. ASSUME NEW s \in Slots, PromptAdd(s)
      PROVE  \A x \in Slots : IsProcessing(x)' => IsProcessing(x) /\ slot_task'[x] = slot_task[x]
  <2>1. PICK st \in {"processing_prompt", "done_prompt"} :
           slot_state' = [slot_state EXCEPT ![s] = st]
    BY <1>3 DEF PromptAdd
  <2>2. IsProcessing(s) /\ slot_task' = slot_task
    BY <1>3, StateProcessing DEF PromptAdd, IsNext, PromptSlots, AtOrAfterCursor
  <2> QED
    BY <2>1, <2>2 DEF Typed, SlotTyped, IsProcessing, Idle
<1>4. ASSUME DecodeOk
      PROVE  \A x \in Slots : IsProcessing(x)' => IsProcessing(x) /\ slot_task'[x] = slot_task[x]
  BY <1>4 DEF DecodeOk, Activated, IsProcessing, Idle
<1>5. ASSUME NEW s \in Slots, SampleContinues(s)
      PROVE  \A x \in Slots : IsProcessing(x)' => IsProcessing(x) /\ slot_task'[x] = slot_task[x]
  <2>1. IsProcessing(s) /\ slot_task' = slot_task /\ slot_state' = [slot_state EXCEPT ![s] = "generating"]
    BY <1>5, StateProcessing DEF SampleContinues, IsNext, SampleSlots, AtOrAfterCursor
  <2> QED
    BY <2>1 DEF Typed, SlotTyped, IsProcessing, Idle
<1>6. ASSUME ReleaseSlot
      PROVE  \A x \in Slots : IsProcessing(x)' => IsProcessing(x) /\ slot_task'[x] = slot_task[x]
  <2>1. Release(cursor) /\ cursor \in Slots
    BY <1>6 DEF ReleaseSlot, Typed, ReleaseTyped
  <2> QED
    BY <2>1, ReleaseTypes DEF Typed
<1>7. UpdateIdle \/ UpdateBegin \/ ShiftDone \/ PromptDone \/ DecodeFails \/ UpdateDone
        => UNCHANGED slotVars
  BY DEF UpdateIdle, UpdateBegin, ShiftDone, PromptDone, DecodeFails, UpdateDone
<1>8. \A s \in Slots : ShiftError(s) \/ PromptSkip(s) \/ PromptEnds(s) \/ FailSlot(s) \/ SampleEnds(s)
        => UNCHANGED slotVars
  <2>1. \A s \in Slots : PromptSkip(s) => UNCHANGED slotVars
    BY DEF PromptSkip
  <2> QED
    BY <1>2, <2>1 DEF ShiftError, PromptEnds, FailSlot, SampleEnds
<1> QED
  BY <1>1, <1>3, <1>4, <1>5, <1>6, <1>7, <1>8 DEF UpdateStep

LEMMA AwakeStep == Typed /\ Awake /\ [Next]_vars => Awake'
<1> SUFFICES ASSUME Typed, Awake, [Next]_vars, mainpc' \in AfterPost
             PROVE  Has(queue_tasks') \/ IdleSlots' = Slots
  BY DEF Awake
<1> USE DEF Typed
<1>1. ASSUME mainpc \in AfterPost, Has(queue_tasks) => Has(queue_tasks'),
             \A x \in Slots : IsProcessing(x)' => IsProcessing(x)
      PROVE  Has(queue_tasks') \/ IdleSlots' = Slots
  BY <1>1 DEF Awake, IdleSlots, IsProcessing
<1>2. CASE UNCHANGED vars
  BY <1>1, <1>2, SlotsUnchanged DEF vars, queueVars
<1>3. CASE ProcessStep
  <2>1. mainpc' \in {"process", "update", "drain", "unlaunch"}
    BY <1>3 DEF ProcessStep, PopTask, DrainDone, WaitForTasks, DeferCompletion, Launch, LaunchFails,
                Unlaunch, UnlaunchDone, ProcessCancel, ProcessNextResponse, ProcessMetrics,
                DeferSlotAction, ProcessSlotAction, BackToDrain
  <2> QED
    BY <2>1, ReleaseLoops DEF AfterPost
<1>4. CASE UpdateStep
  <2>1. CASE UpdateIdle
    BY <2>1 DEF UpdateIdle, slotVars, IdleSlots, Idle
  <2>2. CASE UpdateBegin
    <3>1. queue_tasks' = Append(queue_tasks, NextResponse)
      BY <2>2 DEF UpdateBegin
    <3>2. /\ Len(queue_tasks') = Len(queue_tasks) + 1
          /\ queue_tasks'[Len(queue_tasks) + 1] = NextResponse
          /\ queue_tasks' \in Seq(Root \cup Control) /\ Len(queue_tasks) \in Nat
      BY <3>1, OrdersTyped, AppendProperties, LenProperties DEF QueueTyped
    <3>3. Len(queue_tasks) + 1 \in DOMAIN queue_tasks'
      BY <3>2, LenProperties
    <3> QED
      BY <3>2, <3>3 DEF Has
  <2>3. CASE ~UpdateIdle /\ ~UpdateBegin
    <3>1. mainpc \in AfterPost
      BY <1>4, <2>3 DEF UpdateStep, ShiftError, ShiftDone, PromptSkip, PromptAdd, PromptEnds,
           PromptDone, DecodeOk, DecodeFails, FailSlot, SampleEnds, SampleContinues, UpdateDone,
           ReleaseSlot, AfterPost
    <3>2. UNCHANGED queueVars \/ PopDeferred(cursor)
      BY <1>4, <2>3 DEF UpdateStep, ShiftError, ShiftDone, PromptSkip, PromptAdd, PromptEnds,
           PromptDone, DecodeOk, DecodeFails, FailSlot, SampleEnds, SampleContinues, UpdateDone,
           ReleaseSlot, Release, SendAndStop
    <3>3. Has(queue_tasks) => Has(queue_tasks')
      BY <3>2, HasPopDeferred DEF queueVars
    <3> QED
      BY <1>1, <1>4, <3>1, <3>3, UpdateSlots
  <2> QED
    BY <2>1, <2>2, <2>3
<1>5. ASSUME NEW c \in Clients, AddWaiting(c) \/ ReaderStep(c) \/ Leave(c)
      PROVE  Has(queue_tasks') \/ IdleSlots' = Slots
  <2>1. UNCHANGED <<slotVars, mainpc>>
    BY <1>5 DEF ReaderStep, AddWaiting, PostTasks, Receive, Leave, StopRemove, StopPurge, StopCancel
  <2>2. tasks[c] \in Seq(Root \cup Control) /\ Ids(c) \in SUBSET Id /\ Cardinality(Ids(c)) \in Nat
    <3>1. tasks[c] \in Seq(Root) /\ Ids(c) = IdsOf(tasks[c])
      BY DEF ReaderTyped, Ids
    <3> QED
      BY <3>1, IdsLemma
  <2>3. Has(queue_tasks) => Has(queue_tasks')
    <3>1. CASE PostTasks(c)
      BY <3>1, <2>2, HasConcat DEF PostTasks, QueueTyped
    <3>2. CASE StopCancel(c)
      <4>1. PICK order \in Orders(Ids(c)) :
               queue_tasks' = [i \in DOMAIN order |-> CancelTask(order[i])]
                                 \o Without(queue_tasks, Ids(c))
        BY <3>2 DEF StopCancel
      <4>2. [i \in DOMAIN order |-> CancelTask(order[i])] \in Seq(Root \cup Control)
        BY <2>2, CancelsTyped
      <4>3. Without(queue_tasks, Ids(c)) \in Seq(Root \cup Control)
        BY WithoutLemma DEF QueueTyped
      <4> QED
        BY <2>2, <4>1, <4>2, <4>3, HasWithout, HasConcat DEF QueueTyped
    <3>3. CASE ~PostTasks(c) /\ ~StopCancel(c)
      BY <1>5, <3>3 DEF ReaderStep, AddWaiting, Receive, Leave, StopRemove, StopPurge, queueVars
    <3> QED
      BY <3>1, <3>2, <3>3
  <2> QED
    BY <1>1, <2>1, <2>3, SlotsUnchanged
<1> QED
  BY <1>2, <1>3, <1>4, <1>5 DEF Next

\* The main loop never rests with a busy slot.
THEOREM BusyKeepsRunningHolds == Spec => []BusyKeepsRunning
<1>1. Init => Awake
  BY ReleaseLoops DEF Init, Awake, AfterPost
<1>2. Typed /\ Awake => BusyKeepsRunning
  BY DEF BusyKeepsRunning, Awake, AfterPost, Has, Typed, QueueTyped
<1> QED
  BY <1>1, <1>2, TypedInit, TypedStep, AwakeStep, PTL DEF Spec

-----------------------------------------------------------------------------
(***************************************************************************)
(* A task is in one place.  In(q) are the ids that a queue holds, of tasks *)
(* and of their children; Apart(q) says that it holds each of them once.   *)
(***************************************************************************)
Fam(t)   == IF t.id = NoId THEN {} ELSE Family(t)
In(q)    == UNION {Fam(q[i]) : i \in DOMAIN q}
Apart(q) == \A i, j \in DOMAIN q : i # j => Fam(q[i]) \cap Fam(q[j]) = {}

Busy    == {s \in Slots : IsProcessing(s)}
OnSlots == {slot_task[s].id : s \in Busy}
Hand    == IF mainpc = "process" THEN Fam(cur) ELSE {}
Pending == In(queue_tasks) \cup In(queue_tasks_deferred) \cup Hand
Posted  == UNION {Ids(c) : c \in {x \in Clients : rpc[x] \notin {"idle", "posting"}}}

QueuesApart ==
    /\ Apart(queue_tasks)
    /\ Apart(queue_tasks_deferred)
    /\ In(queue_tasks) \cap In(queue_tasks_deferred) = {}
    /\ Hand \cap (In(queue_tasks) \cup In(queue_tasks_deferred)) = {}
SlotsApart ==
    /\ OnSlots \cap Pending = {}
    /\ \A s, t \in Busy : slot_task[s].id = slot_task[t].id => s = t
Owned == QueuesApart /\ SlotsApart /\ Pending \cup OnSlots \subseteq Posted

\* The i-th task of a client has the id <<c, i, 0>>.
Numbered ==
    \A c \in Clients : /\ \A i \in DOMAIN tasks[c] : tasks[c][i].id = <<c, i, 0>>
                       /\ rpc[c] = "idle" => tasks[c] = <<>>

LEMMA InMember ==
    \A q, id : id \in In(q) <=> \E i \in DOMAIN q : id \in Fam(q[i])
  BY DEF In

LEMMA InConcat ==
    ASSUME NEW S, NEW p \in Seq(S), NEW q \in Seq(S)
    PROVE  /\ In(p \o q) = In(p) \cup In(q)
           /\ Apart(p) /\ Apart(q) /\ In(p) \cap In(q) = {} => Apart(p \o q)
<1> DEFINE r == p \o q
<1>1. /\ Len(p) \in Nat /\ Len(q) \in Nat
      /\ DOMAIN p = 1 .. Len(p) /\ DOMAIN q = 1 .. Len(q)
  BY LenProperties
<1>2. /\ r \in Seq(S) /\ Len(r) = Len(p) + Len(q)
      /\ \A i \in 1 .. Len(p) + Len(q) : r[i] = IF i <= Len(p) THEN p[i] ELSE q[i - Len(p)]
  BY ConcatProperties
<1>3. DOMAIN r = 1 .. Len(p) + Len(q)
  BY <1>2, LenProperties
<1> HIDE DEF r
<1>4. \A i \in DOMAIN p : i \in DOMAIN r /\ r[i] = p[i]
  BY <1>1, <1>2, <1>3
<1>5. \A i \in DOMAIN q : Len(p) + i \in DOMAIN r /\ r[Len(p) + i] = q[i]
  BY <1>1, <1>2, <1>3
<1>6. \A i \in DOMAIN r : \/ i \in DOMAIN p /\ r[i] = p[i]
                          \/ i - Len(p) \in DOMAIN q /\ r[i] = q[i - Len(p)] /\ i > Len(p)
  BY <1>1, <1>2, <1>3
<1>7. ASSUME NEW id
      PROVE  id \in In(r) <=> id \in In(p) \/ id \in In(q)
  <2>1. ASSUME id \in In(r)
        PROVE  id \in In(p) \/ id \in In(q)
    <3>1. PICK i \in DOMAIN r : id \in Fam(r[i])
      BY <2>1, InMember
    <3> QED
      BY <1>6, <3>1, InMember
  <2>2. ASSUME id \in In(p)
        PROVE  id \in In(r)
    <3>1. PICK i \in DOMAIN p : id \in Fam(p[i])
      BY <2>2, InMember
    <3> QED
      BY <1>4, <3>1, InMember
  <2>3. ASSUME id \in In(q)
        PROVE  id \in In(r)
    <3>1. PICK i \in DOMAIN q : id \in Fam(q[i])
      BY <2>3, InMember
    <3>2. Len(p) + i \in DOMAIN r /\ id \in Fam(r[Len(p) + i])
      BY <1>5, <3>1
    <3> QED
      BY <3>2, InMember
  <2> QED
    BY <2>1, <2>2, <2>3
<1>8. ASSUME Apart(p), Apart(q), In(p) \cap In(q) = {}
      PROVE  Apart(r)
  <2> SUFFICES ASSUME NEW i \in DOMAIN r, NEW j \in DOMAIN r, i # j,
                      NEW id, id \in Fam(r[i]), id \in Fam(r[j])
               PROVE  FALSE
    BY DEF Apart
  <2>1. CASE i \in DOMAIN p /\ r[i] = p[i] /\ j \in DOMAIN p /\ r[j] = p[j]
    BY <1>8, <2>1 DEF Apart
  <2>2. CASE /\ i - Len(p) \in DOMAIN q /\ r[i] = q[i - Len(p)]
             /\ j - Len(p) \in DOMAIN q /\ r[j] = q[j - Len(p)]
    <3>1. i - Len(p) # j - Len(p)
      BY <1>1, <1>3
    <3> QED
      BY <1>8, <2>2, <3>1 DEF Apart
  <2>3. CASE i \in DOMAIN p /\ r[i] = p[i] /\ j - Len(p) \in DOMAIN q /\ r[j] = q[j - Len(p)]
    <3>1. id \in In(p) /\ id \in In(q)
      BY <2>3, InMember
    <3> QED
      BY <1>8, <3>1
  <2>4. CASE j \in DOMAIN p /\ r[j] = p[j] /\ i - Len(p) \in DOMAIN q /\ r[i] = q[i - Len(p)]
    <3>1. id \in In(p) /\ id \in In(q)
      BY <2>4, InMember
    <3> QED
      BY <1>8, <3>1
  <2> QED
    BY <1>6, <2>1, <2>2, <2>3, <2>4
<1> QED
  <2>1. In(r) = In(p) \cup In(q)
    BY <1>7
  <2> QED
    BY <1>8, <2>1 DEF r

LEMMA InSingle == \A t : In(<<t>>) = Fam(t) /\ Apart(<<t>>)
<1> SUFFICES ASSUME NEW t
             PROVE  In(<<t>>) = Fam(t) /\ Apart(<<t>>)
  OBVIOUS
<1>1. DOMAIN <<t>> = {1} /\ <<t>>[1] = t
  OBVIOUS
<1>2. In(<<t>>) = Fam(t)
  BY <1>1, InMember
<1> QED
  BY <1>1, <1>2 DEF Apart

\* Nothing is lost when one task is taken out.
LEMMA InCut ==
    ASSUME NEW S, NEW d \in Seq(S), NEW k \in DOMAIN d, NEW cut \in Seq(S),
           Len(cut) = Len(d) - 1,
           \A i \in DOMAIN cut : cut[i] = d[IF i < k THEN i ELSE i + 1]
    PROVE  /\ In(d) = Fam(d[k]) \cup In(cut)
           /\ Apart(d) => Apart(cut) /\ Fam(d[k]) \cap In(cut) = {}
<1>1. /\ Len(d) \in Nat /\ DOMAIN d = 1 .. Len(d) /\ k \in 1 .. Len(d)
      /\ DOMAIN cut = 1 .. Len(d) - 1
  BY LenProperties
<1> DEFINE at(i) == IF i < k THEN i ELSE i + 1
<1>2. \A i \in DOMAIN cut : at(i) \in DOMAIN d /\ at(i) # k /\ cut[i] = d[at(i)]
  BY <1>1
<1>3. \A i, j \in DOMAIN cut : i # j => at(i) # at(j)
  BY <1>1
<1>4. \A i \in DOMAIN d : i # k => \E j \in DOMAIN cut : at(j) = i
  <2> SUFFICES ASSUME NEW i \in DOMAIN d, i # k
               PROVE  \E j \in DOMAIN cut : at(j) = i
    OBVIOUS
  <2>1. CASE i < k
    <3>1. i \in DOMAIN cut /\ at(i) = i
      BY <1>1, <2>1
    <3> QED
      BY <3>1
  <2>2. CASE i > k
    <3>1. i - 1 \in DOMAIN cut /\ at(i - 1) = i
      BY <1>1, <2>2
    <3> QED
      BY <3>1
  <2> QED
    BY <1>1, <2>1, <2>2
<1> HIDE DEF at
<1>5. ASSUME NEW id
      PROVE  id \in In(d) <=> id \in Fam(d[k]) \/ id \in In(cut)
  <2>1. ASSUME id \in In(d), id \notin Fam(d[k])
        PROVE  id \in In(cut)
    <3>1. PICK i \in DOMAIN d : id \in Fam(d[i])
      BY <2>1, InMember
    <3>2. PICK j \in DOMAIN cut : at(j) = i
      BY <1>4, <2>1, <3>1
    <3> QED
      BY <1>2, <3>1, <3>2, InMember
  <2>2. ASSUME id \in In(cut)
        PROVE  id \in In(d)
    <3>1. PICK i \in DOMAIN cut : id \in Fam(cut[i])
      BY <2>2, InMember
    <3> QED
      BY <1>2, <3>1, InMember
  <2>3. id \in Fam(d[k]) => id \in In(d)
    BY InMember
  <2> QED
    BY <2>1, <2>2, <2>3
<1>6. ASSUME Apart(d)
      PROVE  Apart(cut) /\ Fam(d[k]) \cap In(cut) = {}
  <2>1. Apart(cut)
    BY <1>2, <1>3, <1>6 DEF Apart
  <2>2. ASSUME NEW id, id \in Fam(d[k]), id \in In(cut)
        PROVE  FALSE
    <3>1. PICK i \in DOMAIN cut : id \in Fam(cut[i])
      BY <2>2, InMember
    <3> QED
      BY <1>2, <1>6, <2>2, <3>1 DEF Apart
  <2> QED
    BY <2>1, <2>2
<1> QED
  BY <1>5, <1>6

LEMMA InHeadTail ==
    ASSUME NEW S, NEW q \in Seq(S), q # <<>>
    PROVE  /\ In(q) = Fam(Head(q)) \cup In(Tail(q))
           /\ Apart(q) => Apart(Tail(q)) /\ Fam(Head(q)) \cap In(Tail(q)) = {}
<1>1. /\ Tail(q) \in Seq(S) /\ Len(Tail(q)) = Len(q) - 1
      /\ \A i \in 1 .. Len(Tail(q)) : Tail(q)[i] = q[i + 1]
  BY HeadTailProperties
<1>2. Len(q) \in Nat \ {0} /\ DOMAIN q = 1 .. Len(q) /\ Head(q) = q[1]
  BY LenProperties, EmptySeq
<1>3. 1 \in DOMAIN q /\ DOMAIN Tail(q) = 1 .. Len(q) - 1
  BY <1>1, <1>2, LenProperties
<1>4. \A i \in DOMAIN Tail(q) : Tail(q)[i] = q[IF i < 1 THEN i ELSE i + 1]
  BY <1>1, <1>2, <1>3
<1>5. /\ In(q) = Fam(q[1]) \cup In(Tail(q))
      /\ Apart(q) => Apart(Tail(q)) /\ Fam(q[1]) \cap In(Tail(q)) = {}
  BY <1>1, <1>3, <1>4, InCut
<1> QED
  BY <1>2, <1>5

LEMMA InWithout ==
    ASSUME NEW S, NEW q \in Seq(S), NEW ids
    PROVE  /\ In(Without(q, ids)) \subseteq In(q)
           /\ Apart(q) => Apart(Without(q, ids))
<1> DEFINE K == {i \in DOMAIN q : q[i].id \notin ids}
           w == Without(q, ids)
<1>1. K \in SUBSET DOMAIN q /\ w = Kept(q, K)
  BY DEF Without
<1> HIDE DEF K, w
<1>2. /\ \A k \in DOMAIN w : Nth(K, k) \in K /\ w[k] = q[Nth(K, k)]
      /\ \A j, k \in DOMAIN w : j < k => Nth(K, j) < Nth(K, k)
      /\ w \in Seq(S)
  BY <1>1, KeptLemma
<1>3. DOMAIN w \subseteq Nat /\ DOMAIN q \subseteq Nat
  BY <1>2, LenProperties
<1>4. \A j, k \in DOMAIN w : j # k => Nth(K, j) # Nth(K, k)
  <2> SUFFICES ASSUME NEW j \in DOMAIN w, NEW k \in DOMAIN w, j < k
               PROVE  Nth(K, j) # Nth(K, k)
    BY <1>3
  <2>1. Nth(K, j) \in Nat /\ Nth(K, k) \in Nat /\ Nth(K, j) < Nth(K, k)
    BY <1>1, <1>2, <1>3
  <2> QED
    BY <2>1
<1>5. In(w) \subseteq In(q)
  <2> SUFFICES ASSUME NEW id \in In(w)
               PROVE  id \in In(q)
    OBVIOUS
  <2>1. PICK k \in DOMAIN w : id \in Fam(w[k])
    BY InMember
  <2> QED
    BY <1>1, <1>2, <2>1, InMember
<1>6. Apart(q) => Apart(w)
  BY <1>1, <1>2, <1>4 DEF Apart
<1> QED
  BY <1>5, <1>6 DEF w

LEMMA InOrders ==
    \A q \in Seq(Control) : In(q) = {} /\ Apart(q)
<1> SUFFICES ASSUME NEW q \in Seq(Control)
             PROVE  In(q) = {} /\ Apart(q)
  OBVIOUS
<1>1. \A i \in DOMAIN q : Fam(q[i]) = {}
  BY ElementOfSeq, LenProperties, JobFields DEF Fam
<1> QED
  BY <1>1 DEF In, Apart

LEMMA FamJob == \A t \in Job : Fam(t) = Family(t)
  BY JobFields DEF Fam

\* The tasks of a client are its ids, each once.
LEMMA InTasks ==
    ASSUME Typed, Numbered, NEW c \in Clients
    PROVE  /\ tasks[c] \in Seq(Root) /\ In(tasks[c]) = Ids(c) /\ Apart(tasks[c])
           /\ \A id \in Ids(c) : id[1] = c
<1>1. tasks[c] \in Seq(Root) /\ \A i \in DOMAIN tasks[c] : tasks[c][i] \in Job
  BY ElementOfSeq, LenProperties, RootJob DEF Typed, ReaderTyped
<1>2. \A i \in DOMAIN tasks[c] : Fam(tasks[c][i]) = Family(tasks[c][i])
  BY <1>1, FamJob
<1>3. In(tasks[c]) = Ids(c)
  <2>1. \A id : id \in Ids(c) <=> \E i \in DOMAIN tasks[c] : id \in Family(tasks[c][i])
    BY DEF Ids, IdsOf
  <2> QED
    BY <1>2, <2>1, InMember
<1>4. \A i \in DOMAIN tasks[c] : \A id \in Family(tasks[c][i]) : id[1] = c /\ id[2] = i
  <2> SUFFICES ASSUME NEW i \in DOMAIN tasks[c], NEW id \in Family(tasks[c][i])
               PROVE  id[1] = c /\ id[2] = i
    OBVIOUS
  <2>1. tasks[c][i].id = <<c, i, 0>>
    BY DEF Numbered
  <2> QED
    BY <1>1, <2>1, FamilyLemma
<1>5. Apart(tasks[c])
  BY <1>2, <1>4 DEF Apart
<1>6. \A id \in Ids(c) : id[1] = c
  BY <1>4 DEF Ids, IdsOf
<1> QED
  BY <1>1, <1>3, <1>5, <1>6

\* What launch_slots_with_parent_task() puts on the slots: cur on s, its k-th
\* child on the k-th free slot.
LEMMA LaunchSlots ==
    ASSUME SlotTyped, cur \in Root, NEW s \in IdleSlots, NEW n \in 0 .. cur.kids,
           NEW state, NEW task, state # "idle" => task = cur,
           LaunchChildren(s, n, state, task)
    PROVE  \A x \in Slots : IsProcessing(x)' =>
              \/ x = s /\ state # "idle" /\ slot_task'[x].id = cur.id
              \/ /\ x \in IdleSlots \ {s} /\ Rank(s, x) <= n
                 /\ slot_task'[x].id = <<cur.id[1], cur.id[2], Rank(s, x)>>
              \/ IsProcessing(x) /\ slot_task'[x] = slot_task[x]
<1> SUFFICES ASSUME NEW x \in Slots, IsProcessing(x)'
             PROVE  \/ x = s /\ state # "idle" /\ slot_task'[x].id = cur.id
                    \/ /\ x \in IdleSlots \ {s} /\ Rank(s, x) <= n
                       /\ slot_task'[x].id = <<cur.id[1], cur.id[2], Rank(s, x)>>
                    \/ IsProcessing(x) /\ slot_task'[x] = slot_task[x]
  OBVIOUS
<1>1. CASE x = s
  <2>1. slot_state'[s] = state /\ slot_task'[s] = task
    BY <1>1 DEF LaunchChildren, ChildSlots
  <2> QED
    BY <1>1, <2>1 DEF IsProcessing, Idle
<1>2. CASE x # s /\ x \in ChildSlots(s, n)
  <2>1. x \in IdleSlots \ {s} /\ Rank(s, x) <= n
    BY <1>2 DEF ChildSlots
  <2>2. slot_task'[x] = ChildTask(cur, Rank(s, x))
    BY <1>2 DEF LaunchChildren
  <2>3. Rank(s, x) \in Nat
    BY <2>1, RankTyped
  <2>4. slot_task'[x].id = <<cur.id[1], cur.id[2], Rank(s, x)>>
    BY <2>2, <2>3, ChildTyped, RootJob
  <2> QED
    BY <2>1, <2>4
<1>3. CASE x # s /\ x \notin ChildSlots(s, n)
  BY <1>3 DEF LaunchChildren, IsProcessing, Idle
<1> QED
  BY <1>1, <1>2, <1>3

LEMMA RankInjective ==
    \A s : \A x, y \in IdleSlots \ {s} : Rank(s, x) = Rank(s, y) => x = y
<1> SUFFICES ASSUME NEW s, NEW x \in IdleSlots \ {s}, NEW y \in IdleSlots \ {s}, x # y
             PROVE  Rank(s, x) # Rank(s, y)
  OBVIOUS
<1> DEFINE K == IdleSlots \ {s}
<1>1. K \in SUBSET Nat /\ IsFiniteSet(K)
  BY SlotFacts
<1>2. \A v \in K : RankIn(K, v) \in Nat
  BY RankTyped DEF Rank
<1>3. \A v, w \in K : v < w => RankIn(K, v) < RankIn(K, w)
  BY <1>1, RankLemma
<1>4. x \in K /\ y \in K /\ (x < y \/ y < x)
  BY <1>1
<1> HIDE DEF K
<1>5. RankIn(K, x) # RankIn(K, y)
  BY <1>2, <1>3, <1>4
<1> QED
  BY <1>5 DEF Rank, K

\* The ids of a launched family come from the task in hand and are distinct.
LEMMA LaunchApart ==
    ASSUME Typed, Owned, mainpc = "process", cur \in Root,
           NEW s \in IdleSlots, NEW n \in 0 .. cur.kids,
           NEW state, NEW task, state # "idle" => task = cur,
           LaunchChildren(s, n, state, task),
           UNCHANGED <<queueVars, readerVars>>, mainpc' # "process"
    PROVE  Owned' /\ Pending' \subseteq Pending /\ OnSlots' \subseteq OnSlots \cup Hand
<1>1. Hand = Family(cur) /\ Hand' = {}
  BY FamJob, RootJob DEF Hand
<1>2. cur.id \in Hand /\ cur.id[3] = 0 /\ cur.kids \in Nat
  BY <1>1, FamilyLemma, RootJob, JobFields
<1> DEFINE child(x) == <<cur.id[1], cur.id[2], Rank(s, x)>>
           new(x) == \/ x = s /\ slot_task'[x].id = cur.id
                     \/ x \in IdleSlots \ {s} /\ Rank(s, x) <= n /\ slot_task'[x].id = child(x)
           old(x) == IsProcessing(x) /\ slot_task'[x] = slot_task[x]
<1>3. \A x \in Busy' : new(x) \/ old(x)
  <2>1. \A x \in Slots : IsProcessing(x)' =>
              \/ x = s /\ state # "idle" /\ slot_task'[x].id = cur.id
              \/ /\ x \in IdleSlots \ {s} /\ Rank(s, x) <= n
                 /\ slot_task'[x].id = <<cur.id[1], cur.id[2], Rank(s, x)>>
              \/ IsProcessing(x) /\ slot_task'[x] = slot_task[x]
    BY LaunchSlots DEF Typed
  <2> QED
    BY <2>1 DEF Busy
<1>4. \A x \in IdleSlots \ {s} : Rank(s, x) <= n => child(x) \in Hand /\ child(x) # cur.id
  <2> SUFFICES ASSUME NEW x \in IdleSlots \ {s}, Rank(s, x) <= n
               PROVE  child(x) \in Hand /\ child(x) # cur.id
    OBVIOUS
  <2>1. Rank(s, x) \in 0 .. cur.kids /\ Rank(s, x) # 0
    BY <1>2, RankTyped
  <2>2. child(x) \in Family(cur)
    BY <2>1, FamilyLemma, RootJob
  <2>3. child(x)[3] # 0
    BY <2>1
  <2> QED
    BY <1>1, <1>2, <2>2, <2>3
<1>5. \A x \in IdleSlots \ {s} : \A y \in IdleSlots \ {s} : child(x) = child(y) => x = y
  BY RankInjective
<1>6. \A x : new(x) => slot_task'[x].id \in Hand /\ x \in IdleSlots
  <2> HIDE DEF child
  <2> QED
    BY <1>2, <1>4
<1>7. \A x, y : new(x) /\ new(y) /\ slot_task'[x].id = slot_task'[y].id => x = y
  <2> HIDE DEF child
  <2> QED
    BY <1>4, <1>5
<1>8. \A x \in Busy' : old(x) => x \in Busy /\ slot_task'[x].id \in OnSlots
  BY DEF Busy, OnSlots
<1> HIDE DEF new, old
<1>9. OnSlots' \subseteq OnSlots \cup Hand
  <2> SUFFICES ASSUME NEW x \in Busy'
               PROVE  slot_task'[x].id \in OnSlots \cup Hand
    BY DEF OnSlots
  <2> QED
    BY <1>3, <1>6, <1>8
<1>10. /\ queue_tasks' = queue_tasks /\ queue_tasks_deferred' = queue_tasks_deferred
       /\ Posted' = Posted
  BY DEF queueVars, readerVars, Posted, Ids
<1>11. Pending' \subseteq Pending /\ Pending' \cap Hand = {} /\ QueuesApart'
  BY <1>1, <1>10 DEF Pending, Owned, QueuesApart
<1>12. OnSlots' \cap Pending' = {}
  BY <1>9, <1>11 DEF Owned, SlotsApart
<1>13. ASSUME NEW x \in Busy', NEW y \in Busy', slot_task'[x].id = slot_task'[y].id
       PROVE  x = y
  <2>1. OnSlots \cap Hand = {}
    BY DEF Owned, SlotsApart, Pending
  <2>2. CASE new(x) /\ new(y)
    BY <1>7, <1>13, <2>2
  <2>3. CASE old(x) /\ old(y)
    BY <1>8, <1>13, <2>3 DEF Owned, SlotsApart, old
  <2>4. CASE (new(x) /\ old(y)) \/ (old(x) /\ new(y))
    BY <1>6, <1>8, <1>13, <2>1, <2>4
  <2> QED
    BY <1>3, <2>2, <2>3, <2>4
<1>14. SlotsApart'
  BY <1>12, <1>13 DEF SlotsApart
<1>15. Hand \subseteq Posted /\ OnSlots \subseteq Posted /\ Pending \subseteq Posted
  BY DEF Owned, Pending
<1> QED
  BY <1>9, <1>10, <1>11, <1>14, <1>15 DEF Owned

\* Slots that only lose tasks, and queues that only pass tasks on.
SlotsKept ==
    \A x \in Slots : IsProcessing(x)' => IsProcessing(x) /\ slot_task'[x] = slot_task[x]

LEMMA OwnedKept ==
    ASSUME Owned, QueuesApart', Pending' \subseteq Pending, SlotsKept, Posted \subseteq Posted'
    PROVE  Owned' /\ OnSlots' \subseteq OnSlots
<1>1. \A x \in Busy' : x \in Busy /\ slot_task'[x].id = slot_task[x].id
  BY DEF Busy, SlotsKept
<1>2. OnSlots' \subseteq OnSlots
  BY <1>1 DEF OnSlots
<1>3. OnSlots' \cap Pending' = {}
  BY <1>2 DEF Owned, SlotsApart
<1>4. \A x, y \in Busy' : slot_task'[x].id = slot_task'[y].id => x = y
  BY <1>1 DEF Owned, SlotsApart
<1> QED
  BY <1>2, <1>3, <1>4 DEF Owned, SlotsApart

LEMMA PopDeferredApart ==
    ASSUME QueueTyped, QueuesApart, NEW s, PopDeferred(s), Hand' \subseteq Hand
    PROVE  QueuesApart' /\ Pending' \subseteq Pending
<1>1. CASE UNCHANGED queueVars
  BY <1>1 DEF queueVars, QueuesApart, Pending
<1>2. ASSUME NEW k \in DOMAIN queue_tasks_deferred,
             queue_tasks' = <<queue_tasks_deferred[k]>> \o queue_tasks,
             queue_tasks_deferred' =
                SubSeq(queue_tasks_deferred, 1, k - 1)
                   \o SubSeq(queue_tasks_deferred, k + 1, Len(queue_tasks_deferred))
      PROVE  QueuesApart' /\ Pending' \subseteq Pending
  <2> DEFINE d == queue_tasks_deferred
             cut == SubSeq(d, 1, k - 1) \o SubSeq(d, k + 1, Len(d))
  <2>1. /\ d \in Seq(Root)
        /\ cut \in Seq(Root) /\ Len(cut) = Len(d) - 1
        /\ \A i \in DOMAIN cut : cut[i] = d[IF i < k THEN i ELSE i + 1]
    BY CutTyped DEF QueueTyped
  <2>2. queue_tasks_deferred' = cut
    BY <1>2
  <2> HIDE DEF d, cut
  <2>3. /\ In(d) = Fam(d[k]) \cup In(cut)
        /\ Apart(d) => Apart(cut) /\ Fam(d[k]) \cap In(cut) = {}
    BY <1>2, <2>1, InCut DEF d
  <2>4. <<d[k]>> \in Seq(Root \cup Control)
    <3>1. d[k] \in Root
      BY <1>2, <2>1, ElementOfSeq, LenProperties DEF d
    <3> QED
      BY <3>1
  <2>5. In(<<d[k]>>) = Fam(d[k]) /\ Apart(<<d[k]>>)
    BY InSingle
  <2>6. Apart(d) /\ Apart(queue_tasks) /\ In(queue_tasks) \cap In(d) = {}
        /\ Hand \cap (In(queue_tasks) \cup In(d)) = {}
    BY DEF QueuesApart, d
  <2>7. /\ In(<<d[k]>> \o queue_tasks) = In(<<d[k]>>) \cup In(queue_tasks)
        /\ Apart(<<d[k]>>) /\ Apart(queue_tasks) /\ In(<<d[k]>>) \cap In(queue_tasks) = {}
              => Apart(<<d[k]>> \o queue_tasks)
    BY <2>4, InConcat DEF QueueTyped
  <2>8. queue_tasks' = <<d[k]>> \o queue_tasks
    BY <1>2 DEF d
  <2>9. /\ In(queue_tasks') = Fam(d[k]) \cup In(queue_tasks) /\ Apart(queue_tasks')
        /\ In(queue_tasks_deferred') = In(cut) /\ Apart(queue_tasks_deferred')
    BY <2>2, <2>3, <2>5, <2>6, <2>7, <2>8
  <2>10. QueuesApart'
    BY <2>3, <2>6, <2>9 DEF QueuesApart
  <2>11. Pending' \subseteq Pending
    BY <2>3, <2>9 DEF Pending, d
  <2> QED
    BY <2>10, <2>11
<1> QED
  BY <1>1, <1>2, PopDeferredLemma

LEMMA ReleaseOwned ==
    ASSUME Typed, Owned, NEW s \in Slots, Release(s), Hand' \subseteq Hand, UNCHANGED readerVars
    PROVE  Owned' /\ Pending' \subseteq Pending /\ OnSlots' \subseteq OnSlots
<1>1. QueuesApart' /\ Pending' \subseteq Pending
  BY PopDeferredApart DEF Release, Typed, Owned
<1>2. SlotsKept
  BY ReleaseTypes DEF Typed, SlotsKept
<1>3. Posted' = Posted
  BY DEF readerVars, Posted, Ids
<1> QED
  BY <1>1, <1>2, <1>3, OwnedKept

LEMMA QuietOwned ==
    ASSUME Owned, UNCHANGED queueVars, SlotsKept, Hand' \subseteq Hand, Posted \subseteq Posted'
    PROVE  Owned' /\ Pending' \subseteq Pending /\ OnSlots' \subseteq OnSlots
<1>1. QueuesApart' /\ Pending' \subseteq Pending
  BY DEF queueVars, Owned, QueuesApart, Pending
<1> QED
  BY <1>1, OwnedKept

LEMMA SlotsKeptUnchanged == UNCHANGED slotVars => SlotsKept
  BY DEF slotVars, SlotsKept, IsProcessing, Idle

\* The effect of a step on who owns a task.
OwnedEffect == Owned' /\ Pending' \subseteq Pending /\ OnSlots' \subseteq OnSlots \cup Hand

LEMMA OwnedProcess == Typed /\ Owned /\ ProcessStep => OwnedEffect
<1> SUFFICES ASSUME Typed, Owned, ProcessStep
             PROVE  OwnedEffect
  OBVIOUS
<1>0. UNCHANGED readerVars
  BY DEF ProcessStep, PopTask, DrainDone, WaitForTasks, DeferCompletion, Launch, LaunchFails,
         Unlaunch, UnlaunchDone, ProcessCancel, ProcessNextResponse, ProcessMetrics,
         DeferSlotAction, ProcessSlotAction
<1>a. Posted' = Posted
  BY <1>0 DEF readerVars, Posted, Ids
<1>b. mainpc = "process" /\ cur.type \in ReaderTypes => cur \in Root
  BY JobFields DEF Typed, LoopTyped, ReaderTypes, CompletionTypes
<1>c. Hand = IF mainpc = "process" THEN Fam(cur) ELSE {}
  BY DEF Hand
<1>1. CASE PopTask
  <2>1. /\ mainpc = "drain" /\ queue_tasks # <<>> /\ cur' = Head(queue_tasks)
        /\ queue_tasks' = Tail(queue_tasks) /\ mainpc' = "process"
        /\ UNCHANGED queue_tasks_deferred /\ UNCHANGED slotVars
    BY <1>1 DEF PopTask
  <2>2. /\ In(queue_tasks) = Fam(Head(queue_tasks)) \cup In(Tail(queue_tasks))
        /\ Apart(queue_tasks) => /\ Apart(Tail(queue_tasks))
                                 /\ Fam(Head(queue_tasks)) \cap In(Tail(queue_tasks)) = {}
    BY <2>1, InHeadTail DEF Typed, QueueTyped
  <2>3. Hand' = Fam(Head(queue_tasks))
    BY <2>1 DEF Hand
  <2>4. QueuesApart' /\ Pending' \subseteq Pending
    BY <2>1, <2>2, <2>3 DEF Owned, QueuesApart, Pending
  <2> QED
    BY <1>a, <2>1, <2>4, SlotsKeptUnchanged, OwnedKept DEF OwnedEffect
<1>2. CASE DeferCompletion \/ DeferSlotAction
  <2>1. /\ mainpc = "process" /\ cur \in Root /\ mainpc' = "drain" /\ UNCHANGED slotVars
        /\ queue_tasks_deferred' = Append(queue_tasks_deferred, cur) /\ queue_tasks' = queue_tasks
    BY <1>2, <1>b DEF DeferCompletion, DeferSlotAction, IsCompletion, ReaderTypes, Defer, BackToDrain
  <2>2. queue_tasks_deferred' = queue_tasks_deferred \o <<cur>>
    BY <2>1, AppendIsConcat DEF Typed, QueueTyped
  <2>3. <<cur>> \in Seq(Root) /\ queue_tasks_deferred \in Seq(Root)
    BY <2>1 DEF Typed, QueueTyped
  <2>4. In(<<cur>>) = Hand /\ Apart(<<cur>>) /\ Hand' = {}
    BY <2>1, InSingle DEF Hand
  <2>5. /\ In(queue_tasks_deferred \o <<cur>>) = In(queue_tasks_deferred) \cup In(<<cur>>)
        /\ Apart(queue_tasks_deferred) /\ Apart(<<cur>>)
             /\ In(queue_tasks_deferred) \cap In(<<cur>>) = {}
             => Apart(queue_tasks_deferred \o <<cur>>)
    BY <2>3, InConcat
  <2>6. QueuesApart' /\ Pending' \subseteq Pending
    BY <2>1, <2>2, <2>4, <2>5 DEF Owned, QueuesApart, Pending
  <2> QED
    BY <1>a, <2>1, <2>6, SlotsKeptUnchanged, OwnedKept DEF OwnedEffect
<1>3. ASSUME NEW s \in Slots, Launch(s)
      PROVE  OwnedEffect
  <2>1. /\ LaunchChildren(s, cur.kids, "started", cur) /\ UNCHANGED queueVars
        /\ mainpc = "process" /\ mainpc' = "drain" /\ cur \in Root /\ s \in IdleSlots
    BY <1>b, <1>3 DEF Launch, IsCompletion, BackToDrain, Candidates, ReaderTypes
  <2>2. cur.kids \in 0 .. cur.kids
    BY <2>1, RootJob, JobFields
  <2> QED
    BY <1>0, <2>1, <2>2, LaunchApart DEF OwnedEffect
<1>4. ASSUME NEW s \in Slots, NEW n \in 0 .. NSlots - 1, LaunchFails(s, n)
      PROVE  OwnedEffect
  <2>1. /\ LaunchChildren(s, n, "idle", NoTask) /\ UNCHANGED queueVars /\ n <= cur.kids
        /\ mainpc = "process" /\ mainpc' = "unlaunch" /\ cur \in Root /\ s \in IdleSlots
    BY <1>b, <1>4 DEF LaunchFails, IsCompletion, Candidates, ReaderTypes
  <2>2. n \in 0 .. cur.kids
    BY <2>1, RootJob, JobFields
  <2> QED
    BY <1>0, <2>1, <2>2, LaunchApart DEF OwnedEffect
<1>5. ASSUME NEW s \in Slots, Unlaunch(s)
      PROVE  OwnedEffect
  <2>1. Release(s) /\ UNCHANGED <<loopVars, mainpc>>
    BY <1>5 DEF Unlaunch
  <2>2. Hand' = Hand
    BY <2>1 DEF Hand, loopVars
  <2> QED
    BY <1>0, <2>1, <2>2, ReleaseOwned DEF OwnedEffect
<1>6. CASE ProcessCancel
  <2> DEFINE hit == {s \in Slots : IsProcessing(s) /\ slot_task[s].id = cur.id_target}
             s0 == CHOOSE s \in hit : \A x \in hit : s <= x
  <2>1. /\ IF hit = {} THEN UNCHANGED <<queueVars, slotVars>> ELSE Release(s0)
        /\ mainpc' = "drain"
    BY <1>6 DEF ProcessCancel, BackToDrain
  <2>2. Hand' = {}
    BY <2>1 DEF Hand
  <2>3. CASE hit # {}
    <3>1. hit \in SUBSET Slots
      OBVIOUS
    <3>2. hit \in SUBSET Nat /\ IsFiniteSet(hit)
      BY <3>1, SlotFacts, FS_Subset
    <3>3. s0 \in hit
      <4>1. \E s \in hit : \A x \in hit : s <= x
        BY <2>3, <3>2, LeastLemma
      <4> QED
        BY <4>1
    <3> QED
      BY <1>0, <2>1, <2>2, <2>3, <3>1, <3>3, ReleaseOwned DEF OwnedEffect
  <2>4. CASE hit = {}
    BY <1>a, <2>1, <2>2, <2>4, SlotsKeptUnchanged, QuietOwned DEF OwnedEffect
  <2> QED
    BY <2>3, <2>4
<1>7. CASE \/ DrainDone \/ WaitForTasks \/ UnlaunchDone \/ ProcessNextResponse
           \/ ProcessMetrics \/ ProcessSlotAction
  <2>1. UNCHANGED <<queueVars, slotVars>> /\ mainpc' \in {"drain", "update"}
    BY <1>7 DEF DrainDone, WaitForTasks, UnlaunchDone, ProcessNextResponse, ProcessMetrics,
                ProcessSlotAction, BackToDrain
  <2>2. Hand' = {}
    BY <2>1 DEF Hand
  <2> QED
    BY <1>a, <2>1, <2>2, SlotsKeptUnchanged, QuietOwned DEF OwnedEffect
<1> QED
  BY <1>1, <1>2, <1>3, <1>4, <1>5, <1>6, <1>7 DEF ProcessStep

LEMMA OwnedUpdate == Typed /\ Owned /\ UpdateStep => OwnedEffect
<1> SUFFICES ASSUME Typed, Owned, UpdateStep
             PROVE  OwnedEffect
  OBVIOUS
<1>1. UNCHANGED readerVars /\ mainpc' # "process"
  BY ReleaseLoops DEF UpdateStep, UpdateIdle, UpdateBegin, ShiftError, ShiftDone, PromptSkip,
     PromptAdd, PromptEnds, PromptDone, DecodeOk, DecodeFails, FailSlot, SampleEnds,
     SampleContinues, UpdateDone, ReleaseSlot, SendAndStop
<1>2. Hand' = {} /\ Posted' = Posted
  BY <1>1 DEF Hand, readerVars, Posted, Ids
<1>3. CASE ReleaseSlot
  <2>1. Release(cursor) /\ cursor \in Slots
    BY <1>3 DEF ReleaseSlot, Typed, ReleaseTyped
  <2> QED
    BY <1>1, <1>2, <2>1, ReleaseOwned DEF OwnedEffect
<1>4. CASE UpdateBegin
  <2>1. queue_tasks' = Append(queue_tasks, NextResponse) /\ UNCHANGED queue_tasks_deferred
        /\ UNCHANGED slotVars
    BY <1>4 DEF UpdateBegin
  <2>2. queue_tasks' = queue_tasks \o <<NextResponse>>
    BY <2>1, AppendIsConcat DEF Typed, QueueTyped
  <2>3. <<NextResponse>> \in Seq(Control) /\ <<NextResponse>> \in Seq(Root \cup Control)
    BY OrdersTyped
  <2>4. In(<<NextResponse>>) = {} /\ Apart(<<NextResponse>>)
    BY <2>3, InOrders
  <2>5. /\ In(queue_tasks \o <<NextResponse>>) = In(queue_tasks) \cup In(<<NextResponse>>)
        /\ Apart(queue_tasks) /\ Apart(<<NextResponse>>)
             /\ In(queue_tasks) \cap In(<<NextResponse>>) = {}
             => Apart(queue_tasks \o <<NextResponse>>)
    BY <2>3, InConcat DEF Typed, QueueTyped
  <2>6. QueuesApart' /\ Pending' \subseteq Pending
    BY <1>2, <2>1, <2>2, <2>4, <2>5 DEF Owned, QueuesApart, Pending
  <2> QED
    BY <1>2, <2>1, <2>6, SlotsKeptUnchanged, OwnedKept DEF OwnedEffect
<1>5. CASE ~ReleaseSlot /\ ~UpdateBegin
  <2>1. UNCHANGED queueVars
    BY <1>5 DEF UpdateStep, UpdateIdle, ShiftError, ShiftDone, PromptSkip, PromptAdd, PromptEnds,
       PromptDone, DecodeOk, DecodeFails, FailSlot, SampleEnds, SampleContinues, UpdateDone,
       SendAndStop
  <2>2. SlotsKept
    BY UpdateSlots DEF SlotsKept
  <2> QED
    BY <1>2, <2>1, <2>2, QuietOwned DEF OwnedEffect
<1> QED
  BY <1>3, <1>4, <1>5

LEMMA NumberedStep == Typed /\ Numbered /\ [Next]_vars => Numbered'
<1> SUFFICES ASSUME Typed, Numbered, [Next]_vars
             PROVE  Numbered'
  OBVIOUS
<1>1. CASE \E c \in Clients : AddWaiting(c)
  <2>1. PICK c \in Clients : AddWaiting(c)
    BY <1>1
  <2>2. PICK ts \in Templates : tasks' = [tasks EXCEPT ![c] = [i \in DOMAIN ts |-> MakeTask(c, i, ts[i])]]
    BY <2>1 DEF AddWaiting
  <2>3. \A i \in DOMAIN ts : MakeTask(c, i, ts[i]).id = <<c, i, 0>>
    BY MakeTyped
  <2>4. rpc' = [rpc EXCEPT ![c] = "posting"]
    BY <2>1 DEF AddWaiting
  <2>5. ASSUME NEW x \in Clients
        PROVE  /\ \A i \in DOMAIN tasks'[x] : tasks'[x][i].id = <<x, i, 0>>
               /\ rpc'[x] = "idle" => tasks'[x] = <<>>
    BY <2>2, <2>3, <2>4 DEF Typed, ReaderTyped, Numbered
  <2> QED
    BY <2>5 DEF Numbered
<1>2. CASE ~(\E c \in Clients : AddWaiting(c))
  <2>1. UNCHANGED tasks
    <3>1. ASSUME NEW c \in Clients, ReaderStep(c) \/ Leave(c)
          PROVE  UNCHANGED tasks
      BY <3>1 DEF ReaderStep, PostTasks, Receive, StopRemove, StopPurge, StopCancel, Leave
    <3>2. ProcessStep => UNCHANGED tasks
      BY DEF ProcessStep, PopTask, DrainDone, WaitForTasks, DeferCompletion, Launch, LaunchFails,
         Unlaunch, UnlaunchDone, ProcessCancel, ProcessNextResponse, ProcessMetrics,
         DeferSlotAction, ProcessSlotAction, readerVars
    <3>3. UpdateStep => UNCHANGED tasks
      BY DEF UpdateStep, UpdateIdle, UpdateBegin, ShiftError, ShiftDone, PromptSkip,
         PromptAdd, PromptEnds, PromptDone, DecodeOk, DecodeFails, FailSlot, SampleEnds,
         SampleContinues, UpdateDone, ReleaseSlot, SendAndStop, readerVars
    <3>4. UNCHANGED vars => UNCHANGED tasks
      BY DEF vars, readerVars
    <3> QED
      BY <1>2, <3>1, <3>2, <3>3, <3>4 DEF Next
  <2>2. \A x \in Clients : rpc'[x] = "idle" => rpc[x] = "idle"
    <3>1. ASSUME NEW c \in Clients, ReaderStep(c) \/ Leave(c)
          PROVE  \A x \in Clients : rpc'[x] = "idle" => rpc[x] = "idle"
      BY <3>1 DEF ReaderStep, PostTasks, Receive, StopRemove, StopPurge, StopCancel, Leave,
                  Typed, ReaderTyped
    <3>2. ProcessStep => UNCHANGED rpc
      BY DEF ProcessStep, PopTask, DrainDone, WaitForTasks, DeferCompletion, Launch, LaunchFails,
         Unlaunch, UnlaunchDone, ProcessCancel, ProcessNextResponse, ProcessMetrics,
         DeferSlotAction, ProcessSlotAction, readerVars
    <3>3. UpdateStep => UNCHANGED rpc
      BY DEF UpdateStep, UpdateIdle, UpdateBegin, ShiftError, ShiftDone, PromptSkip,
         PromptAdd, PromptEnds, PromptDone, DecodeOk, DecodeFails, FailSlot, SampleEnds,
         SampleContinues, UpdateDone, ReleaseSlot, SendAndStop, readerVars
    <3>4. UNCHANGED vars => UNCHANGED rpc
      BY DEF vars, readerVars
    <3> QED
      BY <1>2, <3>1, <3>2, <3>3, <3>4 DEF Next
  <2> QED
    BY <2>1, <2>2 DEF Numbered
<1> QED
  BY <1>1, <1>2

\* The ids of a client that has not posted yet are nowhere.
LEMMA NotPosted ==
    ASSUME Typed, Numbered, NEW c \in Clients, rpc[c] = "posting"
    PROVE  Ids(c) \cap Posted = {}
<1> SUFFICES ASSUME NEW id \in Ids(c), id \in Posted
             PROVE  FALSE
  OBVIOUS
<1>1. PICK x \in Clients : rpc[x] # "posting" /\ id \in Ids(x)
  BY DEF Posted
<1>2. \A y \in Clients : \A i \in Ids(y) : i[1] = y
  BY InTasks
<1> QED
  BY <1>1, <1>2

LEMMA OwnedPost ==
    ASSUME Typed, Numbered, Owned, NEW c \in Clients, PostTasks(c)
    PROVE  /\ Owned' /\ OnSlots' = OnSlots /\ Posted' = Posted \cup Ids(c)
           /\ Pending' = Pending \cup Ids(c) /\ rpc[c] = "posting"
<1>1. /\ rpc[c] = "posting" /\ rpc' = [rpc EXCEPT ![c] = "receiving"]
      /\ queue_tasks' = tasks[c] \o queue_tasks \/ queue_tasks' = queue_tasks \o tasks[c]
      /\ UNCHANGED <<queue_tasks_deferred, slotVars, loopVars, mainpc, tasks>>
  BY DEF PostTasks
<1>2. Posted' = Posted \cup Ids(c)
  <2>1. \A x \in Clients : Ids(x)' = Ids(x)
    BY <1>1 DEF Ids
  <2>2. \A x \in Clients : rpc'[x] \notin {"idle", "posting"} <=>
                              rpc[x] \notin {"idle", "posting"} \/ x = c
    BY <1>1 DEF Typed, ReaderTyped
  <2> QED
    BY <2>1, <2>2 DEF Posted
<1>3. Ids(c) \cap Posted = {}
  BY <1>1, NotPosted
<1>4. tasks[c] \in Seq(Root) /\ In(tasks[c]) = Ids(c) /\ Apart(tasks[c])
  BY InTasks
<1>5. tasks[c] \in Seq(Root \cup Control)
  BY <1>4
<1>6. Ids(c) \cap Pending = {} /\ Ids(c) \cap OnSlots = {}
  BY <1>3 DEF Owned
<1>7. In(queue_tasks') = In(queue_tasks) \cup Ids(c) /\ Apart(queue_tasks')
  <2>1. Ids(c) \cap In(queue_tasks) = {} /\ Apart(queue_tasks)
    BY <1>6 DEF Pending, Owned, QueuesApart
  <2>2. /\ In(tasks[c] \o queue_tasks) = In(tasks[c]) \cup In(queue_tasks)
        /\ Apart(tasks[c]) /\ Apart(queue_tasks) /\ In(tasks[c]) \cap In(queue_tasks) = {}
              => Apart(tasks[c] \o queue_tasks)
    BY <1>5, InConcat DEF Typed, QueueTyped
  <2>3. /\ In(queue_tasks \o tasks[c]) = In(queue_tasks) \cup In(tasks[c])
        /\ Apart(queue_tasks) /\ Apart(tasks[c]) /\ In(queue_tasks) \cap In(tasks[c]) = {}
              => Apart(queue_tasks \o tasks[c])
    BY <1>5, InConcat DEF Typed, QueueTyped
  <2> QED
    BY <1>1, <1>4, <2>1, <2>2, <2>3
<1>8. Hand' = Hand /\ In(queue_tasks_deferred') = In(queue_tasks_deferred)
  BY <1>1 DEF Hand, loopVars
<1>9. Busy' = Busy /\ OnSlots' = OnSlots /\ slot_task' = slot_task
  BY <1>1 DEF slotVars, Busy, OnSlots, IsProcessing, Idle
<1>10. Pending' = Pending \cup Ids(c)
  BY <1>7, <1>8 DEF Pending
<1>11. QueuesApart'
  BY <1>1, <1>6, <1>7, <1>8 DEF Owned, QueuesApart, Pending
<1>12. SlotsApart'
  BY <1>6, <1>9, <1>10 DEF Owned, SlotsApart
<1> QED
  BY <1>1, <1>2, <1>9, <1>10, <1>11, <1>12 DEF Owned

\* What a reader does, but for posting.
LEMMA OwnedReader ==
    ASSUME Typed, Numbered, Owned, NEW c \in Clients,
           AddWaiting(c) \/ Receive(c) \/ StopRemove(c) \/ StopPurge(c) \/ StopCancel(c) \/ Leave(c)
    PROVE  Owned' /\ Pending' \subseteq Pending /\ OnSlots' \subseteq OnSlots
<1>1. UNCHANGED <<slotVars, loopVars, mainpc>>
  BY DEF AddWaiting, Receive, StopRemove, StopPurge, StopCancel, Leave
<1>2. Hand' = Hand /\ SlotsKept
  BY <1>1, SlotsKeptUnchanged DEF Hand, loopVars
<1>3. Posted \subseteq Posted'
  <2> SUFFICES ASSUME NEW x \in Clients, rpc[x] \notin {"idle", "posting"}
               PROVE  Ids(x)' = Ids(x) /\ rpc'[x] \notin {"idle", "posting"}
    BY DEF Posted
  <2>1. CASE AddWaiting(c)
    <3>1. /\ rpc[c] = "idle" /\ rpc' = [rpc EXCEPT ![c] = "posting"]
          /\ \E new : tasks' = [tasks EXCEPT ![c] = new]
      BY <2>1 DEF AddWaiting
    <3>2. x # c /\ rpc'[x] = rpc[x] /\ tasks'[x] = tasks[x]
      BY <3>1 DEF Typed, ReaderTyped
    <3> QED
      BY <3>2 DEF Ids
  <2>2. CASE ~AddWaiting(c)
    <3>1. UNCHANGED tasks /\ \/ UNCHANGED rpc
                             \/ \E pc \in {"finishing", "stopping", "done", "purging", "cancelling"} :
                                   rpc' = [rpc EXCEPT ![c] = pc]
      BY <2>2 DEF Receive, StopRemove, StopPurge, StopCancel, Leave
    <3> QED
      BY <3>1 DEF Ids, Typed, ReaderTyped
  <2> QED
    BY <2>1, <2>2
<1>4. CASE StopCancel(c)
  <2>1. PICK order \in Orders(Ids(c)) :
           queue_tasks' = [i \in DOMAIN order |-> CancelTask(order[i])] \o Without(queue_tasks, Ids(c))
    BY <1>4 DEF StopCancel
  <2> DEFINE cancels == [i \in DOMAIN order |-> CancelTask(order[i])]
             rest == Without(queue_tasks, Ids(c))
  <2>2. Ids(c) \in SUBSET Id /\ Cardinality(Ids(c)) \in Nat
    BY IdsLemma DEF Typed, ReaderTyped, Ids
  <2>3. cancels \in Seq(Control) /\ cancels \in Seq(Root \cup Control)
    BY <2>2, CancelsTyped
  <2>4. rest \in Seq(Root \cup Control)
    BY WithoutLemma DEF Typed, QueueTyped
  <2> HIDE DEF cancels
  <2>5. In(cancels) = {} /\ Apart(cancels)
    BY <2>3, InOrders
  <2>6. In(rest) \subseteq In(queue_tasks) /\ (Apart(queue_tasks) => Apart(rest))
    BY InWithout DEF Typed, QueueTyped
  <2>7. /\ In(cancels \o rest) = In(cancels) \cup In(rest)
        /\ Apart(cancels) /\ Apart(rest) /\ In(cancels) \cap In(rest) = {} => Apart(cancels \o rest)
    BY <2>3, <2>4, InConcat
  <2>8. queue_tasks' = cancels \o rest /\ queue_tasks_deferred' = Without(queue_tasks_deferred, Ids(c))
    BY <1>4, <2>1 DEF StopCancel, cancels
  <2> HIDE DEF rest
  <2>9. /\ In(queue_tasks_deferred') \subseteq In(queue_tasks_deferred)
        /\ Apart(queue_tasks_deferred) => Apart(queue_tasks_deferred')
    BY <2>8, InWithout DEF Typed, QueueTyped
  <2>10. In(queue_tasks') \subseteq In(queue_tasks) /\ (Apart(queue_tasks) => Apart(queue_tasks'))
    BY <2>5, <2>6, <2>7, <2>8
  <2>11. QueuesApart'
    BY <1>2, <2>9, <2>10 DEF Owned, QueuesApart
  <2>12. Pending' \subseteq Pending
    BY <1>2, <2>9, <2>10 DEF Pending
  <2> QED
    BY <1>2, <1>3, <2>11, <2>12, OwnedKept
<1>5. CASE ~StopCancel(c)
  <2>1. UNCHANGED queueVars
    BY <1>5 DEF AddWaiting, Receive, StopRemove, StopPurge, Leave
  <2> QED
    BY <1>2, <1>3, <2>1, QuietOwned
<1> QED
  BY <1>4, <1>5

LEMMA OwnedInit == Init => Owned /\ Numbered
<1> SUFFICES ASSUME Init
             PROVE  Owned /\ Numbered
  OBVIOUS
<1>1. In(<<>>) = {} /\ Apart(<<>>)
  BY DEF In, Apart
<1>2. Busy = {} /\ OnSlots = {} /\ Pending = {} /\ QueuesApart
  BY <1>1 DEF Init, Busy, OnSlots, IsProcessing, Idle, Pending, Hand, QueuesApart
<1> QED
  BY <1>2 DEF Init, Owned, SlotsApart, Numbered

LEMMA OwnedStep == Typed /\ Numbered /\ Owned /\ [Next]_vars => Owned'
<1> SUFFICES ASSUME Typed, Numbered, Owned, [Next]_vars
             PROVE  Owned'
  OBVIOUS
<1>1. CASE UNCHANGED vars
  <2>1. /\ UNCHANGED <<queueVars, slotVars, loopVars, mainpc, readerVars>>
    BY <1>1 DEF vars
  <2>2. Hand' = Hand /\ Posted' = Posted
    BY <2>1 DEF loopVars, Hand, readerVars, Posted, Ids
  <2> QED
    BY <2>1, <2>2, SlotsKeptUnchanged, QuietOwned
<1> QED
  BY <1>1, OwnedProcess, OwnedUpdate, OwnedPost, OwnedReader DEF Next, OwnedEffect, ReaderStep

LEMMA PlacesLemma ==
    ASSUME NEW S, NEW q \in Seq(S), Apart(q), NEW id
    PROVE  Cardinality(PlacesIn(q, id)) = IF id \in In(q) THEN 1 ELSE 0
<1>1. \A i : i \in PlacesIn(q, id) <=> i \in DOMAIN q /\ id \in Fam(q[i])
  BY DEF PlacesIn, Fam
<1>2. CASE id \in In(q)
  <2>1. PICK i \in DOMAIN q : id \in Fam(q[i])
    BY <1>2, InMember
  <2>2. \A j \in PlacesIn(q, id) : j = i
    BY <1>1, <2>1 DEF Apart
  <2>3. PlacesIn(q, id) = {i}
    BY <1>1, <2>1, <2>2
  <2> QED
    BY <1>2, <2>3, FS_Singleton
<1>3. CASE id \notin In(q)
  <2>1. PlacesIn(q, id) = {}
    BY <1>1, <1>3, InMember
  <2> QED
    BY <1>3, <2>1, FS_EmptySet
<1> QED
  BY <1>2, <1>3

LEMMA SlotsOfLemma ==
    ASSUME SlotsApart, NEW id
    PROVE  /\ Cardinality(SlotsOf(id)) = IF id \in OnSlots THEN 1 ELSE 0
           /\ \A x \in SlotsOf(id) : SlotsOf(id) = {x}
<1>1. \A x : x \in SlotsOf(id) <=> x \in Busy /\ slot_task[x].id = id
  BY DEF SlotsOf, Busy
<1>2. \A x \in SlotsOf(id) : SlotsOf(id) = {x}
  BY <1>1 DEF SlotsApart
<1>3. CASE id \in OnSlots
  <2>1. PICK x \in Busy : slot_task[x].id = id
    BY <1>3 DEF OnSlots
  <2>2. SlotsOf(id) = {x}
    BY <1>1, <1>2, <2>1
  <2> QED
    BY <1>2, <1>3, <2>2, FS_Singleton
<1>4. CASE id \notin OnSlots
  <2>1. SlotsOf(id) = {}
    BY <1>1, <1>4 DEF OnSlots
  <2> QED
    BY <1>4, <2>1, FS_EmptySet
<1> QED
  BY <1>2, <1>3, <1>4

LEMMA CopiesLemma ==
    ASSUME Typed, Owned, NEW id
    PROVE  /\ Copies(id) <= 1
           /\ id \notin Pending \cup OnSlots => Copies(id) = 0
           /\ id \in OnSlots => Copies(id) = 1
<1>1. /\ Cardinality(PlacesIn(queue_tasks, id)) = IF id \in In(queue_tasks) THEN 1 ELSE 0
      /\ Cardinality(PlacesIn(queue_tasks_deferred, id)) =
            IF id \in In(queue_tasks_deferred) THEN 1 ELSE 0
  BY PlacesLemma DEF Typed, QueueTyped, Owned, QueuesApart
<1>2. Cardinality(SlotsOf(id)) = IF id \in OnSlots THEN 1 ELSE 0
  BY SlotsOfLemma DEF Owned
<1>3. InHand(id) <=> id \in Hand
  BY DEF InHand, Hand, Fam
<1>4. Copies(id) = (IF id \in In(queue_tasks) THEN 1 ELSE 0)
                     + (IF id \in In(queue_tasks_deferred) THEN 1 ELSE 0)
                     + (IF id \in OnSlots THEN 1 ELSE 0) + (IF id \in Hand THEN 1 ELSE 0)
  BY <1>1, <1>2, <1>3 DEF Copies
<1>5. /\ ~(id \in In(queue_tasks) /\ id \in In(queue_tasks_deferred))
      /\ ~(id \in Hand /\ id \in In(queue_tasks))
      /\ ~(id \in Hand /\ id \in In(queue_tasks_deferred))
      /\ id \in OnSlots =>
            id \notin Hand /\ id \notin In(queue_tasks) /\ id \notin In(queue_tasks_deferred)
      /\ id \in Pending <=>
            id \in Hand \/ id \in In(queue_tasks) \/ id \in In(queue_tasks_deferred)
  BY DEF Owned, QueuesApart, SlotsApart, Pending
<1> QED
  BY <1>4, <1>5

\* A task is never in two places: in a queue, in hand or on a slot.
THEOREM SingleOwnerHolds == Spec => []SingleOwner
<1>1. Typed /\ Owned => SingleOwner
  BY CopiesLemma DEF SingleOwner
<1> QED
  BY <1>1, TypedInit, TypedStep, OwnedInit, NumberedStep, OwnedStep, PTL DEF Spec

-----------------------------------------------------------------------------
(***************************************************************************)
(* The last result of a task.  A task is live until its last result is     *)
(* sent: pending, or on a slot other than the one that is released next.   *)
(***************************************************************************)
Releasing == IF mainpc \in DOMAIN ReleaseLoop THEN {cursor} ELSE {}
Live      == Pending \cup {slot_task[s].id : s \in Busy \ Releasing}

LastResult ==
    /\ \A i \in DOMAIN queue_results : queue_results[i].id \in Posted
    /\ \A i, j \in DOMAIN queue_results :
          queue_results[i].kind # "partial" =>
            /\ queue_results[i].id \notin Live
            /\ queue_results[j].id = queue_results[i].id => j <= i

\* What the main thread does to the results: nothing, or it appends one for a
\* live task, which is no longer live when that is its last.
Answered ==
    \/ queue_results' = queue_results
    \/ \E id \in Live : \E kind \in {"partial", "final", "error"} :
          /\ queue_results' = Append(queue_results, [id |-> id, kind |-> kind])
          /\ id \in waiting_task_ids
          /\ kind # "partial" => id \notin Live'
MainEffect ==
    /\ Live' \subseteq Live
    /\ Answered
    /\ UNCHANGED <<waiting_task_ids, readerVars>>

LEMMA SendAnswers ==
    ASSUME NEW id \in Live, NEW kind \in {"partial", "final", "error"}, Send(id, kind),
           kind # "partial" => id \notin Live'
    PROVE  Answered /\ UNCHANGED waiting_task_ids
  BY DEF Send, Answered

LEMMA LiveFacts ==
    /\ mainpc \notin DOMAIN ReleaseLoop => Live = Pending \cup OnSlots
    /\ Live \subseteq Pending \cup OnSlots
  BY DEF Live, Releasing, OnSlots

LEMMA LiveProcess == Typed /\ Owned /\ ProcessStep => MainEffect
<1> SUFFICES ASSUME Typed, Owned, ProcessStep
             PROVE  MainEffect
  OBVIOUS
<1>0. UNCHANGED readerVars /\ mainpc \notin DOMAIN ReleaseLoop /\ mainpc' \notin DOMAIN ReleaseLoop
  BY ReleaseLoops DEF ProcessStep, PopTask, DrainDone, WaitForTasks, DeferCompletion, Launch,
     LaunchFails, Unlaunch, UnlaunchDone, ProcessCancel, ProcessNextResponse, ProcessMetrics,
     DeferSlotAction, ProcessSlotAction, IsCompletion, BackToDrain
<1>1. OwnedEffect
  BY OwnedProcess
<1>2. Live = Pending \cup OnSlots /\ Live' = (Pending \cup OnSlots)'
  <2>1. Releasing = {} /\ Releasing' = {}
    BY <1>0 DEF Releasing
  <2> QED
    BY <2>1 DEF Live, OnSlots
<1>3. Live' \subseteq Live
  BY <1>1, <1>2 DEF OwnedEffect, Pending
<1>b. mainpc = "process" /\ cur.type \in ReaderTypes => cur \in Root
  BY JobFields DEF Typed, LoopTyped, ReaderTypes, CompletionTypes
<1>4. CASE ProcessMetrics \/ ProcessSlotAction
  <2>1. /\ cur \in Root /\ mainpc = "process" /\ mainpc' = "drain"
        /\ \E kind \in {"final", "error"} : Send(cur.id, kind)
        /\ UNCHANGED <<queueVars, slotVars>>
    BY <1>4, <1>b DEF ProcessMetrics, ProcessSlotAction, BackToDrain, ReaderTypes
  <2>2. cur.id \in Hand /\ Hand' = {}
    BY <2>1, FamJob, FamilyLemma, RootJob DEF Hand
  <2>3. /\ Pending' = In(queue_tasks) \cup In(queue_tasks_deferred)
        /\ OnSlots' = OnSlots
    BY <2>1, <2>2 DEF Pending, queueVars, slotVars, OnSlots, Busy, IsProcessing, Idle
  <2>4. cur.id \in Live /\ cur.id \notin Live'
    BY <1>2, <2>2, <2>3 DEF Owned, QueuesApart, SlotsApart, Pending
  <2> QED
    BY <1>0, <1>3, <2>1, <2>4, SendAnswers DEF MainEffect
<1>5. ASSUME NEW s \in Slots, NEW n \in 0 .. NSlots - 1, LaunchFails(s, n)
      PROVE  MainEffect
  <2> DEFINE id == IF n < cur.kids THEN ChildTask(cur, n + 1).id ELSE cur.id
  <2>1. /\ cur \in Root /\ mainpc = "process" /\ mainpc' = "unlaunch" /\ n <= cur.kids
        /\ LaunchChildren(s, n, "idle", NoTask) /\ Send(id, "error") /\ s \in IdleSlots
        /\ UNCHANGED queueVars
    BY <1>5, <1>b DEF LaunchFails, IsCompletion, Candidates, ReaderTypes
  <2>2. cur.kids \in Nat /\ n \in 0 .. cur.kids
    BY <2>1, RootJob, JobFields
  <2>3. Hand = Family(cur) /\ Hand' = {}
    BY <2>1, FamJob, RootJob DEF Hand
  <2>4. id \in Hand /\ (id[3] = 0 \/ id[3] > n)
    <3>1. CASE n < cur.kids
      <4>1. n + 1 \in 0 .. cur.kids
        BY <2>2, <3>1
      <4>a. cur \in Job /\ n + 1 \in Nat
        BY <2>1, <2>2, RootJob
      <4>b. ChildTask(cur, n + 1).id = <<cur.id[1], cur.id[2], n + 1>>
        BY <4>a, ChildTyped
      <4>2. id = <<cur.id[1], cur.id[2], n + 1>>
        BY <3>1, <4>b
      <4>3. <<cur.id[1], cur.id[2], n + 1>> \in Family(cur)
        BY <2>1, <4>1, FamilyLemma, RootJob
      <4>4. id[3] = n + 1
        BY <4>2
      <4> QED
        BY <2>2, <2>3, <4>2, <4>3, <4>4
    <3>2. CASE ~(n < cur.kids)
      BY <2>1, <2>3, <3>2, FamilyLemma, RootJob
    <3> QED
      BY <3>1, <3>2
  <2> HIDE DEF id
  <2>5. id \in Live /\ id \notin Pending' /\ id \notin OnSlots
    BY <1>2, <2>1, <2>3, <2>4 DEF Owned, QueuesApart, SlotsApart, Pending, queueVars
  <2>6. id \notin OnSlots'
    <3> SUFFICES ASSUME NEW x \in Slots, IsProcessing(x)', slot_task'[x].id = id
                 PROVE  FALSE
      BY DEF OnSlots, Busy
    <3>1. \A y \in Slots : IsProcessing(y)' =>
              \/ y = s /\ "idle" # "idle" /\ slot_task'[y].id = cur.id
              \/ /\ y \in IdleSlots \ {s} /\ Rank(s, y) <= n
                 /\ slot_task'[y].id = <<cur.id[1], cur.id[2], Rank(s, y)>>
              \/ IsProcessing(y) /\ slot_task'[y] = slot_task[y]
      BY <2>1, <2>2, LaunchSlots DEF Typed
    <3>2. CASE /\ x \in IdleSlots \ {s} /\ Rank(s, x) <= n
               /\ slot_task'[x].id = <<cur.id[1], cur.id[2], Rank(s, x)>>
      <4>1. Rank(s, x) \in Nat \ {0} /\ id[3] = Rank(s, x)
        BY <3>2, RankTyped
      <4> QED
        BY <2>4, <3>2, <4>1
    <3>3. CASE IsProcessing(x) /\ slot_task'[x] = slot_task[x]
      BY <2>5, <3>3 DEF OnSlots, Busy
    <3> QED
      BY <3>1, <3>2, <3>3
  <2>7. id \notin Live'
    BY <1>2, <2>5, <2>6
  <2> QED
    BY <1>0, <1>3, <2>1, <2>5, <2>7, SendAnswers DEF MainEffect
<1>6. CASE UNCHANGED resultVars
  BY <1>0, <1>3, <1>6 DEF MainEffect, Answered, resultVars
<1>7. UNCHANGED resultVars \/ ProcessMetrics \/ ProcessSlotAction
        \/ \E s \in Slots : \E n \in 0 .. NSlots - 1 : LaunchFails(s, n)
  BY DEF ProcessStep, PopTask, DrainDone, WaitForTasks, DeferCompletion, Launch,
     Unlaunch, UnlaunchDone, ProcessCancel, ProcessNextResponse, DeferSlotAction
<1> QED
  BY <1>4, <1>5, <1>6, <1>7

LEMMA LiveUpdate == Typed /\ Owned /\ UpdateStep => MainEffect
<1> SUFFICES ASSUME Typed, Owned, UpdateStep
             PROVE  MainEffect
  OBVIOUS
<1>0. UNCHANGED readerVars
  BY DEF UpdateStep, UpdateIdle, UpdateBegin, ShiftError, ShiftDone, PromptSkip,
     PromptAdd, PromptEnds, PromptDone, DecodeOk, DecodeFails, FailSlot, SampleEnds,
     SampleContinues, UpdateDone, ReleaseSlot, SendAndStop
<1>1. OwnedEffect
  BY OwnedUpdate
<1>2. SlotsKept
  BY UpdateSlots DEF SlotsKept
<1>3. CASE ReleaseSlot
  <2>1. /\ Release(cursor) /\ cursor \in Slots /\ UNCHANGED resultVars
        /\ Releasing = {cursor}
    BY <1>3 DEF ReleaseSlot, Typed, ReleaseTyped, Releasing
  <2>2. \A x \in Slots : IsProcessing(x)' => x # cursor
    BY <2>1, ReleaseTypes DEF Typed
  <2>3. \A x \in Busy' : x \in Busy \ Releasing /\ slot_task'[x] = slot_task[x]
    BY <1>2, <2>1, <2>2 DEF Busy, SlotsKept
  <2>4. Live' \subseteq Live
    BY <1>1, <2>3 DEF Live, OwnedEffect
  <2> QED
    BY <1>0, <2>1, <2>4 DEF MainEffect, Answered, resultVars
<1>4. CASE ~ReleaseSlot
  <2>1. mainpc \notin DOMAIN ReleaseLoop
    BY <1>4, ReleaseLoops DEF UpdateStep, UpdateIdle, UpdateBegin, ShiftError, ShiftDone,
       PromptSkip, PromptAdd, PromptEnds, PromptDone, DecodeOk, DecodeFails, FailSlot, SampleEnds,
       SampleContinues, UpdateDone
  <2>2. Live = Pending \cup OnSlots
    BY <2>1, LiveFacts
  <2>3. Live' \subseteq Pending' \cup OnSlots'
    BY DEF Live, OnSlots
  <2>4. Live' \subseteq Live
    BY <1>1, <2>2, <2>3 DEF OwnedEffect, Pending
  <2>5. ASSUME NEW s \in Slots, IsProcessing(s), NEW kind \in {"final", "error"},
               NEW pc \in DOMAIN ReleaseLoop, SendAndStop(s, kind, pc)
        PROVE  MainEffect
    <3>1. /\ Send(slot_task[s].id, kind) /\ cursor' = s /\ mainpc' = pc
          /\ UNCHANGED <<queueVars, slotVars, cur>>
      BY <2>5 DEF SendAndStop
    <3>2. s \in Busy /\ slot_task[s].id \in OnSlots
      BY <2>5 DEF Busy, OnSlots
    <3>3. Releasing' = {s} /\ Busy' = Busy /\ slot_task' = slot_task
      BY <2>5, <3>1 DEF Releasing, slotVars, Busy, IsProcessing, Idle
    <3>4. slot_task[s].id \notin Live'
      <4>1. slot_task[s].id \notin Pending'
        BY <1>1, <3>2 DEF OwnedEffect, Owned, SlotsApart
      <4>2. \A x \in Busy \ {s} : slot_task[x].id # slot_task[s].id
        BY <3>2 DEF Owned, SlotsApart
      <4> QED
        BY <3>3, <4>1, <4>2 DEF Live
    <3> QED
      BY <1>0, <2>2, <2>4, <3>1, <3>2, <3>4, SendAnswers DEF MainEffect
  <2>6. ASSUME NEW s \in Slots, ShiftError(s) \/ PromptEnds(s) \/ FailSlot(s) \/ SampleEnds(s)
        PROVE  MainEffect
    <3>1. IsProcessing(s)
      BY <2>6, StateProcessing DEF ShiftError, PromptEnds, FailSlot, SampleEnds, AtOrAfterCursor,
         IsNext, PromptSlots, BusySlots, SampleSlots
    <3>2. \E kind \in {"final", "error"} : \E pc \in DOMAIN ReleaseLoop : SendAndStop(s, kind, pc)
      BY <2>6, ReleaseLoops DEF ShiftError, PromptEnds, FailSlot, SampleEnds
    <3> QED
      BY <2>5, <3>1, <3>2
  <2>7. ASSUME NEW s \in Slots, SampleContinues(s)
        PROVE  MainEffect
    <3>1. IsProcessing(s)
      BY <2>7, StateProcessing DEF SampleContinues, AtOrAfterCursor, IsNext, SampleSlots
    <3>2. slot_task[s].id \in Live
      BY <2>2, <3>1 DEF OnSlots, Busy
    <3>3. UNCHANGED resultVars \/ Send(slot_task[s].id, "partial")
      BY <2>7 DEF SampleContinues
    <3>4. Answered /\ UNCHANGED waiting_task_ids
      BY <3>2, <3>3, SendAnswers DEF resultVars, Answered
    <3> QED
      BY <1>0, <2>4, <3>4 DEF MainEffect
  <2>8. CASE UNCHANGED resultVars
    BY <1>0, <2>4, <2>8 DEF MainEffect, Answered, resultVars
  <2>9. UNCHANGED resultVars
          \/ \E s \in Slots : \/ ShiftError(s) \/ PromptEnds(s) \/ FailSlot(s) \/ SampleEnds(s)
                             \/ SampleContinues(s)
    BY <1>4 DEF UpdateStep, UpdateIdle, UpdateBegin, ShiftDone, PromptSkip, PromptAdd, PromptDone,
       DecodeOk, DecodeFails, UpdateDone
  <2> QED
    BY <2>6, <2>7, <2>8, <2>9
<1> QED
  BY <1>3, <1>4

\* p is what remains of q, in the same order.
Thinned(q, p) ==
    \E g \in [DOMAIN p -> DOMAIN q] :
       /\ \A k \in DOMAIN p : p[k] = q[g[k]]
       /\ \A j, k \in DOMAIN p : j < k => g[j] < g[k]

LEMMA ThinnedCut ==
    ASSUME NEW S, NEW q \in Seq(S), NEW k \in DOMAIN q
    PROVE  Thinned(q, SubSeq(q, 1, k - 1) \o SubSeq(q, k + 1, Len(q)))
<1> DEFINE cut == SubSeq(q, 1, k - 1) \o SubSeq(q, k + 1, Len(q))
<1>1. cut \in Seq(S) /\ Len(cut) = Len(q) - 1
      /\ \A i \in DOMAIN cut : cut[i] = q[IF i < k THEN i ELSE i + 1]
  BY CutTyped
<1> HIDE DEF cut
<1>2. /\ Len(q) \in Nat /\ DOMAIN q = 1 .. Len(q) /\ k \in 1 .. Len(q)
      /\ DOMAIN cut = 1 .. Len(q) - 1
  BY <1>1, LenProperties
<1> DEFINE g == [i \in DOMAIN cut |-> IF i < k THEN i ELSE i + 1]
<1>3. g \in [DOMAIN cut -> DOMAIN q]
  BY <1>2
<1>4. \A i \in DOMAIN cut : cut[i] = q[g[i]]
  BY <1>1
<1>5. \A i, j \in DOMAIN cut : i < j => g[i] < g[j]
  BY <1>2
<1> HIDE DEF g
<1>6. Thinned(q, cut)
  BY <1>3, <1>4, <1>5 DEF Thinned
<1> QED
  BY <1>6 DEF cut

LEMMA ThinnedWithout ==
    ASSUME NEW S, NEW q \in Seq(S), NEW ids
    PROVE  Thinned(q, Without(q, ids))
<1> DEFINE K == {i \in DOMAIN q : q[i].id \notin ids}
           w == Without(q, ids)
<1>1. K \in SUBSET DOMAIN q /\ w = Kept(q, K)
  BY DEF Without
<1> HIDE DEF K, w
<1>2. /\ \A k \in DOMAIN w : Nth(K, k) \in K /\ w[k] = q[Nth(K, k)]
      /\ \A j, k \in DOMAIN w : j < k => Nth(K, j) < Nth(K, k)
  BY <1>1, KeptLemma
<1> DEFINE g == [k \in DOMAIN w |-> Nth(K, k)]
<1>3. g \in [DOMAIN w -> DOMAIN q]
  BY <1>1, <1>2
<1> QED
  BY <1>2, <1>3 DEF Thinned, w

LEMMA LastThinned ==
    ASSUME Typed, LastResult, Thinned(queue_results, queue_results'), Typed',
           Live' \subseteq Live, Posted \subseteq Posted'
    PROVE  LastResult'
<1> DEFINE q == queue_results  p == queue_results'
<1>1. PICK g \in [DOMAIN p -> DOMAIN q] :
         /\ \A k \in DOMAIN p : p[k] = q[g[k]]
         /\ \A j, k \in DOMAIN p : j < k => g[j] < g[k]
  BY DEF Thinned
<1>2. DOMAIN q \subseteq Nat /\ DOMAIN p \subseteq Nat
  BY LenProperties DEF Typed, ResultTyped
<1>3. \A i \in DOMAIN p : p[i].id \in Posted'
  BY <1>1 DEF LastResult
<1>4. ASSUME NEW i \in DOMAIN p, NEW j \in DOMAIN p, p[i].kind # "partial"
      PROVE  p[i].id \notin Live' /\ (p[j].id = p[i].id => j <= i)
  <2>1. g[i] \in DOMAIN q /\ g[j] \in DOMAIN q /\ p[i] = q[g[i]] /\ p[j] = q[g[j]]
    BY <1>1
  <2>2. q[g[i]].id \notin Live /\ (q[g[j]].id = q[g[i]].id => g[j] <= g[i])
    BY <1>4, <2>1 DEF LastResult
  <2>3. g[j] <= g[i] => ~(i < j)
    <3>1. i < j => g[i] < g[j]
      BY <1>1
    <3>2. g[i] \in Nat /\ g[j] \in Nat
      BY <1>2, <2>1
    <3> QED
      BY <3>1, <3>2
  <2>4. i \in Nat /\ j \in Nat
    BY <1>2
  <2> QED
    BY <2>1, <2>2, <2>3, <2>4
<1> QED
  BY <1>3, <1>4 DEF LastResult

LEMMA LastAnswered ==
    ASSUME Typed, Owned, LastResult, Live' \subseteq Live, Answered, Posted \subseteq Posted'
    PROVE  LastResult'
<1>1. CASE queue_results' = queue_results
  BY <1>1 DEF LastResult
<1>2. ASSUME NEW id \in Live, NEW kind \in {"partial", "final", "error"},
             queue_results' = Append(queue_results, [id |-> id, kind |-> kind]),
             kind # "partial" => id \notin Live'
      PROVE  LastResult'
  <2> DEFINE q == queue_results  p == queue_results'  n == Len(q) + 1
  <2>1. id \in Id /\ id \in Posted
    <3>1. id \in Posted
      BY LiveFacts DEF Owned
    <3>2. \A c \in Clients : Ids(c) \subseteq Id
      BY IdsLemma DEF Typed, ReaderTyped, Ids
    <3> QED
      BY <3>1, <3>2 DEF Posted
  <2>2. [id |-> id, kind |-> kind] \in Result
    BY <2>1 DEF Result
  <2>3. /\ p \in Seq(Result) /\ Len(p) = n /\ p[n] = [id |-> id, kind |-> kind]
        /\ \A i \in 1 .. Len(q) : p[i] = q[i]
    BY <1>2, <2>2, AppendProperties DEF Typed, ResultTyped
  <2>4. Len(q) \in Nat /\ DOMAIN q = 1 .. Len(q) /\ DOMAIN p = 1 .. n
    BY <2>3, LenProperties DEF Typed, ResultTyped
  <2>5. p[n].id = id /\ p[n].kind = kind
    BY <2>3
  <2>a. \A i \in 1 .. n : i = n \/ (i \in 1 .. Len(q) /\ i < n)
    BY <2>4
  <2>6. \A i \in DOMAIN p : i = n \/ (i \in DOMAIN q /\ p[i] = q[i] /\ i < n)
    BY <2>3, <2>4, <2>a
  <2> HIDE DEF n
  <2>7. \A i \in DOMAIN p : p[i].id \in Posted'
    BY <2>1, <2>5, <2>6 DEF LastResult
  <2>8. ASSUME NEW i \in DOMAIN p, NEW j \in DOMAIN p, p[i].kind # "partial"
        PROVE  p[i].id \notin Live' /\ (p[j].id = p[i].id => j <= i)
    <3>1. CASE i = n
      <4>1. j <= i
        BY <2>4, <3>1 DEF n
      <4> QED
        BY <1>2, <2>5, <2>8, <3>1, <4>1
    <3>2. CASE i \in DOMAIN q /\ p[i] = q[i]
      <4>1. q[i].id \notin Live
        BY <2>8, <3>2 DEF LastResult
      <4>2. CASE j = n
        BY <2>5, <3>2, <4>1, <4>2
      <4>3. CASE j \in DOMAIN q /\ p[j] = q[j]
        BY <2>8, <3>2, <4>1, <4>3 DEF LastResult
      <4> QED
        BY <2>6, <4>2, <4>3
    <3> QED
      BY <2>6, <3>1, <3>2
  <2> QED
    BY <2>7, <2>8 DEF LastResult
<1> QED
  BY <1>1, <1>2 DEF Answered

LEMMA LiveReader ==
    ASSUME Typed, Numbered, Owned, NEW c \in Clients,
           AddWaiting(c) \/ Receive(c) \/ StopRemove(c) \/ StopPurge(c) \/ StopCancel(c) \/ Leave(c)
    PROVE  Live' \subseteq Live
<1>1. UNCHANGED <<slotVars, loopVars, mainpc>>
  BY DEF AddWaiting, Receive, StopRemove, StopPurge, StopCancel, Leave
<1>2. Busy' = Busy /\ Releasing' = Releasing /\ slot_task' = slot_task
  BY <1>1 DEF slotVars, loopVars, Busy, Releasing, IsProcessing, Idle
<1>3. Pending' \subseteq Pending
  BY OwnedReader
<1> QED
  BY <1>2, <1>3 DEF Live

LEMMA LivePost ==
    ASSUME Typed, Numbered, Owned, NEW c \in Clients, PostTasks(c)
    PROVE  Live' = Live \cup Ids(c)
<1>1. UNCHANGED <<slotVars, loopVars, mainpc>>
  BY DEF PostTasks
<1>2. Busy' = Busy /\ Releasing' = Releasing /\ slot_task' = slot_task
  BY <1>1 DEF slotVars, loopVars, Busy, Releasing, IsProcessing, Idle
<1>3. Pending' = Pending \cup Ids(c)
  BY OwnedPost
<1> QED
  BY <1>2, <1>3 DEF Live

LEMMA LastReader ==
    ASSUME Typed, Typed', Numbered, Owned, LastResult, NEW c \in Clients,
           AddWaiting(c) \/ ReaderStep(c) \/ Leave(c)
    PROVE  LastResult'
<1>1. CASE PostTasks(c)
  <2>1. /\ queue_results' = queue_results /\ Posted \subseteq Posted'
        /\ Live' = Live \cup Ids(c) /\ Ids(c) \cap Posted = {}
    BY <1>1, OwnedPost, LivePost, NotPosted DEF PostTasks, resultVars
  <2>2. \A i \in DOMAIN queue_results : queue_results[i].id \in Posted
    BY DEF LastResult
  <2> QED
    BY <2>1, <2>2 DEF LastResult
<1>2. CASE ~PostTasks(c)
  <2>1. Live' \subseteq Live
    BY <1>2, LiveReader DEF ReaderStep
  <2>2. Posted \subseteq Posted'
    <3> SUFFICES ASSUME NEW x \in Clients, rpc[x] \notin {"idle", "posting"}
                 PROVE  Ids(x)' = Ids(x) /\ rpc'[x] \notin {"idle", "posting"}
      BY DEF Posted
    <3>1. CASE AddWaiting(c)
      <4>1. /\ rpc[c] = "idle" /\ rpc' = [rpc EXCEPT ![c] = "posting"]
            /\ \E new : tasks' = [tasks EXCEPT ![c] = new]
        BY <3>1 DEF AddWaiting
      <4>2. x # c /\ rpc'[x] = rpc[x] /\ tasks'[x] = tasks[x]
        BY <4>1 DEF Typed, ReaderTyped
      <4> QED
        BY <4>2 DEF Ids
    <3>2. CASE ~AddWaiting(c)
      <4>1. UNCHANGED tasks /\ \/ UNCHANGED rpc
                               \/ \E pc \in {"finishing", "stopping", "done", "purging", "cancelling"} :
                                     rpc' = [rpc EXCEPT ![c] = pc]
        BY <1>2, <3>2 DEF ReaderStep, Receive, StopRemove, StopPurge, StopCancel, Leave
      <4> QED
        BY <4>1 DEF Ids, Typed, ReaderTyped
    <3> QED
      BY <3>1, <3>2
  <2>3. CASE Receive(c)
    <3>1. \E i \in DOMAIN queue_results :
             queue_results' = SubSeq(queue_results, 1, i - 1)
                                \o SubSeq(queue_results, i + 1, Len(queue_results))
      BY <2>3 DEF Receive
    <3>2. Thinned(queue_results, queue_results')
      BY <3>1, ThinnedCut DEF Typed, ResultTyped
    <3> QED
      BY <2>1, <2>2, <3>2, LastThinned
  <2>4. CASE StopPurge(c)
    <3>1. queue_results' = Without(queue_results, Ids(c))
      BY <2>4 DEF StopPurge
    <3>2. Thinned(queue_results, queue_results')
      BY <3>1, ThinnedWithout DEF Typed, ResultTyped
    <3> QED
      BY <2>1, <2>2, <3>2, LastThinned
  <2>5. CASE ~Receive(c) /\ ~StopPurge(c)
    <3>1. queue_results' = queue_results
      BY <1>2, <2>5 DEF ReaderStep, AddWaiting, StopRemove, StopCancel, Leave, resultVars
    <3> QED
      BY <2>1, <2>2, <3>1 DEF LastResult
  <2> QED
    BY <2>3, <2>4, <2>5
<1> QED
  BY <1>1, <1>2

LEMMA VarsUnchanged ==
    ASSUME UNCHANGED vars
    PROVE  /\ Live' = Live /\ Posted' = Posted
           /\ UNCHANGED <<queue_results, waiting_task_ids, rpc, tasks, received_count>>
<1>1. UNCHANGED <<queue_tasks, queue_tasks_deferred, slot_state, slot_task, mainpc, cur, cursor,
                  queue_results, waiting_task_ids, rpc, tasks, received_count>>
  BY DEF vars, queueVars, resultVars, slotVars, loopVars, readerVars
<1>2. Pending' = Pending /\ Busy' = Busy /\ Releasing' = Releasing
  BY <1>1 DEF Pending, Hand, Busy, IsProcessing, Idle, Releasing
<1>3. Posted' = Posted
  BY <1>1 DEF Posted, Ids
<1> QED
  BY <1>1, <1>2, <1>3 DEF Live

LEMMA LastStep ==
    ASSUME Typed, Typed', Numbered, Owned, LastResult, [Next]_vars
    PROVE  LastResult'
<1>1. CASE ProcessStep \/ UpdateStep
  <2>1. MainEffect
    BY <1>1, LiveProcess, LiveUpdate
  <2>2. Posted' = Posted
    BY <2>1 DEF MainEffect, readerVars, Posted, Ids
  <2> QED
    BY <2>1, <2>2, LastAnswered DEF MainEffect
<1>2. CASE UNCHANGED vars
  BY <1>2, VarsUnchanged DEF LastResult
<1> QED
  BY <1>1, <1>2, LastReader DEF Next

LEMMA EndedLemma ==
    ASSUME Typed, Owned, NEW id, id \notin Live
    PROVE  Ended(id)
<1>1. id \notin Pending
  BY DEF Live
<1>2. CASE id \notin OnSlots
  BY <1>1, <1>2, CopiesLemma DEF Ended
<1>3. CASE id \in OnSlots
  <2>1. PICK x \in Busy : slot_task[x].id = id
    BY <1>3 DEF OnSlots
  <2>2. x \in Releasing
    BY <2>1 DEF Live
  <2>3. mainpc \in DOMAIN ReleaseLoop /\ x = cursor
    BY <2>2 DEF Releasing
  <2>4. cursor \in SlotsOf(id)
    BY <2>1, <2>3 DEF SlotsOf, Busy
  <2>5. SlotsOf(id) = {cursor}
    BY <2>4, SlotsOfLemma DEF Owned
  <2> QED
    BY <1>3, <2>3, <2>5, CopiesLemma DEF Ended
<1> QED
  BY <1>2, <1>3

\* A task whose last result was sent is nowhere, but for the slot that is
\* released next, and gets no other result.
THEOREM LastResultOnceHolds == Spec => []LastResultOnce
<1>1. Init => LastResult
  BY DEF Init, LastResult
<1>2. Typed /\ Owned /\ LastResult => LastResultOnce
  BY EndedLemma DEF LastResult, LastResultOnce
<1> QED
  BY <1>1, <1>2, TypedInit, TypedStep, OwnedInit, NumberedStep, OwnedStep, LastStep, PTL DEF Spec

-----------------------------------------------------------------------------
(***************************************************************************)
(* Counting results.  A task is outstanding while it is live or has an     *)
(* unread result; what a receiving client has counted and what is          *)
(* outstanding never exceeds its tasks, so a client that has counted them  *)
(* all leaves nothing behind.                                              *)
(***************************************************************************)
ResultIds      == {queue_results[i].id : i \in DOMAIN queue_results}
Outstanding(c) == Ids(c) \cap (Live \cup ResultIds)
WaitingStates  == {"posting", "receiving", "finishing", "stopping"}

WaitingOk == \A id \in waiting_task_ids :
                \E c \in Clients : id \in Ids(c) /\ rpc[c] \in WaitingStates
TakenOk   == \A id \in ResultIds :
                \E c \in Clients : id \in Ids(c) /\ rpc[c] \in {"receiving", "stopping", "purging"}
CountOk(c) ==
    /\ rpc[c] \in {"idle", "posting"} => received_count[c] = 0
    /\ rpc[c] \in {"receiving", "finishing"} =>
          received_count[c] + Cardinality(Outstanding(c)) <= Cardinality(Ids(c))
    /\ rpc[c] = "finishing" => received_count[c] = Cardinality(Ids(c))
Counted == WaitingOk /\ TakenOk /\ \A c \in Clients : CountOk(c)

LEMMA IdsFinite ==
    ASSUME Typed, NEW c \in Clients
    PROVE  IsFiniteSet(Ids(c)) /\ Cardinality(Ids(c)) \in Nat
  BY IdsLemma DEF Typed, ReaderTyped, Ids

LEMMA OutstandingFinite ==
    ASSUME Typed, NEW c \in Clients
    PROVE  /\ IsFiniteSet(Outstanding(c)) /\ Cardinality(Outstanding(c)) \in Nat
           /\ Cardinality(Outstanding(c)) <= Cardinality(Ids(c))
<1>1. Outstanding(c) \in SUBSET Ids(c)
  BY DEF Outstanding
<1>2. IsFiniteSet(Outstanding(c)) /\ Cardinality(Outstanding(c)) <= Cardinality(Ids(c))
  BY <1>1, IdsFinite, FS_Subset
<1> QED
  BY <1>2, FS_CardinalityType

LEMMA NothingLeft ==
    ASSUME Typed, NEW c \in Clients, CountOk(c), rpc[c] = "finishing"
    PROVE  Outstanding(c) = {}
<1>1. Cardinality(Outstanding(c)) \in Nat /\ IsFiniteSet(Outstanding(c)) /\ Cardinality(Ids(c)) \in Nat
  BY OutstandingFinite, IdsFinite
<1>2. Cardinality(Outstanding(c)) = 0
  BY <1>1 DEF CountOk
<1> QED
  BY <1>1, <1>2, FS_EmptySet

\* Whoever does not count is not disturbed.
LEMMA CountKept ==
    ASSUME Typed, NEW c \in Clients, CountOk(c), Ids(c)' = Ids(c),
           Outstanding(c)' \subseteq Outstanding(c),
           received_count'[c] = received_count[c],
           rpc'[c] = rpc[c] \/ rpc'[c] \notin {"idle", "posting", "receiving", "finishing"}
    PROVE  CountOk(c)'
<1>1. /\ IsFiniteSet(Outstanding(c)) /\ Cardinality(Outstanding(c)) \in Nat
      /\ Cardinality(Ids(c)) \in Nat /\ received_count[c] \in Nat
  BY OutstandingFinite, IdsFinite DEF Typed, ReaderTyped
<1>2. /\ Cardinality(Outstanding(c)') <= Cardinality(Outstanding(c))
      /\ Cardinality(Outstanding(c)') \in Nat
  <2>1. Outstanding(c)' \in SUBSET Outstanding(c)
    OBVIOUS
  <2>2. IsFiniteSet(Outstanding(c)')
    BY <1>1, <2>1, FS_Subset
  <2> QED
    BY <1>1, <2>1, <2>2, FS_Subset, FS_CardinalityType
<1> HIDE DEF Outstanding
<1> QED
  BY <1>1, <1>2 DEF CountOk

LEMMA CountedMain ==
    ASSUME Typed, Numbered, Owned, Counted, MainEffect
    PROVE  Counted'
<1>1. /\ UNCHANGED <<waiting_task_ids, rpc, tasks, received_count>> /\ Live' \subseteq Live
  BY DEF MainEffect, readerVars
<1>2. \A x : Ids(x)' = Ids(x)
  BY <1>1 DEF Ids
<1>3. WaitingOk'
  BY <1>1, <1>2 DEF Counted, WaitingOk
<1>4. \A id \in ResultIds' : id \in ResultIds \/ (id \in Live /\ id \in waiting_task_ids)
  <2>1. CASE queue_results' = queue_results
    BY <2>1 DEF ResultIds
  <2>2. ASSUME NEW id \in Live, NEW kind \in {"partial", "final", "error"}, id \in waiting_task_ids,
               queue_results' = Append(queue_results, [id |-> id, kind |-> kind])
        PROVE  \A x \in ResultIds' : x \in ResultIds \/ x = id
    <3>1. id \in Id
      BY <2>2 DEF Typed, ResultTyped
    <3>2. [id |-> id, kind |-> kind] \in Result /\ [id |-> id, kind |-> kind].id = id
      BY <3>1 DEF Result
    <3>3. /\ queue_results' \in Seq(Result) /\ Len(queue_results') = Len(queue_results) + 1
          /\ queue_results'[Len(queue_results) + 1] = [id |-> id, kind |-> kind]
          /\ \A i \in 1 .. Len(queue_results) : queue_results'[i] = queue_results[i]
      BY <2>2, <3>2, AppendProperties DEF Typed, ResultTyped
    <3>4. Len(queue_results) \in Nat /\ DOMAIN queue_results = 1 .. Len(queue_results)
          /\ DOMAIN queue_results' = 1 .. Len(queue_results')
      BY <3>3, LenProperties DEF Typed, ResultTyped
    <3>5. \A i \in 1 .. Len(queue_results) + 1 : i \in 1 .. Len(queue_results) \/ i = Len(queue_results) + 1
      BY <3>4
    <3>6. \A i \in DOMAIN queue_results' :
             (i \in DOMAIN queue_results /\ queue_results'[i] = queue_results[i]) \/ queue_results'[i].id = id
      BY <3>2, <3>3, <3>4, <3>5
    <3> QED
      BY <3>6 DEF ResultIds
  <2> QED
    BY <2>1, <2>2 DEF MainEffect, Answered
<1>5. ASSUME NEW id \in Live, id \in waiting_task_ids
      PROVE  \E c \in Clients : id \in Ids(c) /\ rpc[c] \in {"receiving", "stopping", "purging"}
  <2>1. PICK c \in Clients : id \in Ids(c) /\ rpc[c] \in WaitingStates
    BY <1>5 DEF Counted, WaitingOk
  <2>2. PICK d \in Clients : id \in Ids(d) /\ rpc[d] \notin {"idle", "posting"}
    BY <1>5, LiveFacts DEF Owned, Posted
  <2>3. c = d
    <3>1. \A y \in Clients : \A i \in Ids(y) : i[1] = y
      BY InTasks
    <3> QED
      BY <2>1, <2>2, <3>1
  <2>4. rpc[c] # "finishing"
    BY <1>5, <2>1, NothingLeft DEF Counted, Outstanding
  <2> QED
    BY <2>1, <2>2, <2>3, <2>4 DEF WaitingStates
<1>6. TakenOk'
  BY <1>1, <1>2, <1>4, <1>5 DEF Counted, TakenOk
<1>7. \A c \in Clients : Outstanding(c)' \subseteq Outstanding(c)
  BY <1>1, <1>2, <1>4 DEF Outstanding
<1>8. \A c \in Clients : CountOk(c)'
  BY <1>1, <1>2, <1>7, CountKept DEF Counted
<1> QED
  BY <1>3, <1>6, <1>8 DEF Counted

LEMMA ThinnedIds ==
    Thinned(queue_results, queue_results') => ResultIds' \subseteq ResultIds
  BY DEF Thinned, ResultIds

LEMMA CountedAdd ==
    ASSUME Typed, Typed', Numbered, Owned, Counted, NEW c \in Clients, AddWaiting(c)
    PROVE  Counted'
<1>1. PICK ts \in Templates :
         LET new == [i \in DOMAIN ts |-> MakeTask(c, i, ts[i])]
         IN /\ tasks' = [tasks EXCEPT ![c] = new]
            /\ waiting_task_ids' = waiting_task_ids \cup IdsOf(new)
  BY DEF AddWaiting
<1>2. /\ rpc[c] = "idle" /\ rpc' = [rpc EXCEPT ![c] = "posting"]
      /\ UNCHANGED <<queue_results, received_count>>
  BY DEF AddWaiting
<1>3. /\ \A x \in Clients : x # c => Ids(x)' = Ids(x) /\ rpc'[x] = rpc[x]
      /\ rpc'[c] = "posting"
      /\ waiting_task_ids' = waiting_task_ids \cup Ids(c)'
  BY <1>1, <1>2 DEF Ids, Typed, ReaderTyped
<1>4. Ids(c) = {}
  <2>1. tasks[c] = <<>>
    BY <1>2 DEF Numbered
  <2> QED
    BY <2>1 DEF Ids, IdsOf
<1>5. Live' \subseteq Live /\ ResultIds' = ResultIds
  BY <1>2, LiveReader DEF ResultIds
<1>6. WaitingOk'
  BY <1>3, <1>4 DEF Counted, WaitingOk, WaitingStates
<1>7. TakenOk'
  BY <1>3, <1>4, <1>5 DEF Counted, TakenOk
<1>8. ASSUME NEW x \in Clients
      PROVE  CountOk(x)'
  <2>1. CASE x = c
    BY <1>2, <1>3, <2>1 DEF Counted, CountOk
  <2>2. CASE x # c
    <3>1. Outstanding(x)' \subseteq Outstanding(x)
      BY <1>3, <1>5, <2>2 DEF Outstanding
    <3> QED
      BY <1>2, <1>3, <2>2, <3>1, CountKept DEF Counted
  <2> QED
    BY <2>1, <2>2
<1> QED
  BY <1>6, <1>7, <1>8 DEF Counted

LEMMA CountedPost ==
    ASSUME Typed, Typed', Numbered, Owned, Counted, NEW c \in Clients, PostTasks(c)
    PROVE  Counted'
<1>1. /\ rpc[c] = "posting" /\ rpc' = [rpc EXCEPT ![c] = "receiving"]
      /\ UNCHANGED <<queue_results, waiting_task_ids, tasks, received_count>>
  BY DEF PostTasks, resultVars
<1>2. /\ \A x \in Clients : x # c => rpc'[x] = rpc[x]
      /\ rpc'[c] = "receiving" /\ \A x : Ids(x)' = Ids(x)
  BY <1>1 DEF Ids, Typed, ReaderTyped
<1>3. Live' = Live \cup Ids(c) /\ ResultIds' = ResultIds
  BY <1>1, LivePost DEF ResultIds
<1>4. WaitingOk' /\ TakenOk'
  BY <1>1, <1>2, <1>3 DEF Counted, WaitingOk, TakenOk, WaitingStates
<1>5. ASSUME NEW x \in Clients
      PROVE  CountOk(x)'
  <2>1. CASE x = c
    <3>1. received_count'[c] = 0
      BY <1>1 DEF Counted, CountOk
    <3>2. Outstanding(c)' \in SUBSET Ids(c) /\ IsFiniteSet(Ids(c))
      BY <1>2, IdsFinite DEF Outstanding
    <3>3. Cardinality(Outstanding(c)') <= Cardinality(Ids(c)) /\ Cardinality(Outstanding(c)') \in Nat
      BY <3>2, FS_Subset, FS_CardinalityType
    <3> HIDE DEF Outstanding
    <3> QED
      BY <1>2, <2>1, <3>1, <3>3 DEF CountOk
  <2>2. CASE x # c
    <3>1. Ids(x) \cap Ids(c) = {}
      <4>1. \A y \in Clients : \A i \in Ids(y) : i[1] = y
        BY InTasks
      <4> QED
        BY <2>2, <4>1
    <3>2. Outstanding(x)' \subseteq Outstanding(x)
      BY <1>2, <1>3, <3>1 DEF Outstanding
    <3> QED
      BY <1>1, <1>2, <2>2, <3>2, CountKept DEF Counted
  <2> QED
    BY <2>1, <2>2
<1> QED
  BY <1>4, <1>5 DEF Counted

\* Receiving the last result of a task: one more counted, one less outstanding.
LEMMA CountedReceive ==
    ASSUME Typed, Typed', Numbered, Owned, LastResult, Counted, NEW c \in Clients, Receive(c)
    PROVE  Counted'
<1> DEFINE q == queue_results
<1>1. PICK i \in DOMAIN q :
         /\ q[i].id \in Ids(c)
         /\ \A j \in 1 .. i - 1 : q[j].id \notin Ids(c)
         /\ queue_results' = SubSeq(q, 1, i - 1) \o SubSeq(q, i + 1, Len(q))
         /\ \/ q[i].kind = "partial" /\ UNCHANGED <<received_count, rpc>>
            \/ /\ q[i].kind = "final"
               /\ received_count' = [received_count EXCEPT ![c] = @ + 1]
               /\ rpc' = IF received_count'[c] = Cardinality(Ids(c))
                           THEN [rpc EXCEPT ![c] = "finishing"] ELSE rpc
            \/ /\ q[i].kind = "error"
               /\ rpc' = [rpc EXCEPT ![c] = "stopping"] /\ UNCHANGED received_count
  BY DEF Receive
<1>2. rpc[c] = "receiving" /\ UNCHANGED <<waiting_task_ids, tasks>>
  BY DEF Receive
<1>3. Live' \subseteq Live
  BY LiveReader
<1>4. q \in Seq(Result) /\ Len(q) \in Nat /\ DOMAIN q = 1 .. Len(q)
  BY LenProperties DEF Typed, ResultTyped
<1>5. /\ queue_results' \in Seq(Result) /\ Len(queue_results') = Len(q) - 1
      /\ \A k \in DOMAIN queue_results' : queue_results'[k] = q[IF k < i THEN k ELSE k + 1]
  BY <1>1, <1>4, CutTyped, ZenonT(30)
<1>6. DOMAIN queue_results' = 1 .. Len(q) - 1
  BY <1>5, LenProperties
<1>7. \A k \in DOMAIN queue_results' : \E j \in DOMAIN q : j # i /\ queue_results'[k] = q[j]
  <2> SUFFICES ASSUME NEW k \in DOMAIN queue_results'
               PROVE  \E j \in DOMAIN q : j # i /\ queue_results'[k] = q[j]
    OBVIOUS
  <2>1. CASE k < i
    BY <1>4, <1>5, <1>6, <2>1
  <2>2. CASE ~(k < i)
    <3>1. k + 1 \in DOMAIN q /\ k + 1 # i
      BY <1>4, <1>6, <2>2
    <3> QED
      BY <1>5, <2>2, <3>1
  <2> QED
    BY <2>1, <2>2
<1>8. ResultIds' \subseteq ResultIds
  BY <1>7 DEF ResultIds
<1>9. \A x : Ids(x)' = Ids(x)
  BY <1>2 DEF Ids
<1>10. \A x : Outstanding(x)' \subseteq Outstanding(x)
  BY <1>3, <1>8, <1>9 DEF Outstanding
<1>11. ASSUME q[i].kind # "partial"
       PROVE  q[i].id \in Outstanding(c) /\ q[i].id \notin Outstanding(c)'
  <2>1. q[i].id \in ResultIds
    BY <1>1 DEF ResultIds
  <2>2. q[i].id \notin Live'
    BY <1>1, <1>3, <1>11 DEF LastResult
  <2>3. \A j \in DOMAIN q : j # i => q[j].id # q[i].id
    <3> SUFFICES ASSUME NEW j \in DOMAIN q, j # i, q[j].id = q[i].id
                 PROVE  FALSE
      OBVIOUS
    <3>1. j <= i
      BY <1>1, <1>11 DEF LastResult
    <3>2. j \in 1 .. i - 1
      BY <1>1, <1>4, <3>1
    <3> QED
      BY <1>1, <3>2
  <2>4. q[i].id \notin ResultIds'
    BY <1>7, <2>3 DEF ResultIds
  <2> QED
    BY <1>1, <2>1, <2>2, <2>4 DEF Outstanding
<1>12. ASSUME q[i].kind # "partial"
       PROVE  /\ Cardinality(Outstanding(c)') + 1 <= Cardinality(Outstanding(c))
              /\ Cardinality(Outstanding(c)') \in Nat
              /\ IsFiniteSet(Outstanding(c)')
  <2> DEFINE A == Outstanding(c)  B == Outstanding(c)'
  <2>1. IsFiniteSet(A) /\ B \in SUBSET A /\ q[i].id \in A /\ q[i].id \notin B
    BY <1>10, <1>11, <1>12, OutstandingFinite
  <2> HIDE DEF A, B
  <2>2. IsFiniteSet(B) /\ Cardinality(B) <= Cardinality(A) /\ (Cardinality(B) = Cardinality(A) => B = A)
    BY <2>1, FS_Subset
  <2>3. Cardinality(B) \in Nat /\ Cardinality(A) \in Nat
    BY <2>1, <2>2, FS_CardinalityType
  <2>4. B # A
    BY <2>1
  <2>5. Cardinality(B) + 1 <= Cardinality(A)
    BY <2>2, <2>3, <2>4
  <2> QED
    BY <2>2, <2>3, <2>5 DEF A, B
<1>13. \A x \in Clients : x # c => rpc'[x] = rpc[x] /\ received_count'[x] = received_count[x]
  BY <1>1 DEF Typed, ReaderTyped
<1>14. received_count[c] + Cardinality(Outstanding(c)) <= Cardinality(Ids(c))
  BY <1>2 DEF Counted, CountOk
<1>15. /\ received_count[c] \in Nat /\ Cardinality(Outstanding(c)) \in Nat
       /\ Cardinality(Ids(c)) \in Nat
  BY OutstandingFinite, IdsFinite DEF Typed, ReaderTyped
<1>16. CountOk(c)'
  <2>1. CASE q[i].kind = "partial"
    <3>1. received_count'[c] = received_count[c] /\ rpc'[c] = rpc[c]
      BY <1>1, <2>1
    <3> QED
      BY <1>9, <1>10, <3>1, CountKept DEF Counted
  <2>2. CASE q[i].kind = "final"
    <3>1. received_count'[c] = received_count[c] + 1
      BY <1>1, <2>2 DEF Typed, ReaderTyped
    <3>2. \/ rpc'[c] = "finishing" /\ received_count'[c] = Cardinality(Ids(c))
          \/ rpc'[c] = "receiving"
      BY <1>1, <1>2, <2>2 DEF Typed, ReaderTyped
    <3>3. received_count'[c] + Cardinality(Outstanding(c)') <= Cardinality(Ids(c))
      BY <1>12, <1>14, <1>15, <2>2, <3>1
    <3> HIDE DEF Outstanding
    <3> QED
      BY <1>9, <3>2, <3>3 DEF CountOk
  <2>3. CASE q[i].kind = "error"
    <3>1. rpc'[c] = "stopping"
      BY <1>1, <2>3 DEF Typed, ReaderTyped
    <3> QED
      BY <3>1 DEF CountOk
  <2> QED
    BY <1>1, <2>1, <2>2, <2>3
<1>17. \A x \in Clients : CountOk(x)'
  <2> SUFFICES ASSUME NEW x \in Clients, x # c
               PROVE  CountOk(x)'
    BY <1>16
  <2> QED
    BY <1>9, <1>10, <1>13, CountKept DEF Counted
<1>18. rpc'[c] \in {"receiving", "finishing", "stopping"}
  BY <1>1, <1>2 DEF Typed, ReaderTyped
<1>19. WaitingOk'
  <2>1. \A x \in Clients : rpc[x] \in WaitingStates => rpc'[x] \in WaitingStates
    BY <1>13, <1>18 DEF WaitingStates
  <2> QED
    BY <1>2, <1>9, <2>1 DEF Counted, WaitingOk
<1>20. TakenOk'
  <2> SUFFICES ASSUME NEW id \in ResultIds'
               PROVE  \E x \in Clients : id \in Ids(x) /\ rpc'[x] \in {"receiving", "stopping", "purging"}
    BY <1>9 DEF TakenOk
  <2>1. PICK x \in Clients : id \in Ids(x) /\ rpc[x] \in {"receiving", "stopping", "purging"}
    BY <1>8 DEF Counted, TakenOk
  <2>2. CASE x # c
    BY <1>13, <2>1, <2>2
  <2>3. CASE x = c
    <3>1. rpc'[c] # "finishing"
      <4>1. SUFFICES ASSUME rpc'[c] = "finishing"
                     PROVE  FALSE
        OBVIOUS
      <4>2. q[i].kind # "partial" /\ received_count'[c] = Cardinality(Ids(c))
        <5>1. /\ q[i].kind = "partial" => rpc'[c] = "receiving"
              /\ q[i].kind = "error" => rpc'[c] = "stopping"
          BY <1>1, <1>2 DEF Typed, ReaderTyped
        <5>2. CountOk(c)'
          BY <1>16
        <5> QED
          BY <1>9, <4>1, <5>1, <5>2 DEF CountOk
      <4>3. received_count'[c] + Cardinality(Outstanding(c)') <= Cardinality(Ids(c))
        <5>1. CountOk(c)'
          BY <1>16
        <5> HIDE DEF Outstanding
        <5> QED
          BY <1>9, <4>1, <5>1 DEF CountOk
      <4>4. Cardinality(Outstanding(c)') = 0 /\ IsFiniteSet(Outstanding(c)')
        BY <1>12, <1>15, <4>2, <4>3
      <4>5. Outstanding(c)' = {}
        BY <4>4, FS_EmptySet
      <4>6. id \in Outstanding(c)'
        BY <1>9, <2>1, <2>3 DEF Outstanding
      <4> QED
        BY <4>5, <4>6
    <3> QED
      BY <1>18, <2>1, <2>3, <3>1
  <2> QED
    BY <2>2, <2>3
<1> QED
  BY <1>17, <1>19, <1>20 DEF Counted

LEMMA CountedStop ==
    ASSUME Typed, Typed', Numbered, Owned, Counted, NEW c \in Clients,
           StopRemove(c) \/ StopPurge(c) \/ StopCancel(c) \/ Leave(c)
    PROVE  Counted'
<1>1. UNCHANGED <<tasks, received_count>>
  BY DEF StopRemove, StopPurge, StopCancel, Leave
<1>2. \A x : Ids(x)' = Ids(x)
  BY <1>1 DEF Ids
<1>3. /\ \A x \in Clients : x # c => rpc'[x] = rpc[x]
      /\ rpc'[c] \notin {"idle", "posting", "receiving", "finishing"}
  BY DEF StopRemove, StopPurge, StopCancel, Leave, Typed, ReaderTyped
<1>4. Live' \subseteq Live
  BY LiveReader
<1>5. ResultIds' \subseteq ResultIds
  <2>1. CASE StopPurge(c)
    <3>1. queue_results' = Without(queue_results, Ids(c))
      BY <2>1 DEF StopPurge
    <3> QED
      BY <3>1, ThinnedWithout, ThinnedIds DEF Typed, ResultTyped
  <2>2. CASE ~StopPurge(c)
    BY <2>2 DEF StopRemove, StopCancel, Leave, resultVars, ResultIds
  <2> QED
    BY <2>1, <2>2
<1>6. \A x \in Clients : Outstanding(x)' \subseteq Outstanding(x)
  BY <1>2, <1>4, <1>5 DEF Outstanding
<1>7. \A x \in Clients : CountOk(x)'
  BY <1>1, <1>2, <1>3, <1>6, CountKept DEF Counted
<1>8. WaitingOk'
  <2> SUFFICES ASSUME NEW id \in waiting_task_ids'
               PROVE  \E x \in Clients : id \in Ids(x) /\ rpc'[x] \in WaitingStates
    BY <1>2 DEF WaitingOk
  <2>1. id \in waiting_task_ids
    BY DEF StopRemove, StopPurge, StopCancel, Leave, resultVars
  <2>2. PICK x \in Clients : id \in Ids(x) /\ rpc[x] \in WaitingStates
    BY <2>1 DEF Counted, WaitingOk
  <2>3. CASE x # c
    BY <1>3, <2>2, <2>3
  <2>4. CASE x = c
    <3>1. ~StopRemove(c)
      BY <2>2, <2>4 DEF StopRemove
    <3>2. Leave(c)
      BY <2>2, <2>4, <3>1 DEF StopPurge, StopCancel, WaitingStates
    <3>3. rpc'[c] = "stopping"
      BY <3>2 DEF Leave, Typed, ReaderTyped
    <3> QED
      BY <2>2, <2>4, <3>3 DEF WaitingStates
  <2> QED
    BY <2>3, <2>4
<1>9. TakenOk'
  <2> SUFFICES ASSUME NEW id \in ResultIds'
               PROVE  \E x \in Clients : id \in Ids(x) /\ rpc'[x] \in {"receiving", "stopping", "purging"}
    BY <1>2 DEF TakenOk
  <2>1. PICK x \in Clients : id \in Ids(x) /\ rpc[x] \in {"receiving", "stopping", "purging"}
    BY <1>5 DEF Counted, TakenOk
  <2>2. CASE x # c
    BY <1>3, <2>1, <2>2
  <2>3. CASE x = c
    <3>1. ~StopPurge(c)
      <4> SUFFICES ASSUME StopPurge(c)
                   PROVE  FALSE
        OBVIOUS
      <4>1. queue_results' = Without(queue_results, Ids(c))
        BY DEF StopPurge
      <4>2. PICK k \in DOMAIN queue_results' : queue_results'[k].id = id
        BY DEF ResultIds
      <4>3. \A j \in DOMAIN Without(queue_results, Ids(c)) :
               \E i \in DOMAIN queue_results :
                  Without(queue_results, Ids(c))[j] = queue_results[i] /\ queue_results[i].id \notin Ids(c)
        BY WithoutLemma DEF Typed, ResultTyped
      <4> QED
        BY <2>1, <2>3, <4>1, <4>2, <4>3
    <3>2. rpc'[c] \in {"stopping", "purging"}
      BY <2>1, <2>3, <3>1 DEF StopRemove, StopCancel, Leave, Typed, ReaderTyped
    <3> QED
      BY <2>1, <2>3, <3>2
  <2> QED
    BY <2>2, <2>3
<1> QED
  BY <1>7, <1>8, <1>9 DEF Counted

LEMMA CountedStep ==
    ASSUME Typed, Typed', Numbered, Owned, LastResult, Counted, [Next]_vars
    PROVE  Counted'
<1>1. CASE UNCHANGED vars
  <2>1. /\ Live' = Live
        /\ UNCHANGED <<queue_results, waiting_task_ids, rpc, tasks, received_count>>
    BY <1>1, VarsUnchanged
  <2>2. ResultIds' = ResultIds /\ \A x : Ids(x)' = Ids(x)
    BY <2>1 DEF ResultIds, Ids
  <2>3. \A x : Outstanding(x)' = Outstanding(x)
    BY <2>1, <2>2 DEF Outstanding
  <2> QED
    BY <2>1, <2>2, <2>3 DEF Counted, WaitingOk, TakenOk, CountOk
<1>2. CASE ProcessStep \/ UpdateStep
  BY <1>2, LiveProcess, LiveUpdate, CountedMain
<1> QED
  BY <1>1, <1>2, CountedAdd, CountedPost, CountedReceive, CountedStop DEF Next, ReaderStep

LEMMA CountedInit == Init => Counted
<1> SUFFICES ASSUME Init
             PROVE  Counted
  OBVIOUS
<1>1. WaitingOk /\ TakenOk
  BY DEF Init, WaitingOk, TakenOk, ResultIds
<1> QED
  BY <1>1 DEF Init, Counted, CountOk

\* Every result in the queue has a reader that will take it or purge it.
THEOREM NoOrphanResultHolds == Spec => []NoOrphanResult
<1>1. Counted => NoOrphanResult
  BY DEF Counted, TakenOk, ResultIds, NoOrphanResult
<1>2. Init => LastResult
  BY DEF Init, LastResult
<1> QED
  BY <1>1, <1>2, TypedInit, TypedStep, OwnedInit, NumberedStep, OwnedStep, LastStep,
     CountedInit, CountedStep, PTL DEF Spec

\* A reader that has counted all its results has them from all its tasks.
THEOREM FinishedIsCompleteHolds == Spec => []FinishedIsComplete
<1>1. Typed /\ Owned /\ Counted => FinishedIsComplete
  <2> SUFFICES ASSUME Typed, Owned, Counted, NEW c \in Clients, rpc[c] = "finishing",
                      NEW id \in Ids(c)
               PROVE  Ended(id)
    BY DEF FinishedIsComplete
  <2>1. Outstanding(c) = {}
    BY NothingLeft DEF Counted
  <2>2. id \notin Live
    BY <2>1 DEF Outstanding
  <2> QED
    BY <2>2, EndedLemma
<1>2. Init => LastResult
  BY DEF Init, LastResult
<1> QED
  BY <1>1, <1>2, TypedInit, TypedStep, OwnedInit, NumberedStep, OwnedStep, LastStep,
     CountedInit, CountedStep, PTL DEF Spec

-----------------------------------------------------------------------------
(***************************************************************************)
(* The scheduler implements TaskLifecycle.  A task in a queue or in hand   *)
(* is the one its client made, so a parent is launched with all the        *)
(* children it was posted with.                                            *)
(***************************************************************************)
Elems(q) == {q[i] : i \in DOMAIN q}
Held     == (Elems(queue_tasks) \cup Elems(queue_tasks_deferred)
               \cup (IF mainpc = "process" THEN {cur} ELSE {})) \cap Root
Made(t)  == t.id[2] \in DOMAIN tasks[t.id[1]] /\ tasks[t.id[1]][t.id[2]] = t
Origin   == \A t \in Held : Made(t)

LEMMA ElemsConcat ==
    ASSUME NEW S, NEW p \in Seq(S), NEW q \in Seq(S)
    PROVE  Elems(p \o q) \subseteq Elems(p) \cup Elems(q)
<1> DEFINE r == p \o q
<1>1. /\ Len(p) \in Nat /\ Len(q) \in Nat
      /\ DOMAIN p = 1 .. Len(p) /\ DOMAIN q = 1 .. Len(q)
  BY LenProperties
<1>2. /\ r \in Seq(S) /\ Len(r) = Len(p) + Len(q)
      /\ \A i \in 1 .. Len(p) + Len(q) : r[i] = IF i <= Len(p) THEN p[i] ELSE q[i - Len(p)]
  BY ConcatProperties
<1>3. DOMAIN r = 1 .. Len(p) + Len(q)
  BY <1>2, LenProperties
<1> HIDE DEF r
<1>4. \A i \in DOMAIN r : \/ i \in DOMAIN p /\ r[i] = p[i]
                          \/ i - Len(p) \in DOMAIN q /\ r[i] = q[i - Len(p)]
  BY <1>1, <1>2, <1>3
<1>5. Elems(r) \subseteq Elems(p) \cup Elems(q)
  BY <1>4 DEF Elems
<1> QED
  BY <1>5 DEF r

LEMMA ElemsSingle == \A t : Elems(<<t>>) = {t}
  BY DEF Elems

LEMMA ElemsThinned ==
    \A q, p : Thinned(q, p) => Elems(p) \subseteq Elems(q)
  BY DEF Thinned, Elems

LEMMA ElemsOrders == \A q \in Seq(Control) : Elems(q) \cap Root = {}
<1>1. Control \cap Root = {}
  BY JobFields, RootJob
<1>2. ASSUME NEW q \in Seq(Control)
      PROVE  Elems(q) \subseteq Control
  BY ElementOfSeq, LenProperties DEF Elems
<1> QED
  BY <1>1, <1>2

LEMMA ElemsPopDeferred ==
    ASSUME QueueTyped, NEW s, PopDeferred(s)
    PROVE  /\ Elems(queue_tasks') \subseteq Elems(queue_tasks) \cup Elems(queue_tasks_deferred)
           /\ Elems(queue_tasks_deferred') \subseteq Elems(queue_tasks_deferred)
<1>1. CASE UNCHANGED queueVars
  BY <1>1 DEF queueVars
<1>2. ASSUME NEW k \in DOMAIN queue_tasks_deferred,
             queue_tasks' = <<queue_tasks_deferred[k]>> \o queue_tasks,
             queue_tasks_deferred' =
                SubSeq(queue_tasks_deferred, 1, k - 1)
                   \o SubSeq(queue_tasks_deferred, k + 1, Len(queue_tasks_deferred))
      PROVE  /\ Elems(queue_tasks') \subseteq Elems(queue_tasks) \cup Elems(queue_tasks_deferred)
             /\ Elems(queue_tasks_deferred') \subseteq Elems(queue_tasks_deferred)
  <2>1. Elems(queue_tasks_deferred') \subseteq Elems(queue_tasks_deferred)
    BY <1>2, ThinnedCut, ElemsThinned DEF QueueTyped
  <2>2. queue_tasks_deferred[k] \in Root \cup Control
    BY <1>2, ElementOfSeq, LenProperties DEF QueueTyped
  <2>3. <<queue_tasks_deferred[k]>> \in Seq(Root \cup Control)
    BY <2>2
  <2>4. Elems(queue_tasks') \subseteq Elems(<<queue_tasks_deferred[k]>>) \cup Elems(queue_tasks)
    BY <1>2, <2>3, ElemsConcat DEF QueueTyped
  <2>5. queue_tasks_deferred[k] \in Elems(queue_tasks_deferred)
    BY <1>2 DEF Elems
  <2> QED
    BY <2>1, <2>4, <2>5, ElemsSingle
<1> QED
  BY <1>1, <1>2, PopDeferredLemma

\* The main thread moves tasks, it makes none.
LEMMA HeldMain == Typed /\ (ProcessStep \/ UpdateStep) => Held' \subseteq Held
<1> SUFFICES ASSUME Typed, ProcessStep \/ UpdateStep
             PROVE  Held' \subseteq Held
  OBVIOUS
<1>1. CASE PopTask
  <2>1. /\ queue_tasks # <<>> /\ cur' = Head(queue_tasks)
        /\ queue_tasks' = Tail(queue_tasks) /\ UNCHANGED queue_tasks_deferred
    BY <1>1 DEF PopTask
  <2>2. /\ Tail(queue_tasks) \in Seq(Root \cup Control)
        /\ Len(Tail(queue_tasks)) = Len(queue_tasks) - 1
        /\ \A i \in 1 .. Len(Tail(queue_tasks)) : Tail(queue_tasks)[i] = queue_tasks[i + 1]
    BY <2>1, HeadTailProperties DEF Typed, QueueTyped
  <2>3. Len(queue_tasks) \in Nat \ {0} /\ DOMAIN queue_tasks = 1 .. Len(queue_tasks)
        /\ Head(queue_tasks) = queue_tasks[1]
    BY <2>1, LenProperties, EmptySeq DEF Typed, QueueTyped
  <2>4. DOMAIN Tail(queue_tasks) = 1 .. Len(queue_tasks) - 1
    BY <2>2, LenProperties
  <2>5. Head(queue_tasks) \in Elems(queue_tasks)
    <3>1. 1 \in DOMAIN queue_tasks
      BY <2>3
    <3> QED
      BY <2>3, <3>1 DEF Elems
  <2>6. Elems(Tail(queue_tasks)) \subseteq Elems(queue_tasks)
    <3>1. \A i \in DOMAIN Tail(queue_tasks) :
             i + 1 \in DOMAIN queue_tasks /\ Tail(queue_tasks)[i] = queue_tasks[i + 1]
      BY <2>2, <2>3, <2>4
    <3> QED
      BY <3>1 DEF Elems
  <2> QED
    BY <2>1, <2>5, <2>6 DEF Held
<1>2. CASE DeferCompletion \/ DeferSlotAction
  <2>1. /\ mainpc = "process" /\ mainpc' = "drain" /\ queue_tasks' = queue_tasks
        /\ queue_tasks_deferred' = Append(queue_tasks_deferred, cur)
        /\ cur.type \in ReaderTypes
    BY <1>2 DEF DeferCompletion, DeferSlotAction, IsCompletion, Defer, BackToDrain, ReaderTypes
  <2>2. cur \in Root
    BY <2>1, JobFields DEF Typed, LoopTyped, ReaderTypes, CompletionTypes
  <2>3. queue_tasks_deferred' = queue_tasks_deferred \o <<cur>> /\ <<cur>> \in Seq(Root)
    BY <2>1, <2>2, AppendIsConcat DEF Typed, QueueTyped
  <2>4. Elems(queue_tasks_deferred') \subseteq Elems(queue_tasks_deferred) \cup Elems(<<cur>>)
    BY <2>3, ElemsConcat DEF Typed, QueueTyped
  <2> QED
    BY <2>1, <2>4, ElemsSingle DEF Held
<1>3. ASSUME UNCHANGED queueVars \/ \E s : PopDeferred(s),
             mainpc' = "process" => mainpc = "process" /\ cur' = cur
      PROVE  Held' \subseteq Held
  <2>1. /\ Elems(queue_tasks') \subseteq Elems(queue_tasks) \cup Elems(queue_tasks_deferred)
        /\ Elems(queue_tasks_deferred') \subseteq Elems(queue_tasks_deferred)
    BY <1>3, ElemsPopDeferred DEF queueVars, Typed
  <2> QED
    BY <1>3, <2>1 DEF Held
<1>4. CASE UpdateBegin
  <2>1. /\ queue_tasks' = Append(queue_tasks, NextResponse) /\ UNCHANGED queue_tasks_deferred
        /\ mainpc' = "shift"
    BY <1>4 DEF UpdateBegin
  <2>2. queue_tasks' = queue_tasks \o <<NextResponse>>
    BY <2>1, AppendIsConcat DEF Typed, QueueTyped
  <2>3. <<NextResponse>> \in Seq(Control) /\ <<NextResponse>> \in Seq(Root \cup Control)
    BY OrdersTyped
  <2>4. Elems(queue_tasks') \subseteq Elems(queue_tasks) \cup Elems(<<NextResponse>>)
    BY <2>2, <2>3, ElemsConcat DEF Typed, QueueTyped
  <2>5. Elems(<<NextResponse>>) \cap Root = {}
    BY <2>3, ElemsOrders
  <2> QED
    BY <2>1, <2>4, <2>5 DEF Held
<1>5. CASE ProcessStep /\ ~PopTask /\ ~DeferCompletion /\ ~DeferSlotAction
  <2>1. UNCHANGED queueVars \/ \E s : PopDeferred(s)
    BY <1>5 DEF ProcessStep, DrainDone, WaitForTasks, Launch, LaunchFails, Unlaunch, UnlaunchDone,
       ProcessCancel, ProcessNextResponse, ProcessMetrics, ProcessSlotAction, Release
  <2>2. mainpc' # "process"
    BY <1>5 DEF ProcessStep, DrainDone, WaitForTasks, Launch, LaunchFails, Unlaunch, UnlaunchDone,
       ProcessCancel, ProcessNextResponse, ProcessMetrics, ProcessSlotAction, BackToDrain
  <2> QED
    BY <1>3, <2>1, <2>2
<1>6. CASE UpdateStep /\ ~UpdateBegin
  <2>1. UNCHANGED queueVars \/ \E s : PopDeferred(s)
    BY <1>6 DEF UpdateStep, UpdateIdle, ShiftError, ShiftDone, PromptSkip, PromptAdd, PromptEnds,
       PromptDone, DecodeOk, DecodeFails, FailSlot, SampleEnds, SampleContinues, UpdateDone,
       ReleaseSlot, Release, SendAndStop
  <2>2. mainpc' # "process"
    BY <1>6, ReleaseLoops DEF UpdateStep, UpdateIdle, ShiftError, ShiftDone, PromptSkip, PromptAdd,
       PromptEnds, PromptDone, DecodeOk, DecodeFails, FailSlot, SampleEnds, SampleContinues,
       UpdateDone, ReleaseSlot, SendAndStop
  <2> QED
    BY <1>3, <2>1, <2>2
<1> QED
  BY <1>1, <1>2, <1>4, <1>5, <1>6

LEMMA HeldReader ==
    ASSUME Typed, NEW c \in Clients, AddWaiting(c) \/ ReaderStep(c) \/ Leave(c)
    PROVE  Held' \subseteq Held \cup Elems(tasks[c]) /\ (~PostTasks(c) => Held' \subseteq Held)
<1>1. UNCHANGED <<mainpc, cur>>
  BY DEF AddWaiting, ReaderStep, PostTasks, Receive, StopRemove, StopPurge, StopCancel, Leave, loopVars
<1>2. CASE PostTasks(c)
  <2>1. tasks[c] \in Seq(Root \cup Control)
    BY DEF Typed, ReaderTyped
  <2>2. /\ queue_tasks' = tasks[c] \o queue_tasks \/ queue_tasks' = queue_tasks \o tasks[c]
        /\ UNCHANGED queue_tasks_deferred
    BY <1>2 DEF PostTasks
  <2>3. Elems(queue_tasks') \subseteq Elems(queue_tasks) \cup Elems(tasks[c])
    BY <2>1, <2>2, ElemsConcat DEF Typed, QueueTyped
  <2> QED
    BY <1>1, <1>2, <2>2, <2>3 DEF Held
<1>3. CASE StopCancel(c)
  <2>1. PICK order \in Orders(Ids(c)) :
           queue_tasks' = [i \in DOMAIN order |-> CancelTask(order[i])] \o Without(queue_tasks, Ids(c))
    BY <1>3 DEF StopCancel
  <2> DEFINE cancels == [i \in DOMAIN order |-> CancelTask(order[i])]
             rest == Without(queue_tasks, Ids(c))
  <2>2. Ids(c) \in SUBSET Id /\ Cardinality(Ids(c)) \in Nat
    BY IdsLemma DEF Typed, ReaderTyped, Ids
  <2>3. cancels \in Seq(Control) /\ cancels \in Seq(Root \cup Control)
    BY <2>2, CancelsTyped
  <2>4. rest \in Seq(Root \cup Control)
    BY WithoutLemma DEF Typed, QueueTyped
  <2> HIDE DEF cancels
  <2>5. Elems(cancels) \cap Root = {}
    BY <2>3, ElemsOrders
  <2>6. Elems(rest) \subseteq Elems(queue_tasks)
    BY ThinnedWithout, ElemsThinned DEF Typed, QueueTyped
  <2>7. Elems(cancels \o rest) \subseteq Elems(cancels) \cup Elems(rest)
    BY <2>3, <2>4, ElemsConcat
  <2>8. queue_tasks' = cancels \o rest /\ queue_tasks_deferred' = Without(queue_tasks_deferred, Ids(c))
    BY <1>3, <2>1 DEF StopCancel, cancels
  <2>9. Elems(queue_tasks_deferred') \subseteq Elems(queue_tasks_deferred)
    BY <2>8, ThinnedWithout, ElemsThinned DEF Typed, QueueTyped
  <2> HIDE DEF rest
  <2> QED
    BY <1>1, <2>5, <2>6, <2>7, <2>8, <2>9 DEF Held
<1>4. CASE ~PostTasks(c) /\ ~StopCancel(c)
  <2>1. UNCHANGED queueVars
    BY <1>4 DEF AddWaiting, ReaderStep, Receive, StopRemove, StopPurge, Leave
  <2> QED
    BY <1>1, <2>1 DEF Held, queueVars
<1> QED
  BY <1>2, <1>3, <1>4

LEMMA OriginStep == Typed /\ Numbered /\ Origin /\ [Next]_vars => Origin'
<1> SUFFICES ASSUME Typed, Numbered, Origin, [Next]_vars
             PROVE  Origin'
  OBVIOUS
<1>1. ASSUME Held' \subseteq Held, UNCHANGED tasks
      PROVE  Origin'
  BY <1>1 DEF Origin, Made
<1>2. CASE ProcessStep \/ UpdateStep
  <2>1. ProcessStep => UNCHANGED tasks
    BY DEF ProcessStep, PopTask, DrainDone, WaitForTasks, DeferCompletion, Launch, LaunchFails,
       Unlaunch, UnlaunchDone, ProcessCancel, ProcessNextResponse, ProcessMetrics,
       DeferSlotAction, ProcessSlotAction, readerVars
  <2>2. UpdateStep => UNCHANGED tasks
    BY DEF UpdateStep, UpdateIdle, UpdateBegin, ShiftError, ShiftDone, PromptSkip,
       PromptAdd, PromptEnds, PromptDone, DecodeOk, DecodeFails, FailSlot, SampleEnds,
       SampleContinues, UpdateDone, ReleaseSlot, SendAndStop, readerVars
  <2> QED
    BY <1>1, <1>2, <2>1, <2>2, HeldMain
<1>3. ASSUME NEW c \in Clients, PostTasks(c)
      PROVE  Origin'
  <2>1. UNCHANGED tasks /\ Held' \subseteq Held \cup Elems(tasks[c])
    BY <1>3, HeldReader DEF PostTasks, ReaderStep
  <2>2. \A t \in Elems(tasks[c]) : Made(t)
    <3> SUFFICES ASSUME NEW i \in DOMAIN tasks[c]
                 PROVE  Made(tasks[c][i])
      BY DEF Elems
    <3>1. tasks[c][i].id = <<c, i, 0>>
      BY DEF Numbered
    <3> QED
      BY <3>1 DEF Made
  <2> QED
    BY <2>1, <2>2 DEF Origin, Made
<1>4. ASSUME NEW c \in Clients, AddWaiting(c)
      PROVE  Origin'
  <2>1. /\ rpc[c] = "idle" /\ Held' \subseteq Held /\ \E new : tasks' = [tasks EXCEPT ![c] = new]
    BY <1>4, HeldReader DEF AddWaiting, PostTasks
  <2>2. ASSUME NEW t \in Held
        PROVE  Made(t)'
    <3>1. t \in Job /\ t.id[1] \in Clients
      BY RootJob, JobFields, IdFields DEF Held
    <3>2. Made(t)
      BY DEF Origin
    <3>3. t.id[1] # c
      BY <2>1, <3>2 DEF Numbered, Made
    <3>4. tasks'[t.id[1]] = tasks[t.id[1]]
      BY <2>1, <3>1, <3>3 DEF Typed, ReaderTyped
    <3> QED
      BY <3>2, <3>4 DEF Made
  <2> QED
    BY <2>1, <2>2 DEF Origin
<1>5. ASSUME NEW c \in Clients, ReaderStep(c) \/ Leave(c), ~PostTasks(c)
      PROVE  Origin'
  <2>1. UNCHANGED tasks
    BY <1>5 DEF ReaderStep, Receive, StopRemove, StopPurge, StopCancel, Leave
  <2> QED
    BY <1>1, <1>5, <2>1, HeldReader
<1>6. CASE UNCHANGED vars
  BY <1>1, <1>6 DEF vars, queueVars, loopVars, readerVars, Held
<1> QED
  BY <1>2, <1>3, <1>4, <1>5, <1>6 DEF Next

\* The life of a task, by where it is.
StatusIs ==
    \A id \in PossibleIds :
       StatusOf(id) = CASE id \notin Posted -> "new"
                        [] id \in Posted /\ id \in OnSlots -> "running"
                        [] id \in Posted /\ id \notin OnSlots /\ id \in Pending -> "pending"
                        [] OTHER -> "gone"

LEMMA PossibleTyped == PossibleIds \subseteq Id
<1>1. ASSUME NEW c \in Clients, NEW ts \in Templates
      PROVE  IdsOf([i \in DOMAIN ts |-> MakeTask(c, i, ts[i])]) \subseteq Id
  <2>1. [i \in DOMAIN ts |-> MakeTask(c, i, ts[i])] \in Seq(Root)
    BY MakeTyped
  <2> QED
    BY <2>1, IdsLemma
<1> DEFINE made(c, ts) == IdsOf([i \in DOMAIN ts |-> MakeTask(c, i, ts[i])])
<1>2. PossibleIds = UNION {made(c, ts) : c \in Clients, ts \in Templates}
  BY DEF PossibleIds
<1>3. \A c \in Clients : \A ts \in Templates : made(c, ts) \subseteq Id
  BY <1>1
<1> HIDE DEF made
<1> QED
  BY <1>2, <1>3

LEMMA StatusLemma == Typed /\ Numbered /\ Owned => StatusIs
<1> SUFFICES ASSUME Typed, Numbered, Owned, NEW id \in PossibleIds
             PROVE  StatusOf(id) = CASE id \notin Posted -> "new"
                        [] id \in Posted /\ id \in OnSlots -> "running"
                        [] id \in Posted /\ id \notin OnSlots /\ id \in Pending -> "pending"
                        [] OTHER -> "gone"
  BY DEF StatusIs
<1> DEFINE c == id[1]
<1>1. c \in Clients
  BY PossibleTyped, IdFields
<1>2. id \in Posted <=> id \in Ids(c) /\ rpc[c] # "posting"
  <2>1. \A y \in Clients : \A i \in Ids(y) : i[1] = y
    BY InTasks
  <2>2. id \in Ids(c) => rpc[c] # "idle"
    <3>1. rpc[c] = "idle" => Ids(c) = {}
      BY <1>1 DEF Numbered, Ids, IdsOf
    <3> QED
      BY <3>1
  <2>3. id \in Posted <=> \E y \in Clients : rpc[y] \notin {"idle", "posting"} /\ id \in Ids(y)
    BY DEF Posted
  <2> QED
    BY <1>1, <2>1, <2>2, <2>3
<1>3. id \in OnSlots <=> SlotsOf(id) # {}
  BY DEF OnSlots, SlotsOf, Busy
<1>4. id \in Pending <=> IsPending(id)
  <2>1. \A q : PlacesIn(q, id) # {} <=> id \in In(q)
    BY InMember DEF PlacesIn, Fam
  <2>2. InHand(id) <=> id \in Hand
    BY DEF InHand, Hand, Fam
  <2> QED
    BY <2>1, <2>2 DEF IsPending, Pending
<1> HIDE DEF c
<1>5. StatusOf(id) = CASE id \notin Ids(c) \/ rpc[c] = "posting" -> "new"
                       [] SlotsOf(id) # {} -> "running"
                       [] SlotsOf(id) = {} /\ IsPending(id) -> "pending"
                       [] OTHER -> "gone"
  BY DEF StatusOf, c
<1> DEFINE new == id \notin Ids(c) \/ rpc[c] = "posting"
           onSlot == SlotsOf(id) # {}
           waiting == IsPending(id)
<1>6. /\ new <=> id \notin Posted
      /\ onSlot <=> id \in OnSlots
      /\ waiting <=> id \in Pending
  BY <1>2, <1>3, <1>4
<1>7. id \notin (Pending \cap OnSlots) /\ (id \in Pending \cup OnSlots => id \in Posted)
  BY DEF Owned, SlotsApart
<1> HIDE DEF new, onSlot, waiting
<1>8. StatusOf(id) = CASE new -> "new" [] onSlot -> "running"
                       [] ~onSlot /\ waiting -> "pending" [] OTHER -> "gone"
  BY <1>5 DEF new, onSlot, waiting
<1>9. CASE new
  <2>1. ~onSlot /\ ~waiting
    BY <1>6, <1>7, <1>9
  <2>2. StatusOf(id) = "new"
    BY <1>8, <1>9, <2>1
  <2> QED
    BY <1>6, <1>9, <2>2
<1>10. CASE ~new
  <2>1. StatusOf(id) = CASE onSlot -> "running" [] ~onSlot /\ waiting -> "pending" [] OTHER -> "gone"
    BY <1>8, <1>10
  <2> QED
    BY <1>6, <1>10, <2>1
<1> QED
  BY <1>9, <1>10

\* Launching cur on s with all its children puts its whole family on slots.
LEMMA LaunchAll ==
    ASSUME Typed, cur \in Root, NEW s \in IdleSlots, EnoughSlots,
           LaunchChildren(s, cur.kids, "started", cur)
    PROVE  Family(cur) \subseteq OnSlots'
<1> SUFFICES ASSUME NEW k \in 0 .. cur.kids
             PROVE  <<cur.id[1], cur.id[2], k>> \in OnSlots'
  BY DEF Family
<1>0. s \in Slots /\ cur.kids \in Nat
  BY SlotFacts, RootJob, JobFields
<1>1. CASE k = 0
  <2>1. slot_state'[s] = "started" /\ slot_task'[s] = cur
    BY <1>0 DEF LaunchChildren, ChildSlots
  <2>2. cur.id \in OnSlots'
    BY <1>0, <2>1 DEF OnSlots, Busy, IsProcessing, Idle
  <2>3. cur.id = <<cur.id[1], cur.id[2], 0>>
    BY RootJob, JobFields, IdFields
  <2> QED
    BY <1>1, <2>2, <2>3
<1>2. CASE k # 0
  <2> DEFINE K == IdleSlots \ {s}
  <2>1. K \in SUBSET Nat /\ IsFiniteSet(K) /\ IsFiniteSet(IdleSlots)
    BY SlotFacts, FS_Subset
  <2>2. Cardinality(K) = Cardinality(IdleSlots) - 1
    BY <2>1, FS_RemoveElement
  <2>3. Cardinality(K) \in Nat /\ Cardinality(IdleSlots) \in Nat
    BY <2>1, FS_CardinalityType
  <2>4. k \in 1 .. Cardinality(K)
    BY <1>0, <1>2, <2>2, <2>3 DEF EnoughSlots
  <2> HIDE DEF K
  <2>5. PICK x \in K : RankIn(K, x) = k
    BY <2>1, <2>4, RankLemma
  <2>6. x \in ChildSlots(s, cur.kids) /\ x \in Slots /\ x # s /\ Rank(s, x) = k
    BY <1>0, <2>5, SlotFacts DEF K, ChildSlots, Rank
  <2>7. slot_state'[x] = "wait_other" /\ slot_task'[x] = ChildTask(cur, k)
    BY <2>6 DEF LaunchChildren
  <2>8. ChildTask(cur, k).id = <<cur.id[1], cur.id[2], k>>
    <3>1. k \in Nat /\ cur \in Job
      BY RootJob
    <3> QED
      BY <3>1, ChildTyped
  <2> QED
    BY <2>6, <2>7, <2>8 DEF OnSlots, Busy, IsProcessing, Idle
<1> QED
  BY <1>1, <1>2

\* A parent starts with all the children it was posted with.
LEMMA StartsWhole ==
    ASSUME Typed, Numbered, Owned, Origin, [Next]_vars,
           NEW id \in OnSlots', id \notin OnSlots, id[3] = 0,
           NEW kid \in Posted \cap Id, Parent(kid) = id
    PROVE  kid \in OnSlots'
<1>1. CASE UNCHANGED vars \/ UpdateStep \/ \E c \in Clients : AddWaiting(c) \/ ReaderStep(c) \/ Leave(c)
  <2>1. SlotsKept
    <3>1. CASE UpdateStep
      BY <3>1, UpdateSlots DEF SlotsKept
    <3>2. CASE UNCHANGED vars \/ \E c \in Clients : AddWaiting(c) \/ ReaderStep(c) \/ Leave(c)
      <4>1. UNCHANGED slotVars
        BY <3>2 DEF vars, AddWaiting, ReaderStep, PostTasks, Receive, StopRemove, StopPurge, StopCancel, Leave
      <4> QED
        BY <4>1, SlotsKeptUnchanged
    <3> QED
      BY <1>1, <3>1, <3>2
  <2>2. OnSlots' \subseteq OnSlots
    BY <2>1 DEF SlotsKept, OnSlots, Busy
  <2> QED
    BY <2>2
<1>2. CASE ProcessStep
  <2>a. mainpc = "process" /\ cur.type \in ReaderTypes => cur \in Root
    BY JobFields DEF Typed, LoopTyped, ReaderTypes, CompletionTypes
  <2>1. ASSUME NEW s \in Slots, Launch(s)
        PROVE  kid \in OnSlots'
    <3>1. /\ LaunchChildren(s, cur.kids, "started", cur) /\ EnoughSlots
          /\ mainpc = "process" /\ cur \in Root /\ s \in IdleSlots
      BY <2>1, <2>a DEF Launch, IsCompletion, Candidates, ReaderTypes
    <3>2. cur.kids \in 0 .. cur.kids /\ cur \in Job
      BY <3>1, RootJob, JobFields
    <3>3. id = cur.id
      <4>1. PICK x \in Slots : IsProcessing(x)' /\ slot_task'[x].id = id
        BY DEF OnSlots, Busy
      <4>2. \A y \in Slots : IsProcessing(y)' =>
              \/ y = s /\ "started" # "idle" /\ slot_task'[y].id = cur.id
              \/ /\ y \in IdleSlots \ {s} /\ Rank(s, y) <= cur.kids
                 /\ slot_task'[y].id = <<cur.id[1], cur.id[2], Rank(s, y)>>
              \/ IsProcessing(y) /\ slot_task'[y] = slot_task[y]
        BY <3>1, <3>2, LaunchSlots DEF Typed
      <4>3. ~(IsProcessing(x) /\ slot_task'[x] = slot_task[x])
        BY <4>1 DEF OnSlots, Busy
      <4>4. ~(x \in IdleSlots \ {s} /\ slot_task'[x].id = <<cur.id[1], cur.id[2], Rank(s, x)>>)
        BY <4>1, RankTyped
      <4> QED
        BY <4>1, <4>2, <4>3, <4>4
    <3>4. cur \in Held
      BY <3>1 DEF Held
    <3>5. cur.id[2] \in DOMAIN tasks[cur.id[1]] /\ tasks[cur.id[1]][cur.id[2]] = cur
      BY <3>4 DEF Origin, Made
    <3>6. kid[1] = cur.id[1] /\ kid[2] = cur.id[2]
      BY <3>3 DEF Parent
    <3>7. PICK c \in Clients : kid \in Ids(c)
      BY DEF Posted
    <3>8. kid[1] = c
      BY <3>7, InTasks
    <3>9. PICK i \in DOMAIN tasks[c] : kid \in Family(tasks[c][i])
      BY <3>7 DEF Ids, IdsOf
    <3>10. tasks[c][i] \in Job /\ tasks[c][i].id = <<c, i, 0>>
      BY ElementOfSeq, LenProperties, RootJob DEF Typed, ReaderTyped, Numbered
    <3>11. kid[2] = i
      BY <3>9, <3>10, FamilyLemma
    <3>12. kid \in Family(cur)
      BY <3>5, <3>6, <3>8, <3>9, <3>11
    <3> QED
      BY <3>1, <3>12, LaunchAll
  <2>2. ASSUME NEW s \in Slots, NEW n \in 0 .. NSlots - 1, LaunchFails(s, n)
        PROVE  FALSE
    <3>1. /\ LaunchChildren(s, n, "idle", NoTask) /\ n <= cur.kids
          /\ cur \in Root /\ s \in IdleSlots
      BY <2>2, <2>a DEF LaunchFails, IsCompletion, Candidates, ReaderTypes
    <3>2. n \in 0 .. cur.kids
      BY <3>1, RootJob, JobFields
    <3>3. PICK x \in Slots : IsProcessing(x)' /\ slot_task'[x].id = id
      BY DEF OnSlots, Busy
    <3>4. \A y \in Slots : IsProcessing(y)' =>
              \/ y = s /\ "idle" # "idle" /\ slot_task'[y].id = cur.id
              \/ /\ y \in IdleSlots \ {s} /\ Rank(s, y) <= n
                 /\ slot_task'[y].id = <<cur.id[1], cur.id[2], Rank(s, y)>>
              \/ IsProcessing(y) /\ slot_task'[y] = slot_task[y]
      BY <3>1, <3>2, LaunchSlots DEF Typed
    <3>5. ~(IsProcessing(x) /\ slot_task'[x] = slot_task[x])
      BY <3>3 DEF OnSlots, Busy
    <3>6. ~(x \in IdleSlots \ {s} /\ slot_task'[x].id = <<cur.id[1], cur.id[2], Rank(s, x)>>)
      BY <3>3, RankTyped
    <3> QED
      BY <3>3, <3>4, <3>5, <3>6
  <2>3. CASE /\ ~\E s \in Slots : Launch(s)
             /\ ~\E s \in Slots : \E n \in 0 .. NSlots - 1 : LaunchFails(s, n)
    <3>1. SlotsKept
      <4>1. CASE UNCHANGED slotVars
        BY <4>1, SlotsKeptUnchanged
      <4>2. ASSUME NEW s, slot_state' = [slot_state EXCEPT ![s] = "idle"],
                   slot_task' = [slot_task EXCEPT ![s] = NoTask]
            PROVE  SlotsKept
        BY <4>2 DEF SlotsKept, IsProcessing, Idle, Typed, SlotTyped
      <4>3. UNCHANGED slotVars \/ \E s : Release(s)
        BY <1>2, <2>3 DEF ProcessStep, PopTask, DrainDone, WaitForTasks, DeferCompletion, Unlaunch,
           UnlaunchDone, ProcessCancel, ProcessNextResponse, ProcessMetrics, DeferSlotAction,
           ProcessSlotAction
      <4> QED
        BY <4>1, <4>2, <4>3 DEF Release
    <3>2. OnSlots' \subseteq OnSlots
      BY <3>1 DEF SlotsKept, OnSlots, Busy
    <3> QED
      BY <3>2
  <2> QED
    BY <2>1, <2>2, <2>3
<1> QED
  BY <1>1, <1>2 DEF Next

\* What a step does to the places of posted tasks.
LEMMA StepMoves ==
    ASSUME Typed, Numbered, Owned, [Next]_vars
    PROVE  /\ Posted \subseteq Posted'
           /\ Pending' \cap Posted \subseteq Pending
           /\ OnSlots' \subseteq OnSlots \cup Pending
           /\ Posted' \ Posted \subseteq Pending'
<1>1. CASE ProcessStep \/ UpdateStep
  <2>1. OwnedEffect
    BY <1>1, OwnedProcess, OwnedUpdate
  <2>2. UNCHANGED readerVars
    <3>1. MainEffect
      BY <1>1, LiveProcess, LiveUpdate
    <3> QED
      BY <3>1 DEF MainEffect
  <2>3. Posted' = Posted
    BY <2>2 DEF readerVars, Posted, Ids
  <2> QED
    BY <2>1, <2>3 DEF OwnedEffect, Pending
<1>2. ASSUME NEW c \in Clients, PostTasks(c)
      PROVE  /\ Posted \subseteq Posted'
             /\ Pending' \cap Posted \subseteq Pending
             /\ OnSlots' \subseteq OnSlots \cup Pending
             /\ Posted' \ Posted \subseteq Pending'
  BY <1>2, OwnedPost, NotPosted
<1>3. ASSUME NEW c \in Clients, AddWaiting(c) \/ ReaderStep(c) \/ Leave(c), ~PostTasks(c)
      PROVE  /\ Pending' \subseteq Pending /\ OnSlots' \subseteq OnSlots /\ Posted' = Posted
  <2>1. Pending' \subseteq Pending /\ OnSlots' \subseteq OnSlots
    BY <1>3, OwnedReader DEF ReaderStep
  <2>2. ASSUME NEW x \in Clients
        PROVE  /\ rpc'[x] \in {"idle", "posting"} <=> rpc[x] \in {"idle", "posting"}
               /\ rpc[x] \notin {"idle", "posting"} => Ids(x)' = Ids(x)
    <3>1. CASE AddWaiting(c)
      <4>1. /\ rpc[c] = "idle" /\ rpc' = [rpc EXCEPT ![c] = "posting"]
            /\ \E new : tasks' = [tasks EXCEPT ![c] = new]
        BY <3>1 DEF AddWaiting
      <4>2. /\ x # c => rpc'[x] = rpc[x] /\ tasks'[x] = tasks[x]
            /\ x = c => rpc'[x] = "posting"
        BY <4>1 DEF Typed, ReaderTyped
      <4> QED
        BY <4>1, <4>2 DEF Ids
    <3>2. CASE ~AddWaiting(c)
      <4>1. /\ UNCHANGED tasks /\ rpc[c] \notin {"idle", "posting"}
            /\ \/ UNCHANGED rpc
               \/ \E pc \in {"finishing", "stopping", "done", "purging", "cancelling"} :
                     rpc' = [rpc EXCEPT ![c] = pc]
        BY <1>3, <3>2 DEF ReaderStep, Receive, StopRemove, StopPurge, StopCancel, Leave
      <4>2. /\ x # c => rpc'[x] = rpc[x]
            /\ x = c => rpc'[x] \notin {"idle", "posting"}
        BY <4>1 DEF Typed, ReaderTyped
      <4> QED
        BY <4>1, <4>2 DEF Ids
    <3> QED
      BY <3>1, <3>2
  <2>3. Posted' = Posted
    BY <2>2 DEF Posted
  <2> QED
    BY <2>1, <2>3
<1>4. CASE UNCHANGED vars
  <2>1. UNCHANGED <<queue_tasks, queue_tasks_deferred, slot_state, slot_task, mainpc, cur>>
    BY <1>4 DEF vars, queueVars, slotVars, loopVars
  <2>2. Pending' = Pending /\ OnSlots' = OnSlots
    BY <2>1 DEF Pending, Hand, OnSlots, Busy, IsProcessing, Idle
  <2> QED
    BY <1>4, <2>2, VarsUnchanged
<1> QED
  BY <1>1, <1>2, <1>3, <1>4 DEF Next

LEMMA LifecycleInit == Init => Lifecycle!Init
<1> SUFFICES ASSUME Init
             PROVE  \A id \in PossibleIds : StatusOf(id) = "new"
  BY DEF Lifecycle!Init
<1>1. Posted = {}
  BY DEF Init, Posted
<1>2. StatusIs
  BY TypedInit, OwnedInit, StatusLemma
<1> QED
  BY <1>1, <1>2 DEF StatusIs

LEMMA LifecycleStep ==
    ASSUME Typed, Numbered, Owned, Owned', Origin, StatusIs, StatusIs', [Next]_vars
    PROVE  Lifecycle!Next
<1>1. /\ Posted \subseteq Posted'
      /\ Pending' \cap Posted \subseteq Pending
      /\ OnSlots' \subseteq OnSlots \cup Pending
      /\ Posted' \ Posted \subseteq Pending'
  BY StepMoves
<1>2. OnSlots \cap Pending = {} /\ OnSlots' \cap Pending' = {} /\ OnSlots \subseteq Posted
      /\ OnSlots' \subseteq Posted'
  BY DEF Owned, SlotsApart
<1> DEFINE place(new, run, wait) == CASE new -> "new"
                                      [] ~new /\ run -> "running"
                                      [] ~new /\ ~run /\ wait -> "pending"
                                      [] OTHER -> "gone"
<1>3. ASSUME NEW new \in BOOLEAN, NEW run \in BOOLEAN, NEW wait \in BOOLEAN
      PROVE  /\ new => place(new, run, wait) = "new"
             /\ ~new /\ run => place(new, run, wait) = "running"
             /\ ~new /\ ~run /\ wait => place(new, run, wait) = "pending"
             /\ ~new /\ ~run /\ ~wait => place(new, run, wait) = "gone"
  OBVIOUS
<1>4. ASSUME NEW id \in PossibleIds
      PROVE  /\ id \notin Posted => StatusOf(id) = "new"
             /\ id \in Posted /\ id \in OnSlots => StatusOf(id) = "running"
             /\ id \in Posted /\ id \notin OnSlots /\ id \in Pending => StatusOf(id) = "pending"
             /\ id \in Posted /\ id \notin OnSlots /\ id \notin Pending => StatusOf(id) = "gone"
  <2> DEFINE new == id \notin Posted  run == id \in OnSlots  wait == id \in Pending
  <2>1. new \in BOOLEAN /\ run \in BOOLEAN /\ wait \in BOOLEAN
    OBVIOUS
  <2>2. StatusOf(id) = place(new, run, wait)
    BY DEF StatusIs
  <2> HIDE DEF new, run, wait, place
  <2>3. /\ new => StatusOf(id) = "new"
        /\ ~new /\ run => StatusOf(id) = "running"
        /\ ~new /\ ~run /\ wait => StatusOf(id) = "pending"
        /\ ~new /\ ~run /\ ~wait => StatusOf(id) = "gone"
    BY <1>3, <2>1, <2>2
  <2> QED
    BY <2>3 DEF new, run, wait
<1>5. ASSUME NEW id \in PossibleIds
      PROVE  /\ id \notin Posted' => StatusOf(id)' = "new"
             /\ id \in Posted' /\ id \in OnSlots' => StatusOf(id)' = "running"
             /\ id \in Posted' /\ id \notin OnSlots' /\ id \in Pending' => StatusOf(id)' = "pending"
             /\ id \in Posted' /\ id \notin OnSlots' /\ id \notin Pending' => StatusOf(id)' = "gone"
  <2> DEFINE new == id \notin Posted'  run == id \in OnSlots'  wait == id \in Pending'
  <2>1. new \in BOOLEAN /\ run \in BOOLEAN /\ wait \in BOOLEAN
    OBVIOUS
  <2>2. StatusOf(id)' = place(new, run, wait)
    BY DEF StatusIs
  <2> HIDE DEF new, run, wait, place
  <2>3. /\ new => StatusOf(id)' = "new"
        /\ ~new /\ run => StatusOf(id)' = "running"
        /\ ~new /\ ~run /\ wait => StatusOf(id)' = "pending"
        /\ ~new /\ ~run /\ ~wait => StatusOf(id)' = "gone"
    BY <1>3, <2>1, <2>2
  <2> QED
    BY <2>3 DEF new, run, wait
<1>6. ASSUME NEW id \in PossibleIds
      PROVE  \/ StatusOf(id)' = StatusOf(id)
             \/ <<StatusOf(id), StatusOf(id)'>> \in Lifecycle!Moves
  <2>1. CASE id \notin Posted
    <3>1. StatusOf(id) = "new" /\ (id \notin Posted' => StatusOf(id)' = "new")
      BY <1>4, <1>5, <2>1
    <3>2. id \in Posted' => StatusOf(id)' = "pending"
      BY <1>1, <1>2, <1>5, <2>1
    <3> QED
      BY <3>1, <3>2 DEF Lifecycle!Moves
  <2>2. CASE id \in OnSlots
    <3>1. StatusOf(id) = "running" /\ id \in Posted' /\ id \notin Pending'
      BY <1>1, <1>2, <1>4, <2>2
    <3>2. StatusOf(id)' = "running" \/ StatusOf(id)' = "gone"
      BY <1>5, <3>1
    <3> QED
      BY <3>1, <3>2 DEF Lifecycle!Moves
  <2>3. CASE id \in Posted /\ id \notin OnSlots /\ id \in Pending
    <3>1. StatusOf(id) = "pending" /\ id \in Posted'
      BY <1>1, <1>4, <2>3
    <3>2. StatusOf(id)' \in {"running", "pending", "gone"}
      BY <1>5, <3>1
    <3> QED
      BY <3>1, <3>2 DEF Lifecycle!Moves
  <2>4. CASE id \in Posted /\ id \notin OnSlots /\ id \notin Pending
    <3>1. StatusOf(id) = "gone" /\ id \in Posted' /\ id \notin OnSlots' /\ id \notin Pending'
      BY <1>1, <1>4, <2>4
    <3> QED
      BY <1>5, <3>1
  <2> QED
    BY <2>1, <2>2, <2>3, <2>4
<1>7. ASSUME NEW id \in PossibleIds, NEW kid \in PossibleIds, Parent(kid) = id,
             StatusOf(id) = "pending", StatusOf(id)' = "running", StatusOf(kid) # "new"
      PROVE  StatusOf(kid)' = "running"
  <2>1. id \in OnSlots' /\ id \notin OnSlots /\ kid \in Posted
    BY <1>4, <1>5, <1>7
  <2>2. id[3] = 0 /\ kid \in Id
    BY <1>7, PossibleTyped DEF Parent
  <2>3. kid \in OnSlots'
    BY <1>7, <2>1, <2>2, StartsWhole
  <2> QED
    BY <1>2, <1>5, <2>3
<1> HIDE DEF place
<1> QED
  BY <1>6, <1>7 DEF Lifecycle!Next

\* The scheduler implements the life cycle of TaskLifecycle.
THEOREM TaskLifecycleHolds == Spec => TaskLifecycleSpec
<1>1. Init => Origin
  BY DEF Init, Origin, Held, Elems
<1>2. Typed /\ Numbered /\ Owned => StatusIs
  BY StatusLemma
<1>3. Typed /\ Numbered /\ Owned /\ Owned' /\ Origin /\ StatusIs /\ StatusIs' /\ [Next]_vars
        => Lifecycle!Next
  BY LifecycleStep
<1> QED
  BY <1>1, <1>2, <1>3, LifecycleInit, TypedInit, TypedStep, OwnedInit, NumberedStep, OwnedStep,
     OriginStep, PTL DEF Spec, TaskLifecycleSpec, Lifecycle!Spec

-----------------------------------------------------------------------------
(***************************************************************************)
(* update_slots() does not abort.  Its kill switch counts the updates that *)
(* find no token to decode.  Phases says what an update knows of the slots *)
(* it has visited: a slot whose prompt is done is in the batch and is      *)
(* sampled or failed before the update ends, an empty batch means that no  *)
(* slot before the cursor generates or has a prompt to go on with, and     *)
(* after one empty batch every slot is idle.                               *)
(***************************************************************************)
FailPcs   == {"fail", "fail_release"}
UpdatePcs == {"shift", "shift_release", "prompt", "prompt_release", "decode", "sample",
              "sample_release"} \cup FailPcs

DonePrompts ==
    \A s \in Slots : slot_state[s] = "done_prompt" =>
       \/ mainpc \in {"prompt", "prompt_release", "decode"} /\ s \in in_batch
       \/ mainpc \in {"sample", "sample_release"} /\ s \in in_batch /\ s >= cursor
       \/ mainpc \in FailPcs
Batched ==
    mainpc \in {"prompt", "prompt_release"} =>
       /\ \A s \in Slots : slot_state[s] = "generating" => s \in in_batch
       /\ in_batch = {} =>
            \A s \in Slots : s < cursor => slot_state[s] \in {"idle", "wait_other"}
Failing ==
    /\ mainpc = "decode" => cursor = 0
    /\ mainpc \in FailPcs => \A s \in Slots : IsProcessing(s) => s >= cursor
Empties ==
    /\ mainpc \in UpdatePcs => n_empty_consecutive = 0
    /\ n_empty_consecutive # 0 => n_empty_consecutive = 1 /\ IdleSlots = Slots
Phases == DonePrompts /\ Batched /\ Failing /\ Empties /\ NeverAborts

\* No slot waits for another one unless one has a prompt to go on with.
NoneLeftWaiting ==
    mainpc = "prompt" /\ in_batch = {} /\ PromptSlots = {} => \A x \in Slots : slot_state[x] # "wait_other"

LEMMA PhasesInit == Init => Phases
  BY DEF Init, Phases, DonePrompts, Batched, Failing, Empties, NeverAborts, UpdatePcs, FailPcs, Idle

LEMMA PhasesQuiet ==
    ASSUME Phases, UNCHANGED <<slotVars, loopVars, mainpc>>
    PROVE  Phases'
  BY DEF slotVars, loopVars, Phases, DonePrompts, Batched, Failing, Empties, NeverAborts, IsProcessing,
         Idle, IdleSlots

\* Outside an update: no slot gets a prompt done, a slot that becomes busy
\* resets the counter.
LEMMA PhasesProcess == Typed /\ Phases /\ ProcessStep => Phases'
<1> SUFFICES ASSUME Typed, Phases, ProcessStep
             PROVE  Phases'
  OBVIOUS
<1>1. /\ mainpc \notin UpdatePcs
      /\ mainpc' \in {"process", "update", "drain", "unlaunch"}
  BY DEF ProcessStep, PopTask, DrainDone, WaitForTasks, DeferCompletion, Launch, LaunchFails,
         Unlaunch, UnlaunchDone, ProcessCancel, ProcessNextResponse, ProcessMetrics,
         DeferSlotAction, ProcessSlotAction, BackToDrain, IsCompletion, UpdatePcs, FailPcs
<1>2. mainpc' \notin UpdatePcs /\ mainpc' # "aborted"
  BY <1>1 DEF UpdatePcs, FailPcs
<1>3. ASSUME \A x \in Slots : slot_state'[x] = "done_prompt" => slot_state[x] = "done_prompt",
             \/ n_empty_consecutive' = 0
             \/ /\ n_empty_consecutive' = n_empty_consecutive
                /\ \A x \in Slots : Idle(x) => Idle(x)'
      PROVE  Phases'
  <2>1. DonePrompts'
    BY <1>1, <1>3 DEF Phases, DonePrompts, UpdatePcs, FailPcs
  <2>2. Batched' /\ Failing'
    BY <1>2 DEF Batched, Failing, UpdatePcs, FailPcs
  <2>3. Empties'
    BY <1>2, <1>3 DEF Phases, Empties, IdleSlots
  <2> QED
    BY <1>2, <2>1, <2>2, <2>3 DEF Phases, NeverAborts
<1>4. CASE UNCHANGED <<slotVars, n_empty_consecutive>>
  BY <1>3, <1>4 DEF slotVars, Idle
<1>5. ASSUME NEW s \in Slots, Release(s), UNCHANGED n_empty_consecutive
      PROVE  Phases'
  BY <1>3, <1>5 DEF Release, Idle, Typed, SlotTyped
<1>6. ASSUME NEW s \in Slots, NEW n, NEW state \in {"started", "idle"}, NEW task,
             LaunchChildren(s, n, state, task)
      PROVE  \A x \in Slots : slot_state'[x] = "done_prompt" => slot_state[x] = "done_prompt"
  BY <1>6 DEF LaunchChildren
<1>7. ASSUME NEW s \in Slots, Launch(s)
      PROVE  Phases'
  BY <1>3, <1>6, <1>7 DEF Launch
<1>8. ASSUME NEW s \in Slots, NEW n \in 0 .. NSlots - 1, LaunchFails(s, n)
      PROVE  Phases'
  <2>1. LaunchChildren(s, n, "idle", NoTask)
        /\ n_empty_consecutive' = IF n > 0 THEN 0 ELSE n_empty_consecutive
    BY <1>8 DEF LaunchFails
  <2>2. CASE n > 0
    BY <1>3, <1>6, <2>1, <2>2
  <2>3. CASE ~(n > 0)
    <3>1. \A x \in ChildSlots(s, n) : Rank(s, x) \in Nat \ {0} /\ Rank(s, x) <= n
      BY RankTyped DEF ChildSlots
    <3>2. ChildSlots(s, n) = {}
      BY <2>3, <3>1
    <3>3. \A x \in Slots : Idle(x) => Idle(x)'
      BY <2>1, <3>2 DEF LaunchChildren, Idle
    <3> QED
      BY <1>3, <1>6, <2>1, <2>3, <3>3
  <2> QED
    BY <2>2, <2>3
<1>9. ASSUME NEW s \in Slots, Unlaunch(s)
      PROVE  Phases'
  BY <1>5, <1>9 DEF Unlaunch, loopVars
<1>10. CASE ProcessCancel
  <2>1. UNCHANGED n_empty_consecutive
    BY <1>10 DEF ProcessCancel
  <2>2. CASE UNCHANGED slotVars
    BY <1>4, <2>1, <2>2
  <2>3. CASE ~UNCHANGED slotVars
    <3> DEFINE hit == {x \in Slots : IsProcessing(x) /\ slot_task[x].id = cur.id_target}
    <3>1. hit # {} /\ Release(CHOOSE x \in hit : \A y \in hit : x <= y)
      BY <1>10, <2>3 DEF ProcessCancel
    <3>2. hit \in SUBSET Nat /\ IsFiniteSet(hit)
      BY SlotFacts, FS_Subset
    <3>3. \E x \in hit : \A y \in hit : x <= y
      BY <3>1, <3>2, LeastLemma
    <3>4. (CHOOSE x \in hit : \A y \in hit : x <= y) \in Slots
      BY <3>3
    <3> QED
      BY <1>5, <2>1, <3>1, <3>4
  <2> QED
    BY <2>2, <2>3
<1>11. ProcessMetrics \/ ProcessSlotAction \/ PopTask \/ DrainDone \/ WaitForTasks \/ DeferCompletion
         \/ UnlaunchDone \/ ProcessNextResponse \/ DeferSlotAction
         => UNCHANGED <<slotVars, n_empty_consecutive>>
  BY DEF ProcessMetrics, ProcessSlotAction, PopTask, DrainDone, WaitForTasks, DeferCompletion,
         UnlaunchDone, ProcessNextResponse, DeferSlotAction, loopVars
<1> QED
  BY <1>4, <1>7, <1>8, <1>9, <1>10, <1>11 DEF ProcessStep

LEMMA PhasesUpdate == Typed /\ Phases /\ NoneLeftWaiting /\ UpdateStep => Phases'
<1> SUFFICES ASSUME Typed, Phases, NoneLeftWaiting, UpdateStep
             PROVE  Phases'
  OBVIOUS
<1>0. Slots \in SUBSET Nat /\ cursor \in 0 .. NSlots /\ NSlots \in Nat
  BY SlotFacts, NSlotsAssumption DEF Typed, LoopTyped
<1>1. CASE UpdateIdle
  <2>1. mainpc = "update" /\ mainpc' = "wait" /\ UNCHANGED <<slotVars, loopVars>>
    BY <1>1 DEF UpdateIdle
  <2> QED
    BY <2>1 DEF loopVars, slotVars, Phases, DonePrompts, Batched, Failing, Empties, NeverAborts,
                UpdatePcs, FailPcs, Idle, IdleSlots
<1>2. CASE UpdateBegin
  <2>1. /\ mainpc = "update" /\ mainpc' = "shift" /\ IdleSlots # Slots
        /\ UNCHANGED <<slotVars, loopVars>>
    BY <1>2 DEF UpdateBegin
  <2> QED
    BY <2>1 DEF loopVars, slotVars, Phases, DonePrompts, Batched, Failing, Empties, NeverAborts,
                UpdatePcs, FailPcs, Idle, IdleSlots
<1>3. ASSUME NEW s \in Slots, ShiftError(s)
      PROVE  Phases'
  <2>1. /\ mainpc = "shift" /\ mainpc' = "shift_release" /\ cursor' = s
        /\ UNCHANGED <<slotVars, n_empty_consecutive, in_batch>>
    BY <1>3 DEF ShiftError, SendAndStop
  <2> QED
    BY <2>1 DEF slotVars, Phases, DonePrompts, Batched, Failing, Empties, NeverAborts,
                UpdatePcs, FailPcs, Idle, IdleSlots
<1>4. CASE ShiftDone
  <2>1. /\ mainpc = "shift" /\ mainpc' = "prompt" /\ cursor' = 0
        /\ UNCHANGED <<slotVars, n_empty_consecutive>>
        /\ in_batch' = {s \in Slots : slot_state[s] = "generating"}
    BY <1>4 DEF ShiftDone
  <2>2. DonePrompts' /\ Failing' /\ Empties' /\ NeverAborts'
    BY <2>1 DEF slotVars, Phases, DonePrompts, Failing, Empties, NeverAborts,
                UpdatePcs, FailPcs, Idle, IdleSlots
  <2>3. \A s \in Slots : ~(s < cursor')
    BY <1>0, <2>1
  <2>4. Batched'
    BY <2>1, <2>3 DEF Batched, slotVars
  <2> QED
    BY <2>2, <2>4 DEF Phases
<1>5. ASSUME NEW s \in Slots, PromptSkip(s)
      PROVE  Phases'
  <2>1. /\ mainpc = "prompt" /\ mainpc' = "prompt" /\ in_batch # {}
        /\ UNCHANGED <<slotVars, n_empty_consecutive, in_batch>>
    BY <1>5 DEF PromptSkip
  <2> QED
    BY <2>1 DEF slotVars, Phases, DonePrompts, Batched, Failing, Empties, NeverAborts,
                UpdatePcs, FailPcs, Idle, IdleSlots
<1>6. ASSUME NEW s \in Slots, PromptAdd(s)
      PROVE  Phases'
  <2>1. PICK st \in {"processing_prompt", "done_prompt"} :
           slot_state' = [slot_state EXCEPT ![s] = st]
    BY <1>6 DEF PromptAdd
  <2>2. /\ mainpc = "prompt" /\ mainpc' = "prompt" /\ in_batch' = in_batch \cup {s}
        /\ UNCHANGED <<slot_task, n_empty_consecutive>>
    BY <1>6 DEF PromptAdd
  <2>3. \A x \in Slots : slot_state'[x] = IF x = s THEN st ELSE slot_state[x]
    BY <2>1 DEF Typed, SlotTyped
  <2>4. n_empty_consecutive = 0
    BY <2>2 DEF Phases, Empties, UpdatePcs
  <2>5. DonePrompts' /\ Batched' /\ Failing'
    BY <2>1, <2>2, <2>3 DEF Phases, DonePrompts, Batched, Failing, FailPcs
  <2> QED
    BY <2>2, <2>4, <2>5 DEF Phases, Empties, NeverAborts
<1>7. ASSUME NEW s \in Slots, PromptEnds(s)
      PROVE  Phases'
  <2>1. /\ mainpc = "prompt" /\ mainpc' = "prompt_release" /\ cursor' = s /\ IsNext(s, PromptSlots)
        /\ UNCHANGED <<slotVars, n_empty_consecutive, in_batch>>
    BY <1>7 DEF PromptEnds, SendAndStop
  <2>2. DonePrompts' /\ Failing' /\ Empties' /\ NeverAborts'
    BY <2>1 DEF slotVars, Phases, DonePrompts, Failing, Empties, NeverAborts,
                UpdatePcs, FailPcs, Idle, IdleSlots
  <2>3. ASSUME in_batch = {}, NEW x \in Slots, x < s
        PROVE  slot_state[x] \in {"idle", "wait_other"}
    <3>1. x \notin PromptSlots
      BY <1>0, <2>1, <2>3 DEF IsNext
    <3>2. x < cursor \/ slot_state[x] \notin {"started", "processing_prompt"}
      BY <1>0, <3>1 DEF PromptSlots, AtOrAfterCursor
    <3>3. slot_state[x] \notin {"generating", "done_prompt"}
      BY <2>1, <2>3 DEF Phases, Batched, DonePrompts, FailPcs
    <3> QED
      BY <2>1, <2>3, <3>2, <3>3 DEF Phases, Batched, Typed, SlotTyped, SlotStates
  <2>4. Batched'
    BY <2>1, <2>3 DEF Phases, Batched, slotVars
  <2> QED
    BY <2>2, <2>4 DEF Phases
<1>8. CASE PromptDone
  <2>1. /\ mainpc = "prompt" /\ PromptSlots = {} /\ cursor' = 0
        /\ UNCHANGED <<slotVars, in_batch>>
        /\ n_empty_consecutive = 0
    BY <1>8 DEF PromptDone, Phases, Empties, UpdatePcs
  <2>2. CASE in_batch # {}
    <3>1. n_empty_consecutive' = 0 /\ mainpc' = "decode"
      BY <1>8, <2>2 DEF PromptDone
    <3> QED
      BY <2>1, <3>1 DEF slotVars, Phases, DonePrompts, Batched, Failing, Empties, NeverAborts, FailPcs
  <2>3. CASE in_batch = {}
    <3>1. n_empty_consecutive' = 1 /\ mainpc' = "wait"
      BY <1>8, <2>1, <2>3 DEF PromptDone
    <3>2. ASSUME NEW x \in Slots
          PROVE  slot_state[x] = "idle"
      <4>1. slot_state[x] # "wait_other"
        BY <2>1, <2>3 DEF NoneLeftWaiting
      <4>2. x < cursor \/ slot_state[x] \notin {"started", "processing_prompt"}
        BY <1>0, <2>1 DEF PromptSlots, AtOrAfterCursor
      <4>3. slot_state[x] \notin {"generating", "done_prompt"}
        BY <2>1, <2>3 DEF Phases, Batched, DonePrompts, FailPcs
      <4> QED
        BY <2>1, <2>3, <4>1, <4>2, <4>3 DEF Phases, Batched, Typed, SlotTyped, SlotStates
    <3>3. IdleSlots' = Slots /\ \A x \in Slots : slot_state'[x] = "idle"
      BY <2>1, <3>2 DEF slotVars, IdleSlots, Idle
    <3> QED
      BY <3>1, <3>3 DEF Phases, DonePrompts, Batched, Failing, Empties, NeverAborts, UpdatePcs, FailPcs
  <2> QED
    BY <2>2, <2>3
<1>9. CASE DecodeOk
  <2>1. /\ mainpc = "decode" /\ mainpc' = "sample" /\ cursor' = cursor /\ cursor = 0
        /\ in_batch' = in_batch \cup Activated /\ n_empty_consecutive' = n_empty_consecutive
        /\ \A x \in Slots : slot_state'[x] = IF x \in Activated THEN "done_prompt" ELSE slot_state[x]
    BY <1>9 DEF DecodeOk, Phases, Failing
  <2>2. n_empty_consecutive = 0
    BY <2>1 DEF Phases, Empties, UpdatePcs
  <2>3. \A x \in Slots : x >= cursor'
    BY <1>0, <2>1
  <2>4. DonePrompts'
    BY <2>1, <2>3 DEF Phases, DonePrompts, FailPcs
  <2> QED
    BY <2>1, <2>2, <2>4 DEF Phases, Batched, Failing, Empties, NeverAborts, FailPcs
<1>10. CASE DecodeFails
  <2>1. /\ mainpc = "decode" /\ mainpc' = "fail" /\ cursor' = 0
        /\ UNCHANGED <<slotVars, n_empty_consecutive>>
    BY <1>10 DEF DecodeFails, loopVars, Phases, Failing
  <2>2. \A x \in Slots : x >= cursor'
    BY <1>0, <2>1
  <2> QED
    BY <2>1, <2>2 DEF slotVars, Phases, DonePrompts, Batched, Failing, Empties, NeverAborts,
                      UpdatePcs, FailPcs, Idle, IdleSlots
<1>11. ASSUME NEW s \in Slots, FailSlot(s)
       PROVE  Phases'
  <2>1. /\ mainpc = "fail" /\ mainpc' = "fail_release" /\ cursor' = s /\ IsNext(s, BusySlots)
        /\ UNCHANGED <<slotVars, n_empty_consecutive>>
    BY <1>11 DEF FailSlot, SendAndStop
  <2>2. \A x \in Slots : IsProcessing(x) => x >= s
    BY <1>0, <2>1 DEF Phases, Failing, FailPcs, IsNext, BusySlots
  <2> QED
    BY <2>1, <2>2 DEF slotVars, Phases, DonePrompts, Batched, Failing, Empties, NeverAborts,
                      UpdatePcs, FailPcs, IsProcessing, Idle, IdleSlots
<1>12. ASSUME NEW s \in Slots, SampleEnds(s)
       PROVE  Phases'
  <2>1. /\ mainpc = "sample" /\ mainpc' = "sample_release" /\ cursor' = s /\ IsNext(s, SampleSlots)
        /\ UNCHANGED <<slotVars, n_empty_consecutive, in_batch>>
    BY <1>12 DEF SampleEnds, SendAndStop
  <2>2. \A x \in Slots : slot_state[x] = "done_prompt" => x \in in_batch /\ x >= s
    BY <1>0, <2>1 DEF Phases, DonePrompts, FailPcs, IsNext, SampleSlots, AtOrAfterCursor
  <2> QED
    BY <2>1, <2>2 DEF slotVars, Phases, DonePrompts, Batched, Failing, Empties, NeverAborts,
                      UpdatePcs, FailPcs, IsProcessing, Idle, IdleSlots
<1>13. ASSUME NEW s \in Slots, SampleContinues(s)
       PROVE  Phases'
  <2>1. /\ mainpc = "sample" /\ mainpc' = "sample" /\ cursor' = s + 1 /\ IsNext(s, SampleSlots)
        /\ UNCHANGED <<n_empty_consecutive, in_batch>>
        /\ slot_state' = [slot_state EXCEPT ![s] = "generating"]
    BY <1>13 DEF SampleContinues
  <2>2. \A x \in Slots : slot_state[x] = "done_prompt" => x \in in_batch /\ x >= s
    BY <1>0, <2>1 DEF Phases, DonePrompts, FailPcs, IsNext, SampleSlots, AtOrAfterCursor
  <2>3. \A x \in Slots : slot_state'[x] = IF x = s THEN "generating" ELSE slot_state[x]
    BY <2>1 DEF Typed, SlotTyped
  <2>4. \A x \in Slots : slot_state'[x] = "done_prompt" => x \in in_batch /\ x >= s + 1
    BY <1>0, <2>2, <2>3
  <2>5. n_empty_consecutive = 0
    BY <2>1 DEF Phases, Empties, UpdatePcs
  <2> QED
    BY <2>1, <2>4, <2>5 DEF Phases, DonePrompts, Batched, Failing, Empties, NeverAborts, FailPcs
<1>14. CASE UpdateDone
  <2>1. /\ mainpc' = "wait" /\ UNCHANGED <<slotVars, n_empty_consecutive>>
        /\ mainpc \in UpdatePcs
    BY <1>14 DEF UpdateDone, UpdatePcs, FailPcs
  <2>2. ASSUME NEW x \in Slots
        PROVE  slot_state[x] # "done_prompt"
    <3>1. CASE mainpc = "fail" /\ BusySlots = {}
      BY <3>1 DEF BusySlots, Phases, Failing, FailPcs, IsProcessing, Idle
    <3>2. CASE mainpc = "sample" /\ SampleSlots = {}
      BY <3>2 DEF SampleSlots, AtOrAfterCursor, Phases, DonePrompts, FailPcs
    <3> QED
      BY <1>14, <3>1, <3>2 DEF UpdateDone
  <2>3. n_empty_consecutive' = 0
    BY <2>1 DEF Phases, Empties
  <2> QED
    BY <2>1, <2>2, <2>3 DEF slotVars, Phases, DonePrompts, Batched, Failing, Empties, NeverAborts,
                            UpdatePcs, FailPcs
<1>15. CASE ReleaseSlot
  <2>1. /\ mainpc \in DOMAIN ReleaseLoop /\ cursor \in Slots /\ cursor' = cursor + 1
        /\ mainpc' = ReleaseLoop[mainpc] /\ UNCHANGED <<n_empty_consecutive, in_batch>>
        /\ Release(cursor)
    BY <1>15 DEF ReleaseSlot, Typed, ReleaseTyped
  <2>2. \/ mainpc = "shift_release" /\ mainpc' = "shift"
        \/ mainpc = "prompt_release" /\ mainpc' = "prompt"
        \/ mainpc = "fail_release" /\ mainpc' = "fail"
        \/ mainpc = "sample_release" /\ mainpc' = "sample"
    BY <2>1 DEF ReleaseLoop
  <2>3. \A x \in Slots : slot_state'[x] = IF x = cursor THEN "idle" ELSE slot_state[x]
    BY <2>1 DEF Release, Typed, SlotTyped
  <2>4. \A x \in Slots : x >= cursor /\ x # cursor => x >= cursor + 1
    BY <1>0
  <2>5. n_empty_consecutive = 0
    BY <2>2 DEF Phases, Empties, UpdatePcs, FailPcs
  <2>6. DonePrompts'
    BY <2>1, <2>2, <2>3, <2>4 DEF Phases, DonePrompts, FailPcs
  <2>7. Failing'
    BY <2>1, <2>2, <2>3, <2>4 DEF Phases, Failing, FailPcs, IsProcessing, Idle
  <2>8. \A x \in Slots : x < cursor + 1 => x < cursor \/ x = cursor
    BY <1>0
  <2>9. Batched'
    BY <2>1, <2>2, <2>3, <2>8 DEF Phases, Batched
  <2> QED
    BY <2>1, <2>2, <2>5, <2>6, <2>7, <2>9 DEF Phases, Empties, NeverAborts
<1> QED
  BY <1>1, <1>2, <1>3, <1>4, <1>5, <1>6, <1>7, <1>8, <1>9, <1>10, <1>11, <1>12, <1>13, <1>14, <1>15
     DEF UpdateStep

\* The tasks of a reader are made from one of the templates.
Templated ==
    \A c \in Clients :
       tasks[c] = <<>> \/ \E ts \in Templates : tasks[c] = [i \in DOMAIN ts |-> MakeTask(c, i, ts[i])]

LEMMA TasksUnchanged ==
    ASSUME ProcessStep \/ UpdateStep \/ UNCHANGED vars
           \/ \E c \in Clients : ReaderStep(c) \/ Leave(c)
    PROVE  UNCHANGED tasks
<1>1. ProcessStep => UNCHANGED tasks
  BY DEF ProcessStep, PopTask, DrainDone, WaitForTasks, DeferCompletion, Launch, LaunchFails,
     Unlaunch, UnlaunchDone, ProcessCancel, ProcessNextResponse, ProcessMetrics,
     DeferSlotAction, ProcessSlotAction, readerVars
<1>2. UpdateStep => UNCHANGED tasks
  BY DEF UpdateStep, UpdateIdle, UpdateBegin, ShiftError, ShiftDone, PromptSkip,
     PromptAdd, PromptEnds, PromptDone, DecodeOk, DecodeFails, FailSlot, SampleEnds,
     SampleContinues, UpdateDone, ReleaseSlot, SendAndStop, readerVars
<1>3. ASSUME NEW c \in Clients, ReaderStep(c) \/ Leave(c)
      PROVE  UNCHANGED tasks
  BY <1>3 DEF ReaderStep, PostTasks, Receive, StopRemove, StopPurge, StopCancel, Leave
<1> QED
  BY <1>1, <1>2, <1>3 DEF vars, readerVars

LEMMA TemplatedStep == Typed /\ Templated /\ [Next]_vars => Templated'
<1> SUFFICES ASSUME Typed, Templated, [Next]_vars
             PROVE  Templated'
  OBVIOUS
<1>1. CASE UNCHANGED tasks
  BY <1>1 DEF Templated
<1>2. ASSUME NEW c \in Clients, AddWaiting(c)
      PROVE  Templated'
  <2>1. PICK ts \in Templates : tasks' = [tasks EXCEPT ![c] = [i \in DOMAIN ts |-> MakeTask(c, i, ts[i])]]
    BY <1>2 DEF AddWaiting
  <2>2. \A x \in Clients : tasks'[x] = IF x = c THEN [i \in DOMAIN ts |-> MakeTask(c, i, ts[i])] ELSE tasks[x]
    BY <2>1 DEF Typed, ReaderTyped
  <2> QED
    BY <2>2 DEF Templated
<1> QED
  BY <1>1, <1>2, TasksUnchanged DEF Next

-----------------------------------------------------------------------------
\* Without child tasks no slot waits for another one.
Childless   == \A ts \in Templates : \A i \in DOMAIN ts : ts[i].kids = 0
NoneWaiting == \A x \in Slots : slot_state[x] # "wait_other"

LEMMA HeldTemplated ==
    ASSUME Typed, Origin, Templated, NEW t \in Held
    PROVE  \E ts \in Templates : /\ t.id[2] \in DOMAIN ts /\ t.kids = ts[t.id[2]].kids
                                 /\ tasks[t.id[1]] = [i \in DOMAIN ts |-> MakeTask(t.id[1], i, ts[i])]
<1>1. t.id[2] \in DOMAIN tasks[t.id[1]] /\ tasks[t.id[1]][t.id[2]] = t /\ t.id[1] \in Clients
  BY RootJob, JobFields, IdFields DEF Origin, Made, Held
<1>2. PICK ts \in Templates : tasks[t.id[1]] = [i \in DOMAIN ts |-> MakeTask(t.id[1], i, ts[i])]
  BY <1>1, SMTT(20) DEF Templated
<1>3. t.id[2] \in DOMAIN ts /\ t = MakeTask(t.id[1], t.id[2], ts[t.id[2]])
  BY <1>1, <1>2
<1>4. t.kids = ts[t.id[2]].kids
  BY <1>3 DEF MakeTask
<1> QED
  BY <1>2, <1>3, <1>4

LEMMA NoneWaitingStep ==
    ASSUME Childless, Typed, Origin, Templated, NoneWaiting, [Next]_vars
    PROVE  NoneWaiting'
<1>1. CASE UNCHANGED slot_state
  BY <1>1 DEF NoneWaiting
<1>2. ASSUME NEW s \in Slots, NEW st \in {"idle", "processing_prompt", "done_prompt", "generating"},
             slot_state' = [slot_state EXCEPT ![s] = st]
      PROVE  NoneWaiting'
  BY <1>2 DEF NoneWaiting, Typed, SlotTyped
<1>3. ASSUME NEW s \in Slots, NEW n \in Nat, n <= cur.kids, NEW state \in {"idle", "started"}, NEW task,
             IsCompletion, LaunchChildren(s, n, state, task)
      PROVE  NoneWaiting'
  <2>1. cur \in Held
    BY <1>3, JobFields DEF IsCompletion, Typed, LoopTyped, ReaderTypes, CompletionTypes, Held
  <2>2. cur.kids = 0
    BY <2>1, HeldTemplated DEF Childless
  <2>3. \A x \in ChildSlots(s, n) : Rank(s, x) \in Nat \ {0} /\ Rank(s, x) <= n
    BY RankTyped DEF ChildSlots
  <2>4. ChildSlots(s, n) = {}
    BY <1>3, <2>2, <2>3
  <2> QED
    BY <1>3, <2>4 DEF NoneWaiting, LaunchChildren
<1>4. ASSUME NEW s \in Slots, Launch(s)
      PROVE  NoneWaiting'
  <2>1. cur.kids \in Nat /\ cur.kids <= cur.kids
    BY <1>4, JobFields, RootJob DEF Launch, IsCompletion, Typed, LoopTyped, CompletionTypes, Control
  <2> QED
    BY <1>3, <1>4, <2>1 DEF Launch
<1>5. ASSUME NEW s \in Slots, NEW n \in 0 .. NSlots - 1, LaunchFails(s, n)
      PROVE  NoneWaiting'
  <2>1. n \in Nat
    BY NSlotsAssumption
  <2> QED
    BY <1>3, <1>5, <2>1 DEF LaunchFails
<1>6. CASE DecodeOk
  BY <1>6 DEF DecodeOk, NoneWaiting
<1>7. ASSUME NEW s, Release(s)
      PROVE  NoneWaiting'
  BY <1>7 DEF Release, NoneWaiting, Typed, SlotTyped
<1>8. ProcessStep => \/ UNCHANGED slot_state \/ \E s \in Slots : Launch(s)
                     \/ \E s \in Slots : \E n \in 0 .. NSlots - 1 : LaunchFails(s, n)
                     \/ \E s : Release(s)
  BY DEF ProcessStep, PopTask, DrainDone, WaitForTasks, DeferCompletion, Unlaunch, UnlaunchDone,
         ProcessCancel, ProcessNextResponse, ProcessMetrics, DeferSlotAction, ProcessSlotAction, slotVars
<1>9. UpdateStep =>
         \/ UNCHANGED slot_state \/ DecodeOk \/ \E s : Release(s)
         \/ \E s \in Slots : \E st \in {"processing_prompt", "done_prompt", "generating"} :
               slot_state' = [slot_state EXCEPT ![s] = st]
  BY DEF UpdateStep, UpdateIdle, UpdateBegin, ShiftError, ShiftDone, PromptSkip, PromptAdd, PromptEnds,
         PromptDone, DecodeFails, FailSlot, SampleEnds, SampleContinues, UpdateDone, ReleaseSlot,
         SendAndStop, slotVars
<1>10. ASSUME NEW c \in Clients, AddWaiting(c) \/ ReaderStep(c) \/ Leave(c)
       PROVE  UNCHANGED slot_state
  BY <1>10 DEF AddWaiting, ReaderStep, PostTasks, Receive, StopRemove, StopPurge, StopCancel, Leave, slotVars
<1>11. UNCHANGED vars => UNCHANGED slot_state
  BY DEF vars, slotVars
<1> QED
  BY <1>1, <1>2, <1>4, <1>5, <1>6, <1>7, <1>8, <1>9, <1>10, <1>11 DEF Next

\* A reader changes nothing that update_slots() looks at.
LEMMA PhasesStep == Typed /\ Phases /\ NoneLeftWaiting /\ [Next]_vars => Phases'
<1>1. ASSUME NEW c \in Clients, AddWaiting(c) \/ ReaderStep(c) \/ Leave(c)
      PROVE  UNCHANGED <<slotVars, loopVars, mainpc>>
  BY <1>1 DEF AddWaiting, ReaderStep, PostTasks, Receive, StopRemove, StopPurge, StopCancel, Leave
<1>2. UNCHANGED vars => UNCHANGED <<slotVars, loopVars, mainpc>>
  BY DEF vars
<1> QED
  BY <1>1, <1>2, PhasesQuiet, PhasesProcess, PhasesUpdate DEF Next

\* When no request has child tasks, the kill switch of update_slots() never
\* aborts the server, whatever fails and whoever leaves.
THEOREM ChildlessNeverAborts ==
    ASSUME Childless
    PROVE  Spec => []NeverAborts
<1>1. Init => Origin /\ Templated /\ NoneWaiting
  BY DEF Init, Origin, Held, Elems, Templated, NoneWaiting
<1>2. NoneWaiting => NoneLeftWaiting
  BY DEF NoneWaiting, NoneLeftWaiting
<1>3. Typed /\ Origin /\ Templated /\ NoneWaiting /\ [Next]_vars => NoneWaiting'
  BY NoneWaitingStep
<1>4. Phases => NeverAborts
  BY DEF Phases
<1> QED
  BY <1>1, <1>2, <1>3, <1>4, TypedInit, TypedStep, OwnedInit, NumberedStep, OriginStep, TemplatedStep,
     PhasesInit, PhasesStep, PTL DEF Spec

-----------------------------------------------------------------------------
(***************************************************************************)
(* With child tasks, a slot in WAIT_OTHER is served by its parent: a slot  *)
(* whose prompt is not yet sampled.  That lasts as long as the parent's    *)
(* task is not ended alone: by an error of its prompt, by a client that    *)
(* leaves, or by the cancellation of the other tasks of its request.       *)
(***************************************************************************)
ChildrenAlone == \A ts \in Templates : Len(ts) = 1 \/ \A i \in DOMAIN ts : ts[i].kids = 0

Waits(x)   == slot_state[x] = "wait_other"
Serves(p)  == /\ \/ slot_state[p] \in {"started", "processing_prompt"}
                 \/ slot_state[p] = "done_prompt" /\ mainpc \in {"prompt", "decode"}
              /\ slot_task[p].kids > 0
Excused(x) == \/ mainpc \in FailPcs
              \/ mainpc = "unlaunch" /\ slot_task[x].id \in Family(cur)

\* A task with children is the one its client made; a family that is being
\* taken back has no parent on a slot.
FamiliesMade ==
    /\ \A s \in Busy : slot_task[s].kids > 0 => slot_task[s] \in Root /\ Made(slot_task[s])
    /\ mainpc = "unlaunch" => cur.id \notin OnSlots
\* A slot is released while it samples, or with all the others.
SampledReleases ==
    /\ mainpc # "prompt_release"
    /\ mainpc \in {"shift_release", "sample_release"} =>
         slot_state[cursor] \in {"done_prompt", "generating"}
Supported ==
    \A x \in Slots : Waits(x) =>
       /\ slot_task[x].id[3] # 0
       /\ \/ Excused(x)
          \/ \E p \in Slots : /\ Serves(p)
                              /\ slot_task[p].id = Parent(slot_task[x].id)
                              /\ slot_task[x].id \in Family(slot_task[p])
KidsWait ==
    \A p \in Slots : Serves(p) =>
       \A y \in Busy : y # p /\ slot_task[y].id \in Family(slot_task[p]) => Waits(y)

\* A reader that got an error, or cancels, has no family that waits or that
\* can still be launched.
ErrorFor(c)  == \E i \in DOMAIN queue_results :
                   queue_results[i].kind = "error" /\ queue_results[i].id[1] = c
Cancels      == {t \in Elems(queue_tasks) \cup (IF mainpc = "process" THEN {cur} ELSE {}) :
                   t.type = "cancel" /\ t.id_target \in Id}
CancelFor(c) == \E t \in Cancels : t.id_target[1] = c
Quit(c)      == rpc[c] \in {"stopping", "purging", "cancelling"} \/ ErrorFor(c) \/ CancelFor(c)
QuitOk(c)    == /\ rpc[c] \notin {"idle", "posting"}
                /\ \A t \in Held : t.id[1] = c => t.kids = 0
                /\ \A x \in Slots : Waits(x) /\ slot_task[x].id[1] = c => Excused(x)
Quits        == \A c \in Clients : Quit(c) => QuitOk(c)

Known  == Typed /\ Numbered /\ Owned /\ Origin /\ Templated /\ Phases
Served == FamiliesMade /\ SampledReleases /\ Supported /\ KidsWait /\ Quits

\* What a launch does to each slot.
LEMMA LaunchedSlot ==
    ASSUME SlotTyped, cur \in Root, NEW s \in IdleSlots, NEW n \in 0 .. cur.kids, NEW state, NEW task,
           LaunchChildren(s, n, state, task)
    PROVE  \A x \in Slots :
              \/ x = s /\ slot_state'[x] = state /\ slot_task'[x] = task
              \/ /\ x \in IdleSlots \ {s} /\ slot_state'[x] = "wait_other" /\ slot_task'[x].kids = 0
                 /\ \E k \in 1 .. n : slot_task'[x].id = <<cur.id[1], cur.id[2], k>>
              \/ x # s /\ slot_state'[x] = slot_state[x] /\ slot_task'[x] = slot_task[x]
<1> SUFFICES ASSUME NEW x \in Slots
             PROVE  \/ x = s /\ slot_state'[x] = state /\ slot_task'[x] = task
                    \/ /\ x \in IdleSlots \ {s} /\ slot_state'[x] = "wait_other" /\ slot_task'[x].kids = 0
                       /\ \E k \in 1 .. n : slot_task'[x].id = <<cur.id[1], cur.id[2], k>>
                    \/ x # s /\ slot_state'[x] = slot_state[x] /\ slot_task'[x] = slot_task[x]
  OBVIOUS
<1>1. CASE x = s
  BY <1>1 DEF LaunchChildren, ChildSlots
<1>2. CASE x # s /\ x \in ChildSlots(s, n)
  <2>1. /\ slot_state'[x] = "wait_other" /\ slot_task'[x] = ChildTask(cur, Rank(s, x))
        /\ x \in IdleSlots \ {s} /\ Rank(s, x) <= n
    BY <1>2 DEF LaunchChildren, ChildSlots
  <2>2. Rank(s, x) \in Nat \ {0} /\ cur.kids \in Nat /\ cur \in Job
    BY <2>1, RankTyped, RootJob, JobFields
  <2>3. Rank(s, x) \in 1 .. n
    BY <2>1, <2>2
  <2>4. ChildTask(cur, Rank(s, x)).id = <<cur.id[1], cur.id[2], Rank(s, x)>>
    BY <2>2, ChildTyped
  <2>5. ASSUME NEW r \in Job, NEW i, NEW j
        PROVE  [r EXCEPT !.id = i, !.id_slot = j, !.kids = 0].kids = 0
    BY DEF Job
  <2>6. ChildTask(cur, Rank(s, x)).kids = 0
    BY <2>2, <2>5 DEF ChildTask
  <2> QED
    BY <2>1, <2>3, <2>4, <2>6
<1>3. CASE x # s /\ x \notin ChildSlots(s, n)
  BY <1>3 DEF LaunchChildren
<1> QED
  BY <1>1, <1>2, <1>3

\* Two tasks of one pair of numbers that have no parent are one.
LEMMA RootIds ==
    \A i, j \in Id : i[1] = j[1] /\ i[2] = j[2] /\ i[3] = j[3] => i = j
  BY IdFields

LEMMA FamilyIds ==
    ASSUME NEW t \in Root, NEW id \in Family(t)
    PROVE  id \in Id /\ Parent(id) = t.id /\ (id[3] = 0 => id = t.id)
<1>1. id \in Id /\ id[1] = t.id[1] /\ id[2] = t.id[2] /\ t.id \in Id /\ t.id[3] = 0
  BY FamilyLemma, RootJob, JobFields
<1>2. t.id = <<t.id[1], t.id[2], t.id[3]>>
  BY <1>1, IdFields
<1> QED
  BY <1>1, <1>2, RootIds DEF Parent

\* The only request of a client whose request has children.
LEMMA SingleFamily ==
    ASSUME ChildrenAlone, Typed, Numbered, Templated, NEW t \in Root, Made(t), t.kids > 0
    PROVE  /\ Ids(t.id[1]) = Family(t)
           /\ \A u \in Root : Made(u) /\ u.id[1] = t.id[1] => u = t
<1> DEFINE c == t.id[1]
<1>1. c \in Clients /\ t.id[2] \in DOMAIN tasks[c] /\ tasks[c][t.id[2]] = t
  BY RootJob, JobFields, IdFields DEF Made
<1>2. PICK ts \in Templates : tasks[c] = [i \in DOMAIN ts |-> MakeTask(c, i, ts[i])]
  BY <1>1, SMTT(20) DEF Templated
<1>3. ts \in Seq(Template)
  BY TemplatesAssumption
<1>4. t.id[2] \in DOMAIN ts /\ t.kids = ts[t.id[2]].kids
  BY <1>1, <1>2 DEF MakeTask
<1>5. ts[t.id[2]].kids # 0
  BY <1>4, RootJob, JobFields
<1>6. Len(ts) = 1
  BY <1>4, <1>5 DEF ChildrenAlone
<1>7. DOMAIN tasks[c] = {1}
  BY <1>2, <1>3, <1>6, LenProperties
<1>8. tasks[c][1] = t
  BY <1>1, <1>7
<1> HIDE DEF c
<1>9. Ids(c) = Family(t)
  BY <1>7, <1>8 DEF Ids, IdsOf
<1>10. \A u \in Root : Made(u) /\ u.id[1] = c => u = t
  BY <1>7, <1>8 DEF Made
<1> QED
  BY <1>9, <1>10 DEF c

LEMMA SlotIds ==
    ASSUME Typed, Numbered, Owned, NEW s \in Busy
    PROVE  /\ slot_task[s] \in Job /\ slot_task[s].id \in Id /\ slot_task[s].id \in OnSlots
           /\ slot_task[s].id[1] \in Clients /\ slot_task[s].id \in Ids(slot_task[s].id[1])
<1>1. slot_task[s] \in Job /\ slot_task[s].id \in Id /\ slot_task[s].id \in OnSlots
  BY JobFields DEF Typed, SlotTyped, Busy, OnSlots
<1>2. PICK c \in Clients : slot_task[s].id \in Ids(c)
  BY <1>1 DEF Owned, Posted
<1>3. slot_task[s].id[1] = c
  BY <1>2, InTasks
<1> QED
  BY <1>1, <1>2, <1>3

\* A slot that keeps its task keeps its family.
LEMMA FamiliesKept ==
    ASSUME FamiliesMade, \A s \in Busy' : s \in Busy /\ slot_task'[s] = slot_task[s],
           \A t \in Root : Made(t) => Made(t)',
           mainpc' = "unlaunch" => mainpc = "unlaunch" /\ cur' = cur
    PROVE  FamiliesMade'
<1>1. OnSlots' \subseteq OnSlots
  BY DEF OnSlots
<1> QED
  BY <1>1 DEF FamiliesMade

LEMMA FamiliesLaunched ==
    ASSUME Known, FamiliesMade, mainpc = "process", cur \in Root, UNCHANGED tasks,
           NEW s \in IdleSlots, NEW n \in 0 .. cur.kids, NEW state, NEW task,
           state = "idle" \/ (task = cur /\ mainpc' # "unlaunch"),
           LaunchChildren(s, n, state, task), cur' = cur \/ mainpc' # "unlaunch"
    PROVE  FamiliesMade'
<1>1. \A x \in Busy' :
         \/ x = s /\ state # "idle" /\ slot_task'[x] = cur
         \/ slot_task'[x].kids = 0 /\ \E k \in 1 .. n : slot_task'[x].id = <<cur.id[1], cur.id[2], k>>
         \/ x \in Busy /\ slot_task'[x] = slot_task[x]
  <2>1. SlotTyped
    BY DEF Known, Typed
  <2> QED
    BY <2>1, LaunchedSlot DEF Busy, IsProcessing, Idle
<1>2. cur \in Held /\ Made(cur)
  BY DEF Held, Known, Origin
<1>4. \A x \in Busy' : slot_task'[x].kids > 0 => slot_task'[x] \in Root /\ Made(slot_task[x])'
  BY <1>1, <1>2 DEF FamiliesMade, Made
<1>5. ASSUME mainpc' = "unlaunch", NEW x \in Busy'
      PROVE  slot_task'[x].id # cur'.id
  <2>1. cur' = cur /\ state = "idle" /\ cur.id[3] = 0 /\ cur.kids \in Nat
    BY <1>5, RootJob, JobFields
  <2>2. ASSUME NEW k \in 1 .. n, slot_task'[x].id = <<cur.id[1], cur.id[2], k>>
        PROVE  slot_task'[x].id # cur.id
    <3>1. slot_task'[x].id[3] = k /\ k # 0
      BY <2>1, <2>2
    <3> QED
      BY <2>1, <3>1
  <2>3. ASSUME x \in Busy
        PROVE  slot_task[x].id # cur.id
    <3>1. cur.id \in Hand
      BY FamJob, FamilyLemma, RootJob DEF Hand
    <3> QED
      BY <2>3, <3>1 DEF Known, Owned, SlotsApart, Pending, OnSlots
  <2> QED
    BY <1>1, <2>1, <2>2, <2>3
<1> QED
  BY <1>4, <1>5 DEF FamiliesMade, OnSlots

\* Each slot keeps its part in its family, or gives it up with the others.
LEMMA RolesKept ==
    ASSUME Supported, KidsWait,
           \A x \in Busy' : x \in Busy /\ slot_task'[x] = slot_task[x],
           \A x \in Slots : Waits(x)' => Waits(x) /\ (Excused(x) => Excused(x)'),
           \A x \in Slots : \A p \in Slots :
              Waits(x)' /\ ~Excused(x)' /\ Serves(p) /\ slot_task[p].id = Parent(slot_task[x].id)
                => Serves(p)',
           \A p \in Slots : Serves(p)' => Serves(p),
           \A p \in Slots : \A y \in Busy' :
              Serves(p)' /\ Waits(y) /\ slot_task[y].id \in Family(slot_task[p]) => Waits(y)'
    PROVE  Supported' /\ KidsWait'
<1>1. \A x \in Slots : Waits(x)' \/ Serves(x)' => x \in Busy'
  BY DEF Waits, Serves, Busy, IsProcessing, Idle
<1>2. ASSUME NEW x \in Slots, Waits(x)', ~Excused(x)'
      PROVE  \E p \in Slots : /\ Serves(p)' /\ slot_task'[p].id = Parent(slot_task'[x].id)
                              /\ slot_task'[x].id \in Family(slot_task'[p])
  <2>1. Waits(x) /\ ~Excused(x) /\ slot_task'[x] = slot_task[x]
    BY <1>1, <1>2
  <2>2. PICK p \in Slots : /\ Serves(p) /\ slot_task[p].id = Parent(slot_task[x].id)
                           /\ slot_task[x].id \in Family(slot_task[p])
    BY <2>1 DEF Supported
  <2>3. Serves(p)'
    BY <1>2, <2>2
  <2>4. slot_task'[p] = slot_task[p]
    BY <1>1, <2>3
  <2> QED
    BY <2>1, <2>2, <2>3, <2>4
<1>3. Supported'
  <2>1. \A x \in Slots : Waits(x)' => Waits(x) /\ slot_task'[x] = slot_task[x]
    BY <1>1
  <2>2. \A x \in Slots : Waits(x) => slot_task[x].id[3] # 0
    BY DEF Supported
  <2> QED
    BY <1>2, <2>1, <2>2 DEF Supported
<1>4. ASSUME NEW p \in Slots, Serves(p)', NEW y \in Busy', y # p, slot_task'[y].id \in Family(slot_task'[p])
      PROVE  Waits(y)'
  <2>1. Serves(p) /\ slot_task'[p] = slot_task[p] /\ slot_task'[y] = slot_task[y] /\ y \in Busy
    BY <1>1, <1>4
  <2>2. Waits(y)
    BY <1>4, <2>1 DEF KidsWait
  <2> QED
    BY <1>4, <2>1, <2>2
<1>5. KidsWait'
  BY <1>4 DEF KidsWait
<1> QED
  BY <1>3, <1>5

\* The slots do not change.
LEMMA RolesQuiet ==
    ASSUME Supported, KidsWait, UNCHANGED slotVars,
           \A x \in Slots : Waits(x) /\ Excused(x) => Excused(x)',
           mainpc \in {"prompt", "decode"} /\ mainpc' \notin {"prompt", "decode"} /\ mainpc' \notin FailPcs
              => \A p \in Slots : slot_state[p] # "done_prompt",
           mainpc' \in {"prompt", "decode"} /\ mainpc \notin {"prompt", "decode"}
              => \A p \in Slots : slot_state[p] # "done_prompt"
    PROVE  Supported' /\ KidsWait'
<1>1. slot_state' = slot_state /\ slot_task' = slot_task /\ Busy' = Busy /\ Busy' \subseteq Slots
  BY DEF slotVars, Busy, IsProcessing, Idle
<1>2. \A x \in Slots : Waits(x)' <=> Waits(x)
  BY <1>1 DEF Waits
<1>3. \A p \in Slots : Serves(p)' => Serves(p)
  BY <1>1 DEF Serves
<1>4. \A x \in Slots : \A p \in Slots : ~Excused(x)' /\ Serves(p) => Serves(p)'
  BY <1>1 DEF Serves, Excused
<1> QED
  BY <1>1, <1>2, <1>3, <1>4, RolesKept

\* A slot is released.
LEMMA RolesReleased ==
    ASSUME Typed, Supported, KidsWait, NEW s \in Slots, Release(s),
           mainpc \notin {"prompt", "decode"}, mainpc' \notin {"prompt", "decode"},
           \A x \in Slots : Waits(x) /\ x # s /\ Excused(x) => Excused(x)',
           \A x \in Slots : Waits(x) /\ x # s /\ ~Excused(x)' /\ Serves(s)
              => slot_task[s].id # Parent(slot_task[x].id)
    PROVE  Supported' /\ KidsWait'
<1>1. /\ \A x \in Busy' : x \in Busy /\ x # s
      /\ \A x \in Slots : x # s => slot_task'[x] = slot_task[x] /\ slot_state'[x] = slot_state[x]
      /\ slot_state'[s] = "idle"
  BY ReleaseTypes DEF Typed, Busy, Release, SlotTyped
<1>2. \A x \in Slots : Waits(x)' => Waits(x) /\ x # s
  BY <1>1 DEF Waits
<1>3. \A p \in Slots : Serves(p)' => Serves(p) /\ p # s
  BY <1>1 DEF Serves
<1>4. \A p \in Slots : p # s /\ Serves(p) => Serves(p)'
  BY <1>1 DEF Serves
<1>5. \A y \in Busy' : Waits(y) => Waits(y)'
  BY <1>1 DEF Waits, Busy
<1> QED
  BY <1>1, <1>2, <1>3, <1>4, <1>5, RolesKept DEF Busy

\* A family is launched, or all of it but its parent.
LEMMA RolesLaunched ==
    ASSUME Known, FamiliesMade, Supported, KidsWait, mainpc = "process", cur \in Root,
           NEW s \in IdleSlots, NEW n \in 0 .. cur.kids, NEW state, NEW task,
           LaunchChildren(s, n, state, task),
           \/ state = "started" /\ task = cur /\ mainpc' = "drain"
           \/ state = "idle" /\ cur' = cur /\ mainpc' = "unlaunch"
    PROVE  Supported' /\ KidsWait'
<1> DEFINE child(x) == /\ slot_state'[x] = "wait_other" /\ slot_task'[x].kids = 0
                       /\ \E k \in 1 .. n : slot_task'[x].id = <<cur.id[1], cur.id[2], k>>
           old(x)   == slot_state'[x] = slot_state[x] /\ slot_task'[x] = slot_task[x]
<1>1. \A x \in Slots : \/ x = s /\ slot_state'[x] = state /\ slot_task'[x] = task
                       \/ x \in IdleSlots \ {s} /\ child(x)
                       \/ x # s /\ old(x)
  <2>1. SlotTyped
    BY DEF Known, Typed
  <2> QED
    BY <2>1, LaunchedSlot
<1>2. /\ cur \in Held /\ Made(cur) /\ cur \in Job /\ cur.id[3] = 0 /\ cur.id \in Id
      /\ cur.kids \in Nat /\ cur.id \in Hand /\ Hand = Family(cur)
  BY RootJob, JobFields, FamJob, FamilyLemma DEF Held, Known, Origin, Hand
<1>3. \A x \in Slots : child(x) =>
         /\ slot_task'[x].id \in Family(cur) /\ slot_task'[x].id \in Id /\ slot_task'[x].id[3] # 0
         /\ cur.kids > 0 /\ Parent(slot_task'[x].id) = cur.id
  <2> SUFFICES ASSUME NEW x \in Slots, NEW k \in 1 .. n,
                      slot_task'[x].id = <<cur.id[1], cur.id[2], k>>
               PROVE  /\ slot_task'[x].id \in Family(cur) /\ slot_task'[x].id \in Id
                      /\ slot_task'[x].id[3] # 0
                      /\ cur.kids > 0 /\ Parent(slot_task'[x].id) = cur.id
    OBVIOUS
  <2>1. k \in 0 .. cur.kids /\ k # 0 /\ cur.kids > 0
    BY <1>2
  <2>2. slot_task'[x].id \in Family(cur) /\ slot_task'[x].id[3] = k
    BY <1>2, <2>1, FamilyLemma
  <2> QED
    BY <2>1, <2>2, FamilyIds
<1>4. \A p \in Busy : slot_task[p].id \notin Hand
  BY DEF Known, Owned, SlotsApart, Pending, OnSlots
<1>5. \A p \in Slots : Serves(p)' => \/ p = s /\ state = "started" /\ slot_task'[p] = cur
                                     \/ Serves(p) /\ old(p) /\ p \in Busy
  BY <1>1 DEF Serves, Busy, IsProcessing, Idle
<1>6. ASSUME NEW x \in Slots, Waits(x)'
      PROVE  /\ slot_task'[x].id[3] # 0
             /\ \/ Excused(x)'
                \/ \E p \in Slots : /\ Serves(p)' /\ slot_task'[p].id = Parent(slot_task'[x].id)
                                    /\ slot_task'[x].id \in Family(slot_task'[p])
  <2>1. x # s
    BY <1>1, <1>6 DEF Waits
  <2>2. CASE child(x)
    <3>1. CASE state = "started" /\ task = cur /\ mainpc' = "drain"
      <4>1. s \in Slots /\ slot_state'[s] = "started" /\ slot_task'[s] = cur
        BY <3>1 DEF LaunchChildren, ChildSlots, IdleSlots
      <4>2. Serves(s)'
        BY <1>3, <2>2, <4>1 DEF Serves
      <4> QED
        BY <1>3, <2>2, <4>1, <4>2
    <3>2. CASE state = "idle" /\ cur' = cur /\ mainpc' = "unlaunch"
      <4>1. Excused(x)'
        BY <1>3, <2>2, <3>2 DEF Excused
      <4> QED
        BY <1>3, <2>2, <4>1
    <3> QED
      BY <3>1, <3>2
  <2>3. CASE old(x)
    <3>1. Waits(x) /\ ~Excused(x)
      BY <1>6, <2>3 DEF Waits, Excused, FailPcs
    <3>2. PICK p \in Slots : /\ Serves(p) /\ slot_task[p].id = Parent(slot_task[x].id)
                             /\ slot_task[x].id \in Family(slot_task[p])
      BY <3>1 DEF Supported
    <3>3. p \notin IdleSlots
      BY <3>2 DEF Serves, IdleSlots, Idle
    <3>4. old(p)
      BY <1>1, <3>3
    <3>5. Serves(p)'
      BY <3>2, <3>4 DEF Serves
    <3> QED
      BY <2>3, <3>1, <3>2, <3>4, <3>5 DEF Supported
  <2> QED
    BY <1>1, <2>1, <2>2, <2>3
<1>7. ASSUME NEW p \in Slots, Serves(p)', NEW y \in Busy', y # p, slot_task'[y].id \in Family(slot_task'[p])
      PROVE  Waits(y)'
  <2>0. y \in Slots /\ slot_state'[y] # "idle"
    BY <1>7 DEF Busy, IsProcessing, Idle
  <2>1. CASE child(y)
    BY <2>1 DEF Waits
  <2>2. CASE p = s /\ slot_task'[p] = cur /\ old(y)
    <3>1. y \in Busy
      BY <2>0, <2>2 DEF Busy, IsProcessing, Idle
    <3> QED
      BY <1>2, <1>4, <1>7, <2>2, <3>1
  <2>3. CASE Serves(p) /\ old(p) /\ p \in Busy /\ old(y)
    <3>1. y \in Busy
      BY <2>0, <2>3 DEF Busy, IsProcessing, Idle
    <3>2. Waits(y)
      BY <1>7, <2>3, <3>1 DEF KidsWait
    <3> QED
      BY <2>3, <3>2 DEF Waits
  <2>4. CASE Serves(p) /\ old(p) /\ p \in Busy /\ y = s /\ slot_task'[y] = task /\ slot_state'[y] = state
    <3>1. task = cur
      BY <2>0, <2>4
    <3>2. slot_task[p] \in Root /\ cur.id \in Family(slot_task[p])
      BY <1>7, <2>4, <3>1 DEF FamiliesMade, Serves
    <3>3. cur.id = slot_task[p].id
      BY <1>2, <3>2, FamilyIds
    <3> QED
      BY <1>2, <1>4, <2>4, <3>3
  <2> QED
    BY <1>1, <1>5, <1>7, <2>0, <2>1, <2>2, <2>3, <2>4
<1> HIDE DEF child, old
<1>8. Supported'
  BY <1>6 DEF Supported
<1>9. KidsWait'
  BY <1>7 DEF KidsWait
<1> QED
  BY <1>8, <1>9

LEMMA MadeStep ==
    ASSUME Typed, Numbered, [Next]_vars, NEW t \in Root, Made(t)
    PROVE  Made(t)'
<1>1. CASE UNCHANGED tasks
  BY <1>1 DEF Made
<1>2. ASSUME NEW c \in Clients, AddWaiting(c)
      PROVE  Made(t)'
  <2>1. rpc[c] = "idle" /\ \E new : tasks' = [tasks EXCEPT ![c] = new]
    BY <1>2 DEF AddWaiting
  <2>2. t.id[1] \in Clients /\ t.id[1] # c
    BY <2>1, RootJob, JobFields, IdFields DEF Numbered, Made
  <2>3. tasks'[t.id[1]] = tasks[t.id[1]]
    BY <2>1, <2>2 DEF Typed, ReaderTyped
  <2> QED
    BY <2>3 DEF Made
<1> QED
  BY <1>1, <1>2, TasksUnchanged DEF Next

\* Launches aside, process_single_task() only releases slots.
LEMMA ProcessSlots ==
    ASSUME Typed, ProcessStep, ~\E s \in Slots : Launch(s),
           ~\E s \in Slots : \E n \in 0 .. NSlots - 1 : LaunchFails(s, n)
    PROVE  /\ SlotsKept
           /\ mainpc' = "unlaunch" => mainpc = "unlaunch" /\ cur' = cur
<1>1. UNCHANGED slotVars \/ \E s : Release(s)
  BY DEF ProcessStep, PopTask, DrainDone, WaitForTasks, DeferCompletion, Unlaunch,
     UnlaunchDone, ProcessCancel, ProcessNextResponse, ProcessMetrics, DeferSlotAction,
     ProcessSlotAction
<1>2. ASSUME NEW s, slot_state' = [slot_state EXCEPT ![s] = "idle"],
             slot_task' = [slot_task EXCEPT ![s] = NoTask]
      PROVE  SlotsKept
  BY <1>2 DEF SlotsKept, IsProcessing, Idle, Typed, SlotTyped
<1>3. mainpc' = "unlaunch" => mainpc = "unlaunch" /\ cur' = cur
  BY DEF ProcessStep, PopTask, DrainDone, WaitForTasks, DeferCompletion, Unlaunch,
     UnlaunchDone, ProcessCancel, ProcessNextResponse, ProcessMetrics, DeferSlotAction,
     ProcessSlotAction, BackToDrain, loopVars
<1> QED
  BY <1>1, <1>2, <1>3, SlotsKeptUnchanged DEF Release

\* What a launch, or one that fails, has in hand.
LEMMA LaunchFacts ==
    ASSUME Typed, NEW s \in Slots
    PROVE  /\ Launch(s) =>
                /\ mainpc = "process" /\ mainpc' = "drain" /\ cur \in Root /\ s \in IdleSlots
                /\ cur.kids \in 0 .. cur.kids /\ LaunchChildren(s, cur.kids, "started", cur)
                /\ UNCHANGED <<queueVars, resultVars, readerVars>>
           /\ \A n \in 0 .. NSlots - 1 : LaunchFails(s, n) =>
                /\ mainpc = "process" /\ mainpc' = "unlaunch" /\ cur \in Root /\ s \in IdleSlots
                /\ n \in 0 .. cur.kids /\ LaunchChildren(s, n, "idle", NoTask)
                /\ cur' = cur /\ UNCHANGED <<queueVars, readerVars>>
<1>1. IsCompletion => cur \in Root /\ cur.kids \in Nat
  BY JobFields, RootJob DEF IsCompletion, Typed, LoopTyped, ReaderTypes, CompletionTypes
<1>2. Launch(s) => cur.kids \in 0 .. cur.kids
  BY <1>1 DEF Launch
<1>3. \A n \in 0 .. NSlots - 1 : LaunchFails(s, n) => n \in 0 .. cur.kids
  BY <1>1, NSlotsAssumption DEF LaunchFails
<1> QED
  BY <1>1, <1>2, <1>3 DEF Launch, LaunchFails, IsCompletion, Candidates, BackToDrain

LEMMA FamiliesStep == Known /\ FamiliesMade /\ [Next]_vars => FamiliesMade'
<1> SUFFICES ASSUME Known, FamiliesMade, [Next]_vars
             PROVE  FamiliesMade'
  OBVIOUS
<1>0. Typed /\ \A t \in Root : Made(t) => Made(t)'
  BY MadeStep DEF Known
<1>1. ASSUME SlotsKept, mainpc' = "unlaunch" => mainpc = "unlaunch" /\ cur' = cur
      PROVE  FamiliesMade'
  BY <1>0, <1>1, FamiliesKept DEF SlotsKept, Busy
<1>2. ASSUME NEW s \in Slots, Launch(s)
      PROVE  FamiliesMade'
  <2>1. /\ mainpc = "process" /\ mainpc' = "drain" /\ cur \in Root /\ s \in IdleSlots
        /\ cur.kids \in 0 .. cur.kids /\ LaunchChildren(s, cur.kids, "started", cur)
        /\ UNCHANGED readerVars
    BY <1>0, <1>2, LaunchFacts
  <2> QED
    BY <2>1, FamiliesLaunched DEF readerVars
<1>3. ASSUME NEW s \in Slots, NEW n \in 0 .. NSlots - 1, LaunchFails(s, n)
      PROVE  FamiliesMade'
  <2>1. /\ mainpc = "process" /\ mainpc' = "unlaunch" /\ cur \in Root /\ s \in IdleSlots
        /\ n \in 0 .. cur.kids /\ LaunchChildren(s, n, "idle", NoTask)
        /\ cur' = cur /\ UNCHANGED readerVars
    BY <1>0, <1>3, LaunchFacts
  <2> QED
    BY <2>1, FamiliesLaunched DEF readerVars
<1>4. CASE ProcessStep
  BY <1>0, <1>1, <1>2, <1>3, <1>4, ProcessSlots
<1>5. CASE UpdateStep
  <2>1. mainpc' # "unlaunch"
    BY <1>5, ReleaseLoops DEF UpdateStep, UpdateIdle, UpdateBegin, ShiftError, ShiftDone, PromptSkip,
       PromptAdd, PromptEnds, PromptDone, DecodeOk, DecodeFails, FailSlot, SampleEnds,
       SampleContinues, UpdateDone, ReleaseSlot, SendAndStop
  <2> QED
    BY <1>0, <1>1, <1>5, <2>1, UpdateSlots DEF SlotsKept
<1>6. ASSUME NEW c \in Clients, AddWaiting(c) \/ ReaderStep(c) \/ Leave(c)
      PROVE  FamiliesMade'
  <2>1. UNCHANGED <<slotVars, loopVars, mainpc>>
    BY <1>6 DEF AddWaiting, ReaderStep, PostTasks, Receive, StopRemove, StopPurge, StopCancel, Leave
  <2> QED
    BY <1>1, <2>1, SlotsKeptUnchanged DEF loopVars
<1>7. CASE UNCHANGED vars
  BY <1>1, <1>7, SlotsKeptUnchanged DEF vars, loopVars
<1> QED
  BY <1>4, <1>5, <1>6, <1>7 DEF Next

LEMMA SampledStep ==
    ASSUME "prompt" \notin Faults, Typed, SampledReleases, [Next]_vars
    PROVE  SampledReleases'
<1>1. CASE mainpc' \notin {"prompt_release", "shift_release", "sample_release"}
  BY <1>1 DEF SampledReleases
<1>2. ASSUME NEW s \in Slots, ShiftError(s)
      PROVE  SampledReleases'
  BY <1>2 DEF ShiftError, SendAndStop, AtOrAfterCursor, SampledReleases, slotVars
<1>3. ASSUME NEW s \in Slots, SampleEnds(s)
      PROVE  SampledReleases'
  BY <1>3 DEF SampleEnds, SendAndStop, IsNext, SampleSlots, AtOrAfterCursor, SampledReleases, slotVars
<1>4. CASE UNCHANGED <<slotVars, loopVars, mainpc>>
  BY <1>4 DEF slotVars, loopVars, SampledReleases
<1>5. ProcessStep => mainpc' \in {"process", "update", "drain", "unlaunch"}
  BY DEF ProcessStep, PopTask, DrainDone, WaitForTasks, DeferCompletion, Launch, LaunchFails,
         Unlaunch, UnlaunchDone, ProcessCancel, ProcessNextResponse, ProcessMetrics,
         DeferSlotAction, ProcessSlotAction, BackToDrain
<1>6. UpdateStep => \/ mainpc' \notin {"prompt_release", "shift_release", "sample_release"}
                    \/ \E s \in Slots : ShiftError(s) \/ SampleEnds(s)
  BY ReleaseLoops DEF UpdateStep, UpdateIdle, UpdateBegin, ShiftDone, PromptSkip,
       PromptAdd, PromptEnds, PromptDone, DecodeOk, DecodeFails, FailSlot,
       SampleContinues, UpdateDone, ReleaseSlot, SendAndStop
<1>7. ASSUME NEW c \in Clients, AddWaiting(c) \/ ReaderStep(c) \/ Leave(c)
      PROVE  UNCHANGED <<slotVars, loopVars, mainpc>>
  BY <1>7 DEF AddWaiting, ReaderStep, PostTasks, Receive, StopRemove, StopPurge, StopCancel, Leave
<1>8. UNCHANGED vars => UNCHANGED <<slotVars, loopVars, mainpc>>
  BY DEF vars
<1> QED
  BY <1>1, <1>2, <1>3, <1>4, <1>5, <1>6, <1>7, <1>8 DEF Next

\* process_single_task() leaves no child without the parent that it waits for.
LEMMA RolesProcess ==
    ASSUME Known, Served, ProcessStep
    PROVE  Supported' /\ KidsWait'
<1> USE DEF Served
<1>0. Typed
  BY DEF Known
<1>1. /\ mainpc \notin UpdatePcs /\ mainpc' \notin UpdatePcs
      /\ mainpc' \in {"process", "update", "drain", "unlaunch"}
  BY DEF ProcessStep, PopTask, DrainDone, WaitForTasks, DeferCompletion, Launch, LaunchFails,
         Unlaunch, UnlaunchDone, ProcessCancel, ProcessNextResponse, ProcessMetrics,
         DeferSlotAction, ProcessSlotAction, BackToDrain, IsCompletion, UpdatePcs, FailPcs
<1>2. mainpc \notin {"prompt", "decode"} /\ mainpc' \notin {"prompt", "decode"} /\ mainpc \notin FailPcs
  BY <1>1 DEF UpdatePcs
<1>3. mainpc # "unlaunch" => \A x : ~Excused(x)
  BY <1>2 DEF Excused
<1>4. CASE UNCHANGED slotVars /\ mainpc # "unlaunch"
  BY <1>2, <1>3, <1>4, RolesQuiet
<1>5. CASE UnlaunchDone
  <2>1. LaunchedFamily = {} /\ UNCHANGED slotVars /\ mainpc = "unlaunch"
    BY <1>5 DEF UnlaunchDone
  <2>2. \A x \in Slots : Waits(x) => ~Excused(x)
    BY <1>2, <2>1 DEF LaunchedFamily, Waits, Excused, IsProcessing, Idle
  <2> QED
    BY <1>2, <2>1, <2>2, RolesQuiet
<1>6. ASSUME NEW s \in Slots, Launch(s)
      PROVE  Supported' /\ KidsWait'
  <2>1. /\ mainpc = "process" /\ mainpc' = "drain" /\ cur \in Root /\ s \in IdleSlots
        /\ cur.kids \in 0 .. cur.kids /\ LaunchChildren(s, cur.kids, "started", cur)
    BY <1>0, <1>6, LaunchFacts
  <2> QED
    BY <2>1, RolesLaunched
<1>7. ASSUME NEW s \in Slots, NEW n \in 0 .. NSlots - 1, LaunchFails(s, n)
      PROVE  Supported' /\ KidsWait'
  <2>1. /\ mainpc = "process" /\ mainpc' = "unlaunch" /\ cur \in Root /\ s \in IdleSlots
        /\ n \in 0 .. cur.kids /\ LaunchChildren(s, n, "idle", NoTask) /\ cur' = cur
    BY <1>0, <1>7, LaunchFacts
  <2> QED
    BY <2>1, RolesLaunched
<1>8. ASSUME NEW s \in Slots, Unlaunch(s)
      PROVE  Supported' /\ KidsWait'
  <2>1. /\ mainpc = "unlaunch" /\ mainpc' = "unlaunch" /\ cur' = cur /\ Release(s)
        /\ IsProcessing(s) /\ slot_task[s].id \in Family(cur)
    BY <1>8 DEF Unlaunch, LaunchedFamily, loopVars
  <2>2. cur \in Root /\ s \in Busy
    BY <1>0, <2>1 DEF Typed, LoopTyped, Busy
  <2>3. ASSUME NEW x \in Slots, slot_task[s].id = Parent(slot_task[x].id)
        PROVE  FALSE
    <3>1. slot_task[s].id[3] = 0
      BY <2>3 DEF Parent
    <3>2. slot_task[s].id = cur.id
      BY <2>1, <2>2, <3>1, FamilyIds
    <3> QED
      BY <2>1, <2>2, <3>2 DEF FamiliesMade, OnSlots
  <2>4. \A x \in Slots : x # s /\ Excused(x) => Excused(x)'
    <3>1. \A x \in Slots : x # s => slot_task'[x] = slot_task[x]
      BY <1>0, <2>1, ReleaseTypes DEF Typed
    <3> QED
      BY <1>2, <2>1, <3>1 DEF Excused
  <2> QED
    BY <1>0, <1>2, <2>1, <2>3, <2>4, RolesReleased
<1>9. CASE ProcessCancel
  <2>1. /\ mainpc = "process" /\ cur.type = "cancel"
        /\ LET hit == {s \in Slots : IsProcessing(s) /\ slot_task[s].id = cur.id_target}
           IN IF hit = {} THEN UNCHANGED <<queueVars, slotVars>>
              ELSE Release(CHOOSE s \in hit : \A x \in hit : s <= x)
    BY <1>9 DEF ProcessCancel
  <2> DEFINE hit == {s \in Slots : IsProcessing(s) /\ slot_task[s].id = cur.id_target}
             s == CHOOSE s \in hit : \A x \in hit : s <= x
  <2>2. CASE hit = {}
    BY <1>4, <2>1, <2>2
  <2>3. CASE hit # {}
    <3>1. Release(s)
      BY <2>1, <2>3
    <3>2. hit \in SUBSET Nat /\ IsFiniteSet(hit)
      BY SlotFacts, FS_Subset
    <3>3. \E x \in hit : \A y \in hit : x <= y
      BY <2>3, <3>2, LeastLemma
    <3>4. s \in hit
      BY <3>3
    <3>5. s \in Slots /\ s \in Busy /\ slot_task[s].id = cur.id_target
      BY <3>4 DEF Busy
    <3> HIDE DEF s, hit
    <3>6. slot_task[s].id \in Id /\ slot_task[s].id[1] \in Clients
      BY <3>5, SlotIds DEF Known
    <3>7. CancelFor(slot_task[s].id[1])
      <4>1. cur \in Cancels
        BY <2>1, <3>5, <3>6 DEF Cancels
      <4> QED
        BY <3>5, <4>1 DEF CancelFor
    <3>8. ASSUME NEW x \in Slots, Waits(x), slot_task[s].id = Parent(slot_task[x].id)
          PROVE  FALSE
      <4>1. slot_task[x].id[1] = slot_task[s].id[1]
        BY <3>8 DEF Parent
      <4> QED
        BY <1>3, <2>1, <3>6, <3>7, <3>8, <4>1 DEF Quits, QuitOk, Quit
    <3>9. \A x : ~Excused(x)
      BY <1>3, <2>1
    <3> QED
      BY <1>0, <1>2, <3>1, <3>5, <3>8, <3>9, RolesReleased
  <2> QED
    BY <2>2, <2>3
<1>10. \/ UNCHANGED slotVars /\ mainpc # "unlaunch"
       \/ UnlaunchDone \/ ProcessCancel \/ \E s \in Slots : Launch(s) \/ Unlaunch(s)
       \/ \E s \in Slots : \E n \in 0 .. NSlots - 1 : LaunchFails(s, n)
  BY DEF ProcessStep, PopTask, DrainDone, WaitForTasks, DeferCompletion, IsCompletion,
         ProcessNextResponse, ProcessMetrics, DeferSlotAction, ProcessSlotAction
<1> QED
  BY <1>4, <1>5, <1>6, <1>7, <1>8, <1>9, <1>10

\* update_slots() leaves no child without the parent that it waits for.
LEMMA RolesUpdate ==
    ASSUME "prompt" \notin Faults, Known, Served, UpdateStep
    PROVE  Supported' /\ KidsWait'
<1> USE DEF Served
<1>0. Typed /\ Slots \in SUBSET Nat
  BY SlotFacts DEF Known
<1>1. mainpc \notin {"unlaunch", "prompt_release"}
  BY DEF UpdateStep, UpdateIdle, UpdateBegin, ShiftError, ShiftDone, PromptSkip, PromptAdd, PromptEnds,
     PromptDone, DecodeOk, DecodeFails, FailSlot, SampleEnds, SampleContinues, UpdateDone,
     ReleaseSlot, ReleaseLoop, SampledReleases
<1>2. \A x : Excused(x) => mainpc \in FailPcs
  BY <1>1 DEF Excused
<1>3. \A x : mainpc' \in FailPcs => Excused(x)'
  BY DEF Excused
<1>4. mainpc \notin {"prompt", "decode", "sample", "sample_release"} \cup FailPcs
        => \A p \in Slots : slot_state[p] # "done_prompt"
  BY <1>1 DEF Known, Phases, DonePrompts
<1>5. CASE UpdateIdle \/ UpdateBegin \/ (\E s \in Slots : ShiftError(s)) \/ ShiftDone
  <2>1. /\ UNCHANGED slotVars /\ mainpc \in {"update", "shift"}
        /\ mainpc' \in {"wait", "shift", "shift_release", "prompt"}
    BY <1>5 DEF UpdateIdle, UpdateBegin, ShiftError, SendAndStop, ShiftDone
  <2>2. mainpc \notin FailPcs /\ \A p \in Slots : slot_state[p] # "done_prompt"
    BY <1>4, <2>1 DEF FailPcs
  <2> QED
    BY <1>2, <2>1, <2>2, RolesQuiet
<1>6. CASE \E s \in Slots : PromptSkip(s) \/ SampleEnds(s)
  <2>1. /\ UNCHANGED slotVars
        /\ \/ mainpc = "prompt" /\ mainpc' = "prompt"
           \/ mainpc = "sample" /\ mainpc' = "sample_release"
    BY <1>6 DEF PromptSkip, SampleEnds, SendAndStop
  <2>2. mainpc \notin FailPcs
    BY <2>1 DEF FailPcs
  <2> QED
    BY <1>2, <2>1, <2>2, RolesQuiet
<1>7. CASE PromptDone
  <2>1. UNCHANGED slotVars /\ mainpc = "prompt" /\ mainpc \notin FailPcs
    BY <1>7 DEF PromptDone, FailPcs
  <2>2. CASE in_batch = {}
    <3>1. \A p \in Slots : slot_state[p] # "done_prompt"
      BY <2>1, <2>2 DEF Known, Phases, DonePrompts
    <3> QED
      BY <1>2, <2>1, <3>1, RolesQuiet
  <2>3. CASE in_batch # {}
    <3>1. mainpc' = "decode"
      BY <1>7, <2>3 DEF PromptDone
    <3> QED
      BY <1>2, <2>1, <3>1, RolesQuiet
  <2> QED
    BY <2>2, <2>3
<1>8. CASE DecodeFails \/ \E s \in Slots : FailSlot(s)
  <2>1. UNCHANGED slotVars /\ mainpc' \in FailPcs /\ mainpc' \notin {"prompt", "decode"}
    BY <1>8 DEF DecodeFails, FailSlot, SendAndStop, FailPcs
  <2> QED
    BY <1>3, <2>1, RolesQuiet
<1>9. CASE UpdateDone
  <2>1. UNCHANGED slotVars /\ mainpc' = "wait" /\ mainpc \notin {"prompt", "decode"}
    BY <1>9 DEF UpdateDone
  <2>2. \A x \in Slots : Waits(x) => mainpc \notin FailPcs
    <3>1. CASE mainpc = "fail" /\ BusySlots = {}
      BY <3>1 DEF BusySlots, Known, Phases, Failing, FailPcs, Waits, IsProcessing, Idle
    <3>2. CASE mainpc = "sample"
      BY <3>2 DEF FailPcs
    <3> QED
      BY <1>9, <3>1, <3>2 DEF UpdateDone
  <2> QED
    BY <1>2, <2>1, <2>2, RolesQuiet
<1>10. ASSUME NEW s \in Slots, PromptAdd(s)
       PROVE  Supported' /\ KidsWait'
  <2>1. PICK st \in {"processing_prompt", "done_prompt"} :
           slot_state' = [slot_state EXCEPT ![s] = st]
    BY <1>10 DEF PromptAdd
  <2>2. /\ mainpc = "prompt" /\ mainpc' = "prompt" /\ slot_task' = slot_task /\ mainpc \notin FailPcs
        /\ slot_state[s] \in {"started", "processing_prompt"}
    BY <1>10 DEF PromptAdd, IsNext, PromptSlots, AtOrAfterCursor, FailPcs
  <2>3. \A x \in Slots : slot_state'[x] = IF x = s THEN st ELSE slot_state[x]
    BY <1>0, <2>1 DEF Typed, SlotTyped
  <2>4. \A x \in Slots : (Waits(x)' <=> Waits(x)) /\ (Serves(x)' <=> Serves(x))
    BY <2>2, <2>3 DEF Waits, Serves
  <2>5. Busy' = Busy /\ Busy' \subseteq Slots
    BY <2>2, <2>3 DEF Busy, IsProcessing, Idle
  <2> QED
    BY <1>2, <2>2, <2>4, <2>5, RolesKept
<1>11. CASE DecodeOk
  <2>1. /\ mainpc = "decode" /\ mainpc' = "sample" /\ slot_task' = slot_task /\ mainpc \notin FailPcs
        /\ \A x \in Slots : slot_state'[x] = IF x \in Activated THEN "done_prompt" ELSE slot_state[x]
    BY <1>11 DEF DecodeOk, FailPcs
  <2>2. \A x \in Activated : Waits(x)
    BY DEF Activated, Waits
  <2>3. Busy' = Busy /\ Busy' \subseteq Slots
    BY <2>1, <2>2 DEF Busy, IsProcessing, Idle, Waits
  <2>4. \A x \in Slots : Waits(x)' => Waits(x) /\ x \notin Activated
    BY <2>1 DEF Waits
  <2>5. \A p \in Slots : Serves(p)' => /\ Serves(p) /\ slot_state[p] \in {"started", "processing_prompt"}
    BY <2>1 DEF Serves
  <2>6. ASSUME NEW x \in Slots, NEW p \in Slots, Waits(x)', Serves(p),
               slot_task[p].id = Parent(slot_task[x].id)
        PROVE  Serves(p)'
    <3>1. slot_state[p] # "done_prompt"
      BY <2>4, <2>6 DEF Activated, Waits, Serves, IsParent
    <3>2. p \notin Activated
      BY <2>2, <2>6 DEF Waits, Serves
    <3> QED
      BY <2>1, <2>6, <3>1, <3>2 DEF Serves
  <2>7. ASSUME NEW p \in Slots, NEW y \in Busy', Serves(p)', Waits(y),
               slot_task[y].id \in Family(slot_task[p])
        PROVE  Waits(y)'
    <3>1. p \in Busy /\ slot_task[p].kids > 0 /\ y \in Slots
      BY <2>3, <2>5, <2>7 DEF Serves, Busy, IsProcessing, Idle
    <3>2. slot_task[p].id = Parent(slot_task[y].id)
      BY <2>7, <3>1, FamilyIds DEF FamiliesMade
    <3>3. ASSUME NEW s \in Slots, slot_state[s] = "done_prompt", slot_task[s].id = Parent(slot_task[y].id)
          PROVE  FALSE
      <4>1. s \in Busy
        BY <3>3 DEF Busy, IsProcessing, Idle
      <4>2. s = p
        BY <3>1, <3>2, <3>3, <4>1 DEF Known, Owned, SlotsApart
      <4> QED
        BY <2>5, <2>7, <3>3, <4>2
    <3>4. y \notin Activated
      BY <3>3 DEF Activated
    <3> QED
      BY <2>1, <2>7, <3>1, <3>4 DEF Waits
  <2> QED
    BY <1>2, <2>1, <2>3, <2>4, <2>5, <2>6, <2>7, RolesKept
<1>12. ASSUME NEW s \in Slots, SampleContinues(s)
       PROVE  Supported' /\ KidsWait'
  <2>1. /\ mainpc = "sample" /\ mainpc' = "sample" /\ slot_task' = slot_task /\ mainpc \notin FailPcs
        /\ slot_state[s] \in {"done_prompt", "generating"}
        /\ slot_state' = [slot_state EXCEPT ![s] = "generating"]
    BY <1>12 DEF SampleContinues, IsNext, SampleSlots, AtOrAfterCursor, FailPcs
  <2>2. \A x \in Slots : slot_state'[x] = IF x = s THEN "generating" ELSE slot_state[x]
    BY <1>0, <2>1 DEF Typed, SlotTyped
  <2>3. \A x \in Slots : (Waits(x)' <=> Waits(x)) /\ (Serves(x)' <=> Serves(x))
    BY <2>1, <2>2 DEF Waits, Serves
  <2>4. Busy' = Busy /\ Busy' \subseteq Slots
    BY <2>1, <2>2 DEF Busy, IsProcessing, Idle
  <2> QED
    BY <1>2, <2>1, <2>3, <2>4, RolesKept
<1>13. CASE ReleaseSlot
  <2>1. cursor \in Slots /\ Release(cursor) /\ mainpc \in DOMAIN ReleaseLoop /\ mainpc' = ReleaseLoop[mainpc]
    BY <1>0, <1>13 DEF ReleaseSlot, Typed, ReleaseTyped
  <2>2. \/ mainpc = "shift_release" /\ mainpc' = "shift"
        \/ mainpc = "fail_release" /\ mainpc' = "fail"
        \/ mainpc = "sample_release" /\ mainpc' = "sample"
    BY <1>1, <2>1 DEF ReleaseLoop
  <2>3. mainpc \in FailPcs => mainpc' \in FailPcs
    BY <2>2 DEF FailPcs
  <2>4. mainpc' \notin FailPcs => ~Serves(cursor)
    BY <2>2 DEF FailPcs, SampledReleases, Serves
  <2> QED
    BY <1>0, <1>2, <1>3, <2>1, <2>2, <2>3, <2>4, RolesReleased
<1>14. \A s \in Slots : ~PromptEnds(s)
  BY DEF PromptEnds
<1> QED
  BY <1>5, <1>6, <1>7, <1>8, <1>9, <1>10, <1>11, <1>12, <1>13, <1>14 DEF UpdateStep

LEMMA RolesStep ==
    ASSUME "prompt" \notin Faults, Known, Served, [Next]_vars
    PROVE  Supported' /\ KidsWait'
<1>1. ASSUME UNCHANGED <<slotVars, loopVars, mainpc>>
      PROVE  Supported' /\ KidsWait'
  <2>1. \A x : Excused(x) => Excused(x)'
    BY <1>1 DEF Excused, slotVars, loopVars
  <2> QED
    BY <1>1, <2>1, RolesQuiet DEF Served
<1>2. ASSUME NEW c \in Clients, AddWaiting(c) \/ ReaderStep(c) \/ Leave(c)
      PROVE  UNCHANGED <<slotVars, loopVars, mainpc>>
  BY <1>2 DEF AddWaiting, ReaderStep, PostTasks, Receive, StopRemove, StopPurge, StopCancel, Leave
<1>3. UNCHANGED vars => UNCHANGED <<slotVars, loopVars, mainpc>>
  BY DEF vars
<1> QED
  BY <1>1, <1>2, <1>3, RolesProcess, RolesUpdate DEF Next

-----------------------------------------------------------------------------
\* A task in a queue or in hand is pending with all its family.
HeldInPending == \A t \in Held : Family(t) \subseteq Pending

LEMMA HeldPending == HeldInPending
<1> SUFFICES ASSUME NEW t \in Held
             PROVE  Family(t) \subseteq Pending
  BY DEF HeldInPending
<1>1. t \in Root /\ Fam(t) = Family(t)
  BY RootJob, FamJob DEF Held
<1>2. CASE t \in Elems(queue_tasks)
  BY <1>1, <1>2, InMember DEF Elems, Pending
<1>3. CASE t \in Elems(queue_tasks_deferred)
  BY <1>1, <1>3, InMember DEF Elems, Pending
<1>4. CASE mainpc = "process" /\ t = cur
  BY <1>1, <1>4 DEF Pending, Hand
<1> QED
  BY <1>2, <1>3, <1>4 DEF Held

\* The main thread makes no CANCEL.
LEMMA CancelsMain == Typed /\ (ProcessStep \/ UpdateStep) => Cancels' \subseteq Cancels
<1> SUFFICES ASSUME Typed, ProcessStep \/ UpdateStep
             PROVE  Cancels' \subseteq Cancels
  OBVIOUS
<1>0. \A t \in Elems(queue_tasks_deferred) : t.type # "cancel"
  BY ElementOfSeq, LenProperties, RootJob, JobFields
     DEF Elems, Typed, QueueTyped, ReaderTypes, CompletionTypes
<1>1. CASE PopTask
  <2>1. queue_tasks # <<>> /\ cur' = Head(queue_tasks) /\ queue_tasks' = Tail(queue_tasks)
    BY <1>1 DEF PopTask
  <2>2. /\ Tail(queue_tasks) \in Seq(Root \cup Control)
        /\ Len(Tail(queue_tasks)) = Len(queue_tasks) - 1
        /\ \A i \in 1 .. Len(Tail(queue_tasks)) : Tail(queue_tasks)[i] = queue_tasks[i + 1]
    BY <2>1, HeadTailProperties DEF Typed, QueueTyped
  <2>3. Len(queue_tasks) \in Nat \ {0} /\ DOMAIN queue_tasks = 1 .. Len(queue_tasks)
        /\ Head(queue_tasks) = queue_tasks[1]
    BY <2>1, LenProperties, EmptySeq DEF Typed, QueueTyped
  <2>4. DOMAIN Tail(queue_tasks) = 1 .. Len(queue_tasks) - 1
    BY <2>2, LenProperties
  <2>5. Head(queue_tasks) \in Elems(queue_tasks)
    <3>1. 1 \in DOMAIN queue_tasks
      BY <2>3
    <3> QED
      BY <2>3, <3>1 DEF Elems
  <2>6. Elems(Tail(queue_tasks)) \subseteq Elems(queue_tasks)
    <3>1. \A i \in DOMAIN Tail(queue_tasks) :
             i + 1 \in DOMAIN queue_tasks /\ Tail(queue_tasks)[i] = queue_tasks[i + 1]
      BY <2>2, <2>3, <2>4
    <3> QED
      BY <3>1 DEF Elems
  <2> QED
    BY <2>1, <2>5, <2>6 DEF Cancels
<1>2. ASSUME UNCHANGED queueVars \/ (\E s : PopDeferred(s)) \/ queue_tasks' = queue_tasks,
             mainpc' # "process"
      PROVE  Cancels' \subseteq Cancels
  <2>1. Elems(queue_tasks') \subseteq Elems(queue_tasks) \cup Elems(queue_tasks_deferred)
    BY <1>2, ElemsPopDeferred DEF queueVars, Typed
  <2> QED
    BY <1>0, <1>2, <2>1 DEF Cancels
<1>3. CASE UpdateBegin
  <2>1. queue_tasks' = Append(queue_tasks, NextResponse) /\ mainpc' = "shift"
    BY <1>3 DEF UpdateBegin
  <2>2. queue_tasks' = queue_tasks \o <<NextResponse>>
    BY <2>1, AppendIsConcat DEF Typed, QueueTyped
  <2>3. <<NextResponse>> \in Seq(Root \cup Control)
    BY OrdersTyped
  <2>4. Elems(queue_tasks') \subseteq Elems(queue_tasks) \cup {NextResponse}
    BY <2>2, <2>3, ElemsConcat, ElemsSingle DEF Typed, QueueTyped
  <2>5. NextResponse.type # "cancel"
    BY DEF NextResponse
  <2> QED
    BY <2>1, <2>4, <2>5 DEF Cancels
<1>4. CASE ProcessStep /\ ~PopTask
  <2>1. UNCHANGED queueVars \/ (\E s : PopDeferred(s)) \/ queue_tasks' = queue_tasks
    BY <1>4 DEF ProcessStep, DrainDone, WaitForTasks, Launch, LaunchFails, Unlaunch, UnlaunchDone,
       ProcessCancel, ProcessNextResponse, ProcessMetrics, ProcessSlotAction, Release,
       DeferCompletion, DeferSlotAction, Defer
  <2>2. mainpc' # "process"
    BY <1>4 DEF ProcessStep, DrainDone, WaitForTasks, Launch, LaunchFails, Unlaunch, UnlaunchDone,
       ProcessCancel, ProcessNextResponse, ProcessMetrics, ProcessSlotAction, BackToDrain,
       DeferCompletion, DeferSlotAction
  <2> QED
    BY <1>2, <2>1, <2>2
<1>5. CASE UpdateStep /\ ~UpdateBegin
  <2>1. UNCHANGED queueVars \/ \E s : PopDeferred(s)
    BY <1>5 DEF UpdateStep, UpdateIdle, ShiftError, ShiftDone, PromptSkip, PromptAdd, PromptEnds,
       PromptDone, DecodeOk, DecodeFails, FailSlot, SampleEnds, SampleContinues, UpdateDone,
       ReleaseSlot, Release, SendAndStop
  <2>2. mainpc' # "process"
    BY <1>5, ReleaseLoops DEF UpdateStep, UpdateIdle, ShiftError, ShiftDone, PromptSkip, PromptAdd,
       PromptEnds, PromptDone, DecodeOk, DecodeFails, FailSlot, SampleEnds, SampleContinues,
       UpdateDone, ReleaseSlot, SendAndStop
  <2> QED
    BY <1>2, <2>1, <2>2
<1> QED
  BY <1>1, <1>3, <1>4, <1>5

\* A slot that waits after a step of the main thread waited before, and is
\* excused if it was, or got a child of the task in hand.
LEMMA WaitersMain ==
    ASSUME Known, ProcessStep \/ UpdateStep, NEW x \in Slots, Waits(x)'
    PROVE  \/ Waits(x) /\ slot_task'[x] = slot_task[x] /\ (Excused(x) => Excused(x)')
           \/ cur \in Held /\ cur.kids > 0 /\ slot_task'[x].id[1] = cur.id[1]
<1>0. Typed
  BY DEF Known
<1>1. ASSUME UNCHANGED slotVars, Waits(x) /\ Excused(x) => Excused(x)'
      PROVE  Waits(x) /\ slot_task'[x] = slot_task[x] /\ (Excused(x) => Excused(x)')
  BY <1>1 DEF Waits, slotVars
<1>2. ASSUME NEW s \in Slots, Release(s), mainpc \in FailPcs => mainpc' \in FailPcs,
             mainpc = "unlaunch" => mainpc' = mainpc /\ cur' = cur
      PROVE  Waits(x) /\ slot_task'[x] = slot_task[x] /\ (Excused(x) => Excused(x)')
  <2>1. x # s => slot_task'[x] = slot_task[x] /\ slot_state'[x] = slot_state[x]
    BY <1>0, <1>2, ReleaseTypes DEF Typed, Release, SlotTyped
  <2>2. slot_state'[s] = "idle"
    BY <1>0, <1>2 DEF Typed, Release, SlotTyped
  <2>3. x # s /\ Waits(x)
    BY <2>1, <2>2 DEF Waits
  <2> QED
    BY <1>2, <2>1, <2>3 DEF Excused
<1>3. ASSUME NEW s \in IdleSlots, NEW n \in 0 .. cur.kids, NEW state \in {"started", "idle"}, NEW task,
             LaunchChildren(s, n, state, task), mainpc = "process", cur \in Root
      PROVE  \/ Waits(x) /\ slot_task'[x] = slot_task[x] /\ (Excused(x) => Excused(x)')
             \/ cur \in Held /\ cur.kids > 0 /\ slot_task'[x].id[1] = cur.id[1]
  <2>1. SlotTyped
    BY <1>0 DEF Typed
  <2>2. \/ x = s /\ slot_state'[x] = state
        \/ \E k \in 1 .. n : slot_task'[x].id = <<cur.id[1], cur.id[2], k>>
        \/ slot_state'[x] = slot_state[x] /\ slot_task'[x] = slot_task[x]
    BY <1>3, <2>1, LaunchedSlot
  <2>3. ~Excused(x)
    BY <1>3 DEF Excused, FailPcs
  <2>4. cur \in Held /\ cur.kids \in Nat
    BY <1>3, RootJob, JobFields DEF Held
  <2>5. CASE \E k \in 1 .. n : slot_task'[x].id = <<cur.id[1], cur.id[2], k>>
    <3>1. PICK k \in 1 .. n : slot_task'[x].id = <<cur.id[1], cur.id[2], k>>
      BY <2>5
    <3>2. cur.kids > 0
      BY <2>4
    <3> QED
      BY <2>4, <3>1, <3>2
  <2>6. CASE slot_state'[x] = slot_state[x] /\ slot_task'[x] = slot_task[x]
    BY <2>3, <2>6 DEF Waits
  <2> QED
    BY <2>2, <2>5, <2>6 DEF Waits
<1>4. ASSUME NEW s \in Slots, Launch(s)
      PROVE  \/ Waits(x) /\ slot_task'[x] = slot_task[x] /\ (Excused(x) => Excused(x)')
             \/ cur \in Held /\ cur.kids > 0 /\ slot_task'[x].id[1] = cur.id[1]
  <2>1. /\ mainpc = "process" /\ cur \in Root /\ s \in IdleSlots
        /\ cur.kids \in 0 .. cur.kids /\ LaunchChildren(s, cur.kids, "started", cur)
    BY <1>0, <1>4, LaunchFacts
  <2> QED
    BY <1>3, <2>1
<1>5. ASSUME NEW s \in Slots, NEW n \in 0 .. NSlots - 1, LaunchFails(s, n)
      PROVE  \/ Waits(x) /\ slot_task'[x] = slot_task[x] /\ (Excused(x) => Excused(x)')
             \/ cur \in Held /\ cur.kids > 0 /\ slot_task'[x].id[1] = cur.id[1]
  <2>1. /\ mainpc = "process" /\ cur \in Root /\ s \in IdleSlots
        /\ n \in 0 .. cur.kids /\ LaunchChildren(s, n, "idle", NoTask)
    BY <1>0, <1>5, LaunchFacts
  <2> QED
    BY <1>3, <2>1
<1>6. CASE \E s \in Slots : Unlaunch(s)
  <2>1. PICK s \in Slots : Release(s) /\ mainpc = "unlaunch" /\ mainpc' = mainpc /\ cur' = cur
    BY <1>6 DEF Unlaunch, loopVars
  <2>2. mainpc \notin FailPcs
    BY <2>1 DEF FailPcs
  <2> QED
    BY <1>2, <2>1, <2>2
<1>7. CASE UnlaunchDone
  <2>1. LaunchedFamily = {} /\ UNCHANGED slotVars /\ mainpc = "unlaunch"
    BY <1>7 DEF UnlaunchDone
  <2>2. Waits(x) => ~Excused(x)
    BY <2>1 DEF LaunchedFamily, Waits, Excused, IsProcessing, Idle, FailPcs
  <2> QED
    BY <1>1, <2>1, <2>2
<1>8. CASE ProcessCancel
  <2>1. /\ mainpc = "process"
        /\ LET hit == {s \in Slots : IsProcessing(s) /\ slot_task[s].id = cur.id_target}
           IN IF hit = {} THEN UNCHANGED <<queueVars, slotVars>>
              ELSE Release(CHOOSE s \in hit : \A y \in hit : s <= y)
    BY <1>8 DEF ProcessCancel
  <2> DEFINE hit == {s \in Slots : IsProcessing(s) /\ slot_task[s].id = cur.id_target}
             s == CHOOSE s \in hit : \A y \in hit : s <= y
  <2>2. mainpc \notin FailPcs \cup {"unlaunch"} /\ ~Excused(x)
    BY <2>1 DEF FailPcs, Excused
  <2>3. CASE hit = {}
    BY <1>1, <2>1, <2>2, <2>3
  <2>4. CASE hit # {}
    <3>1. Release(s)
      BY <2>1, <2>4
    <3>2. hit \in SUBSET Nat /\ IsFiniteSet(hit)
      BY SlotFacts, FS_Subset
    <3>3. \E y \in hit : \A z \in hit : y <= z
      BY <2>4, <3>2, LeastLemma
    <3>4. s \in Slots
      BY <3>3
    <3> QED
      BY <1>2, <2>1, <2>2, <3>1, <3>4
  <2> QED
    BY <2>3, <2>4
<1>9. CASE ReleaseSlot
  <2>1. cursor \in Slots /\ Release(cursor) /\ mainpc \in DOMAIN ReleaseLoop /\ mainpc' = ReleaseLoop[mainpc]
        /\ mainpc # "unlaunch"
    BY <1>0, <1>9, ReleaseLoops DEF ReleaseSlot, Typed, ReleaseTyped
  <2>2. mainpc \in FailPcs => mainpc' \in FailPcs
    BY <2>1, ReleaseLoops DEF FailPcs, ReleaseLoop
  <2> QED
    BY <1>2, <2>1, <2>2
<1>10. CASE (\E s \in Slots : PromptAdd(s) \/ SampleContinues(s)) \/ DecodeOk
  <2>1. /\ slot_task' = slot_task /\ mainpc \in {"prompt", "sample", "decode"}
    BY <1>10 DEF PromptAdd, SampleContinues, DecodeOk
  <2>2. slot_state'[x] = "wait_other" => slot_state[x] = "wait_other"
    BY <1>0, <1>10 DEF PromptAdd, SampleContinues, DecodeOk, Typed, SlotTyped
  <2>3. ~Excused(x)
    BY <2>1 DEF Excused, FailPcs
  <2> QED
    BY <2>1, <2>2, <2>3 DEF Waits
<1>11. CASE UpdateDone
  <2>1. UNCHANGED slotVars /\ mainpc \in {"fail", "sample"}
    BY <1>11 DEF UpdateDone
  <2>2. Waits(x) => mainpc \notin FailPcs
    <3>1. CASE mainpc = "fail" /\ BusySlots = {}
      BY <3>1 DEF BusySlots, Known, Phases, Failing, FailPcs, Waits, IsProcessing, Idle
    <3>2. CASE mainpc = "sample"
      BY <3>2 DEF FailPcs
    <3> QED
      BY <1>11, <3>1, <3>2 DEF UpdateDone
  <2> QED
    BY <1>1, <2>1, <2>2 DEF Excused
<1>12. CASE \E s \in Slots : FailSlot(s)
  <2>1. UNCHANGED slotVars /\ mainpc' \in FailPcs
    BY <1>12 DEF FailSlot, SendAndStop, FailPcs
  <2> QED
    BY <1>1, <2>1 DEF Excused
<1>13. CASE PopTask \/ DrainDone \/ WaitForTasks \/ DeferCompletion \/ ProcessNextResponse
            \/ ProcessMetrics \/ DeferSlotAction \/ ProcessSlotAction
            \/ UpdateIdle \/ UpdateBegin \/ ShiftDone \/ PromptDone \/ DecodeFails
            \/ \E s \in Slots : ShiftError(s) \/ PromptSkip(s) \/ PromptEnds(s) \/ SampleEnds(s)
  <2>1. UNCHANGED slotVars /\ mainpc \notin FailPcs \cup {"unlaunch"}
    BY <1>13 DEF PopTask, DrainDone, WaitForTasks, DeferCompletion, IsCompletion, ProcessNextResponse,
       ProcessMetrics, DeferSlotAction, ProcessSlotAction, UpdateIdle, UpdateBegin, ShiftDone,
       PromptDone, DecodeFails, ShiftError, PromptSkip, PromptEnds, SampleEnds, SendAndStop, FailPcs
  <2> QED
    BY <1>1, <2>1 DEF Excused
<1> QED
  BY <1>4, <1>5, <1>6, <1>7, <1>8, <1>9, <1>10, <1>11, <1>12, <1>13 DEF ProcessStep, UpdateStep

\* A result that is sent adds an error at most for the task it is about.
LEMMA SendErrors ==
    ASSUME Typed, NEW id, NEW kind, Send(id, kind), NEW c, ErrorFor(c)', ~ErrorFor(c)
    PROVE  /\ kind = "error" /\ id[1] = c
           /\ queue_results' = Append(queue_results, [id |-> id, kind |-> kind])
<1> DEFINE r == [id |-> id, kind |-> kind]
<1>1. queue_results' # queue_results
  BY DEF ErrorFor
<1>2. queue_results' = Append(queue_results, r) /\ id \in waiting_task_ids
  BY <1>1 DEF Send
<1>3. queue_results' = queue_results \o <<r>> /\ queue_results \in Seq(Result)
  BY <1>2, AppendIsConcat DEF Typed, ResultTyped
<1>4. PICK i \in DOMAIN queue_results' : queue_results'[i].kind = "error" /\ queue_results'[i].id[1] = c
  BY DEF ErrorFor
<1>5. /\ Len(queue_results) \in Nat /\ DOMAIN queue_results = 1 .. Len(queue_results)
  BY <1>3, LenProperties
<1>6. DOMAIN queue_results' = 1 .. Len(queue_results) + 1
  BY <1>2, <1>5
<1>7. \A j \in 1 .. Len(queue_results) + 1 :
         queue_results'[j] = IF j <= Len(queue_results) THEN queue_results[j] ELSE r
  BY <1>2, <1>5
<1>8. queue_results'[i] = r
  BY <1>4, <1>5, <1>6, <1>7 DEF ErrorFor
<1> QED
  BY <1>2, <1>4, <1>8

\* The task of a new error was live, and is not any more.
LEMMA ErrorEnds ==
    ASSUME Typed, MainEffect, NEW id, Send(id, "error"), NEW c, ErrorFor(c)', ~ErrorFor(c)
    PROVE  id \in Live /\ id \notin Live' /\ id[1] = c
<1> DEFINE r == [id |-> id, kind |-> "error"]
<1>1. queue_results' = Append(queue_results, r) /\ id[1] = c
  BY SendErrors
<1>2. queue_results' # queue_results
  BY DEF ErrorFor
<1>3. PICK i \in Live : \E kind \in {"partial", "final", "error"} :
          /\ queue_results' = Append(queue_results, [id |-> i, kind |-> kind])
          /\ kind # "partial" => i \notin Live'
  BY <1>2 DEF MainEffect, Answered
<1>4. PICK kind \in {"partial", "final", "error"} :
          /\ queue_results' = Append(queue_results, [id |-> i, kind |-> kind])
          /\ kind # "partial" => i \notin Live'
  BY <1>3
<1>5. queue_results \in Seq(Result) /\ Len(queue_results) \in Nat
  BY LenProperties DEF Typed, ResultTyped
<1>6. \A e : Append(queue_results, e)[Len(queue_results) + 1] = e
  BY <1>5
<1>7. r = [id |-> i, kind |-> kind]
  BY <1>1, <1>4, <1>6
<1>8. i = id /\ kind = "error"
  <2>1. r.id = id /\ r.kind = "error"
    OBVIOUS
  <2>2. [id |-> i, kind |-> kind].id = i /\ [id |-> i, kind |-> kind].kind = kind
    OBVIOUS
  <2> QED
    BY <1>7, <2>1, <2>2, Zenon
<1> QED
  BY <1>1, <1>4, <1>8

\* Which steps of the main thread send an error.
LEMMA ErrorsMain ==
    ASSUME "prompt" \notin Faults, Typed, ProcessStep \/ UpdateStep, NEW c, ErrorFor(c)', ~ErrorFor(c)
    PROVE  \/ ProcessSlotAction /\ Send(cur.id, "error")
           \/ \E s \in Slots : \E n \in 0 .. NSlots - 1 : LaunchFails(s, n)
           \/ \E s \in Slots : ShiftError(s) \/ FailSlot(s)
<1>1. ~UNCHANGED queue_results
  BY DEF ErrorFor
<1>2. ASSUME NEW id, NEW kind \in {"final", "partial"}, Send(id, kind)
      PROVE  FALSE
  <2>1. kind # "error"
    OBVIOUS
  <2> QED
    BY <1>2, <2>1, SendErrors
<1>3. \A s \in Slots : ~PromptEnds(s)
  BY DEF PromptEnds
<1>4. ~ProcessMetrics /\ \A s \in Slots : ~SampleEnds(s) /\ ~SampleContinues(s)
  <2>1. ~ProcessMetrics
    BY <1>2 DEF ProcessMetrics
  <2>2. \A s \in Slots : ~SampleEnds(s)
    BY <1>2 DEF SampleEnds, SendAndStop
  <2>3. ASSUME NEW s \in Slots, SampleContinues(s)
        PROVE  FALSE
    <3>1. UNCHANGED resultVars \/ Send(slot_task[s].id, "partial")
      BY <2>3 DEF SampleContinues
    <3> QED
      BY <1>1, <1>2, <3>1 DEF resultVars
  <2> QED
    BY <2>1, <2>2, <2>3
<1>5. ProcessSlotAction => Send(cur.id, "error")
  BY <1>2 DEF ProcessSlotAction
<1> QED
  BY <1>1, <1>3, <1>4, <1>5
     DEF ProcessStep, PopTask, DrainDone, WaitForTasks, DeferCompletion, Launch, Unlaunch, UnlaunchDone,
         ProcessCancel, ProcessNextResponse, DeferSlotAction, UpdateStep, UpdateIdle,
         UpdateBegin, ShiftDone, PromptSkip, PromptAdd, PromptDone, DecodeOk, DecodeFails,
         UpdateDone, ReleaseSlot, resultVars

\* The main thread, for a reader that has quit.
LEMMA QuitStays ==
    ASSUME Known, Served, ProcessStep \/ UpdateStep, UNCHANGED rpc, NEW c \in Clients, Quit(c)
    PROVE  QuitOk(c)'
<1>0. Typed
  BY DEF Known
<1>1. QuitOk(c)
  BY DEF Served, Quits, QuitOk
<1>2. Held' \subseteq Held
  BY <1>0, HeldMain
<1>3. ASSUME NEW x \in Slots, Waits(x)', slot_task'[x].id[1] = c
      PROVE  Excused(x)'
  <2>1. ~(cur \in Held /\ cur.kids > 0 /\ cur.id[1] = c)
    BY <1>1 DEF QuitOk
  <2>2. Waits(x) /\ slot_task'[x] = slot_task[x] /\ (Excused(x) => Excused(x)')
    BY <1>3, <2>1, WaitersMain
  <2> QED
    BY <1>1, <1>3, <2>2 DEF QuitOk
<1> QED
  BY <1>1, <1>2, <1>3 DEF QuitOk

\* The main thread, for a reader whose task has just got an error: the family
\* of the task, if it has one, is all that its client posted.
LEMMA QuitNow ==
    ASSUME "prompt" \notin Faults, ChildrenAlone, Known, Served, Known', FamiliesMade', Supported', KidsWait',
           ProcessStep \/ UpdateStep, NEW c \in Clients, ErrorFor(c)', ~ErrorFor(c)
    PROVE  QuitOk(c)'
<1>0. /\ Typed /\ Numbered /\ Owned /\ Origin /\ Templated
      /\ Typed' /\ Numbered' /\ Owned' /\ Origin' /\ Templated'
  BY DEF Known
<1>1. MainEffect
  BY <1>0, LiveProcess, LiveUpdate
<1>2. UNCHANGED <<rpc, tasks>>
  BY <1>1 DEF MainEffect, readerVars
<1>3. \A t \in Root : Made(t)' <=> Made(t)
  BY <1>2 DEF Made
<1>4. PICK id : Send(id, "error") /\
         \/ ProcessSlotAction /\ id = cur.id
         \/ \E s \in Slots : \E n \in 0 .. NSlots - 1 :
               LaunchFails(s, n) /\ id = IF n < cur.kids THEN ChildTask(cur, n + 1).id ELSE cur.id
         \/ \E s \in Slots : (ShiftError(s) \/ FailSlot(s)) /\ id = slot_task[s].id
  BY <1>0, ErrorsMain DEF LaunchFails, ShiftError, FailSlot, SendAndStop
<1>5. id \in Live /\ id \notin Live' /\ id[1] = c
  BY <1>0, <1>1, <1>4, ErrorEnds
<1>6. PICK d \in Clients : rpc[d] \notin {"idle", "posting"} /\ id \in Ids(d)
  BY <1>0, <1>5, LiveFacts DEF Owned, Posted
<1>7. d = c
  BY <1>0, <1>5, <1>6, InTasks
<1>8. \A t \in Root : Made(t) /\ t.id[1] = c /\ t.kids > 0 => id \in Family(t)
  BY <1>0, <1>6, <1>7, SingleFamily
<1>9. \A t \in Held' : t.id[1] = c => t.kids = 0
  <2> SUFFICES ASSUME NEW t \in Held', t.id[1] = c, t.kids # 0
               PROVE  FALSE
    OBVIOUS
  <2>1. t \in Root /\ Made(t)' /\ t.kids \in Nat
    BY <1>0, RootJob, JobFields DEF Held, Origin
  <2>2. id \in Family(t)
    BY <1>3, <1>8, <2>1
  <2>3. HeldInPending'
    BY HeldPending, PTL
  <2>4. Family(t) \subseteq Pending'
    BY <2>3 DEF HeldInPending
  <2> QED
    BY <1>5, <2>2, <2>4 DEF Live
<1>10. ASSUME NEW x \in Slots, Waits(x)', slot_task'[x].id[1] = c, ~Excused(x)'
       PROVE  FALSE
  <2>1. PICK p \in Slots : /\ Serves(p)'
                           /\ slot_task'[p].id = Parent(slot_task'[x].id)
                           /\ slot_task'[x].id \in Family(slot_task'[p])
    BY <1>10 DEF Supported
  <2> DEFINE t == slot_task'[p]
  <2>2. p \in Busy' /\ t.kids > 0
    BY <2>1 DEF Serves, Busy, IsProcessing, Idle
  <2>3. t \in Root /\ Made(slot_task[p])'
    BY <2>2 DEF FamiliesMade
  <2>4. Made(t)
    BY <1>2, <2>3 DEF Made
  <2>5. t.id[1] = c
    BY <1>10, <2>1 DEF Parent
  <2>6. id \in Family(t) /\ t.id \in OnSlots'
    BY <1>8, <2>2, <2>3, <2>4, <2>5 DEF OnSlots
  <2>7. \A u \in Root : Made(u) /\ u.id[1] = c => u = t
    <3> HIDE DEF t
    <3> QED
      BY <1>0, <2>2, <2>3, <2>4, <2>5, SingleFamily
  <2> HIDE DEF t
  <2>8. cur \in Held /\ cur.id[1] = c => cur = t
    BY <1>0, <2>7 DEF Held, Origin
  <2>9. CASE ProcessSlotAction /\ id = cur.id
    <3>1. mainpc = "process" /\ UNCHANGED slotVars /\ cur.type = "slot_action"
      BY <2>9 DEF ProcessSlotAction
    <3>2. cur \in Held
      BY <1>0, <3>1, JobFields DEF Held, Typed, LoopTyped
    <3>3. cur = t /\ OnSlots' = OnSlots
      BY <1>5, <2>8, <2>9, <3>1, <3>2 DEF slotVars, OnSlots, Busy, IsProcessing, Idle
    <3>4. t.id \in Pending
      BY <2>3, <3>2, <3>3, HeldPending, FamilyLemma, RootJob DEF HeldInPending
    <3> QED
      BY <1>0, <2>6, <3>3, <3>4 DEF Owned, SlotsApart
  <2>10. ASSUME NEW s \in Slots, NEW n \in 0 .. NSlots - 1, LaunchFails(s, n),
                id = IF n < cur.kids THEN ChildTask(cur, n + 1).id ELSE cur.id
         PROVE  FALSE
    <3>1. mainpc = "process" /\ mainpc' = "unlaunch" /\ cur' = cur /\ cur \in Root
      BY <1>0, <2>10, LaunchFacts
    <3>2. cur \in Held
      BY <3>1 DEF Held
    <3>3. n + 1 \in Nat
      BY NSlotsAssumption
    <3>4. ChildTask(cur, n + 1).id = <<cur.id[1], cur.id[2], n + 1>>
      BY <3>1, <3>3, RootJob, ChildTyped
    <3>5. cur.id[1] = c
      BY <1>5, <2>10, <3>4
    <3> QED
      BY <2>6, <2>8, <3>1, <3>2, <3>5 DEF FamiliesMade
  <2>11. ASSUME NEW s \in Slots, ShiftError(s), id = slot_task[s].id
         PROVE  FALSE
    <3>1. slot_state[s] = "generating" /\ UNCHANGED slotVars
      BY <2>11 DEF ShiftError, AtOrAfterCursor, SendAndStop
    <3>2. slot_state'[s] = "generating" /\ slot_task'[s] = slot_task[s] /\ s \in Busy'
      BY <3>1 DEF slotVars, Busy, IsProcessing, Idle
    <3>3. s # p
      BY <2>1, <3>2 DEF Serves
    <3>4. Waits(s)'
      BY <2>1, <2>6, <2>11, <3>2, <3>3 DEF KidsWait, t
    <3> QED
      BY <3>2, <3>4 DEF Waits
  <2>12. ASSUME NEW s \in Slots, FailSlot(s)
         PROVE  FALSE
    BY <1>10, <2>12 DEF FailSlot, SendAndStop, Excused, FailPcs
  <2> QED
    BY <1>4, <2>9, <2>10, <2>11, <2>12
<1> QED
  BY <1>2, <1>6, <1>7, <1>9, <1>10 DEF QuitOk

\* The CANCEL tasks after a step of a reader.
LEMMA CancelsReader ==
    ASSUME Typed, Numbered, NEW c \in Clients, AddWaiting(c) \/ ReaderStep(c)
    PROVE  \A t \in Cancels' : t \in Cancels \/ (rpc[c] = "cancelling" /\ t.id_target[1] = c)
<1>1. UNCHANGED <<mainpc, cur>>
  BY DEF AddWaiting, ReaderStep, PostTasks, Receive, StopRemove, StopPurge, StopCancel, loopVars
<1>0. ASSUME NEW t \in Cancels'
      PROVE  t.type = "cancel" /\ (t \in Cancels \/ t \in Elems(queue_tasks'))
  BY <1>1 DEF Cancels
<1>a. \A t : t \in Elems(queue_tasks) /\ t.type = "cancel" /\ t.id_target \in Id => t \in Cancels
  BY DEF Cancels
<1>b. \A t \in Cancels' : t.id_target \in Id
  BY DEF Cancels
<1>2. CASE PostTasks(c)
  <2>1. tasks[c] \in Seq(Root) /\ tasks[c] \in Seq(Root \cup Control)
    BY DEF Typed, ReaderTyped
  <2>2. queue_tasks' = tasks[c] \o queue_tasks \/ queue_tasks' = queue_tasks \o tasks[c]
    BY <1>2 DEF PostTasks
  <2>3. Elems(queue_tasks') \subseteq Elems(queue_tasks) \cup Elems(tasks[c])
    BY <2>1, <2>2, ElemsConcat DEF Typed, QueueTyped
  <2>4. \A t \in Elems(tasks[c]) : t.type # "cancel"
    BY <2>1, ElementOfSeq, LenProperties, RootJob, JobFields DEF Elems, ReaderTypes, CompletionTypes
  <2> QED
    BY <1>0, <1>a, <1>b, <2>3, <2>4
<1>3. CASE StopCancel(c)
  <2>1. PICK order \in Orders(Ids(c)) :
           queue_tasks' = [i \in DOMAIN order |-> CancelTask(order[i])] \o Without(queue_tasks, Ids(c))
    BY <1>3 DEF StopCancel
  <2> DEFINE cancels == [i \in DOMAIN order |-> CancelTask(order[i])]
             rest == Without(queue_tasks, Ids(c))
  <2>2. Ids(c) \in SUBSET Id /\ Cardinality(Ids(c)) \in Nat
    BY IdsLemma DEF Typed, ReaderTyped, Ids
  <2>3. cancels \in Seq(Root \cup Control)
    BY <2>2, CancelsTyped
  <2>4. rest \in Seq(Root \cup Control)
    BY WithoutLemma DEF Typed, QueueTyped
  <2>5. ASSUME NEW t \in Elems(cancels)
        PROVE  t.id_target[1] = c
    <3>1. PICK i \in DOMAIN order : t = CancelTask(order[i])
      BY DEF Elems
    <3>2. order[i] \in Ids(c)
      BY <2>2, CancelsTyped
    <3>3. t.id_target = order[i]
      BY <3>1 DEF CancelTask
    <3> QED
      BY <3>2, <3>3, InTasks
  <2> HIDE DEF cancels
  <2>6. Elems(rest) \subseteq Elems(queue_tasks)
    BY ThinnedWithout, ElemsThinned DEF Typed, QueueTyped
  <2>7. Elems(cancels \o rest) \subseteq Elems(cancels) \cup Elems(rest)
    BY <2>3, <2>4, ElemsConcat
  <2>8. queue_tasks' = cancels \o rest /\ rpc[c] = "cancelling"
    BY <1>3, <2>1 DEF StopCancel, cancels
  <2> HIDE DEF rest
  <2> QED
    BY <1>0, <1>a, <1>b, <2>5, <2>6, <2>7, <2>8
<1>4. CASE ~PostTasks(c) /\ ~StopCancel(c)
  <2>1. UNCHANGED queue_tasks
    BY <1>4 DEF AddWaiting, ReaderStep, Receive, StopRemove, StopPurge, queueVars
  <2> QED
    BY <1>0, <1>a, <1>b, <2>1
<1> QED
  BY <1>2, <1>3, <1>4

\* A reader only takes results.
LEMMA ResultsReader ==
    ASSUME Typed, NEW c \in Clients, AddWaiting(c) \/ ReaderStep(c)
    PROVE  Elems(queue_results') \subseteq Elems(queue_results)
<1>1. CASE Receive(c)
  <2>1. \E i \in DOMAIN queue_results :
           queue_results' = SubSeq(queue_results, 1, i - 1)
                              \o SubSeq(queue_results, i + 1, Len(queue_results))
    BY <1>1 DEF Receive
  <2> QED
    BY <2>1, ThinnedCut, ElemsThinned DEF Typed, ResultTyped
<1>2. CASE StopPurge(c)
  <2>1. queue_results' = Without(queue_results, Ids(c))
    BY <1>2 DEF StopPurge
  <2> QED
    BY <2>1, ThinnedWithout, ElemsThinned DEF Typed, ResultTyped
<1>3. CASE ~Receive(c) /\ ~StopPurge(c)
  <2>1. queue_results' = queue_results
    BY <1>3 DEF ReaderStep, AddWaiting, PostTasks, StopRemove, StopCancel, resultVars
  <2> QED
    BY <2>1
<1> QED
  BY <1>1, <1>2, <1>3

\* A reader that quits, by itself, has got an error.
LEMMA QuitReader ==
    ASSUME Typed, Numbered, NEW c \in Clients, AddWaiting(c) \/ ReaderStep(c), NEW d \in Clients, Quit(d)'
    PROVE  Quit(d)
<1>1. ErrorFor(d)' => ErrorFor(d)
  <2>1. \A e : (\E i \in DOMAIN queue_results : queue_results[i] = e) <=> e \in Elems(queue_results)
    BY DEF Elems
  <2>2. \A e : (\E i \in DOMAIN queue_results' : queue_results'[i] = e) <=> e \in Elems(queue_results')
    BY DEF Elems
  <2> QED
    BY <2>1, <2>2, ResultsReader DEF ErrorFor
<1>2. CancelFor(d)' => CancelFor(d) \/ rpc[d] = "cancelling"
  BY CancelsReader DEF CancelFor
<1>3. ASSUME rpc'[d] \in {"stopping", "purging", "cancelling"}
      PROVE  Quit(d)
  <2>1. CASE rpc'[d] = rpc[d]
    BY <1>3, <2>1 DEF Quit
  <2>2. CASE d = c /\ Receive(c)
    <3>1. PICK i \in DOMAIN queue_results :
             queue_results[i].id \in Ids(c) /\ (queue_results[i].kind = "error" \/ rpc' = rpc
                                                  \/ rpc' = [rpc EXCEPT ![c] = "finishing"])
      BY <2>2 DEF Receive
    <3>2. queue_results[i].kind = "error" \/ rpc'[d] = rpc[d]
      BY <1>3, <2>2, <3>1 DEF Typed, ReaderTyped
    <3>3. queue_results[i].id[1] = c
      BY <3>1, InTasks
    <3> QED
      BY <2>1, <2>2, <3>2, <3>3 DEF Quit, ErrorFor
  <2>3. CASE d = c /\ (StopRemove(c) \/ StopPurge(c))
    <3>1. rpc[c] \in {"stopping", "purging"} \/ rpc'[c] = "done"
      BY <2>3 DEF StopRemove, StopPurge, Typed, ReaderTyped
    <3> QED
      BY <1>3, <2>3, <3>1 DEF Quit
  <2>4. CASE d = c /\ (AddWaiting(c) \/ PostTasks(c) \/ StopCancel(c))
    <3>1. rpc'[c] \in {"posting", "receiving", "done"}
      BY <2>4 DEF AddWaiting, PostTasks, StopCancel, Typed, ReaderTyped
    <3> QED
      BY <1>3, <2>4, <3>1
  <2>5. CASE d # c
    <3>1. UNCHANGED rpc \/ \E pc : rpc' = [rpc EXCEPT ![c] = pc]
      BY DEF AddWaiting, ReaderStep, PostTasks, Receive, StopRemove, StopPurge, StopCancel
    <3> QED
      BY <2>1, <2>5, <3>1 DEF Typed, ReaderTyped
  <2> QED
    BY <2>2, <2>3, <2>4, <2>5 DEF ReaderStep
<1> QED
  BY <1>1, <1>2, <1>3 DEF Quit

LEMMA QuitsStep ==
    ASSUME "prompt" \notin Faults, "leave" \notin Faults, ChildrenAlone, Known, Served,
           Known', FamiliesMade', Supported', KidsWait', [Next]_vars
    PROVE  Quits'
<1>0. Typed /\ Numbered /\ Typed'
  BY DEF Known
<1> SUFFICES ASSUME NEW d \in Clients, Quit(d)'
             PROVE  QuitOk(d)'
  BY DEF Quits, QuitOk
<1>1. CASE ProcessStep \/ UpdateStep
  <2>1. UNCHANGED rpc
    BY <1>0, <1>1, LiveProcess, LiveUpdate DEF MainEffect, readerVars, Known
  <2>2. Cancels' \subseteq Cancels
    BY <1>0, <1>1, CancelsMain
  <2>3. CASE Quit(d)
    BY <1>1, <2>1, <2>3, QuitStays
  <2>4. CASE ~Quit(d)
    <3>1. ErrorFor(d)' /\ ~ErrorFor(d)
      BY <2>1, <2>2, <2>4 DEF Quit, CancelFor
    <3> QED
      BY <1>1, <3>1, QuitNow
  <2> QED
    BY <2>3, <2>4
<1>2. ASSUME NEW c \in Clients, AddWaiting(c) \/ ReaderStep(c)
      PROVE  QuitOk(d)'
  <2>1. Quit(d)
    BY <1>0, <1>2, QuitReader
  <2>2. QuitOk(d)
    BY <2>1 DEF Served, Quits, QuitOk
  <2>3. /\ UNCHANGED <<slotVars, loopVars, mainpc>>
        /\ UNCHANGED rpc \/ (AddWaiting(c) /\ rpc[c] = "idle" /\ rpc' = [rpc EXCEPT ![c] = "posting"])
             \/ \E pc \in {"receiving", "finishing", "stopping", "done", "purging", "cancelling"} :
                   rpc' = [rpc EXCEPT ![c] = pc]
    BY <1>2 DEF AddWaiting, ReaderStep, PostTasks, Receive, StopRemove, StopPurge, StopCancel
  <2>4. rpc'[d] \notin {"idle", "posting"}
    BY <1>0, <2>2, <2>3 DEF QuitOk, Typed, ReaderTyped
  <2>5. \A t \in Held' : t \in Held \/ t.id[1] # d
    <3>1. CASE PostTasks(c)
      <4>1. c # d
        BY <2>2, <3>1 DEF QuitOk, PostTasks
      <4>2. \A t \in Elems(tasks[c]) : t.id[1] = c
        <5>1. \A i \in DOMAIN tasks[c] : tasks[c][i].id = <<c, i, 0>>
          BY <1>0 DEF Numbered
        <5> QED
          BY <5>1 DEF Elems
      <4> QED
        BY <1>0, <1>2, <4>1, <4>2, HeldReader
    <3>2. CASE ~PostTasks(c)
      BY <1>0, <1>2, <3>2, HeldReader
    <3> QED
      BY <3>1, <3>2
  <2>6. \A x \in Slots : (Waits(x)' <=> Waits(x)) /\ (Excused(x) => Excused(x)')
                         /\ slot_task'[x] = slot_task[x]
    BY <2>3 DEF Waits, Excused, slotVars, loopVars
  <2> QED
    BY <2>2, <2>4, <2>5, <2>6 DEF QuitOk
<1>3. CASE UNCHANGED vars
  <2>1. /\ UNCHANGED <<slotVars, loopVars, mainpc, queue_tasks, queue_tasks_deferred, queue_results, rpc>>
    BY <1>3 DEF vars, queueVars, resultVars, readerVars
  <2>2. Held' = Held /\ Cancels' = Cancels /\ (ErrorFor(d)' <=> ErrorFor(d))
    BY <2>1 DEF Held, Cancels, ErrorFor, loopVars
  <2>3. QuitOk(d)
    BY <2>1, <2>2 DEF Quit, CancelFor, Served, Quits, QuitOk
  <2>4. \A x \in Slots : (Waits(x)' <=> Waits(x)) /\ (Excused(x) => Excused(x)')
                         /\ slot_task'[x] = slot_task[x]
    BY <2>1 DEF Waits, Excused, slotVars, loopVars
  <2> QED
    BY <2>1, <2>2, <2>3, <2>4 DEF QuitOk
<1>4. \A c \in Clients : ~Leave(c)
  BY DEF Leave
<1> QED
  BY <1>1, <1>2, <1>3, <1>4 DEF Next

\* With an empty batch and no prompt to go on with, no slot is left to wait for.
LEMMA SupportedLeavesNone == Known /\ Supported => NoneLeftWaiting
<1> SUFFICES ASSUME Known, Supported, mainpc = "prompt", in_batch = {}, PromptSlots = {},
                    NEW x \in Slots, Waits(x)
             PROVE  FALSE
  BY DEF NoneLeftWaiting, Waits
<1>1. Slots \in SUBSET Nat /\ cursor \in Nat
  BY SlotFacts, NSlotsAssumption DEF Known, Typed, LoopTyped
<1>2. ~Excused(x)
  BY DEF Excused, FailPcs
<1>3. PICK p \in Slots : Serves(p)
  BY <1>2 DEF Supported
<1>4. slot_state[p] # "done_prompt"
  BY DEF Known, Phases, DonePrompts, FailPcs
<1>5. slot_state[p] \in {"started", "processing_prompt"}
  BY <1>3, <1>4 DEF Serves
<1>6. p < cursor
  BY <1>1, <1>5 DEF PromptSlots, AtOrAfterCursor
<1> QED
  BY <1>5, <1>6 DEF Known, Phases, Batched

LEMMA ServedInit == Init => Known /\ Served
<1> SUFFICES ASSUME Init
             PROVE  Known /\ Served
  OBVIOUS
<1>1. Typed /\ Owned /\ Numbered /\ Phases
  BY TypedInit, OwnedInit, PhasesInit
<1>2. Origin /\ Templated
  BY DEF Init, Origin, Held, Elems, Templated
<1>3. \A x \in Slots : ~Waits(x) /\ ~Serves(x) /\ x \notin Busy
  BY DEF Init, Waits, Serves, Busy, IsProcessing, Idle
<1>4. FamiliesMade /\ SampledReleases /\ Supported /\ KidsWait
  BY <1>3 DEF Init, FamiliesMade, SampledReleases, Supported, KidsWait, Busy
<1>5. \A c \in Clients : ~Quit(c)
  BY DEF Init, Quit, ErrorFor, CancelFor, Cancels, Elems
<1> QED
  BY <1>1, <1>2, <1>4, <1>5 DEF Known, Served, Quits

LEMMA ServedStep ==
    ASSUME "prompt" \notin Faults, "leave" \notin Faults, ChildrenAlone, Known, Served, [Next]_vars
    PROVE  Known' /\ Served'
<1>1. Known'
  <2>1. Typed' /\ Numbered' /\ Owned' /\ Origin' /\ Templated'
    BY TypedStep, NumberedStep, OwnedStep, OriginStep, TemplatedStep DEF Known
  <2>2. Phases'
    BY SupportedLeavesNone, PhasesStep DEF Known, Served
  <2> QED
    BY <2>1, <2>2 DEF Known
<1>2. FamiliesMade' /\ SampledReleases'
  BY FamiliesStep, SampledStep DEF Known, Served
<1>3. Supported' /\ KidsWait'
  BY RolesStep
<1>4. Quits'
  BY <1>1, <1>2, <1>3, QuitsStep
<1> QED
  BY <1>1, <1>2, <1>3, <1>4 DEF Served

\* With child tasks, each family alone in its request, it does not abort
\* either, whatever launch, context shift or decode fails, as long as no prompt
\* ends its task alone and no client leaves while it waits for its results.
THEOREM FamiliesNeverAbort ==
    ASSUME "prompt" \notin Faults, "leave" \notin Faults, ChildrenAlone
    PROVE  Spec => []NeverAborts
<1>1. Known /\ Served /\ [Next]_vars => Known' /\ Served'
  BY ServedStep
<1>2. Known => NeverAborts
  BY DEF Known, Phases
<1> QED
  BY <1>1, <1>2, ServedInit, PTL DEF Spec

-----------------------------------------------------------------------------
(***************************************************************************)
(* A deferred task has a slot to wait for.  Only a release takes it out of *)
(* the deferred queue, one at a time, so somebody must be on the way to    *)
(* the next release: a busy slot, or a completion in queue_tasks or in     *)
(* hand, which will be launched or deferred.  A client that takes such a   *)
(* completion back breaks the chain.  Without faults none does; with one   *)
(* task per request the task of a client that quits is over by then.       *)
(***************************************************************************)
CompletionsOnly == \A ts \in Templates : \A i \in DOMAIN ts : ts[i].type \in CompletionTypes \cup {"metrics"}
OneEach         == \A ts \in Templates : Len(ts) = 1

Fetchers    == {t \in Elems(queue_tasks) \cup (IF mainpc = "process" THEN {cur} ELSE {}) :
                  t.type \in CompletionTypes}
Fetched     == Elems(queue_tasks_deferred) # {} => Busy # {} \/ Fetchers # {}
Withdrawn   == \A c \in Clients : Quit(c) => /\ rpc[c] \notin {"idle", "posting"}
                                             /\ \A t \in Held : t.id[1] # c
Deferrals   == \A t \in Elems(queue_tasks_deferred) : t.type \in CompletionTypes
Undisturbed == mainpc # "unlaunch" /\ (Faults = {} => mainpc \notin FailPcs)

Posts  == Typed /\ Numbered /\ Owned /\ Origin /\ Templated
Chain  == Fetched /\ Withdrawn /\ Deferrals /\ Undisturbed

LEMMA ElemsJoin ==
    ASSUME NEW S, NEW p \in Seq(S), NEW q \in Seq(S)
    PROVE  Elems(p) \cup Elems(q) \subseteq Elems(p \o q)
<1> DEFINE r == p \o q
<1>1. /\ Len(p) \in Nat /\ Len(q) \in Nat
      /\ DOMAIN p = 1 .. Len(p) /\ DOMAIN q = 1 .. Len(q)
  BY LenProperties
<1>2. /\ r \in Seq(S) /\ Len(r) = Len(p) + Len(q)
      /\ \A i \in 1 .. Len(p) + Len(q) : r[i] = IF i <= Len(p) THEN p[i] ELSE q[i - Len(p)]
  BY ConcatProperties
<1>3. DOMAIN r = 1 .. Len(p) + Len(q)
  BY <1>2, LenProperties
<1> HIDE DEF r
<1>4. \A i \in DOMAIN p : i \in DOMAIN r /\ r[i] = p[i]
  BY <1>1, <1>2, <1>3
<1>5. ASSUME NEW i \in DOMAIN q
      PROVE  i + Len(p) \in DOMAIN r /\ r[i + Len(p)] = q[i]
  <2>1. i + Len(p) \in 1 .. Len(p) + Len(q) /\ ~(i + Len(p) <= Len(p)) /\ (i + Len(p)) - Len(p) = i
    BY <1>1
  <2> QED
    BY <1>2, <1>3, <2>1
<1>6. Elems(p) \cup Elems(q) \subseteq Elems(r)
  BY <1>4, <1>5 DEF Elems
<1> QED
  BY <1>6 DEF r

LEMMA ElemsWithout ==
    ASSUME NEW S, NEW q \in Seq(S), NEW ids
    PROVE  /\ Elems(Without(q, ids)) \subseteq Elems(q)
           /\ \A t \in Elems(q) : t.id \notin ids => t \in Elems(Without(q, ids))
<1>1. Elems(Without(q, ids)) \subseteq Elems(q)
  BY ThinnedWithout, ElemsThinned
<1>2. \A i \in DOMAIN q : q[i].id \notin ids =>
         \E k \in DOMAIN Without(q, ids) : Without(q, ids)[k] = q[i]
  BY WithoutLemma
<1> QED
  BY <1>1, <1>2 DEF Elems

\* A held task is of a type that its client asked for.
LEMMA HeldTypes ==
    ASSUME CompletionsOnly, Posts, NEW t \in Held
    PROVE  t.type \in CompletionTypes \cup {"metrics"}
<1>1. t.id[2] \in DOMAIN tasks[t.id[1]] /\ tasks[t.id[1]][t.id[2]] = t /\ t.id[1] \in Clients
  BY RootJob, JobFields, IdFields DEF Posts, Origin, Made, Held
<1>2. PICK ts \in Templates : tasks[t.id[1]] = [i \in DOMAIN ts |-> MakeTask(t.id[1], i, ts[i])]
  BY <1>1 DEF Posts, Templated
<1>3. t.id[2] \in DOMAIN ts /\ t = MakeTask(t.id[1], t.id[2], ts[t.id[2]])
  BY <1>1, <1>2
<1>4. t.type = ts[t.id[2]].type
  BY <1>3 DEF MakeTask
<1> QED
  BY <1>3, <1>4 DEF CompletionsOnly

\* The only task of a client is all that it asked for.
LEMMA SoleTask ==
    ASSUME OneEach, Posts, NEW t \in Held
    PROVE  Ids(t.id[1]) = Family(t)
<1> DEFINE c == t.id[1]
<1>1. c \in Clients /\ t.id[2] \in DOMAIN tasks[c] /\ tasks[c][t.id[2]] = t
  BY RootJob, JobFields, IdFields DEF Posts, Origin, Made, Held
<1>2. PICK ts \in Templates : tasks[c] = [i \in DOMAIN ts |-> MakeTask(c, i, ts[i])]
  BY <1>1 DEF Posts, Templated
<1>3. ts \in Seq(Template) /\ Len(ts) = 1
  BY TemplatesAssumption DEF OneEach
<1>4. DOMAIN tasks[c] = {1}
  BY <1>2, <1>3, LenProperties
<1>5. tasks[c][1] = t
  BY <1>1, <1>4
<1> HIDE DEF c
<1>6. Ids(c) = Family(t)
  BY <1>4, <1>5 DEF Ids, IdsOf
<1> QED
  BY <1>6 DEF c

\* The same, to be cited for the next state.
Soles == OneEach /\ Posts => \A t \in Held : Ids(t.id[1]) = Family(t)
LEMMA SolesHold == Soles
  BY SoleTask DEF Soles

\* A completion is deferred only when some slot is busy.
LEMMA DeferBusy == Typed /\ DeferCompletion => Busy # {}
<1> SUFFICES ASSUME Typed, DeferCompletion, Busy = {}
             PROVE  FALSE
  OBVIOUS
<1>1. IdleSlots = Slots /\ (Candidates = {} \/ ~EnoughSlots) /\ cur \in Root
  BY JobFields DEF Busy, IsProcessing, IdleSlots, DeferCompletion, IsCompletion, Typed, LoopTyped,
     ReaderTypes, CompletionTypes
<1>2. cur.id_slot \in Slots \cup {NoSlot} /\ cur.kids \in 0 .. NSlots - 1
  BY <1>1 DEF Root, Job
<1>3. Cardinality(Slots) = NSlots /\ 0 \in Slots
  BY NSlotsAssumption, FS_Interval DEF Slots
<1>4. EnoughSlots
  BY <1>1, <1>2, <1>3, NSlotsAssumption DEF EnoughSlots
<1>5. cur.id_slot # NoSlot => cur.id_slot % NSlots \in Slots
  BY <1>2, NSlotsAssumption DEF Slots
<1> QED
  BY <1>1, <1>3, <1>4, <1>5 DEF Candidates

LEMMA FetchedKept ==
    ASSUME Fetched, Elems(queue_tasks_deferred') \subseteq Elems(queue_tasks_deferred),
           Busy \subseteq Busy', Fetchers \subseteq Fetchers'
    PROVE  Fetched'
  BY DEF Fetched

\* A release fetches a deferred task, if there is one.
LEMMA FetchedRelease ==
    ASSUME QueueTyped, Deferrals, NEW s, PopDeferred(s)
    PROVE  Fetched'
<1>1. CASE queue_tasks_deferred = <<>> /\ UNCHANGED queueVars
  BY <1>1 DEF Fetched, Elems, queueVars
<1>2. ASSUME NEW k \in DOMAIN queue_tasks_deferred,
             queue_tasks' = <<queue_tasks_deferred[k]>> \o queue_tasks
      PROVE  Fetched'
  <2> DEFINE t == queue_tasks_deferred[k]
  <2>1. t \in Root /\ t \in Elems(queue_tasks_deferred)
    BY <1>2, ElementOfSeq, LenProperties DEF QueueTyped, Elems
  <2>2. <<t>> \in Seq(Root \cup Control)
    BY <2>1
  <2> HIDE DEF t
  <2>3. Elems(<<t>>) \cup Elems(queue_tasks) \subseteq Elems(<<t>> \o queue_tasks)
    BY <2>2, ElemsJoin DEF QueueTyped
  <2>4. t \in Elems(queue_tasks')
    BY <1>2, <2>3, ElemsSingle DEF t
  <2>5. t \in Fetchers'
    BY <2>1, <2>4 DEF Fetchers, Deferrals
  <2> QED
    BY <2>5 DEF Fetched
<1> QED
  BY <1>1, <1>2, PopDeferredLemma

\* What the loop does to the deferred queue.
LEMMA DeferralsMain ==
    ASSUME Typed, ProcessStep \/ UpdateStep
    PROVE  \/ Elems(queue_tasks_deferred') \subseteq Elems(queue_tasks_deferred)
           \/ /\ DeferCompletion \/ DeferSlotAction
              /\ Elems(queue_tasks_deferred') \subseteq Elems(queue_tasks_deferred) \cup {cur}
<1>1. CASE DeferCompletion \/ DeferSlotAction
  <2>1. /\ mainpc = "process" /\ queue_tasks_deferred' = Append(queue_tasks_deferred, cur)
        /\ cur.type \in ReaderTypes
    BY <1>1 DEF DeferCompletion, DeferSlotAction, IsCompletion, Defer, ReaderTypes
  <2>2. cur \in Root
    BY <2>1, JobFields DEF Typed, LoopTyped, ReaderTypes, CompletionTypes
  <2>3. queue_tasks_deferred' = queue_tasks_deferred \o <<cur>> /\ <<cur>> \in Seq(Root)
    BY <2>1, <2>2, AppendIsConcat DEF Typed, QueueTyped
  <2>4. Elems(queue_tasks_deferred') \subseteq Elems(queue_tasks_deferred) \cup Elems(<<cur>>)
    BY <2>3, ElemsConcat DEF Typed, QueueTyped
  <2> QED
    BY <1>1, <2>4, ElemsSingle
<1>2. CASE ~DeferCompletion /\ ~DeferSlotAction
  <2>1. UNCHANGED queue_tasks_deferred \/ \E s : PopDeferred(s)
    BY <1>2 DEF ProcessStep, PopTask, DrainDone, WaitForTasks, Launch, LaunchFails, Unlaunch, UnlaunchDone,
       ProcessCancel, ProcessNextResponse, ProcessMetrics, ProcessSlotAction, Release, queueVars,
       UpdateStep, UpdateIdle, UpdateBegin, ShiftError, ShiftDone, PromptSkip, PromptAdd, PromptEnds,
       PromptDone, DecodeOk, DecodeFails, FailSlot, SampleEnds, SampleContinues, UpdateDone, ReleaseSlot,
       SendAndStop
  <2> QED
    BY <2>1, ElemsPopDeferred DEF Typed
<1> QED
  BY <1>1, <1>2

\* No slot action is ever in hand.
LEMMA NoSlotAction ==
    ASSUME CompletionsOnly, Posts
    PROVE  ~DeferSlotAction /\ ~ProcessSlotAction
<1> SUFFICES ASSUME DeferSlotAction \/ ProcessSlotAction
             PROVE  FALSE
  OBVIOUS
<1>1. mainpc = "process" /\ cur.type = "slot_action"
  BY DEF DeferSlotAction, ProcessSlotAction
<1>2. cur \in Held
  BY <1>1, JobFields DEF Held, Posts, Typed, LoopTyped
<1> QED
  BY <1>1, <1>2, HeldTypes DEF CompletionTypes

LEMMA DeferralsStep ==
    ASSUME CompletionsOnly, Posts, Deferrals, [Next]_vars
    PROVE  Deferrals'
<1>1. CASE ProcessStep \/ UpdateStep
  <2>1. \/ Elems(queue_tasks_deferred') \subseteq Elems(queue_tasks_deferred)
        \/ /\ cur.type \in CompletionTypes
           /\ Elems(queue_tasks_deferred') \subseteq Elems(queue_tasks_deferred) \cup {cur}
    BY <1>1, DeferralsMain, NoSlotAction DEF DeferCompletion, IsCompletion, Posts
  <2> QED
    BY <2>1 DEF Deferrals
<1>2. ASSUME NEW c \in Clients, StopCancel(c)
      PROVE  Deferrals'
  <2>1. queue_tasks_deferred' = Without(queue_tasks_deferred, Ids(c))
    BY <1>2 DEF StopCancel
  <2> QED
    BY <2>1, ElemsWithout DEF Deferrals, Posts, Typed, QueueTyped
<1>3. CASE UNCHANGED queue_tasks_deferred
  BY <1>3 DEF Deferrals
<1> QED
  BY <1>1, <1>2, <1>3 DEF Next, vars, queueVars, ReaderStep, AddWaiting, PostTasks, Receive, StopRemove,
     StopPurge, Leave

LEMMA UndisturbedStep ==
    ASSUME "launch" \notin Faults, Undisturbed, [Next]_vars
    PROVE  Undisturbed'
<1>1. \A s, n : ~LaunchFails(s, n)
  BY DEF LaunchFails
<1>2. Faults = {} => ~DecodeFails
  BY DEF DecodeFails
<1>3. CASE ProcessStep
  <2>1. mainpc' \in {"process", "update", "drain"}
    BY <1>1, <1>3 DEF ProcessStep, PopTask, DrainDone, WaitForTasks, DeferCompletion, Launch, Unlaunch,
       UnlaunchDone, ProcessCancel, ProcessNextResponse, ProcessMetrics, DeferSlotAction,
       ProcessSlotAction, BackToDrain, Undisturbed
  <2> QED
    BY <2>1 DEF Undisturbed, FailPcs
<1>4. CASE ReleaseSlot
  BY <1>4 DEF ReleaseSlot, ReleaseLoop, Undisturbed, FailPcs
<1>5. CASE UpdateStep /\ ~ReleaseSlot /\ ~DecodeFails /\ ~\E s \in Slots : FailSlot(s)
  <2>1. mainpc' \in {"wait", "shift", "shift_release", "prompt", "prompt_release", "aborted", "decode",
                     "sample", "sample_release"}
    BY <1>5 DEF UpdateStep, UpdateIdle, UpdateBegin, ShiftError, ShiftDone, PromptSkip, PromptAdd,
       PromptEnds, PromptDone, DecodeOk, SampleEnds, SampleContinues, UpdateDone, SendAndStop
  <2> QED
    BY <2>1 DEF Undisturbed, FailPcs
<1>6. CASE DecodeFails \/ \E s \in Slots : FailSlot(s)
  BY <1>2, <1>6 DEF DecodeFails, FailSlot, SendAndStop, Undisturbed, FailPcs
<1>7. CASE UNCHANGED mainpc
  BY <1>7 DEF Undisturbed
<1> QED
  BY <1>3, <1>4, <1>5, <1>6, <1>7 DEF Next, vars, loopVars, ReaderStep, AddWaiting, PostTasks, Receive,
     StopRemove, StopPurge, StopCancel, Leave

\* The main thread keeps the chain to the next release.
LEMMA FetchedMain ==
    ASSUME CompletionsOnly, "launch" \notin Faults, Posts, Fetched, Deferrals, Undisturbed,
           ProcessStep \/ UpdateStep
    PROVE  Fetched'
<1>0. QueueTyped /\ Typed
  BY DEF Posts, Typed
<1>1. CASE PopTask
  <2>1. /\ mainpc = "drain" /\ mainpc' = "process" /\ queue_tasks # <<>> /\ cur' = Head(queue_tasks)
        /\ queue_tasks' = Tail(queue_tasks) /\ UNCHANGED <<queue_tasks_deferred, slotVars>>
    BY <1>1 DEF PopTask
  <2>2. <<Head(queue_tasks)>> \o Tail(queue_tasks) = queue_tasks
        /\ Head(queue_tasks) \in Root \cup Control /\ Tail(queue_tasks) \in Seq(Root \cup Control)
    BY <1>0, <2>1, HeadTailProperties DEF QueueTyped
  <2>3. <<Head(queue_tasks)>> \in Seq(Root \cup Control)
    BY <2>2
  <2>4. Elems(queue_tasks) \subseteq Elems(<<Head(queue_tasks)>>) \cup Elems(Tail(queue_tasks))
    BY <2>2, <2>3, ElemsConcat
  <2>5. Fetchers \subseteq Fetchers'
    BY <2>1, <2>4, ElemsSingle DEF Fetchers
  <2>6. Busy' = Busy
    BY <2>1 DEF Busy, IsProcessing, Idle, slotVars
  <2> QED
    BY <2>1, <2>5, <2>6, FetchedKept
<1>2. CASE DeferCompletion
  <2>1. Busy' = Busy
    BY <1>2 DEF DeferCompletion, Busy, IsProcessing, Idle, slotVars
  <2> QED
    BY <1>0, <1>2, <2>1, DeferBusy DEF Fetched
<1>3. ASSUME NEW s \in Slots, Launch(s)
      PROVE  Fetched'
  <2>1. slot_state'[s] = "started"
    BY <1>0, <1>3, LaunchFacts, LaunchedSlot DEF Typed
  <2>2. s \in Busy'
    BY <2>1 DEF Busy, IsProcessing, Idle
  <2> QED
    BY <2>2 DEF Fetched
<1>4. ASSUME NEW s, Release(s)
      PROVE  Fetched'
  BY <1>0, <1>4, FetchedRelease DEF Release
<1>5. ASSUME UNCHANGED queue_tasks_deferred, Elems(queue_tasks) \subseteq Elems(queue_tasks'),
             mainpc = "process" => cur.type \notin CompletionTypes,
             Busy \subseteq Busy'
      PROVE  Fetched'
  <2>1. Fetchers \subseteq Fetchers'
    BY <1>5 DEF Fetchers
  <2> QED
    BY <1>5, <2>1, FetchedKept
<1>6. CASE DrainDone \/ WaitForTasks \/ ProcessNextResponse \/ ProcessMetrics
           \/ (ProcessCancel /\ UNCHANGED <<queueVars, slotVars>>)
  <2>1. UNCHANGED <<queueVars, slotVars>> /\ (mainpc = "process" => cur.type \notin CompletionTypes)
    BY <1>6 DEF DrainDone, WaitForTasks, ProcessNextResponse, ProcessMetrics, ProcessCancel, CompletionTypes
  <2>2. Busy' = Busy
    BY <2>1 DEF Busy, IsProcessing, Idle, slotVars
  <2> QED
    BY <1>5, <2>1, <2>2 DEF queueVars
<1>7. CASE ProcessStep
  <2>1. ~DeferSlotAction /\ ~ProcessSlotAction
    BY NoSlotAction
  <2>2. ~\E s, n : LaunchFails(s, n)
    BY DEF LaunchFails
  <2>3. ~UnlaunchDone /\ ~\E s : Unlaunch(s)
    BY DEF Unlaunch, UnlaunchDone, Undisturbed
  <2>4. ProcessCancel => UNCHANGED <<queueVars, slotVars>> \/ \E s : Release(s)
    BY DEF ProcessCancel
  <2> QED
    BY <1>1, <1>2, <1>3, <1>4, <1>6, <1>7, <2>1, <2>2, <2>3, <2>4 DEF ProcessStep
<1>8. CASE ReleaseSlot
  BY <1>4, <1>8 DEF ReleaseSlot
<1>9. CASE UpdateStep /\ ~ReleaseSlot
  <2>1. UNCHANGED queue_tasks_deferred /\ mainpc # "process"
        /\ (UNCHANGED queue_tasks \/ queue_tasks' = Append(queue_tasks, NextResponse))
    BY <1>9 DEF UpdateStep, UpdateIdle, UpdateBegin, ShiftError, ShiftDone, PromptSkip, PromptAdd,
       PromptEnds, PromptDone, DecodeOk, DecodeFails, FailSlot, SampleEnds, SampleContinues, UpdateDone,
       SendAndStop, queueVars
  <2>2. \/ UNCHANGED slot_state
        \/ \E s \in Slots : \E st \in {"processing_prompt", "done_prompt", "generating"} :
              slot_state' = [slot_state EXCEPT ![s] = st]
        \/ slot_state' = [x \in Slots |-> IF x \in Activated THEN "done_prompt" ELSE slot_state[x]]
    BY <1>9 DEF UpdateStep, UpdateIdle, UpdateBegin, ShiftError, ShiftDone, PromptSkip, PromptAdd,
       PromptEnds, PromptDone, DecodeOk, DecodeFails, FailSlot, SampleEnds, SampleContinues, UpdateDone,
       SendAndStop, slotVars
  <2>3. Busy \subseteq Busy'
    BY <1>0, <2>2 DEF Busy, IsProcessing, Idle, Typed, SlotTyped
  <2>4. Elems(queue_tasks) \subseteq Elems(queue_tasks')
    <3>1. CASE queue_tasks' = Append(queue_tasks, NextResponse)
      <4>1. queue_tasks' = queue_tasks \o <<NextResponse>> /\ <<NextResponse>> \in Seq(Root \cup Control)
        BY <1>0, <3>1, AppendIsConcat, OrdersTyped DEF QueueTyped
      <4> QED
        BY <1>0, <4>1, ElemsJoin DEF QueueTyped
    <3> QED
      BY <2>1, <3>1
  <2> QED
    BY <1>5, <2>1, <2>3, <2>4
<1> QED
  BY <1>7, <1>8, <1>9

\* A client that takes its tasks back holds none of the completions.
LEMMA FetchedReader ==
    ASSUME Posts, Fetched, Withdrawn, NEW c \in Clients, AddWaiting(c) \/ ReaderStep(c) \/ Leave(c)
    PROVE  Fetched'
<1>0. Typed /\ Numbered /\ QueueTyped /\ ReaderTyped
  BY DEF Posts, Typed
<1>1. UNCHANGED <<slotVars, mainpc, cur>>
  BY DEF AddWaiting, ReaderStep, PostTasks, Receive, StopRemove, StopPurge, StopCancel, Leave, loopVars
<1>2. Busy' = Busy
  BY <1>1 DEF Busy, IsProcessing, Idle, slotVars
<1>3. CASE PostTasks(c)
  <2>1. tasks[c] \in Seq(Root \cup Control)
    BY <1>0 DEF ReaderTyped
  <2>2. UNCHANGED queue_tasks_deferred
        /\ (queue_tasks' = tasks[c] \o queue_tasks \/ queue_tasks' = queue_tasks \o tasks[c])
    BY <1>3 DEF PostTasks
  <2>3. Elems(queue_tasks) \subseteq Elems(queue_tasks')
    BY <1>0, <2>1, <2>2, ElemsJoin DEF QueueTyped
  <2>4. Fetchers \subseteq Fetchers'
    BY <1>1, <2>3 DEF Fetchers
  <2> QED
    BY <1>2, <2>2, <2>4, FetchedKept
<1>4. CASE StopCancel(c)
  <2>1. PICK order \in Orders(Ids(c)) :
           queue_tasks' = [i \in DOMAIN order |-> CancelTask(order[i])] \o Without(queue_tasks, Ids(c))
    BY <1>4 DEF StopCancel
  <2> DEFINE cancels == [i \in DOMAIN order |-> CancelTask(order[i])]
             rest == Without(queue_tasks, Ids(c))
  <2>2. Ids(c) \in SUBSET Id /\ Cardinality(Ids(c)) \in Nat
    BY <1>0, IdsLemma DEF ReaderTyped, Ids
  <2>3. cancels \in Seq(Root \cup Control)
    BY <2>2, CancelsTyped
  <2>4. rest \in Seq(Root \cup Control)
    BY <1>0, WithoutLemma DEF QueueTyped
  <2> HIDE DEF cancels
  <2>5. \A t \in Elems(queue_tasks) : t.id \notin Ids(c) => t \in Elems(rest)
    BY <1>0, ElemsWithout DEF QueueTyped
  <2> HIDE DEF rest
  <2>6. Elems(rest) \subseteq Elems(cancels \o rest)
    BY <2>3, <2>4, ElemsJoin
  <2>7. queue_tasks' = cancels \o rest
    BY <2>1 DEF cancels, rest
  <2>8. ASSUME NEW t \in Elems(queue_tasks), t.type \in CompletionTypes
        PROVE  t \in Elems(queue_tasks')
    <3>1. t \in Root
      BY <1>0, <2>8, ElementOfSeq, LenProperties, JobFields DEF QueueTyped, Elems, CompletionTypes
    <3>2. t \in Held
      BY <3>1 DEF Held
    <3>3. Quit(c)
      BY <1>4 DEF StopCancel, Quit
    <3>4. t.id[1] # c
      BY <3>2, <3>3 DEF Withdrawn
    <3>5. t.id \notin Ids(c)
      BY <1>0, <3>4, InTasks
    <3> QED
      BY <2>5, <2>6, <2>7, <3>5
  <2>9. Fetchers \subseteq Fetchers'
    BY <1>1, <2>8 DEF Fetchers
  <2>10. Elems(queue_tasks_deferred') \subseteq Elems(queue_tasks_deferred)
    <3>1. queue_tasks_deferred' = Without(queue_tasks_deferred, Ids(c))
      BY <1>4 DEF StopCancel
    <3> QED
      BY <1>0, <3>1, ElemsWithout DEF QueueTyped
  <2> QED
    BY <1>2, <2>9, <2>10, FetchedKept
<1>5. CASE UNCHANGED queueVars
  <2>1. Fetchers' = Fetchers
    BY <1>1, <1>5 DEF Fetchers, queueVars
  <2> QED
    BY <1>2, <1>5, <2>1, FetchedKept DEF queueVars
<1> QED
  BY <1>3, <1>4, <1>5 DEF AddWaiting, ReaderStep, Receive, StopRemove, StopPurge, Leave

\* A request of one task that gets an error holds nothing any more.
LEMMA SoleError ==
    ASSUME OneEach, Posts, Posts', MainEffect, NEW c \in Clients, ErrorFor(c)', ~ErrorFor(c)
    PROVE  rpc[c] \notin {"idle", "posting"} /\ \A t \in Held' : t.id[1] # c
<1>0. Typed /\ Numbered /\ Owned /\ UNCHANGED readerVars
  BY DEF Posts, MainEffect
<1>1. queue_results' # queue_results
  BY DEF ErrorFor
<1>2. PICK id \in Live, kind \in {"partial", "final", "error"} :
          /\ queue_results' = Append(queue_results, [id |-> id, kind |-> kind])
          /\ id \in waiting_task_ids
          /\ kind # "partial" => id \notin Live'
  BY <1>1 DEF MainEffect, Answered
<1>3. Send(id, kind)
  BY <1>2 DEF Send, MainEffect
<1>4. kind = "error" /\ id[1] = c /\ id \notin Live'
  BY <1>0, <1>2, <1>3, SendErrors
<1>5. PICK d \in Clients : rpc[d] \notin {"idle", "posting"} /\ id \in Ids(d)
  BY <1>0, <1>2, LiveFacts DEF Owned, Posted
<1>6. d = c
  BY <1>0, <1>4, <1>5, InTasks
<1>7. ASSUME NEW t \in Held', t.id[1] = c
      PROVE  FALSE
  <2>1. Soles'
    BY SolesHold, PTL
  <2>2. Ids(c)' = Family(t)
    BY <1>7, <2>1 DEF Soles
  <2>3. id \in Family(t)
    BY <1>0, <1>5, <1>6, <2>2 DEF readerVars, Ids
  <2>4. HeldInPending'
    BY HeldPending, PTL
  <2> QED
    BY <1>4, <2>3, <2>4 DEF HeldInPending, Live
<1> QED
  BY <1>5, <1>6, <1>7

LEMMA WithdrawnStep ==
    ASSUME CompletionsOnly, "launch" \notin Faults, "leave" \notin Faults, Faults = {} \/ OneEach,
           Posts, Posts', Withdrawn, Undisturbed, [Next]_vars
    PROVE  Withdrawn'
<1>0. Typed /\ Numbered /\ Owned
  BY DEF Posts
<1> SUFFICES ASSUME NEW d \in Clients, Quit(d)'
             PROVE  rpc'[d] \notin {"idle", "posting"} /\ \A t \in Held' : t.id[1] # d
  BY DEF Withdrawn
<1>1. CASE ProcessStep \/ UpdateStep
  <2>1. MainEffect /\ UNCHANGED rpc
    BY <1>0, <1>1, LiveProcess, LiveUpdate DEF MainEffect, readerVars
  <2>2. CASE Quit(d)
    BY <1>0, <1>1, <2>1, <2>2, HeldMain DEF Withdrawn
  <2>3. CASE ~Quit(d)
    <3>1. Cancels' \subseteq Cancels
      BY <1>0, <1>1, CancelsMain
    <3>2. ErrorFor(d)' /\ ~ErrorFor(d)
      BY <2>1, <2>3, <3>1 DEF Quit, CancelFor
    <3>3. CASE OneEach
      BY <2>1, <3>2, <3>3, SoleError
    <3>4. CASE Faults = {}
      <4>1. \/ ProcessSlotAction
            \/ \E s \in Slots : \E n \in 0 .. NSlots - 1 : LaunchFails(s, n)
            \/ \E s \in Slots : ShiftError(s) \/ FailSlot(s)
        BY <1>0, <1>1, <3>2, <3>4, ErrorsMain
      <4>2. ~ProcessSlotAction
        BY NoSlotAction
      <4> QED
        BY <3>4, <4>1, <4>2 DEF LaunchFails, ShiftError, FailSlot, Undisturbed, FailPcs
    <3> QED
      BY <3>3, <3>4
  <2> QED
    BY <2>2, <2>3
<1>2. ASSUME NEW c \in Clients, AddWaiting(c) \/ ReaderStep(c)
      PROVE  rpc'[d] \notin {"idle", "posting"} /\ \A t \in Held' : t.id[1] # d
  <2>1. Quit(d)
    BY <1>0, <1>2, QuitReader
  <2>2. rpc[d] \notin {"idle", "posting"} /\ \A t \in Held : t.id[1] # d
    BY <2>1 DEF Withdrawn
  <2>3. \/ UNCHANGED rpc
        \/ AddWaiting(c) /\ rpc[c] = "idle" /\ rpc' = [rpc EXCEPT ![c] = "posting"]
        \/ \E pc \in {"receiving", "finishing", "stopping", "done", "purging", "cancelling"} :
              rpc' = [rpc EXCEPT ![c] = pc]
    BY <1>2 DEF AddWaiting, ReaderStep, PostTasks, Receive, StopRemove, StopPurge, StopCancel
  <2>4. rpc'[d] \notin {"idle", "posting"}
    BY <1>0, <2>2, <2>3 DEF Typed, ReaderTyped
  <2>5. CASE PostTasks(c)
    <3>1. c # d
      BY <2>2, <2>5 DEF PostTasks
    <3>2. \A t \in Elems(tasks[c]) : t.id[1] = c
      <4>1. \A i \in DOMAIN tasks[c] : tasks[c][i].id = <<c, i, 0>>
        BY <1>0 DEF Numbered
      <4> QED
        BY <4>1 DEF Elems
    <3> QED
      BY <1>0, <1>2, <2>2, <2>4, <3>1, <3>2, HeldReader
  <2>6. CASE ~PostTasks(c)
    BY <1>0, <1>2, <2>2, <2>4, <2>6, HeldReader
  <2> QED
    BY <2>5, <2>6
<1>3. CASE UNCHANGED vars
  <2>1. UNCHANGED <<loopVars, mainpc, queue_tasks, queue_tasks_deferred, queue_results, rpc>>
    BY <1>3 DEF vars, queueVars, resultVars, readerVars
  <2>2. Held' = Held /\ Cancels' = Cancels /\ (ErrorFor(d)' <=> ErrorFor(d))
    BY <2>1 DEF Held, Cancels, ErrorFor, loopVars
  <2> QED
    BY <2>1, <2>2 DEF Quit, CancelFor, Withdrawn
<1>4. \A c \in Clients : ~Leave(c)
  BY DEF Leave
<1> QED
  BY <1>1, <1>2, <1>3, <1>4 DEF Next

LEMMA ChainInit == Init => Posts /\ Chain
<1> SUFFICES ASSUME Init
             PROVE  Posts /\ Chain
  OBVIOUS
<1>1. Typed /\ Numbered /\ Owned
  BY TypedInit, OwnedInit
<1>2. Origin /\ Templated
  BY DEF Init, Origin, Held, Elems, Templated
<1>3. \A c \in Clients : ~Quit(c)
  BY DEF Init, Quit, ErrorFor, CancelFor, Cancels, Elems
<1>4. Elems(queue_tasks_deferred) = {} /\ mainpc = "drain"
  BY DEF Init, Elems
<1> QED
  BY <1>1, <1>2, <1>3, <1>4 DEF Posts, Chain, Fetched, Withdrawn, Deferrals, Undisturbed, FailPcs

LEMMA ChainStep ==
    ASSUME CompletionsOnly, "launch" \notin Faults, "leave" \notin Faults, Faults = {} \/ OneEach,
           Posts, Chain, [Next]_vars
    PROVE  Posts' /\ Chain'
<1>1. Posts'
  BY TypedStep, NumberedStep, OwnedStep, OriginStep, TemplatedStep DEF Posts
<1>2. Fetched'
  <2>1. CASE UNCHANGED vars
    <3>1. UNCHANGED <<queue_tasks, queue_tasks_deferred, mainpc, cur, slot_state>>
      BY <2>1 DEF vars, queueVars, loopVars, slotVars
    <3>2. Fetchers' = Fetchers /\ Busy' = Busy
      BY <3>1 DEF Fetchers, Busy, IsProcessing, Idle
    <3> QED
      BY <3>1, <3>2, FetchedKept DEF Chain
  <2> QED
    BY <2>1, FetchedMain, FetchedReader DEF Next, Chain
<1>3. Withdrawn'
  BY <1>1, WithdrawnStep DEF Chain
<1>4. Deferrals' /\ Undisturbed'
  BY DeferralsStep, UndisturbedStep DEF Chain
<1> QED
  BY <1>1, <1>2, <1>3, <1>4 DEF Chain

\* When the main loop rests, a task is deferred only because some slot is busy:
\* for completions and embeddings (which no slot action joins in the deferred
\* queue), if no launch fails and no client leaves while it waits, and if
\* nothing else fails either or every request is one task.
THEOREM DeferredHasBusySlotHolds ==
    ASSUME CompletionsOnly, "launch" \notin Faults, "leave" \notin Faults, Faults = {} \/ OneEach
    PROVE  Spec => []DeferredHasBusySlot
<1>1. Posts /\ Chain /\ [Next]_vars => Posts' /\ Chain'
  BY ChainStep
<1>2. ASSUME Posts, Chain
      PROVE  DeferredHasBusySlot
  <2> SUFFICES ASSUME mainpc = "wait", queue_tasks = <<>>, queue_tasks_deferred # <<>>
               PROVE  IdleSlots # Slots
    BY DEF DeferredHasBusySlot
  <2>1. 1 \in DOMAIN queue_tasks_deferred
    BY <1>2, LenProperties, EmptySeq DEF Posts, Typed, QueueTyped
  <2>2. Elems(queue_tasks_deferred) # {} /\ Fetchers = {}
    BY <2>1 DEF Elems, Fetchers
  <2>3. Busy # {}
    BY <1>2, <2>2 DEF Chain, Fetched
  <2> QED
    BY <2>3 DEF Busy, IsProcessing, IdleSlots
<1> QED
  BY <1>1, <1>2, ChainInit, PTL DEF Spec
=============================================================================
